SPECIFICATION Spec
CONSTANTS
  o1 = o1
  w1 = w1
  w2 = w2
  Order = {o1}
  Worker = {w1, w2}
  Job = job
  Company = {}
  Peak = {}
  Appointment = {}
  MaxTrade = 1
  MaxCount = 2
  CancelLimit = 5
  MaxFault = 0
  Ops <- AllOps
  NoOrder = NoOrder
  NoThread = NoThread
  NoRow = NoRow
SYMMETRY Workers
PROPERTY PaymentTimerSparesPaid
