SPECIFICATION Spec
CONSTANTS
  o1 = o1
  o2 = o2
  w1 = w1
  w2 = w2
  Order = {o1, o2}
  Worker = {w1, w2}
  Job = job
  Company = {o1}
  Peak = {}
  Appointment = {o1, o2}
  MaxTrade = 1
  MaxCount = 2
  CancelLimit = 5
  MaxFault = 0
  Ops <- BatchOps
  NoOrder = NoOrder
  NoThread = NoThread
  NoRow = NoRow
SYMMETRY Workers
INVARIANT UserRefundIsReal
PROPERTY PaymentNeverForgotten
