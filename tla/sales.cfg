SPECIFICATION Spec
CONSTANTS
  a1 = a1
  a2 = a2
  a3 = a3
  b1 = b1
  alice = alice
  bob = bob
  noon = noon
  Order = {a1, a2, a3, b1}
  User = {alice, bob}
  Slot = {noon}
  UserOf <- Buyers
  SlotOf <- Trips
  Seats <- Number
  Peak = {a3}
  Company = {b1}
  Total = 4
  NoSlot = NoSlot
INVARIANT TypeOK
INVARIANT LoneSaleIsOnlyTicket
PROPERTY LoneSaleKeepsLimit
CHECK_DEADLOCK FALSE
