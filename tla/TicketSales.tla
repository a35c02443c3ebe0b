----------------------------- MODULE TicketSales -----------------------------
(***************************************************************************)
(* The sale of a ticket as seen by the two checks in front of it: seats of *)
(* a departure (checkAppointment) and the user's unused tickets            *)
(* (checkExitsNotTravelPeak).  Both read t_order, answer, and leave it to  *)
(* a later step to save the order, and to a still later one to make it     *)
(* count: only orders of status "1" and "2" are looked at, and an order    *)
(* becomes "1" when it is paid.                                            *)
(*                                                                         *)
(* OrderService models what the order goes through; here that life is cut  *)
(* down to the columns the checks read.                                    *)
(***************************************************************************)
EXTENDS Naturals, FiniteSets

CONSTANTS
  Order,     \* purchases; each is made by one request
  User, Slot,
  UserOf,    \* the buyer of an order
  SlotOf,    \* its trip_time; NoSlot for those who want to leave now
  Seats,     \* its ticketNumber
  Peak,      \* bought in the rush hour to leave now (routeType "1")
  Company,   \* bought through buyTicketByCompany, paid at once
  Total,     \* system parameter APPOINTMENT_NUMBER
  NoSlot

ASSUME SalesAssumption ==
  /\ IsFiniteSet(Order) /\ NoSlot \notin Slot
  /\ UserOf \in [Order -> User] /\ SlotOf \in [Order -> Slot \cup {NoSlot}]
  /\ Seats \in [Order -> Nat] /\ Total \in Nat
  /\ Company \subseteq Order
  /\ Peak \subseteq {o \in Order : SlotOf[o] = NoSlot}

VARIABLES
  step,      \* how far the request that buys the order has come
  status,    \* order_status
  paid,      \* is_pay
  inHand,    \* orders a refund page or a scan has loaded as unused
  old,       \* create_date is before the last midnight
  closed,    \* departures less than ten minutes away
  crossed    \* sales that ran into another sale or into midnight (history)

vars == <<step, status, paid, inHand, old, closed, crossed>>

Step   == {"idle", "checked", "cleared", "saved", "refused"}
Status == {"none", "created", "toUse", "riding", "gone"}

Counted(o) == status[o] \in {"toUse", "riding"}
InSlot(s)  == {o \in Order : SlotOf[o] = s}

\* The tickets of the orders in S, one by one: their number is the sum of
\* passengers_num.
Tickets(S) == UNION {{o} \X (1 .. Seats[o]) : o \in S}
Booked(s)  == Cardinality(Tickets({o \in InSlot(s) : Counted(o)}))

RouteType(o) == IF o \in Peak THEN "1" ELSE "0"
Alike(o) == {p \in Order : UserOf[p] = UserOf[o] /\ RouteType(p) = RouteType(o)}
Unused(o) == {p \in Alike(o) : status[p] = "toUse" /\ p \notin old}

\* Orders that may still come to count: the sale is under way, or nobody has
\* paid yet (a payment revives an expired order, too), or a handler holds a
\* copy of the order as it was when it counted.
Pending(o) ==
  \/ step[o] \in {"checked", "cleared"}
  \/ step[o] = "saved" /\ ~paid[o]
  \/ o \in inHand

\* History: a check of o that finds pending orders among S has met them.
Met(o, S) ==
  LET others == {p \in S \ {o} : Pending(p)} IN
  IF others = {} THEN crossed ELSE crossed \cup others \cup {o}

-----------------------------------------------------------------------------
(* buyTicket and buyTicketByCompany.                                       *)

\* Mutant: the last seat is sold, too.
SeatsUpTo(o) == Booked(SlotOf[o]) + Seats[o] <= Total

SeatsLeft(o) == Booked(SlotOf[o]) + Seats[o] < Total

\* checkAppointment: IF seats are left by its count THEN go on, else refuse.
\* Without an appointment there is nothing to check.  create_date is taken now.
CheckAppointment(o) ==
  /\ step[o] = "idle"
  /\ step' = [step EXCEPT ![o] =
       IF SlotOf[o] = NoSlot \/ (SlotOf[o] \notin closed /\ SeatsLeft(o))
       THEN "checked" ELSE "refused"]
  /\ crossed' = IF SlotOf[o] = NoSlot THEN crossed ELSE Met(o, InSlot(SlotOf[o]))
  /\ UNCHANGED <<status, paid, inHand, old, closed>>

\* One to five tickets, and one only in the rush hour.
NumberAllowed(o) == Seats[o] # 0 /\ Seats[o] <= 5 /\ (o \in Peak => Seats[o] = 1)

\* Mutant: one unused ticket is tolerated.
FewUnused(o) == Cardinality(Unused(o)) <= 1

NoneUnused(o) == Cardinality(Unused(o)) < 1

\* checkExitsNotTravelPeak: IF the user holds no unused ticket of this type made
\* today THEN go on, else refuse.
CheckExitsNotTravelPeak(o) ==
  /\ step[o] = "checked"
  /\ step' = [step EXCEPT ![o] =
       IF NumberAllowed(o) /\ NoneUnused(o) THEN "cleared" ELSE "refused"]
  /\ crossed' = Met(o, Alike(o))
  /\ UNCHANGED <<status, paid, inHand, old, closed>>

\* Mutant: every order is saved as usable.
SavedUsable(o) == "toUse"

SavedStatus(o) == IF o \in Company THEN "toUse" ELSE "created"

\* addOrder: the order is saved, for a company as paid and unused.
AddOrder(o) ==
  /\ step[o] = "cleared"
  /\ step' = [step EXCEPT ![o] = "saved"]
  /\ status' = [status EXCEPT ![o] = SavedStatus(o)]
  /\ paid' = [paid EXCEPT ![o] = o \in Company]
  /\ UNCHANGED <<inHand, old, closed, crossed>>

-----------------------------------------------------------------------------
(* What happens to the order afterwards.                                   *)

\* queryWechatPayResult books the payment whatever the status is by then.
BookPayment(o) ==
  /\ step[o] = "saved" /\ ~paid[o]
  /\ paid' = [paid EXCEPT ![o] = TRUE]
  /\ status' = [status EXCEPT ![o] = "toUse"]
  /\ UNCHANGED <<step, inHand, old, closed, crossed>>

\* A refund page or a scan loads an unused order ...
Load(o) ==
  /\ status[o] = "toUse"
  /\ inHand' = inHand \cup {o}
  /\ UNCHANGED <<step, status, paid, old, closed, crossed>>

\* ... and writes it back as unused, or as boarded, whatever it is by now.
WriteBack(o) ==
  /\ o \in inHand
  /\ \E s \in {"toUse", "riding"} : status' = [status EXCEPT ![o] = s]
  /\ inHand' = inHand \ {o}
  /\ UNCHANGED <<step, paid, old, closed, crossed>>

\* Expiry, cancellation, the nightly job, the end of the ride.
Leave(o) ==
  /\ status[o] \in {"created", "toUse", "riding"}
  /\ status' = [status EXCEPT ![o] = "gone"]
  /\ UNCHANGED <<step, paid, inHand, old, closed, crossed>>

\* Ten minutes before departure.
SlotCloses(s) ==
  /\ s \notin closed
  /\ closed' = closed \cup {s}
  /\ UNCHANGED <<step, status, paid, inHand, old, crossed>>

UnderWay == {o \in Order : step[o] \in {"checked", "cleared"}}
Midnight ==
  /\ old' = {o \in Order : step[o] # "idle"} /\ old' # old
  /\ crossed' = crossed \cup UnderWay
  /\ UNCHANGED <<step, status, paid, inHand, closed>>

Init ==
  /\ step = [o \in Order |-> "idle"]
  /\ status = [o \in Order |-> "none"]
  /\ paid = [o \in Order |-> FALSE]
  /\ inHand = {} /\ old = {} /\ closed = {} /\ crossed = {}

Next ==
  \/ \E o \in Order :
       \/ CheckAppointment(o) \/ CheckExitsNotTravelPeak(o) \/ AddOrder(o)
       \/ BookPayment(o) \/ Load(o) \/ WriteBack(o) \/ Leave(o)
  \/ \E s \in Slot : SlotCloses(s)
  \/ Midnight

Spec == Init /\ [][Next]_vars

-----------------------------------------------------------------------------
\* Shapes of the columns; an order has a status once it is saved, and counts
\* only if it was paid for.
TypeOK ==
  /\ step \in [Order -> Step] /\ status \in [Order -> Status]
  /\ paid \in [Order -> BOOLEAN]
  /\ inHand \subseteq Order /\ old \subseteq Order /\ crossed \subseteq Order
  /\ closed \subseteq Slot
  /\ \A o \in Order : /\ status[o] # "none" <=> step[o] = "saved"
                      /\ Counted(o) => paid[o]

\* A departure sells its seats up to the limit, the last one excluded, as long
\* as its sales do not meet: when an order that met no other sale starts to
\* count, the departure is not full.  Unpaid orders and orders held by a stale
\* page are why a sale that meets another has no such guarantee.
LoneSaleKeepsLimit ==
  [][\A o \in Order \ crossed :
       SlotOf[o] # NoSlot /\ paid'[o] /\ ~paid[o] => Booked(SlotOf[o])' < Total]_vars

\* A user whose sales do not meet never holds two unused tickets of one type
\* made since the last midnight.
LoneSaleIsOnlyTicket ==
  \A o, p \in Order \ (crossed \cup old) :
    p \in Alike(o) \ {o} => ~(status[o] = "toUse" /\ status[p] = "toUse")
=============================================================================
