--------------------------- MODULE PaymentLedger ---------------------------
(***************************************************************************)
(* What order payment promises, without handlers, threads or stale rows:   *)
(* an order counts as paid only with money behind it or because it is      *)
(* free, it stays so, its payment is entered in the books at most once,    *)
(* and money goes back only out of a trade that was collected, and only    *)
(* for an order that counts as paid.                                       *)
(***************************************************************************)
CONSTANTS Order, Free, Trade

VARIABLES
  collected,  \* trades of each order whose money has come in
  returned,   \* trades of each order whose money has gone back
  paid,       \* orders that count as paid
  booked      \* orders whose payment is in the books

lvars == <<collected, returned, paid, booked>>

Init ==
  /\ collected = [o \in Order |-> {}] /\ returned = [o \in Order |-> {}]
  /\ paid = {} /\ booked = {}

Collect(o) ==
  /\ \E n \in Trade \ collected[o] :
       collected' = [collected EXCEPT ![o] = @ \cup {n}]
  /\ UNCHANGED <<returned, paid, booked>>

Settle(o) ==
  /\ o \notin paid
  /\ o \in Free \/ collected[o] # {}
  /\ paid' = paid \cup {o}
  /\ UNCHANGED <<collected, returned, booked>>

Book(o) ==
  /\ o \in paid \ booked
  /\ booked' = booked \cup {o}
  /\ UNCHANGED <<collected, returned, paid>>

Return(o) ==
  /\ o \in paid
  /\ \E n \in collected[o] \ returned[o] :
       returned' = [returned EXCEPT ![o] = @ \cup {n}]
  /\ UNCHANGED <<collected, paid, booked>>

Next == \E o \in Order : Collect(o) \/ Settle(o) \/ Book(o) \/ Return(o)

Spec == Init /\ [][Next]_lvars
=============================================================================
