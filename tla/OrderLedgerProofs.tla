-------------------------- MODULE OrderLedgerProofs --------------------------
(***************************************************************************)
(* OrderService implements PaymentLedger, for every value of the constants *)
(* (ImplementsLedger): each step of each handler maps to one step of the   *)
(* ledger, or leaves the books alone.                                      *)
(*                                                                         *)
(* Booking a payment needs what OrderSerialProofs shows of the monitor.    *)
(* A refund needs one thing more: the order was found paid some calls ago, *)
(* and that is still so when WeChat is asked (AsksPaid).                   *)
(***************************************************************************)
EXTENDS OrderSerialProofs

\* Whoever asks WeChat for a refund does it for an order that counts as paid.
AsksPaid == \A t \in Thread : At(t, "wxRefund") => row[task[t].o].isPay

-----------------------------------------------------------------------------
(* Refunds are asked for paid orders only.                                 *)

\* The thread that moves asks for a paid order or for none, and others keep
\* their orders paid.
LEMMA MovesAsk ==
  ASSUME IInv, AsksPaid, KeepsPaid(row, row'), NEW t \in Thread, NEW k,
         task' = [task EXCEPT ![t] = k], k.pc = "wxRefund" => row'[k.o].isPay
  PROVE  AsksPaid'
<1>1. task \in [Thread -> Task]
  BY DEF IInv, TypeOK
<1>2. ASSUME NEW u \in Thread, At(u, "wxRefund")' PROVE row'[task'[u].o].isPay
  <2>1. CASE u = t
    BY <1>1, <1>2, <2>1 DEF At
  <2>2. CASE u # t
    <3>1. task'[u] = task[u] /\ At(u, "wxRefund")
      BY <1>1, <1>2, <2>2 DEF At
    <3>2. task[u].o \in Order
      BY <3>1, Unfolded DEF GoodTask, NoOrderPc, At
    <3> QED
      BY <3>1, <3>2 DEF AsksPaid, KeepsPaid
  <2> QED
    BY <2>1, <2>2
<1> QED
  BY <1>2 DEF AsksPaid

\* A handler that starts asks for no refund yet.
LEMMA StartsAsk ==
  ASSUME IInv, AsksPaid, KeepsPaid(row, row'), NEW t \in Thread,
         NEW op, NEW pc, NEW o, NEW copy, Begin(t, op, pc, o, copy), pc # "wxRefund"
  PROVE  AsksPaid'
<1> DEFINE k == [op |-> op, pc |-> pc, o |-> o, n |-> 0, copy |-> copy]
<1>1. task' = [task EXCEPT ![t] = k] /\ k.pc # "wxRefund"
  BY DEF Begin
<1> HIDE DEF k
<1> QED
  BY <1>1, MovesAsk

\* A handler that ends, or goes on to another call, does not ask.
LEMMA GoesAsk ==
  ASSUME IInv, AsksPaid, KeepsPaid(row, row'), NEW t \in Thread,
         Finish(t) \/ \E pc : pc # "wxRefund" /\ Goto(t, pc)
  PROVE  AsksPaid'
<1>1. CASE Finish(t)
  <2>1. Idle.pc # "wxRefund"
    BY DEF Idle
  <2> QED
    BY <1>1, <2>1, MovesAsk DEF Finish
<1>2. CASE \E pc : pc # "wxRefund" /\ Goto(t, pc)
  <2>1. PICK pc : pc # "wxRefund" /\ Goto(t, pc)
    BY <1>2
  <2> DEFINE k == [task[t] EXCEPT !.pc = pc]
  <2>2. task' = [task EXCEPT ![t] = k] /\ k.pc # "wxRefund"
    BY <2>1, Unfolded DEF Goto, Task
  <2> HIDE DEF k
  <2> QED
    BY <2>2, MovesAsk
<1> QED
  BY <1>1, <1>2

\* No thread moves.
LEMMA AsideAsk ==
  ASSUME IInv, AsksPaid, KeepsPaid(row, row'), task' = task
  PROVE  AsksPaid'
BY Unfolded DEF AsksPaid, KeepsPaid, At, GoodTask, NoOrderPc

\* Requests.
LEMMA RequestsAsk ==
  ASSUME IInv, AsksPaid, KeepsPaid(row, row'), NEW t \in Thread, NEW o \in Order,
         RequestStarts(t, o) \/ Dispatch(t, o)
  PROVE  AsksPaid'
<1>1. CASE BuyTicket(t, o)
  BY <1>1, StartsAsk DEF BuyTicket
<1>2. CASE LoadPayPre(t, o)
  BY <1>2, StartsAsk DEF LoadPayPre
<1>3. CASE QueryPay(t, o)
  BY <1>3, StartsAsk DEF QueryPay
<1>4. CASE SetExpOrder(t, o)
  BY <1>4, StartsAsk DEF SetExpOrder
<1>5. CASE RefundPage(t, o)
  BY <1>5, StartsAsk DEF RefundPage
<1>6. CASE CancelOrder(t, o)
  <2> DEFINE pc == IF RefundDue(o) THEN "applyRefund" ELSE "cancelWrite"
             copy == Only(o, [row[o] EXCEPT !.status = "expired", !.isCancel = "1"])
  <2>1. Begin(t, "cancel", pc, o, copy)
    BY <1>6 DEF CancelOrder
  <2>2. pc # "wxRefund"
    OBVIOUS
  <2> HIDE DEF pc, copy
  <2> QED
    BY <2>1, <2>2, StartsAsk
<1>7. CASE RequestRefund(t, o)
  BY <1>7, StartsAsk DEF RequestRefund
<1>8. CASE CheckQrCallBack(t, o)
  BY <1>8, StartsAsk DEF CheckQrCallBack
<1>9. CASE CarArrives(t, o)
  BY <1>9, StartsAsk DEF CarArrives
<1>10. CASE SetRouteOrderExpire(t, o)
  BY <1>10, StartsAsk DEF SetRouteOrderExpire
<1>11. CASE Dispatch(t, o)
  BY <1>11, StartsAsk DEF Dispatch
<1> QED
  BY <1>1, <1>2, <1>3, <1>4, <1>5, <1>6, <1>7, <1>8, <1>9, <1>10, <1>11 DEF RequestStarts

\* Timer events and jobs.
LEMMA JobsAsk ==
  ASSUME IInv, AsksPaid, KeepsPaid(row, row'), NEW t \in Thread,
         \/ \E e \in events : SetOrderExpire(t, e)
         \/ SysCancalOrder(t) \/ UpdatePeakOrder(t)
  PROVE  AsksPaid'
<1>1. ASSUME NEW e, SetOrderExpire(t, e) PROVE AsksPaid'
  <2>1. CASE StillWaiting(e[1], e[2])
    BY <1>1, <2>1, StartsAsk DEF SetOrderExpire
  <2>2. CASE ~StillWaiting(e[1], e[2])
    BY <1>1, <2>2, AsideAsk DEF SetOrderExpire
  <2> QED
    BY <2>1, <2>2
<1>2. CASE SysCancalOrder(t)
  BY <1>2, StartsAsk DEF SysCancalOrder
<1>3. CASE UpdatePeakOrder(t)
  BY <1>3, StartsAsk DEF UpdatePeakOrder
<1> QED
  BY <1>1, <1>2, <1>3

\* The two steps that go on to ask: applyRefund has just found the order paid,
\* and sysCancalOrder's list was loaded from paid orders.
LEMMA ApplyRefundAsk ==
  ASSUME IInv, AsksPaid, KeepsPaid(row, row'), NEW t \in Thread, ApplyRefund(t)
  PROVE  AsksPaid'
<1>1. CASE ~Refundable(task[t].o)
  BY <1>1, GoesAsk DEF ApplyRefund
<1>2. CASE Refundable(task[t].o) /\ task[t].o \in Company
  BY <1>2, GoesAsk DEF ApplyRefund
<1>3. CASE Refundable(task[t].o) /\ task[t].o \notin Company
  <2> DEFINE k == [task[t] EXCEPT !.pc = "wxRefund", !.n = row[task[t].o].tradeNo]
  <2>1. task' = [task EXCEPT ![t] = k] /\ row' = row
    BY <1>3 DEF ApplyRefund, db
  <2>2. k.o = task[t].o
    BY Unfolded DEF Task
  <2> HIDE DEF k
  <2> QED
    BY <1>3, <2>1, <2>2, MovesAsk DEF Refundable
<1> QED
  BY <1>1, <1>2, <1>3

LEMMA SysRefundAsk ==
  ASSUME IInv, AsksPaid, KeepsPaid(row, row'), NEW t \in Thread, NEW o \in Order,
         SysRefund(t, o)
  PROVE  AsksPaid'
<1> DEFINE k == [task[t] EXCEPT !.pc = "wxRefund", !.o = o,
                               !.n = task[t].copy[o].tradeNo, !.copy[o] = NoRow]
<1>1. task' = [task EXCEPT ![t] = k]
  BY DEF SysRefund
<1>2. k.o = o
  BY Unfolded DEF Task
<1>3. row[o].isPay /\ row' = row
  BY Unfolded DEF SysRefund, Loaded, GoodTask, db
<1> HIDE DEF k
<1> QED
  BY <1>1, <1>2, <1>3, MovesAsk

\* Calls after which a handler goes on to one other, or ends.
LEMMA PlainAsk ==
  ASSUME IInv, AsksPaid, KeepsPaid(row, row'), NEW t \in Thread,
         \/ SetPayKey(t) \/ IssueTrade(t) \/ TradePaid(t) \/ TradeUnpaid(t)
         \/ SetRideKey(t) \/ SaveSerial(t) \/ ExecuteOrderExpire(t) \/ RoutingAnswers(t)
         \/ RoutingFails(t) \/ PageWrite(t) \/ CancelWrite(t) \/ WxRefund(t)
         \/ WxRefundFails(t) \/ SaveRefundRow(t) \/ SysUpdate(t) \/ Board(t)
         \/ FinishRide(t) \/ AssignCar(t) \/ NightlyWrite(t) \/ Crash(t)
  PROVE  AsksPaid'
<1>1. \/ Finish(t)
      \/ \E pc \in {"rideKey", "serial", "refundRow", "sysRefund", "markRefunded"} : Goto(t, pc)
  BY DEF SetPayKey, IssueTrade, TradePaid, TradeUnpaid, SetRideKey, SaveSerial,
         ExecuteOrderExpire, RoutingAnswers, RoutingFails, PageWrite, CancelWrite, WxRefund,
         WxRefundFails, SaveRefundRow, SysUpdate, Board, FinishRide, AssignCar,
         NightlyWrite, Crash
<1> QED
  BY <1>1, GoesAsk

\* Calls that change more of the task than where it stands.
LEMMA OthersAsk ==
  ASSUME IInv, AsksPaid, KeepsPaid(row, row'), NEW t \in Thread,
         EnterMonitor(t) \/ MarkRefunded(t) \/ ScanAppointments(t) \/ SysPhaseEnds(t)
  PROVE  AsksPaid'
<1>1. CASE Finish(t)
  BY <1>1, GoesAsk
<1>2. CASE EnterMonitor(t) /\ ~Finish(t)
  <2> DEFINE k == [task[t] EXCEPT !.pc = "query", !.n = row[task[t].o].tradeNo]
  <2>1. task' = [task EXCEPT ![t] = k]
    BY <1>2 DEF EnterMonitor
  <2>2. k.pc = "query"
    BY Unfolded DEF Task
  <2> HIDE DEF k
  <2> QED
    BY <2>1, <2>2, MovesAsk
<1>3. CASE MarkRefunded(t) /\ ~Finish(t)
  <2> DEFINE k == [task[t] EXCEPT !.pc = "cancelWrite", !.copy[task[t].o].isRefund = "2"]
  <2>1. task' = [task EXCEPT ![t] = k]
    BY <1>3 DEF MarkRefunded
  <2>2. k.pc = "cancelWrite"
    BY Unfolded DEF Task
  <2> HIDE DEF k
  <2> QED
    BY <2>1, <2>2, MovesAsk
<1>4. CASE ScanAppointments(t) /\ ~Finish(t)
  <2> DEFINE k == [op |-> "sysAppointment", pc |-> "sysUpdate", o |-> NoOrder, n |-> 0,
                   copy |-> Load(Stranded(Appointment))]
  <2>1. task' = [task EXCEPT ![t] = k] /\ k.pc = "sysUpdate"
    BY <1>4 DEF ScanAppointments
  <2> HIDE DEF k
  <2> QED
    BY <2>1, MovesAsk
<1>5. CASE SysPhaseEnds(t) /\ ~Finish(t)
  <2> DEFINE k == [Idle EXCEPT !.op = "sysRealtime", !.pc = "scanAgain"]
  <2>1. task' = [task EXCEPT ![t] = k] /\ k.pc = "scanAgain"
    BY <1>5 DEF SysPhaseEnds, Idle
  <2> HIDE DEF k
  <2> QED
    BY <2>1, MovesAsk
<1> QED
  BY <1>1, <1>2, <1>3, <1>4, <1>5

\* Every step keeps it.
LEMMA NextAsk ==
  ASSUME IInv, AsksPaid, [Next]_vars
  PROVE  AsksPaid'
<1>0. KeepsPaid(row, row')
  BY NextInv
<1>1. CASE \E t \in Worker, o \in Order : RequestStarts(t, o)
  BY <1>0, <1>1, RequestsAsk DEF Thread
<1>2. CASE \E t \in Worker : SysCancalOrder(t) \/ \E e \in events : SetOrderExpire(t, e)
  BY <1>0, <1>2, JobsAsk DEF Thread
<1>3. CASE JobStarts
  BY <1>0, <1>3, JobsAsk, RequestsAsk DEF JobStarts, Thread
<1>4. CASE \E t \in Thread : Continue(t) \/ Crash(t)
  BY <1>0, <1>4, PlainAsk, OthersAsk, ApplyRefundAsk, SysRefundAsk DEF Continue
<1>5. CASE Elsewhere
  <2>1. task' = task
    BY <1>5 DEF Elsewhere, KeyExpires, BecomeLate, BecomeDue, UserPays, LoseEvent, Midnight
  <2> QED
    BY <1>0, <2>1, AsideAsk
<1>6. CASE UNCHANGED vars
  BY <1>0, <1>6, AsideAsk DEF vars
<1> QED
  BY <1>1, <1>2, <1>3, <1>4, <1>5, <1>6 DEF Next

-----------------------------------------------------------------------------
(* The refinement mapping.                                                 *)

\* Money that came in for an order, from WeChat's view.
Collected(o) == {n \in 1 .. MaxTrade : trade[o][n] \in {"paid", "refunded"}}

\* The ledger's books do not move when neither money nor the columns they are
\* read from do.
LEMMA BooksRest ==
  ASSUME \A o \in Order : Collected(o)' = Collected(o) /\ Refunded(o)' = Refunded(o),
         QuietTable
  PROVE  UNCHANGED Ledger!lvars
<1>1. /\ \A o \in Order : row'[o].isPay = row[o].isPay
      /\ serial' = serial
  BY DEF QuietTable
<1>2. [o \in Order |-> Collected(o)]' = [o \in Order |-> Collected(o)]
  OBVIOUS
<1>3. [o \in Order |-> Refunded(o)]' = [o \in Order |-> Refunded(o)]
  OBVIOUS
<1>4. {o \in Order : row[o].isPay}' = {o \in Order : row[o].isPay}
  BY <1>1
<1>5. {o \in Order : serial[o] > 0}' = {o \in Order : serial[o] > 0}
  BY <1>1
<1> QED
  BY <1>2, <1>3, <1>4, <1>5 DEF Ledger!lvars, Collected

\* Nor when WeChat's trades are left alone altogether.
LEMMA TradesRest ==
  ASSUME trade' = trade, QuietTable
  PROVE  UNCHANGED Ledger!lvars
<1>1. \A o \in Order : Collected(o)' = Collected(o) /\ Refunded(o)' = Refunded(o)
  BY DEF Collected, Refunded
<1> QED
  BY <1>1, BooksRest

\* An order starts to count as paid: the ledger settles it.
LEMMA Settles ==
  ASSUME IInv, NEW o \in Order, NEW r \in Row, row' = [row EXCEPT ![o] = r],
         r.isPay = TRUE, ~row[o].isPay, serial' = serial, trade' = trade,
         o \in Company \/ Collected(o) # {}
  PROVE  Ledger!Settle(o)
<1>1. row \in [Order -> Row]
  BY DEF IInv, TypeOK
<1>2. {p \in Order : row[p].isPay}' = {p \in Order : row[p].isPay} \cup {o}
  BY <1>1
<1>3. o \notin {p \in Order : row[p].isPay}
  OBVIOUS
<1>4. o \in Company \/ [p \in Order |-> Collected(p)][o] # {}
  OBVIOUS
<1>5. /\ [p \in Order |-> Collected(p)]' = [p \in Order |-> Collected(p)]
      /\ [p \in Order |-> Refunded(p)]' = [p \in Order |-> Refunded(p)]
      /\ {p \in Order : serial[p] > 0}' = {p \in Order : serial[p] > 0}
  BY DEF Collected, Refunded
<1> QED
  BY <1>2, <1>3, <1>4, <1>5 DEF Ledger!Settle, Collected

-----------------------------------------------------------------------------
(* Steps that move money.                                                  *)

\* One trade number of one order moves on at WeChat.
LEMMA TradeMoves ==
  ASSUME IInv, NEW o \in Order, NEW n \in 1 .. MaxTrade, NEW s,
         trade' = [trade EXCEPT ![o][n] = s]
  PROVE  /\ trade'[o][n] = s
         /\ \A m \in 1 .. MaxTrade : m # n => trade'[o][m] = trade[o][m]
         /\ \A p \in Order : p # o => trade'[p] = trade[p]
<1>1. trade \in [Order -> [1 .. MaxTrade -> TradeState]]
  BY DEF IInv, TypeOK
<1> QED
  BY <1>1

\* The user pays: the ledger collects.
LEMMA Collects ==
  ASSUME IInv, NEW o \in Order, NEW n \in 1 .. MaxTrade, UserPays(o, n)
  PROVE  Ledger!Collect(o)
<1>1. trade[o][n] = "open" /\ trade' = [trade EXCEPT ![o][n] = "paid"]
  BY DEF UserPays
<1>2. /\ trade'[o][n] = "paid"
      /\ \A m \in 1 .. MaxTrade : m # n => trade'[o][m] = trade[o][m]
      /\ \A p \in Order : p # o => trade'[p] = trade[p]
  BY <1>1, TradeMoves
<1>3. n \notin Collected(o) /\ Collected(o)' = Collected(o) \cup {n}
  BY <1>1, <1>2 DEF Collected
<1>4. \A p \in Order : p # o => Collected(p)' = Collected(p)
  BY <1>2 DEF Collected
<1>5. \A p \in Order : Refunded(p)' = Refunded(p)
  BY <1>1, <1>2 DEF Refunded
<1>6. row' = row /\ serial' = serial
  BY DEF UserPays, db
<1> DEFINE C == [p \in Order |-> Collected(p)]
<1>7. C' = [C EXCEPT ![o] = @ \cup {n}] /\ n \notin C[o]
  BY <1>3, <1>4
<1>8. [p \in Order |-> Refunded(p)]' = [p \in Order |-> Refunded(p)]
  BY <1>5
<1> QED
  BY <1>6, <1>7, <1>8 DEF Ledger!Collect, Collected

\* WeChat pays back a trade that was collected, for an order that counts as
\* paid: the ledger returns it.
LEMMA Returns ==
  ASSUME IInv, AsksPaid, NEW t \in Thread, WxRefund(t)
  PROVE  \E o \in Order : Ledger!Return(o)
<1>1. PICK o \in Order, n \in 1 .. MaxTrade :
        /\ o = task[t].o /\ trade[o][n] = "paid"
        /\ trade' = [trade EXCEPT ![o][n] = "refunded"]
  <2>1. task[t].o \in Order
    BY Unfolded DEF WxRefund, GoodTask, NoOrderPc, At
  <2>2. task[t].n \in 1 .. MaxTrade
    BY Unfolded, BoundsAssumption DEF WxRefund, Task
  <2> QED
    BY <2>1, <2>2 DEF WxRefund
<1>2. row[o].isPay
  BY <1>1 DEF WxRefund, AsksPaid
<1>3. /\ trade'[o][n] = "refunded"
      /\ \A m \in 1 .. MaxTrade : m # n => trade'[o][m] = trade[o][m]
      /\ \A p \in Order : p # o => trade'[p] = trade[p]
  BY <1>1, TradeMoves
<1>4. \A p \in Order : Collected(p)' = Collected(p)
  BY <1>1, <1>3 DEF Collected
<1>5. /\ n \in Collected(o) /\ n \notin Refunded(o)
      /\ Refunded(o)' = Refunded(o) \cup {n}
  BY <1>1, <1>3 DEF Collected, Refunded
<1>6. \A p \in Order : p # o => Refunded(p)' = Refunded(p)
  BY <1>3 DEF Refunded
<1>7. row' = row /\ serial' = serial
  BY DEF WxRefund, db
<1> DEFINE C == [p \in Order |-> Collected(p)]
           R == [p \in Order |-> Refunded(p)]
<1>8. C' = C
  BY <1>4
<1>9. R' = [R EXCEPT ![o] = @ \cup {n}] /\ n \in C[o] \ R[o]
  BY <1>5, <1>6
<1> QED
  BY <1>2, <1>7, <1>8, <1>9 DEF Ledger!Return, Collected

\* The serial is saved for an order that counts as paid and has none: the
\* ledger books it.
LEMMA Enters ==
  ASSUME IInv, BInv, NEW t \in Thread, SaveSerial(t)
  PROVE  (\E o \in Order : Ledger!Book(o)) \/ UNCHANGED Ledger!lvars
<1>1. PICK o \in Order : o = task[t].o /\ Books(task[t], o)
  BY Facts DEF SaveSerial, At, Books, BookPc
<1>2. serial[o] = 0 /\ row[o].isPay
  BY <1>1 DEF BInv, BookOK
<1>3. /\ serial' = [serial EXCEPT ![o] = Inc(0)] /\ row' = row /\ trade' = trade
      /\ serial \in [Order -> 0 .. MaxCount]
  BY <1>1, <1>2, Facts DEF SaveSerial
<1>4. \A p \in Order : Collected(p)' = Collected(p) /\ Refunded(p)' = Refunded(p)
  BY <1>3 DEF Collected, Refunded
<1>5. CASE MaxCount = 0
  <2>1. serial' = serial
    BY <1>2, <1>3, <1>5 DEF Inc
  <2> QED
    BY <1>3, <2>1, TradesRest DEF QuietTable
<1>6. CASE MaxCount # 0
  <2>1. Inc(0) = 1
    BY <1>6, BoundsAssumption DEF Inc
  <2>2. /\ serial'[o] = 1
        /\ \A p \in Order : p # o => serial'[p] = serial[p]
    BY <1>3, <2>1
  <2>3. {p \in Order : serial[p] > 0}' = {p \in Order : serial[p] > 0} \cup {o}
    BY <2>2
  <2>4. o \in {p \in Order : row[p].isPay} \ {p \in Order : serial[p] > 0}
    BY <1>2
  <2>5. /\ [p \in Order |-> Collected(p)]' = [p \in Order |-> Collected(p)]
        /\ [p \in Order |-> Refunded(p)]' = [p \in Order |-> Refunded(p)]
        /\ {p \in Order : row[p].isPay}' = {p \in Order : row[p].isPay}
    BY <1>3, <1>4
  <2> QED
    BY <2>3, <2>4, <2>5 DEF Ledger!Book, Collected
<1> QED
  BY <1>5, <1>6

\* A purchase settles an order that is free, and no other.
LEMMA Sells ==
  ASSUME IInv, NEW t \in Thread, NEW o \in Order, BuyTicket(t, o)
  PROVE  Ledger!Settle(o) \/ UNCHANGED Ledger!lvars
<1>1. /\ row' = [row EXCEPT ![o] = NewRow(o)] /\ serial' = serial /\ trade' = trade
      /\ ~row[o].isPay /\ row[o].status = "none"
  BY DEF BuyTicket, IInv, UnsoldUnpaid
<1>2. NewRow(o) \in Row /\ NewRow(o).isPay = (o \in Company)
  BY BoundsAssumption DEF NewRow, Row, Status
<1>3. CASE o \in Company
  BY <1>1, <1>2, <1>3, Settles
<1>4. CASE o \notin Company
  <2>1. row \in [Order -> Row] /\ row[o].isPay = FALSE
    BY <1>1 DEF IInv, TypeOK, Row
  <2>2. NewRow(o).isPay = FALSE
    <3>1. NewRow(o).isPay \in BOOLEAN
      BY <1>2 DEF Row
    <3>2. ~NewRow(o).isPay
      BY <1>2, <1>4
    <3> QED
      BY <3>1, <3>2
  <2>3. row'[o] = NewRow(o) /\ \A p \in Order : p # o => row'[p] = row[p]
    BY <1>1, <2>1
  <2>4. \A p \in Order : /\ row'[p].isPay = row[p].isPay
                         /\ row[p].status # "none" => row'[p].status # "none"
    <3> SUFFICES ASSUME NEW p \in Order
                 PROVE  /\ row'[p].isPay = row[p].isPay
                        /\ row[p].status # "none" => row'[p].status # "none"
      OBVIOUS
    <3>1. CASE p = o
      BY <1>1, <2>1, <2>2, <2>3, <3>1
    <3>2. CASE p # o
      BY <2>3, <3>2
    <3> QED
      BY <3>1, <3>2
  <2> QED
    BY <1>1, <2>4, TradesRest DEF QuietTable
<1> QED
  BY <1>3, <1>4

\* The thread in the monitor settles an order whose money WeChat has.
LEMMA Pays ==
  ASSUME IInv, BInv, NEW t \in Thread, TradePaid(t)
  PROVE  \E o \in Order : Ledger!Settle(o)
<1>1. PICK o \in Order : o = task[t].o /\ ~row[o].isPay
  BY Facts DEF TradePaid, At, BookPc, BInv, AskOK
<1>2. task[t].n \in 1 .. MaxTrade /\ trade[o][task[t].n] = "paid"
  BY <1>1, Unfolded, BoundsAssumption DEF TradePaid, QuerySucceeds, Task
<1>3. Collected(o) # {}
  BY <1>2 DEF Collected
<1>4. AsPaid(row[o]) \in Row /\ AsPaid(row[o]).isPay = TRUE
  <2>1. row[o] \in Row
    BY Facts
  <2> QED
    BY <2>1 DEF AsPaid, Row, Status
<1>5. PICK r \in Row : r.isPay = TRUE /\ row' = [row EXCEPT ![o] = r]
  BY <1>1, <1>4 DEF TradePaid
<1>6. serial' = serial /\ trade' = trade
  BY DEF TradePaid
<1>7. Ledger!Settle(o)
  BY <1>1, <1>3, <1>5, <1>6, Settles
<1> QED
  BY <1>7

\* A trade number is issued: no money moves yet.
LEMMA Issues ==
  ASSUME IInv, NEW t \in Thread, IssueTrade(t)
  PROVE  UNCHANGED Ledger!lvars
<1>1. QuietTable
  BY ColumnsQuiet DEF Quiet
<1>2. task[t].o \in Order
  BY Unfolded DEF IssueTrade, GoodTask, NoOrderPc, At
<1>3. PICK o \in Order, n \in 1 .. MaxTrade, s \in {"open", "failed"} :
        trade[o][n] = "new" /\ trade' = [trade EXCEPT ![o][n] = s]
  BY <1>2 DEF IssueTrade, NextTrade
<1>4. /\ trade'[o][n] = s
      /\ \A m \in 1 .. MaxTrade : m # n => trade'[o][m] = trade[o][m]
      /\ \A p \in Order : p # o => trade'[p] = trade[p]
  BY <1>3, TradeMoves
<1>5. \A p \in Order : Collected(p)' = Collected(p) /\ Refunded(p)' = Refunded(p)
  BY <1>3, <1>4 DEF Collected, Refunded
<1> QED
  BY <1>1, <1>5, BooksRest

-----------------------------------------------------------------------------
(* The theorem.                                                            *)

\* Nothing is collected, returned, paid or booked at first.
LEMMA InitLedger == Init => Ledger!Init
<1> SUFFICES ASSUME Init PROVE Ledger!Init
  OBVIOUS
<1>1. \A o \in Order : Collected(o) = {} /\ Refunded(o) = {}
  BY DEF Init, Collected, Refunded
<1>2. {o \in Order : row[o].isPay} = {} /\ {o \in Order : serial[o] > 0} = {}
  BY DEF Init
<1>3. [o \in Order |-> Collected(o)] = [o \in Order |-> {}]
  BY <1>1
<1>4. [o \in Order |-> Refunded(o)] = [o \in Order |-> {}]
  BY <1>1
<1> QED
  BY <1>2, <1>3, <1>4 DEF Ledger!Init, Collected

\* Calls of a handler that move no money.
LEMMA ContinueRests ==
  ASSUME IInv, BInv, NEW t \in Thread, Continue(t),
         ~SaveSerial(t), ~TradePaid(t), ~WxRefund(t)
  PROVE  UNCHANGED Ledger!lvars
<1>1. CASE IssueTrade(t)
  BY <1>1, Issues
<1>2. CASE SetPayKey(t) \/ EnterMonitor(t) \/ SetRideKey(t) \/ TradeUnpaid(t)
  <2>1. trade' = trade /\ row' = row /\ serial' = serial
    BY <1>2 DEF SetPayKey, EnterMonitor, SetRideKey, TradeUnpaid, db
  <2> QED
    BY <2>1, TradesRest DEF QuietTable
<1>3. CASE \/ ApplyRefund(t) \/ WxRefundFails(t) \/ SaveRefundRow(t)
           \/ RoutingFails(t) \/ ScanAppointments(t) \/ SysPhaseEnds(t)
           \/ \E o \in Order : SysRefund(t, o)
  <2>1. trade' = trade
    BY <1>3 DEF ApplyRefund, WxRefundFails, SaveRefundRow, RoutingFails, ScanAppointments,
                SysPhaseEnds, SysRefund
  <2> QED
    BY <1>3, <2>1, RefundsQuiet, TradesRest DEF Quiet
<1>4. CASE \/ ExecuteOrderExpire(t) \/ RoutingAnswers(t) \/ Board(t) \/ FinishRide(t)
           \/ AssignCar(t)
  <2>1. trade' = trade
    BY <1>4 DEF ExecuteOrderExpire, RoutingAnswers, Board, FinishRide, AssignCar
  <2> QED
    BY <1>4, <2>1, ColumnsQuiet, TradesRest DEF Quiet
<1>5. CASE PageWrite(t) \/ CancelWrite(t) \/ NightlyWrite(t) \/ SysUpdate(t)
           \/ MarkRefunded(t)
  <2>1. trade' = trade
    BY <1>5 DEF PageWrite, CancelWrite, NightlyWrite, SysUpdate, MarkRefunded
  <2> QED
    BY <1>5, <2>1, CopiesQuiet, TradesRest DEF Quiet
<1> QED
  BY <1>1, <1>2, <1>3, <1>4, <1>5 DEF Continue

\* Requests, events and jobs that start move no money, but for a purchase.
LEMMA StartsRest ==
  ASSUME IInv, BInv, NEW t \in Thread,
         \/ \E o \in Order : Dispatch(t, o) \/ (RequestStarts(t, o) /\ ~BuyTicket(t, o))
         \/ SysCancalOrder(t) \/ UpdatePeakOrder(t)
         \/ \E e \in events : SetOrderExpire(t, e)
         \/ Crash(t)
  PROVE  UNCHANGED Ledger!lvars
<1>1. row' = row /\ serial' = serial /\ trade' = trade
  BY DEF RequestStarts, Dispatch, SysCancalOrder, UpdatePeakOrder, SetOrderExpire, Crash,
         LoadPayPre, QueryPay, SetExpOrder, RefundPage, CancelOrder, RequestRefund,
         CheckQrCallBack, CarArrives, SetRouteOrderExpire, db
<1> QED
  BY <1>1, TradesRest DEF QuietTable

\* Every step is a step of the ledger or leaves its books alone.
LEMMA NextLedger ==
  ASSUME IInv, BInv, AsksPaid, [Next]_vars
  PROVE  [Ledger!Next]_(Ledger!lvars)
<1>1. ASSUME NEW t \in Worker, NEW o \in Order, RequestStarts(t, o)
      PROVE  [Ledger!Next]_(Ledger!lvars)
  <2>1. CASE BuyTicket(t, o)
    BY <2>1, Sells DEF Ledger!Next, Thread
  <2>2. CASE ~BuyTicket(t, o)
    BY <1>1, <2>2, StartsRest DEF Thread
  <2> QED
    BY <2>1, <2>2
<1>2. CASE \/ \E t \in Worker : SysCancalOrder(t) \/ \E e \in events : SetOrderExpire(t, e)
           \/ JobStarts \/ \E t \in Thread : Crash(t)
  BY <1>2, StartsRest DEF JobStarts, Thread
<1>3. ASSUME NEW t \in Thread, Continue(t) PROVE [Ledger!Next]_(Ledger!lvars)
  <2>1. CASE SaveSerial(t)
    BY <2>1, Enters DEF Ledger!Next
  <2>2. CASE TradePaid(t)
    BY <2>2, Pays DEF Ledger!Next
  <2>3. CASE WxRefund(t)
    BY <2>3, Returns DEF Ledger!Next
  <2>4. CASE ~SaveSerial(t) /\ ~TradePaid(t) /\ ~WxRefund(t)
    BY <1>3, <2>4, ContinueRests
  <2> QED
    BY <2>1, <2>2, <2>3, <2>4
<1>4. CASE Elsewhere
  <2>1. CASE \E o \in Order, n \in 1 .. MaxTrade : UserPays(o, n)
    BY <2>1, Collects DEF Ledger!Next
  <2>2. CASE ~(\E o \in Order, n \in 1 .. MaxTrade : UserPays(o, n))
    <3>1. row' = row /\ serial' = serial /\ trade' = trade
      BY <1>4, <2>2 DEF Elsewhere, KeyExpires, BecomeLate, BecomeDue, LoseEvent, Midnight, db
    <3> QED
      BY <3>1, TradesRest DEF QuietTable
  <2> QED
    BY <2>1, <2>2
<1>5. CASE UNCHANGED vars
  BY <1>5, TradesRest DEF vars, db, QuietTable
<1> QED
  BY <1>1, <1>2, <1>3, <1>4, <1>5 DEF Next

\* WeChat is asked for a refund only while the order counts as paid.
THEOREM RefundsOfPaid == Spec => []AsksPaid
<1>1. Init => AsksPaid
  BY DEF Init, AsksPaid, At, Idle
<1>2. IInv /\ AsksPaid /\ [Next]_vars => AsksPaid'
  BY NextAsk
<1> QED
  BY <1>1, <1>2, Invariance, PTL DEF Spec

\* Every behaviour of the order component, seen through WeChat's trades, is_pay
\* and the serials, is one of the ledger: no order counts as paid without money
\* or for free, no payment is booked twice, no money goes back twice or for an
\* order that does not count as paid.
THEOREM OrdersImplementLedger == Spec => ImplementsLedger
<1>1. Init => Ledger!Init
  BY InitLedger
<1>2. IInv /\ BInv /\ AsksPaid /\ [Next]_vars => [Ledger!Next]_(Ledger!lvars)
  BY NextLedger
<1> QED
  BY <1>1, <1>2, Invariance, Booking, RefundsOfPaid, PTL DEF Spec, ImplementsLedger, Ledger!Spec
=============================================================================
