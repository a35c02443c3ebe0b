------------------------- MODULE OrderServiceProofs -------------------------
(***************************************************************************)
(* Theorems of OrderService, for every value of its constants.             *)
(*                                                                         *)
(* TypeOK and PaidBeforeUse are not inductive: a handler writes back a row *)
(* it loaded steps ago, so what is known of the table has to be known of   *)
(* the copies in flight as well.                                           *)
(***************************************************************************)
EXTENDS OrderService, TLAPS

\* Steps of jobs over many orders, and of no handler at all.
NoOrderPc == {"idle", "scanAgain", "sysUpdate", "sysRefund", "nightlyWrite"}

\* Steps at which cancelOrder still holds the row it will write back.
CancelPc == {"applyRefund", "wxRefund", "refundRow", "markRefunded"}

\* What a task k carries is consistent with the table r: a handler that will
\* write its order back whole holds a row of it, a scan or an arrival under way
\* is of a paid order, and a copy was loaded from a paid order that is still paid.
GoodTask(k, r) ==
  /\ k.pc \notin NoOrderPc => k.o \in Order
  /\ k.pc \in {"pageWrite", "cancelWrite"} \/ (k.op = "cancel" /\ k.pc \in CancelPc)
       => k.copy[k.o] # NoRow
  /\ k.pc \in {"sysUpdate", "sysRefund"} => k.op \in {"sysRealtime", "sysAppointment"}
  /\ k.pc \in {"board", "finishRide"} => r[k.o].isPay
  /\ \A o \in Order : k.copy[o] # NoRow =>
       k.copy[o].isPay /\ k.copy[o].status # "none" /\ r[o].isPay

InFlightOK == \A t \in Thread : GoodTask(task[t], row)

\* An order that is not in the table yet is not paid either.
UnsoldUnpaid == \A o \in Order : row[o].status = "none" => ~row[o].isPay

IInv == TypeOK /\ InFlightOK /\ PaidBeforeUse /\ UnsoldUnpaid

\* Payments booked in table r are booked in table s.
KeepsPaid(r, s) == \A o \in Order : r[o].isPay => s[o].isPay

\* What a step has to show of the table it leaves.
TableStep ==
  /\ row' \in [Order -> Row] /\ KeepsPaid(row, row')
  /\ PaidBeforeUse' /\ UnsoldUnpaid'

\* ... and of the tasks it leaves.
TaskStep == task' \in [Thread -> Task] /\ InFlightOK'

-----------------------------------------------------------------------------
(* Steps of one thread.                                                    *)

\* An idle thread carries nothing that could be inconsistent.
LEMMA IdleIsTask == Idle \in Task /\ \A r : GoodTask(Idle, r)
BY NamesAssumption, BoundsAssumption
   DEF Idle, Task, Op, Pc, Blank, GoodTask, NoOrderPc, CancelPc

\* What IInv says of the thread that moves.
LEMMA Unfolded ==
  ASSUME IInv, NEW t \in Thread
  PROVE  /\ task \in [Thread -> Task] /\ InFlightOK /\ row \in [Order -> Row]
         /\ task[t] \in Task /\ GoodTask(task[t], row)
         /\ row' = row => TableStep
BY DEF IInv, TypeOK, InFlightOK, KeepsPaid, TableStep, PaidBeforeUse, UnsoldUnpaid

\* One thread moves to a task that fits the new table, and the table forgets no
\* payment: every task fits the new table.
LEMMA MoveStep ==
  ASSUME IInv, TableStep,
         NEW t \in Thread, NEW k \in Task, GoodTask(k, row'),
         task' = [task EXCEPT ![t] = k]
  PROVE  TaskStep
<1>0. task \in [Thread -> Task] /\ InFlightOK
  BY Unfolded
<1>1. task' \in [Thread -> Task]
  BY <1>0
<1>2. ASSUME NEW u \in Thread PROVE GoodTask(task'[u], row')
  <2>1. CASE u = t
    BY <1>0, <2>1
  <2>2. CASE u # t
    <3>1. task'[u] = task[u] /\ GoodTask(task[u], row)
      BY <1>0, <2>2 DEF InFlightOK
    <3> QED
      BY <3>1 DEF GoodTask, KeepsPaid, TableStep, NoOrderPc
  <2> QED
    BY <2>1, <2>2
<1> QED
  BY <1>1, <1>2 DEF InFlightOK, TaskStep

\* No thread moves.
LEMMA StillStep ==
  ASSUME IInv, row' = row, task' = task
  PROVE  TableStep /\ TaskStep
BY DEF IInv, TypeOK, InFlightOK, TableStep, TaskStep, KeepsPaid, PaidBeforeUse, UnsoldUnpaid

\* A handler goes on to another step with its task otherwise unchanged.
LEMMA GotoStep ==
  ASSUME IInv, TableStep,
         NEW t \in Thread, NEW pc \in Pc, Goto(t, pc),
         pc \notin {"pageWrite", "cancelWrite", "board", "finishRide", "sysUpdate"},
         pc \in NoOrderPc \/ task[t].pc \notin NoOrderPc,
         pc \in CancelPc => task[t].pc \in CancelPc,
         pc = "sysRefund" => task[t].op \in {"sysRealtime", "sysAppointment"}
  PROVE  TaskStep
<1> DEFINE k == [task[t] EXCEPT !.pc = pc]
<1>1. task' = [task EXCEPT ![t] = k]
  BY DEF Goto
<1>3. GoodTask(task[t], row) /\ task[t] \in Task
  BY Unfolded
<1>2. k \in Task
  BY <1>3 DEF Task
<1>4. GoodTask(k, row')
  BY <1>3 DEF GoodTask, KeepsPaid, Task, TableStep, NoOrderPc, CancelPc
<1> HIDE DEF k
<1> QED
  BY <1>1, <1>2, <1>4, MoveStep

\* A thread that ends its handler leaves the other tasks as they were.
LEMMA FinishStep ==
  ASSUME IInv, TableStep, NEW t \in Thread, Finish(t)
  PROVE  TaskStep
BY IdleIsTask, MoveStep DEF Finish

\* A thread that starts a handler with copies of paid rows leaves tasks in order.
LEMMA BeginStep ==
  ASSUME IInv, TableStep,
         NEW t \in Thread, NEW op \in Op, NEW pc \in Pc,
         NEW o \in Order \cup {NoOrder},
         NEW copy \in [Order -> Row \cup {NoRow}],
         Begin(t, op, pc, o, copy),
         GoodTask([op |-> op, pc |-> pc, o |-> o, n |-> 0, copy |-> copy], row')
  PROVE  TaskStep
<1> DEFINE k == [op |-> op, pc |-> pc, o |-> o, n |-> 0, copy |-> copy]
<1>1. task' = [task EXCEPT ![t] = k]
  BY DEF Begin
<1>2. k \in Task
  BY BoundsAssumption DEF Task
<1> HIDE DEF k
<1> QED
  BY <1>1, <1>2, MoveStep DEF k

\* A handler that starts on one order and has loaded nothing.
LEMMA BeginBlankStep ==
  ASSUME IInv, TableStep,
         NEW t \in Thread, NEW op \in Op, NEW pc \in Pc, NEW o \in Order,
         Begin(t, op, pc, o, Blank),
         pc \notin {"pageWrite", "cancelWrite", "sysUpdate", "sysRefund"}, op # "cancel",
         pc \in {"board", "finishRide"} => row'[o].isPay
  PROVE  TaskStep
<1>1. Blank \in [Order -> Row \cup {NoRow}] /\ \A q \in Order : Blank[q] = NoRow
  BY DEF Blank
<1>2. GoodTask([op |-> op, pc |-> pc, o |-> o, n |-> 0, copy |-> Blank], row')
  BY <1>1 DEF GoodTask
<1> QED
  BY <1>1, <1>2, BeginStep

-----------------------------------------------------------------------------
(* Writes to the table.                                                    *)

\* One row is replaced by one that keeps the payment and is not usable unpaid.
LEMMA WriteStep ==
  ASSUME IInv, NEW o \in Order, NEW r \in Row,
         row' = [row EXCEPT ![o] = r],
         row[o].isPay => r.isPay,
         r.status \in {"toUse", "riding", "done"} => r.isPay,
         r.status = "none" => ~r.isPay
  PROVE  TableStep
BY DEF IInv, TypeOK, TableStep, KeepsPaid, PaidBeforeUse, UnsoldUnpaid

\* The whole-row write of a copy: its columns win, but for an empty car.
LEMMA SavedRow ==
  ASSUME row \in [Order -> Row], NEW o \in Order, NEW r \in Row
  PROVE  /\ Saved(o, r) \in Row /\ Saved(o, r).isPay = r.isPay
         /\ Saved(o, r).status = r.status
BY DEF Saved, Row

-----------------------------------------------------------------------------
(* Handlers that start.                                                    *)

\* A sale writes a row nobody holds a copy of yet: no row had that id.
LEMMA BuyTicketInv ==
  ASSUME IInv, NEW t \in Worker, NEW o \in Order, BuyTicket(t, o)
  PROVE  IInv' /\ KeepsPaid(row, row')
<1>1. t \in Thread /\ row \in [Order -> Row] /\ UnsoldUnpaid
  BY DEF Thread, IInv, TypeOK
<1>2. /\ NewRow(o) \in Row /\ NewRow(o).status # "none"
      /\ NewRow(o).status = "toUse" => NewRow(o).isPay
      /\ NewRow(o).status \notin {"riding", "done"}
  <2>1. (o \in Company) \in BOOLEAN
    OBVIOUS
  <2>2. NewRow(o).isPay = (o \in Company)
    BY DEF NewRow
  <2>3. NewRow(o).status = IF o \in Company THEN "toUse" ELSE "created"
    BY DEF NewRow
  <2>4. NewRow(o) \in Row
    BY <2>1, BoundsAssumption DEF NewRow, Row, Status
  <2> QED
    BY <2>2, <2>3, <2>4
<1>3. TableStep
  BY <1>1, <1>2, WriteStep DEF BuyTicket, UnsoldUnpaid
<1>4. TaskStep
  BY <1>1, <1>3, BeginBlankStep DEF BuyTicket, Op, Pc
<1> QED
  BY <1>3, <1>4 DEF IInv, TypeOK, TableStep, TaskStep, db, redis, clock, BuyTicket

\* loadPayPre only looks.
LEMMA LoadPayPreInv ==
  ASSUME IInv, NEW t \in Worker, NEW o \in Order, LoadPayPre(t, o)
  PROVE  IInv' /\ KeepsPaid(row, row')
<1>1. t \in Thread
  BY DEF Thread
<1>2. TableStep
  BY <1>1, Unfolded DEF LoadPayPre, db
<1>3. TaskStep
  BY <1>1, <1>2, BeginBlankStep DEF LoadPayPre, Op, Pc
<1> QED
  BY <1>2, <1>3 DEF IInv, TypeOK, TableStep, TaskStep, db, redis, clock, LoadPayPre

\* The first read of queryWechatPayResult only looks.
LEMMA QueryPayInv ==
  ASSUME IInv, NEW t \in Worker, NEW o \in Order, QueryPay(t, o)
  PROVE  IInv' /\ KeepsPaid(row, row')
<1>1. t \in Thread
  BY DEF Thread
<1>2. TableStep
  BY <1>1, Unfolded DEF QueryPay, db
<1>3. TaskStep
  BY <1>1, <1>2, BeginBlankStep DEF QueryPay, Op, Pc
<1> QED
  BY <1>2, <1>3 DEF IInv, TypeOK, TableStep, TaskStep, db, redis, clock, QueryPay

\* setExpOrder's read: it will expire the order, which needs no payment.
LEMMA SetExpOrderInv ==
  ASSUME IInv, NEW t \in Worker, NEW o \in Order, SetExpOrder(t, o)
  PROVE  IInv' /\ KeepsPaid(row, row')
<1>1. t \in Thread
  BY DEF Thread
<1>2. TableStep
  BY <1>1, Unfolded DEF SetExpOrder, db
<1>3. TaskStep
  BY <1>1, <1>2, BeginBlankStep DEF SetExpOrder, Op, Pc
<1> QED
  BY <1>2, <1>3 DEF IInv, TypeOK, TableStep, TaskStep, db, redis, clock, SetExpOrder

\* setRouteOrderExpire's read.
LEMMA SetRouteOrderExpireInv ==
  ASSUME IInv, NEW t \in Worker, NEW o \in Order, SetRouteOrderExpire(t, o)
  PROVE  IInv' /\ KeepsPaid(row, row')
<1>1. t \in Thread
  BY DEF Thread
<1>2. TableStep
  BY <1>1, Unfolded DEF SetRouteOrderExpire, db
<1>3. TaskStep
  BY <1>1, <1>2, BeginBlankStep DEF SetRouteOrderExpire, Op, Pc
<1> QED
  BY <1>2, <1>3 DEF IInv, TypeOK, TableStep, TaskStep, db, redis, clock, SetRouteOrderExpire

\* A refund request starts without a copy.
LEMMA RequestRefundInv ==
  ASSUME IInv, NEW t \in Worker, NEW o \in Order, RequestRefund(t, o)
  PROVE  IInv' /\ KeepsPaid(row, row')
<1>1. t \in Thread
  BY DEF Thread
<1>2. TableStep
  BY <1>1, Unfolded DEF RequestRefund, db
<1>3. TaskStep
  BY <1>1, <1>2, BeginBlankStep DEF RequestRefund, Op, Pc
<1> QED
  BY <1>2, <1>3 DEF IInv, TypeOK, TableStep, TaskStep, db, redis, clock, RequestRefund

\* The dispatch job starts without a copy.
LEMMA DispatchInv ==
  ASSUME IInv, NEW t \in Thread, NEW o \in Order, Dispatch(t, o)
  PROVE  IInv' /\ KeepsPaid(row, row')
<1>1. t \in Thread
  BY DEF Thread
<1>2. TableStep
  BY <1>1, Unfolded DEF Dispatch, db
<1>3. TaskStep
  BY <1>1, <1>2, BeginBlankStep DEF Dispatch, Op, Pc
<1> QED
  BY <1>2, <1>3 DEF IInv, TypeOK, TableStep, TaskStep, db, redis, clock, Dispatch

\* A scan starts on an unused order, which PaidBeforeUse says is paid.
LEMMA CheckQrCallBackInv ==
  ASSUME IInv, NEW t \in Worker, NEW o \in Order, CheckQrCallBack(t, o)
  PROVE  IInv' /\ KeepsPaid(row, row')
<1>1. t \in Thread
  BY DEF Thread
<1>2. TableStep
  BY <1>1, Unfolded DEF CheckQrCallBack, db
<1>3. row'[o].isPay
  BY DEF CheckQrCallBack, IInv, PaidBeforeUse, db, Boardable
<1>4. TaskStep
  BY <1>1, <1>2, <1>3, BeginBlankStep DEF CheckQrCallBack, Op, Pc
<1> QED
  BY <1>2, <1>4 DEF IInv, TypeOK, TableStep, TaskStep, db, redis, clock, CheckQrCallBack

\* An arrival starts on a riding order, which PaidBeforeUse says is paid.
LEMMA CarArrivesInv ==
  ASSUME IInv, NEW t \in Worker, NEW o \in Order, CarArrives(t, o)
  PROVE  IInv' /\ KeepsPaid(row, row')
<1>1. t \in Thread
  BY DEF Thread
<1>2. TableStep
  BY <1>1, Unfolded DEF CarArrives, db
<1>3. row'[o].isPay
  BY DEF CarArrives, IInv, PaidBeforeUse, db
<1>4. TaskStep
  BY <1>1, <1>2, <1>3, BeginBlankStep DEF CarArrives, Op, Pc
<1> QED
  BY <1>2, <1>4 DEF IInv, TypeOK, TableStep, TaskStep, db, redis, clock, CarArrives

\* A timer event starts a handler without a copy, or is dropped.
LEMMA SetOrderExpireInv ==
  ASSUME IInv, NEW t \in Worker, NEW e \in events, SetOrderExpire(t, e)
  PROVE  IInv' /\ KeepsPaid(row, row')
<1>1. t \in Thread /\ e[2] \in Order
  BY DEF Thread, IInv, TypeOK
<1>2. TableStep
  BY <1>1, Unfolded DEF SetOrderExpire, db
<1>3. CASE StillWaiting(e[1], e[2])
  <2>1. TaskStep
    BY <1>1, <1>2, <1>3, BeginBlankStep DEF SetOrderExpire, Op, Pc
  <2> QED
    BY <1>2, <2>1 DEF IInv, TypeOK, TableStep, TaskStep, db, redis, clock, SetOrderExpire
<1>4. CASE ~StillWaiting(e[1], e[2])
  <2>1. TaskStep
    BY <1>4, StillStep DEF SetOrderExpire, db
  <2> QED
    BY <1>2, <2>1 DEF IInv, TypeOK, TableStep, TaskStep, db, redis, clock, SetOrderExpire
<1> QED
  BY <1>3, <1>4

\* The page loads an unused row: it is paid, so the copy is.
LEMMA RefundPageInv ==
  ASSUME IInv, NEW t \in Worker, NEW o \in Order, RefundPage(t, o)
  PROVE  IInv' /\ KeepsPaid(row, row')
<1> DEFINE r == [row[o] EXCEPT !.isRefund = PageFlag(o)]
           pc == "pageWrite"
<1>1. t \in Thread /\ row[o] \in Row /\ row[o].status = "toUse" /\ row[o].isPay
  BY DEF Thread, IInv, TypeOK, PaidBeforeUse, RefundPage, PageAllowed
<1>2. TableStep /\ row' = row
  BY <1>1, Unfolded DEF RefundPage, db
<1>3. r \in Row /\ r.isPay /\ r.status # "none"
  BY <1>1 DEF Row, Status, PageFlag
<1>4. /\ Only(o, r) \in [Order -> Row \cup {NoRow}]
      /\ Only(o, r)[o] = r
      /\ \A q \in Order : q # o => Only(o, r)[q] = NoRow
  BY <1>3 DEF Only, Blank
<1>5. r # NoRow
  BY <1>3, NamesAssumption
<1>6. pc \in Pc /\ pc \notin {"board", "finishRide", "sysUpdate", "sysRefund"} /\ "page" \in Op
  BY DEF Pc, Op
<1>7. Begin(t, "page", pc, o, Only(o, r))
  BY DEF RefundPage
<1> HIDE DEF r, pc
<1>8. GoodTask([op |-> "page", pc |-> pc, o |-> o, n |-> 0, copy |-> Only(o, r)], row')
  BY <1>1, <1>2, <1>3, <1>4, <1>5, <1>6 DEF GoodTask
<1>9. TaskStep
  BY <1>1, <1>2, <1>4, <1>6, <1>7, <1>8, BeginStep
<1> QED
  BY <1>2, <1>9 DEF IInv, TypeOK, TableStep, TaskStep, db, redis, clock, RefundPage

\* cancelOrder loads an unused row and changes the copy, never its payment.
LEMMA CancelOrderInv ==
  ASSUME IInv, NEW t \in Worker, NEW o \in Order, CancelOrder(t, o)
  PROVE  IInv' /\ KeepsPaid(row, row')
<1> DEFINE r == [row[o] EXCEPT !.status = "expired", !.isCancel = "1"]
           pc == IF RefundDue(o) THEN "applyRefund" ELSE "cancelWrite"
<1>1. t \in Thread /\ row[o] \in Row /\ row[o].status = "toUse" /\ row[o].isPay
  BY DEF Thread, IInv, TypeOK, PaidBeforeUse, CancelOrder
<1>2. TableStep /\ row' = row
  BY <1>1, Unfolded DEF CancelOrder, db
<1>3. r \in Row /\ r.isPay /\ r.status # "none"
  BY <1>1 DEF Row, Status, PageFlag
<1>4. /\ Only(o, r) \in [Order -> Row \cup {NoRow}]
      /\ Only(o, r)[o] = r
      /\ \A q \in Order : q # o => Only(o, r)[q] = NoRow
  BY <1>3 DEF Only, Blank
<1>5. r # NoRow
  BY <1>3, NamesAssumption
<1>6. pc \in Pc /\ pc \notin {"board", "finishRide", "sysUpdate", "sysRefund"} /\ "cancel" \in Op
  BY DEF Pc, Op
<1>7. Begin(t, "cancel", pc, o, Only(o, r))
  BY DEF CancelOrder
<1> HIDE DEF r, pc
<1>8. GoodTask([op |-> "cancel", pc |-> pc, o |-> o, n |-> 0, copy |-> Only(o, r)], row')
  BY <1>1, <1>2, <1>3, <1>4, <1>5, <1>6 DEF GoodTask
<1>9. TaskStep
  BY <1>1, <1>2, <1>4, <1>6, <1>7, <1>8, BeginStep
<1> QED
  BY <1>2, <1>9 DEF IInv, TypeOK, TableStep, TaskStep, db, redis, clock, CancelOrder

\* A list of paid orders is loaded.
LEMMA LoadCopies ==
  ASSUME IInv, NEW S \in SUBSET Order, \A o \in S : row[o].isPay /\ row[o].status # "none"
  PROVE  /\ Load(S) \in [Order -> Row \cup {NoRow}]
         /\ \A o \in Order : Load(S)[o] # NoRow =>
              Load(S)[o].isPay /\ Load(S)[o].status # "none" /\ row[o].isPay
BY DEF Load, IInv, TypeOK

\* The 30 s job loads paid rows only.
LEMMA SysCancalOrderInv ==
  ASSUME IInv, NEW t \in Thread, SysCancalOrder(t)
  PROVE  IInv' /\ KeepsPaid(row, row')
<1> DEFINE S == Stranded(Realtime)
           pc == IF S = {} THEN "scanAgain" ELSE "sysUpdate"
<1>1. S \in SUBSET Order /\ \A o \in S : row[o].isPay /\ row[o].status # "none"
  BY DEF IInv, PaidBeforeUse, Stranded, Realtime
<1>2. TableStep /\ row' = row
  BY Unfolded DEF SysCancalOrder, db
<1>3. /\ pc \in Pc /\ pc \in NoOrderPc /\ "sysRealtime" \in Op
      /\ pc \in {"sysUpdate", "sysRefund"} => "sysRealtime" = "sysRealtime"
  BY DEF Pc, NoOrderPc, Op
<1>4. Begin(t, "sysRealtime", pc, NoOrder, Load(S))
  BY DEF SysCancalOrder
<1> HIDE DEF S, pc
<1>5. GoodTask([op |-> "sysRealtime", pc |-> pc, o |-> NoOrder, n |-> 0, copy |-> Load(S)], row')
  BY <1>1, <1>2, <1>3, LoadCopies DEF GoodTask, NoOrderPc, CancelPc
<1>6. TaskStep
  BY <1>1, <1>2, <1>3, <1>4, <1>5, LoadCopies, BeginStep
<1> QED
  BY <1>2, <1>6 DEF IInv, TypeOK, TableStep, TaskStep, db, redis, clock, SysCancalOrder

\* The 02:15 job loads unused rows: each of them is paid.
LEMMA UpdatePeakOrderInv ==
  ASSUME IInv, NEW t \in Thread, UpdatePeakOrder(t)
  PROVE  IInv' /\ KeepsPaid(row, row')
<1> DEFINE S == NightlyScope
           pc == "nightlyWrite"
<1>1. S \in SUBSET Order /\ \A o \in S : row[o].isPay /\ row[o].status # "none"
  BY DEF IInv, PaidBeforeUse, NightlyScope
<1>2. TableStep /\ row' = row
  BY Unfolded DEF UpdatePeakOrder, db
<1>3. /\ pc \in Pc /\ pc \in NoOrderPc /\ "nightly" \in Op
      /\ pc \in {"sysUpdate", "sysRefund"} => "nightly" = "sysRealtime"
  BY DEF Pc, NoOrderPc, Op
<1>4. Begin(t, "nightly", pc, NoOrder, Load(S))
  BY DEF UpdatePeakOrder
<1> HIDE DEF S, pc
<1>5. GoodTask([op |-> "nightly", pc |-> pc, o |-> NoOrder, n |-> 0, copy |-> Load(S)], row')
  BY <1>1, <1>2, <1>3, LoadCopies DEF GoodTask, NoOrderPc, CancelPc
<1>6. TaskStep
  BY <1>1, <1>2, <1>3, <1>4, <1>5, LoadCopies, BeginStep
<1> QED
  BY <1>2, <1>6 DEF IInv, TypeOK, TableStep, TaskStep, db, redis, clock, UpdatePeakOrder

-----------------------------------------------------------------------------
(* Handlers that go on: the table is left as it is.                        *)

\* The payment timer touches redis only.
LEMMA SetPayKeyInv ==
  ASSUME IInv, NEW t \in Thread, SetPayKey(t)
  PROVE  IInv' /\ KeepsPaid(row, row')
<1>1. TableStep
  BY Unfolded DEF SetPayKey, db
<1>2. TaskStep
  <2>1. task[t].pc = "payKey" /\ task[t].o \in Order
    BY Unfolded DEF SetPayKey, At, GoodTask, NoOrderPc
  <2>2. CASE task[t].o \in Company
    BY <1>1, <2>1, <2>2, GotoStep DEF SetPayKey, Pc, NoOrderPc, CancelPc
  <2>3. CASE task[t].o \notin Company
    BY <1>1, <2>3, FinishStep DEF SetPayKey
  <2> QED
    BY <2>2, <2>3
<1>3. task[t].o \in Order
  BY Unfolded DEF SetPayKey, At, GoodTask, NoOrderPc
<1> QED
  BY <1>1, <1>2, <1>3 DEF IInv, TypeOK, TableStep, TaskStep, db, redis, clock, SetPayKey

\* Entering the monitor changes the lock and the trade number a task carries.
LEMMA EnterMonitorInv ==
  ASSUME IInv, NEW t \in Thread, EnterMonitor(t)
  PROVE  IInv' /\ KeepsPaid(row, row')
<1>1. TableStep
  BY Unfolded DEF EnterMonitor, db
<1>2. /\ task[t] \in Task /\ GoodTask(task[t], row) /\ row \in [Order -> Row]
      /\ task[t].pc = "enter" /\ task[t].o \in Order
  BY Unfolded DEF EnterMonitor, At, GoodTask, NoOrderPc
<1>3. CASE Paid(task[t].o)
  <2>1. TaskStep
    BY <1>1, <1>3, FinishStep DEF EnterMonitor
  <2> QED
    BY <1>1, <1>3, <2>1 DEF IInv, TypeOK, TableStep, TaskStep, db, redis, clock,
       EnterMonitor
<1>4. CASE ~Paid(task[t].o)
  <2> DEFINE k == [task[t] EXCEPT !.pc = "query", !.n = row[task[t].o].tradeNo]
  <2>1. task' = [task EXCEPT ![t] = k]
    BY <1>4 DEF EnterMonitor
  <2>2. k \in Task
    BY <1>2 DEF Task, Pc, Row
  <2>3. GoodTask(k, row')
    BY <1>1, <1>2 DEF GoodTask, TableStep, KeepsPaid, CancelPc, NoOrderPc, Task
  <2> HIDE DEF k
  <2>4. TaskStep
    BY <1>1, <2>1, <2>2, <2>3, MoveStep
  <2> QED
    BY <1>1, <1>4, <2>4 DEF IInv, TypeOK, TableStep, TaskStep, db, redis, clock,
       EnterMonitor
<1> QED
  BY <1>3, <1>4

\* WeChat's refusal ends the task.
LEMMA TradeUnpaidInv ==
  ASSUME IInv, NEW t \in Thread, TradeUnpaid(t)
  PROVE  IInv' /\ KeepsPaid(row, row')
<1>1. TableStep
  BY Unfolded DEF TradeUnpaid, db
<1>2. TaskStep
  BY <1>1, FinishStep DEF TradeUnpaid
<1> QED
  BY <1>1, <1>2 DEF IInv, TypeOK, TableStep, TaskStep, db, redis, clock, TradeUnpaid

\* No answer of the routing service ends the task.
LEMMA RoutingFailsInv ==
  ASSUME IInv, NEW t \in Thread, RoutingFails(t)
  PROVE  IInv' /\ KeepsPaid(row, row')
<1>1. TableStep
  BY Unfolded DEF RoutingFails, db
<1>2. TaskStep
  BY <1>1, FinishStep DEF RoutingFails
<1> QED
  BY <1>1, <1>2 DEF IInv, TypeOK, TableStep, TaskStep, db, redis, clock, RoutingFails

\* The ride timer touches redis only.
LEMMA SetRideKeyInv ==
  ASSUME IInv, NEW t \in Thread, SetRideKey(t)
  PROVE  IInv' /\ KeepsPaid(row, row')
<1>1. TableStep
  BY Unfolded DEF SetRideKey, db
<1>2. TaskStep
  <2>1. task[t].pc = "rideKey"
    BY DEF SetRideKey, At
  <2> QED
    BY <1>1, <2>1, GotoStep DEF SetRideKey, Pc, NoOrderPc, CancelPc
<1>3. task[t].o \in Order
  BY Unfolded DEF SetRideKey, At, GoodTask, NoOrderPc
<1> QED
  BY <1>1, <1>2, <1>3 DEF IInv, TypeOK, TableStep, TaskStep, db, redis, clock, SetRideKey

\* The bounded counter stays in its range.
LEMMA IncType == \A n \in 0 .. MaxCount : Inc(n) \in 0 .. MaxCount
BY BoundsAssumption DEF Inc

\* Saving the serial counts up within the bound.
LEMMA SaveSerialInv ==
  ASSUME IInv, NEW t \in Thread, SaveSerial(t)
  PROVE  IInv' /\ KeepsPaid(row, row')
<1>1. TableStep
  BY Unfolded DEF SaveSerial, db
<1>2. TaskStep
  BY <1>1, FinishStep DEF SaveSerial
<1> QED
  BY <1>1, <1>2, IncType DEF IInv, TypeOK, TableStep, TaskStep, db, redis, clock, SaveSerial

\* applyRefund reads the order again; cancelOrder's copy stays with the task.
LEMMA ApplyRefundInv ==
  ASSUME IInv, NEW t \in Thread, ApplyRefund(t)
  PROVE  IInv' /\ KeepsPaid(row, row')
<1>1. TableStep
  BY Unfolded DEF ApplyRefund, db
<1>2. /\ task[t] \in Task /\ GoodTask(task[t], row) /\ row \in [Order -> Row]
      /\ task[t].pc = "applyRefund" /\ task[t].o \in Order
  BY Unfolded DEF ApplyRefund, At, GoodTask, NoOrderPc
<1>3. TaskStep
  <2>1. CASE Finish(t)
    BY <1>1, <2>1, FinishStep
  <2>2. CASE Goto(t, "refundRow")
    BY <1>1, <1>2, <2>2, GotoStep DEF Pc, NoOrderPc, CancelPc
  <2>3. CASE task' = [task EXCEPT ![t].pc = "wxRefund", ![t].n = row[task[t].o].tradeNo]
    <3> DEFINE k == [task[t] EXCEPT !.pc = "wxRefund", !.n = row[task[t].o].tradeNo]
    <3>1. task' = [task EXCEPT ![t] = k]
      BY <2>3
    <3>2. k \in Task
      BY <1>2 DEF Task, Pc, Row
    <3>3. GoodTask(k, row')
      BY <1>1, <1>2 DEF GoodTask, TableStep, KeepsPaid, CancelPc, NoOrderPc, Task
    <3> HIDE DEF k
    <3> QED
      BY <1>1, <3>1, <3>2, <3>3, MoveStep
  <2> QED
    BY <2>1, <2>2, <2>3 DEF ApplyRefund
<1> QED
  BY <1>1, <1>3 DEF IInv, TypeOK, TableStep, TaskStep, db, redis, clock, ApplyRefund

\* WeChat's refund changes the trade only.
LEMMA WxRefundInv ==
  ASSUME IInv, NEW t \in Thread, WxRefund(t)
  PROVE  IInv' /\ KeepsPaid(row, row')
<1>1. TableStep
  BY Unfolded DEF WxRefund, db
<1>2. TaskStep
  <2>1. task[t].pc = "wxRefund"
    BY DEF WxRefund, At
  <2> QED
    BY <1>1, <2>1, GotoStep DEF WxRefund, Pc, NoOrderPc, CancelPc
<1> QED
  BY <1>1, <1>2 DEF IInv, TypeOK, TableStep, TaskStep, db, redis, clock, WxRefund,
     TradeState

\* A refused refund ends the task or takes the job to its next order.
LEMMA WxRefundFailsInv ==
  ASSUME IInv, NEW t \in Thread, WxRefundFails(t)
  PROVE  IInv' /\ KeepsPaid(row, row')
<1>1. TableStep
  BY Unfolded DEF WxRefundFails, db
<1>2. TaskStep
  <2>1. CASE InSysCancal(t)
    BY <1>1, <2>1, GotoStep DEF WxRefundFails, InSysCancal, Pc, NoOrderPc, CancelPc
  <2>2. CASE ~InSysCancal(t)
    BY <1>1, <2>2, FinishStep DEF WxRefundFails
  <2> QED
    BY <2>1, <2>2
<1> QED
  BY <1>1, <1>2 DEF IInv, TypeOK, TableStep, TaskStep, db, redis, clock, WxRefundFails

\* Saving the refund row counts up within the bound.
LEMMA SaveRefundRowInv ==
  ASSUME IInv, NEW t \in Thread, SaveRefundRow(t)
  PROVE  IInv' /\ KeepsPaid(row, row')
<1>1. TableStep
  BY Unfolded DEF SaveRefundRow, db
<1>2. TaskStep
  <2>1. task[t].pc = "refundRow"
    BY DEF SaveRefundRow, At
  <2>2. CASE InSysCancal(t)
    BY <1>1, <2>2, GotoStep DEF SaveRefundRow, InSysCancal, Pc, NoOrderPc, CancelPc
  <2>3. CASE ~InSysCancal(t)
    BY <1>1, <2>1, <2>3, GotoStep DEF SaveRefundRow, InSysCancal, Pc, NoOrderPc, CancelPc
  <2> QED
    BY <2>2, <2>3
<1> QED
  BY <1>1, <1>2, IncType DEF IInv, TypeOK, TableStep, TaskStep, db, redis, clock,
     SaveRefundRow

\* The second scan of the 30 s job loads paid rows only.
LEMMA ScanAppointmentsInv ==
  ASSUME IInv, NEW t \in Thread, ScanAppointments(t)
  PROVE  IInv' /\ KeepsPaid(row, row')
<1> DEFINE S == Stranded(Appointment)
<1>1. TableStep /\ row' = row
  BY Unfolded DEF ScanAppointments, db
<1>2. CASE S = {}
  <2>1. TaskStep
    BY <1>1, <1>2, FinishStep DEF ScanAppointments
  <2> QED
    BY <1>1, <2>1 DEF IInv, TypeOK, TableStep, TaskStep, db, redis, clock, ScanAppointments
<1>3. CASE S # {}
  <2> DEFINE k == [op |-> "sysAppointment", pc |-> "sysUpdate", o |-> NoOrder, n |-> 0,
                   copy |-> Load(S)]
  <2>1. S \in SUBSET Order /\ \A o \in S : row[o].isPay /\ row[o].status # "none"
    BY KindsAssumption DEF Stranded
  <2>2. task' = [task EXCEPT ![t] = k]
    BY <1>3 DEF ScanAppointments
  <2> HIDE DEF S
  <2>3. k \in Task
    BY <2>1, LoadCopies, BoundsAssumption DEF Task, Op, Pc
  <2>4. GoodTask(k, row')
    BY <1>1, <2>1, LoadCopies DEF GoodTask, NoOrderPc, CancelPc
  <2> HIDE DEF k
  <2>5. TaskStep
    BY <1>1, <2>2, <2>3, <2>4, MoveStep
  <2> QED
    BY <1>1, <2>5 DEF IInv, TypeOK, TableStep, TaskStep, db, redis, clock, ScanAppointments
<1> QED
  BY <1>2, <1>3

\* The 30 s job drops the copy of the order it refunds.
LEMMA SysRefundInv ==
  ASSUME IInv, NEW t \in Thread, NEW o \in Order, SysRefund(t, o)
  PROVE  IInv' /\ KeepsPaid(row, row')
<1> DEFINE k == [task[t] EXCEPT !.pc = "wxRefund", !.o = o,
                               !.n = task[t].copy[o].tradeNo, !.copy[o] = NoRow]
<1>1. TableStep /\ row' = row
  BY Unfolded DEF SysRefund, db
<1>2. task[t] \in Task /\ GoodTask(task[t], row) /\ task[t].pc = "sysRefund"
  BY Unfolded DEF SysRefund, At
<1>3. task[t].copy[o] \in Row
  BY <1>2 DEF SysRefund, Loaded, Task
<1>4. task' = [task EXCEPT ![t] = k]
  BY DEF SysRefund
<1>5. k \in Task
  BY <1>2, <1>3 DEF Task, Pc, Row
<1>6. GoodTask(k, row')
  BY <1>1, <1>2 DEF GoodTask, CancelPc, NoOrderPc, Task
<1> HIDE DEF k
<1>7. TaskStep
  BY <1>1, <1>4, <1>5, <1>6, MoveStep
<1> QED
  BY <1>1, <1>7 DEF IInv, TypeOK, TableStep, TaskStep, db, redis, clock, SysRefund

\* The 30 s job goes on to its second scan, or ends.
LEMMA SysPhaseEndsInv ==
  ASSUME IInv, NEW t \in Thread, SysPhaseEnds(t)
  PROVE  IInv' /\ KeepsPaid(row, row')
<1> DEFINE k == [Idle EXCEPT !.op = "sysRealtime", !.pc = "scanAgain"]
<1>1. TableStep /\ row' = row
  BY Unfolded DEF SysPhaseEnds, db
<1>2. k \in Task /\ GoodTask(k, row')
  BY IdleIsTask DEF Task, Op, Pc, GoodTask, NoOrderPc, CancelPc, Idle
<1>3. CASE task' = [task EXCEPT ![t] = k]
  <2> HIDE DEF k
  <2>1. TaskStep
    BY <1>1, <1>2, <1>3, MoveStep
  <2> QED
    BY <1>1, <2>1 DEF IInv, TypeOK, TableStep, TaskStep, db, redis, clock, SysPhaseEnds
<1>4. CASE Finish(t)
  <2>1. TaskStep
    BY <1>1, <1>4, FinishStep
  <2> QED
    BY <1>1, <2>1 DEF IInv, TypeOK, TableStep, TaskStep, db, redis, clock, SysPhaseEnds
<1> QED
  BY <1>3, <1>4 DEF SysPhaseEnds

-----------------------------------------------------------------------------
(* Handlers that write the table.                                          *)

\* Expiry leaves the payment alone; an expired order may be unpaid.
LEMMA ExecuteOrderExpireInv ==
  ASSUME IInv, NEW t \in Thread, ExecuteOrderExpire(t)
  PROVE  IInv' /\ KeepsPaid(row, row')
<1> DEFINE o == task[t].o
           r == [row[o] EXCEPT !.status = "expired"]
<1>1. o \in Order /\ row[o] \in Row /\ GoodTask(task[t], row) /\ task[t].pc = "expire"
  BY Unfolded DEF ExecuteOrderExpire, At, GoodTask, NoOrderPc
<1>2. /\ row[o].status \in {"toUse", "riding", "done"} => row[o].isPay
      /\ row[o].status = "none" => ~row[o].isPay
  BY <1>1 DEF IInv, PaidBeforeUse, UnsoldUnpaid
<1>3. /\ r \in Row /\ (row[o].isPay => r.isPay)
      /\ r.status \in {"toUse", "riding", "done"} => r.isPay
      /\ r.status = "none" => ~r.isPay
  BY <1>1, <1>2 DEF Row, Status, GoodTask
<1>4. row' = [row EXCEPT ![o] = r]
  BY DEF ExecuteOrderExpire
<1> HIDE DEF r
<1>5. TableStep
  BY <1>1, <1>3, <1>4, WriteStep
<1>6. TaskStep
  BY <1>5, FinishStep DEF ExecuteOrderExpire
<1> QED
  BY <1>5, <1>6 DEF IInv, TypeOK, TableStep, TaskStep, db, redis, clock, ExecuteOrderExpire

\* So does the expiry of a route's waiting orders.
LEMMA RoutingAnswersInv ==
  ASSUME IInv, NEW t \in Thread, RoutingAnswers(t)
  PROVE  IInv' /\ KeepsPaid(row, row')
<1> DEFINE o == task[t].o
           r == [row[o] EXCEPT !.status = "expired"]
<1>1. o \in Order /\ row[o] \in Row /\ GoodTask(task[t], row) /\ task[t].pc = "routing"
  BY Unfolded DEF RoutingAnswers, At, GoodTask, NoOrderPc
<1>2. /\ row[o].status \in {"toUse", "riding", "done"} => row[o].isPay
      /\ row[o].status = "none" => ~row[o].isPay
  BY <1>1 DEF IInv, PaidBeforeUse, UnsoldUnpaid
<1>3. /\ r \in Row /\ (row[o].isPay => r.isPay)
      /\ r.status \in {"toUse", "riding", "done"} => r.isPay
      /\ r.status = "none" => ~r.isPay
  BY <1>1, <1>2 DEF Row, Status, GoodTask
<1>4. row' = [row EXCEPT ![o] = r]
  BY DEF RoutingAnswers
<1> HIDE DEF r
<1>5. TableStep
  BY <1>1, <1>3, <1>4, WriteStep
<1>6. TaskStep
  BY <1>5, FinishStep DEF RoutingAnswers
<1> QED
  BY <1>5, <1>6 DEF IInv, TypeOK, TableStep, TaskStep, db, redis, clock, RoutingAnswers

\* Boarding makes an order riding: the scan under way is of a paid order.
LEMMA BoardInv ==
  ASSUME IInv, NEW t \in Thread, Board(t)
  PROVE  IInv' /\ KeepsPaid(row, row')
<1> DEFINE o == task[t].o
           r == [row[o] EXCEPT !.status = "riding", !.car = TRUE]
<1>1. o \in Order /\ row[o] \in Row /\ GoodTask(task[t], row) /\ task[t].pc = "board"
  BY Unfolded DEF Board, At, GoodTask, NoOrderPc
<1>2. /\ row[o].status \in {"toUse", "riding", "done"} => row[o].isPay
      /\ row[o].status = "none" => ~row[o].isPay
  BY <1>1 DEF IInv, PaidBeforeUse, UnsoldUnpaid
<1>3. /\ r \in Row /\ (row[o].isPay => r.isPay)
      /\ r.status \in {"toUse", "riding", "done"} => r.isPay
      /\ r.status = "none" => ~r.isPay
  BY <1>1, <1>2 DEF Row, Status, GoodTask
<1>4. row' = [row EXCEPT ![o] = r]
  BY DEF Board
<1> HIDE DEF r
<1>5. TableStep
  BY <1>1, <1>3, <1>4, WriteStep
<1>6. TaskStep
  BY <1>5, FinishStep DEF Board
<1> QED
  BY <1>5, <1>6, IncType DEF IInv, TypeOK, TableStep, TaskStep, db, redis, clock, Board

\* So is the arrival under way, when the order becomes done.
LEMMA FinishRideInv ==
  ASSUME IInv, NEW t \in Thread, FinishRide(t)
  PROVE  IInv' /\ KeepsPaid(row, row')
<1> DEFINE o == task[t].o
           r == [row[o] EXCEPT !.status = "done"]
<1>1. o \in Order /\ row[o] \in Row /\ GoodTask(task[t], row) /\ task[t].pc = "finishRide"
  BY Unfolded DEF FinishRide, At, GoodTask, NoOrderPc
<1>2. /\ row[o].status \in {"toUse", "riding", "done"} => row[o].isPay
      /\ row[o].status = "none" => ~row[o].isPay
  BY <1>1 DEF IInv, PaidBeforeUse, UnsoldUnpaid
<1>3. /\ r \in Row /\ (row[o].isPay => r.isPay)
      /\ r.status \in {"toUse", "riding", "done"} => r.isPay
      /\ r.status = "none" => ~r.isPay
  BY <1>1, <1>2 DEF Row, Status, GoodTask
<1>4. row' = [row EXCEPT ![o] = r]
  BY DEF FinishRide
<1> HIDE DEF r
<1>5. TableStep
  BY <1>1, <1>3, <1>4, WriteStep
<1>6. TaskStep
  BY <1>5, FinishStep DEF FinishRide
<1> QED
  BY <1>5, <1>6 DEF IInv, TypeOK, TableStep, TaskStep, db, redis, clock, FinishRide

\* The dispatch job writes the car only.
LEMMA AssignCarInv ==
  ASSUME IInv, NEW t \in Thread, AssignCar(t)
  PROVE  IInv' /\ KeepsPaid(row, row')
<1> DEFINE o == task[t].o
           r == [row[o] EXCEPT !.car = TRUE]
<1>1. o \in Order /\ row[o] \in Row /\ GoodTask(task[t], row) /\ task[t].pc = "assign"
  BY Unfolded DEF AssignCar, At, GoodTask, NoOrderPc
<1>2. /\ row[o].status \in {"toUse", "riding", "done"} => row[o].isPay
      /\ row[o].status = "none" => ~row[o].isPay
  BY <1>1 DEF IInv, PaidBeforeUse, UnsoldUnpaid
<1>3. /\ r \in Row /\ (row[o].isPay => r.isPay)
      /\ r.status \in {"toUse", "riding", "done"} => r.isPay
      /\ r.status = "none" => ~r.isPay
  BY <1>1, <1>2 DEF Row, Status, GoodTask
<1>4. row' = [row EXCEPT ![o] = r]
  BY DEF AssignCar
<1> HIDE DEF r
<1>5. TableStep
  BY <1>1, <1>3, <1>4, WriteStep
<1>6. TaskStep
  BY <1>5, FinishStep DEF AssignCar
<1> QED
  BY <1>5, <1>6 DEF IInv, TypeOK, TableStep, TaskStep, db, redis, clock, AssignCar

\* A booked payment sets is_pay together with the status.
LEMMA TradePaidInv ==
  ASSUME IInv, NEW t \in Thread, TradePaid(t)
  PROVE  IInv' /\ KeepsPaid(row, row')
<1> DEFINE o == task[t].o
           r == AsPaid(row[o])
<1>1. o \in Order /\ row[o] \in Row /\ GoodTask(task[t], row) /\ task[t].pc = "query"
  BY Unfolded DEF TradePaid, At, GoodTask, NoOrderPc
<1>2. /\ row[o].status \in {"toUse", "riding", "done"} => row[o].isPay
      /\ row[o].status = "none" => ~row[o].isPay
  BY <1>1 DEF IInv, PaidBeforeUse, UnsoldUnpaid
<1>3. /\ r \in Row /\ (row[o].isPay => r.isPay)
      /\ r.status \in {"toUse", "riding", "done"} => r.isPay
      /\ r.status = "none" => ~r.isPay
  BY <1>1, <1>2 DEF Row, Status, GoodTask, AsPaid
<1>4. row' = [row EXCEPT ![o] = r]
  BY DEF TradePaid
<1> HIDE DEF r
<1>5. TableStep
  BY <1>1, <1>3, <1>4, WriteStep
<1>6. TaskStep
  BY <1>1, <1>5, GotoStep DEF TradePaid, Pc, NoOrderPc, CancelPc
<1> QED
  BY <1>5, <1>6 DEF IInv, TypeOK, TableStep, TaskStep, db, redis, clock, TradePaid

\* Issuing a trade number writes that number only.
LEMMA IssueTradeInv ==
  ASSUME IInv, NEW t \in Thread, IssueTrade(t)
  PROVE  IInv' /\ KeepsPaid(row, row')
<1> DEFINE o == task[t].o
<1>1. o \in Order /\ row[o] \in Row
  BY Unfolded DEF IssueTrade, At, GoodTask, NoOrderPc
<1>2. PICK n \in 1 .. MaxTrade, s \in {"open", "failed"} :
        /\ row' = [row EXCEPT ![o].tradeNo = n]
        /\ trade' = [trade EXCEPT ![o][n] = s]
  BY DEF IssueTrade
<1> DEFINE r == [row[o] EXCEPT !.tradeNo = n]
<1>3. r \in Row /\ r.isPay = row[o].isPay /\ r.status = row[o].status
  BY <1>1, BoundsAssumption DEF Row
<1>4. /\ row[o].status \in {"toUse", "riding", "done"} => row[o].isPay
      /\ row[o].status = "none" => ~row[o].isPay
  BY <1>1 DEF IInv, PaidBeforeUse, UnsoldUnpaid
<1>5. row' = [row EXCEPT ![o] = r]
  BY <1>2
<1> HIDE DEF r
<1>6. TableStep
  BY <1>1, <1>3, <1>4, <1>5, WriteStep
<1>7. TaskStep
  BY <1>6, FinishStep DEF IssueTrade
<1>8. trade' \in [Order -> [1 .. MaxTrade -> TradeState]]
  BY <1>1, <1>2 DEF IInv, TypeOK, TradeState
<1> QED
  BY <1>6, <1>7, <1>8 DEF IInv, TypeOK, TableStep, TaskStep, db, redis, clock, IssueTrade

\* The page writes a paid copy over a paid row, never back to status none.
LEMMA PageWriteInv ==
  ASSUME IInv, NEW t \in Thread, PageWrite(t)
  PROVE  IInv' /\ KeepsPaid(row, row')
<1> DEFINE o == task[t].o
           r == Saved(o, task[t].copy[o])
<1>1. /\ o \in Order /\ row \in [Order -> Row] /\ task[t] \in Task
      /\ GoodTask(task[t], row) /\ task[t].pc = "pageWrite"
  BY Unfolded DEF PageWrite, At, GoodTask, NoOrderPc
<1>2. /\ task[t].copy[o] \in Row /\ task[t].copy[o].isPay
      /\ task[t].copy[o].status # "none"
  BY <1>1 DEF Task, GoodTask
<1>3. r \in Row /\ r.isPay /\ r.status # "none"
  BY <1>1, <1>2, SavedRow
<1>4. row' = [row EXCEPT ![o] = r]
  BY DEF PageWrite
<1> HIDE DEF r
<1>5. TableStep
  BY <1>1, <1>3, <1>4, WriteStep
<1>6. TaskStep
  BY <1>5, FinishStep DEF PageWrite
<1> QED
  BY <1>5, <1>6 DEF IInv, TypeOK, TableStep, TaskStep, db, redis, clock, PageWrite

\* cancelOrder writes a paid copy over a paid row.
LEMMA CancelWriteInv ==
  ASSUME IInv, NEW t \in Thread, CancelWrite(t)
  PROVE  IInv' /\ KeepsPaid(row, row')
<1> DEFINE o == task[t].o
           r == Saved(o, task[t].copy[o])
<1>1. /\ o \in Order /\ row \in [Order -> Row] /\ task[t] \in Task
      /\ GoodTask(task[t], row) /\ task[t].pc = "cancelWrite"
  BY Unfolded DEF CancelWrite, At, GoodTask, NoOrderPc
<1>2. /\ task[t].copy[o] \in Row /\ task[t].copy[o].isPay
      /\ task[t].copy[o].status # "none"
  BY <1>1 DEF Task, GoodTask
<1>3. r \in Row /\ r.isPay /\ r.status # "none"
  BY <1>1, <1>2, SavedRow
<1>4. row' = [row EXCEPT ![o] = r]
  BY DEF CancelWrite
<1> HIDE DEF r
<1>5. TableStep
  BY <1>1, <1>3, <1>4, WriteStep
<1>6. TaskStep
  BY <1>5, FinishStep DEF CancelWrite
<1> QED
  BY <1>5, <1>6 DEF IInv, TypeOK, TableStep, TaskStep, db, redis, clock, CancelWrite

\* The end of applyRefund expires the row and keeps cancelOrder's copy.
LEMMA MarkRefundedInv ==
  ASSUME IInv, NEW t \in Thread, MarkRefunded(t)
  PROVE  IInv' /\ KeepsPaid(row, row')
<1> DEFINE o == task[t].o
           r == [row[o] EXCEPT !.status = "expired", !.isRefund = "1"]
<1>1. o \in Order /\ row[o] \in Row /\ GoodTask(task[t], row) /\ task[t].pc = "markRefunded"
  BY Unfolded DEF MarkRefunded, At, GoodTask, NoOrderPc
<1>2. /\ row[o].status \in {"toUse", "riding", "done"} => row[o].isPay
      /\ row[o].status = "none" => ~row[o].isPay
  BY <1>1 DEF IInv, PaidBeforeUse, UnsoldUnpaid
<1>3. /\ r \in Row /\ (row[o].isPay => r.isPay)
      /\ r.status \in {"toUse", "riding", "done"} => r.isPay
      /\ r.status = "none" => ~r.isPay
  BY <1>1, <1>2 DEF Row, Status, GoodTask
<1>4. row' = [row EXCEPT ![o] = r]
  BY DEF MarkRefunded
<1> HIDE DEF r
<1>5. TableStep
  BY <1>1, <1>3, <1>4, WriteStep
<1>6. TaskStep
  <2>1. CASE task[t].op # "cancel"
    BY <1>5, <2>1, FinishStep DEF MarkRefunded
  <2>2. CASE task[t].op = "cancel"
    <3> DEFINE k == [task[t] EXCEPT !.pc = "cancelWrite", !.copy[o].isRefund = "2"]
    <3>1. task' = [task EXCEPT ![t] = k]
      BY <2>2 DEF MarkRefunded
    <3>2. task[t] \in Task /\ task[t].copy[o] # NoRow
      BY <1>1, <2>2, Unfolded DEF GoodTask, CancelPc
    <3>3. task[t].copy[o] \in Row
      BY <1>1, <3>2 DEF Task
    <3>4. [task[t].copy[o] EXCEPT !.isRefund = "2"] \in Row
      BY <3>3 DEF Row
    <3>5. k \in Task
      BY <1>1, <3>2, <3>4 DEF Task, Pc
    <3>6. [task[t].copy[o] EXCEPT !.isRefund = "2"] # NoRow
      BY <3>4, NamesAssumption
    <3>7. GoodTask(task[t], row')
      BY <1>1, <1>5 DEF GoodTask, TableStep, KeepsPaid, NoOrderPc
    <3>8. /\ [task[t].copy[o] EXCEPT !.isRefund = "2"].isPay = task[t].copy[o].isPay
          /\ [task[t].copy[o] EXCEPT !.isRefund = "2"].status = task[t].copy[o].status
      BY <3>3 DEF Row
    <3>9. GoodTask(k, row')
      BY <1>1, <3>2, <3>6, <3>7, <3>8 DEF GoodTask, CancelPc, NoOrderPc, Task
    <3> HIDE DEF k
    <3> QED
      BY <1>5, <3>1, <3>5, <3>9, MoveStep
  <2> QED
    BY <2>1, <2>2
<1> QED
  BY <1>5, <1>6 DEF IInv, TypeOK, TableStep, TaskStep, db, redis, clock, MarkRefunded

\* The 30 s job's batch update leaves payments alone.
LEMMA SysUpdateInv ==
  ASSUME IInv, NEW t \in Thread, SysUpdate(t)
  PROVE  IInv' /\ KeepsPaid(row, row')
<1>1. /\ row \in [Order -> Row] /\ task[t].pc = "sysUpdate"
      /\ task[t].op \in {"sysRealtime", "sysAppointment"}
  BY Unfolded DEF SysUpdate, At, GoodTask
<1>2. \A o \in Order : SysCancelled(row[o]) \in Row
  BY <1>1 DEF SysCancelled, Row, Status
<1>3. \A o \in Order : /\ SysCancelled(row[o]).isPay = row[o].isPay
                       /\ SysCancelled(row[o]).status = "expired"
  BY <1>1 DEF SysCancelled, Row
<1>4. \A o \in Order : row'[o] = row[o] \/ row'[o] = SysCancelled(row[o])
  BY DEF SysUpdate
<1>5. row' \in [Order -> Row]
  BY <1>1, <1>2 DEF SysUpdate
<1>6. TableStep
  BY <1>3, <1>4, <1>5 DEF TableStep, KeepsPaid, PaidBeforeUse, UnsoldUnpaid, IInv
<1>7. TaskStep
  BY <1>1, <1>6, GotoStep DEF SysUpdate, Pc, NoOrderPc, CancelPc
<1> QED
  BY <1>6, <1>7 DEF IInv, TypeOK, TableStep, TaskStep, db, redis, clock, SysUpdate

\* The 02:15 job writes paid copies over paid rows.
LEMMA NightlyWriteInv ==
  ASSUME IInv, NEW t \in Thread, NightlyWrite(t)
  PROVE  IInv' /\ KeepsPaid(row, row')
<1> DEFINE r(o) == [task[t].copy[o] EXCEPT !.status = "expired"]
<1>1. row \in [Order -> Row] /\ task[t] \in Task /\ GoodTask(task[t], row)
  BY Unfolded
<1>2. ASSUME NEW o \in Loaded(t)
      PROVE  /\ Saved(o, r(o)) \in Row /\ Saved(o, r(o)).isPay
             /\ Saved(o, r(o)).status = "expired" /\ row[o].isPay
  <2>1. /\ o \in Order /\ task[t].copy[o] \in Row /\ task[t].copy[o].isPay
        /\ row[o].isPay
    BY <1>1 DEF Loaded, Task, GoodTask
  <2>2. r(o) \in Row /\ r(o).isPay = task[t].copy[o].isPay /\ r(o).status = "expired"
    BY <2>1 DEF Row, Status
  <2> HIDE DEF r
  <2> QED
    BY <1>1, <2>1, <2>2, SavedRow
<1>3. row' = [o \in Order |-> IF o \in Loaded(t) THEN Saved(o, r(o)) ELSE row[o]]
  BY DEF NightlyWrite
<1> HIDE DEF r
<1>4. row' \in [Order -> Row]
  BY <1>1, <1>2, <1>3
<1>5. \A o \in Order : row'[o] = IF o \in Loaded(t) THEN Saved(o, r(o)) ELSE row[o]
  BY <1>3
<1>6. TableStep
  BY <1>2, <1>4, <1>5 DEF TableStep, KeepsPaid, PaidBeforeUse, UnsoldUnpaid, IInv
<1>7. TaskStep
  BY <1>6, FinishStep DEF NightlyWrite
<1> QED
  BY <1>6, <1>7 DEF IInv, TypeOK, TableStep, TaskStep, db, redis, clock, NightlyWrite

-----------------------------------------------------------------------------
(* Everything else.                                                        *)

\* Paying at WeChat changes the trade only.
LEMMA UserPaysInv ==
  ASSUME IInv, NEW o \in Order, NEW n \in 1 .. MaxTrade, UserPays(o, n)
  PROVE  IInv' /\ KeepsPaid(row, row')
<1>1. TableStep /\ TaskStep
  BY StillStep DEF UserPays, db
<1> QED
  BY <1>1 DEF IInv, TypeOK, TableStep, TaskStep, db, redis, clock, UserPays, TradeState

\* An expiring key becomes an event.
LEMMA KeyExpiresInv ==
  ASSUME IInv, NEW o \in Order, KeyExpires(o)
  PROVE  IInv' /\ KeepsPaid(row, row')
<1>1. TableStep /\ TaskStep
  BY StillStep DEF KeyExpires, db
<1> QED
  BY <1>1 DEF IInv, TypeOK, TableStep, TaskStep, db, redis, clock, KeyExpires

\* A lost event is one fault.
LEMMA LoseEventInv ==
  ASSUME IInv, NEW e \in events, LoseEvent(e)
  PROVE  IInv' /\ KeepsPaid(row, row')
<1>1. TableStep /\ TaskStep
  BY StillStep DEF LoseEvent, db
<1>2. faults' \in 0 .. MaxFault
  BY BoundsAssumption DEF IInv, TypeOK, LoseEvent
<1> QED
  BY <1>1, <1>2 DEF IInv, TypeOK, TableStep, TaskStep, db, redis, clock, LoseEvent

\* The refund window closes.
LEMMA BecomeLateInv ==
  ASSUME IInv, NEW o \in Order, BecomeLate(o)
  PROVE  IInv' /\ KeepsPaid(row, row')
<1>1. TableStep /\ TaskStep
  BY StillStep DEF BecomeLate, db
<1> QED
  BY <1>1 DEF IInv, TypeOK, TableStep, TaskStep, db, redis, clock, BecomeLate

\* The job's waiting time ends.
LEMMA BecomeDueInv ==
  ASSUME IInv, NEW o \in Order, BecomeDue(o)
  PROVE  IInv' /\ KeepsPaid(row, row')
<1>1. TableStep /\ TaskStep
  BY StillStep DEF BecomeDue, db
<1> QED
  BY <1>1 DEF IInv, TypeOK, TableStep, TaskStep, db, redis, clock, BecomeDue

\* The day ends.
LEMMA MidnightInv ==
  ASSUME IInv, Midnight
  PROVE  IInv' /\ KeepsPaid(row, row')
<1>1. TableStep /\ TaskStep
  BY StillStep DEF Midnight, db
<1> QED
  BY <1>1 DEF IInv, TypeOK, TableStep, TaskStep, db, redis, clock, Midnight

\* A handler that dies drops its copies and leaves the monitor.
LEMMA CrashInv ==
  ASSUME IInv, NEW t \in Thread, Crash(t)
  PROVE  IInv' /\ KeepsPaid(row, row')
<1>1. TableStep
  BY Unfolded DEF Crash, db
<1>2. TaskStep
  BY <1>1, FinishStep DEF Crash
<1>3. faults' \in 0 .. MaxFault
  BY BoundsAssumption DEF IInv, TypeOK, Crash
<1> QED
  BY <1>1, <1>2, <1>3 DEF IInv, TypeOK, TableStep, TaskStep, db, redis, clock, Crash

-----------------------------------------------------------------------------
(* The theorems.                                                           *)

\* The empty table satisfies the invariant.
LEMMA InitInv == Init => IInv
<1> SUFFICES ASSUME Init PROVE IInv
  OBVIOUS
<1>1. TypeOK
  BY IdleIsTask, BoundsAssumption DEF Init, TypeOK, Row, Status, TradeState
<1>2. InFlightOK
  BY IdleIsTask DEF Init, InFlightOK
<1>3. PaidBeforeUse /\ UnsoldUnpaid
  BY DEF Init, PaidBeforeUse, UnsoldUnpaid
<1> QED
  BY <1>1, <1>2, <1>3 DEF IInv

\* A step that changes nothing keeps it.
LEMMA StutterInv ==
  ASSUME IInv, UNCHANGED vars
  PROVE  IInv' /\ KeepsPaid(row, row')
<1>1. TableStep /\ TaskStep
  BY StillStep DEF vars, db
<1> QED
  BY <1>1 DEF IInv, TypeOK, TableStep, TaskStep, db, redis, clock, vars

\* Every call of a handler keeps it.
LEMMA ContinueInv ==
  ASSUME IInv, NEW t \in Thread, Continue(t)
  PROVE  IInv' /\ KeepsPaid(row, row')
<1>1. CASE SetPayKey(t)
  BY <1>1, SetPayKeyInv
<1>2. CASE IssueTrade(t)
  BY <1>2, IssueTradeInv
<1>3. CASE EnterMonitor(t)
  BY <1>3, EnterMonitorInv
<1>4. CASE TradePaid(t)
  BY <1>4, TradePaidInv
<1>5. CASE TradeUnpaid(t)
  BY <1>5, TradeUnpaidInv
<1>6. CASE SetRideKey(t)
  BY <1>6, SetRideKeyInv
<1>7. CASE SaveSerial(t)
  BY <1>7, SaveSerialInv
<1>8. CASE ExecuteOrderExpire(t)
  BY <1>8, ExecuteOrderExpireInv
<1>9. CASE PageWrite(t)
  BY <1>9, PageWriteInv
<1>10. CASE CancelWrite(t)
  BY <1>10, CancelWriteInv
<1>11. CASE ApplyRefund(t)
  BY <1>11, ApplyRefundInv
<1>12. CASE WxRefund(t)
  BY <1>12, WxRefundInv
<1>13. CASE WxRefundFails(t)
  BY <1>13, WxRefundFailsInv
<1>14. CASE SaveRefundRow(t)
  BY <1>14, SaveRefundRowInv
<1>15. CASE MarkRefunded(t)
  BY <1>15, MarkRefundedInv
<1>16. CASE ScanAppointments(t)
  BY <1>16, ScanAppointmentsInv
<1>17. CASE SysUpdate(t)
  BY <1>17, SysUpdateInv
<1>18. CASE SysPhaseEnds(t)
  BY <1>18, SysPhaseEndsInv
<1>19. CASE Board(t)
  BY <1>19, BoardInv
<1>20. CASE FinishRide(t)
  BY <1>20, FinishRideInv
<1>21. CASE AssignCar(t)
  BY <1>21, AssignCarInv
<1>22. CASE NightlyWrite(t)
  BY <1>22, NightlyWriteInv
<1>23. CASE \E o \in Order : SysRefund(t, o)
  BY <1>23, SysRefundInv
<1>24. CASE RoutingAnswers(t)
  BY <1>24, RoutingAnswersInv
<1>25. CASE RoutingFails(t)
  BY <1>25, RoutingFailsInv
<1> QED
  BY <1>1, <1>2, <1>3, <1>4, <1>5, <1>6, <1>7, <1>8, <1>9, <1>10, <1>11, <1>12,
     <1>13, <1>14, <1>15, <1>16, <1>17, <1>18, <1>19, <1>20, <1>21, <1>22, <1>23, <1>24,
     <1>25 DEF Continue

\* Every start of a request keeps it.
LEMMA RequestStartsInv ==
  ASSUME IInv, NEW t \in Worker, NEW o \in Order, RequestStarts(t, o)
  PROVE  IInv' /\ KeepsPaid(row, row')
BY BuyTicketInv, LoadPayPreInv, QueryPayInv, SetExpOrderInv, RefundPageInv,
   CancelOrderInv, RequestRefundInv, CheckQrCallBackInv, CarArrivesInv,
   SetRouteOrderExpireInv DEF RequestStarts

\* Users, redis and the clock keep it.
LEMMA ElsewhereInv ==
  ASSUME IInv, Elsewhere
  PROVE  IInv' /\ KeepsPaid(row, row')
BY KeyExpiresInv, BecomeLateInv, BecomeDueInv, UserPaysInv, LoseEventInv, MidnightInv
   DEF Elsewhere

\* Every step keeps the invariant and every booked payment.
LEMMA NextInv ==
  ASSUME IInv, [Next]_vars
  PROVE  IInv' /\ KeepsPaid(row, row')
<1>1. CASE \E t \in Worker, o \in Order : RequestStarts(t, o)
  BY <1>1, RequestStartsInv
<1>2. CASE \E t \in Worker, e \in events : SetOrderExpire(t, e)
  BY <1>2, SetOrderExpireInv
<1>3. CASE \E t \in Worker : SysCancalOrder(t)
  BY <1>3, SysCancalOrderInv DEF Thread
<1>4. CASE JobStarts
  BY <1>4, UpdatePeakOrderInv, DispatchInv DEF JobStarts, Thread
<1>5. CASE \E t \in Thread : Continue(t)
  BY <1>5, ContinueInv
<1>6. CASE \E t \in Thread : Crash(t)
  BY <1>6, CrashInv
<1>7. CASE Elsewhere
  BY <1>7, ElsewhereInv
<1>8. CASE UNCHANGED vars
  BY <1>8, StutterInv
<1> QED
  BY <1>1, <1>2, <1>3, <1>4, <1>5, <1>6, <1>7, <1>8 DEF Next

\* The invariant holds in every state of every behaviour: what is known of the
\* table is known of every row a handler still holds.
THEOREM Invariance == Spec => []IInv
<1>1. IInv /\ [Next]_vars => IInv'
  BY NextInv
<1> QED
  BY InitInv, <1>1, PTL DEF Spec

\* Type correctness of every variable of the order component.
THEOREM TypeCorrect == Spec => []TypeOK
<1>1. IInv => TypeOK
  BY DEF IInv
<1> QED
  BY Invariance, <1>1, PTL

\* No interleaving of handlers, stale whole-row writes included, makes an unpaid
\* order usable.
THEOREM UseRequiresPayment == Spec => []PaidBeforeUse
<1>1. IInv => PaidBeforeUse
  BY DEF IInv
<1> QED
  BY Invariance, <1>1, PTL

\* No step of any handler, job or failure turns a paid order back into an unpaid
\* one.
THEOREM PaymentStays == Spec => PaymentNeverForgotten
<1>1. IInv /\ [Next]_vars => [\A o \in Order : row[o].isPay => row'[o].isPay]_vars
  BY NextInv DEF KeepsPaid
<1> QED
  BY Invariance, <1>1, PTL DEF Spec, PaymentNeverForgotten
=============================================================================
