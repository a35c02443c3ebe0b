-------------------------- MODULE OrderSerialProofs --------------------------
(***************************************************************************)
(* SerialOnce, for every value of the constants of OrderService: the       *)
(* monitor of queryWechatPayResult and the second read of is_pay let one   *)
(* payment of an order save its serial.                                    *)
(*                                                                         *)
(* The serial is saved three calls after the read that allows it.  In      *)
(* between the order counts as paid, or the monitor is held; AskOK and     *)
(* BookOK say which, and that no other thread is in that stretch for the   *)
(* same order.  Whole-row writes do not disturb it: they copy paid rows.   *)
(***************************************************************************)
EXTENDS OrderServiceProofs

\* Steps between the first read of is_pay, or a company's purchase, and the
\* serial.
BookPc == {"payKey", "enter", "query", "rideKey", "serial"}

\* A task that will save the serial of o.
Books(k, o) ==
  /\ k.o = o
  /\ k.pc \in {"rideKey", "serial"} \/ (k.pc = "payKey" /\ o \in Company)

\* Who asks WeChat is inside the monitor and found the order unpaid, and nobody
\* else can pay it.
AskOK ==
  \A t \in Thread :
    /\ At(t, "enter") \/ At(t, "query") => row[task[t].o].status # "none"
    /\ At(t, "query") => lock = t /\ ~row[task[t].o].isPay

\* Who will save a serial is alone, and the order counts as paid without one.
BookOK ==
  \A o \in Order :
    /\ \A t \in Thread : Books(task[t], o) => serial[o] = 0 /\ row[o].isPay
    /\ \A t, u \in Thread : Books(task[t], o) /\ Books(task[u], o) => t = u

BInv == AskOK /\ BookOK /\ SerialOnce

\* The table changes no payment, and no order disappears.
QuietTable ==
  /\ serial' = serial
  /\ \A o \in Order : /\ row'[o].isPay = row[o].isPay
                      /\ row[o].status # "none" => row'[o].status # "none"

\* At most its own monitor is left.
LockStep(t) == lock' = lock \/ (lock = t /\ lock' = NoThread)

\* A thread goes where it neither asks nor books, and the table is quiet.
Quiet(t) ==
  /\ \E k : k.pc \notin BookPc /\ task' = [task EXCEPT ![t] = k]
  /\ QuietTable /\ LockStep(t)

\* What the invariants say of the tasks.
LEMMA Facts ==
  ASSUME IInv, BInv
  PROVE  /\ task \in [Thread -> Task] /\ row \in [Order -> Row]
         /\ serial \in [Order -> 0 .. MaxCount]
         /\ \A t \in Thread : task[t].pc \in BookPc => task[t].o \in Order
         /\ \A o \in Order : row[o].isPay \in BOOLEAN
BY DEF IInv, TypeOK, InFlightOK, GoodTask, NoOrderPc, BookPc, Row

\* Other threads keep what they know through a step that pays nothing.
LEMMA QuietStep ==
  ASSUME IInv, BInv, NEW t \in Thread, Quiet(t)
  PROVE  BInv'
<1>1. PICK k : k.pc \notin BookPc /\ task' = [task EXCEPT ![t] = k]
  BY DEF Quiet
<1>2. \A u \in Thread : task'[u].pc \in BookPc => u # t /\ task'[u] = task[u]
  BY <1>1, Facts
<1>3. QuietTable /\ LockStep(t)
  BY DEF Quiet
<1>4. AskOK'
  <2> SUFFICES ASSUME NEW u \in Thread, At(u, "enter")' \/ At(u, "query")'
               PROVE  /\ row'[task'[u].o].status # "none"
                      /\ At(u, "query")' => lock' = u /\ ~row'[task'[u].o].isPay
    BY DEF AskOK
  <2>1. u # t /\ task'[u] = task[u] /\ task[u].o \in Order
    BY <1>2, Facts DEF At, BookPc
  <2> QED
    BY <1>3, <2>1 DEF BInv, AskOK, QuietTable, LockStep, At
<1>5. ASSUME NEW o \in Order, NEW u \in Thread PROVE Books(task'[u], o) => Books(task[u], o)
  BY <1>2 DEF Books, BookPc
<1>6. BookOK'
  BY <1>3, <1>5 DEF BInv, BookOK, QuietTable
<1>7. SerialOnce'
  BY <1>3, Facts DEF BInv, SerialOnce, QuietTable
<1> QED
  BY <1>4, <1>6, <1>7 DEF BInv

\* Nor does a step of no thread.
LEMMA AsideStep ==
  ASSUME BInv, task' = task, lock' = lock, row' = row, serial' = serial
  PROVE  BInv'
BY DEF BInv, AskOK, BookOK, SerialOnce, At, Books

-----------------------------------------------------------------------------
(* Quiet handlers.                                                         *)

\* A step that only moves the thread, to where it neither asks nor books.
LEMMA MovesQuiet ==
  ASSUME NEW t \in Thread, NEW k, k.pc \notin BookPc, task' = [task EXCEPT ![t] = k],
         row' = row, serial' = serial, lock' = lock
  PROVE  Quiet(t)
BY DEF Quiet, QuietTable, LockStep

\* Handlers that start with a read, and jobs.
LEMMA StartsQuiet ==
  ASSUME NEW t \in Thread, NEW op, NEW pc, NEW o, NEW copy,
         Begin(t, op, pc, o, copy), pc \notin BookPc,
         row' = row, serial' = serial, lock' = lock
  PROVE  Quiet(t)
<1> DEFINE k == [op |-> op, pc |-> pc, o |-> o, n |-> 0, copy |-> copy]
<1>1. task' = [task EXCEPT ![t] = k] /\ k.pc \notin BookPc
  BY DEF Begin
<1> HIDE DEF k
<1> QED
  BY <1>1, MovesQuiet

\* All requests but a purchase and queryWechatPayResult are quiet when they start.
LEMMA RequestsQuiet ==
  ASSUME NEW t \in Thread, NEW o \in Order,
         \/ LoadPayPre(t, o) \/ SetExpOrder(t, o) \/ RefundPage(t, o)
         \/ CancelOrder(t, o) \/ RequestRefund(t, o) \/ CheckQrCallBack(t, o)
         \/ CarArrives(t, o) \/ SetRouteOrderExpire(t, o) \/ Dispatch(t, o)
  PROVE  Quiet(t)
<1>1. CASE LoadPayPre(t, o)
  BY <1>1, StartsQuiet DEF LoadPayPre, db, BookPc
<1>2. CASE SetExpOrder(t, o)
  BY <1>2, StartsQuiet DEF SetExpOrder, db, BookPc
<1>3. CASE RefundPage(t, o)
  BY <1>3, StartsQuiet DEF RefundPage, db, BookPc
<1>4. CASE CancelOrder(t, o)
  BY <1>4, StartsQuiet DEF CancelOrder, db, BookPc
<1>5. CASE RequestRefund(t, o)
  BY <1>5, StartsQuiet DEF RequestRefund, db, BookPc
<1>6. CASE CheckQrCallBack(t, o)
  BY <1>6, StartsQuiet DEF CheckQrCallBack, db, BookPc
<1>7. CASE CarArrives(t, o)
  BY <1>7, StartsQuiet DEF CarArrives, db, BookPc
<1>8. CASE SetRouteOrderExpire(t, o)
  BY <1>8, StartsQuiet DEF SetRouteOrderExpire, db, BookPc
<1>9. CASE Dispatch(t, o)
  BY <1>9, StartsQuiet DEF Dispatch, db, BookPc
<1> QED
  BY <1>1, <1>2, <1>3, <1>4, <1>5, <1>6, <1>7, <1>8, <1>9

\* So are jobs, and timer events, which may be dropped.
LEMMA JobsQuiet ==
  ASSUME NEW t \in Thread, SysCancalOrder(t) \/ UpdatePeakOrder(t)
  PROVE  Quiet(t)
<1>1. CASE SysCancalOrder(t)
  BY <1>1, StartsQuiet DEF SysCancalOrder, db, BookPc
<1>2. CASE UpdatePeakOrder(t)
  BY <1>2, StartsQuiet DEF UpdatePeakOrder, db, BookPc
<1> QED
  BY <1>1, <1>2

LEMMA EventsQuiet ==
  ASSUME BInv, NEW t \in Thread, NEW e, SetOrderExpire(t, e)
  PROVE  Quiet(t) \/ BInv'
<1>1. CASE StillWaiting(e[1], e[2])
  BY <1>1, StartsQuiet DEF SetOrderExpire, db, BookPc
<1>2. CASE ~StillWaiting(e[1], e[2])
  BY <1>2, AsideStep DEF SetOrderExpire, db
<1> QED
  BY <1>1, <1>2

\* A thread that goes on elsewhere, or is over.
LEMMA GotoQuiet ==
  ASSUME IInv, NEW t \in Thread, row' = row, serial' = serial, lock' = lock,
         Finish(t) \/ \E pc : pc \notin BookPc /\ Goto(t, pc)
  PROVE  Quiet(t)
<1>1. CASE Finish(t)
  <2>1. Idle.pc \notin BookPc
    BY DEF Idle, BookPc
  <2> QED
    BY <1>1, <2>1, MovesQuiet DEF Finish
<1>2. CASE \E pc : pc \notin BookPc /\ Goto(t, pc)
  <2>1. PICK pc : pc \notin BookPc /\ Goto(t, pc)
    BY <1>2
  <2> DEFINE k == [task[t] EXCEPT !.pc = pc]
  <2>2. task' = [task EXCEPT ![t] = k] /\ k.pc \notin BookPc
    BY <2>1 DEF Goto, IInv, TypeOK, Task
  <2> HIDE DEF k
  <2> QED
    BY <2>2, MovesQuiet
<1> QED
  BY <1>1, <1>2

\* The next refund of sysCancalOrder's list.
LEMMA SysRefundQuiet ==
  ASSUME IInv, NEW t \in Thread, NEW o \in Order, SysRefund(t, o)
  PROVE  Quiet(t)
<1> DEFINE k == [task[t] EXCEPT !.pc = "wxRefund", !.o = o,
                               !.n = task[t].copy[o].tradeNo, !.copy[o] = NoRow]
<1>1. task' = [task EXCEPT ![t] = k]
  BY DEF SysRefund
<1>2. k.pc = "wxRefund"
  BY Unfolded DEF Task
<1> HIDE DEF k
<1>3. k.pc \notin BookPc
  BY <1>2 DEF BookPc
<1> QED
  BY <1>1, <1>3, MovesQuiet DEF SysRefund, db

\* Steps of refunds and of sysCancalOrder's loop leave the table alone.
LEMMA RefundsQuiet ==
  ASSUME IInv, NEW t \in Thread,
         \/ ApplyRefund(t) \/ WxRefund(t) \/ WxRefundFails(t) \/ SaveRefundRow(t)
         \/ RoutingFails(t) \/ ScanAppointments(t) \/ SysPhaseEnds(t)
         \/ \E o \in Order : SysRefund(t, o)
  PROVE  Quiet(t)
<1>0. task \in [Thread -> Task]
  BY DEF IInv, TypeOK
<1>1. CASE ApplyRefund(t)
  <2>1. CASE ~Refundable(task[t].o)
    BY <1>1, <2>1, GotoQuiet DEF ApplyRefund, db
  <2>2. CASE Refundable(task[t].o) /\ task[t].o \in Company
    BY <1>1, <2>2, GotoQuiet DEF ApplyRefund, db, BookPc
  <2>3. CASE Refundable(task[t].o) /\ task[t].o \notin Company
    <3> DEFINE k == [task[t] EXCEPT !.pc = "wxRefund", !.n = row[task[t].o].tradeNo]
    <3>1. task' = [task EXCEPT ![t] = k] /\ k.pc \notin BookPc
      BY <1>0, <1>1, <2>3 DEF ApplyRefund, BookPc, Task
    <3> HIDE DEF k
    <3> QED
      BY <1>1, <3>1, MovesQuiet DEF ApplyRefund, db
  <2> QED
    BY <2>1, <2>2, <2>3
<1>2. CASE WxRefund(t)
  BY <1>2, GotoQuiet DEF WxRefund, db, BookPc
<1>3. CASE WxRefundFails(t)
  <2>1. CASE InSysCancal(t)
    BY <1>3, <2>1, GotoQuiet DEF WxRefundFails, db, BookPc
  <2>2. CASE ~InSysCancal(t)
    BY <1>3, <2>2, GotoQuiet DEF WxRefundFails, db
  <2> QED
    BY <2>1, <2>2
<1>4. CASE SaveRefundRow(t)
  BY <1>4, GotoQuiet DEF SaveRefundRow, BookPc
<1>5. CASE RoutingFails(t)
  BY <1>5, GotoQuiet DEF RoutingFails, db
<1>6. CASE ScanAppointments(t)
  <2>1. CASE Stranded(Appointment) = {}
    BY <1>6, <2>1, GotoQuiet DEF ScanAppointments, db
  <2>2. CASE Stranded(Appointment) # {}
    <3> DEFINE k == [op |-> "sysAppointment", pc |-> "sysUpdate", o |-> NoOrder, n |-> 0,
                     copy |-> Load(Stranded(Appointment))]
    <3>1. task' = [task EXCEPT ![t] = k] /\ k.pc \notin BookPc
      BY <1>6, <2>2 DEF ScanAppointments, BookPc
    <3> HIDE DEF k
    <3> QED
      BY <1>6, <3>1, MovesQuiet DEF ScanAppointments, db
  <2> QED
    BY <2>1, <2>2
<1>7. CASE SysPhaseEnds(t)
  <2>1. CASE task[t].op = "sysRealtime"
    <3> DEFINE k == [Idle EXCEPT !.op = "sysRealtime", !.pc = "scanAgain"]
    <3>1. task' = [task EXCEPT ![t] = k] /\ k.pc \notin BookPc
      BY <1>7, <2>1 DEF SysPhaseEnds, BookPc, Idle
    <3> HIDE DEF k
    <3> QED
      BY <1>7, <3>1, MovesQuiet DEF SysPhaseEnds, db
  <2>2. CASE task[t].op # "sysRealtime"
    BY <1>7, <2>2, GotoQuiet DEF SysPhaseEnds, db
  <2> QED
    BY <2>1, <2>2
<1>8. CASE \E o \in Order : SysRefund(t, o)
  BY <1>8, SysRefundQuiet
<1> QED
  BY <1>1, <1>2, <1>3, <1>4, <1>5, <1>6, <1>7, <1>8

\* A table written from paid copies of paid orders, or in columns other than
\* is_pay, is quiet.
LEMMA EndsQuiet ==
  ASSUME IInv, NEW t \in Thread, Finish(t), QuietTable, lock' = lock
  PROVE  Quiet(t)
BY DEF Finish, Quiet, LockStep, Idle, BookPc

\* One column of one row, and not is_pay.
LEMMA ColumnsQuiet ==
  ASSUME IInv, NEW t \in Thread,
         \/ ExecuteOrderExpire(t) \/ RoutingAnswers(t) \/ Board(t) \/ FinishRide(t)
         \/ AssignCar(t) \/ IssueTrade(t)
  PROVE  Quiet(t)
<1>1. row \in [Order -> Row]
  BY DEF IInv, TypeOK
<1>2. CASE ExecuteOrderExpire(t)
  <2>1. QuietTable
    BY <1>1, <1>2 DEF ExecuteOrderExpire, QuietTable, Row
  <2> QED
    BY <1>2, <2>1, EndsQuiet DEF ExecuteOrderExpire
<1>3. CASE RoutingAnswers(t)
  <2>1. QuietTable
    BY <1>1, <1>3 DEF RoutingAnswers, QuietTable, Row
  <2> QED
    BY <1>3, <2>1, EndsQuiet DEF RoutingAnswers
<1>4. CASE Board(t)
  <2>1. QuietTable
    BY <1>1, <1>4 DEF Board, QuietTable, Row
  <2> QED
    BY <1>4, <2>1, EndsQuiet DEF Board
<1>5. CASE FinishRide(t)
  <2>1. QuietTable
    BY <1>1, <1>5 DEF FinishRide, QuietTable, Row
  <2> QED
    BY <1>5, <2>1, EndsQuiet DEF FinishRide
<1>6. CASE AssignCar(t)
  <2>1. QuietTable
    BY <1>1, <1>6 DEF AssignCar, QuietTable, Row
  <2> QED
    BY <1>6, <2>1, EndsQuiet DEF AssignCar
<1>7. CASE IssueTrade(t)
  <2>1. QuietTable
    BY <1>1, <1>7 DEF IssueTrade, QuietTable, Row
  <2> QED
    BY <1>7, <2>1, EndsQuiet DEF IssueTrade
<1> QED
  BY <1>2, <1>3, <1>4, <1>5, <1>6, <1>7

\* Whole rows written back are copies of orders that were paid, and still are.
LEMMA CopiesQuiet ==
  ASSUME IInv, NEW t \in Thread,
         PageWrite(t) \/ CancelWrite(t) \/ NightlyWrite(t) \/ SysUpdate(t) \/ MarkRefunded(t)
  PROVE  Quiet(t)
<1>1. row \in [Order -> Row] /\ task[t] \in Task /\ GoodTask(task[t], row)
  BY Unfolded
<1>2. CASE PageWrite(t) \/ CancelWrite(t)
  <2> DEFINE o == task[t].o
             r == task[t].copy[o]
  <2>1. o \in Order /\ r # NoRow
    BY <1>1, <1>2 DEF GoodTask, NoOrderPc, PageWrite, CancelWrite, At
  <2>2. r \in Row /\ r.isPay /\ r.status # "none" /\ row[o].isPay
    BY <1>1, <2>1 DEF GoodTask, Task
  <2>3. /\ Saved(o, r).isPay = r.isPay /\ Saved(o, r).status = r.status
        /\ row' = [row EXCEPT ![o] = Saved(o, r)] /\ serial' = serial
    BY <1>1, <1>2, <2>1, <2>2, SavedRow DEF PageWrite, CancelWrite
  <2>4. r.isPay = TRUE /\ row[o].isPay = TRUE
    BY <1>1, <2>1, <2>2 DEF Row
  <2> HIDE DEF r, o
  <2>5. QuietTable
    BY <1>1, <2>1, <2>2, <2>3, <2>4 DEF QuietTable
  <2> QED
    BY <1>2, <2>5, EndsQuiet DEF PageWrite, CancelWrite
<1>3. CASE NightlyWrite(t)
  <2>1. ASSUME NEW o \in Order
        PROVE  row'[o].isPay = row[o].isPay /\ (row[o].status # "none" => row'[o].status # "none")
    <3>1. CASE o \in Loaded(t)
      <4> DEFINE r == [task[t].copy[o] EXCEPT !.status = "expired"]
      <4>1. task[t].copy[o] \in Row /\ task[t].copy[o].isPay /\ row[o].isPay
        BY <1>1, <3>1 DEF GoodTask, Loaded, Task
      <4>2. r \in Row /\ r.isPay = TRUE /\ row[o].isPay = TRUE /\ r.status = "expired"
        BY <1>1, <4>1 DEF Row, Status
      <4>3. row'[o] = Saved(o, r)
        BY <1>3, <3>1 DEF NightlyWrite
      <4> HIDE DEF r
      <4> QED
        BY <1>1, <4>2, <4>3, SavedRow
    <3>2. CASE o \notin Loaded(t)
      BY <1>3, <3>2 DEF NightlyWrite
    <3> QED
      BY <3>1, <3>2
  <2> QED
    BY <1>3, <2>1, EndsQuiet DEF NightlyWrite, QuietTable
<1>4. CASE SysUpdate(t)
  <2>1. QuietTable
    BY <1>1, <1>4 DEF SysUpdate, SysCancelled, QuietTable, Row
  <2>2. Goto(t, "sysRefund") /\ lock' = lock
    BY <1>4 DEF SysUpdate
  <2> DEFINE k == [task[t] EXCEPT !.pc = "sysRefund"]
  <2>3. task' = [task EXCEPT ![t] = k] /\ k.pc \notin BookPc
    BY <1>1, <2>2 DEF Goto, BookPc, Task
  <2> HIDE DEF k
  <2> QED
    BY <2>1, <2>2, <2>3 DEF Quiet, LockStep
<1>5. CASE MarkRefunded(t)
  <2>1. QuietTable
    BY <1>1, <1>5 DEF MarkRefunded, QuietTable, Row
  <2>2. CASE task[t].op # "cancel"
    BY <1>5, <2>1, <2>2, EndsQuiet DEF MarkRefunded
  <2>3. CASE task[t].op = "cancel"
    <3> DEFINE k == [task[t] EXCEPT !.pc = "cancelWrite", !.copy[task[t].o].isRefund = "2"]
    <3>1. task' = [task EXCEPT ![t] = k] /\ k.pc \notin BookPc
      BY <1>1, <1>5, <2>3 DEF MarkRefunded, BookPc, Task
    <3> HIDE DEF k
    <3> QED
      BY <1>5, <2>1, <3>1 DEF Quiet, LockStep, MarkRefunded
  <2> QED
    BY <2>2, <2>3
<1> QED
  BY <1>2, <1>3, <1>4, <1>5

\* A lost thread leaves the monitor, too.
LEMMA LeavingQuiet ==
  ASSUME IInv, NEW t \in Thread, Crash(t) \/ (TradeUnpaid(t) /\ lock = t)
  PROVE  Quiet(t)
<1>1. Finish(t) /\ row' = row /\ serial' = serial /\ LockStep(t)
  BY DEF Crash, TradeUnpaid, LockStep, db
<1> QED
  BY <1>1 DEF Quiet, QuietTable, Finish, Idle, BookPc

-----------------------------------------------------------------------------
(* Handlers that ask for a payment, or book it.                            *)

\* A thread that books keeps booking the same order, or stops.
LEMMA BookerMoves ==
  ASSUME IInv, BInv, NEW t \in Thread, NEW k, task' = [task EXCEPT ![t] = k],
         k.pc \notin {"enter", "query"},
         \A o \in Order : Books(k, o) => Books(task[t], o),
         row' = row, serial' = serial, LockStep(t)
  PROVE  BInv'
<1>1. \A u \in Thread : u # t => task'[u] = task[u]
  BY Facts
<1>2. task'[t] = k
  BY Facts
<1>3. AskOK'
  BY <1>1, <1>2 DEF BInv, AskOK, At, LockStep
<1>4. ASSUME NEW o \in Order, NEW u \in Thread PROVE Books(task'[u], o) => Books(task[u], o)
  BY <1>1, <1>2
<1>5. BookOK'
  BY <1>4 DEF BInv, BookOK
<1> QED
  BY <1>3, <1>5 DEF BInv, SerialOnce

\* A purchase: a new order is unpaid, so nobody asks or books for it yet.
LEMMA BuyTicketBooks ==
  ASSUME IInv, BInv, NEW t \in Thread, NEW o \in Order, BuyTicket(t, o)
  PROVE  BInv'
<1> DEFINE k == [op |-> "buy", pc |-> "payKey", o |-> o, n |-> 0, copy |-> Blank]
<1>1. task' = [task EXCEPT ![t] = k] /\ k.pc = "payKey" /\ k.o = o
  BY DEF BuyTicket, Begin
<1> HIDE DEF k
<1>2. \A u \in Thread : u # t => task'[u] = task[u]
  BY <1>1, Facts
<1>3. task'[t] = k
  BY <1>1, Facts
<1>4. /\ row[o].status = "none" /\ ~row[o].isPay /\ serial' = serial /\ lock' = lock
      /\ row' = [row EXCEPT ![o] = NewRow(o)]
  BY DEF BuyTicket, IInv, UnsoldUnpaid
<1>5. /\ row'[o].isPay = (o \in Company) /\ \A p \in Order : p # o => row'[p] = row[p]
  BY <1>4, Facts DEF NewRow
<1>6. serial[o] = 0
  BY <1>4, Facts, BoundsAssumption DEF BInv, SerialOnce
<1>7. AskOK'
  <2> SUFFICES ASSUME NEW u \in Thread, At(u, "enter")' \/ At(u, "query")'
               PROVE  /\ row'[task'[u].o].status # "none"
                      /\ At(u, "query")' => lock' = u /\ ~row'[task'[u].o].isPay
    BY DEF AskOK
  <2>1. u # t /\ task'[u] = task[u]
    BY <1>1, <1>2, <1>3 DEF At
  <2>2. task[u].o \in Order /\ task[u].o # o
    BY <1>4, <2>1, Facts DEF BInv, AskOK, At, BookPc
  <2> QED
    BY <1>4, <1>5, <2>1, <2>2 DEF BInv, AskOK, At
<1>8. ASSUME NEW p \in Order, NEW u \in Thread, Books(task'[u], p)
      PROVE  /\ serial'[p] = 0 /\ row'[p].isPay
             /\ \A v \in Thread : Books(task'[v], p) => u = v
  <2>1. CASE p # o
    BY <1>1, <1>2, <1>3, <1>4, <1>5, <1>8, <2>1 DEF BInv, BookOK, Books
  <2>2. CASE p = o
    <3>1. \A v \in Thread : v # t => ~Books(task'[v], o)
      BY <1>2, <1>4 DEF BInv, BookOK
    <3> QED
      BY <1>1, <1>3, <1>4, <1>5, <1>6, <1>8, <2>2, <3>1 DEF Books
  <2> QED
    BY <2>1, <2>2
<1>9. BookOK'
  BY <1>8 DEF BookOK
<1>10. SerialOnce'
  BY <1>4, <1>5, <1>6 DEF BInv, SerialOnce
<1> QED
  BY <1>7, <1>9, <1>10 DEF BInv

\* The payment timer: a company order goes on to its serial.
LEMMA SetPayKeyBooks ==
  ASSUME IInv, BInv, NEW t \in Thread, SetPayKey(t)
  PROVE  BInv'
<1>1. At(t, "payKey") /\ row' = row /\ serial' = serial /\ lock' = lock
  BY DEF SetPayKey, db
<1>2. CASE task[t].o \in Company
  <2> DEFINE k == [task[t] EXCEPT !.pc = "rideKey"]
  <2>1. task' = [task EXCEPT ![t] = k]
    BY <1>2 DEF SetPayKey, Goto
  <2>2. k.pc = "rideKey" /\ k.o = task[t].o
    BY Facts DEF Task
  <2> HIDE DEF k
  <2>3. \A o \in Order : Books(k, o) => Books(task[t], o)
    BY <1>1, <1>2, <2>2 DEF Books, At
  <2> QED
    BY <1>1, <2>1, <2>2, <2>3, BookerMoves DEF LockStep
<1>3. CASE task[t].o \notin Company
  <2>1. Finish(t)
    BY <1>3 DEF SetPayKey
  <2> QED
    BY <1>1, <2>1, GotoQuiet, QuietStep
<1> QED
  BY <1>2, <1>3

\* A request asks outside the monitor whether the order is paid.
LEMMA QueryPayBooks ==
  ASSUME IInv, BInv, NEW t \in Thread, NEW o \in Order, QueryPay(t, o)
  PROVE  BInv'
<1> DEFINE k == [op |-> "pay", pc |-> "enter", o |-> o, n |-> 0, copy |-> Blank]
<1>1. task' = [task EXCEPT ![t] = k] /\ k.pc = "enter" /\ k.o = o
  BY DEF QueryPay, Begin
<1> HIDE DEF k
<1>2. row' = row /\ serial' = serial /\ lock' = lock /\ row[o].status # "none"
  BY DEF QueryPay, db
<1>3. task'[t] = k /\ \A u \in Thread : u # t => task'[u] = task[u]
  BY <1>1, Facts
<1>4. AskOK'
  BY <1>1, <1>2, <1>3 DEF BInv, AskOK, At
<1>5. ASSUME NEW p \in Order, NEW u \in Thread PROVE Books(task'[u], p) => Books(task[u], p)
  BY <1>1, <1>3 DEF Books
<1>6. BookOK'
  BY <1>2, <1>5 DEF BInv, BookOK
<1> QED
  BY <1>2, <1>4, <1>6 DEF BInv, SerialOnce

\* Inside the monitor it asks again, alone.
LEMMA EnterMonitorBooks ==
  ASSUME IInv, BInv, NEW t \in Thread, EnterMonitor(t)
  PROVE  BInv'
<1>1. At(t, "enter") /\ lock = NoThread /\ row' = row /\ serial' = serial
  BY DEF EnterMonitor, db
<1>2. CASE Paid(task[t].o)
  <2>1. Finish(t) /\ lock' = lock
    BY <1>2 DEF EnterMonitor
  <2> QED
    BY <1>1, <2>1, GotoQuiet, QuietStep
<1>3. CASE ~Paid(task[t].o)
  <2> DEFINE k == [task[t] EXCEPT !.pc = "query", !.n = row[task[t].o].tradeNo]
  <2>1. task' = [task EXCEPT ![t] = k] /\ lock' = t
    BY <1>3 DEF EnterMonitor
  <2>2. k.pc = "query" /\ k.o = task[t].o
    BY Facts DEF Task
  <2> HIDE DEF k
  <2>3. task'[t] = k /\ \A u \in Thread : u # t => task'[u] = task[u]
    BY <2>1, Facts
  <2>4. \A u \in Thread : ~At(u, "query")
    BY <1>1, NamesAssumption DEF BInv, AskOK
  <2>5. AskOK'
    BY <1>1, <1>3, <2>1, <2>2, <2>3, <2>4 DEF BInv, AskOK, At, Paid
  <2>6. ASSUME NEW p \in Order, NEW u \in Thread PROVE Books(task'[u], p) => Books(task[u], p)
    BY <2>2, <2>3 DEF Books
  <2>7. BookOK'
    BY <1>1, <2>6 DEF BInv, BookOK
  <2> QED
    BY <1>1, <2>5, <2>7 DEF BInv, SerialOnce
<1> QED
  BY <1>2, <1>3

\* WeChat says the trade is paid: the one thread in the monitor books it.
LEMMA TradePaidBooks ==
  ASSUME IInv, BInv, NEW t \in Thread, TradePaid(t)
  PROVE  BInv'
<1> DEFINE o == task[t].o
           k == [task[t] EXCEPT !.pc = "rideKey"]
<1>1. At(t, "query") /\ o \in Order
  BY Facts DEF TradePaid, At, BookPc
<1>2. lock = t /\ ~row[o].isPay
  BY <1>1 DEF BInv, AskOK
<1>3. task' = [task EXCEPT ![t] = k]
  BY DEF TradePaid, Goto
<1>4. k.pc = "rideKey" /\ k.o = o
  BY Facts DEF Task
<1>5. /\ row' = [row EXCEPT ![o] = AsPaid(row[o])]
      /\ serial' = serial /\ lock' = lock
  BY DEF TradePaid
<1> HIDE DEF k, o
<1>6. task'[t] = k /\ \A u \in Thread : u # t => task'[u] = task[u]
  BY <1>3, Facts
<1>7. /\ row'[o].isPay /\ row'[o].status = "toUse"
      /\ \A p \in Order : p # o => row'[p] = row[p]
  BY <1>1, <1>5, Facts DEF AsPaid, Row
<1>8. serial[o] = 0
  BY <1>1, <1>2, Facts, BoundsAssumption DEF BInv, SerialOnce
<1>9. AskOK'
  <2> SUFFICES ASSUME NEW u \in Thread, At(u, "enter")' \/ At(u, "query")'
               PROVE  /\ row'[task'[u].o].status # "none"
                      /\ At(u, "query")' => lock' = u /\ ~row'[task'[u].o].isPay
    BY DEF AskOK
  <2>1. u # t /\ task'[u] = task[u] /\ task[u].o \in Order
    BY <1>4, <1>6, Facts DEF At, BookPc
  <2>2. ~At(u, "query")
    BY <1>2, <2>1 DEF BInv, AskOK
  <2> QED
    BY <1>7, <2>1, <2>2 DEF BInv, AskOK, At
<1>10. ASSUME NEW p \in Order, NEW u \in Thread, Books(task'[u], p)
       PROVE  /\ serial'[p] = 0 /\ row'[p].isPay
              /\ \A v \in Thread : Books(task'[v], p) => u = v
  <2>1. CASE p # o
    BY <1>4, <1>5, <1>6, <1>7, <1>10, <2>1 DEF BInv, BookOK, Books
  <2>2. CASE p = o
    <3>1. \A v \in Thread : v # t => ~Books(task'[v], o)
      BY <1>1, <1>2, <1>6 DEF BInv, BookOK
    <3> QED
      BY <1>5, <1>7, <1>8, <1>10, <2>2, <3>1
  <2> QED
    BY <2>1, <2>2
<1>11. BookOK'
  BY <1>10 DEF BookOK
<1>12. SerialOnce'
  BY <1>5, <1>7, <1>8 DEF BInv, SerialOnce
<1> QED
  BY <1>9, <1>11, <1>12 DEF BInv

\* The ride timer comes between the payment and its serial.
LEMMA SetRideKeyBooks ==
  ASSUME IInv, BInv, NEW t \in Thread, SetRideKey(t)
  PROVE  BInv'
<1> DEFINE k == [task[t] EXCEPT !.pc = "serial"]
<1>1. At(t, "rideKey") /\ row' = row /\ serial' = serial /\ lock' = lock
  BY DEF SetRideKey, db
<1>2. task' = [task EXCEPT ![t] = k]
  BY DEF SetRideKey, Goto
<1>3. k.pc = "serial" /\ k.o = task[t].o
  BY Facts DEF Task
<1> HIDE DEF k
<1>4. \A o \in Order : Books(k, o) => Books(task[t], o)
  BY <1>1, <1>3 DEF Books, At
<1> QED
  BY <1>1, <1>2, <1>3, <1>4, BookerMoves DEF LockStep

\* The serial is saved by the only thread that would, and was not there before.
LEMMA SaveSerialBooks ==
  ASSUME IInv, BInv, NEW t \in Thread, SaveSerial(t)
  PROVE  BInv'
<1> DEFINE o == task[t].o
<1>1. At(t, "serial") /\ o \in Order /\ Books(task[t], o)
  BY Facts DEF SaveSerial, At, Books, BookPc
<1>2. serial[o] = 0 /\ row[o].isPay /\ \A u \in Thread : Books(task[u], o) => u = t
  BY <1>1 DEF BInv, BookOK
<1>3. /\ row' = row /\ LockStep(t) /\ task' = [task EXCEPT ![t] = Idle]
      /\ serial' = [serial EXCEPT ![o] = Inc(serial[o])]
  BY DEF SaveSerial, LockStep, Finish
<1> HIDE DEF o
<1>4. Inc(serial[o]) \in {0, 1}
  BY <1>2 DEF Inc
<1>5. /\ serial'[o] \in {0, 1}
      /\ \A p \in Order : p # o => serial'[p] = serial[p]
  BY <1>1, <1>3, <1>4, Facts
<1>6. task'[t] = Idle /\ \A u \in Thread : u # t => task'[u] = task[u]
  BY <1>3, Facts
<1>7. AskOK'
  BY <1>3, <1>6 DEF BInv, AskOK, At, LockStep, Idle
<1>8. ASSUME NEW p \in Order, NEW u \in Thread, Books(task'[u], p)
      PROVE  u # t /\ p # o /\ Books(task[u], p)
  BY <1>2, <1>6, <1>8 DEF Books, Idle
<1>9. BookOK'
  BY <1>3, <1>5, <1>8 DEF BInv, BookOK
<1>10. SerialOnce'
  BY <1>2, <1>3, <1>5 DEF BInv, SerialOnce
<1> QED
  BY <1>7, <1>9, <1>10 DEF BInv

-----------------------------------------------------------------------------
(* The theorem.                                                            *)

\* An empty table has no serial.
LEMMA InitBooks == Init => BInv
<1> SUFFICES ASSUME Init PROVE BInv
  OBVIOUS
<1>1. AskOK
  BY DEF Init, AskOK, At, Idle
<1>2. BookOK
  BY DEF Init, BookOK, Books, Idle
<1> QED
  BY <1>1, <1>2 DEF Init, BInv, SerialOnce

\* Every call of a handler keeps payments apart.
LEMMA ContinueBooks ==
  ASSUME IInv, BInv, NEW t \in Thread, Continue(t)
  PROVE  BInv'
<1>1. CASE SetPayKey(t)
  BY <1>1, SetPayKeyBooks
<1>2. CASE EnterMonitor(t)
  BY <1>2, EnterMonitorBooks
<1>3. CASE TradePaid(t)
  BY <1>3, TradePaidBooks
<1>4. CASE SetRideKey(t)
  BY <1>4, SetRideKeyBooks
<1>5. CASE SaveSerial(t)
  BY <1>5, SaveSerialBooks
<1>6. CASE TradeUnpaid(t)
  <2>1. lock = t
    BY <1>6 DEF TradeUnpaid, BInv, AskOK
  <2> QED
    BY <1>6, <2>1, LeavingQuiet, QuietStep
<1>7. CASE \/ ApplyRefund(t) \/ WxRefund(t) \/ WxRefundFails(t) \/ SaveRefundRow(t)
           \/ RoutingFails(t) \/ ScanAppointments(t) \/ SysPhaseEnds(t)
           \/ \E o \in Order : SysRefund(t, o)
  BY <1>7, RefundsQuiet, QuietStep
<1>8. CASE \/ ExecuteOrderExpire(t) \/ RoutingAnswers(t) \/ Board(t) \/ FinishRide(t)
           \/ AssignCar(t) \/ IssueTrade(t)
  BY <1>8, ColumnsQuiet, QuietStep
<1>9. CASE PageWrite(t) \/ CancelWrite(t) \/ NightlyWrite(t) \/ SysUpdate(t)
           \/ MarkRefunded(t)
  BY <1>9, CopiesQuiet, QuietStep
<1> QED
  BY <1>1, <1>2, <1>3, <1>4, <1>5, <1>6, <1>7, <1>8, <1>9 DEF Continue

\* So does the start of every request.
LEMMA RequestStartsBooks ==
  ASSUME IInv, BInv, NEW t \in Thread, NEW o \in Order, RequestStarts(t, o)
  PROVE  BInv'
<1>1. CASE BuyTicket(t, o) \/ QueryPay(t, o)
  BY <1>1, BuyTicketBooks, QueryPayBooks
<1>2. CASE ~(BuyTicket(t, o) \/ QueryPay(t, o))
  BY <1>2, RequestsQuiet, QuietStep DEF RequestStarts
<1> QED
  BY <1>1, <1>2

\* Users, redis and the clock leave orders and threads alone.
LEMMA ElsewhereBooks ==
  ASSUME BInv, Elsewhere
  PROVE  BInv'
<1>1. task' = task /\ lock' = lock /\ row' = row /\ serial' = serial
  BY DEF Elsewhere, KeyExpires, BecomeLate, BecomeDue, UserPays, LoseEvent, Midnight, db
<1> QED
  BY <1>1, AsideStep

\* And so every step does.
LEMMA NextBooks ==
  ASSUME IInv, BInv, [Next]_vars
  PROVE  BInv'
<1>1. CASE \E t \in Worker, o \in Order : RequestStarts(t, o)
  BY <1>1, RequestStartsBooks DEF Thread
<1>2. CASE \E t \in Worker, e \in events : SetOrderExpire(t, e)
  BY <1>2, EventsQuiet, QuietStep DEF Thread
<1>3. CASE (\E t \in Worker : SysCancalOrder(t)) \/ UpdatePeakOrder(Job)
  BY <1>3, JobsQuiet, QuietStep DEF Thread
<1>4. CASE \E o \in Order : Dispatch(Job, o)
  BY <1>4, RequestsQuiet, QuietStep DEF Thread
<1>5. CASE \E t \in Thread : Continue(t)
  BY <1>5, ContinueBooks
<1>6. CASE \E t \in Thread : Crash(t)
  BY <1>6, LeavingQuiet, QuietStep
<1>7. CASE Elsewhere
  BY <1>7, ElsewhereBooks
<1>8. CASE UNCHANGED vars
  BY <1>8, AsideStep DEF vars, db
<1> QED
  BY <1>1, <1>2, <1>3, <1>4, <1>5, <1>6, <1>7, <1>8 DEF Next, JobStarts

\* In every state one thread at most books a payment of an order, and while it
\* does the order counts as paid and has no serial.
THEOREM Booking == Spec => []BInv
<1>1. IInv /\ BInv /\ [Next]_vars => BInv'
  BY NextBooks
<1> QED
  BY InitBooks, Invariance, <1>1, PTL DEF Spec

\* However many requests ask for the result of a payment, and however often a
\* user issues a new trade number, an order has one serial, and only if paid.
THEOREM SerialSavedOnce == Spec => []SerialOnce
<1>1. BInv => SerialOnce
  BY DEF BInv
<1> QED
  BY Booking, <1>1, PTL
=============================================================================
