-------------------------- MODULE OrderRefundProofs --------------------------
(***************************************************************************)
(* RefundRowsAreBacked and UserRefundIsReal, for every value of the        *)
(* constants of OrderService.                                              *)
(*                                                                         *)
(* A refund row is saved one call after WeChat refunded the trade, by the  *)
(* thread that asked for it.  So rows are counted against the refunded     *)
(* trades that no thread still has to record, and no two threads hold the  *)
(* same one (RowsOK).  The flags of an order may come out of a copy read   *)
(* long before; what they say is known of the table and of every copy      *)
(* (FlagsOK).                                                              *)
(***************************************************************************)
EXTENDS OrderSerialProofs, FiniteSetTheorems

\* WeChat has refunded a trade of o, by its view tr.
Real(tr, o) == \E n \in 1 .. MaxTrade : tr[o][n] = "refunded"

\* A row marked as refunded in advance is a paid one and not usable, and if its
\* user cancelled it there was a refund.
GoodFlags(r, tr, o) ==
  r.isRefund = "2" =>
    /\ r.isPay /\ r.status # "toUse"
    /\ r.isCancel = "1" => o \in Company \/ Real(tr, o)

TableFlags(r, tr) == \A o \in Order : GoodFlags(r[o], tr, o)

\* Behind a refund there is one; a copy marked as refunded is of an order that
\* was, and is written back as expired, as cancelOrder's always is.
TaskFlags(k, tr) ==
  /\ k.pc \in {"refundRow", "markRefunded"} =>
       k.o \in Order /\ (k.o \in Company \/ Real(tr, k.o))
  /\ \A o \in Order : k.copy[o] # NoRow =>
       /\ k.op = "cancel" => k.copy[o].status = "expired"
       /\ k.copy[o].isRefund = "2" =>
            k.copy[o].status = "expired" /\ (o \in Company \/ Real(tr, o))

FlagsOK == TableFlags(row, trade) /\ \A t \in Thread : TaskFlags(task[t], trade)

\* Trade n of o is refunded and its row not yet saved.
Saves(k, o, n) == k.pc = "refundRow" /\ k.o = o /\ k.n = n
Held(o) == {n \in Refunded(o) : \E t \in Thread : Saves(task[t], o, n)}

\* Rows count trades that are refunded and recorded; each of the others is in
\* the hands of one thread.
RowsOK ==
  \A o \in Order \ Company :
    /\ \A t \in Thread : task[t].pc = "refundRow" /\ task[t].o = o => task[t].n \in Refunded(o)
    /\ \A t, u \in Thread, n \in Refunded(o) :
         Saves(task[t], o, n) /\ Saves(task[u], o, n) => t = u
    /\ refundRow[o] <= Cardinality(Refunded(o) \ Held(o))

RInv == RowsOK /\ FlagsOK

\* No trade becomes refunded, and none ceases to be.
SameRefunds ==
  \A o \in Order, n \in 1 .. MaxTrade : (trade'[o][n] = "refunded") <=> (trade[o][n] = "refunded")

\* The thread goes on with good flags and no trade in hand; books and flags of
\* the table stay right.
Harmless(t) ==
  /\ \E k : /\ TaskFlags(k, trade) /\ (k.pc = "refundRow" => k.o \in Company)
            /\ task' = [task EXCEPT ![t] = k]
  /\ refundRow' = refundRow /\ SameRefunds
  /\ TableFlags(row', trade)

-----------------------------------------------------------------------------
(* Steps that refund nothing.                                              *)

\* There are finitely many trade numbers, so finitely many are refunded.
LEMMA RefundedFinite ==
  ASSUME NEW o, NEW S, S \subseteq Refunded(o)
  PROVE  IsFiniteSet(S) /\ Cardinality(S) \in Nat
<1>1. IsFiniteSet(1 .. MaxTrade)
  BY FS_Interval, BoundsAssumption
<1>2. S \subseteq 1 .. MaxTrade
  BY DEF Refunded
<1>3. IsFiniteSet(S)
  BY <1>1, <1>2, FS_Subset
<1> QED
  BY <1>3, FS_CardinalityType

\* A larger set of recorded refunds backs the rows as well.
LEMMA MoreBacked ==
  ASSUME NEW o, NEW S, NEW T, S \subseteq T, T \subseteq 1 .. MaxTrade, NEW c \in Nat,
         c <= Cardinality(S)
  PROVE  c <= Cardinality(T)
<1>0. IsFiniteSet(1 .. MaxTrade)
  BY FS_Interval, BoundsAssumption
<1>1. IsFiniteSet(T)
  BY <1>0, FS_Subset
<1>2. /\ IsFiniteSet(S) /\ Cardinality(S) <= Cardinality(T)
      /\ Cardinality(S) \in Nat /\ Cardinality(T) \in Nat
  BY <1>1, FS_Subset, FS_CardinalityType
<1> QED
  BY <1>2

\* The refunds are the same sets.
LEMMA SameSets ==
  ASSUME SameRefunds
  PROVE  \A o \in Order : /\ Refunded(o)' = Refunded(o)
                          /\ Real(trade', o) <=> Real(trade, o)
BY DEF SameRefunds, Refunded, Real

\* Unchanged trades are the same refunds.
LEMMA NoTrade ==
  ASSUME trade' = trade
  PROVE  SameRefunds
BY DEF SameRefunds

\* Books stay right if at most one thread moves, to where it holds no trade.
LEMMA RowsStep ==
  ASSUME IInv, RowsOK, refundRow' = refundRow, SameRefunds,
         \A u \in Thread :
           task'[u] = task[u] \/ (task'[u].pc = "refundRow" => task'[u].o \in Company)
  PROVE  RowsOK'
<1> SUFFICES ASSUME NEW o \in Order \ Company
    PROVE /\ \A t \in Thread : task'[t].pc = "refundRow" /\ task'[t].o = o
                                 => task'[t].n \in Refunded(o)'
          /\ \A t, u \in Thread, n \in Refunded(o)' :
               Saves(task'[t], o, n) /\ Saves(task'[u], o, n) => t = u
          /\ refundRow'[o] <= Cardinality(Refunded(o)' \ Held(o)')
  BY DEF RowsOK, Saves
<1>1. Refunded(o)' = Refunded(o)
  BY SameSets
<1>2. \A t \in Thread : task'[t].pc = "refundRow" /\ task'[t].o = o => task'[t] = task[t]
  OBVIOUS
<1>3. \A t \in Thread : task'[t].pc = "refundRow" /\ task'[t].o = o => task'[t].n \in Refunded(o)'
  BY <1>1, <1>2 DEF RowsOK
<1>4. \A t, u \in Thread, n \in Refunded(o)' :
        Saves(task'[t], o, n) /\ Saves(task'[u], o, n) => t = u
  <2> SUFFICES ASSUME NEW t \in Thread, NEW u \in Thread, NEW n \in Refunded(o)',
                      Saves(task'[t], o, n), Saves(task'[u], o, n)
               PROVE  t = u
    OBVIOUS
  <2>1. task'[t] = task[t] /\ task'[u] = task[u]
    BY <1>2 DEF Saves
  <2> QED
    BY <1>1, <2>1 DEF RowsOK
<1>5. Held(o)' \subseteq Held(o)
  BY <1>1, <1>2 DEF Held, Saves
<1>6. /\ Refunded(o) \ Held(o) \subseteq Refunded(o)' \ Held(o)'
      /\ Refunded(o)' \subseteq 1 .. MaxTrade
  BY <1>1, <1>5 DEF Refunded
<1>7. refundRow'[o] \in Nat /\ refundRow'[o] <= Cardinality(Refunded(o) \ Held(o))
  BY BoundsAssumption DEF RowsOK, IInv, TypeOK
<1>8. refundRow'[o] <= Cardinality(Refunded(o)' \ Held(o)')
  BY <1>6, <1>7, MoreBacked
<1> QED
  BY <1>3, <1>4, <1>8

\* A refund that is real stays so in the flags of table and tasks.
LEMMA FlagsMono ==
  ASSUME NEW tr, NEW us, \A o \in Order : Real(tr, o) => Real(us, o)
  PROVE  /\ \A r : TableFlags(r, tr) => TableFlags(r, us)
         /\ \A k : TaskFlags(k, tr) => TaskFlags(k, us)
BY DEF TableFlags, GoodFlags, TaskFlags

\* Who saves a row or marks an order has one.
LEMMA RefundsOrder ==
  ASSUME IInv
  PROVE  /\ task \in [Thread -> Task] /\ row \in [Order -> Row]
         /\ \A t \in Thread : task[t].pc \notin NoOrderPc => task[t].o \in Order
         /\ \A t \in Thread : task[t].pc \in {"refundRow", "markRefunded"} => task[t].o \in Order
BY DEF IInv, TypeOK, InFlightOK, GoodTask, NoOrderPc

\* Such a step keeps all of RInv.
LEMMA HarmlessStep ==
  ASSUME IInv, RInv, NEW t \in Thread, Harmless(t)
  PROVE  RInv'
<1>1. PICK k : /\ TaskFlags(k, trade) /\ (k.pc = "refundRow" => k.o \in Company)
               /\ task' = [task EXCEPT ![t] = k]
  BY DEF Harmless
<1>2. refundRow' = refundRow /\ SameRefunds /\ TableFlags(row', trade)
  BY DEF Harmless
<1>3. task'[t] = k /\ \A u \in Thread : u # t => task'[u] = task[u]
  BY <1>1, RefundsOrder
<1>4. RowsOK'
  BY <1>1, <1>2, <1>3, RowsStep DEF RInv
<1>5. \A o \in Order : Real(trade', o) <=> Real(trade, o)
  BY <1>2, SameSets
<1>6. TableFlags(row', trade')
  BY <1>2, <1>5 DEF TableFlags, GoodFlags
<1>7. ASSUME NEW u \in Thread PROVE TaskFlags(task'[u], trade')
  <2>1. TaskFlags(task'[u], trade)
    BY <1>1, <1>3 DEF RInv, FlagsOK
  <2> QED
    BY <2>1, <1>5 DEF TaskFlags
<1> QED
  BY <1>4, <1>6, <1>7 DEF RInv, FlagsOK

-----------------------------------------------------------------------------
(* Threads that move without a refund in hand.                             *)

\* The table unchanged has good flags.
LEMMA SameFlags ==
  ASSUME RInv, row' = row
  PROVE  TableFlags(row', trade)
BY DEF RInv, FlagsOK

\* A thread takes up a task of good flags.
LEMMA TakesHarmless ==
  ASSUME NEW t \in Thread, NEW k, TaskFlags(k, trade), k.pc # "refundRow",
         task' = [task EXCEPT ![t] = k],
         refundRow' = refundRow, trade' = trade, TableFlags(row', trade)
  PROVE  Harmless(t)
BY NoTrade DEF Harmless

\* A thread whose handler is over.
LEMMA EndsHarmless ==
  ASSUME NEW t \in Thread, Finish(t), refundRow' = refundRow, SameRefunds,
         TableFlags(row', trade)
  PROVE  Harmless(t)
<1>1. TaskFlags(Idle, trade) /\ Idle.pc # "refundRow"
  BY DEF TaskFlags, Idle, Blank
<1> QED
  BY <1>1 DEF Finish, Harmless

\* A handler that starts without a copy.
LEMMA StartsHarmless ==
  ASSUME NEW t \in Thread, NEW op, NEW pc, NEW o, Begin(t, op, pc, o, Blank),
         pc \notin {"refundRow", "markRefunded"},
         refundRow' = refundRow, trade' = trade, TableFlags(row', trade)
  PROVE  Harmless(t)
<1> DEFINE k == [op |-> op, pc |-> pc, o |-> o, n |-> 0, copy |-> Blank]
<1>1. task' = [task EXCEPT ![t] = k]
  BY DEF Begin
<1>2. TaskFlags(k, trade) /\ k.pc # "refundRow"
  BY DEF TaskFlags, Blank
<1> HIDE DEF k
<1> QED
  BY <1>1, <1>2, TakesHarmless

\* A handler that goes on with what it has, to neither of the two steps behind
\* a refund.
LEMMA GotoHarmless ==
  ASSUME IInv, RInv, NEW t \in Thread, NEW pc, Goto(t, pc),
         pc \notin {"refundRow", "markRefunded"},
         refundRow' = refundRow, trade' = trade, TableFlags(row', trade)
  PROVE  Harmless(t)
<1> DEFINE k == [task[t] EXCEPT !.pc = pc]
<1>1. task' = [task EXCEPT ![t] = k]
  BY DEF Goto
<1>2. task[t] \in Task /\ TaskFlags(task[t], trade)
  BY RefundsOrder DEF RInv, FlagsOK
<1>3. k.pc = pc /\ k.op = task[t].op /\ k.copy = task[t].copy
  BY <1>2 DEF Task
<1> HIDE DEF k
<1>4. TaskFlags(k, trade)
  BY <1>2, <1>3 DEF TaskFlags
<1> QED
  BY <1>1, <1>3, <1>4, TakesHarmless

-----------------------------------------------------------------------------
(* Handlers that start.                                                    *)

\* A handler that loads nothing.
LEMMA BlankStarts ==
  ASSUME RInv, NEW t \in Thread, NEW o \in Order,
         \/ LoadPayPre(t, o) \/ QueryPay(t, o) \/ SetExpOrder(t, o)
         \/ RequestRefund(t, o) \/ CheckQrCallBack(t, o) \/ CarArrives(t, o)
         \/ SetRouteOrderExpire(t, o) \/ Dispatch(t, o)
  PROVE  Harmless(t)
<1>1. CASE LoadPayPre(t, o)
  BY <1>1, SameFlags, StartsHarmless DEF LoadPayPre, db
<1>2. CASE QueryPay(t, o)
  BY <1>2, SameFlags, StartsHarmless DEF QueryPay, db
<1>3. CASE SetExpOrder(t, o)
  BY <1>3, SameFlags, StartsHarmless DEF SetExpOrder, db
<1>4. CASE RequestRefund(t, o)
  BY <1>4, SameFlags, StartsHarmless DEF RequestRefund, db
<1>5. CASE CheckQrCallBack(t, o)
  BY <1>5, SameFlags, StartsHarmless DEF CheckQrCallBack, db
<1>6. CASE CarArrives(t, o)
  BY <1>6, SameFlags, StartsHarmless DEF CarArrives, db
<1>7. CASE SetRouteOrderExpire(t, o)
  BY <1>7, SameFlags, StartsHarmless DEF SetRouteOrderExpire, db
<1>8. CASE Dispatch(t, o)
  BY <1>8, SameFlags, StartsHarmless DEF Dispatch, db
<1> QED
  BY <1>1, <1>2, <1>3, <1>4, <1>5, <1>6, <1>7, <1>8

\* A purchase, not marked as refunded.
LEMMA BuyTicketRefunds ==
  ASSUME IInv, RInv, NEW t \in Thread, NEW o \in Order, BuyTicket(t, o)
  PROVE  Harmless(t)
<1>1. row' = [row EXCEPT ![o] = NewRow(o)] /\ NewRow(o).isRefund = "0"
  BY DEF BuyTicket, NewRow
<1>2. TableFlags(row', trade)
  BY <1>1, RefundsOrder DEF TableFlags, GoodFlags, RInv, FlagsOK
<1>3. Begin(t, "buy", "payKey", o, Blank) /\ refundRow' = refundRow /\ trade' = trade
  BY DEF BuyTicket
<1> QED
  BY <1>2, <1>3, StartsHarmless

\* An event of a timer, followed or dropped.
LEMMA EventRefunds ==
  ASSUME RInv, NEW t \in Thread, NEW e, SetOrderExpire(t, e)
  PROVE  Harmless(t) \/ (row' = row /\ refundRow' = refundRow /\ trade' = trade /\ task' = task)
<1>1. CASE StillWaiting(e[1], e[2])
  BY <1>1, SameFlags, StartsHarmless DEF SetOrderExpire, db
<1>2. CASE ~StillWaiting(e[1], e[2])
  BY <1>2 DEF SetOrderExpire, db
<1> QED
  BY <1>1, <1>2

\* Copies of usable rows, which are not marked as refunded.
LEMMA UsableCopies ==
  ASSUME RInv, NEW S, \A o \in Order : o \in S => row[o].status = "toUse"
  PROVE  \A o \in Order : Load(S)[o] # NoRow => Load(S)[o].isRefund # "2"
BY DEF RInv, FlagsOK, TableFlags, GoodFlags, Load

\* The two jobs that load whole rows, and the second scan of sysCancalOrder.
LEMMA LoadsRefunds ==
  ASSUME RInv, NEW t \in Thread,
         SysCancalOrder(t) \/ UpdatePeakOrder(t) \/ ScanAppointments(t)
  PROVE  Harmless(t)
<1>1. row' = row /\ refundRow' = refundRow /\ trade' = trade /\ TableFlags(row', trade)
  BY SameFlags DEF SysCancalOrder, UpdatePeakOrder, ScanAppointments, db
<1>2. ASSUME NEW S, \A o \in Order : o \in S => row[o].status = "toUse",
             NEW op, op # "cancel", NEW pc, pc \notin {"refundRow", "markRefunded"},
             NEW k, k = [op |-> op, pc |-> pc, o |-> NoOrder, n |-> 0, copy |-> Load(S)],
             task' = [task EXCEPT ![t] = k]
      PROVE  Harmless(t)
  <2>1. k.op = op /\ k.pc = pc /\ k.copy = Load(S)
    BY <1>2
  <2>2. TaskFlags(k, trade)
    BY <1>2, <2>1, UsableCopies DEF TaskFlags
  <2> QED
    BY <1>1, <1>2, <2>1, <2>2, TakesHarmless
<1>3. CASE SysCancalOrder(t)
  <2> DEFINE S == Stranded(Realtime)
             pc == IF S = {} THEN "scanAgain" ELSE "sysUpdate"
  <2>1. \A o \in Order : o \in S => row[o].status = "toUse"
    BY DEF Stranded
  <2>2. task' = [task EXCEPT ![t] =
          [op |-> "sysRealtime", pc |-> pc, o |-> NoOrder, n |-> 0, copy |-> Load(S)]]
    BY <1>3 DEF SysCancalOrder, Begin
  <2>3. pc \notin {"refundRow", "markRefunded"}
    OBVIOUS
  <2> HIDE DEF S, pc
  <2> QED
    BY <1>2, <2>1, <2>2, <2>3
<1>4. CASE UpdatePeakOrder(t)
  <2> DEFINE S == NightlyScope
  <2>1. \A o \in Order : o \in S => row[o].status = "toUse"
    BY DEF NightlyScope
  <2>2. task' = [task EXCEPT ![t] =
          [op |-> "nightly", pc |-> "nightlyWrite", o |-> NoOrder, n |-> 0, copy |-> Load(S)]]
    BY <1>4 DEF UpdatePeakOrder, Begin
  <2> HIDE DEF S
  <2> QED
    BY <1>2, <2>1, <2>2
<1>5. CASE ScanAppointments(t)
  <2> DEFINE S == Stranded(Appointment)
  <2>1. \A o \in Order : o \in S => row[o].status = "toUse"
    BY DEF Stranded
  <2>2. CASE S = {}
    BY <1>1, <1>5, <2>2, EndsHarmless, NoTrade DEF ScanAppointments
  <2>3. CASE S # {}
    <3>1. task' = [task EXCEPT ![t] =
            [op |-> "sysAppointment", pc |-> "sysUpdate", o |-> NoOrder, n |-> 0,
             copy |-> Load(S)]]
      BY <1>5, <2>3 DEF ScanAppointments
    <3> HIDE DEF S
    <3> QED
      BY <1>2, <2>1, <3>1
  <2> QED
    BY <2>2, <2>3
<1> QED
  BY <1>3, <1>4, <1>5

\* The refund page and cancelOrder load one usable row.
LEMMA CopiesOneRefunds ==
  ASSUME IInv, RInv, NEW t \in Thread, NEW o \in Order,
         RefundPage(t, o) \/ CancelOrder(t, o)
  PROVE  Harmless(t)
<1>1. /\ row' = row /\ refundRow' = refundRow /\ trade' = trade
      /\ TableFlags(row', trade) /\ row[o] \in Row
  BY SameFlags, RefundsOrder DEF RefundPage, CancelOrder, db
<1>2. CASE RefundPage(t, o)
  <2> DEFINE r == [row[o] EXCEPT !.isRefund = PageFlag(o)]
             k == [op |-> "page", pc |-> "pageWrite", o |-> o, n |-> 0, copy |-> Only(o, r)]
  <2>1. task' = [task EXCEPT ![t] = k]
    BY <1>2 DEF RefundPage, Begin
  <2>2. r.isRefund # "2"
    BY <1>1 DEF Row, PageFlag
  <2> HIDE DEF r
  <2>3. TaskFlags(k, trade) /\ k.pc # "refundRow"
    BY <2>2 DEF TaskFlags, Only, Blank
  <2> HIDE DEF k
  <2> QED
    BY <1>1, <2>1, <2>3, TakesHarmless
<1>3. CASE CancelOrder(t, o)
  <2> DEFINE r == [row[o] EXCEPT !.status = "expired", !.isCancel = "1"]
             pc == IF RefundDue(o) THEN "applyRefund" ELSE "cancelWrite"
             k == [op |-> "cancel", pc |-> pc, o |-> o, n |-> 0, copy |-> Only(o, r)]
  <2>1. task' = [task EXCEPT ![t] = k]
    BY <1>3 DEF CancelOrder, Begin
  <2>2. row[o].isRefund # "2"
    BY <1>3 DEF CancelOrder, RInv, FlagsOK, TableFlags, GoodFlags
  <2>3. r.isRefund # "2" /\ r.status = "expired"
    BY <1>1, <2>2 DEF Row
  <2>4. pc \notin {"refundRow", "markRefunded"}
    OBVIOUS
  <2> HIDE DEF r, pc
  <2>5. TaskFlags(k, trade) /\ k.pc # "refundRow"
    BY <2>3, <2>4 DEF TaskFlags, Only, Blank
  <2> HIDE DEF k
  <2> QED
    BY <1>1, <2>1, <2>5, TakesHarmless
<1> QED
  BY <1>2, <1>3

-----------------------------------------------------------------------------
(* Writes to the table.                                                    *)

\* One row is replaced by one with good flags.
LEMMA RowFlags ==
  ASSUME IInv, RInv, NEW o \in Order, NEW r, row' = [row EXCEPT ![o] = r],
         GoodFlags(r, trade, o)
  PROVE  TableFlags(row', trade)
BY RefundsOrder DEF RInv, FlagsOK, TableFlags

\* A status other than usable, and a car, change no flags.
LEMMA ColumnsRefunds ==
  ASSUME IInv, RInv, NEW t \in Thread,
         \/ ExecuteOrderExpire(t) \/ RoutingAnswers(t) \/ Board(t) \/ FinishRide(t)
         \/ AssignCar(t)
  PROVE  Harmless(t)
<1> DEFINE o == task[t].o
<1>1. /\ o \in Order /\ row[o] \in Row /\ GoodFlags(row[o], trade, o)
      /\ refundRow' = refundRow /\ trade' = trade /\ Finish(t)
  <2>1. task[t].pc \notin NoOrderPc
    BY DEF ExecuteOrderExpire, RoutingAnswers, Board, FinishRide, AssignCar, At, NoOrderPc
  <2>2. refundRow' = refundRow /\ trade' = trade /\ Finish(t)
    BY DEF ExecuteOrderExpire, RoutingAnswers, Board, FinishRide, AssignCar
  <2> QED
    BY <2>1, <2>2, RefundsOrder DEF RInv, FlagsOK, TableFlags
<1>2. PICK r : row' = [row EXCEPT ![o] = r] /\ GoodFlags(r, trade, o)
  <2>1. CASE ExecuteOrderExpire(t) \/ RoutingAnswers(t)
    BY <1>1, <2>1 DEF ExecuteOrderExpire, RoutingAnswers, GoodFlags, Row
  <2>2. CASE Board(t)
    <3> DEFINE r == [row[o] EXCEPT !.status = "riding", !.car = TRUE]
    <3>1. row' = [row EXCEPT ![o] = r]
      BY <1>1, <2>2, RefundsOrder DEF Board
    <3>2. GoodFlags(r, trade, o)
      BY <1>1 DEF GoodFlags, Row
    <3> QED
      BY <3>1, <3>2
  <2>3. CASE FinishRide(t)
    <3> DEFINE r == [row[o] EXCEPT !.status = "done"]
    <3>1. row' = [row EXCEPT ![o] = r]
      BY <1>1, <2>3, RefundsOrder DEF FinishRide
    <3>2. GoodFlags(r, trade, o)
      BY <1>1 DEF GoodFlags, Row
    <3> QED
      BY <3>1, <3>2
  <2>4. CASE AssignCar(t)
    <3> DEFINE r == [row[o] EXCEPT !.car = TRUE]
    <3>1. row' = [row EXCEPT ![o] = r]
      BY <1>1, <2>4, RefundsOrder DEF AssignCar
    <3>2. GoodFlags(r, trade, o)
      BY <1>1 DEF GoodFlags, Row
    <3> QED
      BY <3>1, <3>2
  <2> QED
    BY <2>1, <2>2, <2>3, <2>4
<1>3. TableFlags(row', trade)
  BY <1>1, <1>2, RowFlags
<1> QED
  BY <1>1, <1>3, EndsHarmless, NoTrade

\* Issuing a trade number refunds none: it takes one that was not used.
LEMMA IssueTradeRefunds ==
  ASSUME IInv, RInv, NEW t \in Thread, IssueTrade(t)
  PROVE  Harmless(t)
<1> DEFINE o == task[t].o
<1>1. o \in Order /\ row[o] \in Row /\ GoodFlags(row[o], trade, o)
  BY RefundsOrder DEF IssueTrade, At, NoOrderPc, RInv, FlagsOK, TableFlags
<1>2. PICK n \in 1 .. MaxTrade, s \in {"open", "failed"} :
        /\ NextTrade(o, n) /\ row' = [row EXCEPT ![o].tradeNo = n]
        /\ trade' = [trade EXCEPT ![o][n] = s]
  BY DEF IssueTrade
<1>3. trade \in [Order -> [1 .. MaxTrade -> TradeState]] /\ trade[o][n] = "new"
  BY <1>2 DEF IInv, TypeOK, NextTrade
<1>4. SameRefunds
  BY <1>1, <1>2, <1>3 DEF SameRefunds
<1>5. TableFlags(row', trade)
  <2> DEFINE r == [row[o] EXCEPT !.tradeNo = n]
  <2>1. row' = [row EXCEPT ![o] = r] /\ GoodFlags(r, trade, o)
    BY <1>1, <1>2 DEF GoodFlags, Row
  <2> HIDE DEF r
  <2> QED
    BY <1>1, <2>1, RowFlags
<1> QED
  BY <1>4, <1>5, EndsHarmless DEF IssueTrade

\* A whole-row write has the flags of the copy, which are good.
LEMMA SavedFlags ==
  ASSUME IInv, RInv, NEW t \in Thread, NEW o \in Order, task[t].copy[o] # NoRow,
         NEW r, r \in {task[t].copy[o], [task[t].copy[o] EXCEPT !.status = "expired"]}
  PROVE  GoodFlags(Saved(o, r), trade, o)
<1> DEFINE c == task[t].copy[o]
<1>1. c \in Row /\ c.isPay
  BY Unfolded DEF Task, GoodTask
<1>2. c.isRefund = "2" => c.status = "expired" /\ (o \in Company \/ Real(trade, o))
  BY DEF RInv, FlagsOK, TaskFlags
<1>3. /\ r \in Row /\ r.isPay /\ r.isRefund = c.isRefund
      /\ r.status \in {c.status, "expired"}
  BY <1>1 DEF Row, Status
<1> HIDE DEF c
<1>4. /\ Saved(o, r).isPay = r.isPay /\ Saved(o, r).status = r.status
      /\ Saved(o, r).isRefund = r.isRefund
  BY <1>3, RefundsOrder DEF Saved, Row
<1> QED
  BY <1>2, <1>3, <1>4 DEF GoodFlags

\* The refund page and cancelOrder write their copy back.
LEMMA CopyWriteRefunds ==
  ASSUME IInv, RInv, NEW t \in Thread, PageWrite(t) \/ CancelWrite(t)
  PROVE  Harmless(t)
<1> DEFINE o == task[t].o
           r == Saved(o, task[t].copy[o])
<1>1. o \in Order /\ task[t].copy[o] # NoRow
  BY Unfolded DEF PageWrite, CancelWrite, At, GoodTask, NoOrderPc
<1>2. /\ row' = [row EXCEPT ![o] = r] /\ Finish(t)
      /\ refundRow' = refundRow /\ trade' = trade
  BY DEF PageWrite, CancelWrite
<1>3. GoodFlags(r, trade, o)
  BY <1>1, SavedFlags
<1> HIDE DEF r
<1>4. TableFlags(row', trade)
  BY <1>1, <1>2, <1>3, RowFlags
<1> QED
  BY <1>2, <1>4, EndsHarmless, NoTrade

\* So does the 02:15 job, row by row.
LEMMA NightlyRefunds ==
  ASSUME IInv, RInv, NEW t \in Thread, NightlyWrite(t)
  PROVE  Harmless(t)
<1>1. ASSUME NEW o \in Order PROVE GoodFlags(row'[o], trade, o)
  <2>1. CASE o \in Loaded(t)
    <3> DEFINE r == [task[t].copy[o] EXCEPT !.status = "expired"]
    <3>1. row'[o] = Saved(o, r)
      BY <2>1 DEF NightlyWrite
    <3>2. GoodFlags(Saved(o, r), trade, o)
      BY <2>1, SavedFlags DEF Loaded
    <3> QED
      BY <3>1, <3>2
  <2>2. CASE o \notin Loaded(t)
    BY <2>2 DEF NightlyWrite, RInv, FlagsOK, TableFlags
  <2> QED
    BY <2>1, <2>2
<1>2. TableFlags(row', trade)
  BY <1>1 DEF TableFlags
<1> QED
  BY <1>2, EndsHarmless, NoTrade DEF NightlyWrite

\* sysCancalOrder marks orders as refunded that it has not refunded yet, as its
\* own cancellation, and never an unpaid one.
LEMMA SysUpdateRefunds ==
  ASSUME IInv, RInv, NEW t \in Thread, SysUpdate(t)
  PROVE  Harmless(t)
<1>1. ASSUME NEW o \in Order PROVE GoodFlags(row'[o], trade, o)
  <2>1. CASE o \in Loaded(t)
    <3>1. row[o] \in Row /\ row[o].isPay
      BY <2>1, Unfolded DEF GoodTask, Loaded
    <3>2. row'[o] = SysCancelled(row[o])
      BY <2>1 DEF SysUpdate
    <3>3. /\ SysCancelled(row[o]).isPay /\ SysCancelled(row[o]).status = "expired"
          /\ SysCancelled(row[o]).isCancel = "2"
      BY <3>1 DEF SysCancelled, Row
    <3> QED
      BY <3>2, <3>3 DEF GoodFlags
  <2>2. CASE o \notin Loaded(t)
    BY <2>2 DEF SysUpdate, RInv, FlagsOK, TableFlags
  <2> QED
    BY <2>1, <2>2
<1>2. TableFlags(row', trade)
  BY <1>1 DEF TableFlags
<1> QED
  BY <1>2, GotoHarmless DEF SysUpdate

\* The end of applyRefund; cancelOrder's copy is marked after a refund.
LEMMA MarkRefundedRefunds ==
  ASSUME IInv, RInv, NEW t \in Thread, MarkRefunded(t)
  PROVE  Harmless(t)
<1> DEFINE o == task[t].o
           r == [row[o] EXCEPT !.status = "expired", !.isRefund = "1"]
<1>1. /\ o \in Order /\ (o \in Company \/ Real(trade, o)) /\ TaskFlags(task[t], trade)
      /\ task[t] \in Task /\ row[o] \in Row
  BY RefundsOrder DEF MarkRefunded, At, RInv, FlagsOK, TaskFlags
<1>2. row' = [row EXCEPT ![o] = r] /\ refundRow' = refundRow /\ trade' = trade
  BY DEF MarkRefunded
<1>3. GoodFlags(r, trade, o)
  BY <1>1 DEF GoodFlags, Row
<1> HIDE DEF r
<1>4. TableFlags(row', trade)
  BY <1>1, <1>2, <1>3, RowFlags
<1>5. CASE task[t].op # "cancel"
  BY <1>2, <1>4, <1>5, EndsHarmless, NoTrade DEF MarkRefunded
<1>6. CASE task[t].op = "cancel"
  <2> DEFINE c == task[t].copy
             k == [task[t] EXCEPT !.pc = "cancelWrite", !.copy[o].isRefund = "2"]
  <2>1. task' = [task EXCEPT ![t] = k]
    BY <1>6 DEF MarkRefunded
  <2>2. c[o] # NoRow /\ c[o] \in Row /\ c[o].status = "expired"
    BY <1>1, <1>6, Unfolded DEF GoodTask, CancelPc, MarkRefunded, At, Task, TaskFlags
  <2>3. k.pc = "cancelWrite" /\ k.op = "cancel" /\ k.copy = [c EXCEPT ![o].isRefund = "2"]
    BY <1>1, <1>6 DEF Task
  <2>4. \A q \in Order : q # o => k.copy[q] = c[q]
    BY <1>1, <2>3 DEF Task
  <2>5. k.copy[o].status = "expired"
    <3>1. k.copy[o] = [c[o] EXCEPT !.isRefund = "2"]
      BY <1>1, <2>3 DEF Task
    <3> QED
      BY <2>2, <3>1 DEF Row
  <2> HIDE DEF k
  <2>6. TaskFlags(k, trade)
    BY <1>1, <1>6, <2>3, <2>4, <2>5 DEF TaskFlags
  <2> QED
    BY <1>2, <1>4, <2>1, <2>3, <2>6, TakesHarmless
<1> QED
  BY <1>5, <1>6

-----------------------------------------------------------------------------
(* Payments, and the steps of a handler that ask for a refund.             *)

\* The timers, and the monitor of queryWechatPayResult.
LEMMA PaymentRefunds ==
  ASSUME IInv, RInv, NEW t \in Thread,
         \/ SetPayKey(t) \/ EnterMonitor(t) \/ TradeUnpaid(t) \/ SetRideKey(t)
         \/ SaveSerial(t) \/ RoutingFails(t) \/ Crash(t)
  PROVE  Harmless(t)
<1>1. row' = row /\ refundRow' = refundRow /\ trade' = trade /\ TableFlags(row', trade)
  <2>1. row' = row /\ refundRow' = refundRow /\ trade' = trade
    BY DEF SetPayKey, EnterMonitor, TradeUnpaid, SetRideKey, SaveSerial, RoutingFails, Crash, db
  <2> QED
    BY <2>1, SameFlags
<1>2. CASE Finish(t)
  BY <1>1, <1>2, EndsHarmless, NoTrade
<1>3. CASE ~Finish(t)
  <2>1. Goto(t, "rideKey") \/ Goto(t, "serial") \/ EnterMonitor(t)
    BY <1>3 DEF SetPayKey, TradeUnpaid, SetRideKey, SaveSerial, RoutingFails, Crash
  <2>2. CASE EnterMonitor(t)
    <3> DEFINE k == [task[t] EXCEPT !.pc = "query", !.n = row[task[t].o].tradeNo]
    <3>1. task' = [task EXCEPT ![t] = k]
      BY <1>3, <2>2 DEF EnterMonitor
    <3>2. task[t] \in Task /\ TaskFlags(task[t], trade)
      BY RefundsOrder DEF RInv, FlagsOK
    <3>3. k.pc = "query" /\ k.op = task[t].op /\ k.copy = task[t].copy
      BY <3>2 DEF Task
    <3> HIDE DEF k
    <3>4. TaskFlags(k, trade)
      BY <3>2, <3>3 DEF TaskFlags
    <3> QED
      BY <1>1, <3>1, <3>3, <3>4, TakesHarmless
  <2>3. CASE Goto(t, "rideKey") \/ Goto(t, "serial")
    BY <1>1, <2>3, GotoHarmless
  <2> QED
    BY <2>1, <2>2, <2>3
<1> QED
  BY <1>2, <1>3

\* A payment makes an order usable that was unpaid, hence not marked as refunded.
LEMMA TradePaidRefunds ==
  ASSUME IInv, BInv, RInv, NEW t \in Thread, TradePaid(t)
  PROVE  Harmless(t)
<1> DEFINE o == task[t].o
<1>1. o \in Order /\ ~row[o].isPay /\ row[o] \in Row
  BY RefundsOrder DEF TradePaid, At, BInv, AskOK, NoOrderPc
<1>2. row[o].isRefund # "2"
  BY <1>1 DEF RInv, FlagsOK, TableFlags, GoodFlags
<1>3. AsPaid(row[o]).isRefund = row[o].isRefund
  BY <1>1 DEF AsPaid, Row
<1>4. GoodFlags(AsPaid(row[o]), trade, o)
  BY <1>2, <1>3 DEF GoodFlags
<1>5. row' = [row EXCEPT ![o] = AsPaid(row[o])]
  BY DEF TradePaid
<1>6. TableFlags(row', trade)
  BY <1>1, <1>4, <1>5, RowFlags
<1> QED
  BY <1>6, GotoHarmless DEF TradePaid

\* The next order of sysCancalOrder's list, which is then off the list.
LEMMA SysRefundRefunds ==
  ASSUME IInv, RInv, NEW t \in Thread, NEW o \in Order, SysRefund(t, o)
  PROVE  Harmless(t)
<1> DEFINE k == [task[t] EXCEPT !.pc = "wxRefund", !.o = o,
                               !.n = task[t].copy[o].tradeNo, !.copy[o] = NoRow]
<1>1. task' = [task EXCEPT ![t] = k]
  BY DEF SysRefund
<1>2. task[t] \in Task /\ TaskFlags(task[t], trade)
  BY RefundsOrder DEF RInv, FlagsOK
<1>3. k.pc = "wxRefund" /\ k.op = task[t].op /\ k.copy = [task[t].copy EXCEPT ![o] = NoRow]
  BY <1>2 DEF Task
<1> HIDE DEF k
<1>4. \A q \in Order : k.copy[q] # NoRow => k.copy[q] = task[t].copy[q]
  BY <1>2, <1>3 DEF Task
<1>5. TaskFlags(k, trade)
  BY <1>2, <1>3, <1>4 DEF TaskFlags
<1>6. row' = row /\ refundRow' = refundRow /\ trade' = trade
  BY DEF SysRefund, db
<1>7. TableFlags(row', trade)
  BY <1>6, SameFlags
<1> QED
  BY <1>1, <1>3, <1>5, <1>6, <1>7, TakesHarmless

\* A refund that is asked for, that fails, or that sysCancalOrder's list holds
\* next.  A free order goes straight to its row, which needs no refund.
LEMMA AskRefunds ==
  ASSUME IInv, RInv, NEW t \in Thread,
         \/ ApplyRefund(t) \/ WxRefundFails(t) \/ SysPhaseEnds(t)
         \/ \E o \in Order : SysRefund(t, o)
  PROVE  Harmless(t)
<1>1. row' = row /\ refundRow' = refundRow /\ trade' = trade /\ TableFlags(row', trade)
  <2>1. row' = row /\ refundRow' = refundRow /\ trade' = trade
    BY DEF ApplyRefund, WxRefundFails, SysPhaseEnds, SysRefund, db
  <2> QED
    BY <2>1, SameFlags
<1>2. task[t] \in Task /\ TaskFlags(task[t], trade)
  BY RefundsOrder DEF RInv, FlagsOK
<1>3. CASE Finish(t)
  BY <1>1, <1>3, EndsHarmless, NoTrade
<1>4. CASE Goto(t, "sysRefund")
  BY <1>1, <1>4, GotoHarmless
<1>5. CASE ApplyRefund(t) /\ ~Finish(t)
  <2>1. At(t, "applyRefund") /\ task[t].o \in Order
    BY <1>5, RefundsOrder DEF ApplyRefund, At, NoOrderPc
  <2>2. CASE task[t].o \in Company
    <3> DEFINE k == [task[t] EXCEPT !.pc = "refundRow"]
    <3>1. task' = [task EXCEPT ![t] = k]
      BY <1>5, <2>2 DEF ApplyRefund, Goto
    <3>2. /\ k.pc = "refundRow" /\ k.op = task[t].op /\ k.copy = task[t].copy
          /\ k.o = task[t].o
      BY <1>2 DEF Task
    <3> HIDE DEF k
    <3>3. TaskFlags(k, trade)
      BY <1>2, <2>1, <2>2, <3>2 DEF TaskFlags
    <3> QED
      BY <1>1, <2>2, <3>1, <3>2, <3>3, NoTrade DEF Harmless
  <2>3. CASE task[t].o \notin Company
    <3> DEFINE k == [task[t] EXCEPT !.pc = "wxRefund", !.n = row[task[t].o].tradeNo]
    <3>1. task' = [task EXCEPT ![t] = k]
      BY <1>5, <2>3 DEF ApplyRefund
    <3>2. k.pc = "wxRefund" /\ k.op = task[t].op /\ k.copy = task[t].copy
      BY <1>2 DEF Task
    <3> HIDE DEF k
    <3>3. TaskFlags(k, trade)
      BY <1>2, <3>2 DEF TaskFlags
    <3> QED
      BY <1>1, <3>1, <3>2, <3>3, TakesHarmless
  <2> QED
    BY <2>2, <2>3
<1>6. CASE SysPhaseEnds(t) /\ ~Finish(t)
  <2> DEFINE k == [Idle EXCEPT !.op = "sysRealtime", !.pc = "scanAgain"]
  <2>1. task' = [task EXCEPT ![t] = k]
    BY <1>6 DEF SysPhaseEnds
  <2>2. k.pc = "scanAgain" /\ TaskFlags(k, trade)
    BY DEF Idle, Blank, TaskFlags
  <2> HIDE DEF k
  <2> QED
    BY <1>1, <2>1, <2>2, TakesHarmless
<1>7. CASE \E o \in Order : SysRefund(t, o)
  BY <1>7, SysRefundRefunds
<1> QED
  BY <1>3, <1>4, <1>5, <1>6, <1>7 DEF WxRefundFails

-----------------------------------------------------------------------------
(* Refunds, and their rows.                                                *)

\* WeChat refunds a trade that was paid, so nobody holds it yet.
LEMMA WxRefundRows ==
  ASSUME IInv, RInv, NEW t \in Thread, WxRefund(t)
  PROVE  RInv'
<1> DEFINE k == [task[t] EXCEPT !.pc = "refundRow"]
<1>0. PICK o, n : o = task[t].o /\ n = task[t].n
  OBVIOUS
<1>1. /\ o \in Order /\ n \in 1 .. MaxTrade /\ task[t] \in Task
      /\ TaskFlags(task[t], trade)
  BY <1>0, RefundsOrder, BoundsAssumption
     DEF WxRefund, At, NoOrderPc, Task, RInv, FlagsOK
<1>2. /\ trade \in [Order -> [1 .. MaxTrade -> TradeState]]
      /\ trade[o][n] = "paid" /\ trade' = [trade EXCEPT ![o][n] = "refunded"]
      /\ row' = row /\ refundRow' = refundRow
  BY <1>0 DEF WxRefund, db, IInv, TypeOK
<1>3. task' = [task EXCEPT ![t] = k]
  BY DEF WxRefund, Goto
<1>4. /\ k.pc = "refundRow" /\ k.o = o /\ k.n = n
      /\ k.op = task[t].op /\ k.copy = task[t].copy
  BY <1>0, <1>1 DEF Task
<1>5. task'[t] = k /\ \A u \in Thread : u # t => task'[u] = task[u]
  BY <1>3, RefundsOrder
<1> HIDE DEF k
<1>6. /\ Refunded(o)' = Refunded(o) \cup {n} /\ n \notin Refunded(o)
      /\ \A p \in Order : p # o => Refunded(p)' = Refunded(p)
  BY <1>1, <1>2 DEF Refunded
<1>7. ASSUME NEW p \in Order \ Company
      PROVE  /\ \A u \in Thread : task'[u].pc = "refundRow" /\ task'[u].o = p
                                    => task'[u].n \in Refunded(p)'
             /\ \A u, v \in Thread, m \in Refunded(p)' :
                  Saves(task'[u], p, m) /\ Saves(task'[v], p, m) => u = v
             /\ refundRow'[p] <= Cardinality(Refunded(p)' \ Held(p)')
  <2>1. \A u \in Thread : task'[u].pc = "refundRow" /\ task'[u].o = p
                           => task'[u].n \in Refunded(p)'
    <3>1. ASSUME NEW u \in Thread, task'[u].pc = "refundRow", task'[u].o = p
          PROVE  task'[u].n \in Refunded(p)'
      <4>1. CASE u = t
        BY <1>4, <1>5, <1>6, <3>1, <4>1
      <4>2. CASE u # t
        <5>1. task'[u] = task[u] /\ task[u].n \in Refunded(p)
          BY <1>5, <3>1, <4>2 DEF RInv, RowsOK
        <5> QED
          BY <1>6, <5>1
      <4> QED
        BY <4>1, <4>2
    <3> QED
      BY <3>1
  <2>2. ASSUME NEW u \in Thread, NEW v \in Thread, NEW m \in Refunded(p)',
               Saves(task'[u], p, m), Saves(task'[v], p, m)
        PROVE  u = v
    <3>1. CASE p = o /\ m = n
      <4>1. ASSUME NEW w \in Thread, Saves(task[w], p, m) PROVE m \in Refunded(p)
        <5>1. task[w].pc = "refundRow" /\ task[w].o = p /\ task[w].n = m
          BY <4>1 DEF Saves
        <5> QED
          BY <5>1 DEF RInv, RowsOK
      <4>2. \A w \in Thread : w # t => ~Saves(task'[w], p, m)
        BY <1>5, <1>6, <3>1, <4>1
      <4> QED
        BY <2>2, <4>2
    <3>2. CASE ~(p = o /\ m = n)
      <4>1. ~Saves(k, p, m)
        BY <1>4, <3>2 DEF Saves
      <4>2. u # t /\ v # t
        BY <1>5, <2>2, <4>1
      <4>3. Saves(task[u], p, m) /\ Saves(task[v], p, m)
        BY <1>5, <2>2, <4>2
      <4>4. m \in Refunded(p)
        BY <1>6, <3>2
      <4> QED
        BY <4>3, <4>4 DEF RInv, RowsOK
    <3> QED
      BY <3>1, <3>2
  <2>3. ASSUME NEW m \in Refunded(p) \ Held(p)
        PROVE  m \in Refunded(p)' \ Held(p)'
    <3>1. m \in Refunded(p)' /\ (p = o => m # n)
      BY <1>6
    <3>2. \A u \in Thread : Saves(task'[u], p, m) => Saves(task[u], p, m)
      BY <1>4, <1>5, <3>1 DEF Saves
    <3> QED
      BY <3>1, <3>2 DEF Held
  <2>4. Refunded(p)' \ Held(p)' \subseteq 1 .. MaxTrade
    BY DEF Refunded
  <2>5. refundRow'[p] \in Nat /\ refundRow'[p] <= Cardinality(Refunded(p) \ Held(p))
    BY <1>2, BoundsAssumption DEF RInv, RowsOK, IInv, TypeOK
  <2>6. refundRow'[p] <= Cardinality(Refunded(p)' \ Held(p)')
    BY <2>3, <2>4, <2>5, MoreBacked
  <2> QED
    BY <2>1, <2>2, <2>6
<1>8. RowsOK'
  BY <1>7 DEF RowsOK
<1>9. Real(trade', o) /\ \A p \in Order : Real(trade, p) => Real(trade', p)
  BY <1>1, <1>2 DEF Real
<1>10. TableFlags(row', trade')
  BY <1>2, <1>9, FlagsMono DEF RInv, FlagsOK
<1>11. ASSUME NEW u \in Thread PROVE TaskFlags(task'[u], trade')
  <2>1. TaskFlags(task[u], trade')
    BY <1>9, FlagsMono DEF RInv, FlagsOK
  <2>2. CASE u = t
    BY <1>0, <1>1, <1>4, <1>5, <1>9, <2>1, <2>2 DEF TaskFlags
  <2> QED
    BY <1>5, <2>1, <2>2
<1> QED
  BY <1>8, <1>10, <1>11 DEF RInv, FlagsOK

\* The one thread that holds a refunded trade records it.
LEMMA SaveRefundRows ==
  ASSUME IInv, RInv, NEW t \in Thread, SaveRefundRow(t)
  PROVE  RInv'
<1> DEFINE o == task[t].o
           n == task[t].n
           pc == IF InSysCancal(t) THEN "sysRefund" ELSE "markRefunded"
           k == [task[t] EXCEPT !.pc = pc]
<1>1. /\ o \in Order /\ task[t] \in Task /\ task[t].pc = "refundRow"
      /\ TaskFlags(task[t], trade)
  BY RefundsOrder DEF SaveRefundRow, At, NoOrderPc, RInv, FlagsOK
<1>2. /\ row' = row /\ trade' = trade
      /\ refundRow' = [refundRow EXCEPT ![o] = Inc(refundRow[o])]
      /\ refundRow \in [Order -> 0 .. MaxCount]
  BY DEF SaveRefundRow, IInv, TypeOK
<1>3. task' = [task EXCEPT ![t] = k]
  BY DEF SaveRefundRow, Goto
<1>4. k.pc # "refundRow" /\ k.o = o /\ k.op = task[t].op /\ k.copy = task[t].copy
  BY <1>1 DEF Task
<1>5. task'[t] = k /\ \A u \in Thread : u # t => task'[u] = task[u]
  BY <1>3, RefundsOrder
<1> HIDE DEF k, o, n, pc
<1>6. \A p \in Order : Refunded(p)' = Refunded(p)
  BY <1>2 DEF Refunded
<1>7. \A u \in Thread : task'[u].pc = "refundRow" => u # t /\ task'[u] = task[u]
  BY <1>4, <1>5
<1>8. ASSUME NEW p \in Order \ Company
      PROVE  /\ \A u \in Thread : task'[u].pc = "refundRow" /\ task'[u].o = p
                                    => task'[u].n \in Refunded(p)'
             /\ \A u, v \in Thread, m \in Refunded(p)' :
                  Saves(task'[u], p, m) /\ Saves(task'[v], p, m) => u = v
             /\ refundRow'[p] <= Cardinality(Refunded(p)' \ Held(p)')
  <2>1. \A u \in Thread : task'[u].pc = "refundRow" /\ task'[u].o = p
                           => task'[u].n \in Refunded(p)'
    BY <1>6, <1>7 DEF RInv, RowsOK
  <2>2. ASSUME NEW u \in Thread, NEW v \in Thread, NEW m \in Refunded(p)',
               Saves(task'[u], p, m), Saves(task'[v], p, m)
        PROVE  u = v
    <3>1. Saves(task[u], p, m) /\ Saves(task[v], p, m)
      BY <1>7, <2>2 DEF Saves
    <3> QED
      BY <1>6, <3>1 DEF RInv, RowsOK
  <2>3. Refunded(p) \ Held(p) \subseteq Refunded(p)' \ Held(p)'
    BY <1>6, <1>7 DEF Held, Saves
  <2>4. Refunded(p)' \ Held(p)' \subseteq 1 .. MaxTrade
    BY DEF Refunded
  <2>5. refundRow[p] \in Nat /\ refundRow[p] <= Cardinality(Refunded(p) \ Held(p))
    BY <1>2, BoundsAssumption DEF RInv, RowsOK
  <2>6. CASE p # o
    <3>1. refundRow'[p] = refundRow[p]
      BY <1>2, <2>6
    <3> QED
      BY <2>1, <2>2, <2>3, <2>4, <2>5, <3>1, MoreBacked
  <2>7. CASE p = o
    <3> DEFINE S == Refunded(p) \ Held(p)
    <3>1. n \in Refunded(p) /\ Saves(task[t], p, n)
      BY <1>1, <2>7 DEF RInv, RowsOK, Saves, o, n
    <3>2. n \notin S
      BY <3>1 DEF Held
    <3>3. \A u \in Thread : ~Saves(task'[u], p, n)
      BY <1>7, <3>1 DEF RInv, RowsOK, Saves
    <3>4. S \cup {n} \subseteq Refunded(p)' \ Held(p)'
      BY <1>6, <2>3, <3>1, <3>3 DEF Held
    <3>5. IsFiniteSet(S) /\ Cardinality(S) \in Nat
      BY RefundedFinite
    <3> HIDE DEF S
    <3>6. Cardinality(S \cup {n}) = Cardinality(S) + 1
      BY <3>2, <3>5, FS_AddElement
    <3>7. refundRow'[p] = Inc(refundRow[p])
      BY <1>2, <2>7
    <3>8. refundRow'[p] \in Nat /\ refundRow'[p] <= refundRow[p] + 1
      BY <2>5, <3>7 DEF Inc
    <3>9. refundRow'[p] <= Cardinality(S \cup {n})
      BY <2>5, <3>5, <3>6, <3>8 DEF S
    <3>10. refundRow'[p] <= Cardinality(Refunded(p)' \ Held(p)')
      BY <2>4, <3>4, <3>8, <3>9, MoreBacked
    <3> QED
      BY <2>1, <2>2, <3>10
  <2> QED
    BY <2>6, <2>7
<1>9. RowsOK'
  BY <1>8 DEF RowsOK
<1>10. TableFlags(row', trade')
  BY <1>2 DEF RInv, FlagsOK
<1>11. ASSUME NEW u \in Thread PROVE TaskFlags(task'[u], trade')
  <2>1. TaskFlags(task[u], trade')
    BY <1>2 DEF RInv, FlagsOK
  <2>2. CASE u = t
    BY <1>1, <1>4, <1>5, <2>1, <2>2 DEF TaskFlags, o
  <2> QED
    BY <1>5, <2>1, <2>2
<1> QED
  BY <1>9, <1>10, <1>11 DEF RInv, FlagsOK

-----------------------------------------------------------------------------
(* The theorems.                                                           *)

\* Steps that leave rows and threads alone and refund nothing.
LEMMA AsideRefunds ==
  ASSUME IInv, RInv, row' = row, refundRow' = refundRow, task' = task, SameRefunds
  PROVE  RInv'
<1>1. RowsOK'
  BY RowsStep DEF RInv
<1>2. \A o \in Order : Real(trade', o) <=> Real(trade, o)
  BY SameSets
<1>3. TableFlags(row', trade')
  BY <1>2 DEF RInv, FlagsOK, TableFlags, GoodFlags
<1>4. \A t \in Thread : TaskFlags(task'[t], trade')
  BY <1>2 DEF RInv, FlagsOK, TaskFlags
<1> QED
  BY <1>1, <1>3, <1>4 DEF RInv, FlagsOK

\* Users pay open trades; redis and the clock touch no trade.
LEMMA ElsewhereRefunds ==
  ASSUME IInv, RInv, Elsewhere
  PROVE  RInv'
<1>1. row' = row /\ refundRow' = refundRow /\ task' = task
  BY DEF Elsewhere, KeyExpires, BecomeLate, BecomeDue, UserPays, LoseEvent, Midnight, db
<1>2. SameRefunds
  <2>1. CASE \E o \in Order, n \in 1 .. MaxTrade : UserPays(o, n)
    <3>1. PICK o \in Order, n \in 1 .. MaxTrade :
            trade[o][n] = "open" /\ trade' = [trade EXCEPT ![o][n] = "paid"]
      BY <2>1 DEF UserPays
    <3>2. trade \in [Order -> [1 .. MaxTrade -> TradeState]]
      BY DEF IInv, TypeOK
    <3> QED
      BY <3>1, <3>2 DEF SameRefunds
  <2>2. CASE ~\E o \in Order, n \in 1 .. MaxTrade : UserPays(o, n)
    <3>1. trade' = trade
      BY <2>2 DEF Elsewhere, KeyExpires, BecomeLate, BecomeDue, LoseEvent, Midnight
    <3> QED
      BY <3>1, NoTrade
  <2> QED
    BY <2>1, <2>2
<1> QED
  BY <1>1, <1>2, AsideRefunds

\* An empty table has no refunds.
LEMMA InitRefunds == Init => RInv
<1> SUFFICES ASSUME Init PROVE RInv
  OBVIOUS
<1>1. \A t \in Thread : task[t] = Idle /\ Idle.pc = "idle"
  BY DEF Init, Idle
<1>2. ASSUME NEW o \in Order PROVE refundRow[o] <= Cardinality(Refunded(o) \ Held(o))
  <2>1. Cardinality(Refunded(o) \ Held(o)) \in Nat
    BY RefundedFinite
  <2> QED
    BY <2>1 DEF Init
<1>3. RowsOK
  BY <1>1, <1>2 DEF RowsOK, Saves
<1>4. FlagsOK
  BY <1>1 DEF Init, FlagsOK, TableFlags, GoodFlags, TaskFlags, Idle, Blank
<1> QED
  BY <1>3, <1>4 DEF RInv

\* Every call of a handler keeps refunds in order.
LEMMA ContinueRefunds ==
  ASSUME IInv, BInv, RInv, NEW t \in Thread, Continue(t)
  PROVE  RInv'
<1>1. CASE WxRefund(t) \/ SaveRefundRow(t)
  BY <1>1, WxRefundRows, SaveRefundRows
<1>2. CASE \/ SetPayKey(t) \/ EnterMonitor(t) \/ TradeUnpaid(t) \/ SetRideKey(t)
           \/ SaveSerial(t) \/ RoutingFails(t)
  BY <1>2, PaymentRefunds, HarmlessStep
<1>3. CASE TradePaid(t) \/ IssueTrade(t)
  BY <1>3, TradePaidRefunds, IssueTradeRefunds, HarmlessStep
<1>4. CASE \/ ExecuteOrderExpire(t) \/ RoutingAnswers(t) \/ Board(t) \/ FinishRide(t)
           \/ AssignCar(t)
  BY <1>4, ColumnsRefunds, HarmlessStep
<1>5. CASE PageWrite(t) \/ CancelWrite(t) \/ NightlyWrite(t)
  BY <1>5, CopyWriteRefunds, NightlyRefunds, HarmlessStep
<1>6. CASE SysUpdate(t) \/ MarkRefunded(t)
  BY <1>6, SysUpdateRefunds, MarkRefundedRefunds, HarmlessStep
<1>7. CASE ScanAppointments(t)
  BY <1>7, LoadsRefunds, HarmlessStep
<1>8. CASE \/ ApplyRefund(t) \/ WxRefundFails(t) \/ SysPhaseEnds(t)
           \/ \E o \in Order : SysRefund(t, o)
  BY <1>8, AskRefunds, HarmlessStep
<1> QED
  BY <1>1, <1>2, <1>3, <1>4, <1>5, <1>6, <1>7, <1>8 DEF Continue

\* And every step does.
LEMMA NextRefunds ==
  ASSUME IInv, BInv, RInv, [Next]_vars
  PROVE  RInv'
<1>1. ASSUME NEW t \in Worker, NEW o \in Order, RequestStarts(t, o) PROVE RInv'
  <2>1. t \in Thread
    BY DEF Thread
  <2>2. CASE BuyTicket(t, o)
    BY <2>1, <2>2, BuyTicketRefunds, HarmlessStep
  <2>3. CASE RefundPage(t, o) \/ CancelOrder(t, o)
    BY <2>1, <2>3, CopiesOneRefunds, HarmlessStep
  <2>4. CASE ~(BuyTicket(t, o) \/ RefundPage(t, o) \/ CancelOrder(t, o))
    BY <1>1, <2>1, <2>4, BlankStarts, HarmlessStep DEF RequestStarts
  <2> QED
    BY <2>2, <2>3, <2>4
<1>2. ASSUME NEW t \in Worker, NEW e, SetOrderExpire(t, e) PROVE RInv'
  <2>1. t \in Thread
    BY DEF Thread
  <2> QED
    BY <1>2, <2>1, EventRefunds, HarmlessStep, AsideRefunds, NoTrade
<1>3. ASSUME NEW t \in Thread, SysCancalOrder(t) \/ UpdatePeakOrder(t) PROVE RInv'
  BY <1>3, LoadsRefunds, HarmlessStep
<1>4. ASSUME NEW t \in Thread, NEW o \in Order, Dispatch(t, o) PROVE RInv'
  BY <1>4, BlankStarts, HarmlessStep
<1>5. CASE \E t \in Thread : Continue(t)
  BY <1>5, ContinueRefunds
<1>6. CASE \E t \in Thread : Crash(t)
  BY <1>6, PaymentRefunds, HarmlessStep
<1>7. CASE Elsewhere
  BY <1>7, ElsewhereRefunds
<1>8. CASE UNCHANGED vars
  BY <1>8, AsideRefunds, NoTrade DEF vars, db
<1> QED
  BY <1>1, <1>2, <1>3, <1>4, <1>5, <1>6, <1>7, <1>8 DEF Next, JobStarts, Thread

\* In every state the refund rows of an order count refunds that were recorded,
\* each other refund is in the hands of one thread, and flags tell the truth.
THEOREM Refunding == Spec => []RInv
<1>1. IInv /\ BInv /\ RInv /\ [Next]_vars => RInv'
  BY NextRefunds
<1> QED
  BY InitRefunds, Invariance, Booking, <1>1, PTL DEF Spec

\* Cancellation by the user, the refund endpoint and sysCancalOrder may all try
\* to refund one order: it never has more refund rows than WeChat refunded trades.
THEOREM RefundRowsBacked == Spec => []RefundRowsAreBacked
<1>1. IInv /\ RInv => RefundRowsAreBacked
  <2> SUFFICES ASSUME IInv, RInv, NEW o \in Order \ Company
               PROVE  refundRow[o] <= Cardinality(Refunded(o))
    BY DEF RefundRowsAreBacked
  <2>1. refundRow[o] \in Nat /\ refundRow[o] <= Cardinality(Refunded(o) \ Held(o))
    BY BoundsAssumption DEF RInv, RowsOK, IInv, TypeOK
  <2>2. Refunded(o) \ Held(o) \subseteq Refunded(o) /\ Refunded(o) \subseteq 1 .. MaxTrade
    BY DEF Refunded
  <2> QED
    BY <2>1, <2>2, MoreBacked
<1> QED
  BY Refunding, Invariance, <1>1, PTL

\* An order its user cancelled, and that shows a refund, was refunded by WeChat,
\* though the flags come from a copy cancelOrder loaded before it asked.
THEOREM UserRefundsReal == Spec => []UserRefundIsReal
<1>1. RInv => UserRefundIsReal
  BY DEF RInv, FlagsOK, TableFlags, GoodFlags, Real, UserRefundIsReal, Refunded
<1> QED
  BY Refunding, <1>1, PTL
=============================================================================
