---------------------------- MODULE OrderService ----------------------------
(***************************************************************************)
(* The life of an order in data-service: purchase, payment through WeChat, *)
(* expiry by redis timers, cancellation and refund, boarding, the 30 s     *)
(* cancellation job and the 02:15 job.                                     *)
(*                                                                         *)
(* No handler runs in a database transaction that protects what it read    *)
(* (the annotated methods are package-private, or read under READ          *)
(* COMMITTED without locking), so a handler is a task of a thread that     *)
(* makes one database, redis or WeChat call per step.  A task remembers    *)
(* the rows it loaded: MyBatis-Plus updateById writes the whole entity     *)
(* back, the columns the handler never touched included.                   *)
(***************************************************************************)
EXTENDS Naturals, FiniteSets

CONSTANTS
  Order,         \* the orders one user may place
  Worker,        \* request threads of user-web and data-service
  Job,           \* the one thread behind data-service's @Scheduled methods
  Company,       \* orders bought through buyTicketByCompany, for free
  Peak,          \* routeType "1"; the others are off-peak
  Appointment,   \* off-peak orders with a trip time (orderType "1")
  MaxTrade,      \* bound on the trade numbers loadPayPre issues per order
  MaxCount,      \* counters of serials, refund rows, boardings stop here
  CancelLimit,   \* user cancellations per day before the page refuses (5)
  MaxFault,      \* bound on handlers that die half way and events that get lost
  Ops,           \* the handlers that may start
  NoOrder, NoThread, NoRow

Status == {"none", "created", "toUse", "riding", "done", "expired"}

Row == [status : Status, isPay : BOOLEAN, isRefund : {"0", "1", "2"},
        isCancel : {"0", "1", "2"}, tradeNo : 0 .. MaxTrade, car : BOOLEAN]

Thread == Worker \cup {Job}

ASSUME KindsAssumption ==
  /\ Company \subseteq Order /\ Peak \subseteq Order
  /\ Appointment \subseteq Order \ Peak
  /\ IsFiniteSet(Order)
ASSUME BoundsAssumption ==
  /\ MaxTrade \in Nat /\ MaxCount \in Nat /\ CancelLimit \in Nat
  /\ MaxFault \in Nat
ASSUME NamesAssumption ==
  /\ Job \notin Worker /\ NoThread \notin Thread
  /\ NoOrder \notin Order /\ NoRow \notin Row

Realtime == Order \ (Peak \cup Appointment)

VARIABLES
  row,        \* t_order
  serial,     \* rows of t_pay_serial per order
  refundRow,  \* rows of t_order_refunds per order
  boarded,    \* accepted scans of the order's code (history)
  payKey,     \* redis keys "...&id": payment awaited for 180 s
  rideKey,    \* redis keys "orderExp=id": ride awaited until exp_date
  events,     \* expired-key messages on their way to user-web
  trade,      \* WeChat's view of each trade number of an order
  late,       \* orders whose refund window in cancelOrder has closed
  due,        \* off-peak orders sysCancalOrder may give up on
  old,        \* orders created before the last midnight
  task,       \* what each thread is doing
  lock,       \* the monitor of queryWechatPayResult
  faults

db    == <<row, serial, refundRow, boarded>>
redis == <<payKey, rideKey, events>>
clock == <<late, due, old>>
vars  == <<db, redis, trade, clock, task, lock, faults>>

-----------------------------------------------------------------------------
(* Tasks.                                                                  *)

Blank == [o \in Order |-> NoRow]
Idle  == [op |-> "none", pc |-> "idle", o |-> NoOrder, n |-> 0, copy |-> Blank]

At(t, pc) == task[t].pc = pc

\* Thread t starts handler op on order o, to continue at pc with the rows
\* in copy.  n is the trade number a handler has read.
Begin(t, op, pc, o, copy) ==
  /\ op \in Ops /\ At(t, "idle")
  /\ task' = [task EXCEPT ![t] =
       [op |-> op, pc |-> pc, o |-> o, n |-> 0, copy |-> copy]]

Goto(t, pc) == task' = [task EXCEPT ![t].pc = pc]
Finish(t)   == task' = [task EXCEPT ![t] = Idle]

Only(o, r) == [Blank EXCEPT ![o] = r]

Inc(n) == IF n < MaxCount THEN n + 1 ELSE n

\* updateById with an entity that was loaded whole: every column that is not
\* null in the entity is written.
Saved(o, entity) == [entity EXCEPT !.car = entity.car \/ row[o].car]

-----------------------------------------------------------------------------
(* Purchase.                                                               *)

\* Mutant: an order saved without its is_cancel default.
NewRowBare(o) ==
  [status |-> IF o \in Company THEN "toUse" ELSE "created",
   isPay |-> o \in Company, isRefund |-> "0", isCancel |-> "",
   tradeNo |-> 0, car |-> FALSE]

NewRow(o) ==
  [status |-> IF o \in Company THEN "toUse" ELSE "created",
   isPay |-> o \in Company, isRefund |-> "0", isCancel |-> "0",
   tradeNo |-> 0, car |-> FALSE]

\* buyTicket*: IF the order does not exist THEN save it.  A company order is
\* paid from the start.
BuyTicket(t, o) ==
  /\ row[o].status = "none"
  /\ Begin(t, "buy", "payKey", o, Blank)
  /\ row' = [row EXCEPT ![o] = NewRow(o)]
  /\ UNCHANGED <<serial, refundRow, boarded, redis, trade, clock, lock, faults>>

\* ... THEN start the 180 s payment timer; a company order goes on to
\* savePaySerial.
SetPayKey(t) ==
  /\ At(t, "payKey")
  /\ payKey' = payKey \cup {task[t].o}
  /\ IF task[t].o \in Company THEN Goto(t, "rideKey") ELSE Finish(t)
  /\ UNCHANGED <<db, rideKey, events, trade, clock, lock, faults>>

-----------------------------------------------------------------------------
(* Payment.  loadPayPre issues a trade number, the user pays it at WeChat, *)
(* queryWechatPayResult asks WeChat and books the payment.                 *)

\* The bound MaxTrade: a number is left for every request under way.
NumbersLeft(o) ==
  Cardinality({u \in Thread : At(u, "issue") /\ task[u].o = o})
    < Cardinality({n \in 1 .. MaxTrade : trade[o][n] = "new"})

\* IF the order is not paid THEN go on to issue a trade number.
LoadPayPre(t, o) ==
  /\ row[o].status # "none" /\ ~row[o].isPay
  /\ NumbersLeft(o)
  /\ Begin(t, "prepay", "issue", o, Blank)
  /\ UNCHANGED <<db, redis, trade, clock, lock, faults>>

NextTrade(o, n) ==
  n \in 1 .. MaxTrade /\ trade[o][n] = "new"
    /\ \A m \in 1 .. n - 1 : trade[o][m] # "new"

\* The trade number is written whatever the order's state is by now, then
\* WeChat's unifiedOrder opens the trade, or fails.
IssueTrade(t) ==
  LET o == task[t].o IN
  /\ At(t, "issue")
  /\ \E n \in 1 .. MaxTrade, s \in {"open", "failed"} :
       /\ NextTrade(o, n)
       /\ row' = [row EXCEPT ![o].tradeNo = n]
       /\ trade' = [trade EXCEPT ![o][n] = s]
  /\ Finish(t)
  /\ UNCHANGED <<serial, refundRow, boarded, redis, clock, lock, faults>>

\* The user pays a trade that WeChat has open.
UserPays(o, n) ==
  /\ trade[o][n] = "open"
  /\ trade' = [trade EXCEPT ![o][n] = "paid"]
  /\ UNCHANGED <<db, redis, clock, task, lock, faults>>

\* The first, unsynchronized read of is_pay.
QueryPay(t, o) ==
  /\ row[o].status # "none" /\ ~row[o].isPay
  /\ Begin(t, "pay", "enter", o, Blank)
  /\ UNCHANGED <<db, redis, trade, clock, lock, faults>>

\* IF the monitor is free THEN enter it and read the order again: return if it
\* has been paid meanwhile, else ask WeChat about the trade number just read.
PaidBlind(o) == FALSE   \* mutant: no second read of is_pay
Paid(o) == row[o].isPay
EnterMonitor(t) ==
  LET o == task[t].o IN
  /\ At(t, "enter") /\ lock = NoThread
  /\ IF Paid(o)
     THEN Finish(t) /\ lock' = lock
     ELSE /\ lock' = t
          /\ task' = [task EXCEPT ![t].pc = "query", ![t].n = row[o].tradeNo]
  /\ UNCHANGED <<db, redis, trade, clock, faults>>

\* WeChat answers SUCCESS only for a paid trade.  The order becomes paid and
\* ready to use, whatever its status is by now.
QueryAnswers(o, n) == n # 0 /\ trade[o][n] \in {"open", "paid"}   \* mutant
QuerySucceeds(o, n) == n # 0 /\ trade[o][n] = "paid"
AsReady(r) == [r EXCEPT !.status = "toUse"]   \* mutant: setIsPay is missing
AsPaid(r) == [r EXCEPT !.isPay = TRUE, !.status = "toUse"]
TradePaid(t) ==
  LET o == task[t].o
      n == task[t].n IN
  /\ At(t, "query")
  /\ QuerySucceeds(o, n)
  /\ row' = [row EXCEPT ![o] = AsPaid(row[o])]
  /\ late' = late \ (Realtime \cap {o})
  /\ Goto(t, "rideKey")
  /\ UNCHANGED <<serial, refundRow, boarded, redis, trade, due, old, lock, faults>>

\* Any other answer, or no answer, ends the request.
TradeUnpaid(t) ==
  /\ At(t, "query")
  /\ Finish(t) /\ lock' = NoThread
  /\ UNCHANGED <<db, redis, trade, clock, faults>>

\* The ride timer starts, then the serial is saved and the monitor left (a
\* company order comes here from savePaySerial, without the monitor).  exp_date,
\* an hour after the sale or the trip, or the end of a peak order's day, may be
\* past by now: redis then deletes the key at once and publishes no expiry.
MayBePast(o) == IF o \in Peak THEN o \in old ELSE o \in due
SetRideKey(t) ==
  LET o == task[t].o IN
  /\ At(t, "rideKey")
  /\ \/ rideKey' = rideKey \cup {o}
     \/ MayBePast(o) /\ rideKey' = rideKey \ {o}
  /\ Goto(t, "serial")
  /\ UNCHANGED <<db, payKey, events, trade, clock, lock, faults>>

SaveSerial(t) ==
  /\ At(t, "serial")
  /\ serial' = [serial EXCEPT ![task[t].o] = Inc(@)]
  /\ Finish(t)
  /\ lock' = IF lock = t THEN NoThread ELSE lock
  /\ UNCHANGED <<row, refundRow, boarded, redis, trade, clock, faults>>

-----------------------------------------------------------------------------
(* Expiry.                                                                 *)

\* A timer runs out and redis publishes the key, once and without delivery
\* guarantee.  A timer whose handler is not in Ops does not run out.
KeyExpires(o) ==
  /\ \/ /\ o \in payKey /\ "expirePay" \in Ops
        /\ payKey' = payKey \ {o} /\ rideKey' = rideKey
        /\ events' = events \cup {<<"&", o>>}
     \/ /\ o \in rideKey /\ "expireRide" \in Ops
        /\ rideKey' = rideKey \ {o} /\ payKey' = payKey
        /\ events' = events \cup {<<"=", o>>}
  /\ UNCHANGED <<db, trade, clock, task, lock, faults>>

LoseEvent(e) ==
  /\ faults < MaxFault /\ faults' = faults + 1
  /\ events' = events \ {e}
  /\ UNCHANGED <<db, payKey, rideKey, trade, clock, task, lock>>

\* setOrderExpire, type 0 ("&") and type 1 ("="): IF the order still waits for
\* what the timer measured THEN go on to expire it, else drop the event.
StillUsable(kind, o) == row[o].status = "toUse"   \* mutant: both types alike
StillWaiting(kind, o) ==
  row[o].status = IF kind = "&" THEN "created" ELSE "toUse"
SetOrderExpire(t, e) ==
  LET kind == e[1]
      o    == e[2] IN
  /\ events' = events \ {e}
  /\ IF StillWaiting(kind, o)
     THEN Begin(t, IF kind = "&" THEN "expirePay" ELSE "expireRide", "expire", o, Blank)
     ELSE task' = task
  /\ UNCHANGED <<db, payKey, rideKey, trade, clock, lock, faults>>

\* setExpOrder, behind the page that asks whether an order has expired.
SetExpOrder(t, o) ==
  /\ row[o].status = "toUse"
  /\ Begin(t, "checkExp", "expire", o, Blank)
  /\ UNCHANGED <<db, redis, trade, clock, lock, faults>>

\* executeOrderExpire: no condition but the id.
ExecuteOrderExpire(t) ==
  /\ At(t, "expire")
  /\ row' = [row EXCEPT ![task[t].o].status = "expired"]
  /\ Finish(t)
  /\ UNCHANGED <<serial, refundRow, boarded, redis, trade, clock, lock, faults>>

\* setRouteOrderExpire, three minutes after a car stopped at a station: IF an
\* order of its route still waits there THEN ask the routing service ...
SetRouteOrderExpire(t, o) ==
  /\ o \notin Peak /\ row[o].status = "toUse" /\ row[o].car
  /\ Begin(t, "expireRoute", "routing", o, Blank)
  /\ UNCHANGED <<db, redis, trade, clock, lock, faults>>

\* ... and expire it when an answer comes; without one the handler fails.
RoutingAnswers(t) ==
  /\ At(t, "routing")
  /\ row' = [row EXCEPT ![task[t].o].status = "expired"]
  /\ Finish(t)
  /\ UNCHANGED <<serial, refundRow, boarded, redis, trade, clock, lock, faults>>

RoutingFails(t) ==
  /\ At(t, "routing")
  /\ Finish(t)
  /\ UNCHANGED <<db, redis, trade, clock, lock, faults>>

-----------------------------------------------------------------------------
(* The refund page and cancellation.                                       *)

\* Cancellations of today's orders, what loadRefundExpirationTime counts.
CancelledToday == {o \in Order \ old : row[o].isCancel = "1"}

\* The page's flag: always "1" for real-time and peak orders; for an
\* appointment "1" exactly when departure is less than 10 minutes away.
PageFlag(o) == IF o \in Appointment /\ o \notin late THEN "0" ELSE "1"

\* loadRefundExpirationTime: IF the user has cancelled at most CancelLimit
\* orders today and the order is unused THEN compute the flag ...
PageForAnyLive(o) ==   \* mutant: the page is shown for unpaid orders too
  Cardinality(CancelledToday) <= CancelLimit /\ row[o].status \in {"created", "toUse"}
PageAllowed(o) ==
  Cardinality(CancelledToday) <= CancelLimit /\ row[o].status = "toUse"
RefundPage(t, o) ==
  /\ PageAllowed(o)
  /\ Begin(t, "page", "pageWrite", o, Only(o, [row[o] EXCEPT !.isRefund = PageFlag(o)]))
  /\ UNCHANGED <<db, redis, trade, clock, lock, faults>>

\* ... and write the whole order back.
PageWrite(t) ==
  LET o == task[t].o IN
  /\ At(t, "pageWrite")
  /\ row' = [row EXCEPT ![o] = Saved(o, task[t].copy[o])]
  /\ Finish(t)
  /\ UNCHANGED <<serial, refundRow, boarded, redis, trade, clock, lock, faults>>

\* cancelOrder's own rule: 3 minutes after the last update of a real-time
\* order, until 10 minutes before departure, on the day a peak order was made.
RefundDue(o) == IF o \in Peak THEN o \notin old ELSE o \notin late

\* cancelOrder: IF the order is unused THEN refund it when that is due, and
\* write it back as cancelled.
CancelOrder(t, o) ==
  /\ row[o].status = "toUse"
  /\ Begin(t, "cancel", IF RefundDue(o) THEN "applyRefund" ELSE "cancelWrite", o,
           Only(o, [row[o] EXCEPT !.status = "expired", !.isCancel = "1"]))
  /\ UNCHANGED <<db, redis, trade, clock, lock, faults>>

\* The stale copy goes back whole.  Then callCancelMaasCommon may give waiting
\* orders a car (parseCommonData): to an order that is what Dispatch and AssignCar do.
CancelWrite(t) ==
  LET o == task[t].o IN
  /\ At(t, "cancelWrite")
  /\ row' = [row EXCEPT ![o] = Saved(o, task[t].copy[o])]
  /\ Finish(t)
  /\ UNCHANGED <<serial, refundRow, boarded, redis, trade, clock, lock, faults>>

-----------------------------------------------------------------------------
(* Refunds.                                                                *)

\* applyRefund has its own endpoint as well.
RequestRefund(t, o) ==
  /\ row[o].status # "none"
  /\ Begin(t, "refund", "applyRefund", o, Blank)
  /\ UNCHANGED <<db, redis, trade, clock, lock, faults>>

\* applyRefund: IF the order is paid and unused THEN a free order only gets its
\* refund row, any other is refunded by WeChat; ELSE the request fails, and
\* cancelOrder with it.
Refundable(o) == row[o].isPay /\ row[o].status = "toUse"
ApplyRefund(t) ==
  LET o == task[t].o IN
  /\ At(t, "applyRefund")
  /\ IF ~Refundable(o) THEN Finish(t)
     ELSE IF o \in Company THEN Goto(t, "refundRow")
     ELSE task' = [task EXCEPT ![t].pc = "wxRefund", ![t].n = row[o].tradeNo]
  /\ UNCHANGED <<db, redis, trade, clock, lock, faults>>

InSysCancal(t) == task[t].op \in {"sysRealtime", "sysAppointment"}

\* createRefundInfo: WeChat refunds a paid trade, once ...
WxRefund(t) ==
  LET o == task[t].o
      n == task[t].n IN
  /\ At(t, "wxRefund")
  /\ n # 0 /\ trade[o][n] = "paid"
  /\ trade' = [trade EXCEPT ![o][n] = "refunded"]
  /\ Goto(t, "refundRow")
  /\ UNCHANGED <<db, redis, clock, lock, faults>>

\* ... or the call fails: applyRefund reports it, sysCancalOrder does not look.
WxRefundFailsUnseen(t) ==   \* mutant: applyRefund ignores the result, too
  /\ At(t, "wxRefund")
  /\ Goto(t, IF InSysCancal(t) THEN "sysRefund" ELSE "markRefunded")
  /\ UNCHANGED <<db, redis, trade, clock, lock, faults>>
WxRefundFailsSaved(t) ==    \* mutant: the refund row is saved on failure, too
  /\ At(t, "wxRefund")
  /\ Goto(t, "refundRow")
  /\ UNCHANGED <<db, redis, trade, clock, lock, faults>>
WxRefundFails(t) ==
  /\ At(t, "wxRefund")
  /\ IF InSysCancal(t) THEN Goto(t, "sysRefund") ELSE Finish(t)
  /\ UNCHANGED <<db, redis, trade, clock, lock, faults>>

SaveRefundRow(t) ==
  /\ At(t, "refundRow")
  /\ refundRow' = [refundRow EXCEPT ![task[t].o] = Inc(@)]
  /\ Goto(t, IF InSysCancal(t) THEN "sysRefund" ELSE "markRefunded")
  /\ UNCHANGED <<row, serial, boarded, redis, trade, clock, lock, faults>>

\* The end of applyRefund; cancelOrder continues with isRefund "2".
MarkRefunded(t) ==
  LET o == task[t].o IN
  /\ At(t, "markRefunded")
  /\ row' = [row EXCEPT ![o].status = "expired", ![o].isRefund = "1"]
  /\ IF task[t].op = "cancel"
     THEN task' = [task EXCEPT ![t].pc = "cancelWrite", ![t].copy[o].isRefund = "2"]
     ELSE Finish(t)
  /\ UNCHANGED <<serial, refundRow, boarded, redis, trade, clock, lock, faults>>

-----------------------------------------------------------------------------
(* sysCancalOrder, called by user-web every 30 s: first real-time orders,  *)
(* then appointments.                                                      *)

\* Paid off-peak orders of today that no car has been sent for in time.
Stranded(kind) ==
  {o \in kind : /\ row[o].status = "toUse" /\ row[o].isPay /\ ~row[o].car
                /\ o \in due /\ o \notin old}

Load(S) == [o \in Order |-> IF o \in S THEN row[o] ELSE NoRow]
Loaded(t) == {o \in Order : task[t].copy[o] # NoRow}

\* IF real-time orders are stranded THEN go on to cancel them ELSE look at the
\* appointments.
SysCancalOrder(t) ==
  LET S == Stranded(Realtime) IN
  /\ Begin(t, "sysRealtime", IF S = {} THEN "scanAgain" ELSE "sysUpdate", NoOrder, Load(S))
  /\ UNCHANGED <<db, redis, trade, clock, lock, faults>>

ScanAppointments(t) ==
  LET S == Stranded(Appointment) IN
  /\ At(t, "scanAgain")
  /\ IF S = {} THEN Finish(t)
     ELSE task' = [task EXCEPT ![t] =
            [op |-> "sysAppointment", pc |-> "sysUpdate", o |-> NoOrder, n |-> 0,
             copy |-> Load(S)]]
  /\ UNCHANGED <<db, redis, trade, clock, lock, faults>>

\* batchUpdateByCondition: one statement, no condition but the ids.
SysExpired(r) == [r EXCEPT !.status = "expired", !.isRefund = "2"]   \* mutant
SysCancelled(r) == [r EXCEPT !.status = "expired", !.isCancel = "2", !.isRefund = "2"]
SysUpdate(t) ==
  /\ At(t, "sysUpdate")
  /\ row' = [o \in Order |->
       IF o \in Loaded(t) THEN SysCancelled(row[o]) ELSE row[o]]
  /\ Goto(t, "sysRefund")
  /\ UNCHANGED <<serial, refundRow, boarded, redis, trade, clock, lock, faults>>

\* One refund per order of the list ...
SysRefund(t, o) ==
  /\ At(t, "sysRefund") /\ o \in Loaded(t)
  /\ task' = [task EXCEPT ![t].pc = "wxRefund", ![t].o = o,
                         ![t].n = task[t].copy[o].tradeNo, ![t].copy[o] = NoRow]
  /\ UNCHANGED <<db, redis, trade, clock, lock, faults>>

\* ... and on to the second scan, or the end.
SysPhaseEnds(t) ==
  /\ At(t, "sysRefund") /\ Loaded(t) = {}
  /\ IF task[t].op = "sysRealtime"
     THEN task' = [task EXCEPT ![t] = [Idle EXCEPT !.op = "sysRealtime", !.pc = "scanAgain"]]
     ELSE Finish(t)
  /\ UNCHANGED <<db, redis, trade, clock, lock, faults>>

-----------------------------------------------------------------------------
(* Riding.                                                                 *)

\* checkQrCallBack: IF the order is unused, and for an off-peak order the
\* scanning car is the one assigned, THEN go on to board.
Boardable(o) == row[o].status = "toUse" /\ (o \in Peak \/ row[o].car)
CheckQrCallBack(t, o) ==
  /\ Boardable(o)
  /\ Begin(t, "scan", "board", o, Blank)
  /\ UNCHANGED <<db, redis, trade, clock, lock, faults>>

Board(t) ==
  LET o == task[t].o IN
  /\ At(t, "board")
  /\ row' = [row EXCEPT ![o].status = "riding", ![o].car = TRUE]
  /\ boarded' = [boarded EXCEPT ![o] = Inc(@)]
  /\ Finish(t)
  /\ UNCHANGED <<serial, refundRow, redis, trade, clock, lock, faults>>

\* A position report of the car reaches the passenger's stop, or the end of
\* the route: the orders found riding are done.
CarArrives(t, o) ==
  /\ row[o].status = "riding"
  /\ Begin(t, "arrive", "finishRide", o, Blank)
  /\ UNCHANGED <<db, redis, trade, clock, lock, faults>>

FinishRide(t) ==
  /\ At(t, "finishRide")
  /\ row' = [row EXCEPT ![task[t].o].status = "done"]
  /\ Finish(t)
  /\ UNCHANGED <<serial, refundRow, boarded, redis, trade, clock, lock, faults>>

\* maasRealCommonScheduled and maasCommonScheduled: a paid off-peak order
\* without a car is offered to the routing service, and gets its answer's car.
Dispatch(t, o) ==
  /\ o \notin Peak
  /\ row[o].status = "toUse" /\ row[o].isPay /\ ~row[o].car
  /\ Begin(t, "dispatch", "assign", o, Blank)
  /\ UNCHANGED <<db, redis, trade, clock, lock, faults>>

AssignCar(t) ==
  LET o == task[t].o IN
  /\ At(t, "assign")
  /\ row' = [row EXCEPT ![o].car = TRUE]
  /\ late' = late \ (Realtime \cap {o})
  /\ Finish(t)
  /\ UNCHANGED <<serial, refundRow, boarded, redis, trade, due, old, lock, faults>>

\* updatePeakOrder at 02:15: every unused order is loaded, the filter on
\* routeType being commented out ...
NightlyPeakOnly ==   \* mutant: the filter put back
  {o \in Peak : row[o].status = "toUse"}
NightlyUnfinished ==   \* mutant: unpaid orders are swept up as well
  {o \in Order : row[o].status \in {"created", "toUse"}}
NightlyScope == {o \in Order : row[o].status = "toUse"}
UpdatePeakOrder(t) ==
  LET S == NightlyScope IN
  /\ S # {}
  /\ Begin(t, "nightly", "nightlyWrite", NoOrder, Load(S))
  /\ UNCHANGED <<db, redis, trade, clock, lock, faults>>

\* ... and written back as expired, in one transaction.
NightlyWrite(t) ==
  /\ At(t, "nightlyWrite")
  /\ row' = [o \in Order |->
       IF o \in Loaded(t)
       THEN Saved(o, [task[t].copy[o] EXCEPT !.status = "expired"])
       ELSE row[o]]
  /\ Finish(t)
  /\ UNCHANGED <<serial, refundRow, boarded, redis, trade, clock, lock, faults>>

-----------------------------------------------------------------------------
(* Time and failures.                                                      *)

\* The refund window of cancelOrder closes.
BecomeLate(o) ==
  /\ row[o].status # "none" /\ o \notin Peak /\ o \notin late
  /\ o \in Realtime => o \in due
  /\ late' = late \cup {o}
  /\ UNCHANGED <<db, redis, trade, due, old, task, lock, faults>>

\* Three minutes after a real-time order, or at an appointment's departure.
BecomeDue(o) ==
  /\ row[o].status # "none" /\ o \notin Peak /\ o \notin due
  /\ o \in Appointment => o \in late
  /\ due' = due \cup {o}
  /\ UNCHANGED <<db, redis, trade, late, old, task, lock, faults>>

Midnight ==
  /\ "midnight" \in Ops
  /\ old' = {o \in Order : row[o].status # "none"} /\ old' # old
  /\ UNCHANGED <<db, redis, trade, late, due, task, lock, faults>>

\* The process, or the connection of the request, is lost between two calls.
Crash(t) ==
  /\ faults < MaxFault /\ ~At(t, "idle")
  /\ Finish(t)
  /\ lock' = IF lock = t THEN NoThread ELSE lock
  /\ faults' = faults + 1
  /\ UNCHANGED <<db, redis, trade, clock>>

-----------------------------------------------------------------------------
Init ==
  /\ row = [o \in Order |-> [status |-> "none", isPay |-> FALSE, isRefund |-> "0",
                              isCancel |-> "0", tradeNo |-> 0, car |-> FALSE]]
  /\ serial = [o \in Order |-> 0] /\ refundRow = [o \in Order |-> 0]
  /\ boarded = [o \in Order |-> 0]
  /\ payKey = {} /\ rideKey = {} /\ events = {}
  /\ trade = [o \in Order |-> [n \in 1 .. MaxTrade |-> "new"]]
  /\ late = {} /\ due = {} /\ old = {}
  /\ task = [t \in Thread |-> Idle]
  /\ lock = NoThread /\ faults = 0

\* A request or a scheduled method starts.
RequestStarts(t, o) ==
  \/ BuyTicket(t, o) \/ LoadPayPre(t, o) \/ QueryPay(t, o)
  \/ SetExpOrder(t, o) \/ RefundPage(t, o) \/ CancelOrder(t, o)
  \/ RequestRefund(t, o) \/ CheckQrCallBack(t, o) \/ CarArrives(t, o)
  \/ SetRouteOrderExpire(t, o)

JobStarts == UpdatePeakOrder(Job) \/ \E o \in Order : Dispatch(Job, o)

\* The next call of the handler thread t is running.
Continue(t) ==
  \/ SetPayKey(t) \/ IssueTrade(t) \/ EnterMonitor(t) \/ TradePaid(t)
  \/ TradeUnpaid(t) \/ SetRideKey(t) \/ SaveSerial(t) \/ ExecuteOrderExpire(t)
  \/ RoutingAnswers(t) \/ RoutingFails(t)
  \/ PageWrite(t) \/ CancelWrite(t) \/ ApplyRefund(t) \/ WxRefund(t)
  \/ WxRefundFails(t) \/ SaveRefundRow(t) \/ MarkRefunded(t)
  \/ ScanAppointments(t) \/ SysUpdate(t) \/ SysPhaseEnds(t)
  \/ \E o \in Order : SysRefund(t, o)
  \/ Board(t) \/ FinishRide(t) \/ AssignCar(t) \/ NightlyWrite(t)

Elsewhere ==
  \/ \E o \in Order : KeyExpires(o) \/ BecomeLate(o) \/ BecomeDue(o)
  \/ \E o \in Order, n \in 1 .. MaxTrade : UserPays(o, n)
  \/ \E e \in events : LoseEvent(e)
  \/ Midnight

Next ==
  \/ \E t \in Worker :
       \/ \E o \in Order : RequestStarts(t, o)
       \/ \E e \in events : SetOrderExpire(t, e)
       \/ SysCancalOrder(t)
  \/ JobStarts
  \/ \E t \in Thread : Continue(t) \/ Crash(t)
  \/ Elsewhere

Spec == Init /\ [][Next]_vars

-----------------------------------------------------------------------------
(* Properties.                                                             *)

Op == {"none", "buy", "prepay", "pay", "expirePay", "expireRide", "checkExp",
       "expireRoute", "page", "cancel", "refund", "sysRealtime", "sysAppointment", "scan",
       "arrive", "dispatch", "nightly"}
Pc == {"idle", "payKey", "issue", "enter", "query", "rideKey", "serial",
       "expire", "routing", "pageWrite", "cancelWrite", "applyRefund", "wxRefund",
       "refundRow", "markRefunded", "scanAgain", "sysUpdate", "sysRefund",
       "board", "finishRide", "assign", "nightlyWrite"}
TradeState == {"new", "failed", "open", "paid", "refunded"}

Task == [op : Op, pc : Pc, o : Order \cup {NoOrder}, n : 0 .. MaxTrade,
         copy : [Order -> Row \cup {NoRow}]]

\* Type invariant of the order component.
TypeOK ==
  /\ row \in [Order -> Row]
  /\ serial \in [Order -> 0 .. MaxCount]
  /\ refundRow \in [Order -> 0 .. MaxCount]
  /\ boarded \in [Order -> 0 .. MaxCount]
  /\ payKey \subseteq Order /\ rideKey \subseteq Order
  /\ events \subseteq {"&", "="} \X Order
  /\ trade \in [Order -> [1 .. MaxTrade -> TradeState]]
  /\ late \subseteq Order /\ due \subseteq Order /\ old \subseteq Order
  /\ task \in [Thread -> Task]
  /\ lock \in Thread \cup {NoThread}
  /\ faults \in 0 .. MaxFault

\* An order is only ever usable, ridden or completed once its payment is
\* booked: no handler, and no whole-row write of a copy loaded earlier, brings
\* an unpaid order into use.
PaidBeforeUse ==
  \A o \in Order : row[o].status \in {"toUse", "riding", "done"} => row[o].isPay

\* A booked payment is never forgotten, though four handlers write back whole
\* rows they loaded before another handler booked it.
PaymentNeverForgotten ==
  [][\A o \in Order : row[o].isPay => row'[o].isPay]_vars

\* However many requests ask for the result of one payment, its serial is saved
\* at most once, and only for a booked payment: the double check around the
\* monitor of queryWechatPayResult.
SerialOnce ==
  \A o \in Order : serial[o] <= 1 /\ (serial[o] = 1 => row[o].isPay)

Refunded(o) == {n \in 1 .. MaxTrade : trade[o][n] = "refunded"}

\* A refund row of an order that cost money stands for money WeChat paid back:
\* two refunds in flight, by the user and by the job, save one row.
RefundRowsAreBacked ==
  \A o \in Order \ Company : refundRow[o] <= Cardinality(Refunded(o))

\* An order that shows the user's own cancellation with a refund (isCancel "1",
\* isRefund "2") has really been refunded, whatever stale copies other handlers
\* wrote over it: sysCancalOrder's "2" is not backed in that way.
UserRefundIsReal ==
  \A o \in Order \ Company :
     row[o].isCancel = "1" /\ row[o].isRefund = "2" => Refunded(o) # {}

\* Seen through its money alone, the component implements PaymentLedger.
Ledger == INSTANCE PaymentLedger WITH
  Free      <- Company,
  Trade     <- 1 .. MaxTrade,
  collected <- [o \in Order |-> {n \in 1 .. MaxTrade : trade[o][n] \in {"paid", "refunded"}}],
  returned  <- [o \in Order |-> Refunded(o)],
  paid      <- {o \in Order : row[o].isPay},
  booked    <- {o \in Order : serial[o] > 0}

\* Every step of every handler, on stale rows too, settles, books or returns
\* money as the ledger allows, or leaves the books alone: no refund for an order
\* that does not count as paid, no payment booked without money behind it.
ImplementsLedger == Ledger!Spec

\* The threads run on, timers run out, a published event is delivered if it is
\* not lost, and the 02:15 job runs every night.  Users owe nothing.
Fairness ==
  /\ \A t \in Thread : WF_vars(Continue(t))
  /\ \A o \in Order : WF_vars(KeyExpires(o))
  /\ \A e \in {"&", "="} \X Order :
       SF_vars(e \in events /\ \E t \in Worker : SetOrderExpire(t, e))
  /\ SF_vars(UpdatePeakOrder(Job))

FairSpec == Spec /\ Fairness

\* An order whose payment timer was started does not stay unpaid for good,
\* unless a handler died or an event was lost.
UnpaidExpires ==
  \A o \in Order :
    row[o].status = "created" /\ o \in payKey
      ~> row[o].status # "created" \/ faults > 0

\* No ticket stays usable for ever, even if its ride timer was never set or its
\* event was lost: the nightly job is the backstop for off-peak orders as well.
TicketsRunOut ==
  \A o \in Order : row[o].status = "toUse" ~> row[o].status # "toUse"

-----------------------------------------------------------------------------
(* What comments of the code say, and the code does not do.                *)

\* checkQrCallBack "judges whether the code has been scanned or has expired": a
\* code lets its holder board once.
QrScannedOnce == \A o \in Order : boarded[o] <= 1

\* setOrderExpire cancels the order "if payment is not completed in time": the
\* payment timer never expires an order that has been paid.
PaymentTimerSparesPaid ==
  [][\A t \in Worker :
       ExecuteOrderExpire(t) /\ task[t].op = "expirePay"
         => ~row[task[t].o].isPay]_vars

\* updatePeakOrder "sets the day's peak orders to expired": it expires no other.
NightlyTouchesOnlyPeak ==
  [][NightlyWrite(Job) =>
       \A o \in Order \ Peak : row'[o].status = row[o].status]_vars
=============================================================================
