# Verification of the MAAS ride service

The repository (`src/src/maas/...`) is a Spring Boot system that sells bus
tickets to passengers, collects the fare through WeChat Pay, sends cars along
fixed ("peak") and computed ("off-peak") routes, and follows the passenger
until the ride is over.  This directory holds TLA+ modules that model it, the
TLC configurations that check them, and proofs checked by TLAPS.

Short names used below, all under `src/src/maas/data-service/src/main/java/com/yihexinda/dataservice/`:
*OAR* = `api/OrderApiResource.java`, *Scheduler* = `scheduler/Scheduler.java`,
*CarService* = `service/impl/TCarServiceImpl.java`.

## 1. Inventory

The passenger's requests enter **user-web**, the driver's and the car's enter
**buss-web**, the operator's enter **pc-web**.  All three are thin: they call
**data-service** over HTTP (Feign), which owns MySQL.  Redis holds sessions,
driver-car bindings and the two timers of an order; an expired key is published
by redis and comes back through user-web as a call of data-service.  Route
planning is an external HTTP service; payment and refund are WeChat's.

### 1.1 Components

| Component | State | Operations | Hard about it | What makes it correct |
|---|---|---|---|---|
| Order life cycle (OAR; purchase in user-web `TicketManageResource`) | `t_order`, `t_pay_serial`, `t_order_refunds`, keys `...&id` and `orderExp=id`, WeChat's trades | buy, loadPayPre, queryWechatPayResult, setOrderExpire, setExpOrder, setRouteOrderExpire, loadRefundExpirationTime, cancelOrder, applyRefund, sysCancalOrder, checkQrCallBack, updatePeakOrder | handlers interleave without effective transactions; whole rows read earlier are written back; lost timer events; WeChat may fail | usable only when paid, a payment is not forgotten, booked once, refunds backed by money, every ticket ends |
| Ticket purchase checks | counts of paid orders per departure | checkAppointment, checkExitsNotTravelPeak, buyTicket* | seats counted long before the sale counts | no departure is oversold, one unused ticket per user (the code ensures either only for sales that do not meet) |
| Off-peak dispatch and planning (Scheduler, callCancelMaasCommon) | `t_route`: `midway_station`, `curr_station`, `all_position` | maasCommonScheduled, maasRealCommonScheduled, parseCommonData | route read before an HTTP call, overwritten after it, while the car moves | `curr_station` indexes the list it was computed for; no rider aboard loses the own stop; one open route |
| Arrival and stop times (CarService.carGetDown) | static `carClients`, `carTimes`, `carIds`; `stop_order_times`, `overdue_order_times` | one per position report | all cars share unsynchronized statics | a stop is left once, riders get out at their stop |
| Peak route progress (`MyRouteApiResource`, `RouteApiResource`, `DriverApiResource`) | `t_route_peak` stations, route status, boarded count | getRouteInfo, confirmArrive, resetRoute | two monitors, lost updates of the boarded count, three resets a day | one open route per driver, boardings counted, stations recorded once, a route ends without riders |
| Driver-car binding (`DriverCarBindApiResource`) | `t_driver_car_bind`, two redis keys a day | bind, unbind, query | check then act; cache entries outlive a binding | one driver per car, cache agrees with the table |
| Line and driver assignment (pc-web `RoutePeakResource`, `distribution`) | line-driver and line-car tables | distribution | delete and reinsert in separate commits | a failure leaves the old assignment |
| Navigation push (buss-web netty and kafka) | channel per car | connect, disconnect, push | message while reconnecting | the last route reaches the car |
| Ticket gate socket (user-web netty) | channel | forward a scan | connection loss | a scan is forwarded once |
| Accounts and sessions | redis session, code | login, code check | none beyond expiry | |
| Back office (pc-web) | single tables | create, read, update, list | none | |
| Prototype order services (platform-web, node-web) | none here | calls of services that are not in the repository | | |
| Authentication, gateway, discovery, configuration | Spring wiring | | | |
| core-lib, data-lib | entities, helpers, constants | | shared static SimpleDateFormat | |
| Web assets | | vendored scripts, templates | | |

Their status (modelled, partly, not modelled, and why) is in `PROJECT.json`
under `components`; the places where the code is hard to test are under
`hazards`, each with its line and the properties that cover it.

### 1.2 How the order component meets the others

* user-web saves the order by Feign, then sets the 180 s redis key itself
  (`TicketManageResource` 281); data-service sets the ride key when it books a
  payment (OAR 728).
* `MyKeyExpirationEventMessageListener` of user-web turns an expired key into a
  call of `setOrderExpire`, type 0 for `&`, type 1 for `=`.  Redis publishes
  once, to whoever listens: no acknowledgement, no replay.
* user-web's `UserScheduler` (30-33) calls `sysCancalOrder` every 30 s.  The
  call may outlive its Feign timeout, so two may overlap.
* data-service's own scheduled methods share Spring's single scheduler thread.
* WeChat's notification URL is not handled anywhere in the repository: a payment
  is booked only when the user's client polls `queryWechatPayResult`.

## 2. Plan

| Step | Module | Content | State |
|---|---|---|---|
| 1 | `OrderService` | order life cycle, all handlers that change an order | done |
| 2 | `PaymentLedger`, `OrderLedgerProofs` | what payment promises; `OrderService` implements it | done, checked and proved |
| 3 | `OrderServiceProofs` | types, `PaidBeforeUse`, `PaymentNeverForgotten` | done |
| 4 | `TicketSales`, `TicketSalesProofs` | both purchase checks against sales, payments and stale copies | done, invariants proved |
| 5 | `OffpeakRoute`, `OffpeakRouteProofs` | one car's routes: reports, merges, cancellations, dispatch; the shared statics | done, safety proved |
| 6 | `PeakRoute`, `PeakRouteProofs` | one driver's routes under two monitors, progress, boarded counts | done, invariants proved |
| 7 | `DriverCarBind`, `DriverCarBindProofs` | binding against its cache | done, invariants proved |
| 8 | `OrderSerialProofs` | `SerialOnce` | done |
| 9 | `OrderRefundProofs` | `RefundRowsAreBacked`, `UserRefundIsReal` | done |
| 10 | `NavigationPush` | contexts and messages; nothing is acknowledged, so little can be promised | later |

The components meet in `t_order`.  `OrderService` has all of its columns and all
of its handlers; the other modules keep of it only the columns they read and
write, with every step that changes these (`Board`, `Cancel`, `Leave` and so on),
so that each can be explored with several orders, cars or reports.

## 3. OrderService

### 3.1 State

| Variable | Code |
|---|---|
| `row` | `t_order`: `status` 0, 1, 2, 3, 4 are `created`, `toUse`, `riding`, `done`, `expired`; `none` is no row; `isPay`, `isRefund`, `isCancel`, `tradeNo`; `car` is "`car_id` is not null" |
| `serial`, `refundRow` | number of rows of `t_pay_serial`, `t_order_refunds` per order |
| `payKey`, `rideKey`, `events` | the redis timers, and expired-key messages on their way |
| `trade` | WeChat's view of each trade number: unused, failed, open, paid, refunded |
| `late`, `due`, `old` | what the clock says of an order: refund window closed; `sysCancalOrder` may give up on it; created before the last midnight |
| `task` | what each thread is doing: handler, next call, order, trade number read, rows loaded |
| `lock` | the monitor `synchronized (this)` of `queryWechatPayResult`, in one JVM |
| `boarded` | history: accepted scans per order |
| `faults` | crashes and lost events so far, bounded by `MaxFault` |

### 3.2 Steps

One step is one call to MySQL, redis or WeChat, with the decisions up to the
next one.  That granularity is the code's: `@Transactional` stands on
package-private handlers, where Spring's proxy does not see it, and where a
transaction exists it reads under READ COMMITTED without locks.  The exception
is the 02:15 job, whose batch write is one statement list in one transaction.

Handlers that load an entity, set a field and call `updateById` write back the
*whole* row (MyBatis-Plus skips null columns only).  So `task[t].copy` keeps the
row and `PageWrite`, `CancelWrite`, `NightlyWrite` write it back through
`Saved`.  Handlers that write by a fresh entity holding only the id and the
changed columns (`executeOrderExpire`, `checkQrCallBack`, `sysCancalOrder`'s
batch) change those columns only.

| Handler | Actions |
|---|---|
| buyTicket, buyTicketByCompany | `BuyTicket`, `SetPayKey`, and for a free company order `SetRideKey`, `SaveSerial` |
| loadPayPre | `LoadPayPre`, `IssueTrade` |
| queryWechatPayResult | `QueryPay`, `EnterMonitor`, `TradePaid` or `TradeUnpaid`, `SetRideKey`, `SaveSerial` |
| setOrderExpire, setExpOrder, executeOrderExpire | `SetOrderExpire`, `SetExpOrder`, `ExecuteOrderExpire` |
| setRouteOrderExpire | `SetRouteOrderExpire`, `RoutingAnswers`, `RoutingFails` |
| loadRefundExpirationTime | `RefundPage`, `PageWrite` |
| cancelOrder | `CancelOrder`, (applyRefund's steps), `CancelWrite` |
| applyRefund, createRefundInfo | `RequestRefund`, `ApplyRefund`, `WxRefund` or `WxRefundFails`, `SaveRefundRow`, `MarkRefunded` |
| sysCancalOrder | `SysCancalOrder`, `SysUpdate`, `SysRefund` and a refund for each order, `SysPhaseEnds`, `ScanAppointments` |
| checkQrCallBack | `CheckQrCallBack`, `Board` |
| carGetDown (an order's part) | `CarArrives`, `FinishRide` |
| maasRealCommonScheduled, maasCommonScheduled (an order's part) | `Dispatch`, `AssignCar` |
| updatePeakOrder | `UpdatePeakOrder`, `NightlyWrite` |
| outside | `UserPays`, `KeyExpires`, `LoseEvent`, `BecomeLate`, `BecomeDue`, `Midnight`, `Crash` |

### 3.3 What is abstracted

* Time is three sets.  `late` is the refund window of `cancelOrder`: three
  minutes after a real-time order's last update (so a payment or the assignment
  of a car opens it again), ten minutes before an appointment.  `due` is the
  moment from which the 30 s job may give an order up.  A peak order's window is
  the day it was made, that is `old`.
* `exp_date` may be past when the ride timer is set; redis then drops the key
  and publishes nothing.  `SetRideKey` has both outcomes when `MayBePast`.
* Trade number 0 is the number given at the sale, unknown to WeChat.  Two orders
  never get the same trade number in the model; in the code they may (see
  `hazards`).
* `getObj` of MyBatis-Plus 3.0.6 is taken to return what its callers use.
* An order is for one user; `CancelledToday` counts all of `Order`.
* `setRouteOrderExpire` handles a list of orders; the model handles one at a
  time, which allows more interleavings.
* `Dispatch` has no test of the payment date, so it may start where the code
  would not.
* A cancellation ends with `callCancelMaasCommon`, whose answer may give other,
  waiting orders a car (OAR `parseCommonData` 1356-1404 writes their `car_id`,
  `route_id`, `driver_id` and `update_date`).  To such an order that is what the
  job's `Dispatch` and `AssignCar` do, which may happen at any time; `CancelWrite`
  does not repeat it.  What it does to a route is in `OffpeakRoute`.

### 3.4 Left out of this component

`/updateOrder` (it writes whatever entity the caller sends), the order detail
page (it writes only `ride_end_date`), the replies of the routing service (they
change routes: `OffpeakRoute`), `updateOrderStatus`, `carGetDown1` and
`carGetDownCopy` (nothing calls them).  `resetRoute` writes no order status.

## 4. PaymentLedger

Four variables and four actions: money is collected, an order counts as paid,
its payment is booked, money is returned.  It says that an order is paid only
with money behind it or because it is free, for ever; that its payment is
booked at most once; and that money goes back once per collected trade, only
for an order that counts as paid.  `OrderService` implements it with `paid` =
orders whose row says `isPay`, `booked` = orders with a serial, `collected` and
`returned` = paid and refunded trades at WeChat.  TLC checks that on one order,
and `OrderLedgerProofs` proves it for any number of orders and threads.

## 5. TicketSales

What two checks in front of a sale promise, when the order counts in them only
once it is paid.

| Code | Actions |
|---|---|
| checkAppointment | `CheckAppointment`: ten minutes' notice, then seats (`SeatsLeft`; the limit itself is never sold, `count + n < total`) |
| checkExitsNotTravelPeak, with the test of the number of tickets in front of it | `CheckExitsNotTravelPeak` |
| addOrder | `AddOrder` |
| queryWechatPayResult | `BookPayment`, whatever the order's status is by then |
| loadRefundExpirationTime, checkQrCallBack: load, then write back | `Load`, `WriteBack` |
| everything that ends an order | `Leave` |
| clock | `SlotCloses`, `Midnight` |

The code promises neither limit to sales that overlap, so the history variable
`crossed` records which did.  A check of a sale meets every other order it
should have counted and could not: one between its check and its save, one saved
but not paid (a payment revives an expired order too), one whose copy a refund
page or a scan holds.  All others are held to `LoneSaleKeepsLimit` and
`LoneSaleIsOnlyTicket`.  `Seats` are naturals; the code also lets a negative
number pass (see `hazards`).  `Booked` counts tickets as pairs of an order and a
number, which is the sum of `passengers_num` over the orders that count, and can
be reasoned about as a set.

## 6. OffpeakRoute

### 6.1 State and steps

One car.  `route` is `t_route_offpeak`: `midway`, `passed` = `curr_station` + 1,
`ahead` = the length of `all_position`, `state` with 1 (ended) and 2 (cancelled)
both `closed`.  A new route's `curr_station` is -1, which the scheduler writes
and the cancellation leaves to the table's default; the repository holds no
schema, so that default is assumed to be -1 as well.  `rider` holds the columns
of `t_order` that matter, `rows` the stations in `t_route_station`.  `client`
and `unable` are the car's part of the statics `carClients` and `carIds`;
`stopKey`, `startKey`, `overdue` are redis keys.

| Handler | Actions |
|---|---|
| checkOffPeakRoute (carGetDown) | `ReadReport`, then one of `EndRoute`, `Arrive`, `Throw`, `StartLeaving`, `TakeOrders` and `Leave`, `Drive` |
| setRouteOrderExpire | `OverdueExpires`; `LateUnanswered`, or `LateAsked` (the request, OAR 341) and `LateAnswered` (the late orders expire, 353); then `LateDropped`, or `ReadRow` (377-386) and `MergeWrite` |
| cancelOrder, callCancelMaasCommon | `Cancel`, then `CancelUnasked`, `CancelDropped`, or `CancelAsked` (the request, OAR 929) and parseCommonData |
| the two dispatch jobs | `Dispatch` (the request, Scheduler 203) and parseCommonData |
| parseCommonData (Scheduler's and OAR's) | `ReadPlan` (the row is read: OAR 1166, Scheduler 366), then `SaveRoute`, `Unsupported` or `Replan` |
| checkQrCallBack | `Scan` (1719), `Board` (1781), `Look` (1785), `Record` (1804) |
| finishRoute, resetRoute | `FinishRoute` |

A position report runs in a transaction, so its writes are one step at its
commit; statics and redis keys are written in the same step, except in
`TakeOrders`/`Leave`, between which the code calls the routing service.  The
other handlers ask the routing service, read the route after it has answered,
compute, and write it; arrivals, boardings and other handlers come between any
two of these.  A scan is four calls without a transaction, since
`checkQrCallBack` is package-private: what it writes at 1781 it writes by id,
whatever has become of the order since 1719.  The code of one rider is in one
request at a time; two are `qr_twice`.

`Unsupported` is two failures of the code: the job's `parseCommonData` compares
an `all_position` it did not select (Scheduler 544), and OAR's appends to a
`subList` of `Arrays.asList`, which works only where a list of its own is made,
at `curr_station` 0.

### 6.2 The routing service

It is outside the repository.  `Plans` and `Fits` assume of its answer: no
station twice; the current stop, if named, first; everybody aboard is dropped
and everybody waiting for this car is fetched and dropped; no other stop.  It
may also not answer, answer nothing, or leave the car out.  These assumptions
come from how the code uses the answer: it looks for the current stop and keeps
what follows.

They are assumptions about the moment of the *request*: `Fits` is evaluated in
`LateAsked` and `Ask`, on the row, the riders aboard and the riders waiting as
they are when the service is asked, and nothing is assumed of the moment when
the row is read, several steps later.  By then the car may have arrived at its
next stop, a rider may have boarded, another handler may have planned.  The code
does not notice: it looks in the plan for the stop the car is at *now* and drops
what comes before it (OAR 411-421), and with it possibly the stop of somebody
aboard.  A request is a snapshot: the queries it is made of count as one moment.

### 6.3 What is claimed

All handlers read the row, and write it later without looking again.  So the
claims end with the first write over a row that another handler has read; that is
the history variable `overtaken`, which never falls back.  Two more histories
narrow `RidersAreServed` alone:

* `outdated`, the routes to which a plan was written that was made for another
  row, or for fewer riders, than the row it was read with (`Outdated` compares
  what the task asked about with what it reads).  No copy of a row is held
  meanwhile, so this is not `overtaken`; an arrival during the call is enough.
* `astray`, the riders who boarded as nobody planned: the car was neither at
  their station nor on the way to it, which 1747-1752 does not ask, or the order
  was expired or cancelled between the scan's read and its write, which makes it
  riding again although the plan has forgotten it.

In both cases the code may drop the rider's stop; no comment, document or test of
the repository promises the contrary, so they are excused here and not reported
as violations.

Until a handler is overtaken the claims hold through every merge, cancellation
and dispatch: passed stops stay where `curr_station` points (`NoStopSkipped`),
nobody who boarded as planned loses the own stop (`RidersAreServed`), the shared list of busy cars pairs up
(`StopListMatches`), one route is open (`OneOpenRoute`), and a closed route
stays closed (`ClosedStaysClosed`).  `TypeOK` is claimed until then, too: after
an overtaken merge `curr_station` can point behind its list.

Reports that overlap are not `overtaken` by each other as long as the route is
open, none is leaving the stop, and the row that the later one writes back is at
most one arrival old: it then repeats that arrival, which changes nothing that
is claimed.  A row that is two arrivals old moves the car back, and a third
overlapping report can then pass a rider's stop unserved.  Three stations are too
few to see that; the proof of `RidersAreServed` failed on it, and TLC finds it
with four.

## 7. PeakRoute

One driver and one car on a line of `N` stations.  `route` is the state of
`t_route_peak`, `rows` the station rows by creation, each with its boarded count
`on_num`.

| Handler | Actions |
|---|---|
| getRouteInfo | `Start`, `Enter`, `Save` |
| carGetDown, peak part | `BeginOn`, `ReadRow`, then `Observe` and `Write`, or at the terminal `Close`, `Look`, `Enter`, `Save`, `Commit` |
| confirmArrive | `BeginOn`, `ReadRow`, then `ConfirmNext` and `Write`, or at the terminal `CloseNow`, `LeaveAll`, `Look`, `Enter`, `Save` |
| checkQrCallBack, peak part | `Scan` (the order and the open route are read, 1719-1767), `Board` (the order is written, 1781), `ReadRow` (1785), `Count` (1795 or 1804) |
| restart of the process | `Crash`: every task ends where it is, reports are rolled back |
| finishRoute, resetRoute | `FinishRoute`, `ResetRoute` |
| clock | `Shut`: the end of the rush hour for starts, 9:40 and 21:50 for renewals |

Facts of the code the model keeps, worth knowing when reading it:

* Two monitors guard the opening of a route, `MyRouteApiResource`'s and
  `TCarServiceImpl`'s, and a report commits after it left its own (`crossed`).
* The line is closed by a copy of its first station with the id times 100
  (`Home`).  The search for the nearest station skips the first one in favour of
  that copy, so a car that stands at its first station is taken to be at the
  terminal.  A report that finds `Home` recorded last deletes that row, ends the
  route and renews it.
* The app's list of stations does not hold the copy or stations of another type
  (`Anchor`); after one of these `confirmArrive` records rows with a null
  station (`NoStop`).
* With two open routes a query for the one throws or returns either.
* A scan is not a transaction (`checkQrCallBack` is package-private): the order
  is riding before the station's row is read, and that row is read before its
  count is written.  A task acts on the row as it read it (`row`, `st`, `on`),
  also when another report has deleted that row since.
* A ticket is for one passenger here.  The code counts `passengers_num` when it
  adds a row and one when it finds a row; for larger parties its counts are not
  the number of passengers, and the model says nothing of them.
* One scan per ticket runs at a time; two are `qr_twice`.

`OneOpenRoute` is claimed as long as no renewal met another opening, where a
renewal of the app begins when it closes the route, before it completes the
riders (`leave`): a start in between finds no open route, and both open one.
Three routes are the least that show it.  The other claims are narrowed as well:
`EndEmptiesRoute` except for riders scanned while the route ended (`late`);
`BoardingsCounted` and `RecordedOnce` for routes whose rows no two tasks read at
once (`mixed`), though the counts never exceed the boardings even then.

`BoardingsCounted` is not that counts and boardings agree: a rider is aboard
before being counted, and for good if the process dies in between.  It is that
nothing else comes between the two: counts, riders whose scan has written the
order and not yet the count, and riders whose scan a crash ended there (`lost`)
add up to the riders scanned on the route.  A report that deletes the terminal's
row, overlapping starts, renewals and confirmations lose none.

Much of what happens between overlapping requests is thus excused by a history
variable (`crossed`, `mixed`, `late`; `overtaken`, `outdated`, `astray` in 6.3;
`crossed` in 5, `disorder` in 8), because the code has no answer to it.  A claim
with such an excuse says how far the code's own checks reach, not that the race
is harmless; `hazards` names the excuse at each race it belongs to.

## 8. DriverCarBind

`row` is `t_driver_car_bind`, `driverOf` and `carOf` the two redis keys of the
day.  Each database or redis call is a step: add is `Bind`, `ListFormer`,
`FreeFormer`, `SaveRow`, `SetCarKey`, `SetDriverKey`; update is `Unbind`,
`FreeRow`, `ReadKey`, `DropCarKey`, `DropDriverKey`; driverLogout is
`DriverLogout` and the same three; loginOutDriver, the one handler in an
effective transaction, is `LoginOut`, the two drops, `CommitRow`.  `addDriver`
and `updateDriver` write the table only; `UpdateStatus` is the 23:59:59 job.  A
key carries the date its handler computed, so a handler that crosses midnight
writes keys nobody reads: that is `today` in its task.

Two requests that meet over a driver or a car (`disorder`, and addDriver, which
checks nothing) can bind a car twice and leave the cache wrong.  Without that,
`BoundOnce` and `BoundIsCached` hold.  The converse of `BoundIsCached` does not:
a driver who takes another car leaves the former car's key behind, and the
midnight job drops no key.

`resetRoute` also means to free bindings (`DriverApiResource` 505-541), but the
query in front of it, `in("line_id")` without values, cannot succeed; it is not
an action.

## 9. Runs

Times are for two TLC workers.

| Run | Instance | Shows |
|---|---|---|
| `order_races` | 1 real-time order, 2 request threads and the job, all handlers, 1 fault; 3.0 M states, 80 s | `TypeOK`, `PaidBeforeUse`, `UserRefundIsReal`, `PaymentNeverForgotten` |
| `order_money` | the same with 2 trade numbers, payment and refund handlers only, 1 fault; 0.65 M states, 23 s | `SerialOnce`, `RefundRowsAreBacked`, `ImplementsLedger` |
| `order_batches` | two appointments, one of them free, 2 request threads and the job; 1.2 M states, 30 s | `UserRefundIsReal`, `PaymentNeverForgotten` when one handler works through several orders while others race it |
| `order_liveness` | 1 order, 1 request thread and the job, 1 fault, fair; 0.11 M states | `UnpaidExpires`, `TicketsRunOut` |
| `sales` | 4 purchases of 2 users, one of them a company's, one of two seats, one in the rush hour, 1 departure of 4 seats; 0.97 M states, 16 s | `TypeOK`, `LoneSaleKeepsLimit`, `LoneSaleIsOnlyTicket` |
| `offpeak_route` | 3 stations, 2 riders, 2 routes, 2 reports, 1 request thread, the job; 2.3 M states, 95 s | `TypeOK` and the five properties of 6.3 |
| `driver_bind` | 2 drivers, 2 cars, 2 threads, 4 rows; 0.10 M states, 4 s | `TypeOK`, `BoundOnce`, `BoundIsCached` |
| `peak_route` | 2 stations, 3 routes, 2 reports, 2 requests, 2 riders, crashes; 1.2 M states, 70 s | `TypeOK`, `OneOpenRoute`, `EndEmptiesRoute`, `BoardingsCounted`, `RecordedOnce` |
| `qr_twice` | 1 peak order, 2 threads | violated: `QrScannedOnce` |
| `paid_expired` | 1 order, 2 threads | violated: `PaymentTimerSparesPaid` |
| `nightly_scope` | 1 off-peak order | violated: `NightlyTouchesOnlyPeak` |
| `offpeak_stall` | 1 route, 2 riders, 3 stations, fair | violated: `RouteEnds` |

### 9.1 Bounds

*Orders.*  The hazards are races of two handlers and a batch on one row, so two
request threads and the job are what it takes; symmetry is over the request
threads, and only in runs without liveness.  The rows of different orders meet
only in the batch handlers, hence two orders there.  Two trade numbers are the
least at which the poll can ask about the wrong one (`MaxTrade`; `NumbersLeft`
keeps a number for each request under way, so `IssueTrade` never waits for the
bound).  `MaxCount` = 2 tells "twice" from "once", as the counters saturate.
`CancelLimit` is the code's 5 and is not reached by one or two orders: the
refusal of the refund page at the limit is modelled and not exercised.
`MaxFault` bounds crashes and lost events together.  `Ops` names the handlers
that may start; a timer whose handler is not among them does not run out.

*Sales.*  Three purchases of one user and one of another, around one departure,
are enough to sell a full departure, to sell the rush hour and an appointment to
one user, and to let three sales overlap.

*Off-peak.*  Three stations are the least at which `all_position` is cut twice;
two riders with a common station make a stop that one leaves and the other
enters.  `MaxStops` = 3: a merge that would make a longer list does not happen.  `MaxStops`
is at least the number of stations, as a plan may name each once.  A row two
arrivals old needs four stations; that instance
was checked when the proof found it, on a version of the module with coarser
steps; it takes too long to be a run, and is covered by the theorems, which hold
for any number of stations.
`CONSTRAINT Small` stops exploring once `overtaken`, where nothing is claimed;
keeps two reports, requests and scans under way at a time, the least at which one
can come between two calls of another; and lets a second route be saved only when
nothing is pending about the first and nobody was excused on it.

*Peak.* Two stations, and the copy of the first, are a whole round. Three routes
let one be open when two more are opened.  `CONSTRAINT Small` explores at most
two requests under way at once, stations on the first route only, a third route
only while nobody has boarded, one station at most once the rush hour is over
(enough to end at the terminal and not renew), and, once a history flag has
excused a claim or a crash has lost a count, fewer of the states after it: these
are many and say less. A crash may come at any step. `Anchor` is empty,
since a line of two stations has none. `MaxRow` = 3, so `Write` and `Count` that
would record a fourth station do not happen.

*Binding.*  Four rows let both drivers bind, change the car, and bind again.
`CONSTRAINT Claimed` stops exploring once `disorder`, where nothing is claimed.

Symmetry in these runs is over routes, reports, requests, drivers and cars,
which no property and no `CHOOSE` of theirs tells apart (`NewId` picks a row
number, which is not symmetric).

### 9.2 What the four violations show

* `qr_twice`: `checkQrCallBack` reads the status, then writes it on the id alone.
  Two scans of one code that both read before either writes are both accepted.
* `paid_expired`: the timer's handler reads status 0; the payment is booked; the
  handler expires the order.  The passenger has paid, has no ticket, and
  `applyRefund` refuses the order because it is no longer unused.
* `nightly_scope`: the condition on `route_type` in the 02:15 job is commented
  out, so it expires off-peak tickets too, appointments of later days included.
  `TicketsRunOut` relies on exactly this: the nightly job is what ends a ticket
  whose ride timer was lost.
* `offpeak_stall`: at its second arrival a car cuts `curr_station` + 1 stops off
  an `all_position` from which earlier arrivals were cut already.  On a route of
  three stops the third arrival asks for more than is left, `subList` throws,
  and the transaction rolls back, again at every later report: the route ends
  only by the driver's hand or at 02:00.

### 9.3 Fairness

`OrderService`: weak fairness for each thread's next call (threads are scheduled
by the JVM, and every call returns or fails), weak fairness for a timer running
out (redis), and strong fairness for the delivery of an event that is not lost: a
request thread is free again and again, not continuously.  Strong fairness for
the 02:15 job for the same reason: it runs every night, on a thread that is
sometimes busy.  Users and drivers are under no fairness: they may never pay,
scan or arrive.  `UnpaidExpires` therefore excuses runs with a fault,
`TicketsRunOut` does not.  `UnpaidExpires` starts from an order whose timer was
set; an order whose process died before that is never expired, which the code
has no answer to.

`OffpeakRoute`: handlers that started go on (weak); the car reports again and
again, and as long as it has a next stop some of its reports come from there
(strong, for `Arrive` or the exception in its place).  Without that a driver who
stands still would refute `RouteEnds`; with it the counterexample is the code's.

## 10. Proofs

| Module | Theorem | States |
|---|---|---|
| `OrderServiceProofs` | `Invariance` | `Spec => []IInv` |
| | `TypeCorrect` | `Spec => []TypeOK` |
| | `UseRequiresPayment` | `Spec => []PaidBeforeUse` |
| | `PaymentStays` | `Spec => PaymentNeverForgotten` |
| `OrderSerialProofs` | `Booking` | `Spec => []BInv` |
| | `SerialSavedOnce` | `Spec => []SerialOnce` |
| `OrderRefundProofs` | `Refunding` | `Spec => []RInv` |
| | `RefundRowsBacked` | `Spec => []RefundRowsAreBacked` |
| | `UserRefundsReal` | `Spec => []UserRefundIsReal` |
| `OrderLedgerProofs` | `RefundsOfPaid` | `Spec => []AsksPaid` |
| | `OrdersImplementLedger` | `Spec => ImplementsLedger` |
| `TicketSalesProofs` | `Invariance` | `Spec => []IInv` |
| | `TypeCorrect` | `Spec => []TypeOK` |
| | `LoneTicket` | `Spec => []LoneSaleIsOnlyTicket` |
| | `LoneSale` | `Spec => LoneSaleKeepsLimit` |
| `DriverCarBindProofs` | `Invariance` | `Spec => []IInv` |
| | `TypeCorrect` | `Spec => []TypeOK` |
| | `BindsOnce` | `Spec => []BoundOnce` |
| | `KeysAreRight` | `Spec => []KInv` |
| | `BindingsAreCached` | `Spec => []BoundIsCached` |
| `PeakRouteProofs` | `Invariance` | `Spec => []IInv` |
| | `TypeCorrect` | `Spec => []TypeOK` |
| | `OneRoute` | `Spec => []OneOpenRoute` |
| | `EndedRouteEmpty` | `Spec => []EndEmptiesRoute` |
| | `CountsRight` | `Spec => []BoardingsCounted` |
| | `OnceRecorded` | `Spec => []RecordedOnce` |
| | `RoutesStayClosed` | `Spec => [][ClosedForGood]_vars` |
| `OffpeakRouteProofs` | `Invariance` | `Spec => []IInv` |
| | `TypeCorrect` | `Spec => []TypeOK` |
| | `StopsRecorded` | `Spec => []NoStopSkipped` |
| | `RidersServed` | `Spec => []RidersAreServed` |
| | `SignalsPair` | `Spec => []StopListMatches` |
| | `OneRoute` | `Spec => []OneOpenRoute` |
| | `RoutesStayClosed` | `Spec => ClosedStaysClosed` |

They hold for any values of the constants under these assumptions, which TLC
evaluates in the runs: `KindsAssumption` (appointments are off-peak, orders are
finite), `BoundsAssumption` (the bounds are naturals), `NamesAssumption` (the
job is no request thread, the null values are none of the real ones),
`SalesAssumption` (orders are finite, each has a user and a number of seats, and
no order is of the rush hour and of a departure), `BindAssumption`,
`PeakAssumption` (two stations at least, finitely many riders, reports, requests
and scans are different threads) and `RouteAssumption` (nobody travels from a
station to itself; stations are finite and no more than `MaxStops`).  A finite
set of orders, riders or stations of any size is all that a table can hold.

*Use requires payment.*  `PaidBeforeUse` is not inductive: a handler writes back
a row it loaded many steps ago, and if that copy were unpaid the write would
make a used order unpaid.  What saves the code is that every handler that keeps
a whole row loaded it with status `toUse`, hence paid, and that nothing ever
clears `isPay`.  `GoodTask` says so for each task: the copy it holds is of a
paid order, is itself paid, and a scan or an arrival under way is of a paid
order.  With `TypeOK`, and with "an order not in the table is not paid" for the
sale, this is inductive: `IInv`.  There is one lemma per action; `MoveStep`,
`GotoStep`, `BeginStep`, `FinishStep` and `WriteStep` prove once what the
actions share.  `PaymentStays` needs the same invariant, since a step keeps a
payment only if the copy it writes back is paid.

*One serial per payment.*  `BInv` adds to `IInv`: a thread that asks WeChat
holds the monitor and found its order unpaid (`AskOK`); a thread between the
booking and the serial is the only one for its order, which is paid and has no
serial yet (`BookOK`); an unpaid order has no serial.  `AskOK` survives the
steps of others because only a thread in the monitor books a payment, and a
company's order is paid from its sale on.  A crash between the two loses a
serial and never doubles one.

*Refunds.*  A refund row is saved one call after WeChat refunded the trade, so
the rows are not simply bounded by the refunds: `RowsOK` bounds them by the
refunds that no thread still has to record, and says that no two threads hold
the same one.  That holds because WeChat refunds a trade only once, whoever asks
for it; a crash in between leaves a refund without a row.  `FlagsOK` says that a
row marked as refunded is paid and not usable, and was really refunded if its
user cancelled it, and says the same of every copy in flight, which may be
written back much later.  A payment that revives a row cannot revive one that is
marked: it finds the row unpaid (`AskOK`), so `RInv` rests on `BInv`.

*The ledger.*  Each step of each handler is matched with a step of
`PaymentLedger` or leaves its four variables alone.  Two steps need more than
types.  A payment is booked by a thread that asked WeChat, inside the monitor
(`BInv`), so the ledger's order is collected and not booked yet.  A refund goes
back for an order that was found paid some calls earlier; `AsksPaid` says that it
still is, since no copy written back meanwhile is of an unpaid order.

*Sales.*  A check that passed must last until the order counts, several steps
later.  `Spare` says what a sale that met no other one keeps: nobody else is
buying for the departure, and what counts there, or may count again when a stale
page is written back, leaves room for its tickets.  `Lone` says that of two alike
orders that did not meet, only one can be, or become, an unused ticket of the
day.  Both are stable because whoever comes later and could spoil them finds the
order pending, and is recorded in `crossed`.

*One binding.*  Until handlers meet (`disorder`), the tasks under way serve
different drivers and touch different cars (`Apart`); a task about to save its
row finds no bound row of its driver or car (`Ready`).

*The keys of a binding.*  `BoundIsCached` says nothing of a driver who is being
served, so it is not inductive: a handler half way through has the row and not
the keys.  `KInv` says what each handler knows at each step (`KeysOK`), that it
leaves behind either the one row both keys name or none, and that a row of an
earlier day has no key (`RowKeys`).  A handler that gives a car back drops the
key of a car which it read from another key; that is harmless because nobody
else is bound to that car.

*Peak routes.*  A request that has closed or locked a route is the only one that
may open another (`Alone`), and who will open one sees none (`WillOpen`,
`Seen`); `Owners` says that a monitor has one owner, about to save, and `Unborn`
that a route saved and not committed is nobody else's.  `EndEmptiesRoute` needs
that a report about to end a route has listed everybody who rides on it and did
not come late (`EndedOK`).  The boarded counts are the hard part: a scan writes
back a count it read earlier, after the order was written and committed.  Counts
are therefore seen as marks, the pairs of a row and a number up to its count.
The marks in the table *and* those a scan has read (`AllMarks`) are never more
than the riders scanned and not `Uncounted` (`MarksBound`): what is written back
is one more than marks that were counted already, and its rider leaves
`Uncounted` by the same step.  Where no two tasks read the rows at once, what a
task read is still so (`Unmixed`), and the two are equal (`MarksExact`).  A crash
moves the riders it strands from "being counted" to `lost`, which leaves
`Uncounted` as it is, so the theorem holds across any number of crashes.

*Off-peak routes.*  All is about the list of stops from the current one on.  No
stop comes back in it, except right behind itself (`NoReturn`), which is what
two lists joined at a common stop look like.  Whoever waits has the destination
behind every stop to be fetched at (`Awaited`); whoever rides has it ahead and
is not there already (`Carried`).  These are `CourseOK`, and claimed of routes
that are not outdated and of riders who are not astray.  A plan is right for the
moment it was asked for, and that is all that is assumed: `AskOK` says what it
promises then, in terms of the row and the riders the task remembers, whatever
has happened since.  When the row is read the task learns whether they are still
the same; if they are, `PromiseOK` turns the promise into one about the row at
hand, and keeps it until the write, since whoever changes that row meanwhile
overtakes the copy; if not, the route becomes outdated with the write, and
nothing is left to show.  Riders may board between the read and the write: that
moves them from those to be fetched to those to be dropped, and the plan does
both.  `CopyOK` says that the row a plan is merged into is the row.  A report
writes back a row that is at most one arrival old (`ReportOK`).  The histories
only grow (`Grows`), so what was excused stays excused.  A merge, a new route
and a re-planned one all put a plan behind a passed part, and one lemma about
such lists (`Joins`) serves the three.  `RidersServed` takes from the routing
service what 6.2 says and no more.

*Only model-checked.*  `UnpaidExpires` and `TicketsRunOut`: they are liveness
under fairness, which is out of the prover's reach, as is `RouteEnds`, which TLC
refutes.  Every invariant and every action property of the passing runs is
proved.

## 11. Not modelled

See `components` in `PROJECT.json`.  In short:

* Navigation push and the gate's socket: messages to whichever channel is
  registered, without acknowledgement or retry; nothing is promised.
* Line and driver assignment: one request of the back office that deletes and
  inserts in separate commits; no other code reacts to what it leaves behind.
* Accounts, back office, wiring, authentication: reads and writes of single rows.
* platform-web and node-web call services that are not in the repository.
* Web assets: the repository's JavaScript (jQuery, layui, echarts, the vip-admin
  template) is vendored or page decoration, without state of this system.  All
  of the system's own logic is Java, and the modules map to Java only.

## 12. Running it

    tlc -workers 2 -config order_races.cfg MCOrder
    tlc -workers 2 -config sales.cfg MCSales
    tlc -workers 2 -config offpeak_route.cfg MCOffpeak
    tlc -workers 2 -config peak_route.cfg MCPeak
    tlc -workers 2 -config driver_bind.cfg MCBind
    tlapm OrderServiceProofs.tla
    tlapm OrderSerialProofs.tla
    tlapm OrderRefundProofs.tla
    tlapm OrderLedgerProofs.tla
    tlapm TicketSalesProofs.tla
    tlapm DriverCarBindProofs.tla
    tlapm PeakRouteProofs.tla
    tlapm OffpeakRouteProofs.tla
