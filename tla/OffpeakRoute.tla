---------------------------- MODULE OffpeakRoute ----------------------------
(***************************************************************************)
(* An off-peak route of one car: it is dispatched from the plan the        *)
(* external routing service returns, advances as the car reports its       *)
(* position (TCarServiceImpl.checkOffPeakRoute), and is planned anew when  *)
(* riders are late at a stop (setRouteOrderExpire) or cancel               *)
(* (callCancelMaasCommon).                                                 *)
(*                                                                         *)
(* Every one of these reads the row of the route, computes, and writes it  *)
(* back; a position report writes all of its columns.  A report runs in a  *)
(* transaction (carGetDown), so its writes to the database are one step,   *)
(* at its commit; the other handlers commit call by call.  A plan is asked *)
(* for before the row it goes into is read: the car may be elsewhere then. *)
(***************************************************************************)
EXTENDS Naturals, Sequences, SequencesExt, FiniteSets

CONSTANTS
  Station, Route,
  Rider,       \* off-peak orders, paid already
  From, To,    \* the stations of a rider
  Web, Gps,    \* threads of data-service for requests and for positions
  Job,         \* the one thread behind @Scheduled
  MaxStops,    \* bound on the stops of a route
  Ops,         \* the handlers that may start
  NoRoute

Thread == Web \cup Gps \cup {Job}

ASSUME RouteAssumption ==
  /\ From \in [Rider -> Station] /\ To \in [Rider -> Station]
  /\ \A p \in Rider : From[p] # To[p]
  /\ Job \notin Web \cup Gps /\ Web \cap Gps = {} /\ NoRoute \notin Route
  /\ IsFiniteSet(Station) /\ MaxStops \in Nat \ {0} /\ Cardinality(Station) <= MaxStops

VARIABLES
  route,      \* t_route_offpeak
  rider,      \* the columns of t_order that matter here
  rows,       \* t_route_station: stations recorded for a route
  client,     \* carClients: 0 driving, 1 at a stop, 2 leaving it
  unable,     \* how often carIds lists the car as taking no orders
  stopKey,    \* redis "stop_order_times": three minutes at a stop
  startKey,   \* redis "start_order_times": one minute to leave it
  overdue,    \* redis "overdue_order_times^route:station"
  task,       \* what each thread is doing
  scan,       \* what the request that scans a rider's code is doing
  overtaken,  \* history: a handler wrote over what another one had read
  outdated,   \* history: routes a plan was written to that was made for
              \* another row or for fewer riders
  astray      \* history: riders that boarded as nobody planned

db    == <<route, rider, rows>>
board == <<client, unable>>
keys  == <<stopKey, startKey, overdue>>
rides == <<scan, astray>>
past  == <<overtaken, outdated>>
vars  == <<db, board, keys, task, rides, past>>

-----------------------------------------------------------------------------
(* Routes.  passed is curr_station + 1: the stops the car has been at.     *)
(* ahead is the length of all_position, the stops still to be navigated.   *)
(* route_state "1" (ended) and "2" (cancelled) are both closed, and the    *)
(* stops of a closed route are forgotten: nobody reads them any more to    *)
(* any effect on an open one.                                              *)

Stops == UNION {[1 .. n -> Station] : n \in 0 .. MaxStops}
RouteRow == [state : {"none", "open", "closed"},
             midway : Stops, passed : 0 .. MaxStops, ahead : 0 .. MaxStops]
NoRow == [state |-> "none", midway |-> <<>>, passed |-> 0, ahead |-> 0]

Fresh(plan) ==
  [state |-> "open", midway |-> plan, passed |-> 0, ahead |-> Len(plan)]
Shut == [NoRow EXCEPT !.state = "closed"]

\* The columns that re-planning selects and uses: the stops and the position.
Selected(r) ==
  IF r = NoRoute THEN NoRow
  ELSE [NoRow EXCEPT !.midway = route[r].midway, !.passed = route[r].passed]

OpenRoutes == {r \in Route : route[r].state = "open"}
Closed(r)  == route[r].state = "closed"

Range1(s, from) == {s[i] : i \in from .. Len(s)}
Ahead(r) == Range1(route[r].midway, route[r].passed + 1)
Here(row) == IF row.passed = 0 THEN {} ELSE {row.midway[row.passed]}

Aboard(r)  == {p \in Rider : rider[p] = [status |-> "riding", route |-> r]}
Waiting(r) == {p \in Rider : rider[p] = [status |-> "waiting", route |-> r]}

SetStatus(S, s) ==
  [p \in Rider |-> IF p \in S THEN [rider[p] EXCEPT !.status = s] ELSE rider[p]]
Assign(S, r) ==
  [p \in Rider |-> IF p \in S THEN [rider[p] EXCEPT !.route = r] ELSE rider[p]]

-----------------------------------------------------------------------------
(* Tasks.  A task remembers the route it works on, the row it read, the    *)
(* plan the routing service answered, and the riders it is to expire or to *)
(* assign; and, as history, the riders the plan serves, the row of the     *)
(* time it was asked for, and then whether that was an old one.            *)

Idle == [pc |-> "idle", r |-> NoRoute, row |-> NoRow, plan |-> <<>>, who |-> {},
         served |-> {}, old |-> FALSE]
At(t, pc) == task[t].pc = pc
Begin(t, op, r, row, who) ==
  /\ At(t, "idle") /\ op \in Ops
  /\ task' = [task EXCEPT ![t] =
       [Idle EXCEPT !.pc = op, !.r = r, !.row = row, !.who = who]]
Finish(t) == task' = [task EXCEPT ![t] = Idle]
Unscanned == [pc |-> "no", r |-> NoRoute]

\* History: others that hold a copy of route r while t writes it ...
Holders(t, r) ==
  {u \in Thread \ {t} : task[u].pc \in {"report", "merge", "replan"} /\ task[u].r = r}
Overwrite(t, r) == overtaken' = (overtaken \/ Holders(t, r) # {})

\* ... and whether r, as it is read now, is still what t asked about.
Outdated(t, r) ==
  /\ r # NoRoute
  /\ \/ task[t].r # r \/ task[t].row # Selected(r)
     \/ ~((Aboard(r) \cup Waiting(r)) \ astray \subseteq task[t].served)
Merging(t, pc, r) ==
  [task[t] EXCEPT !.pc = pc, !.r = r, !.row = Selected(r),
                  !.served = {}, !.old = Outdated(t, r)]
Outdate(t, r) == outdated' = IF task[t].old THEN outdated \cup {r} ELSE outdated

-----------------------------------------------------------------------------
(* The routing service, outside the repository: a plan visits no station   *)
(* twice, begins with the current stop if it names it, drops everybody     *)
(* aboard, fetches and drops those who wait, and goes nowhere else.        *)

Plans == {s \in UNION {[1 .. n -> Station] : n \in 1 .. Cardinality(Station)} :
            IsInjective(s)}

Fetches(plan, p) ==
  \E i, j \in DOMAIN plan : i < j /\ plan[i] = From[p] /\ plan[j] = To[p]
Drops(plan, p) == \E j \in DOMAIN plan : plan[j] = To[p]

\* Riders a plan for the car has to serve: those of its route and the newly
\* assigned ones, without the ones the service was told to forget.
Served(r, more, gone) == ((Aboard(r) \cup Waiting(r)) \ gone) \cup more

Fits(plan, r, S) ==
  LET here == IF r = NoRoute THEN {} ELSE Here(route[r]) IN
  /\ \A i \in DOMAIN plan :
       /\ plan[i] \in here => i = 1
       /\ plan[i] \in here \cup {From[p] : p \in S} \cup {To[p] : p \in S}
  /\ \A p \in S :
       IF rider[p].status = "riding" THEN Drops(plan, p)
       ELSE Fetches(plan, p) \/ (From[p] \in here /\ Drops(plan, p))

-----------------------------------------------------------------------------
(* A position report of the car.                                           *)

\* checkOffPeakRoute: IF the car has one open route THEN read it.  With two,
\* getOne throws and the report is lost.
ReadReport(t) ==
  /\ t \in Gps
  /\ \E r \in Route :
       /\ OpenRoutes = {r} /\ route[r].midway # <<>>
       /\ Begin(t, "report", r, route[r], {})
  /\ UNCHANGED <<db, board, keys, rides, past>>

\* curr_station is the last index of the list; get(asInt - 1) needs two stops.
AtEnd(row) == row.passed = Len(row.midway) /\ Len(row.midway) > 1
NextStop(row) == row.midway[row.passed + 1]

\* IF there is no next stop THEN end the route and the ride of all aboard.
EndRoute(t) ==
  LET r == task[t].r IN
  /\ At(t, "report") /\ AtEnd(task[t].row)
  /\ route' = [route EXCEPT ![r] = Shut]
  /\ rider' = SetStatus(Aboard(r), "done")
  /\ Overwrite(t, r)
  /\ Finish(t)
  /\ UNCHANGED <<rows, board, keys, rides, outdated>>

\* Mutant: subList(curr_station + 1) from the start, too.
CutByIndex(row) == row.passed

\* all_position loses its first stop, and later its first curr_station + 1
\* stops although it was shortened before.
Cut(row) == IF row.passed = 0 THEN 1 ELSE row.passed

\* Mutant: an arrival is signalled whatever carClients says.
SignalAlways(r, s) ==
  /\ client' = 1 /\ stopKey' = TRUE
  /\ overdue' = overdue \cup {<<r, s>>}
  /\ unable' \in {unable, unable + 1}

\* IF the car was driving THEN it starts its three minutes at the stop and,
\* if positions are known, is announced as taking no orders.
SignalStop(r, s) ==
  IF client = 0
  THEN /\ client' = 1 /\ stopKey' = TRUE
       /\ overdue' = overdue \cup {<<r, s>>}
       /\ unable' \in {unable, unable + 1}
  ELSE UNCHANGED <<client, unable, stopKey, overdue>>

\* IF the car is within 100 m of the next stop THEN its riders to this stop
\* are done, the stop is recorded, and the row is written as it was read, one
\* stop further.  A row that was read two arrivals ago moves the car back.
Arrive(t) ==
  LET r == task[t].r  row == task[t].row  s == NextStop(row) IN
  /\ At(t, "report") /\ row.passed < Len(row.midway) /\ Cut(row) <= row.ahead
  /\ rider' = SetStatus({p \in Rider : rider[p].status = "riding" /\ To[p] = s}, "done")
  /\ rows' = [rows EXCEPT ![r] = @ \cup {s}]
  /\ route' = [route EXCEPT ![r] =
       [row EXCEPT !.passed = @ + 1, !.ahead = @ - Cut(row)]]
  /\ SignalStop(r, s)
  /\ overtaken' =
       \/ overtaken \/ route[r].state # "open" \/ route[r].passed > row.passed + 1
       \/ \E u \in Thread \ {t} :
            At(u, "leaving") \/ (u \in Holders(t, r) /\ ~At(u, "report"))
  /\ Finish(t)
  /\ UNCHANGED <<startKey, rides, outdated>>

\* ... BUT IF subList or get is out of bounds THEN the transaction rolls back.
Throw(t) ==
  LET row == task[t].row IN
  /\ At(t, "report") /\ ~AtEnd(row)
  /\ row.passed >= Len(row.midway) \/ Cut(row) > row.ahead
  /\ Finish(t)
  /\ UNCHANGED <<db, board, keys, rides, past>>

\* IF the car is further away THEN it may be leaving the stop behind it:
\* three minutes over, it gets one minute to leave;
StartLeaving(t) ==
  /\ At(t, "report") /\ task[t].row.passed < Len(task[t].row.midway)
  /\ client = 1 /\ ~stopKey
  /\ startKey' = TRUE /\ client' = 2
  /\ Finish(t)
  /\ UNCHANGED <<db, unable, stopKey, overdue, rides, past>>

\* that over, and positions known, it is announced as taking orders again ...
TakeOrders(t) ==
  /\ At(t, "report") /\ task[t].row.passed < Len(task[t].row.midway)
  /\ client = 2 /\ ~startKey
  /\ unable' = IF unable = 0 THEN 0 ELSE unable - 1
  /\ task' = [task EXCEPT ![t] = [Idle EXCEPT !.pc = "leaving"]]
  /\ UNCHANGED <<db, client, keys, rides, past>>

\* ... AND THEN, the service having been called, counts as driving.
Leave(t) ==
  /\ At(t, "leaving")
  /\ client' = 0
  /\ Finish(t)
  /\ UNCHANGED <<db, unable, keys, rides, past>>

\* In all other cases a distant report changes nothing.
Drive(t) ==
  /\ At(t, "report") /\ ~AtEnd(task[t].row)
  /\ Finish(t)
  /\ UNCHANGED <<db, board, keys, rides, past>>

StopExpires  == stopKey /\ stopKey' = FALSE /\ UNCHANGED <<db, board, startKey, overdue, task, rides, past>>
StartExpires == startKey /\ startKey' = FALSE /\ UNCHANGED <<db, board, stopKey, overdue, task, rides, past>>

-----------------------------------------------------------------------------
(* setRouteOrderExpire: riders that did not turn up within three minutes.  *)

\* Three minutes after the arrival redis tells user-web, which finds the
\* riders still waiting there.  The message may get lost.
OverdueExpires(r, s) ==
  LET late == {p \in Waiting(r) : From[p] = s} IN
  /\ <<r, s>> \in overdue
  /\ overdue' = overdue \ {<<r, s>>}
  /\ \/ late # {} /\ \E t \in Web : Begin(t, "late", r, NoRow, late)
     \/ UNCHANGED task
  /\ UNCHANGED <<db, board, stopKey, startKey, rides, past>>

\* Routes are cancelled by id and state.
CancelRoute(t, r) ==
  IF r \in OpenRoutes
  THEN route' = [route EXCEPT ![r] = Shut] /\ Overwrite(t, r)
  ELSE UNCHANGED <<route, overtaken>>

\* The routing service is asked for a plan without them: it answers one for
\* the car as it is now, or none for it,
LateAsked(t) ==
  LET r == task[t].r  served == Served(r, {}, task[t].who) IN
  /\ At(t, "late")
  /\ \E plan \in Plans \cup {<<>>} :
       /\ plan # <<>> => Fits(plan, r, served)
       /\ task' = [task EXCEPT ![t] = [@ EXCEPT !.pc = "asked", !.plan = plan,
                                      !.row = Selected(r), !.served = served]]
  /\ UNCHANGED <<db, board, keys, rides, past>>

\* or does not answer at all, and setRouteOrderExpire throws.
LateUnanswered(t) ==
  /\ At(t, "late")
  /\ Finish(t)
  /\ UNCHANGED <<db, board, keys, rides, past>>

\* Once it has answered, the late orders expire whatever they are by now.
LateAnswered(t) ==
  /\ At(t, "asked")
  /\ rider' = SetStatus(task[t].who, "expired")
  /\ task' = [task EXCEPT ![t] = [@ EXCEPT !.pc = "answered", !.who = {}]]
  /\ UNCHANGED <<route, rows, board, keys, rides, past>>

\* An empty answer cancels the route; one without the car leaves it alone;
LateDropped(t) ==
  /\ At(t, "answered") /\ task[t].plan = <<>>
  /\ \/ CancelRoute(t, task[t].r)
     \/ UNCHANGED <<route, overtaken>>
  /\ Finish(t)
  /\ UNCHANGED <<rider, rows, board, keys, rides, outdated>>

\* a plan is to be merged into the row as it is read now.
ReadRow(t) ==
  /\ At(t, "answered") /\ task[t].plan # <<>>
  /\ task' = [task EXCEPT ![t] = Merging(t, "merge", task[t].r)]
  /\ UNCHANGED <<db, board, keys, rides, past>>

\* indexOf of the current stop, counted from 1: 0 if the plan does not name it.
Named(row, plan) == SelectInSeq(plan, LAMBDA s : s = row.midway[row.passed])

\* Mutant: the stop after the current one is cut off, too.
RestLate(row, plan) == SubSeq(plan, Named(row, plan) + 2, Len(plan))

\* What the plan holds after the current stop; all of it if it is not named.
Rest(row, plan) == SubSeq(plan, Named(row, plan) + 1, Len(plan))

\* Mutant: subList(0, curr_station) for subList(0, curr_station + 1).
MergedShort(row, plan) ==
  IF row.passed = 0 THEN plan
  ELSE SubSeq(row.midway, 1, row.passed - 1) \o Rest(row, plan)

Merged(row, plan) ==
  IF row.passed = 0 THEN plan
  ELSE SubSeq(row.midway, 1, row.passed) \o Rest(row, plan)

Left(row, plan) == IF row.passed = 0 THEN plan ELSE Rest(row, plan)

\* Mutant: the state is written with the stops.
MergedOpen(r, row, plan) ==
  [state |-> "open", midway |-> Merged(row, plan),
   passed |-> route[r].passed, ahead |-> Len(Left(row, plan))]

\* Only the stop lists are written, and IF nothing is left to visit THEN the
\* end of the route.
MergedRow(r, row, plan) ==
  IF Left(row, plan) = <<>> \/ Closed(r) THEN Shut
  ELSE [route[r] EXCEPT !.midway = Merged(row, plan), !.ahead = Len(Left(row, plan))]

MergeWrite(t) ==
  LET r == task[t].r  row == task[t].row  plan == task[t].plan IN
  /\ At(t, "merge")
  /\ Len(Merged(row, plan)) <= MaxStops
  /\ route' = [route EXCEPT ![r] = MergedRow(r, row, plan)]
  /\ Overwrite(t, r) /\ Outdate(t, r)
  /\ Finish(t)
  /\ UNCHANGED <<rider, rows, board, keys, rides>>

-----------------------------------------------------------------------------
(* cancelOrder and callCancelMaasCommon.                                   *)

\* A rider gives up.  Refunds and guards on time are OrderService's.
Cancel(t, p) ==
  /\ t \in Web /\ rider[p].status = "waiting"
  /\ rider' = SetStatus({p}, "expired")
  /\ Begin(t, "cancel", rider[p].route, NoRow, {})
  /\ UNCHANGED <<route, rows, board, keys, rides, past>>

\* IF no car is on duty THEN nobody is asked.
CancelUnasked(t) ==
  /\ At(t, "cancel")
  /\ Finish(t)
  /\ UNCHANGED <<db, board, keys, rides, past>>

\* IF the service does not answer, answers nothing, or leaves out the car of
\* the order THEN the route is cancelled, whoever is aboard.
CancelDropped(t) ==
  /\ At(t, "cancel")
  /\ CancelRoute(t, task[t].r)
  /\ Finish(t)
  /\ UNCHANGED <<rider, rows, board, keys, rides, outdated>>

Unassigned == {p \in Rider : rider[p] = [status |-> "waiting", route |-> NoRoute]}

\* Mutant: the unfinished routes are not looked up.
CurrentNone == {NoRoute}

\* The open route of the car; NoRoute if it is free.
Current == IF OpenRoutes = {} THEN {NoRoute} ELSE OpenRoutes

\* The service is asked, and answers a plan for the car as it is now, which
\* assigns the riders S to it.
Ask(t, S) ==
  /\ \E r \in Current, plan \in Plans :
       /\ Fits(plan, r, Served(r, S, {}))
       /\ task' = [task EXCEPT ![t] =
            [Idle EXCEPT !.pc = "planned", !.r = r, !.row = Selected(r),
                         !.plan = plan, !.who = S, !.served = Served(r, S, {})]]
  /\ UNCHANGED <<db, board, keys, rides, past>>

CancelAsked(t) == At(t, "cancel") /\ \E S \in SUBSET Unassigned : Ask(t, S)

-----------------------------------------------------------------------------
(* Dispatch: Scheduler and parseCommonData.                                *)

\* maasRealCommonScheduled, maasCommonScheduled: IF paid orders wait for a
\* car THEN the routing service is asked; it may assign some to this car.
Dispatch ==
  /\ "dispatch" \in Ops /\ At(Job, "idle")
  /\ \E S \in SUBSET Unassigned \ {{}} : Ask(Job, S)

\* parseCommonData: the unfinished route of the car is read, be it the one
\* the plan was made for or not.
ReadPlan(t) ==
  /\ At(t, "planned")
  /\ \E r \in Current :
       task' = [task EXCEPT ![t] = Merging(t, "replan", r)]
  /\ UNCHANGED <<db, board, keys, rides, past>>

\* IF the car is free THEN a route is saved and the riders
\* get it, cancelled or not.
SaveRoute(t) ==
  /\ At(t, "replan") /\ task[t].r = NoRoute
  /\ \E r \in Route :
       /\ route[r].state = "none"
       /\ route' = [route EXCEPT ![r] = Fresh(task[t].plan)]
       /\ rider' = Assign(task[t].who, r)
       /\ Outdate(t, r)
  /\ Overwrite(t, NoRoute)
  /\ Finish(t)
  /\ UNCHANGED <<rows, board, keys, rides>>

\* IF it is busy THEN the job finds no all_position in the row it selected
\* and throws; the cancellation throws too when it appends the plan to a
\* subList of the stops ...
Unsupported(t) ==
  /\ At(t, "replan") /\ task[t].r # NoRoute
  /\ t = Job \/ task[t].row.passed # 1
  /\ Finish(t)
  /\ UNCHANGED <<db, board, keys, rides, past>>

\* ... unless the car is at its first stop: that stop is kept and the whole
\* plan follows.
Replan(t) ==
  LET r == task[t].r  stops == <<task[t].row.midway[1]>> \o task[t].plan IN
  /\ At(t, "replan") /\ r # NoRoute
  /\ t # Job /\ task[t].row.passed = 1
  /\ Len(stops) <= MaxStops
  /\ route' = [route EXCEPT ![r] =
       IF Closed(r) THEN Shut
       ELSE [@ EXCEPT !.midway = stops, !.passed = 1, !.ahead = Len(task[t].plan)]]
  /\ rider' = Assign(task[t].who, r)
  /\ overtaken' = (overtaken \/ Holders(t, r) # {} \/ route[r].passed # 1)
  /\ Outdate(t, r)
  /\ Finish(t)
  /\ UNCHANGED <<rows, board, keys, rides>>

-----------------------------------------------------------------------------
(* Riders, the driver, the night.                                          *)

\* checkQrCallBack, commit by commit; a rider's code is in one request at a
\* time.  IF the ticket is to be used and the car is the one it is for, ...
Scan(p) ==
  /\ scan[p].pc = "no" /\ rider[p].status = "waiting" /\ rider[p].route # NoRoute
  /\ scan' = [scan EXCEPT ![p] = [pc |-> "read", r |-> rider[p].route]]
  /\ UNCHANGED <<db, board, keys, task, astray, past>>

\* History: the car can fetch p where it is or where it goes next, or its
\* route is closed.
Fetched(p) ==
  LET r == rider[p].route IN
  r \in OpenRoutes =>
    \E i \in {route[r].passed, route[r].passed + 1} \cap DOMAIN route[r].midway :
      route[r].midway[i] = From[p]

\* ... THEN the order is written by id, whatever it is by now and wherever
\* the car is.
Board(p) ==
  /\ scan[p].pc = "read"
  /\ rider' = SetStatus({p}, "riding")
  /\ scan' = [scan EXCEPT ![p] = [@ EXCEPT !.pc = "boarded"]]
  /\ astray' = IF rider[p].status = "waiting" /\ Fetched(p) THEN astray ELSE astray \cup {p}
  /\ UNCHANGED <<route, rows, board, keys, task, past>>

\* IF its route has a record THEN the rider is counted there ...
Look(p) ==
  /\ scan[p].pc = "boarded"
  /\ scan' = [scan EXCEPT ![p] =
       IF rows[@.r] # {} THEN Unscanned ELSE [@ EXCEPT !.pc = "unseen"]]
  /\ UNCHANGED <<db, board, keys, task, astray, past>>

\* ... ELSE one is added for the station of the order.
Record(p) ==
  /\ scan[p].pc = "unseen"
  /\ rows' = [rows EXCEPT ![scan[p].r] = @ \cup {From[p]}]
  /\ scan' = [scan EXCEPT ![p] = Unscanned]
  /\ UNCHANGED <<route, rider, board, keys, task, astray, past>>

\* finishRoute by the driver; resetRoute at 02:00 does it to open routes.
FinishRoute(r) ==
  /\ "finish" \in Ops /\ route[r].state = "open"
  /\ route' = [route EXCEPT ![r] = Shut]
  /\ Overwrite(Job, r)
  /\ UNCHANGED <<rider, rows, board, keys, task, rides, outdated>>

-----------------------------------------------------------------------------
Init ==
  /\ route = [r \in Route |-> NoRow]
  /\ rider = [p \in Rider |-> [status |-> "waiting", route |-> NoRoute]]
  /\ rows = [r \in Route |-> {}]
  /\ client = 0 /\ unable = 0
  /\ stopKey = FALSE /\ startKey = FALSE /\ overdue = {}
  /\ task = [t \in Thread |-> Idle] /\ scan = [p \in Rider |-> Unscanned]
  /\ overtaken = FALSE /\ outdated = {} /\ astray = {}

Report(t) == EndRoute(t) \/ Arrive(t) \/ Throw(t) \/ StartLeaving(t) \/ TakeOrders(t) \/ Leave(t)
Expiry(t) == \/ LateAsked(t) \/ LateUnanswered(t) \/ LateAnswered(t)
             \/ LateDropped(t) \/ ReadRow(t) \/ MergeWrite(t)
Cancelling(t) == CancelUnasked(t) \/ CancelDropped(t) \/ CancelAsked(t)
Planning(t) == ReadPlan(t) \/ SaveRoute(t) \/ Unsupported(t) \/ Replan(t)
Scanning(p) == Scan(p) \/ Board(p) \/ Look(p) \/ Record(p)

Next ==
  \/ \E t \in Thread :
       \/ ReadReport(t) \/ Report(t) \/ Drive(t)
       \/ Expiry(t) \/ Cancelling(t) \/ Planning(t)
       \/ \E p \in Rider : Cancel(t, p)
  \/ \E r \in Route, s \in Station : OverdueExpires(r, s)
  \/ Dispatch
  \/ \E p \in Rider : Scanning(p)
  \/ \E r \in Route : FinishRoute(r)
  \/ StopExpires \/ StartExpires

Spec == Init /\ [][Next]_vars

\* Handlers finish; the car reports its position again and again, and as long
\* as it has a next stop, some of the reports come from there.
Fairness ==
  /\ \A t \in Gps : /\ WF_vars(EndRoute(t)) /\ WF_vars(Leave(t))
                    /\ SF_vars(ReadReport(t))
                    /\ SF_vars(Arrive(t) \/ Throw(t))
  /\ \A t \in Web \cup {Job} : WF_vars(Expiry(t) \/ Cancelling(t) \/ Planning(t))
FairSpec == Spec /\ Fairness

-----------------------------------------------------------------------------
(* Properties.                                                             *)

\* As long as no handler was overtaken: shapes of rows, keys and tasks, and no more
\* stops are left to navigate than the stop list has ahead.
TypeOK ==
  ~overtaken =>
    /\ route \in [Route -> RouteRow]
    /\ rider \in [Rider -> [status : {"waiting", "riding", "done", "expired"},
                            route : Route \cup {NoRoute}]]
    /\ rows \in [Route -> SUBSET Station]
    /\ client \in 0 .. 2 /\ unable \in Nat
    /\ stopKey \in BOOLEAN /\ startKey \in BOOLEAN
    /\ overdue \subseteq Route \X Station
    /\ \A t \in Thread : /\ task[t].r \in Route \cup {NoRoute}
                         /\ task[t].who \subseteq Rider
    /\ scan \in [Rider -> [pc : {"no", "read", "boarded", "unseen"},
                           r : Route \cup {NoRoute}]]
    /\ outdated \subseteq Route /\ astray \subseteq Rider
    /\ \A r \in Route : route[r].passed + route[r].ahead <= Len(route[r].midway)

\* As long as no handler writes over another's read, the stops counted as
\* passed are stops the car was recorded at: re-planning keeps the part of the
\* list that curr_station points into.
NoStopSkipped ==
  ~overtaken => \A r \in Route :
    \A i \in 1 .. route[r].passed : route[r].midway[i] \in rows[r]

\* As long as ..., every rider that boarded as planned has the own stop ahead:
\* neither arrivals nor a plan lose it, unless the plan was made for another row
\* than it is written to.
RidersAreServed ==
  ~overtaken => \A r \in OpenRoutes \ outdated :
    \A p \in Aboard(r) \ astray : To[p] \in Ahead(r)

\* The list of cars that take no orders names this car at most once, and not
\* while it is driving: arrivals and departures of overlapping reports pair up.
StopListMatches ==
  ~overtaken => unable <= 1 /\ (client = 0 => unable = 0)

\* The car has one open route at most.
OneOpenRoute == ~overtaken => Cardinality(OpenRoutes) <= 1

\* A route that was ended or cancelled stays so.
ClosedStaysClosed ==
  [][\A r \in Route : Closed(r) /\ ~overtaken' => Closed(r)']_vars

\* "If the next stop is empty the last stop has been reached: end the route"
\* (TCarServiceImpl.java:718-720): a car that keeps driving to its next stop
\* ends its route.
RouteEnds == \A r \in Route : route[r].state = "open" ~> Closed(r)
=============================================================================
