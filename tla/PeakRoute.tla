------------------------------ MODULE PeakRoute ------------------------------
(***************************************************************************)
(* The rush-hour routes of one driver, who drives one car around a line:   *)
(* the app starts a route and confirms arrivals, position reports record   *)
(* the stations passed, end the route at the terminal and open the next    *)
(* one, the gate boards passengers, and timers close what is left.         *)
(*                                                                         *)
(* A report runs in a transaction: what it writes shows when it commits,   *)
(* and a row it has updated is locked until then.  The app's requests and  *)
(* a scan write through: checkQrCallBack is package-private, its           *)
(* annotation has no effect, and the order and the count are two commits   *)
(* with a read between them.  Two monitors guard the opening of a route,   *)
(* one of each class, so they do not exclude each other; a report leaves   *)
(* its monitor before it commits.  A crash of the process ends what is     *)
(* under way, and rolls the reports back.  One scan of a ticket runs at a  *)
(* time; two are the subject of OrderService.                              *)
(***************************************************************************)
EXTENDS Naturals, Sequences, FiniteSets, FiniteSetsExt

CONSTANTS
  N,                  \* stations of the line
  Anchor,             \* stations of a type other than 1, unknown to the app
  Gps, App, Rider,    \* position reports, app requests, peak tickets
  StartOf, EndOf,     \* the stations a ticket was bought for
  MaxRoute, MaxRow    \* bounds on the routes and on the stations recorded

ASSUME PeakAssumption ==
  /\ IsFiniteSet(Rider)
  /\ N \in Nat \ {0, 1} /\ Anchor \subseteq 2 .. N - 1
  /\ StartOf \in [Rider -> 1 .. N] /\ EndOf \in [Rider -> 1 .. N]
  /\ Gps \cap App = {} /\ (Gps \cup App) \cap Rider = {}
  /\ MaxRoute \in Nat /\ MaxRow \in Nat

Route  == 1 .. MaxRoute
Thread == Gps \cup App \cup Rider

NoRoute == 0
NoStop  == 0          \* a row with a null station_id
Home    == N + 1      \* the first station once more, its id times 100
Gone    == N + 2      \* the row was deleted

VARIABLES
  route,     \* route_state of the rows of t_route_peak
  rows,      \* t_route_station of a route, by create_date: station, on_num
  order,     \* order_status and route_id of the tickets
  task,      \* what each thread is doing
  monitor,   \* who is inside synchronized (this), by class
  shut,      \* it is too late to start, or to renew, a route
  crossed,   \* a renewal met another request that opens a route (history)
  mixed,     \* routes whose station rows were read by two tasks at once (history)
  ended,     \* routes ended at the terminal (history)
  late,      \* riders boarded on a route while it ended or after (history)
  lost       \* riders whose scan a crash ended before they were counted (history)

table   == <<route, rows, order>>
history == <<crossed, mixed, ended, late, lost>>
vars == <<table, task, monitor, shut, history>>

Open == {r \in Route : route[r] = "open"}
Live(r) == {i \in DOMAIN rows[r] : rows[r][i].st # Gone}
LastRow(r) == IF Live(r) = {} THEN 0 ELSE Max(Live(r))
Recorded(r) == {rows[r][i].st : i \in Live(r)}
OnRoute(r) == {p \in Rider : order[p] = [status |-> "riding", r |-> r]}

-----------------------------------------------------------------------------
(* Tasks: the route, its last row and that row's station and on_num as     *)
(* read, the rows to insert, the riders to complete, the route saved but   *)
(* not committed.                                                          *)

Idle == [pc |-> "idle", r |-> NoRoute, row |-> 0, st |-> NoStop, on |-> 0,
         ins |-> <<>>, off |-> {}, new |-> NoRoute]
At(t, pc)    == task[t].pc = pc
In(t, pcs)   == task[t].pc \in pcs
Goto(t, pc)  == task' = [task EXCEPT ![t].pc = pc]
Finished(t)  == task' = [task EXCEPT ![t] = Idle]

Ending == {"look", "open", "save", "commit"}
EndsRoute(t) == In(t, Ending) /\ task[t].r # NoRoute
Opening == {t \in Gps \cup App : In(t, Ending \cup {"leave"})}
Locked(r) == \E g \in Gps : EndsRoute(g) /\ task[g].r = r

\* Other tasks that have read the station rows of r and may write to them.
Writers(r, t) == {u \in Thread \ {t} : task[u].r = r /\ In(u, {"act", "write"} \cup Ending)}
Mixing(r, t) == IF Writers(r, t) = {} THEN mixed ELSE mixed \cup {r}

\* Only the first route counts that a query for the open one may return; with
\* two it throws or returns either.
BeginOn(t, r, pc) ==
  /\ At(t, "idle") /\ r \in Open
  /\ task' = [task EXCEPT ![t] = [Idle EXCEPT !.pc = pc, !.r = r]]
  /\ UNCHANGED <<table, monitor, shut, history>>

\* The last station recorded is read.
ReadRow(t) ==
  /\ At(t, "row")
  /\ LET r == task[t].r
         i == LastRow(r) IN
       /\ task' = [task EXCEPT ![t].pc = "act", ![t].row = i,
                               ![t].st = IF i = 0 THEN NoStop ELSE rows[r][i].st,
                               ![t].on = IF i = 0 THEN 0 ELSE rows[r][i].on]
       /\ mixed' = Mixing(r, t)
  /\ UNCHANGED <<table, monitor, shut, crossed, ended, late, lost>>

\* The station of the row as it was read.
Station(t) == task[t].st

-----------------------------------------------------------------------------
(* Opening a route: getRouteInfo, and the renewal at the terminal.         *)

\* The routes a task sees open: its own update counts.
Seen(t) == IF EndsRoute(t) THEN Open \ {task[t].r} ELSE Open
Monitor(t) == IF t \in App /\ task[t].r = NoRoute THEN "MyRoute" ELSE "TCarService"

\* After the renewal a report commits; an app request is over.
Over(t) == IF t \in Gps THEN Goto(t, "commit") ELSE Finished(t)

\* getRouteInfo: IF the driver has no open route in the rush hour THEN go on.
Start(a) ==
  /\ At(a, "idle") /\ "start" \notin shut /\ Open = {}
  /\ Goto(a, "open")
  /\ crossed' = (crossed \/ \E u \in Opening : task[u].r # NoRoute)
  /\ UNCHANGED <<table, monitor, shut, mixed, ended, late, lost>>

\* IF there is still time for a renewal and no open route THEN go on.
Look(t) ==
  /\ At(t, "look")
  /\ IF "renew" \notin shut /\ Seen(t) = {} THEN Goto(t, "open") ELSE Over(t)
  /\ UNCHANGED <<table, monitor, shut, history>>

\* Mutant: the monitor is entered without looking again.
StillNot(t) == TRUE

StillNone(t) == Seen(t) = {}

\* Both enter their monitor and look again; a start that finds a route answers
\* with the map it read before, which is null.
Enter(t) ==
  /\ At(t, "open") /\ monitor[Monitor(t)] = {}
  /\ IF StillNone(t)
     THEN /\ Goto(t, "save")
          /\ monitor' = [monitor EXCEPT ![Monitor(t)] = {t}]
     ELSE Over(t) /\ UNCHANGED monitor
  /\ UNCHANGED <<table, shut, history>>

Fresh == {r \in Route : route[r] = "none" /\ \A t \in Gps : task[t].new # r}

Save(t) ==
  /\ At(t, "save") /\ Fresh # {}
  /\ monitor' = [monitor EXCEPT ![Monitor(t)] = {}]
  /\ IF t \in Gps
     THEN task' = [task EXCEPT ![t].pc = "commit", ![t].new = Min(Fresh)] /\ UNCHANGED route
     ELSE Finished(t) /\ route' = [route EXCEPT ![Min(Fresh)] = "open"]
  /\ UNCHANGED <<rows, order, shut, history>>

-----------------------------------------------------------------------------
(* Arrivals: carGetDown for reports, confirmArrive for the app.            *)

Stops == (1 .. N) \ Anchor

AtEnd(t) == Station(t) = (IF t \in Gps THEN Home ELSE Max(Stops))

\* Mutant: riders are completed only at the station they asked for.
OnBoardHome(r) == {p \in OnRoute(r) : EndOf[p] = 1}

OnBoard(r) == OnRoute(r)

Rode(S) == [p \in Rider |-> IF p \in S THEN [order[p] EXCEPT !.status = "done"] ELSE order[p]]
Crossing(t) == crossed \/ Opening \ {t} # {}

\* A report whose route stands at the terminal deletes that row, ends the route
\* and lists its riders, all to be committed.
Close(g) ==
  /\ g \in Gps /\ At(g, "act") /\ AtEnd(g) /\ ~Locked(task[g].r)
  /\ task' = [task EXCEPT ![g].pc = "look", ![g].off = OnBoard(task[g].r)]
  /\ crossed' = Crossing(g)
  /\ mixed' = Mixing(task[g].r, g)
  /\ UNCHANGED <<table, monitor, shut, ended, late, lost>>

Delete(r, i) == [rows EXCEPT ![r][i].st = Gone]

Commit(g) ==
  /\ At(g, "commit")
  /\ LET k == task[g] IN
       /\ route' = [r \in Route |-> CASE r = k.r   -> "closed"
                                      [] r = k.new -> "open"
                                      [] OTHER     -> route[r]]
       /\ rows' = Delete(k.r, k.row)
       /\ order' = Rode(k.off)
       /\ ended' = ended \cup {k.r}
  /\ Finished(g)
  /\ UNCHANGED <<monitor, shut, crossed, mixed, late, lost>>

\* The app's confirmation ends the route at once ...
CloseNow(a) ==
  /\ a \in App /\ At(a, "act") /\ AtEnd(a) /\ ~Locked(task[a].r)
  /\ route' = [route EXCEPT ![task[a].r] = "closed"]
  /\ Goto(a, "leave")
  /\ crossed' = Crossing(a)
  /\ UNCHANGED <<rows, order, monitor, shut, mixed, ended, late, lost>>

\* ... and then completes its riders.
LeaveAll(a) ==
  /\ At(a, "leave")
  /\ order' = Rode(OnBoard(task[a].r))
  /\ ended' = ended \cup {task[a].r}
  /\ Goto(a, "look")
  /\ UNCHANGED <<route, rows, monitor, shut, crossed, mixed, late, lost>>

\* The nearest station of a car at l: the loop skips the first one for its copy.
Near(l) == IF l = 1 THEN Home ELSE l

\* The station a report expects: that after the last one recorded, none after a
\* row with a null station.
Expected(t) ==
  CASE task[t].row = 0      -> 1
    [] Station(t) = NoStop  -> NoStop
    [] OTHER                -> Station(t) + 1

\* Mutant: stations are recorded without looking for them first.
Always(r, s) == <<s>>

IfMissing(r, s) == IF s \in Recorded(r) THEN <<>> ELSE <<s>>

\* A report of a car at l, within 100 m or not: the station before one that was
\* not expected is recorded if missing; within 100 m so is the station itself,
\* and those who ride to it are completed, whatever their route.
Observe(g) ==
  /\ g \in Gps /\ At(g, "act") /\ ~AtEnd(g)
  /\ \E l \in 1 .. N, close \in BOOLEAN :
       LET s      == Near(l)
           before == IF s = Expected(g) THEN <<>> ELSE IfMissing(task[g].r, s - 1)
           here   == IF close THEN IfMissing(task[g].r, s) ELSE <<>> IN
       task' = [task EXCEPT ![g].pc = "write",
         ![g].ins = before \o here,
         ![g].off = IF close THEN {p \in Rider : order[p].status = "riding" /\ EndOf[p] = s}
                             ELSE {}]
  /\ UNCHANGED <<table, monitor, shut, history>>

\* The stop after the one recorded; null for none, and after an anchor or the
\* terminal copy, which the app's list does not hold.
NextStop(a) ==
  IF Station(a) \in Stops THEN Min({s \in Stops : s > Station(a)}) ELSE NoStop

\* The app's confirmation records the next stop if it is missing; a null one is
\* never found.
ConfirmNext(a) ==
  /\ a \in App /\ At(a, "act") /\ ~AtEnd(a)
  /\ LET s == NextStop(a) IN
       task' = [task EXCEPT ![a].pc = "write",
         ![a].ins = IF s = NoStop THEN <<s>> ELSE IfMissing(task[a].r, s)]
  /\ UNCHANGED <<table, monitor, shut, history>>

Fits(r, ss) == Len(rows[r]) + Len(ss) <= MaxRow
Insert(r, ss, on) == [rows EXCEPT ![r] = @ \o [i \in DOMAIN ss |-> [st |-> ss[i], on |-> on]]]

Write(t) ==
  /\ At(t, "write") /\ Fits(task[t].r, task[t].ins)
  /\ rows' = Insert(task[t].r, task[t].ins, 0)
  /\ order' = Rode(task[t].off)
  /\ Finished(t)
  /\ UNCHANGED <<route, monitor, shut, history>>

-----------------------------------------------------------------------------
(* Boarding: checkQrCallBack.                                              *)

\* IF the ticket is unused and its car has an open route THEN go on.
Scan(p) == \E r \in Route : order[p].status = "toUse" /\ BeginOn(p, r, "board")

\* Mutant: the route is not written to the order.
BoardedNowhere(p) == [status |-> "riding", r |-> NoRoute]

Boarded(p) == [status |-> "riding", r |-> task[p].r]

\* The order is riding on that route, open or not by now.
Board(p) ==
  /\ p \in Rider /\ At(p, "board")
  /\ order' = [order EXCEPT ![p] = Boarded(p)]
  /\ late' = IF Locked(task[p].r) \/ route[task[p].r] # "open" THEN late \cup {p} ELSE late
  /\ Goto(p, "row")
  /\ UNCHANGED <<route, rows, monitor, shut, crossed, mixed, ended, lost>>

\* Mutant: the count starts anew.
CountAnew(on) == 1

CountOn(on) == on + 1

\* A report has deleted the row and not committed.
Deleting(r, i) == \E g \in Gps : EndsRoute(g) /\ task[g].r = r /\ task[g].row = i

\* The last row, as read, counts one more; without a row the station of the
\* ticket is recorded.  A deleted row stays deleted.
Count(p) ==
  /\ p \in Rider /\ At(p, "act")
  /\ LET k == task[p] IN
       IF k.row = 0 THEN Fits(k.r, <<StartOf[p]>>) /\ rows' = Insert(k.r, <<StartOf[p]>>, 1)
       ELSE /\ ~Deleting(k.r, k.row)
            /\ rows' = IF rows[k.r][k.row].st = Gone THEN rows
                       ELSE [rows EXCEPT ![k.r][k.row].on = CountOn(k.on)]
  /\ Finished(p)
  /\ UNCHANGED <<route, order, monitor, shut, history>>

-----------------------------------------------------------------------------
(* finishRoute, resetRoute, and the clock.                                 *)

FinishRoute(r) ==
  /\ r \in Open /\ ~Locked(r)
  /\ route' = [route EXCEPT ![r] = "closed"]
  /\ UNCHANGED <<rows, order, task, monitor, shut, history>>

\* resetRoute closes every open route and leaves its riders as they are.
ResetRoute ==
  /\ Open # {} /\ \A r \in Open : ~Locked(r)
  /\ route' = [r \in Route |-> IF r \in Open THEN "closed" ELSE route[r]]
  /\ UNCHANGED <<rows, order, task, monitor, shut, history>>

\* The process is restarted: every task ends where it is, and what a report has
\* not committed is gone.
Crash ==
  /\ task' = [t \in Thread |-> Idle]
  /\ monitor' = [m \in DOMAIN monitor |-> {}]
  /\ lost' = lost \cup {p \in Rider : In(p, {"row", "act"})}
  /\ UNCHANGED <<table, shut, crossed, mixed, ended, late>>

\* The rush hour ends; so does, at 9:40 or 21:50, the time for renewals.
Shut(w) ==
  /\ w \notin shut /\ shut' = shut \cup {w}
  /\ UNCHANGED <<table, task, monitor, history>>

Init ==
  /\ route = [r \in Route |-> "none"] /\ rows = [r \in Route |-> <<>>]
  /\ order = [p \in Rider |-> [status |-> "toUse", r |-> NoRoute]]
  /\ task = [t \in Thread |-> Idle]
  /\ monitor = [m \in {"MyRoute", "TCarService"} |-> {}]
  /\ shut = {} /\ crossed = FALSE /\ mixed = {} /\ ended = {} /\ late = {} /\ lost = {}

Report(g)  == \E r \in Route : BeginOn(g, r, "row")
Confirm(a) == \E r \in Route : BeginOn(a, r, "row")

Next ==
  \/ \E t \in Thread : ReadRow(t) \/ Look(t) \/ Enter(t) \/ Save(t) \/ Write(t)
  \/ \E g \in Gps : Report(g) \/ Close(g) \/ Observe(g) \/ Commit(g)
  \/ \E a \in App : Start(a) \/ Confirm(a) \/ CloseNow(a) \/ LeaveAll(a) \/ ConfirmNext(a)
  \/ \E p \in Rider : Scan(p) \/ Board(p) \/ Count(p)
  \/ \E r \in Route : FinishRoute(r)
  \/ ResetRoute \/ Crash
  \/ \E w \in {"start", "renew"} : Shut(w)

Spec == Init /\ [][Next]_vars

-----------------------------------------------------------------------------
\* Shapes of the columns; a ticket has a route once it was scanned, and a
\* monitor has one owner, who is about to save.
TypeOK ==
  /\ route \in [Route -> {"none", "open", "closed"}]
  /\ \A r \in Route : /\ Len(rows[r]) <= MaxRow
                      /\ \A i \in DOMAIN rows[r] : rows[r][i].st \in NoStop .. Gone
  /\ \A p \in Rider : order[p].status = "toUse" <=> order[p].r = NoRoute
  /\ \A t \in Thread : At(t, "save") <=> t \in monitor[Monitor(t)]
  /\ mixed \subseteq Route /\ ended \subseteq Route /\ late \cup lost \subseteq Rider

\* A driver has one open route, however many starts meet, as long as no renewal
\* at the terminal met a start or another renewal: these use another monitor,
\* and a report commits after it left its own.
OneOpenRoute == ~crossed => Cardinality(Open) <= 1

\* When a route has ended at the terminal nobody rides on it, except those who
\* were scanned while it ended.
EndEmptiesRoute ==
  \A p \in Rider : order[p].r \in ended /\ order[p].status = "riding" => p \in late

\* The boarded counts of a route's stations and the riders still to be counted,
\* because their scan is between its two writes or a crash ended it there, never
\* exceed the riders scanned on the route, and match them unless two tasks read
\* the rows at once: only a crash loses a boarding for good.  The terminal's row
\* takes its count with it when it is deleted.  A count is that many marks.
Boardings(r) == Cardinality({p \in Rider : order[p].r = r})
Uncounted(r) == {p \in Rider : order[p].r = r /\ (In(p, {"row", "act"}) \/ p \in lost)}
Marks(r) == UNION {{i} \X (1 .. rows[r][i].on) : i \in DOMAIN rows[r]}
Counted(r) == Cardinality(Marks(r)) + Cardinality(Uncounted(r))
BoardingsCounted ==
  \A r \in Route : /\ Counted(r) <= Boardings(r)
                   /\ r \notin mixed => Counted(r) = Boardings(r)

\* A station is recorded once per route, unless two tasks read its rows at once.
RecordedOnce ==
  \A r \in Route \ mixed : \A i, j \in Live(r) :
    i # j /\ rows[r][i].st # NoStop => rows[r][i].st # rows[r][j].st
=============================================================================
