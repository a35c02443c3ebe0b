------------------------- MODULE OffpeakRouteProofs -------------------------
(***************************************************************************)
(* What holds of OffpeakRoute as long as no handler was overtaken, for any *)
(* stations, riders, routes and threads: its types, its five invariants,   *)
(* and that closed routes stay closed.                                     *)
(*                                                                         *)
(* The argument is about the list of stops.  A plan names no stop twice    *)
(* and the current one first at most, so the list from the current stop on *)
(* repeats a stop only right behind it (NoReturn); whoever waits has the   *)
(* own destination behind every stop to be fetched at, and whoever rides   *)
(* has it ahead and is not there already (Awaited, Carried).  What a plan  *)
(* promises when it is asked for stays true of the riders it serves and of *)
(* the row it was made for (AskOK); if both are the same when the row is   *)
(* read, it is true of the route (PromiseOK), and stays so until the plan  *)
(* is written.  A route that got another plan makes no more promises.      *)
(***************************************************************************)
EXTENDS OffpeakRoute, FiniteSetTheorems, SequenceTheorems, TLAPS

Pcs == {"idle", "report", "leaving", "late", "asked", "answered", "merge",
        "cancel", "planned", "replan"}
Task == [pc : Pcs, r : Route \cup {NoRoute}, row : RouteRow,
         plan : Plans \cup {<<>>}, who : SUBSET Rider,
         served : SUBSET Rider, old : BOOLEAN]
ScanRow == [pc : {"no", "read", "boarded", "unseen"}, r : Route \cup {NoRoute}]
RiderRow == [status : {"waiting", "riding", "done", "expired"},
             route : Route \cup {NoRoute}]

Columns ==
  /\ route \in [Route -> RouteRow] /\ rider \in [Rider -> RiderRow]
  /\ rows \in [Route -> SUBSET Station]
  /\ client \in 0 .. 2 /\ unable \in Nat
  /\ stopKey \in BOOLEAN /\ startKey \in BOOLEAN
  /\ overdue \subseteq Route \X Station
  /\ task \in [Thread -> Task]

\* The scans, and the history of plans and boardings, which only grows.
Past == /\ scan \in [Rider -> ScanRow]
        /\ outdated \subseteq Route /\ astray \subseteq Rider
Grows == Past' /\ outdated \subseteq outdated' /\ astray \subseteq astray'

\* Which threads do what, and on which routes: on none that was never saved.
Born(r) == r \in Route /\ route[r].state # "none"
Expiring(t) == task[t].pc \in {"late", "asked", "answered", "merge"}
Place(t) ==
  /\ task[t].r # NoRoute => Born(task[t].r)
  /\ At(t, "report") \/ Expiring(t) => task[t].r # NoRoute
  /\ At(t, "report") \/ At(t, "leaving") => t \in Gps
  /\ Expiring(t) \/ At(t, "cancel") => t \in Web
  /\ At(t, "planned") => t \in Web \cup {Job}
  /\ At(t, "merge") \/ At(t, "planned") \/ At(t, "replan") => task[t].plan \in Plans
Places ==
  /\ \A t \in Thread : Place(t)
  /\ \A p \in Rider : rider[p].route # NoRoute => Born(rider[p].route)
  /\ \A x \in overdue : Born(x[1])

One == \A r, s \in OpenRoutes : r = s

\* carIds and carClients.
Signals ==
  /\ unable <= 1 /\ (client = 0 => unable = 0)
  /\ (\E t \in Thread : At(t, "leaving")) => unable = 0 /\ client # 1

\* A row is within its list, and the car was at the stops that it passed.
Within(row) == row.passed + row.ahead <= Len(row.midway)
Progress ==
  \A r \in Route : /\ Within(route[r])
                   /\ \A i \in 1 .. route[r].passed : route[r].midway[i] \in rows[r]

\* What a report read is the open row, or the one before the last arrival ...
ReportOK(t) ==
  LET row == task[t].row  now == route[task[t].r] IN
  At(t, "report") => /\ row.state = "open" /\ now.state = "open"
                     /\ row.midway = now.midway /\ row.midway # <<>>
                     /\ row.passed <= now.passed /\ Within(row)

\* ... and what a planner read is the row.
Writes(t) == t # Job /\ At(t, "replan") /\ task[t].r # NoRoute
Creates(t) == At(t, "replan") /\ task[t].r = NoRoute
CopyOK(t) ==
  /\ At(t, "merge") \/ Writes(t) =>
       /\ task[t].row.midway = route[task[t].r].midway
       /\ task[t].row.passed = route[task[t].r].passed
  /\ Writes(t) => route[task[t].r].state = "open"
  /\ Creates(t) => OpenRoutes = {}

\* From the current stop on, a stop is repeated right behind itself at most.
NoReturn(row) ==
  \A i, j \in DOMAIN row.midway :
    i >= row.passed /\ j > i + 1 => row.midway[i] # row.midway[j]

\* Every stop a rider may be fetched at has the rider's destination behind it.
Awaited(p, row) ==
  \A k \in DOMAIN row.midway : k >= row.passed /\ row.midway[k] = From[p] =>
    \E j \in DOMAIN row.midway : j > k /\ row.midway[j] = To[p]
\* The destination of a rider is ahead, and the car is not there.
Carried(p, row) ==
  /\ \E j \in DOMAIN row.midway : j > row.passed /\ row.midway[j] = To[p]
  /\ row.passed > 0 => row.midway[row.passed] # To[p]

CourseOK(r) ==
  route[r].state = "open" /\ r \notin outdated =>
    /\ NoReturn(route[r])
    /\ \A p \in Rider \ astray : /\ p \in Waiting(r) => Awaited(p, route[r])
                                 /\ p \in Aboard(r) => Carried(p, route[r])

\* A plan for a car at the stop of a row names it first or not at all, drops
\* riders, and those that wait not before it fetches them.
Follows(plan, p) ==
  \A i \in DOMAIN plan : plan[i] = From[p] =>
    \E j \in DOMAIN plan : j > i /\ plan[j] = To[p]
HereFirst(plan, row) == \A i \in DOMAIN plan : plan[i] \in Here(row) => i = 1
Takes(plan, p) ==
  Drops(plan, p) /\ (rider[p].status = "waiting" => Follows(plan, p))

\* So does a plan that was asked for and whose row is not read yet, ...
Asking(t) == task[t].pc \in {"asked", "answered", "planned"}
AskOK(t) ==
  LET plan == task[t].plan  row == task[t].row IN
  Asking(t) /\ plan # <<>> =>
    /\ HereFirst(plan, row)
    /\ \A p \in task[t].served : Takes(plan, p)
    /\ At(t, "planned") => \A p \in task[t].who : Takes(plan, p) /\ To[p] \notin Here(row)

\* ... and a plan that is still to be written, unless it is an old one.
Planned(t) ==
  Creates(t) \/ Writes(t) \/ (At(t, "merge") /\ route[task[t].r].state = "open")
Concerns(t, p) ==
  /\ task[t].r # NoRoute /\ p \notin astray
  /\ p \in Aboard(task[t].r) \cup Waiting(task[t].r)
PromiseOK(t) ==
  LET plan == task[t].plan  r == task[t].r IN
  Planned(t) /\ ~task[t].old =>
    /\ r # NoRoute => HereFirst(plan, route[r])
    /\ \A p \in Rider : Concerns(t, p) => Takes(plan, p)
    /\ At(t, "replan") => \A p \in task[t].who :
         Takes(plan, p) /\ (r # NoRoute => To[p] \notin Here(route[r]))

ThreadOK(t) == ReportOK(t) /\ CopyOK(t) /\ AskOK(t) /\ PromiseOK(t)

Inv == /\ Columns /\ Past /\ Places /\ One /\ Signals /\ Progress
       /\ \A t \in Thread : ThreadOK(t)
       /\ \A r \in Route : CourseOK(r)
IInv == ~overtaken => Inv

-----------------------------------------------------------------------------
(* Stops, plans, rows.                                                     *)

LEMMA StopsSeq ==
  ASSUME NEW s
  PROVE  s \in Stops <=> s \in Seq(Station) /\ Len(s) <= MaxStops
<1>1. ASSUME s \in Stops PROVE s \in Seq(Station) /\ Len(s) <= MaxStops
  <2>1. PICK n \in 0 .. MaxStops : s \in [1 .. n -> Station]
    BY <1>1 DEF Stops
  <2>2. s \in Seq(Station) /\ Len(s) = n
    BY <2>1, RouteAssumption
  <2> QED
    BY <2>2
<1>2. ASSUME s \in Seq(Station), Len(s) <= MaxStops PROVE s \in Stops
  <2>1. s \in [1 .. Len(s) -> Station] /\ Len(s) \in 0 .. MaxStops
    BY <1>2, RouteAssumption
  <2> QED
    BY <2>1 DEF Stops
<1> QED
  BY <1>1, <1>2

LEMMA PlanFacts ==
  ASSUME NEW s \in Plans
  PROVE  /\ s \in Seq(Station) /\ Len(s) \in 1 .. MaxStops /\ DOMAIN s = 1 .. Len(s)
         /\ s \in Stops
         /\ \A i, j \in 1 .. Len(s) : s[i] = s[j] => i = j
<1>1. Cardinality(Station) \in Nat
  BY RouteAssumption, FS_CardinalityType
<1>2. PICK n \in 1 .. Cardinality(Station) : s \in [1 .. n -> Station]
  BY DEF Plans
<1>3. s \in Seq(Station) /\ Len(s) = n /\ DOMAIN s = 1 .. n
  BY <1>1, <1>2
<1>4. \A i, j \in 1 .. n : s[i] = s[j] => i = j
  BY <1>3 DEF Plans, IsInjective
<1> QED
  BY <1>1, <1>3, <1>4, StopsSeq, RouteAssumption

LEMMA RowFacts ==
  ASSUME NEW row \in RouteRow
  PROVE  /\ row.midway \in Seq(Station) /\ Len(row.midway) \in 0 .. MaxStops
         /\ DOMAIN row.midway = 1 .. Len(row.midway)
         /\ row.passed \in 0 .. MaxStops /\ row.ahead \in 0 .. MaxStops
         /\ row.state \in {"none", "open", "closed"}
<1>1. /\ row.midway \in Stops
      /\ row.passed \in 0 .. MaxStops /\ row.ahead \in 0 .. MaxStops
      /\ row.state \in {"none", "open", "closed"}
  BY DEF RouteRow
<1> QED
  BY <1>1, StopsSeq

LEMMA ShutRows ==
  /\ NoRow \in RouteRow /\ Shut \in RouteRow /\ Shut.state = "closed"
  /\ NoRow.state = "none" /\ Within(NoRow) /\ Within(Shut)
  /\ NoRow.passed = 0 /\ Shut.passed = 0 /\ NoRow.midway = <<>> /\ Shut.midway = <<>>
<1>1. <<>> \in Stops
  <2>1. <<>> \in Seq(Station)
    BY EmptySeq
  <2>2. Len(<<>>) = 0
    BY EmptySeq
  <2>3. 0 <= MaxStops
    BY RouteAssumption
  <2>4. <<>> \in Seq(Station) /\ Len(<<>>) <= MaxStops
    BY <2>1, <2>2, <2>3
  <2> QED
    BY <2>4, StopsSeq, Zenon
<1> QED
  BY <1>1, RouteAssumption DEF NoRow, Shut, RouteRow, Within

-----------------------------------------------------------------------------
(* What the steps do, in terms that matter to the invariant.               *)

Holds(u, r) == (At(u, "report") \/ At(u, "merge") \/ At(u, "replan")) /\ task[u].r = r

Others(t) == \A u \in Thread \ {t} : task'[u] = task[u]
Rests(t) == Others(t) /\ task'[t] = Idle
\* Riders leave a route, and perhaps board the car of theirs, or go astray.
Left1(p) ==
  \/ rider'[p] = rider[p]
  \/ /\ rider'[p].route = rider[p].route
     /\ \/ rider'[p].status = "expired"
        \/ rider[p].status = "riding" /\ rider'[p].status = "done"
Joined(p) ==
  /\ rider'[p].status = "riding" /\ rider'[p].route = rider[p].route
  /\ rider[p].status = "waiting" \/ p \in astray'
Leaves == \A p \in Rider : Left1(p)
Moves == \A p \in Rider : Left1(p) \/ Joined(p)
\* Nobody waits who did not wait before.
Calm == \A p \in Rider : rider'[p].status = "waiting" => rider[p].status = "waiting"

\* Routes stay, or are closed without anybody holding a copy.
Closing(s) ==
  /\ Born(s) /\ route'[s] = Shut
  /\ \A u \in Thread : Holds(u, s) => task'[u] = Idle \/ u = Job
Steady ==
  /\ \A s \in Route : route'[s] = route[s] \/ Closing(s)
  /\ \A s \in Route : rows[s] \subseteq rows'[s]

LEMMA MovesCalm ==
  ASSUME Moves
  PROVE  Calm
BY DEF Moves, Left1, Joined, Calm

\* Threads that hold a copy or a plan.
Bound == {"report", "asked", "answered", "merge", "planned", "replan"}

\* Nobody but t holds a copy of r.
Alone(t, r) == \A u \in Thread \ {t} : ~Holds(u, r)

LEMMA TaskFacts ==
  ASSUME Columns, NEW t \in Thread
  PROVE  /\ task[t] \in Task /\ task[t].pc \in Pcs
         /\ task[t].r \in Route \cup {NoRoute}
         /\ task[t].row \in RouteRow /\ task[t].who \subseteq Rider
         /\ task[t].plan \in Plans \cup {<<>>} /\ task[t].served \subseteq Rider
         /\ task[t].old \in BOOLEAN
<1>1. task[t] \in Task
  BY DEF Columns
<1> QED
  BY <1>1 DEF Task

LEMMA RiderFacts ==
  ASSUME Columns, NEW p \in Rider
  PROVE  /\ rider[p] \in RiderRow
         /\ rider[p].status \in {"waiting", "riding", "done", "expired"}
         /\ rider[p].route \in Route \cup {NoRoute}
<1>1. rider[p] \in RiderRow
  BY DEF Columns
<1> QED
  BY <1>1 DEF RiderRow

LEMMA RouteFacts ==
  ASSUME Columns, NEW r \in Route
  PROVE  route[r] \in RouteRow
BY DEF Columns

LEMMA IdleTask == Idle \in Task /\ Idle.r = NoRoute /\ Idle.pc = "idle"
<1>1. NoRow \in RouteRow
  BY ShutRows
<1> QED
  BY <1>1 DEF Idle, Task, Pcs

LEMMA LeavingTask ==
  ASSUME NEW l, l = [Idle EXCEPT !.pc = "leaving"]
  PROVE  l \in Task /\ l.r = NoRoute /\ l.pc = "leaving"
<1>1. Idle \in Task /\ Idle.r = NoRoute
  BY IdleTask
<1> QED
  BY <1>1 DEF Task, Pcs

\* Finish puts a thread to rest.
LEMMA Finished ==
  ASSUME Columns, NEW t \in Thread, Finish(t)
  PROVE  Rests(t) /\ task' \in [Thread -> Task]
<1>1. task' = [task EXCEPT ![t] = Idle] /\ task \in [Thread -> Task]
  BY DEF Finish, Columns
<1> QED
  BY <1>1, IdleTask DEF Rests, Others

\* SetStatus writes one column, of the riders it is given.
LEMMA StatusSet ==
  ASSUME Columns, NEW S, NEW x \in {"done", "expired", "riding"}, rider' = SetStatus(S, x)
  PROVE  /\ rider' \in [Rider -> RiderRow]
         /\ \A p \in Rider \ S : rider'[p] = rider[p]
         /\ \A p \in Rider \cap S : rider'[p].status = x /\ rider'[p].route = rider[p].route
<1>1. ASSUME NEW p \in Rider
      PROVE  /\ rider'[p] \in RiderRow
             /\ p \notin S => rider'[p] = rider[p]
             /\ p \in S => rider'[p].status = x /\ rider'[p].route = rider[p].route
  <2>1. rider'[p] = IF p \in S THEN [rider[p] EXCEPT !.status = x] ELSE rider[p]
    BY DEF SetStatus
  <2>2. rider[p] \in RiderRow
    BY RiderFacts
  <2> QED
    BY <2>1, <2>2 DEF RiderRow
<1>2. rider' = [p \in Rider |-> rider'[p]]
  BY DEF SetStatus
<1> QED
  BY <1>1, <1>2

\* Assign writes the other.
LEMMA Assigned ==
  ASSUME Columns, NEW S, NEW r \in Route, rider' = Assign(S, r)
  PROVE  /\ rider' \in [Rider -> RiderRow]
         /\ \A p \in Rider \ S : rider'[p] = rider[p]
         /\ \A p \in Rider \cap S : rider'[p].route = r /\ rider'[p].status = rider[p].status
<1>1. ASSUME NEW p \in Rider
      PROVE  /\ rider'[p] \in RiderRow
             /\ p \notin S => rider'[p] = rider[p]
             /\ p \in S => rider'[p].route = r /\ rider'[p].status = rider[p].status
  <2>1. rider'[p] = IF p \in S THEN [rider[p] EXCEPT !.route = r] ELSE rider[p]
    BY DEF Assign
  <2>2. rider[p] \in RiderRow
    BY RiderFacts
  <2> QED
    BY <2>1, <2>2 DEF RiderRow
<1>2. rider' = [p \in Rider |-> rider'[p]]
  BY DEF Assign
<1> QED
  BY <1>1, <1>2

\* Selected copies the stops and the position.
LEMMA SelectedFacts ==
  ASSUME Columns, NEW r \in Route \cup {NoRoute}, NEW row, row = Selected(r)
  PROVE  /\ row \in RouteRow
         /\ r # NoRoute => /\ row.midway = route[r].midway
                          /\ row.passed = route[r].passed
                          /\ Here(row) = Here(route[r])
         /\ r = NoRoute => Here(row) = {}
<1>1. CASE r = NoRoute
  BY <1>1, ShutRows DEF Selected, Here
<1>2. CASE r # NoRoute
  <2>1. row = [state |-> "none", midway |-> route[r].midway,
               passed |-> route[r].passed, ahead |-> 0]
    BY <1>2 DEF Selected, NoRow
  <2>2. route[r] \in RouteRow
    BY <1>2, RouteFacts
  <2>3. route[r].midway \in Stops /\ route[r].passed \in 0 .. MaxStops
    BY <2>2 DEF RouteRow
  <2> QED
    BY <1>2, <2>1, <2>3, RouteAssumption DEF RouteRow, Here
<1> QED
  BY <1>1, <1>2

\* Who is aboard, and who waits, in terms of the columns.
LEMMA Members ==
  ASSUME Columns, NEW p \in Rider, NEW r
  PROVE  /\ p \in Aboard(r) <=> rider[p].status = "riding" /\ rider[p].route = r
         /\ p \in Waiting(r) <=> rider[p].status = "waiting" /\ rider[p].route = r
<1>1. rider[p] \in RiderRow
  BY RiderFacts
<1> QED
  BY <1>1 DEF Aboard, Waiting, RiderRow

LEMMA MembersLater ==
  ASSUME Columns', NEW p \in Rider, NEW r
  PROVE  /\ p \in Aboard(r)' <=> rider'[p].status = "riding" /\ rider'[p].route = r
         /\ p \in Waiting(r)' <=> rider'[p].status = "waiting" /\ rider'[p].route = r
<1>1. rider'[p] \in RiderRow
  BY DEF Columns
<1> QED
  BY <1>1 DEF Aboard, Waiting, RiderRow

-----------------------------------------------------------------------------
(* Threads.  What a thread read or planned stays right while others work.  *)

LEMMA ThreadKept ==
  ASSUME Columns, Columns', Places, Grows, Calm,
         NEW u \in Thread, ThreadOK(u), task'[u] = task[u],
         \A s \in Route : Holds(u, s) /\ u # Job => route'[s] = route[s],
         Creates(u) => OpenRoutes' = {},
         Planned(u) => Moves
  PROVE  ThreadOK(u)'
<1>1. /\ Job \notin Web \cup Gps
      /\ At(u, "report") \/ At(u, "merge") => task[u].r # NoRoute
      /\ At(u, "report") => u # Job
      /\ At(u, "merge") => u # Job
      /\ task[u].r # NoRoute => task[u].r \in Route
  BY RouteAssumption DEF Places, Place, Born, Expiring, At
<1>2. \A pc \in Pcs : At(u, pc)' <=> At(u, pc)
  BY DEF At
<1>3. Pcs = {"idle", "report", "leaving", "late", "asked", "answered", "merge",
             "cancel", "planned", "replan"}
  BY DEF Pcs
<1>4. /\ Writes(u)' <=> Writes(u)
      /\ Creates(u)' <=> Creates(u)
  BY <1>2, <1>3 DEF Writes, Creates
<1>5. At(u, "report") \/ At(u, "merge") \/ Writes(u) =>
        task[u].r \in Route /\ route'[task[u].r] = route[task[u].r]
  BY <1>1 DEF Holds, Writes
<1>6. ReportOK(u)'
  BY <1>2, <1>3, <1>5 DEF ReportOK, ThreadOK, Within
<1>7. CopyOK(u)'
  BY <1>2, <1>3, <1>4, <1>5 DEF CopyOK, ThreadOK
<1>8. \A p \in Rider : Takes(task[u].plan, p) => Takes(task[u].plan, p)'
  BY DEF Takes, Calm, Drops, Follows
<1>9. AskOK(u)'
  <2>1. AskOK(u) /\ task[u].served \subseteq Rider /\ task[u].who \subseteq Rider
    BY TaskFacts DEF ThreadOK
  <2> QED
    BY <1>8, <2>1 DEF AskOK, Asking, HereFirst, Here, At
<1>10. PromiseOK(u)'
  <2>1. SUFFICES ASSUME Planned(u)', ~task[u].old
                 PROVE  PromiseOK(u)'
    BY DEF PromiseOK
  <2>2. Planned(u) /\ Moves
    BY <2>1, <1>2, <1>3, <1>4, <1>5 DEF Planned
  <2>3. PromiseOK(u) /\ task[u].who \subseteq Rider
    BY TaskFacts DEF ThreadOK
  <2>4. task[u].r # NoRoute => Here(route[task[u].r])' = Here(route[task[u].r])
    BY <2>2, <1>5 DEF Planned, Creates, Here
  <2>5. ASSUME NEW p \in Rider, Concerns(u, p)'
        PROVE  Concerns(u, p)
    <3>1. Left1(p) \/ Joined(p)
      BY <2>2 DEF Moves
    <3>2. p \notin astray' /\ p \notin astray
      BY <2>5 DEF Concerns, Grows
    <3>3. rider'[p].status = "waiting" => rider'[p] = rider[p]
      BY <3>1 DEF Left1, Joined
    <3>4. rider'[p].status = "riding" =>
            rider[p].route = rider'[p].route /\ rider[p].status \in {"waiting", "riding"}
      BY <3>1, <3>2 DEF Left1, Joined
    <3>5. task[u].r # NoRoute /\ p \in Aboard(task[u].r)' \cup Waiting(task[u].r)'
      BY <2>5 DEF Concerns
    <3> QED
      BY <3>2, <3>3, <3>4, <3>5, Members, MembersLater DEF Concerns
  <2>6. task[u].r # NoRoute =>
          (HereFirst(task[u].plan, route[task[u].r])' <=> HereFirst(task[u].plan, route[task[u].r]))
    BY <2>4 DEF HereFirst
  <2>7. /\ task[u].r # NoRoute => HereFirst(task[u].plan, route[task[u].r])
        /\ \A p \in Rider : Concerns(u, p) => Takes(task[u].plan, p)
        /\ At(u, "replan") => \A p \in task[u].who :
             /\ Takes(task[u].plan, p)
             /\ task[u].r # NoRoute => To[p] \notin Here(route[task[u].r])
    BY <2>1, <2>2, <2>3 DEF PromiseOK
  <2>8. /\ \A p \in Rider : Concerns(u, p)' => Takes(task[u].plan, p)'
        /\ At(u, "replan") => \A p \in task[u].who : Takes(task[u].plan, p)'
    BY <1>8, <2>3, <2>5, <2>7
  <2>9. At(u, "replan")' <=> At(u, "replan")
    BY <1>2, <1>3
  <2> QED
    BY <2>4, <2>6, <2>7, <2>8, <2>9 DEF PromiseOK
<1> QED
  BY <1>6, <1>7, <1>9, <1>10 DEF ThreadOK

\* A thread that holds no copy has nothing to be right about.
LEMMA ThreadFree ==
  ASSUME NEW u \in Thread, task'[u].pc \notin Bound
  PROVE  ThreadOK(u)'
<1>1. /\ ~At(u, "report")' /\ ~At(u, "merge")' /\ ~At(u, "replan")'
      /\ ~Asking(u)'
  BY DEF At, Asking, Bound
<1> QED
  BY <1>1 DEF ThreadOK, ReportOK, CopyOK, AskOK, PromiseOK, Planned, Writes, Creates


-----------------------------------------------------------------------------
(* Places and routes.                                                      *)

\* Born, after the step.
Lives(r) == r \in Route /\ route'[r].state # "none"

LEMMA PlacesKept ==
  ASSUME Places,
         \A s \in Route : Born(s) => Lives(s),
         \A u \in Thread : task'[u] = task[u] \/ Place(u)',
         \A p \in Rider : rider'[p].route = rider[p].route \/ Lives(rider'[p].route),
         \A x \in overdue' : x \in overdue \/ Lives(x[1])
  PROVE  Places'
<1>0. ASSUME NEW x
      PROVE  /\ Born(x)' <=> Lives(x)
             /\ Born(x) => Lives(x)
  <2>1. Born(x)' <=> Lives(x)
    BY DEF Born, Lives
  <2>2. ASSUME Born(x) PROVE Lives(x)
    <3>1. x \in Route
      BY <2>2 DEF Born
    <3> QED
      BY <2>2, <3>1
  <2> QED
    BY <2>1, <2>2
<1>1. ASSUME NEW u \in Thread PROVE Place(u)'
  <2>1. CASE task'[u] = task[u]
    BY <1>0, <2>1 DEF Places, Place, At, Expiring
  <2> QED
    BY <2>1
<1>2. ASSUME NEW p \in Rider, rider'[p].route # NoRoute PROVE Lives(rider'[p].route)
  BY <1>0, <1>2 DEF Places
<1>3. ASSUME NEW x \in overdue' PROVE Lives(x[1])
  BY <1>0, <1>3 DEF Places
<1>4. \A p \in Rider : rider'[p].route # NoRoute =>
        rider'[p].route \in Route /\ route'[rider'[p].route].state # "none"
  BY <1>2 DEF Lives
<1>5. \A x \in overdue' : x[1] \in Route /\ route'[x[1]].state # "none"
  BY <1>3 DEF Lives
<1> QED
  BY <1>1, <1>4, <1>5 DEF Places, Born

LEMMA PlaceIdle ==
  ASSUME NEW u \in Thread, task'[u] = Idle
  PROVE  Place(u)'
BY IdleTask DEF Place, At, Expiring

\* While routes only close, and records are only added.
LEMMA SteadyKept ==
  ASSUME Columns, Columns', One, Progress, Steady
  PROVE  /\ OpenRoutes' \subseteq OpenRoutes /\ One' /\ Progress'
         /\ \A s \in Route : Born(s) => Lives(s)
<1>1. \A s \in Route : route'[s] = route[s] \/ route'[s] = Shut
  BY DEF Steady, Closing
<1>2. OpenRoutes' \subseteq OpenRoutes
  BY <1>1, ShutRows DEF OpenRoutes
<1>3. One'
  BY <1>2 DEF One
<1>4. ASSUME NEW s \in Route
      PROVE  /\ Within(route'[s])
             /\ \A i \in 1 .. route'[s].passed : route'[s].midway[i] \in rows'[s]
  <2>1. CASE route'[s] = Shut
    BY <2>1, ShutRows
  <2>2. CASE route'[s] = route[s]
    BY <2>2 DEF Progress, Steady
  <2> QED
    BY <1>1, <2>1, <2>2
<1>5. \A s \in Route : Born(s) => Lives(s)
  BY <1>1, ShutRows DEF Born, Lives
<1>6. Progress'
  BY <1>4 DEF Progress, Within
<1> QED
  BY <1>2, <1>3, <1>5, <1>6

\* The course of a route is kept while its row is, and nobody joins it.
LEMMA CourseKept ==
  ASSUME Columns, Columns', Grows, NEW s \in Route, CourseOK(s), route'[s] = route[s],
         \A p \in Rider \ astray' :
           rider'[p].route = s /\ rider'[p].status \in {"waiting", "riding"} =>
             rider'[p] = rider[p]
  PROVE  CourseOK(s)'
<1>1. SUFFICES ASSUME route'[s].state = "open", s \notin outdated'
               PROVE  /\ NoReturn(route[s])
                      /\ \A p \in Rider \ astray' :
                           /\ p \in Waiting(s)' => Awaited(p, route[s])
                           /\ p \in Aboard(s)' => Carried(p, route[s])
  BY DEF CourseOK, NoReturn, Awaited, Carried
<1>2. ASSUME NEW p \in Rider \ astray'
      PROVE  /\ p \in Waiting(s)' => p \in Waiting(s)
             /\ p \in Aboard(s)' => p \in Aboard(s)
             /\ p \notin astray
  BY Members, MembersLater DEF Grows
<1>3. route[s].state = "open" /\ s \notin outdated
  BY <1>1 DEF Grows
<1> QED
  BY <1>1, <1>2, <1>3 DEF CourseOK

LEMMA CourseShut ==
  ASSUME NEW s \in Route, route'[s] = Shut
  PROVE  CourseOK(s)'
BY ShutRows DEF CourseOK

LEMMA CoursesSteady ==
  ASSUME Columns, Columns', Grows, \A s \in Route : CourseOK(s), Steady, Leaves
  PROVE  \A s \in Route : CourseOK(s)'
<1> SUFFICES ASSUME NEW s \in Route PROVE CourseOK(s)'
  OBVIOUS
<1>1. CASE route'[s] = Shut
  BY <1>1, CourseShut
<1>2. CASE route'[s] = route[s]
  <2>1. \A p \in Rider : rider'[p].status \in {"waiting", "riding"} => rider'[p] = rider[p]
    BY DEF Leaves, Left1
  <2> QED
    BY <1>2, <2>1, CourseKept
<1> QED
  BY <1>1, <1>2 DEF Steady, Closing

\* Threads while routes only close.
LEMMA ThreadSteady ==
  ASSUME Columns, Columns', Places, Grows, Steady, Moves, NEW u \in Thread, ThreadOK(u),
         task'[u] = task[u] \/ task'[u].pc \notin Bound
  PROVE  ThreadOK(u)'
<1>1. CASE task'[u].pc \notin Bound
  BY <1>1, ThreadFree
<1>2. CASE task'[u] = task[u] /\ task[u].pc \in Bound
  <2>1. task'[u] # Idle
    BY <1>2, IdleTask DEF Bound
  <2>2. \A s \in Route : Holds(u, s) /\ u # Job => route'[s] = route[s]
    BY <1>2, <2>1 DEF Steady, Closing
  <2>3. OpenRoutes' \subseteq OpenRoutes
    BY ShutRows DEF Steady, Closing, OpenRoutes
  <2>4. Creates(u) => OpenRoutes' = {}
    BY <2>3 DEF ThreadOK, CopyOK
  <2> QED
    BY <1>2, <2>2, <2>4, MovesCalm, ThreadKept
<1> QED
  BY <1>1, <1>2


-----------------------------------------------------------------------------
(* Steps that write no list of stops.                                      *)

\* The thread goes on without a copy.
Settled(u) == task'[u].pc \notin Bound /\ Place(u)'

LEMMA SignalsKept ==
  ASSUME Signals, UNCHANGED <<client, unable>>,
         \A u \in Thread : task'[u] = task[u] \/ task'[u].pc # "leaving"
  PROVE  Signals'
<1>1. (\E u \in Thread : At(u, "leaving"))' => \E u \in Thread : At(u, "leaving")
  BY DEF At
<1> QED
  BY <1>1 DEF Signals

LEMMA Quiet ==
  ASSUME Inv, Grows, Columns', Steady, Moves, Signals', \A s \in Route : CourseOK(s)',
         \A u \in Thread : task'[u] = task[u] \/ Settled(u),
         overdue' \subseteq overdue
  PROVE  Inv'
<1>1. Columns /\ Places /\ One /\ Progress /\ \A t \in Thread : ThreadOK(t)
  BY DEF Inv
<1>2. One' /\ Progress' /\ \A s \in Route : Born(s) => Lives(s)
  BY <1>1, SteadyKept
<1>3. \A p \in Rider : rider'[p].route = rider[p].route
  BY DEF Moves, Left1, Joined
<1>4. Places'
  BY <1>1, <1>2, <1>3, PlacesKept DEF Settled
<1>5. \A u \in Thread : ThreadOK(u)'
  BY <1>1, ThreadSteady DEF Settled
<1> QED
  BY <1>2, <1>4, <1>5 DEF Inv, Grows

LEMMA QuietLeaving ==
  ASSUME Inv, Grows, Columns', Steady, Leaves, Signals',
         \A u \in Thread : task'[u] = task[u] \/ Settled(u),
         overdue' \subseteq overdue
  PROVE  Inv'
<1>1. Columns /\ \A s \in Route : CourseOK(s)
  BY DEF Inv
<1>2. \A s \in Route : CourseOK(s)'
  BY <1>1, CoursesSteady
<1>3. Moves
  BY DEF Moves, Leaves
<1> QED
  BY <1>2, <1>3, Quiet

LEMMA RestsSettled ==
  ASSUME NEW t \in Thread, Rests(t)
  PROVE  /\ \A u \in Thread : task'[u] = task[u] \/ Settled(u)
         /\ \A u \in Thread : task'[u] = task[u] \/ task'[u].pc # "leaving"
BY PlaceIdle, IdleTask DEF Rests, Others, Settled, Bound

LEMMA NothingWritten ==
  ASSUME UNCHANGED db
  PROVE  Steady /\ Leaves
BY DEF db, Steady, Leaves, Left1

\* A handler that gives up changes nothing.
LEMMA GivesUp ==
  ASSUME Inv, Grows, NEW t \in Thread, Finish(t), UNCHANGED <<db, board, keys>>
  PROVE  Inv'
<1>1. Columns /\ Signals
  BY DEF Inv
<1>2. Rests(t) /\ task' \in [Thread -> Task]
  BY <1>1, Finished
<1>3. Columns'
  BY <1>1, <1>2 DEF Columns, db, board, keys
<1>4. Signals'
  BY <1>1, <1>2, RestsSettled, SignalsKept DEF board
<1> QED
  BY <1>2, <1>3, <1>4, RestsSettled, NothingWritten, QuietLeaving DEF keys

LEMMA NextThrow ==
  ASSUME Inv, Grows, NEW t \in Thread,
         Throw(t) \/ Drive(t) \/ LateUnanswered(t) \/ CancelUnasked(t) \/ Unsupported(t)
  PROVE  Inv'
BY GivesUp DEF Throw, Drive, LateUnanswered, CancelUnasked, Unsupported

\* The signals of the car.
LEMMA NextStartLeaving ==
  ASSUME Inv, Grows, NEW t \in Thread, StartLeaving(t)
  PROVE  Inv'
<1>1. /\ Columns /\ Signals /\ Finish(t) /\ client = 1 /\ client' = 2
      /\ startKey' = TRUE /\ UNCHANGED <<db, unable, stopKey, overdue>>
  BY DEF Inv, StartLeaving
<1>2. Rests(t) /\ task' \in [Thread -> Task]
  BY <1>1, Finished
<1>3. Columns'
  BY <1>1, <1>2 DEF Columns, db
<1>4. ~\E u \in Thread : At(u, "leaving")'
  BY <1>1, <1>2, RestsSettled DEF Signals, At
<1>5. Signals'
  BY <1>1, <1>4 DEF Signals
<1> QED
  BY <1>1, <1>2, <1>3, <1>5, RestsSettled, NothingWritten, QuietLeaving

LEMMA NextTakeOrders ==
  ASSUME Inv, Grows, NEW t \in Thread, TakeOrders(t)
  PROVE  Inv'
<1>1. PICK l : l = [Idle EXCEPT !.pc = "leaving"]
  OBVIOUS
<1>2. /\ Columns /\ Places /\ Signals /\ At(t, "report") /\ client = 2
      /\ unable' = IF unable = 0 THEN 0 ELSE unable - 1
      /\ task' = [task EXCEPT ![t] = l] /\ UNCHANGED <<db, client, keys>>
  BY <1>1 DEF Inv, TakeOrders
<1>3. l \in Task /\ l.r = NoRoute /\ l.pc = "leaving"
  BY <1>1, LeavingTask
<1>4. task' \in [Thread -> Task] /\ task'[t] = l /\ Others(t)
  BY <1>2, <1>3 DEF Columns, Others
<1>5. unable' = 0
  BY <1>2 DEF Signals, Columns
<1>6. Columns'
  BY <1>2, <1>4, <1>5 DEF Columns, db, keys
<1>7. Signals'
  BY <1>2, <1>5 DEF Signals
<1>8. t \in Gps
  BY <1>2 DEF Places, Place
<1>9. Settled(t)
  BY <1>3, <1>4, <1>8 DEF Settled, Bound, Place, At, Expiring
<1> QED
  BY <1>2, <1>4, <1>6, <1>7, <1>9, NothingWritten, QuietLeaving DEF Others, keys

LEMMA NextLeave ==
  ASSUME Inv, Grows, NEW t \in Thread, Leave(t)
  PROVE  Inv'
<1>1. /\ Columns /\ Signals /\ Finish(t) /\ At(t, "leaving") /\ client' = 0
      /\ UNCHANGED <<db, unable, keys>>
  BY DEF Inv, Leave
<1>2. Rests(t) /\ task' \in [Thread -> Task]
  BY <1>1, Finished
<1>3. Columns'
  BY <1>1, <1>2 DEF Columns, db, keys
<1>4. Signals'
  BY <1>1 DEF Signals
<1> QED
  BY <1>1, <1>2, <1>3, <1>4, RestsSettled, NothingWritten, QuietLeaving DEF keys

LEMMA NextExpires ==
  ASSUME Inv, Grows, StopExpires \/ StartExpires
  PROVE  Inv'
<1>1. /\ Columns /\ Signals /\ UNCHANGED <<db, board, overdue, task>>
      /\ stopKey' \in BOOLEAN /\ startKey' \in BOOLEAN
  BY DEF Inv, StopExpires, StartExpires, Columns
<1>2. Columns'
  BY <1>1 DEF Columns, db, board
<1>3. Signals'
  BY <1>1, SignalsKept DEF board
<1> QED
  BY <1>1, <1>2, <1>3, NothingWritten, QuietLeaving


-----------------------------------------------------------------------------
(* Steps that close a route.                                               *)

LEMMA ShutRoute ==
  ASSUME Columns, NEW r \in Route, route' = [route EXCEPT ![r] = Shut]
  PROVE  /\ route' \in [Route -> RouteRow] /\ route'[r] = Shut
         /\ \A s \in Route : s # r => route'[s] = route[s]
BY ShutRows DEF Columns

\* Nobody else holds a copy, and who closed the route is done.
LEMMA ShutSteady ==
  ASSUME Columns, NEW r \in Route, Born(r), route' = [route EXCEPT ![r] = Shut],
         NEW t \in Thread, Alone(t, r), task'[t] = Idle, rows' = rows
  PROVE  Steady
<1>1. /\ route'[r] = Shut
      /\ \A s \in Route : s # r => route'[s] = route[s]
  BY ShutRoute
<1>2. Closing(r)
  BY <1>1 DEF Closing, Alone
<1> QED
  BY <1>1, <1>2 DEF Steady

LEMMA HoldersNone ==
  ASSUME NEW t \in Thread, NEW r, Holders(t, r) = {}
  PROVE  Alone(t, r)
BY DEF Holders, Alone, Holds, At

LEMMA NextEndRoute ==
  ASSUME Inv, Grows, ~overtaken', NEW t \in Thread, EndRoute(t)
  PROVE  Inv'
<1>1. PICK r : r = task[t].r
  OBVIOUS
<1>2. /\ At(t, "report") /\ route' = [route EXCEPT ![r] = Shut]
      /\ rider' = SetStatus(Aboard(r), "done") /\ Holders(t, r) = {}
      /\ Finish(t) /\ UNCHANGED <<rows, board, keys>>
  BY <1>1 DEF EndRoute, Overwrite
<1>3. /\ Columns /\ Places /\ Signals /\ Born(r) /\ r \in Route
  BY <1>1, <1>2 DEF Inv, Places, Place, Born
<1>4. Rests(t) /\ task' \in [Thread -> Task]
  BY <1>2, <1>3, Finished
<1>5. /\ rider' \in [Rider -> RiderRow]
      /\ \A p \in Rider \ Aboard(r) : rider'[p] = rider[p]
      /\ \A p \in Rider \cap Aboard(r) :
           rider'[p].status = "done" /\ rider'[p].route = rider[p].route
  BY <1>2, <1>3, StatusSet
<1>6. Leaves
  BY <1>3, <1>5, Members DEF Leaves, Left1
<1>7. Columns'
  BY <1>2, <1>3, <1>4, <1>5, ShutRoute DEF Columns, board, keys
<1>8. Steady
  BY <1>2, <1>3, <1>4, HoldersNone, ShutSteady DEF Rests
<1>9. Signals'
  BY <1>2, <1>3, <1>4, RestsSettled, SignalsKept DEF board
<1> QED
  BY <1>2, <1>4, <1>6, <1>7, <1>8, <1>9, RestsSettled, QuietLeaving DEF keys

\* CancelRoute shuts an open route or does nothing.
LEMMA Cancelled ==
  ASSUME Columns, ~overtaken', NEW t \in Thread, NEW r \in Route \cup {NoRoute},
         CancelRoute(t, r) \/ UNCHANGED route, task'[t] = Idle, rows' = rows
  PROVE  Steady /\ route' \in [Route -> RouteRow]
<1>1. CASE UNCHANGED route
  BY <1>1 DEF Steady, Columns
<1>2. CASE CancelRoute(t, r) /\ r \in OpenRoutes
  <2>1. route' = [route EXCEPT ![r] = Shut] /\ Holders(t, r) = {} /\ r \in Route
    BY <1>2 DEF CancelRoute, OpenRoutes, Overwrite
  <2>2. Born(r)
    BY <1>2 DEF OpenRoutes, Born
  <2> QED
    BY <2>1, <2>2, HoldersNone, ShutSteady, ShutRoute
<1>3. CASE CancelRoute(t, r) /\ r \notin OpenRoutes
  BY <1>1, <1>3 DEF CancelRoute
<1> QED
  BY <1>1, <1>2, <1>3

LEMMA NextDropped ==
  ASSUME Inv, Grows, ~overtaken', NEW t \in Thread, CancelDropped(t) \/ LateDropped(t)
  PROVE  Inv'
<1>1. /\ CancelRoute(t, task[t].r) \/ UNCHANGED route
      /\ Finish(t) /\ UNCHANGED <<rider, rows, board, keys>>
  BY DEF CancelDropped, LateDropped
<1>2. Columns /\ Signals
  BY DEF Inv
<1>3. Rests(t) /\ task' \in [Thread -> Task]
  BY <1>1, <1>2, Finished
<1>4. Steady /\ route' \in [Route -> RouteRow]
  BY <1>1, <1>2, <1>3, TaskFacts, Cancelled DEF Rests
<1>5. Leaves
  BY <1>1 DEF Leaves, Left1
<1>6. Columns'
  BY <1>1, <1>2, <1>3, <1>4 DEF Columns, board, keys
<1>7. Signals'
  BY <1>1, <1>2, <1>3, RestsSettled, SignalsKept DEF board
<1> QED
  BY <1>1, <1>3, <1>4, <1>5, <1>6, <1>7, RestsSettled, QuietLeaving DEF keys

LEMMA NextFinishRoute ==
  ASSUME Inv, Grows, ~overtaken', NEW r \in Route, FinishRoute(r)
  PROVE  Inv'
<1>1. /\ route[r].state = "open" /\ route' = [route EXCEPT ![r] = Shut]
      /\ Holders(Job, r) = {} /\ UNCHANGED <<rider, rows, board, keys, task>>
  BY DEF FinishRoute, Overwrite
<1>2. Columns /\ Signals
  BY DEF Inv
<1>3. Columns'
  BY <1>1, <1>2, ShutRoute DEF Columns, board, keys
<1>4. Alone(Job, r)
  BY <1>1, HoldersNone DEF Thread
<1>5. Closing(r)
  BY <1>1, <1>2, <1>4, ShutRoute DEF Closing, Alone, Born
<1>6. Steady
  BY <1>1, <1>2, <1>5, ShutRoute DEF Steady
<1>7. Leaves
  BY <1>1 DEF Leaves, Left1
<1>8. Signals'
  BY <1>1, <1>2, SignalsKept DEF board
<1> QED
  BY <1>1, <1>3, <1>6, <1>7, <1>8, QuietLeaving DEF keys

-----------------------------------------------------------------------------
(* A rider is scanned and boards: the destination is ahead of the stop,    *)
(* unless nobody planned it.                                               *)

\* A step of the past: nothing that is planned or reported changes.
LEMMA Untouched ==
  ASSUME Inv, Grows, UNCHANGED <<db, board, keys, task>>
  PROVE  Inv'
<1>1. UNCHANGED <<route, rider, rows, client, unable, stopKey, startKey, overdue, task>>
  BY DEF db, board, keys
<1>2. Columns /\ Signals
  BY DEF Inv
<1>3. Columns'
  BY <1>1, <1>2 DEF Columns
<1>4. Signals'
  BY <1>1, <1>2, SignalsKept
<1>5. Steady /\ Leaves
  BY <1>1, NothingWritten DEF db
<1> QED
  BY <1>1, <1>3, <1>4, <1>5, QuietLeaving

LEMMA NextLook ==
  ASSUME Inv, Grows, NEW p \in Rider, Scan(p) \/ Look(p)
  PROVE  Inv'
BY Untouched DEF Scan, Look

LEMMA NextRecord ==
  ASSUME Inv, Grows, NEW p \in Rider, Record(p)
  PROVE  Inv'
<1>1. PICK r : r = scan[p].r
  OBVIOUS
<1>2. /\ rows' = [rows EXCEPT ![r] = @ \cup {From[p]}]
      /\ UNCHANGED <<route, rider, board, keys, task>>
  BY <1>1 DEF Record
<1>3. Columns /\ Signals /\ From[p] \in Station
  BY RouteAssumption DEF Inv
<1>4. /\ rows' \in [Route -> SUBSET Station]
      /\ \A s \in Route : rows[s] \subseteq rows'[s]
  <2>1. rows \in [Route -> SUBSET Station]
    BY <1>3 DEF Columns
  <2>2. CASE r \in Route
    BY <1>2, <1>3, <2>1, <2>2
  <2>3. CASE r \notin Route
    <3>1. rows' = [s \in Route |-> rows[s]]
      BY <1>2, <2>1, <2>3
    <3> QED
      BY <2>1, <3>1
  <2> QED
    BY <2>2, <2>3
<1>5. Columns'
  BY <1>2, <1>3, <1>4 DEF Columns, board, keys
<1>6. Steady /\ Leaves
  BY <1>2, <1>4 DEF Steady, Leaves, Left1
<1>7. Signals'
  BY <1>2, <1>3, SignalsKept DEF board
<1> QED
  BY <1>2, <1>5, <1>6, <1>7, QuietLeaving DEF keys

LEMMA NextBoard ==
  ASSUME Inv, Grows, NEW p \in Rider, Board(p)
  PROVE  Inv'
<1>1. PICK r : r = rider[p].route
  OBVIOUS
<1>2. /\ rider' = SetStatus({p}, "riding")
      /\ UNCHANGED <<route, rows, board, keys, task>>
      /\ (rider[p].status = "waiting" /\ Fetched(p)) \/ p \in astray'
  BY DEF Board
<1>3. Columns /\ Signals /\ \A s \in Route : CourseOK(s)
  BY DEF Inv
<1>4. From[p] \in Station /\ To[p] \in Station /\ From[p] # To[p]
  BY RouteAssumption
<1>5. /\ rider' \in [Rider -> RiderRow]
      /\ \A q \in Rider \ {p} : rider'[q] = rider[q]
      /\ rider'[p].status = "riding" /\ rider'[p].route = r
  <2>1. /\ rider' \in [Rider -> RiderRow]
        /\ \A q \in Rider \ {p} : rider'[q] = rider[q]
        /\ \A q \in Rider \cap {p} : rider'[q].status = "riding" /\ rider'[q].route = rider[q].route
    BY <1>2, <1>3, StatusSet
  <2> QED
    BY <1>1, <2>1
<1>7. Columns'
  BY <1>2, <1>3, <1>5 DEF Columns, board, keys
<1>8. Steady
  BY <1>2 DEF Steady
<1>9. Moves
  BY <1>1, <1>2, <1>5 DEF Moves, Left1, Joined
<1>10. Signals'
  BY <1>2, <1>3, SignalsKept DEF board
<1>11. ASSUME NEW s \in Route PROVE CourseOK(s)'
  <2>1. CASE s # r \/ p \in astray'
    BY <1>2, <1>3, <1>5, <1>7, <2>1, CourseKept
  <2>2. CASE s = r /\ p \notin astray' /\ route[r].state = "open" /\ r \notin outdated'
    <3>1. PICK i \in {route[r].passed, route[r].passed + 1} \cap DOMAIN route[r].midway :
            route[r].midway[i] = From[p]
      BY <1>1, <1>2, <2>2 DEF OpenRoutes, Fetched
    <3>2. p \in Waiting(r) /\ p \notin astray /\ r \notin outdated
      BY <1>1, <1>2, <1>3, <2>2, Members DEF Grows
    <3>3. NoReturn(route[r]) /\ Awaited(p, route[r])
      BY <1>3, <2>2, <3>2 DEF CourseOK
    <3>4. /\ DOMAIN route[r].midway = 1 .. Len(route[r].midway)
          /\ Len(route[r].midway) \in Nat /\ route[r].passed \in Nat
      BY <1>3, <2>2, RouteFacts, RowFacts, RouteAssumption
    <3>5. PICK j \in DOMAIN route[r].midway : j > i /\ route[r].midway[j] = To[p]
      BY <3>1, <3>3, <3>4 DEF Awaited
    <3>6. i \in Nat /\ j \in Nat /\ i >= route[r].passed /\ j > route[r].passed
      BY <3>1, <3>4, <3>5
    <3>7. ASSUME route[r].passed > 0 PROVE route[r].midway[route[r].passed] # To[p]
      <4>1. CASE i = route[r].passed
        BY <1>4, <3>1, <4>1
      <4>2. CASE i = route[r].passed + 1
        <5>1. route[r].passed \in DOMAIN route[r].midway /\ j > route[r].passed + 1
          BY <3>1, <3>4, <3>5, <3>7, <4>2
        <5>2. route[r].midway[route[r].passed] # route[r].midway[j]
          BY <3>3, <3>4, <3>5, <5>1 DEF NoReturn
        <5> QED
          BY <3>5, <5>2
      <4> QED
        BY <3>1, <4>1, <4>2
    <3>8. Carried(p, route[r])
      BY <3>5, <3>6, <3>7 DEF Carried
    <3>9. ASSUME NEW q \in Rider \ astray'
          PROVE  /\ q \in Waiting(r)' => Awaited(q, route[r])
                 /\ q \in Aboard(r)' => Carried(q, route[r])
      <4>1. CASE q = p
        BY <1>5, <1>7, <3>8, <4>1, MembersLater
      <4>2. CASE q # p
        <5>1. /\ q \in Waiting(r)' => q \in Waiting(r)
              /\ q \in Aboard(r)' => q \in Aboard(r)
              /\ q \notin astray
          BY <1>3, <1>5, <1>7, <4>2, Members, MembersLater DEF Grows
        <5> QED
          BY <1>3, <2>2, <3>2, <5>1 DEF CourseOK
      <4> QED
        BY <4>1, <4>2
    <3> QED
      BY <1>2, <2>2, <3>3, <3>9 DEF CourseOK, NoReturn, Awaited, Carried
  <2>3. CASE s = r /\ ~(route[r].state = "open" /\ r \notin outdated')
    BY <1>2, <2>3 DEF CourseOK
  <2> QED
    BY <2>1, <2>2, <2>3
<1> QED
  BY <1>2, <1>7, <1>8, <1>9, <1>10, <1>11, Quiet DEF keys


-----------------------------------------------------------------------------
(* Steps that read: reports, requests, plans.                              *)

LEMMA Forth ==
  ASSUME Inv, Grows, Columns', Steady, Leaves, Signals', overdue' \subseteq overdue,
         NEW t \in Thread, Others(t), Place(t)', ThreadOK(t)'
  PROVE  Inv'
<1>1. /\ Columns /\ Places /\ One /\ Progress /\ \A u \in Thread : ThreadOK(u)
      /\ \A s \in Route : CourseOK(s)
  BY DEF Inv
<1>2. One' /\ Progress' /\ \A s \in Route : Born(s) => Lives(s)
  BY <1>1, SteadyKept
<1>3. Moves /\ \A p \in Rider : rider'[p].route = rider[p].route
  BY DEF Moves, Leaves, Left1
<1>4. Places'
  BY <1>1, <1>2, <1>3, PlacesKept DEF Others
<1>5. ASSUME NEW u \in Thread PROVE ThreadOK(u)'
  BY <1>1, <1>3, ThreadSteady DEF Others
<1>6. \A s \in Route : CourseOK(s)'
  BY <1>1, CoursesSteady
<1> QED
  BY <1>2, <1>4, <1>5, <1>6 DEF Inv, Grows

LEMMA Begun ==
  ASSUME Columns, NEW t \in Thread, NEW op \in Pcs, NEW r \in Route \cup {NoRoute},
         NEW row \in RouteRow, NEW who \in SUBSET Rider, Begin(t, op, r, row, who)
  PROVE  /\ Others(t) /\ task' \in [Thread -> Task]
         /\ task'[t].pc = op /\ task'[t].r = r /\ task'[t].row = row
<1>1. PICK k : k = [Idle EXCEPT !.pc = op, !.r = r, !.row = row, !.who = who]
  OBVIOUS
<1>2. task' = [task EXCEPT ![t] = k]
  BY <1>1 DEF Begin
<1>3. /\ k \in Task /\ k.pc = op /\ k.r = r /\ k.row = row
  BY <1>1, IdleTask DEF Task
<1>4. task' \in [Thread -> Task] /\ task'[t] = k /\ Others(t)
  BY <1>2, <1>3 DEF Columns, Others
<1> QED
  BY <1>3, <1>4

LEMMA NextReadReport ==
  ASSUME Inv, Grows, NEW t \in Thread, ReadReport(t)
  PROVE  Inv'
<1>1. PICK r \in Route :
        /\ OpenRoutes = {r} /\ route[r].midway # <<>>
        /\ Begin(t, "report", r, route[r], {})
  BY DEF ReadReport
<1>2. t \in Gps /\ UNCHANGED <<db, board, keys>> /\ Columns /\ Signals /\ Progress
  BY DEF ReadReport, Inv
<1>3. /\ Others(t) /\ task' \in [Thread -> Task]
      /\ task'[t].pc = "report" /\ task'[t].r = r /\ task'[t].row = route[r]
  BY <1>1, <1>2, RouteFacts, Begun DEF Pcs
<1>4. Columns'
  BY <1>2, <1>3 DEF Columns, db, board, keys
<1>5. route' = route /\ route[r].state = "open"
  BY <1>1, <1>2 DEF db, OpenRoutes
<1>6. r # NoRoute
  BY RouteAssumption
<1>7. Place(t)'
  BY <1>2, <1>3, <1>5, <1>6 DEF Place, At, Born, Expiring
<1>8. route[r].passed <= route[r].passed
  BY <1>2, RouteFacts, RowFacts, RouteAssumption
<1>9. Within(route[r])
  BY <1>2 DEF Progress
<1>10. ReportOK(t)'
  BY <1>1, <1>3, <1>5, <1>8, <1>9 DEF ReportOK, Within
<1>11. CopyOK(t)' /\ AskOK(t)' /\ PromiseOK(t)'
  BY <1>3 DEF CopyOK, AskOK, Asking, PromiseOK, Planned, Writes, Creates, At
<1>12. Signals'
  BY <1>2, <1>3, SignalsKept DEF board, Others
<1> QED
  BY <1>2, <1>3, <1>4, <1>7, <1>10, <1>11, <1>12, NothingWritten, Forth DEF ThreadOK, keys

LEMMA NextOverdueExpires ==
  ASSUME Inv, Grows, NEW r \in Route, NEW s \in Station, OverdueExpires(r, s)
  PROVE  Inv'
<1>1. PICK late : late = {p \in Waiting(r) : From[p] = s}
  OBVIOUS
<1>2. /\ <<r, s>> \in overdue /\ overdue' = overdue \ {<<r, s>>}
      /\ (\E t \in Web : Begin(t, "late", r, NoRow, late)) \/ UNCHANGED task
      /\ UNCHANGED <<db, board, stopKey, startKey>>
  BY <1>1 DEF OverdueExpires
<1>3. Columns /\ Signals /\ Places
  BY DEF Inv
<1>4. Born(r) /\ r # NoRoute /\ late \in SUBSET Rider /\ overdue' \subseteq overdue
  <2>1. Born(<<r, s>>[1])
    BY <1>2, <1>3 DEF Places
  <2> QED
    BY <1>1, <1>2, <2>1, RouteAssumption DEF Waiting
<1>5. CASE UNCHANGED task
  <2>1. Columns'
    BY <1>2, <1>3, <1>4, <1>5 DEF Columns, db, board
  <2>2. Signals'
    BY <1>2, <1>3, <1>5, SignalsKept DEF board
  <2> QED
    BY <1>2, <1>4, <1>5, <2>1, <2>2, NothingWritten, QuietLeaving
<1>6. ASSUME NEW t \in Web, Begin(t, "late", r, NoRow, late) PROVE Inv'
  <2>1. t \in Thread
    BY DEF Thread
  <2>2. /\ Others(t) /\ task' \in [Thread -> Task]
        /\ task'[t].pc = "late" /\ task'[t].r = r
    BY <1>3, <1>4, <1>6, <2>1, ShutRows, Begun DEF Pcs
  <2>3. Columns'
    BY <1>2, <1>3, <1>4, <2>2 DEF Columns, db, board
  <2>4. Place(t)'
    BY <1>2, <1>4, <1>6, <2>2 DEF Place, At, Born, Expiring, db
  <2>5. ThreadOK(t)'
    BY <2>1, <2>2, ThreadFree DEF Bound
  <2>6. Signals'
    BY <1>2, <1>3, <2>2, SignalsKept DEF board, Others
  <2> QED
    BY <1>2, <1>4, <2>1, <2>2, <2>3, <2>4, <2>5, <2>6, NothingWritten, Forth
<1> QED
  BY <1>2, <1>5, <1>6

LEMMA NextCancel ==
  ASSUME Inv, Grows, NEW t \in Thread, NEW p \in Rider, Cancel(t, p)
  PROVE  Inv'
<1>1. /\ t \in Web /\ rider' = SetStatus({p}, "expired")
      /\ Begin(t, "cancel", rider[p].route, NoRow, {})
      /\ UNCHANGED <<route, rows, board, keys>>
  BY DEF Cancel
<1>2. Columns /\ Signals /\ Places
  BY DEF Inv
<1>3. /\ Others(t) /\ task' \in [Thread -> Task]
      /\ task'[t].pc = "cancel" /\ task'[t].r = rider[p].route
  <2>1. /\ "cancel" \in Pcs /\ rider[p].route \in Route \cup {NoRoute}
        /\ NoRow \in RouteRow /\ {} \in SUBSET Rider
    BY <1>2, RiderFacts, ShutRows DEF Pcs
  <2> QED
    BY <1>1, <1>2, <2>1, Begun
<1>4. /\ rider' \in [Rider -> RiderRow]
      /\ \A q \in Rider \ {p} : rider'[q] = rider[q]
      /\ \A q \in Rider \cap {p} :
           rider'[q].status = "expired" /\ rider'[q].route = rider[q].route
  BY <1>1, <1>2, StatusSet
<1>5. Columns'
  BY <1>1, <1>2, <1>3, <1>4 DEF Columns, board, keys
<1>6. Steady /\ Leaves
  BY <1>1, <1>4 DEF Steady, Leaves, Left1
<1>7. Place(t)'
  BY <1>1, <1>2, <1>3 DEF Place, Places, At, Born, Expiring
<1>8. ThreadOK(t)'
  BY <1>3, ThreadFree DEF Bound
<1>9. Signals'
  BY <1>1, <1>2, <1>3, SignalsKept DEF board, Others
<1> QED
  BY <1>1, <1>3, <1>5, <1>6, <1>7, <1>8, <1>9, Forth DEF keys

\* What the service promises in a plan.
LEMMA FitsPlan ==
  ASSUME Columns, NEW plan \in Plans, NEW r \in Route \cup {NoRoute},
         NEW S \in SUBSET Rider, Fits(plan, r, S), NEW row, row = Selected(r)
  PROVE  /\ HereFirst(plan, row)
         /\ \A p \in S : Takes(plan, p)
         /\ \A p \in S : rider[p].status = "waiting" => To[p] \notin Here(row)
<1>1. PICK here : here = Here(row)
  OBVIOUS
<1>2. /\ \A i \in DOMAIN plan : plan[i] \in here => i = 1
      /\ \A p \in S :
           IF rider[p].status = "riding" THEN Drops(plan, p)
           ELSE Fetches(plan, p) \/ (From[p] \in here /\ Drops(plan, p))
  <2>1. here = IF r = NoRoute THEN {} ELSE Here(route[r])
    BY <1>1, SelectedFacts
  <2> QED
    BY <2>1 DEF Fits
<1>3. /\ DOMAIN plan = 1 .. Len(plan) /\ Len(plan) \in Nat
      /\ \A i, j \in 1 .. Len(plan) : plan[i] = plan[j] => i = j
  BY PlanFacts, RouteAssumption
<1>4. \A x, y \in here : x = y
  BY <1>1 DEF Here
<1>5. ASSUME NEW p \in S
      PROVE  Drops(plan, p) /\ (rider[p].status # "riding" => Follows(plan, p))
  <2>1. Drops(plan, p)
    BY <1>2 DEF Drops, Fetches
  <2>2. ASSUME rider[p].status # "riding", NEW i \in DOMAIN plan, plan[i] = From[p]
        PROVE  \E j \in DOMAIN plan : j > i /\ plan[j] = To[p]
    <3>1. CASE Fetches(plan, p)
      BY <1>3, <2>2, <3>1 DEF Fetches
    <3>2. CASE From[p] \in here
      <4>1. PICK j \in DOMAIN plan : plan[j] = To[p]
        BY <2>1 DEF Drops
      <4>2. i = 1
        BY <1>2, <2>2, <3>2
      <4>3. j # i
        BY <2>2, <4>1, RouteAssumption
      <4>4. j > i
        BY <1>3, <4>2, <4>3
      <4> QED
        BY <4>1, <4>4
    <3> QED
      BY <1>2, <2>2, <3>1, <3>2
  <2> QED
    BY <2>1, <2>2 DEF Follows
<1>6. ASSUME NEW p \in S, rider[p].status = "waiting", To[p] \in here PROVE FALSE
  <2>1. CASE Fetches(plan, p)
    BY <1>2, <1>3, <1>6, <2>1 DEF Fetches
  <2>2. CASE From[p] \in here
    BY <1>4, <1>6, <2>2, RouteAssumption
  <2> QED
    BY <1>2, <1>6, <2>1, <2>2
<1>7. \A p \in S : Takes(plan, p)
  BY <1>5 DEF Takes
<1>8. HereFirst(plan, row)
  BY <1>1, <1>2 DEF HereFirst
<1> QED
  BY <1>1, <1>6, <1>7, <1>8

\* A thread asks, or goes on, and changes nothing else.
LEMMA GoesOn ==
  ASSUME Inv, Grows, NEW t \in Thread, NEW k \in Task, task' = [task EXCEPT ![t] = k],
         UNCHANGED <<db, board, keys>>, k.pc # "leaving", Place(t)', ThreadOK(t)'
  PROVE  Inv'
<1>1. Columns /\ Signals
  BY DEF Inv
<1>2. task' \in [Thread -> Task] /\ task'[t] = k /\ Others(t)
  BY <1>1 DEF Columns, Others
<1>3. Columns'
  BY <1>1, <1>2 DEF Columns, db, board, keys
<1>4. Signals'
  BY <1>1, <1>2, SignalsKept DEF board, Others
<1> QED
  BY <1>2, <1>3, <1>4, NothingWritten, Forth DEF keys

\* The state of thread t after it went on to task k.
LEMMA Task1 ==
  ASSUME Columns, NEW t \in Thread, NEW k, task' = [task EXCEPT ![t] = k]
  PROVE  task'[t] = k
BY DEF Columns

LEMMA NextLateAsked ==
  ASSUME Inv, Grows, NEW t \in Thread, LateAsked(t)
  PROVE  Inv'
<1>1. PICK r, row, served : r = task[t].r /\ row = Selected(r) /\ served = Served(r, {}, task[t].who)
  OBVIOUS
<1>2. PICK plan \in Plans \cup {<<>>} :
        /\ plan # <<>> => Fits(plan, r, served)
        /\ task' = [task EXCEPT ![t] = [@ EXCEPT !.pc = "asked", !.plan = plan,
                                       !.row = row, !.served = served]]
  BY <1>1 DEF LateAsked
<1>3. /\ At(t, "late") /\ UNCHANGED <<db, board, keys>> /\ Columns /\ Places
  BY DEF LateAsked, Inv
<1>4. t \in Web /\ Born(r) /\ r \in Route /\ r # NoRoute
  BY <1>1, <1>3, RouteAssumption DEF Places, Place, Expiring, At, Born
<1>5. row \in RouteRow /\ served \subseteq Rider
  BY <1>1, <1>3, <1>4, SelectedFacts DEF Served, Aboard, Waiting
<1>6. PICK k : k = [task[t] EXCEPT !.pc = "asked", !.plan = plan, !.row = row, !.served = served]
  OBVIOUS
<1>7. /\ k \in Task /\ k.pc = "asked" /\ k.r = r /\ k.row = row
      /\ k.plan = plan /\ k.served = served
  BY <1>1, <1>3, <1>5, <1>6, TaskFacts DEF Task, Pcs
<1>8. task' = [task EXCEPT ![t] = k] /\ task'[t] = k
  <2>1. task' = [task EXCEPT ![t] = k]
    BY <1>2, <1>6
  <2> QED
    BY <1>3, <2>1, Task1
<1>9. Place(t)'
  BY <1>3, <1>4, <1>7, <1>8 DEF Place, Expiring, At, Born, db
<1>10. AskOK(t)'
  <2>1. SUFFICES ASSUME plan # <<>>
                 PROVE  HereFirst(plan, row) /\ \A p \in served : Takes(plan, p)'
    BY <1>7, <1>8 DEF AskOK, At, HereFirst, Here
  <2>2. plan \in Plans /\ Fits(plan, r, served)
    BY <1>2, <2>1
  <2>3. HereFirst(plan, row) /\ \A p \in served : Takes(plan, p)
    BY <1>1, <1>3, <1>4, <1>5, <2>2, FitsPlan
  <2> QED
    BY <1>3, <2>3 DEF Takes, db, Drops, Follows
<1>11. ThreadOK(t)'
  BY <1>7, <1>8, <1>10
     DEF ThreadOK, ReportOK, CopyOK, PromiseOK, Planned, Writes, Creates, At
<1> QED
  BY <1>3, <1>7, <1>8, <1>9, <1>11, GoesOn

LEMMA NextLateAnswered ==
  ASSUME Inv, Grows, NEW t \in Thread, LateAnswered(t)
  PROVE  Inv'
<1>1. PICK r, who, plan, row, served :
        /\ r = task[t].r /\ who = task[t].who /\ plan = task[t].plan
        /\ row = task[t].row /\ served = task[t].served
  OBVIOUS
<1>2. PICK k : k = [task[t] EXCEPT !.pc = "answered", !.who = {}]
  OBVIOUS
<1>3. /\ At(t, "asked") /\ rider' = SetStatus(who, "expired")
      /\ task' = [task EXCEPT ![t] = k] /\ UNCHANGED <<route, rows, board, keys>>
  BY <1>1, <1>2 DEF LateAnswered
<1>4. Columns /\ Signals /\ Places /\ ThreadOK(t)
  BY DEF Inv
<1>5. t \in Web /\ Born(r) /\ r # NoRoute
  BY <1>1, <1>3, <1>4, RouteAssumption DEF Places, Place, Expiring, At
<1>6. /\ k \in Task /\ k.pc = "answered" /\ k.r = r /\ k.row = task[t].row
      /\ k.plan = task[t].plan /\ k.served = task[t].served
  BY <1>1, <1>2, <1>4, TaskFacts DEF Task, Pcs
<1>7. task' \in [Thread -> Task] /\ task'[t] = k /\ Others(t)
  BY <1>3, <1>4, <1>6 DEF Columns, Others
<1>8. /\ rider' \in [Rider -> RiderRow]
      /\ \A q \in Rider \ who : rider'[q] = rider[q]
      /\ \A q \in Rider \cap who :
           rider'[q].status = "expired" /\ rider'[q].route = rider[q].route
  BY <1>3, <1>4, StatusSet
<1>9. Columns'
  BY <1>3, <1>4, <1>7, <1>8 DEF Columns, board, keys
<1>10. Steady /\ Leaves
  BY <1>3, <1>8 DEF Steady, Leaves, Left1
<1>11. Calm
  BY <1>10, MovesCalm DEF Leaves, Moves
<1>12. Place(t)'
  BY <1>3, <1>5, <1>6, <1>7 DEF Place, Expiring, At, Born
<1>13. AskOK(t)'
  <2>1. SUFFICES ASSUME plan # <<>>
                 PROVE  HereFirst(plan, row) /\ \A p \in served : Takes(plan, p)'
    BY <1>1, <1>6, <1>7 DEF AskOK, At, HereFirst, Here
  <2>2. HereFirst(plan, row) /\ \A p \in served : Takes(plan, p)
    BY <1>1, <1>3, <1>4, <2>1 DEF ThreadOK, AskOK, Asking, At
  <2>3. served \subseteq Rider
    BY <1>1, <1>4, TaskFacts
  <2> QED
    BY <1>11, <2>2, <2>3 DEF Takes, Calm, Drops, Follows
<1>14. ThreadOK(t)'
  BY <1>6, <1>7, <1>13
     DEF ThreadOK, ReportOK, CopyOK, PromiseOK, Planned, Writes, Creates, At
<1>15. Signals'
  BY <1>3, <1>4, <1>6, <1>7, SignalsKept DEF board, Others
<1> QED
  BY <1>3, <1>7, <1>9, <1>10, <1>12, <1>14, <1>15, Forth DEF keys

LEMMA NextAsk ==
  ASSUME Inv, Grows, NEW t \in Web \cup {Job}, NEW S \in SUBSET Unassigned, Ask(t, S)
  PROVE  Inv'
<1>1. PICK r \in Current, plan \in Plans :
        /\ Fits(plan, r, Served(r, S, {}))
        /\ task' = [task EXCEPT ![t] =
             [Idle EXCEPT !.pc = "planned", !.r = r, !.row = Selected(r),
                          !.plan = plan, !.who = S, !.served = Served(r, S, {})]]
  BY DEF Ask
<1>2. PICK row, served : row = Selected(r) /\ served = Served(r, S, {})
  OBVIOUS
<1>3. /\ UNCHANGED <<db, board, keys>> /\ Columns /\ t \in Thread
  BY DEF Ask, Inv, Thread
<1>4. /\ r \in Route \cup {NoRoute}
      /\ r # NoRoute => r \in Route /\ route[r].state = "open"
  BY <1>1, RouteAssumption DEF Current, OpenRoutes
<1>5. /\ S \in SUBSET Rider /\ \A p \in S : rider[p].status = "waiting"
      /\ S \subseteq served /\ served \in SUBSET Rider /\ row \in RouteRow
  <2>1. S \in SUBSET Rider /\ \A p \in S : rider[p].status = "waiting"
    BY DEF Unassigned
  <2> QED
    BY <1>2, <1>3, <1>4, <2>1, SelectedFacts DEF Served, Aboard, Waiting
<1>6. PICK k : k = [Idle EXCEPT !.pc = "planned", !.r = r, !.row = row,
                                !.plan = plan, !.who = S, !.served = served]
  OBVIOUS
<1>7. /\ k \in Task /\ k.pc = "planned" /\ k.r = r /\ k.row = row
      /\ k.plan = plan /\ k.who = S /\ k.served = served
  BY <1>4, <1>5, <1>6, IdleTask DEF Task, Pcs
<1>8. task' = [task EXCEPT ![t] = k] /\ task'[t] = k
  <2>1. task' = [task EXCEPT ![t] = k]
    BY <1>1, <1>2, <1>6
  <2> QED
    BY <1>3, <2>1, Task1
<1>9. Place(t)'
  BY <1>3, <1>4, <1>7, <1>8 DEF Place, Expiring, At, Born, db
<1>10. AskOK(t)'
  <2>1. /\ HereFirst(plan, row) /\ \A p \in served : Takes(plan, p)
        /\ \A p \in S : To[p] \notin Here(row)
    BY <1>1, <1>2, <1>3, <1>4, <1>5, FitsPlan
  <2>2. \A p \in served : Takes(plan, p)'
    BY <1>3, <2>1 DEF Takes, db, Drops, Follows
  <2> QED
    BY <1>5, <1>7, <1>8, <2>1, <2>2 DEF AskOK, At, HereFirst, Here
<1>11. ThreadOK(t)'
  BY <1>7, <1>8, <1>10
     DEF ThreadOK, ReportOK, CopyOK, PromiseOK, Planned, Writes, Creates, At
<1> QED
  BY <1>3, <1>7, <1>8, <1>9, <1>11, GoesOn

LEMMA NextPlan ==
  ASSUME Inv, Grows, Dispatch \/ \E t \in Thread : CancelAsked(t)
  PROVE  Inv'
<1>1. CASE Dispatch
  <2>1. PICK S \in SUBSET Unassigned : Ask(Job, S)
    BY <1>1 DEF Dispatch
  <2> QED
    BY <2>1, NextAsk
<1>2. ASSUME NEW t \in Thread, CancelAsked(t) PROVE Inv'
  <2>1. PICK S \in SUBSET Unassigned : Ask(t, S)
    BY <1>2 DEF CancelAsked
  <2>2. t \in Web
    BY <1>2 DEF CancelAsked, Inv, Places, Place, At
  <2> QED
    BY <2>1, <2>2, NextAsk
<1> QED
  BY <1>1, <1>2

\* A plan whose row is read goes on as asked for, or is an old one.
LEMMA MergingFacts ==
  ASSUME Columns, Past, NEW t \in Thread, AskOK(t), Asking(t), task[t].plan \in Plans,
         NEW pc \in Pcs, NEW r \in Route \cup {NoRoute}, NEW k, k = Merging(t, pc, r)
  PROVE  /\ k \in Task /\ k.pc = pc /\ k.r = r /\ k.row = Selected(r)
         /\ k.plan = task[t].plan /\ k.who = task[t].who
         /\ ~k.old =>
              /\ r # NoRoute => HereFirst(k.plan, route[r])
              /\ \A p \in Rider \ astray :
                   r # NoRoute /\ p \in Aboard(r) \cup Waiting(r) => Takes(k.plan, p)
              /\ At(t, "planned") => \A p \in k.who :
                   Takes(k.plan, p) /\ (r # NoRoute => To[p] \notin Here(route[r]))
<1>1. PICK row : row = Selected(r)
  OBVIOUS
<1>2. PICK b : b = Outdated(t, r)
  OBVIOUS
<1>0. b \in BOOLEAN
  BY <1>2, Zenon DEF Outdated
<1>3. k = [task[t] EXCEPT !.pc = pc, !.r = r, !.row = row, !.served = {}, !.old = b]
  BY <1>1, <1>2 DEF Merging
<1>4. row \in RouteRow /\ task[t] \in Task
  BY <1>1, SelectedFacts, TaskFacts
<1>5. /\ k \in Task /\ k.pc = pc /\ k.r = r /\ k.row = row
      /\ k.plan = task[t].plan /\ k.who = task[t].who /\ k.old = b
  BY <1>0, <1>3, <1>4 DEF Task
<1>6. task[t].plan # <<>>
  <2>1. Len(task[t].plan) \in 1 .. MaxStops /\ Len(<<>>) = 0 /\ MaxStops \in Nat
    BY PlanFacts, RouteAssumption
  <2> QED
    BY <2>1
<1>7. /\ HereFirst(task[t].plan, task[t].row)
      /\ \A p \in task[t].served : Takes(task[t].plan, p)
      /\ At(t, "planned") => \A p \in task[t].who :
           Takes(task[t].plan, p) /\ To[p] \notin Here(task[t].row)
  BY <1>6 DEF AskOK
<1>8. ASSUME ~b, r # NoRoute
      PROVE  /\ Here(task[t].row) = Here(route[r])
             /\ (Aboard(r) \cup Waiting(r)) \ astray \subseteq task[t].served
  <2>1. /\ task[t].row = row
        /\ (Aboard(r) \cup Waiting(r)) \ astray \subseteq task[t].served
    BY <1>1, <1>2, <1>8 DEF Outdated
  <2> QED
    BY <1>1, <1>8, <2>1, SelectedFacts
<1>9. ASSUME ~b
      PROVE  /\ r # NoRoute => HereFirst(k.plan, route[r])
             /\ \A p \in Rider \ astray :
                  r # NoRoute /\ p \in Aboard(r) \cup Waiting(r) => Takes(k.plan, p)
             /\ At(t, "planned") => \A p \in k.who :
                  Takes(k.plan, p) /\ (r # NoRoute => To[p] \notin Here(route[r]))
  BY <1>5, <1>7, <1>8, <1>9 DEF HereFirst
<1> QED
  BY <1>1, <1>5, <1>9

\* ... so that nothing else changes when the row is read.
LEMMA PromiseMade ==
  ASSUME Columns, Columns', NEW t \in Thread, NEW r, NEW k, task'[t] = k, k.r = r,
         UNCHANGED db, Grows,
         ~k.old =>
           /\ r # NoRoute => HereFirst(k.plan, route[r])
           /\ \A p \in Rider \ astray :
                r # NoRoute /\ p \in Aboard(r) \cup Waiting(r) => Takes(k.plan, p)
           /\ k.pc = "replan" => \A p \in k.who :
                Takes(k.plan, p) /\ (r # NoRoute => To[p] \notin Here(route[r]))
  PROVE  PromiseOK(t)'
<1>1. SUFFICES ASSUME ~k.old PROVE PromiseOK(t)'
  BY DEF PromiseOK
<1>2. route' = route /\ rider' = rider
  BY DEF db
<1>3. \A p : Takes(k.plan, p)' <=> Takes(k.plan, p)
  BY <1>2 DEF Takes, Drops, Follows
<1>4. r # NoRoute => HereFirst(k.plan, route[r])'
  BY <1>1, <1>2 DEF HereFirst, Here
<1>5. ASSUME NEW p \in Rider, Concerns(t, p)' PROVE Takes(k.plan, p)'
  <2>1. p \in Rider \ astray /\ r # NoRoute
    BY <1>5 DEF Concerns, Grows
  <2>2. p \in Aboard(r)' \cup Waiting(r)'
    BY <1>5 DEF Concerns
  <2>3. p \in Aboard(r) \cup Waiting(r)
    BY <1>2, <2>2 DEF Aboard, Waiting
  <2> QED
    BY <1>1, <1>3, <2>1, <2>3
<1>6. At(t, "replan")' => \A p \in k.who :
        Takes(k.plan, p)' /\ (r # NoRoute => To[p] \notin Here(route[r])')
  BY <1>1, <1>2, <1>3 DEF At, Here
<1> QED
  BY <1>4, <1>5, <1>6 DEF PromiseOK

LEMMA NextReadRow ==
  ASSUME Inv, Grows, NEW t \in Thread, ReadRow(t)
  PROVE  Inv'
<1>1. PICK r, k : r = task[t].r /\ k = Merging(t, "merge", r)
  OBVIOUS
<1>2. /\ At(t, "answered") /\ task[t].plan # <<>> /\ task' = [task EXCEPT ![t] = k]
      /\ UNCHANGED <<db, board, keys>>
  BY <1>1 DEF ReadRow
<1>3. Columns /\ Past /\ Places /\ ThreadOK(t)
  BY DEF Inv
<1>4. /\ t \in Web /\ Born(r) /\ r \in Route /\ r # NoRoute /\ task[t].plan \in Plans
  BY <1>1, <1>2, <1>3, TaskFacts, RouteAssumption DEF Places, Place, Expiring, At, Born
<1>5. "merge" \in Pcs /\ Asking(t) /\ AskOK(t)
  BY <1>2, <1>3 DEF Pcs, Asking, At, ThreadOK
<1>6. /\ k \in Task /\ k.pc = "merge" /\ k.r = r /\ k.row = Selected(r)
      /\ k.plan = task[t].plan
      /\ ~k.old =>
           /\ HereFirst(k.plan, route[r])
           /\ \A p \in Rider \ astray : p \in Aboard(r) \cup Waiting(r) => Takes(k.plan, p)
  BY <1>1, <1>3, <1>4, <1>5, MergingFacts
<1>7. task'[t] = k
  BY <1>2, <1>3, Task1
<1>8. Columns'
  BY <1>2, <1>3, <1>6 DEF Columns, db, board, keys
<1>9. Place(t)'
  BY <1>2, <1>4, <1>6, <1>7 DEF Place, Expiring, At, Born, db
<1>10. CopyOK(t)'
  <2>1. k.row.midway = route[r].midway /\ k.row.passed = route[r].passed
    BY <1>3, <1>4, <1>6, SelectedFacts
  <2> QED
    BY <1>2, <1>6, <1>7, <2>1 DEF CopyOK, Writes, Creates, At, db
<1>11. PromiseOK(t)'
  BY <1>2, <1>3, <1>6, <1>7, <1>8, PromiseMade
<1>12. ReportOK(t)' /\ AskOK(t)'
  BY <1>6, <1>7 DEF ReportOK, AskOK, Asking, At
<1> QED
  BY <1>2, <1>6, <1>9, <1>10, <1>11, <1>12, GoesOn DEF ThreadOK

LEMMA NextReadPlan ==
  ASSUME Inv, Grows, NEW t \in Thread, ReadPlan(t)
  PROVE  Inv'
<1>1. PICK r \in Current : task' = [task EXCEPT ![t] = Merging(t, "replan", r)]
  BY DEF ReadPlan
<1>2. PICK k : k = Merging(t, "replan", r)
  OBVIOUS
<1>3. /\ At(t, "planned") /\ task' = [task EXCEPT ![t] = k]
      /\ UNCHANGED <<db, board, keys>> /\ Columns /\ Past /\ Places /\ ThreadOK(t)
  BY <1>1, <1>2 DEF ReadPlan, Inv
<1>4. /\ r \in Route \cup {NoRoute}
      /\ r = NoRoute => OpenRoutes = {}
      /\ r # NoRoute => r \in Route /\ route[r].state = "open"
  BY <1>1, RouteAssumption DEF Current, OpenRoutes
<1>5. /\ task[t].plan \in Plans /\ "replan" \in Pcs /\ Asking(t) /\ AskOK(t)
  BY <1>3 DEF Pcs, Asking, At, ThreadOK, Places, Place
<1>6. /\ k \in Task /\ k.pc = "replan" /\ k.r = r /\ k.row = Selected(r)
      /\ k.plan = task[t].plan
      /\ ~k.old =>
           /\ r # NoRoute => HereFirst(k.plan, route[r])
           /\ \A p \in Rider \ astray :
                r # NoRoute /\ p \in Aboard(r) \cup Waiting(r) => Takes(k.plan, p)
           /\ \A p \in k.who :
                Takes(k.plan, p) /\ (r # NoRoute => To[p] \notin Here(route[r]))
  BY <1>2, <1>3, <1>4, <1>5, MergingFacts
<1>7. task'[t] = k
  BY <1>3, Task1
<1>8. Columns'
  BY <1>3, <1>6 DEF Columns, db, board, keys
<1>9. Place(t)'
  BY <1>3, <1>4, <1>5, <1>6, <1>7 DEF Place, Expiring, At, Born, db
<1>10. CopyOK(t)'
  <2>1. r # NoRoute => k.row.midway = route[r].midway /\ k.row.passed = route[r].passed
    BY <1>3, <1>4, <1>6, SelectedFacts
  <2>2. route' = route /\ OpenRoutes' = OpenRoutes
    BY <1>3 DEF db, OpenRoutes
  <2> QED
    BY <1>4, <1>6, <1>7, <2>1, <2>2 DEF CopyOK, Writes, Creates, At
<1>11. PromiseOK(t)'
  BY <1>3, <1>6, <1>7, <1>8, PromiseMade
<1>12. ReportOK(t)' /\ AskOK(t)'
  BY <1>6, <1>7 DEF ReportOK, AskOK, Asking, At
<1> QED
  BY <1>3, <1>6, <1>9, <1>10, <1>11, <1>12, GoesOn DEF ThreadOK


-----------------------------------------------------------------------------
(* Lists of stops that are written from a plan.                            *)

\* The list L keeps c stops, and continues with the plan but its first d stops.
Joins(L, c, plan, d) ==
  /\ L \in Seq(Station) /\ c \in Nat /\ d \in {0, 1}
  /\ Len(L) = c + Len(plan) - d
  /\ \A i \in 1 .. Len(plan) - d : L[c + i] = plan[d + i]
  /\ d = 1 => c > 0 /\ plan[1] = L[c]
  /\ c > 0 => \A i \in 1 .. Len(plan) : plan[i] = L[c] => i = 1

LEMMA JoinedCourse ==
  ASSUME NEW plan \in Plans, NEW row \in RouteRow, NEW d,
         Joins(row.midway, row.passed, plan, d)
  PROVE  /\ NoReturn(row)
         /\ \A p \in Rider : Drops(plan, p) /\ Follows(plan, p) => Awaited(p, row)
         /\ \A p \in Rider :
              Drops(plan, p) /\ (row.passed > 0 => row.midway[row.passed] # To[p]) =>
                Carried(p, row)
<1>1. PICK L, c, n : L = row.midway /\ c = row.passed /\ n = Len(plan)
  OBVIOUS
<1>2. /\ L \in Seq(Station) /\ c \in Nat /\ d \in {0, 1} /\ n \in Nat /\ n >= 1
      /\ DOMAIN L = 1 .. Len(L) /\ DOMAIN plan = 1 .. n
      /\ Len(L) = c + n - d
  BY <1>1, PlanFacts, RouteAssumption DEF Joins
<1>3. /\ d = 1 => c > 0 /\ plan[1] = L[c]
      /\ c > 0 => \A i \in 1 .. n : plan[i] = L[c] => i = 1
      /\ \A i, j \in 1 .. n : plan[i] = plan[j] => i = j
  BY <1>1, PlanFacts DEF Joins
<1>4. \A k \in 1 .. Len(L) : k > c => k - c + d \in 1 .. n /\ L[k] = plan[k - c + d]
  <2>1. SUFFICES ASSUME NEW k \in 1 .. Len(L), k > c
                 PROVE  k - c + d \in 1 .. n /\ L[k] = plan[k - c + d]
    OBVIOUS
  <2>2. PICK i : i = k - c
    OBVIOUS
  <2>3. i \in 1 .. n - d /\ c + i = k /\ d + i = k - c + d
    BY <1>2, <2>1, <2>2
  <2>4. L[c + i] = plan[d + i]
    BY <1>1, <2>3 DEF Joins
  <2> QED
    BY <1>2, <2>3, <2>4
\* Every stop of the plan is in the rest of the list, unless it is the current one.
<1>5. \A m \in 1 .. n : m > d =>
        c + m - d \in 1 .. Len(L) /\ c + m - d > c /\ L[c + m - d] = plan[m]
  <2>1. SUFFICES ASSUME NEW m \in 1 .. n, m > d
                 PROVE  /\ c + m - d \in 1 .. Len(L) /\ c + m - d > c
                        /\ L[c + m - d] = plan[m]
    OBVIOUS
  <2>2. PICK i : i = m - d
    OBVIOUS
  <2>3. i \in 1 .. n - d /\ c + i = c + m - d /\ d + i = m
    BY <1>2, <2>1, <2>2
  <2>4. L[c + i] = plan[d + i]
    BY <1>1, <2>3 DEF Joins
  <2> QED
    BY <1>2, <2>1, <2>3, <2>4
<1>6. ASSUME NEW i \in 1 .. Len(L), NEW j \in 1 .. Len(L), i >= c, j > i + 1
      PROVE  L[i] # L[j]
  <2>1. j > c /\ j - c + d \in 1 .. n /\ L[j] = plan[j - c + d] /\ j - c + d # 1
    BY <1>2, <1>4, <1>6
  <2>2. CASE i = c
    BY <1>2, <1>3, <2>1, <2>2
  <2>3. CASE i > c
    <3>1. i - c + d \in 1 .. n /\ L[i] = plan[i - c + d]
      BY <1>4, <2>3
    <3>2. i - c + d # j - c + d
      BY <1>2, <1>6
    <3> QED
      BY <1>3, <2>1, <3>1, <3>2
  <2> QED
    BY <1>2, <1>6, <2>2, <2>3
<1>7. ASSUME NEW p \in Rider, Drops(plan, p), c > 0 => L[c] # To[p]
      PROVE  \E j \in 1 .. Len(L) : j > c /\ L[j] = To[p]
  <2>1. PICK m \in 1 .. n : plan[m] = To[p]
    BY <1>2, <1>7 DEF Drops
  <2>2. m > d
    BY <1>2, <1>3, <1>7, <2>1
  <2> QED
    BY <1>5, <2>1, <2>2
<1>8. ASSUME NEW p \in Rider, Drops(plan, p), Follows(plan, p),
             NEW k \in 1 .. Len(L), k >= c, L[k] = From[p]
      PROVE  \E j \in 1 .. Len(L) : j > k /\ L[j] = To[p]
  <2>1. From[p] # To[p]
    BY RouteAssumption
  <2>2. CASE k = c
    BY <1>7, <1>8, <2>1, <2>2
  <2>3. CASE k > c
    <3>1. k - c + d \in 1 .. n /\ plan[k - c + d] = From[p]
      BY <1>4, <1>8, <2>3
    <3>2. PICK m \in 1 .. n : m > k - c + d /\ plan[m] = To[p]
      BY <1>2, <1>8, <3>1 DEF Follows
    <3>3. m > d /\ c + m - d > k
      BY <1>2, <2>3, <3>2
    <3> QED
      BY <1>5, <3>2, <3>3
  <2> QED
    BY <1>2, <1>8, <2>2, <2>3
<1>9. NoReturn(row)
  BY <1>1, <1>2, <1>6 DEF NoReturn
<1>10. ASSUME NEW p \in Rider, Drops(plan, p), Follows(plan, p) PROVE Awaited(p, row)
  <2>1. ASSUME NEW k \in 1 .. Len(L), k >= c, L[k] = From[p]
        PROVE  \E j \in 1 .. Len(L) : j > k /\ L[j] = To[p]
    BY <1>8, <1>10, <2>1
  <2> QED
    BY <1>1, <1>2, <2>1 DEF Awaited
<1>11. ASSUME NEW p \in Rider, Drops(plan, p),
              row.passed > 0 => row.midway[row.passed] # To[p]
       PROVE  Carried(p, row)
  BY <1>1, <1>2, <1>7, <1>11 DEF Carried
<1> QED
  BY <1>9, <1>10, <1>11

LEMMA Suffix ==
  ASSUME NEW P \in Seq(Station), NEW d \in 0 .. Len(P), NEW R, R = SubSeq(P, d + 1, Len(P))
  PROVE  /\ R \in Seq(Station) /\ Len(R) = Len(P) - d
         /\ \A i \in 1 .. Len(P) - d : R[i] = P[d + i]
OBVIOUS

LEMMA Prefix ==
  ASSUME NEW M \in Seq(Station), NEW c \in 1 .. Len(M), NEW A, A = SubSeq(M, 1, c)
  PROVE  A \in Seq(Station) /\ Len(A) = c /\ \A i \in 1 .. c : A[i] = M[i]
OBVIOUS

\* setRouteOrderExpire: what was passed is kept, and the plan, or what of it
\* comes after the current stop, goes on from there.
LEMMA MergedKeeps ==
  ASSUME NEW plan \in Plans, NEW row \in RouteRow, row.passed <= Len(row.midway),
         NEW L, L = Merged(row, plan), NEW R, R = Left(row, plan),
         NEW c, c = row.passed, NEW d, d = IF c = 0 THEN 0 ELSE Named(row, plan)
  PROVE  /\ d \in 0 .. Len(plan)
         /\ c > 0 => \/ d = 0 /\ \A i \in 1 .. Len(plan) : plan[i] # row.midway[c]
                     \/ d > 0 /\ plan[d] = row.midway[c]
         /\ L \in Seq(Station) /\ Len(L) = c + Len(plan) - d
         /\ \A i \in 1 .. c : L[i] = row.midway[i]
         /\ \A i \in 1 .. Len(plan) - d : L[c + i] = plan[d + i]
         /\ R \in Seq(Station) /\ Len(R) = Len(plan) - d
<1>1. PICK M, n : M = row.midway /\ n = Len(plan)
  OBVIOUS
<1>2. /\ M \in Seq(Station) /\ c \in Nat /\ plan \in Seq(Station) /\ n \in Nat /\ n >= 1
      /\ c <= Len(M) /\ Len(M) \in Nat
  BY <1>1, PlanFacts, RowFacts, RouteAssumption
<1>3. CASE c = 0
  <2>1. L = plan /\ R = plan /\ d = 0
    BY <1>3 DEF Merged, Left
  <2> QED
    BY <1>1, <1>2, <1>3, <2>1
<1>4. CASE c > 0
  <2>1. PICK I : I = {i \in 1 .. n : plan[i] = M[c]}
    OBVIOUS
  <2>2. d = IF I # {} THEN Min(I) ELSE 0
    BY <1>1, <1>2, <1>4, <2>1 DEF Named, SelectInSeq
  <2>3. \/ d \in 1 .. n /\ plan[d] = M[c]
        \/ d = 0 /\ \A i \in 1 .. n : plan[i] # M[c]
    <3>1. CASE I = {}
      BY <2>1, <2>2, <3>1
    <3>2. CASE I # {}
      <4>1. PICK i \in I : TRUE
        BY <3>2
      <4>2. \A x, y \in I : x = y
        BY <1>1, <2>1, PlanFacts
      <4>3. I = {i}
        BY <4>1, <4>2
      <4>4. i \in Nat
        BY <2>1, <4>1
      <4>5. Min(I) = i
        BY <4>3, <4>4 DEF Min
      <4> QED
        BY <2>1, <2>2, <3>2, <4>1, <4>5
    <3> QED
      BY <3>1, <3>2
  <2>4. d \in 0 .. n
    BY <1>2, <2>3
  <2>6. PICK A : A = SubSeq(M, 1, c)
    OBVIOUS
  <2>7. L = A \o R /\ R = SubSeq(plan, d + 1, n)
    <3>1. Rest(row, plan) = SubSeq(plan, d + 1, n)
      BY <1>1, <1>2, <1>4 DEF Rest
    <3>2. SubSeq(row.midway, 1, row.passed) = A /\ row.passed # 0
      BY <1>1, <1>2, <1>4, <2>6
    <3> QED
      BY <3>1, <3>2 DEF Merged, Left
  <2>8. A \in Seq(Station) /\ Len(A) = c /\ \A i \in 1 .. c : A[i] = M[i]
    <3>1. c \in 1 .. Len(M)
      BY <1>2, <1>4
    <3> QED
      BY <1>2, <2>6, <3>1, Prefix
  <2>9. R \in Seq(Station) /\ Len(R) = n - d /\ \A i \in 1 .. n - d : R[i] = plan[d + i]
    <3>1. plan \in Seq(Station) /\ d \in 0 .. Len(plan) /\ R = SubSeq(plan, d + 1, Len(plan))
      BY <1>1, <1>2, <2>4, <2>7
    <3>2. /\ R \in Seq(Station) /\ Len(R) = Len(plan) - d
          /\ \A i \in 1 .. Len(plan) - d : R[i] = plan[d + i]
      BY <3>1, Suffix
    <3> QED
      BY <1>1, <3>2
  <2>10. /\ L \in Seq(Station) /\ Len(L) = c + (n - d)
         /\ \A i \in 1 .. c + (n - d) : L[i] = IF i <= c THEN A[i] ELSE R[i - c]
    <3>1. /\ A \o R \in Seq(Station) /\ Len(A \o R) = Len(A) + Len(R)
          /\ \A i \in 1 .. Len(A) + Len(R) :
               (A \o R)[i] = IF i <= Len(A) THEN A[i] ELSE R[i - Len(A)]
      BY <2>8, <2>9, ConcatProperties
    <3>2. Len(A) = c /\ Len(R) = n - d
      BY <2>8, <2>9
    <3> QED
      BY <2>7, <3>1, <3>2
  <2>11. ASSUME NEW i \in 1 .. n - d PROVE L[c + i] = plan[d + i]
    <3>1. c + i \in 1 .. c + (n - d) /\ ~(c + i <= c) /\ (c + i) - c = i
      BY <1>2, <2>4
    <3>2. L[c + i] = R[(c + i) - c]
      BY <2>10, <3>1
    <3>3. R[i] = plan[d + i]
      BY <2>9
    <3> QED
      BY <3>1, <3>2, <3>3
  <2>12. ASSUME NEW i \in 1 .. c PROVE L[i] = M[i]
    <3>1. i \in 1 .. c + (n - d) /\ i <= c
      BY <1>2, <2>4
    <3> QED
      BY <2>8, <2>10, <3>1
  <2>13. Len(L) = c + n - d
    BY <1>2, <2>4, <2>10
  <2>14. c > 0 => \/ d = 0 /\ \A i \in 1 .. n : plan[i] # M[c]
                  \/ d > 0 /\ plan[d] = M[c]
    BY <2>3
  <2> QED
    BY <1>1, <2>4, <2>9, <2>10, <2>11, <2>12, <2>13, <2>14
<1> QED
  BY <1>2, <1>3, <1>4

\* A plan that names the current stop first or not at all joins the list.
LEMMA MergedJoins ==
  ASSUME NEW plan \in Plans, NEW row \in RouteRow, row.passed <= Len(row.midway),
         HereFirst(plan, row)
  PROVE  \E d : Joins(Merged(row, plan), row.passed, plan, d)
<1>1. PICK c, d, L, R : /\ c = row.passed /\ d = IF c = 0 THEN 0 ELSE Named(row, plan)
                        /\ L = Merged(row, plan) /\ R = Left(row, plan)
  OBVIOUS
<1>2. /\ d \in 0 .. Len(plan)
      /\ c > 0 => \/ d = 0 /\ \A i \in 1 .. Len(plan) : plan[i] # row.midway[c]
                  \/ d > 0 /\ plan[d] = row.midway[c]
      /\ L \in Seq(Station) /\ Len(L) = c + Len(plan) - d
      /\ \A i \in 1 .. c : L[i] = row.midway[i]
      /\ \A i \in 1 .. Len(plan) - d : L[c + i] = plan[d + i]
  BY <1>1, MergedKeeps
<1>3. /\ c \in Nat /\ Len(plan) \in Nat /\ DOMAIN plan = 1 .. Len(plan)
  BY <1>1, PlanFacts, RowFacts, RouteAssumption
<1>4. c > 0 => \A i \in 1 .. Len(plan) : plan[i] = row.midway[c] => i = 1
  BY <1>1, <1>3 DEF HereFirst, Here
<1>5. d \in {0, 1} /\ (d = 1 => c > 0 /\ plan[1] = row.midway[c])
  BY <1>1, <1>2, <1>3, <1>4
<1>6. c > 0 => L[c] = row.midway[c]
  BY <1>2, <1>3
<1> QED
  BY <1>1, <1>2, <1>3, <1>4, <1>5, <1>6 DEF Joins


-----------------------------------------------------------------------------
(* Steps that write a list of stops.                                       *)

\* Once a thread wrote an open route that nobody else held, no other plan is pending.
LEMMA OthersFree ==
  ASSUME Columns, Columns', Places, Grows, Calm, NEW t \in Thread, NEW r \in Route,
         Rests(t), Alone(t, r), OpenRoutes \subseteq {r},
         \A s \in Route : s # r => route'[s] = route[s],
         \A u \in Thread \ {t} : ThreadOK(u) /\ ~Creates(u)
  PROVE  \A u \in Thread : ThreadOK(u)'
<1> SUFFICES ASSUME NEW u \in Thread PROVE ThreadOK(u)'
  OBVIOUS
<1>1. CASE u = t
  BY <1>1, IdleTask, ThreadFree DEF Rests, Bound
<1>2. CASE u # t
  <2>1. task'[u] = task[u] /\ ThreadOK(u) /\ ~Creates(u) /\ ~Holds(u, r)
    BY <1>2 DEF Rests, Others, Alone
  <2>2. \A s \in Route : Holds(u, s) /\ u # Job => route'[s] = route[s]
    BY <2>1
  <2>3. ~Planned(u)
    <3>1. SUFFICES ASSUME Planned(u) PROVE FALSE
      OBVIOUS
    <3>2. task[u].r # NoRoute /\ route[task[u].r].state = "open" /\ Holds(u, task[u].r)
      BY <2>1, <3>1 DEF Planned, Writes, ThreadOK, CopyOK, Holds, Places, Place, Expiring, At
    <3>3. task[u].r \in OpenRoutes
      BY <3>2, TaskFacts DEF OpenRoutes
    <3> QED
      BY <2>1, <3>2, <3>3
  <2> QED
    BY <2>1, <2>2, <2>3, ThreadKept
<1> QED
  BY <1>1, <1>2

LEMMA CourseWritten ==
  ASSUME Columns', NEW r \in Route, NEW row, route'[r] = row,
         r \notin outdated' =>
           /\ NoReturn(row)
           /\ \A p \in Rider \ astray' : rider'[p].route = r =>
                /\ rider'[p].status = "waiting" => Awaited(p, row)
                /\ rider'[p].status = "riding" => Carried(p, row)
  PROVE  CourseOK(r)'
<1>1. SUFFICES ASSUME r \notin outdated' PROVE CourseOK(r)'
  BY DEF CourseOK
<1>2. \A p \in Rider \ astray' : /\ p \in Waiting(r)' => Awaited(p, row)
                                 /\ p \in Aboard(r)' => Carried(p, row)
  BY <1>1, MembersLater
<1> QED
  BY <1>1, <1>2 DEF CourseOK, NoReturn, Awaited, Carried

\* What the places and the single open route need of a write.
LEMMA RouteWritten ==
  ASSUME Columns, Columns', Places, One, NEW t \in Thread, NEW r \in Route, Rests(t),
         OpenRoutes \subseteq {r}, route'[r].state = "open",
         \A s \in Route : s # r => route'[s] = route[s],
         \A p \in Rider : rider'[p].route \in {rider[p].route, r},
         \A x \in overdue' : x \in overdue \/ x[1] = r
  PROVE  Places' /\ One'
<1>1. OpenRoutes' \subseteq {r}
  BY DEF OpenRoutes
<1>2. \A s \in Route : Born(s) => Lives(s)
  BY DEF Born, Lives
<1>3. Lives(r)
  BY DEF Lives
<1>4. \A u \in Thread : task'[u] = task[u] \/ Place(u)'
  BY PlaceIdle DEF Rests, Others
<1>5. Places'
  BY <1>2, <1>3, <1>4, PlacesKept
<1> QED
  BY <1>1, <1>5 DEF One

\* An arrival that is no more than one stop old.
LEMMA NextArrive ==
  ASSUME Inv, Grows, ~overtaken', NEW t \in Thread, Arrive(t)
  PROVE  Inv'
<1>1. PICK r, row : r = task[t].r /\ row = task[t].row
  OBVIOUS
<1>2. PICK s : s = NextStop(row)
  OBVIOUS
<1>3. PICK new : new = [row EXCEPT !.passed = @ + 1, !.ahead = @ - Cut(row)]
  OBVIOUS
<1>4. /\ At(t, "report") /\ row.passed < Len(row.midway) /\ Cut(row) <= row.ahead
      /\ rider' = SetStatus({p \in Rider : rider[p].status = "riding" /\ To[p] = s}, "done")
      /\ rows' = [rows EXCEPT ![r] = @ \cup {s}]
      /\ route' = [route EXCEPT ![r] = new]
      /\ SignalStop(r, s) /\ Finish(t) /\ UNCHANGED startKey
      /\ route[r].state = "open" /\ ~(route[r].passed > row.passed + 1)
      /\ \A u \in Thread \ {t} :
           ~At(u, "leaving") /\ (u \in Holders(t, r) => At(u, "report"))
  <2>1. /\ At(t, "report") /\ row.passed < Len(row.midway) /\ Cut(row) <= row.ahead
        /\ rider' = SetStatus({p \in Rider : rider[p].status = "riding" /\ To[p] = s}, "done")
        /\ rows' = [rows EXCEPT ![r] = @ \cup {s}]
        /\ route' = [route EXCEPT ![r] = new]
        /\ SignalStop(r, s) /\ Finish(t) /\ UNCHANGED startKey
    BY <1>1, <1>2, <1>3 DEF Arrive
  <2>2. /\ route[r].state = "open" /\ ~(route[r].passed > row.passed + 1)
        /\ ~\E u \in Thread \ {t} :
             At(u, "leaving") \/ (u \in Holders(t, r) /\ ~At(u, "report"))
    BY <1>1 DEF Arrive
  <2> QED
    BY <2>1, <2>2
<1>5. /\ Columns /\ Places /\ One /\ Signals /\ Progress
      /\ \A u \in Thread : ThreadOK(u)
      /\ \A q \in Route : CourseOK(q)
  BY DEF Inv
<1>6. /\ r \in Route /\ row \in RouteRow /\ route[r] \in RouteRow
      /\ row.state = "open" /\ row.midway = route[r].midway
      /\ row.passed <= route[r].passed /\ Within(row)
  <2>1. r \in Route /\ row \in RouteRow
    BY <1>1, <1>4, <1>5, TaskFacts DEF Places, Place
  <2> QED
    BY <1>1, <1>4, <1>5, <2>1, RouteFacts DEF ThreadOK, ReportOK
<1>7. PICK M, k, c : M = row.midway /\ k = row.passed /\ c = route[r].passed
  OBVIOUS
<1>8. /\ M \in Seq(Station) /\ DOMAIN M = 1 .. Len(M) /\ Len(M) \in 0 .. MaxStops
      /\ k \in 0 .. MaxStops /\ row.ahead \in 0 .. MaxStops /\ c \in 0 .. MaxStops
      /\ k < Len(M) /\ k <= c /\ c <= k + 1 /\ k + row.ahead <= Len(M) /\ MaxStops \in Nat
  BY <1>4, <1>6, <1>7, RowFacts, RouteAssumption DEF Within
<1>9. s = M[k + 1] /\ k + 1 \in 1 .. Len(M) /\ s \in Station
  <2>1. s = M[k + 1] /\ k + 1 \in 1 .. Len(M)
    BY <1>2, <1>7, <1>8 DEF NextStop
  <2> QED
    BY <1>8, <2>1, ElementOfSeq
<1>10. PICK a : a = row.ahead - Cut(row)
  OBVIOUS
<1>11. a \in 0 .. MaxStops /\ k + 1 + a <= Len(M)
  BY <1>4, <1>7, <1>8, <1>10 DEF Cut
<1>12. /\ new \in RouteRow /\ new.state = "open" /\ new.midway = M
       /\ new.passed = k + 1 /\ new.ahead = a
  <2>1. new = [state |-> "open", midway |-> M, passed |-> k + 1, ahead |-> a]
    BY <1>3, <1>6, <1>7, <1>10 DEF RouteRow
  <2>2. k + 1 \in 0 .. MaxStops /\ M \in Stops
    BY <1>8, StopsSeq
  <2> QED
    BY <1>11, <2>1, <2>2 DEF RouteRow
<1>13. /\ route' \in [Route -> RouteRow] /\ route'[r] = new
       /\ \A q \in Route : q # r => route'[q] = route[q]
  BY <1>4, <1>5, <1>6, <1>12 DEF Columns
<1>14. PICK D : D = {p \in Rider : rider[p].status = "riding" /\ To[p] = s}
  OBVIOUS
<1>15. /\ rider' \in [Rider -> RiderRow]
       /\ \A p \in Rider \ D : rider'[p] = rider[p]
       /\ \A p \in Rider \cap D :
            rider'[p].status = "done" /\ rider'[p].route = rider[p].route
  BY <1>4, <1>5, <1>14, StatusSet
<1>16. Leaves /\ Moves /\ Calm /\ \A p \in Rider : rider'[p].route = rider[p].route
  BY <1>14, <1>15, MovesCalm DEF Leaves, Moves, Left1
<1>17. /\ rows' \in [Route -> SUBSET Station] /\ rows'[r] = rows[r] \cup {s}
       /\ \A q \in Route : q # r => rows'[q] = rows[q]
  BY <1>4, <1>5, <1>6, <1>9 DEF Columns
<1>18. Rests(t) /\ task' \in [Thread -> Task]
  BY <1>4, <1>5, Finished
<1>19. /\ client' \in 0 .. 2 /\ unable' \in Nat /\ stopKey' \in BOOLEAN
       /\ overdue' \subseteq overdue \cup {<<r, s>>}
  <2>1. client \in 0 .. 2 /\ unable \in Nat /\ stopKey \in BOOLEAN
    BY <1>5 DEF Columns
  <2>2. CASE client = 0
    BY <1>4, <2>1, <2>2 DEF SignalStop
  <2>3. CASE client # 0
    BY <1>4, <2>1, <2>3 DEF SignalStop
  <2> QED
    BY <2>2, <2>3
<1>20. Columns'
  BY <1>4, <1>5, <1>6, <1>9, <1>13, <1>15, <1>17, <1>18, <1>19 DEF Columns
<1>21. Signals'
  <2>1. ~\E u \in Thread : At(u, "leaving")'
    BY <1>4, <1>18, IdleTask DEF Rests, Others, At
  <2>2. unable' <= 1 /\ (client' = 0 => unable' = 0)
    BY <1>4, <1>5 DEF SignalStop, Signals, Columns
  <2> QED
    BY <2>1, <2>2 DEF Signals
<1>22. OpenRoutes \subseteq {r} /\ \A u \in Thread : ~Creates(u)
  <2>1. r \in OpenRoutes
    BY <1>4, <1>6 DEF OpenRoutes
  <2> QED
    BY <1>5, <2>1 DEF One, ThreadOK, CopyOK
<1>23. Places' /\ One'
  <2>1. \A x \in overdue' : x \in overdue \/ x[1] = r
    BY <1>19
  <2>2. \A p \in Rider : rider'[p].route \in {rider[p].route, r}
    BY <1>16
  <2> QED
    BY <1>5, <1>6, <1>12, <1>13, <1>18, <1>20, <1>22, <2>1, <2>2, RouteWritten
<1>24. Progress'
  <2>1. ASSUME NEW q \in Route
        PROVE  /\ Within(route'[q])
               /\ \A i \in 1 .. route'[q].passed : route'[q].midway[i] \in rows'[q]
    <3>1. CASE q # r
      BY <1>5, <1>13, <1>17, <3>1 DEF Progress
    <3>2. CASE q = r
      <4>1. ASSUME NEW i \in 1 .. k + 1 PROVE M[i] \in rows'[r]
        <5>1. CASE i = k + 1
          BY <1>9, <1>17, <5>1
        <5>2. CASE i <= k
          <6>1. i \in 1 .. route[r].passed
            BY <1>7, <1>8, <5>2
          <6> QED
            BY <1>5, <1>6, <1>7, <1>17, <6>1 DEF Progress
        <5> QED
          BY <1>8, <5>1, <5>2
      <4> QED
        BY <1>11, <1>12, <1>13, <3>2, <4>1 DEF Within
    <3> QED
      BY <3>1, <3>2
  <2> QED
    BY <2>1 DEF Progress, Within
<1>25. ASSUME NEW u \in Thread PROVE ThreadOK(u)'
  <2>1. CASE u = t
    BY <1>18, <2>1, IdleTask, ThreadFree DEF Rests, Bound
  <2>2. CASE u # t /\ At(u, "report") /\ task[u].r = r
    <3>1. task'[u] = task[u] /\ task[u].row \in RouteRow
      BY <1>5, <1>18, <2>2, TaskFacts DEF Rests, Others
    <3>2. /\ task[u].row.state = "open" /\ task[u].row.midway = M /\ M # <<>>
          /\ task[u].row.passed <= c /\ Within(task[u].row)
      BY <1>5, <1>6, <1>7, <2>2 DEF ThreadOK, ReportOK
    <3>3. task[u].row.passed <= k + 1
      BY <1>8, <3>1, <3>2, RowFacts
    <3>4. ReportOK(u)'
      BY <1>12, <1>13, <2>2, <3>1, <3>2, <3>3 DEF ReportOK, Within
    <3>5. CopyOK(u)' /\ AskOK(u)' /\ PromiseOK(u)'
      BY <2>2, <3>1 DEF CopyOK, AskOK, Asking, PromiseOK, Planned, Writes, Creates, At
    <3> QED
      BY <3>4, <3>5 DEF ThreadOK
  <2>3. CASE u # t /\ ~(At(u, "report") /\ task[u].r = r)
    <3>1. task'[u] = task[u]
      BY <1>18, <2>3 DEF Rests, Others
    <3>2. ~Holds(u, r)
      BY <1>4, <2>3 DEF Holds, Holders, At
    <3> QED
      BY <1>5, <1>13, <1>16, <1>20, <1>22, <3>1, <3>2, ThreadKept
  <2> QED
    BY <2>1, <2>2, <2>3
<1>26. ASSUME NEW q \in Route PROVE CourseOK(q)'
  <2>1. CASE q # r
    <3>1. \A p \in Rider : rider'[p].status \in {"waiting", "riding"} => rider'[p] = rider[p]
      BY <1>16 DEF Leaves, Left1
    <3> QED
      BY <1>5, <1>13, <1>20, <2>1, <3>1, CourseKept
  <2>2. CASE q = r /\ r \notin outdated'
    <3>0. r \notin outdated
      BY <2>2 DEF Grows
    <3>1. NoReturn(route[r])
      BY <1>4, <1>5, <1>6, <3>0 DEF CourseOK
    <3>2. NoReturn(new)
      <4>1. \A i, j \in 1 .. Len(M) : i >= c /\ j > i + 1 => M[i] # M[j]
        <5>1. route[r].midway = M /\ route[r].passed = c /\ DOMAIN M = 1 .. Len(M)
          BY <1>6, <1>7, <1>8
        <5> QED
          BY <3>1, <5>1 DEF NoReturn
      <4>2. \A i, j \in 1 .. Len(M) : i >= k + 1 /\ j > i + 1 => M[i] # M[j]
        BY <1>8, <4>1
      <4> QED
        BY <1>8, <1>12, <4>2 DEF NoReturn
    <3>3. ASSUME NEW p \in Rider \ astray', rider'[p].route = r, rider'[p].status = "waiting"
          PROVE  Awaited(p, new)
      <4>1. p \in Waiting(r) /\ p \notin astray
        BY <1>5, <1>14, <1>15, <3>3, Members DEF Grows
      <4>2. Awaited(p, route[r])
        BY <1>4, <1>5, <1>6, <3>0, <4>1 DEF CourseOK
      <4> QED
        <5>1. \A i \in 1 .. Len(M) : i >= c /\ M[i] = From[p] =>
                \E j \in 1 .. Len(M) : j > i /\ M[j] = To[p]
          BY <1>6, <1>7, <1>8, <4>2 DEF Awaited
        <5>2. \A i \in 1 .. Len(M) : i >= k + 1 => i >= c
          BY <1>8
        <5> QED
          BY <1>8, <1>12, <5>1, <5>2 DEF Awaited
    <3>4. ASSUME NEW p \in Rider \ astray', rider'[p].route = r, rider'[p].status = "riding"
          PROVE  Carried(p, new)
      <4>1. p \in Aboard(r) /\ To[p] # s /\ p \notin astray
        BY <1>5, <1>14, <1>15, <3>4, Members DEF Grows
      <4>2. Carried(p, route[r])
        BY <1>4, <1>5, <1>6, <3>0, <4>1 DEF CourseOK
      <4>3. PICK j \in 1 .. Len(M) : j > c /\ M[j] = To[p]
        BY <1>6, <1>7, <1>8, <4>2 DEF Carried
      <4>4. j # k + 1 /\ j > k + 1
        BY <1>8, <1>9, <4>1, <4>3
      <4>5. M[k + 1] # To[p]
        BY <1>9, <4>1
      <4> QED
        BY <1>8, <1>12, <4>3, <4>4, <4>5 DEF Carried
    <3> QED
      BY <1>13, <1>20, <2>2, <3>2, <3>3, <3>4, CourseWritten
  <2>3. CASE q = r /\ r \in outdated'
    BY <2>3 DEF CourseOK
  <2> QED
    BY <2>1, <2>2, <2>3
<1> QED
  BY <1>20, <1>21, <1>23, <1>24, <1>25, <1>26 DEF Inv, Grows


\* A step that writes one open route from a plan; unless it is an old one,
\* nothing that is left of it contradicts what the thread knew.
WritesPlan(t, r, row, plan, d) ==
  /\ Rests(t) /\ Alone(t, r) /\ OpenRoutes \subseteq {r}
  /\ \A u \in Thread \ {t} : ~Creates(u)
  /\ route' = [route EXCEPT ![r] = row] /\ row.state = "open" /\ Within(row)
  /\ \A i \in 1 .. row.passed : row.midway[i] \in rows[r]
  /\ UNCHANGED <<rows, client, unable, overdue>>
  /\ Calm /\ \A p \in Rider : rider'[p].route # r => rider'[p] = rider[p]
  /\ r \notin outdated' =>
       /\ Joins(row.midway, row.passed, plan, d)
       /\ \A p \in Rider \ astray' : rider'[p].route = r =>
            /\ rider'[p].status = "waiting" => Drops(plan, p) /\ Follows(plan, p)
            /\ rider'[p].status = "riding" =>
                 Drops(plan, p) /\ (row.passed > 0 => row.midway[row.passed] # To[p])

LEMMA PlanWritten ==
  ASSUME Inv, Grows, Columns', NEW t \in Thread, NEW r \in Route, NEW row, NEW plan \in Plans,
         NEW d, WritesPlan(t, r, row, plan, d)
  PROVE  Inv'
<1> USE DEF WritesPlan
<1>1. /\ Columns /\ Places /\ One /\ Signals /\ Progress
      /\ \A u \in Thread : ThreadOK(u)
      /\ \A q \in Route : CourseOK(q)
  BY DEF Inv
<1>2. route'[r] = row /\ \A q \in Route : q # r => route'[q] = route[q]
  BY <1>1 DEF Columns
<1>3. row \in RouteRow
  BY <1>2 DEF Columns
<1>4. Places' /\ One'
  <2>1. \A p \in Rider : rider'[p].route \in {rider[p].route, r}
    <3>1. ASSUME NEW p \in Rider PROVE rider'[p].route = r \/ rider'[p] = rider[p]
      OBVIOUS
    <3> QED
      BY <3>1
  <2> QED
    BY <1>1, <1>2, <2>1, RouteWritten
<1>5. \A u \in Thread : ThreadOK(u)'
  BY <1>1, <1>2, OthersFree
<1>6. Signals'
  BY <1>1, RestsSettled, SignalsKept
<1>7. Progress'
  <2>1. ASSUME NEW q \in Route
        PROVE  /\ Within(route'[q])
               /\ \A i \in 1 .. route'[q].passed : route'[q].midway[i] \in rows'[q]
    BY <1>1, <1>2 DEF Progress
  <2> QED
    BY <2>1 DEF Progress, Within
<1>8. ASSUME NEW q \in Route PROVE CourseOK(q)'
  <2>1. CASE q # r
    BY <1>1, <1>2, <2>1, CourseKept
  <2>2. CASE q = r
    <3>1. ASSUME r \notin outdated'
          PROVE  /\ NoReturn(row)
                 /\ \A p \in Rider \ astray' : rider'[p].route = r =>
                      /\ rider'[p].status = "waiting" => Awaited(p, row)
                      /\ rider'[p].status = "riding" => Carried(p, row)
      <4>1. Joins(row.midway, row.passed, plan, d)
        BY <3>1
      <4>2. /\ NoReturn(row)
            /\ \A p \in Rider : Drops(plan, p) /\ Follows(plan, p) => Awaited(p, row)
            /\ \A p \in Rider :
                 Drops(plan, p) /\ (row.passed > 0 => row.midway[row.passed] # To[p]) =>
                   Carried(p, row)
        BY <1>3, <4>1, JoinedCourse
      <4> QED
        BY <3>1, <4>2
    <3> QED
      BY <1>2, <2>2, <3>1, CourseWritten
  <2> QED
    BY <2>1, <2>2
<1> QED
  BY <1>4, <1>5, <1>6, <1>7, <1>8 DEF Inv, Grows

\* What a thread with a pending plan for an open route knows.
LEMMA PendingFacts ==
  ASSUME Inv, NEW t \in Thread, NEW r \in Route, r = task[t].r,
         route[r].state = "open", At(t, "merge") \/ Writes(t),
         NEW plan, plan = task[t].plan
  PROVE  /\ plan \in Plans
         /\ task[t].row.midway = route[r].midway /\ task[t].row.passed = route[r].passed
         /\ OpenRoutes = {r} /\ \A u \in Thread : ~Creates(u)
         /\ ~task[t].old /\ r \notin outdated =>
              /\ HereFirst(plan, route[r])
              /\ \A p \in Rider \ astray :
                   /\ p \in Waiting(r) => Drops(plan, p) /\ Follows(plan, p)
                   /\ p \in Aboard(r) =>
                        /\ Drops(plan, p)
                        /\ route[r].passed > 0 => route[r].midway[route[r].passed] # To[p]
              /\ At(t, "replan") => \A p \in task[t].who :
                   /\ rider[p].status = "waiting" => Drops(plan, p) /\ Follows(plan, p)
                   /\ Drops(plan, p)
                   /\ route[r].passed > 0 => route[r].midway[route[r].passed] # To[p]
<1>1. /\ Columns /\ One /\ Places /\ ThreadOK(t) /\ CourseOK(r)
      /\ \A u \in Thread : ThreadOK(u)
  BY DEF Inv
<1>2. Planned(t) /\ r # NoRoute
  BY RouteAssumption DEF Planned
<1>3. plan \in Plans /\ task[t].row.midway = route[r].midway /\ task[t].row.passed = route[r].passed
  BY <1>1 DEF ThreadOK, CopyOK, Places, Place, Writes
<1>4. OpenRoutes = {r} /\ \A u \in Thread : ~Creates(u)
  <2>1. r \in OpenRoutes
    BY DEF OpenRoutes
  <2> QED
    BY <1>1, <2>1 DEF One, ThreadOK, CopyOK
<1>5. ASSUME ~task[t].old, r \notin outdated
      PROVE  /\ HereFirst(plan, route[r])
             /\ \A p \in Rider \ astray :
                  /\ p \in Waiting(r) => Drops(plan, p) /\ Follows(plan, p)
                  /\ p \in Aboard(r) =>
                       /\ Drops(plan, p)
                       /\ route[r].passed > 0 => route[r].midway[route[r].passed] # To[p]
             /\ At(t, "replan") => \A p \in task[t].who :
                  /\ rider[p].status = "waiting" => Drops(plan, p) /\ Follows(plan, p)
                  /\ Drops(plan, p)
                  /\ route[r].passed > 0 => route[r].midway[route[r].passed] # To[p]
  <2>1. /\ HereFirst(plan, route[r])
        /\ \A p \in Rider : Concerns(t, p) => Takes(plan, p)
        /\ At(t, "replan") => \A p \in task[t].who :
             Takes(plan, p) /\ To[p] \notin Here(route[r])
    BY <1>1, <1>2, <1>5 DEF ThreadOK, PromiseOK
  <2>2. ASSUME NEW p \in Rider \ astray
        PROVE  /\ p \in Waiting(r) => Drops(plan, p) /\ Follows(plan, p)
               /\ p \in Aboard(r) =>
                    /\ Drops(plan, p)
                    /\ route[r].passed > 0 => route[r].midway[route[r].passed] # To[p]
    <3>1. p \in Aboard(r) \cup Waiting(r) => Takes(plan, p)
      BY <1>2, <2>1 DEF Concerns
    <3>2. p \in Waiting(r) => rider[p].status = "waiting"
      BY <1>1, Members
    <3>3. p \in Aboard(r) => Carried(p, route[r])
      BY <1>1, <1>5 DEF CourseOK
    <3> QED
      BY <3>1, <3>2, <3>3 DEF Takes, Carried
  <2>3. \A p : To[p] \notin Here(route[r]) =>
          (route[r].passed > 0 => route[r].midway[route[r].passed] # To[p])
    BY DEF Here
  <2> QED
    BY <2>1, <2>2, <2>3 DEF Takes
<1> QED
  BY <1>3, <1>4, <1>5

\* A plan that is written and not marked was not an old one.
LEMMA NotOld ==
  ASSUME Grows, NEW t \in Thread, NEW r, Outdate(t, r), r \notin outdated'
  PROVE  ~task[t].old /\ r \notin outdated
BY DEF Outdate, Grows

LEMMA NextMergeWrite ==
  ASSUME Inv, Grows, ~overtaken', NEW t \in Thread, MergeWrite(t)
  PROVE  Inv'
<1>1. PICK r, row, plan : r = task[t].r /\ row = task[t].row /\ plan = task[t].plan
  OBVIOUS
<1>2. PICK new : new = MergedRow(r, row, plan)
  OBVIOUS
<1>3. /\ At(t, "merge") /\ Len(Merged(row, plan)) <= MaxStops
      /\ route' = [route EXCEPT ![r] = new] /\ Holders(t, r) = {} /\ Outdate(t, r)
      /\ Finish(t) /\ UNCHANGED <<rider, rows, board, keys, rides>>
  BY <1>1, <1>2 DEF MergeWrite, Overwrite
<1>4. Columns /\ Places /\ Signals /\ Progress
  BY DEF Inv
<1>5. r \in Route /\ Born(r) /\ route[r] \in RouteRow /\ row \in RouteRow
  BY <1>1, <1>3, <1>4, TaskFacts, RouteFacts DEF Places, Place, Expiring, At
<1>6. Rests(t) /\ task' \in [Thread -> Task] /\ Alone(t, r)
  BY <1>3, <1>4, Finished, HoldersNone
<1>7. CASE new = Shut
  <2>1. Columns'
    BY <1>3, <1>4, <1>5, <1>6, <1>7, ShutRoute DEF Columns, board, keys
  <2>2. Steady
    BY <1>3, <1>4, <1>5, <1>6, <1>7, ShutSteady DEF Rests
  <2>3. Leaves
    BY <1>3 DEF Leaves, Left1
  <2>4. Signals'
    BY <1>3, <1>4, <1>6, RestsSettled, SignalsKept DEF board
  <2> QED
    BY <1>3, <1>6, <2>1, <2>2, <2>3, <2>4, RestsSettled, QuietLeaving DEF keys
<1>8. CASE new # Shut
  <2>1. PICK L, R : L = Merged(row, plan) /\ R = Left(row, plan)
    OBVIOUS
  <2>2. new = [route[r] EXCEPT !.midway = L, !.ahead = Len(R)] /\ ~Closed(r)
    BY <1>2, <1>8, <2>1 DEF MergedRow
  <2>3. route[r].state = "open"
    BY <1>5, <2>2, RowFacts DEF Born, Closed
  <2>4. PICK c : c = route[r].passed
    OBVIOUS
  <2>5. /\ plan \in Plans /\ row.midway = route[r].midway /\ row.passed = c
        /\ OpenRoutes = {r} /\ \A u \in Thread : ~Creates(u)
        /\ ~task[t].old /\ r \notin outdated =>
             /\ HereFirst(plan, route[r])
             /\ \A p \in Rider \ astray :
                  /\ p \in Waiting(r) => Drops(plan, p) /\ Follows(plan, p)
                  /\ p \in Aboard(r) =>
                       Drops(plan, p) /\ (c > 0 => row.midway[c] # To[p])
    BY <1>1, <1>3, <1>5, <2>3, <2>4, PendingFacts
  <2>6. c <= Len(row.midway) /\ c \in 0 .. MaxStops /\ MaxStops \in Nat
    BY <1>4, <1>5, <2>4, <2>5, RowFacts, RouteAssumption DEF Progress, Within
  <2>7. /\ L \in Seq(Station) /\ \A i \in 1 .. c : L[i] = row.midway[i]
        /\ R \in Seq(Station) /\ c + Len(R) = Len(L)
    <3>1. PICK e : e = IF c = 0 THEN 0 ELSE Named(row, plan)
      OBVIOUS
    <3>2. /\ e \in 0 .. Len(plan) /\ L \in Seq(Station) /\ Len(L) = c + Len(plan) - e
          /\ \A i \in 1 .. c : L[i] = row.midway[i]
          /\ R \in Seq(Station) /\ Len(R) = Len(plan) - e
      <4>1. row \in RouteRow /\ plan \in Plans /\ row.passed <= Len(row.midway) /\ c = row.passed
        BY <1>5, <2>5, <2>6
      <4>2. /\ L = Merged(row, plan) /\ R = Left(row, plan)
            /\ e = IF c = 0 THEN 0 ELSE Named(row, plan)
        BY <2>1, <3>1
      <4> QED
        BY <4>1, <4>2, MergedKeeps
    <3>3. Len(plan) \in Nat
      BY <2>5, PlanFacts, RouteAssumption
    <3> QED
      BY <2>6, <3>2, <3>3
  <2>8. PICK d : r \notin outdated' => Joins(L, c, plan, d)
    <3>1. ASSUME r \notin outdated' PROVE \E d : Joins(L, c, plan, d)
      <4>1. HereFirst(plan, route[r])
        BY <1>3, <2>5, <3>1, NotOld
      <4>2. HereFirst(plan, row)
        BY <2>4, <2>5, <4>1 DEF HereFirst, Here
      <4> QED
        BY <1>5, <2>1, <2>5, <2>6, <4>2, MergedJoins
    <3> QED
      BY <3>1
  <2>9. /\ L \in Stops /\ Len(R) \in 0 .. MaxStops
    <3>1. L \in Seq(Station) /\ Len(L) <= MaxStops
      BY <1>3, <2>1, <2>7
    <3>2. Len(R) \in Nat /\ Len(L) \in Nat
      BY <2>7, LenProperties
    <3> QED
      BY <2>6, <2>7, <3>1, <3>2, StopsSeq
  <2>10. new = [state |-> "open", midway |-> L, passed |-> c, ahead |-> Len(R)]
    BY <1>5, <2>2, <2>3, <2>4 DEF RouteRow
  <2>11. new \in RouteRow
    BY <2>6, <2>9, <2>10 DEF RouteRow
  <2>12. Columns'
    BY <1>3, <1>4, <1>5, <1>6, <2>11 DEF Columns, board, keys
  <2>13. Within(new)
    BY <2>6, <2>7, <2>9, <2>10 DEF Within
  <2>14. ASSUME NEW i \in 1 .. new.passed PROVE new.midway[i] \in rows[r]
    BY <1>4, <1>5, <2>4, <2>5, <2>7, <2>10 DEF Progress
  <2>15. ASSUME r \notin outdated', NEW p \in Rider \ astray', rider'[p].route = r
         PROVE  /\ rider'[p].status = "waiting" => Drops(plan, p) /\ Follows(plan, p)
                /\ rider'[p].status = "riding" =>
                     Drops(plan, p) /\ (c > 0 => L[c] # To[p])
    <3>1. rider'[p] = rider[p] /\ p \notin astray
      BY <1>3, <2>15 DEF Grows
    <3>2. c > 0 => L[c] = row.midway[c]
      BY <2>6, <2>7
    <3>3. /\ p \in Waiting(r) => Drops(plan, p) /\ Follows(plan, p)
          /\ p \in Aboard(r) => Drops(plan, p) /\ (c > 0 => row.midway[c] # To[p])
      BY <1>3, <2>5, <2>15, <3>1, NotOld
    <3> QED
      BY <1>4, <2>15, <3>1, <3>2, <3>3, Members
  <2>16. /\ \A p \in Rider : rider'[p].route # r => rider'[p] = rider[p]
         /\ Calm /\ UNCHANGED <<rows, client, unable, overdue>>
    BY <1>3 DEF board, keys, Calm
  <2>17. new.state = "open" /\ new.midway = L /\ new.passed = c
    BY <2>10
  <2>18. r \notin outdated' =>
           /\ Joins(new.midway, new.passed, plan, d)
           /\ \A p \in Rider \ astray' : rider'[p].route = r =>
                /\ rider'[p].status = "waiting" => Drops(plan, p) /\ Follows(plan, p)
                /\ rider'[p].status = "riding" =>
                     Drops(plan, p) /\ (new.passed > 0 => new.midway[new.passed] # To[p])
    BY <2>8, <2>15, <2>17
  <2>19. OpenRoutes \subseteq {r} /\ \A u \in Thread \ {t} : ~Creates(u)
    BY <2>5
  <2> QED
    <3>1. /\ r \in Route /\ Rests(t) /\ Alone(t, r) /\ plan \in Plans
          /\ route' = [route EXCEPT ![r] = new] /\ new.state = "open"
      BY <1>3, <1>5, <1>6, <2>5, <2>17
    <3>2. \A i \in 1 .. new.passed : new.midway[i] \in rows[r]
      BY <2>14
    <3>3. WritesPlan(t, r, new, plan, d)
      BY <2>13, <2>16, <2>18, <2>19, <3>1, <3>2 DEF WritesPlan
    <3> QED
      BY <2>12, <3>1, <3>3, PlanWritten
<1> QED
  BY <1>7, <1>8


LEMMA NextSaveRoute ==
  ASSUME Inv, Grows, ~overtaken', NEW t \in Thread, SaveRoute(t)
  PROVE  Inv'
<1>1. PICK plan, who : plan = task[t].plan /\ who = task[t].who
  OBVIOUS
<1>2. PICK r \in Route :
        /\ route[r].state = "none"
        /\ route' = [route EXCEPT ![r] = Fresh(plan)]
        /\ rider' = Assign(who, r) /\ Outdate(t, r)
  BY <1>1 DEF SaveRoute
<1>3. /\ Creates(t) /\ Finish(t) /\ UNCHANGED <<rows, board, keys, rides>>
      /\ \A u \in Thread \ {t} : ~Creates(u)
  <2>1. Alone(t, NoRoute)
    BY HoldersNone DEF SaveRoute, Overwrite
  <2> QED
    BY <2>1 DEF SaveRoute, Creates, Alone, Holds
<1>4. Columns /\ Places /\ ThreadOK(t)
  BY DEF Inv
<1>5. PICK new : new = Fresh(plan)
  OBVIOUS
<1>6. /\ plan \in Plans /\ who \subseteq Rider /\ OpenRoutes = {}
      /\ r \notin outdated' => \A p \in who :
           Drops(plan, p) /\ (rider[p].status = "waiting" => Follows(plan, p))
  <2>1. Planned(t) /\ At(t, "replan")
    BY <1>3 DEF Planned, Creates
  <2>2. plan \in Plans /\ OpenRoutes = {} /\ who \subseteq Rider
    BY <1>1, <1>3, <1>4, <2>1, TaskFacts DEF ThreadOK, CopyOK, Places, Place
  <2>3. ASSUME r \notin outdated' PROVE \A p \in who : Takes(plan, p)
    <3>1. ~task[t].old
      BY <1>2, <2>3, NotOld
    <3> QED
      BY <1>1, <1>4, <2>1, <3>1 DEF ThreadOK, PromiseOK
  <2> QED
    BY <2>2, <2>3 DEF Takes
<1>7. /\ plan \in Stops /\ plan \in Seq(Station) /\ Len(plan) \in 1 .. MaxStops
      /\ MaxStops \in Nat
  BY <1>6, PlanFacts, RouteAssumption
<1>8. /\ new.state = "open" /\ new.midway = plan /\ new.passed = 0
      /\ new.ahead = Len(plan) /\ new \in RouteRow
  <2>1. new = [state |-> "open", midway |-> plan, passed |-> 0, ahead |-> Len(plan)]
    BY <1>5 DEF Fresh
  <2> QED
    BY <1>7, <2>1 DEF RouteRow
<1>9. Rests(t) /\ task' \in [Thread -> Task]
  BY <1>3, <1>4, Finished
<1>10. /\ rider' \in [Rider -> RiderRow]
       /\ \A p \in Rider \ who : rider'[p] = rider[p]
       /\ \A p \in Rider \cap who :
            rider'[p].route = r /\ rider'[p].status = rider[p].status
  BY <1>2, <1>4, Assigned
<1>11. Columns'
  BY <1>2, <1>3, <1>4, <1>5, <1>8, <1>9, <1>10 DEF Columns, board, keys
\* Nobody has, and nothing is done on, a route that was never saved.
<1>12. ~Born(r) /\ r # NoRoute
  BY <1>2, RouteAssumption DEF Born
<1>13. Alone(t, r) /\ \A p \in Rider : rider[p].route # r
  BY <1>4, <1>12 DEF Alone, Holds, Places, Place
<1>14. Joins(new.midway, new.passed, plan, 0)
  BY <1>7, <1>8 DEF Joins
<1>15. Within(new)
  BY <1>7, <1>8 DEF Within
<1>16. \A i \in 1 .. new.passed : new.midway[i] \in rows[r]
  BY <1>8
<1>17. \A p \in Rider : rider'[p].route # r => rider'[p] = rider[p]
  BY <1>10
<1>18. ASSUME r \notin outdated', NEW p \in Rider \ astray', rider'[p].route = r
       PROVE  /\ rider'[p].status = "waiting" => Drops(plan, p) /\ Follows(plan, p)
              /\ rider'[p].status = "riding" => Drops(plan, p)
  <2>1. p \in who
    BY <1>10, <1>13, <1>18
  <2> QED
    BY <1>6, <1>10, <1>18, <2>1
<1>19. Calm
  BY <1>10 DEF Calm
<1>20. WritesPlan(t, r, new, plan, 0)
  <2>1. r \notin outdated' =>
          /\ Joins(new.midway, new.passed, plan, 0)
          /\ \A p \in Rider \ astray' : rider'[p].route = r =>
               /\ rider'[p].status = "waiting" => Drops(plan, p) /\ Follows(plan, p)
               /\ rider'[p].status = "riding" =>
                    Drops(plan, p) /\ (new.passed > 0 => new.midway[new.passed] # To[p])
    BY <1>8, <1>14, <1>18
  <2>2. route' = [route EXCEPT ![r] = new] /\ OpenRoutes \subseteq {r}
    BY <1>2, <1>5, <1>6
  <2>3. UNCHANGED <<rows, client, unable, overdue>>
    BY <1>3 DEF board, keys
  <2> QED
    BY <1>3, <1>8, <1>9, <1>13, <1>15, <1>16, <1>17, <1>19, <2>1, <2>2, <2>3
       DEF WritesPlan
<1> QED
  BY <1>6, <1>11, <1>20, PlanWritten

LEMMA NextReplan ==
  ASSUME Inv, Grows, ~overtaken', NEW t \in Thread, Replan(t)
  PROVE  Inv'
<1>1. PICK r, plan, who : r = task[t].r /\ plan = task[t].plan /\ who = task[t].who
  OBVIOUS
<1>2. PICK stops : stops = <<task[t].row.midway[1]>> \o plan
  OBVIOUS
<1>3. PICK new : new = [route[r] EXCEPT !.midway = stops, !.passed = 1, !.ahead = Len(plan)]
  OBVIOUS
<1>4. /\ Writes(t) /\ task[t].row.passed = 1 /\ Len(stops) <= MaxStops
      /\ route' = [route EXCEPT ![r] = IF Closed(r) THEN Shut ELSE new]
      /\ rider' = Assign(who, r) /\ Holders(t, r) = {} /\ route[r].passed = 1
      /\ Finish(t) /\ Outdate(t, r) /\ UNCHANGED <<rows, board, keys, rides>>
  BY <1>1, <1>2, <1>3 DEF Replan, Writes
<1>5. Columns /\ Places /\ Progress /\ ThreadOK(t)
  BY DEF Inv
<1>6. r \in Route /\ route[r] \in RouteRow /\ who \subseteq Rider
  BY <1>1, <1>4, <1>5, TaskFacts, RouteFacts DEF Writes
<1>7. route[r].state = "open" /\ route' = [route EXCEPT ![r] = new]
  BY <1>1, <1>4, <1>5 DEF ThreadOK, CopyOK, Closed
<1>8. PICK s : s = route[r].midway[1]
  OBVIOUS
<1>9. /\ plan \in Plans /\ stops = <<s>> \o plan
      /\ OpenRoutes = {r} /\ \A u \in Thread : ~Creates(u)
      /\ ~task[t].old /\ r \notin outdated =>
           /\ HereFirst(plan, route[r])
           /\ \A p \in Rider \ astray :
                /\ p \in Waiting(r) => Drops(plan, p) /\ Follows(plan, p)
                /\ p \in Aboard(r) => Drops(plan, p) /\ s # To[p]
           /\ \A p \in who :
                /\ rider[p].status = "waiting" => Drops(plan, p) /\ Follows(plan, p)
                /\ Drops(plan, p) /\ s # To[p]
  <2>1. At(t, "replan")
    BY <1>4 DEF Writes
  <2> QED
    BY <1>1, <1>2, <1>4, <1>6, <1>7, <1>8, <2>1, PendingFacts
<1>10. s \in Station /\ s \in rows[r]
  <2>1. 1 \in 1 .. Len(route[r].midway) /\ route[r].midway \in Seq(Station)
    BY <1>4, <1>5, <1>6, RowFacts DEF Progress, Within
  <2>2. s \in Station
    BY <1>8, <2>1, ElementOfSeq
  <2> QED
    BY <1>4, <1>5, <1>6, <1>8, <2>2 DEF Progress
<1>11. /\ plan \in Seq(Station) /\ Len(plan) \in 1 .. MaxStops /\ MaxStops \in Nat
       /\ DOMAIN plan = 1 .. Len(plan)
  BY <1>9, PlanFacts, RouteAssumption
<1>12. /\ stops \in Seq(Station) /\ Len(stops) = 1 + Len(plan) /\ stops[1] = s
       /\ \A i \in 1 .. Len(plan) : stops[1 + i] = plan[i]
  <2>1. PICK one : one = <<s>>
    OBVIOUS
  <2>2. one \in Seq(Station) /\ Len(one) = 1 /\ one[1] = s
    BY <1>10, <2>1
  <2>3. /\ one \o plan \in Seq(Station) /\ Len(one \o plan) = Len(one) + Len(plan)
        /\ \A i \in 1 .. Len(one) + Len(plan) :
             (one \o plan)[i] = IF i <= Len(one) THEN one[i] ELSE plan[i - Len(one)]
    BY <1>11, <2>2, ConcatProperties
  <2>4. /\ stops \in Seq(Station) /\ Len(stops) = 1 + Len(plan)
        /\ \A i \in 1 .. 1 + Len(plan) :
             stops[i] = IF i <= 1 THEN one[i] ELSE plan[i - 1]
    BY <1>9, <2>1, <2>2, <2>3
  <2>5. stops[1] = s
    BY <1>11, <2>2, <2>4
  <2>6. ASSUME NEW i \in 1 .. Len(plan) PROVE stops[1 + i] = plan[i]
    <3>1. 1 + i \in 1 .. 1 + Len(plan) /\ ~(1 + i <= 1) /\ (1 + i) - 1 = i
      BY <1>11
    <3> QED
      BY <2>4, <3>1
  <2> QED
    BY <2>4, <2>5, <2>6
<1>13. /\ new.state = "open" /\ new.midway = stops /\ new.passed = 1
       /\ new.ahead = Len(plan) /\ new \in RouteRow
  <2>1. new = [state |-> "open", midway |-> stops, passed |-> 1, ahead |-> Len(plan)]
    BY <1>3, <1>6, <1>7 DEF RouteRow
  <2>2. stops \in Stops /\ 1 \in 0 .. MaxStops
    BY <1>4, <1>11, <1>12, StopsSeq
  <2> QED
    BY <1>11, <2>1, <2>2 DEF RouteRow
<1>14. Rests(t) /\ task' \in [Thread -> Task] /\ Alone(t, r)
  BY <1>4, <1>5, <1>6, Finished, HoldersNone
<1>15. /\ rider' \in [Rider -> RiderRow]
       /\ \A p \in Rider \ who : rider'[p] = rider[p]
       /\ \A p \in Rider \cap who :
            rider'[p].route = r /\ rider'[p].status = rider[p].status
  BY <1>4, <1>5, <1>6, Assigned
<1>16. Columns'
  BY <1>4, <1>5, <1>6, <1>7, <1>13, <1>14, <1>15 DEF Columns, board, keys
<1>17. ASSUME r \notin outdated' PROVE Joins(new.midway, new.passed, plan, 0)
  <2>1. ASSUME NEW i \in 1 .. Len(plan) - 0 PROVE stops[1 + i] = plan[0 + i]
    <3>1. i \in 1 .. Len(plan) /\ 0 + i = i
      BY <1>11
    <3> QED
      BY <1>12, <3>1
  <2>2. Len(stops) = 1 + Len(plan) - 0
    BY <1>11, <1>12
  <2>3. \A i \in 1 .. Len(plan) : plan[i] = stops[1] => i = 1
    <3>1. HereFirst(plan, route[r])
      BY <1>4, <1>9, <1>17, NotOld
    <3> QED
      BY <1>4, <1>8, <1>11, <1>12, <3>1 DEF HereFirst, Here
  <2>4. Joins(stops, 1, plan, 0)
    BY <1>12, <2>1, <2>2, <2>3 DEF Joins
  <2> QED
    BY <1>13, <2>4
<1>18. Within(new)
  BY <1>11, <1>12, <1>13 DEF Within
<1>19. \A i \in 1 .. new.passed : new.midway[i] \in rows[r]
  BY <1>10, <1>12, <1>13
<1>20. \A p \in Rider : rider'[p].route # r => rider'[p] = rider[p]
  BY <1>15
<1>21. ASSUME r \notin outdated', NEW p \in Rider \ astray', rider'[p].route = r
       PROVE  /\ rider'[p].status = "waiting" => Drops(plan, p) /\ Follows(plan, p)
              /\ rider'[p].status = "riding" => Drops(plan, p) /\ s # To[p]
  <2>1. ~task[t].old /\ r \notin outdated /\ p \notin astray
    BY <1>4, <1>21, NotOld DEF Grows
  <2>2. CASE p \in who
    BY <1>9, <1>15, <2>1, <2>2
  <2>3. CASE p \notin who
    BY <1>5, <1>9, <1>15, <1>21, <2>1, <2>3, Members
  <2> QED
    BY <2>2, <2>3
<1>22. r \notin outdated' =>
         /\ Joins(new.midway, new.passed, plan, 0)
         /\ \A p \in Rider \ astray' : rider'[p].route = r =>
              /\ rider'[p].status = "waiting" => Drops(plan, p) /\ Follows(plan, p)
              /\ rider'[p].status = "riding" =>
                   Drops(plan, p) /\ (new.passed > 0 => new.midway[new.passed] # To[p])
  BY <1>12, <1>13, <1>17, <1>21
<1>23. Calm
  BY <1>15 DEF Calm
<1>24. UNCHANGED <<rows, client, unable, overdue>> /\ OpenRoutes \subseteq {r}
  BY <1>4, <1>9 DEF board, keys
<1>25. WritesPlan(t, r, new, plan, 0)
  BY <1>7, <1>9, <1>13, <1>14, <1>18, <1>19, <1>20, <1>22, <1>23, <1>24 DEF WritesPlan
<1> QED
  BY <1>6, <1>9, <1>16, <1>25, PlanWritten


-----------------------------------------------------------------------------
(* The theorems.                                                           *)

LEMMA NextKeepsOvertaken ==
  ASSUME Next, overtaken
  PROVE  overtaken'
<1>1. ASSUME NEW t \in Thread, Report(t) \/ ReadReport(t) \/ Drive(t) PROVE overtaken'
  BY <1>1 DEF Report, EndRoute, Arrive, Throw, StartLeaving, TakeOrders, Leave,
              ReadReport, Drive, Overwrite, past
<1>2. ASSUME NEW t \in Thread, Expiry(t) \/ Cancelling(t) PROVE overtaken'
  BY <1>2 DEF Expiry, LateAsked, LateUnanswered, LateAnswered, LateDropped, ReadRow,
              MergeWrite, Cancelling, CancelUnasked, CancelDropped, CancelAsked, Ask,
              CancelRoute, Overwrite, past
<1>3. ASSUME NEW t \in Thread, Planning(t) \/ \E p \in Rider : Cancel(t, p)
      PROVE  overtaken'
  BY <1>3 DEF Planning, ReadPlan, SaveRoute, Unsupported, Replan, Cancel, Overwrite, past
<1>4. CASE \E r \in Route, s \in Station : OverdueExpires(r, s)
  BY <1>4 DEF OverdueExpires, past
<1>5. CASE \/ Dispatch \/ (\E p \in Rider : Scanning(p))
           \/ (\E r \in Route : FinishRoute(r)) \/ StopExpires \/ StartExpires
  BY <1>5 DEF Dispatch, Ask, Scanning, Scan, Board, Look, Record, FinishRoute,
              StopExpires, StartExpires, Overwrite, past
<1> QED
  BY <1>1, <1>2, <1>3, <1>4, <1>5 DEF Next

\* The history only grows.
LEMMA PastSame ==
  ASSUME Past, UNCHANGED <<rides, outdated>>
  PROVE  Grows
BY DEF Past, Grows, rides

LEMMA Outdates ==
  ASSUME Past, NEW t, NEW r \in Route, Outdate(t, r), UNCHANGED rides
  PROVE  Grows
BY DEF Past, Grows, rides, Outdate

LEMMA ScanGrows ==
  ASSUME Inv, NEW p \in Rider, Scanning(p)
  PROVE  Grows
<1>1. /\ scan \in [Rider -> ScanRow] /\ outdated \subseteq Route /\ astray \subseteq Rider
      /\ rider[p].route \in Route \cup {NoRoute}
  BY RiderFacts DEF Inv, Past
<1>2. PICK x : scan' = [scan EXCEPT ![p] = x] /\ x \in ScanRow
  <2>1. scan[p] \in ScanRow /\ Unscanned \in ScanRow
    BY <1>1 DEF ScanRow, Unscanned
  <2>2. CASE Scan(p)
    <3>1. [pc |-> "read", r |-> rider[p].route] \in ScanRow
      BY <1>1 DEF ScanRow
    <3> QED
      BY <2>2, <3>1 DEF Scan
  <2>3. CASE Board(p)
    <3>1. [scan[p] EXCEPT !.pc = "boarded"] \in ScanRow
      BY <2>1 DEF ScanRow
    <3> QED
      BY <2>3, <3>1 DEF Board
  <2>4. CASE Look(p)
    <3>1. [scan[p] EXCEPT !.pc = "unseen"] \in ScanRow
      BY <2>1 DEF ScanRow
    <3> QED
      BY <2>1, <2>4, <3>1 DEF Look
  <2>5. CASE Record(p)
    BY <2>1, <2>5 DEF Record
  <2> QED
    BY <2>2, <2>3, <2>4, <2>5 DEF Scanning
<1>3. scan' \in [Rider -> ScanRow]
  BY <1>1, <1>2
<1>4. outdated' = outdated /\ astray \subseteq astray' /\ astray' \subseteq Rider
  BY <1>1 DEF Scanning, Scan, Board, Look, Record, past
<1> QED
  BY <1>1, <1>3, <1>4 DEF Grows, Past

LEMMA NextGrows ==
  ASSUME Inv, Next
  PROVE  Grows
<1>1. Past /\ Columns /\ Places
  BY DEF Inv
<1>2. ASSUME NEW t \in Thread, Report(t) \/ ReadReport(t) \/ Drive(t) PROVE Grows
  BY <1>1, <1>2, PastSame DEF Report, EndRoute, Arrive, Throw, StartLeaving, TakeOrders,
     Leave, ReadReport, Drive, past
<1>3. ASSUME NEW t \in Thread, Expiry(t) \/ Cancelling(t) PROVE Grows
  <2>1. CASE MergeWrite(t)
    <3>1. task[t].r \in Route
      BY <1>1, <2>1, TaskFacts DEF MergeWrite, Places, Place, Expiring, At
    <3> QED
      BY <1>1, <2>1, <3>1, Outdates DEF MergeWrite
  <2> QED
    BY <1>1, <1>3, <2>1, PastSame DEF Expiry, LateAsked, LateUnanswered, LateAnswered,
       LateDropped, ReadRow, Cancelling, CancelUnasked, CancelDropped, CancelAsked, Ask, past
<1>4. ASSUME NEW t \in Thread, Planning(t) \/ \E p \in Rider : Cancel(t, p) PROVE Grows
  <2>1. CASE SaveRoute(t)
    BY <1>1, <2>1, Outdates DEF SaveRoute
  <2>2. CASE Replan(t)
    <3>1. task[t].r \in Route
      BY <1>1, <2>2, TaskFacts DEF Replan
    <3> QED
      BY <1>1, <2>2, <3>1, Outdates DEF Replan
  <2> QED
    BY <1>1, <1>4, <2>1, <2>2, PastSame DEF Planning, ReadPlan, Unsupported, Cancel, past
<1>5. CASE \E r \in Route, s \in Station : OverdueExpires(r, s)
  BY <1>1, <1>5, PastSame DEF OverdueExpires, past
<1>6. CASE \/ Dispatch \/ (\E r \in Route : FinishRoute(r)) \/ StopExpires \/ StartExpires
  BY <1>1, <1>6, PastSame DEF Dispatch, Ask, FinishRoute, StopExpires, StartExpires, past
<1>7. CASE \E p \in Rider : Scanning(p)
  BY <1>7, ScanGrows
<1> QED
  BY <1>2, <1>3, <1>4, <1>5, <1>6, <1>7 DEF Next

LEMMA NextInv ==
  ASSUME Inv, ~overtaken', Next
  PROVE  Inv'
<1>0. Grows
  BY NextGrows
<1>1. ASSUME NEW t \in Thread, Report(t) \/ ReadReport(t) \/ Drive(t) PROVE Inv'
  BY <1>0, <1>1, NextEndRoute, NextArrive, NextThrow, NextStartLeaving, NextTakeOrders,
     NextLeave, NextReadReport DEF Report
<1>2. ASSUME NEW t \in Thread, Expiry(t) \/ Cancelling(t) PROVE Inv'
  BY <1>0, <1>2, NextLateAsked, NextThrow, NextLateAnswered, NextDropped, NextReadRow,
     NextMergeWrite, NextPlan DEF Expiry, Cancelling
<1>3. ASSUME NEW t \in Thread, Planning(t) \/ \E p \in Rider : Cancel(t, p)
      PROVE  Inv'
  BY <1>0, <1>3, NextReadPlan, NextSaveRoute, NextThrow, NextReplan, NextCancel DEF Planning
<1>4. CASE \E r \in Route, s \in Station : OverdueExpires(r, s)
  BY <1>0, <1>4, NextOverdueExpires
<1>5. CASE \/ Dispatch \/ (\E p \in Rider : Scanning(p))
           \/ (\E r \in Route : FinishRoute(r)) \/ StopExpires \/ StartExpires
  BY <1>0, <1>5, NextPlan, NextBoard, NextLook, NextRecord, NextFinishRoute, NextExpires
     DEF Scanning
<1> QED
  BY <1>1, <1>2, <1>3, <1>4, <1>5 DEF Next

LEMMA Stutters ==
  ASSUME Inv, UNCHANGED vars
  PROVE  Inv'
<1>1. Grows
  BY PastSame DEF Inv, vars, past
<1> QED
  BY <1>1, Untouched DEF vars

LEMMA InitInv ==
  ASSUME Init
  PROVE  Inv
<1>1. /\ \A r \in Route : route[r] = NoRow /\ rows[r] = {}
      /\ \A p \in Rider : rider[p].status = "waiting" /\ rider[p].route = NoRoute
      /\ \A t \in Thread : task[t] = Idle
      /\ overdue = {} /\ client = 0 /\ unable = 0
  BY DEF Init
<1>2. Columns
  <2>1. route \in [Route -> RouteRow] /\ task \in [Thread -> Task]
    BY ShutRows, IdleTask DEF Init
  <2>2. rider \in [Rider -> RiderRow] /\ rows \in [Route -> SUBSET Station]
    BY DEF Init, RiderRow
  <2>3. client \in 0 .. 2 /\ unable \in Nat /\ overdue \subseteq Route \X Station
    BY DEF Init
  <2>4. stopKey \in BOOLEAN /\ startKey \in BOOLEAN
    BY DEF Init
  <2> QED
    BY <2>1, <2>2, <2>3, <2>4 DEF Columns
<1>3. OpenRoutes = {}
  BY <1>1, ShutRows DEF OpenRoutes
<1>4. Places /\ One /\ Signals
  BY <1>1, <1>3, IdleTask DEF Places, Place, One, Signals, At, Expiring
<1>8. Past
  BY DEF Init, Past, ScanRow, Unscanned
<1>5. Progress
  BY <1>1, ShutRows DEF Progress
<1>6. ASSUME NEW t \in Thread PROVE ThreadOK(t)
  BY <1>1, IdleTask
     DEF ThreadOK, ReportOK, CopyOK, AskOK, Asking, PromiseOK, Planned, Writes, Creates, At
<1>7. ASSUME NEW r \in Route PROVE CourseOK(r)
  BY <1>1, ShutRows DEF CourseOK
<1> QED
  BY <1>2, <1>4, <1>5, <1>6, <1>7, <1>8 DEF Inv

\* Until a handler is overtaken, every reachable state satisfies the invariant.
THEOREM Invariance == Spec => []IInv
<1>1. Init => IInv
  BY InitInv DEF IInv
<1>2. IInv /\ [Next]_vars => IInv'
  <2>1. SUFFICES ASSUME IInv, [Next]_vars, ~overtaken' PROVE Inv'
    BY DEF IInv
  <2>2. ~overtaken
    BY <2>1, NextKeepsOvertaken DEF vars, past
  <2>3. Inv
    BY <2>1, <2>2 DEF IInv
  <2> QED
    BY <2>1, <2>3, NextInv, Stutters
<1> QED
  BY <1>1, <1>2, PTL DEF Spec

\* TypeOK: rows, keys and tasks keep their shapes, and no more stops are left to
\* navigate than the list of stops has ahead (t_route_offpeak, carGetDown).
THEOREM TypeCorrect == Spec => []TypeOK
<1>1. IInv => TypeOK
  <2>1. SUFFICES ASSUME Inv, ~overtaken PROVE TypeOK
    BY DEF IInv, TypeOK
  <2>2. \A t \in Thread : task[t].r \in Route \cup {NoRoute} /\ task[t].who \subseteq Rider
    BY <2>1, TaskFacts DEF Inv
  <2>3. Columns /\ Past /\ Progress
    BY <2>1 DEF Inv
  <2> QED
    BY <2>2, <2>3 DEF TypeOK, Columns, Past, ScanRow, Progress, Within, RiderRow
<1> QED
  BY <1>1, Invariance, PTL

\* NoStopSkipped: the stops counted as passed are stops the car was recorded at;
\* re-planning keeps the part of the list that curr_station points into
\* (carGetDown, setRouteOrderExpire, parseCommonData).
THEOREM StopsRecorded == Spec => []NoStopSkipped
<1>1. IInv => NoStopSkipped
  BY DEF IInv, Inv, Progress, NoStopSkipped
<1> QED
  BY <1>1, Invariance, PTL

\* RidersAreServed: everyone who boarded as planned has the own stop ahead, whatever
\* arrivals, boardings and plans come in between, as long as the route got no plan
\* that was made for another row than it was written to (carGetDown,
\* setRouteOrderExpire, callCancelMaasCommon, checkQrCallBack).
THEOREM RidersServed == Spec => []RidersAreServed
<1>1. IInv => RidersAreServed
  <2>1. SUFFICES ASSUME Inv, NEW r \in OpenRoutes \ outdated, NEW p \in Aboard(r) \ astray
                 PROVE  To[p] \in Ahead(r)
    BY DEF IInv, RidersAreServed
  <2>2. /\ Columns /\ r \in Route /\ route[r].state = "open" /\ p \in Rider
        /\ CourseOK(r)
    BY <2>1 DEF Inv, OpenRoutes, Aboard
  <2>3. PICK j \in DOMAIN route[r].midway :
          j > route[r].passed /\ route[r].midway[j] = To[p]
    BY <2>1, <2>2 DEF CourseOK, Carried
  <2>4. j \in route[r].passed + 1 .. Len(route[r].midway)
    BY <2>2, <2>3, RouteFacts, RowFacts, RouteAssumption
  <2> QED
    BY <2>3, <2>4 DEF Ahead, Range1
<1> QED
  BY <1>1, Invariance, PTL

\* StopListMatches: the car is listed as taking no orders at most once, and not
\* while it drives (carIds and carClients in carGetDown).
THEOREM SignalsPair == Spec => []StopListMatches
<1>1. IInv => StopListMatches
  BY DEF IInv, Inv, Signals, StopListMatches
<1> QED
  BY <1>1, Invariance, PTL

\* OneOpenRoute: no two dispatches or cancellations give the car two open routes
\* (parseCommonData, callCancelMaasCommon).
THEOREM OneRoute == Spec => []OneOpenRoute
<1>1. IInv => OneOpenRoute
  <2>1. SUFFICES ASSUME One PROVE Cardinality(OpenRoutes) <= 1
    BY DEF IInv, Inv, OneOpenRoute
  <2>2. CASE OpenRoutes = {}
    BY <2>2, FS_EmptySet
  <2>3. ASSUME NEW r \in OpenRoutes PROVE Cardinality(OpenRoutes) <= 1
    <3>1. OpenRoutes = {r}
      BY <2>1, <2>3 DEF One
    <3>2. Cardinality({r}) = 1
      BY FS_Singleton
    <3> QED
      BY <3>1, <3>2
  <2> QED
    BY <2>2, <2>3
<1> QED
  BY <1>1, Invariance, PTL

LEMMA ClosedKept ==
  ASSUME Columns, NEW r, NEW x, route' = [route EXCEPT ![r] = x],
         r \in Route /\ Closed(r) => x.state = "closed"
  PROVE  \A s \in Route : Closed(s) => Closed(s)'
BY DEF Columns, Closed

LEMMA NextClosed ==
  ASSUME Columns, ~overtaken', Next
  PROVE  \A s \in Route : Closed(s) => Closed(s)'
<1>1. CASE UNCHANGED route
  BY <1>1 DEF Closed
<1>2. ASSUME NEW r, route' = [route EXCEPT ![r] = Shut]
      PROVE  \A s \in Route : Closed(s) => Closed(s)'
  BY <1>2, ClosedKept, ShutRows
<1>3. ASSUME NEW t \in Thread, Report(t) \/ ReadReport(t) \/ Drive(t)
      PROVE  \A s \in Route : Closed(s) => Closed(s)'
  <2>1. CASE EndRoute(t)
    BY <1>2, <2>1 DEF EndRoute
  <2>2. CASE Arrive(t)
    <3>1. PICK r, x : r = task[t].r /\
            x = [task[t].row EXCEPT !.passed = @ + 1, !.ahead = @ - Cut(task[t].row)]
      OBVIOUS
    <3>2. route' = [route EXCEPT ![r] = x] /\ route[r].state = "open"
      BY <2>2, <3>1 DEF Arrive
    <3> QED
      BY <3>2, ClosedKept DEF Closed
  <2> QED
    BY <1>1, <1>3, <2>1, <2>2
       DEF Report, Throw, StartLeaving, TakeOrders, Leave, ReadReport, Drive, db
<1>4. ASSUME NEW t \in Thread, Expiry(t) \/ Cancelling(t)
      PROVE  \A s \in Route : Closed(s) => Closed(s)'
  <2>1. CASE MergeWrite(t)
    <3>1. PICK r, x : r = task[t].r /\ x = MergedRow(r, task[t].row, task[t].plan)
      OBVIOUS
    <3>2. route' = [route EXCEPT ![r] = x] /\ (Closed(r) => x = Shut)
      BY <2>1, <3>1 DEF MergeWrite, MergedRow
    <3> QED
      BY <3>2, ClosedKept, ShutRows
  <2>2. ASSUME NEW r, CancelRoute(t, r) PROVE \A s \in Route : Closed(s) => Closed(s)'
    BY <1>1, <1>2, <2>2 DEF CancelRoute
  <2> QED
    BY <1>1, <1>4, <2>1, <2>2
       DEF Expiry, LateAsked, LateUnanswered, LateAnswered, LateDropped, ReadRow,
           Cancelling, CancelUnasked, CancelDropped, CancelAsked, Ask, db
<1>5. ASSUME NEW t \in Thread, Planning(t) \/ \E p \in Rider : Cancel(t, p)
      PROVE  \A s \in Route : Closed(s) => Closed(s)'
  <2>1. CASE SaveRoute(t)
    <3>1. PICK r \in Route :
            route[r].state = "none" /\ route' = [route EXCEPT ![r] = Fresh(task[t].plan)]
      BY <2>1 DEF SaveRoute
    <3> QED
      BY <3>1, ClosedKept DEF Closed
  <2>2. CASE Replan(t)
    <3>1. PICK r, y : r = task[t].r /\
            y = [route[r] EXCEPT !.midway = <<task[t].row.midway[1]>> \o task[t].plan,
                                 !.passed = 1, !.ahead = Len(task[t].plan)]
      OBVIOUS
    <3>2. PICK x : x = IF Closed(r) THEN Shut ELSE y
      OBVIOUS
    <3>3. route' = [route EXCEPT ![r] = x]
      BY <2>2, <3>1, <3>2 DEF Replan
    <3> QED
      BY <3>2, <3>3, ClosedKept, ShutRows
  <2> QED
    BY <1>1, <1>5, <2>1, <2>2 DEF Planning, ReadPlan, Unsupported, Cancel, db
<1>6. CASE \E r \in Route, s \in Station : OverdueExpires(r, s)
  BY <1>1, <1>6 DEF OverdueExpires, db
<1>7. CASE \/ Dispatch \/ (\E p \in Rider : Scanning(p))
           \/ (\E r \in Route : FinishRoute(r)) \/ StopExpires \/ StartExpires
  BY <1>1, <1>2, <1>7 DEF Dispatch, Ask, Scanning, Scan, Board, Look, Record,
                          FinishRoute, StopExpires, StartExpires, db
<1> QED
  BY <1>3, <1>4, <1>5, <1>6, <1>7 DEF Next

\* ClosedStaysClosed: a route that was ended or cancelled stays so, by any handler
\* that writes its row (setRouteOrderExpire writes the lists only, carGetDown writes
\* all columns of the row it read).
THEOREM RoutesStayClosed == Spec => ClosedStaysClosed
<1>1. IInv /\ [Next]_vars => [\A r \in Route : Closed(r) /\ ~overtaken' => Closed(r)']_vars
  <2>1. SUFFICES ASSUME IInv, Next, ~overtaken'
                 PROVE  \A r \in Route : Closed(r) => Closed(r)'
    OBVIOUS
  <2>2. Columns
    BY <2>1, NextKeepsOvertaken DEF IInv, Inv
  <2> QED
    BY <2>1, <2>2, NextClosed
<1> QED
  BY <1>1, Invariance, PTL DEF Spec, ClosedStaysClosed
=============================================================================
