--------------------------- MODULE PeakRouteProofs ---------------------------
(***************************************************************************)
(* Theorems of PeakRoute, for every value of its constants.                *)
(*                                                                         *)
(* A task acts on rows it read steps ago.  Its own part of the invariant   *)
(* says what of that reading is still true: that the route it ends is      *)
(* closed or locked by it, that the route it is about to open is the only  *)
(* one, and, as long as nobody else read the station rows of its route,    *)
(* that these rows are as it read them.                                    *)
(***************************************************************************)
EXTENDS PeakRoute, FiniteSetTheorems, SequenceTheorems, WellFoundedInduction, TLAPS

-----------------------------------------------------------------------------
(* Shapes.                                                                 *)

RouteId == 0 .. MaxRoute
Pc == {"idle", "board", "row", "act", "leave", "look", "open", "save", "commit", "write"}
Class == {"MyRoute", "TCarService"}

StationRow == [st : NoStop .. Gone, on : Nat]
Ticket == [status : {"toUse", "riding", "done"}, r : RouteId]
TaskRow == [pc : Pc, r : RouteId, row : Nat, st : NoStop .. Gone, on : Nat,
            ins : Seq(NoStop .. Gone), off : SUBSET Rider, new : RouteId]

Columns ==
  /\ route \in [Route -> {"none", "open", "closed"}]
  /\ rows \in [Route -> Seq(StationRow)]
  /\ \A r \in Route : Len(rows[r]) <= MaxRow
  /\ order \in [Rider -> Ticket]
  /\ task \in [Thread -> TaskRow]
  /\ monitor \in [Class -> SUBSET (Gps \cup App)]
  /\ crossed \in BOOLEAN
  /\ mixed \subseteq Route /\ ended \subseteq Route
  /\ late \subseteq Rider /\ lost \subseteq Rider

\* Where a task may be, by who runs it, and that it works on a route.
Place(t) ==
  /\ t \in Gps => ~At(t, "leave")
  /\ t \in App => ~At(t, "commit")
  /\ t \in Rider => In(t, {"idle", "board", "row", "act"})
  /\ At(t, "idle") => task[t] = Idle
  /\ task[t].r = NoRoute => At(t, "idle") \/ (t \in App /\ In(t, {"open", "save"}))
  /\ task[t].r # NoRoute => route[task[t].r] # "none"
  /\ t \in Gps /\ In(t, Ending) => task[t].row # 0
  /\ task[t].row = 0 => task[t].st = NoStop

\* The row it read is there.
Reading(t) ==
  task[t].row # 0 => task[t].r # NoRoute /\ task[t].row \in DOMAIN rows[task[t].r]

Places == \A t \in Thread : Place(t) /\ Reading(t)

\* A monitor has one owner, who is about to save.
Owners ==
  /\ \A m \in Class : \A t \in monitor[m] :
       At(t, "save") /\ Monitor(t) = m /\ \A u \in monitor[m] : u = t
  /\ \A t \in Gps \cup App : At(t, "save") => t \in monitor[Monitor(t)]

\* A ticket has a route once it was scanned, which its scan has written before it
\* reads the rows; nobody completes it before, and nobody counts the lost.
Tickets ==
  /\ \A p \in Rider : order[p].status = "toUse" <=> order[p].r = NoRoute
  /\ \A p \in Rider : At(p, "board") => order[p].status = "toUse"
  /\ \A p \in Rider : In(p, {"row", "act"}) => order[p].r = task[p].r
  /\ \A p \in lost : At(p, "idle") /\ order[p].status # "toUse"
  /\ \A t \in Thread : \A p \in task[t].off : order[p].status # "toUse"

Shapes == Columns /\ Places /\ Owners /\ Tickets

-----------------------------------------------------------------------------
(* The parts of the invariant.                                             *)

\* A route saved and not committed is nobody else's.
Unborn ==
  \A g \in Gps : task[g].new # NoRoute =>
    /\ At(g, "commit") /\ route[task[g].new] = "none"
    /\ \A h \in Gps : task[h].new = task[g].new => h = g

\* The app has closed the route whose riders it completes, or which it renews.
Renews(a) == task[a].r # NoRoute /\ In(a, Ending \cup {"leave"})
AppClosed == \A a \in App : Renews(a) => route[task[a].r] = "closed"

\* Routes ended at the terminal stay closed; who rides on, or on a route a
\* report is about to end and is not listed by it, came late.
EndedOK ==
  /\ \A r \in ended : route[r] = "closed"
  /\ EndEmptiesRoute
  /\ \A g \in Gps : EndsRoute(g) => OnRoute(task[g].r) \subseteq task[g].off \cup late

\* Who ends a route is alone in opening one, and who will open one sees none.
Alone == \A t \in Opening : task[t].r # NoRoute => Opening \subseteq {t}
WillOpen(t) == At(t, "save") \/ (t \in Gps /\ task[t].new # NoRoute)
One ==
  ~crossed => /\ Alone
              /\ \A t \in Gps \cup App : WillOpen(t) => Seen(t) = {}
              /\ \A r, s \in Open : r = s

\* Tasks that have read the station rows of a route and will write to them.
Holds(t, r) ==
  task[t].r = r /\ (In(t, {"act", "write"}) \/ (t \in Gps /\ In(t, Ending)))

\* What such a task read is still so.
Current(t) ==
  LET k == task[t] IN
  /\ IF k.row = 0 THEN Live(k.r) = {}
     ELSE rows[k.r][k.row].on = k.on /\ rows[k.r][k.row].st # Gone
  /\ At(t, "write") =>
       \A i \in DOMAIN k.ins : k.ins[i] # NoStop =>
         /\ k.ins[i] \notin Recorded(k.r)
         /\ \A j \in DOMAIN k.ins : k.ins[j] = k.ins[i] => j = i

Unmixed ==
  \A r \in Route \ mixed : \A t \in Thread : Holds(t, r) =>
    Current(t) /\ \A u \in Thread : Holds(u, r) => u = t

\* The boardings counted at the rows of a route, and those a task has read
\* there and may write back.
Read(t, r) ==
  IF task[t].r = r /\ task[t].row # 0 THEN {task[t].row} \X (1 .. task[t].on) ELSE {}
AllMarks(r) == Marks(r) \cup UNION {Read(t, r) : t \in Thread}

\* Of the riders of a route, those counted by now.
Noted(r) == {p \in Rider : order[p].r = r} \ Uncounted(r)
Heads(r) == Cardinality(Noted(r))

MarksBound ==
  \A r \in Route : IsFiniteSet(AllMarks(r)) /\ Cardinality(AllMarks(r)) <= Heads(r)
MarksExact ==
  \A r \in Route \ mixed : Cardinality(Marks(r)) = Heads(r)

IInv ==
  /\ Shapes /\ Unborn /\ AppClosed /\ EndedOK /\ One
  /\ Unmixed /\ RecordedOnce /\ MarksBound /\ MarksExact

-----------------------------------------------------------------------------
(* Least and greatest numbers.                                             *)

LEMMA LeastIn ==
  ASSUME NEW S \in SUBSET Nat, S # {}
  PROVE  Min(S) \in S /\ \A k \in S : Min(S) <= k
<1>1. PICK R : R = OpToRel(<, Nat)
  OBVIOUS
<1>2. IsWellFoundedOn(R, Nat)
  BY <1>1, NatLessThanWellFounded
<1>3. PICK m \in S : \A k \in S : ~ (<<k, m>> \in R)
  BY <1>2, WFMin
<1>4. \A k \in S : k < m => <<k, m>> \in R
  BY <1>1 DEF OpToRel
<1>5. ASSUME NEW k \in S PROVE m <= k
  <2>1. ~(k < m)
    BY <1>3, <1>4
  <2>2. k \in Nat /\ m \in Nat
    OBVIOUS
  <2> QED
    BY <2>1, <2>2
<1> QED
  BY <1>5 DEF Min

LEMMA GreatestIn ==
  ASSUME NEW b \in Nat, NEW S \in SUBSET (0 .. b), S # {}
  PROVE  Max(S) \in S /\ \A k \in S : Max(S) >= k
<1> DEFINE D == {n \in Nat : n <= b /\ b - n \in S}
<1>1. D \in SUBSET Nat
  OBVIOUS
<1>2. D # {}
  <2>1. PICK k \in S : TRUE
    OBVIOUS
  <2>2. k \in 0 .. b
    OBVIOUS
  <2>3. b - k \in Nat /\ b - k <= b /\ b - (b - k) = k
    BY <2>2
  <2> QED
    BY <2>1, <2>3
<1>3. Min(D) \in D /\ \A n \in D : Min(D) <= n
  BY <1>1, <1>2, LeastIn
<1>4. PICK m : m = Min(D)
  OBVIOUS
<1>5. m \in Nat /\ m <= b /\ b - m \in S
  BY <1>3, <1>4
<1>6. ASSUME NEW k \in S PROVE b - m >= k
  <2>1. k \in 0 .. b
    OBVIOUS
  <2>2. b - k \in Nat /\ b - k <= b /\ b - (b - k) = k
    BY <2>1
  <2>3. m <= b - k
    BY <1>3, <1>4, <2>2
  <2> QED
    BY <1>5, <2>1, <2>3
<1> QED
  BY <1>5, <1>6 DEF Max

-----------------------------------------------------------------------------
(* Threads, and what the moves of a task do to it.                         *)

LEMMA Threads ==
  /\ \A t \in Gps : t \in Thread /\ t \notin App /\ t \notin Rider
  /\ \A t \in App : t \in Thread /\ t \notin Gps /\ t \notin Rider
  /\ \A t \in Rider : t \in Thread /\ t \notin Gps /\ t \notin App
BY PeakAssumption DEF Thread

LEMMA IdleTask ==
  /\ Idle \in TaskRow
  /\ Idle.pc = "idle" /\ Idle.r = NoRoute /\ Idle.row = 0 /\ Idle.on = 0
  /\ Idle.st = NoStop
  /\ Idle.ins = <<>> /\ Idle.off = {} /\ Idle.new = NoRoute
BY PeakAssumption DEF Idle, TaskRow, Pc, RouteId, NoRoute, NoStop, Gone

\* Every other task stays, and this one keeps all but what is named.
Others(t) == \A u \in Thread : u # t => task'[u] = task[u]
Tasks == task' \in [Thread -> TaskRow]
Rests(t) == Tasks /\ Others(t) /\ task'[t] = Idle
KeepsRoute(t) == task'[t].r = task[t].r
KeepsRow(t)   ==
  task'[t].row = task[t].row /\ task'[t].st = task[t].st /\ task'[t].on = task[t].on
KeepsWork(t)  == task'[t].ins = task[t].ins /\ task'[t].off = task[t].off
KeepsNew(t)   == task'[t].new = task[t].new
Jumps(t, pc) ==
  /\ Tasks /\ Others(t) /\ task'[t].pc = pc
  /\ KeepsRoute(t) /\ KeepsRow(t) /\ KeepsWork(t) /\ KeepsNew(t)

LEMMA GotoFields ==
  ASSUME Columns, NEW t \in Thread, NEW pc \in Pc, Goto(t, pc)
  PROVE  Jumps(t, pc)
BY DEF Columns, Goto, TaskRow, Jumps, Tasks, Others, KeepsRoute, KeepsRow, KeepsWork, KeepsNew

LEMMA FinishedFields ==
  ASSUME Columns, NEW t \in Thread, Finished(t)
  PROVE  Rests(t)
BY IdleTask DEF Columns, Finished, Rests, Tasks, Others

LEMMA OverFields ==
  ASSUME Columns, NEW t \in Thread, Over(t)
  PROVE  (t \in Gps /\ Jumps(t, "commit")) \/ (t \notin Gps /\ Rests(t))
BY GotoFields, FinishedFields DEF Over, Pc

LEMMA BeginFields ==
  ASSUME Columns, NEW t \in Thread, NEW r \in Route, NEW pc \in {"row", "board"},
         BeginOn(t, r, pc)
  PROVE  /\ Tasks /\ Others(t) /\ At(t, "idle") /\ task'[t].pc = pc /\ task'[t].r = r
         /\ task'[t].row = 0 /\ task'[t].on = 0 /\ task'[t].ins = <<>>
         /\ task'[t].st = NoStop
         /\ task'[t].off = {} /\ task'[t].new = NoRoute
         /\ route[r] = "open" /\ UNCHANGED <<table, monitor, shut, history>>
<1>1. r \in RouteId
  BY PeakAssumption DEF Route, RouteId
<1>2. PICK k : k = [Idle EXCEPT !.pc = pc, !.r = r]
  OBVIOUS
<1>3. k \in TaskRow
  BY <1>1, <1>2, IdleTask DEF TaskRow, Pc
<1>4. /\ k.pc = pc /\ k.r = r /\ k.row = 0 /\ k.on = 0 /\ k.ins = <<>>
      /\ k.off = {} /\ k.new = NoRoute /\ k.st = NoStop
  BY <1>2, IdleTask DEF TaskRow
<1>5. task' = [task EXCEPT ![t] = k]
  BY <1>2 DEF BeginOn
<1>6. Tasks /\ Others(t) /\ task'[t] = k
  BY <1>3, <1>5 DEF Columns, Tasks, Others
<1> QED
  BY <1>4, <1>6 DEF BeginOn, Open

\* The rows of a route.
LEMMA RowsOf ==
  ASSUME Columns, NEW r \in Route
  PROVE  /\ Len(rows[r]) \in Nat /\ DOMAIN rows[r] = 1 .. Len(rows[r])
         /\ rows[r] \in Seq(StationRow)
         /\ \A i \in DOMAIN rows[r] : /\ rows[r][i] \in StationRow
                                      /\ rows[r][i].st \in NoStop .. Gone
                                      /\ rows[r][i].on \in Nat
         /\ Live(r) \subseteq DOMAIN rows[r] /\ 0 \notin Live(r)
<1>1. rows[r] \in Seq(StationRow)
  BY DEF Columns
<1>2. Len(rows[r]) \in Nat /\ DOMAIN rows[r] = 1 .. Len(rows[r])
  BY <1>1
<1>3. \A i \in DOMAIN rows[r] : rows[r][i] \in StationRow
  BY <1>1, <1>2, ElementOfSeq
<1>5. \A i \in DOMAIN rows[r] : rows[r][i].st \in NoStop .. Gone /\ rows[r][i].on \in Nat
  BY <1>3 DEF StationRow
<1>4. Live(r) \subseteq DOMAIN rows[r]
  BY DEF Live
<1> QED
  BY <1>1, <1>2, <1>3, <1>4, <1>5

\* A task that is under way, and not about to start, works on a route.
LEMMA OnARoute ==
  ASSUME Columns, Places, NEW t \in Thread,
         ~At(t, "idle"), t \in App => ~In(t, {"open", "save"})
  PROVE  task[t].r \in Route /\ task[t].r # NoRoute
<1>1. task[t].r \in 0 .. MaxRoute
  BY DEF Columns, TaskRow, RouteId
<1>2. task[t].r # NoRoute
  BY DEF Places, Place
<1> QED
  BY <1>1, <1>2, PeakAssumption DEF Route, NoRoute

\* The last row of a route that has one is one of its rows.
LEMMA LastRowIn ==
  ASSUME Columns, NEW r \in Route, Live(r) # {}
  PROVE  LastRow(r) \in Live(r)
<1>1. Live(r) \subseteq 0 .. Len(rows[r]) /\ Len(rows[r]) \in Nat
  BY RowsOf
<1> QED
  BY <1>1, GreatestIn DEF LastRow

LEMMA ReadRowFields ==
  ASSUME Columns, Places, NEW t \in Thread, ReadRow(t)
  PROVE  /\ Tasks /\ Others(t) /\ At(t, "row") /\ task'[t].pc = "act"
         /\ KeepsRoute(t) /\ KeepsWork(t) /\ KeepsNew(t) /\ task[t].r \in Route
         /\ task'[t].row = 0 => /\ Live(task[t].r) = {} /\ task'[t].on = 0
                                /\ task'[t].st = NoStop
         /\ task'[t].row # 0 => /\ task'[t].row \in Live(task[t].r)
                                /\ task'[t].on = rows[task[t].r][task'[t].row].on
         /\ mixed' \in {mixed, mixed \cup {task[t].r}}
         /\ task[t].r \notin mixed' => Writers(task[t].r, t) = {}
         /\ UNCHANGED <<table, monitor, shut, crossed, ended, late, lost>>
<1>1. PICK r : r = task[t].r
  OBVIOUS
<1>2. PICK i : i = LastRow(r)
  OBVIOUS
<1>3. PICK n : n = IF i = 0 THEN 0 ELSE rows[r][i].on
  OBVIOUS
<1>4. r \in Route
  BY <1>1, OnARoute DEF ReadRow, At, In
<1>5. i = 0 => Live(r) = {}
  BY <1>2, <1>4, LastRowIn, RowsOf DEF LastRow
<1>6. i # 0 => i \in Live(r)
  BY <1>2, <1>4, LastRowIn DEF LastRow
<1>7. i \in Nat /\ n \in Nat
  <2>1. CASE i = 0
    BY <1>3, <2>1
  <2>2. CASE i # 0
    BY <1>3, <1>4, <1>6, <2>2, RowsOf
  <2> QED
    BY <2>1, <2>2
<1>12. PICK s : s = IF i = 0 THEN NoStop ELSE rows[r][i].st
  OBVIOUS
<1>13. s \in NoStop .. Gone
  <2>1. CASE i = 0
    BY <1>12, <2>1, PeakAssumption DEF NoStop, Gone
  <2>2. CASE i # 0
    BY <1>4, <1>6, <1>12, <2>2, RowsOf
  <2> QED
    BY <2>1, <2>2
<1>8. task' = [task EXCEPT ![t].pc = "act", ![t].row = i, ![t].st = s, ![t].on = n]
  BY <1>1, <1>2, <1>3, <1>12 DEF ReadRow
<1>9. /\ Tasks /\ Others(t) /\ task'[t].pc = "act" /\ task'[t].row = i /\ task'[t].on = n
      /\ task'[t].st = s /\ KeepsRoute(t) /\ KeepsWork(t) /\ KeepsNew(t)
  <2>1. PICK new : new = [task[t] EXCEPT !.pc = "act", !.row = i, !.st = s, !.on = n]
    OBVIOUS
  <2>2. task \in [Thread -> TaskRow] /\ task[t] \in TaskRow
    BY DEF Columns
  <2>3. /\ new \in TaskRow /\ new.pc = "act" /\ new.row = i /\ new.st = s /\ new.on = n
        /\ new.r = task[t].r /\ new.ins = task[t].ins /\ new.off = task[t].off
        /\ new.new = task[t].new
    BY <1>7, <1>13, <2>1, <2>2 DEF TaskRow, Pc
  <2>4. task' = [task EXCEPT ![t] = new]
    BY <1>8, <2>1, <2>2
  <2>5. task'[t] = new /\ Tasks /\ Others(t)
    BY <2>2, <2>3, <2>4 DEF Tasks, Others
  <2> QED
    BY <2>3, <2>5 DEF KeepsRoute, KeepsWork, KeepsNew
<1>10. mixed' = Mixing(r, t) /\ At(t, "row")
  BY <1>1 DEF ReadRow
<1>11. mixed' \in {mixed, mixed \cup {r}} /\ (r \notin mixed' => Writers(r, t) = {})
  BY <1>10 DEF Mixing
<1> QED
  BY <1>1, <1>3, <1>4, <1>5, <1>6, <1>9, <1>10, <1>11, <1>12 DEF ReadRow

-----------------------------------------------------------------------------
(* What the actions do.                                                    *)

LEMMA FreshRoute ==
  ASSUME Fresh # {}
  PROVE  /\ Min(Fresh) \in Route /\ Min(Fresh) # NoRoute
         /\ route[Min(Fresh)] = "none" /\ \A t \in Gps : task[t].new # Min(Fresh)
<1>1. Fresh \in SUBSET Nat
  BY PeakAssumption DEF Fresh, Route
<1>2. Min(Fresh) \in Fresh
  BY <1>1, LeastIn
<1> QED
  BY <1>2, PeakAssumption DEF Fresh, Route, NoRoute

LEMMA SaveFields ==
  ASSUME Columns, Places, NEW t \in Thread, Save(t)
  PROVE  /\ At(t, "save")
         /\ \E n \in Route :
              /\ n # NoRoute /\ route[n] = "none" /\ \A g \in Gps : task[g].new # n
              /\ \/ /\ t \in Gps /\ route' = route
                    /\ Tasks /\ Others(t) /\ task'[t].pc = "commit" /\ task'[t].new = n
                    /\ KeepsRoute(t) /\ KeepsRow(t) /\ KeepsWork(t)
                 \/ /\ t \in App /\ route' = [route EXCEPT ![n] = "open"]
                    /\ Rests(t)
         /\ monitor' = [monitor EXCEPT ![Monitor(t)] = {}]
         /\ UNCHANGED <<rows, order, shut, history>>
<1>1. PICK n : n = Min(Fresh)
  OBVIOUS
<1>2. n \in Route /\ n # NoRoute /\ route[n] = "none" /\ \A g \in Gps : task[g].new # n
  BY <1>1, FreshRoute DEF Save
<1>3. CASE t \in Gps
  <2>1. task' = [task EXCEPT ![t].pc = "commit", ![t].new = n] /\ route' = route
    BY <1>1, <1>3 DEF Save
  <2>2. n \in RouteId
    BY <1>2, PeakAssumption DEF Route, RouteId
  <2>3. /\ Tasks /\ Others(t) /\ task'[t].pc = "commit" /\ task'[t].new = n
        /\ KeepsRoute(t) /\ KeepsRow(t) /\ KeepsWork(t)
    BY <2>1, <2>2 DEF Columns, TaskRow, Pc, Tasks, Others, KeepsRoute, KeepsRow, KeepsWork
  <2> QED
    BY <1>2, <1>3, <2>1, <2>3 DEF Save
<1>4. CASE t \notin Gps
  <2>1. Finished(t) /\ route' = [route EXCEPT ![n] = "open"]
    BY <1>1, <1>4 DEF Save
  <2>2. t \in App
    BY <1>4, Threads DEF Save, Places, Place, At, In, Thread
  <2> QED
    BY <1>2, <2>1, <2>2, FinishedFields DEF Save
<1> QED
  BY <1>3, <1>4

LEMMA CloseFields ==
  ASSUME Columns, Places, NEW g \in Gps, Close(g)
  PROVE  /\ At(g, "act") /\ ~Locked(task[g].r) /\ task[g].r \in Route
         /\ task[g].row # 0
         /\ Tasks /\ Others(g) /\ task'[g].pc = "look"
         /\ KeepsRoute(g) /\ KeepsRow(g) /\ KeepsNew(g)
         /\ task'[g].ins = task[g].ins /\ task'[g].off = OnRoute(task[g].r)
         /\ crossed' = Crossing(g)
         /\ mixed' \in {mixed, mixed \cup {task[g].r}}
         /\ UNCHANGED <<table, monitor, shut, ended, late, lost>>
<1>1. g \in Thread /\ g \notin App
  BY Threads
<1>2. task[g].r \in Route
  BY <1>1, OnARoute DEF Close, At
<1>3. PICK O : O = OnRoute(task[g].r)
  OBVIOUS
<1>4. O \in SUBSET Rider
  BY <1>3 DEF OnRoute
<1>5. task' = [task EXCEPT ![g].pc = "look", ![g].off = O]
  BY <1>3 DEF Close, OnBoard
<1>6. /\ Tasks /\ Others(g) /\ task'[g].pc = "look"
      /\ KeepsRoute(g) /\ KeepsRow(g) /\ KeepsNew(g)
      /\ task'[g].ins = task[g].ins /\ task'[g].off = O
  BY <1>1, <1>4, <1>5 DEF Columns, TaskRow, Pc, Tasks, Others, KeepsRoute, KeepsRow, KeepsNew
<1>7. task[g].row # 0
  <2>1. Home # NoStop
    BY PeakAssumption DEF Home, NoStop
  <2> QED
    BY <1>1, <2>1 DEF Close, AtEnd, Station, Places, Place
<1>8. mixed' \in {mixed, mixed \cup {task[g].r}}
  BY DEF Close, Mixing
<1> QED
  BY <1>2, <1>3, <1>6, <1>7, <1>8 DEF Close

\* The station before the nearest one, and the stop after the last.
LEMMA StationsOfTheLine ==
  /\ NoStop \in NoStop .. Gone /\ 1 .. Home \subseteq NoStop .. Gone
  /\ \A l \in 1 .. N : Near(l) \in 2 .. Home
  /\ Max(Stops) = N
  /\ \A s \in Stops : s # N => Min({x \in Stops : x > s}) \in Stops
<1>1. \A l \in 1 .. N : Near(l) \in 2 .. Home
  BY PeakAssumption DEF Near, Home
<1>2. N \in Stops /\ \A s \in Stops : s \in 1 .. N
  BY PeakAssumption DEF Stops
<1>3. Max(Stops) = N
  <2>1. Stops \in SUBSET (0 .. N) /\ N \in Nat /\ Stops # {}
    BY <1>2, PeakAssumption
  <2>2. Max(Stops) \in Stops /\ \A k \in Stops : Max(Stops) >= k
    BY <2>1, GreatestIn
  <2>3. PICK m : m = Max(Stops)
    OBVIOUS
  <2>4. m \in 1 .. N /\ m >= N
    BY <1>2, <2>2, <2>3
  <2> QED
    BY <2>1, <2>3, <2>4
<1>4. ASSUME NEW s \in Stops, s # N
      PROVE  Min({x \in Stops : x > s}) \in Stops
  <2>1. {x \in Stops : x > s} \in SUBSET Nat
    BY <1>2
  <2>2. N \in {x \in Stops : x > s}
    BY <1>2, <1>4
  <2> QED
    BY <2>1, <2>2, LeastIn
<1> QED
  BY <1>1, <1>3, <1>4, PeakAssumption DEF NoStop, Gone, Home

\* A row is recorded unless it is there; at most two are, and different ones.
NewRows(ss, r) ==
  /\ ss \in Seq(NoStop .. Gone)
  /\ \A i \in DOMAIN ss : ss[i] # NoStop =>
       ss[i] \notin Recorded(r) /\ \A j \in DOMAIN ss : ss[j] = ss[i] => j = i

LEMMA TwoRows ==
  ASSUME NEW S, NEW a \in S, NEW b \in S
  PROVE  <<a>> \o <<b>> = <<a, b>>
<1>1. PICK s : s = <<a>> \o <<b>>
  OBVIOUS
<1>2. PICK t : t = <<a, b>>
  OBVIOUS
<1>3. /\ <<a>> \in Seq(S) /\ Len(<<a>>) = 1 /\ <<a>>[1] = a
      /\ <<b>> \in Seq(S) /\ Len(<<b>>) = 1 /\ <<b>>[1] = b
  OBVIOUS
<1>4. s \in Seq(S) /\ Len(s) = 2
  BY <1>1, <1>3, ConcatProperties
<1>5. \A i \in 1 .. 1 + 1 : s[i] = IF i <= 1 THEN <<a>>[i] ELSE <<b>>[i - 1]
  BY <1>1, <1>3, ConcatProperties
<1>6. t \in Seq(S) /\ Len(t) = 2 /\ t[1] = a /\ t[2] = b
  BY <1>2
<1>7. s[1] = a /\ s[2] = b
  BY <1>3, <1>5
<1>8. \A i \in 1 .. Len(s) : s[i] = t[i]
  BY <1>4, <1>6, <1>7
<1>9. s = t
  BY <1>4, <1>6, <1>8, SeqEqual
<1> QED
  BY <1>1, <1>2, <1>9

LEMMA ObserveFields ==
  ASSUME Columns, Places, NEW g \in Gps, Observe(g)
  PROVE  /\ At(g, "act") /\ task[g].r \in Route
         /\ Tasks /\ Others(g) /\ task'[g].pc = "write"
         /\ KeepsRoute(g) /\ KeepsRow(g) /\ KeepsNew(g)
         /\ NewRows(task'[g].ins, task[g].r)
         /\ \A p \in task'[g].off : p \in Rider /\ order[p].status = "riding"
         /\ UNCHANGED <<table, monitor, shut, history>>
<1>1. g \in Thread /\ g \notin App
  BY Threads
<1>2. task[g].r \in Route
  BY <1>1, OnARoute DEF Observe, At
<1>3. PICK l \in 1 .. N, close \in BOOLEAN :
        LET s      == Near(l)
            before == IF s = Expected(g) THEN <<>> ELSE IfMissing(task[g].r, s - 1)
            here   == IF close THEN IfMissing(task[g].r, s) ELSE <<>> IN
        task' = [task EXCEPT ![g].pc = "write",
          ![g].ins = before \o here,
          ![g].off = IF close THEN {p \in Rider : order[p].status = "riding" /\ EndOf[p] = s}
                              ELSE {}]
  BY DEF Observe
<1>4. PICK s \in 2 .. Home : s = Near(l)
  BY StationsOfTheLine
<1>5. PICK before : before = IF s = Expected(g) THEN <<>> ELSE IfMissing(task[g].r, s - 1)
  OBVIOUS
<1>6. PICK here : here = IF close THEN IfMissing(task[g].r, s) ELSE <<>>
  OBVIOUS
<1>7. PICK O : O = IF close THEN {p \in Rider : order[p].status = "riding" /\ EndOf[p] = s} ELSE {}
  OBVIOUS
<1>8. task' = [task EXCEPT ![g].pc = "write", ![g].ins = before \o here, ![g].off = O]
  BY <1>3, <1>4, <1>5, <1>6, <1>7
<1>9. s \in NoStop .. Gone /\ s - 1 \in NoStop .. Gone /\ s - 1 # s /\ s # NoStop
  BY PeakAssumption DEF Home, Gone, NoStop
<1>10. NewRows(before \o here, task[g].r)
  <2>1. \/ before = <<>>
        \/ before = <<s - 1>> /\ s - 1 \notin Recorded(task[g].r)
    BY <1>5 DEF IfMissing
  <2>2. \/ here = <<>>
        \/ here = <<s>> /\ s \notin Recorded(task[g].r)
    BY <1>6 DEF IfMissing
  <2>3. CASE before = <<>> /\ here = <<>>
    BY <2>3 DEF NewRows
  <2>4. CASE before = <<>> /\ here = <<s>> /\ s \notin Recorded(task[g].r)
    <3>1. before \o here = <<s>>
      BY <2>4, <1>9
    <3> QED
      BY <2>4, <3>1, <1>9 DEF NewRows
  <2>5. CASE before = <<s - 1>> /\ here = <<>> /\ s - 1 \notin Recorded(task[g].r)
    <3>1. before \o here = <<s - 1>>
      BY <2>5, <1>9
    <3> QED
      BY <2>5, <3>1, <1>9 DEF NewRows
  <2>6. CASE /\ before = <<s - 1>> /\ here = <<s>>
             /\ s - 1 \notin Recorded(task[g].r) /\ s \notin Recorded(task[g].r)
    <3>1. PICK q : q = s - 1
      OBVIOUS
    <3>2. before \o here = <<q, s>>
      BY <2>6, <3>1, <1>9, TwoRows
    <3>3. <<q, s>> \in Seq(NoStop .. Gone)
      BY <3>1, <1>9
    <3>4. DOMAIN <<q, s>> = {1, 2} /\ <<q, s>>[1] = q /\ <<q, s>>[2] = s
      <4>1. DOMAIN <<q, s>> = 1 .. 2
        OBVIOUS
      <4> QED
        BY <4>1
    <3>5. q # s /\ q \notin Recorded(task[g].r) /\ s \notin Recorded(task[g].r)
      BY <2>6, <3>1, <1>9
    <3>6. NewRows(<<q, s>>, task[g].r)
      BY <3>3, <3>4, <3>5 DEF NewRows
    <3> QED
      BY <3>2, <3>6
  <2> QED
    BY <2>1, <2>2, <2>3, <2>4, <2>5, <2>6
<1>11. O \in SUBSET Rider /\ \A p \in O : order[p].status = "riding"
  BY <1>7
<1>12. before \o here \in Seq(NoStop .. Gone)
  BY <1>10 DEF NewRows
<1>13. /\ Tasks /\ Others(g) /\ task'[g].pc = "write"
       /\ KeepsRoute(g) /\ KeepsRow(g) /\ KeepsNew(g)
       /\ task'[g].ins = before \o here /\ task'[g].off = O
  BY <1>1, <1>8, <1>11, <1>12
     DEF Columns, TaskRow, Pc, Tasks, Others, KeepsRoute, KeepsRow, KeepsNew
<1> QED
  BY <1>2, <1>10, <1>11, <1>13 DEF Observe

LEMMA ConfirmNextFields ==
  ASSUME Columns, Places, NEW a \in App, ConfirmNext(a)
  PROVE  /\ At(a, "act") /\ task[a].r \in Route
         /\ Tasks /\ Others(a) /\ task'[a].pc = "write"
         /\ KeepsRoute(a) /\ KeepsRow(a) /\ KeepsNew(a)
         /\ NewRows(task'[a].ins, task[a].r)
         /\ task'[a].off = task[a].off
         /\ UNCHANGED <<table, monitor, shut, history>>
<1>1. a \in Thread /\ a \notin Gps
  BY Threads
<1>2. task[a].r \in Route
  BY <1>1, OnARoute DEF ConfirmNext, At, In
<1>3. PICK s : s = NextStop(a)
  OBVIOUS
<1>4. s \in NoStop .. Gone
  <2>1. Stops \subseteq NoStop .. Gone
    BY PeakAssumption DEF Stops, NoStop, Gone
  <2>2. CASE Station(a) \in Stops
    <3>1. Station(a) # N
      BY <1>1, StationsOfTheLine DEF ConfirmNext, AtEnd
    <3> QED
      BY <1>3, <2>1, <2>2, <3>1, StationsOfTheLine DEF NextStop
  <2>3. CASE Station(a) \notin Stops
    BY <1>3, <2>3, StationsOfTheLine DEF NextStop
  <2> QED
    BY <2>2, <2>3
<1>5. PICK ss : ss = IF s = NoStop THEN <<s>> ELSE IfMissing(task[a].r, s)
  OBVIOUS
<1>6. task' = [task EXCEPT ![a].pc = "write", ![a].ins = ss]
  BY <1>3, <1>5 DEF ConfirmNext
<1>7. NewRows(ss, task[a].r)
  <2>1. \/ ss = <<>>
        \/ ss = <<s>> /\ (s = NoStop \/ s \notin Recorded(task[a].r))
    BY <1>5 DEF IfMissing
  <2>2. ASSUME ss = <<>> PROVE NewRows(ss, task[a].r)
    BY <2>2 DEF NewRows
  <2>3. ASSUME ss = <<s>>, s = NoStop \/ s \notin Recorded(task[a].r)
        PROVE  NewRows(ss, task[a].r)
    BY <1>4, <2>3 DEF NewRows
  <2> QED
    BY <2>1, <2>2, <2>3
<1>8. ss \in Seq(NoStop .. Gone)
  BY <1>7 DEF NewRows
<1>9. /\ Tasks /\ Others(a) /\ task'[a].pc = "write"
      /\ KeepsRoute(a) /\ KeepsRow(a) /\ KeepsNew(a)
      /\ task'[a].ins = ss /\ task'[a].off = task[a].off
  BY <1>1, <1>6, <1>8
     DEF Columns, TaskRow, Pc, Tasks, Others, KeepsRoute, KeepsRow, KeepsNew
<1> QED
  BY <1>2, <1>7, <1>9 DEF ConfirmNext

\* Rows added at the end of a route's.
Inserted(r, ss, on) ==
  /\ rows' \in [Route -> Seq(StationRow)]
  /\ \A q \in Route : q # r => rows'[q] = rows[q]
  /\ Len(rows'[r]) = Len(rows[r]) + Len(ss)
  /\ \A i \in DOMAIN rows[r] : i \in DOMAIN rows'[r] /\ rows'[r][i] = rows[r][i]
  /\ \A i \in DOMAIN rows'[r] : i \notin DOMAIN rows[r] =>
       /\ i - Len(rows[r]) \in DOMAIN ss
       /\ rows'[r][i].st = ss[i - Len(rows[r])] /\ rows'[r][i].on = on

LEMMA InsertFields ==
  ASSUME Columns, NEW r \in Route, NEW ss \in Seq(NoStop .. Gone), NEW on \in Nat,
         rows' = Insert(r, ss, on)
  PROVE  Inserted(r, ss, on)
<1>1. PICK new : new = [i \in DOMAIN ss |-> [st |-> ss[i], on |-> on]]
  OBVIOUS
<1>2. Len(ss) \in Nat /\ DOMAIN ss = 1 .. Len(ss) /\ \A i \in DOMAIN ss : ss[i] \in NoStop .. Gone
  <2>1. PICK S : S = NoStop .. Gone
    OBVIOUS
  <2>2. ss \in Seq(S)
    BY <2>1
  <2>3. Len(ss) \in Nat /\ DOMAIN ss = 1 .. Len(ss)
    BY <2>2, LenProperties
  <2>4. \A i \in 1 .. Len(ss) : ss[i] \in S
    BY <2>2, ElementOfSeq
  <2> QED
    BY <2>1, <2>3, <2>4
<1>3. \A i \in DOMAIN ss : new[i].st = ss[i] /\ new[i].on = on /\ new[i] \in StationRow
  BY <1>1, <1>2 DEF StationRow
<1>4. new \in [1 .. Len(ss) -> StationRow]
  BY <1>1, <1>2, <1>3
<1>5. new \in Seq(StationRow) /\ Len(new) = Len(ss)
  BY <1>2, <1>4, SeqDef
<1>6. PICK all : all = rows[r] \o new
  OBVIOUS
<1>7. PICK n : n = Len(rows[r])
  OBVIOUS
<1>8. rows[r] \in Seq(StationRow) /\ n \in Nat /\ DOMAIN rows[r] = 1 .. n
  BY <1>7, RowsOf
<1>9. /\ all \in Seq(StationRow) /\ Len(all) = n + Len(ss)
      /\ \A i \in 1 .. n + Len(ss) : all[i] = IF i <= n THEN rows[r][i] ELSE new[i - n]
  BY <1>5, <1>6, <1>7, <1>8, ConcatProperties
<1>10. DOMAIN all = 1 .. n + Len(ss)
  BY <1>9, LenProperties
<1>11. \A i \in 1 .. n : i \in DOMAIN all /\ all[i] = rows[r][i]
  BY <1>2, <1>8, <1>9, <1>10
<1>12. \A i \in DOMAIN all : i \notin 1 .. n => i - n \in DOMAIN ss /\ all[i] = new[i - n]
  BY <1>2, <1>8, <1>9, <1>10
<1>13. rows' = [rows EXCEPT ![r] = all]
  BY <1>1, <1>6 DEF Insert
<1>14. rows'[r] = all /\ rows' \in [Route -> Seq(StationRow)]
       /\ \A q \in Route : q # r => rows'[q] = rows[q]
  <2>1. rows \in [Route -> Seq(StationRow)]
    BY DEF Columns
  <2>2. all \in Seq(StationRow)
    BY <1>9
  <2> QED
    BY <2>1, <2>2, <1>13
<1>15. Len(rows'[r]) = Len(rows[r]) + Len(ss)
  BY <1>7, <1>9, <1>14
<1>16. \A i \in DOMAIN rows[r] : i \in DOMAIN rows'[r] /\ rows'[r][i] = rows[r][i]
  BY <1>8, <1>11, <1>14
<1>17. ASSUME NEW i \in DOMAIN rows'[r], i \notin DOMAIN rows[r]
       PROVE  /\ i - Len(rows[r]) \in DOMAIN ss
              /\ rows'[r][i].st = ss[i - Len(rows[r])] /\ rows'[r][i].on = on
  <2>1. i \in DOMAIN all /\ i \notin 1 .. n /\ all[i] = rows'[r][i]
    BY <1>8, <1>14, <1>17
  <2>2. i - n \in DOMAIN ss /\ all[i] = new[i - n]
    BY <1>12, <2>1
  <2>3. new[i - n].st = ss[i - n] /\ new[i - n].on = on
    BY <1>3, <2>2
  <2> QED
    BY <1>7, <2>1, <2>2, <2>3
<1> QED
  BY <1>14, <1>15, <1>16, <1>17 DEF Inserted

\* One row of a route changes.
Changed(r, i, row) ==
  /\ rows' \in [Route -> Seq(StationRow)]
  /\ \A q \in Route : q # r => rows'[q] = rows[q]
  /\ Len(rows'[r]) = Len(rows[r]) /\ DOMAIN rows'[r] = DOMAIN rows[r]
  /\ \A j \in DOMAIN rows[r] : rows'[r][j] = IF j = i THEN row ELSE rows[r][j]

LEMMA ChangeFields ==
  ASSUME Columns, NEW r \in Route, NEW i \in DOMAIN rows[r], NEW row \in StationRow,
         rows' = [rows EXCEPT ![r] = [rows[r] EXCEPT ![i] = row]]
  PROVE  Changed(r, i, row)
<1>1. PICK all : all = [rows[r] EXCEPT ![i] = row]
  OBVIOUS
<1>2. rows[r] \in Seq(StationRow) /\ i \in 1 .. Len(rows[r]) /\ DOMAIN rows[r] = 1 .. Len(rows[r])
  BY RowsOf
<1>3. /\ all \in Seq(StationRow) /\ Len(all) = Len(rows[r])
      /\ \A j \in 1 .. Len(rows[r]) : all[j] = IF j = i THEN row ELSE rows[r][j]
  BY <1>1, <1>2, ExceptSeq
<1>4. DOMAIN all = DOMAIN rows[r]
  BY <1>2, <1>3, LenProperties
<1>5. rows' = [rows EXCEPT ![r] = all]
  BY <1>1
<1>6. rows'[r] = all /\ rows' \in [Route -> Seq(StationRow)]
      /\ \A q \in Route : q # r => rows'[q] = rows[q]
  BY <1>3, <1>5 DEF Columns
<1> QED
  BY <1>2, <1>3, <1>4, <1>6 DEF Changed

\* Riders complete their ride.
Completes(S) ==
  /\ order' \in [Rider -> Ticket]
  /\ \A p \in Rider : order'[p].r = order[p].r
  /\ \A p \in Rider : order'[p].status = IF p \in S THEN "done" ELSE order[p].status

LEMMA RodeFields ==
  ASSUME Columns, NEW S, order' = Rode(S)
  PROVE  Completes(S)
<1>1. order \in [Rider -> Ticket]
  BY DEF Columns
<1>2. ASSUME NEW p \in Rider
      PROVE  /\ order'[p] \in Ticket /\ order'[p].r = order[p].r
             /\ order'[p].status = IF p \in S THEN "done" ELSE order[p].status
  <2>1. order'[p] = IF p \in S THEN [order[p] EXCEPT !.status = "done"] ELSE order[p]
    BY DEF Rode
  <2>2. order[p] \in Ticket
    BY <1>1
  <2>3. CASE p \in S
    BY <2>1, <2>2, <2>3 DEF Ticket
  <2>4. CASE p \notin S
    BY <2>1, <2>2, <2>4
  <2> QED
    BY <2>3, <2>4
<1>3. order' = [p \in Rider |-> order'[p]]
  BY DEF Rode
<1>4. order' \in [Rider -> Ticket]
  BY <1>2, <1>3
<1> QED
  BY <1>2, <1>4 DEF Completes

LEMMA WriteFields ==
  ASSUME Columns, Places, NEW t \in Thread, Write(t)
  PROVE  /\ At(t, "write") /\ task[t].r \in Route
         /\ Inserted(task[t].r, task[t].ins, 0) /\ Len(rows'[task[t].r]) <= MaxRow
         /\ Completes(task[t].off) /\ Rests(t)
         /\ UNCHANGED <<route, monitor, shut, history>>
<1>1. task[t].r \in Route
  BY OnARoute DEF Write, At, In
<1>2. task[t].ins \in Seq(NoStop .. Gone)
  BY DEF Columns, TaskRow
<1>3. Inserted(task[t].r, task[t].ins, 0)
  BY <1>1, <1>2, InsertFields DEF Write
<1>4. Completes(task[t].off) /\ Rests(t)
  BY RodeFields, FinishedFields DEF Write
<1>5. Len(rows'[task[t].r]) <= MaxRow
  BY <1>3 DEF Inserted, Write, Fits
<1> QED
  BY <1>1, <1>3, <1>4, <1>5 DEF Write

LEMMA CommitFields ==
  ASSUME Columns, Places, Unborn, NEW g \in Gps, Commit(g)
  PROVE  /\ At(g, "commit") /\ task[g].r \in Route
         /\ task[g].row \in DOMAIN rows[task[g].r]
         /\ route' \in [Route -> {"none", "open", "closed"}]
         /\ \A q \in Route : route'[q] = IF q = task[g].r THEN "closed"
                                         ELSE IF q = task[g].new THEN "open" ELSE route[q]
         /\ Changed(task[g].r, task[g].row,
                    [st |-> Gone, on |-> rows[task[g].r][task[g].row].on])
         /\ Completes(task[g].off) /\ Rests(g)
         /\ ended' = ended \cup {task[g].r}
         /\ UNCHANGED <<monitor, shut, crossed, mixed, late, lost>>
<1>1. g \in Thread /\ g \notin App
  BY Threads
<1>2. task[g].r \in Route
  BY <1>1, OnARoute DEF Commit, At, In
<1>3. task[g].row \in DOMAIN rows[task[g].r]
  BY <1>1 DEF Commit, Places, Place, Reading, In, At, Ending
<1>4. Completes(task[g].off) /\ Rests(g)
  BY <1>1, RodeFields, FinishedFields DEF Commit
<1>5. PICK r : r = task[g].r
  OBVIOUS
<1>6. PICK i : i = task[g].row
  OBVIOUS
<1>7. PICK row : row = [st |-> Gone, on |-> rows[r][i].on]
  OBVIOUS
<1>8. r \in Route /\ i \in DOMAIN rows[r] /\ rows[r][i] \in StationRow
  BY <1>2, <1>3, <1>5, <1>6, RowsOf
<1>9. row \in StationRow
  BY <1>7, <1>8, PeakAssumption DEF StationRow, NoStop, Gone
<1>10. [rows[r][i] EXCEPT !.st = Gone] = row
  BY <1>7, <1>8 DEF StationRow
<1>11. rows' = [rows EXCEPT ![r] = [rows[r] EXCEPT ![i] = row]]
  <2>1. rows' = Delete(r, i)
    BY <1>5, <1>6 DEF Commit
  <2>2. Delete(r, i) = [rows EXCEPT ![r] = [rows[r] EXCEPT ![i] = [rows[r][i] EXCEPT !.st = Gone]]]
    BY DEF Delete
  <2> QED
    BY <1>10, <2>1, <2>2
<1>12. Changed(r, i, row)
  BY <1>8, <1>9, <1>11, ChangeFields
<1>13. Changed(task[g].r, task[g].row,
               [st |-> Gone, on |-> rows[task[g].r][task[g].row].on])
  BY <1>5, <1>6, <1>7, <1>12
<1>14. route' = [q \in Route |-> CASE q = task[g].r   -> "closed"
                                   [] q = task[g].new -> "open"
                                   [] OTHER           -> route[q]]
  BY DEF Commit
<1>15. \A q \in Route : route'[q] = IF q = task[g].r THEN "closed"
                                    ELSE IF q = task[g].new THEN "open" ELSE route[q]
  <2>1. task[g].new # task[g].r
    BY <1>1, <1>2, OnARoute DEF Unborn, Places, Place, Commit, At, In
  <2>2. ASSUME NEW q \in Route
        PROVE  route'[q] = IF q = task[g].r THEN "closed"
                           ELSE IF q = task[g].new THEN "open" ELSE route[q]
    BY <1>14, <2>1
  <2> QED
    BY <2>2
<1>16. route' \in [Route -> {"none", "open", "closed"}]
  BY <1>14, <1>15 DEF Columns
<1> QED
  BY <1>2, <1>3, <1>4, <1>13, <1>15, <1>16 DEF Commit

LEMMA BoardFields ==
  ASSUME Columns, Places, NEW p \in Rider, Board(p)
  PROVE  /\ At(p, "board") /\ task[p].r \in Route
         /\ order' \in [Rider -> Ticket]
         /\ order'[p].status = "riding" /\ order'[p].r = task[p].r
         /\ \A q \in Rider : q # p => order'[q] = order[q]
         /\ late' = IF Locked(task[p].r) \/ route[task[p].r] # "open"
                    THEN late \cup {p} ELSE late
         /\ Jumps(p, "row")
         /\ UNCHANGED <<route, rows, monitor, shut, crossed, mixed, ended, lost>>
<1>1. p \in Thread /\ p \notin App
  BY Threads
<1>2. PICK r : r = task[p].r
  OBVIOUS
<1>3. r \in Route /\ r \in RouteId
  BY <1>1, <1>2, OnARoute DEF Board, At, Columns, TaskRow
<1>4. Jumps(p, "row")
  BY <1>1, GotoFields DEF Board, Pc
<1>5. order' = [order EXCEPT ![p] = [status |-> "riding", r |-> r]]
  BY <1>2 DEF Board, Boarded
<1>6. [status |-> "riding", r |-> r] \in Ticket
  BY <1>3 DEF Ticket
<1>7. /\ order' \in [Rider -> Ticket] /\ order'[p].status = "riding" /\ order'[p].r = r
      /\ \A q \in Rider : q # p => order'[q] = order[q]
  BY <1>5, <1>6 DEF Columns
<1> QED
  BY <1>2, <1>3, <1>4, <1>7 DEF Board

LEMMA CountFields ==
  ASSUME Columns, Places, NEW p \in Rider, Count(p)
  PROVE  /\ At(p, "act") /\ task[p].r \in Route
         /\ \/ /\ task[p].row = 0 /\ Inserted(task[p].r, <<StartOf[p]>>, 1)
               /\ Len(rows'[task[p].r]) <= MaxRow
            \/ /\ task[p].row \in DOMAIN rows[task[p].r]
               /\ rows[task[p].r][task[p].row].st = Gone /\ rows' = rows
            \/ /\ task[p].row \in DOMAIN rows[task[p].r]
               /\ rows[task[p].r][task[p].row].st # Gone
               /\ Changed(task[p].r, task[p].row,
                    [st |-> rows[task[p].r][task[p].row].st, on |-> task[p].on + 1])
         /\ Rests(p)
         /\ UNCHANGED <<route, order, monitor, shut, history>>
<1>1. p \in Thread /\ p \notin App
  BY Threads
<1>2. PICK r : r = task[p].r
  OBVIOUS
<1>3. PICK i : i = task[p].row
  OBVIOUS
<1>4. PICK n : n = task[p].on
  OBVIOUS
<1>5. r \in Route /\ n \in Nat
  BY <1>1, <1>2, <1>4, OnARoute DEF Count, At, Columns, TaskRow
<1>6. Rests(p)
  BY <1>1, FinishedFields DEF Count
<1>10. \/ i = 0 /\ Inserted(r, <<StartOf[p]>>, 1) /\ Len(rows'[r]) <= MaxRow
       \/ i \in DOMAIN rows[r] /\ rows[r][i].st = Gone /\ rows' = rows
       \/ /\ i \in DOMAIN rows[r] /\ rows[r][i].st # Gone
          /\ Changed(r, i, [st |-> rows[r][i].st, on |-> n + 1])
  <2>1. CASE i = 0
    <3>1. Fits(r, <<StartOf[p]>>) /\ rows' = Insert(r, <<StartOf[p]>>, 1)
      BY <1>2, <1>3, <2>1 DEF Count
    <3>2. StartOf[p] \in NoStop .. Gone
      BY PeakAssumption DEF NoStop, Gone
    <3>3. <<StartOf[p]>> \in Seq(NoStop .. Gone)
      BY <3>2
    <3>4. Inserted(r, <<StartOf[p]>>, 1)
      BY <1>5, <3>1, <3>3, InsertFields
    <3>5. Len(rows'[r]) <= MaxRow
      BY <3>1, <3>4 DEF Inserted, Fits
    <3> QED
      BY <2>1, <3>4, <3>5
  <2>2. CASE i # 0
    <3>1. i \in DOMAIN rows[r]
      BY <1>1, <1>2, <1>3, <2>2 DEF Places, Reading
    <3>3. rows' = IF rows[r][i].st = Gone THEN rows
                  ELSE [rows EXCEPT ![r][i].on = n + 1]
      BY <1>2, <1>3, <1>4, <2>2 DEF Count, CountOn
    <3>4. CASE rows[r][i].st = Gone
      BY <3>1, <3>3, <3>4
    <3>5. CASE rows[r][i].st # Gone
      <4>1. PICK row : row = [st |-> rows[r][i].st, on |-> n + 1]
        OBVIOUS
      <4>2. rows[r][i] \in StationRow
        BY <1>5, <3>1, RowsOf
      <4>3. row \in StationRow /\ [rows[r][i] EXCEPT !.on = n + 1] = row
        BY <1>5, <4>1, <4>2 DEF StationRow
      <4>4. rows' = [rows EXCEPT ![r] = [rows[r] EXCEPT ![i] = [rows[r][i] EXCEPT !.on = n + 1]]]
        BY <3>3, <3>5
      <4>5. Changed(r, i, row)
        BY <1>5, <3>1, <4>3, <4>4, ChangeFields
      <4> QED
        BY <3>1, <3>5, <4>1, <4>5
    <3> QED
      BY <3>4, <3>5
  <2> QED
    BY <2>1, <2>2
<1>12. At(p, "act") /\ UNCHANGED <<route, order, monitor, shut, history>>
  BY DEF Count
<1> QED
  BY <1>2, <1>3, <1>4, <1>5, <1>6, <1>10, <1>12

LEMMA CrashFields ==
  ASSUME Columns, Crash
  PROVE  /\ Tasks /\ \A t \in Thread : task'[t] = Idle
         /\ monitor' \in [Class -> SUBSET (Gps \cup App)]
         /\ \A m \in Class : monitor'[m] = {}
         /\ lost' = lost \cup {p \in Rider : In(p, {"row", "act"})}
         /\ UNCHANGED <<table, shut, crossed, mixed, ended, late>>
<1>1. Tasks /\ \A t \in Thread : task'[t] = Idle
  BY IdleTask DEF Crash, Tasks
<1>2. monitor' = [m \in Class |-> {}]
  BY DEF Crash, Columns
<1> QED
  BY <1>1, <1>2 DEF Crash

-----------------------------------------------------------------------------
(* Columns keep their shapes.                                              *)

LEMMA InitColumns == Init => Columns
<1> SUFFICES ASSUME Init PROVE Columns
  OBVIOUS
<1>1. route \in [Route -> {"none", "open", "closed"}]
  BY DEF Init
<1>2. rows \in [Route -> Seq(StationRow)] /\ \A r \in Route : Len(rows[r]) <= MaxRow
  <2>1. <<>> \in Seq(StationRow) /\ Len(<<>>) = 0
    BY EmptySeq
  <2> QED
    BY <2>1, PeakAssumption DEF Init
<1>3. order \in [Rider -> Ticket]
  BY PeakAssumption DEF Init, Ticket, RouteId, NoRoute
<1>4. task \in [Thread -> TaskRow]
  BY IdleTask DEF Init
<1>5. monitor \in [Class -> SUBSET (Gps \cup App)]
  BY DEF Init, Class
<1> QED
  BY <1>1, <1>2, <1>3, <1>4, <1>5 DEF Init, Columns

\* The steps that only move a task from one place to another.
LEMMA ColumnsKept ==
  ASSUME Columns, Tasks, UNCHANGED <<table, ended, late, lost>>,
         monitor' \in [Class -> SUBSET (Gps \cup App)], crossed' \in BOOLEAN, mixed' \subseteq Route
  PROVE  Columns'
BY DEF Columns, table, Tasks

LEMMA NextColumns ==
  ASSUME Columns, Places, Unborn, [Next]_vars
  PROVE  Columns'
<1>1. ASSUME NEW t \in Thread, ReadRow(t) PROVE Columns'
  BY <1>1, ReadRowFields, ColumnsKept DEF Columns
<1>2. ASSUME NEW t \in Thread, Look(t) PROVE Columns'
  <2>1. Tasks
    BY <1>2, GotoFields, OverFields DEF Look, Pc, Jumps, Rests
  <2> QED
    BY <1>2, <2>1, ColumnsKept DEF Look, Columns, history
<1>3. ASSUME NEW t \in Thread, Enter(t) PROVE Columns'
  <2>1. Tasks
    BY <1>3, GotoFields, OverFields DEF Enter, Pc, Jumps, Rests
  <2>2. t \in Gps \cup App
    BY <1>3, Threads DEF Enter, Places, Place, At, In, Thread
  <2>3. monitor' \in [Class -> SUBSET (Gps \cup App)]
    BY <1>3, <2>2 DEF Enter, Columns
  <2> QED
    BY <1>3, <2>1, <2>3, ColumnsKept DEF Enter, Columns, history
<1>4. ASSUME NEW t \in Thread, Save(t) PROVE Columns'
  <2>1. Tasks /\ route' \in [Route -> {"none", "open", "closed"}]
    <3>1. PICK n \in Route : \/ Tasks /\ route' = route
                             \/ Rests(t) /\ route' = [route EXCEPT ![n] = "open"]
      BY <1>4, SaveFields
    <3> QED
      BY <3>1 DEF Rests, Columns
  <2>2. monitor' \in [Class -> SUBSET (Gps \cup App)]
    BY <1>4 DEF Save, Columns
  <2> QED
    BY <1>4, <2>1, <2>2 DEF Save, Columns, Tasks, history
<1>5. ASSUME NEW t \in Thread, Write(t) PROVE Columns'
  <2>1. /\ task[t].r \in Route
        /\ Inserted(task[t].r, task[t].ins, 0) /\ Len(rows'[task[t].r]) <= MaxRow
        /\ Completes(task[t].off) /\ Rests(t)
        /\ UNCHANGED <<route, monitor, shut, history>>
    BY <1>5, WriteFields
  <2> QED
    BY <2>1 DEF Inserted, Completes, Rests, Tasks, Columns, history
<1>6. ASSUME NEW t \in Thread, NEW r \in Route, NEW pc \in {"row", "board"},
             BeginOn(t, r, pc)
      PROVE  Columns'
  <2>1. Tasks /\ UNCHANGED <<table, monitor, shut, history>>
    BY <1>6, BeginFields
  <2> QED
    BY <2>1, ColumnsKept DEF Columns, history
<1>7. ASSUME NEW g \in Gps, Close(g) PROVE Columns'
  <2>1. /\ Tasks /\ task[g].r \in Route /\ crossed' = Crossing(g)
        /\ mixed' \in {mixed, mixed \cup {task[g].r}}
        /\ UNCHANGED <<table, monitor, shut, ended, late, lost>>
    BY <1>7, CloseFields
  <2>2. crossed' \in BOOLEAN
    BY <2>1 DEF Crossing
  <2> QED
    BY <2>1, <2>2, ColumnsKept DEF Columns
<1>8. ASSUME NEW g \in Gps, Observe(g) PROVE Columns'
  <2>1. Tasks /\ UNCHANGED <<table, monitor, shut, history>>
    BY <1>8, ObserveFields
  <2> QED
    BY <2>1, ColumnsKept DEF Columns, history
<1>9. ASSUME NEW g \in Gps, Commit(g) PROVE Columns'
  <2>1. /\ task[g].r \in Route
        /\ route' \in [Route -> {"none", "open", "closed"}]
        /\ Changed(task[g].r, task[g].row,
                   [st |-> Gone, on |-> rows[task[g].r][task[g].row].on])
        /\ Completes(task[g].off) /\ Rests(g)
        /\ ended' = ended \cup {task[g].r}
        /\ UNCHANGED <<monitor, shut, crossed, mixed, late, lost>>
    BY <1>9, CommitFields
  <2>2. \A r \in Route : Len(rows'[r]) <= MaxRow
    BY <2>1 DEF Changed, Columns
  <2> QED
    BY <2>1, <2>2 DEF Changed, Completes, Rests, Tasks, Columns
<1>10. ASSUME NEW a \in App, Start(a) PROVE Columns'
  <2>1. Tasks
    BY <1>10, Threads, GotoFields DEF Start, Pc, Jumps
  <2>2. crossed' \in BOOLEAN
    BY <1>10 DEF Start
  <2> QED
    BY <1>10, <2>1, <2>2, ColumnsKept DEF Start, Columns
<1>11. ASSUME NEW a \in App, CloseNow(a) PROVE Columns'
  <2>1. Tasks
    BY <1>11, Threads, GotoFields DEF CloseNow, Pc, Jumps
  <2>2. crossed' \in BOOLEAN
    BY <1>11 DEF CloseNow, Crossing
  <2>3. route' \in [Route -> {"none", "open", "closed"}]
    BY <1>11 DEF CloseNow, Columns
  <2> QED
    BY <1>11, <2>1, <2>2, <2>3 DEF CloseNow, Columns, Tasks
<1>12. ASSUME NEW a \in App, LeaveAll(a) PROVE Columns'
  <2>1. Tasks
    BY <1>12, Threads, GotoFields DEF LeaveAll, Pc, Jumps
  <2>2. Completes(OnBoard(task[a].r))
    BY <1>12, RodeFields DEF LeaveAll
  <2>3. task[a].r \in Route
    BY <1>12, Threads, OnARoute DEF LeaveAll, At, In
  <2> QED
    BY <1>12, <2>1, <2>2, <2>3 DEF LeaveAll, Completes, Columns, Tasks
<1>13. ASSUME NEW a \in App, ConfirmNext(a) PROVE Columns'
  <2>1. Tasks /\ UNCHANGED <<table, monitor, shut, history>>
    BY <1>13, ConfirmNextFields
  <2> QED
    BY <2>1, ColumnsKept DEF Columns, history
<1>14. ASSUME NEW p \in Rider, Board(p) PROVE Columns'
  <2>1. /\ order' \in [Rider -> Ticket] /\ Jumps(p, "row") /\ late' \subseteq Rider
        /\ UNCHANGED <<route, rows, monitor, shut, crossed, mixed, ended, lost>>
    <3>1. late' \in {late, late \cup {p}} /\ late \subseteq Rider
      BY <1>14 DEF Board, Columns
    <3> QED
      BY <1>14, <3>1, BoardFields
  <2> QED
    BY <2>1 DEF Jumps, Tasks, Columns
<1>19. ASSUME NEW p \in Rider, Count(p) PROVE Columns'
  <2>1. Rests(p) /\ UNCHANGED <<route, order, monitor, shut, history>>
    BY <1>19, CountFields
  <2>2. rows' \in [Route -> Seq(StationRow)] /\ \A r \in Route : Len(rows'[r]) <= MaxRow
    BY <1>19, CountFields DEF Columns, Inserted, Changed
  <2> QED
    BY <2>1, <2>2 DEF Rests, Tasks, Columns, history
<1>20. CASE Crash
  <2>1. /\ Tasks /\ monitor' \in [Class -> SUBSET (Gps \cup App)]
        /\ lost' = lost \cup {p \in Rider : In(p, {"row", "act"})}
        /\ UNCHANGED <<table, shut, crossed, mixed, ended, late>>
    BY <1>20, CrashFields
  <2> QED
    BY <2>1 DEF Columns, Tasks, table
<1>15. ASSUME NEW r \in Route, FinishRoute(r) PROVE Columns'
  BY <1>15 DEF FinishRoute, Columns, history
<1>16. CASE ResetRoute
  BY <1>16 DEF ResetRoute, Columns, history
<1>17. ASSUME NEW w \in {"start", "renew"}, Shut(w) PROVE Columns'
  BY <1>17 DEF Shut, Columns, table, history
<1>18. CASE UNCHANGED vars
  BY <1>18 DEF vars, Columns, table, history
<1> QED
  BY <1>1, <1>2, <1>3, <1>4, <1>5, <1>6, <1>7, <1>8, <1>9, <1>10, <1>11, <1>12, <1>13, <1>14,
     <1>15, <1>16, <1>17, <1>18, <1>19, <1>20, Threads DEF Next, Report, Confirm, Scan

-----------------------------------------------------------------------------
(* Tasks are where they may be.                                            *)

\* Routes and rows are never taken away.
Lasting ==
  /\ \A q \in Route : route[q] # "none" => route'[q] # "none"
  /\ \A q \in Route : DOMAIN rows[q] \subseteq DOMAIN rows'[q]

LEMMA TableLasts ==
  ASSUME UNCHANGED <<route, rows>>
  PROVE  Lasting
BY DEF Lasting

\* Where the moving task goes is all there is to show.
LEMMA PlacesKept ==
  ASSUME Columns, Places, NEW t \in Thread, Others(t), Lasting, (Place(t) /\ Reading(t))'
  PROVE  Places'
<1> SUFFICES ASSUME NEW u \in Thread, u # t PROVE (Place(u) /\ Reading(u))'
  BY DEF Places
<1>1. task'[u] = task[u]
  BY DEF Others
<1>2. task[u].r # NoRoute => task[u].r \in Route
  BY PeakAssumption DEF Columns, TaskRow, RouteId, Route, NoRoute
<1>3. Place(u) /\ Reading(u)
  BY DEF Places
<1>4. Place(u)'
  BY <1>1, <1>2, <1>3 DEF Place, Lasting, At, In
<1>5. Reading(u)'
  BY <1>1, <1>2, <1>3 DEF Reading, Lasting
<1> QED
  BY <1>4, <1>5

LEMMA RestPlace ==
  ASSUME Columns, Places, NEW t \in Thread, Rests(t), Lasting
  PROVE  Places'
<1>1. (Place(t) /\ Reading(t))'
  BY IdleTask DEF Rests, Place, Reading, At, In, Ending
<1> QED
  BY <1>1, PlacesKept DEF Rests

\* A task that goes on with the same route and row.
LEMMA GoOnPlace ==
  ASSUME Columns, Places, NEW t \in Thread, NEW pc \in Pc \ {"idle"}, Lasting,
         Others(t), task'[t].pc = pc, KeepsRoute(t), KeepsRow(t),
         t \in Gps => pc # "leave", t \in App => pc # "commit",
         t \in Rider => pc \in {"board", "row", "act"},
         task[t].r = NoRoute => t \in App /\ pc \in {"open", "save"},
         t \in Gps /\ pc \in Ending => task[t].row # 0
  PROVE  Places'
<1>1. task[t].r # NoRoute => task[t].r \in Route
  BY PeakAssumption DEF Columns, TaskRow, RouteId, Route, NoRoute
<1>2. Place(t) /\ Reading(t)
  BY DEF Places
<1>3. Place(t)'
  BY <1>1, <1>2 DEF Place, Lasting, At, In, KeepsRoute, KeepsRow
<1>4. Reading(t)'
  BY <1>1, <1>2 DEF Reading, Lasting, KeepsRoute, KeepsRow
<1> QED
  BY <1>3, <1>4, PlacesKept

LEMMA RowsLast ==
  ASSUME Columns, NEW r \in Route
  PROVE  /\ \A ss, on : Inserted(r, ss, on) =>
              \A q \in Route : DOMAIN rows[q] \subseteq DOMAIN rows'[q]
         /\ \A i, row : Changed(r, i, row) =>
              \A q \in Route : DOMAIN rows[q] \subseteq DOMAIN rows'[q]
<1>1. ASSUME NEW ss, NEW on, Inserted(r, ss, on), NEW q \in Route
      PROVE  DOMAIN rows[q] \subseteq DOMAIN rows'[q]
  <2>1. CASE q = r
    BY <1>1, <2>1 DEF Inserted
  <2>2. CASE q # r
    BY <1>1, <2>2 DEF Inserted
  <2> QED
    BY <2>1, <2>2
<1>2. ASSUME NEW i, NEW row, Changed(r, i, row), NEW q \in Route
      PROVE  DOMAIN rows[q] \subseteq DOMAIN rows'[q]
  <2>1. CASE q = r
    BY <1>2, <2>1 DEF Changed
  <2>2. CASE q # r
    BY <1>2, <2>2 DEF Changed
  <2> QED
    BY <2>1, <2>2
<1> QED
  BY <1>1, <1>2

LEMMA InitPlaces == Init => Places
BY IdleTask DEF Init, Places, Place, Reading, At, In, Ending

\* Only reports and the app's requests end or renew a route.
LEMMA Enders ==
  ASSUME Places, NEW t \in Thread, In(t, Ending \cup {"leave", "write"})
  PROVE  t \in Gps \cup App /\ t \notin Rider
BY Threads DEF Places, Place, Thread, At, In, Ending

LEMMA NextPlaces ==
  ASSUME Columns, Places, Unborn, [Next]_vars
  PROVE  Places'
<1>1. ASSUME NEW t \in Thread, ReadRow(t) PROVE Places'
  <2>1. /\ Others(t) /\ At(t, "row") /\ task'[t].pc = "act" /\ KeepsRoute(t) /\ task[t].r \in Route
        /\ task'[t].row # 0 => task'[t].row \in Live(task[t].r)
        /\ task'[t].row = 0 => task'[t].st = NoStop
        /\ UNCHANGED <<route, rows>>
    BY <1>1, ReadRowFields DEF table
  <2>2. task[t].r # NoRoute
    BY <2>1, OnARoute DEF At, In
  <2>3. (Place(t) /\ Reading(t))'
    BY <2>1, <2>2 DEF Places, Place, Reading, KeepsRoute, At, In, Ending, Live
  <2> QED
    BY <2>1, <2>3, TableLasts, PlacesKept
<1>2. ASSUME NEW t \in Thread, Look(t) PROVE Places'
  <2>1. Lasting
    BY <1>2, TableLasts DEF Look, table
  <2>2. t \in Gps \cup App /\ t \notin Rider /\ (t \in Gps => task[t].row # 0) /\ task[t].r # NoRoute
    BY <1>2, Enders, OnARoute DEF Look, At, In, Ending, Places, Place
  <2>3. CASE Goto(t, "open")
    <3>1. Jumps(t, "open")
      BY <2>3, GotoFields DEF Pc
    <3> QED
      BY <2>1, <2>2, <3>1, GoOnPlace DEF Jumps, Pc
  <2>4. CASE Over(t)
    <3>1. CASE t \in Gps /\ Jumps(t, "commit")
      BY <2>1, <2>2, <3>1, GoOnPlace, Threads DEF Jumps, Pc
    <3>2. CASE t \notin Gps /\ Rests(t)
      BY <2>1, <3>2, RestPlace
    <3> QED
      BY <2>4, <3>1, <3>2, OverFields
  <2> QED
    BY <1>2, <2>3, <2>4 DEF Look
<1>3. ASSUME NEW t \in Thread, Enter(t) PROVE Places'
  <2>1. Lasting
    BY <1>3, TableLasts DEF Enter, table
  <2>2. /\ t \in Gps \cup App /\ t \notin Rider
        /\ t \in Gps => task[t].row # 0 /\ task[t].r # NoRoute
    BY <1>3, Enders, Threads DEF Enter, At, In, Ending, Places, Place
  <2>3. CASE Goto(t, "save")
    <3>1. Jumps(t, "save")
      BY <2>3, GotoFields DEF Pc
    <3> QED
      BY <2>1, <2>2, <3>1, GoOnPlace DEF Jumps, Pc
  <2>4. CASE Over(t)
    <3>1. CASE t \in Gps /\ Jumps(t, "commit")
      BY <2>1, <2>2, <3>1, GoOnPlace, Threads DEF Jumps, Pc
    <3>2. CASE t \notin Gps /\ Rests(t)
      BY <2>1, <3>2, RestPlace
    <3> QED
      BY <2>4, <3>1, <3>2, OverFields
  <2> QED
    BY <1>3, <2>3, <2>4 DEF Enter
<1>4. ASSUME NEW t \in Thread, Save(t) PROVE Places'
  <2>1. PICK n \in Route :
          /\ route[n] = "none"
          /\ \/ /\ t \in Gps /\ route' = route /\ Others(t) /\ task'[t].pc = "commit"
                /\ KeepsRoute(t) /\ KeepsRow(t)
             \/ t \in App /\ route' = [route EXCEPT ![n] = "open"] /\ Rests(t)
    BY <1>4, SaveFields
  <2>2. Lasting
    BY <1>4, <2>1 DEF Save, Lasting, Columns
  <2>3. CASE t \in Gps /\ Others(t) /\ task'[t].pc = "commit" /\ KeepsRoute(t) /\ KeepsRow(t)
    <3>1. task[t].row # 0 /\ task[t].r # NoRoute /\ t \notin App /\ t \notin Rider
      BY <1>4, <2>3, Threads DEF Save, At, In, Ending, Places, Place
    <3> QED
      BY <2>2, <2>3, <3>1, GoOnPlace DEF Pc
  <2>4. CASE Rests(t)
    BY <2>2, <2>4, RestPlace
  <2> QED
    BY <2>1, <2>3, <2>4
<1>5. ASSUME NEW t \in Thread, Write(t) PROVE Places'
  <2>1. /\ task[t].r \in Route /\ Inserted(task[t].r, task[t].ins, 0)
        /\ Rests(t) /\ route' = route
    BY <1>5, WriteFields
  <2>2. Lasting
    BY <2>1, RowsLast DEF Lasting
  <2> QED
    BY <2>1, <2>2, RestPlace
<1>6. ASSUME NEW t \in Thread, NEW r \in Route, NEW pc \in {"row", "board"},
             BeginOn(t, r, pc)
      PROVE  Places'
  <2>1. /\ Others(t) /\ task'[t].pc = pc /\ task'[t].r = r /\ task'[t].row = 0
        /\ task'[t].st = NoStop /\ route[r] = "open" /\ UNCHANGED <<route, rows>>
    BY <1>6, BeginFields DEF table
  <2>2. r # NoRoute
    BY PeakAssumption DEF Route, NoRoute
  <2>3. (Place(t) /\ Reading(t))'
    BY <2>1, <2>2 DEF Place, Reading, At, In, Ending
  <2> QED
    BY <2>1, <2>3, TableLasts, PlacesKept
<1>7. ASSUME NEW g \in Gps, Close(g) PROVE Places'
  <2>1. /\ At(g, "act") /\ task[g].row # 0 /\ Others(g) /\ task'[g].pc = "look"
        /\ KeepsRoute(g) /\ KeepsRow(g) /\ UNCHANGED <<route, rows>> /\ task[g].r \in Route
    BY <1>7, CloseFields DEF table
  <2>2. task[g].r # NoRoute /\ g \in Thread /\ g \notin App /\ g \notin Rider
    BY <2>1, Threads, OnARoute DEF At
  <2> QED
    BY <2>1, <2>2, TableLasts, GoOnPlace DEF Pc
<1>8. ASSUME NEW g \in Gps, Observe(g) PROVE Places'
  <2>1. /\ At(g, "act") /\ Others(g) /\ task'[g].pc = "write"
        /\ KeepsRoute(g) /\ KeepsRow(g) /\ UNCHANGED <<route, rows>> /\ task[g].r \in Route
    BY <1>8, ObserveFields DEF table
  <2>2. task[g].r # NoRoute /\ g \in Thread /\ g \notin App /\ g \notin Rider
    BY <2>1, Threads, OnARoute DEF At
  <2> QED
    BY <2>1, <2>2, TableLasts, GoOnPlace DEF Pc, Ending
<1>9. ASSUME NEW g \in Gps, Commit(g) PROVE Places'
  <2>1. /\ task[g].r \in Route /\ Rests(g)
        /\ \A q \in Route : route'[q] = IF q = task[g].r THEN "closed"
                                        ELSE IF q = task[g].new THEN "open" ELSE route[q]
        /\ Changed(task[g].r, task[g].row,
                   [st |-> Gone, on |-> rows[task[g].r][task[g].row].on])
    BY <1>9, CommitFields
  <2>2. Lasting
    BY <2>1, RowsLast DEF Lasting
  <2> QED
    BY <2>1, <2>2, RestPlace, Threads
<1>10. ASSUME NEW a \in App, Start(a) PROVE Places'
  <2>1. a \in Thread /\ a \notin Gps /\ a \notin Rider
    BY Threads
  <2>2. Jumps(a, "open") /\ UNCHANGED <<route, rows>>
    BY <1>10, <2>1, GotoFields DEF Start, Pc, table
  <2> QED
    BY <2>1, <2>2, TableLasts, GoOnPlace DEF Jumps, Pc
<1>11. ASSUME NEW a \in App, CloseNow(a) PROVE Places'
  <2>1. a \in Thread /\ a \notin Gps /\ a \notin Rider /\ task[a].r \in Route /\ task[a].r # NoRoute
    BY <1>11, Threads, OnARoute DEF CloseNow, At, In
  <2>2. Jumps(a, "leave")
    BY <1>11, <2>1, GotoFields DEF CloseNow, Pc
  <2>3. Lasting
    BY <1>11 DEF CloseNow, Lasting, Columns
  <2> QED
    BY <2>1, <2>2, <2>3, GoOnPlace DEF Jumps, Pc
<1>12. ASSUME NEW a \in App, LeaveAll(a) PROVE Places'
  <2>1. a \in Thread /\ a \notin Gps /\ a \notin Rider /\ task[a].r # NoRoute
    BY <1>12, Threads, OnARoute DEF LeaveAll, At, In
  <2>2. Jumps(a, "look") /\ UNCHANGED <<route, rows>>
    BY <1>12, <2>1, GotoFields DEF LeaveAll, Pc
  <2> QED
    BY <2>1, <2>2, TableLasts, GoOnPlace DEF Jumps, Pc
<1>13. ASSUME NEW a \in App, ConfirmNext(a) PROVE Places'
  <2>1. /\ At(a, "act") /\ Others(a) /\ task'[a].pc = "write"
        /\ KeepsRoute(a) /\ KeepsRow(a) /\ UNCHANGED <<route, rows>> /\ task[a].r \in Route
    BY <1>13, ConfirmNextFields DEF table
  <2>2. task[a].r # NoRoute /\ a \in Thread /\ a \notin Gps /\ a \notin Rider
    BY <2>1, Threads, OnARoute DEF At, In
  <2> QED
    BY <2>1, <2>2, TableLasts, GoOnPlace DEF Pc, Ending
<1>14. ASSUME NEW p \in Rider, Board(p) PROVE Places'
  <2>1. Jumps(p, "row") /\ UNCHANGED <<route, rows>> /\ task[p].r \in Route
    BY <1>14, BoardFields
  <2>2. task[p].r # NoRoute /\ p \in Thread /\ p \notin Gps /\ p \notin App
    BY <1>14, Threads, OnARoute DEF Board, At
  <2> QED
    BY <2>1, <2>2, TableLasts, GoOnPlace DEF Jumps, Pc, Ending
<1>20. ASSUME NEW p \in Rider, Count(p) PROVE Places'
  <2>1. /\ Rests(p) /\ route' = route /\ task[p].r \in Route
        /\ \A q \in Route : DOMAIN rows[q] \subseteq DOMAIN rows'[q]
    BY <1>20, CountFields, RowsLast
  <2> QED
    BY <2>1, RestPlace, Threads DEF Lasting
<1>21. CASE Crash
  BY <1>21, CrashFields, IdleTask DEF Places, Place, Reading, At, In, Ending
<1>15. ASSUME UNCHANGED <<task, rows>>, \A q \in Route : route[q] # "none" => route'[q] # "none"
       PROVE  Places'
  <2> SUFFICES ASSUME NEW t \in Thread PROVE (Place(t) /\ Reading(t))'
    BY DEF Places
  <2>1. task[t].r # NoRoute => task[t].r \in Route
    BY PeakAssumption DEF Columns, TaskRow, RouteId, Route, NoRoute
  <2>2. Place(t) /\ Reading(t)
    BY DEF Places
  <2> QED
    BY <1>15, <2>1, <2>2 DEF Place, Reading, At, In
<1>16. ASSUME NEW r \in Route, FinishRoute(r) PROVE Places'
  BY <1>15, <1>16 DEF FinishRoute, Columns
<1>17. CASE ResetRoute
  BY <1>15, <1>17 DEF ResetRoute, Columns
<1>18. ASSUME NEW w \in {"start", "renew"}, Shut(w) PROVE Places'
  BY <1>15, <1>18 DEF Shut, table
<1>19. CASE UNCHANGED vars
  BY <1>15, <1>19 DEF vars, table
<1> QED
  BY <1>1, <1>2, <1>3, <1>4, <1>5, <1>6, <1>7, <1>8, <1>9, <1>10, <1>11, <1>12, <1>13, <1>14,
     <1>16, <1>17, <1>18, <1>19, <1>20, <1>21, Threads DEF Next, Report, Confirm, Scan

-----------------------------------------------------------------------------
(* What most steps leave alone: a task of one thread at most moves, and it *)
(* neither enters nor leaves a monitor.                                    *)

\* The tasks that are, or will be, in a monitor, and those that open a route,
\* stay where they are.
Outside(t) == Others(t) /\ ~At(t, "save") /\ task'[t].pc # "save" /\ monitor' = monitor

\* A task that begins, reads a row, looks or acts is outside of the monitors.
Steady ==
  \/ task' = task /\ monitor' = monitor
  \/ \E t \in Thread : Outside(t)

LEMMA OwnersKept ==
  ASSUME Columns, Owners, Steady
  PROVE  Owners'
<1>1. CASE task' = task /\ monitor' = monitor
  BY <1>1 DEF Owners, At, Monitor
<1>2. CASE \E t \in Thread : Outside(t)
  <2>1. PICK t \in Thread : Outside(t)
    BY <1>2
  <2>2. ASSUME NEW u \in Thread PROVE At(u, "save")' => u # t
    BY <2>1 DEF Outside, At
  <2>3. \A u \in Thread : u # t => task'[u] = task[u]
    BY <2>1 DEF Outside, Others
  <2>4. \A m \in Class : monitor[m] \subseteq Gps \cup App
    BY DEF Columns
  <2>5. ASSUME NEW m \in Class, NEW u \in monitor'[m]
        PROVE  At(u, "save")' /\ Monitor(u)' = m /\ \A v \in monitor'[m] : v = u
    <3>1. u \in monitor[m] /\ u \in Thread /\ At(u, "save") /\ monitor' = monitor
      BY <2>1, <2>4, <2>5, Threads DEF Outside, Owners
    <3>2. u # t
      BY <2>1, <3>1 DEF Outside
    <3> QED
      BY <2>3, <3>1, <3>2 DEF Owners, At, Monitor
  <2>6. ASSUME NEW u \in Gps \cup App, At(u, "save")'
        PROVE  u \in monitor'[Monitor(u)']
    <3>1. u \in Thread /\ u # t /\ task'[u] = task[u]
      BY <2>2, <2>3, <2>6, Threads
    <3>2. At(u, "save") /\ Monitor(u)' = Monitor(u) /\ monitor' = monitor
      BY <2>1, <2>6, <3>1 DEF At, Monitor, Outside
    <3> QED
      BY <3>2 DEF Owners
  <2> QED
    BY <2>5, <2>6 DEF Owners
<1> QED
  BY <1>1, <1>2 DEF Steady

\* Every step but those into and out of a monitor.
LEMMA SteadySteps ==
  ASSUME Columns, Places, Unborn, [Next]_vars,
         ~ \E t \in Thread : Save(t) \/ Enter(t), ~Crash
  PROVE  Steady
<1>1. ASSUME NEW t \in Thread, Others(t), ~At(t, "save"), task'[t].pc # "save", monitor' = monitor
      PROVE  Steady
  BY <1>1 DEF Steady, Outside
<1>2. ASSUME NEW t \in Thread, Rests(t), ~At(t, "save"), monitor' = monitor
      PROVE  Steady
  BY <1>1, <1>2, IdleTask DEF Rests
<1>3. ASSUME NEW t \in Thread, ReadRow(t) PROVE Steady
  BY <1>1, <1>3, ReadRowFields DEF At
<1>4. ASSUME NEW t \in Thread, Look(t) PROVE Steady
  <2>1. At(t, "look") /\ monitor' = monitor
    BY <1>4 DEF Look
  <2>2. Jumps(t, "open") \/ Jumps(t, "commit") \/ Rests(t)
    BY <1>4, GotoFields, OverFields DEF Look, Pc
  <2> QED
    BY <1>1, <1>2, <2>1, <2>2 DEF Jumps, At
<1>5. ASSUME NEW t \in Thread, Write(t) PROVE Steady
  BY <1>2, <1>5, WriteFields DEF At
<1>6. ASSUME NEW t \in Thread, NEW r \in Route, NEW pc \in {"row", "board"},
             BeginOn(t, r, pc)
      PROVE  Steady
  BY <1>1, <1>6, BeginFields DEF At
<1>7. ASSUME NEW g \in Gps, Close(g) PROVE Steady
  BY <1>1, <1>7, CloseFields, Threads DEF At
<1>8. ASSUME NEW g \in Gps, Observe(g) PROVE Steady
  BY <1>1, <1>8, ObserveFields, Threads DEF At
<1>9. ASSUME NEW g \in Gps, Commit(g) PROVE Steady
  BY <1>2, <1>9, CommitFields, Threads DEF At
<1>10. ASSUME NEW a \in App, Start(a) PROVE Steady
  <2>1. At(a, "idle") /\ Jumps(a, "open") /\ monitor' = monitor /\ a \in Thread
    BY <1>10, Threads, GotoFields DEF Start, Pc
  <2> QED
    BY <1>1, <2>1 DEF Jumps, At
<1>11. ASSUME NEW a \in App, CloseNow(a) PROVE Steady
  <2>1. At(a, "act") /\ Jumps(a, "leave") /\ monitor' = monitor /\ a \in Thread
    BY <1>11, Threads, GotoFields DEF CloseNow, Pc
  <2> QED
    BY <1>1, <2>1 DEF Jumps, At
<1>12. ASSUME NEW a \in App, LeaveAll(a) PROVE Steady
  <2>1. At(a, "leave") /\ Jumps(a, "look") /\ monitor' = monitor /\ a \in Thread
    BY <1>12, Threads, GotoFields DEF LeaveAll, Pc
  <2> QED
    BY <1>1, <2>1 DEF Jumps, At
<1>13. ASSUME NEW a \in App, ConfirmNext(a) PROVE Steady
  BY <1>1, <1>13, ConfirmNextFields, Threads DEF At
<1>14. ASSUME NEW p \in Rider, Board(p) PROVE Steady
  BY <1>1, <1>14, BoardFields, Threads DEF At, Jumps
<1>19. ASSUME NEW p \in Rider, Count(p) PROVE Steady
  BY <1>2, <1>19, CountFields, Threads DEF At
<1>15. ASSUME NEW r \in Route, FinishRoute(r) PROVE Steady
  BY <1>15 DEF FinishRoute, Steady
<1>16. CASE ResetRoute
  BY <1>16 DEF ResetRoute, Steady
<1>17. ASSUME NEW w \in {"start", "renew"}, Shut(w) PROVE Steady
  BY <1>17 DEF Shut, Steady
<1>18. CASE UNCHANGED vars
  BY <1>18 DEF vars, Steady
<1> QED
  BY <1>3, <1>4, <1>5, <1>6, <1>7, <1>8, <1>9, <1>10, <1>11, <1>12, <1>13, <1>14,
     <1>15, <1>16, <1>17, <1>18, <1>19, Threads DEF Next, Report, Confirm, Scan

LEMMA InitOwners == Init => Owners
BY IdleTask, Threads DEF Init, Owners, Class, At

LEMMA NextOwners ==
  ASSUME Columns, Places, Owners, Unborn, [Next]_vars
  PROVE  Owners'
<1>1. \A u : Monitor(u) \in Class
  BY DEF Monitor, Class
<1>2. \A m \in Class : monitor[m] \subseteq Gps \cup App
  BY DEF Columns
<1>3. ASSUME NEW t \in Thread, Enter(t), StillNone(t) PROVE Owners'
  <2>1. /\ At(t, "open") /\ monitor[Monitor(t)] = {} /\ Jumps(t, "save")
        /\ monitor' = [monitor EXCEPT ![Monitor(t)] = {t}]
    BY <1>3, GotoFields DEF Enter, Pc
  <2>2. PICK m : m = Monitor(t)
    OBVIOUS
  <2>3. /\ m \in Class /\ monitor'[m] = {t} /\ monitor[m] = {}
        /\ \A n \in Class : n # m => monitor'[n] = monitor[n]
    BY <1>1, <2>1, <2>2 DEF Columns
  <2>4. Monitor(t)' = m /\ At(t, "save")'
    BY <2>1, <2>2 DEF Jumps, KeepsRoute, Monitor, At
  <2>5. ASSUME NEW u \in Thread, u # t
        PROVE  Monitor(u)' = Monitor(u) /\ (At(u, "save")' <=> At(u, "save"))
    BY <2>1, <2>5 DEF Jumps, Others, Monitor, At
  <2>6. ASSUME NEW n \in Class, NEW u \in monitor'[n]
        PROVE  At(u, "save")' /\ Monitor(u)' = n /\ \A v \in monitor'[n] : v = u
    <3>1. CASE n = m
      BY <2>3, <2>4, <2>6, <3>1
    <3>2. CASE n # m
      <4>1. u \in monitor[n] /\ monitor'[n] = monitor[n] /\ u \in Thread
        BY <1>2, <2>3, <2>6, <3>2, Threads
      <4>2. At(u, "save") /\ Monitor(u) = n /\ \A v \in monitor[n] : v = u
        BY <4>1 DEF Owners
      <4>3. u # t
        BY <2>1, <4>2 DEF At
      <4> QED
        BY <2>5, <4>1, <4>2, <4>3
    <3> QED
      BY <3>1, <3>2
  <2>7. ASSUME NEW u \in Gps \cup App, At(u, "save")'
        PROVE  u \in monitor'[Monitor(u)']
    <3>1. CASE u = t
      BY <2>3, <2>4, <3>1
    <3>2. CASE u # t
      <4>1. u \in Thread /\ At(u, "save") /\ Monitor(u)' = Monitor(u)
        BY <2>5, <2>7, <3>2, Threads
      <4>2. u \in monitor[Monitor(u)]
        BY <4>1 DEF Owners
      <4>3. Monitor(u) # m
        BY <2>3, <4>2
      <4> QED
        BY <1>1, <2>3, <4>1, <4>2, <4>3
    <3> QED
      BY <3>1, <3>2
  <2> QED
    BY <2>6, <2>7 DEF Owners
<1>4. ASSUME NEW t \in Thread, Enter(t), ~StillNone(t) PROVE Owners'
  <2>1. At(t, "open") /\ monitor' = monitor /\ (Jumps(t, "commit") \/ Rests(t))
    BY <1>4, OverFields DEF Enter
  <2>2. Others(t) /\ task'[t].pc # "save"
    BY <2>1, IdleTask DEF Jumps, Rests
  <2>3. Outside(t)
    BY <2>1, <2>2 DEF Outside, At
  <2> QED
    BY <2>3, OwnersKept DEF Steady
<1>5. ASSUME NEW t \in Thread, Save(t) PROVE Owners'
  <2>1. /\ At(t, "save") /\ Others(t) /\ task'[t].pc # "save"
        /\ monitor' = [monitor EXCEPT ![Monitor(t)] = {}]
    BY <1>5, SaveFields, IdleTask DEF Rests
  <2>2. PICK m : m = Monitor(t)
    OBVIOUS
  <2>3. /\ m \in Class /\ monitor'[m] = {}
        /\ \A n \in Class : n # m => monitor'[n] = monitor[n]
    BY <1>1, <2>1, <2>2 DEF Columns
  <2>4. t \in Gps \cup App /\ t \in monitor[m]
    BY <1>5, <2>1, <2>2, Enders DEF Owners, At, In, Ending
  <2>5. ASSUME NEW u \in Thread, u # t
        PROVE  Monitor(u)' = Monitor(u) /\ (At(u, "save")' <=> At(u, "save"))
    BY <2>1, <2>5 DEF Others, Monitor, At
  <2>6. ASSUME NEW n \in Class, NEW u \in monitor'[n]
        PROVE  At(u, "save")' /\ Monitor(u)' = n /\ \A v \in monitor'[n] : v = u
    <3>1. n # m /\ u \in monitor[n] /\ monitor'[n] = monitor[n] /\ u \in Thread
      BY <1>2, <2>3, <2>6, Threads
    <3>2. At(u, "save") /\ Monitor(u) = n /\ \A v \in monitor[n] : v = u
      BY <3>1 DEF Owners
    <3>3. u # t
      BY <2>2, <3>1, <3>2
    <3> QED
      BY <2>5, <3>1, <3>2, <3>3
  <2>7. ASSUME NEW u \in Gps \cup App, At(u, "save")'
        PROVE  u \in monitor'[Monitor(u)']
    <3>1. u # t /\ u \in Thread
      BY <2>1, <2>7, Threads DEF At
    <3>2. At(u, "save") /\ Monitor(u)' = Monitor(u) /\ u \in monitor[Monitor(u)]
      BY <2>5, <2>7, <3>1 DEF Owners
    <3>3. Monitor(u) # m
      BY <1>1, <2>4, <3>1, <3>2 DEF Owners
    <3> QED
      BY <1>1, <2>3, <3>2, <3>3
  <2> QED
    BY <2>6, <2>7 DEF Owners
<1>6. CASE ~Crash /\ ~ \E t \in Thread : Save(t) \/ Enter(t)
  BY <1>6, SteadySteps, OwnersKept
<1>7. CASE Crash
  <2>1. \A t \in Thread : task'[t].pc = "idle"
    BY <1>7, CrashFields, IdleTask
  <2>2. \A m \in Class : monitor'[m] = {}
    BY <1>7, CrashFields
  <2> QED
    BY <2>1, <2>2, Threads DEF Owners, At
<1> QED
  BY <1>3, <1>4, <1>5, <1>6, <1>7

-----------------------------------------------------------------------------
(* Tickets.                                                                *)

SameUse ==
  \A p \in Rider : /\ order'[p].r = order[p].r
                   /\ order'[p].status = "toUse" <=> order[p].status = "toUse"

LEMMA TicketsKept ==
  ASSUME Columns, Tickets, SameUse, NEW t \in Thread, Others(t), lost' = lost,
         t \in Rider => /\ At(t, "board")' => order[t].status = "toUse"
                        /\ In(t, {"row", "act"})' => order[t].r = task'[t].r
                        /\ t \in lost => At(t, "idle")',
         \A p \in task'[t].off : p \in Rider /\ order[p].status # "toUse"
  PROVE  Tickets'
<1>1. \A u \in Thread : \A p \in task[u].off : p \in Rider
  BY DEF Columns, TaskRow
<1>2. \A p \in Rider : order'[p].status = "toUse" <=> order'[p].r = NoRoute
  BY DEF Tickets, SameUse
<1>3. ASSUME NEW p \in Rider
      PROVE  /\ At(p, "board")' => order'[p].status = "toUse"
             /\ In(p, {"row", "act"})' => order'[p].r = task'[p].r
             /\ p \in lost => At(p, "idle")' /\ order'[p].status # "toUse"
  <2>1. CASE p = t
    BY <2>1 DEF SameUse, Tickets
  <2>2. CASE p # t
    <3>1. task'[p] = task[p]
      BY <2>2, Threads DEF Others
    <3> QED
      BY <3>1 DEF Tickets, SameUse, At, In
  <2> QED
    BY <2>1, <2>2
<1>4. ASSUME NEW u \in Thread, NEW p \in task'[u].off PROVE order'[p].status # "toUse"
  <2>1. CASE u = t
    BY <1>4, <2>1 DEF SameUse
  <2>2. CASE u # t
    BY <1>1, <1>4, <2>2 DEF Others, Tickets, SameUse
  <2> QED
    BY <2>1, <2>2
<1>5. lost \subseteq Rider
  BY DEF Columns
<1> QED
  BY <1>2, <1>3, <1>4, <1>5 DEF Tickets

\* The task that ends has nobody left to complete.
LEMMA TicketsAtRest ==
  ASSUME Columns, Tickets, SameUse, NEW t \in Thread, Rests(t), lost' = lost
  PROVE  Tickets'
BY TicketsKept, IdleTask DEF Rests, At, In

\* A task that goes on has the riders it had.
LEMMA TicketsOnTheWay ==
  ASSUME Columns, Tickets, SameUse, NEW t \in Thread, Others(t), lost' = lost,
         task'[t].off = task[t].off,
         t \notin Rider \/ (At(t, "row") /\ task'[t].pc = "act" /\ KeepsRoute(t))
  PROVE  Tickets'
<1>1. \A p \in task'[t].off : p \in Rider /\ order[p].status # "toUse"
  BY DEF Tickets, Columns, TaskRow
<1>2. t \in Rider => /\ At(t, "board")' => order[t].status = "toUse"
                     /\ In(t, {"row", "act"})' => order[t].r = task'[t].r
                     /\ t \in lost => At(t, "idle")'
  BY DEF Tickets, At, In, KeepsRoute
<1> QED
  BY <1>1, <1>2, TicketsKept

LEMMA CompletesUsed ==
  ASSUME Columns, NEW S, Completes(S), \A p \in S : p \in Rider => order[p].status # "toUse"
  PROVE  SameUse
BY DEF Completes, SameUse

LEMMA InitTickets == Init => Tickets
BY IdleTask, Threads DEF Init, Tickets, At, In

LEMMA NextTickets ==
  ASSUME Columns, Places, Tickets, Unborn, [Next]_vars
  PROVE  Tickets'
<1>1. ASSUME order' = order PROVE SameUse
  BY <1>1 DEF SameUse
<1>2. ASSUME NEW t \in Thread, ReadRow(t) PROVE Tickets'
  <2>1. /\ Others(t) /\ At(t, "row") /\ task'[t].pc = "act" /\ KeepsRoute(t) /\ KeepsWork(t)
        /\ SameUse /\ lost' = lost
    BY <1>1, <1>2, ReadRowFields DEF table
  <2> QED
    BY <2>1, TicketsOnTheWay DEF KeepsWork
<1>3. ASSUME NEW t \in Thread, Look(t) \/ Enter(t) PROVE Tickets'
  <2>1. t \notin Rider /\ lost' = lost
    BY <1>3, Enders DEF Look, Enter, At, In, Ending, history
  <2>2. Jumps(t, "open") \/ Jumps(t, "save") \/ Jumps(t, "commit") \/ Rests(t)
    BY <1>3, GotoFields, OverFields DEF Look, Enter, Pc
  <2>3. SameUse
    BY <1>1, <1>3 DEF Look, Enter, table
  <2> QED
    BY <2>1, <2>2, <2>3, TicketsOnTheWay, TicketsAtRest DEF Jumps, KeepsWork
<1>4. ASSUME NEW t \in Thread, Save(t) PROVE Tickets'
  <2>1. /\ SameUse /\ lost' = lost
        /\ (Others(t) /\ KeepsWork(t)) \/ Rests(t)
    BY <1>1, <1>4, SaveFields DEF history
  <2>2. t \notin Rider
    BY <1>4, Enders DEF Save, At, In, Ending
  <2> QED
    BY <2>1, <2>2, TicketsOnTheWay, TicketsAtRest DEF KeepsWork
<1>5. ASSUME NEW t \in Thread, Write(t) PROVE Tickets'
  <2>1. Completes(task[t].off) /\ Rests(t) /\ lost' = lost
    BY <1>5, WriteFields DEF history
  <2> QED
    BY <2>1, CompletesUsed, TicketsAtRest DEF Tickets
<1>6. ASSUME NEW t \in Gps \cup App, NEW r \in Route, BeginOn(t, r, "row") PROVE Tickets'
  <2>1. /\ Others(t) /\ task'[t].off = {} /\ SameUse /\ lost' = lost
        /\ t \in Thread /\ t \notin Rider
    BY <1>1, <1>6, BeginFields, Threads DEF table, history
  <2> QED
    BY <2>1, TicketsKept
<1>7. ASSUME NEW p \in Rider, Scan(p) PROVE Tickets'
  <2>1. PICK r \in Route : order[p].status = "toUse" /\ BeginOn(p, r, "board")
    BY <1>7 DEF Scan
  <2>2. /\ Others(p) /\ task'[p].off = {} /\ task'[p].pc = "board"
        /\ SameUse /\ lost' = lost /\ p \in Thread
    BY <1>1, <2>1, BeginFields, Threads DEF table, history
  <2>3. p \notin lost
    BY <2>1 DEF Tickets
  <2> QED
    BY <2>1, <2>2, <2>3, TicketsKept DEF At, In
<1>8. ASSUME NEW g \in Gps, Close(g) PROVE Tickets'
  <2>1. /\ Others(g) /\ task'[g].off = OnRoute(task[g].r) /\ SameUse
        /\ g \in Thread /\ g \notin Rider /\ lost' = lost
    BY <1>1, <1>8, CloseFields, Threads DEF table
  <2>2. \A p \in task'[g].off : p \in Rider /\ order[p].status # "toUse"
    BY <2>1 DEF OnRoute
  <2> QED
    BY <2>1, <2>2, TicketsKept
<1>9. ASSUME NEW g \in Gps, Observe(g) PROVE Tickets'
  <2>1. /\ Others(g) /\ SameUse /\ g \in Thread /\ g \notin Rider
        /\ \A p \in task'[g].off : p \in Rider /\ order[p].status = "riding"
        /\ lost' = lost
    BY <1>1, <1>9, ObserveFields, Threads DEF table, history
  <2> QED
    BY <2>1, TicketsKept
<1>10. ASSUME NEW g \in Gps, Commit(g) PROVE Tickets'
  <2>1. Completes(task[g].off) /\ Rests(g) /\ g \in Thread /\ lost' = lost
    BY <1>10, CommitFields, Threads
  <2> QED
    BY <2>1, CompletesUsed, TicketsAtRest DEF Tickets
<1>11. ASSUME NEW a \in App, Start(a) \/ CloseNow(a) PROVE Tickets'
  <2>1. a \in Thread /\ a \notin Rider /\ SameUse /\ lost' = lost
    BY <1>1, <1>11, Threads DEF Start, CloseNow, table
  <2>2. Jumps(a, "open") \/ Jumps(a, "leave")
    BY <1>11, <2>1, GotoFields DEF Start, CloseNow, Pc
  <2> QED
    BY <2>1, <2>2, TicketsOnTheWay DEF Jumps, KeepsWork
<1>12. ASSUME NEW a \in App, LeaveAll(a) PROVE Tickets'
  <2>1. a \in Thread /\ a \notin Rider /\ lost' = lost
    BY <1>12, Threads DEF LeaveAll
  <2>2. Jumps(a, "look") /\ Completes(OnRoute(task[a].r))
    BY <1>12, <2>1, GotoFields, RodeFields DEF LeaveAll, OnBoard, Pc
  <2>3. SameUse
    BY <2>2, CompletesUsed DEF OnRoute
  <2> QED
    BY <2>1, <2>2, <2>3, TicketsOnTheWay DEF Jumps, KeepsWork
<1>13. ASSUME NEW a \in App, ConfirmNext(a) PROVE Tickets'
  <2>1. /\ Others(a) /\ task'[a].off = task[a].off /\ SameUse /\ lost' = lost
        /\ a \in Thread /\ a \notin Rider
    BY <1>1, <1>13, ConfirmNextFields, Threads DEF table, history
  <2> QED
    BY <2>1, TicketsOnTheWay
<1>14. ASSUME NEW p \in Rider, Board(p) PROVE Tickets'
  <2>1. \A r \in Route : r # NoRoute
    BY PeakAssumption DEF Route, NoRoute
  <2>2. /\ At(p, "board") /\ task[p].r # NoRoute /\ Jumps(p, "row") /\ lost' = lost
        /\ order'[p].status = "riding" /\ order'[p].r = task[p].r
        /\ \A q \in Rider : q # p => order'[q] = order[q]
    BY <1>14, <2>1, BoardFields
  <2>3. \A q \in Rider : order'[q].status = "toUse" <=> order'[q].r = NoRoute
    BY <2>2 DEF Tickets
  <2>4. p \notin lost
    BY <2>2 DEF Tickets, At
  <2>5. ASSUME NEW q \in Rider
        PROVE  /\ At(q, "board")' => order'[q].status = "toUse"
               /\ In(q, {"row", "act"})' => order'[q].r = task'[q].r
               /\ q \in lost => At(q, "idle")' /\ order'[q].status # "toUse"
    <3>1. CASE q = p
      BY <2>2, <2>4, <3>1 DEF Jumps, KeepsRoute, At
    <3>2. CASE q # p
      <4>1. task'[q] = task[q] /\ order'[q] = order[q]
        BY <2>2, <3>2, Threads DEF Jumps, Others
      <4> QED
        BY <4>1 DEF Tickets, At, In
    <3> QED
      BY <3>1, <3>2
  <2>6. ASSUME NEW u \in Thread, NEW q \in task'[u].off PROVE order'[q].status # "toUse"
    <3>1. task'[u].off = task[u].off
      BY <2>2 DEF Jumps, Others, KeepsWork
    <3>2. q \in task[u].off /\ q \in Rider
      BY <2>6, <3>1 DEF Columns, TaskRow
    <3> QED
      BY <2>2, <3>2 DEF Tickets
  <2>7. lost \subseteq Rider
    BY DEF Columns
  <2> QED
    BY <2>2, <2>3, <2>5, <2>6, <2>7 DEF Tickets
<1>15. ASSUME NEW p \in Rider, Count(p) PROVE Tickets'
  <2>1. Rests(p) /\ SameUse /\ lost' = lost /\ p \in Thread
    BY <1>1, <1>15, CountFields, Threads DEF history
  <2> QED
    BY <2>1, TicketsAtRest
<1>16. CASE Crash
  <2>1. /\ \A t \in Thread : task'[t] = Idle
        /\ order' = order /\ lost' = lost \cup {p \in Rider : In(p, {"row", "act"})}
    BY <1>16, CrashFields DEF table
  <2>2. ASSUME NEW p \in Rider, In(p, {"row", "act"}) PROVE order[p].status # "toUse"
    <3>1. p \in Thread /\ p \notin App
      BY Threads
    <3>2. task[p].r # NoRoute
      BY <2>2, <3>1, OnARoute DEF At, In
    <3> QED
      BY <2>2, <3>2 DEF Tickets
  <2>3. lost \subseteq Rider
    BY DEF Columns
  <2> QED
    BY <2>1, <2>2, <2>3, Threads, IdleTask DEF Tickets, At, In
<1>17. ASSUME UNCHANGED <<task, order, lost>> PROVE Tickets'
  BY <1>17 DEF Tickets, At, In
<1>18. ASSUME \/ \E r \in Route : FinishRoute(r)
              \/ ResetRoute
              \/ \E w \in {"start", "renew"} : Shut(w)
              \/ UNCHANGED vars
       PROVE  Tickets'
  BY <1>17, <1>18 DEF FinishRoute, ResetRoute, Shut, vars, table, history
<1> QED
  BY <1>2, <1>3, <1>4, <1>5, <1>6, <1>7, <1>8, <1>9, <1>10, <1>11, <1>12, <1>13, <1>14,
     <1>15, <1>16, <1>18 DEF Next, Report, Confirm

-----------------------------------------------------------------------------
(* Routes: who saves one, and what becomes of them.                        *)

\* The reports that have saved a route are those who did before.
LEMMA UnbornKept ==
  ASSUME Unborn, NEW t \in Thread, Others(t), t \in Gps => task'[t].new = NoRoute,
         \A g \in Gps : g # t /\ task[g].new # NoRoute => route'[task[g].new] = "none"
  PROVE  Unborn'
<1> SUFFICES ASSUME NEW g \in Gps, task'[g].new # NoRoute
             PROVE  /\ At(g, "commit")' /\ route'[task'[g].new] = "none"
                    /\ \A h \in Gps : task'[h].new = task'[g].new => h = g
  BY DEF Unborn
<1>1. g # t /\ g \in Thread /\ task'[g] = task[g]
  BY Threads DEF Others
<1>2. ASSUME NEW h \in Gps, task'[h].new = task'[g].new PROVE h = g
  <2>1. h # t /\ task'[h] = task[h]
    BY <1>2, Threads DEF Others
  <2> QED
    BY <1>1, <1>2, <2>1 DEF Unborn
<1> QED
  BY <1>1, <1>2 DEF Unborn, At

\* A report that has saved none goes on, and no route changes.
LEMMA UnbornOnTheWay ==
  ASSUME Unborn, NEW t \in Thread, Others(t), KeepsNew(t) \/ task'[t].new = NoRoute,
         ~At(t, "commit"), route' = route
  PROVE  Unborn'
BY UnbornKept DEF Unborn, KeepsNew

LEMMA InitUnborn == Init => Unborn
BY IdleTask, Threads DEF Init, Unborn


LEMMA NextUnborn ==
  ASSUME Columns, Places, Unborn, [Next]_vars
  PROVE  Unborn'
<1>1. ASSUME NEW t \in Thread, ReadRow(t) PROVE Unborn'
  BY <1>1, ReadRowFields, UnbornOnTheWay DEF At, table
<1>2. ASSUME NEW t \in Thread, Look(t) \/ Enter(t) PROVE Unborn'
  <2>1. ~At(t, "commit") /\ route' = route
    BY <1>2 DEF Look, Enter, At, table
  <2>2. Jumps(t, "open") \/ Jumps(t, "save") \/ Jumps(t, "commit") \/ Rests(t)
    BY <1>2, GotoFields, OverFields DEF Look, Enter, Pc
  <2> QED
    BY <2>1, <2>2, UnbornOnTheWay, IdleTask DEF Jumps, Rests
<1>3. ASSUME NEW t \in Thread, Save(t) PROVE Unborn'
  <2>1. PICK n \in Route :
          /\ n # NoRoute /\ route[n] = "none" /\ \A g \in Gps : task[g].new # n
          /\ \/ /\ t \in Gps /\ route' = route
                /\ Others(t) /\ task'[t].pc = "commit" /\ task'[t].new = n
             \/ t \in App /\ route' = [route EXCEPT ![n] = "open"] /\ Rests(t)
    BY <1>3, SaveFields
  <2>2. CASE /\ t \in Gps /\ route' = route
             /\ Others(t) /\ task'[t].pc = "commit" /\ task'[t].new = n
    <3> SUFFICES ASSUME NEW g \in Gps, task'[g].new # NoRoute
                 PROVE  /\ At(g, "commit")' /\ route'[task'[g].new] = "none"
                        /\ \A h \in Gps : task'[h].new = task'[g].new => h = g
      BY DEF Unborn
    <3>1. \A h \in Gps : h # t => task'[h] = task[h]
      BY <2>2, Threads DEF Others
    <3>2. CASE g = t
      BY <2>1, <2>2, <3>1, <3>2 DEF At
    <3>3. CASE g # t
      <4>1. At(g, "commit") /\ route[task[g].new] = "none" /\ task'[g] = task[g]
        BY <3>1, <3>3 DEF Unborn
      <4>2. ASSUME NEW h \in Gps, task'[h].new = task'[g].new PROVE h = g
        <5>1. h # t
          BY <2>1, <2>2, <4>1, <4>2
        <5> QED
          BY <3>1, <4>1, <4>2, <5>1 DEF Unborn
      <4> QED
        BY <2>2, <4>1, <4>2 DEF At
    <3> QED
      BY <3>2, <3>3
  <2>3. CASE t \in App /\ route' = [route EXCEPT ![n] = "open"] /\ Rests(t)
    <3>1. \A g \in Gps : task[g].new # NoRoute => route'[task[g].new] = "none"
      BY <2>1, <2>3 DEF Unborn, Columns
    <3> QED
      BY <2>3, <3>1, UnbornKept, Threads DEF Rests
  <2> QED
    BY <2>1, <2>2, <2>3
<1>4. ASSUME NEW t \in Thread, Write(t) PROVE Unborn'
  BY <1>4, WriteFields, UnbornOnTheWay, IdleTask DEF Rests, At
<1>5. ASSUME NEW t \in Thread, NEW r \in Route, NEW pc \in {"row", "board"},
             BeginOn(t, r, pc)
      PROVE  Unborn'
  BY <1>5, BeginFields, UnbornOnTheWay DEF At, table
<1>6. ASSUME NEW g \in Gps, Close(g) PROVE Unborn'
  BY <1>6, CloseFields, UnbornOnTheWay, Threads DEF At, table
<1>7. ASSUME NEW g \in Gps, Observe(g) PROVE Unborn'
  BY <1>7, ObserveFields, UnbornOnTheWay, Threads DEF At, table
<1>8. ASSUME NEW g \in Gps, Commit(g) PROVE Unborn'
  <2>1. /\ task[g].r \in Route /\ Rests(g) /\ g \in Thread
        /\ \A q \in Route : route'[q] = IF q = task[g].r THEN "closed"
                                        ELSE IF q = task[g].new THEN "open" ELSE route[q]
    BY <1>8, CommitFields, Threads
  <2>2. task[g].r # NoRoute
    BY <1>8, <2>1, OnARoute, Threads DEF Commit, At
  <2>3. route[task[g].r] # "none"
    BY <2>1, <2>2 DEF Places, Place
  <2>4. ASSUME NEW h \in Gps, h # g, task[h].new # NoRoute
        PROVE  route'[task[h].new] = "none"
    <3>1. route[task[h].new] = "none" /\ task[h].new # task[g].new
      BY <2>4 DEF Unborn
    <3>2. task[h].new \in Route
      <4>1. task[h].new \in RouteId
        BY <2>4, Threads DEF Columns, TaskRow
      <4> QED
        BY <2>4, <4>1, PeakAssumption DEF RouteId, Route, NoRoute
    <3> QED
      BY <2>1, <2>3, <3>1, <3>2
  <2> QED
    BY <2>1, <2>4, UnbornKept, IdleTask DEF Rests
<1>9. ASSUME NEW a \in App, Start(a) \/ LeaveAll(a) PROVE Unborn'
  <2>1. a \in Thread /\ ~At(a, "commit") /\ route' = route
    BY <1>9, Threads DEF Start, LeaveAll, At, table
  <2>2. Jumps(a, "open") \/ Jumps(a, "look")
    BY <1>9, <2>1, GotoFields DEF Start, LeaveAll, Pc
  <2> QED
    BY <2>1, <2>2, UnbornOnTheWay DEF Jumps
<1>10. ASSUME NEW a \in App, CloseNow(a) PROVE Unborn'
  <2>1. a \in Thread /\ a \notin Gps /\ task[a].r \in Route /\ task[a].r # NoRoute
    BY <1>10, Threads, OnARoute DEF CloseNow, At, In
  <2>2. Jumps(a, "leave")
    BY <1>10, <2>1, GotoFields DEF CloseNow, Pc
  <2>3. route[task[a].r] # "none"
    BY <2>1 DEF Places, Place
  <2>4. route' = [route EXCEPT ![task[a].r] = "closed"]
    BY <1>10 DEF CloseNow
  <2>5. \A g \in Gps : task[g].new # NoRoute => route'[task[g].new] = "none"
    BY <2>3, <2>4 DEF Unborn, Columns
  <2> QED
    BY <2>1, <2>2, <2>5, UnbornKept DEF Jumps
<1>11. ASSUME NEW a \in App, ConfirmNext(a) PROVE Unborn'
  BY <1>11, ConfirmNextFields, UnbornOnTheWay, Threads DEF At, table
<1>12. ASSUME NEW p \in Rider, Board(p) PROVE Unborn'
  BY <1>12, BoardFields, UnbornOnTheWay, Threads DEF Jumps, At
<1>18. ASSUME NEW p \in Rider, Count(p) PROVE Unborn'
  BY <1>18, CountFields, UnbornOnTheWay, Threads, IdleTask DEF Rests, At
<1>19. CASE Crash
  BY <1>19, CrashFields, IdleTask, Threads DEF Unborn
<1>13. ASSUME task' = task, \A q \in Route : route[q] = "none" => route'[q] = "none"
       PROVE  Unborn'
  <2>1. ASSUME NEW g \in Gps, task[g].new # NoRoute PROVE task[g].new \in Route
    <3>1. task[g].new \in RouteId
      BY Threads DEF Columns, TaskRow
    <3> QED
      BY <2>1, <3>1, PeakAssumption DEF RouteId, Route, NoRoute
  <2> QED
    BY <1>13, <2>1 DEF Unborn, At
<1>14. ASSUME NEW r \in Route, FinishRoute(r) PROVE Unborn'
  BY <1>13, <1>14 DEF FinishRoute, Columns, Open
<1>15. CASE ResetRoute
  BY <1>13, <1>15 DEF ResetRoute, Columns, Open
<1>16. ASSUME NEW w \in {"start", "renew"}, Shut(w) PROVE Unborn'
  BY <1>13, <1>16 DEF Shut, table
<1>17. CASE UNCHANGED vars
  BY <1>13, <1>17 DEF vars, table
<1> QED
  BY <1>1, <1>2, <1>3, <1>4, <1>5, <1>6, <1>7, <1>8, <1>9, <1>10, <1>11, <1>12,
     <1>14, <1>15, <1>16, <1>17, <1>18, <1>19, Threads DEF Next, Report, Confirm, Scan

\* An open route may close, one of none may open, and that is all.
Onward(q) ==
  \/ route'[q] = route[q]
  \/ route[q] = "open" /\ route'[q] = "closed"
  \/ route[q] = "none" /\ route'[q] = "open"

LEMMA RouteMoves ==
  ASSUME Columns, Places, Unborn, [Next]_vars
  PROVE  \A q \in Route : Onward(q)
<1>1. ASSUME route' = route PROVE \A q \in Route : Onward(q)
  BY <1>1 DEF Onward
<1>2. ASSUME NEW t \in Thread, ReadRow(t) \/ Look(t) \/ Enter(t) \/ Write(t)
      PROVE  \A q \in Route : Onward(q)
  BY <1>1, <1>2 DEF ReadRow, Look, Enter, Write, table
<1>3. ASSUME NEW t \in Thread, Save(t) PROVE \A q \in Route : Onward(q)
  <2>1. PICK n \in Route : /\ route[n] = "none"
                           /\ route' = route \/ route' = [route EXCEPT ![n] = "open"]
    BY <1>3, SaveFields
  <2> QED
    BY <2>1 DEF Onward, Columns
<1>4. ASSUME NEW t \in Thread, NEW r \in Route, NEW pc \in {"row", "board"},
             BeginOn(t, r, pc)
      PROVE  \A q \in Route : Onward(q)
  BY <1>1, <1>4 DEF BeginOn, table
<1>5. ASSUME NEW g \in Gps, Close(g) \/ Observe(g) PROVE \A q \in Route : Onward(q)
  BY <1>1, <1>5 DEF Close, Observe, table
<1>6. ASSUME NEW g \in Gps, Commit(g) PROVE \A q \in Route : Onward(q)
  <2>1. /\ task[g].r \in Route
        /\ \A q \in Route : route'[q] = IF q = task[g].r THEN "closed"
                                        ELSE IF q = task[g].new THEN "open" ELSE route[q]
    BY <1>6, CommitFields
  <2>2. task[g].r # NoRoute
    BY <1>6, OnARoute, Threads DEF Commit, At
  <2>3. route[task[g].r] \in {"open", "closed"}
    BY <2>1, <2>2, Threads DEF Places, Place, Columns
  <2>4. \A q \in Route : q = task[g].new => route[q] = "none"
    BY PeakAssumption DEF Unborn, Route, NoRoute
  <2> QED
    BY <2>1, <2>3, <2>4 DEF Onward
<1>7. ASSUME NEW a \in App, Start(a) \/ LeaveAll(a) \/ ConfirmNext(a)
      PROVE  \A q \in Route : Onward(q)
  BY <1>1, <1>7 DEF Start, LeaveAll, ConfirmNext, table
<1>8. ASSUME NEW a \in App, CloseNow(a) PROVE \A q \in Route : Onward(q)
  <2>1. task[a].r \in Route /\ task[a].r # NoRoute
    BY <1>8, OnARoute, Threads DEF CloseNow, At, In
  <2>2. route[task[a].r] \in {"open", "closed"}
    BY <2>1, Threads DEF Places, Place, Columns
  <2> QED
    BY <1>8, <2>2 DEF CloseNow, Onward, Columns
<1>9. ASSUME NEW p \in Rider, Board(p) \/ Count(p) PROVE \A q \in Route : Onward(q)
  BY <1>1, <1>9 DEF Board, Count
<1>14. CASE Crash
  BY <1>1, <1>14 DEF Crash, table
<1>10. ASSUME NEW r \in Route, FinishRoute(r) PROVE \A q \in Route : Onward(q)
  BY <1>10 DEF FinishRoute, Onward, Open, Columns
<1>11. CASE ResetRoute
  BY <1>11 DEF ResetRoute, Onward, Open
<1>12. ASSUME NEW w \in {"start", "renew"}, Shut(w) PROVE \A q \in Route : Onward(q)
  BY <1>1, <1>12 DEF Shut, table
<1>13. CASE UNCHANGED vars
  BY <1>1, <1>13 DEF vars, table
<1> QED
  BY <1>2, <1>3, <1>4, <1>5, <1>6, <1>7, <1>8, <1>9, <1>10, <1>11, <1>12, <1>13, <1>14, Threads
     DEF Next, Report, Confirm, Scan

-----------------------------------------------------------------------------
(* Who ends a route.                                                       *)


LEMMA AppClosedKept ==
  ASSUME Columns, Places, Unborn, AppClosed, [Next]_vars, NEW t \in Thread, Others(t),
         t \in App /\ Renews(t)' => \/ Renews(t) /\ KeepsRoute(t)
                                    \/ route'[task'[t].r] = "closed"
  PROVE  AppClosed'
<1>1. \A q \in Route : Onward(q)
  BY RouteMoves
<1>2. ASSUME NEW a \in App, Renews(a) PROVE route'[task[a].r] = "closed"
  <2>1. task[a].r \in Route
    <3>1. task[a].r \in RouteId /\ task[a].r # NoRoute
      BY <1>2, Threads DEF Columns, TaskRow, Renews
    <3> QED
      BY <3>1, PeakAssumption DEF RouteId, Route, NoRoute
  <2>2. route[task[a].r] = "closed"
    BY <1>2 DEF AppClosed
  <2> QED
    BY <1>1, <2>1, <2>2 DEF Onward
<1>3. ASSUME NEW a \in App, Renews(a)' PROVE route'[task'[a].r] = "closed"
  <2>1. CASE a = t
    BY <1>2, <1>3, <2>1 DEF KeepsRoute
  <2>2. CASE a # t
    <3>1. task'[a] = task[a]
      BY <2>2, Threads DEF Others
    <3>2. Renews(a)
      BY <1>3, <3>1 DEF Renews, In
    <3> QED
      BY <1>2, <3>1, <3>2
  <2> QED
    BY <2>1, <2>2
<1> QED
  BY <1>3 DEF AppClosed

LEMMA InitAppClosed == Init => AppClosed
BY IdleTask, Threads DEF Init, AppClosed, Renews

LEMMA NextAppClosed ==
  ASSUME Columns, Places, Unborn, AppClosed, [Next]_vars
  PROVE  AppClosed'
<1>1. ASSUME NEW t \in Thread, Others(t), 
             t \in App => task'[t].pc \in {"idle", "board", "row", "act", "write"}
      PROVE  AppClosed'
  <2>1. t \in App => ~Renews(t)'
    BY <1>1 DEF Renews, In, Ending
  <2> QED
    BY <1>1, <2>1, AppClosedKept
<1>2. ASSUME NEW t \in Thread, Rests(t) PROVE AppClosed'
  BY <1>1, <1>2, IdleTask DEF Rests
<1>3. ASSUME NEW t \in Thread, ReadRow(t) PROVE AppClosed'
  BY <1>1, <1>3, ReadRowFields
<1>4. ASSUME NEW t \in Thread, Look(t) \/ Enter(t) PROVE AppClosed'
  <2>1. Jumps(t, "open") \/ Jumps(t, "save") \/ (t \in Gps /\ Jumps(t, "commit")) \/ Rests(t)
    BY <1>4, GotoFields, OverFields DEF Look, Enter, Pc
  <2>2. In(t, Ending)
    BY <1>4 DEF Look, Enter, In, At, Ending
  <2>3. Others(t) => (t \in App /\ Renews(t)' /\ KeepsRoute(t) => Renews(t))
    BY <2>2 DEF Renews, In, KeepsRoute
  <2> QED
    BY <1>2, <2>1, <2>3, AppClosedKept DEF Jumps
<1>5. ASSUME NEW t \in Thread, Save(t) PROVE AppClosed'
  <2>1. (t \in Gps /\ Others(t)) \/ Rests(t)
    BY <1>5, SaveFields
  <2> QED
    BY <1>1, <1>2, <2>1, Threads
<1>6. ASSUME NEW t \in Thread, Write(t) PROVE AppClosed'
  BY <1>2, <1>6, WriteFields
<1>7. ASSUME NEW t \in Thread, NEW r \in Route, NEW pc \in {"row", "board"},
             BeginOn(t, r, pc)
      PROVE  AppClosed'
  BY <1>1, <1>7, BeginFields
<1>8. ASSUME NEW g \in Gps, Close(g) PROVE AppClosed'
  BY <1>1, <1>8, CloseFields, Threads
<1>9. ASSUME NEW g \in Gps, Observe(g) PROVE AppClosed'
  BY <1>1, <1>9, ObserveFields, Threads
<1>10. ASSUME NEW g \in Gps, Commit(g) PROVE AppClosed'
  BY <1>2, <1>10, CommitFields, Threads
<1>11. ASSUME NEW a \in App, Start(a) PROVE AppClosed'
  <2>1. a \in Thread /\ task[a] = Idle
    BY <1>11, Threads DEF Start, Places, Place
  <2>2. Jumps(a, "open")
    BY <1>11, <2>1, GotoFields DEF Start, Pc
  <2>3. ~Renews(a)'
    BY <2>1, <2>2, IdleTask DEF Renews, Jumps, KeepsRoute
  <2> QED
    BY <2>1, <2>2, <2>3, AppClosedKept DEF Jumps
<1>12. ASSUME NEW a \in App, CloseNow(a) PROVE AppClosed'
  <2>1. a \in Thread /\ task[a].r \in Route
    BY <1>12, Threads, OnARoute DEF CloseNow, At, In
  <2>2. Jumps(a, "leave")
    BY <1>12, <2>1, GotoFields DEF CloseNow, Pc
  <2>3. route'[task'[a].r] = "closed"
    BY <1>12, <2>1, <2>2 DEF CloseNow, Columns, Jumps, KeepsRoute
  <2> QED
    BY <2>1, <2>2, <2>3, AppClosedKept DEF Jumps
<1>13. ASSUME NEW a \in App, LeaveAll(a) PROVE AppClosed'
  <2>1. a \in Thread /\ At(a, "leave")
    BY <1>13, Threads DEF LeaveAll
  <2>2. Jumps(a, "look")
    BY <1>13, <2>1, GotoFields DEF LeaveAll, Pc
  <2>3. Renews(a)' => Renews(a)
    BY <2>1, <2>2 DEF Renews, In, At, Jumps, KeepsRoute
  <2> QED
    BY <2>1, <2>2, <2>3, AppClosedKept DEF Jumps
<1>14. ASSUME NEW a \in App, ConfirmNext(a) PROVE AppClosed'
  BY <1>1, <1>14, ConfirmNextFields, Threads
<1>15. ASSUME NEW p \in Rider, Board(p) PROVE AppClosed'
  BY <1>1, <1>15, BoardFields, Threads DEF Jumps
<1>18. ASSUME NEW p \in Rider, Count(p) PROVE AppClosed'
  BY <1>2, <1>18, CountFields, Threads
<1>19. CASE Crash
  BY <1>19, CrashFields, IdleTask, Threads DEF AppClosed, Renews
<1>16. ASSUME task' = task PROVE AppClosed'
  <2>1. CASE Thread = {}
    BY <2>1, Threads DEF AppClosed
  <2>2. CASE Thread # {}
    <3>1. PICK t \in Thread : TRUE
      BY <2>2
    <3>2. Renews(t)' => Renews(t)
      BY <1>16 DEF Renews, In
    <3> QED
      BY <1>16, <3>1, <3>2, AppClosedKept DEF Others, KeepsRoute
  <2> QED
    BY <2>1, <2>2
<1>17. ASSUME \/ \E r \in Route : FinishRoute(r)
              \/ ResetRoute
              \/ \E w \in {"start", "renew"} : Shut(w)
              \/ UNCHANGED vars
       PROVE  AppClosed'
  BY <1>16, <1>17 DEF FinishRoute, ResetRoute, Shut, vars
<1> QED
  BY <1>3, <1>4, <1>5, <1>6, <1>7, <1>8, <1>9, <1>10, <1>11, <1>12, <1>13, <1>14,
     <1>15, <1>17, <1>18, <1>19, Threads DEF Next, Report, Confirm, Scan

-----------------------------------------------------------------------------
(* Who rides on a route that ended, or is about to.                        *)

LEMMA RidesOn ==
  ASSUME NEW k \in Ticket, NEW r
  PROVE  k = [status |-> "riding", r |-> r] <=> k.status = "riding" /\ k.r = r
BY DEF Ticket

NobodyNew ==
  \A p \in Rider : /\ order'[p].r = order[p].r
                   /\ order'[p].status = "riding" => order[p].status = "riding"

LEMMA EndedKept ==
  ASSUME Columns, Columns', Places, Unborn, EndedOK, [Next]_vars,
         NEW t \in Thread, Others(t), NobodyNew, late' = late,
         \A r \in ended' \ ended :
           /\ route'[r] = "closed"
           /\ \A p \in Rider : order'[p].r = r /\ order'[p].status = "riding" => p \in late,
         t \in Gps /\ EndsRoute(t)' => OnRoute(task'[t].r) \subseteq task'[t].off \cup late
  PROVE  EndedOK'
<1>1. ASSUME NEW r \in ended' PROVE route'[r] = "closed"
  <2>1. CASE r \in ended
    BY <2>1, RouteMoves DEF EndedOK, Onward, Columns
  <2> QED
    BY <1>1, <2>1
<1>2. ASSUME NEW p \in Rider, order'[p].r \in ended', order'[p].status = "riding"
      PROVE  p \in late
  BY <1>2 DEF NobodyNew, EndedOK, EndEmptiesRoute
<1>3. ASSUME NEW g \in Gps, EndsRoute(g)'
      PROVE  OnRoute(task[g].r)' \subseteq task'[g].off \cup late
  <2>1. OnRoute(task'[g].r) \subseteq task'[g].off \cup late
    <3>1. CASE g = t
      BY <1>3, <3>1
    <3>2. CASE g # t
      <4>1. task'[g] = task[g]
        BY <3>2, Threads DEF Others
      <4>2. EndsRoute(g)
        BY <1>3, <4>1 DEF EndsRoute, In
      <4> QED
        BY <4>1, <4>2 DEF EndedOK
    <3> QED
      BY <3>1, <3>2
  <2>2. ASSUME NEW p \in OnRoute(task[g].r)' PROVE p \in OnRoute(task'[g].r)
    <3>1. p \in Rider /\ order[p] \in Ticket /\ order'[p] \in Ticket
      BY DEF OnRoute, Columns
    <3>2. order'[p].status = "riding" /\ order'[p].r = task'[g].r
      BY <3>1, RidesOn DEF OnRoute
    <3>3. order[p].status = "riding" /\ order[p].r = task'[g].r
      BY <3>1, <3>2 DEF NobodyNew
    <3> QED
      BY <3>1, <3>3, RidesOn DEF OnRoute
  <2> QED
    BY <2>1, <2>2
<1> QED
  BY <1>1, <1>2, <1>3 DEF EndedOK, EndEmptiesRoute

\* A task that goes on with its route and its list, or does not end one.
LEMMA EndedOnTheWay ==
  ASSUME Columns, Columns', Places, Unborn, EndedOK, [Next]_vars,
         NEW t \in Thread, Others(t), NobodyNew, late' = late, ended' = ended,
         \/ t \notin Gps
         \/ task'[t].pc \notin Ending
         \/ In(t, Ending) /\ KeepsRoute(t) /\ KeepsWork(t)
  PROVE  EndedOK'
<1>1. t \in Gps /\ EndsRoute(t)' => OnRoute(task'[t].r) \subseteq task'[t].off \cup late
  BY DEF EndedOK, EndsRoute, In, KeepsRoute, KeepsWork
<1> QED
  BY <1>1, EndedKept

LEMMA InitEnded == Init => EndedOK
BY IdleTask, Threads DEF Init, EndedOK, EndEmptiesRoute, EndsRoute, In, Ending

LEMMA NextEnded ==
  ASSUME Columns, Columns', Places, Tickets, Unborn, AppClosed, EndedOK, [Next]_vars
  PROVE  EndedOK'
<1>1. ASSUME order' = order PROVE NobodyNew
  BY <1>1 DEF NobodyNew
<1>2. ASSUME NEW S, Completes(S) PROVE NobodyNew
  BY <1>2 DEF Completes, NobodyNew
<1>3. ASSUME NEW t \in Thread, Others(t), 
             task'[t].pc \in {"idle", "board", "row", "act", "leave", "write"},
             NobodyNew, late' = late, ended' = ended
      PROVE  EndedOK'
  BY <1>3, EndedOnTheWay DEF Ending
<1>4. ASSUME NEW t \in Thread, ReadRow(t) PROVE EndedOK'
  BY <1>1, <1>3, <1>4, ReadRowFields DEF table
<1>5. ASSUME NEW t \in Thread, Look(t) \/ Enter(t) PROVE EndedOK'
  <2>1. Jumps(t, "open") \/ Jumps(t, "save") \/ Jumps(t, "commit") \/ Rests(t)
    BY <1>5, GotoFields, OverFields DEF Look, Enter, Pc
  <2>2. In(t, Ending) /\ NobodyNew /\ late' = late /\ ended' = ended
    BY <1>1, <1>5 DEF Look, Enter, In, At, Ending, table, history
  <2> QED
    BY <1>3, <2>1, <2>2, EndedOnTheWay, IdleTask DEF Jumps, Rests
<1>6. ASSUME NEW t \in Thread, Save(t) PROVE EndedOK'
  <2>1. \/ Others(t) /\ KeepsRoute(t) /\ KeepsWork(t)
        \/ Rests(t)
    BY <1>6, SaveFields
  <2>2. In(t, Ending) /\ NobodyNew /\ late' = late /\ ended' = ended
    BY <1>1, <1>6 DEF Save, In, At, Ending, history
  <2> QED
    BY <1>3, <2>1, <2>2, EndedOnTheWay, IdleTask DEF Rests
<1>7. ASSUME NEW t \in Thread, Write(t) PROVE EndedOK'
  BY <1>2, <1>3, <1>7, WriteFields, IdleTask DEF Rests, history
<1>8. ASSUME NEW t \in Thread, NEW r \in Route, NEW pc \in {"row", "board"},
             BeginOn(t, r, pc)
      PROVE  EndedOK'
  BY <1>1, <1>3, <1>8, BeginFields DEF table, history
<1>9. ASSUME NEW g \in Gps, Close(g) PROVE EndedOK'
  <2>1. /\ Others(g) /\ KeepsRoute(g) /\ task'[g].off = OnRoute(task[g].r) /\ g \in Thread
        /\ NobodyNew /\ late' = late /\ ended' = ended
    BY <1>1, <1>9, CloseFields, Threads DEF table
  <2> QED
    BY <2>1, EndedKept DEF KeepsRoute
<1>10. ASSUME NEW g \in Gps, Observe(g) PROVE EndedOK'
  BY <1>1, <1>3, <1>10, ObserveFields, Threads DEF table, history
<1>11. ASSUME NEW g \in Gps, Commit(g) PROVE EndedOK'
  <2>1. /\ At(g, "commit") /\ task[g].r \in Route /\ g \in Thread /\ late' = late
        /\ \A q \in Route : route'[q] = IF q = task[g].r THEN "closed"
                                        ELSE IF q = task[g].new THEN "open" ELSE route[q]
        /\ Completes(task[g].off) /\ Rests(g) /\ ended' = ended \cup {task[g].r}
    BY <1>11, CommitFields, Threads
  <2>2. EndsRoute(g)
    BY <2>1, OnARoute DEF EndsRoute, At, In, Ending
  <2>3. ASSUME NEW p \in Rider, order'[p].r = task[g].r, order'[p].status = "riding"
        PROVE  p \in late
    <3>1. p \notin task[g].off /\ order[p].r = task[g].r /\ order[p].status = "riding"
      BY <2>1, <2>3 DEF Completes
    <3>2. p \in OnRoute(task[g].r)
      BY <3>1, RidesOn DEF OnRoute, Columns
    <3> QED
      BY <2>2, <3>1, <3>2 DEF EndedOK
  <2>4. ~EndsRoute(g)'
    BY <2>1, IdleTask DEF Rests, EndsRoute, In, Ending
  <2> QED
    BY <1>2, <2>1, <2>3, <2>4, EndedKept DEF Rests
<1>12. ASSUME NEW a \in App, Start(a) \/ CloseNow(a) PROVE EndedOK'
  <2>1. a \in Thread /\ a \notin Gps
    BY Threads
  <2>2. Others(a)
    BY <1>12, <2>1, GotoFields DEF Start, CloseNow, Pc, Jumps
  <2> QED
    BY <1>1, <1>12, <2>1, <2>2, EndedOnTheWay DEF Start, CloseNow, table
<1>13. ASSUME NEW a \in App, LeaveAll(a) PROVE EndedOK'
  <2>1. a \in Thread /\ a \notin Gps /\ late' = late /\ ended' = ended \cup {task[a].r}
    BY <1>13, Threads DEF LeaveAll
  <2>2. Others(a) /\ Completes(OnRoute(task[a].r)) /\ task[a].r # NoRoute /\ route' = route
    BY <1>13, <2>1, GotoFields, RodeFields, OnARoute
       DEF LeaveAll, OnBoard, Pc, Jumps, At, In
  <2>3. route[task[a].r] = "closed"
    BY <1>13, <2>2 DEF AppClosed, Renews, LeaveAll, At, In
  <2>4. ASSUME NEW p \in Rider, order'[p].r = task[a].r, order'[p].status = "riding"
        PROVE  p \in late
    <3>1. p \notin OnRoute(task[a].r) /\ order[p].r = task[a].r /\ order[p].status = "riding"
      BY <2>2, <2>4 DEF Completes
    <3> QED
      BY <3>1, RidesOn DEF OnRoute, Columns
  <2> QED
    BY <1>2, <2>1, <2>2, <2>3, <2>4, EndedKept
<1>14. ASSUME NEW a \in App, ConfirmNext(a) PROVE EndedOK'
  BY <1>1, <1>3, <1>14, ConfirmNextFields, Threads DEF table, history
<1>15. ASSUME NEW p \in Rider, Board(p) PROVE EndedOK'
  <2>1. /\ task[p].r \in Route /\ p \in Thread /\ p \notin Gps
        /\ order'[p].r = task[p].r /\ \A q \in Rider : q # p => order'[q] = order[q]
        /\ late' = IF Locked(task[p].r) \/ route[task[p].r] # "open" THEN late \cup {p} ELSE late
        /\ Jumps(p, "row") /\ route' = route /\ ended' = ended
    BY <1>15, BoardFields, Threads
  <2>2. \A r \in ended' : route'[r] = "closed"
    BY <2>1 DEF EndedOK
  <2>3. late \subseteq late'
    BY <2>1
  <2>4. ASSUME NEW q \in Rider, order'[q].r \in ended', order'[q].status = "riding"
        PROVE  q \in late'
    <3>1. CASE q = p
      BY <2>1, <2>4, <3>1 DEF EndedOK
    <3>2. CASE q # p
      BY <2>1, <2>3, <2>4, <3>2 DEF EndedOK, EndEmptiesRoute
    <3> QED
      BY <3>1, <3>2
  <2>5. ASSUME NEW g \in Gps, EndsRoute(g)', NEW q \in OnRoute(task[g].r)'
        PROVE  q \in task'[g].off \cup late'
    <3>1. task'[g] = task[g] /\ EndsRoute(g)
      BY <2>1, <2>5, Threads DEF Jumps, Others, EndsRoute, In
    <3>2. q \in Rider
      BY <2>5 DEF OnRoute
    <3>3. CASE q = p
      <4>1. task[g].r = task[p].r
        BY <2>1, <2>5, <3>1, <3>3, RidesOn DEF OnRoute, Columns
      <4> QED
        BY <2>1, <3>1, <3>3, <4>1 DEF Locked
    <3>4. CASE q # p
      <4>1. q \in OnRoute(task[g].r)
        BY <2>1, <2>5, <3>1, <3>2, <3>4 DEF OnRoute
      <4> QED
        BY <2>3, <3>1, <4>1 DEF EndedOK
    <3> QED
      BY <3>3, <3>4
  <2> QED
    BY <2>2, <2>4, <2>5 DEF EndedOK, EndEmptiesRoute
<1>18. ASSUME NEW p \in Rider, Count(p) PROVE EndedOK'
  BY <1>1, <1>3, <1>18, CountFields, Threads, IdleTask DEF Rests, history
<1>19. CASE Crash
  <2>1. \A r \in ended' : route'[r] = "closed"
    BY <1>19, CrashFields DEF EndedOK, table
  <2>2. \A g \in Gps : ~EndsRoute(g)'
    BY <1>19, CrashFields, IdleTask, Threads DEF EndsRoute, In, Ending
  <2> QED
    BY <1>19, <2>1, <2>2, CrashFields DEF EndedOK, EndEmptiesRoute, table
<1>16. ASSUME UNCHANGED <<task, order, ended, late>> PROVE EndedOK'
  <2>1. \A r \in ended' : route'[r] = "closed"
    BY <1>16, RouteMoves DEF EndedOK, Onward, Columns
  <2> QED
    BY <1>16, <2>1 DEF EndedOK, EndEmptiesRoute, EndsRoute, In, OnRoute
<1>17. ASSUME \/ \E r \in Route : FinishRoute(r)
              \/ ResetRoute
              \/ \E w \in {"start", "renew"} : Shut(w)
              \/ UNCHANGED vars
       PROVE  EndedOK'
  BY <1>16, <1>17 DEF FinishRoute, ResetRoute, Shut, vars, table, history
<1> QED
  BY <1>4, <1>5, <1>6, <1>7, <1>8, <1>9, <1>10, <1>11, <1>12, <1>13, <1>14,
     <1>15, <1>17, <1>18, <1>19, Threads DEF Next, Report, Confirm, Scan

-----------------------------------------------------------------------------
(* One route is open, as long as nobody crossed a renewal.                 *)

LEMMA OpensSoon ==
  ASSUME Unborn, NEW t \in Gps \cup App, WillOpen(t)
  PROVE  t \in Opening /\ In(t, Ending)
BY DEF Unborn, WillOpen, Opening, In, At, Ending

\* Who opens a route is known by its row alone.
LEMMA SameOpener ==
  ASSUME NEW t, task'[t] = task[t]
  PROVE  /\ WillOpen(t)' <=> WillOpen(t)
         /\ EndsRoute(t)' <=> EndsRoute(t)
         /\ t \in Opening' <=> t \in Opening
BY DEF WillOpen, EndsRoute, Opening, At, In

\* Fewer tasks open routes, and fewer are open.
LEMMA OneKept ==
  ASSUME Unborn, One, NEW t \in Thread, Others(t), crossed => crossed', Open' \subseteq Open,
         t \in Opening' => t \in Opening /\ KeepsRoute(t),
         t \in Gps \cup App /\ WillOpen(t)' =>
           /\ In(t, Ending)' /\ KeepsRoute(t)
           /\ ~crossed => Seen(t) = {}
  PROVE  One'
<1> SUFFICES ASSUME ~crossed'
             PROVE  /\ Alone'
                    /\ \A u \in Gps \cup App : WillOpen(u)' => Seen(u)' = {}
                    /\ \A r, s \in Open' : r = s
  BY DEF One
<1>1. Alone /\ \A r, s \in Open : r = s
  BY DEF One
<1>2. ASSUME NEW u \in Opening' PROVE u \in Opening /\ task'[u].r = task[u].r
  <2>1. u = t \/ task'[u] = task[u]
    BY Threads DEF Opening, Others
  <2> QED
    BY <2>1, SameOpener DEF KeepsRoute
<1>3. Alone'
  <2> SUFFICES ASSUME NEW u \in Opening', task'[u].r # NoRoute, NEW v \in Opening'
               PROVE  v = u
    BY DEF Alone
  <2> QED
    BY <1>1, <1>2 DEF Alone
<1>4. ASSUME NEW u \in Gps \cup App, WillOpen(u)' PROVE Seen(u)' = {}
  <2>1. In(u, Ending)' /\ task'[u].r = task[u].r /\ Seen(u) = {}
    <3>1. CASE u = t
      BY <1>4, <3>1 DEF KeepsRoute
    <3>2. CASE u # t
      <4>1. task'[u] = task[u]
        BY <3>2, Threads DEF Others
      <4> QED
        BY <1>4, <4>1, SameOpener, OpensSoon DEF One, In
    <3> QED
      BY <3>1, <3>2
  <2>2. EndsRoute(u) => EndsRoute(u)'
    BY <2>1 DEF EndsRoute, In
  <2> QED
    BY <2>1, <2>2 DEF Seen
<1> QED
  BY <1>1, <1>3, <1>4

\* Who works alone opens none at once.
LEMMA OneAlone ==
  ASSUME NEW t, Opening' \subseteq {t},
         \A u \in Gps \cup App : ~WillOpen(u)',
         \A r, s \in Open' : r = s
  PROVE  One'
BY DEF One, Alone

\* Tasks that are not about to open a route.
LEMMA OneElsewhere ==
  ASSUME Unborn, One, NEW t \in Thread, Others(t), crossed => crossed', Open' \subseteq Open,
         task'[t].pc \in {"idle", "board", "row", "act", "write"},
         t \in Gps => task'[t].new = NoRoute
  PROVE  One'
<1>1. t \notin Opening' /\ ~(t \in Gps \cup App /\ WillOpen(t)')
  BY Threads DEF Opening, In, Ending, WillOpen, At
<1> QED
  BY <1>1, OneKept

\* Tasks that are, and go on.
LEMMA OneOnTheWay ==
  ASSUME Unborn, One, NEW t \in Thread, Others(t), crossed => crossed', Open' \subseteq Open,
         In(t, Ending \cup {"leave"}), t \in Gps \cup App, KeepsRoute(t),
         task'[t].pc # "save", t \in Gps => task'[t].new = NoRoute
  PROVE  One'
<1>1. t \in Opening /\ ~(t \in Gps \cup App /\ WillOpen(t)')
  BY Threads DEF Opening, WillOpen, At
<1> QED
  BY <1>1, OneKept

LEMMA InitOne == Init => One
BY IdleTask, Threads
   DEF Init, One, Alone, WillOpen, Open, Opening, At, In, Ending

\* The task that ends a route on its own meets nobody.
LEMMA OneMeetsNobody ==
  ASSUME Columns, Places, Unborn, One, NEW t \in Gps \cup App, Others(t),
         At(t, "act"), crossed' = Crossing(t), Open' \subseteq Open,
         task'[t].pc # "save", KeepsNew(t)
  PROVE  One'
<1> SUFFICES ASSUME ~crossed' PROVE One'
  BY DEF One
<1>1. ~crossed /\ Opening \subseteq {t}
  BY DEF Crossing
<1>2. ASSUME NEW u \in Gps \cup App, u # t PROVE task'[u] = task[u]
  BY <1>2, Threads DEF Others
<1>3. Opening' \subseteq {t}
  <2> SUFFICES ASSUME NEW u \in Opening', u # t PROVE FALSE
    OBVIOUS
  <2>1. u \in Gps \cup App
    BY DEF Opening
  <2> QED
    BY <1>1, <1>2, <2>1, SameOpener
<1>4. ASSUME NEW u \in Gps \cup App PROVE ~WillOpen(u)'
  <2>1. CASE u = t
    BY <2>1 DEF WillOpen, At, Unborn, KeepsNew
  <2>2. CASE u # t
    <3>1. task'[u] = task[u] /\ u \notin Opening
      BY <1>1, <1>2, <2>2
    <3> QED
      BY <3>1, SameOpener, OpensSoon
  <2> QED
    BY <2>1, <2>2
<1>5. \A r, s \in Open' : r = s
  BY <1>1 DEF One
<1> QED
  BY <1>3, <1>4, <1>5, OneAlone

LEMMA NextOne ==
  ASSUME Columns, Places, Owners, Unborn, AppClosed, One, [Next]_vars
  PROVE  One'
<1>1. ASSUME route' = route PROVE Open' \subseteq Open
  BY <1>1 DEF Open
<1>2. ASSUME NEW t \in Gps, ~At(t, "commit") PROVE task[t].new = NoRoute
  BY <1>2 DEF Unborn
<1>3. ASSUME NEW t \in Thread, Rests(t), crossed' = crossed, Open' \subseteq Open PROVE One'
  BY <1>3, OneElsewhere, IdleTask DEF Rests
<1>4. ASSUME NEW t \in Thread, ReadRow(t) PROVE One'
  <2>1. /\ Others(t) /\ At(t, "row") /\ task'[t].pc = "act" /\ KeepsNew(t)
        /\ crossed' = crossed /\ route' = route
    BY <1>4, ReadRowFields DEF table
  <2> QED
    BY <1>1, <1>2, <2>1, OneElsewhere DEF KeepsNew, At
<1>5. ASSUME NEW t \in Thread, Look(t) PROVE One'
  <2>1. /\ In(t, Ending) /\ ~At(t, "commit") /\ t \in Gps \cup App
        /\ crossed' = crossed /\ route' = route
    BY <1>5, Enders DEF Look, At, In, Ending, table, history
  <2>2. Jumps(t, "open") \/ Jumps(t, "commit") \/ Rests(t)
    BY <1>5, GotoFields, OverFields DEF Look, Pc
  <2>3. ASSUME Jumps(t, "open") \/ Jumps(t, "commit") PROVE One'
    BY <1>1, <1>2, <2>1, <2>3, OneOnTheWay DEF Jumps, KeepsNew, In
  <2> QED
    BY <1>1, <1>3, <2>1, <2>2, <2>3
<1>6. ASSUME NEW t \in Thread, Enter(t) PROVE One'
  <2>1. /\ In(t, Ending) /\ ~At(t, "commit") /\ t \in Gps \cup App
        /\ crossed' = crossed /\ route' = route
    BY <1>6, Enders DEF Enter, At, In, Ending, table, history
  <2>2. CASE Goto(t, "save") /\ StillNone(t)
    <3>1. Jumps(t, "save") /\ Seen(t) = {}
      BY <2>2, GotoFields DEF StillNone, Pc
    <3>2. t \in Opening
      BY <2>1 DEF Opening, In
    <3>3. In(t, Ending)'
      BY <3>1 DEF Jumps, In, Ending
    <3> QED
      BY <1>1, <2>1, <3>1, <3>2, <3>3, OneKept DEF Jumps
  <2>3. CASE Over(t)
    <3>1. Jumps(t, "commit") \/ Rests(t)
      BY <2>3, OverFields
    <3>2. ASSUME Jumps(t, "commit") PROVE One'
      BY <1>1, <1>2, <2>1, <3>2, OneOnTheWay DEF Jumps, KeepsNew, In
    <3> QED
      BY <1>1, <1>3, <2>1, <3>1, <3>2
  <2> QED
    BY <1>6, <2>2, <2>3 DEF Enter
<1>7. ASSUME NEW t \in Thread, Save(t) PROVE One'
  <2>1. PICK n \in Route :
          /\ At(t, "save") /\ route[n] = "none" /\ crossed' = crossed
          /\ \/ /\ t \in Gps /\ route' = route /\ Others(t) /\ task'[t].pc = "commit"
                /\ KeepsRoute(t)
             \/ t \in App /\ route' = [route EXCEPT ![n] = "open"] /\ Rests(t)
    BY <1>7, SaveFields DEF history
  <2>2. t \in Opening /\ t \in Gps \cup App /\ WillOpen(t)
    BY <2>1, Enders DEF Opening, At, In, Ending, WillOpen
  <2>3. ~crossed => Seen(t) = {}
    BY <2>2 DEF One
  <2>4. CASE t \in Gps /\ route' = route /\ Others(t) /\ task'[t].pc = "commit" /\ KeepsRoute(t)
    <3>1. In(t, Ending)'
      BY <2>4 DEF In, Ending
    <3> QED
      BY <1>1, <2>1, <2>2, <2>3, <2>4, <3>1, OneKept
  <2>5. CASE t \in App /\ route' = [route EXCEPT ![n] = "open"] /\ Rests(t)
    <3> SUFFICES ASSUME ~crossed' PROVE One'
      BY DEF One
    <3>1. Alone /\ Seen(t) = {} /\ ~crossed
      BY <2>1, <2>3 DEF One
    <3>2. Open = {}
      <4>1. CASE EndsRoute(t)
        <5>1. route[task[t].r] = "closed"
          BY <2>1, <2>5, <4>1 DEF AppClosed, Renews, EndsRoute, In
        <5>2. task[t].r \notin Open
          BY <5>1 DEF Open
        <5> QED
          BY <3>1, <4>1, <5>2 DEF Seen
      <4>2. CASE ~EndsRoute(t)
        BY <3>1, <4>2 DEF Seen
      <4> QED
        BY <4>1, <4>2
    <3>3. Open' = {n}
      BY <2>5, <3>2 DEF Open, Columns
    <3>4. ASSUME NEW u \in Opening' PROVE u \in Opening /\ u # t /\ task'[u] = task[u]
      <4>1. u # t
        BY <2>5, <3>4, IdleTask DEF Rests, Opening, In, Ending
      <4>2. task'[u] = task[u]
        BY <2>5, <4>1, Threads DEF Rests, Others, Opening
      <4> QED
        BY <3>4, <4>1, <4>2, SameOpener
    <3>5. ASSUME NEW u \in Opening' PROVE task[u].r = NoRoute
      BY <2>2, <3>1, <3>4 DEF Alone
    <3>6. Alone'
      BY <3>4, <3>5 DEF Alone
    <3>7. ASSUME NEW u \in Gps \cup App PROVE ~WillOpen(u)'
      <4> SUFFICES ASSUME WillOpen(u)' PROVE FALSE
        OBVIOUS
      <4>1. u # t
        BY <2>5, IdleTask DEF Rests, WillOpen, At
      <4>2. task'[u] = task[u]
        BY <2>5, <4>1, Threads DEF Rests, Others
      <4>3. WillOpen(u) /\ u \in Opening' /\ task[u].r = NoRoute
        BY <3>5, <4>2, SameOpener, OpensSoon
      <4>4. u \in App /\ At(u, "save")
        <5>1. u \in Thread /\ ~At(u, "idle")
          BY <4>3, OpensSoon, Threads DEF At, In, Ending
        <5>2. u \in App /\ In(u, {"open", "save"})
          BY <4>3, <5>1 DEF Places, Place
        <5> QED
          BY <4>3, <5>2, Threads DEF WillOpen
      <4>5. u \in monitor["MyRoute"]
        BY <4>3, <4>4 DEF Owners, Monitor
      <4>6. task[t].r = NoRoute
        <5>1. u \in Opening
          BY <3>4, <4>3
        <5> QED
          BY <2>2, <3>1, <4>1, <5>1 DEF Alone
      <4>7. t \in monitor["MyRoute"]
        BY <2>1, <2>5, <4>6 DEF Owners, Monitor
      <4> QED
        BY <4>1, <4>5, <4>7 DEF Owners, Class
    <3> QED
      BY <3>3, <3>6, <3>7 DEF One
  <2> QED
    BY <2>1, <2>4, <2>5
<1>8. ASSUME NEW t \in Thread, Write(t) PROVE One'
  BY <1>1, <1>3, <1>8, WriteFields DEF history
<1>9. ASSUME NEW t \in Thread, NEW r \in Route, NEW pc \in {"row", "board"},
             BeginOn(t, r, pc)
      PROVE  One'
  <2>1. /\ Others(t) /\ task'[t].pc = pc /\ task'[t].new = NoRoute
        /\ crossed' = crossed /\ route' = route
    BY <1>9, BeginFields DEF table, history
  <2> QED
    BY <1>1, <2>1, OneElsewhere
<1>10. ASSUME NEW g \in Gps, Close(g) PROVE One'
  <2>1. /\ At(g, "act") /\ Others(g) /\ task'[g].pc = "look" /\ KeepsNew(g)
        /\ crossed' = Crossing(g) /\ route' = route
    BY <1>10, CloseFields DEF table
  <2> QED
    BY <1>1, <2>1, OneMeetsNobody
<1>11. ASSUME NEW g \in Gps, Observe(g) PROVE One'
  <2>1. /\ At(g, "act") /\ Others(g) /\ task'[g].pc = "write" /\ KeepsNew(g)
        /\ crossed' = crossed /\ route' = route /\ g \in Thread
    BY <1>11, ObserveFields, Threads DEF table, history
  <2> QED
    BY <1>1, <1>2, <2>1, OneElsewhere DEF KeepsNew, At
<1>12. ASSUME NEW g \in Gps, Commit(g) PROVE One'
  <2>1. /\ At(g, "commit") /\ task[g].r \in Route /\ g \in Thread /\ crossed' = crossed
        /\ \A q \in Route : route'[q] = IF q = task[g].r THEN "closed"
                                        ELSE IF q = task[g].new THEN "open" ELSE route[q]
        /\ Rests(g)
    BY <1>12, CommitFields, Threads
  <2> SUFFICES ASSUME ~crossed' PROVE One'
    BY DEF One
  <2>2. EndsRoute(g) /\ task[g].r # NoRoute
    BY <2>1, OnARoute DEF EndsRoute, At, In, Ending
  <2>3. g \in Opening
    BY <2>2 DEF Opening, EndsRoute, In
  <2>4. ~crossed /\ Opening \subseteq {g}
    BY <2>1, <2>2, <2>3 DEF One, Alone
  <2>5. ASSUME NEW u \in Gps \cup App PROVE u \notin Opening' /\ ~WillOpen(u)'
    <3>1. CASE u = g
      BY <2>1, <3>1, IdleTask DEF Rests, Opening, WillOpen, At, In, Ending
    <3>2. CASE u # g
      <4>1. task'[u] = task[u] /\ u \notin Opening
        BY <2>1, <2>4, <3>2, Threads DEF Rests, Others
      <4> QED
        BY <4>1, SameOpener, OpensSoon
    <3> QED
      BY <3>1, <3>2
  <2>6. Opening' \subseteq {g}
    BY <2>5 DEF Opening
  <2>7. Open' \subseteq (Open \ {task[g].r}) \cup {q \in Route : q = task[g].new}
    BY <2>1 DEF Open
  <2>8. \A r, s \in Open' : r = s
    <3>1. CASE task[g].new = NoRoute
      <4>1. \A q \in Route : q # NoRoute
        BY PeakAssumption DEF Route, NoRoute
      <4>2. Open' \subseteq Open
        BY <2>7, <3>1, <4>1
      <4> QED
        BY <2>4, <4>2 DEF One
    <3>2. CASE task[g].new # NoRoute
      <4>1. Seen(g) = {}
        BY <2>4, <3>2 DEF One, WillOpen
      <4>2. Open \ {task[g].r} = {}
        BY <2>2, <4>1 DEF Seen
      <4> QED
        BY <2>7, <4>2
    <3> QED
      BY <3>1, <3>2
  <2> QED
    BY <2>5, <2>6, <2>8, OneAlone
<1>13. ASSUME NEW a \in App, Start(a) PROVE One'
  <2> SUFFICES ASSUME ~crossed' PROVE One'
    BY DEF One
  <2>1. a \in Thread /\ task[a] = Idle /\ Open = {} /\ route' = route
    BY <1>13, Threads DEF Start, Places, Place, table
  <2>2. Jumps(a, "open")
    BY <1>13, <2>1, GotoFields DEF Start, Pc
  <2>3. ~crossed /\ \A u \in Opening : task[u].r = NoRoute
    BY <1>13 DEF Start
  <2>4. Open' = {}
    BY <1>1, <2>1
  <2>5. ASSUME NEW u \in Opening' PROVE task'[u].r = NoRoute
    <3>1. CASE u = a
      BY <2>1, <2>2, <3>1, IdleTask DEF Jumps, KeepsRoute
    <3>2. CASE u # a
      <4>1. task'[u] = task[u]
        BY <2>2, <3>2, Threads DEF Jumps, Others, Opening
      <4> QED
        BY <2>3, <2>5, <4>1, SameOpener
    <3> QED
      BY <3>1, <3>2
  <2> QED
    BY <2>4, <2>5 DEF One, Alone, Seen
<1>14. ASSUME NEW a \in App, CloseNow(a) PROVE One'
  <2>1. a \in Thread /\ At(a, "act") /\ crossed' = Crossing(a)
    BY <1>14, Threads DEF CloseNow
  <2>2. Jumps(a, "leave")
    BY <1>14, <2>1, GotoFields DEF CloseNow, Pc
  <2>3. Open' \subseteq Open
    BY <1>14 DEF CloseNow, Open, Columns
  <2> QED
    BY <2>1, <2>2, <2>3, OneMeetsNobody DEF Jumps
<1>15. ASSUME NEW a \in App, LeaveAll(a) PROVE One'
  <2>1. a \in Thread /\ a \notin Gps /\ At(a, "leave") /\ crossed' = crossed /\ route' = route
    BY <1>15, Threads DEF LeaveAll
  <2>2. Jumps(a, "look")
    BY <1>15, <2>1, GotoFields DEF LeaveAll, Pc
  <2> QED
    BY <1>1, <2>1, <2>2, OneOnTheWay DEF Jumps, At, In
<1>16. ASSUME NEW a \in App, ConfirmNext(a) PROVE One'
  <2>1. /\ Others(a) /\ task'[a].pc = "write" /\ a \in Thread /\ a \notin Gps
        /\ crossed' = crossed /\ route' = route
    BY <1>16, ConfirmNextFields, Threads DEF table, history
  <2> QED
    BY <1>1, <2>1, OneElsewhere
<1>17. ASSUME NEW p \in Rider, Board(p) PROVE One'
  BY <1>1, <1>17, BoardFields, OneElsewhere, Threads DEF Jumps
<1>23. ASSUME NEW p \in Rider, Count(p) PROVE One'
  BY <1>1, <1>3, <1>23, CountFields, Threads DEF history
<1>24. CASE Crash
  <2>1. \A t \in Gps \cup App : t \notin Opening' /\ ~WillOpen(t)'
    BY <1>24, CrashFields, IdleTask, Threads DEF Opening, WillOpen, In, At, Ending
  <2>2. Opening' = {}
    BY <2>1 DEF Opening
  <2>3. Open' \subseteq Open /\ crossed' = crossed
    BY <1>1, <1>24, CrashFields DEF table
  <2> QED
    BY <2>1, <2>2, <2>3 DEF One, Alone
<1>18. ASSUME task' = task, crossed' = crossed, Open' \subseteq Open PROVE One'
  BY <1>18 DEF One, Alone, Opening, WillOpen, Seen, EndsRoute, At, In
<1>19. ASSUME NEW r \in Route, FinishRoute(r) PROVE One'
  <2>1. Open' \subseteq Open
    BY <1>19 DEF FinishRoute, Open, Columns
  <2> QED
    BY <1>18, <1>19, <2>1 DEF FinishRoute, history
<1>20. CASE ResetRoute
  <2>1. Open' \subseteq Open
    BY <1>20 DEF ResetRoute, Open
  <2> QED
    BY <1>18, <1>20, <2>1 DEF ResetRoute, history
<1>21. ASSUME NEW w \in {"start", "renew"}, Shut(w) PROVE One'
  BY <1>1, <1>18, <1>21 DEF Shut, table, history
<1>22. CASE UNCHANGED vars
  BY <1>1, <1>18, <1>22 DEF vars, table, history
<1> QED
  BY <1>4, <1>5, <1>6, <1>7, <1>8, <1>9, <1>10, <1>11, <1>12, <1>13, <1>14,
     <1>15, <1>16, <1>17, <1>19, <1>20, <1>21, <1>22, <1>23, <1>24, Threads DEF Next, Report, Confirm, Scan

-----------------------------------------------------------------------------
(* A route nobody else reads is as it was read.                            *)

\* The task that moves holds what it held, or nothing.
LEMMA UnmixedKept ==
  ASSUME Unmixed, NEW t \in Thread, Others(t), mixed \subseteq mixed', rows' = rows,
         \A r \in Route \ mixed' : Holds(t, r)' => Holds(t, r) /\ Current(t)'
  PROVE  Unmixed'
<1>1. ASSUME NEW u \in Thread, u # t
      PROVE  /\ \A r : Holds(u, r)' <=> Holds(u, r)
             /\ Current(u)' <=> Current(u)
  <2>1. task'[u] = task[u]
    BY <1>1 DEF Others
  <2> QED
    BY <2>1 DEF Holds, Current, Live, Recorded, In, At
<1>2. ASSUME NEW r \in Route \ mixed', NEW u \in Thread, Holds(u, r)'
      PROVE  Current(u)' /\ \A v \in Thread : Holds(v, r)' => v = u
  <2>1. \A v \in Thread : Holds(v, r)' => Holds(v, r)
    BY <1>1
  <2>2. Holds(u, r) /\ r \in Route \ mixed
    BY <1>2, <2>1
  <2>3. Current(u)'
    BY <1>1, <1>2, <2>2 DEF Unmixed
  <2> QED
    BY <2>1, <2>2, <2>3 DEF Unmixed
<1> QED
  BY <1>2 DEF Unmixed

\* The task that has written to its route leaves it.
LEMMA UnmixedEnd ==
  ASSUME Columns, Unmixed, NEW t \in Thread, NEW r \in Route, Holds(t, r), Rests(t), mixed' = mixed,
         \A q \in Route : q # r => rows'[q] = rows[q]
  PROVE  Unmixed'
<1>1. ASSUME NEW u \in Thread, NEW q \in Route, Holds(u, q)' PROVE u # t /\ task'[u] = task[u] /\ Holds(u, q)
  <2>1. u # t
    BY <1>1, IdleTask DEF Rests, Holds, In, Ending
  <2>2. task'[u] = task[u]
    BY <2>1 DEF Rests, Others
  <2> QED
    BY <1>1, <2>1, <2>2 DEF Holds, In
<1>2. ASSUME NEW q \in Route \ mixed', NEW u \in Thread, Holds(u, q)'
      PROVE  Current(u)' /\ \A v \in Thread : Holds(v, q)' => v = u
  <2>1. /\ u # t /\ task'[u] = task[u] /\ Holds(u, q) /\ q \in Route \ mixed
    BY <1>1, <1>2
  <2>2. q # r
    BY <2>1 DEF Unmixed
  <2>3. rows'[q] = rows[q] /\ task[u].r = q
    BY <2>1, <2>2 DEF Holds
  <2>4. Current(u)
    BY <2>1 DEF Unmixed
  <2>5. Current(u)'
    BY <2>1, <2>3, <2>4 DEF Current, Live, Recorded, At
  <2> QED
    BY <1>1, <2>1, <2>5 DEF Unmixed
<1> QED
  BY <1>2 DEF Unmixed

\* A task that goes on before it writes; what it read it has still.
LEMMA UnmixedOnTheWay ==
  ASSUME Unmixed, NEW t \in Thread, Others(t), mixed \subseteq mixed', rows' = rows,
         KeepsRoute(t), KeepsRow(t), task'[t].pc # "write",
         \A r \in Route : Holds(t, r)' => Holds(t, r)
  PROVE  Unmixed'
<1>1. ASSUME NEW r \in Route \ mixed', Holds(t, r)' PROVE Holds(t, r) /\ Current(t)'
  <2>1. Holds(t, r) /\ Current(t)
    BY <1>1 DEF Unmixed
  <2> QED
    BY <2>1 DEF Current, Live, At, KeepsRoute, KeepsRow
<1> QED
  BY <1>1, UnmixedKept

\* A task that found what it will record.
LEMMA UnmixedFound ==
  ASSUME Unmixed, NEW t \in Thread, Others(t), mixed' = mixed, rows' = rows,
         At(t, "act"), KeepsRoute(t), KeepsRow(t), NewRows(task'[t].ins, task[t].r)
  PROVE  Unmixed'
<1>1. ASSUME NEW r \in Route \ mixed', Holds(t, r)' PROVE Holds(t, r) /\ Current(t)'
  <2>1. Holds(t, r)
    BY <1>1 DEF Holds, In, At, KeepsRoute
  <2>2. Current(t)
    BY <1>1, <2>1 DEF Unmixed
  <2>3. task'[t].r = task[t].r /\ task'[t].row = task[t].row /\ task'[t].on = task[t].on
    BY DEF KeepsRoute, KeepsRow
  <2>4. \A i \in DOMAIN task'[t].ins : task'[t].ins[i] # NoStop =>
          /\ task'[t].ins[i] \notin Recorded(task[t].r)
          /\ \A j \in DOMAIN task'[t].ins : task'[t].ins[j] = task'[t].ins[i] => j = i
    BY DEF NewRows
  <2>5. Live(task[t].r)' = Live(task[t].r) /\ Recorded(task[t].r)' = Recorded(task[t].r)
    BY <2>3 DEF Live, Recorded
  <2>6. IF task'[t].row = 0 THEN Live(task[t].r) = {}
        ELSE rows[task[t].r][task[t].row].on = task[t].on
             /\ rows[task[t].r][task[t].row].st # Gone
    BY <2>2, <2>3 DEF Current
  <2>7. Current(t)'
    BY <2>3, <2>4, <2>5, <2>6 DEF Current
  <2> QED
    BY <2>1, <2>7
<1> QED
  BY <1>1, UnmixedKept

LEMMA InitUnmixed == Init => Unmixed
BY IdleTask DEF Init, Unmixed, Holds, In, Ending

LEMMA NextUnmixed ==
  ASSUME Columns, Places, Unborn, Unmixed, [Next]_vars
  PROVE  Unmixed'
<1>1. ASSUME NEW t \in Thread, Others(t), mixed' = mixed, rows' = rows,
             \A r \in Route : ~Holds(t, r)'
      PROVE  Unmixed'
  BY <1>1, UnmixedKept
<1>2. ASSUME NEW t \in Thread, Rests(t), mixed' = mixed, rows' = rows PROVE Unmixed'
  <2>1. \A r \in Route : ~Holds(t, r)'
    BY <1>2, IdleTask DEF Rests, Holds, In, Ending
  <2> QED
    BY <1>1, <1>2, <2>1 DEF Rests
<1>3. ASSUME NEW t \in Thread, ReadRow(t) PROVE Unmixed'
  <2>1. PICK q \in Route : q = task[t].r
    BY <1>3, ReadRowFields
  <2>2. /\ Others(t) /\ task'[t].pc = "act" /\ task'[t].r = q /\ rows' = rows
        /\ task'[t].row = 0 => Live(q) = {} /\ task'[t].on = 0
        /\ task'[t].row # 0 => /\ task'[t].row \in Live(q)
                               /\ task'[t].on = rows[q][task'[t].row].on
        /\ mixed \subseteq mixed'
        /\ q \notin mixed' => Writers(q, t) = {}
    BY <1>3, <2>1, ReadRowFields DEF table, KeepsRoute
  <2>3. ASSUME NEW u \in Thread, u # t
        PROVE  task'[u] = task[u] /\ \A r : Holds(u, r)' <=> Holds(u, r)
    <3>1. task'[u] = task[u]
      BY <2>2, <2>3 DEF Others
    <3> QED
      BY <3>1 DEF Holds, In
  <2>4. ASSUME NEW r \in Route \ mixed', NEW u \in Thread, Holds(u, r)'
        PROVE  Current(u)' /\ \A v \in Thread : Holds(v, r)' => v = u
    <3>1. CASE r = q
      <4>1. ASSUME NEW v \in Thread, Holds(v, q)' PROVE v = t
        <5> SUFFICES ASSUME v # t PROVE FALSE
          OBVIOUS
        <5>1. Holds(v, q)
          BY <2>3, <4>1
        <5>2. v \in Writers(q, t)
          BY <5>1 DEF Writers, Holds, In
        <5> QED
          BY <2>2, <2>4, <3>1, <5>2
      <4>2. u = t
        BY <2>4, <3>1, <4>1
      <4>3. Current(t)'
        BY <2>2 DEF Current, Live, At
      <4> QED
        BY <3>1, <4>1, <4>2, <4>3
    <3>2. CASE r # q
      <4>1. \A v \in Thread : Holds(v, r)' => v # t /\ Holds(v, r)
        BY <2>2, <2>3, <3>2 DEF Holds
      <4>2. u # t /\ Holds(u, r) /\ r \in Route \ mixed
        BY <2>2, <2>4, <4>1
      <4>3. Current(u) /\ \A v \in Thread : Holds(v, r) => v = u
        BY <4>2 DEF Unmixed
      <4>4. Current(u)'
        BY <2>2, <2>3, <4>2, <4>3 DEF Current, Live, Recorded, At
      <4> QED
        BY <4>1, <4>3, <4>4
    <3> QED
      BY <3>1, <3>2
  <2> QED
    BY <2>4 DEF Unmixed
<1>4. ASSUME NEW t \in Thread, Look(t) \/ Enter(t) PROVE Unmixed'
  <2>1. Jumps(t, "open") \/ Jumps(t, "save") \/ Jumps(t, "commit") \/ Rests(t)
    BY <1>4, GotoFields, OverFields DEF Look, Enter, Pc
  <2>2. In(t, Ending) /\ mixed' = mixed /\ rows' = rows
    BY <1>4 DEF Look, Enter, In, At, Ending, table, history
  <2>3. ASSUME Jumps(t, "open") \/ Jumps(t, "save") \/ Jumps(t, "commit")
        PROVE  Unmixed'
    <3>1. \A r \in Route : Holds(t, r)' => Holds(t, r)
      BY <2>2, <2>3 DEF Holds, Jumps, KeepsRoute, In
    <3> QED
      BY <2>2, <2>3, <3>1, UnmixedOnTheWay DEF Jumps
  <2> QED
    BY <1>2, <2>1, <2>2, <2>3
<1>5. ASSUME NEW t \in Thread, Save(t) PROVE Unmixed'
  <2>1. \/ t \in Gps /\ Others(t) /\ task'[t].pc = "commit" /\ KeepsRoute(t) /\ KeepsRow(t)
        \/ Rests(t)
    BY <1>5, SaveFields
  <2>2. In(t, Ending) /\ mixed' = mixed /\ rows' = rows
    BY <1>5 DEF Save, In, At, Ending, history
  <2>3. ASSUME t \in Gps, Others(t), task'[t].pc = "commit", KeepsRoute(t), KeepsRow(t)
        PROVE  Unmixed'
    <3>1. \A r \in Route : Holds(t, r)' => Holds(t, r)
      BY <2>2, <2>3 DEF Holds, KeepsRoute, In
    <3> QED
      BY <2>2, <2>3, <3>1, UnmixedOnTheWay
  <2> QED
    BY <1>2, <2>1, <2>2, <2>3
<1>6. ASSUME NEW t \in Thread, Write(t) PROVE Unmixed'
  <2>1. PICK r \in Route : r = task[t].r
    BY <1>6, WriteFields
  <2>2. /\ At(t, "write") /\ Rests(t) /\ mixed' = mixed
        /\ \A q \in Route : q # r => rows'[q] = rows[q]
    BY <1>6, <2>1, WriteFields DEF Inserted, history
  <2>3. Holds(t, r)
    BY <2>1, <2>2 DEF Holds, At, In
  <2> QED
    BY <2>2, <2>3, UnmixedEnd
<1>7. ASSUME NEW t \in Thread, NEW r \in Route, NEW pc \in {"row", "board"},
             BeginOn(t, r, pc)
      PROVE  Unmixed'
  <2>1. Others(t) /\ task'[t].pc = pc /\ mixed' = mixed /\ rows' = rows
    BY <1>7, BeginFields DEF table, history
  <2> QED
    BY <1>1, <2>1 DEF Holds, In, Ending
<1>8. ASSUME NEW g \in Gps, Close(g) PROVE Unmixed'
  <2>1. /\ At(g, "act") /\ g \in Thread /\ Others(g) /\ task'[g].pc = "look"
        /\ KeepsRoute(g) /\ KeepsRow(g) /\ mixed \subseteq mixed' /\ rows' = rows
    BY <1>8, CloseFields, Threads DEF table
  <2>2. \A r \in Route : Holds(g, r)' => Holds(g, r)
    BY <2>1 DEF Holds, KeepsRoute, In, At
  <2> QED
    BY <2>1, <2>2, UnmixedOnTheWay
<1>9. ASSUME NEW g \in Gps, Observe(g) PROVE Unmixed'
  BY <1>9, ObserveFields, UnmixedFound, Threads DEF table, history
<1>10. ASSUME NEW g \in Gps, Commit(g) PROVE Unmixed'
  <2>1. PICK r \in Route : r = task[g].r
    BY <1>10, CommitFields
  <2>2. /\ At(g, "commit") /\ Rests(g) /\ mixed' = mixed /\ g \in Thread
        /\ \A q \in Route : q # r => rows'[q] = rows[q]
    BY <1>10, <2>1, CommitFields, Threads DEF Changed
  <2>3. Holds(g, r)
    BY <2>1, <2>2 DEF Holds, At, In, Ending
  <2> QED
    BY <2>2, <2>3, UnmixedEnd
<1>11. ASSUME NEW a \in App, Start(a) \/ CloseNow(a) \/ LeaveAll(a) PROVE Unmixed'
  <2>1. a \in Thread /\ a \notin Gps /\ mixed' = mixed /\ rows' = rows
    BY <1>11, Threads DEF Start, CloseNow, LeaveAll, table
  <2>2. Jumps(a, "open") \/ Jumps(a, "leave") \/ Jumps(a, "look")
    BY <1>11, <2>1, GotoFields DEF Start, CloseNow, LeaveAll, Pc
  <2> QED
    BY <1>1, <2>1, <2>2 DEF Jumps, Holds, In
<1>12. ASSUME NEW a \in App, ConfirmNext(a) PROVE Unmixed'
  BY <1>12, ConfirmNextFields, UnmixedFound, Threads DEF table, history
<1>13. ASSUME NEW p \in Rider, Count(p) PROVE Unmixed'
  <2>1. PICK r \in Route : r = task[p].r
    BY <1>13, CountFields
  <2>2. /\ At(p, "act") /\ Rests(p) /\ mixed' = mixed /\ p \in Thread
        /\ \A q \in Route : q # r => rows'[q] = rows[q]
    BY <1>13, <2>1, CountFields, Threads DEF Changed, Inserted, history
  <2>3. Holds(p, r)
    BY <2>1, <2>2 DEF Holds, At, In
  <2> QED
    BY <2>2, <2>3, UnmixedEnd
<1>16. ASSUME NEW p \in Rider, Board(p) PROVE Unmixed'
  <2>1. Others(p) /\ task'[p].pc = "row" /\ mixed' = mixed /\ rows' = rows /\ p \in Thread
    BY <1>16, BoardFields, Threads DEF Jumps
  <2> QED
    BY <1>1, <2>1 DEF Holds, In, Ending
<1>17. CASE Crash
  BY <1>17, CrashFields, IdleTask DEF Unmixed, Holds, In, Ending
<1>14. ASSUME UNCHANGED <<task, rows, mixed>> PROVE Unmixed'
  <2>1. ASSUME NEW t \in Thread, NEW r \in Route PROVE Holds(t, r)' = Holds(t, r)
    BY <1>14 DEF Holds, In, At
  <2>2. ASSUME NEW r PROVE Live(r)' = Live(r) /\ Recorded(r)' = Recorded(r)
    BY <1>14 DEF Live, Recorded
  <2>3. ASSUME NEW t \in Thread PROVE Current(t)' = Current(t)
    <3>1. task'[t] = task[t] /\ At(t, "write")' = At(t, "write")
      BY <1>14 DEF At
    <3> QED
      BY <1>14, <2>2, <3>1 DEF Current
  <2> QED
    BY <1>14, <2>1, <2>3 DEF Unmixed
<1>15. ASSUME \/ \E r \in Route : FinishRoute(r)
              \/ ResetRoute
              \/ \E w \in {"start", "renew"} : Shut(w)
              \/ UNCHANGED vars
       PROVE  Unmixed'
  BY <1>14, <1>15 DEF FinishRoute, ResetRoute, Shut, vars, table, history
<1> QED
  BY <1>3, <1>4, <1>5, <1>6, <1>7, <1>8, <1>9, <1>10, <1>11, <1>12, <1>13,
     <1>15, <1>16, <1>17, Threads DEF Next, Report, Confirm, Scan

-----------------------------------------------------------------------------
(* The rows of a route change when a task writes, commits or counts.       *)

LEMMA RowSteps ==
  ASSUME [Next]_vars
  PROVE  /\ mixed \subseteq mixed'
         /\ \/ rows' = rows
            \/ \E t \in Thread : Write(t)
            \/ \E g \in Gps : Commit(g)
            \/ \E p \in Rider : Count(p)
<1>1. ASSUME NEW t \in Thread, ReadRow(t) \/ Look(t) \/ Enter(t) \/ Save(t)
      PROVE  mixed \subseteq mixed' /\ rows' = rows
  BY <1>1 DEF ReadRow, Mixing, Look, Enter, Save, table, history
<1>2. ASSUME NEW t, NEW r \in Route, NEW pc, BeginOn(t, r, pc)
      PROVE  mixed \subseteq mixed' /\ rows' = rows
  BY <1>2 DEF BeginOn, table, history
<1>3. ASSUME NEW g \in Gps, Close(g) \/ Observe(g)
      PROVE  mixed \subseteq mixed' /\ rows' = rows
  BY <1>3 DEF Close, Mixing, Observe, table, history
<1>4. ASSUME NEW a \in App, Start(a) \/ CloseNow(a) \/ ConfirmNext(a) \/ LeaveAll(a)
      PROVE  mixed \subseteq mixed' /\ rows' = rows
  BY <1>4 DEF Start, CloseNow, ConfirmNext, LeaveAll, table, history
<1>5. ASSUME \/ \E r \in Route : FinishRoute(r)
             \/ ResetRoute \/ Crash
             \/ \E w \in {"start", "renew"} : Shut(w)
             \/ \E p \in Rider : Board(p)
             \/ UNCHANGED vars
      PROVE  mixed \subseteq mixed' /\ rows' = rows
  BY <1>5 DEF FinishRoute, ResetRoute, Crash, Shut, Board, vars, table, history
<1>6. ASSUME \/ \E t \in Thread : Write(t)
             \/ \E g \in Gps : Commit(g)
             \/ \E p \in Rider : Count(p)
      PROVE  mixed \subseteq mixed'
  BY <1>6 DEF Write, Commit, Count, history
<1> QED
  BY <1>1, <1>2, <1>3, <1>4, <1>5, <1>6 DEF Next, Report, Confirm, Scan

-----------------------------------------------------------------------------
(* Stations are recorded once.                                             *)

LEMMA InitRecorded == Init => RecordedOnce
BY DEF Init, RecordedOnce, Live

LEMMA NextRecorded ==
  ASSUME Columns, Places, Unborn, Unmixed, RecordedOnce, [Next]_vars
  PROVE  RecordedOnce'
<1> SUFFICES ASSUME NEW r \in Route \ mixed', NEW i \in Live(r)', NEW j \in Live(r)',
                    rows'[r][i].st # NoStop, rows'[r][i].st = rows'[r][j].st
             PROVE  i = j
  BY DEF RecordedOnce
<1>1. r \in Route \ mixed
  BY RowSteps
<1>2. \A x, y \in Live(r) : rows[r][x].st # NoStop /\ rows[r][x].st = rows[r][y].st => x = y
  BY <1>1 DEF RecordedOnce
<1>3. /\ i \in DOMAIN rows'[r] /\ rows'[r][i].st # Gone
      /\ j \in DOMAIN rows'[r] /\ rows'[r][j].st # Gone
  BY DEF Live
<1>4. ASSUME rows'[r] = rows[r] PROVE i = j
  <2>1. i \in Live(r) /\ j \in Live(r)
    BY <1>3, <1>4 DEF Live
  <2> QED
    BY <1>2, <1>4, <2>1
<1>5. PICK n : n = Len(rows[r])
  OBVIOUS
<1>6. n \in Nat /\ DOMAIN rows[r] = 1 .. n
  BY <1>1, <1>5, RowsOf
<1>7. ASSUME NEW t \in Thread, Write(t) PROVE i = j
  <2>1. /\ At(t, "write") /\ task[t].r \in Route
        /\ Inserted(task[t].r, task[t].ins, 0)
    BY <1>7, WriteFields
  <2>2. CASE task[t].r # r
    BY <1>1, <1>4, <2>1, <2>2 DEF Inserted
  <2>3. CASE task[t].r = r
    <3>1. Holds(t, r)
      BY <2>1, <2>3 DEF Holds, In, At
    <3>2. Current(t)
      BY <1>1, <3>1 DEF Unmixed
    <3>3. PICK ins : ins = task[t].ins
      OBVIOUS
    <3>4. \A x \in DOMAIN ins : ins[x] # NoStop =>
            /\ ins[x] \notin Recorded(r)
            /\ \A y \in DOMAIN ins : ins[y] = ins[x] => y = x
      BY <2>1, <2>3, <3>2, <3>3 DEF Current
    <3>5. /\ \A x \in 1 .. n : rows'[r][x] = rows[r][x]
          /\ \A x \in DOMAIN rows'[r] : x \notin 1 .. n =>
               x - n \in DOMAIN ins /\ rows'[r][x].st = ins[x - n]
      BY <1>5, <1>6, <2>1, <2>3, <3>3 DEF Inserted
    <3>6. \A x \in 1 .. n : rows'[r][x].st # Gone => x \in Live(r) /\ rows'[r][x].st \in Recorded(r)
      BY <1>6, <3>5 DEF Live, Recorded
    <3>7. DOMAIN rows'[r] \subseteq Nat
      <4>1. rows'[r] \in Seq(StationRow)
        BY <1>1, <2>1 DEF Inserted
      <4> QED
        BY <4>1, LenProperties
    <3>8. CASE i \in 1 .. n /\ j \in 1 .. n
      BY <1>2, <1>3, <3>5, <3>6, <3>8
    <3>9. CASE i \in 1 .. n /\ j \notin 1 .. n
      BY <1>3, <3>4, <3>5, <3>6, <3>9
    <3>10. CASE i \notin 1 .. n /\ j \in 1 .. n
      BY <1>3, <3>4, <3>5, <3>6, <3>10
    <3>11. CASE i \notin 1 .. n /\ j \notin 1 .. n
      <4>1. i - n = j - n
        BY <1>3, <3>4, <3>5, <3>11
      <4>2. i \in Nat /\ j \in Nat
        BY <1>3, <3>7
      <4> QED
        BY <1>6, <4>1, <4>2
    <3> QED
      BY <3>8, <3>9, <3>10, <3>11
  <2> QED
    BY <2>2, <2>3
<1>8. ASSUME NEW q \in Route, NEW x \in DOMAIN rows[q], NEW row, Changed(q, x, row),
             row.st \in {rows[q][x].st, Gone}
      PROVE  i = j
  <2>1. CASE q # r
    BY <1>1, <1>4, <1>8, <2>1 DEF Changed
  <2>2. CASE q = r
    <3>1. \A y \in DOMAIN rows'[r] : /\ y \in DOMAIN rows[r]
                                     /\ rows'[r][y].st \in {rows[r][y].st, Gone}
      BY <1>8, <2>2 DEF Changed
    <3>2. /\ i \in Live(r) /\ rows'[r][i].st = rows[r][i].st
          /\ j \in Live(r) /\ rows'[r][j].st = rows[r][j].st
      BY <1>3, <3>1 DEF Live
    <3> QED
      BY <1>2, <3>2
  <2> QED
    BY <2>1, <2>2
<1>9. ASSUME NEW g \in Gps, Commit(g) PROVE i = j
  <2>1. /\ task[g].r \in Route /\ task[g].row \in DOMAIN rows[task[g].r]
        /\ Changed(task[g].r, task[g].row,
                   [st |-> Gone, on |-> rows[task[g].r][task[g].row].on])
    BY <1>9, CommitFields
  <2> QED
    BY <1>8, <2>1
<1>10. ASSUME NEW p \in Rider, Count(p) PROVE i = j
  <2>1. PICK q \in Route : q = task[p].r
    BY <1>10, CountFields
  <2>2. /\ At(p, "act")
        /\ \/ task[p].row = 0 /\ Inserted(q, <<StartOf[p]>>, 1)
           \/ rows' = rows
           \/ /\ task[p].row \in DOMAIN rows[q]
              /\ Changed(q, task[p].row, [st |-> rows[q][task[p].row].st, on |-> task[p].on + 1])
    BY <1>10, <2>1, CountFields
  <2>3. CASE task[p].row = 0 /\ Inserted(q, <<StartOf[p]>>, 1)
    <3>1. CASE q # r
      BY <1>1, <1>4, <2>3, <3>1 DEF Inserted
    <3>2. CASE q = r
      <4>1. Holds(p, r) /\ p \in Thread
        BY <2>1, <2>2, <3>2, Threads DEF Holds, At, In
      <4>2. Live(r) = {}
        BY <1>1, <2>1, <2>3, <3>2, <4>1 DEF Unmixed, Current
      <4>3. \A x \in DOMAIN rows[r] : rows'[r][x].st = Gone
        BY <2>3, <3>2, <4>2 DEF Live, Inserted
      <4>4. i \notin DOMAIN rows[r] /\ j \notin DOMAIN rows[r]
        BY <1>3, <4>3
      <4>5. i - n \in DOMAIN <<StartOf[p]>> /\ j - n \in DOMAIN <<StartOf[p]>>
        BY <1>3, <1>5, <2>3, <3>2, <4>4 DEF Inserted
      <4>6. DOMAIN <<StartOf[p]>> = {1}
        OBVIOUS
      <4>7. i \in Nat /\ j \in Nat
        <5>1. rows'[r] \in Seq(StationRow)
          BY <1>1, <2>3 DEF Inserted
        <5> QED
          BY <1>3, <5>1, LenProperties
      <4> QED
        BY <1>6, <4>5, <4>6, <4>7
    <3> QED
      BY <3>1, <3>2
  <2>4. CASE rows' = rows
    BY <1>4, <2>4
  <2>5. CASE /\ task[p].row \in DOMAIN rows[q]
             /\ Changed(q, task[p].row, [st |-> rows[q][task[p].row].st, on |-> task[p].on + 1])
    BY <1>8, <2>5
  <2> QED
    BY <2>2, <2>3, <2>4, <2>5
<1> QED
  BY <1>4, <1>7, <1>9, <1>10, RowSteps

-----------------------------------------------------------------------------
(* Marks: one for each boarding counted at a row.                          *)

LEMMA MarkOf ==
  ASSUME NEW r
  PROVE  /\ \A i \in DOMAIN rows[r] : \A k \in 1 .. rows[r][i].on : <<i, k>> \in Marks(r)
         /\ \A m \in Marks(r) : \E i \in DOMAIN rows[r] : m \in {i} \X (1 .. rows[r][i].on)
BY DEF Marks

LEMMA SameMarks ==
  ASSUME NEW r, rows'[r] = rows[r]
  PROVE  Marks(r)' = Marks(r)
BY DEF Marks

\* Rows that count nobody add no marks.
LEMMA MarksOfNone ==
  ASSUME Columns, NEW r \in Route, NEW ss, Inserted(r, ss, 0)
  PROVE  Marks(r)' = Marks(r)
<1>1. \A i \in DOMAIN rows[r] : i \in DOMAIN rows'[r] /\ rows'[r][i] = rows[r][i]
  BY DEF Inserted
<1>2. \A i \in DOMAIN rows'[r] : i \notin DOMAIN rows[r] => 1 .. rows'[r][i].on = {}
  BY DEF Inserted
<1>3. Marks(r) \subseteq Marks(r)'
  BY <1>1 DEF Marks
<1>4. Marks(r)' \subseteq Marks(r)
  BY <1>1, <1>2 DEF Marks
<1> QED
  BY <1>3, <1>4

\* The first row of a scan adds one.
LEMMA MarksOfOne ==
  ASSUME Columns, NEW r \in Route, NEW s, Inserted(r, <<s>>, 1)
  PROVE  \E m : m \notin Marks(r) /\ Marks(r)' = Marks(r) \cup {m}
<1>1. PICK n : n = Len(rows[r])
  OBVIOUS
<1>2. n \in Nat /\ DOMAIN rows[r] = 1 .. n
  BY <1>1, RowsOf
<1>3. DOMAIN rows'[r] = 1 .. n + 1
  <2>1. rows'[r] \in Seq(StationRow) /\ Len(rows'[r]) = n + Len(<<s>>)
    BY <1>1 DEF Inserted
  <2>2. Len(<<s>>) = 1
    OBVIOUS
  <2> QED
    BY <2>1, <2>2, LenProperties
<1>4. \A i \in 1 .. n : rows'[r][i] = rows[r][i]
  BY <1>2 DEF Inserted
<1>5. rows'[r][n + 1].on = 1
  BY <1>2, <1>3 DEF Inserted
<1>6. <<n + 1, 1>> \notin Marks(r)
  BY <1>2 DEF Marks
<1>7. <<n + 1, 1>> \in Marks(r)'
  BY <1>2, <1>3, <1>5 DEF Marks
<1>8. Marks(r) \subseteq Marks(r)'
  BY <1>2, <1>3, <1>4 DEF Marks
<1>9. Marks(r)' \subseteq Marks(r) \cup {<<n + 1, 1>>}
  <2> SUFFICES ASSUME NEW m \in Marks(r)', m \notin Marks(r) PROVE m = <<n + 1, 1>>
    OBVIOUS
  <2>1. PICK i \in DOMAIN rows'[r] : m \in {i} \X (1 .. rows'[r][i].on)
    BY DEF Marks
  <2>2. i \notin 1 .. n
    BY <1>2, <1>4, <2>1 DEF Marks
  <2>3. i = n + 1
    BY <1>2, <1>3, <2>2
  <2> QED
    BY <1>5, <2>1, <2>3
<1> QED
  BY <1>6, <1>7, <1>8, <1>9

\* A row that changes has the marks of its new count.
LEMMA MarksOfRow ==
  ASSUME Columns, NEW r \in Route, NEW i \in DOMAIN rows[r], NEW row, Changed(r, i, row)
  PROVE  /\ Marks(r)' \subseteq Marks(r) \cup ({i} \X (1 .. row.on))
         /\ row.on = rows[r][i].on => Marks(r)' = Marks(r)
         /\ row.on = rows[r][i].on + 1 =>
              <<i, row.on>> \notin Marks(r) /\ Marks(r)' = Marks(r) \cup {<<i, row.on>>}
<1>1. /\ DOMAIN rows'[r] = DOMAIN rows[r] /\ rows'[r][i] = row
      /\ \A j \in DOMAIN rows[r] : j # i => rows'[r][j] = rows[r][j]
  BY DEF Changed
<1>2. Marks(r)' \subseteq Marks(r) \cup ({i} \X (1 .. row.on))
  <2> SUFFICES ASSUME NEW m \in Marks(r)', m \notin Marks(r) PROVE m \in {i} \X (1 .. row.on)
    OBVIOUS
  <2>1. PICK j \in DOMAIN rows[r] : m \in {j} \X (1 .. rows'[r][j].on)
    BY <1>1 DEF Marks
  <2>2. j = i
    BY <1>1, <2>1 DEF Marks
  <2> QED
    BY <1>1, <2>1, <2>2
<1>3. ASSUME row.on = rows[r][i].on PROVE Marks(r)' = Marks(r)
  <2>1. \A j \in DOMAIN rows[r] : rows'[r][j].on = rows[r][j].on
    BY <1>1, <1>3
  <2> QED
    BY <1>1, <2>1 DEF Marks
<1>4. ASSUME row.on = rows[r][i].on + 1
      PROVE  <<i, row.on>> \notin Marks(r) /\ Marks(r)' = Marks(r) \cup {<<i, row.on>>}
  <2>1. PICK n \in Nat : n = rows[r][i].on
    BY RowsOf
  <2>2. row.on = n + 1
    BY <1>4, <2>1
  <2>3. 1 .. n + 1 = (1 .. n) \cup {n + 1} /\ n + 1 \notin 1 .. n
    OBVIOUS
  <2>4. <<i, n + 1>> \notin Marks(r)
    BY <2>1, <2>3 DEF Marks
  <2>5. {i} \X (1 .. n) \subseteq Marks(r)
    BY <2>1 DEF Marks
  <2>6. Marks(r)' \subseteq Marks(r) \cup {<<i, n + 1>>}
    <3>1. {i} \X (1 .. n + 1) \subseteq ({i} \X (1 .. n)) \cup {<<i, n + 1>>}
      BY <2>3
    <3> QED
      BY <1>2, <2>2, <2>5, <3>1
  <2>7. Marks(r) \subseteq Marks(r)'
    <3> SUFFICES ASSUME NEW m \in Marks(r) PROVE m \in Marks(r)'
      OBVIOUS
    <3>1. PICK j \in DOMAIN rows[r] : m \in {j} \X (1 .. rows[r][j].on)
      BY DEF Marks
    <3>2. 1 .. rows[r][j].on \subseteq 1 .. rows'[r][j].on
      BY <1>1, <2>1, <2>2, <2>3
    <3> QED
      BY <1>1, <3>1, <3>2 DEF Marks
  <2>8. <<i, n + 1>> \in Marks(r)'
    <3>1. rows'[r][i].on = n + 1 /\ n + 1 \in 1 .. n + 1
      BY <1>1, <2>2
    <3> QED
      BY <1>1, <3>1 DEF Marks
  <2> QED
    BY <2>2, <2>4, <2>6, <2>7, <2>8
<1> QED
  BY <1>2, <1>3, <1>4

\* Only a count changes the marks of a route.
LEMMA MarksStay ==
  ASSUME Columns, Places, Unborn, [Next]_vars, ~ \E p \in Rider : Count(p)
  PROVE  \A r \in Route : Marks(r)' = Marks(r)
<1>1. ASSUME NEW t \in Thread, Write(t), NEW r \in Route PROVE Marks(r)' = Marks(r)
  <2>1. task[t].r \in Route /\ Inserted(task[t].r, task[t].ins, 0)
    BY <1>1, WriteFields
  <2>2. r # task[t].r => rows'[r] = rows[r]
    BY <2>1 DEF Inserted
  <2> QED
    BY <2>1, <2>2, MarksOfNone, SameMarks
<1>2. ASSUME NEW g \in Gps, Commit(g), NEW r \in Route PROVE Marks(r)' = Marks(r)
  <2>1. PICK row : row = [st |-> Gone, on |-> rows[task[g].r][task[g].row].on]
    OBVIOUS
  <2>2. /\ task[g].r \in Route /\ task[g].row \in DOMAIN rows[task[g].r]
        /\ Changed(task[g].r, task[g].row, row)
    BY <1>2, <2>1, CommitFields
  <2>3. row.on = rows[task[g].r][task[g].row].on
    BY <2>1
  <2>4. r # task[g].r => rows'[r] = rows[r]
    BY <2>2 DEF Changed
  <2> QED
    BY <2>2, <2>3, <2>4, MarksOfRow, SameMarks
<1>3. CASE rows' = rows
  BY <1>3, SameMarks
<1> QED
  BY <1>1, <1>2, <1>3, RowSteps

-----------------------------------------------------------------------------
(* The riders counted: a scan that writes the order adds a rider who is    *)
(* not, a crash leaves one so, and only a count changes that.              *)

Waits(p) == In(p, {"row", "act"}) \/ p \in lost

LEMMA NotedBy ==
  ASSUME NEW r
  PROVE  Noted(r) = {p \in Rider : order[p].r = r /\ ~Waits(p)}
BY DEF Noted, Uncounted, Waits

SameNoted == \A r \in Route : Noted(r)' = Noted(r)

\* Nobody begins or ends to wait, and no order changes its route.
LEMMA NotedKept ==
  ASSUME \A p \in Rider : order'[p].r = order[p].r /\ (Waits(p)' <=> Waits(p))
  PROVE  SameNoted
<1>1. ASSUME NEW r PROVE Noted(r)' = Noted(r)
  <2>1. Noted(r)' = {p \in Rider : order'[p].r = r /\ ~Waits(p)'}
    BY DEF Noted, Uncounted, Waits
  <2> QED
    BY <2>1, NotedBy
<1> QED
  BY <1>1 DEF SameNoted

\* The tasks of the driver do not scan.
LEMMA NotedByDriver ==
  ASSUME NEW t \in Thread, t \notin Rider, Others(t), lost' = lost,
         \A p \in Rider : order'[p].r = order[p].r
  PROVE  SameNoted
<1>1. ASSUME NEW p \in Rider PROVE Waits(p)' <=> Waits(p)
  <2>1. task'[p] = task[p]
    BY Threads DEF Others
  <2> QED
    BY <2>1 DEF Waits, In
<1> QED
  BY <1>1, NotedKept

LEMMA NotedStay ==
  ASSUME Columns, Places, Tickets, Unborn, [Next]_vars, ~ \E p \in Rider : Count(p)
  PROVE  SameNoted
<1>1. ASSUME NEW S, Completes(S) PROVE \A p \in Rider : order'[p].r = order[p].r
  BY <1>1 DEF Completes
<1>2. ASSUME NEW t \in Thread, ReadRow(t) PROVE SameNoted
  <2>1. /\ Others(t) /\ task[t].pc = "row" /\ task'[t].pc = "act"
        /\ order' = order /\ lost' = lost
    BY <1>2, ReadRowFields DEF At, table
  <2>2. ASSUME NEW p \in Rider PROVE Waits(p)' <=> Waits(p)
    <3>1. CASE p = t
      BY <2>1, <3>1 DEF Waits, In
    <3>2. CASE p # t
      <4>1. task'[p] = task[p]
        BY <2>1, <3>2, Threads DEF Others
      <4> QED
        BY <2>1, <4>1 DEF Waits, In
    <3> QED
      BY <3>1, <3>2
  <2> QED
    BY <2>1, <2>2, NotedKept
<1>3. ASSUME NEW t \in Thread, Look(t) \/ Enter(t) PROVE SameNoted
  <2>1. Jumps(t, "open") \/ Jumps(t, "save") \/ Jumps(t, "commit") \/ Rests(t)
    BY <1>3, GotoFields, OverFields DEF Look, Enter, Pc
  <2>2. t \notin Rider /\ order' = order /\ lost' = lost
    BY <1>3, Enders DEF Look, Enter, At, In, Ending, table, history
  <2> QED
    BY <2>1, <2>2, NotedByDriver DEF Jumps, Rests
<1>4. ASSUME NEW t \in Thread, Save(t) PROVE SameNoted
  <2>1. Others(t) /\ order' = order /\ lost' = lost
    BY <1>4, SaveFields DEF history, Rests
  <2>2. t \notin Rider
    BY <1>4, Enders DEF Save, At, In, Ending
  <2> QED
    BY <2>1, <2>2, NotedByDriver
<1>5. ASSUME NEW t \in Thread, Write(t) PROVE SameNoted
  <2>1. Others(t) /\ Completes(task[t].off) /\ lost' = lost /\ At(t, "write")
    BY <1>5, WriteFields DEF history, Rests
  <2>2. t \notin Rider
    BY <2>1, Enders DEF At, In
  <2> QED
    BY <1>1, <2>1, <2>2, NotedByDriver
<1>6. ASSUME NEW t \in Gps \cup App, NEW r \in Route, BeginOn(t, r, "row") PROVE SameNoted
  <2>1. Others(t) /\ order' = order /\ lost' = lost /\ t \in Thread /\ t \notin Rider
    BY <1>6, BeginFields, Threads DEF table, history
  <2> QED
    BY <2>1, NotedByDriver
<1>7. ASSUME NEW g \in Gps, Close(g) \/ Observe(g) PROVE SameNoted
  <2>1. Others(g) /\ order' = order /\ lost' = lost /\ g \in Thread /\ g \notin Rider
    BY <1>7, CloseFields, ObserveFields, Threads DEF table, history
  <2> QED
    BY <2>1, NotedByDriver
<1>8. ASSUME NEW g \in Gps, Commit(g) PROVE SameNoted
  <2>1. /\ Completes(task[g].off) /\ Others(g) /\ lost' = lost
        /\ g \in Thread /\ g \notin Rider
    BY <1>8, CommitFields, Threads DEF Rests
  <2> QED
    BY <1>1, <2>1, NotedByDriver
<1>9. ASSUME NEW a \in App, Start(a) \/ CloseNow(a) PROVE SameNoted
  <2>1. a \in Thread /\ a \notin Rider /\ order' = order /\ lost' = lost
    BY <1>9, Threads DEF Start, CloseNow, table
  <2>2. Jumps(a, "open") \/ Jumps(a, "leave")
    BY <1>9, <2>1, GotoFields DEF Start, CloseNow, Pc
  <2> QED
    BY <2>1, <2>2, NotedByDriver DEF Jumps
<1>10. ASSUME NEW a \in App, LeaveAll(a) PROVE SameNoted
  <2>1. a \in Thread /\ a \notin Rider /\ lost' = lost
    BY <1>10, Threads DEF LeaveAll
  <2>2. Jumps(a, "look") /\ Completes(OnBoard(task[a].r))
    BY <1>10, <2>1, GotoFields, RodeFields DEF LeaveAll, Pc
  <2> QED
    BY <1>1, <2>1, <2>2, NotedByDriver DEF Jumps
<1>11. ASSUME NEW a \in App, ConfirmNext(a) PROVE SameNoted
  <2>1. Others(a) /\ order' = order /\ lost' = lost /\ a \in Thread /\ a \notin Rider
    BY <1>11, ConfirmNextFields, Threads DEF table, history
  <2> QED
    BY <2>1, NotedByDriver
<1>12. ASSUME NEW p \in Rider, Scan(p) PROVE SameNoted
  <2>1. PICK r \in Route : BeginOn(p, r, "board")
    BY <1>12 DEF Scan
  <2>2. /\ Others(p) /\ task[p].pc = "idle" /\ task'[p].pc = "board"
        /\ order' = order /\ lost' = lost
    BY <2>1, BeginFields, Threads DEF At, table, history
  <2>3. ASSUME NEW q \in Rider PROVE Waits(q)' <=> Waits(q)
    <3>1. CASE q = p
      BY <2>2, <3>1 DEF Waits, In
    <3>2. CASE q # p
      <4>1. task'[q] = task[q]
        BY <2>2, <3>2, Threads DEF Others
      <4> QED
        BY <2>2, <4>1 DEF Waits, In
    <3> QED
      BY <3>1, <3>2
  <2> QED
    BY <2>2, <2>3, NotedKept
<1>13. ASSUME NEW p \in Rider, Board(p) PROVE SameNoted
  <2>1. /\ task[p].pc = "board" /\ task'[p].pc = "row" /\ Others(p) /\ lost' = lost
        /\ \A q \in Rider : q # p => order'[q] = order[q]
    BY <1>13, BoardFields DEF Jumps, At
  <2>2. order[p].r = NoRoute
    BY <2>1 DEF Tickets, At
  <2>3. ASSUME NEW r \in Route, NEW q \in Rider
        PROVE  order'[q].r = r /\ ~Waits(q)' <=> order[q].r = r /\ ~Waits(q)
    <3>1. CASE q = p
      <4>1. r # NoRoute
        BY PeakAssumption DEF Route, NoRoute
      <4>2. Waits(p)'
        BY <2>1 DEF Waits, In
      <4> QED
        BY <2>2, <3>1, <4>1, <4>2
    <3>2. CASE q # p
      <4>1. task'[q] = task[q]
        BY <2>1, <3>2, Threads DEF Others
      <4> QED
        BY <2>1, <3>2, <4>1 DEF Waits, In
    <3> QED
      BY <3>1, <3>2
  <2>4. ASSUME NEW r \in Route PROVE Noted(r)' = Noted(r)
    <3>1. Noted(r)' = {q \in Rider : order'[q].r = r /\ ~Waits(q)'}
      BY DEF Noted, Uncounted, Waits
    <3> QED
      BY <2>3, <3>1, NotedBy
  <2> QED
    BY <2>4 DEF SameNoted
<1>14. CASE Crash
  <2>1. /\ \A t \in Thread : task'[t] = Idle
        /\ order' = order /\ lost' = lost \cup {p \in Rider : In(p, {"row", "act"})}
    BY <1>14, CrashFields DEF table
  <2>2. ASSUME NEW p \in Rider PROVE Waits(p)' <=> Waits(p)
    <3>1. task'[p].pc = "idle"
      BY <2>1, Threads, IdleTask
    <3> QED
      BY <2>1, <3>1 DEF Waits, In
  <2> QED
    BY <2>1, <2>2, NotedKept
<1>15. ASSUME \/ \E r \in Route : FinishRoute(r)
              \/ ResetRoute
              \/ \E w \in {"start", "renew"} : Shut(w)
              \/ UNCHANGED vars
       PROVE  SameNoted
  <2>1. UNCHANGED <<task, order, lost>>
    BY <1>15 DEF FinishRoute, ResetRoute, Shut, vars, table, history
  <2>2. ASSUME NEW p \in Rider PROVE Waits(p)' <=> Waits(p)
    BY <2>1 DEF Waits, In
  <2> QED
    BY <2>1, <2>2, NotedKept
<1> QED
  BY <1>2, <1>3, <1>4, <1>5, <1>6, <1>7, <1>8, <1>9, <1>10, <1>11, <1>12, <1>13, <1>14, <1>15
     DEF Next, Report, Confirm

\* A scan that counts adds its rider, who was not counted.
LEMMA OneCounted ==
  ASSUME Columns, Tickets, NEW p \in Rider, NEW r \in Route, r = task[p].r,
         At(p, "act"), Rests(p), order' = order, lost' = lost
  PROVE  /\ Heads(r) \in Nat /\ Heads(r)' = Heads(r) + 1
         /\ \A q \in Route : q # r => Heads(q)' = Heads(q)
<1>1. order[p].r = r /\ p \notin lost /\ Waits(p)
  BY DEF Tickets, At, In, Waits
<1>2. ~Waits(p)'
  BY <1>1, IdleTask DEF Rests, Waits, In
<1>3. ASSUME NEW q \in Rider, q # p PROVE Waits(q)' <=> Waits(q)
  <2>1. task'[q] = task[q]
    BY <1>3, Threads DEF Rests, Others
  <2> QED
    BY <2>1 DEF Waits, In
<1>4. \A q : Noted(q)' = {x \in Rider : order[x].r = q /\ ~Waits(x)'}
  BY DEF Noted, Uncounted, Waits
<1>5. p \notin Noted(r) /\ Noted(r)' = Noted(r) \cup {p}
  BY <1>1, <1>2, <1>3, <1>4, NotedBy
<1>6. IsFiniteSet(Noted(r))
  BY PeakAssumption, FS_Subset DEF Noted
<1>7. Cardinality(Noted(r) \cup {p}) = Cardinality(Noted(r)) + 1 /\ Cardinality(Noted(r)) \in Nat
  BY <1>5, <1>6, FS_AddElement, FS_CardinalityType
<1>8. ASSUME NEW q \in Route, q # r PROVE Heads(q)' = Heads(q)
  <2>1. Noted(q)' = Noted(q)
    BY <1>1, <1>3, <1>4, <1>8, NotedBy
  <2> QED
    BY <2>1 DEF Heads
<1> QED
  BY <1>5, <1>7, <1>8 DEF Heads

LEMMA HeadsOf ==
  ASSUME NEW r
  PROVE  /\ Heads(r) \in Nat
         /\ Boardings(r) = Heads(r) + Cardinality(Uncounted(r))
         /\ Cardinality(Uncounted(r)) \in Nat
<1>1. PICK S : S = {p \in Rider : order[p].r = r}
  OBVIOUS
<1>2. IsFiniteSet(S) /\ Uncounted(r) \subseteq S /\ Noted(r) = S \ Uncounted(r)
  BY <1>1, PeakAssumption, FS_Subset DEF Uncounted, Noted
<1>3. IsFiniteSet(Noted(r)) /\ IsFiniteSet(Uncounted(r))
  BY <1>2, FS_Subset
<1>4. Noted(r) \cup Uncounted(r) = S /\ Noted(r) \cap Uncounted(r) = {}
  BY <1>2
<1>5. Cardinality(Noted(r)) \in Nat /\ Cardinality(Uncounted(r)) \in Nat
  BY <1>3, FS_CardinalityType
<1>6. Cardinality(S) = Cardinality(Noted(r)) + Cardinality(Uncounted(r)) - Cardinality({})
  BY <1>3, <1>4, FS_Union
<1>7. Cardinality({}) = 0
  BY FS_EmptySet
<1> QED
  BY <1>1, <1>5, <1>6, <1>7 DEF Heads, Boardings

-----------------------------------------------------------------------------
(* The marks a task has read were counted when it read them, and what it   *)
(* writes back is one more: the marks of a route and those read from it    *)
(* never exceed its riders.                                                *)

LEMMA ReadKept ==
  ASSUME NEW t \in Thread, Others(t),
         task'[t].row = 0 \/ (KeepsRoute(t) /\ KeepsRow(t)),
         NEW u \in Thread, NEW r
  PROVE  Read(u, r)' \subseteq Read(u, r)
<1>1. CASE u = t
  BY <1>1 DEF Read, KeepsRoute, KeepsRow
<1>2. CASE u # t
  BY <1>2 DEF Read, Others
<1> QED
  BY <1>1, <1>2

LEMMA NextReads ==
  ASSUME Columns, Places, Unborn, [Next]_vars, NEW u \in Thread, NEW r \in Route
  PROVE  Read(u, r)' \subseteq Read(u, r) \cup Marks(r)
<1>1. ASSUME NEW t \in Thread, Rests(t) PROVE Read(u, r)' \subseteq Read(u, r)
  BY <1>1, ReadKept, IdleTask DEF Rests
<1>2. ASSUME NEW t \in Thread, NEW pc, Jumps(t, pc) PROVE Read(u, r)' \subseteq Read(u, r)
  BY <1>2, ReadKept DEF Jumps
<1>3. ASSUME NEW t \in Thread, ReadRow(t) PROVE Read(u, r)' \subseteq Read(u, r) \cup Marks(r)
  <2>1. /\ Others(t) /\ task'[t].r = task[t].r
        /\ task'[t].row # 0 => /\ task'[t].row \in Live(task[t].r)
                               /\ task'[t].on = rows[task[t].r][task'[t].row].on
    BY <1>3, ReadRowFields DEF KeepsRoute
  <2>2. CASE u = t
    <3>1. CASE task[t].r = r /\ task'[t].row # 0
      <4>1. PICK i \in DOMAIN rows[r] : i = task'[t].row
        BY <2>1, <3>1 DEF Live
      <4>2. Read(u, r)' = {i} \X (1 .. rows[r][i].on)
        BY <2>1, <2>2, <3>1, <4>1 DEF Read
      <4> QED
        BY <4>2 DEF Marks
    <3>2. CASE ~(task[t].r = r /\ task'[t].row # 0)
      BY <2>1, <2>2, <3>2 DEF Read
    <3> QED
      BY <3>1, <3>2
  <2>3. CASE u # t
    BY <2>1, <2>3 DEF Read, Others
  <2> QED
    BY <2>2, <2>3
<1>4. ASSUME NEW t \in Thread, Look(t) \/ Enter(t) PROVE Read(u, r)' \subseteq Read(u, r)
  <2>1. Jumps(t, "open") \/ Jumps(t, "save") \/ Jumps(t, "commit") \/ Rests(t)
    BY <1>4, GotoFields, OverFields DEF Look, Enter, Pc
  <2> QED
    BY <1>1, <1>2, <2>1
<1>5. ASSUME NEW t \in Thread, Save(t) PROVE Read(u, r)' \subseteq Read(u, r)
  <2>1. (Others(t) /\ KeepsRoute(t) /\ KeepsRow(t)) \/ Rests(t)
    BY <1>5, SaveFields
  <2> QED
    BY <1>1, <2>1, ReadKept
<1>6. ASSUME NEW t \in Thread, Write(t) PROVE Read(u, r)' \subseteq Read(u, r)
  BY <1>1, <1>6, WriteFields
<1>7. ASSUME NEW t \in Thread, NEW q \in Route, NEW pc \in {"row", "board"},
             BeginOn(t, q, pc)
      PROVE  Read(u, r)' \subseteq Read(u, r)
  BY <1>7, BeginFields, ReadKept
<1>8. ASSUME NEW g \in Gps, Close(g) PROVE Read(u, r)' \subseteq Read(u, r)
  BY <1>8, CloseFields, ReadKept, Threads
<1>9. ASSUME NEW g \in Gps, Observe(g) PROVE Read(u, r)' \subseteq Read(u, r)
  BY <1>9, ObserveFields, ReadKept, Threads
<1>10. ASSUME NEW g \in Gps, Commit(g) PROVE Read(u, r)' \subseteq Read(u, r)
  BY <1>1, <1>10, CommitFields, Threads
<1>11. ASSUME NEW a \in App, Start(a) \/ CloseNow(a) \/ LeaveAll(a)
       PROVE  Read(u, r)' \subseteq Read(u, r)
  <2>1. a \in Thread
    BY Threads
  <2>2. Jumps(a, "open") \/ Jumps(a, "leave") \/ Jumps(a, "look")
    BY <1>11, <2>1, GotoFields DEF Start, CloseNow, LeaveAll, Pc
  <2> QED
    BY <1>2, <2>1, <2>2
<1>12. ASSUME NEW a \in App, ConfirmNext(a) PROVE Read(u, r)' \subseteq Read(u, r)
  BY <1>12, ConfirmNextFields, ReadKept, Threads
<1>13. ASSUME NEW p \in Rider, Board(p) PROVE Read(u, r)' \subseteq Read(u, r)
  BY <1>2, <1>13, BoardFields, Threads
<1>20. ASSUME NEW p \in Rider, Count(p) PROVE Read(u, r)' \subseteq Read(u, r)
  BY <1>1, <1>20, CountFields, Threads
<1>21. CASE Crash
  BY <1>21, CrashFields, IdleTask DEF Read
<1>14. ASSUME task' = task PROVE Read(u, r)' \subseteq Read(u, r)
  BY <1>14 DEF Read
<1>15. ASSUME \/ \E q \in Route : FinishRoute(q)
              \/ ResetRoute
              \/ \E w \in {"start", "renew"} : Shut(w)
              \/ UNCHANGED vars
       PROVE  Read(u, r)' \subseteq Read(u, r)
  BY <1>14, <1>15 DEF FinishRoute, ResetRoute, Shut, vars
<1>16. ASSUME NEW t \in Thread, ReadRow(t) \/ Look(t) \/ Enter(t) \/ Save(t) \/ Write(t)
       PROVE  Read(u, r)' \subseteq Read(u, r) \cup Marks(r)
  BY <1>3, <1>4, <1>5, <1>6, <1>16
<1>17. ASSUME NEW g \in Gps, Report(g) \/ Close(g) \/ Observe(g) \/ Commit(g)
       PROVE  Read(u, r)' \subseteq Read(u, r)
  BY <1>7, <1>8, <1>9, <1>10, <1>17, Threads DEF Report
<1>18. ASSUME NEW a \in App,
              Start(a) \/ Confirm(a) \/ CloseNow(a) \/ LeaveAll(a) \/ ConfirmNext(a)
       PROVE  Read(u, r)' \subseteq Read(u, r)
  BY <1>7, <1>11, <1>12, <1>18, Threads DEF Confirm
<1>19. ASSUME NEW p \in Rider, Scan(p) \/ Board(p) \/ Count(p)
       PROVE  Read(u, r)' \subseteq Read(u, r)
  BY <1>7, <1>13, <1>19, <1>20, Threads DEF Scan
<1> QED
  BY <1>15, <1>16, <1>17, <1>18, <1>19, <1>21 DEF Next

LEMMA AllMarksOf ==
  ASSUME Columns, Places, Unborn, [Next]_vars, NEW r \in Route, NEW S,
         Marks(r)' \subseteq AllMarks(r) \cup S
  PROVE  AllMarks(r)' \subseteq AllMarks(r) \cup S
<1>1. \A u \in Thread : Read(u, r)' \subseteq AllMarks(r)
  BY NextReads DEF AllMarks
<1>2. AllMarks(r)' = Marks(r)' \cup UNION {Read(u, r)' : u \in Thread}
  BY DEF AllMarks
<1> QED
  BY <1>1, <1>2

LEMMA InitMarks == Init => MarksBound /\ MarksExact
<1> SUFFICES ASSUME Init PROVE MarksBound /\ MarksExact
  OBVIOUS
<1>1. ASSUME NEW r \in Route
      PROVE  /\ IsFiniteSet(AllMarks(r)) /\ Cardinality(Marks(r)) = 0
             /\ Cardinality(AllMarks(r)) = 0 /\ Heads(r) = 0
  <2>1. Marks(r) = {}
    BY EmptySeq DEF Init, Marks
  <2>2. \A t \in Thread : Read(t, r) = {}
    BY IdleTask DEF Init, Read
  <2>3. AllMarks(r) = {}
    BY <2>1, <2>2 DEF AllMarks
  <2>4. Noted(r) = {}
    BY PeakAssumption DEF Init, Route, NoRoute, Noted
  <2>5. IsFiniteSet({}) /\ Cardinality({}) = 0
    BY FS_EmptySet
  <2> QED
    BY <2>1, <2>3, <2>4, <2>5 DEF Heads
<1>2. MarksBound
  BY <1>1 DEF MarksBound
<1>3. MarksExact
  BY <1>1 DEF MarksExact
<1> QED
  BY <1>2, <1>3

LEMMA NextMarks ==
  ASSUME Columns, Places, Tickets, Unborn, Unmixed, MarksBound, MarksExact, [Next]_vars
  PROVE  MarksBound' /\ MarksExact'
<1>1. mixed \subseteq mixed'
  BY RowSteps
<1>2. \A r \in Route : IsFiniteSet(AllMarks(r)) /\ Cardinality(AllMarks(r)) <= Heads(r)
  BY DEF MarksBound
<1>3. CASE ~ \E p \in Rider : Count(p)
  <2>1. SameNoted /\ \A r \in Route : Marks(r)' = Marks(r)
    BY <1>3, MarksStay, NotedStay
  <2>2. ASSUME NEW r \in Route
        PROVE  IsFiniteSet(AllMarks(r)') /\ Cardinality(AllMarks(r)') <= Heads(r)'
    <3>1. AllMarks(r)' \subseteq AllMarks(r)
      <4>1. Marks(r)' \subseteq AllMarks(r) \cup {}
        BY <2>1 DEF AllMarks
      <4> QED
        BY <4>1, AllMarksOf
    <3>2. IsFiniteSet(AllMarks(r)')
      BY <1>2, <3>1, FS_Subset
    <3>3. Cardinality(AllMarks(r)') <= Cardinality(AllMarks(r))
      BY <1>2, <3>1, FS_Subset
    <3>4. Cardinality(AllMarks(r)') \in Nat /\ Cardinality(AllMarks(r)) \in Nat
      BY <1>2, <3>2, FS_CardinalityType
    <3>5. Heads(r)' = Heads(r) /\ Heads(r) \in Nat
      BY <2>1, HeadsOf DEF SameNoted, Heads
    <3> QED
      BY <1>2, <3>2, <3>3, <3>4, <3>5
  <2>3. ASSUME NEW r \in Route \ mixed' PROVE Cardinality(Marks(r)') = Heads(r)'
    BY <1>1, <2>1 DEF MarksExact, SameNoted, Heads
  <2> QED
    BY <2>2, <2>3 DEF MarksBound, MarksExact
<1>4. ASSUME NEW p \in Rider, Count(p) PROVE MarksBound' /\ MarksExact'
  <2>1. PICK r \in Route : r = task[p].r
    BY <1>4, CountFields
  <2>2. PICK i : i = task[p].row
    OBVIOUS
  <2>3. PICK n \in Nat : n = task[p].on
    BY Threads DEF Columns, TaskRow
  <2>4. PICK row : row = [st |-> rows[r][i].st, on |-> n + 1]
    OBVIOUS
  <2>5. /\ At(p, "act") /\ Rests(p) /\ order' = order /\ lost' = lost /\ mixed' = mixed
        /\ \/ i = 0 /\ Inserted(r, <<StartOf[p]>>, 1)
           \/ i \in DOMAIN rows[r] /\ rows[r][i].st = Gone /\ rows' = rows
           \/ i \in DOMAIN rows[r] /\ rows[r][i].st # Gone /\ Changed(r, i, row)
    BY <1>4, <2>1, <2>2, <2>3, <2>4, CountFields DEF history
  <2>6. /\ Heads(r) \in Nat /\ Heads(r)' = Heads(r) + 1
        /\ \A q \in Route : q # r => Heads(q)' = Heads(q)
    BY <2>1, <2>5, OneCounted
  <2>7. \A q \in Route : q # r => Marks(q)' = Marks(q)
    <3>1. \A q \in Route : q # r => rows'[q] = rows[q]
      BY <2>5 DEF Inserted, Changed
    <3> QED
      BY <3>1, SameMarks
  <2>8. i # 0 => i \in DOMAIN rows[r] /\ Read(p, r) = {i} \X (1 .. n)
    <3>1. i # 0 => i \in DOMAIN rows[r]
      BY <2>1, <2>2, Threads DEF Places, Reading
    <3> QED
      BY <2>1, <2>2, <2>3, <3>1 DEF Read
  <2>9. \E m : Marks(r)' \subseteq AllMarks(r) \cup {m}
    <3>1. CASE i = 0 /\ Inserted(r, <<StartOf[p]>>, 1)
      BY <3>1, MarksOfOne DEF AllMarks
    <3>2. CASE rows' = rows
      BY <3>2, SameMarks DEF AllMarks
    <3>3. CASE i \in DOMAIN rows[r] /\ Changed(r, i, row)
      <4>1. row.on = n + 1
        BY <2>4
      <4>2. Marks(r)' \subseteq Marks(r) \cup ({i} \X (1 .. n + 1))
        BY <3>3, <4>1, MarksOfRow
      <4>3. {i} \X (1 .. n + 1) \subseteq ({i} \X (1 .. n)) \cup {<<i, n + 1>>}
        BY 1 .. n + 1 = (1 .. n) \cup {n + 1}
      <4>4. i # 0
        BY <3>3, RowsOf
      <4>5. {i} \X (1 .. n) \subseteq AllMarks(r)
        BY <2>8, <4>4, Threads DEF AllMarks
      <4>6. Marks(r)' \subseteq AllMarks(r) \cup {<<i, n + 1>>}
        BY <4>2, <4>3, <4>5 DEF AllMarks
      <4> QED
        BY <4>6
    <3> QED
      BY <2>5, <3>1, <3>2, <3>3
  <2>10. ASSUME NEW q \in Route
         PROVE  IsFiniteSet(AllMarks(q)') /\ Cardinality(AllMarks(q)') <= Heads(q)'
    <3>1. CASE q = r
      <4>1. PICK m : Marks(r)' \subseteq AllMarks(r) \cup {m}
        BY <2>9
      <4>2. AllMarks(r)' \subseteq AllMarks(r) \cup {m}
        BY <4>1, AllMarksOf
      <4>3. /\ IsFiniteSet(AllMarks(r) \cup {m})
            /\ Cardinality(AllMarks(r) \cup {m}) \in
                 {Cardinality(AllMarks(r)), Cardinality(AllMarks(r)) + 1}
        BY <1>2, FS_AddElement
      <4>4. IsFiniteSet(AllMarks(r)')
        BY <4>2, <4>3, FS_Subset
      <4>5. Cardinality(AllMarks(r)') <= Cardinality(AllMarks(r) \cup {m})
        BY <4>2, <4>3, FS_Subset
      <4>6. Cardinality(AllMarks(r)) \in Nat /\ Cardinality(AllMarks(r)') \in Nat
        BY <1>2, <4>4, FS_CardinalityType
      <4>7. Cardinality(AllMarks(r)) <= Heads(r)
        BY <1>2
      <4> QED
        BY <2>6, <3>1, <4>3, <4>4, <4>5, <4>6, <4>7
    <3>2. CASE q # r
      <4>1. AllMarks(q)' \subseteq AllMarks(q)
        <5>1. Marks(q)' \subseteq AllMarks(q) \cup {}
          BY <2>7, <3>2 DEF AllMarks
        <5> QED
          BY <5>1, AllMarksOf
      <4>2. IsFiniteSet(AllMarks(q)')
        BY <1>2, <4>1, FS_Subset
      <4>3. Cardinality(AllMarks(q)') <= Cardinality(AllMarks(q))
        BY <1>2, <4>1, FS_Subset
      <4>4. Cardinality(AllMarks(q)') \in Nat /\ Cardinality(AllMarks(q)) \in Nat
        BY <1>2, <4>2, FS_CardinalityType
      <4>5. Heads(q)' = Heads(q) /\ Heads(q) \in Nat
        BY <2>6, <3>2, HeadsOf
      <4>6. Cardinality(AllMarks(q)) <= Heads(q)
        BY <1>2
      <4> QED
        BY <4>2, <4>3, <4>4, <4>5, <4>6
    <3> QED
      BY <3>1, <3>2
  <2>11. ASSUME NEW q \in Route \ mixed' PROVE Cardinality(Marks(q)') = Heads(q)'
    <3>1. CASE q = r
      <4>1. Current(p)
        <5>1. Holds(p, r) /\ p \in Thread
          BY <2>1, <2>5, Threads DEF Holds, At, In
        <5> QED
          BY <2>5, <2>11, <3>1, <5>1 DEF Unmixed
      <4>2. \E m : m \notin Marks(r) /\ Marks(r)' = Marks(r) \cup {m}
        <5>1. CASE i = 0 /\ Inserted(r, <<StartOf[p]>>, 1)
          BY <5>1, MarksOfOne
        <5>2. CASE i \in DOMAIN rows[r]
          <6>1. i # 0
            BY <5>2, RowsOf
          <6>2. rows[r][i].on = n /\ rows[r][i].st # Gone
            BY <2>1, <2>2, <2>3, <4>1, <6>1 DEF Current
          <6>3. Changed(r, i, row) /\ row.on = rows[r][i].on + 1
            BY <2>4, <2>5, <6>1, <6>2
          <6> QED
            BY <5>2, <6>3, MarksOfRow
        <5> QED
          BY <2>5, <5>1, <5>2
      <4>3. PICK m : m \notin Marks(r) /\ Marks(r)' = Marks(r) \cup {m}
        BY <4>2
      <4>4. IsFiniteSet(Marks(r))
        <5>1. Marks(r) \subseteq AllMarks(r)
          BY DEF AllMarks
        <5> QED
          BY <1>2, <5>1, FS_Subset
      <4>5. Cardinality(Marks(r) \cup {m}) = Cardinality(Marks(r)) + 1
        BY <4>3, <4>4, FS_AddElement
      <4>6. Cardinality(Marks(r)) = Heads(r)
        BY <2>5, <2>11, <3>1 DEF MarksExact
      <4> QED
        BY <2>6, <3>1, <4>3, <4>5, <4>6
    <3>2. CASE q # r
      BY <2>5, <2>6, <2>7, <2>11, <3>2 DEF MarksExact
    <3> QED
      BY <3>1, <3>2
  <2> QED
    BY <2>10, <2>11 DEF MarksBound, MarksExact
<1> QED
  BY <1>3, <1>4

-----------------------------------------------------------------------------
(* The theorems.                                                           *)

\* Every reachable state satisfies the invariant.
THEOREM Invariance == Spec => []IInv
<1>1. Init => IInv
  BY InitColumns, InitPlaces, InitOwners, InitTickets, InitUnborn, InitAppClosed, InitEnded,
     InitOne, InitUnmixed, InitRecorded, InitMarks DEF IInv, Shapes
<1>2. IInv /\ [Next]_vars => IInv'
  <2> SUFFICES ASSUME IInv, [Next]_vars PROVE IInv'
    OBVIOUS
  <2>1. /\ Columns /\ Places /\ Owners /\ Tickets /\ Unborn /\ AppClosed /\ EndedOK /\ One
        /\ Unmixed /\ RecordedOnce /\ MarksBound /\ MarksExact
    BY DEF IInv, Shapes
  <2>2. Columns' /\ Places' /\ Owners' /\ Tickets'
    BY <2>1, NextColumns, NextPlaces, NextOwners, NextTickets
  <2>3. Unborn' /\ AppClosed' /\ EndedOK' /\ One'
    BY <2>1, <2>2, NextUnborn, NextAppClosed, NextEnded, NextOne
  <2>4. Unmixed' /\ RecordedOnce' /\ MarksBound' /\ MarksExact'
    BY <2>1, NextUnmixed, NextRecorded, NextMarks
  <2> QED
    BY <2>2, <2>3, <2>4 DEF IInv, Shapes
<1> QED
  BY <1>1, <1>2, PTL DEF Spec

\* TypeOK: columns keep their shapes, a ticket has a route once it was scanned, and
\* synchronized (this) has one owner, who is about to save (TCarServiceImpl, MyRoute).
THEOREM TypeCorrect == Spec => []TypeOK
<1>1. IInv => TypeOK
  <2> SUFFICES ASSUME IInv PROVE TypeOK
    OBVIOUS
  <2>1. Columns /\ Places /\ Owners /\ Tickets
    BY DEF IInv, Shapes
  <2>2. \A r \in Route : /\ Len(rows[r]) <= MaxRow
                         /\ \A i \in DOMAIN rows[r] : rows[r][i].st \in NoStop .. Gone
    BY <2>1, RowsOf DEF Columns
  <2>3. ASSUME NEW t \in Thread PROVE At(t, "save") <=> t \in monitor[Monitor(t)]
    <3>1. ASSUME At(t, "save") PROVE t \in monitor[Monitor(t)]
      BY <2>1, <3>1, Enders DEF Owners, At, In, Ending
    <3>2. Monitor(t) \in Class
      BY DEF Monitor, Class
    <3> QED
      BY <2>1, <3>1, <3>2 DEF Owners
  <2> QED
    BY <2>1, <2>2, <2>3 DEF TypeOK, Columns, Tickets
<1> QED
  BY <1>1, Invariance, PTL

\* OneOpenRoute: of any number of starts, reports and confirmations at most one route
\* is open, unless a renewal at the terminal met another request that opens one: the
\* two classes that open routes do not share a monitor, and a report leaves its own
\* before it commits (getRouteInfo, carGetDown).
THEOREM OneRoute == Spec => []OneOpenRoute
<1>1. IInv => OneOpenRoute
  <2> SUFFICES ASSUME IInv, ~crossed PROVE Cardinality(Open) <= 1
    BY DEF OneOpenRoute
  <2>1. \A r, s \in Open : r = s
    BY DEF IInv, One
  <2>2. CASE Open = {}
    <3>1. Cardinality(Open) = 0
      BY <2>2, FS_EmptySet
    <3> QED
      BY <3>1
  <2>3. CASE Open # {}
    <3>1. PICK r : Open = {r}
      BY <2>1, <2>3
    <3>2. Cardinality(Open) = 1
      BY <3>1, FS_Singleton
    <3> QED
      BY <3>2
  <2> QED
    BY <2>2, <2>3
<1> QED
  BY <1>1, Invariance, PTL

\* EndEmptiesRoute: once a route has ended at the terminal nobody rides on it but those
\* scanned while it ended or later (carGetDown, confirmArrive, checkQrCallBack).
THEOREM EndedRouteEmpty == Spec => []EndEmptiesRoute
<1>1. IInv => EndEmptiesRoute
  BY DEF IInv, EndedOK
<1> QED
  BY <1>1, Invariance, PTL

\* BoardingsCounted: the counts of a route's stations and the scans on it that are
\* between their two writes, or were ended there by a crash, never exceed the riders
\* scanned on it, whatever a scan overwrites, and make up their number unless two
\* tasks read its rows at once (checkQrCallBack).
THEOREM CountsRight == Spec => []BoardingsCounted
<1>1. IInv => BoardingsCounted
  <2> SUFFICES ASSUME IInv, NEW r \in Route
               PROVE  /\ Counted(r) <= Boardings(r)
                      /\ r \notin mixed => Counted(r) = Boardings(r)
    BY DEF BoardingsCounted
  <2>1. IsFiniteSet(AllMarks(r)) /\ Cardinality(AllMarks(r)) <= Heads(r)
    BY DEF IInv, MarksBound
  <2>2. Marks(r) \subseteq AllMarks(r)
    BY DEF AllMarks
  <2>3. IsFiniteSet(Marks(r))
    BY <2>1, <2>2, FS_Subset
  <2>4. Cardinality(Marks(r)) <= Cardinality(AllMarks(r))
    BY <2>1, <2>2, FS_Subset
  <2>5. Cardinality(Marks(r)) \in Nat /\ Cardinality(AllMarks(r)) \in Nat
    BY <2>1, <2>3, FS_CardinalityType
  <2>6. /\ Heads(r) \in Nat /\ Cardinality(Uncounted(r)) \in Nat
        /\ Boardings(r) = Heads(r) + Cardinality(Uncounted(r))
    BY HeadsOf
  <2>7. r \notin mixed => Cardinality(Marks(r)) = Heads(r)
    BY DEF IInv, MarksExact
  <2> QED
    BY <2>1, <2>4, <2>5, <2>6, <2>7 DEF Counted
<1> QED
  BY <1>1, Invariance, PTL

\* RecordedOnce: a station is recorded once per route unless two tasks read its rows
\* at once; what a task found missing is missing still when it writes (carGetDown,
\* confirmArrive).
THEOREM OnceRecorded == Spec => []RecordedOnce
<1>1. IInv => RecordedOnce
  BY DEF IInv
<1> QED
  BY <1>1, Invariance, PTL

\* A route that has closed stays closed, by whichever of the five ways it did
\* (carGetDown, confirmArrive, finishRoute, resetRoute).
ClosedForGood == \A r \in Route : route[r] = "closed" => route'[r] = "closed"

THEOREM RoutesStayClosed == Spec => [][ClosedForGood]_vars
<1>1. IInv /\ [Next]_vars => [ClosedForGood]_vars
  <2> SUFFICES ASSUME IInv, [Next]_vars PROVE ClosedForGood
    OBVIOUS
  <2>1. \A q \in Route : Onward(q)
    BY RouteMoves DEF IInv, Shapes
  <2> QED
    BY <2>1 DEF ClosedForGood, Onward
<1> QED
  BY <1>1, Invariance, PTL DEF Spec
=============================================================================
