------------------------- MODULE DriverCarBindProofs -------------------------
(***************************************************************************)
(* Theorems of DriverCarBind, for every value of its constants.            *)
(*                                                                         *)
(* BoundOnce is not inductive: add checks the car, then frees the driver's *)
(* former rows, then saves, and the checks have to last until the save.    *)
(* Ready states what a task in between relies on; Apart is why no other    *)
(* task takes it away.  BoundIsCached needs KInv as well: what the keys    *)
(* and the rows of a driver are while a handler is half way through them.  *)
(***************************************************************************)
EXTENDS DriverCarBind, FiniteSetTheorems, TLAPS

\* Steps of add.
BindPc == {"list", "free", "save", "carKey", "driverKey"}

\* A task serves a driver, frees rows that were saved, and counts the car it
\* binds among those it may touch.
TaskOK(k) ==
  /\ k.pc # "idle" => k.d \in Driver
  /\ \A i \in k.ids : row[i].state # "none"
  /\ k.pc \in BindPc => k.c \in Car /\ k.c \in k.cars

\* Until add saves its row the car is free, and once the former rows were
\* listed, and freed, the driver has no others, and none.
Ready(k) ==
  /\ k.pc \in {"list", "free", "save"} => RowsOn(k.c) = {}
  /\ k.pc = "free" => RowsOf(k.d) \subseteq k.ids
  /\ k.pc = "save" => RowsOf(k.d) = {}

\* Two tasks share neither driver nor car.
Clear(k, l) == k.d # l.d /\ k.cars \cap l.cars = {}
Apart == \A t, u \in InFlight : t # u => Clear(task[t], task[u])

TasksOK == \A t \in Thread : TaskOK(task[t])
Orderly == ~disorder => Apart /\ \A t \in Thread : Ready(task[t])

IInv == TypeOK /\ TasksOK /\ BoundOnce /\ Orderly

Pc == {"idle", "list", "free", "save", "carKey", "driverKey", "freeRow",
       "readKey", "dropCar", "dropDriver", "commit"}
Task == [pc : Pc, d : Driver \cup {NoDriver}, c : Car \cup {NoCar}, ids : SUBSET Id,
         today : BOOLEAN, cars : SUBSET Car]
RowType == row \in [Id -> Row \cup {Unused}]
CacheType == driverOf \in [Car -> Driver \cup {NoDriver}] /\ carOf \in [Driver -> Car \cup {NoCar}]

\* The parts of the type invariant.
LEMMA TypeParts ==
  TypeOK <=> RowType /\ CacheType /\ task \in [Thread -> Task] /\ disorder \in BOOLEAN
BY DEF TypeOK, RowType, CacheType, Task, Pc

\* No row becomes bound, or changes its driver or car, and none disappears.
Shrinks ==
  \A i \in Id :
    /\ Bound(i)' => Bound(i) /\ row'[i].d = row[i].d /\ row'[i].c = row[i].c
    /\ row[i].state # "none" => row'[i].state # "none"

\* Freeing saved rows shrinks the table.
LEMMA FreeShrinks ==
  ASSUME RowType, NEW S \in SUBSET Id, \A i \in S : row[i].state # "none", row' = Free(S)
  PROVE  RowType' /\ Shrinks
BY BindAssumption DEF RowType, Row, Unused, Free, Shrinks, Bound

\* So does leaving it as it is.
LEMMA SameShrinks ==
  ASSUME RowType, row' = row
  PROVE  RowType' /\ Shrinks
BY DEF RowType, Shrinks, Bound

\* What tasks rely on survives when rows are freed.
LEMMA ShrunkTask ==
  ASSUME IInv, Shrinks, NEW k \in Task
  PROVE  /\ TaskOK(k) => TaskOK(k)'
         /\ Ready(k) => Ready(k)'
         /\ (~disorder' => ~disorder) => BoundOnce'
  <1>1. ASSUME NEW c PROVE RowsOn(c)' \subseteq RowsOn(c)
    BY DEF RowsOn, Shrinks
  <1>2. ASSUME NEW d PROVE RowsOf(d)' \subseteq RowsOf(d)
    BY DEF RowsOf, Shrinks
  <1>3. TaskOK(k) => TaskOK(k)'
    BY DEF TaskOK, Shrinks, Task
  <1>4. Ready(k) => Ready(k)'
    BY <1>1, <1>2 DEF Ready
  <1>5. (~disorder' => ~disorder) => BoundOnce'
    BY DEF IInv, BoundOnce, Shrinks
  <1> QED
    BY <1>3, <1>4, <1>5

\* One task moves on: what has to be shown of it and of the others.
LEMMA MoveStep ==
  ASSUME IInv, RowType', CacheType', disorder' \in BOOLEAN, BoundOnce',
         ~disorder' => ~disorder,
         NEW t \in Thread, NEW k \in Task, task' = [task EXCEPT ![t] = k],
         \A u \in Thread \ {t} : TaskOK(task[u])' /\ (~disorder' => Ready(task[u])'),
         TaskOK(k)',
         ~disorder' => Ready(k)',
         ~disorder' /\ k.pc # "idle" => \A u \in InFlight \ {t} : Clear(k, task[u])
  PROVE  IInv'
<1>1. task \in [Thread -> Task] /\ Orderly
  BY TypeParts DEF IInv
<1>2. TypeOK'
  <2>1. task' \in [Thread -> Task]
    BY <1>1
  <2> QED
    BY <2>1, TypeParts DEF TypeOK, RowType, CacheType, Task, Pc
<1>3. ASSUME NEW u \in Thread PROVE TaskOK(task[u])' /\ (~disorder' => Ready(task[u])')
  <2>1. CASE u = t
    <3>1. task'[u] = k
      BY <1>1, <2>1
    <3> QED
      BY <3>1 DEF TaskOK, Ready
  <2> QED
    BY <2>1
<1>4. ~disorder' => Apart'
  <2> SUFFICES ASSUME ~disorder', NEW u \in InFlight', NEW v \in InFlight', u # v
               PROVE  Clear(task'[u], task'[v])
    BY DEF Apart
  <2>1. u \in Thread /\ v \in Thread /\ Apart
    BY <1>1 DEF InFlight, Orderly
  <2>2. CASE u # t /\ v # t
    BY <1>1, <2>1, <2>2 DEF InFlight, At, Apart
  <2>3. CASE u = t
    <3>1. task'[v] = task[v] /\ v \in InFlight \ {t} /\ task'[u] = k /\ k.pc # "idle"
      BY <1>1, <2>1, <2>3 DEF InFlight, At
    <3> QED
      BY <3>1
  <2>4. CASE v = t
    <3>1. task'[u] = task[u] /\ u \in InFlight \ {t} /\ task'[v] = k /\ k.pc # "idle"
      BY <1>1, <2>1, <2>4 DEF InFlight, At
    <3> QED
      BY <3>1 DEF Clear
  <2> QED
    BY <2>2, <2>3, <2>4
<1> QED
  BY <1>2, <1>3, <1>4 DEF IInv, TasksOK, Orderly

\* Tasks that stay where they are keep what they rely on when rows are freed.
LEMMA OthersKeep ==
  ASSUME IInv, Shrinks, NEW u \in Thread, task'[u] = task[u], ~disorder' => ~disorder
  PROVE  TaskOK(task[u])' /\ (~disorder' => Ready(task[u])')
<1> DEFINE l == task[u]
<1>1. l \in Task /\ TaskOK(l) /\ (~disorder => Ready(l)) /\ task'[u] = l
  BY TypeParts DEF IInv, TasksOK, Orderly
<1> HIDE DEF l
<1>2. PICK m \in Task : m = l
  BY <1>1
<1>3. TaskOK(m)' /\ (~disorder' => Ready(m)')
  BY <1>1, <1>2, ShrunkTask
<1> QED
  BY <1>1, <1>2, <1>3 DEF TaskOK, Ready

\* One task moves on and rows are freed at most.
LEMMA ShrinkStep ==
  ASSUME IInv, Shrinks, RowType', CacheType', disorder' \in BOOLEAN,
         ~disorder' => ~disorder,
         NEW t \in Thread, NEW k \in Task, task' = [task EXCEPT ![t] = k],
         TaskOK(k)',
         ~disorder' => Ready(k)',
         ~disorder' /\ k.pc # "idle" => \A u \in InFlight \ {t} : Clear(k, task[u])
  PROVE  IInv'
<1>1. task \in [Thread -> Task]
  BY TypeParts DEF IInv
<1>2. BoundOnce'
  BY ShrunkTask
<1>3. \A u \in Thread \ {t} : TaskOK(task[u])' /\ (~disorder' => Ready(task[u])')
  <2> TAKE u \in Thread \ {t}
  <2>1. task'[u] = task[u]
    BY <1>1
  <2> QED
    BY <2>1, OthersKeep
<1> QED
  BY <1>2, <1>3, MoveStep

\* No task moves and rows are freed at most.
LEMMA StillStep ==
  ASSUME IInv, Shrinks, RowType', CacheType', disorder' \in BOOLEAN,
         ~disorder' => ~disorder, task' = task
  PROVE  IInv'
<1>1. TypeOK'
  BY TypeParts DEF IInv, TypeOK, RowType, CacheType, Task, Pc
<1>2. \A u \in Thread : TaskOK(task[u])' /\ (~disorder' => Ready(task[u])')
  BY OthersKeep
<1>3. BoundOnce'
  BY DEF IInv, BoundOnce, Shrinks
<1>4. ~disorder' => Apart'
  BY DEF IInv, Orderly, Apart, InFlight, At
<1> QED
  BY <1>1, <1>2, <1>3, <1>4 DEF IInv, TasksOK, Orderly

\* A task under way stays clear of the others as long as it keeps its driver and
\* its cars.
LEMMA StaysClear ==
  ASSUME IInv, ~disorder, NEW t \in InFlight, NEW k \in Task,
         k.d = task[t].d, k.cars = task[t].cars
  PROVE  \A u \in InFlight \ {t} : Clear(k, task[u])
BY DEF IInv, Orderly, Apart, Clear

\* What IInv says of the task that moves.
LEMMA Unfolded ==
  ASSUME IInv, NEW t \in Thread
  PROVE  /\ RowType /\ CacheType /\ task \in [Thread -> Task] /\ disorder \in BOOLEAN
         /\ task[t] \in Task /\ TaskOK(task[t]) /\ (~disorder => Ready(task[t]))
         /\ ~At(t, "idle") => t \in InFlight /\ task[t].d \in Driver
BY TypeParts DEF IInv, TasksOK, Orderly, TaskOK, InFlight, At

\* A task moves to another step with its driver and cars unchanged.
LEMMA OnwardStep ==
  ASSUME IInv, Shrinks, RowType', CacheType', disorder' = disorder,
         NEW t \in Thread, ~At(t, "idle"),
         NEW k \in Task, task' = [task EXCEPT ![t] = k],
         k.d = task[t].d, k.cars = task[t].cars,
         TaskOK(k)', ~disorder => Ready(k)'
  PROVE  IInv'
<1>1. t \in InFlight /\ disorder \in BOOLEAN
  BY Unfolded
<1>2. ~disorder => \A u \in InFlight \ {t} : Clear(k, task[u])
  BY <1>1, StaysClear
<1> QED
  BY <1>1, <1>2, ShrinkStep

\* A task that is over relies on nothing.
LEMMA FinishStep ==
  ASSUME IInv, Shrinks, RowType', CacheType', disorder' = disorder,
         NEW t \in Thread, Finish(t)
  PROVE  IInv'
<1>1. Idle \in Task /\ disorder \in BOOLEAN
  BY Unfolded DEF Idle, Task, Pc
<1>2. PICK k \in Task : k = Idle
  BY <1>1
<1>3. TaskOK(k)' /\ Ready(k)' /\ k.pc = "idle"
  BY <1>2 DEF TaskOK, Ready, Idle, BindPc
<1>4. task' = [task EXCEPT ![t] = k]
  BY <1>2 DEF Finish
<1> QED
  BY <1>1, <1>3, <1>4, ShrinkStep

\* A task begins: if it meets no other it is clear of them all.
LEMMA BeginStep ==
  ASSUME IInv, Shrinks, RowType', UNCHANGED cache,
         NEW t \in Thread, NEW pc \in Pc, NEW d \in Driver, NEW c \in Car \cup {NoCar},
         NEW ids \in SUBSET Id, Begin(t, pc, d, c, ids),
         \A i \in ids : row[i].state # "none",
         pc \in BindPc => pc = "list" /\ c \in Car /\ RowsOn(c) = {}
  PROVE  IInv'
<1> DEFINE C == CarsOf(d) \cup ({c} \ {NoCar})
           l == [pc |-> pc, d |-> d, c |-> c, ids |-> ids, today |-> TRUE, cars |-> C]
<1>1. RowType /\ CacheType /\ CacheType' /\ disorder \in BOOLEAN
  BY Unfolded DEF CacheType, cache
<1>2. C \in SUBSET Car
  <2>1. \A i \in RowsOf(d) : row[i].c \in Car
    BY <1>1, BindAssumption DEF RowsOf, RowType, Row, Unused, Bound
  <2> QED
    BY <1>1, <2>1 DEF CarsOf, CacheType
<1>3. l \in Task
  BY <1>2 DEF Task
<1>4. task' = [task EXCEPT ![t] = l] /\ disorder' = (disorder \/ Meets(d, C))
  BY DEF Begin
<1>5. ~disorder' => \A u \in InFlight \ {t} : Clear(l, task[u])
  BY <1>4 DEF Meets, Clear
<1>6. pc \in BindPc => c \in C
  BY BindAssumption
<1>7. PICK k \in Task : k = l
  BY <1>3
<1>8. TaskOK(k) /\ Ready(k)
  BY <1>6, <1>7 DEF TaskOK, Ready, BindPc
<1>9. TaskOK(k)' /\ Ready(k)'
  BY <1>8, ShrunkTask
<1> HIDE DEF l, C
<1> QED
  BY <1>1, <1>4, <1>5, <1>7, <1>9, ShrinkStep

-----------------------------------------------------------------------------
(* The actions.                                                            *)

\* A driver takes a car that no bound row has.
LEMMA BindInv == ASSUME IInv, NEW t \in Thread, NEW d \in Driver, NEW c \in Car, Bind(t, d, c)
                 PROVE  IInv'
BY Unfolded, SameShrinks, BeginStep DEF Bind, Pc

\* Rows that are bound were saved.
LEMMA BoundWasSaved == \A d : RowsOf(d) \in SUBSET Id /\ \A i \in RowsOf(d) : row[i].state # "none"
BY DEF RowsOf, Bound

\* The driver's row is loaded by update.
LEMMA UnbindInv == ASSUME IInv, NEW t \in Thread, NEW d \in Driver, Unbind(t, d)
                   PROVE  IInv'
BY Unfolded, SameShrinks, BeginStep, BoundWasSaved DEF Unbind, Pc, BindPc

\* The driver's row is loaded by loginOutDriver.
LEMMA LoginOutInv == ASSUME IInv, NEW t \in Thread, NEW d \in Driver, LoginOut(t, d)
                     PROVE  IInv'
<1>1. PICK i \in RowsOf(d) : Begin(t, "dropCar", d, row[i].c, {i})
  BY DEF LoginOut
<1>2. i \in Id /\ row[i].state = "bound" /\ row[i].c \in Car
  BY <1>1, Unfolded DEF RowsOf, Bound, RowType, Row, Unused
<1> QED
  BY <1>1, <1>2, Unfolded, SameShrinks, BeginStep DEF LoginOut, Pc, BindPc

\* The driver's rows are freed by driverLogout.
LEMMA DriverLogoutInv == ASSUME IInv, NEW t \in Thread, NEW d \in Driver, DriverLogout(t, d)
                         PROVE  IInv'
<1>1. RowType' /\ Shrinks
  BY Unfolded, FreeShrinks, BoundWasSaved DEF DriverLogout, LogoutRows
<1> QED
  BY <1>1, BeginStep DEF DriverLogout, Pc, BindPc

\* The former rows are listed: they are all of the driver's bound rows.
LEMMA ListFormerInv == ASSUME IInv, NEW t \in Thread, ListFormer(t)
                       PROVE  IInv'
<1> DEFINE l == [task[t] EXCEPT !.pc = "free", !.ids = Former(task[t].d), !.today = TRUE]
<1>1. /\ RowType' /\ CacheType' /\ Shrinks /\ task \in [Thread -> Task] /\ task[t] \in Task
      /\ TaskOK(task[t]) /\ (~disorder => Ready(task[t]))
  BY Unfolded, SameShrinks DEF ListFormer, cache, CacheType
<1>2. task' = [task EXCEPT ![t] = l]
  BY <1>1 DEF ListFormer
<1>3. l \in Task
  BY <1>1, BoundWasSaved DEF Task, Pc, Former
<1>4. PICK k \in Task : k = l
  BY <1>3
<1>5. TaskOK(k) /\ (~disorder => Ready(k))
  BY <1>1, <1>4, BoundWasSaved DEF TaskOK, Ready, Former, ListFormer, At, BindPc, Task
<1>6. TaskOK(k)' /\ (~disorder => Ready(k)')
  BY <1>1, <1>5, ShrunkTask
<1>7. k.d = task[t].d /\ k.cars = task[t].cars
  BY <1>1, <1>4 DEF Task
<1>8. disorder' = disorder /\ ~At(t, "idle")
  BY DEF ListFormer, At
<1> HIDE DEF l
<1> QED
  BY <1>1, <1>2, <1>4, <1>6, <1>7, <1>8, OnwardStep

\* The former rows are freed: the driver has none.
LEMMA FreeFormerInv == ASSUME IInv, NEW t \in Thread, FreeFormer(t)
                       PROVE  IInv'
<1> DEFINE l == [task[t] EXCEPT !.pc = "save"]
<1>1. /\ RowType /\ task \in [Thread -> Task] /\ task[t] \in Task
      /\ TaskOK(task[t]) /\ (~disorder => Ready(task[t])) /\ CacheType'
  BY Unfolded DEF FreeFormer, cache, CacheType
<1>2. task' = [task EXCEPT ![t] = l] /\ At(t, "free") /\ row' = Free(task[t].ids)
  BY DEF FreeFormer, Goto
<1>3. RowType' /\ Shrinks
  BY <1>1, <1>2, FreeShrinks DEF TaskOK, Task
<1>4. PICK k \in Task : k = l
  BY <1>1 DEF Task, Pc
<1>5. TaskOK(k)
  BY <1>1, <1>2, <1>4 DEF TaskOK, At, BindPc, Task
<1>6. ASSUME ~disorder PROVE Ready(k)'
  <2>1. RowsOn(k.c) = {} /\ RowsOf(k.d) \subseteq task[t].ids
    BY <1>1, <1>2, <1>4, <1>6 DEF Ready, At, Task
  <2>2. RowsOn(k.c)' = {} /\ RowsOf(k.d)' \subseteq RowsOf(k.d)
    BY <1>3, <2>1 DEF RowsOn, RowsOf, Shrinks
  <2>3. \A i \in task[t].ids : ~Bound(i)'
    BY <1>1, <1>2 DEF Free, Bound, RowType, Row, Unused, Task
  <2>4. RowsOf(k.d)' = {}
    BY <2>1, <2>2, <2>3 DEF RowsOf
  <2> QED
    BY <1>1, <1>4, <2>2, <2>4 DEF Ready, Task
<1>7. k.d = task[t].d /\ k.cars = task[t].cars
  BY <1>1, <1>4 DEF Task
<1>8. disorder' = disorder /\ ~At(t, "idle") /\ TaskOK(k)'
  BY <1>2, <1>3, <1>5, ShrunkTask DEF FreeFormer, At
<1> HIDE DEF l
<1> QED
  BY <1>1, <1>2, <1>3, <1>4, <1>6, <1>7, <1>8, OnwardStep

\* A task goes on to a step that relies on nothing.
LEMMA GotoStep ==
  ASSUME IInv, Shrinks, RowType', CacheType', disorder' = disorder,
         NEW t \in Thread, NEW pc \in Pc, ~At(t, "idle"), Goto(t, pc),
         pc \notin {"list", "free", "save"}, pc \in BindPc => task[t].pc \in BindPc
  PROVE  IInv'
<1> DEFINE l == [task[t] EXCEPT !.pc = pc]
<1>1. task \in [Thread -> Task] /\ task[t] \in Task /\ TaskOK(task[t])
  BY Unfolded
<1>2. PICK k \in Task : k = l
  BY <1>1 DEF Task
<1>3. TaskOK(k) /\ Ready(k)
  BY <1>1, <1>2 DEF TaskOK, Ready, Task, At
<1>4. TaskOK(k)' /\ Ready(k)'
  BY <1>3, ShrunkTask
<1>5. k.d = task[t].d /\ k.cars = task[t].cars /\ task' = [task EXCEPT ![t] = k]
  BY <1>1, <1>2 DEF Task, Goto
<1> HIDE DEF l
<1> QED
  BY <1>4, <1>5, OnwardStep

\* A key set or dropped keeps its type.
LEMMA SetKeyType ==
  ASSUME NEW K, NEW V, NEW f \in [K -> V], NEW k \in K, NEW v \in V, NEW t \in Thread
  PROVE  SetKey(f, k, v, t) \in [K -> V]
BY DEF SetKey

\* The new row is saved: the car was free, the driver had no row, and no other
\* task is about either of them.
LEMMA SaveRowInv == ASSUME IInv, NEW t \in Thread, SaveRow(t)
                    PROVE  IInv'
<1> DEFINE d == task[t].d
           c == task[t].c
           n == NewId
           new == [d |-> d, c |-> c, state |-> "bound", today |-> TRUE]
           l == [task[t] EXCEPT !.pc = "carKey"]
<1>1. /\ RowType /\ CacheType /\ task \in [Thread -> Task] /\ task[t] \in Task /\ TaskOK(task[t])
      /\ disorder \in BOOLEAN /\ (~disorder => Ready(task[t]))
  BY Unfolded
<1>2. At(t, "save") /\ disorder' = disorder /\ CacheType' /\ UnusedIds # {}
  BY <1>1 DEF SaveRow, cache, CacheType
<1>3. d \in Driver /\ c \in Car /\ c \in task[t].cars /\ t \in InFlight
  BY <1>1, <1>2 DEF TaskOK, At, BindPc, InFlight
<1>4. n \in Id /\ row[n].state = "none"
  BY <1>2 DEF NewId, UnusedIds
<1>5. row' = [row EXCEPT ![n] = new] /\ new \in Row
  BY <1>3 DEF SaveRow, Saved, Row
<1>6. RowType' /\ \A i \in Id : row[i].state # "none" => row'[i].state # "none"
  BY <1>1, <1>4, <1>5 DEF RowType
<1>7. task' = [task EXCEPT ![t] = l]
  BY DEF SaveRow, Goto
<1>8. PICK k \in Task : k = l
  BY <1>1 DEF Task, Pc
<1>9. TaskOK(k)' /\ Ready(k)'
  BY <1>1, <1>2, <1>6, <1>8 DEF TaskOK, Ready, At, BindPc, Task
<1> HIDE DEF n, new
<1>10. BoundOnce'
  <2> SUFFICES ASSUME ~disorder', NEW i \in Id, NEW j \in Id, Bound(i)', Bound(j)',
                      row'[i].d = row'[j].d \/ row'[i].c = row'[j].c
               PROVE  i = j
    BY DEF BoundOnce
  <2>1. RowsOn(c) = {} /\ RowsOf(d) = {}
    BY <1>1, <1>2 DEF Ready, At
  <2>2. \A m \in Id \ {n} : row'[m] = row[m]
    BY <1>1, <1>5 DEF RowType
  <2>3. row'[n] = new /\ new.d = d /\ new.c = c
    BY <1>1, <1>4, <1>5 DEF RowType, new
  <2>4. CASE i # n /\ j # n
    BY <1>2, <2>2, <2>4 DEF IInv, BoundOnce, Bound
  <2>5. CASE i = n /\ j # n
    BY <2>1, <2>2, <2>3, <2>5 DEF RowsOn, RowsOf, Bound
  <2>6. CASE j = n /\ i # n
    BY <2>1, <2>2, <2>3, <2>6 DEF RowsOn, RowsOf, Bound
  <2> QED
    BY <2>4, <2>5, <2>6
<1>11. ASSUME NEW u \in Thread \ {t} PROVE TaskOK(task[u])' /\ (~disorder' => Ready(task[u])')
  <2>1. task'[u] = task[u] /\ task[u] \in Task /\ TaskOK(task[u])
    BY <1>1, <1>7, Unfolded
  <2>2. TaskOK(task[u])'
    BY <1>6, <2>1 DEF TaskOK, Task
  <2>3. ASSUME ~disorder' PROVE Ready(task[u])'
    <3>1. Ready(task[u]) /\ Orderly
      BY <1>2, <2>3, Unfolded DEF IInv
    <3>2. CASE task[u].pc \notin {"list", "free", "save"}
      BY <2>1, <3>2 DEF Ready
    <3>3. CASE task[u].pc \in {"list", "free", "save"}
      <4>1. u \in InFlight /\ task[u].c \in task[u].cars
        BY <2>1, <3>3 DEF InFlight, At, TaskOK, BindPc
      <4>2. task[u].d # d /\ task[u].c # c
        BY <1>2, <1>3, <2>3, <3>1, <4>1 DEF Orderly, Apart, Clear
      <4>3. \A i \in Id : Bound(i)' => i = n \/ (Bound(i) /\ row'[i] = row[i])
        BY <1>1, <1>5 DEF RowType, Bound
      <4>4. row'[n].d = d /\ row'[n].c = c
        BY <1>1, <1>4, <1>5 DEF RowType, new
      <4>5. RowsOn(task[u].c)' \subseteq RowsOn(task[u].c)
        BY <2>1, <4>2, <4>3, <4>4 DEF RowsOn
      <4>6. RowsOf(task[u].d)' \subseteq RowsOf(task[u].d)
        BY <2>1, <4>2, <4>3, <4>4 DEF RowsOf
      <4> QED
        BY <2>1, <3>1, <4>5, <4>6 DEF Ready
    <3> QED
      BY <3>2, <3>3
  <2> QED
    BY <2>2, <2>3
<1>12. ~disorder' => \A u \in InFlight \ {t} : Clear(k, task[u])
  <2>1. k.d = task[t].d /\ k.cars = task[t].cars
    BY <1>1, <1>8 DEF Task
  <2> QED
    BY <1>2, <1>3, <2>1, StaysClear
<1> HIDE DEF l
<1> QED
  BY <1>1, <1>2, <1>6, <1>7, <1>8, <1>9, <1>10, <1>11, <1>12, MoveStep

\* The key of the car is set.
LEMMA SetCarKeyInv == ASSUME IInv, NEW t \in Thread, SetCarKey(t)
                      PROVE  IInv'
<1>1. /\ RowType /\ CacheType /\ TaskOK(task[t]) /\ At(t, "carKey")
      /\ task[t].d \in Driver /\ task[t].c \in Car
  BY Unfolded DEF SetCarKey, At, TaskOK, BindPc
<1>2. CacheType'
  BY <1>1, SetKeyType DEF SetCarKey, CacheType
<1> QED
  BY <1>1, <1>2, SameShrinks, GotoStep DEF SetCarKey, At, Pc, BindPc

\* The key of the driver is set.
LEMMA SetDriverKeyInv == ASSUME IInv, NEW t \in Thread, SetDriverKey(t)
                         PROVE  IInv'
<1>1. /\ RowType /\ CacheType /\ At(t, "driverKey") /\ task[t].d \in Driver
      /\ task[t] \in Task
  BY Unfolded DEF SetDriverKey, At
<1>2. CacheType'
  BY <1>1, SetKeyType DEF SetDriverKey, CacheType, Task
<1> QED
  BY <1>1, <1>2, SameShrinks, FinishStep DEF SetDriverKey

\* The loaded row is freed.
LEMMA FreeRowInv == ASSUME IInv, NEW t \in Thread, FreeRow(t)
                    PROVE  IInv'
<1> DEFINE l == [task[t] EXCEPT !.pc = "readKey", !.ids = {}]
<1>1. /\ RowType /\ CacheType' /\ TaskOK(task[t]) /\ task \in [Thread -> Task]
      /\ task[t] \in Task /\ row' = Free(task[t].ids)
  BY Unfolded DEF FreeRow, cache, CacheType
<1>2. RowType' /\ Shrinks
  BY <1>1, FreeShrinks DEF TaskOK, Task
<1>3. task' = [task EXCEPT ![t] = l] /\ ~At(t, "idle") /\ disorder' = disorder
  BY <1>1 DEF FreeRow, At
<1>4. PICK k \in Task : k = l
  BY <1>1 DEF Task, Pc
<1>5. /\ TaskOK(k) /\ Ready(k) /\ k.d = task[t].d /\ k.cars = task[t].cars
  BY <1>1, <1>3, <1>4 DEF TaskOK, Ready, Task, BindPc, At
<1>6. TaskOK(k)' /\ Ready(k)'
  BY <1>2, <1>5, ShrunkTask
<1> HIDE DEF l
<1> QED
  BY <1>1, <1>2, <1>3, <1>4, <1>5, <1>6, OnwardStep

\* The car is looked up under the driver's key.
LEMMA ReadKeyInv == ASSUME IInv, NEW t \in Thread, ReadKey(t)
                    PROVE  IInv'
<1> DEFINE l == [task[t] EXCEPT !.pc = "dropCar", !.today = TRUE, !.c = carOf[task[t].d]]
<1>1. /\ RowType' /\ CacheType /\ CacheType' /\ Shrinks /\ task \in [Thread -> Task]
      /\ task[t] \in Task /\ TaskOK(task[t]) /\ task[t].d \in Driver
  BY Unfolded, SameShrinks DEF ReadKey, cache, CacheType, At
<1>2. task' = [task EXCEPT ![t] = l] /\ ~At(t, "idle") /\ disorder' = disorder
  BY DEF ReadKey, At
<1>3. PICK k \in Task : k = l
  BY <1>1 DEF Task, Pc, CacheType
<1>4. TaskOK(k) /\ Ready(k)
  BY <1>1, <1>3 DEF TaskOK, Ready, Task, BindPc
<1>5. TaskOK(k)' /\ Ready(k)'
  BY <1>1, <1>4, ShrunkTask
<1>6. k.d = task[t].d /\ k.cars = task[t].cars
  BY <1>1, <1>3 DEF Task
<1> HIDE DEF l
<1> QED
  BY <1>1, <1>2, <1>3, <1>5, <1>6, OnwardStep

\* The key of the car is dropped.
LEMMA DropCarKeyInv == ASSUME IInv, NEW t \in Thread, DropCarKey(t)
                       PROVE  IInv'
<1>1. RowType /\ CacheType /\ task[t] \in Task /\ At(t, "dropCar")
  BY Unfolded DEF DropCarKey
<1>2. CacheType'
  BY <1>1, SetKeyType DEF DropCarKey, CacheType, Task
<1> QED
  BY <1>1, <1>2, SameShrinks, GotoStep DEF DropCarKey, At, Pc, BindPc

\* The key of the driver is dropped; loginOutDriver has its commit left.
LEMMA DropDriverKeyInv == ASSUME IInv, NEW t \in Thread, DropDriverKey(t)
                          PROVE  IInv'
<1>1. RowType /\ CacheType /\ task[t].d \in Driver /\ At(t, "dropDriver")
  BY Unfolded DEF DropDriverKey, At
<1>2. CacheType'
  BY <1>1, SetKeyType DEF DropDriverKey, CacheType
<1>3. CASE task[t].ids # {}
  BY <1>1, <1>2, <1>3, SameShrinks, GotoStep DEF DropDriverKey, At, Pc, BindPc
<1>4. CASE task[t].ids = {}
  BY <1>1, <1>2, <1>4, SameShrinks, FinishStep DEF DropDriverKey
<1> QED
  BY <1>3, <1>4

\* loginOutDriver commits the freed row.
LEMMA CommitRowInv == ASSUME IInv, NEW t \in Thread, CommitRow(t)
                      PROVE  IInv'
<1>1. /\ RowType /\ CacheType' /\ TaskOK(task[t]) /\ task[t] \in Task
      /\ row' = Free(task[t].ids)
  BY Unfolded DEF CommitRow, cache, CacheType
<1>2. RowType' /\ Shrinks
  BY <1>1, FreeShrinks DEF TaskOK, Task
<1> QED
  BY <1>1, <1>2, FinishStep DEF CommitRow

\* A row saved unchecked ends what is claimed.
LEMMA AddDriverInv == ASSUME IInv, NEW d \in Driver, NEW c \in Car, AddDriver(d, c)
                      PROVE  IInv'
<1> DEFINE new == [d |-> d, c |-> c, state |-> "bound", today |-> TRUE]
<1>1. RowType /\ CacheType' /\ task \in [Thread -> Task] /\ task' = task /\ disorder' = TRUE
  BY TypeParts DEF IInv, AddDriver, cache, CacheType
<1>2. NewId \in Id /\ row' = [row EXCEPT ![NewId] = new] /\ new \in Row
  BY DEF AddDriver, NewId, UnusedIds, Saved, Row
<1>3. RowType' /\ \A i \in Id : row[i].state # "none" => row'[i].state # "none"
  BY <1>1, <1>2 DEF RowType
<1>4. TypeOK'
  BY <1>1, <1>3, TypeParts DEF TypeOK, RowType, CacheType, Task, Pc
<1>5. TasksOK'
  BY <1>1, <1>3, Unfolded DEF TasksOK, TaskOK, Task
<1> QED
  BY <1>1, <1>4, <1>5 DEF IInv, BoundOnce, Orderly

\* A row found by driver alone is freed.
LEMMA UpdateDriverInv == ASSUME IInv, NEW d \in Driver, UpdateDriver(d)
                         PROVE  IInv'
<1> DEFINE ids == {i \in Id : row[i].d = d}
<1>1. RowType /\ CacheType' /\ disorder \in BOOLEAN /\ row' = Free(ids)
  BY TypeParts DEF IInv, UpdateDriver, cache, CacheType
<1>2. \A i \in ids : row[i].state # "none"
  BY <1>1, BindAssumption DEF RowType, Row, Unused
<1>3. RowType' /\ Shrinks
  BY <1>1, <1>2, FreeShrinks
<1>4. task' = task /\ disorder' \in BOOLEAN /\ (~disorder' => ~disorder)
  BY <1>1 DEF UpdateDriver, Meets
<1> QED
  BY <1>1, <1>3, <1>4, StillStep

\* The job frees every row.
LEMMA UpdateStatusInv == ASSUME IInv, UpdateStatus
                         PROVE  IInv'
<1>1. /\ RowType /\ CacheType' /\ disorder \in BOOLEAN /\ disorder' \in BOOLEAN
      /\ row' = Free(Id \ UnusedIds)
  BY TypeParts DEF IInv, UpdateStatus, cache, CacheType
<1>2. \A i \in Id \ UnusedIds : row[i].state # "none"
  BY DEF UnusedIds
<1>3. RowType' /\ Shrinks
  BY <1>1, <1>2, FreeShrinks
<1> QED
  BY <1>1, <1>3, StillStep DEF UpdateStatus

\* The day ends; tasks it catches end what is claimed.
LEMMA MidnightInv == ASSUME IInv, Midnight
                     PROVE  IInv'
<1>1. /\ RowType /\ task \in [Thread -> Task] /\ disorder \in BOOLEAN /\ TasksOK
      /\ BoundOnce
  BY TypeParts DEF IInv
<1>2. CacheType' /\ disorder' \in BOOLEAN
  BY <1>1 DEF Midnight, CacheType
<1>3. RowType' /\ Shrinks
  <2>1. row' = [i \in Id |-> IF row[i].today THEN [row[i] EXCEPT !.today = FALSE] ELSE row[i]]
    BY DEF Midnight
  <2>2. ASSUME NEW i \in Id PROVE row'[i] \in Row \cup {Unused}
    <3>1. row'[i] = IF row[i].today THEN [row[i] EXCEPT !.today = FALSE] ELSE row[i]
      BY <2>1
    <3>2. CASE row[i] \in Row
      BY <3>1, <3>2 DEF Row
    <3>3. CASE row[i] = Unused
      BY <3>1, <3>3 DEF Unused
    <3> QED
      BY <1>1, <3>2, <3>3 DEF RowType
  <2>3. \A i \in Id : /\ row'[i].d = row[i].d /\ row'[i].c = row[i].c
                       /\ row'[i].state = row[i].state
    BY <1>1, <2>1 DEF RowType, Row, Unused
  <2> QED
    BY <2>1, <2>2, <2>3 DEF RowType, Shrinks, Bound
<1>4. Idle \in Task
  BY DEF Idle, Task, Pc
<1>5. task' \in [Thread -> Task]
  BY <1>1, <1>4 DEF Midnight, Task
<1>6. TypeOK'
  BY <1>2, <1>3, <1>5, TypeParts DEF TypeOK, RowType, CacheType, Task, Pc
<1>7. ASSUME NEW t \in Thread PROVE TaskOK(task[t])'
  <2>1. CASE At(t, "idle")
    BY <2>1 DEF Midnight, TaskOK, Idle, BindPc
  <2>2. CASE ~At(t, "idle")
    <3>1. task'[t] = [task[t] EXCEPT !.today = FALSE] /\ task[t] \in Task /\ TaskOK(task[t])
      BY <1>1, <2>2 DEF Midnight, TasksOK
    <3> QED
      BY <1>3, <3>1 DEF TaskOK, Task, Shrinks
  <2> QED
    BY <2>1, <2>2
<1>8. BoundOnce'
  BY <1>1, <1>3 DEF Midnight, BoundOnce, Shrinks
<1>9. Orderly'
  <2> SUFFICES ASSUME ~disorder' PROVE Apart' /\ \A t \in Thread : Ready(task[t])'
    BY DEF Orderly
  <2>1. \A t \in Thread : At(t, "idle")
    BY DEF Midnight, InFlight
  <2>2. \A t \in Thread : task'[t] = Idle
    BY <2>1 DEF Midnight
  <2> QED
    BY <2>2 DEF Apart, InFlight, At, Ready, Idle
<1> QED
  BY <1>6, <1>7, <1>8, <1>9 DEF IInv, TasksOK

\* Nothing happens.
LEMMA StutterInv == ASSUME IInv, UNCHANGED vars
                    PROVE  IInv'
<1>1. RowType /\ CacheType' /\ disorder \in BOOLEAN
  BY TypeParts DEF IInv, vars, cache, CacheType
<1> QED
  BY <1>1, SameShrinks, StillStep DEF vars

LEMMA InitInv == Init => IInv
<1> SUFFICES ASSUME Init PROVE IInv
  OBVIOUS
<1>1. TypeOK
  BY DEF Init, TypeOK, Idle, Row, Unused
<1>2. TasksOK /\ Orderly
  BY DEF Init, TasksOK, Orderly, TaskOK, Ready, Apart, InFlight, At, Idle, BindPc
<1>3. BoundOnce
  BY DEF Init, BoundOnce, Bound, Unused
<1> QED
  BY <1>1, <1>2, <1>3 DEF IInv

-----------------------------------------------------------------------------
(* Theorems.                                                               *)

\* The inductive invariant holds in every reachable state.
THEOREM Invariance == Spec => []IInv
<1>1. IInv /\ [Next]_vars => IInv'
  <2> SUFFICES ASSUME IInv, [Next]_vars PROVE IInv'
    OBVIOUS
  <2>1. ASSUME NEW t \in Thread, NEW d \in Driver, NEW c \in Car, Bind(t, d, c) PROVE IInv'
    BY <2>1, BindInv
  <2>2. ASSUME NEW t \in Thread, NEW d \in Driver,
               Unbind(t, d) \/ LoginOut(t, d) \/ DriverLogout(t, d)
        PROVE  IInv'
    BY <2>2, UnbindInv, LoginOutInv, DriverLogoutInv
  <2>3. ASSUME NEW t \in Thread,
               \/ ListFormer(t) \/ FreeFormer(t) \/ SaveRow(t) \/ SetCarKey(t)
               \/ SetDriverKey(t) \/ FreeRow(t) \/ ReadKey(t) \/ DropCarKey(t)
               \/ DropDriverKey(t) \/ CommitRow(t)
        PROVE  IInv'
    BY <2>3, ListFormerInv, FreeFormerInv, SaveRowInv, SetCarKeyInv, SetDriverKeyInv,
       FreeRowInv, ReadKeyInv, DropCarKeyInv, DropDriverKeyInv, CommitRowInv
  <2>4. ASSUME NEW d \in Driver, UpdateDriver(d) \/ \E c \in Car : AddDriver(d, c)
        PROVE  IInv'
    BY <2>4, UpdateDriverInv, AddDriverInv
  <2>5. ASSUME UpdateStatus \/ Midnight \/ UNCHANGED vars PROVE IInv'
    BY <2>5, UpdateStatusInv, MidnightInv, StutterInv
  <2> QED
    BY <2>1, <2>2, <2>3, <2>4, <2>5 DEF Next
<1> QED
  BY InitInv, <1>1, PTL DEF Spec

\* Rows, keys and tasks keep their shapes; no row that was never saved is freed.
THEOREM TypeCorrect == Spec => []TypeOK
BY Invariance, PTL DEF IInv

\* As long as handlers of a driver or a car do not meet, add binds a driver to
\* one car and a car to one driver.
THEOREM BindsOnce == Spec => []BoundOnce
BY Invariance, PTL DEF IInv

-----------------------------------------------------------------------------
(* The keys of the day.                                                    *)
(*                                                                         *)
(* BoundIsCached says nothing of a driver who is being served, so it needs *)
(* to be told what every handler leaves behind: add the one row the keys   *)
(* name, the others no row at all (KeysOK).  A handler may drop the key of *)
(* a car found in the driver's key only because that car is nobody else's. *)

\* Steps of the handlers that give the car back.
GivePc == {"freeRow", "readKey", "dropCar", "dropDriver", "commit"}

\* What a handler under way knows of the rows and keys of its driver.
KeysOK(k) ==
  /\ k.today
  /\ k.pc \in {"carKey", "driverKey"} =>
       \A i \in Id : Bound(i) /\ (row[i].d = k.d \/ row[i].c = k.c)
         => row[i].d = k.d /\ row[i].c = k.c /\ row[i].today
  /\ k.pc = "driverKey" => driverOf[k.c] = k.d
  /\ k.pc \in GivePc => RowsOf(k.d) \subseteq k.ids
  /\ k.pc \in {"freeRow", "readKey"} =>
       /\ carOf[k.d] \in k.cars \cup {NoCar}
       /\ \A i \in Id : Bound(i) /\ row[i].c = carOf[k.d] => row[i].d = k.d
  /\ k.pc = "dropCar" =>
       /\ k.c \in k.cars \cup {NoCar}
       /\ \A i \in Id : Bound(i) /\ row[i].c = k.c => row[i].d = k.d

Unserved(d) == \A t \in InFlight : task[t].d # d
Cached(i) == driverOf[row[i].c] = row[i].d /\ carOf[row[i].d] = row[i].c

\* A driver nobody serves is in the keys if bound today; a binding of an
\* earlier day has no key.
RowKeys(i) ==
  Bound(i) /\ Unserved(row[i].d) =>
    IF row[i].today THEN Cached(i) ELSE carOf[row[i].d] = NoCar

KInv == ~disorder => /\ \A t \in InFlight : KeysOK(task[t])
                     /\ \A i \in Id : RowKeys(i)

\* A bound row that was bound before, as it was.
Stayed(i) ==
  Bound(i) /\ row'[i].d = row[i].d /\ row'[i].c = row[i].c /\ row'[i].today = row[i].today
Stays == \A i \in Id : Bound(i)' => Stayed(i)

\* Freed rows leave the others as they are.
LEMMA FreeStays ==
  ASSUME RowType, NEW S \in SUBSET Id, row' = Free(S)
  PROVE  Stays /\ \A i \in S : ~Bound(i)'
BY BindAssumption DEF RowType, Row, Unused, Free, Stays, Stayed, Bound

LEMMA SameStays == row' = row => Stays
BY DEF Stays, Stayed, Bound

\* A step spares a task if it binds neither the task's driver nor its cars, and
\* writes no key the task relies on.
Spares(k) ==
  /\ \A i \in Id : Bound(i)' =>
       Stayed(i) \/ (row'[i].d # k.d /\ row'[i].c \in Car \ k.cars)
  /\ carOf'[k.d] = carOf[k.d]
  /\ k.pc = "driverKey" => driverOf'[k.c] = driverOf[k.c]

\* A task that is spared knows what it knew.
LEMMA Spared ==
  ASSUME NEW k \in Task, TaskOK(k), KeysOK(k), Spares(k)
  PROVE  KeysOK(k)'
<1>1. k.pc \in {"carKey", "driverKey"} =>
        \A i \in Id : Bound(i)' /\ (row'[i].d = k.d \/ row'[i].c = k.c)
          => row'[i].d = k.d /\ row'[i].c = k.c /\ row'[i].today
  BY DEF TaskOK, KeysOK, Spares, Stayed, BindPc
<1>2. k.pc \in GivePc => RowsOf(k.d)' \subseteq k.ids
  BY DEF KeysOK, Spares, Stayed, RowsOf
<1>3. k.pc \in {"freeRow", "readKey"} =>
        /\ carOf'[k.d] \in k.cars \cup {NoCar}
        /\ \A i \in Id : Bound(i)' /\ row'[i].c = carOf'[k.d] => row'[i].d = k.d
  BY BindAssumption DEF KeysOK, Spares, Stayed
<1>4. k.pc = "dropCar" =>
        /\ k.c \in k.cars \cup {NoCar}
        /\ \A i \in Id : Bound(i)' /\ row'[i].c = k.c => row'[i].d = k.d
  BY BindAssumption DEF KeysOK, Spares, Stayed
<1>5. k.today /\ (k.pc = "driverKey" => driverOf'[k.c] = k.d)
  BY DEF KeysOK, Spares
<1> QED
  BY <1>1, <1>2, <1>3, <1>4, <1>5 DEF KeysOK

\* One task serves driver d: the others are spared, rows of other drivers and
\* their keys stay, and a task that is over leaves d's rows in the keys.
LEMMA KeysStep ==
  ASSUME IInv, KInv, ~disorder, NEW t \in Thread, NEW d \in Driver,
         NEW k \in Task, task' = [task EXCEPT ![t] = k],
         ~At(t, "idle") => task[t].d = d,
         k.pc # "idle" => k.d = d /\ KeysOK(k)',
         \A u \in InFlight \ {t} : Spares(task[u]),
         \A i \in Id : Bound(i)' /\ row'[i].d # d =>
           /\ Stayed(i)
           /\ carOf'[row[i].d] = carOf[row[i].d] /\ driverOf'[row[i].c] = driverOf[row[i].c],
         k.pc = "idle" => \A i \in Id : Bound(i)' /\ row'[i].d = d => row'[i].today /\ Cached(i)'
  PROVE  KInv'
<1>1. task \in [Thread -> Task]
  BY Unfolded
<1>2. task'[t] = k /\ \A u \in Thread : u # t => task'[u] = task[u]
  BY <1>1
<1>3. ASSUME NEW u \in InFlight' PROVE KeysOK(task[u])'
  <2>1. CASE u = t
    <3>1. k.pc # "idle"
      BY <1>2, <2>1 DEF InFlight, At
    <3> QED
      BY <1>2, <2>1, <3>1 DEF KeysOK
  <2>2. CASE u # t
    <3>1. u \in InFlight /\ task'[u] = task[u]
      BY <1>2, <2>2 DEF InFlight, At
    <3>2. PICK l \in Task : l = task[u]
      BY <1>1, <3>1 DEF InFlight
    <3>3. TaskOK(l) /\ KeysOK(l) /\ Spares(l)
      BY <2>2, <3>1, <3>2, Unfolded DEF KInv, InFlight
    <3>4. KeysOK(l)'
      BY <3>3, Spared
    <3> QED
      BY <3>1, <3>2, <3>4 DEF KeysOK
  <2> QED
    BY <2>1, <2>2
<1>4. ASSUME NEW i \in Id PROVE RowKeys(i)'
  <2> SUFFICES ASSUME Bound(i)', Unserved(row[i].d)'
               PROVE  IF row'[i].today THEN Cached(i)' ELSE carOf'[row'[i].d] = NoCar
    BY DEF RowKeys
  <2>1. CASE row'[i].d # d
    <3>1. Stayed(i)
      BY <2>1
    <3>2. Unserved(row[i].d)
      <4> SUFFICES ASSUME NEW u \in InFlight PROVE task[u].d # row[i].d
        BY DEF Unserved
      <4>1. CASE u = t
        BY <2>1, <3>1, <4>1 DEF InFlight, Stayed
      <4>2. CASE u # t
        BY <1>2, <3>1, <4>2 DEF InFlight, At, Stayed, Unserved
      <4> QED
        BY <4>1, <4>2
    <3>3. IF row[i].today THEN Cached(i) ELSE carOf[row[i].d] = NoCar
      BY <3>1, <3>2 DEF KInv, RowKeys, Stayed
    <3> QED
      BY <2>1, <3>1, <3>3 DEF Stayed, Cached
  <2>2. CASE row'[i].d = d
    <3>1. k.pc = "idle"
      BY <1>2, <2>2 DEF Unserved, InFlight, At
    <3> QED
      BY <2>2, <3>1
  <2> QED
    BY <2>1, <2>2
<1> QED
  BY <1>3, <1>4 DEF KInv

\* No task moves, rows are freed at most, and the keys stay.
LEMMA StillKeys ==
  ASSUME IInv, KInv, Stays, UNCHANGED <<cache, task>>, ~disorder
  PROVE  KInv'
<1>1. ASSUME NEW u \in InFlight' PROVE KeysOK(task[u])'
  <2>1. u \in InFlight /\ u \in Thread
    BY DEF InFlight, At
  <2>2. PICK l \in Task : l = task[u]
    BY <2>1, Unfolded
  <2>3. TaskOK(l) /\ KeysOK(l) /\ Spares(l)
    BY <2>1, <2>2, Unfolded DEF KInv, Spares, Stays, cache
  <2>4. KeysOK(l)'
    BY <2>3, Spared
  <2> QED
    BY <2>2, <2>4 DEF KeysOK
<1>2. ASSUME NEW i \in Id PROVE RowKeys(i)'
  BY DEF KInv, RowKeys, Stays, Stayed, Unserved, InFlight, At, Cached, cache
<1> QED
  BY <1>1, <1>2 DEF KInv

\* The car in the key of a driver who is bound and not served is no one else's.
LEMMA OwnKey ==
  ASSUME IInv, KInv, ~disorder, NEW d \in Driver, Unserved(d), NEW i \in RowsOf(d)
  PROVE  \A j \in Id : Bound(j) /\ row[j].c = carOf[d] => row[j].d = d
<1> SUFFICES ASSUME NEW j \in Id, Bound(j), row[j].c = carOf[d] PROVE row[j].d = d
  OBVIOUS
<1>1. i \in Id /\ Bound(i) /\ row[i].d = d
  BY DEF RowsOf
<1>2. row[j].c \in Car
  BY TypeParts DEF IInv, RowType, Row, Unused, Bound
<1>3. carOf[d] # NoCar
  BY <1>2, BindAssumption
<1>4. carOf[d] = row[i].c
  BY <1>1, <1>3 DEF KInv, RowKeys, Cached
<1> QED
  BY <1>1, <1>4 DEF IInv, BoundOnce

\* Keys of other drivers stay when none is written.
Quiet(d) ==
  /\ \A i \in Id : Bound(i)' /\ row'[i].d # d =>
       /\ Stayed(i)
       /\ carOf'[row[i].d] = carOf[row[i].d] /\ driverOf'[row[i].c] = driverOf[row[i].c]
  /\ \A u \in InFlight : Spares(task[u])

LEMMA StaysQuiet ==
  ASSUME Stays, UNCHANGED cache, NEW d
  PROVE  Quiet(d)
BY DEF Stays, Quiet, Spares, cache

\* A handler begins, and has not met another.
LEMMA BeginKeys ==
  ASSUME IInv, KInv, ~disorder', Stays, UNCHANGED cache,
         NEW t \in Thread, NEW pc \in Pc, NEW d \in Driver, NEW c \in Car \cup {NoCar},
         NEW ids \in SUBSET Id, Begin(t, pc, d, c, ids),
         pc \in {"list", "freeRow", "readKey", "dropCar"},
         pc # "list" => RowsOf(d)' \subseteq ids,
         pc \in {"freeRow", "readKey"} =>
           \A i \in Id : Bound(i)' /\ row'[i].c = carOf[d] => row'[i].d = d,
         pc = "dropCar" => \A i \in Id : Bound(i)' /\ row'[i].c = c => row'[i].d = d
  PROVE  KInv'
<1> DEFINE C == CarsOf(d) \cup ({c} \ {NoCar})
           l == [pc |-> pc, d |-> d, c |-> c, ids |-> ids, today |-> TRUE, cars |-> C]
<1>1. RowType /\ CacheType
  BY Unfolded
<1>2. C \in SUBSET Car
  <2>1. \A i \in RowsOf(d) : row[i].c \in Car
    BY <1>1, BindAssumption DEF RowsOf, RowType, Row, Unused, Bound
  <2> QED
    BY <1>1, <2>1 DEF CarsOf, CacheType
<1>3. task' = [task EXCEPT ![t] = l] /\ ~disorder /\ At(t, "idle")
  BY DEF Begin
<1>4. carOf[d] \in C \cup {NoCar} /\ c \in C \cup {NoCar}
  BY DEF CarsOf
<1>5. PICK k \in Task : k = l
  BY <1>2 DEF Task
<1>6. k.pc = pc /\ k.d = d /\ k.c = c /\ k.ids = ids /\ k.today = TRUE /\ k.cars = C
  BY <1>5
<1> HIDE DEF l, C
<1>7. KeysOK(k)'
  BY <1>4, <1>6 DEF KeysOK, GivePc, cache, RowsOf
<1>8. Quiet(d)
  BY StaysQuiet
<1> QED
  BY <1>3, <1>5, <1>6, <1>7, <1>8, KeysStep DEF Quiet

\* A handler that met no other serves a driver nobody else serves.
LEMMA BeginUnserved ==
  ASSUME NEW t, NEW pc, NEW d, NEW c, NEW ids, Begin(t, pc, d, c, ids), ~disorder'
  PROVE  Unserved(d) /\ ~disorder
BY DEF Begin, Meets, Unserved

\* add begins.
LEMMA BindKeys == ASSUME IInv, KInv, ~disorder', NEW t \in Thread, NEW d \in Driver,
                         NEW c \in Car, Bind(t, d, c)
                  PROVE  KInv'
BY SameStays, BeginKeys DEF Bind, Pc

\* update begins.
LEMMA UnbindKeys == ASSUME IInv, KInv, ~disorder', NEW t \in Thread, NEW d \in Driver,
                           Unbind(t, d)
                    PROVE  KInv'
<1>1. Begin(t, "freeRow", d, NoCar, RowsOf(d)) /\ row' = row /\ UNCHANGED cache
  BY DEF Unbind
<1>2. RowsOf(d) # {}
  BY FS_EmptySet DEF Unbind
<1>3. \A i \in Id : Bound(i) /\ row[i].c = carOf[d] => row[i].d = d
  BY <1>1, <1>2, BeginUnserved, OwnKey
<1>4. RowsOf(d)' = RowsOf(d) /\ \A i \in Id : Bound(i)' = Bound(i)
  BY <1>1 DEF RowsOf, Bound
<1> QED
  BY <1>1, <1>3, <1>4, SameStays, BoundWasSaved, BeginKeys DEF Pc

\* loginOutDriver begins: the driver has the one row it loads.
LEMMA LoginOutKeys == ASSUME IInv, KInv, ~disorder', NEW t \in Thread, NEW d \in Driver,
                             LoginOut(t, d)
                      PROVE  KInv'
<1>1. PICK i \in RowsOf(d) : Begin(t, "dropCar", d, row[i].c, {i})
  BY DEF LoginOut
<1>2. i \in Id /\ Bound(i) /\ row[i].d = d /\ row[i].c \in Car
  BY <1>1, Unfolded DEF RowsOf, Bound, RowType, Row, Unused
<1>3. row' = row /\ UNCHANGED cache /\ ~disorder
  BY <1>1, BeginUnserved DEF LoginOut
<1>4. RowsOf(d)' \subseteq {i}
  BY <1>2, <1>3 DEF RowsOf, Bound, IInv, BoundOnce
<1>5. \A j \in Id : Bound(j)' /\ row'[j].c = row[i].c => row'[j].d = d
  BY <1>2, <1>3 DEF Bound, IInv, BoundOnce
<1> QED
  BY <1>1, <1>2, <1>3, <1>4, <1>5, SameStays, BeginKeys DEF Pc

\* driverLogout frees the driver's rows and begins.
LEMMA DriverLogoutKeys == ASSUME IInv, KInv, ~disorder', NEW t \in Thread,
                                 NEW d \in Driver, DriverLogout(t, d)
                          PROVE  KInv'
<1>1. Begin(t, "readKey", d, NoCar, {}) /\ row' = Free(RowsOf(d)) /\ UNCHANGED cache
  BY DEF DriverLogout, LogoutRows
<1>2. Stays /\ \A i \in RowsOf(d) : ~Bound(i)'
  BY <1>1, FreeStays, Unfolded, BoundWasSaved
<1>3. RowsOf(d)' \subseteq {}
  BY <1>2 DEF RowsOf, Stays, Stayed
<1>4. \A i \in Id : Bound(i) /\ row[i].c = carOf[d] => row[i].d = d
  BY <1>1, BeginUnserved, OwnKey DEF DriverLogout, LogoutRows
<1>5. \A i \in Id : Bound(i)' /\ row'[i].c = carOf[d] => row'[i].d = d
  BY <1>2, <1>4 DEF Stays, Stayed
<1> QED
  BY <1>1, <1>2, <1>3, <1>5, BeginKeys DEF Pc

\* A handler under way goes on and writes no key; or it is over and the driver
\* has no row.
LEMMA OnwardKeys ==
  ASSUME IInv, KInv, ~disorder, Stays, UNCHANGED cache,
         NEW t \in InFlight, NEW k \in Task, task' = [task EXCEPT ![t] = k],
         \/ k.pc # "idle" /\ k.d = task[t].d /\ KeysOK(k)'
         \/ k.pc = "idle" /\ \A i \in Id : Bound(i)' => row'[i].d # task[t].d
  PROVE  KInv'
<1>1. t \in Thread /\ task[t].d \in Driver
  BY Unfolded DEF InFlight
<1>2. PICK d \in Driver : d = task[t].d
  BY <1>1
<1>3. Quiet(d)
  BY StaysQuiet
<1>4. k.pc = "idle" => \A i \in Id : ~(Bound(i)' /\ row'[i].d = d)
  BY <1>2
<1> QED
  BY <1>1, <1>2, <1>3, <1>4, KeysStep DEF Quiet

\* What KInv says of the thread that moves.
LEMMA Known ==
  ASSUME IInv, KInv, ~disorder, NEW t \in Thread, ~At(t, "idle")
  PROVE  /\ t \in InFlight /\ task \in [Thread -> Task] /\ task[t] \in Task
         /\ task[t].d \in Driver /\ TaskOK(task[t]) /\ Ready(task[t]) /\ KeysOK(task[t])
         /\ \A u \in InFlight \ {t} : Clear(task[t], task[u])
         /\ \A u \in InFlight : task[u] \in Task /\ TaskOK(task[u]) /\ KeysOK(task[u])
BY Unfolded DEF KInv, InFlight, IInv, Orderly, Apart, At

\* The former rows are listed.
LEMMA ListFormerKeys == ASSUME IInv, KInv, ~disorder, NEW t \in Thread, ListFormer(t)
                        PROVE  KInv'
<1> DEFINE l == [task[t] EXCEPT !.pc = "free", !.ids = Former(task[t].d), !.today = TRUE]
<1>1. ~At(t, "idle") /\ Stays /\ UNCHANGED cache
  BY SameStays DEF ListFormer, At
<1>2. task' = [task EXCEPT ![t] = l]
  BY DEF ListFormer
<1>3. PICK k \in Task : k = l
  BY <1>1, Known, BoundWasSaved DEF Task, Pc, Former
<1>4. k.pc = "free" /\ k.d = task[t].d /\ k.today = TRUE
  BY <1>1, <1>3, Known DEF Task
<1> HIDE DEF l
<1>5. KeysOK(k)'
  BY <1>4 DEF KeysOK, GivePc
<1> QED
  BY <1>1, <1>2, <1>3, <1>4, <1>5, Known, OnwardKeys

\* The former rows are freed.
LEMMA FreeFormerKeys == ASSUME IInv, KInv, ~disorder, NEW t \in Thread, FreeFormer(t)
                        PROVE  KInv'
<1> DEFINE l == [task[t] EXCEPT !.pc = "save"]
<1>1. ~At(t, "idle") /\ UNCHANGED cache /\ task' = [task EXCEPT ![t] = l]
  BY DEF FreeFormer, At, Goto
<1>2. Stays
  BY <1>1, Known, Unfolded, FreeStays DEF FreeFormer, Task
<1>3. PICK k \in Task : k = l
  BY <1>1, Known DEF Task, Pc
<1>4. k.pc = "save" /\ k.d = task[t].d /\ k.today
  BY <1>1, <1>3, Known DEF Task, KeysOK
<1> HIDE DEF l
<1>5. KeysOK(k)'
  BY <1>4 DEF KeysOK, GivePc
<1> QED
  BY <1>1, <1>2, <1>3, <1>4, <1>5, Known, OnwardKeys

\* update frees the row it loaded: the driver has no other.
LEMMA FreeRowKeys == ASSUME IInv, KInv, ~disorder, NEW t \in Thread, FreeRow(t)
                     PROVE  KInv'
<1> DEFINE l == [task[t] EXCEPT !.pc = "readKey", !.ids = {}]
<1>1. ~At(t, "idle") /\ UNCHANGED cache /\ task' = [task EXCEPT ![t] = l]
  BY DEF FreeRow, At
<1>2. /\ task[t] \in Task /\ task[t].pc = "freeRow" /\ KeysOK(task[t])
  BY <1>1, Known DEF FreeRow, At
<1>3. Stays /\ \A i \in task[t].ids : ~Bound(i)'
  BY <1>2, Unfolded, FreeStays DEF FreeRow, Task
<1>4. PICK k \in Task : k = l
  BY <1>2 DEF Task, Pc
<1>5. k.pc = "readKey" /\ k.d = task[t].d /\ k.today /\ k.cars = task[t].cars /\ k.ids = {}
  BY <1>2, <1>4 DEF Task, KeysOK
<1> HIDE DEF l
<1>6. RowsOf(k.d)' \subseteq {}
  BY <1>2, <1>3, <1>5 DEF KeysOK, GivePc, RowsOf, Stays, Stayed
<1>7. /\ carOf'[k.d] \in k.cars \cup {NoCar}
      /\ \A i \in Id : Bound(i)' /\ row'[i].c = carOf'[k.d] => row'[i].d = k.d
  BY <1>1, <1>2, <1>3, <1>5 DEF KeysOK, Stays, Stayed, cache
<1>8. KeysOK(k)'
  BY <1>5, <1>6, <1>7 DEF KeysOK
<1> QED
  BY <1>1, <1>3, <1>4, <1>5, <1>8, Known, OnwardKeys

\* The car in the driver's key is one that only this driver may have.
LEMMA ReadKeyKeys == ASSUME IInv, KInv, ~disorder, NEW t \in Thread, ReadKey(t)
                     PROVE  KInv'
<1> DEFINE l == [task[t] EXCEPT !.pc = "dropCar", !.today = TRUE, !.c = carOf[task[t].d]]
<1>1. ~At(t, "idle") /\ UNCHANGED cache /\ row' = row /\ task' = [task EXCEPT ![t] = l]
  BY DEF ReadKey, At
<1>2. /\ task[t] \in Task /\ task[t].pc = "readKey" /\ KeysOK(task[t]) /\ task[t].d \in Driver
  BY <1>1, Known DEF ReadKey, At
<1>3. PICK k \in Task : k = l
  BY <1>2, Unfolded DEF Task, Pc, CacheType
<1>4. /\ k.pc = "dropCar" /\ k.d = task[t].d /\ k.today = TRUE /\ k.cars = task[t].cars
      /\ k.ids = task[t].ids /\ k.c = carOf[k.d]
  BY <1>2, <1>3 DEF Task
<1> HIDE DEF l
<1>5. KeysOK(k)
  BY <1>2, <1>4 DEF KeysOK, GivePc
<1>6. KeysOK(k)'
  BY <1>1, <1>4, <1>5 DEF KeysOK, GivePc, RowsOf, Bound
<1> QED
  BY <1>1, <1>3, <1>4, <1>6, Known, SameStays, OnwardKeys

\* loginOutDriver commits the freed row: the driver has no other.
LEMMA CommitRowKeys == ASSUME IInv, KInv, ~disorder, NEW t \in Thread, CommitRow(t)
                       PROVE  KInv'
<1>1. ~At(t, "idle") /\ UNCHANGED cache /\ task' = [task EXCEPT ![t] = Idle]
  BY DEF CommitRow, At, Finish
<1>2. /\ task[t] \in Task /\ task[t].pc = "commit" /\ KeysOK(task[t])
  BY <1>1, Known DEF CommitRow, At
<1>3. Stays /\ \A i \in task[t].ids : ~Bound(i)'
  BY <1>2, Unfolded, FreeStays DEF CommitRow, Task
<1>4. \A i \in Id : Bound(i)' => row'[i].d # task[t].d
  BY <1>2, <1>3 DEF KeysOK, GivePc, RowsOf, Stays, Stayed
<1>5. Idle \in Task /\ Idle.pc = "idle"
  BY DEF Idle, Task, Pc
<1>6. PICK k \in Task : k = Idle /\ k.pc = "idle"
  BY <1>5
<1> QED
  BY <1>1, <1>3, <1>4, <1>6, Known, OnwardKeys

\* A key set is seen, and others stay.
LEMMA SetKeyEffect ==
  ASSUME IInv, KInv, ~disorder, NEW t \in Thread, ~At(t, "idle"),
         NEW K, NEW f, f = [x \in K |-> f[x]], NEW x \in K, NEW v
  PROVE  SetKey(f, x, v, t)[x] = v /\ \A y \in K \ {x} : SetKey(f, x, v, t)[y] = f[y]
BY Known DEF SetKey, KeysOK

\* A step that leaves the rows and the drivers' keys alone, and of the cars' keys
\* writes that of c at most, spares everyone who has not this car.
LEMMA CarKeyQuiet ==
  ASSUME IInv, KInv, ~disorder, NEW t \in Thread, ~At(t, "idle"), row' = row, carOf' = carOf,
         NEW c \in task[t].cars, \A y \in Car \ {c} : driverOf'[y] = driverOf[y],
         \A i \in Id : Bound(i) /\ row[i].c = c => row[i].d = task[t].d
  PROVE  \E d \in Driver : /\ d = task[t].d
                           /\ \A i \in Id : Bound(i)' /\ row'[i].d # d =>
                                /\ Stayed(i)
                                /\ carOf'[row[i].d] = carOf[row[i].d]
                                /\ driverOf'[row[i].c] = driverOf[row[i].c]
                           /\ \A u \in InFlight \ {t} : Spares(task[u])
<1>1. PICK d \in Driver : d = task[t].d
  BY Known
<1>2. \A i \in Id : Bound(i) => row[i].c \in Car
  BY Unfolded DEF RowType, Row, Unused, Bound
<1>3. \A i \in Id : Bound(i)' => Stayed(i)
  BY DEF Bound, Stayed
<1>4. \A i \in Id : Bound(i)' /\ row'[i].d # d => driverOf'[row[i].c] = driverOf[row[i].c]
  BY <1>1, <1>2 DEF Bound
<1>5. ASSUME NEW u \in InFlight \ {t} PROVE Spares(task[u])
  <2>1. task[u] \in Task /\ TaskOK(task[u]) /\ Clear(task[t], task[u])
    BY Known
  <2>2. task[u].pc = "driverKey" => driverOf'[task[u].c] = driverOf[task[u].c]
    BY <2>1 DEF TaskOK, Clear, BindPc
  <2> QED
    BY <1>3, <2>2 DEF Spares
<1> QED
  BY <1>1, <1>3, <1>4, <1>5

\* The same of the key of the served driver.
LEMMA DriverKeyQuiet ==
  ASSUME IInv, KInv, ~disorder, NEW t \in Thread, ~At(t, "idle"), row' = row,
         driverOf' = driverOf, NEW d \in Driver, d = task[t].d,
         \A y \in Driver \ {d} : carOf'[y] = carOf[y]
  PROVE  /\ \A i \in Id : Bound(i)' /\ row'[i].d # d =>
              /\ Stayed(i)
              /\ carOf'[row[i].d] = carOf[row[i].d]
              /\ driverOf'[row[i].c] = driverOf[row[i].c]
         /\ \A u \in InFlight \ {t} : Spares(task[u])
<1>1. \A i \in Id : Bound(i) => row[i].d \in Driver
  BY Unfolded DEF RowType, Row, Unused, Bound
<1>2. \A i \in Id : Bound(i)' => Stayed(i)
  BY DEF Bound, Stayed
<1>3. \A i \in Id : Bound(i)' /\ row'[i].d # d => carOf'[row[i].d] = carOf[row[i].d]
  BY <1>1 DEF Bound
<1>4. ASSUME NEW u \in InFlight \ {t} PROVE Spares(task[u])
  <2>1. task[u].d \in Driver /\ task[u].d # d
    BY Known DEF Clear, TaskOK, InFlight, At
  <2> QED
    BY <1>2, <2>1 DEF Spares
<1> QED
  BY <1>2, <1>3, <1>4

\* add sets the key of its car: only its new row has this car.
LEMMA SetCarKeyKeys == ASSUME IInv, KInv, ~disorder, NEW t \in Thread, SetCarKey(t)
                       PROVE  KInv'
<1> DEFINE l == [task[t] EXCEPT !.pc = "driverKey"]
<1>1. /\ ~At(t, "idle") /\ carOf' = carOf /\ row' = row /\ task' = [task EXCEPT ![t] = l]
      /\ driverOf' = SetKey(driverOf, task[t].c, task[t].d, t)
  BY DEF SetCarKey, At, Goto
<1>2. /\ task[t] \in Task /\ task[t].pc = "carKey" /\ KeysOK(task[t])
      /\ task[t].c \in Car /\ task[t].c \in task[t].cars
  BY <1>1, Known DEF SetCarKey, At, TaskOK, BindPc
<1>3. PICK c \in task[t].cars : c = task[t].c /\ c \in Car
  BY <1>2
<1>4. PICK k \in Task : k = l
  BY <1>2 DEF Task, Pc
<1>5. k.pc = "driverKey" /\ k.d = task[t].d /\ k.c = c /\ k.today
  BY <1>2, <1>3, <1>4 DEF Task, KeysOK
<1> HIDE DEF l
<1>6. driverOf'[c] = k.d /\ \A y \in Car \ {c} : driverOf'[y] = driverOf[y]
  BY <1>1, <1>3, <1>5, SetKeyEffect, Unfolded DEF CacheType
<1>7. \A i \in Id : Bound(i) /\ (row[i].d = k.d \/ row[i].c = c)
        => row[i].d = k.d /\ row[i].c = c /\ row[i].today
  BY <1>2, <1>3, <1>5 DEF KeysOK
<1>8. KeysOK(k)'
  BY <1>1, <1>5, <1>6, <1>7 DEF KeysOK, GivePc, Bound
<1>9. PICK d \in Driver :
        /\ d = task[t].d
        /\ \A i \in Id : Bound(i)' /\ row'[i].d # d =>
             /\ Stayed(i)
             /\ carOf'[row[i].d] = carOf[row[i].d] /\ driverOf'[row[i].c] = driverOf[row[i].c]
        /\ \A u \in InFlight \ {t} : Spares(task[u])
  BY <1>1, <1>5, <1>6, <1>7, CarKeyQuiet
<1> QED
  BY <1>1, <1>4, <1>5, <1>8, <1>9, KeysStep

\* ... and the key of its driver: both keys say what the row says.
LEMMA SetDriverKeyKeys == ASSUME IInv, KInv, ~disorder, NEW t \in Thread, SetDriverKey(t)
                          PROVE  KInv'
<1>1. /\ ~At(t, "idle") /\ driverOf' = driverOf /\ row' = row
      /\ task' = [task EXCEPT ![t] = Idle]
      /\ carOf' = SetKey(carOf, task[t].d, task[t].c, t)
  BY DEF SetDriverKey, At, Finish
<1>2. /\ task[t] \in Task /\ task[t].pc = "driverKey" /\ KeysOK(task[t])
  BY <1>1, Known DEF SetDriverKey, At
<1>3. PICK d \in Driver, c \in Car \cup {NoCar} : d = task[t].d /\ c = task[t].c
  BY <1>1, <1>2, Known DEF Task
<1>4. carOf'[d] = c /\ \A y \in Driver \ {d} : carOf'[y] = carOf[y]
  BY <1>1, <1>3, SetKeyEffect, Unfolded DEF CacheType
<1>5. ASSUME NEW i \in Id, Bound(i)', row'[i].d = d PROVE row'[i].today /\ Cached(i)'
  BY <1>1, <1>2, <1>3, <1>4, <1>5 DEF KeysOK, Bound, Cached
<1>6. Idle \in Task /\ Idle.pc = "idle"
  BY DEF Idle, Task, Pc
<1>7. PICK k \in Task : k = Idle /\ k.pc = "idle"
  BY <1>6
<1>8. /\ \A i \in Id : Bound(i)' /\ row'[i].d # d =>
           /\ Stayed(i)
           /\ carOf'[row[i].d] = carOf[row[i].d] /\ driverOf'[row[i].c] = driverOf[row[i].c]
      /\ \A u \in InFlight \ {t} : Spares(task[u])
  BY <1>1, <1>3, <1>4, DriverKeyQuiet
<1> QED
  BY <1>1, <1>3, <1>5, <1>7, <1>8, KeysStep

\* The key of the car that was read, or loaded, is dropped: no other driver has
\* this car.
LEMMA DropCarKeyKeys == ASSUME IInv, KInv, ~disorder, NEW t \in Thread, DropCarKey(t)
                        PROVE  KInv'
<1> DEFINE l == [task[t] EXCEPT !.pc = "dropDriver"]
<1>1. /\ ~At(t, "idle") /\ carOf' = carOf /\ row' = row /\ task' = [task EXCEPT ![t] = l]
  BY DEF DropCarKey, At, Goto
<1>2. /\ task[t] \in Task /\ task[t].pc = "dropCar" /\ KeysOK(task[t])
  BY <1>1, Known DEF DropCarKey, At
<1>3. PICK k \in Task : k = l
  BY <1>2 DEF Task, Pc
<1>4. k.pc = "dropDriver" /\ k.d = task[t].d /\ k.ids = task[t].ids /\ k.today
  BY <1>2, <1>3 DEF Task, KeysOK
<1> HIDE DEF l
<1>5. KeysOK(k)'
  BY <1>1, <1>2, <1>4 DEF KeysOK, GivePc, RowsOf, Bound
<1>6. CASE task[t].c = NoCar
  <2>1. driverOf' = driverOf
    BY <1>6 DEF DropCarKey
  <2> QED
    BY <1>1, <1>3, <1>4, <1>5, <2>1, Known, SameStays, OnwardKeys DEF cache
<1>7. CASE task[t].c # NoCar
  <2>1. PICK c \in task[t].cars : c = task[t].c /\ c \in Car
    BY <1>2, <1>7 DEF KeysOK, Task
  <2>2. \A y \in Car \ {c} : driverOf'[y] = driverOf[y]
    BY <1>1, <1>7, <2>1, SetKeyEffect, Unfolded DEF CacheType, DropCarKey
  <2>3. \A i \in Id : Bound(i) /\ row[i].c = c => row[i].d = task[t].d
    BY <1>2, <2>1 DEF KeysOK
  <2>4. PICK d \in Driver :
          /\ d = task[t].d
          /\ \A i \in Id : Bound(i)' /\ row'[i].d # d =>
               /\ Stayed(i)
               /\ carOf'[row[i].d] = carOf[row[i].d] /\ driverOf'[row[i].c] = driverOf[row[i].c]
          /\ \A u \in InFlight \ {t} : Spares(task[u])
    BY <1>1, <2>2, <2>3, CarKeyQuiet
  <2> QED
    BY <1>1, <1>3, <1>4, <1>5, <2>4, KeysStep
<1> QED
  BY <1>6, <1>7

\* The driver's key is dropped: the driver has no row, or the one that
\* loginOutDriver has yet to commit.
LEMMA DropDriverKeyKeys == ASSUME IInv, KInv, ~disorder, NEW t \in Thread, DropDriverKey(t)
                           PROVE  KInv'
<1>1. /\ ~At(t, "idle") /\ driverOf' = driverOf /\ row' = row
      /\ carOf' = SetKey(carOf, task[t].d, NoCar, t)
  BY DEF DropDriverKey, At
<1>2. /\ task[t] \in Task /\ task[t].pc = "dropDriver" /\ KeysOK(task[t])
  BY <1>1, Known DEF DropDriverKey, At
<1>3. PICK d \in Driver : d = task[t].d
  BY <1>1, Known
<1>4. \A y \in Driver \ {d} : carOf'[y] = carOf[y]
  BY <1>1, <1>3, SetKeyEffect, Unfolded DEF CacheType
<1>5. /\ \A i \in Id : Bound(i)' /\ row'[i].d # d =>
           /\ Stayed(i)
           /\ carOf'[row[i].d] = carOf[row[i].d] /\ driverOf'[row[i].c] = driverOf[row[i].c]
      /\ \A u \in InFlight \ {t} : Spares(task[u])
  BY <1>1, <1>3, <1>4, DriverKeyQuiet
<1>6. RowsOf(d) \subseteq task[t].ids
  BY <1>2, <1>3 DEF KeysOK, GivePc
<1>7. CASE task[t].ids # {}
  <2> DEFINE l == [task[t] EXCEPT !.pc = "commit"]
  <2>1. task' = [task EXCEPT ![t] = l]
    BY <1>7 DEF DropDriverKey, Goto
  <2>2. PICK k \in Task : k = l
    BY <1>2 DEF Task, Pc
  <2>3. k.pc = "commit" /\ k.d = d /\ k.ids = task[t].ids /\ k.today
    BY <1>2, <1>3, <2>2 DEF Task, KeysOK
  <2> HIDE DEF l
  <2>4. KeysOK(k)'
    BY <1>1, <1>6, <2>3 DEF KeysOK, GivePc, RowsOf, Bound
  <2> QED
    BY <1>1, <1>3, <1>5, <2>1, <2>2, <2>3, <2>4, KeysStep
<1>8. CASE task[t].ids = {}
  <2>1. task' = [task EXCEPT ![t] = Idle]
    BY <1>8 DEF DropDriverKey, Finish
  <2>2. \A i \in Id : ~(Bound(i)' /\ row'[i].d = d)
    BY <1>1, <1>6, <1>8 DEF RowsOf, Bound
  <2>3. Idle \in Task /\ Idle.pc = "idle"
    BY DEF Idle, Task, Pc
  <2>4. PICK k \in Task : k = Idle /\ k.pc = "idle"
    BY <2>3
  <2>5. task' = [task EXCEPT ![t] = k]
    BY <2>1, <2>4
  <2>6. \A i \in Id : Bound(i)' /\ row'[i].d = d => row'[i].today /\ Cached(i)'
    BY <2>2
  <2>7. ~At(t, "idle") => task[t].d = d
    BY <1>3
  <2> QED
    BY <1>5, <2>4, <2>5, <2>6, <2>7, KeysStep
<1> QED
  BY <1>7, <1>8

\* The new row is the only one of its driver and of its car.
LEMMA SaveRowKeys == ASSUME IInv, KInv, ~disorder, NEW t \in Thread, SaveRow(t)
                     PROVE  KInv'
<1> DEFINE l == [task[t] EXCEPT !.pc = "carKey"]
<1>1. /\ ~At(t, "idle") /\ UNCHANGED cache /\ task' = [task EXCEPT ![t] = l]
  BY DEF SaveRow, At, Goto
<1>2. /\ task[t] \in Task /\ task[t].pc = "save" /\ task[t].today
      /\ task[t].c \in Car /\ task[t].c \in task[t].cars
  BY <1>1, Known DEF SaveRow, At, TaskOK, BindPc, KeysOK
<1>3. PICK d \in Driver, c \in Car :
        d = task[t].d /\ c = task[t].c /\ RowsOf(d) = {} /\ RowsOn(c) = {}
  BY <1>1, <1>2, Known DEF Ready
<1>4. PICK n \in Id : row[n].state = "none"
                      /\ row' = [row EXCEPT ![n] = [d |-> d, c |-> c, state |-> "bound",
                                                    today |-> TRUE]]
  BY <1>3 DEF SaveRow, Saved, NewId, UnusedIds
<1>5. /\ row'[n].d = d /\ row'[n].c = c /\ row'[n].today
      /\ \A i \in Id \ {n} : row'[i] = row[i]
  BY <1>4, Unfolded DEF RowType
<1>6. \A i \in Id : Bound(i)' => i = n \/ Stayed(i)
  BY <1>5 DEF Bound, Stayed
<1>7. PICK k \in Task : k = l
  BY <1>2 DEF Task, Pc
<1>8. k.pc = "carKey" /\ k.d = d /\ k.c = c /\ k.today
  BY <1>2, <1>3, <1>7 DEF Task
<1> HIDE DEF l
<1>9. \A i \in Id : Bound(i)' /\ (row'[i].d = d \/ row'[i].c = c) => i = n
  BY <1>3, <1>6 DEF RowsOf, RowsOn, Stayed
<1>10. KeysOK(k)'
  BY <1>5, <1>8, <1>9 DEF KeysOK, GivePc
<1>11. ASSUME NEW u \in InFlight \ {t} PROVE Spares(task[u])
  <2>1. Clear(task[t], task[u])
    BY <1>1, Known
  <2>2. d # task[u].d /\ c \in Car \ task[u].cars
    BY <1>2, <1>3, <2>1 DEF Clear
  <2> QED
    BY <1>1, <1>5, <1>6, <2>2 DEF Spares, cache
<1>12. \A i \in Id : Bound(i)' /\ row'[i].d # d =>
         /\ Stayed(i)
         /\ carOf'[row[i].d] = carOf[row[i].d] /\ driverOf'[row[i].c] = driverOf[row[i].c]
  BY <1>1, <1>5, <1>6 DEF cache
<1> QED
  BY <1>1, <1>3, <1>7, <1>8, <1>10, <1>11, <1>12, KeysStep

\* A row found by driver alone is freed: nobody serves the driver.
LEMMA UpdateDriverKeys == ASSUME IInv, KInv, ~disorder', NEW d \in Driver, UpdateDriver(d)
                          PROVE  KInv'
<1>1. ~disorder /\ UNCHANGED <<cache, task>>
  BY DEF UpdateDriver
<1>2. Stays
  BY FreeStays, TypeParts DEF UpdateDriver, IInv
<1> QED
  BY <1>1, <1>2, StillKeys

\* The job frees all rows, and every key it leaves is nobody's business.
LEMMA UpdateStatusKeys == ASSUME IInv, KInv, ~disorder', UpdateStatus
                          PROVE  KInv'
<1>1. ~disorder /\ UNCHANGED <<cache, task>>
  BY DEF UpdateStatus
<1>2. Stays
  BY FreeStays, TypeParts DEF UpdateStatus, IInv
<1> QED
  BY <1>1, <1>2, StillKeys

\* The day ends with no handler under way: no binding is of today, and no driver
\* has a key.
LEMMA MidnightKeys == ASSUME IInv, KInv, ~disorder', Midnight
                      PROVE  KInv'
<1>1. \A t \in Thread : At(t, "idle")
  BY DEF Midnight, InFlight
<1>2. \A t \in Thread : task'[t] = Idle
  BY <1>1 DEF Midnight
<1>3. InFlight' = {}
  BY <1>2 DEF InFlight, At, Idle
<1>4. ASSUME NEW i \in Id, Bound(i)' PROVE ~row'[i].today /\ carOf'[row'[i].d] = NoCar
  <2>1. row'[i] = IF row[i].today THEN [row[i] EXCEPT !.today = FALSE] ELSE row[i]
    BY DEF Midnight
  <2>2. row[i] \in Row \cup {Unused}
    BY TypeParts DEF IInv, RowType
  <2>3. row[i] \in Row
    BY <1>4, <2>1, <2>2 DEF Bound, Unused
  <2>4. ~row'[i].today /\ row'[i].d \in Driver
    BY <2>1, <2>3 DEF Row
  <2> QED
    BY <2>4 DEF Midnight
<1> QED
  BY <1>3, <1>4 DEF KInv, RowKeys

\* No handler is under way and nothing is bound at first.
LEMMA InitKeys == Init => KInv
BY DEF Init, KInv, InFlight, At, Idle, RowKeys, Bound, Unused

\* Every step keeps the keys of the day right.
LEMMA NextKeys ==
  ASSUME IInv, KInv, [Next]_vars
  PROVE  KInv'
<1> SUFFICES ASSUME ~disorder' PROVE KInv'
  BY DEF KInv
<1>1. ASSUME NEW t \in Thread, NEW d \in Driver,
             \/ Unbind(t, d) \/ LoginOut(t, d) \/ DriverLogout(t, d)
             \/ \E c \in Car : Bind(t, d, c)
      PROVE  KInv'
  BY <1>1, BindKeys, UnbindKeys, LoginOutKeys, DriverLogoutKeys
<1>2. ASSUME NEW t \in Thread,
             \/ ListFormer(t) \/ FreeFormer(t) \/ SaveRow(t) \/ SetCarKey(t) \/ SetDriverKey(t)
             \/ FreeRow(t) \/ ReadKey(t) \/ DropCarKey(t) \/ DropDriverKey(t) \/ CommitRow(t)
      PROVE  KInv'
  <2>1. ~disorder
    BY <1>2 DEF ListFormer, FreeFormer, SaveRow, SetCarKey, SetDriverKey, FreeRow, ReadKey,
                DropCarKey, DropDriverKey, CommitRow
  <2> QED
    BY <1>2, <2>1, ListFormerKeys, FreeFormerKeys, SaveRowKeys, SetCarKeyKeys,
       SetDriverKeyKeys, FreeRowKeys, ReadKeyKeys, DropCarKeyKeys, DropDriverKeyKeys,
       CommitRowKeys
<1>3. ASSUME NEW d \in Driver, UpdateDriver(d) \/ \E c \in Car : AddDriver(d, c)
      PROVE  KInv'
  BY <1>3, UpdateDriverKeys DEF AddDriver
<1>4. CASE UpdateStatus \/ Midnight
  BY <1>4, UpdateStatusKeys, MidnightKeys
<1>5. CASE UNCHANGED vars
  BY <1>5, StillKeys, SameStays DEF vars
<1> QED
  BY <1>1, <1>2, <1>3, <1>4, <1>5 DEF Next

\* Every handler leaves its driver with the one row the keys of the day name, or
\* with none.
THEOREM KeysAreRight == Spec => []KInv
<1>1. IInv /\ KInv /\ [Next]_vars => KInv'
  BY NextKeys
<1> QED
  BY InitKeys, Invariance, <1>1, PTL DEF Spec

\* As long as handlers of a driver or a car do not meet, both keys of the day
\* name the car and the driver of every binding made today: what the boarding
\* check and the progress of peak routes read is what the table says.
THEOREM BindingsAreCached == Spec => []BoundIsCached
<1>1. KInv => BoundIsCached
  <2> SUFFICES ASSUME KInv, ~disorder, NEW i \in Id, Bound(i), row[i].today,
                      Settled(row[i].d, row[i].c)
               PROVE  Cached(i)
    BY DEF BoundIsCached, Cached
  <2>1. Unserved(row[i].d)
    BY DEF Settled, Unserved
  <2> QED
    BY <2>1 DEF KInv, RowKeys
<1> QED
  BY KeysAreRight, <1>1, PTL
=============================================================================
