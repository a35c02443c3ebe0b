---------------------------- MODULE DriverCarBind ----------------------------
(***************************************************************************)
(* Which driver drives which car today: rows of t_driver_car_bind, and the *)
(* two redis keys of the day, car to driver and driver to car, that the    *)
(* boarding check and the progress of peak routes read instead.            *)
(*                                                                         *)
(* A handler makes one database or redis call per step.  Only              *)
(* loginOutDriver runs in a transaction; it drops the keys before it       *)
(* commits.                                                                *)
(***************************************************************************)
EXTENDS Naturals, FiniteSets

CONSTANTS
  Driver, Car, Thread,
  MaxBind,           \* bound on the rows ever saved
  NoDriver, NoCar

ASSUME BindAssumption ==
  NoDriver \notin Driver /\ NoCar \notin Car /\ MaxBind \in Nat

Id == 1 .. MaxBind

VARIABLES
  row,        \* t_driver_car_bind by id: driver, car, bind_status, made today
  driverOf,   \* redis: today's driver of a car
  carOf,      \* redis: today's car of a driver
  task,       \* what each thread is doing
  disorder    \* handlers met over a driver or a car, or addDriver (history)

cache == <<driverOf, carOf>>
vars == <<row, cache, task, disorder>>

Row == [d : Driver, c : Car, state : {"bound", "free"}, today : BOOLEAN]
Unused == [d |-> NoDriver, c |-> NoCar, state |-> "none", today |-> FALSE]

Bound(i)  == row[i].state = "bound"
RowsOf(d) == {i \in Id : Bound(i) /\ row[i].d = d}
RowsOn(c) == {i \in Id : Bound(i) /\ row[i].c = c}

Free(S)   == [i \in Id |-> IF i \in S THEN [row[i] EXCEPT !.state = "free"] ELSE row[i]]

-----------------------------------------------------------------------------
(* Tasks: the driver served, the car asked for or found, the rows to free, *)
(* whether the day the handler computed its keys for is still today, and   *)
(* all cars it may touch.                                                  *)

Idle == [pc |-> "idle", d |-> NoDriver, c |-> NoCar, ids |-> {}, today |-> TRUE, cars |-> {}]
At(t, pc) == task[t].pc = pc
Goto(t, pc) == task' = [task EXCEPT ![t].pc = pc]
Finish(t) == task' = [task EXCEPT ![t] = Idle]
InFlight == {t \in Thread : ~At(t, "idle")}

CarsOf(d) == {row[i].c : i \in RowsOf(d)} \cup ({carOf[d]} \ {NoCar})

\* History: a handler for d and the cars C meets another one.
Meets(d, C) ==
  \E u \in InFlight : task[u].d = d \/ task[u].cars \cap C # {}

Begin(t, pc, d, c, ids) ==
  LET C == CarsOf(d) \cup ({c} \ {NoCar}) IN
  /\ At(t, "idle")
  /\ task' = [task EXCEPT ![t] =
       [pc |-> pc, d |-> d, c |-> c, ids |-> ids, today |-> TRUE, cars |-> C]]
  /\ disorder' = (disorder \/ Meets(d, C))

\* Mutant: the key's owner is stored as its value.
SetKeySelf(f, k, v, t) == IF task[t].today THEN [f EXCEPT ![k] = k] ELSE f

\* Keys carry the date their handler computed: yesterday's are nobody's.
SetKey(f, k, v, t) == IF task[t].today THEN [f EXCEPT ![k] = v] ELSE f

-----------------------------------------------------------------------------
(* add: a driver takes a car.                                              *)

\* IF no bound row has the car THEN go on, else refuse.
Bind(t, d, c) ==
  /\ RowsOn(c) = {}
  /\ Begin(t, "list", d, c, {})
  /\ UNCHANGED <<row, cache>>

\* Mutant: the driver's former binding is not looked for.
FormerNone(d) == {}

\* Other bound rows of the driver are listed ...
Former(d) == RowsOf(d)
ListFormer(t) ==
  /\ At(t, "list")
  /\ task' = [task EXCEPT ![t].pc = "free", ![t].ids = Former(task[t].d),
                          ![t].today = TRUE]
  /\ UNCHANGED <<row, cache, disorder>>

\* ... and freed,
FreeFormer(t) ==
  /\ At(t, "free")
  /\ row' = Free(task[t].ids)
  /\ Goto(t, "save")
  /\ UNCHANGED <<cache, disorder>>

UnusedIds == {i \in Id : row[i].state = "none"}
NewId == CHOOSE i \in UnusedIds : TRUE
Saved(d, c) ==
  [row EXCEPT ![NewId] = [d |-> d, c |-> c, state |-> "bound", today |-> TRUE]]

\* ... the new row is saved,
SaveRow(t) ==
  /\ At(t, "save") /\ UnusedIds # {}
  /\ row' = Saved(task[t].d, task[t].c)
  /\ Goto(t, "carKey")
  /\ UNCHANGED <<cache, disorder>>

\* ... and the keys of the day are set, each by a call of its own.
SetCarKey(t) ==
  /\ At(t, "carKey")
  /\ driverOf' = SetKey(driverOf, task[t].c, task[t].d, t)
  /\ Goto(t, "driverKey")
  /\ UNCHANGED <<row, carOf, disorder>>

SetDriverKey(t) ==
  /\ At(t, "driverKey")
  /\ carOf' = SetKey(carOf, task[t].d, task[t].c, t)
  /\ Finish(t)
  /\ UNCHANGED <<row, driverOf, disorder>>

-----------------------------------------------------------------------------
(* update, loginOutDriver, driverLogout: a driver gives the car back.      *)

\* update: IF the driver has one bound row THEN it is loaded ...
Unbind(t, d) ==
  /\ Cardinality(RowsOf(d)) = 1
  /\ Begin(t, "freeRow", d, NoCar, RowsOf(d))
  /\ UNCHANGED <<row, cache>>

\* ... and freed at once, THEN the keys are dropped.
FreeRow(t) ==
  /\ At(t, "freeRow")
  /\ row' = Free(task[t].ids)
  /\ task' = [task EXCEPT ![t].pc = "readKey", ![t].ids = {}]
  /\ UNCHANGED <<cache, disorder>>

\* Mutant: the UPDATE does not ask for bind_status "1".
LogoutRowsAny(d) == {i \in Id : row[i].d = d}

\* driverLogout: IF the one UPDATE frees rows of the driver THEN the keys are
\* dropped.
LogoutRows(d) == RowsOf(d)
DriverLogout(t, d) ==
  /\ LogoutRows(d) # {}
  /\ row' = Free(LogoutRows(d))
  /\ Begin(t, "readKey", d, NoCar, {})
  /\ UNCHANGED cache

\* The car whose key is dropped is the one in the driver's key.
ReadKey(t) ==
  /\ At(t, "readKey")
  /\ task' = [task EXCEPT ![t].pc = "dropCar", ![t].today = TRUE,
       ![t].c = carOf[task[t].d]]
  /\ UNCHANGED <<row, cache, disorder>>

DropCarKey(t) ==
  /\ At(t, "dropCar")
  /\ driverOf' = IF task[t].c = NoCar THEN driverOf
                 ELSE SetKey(driverOf, task[t].c, NoDriver, t)
  /\ Goto(t, "dropDriver")
  /\ UNCHANGED <<row, carOf, disorder>>

\* The end, unless loginOutDriver's transaction holds a row to commit.
DropDriverKey(t) ==
  /\ At(t, "dropDriver")
  /\ carOf' = SetKey(carOf, task[t].d, NoCar, t)
  /\ IF task[t].ids # {} THEN Goto(t, "commit") ELSE Finish(t)
  /\ UNCHANGED <<row, driverOf, disorder>>

\* loginOutDriver: the row is loaded, the keys of its car and driver dropped,
\* and the freed row committed last.
LoginOut(t, d) ==
  /\ Cardinality(RowsOf(d)) = 1
  /\ \E i \in RowsOf(d) : Begin(t, "dropCar", d, row[i].c, {i})
  /\ UNCHANGED <<row, cache>>

CommitRow(t) ==
  /\ At(t, "commit")
  /\ row' = Free(task[t].ids)
  /\ Finish(t)
  /\ UNCHANGED <<cache, disorder>>

-----------------------------------------------------------------------------
(* Handlers that leave the cache alone, and the clock.                     *)

\* addDriver saves a bound row unchecked.
AddDriver(d, c) ==
  /\ UnusedIds # {}
  /\ row' = Saved(d, c)
  /\ disorder' = TRUE
  /\ UNCHANGED <<cache, task>>

\* updateDriver: IF the driver has one row of any status THEN it is freed.
UpdateDriver(d) ==
  LET ids == {i \in Id : row[i].d = d} IN
  /\ Cardinality(ids) = 1
  /\ row' = Free(ids)
  /\ disorder' = (disorder \/ Meets(d, CarsOf(d)))
  /\ UNCHANGED <<cache, task>>

\* updateStatus, a second before midnight: all rows are freed, no key dropped.
UpdateStatus ==
  /\ \E i \in Id : Bound(i)
  /\ row' = Free(Id \ UnusedIds)
  /\ disorder' = (disorder \/ InFlight # {})
  /\ UNCHANGED <<cache, task>>

\* Keys are read and written by date; a handler under way keeps its own.
Midnight ==
  /\ \E i \in Id : row[i].today
  /\ row' = [i \in Id |-> IF row[i].today THEN [row[i] EXCEPT !.today = FALSE] ELSE row[i]]
  /\ driverOf' = [c \in Car |-> NoDriver]
  /\ carOf' = [d \in Driver |-> NoCar]
  /\ task' = [t \in Thread |-> IF At(t, "idle") THEN Idle
                               ELSE [task[t] EXCEPT !.today = FALSE]]
  /\ disorder' = (disorder \/ InFlight # {})

-----------------------------------------------------------------------------
Init ==
  /\ row = [i \in Id |-> Unused]
  /\ driverOf = [c \in Car |-> NoDriver] /\ carOf = [d \in Driver |-> NoCar]
  /\ task = [t \in Thread |-> Idle]
  /\ disorder = FALSE

Next ==
  \/ \E t \in Thread, d \in Driver :
       \/ \E c \in Car : Bind(t, d, c)
       \/ Unbind(t, d) \/ LoginOut(t, d) \/ DriverLogout(t, d)
  \/ \E t \in Thread :
       \/ ListFormer(t) \/ FreeFormer(t) \/ SaveRow(t) \/ SetCarKey(t) \/ SetDriverKey(t)
       \/ FreeRow(t) \/ ReadKey(t) \/ DropCarKey(t) \/ DropDriverKey(t) \/ CommitRow(t)
  \/ \E d \in Driver : UpdateDriver(d) \/ \E c \in Car : AddDriver(d, c)
  \/ UpdateStatus \/ Midnight

Spec == Init /\ [][Next]_vars

-----------------------------------------------------------------------------
(* Properties.                                                             *)

\* Shapes of rows, keys and tasks.
TypeOK ==
  /\ row \in [Id -> Row \cup {Unused}]
  /\ driverOf \in [Car -> Driver \cup {NoDriver}]
  /\ carOf \in [Driver -> Car \cup {NoCar}]
  /\ task \in [Thread ->
       [pc : {"idle", "list", "free", "save", "carKey", "driverKey", "freeRow",
              "readKey", "dropCar", "dropDriver", "commit"},
        d : Driver \cup {NoDriver}, c : Car \cup {NoCar}, ids : SUBSET Id,
        today : BOOLEAN, cars : SUBSET Car]]
  /\ disorder \in BOOLEAN

\* As long as handlers for a driver or a car do not meet, no two bound rows
\* name the same driver or the same car: add refuses a taken car and frees the
\* driver's former one.
BoundOnce ==
  ~disorder => \A i, j \in Id :
    Bound(i) /\ Bound(j) /\ (row[i].d = row[j].d \/ row[i].c = row[j].c) => i = j

Settled(d, c) == \A t \in InFlight : task[t].d # d /\ c \notin task[t].cars

\* As long as ..., a binding made today is what both keys say, whatever was
\* bound, given back, logged out or freed by the job in between: readers of the
\* keys see the driver that sits in the car.
BoundIsCached ==
  ~disorder => \A i \in Id :
    Bound(i) /\ row[i].today /\ Settled(row[i].d, row[i].c)
      => driverOf[row[i].c] = row[i].d /\ carOf[row[i].d] = row[i].c
=============================================================================
