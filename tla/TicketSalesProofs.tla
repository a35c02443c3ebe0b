-------------------------- MODULE TicketSalesProofs --------------------------
(***************************************************************************)
(* Theorems of TicketSales, for every value of its constants.              *)
(*                                                                         *)
(* What a check has seen must last until the order counts, steps later.    *)
(* Spare says what a sale that met no other still has: nobody else is      *)
(* buying a seat of the departure, and the tickets that count, or that a   *)
(* stale page may bring back, leave room for its own.  Lone says that of   *)
(* two sales of one kind to one user only one is alive.                    *)
(***************************************************************************)
EXTENDS TicketSales, FiniteSetTheorems, TLAPS

\* An order that nobody has paid for yet, or that is still to be saved.
Selling(o) == step[o] \in {"checked", "cleared"} \/ (step[o] = "saved" /\ ~paid[o])

\* Orders of a departure that count, or will when a stale copy is written back.
Live(s) == {p \in InSlot(s) : Counted(p) \/ p \in inHand}

\* An order that passed the check for unused tickets and may still be used.
Alive(o) ==
  \/ step[o] = "cleared"
  \/ step[o] = "saved" /\ (~paid[o] \/ status[o] = "toUse" \/ o \in inHand)

\* Payments are of saved orders, and pages hold paid orders only.
HandsOK == \A o \in Order : (paid[o] => step[o] = "saved") /\ (o \in inHand => paid[o])

Room(o) ==
  /\ \A p \in InSlot(SlotOf[o]) \ {o} : ~Selling(p)
  /\ Cardinality(Tickets(Live(SlotOf[o]))) + Seats[o] < Total

Spare == \A o \in Order \ crossed : SlotOf[o] # NoSlot /\ Selling(o) => Room(o)

Lone ==
  \A o, p \in Order \ (crossed \cup old) : p \in Alike(o) \ {o} => ~(Alive(o) /\ Alive(p))

IInv == TypeOK /\ HandsOK /\ Spare /\ Lone

-----------------------------------------------------------------------------
(* Tickets.                                                                *)

\* Finitely many orders have finitely many tickets.
LEMMA TicketsFinite ==
  ASSUME NEW S \in SUBSET Order
  PROVE  IsFiniteSet(Tickets(S))
<1> DEFINE f == [o \in S |-> {o} \X (1 .. Seats[o])]
           T == {{o} \X (1 .. Seats[o]) : o \in S}
<1>1. IsFiniteSet(S)
  BY FS_Subset, SalesAssumption
<1>2. f \in Surjection(S, T)
  BY DEF Surjection
<1>3. IsFiniteSet(T)
  BY <1>1, <1>2, FS_Surjection
<1>4. ASSUME NEW o \in S PROVE IsFiniteSet({o} \X (1 .. Seats[o]))
  <2>1. Seats[o] \in Nat
    BY SalesAssumption
  <2>2. IsFiniteSet(1 .. Seats[o])
    BY <2>1, FS_Interval
  <2>3. IsFiniteSet({o})
    BY FS_Singleton
  <2> QED
    BY <2>2, <2>3, FS_Product
<1>5. \A s \in T : IsFiniteSet(s)
  BY <1>4
<1> QED
  BY <1>3, <1>5, FS_UNION DEF Tickets

\* Fewer orders have no more tickets.
LEMMA TicketsMono ==
  ASSUME NEW S \in SUBSET Order, NEW R \in SUBSET S
  PROVE  /\ Cardinality(Tickets(R)) <= Cardinality(Tickets(S))
         /\ Cardinality(Tickets(R)) \in Nat /\ Cardinality(Tickets(S)) \in Nat
<1>1. IsFiniteSet(Tickets(S)) /\ IsFiniteSet(Tickets(R))
  BY TicketsFinite
<1>2. Tickets(R) \subseteq Tickets(S)
  BY DEF Tickets
<1> QED
  BY <1>1, <1>2, FS_Subset, FS_CardinalityType

\* One order more adds its tickets at most.
LEMMA TicketsAdd ==
  ASSUME NEW S \in SUBSET Order, NEW o \in Order
  PROVE  Cardinality(Tickets(S \cup {o})) <= Cardinality(Tickets(S)) + Seats[o]
<1> DEFINE A == {o} \X (1 .. Seats[o])
<1>1. Seats[o] \in Nat
  BY SalesAssumption
<1>2. IsFiniteSet(1 .. Seats[o]) /\ Cardinality(1 .. Seats[o]) = Seats[o]
  BY <1>1, FS_Interval
<1>3. IsFiniteSet({o}) /\ Cardinality({o}) = 1
  BY FS_Singleton
<1>4. IsFiniteSet(A) /\ Cardinality(A) = Seats[o]
  <2>1. IsFiniteSet(A) /\ Cardinality(A) = 1 * Seats[o]
    BY <1>2, <1>3, FS_Product
  <2>2. 1 * Seats[o] = Seats[o]
    BY <1>1
  <2> QED
    BY <2>1, <2>2
<1>5. Tickets(S \cup {o}) = Tickets(S) \cup A
  BY DEF Tickets
<1>6. IsFiniteSet(Tickets(S)) /\ Cardinality(Tickets(S)) \in Nat
  BY TicketsFinite, FS_CardinalityType
<1> HIDE DEF A
<1>7. Cardinality(Tickets(S) \cap A) \in Nat
  BY <1>6, FS_Intersection, FS_CardinalityType
<1>8. Cardinality(Tickets(S) \cup A)
        = Cardinality(Tickets(S)) + Cardinality(A) - Cardinality(Tickets(S) \cap A)
  BY <1>4, <1>6, FS_Union
<1>9. \A a, b, c \in Nat : a + b - c <= a + b
  OBVIOUS
<1>10. Cardinality(Tickets(S) \cup A) <= Cardinality(Tickets(S)) + Seats[o]
  BY <1>1, <1>4, <1>6, <1>7, <1>8, <1>9
<1> QED
  BY <1>5, <1>10

-----------------------------------------------------------------------------
(* Shapes.                                                                 *)

Shapes == TypeOK /\ HandsOK

LEMMA InitShapes == Init => Shapes
BY SalesAssumption DEF Init, Shapes, TypeOK, HandsOK, Step, Status, Counted

\* An order has a status once it is saved; it counts, or is held, once paid.
LEMMA NextShapes ==
  ASSUME Shapes, [Next]_vars
  PROVE  Shapes'
<1> USE DEF Shapes, TypeOK, HandsOK, Step, Status, Counted
<1>1. ASSUME NEW o \in Order, CheckAppointment(o) PROVE Shapes'
  <2>1. crossed' \subseteq Order
    BY <1>1 DEF CheckAppointment, Met, InSlot
  <2> QED
    BY <1>1, <2>1 DEF CheckAppointment
<1>2. ASSUME NEW o \in Order, CheckExitsNotTravelPeak(o) PROVE Shapes'
  <2>1. crossed' \subseteq Order
    BY <1>2 DEF CheckExitsNotTravelPeak, Met, Alike
  <2> QED
    BY <1>2, <2>1 DEF CheckExitsNotTravelPeak
<1>3. ASSUME NEW o \in Order, AddOrder(o) PROVE Shapes'
  <2>1. /\ step' = [step EXCEPT ![o] = "saved"] /\ inHand' = inHand
        /\ status' = [status EXCEPT ![o] = SavedStatus(o)]
        /\ paid' = [paid EXCEPT ![o] = o \in Company]
        /\ UNCHANGED <<old, closed, crossed>>
    BY <1>3 DEF AddOrder
  <2>2. SavedStatus(o) \in {"toUse", "created"} /\ (SavedStatus(o) = "toUse" => o \in Company)
    BY DEF SavedStatus
  <2>3. paid' \in [Order -> BOOLEAN] /\ status' \in [Order -> Status]
    BY <2>1, <2>2
  <2>4. /\ paid'[o] = (o \in Company) /\ status'[o] = SavedStatus(o) /\ step'[o] = "saved"
        /\ \A p \in Order : p # o =>
             paid'[p] = paid[p] /\ status'[p] = status[p] /\ step'[p] = step[p]
    BY <2>1
  <2>5. o \notin inHand
    BY <1>3 DEF AddOrder
  <2>6. paid'[o] => o \in Company
    BY <2>4
  <2>7. TypeOK'
    <3>1. /\ step' \in [Order -> Step] /\ inHand' \subseteq Order /\ old' \subseteq Order
          /\ crossed' \subseteq Order /\ closed' \subseteq Slot
      BY <2>1
    <3>2. ASSUME NEW p \in Order
          PROVE  (status'[p] # "none" <=> step'[p] = "saved") /\ (Counted(p)' => paid'[p])
      <4>1. CASE p = o
        <5>1. status'[p] # "none" /\ step'[p] = "saved"
          BY <4>1, <2>2, <2>4
        <5>2. Counted(p)' => o \in Company
          BY <4>1, <2>2, <2>4
        <5>3. o \in Company => paid'[p]
          BY <4>1, <2>4
        <5> QED
          BY <5>1, <5>2, <5>3
      <4>2. CASE p # o
        BY <4>2, <2>4
      <4> QED
        BY <4>1, <4>2
    <3> QED
      BY <2>3, <3>1, <3>2
  <2>8. HandsOK'
    <3>1. ASSUME NEW p \in Order
          PROVE  (paid'[p] => step'[p] = "saved") /\ (p \in inHand' => paid'[p])
      <4>1. CASE p = o
        BY <4>1, <2>1, <2>4, <2>5
      <4>2. CASE p # o
        BY <4>2, <2>1, <2>4
      <4> QED
        BY <4>1, <4>2
    <3> QED
      BY <3>1
  <2> QED
    BY <2>7, <2>8
<1>4. ASSUME NEW o \in Order, BookPayment(o) PROVE Shapes'
  BY <1>4 DEF BookPayment
<1>5. ASSUME NEW o \in Order, Load(o) PROVE Shapes'
  BY <1>5 DEF Load
<1>6. ASSUME NEW o \in Order, WriteBack(o) PROVE Shapes'
  BY <1>6 DEF WriteBack
<1>7. ASSUME NEW o \in Order, Leave(o) PROVE Shapes'
  BY <1>7 DEF Leave
<1>8. ASSUME NEW s \in Slot, SlotCloses(s) PROVE Shapes'
  BY <1>8 DEF SlotCloses
<1>9. CASE Midnight
  BY <1>9 DEF Midnight, UnderWay
<1>10. CASE UNCHANGED vars
  BY <1>10 DEF vars
<1> QED
  BY <1>1, <1>2, <1>3, <1>4, <1>5, <1>6, <1>7, <1>8, <1>9, <1>10 DEF Next

-----------------------------------------------------------------------------
(* Room for a sale that met no other.                                      *)

\* Room lasts while no other order of the departure begins to sell or to live.
LEMMA RoomLasts ==
  ASSUME NEW o \in Order, Room(o),
         \A p \in InSlot(SlotOf[o]) \ {o} : Selling(p)' => Selling(p),
         Live(SlotOf[o])' \subseteq Live(SlotOf[o])
  PROVE  Room(o)'
<1>1. PICK R : R = Live(SlotOf[o])'
  OBVIOUS
<1>2. PICK S : S = Live(SlotOf[o])
  OBVIOUS
<1>3. S \in SUBSET Order /\ R \in SUBSET S
  BY <1>1, <1>2 DEF Live, InSlot
<1>4. /\ Cardinality(Tickets(R)) <= Cardinality(Tickets(S))
      /\ Cardinality(Tickets(R)) \in Nat /\ Cardinality(Tickets(S)) \in Nat
  BY <1>3, TicketsMono
<1>5. Cardinality(Tickets(S)) + Seats[o] < Total
  BY <1>2 DEF Room
<1>6. Seats[o] \in Nat /\ Total \in Nat
  BY SalesAssumption
<1>7. Cardinality(Tickets(R)) + Seats[o] < Total
  BY <1>4, <1>5, <1>6
<1>8. Cardinality(Tickets(Live(SlotOf[o])))' = Cardinality(Tickets(R))
  BY <1>1 DEF Tickets
<1>9. \A p \in InSlot(SlotOf[o]) \ {o} : ~Selling(p)'
  BY DEF Room
<1>10. (Cardinality(Tickets(Live(SlotOf[o]))) + Seats[o] < Total)'
  BY <1>7, <1>8
<1>11. InSlot(SlotOf[o])' = InSlot(SlotOf[o])
  BY DEF InSlot
<1> QED
  BY <1>9, <1>10, <1>11 DEF Room

\* checkAppointment gives an order room when it meets nobody.
LEMMA CheckGivesRoom ==
  ASSUME Shapes, NEW o \in Order, CheckAppointment(o), o \notin crossed',
         SlotOf[o] # NoSlot, Selling(o)'
  PROVE  Room(o)'
<1>1. /\ step' = [step EXCEPT ![o] =
           IF SlotOf[o] \notin closed /\ SeatsLeft(o) THEN "checked" ELSE "refused"]
      /\ step[o] = "idle" /\ crossed' = Met(o, InSlot(SlotOf[o]))
      /\ status' = status /\ paid' = paid /\ inHand' = inHand
  BY DEF CheckAppointment
<1>2. SeatsLeft(o)
  BY <1>1 DEF Shapes, TypeOK, Selling
<1>3. \A p \in InSlot(SlotOf[o]) \ {o} : ~Pending(p)
  BY <1>1 DEF Met
<1>4. \A p \in InSlot(SlotOf[o]) \ {o} : ~Selling(p) /\ p \notin inHand
  BY <1>3 DEF Pending, Selling
<1>5. \A p \in InSlot(SlotOf[o]) \ {o} : Selling(p)' => Selling(p)
  BY <1>1 DEF Shapes, TypeOK, Selling, InSlot
<1>6. o \notin inHand
  BY <1>1 DEF Shapes, HandsOK
<1>7. Live(SlotOf[o]) = {p \in InSlot(SlotOf[o]) : Counted(p)}
  BY <1>4, <1>6 DEF Live
<1>8. Live(SlotOf[o])' = Live(SlotOf[o])
  BY <1>1 DEF Live, Counted, InSlot
<1>9. Room(o)
  BY <1>2, <1>4, <1>7 DEF Room, SeatsLeft, Booked
<1> QED
  BY <1>5, <1>8, <1>9, RoomLasts

LEMMA InitSpare == Init => Spare
BY DEF Init, Spare, Selling

LEMMA NextSpare ==
  ASSUME Shapes, Spare, [Next]_vars
  PROVE  Spare'
<1> SUFFICES ASSUME NEW o \in Order, o \notin crossed', SlotOf[o] # NoSlot, Selling(o)'
             PROVE  Room(o)'
  BY DEF Spare
<1>1. ASSUME Selling(o), o \notin crossed,
             \A p \in InSlot(SlotOf[o]) \ {o} : Selling(p)' => Selling(p),
             Live(SlotOf[o])' \subseteq Live(SlotOf[o])
      PROVE  Room(o)'
  <2>1. Room(o)
    BY <1>1 DEF Spare
  <2> QED
    BY <1>1, <2>1, RoomLasts
<1>2. ASSUME NEW q \in Order, CheckAppointment(q) PROVE Room(o)'
  <2>1. CASE q = o
    BY <1>2, <2>1, CheckGivesRoom
  <2>2. CASE q # o
    <3>1. /\ step' \in [Order -> Step] /\ \A p \in Order : p # q => step'[p] = step[p]
          /\ status' = status /\ paid' = paid /\ inHand' = inHand
          /\ SlotOf[q] # NoSlot => crossed' = Met(q, InSlot(SlotOf[q]))
          /\ crossed \subseteq crossed'
      BY <1>2 DEF CheckAppointment, Shapes, TypeOK, Met, Step
    <3>2. Selling(o)
      BY <2>2, <3>1 DEF Selling
    <3>3. q \notin InSlot(SlotOf[o])
      <4>1. SUFFICES ASSUME SlotOf[q] = SlotOf[o] PROVE FALSE
        BY DEF InSlot
      <4>2. o \in InSlot(SlotOf[q]) \ {q} /\ Pending(o)
        BY <2>2, <3>2, <4>1 DEF InSlot, Pending, Selling
      <4> QED
        BY <3>1, <4>1, <4>2 DEF Met
    <3>4. \A p \in InSlot(SlotOf[o]) \ {o} : Selling(p)' => Selling(p)
      BY <3>1, <3>3 DEF Selling, InSlot
    <3>5. Live(SlotOf[o])' = Live(SlotOf[o])
      BY <3>1 DEF Live, Counted, InSlot
    <3> QED
      BY <1>1, <3>1, <3>2, <3>4, <3>5
  <2> QED
    BY <2>1, <2>2
<1>3. ASSUME NEW q \in Order, CheckExitsNotTravelPeak(q) PROVE Room(o)'
  <2>1. /\ step[q] = "checked" /\ step'[q] \in {"cleared", "refused"}
        /\ \A p \in Order : p # q => step'[p] = step[p]
        /\ status' = status /\ paid' = paid /\ inHand' = inHand
        /\ crossed \subseteq crossed'
    BY <1>3 DEF CheckExitsNotTravelPeak, Shapes, TypeOK, Met
  <2>2. \A p \in Order : Selling(p)' => Selling(p)
    BY <2>1 DEF Selling
  <2>3. Live(SlotOf[o])' = Live(SlotOf[o])
    BY <2>1 DEF Live, Counted, InSlot
  <2> QED
    BY <1>1, <2>1, <2>2, <2>3 DEF InSlot
<1>4. ASSUME NEW q \in Order, AddOrder(q) PROVE Room(o)'
  <2>1. /\ step[q] = "cleared" /\ step'[q] = "saved" /\ status'[q] = SavedStatus(q)
        /\ q \in Company => paid'[q]
        /\ \A p \in Order : p # q =>
             step'[p] = step[p] /\ status'[p] = status[p] /\ paid'[p] = paid[p]
        /\ inHand' = inHand /\ crossed' = crossed
    BY <1>4 DEF AddOrder, Shapes, TypeOK
  <2>2. \A p \in Order : Selling(p)' => Selling(p)
    BY <2>1 DEF Selling
  <2>3. q \notin Live(SlotOf[o])'
    <3>1. SUFFICES ASSUME q \in InSlot(SlotOf[o]) PROVE ~Counted(q)' /\ q \notin inHand
      BY <2>1 DEF Live
    <3>2. q = o
      BY <2>1, <2>2, <3>1 DEF Spare, Room, Selling
    <3>3. q \notin Company
      BY <2>1, <3>2 DEF Selling
    <3>4. status'[q] = "created"
      BY <2>1, <3>3 DEF SavedStatus
    <3> QED
      BY <2>1, <3>4 DEF Counted, Shapes, HandsOK
  <2>4. Live(SlotOf[o])' \subseteq Live(SlotOf[o])
    BY <2>1, <2>3 DEF Live, Counted, InSlot
  <2> QED
    BY <1>1, <2>1, <2>2, <2>4 DEF InSlot
<1>5. ASSUME NEW q \in Order, BookPayment(q) PROVE Room(o)'
  <2>1. /\ step[q] = "saved" /\ ~paid[q] /\ paid'[q] /\ step' = step
        /\ \A p \in Order : p # q => status'[p] = status[p] /\ paid'[p] = paid[p]
        /\ inHand' = inHand /\ crossed' = crossed
    BY <1>5 DEF BookPayment, Shapes, TypeOK
  <2>2. \A p \in Order : Selling(p)' => Selling(p)
    BY <2>1 DEF Selling
  <2>3. q \notin InSlot(SlotOf[o])
    <3>1. q # o
      BY <2>1 DEF Selling
    <3> QED
      BY <2>1, <2>2, <3>1 DEF Spare, Room, Selling
  <2>4. Live(SlotOf[o])' \subseteq Live(SlotOf[o])
    BY <2>1, <2>3 DEF Live, Counted, InSlot
  <2> QED
    BY <1>1, <2>1, <2>2, <2>4 DEF InSlot
<1>6. ASSUME NEW q \in Order, Load(q) PROVE Room(o)'
  <2>1. status[q] = "toUse" /\ inHand' = inHand \cup {q}
        /\ UNCHANGED <<step, status, paid, crossed>>
    BY <1>6 DEF Load
  <2>2. Live(SlotOf[o])' \subseteq Live(SlotOf[o])
    BY <2>1 DEF Live, Counted, InSlot
  <2> QED
    BY <1>1, <2>1, <2>2 DEF Selling
<1>7. ASSUME NEW q \in Order, WriteBack(q) PROVE Room(o)'
  <2>1. /\ q \in inHand /\ inHand' \subseteq inHand
        /\ \A p \in Order : p # q => status'[p] = status[p]
        /\ UNCHANGED <<step, paid, crossed>>
    BY <1>7 DEF WriteBack, Shapes, TypeOK
  <2>2. Live(SlotOf[o])' \subseteq Live(SlotOf[o])
    BY <2>1 DEF Live, Counted, InSlot
  <2> QED
    BY <1>1, <2>1, <2>2 DEF Selling
<1>8. ASSUME NEW q \in Order, Leave(q) PROVE Room(o)'
  <2>1. /\ status'[q] = "gone"
        /\ \A p \in Order : p # q => status'[p] = status[p]
        /\ status[q] # "created" => Counted(q)
        /\ UNCHANGED <<step, paid, inHand, crossed>>
    BY <1>8 DEF Leave, Shapes, TypeOK, Counted
  <2>2. Live(SlotOf[o])' \subseteq Live(SlotOf[o])
    BY <2>1 DEF Live, Counted, InSlot
  <2> QED
    BY <1>1, <2>1, <2>2 DEF Selling
<1>9. ASSUME NEW s \in Slot, SlotCloses(s) PROVE Room(o)'
  BY <1>1, <1>9 DEF SlotCloses, Selling, Live, Counted, InSlot
<1>10. CASE Midnight
  BY <1>1, <1>10 DEF Midnight, Selling, Live, Counted, InSlot
<1>11. CASE UNCHANGED vars
  BY <1>1, <1>11 DEF vars, Selling, Live, Counted, InSlot
<1> QED
  BY <1>2, <1>3, <1>4, <1>5, <1>6, <1>7, <1>8, <1>9, <1>10, <1>11 DEF Next

-----------------------------------------------------------------------------
(* Tickets of one kind, of one user.                                       *)

LEMMA InitLone == Init => Lone
BY DEF Init, Lone, Alive

\* Only the check for unused tickets brings a sale to life, and it meets or
\* counts every other that is alive.
LEMMA CheckFindsAlive ==
  ASSUME Shapes, NEW o \in Order, NEW p \in Alike(o) \ {o}, CheckExitsNotTravelPeak(o),
         p \notin crossed', p \notin old, Alive(p)
  PROVE  ~Alive(o)'
<1>1. /\ step' = [step EXCEPT ![o] =
           IF NumberAllowed(o) /\ NoneUnused(o) THEN "cleared" ELSE "refused"]
      /\ crossed' = Met(o, Alike(o))
  BY DEF CheckExitsNotTravelPeak
<1>2. ~Pending(p)
  BY <1>1 DEF Met
<1>3. status[p] = "toUse"
  BY <1>2 DEF Alive, Pending
<1>4. p \in Unused(o)
  BY <1>3 DEF Unused
<1>5. ~NoneUnused(o)
  <2>1. IsFiniteSet(Unused(o))
    BY SalesAssumption, FS_Subset DEF Unused, Alike
  <2>2. Cardinality(Unused(o)) # 0
    BY <1>4, <2>1, FS_EmptySet
  <2>3. Cardinality(Unused(o)) \in Nat
    BY <2>1, FS_CardinalityType
  <2> QED
    BY <2>2, <2>3 DEF NoneUnused
<1>6. step'[o] = "refused"
  BY <1>1, <1>5 DEF Shapes, TypeOK
<1> QED
  BY <1>6 DEF Alive

LEMMA NextLone ==
  ASSUME Shapes, Lone, [Next]_vars
  PROVE  Lone'
<1> SUFFICES ASSUME NEW o \in Order, NEW p \in Alike(o) \ {o},
                    o \notin crossed' \cup old', p \notin crossed' \cup old'
             PROVE  ~(Alive(o)' /\ Alive(p)')
  BY DEF Lone, Alike
<1>p. p \in Order /\ o \in Alike(p) \ {p}
  BY DEF Alike
<1>1. ASSUME crossed \subseteq crossed', old \subseteq old',
             Alive(o)' => Alive(o), Alive(p)' => Alive(p)
      PROVE  ~(Alive(o)' /\ Alive(p)')
  BY <1>1, <1>p DEF Lone
<1>2. ASSUME NEW q \in Order, CheckAppointment(q) PROVE ~(Alive(o)' /\ Alive(p)')
  <2>1. /\ step'[q] \in {"checked", "refused"} /\ crossed \subseteq crossed'
        /\ \A r \in Order : r # q => step'[r] = step[r]
        /\ UNCHANGED <<status, paid, inHand, old>>
    BY <1>2 DEF CheckAppointment, Met, Shapes, TypeOK
  <2> QED
    BY <1>1, <1>p, <2>1 DEF Alive
<1>3. ASSUME NEW q \in Order, CheckExitsNotTravelPeak(q) PROVE ~(Alive(o)' /\ Alive(p)')
  <2>1. /\ crossed \subseteq crossed'
        /\ \A r \in Order : r # q => step'[r] = step[r]
        /\ UNCHANGED <<status, paid, inHand, old>>
    BY <1>3 DEF CheckExitsNotTravelPeak, Met, Shapes, TypeOK
  <2>2. \A r \in Order : r # q /\ Alive(r)' => Alive(r)
    BY <2>1 DEF Alive
  <2>3. CASE q = o
    BY <1>3, <1>p, <2>1, <2>2, <2>3, CheckFindsAlive
  <2>4. CASE q = p
    BY <1>3, <1>p, <2>1, <2>2, <2>4, CheckFindsAlive
  <2>5. CASE q # o /\ q # p
    BY <1>1, <1>p, <2>1, <2>2, <2>5
  <2> QED
    BY <2>3, <2>4, <2>5
<1>4. ASSUME NEW q \in Order, AddOrder(q) PROVE ~(Alive(o)' /\ Alive(p)')
  <2>1. /\ step[q] = "cleared"
        /\ \A r \in Order : r # q =>
             step'[r] = step[r] /\ status'[r] = status[r] /\ paid'[r] = paid[r]
        /\ UNCHANGED <<inHand, old, crossed>>
    BY <1>4 DEF AddOrder, Shapes, TypeOK
  <2> QED
    BY <1>1, <1>p, <2>1 DEF Alive
<1>5. ASSUME NEW q \in Order, BookPayment(q) PROVE ~(Alive(o)' /\ Alive(p)')
  <2>1. /\ step[q] = "saved" /\ ~paid[q]
        /\ \A r \in Order : r # q => status'[r] = status[r] /\ paid'[r] = paid[r]
        /\ UNCHANGED <<step, inHand, old, crossed>>
    BY <1>5 DEF BookPayment, Shapes, TypeOK
  <2> QED
    BY <1>1, <1>p, <2>1 DEF Alive
<1>6. ASSUME NEW q \in Order, Load(q) PROVE ~(Alive(o)' /\ Alive(p)')
  BY <1>1, <1>6, <1>p DEF Load, Alive
<1>7. ASSUME NEW q \in Order, WriteBack(q) PROVE ~(Alive(o)' /\ Alive(p)')
  <2>1. /\ q \in inHand /\ inHand' \subseteq inHand
        /\ \A r \in Order : r # q => status'[r] = status[r]
        /\ UNCHANGED <<step, paid, old, crossed>>
    BY <1>7 DEF WriteBack, Shapes, TypeOK
  <2> QED
    BY <1>1, <1>p, <2>1 DEF Alive
<1>8. ASSUME NEW q \in Order, Leave(q) PROVE ~(Alive(o)' /\ Alive(p)')
  <2>1. /\ status'[q] = "gone"
        /\ \A r \in Order : r # q => status'[r] = status[r]
        /\ UNCHANGED <<step, paid, inHand, old, crossed>>
    BY <1>8 DEF Leave, Shapes, TypeOK
  <2> QED
    BY <1>1, <1>p, <2>1 DEF Alive
<1>9. ASSUME NEW s \in Slot, SlotCloses(s) PROVE ~(Alive(o)' /\ Alive(p)')
  BY <1>1, <1>9 DEF SlotCloses, Alive
<1>10. CASE Midnight
  <2>1. step[o] = "idle" /\ step' = step
    BY <1>10 DEF Midnight
  <2> QED
    BY <2>1 DEF Alive
<1>11. CASE UNCHANGED vars
  BY <1>1, <1>11 DEF vars, Alive
<1> QED
  BY <1>2, <1>3, <1>4, <1>5, <1>6, <1>7, <1>8, <1>9, <1>10, <1>11 DEF Next

-----------------------------------------------------------------------------
(* Theorems.                                                               *)

\* What the theorems below rest on holds in every state.
THEOREM Invariance == Spec => []IInv
<1>1. Init => IInv
  BY InitShapes, InitSpare, InitLone DEF IInv, Shapes
<1>2. IInv /\ [Next]_vars => IInv'
  BY NextShapes, NextSpare, NextLone DEF IInv, Shapes
<1> QED
  BY <1>1, <1>2, PTL DEF Spec

\* The columns keep their shapes; an order counts only if it was paid for.
THEOREM TypeCorrect == Spec => []TypeOK
<1>1. IInv => TypeOK
  BY DEF IInv
<1> QED
  BY <1>1, Invariance, PTL

\* checkExitsNotTravelPeak: two sales of one kind to one user that do not meet
\* never both end as unused tickets of the same day.
THEOREM LoneTicket == Spec => []LoneSaleIsOnlyTicket
<1>1. IInv => LoneSaleIsOnlyTicket
  <2> SUFFICES ASSUME IInv, NEW o \in Order \ (crossed \cup old),
                      NEW p \in Order \ (crossed \cup old), p \in Alike(o) \ {o},
                      status[o] = "toUse", status[p] = "toUse"
               PROVE  FALSE
    BY DEF LoneSaleIsOnlyTicket
  <2>1. step[o] = "saved" /\ step[p] = "saved"
    BY DEF IInv, TypeOK
  <2> QED
    BY <2>1 DEF IInv, Lone, Alive
<1> QED
  BY <1>1, Invariance, PTL

\* checkAppointment: a sale that met no other never fills the departure when
\* its order begins to count, however many steps lie between.
THEOREM LoneSale == Spec => LoneSaleKeepsLimit
<1>1. ASSUME IInv, Next
      PROVE  \A o \in Order \ crossed :
               SlotOf[o] # NoSlot /\ paid'[o] /\ ~paid[o] => Booked(SlotOf[o])' < Total
  <2> SUFFICES ASSUME NEW o \in Order, o \notin crossed, SlotOf[o] # NoSlot,
                      paid'[o], ~paid[o]
               PROVE  Booked(SlotOf[o])' < Total
    OBVIOUS
  <2>1. /\ AddOrder(o) \/ BookPayment(o)
        /\ Selling(o)
        /\ \A p \in Order : p # o => status'[p] = status[p]
    <3>1. ASSUME NEW q \in Order, AddOrder(q) \/ BookPayment(q)
          PROVE  /\ q = o /\ Selling(q)
                 /\ \A p \in Order : p # q => status'[p] = status[p]
      BY <1>1, <3>1 DEF AddOrder, BookPayment, Selling, IInv, TypeOK
    <3>2. ASSUME paid' = paid PROVE FALSE
      BY <3>2
    <3> QED
      BY <1>1, <3>1, <3>2 DEF Next, CheckAppointment, CheckExitsNotTravelPeak, Load,
         WriteBack, Leave, SlotCloses, Midnight
  <2>2. PICK L : L = Live(SlotOf[o])
    OBVIOUS
  <2>3. PICK R : R = {p \in InSlot(SlotOf[o]) : Counted(p)'}
    OBVIOUS
  <2>4. L \in SUBSET Order /\ L \cup {o} \in SUBSET Order
    BY <2>2 DEF Live, InSlot
  <2>5. R \in SUBSET (L \cup {o})
    BY <2>1, <2>2, <2>3 DEF Live, Counted, InSlot
  <2>6. Cardinality(Tickets(L)) + Seats[o] < Total
    BY <1>1, <2>1, <2>2 DEF IInv, Spare, Room
  <2>7. /\ Cardinality(Tickets(R)) <= Cardinality(Tickets(L \cup {o}))
        /\ Cardinality(Tickets(R)) \in Nat /\ Cardinality(Tickets(L \cup {o})) \in Nat
    BY <2>4, <2>5, TicketsMono
  <2>8. Cardinality(Tickets(L \cup {o})) <= Cardinality(Tickets(L)) + Seats[o]
    BY <2>4, TicketsAdd
  <2>9. Cardinality(Tickets(L)) \in Nat /\ Seats[o] \in Nat /\ Total \in Nat
    BY <2>4, TicketsMono, SalesAssumption
  <2>10. Cardinality(Tickets(R)) < Total
    BY <2>6, <2>7, <2>8, <2>9
  <2>11. Booked(SlotOf[o])' = Cardinality(Tickets(R))
    BY <2>3 DEF Booked, Tickets, InSlot
  <2> QED
    BY <2>10, <2>11
<1>2. IInv /\ [Next]_vars =>
        [\A o \in Order \ crossed :
           SlotOf[o] # NoSlot /\ paid'[o] /\ ~paid[o] => Booked(SlotOf[o])' < Total]_vars
  BY <1>1
<1> QED
  BY <1>2, Invariance, PTL DEF Spec, LoneSaleKeepsLimit
=============================================================================
