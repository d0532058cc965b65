--------------------------- MODULE TapoGroup_proofs ----------------------------
(***************************************************************************)
(* Proofs about TapoGroup for any finite number of lamps, and any values,     *)
(* commands, slots, patience and faults: every answer of a lamp is counted    *)
(* once, a full success is one, a group command gets its one event, and gets  *)
(* it at its deadline at the latest.                                          *)
(***************************************************************************)
EXTENDS TapoGroup, FiniteSetTheorems, TLAPS

(* The lamps that owe an answer to command id, by tables P and E of the       *)
(* children, and those that carried it out, by the history A.                  *)
OwedBy(P, E, id) ==
  {l \in Lamp : \/ \E p \in P : p.lamp = l /\ p.id = id
                \/ \E e \in E : e.lamp = l /\ e.id = id}
DoneBy(A, id) == {l \in Lamp : <<l, id>> \in A}

GroupRecord == [id : Nat, left : 0..Patience, targets : 1..Cardinality(Lamp),
                completed : Nat, succeeded : Nat, authFailures : Nat,
                total : 1..Cardinality(Lamp)]

(* The slot of a group command against the children: what it has counted and  *)
(* what is still owed are different lamps, all of them targets; and what it    *)
(* has counted as succeeded and what is still owed was carried out.            *)
GroupFits(g, n, P, E, A) ==
  /\ g \in GroupRecord /\ g.id \in 1..n
  /\ g.succeeded + g.authFailures <= g.completed
  /\ g.completed + Cardinality(OwedBy(P, E, g.id)) <= g.targets
  /\ g.succeeded + Cardinality(OwedBy(P, E, g.id)) <= Cardinality(DoneBy(A, g.id))

EventFits(e, n, A) ==
  /\ e.id \in 1..n /\ e.targets \in Nat
  /\ e.succeeded <= e.targets
  /\ e.result = "Succeeded" => Cardinality(DoneBy(A, e.id)) >= e.targets

ChildSlot(n) == [lamp : Lamp, id : 1..n, value : Value, left : 0..Patience,
                 reported : BOOLEAN]
ChildEvent(n) == [lamp : Lamp, id : 1..n, result : Connections \cup {"Succeeded", "TimedOut"}]

(* A child has one slot for a command, or one event, never two.                *)
OnceEach(P, E) ==
  /\ \A p, q \in P : p.lamp = q.lamp /\ p.id = q.id => p = q
  /\ \A e, f \in E : e.lamp = f.lamp /\ e.id = f.id => e = f
  /\ \A p \in P, e \in E : ~(p.lamp = e.lamp /\ p.id = e.id)

OneEach(G, V) ==
  /\ \A g, h \in G : g.id = h.id => g = h
  /\ \A e, f \in V : e.id = f.id => e = f
  /\ \A g \in G, e \in V : g.id # e.id

ChildrenInv ==
  /\ pc \in {"begin", "tick", "refresh", "execute", "drain"}
  /\ unticked \subseteq children /\ children \subseteq Lamp
  /\ pc # "tick" => unticked = {}
  /\ connection \in [Lamp -> Connections]
  /\ state \in [Lamp -> Value] /\ lamp \in [Lamp -> Value]
  /\ pollNow \in [Lamp -> BOOLEAN]
  /\ reach \in [Lamp -> {"up", "down", "refusing"}]
  /\ commands \in 0..MaxCommands /\ changes \in 0..MaxChanges

AnswersInv ==
  /\ pending \subseteq ChildSlot(commands) /\ childEvents \subseteq ChildEvent(commands)
  /\ \A p \in pending : p.lamp \in children
  /\ \A e \in childEvents : pc = "tick" /\ e.lamp \in children \ unticked
  /\ OnceEach(pending, childEvents)
  /\ applied \subseteq Lamp \X Ids

GroupInv ==
  /\ \A g \in group : GroupFits(g, commands, pending, childEvents, applied)
  /\ \A e \in events : EventFits(e, commands, applied)
  /\ OneEach(group, events)

RoomInv ==
  /\ IsFiniteSet(group) /\ Cardinality(group) <= GroupSlots
  /\ IsFiniteSet(pending)
  /\ \A l \in Lamp : Cardinality({p \in pending : p.lamp = l}) <= ChildSlots

IInv == ChildrenInv /\ AnswersInv /\ GroupInv /\ GroupAnsweredInTime

-----------------------------------------------------------------------------
(* Sets of lamps are finite, and counting them is counting their answers.     *)

LEMMA LampSets ==
  ASSUME NEW S, S \subseteq Lamp
  PROVE  /\ IsFiniteSet(S) /\ Cardinality(S) \in Nat
         /\ Cardinality(S) <= Cardinality(Lamp) /\ Cardinality(Lamp) \in Nat
         /\ \A T : T \subseteq S => Cardinality(T) <= Cardinality(S)
<1>1. IsFiniteSet(Lamp)
  BY TapoAssumption
<1>2. IsFiniteSet(S) /\ Cardinality(S) <= Cardinality(Lamp)
  BY <1>1, FS_Subset
<1>3. \A T : T \subseteq S => Cardinality(T) <= Cardinality(S)
  BY <1>2, FS_Subset
<1>4. QED
  BY <1>1, <1>2, <1>3, FS_CardinalityType

LEMMA DisjointSums ==
  ASSUME NEW S, NEW T, IsFiniteSet(S), IsFiniteSet(T), S \cap T = {}
  PROVE  IsFiniteSet(S \cup T)
         /\ Cardinality(S \cup T) = Cardinality(S) + Cardinality(T)
<1>1. Cardinality(S \cap T) = 0
  BY FS_EmptySet
<1>2. Cardinality(S) \in Nat /\ Cardinality(T) \in Nat
  BY FS_CardinalityType
<1>3. /\ IsFiniteSet(S \cup T)
      /\ Cardinality(S \cup T) = Cardinality(S) + Cardinality(T) - Cardinality(S \cap T)
  BY FS_Union
<1>4. QED
  BY <1>1, <1>2, <1>3

(* Events of different lamps are as many as their lamps.                       *)
LEMMA EventsOfLamps ==
  ASSUME NEW S, \A e \in S : e.lamp \in Lamp,
         \A e, f \in S : e.lamp = f.lamp => e = f
  PROVE  /\ IsFiniteSet(S)
         /\ Cardinality(S) <= Cardinality({l \in Lamp : \E e \in S : e.lamp = l})
<1> DEFINE T == {l \in Lamp : \E e \in S : e.lamp = l}
           of == [e \in S |-> e.lamp]
<1>1. of \in Injection(S, T)
  BY DEF Injection, IsInjective
<1>2. IsFiniteSet(T)
  BY LampSets
<1>3. QED
  BY <1>1, <1>2, FS_Injection

LEMMA OwedSets ==
  ASSUME NEW P, NEW E, NEW A, NEW id
  PROVE  /\ IsFiniteSet(OwedBy(P, E, id)) /\ Cardinality(OwedBy(P, E, id)) \in Nat
         /\ IsFiniteSet(DoneBy(A, id)) /\ Cardinality(DoneBy(A, id)) \in Nat
<1>1. OwedBy(P, E, id) \subseteq Lamp /\ DoneBy(A, id) \subseteq Lamp
  BY DEF OwedBy, DoneBy
<1>2. QED
  BY <1>1, LampSets

(* More commands, fewer answers owed and more carried out: a slot still fits. *)
LEMMA FitsLater ==
  ASSUME NEW g, NEW n \in Nat, NEW m \in Nat, n <= m,
         NEW P, NEW E, NEW A, NEW Q, NEW F, NEW B,
         GroupFits(g, n, P, E, A),
         OwedBy(Q, F, g.id) \subseteq OwedBy(P, E, g.id), A \subseteq B
  PROVE  GroupFits(g, m, Q, F, B)
<1>1. DoneBy(A, g.id) \subseteq DoneBy(B, g.id)
  BY DEF DoneBy
<1>2. OwedBy(P, E, g.id) \subseteq Lamp /\ DoneBy(B, g.id) \subseteq Lamp
  BY DEF OwedBy, DoneBy
<1>3. /\ Cardinality(OwedBy(Q, F, g.id)) <= Cardinality(OwedBy(P, E, g.id))
      /\ Cardinality(DoneBy(A, g.id)) <= Cardinality(DoneBy(B, g.id))
  BY <1>1, <1>2, LampSets
<1>4. /\ Cardinality(OwedBy(Q, F, g.id)) \in Nat /\ Cardinality(OwedBy(P, E, g.id)) \in Nat
      /\ Cardinality(DoneBy(A, g.id)) \in Nat /\ Cardinality(DoneBy(B, g.id)) \in Nat
  BY OwedSets
<1>5. g \in GroupRecord /\ g.id \in 1..m
  BY DEF GroupFits
<1>6. QED
  BY <1>3, <1>4, <1>5 DEF GroupFits, GroupRecord

LEMMA EventFitsLater ==
  ASSUME NEW e, NEW n \in Nat, NEW m \in Nat, n <= m, NEW A, NEW B, A \subseteq B,
         EventFits(e, n, A)
  PROVE  EventFits(e, m, B)
<1>1. DoneBy(A, e.id) \subseteq DoneBy(B, e.id) /\ DoneBy(B, e.id) \subseteq Lamp
  BY DEF DoneBy
<1>2. /\ Cardinality(DoneBy(A, e.id)) <= Cardinality(DoneBy(B, e.id))
      /\ Cardinality(DoneBy(A, e.id)) \in Nat /\ Cardinality(DoneBy(B, e.id)) \in Nat
  BY <1>1, LampSets, OwedSets
<1>3. QED
  BY <1>2 DEF EventFits

Plus(g, a, b, c) ==
  [g EXCEPT !.completed = @ + a, !.succeeded = @ + b, !.authFailures = @ + c]

LEMMA PlusRecord ==
  ASSUME NEW g \in GroupRecord, NEW a \in Nat, NEW b \in Nat, NEW c \in Nat
  PROVE  /\ Plus(g, a, b, c) \in GroupRecord
         /\ Plus(g, a, b, c).id = g.id /\ Plus(g, a, b, c).left = g.left
         /\ Plus(g, a, b, c).targets = g.targets
         /\ Plus(g, a, b, c).completed = g.completed + a
         /\ Plus(g, a, b, c).succeeded = g.succeeded + b
         /\ Plus(g, a, b, c).authFailures = g.authFailures + c
<1> DEFINE h == Plus(g, a, b, c)
<1>1. g.completed + a \in Nat /\ g.succeeded + b \in Nat /\ g.authFailures + c \in Nat
  BY DEF GroupRecord
<1> DEFINE x == g.completed + a
           y == g.succeeded + b
           z == g.authFailures + c
<1>2. h = [g EXCEPT !.completed = x, !.succeeded = y, !.authFailures = z]
  BY DEF Plus
<1>3. x \in Nat /\ y \in Nat /\ z \in Nat
  BY <1>1
<1> HIDE DEF h, x, y, z
<1>4. h \in GroupRecord
  BY <1>2, <1>3 DEF GroupRecord
<1>5. h.id = g.id /\ h.left = g.left /\ h.targets = g.targets
  BY <1>2 DEF GroupRecord
<1>6. h.completed = x /\ h.succeeded = y /\ h.authFailures = z
  BY <1>2 DEF GroupRecord
<1>7. QED
  BY <1>4, <1>5, <1>6 DEF h, x, y, z

(* collectChildEvents(): what is counted is no longer owed.                    *)
LEMMA CountedFits ==
  ASSUME NEW g, NEW n \in Nat, NEW P, NEW A,
         GroupFits(g, n, P, childEvents, A), OnceEach(P, childEvents),
         \A e \in childEvents : e.lamp \in Lamp
  PROVE  /\ GroupFits(Counted(g), n, P, {}, A)
         /\ Counted(g).id = g.id /\ Counted(g).left = g.left
<1> DEFINE S == {e \in childEvents : e.id = g.id}
           S1 == {e \in childEvents : e.id = g.id /\ e.result = "Succeeded"}
           S2 == {e \in childEvents : e.id = g.id /\ e.result = "AuthFailed"}
           EL == {l \in Lamp : \E e \in S : e.lamp = l}
           PL == OwedBy(P, {}, g.id)
<1>1. IsFiniteSet(S) /\ Cardinality(S) <= Cardinality(EL)
  <2>1. \A e, f \in S : e.lamp = f.lamp => e = f
    BY DEF OnceEach
  <2>2. \A e \in S : e.lamp \in Lamp
    OBVIOUS
  <2> HIDE DEF S
  <2>3. QED
    BY <2>1, <2>2, EventsOfLamps
<1>2. /\ IsFiniteSet(S1) /\ IsFiniteSet(S2) /\ Cardinality(S1) <= Cardinality(S)
      /\ Cardinality(S1) + Cardinality(S2) <= Cardinality(S)
  <2>1. S1 \subseteq S /\ S2 \subseteq S /\ S1 \cap S2 = {} /\ (S1 \cup S2) \subseteq S
    OBVIOUS
  <2> HIDE DEF S, S1, S2
  <2>2. IsFiniteSet(S1) /\ IsFiniteSet(S2) /\ Cardinality(S1) <= Cardinality(S)
    BY <1>1, <2>1, FS_Subset
  <2>3. Cardinality(S1 \cup S2) = Cardinality(S1) + Cardinality(S2)
    BY <2>1, <2>2, DisjointSums
  <2>4. Cardinality(S1 \cup S2) <= Cardinality(S)
    BY <1>1, <2>1, FS_Subset
  <2>5. QED
    BY <2>2, <2>3, <2>4
<1>3. Cardinality(OwedBy(P, childEvents, g.id)) = Cardinality(PL) + Cardinality(EL)
  <2>1. OwedBy(P, childEvents, g.id) = PL \cup EL /\ PL \cap EL = {}
    BY DEF OwedBy, OnceEach
  <2>2. PL \subseteq Lamp /\ EL \subseteq Lamp
    BY DEF OwedBy
  <2> HIDE DEF PL, EL
  <2>3. IsFiniteSet(PL) /\ IsFiniteSet(EL)
    BY <2>2, LampSets
  <2>4. QED
    BY <2>1, <2>3, DisjointSums
<1>4. /\ Cardinality(S) \in Nat /\ Cardinality(S1) \in Nat /\ Cardinality(S2) \in Nat
      /\ Cardinality(PL) \in Nat /\ Cardinality(EL) \in Nat
      /\ Cardinality(DoneBy(A, g.id)) \in Nat
  <2>1. PL \subseteq Lamp /\ EL \subseteq Lamp
    BY DEF OwedBy
  <2> HIDE DEF S, S1, S2, PL, EL
  <2>2. QED
    BY <1>1, <1>2, <2>1, LampSets, OwedSets, FS_CardinalityType
<1>5. g \in GroupRecord
  BY DEF GroupFits
<1>6. Counted(g) = Plus(g, Cardinality(S), Cardinality(S1), Cardinality(S2))
  BY DEF Counted, Answers, Plus
<1> HIDE DEF S, S1, S2, PL, EL
<1>7. /\ Counted(g).id = g.id /\ Counted(g).left = g.left /\ Counted(g).targets = g.targets
      /\ Counted(g).completed = g.completed + Cardinality(S)
      /\ Counted(g).succeeded = g.succeeded + Cardinality(S1)
      /\ Counted(g).authFailures = g.authFailures + Cardinality(S2)
      /\ Counted(g) \in GroupRecord
  <2> DEFINE a == Cardinality(S)
             b == Cardinality(S1)
             c == Cardinality(S2)
  <2>1. a \in Nat /\ b \in Nat /\ c \in Nat
    BY <1>4
  <2>2. Counted(g) = Plus(g, a, b, c)
    BY <1>6
  <2> HIDE DEF a, b, c
  <2>3. /\ Plus(g, a, b, c) \in GroupRecord
        /\ Plus(g, a, b, c).id = g.id /\ Plus(g, a, b, c).left = g.left
        /\ Plus(g, a, b, c).targets = g.targets
        /\ Plus(g, a, b, c).completed = g.completed + a
        /\ Plus(g, a, b, c).succeeded = g.succeeded + b
        /\ Plus(g, a, b, c).authFailures = g.authFailures + c
    BY <1>5, <2>1, PlusRecord
  <2>4. QED
    BY <2>2, <2>3 DEF a, b, c
<1>8. /\ g.completed \in Nat /\ g.succeeded \in Nat /\ g.authFailures \in Nat
      /\ g.targets \in Nat
  BY <1>5, LampSets DEF GroupRecord
<1>9. /\ Counted(g).succeeded + Counted(g).authFailures <= Counted(g).completed
      /\ Counted(g).completed + Cardinality(PL) <= Counted(g).targets
      /\ Counted(g).succeeded + Cardinality(PL) <= Cardinality(DoneBy(A, g.id))
  BY <1>1, <1>2, <1>3, <1>4, <1>7, <1>8 DEF GroupFits
<1>10. Counted(g).id \in 1..n
  BY <1>7 DEF GroupFits
<1>11. QED
  BY <1>7, <1>9, <1>10 DEF GroupFits, PL

-----------------------------------------------------------------------------
(* The tables of the children through one step.                               *)

LEMMA OwingIs ==
  ASSUME NEW g
  PROVE  /\ Owing(g) = OwedBy(pending, childEvents, g.id)
         /\ Owing(g)' = OwedBy(pending', childEvents', g.id)
  BY DEF Owing, OwedBy

LEMMA LaterSlots ==
  ASSUME NEW n \in Nat
  PROVE  ChildSlot(n) \subseteq ChildSlot(n + 1) /\ ChildEvent(n) \subseteq ChildEvent(n + 1)
  BY DEF ChildSlot, ChildEvent

Heard(p, h) == [p EXCEPT !.reported = @ \/ h]

LEMMA HeardSlot ==
  ASSUME NEW n \in Nat, NEW p \in ChildSlot(n), NEW h \in BOOLEAN
  PROVE  /\ Heard(p, h) \in ChildSlot(n)
         /\ Heard(p, h).lamp = p.lamp /\ Heard(p, h).id = p.id
<1> DEFINE r == p.reported \/ h
<1>1. r \in BOOLEAN
  OBVIOUS
<1>2. Heard(p, h) = [p EXCEPT !.reported = r]
  BY DEF Heard
<1> HIDE DEF r
<1>3. QED
  BY <1>1, <1>2 DEF ChildSlot

Now(P, l, h) == {Heard(p, h) : p \in {q \in P : q.lamp = l}}
Unsettled(P, l, h, settled) ==
  (P \ {q \in P : q.lamp = l}) \cup (Now(P, l, h) \ settled)
EventsOf(l, settled, R) == {[lamp |-> l, id |-> p.id, result |-> R[p]] : p \in settled}

(* resolveChildPending(): a slot of lamp l that is settled becomes an event.  *)
LEMMA SettledTables ==
  ASSUME NEW n \in Nat, NEW P, NEW E, P \subseteq ChildSlot(n), OnceEach(P, E),
         NEW l, NEW h \in BOOLEAN, \A e \in E : e.lamp # l,
         NEW settled, NEW R, settled \subseteq Now(P, l, h),
         NEW Q, Q = Unsettled(P, l, h, settled),
         NEW F, F = E \cup EventsOf(l, settled, R)
  PROVE  /\ Q \subseteq ChildSlot(n) /\ OnceEach(Q, F)
         /\ \A q \in Q : \E p \in P : p.lamp = q.lamp /\ p.id = q.id
         /\ \A id : OwedBy(Q, F, id) \subseteq OwedBy(P, E, id)
<1> DEFINE now == Now(P, l, h)
<1>1. \A q \in now : \E p \in P : /\ q = Heard(p, h) /\ q \in ChildSlot(n)
                                  /\ p.lamp = l /\ q.lamp = l /\ q.id = p.id
  BY HeardSlot DEF Now
<1>2. \A p, q \in now : p.id = q.id => p = q
  BY <1>1 DEF OnceEach
<1>3. /\ \A q \in Q : q \in now \ settled \/ (q \in P /\ q.lamp # l)
      /\ \A e \in F : e \in E \/ \E p \in settled :
           e = [lamp |-> l, id |-> p.id, result |-> R[p]]
      /\ settled \subseteq now
  BY DEF Unsettled, EventsOf
<1> HIDE DEF now
<1>4. Q \subseteq ChildSlot(n)
  BY <1>1, <1>3
<1>5. \A p, q \in Q : p.lamp = q.lamp /\ p.id = q.id => p = q
  BY <1>1, <1>2, <1>3 DEF OnceEach
<1>6. \A e, f \in F : e.lamp = f.lamp /\ e.id = f.id => e = f
  <2> SUFFICES ASSUME NEW e \in F, NEW f \in F, e.lamp = f.lamp, e.id = f.id PROVE e = f
    OBVIOUS
  <2>1. CASE e \in E /\ f \in E
    BY <2>1 DEF OnceEach
  <2>2. CASE e \notin E /\ f \notin E
    <3>1. PICK p \in settled : e = [lamp |-> l, id |-> p.id, result |-> R[p]]
      BY <1>3, <2>2
    <3>2. PICK q \in settled : f = [lamp |-> l, id |-> q.id, result |-> R[q]]
      BY <1>3, <2>2
    <3>3. p = q
      BY <1>2, <1>3, <3>1, <3>2
    <3>4. QED
      BY <3>1, <3>2, <3>3
  <2>3. QED
    BY <1>3, <2>1, <2>2
<1>7. \A p \in Q, e \in F : ~(p.lamp = e.lamp /\ p.id = e.id)
  <2> SUFFICES ASSUME NEW p \in Q, NEW e \in F, p.lamp = e.lamp, p.id = e.id PROVE FALSE
    OBVIOUS
  <2>1. CASE e \in E
    BY <1>1, <1>3, <2>1 DEF OnceEach
  <2>2. CASE e \notin E
    <3>1. PICK q \in settled : e = [lamp |-> l, id |-> q.id, result |-> R[q]]
      BY <1>3, <2>2
    <3>2. p \in now \ settled /\ p.id = q.id
      BY <1>3, <3>1
    <3>3. QED
      BY <1>2, <1>3, <3>1, <3>2
  <2>3. QED
    BY <2>1, <2>2
<1>8. \A q \in Q : \E p \in P : p.lamp = q.lamp /\ p.id = q.id
  BY <1>1, <1>3
<1>9. \A e \in F : e \in E \/ \E p \in P : p.lamp = e.lamp /\ p.id = e.id
  <2> SUFFICES ASSUME NEW e \in F, e \notin E
               PROVE  \E p \in P : p.lamp = e.lamp /\ p.id = e.id
    OBVIOUS
  <2>1. PICK q \in settled : e = [lamp |-> l, id |-> q.id, result |-> R[q]]
    BY <1>3
  <2>2. PICK p \in P : p.lamp = l /\ q.id = p.id
    BY <1>1, <1>3
  <2>3. QED
    BY <2>1, <2>2
<1>10. \A id : OwedBy(Q, F, id) \subseteq OwedBy(P, E, id)
  BY <1>8, <1>9 DEF OwedBy
<1>11. QED
  BY <1>4, <1>5, <1>6, <1>7, <1>8, <1>10 DEF OnceEach

Aged(p) == [p EXCEPT !.left = CountDown(@)]

LEMMA AgedSlot ==
  /\ \A n \in Nat : \A p \in ChildSlot(n) :
       Aged(p) \in ChildSlot(n) /\ Aged(p).lamp = p.lamp /\ Aged(p).id = p.id
  /\ \A g \in GroupRecord :
       /\ Aged(g) \in GroupRecord /\ Aged(g).id = g.id /\ Aged(g).targets = g.targets
       /\ Aged(g).completed = g.completed /\ Aged(g).succeeded = g.succeeded
       /\ Aged(g).authFailures = g.authFailures /\ Aged(g).total = g.total
<1>1. \A k \in 0..Patience : CountDown(k) \in 0..Patience
  BY TapoAssumption DEF CountDown
<1>2. ASSUME NEW n \in Nat, NEW p \in ChildSlot(n)
      PROVE  Aged(p) \in ChildSlot(n) /\ Aged(p).lamp = p.lamp /\ Aged(p).id = p.id
  BY <1>1 DEF Aged, ChildSlot
<1>3. ASSUME NEW g \in GroupRecord
      PROVE  /\ Aged(g) \in GroupRecord /\ Aged(g).id = g.id /\ Aged(g).targets = g.targets
             /\ Aged(g).completed = g.completed /\ Aged(g).succeeded = g.succeeded
             /\ Aged(g).authFailures = g.authFailures /\ Aged(g).total = g.total
  BY <1>1 DEF Aged, GroupRecord
<1>4. QED
  BY <1>2, <1>3

-----------------------------------------------------------------------------
(* The steps, one lemma each.                                                 *)

Quiet == UNCHANGED <<commands, group, events, applied>>

LEMMA IdsFit ==
  ASSUME ChildrenInv
  PROVE  commands \in Nat /\ 1..commands \subseteq Ids
  BY TapoAssumption DEF ChildrenInv, Ids

LEMMA GroupFrame ==
  ASSUME IInv, Quiet,
         \A id : OwedBy(pending', childEvents', id) \subseteq OwedBy(pending, childEvents, id)
  PROVE  GroupInv'
<1>1. commands \in Nat
  BY IdsFit DEF IInv
<1>2. ASSUME NEW g \in group
      PROVE  GroupFits(g, commands, pending', childEvents', applied)
  BY <1>1, <1>2, FitsLater DEF IInv, GroupInv
<1>3. QED
  BY <1>2 DEF IInv, GroupInv, Quiet

LEMMA ChildTickInv ==
  ASSUME IInv, NEW l \in unticked, NEW polls \in BOOLEAN, NEW outcome \in Outcomes(l),
         ChildTick(l, polls, outcome)
  PROVE  IInv'
<1> DEFINE heard == polls /\ outcome = "ok"
           slots == {p \in pending : p.lamp = l}
           now == {[p EXCEPT !.reported = @ \/ heard] : p \in slots}
           settled == {p \in now : Confirmed(p, state'[l]) \/ p.left = 0}
           R == [p \in settled |-> ChildResult(p, state'[l], connection'[l])]
<1>1. /\ pc = "tick" /\ unticked' = unticked \ {l}
      /\ UNCHANGED <<pc, children, group, events, commands, reach, lamp, changes, applied>>
      /\ pollNow' = [pollNow EXCEPT ![l] = FALSE]
      /\ connection' = IF polls THEN [connection EXCEPT ![l] = ConnectionAfter(outcome)]
                       ELSE connection
      /\ state' = IF heard THEN [state EXCEPT ![l] = lamp[l]] ELSE state
      /\ pending' = (pending \ slots) \cup (now \ settled)
      /\ childEvents' = childEvents \cup
           {[lamp |-> l, id |-> p.id,
             result |-> ChildResult(p, state'[l], connection'[l])] : p \in settled}
  BY DEF ChildTick, lampVars
<1>2. l \in Lamp /\ l \in children /\ commands \in Nat /\ heard \in BOOLEAN
  BY IdsFit DEF IInv, ChildrenInv
<1>3. ChildrenInv'
  <2>1. outcome \in {"ok", "rejected", "unreachable", "refused"}
    BY <1>2 DEF Outcomes, IInv, ChildrenInv
  <2>2. ConnectionAfter(outcome) \in Connections
    BY <2>1 DEF ConnectionAfter, Connections
  <2>3. connection' \in [Lamp -> Connections]
    BY <1>1, <1>2, <2>2 DEF IInv, ChildrenInv
  <2>4. state' \in [Lamp -> Value] /\ pollNow' \in [Lamp -> BOOLEAN]
    BY <1>1, <1>2 DEF IInv, ChildrenInv
  <2>5. QED
    BY <1>1, <2>3, <2>4 DEF IInv, ChildrenInv
<1>4. /\ now = Now(pending, l, heard) /\ settled \subseteq now
      /\ pending' = Unsettled(pending, l, heard, settled)
      /\ childEvents' = childEvents \cup EventsOf(l, settled, R)
  <2>1. now = Now(pending, l, heard)
    BY DEF Heard, Now
  <2>2. {[lamp |-> l, id |-> p.id,
          result |-> ChildResult(p, state'[l], connection'[l])] : p \in settled}
          = EventsOf(l, settled, R)
    BY DEF EventsOf
  <2> HIDE DEF now, settled, R
  <2>3. QED
    BY <1>1, <2>1, <2>2 DEF Unsettled, settled
<1>5. \A e \in childEvents : e.lamp # l
  BY <1>2 DEF IInv, AnswersInv
<1>6. pending \subseteq ChildSlot(commands) /\ OnceEach(pending, childEvents)
  BY DEF IInv, AnswersInv
<1>7. /\ pending' \subseteq ChildSlot(commands) /\ OnceEach(pending', childEvents')
      /\ \A q \in pending' : \E p \in pending : p.lamp = q.lamp /\ p.id = q.id
      /\ \A id : OwedBy(pending', childEvents', id) \subseteq OwedBy(pending, childEvents, id)
  <2> HIDE DEF heard, now, settled, R
  <2>1. QED
    BY <1>2, <1>4, <1>5, <1>6, SettledTables
<1>8. childEvents' \subseteq ChildEvent(commands)
  <2> SUFFICES ASSUME NEW e \in childEvents', e \notin childEvents
               PROVE  e \in ChildEvent(commands)
    BY DEF IInv, AnswersInv
  <2>1. PICK p \in settled :
          e = [lamp |-> l, id |-> p.id, result |-> ChildResult(p, state'[l], connection'[l])]
    BY <1>1
  <2>2. p \in ChildSlot(commands)
    <3>1. PICK q \in pending : p = Heard(q, heard)
      BY <1>4 DEF Now
    <3> HIDE DEF heard
    <3>2. QED
      BY <1>2, <1>6, <3>1, HeardSlot
  <2>3. connection'[l] \in Connections
    BY <1>2, <1>3 DEF ChildrenInv
  <2>4. ChildResult(p, state'[l], connection'[l]) \in Connections \cup {"Succeeded", "TimedOut"}
    BY <2>3 DEF ChildResult
  <2>5. QED
    BY <1>2, <2>1, <2>2, <2>4 DEF ChildEvent, ChildSlot
<1>9. AnswersInv'
  <2>1. \A p \in pending' : p.lamp \in children'
    BY <1>1, <1>7 DEF IInv, AnswersInv
  <2>2. \A e \in childEvents' : pc' = "tick" /\ e.lamp \in children' \ unticked'
    BY <1>1, <1>2 DEF IInv, AnswersInv
  <2>3. QED
    BY <1>1, <1>7, <1>8, <2>1, <2>2 DEF IInv, AnswersInv
<1>10. GroupInv'
  BY <1>1, <1>7, GroupFrame DEF Quiet
<1>11. GroupAnsweredInTime'
  BY <1>1 DEF GroupAnsweredInTime
<1>12. QED
  BY <1>3, <1>9, <1>10, <1>11 DEF IInv

LEMMA FinishedFits ==
  ASSUME NEW g, NEW n \in Nat, NEW P, NEW A, GroupFits(g, n, P, {}, A)
  PROVE  EventFits(GroupEvent(g), n, A)
<1>1. /\ Cardinality(OwedBy(P, {}, g.id)) \in Nat
      /\ Cardinality(DoneBy(A, g.id)) \in Nat
  BY OwedSets
<1>2. /\ g.succeeded \in Nat /\ g.authFailures \in Nat /\ g.completed \in Nat
      /\ g.targets \in Nat
  BY LampSets DEF GroupFits, GroupRecord
<1>3. GroupEvent(g).id = g.id /\ GroupEvent(g).succeeded = g.succeeded
      /\ GroupEvent(g).targets = g.targets /\ GroupEvent(g).result = GroupResult(g)
  BY DEF GroupEvent
<1>4. GroupResult(g) = "Succeeded" => g.succeeded = g.targets
  BY DEF GroupResult
<1>5. QED
  BY <1>1, <1>2, <1>3, <1>4 DEF EventFits, GroupFits

LEMMA CollectInv ==
  ASSUME IInv, Collect
  PROVE  IInv'
<1> DEFINE counted == {Counted(g) : g \in group}
           finished == {g \in counted : Finished(g)}
<1>1. /\ pc = "tick" /\ unticked = {} /\ pc' = "refresh" /\ childEvents' = {}
      /\ group' = counted \ finished
      /\ events' = events \cup {GroupEvent(g) : g \in finished}
      /\ UNCHANGED <<unticked, children, connection, state, pollNow, pending, commands,
                     reach, lamp, changes, applied>>
  BY DEF Collect, childVars, lampVars
<1>2. ChildrenInv'
  BY <1>1 DEF IInv, ChildrenInv
<1>3. AnswersInv'
  BY <1>1 DEF IInv, AnswersInv, OnceEach
<1>4. commands \in Nat
  BY IdsFit DEF IInv
<1>5. \A e \in childEvents : e.lamp \in Lamp
  BY DEF IInv, AnswersInv, ChildEvent
<1>6. \A g \in group : /\ GroupFits(Counted(g), commands, pending, {}, applied)
                       /\ Counted(g).id = g.id
  BY <1>4, <1>5, CountedFits DEF IInv, GroupInv, AnswersInv
<1>7. \A g \in counted : /\ GroupFits(g, commands, pending, {}, applied)
                         /\ \E h \in group : g = Counted(h) /\ g.id = h.id
  BY <1>6
<1>8. \A g \in finished : EventFits(GroupEvent(g), commands, applied) /\ GroupEvent(g).id = g.id
  BY <1>4, <1>7, FinishedFits DEF GroupEvent
<1> HIDE DEF counted
<1>9. OneEach(group', events')
  <2>1. \A g, h \in counted : g.id = h.id => g = h
    BY <1>7 DEF IInv, GroupInv, OneEach
  <2>2. \A e, f \in events' : e.id = f.id => e = f
    BY <1>1, <1>7, <1>8, <2>1 DEF IInv, GroupInv, OneEach
  <2>3. \A g \in group', e \in events' : g.id # e.id
    BY <1>1, <1>7, <1>8, <2>1 DEF IInv, GroupInv, OneEach
  <2>4. QED
    BY <1>1, <2>1, <2>2, <2>3 DEF OneEach
<1>10. GroupInv'
  BY <1>1, <1>7, <1>8, <1>9 DEF IInv, GroupInv
<1>11. GroupAnsweredInTime'
  BY <1>1, <1>7 DEF GroupAnsweredInTime, Finished, GroupFits, GroupRecord
<1>12. QED
  BY <1>2, <1>3, <1>10, <1>11 DEF IInv

(* Steps that leave the children and their answers alone.                      *)
LEMMA IdleInv ==
  ASSUME IInv,
         \/ NotDue \/ NoCommand
         \/ \E hosts \in SUBSET Lamp : RefreshNothing(hosts)
         \/ \E e \in events : PollEvent(e)
         \/ \E l \in Lamp, r \in {"up", "down", "refusing"} : LampChanges(l, r)
         \/ UNCHANGED vars
  PROVE  IInv'
<1>1. /\ UNCHANGED <<unticked, children, connection, state, pollNow, pending, childEvents,
                     group, commands, lamp, applied>>
      /\ events' \subseteq events
      /\ pc' = pc \/ (pc = "refresh" /\ pc' = "execute") \/ (pc = "execute" /\ pc' = "drain")
  BY DEF NotDue, NoCommand, RefreshNothing, PollEvent, LampChanges, vars, childVars, lampVars
<1>2. reach' \in [Lamp -> {"up", "down", "refusing"}] /\ changes' \in 0..MaxChanges
  BY TapoAssumption
     DEF NotDue, NoCommand, RefreshNothing, PollEvent, LampChanges, vars, lampVars, IInv,
         ChildrenInv
<1>3. ChildrenInv'
  BY <1>1, <1>2 DEF IInv, ChildrenInv
<1>4. pc' = "tick" \/ childEvents = {}
  BY <1>1 DEF IInv, AnswersInv
<1>5. AnswersInv'
  BY <1>1, <1>4 DEF IInv, AnswersInv
<1>6. GroupInv'
  BY <1>1 DEF IInv, GroupInv, OneEach
<1>7. GroupAnsweredInTime'
  BY <1>1 DEF IInv, GroupAnsweredInTime
<1>8. QED
  BY <1>3, <1>5, <1>6, <1>7 DEF IInv

LEMMA RebuildInv ==
  ASSUME IInv, NEW begun \in SUBSET Lamp, NEW online \in SUBSET Lamp,
         Rebuild(begun, online), Quiet, childEvents' = {}, lamp' = lamp, reach' = reach,
         changes' \in 0..MaxChanges, unticked' \subseteq begun,
         pc' # "tick" => unticked' = {},
         pc' \in {"tick", "refresh", "execute"}, GroupAnsweredInTime'
  PROVE  IInv'
<1>1. ChildrenInv'
  BY DEF IInv, ChildrenInv, Rebuild, Quiet, Connections
<1>2. pending' = {} /\ children' = begun
  BY DEF Rebuild
<1>3. AnswersInv'
  BY <1>2 DEF IInv, AnswersInv, OnceEach, Quiet
<1>4. \A id : OwedBy(pending', childEvents', id) \subseteq OwedBy(pending, childEvents, id)
  BY <1>2 DEF OwedBy
<1>5. QED
  BY <1>1, <1>3, <1>4, GroupFrame DEF IInv

LEMMA RefreshRebuildsInv ==
  ASSUME IInv, NEW hosts \in SUBSET Lamp, NEW begun \in SUBSET Lamp,
         NEW online \in SUBSET begun, RefreshRebuilds(hosts, begun, online)
  PROVE  IInv'
<1>1. /\ pc = "refresh" /\ pc' = "execute" /\ Quiet
      /\ UNCHANGED <<unticked, childEvents, lamp, reach, changes>>
  BY DEF RefreshRebuilds, lampVars, Quiet
<1>2. childEvents = {} /\ unticked = {}
  BY <1>1 DEF IInv, ChildrenInv, AnswersInv
<1>3. GroupAnsweredInTime'
  BY <1>1 DEF IInv, GroupAnsweredInTime, Quiet
<1>4. CASE begun # {}
  <2>1. Rebuild(begun, online)
    BY <1>4 DEF RefreshRebuilds
  <2>2. changes' \in 0..MaxChanges
    BY <1>1 DEF IInv, ChildrenInv
  <2>3. QED
    BY <1>1, <1>2, <1>3, <2>1, <2>2, RebuildInv
<1>5. CASE begun = {}
  <2>1. UNCHANGED <<children, connection, state, pollNow, pending>>
    BY <1>5 DEF RefreshRebuilds, childVars
  <2>2. ChildrenInv'
    BY <1>1, <2>1 DEF IInv, ChildrenInv, Quiet
  <2>3. AnswersInv'
    BY <1>1, <1>2, <2>1 DEF IInv, AnswersInv, Quiet
  <2>4. GroupInv'
    BY <1>1, <2>1, GroupFrame
  <2>5. QED
    BY <1>3, <2>2, <2>3, <2>4 DEF IInv
<1>6. QED
  BY <1>4, <1>5

LEMMA BeginInv ==
  ASSUME IInv, NEW begun \in SUBSET Lamp, NEW online \in SUBSET begun, Begin(begun, online)
  PROVE  IInv'
<1>1. /\ pc' = "tick" /\ unticked' = begun /\ Rebuild(begun, online) /\ Quiet
      /\ UNCHANGED <<childEvents, lamp, reach>>
      /\ pc = "begin" \/ (pc = "tick" /\ unticked = children)
  BY DEF Begin, Quiet
<1>2. childEvents = {}
  BY <1>1 DEF IInv, AnswersInv
<1>3. changes' \in 0..MaxChanges
  BY TapoAssumption DEF Begin, IInv, ChildrenInv
<1>4. GroupAnsweredInTime'
  BY <1>1 DEF GroupAnsweredInTime
<1>5. QED
  BY <1>1, <1>2, <1>3, <1>4, RebuildInv

NewSlot(id, targets, answered, refused) ==
  [id |-> id, left |-> Patience, targets |-> Cardinality(targets),
   completed |-> Cardinality(answered), succeeded |-> 0,
   authFailures |-> Cardinality(refused), total |-> Cardinality(children)]

(* The slot of a new command: the targets that did not accept it have answered, *)
(* those that did owe an answer and have carried it out.                         *)
LEMMA NewSlotFits ==
  ASSUME NEW id \in Nat \ {0}, NEW T, T \subseteq children, children \subseteq Lamp,
         NEW accepted, accepted \subseteq T, accepted # {},
         NEW refused, refused \subseteq T \ accepted,
         NEW P, NEW E, NEW A,
         OwedBy(P, E, id) = accepted, accepted \subseteq DoneBy(A, id)
  PROVE  GroupFits(NewSlot(id, T, T \ accepted, refused), id, P, E, A)
<1> DEFINE s == NewSlot(id, T, T \ accepted, refused)
           a == Cardinality(accepted)
           b == Cardinality(T \ accepted)
           c == Cardinality(refused)
           t == Cardinality(T)
           d == Cardinality(DoneBy(A, id))
           n == Cardinality(children)
           m == Cardinality(Lamp)
<1>1. t = a + b
  <2>1. T = accepted \cup (T \ accepted) /\ accepted \cap (T \ accepted) = {}
    OBVIOUS
  <2>2. accepted \subseteq Lamp /\ (T \ accepted) \subseteq Lamp
    OBVIOUS
  <2>3. IsFiniteSet(accepted) /\ IsFiniteSet(T \ accepted)
    BY <2>2, LampSets
  <2>4. Cardinality(accepted \cup (T \ accepted))
          = Cardinality(accepted) + Cardinality(T \ accepted)
    BY <2>1, <2>3, DisjointSums
  <2>5. QED
    BY <2>1, <2>4
<1>2. /\ a \in Nat /\ b \in Nat /\ c \in Nat /\ t \in Nat /\ n \in Nat /\ m \in Nat
      /\ c <= b /\ t <= n /\ n <= m
  <2>1. /\ accepted \subseteq Lamp /\ (T \ accepted) \subseteq Lamp /\ refused \subseteq Lamp
        /\ T \subseteq Lamp
    OBVIOUS
  <2>2. QED
    BY <2>1, LampSets
<1>3. d \in Nat /\ a <= d
  <2>1. DoneBy(A, id) \subseteq Lamp
    BY DEF DoneBy
  <2>2. QED
    BY <2>1, LampSets
<1>4. a # 0
  <2>1. IsFiniteSet(accepted)
    <3>1. accepted \subseteq Lamp
      OBVIOUS
    <3>2. QED
      BY <3>1, LampSets
  <2>2. QED
    BY <2>1, FS_EmptySet
<1>5. s = [id |-> id, left |-> Patience, targets |-> t, completed |-> b, succeeded |-> 0,
           authFailures |-> c, total |-> n]
  BY DEF NewSlot
<1>6. Patience \in Nat
  BY TapoAssumption
<1> HIDE DEF a, b, c, t, d, n, m, s
<1>7. s \in GroupRecord
  <2>1. t \in 1..m /\ n \in 1..m
    BY <1>1, <1>2, <1>4
  <2>2. t \in 1..Cardinality(Lamp) /\ n \in 1..Cardinality(Lamp)
    BY <2>1 DEF m
  <2>3. QED
    BY <1>2, <1>5, <1>6, <2>2 DEF GroupRecord
<1>8. /\ s.id = id /\ s.succeeded + s.authFailures <= s.completed
      /\ s.completed + a <= s.targets /\ s.succeeded + a <= d
  BY <1>1, <1>2, <1>3, <1>5
<1>9. QED
  BY <1>7, <1>8 DEF GroupFits, s, a, d

Asked(S, id, value, left) ==
  {[lamp |-> l, id |-> id, value |-> value, left |-> left[l], reported |-> FALSE] : l \in S}

LEMMA AskedSlots ==
  ASSUME NEW S, S \subseteq Lamp, NEW id \in Nat \ {0}, NEW value \in Value,
         NEW left, \A l \in S : left[l] \in 0..Patience
  PROVE  /\ Asked(S, id, value, left) \subseteq ChildSlot(id)
         /\ \A p \in Asked(S, id, value, left) : p.id = id /\ p.lamp \in S
         /\ \A p, q \in Asked(S, id, value, left) : p.lamp = q.lamp => p = q
         /\ \A l \in S : \E p \in Asked(S, id, value, left) : p.lamp = l
<1> DEFINE ask(l) == [lamp |-> l, id |-> id, value |-> value, left |-> left[l],
                      reported |-> FALSE]
<1>1. \A l \in S : ask(l) \in ChildSlot(id) /\ ask(l).lamp = l /\ ask(l).id = id
  BY DEF ChildSlot
<1>2. \A p : p \in Asked(S, id, value, left) <=> \E l \in S : p = ask(l)
  BY DEF Asked
<1> HIDE DEF ask
<1>3. QED
  BY <1>1, <1>2

LEMMA ExecuteInv ==
  ASSUME IInv, NEW value \in Value,
         NEW outcome, NEW acted \in SUBSET Lamp, NEW left \in [Targets -> 0..Patience],
         \A l \in Targets : /\ outcome[l] \in Outcomes(l)
                            /\ MayBeCarriedOut(outcome[l], l \in acted),
         Execute(value, outcome, acted, left)
  PROVE  IInv'
<1> DEFINE id == commands + 1
           ok == {l \in Targets : Accepts(outcome[l])}
           accepted == {l \in ok : HasRoom(l)}
           refused == {l \in Targets : outcome[l] = "refused"}
           slot == NewSlot(id, Targets, Targets \ accepted, refused)
           asked == Asked(accepted, id, value, left)
<1>1. /\ pc = "execute" /\ pc' = "drain" /\ commands < MaxCommands /\ commands' = id
      /\ lamp' = [l \in Lamp |-> IF l \in acted THEN value ELSE lamp[l]]
      /\ applied' = applied \cup {<<l, id>> : l \in acted}
      /\ connection' = [l \in Lamp |-> IF l \in Targets THEN ConnectionAfter(outcome[l])
                                       ELSE connection[l]]
      /\ pollNow' = [l \in Lamp |-> pollNow[l] \/ l \in ok]
      /\ pending' = pending \cup asked
      /\ group' = IF accepted # {} /\ Cardinality(group) < GroupSlots
                  THEN group \cup {slot} ELSE group
      /\ UNCHANGED <<unticked, children, state, childEvents, events, reach, changes>>
  BY DEF Execute, NewSlot, Asked
<1>2. /\ commands \in Nat /\ id \in Nat \ {0} /\ id \in Ids /\ commands <= id
      /\ id \notin 1..commands /\ Targets \subseteq children /\ children \subseteq Lamp
      /\ childEvents = {}
  BY <1>1, IdsFit, TapoAssumption DEF IInv, ChildrenInv, AnswersInv, Targets, Ids
<1>3. ChildrenInv'
  <2>1. \A l \in Targets : outcome[l] \in {"ok", "rejected", "unreachable", "refused"}
    BY <1>2 DEF Outcomes, IInv, ChildrenInv
  <2>2. \A l \in Targets : ConnectionAfter(outcome[l]) \in Connections
    BY <2>1 DEF ConnectionAfter, Connections
  <2>3. connection' \in [Lamp -> Connections] /\ pollNow' \in [Lamp -> BOOLEAN]
    BY <1>1, <2>2 DEF IInv, ChildrenInv
  <2>4. lamp' \in [Lamp -> Value] /\ state' \in [Lamp -> Value]
    BY <1>1 DEF IInv, ChildrenInv
  <2>5. commands' \in 0..MaxCommands
    BY <1>1, <1>2, TapoAssumption
  <2>6. QED
    BY <1>1, <2>3, <2>4, <2>5 DEF IInv, ChildrenInv
<1>4. accepted \subseteq Targets /\ accepted \subseteq acted
  BY DEF Accepts, MayBeCarriedOut
<1>5. /\ asked \subseteq ChildSlot(id)
      /\ \A p \in asked : p.id = id /\ p.lamp \in accepted
      /\ \A p, q \in asked : p.lamp = q.lamp => p = q
      /\ \A l \in accepted : \E p \in asked : p.lamp = l
  <2>1. accepted \subseteq Lamp /\ \A l \in accepted : left[l] \in 0..Patience
    BY <1>2, <1>4
  <2> HIDE DEF accepted, id
  <2>2. QED
    BY <1>2, <2>1, AskedSlots
<1>6. \A p \in pending : p.id \in 1..commands
  BY DEF IInv, AnswersInv, ChildSlot
<1>7. pending' \subseteq ChildSlot(id)
  <2>1. pending \subseteq ChildSlot(id)
    BY <1>2, LaterSlots DEF IInv, AnswersInv
  <2>2. QED
    BY <1>1, <1>5, <2>1
<1>8. \A p, q \in pending' : p.lamp = q.lamp /\ p.id = q.id => p = q
  <2> SUFFICES ASSUME NEW p \in pending', NEW q \in pending', p.lamp = q.lamp, p.id = q.id
               PROVE  p = q
    OBVIOUS
  <2>1. CASE p \in pending /\ q \in pending
    BY <2>1 DEF IInv, AnswersInv, OnceEach
  <2>2. CASE p \in asked /\ q \in asked
    BY <1>5, <2>2
  <2>3. QED
    BY <1>1, <1>2, <1>5, <1>6, <2>1, <2>2
<1>9. AnswersInv'
  <2>1. \A p \in pending' : p.lamp \in children'
    BY <1>1, <1>2, <1>4, <1>5 DEF IInv, AnswersInv
  <2>2. applied' \subseteq Lamp \X Ids
    BY <1>1, <1>2 DEF IInv, AnswersInv
  <2>3. QED
    BY <1>1, <1>2, <1>7, <1>8, <2>1, <2>2 DEF IInv, AnswersInv, OnceEach
<1>10. \A k \in 1..commands :
         OwedBy(pending', childEvents', k) \subseteq OwedBy(pending, childEvents, k)
  <2> HIDE DEF asked, id
  <2> SUFFICES ASSUME NEW k \in 1..commands
               PROVE  OwedBy(pending', childEvents', k) \subseteq OwedBy(pending, childEvents, k)
    OBVIOUS
  <2>1. k # id
    BY <1>2
  <2>2. \A p \in pending' : p.id = k => p \in pending
    BY <1>1, <1>5, <2>1
  <2>3. QED
    BY <1>1, <2>2 DEF OwedBy
<1>11. OwedBy(pending', childEvents', id) = accepted
  <2>1. accepted \subseteq Lamp
    BY <1>2
  <2> HIDE DEF asked, accepted
  <2>2. QED
    BY <1>1, <1>2, <1>5, <1>6, <2>1 DEF OwedBy
<1>12. applied \subseteq applied' /\ accepted \subseteq DoneBy(applied', id)
  BY <1>1, <1>2, <1>4 DEF DoneBy
<1>13. \A g \in group : /\ GroupFits(g, id, pending', childEvents', applied')
                        /\ g.id \in 1..commands
  <2> SUFFICES ASSUME NEW g \in group
               PROVE  /\ GroupFits(g, id, pending', childEvents', applied')
                      /\ g.id \in 1..commands
    OBVIOUS
  <2>1. GroupFits(g, commands, pending, childEvents, applied)
    BY DEF IInv, GroupInv
  <2>2. g.id \in 1..commands
    BY <2>1 DEF GroupFits
  <2>3. OwedBy(pending', childEvents', g.id) \subseteq OwedBy(pending, childEvents, g.id)
    BY <1>10, <2>2
  <2> HIDE DEF id
  <2>4. QED
    BY <1>2, <1>12, <2>1, <2>2, <2>3, FitsLater
<1>14. accepted # {} => GroupFits(slot, id, pending', childEvents', applied')
  <2>1. refused \subseteq Targets \ accepted
    BY DEF Accepts
  <2> HIDE DEF id, accepted, refused
  <2>2. QED
    BY <1>2, <1>4, <1>11, <1>12, <2>1, NewSlotFits
<1>15. slot.id = id
  BY DEF NewSlot
<1>16. \A e \in events : EventFits(e, id, applied') /\ e.id \in 1..commands
  <2> SUFFICES ASSUME NEW e \in events
               PROVE  EventFits(e, id, applied') /\ e.id \in 1..commands
    OBVIOUS
  <2>1. EventFits(e, commands, applied)
    BY DEF IInv, GroupInv
  <2> HIDE DEF id
  <2>2. QED
    BY <1>2, <1>12, <2>1, EventFitsLater DEF EventFits
<1> HIDE DEF accepted, slot, asked
<1>17. GroupInv'
  <2>1. \A g \in group' : GroupFits(g, commands', pending', childEvents', applied')
    BY <1>1, <1>13, <1>14
  <2>2. \A e \in events' : EventFits(e, commands', applied')
    BY <1>1, <1>16
  <2>3. OneEach(group', events')
    <3>1. /\ \A g \in group : g.id # id
          /\ \A g, h \in group : g.id = h.id => g = h
          /\ \A g \in group, e \in events : g.id # e.id
          /\ \A e, f \in events : e.id = f.id => e = f
      BY <1>2, <1>13 DEF IInv, GroupInv, OneEach
    <3>2. \A e \in events : e.id # id
      BY <1>2, <1>16
    <3>3. \A g \in group' : g \in group \/ g = slot
      BY <1>1
    <3> HIDE DEF id
    <3>4. \A g, h \in group' : g.id = h.id => g = h
      BY <1>15, <3>1, <3>3
    <3>5. \A g \in group', e \in events : g.id # e.id
      BY <1>15, <3>1, <3>2, <3>3
    <3>6. events' = events
      BY <1>1
    <3>7. QED
      BY <3>1, <3>4, <3>5, <3>6 DEF OneEach
  <2>4. QED
    BY <2>1, <2>2, <2>3 DEF GroupInv
<1>18. GroupAnsweredInTime'
  BY <1>1 DEF GroupAnsweredInTime
<1>19. QED
  BY <1>3, <1>9, <1>17, <1>18 DEF IInv

LEMMA NextLoopInv ==
  ASSUME IInv, NextLoop
  PROVE  IInv'
<1>1. /\ pc = "drain" /\ pc' = "tick" /\ events = {} /\ unticked' = children
      /\ pending' = {Aged(p) : p \in pending} /\ group' = {Aged(g) : g \in group}
      /\ UNCHANGED <<children, connection, state, pollNow, childEvents, events, commands,
                     reach, lamp, changes, applied>>
  BY DEF NextLoop, Aged, lampVars
<1>2. childEvents = {} /\ commands \in Nat
  BY <1>1, IdsFit DEF IInv, AnswersInv
<1>3. ChildrenInv'
  BY <1>1 DEF IInv, ChildrenInv
<1>4. \A p \in pending : /\ p \in ChildSlot(commands) /\ Aged(p) \in ChildSlot(commands)
                         /\ Aged(p).lamp = p.lamp /\ Aged(p).id = p.id
  BY <1>2, AgedSlot DEF IInv, AnswersInv
<1>5. AnswersInv'
  BY <1>1, <1>2, <1>4 DEF IInv, AnswersInv, OnceEach
<1>6. \A id : OwedBy(pending', childEvents', id) \subseteq OwedBy(pending, childEvents, id)
  BY <1>1, <1>4 DEF OwedBy
<1>7. \A g \in group : /\ GroupFits(Aged(g), commands, pending', childEvents', applied')
                       /\ Aged(g).id = g.id
  <2> SUFFICES ASSUME NEW g \in group
               PROVE  /\ GroupFits(Aged(g), commands, pending', childEvents', applied')
                      /\ Aged(g).id = g.id
    OBVIOUS
  <2>1. GroupFits(g, commands, pending', childEvents', applied')
    BY <1>1, <1>2, <1>6, FitsLater DEF IInv, GroupInv
  <2>2. /\ Aged(g) \in GroupRecord /\ Aged(g).id = g.id /\ Aged(g).targets = g.targets
        /\ Aged(g).completed = g.completed /\ Aged(g).succeeded = g.succeeded
        /\ Aged(g).authFailures = g.authFailures
    BY <2>1, AgedSlot DEF GroupFits
  <2>3. QED
    BY <2>1, <2>2 DEF GroupFits
<1>8. GroupInv'
  <2>1. \A g \in group' : \E h \in group : g = Aged(h) /\ g.id = h.id
    BY <1>1, <1>7
  <2>2. \A g, h \in group' : g.id = h.id => g = h
    BY <2>1 DEF IInv, GroupInv, OneEach
  <2>3. \A g \in group' : GroupFits(g, commands', pending', childEvents', applied')
    BY <1>1, <1>7
  <2>4. QED
    BY <1>1, <2>2, <2>3 DEF GroupInv, OneEach
<1>9. GroupAnsweredInTime'
  BY <1>1 DEF GroupAnsweredInTime
<1>10. QED
  BY <1>3, <1>5, <1>8, <1>9 DEF IInv

LEMMA InitInv ==
  ASSUME Init
  PROVE  IInv
<1>1. ChildrenInv
  BY TapoAssumption DEF Init, ChildrenInv, Connections
<1>2. AnswersInv
  BY DEF Init, AnswersInv, OnceEach
<1>3. GroupInv
  BY DEF Init, GroupInv, OneEach
<1>4. GroupAnsweredInTime
  BY DEF Init, GroupAnsweredInTime
<1>5. QED
  BY <1>1, <1>2, <1>3, <1>4 DEF IInv

LEMMA NextInv ==
  ASSUME IInv, [Next]_vars
  PROVE  IInv'
<1>1. CASE UNCHANGED vars
  BY <1>1, IdleInv
<1>2. CASE \E l \in Lamp, r \in {"up", "down", "refusing"} : LampChanges(l, r)
  BY <1>2, IdleInv
<1>3. CASE NetworkTask
  <2>1. CASE \E l \in unticked, polls \in BOOLEAN : \E outcome \in Outcomes(l) :
               ChildTick(l, polls, outcome)
    BY <2>1, ChildTickInv
  <2>2. CASE Collect
    BY <2>2, CollectInv
  <2>3. CASE NotDue \/ NoCommand \/ \E e \in events : PollEvent(e)
    BY <2>3, IdleInv
  <2>4. CASE NextLoop
    BY <2>4, NextLoopInv
  <2>5. CASE \E hosts \in SUBSET Lamp : RefreshNothing(hosts)
    BY <2>5, IdleInv
  <2>6. CASE \E hosts \in SUBSET Lamp : \E begun \in SUBSET Lamp :
               \E online \in SUBSET begun : RefreshRebuilds(hosts, begun, online)
    BY <2>6, RefreshRebuildsInv
  <2>7. CASE \E begun \in SUBSET Lamp : \E online \in SUBSET begun : Begin(begun, online)
    BY <2>7, BeginInv
  <2>8. CASE \E value \in Value, outcome \in [Targets -> UNION {Outcomes(l) : l \in Targets}],
                acted \in SUBSET {l \in Targets : reach[l] # "down"},
                left \in [Targets -> 0..Patience] :
               /\ \A l \in Targets :
                    outcome[l] \in Outcomes(l) /\ MayBeCarriedOut(outcome[l], l \in acted)
               /\ Execute(value, outcome, acted, left)
    <3>1. Targets \subseteq Lamp
      BY DEF Targets, IInv, ChildrenInv
    <3>2. PICK value \in Value, outcome \in [Targets -> UNION {Outcomes(l) : l \in Targets}],
               acted \in SUBSET {l \in Targets : reach[l] # "down"},
               left \in [Targets -> 0..Patience] :
            /\ \A l \in Targets :
                 outcome[l] \in Outcomes(l) /\ MayBeCarriedOut(outcome[l], l \in acted)
            /\ Execute(value, outcome, acted, left)
      BY <2>8
    <3>3. acted \in SUBSET Lamp
      BY <3>1
    <3>4. QED
      BY <3>2, <3>3, ExecuteInv
  <2>9. ASSUME NEW hosts \in SUBSET {l \in Lamp : reach[l] # "down"},
               \/ RefreshNothing(hosts)
               \/ \E begun \in SUBSET {l \in hosts : reach[l] = "up"} :
                    \E online \in SUBSET begun : RefreshRebuilds(hosts, begun, online)
        PROVE  IInv'
    <3>1. hosts \in SUBSET Lamp /\ \A begun \in SUBSET {l \in hosts : reach[l] = "up"} :
                                     begun \in SUBSET Lamp
      OBVIOUS
    <3>2. QED
      BY <2>5, <2>6, <2>9, <3>1
  <2>10. ASSUME NEW begun \in SUBSET {l \in Lamp : reach[l] = "up"},
                \E online \in SUBSET begun : Begin(begun, online)
         PROVE  IInv'
    <3>1. begun \in SUBSET Lamp
      OBVIOUS
    <3>2. QED
      BY <2>7, <2>10, <3>1
  <2>11. QED
    BY <1>3, <2>1, <2>2, <2>3, <2>4, <2>8, <2>9, <2>10 DEF NetworkTask
<1>4. QED
  BY <1>1, <1>2, <1>3 DEF Next

LEMMA Invariance == Spec => []IInv
<1>1. Init => IInv
  BY InitInv
<1>2. IInv /\ [Next]_vars => IInv'
  BY NextInv
<1>3. QED
  BY <1>1, <1>2, PTL DEF Spec

-----------------------------------------------------------------------------
(* groupPending_ and collectChildEvents() count every answer of a lamp once:  *)
(* answers counted and answers owed are never more than the lamps asked.      *)
THEOREM EveryLampCountedOnce == Spec => []CountsEachLampOnce
<1>1. ASSUME IInv
      PROVE  CountsEachLampOnce
  <2>1. ASSUME NEW g \in group
        PROVE  /\ g.succeeded + g.authFailures <= g.completed
               /\ g.completed + Cardinality(Owing(g)) <= g.targets
    <3>1. GroupFits(g, commands, pending, childEvents, applied)
      BY <1>1 DEF IInv, GroupInv
    <3>2. QED
      BY <3>1, OwingIs DEF GroupFits
  <2>2. QED
    BY <1>1, <2>1 DEF CountsEachLampOnce, IInv, GroupInv, EventFits
<1>2. QED
  BY <1>1, Invariance, PTL

(* resolveGroupPending(): the event "all lights confirmed" is pushed only for *)
(* a command that as many lamps as it was sent to have carried out.           *)
THEOREM FullSuccessWasCarriedOut == Spec => []FullSuccessIsReal
<1>1. ASSUME IInv
      PROVE  FullSuccessIsReal
  BY <1>1 DEF FullSuccessIsReal, IInv, GroupInv, EventFits, DoneBy
<1>2. QED
  BY <1>1, Invariance, PTL

(* tick() leaves no group command behind that is past its deadline, though    *)
(* the children it waits for were replaced.                                   *)
THEOREM GroupDeadlineIsKept == Spec => []GroupAnsweredInTime
<1>1. IInv => GroupAnsweredInTime
  BY DEF IInv
<1>2. QED
  BY <1>1, Invariance, PTL

-----------------------------------------------------------------------------
(* The tables stay within their slots.                                        *)

LEMMA ImageIsNoLarger ==
  ASSUME NEW S, IsFiniteSet(S), NEW f, f = [x \in S |-> f[x]],
         NEW T, T = {f[x] : x \in S}
  PROVE  IsFiniteSet(T) /\ Cardinality(T) <= Cardinality(S)
<1>1. f \in Surjection(S, T)
  BY DEF Surjection
<1>2. QED
  BY <1>1, FS_Surjection

SlotsOf(P, l) == {p \in P : p.lamp = l}
Fits(P) == IsFiniteSet(P) /\ \A l \in Lamp : Cardinality(SlotsOf(P, l)) <= ChildSlots

LEMMA RoomIs ==
  /\ RoomInv <=> IsFiniteSet(group) /\ Cardinality(group) <= GroupSlots /\ Fits(pending)
  /\ RoomInv' <=> IsFiniteSet(group') /\ Cardinality(group') <= GroupSlots /\ Fits(pending')
  BY DEF RoomInv, Fits, SlotsOf

LEMMA FewerFit ==
  ASSUME NEW P, Fits(P), NEW Q, Q \subseteq P
  PROVE  Fits(Q)
<1>1. IsFiniteSet(Q)
  BY FS_Subset DEF Fits
<1>2. ASSUME NEW l \in Lamp
      PROVE  Cardinality(SlotsOf(Q, l)) <= ChildSlots
  <2> DEFINE U == SlotsOf(P, l)
             V == SlotsOf(Q, l)
  <2>1. U \subseteq P /\ V \subseteq U
    BY DEF SlotsOf
  <2>2. Cardinality(U) <= ChildSlots
    BY <1>2 DEF Fits
  <2>3. IsFiniteSet(P)
    BY DEF Fits
  <2> HIDE DEF U, V
  <2>4. IsFiniteSet(U)
    BY <2>1, <2>3, FS_Subset
  <2>5. IsFiniteSet(V) /\ Cardinality(V) <= Cardinality(U)
    BY <2>1, <2>4, FS_Subset
  <2>6. Cardinality(U) \in Nat /\ Cardinality(V) \in Nat
    BY <2>4, <2>5, FS_CardinalityType
  <2>7. Cardinality(V) <= ChildSlots
    BY <2>2, <2>5, <2>6, TapoAssumption
  <2>8. QED
    BY <2>7 DEF V
<1>3. QED
  BY <1>1, <1>2 DEF Fits

(* Slots changed in place: a table of the same size, lamp by lamp.             *)
LEMMA ChangedFit ==
  ASSUME NEW P, Fits(P), NEW f, f = [p \in P |-> f[p]], \A p \in P : f[p].lamp = p.lamp,
         NEW Q, Q = {f[p] : p \in P}
  PROVE  Fits(Q)
<1>1. IsFiniteSet(Q)
  BY ImageIsNoLarger DEF Fits
<1>2. ASSUME NEW l \in Lamp
      PROVE  Cardinality(SlotsOf(Q, l)) <= ChildSlots
  <2> DEFINE U == SlotsOf(P, l)
             V == SlotsOf(Q, l)
             h == [p \in U |-> f[p]]
  <2>1. U \subseteq P /\ V = {h[p] : p \in U}
    BY DEF SlotsOf
  <2>2. Cardinality(U) <= ChildSlots /\ IsFiniteSet(P)
    BY <1>2 DEF Fits
  <2>3. h = [p \in U |-> h[p]]
    OBVIOUS
  <2> HIDE DEF U, V, h
  <2>4. IsFiniteSet(U)
    BY <2>1, <2>2, FS_Subset
  <2>5. IsFiniteSet(V) /\ Cardinality(V) <= Cardinality(U)
    BY <2>1, <2>3, <2>4, ImageIsNoLarger
  <2>6. Cardinality(U) \in Nat /\ Cardinality(V) \in Nat
    BY <2>4, <2>5, FS_CardinalityType
  <2>7. Cardinality(V) <= ChildSlots
    BY <2>2, <2>5, <2>6, TapoAssumption
  <2>8. QED
    BY <2>7 DEF V
<1>3. QED
  BY <1>1, <1>2 DEF Fits

(* execute(): a child takes a command only with room for it.                   *)
LEMMA AskedFit ==
  ASSUME NEW P, Fits(P), NEW S, S \subseteq Lamp,
         \A l \in S : Cardinality(SlotsOf(P, l)) < ChildSlots,
         NEW id \in Nat \ {0}, NEW value \in Value,
         NEW left, \A l \in S : left[l] \in 0..Patience
  PROVE  Fits(P \cup Asked(S, id, value, left))
<1> DEFINE asked == Asked(S, id, value, left)
           Q == P \cup asked
           ask == [l \in S |-> [lamp |-> l, id |-> id, value |-> value, left |-> left[l],
                                reported |-> FALSE]]
<1>1. IsFiniteSet(P)
  BY DEF Fits
<1>2. IsFiniteSet(asked)
  <2>1. asked = {ask[l] : l \in S} /\ ask = [l \in S |-> ask[l]]
    BY DEF Asked
  <2>2. IsFiniteSet(S)
    BY LampSets
  <2> HIDE DEF asked, ask
  <2>3. QED
    BY <2>1, <2>2, ImageIsNoLarger
<1>3. /\ \A p \in asked : p.lamp \in S
      /\ \A p, q \in asked : p.lamp = q.lamp => p = q
  BY AskedSlots
<1> HIDE DEF asked
<1>4. IsFiniteSet(Q)
  BY <1>1, <1>2, FS_Union
<1>5. ASSUME NEW l \in Lamp
      PROVE  Cardinality(SlotsOf(Q, l)) <= ChildSlots
  <2> DEFINE U == SlotsOf(P, l)
  <2>1. IsFiniteSet(U)
    <3>1. U \subseteq P
      BY DEF SlotsOf
    <3>2. QED
      BY <1>1, <3>1, FS_Subset
  <2>2. Cardinality(U) <= ChildSlots /\ Cardinality(U) \in Nat
    BY <1>5, <2>1, FS_CardinalityType DEF Fits
  <2>3. CASE \E p \in asked : p.lamp = l
    <3>1. PICK p \in asked : p.lamp = l
      BY <2>3
    <3>2. SlotsOf(Q, l) = U \cup {p}
      BY <1>3, <3>1 DEF SlotsOf
    <3>3. Cardinality(U) < ChildSlots
      BY <1>3, <3>1
    <3> HIDE DEF U
    <3>4. Cardinality(U \cup {p}) = IF p \in U THEN Cardinality(U) ELSE Cardinality(U) + 1
      BY <2>1, FS_AddElement
    <3> DEFINE w == Cardinality(U \cup {p})
               u == Cardinality(U)
    <3>5. (w = u \/ w = u + 1) /\ u \in Nat /\ u < ChildSlots /\ ChildSlots \in Nat
      BY <2>2, <3>3, <3>4, TapoAssumption
    <3>6. Cardinality(SlotsOf(Q, l)) = w
      BY <3>2
    <3> HIDE DEF w, u
    <3>7. w <= ChildSlots
      BY <3>5
    <3>8. QED
      BY <3>6, <3>7
  <2>4. CASE ~ \E p \in asked : p.lamp = l
    <3>1. SlotsOf(Q, l) = U
      BY <2>4 DEF SlotsOf
    <3>2. QED
      BY <2>2, <3>1
  <2>5. QED
    BY <2>3, <2>4
<1>6. QED
  BY <1>4, <1>5 DEF Fits, asked

LEMMA ChildTickRoom ==
  ASSUME IInv, RoomInv, NEW l \in unticked, NEW polls \in BOOLEAN, NEW outcome,
         ChildTick(l, polls, outcome)
  PROVE  RoomInv'
<1> DEFINE heard == polls /\ outcome = "ok"
           now == {[p EXCEPT !.reported = @ \/ heard] : p \in {p \in pending : p.lamp = l}}
           f == [p \in pending |-> IF p.lamp = l THEN Heard(p, heard) ELSE p]
           Q == {f[p] : p \in pending}
<1>1. /\ group' = group
      /\ pending' \subseteq (pending \ {p \in pending : p.lamp = l}) \cup now
  BY DEF ChildTick
<1>2. now \subseteq Q
  BY DEF Heard
<1>3. (pending \ {p \in pending : p.lamp = l}) \subseteq Q
  OBVIOUS
<1>4. commands \in Nat /\ heard \in BOOLEAN /\ pending \subseteq ChildSlot(commands)
  BY IdsFit DEF IInv, AnswersInv
<1>5. \A p \in pending : f[p].lamp = p.lamp
  <2> HIDE DEF heard
  <2>1. \A p \in pending : Heard(p, heard).lamp = p.lamp
    BY <1>4, HeardSlot
  <2>2. QED
    BY <2>1
<1>6. f = [p \in pending |-> f[p]]
  OBVIOUS
<1>7. pending' \subseteq Q
  BY <1>1, <1>2, <1>3
<1>8. Fits(pending)
  BY RoomIs
<1> HIDE DEF f
<1>9. Fits(Q)
  BY <1>5, <1>6, <1>8, ChangedFit
<1> HIDE DEF Q
<1>10. Fits(pending')
  BY <1>7, <1>9, FewerFit
<1>11. QED
  BY <1>1, <1>10, RoomIs

LEMMA CollectRoom ==
  ASSUME RoomInv, Collect
  PROVE  RoomInv'
<1> DEFINE f == [g \in group |-> Counted(g)]
           counted == {f[g] : g \in group}
<1>1. pending' = pending /\ group' \subseteq counted
  BY DEF Collect, childVars
<1>2. IsFiniteSet(group) /\ Cardinality(group) <= GroupSlots /\ Fits(pending)
  BY RoomIs
<1>3. f = [g \in group |-> f[g]]
  OBVIOUS
<1> HIDE DEF f
<1>4. IsFiniteSet(counted) /\ Cardinality(counted) <= Cardinality(group)
  BY <1>2, <1>3, ImageIsNoLarger
<1> HIDE DEF counted
<1>5. IsFiniteSet(group') /\ Cardinality(group') <= Cardinality(counted)
  BY <1>1, <1>4, FS_Subset
<1>6. /\ Cardinality(group) \in Nat /\ Cardinality(counted) \in Nat
      /\ Cardinality(group') \in Nat
  BY <1>2, <1>4, <1>5, FS_CardinalityType
<1>7. Cardinality(group') <= GroupSlots
  BY <1>2, <1>4, <1>5, <1>6, TapoAssumption
<1>8. QED
  BY <1>1, <1>2, <1>5, <1>7, RoomIs

LEMMA NextLoopRoom ==
  ASSUME IInv, RoomInv, NextLoop
  PROVE  RoomInv'
<1> DEFINE f == [p \in pending |-> Aged(p)]
           h == [g \in group |-> Aged(g)]
<1>1. pending' = {f[p] : p \in pending} /\ group' = {h[g] : g \in group}
  BY DEF NextLoop, Aged
<1>2. IsFiniteSet(group) /\ Cardinality(group) <= GroupSlots /\ Fits(pending)
  BY RoomIs
<1>3. \A p \in pending : f[p].lamp = p.lamp
  BY IdsFit, AgedSlot DEF IInv, AnswersInv
<1>4. f = [p \in pending |-> f[p]] /\ h = [g \in group |-> h[g]]
  OBVIOUS
<1> HIDE DEF f, h
<1>5. Fits(pending')
  BY <1>1, <1>2, <1>3, <1>4, ChangedFit
<1>6. IsFiniteSet(group') /\ Cardinality(group') <= Cardinality(group)
  BY <1>1, <1>2, <1>4, ImageIsNoLarger
<1>7. Cardinality(group) \in Nat /\ Cardinality(group') \in Nat
  BY <1>2, <1>6, FS_CardinalityType
<1>8. Cardinality(group') <= GroupSlots
  BY <1>2, <1>6, <1>7, TapoAssumption
<1>9. QED
  BY <1>5, <1>6, <1>8, RoomIs

LEMMA ExecuteRoom ==
  ASSUME IInv, RoomInv, NEW value \in Value, NEW outcome, NEW acted,
         NEW left \in [Targets -> 0..Patience], Execute(value, outcome, acted, left)
  PROVE  RoomInv'
<1> DEFINE id == commands + 1
           accepted == {l \in {k \in Targets : Accepts(outcome[k])} : HasRoom(l)}
<1>1. pending' = pending \cup Asked(accepted, id, value, left)
  BY DEF Execute, Asked
<1>2. /\ accepted \subseteq Lamp /\ id \in Nat \ {0}
      /\ \A l \in accepted : left[l] \in 0..Patience
  BY IdsFit DEF IInv, ChildrenInv, Targets
<1>3. \A l \in accepted : Cardinality(SlotsOf(pending, l)) < ChildSlots
  BY DEF HasRoom, SlotsOf
<1>4. IsFiniteSet(group) /\ Cardinality(group) <= GroupSlots /\ Fits(pending)
  BY RoomIs
<1>5. group' = group \/ (Cardinality(group) < GroupSlots /\ \E s : group' = group \cup {s})
  BY DEF Execute
<1> HIDE DEF id, accepted
<1>6. Fits(pending')
  BY <1>1, <1>2, <1>3, <1>4, AskedFit
<1>7. CASE group' = group
  BY <1>4, <1>6, <1>7, RoomIs
<1>8. CASE Cardinality(group) < GroupSlots /\ \E s : group' = group \cup {s}
  <2>1. PICK s : group' = group \cup {s}
    BY <1>8
  <2>2. /\ IsFiniteSet(group \cup {s}) /\ Cardinality(group) \in Nat
        /\ Cardinality(group \cup {s})
             = IF s \in group THEN Cardinality(group) ELSE Cardinality(group) + 1
    BY <1>4, FS_AddElement, FS_CardinalityType
  <2> DEFINE w == Cardinality(group \cup {s})
             u == Cardinality(group)
  <2>3. (w = u \/ w = u + 1) /\ u \in Nat /\ u < GroupSlots /\ GroupSlots \in Nat
    BY <1>8, <2>2, TapoAssumption
  <2>4. IsFiniteSet(group') /\ Cardinality(group') = w
    BY <2>1, <2>2
  <2> HIDE DEF w, u
  <2>5. w <= GroupSlots
    BY <2>3
  <2>6. QED
    BY <1>6, <2>4, <2>5, RoomIs
<1>9. QED
  BY <1>5, <1>7, <1>8

LEMMA RoomNext ==
  ASSUME IInv, RoomInv, [Next]_vars
  PROVE  RoomInv'
<1>1. CASE UNCHANGED <<pending, group>>
  BY <1>1 DEF RoomInv
<1>2. CASE pending' = {} /\ group' = group
  <2>1. Fits({})
    <3>1. \A l \in Lamp : SlotsOf({}, l) = {}
      BY DEF SlotsOf
    <3>2. QED
      BY <3>1, FS_EmptySet, TapoAssumption DEF Fits
  <2>2. QED
    BY <1>2, <2>1, RoomIs
<1>3. CASE \E l \in unticked, polls \in BOOLEAN : \E outcome \in Outcomes(l) :
             ChildTick(l, polls, outcome)
  BY <1>3, ChildTickRoom
<1>4. CASE Collect
  BY <1>4, CollectRoom
<1>5. CASE NextLoop
  BY <1>5, NextLoopRoom
<1>6. CASE \E value \in Value, outcome \in [Targets -> UNION {Outcomes(l) : l \in Targets}],
              acted \in SUBSET {l \in Targets : reach[l] # "down"},
              left \in [Targets -> 0..Patience] : Execute(value, outcome, acted, left)
  BY <1>6, ExecuteRoom
<1>7. CASE \/ UNCHANGED vars
           \/ \E l \in Lamp, r \in {"up", "down", "refusing"} : LampChanges(l, r)
           \/ NotDue \/ NoCommand
           \/ \E e \in events : PollEvent(e)
           \/ \E hosts : RefreshNothing(hosts)
  BY <1>1, <1>7 DEF vars, childVars, LampChanges, NotDue, NoCommand, PollEvent, RefreshNothing
<1>8. CASE \/ \E hosts, begun, online : RefreshRebuilds(hosts, begun, online)
           \/ \E begun, online : Begin(begun, online)
  BY <1>1, <1>2, <1>8 DEF RefreshRebuilds, Begin, Rebuild, childVars
<1>9. QED
  BY <1>3, <1>4, <1>5, <1>6, <1>7, <1>8 DEF Next, NetworkTask

(* Values are in range; a child has no more pending commands than its 8 slots, *)
(* and no more than 8 group commands are pending.                              *)
THEOREM TapoGroupTypeCorrect == Spec => []TypeOK
<1>1. Init => RoomInv
  <2>1. SUFFICES ASSUME Init PROVE RoomInv
    OBVIOUS
  <2>2. \A l \in Lamp : {p \in pending : p.lamp = l} = {}
    BY <2>1 DEF Init
  <2>3. group = {} /\ pending = {}
    BY <2>1 DEF Init
  <2>4. QED
    BY <2>2, <2>3, FS_EmptySet, TapoAssumption DEF RoomInv
<1>2. IInv /\ RoomInv /\ [Next]_vars => RoomInv'
  BY RoomNext
<1>3. ASSUME IInv, RoomInv
      PROVE  TypeOK
  <2>1. 1..commands \subseteq Ids
    BY <1>3, IdsFit DEF IInv
  <2>2. pending \subseteq [lamp : children, id : Ids, value : Value,
                           left : 0..Patience, reported : BOOLEAN]
    BY <1>3, <2>1 DEF IInv, AnswersInv, ChildSlot
  <2>3. childEvents \subseteq [lamp : children, id : Ids,
                               result : Connections \cup {"Succeeded", "TimedOut"}]
    BY <1>3, <2>1 DEF IInv, AnswersInv, ChildEvent
  <2>4. group \subseteq GroupSlot
    <3> SUFFICES ASSUME NEW g \in group PROVE g \in GroupSlot
      OBVIOUS
    <3>1. GroupFits(g, commands, pending, childEvents, applied)
      BY <1>3 DEF IInv, GroupInv
    <3> DEFINE o == Cardinality(OwedBy(pending, childEvents, g.id))
               n == Cardinality(Lamp)
    <3>2. o \in Nat /\ n \in Nat
      BY OwedSets, LampSets
    <3>3. /\ g \in GroupRecord /\ g.id \in Ids
          /\ g.succeeded + g.authFailures <= g.completed /\ g.completed + o <= g.targets
      BY <2>1, <3>1 DEF GroupFits
    <3>4. g.targets \in 1..n /\ g.completed \in Nat /\ g.succeeded \in Nat
          /\ g.authFailures \in Nat
      BY <3>3 DEF GroupRecord
    <3> HIDE DEF o, n
    <3>5. g.completed \in 0..n /\ g.succeeded \in 0..n /\ g.authFailures \in 0..n
      BY <3>2, <3>3, <3>4
    <3>6. QED
      BY <3>3, <3>5 DEF GroupRecord, GroupSlot, n
  <2>5. QED
    BY <1>3, <2>2, <2>3, <2>4 DEF TypeOK, IInv, ChildrenInv, AnswersInv, RoomInv
<1>4. QED
  BY <1>1, <1>2, <1>3, Invariance, PTL DEF Spec

-----------------------------------------------------------------------------
(* The contract, step by step.                                                *)

LEMMA GroupIds ==
  ASSUME IInv
  PROVE  /\ {g.id : g \in group} \subseteq 1..commands
         /\ {e.id : e \in events} \subseteq 1..commands
  BY DEF IInv, GroupInv, GroupFits, EventFits

LEMMA CollectResolves ==
  ASSUME IInv, Collect
  PROVE  \E ids \in SUBSET Ids : Contract!Resolve(ids)
<1> DEFINE counted == {Counted(g) : g \in group}
           finished == {g \in counted : Finished(g)}
           ids == {g.id : g \in finished}
<1>1. group' = counted \ finished /\ events' = events \cup {GroupEvent(g) : g \in finished}
  BY DEF Collect
<1>2. commands \in Nat /\ 1..commands \subseteq Ids
  BY IdsFit DEF IInv
<1>3. \A e \in childEvents : e.lamp \in Lamp
  BY DEF IInv, AnswersInv, ChildEvent
<1>4. \A g \in group : Counted(g).id = g.id
  BY <1>2, <1>3, CountedFits DEF IInv, GroupInv, AnswersInv
<1>5. {g.id : g \in counted} = {g.id : g \in group}
  BY <1>4
<1>6. \A g, h \in counted : g.id = h.id => g = h
  BY <1>4 DEF IInv, GroupInv, OneEach
<1>7. \A g \in finished : GroupEvent(g).id = g.id
  BY DEF GroupEvent
<1> HIDE DEF counted
<1>8. {g.id : g \in group'} = {g.id : g \in group} \ ids
  BY <1>1, <1>5, <1>6
<1>9. {e.id : e \in events'} = {e.id : e \in events} \cup ids
  BY <1>1, <1>7
<1>10. ids \subseteq {g.id : g \in group}
  BY <1>5
<1>11. ids \in SUBSET Ids
  BY <1>2, <1>10, GroupIds
<1>12. Contract!Resolve(ids)
  BY <1>8, <1>9, <1>10 DEF Contract!Resolve
<1>13. QED
  BY <1>11, <1>12 DEF Contract!Resolve

LEMMA ExecuteAccepts ==
  ASSUME IInv, NEW value, NEW outcome, NEW acted, NEW left,
         Execute(value, outcome, acted, left)
  PROVE  (\E id \in Ids : Contract!Accept(id)) \/ UNCHANGED Contract!contractVars
<1>1. events' = events
  BY DEF Execute
<1>2. commands \in Nat /\ commands < MaxCommands /\ MaxCommands \in Nat
  BY IdsFit, TapoAssumption DEF IInv, Execute
<1>3. group' = group \/ \E s : s.id = commands + 1 /\ group' = group \cup {s}
  BY DEF Execute
<1>4. CASE group' = group
  BY <1>1, <1>4 DEF Contract!contractVars
<1>5. CASE \E s : s.id = commands + 1 /\ group' = group \cup {s}
  <2>1. PICK s : s.id = commands + 1 /\ group' = group \cup {s}
    BY <1>5
  <2>2. {g.id : g \in group'} = {g.id : g \in group} \cup {commands + 1}
    BY <2>1
  <2>3. commands + 1 \notin {g.id : g \in group} \cup {e.id : e \in events}
    BY <1>2, GroupIds
  <2>4. commands + 1 \in Ids
    BY <1>2 DEF Ids
  <2>5. Contract!Accept(commands + 1)
    BY <1>1, <2>2, <2>3 DEF Contract!Accept
  <2>6. QED
    BY <2>4, <2>5 DEF Contract!Accept
<1>6. QED
  BY <1>3, <1>4, <1>5

LEMMA PollEventPolls ==
  ASSUME IInv, NEW e \in events, PollEvent(e)
  PROVE  \E id \in Ids : Contract!Poll(id)
<1>1. group' = group /\ events' = events \ {e}
  BY DEF PollEvent
<1>2. {f.id : f \in events'} = {f.id : f \in events} \ {e.id}
  BY <1>1 DEF IInv, GroupInv, OneEach
<1>3. e.id \in Ids
  BY GroupIds, IdsFit DEF IInv
<1>4. Contract!Poll(e.id)
  BY <1>1, <1>2 DEF Contract!Poll
<1>5. QED
  BY <1>3, <1>4

LEMMA NextLoopStutters ==
  ASSUME IInv, NextLoop
  PROVE  UNCHANGED Contract!contractVars
<1>1. group' = {Aged(g) : g \in group} /\ events' = events
  BY DEF NextLoop, Aged
<1>2. \A g \in group : Aged(g).id = g.id
  BY AgedSlot DEF IInv, GroupInv, GroupFits
<1>3. {g.id : g \in group'} = {g.id : g \in group}
  BY <1>1, <1>2
<1>4. QED
  BY <1>1, <1>3 DEF Contract!contractVars

LEMMA StepIsContractStep ==
  ASSUME IInv, [Next]_vars
  PROVE  [Contract!Next]_(Contract!contractVars)
<1>1. CASE UNCHANGED <<group, events>>
  BY <1>1 DEF Contract!contractVars
<1>2. CASE Collect
  BY <1>2, CollectResolves DEF Contract!Next
<1>3. CASE NextLoop
  BY <1>3, NextLoopStutters
<1>4. CASE \E value \in Value, outcome \in [Targets -> UNION {Outcomes(l) : l \in Targets}],
              acted \in SUBSET {l \in Targets : reach[l] # "down"},
              left \in [Targets -> 0..Patience] : Execute(value, outcome, acted, left)
  BY <1>4, ExecuteAccepts DEF Contract!Next
<1>5. CASE \E e \in events : PollEvent(e)
  BY <1>5, PollEventPolls DEF Contract!Next
<1>6. CASE \/ UNCHANGED vars
           \/ \E l \in Lamp, r \in {"up", "down", "refusing"} : LampChanges(l, r)
           \/ NotDue \/ NoCommand
           \/ \E hosts : RefreshNothing(hosts)
           \/ \E l, polls, outcome : ChildTick(l, polls, outcome)
           \/ \E hosts, begun, online : RefreshRebuilds(hosts, begun, online)
           \/ \E begun, online : Begin(begun, online)
  BY <1>1, <1>6 DEF vars, LampChanges, NotDue, NoCommand, RefreshNothing, ChildTick,
                    RefreshRebuilds, Begin
<1>7. QED
  BY <1>2, <1>3, <1>4, <1>5, <1>6 DEF Next, NetworkTask

(* The group keeps DeviceAdapter.h's contract: one event for every command     *)
(* answered with Pending, none for any other, whatever becomes of the children. *)
THEOREM GroupImplementsContract == Spec => ImplementsContract
<1>1. Init => Contract!Init
  BY DEF Init, Contract!Init
<1>2. IInv /\ [Next]_vars => [Contract!Next]_(Contract!contractVars)
  BY StepIsContractStep
<1>3. QED
  BY <1>1, <1>2, Invariance, PTL DEF Spec, ImplementsContract, Contract!Spec
=============================================================================
