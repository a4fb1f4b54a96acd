------------------------- MODULE CatalogRotationProofs --------------------------
(***************************************************************************)
(* Theorems about CatalogRotation for every set of references, batch size, *)
(* discovery interval and clock.                                           *)
(***************************************************************************)
EXTENDS CatalogRotation, FiniteSetTheorems, SequenceTheorems, TLAPS

LEMMA CountWraps ==
  ASSUME NEW n \in 0..(DiscoveryInterval - 1)
  PROVE  (n + 1) % DiscoveryInterval \in 0..(DiscoveryInterval - 1)
  BY OptionAssumption, SMT

LEMMA TypeInit == Init => TypeOK
<1> SUFFICES ASSUME Init PROVE TypeOK
  OBVIOUS
<1>1. Cardinality(References) \in Nat
  BY ReferenceAssumption, FS_CardinalityType
<1>2. 0 \in Sequences /\ 0 \in Times /\ 0 \in 0..(DiscoveryInterval - 1)
  BY <1>1, OptionAssumption DEF Sequences, Times
<1>3. order \in [References -> Sequences] /\ seen \in [References -> Times]
      /\ attempt \in [References -> Times]
  BY <1>2 DEF Init
<1>4. waiting \in [References -> SUBSET References]
  BY DEF Init
<1> QED BY <1>2, <1>3, <1>4 DEF Init, TypeOK

LEMMA TypeStep == TypeOK /\ [Next]_vars => TypeOK'
<1> SUFFICES ASSUME TypeOK, [Next]_vars PROVE TypeOK'
  OBVIOUS
<1> USE DEF TypeOK, table, history, Running
<1>1. ASSUME NEW t \in 1..MaxClock, StartCycle(t) PROVE TypeOK'
  <2>1. t \in Times /\ steady' \in BOOLEAN
    BY <1>1, OptionAssumption DEF StartCycle, Times
  <2> QED BY <1>1, <2>1 DEF StartCycle
<1>2. ASSUME NEW found \in SUBSET References, Discover(found) PROVE TypeOK'
  <2>1. order' \in [References -> Sequences]
    BY <1>2 DEF Discover, Sequenced
  <2>2. seen' \in [References -> Times]
    BY <1>2 DEF Discover
  <2> QED BY <1>2, <2>1, <2>2 DEF Discover
<1>3. ASSUME NEW found \in SUBSET References, DiscoveryRefused(found) PROVE TypeOK'
  BY <1>3 DEF DiscoveryRefused
<1>4. CASE DiscoveryFails
  BY <1>4 DEF DiscoveryFails
<1>5. CASE SelectBatch
  <2>1. batch' \subseteq References
    BY <1>5 DEF SelectBatch, Retained
  <2> QED BY <1>5, <2>1 DEF SelectBatch
<1>6. CASE SkipRefresh
  BY <1>6, CountWraps DEF SkipRefresh, EndedCycle
<1>7. CASE Record
  <2>1. attempt' \in [References -> Times]
    BY <1>7 DEF Record
  <2>2. waiting' \in [References -> SUBSET References]
    BY <1>7 DEF Record, Retained
  <2>3. completed' \in 0..(DiscoveryInterval - 1)
    BY <1>7, CountWraps DEF Record, EndedCycle
  <2> QED BY <1>7, <2>1, <2>2, <2>3 DEF Record, EndedCycle
<1>8. CASE RecordRefused
  BY <1>8 DEF RecordRefused
<1>9. CASE Stop
  BY <1>9 DEF Stop
<1>10. CASE Restart
  BY <1>10, OptionAssumption DEF Restart
<1>11. CASE UNCHANGED vars
  BY <1>11 DEF vars
<1> QED BY <1>1, <1>2, <1>3, <1>4, <1>5, <1>6, <1>7, <1>8, <1>9, <1>10, <1>11
        DEF Next, Refresh

\* Every reachable state is well typed.
THEOREM TypeCorrect == Spec => []TypeOK
  BY TypeInit, TypeStep, PTL DEF Spec

\* Recorded times never decrease and no reference is forgotten, whatever the
\* clock does (record_discovery, record_refresh_attempt).
THEOREM TimesKept == Spec => TimesNeverDecrease
<1> DEFINE Kept == \A r \in References :
       /\ seen'[r] >= seen[r] /\ attempt'[r] >= attempt[r]
       /\ order[r] # 0 => order'[r] = order[r]
<1>1. TypeOK /\ [Next]_vars => [Kept]_vars
  <2> SUFFICES ASSUME TypeOK, Next, NEW r \in References
               PROVE  /\ seen'[r] >= seen[r] /\ attempt'[r] >= attempt[r]
                      /\ order[r] # 0 => order'[r] = order[r]
    OBVIOUS
  <2>1. seen[r] \in Int /\ attempt[r] \in Int /\ now \in Int
    BY OptionAssumption DEF TypeOK, Times
  <2>2. ASSUME NEW found \in SUBSET References, Discover(found)
        PROVE  seen'[r] >= seen[r] /\ (order[r] # 0 => order'[r] = order[r])
    BY <2>1, <2>2 DEF Discover, Accepted, Sequenced, Retained, TypeOK
  <2>3. ASSUME NEW found \in SUBSET References, Discover(found)
        PROVE  attempt' = attempt
    BY <2>3 DEF Discover
  <2>4. CASE Record
    BY <2>1, <2>4 DEF Record, TypeOK
  <2>5. ASSUME ~Record, \A found \in SUBSET References : ~Discover(found)
        PROVE  UNCHANGED table
    BY <2>5 DEF Next, Refresh, StartCycle, DiscoveryRefused, DiscoveryFails, SelectBatch,
                SkipRefresh, RecordRefused, Stop, Restart
  <2> QED BY <2>1, <2>2, <2>3, <2>4, <2>5 DEF table
<1>2. TypeOK /\ [Next]_vars => TypeOK'
  BY TypeStep
<1> QED BY <1>1, TypeCorrect, PTL DEF Spec, TimesNeverDecrease

-------------------------------------------------------------------------------
(* The waiting references.                                                 *)

\* No attempt is later than the clock, and none as late as a running cycle.
ClockAhead ==
  \A r \in References : attempt[r] <= now /\ (pc \in Running => attempt[r] < now)

\* Who has been waiting since r was attempted has an older attempt than r.
WaitersOlder ==
  \A r \in References : \A q \in waiting[r] : q \in Retained /\ attempt[q] < attempt[r]

BatchIsFront == pc = "refresh" => batch = {r \in Retained : Rank(r) < BatchSize}

IInv == TypeOK /\ BatchIsFront /\ (steady => ClockAhead /\ WaitersOlder)

LEMMA WaitingInit == Init => IInv
<1> SUFFICES ASSUME Init PROVE IInv
  OBVIOUS
<1>1. ClockAhead /\ WaitersOlder /\ BatchIsFront
  BY DEF Init, ClockAhead, WaitersOlder, BatchIsFront, Running
<1> QED BY <1>1, TypeInit DEF IInv

LEMMA BatchIsFrontStep == IInv /\ [Next]_vars => BatchIsFront'
<1> SUFFICES ASSUME IInv, [Next]_vars, pc' = "refresh"
             PROVE  batch' = {r \in Retained' : Rank(r)' < BatchSize}
  BY DEF BatchIsFront
<1>1. CASE SelectBatch
  <2>1. UNCHANGED <<order, attempt>>
    BY <1>1 DEF SelectBatch, table
  <2>2. Retained' = Retained
    BY <2>1 DEF Retained
  <2>3. \A r : Rank(r)' = Rank(r)
    BY <2>1 DEF Rank, Retained, Precedes
  <2> QED BY <1>1, <2>2, <2>3 DEF SelectBatch
<1>2. CASE UNCHANGED vars
  <2>1. UNCHANGED <<order, attempt, batch, pc>>
    BY <1>2 DEF vars, table
  <2>2. Retained' = Retained
    BY <2>1 DEF Retained
  <2>3. \A r : Rank(r)' = Rank(r)
    BY <2>1 DEF Rank, Retained, Precedes
  <2> QED BY <2>1, <2>2, <2>3 DEF IInv, BatchIsFront
<1>3. ASSUME Next, ~SelectBatch PROVE FALSE
  <2>1. ASSUME NEW t \in 1..MaxClock, StartCycle(t) PROVE FALSE
    BY <2>1 DEF StartCycle
  <2>2. ASSUME NEW found \in SUBSET References, Discover(found) \/ DiscoveryRefused(found)
        PROVE  FALSE
    BY <2>2 DEF Discover, DiscoveryRefused
  <2>3. CASE DiscoveryFails \/ Stop \/ Restart
    BY <2>3 DEF DiscoveryFails, Stop, Restart
  <2>4. CASE SkipRefresh \/ Record \/ RecordRefused
    BY <2>4 DEF SkipRefresh, Record, RecordRefused, EndedCycle
  <2> QED BY <1>3, <2>1, <2>2, <2>3, <2>4 DEF Next, Refresh
<1> QED BY <1>1, <1>2, <1>3

LEMMA WaitingStep ==
  ASSUME IInv, [Next]_vars, steady'
  PROVE  ClockAhead' /\ WaitersOlder'
<1> USE DEF table, history, Running
<1>1. \A r \in References : attempt[r] \in Int
  BY OptionAssumption DEF IInv, TypeOK, Times
<1>2. now \in Int
  BY OptionAssumption DEF IInv, TypeOK, Times
<1>3. ASSUME NEW t \in 1..MaxClock, StartCycle(t) PROVE ClockAhead' /\ WaitersOlder'
  <2>1. steady /\ t > now
    <3>1. steady' = (steady /\ t > now)
      BY <1>3 DEF StartCycle
    <3> QED BY <3>1, Zenon
  <2>2. ClockAhead /\ WaitersOlder /\ t \in Int
    BY <2>1, OptionAssumption DEF IInv
  <2>3. UNCHANGED <<order, attempt, waiting>> /\ now' = t
    BY <1>3 DEF StartCycle
  <2>4. ClockAhead'
    BY <1>1, <1>2, <2>1, <2>2, <2>3 DEF ClockAhead
  <2>5. WaitersOlder'
    BY <2>2, <2>3 DEF WaitersOlder, Retained
  <2> QED BY <2>4, <2>5
<1>4. ASSUME NEW found \in SUBSET References, Discover(found)
      PROVE  ClockAhead' /\ WaitersOlder'
  <2>1. ClockAhead /\ WaitersOlder
    BY <1>4 DEF Discover, IInv
  <2>2. UNCHANGED <<attempt, waiting, now>> /\ pc = "discover"
    BY <1>4 DEF Discover
  <2>3. ClockAhead'
    BY <2>1, <2>2 DEF ClockAhead
  <2>4. Retained \subseteq Retained'
    BY <1>4 DEF Discover, Sequenced, Retained
  <2>5. WaitersOlder'
    BY <2>1, <2>2, <2>4 DEF WaitersOlder
  <2> QED BY <2>3, <2>5
<1>5. CASE Record
  <2>1. ClockAhead /\ WaitersOlder
    BY <1>5 DEF Record, IInv
  <2>2. UNCHANGED <<order, now>> /\ pc = "refresh" /\ pc' = "idle"
    BY <1>5 DEF Record, EndedCycle
  <2>3. Retained' = Retained
    BY <2>2 DEF Retained
  <2>4. \A r \in References : attempt'[r] = IF r \in batch THEN now ELSE attempt[r]
    BY <1>5 DEF Record
  <2>5. ClockAhead'
    BY <1>1, <1>2, <2>1, <2>2, <2>4 DEF ClockAhead
  <2>6. ASSUME NEW r \in References, NEW q \in waiting'[r]
        PROVE  q \in Retained /\ attempt'[q] < attempt'[r]
    <3>1. q \in (IF r \in batch THEN Retained ELSE waiting[r]) \ batch
      BY <1>5, <2>6 DEF Record
    <3>2. q \in Retained /\ q \in References
      BY <2>1, <3>1 DEF WaitersOlder, Retained
    <3>3. attempt'[q] = attempt[q]
      BY <2>4, <3>1, <3>2
    <3>4. CASE r \in batch
      BY <2>1, <2>2, <2>4, <3>2, <3>3, <3>4 DEF ClockAhead
    <3>5. CASE r \notin batch
      BY <2>1, <2>4, <3>1, <3>2, <3>3, <3>5 DEF WaitersOlder
    <3> QED BY <3>2, <3>4, <3>5
  <2>7. WaitersOlder'
    BY <2>3, <2>6 DEF WaitersOlder
  <2> QED BY <2>5, <2>7
<1>6. ASSUME UNCHANGED <<order, attempt, waiting, now, steady>>,
             pc' \in Running => pc \in Running
      PROVE  ClockAhead' /\ WaitersOlder'
  <2>1. ClockAhead /\ WaitersOlder
    BY <1>6 DEF IInv
  <2>2. ClockAhead'
    BY <1>6, <2>1 DEF ClockAhead
  <2>3. WaitersOlder'
    BY <1>6, <2>1 DEF WaitersOlder, Retained
  <2> QED BY <2>2, <2>3
<1>7. CASE Next
  <2>1. ASSUME NEW found \in SUBSET References, DiscoveryRefused(found)
        PROVE  ClockAhead' /\ WaitersOlder'
    BY <1>6, <2>1 DEF DiscoveryRefused
  <2>2. CASE DiscoveryFails
    BY <1>6, <2>2 DEF DiscoveryFails
  <2>3. CASE SelectBatch
    BY <1>6, <2>3 DEF SelectBatch
  <2>4. CASE SkipRefresh
    BY <1>6, <2>4 DEF SkipRefresh, EndedCycle
  <2>5. CASE RecordRefused
    BY <1>6, <2>5 DEF RecordRefused
  <2>6. CASE Stop
    BY <1>6, <2>6 DEF Stop
  <2>7. CASE Restart
    BY <1>6, <2>7 DEF Restart
  <2> QED BY <1>3, <1>4, <1>5, <1>7, <2>1, <2>2, <2>3, <2>4, <2>5, <2>6, <2>7
          DEF Next, Refresh
<1>8. CASE UNCHANGED vars
  BY <1>6, <1>8 DEF vars
<1> QED BY <1>7, <1>8

LEMMA WaitingInv == Spec => []IInv
<1>1. IInv /\ [Next]_vars => IInv'
  BY TypeStep, BatchIsFrontStep, WaitingStep DEF IInv
<1> QED BY <1>1, WaitingInit, PTL DEF Spec

\* The batch is a front of the order: what has an older attempt than one of its
\* members is a member.
LEMMA FrontIsClosed ==
  ASSUME TypeOK, NEW r \in Retained, Rank(r) < BatchSize,
         NEW q \in Retained, attempt[q] < attempt[r]
  PROVE  Rank(q) < BatchSize
<1> DEFINE Ahead(p) == {o \in Retained : Precedes(o, p)}
<1>1. IsFiniteSet(Retained)
  BY ReferenceAssumption, FS_Subset DEF Retained
<1>2. \A o \in Retained : attempt[o] \in Int
  BY OptionAssumption DEF TypeOK, Times, Retained
<1>3. Ahead(q) \subseteq Ahead(r)
  BY <1>2 DEF Precedes
<1>4. IsFiniteSet(Ahead(r)) /\ IsFiniteSet(Ahead(q))
  BY <1>1, FS_Subset
<1>5. Cardinality(Ahead(q)) <= Cardinality(Ahead(r))
  BY <1>3, <1>4, FS_Subset
<1>6. Cardinality(Ahead(q)) \in Nat /\ Cardinality(Ahead(r)) \in Nat
  BY <1>4, FS_CardinalityType
<1>7. Rank(q) = Cardinality(Ahead(q)) /\ Rank(r) = Cardinality(Ahead(r))
  BY DEF Rank
<1> HIDE DEF Ahead
<1> QED BY <1>5, <1>6, <1>7, OptionAssumption

\* Under a clock that does not step back no reference overtakes one that was
\* waiting before it (list_refresh_batch).
THEOREM RotationFair == Spec => []NoneOvertaken
<1>1. IInv => NoneOvertaken
  <2> SUFFICES ASSUME IInv, steady, pc = "refresh",
                      NEW r \in batch, NEW q \in waiting[r]
               PROVE  q \in batch
    BY DEF NoneOvertaken
  <2>1. r \in Retained /\ Rank(r) < BatchSize
    BY DEF IInv, BatchIsFront
  <2>2. q \in Retained /\ attempt[q] < attempt[r]
    BY <2>1 DEF IInv, WaitersOlder, Retained
  <2>3. Rank(q) < BatchSize
    BY <2>1, <2>2, FrontIsClosed DEF IInv
  <2> QED BY <2>2, <2>3 DEF IInv, BatchIsFront
<1> QED BY <1>1, WaitingInv, PTL

-------------------------------------------------------------------------------
(* The order of the references as a queue.  The facts about ranks are      *)
(* stated for any finite set in any strict order, so that they hold before *)
(* and after a step.                                                       *)

\* Precedes for any times a and sequence numbers o.
Sooner(a, o, q, r) == a[q] < a[r] \/ (a[q] = a[r] /\ o[q] < o[r])

Ahead(R, a, o, r) == {q \in R : Sooner(a, o, q, r)}

Place(R, a, o, r) == Cardinality(Ahead(R, a, o, r))

\* The references are told apart by their sequence numbers.
Ordered(R, a, o) ==
  /\ IsFiniteSet(R)
  /\ \A r \in R : a[r] \in Int /\ o[r] \in Int
  /\ \A q, r \in R : o[q] = o[r] => q = r

Line(R, a, o) ==
  [i \in 1..Cardinality(R) |-> CHOOSE r \in R : Place(R, a, o, r) = i - 1]

\* Counts of disjoint sets add up, and those of parts subtract.
LEMMA CountsAdd ==
  ASSUME NEW S, NEW T, IsFiniteSet(S), IsFiniteSet(T), S \cap T = {}
  PROVE  /\ IsFiniteSet(S \cup T)
         /\ Cardinality(S \cup T) = Cardinality(S) + Cardinality(T)
<1>1. IsFiniteSet(S \cup T)
      /\ Cardinality(S \cup T) = Cardinality(S) + Cardinality(T) - Cardinality(S \cap T)
  BY FS_Union
<1>2. Cardinality(S \cap T) = 0
  BY FS_EmptySet
<1>3. Cardinality(S) \in Nat /\ Cardinality(T) \in Nat
  BY FS_CardinalityType
<1> QED BY <1>1, <1>2, <1>3

LEMMA CountsSubtract ==
  ASSUME NEW S, NEW T \in SUBSET S, IsFiniteSet(S)
  PROVE  /\ IsFiniteSet(T) /\ IsFiniteSet(S \ T)
         /\ Cardinality(S) \in Nat /\ Cardinality(T) \in Nat
         /\ Cardinality(T) <= Cardinality(S)
         /\ Cardinality(S \ T) = Cardinality(S) - Cardinality(T)
<1>1. IsFiniteSet(T) /\ Cardinality(T) <= Cardinality(S)
  BY FS_Subset
<1>2. IsFiniteSet(S \ T)
  BY FS_Difference
<1>3. (S \ T) \cap T = {} /\ (S \ T) \cup T = S
  OBVIOUS
<1>4. Cardinality((S \ T) \cup T) = Cardinality(S \ T) + Cardinality(T)
  BY <1>1, <1>2, <1>3, CountsAdd
<1>5. Cardinality(S) = Cardinality(S \ T) + Cardinality(T)
  BY <1>3, <1>4
<1>6. Cardinality(S) \in Nat /\ Cardinality(T) \in Nat /\ Cardinality(S \ T) \in Nat
  BY <1>1, <1>2, FS_CardinalityType
<1> QED BY <1>1, <1>2, <1>5, <1>6

\* A place is the number of references ahead.
LEMMA PlaceType ==
  ASSUME NEW R, NEW a, NEW o, Ordered(R, a, o), NEW r \in R
  PROVE  Place(R, a, o, r) \in Nat /\ Place(R, a, o, r) < Cardinality(R)
<1> DEFINE A == Ahead(R, a, o, r)
<1>1. A \subseteq R /\ r \notin A
  BY DEF Ahead, Sooner, Ordered
<1>2. IsFiniteSet(R)
  BY DEF Ordered
<1> HIDE DEF A
<1>3. IsFiniteSet(A) /\ Cardinality(A) <= Cardinality(R)
      /\ (Cardinality(R) = Cardinality(A) => R = A)
  BY <1>1, <1>2, FS_Subset
<1>4. Cardinality(A) \in Nat /\ Cardinality(R) \in Nat
  BY <1>2, <1>3, FS_CardinalityType
<1>5. R # A
  BY <1>1
<1>6. Cardinality(A) < Cardinality(R)
  BY <1>3, <1>4, <1>5
<1> QED BY <1>4, <1>6 DEF A, Place

\* What is sooner has a smaller place.
LEMMA PlaceRises ==
  ASSUME NEW R, NEW a, NEW o, Ordered(R, a, o), NEW q \in R, NEW r \in R,
         Sooner(a, o, q, r)
  PROVE  Place(R, a, o, q) < Place(R, a, o, r)
<1> DEFINE A == Ahead(R, a, o, q)
           B == Ahead(R, a, o, r)
<1>1. A \subseteq B /\ q \in B /\ q \notin A
  BY DEF Ahead, Sooner, Ordered
<1>2. IsFiniteSet(B)
  <2>1. B \subseteq R /\ IsFiniteSet(R)
    BY DEF Ahead, Ordered
  <2> QED BY <2>1, FS_Subset
<1> HIDE DEF A, B
<1>3. IsFiniteSet(A) /\ Cardinality(A) <= Cardinality(B)
      /\ (Cardinality(B) = Cardinality(A) => B = A)
  BY <1>1, <1>2, FS_Subset
<1>4. Cardinality(A) \in Nat /\ Cardinality(B) \in Nat
  BY <1>2, <1>3, FS_CardinalityType
<1>5. Cardinality(A) < Cardinality(B)
  BY <1>1, <1>3, <1>4
<1> QED BY <1>5 DEF A, B, Place

\* Places order the references and tell them apart.
LEMMA PlaceTells ==
  ASSUME NEW R, NEW a, NEW o, Ordered(R, a, o), NEW q \in R, NEW r \in R
  PROVE  /\ Sooner(a, o, q, r) <=> Place(R, a, o, q) < Place(R, a, o, r)
         /\ Place(R, a, o, q) = Place(R, a, o, r) => q = r
<1>1. Sooner(a, o, q, r) \/ Sooner(a, o, r, q) \/ q = r
  BY DEF Sooner, Ordered
<1>2. Place(R, a, o, q) \in Nat /\ Place(R, a, o, r) \in Nat
  BY PlaceType
<1>3. Sooner(a, o, q, r) => Place(R, a, o, q) < Place(R, a, o, r)
  BY PlaceRises
<1>4. Sooner(a, o, r, q) => Place(R, a, o, r) < Place(R, a, o, q)
  BY PlaceRises
<1> HIDE DEF Place
<1> QED BY <1>1, <1>2, <1>3, <1>4

\* Every place up to the number of references is taken.
LEMMA PlacesTaken ==
  ASSUME NEW R, NEW a, NEW o, Ordered(R, a, o), NEW i \in 1..Cardinality(R)
  PROVE  \E r \in R : Place(R, a, o, r) = i - 1
<1> DEFINE N == 1..Cardinality(R)
           f == [r \in R |-> Place(R, a, o, r) + 1]
<1>1. IsFiniteSet(R) /\ Cardinality(R) \in Nat
  BY FS_CardinalityType DEF Ordered
<1>2. \A r \in R : Place(R, a, o, r) + 1 \in N
  BY PlaceType, <1>1
<1>3. \A q, r \in R : f[q] = f[r] => q = r
  BY PlaceTells, PlaceType
<1>4. f \in Injection(R, N)
  BY <1>2, <1>3 DEF Injection, IsInjective
<1>5. IsFiniteSet(N) /\ Cardinality(N) = Cardinality(R)
  BY <1>1, FS_Interval
<1>6. f \in Surjection(R, N)
  <2> HIDE DEF f, N
  <2> QED BY <1>4, <1>5, FS_Injection
<1>7. PICK r \in R : f[r] = i
  BY <1>6 DEF Surjection
<1> QED BY <1>7, PlaceType

\* The line is a sequence of the references, each at its place.
LEMMA LineLists ==
  ASSUME NEW R, NEW a, NEW o, Ordered(R, a, o)
  PROVE  /\ Cardinality(R) \in Nat
         /\ Line(R, a, o) \in Seq(R) /\ Len(Line(R, a, o)) = Cardinality(R)
         /\ \A i \in 1..Cardinality(R) :
              Line(R, a, o)[i] \in R /\ Place(R, a, o, Line(R, a, o)[i]) = i - 1
         /\ \A r \in R : \A i \in 1..Cardinality(R) :
              Place(R, a, o, r) = i - 1 => Line(R, a, o)[i] = r
<1>1. Cardinality(R) \in Nat
  BY FS_CardinalityType DEF Ordered
<1>2. ASSUME NEW i \in 1..Cardinality(R)
      PROVE  Line(R, a, o)[i] \in R /\ Place(R, a, o, Line(R, a, o)[i]) = i - 1
  <2>1. \E r \in R : Place(R, a, o, r) = i - 1
    BY PlacesTaken
  <2> QED BY <2>1 DEF Line
<1>3. Line(R, a, o) \in [1..Cardinality(R) -> R]
  BY <1>2 DEF Line
<1>4. Line(R, a, o) \in Seq(R) /\ Len(Line(R, a, o)) = Cardinality(R)
  BY <1>1, <1>3
<1>5. ASSUME NEW r \in R, NEW i \in 1..Cardinality(R), Place(R, a, o, r) = i - 1
      PROVE  Line(R, a, o)[i] = r
  BY <1>2, <1>5, PlaceTells
<1> QED BY <1>1, <1>2, <1>4, <1>5

\* The abstract module counts as this one does.
LEMMA QueueCounts == \A set : Queue!Cardinality(set) = Cardinality(set)
  BY DEF Queue!Cardinality, Cardinality

\* The references in the first k places.
Front(R, a, o, k) == {r \in R : Place(R, a, o, r) < k}

\* The first k elements of the line are the references in the first k places.
LEMMA FrontCounts ==
  ASSUME NEW R, NEW a, NEW o, Ordered(R, a, o), NEW k \in 0..Cardinality(R)
  PROVE  /\ Cardinality(Front(R, a, o, k)) = k
         /\ Queue!Elements(SubSeq(Line(R, a, o), 1, k)) = Front(R, a, o, k)
<1> DEFINE front == {r \in R : Place(R, a, o, r) < k}
           line == Line(R, a, o)
           f == [i \in 1..k |-> line[i]]
<1>1. /\ Cardinality(R) \in Nat /\ line \in Seq(R) /\ Len(line) = Cardinality(R)
      /\ \A i \in 1..Cardinality(R) : line[i] \in R /\ Place(R, a, o, line[i]) = i - 1
      /\ \A r \in R : \A i \in 1..Cardinality(R) :
           Place(R, a, o, r) = i - 1 => line[i] = r
  BY LineLists
<1>2. \A r \in R : Place(R, a, o, r) \in Nat
  BY PlaceType
<1> HIDE DEF line
<1>3. \A i \in 1..k : line[i] \in front
  BY <1>1
<1>4. \A r \in front : Place(R, a, o, r) + 1 \in 1..k /\ line[Place(R, a, o, r) + 1] = r
  BY <1>1, <1>2
<1>5. \A i, j \in 1..k : line[i] = line[j] => i = j
  BY <1>1
<1>6. f \in Injection(1..k, front)
  BY <1>3, <1>5 DEF Injection, IsInjective
<1>7. f \in Surjection(1..k, front)
  BY <1>3, <1>4 DEF Surjection
<1>8. IsFiniteSet(1..k) /\ Cardinality(1..k) = k
  BY <1>1, FS_Interval
<1>9. Cardinality(front) = k
  <2> HIDE DEF f, front
  <2> QED BY <1>6, <1>7, <1>8, FS_Surjection
<1>10. SubSeq(line, 1, k) \in Seq(R) /\ Len(SubSeq(line, 1, k)) = k
       /\ \A i \in 1..k : SubSeq(line, 1, k)[i] = line[i]
  BY <1>1
<1>11. Queue!Elements(SubSeq(line, 1, k)) = front
  <2>1. DOMAIN SubSeq(line, 1, k) = 1..k
    BY <1>10
  <2> QED BY <1>3, <1>4, <1>10, <2>1 DEF Queue!Elements
<1> QED BY <1>9, <1>11 DEF line, Front

\* A stretch of the line lists the references whose places it covers.
LEMMA StretchLists ==
  ASSUME NEW R, NEW a, NEW o, Ordered(R, a, o), NEW part \in SUBSET R,
         NEW k \in Nat, k + Cardinality(part) <= Cardinality(R),
         \A r \in R : r \in part
           <=> k <= Place(R, a, o, r) /\ Place(R, a, o, r) < k + Cardinality(part)
  PROVE  SubSeq(Line(R, a, o), k + 1, k + Cardinality(part)) \in Queue!Listings(part)
<1> DEFINE line == Line(R, a, o)
           m == Cardinality(part)
           seq == SubSeq(line, k + 1, k + m)
<1>1. /\ Cardinality(R) \in Nat /\ line \in Seq(R) /\ Len(line) = Cardinality(R)
      /\ \A i \in 1..Cardinality(R) : line[i] \in R /\ Place(R, a, o, line[i]) = i - 1
      /\ \A r \in R : \A i \in 1..Cardinality(R) :
           Place(R, a, o, r) = i - 1 => line[i] = r
  BY LineLists
<1>2. \A r \in R : Place(R, a, o, r) \in Nat
  BY PlaceType
<1>3. m \in Nat
  BY FS_Subset, FS_CardinalityType DEF Ordered
<1> HIDE DEF line, m
<1>4. k + m <= Cardinality(R)
  BY DEF m
<1>5. ASSUME NEW i \in 1..m PROVE line[k + i] \in part
  <2>1. k + i \in 1..Cardinality(R)
    BY <1>1, <1>3, <1>4
  <2>2. line[k + i] \in R /\ Place(R, a, o, line[k + i]) = (k + i) - 1
    BY <1>1, <2>1
  <2>3. k <= (k + i) - 1 /\ (k + i) - 1 < k + m
    BY <1>3
  <2> QED BY <2>2, <2>3 DEF m
<1>6. ASSUME NEW r \in part
      PROVE  \E i \in 1..m : line[k + i] = r
  <2> DEFINE p == Place(R, a, o, r)
  <2>1. r \in R /\ p \in Nat /\ k <= p /\ p < k + m
    BY <1>2 DEF m
  <2> HIDE DEF p
  <2>2. p + 1 \in 1..Cardinality(R) /\ p = (p + 1) - 1
    BY <1>1, <1>3, <1>4, <2>1
  <2>3. line[p + 1] = r
    BY <1>1, <2>1, <2>2 DEF p
  <2>4. (p + 1) - k \in 1..m /\ k + ((p + 1) - k) = p + 1
    BY <1>3, <2>1
  <2> QED BY <2>3, <2>4
<1>7. seq \in Seq(R) /\ Len(seq) = m /\ \A i \in 1..m : seq[i] = line[k + i]
  <2>1. k + 1 \in 1..(Len(line) + 1) /\ k + m \in k..Len(line) /\ k + m \in Nat
    BY <1>1, <1>3, <1>4
  <2>2. \A i \in (k + 1)..(k + m) : i \in 1..Cardinality(R)
    BY <1>1, <1>3, <1>4
  <2>3. \A i \in (k + 1)..(k + m) : line[i] \in R
    BY <1>1, <2>2
  <2>4. Len(seq) = m /\ \A i \in 1..m : seq[i] = line[k + i]
    BY <1>1, <1>3, <2>1
  <2>5. seq \in Seq(R)
    BY <1>1, <1>3, <2>1, <2>3
  <2> QED BY <2>4, <2>5
<1> HIDE DEF seq
<1>8. seq \in [1..m -> part]
  <2>1. DOMAIN seq = 1..m /\ seq = [i \in DOMAIN seq |-> seq[i]]
    BY <1>7
  <2>2. \A i \in 1..m : seq[i] \in part
    BY <1>5, <1>7
  <2> QED BY <2>1, <2>2
<1>9. Queue!Elements(seq) = part
  <2>1. DOMAIN seq = 1..m
    BY <1>8
  <2>2. Queue!Elements(seq) = {seq[i] : i \in 1..m}
    BY <2>1 DEF Queue!Elements
  <2>3. \A i \in 1..m : seq[i] \in part
    BY <1>5, <1>7
  <2>4. \A r \in part : \E i \in 1..m : seq[i] = r
    BY <1>6, <1>7
  <2> QED BY <2>2, <2>3, <2>4
<1>10. seq \in Queue!Listings(part)
  BY <1>8, <1>9, QueueCounts DEF Queue!Listings, m
<1> QED BY <1>10 DEF seq, line, m

\* The m elements of t behind the first k of s, in between the two parts of s.
Splice(s, t, k, m) ==
  SubSeq(s, 1, k) \o SubSeq(t, k + 1, k + m) \o SubSeq(s, k + 1, Len(s))

\* A sequence that keeps the elements of another on both sides of a gap.
LEMMA Spliced ==
  ASSUME NEW S, NEW s \in Seq(S), NEW t \in Seq(S), NEW k \in 0..Len(s), NEW m \in Nat,
         Len(t) = Len(s) + m,
         \A i \in 1..k : t[i] = s[i],
         \A i \in (k + 1)..Len(s) : t[i + m] = s[i]
  PROVE  t = Splice(s, t, k, m)
<1> DEFINE u == SubSeq(s, 1, k)
           v == SubSeq(t, k + 1, k + m)
           w == SubSeq(s, k + 1, Len(s))
<1>1. u \in Seq(S) /\ Len(u) = k /\ \A i \in 1..k : u[i] = s[i]
  OBVIOUS
<1>2. v \in Seq(S) /\ Len(v) = m /\ \A i \in 1..m : v[i] = t[k + i]
  OBVIOUS
<1>3. w \in Seq(S) /\ Len(w) = Len(s) - k /\ \A i \in 1..(Len(s) - k) : w[i] = s[k + i]
  OBVIOUS
<1>4. Len(s) \in Nat /\ Len(t) \in Nat
  OBVIOUS
<1> HIDE DEF u, v, w
<1>5. u \o v \in Seq(S) /\ Len(u \o v) = k + m
      /\ \A i \in 1..(k + m) : (u \o v)[i] = IF i <= k THEN u[i] ELSE v[i - k]
  <2>1. /\ u \o v \in Seq(S) /\ Len(u \o v) = Len(u) + Len(v)
        /\ \A i \in 1..(Len(u) + Len(v)) :
             (u \o v)[i] = IF i <= Len(u) THEN u[i] ELSE v[i - Len(u)]
    BY <1>1, <1>2, ConcatProperties
  <2>2. Len(u) = k /\ Len(v) = m
    BY <1>1, <1>2
  <2> QED BY <2>1, <2>2
<1> DEFINE uv == u \o v
<1> HIDE DEF uv
<1> DEFINE uvw == uv \o w
<1> HIDE DEF uvw
<1>6. uvw \in Seq(S) /\ Len(uvw) = Len(t)
      /\ \A i \in 1..Len(t) : uvw[i] = IF i <= k + m THEN uv[i] ELSE w[i - (k + m)]
  <2>1. uv \in Seq(S) /\ Len(uv) = k + m
    BY <1>5 DEF uv
  <2>2. Len(uv) + Len(w) = Len(t)
    BY <1>3, <1>4, <2>1
  <2>3. /\ uvw \in Seq(S) /\ Len(uvw) = Len(uv) + Len(w)
        /\ \A i \in 1..(Len(uv) + Len(w)) :
             uvw[i] = IF i <= Len(uv) THEN uv[i] ELSE w[i - Len(uv)]
    BY <1>3, <2>1, ConcatProperties DEF uvw
  <2> QED BY <2>1, <2>2, <2>3
<1>7. ASSUME NEW i \in 1..Len(t) PROVE t[i] = uvw[i]
  <2>1. CASE i <= k
    <3>1. uv[i] = u[i]
      BY <1>5, <2>1 DEF uv
    <3> QED BY <1>1, <1>6, <2>1, <3>1
  <2>2. CASE k < i /\ i <= k + m
    <3>1. uv[i] = v[i - k]
      BY <1>5, <2>2 DEF uv
    <3>2. v[i - k] = t[k + (i - k)]
      BY <1>2, <2>2
    <3> QED BY <1>6, <2>2, <3>1, <3>2
  <2>3. CASE k + m < i
    <3> DEFINE j == i - (k + m)
    <3>0. j \in 1..(Len(s) - k)
      BY <1>4, <2>3
    <3>1. w[i - (k + m)] = s[k + (i - (k + m))]
      <4> HIDE DEF j
      <4>1. w[j] = s[k + j]
        BY <1>3, <3>0
      <4> QED BY <4>1 DEF j
    <3>2. i - m \in (k + 1)..Len(s) /\ k + (i - (k + m)) = i - m /\ (i - m) + m = i
      BY <1>4, <2>3
    <3>3. t[(i - m) + m] = s[i - m]
      BY <3>2
    <3>4. uvw[i] = w[i - (k + m)]
      BY <1>4, <1>6, <2>3
    <3>5. t[i] = s[i - m]
      BY <3>2, <3>3
    <3> QED BY <3>1, <3>2, <3>4, <3>5
  <2> QED BY <2>1, <2>2, <2>3, <1>4
<1>8. t = uvw
  BY <1>6, <1>7, SeqEqual
<1> QED BY <1>8 DEF uvw, uv, u, v, w, Splice

\* Retaining more references, none of them tried and all with later sequence
\* numbers, lines them up behind the untried ones.
Joined(line, line2, k, new) ==
  \E seq \in Queue!Listings(new) :
    line2 = SubSeq(line, 1, k) \o seq \o SubSeq(line, k + 1, Len(line))

LEMMA DiscoveredLine ==
  ASSUME NEW R, NEW a, NEW o, Ordered(R, a, o),
         NEW R2, NEW o2, Ordered(R2, a, o2), R \subseteq R2,
         \A r \in R2 : a[r] >= 0, \A r \in R2 \ R : a[r] = 0,
         \A r \in R : o2[r] = o[r],
         \A q \in R : \A r \in R2 \ R : o[q] < o2[r]
  PROVE  Joined(Line(R, a, o), Line(R2, a, o2), Cardinality({r \in R : a[r] = 0}), R2 \ R)
<1> DEFINE U == {r \in R : a[r] = 0}
           N == R2 \ R
           k == Cardinality(U)
           m == Cardinality(N)
           line == Line(R, a, o)
           line2 == Line(R2, a, o2)
           old(r) == Place(R, a, o, r)
           new(r) == Place(R2, a, o2, r)
<1>1. /\ IsFiniteSet(R) /\ IsFiniteSet(R2) /\ IsFiniteSet(U) /\ IsFiniteSet(N)
      /\ k \in Nat /\ m \in Nat /\ k <= Cardinality(R)
      /\ Cardinality(R) \in Nat /\ Cardinality(R2) = Cardinality(R) + m
  <2>1. IsFiniteSet(R) /\ IsFiniteSet(R2)
    BY DEF Ordered
  <2>2. U \in SUBSET R /\ R \in SUBSET R2
    OBVIOUS
  <2> HIDE DEF U
  <2>3. IsFiniteSet(U) /\ k \in Nat /\ k <= Cardinality(R) /\ Cardinality(R) \in Nat
    BY <2>1, <2>2, CountsSubtract
  <2>4. IsFiniteSet(N) /\ m = Cardinality(R2) - Cardinality(R)
        /\ Cardinality(R2) \in Nat /\ Cardinality(R) <= Cardinality(R2)
    BY <2>1, <2>2, CountsSubtract
  <2> HIDE DEF N, k, m
  <2> QED BY <2>1, <2>3, <2>4
<1>2. \A r \in R2 : a[r] \in Int /\ o2[r] \in Int
  BY DEF Ordered
<1>3. \A r \in R : o[r] \in Int
  BY DEF Ordered
<1>4. \A r \in R : old(r) \in Nat /\ old(r) < Cardinality(R)
  BY PlaceType
<1>5. \A r \in R2 : new(r) \in Nat /\ new(r) < Cardinality(R2)
  BY PlaceType
<1>6. ASSUME NEW r \in U PROVE new(r) = old(r) /\ old(r) < k
  <2>1. Ahead(R2, a, o2, r) = Ahead(R, a, o, r)
    BY <1>2, <1>3 DEF Ahead, Sooner
  <2>2. Ahead(R, a, o, r) \subseteq U \ {r}
    BY <1>2, <1>3 DEF Ahead, Sooner
  <2>3. IsFiniteSet(U \ {r}) /\ Cardinality(U \ {r}) = k - 1
    <3> HIDE DEF U
    <3> QED BY <1>1, FS_RemoveElement
  <2>4. old(r) <= k - 1
    BY <2>2, <2>3, FS_Subset DEF Place
  <2> QED BY <1>1, <1>4, <2>1, <2>4 DEF Place
<1>7. ASSUME NEW r \in R \ U PROVE new(r) = old(r) + m /\ k <= old(r)
  <2>1. Ahead(R2, a, o2, r) = Ahead(R, a, o, r) \cup N
    BY <1>2, <1>3 DEF Ahead, Sooner
  <2>2. U \subseteq Ahead(R, a, o, r) /\ Ahead(R, a, o, r) \subseteq R
    BY <1>2, <1>3 DEF Ahead, Sooner
  <2>3. IsFiniteSet(Ahead(R, a, o, r)) /\ k <= old(r)
    BY <1>1, <2>2, FS_Subset DEF Place
  <2>4. Ahead(R, a, o, r) \cap N = {}
    BY <2>2
  <2>5. Cardinality(Ahead(R, a, o, r) \cup N) = old(r) + m
    BY <1>1, <2>3, <2>4, CountsAdd DEF Place
  <2> QED BY <2>1, <2>3, <2>5 DEF Place
<1>8. ASSUME NEW r \in N PROVE k <= new(r) /\ new(r) < k + m
  <2>1. U \subseteq Ahead(R2, a, o2, r)
    BY <1>2, <1>3 DEF Ahead, Sooner
  <2>2. Ahead(R2, a, o2, r) \subseteq (U \cup N) \ {r}
    BY <1>2, <1>3 DEF Ahead, Sooner
  <2>3. r \in U \cup N /\ U \cap N = {}
    OBVIOUS
  <2> HIDE DEF U, N
  <2>4. IsFiniteSet(U \cup N) /\ Cardinality(U \cup N) = k + m
    BY <1>1, <2>3, CountsAdd
  <2>5. IsFiniteSet((U \cup N) \ {r}) /\ Cardinality((U \cup N) \ {r}) = k + m - 1
    <3> DEFINE W == U \cup N
    <3>1. r \in W /\ IsFiniteSet(W) /\ Cardinality(W) = k + m
      BY <2>3, <2>4
    <3> HIDE DEF W, k, m
    <3>2. IsFiniteSet(W \ {r}) /\ Cardinality(W \ {r}) = Cardinality(W) - 1
      BY <3>1, FS_RemoveElement
    <3>3. Cardinality(W \ {r}) = k + m - 1
      BY <1>1, <3>1, <3>2
    <3> QED BY <3>2, <3>3 DEF W
  <2>6. IsFiniteSet(Ahead(R2, a, o2, r)) /\ new(r) <= k + m - 1
    BY <2>2, <2>5, FS_Subset DEF Place
  <2>7. k <= new(r)
    BY <2>1, <2>6, FS_Subset DEF Place
  <2>8. new(r) \in Nat
    BY <2>6, FS_CardinalityType DEF Place
  <2> QED BY <1>1, <2>6, <2>7, <2>8
<1>9. /\ line \in Seq(R2) /\ Len(line) = Cardinality(R)
      /\ \A i \in 1..Cardinality(R) : line[i] \in R /\ old(line[i]) = i - 1
  <2>1. line \in Seq(R)
    BY LineLists
  <2> QED BY <2>1, LineLists
<1>10. /\ line2 \in Seq(R2) /\ Len(line2) = Cardinality(R2)
       /\ \A r \in R2 : \A i \in 1..Cardinality(R2) : new(r) = i - 1 => line2[i] = r
  BY LineLists
<1>11. SubSeq(line2, k + 1, k + m) \in Queue!Listings(N)
  <2>1. \A r \in R2 : r \in N <=> k <= new(r) /\ new(r) < k + m
    BY <1>1, <1>4, <1>6, <1>7, <1>8
  <2>2. N \in SUBSET R2 /\ k + m <= Cardinality(R2)
    BY <1>1
  <2> HIDE DEF N, k
  <2> QED BY <1>1, <2>1, <2>2, StretchLists
<1> HIDE DEF U, N, k, m, line, line2, old, new
<1>12. ASSUME NEW i \in 1..k PROVE line2[i] = line[i]
  <2>1. line[i] \in R /\ old(line[i]) = i - 1
    BY <1>1, <1>9
  <2>2. line[i] \in U
    BY <1>1, <1>7, <2>1
  <2>3. new(line[i]) = i - 1 /\ i \in 1..Cardinality(R2)
    BY <1>1, <1>6, <2>1, <2>2
  <2> QED BY <1>10, <2>1, <2>3
<1>13. ASSUME NEW i \in (k + 1)..Cardinality(R) PROVE line2[i + m] = line[i]
  <2>1. line[i] \in R /\ old(line[i]) = i - 1
    BY <1>1, <1>9
  <2>2. line[i] \in R \ U
    BY <1>1, <1>6, <2>1
  <2>3. new(line[i]) = (i + m) - 1 /\ i + m \in 1..Cardinality(R2)
    BY <1>1, <1>7, <2>1, <2>2
  <2> QED BY <1>10, <2>1, <2>3
<1>14. line2 = Splice(line, line2, k, m)
  <2>1. k \in 0..Len(line) /\ m \in Nat /\ Len(line2) = Len(line) + m
    BY <1>1, <1>9, <1>10
  <2>2. \A i \in (k + 1)..Len(line) : line2[i + m] = line[i]
    BY <1>9, <1>13
  <2>3. line \in Seq(R2) /\ line2 \in Seq(R2) /\ \A i \in 1..k : line2[i] = line[i]
    BY <1>9, <1>10, <1>12
  <2> QED BY <2>1, <2>2, <2>3, Spliced
<1>15. line2 = SubSeq(line, 1, k) \o SubSeq(line2, k + 1, k + m)
               \o SubSeq(line, k + 1, Len(line))
  BY <1>14 DEF Splice
<1> QED BY <1>11, <1>15 DEF N, k, U, m, line, line2, Joined

\* Trying a front of the line later than anything before lines it up at the end.
Moved(line, line2, k, front) ==
  \E seq \in Queue!Listings(front) : line2 = SubSeq(line, k + 1, Len(line)) \o seq

LEMMA RefreshedLine ==
  ASSUME NEW R, NEW a, NEW o, Ordered(R, a, o), NEW k \in 0..Cardinality(R),
         NEW a2, Ordered(R, a2, o), NEW t \in Int, \A r \in R : a[r] < t,
         \A r \in R : a2[r] = IF Place(R, a, o, r) < k THEN t ELSE a[r]
  PROVE  Moved(Line(R, a, o), Line(R, a2, o), k, Front(R, a, o, k))
<1> DEFINE F == {r \in R : Place(R, a, o, r) < k}
           n == Cardinality(R)
           line == Line(R, a, o)
           line2 == Line(R, a2, o)
           old(r) == Place(R, a, o, r)
           new(r) == Place(R, a2, o, r)
<1>1. IsFiniteSet(R) /\ IsFiniteSet(F) /\ n \in Nat /\ Cardinality(F) = k
  <2>1. IsFiniteSet(R)
    BY DEF Ordered
  <2>2. IsFiniteSet(F)
    BY <2>1, FS_Subset
  <2> QED BY <2>1, <2>2, FS_CardinalityType, FrontCounts DEF Front
<1>2. \A r \in R : a[r] \in Int /\ o[r] \in Int
  BY DEF Ordered
<1>3. \A r \in R : old(r) \in Nat /\ old(r) < n
  BY PlaceType
<1>4. \A r \in R : new(r) \in Nat /\ new(r) < n
  BY PlaceType
<1>5. ASSUME NEW r \in R \ F PROVE new(r) = old(r) - k
  <2>1. F \subseteq Ahead(R, a, o, r)
    <3> SUFFICES ASSUME NEW q \in F PROVE Sooner(a, o, q, r)
      BY DEF Ahead
    <3>1. old(q) < old(r)
      BY <1>3
    <3> QED BY <3>1, PlaceTells
  <2>2. Ahead(R, a2, o, r) = Ahead(R, a, o, r) \ F
    <3>1. ASSUME NEW q \in R PROVE Sooner(a2, o, q, r) <=> q \notin F /\ Sooner(a, o, q, r)
      <4>1. a2[r] = a[r] /\ (q \in F => a2[q] = t) /\ (q \notin F => a2[q] = a[q])
        OBVIOUS
      <4> HIDE DEF F
      <4> QED BY <1>2, <4>1 DEF Sooner
    <3> QED BY <3>1 DEF Ahead
  <2>3. IsFiniteSet(Ahead(R, a, o, r))
    BY <1>1, FS_Subset DEF Ahead
  <2>4. Cardinality(Ahead(R, a, o, r) \ F) = old(r) - Cardinality(F)
    BY <2>1, <2>3, CountsSubtract DEF Place
  <2>5. Cardinality(Ahead(R, a, o, r) \ F) = old(r) - k
    BY <1>1, <2>4
  <2> QED BY <2>2, <2>5 DEF Place
<1>6. ASSUME NEW r \in F PROVE n - k <= new(r)
  <2>1. R \ F \subseteq Ahead(R, a2, o, r)
    <3> SUFFICES ASSUME NEW q \in R \ F PROVE Sooner(a2, o, q, r)
      BY DEF Ahead
    <3>1. a2[r] = t /\ a2[q] = a[q]
      OBVIOUS
    <3> QED BY <1>2, <3>1 DEF Sooner
  <2>2. F \in SUBSET R
    OBVIOUS
  <2>3. Cardinality(R \ F) = n - k
    <3>1. Cardinality(R \ F) = n - Cardinality(F)
      BY <1>1, <2>2, CountsSubtract
    <3> QED BY <1>1, <3>1
  <2>4. IsFiniteSet(Ahead(R, a2, o, r))
    BY <1>1, FS_Subset DEF Ahead
  <2> QED BY <2>1, <2>3, <2>4, FS_Subset DEF Place
<1>7. /\ line \in Seq(R) /\ Len(line) = n
      /\ \A i \in 1..n : line[i] \in R /\ old(line[i]) = i - 1
  BY LineLists
<1>8. /\ line2 \in Seq(R) /\ Len(line2) = n
      /\ \A r \in R : \A i \in 1..n : new(r) = i - 1 => line2[i] = r
  BY LineLists
<1>9. SubSeq(line2, (n - k) + 1, (n - k) + Cardinality(F)) \in Queue!Listings(F)
  <2>1. \A r \in R : r \in F <=> n - k <= new(r) /\ new(r) < (n - k) + Cardinality(F)
    BY <1>1, <1>3, <1>4, <1>5, <1>6
  <2>2. F \in SUBSET R /\ n - k \in Nat /\ (n - k) + Cardinality(F) <= Cardinality(R)
    BY <1>1
  <2> HIDE DEF F, n
  <2> QED BY <2>1, <2>2, StretchLists
<1> HIDE DEF F, n, line, line2, old, new
<1> DEFINE rest == SubSeq(line, k + 1, Len(line))
<1>10. rest \in Seq(R) /\ Len(rest) = n - k /\ \A i \in 1..(n - k) : rest[i] = line[k + i]
  <2>1. n \in Nat /\ k \in Nat /\ k <= n
    BY <1>1 DEF n
  <2>2. line \in Seq(R) /\ Len(line) = n
    BY <1>7
  <2>3. k + 1 \in 1..(Len(line) + 1) /\ Len(line) \in k..Len(line)
    BY <2>1, <2>2
  <2>4. \A i \in (k + 1)..Len(line) : line[i] \in R
    BY <1>7, <2>1, <2>2
  <2>5. Len(rest) = n - k /\ \A i \in 1..(n - k) : rest[i] = line[k + i]
    BY <2>1, <2>2, <2>3
  <2>6. rest \in Seq(R)
    BY <2>1, <2>2, <2>3, <2>4
  <2> QED BY <2>5, <2>6
<1>11. ASSUME NEW i \in 1..(n - k) PROVE line2[i] = rest[i]
  <2>1. line[k + i] \in R /\ old(line[k + i]) = (k + i) - 1
    BY <1>1, <1>7 DEF n
  <2>2. line[k + i] \in R \ F
    BY <1>1, <2>1 DEF F, old
  <2>3. new(line[k + i]) = i - 1 /\ i \in 1..n
    BY <1>1, <1>5, <2>1, <2>2
  <2> QED BY <1>8, <1>10, <2>1, <2>3
<1> HIDE DEF rest
<1>12. line2 = SubSeq(rest, 1, n - k) \o SubSeq(line2, (n - k) + 1, (n - k) + k)
              \o SubSeq(rest, (n - k) + 1, Len(rest))
  <2>1. n - k \in 0..Len(rest) /\ k \in Nat /\ Len(line2) = Len(rest) + k
    BY <1>1, <1>8, <1>10 DEF n
  <2>2. \A i \in ((n - k) + 1)..Len(rest) : line2[i + k] = rest[i]
    BY <1>1, <1>10 DEF n
  <2>3. \A i \in 1..(n - k) : line2[i] = rest[i]
    BY <1>11
  <2> DEFINE j == n - k
  <2>4. j \in 0..Len(rest) /\ \A i \in 1..j : line2[i] = rest[i]
    BY <2>1, <2>3
  <2>5. \A i \in (j + 1)..Len(rest) : line2[i + k] = rest[i]
    BY <2>2
  <2> HIDE DEF j
  <2>6. line2 = Splice(rest, line2, j, k)
    <3>1. rest \in Seq(R) /\ line2 \in Seq(R)
      BY <1>8, <1>10
    <3>2. k \in Nat /\ Len(line2) = Len(rest) + k
      BY <2>1
    <3> QED BY <2>4, <2>5, <3>1, <3>2, Spliced
  <2>7. line2 = SubSeq(rest, 1, j) \o SubSeq(line2, j + 1, j + k)
               \o SubSeq(rest, j + 1, Len(rest))
    BY <2>6 DEF Splice
  <2> QED BY <2>7 DEF j
<1>13. SubSeq(rest, 1, n - k) = rest
  BY <1>10, SubSeqFull
<1>14. SubSeq(rest, (n - k) + 1, Len(rest)) = << >>
  BY <1>1, <1>10, SubSeqEmpty
<1> DEFINE seq == SubSeq(line2, (n - k) + 1, (n - k) + k)
<1>15. seq \in Seq(R)
  <2>1. \A i \in ((n - k) + 1)..((n - k) + k) : line2[i] \in R
    BY <1>1, <1>8 DEF n
  <2>2. (n - k) + 1 \in Int /\ (n - k) + k \in Int
    BY <1>1 DEF n
  <2> QED BY <2>1, <2>2, SubSeqProperties
<1> HIDE DEF seq
<1>16. rest \o seq \in Seq(R)
  BY <1>10, <1>15, ConcatProperties
<1>17. (rest \o seq) \o << >> = rest \o seq
  BY <1>16, ConcatEmptySeq
<1>18. line2 = rest \o seq
  BY <1>12, <1>13, <1>14, <1>17 DEF seq
<1>19. seq \in Queue!Listings(F)
  BY <1>1, <1>9 DEF seq
<1> QED BY <1>18, <1>19 DEF F, line, line2, rest, Moved, Front

\* The sequence numbers tell the retained references apart and run up to their
\* number; nobody else was ever tried.
Numbered ==
  /\ \A q, r \in Retained : order[q] = order[r] => q = r
  /\ \A r \in Retained : order[r] <= Cardinality(Retained)
  /\ \A r \in References \ Retained : attempt[r] = 0
  /\ pc = "refresh" => Retained # {}

\* Retained references are finitely many and all numbers natural ones.
LEMMA RetainedCount ==
  ASSUME TypeOK
  PROVE  /\ IsFiniteSet(Retained) /\ Cardinality(Retained) \in Nat
         /\ \A r \in Retained : order[r] \in Nat \ {0} /\ attempt[r] \in Nat
         /\ \A r \in References : order[r] \in Nat /\ attempt[r] \in Nat
<1>1. IsFiniteSet(Retained)
  BY ReferenceAssumption, FS_Subset DEF Retained
<1>2. Cardinality(Retained) \in Nat /\ Cardinality(References) \in Nat
  BY <1>1, ReferenceAssumption, FS_CardinalityType
<1>3. \A r \in References : order[r] \in Nat /\ attempt[r] \in Nat
  BY <1>2, OptionAssumption DEF TypeOK, Sequences, Times
<1> QED BY <1>1, <1>2, <1>3 DEF Retained

\* A discovery numbers the new references on, each with a number of its own.
LEMMA DiscoveryNumbers ==
  ASSUME TypeOK, Numbered, NEW found \in SUBSET References, Discover(found)
  PROVE  LET new == found \ Retained
         IN  /\ Retained' = Retained \cup new
             /\ Cardinality(Retained') = Cardinality(Retained) + Cardinality(new)
             /\ \A r \in Retained : order'[r] = order[r]
             /\ \A r \in new : order'[r] > Cardinality(Retained)
             /\ \A q, r \in Retained' : order'[q] = order'[r] => q = r
             /\ \A r \in Retained' : order'[r] <= Cardinality(Retained')
             /\ \A r \in Retained' : order'[r] \in Int
<1> DEFINE new == found \ Retained
           c == Cardinality(Retained)
           m == Cardinality(new)
           f == [r \in new |-> order'[r]]
<1>1. /\ order' \in [References -> Sequences]
      /\ \A r \in References \ new : order'[r] = order[r]
      /\ {order'[r] : r \in new} = (c + 1)..(c + m)
  BY DEF Discover, Sequenced
<1>2. IsFiniteSet(Retained) /\ c \in Nat /\ \A r \in Retained : order[r] \in Nat \ {0}
  BY RetainedCount
<1>3. IsFiniteSet(new) /\ m \in Nat
  <2>1. new \in SUBSET References
    OBVIOUS
  <2> QED BY <2>1, ReferenceAssumption, CountsSubtract
<1> HIDE DEF c, m
<1>4. \A r \in new : order'[r] \in (c + 1)..(c + m)
  BY <1>1
<1>5. Retained' = Retained \cup new
  BY <1>1, <1>2, <1>4 DEF Retained
<1>6. Cardinality(Retained') = c + m
  <2>1. Retained \cap new = {}
    OBVIOUS
  <2> HIDE DEF new
  <2> QED BY <1>2, <1>3, <1>5, <2>1, CountsAdd DEF c, m
<1>7. \A r \in Retained : order'[r] = order[r]
  BY <1>1 DEF Retained
<1>8. \A q, r \in new : order'[q] = order'[r] => q = r
  <2>1. f \in Surjection(new, (c + 1)..(c + m))
    BY <1>1, <1>4 DEF Surjection
  <2>2. Cardinality((c + 1)..(c + m)) = m
    BY <1>2, <1>3, FS_Interval
  <2>3. f \in Injection(new, (c + 1)..(c + m))
    <3> HIDE DEF f, new
    <3> QED BY <1>3, <2>1, <2>2, FS_SurjSameCardinalityImpliesInj DEF m
  <2> QED BY <2>3 DEF Injection, IsInjective
<1>9. \A r \in Retained : order[r] <= c
  BY DEF Numbered, c
<1>10. \A r \in Retained' : order'[r] \in Int /\ order'[r] <= c + m
  BY <1>2, <1>3, <1>4, <1>5, <1>7, <1>9
<1>11. \A q, r \in Retained' : order'[q] = order'[r] => q = r
  BY <1>2, <1>3, <1>4, <1>5, <1>7, <1>8, <1>9 DEF Numbered
<1>12. \A r \in new : order'[r] > c
  BY <1>2, <1>3, <1>4
<1> QED BY <1>5, <1>6, <1>7, <1>10, <1>11, <1>12 DEF c, m

LEMMA NumberedInit == Init => Numbered
  BY DEF Init, Numbered, Retained

LEMMA NumberedStep == IInv /\ Numbered /\ [Next]_vars => Numbered'
<1> SUFFICES ASSUME IInv, Numbered, [Next]_vars PROVE Numbered'
  OBVIOUS
<1> USE DEF table, history
<1>1. TypeOK
  BY DEF IInv
<1>2. ASSUME NEW found \in SUBSET References, Discover(found) PROVE Numbered'
  <2>1. attempt' = attempt /\ pc' = "select"
    BY <1>2 DEF Discover
  <2>2. /\ Retained \subseteq Retained'
        /\ \A q, r \in Retained' : order'[q] = order'[r] => q = r
        /\ \A r \in Retained' : order'[r] <= Cardinality(Retained')
    BY <1>1, <1>2, DiscoveryNumbers
  <2>3. \A r \in References \ Retained' : attempt'[r] = 0
    BY <2>1, <2>2 DEF Numbered
  <2> QED BY <2>1, <2>2, <2>3 DEF Numbered
<1>3. CASE Record
  <2>1. order' = order /\ pc' = "idle" /\ pc = "refresh"
    BY <1>3 DEF Record, EndedCycle
  <2>2. Retained' = Retained
    BY <2>1 DEF Retained
  <2>3. batch \subseteq Retained
    BY <2>1 DEF IInv, BatchIsFront
  <2>4. \A r \in References : r \notin batch => attempt'[r] = attempt[r]
    BY <1>3 DEF Record
  <2>5. \A r \in References \ Retained' : attempt'[r] = 0
    BY <2>2, <2>3, <2>4 DEF Numbered
  <2> QED BY <2>1, <2>2, <2>5 DEF Numbered
<1>4. CASE SelectBatch
  <2>1. UNCHANGED <<order, attempt>> /\ Retained # {}
    BY <1>4 DEF SelectBatch
  <2>2. Retained' = Retained
    BY <2>1 DEF Retained
  <2> QED BY <2>1, <2>2 DEF Numbered
<1>5. ASSUME UNCHANGED <<order, attempt>>, pc' = "refresh" => pc = "refresh"
      PROVE  Numbered'
  <2>1. Retained' = Retained
    BY <1>5 DEF Retained
  <2> QED BY <1>5, <2>1 DEF Numbered
<1>6. CASE UNCHANGED vars
  BY <1>5, <1>6 DEF vars
<1>7. CASE Next
  <2>1. ASSUME NEW t \in 1..MaxClock, StartCycle(t) PROVE Numbered'
    BY <1>5, <2>1 DEF StartCycle
  <2>2. ASSUME NEW found \in SUBSET References, DiscoveryRefused(found) PROVE Numbered'
    BY <1>5, <2>2 DEF DiscoveryRefused
  <2>3. CASE DiscoveryFails \/ Stop \/ Restart
    BY <1>5, <2>3 DEF DiscoveryFails, Stop, Restart
  <2>4. CASE SkipRefresh \/ RecordRefused
    BY <1>5, <2>4 DEF SkipRefresh, RecordRefused, EndedCycle
  <2> QED BY <1>2, <1>3, <1>4, <1>7, <2>1, <2>2, <2>3, <2>4 DEF Next, Refresh
<1> QED BY <1>6, <1>7

LEMMA NumberedInv == Spec => [](IInv /\ Numbered)
  BY NumberedInit, NumberedStep, WaitingInv, PTL DEF Spec

\* The queue of a state is the line of its retained references.
LEMMA QueueIsLine ==
  /\ queue = Line(Retained, attempt, order)
  /\ queue' = Line(Retained', attempt', order')
<1>1. \A r : Rank(r) = Place(Retained, attempt, order, r)
  BY DEF Rank, Precedes, Place, Ahead, Sooner
<1>2. \A r : Rank(r)' = Place(Retained', attempt', order', r)
  BY DEF Rank, Precedes, Place, Ahead, Sooner
<1> QED BY <1>1, <1>2 DEF queue, Line

LEMMA QueueOrdered ==
  ASSUME TypeOK, Numbered
  PROVE  Ordered(Retained, attempt, order)
  BY RetainedCount DEF Ordered, Numbered

\* The queue lists what is retained.
LEMMA QueueElements ==
  ASSUME TypeOK, Numbered
  PROVE  /\ Queue!Elements(queue) = Retained
         /\ Len(queue) = Cardinality(Retained)
<1>1. Ordered(Retained, attempt, order)
  BY QueueOrdered
<1>2. /\ Cardinality(Retained) \in Nat
      /\ queue \in Seq(Retained) /\ Len(queue) = Cardinality(Retained)
      /\ \A i \in 1..Cardinality(Retained) : queue[i] \in Retained
      /\ \A r \in Retained : \A i \in 1..Cardinality(Retained) :
           Place(Retained, attempt, order, r) = i - 1 => queue[i] = r
  BY <1>1, LineLists, QueueIsLine
<1>3. \A r \in Retained : Place(Retained, attempt, order, r) + 1 \in 1..Cardinality(Retained)
                         /\ queue[Place(Retained, attempt, order, r) + 1] = r
  BY <1>1, <1>2, PlaceType
<1>4. DOMAIN queue = 1..Cardinality(Retained)
  BY <1>2
<1>5. Queue!Elements(queue) = Retained
  BY <1>2, <1>3, <1>4 DEF Queue!Elements
<1> QED BY <1>2, <1>5

\* A discovery of new references is one of the queue.
LEMMA DiscoverRefines ==
  ASSUME TypeOK, Numbered, NEW found \in SUBSET References, Discover(found),
         found \ Retained # {}
  PROVE  Queue!Discover(found \ Retained)
<1> DEFINE new == found \ Retained
           k == Cardinality(untried)
<1>1. /\ Retained' = Retained \cup new
      /\ \A r \in Retained : order'[r] = order[r]
      /\ \A r \in new : order'[r] > Cardinality(Retained)
      /\ \A q, r \in Retained' : order'[q] = order'[r] => q = r
      /\ \A r \in Retained' : order'[r] \in Int
  BY DiscoveryNumbers
<1>2. attempt' = attempt /\ last' = last
  BY DEF Discover, history
<1>3. /\ IsFiniteSet(Retained) /\ Cardinality(Retained) \in Nat
      /\ \A r \in References : order[r] \in Nat /\ attempt[r] \in Nat
  BY RetainedCount
<1>4. Ordered(Retained, attempt, order)
  BY QueueOrdered
<1>5. Retained' \subseteq References /\ Retained \subseteq References
  BY DEF Retained
<1>6. Ordered(Retained', attempt, order')
  <2>1. IsFiniteSet(Retained')
    BY <1>5, ReferenceAssumption, FS_Subset
  <2> QED BY <1>1, <1>3, <1>5, <2>1 DEF Ordered
<1>7. Retained' \ Retained = new
  BY <1>1
<1>8. \A r \in new : attempt[r] = 0
  BY <1>5, <1>7 DEF Numbered
<1>9. \A q \in Retained : \A r \in new : order[q] < order'[r]
  BY <1>1, <1>3, <1>5, <1>7 DEF Numbered
<1>10. \A r \in Retained' : attempt[r] >= 0
  BY <1>3, <1>5
<1>11. PICK seq \in Queue!Listings(new) :
         Line(Retained', attempt, order')
           = SubSeq(queue, 1, k) \o seq \o SubSeq(queue, k + 1, Len(queue))
  <2> HIDE DEF new
  <2>1. Joined(Line(Retained, attempt, order), Line(Retained', attempt, order'),
               Cardinality({r \in Retained : attempt[r] = 0}), Retained' \ Retained)
    BY <1>1, <1>4, <1>6, <1>7, <1>8, <1>9, <1>10, DiscoveredLine
  <2>2. Joined(queue, Line(Retained', attempt, order'), k, new)
    BY <1>7, <2>1, QueueIsLine DEF untried
  <2> QED BY <2>2 DEF Joined
<1>12. queue' = SubSeq(queue, 1, k) \o seq \o SubSeq(queue, k + 1, Len(queue))
  BY <1>2, <1>11, QueueIsLine
<1>13. queue' = Queue!Before(Queue!Cardinality(untried)) \o seq
                \o Queue!After(Queue!Cardinality(untried))
  BY <1>12, QueueCounts DEF Queue!Before, Queue!After
<1>14. untried' = untried \cup new
  BY <1>1, <1>2, <1>8 DEF untried
<1>15. new # {} /\ new \cap Queue!Elements(queue) = {}
  BY QueueElements
<1> HIDE DEF new
<1>16. Queue!Discover(new)
  BY <1>2, <1>13, <1>14, <1>15 DEF Queue!Discover
<1> QED BY <1>16 DEF new

\* Recording the attempts of a batch refreshes the front of the queue.
LEMMA RecordRefines ==
  ASSUME IInv, Numbered, steady, Record
  PROVE  Queue!Refresh
<1> DEFINE R == Retained
           k == Queue!Size
           front == Front(R, attempt, order, k)
<1>1. TypeOK /\ ClockAhead /\ pc = "refresh" /\ R # {} /\ batch = {r \in R : Rank(r) < BatchSize}
  BY DEF Record, IInv, Numbered, BatchIsFront
<1>2. /\ IsFiniteSet(R) /\ Cardinality(R) \in Nat
      /\ \A r \in References : order[r] \in Nat /\ attempt[r] \in Nat
  BY <1>1, RetainedCount
<1>3. Ordered(R, attempt, order)
  BY <1>1, QueueOrdered
<1>4. Queue!Elements(queue) = R /\ Len(queue) = Cardinality(R)
  BY <1>1, QueueElements
<1>5. k \in 0..Cardinality(R) /\ ((k = Cardinality(R) /\ k < BatchSize) \/ k = BatchSize)
  BY <1>2, <1>4, OptionAssumption DEF Queue!Size
<1> HIDE DEF k
<1>6. \A r \in R : Place(R, attempt, order, r) \in Nat
                   /\ Place(R, attempt, order, r) < Cardinality(R)
  BY <1>3, PlaceType
<1>7. batch = front
  <2>1. \A r \in R : Rank(r) = Place(R, attempt, order, r)
    BY DEF Rank, Precedes, Place, Ahead, Sooner
  <2>2. \A r \in R : Place(R, attempt, order, r) < BatchSize
                     <=> Place(R, attempt, order, r) < k
    BY <1>2, <1>5, <1>6, OptionAssumption
  <2> QED BY <1>1, <2>1, <2>2 DEF Front
<1>8. order' = order /\ last' = batch
      /\ \A r \in References : attempt'[r] = IF r \in batch THEN now ELSE attempt[r]
  BY DEF Record
<1>9. R' = R
  BY <1>8 DEF Retained
<1>10. now \in Nat /\ \A r \in References : attempt[r] < now
  BY <1>1, OptionAssumption DEF ClockAhead, TypeOK, Times, Running
<1>11. R \subseteq References
  BY DEF Retained
<1>12. \A r \in R : attempt'[r] = IF Place(R, attempt, order, r) < k THEN now ELSE attempt[r]
  BY <1>7, <1>8, <1>11 DEF Front
<1>13. Ordered(R, attempt', order)
  BY <1>2, <1>3, <1>10, <1>11, <1>12 DEF Ordered
<1>14. /\ Queue!Elements(SubSeq(queue, 1, k)) = front
       /\ \E seq \in Queue!Listings(front) :
            Line(R, attempt', order) = SubSeq(queue, k + 1, Len(queue)) \o seq
  <2>1. Queue!Elements(SubSeq(Line(R, attempt, order), 1, k)) = front
    BY <1>3, <1>5, FrontCounts
  <2>2. Moved(Line(R, attempt, order), Line(R, attempt', order), k, front)
    BY <1>3, <1>5, <1>10, <1>11, <1>12, <1>13, RefreshedLine
  <2>3. Moved(queue, Line(R, attempt', order), k, front)
    BY <2>2, QueueIsLine
  <2>4. SubSeq(queue, 1, k) = SubSeq(Line(R, attempt, order), 1, k)
    BY QueueIsLine
  <2> QED BY <2>1, <2>3, <2>4 DEF Moved
<1> HIDE DEF front
<1>15. Queue!Batch = front
  BY <1>14 DEF Queue!Batch, Queue!Before, k
<1>16. \E seq \in Queue!Listings(Queue!Batch) : queue' = Queue!After(Queue!Size) \o seq
  <2>1. queue' = Line(R, attempt', order)
    BY <1>8, <1>9, QueueIsLine
  <2> QED BY <1>14, <1>15, <2>1 DEF Queue!After, k
<1>17. queue # << >>
  <2>1. Cardinality(R) # 0
    BY <1>1, <1>2, FS_EmptySet
  <2> QED BY <1>4, <2>1
<1>18. untried' = untried \ Queue!Batch
  <2>1. now # 0
    <3>1. PICK r \in R : TRUE
      BY <1>1
    <3> QED BY <1>2, <1>10, <1>11, <3>1
  <2> QED BY <1>7, <1>8, <1>9, <1>11, <1>15, <2>1 DEF untried
<1>19. last' = Queue!Batch
  BY <1>7, <1>8, <1>15
<1> QED BY <1>16, <1>17, <1>18, <1>19 DEF Queue!Refresh

\* While the clock advances, every step of the catalog is one of the queue or
\* leaves it as it is: restarts, refused records, repeated batches and
\* discoveries never change who is next (SqliteCatalogStore).
THEOREM RotationRefines == Spec => ImplementsRefreshQueue
<1>1. Init => Queue!Init
  <2> SUFFICES ASSUME Init PROVE Queue!Init
    OBVIOUS
  <2>1. Retained = {} /\ last = {}
    BY DEF Init, Retained
  <2>2. TypeOK /\ Numbered
    BY TypeInit, NumberedInit
  <2>3. Cardinality(Retained) = 0
    BY <2>1, FS_EmptySet
  <2>4. queue \in Seq(Retained) /\ Len(queue) = 0
    BY <2>2, <2>3, QueueOrdered, LineLists, QueueIsLine
  <2>5. queue = << >>
    BY <2>4, EmptySeq
  <2> QED BY <2>1, <2>5 DEF Queue!Init, untried
<1>2. (IInv /\ Numbered) /\ [Next]_vars
        => [steady' => Queue!Next]_<<queue, untried, last>>
  <2> SUFFICES ASSUME IInv, Numbered, [Next]_vars, steady'
               PROVE  Queue!Next \/ UNCHANGED <<queue, untried, last>>
    OBVIOUS
  <2> USE DEF table, history
  <2>1. TypeOK
    BY DEF IInv
  <2>2. ASSUME UNCHANGED <<order, attempt, last>>
        PROVE  UNCHANGED <<queue, untried, last>>
    <3>1. Retained' = Retained
      BY <2>2 DEF Retained
    <3>2. untried' = untried
      BY <2>2, <3>1 DEF untried
    <3>3. queue' = queue
      BY <2>2, <3>1, QueueIsLine
    <3> QED BY <2>2, <3>2, <3>3
  <2>3. ASSUME NEW found \in SUBSET References, Discover(found)
        PROVE  Queue!Next \/ UNCHANGED <<queue, untried, last>>
    <3>1. CASE found \ Retained = {}
      <4>1. order' \in [References -> Sequences]
            /\ \A r \in References \ {} : order'[r] = order[r]
        BY <2>3, <3>1 DEF Discover, Sequenced
      <4>2. order' = order
        BY <2>1, <4>1 DEF TypeOK
      <4> QED BY <2>2, <2>3, <4>2 DEF Discover
    <3>2. CASE found \ Retained # {}
      <4>1. Queue!Discover(found \ Retained)
        BY <2>1, <2>3, <3>2, DiscoverRefines
      <4>2. found \ Retained \in SUBSET References
        OBVIOUS
      <4> QED BY <4>1, <4>2 DEF Queue!Next
    <3> QED BY <3>1, <3>2
  <2>4. CASE Record
    <3>1. steady
      BY <2>4 DEF Record
    <3> QED BY <2>4, <3>1, RecordRefines DEF Queue!Next
  <2>5. CASE UNCHANGED vars
    BY <2>2, <2>5 DEF vars
  <2>6. CASE Next
    <3>1. ASSUME NEW t \in 1..MaxClock, StartCycle(t)
          PROVE  UNCHANGED <<queue, untried, last>>
      BY <2>2, <3>1 DEF StartCycle
    <3>2. ASSUME NEW found \in SUBSET References, DiscoveryRefused(found)
          PROVE  UNCHANGED <<queue, untried, last>>
      BY <2>2, <3>2 DEF DiscoveryRefused
    <3>3. CASE DiscoveryFails \/ Stop \/ Restart
      BY <2>2, <3>3 DEF DiscoveryFails, Stop, Restart
    <3>4. CASE SelectBatch \/ SkipRefresh \/ RecordRefused
      BY <2>2, <3>4 DEF SelectBatch, SkipRefresh, RecordRefused, EndedCycle
    <3> QED BY <2>3, <2>4, <2>6, <3>1, <3>2, <3>3, <3>4 DEF Next, Refresh
  <2> QED BY <2>5, <2>6
<1> QED BY <1>1, <1>2, NumberedInv, PTL DEF Spec, ImplementsRefreshQueue

\* While the clock advances for ever, the catalog is such a queue altogether.
THEOREM SteadyRotationIsQueue == Spec /\ []steady => Queue!Spec
<1>1. steady' /\ [steady' => Queue!Next]_<<queue, untried, last>>
        => [Queue!Next]_<<queue, untried, last>>
  OBVIOUS
<1> QED BY <1>1, RotationRefines, PTL DEF ImplementsRefreshQueue, Queue!Spec, Queue!vars

\* The batch recorded last is still in the catalog.
LastRetained == last \subseteq Retained

LEMMA LastRetainedInv == Spec => []LastRetained
<1>1. Init => LastRetained
  BY DEF Init, LastRetained
<1>2. (IInv /\ Numbered) /\ LastRetained /\ [Next]_vars => LastRetained'
  <2> SUFFICES ASSUME IInv, Numbered, LastRetained, [Next]_vars PROVE LastRetained'
    OBVIOUS
  <2> USE DEF table, history
  <2>1. ASSUME NEW found \in SUBSET References, Discover(found) PROVE LastRetained'
    <3>1. Retained \subseteq Retained'
      BY <2>1, DiscoveryNumbers DEF IInv
    <3>2. last' = last
      BY <2>1 DEF Discover
    <3> QED BY <3>1, <3>2 DEF LastRetained
  <2>2. CASE Record
    <3>1. batch \subseteq Retained
      BY <2>2 DEF Record, IInv, BatchIsFront
    <3>2. order' = order /\ last' = batch
      BY <2>2 DEF Record
    <3> QED BY <3>1, <3>2 DEF LastRetained, Retained
  <2>3. ASSUME UNCHANGED <<order, last>> PROVE LastRetained'
    BY <2>3 DEF LastRetained, Retained
  <2>4. CASE UNCHANGED vars
    BY <2>3, <2>4 DEF vars
  <2>5. ASSUME ~Record, \A found \in SUBSET References : ~Discover(found), Next
        PROVE  UNCHANGED <<order, last>>
    BY <2>5 DEF Next, Refresh, StartCycle, DiscoveryRefused, DiscoveryFails, SelectBatch,
                SkipRefresh, RecordRefused, Stop, Restart, EndedCycle
  <2> QED BY <2>1, <2>2, <2>3, <2>4, <2>5
<1> QED BY <1>1, <1>2, NumberedInv, PTL DEF Spec

\* The timestamps and sequence numbers always represent a queue: no reference is
\* in two places or in none, also when the clock steps back or stands still.
THEOREM QueueWellFormed == Spec => []Queue!TypeOK
<1>1. ASSUME IInv, Numbered, LastRetained PROVE Queue!TypeOK
  <2>1. TypeOK
    BY <1>1 DEF IInv
  <2>2. Queue!Elements(queue) = Retained /\ Len(queue) = Cardinality(Retained)
    BY <1>1, <2>1, QueueElements
  <2>3. queue \in Seq(Retained) /\ Cardinality(Retained) \in Nat
    BY <1>1, <2>1, QueueOrdered, LineLists, QueueIsLine
  <2>4. queue \in [1..Queue!Cardinality(Retained) -> Retained]
    <3>1. queue \in [1..Len(queue) -> Retained]
      BY <2>3
    <3> QED BY <2>2, <3>1, QueueCounts
  <2>5. queue \in Queue!Listings(Queue!Elements(queue))
    BY <2>2, <2>4 DEF Queue!Listings
  <2>6. Retained \subseteq References /\ untried \subseteq Retained
    BY DEF Retained, untried
  <2> QED BY <1>1, <2>2, <2>5, <2>6 DEF Queue!TypeOK, LastRetained
<1>2. (IInv /\ Numbered) /\ LastRetained => Queue!TypeOK
  BY <1>1
<1> QED BY <1>2, NumberedInv, LastRetainedInv, PTL

-------------------------------------------------------------------------------
(* How long a reference waits.                                             *)

\* A recorded batch was the front of the queue and brings every other reference
\* forward by the size of a batch.
BatchAdvances ==
  \A i \in 1..Len(queue) :
    IF i <= Queue!Size THEN queue[i] \in last' ELSE queue'[i - Queue!Size] = queue[i]

\* A discovery keeps the places of the references that were never refreshed, and
\* puts the others back by the number of new references.
DiscoveryDelays(found) ==
  \A i \in 1..Len(queue) :
    IF i <= Cardinality(untried) THEN queue'[i] = queue[i]
    ELSE queue'[i + Cardinality(found \ Retained)] = queue[i]

\* A reference therefore waits for one batch per BatchSize places before it, those
\* that later discoveries take included, and for no more (list_refresh_batch,
\* record_refresh_attempt).
WaitingAdvances ==
  [][/\ steady /\ Record => BatchAdvances
     /\ \A found \in SUBSET References : Discover(found) => DiscoveryDelays(found)]_vars

\* The parts of a sequence that an element of it is found in.
LEMMA Behind ==
  ASSUME NEW S, NEW T, NEW s \in Seq(S), NEW t \in Seq(T), NEW k \in 0..Len(s),
         NEW i \in (k + 1)..Len(s)
  PROVE  (SubSeq(s, k + 1, Len(s)) \o t)[i - k] = s[i]
<1> DEFINE u == SubSeq(s, k + 1, Len(s))
<1>1. /\ u \in Seq(S) /\ Len(u) = Len(s) - k
      /\ \A j \in 1..(Len(s) - k) : u[j] = s[k + j]
  OBVIOUS
<1>2. i - k \in 1..Len(u) /\ Len(s) \in Nat /\ Len(t) \in Nat
  BY <1>1
<1> HIDE DEF u
<1>3. u \in Seq(S \cup T) /\ t \in Seq(S \cup T)
  BY <1>1
<1>4. (u \o t)[i - k] = u[i - k]
  BY <1>2, <1>3, ConcatProperties
<1> QED BY <1>1, <1>2, <1>4 DEF u

LEMMA Around ==
  ASSUME NEW S, NEW s \in Seq(S), NEW t \in Seq(S), NEW k \in 0..Len(s),
         NEW i \in 1..Len(s)
  PROVE  LET w == SubSeq(s, 1, k) \o t \o SubSeq(s, k + 1, Len(s))
         IN  IF i <= k THEN w[i] = s[i] ELSE w[i + Len(t)] = s[i]
<1> DEFINE u == SubSeq(s, 1, k)
           v == SubSeq(s, k + 1, Len(s))
           ut == u \o t
           w == ut \o v
<1>1. u \in Seq(S) /\ Len(u) = k /\ \A j \in 1..k : u[j] = s[j]
  OBVIOUS
<1>2. /\ v \in Seq(S) /\ Len(v) = Len(s) - k
      /\ \A j \in 1..(Len(s) - k) : v[j] = s[k + j]
  OBVIOUS
<1>3. Len(s) \in Nat /\ Len(t) \in Nat /\ k \in Nat /\ k <= Len(s)
  OBVIOUS
<1> HIDE DEF u, v
<1>4. ut \in Seq(S) /\ Len(ut) = k + Len(t) /\ \A j \in 1..k : ut[j] = u[j]
  <2>1. /\ ut \in Seq(S) /\ Len(ut) = Len(u) + Len(t)
        /\ \A j \in 1..(Len(u) + Len(t)) :
             ut[j] = IF j <= Len(u) THEN u[j] ELSE t[j - Len(u)]
    BY <1>1, ConcatProperties
  <2> HIDE DEF ut
  <2> QED BY <1>1, <1>3, <2>1
<1> HIDE DEF ut
<1>5. \A j \in 1..(Len(ut) + Len(v)) : w[j] = IF j <= Len(ut) THEN ut[j] ELSE v[j - Len(ut)]
  BY <1>2, <1>4, ConcatProperties
<1> HIDE DEF w
<1>6. CASE i <= k
  <2>1. i \in 1..(Len(ut) + Len(v)) /\ i <= Len(ut) /\ i \in 1..k
    BY <1>2, <1>3, <1>4, <1>6
  <2>2. w[i] = ut[i] /\ ut[i] = u[i] /\ u[i] = s[i]
    BY <1>1, <1>4, <1>5, <2>1
  <2> QED BY <1>6, <2>2 DEF w, ut, u, v
<1>7. CASE ~(i <= k)
  <2> DEFINE j == i + Len(t)
  <2>0. Len(ut) = k + Len(t) /\ Len(v) = Len(s) - k /\ i \in Int /\ 1 <= i /\ i <= Len(s)
    BY <1>2, <1>3, <1>4
  <2>1. /\ j \in 1..(Len(ut) + Len(v)) /\ ~(j <= Len(ut)) /\ j - Len(ut) = i - k
        /\ i - k \in 1..(Len(s) - k) /\ k + (i - k) = i
    BY <1>3, <1>7, <2>0
  <2> HIDE DEF j
  <2>2. w[j] = v[i - k] /\ v[i - k] = s[i]
    BY <1>2, <1>5, <2>1
  <2> QED BY <1>7, <2>2 DEF w, ut, u, v, j
<1> QED BY <1>6, <1>7

\* Batches and discoveries move the places of the references as a queue does.
LEMMA BatchMoves ==
  ASSUME IInv, Numbered, steady, Record
  PROVE  BatchAdvances
<1> DEFINE k == Queue!Size
<1>1. TypeOK /\ Ordered(Retained, attempt, order)
  BY QueueOrdered DEF IInv
<1>2. queue \in Seq(Retained) /\ Len(queue) = Cardinality(Retained)
      /\ Cardinality(Retained) \in Nat
  BY <1>1, LineLists, QueueIsLine
<1>3. k \in 0..Len(queue)
  BY <1>2, OptionAssumption DEF Queue!Size
<1>4. PICK seq \in Queue!Listings(Queue!Batch) : queue' = Queue!After(k) \o seq
  BY RecordRefines DEF Queue!Refresh
<1>5. last' = Queue!Elements(Queue!Before(k))
  BY RecordRefines DEF Queue!Refresh, Queue!Batch
<1>6. seq \in Seq(Queue!Batch)
  <2>1. IsFiniteSet(Queue!Batch)
    <3>1. Queue!Batch = batch
      BY RecordRefines DEF Queue!Refresh, Record
    <3>2. batch \subseteq References
      BY <1>1 DEF TypeOK
    <3> QED BY <3>1, <3>2, ReferenceAssumption, FS_Subset
  <2>2. Queue!Cardinality(Queue!Batch) \in Nat
    BY <2>1, FS_CardinalityType, QueueCounts
  <2>3. seq \in [1..Queue!Cardinality(Queue!Batch) -> Queue!Batch]
    BY <1>4 DEF Queue!Listings
  <2> QED BY <2>2, <2>3
<1> HIDE DEF k
<1>7. ASSUME NEW i \in 1..Len(queue), i <= k
      PROVE  queue[i] \in last'
  <2>1. /\ DOMAIN SubSeq(queue, 1, k) = 1..k
        /\ \A j \in 1..k : SubSeq(queue, 1, k)[j] = queue[j]
    BY <1>2, <1>3
  <2>2. i \in 1..k
    BY <1>3, <1>7
  <2>3. queue[i] \in Queue!Elements(SubSeq(queue, 1, k))
    BY <2>1, <2>2 DEF Queue!Elements
  <2> QED BY <1>5, <2>3 DEF Queue!Before
<1>8. ASSUME NEW i \in 1..Len(queue), ~(i <= k)
      PROVE  queue'[i - k] = queue[i]
  <2>1. i \in (k + 1)..Len(queue)
    BY <1>2, <1>3, <1>8
  <2>2. (SubSeq(queue, k + 1, Len(queue)) \o seq)[i - k] = queue[i]
    BY <1>2, <1>3, <1>6, <2>1, Behind
  <2> QED BY <1>4, <2>2 DEF Queue!After
<1> QED BY <1>7, <1>8 DEF BatchAdvances, k

LEMMA DiscoveryMoves ==
  ASSUME IInv, Numbered, NEW found \in SUBSET References, Discover(found)
  PROVE  DiscoveryDelays(found)
<1> DEFINE new == found \ Retained
           k == Cardinality(untried)
<1>1. TypeOK /\ Ordered(Retained, attempt, order)
  BY QueueOrdered DEF IInv
<1>2. queue \in Seq(Retained) /\ Len(queue) = Cardinality(Retained)
      /\ Cardinality(Retained) \in Nat
  BY <1>1, LineLists, QueueIsLine
<1>3. k \in 0..Len(queue)
  <2>1. untried \subseteq Retained /\ IsFiniteSet(Retained)
    BY <1>1, RetainedCount DEF untried
  <2> QED BY <1>2, <2>1, FS_Subset, FS_CardinalityType
<1>4. IsFiniteSet(new) /\ Cardinality(new) \in Nat
  <2>1. new \subseteq References
    OBVIOUS
  <2> QED BY <2>1, ReferenceAssumption, FS_Subset, FS_CardinalityType
<1>5. CASE new = {}
  <2>1. order' \in [References -> Sequences]
        /\ \A r \in References \ {} : order'[r] = order[r]
    BY <1>5 DEF Discover, Sequenced
  <2>2. order' = order /\ attempt' = attempt
    BY <1>1, <2>1 DEF TypeOK, Discover, history
  <2>3. queue' = queue
    <3>1. Retained' = Retained
      BY <2>2 DEF Retained
    <3> QED BY <2>2, <3>1, QueueIsLine
  <2>4. Cardinality(new) = 0
    BY <1>5, FS_EmptySet
  <2> QED BY <1>2, <2>3, <2>4 DEF DiscoveryDelays
<1>6. CASE new # {}
  <2>1. PICK seq \in Queue!Listings(new) :
          queue' = Queue!Before(Queue!Cardinality(untried)) \o seq
                     \o Queue!After(Queue!Cardinality(untried))
    BY <1>1, <1>6, DiscoverRefines DEF Queue!Discover
  <2>2. Queue!Cardinality(untried) = k /\ Queue!Cardinality(new) = Cardinality(new)
    BY QueueCounts
  <2>3. seq \in [1..Cardinality(new) -> new]
    BY <2>1, <2>2 DEF Queue!Listings
  <2> HIDE DEF k
  <2>4. seq \in Seq(Retained \cup new) /\ Len(seq) = Cardinality(new)
    <3> HIDE DEF new
    <3> QED BY <1>4, <2>3
  <2>5. queue \in Seq(Retained \cup new)
    BY <1>2
  <2>6. queue' = SubSeq(queue, 1, k) \o seq \o SubSeq(queue, k + 1, Len(queue))
    BY <2>1, <2>2 DEF Queue!Before, Queue!After
  <2>7. ASSUME NEW i \in 1..Len(queue)
        PROVE  IF i <= k THEN queue'[i] = queue[i] ELSE queue'[i + Len(seq)] = queue[i]
    <3> HIDE DEF new
    <3> QED BY <1>3, <2>4, <2>5, <2>6, Around
  <2> QED BY <2>4, <2>7 DEF DiscoveryDelays, k
<1> QED BY <1>5, <1>6

\* Nobody waits longer than the places before it say.
THEOREM WaitingIsBounded == Spec => WaitingAdvances
<1> DEFINE Moves == /\ steady /\ Record => BatchAdvances
                    /\ \A found \in SUBSET References : Discover(found) => DiscoveryDelays(found)
<1>1. (IInv /\ Numbered) /\ [Next]_vars => [Moves]_vars
  BY BatchMoves, DiscoveryMoves
<1>2. [][Moves]_vars => WaitingAdvances
  BY PTL DEF WaitingAdvances
<1> QED BY <1>1, <1>2, NumberedInv, PTL DEF Spec

===============================================================================
