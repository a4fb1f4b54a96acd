--------------------------- MODULE DailyDigestProofs ---------------------------
(***************************************************************************)
(* Proofs about DailyDigest, for every set of products, every clock and    *)
(* delivery time, every recheck budget and every bound.                    *)
(***************************************************************************)
EXTENDS DailyDigest, FiniteSetTheorems, TLAPS

\* Every timestamp has a local date.
LEMMA DateType == ASSUME NEW t \in Clock PROVE DateOf(t) \in Date
BY DEF Date

\* The empty timestamp of an idle process is on the clock.
LEMMA ZeroOnClock == 0 \in Clock
BY ClockAssumption DEF Clock

\* Leaving run() resets every local variable to a well-typed value.
LEMMA LeaveType ==
  ASSUME NEW next \in {"down", "idle"}, NEW status \in Outcomes,
         Leave(next, status)
  PROVE  /\ pc' \in PCs /\ timestamp' \in Clock
         /\ pending' \subseteq Product /\ members' \subseteq Product
         /\ newMembers' \subseteq Product /\ outcome' \in Outcomes
BY ZeroOnClock DEF Leave, PCs

-------------------------------------------------------------------------------
(* Type correctness, action by action.                                     *)

LEMMA TypeInit == Init => TypeOK
BY ZeroOnClock DEF Init, TypeOK, PCs, Outcomes, Membership

LEMMA TypeNext == TypeOK /\ [Next]_vars => TypeOK'
<1> SUFFICES ASSUME TypeOK, [Next]_vars
             PROVE  TypeOK'
  OBVIOUS
<1> USE DEF TypeOK, PCs
<1>0. today \in Date
  BY DateType DEF today
<1>1. CASE StartCycle
  BY <1>1 DEF StartCycle, Outcomes, durable
<1>2. CASE NotDue \/ AlreadySent
  BY <1>2, LeaveType DEF NotDue, AlreadySent, Outcomes, durable, ghosts
<1>3. CASE Reserve
  BY <1>0, <1>3 DEF Reserve, ghosts
<1>4. ASSUME NEW p \in Product, Observe(p)
      PROVE  TypeOK'
  BY <1>4 DEF Observe, Snapshot, process, ghosts
<1>5. ASSUME NEW p \in Product, Recheck(p)
      PROVE  TypeOK'
  BY <1>5 DEF Recheck, Snapshot
<1>6. CASE PromotionRead \/ PromotionFails \/ PreparationFails
  BY <1>6 DEF PromotionRead, PromotionFails, PreparationFails, durable, ghosts
<1>7. CASE ReleasePromotion \/ ReleaseDate \/ Restart
  BY <1>7, LeaveType
     DEF ReleasePromotion, ReleaseDate, Restart, Outcomes, durable, ghosts
<1>8. CASE Select
  <2>1. Stale \subseteq Product
    BY DEF Stale, Qualifying
  <2> QED BY <1>8, <2>1 DEF Select, durable, ghosts
<1>9. CASE Generate
  <2>1. Qualifying \subseteq Product
    BY DEF Qualifying
  <2>2. NewAgainst(Qualifying, Preceding(baselines, today)) \subseteq Qualifying
    BY DEF NewAgainst
  <2> QED BY <1>9, <2>1, <2>2 DEF Generate, durable, ghosts
<1>10. CASE Stage
  BY <1>0, <1>10 DEF Stage, Membership, ghosts
<1>11. CASE SendAccepted
  BY <1>0, <1>11, LeaveType
     DEF SendAccepted, CountSend, Membership, Outcomes, durable
<1>12. CASE SendRejected
  BY <1>0, <1>12 DEF SendRejected, CountSend, durable
<1>13. CASE ReleaseBaseline
  BY <1>0, <1>13 DEF ReleaseBaseline, Membership, ghosts
<1>14. CASE Interrupt
  BY <1>0, <1>14, LeaveType DEF Interrupt, LeaveUnconfirmed, Outcomes, durable
<1>15. CASE InterruptedSend
  BY <1>0, <1>15, LeaveType
     DEF InterruptedSend, LeaveUnconfirmed, CountSend, Outcomes, durable
<1>16. CASE UNCHANGED vars
  BY <1>16 DEF vars, durable, process, ghosts
<1> QED
  BY <1>1, <1>2, <1>3, <1>4, <1>5, <1>6, <1>7, <1>8, <1>9, <1>10, <1>11,
     <1>12, <1>13, <1>14, <1>15, <1>16 DEF Next

\* Every reachable state is well typed: dates, memberships and snapshots are
\* what the three tables may hold.
THEOREM TypeCorrect == Spec => []TypeOK
<1> QED BY TypeInit, TypeNext, PTL DEF Spec

-------------------------------------------------------------------------------
(* Dates, baselines and deliveries.                                        *)

LEMMA BooksNext == TypeOK /\ DigestBooks /\ [Next]_vars => DigestBooks'
<1> SUFFICES ASSUME TypeOK, DigestBooks, [Next]_vars
             PROVE  DigestBooks'
  OBVIOUS
<1> USE AbsentAssumption DEF TypeOK, Holding, today
<1>0. DateOf(timestamp) \in Date
  BY DateType
<1>1. CASE StartCycle
  BY <1>1 DEF StartCycle, DigestBooks, durable
<1>2. CASE NotDue \/ AlreadySent \/ Restart
  BY <1>2 DEF NotDue, AlreadySent, Restart, Leave, DigestBooks, durable, ghosts
<1>3. CASE Reserve
  BY <1>0, <1>3 DEF Reserve, DigestBooks, ghosts
<1>4. ASSUME NEW p \in Product, Observe(p)
      PROVE  DigestBooks'
  BY <1>4 DEF Observe, DigestBooks, process, ghosts
<1>5. ASSUME NEW p \in Product, Recheck(p)
      PROVE  DigestBooks'
  BY <1>5 DEF Recheck, DigestBooks
<1>6. CASE PromotionRead \/ PromotionFails \/ PreparationFails \/ Select \/ Generate
  BY <1>6 DEF PromotionRead, PromotionFails, PreparationFails, Select, Generate,
              DigestBooks, durable, ghosts
<1>7. CASE ReleasePromotion
  BY <1>0, <1>7 DEF ReleasePromotion, Leave, DigestBooks, ghosts
<1>8. CASE ReleaseDate
  BY <1>0, <1>8 DEF ReleaseDate, Leave, DigestBooks, ghosts
<1>9. CASE Stage
  BY <1>0, <1>9 DEF Stage, DigestBooks, ghosts
<1>10. CASE SendAccepted
  BY <1>0, <1>10 DEF SendAccepted, CountSend, Leave, DigestBooks, durable
<1>11. CASE SendRejected
  BY <1>0, <1>11 DEF SendRejected, CountSend, DigestBooks, durable
<1>12. CASE ReleaseBaseline
  BY <1>0, <1>12 DEF ReleaseBaseline, DigestBooks, ghosts
<1>13. CASE Interrupt
  BY <1>0, <1>13 DEF Interrupt, LeaveUnconfirmed, Leave, DigestBooks, durable
<1>14. CASE InterruptedSend
  BY <1>0, <1>14
     DEF InterruptedSend, LeaveUnconfirmed, CountSend, Leave, DigestBooks, durable
<1>15. CASE UNCHANGED vars
  BY <1>15 DEF vars, durable, process, ghosts, DigestBooks
<1> QED
  BY <1>1, <1>2, <1>3, <1>4, <1>5, <1>6, <1>7, <1>8, <1>9, <1>10, <1>11,
     <1>12, <1>13, <1>14, <1>15 DEF Next

LEMMA BooksInvariant == Spec => [](TypeOK /\ DigestBooks)
<1>1. Init => TypeOK /\ DigestBooks
  BY TypeInit DEF Init, DigestBooks, Holding
<1> QED BY <1>1, TypeNext, BooksNext, PTL DEF Spec

\* A date's digest is sent at most once more than its sends were reported to
\* have failed.
THEOREM DigestDeliveredOnce == Spec => []OneDigestPerDate
<1>1. TypeOK /\ DigestBooks => OneDigestPerDate
  <2> SUFFICES ASSUME TypeOK, DigestBooks, NEW d \in Date
               PROVE  sent[d] <= rejected[d] + 1
    BY DEF OneDigestPerDate
  <2>1. sent[d] = rejected[d] \/ sent[d] = rejected[d] + 1
    BY DEF DigestBooks
  <2>2. rejected[d] \in Nat
    BY DEF TypeOK
  <2> QED BY <2>1, <2>2
<1> QED BY <1>1, BooksInvariant, PTL

\* A reserved date is delivered, in hand, or was cut off by an interruption.
THEOREM OnlyInterruptionSilences == Spec => []SilencedOnlyByInterruption
<1>1. Init => SilencedOnlyByInterruption
  BY DEF Init, SilencedOnlyByInterruption
<1>2. TypeOK /\ DigestBooks /\ SilencedOnlyByInterruption /\ [Next]_vars
        => SilencedOnlyByInterruption'
  <2> SUFFICES ASSUME TypeOK, DigestBooks, SilencedOnlyByInterruption,
                      [Next]_vars
               PROVE  SilencedOnlyByInterruption'
    OBVIOUS
  <2> USE AbsentAssumption
      DEF TypeOK, SilencedOnlyByInterruption, Holding, today, PCs
  <2>1. CASE StartCycle \/ Stage \/ SendRejected \/ ReleaseBaseline \/ Select
             \/ PromotionRead \/ PromotionFails \/ PreparationFails \/ Generate
    BY <2>1 DEF StartCycle, Stage, SendRejected, ReleaseBaseline, Select,
                PromotionRead, PromotionFails, PreparationFails, Generate,
                durable, ghosts
  <2>2. CASE NotDue \/ AlreadySent \/ Restart
    BY <2>2 DEF NotDue, AlreadySent, Restart, Leave, durable, ghosts
  <2>3. CASE Reserve
    BY <2>3 DEF Reserve, ghosts
  <2>4. ASSUME NEW p \in Product, Observe(p) \/ Recheck(p)
        PROVE  SilencedOnlyByInterruption'
    BY <2>4 DEF Observe, Recheck, process, ghosts
  <2>5. CASE ReleasePromotion \/ ReleaseDate
    BY <2>5 DEF ReleasePromotion, ReleaseDate, Leave, ghosts
  <2>6. CASE SendAccepted
    <3>1. delivered' = [delivered EXCEPT ![today] = members] /\ members # NoDigest
      BY <2>6 DEF SendAccepted
    <3> QED BY <2>6, <3>1, DateType DEF SendAccepted, Leave, durable
  <2>7. CASE Interrupt \/ InterruptedSend
    BY <2>7 DEF Interrupt, InterruptedSend, LeaveUnconfirmed, Leave, durable
  <2>8. CASE UNCHANGED vars
    BY <2>8 DEF vars, durable, process, ghosts
  <2> QED
    BY <2>1, <2>2, <2>3, <2>4, <2>5, <2>6, <2>7, <2>8 DEF Next
<1> QED BY <1>1, <1>2, BooksInvariant, PTL DEF Spec

\* Baselines and deliveries agree, interruptions aside.
THEOREM BaselinesWereDelivered == Spec => []BaselineWasDelivered
<1>1. TypeOK /\ DigestBooks /\ SilencedOnlyByInterruption => BaselineWasDelivered
  BY DEF DigestBooks, SilencedOnlyByInterruption, BaselineWasDelivered
<1> QED BY <1>1, BooksInvariant, OnlyInterruptionSilences, PTL

-------------------------------------------------------------------------------
(* What a digest marks as new.                                             *)

\* While a digest is staged and sent, its new products are those that were not
\* in the last digest delivered, unless a run was interrupted.
NewnessBooks ==
  pc \in {"stage", "send"} /\ unconfirmed = {} =>
    newMembers = NewAgainst(members, LastDelivered)

\* Without interruptions baselines and deliveries agree before the current date.
LEMMA TablesAgree ==
  ASSUME TypeOK, DigestBooks, BaselineWasDelivered, unconfirmed = {}
  PROVE  Preceding(baselines, today) = LastDelivered
<1> DEFINE staged == {d \in Date : d < today /\ baselines[d] # NoDigest}
           sentTo == {d \in Date : d < today /\ delivered[d] # NoDigest}
           Latest(dates) == {d \in dates : \A e \in dates : e <= d}
<1>0. today \in Int
  BY ClockAssumption DEF TypeOK, today, DateOf, Clock
<1>1. ASSUME NEW d \in Date, d < today
      PROVE  baselines[d] = delivered[d]
  <2>1. d # today
    BY <1>0, <1>1
  <2>2. baselines[d] # NoDigest => delivered[d] = baselines[d]
    BY <2>1 DEF BaselineWasDelivered
  <2>3. delivered[d] # NoDigest => baselines[d] = delivered[d]
    BY DEF DigestBooks
  <2> QED BY <2>2, <2>3
<1>2. staged = sentTo
  BY <1>1
<1>3. {baselines[d] : d \in Latest(staged)} = {delivered[d] : d \in Latest(sentTo)}
  BY <1>1, <1>2
<1> QED BY <1>2, <1>3 DEF Preceding, LastDelivered, AtLatest

LEMMA NewnessNext ==
  TypeOK /\ DigestBooks /\ BaselineWasDelivered /\ NewnessBooks /\ [Next]_vars
    => NewnessBooks'
<1> SUFFICES ASSUME TypeOK, DigestBooks, BaselineWasDelivered, NewnessBooks,
                    [Next]_vars
             PROVE  NewnessBooks'
  OBVIOUS
<1>1. CASE Generate
  BY <1>1, TablesAgree
     DEF Generate, NewnessBooks, LastDelivered, today, durable, ghosts
<1>2. CASE Stage
  BY <1>2 DEF Stage, NewnessBooks, LastDelivered, today, ghosts
<1>3. CASE UNCHANGED vars
  BY <1>3 DEF vars, durable, process, ghosts, NewnessBooks, LastDelivered, today
<1>4. CASE \/ StartCycle \/ NotDue \/ AlreadySent \/ Reserve \/ PromotionRead
           \/ PromotionFails \/ ReleasePromotion \/ Select \/ SendAccepted
           \/ SendRejected \/ PreparationFails \/ ReleaseBaseline \/ ReleaseDate
           \/ Interrupt \/ InterruptedSend \/ Restart
           \/ (\E p \in Product : Observe(p) \/ Recheck(p))
  <2>1. pc' \notin {"stage", "send"}
    BY <1>4 DEF StartCycle, NotDue, AlreadySent, Reserve, PromotionRead,
                PromotionFails, ReleasePromotion, Select, SendAccepted,
                SendRejected, PreparationFails, ReleaseBaseline, ReleaseDate,
                Interrupt, InterruptedSend, LeaveUnconfirmed, Restart, Leave,
                Observe, Recheck, process
  <2> QED BY <2>1 DEF NewnessBooks
<1> QED BY <1>1, <1>2, <1>3, <1>4 DEF Next

\* A digest marks as new what the last delivered digest did not contain, as long
\* as no run was interrupted.
THEOREM NewnessOfDeliveries == Spec => []NewnessWithoutInterruption
<1>1. Init => NewnessBooks
  BY DEF Init, NewnessBooks
<1>2. NewnessBooks => NewnessWithoutInterruption
  BY DEF NewnessBooks, NewnessWithoutInterruption
<1> QED
  BY <1>1, <1>2, NewnessNext, BooksInvariant, BaselinesWereDelivered, PTL DEF Spec

-------------------------------------------------------------------------------
(* Freshness of the products a digest shows.                               *)

\* While products are rechecked, those already tried and those still pending use
\* up the budget or contain every stale product; later, those tried do.
FreshBooks ==
  /\ pc \in {"catalog", "promotion", "select"} => tried = {}
  /\ pc = "refresh" => \/ Cardinality(tried \cup pending) = Limit
                       \/ Stale \subseteq tried \cup pending
  /\ pc \in {"stage", "send"} => \/ Cardinality(tried) = Limit
                                 \/ \A p \in members : Fresh(p) \/ p \in tried

\* A selection is the whole set of stale products or as large as the budget.
LEMMA SelectionSize ==
  ASSUME NEW S \in SUBSET Stale, IsSelection(S)
  PROVE  Cardinality(S) = Limit \/ Stale \subseteq S
<1>1. IsFiniteSet(Stale)
  BY ProductAssumption, FS_Subset DEF Stale, Qualifying
<1>2. CASE Cardinality(Stale) < Limit
  BY <1>1, <1>2, FS_Subset DEF IsSelection
<1> QED BY <1>2 DEF IsSelection

\* A recheck moves one product from those pending to those tried, and no other
\* product becomes stale.
LEMMA RecheckKeeps ==
  ASSUME TypeOK, NEW p \in Product, Recheck(p)
  PROVE  /\ tried' \cup pending' = tried \cup pending
         /\ Stale' \subseteq Stale \cup {p}
         /\ p \in tried' /\ pc = "refresh" /\ pc' = "refresh"
<1>1. \A q \in Product \ {p} : snapshots'[q] = snapshots[q]
  BY DEF Recheck, TypeOK
<1> QED BY <1>1 DEF Recheck, Stale, Qualifying, Fresh

LEMMA FreshNext == TypeOK /\ FreshBooks /\ [Next]_vars => FreshBooks'
<1> SUFFICES ASSUME TypeOK, FreshBooks, [Next]_vars
             PROVE  FreshBooks'
  OBVIOUS
<1>1. CASE StartCycle
  BY <1>1 DEF StartCycle, FreshBooks
<1>2. ASSUME NEW p \in Product, Observe(p)
      PROVE  FreshBooks'
  BY <1>2 DEF Observe, FreshBooks, process, ghosts
<1>3. CASE Reserve \/ PromotionRead
  BY <1>3 DEF Reserve, PromotionRead, FreshBooks, durable, ghosts
<1>4. CASE Select
  <2>1. PICK S \in SUBSET Stale : IsSelection(S) /\ pending' = S
    BY <1>4 DEF Select
  <2>2. tried = {} /\ tried' = tried /\ Stale' = Stale /\ pc' = "refresh"
    BY <1>4 DEF Select, FreshBooks, durable, ghosts, Stale, Qualifying, Fresh
  <2>3. tried' \cup pending' = S
    BY <2>1, <2>2
  <2> QED BY <2>1, <2>2, <2>3, SelectionSize DEF FreshBooks
<1>5. ASSUME NEW p \in Product, Recheck(p)
      PROVE  FreshBooks'
  BY <1>5, RecheckKeeps DEF FreshBooks
<1>6. CASE Generate
  <2>1. tried \cup pending = tried /\ pc = "refresh" /\ pc' = "stage"
        /\ tried' = tried /\ members' = Qualifying
        /\ snapshots' = snapshots /\ timestamp' = timestamp
    BY <1>6 DEF Generate, durable, ghosts
  <2>2. Cardinality(tried) = Limit \/ Stale \subseteq tried
    BY <2>1 DEF FreshBooks
  <2>3. \A p \in Qualifying : Fresh(p) \/ p \in Stale
    BY DEF Stale
  <2>4. \A p \in Product : Fresh(p)' <=> Fresh(p)
    BY <2>1 DEF Fresh
  <2>5. Qualifying \subseteq Product
    BY DEF Qualifying
  <2> QED BY <2>1, <2>2, <2>3, <2>4, <2>5 DEF FreshBooks
<1>7. CASE Stage \/ UNCHANGED vars
  <2>1. /\ pc' \in {"stage", "send"} => pc \in {"stage", "send"}
        /\ pc' \notin {"stage", "send"} => pc' = pc
        /\ tried' = tried /\ members' = members /\ pending' = pending
        /\ snapshots' = snapshots /\ timestamp' = timestamp
    BY <1>7 DEF Stage, vars, durable, process, ghosts
  <2>2. Stale' = Stale
    BY <2>1 DEF Stale, Qualifying, Fresh
  <2>3. \A p \in members : Fresh(p)' <=> Fresh(p)
    BY <2>1 DEF Fresh
  <2> QED BY <2>1, <2>2, <2>3 DEF FreshBooks
<1>8. CASE \/ NotDue \/ AlreadySent \/ PromotionFails \/ ReleasePromotion
           \/ SendAccepted \/ SendRejected \/ PreparationFails \/ ReleaseBaseline
           \/ ReleaseDate \/ Interrupt \/ InterruptedSend \/ Restart
  <2>1. pc' \notin {"catalog", "promotion", "select", "refresh", "stage", "send"}
    BY <1>8 DEF NotDue, AlreadySent, PromotionFails, ReleasePromotion,
                SendAccepted, SendRejected, PreparationFails, ReleaseBaseline,
                ReleaseDate, Interrupt, InterruptedSend, LeaveUnconfirmed,
                Restart, Leave
  <2> QED BY <2>1 DEF FreshBooks
<1> QED
  BY <1>1, <1>2, <1>3, <1>4, <1>5, <1>6, <1>7, <1>8 DEF Next

\* A digest shows no stale observation it did not try to refresh, unless it used
\* up its budget.
THEOREM DigestsAreFresh == Spec => []FreshOrTried
<1>1. Init => FreshBooks
  BY DEF Init, FreshBooks
<1>2. FreshBooks => FreshOrTried
  BY DEF FreshBooks, FreshOrTried
<1> QED BY <1>1, <1>2, TypeCorrect, FreshNext, PTL DEF Spec

-------------------------------------------------------------------------------
(* Refinement of ReservedDelivery.                                         *)

Confirmed == {d \in Date : sent[d] > rejected[d]}

\* A step that leaves reservations and counts alone changes nothing abstract.
LEMMA Stutter ==
  ASSUME reservations' = reservations, sent' = sent, rejected' = rejected
  PROVE  UNCHANGED Digests!vars
BY DEF Digests!vars

\* Calling the channel counts one more call for today.
LEMMA CountType ==
  ASSUME TypeOK, CountSend
  PROVE  \A d \in Date : sent'[d] = IF d = today THEN sent[d] + 1 ELSE sent[d]
BY DateType DEF TypeOK, CountSend, today

\* Every step claims, accepts or withdraws one date, or leaves both sets alone.
LEMMA StepRefines ==
  TypeOK /\ DigestBooks /\ [Next]_vars => [Digests!Next]_(Digests!vars)
<1> SUFFICES ASSUME TypeOK, DigestBooks, [Next]_vars
             PROVE  Digests!Next \/ UNCHANGED Digests!vars
  OBVIOUS
<1>0. PICK d \in Date : d = today
  BY DateType DEF TypeOK, today
<1>1. CASE \/ StartCycle \/ NotDue \/ AlreadySent \/ PromotionRead
           \/ PromotionFails \/ Select \/ Generate \/ Stage \/ PreparationFails
           \/ ReleaseBaseline \/ Interrupt \/ Restart
           \/ (\E p \in Product : Observe(p) \/ Recheck(p)) \/ UNCHANGED vars
  BY <1>1, Stutter
     DEF StartCycle, NotDue, AlreadySent, PromotionRead, PromotionFails, Select,
         Generate, Stage, PreparationFails, ReleaseBaseline, Interrupt, Restart,
         Observe, Recheck, vars, durable, ghosts
<1>2. CASE Reserve
  <2>1. Confirmed' = Confirmed
    BY <1>2 DEF Reserve, ghosts, Confirmed
  <2>2. Digests!Claim(d)
    BY <1>0, <1>2, <2>1 DEF Reserve, Digests!Claim, Confirmed
  <2> QED BY <2>2 DEF Digests!Next
<1>3. CASE SendAccepted \/ InterruptedSend
  <2>1. /\ reservations' = reservations /\ rejected' = rejected
        /\ \A e \in Date : sent'[e] = IF e = d THEN sent[e] + 1 ELSE sent[e]
    BY <1>0, <1>3, CountType DEF SendAccepted, InterruptedSend, durable
  <2>2. d \in reservations /\ sent[d] = rejected[d]
    BY <1>0, <1>3 DEF DigestBooks, SendAccepted, InterruptedSend, Holding
  <2>3. ASSUME NEW e \in Date
        PROVE  sent'[e] > rejected'[e] <=> sent[e] > rejected[e] \/ e = d
    <3>1. sent[e] \in Nat /\ rejected[e] \in Nat
      BY DEF TypeOK
    <3>2. CASE e = d
      BY <2>1, <2>2, <3>1, <3>2
    <3>3. CASE e # d
      BY <2>1, <3>3
    <3> QED BY <3>2, <3>3
  <2>4. Confirmed' = Confirmed \cup {d}
    BY <2>3 DEF Confirmed
  <2>5. d \notin Confirmed
    BY <2>2 DEF Confirmed, TypeOK
  <2>6. Digests!Accept(d)
    BY <2>1, <2>2, <2>4, <2>5 DEF Digests!Accept, Confirmed
  <2> QED BY <2>6 DEF Digests!Next
<1>4. CASE SendRejected
  <2>1. /\ reservations' = reservations
        /\ \A e \in Date : sent'[e] = IF e = d THEN sent[e] + 1 ELSE sent[e]
        /\ \A e \in Date : rejected'[e] = IF e = d THEN rejected[e] + 1
                                                   ELSE rejected[e]
    BY <1>0, <1>4, CountType DEF SendRejected, durable, TypeOK
  <2>2. ASSUME NEW e \in Date
        PROVE  sent'[e] > rejected'[e] <=> sent[e] > rejected[e]
    <3>1. sent[e] \in Nat /\ rejected[e] \in Nat
      BY DEF TypeOK
    <3>2. CASE e = d
      BY <2>1, <3>1, <3>2
    <3>3. CASE e # d
      BY <2>1, <3>3
    <3> QED BY <3>2, <3>3
  <2>3. Confirmed' = Confirmed
    BY <2>2 DEF Confirmed
  <2> QED BY <2>1, <2>3 DEF Digests!vars, Confirmed
<1>5. CASE ReleasePromotion \/ ReleaseDate
  <2>1. d \in reservations /\ sent[d] = rejected[d]
    BY <1>0, <1>5 DEF DigestBooks, ReleasePromotion, ReleaseDate, Holding
  <2>2. d \notin Confirmed /\ Confirmed' = Confirmed
    BY <1>5, <2>1 DEF ReleasePromotion, ReleaseDate, ghosts, Confirmed, TypeOK
  <2>3. Digests!Withdraw(d)
    BY <1>0, <1>5, <2>1, <2>2
       DEF ReleasePromotion, ReleaseDate, Digests!Withdraw, Confirmed
  <2> QED BY <2>3 DEF Digests!Next
<1> QED BY <1>1, <1>2, <1>3, <1>4, <1>5 DEF Next

\* The digest workflow with its two tables implements the abstract promise.
THEOREM DigestsRefine == Spec => ImplementsReservedDelivery
<1>1. Init => Digests!Init
  BY DEF Init, Digests!Init
<1> QED
  BY <1>1, StepRefines, BooksInvariant, PTL
     DEF Spec, ImplementsReservedDelivery, Digests!Spec

\* The reservation of a delivered digest is never released, so its date is not
\* delivered again, whatever fails afterwards.
THEOREM DigestsStayReserved == Spec => []Digests!AcceptedIsClaimed /\ Digests!NothingRevoked
<1> DEFINE Accepted == {d \in Date : sent[d] > rejected[d]}
<1>1. Digests!Init => Digests!AcceptedIsClaimed
  BY DEF Digests!Init, Digests!AcceptedIsClaimed
<1>2. Digests!AcceptedIsClaimed /\ [Digests!Next]_Digests!vars
        => Digests!AcceptedIsClaimed' /\ [Accepted \subseteq Accepted']_Digests!vars
  BY DEF Digests!AcceptedIsClaimed, Digests!Next, Digests!Claim, Digests!Accept, Digests!Withdraw, Digests!vars
<1> QED BY <1>1, <1>2, DigestsRefine, PTL
    DEF ImplementsReservedDelivery, Digests!Spec, Digests!NothingRevoked
================================================================================
