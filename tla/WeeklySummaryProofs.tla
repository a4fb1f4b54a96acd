-------------------------- MODULE WeeklySummaryProofs --------------------------
(***************************************************************************)
(* Theorems of WeeklySummary, for every set of causes, every length of the *)
(* week and every bound.  WeekBooks is inductive with TypeOK; deliveries   *)
(* follow from it, and so does that a marked bucket is final, because the  *)
(* checks come in order and a marked week is over.                         *)
(***************************************************************************)
EXTENDS WeeklySummary, FiniteSetTheorems, TLAPS

USE ClockAssumption, AbsentAssumption DEF Clock, Time

WeekInv == TypeOK /\ WeekBooks

-------------------------------------------------------------------------------
(* The calendar.                                                           *)

\* Later times are not in earlier weeks.
LEMMA WeekMonotone ==
  ASSUME NEW s \in Clock, NEW t \in Clock, s <= t
  PROVE  WeekOf(s) <= WeekOf(t)
BY DEF WeekOf

\* Weeks are integers, and every time lies in one.
LEMMA WeekType ==
  /\ \A t \in Clock : WeekOf(t) \in Week
  /\ Week \subseteq Int
BY DEF Week, WeekOf

-------------------------------------------------------------------------------
(* The invariant.                                                          *)

\* Recording a check keeps the type of a bucket, and leaves its mark alone.
LEMMA RecordedType ==
  ASSUME NEW b \in Bucket, NEW c \in CheckRecord
  PROVE  /\ Recorded(b, c) \in Bucket
         /\ Recorded(b, c).delivered = b.delivered
<1> DEFINE failed == c.kind # NoKind
           run == IF failed THEN b.streak + 1 ELSE 0
           counts == [k \in FailureKind |-> b.counts[k] + Count(k = c.kind)]
           total == b.total + Count(failed)
           incidents == b.incidents + Count(failed /\ ~c.before)
           recoveries == b.recoveries + Count(~failed /\ c.before)
           longest == IF run > b.longest THEN run ELSE b.longest
           first == IF failed /\ b.first = NoTime THEN c.time ELSE b.first
           last == IF failed THEN c.time ELSE b.last
<1>1. /\ b.counts \in [FailureKind -> Nat]
      /\ b.total \in Nat /\ b.incidents \in Nat /\ b.recoveries \in Nat
      /\ b.longest \in Nat /\ b.streak \in Nat
      /\ b.first \in Time /\ b.last \in Time /\ b.delivered \in Time
  BY DEF Bucket
<1>2. c.time \in Clock
  BY DEF CheckRecord
<1>3. \A x : Count(x) \in Nat
  BY DEF Count
<1>4. counts \in [FailureKind -> Nat]
  <2>1. \A k \in FailureKind : b.counts[k] + Count(k = c.kind) \in Nat
    BY <1>1, <1>3
  <2>2. QED
    BY <2>1
<1>5. total \in Nat /\ incidents \in Nat /\ recoveries \in Nat
  BY <1>1, <1>3
<1>6. longest \in Nat /\ run \in Nat
  BY <1>1
<1>7. first \in Time /\ last \in Time
  BY <1>1, <1>2
<1>8. Recorded(b, c) =
        [b EXCEPT !.counts = counts, !.total = total,
           !.incidents = incidents, !.recoveries = recoveries,
           !.longest = longest, !.streak = run, !.first = first, !.last = last]
  BY DEF Recorded
<1> HIDE DEF failed, run, counts, total, incidents, recoveries, longest, first, last
<1>9. Recorded(b, c).delivered = b.delivered
  BY <1>8 DEF Bucket
<1>10. [counts |-> counts, total |-> total, incidents |-> incidents,
        recoveries |-> recoveries, longest |-> longest, streak |-> run,
        first |-> first, last |-> last, delivered |-> b.delivered] \in Bucket
  BY <1>1, <1>4, <1>5, <1>6, <1>7 DEF Bucket
<1>11. Recorded(b, c) =
         [counts |-> counts, total |-> total, incidents |-> incidents,
          recoveries |-> recoveries, longest |-> longest, streak |-> run,
          first |-> first, last |-> last, delivered |-> b.delivered]
  BY <1>8 DEF Bucket
<1> QED BY <1>9, <1>10, <1>11

LEMMA InitialType == InitialBucket \in Bucket /\ InitialBucket.delivered = NoTime
BY DEF InitialBucket, Bucket

LEMMA InitWeek == Init => WeekInv
<1> SUFFICES ASSUME Init PROVE WeekInv
  OBVIOUS
<1>1. TypeOK
  <2>1. log \in Seq([time : Clock, kind : FailureKind \cup {NoKind}])
    BY DEF Init
  <2>2. recorded \subseteq DOMAIN log /\ unconfirmed \subseteq Week
    BY DEF Init
  <2>3. /\ buckets \in [Week -> Bucket \cup {NoBucket}]
        /\ sent \in [Week -> Nat] /\ rejected \in [Week -> Nat]
    BY DEF Init
  <2>4. QED
    BY <2>1, <2>2, <2>3 DEF Init, TypeOK, PCs
<1>2. WeekBooks
  BY DEF Init, WeekBooks, Delivering, Marked
<1>3. QED
  BY <1>1, <1>2 DEF WeekInv

\* The next check comes no earlier than the last one, so that weeks that are
\* over stay over.
LEMMA SaveWeek ==
  ASSUME WeekInv, NEW now \in Clock, NEW kind \in FailureKind \cup {NoKind},
         SaveHealth(now, kind)
  PROVE  WeekInv'
<1> USE DEF WeekInv
<1>1. /\ pc = "idle" /\ pc' = "record" /\ checked' = now
      /\ buckets' = buckets /\ recorded' = recorded
      /\ sent' = sent /\ rejected' = rejected /\ unconfirmed' = unconfirmed
      /\ checked # NoTime => checked <= now
  BY DEF SaveHealth
<1>2. /\ log' \in Seq([time : Clock, kind : FailureKind \cup {NoKind}])
      /\ DOMAIN log \subseteq DOMAIN log'
      /\ Len(log) <= Len(log')
      /\ Len(log) < MaxChecks => Len(log') = Len(log) + 1
  <2>1. CASE log' = log
    BY <2>1 DEF SaveHealth, TypeOK
  <2>2. CASE log' = Append(log, [time |-> now, kind |-> kind])
    BY <2>2 DEF TypeOK
  <2>3. QED
    BY <2>1, <2>2 DEF SaveHealth
<1>3. /\ check' \in CheckRecord /\ check'.time = now
      /\ check'.index <= Len(log')
  BY <1>2 DEF SaveHealth, TypeOK, CheckRecord
<1>4. unhealthy' \in BOOLEAN
  BY DEF SaveHealth
<1>5. TypeOK'
  BY <1>1, <1>2, <1>3, <1>4 DEF TypeOK, PCs
<1>6. \A w \in Week : ~Delivering(w) /\ ~Delivering(w)'
  BY <1>1 DEF Delivering
<1>7. Marked' = Marked
  BY <1>1 DEF Marked
<1>8. \A w \in Marked : checked' # NoTime /\ WeekOf(checked') > w
  <2> SUFFICES ASSUME NEW w \in Marked
               PROVE  now # NoTime /\ WeekOf(now) > w
    BY <1>1
  <2>1. checked \in Clock /\ WeekOf(checked) > w /\ checked <= now
    BY <1>1 DEF WeekBooks, TypeOK
  <2>2. WeekOf(checked) <= WeekOf(now)
    BY <2>1, WeekMonotone
  <2>3. w \in Int /\ WeekOf(checked) \in Int /\ WeekOf(now) \in Int
    BY <2>1, WeekType DEF Marked
  <2>4. QED
    BY <2>1, <2>2, <2>3
<1>9. WeekBooks'
  BY <1>1, <1>3, <1>6, <1>7, <1>8 DEF WeekBooks
<1>10. QED
  BY <1>5, <1>9

\* A week that is marked is not the week of a check that comes now.
LEMMA RunningWeek ==
  ASSUME WeekInv, check # NoCheck
  PROVE  /\ check \in CheckRecord /\ check.time \in Clock
         /\ WeekOf(check.time) \in Week
         /\ WeekOf(check.time) \notin Marked
<1>1. check \in CheckRecord /\ check.time \in Clock /\ checked = check.time
  BY DEF WeekInv, TypeOK, WeekBooks, CheckRecord
<1>2. WeekOf(check.time) \in Week /\ WeekOf(check.time) \in Int
  BY <1>1, WeekType
<1>3. WeekOf(check.time) \notin Marked
  BY <1>1, <1>2 DEF WeekInv, WeekBooks
<1>4. QED
  BY <1>1, <1>2, <1>3

\* A check is recorded in an unmarked bucket, which stays unmarked.
LEMMA RecordMarks ==
  ASSUME WeekInv, Record
  PROVE  /\ buckets' \in [Week -> Bucket \cup {NoBucket}]
         /\ Marked' = Marked
         /\ \A v \in Marked : buckets'[v] = buckets[v]
<1> DEFINE w == WeekOf(check.time)
           b == IF buckets[w] = NoBucket THEN InitialBucket ELSE buckets[w]
           r == Recorded(b, check)
<1>1. check # NoCheck /\ pc = "record" /\ buckets' = [buckets EXCEPT ![w] = r]
  BY DEF Record, WeekInv, WeekBooks
<1>2. check \in CheckRecord /\ w \in Week /\ w \notin Marked
  BY <1>1, RunningWeek
<1>3. b \in Bucket /\ b.delivered = NoTime
  BY <1>2, InitialType DEF WeekInv, TypeOK, Marked
<1>4. r \in Bucket /\ r.delivered = NoTime
  BY <1>2, <1>3, RecordedType
<1> HIDE DEF r, b, w
<1>5. buckets' \in [Week -> Bucket \cup {NoBucket}]
  BY <1>1, <1>2, <1>4 DEF WeekInv, TypeOK
<1>6. Marked' = Marked /\ \A v \in Marked : buckets'[v] = buckets[v]
  BY <1>1, <1>2, <1>4 DEF Marked, WeekInv, TypeOK
<1>7. QED
  BY <1>5, <1>6

LEMMA RecordWeek == ASSUME WeekInv, Record PROVE WeekInv'
<1>1. check # NoCheck /\ pc = "record" /\ check \in CheckRecord
  BY RunningWeek DEF Record, WeekInv, WeekBooks
<1>2. /\ checked' = checked /\ unhealthy' = unhealthy /\ log' = log
      /\ sent' = sent /\ rejected' = rejected /\ unconfirmed' = unconfirmed
      /\ recorded' = recorded \cup ({check.index} \ {0})
  BY DEF Record
<1>3. recorded' \subseteq DOMAIN log'
  <2>1. check.index \in Nat /\ check.index <= Len(log)
    BY <1>1 DEF WeekInv, WeekBooks, CheckRecord
  <2>2. log \in Seq([time : Clock, kind : FailureKind \cup {NoKind}])
        /\ recorded \subseteq DOMAIN log
    BY DEF WeekInv, TypeOK
  <2>3. check.index # 0 => check.index \in DOMAIN log
    BY <2>1, <2>2
  <2>4. QED
    BY <1>2, <2>2, <2>3
<1>4. \/ pc' = "deliver" /\ check' = check
      \/ pc' = "idle" /\ check' = NoCheck
  BY DEF Record, Leave
<1>5. /\ buckets' \in [Week -> Bucket \cup {NoBucket}]
      /\ Marked' = Marked
      /\ \A v \in Marked : buckets'[v] = buckets[v]
  BY RecordMarks
<1>6. TypeOK'
  BY <1>2, <1>3, <1>4, <1>5 DEF WeekInv, TypeOK, PCs
<1>7. \A v \in Week : ~Delivering(v) /\ ~Delivering(v)'
  BY <1>1, <1>4 DEF Delivering
<1>8. WeekBooks'
  BY <1>1, <1>2, <1>4, <1>5, <1>7 DEF WeekInv, WeekBooks
<1>9. QED
  BY <1>6, <1>8 DEF WeekInv

\* Setting or clearing a mark changes the mark of one week only.
LEMMA MarkType ==
  ASSUME TypeOK, NEW w \in Week, buckets[w] # NoBucket, NEW time \in Time,
         buckets' = [buckets EXCEPT ![w].delivered = time]
  PROVE  /\ buckets' \in [Week -> Bucket \cup {NoBucket}]
         /\ \A v \in Week \ {w} : buckets'[v] = buckets[v]
         /\ buckets'[w] = [buckets[w] EXCEPT !.delivered = time]
         /\ buckets'[w] \in Bucket
         /\ buckets'[w].delivered = time /\ buckets'[w].total = buckets[w].total
         /\ Marked' = IF time = NoTime THEN Marked \ {w} ELSE Marked \cup {w}
<1>1. buckets[w] \in Bucket
  BY DEF TypeOK
<1>2. /\ buckets'[w] = [buckets[w] EXCEPT !.delivered = time]
      /\ \A v \in Week \ {w} : buckets'[v] = buckets[v]
      /\ buckets' = [v \in Week |-> IF v = w THEN buckets'[w] ELSE buckets[v]]
  BY DEF TypeOK
<1>3. buckets'[w] \in Bucket
      /\ buckets'[w].delivered = time /\ buckets'[w].total = buckets[w].total
  BY <1>1, <1>2 DEF Bucket
<1>4. buckets' \in [Week -> Bucket \cup {NoBucket}]
  BY <1>2, <1>3 DEF TypeOK
<1>5. Marked' = IF time = NoTime THEN Marked \ {w} ELSE Marked \cup {w}
  BY <1>2, <1>3 DEF Marked
<1>6. QED
  BY <1>2, <1>3, <1>4, <1>5

\* The week a summary is about is over and has a row.
LEMMA EligibleWeek ==
  ASSUME Eligible(previous)
  PROVE  previous \in Week /\ buckets[previous] # NoBucket
BY DEF Eligible, BucketOf

LEMMA MarkWeek == ASSUME WeekInv, Mark PROVE WeekInv'
<1>1. /\ pc = "deliver" /\ pc' = "send" /\ check' = check /\ check # NoCheck
      /\ checked' = checked /\ unhealthy' = unhealthy
      /\ log' = log /\ recorded' = recorded
      /\ sent' = sent /\ rejected' = rejected /\ unconfirmed' = unconfirmed
      /\ Eligible(previous)
      /\ buckets' = [buckets EXCEPT ![previous].delivered = check.time]
  BY DEF Mark, ghosts, WeekInv, WeekBooks
<1>2. previous \in Week /\ buckets[previous] # NoBucket /\ previous \notin Marked
      /\ buckets[previous].total > 0
  BY <1>1, EligibleWeek DEF Eligible, Marked
<1>3. check.time \in Clock /\ checked = check.time /\ check.time # NoTime
  BY <1>1, RunningWeek DEF WeekInv, WeekBooks
<1>4. /\ buckets' \in [Week -> Bucket \cup {NoBucket}]
      /\ \A v \in Week \ {previous} : buckets'[v] = buckets[v]
      /\ buckets'[previous].total = buckets[previous].total
      /\ Marked' = Marked \cup {previous}
  BY <1>1, <1>2, <1>3, MarkType DEF WeekInv
<1>5. previous' = previous
  BY <1>1 DEF previous
<1>6. TypeOK'
  BY <1>1, <1>4 DEF WeekInv, TypeOK, PCs
<1>7. WeekOf(check.time) > previous
  <2>1. WeekOf(check.time) \in Int
    BY <1>3, WeekType
  <2>2. QED
    BY <2>1 DEF previous
<1>8. sent[previous] = rejected[previous] /\ previous \notin unconfirmed
  BY <1>2 DEF WeekInv, WeekBooks
<1>9. \A w \in Week : Delivering(w)' => /\ w \in (Marked \ unconfirmed)'
                                         /\ sent'[w] = rejected'[w]
  BY <1>1, <1>4, <1>5, <1>8 DEF Delivering
<1>10. \A w \in Marked' : /\ checked' # NoTime /\ WeekOf(checked') > w
                           /\ buckets'[w].total > 0
  BY <1>1, <1>2, <1>3, <1>4, <1>7 DEF WeekInv, WeekBooks, Marked
<1>11. WeekBooks'
  BY <1>1, <1>2, <1>4, <1>5, <1>9, <1>10 DEF WeekInv, WeekBooks
<1>12. QED
  BY <1>6, <1>11 DEF WeekInv

\* In delivery, the week is marked, over, and its calls so far were rejected.
LEMMA InDelivery ==
  ASSUME WeekInv, pc \in {"send", "release"}
  PROVE  /\ check # NoCheck
         /\ previous \in Marked \ unconfirmed /\ previous \in Week
         /\ buckets[previous] # NoBucket
         /\ sent[previous] = rejected[previous]
BY DEF WeekInv, WeekBooks, Delivering, Marked

\* Calling the channel counts one more call for that week.
LEMMA CountType ==
  ASSUME TypeOK, CountSend, previous \in Week
  PROVE  /\ sent' \in [Week -> Nat]
         /\ \A w \in Week : sent'[w] = IF w = previous THEN sent[w] + 1 ELSE sent[w]
BY DEF TypeOK, CountSend

LEMMA SendWeek ==
  ASSUME WeekInv, SendAccepted \/ SendRejected \/ InterruptedSend
  PROVE  WeekInv'
<1>1. /\ pc = "send" /\ CountSend
      /\ checked' = checked /\ unhealthy' = unhealthy /\ buckets' = buckets
      /\ log' = log /\ recorded' = recorded
  BY DEF SendAccepted, SendRejected, InterruptedSend, durable
<1>2. /\ check # NoCheck /\ previous \in Marked \ unconfirmed
      /\ previous \in Week /\ sent[previous] = rejected[previous]
  BY <1>1, InDelivery
<1>3. /\ sent' \in [Week -> Nat]
      /\ \A w \in Week : sent'[w] = IF w = previous THEN sent[w] + 1 ELSE sent[w]
  BY <1>1, <1>2, CountType DEF WeekInv
<1>4. Marked' = Marked
  BY <1>1 DEF Marked
<1>5. CASE SendAccepted \/ InterruptedSend
  <2>1. /\ pc' \in {"idle", "down"} /\ check' = NoCheck /\ rejected' = rejected
        /\ unconfirmed' \in {unconfirmed, unconfirmed \cup {previous}}
    BY <1>5 DEF SendAccepted, InterruptedSend, LeaveUnconfirmed, Leave
  <2>2. TypeOK'
    BY <1>1, <1>2, <1>3, <2>1 DEF WeekInv, TypeOK, PCs
  <2>3. \A w \in Week : ~Delivering(w)'
    BY <2>1 DEF Delivering
  <2>4. ASSUME NEW w \in Week
        PROVE  \/ sent'[w] = rejected'[w]
               \/ w \in Marked /\ sent'[w] = rejected'[w] + 1
    <3>1. CASE w = previous
      BY <1>2, <1>3, <2>1, <3>1
    <3>2. CASE w # previous
      BY <1>3, <2>1, <3>2 DEF WeekInv, WeekBooks
    <3>3. QED
      BY <3>1, <3>2
  <2>5. WeekBooks'
    BY <1>1, <1>2, <1>4, <2>1, <2>3, <2>4 DEF WeekInv, WeekBooks
  <2>6. QED
    BY <2>2, <2>5 DEF WeekInv
<1>6. CASE SendRejected
  <2>1. /\ pc' = "release" /\ check' = check /\ unconfirmed' = unconfirmed
        /\ rejected' = [rejected EXCEPT ![previous] = @ + 1]
    BY <1>6 DEF SendRejected
  <2>2. /\ rejected' \in [Week -> Nat]
        /\ \A w \in Week : rejected'[w] = IF w = previous THEN rejected[w] + 1
                                                           ELSE rejected[w]
    BY <1>2, <2>1 DEF WeekInv, TypeOK
  <2>3. TypeOK'
    BY <1>1, <1>3, <2>1, <2>2 DEF WeekInv, TypeOK, PCs
  <2>4. previous' = previous
    BY <2>1 DEF previous
  <2>5. \A w \in Week : Delivering(w)' => /\ w \in Marked \ unconfirmed
                                          /\ sent'[w] = rejected'[w]
    BY <1>2, <1>3, <2>2, <2>4 DEF Delivering
  <2>6. ASSUME NEW w \in Week
        PROVE  \/ sent'[w] = rejected'[w]
               \/ w \in Marked /\ sent'[w] = rejected'[w] + 1
    <3>1. CASE w = previous
      BY <1>2, <1>3, <2>2, <3>1
    <3>2. CASE w # previous
      BY <1>3, <2>2, <3>2 DEF WeekInv, WeekBooks
    <3>3. QED
      BY <3>1, <3>2
  <2>7. WeekBooks'
    BY <1>1, <1>2, <1>4, <2>1, <2>4, <2>5, <2>6 DEF WeekInv, WeekBooks
  <2>8. QED
    BY <2>3, <2>7 DEF WeekInv
<1>7. QED
  BY <1>5, <1>6

LEMMA ReleaseWeek == ASSUME WeekInv, Release PROVE WeekInv'
<1>1. /\ pc = "release" /\ pc' = "idle" /\ check' = NoCheck
      /\ checked' = checked /\ unhealthy' = unhealthy
      /\ log' = log /\ recorded' = recorded
      /\ sent' = sent /\ rejected' = rejected /\ unconfirmed' = unconfirmed
      /\ buckets' = [buckets EXCEPT ![previous].delivered = NoTime]
  BY DEF Release, Leave, ghosts
<1>2. /\ previous \in Marked \ unconfirmed /\ previous \in Week
      /\ buckets[previous] # NoBucket /\ sent[previous] = rejected[previous]
  BY <1>1, InDelivery
<1>3. /\ buckets' \in [Week -> Bucket \cup {NoBucket}]
      /\ \A v \in Week \ {previous} : buckets'[v] = buckets[v]
      /\ Marked' = Marked \ {previous}
  BY <1>1, <1>2, MarkType DEF WeekInv
<1>4. TypeOK'
  BY <1>1, <1>3 DEF WeekInv, TypeOK, PCs
<1>5. \A w \in Week : ~Delivering(w)'
  BY <1>1 DEF Delivering
<1>6. \A w \in Marked' : /\ checked' # NoTime /\ WeekOf(checked') > w
                          /\ buckets'[w].total > 0
  BY <1>1, <1>3 DEF WeekInv, WeekBooks, Marked
<1>7. WeekBooks'
  BY <1>1, <1>2, <1>3, <1>5, <1>6 DEF WeekInv, WeekBooks
<1>8. QED
  BY <1>4, <1>7 DEF WeekInv

\* Steps that leave the table and the counts alone.
LEMMA LeaveWeek ==
  ASSUME WeekInv, NothingToReport \/ Interrupt \/ Restart
  PROVE  WeekInv'
<1>1. /\ pc' \in {"idle", "down"} /\ check' = NoCheck
      /\ checked' = checked /\ unhealthy' = unhealthy /\ buckets' = buckets
      /\ log' = log /\ recorded' = recorded
      /\ sent' = sent /\ rejected' = rejected
      /\ \/ unconfirmed' = unconfirmed
         \/ pc \in {"send", "release"} /\ unconfirmed' = unconfirmed \cup {previous}
  BY DEF NothingToReport, Interrupt, Restart, LeaveUnconfirmed, Leave, durable, ghosts
<1>2. unconfirmed' \subseteq Marked /\ Marked' = Marked
  BY <1>1, InDelivery DEF WeekInv, WeekBooks, Marked
<1>3. TypeOK'
  BY <1>1, <1>2 DEF WeekInv, TypeOK, PCs, Marked
<1>4. \A w \in Week : ~Delivering(w)'
  BY <1>1 DEF Delivering
<1>5. WeekBooks'
  BY <1>1, <1>2, <1>4 DEF WeekInv, WeekBooks
<1>6. QED
  BY <1>3, <1>5 DEF WeekInv

LEMMA WeekInvariant == Spec => []WeekInv
<1>1. WeekInv /\ [Next]_vars => WeekInv'
  <2> SUFFICES ASSUME WeekInv, [Next]_vars PROVE WeekInv'
    OBVIOUS
  <2>1. ASSUME NEW now \in Clock, NEW kind \in FailureKind \cup {NoKind},
               SaveHealth(now, kind)
        PROVE  WeekInv'
    BY <2>1, SaveWeek
  <2>2. CASE Record
    BY <2>2, RecordWeek
  <2>3. CASE Mark
    BY <2>3, MarkWeek
  <2>4. CASE SendAccepted \/ SendRejected \/ InterruptedSend
    BY <2>4, SendWeek
  <2>5. CASE Release
    BY <2>5, ReleaseWeek
  <2>6. CASE NothingToReport \/ Interrupt \/ Restart
    BY <2>6, LeaveWeek
  <2>7. CASE UNCHANGED vars
    <3>1. WeekBooks'
      BY <2>7 DEF vars, durable, ghosts, WeekInv, WeekBooks, Marked, Delivering,
                  previous
    <3>2. QED
      BY <2>7, <3>1 DEF vars, durable, ghosts, WeekInv, TypeOK
  <2>8. QED
    BY <2>1, <2>2, <2>3, <2>4, <2>5, <2>6, <2>7 DEF Next
<1>2. QED
  BY <1>1, InitWeek, PTL DEF Spec

-------------------------------------------------------------------------------
(* Theorems.                                                               *)

\* The type invariant holds for every calendar, set of causes and bound.
THEOREM TypeCorrect == Spec => []TypeOK
<1>1. WeekInv => TypeOK
  BY DEF WeekInv
<1>2. QED
  BY <1>1, WeekInvariant, PTL

\* One week's summary is handed over once for every reported failure and at most
\* once more, whatever is interrupted.
THEOREM SummaryDeliveredOnce == Spec => []OneReportPerWeek
<1>1. WeekInv => OneReportPerWeek
  <2> SUFFICES ASSUME WeekInv, NEW w \in Week PROVE sent[w] <= rejected[w] + 1
    BY DEF OneReportPerWeek
  <2>1. sent[w] \in Nat /\ rejected[w] \in Nat
    BY DEF WeekInv, TypeOK
  <2>2. sent[w] = rejected[w] \/ sent[w] = rejected[w] + 1
    BY DEF WeekInv, WeekBooks
  <2>3. QED
    BY <2>1, <2>2
<1>2. QED
  BY <1>1, WeekInvariant, PTL

\* What is marked never changes but for its mark, because no check is recorded
\* in a week that is over.
THEOREM MarkedIsFinal == Spec => MarkedBucketFinal
<1> DEFINE Final == \A w \in Marked :
                      buckets'[w] # buckets[w] =>
                        buckets'[w] = [buckets[w] EXCEPT !.delivered = NoTime]
<1>1. WeekInv /\ [Next]_vars => [Final]_vars
  <2> SUFFICES ASSUME WeekInv, [Next]_vars PROVE Final
    OBVIOUS
  <2>1. CASE buckets' = buckets
    BY <2>1
  <2>2. CASE Record
    BY <2>2, RecordMarks
  <2>3. CASE Mark
    <3>1. /\ previous \in Week /\ previous \notin Marked
          /\ \E b : buckets' = [buckets EXCEPT ![previous] = b]
      BY <2>3, EligibleWeek DEF Mark, Eligible, Marked
    <3>2. QED
      BY <3>1 DEF WeekInv, TypeOK, Marked
  <2>4. CASE Release
    <3>1. /\ buckets' = [buckets EXCEPT ![previous].delivered = NoTime]
          /\ previous \in Week /\ buckets[previous] # NoBucket
      BY <2>4, InDelivery DEF Release
    <3>2. /\ \A v \in Week \ {previous} : buckets'[v] = buckets[v]
          /\ buckets'[previous] = [buckets[previous] EXCEPT !.delivered = NoTime]
      BY <3>1, MarkType DEF WeekInv
    <3>3. QED
      BY <3>2 DEF Marked
  <2>5. QED
    BY <2>1, <2>2, <2>3, <2>4
       DEF Next, vars, durable, SaveHealth, NothingToReport, SendAccepted,
           SendRejected, Interrupt, InterruptedSend, Restart
<1>2. QED
  BY <1>1, WeekInvariant, PTL DEF Spec, MarkedBucketFinal

-------------------------------------------------------------------------------
(* A mark that was not delivered is in delivery or was cut off.            *)


\* Marking starts a delivery; every way out of one leaves a reason for the mark.
LEMMA SilenceStep ==
  WeekInv /\ SilencedOnlyByInterruption /\ [Next]_vars => SilencedOnlyByInterruption'
<1> SUFFICES ASSUME WeekInv, SilencedOnlyByInterruption, [Next]_vars,
                    NEW w \in Week, w \in Marked'
             PROVE  sent'[w] > rejected'[w] \/ w \in unconfirmed' \/ Delivering(w)'
  BY DEF SilencedOnlyByInterruption, Marked, Delivered
<1>0. /\ sent[w] \in Nat /\ rejected[w] \in Nat
      /\ w \in Marked => sent[w] > rejected[w] \/ w \in unconfirmed \/ Delivering(w)
  BY DEF WeekInv, TypeOK, SilencedOnlyByInterruption, Delivered
<1>1. CASE Mark
  <2>1. previous \in Week /\ buckets[previous] # NoBucket /\ check.time \in Time
    BY <1>1, EligibleWeek, RunningWeek DEF Mark, WeekInv, WeekBooks
  <2>2. Marked' = Marked \cup {previous}
    <3>1. check.time # NoTime
      BY <1>1, RunningWeek DEF Mark, WeekInv, WeekBooks
    <3>2. QED
      BY <1>1, <2>1, <3>1, MarkType DEF Mark, WeekInv
  <2>3. /\ pc = "deliver" /\ pc' = "send" /\ previous' = previous
        /\ sent' = sent /\ rejected' = rejected /\ unconfirmed' = unconfirmed
    BY <1>1 DEF Mark, ghosts, previous
  <2>4. QED
    BY <1>0, <2>2, <2>3 DEF Delivering
<1>2. CASE SendAccepted \/ InterruptedSend
  <2>1. /\ pc = "send" /\ CountSend /\ Marked' = Marked /\ rejected' = rejected
        /\ unconfirmed \subseteq unconfirmed'
    BY <1>2 DEF SendAccepted, InterruptedSend, LeaveUnconfirmed, durable, Marked
  <2>2. /\ previous \in Week /\ sent[previous] = rejected[previous]
        /\ sent'[w] = IF w = previous THEN sent[w] + 1 ELSE sent[w]
    BY <2>1, InDelivery, CountType DEF WeekInv
  <2>3. CASE w = previous
    BY <1>0, <2>1, <2>2, <2>3
  <2>4. CASE w # previous
    BY <1>0, <2>1, <2>2, <2>4 DEF Delivering
  <2>5. QED
    BY <2>3, <2>4
<1>3. CASE SendRejected
  <2>1. /\ pc = "send" /\ pc' = "release" /\ CountSend /\ Marked' = Marked
        /\ unconfirmed' = unconfirmed /\ previous' = previous
        /\ rejected' = [rejected EXCEPT ![previous] = @ + 1]
    BY <1>3 DEF SendRejected, durable, Marked, previous
  <2>2. CASE w = previous
    BY <2>1, <2>2 DEF Delivering
  <2>3. CASE w # previous
    <3>1. sent'[w] = sent[w] /\ rejected'[w] = rejected[w]
      BY <2>1, <2>3, InDelivery, CountType DEF WeekInv, TypeOK
    <3>2. QED
      BY <1>0, <2>1, <2>3, <3>1 DEF Delivering
  <2>4. QED
    BY <2>2, <2>3
<1>4. CASE Release
  <2>1. /\ pc = "release" /\ sent' = sent /\ rejected' = rejected
        /\ unconfirmed' = unconfirmed /\ Marked' = Marked \ {previous}
    BY <1>4, InDelivery, MarkType DEF Release, ghosts, WeekInv
  <2>2. QED
    BY <1>0, <2>1 DEF Delivering
<1>5. CASE Interrupt
  <2>1. /\ sent' = sent /\ rejected' = rejected /\ Marked' = Marked
        /\ unconfirmed' = IF pc \in {"send", "release"}
                          THEN unconfirmed \cup {previous} ELSE unconfirmed
    BY <1>5 DEF Interrupt, LeaveUnconfirmed, durable, Marked
  <2>2. QED
    BY <1>0, <2>1 DEF Delivering
<1>6. CASE Record
  <2>1. /\ pc = "record" /\ sent' = sent /\ rejected' = rejected
        /\ unconfirmed' = unconfirmed
    BY <1>6 DEF Record
  <2>2. Marked' = Marked
    BY <1>6, RecordMarks
  <2>3. QED
    BY <1>0, <2>1, <2>2 DEF Delivering
<1>7. CASE \/ NothingToReport \/ Restart \/ UNCHANGED vars
           \/ (\E now \in Clock, kind \in FailureKind \cup {NoKind} :
                  SaveHealth(now, kind))
  <2>1. /\ sent' = sent /\ rejected' = rejected /\ unconfirmed' = unconfirmed
        /\ Marked' = Marked
        /\ pc \in {"send", "release"} => pc' = pc /\ previous' = previous
    BY <1>7 DEF NothingToReport, Restart, SaveHealth, vars, durable, ghosts, Marked,
                previous
  <2>2. QED
    BY <1>0, <2>1 DEF Delivering
<1>8. QED
  BY <1>1, <1>2, <1>3, <1>4, <1>5, <1>6, <1>7 DEF Next

\* No reported failure uses up the week's summary.
THEOREM OnlyInterruptionSilences == Spec => []SilencedOnlyByInterruption
<1>1. Init => SilencedOnlyByInterruption
  BY DEF Init, SilencedOnlyByInterruption, Marked
<1>2. QED
  BY <1>1, SilenceStep, WeekInvariant, PTL DEF Spec

-------------------------------------------------------------------------------
(* Refinement of ReservedDelivery.                                         *)

\* Every step claims, accepts or withdraws one week, or leaves both sets alone.
LEMMA StepRefines ==
  WeekInv /\ [Next]_vars => [Summaries!Next]_(Summaries!vars)
<1> SUFFICES ASSUME WeekInv, [Next]_vars
             PROVE  Summaries!Next \/ UNCHANGED Summaries!vars
  OBVIOUS
<1>1. CASE \/ NothingToReport \/ Interrupt \/ Restart \/ Record \/ UNCHANGED vars
           \/ (\E now \in Clock, kind \in FailureKind \cup {NoKind} :
                  SaveHealth(now, kind))
  <2>1. sent' = sent /\ rejected' = rejected
    BY <1>1 DEF NothingToReport, Interrupt, Restart, Record, SaveHealth, vars, ghosts
  <2>2. Marked' = Marked
    <3>1. CASE Record
      BY <3>1, RecordMarks
    <3>2. CASE buckets' = buckets
      BY <3>2 DEF Marked
    <3>3. QED
      BY <1>1, <3>1, <3>2
         DEF NothingToReport, Interrupt, Restart, SaveHealth, vars, durable
  <2>3. QED
    BY <2>1, <2>2 DEF Summaries!vars, Delivered
<1>2. CASE Mark
  <2>1. PICK w \in Week : w = previous
    BY <1>2, EligibleWeek DEF Mark
  <2>2. /\ check.time \in Clock /\ check.time # NoTime
        /\ w \notin Marked /\ buckets[w] # NoBucket
    BY <1>2, <2>1, RunningWeek, EligibleWeek
       DEF Mark, WeekInv, WeekBooks, Eligible, Marked
  <2>3. Marked' = Marked \cup {w}
    BY <1>2, <2>1, <2>2, MarkType DEF Mark, WeekInv
  <2>4. Delivered' = Delivered
    BY <1>2 DEF Mark, ghosts, Delivered
  <2>5. Summaries!Claim(w)
    BY <2>2, <2>3, <2>4 DEF Summaries!Claim
  <2>6. QED
    BY <2>5 DEF Summaries!Next
<1>3. CASE SendAccepted \/ InterruptedSend
  <2>1. PICK w \in Week : w = previous
    BY <1>3, InDelivery DEF SendAccepted, InterruptedSend
  <2>2. w \in Marked /\ sent[w] = rejected[w]
    BY <1>3, <2>1, InDelivery DEF SendAccepted, InterruptedSend
  <2>3. /\ Marked' = Marked /\ rejected' = rejected
        /\ \A v \in Week : sent'[v] = IF v = w THEN sent[v] + 1 ELSE sent[v]
    BY <1>3, <2>1, CountType
       DEF SendAccepted, InterruptedSend, durable, Marked, WeekInv
  <2>4. ASSUME NEW v \in Week
        PROVE  sent'[v] > rejected'[v] <=> sent[v] > rejected[v] \/ v = w
    <3>1. sent[v] \in Nat /\ rejected[v] \in Nat
      BY DEF WeekInv, TypeOK
    <3>2. CASE v = w
      BY <2>2, <2>3, <3>1, <3>2
    <3>3. CASE v # w
      BY <2>3, <3>3
    <3>4. QED
      BY <3>2, <3>3
  <2>5. Delivered' = Delivered \cup {w}
    BY <2>4 DEF Delivered
  <2>6. w \notin Delivered
    BY <2>2 DEF Delivered, WeekInv, TypeOK
  <2>7. Summaries!Accept(w)
    BY <2>2, <2>3, <2>5, <2>6 DEF Summaries!Accept
  <2>8. QED
    BY <2>7 DEF Summaries!Next
<1>4. CASE SendRejected
  <2>1. PICK w \in Week : w = previous
    BY <1>4, InDelivery DEF SendRejected
  <2>2. /\ Marked' = Marked
        /\ \A v \in Week : sent'[v] = IF v = w THEN sent[v] + 1 ELSE sent[v]
        /\ \A v \in Week : rejected'[v] = IF v = w THEN rejected[v] + 1
                                                   ELSE rejected[v]
    BY <1>4, <2>1, CountType DEF SendRejected, durable, Marked, WeekInv, TypeOK
  <2>3. ASSUME NEW v \in Week
        PROVE  sent'[v] > rejected'[v] <=> sent[v] > rejected[v]
    <3>1. sent[v] \in Nat /\ rejected[v] \in Nat
      BY DEF WeekInv, TypeOK
    <3>2. CASE v = w
      BY <2>2, <3>1, <3>2
    <3>3. CASE v # w
      BY <2>2, <3>3
    <3>4. QED
      BY <3>2, <3>3
  <2>4. Delivered' = Delivered
    BY <2>3 DEF Delivered
  <2>5. QED
    BY <2>2, <2>4 DEF Summaries!vars
<1>5. CASE Release
  <2>1. PICK w \in Week : w = previous
    BY <1>5, InDelivery DEF Release
  <2>2. w \in Marked /\ sent[w] = rejected[w] /\ buckets[w] # NoBucket
    BY <1>5, <2>1, InDelivery DEF Release
  <2>3. Marked' = Marked \ {w}
    BY <1>5, <2>1, <2>2, MarkType DEF Release, WeekInv
  <2>4. w \notin Delivered /\ Delivered' = Delivered
    BY <1>5, <2>2 DEF Release, ghosts, Delivered, WeekInv, TypeOK
  <2>5. Summaries!Withdraw(w)
    BY <2>2, <2>3, <2>4 DEF Summaries!Withdraw
  <2>6. QED
    BY <2>5 DEF Summaries!Next
<1>6. QED
  BY <1>1, <1>2, <1>3, <1>4, <1>5 DEF Next

\* Marking, sending and unmarking weeks implements the abstract promise.
THEOREM SummariesRefine == Spec => ImplementsReservedDelivery
<1>1. Init => Summaries!Init
  BY DEF Init, Summaries!Init, Marked, Delivered
<1>2. QED
  BY <1>1, StepRefines, WeekInvariant, PTL
     DEF Spec, ImplementsReservedDelivery, Summaries!Spec

\* The mark of a delivered week is never taken back, so its summary is not sent
\* again, whatever fails afterwards.
THEOREM SummariesStayMarked == Spec => []Summaries!AcceptedIsClaimed /\ Summaries!NothingRevoked
<1>1. Summaries!Init => Summaries!AcceptedIsClaimed
  BY DEF Summaries!Init, Summaries!AcceptedIsClaimed
<1>2. Summaries!AcceptedIsClaimed /\ [Summaries!Next]_Summaries!vars
        => Summaries!AcceptedIsClaimed' /\ [Delivered \subseteq Delivered']_Summaries!vars
  BY DEF Summaries!AcceptedIsClaimed, Summaries!Next, Summaries!Claim, Summaries!Accept, Summaries!Withdraw, Summaries!vars
<1> QED BY <1>1, <1>2, SummariesRefine, PTL
    DEF ImplementsReservedDelivery, Summaries!Spec, Summaries!NothingRevoked

-------------------------------------------------------------------------------
(* The counts of a bucket.  The definitions of BucketsCountChecks over any *)
(* log L and any set R of recorded positions.                              *)

UnhealthyAt(L, i) == i > 0 /\ L[i].kind # NoKind
Failing(L, R) == {i \in R : L[i].kind # NoKind}
Ongoing(L, R) ==
  {i \in Failing(L, R) : \A j \in R : j >= i => L[j].kind # NoKind}
RunsIn(L, R) ==
  {S \in SUBSET Failing(L, R) :
     \A i \in R : L[i].kind = NoKind => \/ \A j \in S : j < i
                                       \/ \A j \in S : i < j}

CountsAgree(b, L, R) ==
  /\ b.total = Cardinality(Failing(L, R))
  /\ \A k \in FailureKind : b.counts[k] = Cardinality({i \in Failing(L, R) : L[i].kind = k})
  /\ b.incidents = Cardinality({i \in Failing(L, R) : ~UnhealthyAt(L, i - 1)})
  /\ b.recoveries = Cardinality({i \in R \ Failing(L, R) : UnhealthyAt(L, i - 1)})

StreaksAgree(b, L, R) ==
  /\ \A S \in RunsIn(L, R) : Cardinality(S) <= b.longest
  /\ \E S \in RunsIn(L, R) : Cardinality(S) = b.longest
  /\ b.streak = Cardinality(Ongoing(L, R))

TimesAgree(b, L, R) ==
  /\ Failing(L, R) = {} <=> b.first = NoTime
  /\ \A i \in Failing(L, R) : b.first <= L[i].time /\ L[i].time <= b.last

Agrees(b, L, R) == CountsAgree(b, L, R) /\ StreaksAgree(b, L, R) /\ TimesAgree(b, L, R)

AllAgree ==
  \A w \in Week : IF buckets[w] = NoBucket THEN RecordedIn(w) = {}
                  ELSE Agrees(buckets[w], log, RecordedIn(w))

LEMMA AgreementIsCounting ==
  (BucketsCountChecks <=> AllAgree) /\ (BucketsCountChecks' <=> AllAgree')
BY DEF BucketsCountChecks, AllAgree, Agrees, CountsAgree, StreaksAgree, TimesAgree, UnhealthyAt, Failing,
  Ongoing, RunsIn, Runs, Failed

\* An agreement depends on what it counts only.
LEMMA SameAgreement ==
  ASSUME NEW b, NEW d, NEW L, NEW M, NEW R, R \subseteq Nat \ {0},
         \A i \in R : L[i] = M[i] /\ (i > 1 => L[i - 1] = M[i - 1]),
         /\ b.counts = d.counts /\ b.total = d.total /\ b.incidents = d.incidents
         /\ b.recoveries = d.recoveries /\ b.longest = d.longest /\ b.streak = d.streak
         /\ b.first = d.first /\ b.last = d.last,
         Agrees(b, L, R)
  PROVE  Agrees(d, M, R)
<1>1. Failing(L, R) = Failing(M, R)
  BY DEF Failing
<1>2. \A i \in R : UnhealthyAt(L, i - 1) <=> UnhealthyAt(M, i - 1)
  BY DEF UnhealthyAt
<1>3. Ongoing(L, R) = Ongoing(M, R) /\ RunsIn(L, R) = RunsIn(M, R)
  BY <1>1 DEF Ongoing, RunsIn
<1>4. CountsAgree(d, M, R)
  <2>1. \A k : {i \in Failing(L, R) : L[i].kind = k} = {i \in Failing(M, R) : M[i].kind = k}
    BY <1>1 DEF Failing
  <2>2. {i \in Failing(L, R) : ~UnhealthyAt(L, i - 1)}
          = {i \in Failing(M, R) : ~UnhealthyAt(M, i - 1)}
    BY <1>1, <1>2 DEF Failing
  <2>3. {i \in R \ Failing(L, R) : UnhealthyAt(L, i - 1)}
          = {i \in R \ Failing(M, R) : UnhealthyAt(M, i - 1)}
    BY <1>1, <1>2
  <2> QED BY <1>1, <2>1, <2>2, <2>3 DEF Agrees, CountsAgree
<1>5. StreaksAgree(d, M, R)
  BY <1>3 DEF Agrees, StreaksAgree
<1>6. TimesAgree(d, M, R)
  BY <1>1 DEF Agrees, TimesAgree, Failing
<1> QED BY <1>4, <1>5, <1>6 DEF Agrees

\* A new bucket agrees with no check at all.
LEMMA InitialAgrees == ASSUME NEW L PROVE Agrees(InitialBucket, L, {})
<1>1. Failing(L, {}) = {} /\ Ongoing(L, {}) = {} /\ RunsIn(L, {}) = {{}}
  BY DEF Failing, Ongoing, RunsIn
<1>2. /\ \A k : {i \in {} : L[i].kind = k} = {}
      /\ {i \in {} : ~UnhealthyAt(L, i - 1)} = {}
      /\ {i \in {} \ {} : UnhealthyAt(L, i - 1)} = {}
  OBVIOUS
<1>3. Cardinality({}) = 0
  BY FS_EmptySet
<1>4. CountsAgree(InitialBucket, L, {})
  BY <1>1, <1>2, <1>3 DEF CountsAgree, InitialBucket
<1>5. StreaksAgree(InitialBucket, L, {})
  <2>1. InitialBucket.longest = 0 /\ InitialBucket.streak = 0
    BY DEF InitialBucket
  <2>2. \A S \in RunsIn(L, {}) : Cardinality(S) = 0
    BY <1>1, <1>3
  <2>3. {} \in RunsIn(L, {}) /\ Cardinality(Ongoing(L, {})) = 0
    BY <1>1, <1>3
  <2> QED BY <1>3, <2>1, <2>2, <2>3 DEF StreaksAgree
<1>6. TimesAgree(InitialBucket, L, {})
  BY <1>1 DEF TimesAgree, InitialBucket
<1> QED BY <1>4, <1>5, <1>6 DEF Agrees

\* What Recorded does to each part of a bucket.
LEMMA RecordedParts ==
  ASSUME NEW b \in Bucket, NEW c
  PROVE  LET failed == c.kind # NoKind
             run == IF failed THEN b.streak + 1 ELSE 0
             d == Recorded(b, c)
         IN  /\ \A k \in FailureKind : d.counts[k] = b.counts[k] + Count(k = c.kind)
             /\ d.total = b.total + Count(failed)
             /\ d.incidents = b.incidents + Count(failed /\ ~c.before)
             /\ d.recoveries = b.recoveries + Count(~failed /\ c.before)
             /\ d.longest = IF run > b.longest THEN run ELSE b.longest
             /\ d.streak = run
             /\ d.first = IF failed /\ b.first = NoTime THEN c.time ELSE b.first
             /\ d.last = IF failed THEN c.time ELSE b.last
BY DEF Recorded, Bucket

\* Position i of log L holds the check c, which comes after those at R.
Follows(L, R, i, c) ==
  /\ IsFiniteSet(R) /\ R \subseteq Nat \ {0} /\ i \in Nat \ {0} /\ \A j \in R : j < i
  /\ L[i].kind = c.kind /\ L[i].time = c.time
  /\ c.before <=> UnhealthyAt(L, i - 1)
  /\ \A j \in R : L[j].time \in Clock /\ L[j].time <= c.time

\* Counting one element more.
LEMMA CountOne ==
  ASSUME NEW S, IsFiniteSet(S), NEW x, x \notin S, NEW condition \in BOOLEAN
  PROVE  Cardinality(S \cup (IF condition THEN {x} ELSE {})) = Cardinality(S) + Count(condition)
<1>1. Cardinality(S) \in Nat
  BY FS_CardinalityType
<1>2. CASE condition
  BY <1>2, FS_AddElement DEF Count
<1>3. CASE ~condition
  BY <1>1, <1>3 DEF Count
<1> QED BY <1>2, <1>3

LEMMA CountsFollow ==
  ASSUME NEW b \in Bucket, NEW c \in CheckRecord, NEW L, NEW R, NEW i,
         Follows(L, R, i, c), CountsAgree(b, L, R)
  PROVE  CountsAgree(Recorded(b, c), L, R \cup {i})
<1> DEFINE failed == c.kind # NoKind
           One(condition) == IF condition THEN {i} ELSE {}
<1>1. i \notin R /\ c.before \in BOOLEAN
  BY DEF Follows, CheckRecord
<1>2. ASSUME NEW S \in SUBSET R PROVE IsFiniteSet(S) /\ i \notin S
  BY <1>1, FS_Subset DEF Follows
<1>3. Failing(L, R \cup {i}) = Failing(L, R) \cup One(failed)
  BY DEF Failing, Follows
<1>4. ASSUME NEW k \in FailureKind
      PROVE  {j \in Failing(L, R \cup {i}) : L[j].kind = k}
               = {j \in Failing(L, R) : L[j].kind = k} \cup One(k = c.kind)
  BY <1>4 DEF Failing, Follows
<1>5. {j \in Failing(L, R \cup {i}) : ~UnhealthyAt(L, j - 1)}
        = {j \in Failing(L, R) : ~UnhealthyAt(L, j - 1)} \cup One(failed /\ ~c.before)
  BY DEF Failing, Follows
<1>6. {j \in (R \cup {i}) \ Failing(L, R \cup {i}) : UnhealthyAt(L, j - 1)}
        = {j \in R \ Failing(L, R) : UnhealthyAt(L, j - 1)} \cup One(~failed /\ c.before)
  BY <1>1 DEF Failing, Follows
<1>7. /\ Failing(L, R) \in SUBSET R
      /\ \A k : {j \in Failing(L, R) : L[j].kind = k} \in SUBSET R
      /\ {j \in Failing(L, R) : ~UnhealthyAt(L, j - 1)} \in SUBSET R
      /\ {j \in R \ Failing(L, R) : UnhealthyAt(L, j - 1)} \in SUBSET R
  BY DEF Failing
<1>8. ASSUME NEW S \in SUBSET R, NEW condition \in BOOLEAN
      PROVE  Cardinality(S \cup One(condition)) = Cardinality(S) + Count(condition)
  BY <1>2, CountOne
<1>9. /\ \A k \in FailureKind : Recorded(b, c).counts[k] = b.counts[k] + Count(k = c.kind)
      /\ Recorded(b, c).total = b.total + Count(failed)
      /\ Recorded(b, c).incidents = b.incidents + Count(failed /\ ~c.before)
      /\ Recorded(b, c).recoveries = b.recoveries + Count(~failed /\ c.before)
  BY RecordedParts
<1> HIDE DEF One, failed
<1>10. Recorded(b, c).total = Cardinality(Failing(L, R \cup {i}))
  <2>1. failed \in BOOLEAN
    BY DEF failed
  <2>2. Cardinality(Failing(L, R) \cup One(failed)) = Cardinality(Failing(L, R)) + Count(failed)
    BY <1>7, <1>8, <2>1
  <2> QED BY <1>3, <1>9, <2>2 DEF CountsAgree
<1>11. ASSUME NEW k \in FailureKind
       PROVE  Recorded(b, c).counts[k]
                = Cardinality({j \in Failing(L, R \cup {i}) : L[j].kind = k})
  <2> DEFINE S == {j \in Failing(L, R) : L[j].kind = k}
  <2>1. S \in SUBSET R
    BY <1>7
  <2>2. {j \in Failing(L, R \cup {i}) : L[j].kind = k} = S \cup One(k = c.kind)
    BY <1>4
  <2>3. b.counts[k] = Cardinality(S)
    BY DEF CountsAgree
  <2> HIDE DEF S
  <2>4. Cardinality(S \cup One(k = c.kind)) = Cardinality(S) + Count(k = c.kind)
    BY <1>8, <2>1
  <2> QED BY <1>9, <2>2, <2>3, <2>4
<1>12. Recorded(b, c).incidents
         = Cardinality({j \in Failing(L, R \cup {i}) : ~UnhealthyAt(L, j - 1)})
  <2> DEFINE S == {j \in Failing(L, R) : ~UnhealthyAt(L, j - 1)}
  <2>1. S \in SUBSET R
    BY <1>7
  <2>2. {j \in Failing(L, R \cup {i}) : ~UnhealthyAt(L, j - 1)} = S \cup One(failed /\ ~c.before)
    BY <1>5
  <2>3. b.incidents = Cardinality(S)
    BY DEF CountsAgree
  <2>4. (failed /\ ~c.before) \in BOOLEAN
    BY DEF failed
  <2> HIDE DEF S
  <2>5. Cardinality(S \cup One(failed /\ ~c.before))
          = Cardinality(S) + Count(failed /\ ~c.before)
    BY <1>8, <2>1, <2>4
  <2> QED BY <1>9, <2>2, <2>3, <2>5
<1>13. Recorded(b, c).recoveries
         = Cardinality({j \in (R \cup {i}) \ Failing(L, R \cup {i}) : UnhealthyAt(L, j - 1)})
  <2> DEFINE S == {j \in R \ Failing(L, R) : UnhealthyAt(L, j - 1)}
  <2>1. S \in SUBSET R
    BY <1>7
  <2>2. {j \in (R \cup {i}) \ Failing(L, R \cup {i}) : UnhealthyAt(L, j - 1)}
          = S \cup One(~failed /\ c.before)
    BY <1>6
  <2>3. b.recoveries = Cardinality(S)
    BY DEF CountsAgree
  <2>4. (~failed /\ c.before) \in BOOLEAN
    BY DEF failed
  <2> HIDE DEF S
  <2>5. Cardinality(S \cup One(~failed /\ c.before))
          = Cardinality(S) + Count(~failed /\ c.before)
    BY <1>8, <2>1, <2>4
  <2> QED BY <1>9, <2>2, <2>3, <2>5
<1> QED BY <1>10, <1>11, <1>12, <1>13 DEF CountsAgree

LEMMA TimesFollow ==
  ASSUME NEW b \in Bucket, NEW c \in CheckRecord, NEW L, NEW R, NEW i,
         Follows(L, R, i, c), TimesAgree(b, L, R)
  PROVE  TimesAgree(Recorded(b, c), L, R \cup {i})
<1>1. /\ c.time \in Clock /\ b.first \in Time /\ b.last \in Time
      /\ Recorded(b, c).first = IF c.kind # NoKind /\ b.first = NoTime THEN c.time ELSE b.first
      /\ Recorded(b, c).last = IF c.kind # NoKind THEN c.time ELSE b.last
  BY RecordedParts DEF CheckRecord, Bucket
<1>2. CASE c.kind = NoKind
  <2>1. Failing(L, R \cup {i}) = Failing(L, R)
    BY <1>2 DEF Failing, Follows
  <2> QED BY <1>1, <1>2, <2>1 DEF TimesAgree
<1>3. CASE c.kind # NoKind
  <2>1. Failing(L, R \cup {i}) = Failing(L, R) \cup {i}
    BY <1>3 DEF Failing, Follows
  <2>2. \A j \in Failing(L, R) \cup {i} : L[j].time \in Clock /\ L[j].time <= c.time
    BY <1>1 DEF Failing, Follows
  <2>3. CASE b.first = NoTime
    <3>1. Failing(L, R) = {}
      BY <2>3 DEF TimesAgree
    <3>2. Failing(L, R \cup {i}) = {i} /\ L[i].time = c.time
      BY <2>1, <3>1 DEF Follows
    <3>3. Recorded(b, c).first = c.time /\ Recorded(b, c).last = c.time /\ c.time # NoTime
      BY <1>1, <1>3, <2>3
    <3>4. c.time <= c.time
      BY <1>1
    <3> QED BY <3>2, <3>3, <3>4 DEF TimesAgree
  <2>4. CASE b.first # NoTime
    <3>1. b.first \in Clock /\ b.first <= c.time
      <4>1. PICK j \in Failing(L, R) : b.first <= L[j].time
        BY <2>4 DEF TimesAgree
      <4> QED BY <1>1, <2>2, <2>4, <4>1
    <3>2. \A j \in Failing(L, R) \cup {i} : b.first <= L[j].time
      BY <1>1, <3>1 DEF TimesAgree, Follows
    <3> QED BY <1>1, <1>3, <2>1, <2>2, <2>4, <3>2 DEF TimesAgree
  <2> QED BY <2>3, <2>4
<1> QED BY <1>2, <1>3

LEMMA StreaksFollow ==
  ASSUME NEW b \in Bucket, NEW c \in CheckRecord, NEW L, NEW R, NEW i,
         Follows(L, R, i, c), StreaksAgree(b, L, R)
  PROVE  StreaksAgree(Recorded(b, c), L, R \cup {i})
<1> DEFINE d == Recorded(b, c)
<1>1. /\ b.streak \in Nat /\ b.longest \in Nat
      /\ d.streak = IF c.kind # NoKind THEN b.streak + 1 ELSE 0
      /\ d.longest = IF d.streak > b.longest THEN d.streak ELSE b.longest
  BY RecordedParts DEF Bucket
<1> HIDE DEF d
<1>2. i \notin R /\ IsFiniteSet(R) /\ L[i].kind = c.kind /\ \A j \in R : j < i /\ i >= j
  BY DEF Follows
<1>3. /\ \A S \in RunsIn(L, R) : S \in SUBSET R /\ IsFiniteSet(S)
      /\ Ongoing(L, R) \in SUBSET R /\ IsFiniteSet(Ongoing(L, R))
  BY <1>2, FS_Subset DEF RunsIn, Ongoing, Failing
<1>4. PICK longest \in RunsIn(L, R) : Cardinality(longest) = b.longest
  BY DEF StreaksAgree
<1>5. RunsIn(L, R) \subseteq RunsIn(L, R \cup {i})
  BY <1>2, <1>3 DEF RunsIn, Failing
<1>6. CASE c.kind = NoKind
  <2>1. Failing(L, R \cup {i}) = Failing(L, R)
    BY <1>2, <1>6 DEF Failing
  <2>2. RunsIn(L, R \cup {i}) = RunsIn(L, R)
    BY <1>5, <2>1 DEF RunsIn
  <2>3. Ongoing(L, R \cup {i}) = {}
    BY <1>2, <1>6, <2>1 DEF Ongoing, Failing
  <2>4. d.longest = b.longest /\ d.streak = 0
    BY <1>1, <1>6
  <2> QED BY <2>2, <2>3, <2>4, FS_EmptySet DEF StreaksAgree, d
<1>7. CASE c.kind # NoKind
  <2>1. Failing(L, R \cup {i}) = Failing(L, R) \cup {i}
    BY <1>2, <1>7 DEF Failing
  <2>2. Ongoing(L, R \cup {i}) = Ongoing(L, R) \cup {i}
    BY <1>2, <1>7, <2>1 DEF Ongoing, Failing, Follows
  <2>3. Cardinality(Ongoing(L, R) \cup {i}) = d.streak
    <3>1. b.streak = Cardinality(Ongoing(L, R)) /\ i \notin Ongoing(L, R)
      BY <1>2, <1>3 DEF StreaksAgree
    <3>2. Cardinality(Ongoing(L, R) \cup {i}) = Cardinality(Ongoing(L, R)) + 1
      BY <1>3, <3>1, FS_AddElement
    <3> QED BY <1>1, <1>7, <3>1, <3>2
  <2>4. Ongoing(L, R) \cup {i} \in RunsIn(L, R \cup {i})
    BY <1>2, <1>7, <2>1 DEF Ongoing, RunsIn, Failing, Follows
  <2>5. ASSUME NEW S \in RunsIn(L, R \cup {i}), i \in S
        PROVE  S \subseteq Ongoing(L, R) \cup {i}
    BY <1>2, <2>1, <2>5 DEF RunsIn, Ongoing, Failing, Follows
  <2>6. ASSUME NEW S \in RunsIn(L, R \cup {i}), i \notin S
        PROVE  S \in RunsIn(L, R)
    BY <2>1, <2>6 DEF RunsIn
  <2>7. ASSUME NEW S \in RunsIn(L, R \cup {i})
        PROVE  Cardinality(S) <= d.longest
    <3>1. CASE i \in S
      <4>1. IsFiniteSet(Ongoing(L, R) \cup {i})
        BY <1>3, FS_AddElement
      <4>2. Cardinality(S) <= d.streak /\ IsFiniteSet(S)
        <5>1. S \in SUBSET (Ongoing(L, R) \cup {i})
          BY <2>5, <3>1
        <5> QED BY <2>3, <4>1, <5>1, FS_Subset
      <4> QED BY <1>1, <4>2, FS_CardinalityType
    <3>2. CASE i \notin S
      <4>1. Cardinality(S) <= b.longest /\ Cardinality(S) \in Nat
        BY <1>3, <2>6, <3>2, FS_CardinalityType DEF StreaksAgree
      <4> QED BY <1>1, <4>1
    <3> QED BY <3>1, <3>2
  <2>8. \E S \in RunsIn(L, R \cup {i}) : Cardinality(S) = d.longest
    BY <1>1, <1>4, <1>5, <2>3, <2>4
  <2> QED BY <2>2, <2>3, <2>7, <2>8 DEF StreaksAgree, d
<1> QED BY <1>6, <1>7

\* A check counted in its bucket, and one that is not in the log.
LEMMA AgreementFollows ==
  ASSUME NEW b \in Bucket, NEW c \in CheckRecord, NEW L, NEW R, NEW i,
         Follows(L, R, i, c), Agrees(b, L, R)
  PROVE  Agrees(Recorded(b, c), L, R \cup {i})
BY CountsFollow, StreaksFollow, TimesFollow DEF Agrees

LEMMA AgreementIdle ==
  ASSUME NEW b \in Bucket, NEW c, NEW L, NEW R, c.kind = NoKind, ~c.before, b.streak = 0,
         R \subseteq Nat \ {0}, Agrees(b, L, R)
  PROVE  Agrees(Recorded(b, c), L, R)
<1>1. /\ b.counts \in [FailureKind -> Nat] /\ b.total \in Nat /\ b.incidents \in Nat
      /\ b.recoveries \in Nat /\ b.longest \in Nat
  BY DEF Bucket
<1>2. \A k \in FailureKind : Recorded(b, c).counts[k] = b.counts[k]
  BY <1>1, RecordedParts, AbsentAssumption DEF Count
<1>3. Recorded(b, c).total = b.total /\ Recorded(b, c).incidents = b.incidents
      /\ Recorded(b, c).recoveries = b.recoveries /\ Recorded(b, c).longest = b.longest
      /\ Recorded(b, c).streak = b.streak /\ Recorded(b, c).first = b.first
      /\ Recorded(b, c).last = b.last
  BY <1>1, RecordedParts DEF Count
<1> QED BY <1>2, <1>3 DEF Agrees, CountsAgree, StreaksAgree, TimesAgree

\* The log is in order, tells the stored health, and the check in hand is either
\* its last one, not yet recorded, or a healthy one after a recorded healthy one.
LogBooks ==
  /\ \A i \in DOMAIN log : checked # NoTime /\ log[i].time <= checked
  /\ \A i, j \in DOMAIN log : i <= j => log[i].time <= log[j].time
  /\ unhealthy <=> UnhealthyAt(log, Len(log))
  /\ pc = "record" =>
       \/ /\ check.index = Len(log) /\ Len(log) \in DOMAIN log \ recorded
          /\ log[Len(log)].time = check.time /\ log[Len(log)].kind = check.kind
          /\ check.before <=> UnhealthyAt(log, Len(log) - 1)
       \/ /\ check.index = 0 /\ check.kind = NoKind /\ ~check.before
          /\ Len(log) \in recorded /\ log[Len(log)].kind = NoKind

CountInv == WeekInv /\ LogBooks /\ BucketsCountChecks

LEMMA CountInit == Init => CountInv
BY InitWeek DEF Init, CountInv, LogBooks, UnhealthyAt, BucketsCountChecks, RecordedIn

LEMMA LogType ==
  ASSUME TypeOK
  PROVE  /\ Len(log) \in Nat /\ DOMAIN log = 1..Len(log)
         /\ \A i \in DOMAIN log : /\ log[i].time \in Clock
                                 /\ log[i].kind \in FailureKind \cup {NoKind}
         /\ recorded \subseteq DOMAIN log /\ IsFiniteSet(recorded)
         /\ \A w : /\ RecordedIn(w) \in SUBSET recorded /\ IsFiniteSet(RecordedIn(w))
                  /\ RecordedIn(w) \subseteq Nat \ {0}
<1> DEFINE Entry == [time : Clock, kind : FailureKind \cup {NoKind}]
<1>1. /\ Len(log) \in Nat /\ DOMAIN log = 1..Len(log)
      /\ \A i \in DOMAIN log : log[i] \in Entry
  <2>1. log \in Seq(Entry)
    BY DEF TypeOK
  <2> HIDE DEF Entry
  <2> QED BY <2>1
<1>2. recorded \in SUBSET (1..Len(log))
  BY <1>1 DEF TypeOK
<1>3. IsFiniteSet(1..Len(log))
  BY <1>1, FS_Interval
<1>4. IsFiniteSet(recorded)
  BY <1>2, <1>3, FS_Subset
<1>5. \A w : RecordedIn(w) \in SUBSET recorded
  BY DEF RecordedIn
<1>6. \A w : IsFiniteSet(RecordedIn(w))
  BY <1>4, <1>5, FS_Subset
<1>7. \A i \in 1..Len(log) : i \in Nat \ {0}
  BY <1>1
<1>8. \A i \in DOMAIN log : log[i].time \in Clock /\ log[i].kind \in FailureKind \cup {NoKind}
  BY <1>1
<1> QED BY <1>1, <1>2, <1>4, <1>5, <1>6, <1>7, <1>8

\* A check that is saved is appended to the log, or changes nothing that counts.
LEMMA SaveCounts ==
  ASSUME CountInv, NEW now \in Clock, NEW kind \in FailureKind \cup {NoKind},
         SaveHealth(now, kind)
  PROVE  LogBooks' /\ BucketsCountChecks'
<1> USE DEF CountInv, WeekInv
<1>1. /\ checked' = now /\ unhealthy' = (kind # NoKind) /\ pc' = "record"
      /\ check'.time = now /\ check'.kind = kind /\ check'.before = unhealthy
      /\ checked # NoTime => checked <= now
      /\ UNCHANGED <<buckets, recorded>>
  BY DEF SaveHealth
<1>2. CASE /\ Len(log) < MaxChecks /\ log' = Append(log, [time |-> now, kind |-> kind])
  <2> DEFINE n == Len(log) + 1
  <2>1. /\ check'.index = n /\ n \in Nat /\ Len(log') = n /\ DOMAIN log' = 1..n
        /\ DOMAIN log = 1..(n - 1)
        /\ log'[n] = [time |-> now, kind |-> kind]
        /\ \A i \in DOMAIN log : log'[i] = log[i]
    BY <1>2, LogType DEF SaveHealth, TypeOK
  <2> HIDE DEF n
  <2>2. \A i \in DOMAIN log : /\ i \in DOMAIN log' /\ i < n /\ i # n
                             /\ log'[i].time \in Clock /\ log'[i].time <= now
    <3>1. \A i \in DOMAIN log : log[i].time \in Clock /\ log[i].time <= checked
                                /\ checked # NoTime
      BY LogType DEF LogBooks
    <3>2. checked \in Time /\ Clock \subseteq Int
      BY DEF TypeOK, Clock
    <3>3. \A i \in DOMAIN log : log[i].time <= now
      BY <1>1, <3>1, <3>2 DEF Time
    <3>4. \A i \in DOMAIN log : i \in DOMAIN log' /\ i < n /\ i # n
      BY <2>1
    <3> QED BY <2>1, <3>1, <3>3, <3>4
  <2>3. \A i \in DOMAIN log' : i \in DOMAIN log \/ i = n
    BY <2>1
  <2>4. n \in DOMAIN log' /\ n \notin recorded /\ log'[n].time = now /\ log'[n].kind = kind
    <3>1. n \in 1..n
      BY <2>1, LogType DEF n
    <3> QED BY <2>1, <2>2, <3>1, LogType
  <2>5. UnhealthyAt(log', n) <=> kind # NoKind
    BY <2>1, <2>4 DEF UnhealthyAt
  <2>6. unhealthy <=> UnhealthyAt(log', n - 1)
    <3>1. n - 1 = Len(log)
      BY LogType DEF n
    <3>2. Len(log) > 0 => Len(log) \in DOMAIN log
      BY LogType
    <3> QED BY <2>1, <3>1, <3>2 DEF LogBooks, UnhealthyAt
  <2>7. \A i \in DOMAIN log' : now # NoTime /\ log'[i].time <= now
    BY <2>2, <2>3, <2>4
  <2>8. \A i, j \in DOMAIN log' : i <= j => log'[i].time <= log'[j].time
    <3> SUFFICES ASSUME NEW i \in DOMAIN log', NEW j \in DOMAIN log', i <= j
                 PROVE  log'[i].time <= log'[j].time
      OBVIOUS
    <3>1. CASE j = n
      BY <2>4, <2>7, <3>1
    <3>2. CASE j \in DOMAIN log
      <4>1. i \in DOMAIN log
        BY <2>1, <2>2, <2>3, <3>2
      <4> QED BY <2>1, <3>2, <4>1 DEF LogBooks
    <3> QED BY <2>3, <3>1, <3>2
  <2>9. LogBooks'
    BY <1>1, <2>1, <2>4, <2>5, <2>6, <2>7, <2>8 DEF LogBooks
  <2>10. ASSUME NEW w \in Week PROVE RecordedIn(w)' = RecordedIn(w)
    BY <1>1, <2>1, LogType DEF RecordedIn
  <2>11. ASSUME NEW w \in Week, buckets[w] # NoBucket
         PROVE  Agrees(buckets[w], log', RecordedIn(w))
    <3>1. \A i \in RecordedIn(w) : log[i] = log'[i] /\ (i > 1 => log[i - 1] = log'[i - 1])
      BY <2>1, LogType
    <3>2. RecordedIn(w) \subseteq Nat \ {0}
      BY LogType
    <3>3. Agrees(buckets[w], log, RecordedIn(w))
      BY <2>11, AgreementIsCounting DEF AllAgree
    <3> HIDE DEF CountInv, WeekInv
    <3> QED BY <3>1, <3>2, <3>3, SameAgreement
  <2>12. AllAgree'
    BY <1>1, <2>10, <2>11, AgreementIsCounting DEF AllAgree
  <2> QED BY <2>9, <2>12, AgreementIsCounting
<1>3. CASE /\ Len(log) = MaxChecks /\ Len(log) \in recorded
           /\ kind = NoKind /\ ~unhealthy /\ log' = log
  <2>1. check'.index = 0
    BY <1>3 DEF SaveHealth
  <2>2. log[Len(log)].kind = NoKind /\ Len(log) \in DOMAIN log
    BY <1>3, LogType DEF LogBooks, UnhealthyAt
  <2>3. \A i \in DOMAIN log : now # NoTime /\ log[i].time <= now
    BY <1>1, LogType DEF LogBooks, TypeOK
  <2>4. LogBooks'
    BY <1>1, <1>3, <2>1, <2>2, <2>3 DEF LogBooks, UnhealthyAt
  <2>5. \A w \in Week : RecordedIn(w)' = RecordedIn(w)
    BY <1>1, <1>3 DEF RecordedIn
  <2>6. AllAgree'
    BY <1>1, <1>3, <2>5, AgreementIsCounting DEF AllAgree
  <2> QED BY <2>4, <2>6, AgreementIsCounting
<1> QED BY <1>2, <1>3 DEF SaveHealth

\* A recorded check is counted in the bucket of its week and nowhere else.
LEMMA RecordCounts ==
  ASSUME CountInv, Record
  PROVE  LogBooks' /\ BucketsCountChecks'
<1> USE DEF CountInv, WeekInv
<1> DEFINE w == WeekOf(check.time)
           b == IF buckets[w] = NoBucket THEN InitialBucket ELSE buckets[w]
<1>1. /\ pc = "record" /\ pc' # "record"
      /\ buckets' = [buckets EXCEPT ![w] = Recorded(b, check)]
      /\ recorded' = recorded \cup ({check.index} \ {0})
      /\ UNCHANGED <<checked, unhealthy, log>>
  BY DEF Record, Leave
<1>2. /\ check \in CheckRecord /\ check.time \in Clock /\ check.time = checked
      /\ w \in Week /\ w \in Int
  <2>1. check \in CheckRecord /\ check.time = checked
    BY <1>1 DEF WeekBooks, TypeOK
  <2>2. check.time \in Clock
    BY <2>1 DEF CheckRecord
  <2> QED BY <2>1, <2>2, WeekType
<1>3. b \in Bucket /\ Agrees(b, log, RecordedIn(w))
  <2>1. CASE buckets[w] = NoBucket
    BY <1>2, <2>1, InitialType, InitialAgrees, AgreementIsCounting DEF AllAgree
  <2>2. CASE buckets[w] # NoBucket
    BY <1>2, <2>2, AgreementIsCounting DEF AllAgree, TypeOK
  <2> QED BY <2>1, <2>2
<1>4. LogBooks'
  BY <1>1 DEF LogBooks, UnhealthyAt
<1>5. \A i \in DOMAIN log : log[i].time \in Clock /\ log[i].time <= check.time
  BY <1>2, LogType DEF LogBooks
<1>6. /\ buckets'[w] = Recorded(b, check) /\ Recorded(b, check) # NoBucket
      /\ \A v \in Week \ {w} : buckets'[v] = buckets[v]
  <2>1. Recorded(b, check) \in Bucket
    BY <1>2, <1>3, RecordedType
  <2> HIDE DEF b, w
  <2> QED BY <1>1, <1>2, <2>1, AbsentAssumption DEF TypeOK
<1> HIDE DEF b, w
<1>7. CASE /\ check.index = Len(log) /\ Len(log) \in DOMAIN log \ recorded
           /\ log[Len(log)].time = check.time /\ log[Len(log)].kind = check.kind
           /\ check.before <=> UnhealthyAt(log, Len(log) - 1)
  <2> DEFINE n == Len(log)
  <2>1. /\ n \in Nat \ {0} /\ recorded' = recorded \cup {n}
        /\ \A i \in recorded : i < n
    BY <1>1, <1>7, LogType
  <2>2. Follows(log, RecordedIn(w), n, check)
    <3>1. \A j \in RecordedIn(w) : j \in DOMAIN log /\ j < n
      BY <2>1, LogType
    <3>2. IsFiniteSet(RecordedIn(w)) /\ RecordedIn(w) \subseteq Nat \ {0}
      BY LogType
    <3> QED BY <1>5, <1>7, <2>1, <3>1, <3>2 DEF Follows
  <2>3. Agrees(Recorded(b, check), log, RecordedIn(w) \cup {n})
    <3> HIDE DEF CountInv, WeekInv, n
    <3> QED BY <1>2, <1>3, <2>2, AgreementFollows
  <2>4. WeekOf(log[n].time) = w /\ log' = log
    BY <1>1, <1>7 DEF w
  <2> HIDE DEF n
  <2>5. ASSUME NEW v \in Week
        PROVE  RecordedIn(v)' = IF v = w THEN RecordedIn(v) \cup {n} ELSE RecordedIn(v)
    BY <2>1, <2>4 DEF RecordedIn
  <2>6. AllAgree'
    BY <1>1, <1>6, <2>3, <2>5, AgreementIsCounting DEF AllAgree
  <2> QED BY <1>4, <2>6, AgreementIsCounting
<1>8. CASE /\ check.index = 0 /\ check.kind = NoKind /\ ~check.before
           /\ Len(log) \in recorded /\ log[Len(log)].kind = NoKind
  <2>1. recorded' = recorded
    BY <1>1, <1>8
  <2>2. \A v : RecordedIn(v)' = RecordedIn(v)
    BY <1>1, <2>1 DEF RecordedIn
  <2>3. Ongoing(log, RecordedIn(w)) = {}
    <3> SUFFICES ASSUME NEW j \in Ongoing(log, RecordedIn(w)) PROVE FALSE
      OBVIOUS
    <3> DEFINE n == Len(log)
    <3>1. /\ j \in DOMAIN log /\ WeekOf(log[j].time) = w /\ j <= n /\ n \in DOMAIN log
      BY <1>8, LogType DEF Ongoing, Failing, RecordedIn
    <3>2. log[j].time <= log[n].time /\ log[n].time <= check.time
          /\ log[j].time \in Clock /\ log[n].time \in Clock
      BY <1>5, <3>1 DEF LogBooks
    <3>3. w <= WeekOf(log[n].time) /\ WeekOf(log[n].time) <= w
          /\ WeekOf(log[n].time) \in Int
      BY <1>2, <3>1, <3>2, WeekMonotone, WeekType DEF w
    <3>4. n \in RecordedIn(w)
      BY <1>2, <1>8, <3>3 DEF RecordedIn
    <3>5. n >= j
      BY <3>1, LogType
    <3> QED BY <1>8, <3>4, <3>5 DEF Ongoing
  <2>4. b.streak = 0
    BY <1>3, <2>3, FS_EmptySet DEF Agrees, StreaksAgree
  <2>5. Agrees(Recorded(b, check), log, RecordedIn(w))
    <3>1. RecordedIn(w) \subseteq Nat \ {0}
      BY LogType
    <3> QED BY <1>3, <1>8, <2>4, <3>1, AgreementIdle
  <2>6. AllAgree'
    BY <1>1, <1>6, <2>2, <2>5, AgreementIsCounting DEF AllAgree
  <2> QED BY <1>4, <2>6, AgreementIsCounting
<1> QED BY <1>1, <1>7, <1>8 DEF LogBooks

\* A mark is no part of what is counted.
LEMMA MarkCounts ==
  ASSUME CountInv, NEW t \in Time, previous \in Week, buckets[previous] # NoBucket,
         buckets' = [buckets EXCEPT ![previous].delivered = t],
         UNCHANGED <<log, recorded>>
  PROVE  BucketsCountChecks'
<1> DEFINE d == [buckets[previous] EXCEPT !.delivered = t]
<1>1. buckets[previous] \in Bucket
  BY DEF CountInv, WeekInv, TypeOK
<1>2. d \in Bucket /\ d # NoBucket
  BY <1>1, AbsentAssumption DEF Bucket
<1>3. LET b == buckets[previous]
      IN  /\ b.counts = d.counts /\ b.total = d.total /\ b.incidents = d.incidents
          /\ b.recoveries = d.recoveries /\ b.longest = d.longest /\ b.streak = d.streak
          /\ b.first = d.first /\ b.last = d.last
  BY <1>1 DEF Bucket
<1>4. buckets' = [buckets EXCEPT ![previous] = d]
  OBVIOUS
<1> HIDE DEF d
<1>5. buckets'[previous] = d /\ \A v \in Week \ {previous} : buckets'[v] = buckets[v]
  BY <1>4 DEF CountInv, WeekInv, TypeOK
<1>6. \A v : RecordedIn(v)' = RecordedIn(v)
  BY DEF RecordedIn
<1>7. Agrees(buckets[previous], log, RecordedIn(previous))
  BY AgreementIsCounting DEF AllAgree, CountInv
<1>8. Agrees(d, log, RecordedIn(previous))
  <2>1. RecordedIn(previous) \subseteq Nat \ {0}
    BY LogType DEF CountInv, WeekInv
  <2> QED BY <1>3, <1>7, <2>1, SameAgreement
<1>9. AllAgree'
  BY <1>2, <1>5, <1>6, <1>8, AgreementIsCounting DEF AllAgree, CountInv
<1> QED BY <1>9, AgreementIsCounting

LEMMA CountNext ==
  ASSUME CountInv, WeekInv', [Next]_vars
  PROVE  CountInv'
<1> SUFFICES LogBooks' /\ BucketsCountChecks'
  BY DEF CountInv
<1>1. ASSUME NEW now \in Clock, NEW kind \in FailureKind \cup {NoKind}, SaveHealth(now, kind)
      PROVE  LogBooks' /\ BucketsCountChecks'
  BY <1>1, SaveCounts
<1>2. CASE Record
  BY <1>2, RecordCounts
<1>3. ASSUME UNCHANGED <<checked, unhealthy, log, recorded>>, pc' # "record"
      PROVE  LogBooks'
  BY <1>3 DEF CountInv, LogBooks, UnhealthyAt
<1>4. ASSUME UNCHANGED <<buckets, log, recorded>> PROVE BucketsCountChecks'
  <2>1. \A v : RecordedIn(v)' = RecordedIn(v)
    BY <1>4 DEF RecordedIn
  <2>2. AllAgree'
    BY <1>4, <2>1, AgreementIsCounting DEF AllAgree, CountInv
  <2> QED BY <2>2, AgreementIsCounting
<1>5. CASE Mark
  <2>1. previous \in Week /\ buckets[previous] # NoBucket /\ check.time \in Time
    BY <1>5, EligibleWeek DEF Mark, Eligible, CountInv, WeekInv, WeekBooks, TypeOK, CheckRecord,
      BucketOf
  <2> QED BY <1>3, <1>5, <2>1, MarkCounts DEF Mark, ghosts
<1>6. CASE Release
  <2>1. previous \in Week /\ buckets[previous] # NoBucket
    BY <1>6, InDelivery DEF Release, CountInv
  <2> QED BY <1>3, <1>6, <2>1, MarkCounts DEF Release, Leave, ghosts
<1>7. CASE NothingToReport \/ SendAccepted \/ SendRejected \/ Interrupt \/ InterruptedSend
           \/ Restart
  BY <1>3, <1>4, <1>7
  DEF NothingToReport, SendAccepted, SendRejected, Interrupt, InterruptedSend, Restart,
      LeaveUnconfirmed, Leave, durable, ghosts
<1>8. CASE UNCHANGED vars
  BY <1>4, <1>8 DEF vars, durable, ghosts, CountInv, LogBooks, UnhealthyAt
<1> QED BY <1>1, <1>2, <1>5, <1>6, <1>7, <1>8 DEF Next

\* The buckets, updated one check at a time across weeks and interruptions,
\* hold what a count over all the checks recorded in their weeks gives.
THEOREM BucketsCount == Spec => []BucketsCountChecks
<1>1. CountInv => BucketsCountChecks
  BY DEF CountInv
<1> QED BY <1>1, CountInit, CountNext, WeekInvariant, PTL DEF Spec

===============================================================================
