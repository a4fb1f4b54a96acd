------------------------------ MODULE DailyDigest ------------------------------
(***************************************************************************)
(* The daily discount digest of catalog mode.  In the first cycle at or    *)
(* after the delivery time the local date is reserved, the promotion is    *)
(* read, stale qualifying products are rechecked, the membership is staged *)
(* as the baseline of later digests, and the digest is sent.  A reported   *)
(* failure takes baseline and reservation back and ends the process; an    *)
(* interruption ends it between any two steps and takes nothing back.      *)
(* A cycle may carry any timestamp: the system clock may step either way.  *)
(***************************************************************************)
EXTENDS Integers, FiniteSets

CONSTANTS
  Product,       \* product ids
  TicksPerDay,   \* granularity of the wall clock
  DeliveryTick,  \* delivery_time, in ticks after local midnight
  FreshFor,      \* the age in ticks up to which an observation is fresh
  Limit,         \* products rechecked before one digest, at most
  NoSnapshot,    \* a product that was never observed
  NoDigest,      \* no membership: no baseline row, nothing delivered
  MaxClock,      \* bound: last tick of the clock
  MaxRejected    \* bound: reported failures per date

ASSUME ClockAssumption ==
  /\ TicksPerDay \in Nat \ {0} /\ DeliveryTick \in Nat /\ FreshFor \in Nat
  /\ MaxClock \in Nat /\ Limit \in Nat \ {0} /\ MaxRejected \in Nat
ASSUME ProductAssumption == IsFiniteSet(Product)

Clock == 0..MaxClock
DateOf(t) == t \div TicksPerDay
Date == {DateOf(t) : t \in Clock}
Due(t) == t % TicksPerDay >= DeliveryTick

\* The latest stored snapshot of a product: whether it is an available product
\* discounted by the configured minimum, and when it was observed.
Snapshot == [qualifies : BOOLEAN, stamp : Clock]

ASSUME AbsentAssumption ==
  NoSnapshot \notin Snapshot /\ \A S \in SUBSET Product : S # NoDigest

\* A digest's product identifiers, where there is one.
Membership == {NoDigest} \cup SUBSET Product

Outcomes == {"none", "not_due", "already_sent", "sent", "promotion_unavailable"}

VARIABLES
  snapshots,     \* [Product -> Snapshot or NoSnapshot]: latest observations
  reservations,  \* table daily_digest_reservations
  baselines,     \* [Date -> SUBSET Product or NoDigest]: daily_digest_baselines
  pc,            \* what the workflow does next
  timestamp,     \* the cycle's timestamp
  pending,       \* products still to be rechecked
  members,       \* the digest's products
  newMembers,    \* those of them it marks as new
  outcome,       \* status of the cycle's DailyDigestResult
  (* History variables, read by no action. *)
  sent,          \* [Date -> Nat]: calls of the channel
  rejected,      \* [Date -> Nat]: those of them that reported a failure
  unconfirmed,   \* dates whose workflow an interruption left without an answer
  delivered,     \* [Date -> SUBSET Product or NoDigest]: confirmed memberships
  tried          \* products rechecked in this run

durable == <<snapshots, reservations, baselines>>
process == <<pc, timestamp, pending, members, newMembers, outcome>>
ghosts  == <<sent, rejected, unconfirmed, delivered, tried>>
vars    == <<durable, process, ghosts>>

PCs == {"down", "idle", "catalog", "promotion", "select", "refresh", "stage",
        "send", "release_baseline", "release_date", "release_promotion"}

\* States in which the workflow holds the reservation of the current date.
Holding == pc \notin {"down", "idle", "catalog"}
today == DateOf(timestamp)

-------------------------------------------------------------------------------
(* Pure policies.                                                          *)

\* DailyDiscountDigestEngine: the qualifying latest snapshots.
Qualifying == {p \in Product : snapshots[p] # NoSnapshot /\ snapshots[p].qualifies}

\* Observations from the future are not fresh either.
Fresh(p) == timestamp - snapshots[p].stamp \in 0..FreshFor

Stale == {p \in Qualifying : ~Fresh(p)}

\* Mutation of IsSelection: an observation from the future counts as fresh.
IsPastSelection(S) ==
  LET past == {p \in Stale : snapshots[p].stamp <= timestamp}
  IN  /\ S \subseteq past
      /\ Cardinality(S) = IF Cardinality(past) < Limit THEN Cardinality(past)
                                                       ELSE Limit

\* DigestFreshnessPolicy: the oldest stale qualifying products, at most Limit.
IsSelection(S) ==
  /\ S \subseteq Stale
  /\ Cardinality(S) = IF Cardinality(Stale) < Limit THEN Cardinality(Stale)
                                                    ELSE Limit
  /\ \A p \in S, q \in Stale \ S : snapshots[p].stamp <= snapshots[q].stamp

Pick(set) == CHOOSE x \in set : TRUE

\* What a table holds for the latest of the given dates.
AtLatest(table, dates) ==
  IF dates = {} THEN NoDigest
  ELSE Pick({table[d] : d \in {e \in dates : \A f \in dates : f <= e}})

\* Mutation of Preceding: the latest membership of any date is taken.
PrecedingOfAny(table, d) ==
  AtLatest(table, {e \in Date : e # d /\ table[e] # NoDigest})

\* The latest membership of a date strictly before d, out of a table of them.
Preceding(table, d) ==
  AtLatest(table, {e \in Date : e < d /\ table[e] # NoDigest})

\* Without a preceding membership nothing is marked as new.
NewAgainst(products, previous) ==
  IF previous = NoDigest THEN {} ELSE products \ previous

-------------------------------------------------------------------------------
Init ==
  /\ snapshots = [p \in Product |-> NoSnapshot]
  /\ reservations = {}
  /\ baselines = [d \in Date |-> NoDigest]
  /\ pc = "idle"
  /\ timestamp = 0
  /\ pending = {}
  /\ members = {}
  /\ newMembers = {}
  /\ outcome = "none"
  /\ sent = [d \in Date |-> 0]
  /\ rejected = [d \in Date |-> 0]
  /\ unconfirmed = {}
  /\ delivered = [d \in Date |-> NoDigest]
  /\ tried = {}

\* run() is left with the process in state next and the given status.
Leave(next, status) ==
  /\ pc' = next
  /\ timestamp' = 0
  /\ pending' = {}
  /\ members' = {}
  /\ newMembers' = {}
  /\ outcome' = status

\* A cycle starts by reading the clock.
StartCycle ==
  /\ pc = "idle"
  /\ \E t \in Clock : timestamp' = t
  /\ pc' = "catalog"
  /\ outcome' = "none"
  /\ tried' = {}
  /\ UNCHANGED <<durable, pending, members, newMembers,
                 sent, rejected, unconfirmed, delivered>>

\* The catalog part of the cycle stores an observation of some product.
Observe(p) ==
  /\ pc = "catalog"
  /\ \E q \in BOOLEAN :
       snapshots' = [snapshots EXCEPT ![p] = [qualifies |-> q, stamp |-> timestamp]]
  /\ UNCHANGED <<reservations, baselines, process, ghosts>>

NotDue ==
  /\ pc = "catalog"
  /\ ~Due(timestamp)
  /\ Leave("idle", "not_due")
  /\ UNCHANGED <<durable, ghosts>>

AlreadySent ==
  /\ pc = "catalog"
  /\ Due(timestamp)
  /\ today \in reservations
  /\ Leave("idle", "already_sent")
  /\ UNCHANGED <<durable, ghosts>>

Reserve ==
  /\ pc = "catalog"
  /\ Due(timestamp)
  /\ today \notin reservations
  /\ reservations' = reservations \cup {today}
  /\ pc' = "promotion"
  /\ UNCHANGED <<snapshots, baselines, timestamp, pending, members, newMembers,
                 outcome, ghosts>>

PromotionRead ==
  /\ pc = "promotion"
  /\ pc' = "select"
  /\ UNCHANGED <<durable, timestamp, pending, members, newMembers, outcome, ghosts>>

\* The promotion page could not be read: not fatal, the date is given back.
PromotionFails ==
  /\ pc = "promotion"
  /\ pc' = "release_promotion"
  /\ UNCHANGED <<durable, timestamp, pending, members, newMembers, outcome, ghosts>>

\* Mutation of ReleasePromotion: the result is returned with the date kept.
KeepDateWithoutPromotion ==
  /\ pc = "release_promotion"
  /\ Leave("idle", "promotion_unavailable")
  /\ UNCHANGED <<durable, ghosts>>

ReleasePromotion ==
  /\ pc = "release_promotion"
  /\ reservations' = reservations \ {today}
  /\ Leave("idle", "promotion_unavailable")
  /\ UNCHANGED <<snapshots, baselines, ghosts>>

\* The products to recheck are chosen from the latest snapshots.
Select ==
  /\ pc = "select"
  /\ \E S \in SUBSET Stale : IsSelection(S) /\ pending' = S
  /\ pc' = "refresh"
  /\ UNCHANGED <<durable, timestamp, members, newMembers, outcome, ghosts>>

\* One product is rechecked: a new observation is stored under the cycle's
\* timestamp, or the provider reports an error for its page.
Recheck(p) ==
  /\ pc = "refresh"
  /\ p \in pending
  /\ pending' = pending \ {p}
  /\ tried' = tried \cup {p}
  /\ \/ \E q \in BOOLEAN :
          snapshots' = [snapshots EXCEPT
                          ![p] = [qualifies |-> q, stamp |-> timestamp]]
     \/ UNCHANGED snapshots
  /\ UNCHANGED <<reservations, baselines, pc, timestamp, members, newMembers,
                 outcome, sent, rejected, unconfirmed, delivered>>

\* The snapshots are read again and compared with the preceding baseline.
Generate ==
  /\ pc = "refresh"
  /\ pending = {}
  /\ members' = Qualifying
  /\ newMembers' = NewAgainst(Qualifying, Preceding(baselines, today))
  /\ pc' = "stage"
  /\ UNCHANGED <<durable, timestamp, pending, outcome, ghosts>>

Stage ==
  /\ pc = "stage"
  /\ baselines' = [baselines EXCEPT ![today] = members]
  /\ pc' = "send"
  /\ UNCHANGED <<snapshots, reservations, timestamp, pending, members, newMembers,
                 outcome, ghosts>>

CountSend == sent' = [sent EXCEPT ![today] = @ + 1]

\* Mutation of SendAccepted: the date is released after the delivery.
SendAcceptedAndReleased ==
  /\ pc = "send"
  /\ CountSend
  /\ delivered' = [delivered EXCEPT ![today] = members]
  /\ reservations' = reservations \ {today}
  /\ Leave("idle", "sent")
  /\ UNCHANGED <<snapshots, baselines, rejected, unconfirmed, tried>>

SendAccepted ==
  /\ pc = "send"
  /\ CountSend
  /\ delivered' = [delivered EXCEPT ![today] = members]
  /\ Leave("idle", "sent")
  /\ UNCHANGED <<durable, rejected, unconfirmed, tried>>

\* The channel raised; the service may have taken the message all the same.
SendRejected ==
  /\ pc = "send"
  /\ rejected[today] < MaxRejected
  /\ CountSend
  /\ rejected' = [rejected EXCEPT ![today] = @ + 1]
  /\ pc' = "release_baseline"
  /\ UNCHANGED <<durable, timestamp, pending, members, newMembers, outcome,
                 unconfirmed, delivered, tried>>

\* Any other exception while the reservation is held and nothing was sent.
PreparationFails ==
  /\ pc \in {"promotion", "select", "refresh", "stage"}
  /\ pc' = "release_baseline"
  /\ UNCHANGED <<durable, timestamp, pending, members, newMembers, outcome, ghosts>>

\* Mutation of ReleaseBaseline: the staged membership is left behind.
KeepBaseline ==
  /\ pc = "release_baseline"
  /\ pc' = "release_date"
  /\ UNCHANGED <<durable, timestamp, pending, members, newMembers, outcome, ghosts>>

ReleaseBaseline ==
  /\ pc = "release_baseline"
  /\ baselines' = [baselines EXCEPT ![today] = NoDigest]
  /\ pc' = "release_date"
  /\ UNCHANGED <<snapshots, reservations, timestamp, pending, members, newMembers,
                 outcome, ghosts>>

\* The date is given back and the error ends the process.
ReleaseDate ==
  /\ pc = "release_date"
  /\ reservations' = reservations \ {today}
  /\ Leave("down", "none")
  /\ UNCHANGED <<snapshots, baselines, ghosts>>

LeaveUnconfirmed ==
  /\ unconfirmed' = IF Holding THEN unconfirmed \cup {today} ELSE unconfirmed
  /\ Leave("down", "none")

\* SIGTERM, a hard stop, or an error of a store while taking something back.
Interrupt ==
  /\ pc # "down"
  /\ LeaveUnconfirmed
  /\ UNCHANGED <<durable, sent, rejected, delivered, tried>>

\* The process ends after the service took the digest, before send returned.
InterruptedSend ==
  /\ pc = "send"
  /\ CountSend
  /\ LeaveUnconfirmed
  /\ UNCHANGED <<durable, rejected, delivered, tried>>

Restart ==
  /\ pc = "down"
  /\ Leave("idle", "none")
  /\ UNCHANGED <<durable, ghosts>>

Next ==
  \/ StartCycle \/ NotDue \/ AlreadySent \/ Reserve
  \/ \E p \in Product : Observe(p) \/ Recheck(p)
  \/ PromotionRead \/ PromotionFails \/ ReleasePromotion
  \/ Select \/ Generate \/ Stage
  \/ SendAccepted \/ SendRejected
  \/ PreparationFails \/ ReleaseBaseline \/ ReleaseDate
  \/ Interrupt \/ InterruptedSend \/ Restart

Spec == Init /\ [][Next]_vars

\* The process keeps being restarted and leaves what it entered, and nothing
\* fails for ever: a step that is reached again and again succeeds some time.
Fairness ==
  /\ WF_vars(Restart)
  /\ WF_vars(ReleasePromotion \/ ReleaseBaseline \/ ReleaseDate)
  /\ SF_vars(Reserve)
  /\ SF_vars(PromotionRead)
  /\ SF_vars(Select)
  /\ SF_vars(\E p \in Product : Recheck(p))
  /\ SF_vars(Generate)
  /\ SF_vars(Stage)
  /\ SF_vars(SendAccepted)

LiveSpec == Spec /\ Fairness

-------------------------------------------------------------------------------
(* Properties.                                                             *)

TypeOK ==
  /\ snapshots \in [Product -> Snapshot \cup {NoSnapshot}]
  /\ reservations \subseteq Date
  /\ baselines \in [Date -> Membership]
  /\ pc \in PCs
  /\ timestamp \in Clock
  /\ pending \subseteq Product
  /\ members \subseteq Product
  /\ newMembers \subseteq Product
  /\ outcome \in Outcomes
  /\ sent \in [Date -> Nat]
  /\ rejected \in [Date -> Nat]
  /\ unconfirmed \subseteq Date
  /\ delivered \in [Date -> Membership]
  /\ tried \subseteq Product

\* The bookkeeping of dates, inductive with TypeOK: while a run holds its date,
\* the date is reserved, unanswered and undelivered; calls and reported failures
\* of a date differ, by one, only once the date is settled; and a baseline row
\* exists only for a reserved date.
DigestBooks ==
  /\ Holding => /\ today \in reservations \ unconfirmed
                /\ delivered[today] = NoDigest
                /\ sent[today] = rejected[today]
                /\ pc \notin {"send", "release_baseline"} =>
                     baselines[today] = NoDigest
                /\ pc = "send" => baselines[today] = members
  /\ unconfirmed \subseteq reservations
  /\ \A d \in Date :
       /\ sent[d] = rejected[d] \/ sent[d] = rejected[d] + 1
       /\ d \notin reservations => /\ sent[d] = rejected[d]
                                  /\ baselines[d] = NoDigest
                                  /\ delivered[d] = NoDigest
       /\ delivered[d] # NoDigest => /\ baselines[d] = delivered[d]
                                     /\ sent[d] > rejected[d]

\* A digest of one date is handed to Home Assistant at most once without a
\* reported failure, across restarts, retries, interruptions and clock steps.
OneDigestPerDate == \A d \in Date : sent[d] <= rejected[d] + 1

\* A date is silenced only by an interruption: every reserved date is in the
\* hands of the running workflow, was delivered, or was cut off.  No reported
\* failure of promotion, storage, rechecking or delivery uses up the day.
SilencedOnlyByInterruption ==
  \A d \in reservations : \/ delivered[d] # NoDigest
                          \/ d \in unconfirmed
                          \/ Holding /\ d = today

\* A baseline row is the membership of a delivered digest: two tables agree
\* although they are written and released separately, except for the row the
\* running workflow has staged and for dates an interruption cut off.
BaselineWasDelivered ==
  \A d \in Date : baselines[d] # NoDigest =>
    \/ delivered[d] = baselines[d]
    \/ d \in unconfirmed
    \/ Holding /\ d = today

\* The membership of the last digest delivered for an earlier date.
LastDelivered ==
  AtLatest(delivered, {d \in Date : d < today /\ delivered[d] # NoDigest})

\* As long as no run was interrupted, a digest marks as new exactly the products
\* that were not in the last digest delivered for an earlier date.
NewnessWithoutInterruption ==
  pc = "send" /\ unconfirmed = {} =>
    newMembers = NewAgainst(members, LastDelivered)

\* The digest shows no stale observation it did not try to refresh, unless the
\* recheck budget was used up (DigestFreshnessPolicy, ADR-0035).
FreshOrTried ==
  pc \in {"stage", "send"} =>
    \/ Cardinality(tried) = Limit
    \/ \A p \in members : Fresh(p) \/ p \in tried

\* Dates, their reservations and deliveries implement the abstract promise.
Digests == INSTANCE ReservedDelivery
             WITH Identity <- Date, claimed <- reservations,
                  accepted <- {d \in Date : sent[d] > rejected[d]}

ImplementsReservedDelivery == Digests!Spec

\* If cycles keep coming at or after the delivery time of a date, its digest is
\* delivered in the end or an interruption silenced it: every failure, wherever
\* in the preparation or delivery, leaves the date open for the next cycle.
DueDigestSettled ==
  \A d \in Date :
    []<>(pc = "catalog" /\ Due(timestamp) /\ today = d) =>
      <>(delivered[d] # NoDigest \/ d \in unconfirmed)
================================================================================
