------------------------ MODULE SynchronizationProofs ------------------------
(***************************************************************************)
(* Proofs about Synchronization, for every set of products, currencies and *)
(* prices, every threshold, rule tuple and bound.                          *)
(***************************************************************************)
EXTENDS Synchronization, TLAPS

\* Enrichment keeps what identifies an alert: product, price and availability.
LEMMA EnrichKeeps ==
  ASSUME NEW product \in Observation
  PROVE  /\ Enrich(product).id = product.id
         /\ Enrich(product).price = product.price
         /\ Enrich(product).available = product.available
BY DEF Enrich, Observation

\* A product's alert identity is built from its id and price.
LEMMA AlertOfType ==
  ASSUME NEW product, product.id \in Product, product.price \in Money
  PROVE  AlertOf(product) \in Alert
BY DEF AlertOf, Alert

\* Appending the handled product to its history keeps the histories well typed.
LEMMA SaveType ==
  ASSUME history \in [Product -> Seq(Snapshot)],
         NEW p \in Product, NEW s \in Snapshot
  PROVE  [history EXCEPT ![p] = Append(@, s)] \in [Product -> Seq(Snapshot)]
OBVIOUS

\* Leaving run() resets every local variable to a well-typed value.
LEMMA LeaveType ==
  ASSUME NEW next \in {"down", "idle"}, Leave(next)
  PROVE  /\ pc' \in PCs
         /\ queue' \in Seq(Observation)
         /\ rules' \in Seq(RuleType)
         /\ ruleIndex' \in Nat \ {0}
         /\ pc' \notin {"rule", "send", "release"}
         /\ previous' \in Snapshot \cup {NoSnapshot}
         /\ reservation' \in Alert \cup {NoAlert}
BY DEF Leave, PCs

\* Counting a send keeps the counters well typed.
LEMMA CountSendType ==
  ASSUME sent \in [Alert -> Nat], CountSend
  PROVE  sent' \in [Alert -> Nat]
BY DEF CountSend

-------------------------------------------------------------------------------
(* Type correctness, action by action.                                     *)

LEMMA TypeInit == Init => TypeOK
BY DEF Init, TypeOK, PCs

LEMMA TypeNext == TypeOK /\ [Next]_vars => TypeOK'
<1> SUFFICES ASSUME TypeOK, [Next]_vars
             PROVE  TypeOK'
  OBVIOUS
<1> USE DEF TypeOK
<1>1. CASE Fetch
  <2>1. queue' \in Seq(Observation) /\ rules' \in Seq(RuleType)
    <3>1. PICK n \in 0..MaxBatch, r \in RuleTuples :
            \E batch \in [1..n -> Fetched] : queue' = batch /\ rules' = r
      BY <1>1 DEF Fetch
    <3>2. PICK batch \in [1..n -> Fetched] : queue' = batch /\ rules' = r
      BY <3>1
    <3>3. batch \in Seq(Observation)
      BY <3>1, BoundAssumption DEF Fetched
    <3> QED BY <3>1, <3>2, <3>3, RulesAssumption
  <2> QED BY <1>1, <2>1 DEF Fetch, durable, ghosts, PCs
<1>2. CASE Load
  <2> DEFINE product == Head(queue)
  <2>1. product \in Observation /\ queue' \in Seq(Observation)
    BY <1>2 DEF Load
  <2>2. /\ current'.id \in Product
        /\ current'.price \in Money
        /\ current'.available \in BOOLEAN
    BY <1>2, <2>1, EnrichKeeps DEF Load, Observation
  <2>3. previous' \in Snapshot \cup {NoSnapshot}
    <3>1. history[product.id] \in Seq(Snapshot)
      BY <2>1 DEF Observation
    <3> QED BY <1>2, <3>1 DEF Load, LastSnapshot
  <2> QED BY <1>2, <2>1, <2>2, <2>3 DEF Load, durable, ghosts, PCs
<1>3. CASE Finish
  BY <1>3, LeaveType DEF Finish, durable, ghosts
<1>4. CASE Skip
  BY <1>4 DEF Skip, durable, ghosts
<1>5. CASE Reserve
  BY <1>5, AlertOfType DEF Reserve, ghosts, PCs
<1>6. CASE Suppress
  BY <1>6 DEF Suppress, durable, ghosts
<1>7. CASE Announce
  BY <1>7 DEF Announce, durable, ghosts, PCs
<1>8. CASE GenerationFails
  BY <1>8, LeaveType DEF GenerationFails, FailDelivery, durable, ghosts, PCs
<1>9. CASE SendAccepted
  <2>1. sent' \in [Alert -> Nat]
    BY <1>9, CountSendType DEF SendAccepted
  <2>2. announced' \subseteq Product
    BY <1>9 DEF SendAccepted
  <2>3. pc' = "rule" /\ pc = "send" /\ ruleIndex' = ruleIndex + 1 /\ reservation' = NoAlert
        /\ UNCHANGED <<durable, queue, rules, current, previous, rejected, unconfirmed>>
    BY <1>9 DEF SendAccepted
  <2> QED BY <2>1, <2>2, <2>3 DEF durable, PCs
<1>10. CASE SendRejected
  <2>1. sent' \in [Alert -> Nat]
    BY <1>10, CountSendType DEF SendRejected
  <2>2. rejected' \in [Alert -> Nat]
    BY <1>10 DEF SendRejected
  <2>3. pc = "send" /\ FailDelivery /\ UNCHANGED <<durable, unconfirmed, announced>>
    BY <1>10 DEF SendRejected
  <2>4. CASE Leave("down")
    BY <2>1, <2>2, <2>3, <2>4, LeaveType DEF durable
  <2>5. CASE pc' = "release"
             /\ UNCHANGED <<queue, rules, ruleIndex, current, previous, reservation>>
    BY <2>1, <2>2, <2>3, <2>5 DEF durable, PCs
  <2> QED BY <2>3, <2>4, <2>5 DEF FailDelivery
<1>11. CASE Release
  BY <1>11, LeaveType DEF Release, ghosts
<1>12. CASE Save
  <2>1. [price |-> current.price, available |-> current.available] \in Snapshot
    BY <1>12 DEF Save, Snapshot
  <2>2. history' \in [Product -> Seq(Snapshot)]
    BY <1>12, <2>1, SaveType DEF Save
  <2> QED BY <1>12, <2>2 DEF Save, PCs
<1>13. CASE Interrupt
  BY <1>13, LeaveType DEF Interrupt, LeaveUnconfirmed, durable
<1>14. CASE InterruptedSend
  <2>1. sent' \in [Alert -> Nat]
    BY <1>14, CountSendType DEF InterruptedSend
  <2>2. Leave("down") /\ unconfirmed' \subseteq Alert /\ UNCHANGED durable
        /\ UNCHANGED <<rejected, announced>>
    BY <1>14 DEF InterruptedSend, LeaveUnconfirmed
  <2> QED BY <2>1, <2>2, LeaveType DEF durable
<1>15. CASE Restart
  BY <1>15, LeaveType DEF Restart, durable, ghosts
<1>16. CASE UNCHANGED vars
  BY <1>16 DEF vars, durable, process, ghosts
<1> QED
  BY <1>1, <1>2, <1>3, <1>4, <1>5, <1>6, <1>7, <1>8, <1>9, <1>10, <1>11,
     <1>12, <1>13, <1>14, <1>15, <1>16 DEF Next

\* Every reachable state is well typed: the histories hold snapshots only, and
\* whatever is about to be evaluated, sent or stored is a product.
THEOREM TypeCorrect == Spec => []TypeOK
<1>1. Init => TypeOK
  BY TypeInit
<1>2. TypeOK /\ [Next]_vars => TypeOK'
  BY TypeNext
<1> QED BY <1>1, <1>2, PTL DEF Spec

-------------------------------------------------------------------------------
(* Deliveries and their reservations.                                      *)

\* DeliveryBooks with the type invariant is inductive.
LEMMA BooksNext == TypeOK /\ DeliveryBooks /\ [Next]_vars => DeliveryBooks'
<1> SUFFICES ASSUME TypeOK, DeliveryBooks, [Next]_vars
             PROVE  DeliveryBooks'
  OBVIOUS
<1> USE AbsentAssumption DEF TypeOK, DeliveryBooks
<1>1. CASE Fetch
  BY <1>1 DEF Fetch, durable, ghosts
<1>2. CASE Load
  BY <1>2 DEF Load, durable, ghosts
<1>3. CASE Finish
  BY <1>3 DEF Finish, Leave, durable, ghosts
<1>4. CASE Skip
  BY <1>4 DEF Skip, durable, ghosts
<1>5. CASE Reserve
  <2>1. AlertOf(current) \in Alert
    BY <1>5, AlertOfType DEF Reserve
  <2> QED BY <1>5, <2>1 DEF Reserve, ghosts
<1>6. CASE Suppress
  BY <1>6 DEF Suppress, durable, ghosts
<1>7. CASE Announce
  BY <1>7 DEF Announce, durable, ghosts
<1>8. CASE GenerationFails
  BY <1>8 DEF GenerationFails, FailDelivery, Leave, durable, ghosts
<1>9. CASE SendAccepted
  BY <1>9 DEF SendAccepted, CountSend, durable
<1>10. CASE SendRejected
  BY <1>10 DEF SendRejected, CountSend, FailDelivery, Leave, durable
<1>11. CASE Release
  BY <1>11 DEF Release, Leave, ghosts
<1>12. CASE Save
  BY <1>12 DEF Save
<1>13. CASE Interrupt
  BY <1>13 DEF Interrupt, LeaveUnconfirmed, Leave, durable
<1>14. CASE InterruptedSend
  BY <1>14 DEF InterruptedSend, LeaveUnconfirmed, Leave, CountSend, durable
<1>15. CASE Restart
  BY <1>15 DEF Restart, Leave, durable, ghosts
<1>16. CASE UNCHANGED vars
  BY <1>16 DEF vars, durable, process, ghosts
<1> QED
  BY <1>1, <1>2, <1>3, <1>4, <1>5, <1>6, <1>7, <1>8, <1>9, <1>10, <1>11,
     <1>12, <1>13, <1>14, <1>15, <1>16 DEF Next

LEMMA BooksInvariant == Spec => [](TypeOK /\ DeliveryBooks)
<1>1. Init => TypeOK /\ DeliveryBooks
  BY TypeInit DEF Init, DeliveryBooks
<1> QED BY <1>1, TypeNext, BooksNext, PTL DEF Spec

\* A price alert is sent at most once more than its sends were reported to have
\* failed, across any number of failures, interruptions and restarts.
THEOREM AlertDeliveredOnce == Spec => []AtMostOneAlert
<1>1. TypeOK /\ DeliveryBooks => AtMostOneAlert
  <2> SUFFICES ASSUME TypeOK, DeliveryBooks, NEW a \in Alert
               PROVE  sent[a] <= rejected[a] + 1
    BY DEF AtMostOneAlert
  <2>1. sent[a] = rejected[a] \/ sent[a] = rejected[a] + 1
    BY DEF DeliveryBooks
  <2>2. rejected[a] \in Nat
    BY DEF TypeOK
  <2> QED BY <2>1, <2>2
<1> QED BY <1>1, BooksInvariant, PTL

\* Reservations left without a confirmed delivery come from interruptions only.
THEOREM OnlyInterruptionSilences == Spec => []SilencedOnlyByInterruption
<1>1. Init => SilencedOnlyByInterruption
  BY DEF Init, SilencedOnlyByInterruption
<1>2. TypeOK /\ DeliveryBooks /\ SilencedOnlyByInterruption /\ [Next]_vars
        => SilencedOnlyByInterruption'
  <2> SUFFICES ASSUME TypeOK, DeliveryBooks, SilencedOnlyByInterruption,
                      [Next]_vars
               PROVE  SilencedOnlyByInterruption'
    OBVIOUS
  <2> USE AbsentAssumption
      DEF TypeOK, DeliveryBooks, SilencedOnlyByInterruption, AccountedFor
  <2>1. CASE \/ Fetch \/ Load \/ Skip \/ Suppress \/ Announce \/ Save
    BY <2>1 DEF Fetch, Load, Skip, Suppress, Announce, Save, durable, ghosts
  <2>2. CASE Finish \/ Restart
    BY <2>2 DEF Finish, Restart, Leave, durable, ghosts
  <2>3. CASE Reserve
    BY <2>3 DEF Reserve, ghosts
  <2>4. CASE GenerationFails
    BY <2>4 DEF GenerationFails, FailDelivery, Leave, durable, ghosts
  <2>5. CASE SendAccepted
    BY <2>5 DEF SendAccepted, CountSend, durable
  <2>6. CASE SendRejected
    BY <2>6 DEF SendRejected, CountSend, FailDelivery, Leave, durable
  <2>7. CASE Release
    BY <2>7 DEF Release, Leave, ghosts
  <2>8. CASE Interrupt
    BY <2>8 DEF Interrupt, LeaveUnconfirmed, Leave, durable
  <2>9. CASE InterruptedSend
    BY <2>9 DEF InterruptedSend, LeaveUnconfirmed, Leave, CountSend, durable
  <2>10. CASE UNCHANGED vars
    BY <2>10 DEF vars, durable, process, ghosts
  <2> QED
    BY <2>1, <2>2, <2>3, <2>4, <2>5, <2>6, <2>7, <2>8, <2>9, <2>10 DEF Next
<1> QED BY <1>1, <1>2, BooksInvariant, PTL DEF Spec

-------------------------------------------------------------------------------
(* One product's turn.                                                     *)

\* TurnBooks is preserved: a rule that was passed keeps what it has done.
LEMMA TurnNext ==
  TypeOK /\ DeliveryBooks /\ SilencedOnlyByInterruption /\ TurnBooks
    /\ [Next]_vars => TurnBooks'
<1> SUFFICES ASSUME TypeOK, DeliveryBooks, SilencedOnlyByInterruption,
                    TurnBooks, [Next]_vars
             PROVE  TurnBooks'
  OBVIOUS
<1> USE AbsentAssumption DEF Running, TypeOK
<1>1. CASE Fetch \/ Save
  BY <1>1 DEF Fetch, Save, TurnBooks
<1>2. CASE Load
  <2>1. Head(queue) \in Observation
    BY <1>2 DEF Load
  <2> QED
    BY <1>2, <2>1, EnrichKeeps DEF Load, TurnBooks, LastSnapshot, durable
<1>3. CASE Finish \/ Release \/ Interrupt \/ InterruptedSend \/ Restart
  BY <1>3 DEF Finish, Release, Interrupt, InterruptedSend, Restart,
              LeaveUnconfirmed, Leave, TurnBooks
<1>4. CASE Skip
  BY <1>4 DEF Skip, TurnBooks, RuleMatches, LastSnapshot, AccountedFor,
              durable, ghosts
<1>5. CASE Reserve
  BY <1>5 DEF Reserve, TurnBooks, RuleMatches, LastSnapshot, AccountedFor, ghosts
<1>6. CASE Suppress
  <2>1. AccountedFor(AlertOf(current))
    BY <1>6 DEF Suppress, SilencedOnlyByInterruption, DeliveryBooks
  <2> QED
    BY <1>6, <2>1 DEF Suppress, TurnBooks, RuleMatches, LastSnapshot,
                      AccountedFor, durable, ghosts
<1>7. CASE Announce
  BY <1>7 DEF Announce, TurnBooks, RuleMatches, LastSnapshot, AccountedFor,
              DeliveryBooks, durable, ghosts
<1>8. CASE GenerationFails
  BY <1>8 DEF GenerationFails, FailDelivery, Leave, TurnBooks, RuleMatches,
              LastSnapshot, AccountedFor, durable, ghosts
<1>9. CASE SendAccepted
  <2>1. /\ AlertOf(current) \in Alert
        /\ current' = current /\ rules' = rules /\ previous' = previous
        /\ LastSnapshot(current.id)' = LastSnapshot(current.id)
        /\ reservations' = reservations /\ unconfirmed' = unconfirmed
        /\ announced \subseteq announced'
    BY <1>9, AlertOfType DEF SendAccepted, LastSnapshot, durable
  <2>2. CASE reservation = NoAlert
    <3>1. sent' = sent /\ rejected' = rejected
      BY <1>9, <2>2 DEF SendAccepted, CountSend
    <3>2. rules[ruleIndex] = "BACK_IN_STOCK" /\ current.id \in announced'
      BY <1>9, <2>1, <2>2 DEF SendAccepted, TurnBooks
    <3> QED
      BY <1>9, <2>1, <3>1, <3>2 DEF SendAccepted, TurnBooks, AccountedFor
  <2>3. CASE reservation # NoAlert
    <3>1. rules[ruleIndex] = "PRICE_DROP" /\ reservation = AlertOf(current)
      BY <1>9, <2>3 DEF SendAccepted, TurnBooks
    <3>2. sent[reservation] = rejected[reservation]
      BY <2>1, <3>1 DEF DeliveryBooks
    <3>3. AccountedFor(AlertOf(current))'
      BY <1>9, <2>1, <2>3, <3>1, <3>2
         DEF SendAccepted, CountSend, DeliveryBooks, AccountedFor, AlertOf
    <3> QED
      BY <1>9, <2>1, <3>1, <3>3 DEF SendAccepted, TurnBooks, AlertOf
  <2> QED BY <2>2, <2>3
<1>10. CASE SendRejected
  <2>1. CASE reservation = NoAlert
    BY <1>10, <2>1 DEF SendRejected, FailDelivery, Leave, TurnBooks
  <2>2. CASE reservation # NoAlert
    <3>1. /\ pc' = "release"
          /\ UNCHANGED <<history, rules, ruleIndex, current, previous, reservation,
                         announced>>
      BY <1>10, <2>2 DEF SendRejected, FailDelivery, durable
    <3>2. rules[ruleIndex] = "PRICE_DROP" /\ reservation = AlertOf(current)
      BY <1>10, <2>2 DEF SendRejected, TurnBooks
    <3>3. ~AccountedFor(AlertOf(current))
      BY <2>2, <3>2 DEF DeliveryBooks, AccountedFor
    <3> QED
      BY <1>10, <3>1, <3>2, <3>3
         DEF SendRejected, TurnBooks, RuleMatches, LastSnapshot
  <2> QED BY <2>1, <2>2
<1>11. CASE UNCHANGED vars
  BY <1>11 DEF vars, durable, process, ghosts, TurnBooks, RuleMatches,
               LastSnapshot, AccountedFor
<1> QED
  BY <1>1, <1>2, <1>3, <1>4, <1>5, <1>6, <1>7, <1>8, <1>9, <1>10, <1>11 DEF Next

LEMMA TurnInvariant ==
  Spec => [](TypeOK /\ DeliveryBooks /\ SilencedOnlyByInterruption /\ TurnBooks)
<1>1. Init => TurnBooks
  BY DEF Init, TurnBooks, Running
<1> QED
  BY <1>1, TurnNext, BooksInvariant, OnlyInterruptionSilences, PTL DEF Spec

\* Only Save stores a snapshot, and it stores the product whose turn it is.
LEMMA OnlySaveStores ==
  ASSUME TypeOK, [Next]_vars, history' # history
  PROVE  Save
BY DEF vars, durable, Next, Fetch, Load, Finish, Skip, Reserve, Suppress,
       Announce, GenerationFails, SendAccepted, SendRejected, Release,
       Interrupt, InterruptedSend, Restart

\* No eligible price drop becomes history before its alert was reserved and
\* then delivered or cut off by an interruption.
THEOREM EligibleDropReserved == Spec => DropStoredOnlyReserved
<1> DEFINE A == (/\ history' # history
                 /\ \E k \in DOMAIN rules : rules[k] = "PRICE_DROP"
                 /\ PriceDropMatches(previous, current))
                => AccountedFor(AlertOf(current))
<1>1. TypeOK /\ TurnBooks /\ [Next]_vars => A
  <2> SUFFICES ASSUME TypeOK, TurnBooks, [Next]_vars, history' # history,
                      NEW k \in DOMAIN rules, rules[k] = "PRICE_DROP",
                      PriceDropMatches(previous, current)
               PROVE  AccountedFor(AlertOf(current))
    OBVIOUS
  <2>1. pc = "rule" /\ ruleIndex > Len(rules)
    BY OnlySaveStores DEF Save
  <2>2. k < ruleIndex
    BY <2>1 DEF TypeOK
  <2> QED BY <2>1, <2>2 DEF TurnBooks, Running, Matches
<1>2. TypeOK /\ TurnBooks /\ [Next]_vars => [A]_vars
  BY <1>1
<1> QED BY <1>2, TurnInvariant, PTL DEF Spec, DropStoredOnlyReserved

\* A return to stock becomes history only after its announcement was accepted.
THEOREM RestockAnnounced == Spec => RestockStoredOnlyAnnounced
<1> DEFINE A == \A p \in Product :
                  LET old == history[p]
                      new == history'[p]
                  IN  (/\ new # old
                       /\ old # << >>
                       /\ ~old[Len(old)].available
                       /\ new[Len(new)].available
                       /\ \E k \in DOMAIN rules : rules[k] = "BACK_IN_STOCK")
                      => p \in announced
<1>1. TypeOK /\ TurnBooks /\ [Next]_vars => A
  <2> SUFFICES ASSUME TypeOK, TurnBooks, [Next]_vars, NEW p \in Product,
                      history'[p] # history[p], history[p] # << >>,
                      ~history[p][Len(history[p])].available,
                      history'[p][Len(history'[p])].available,
                      NEW k \in DOMAIN rules, rules[k] = "BACK_IN_STOCK"
               PROVE  p \in announced
    OBVIOUS
  <2> DEFINE s == [price |-> current.price, available |-> current.available]
  <2>1. Save
    BY OnlySaveStores
  <2>2. p = current.id /\ history'[p] = Append(history[p], s)
    BY <2>1 DEF Save, TypeOK
  <2>3. history[p] \in Seq(Snapshot)
    BY DEF TypeOK
  <2>4. history'[p][Len(history'[p])] = s
    BY <2>2, <2>3
  <2>5. current.available
    BY <2>4
  <2>6. history[p][Len(history[p])] \in Snapshot
    BY <2>3
  <2>7. previous = history[p][Len(history[p])]
    BY <2>1, <2>2 DEF Save, TurnBooks, Running, LastSnapshot
  <2>8. BackInStockMatches(previous, current)
    BY <2>5, <2>6, <2>7, AbsentAssumption DEF BackInStockMatches
  <2>9. k < ruleIndex
    BY <2>1 DEF Save, TypeOK
  <2> QED BY <2>1, <2>2, <2>8, <2>9 DEF Save, TurnBooks, Running, Matches
<1>2. TypeOK /\ TurnBooks /\ [Next]_vars => [A]_vars
  BY <1>1
<1> QED BY <1>2, TurnInvariant, PTL DEF Spec, RestockStoredOnlyAnnounced

-------------------------------------------------------------------------------
(* Refinement of ReservedDelivery.                                         *)

Confirmed == {a \in Alert : sent[a] > rejected[a]}

\* Steps that leave reservations and confirmations alone are stutters.
LEMMA Stutter ==
  ASSUME reservations' = reservations, sent' = sent, rejected' = rejected
  PROVE  UNCHANGED Alerts!vars
BY DEF Alerts!vars

\* Every step claims, accepts or withdraws one alert, or leaves both sets alone.
LEMMA StepRefines ==
  TypeOK /\ DeliveryBooks /\ [Next]_vars => [Alerts!Next]_(Alerts!vars)
<1> SUFFICES ASSUME TypeOK, DeliveryBooks, [Next]_vars
             PROVE  Alerts!Next \/ UNCHANGED Alerts!vars
  OBVIOUS
<1>1. CASE \/ Fetch \/ Load \/ Finish \/ Skip \/ Suppress \/ Announce
           \/ GenerationFails \/ Save \/ Interrupt \/ Restart
           \/ UNCHANGED vars
  BY <1>1, Stutter
     DEF Fetch, Load, Finish, Skip, Suppress, Announce, GenerationFails, Save,
         Interrupt, Restart, vars, durable, ghosts
<1>2. CASE Reserve
  <2>1. AlertOf(current) \in Alert
    BY <1>2, AlertOfType DEF Reserve, TypeOK
  <2>2. Confirmed' = Confirmed
    BY <1>2 DEF Reserve, ghosts, Confirmed
  <2>3. Alerts!Claim(AlertOf(current))
    BY <1>2, <2>2 DEF Reserve, Alerts!Claim, Confirmed
  <2> QED BY <2>1, <2>3 DEF Alerts!Next
<1>3. CASE \/ SendAccepted \/ InterruptedSend
  <2>1. /\ pc = "send" /\ CountSend
        /\ reservations' = reservations /\ rejected' = rejected
    BY <1>3 DEF SendAccepted, InterruptedSend, durable
  <2>2. CASE reservation = NoAlert
    <3>1. sent' = sent
      BY <2>1, <2>2, AbsentAssumption DEF CountSend, TypeOK
    <3> QED BY <2>1, <3>1, Stutter
  <2>3. CASE reservation # NoAlert
    <3>1. /\ reservation \in reservations \cap Alert
          /\ sent[reservation] = rejected[reservation]
      BY <2>3 DEF TypeOK, DeliveryBooks
    <3>2. \A a \in Alert : sent'[a] = IF a = reservation THEN sent[a] + 1
                                                         ELSE sent[a]
      BY <2>1 DEF CountSend
    <3>3. Confirmed' = Confirmed \cup {reservation}
      <4>1. ASSUME NEW a \in Alert
            PROVE  sent'[a] > rejected'[a] <=>
                     sent[a] > rejected[a] \/ a = reservation
        <5>1. sent[a] \in Nat /\ rejected[a] \in Nat
          BY DEF TypeOK
        <5>2. CASE a = reservation
          BY <2>1, <3>1, <3>2, <5>1, <5>2
        <5>3. CASE a # reservation
          BY <2>1, <3>2, <5>3
        <5> QED BY <5>2, <5>3
      <4> QED BY <3>1, <4>1 DEF Confirmed
    <3>4. reservation \notin Confirmed
      BY <3>1 DEF Confirmed, TypeOK
    <3>5. PICK a \in Alert : a = reservation
      BY <3>1
    <3>6. Alerts!Accept(a)
      BY <2>1, <3>1, <3>3, <3>4, <3>5 DEF Alerts!Accept, Confirmed
    <3> QED BY <3>6 DEF Alerts!Next
  <2> QED BY <2>2, <2>3
<1>4. CASE SendRejected
  <2>1. /\ \A a \in Alert : sent'[a] = IF a = reservation THEN sent[a] + 1
                                                         ELSE sent[a]
        /\ \A a \in Alert : rejected'[a] = IF a = reservation
                                          THEN rejected[a] + 1 ELSE rejected[a]
        /\ reservations' = reservations
    BY <1>4 DEF SendRejected, CountSend, durable
  <2>2. ASSUME NEW a \in Alert
        PROVE  sent'[a] > rejected'[a] <=> sent[a] > rejected[a]
    <3>1. sent[a] \in Nat /\ rejected[a] \in Nat
      BY DEF TypeOK
    <3>2. CASE a = reservation
      BY <2>1, <3>1, <3>2
    <3>3. CASE a # reservation
      BY <2>1, <3>3
    <3> QED BY <3>2, <3>3
  <2>3. Confirmed' = Confirmed
    BY <2>2 DEF Confirmed
  <2> QED BY <2>1, <2>3 DEF Alerts!vars, Confirmed
<1>5. CASE Release
  <2>1. /\ reservation \in reservations \cap Alert
        /\ sent[reservation] = rejected[reservation]
    BY <1>5, AbsentAssumption DEF Release, TypeOK, DeliveryBooks
  <2>2. reservation \notin Confirmed /\ Confirmed' = Confirmed
    BY <1>5, <2>1 DEF Release, ghosts, Confirmed, TypeOK
  <2>3. Alerts!Withdraw(reservation)
    BY <1>5, <2>1, <2>2 DEF Release, Alerts!Withdraw, Confirmed
  <2> QED BY <2>1, <2>3 DEF Alerts!Next
<1> QED BY <1>1, <1>2, <1>3, <1>4, <1>5 DEF Next

\* The workflow with its reservation table implements the abstract promise: an
\* alert is claimed, then accepted at most once, and withdrawn only before that.
THEOREM AlertsRefine == Spec => ImplementsReservedDelivery
<1>1. Init => Alerts!Init
  BY DEF Init, Alerts!Init
<1> QED
  BY <1>1, StepRefines, BooksInvariant, PTL
     DEF Spec, ImplementsReservedDelivery, Alerts!Spec

\* The reservation of a delivered alert is never released, so the same price of
\* the same product is not announced again, whatever fails afterwards.
THEOREM AlertsStayReserved == Spec => []Alerts!AcceptedIsClaimed /\ Alerts!NothingRevoked
<1> DEFINE Accepted == {a \in Alert : sent[a] > rejected[a]}
<1>1. Alerts!Init => Alerts!AcceptedIsClaimed
  BY DEF Alerts!Init, Alerts!AcceptedIsClaimed
<1>2. Alerts!AcceptedIsClaimed /\ [Alerts!Next]_Alerts!vars
        => Alerts!AcceptedIsClaimed' /\ [Accepted \subseteq Accepted']_Alerts!vars
  BY DEF Alerts!AcceptedIsClaimed, Alerts!Next, Alerts!Claim, Alerts!Accept, Alerts!Withdraw, Alerts!vars
<1> QED BY <1>1, <1>2, AlertsRefine, PTL
    DEF ImplementsReservedDelivery, Alerts!Spec, Alerts!NothingRevoked

-------------------------------------------------------------------------------
\* A price that falls further below the same reference is still announced: the
\* percentage and the fixed threshold hide no deeper drop (PriceDropEvaluator).
THEOREM DeeperDropMatches ==
  ASSUME NEW prev \in Snapshot \cup {NoSnapshot},
         NEW product \in Observation, PriceDropMatches(prev, product),
         NEW cheaper \in Observation, cheaper.available,
         cheaper.original = product.original,
         cheaper.price.currency = product.price.currency,
         cheaper.price.amount <= product.price.amount
  PROVE  PriceDropMatches(prev, cheaper)
<1> DEFINE reference == IF product.original # NoMoney THEN product.original ELSE prev.price
           floor == Percentage * reference.amount
<1>1. /\ product.original # NoMoney \/ prev # NoSnapshot
      /\ reference.currency = product.price.currency
      /\ reference.amount - product.price.amount > 0
      /\ reference.amount - product.price.amount >= FixedAmount
      /\ (reference.amount - product.price.amount) * 100 >= floor
  BY DEF PriceDropMatches
<1>2. reference \in Money
  <2>1. product.original # NoMoney => product.original \in Money
    BY DEF Observation
  <2>2. product.original = NoMoney => prev.price \in Money
    BY <1>1 DEF Snapshot
  <2> QED BY <2>1, <2>2
<1>3. /\ reference.amount \in Nat /\ product.price.amount \in Nat
      /\ cheaper.price.amount \in Nat /\ FixedAmount \in Nat
  BY <1>2, AmountAssumption, ThresholdAssumption DEF Money, Observation
<1>4. floor \in Int
  <2>1. Percentage \in Int /\ reference.amount \in Int
    BY <1>3, ThresholdAssumption
  <2> HIDE DEF reference
  <2> QED BY <2>1
<1>5. reference = IF cheaper.original # NoMoney THEN cheaper.original ELSE prev.price
  OBVIOUS
<1> HIDE DEF reference, floor
<1>6. /\ reference.amount - cheaper.price.amount > 0
      /\ reference.amount - cheaper.price.amount >= FixedAmount
      /\ (reference.amount - cheaper.price.amount) * 100 >= floor
  BY <1>1, <1>3, <1>4
<1>7. reference.currency = cheaper.price.currency
  BY <1>1
<1> QED BY <1>1, <1>5, <1>6, <1>7 DEF PriceDropMatches, floor

===============================================================================
