---------------------------- MODULE Synchronization ----------------------------
(***************************************************************************)
(* The synchronization workflow of catalog mode: each fetched product is   *)
(* enriched from its stored history, compared with the last stored         *)
(* snapshot by every rule of the cycle, announced through Home Assistant   *)
(* and then stored.  A price-drop alert is reserved in SQLite before it is *)
(* sent; a reported failure releases the reservation and ends the process; *)
(* SIGTERM, a hard stop or a storage error ends it between any two steps,  *)
(* and the Supervisor starts it again with only the database left.         *)
(***************************************************************************)
EXTENDS Integers, Sequences

CONSTANTS
  Product,      \* product ids
  Currency,     \* currency codes
  Amount,       \* price amounts
  ProviderOriginal,  \* amounts a product page may show as its original price
  NoMoney,      \* the absent original price
  NoSnapshot,   \* the absent previous product
  NoAlert,      \* the absent reservation
  Percentage,   \* rule parameter "percentage", 0 when it is not configured
  FixedAmount,  \* rule parameter "fixed_amount", 0 when it is not configured
  RuleTuples,   \* the rule tuples a cycle may run with
  MaxBatch,     \* bound: products one fetch returns
  MaxHistory,   \* bound: snapshots stored per product
  MaxRejected   \* bound: reported failures per alert identity

RuleType == {"PRICE_DROP", "BACK_IN_STOCK"}
Money == [amount : Amount, currency : Currency]

\* The identity NotificationReservation gives a price-drop alert.
Alert == [product : Product, price : Money]

\* What a StateSnapshot keeps of a product, as far as the rules read it.
Snapshot == [price : Money, available : BOOLEAN]

\* A product as a fetch returns it or as enrichment leaves it.
Observation == [id : Product, price : Money, original : Money \cup {NoMoney},
                available : BOOLEAN]

\* What the provider builds: an original price is in the product's currency.
Fetched == {o \in Observation :
              o.original # NoMoney => /\ o.original.amount \in ProviderOriginal
                                      /\ o.original.currency = o.price.currency}

ASSUME AmountAssumption == Amount \subseteq Nat
ASSUME BoundAssumption ==
  MaxBatch \in Nat /\ MaxHistory \in Nat /\ MaxRejected \in Nat
ASSUME ThresholdAssumption == Percentage \in 0..100 /\ FixedAmount \in Nat
ASSUME RulesAssumption == RuleTuples \subseteq Seq(RuleType)
ASSUME AbsentAssumption ==
  NoMoney \notin Money /\ NoSnapshot \notin Snapshot /\ NoAlert \notin Alert

VARIABLES
  history,       \* [Product -> Seq(Snapshot)]: table observations, by sequence
  reservations,  \* table notification_reservations
  pc,            \* what the workflow does next
  queue,         \* products of the fetch result that are still to be handled
  rules,         \* the cycle's rule tuple
  ruleIndex,     \* position of the rule being evaluated
  current,       \* the enriched product
  previous,      \* its last stored snapshot, as loaded
  reservation,   \* the reservation this evaluation made, or NoAlert
  (* History variables, read by no action. *)
  sent,          \* [Alert -> Nat]: calls of the channel for each price alert
  rejected,      \* [Alert -> Nat]: those of them that reported a failure
  unconfirmed,      \* alerts whose reservation an interruption left undelivered
  announced      \* products whose return was accepted since their last snapshot

durable == <<history, reservations>>
process == <<pc, queue, rules, ruleIndex, current, previous, reservation>>
ghosts  == <<sent, rejected, unconfirmed, announced>>
vars    == <<durable, process, ghosts>>

PCs == {"down", "idle", "load", "rule", "send", "release"}

-------------------------------------------------------------------------------
(* Pure policies.                                                          *)

\* PriceReferencePolicy: the provider's original price, otherwise the highest
\* stored price in the same currency.
SameCurrencyPrices(p, currency) ==
  {history[p][k].price : k \in {j \in DOMAIN history[p] :
                                  history[p][j].price.currency = currency}}

Enrich(product) ==
  LET prices == SameCurrencyPrices(product.id, product.price.currency)
  IN  IF product.original # NoMoney \/ prices = {}
      THEN product
      ELSE [product EXCEPT !.original =
              CHOOSE m \in prices : \A n \in prices : n.amount <= m.amount]

\* PriceDropEvaluator under available_only, with both optional thresholds.
PriceDropMatches(prev, product) ==
  /\ product.available
  /\ product.original # NoMoney \/ prev # NoSnapshot
  /\ LET reference == IF product.original # NoMoney THEN product.original
                                                    ELSE prev.price
         drop == reference.amount - product.price.amount
     IN  /\ reference.currency = product.price.currency
         /\ drop > 0
         /\ drop >= FixedAmount
         /\ drop * 100 >= Percentage * reference.amount

\* BackInStockEvaluator.
BackInStockMatches(prev, product) ==
  prev # NoSnapshot /\ ~prev.available /\ product.available

\* EvaluatorRegistry.get: one evaluator per rule type.
Matches(rule, prev, product) ==
  \/ rule = "PRICE_DROP" /\ PriceDropMatches(prev, product)
  \/ rule = "BACK_IN_STOCK" /\ BackInStockMatches(prev, product)

\* SqliteStateStore.load: the observation with the highest sequence.
LastSnapshot(p) == IF history[p] = << >> THEN NoSnapshot
                                         ELSE history[p][Len(history[p])]

AlertOf(product) == [product |-> product.id, price |-> product.price]

-------------------------------------------------------------------------------
Init ==
  /\ history = [p \in Product |-> << >>]
  /\ reservations = {}
  /\ pc = "idle"
  /\ queue = << >>
  /\ rules = << >>
  /\ ruleIndex = 1
  /\ current = NoSnapshot
  /\ previous = NoSnapshot
  /\ reservation = NoAlert
  /\ sent = [a \in Alert |-> 0]
  /\ rejected = [a \in Alert |-> 0]
  /\ unconfirmed = {}
  /\ announced = {}

\* run() is left with the process in state next: its local variables are gone.
Leave(next) ==
  /\ pc' = next
  /\ queue' = << >>
  /\ rules' = << >>
  /\ ruleIndex' = 1
  /\ current' = NoSnapshot
  /\ previous' = NoSnapshot
  /\ reservation' = NoAlert

\* provider.fetch returned: the products whose pages could be read, in order.
Fetch ==
  /\ pc = "idle"
  /\ \E n \in 0..MaxBatch, r \in RuleTuples :
       \E batch \in [1..n -> Fetched] :
         /\ \A k \in 1..n : Len(history[batch[k].id]) + n <= MaxHistory
         /\ queue' = batch
         /\ rules' = r
  /\ pc' = "load"
  /\ UNCHANGED <<durable, ruleIndex, current, previous, reservation, ghosts>>

\* Enrich the next product and load its last snapshot.
Load ==
  /\ pc = "load"
  /\ queue # << >>
  /\ current' = Enrich(Head(queue))
  /\ previous' = LastSnapshot(Head(queue).id)
  /\ queue' = Tail(queue)
  /\ ruleIndex' = 1
  /\ pc' = "rule"
  /\ UNCHANGED <<durable, rules, reservation, ghosts>>

\* Every product is handled: the cycle's synchronization is over.
Finish ==
  /\ pc = "load"
  /\ queue = << >>
  /\ Leave("idle")
  /\ UNCHANGED <<durable, ghosts>>

RuleMatches ==
  /\ ruleIndex <= Len(rules)
  /\ Matches(rules[ruleIndex], previous, current)

\* An evaluation that did not match notifies nobody.
Skip ==
  /\ pc = "rule"
  /\ ruleIndex <= Len(rules)
  /\ ~RuleMatches
  /\ ruleIndex' = ruleIndex + 1
  /\ UNCHANGED <<durable, pc, queue, rules, current, previous, reservation,
                 ghosts>>

\* Mutation of Reserve: an existing row is replaced and reported as new.
ReserveAgain ==
  /\ pc = "rule"
  /\ RuleMatches
  /\ rules[ruleIndex] = "PRICE_DROP"
  /\ reservations' = reservations \cup {AlertOf(current)}
  /\ reservation' = AlertOf(current)
  /\ pc' = "send"
  /\ UNCHANGED <<history, queue, rules, ruleIndex, current, previous, ghosts>>

\* A matching price drop is reserved (INSERT OR IGNORE, one row inserted).
Reserve ==
  /\ pc = "rule"
  /\ RuleMatches
  /\ rules[ruleIndex] = "PRICE_DROP"
  /\ AlertOf(current) \notin reservations
  /\ reservations' = reservations \cup {AlertOf(current)}
  /\ reservation' = AlertOf(current)
  /\ pc' = "send"
  /\ UNCHANGED <<history, queue, rules, ruleIndex, current, previous, ghosts>>

\* It was reserved before: the alert is suppressed.
Suppress ==
  /\ pc = "rule"
  /\ RuleMatches
  /\ rules[ruleIndex] = "PRICE_DROP"
  /\ AlertOf(current) \in reservations
  /\ ruleIndex' = ruleIndex + 1
  /\ UNCHANGED <<durable, pc, queue, rules, current, previous, reservation,
                 ghosts>>

\* A back-in-stock match has no reservation and is sent directly.
Announce ==
  /\ pc = "rule"
  /\ RuleMatches
  /\ rules[ruleIndex] = "BACK_IN_STOCK"
  /\ pc' = "send"
  /\ UNCHANGED <<durable, queue, rules, ruleIndex, current, previous,
                 reservation, ghosts>>

\* sent'[reservation] counts the call, when the alert has a reservation.
CountSend ==
  sent' = [a \in Alert |-> IF a = reservation THEN sent[a] + 1 ELSE sent[a]]

\* Mutation of SendAccepted: the reservation is released after every delivery.
SendAcceptedAndReleased ==
  /\ pc = "send"
  /\ CountSend
  /\ announced' = IF reservation = NoAlert THEN announced \cup {current.id}
                                           ELSE announced
  /\ reservations' = reservations \ {reservation}
  /\ reservation' = NoAlert
  /\ ruleIndex' = ruleIndex + 1
  /\ pc' = "rule"
  /\ UNCHANGED <<history, queue, rules, current, previous, rejected, unconfirmed>>

\* channel.send returned.
SendAccepted ==
  /\ pc = "send"
  /\ CountSend
  /\ announced' = IF reservation = NoAlert THEN announced \cup {current.id}
                                           ELSE announced
  /\ reservation' = NoAlert
  /\ ruleIndex' = ruleIndex + 1
  /\ pc' = "rule"
  /\ UNCHANGED <<durable, queue, rules, current, previous, rejected, unconfirmed>>

\* Mutation of FailDelivery: the error is raised without releasing anything.
FailWithoutRelease == Leave("down")

\* An Exception leaves _generate_and_send: what was reserved is released first.
FailDelivery ==
  IF reservation = NoAlert
  THEN Leave("down")
  ELSE /\ pc' = "release"
       /\ UNCHANGED <<queue, rules, ruleIndex, current, previous, reservation>>

\* Building the notification raised: nothing is sent, the reservation goes back.
GenerationFails ==
  /\ pc = "send"
  /\ FailDelivery
  /\ UNCHANGED <<durable, ghosts>>

\* channel.send raised NotificationError.  The service may have taken the
\* message all the same; the program only knows that it was not confirmed.
SendRejected ==
  /\ pc = "send"
  /\ reservation # NoAlert => rejected[reservation] < MaxRejected
  /\ CountSend
  /\ rejected' = [a \in Alert |-> IF a = reservation THEN rejected[a] + 1
                                                     ELSE rejected[a]]
  /\ FailDelivery
  /\ UNCHANGED <<durable, unconfirmed, announced>>

\* The except branch gives the reservation back; the error leaves run().
Release ==
  /\ pc = "release"
  /\ reservations' = reservations \ {reservation}
  /\ Leave("down")
  /\ UNCHANGED <<history, ghosts>>

\* Mutation of Save: the snapshot is stored before the rules are evaluated.
SaveEarly ==
  /\ pc = "rule"
  /\ history' = [history EXCEPT ![current.id] =
       Append(@, [price |-> current.price, available |-> current.available])]
  /\ announced' = announced \ {current.id}
  /\ pc' = "load"
  /\ UNCHANGED <<reservations, queue, rules, ruleIndex, current, previous,
                 reservation, sent, rejected, unconfirmed>>

\* Every rule is handled: the snapshot is appended, and the loop goes on.
Save ==
  /\ pc = "rule"
  /\ ruleIndex > Len(rules)
  /\ history' = [history EXCEPT ![current.id] =
       Append(@, [price |-> current.price, available |-> current.available])]
  /\ announced' = announced \ {current.id}
  /\ pc' = "load"
  /\ UNCHANGED <<reservations, queue, rules, ruleIndex, current, previous,
                 reservation, sent, rejected, unconfirmed>>

\* The process ends while it may hold a reservation it gives no answer about.
LeaveUnconfirmed ==
  /\ unconfirmed' = unconfirmed \cup ({reservation} \cap Alert)
  /\ Leave("down")

\* SIGTERM (a BaseException, so no except branch releases anything), a hard
\* stop, or an error of a store: the process ends between two steps.
Interrupt ==
  /\ pc # "down"
  /\ LeaveUnconfirmed
  /\ UNCHANGED <<durable, sent, rejected, announced>>

\* The process ends after the service took the message, before send returned.
InterruptedSend ==
  /\ pc = "send"
  /\ CountSend
  /\ LeaveUnconfirmed
  /\ UNCHANGED <<durable, rejected, announced>>

\* The Supervisor starts a fresh process on the same database.
Restart ==
  /\ pc = "down"
  /\ Leave("idle")
  /\ UNCHANGED <<durable, ghosts>>

Next ==
  \/ Fetch \/ Load \/ Finish
  \/ Skip \/ Reserve \/ Suppress \/ Announce
  \/ GenerationFails \/ SendAccepted \/ SendRejected \/ Release
  \/ Save
  \/ Interrupt \/ InterruptedSend \/ Restart

Spec == Init /\ [][Next]_vars

-------------------------------------------------------------------------------
(* Properties.                                                             *)

TypeOK ==
  /\ history \in [Product -> Seq(Snapshot)]
  /\ reservations \subseteq Alert
  /\ pc \in PCs
  /\ queue \in Seq(Observation)
  /\ rules \in Seq(RuleType)
  /\ ruleIndex \in Nat \ {0}
  /\ pc \in {"rule", "send", "release"} =>
       /\ current.id \in Product
       /\ current.price \in Money
       /\ current.available \in BOOLEAN
  /\ previous \in Snapshot \cup {NoSnapshot}
  /\ reservation \in Alert \cup {NoAlert}
  /\ sent \in [Alert -> Nat]
  /\ rejected \in [Alert -> Nat]
  /\ unconfirmed \subseteq Alert
  /\ announced \subseteq Product

\* The bookkeeping of reservations, strong enough to be inductive: outside a
\* delivery no reservation is held, a held one is stored, and calls and reported
\* failures of an alert differ, by one, only once it is stored and not in flight.
DeliveryBooks ==
  /\ reservation # NoAlert => /\ pc \in {"send", "release"}
                              /\ reservation \in reservations
  /\ pc = "release" => reservation # NoAlert
  /\ unconfirmed \subseteq reservations \ {reservation}
  /\ \A a \in Alert :
       \/ sent[a] = rejected[a]
       \/ /\ sent[a] = rejected[a] + 1
          /\ a \in reservations
          /\ a # reservation

Running == pc \in {"rule", "send", "release"}

\* An alert was delivered, or an interruption hid how its delivery ended.
AccountedFor(a) ==
  a \in reservations /\ (sent[a] > rejected[a] \/ a \in unconfirmed)

\* The bookkeeping of one product's turn: the comparison is still with the last
\* stored snapshot, and every rule already passed has done its part.
TurnBooks ==
  Running =>
    /\ previous = LastSnapshot(current.id)
    /\ pc # "rule" => /\ RuleMatches
                      /\ \/ rules[ruleIndex] = "PRICE_DROP"
                            /\ reservation = AlertOf(current)
                         \/ rules[ruleIndex] = "BACK_IN_STOCK"
                            /\ reservation = NoAlert
    /\ \A k \in DOMAIN rules :
         k < ruleIndex /\ Matches(rules[k], previous, current) =>
           IF rules[k] = "PRICE_DROP" THEN AccountedFor(AlertOf(current))
                                      ELSE current.id \in announced

\* A price alert is handed to Home Assistant at most once without a reported
\* failure, whatever restarts, retries and interruptions happen: every call of
\* the channel beyond the first was preceded by a failure the code was told of
\* (SynchronizationWorkflow with the reservation store, ADR-0019).
AtMostOneAlert ==
  \A a \in Alert : sent[a] <= rejected[a] + 1

\* Only an interruption silences an alert: a reservation that is neither in
\* flight nor behind a delivered message was cut off between reserve and the
\* channel's answer.  A reported failure never leaves one behind.
SilencedOnlyByInterruption ==
  \A a \in reservations : AccountedFor(a) \/ a = reservation

\* The step that stores a snapshot in which the product is back in stock comes
\* after the announcement was accepted: a failed or interrupted delivery leaves
\* the old snapshot in place, and the next cycle sees the transition again.
RestockStoredOnlyAnnounced ==
  [][\A p \in Product :
       LET old == history[p]
           new == history'[p]
       IN  (/\ new # old
            /\ old # << >>
            /\ ~old[Len(old)].available
            /\ new[Len(new)].available
            /\ \E k \in DOMAIN rules : rules[k] = "BACK_IN_STOCK")
           => p \in announced]_vars

\* The step that stores a snapshot whose price is an eligible drop comes after
\* its alert was reserved, and so delivered or interrupted: no eligible price
\* becomes history without an alert, however the cycle's deliveries ended.
DropStoredOnlyReserved ==
  [][(/\ history' # history
      /\ \E k \in DOMAIN rules : rules[k] = "PRICE_DROP"
      /\ PriceDropMatches(previous, current))
     => AccountedFor(AlertOf(current))]_vars

\* Reservation and delivery of price alerts implement the abstract promise.
Alerts == INSTANCE ReservedDelivery
            WITH Identity <- Alert, claimed <- reservations,
                 accepted <- {a \in Alert : sent[a] > rejected[a]}

ImplementsReservedDelivery == Alerts!Spec

===============================================================================
