----------------------------- MODULE RefreshQueue ------------------------------
(***************************************************************************)
(* What the rotation of the catalog promises: the retained references form *)
(* a queue.  New references line up behind the other ones that were never  *)
(* refreshed and before the rest; each refresh takes a bounded batch from  *)
(* the front and lines it up again at the back.  Timestamps do not occur.  *)
(***************************************************************************)
EXTENDS Naturals, Sequences, FiniteSets

CONSTANTS References, BatchSize

VARIABLES
  queue,    \* the retained references, the next one to refresh first
  untried,  \* those that were never refreshed
  last      \* the batch refreshed last

vars == <<queue, untried, last>>

Elements(seq) == {seq[i] : i \in DOMAIN seq}

\* The sequences that list every member of a set once.
Listings(set) ==
  {seq \in [1..Cardinality(set) -> set] : Elements(seq) = set}

TypeOK ==
  /\ queue \in Listings(Elements(queue)) /\ Elements(queue) \subseteq References
  /\ untried \subseteq Elements(queue)
  /\ last \subseteq Elements(queue)

Init == queue = <<>> /\ untried = {} /\ last = {}

Before(k) == SubSeq(queue, 1, k)
After(k)  == SubSeq(queue, k + 1, Len(queue))

\* A discovery retains references that were not in the catalog.
Discover(new) ==
  /\ new # {} /\ new \cap Elements(queue) = {}
  /\ \E seq \in Listings(new) :
       queue' = Before(Cardinality(untried)) \o seq \o After(Cardinality(untried))
  /\ untried' = untried \cup new
  /\ UNCHANGED last

Size == IF Len(queue) < BatchSize THEN Len(queue) ELSE BatchSize
Batch == Elements(Before(Size))

\* The batch at the front was handled and its attempt recorded.
Refresh ==
  /\ queue # <<>>
  /\ \E seq \in Listings(Batch) : queue' = After(Size) \o seq
  /\ untried' = untried \ Batch
  /\ last' = Batch

Next == Refresh \/ \E new \in SUBSET References : Discover(new)

Spec == Init /\ [][Next]_vars

===============================================================================
