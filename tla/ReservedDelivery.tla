--------------------------- MODULE ReservedDelivery ---------------------------
(***************************************************************************)
(* What every outgoing message of price-watch promises, whatever the       *)
(* component: a message identity is claimed durably before the message is  *)
(* handed to Home Assistant, it is handed over successfully at most once,  *)
(* and a claim is given back only for a message that was not handed over.  *)
(* An identity is a (product, price) pair for a price alert, a calendar    *)
(* date for a daily digest, and a week for a weekly summary.               *)
(***************************************************************************)
CONSTANT Identity   \* the message identities

VARIABLES claimed,  \* identities with a durable reservation
          accepted  \* identities whose message Home Assistant has accepted

vars == <<claimed, accepted>>

TypeOK == claimed \subseteq Identity /\ accepted \subseteq Identity

Init == claimed = {} /\ accepted = {}

\* A fresh identity is claimed: reserve() returned True.
Claim(i) ==
  /\ i \notin claimed
  /\ claimed' = claimed \cup {i}
  /\ UNCHANGED accepted

\* The channel accepts the message of a claimed identity, once.
Accept(i) ==
  /\ i \in claimed \ accepted
  /\ accepted' = accepted \cup {i}
  /\ UNCHANGED claimed

\* The claim of a message that was not accepted is given back for a retry.
Withdraw(i) ==
  /\ i \in claimed \ accepted
  /\ claimed' = claimed \ {i}
  /\ UNCHANGED accepted

Next == \E i \in Identity : Claim(i) \/ Accept(i) \/ Withdraw(i)

Spec == Init /\ [][Next]_vars

-------------------------------------------------------------------------------
(* What follows for the messages of every component.                       *)

\* The claim of an accepted message is never given back, and so is there to
\* refuse the same message in every later run (the stores' release, unmark).
AcceptedIsClaimed == accepted \subseteq claimed

\* What was accepted stays accepted: no failure that is reported later belongs to it.
NothingRevoked == [][accepted \subseteq accepted']_vars

===============================================================================
