---------------------------- MODULE PublicScores ----------------------------
(***************************************************************************)
(* What the project promises about its public-validation budget, with no   *)
(* databases, revisions or crashes: a candidate is charged to one campaign *)
(* at most once and for ever, a charged candidate gets at most one verdict,*)
(* and only its own campaign may act on that verdict, after it was decided.*)
(***************************************************************************)
EXTENDS Naturals, FiniteSets

CONSTANTS Candidates, Campaigns, Results, MaxQueries, None

VARIABLES
  owner,      \* candidate -> campaign charged for it, or None
  verdict,    \* candidate -> final public result, or None
  published   \* candidates whose result the owning campaign has acted on

vars == <<owner, verdict, published>>

Init ==
  /\ owner = [k \in Candidates |-> None]
  /\ verdict = [k \in Candidates |-> None]
  /\ published = {}

Spent == {k \in Candidates : owner[k] # None}

Charge(k, c) ==
  /\ owner[k] = None
  /\ Cardinality(Spent) < MaxQueries
  /\ owner' = [owner EXCEPT ![k] = c]
  /\ UNCHANGED <<verdict, published>>

Decide(k, r) ==
  /\ owner[k] # None /\ verdict[k] = None
  /\ verdict' = [verdict EXCEPT ![k] = r]
  /\ UNCHANGED <<owner, published>>

Publish(k) ==
  /\ verdict[k] # None /\ k \notin published
  /\ published' = published \cup {k}
  /\ UNCHANGED <<owner, verdict>>

Next ==
  \E k \in Candidates :
    \/ \E c \in Campaigns : Charge(k, c)
    \/ \E r \in Results : Decide(k, r)
    \/ Publish(k)

Spec == Init /\ [][Next]_vars
=============================================================================
