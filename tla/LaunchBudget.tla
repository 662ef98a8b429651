---------------------------- MODULE LaunchBudget ----------------------------
(***************************************************************************)
(* What a campaign promises about training launches: a launch is charged   *)
(* before its process exists, candidate code runs at most once and only    *)
(* under a charge, and a charge is given back only for code that never ran *)
(* - after which that launch is spent for good.                            *)
(***************************************************************************)
EXTENDS Naturals, FiniteSets

CONSTANTS Launches, MaxLaunches

VARIABLES
  charged,    \* launches that count against the campaign limit
  refunded,   \* launches whose charge was given back
  ran         \* launches whose candidate code was released

vars == <<charged, refunded, ran>>

Init == charged = {} /\ refunded = {} /\ ran = {}

Charge(e) ==
  /\ e \notin charged \cup refunded
  /\ Cardinality(charged) < MaxLaunches
  /\ charged' = charged \cup {e}
  /\ UNCHANGED <<refunded, ran>>

Refund(e) ==
  /\ e \in charged \ ran
  /\ charged' = charged \ {e}
  /\ refunded' = refunded \cup {e}
  /\ UNCHANGED ran

Run(e) ==
  /\ e \in charged \ ran
  /\ ran' = ran \cup {e}
  /\ UNCHANGED <<charged, refunded>>

Next == \E e \in Launches : Charge(e) \/ Refund(e) \/ Run(e)

Spec == Init /\ [][Next]_vars
=============================================================================
