--------------------------- MODULE CampaignPromise ---------------------------
(***************************************************************************)
(* What a campaign promises to whoever reads its status, its final bundle  *)
(* and its outcome receipt: the status follows CampaignLifecycle of        *)
(* campaign/models.py and never leaves a terminal state, one bundle is     *)
(* published while the campaign is finalizing, a completed campaign has a  *)
(* bundle, and the receipt names the bundle that was published.            *)
(***************************************************************************)

CONSTANTS Bundles, None

VARIABLES
  state,     \* status of the campaign
  bundle,    \* published bundle, or None
  receipt    \* bundle named by the production outcome, or None

vars == <<state, bundle, receipt>>

States == {"CREATED", "RUNNING", "PAUSED", "FINALIZATION_REQUIRED", "FINALIZING",
           "COMPLETED", "INCOMPLETE"}

\* _CAMPAIGN_TRANSITIONS: "paused campaigns may resume, terminal campaigns may not".
Transitions ==
  {<<"CREATED", "RUNNING">>, <<"CREATED", "FINALIZATION_REQUIRED">>,
   <<"RUNNING", "PAUSED">>, <<"RUNNING", "FINALIZATION_REQUIRED">>,
   <<"PAUSED", "RUNNING">>, <<"PAUSED", "FINALIZATION_REQUIRED">>,
   <<"FINALIZATION_REQUIRED", "FINALIZING">>, <<"FINALIZING", "COMPLETED">>}
  \cup {<<s, "INCOMPLETE">> : s \in States \ {"COMPLETED", "INCOMPLETE"}}

\* create installs the campaign as RUNNING before anybody can see it.
Init == state = "RUNNING" /\ bundle = None /\ receipt = None

Advance(to) ==
  /\ <<state, to>> \in Transitions
  /\ to = "COMPLETED" => bundle # None
  /\ state' = to
  /\ UNCHANGED <<bundle, receipt>>

Publish(b) ==
  /\ state = "FINALIZING" /\ bundle = None
  /\ bundle' = b
  /\ UNCHANGED <<state, receipt>>

Acknowledge ==
  /\ state = "COMPLETED" /\ receipt = None
  /\ receipt' = bundle
  /\ UNCHANGED <<state, bundle>>

Next == (\E to \in States : Advance(to)) \/ (\E b \in Bundles : Publish(b)) \/ Acknowledge

Spec == Init /\ [][Next]_vars
=============================================================================
