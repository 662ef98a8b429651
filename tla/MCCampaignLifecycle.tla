------------------------ MODULE MCCampaignLifecycle ------------------------
(* Instances of CampaignLifecycle: commands run one at a time, or two at    *)
(* once on the same campaign.                                               *)
EXTENDS CampaignLifecycle, TLC

CONSTANTS first, second

OneController == {first}
TwoControllers == {first, second}

Commands == Permutations(TwoControllers)

\* A campaign with a live provider, whose lineage gate may close research at any time.
LiveInit == Init /\ live = TRUE
LiveSpec == LiveInit /\ [][Next]_vars
=============================================================================
