---------------------------- MODULE Finalization ----------------------------
(***************************************************************************)
(* One finalization after another of one campaign: the final training of   *)
(* the generated candidate, the experiment ledgers, the walk of            *)
(* run_finalization from the selected candidate back to the official       *)
(* fallback through five gates, the publication of the bundle directory,   *)
(* and the completion with its receipt.  An attempt may die or be          *)
(* signalled at any step, the hard deadline may pass before any step, and  *)
(* the next attempt finds what the last one left.                          *)
(*                                                                         *)
(* One attempt runs at a time (CampaignLifecycle has two commands and the  *)
(* race for the receipt).  Replay, organizer check, report and the copies  *)
(* into the bundle are one step each, passed or failed: they work in       *)
(* private directories that nothing reads again.  The controller's own     *)
(* files and the artifacts of the replay candidates are not steps of their *)
(* own: a step may leave one of them broken.                               *)
(***************************************************************************)
EXTENDS Naturals, Sequences

CONSTANTS
  MaxFaults,  \* bound on failures of the machine: disk, files, the fallback itself
  MaxDeaths,  \* bound on deaths of an attempt and on signals
  None,       \* nothing is there
  Torn        \* a file that was created and not filled

ASSUME FinalizationAssumption == MaxFaults \in Nat /\ MaxDeaths \in Nat /\ None # Torn

Selections == {"fallback", "generated"}
ASSUME NoneAssumption == {None, Torn} \cap Selections = {}

\* The gates of a candidate, in their order.
Gates == <<"candidate closure", "clean replay", "organizer check", "final report",
           "closed bundle">>

\* Why a generated candidate is not offered to the walk: its training was refused before it
\* had an execution, failed under the eyes of this attempt, is retained as failed, gave
\* other bytes, its evidence does not hold together, or an artifact of the replay candidate
\* collides with what a death left.  A ledger row holds a digest of the exception,
\* so each is another row.
Reasons == {"refused", "error", "retained", "bytes", "candidate", "object"}

\* What an attempt may leave broken: a JSON file of the controller that was created and not
\* filled, or an artifact of a replay candidate that was linked and not unlinked.
Files == {"journal", "generated", "fallback"}

Failures == [candidate : Selections, gate : 1 .. Len(Gates)]
Ledgers == [training : {"none", "failed", "exact", "different"}, reason : Reasons \cup {None}]

VARIABLES
  wanted,    \* candidate that research selected
  sound,     \* the retained evidence of that candidate holds together
  late,      \* the hard deadline has passed
  status,    \* campaigns.status
  training,  \* execution of the final training
  incumbent, \* current incumbent
  jsonl,     \* experiments.jsonl: None, Torn or its content
  staging,   \* .experiments.csv.staging is there
  csv,       \* experiments.csv
  bundle,    \* published bundle directory
  receipt,   \* production outcome: None, Torn or its content
  broken,    \* the Files that are broken; nothing repairs them
  phase, job, faults, deaths

store == <<status, training, incumbent>>
ledger == <<jsonl, staging, csv>>
vars == <<wanted, sound, late, store, ledger, bundle, receipt, broken, phase, job, faults, deaths>>

Phases == {"down", "load", "train", "spawn", "run", "build", "fallback", "jsonl", "fill_jsonl",
           "csv", "rename_csv", "open", "walk", "rename", "verify", "clean", "close", "finish",
           "incumbent", "complete", "receipt", "fill", "failed", "returned"}
Idle == {"down", "returned"}

Job == [recovered : BOOLEAN, signalled : BOOLEAN, reason : Reasons \cup {None},
        walk : {<<>>, <<"fallback">>, <<"generated", "fallback">>},
        gate : 1 .. Len(Gates), failures : SUBSET Failures]
NoJob == [recovered |-> FALSE, signalled |-> FALSE, reason |-> None,
          walk |-> <<"fallback">>, gate |-> 1, failures |-> {}]

Bundles == [selected : Selections, reason : Reasons \cup {None}, failures : SUBSET Failures,
            ledger : Ledgers, closed : BOOLEAN]
ASSUME AbsentAssumption == None \notin Reasons \cup Bundles
Modes == {"not applicable", "completed", "failed closed", "recovered"}
Receipts == [selected : Selections, reason : Reasons \cup {None}, failures : SUBSET Failures,
             mode : Modes]
Receipted == receipt \notin {None, Torn}

Init ==
  /\ wanted \in Selections /\ sound \in BOOLEAN
  /\ late = FALSE
  /\ status = "FINALIZATION_REQUIRED" /\ training = "none" /\ incumbent = "fallback"
  /\ jsonl = None /\ staging = FALSE /\ csv = None
  /\ bundle = None /\ receipt = None /\ broken = {}
  /\ phase = "down" /\ job = NoJob
  /\ faults = 0 /\ deaths = 0

\* _FinalizationDeadlineEvent.is_set.
Cancelled == late \/ job.signalled

Goto(next) == phase' = next
Fail == Goto("failed") /\ UNCHANGED job
Bounds == UNCHANGED <<wanted, sound, late, broken, faults, deaths>>

-----------------------------------------------------------------------------
(* finalize_provider_free_campaign                                         *)

\* The campaign is resumed, whose files must be readable: an execution without a process is
\* interrupted, one that was left running is not accepted (CampaignLifecycle), and a campaign
\* out of time is INCOMPLETE.
Command ==
  /\ phase \in Idle /\ status # "INCOMPLETE" /\ training # "running" /\ "journal" \notin broken
  /\ training' = IF training = "starting" THEN "failed" ELSE training
  /\ IF late /\ status # "COMPLETED"
     THEN status' = "INCOMPLETE" /\ UNCHANGED <<phase, job>>
     ELSE Goto("load") /\ job' = NoJob /\ UNCHANGED status
  /\ UNCHANGED <<incumbent, ledger, bundle, receipt>> /\ Bounds

\* _load_production_outcome accepts the receipt: the bundle is closed, it is the bundle of
\* the receipt, and a generated one has its charged training.
Retained ==
  /\ status = "COMPLETED" /\ bundle # None /\ bundle.closed
  /\ receipt.selected = bundle.selected
  /\ bundle.selected = "generated" => training = "exact"

\* Mutant of Found: only a completed campaign can have a bundle.
FoundCompleted == bundle # None /\ status = "COMPLETED"

\* A bundle is published already.
Found == bundle # None

\* The retained files decide how this attempt goes on.
Load ==
  /\ phase = "load"
  /\ \/ /\ ~Cancelled /\ Receipted /\ Retained
        /\ Goto("returned") /\ UNCHANGED <<job, status>>
     \/ /\ ~Cancelled /\ receipt = None /\ (Found \/ status # "COMPLETED")
        /\ status' = IF status = "FINALIZATION_REQUIRED" THEN "FINALIZING" ELSE status
        /\ job' = [job EXCEPT !.recovered = Found]
        /\ \/ Found /\ Goto("close")
           \/ ~Found /\ wanted = "generated" /\ Goto("train")
           \/ ~Found /\ wanted = "fallback" /\ Goto("fallback")
     \/ /\ \/ Cancelled \/ receipt = Torn \/ (Receipted /\ ~Retained)
           \/ receipt = None /\ ~Found /\ status = "COMPLETED"
        /\ Fail /\ UNCHANGED status
  /\ UNCHANGED <<training, incumbent, ledger, bundle, receipt>> /\ Bounds

\* An attempt that raised after the deadline resumes the campaign once more, if it can be
\* read; this leaves a campaign alone that the attempt has completed.
Failed ==
  /\ phase = "failed"
  /\ status' = IF late /\ status # "COMPLETED" /\ "journal" \notin broken THEN "INCOMPLETE" ELSE status
  /\ Goto("down") /\ job' = NoJob
  /\ UNCHANGED <<training, incumbent, ledger, bundle, receipt>> /\ Bounds

-----------------------------------------------------------------------------
(* The generated candidate.                                                *)

\* Its training is there and exact: a published bundle can be completed, or the candidate is
\* rebuilt for the walk.
Trained == Goto(IF job.recovered THEN "finish" ELSE "build") /\ UNCHANGED job

\* Any exception falls back to the official candidate, unless the attempt is cancelled or
\* the generated bundle is already published.
GiveUp(reason) ==
  IF Cancelled \/ job.recovered THEN Fail
  ELSE Goto("fallback") /\ job' = [job EXCEPT !.reason = reason]

\* _fresh_training_replay: one charged execution for all attempts; a terminal one is reread.
Train ==
  /\ phase = "train"
  /\ \/ Cancelled /\ Fail /\ UNCHANGED training
     \/ ~Cancelled /\ training = "none" /\ training' = "starting" /\ Goto("spawn") /\ UNCHANGED job
     \/ ~Cancelled /\ training = "none" /\ GiveUp("refused") /\ UNCHANGED training
     \/ ~Cancelled /\ training = "failed" /\ GiveUp("retained") /\ UNCHANGED training
     \/ ~Cancelled /\ training = "different" /\ GiveUp("bytes") /\ UNCHANGED training
     \/ ~Cancelled /\ training = "exact" /\ Trained /\ UNCHANGED training
  /\ UNCHANGED <<status, incumbent, ledger, bundle, receipt>> /\ Bounds

\* The execution is committed RUNNING, or ends before it has a process.
Spawn ==
  /\ phase = "spawn"
  /\ \/ training' = "running" /\ Goto("run") /\ UNCHANGED job
     \/ training' = "failed" /\ GiveUp("error")
  /\ UNCHANGED <<status, incumbent, ledger, bundle, receipt>> /\ Bounds

\* A cancelled execution is finished too; its checkpoint must have the selected bytes.
EndTraining ==
  /\ phase = "run"
  /\ \/ training' = "exact" /\ Trained
     \/ training' = "different" /\ GiveUp("bytes")
     \/ training' = "failed" /\ GiveUp("error")
  /\ UNCHANGED <<status, incumbent, ledger, bundle, receipt>> /\ Bounds

\* _generated_replay_candidate: it fails for evidence that does not hold together or an
\* artifact that collides, every time, or for a fault, once.
Build ==
  /\ phase = "build"
  /\ \/ Cancelled /\ Fail /\ UNCHANGED faults
     \/ ~Cancelled /\ "generated" \in broken /\ GiveUp("object") /\ UNCHANGED faults
     \/ /\ ~Cancelled /\ sound /\ "generated" \notin broken
        /\ Goto("fallback") /\ job' = [job EXCEPT !.walk = <<"generated", "fallback">>]
        /\ UNCHANGED faults
     \/ ~Cancelled /\ ~sound /\ "generated" \notin broken /\ GiveUp("candidate") /\ UNCHANGED faults
     \/ ~Cancelled /\ faults < MaxFaults /\ faults' = faults + 1 /\ GiveUp("error")
  /\ UNCHANGED <<wanted, sound, late, deaths, broken, store, ledger, bundle, receipt>>

\* _fallback_replay_candidate: there is nothing behind it to fall back to.
BuildFallback ==
  /\ phase = "fallback"
  /\ IF "fallback" \in broken THEN Fail ELSE Goto("jsonl") /\ UNCHANGED job
  /\ UNCHANGED <<store, ledger, bundle, receipt>> /\ Bounds

-----------------------------------------------------------------------------
(* _write_experiment_ledgers                                               *)

\* The rows: the campaign database, and the failure of the training if there was one.
Rows == [training |-> training, reason |-> job.reason]

\* Mutant of WriteJsonl: a retained file is taken as it is.
WriteJsonlUnread ==
  /\ phase = "jsonl"
  /\ jsonl' = IF jsonl = None THEN Torn ELSE jsonl
  /\ Goto(IF jsonl = None THEN "fill_jsonl" ELSE "csv")
  /\ UNCHANGED <<job, store, staging, csv, bundle, receipt>> /\ Bounds

\* A retained file must have exactly these rows.
WriteJsonl ==
  /\ phase = "jsonl"
  /\ \/ jsonl = None /\ jsonl' = Torn /\ Goto("fill_jsonl") /\ UNCHANGED job
     \/ jsonl = Rows /\ Goto("csv") /\ UNCHANGED <<jsonl, job>>
     \/ jsonl \notin {None, Rows} /\ Fail /\ UNCHANGED jsonl
  /\ UNCHANGED <<store, staging, csv, bundle, receipt>> /\ Bounds

FillJsonl ==
  /\ phase = "fill_jsonl"
  /\ jsonl' = Rows /\ Goto("csv")
  /\ UNCHANGED <<job, store, staging, csv, bundle, receipt>> /\ Bounds

\* The table is written beside its place; the staging file is opened exclusively and only the
\* rename takes it away.
WriteCsv ==
  /\ phase = "csv"
  /\ \/ csv = None /\ ~staging /\ staging' = TRUE /\ Goto("rename_csv") /\ UNCHANGED job
     \/ csv = Rows /\ Goto("open") /\ UNCHANGED <<staging, job>>
     \/ /\ IF csv = None THEN staging ELSE csv # Rows
        /\ Fail /\ UNCHANGED staging
  /\ UNCHANGED <<store, jsonl, csv, bundle, receipt>> /\ Bounds

RenameCsv ==
  /\ phase = "rename_csv"
  /\ staging' = FALSE /\ csv' = Rows /\ Goto("open")
  /\ UNCHANGED <<job, store, jsonl, bundle, receipt>> /\ Bounds

-----------------------------------------------------------------------------
(* run_finalization and create_final_bundle                                *)

OpenWalk ==
  /\ phase = "open"
  /\ IF Cancelled \/ bundle # None THEN Fail ELSE Goto("walk") /\ UNCHANGED job
  /\ UNCHANGED <<store, ledger, bundle, receipt>> /\ Bounds

\* Mutant of WalkBack: the end of the lineage is not noticed.
WalkBackOn ==
  /\ job' = [job EXCEPT !.walk = Tail(@), !.gate = 1,
                        !.failures = @ \cup {[candidate |-> Head(job.walk), gate |-> job.gate]}]
  /\ Goto("walk")

\* The candidate failed its gate; the next one in the lineage is tried.
WalkBack ==
  /\ job' = [job EXCEPT !.walk = Tail(@), !.gate = 1,
                        !.failures = @ \cup {[candidate |-> Head(job.walk), gate |-> job.gate]}]
  /\ Goto(IF Tail(job.walk) = <<>> THEN "failed" ELSE "walk")

Occupied == job.gate = Len(Gates) /\ bundle # None

\* Every gate looks at the cancellation first.
PassGate ==
  /\ phase = "walk" /\ ~Cancelled /\ ~Occupied
  /\ IF job.gate = Len(Gates)
     THEN Goto("rename") /\ UNCHANGED job
     ELSE job' = [job EXCEPT !.gate = @ + 1] /\ UNCHANGED phase
  /\ UNCHANGED <<store, ledger, bundle, receipt>> /\ Bounds

CancelGate ==
  /\ phase = "walk" /\ Cancelled /\ Fail
  /\ UNCHANGED <<store, ledger, bundle, receipt>> /\ Bounds

\* A generated candidate may fail whenever it likes, the fallback only for a fault.
FailGate ==
  /\ phase = "walk" /\ ~Cancelled
  /\ faults' = IF Head(job.walk) = "generated" \/ Occupied THEN faults ELSE faults + 1
  /\ faults' <= MaxFaults
  /\ WalkBack
  /\ UNCHANGED <<wanted, sound, late, deaths, broken, store, ledger, bundle, receipt>>

\* The staged directory is renamed to a name that must be free.  The deadline may have passed
\* since it was looked at.
Rename ==
  /\ phase = "rename"
  /\ IF bundle = None
     THEN /\ bundle' = [selected |-> Head(job.walk), reason |-> job.reason,
                        failures |-> job.failures, ledger |-> jsonl, closed |-> FALSE]
          /\ Goto("verify") /\ UNCHANGED job
     ELSE WalkBack /\ UNCHANGED bundle
  /\ UNCHANGED <<store, ledger, receipt>> /\ Bounds

\* The published files are read again; a difference fails the candidate, not the bundle.
Verify ==
  /\ phase = "verify"
  /\ \/ Goto("clean") /\ UNCHANGED <<job, faults>>
     \/ WalkBack /\ faults' = faults + 1 /\ faults' <= MaxFaults
  /\ UNCHANGED <<wanted, sound, late, deaths, broken, store, ledger, bundle, receipt>>

\* The work root is removed, even after a success.
Clean ==
  /\ phase = "clean"
  /\ Goto("close")
  /\ UNCHANGED <<job, store, ledger, bundle, receipt>> /\ Bounds

-----------------------------------------------------------------------------
(* Completion.                                                             *)

\* Mutant of Close: a bundle found on a retry is left writable.
CloseFresh ==
  /\ phase = "close"
  /\ bundle' = [bundle EXCEPT !.closed = @ \/ ~job.recovered]
  /\ Goto(IF job.recovered /\ bundle.selected = "generated" THEN "train" ELSE "finish")
  /\ UNCHANGED <<job, store, ledger, receipt>> /\ Bounds

\* _close_bundle_directories takes the write bits away; a recovered generated bundle then has
\* its training reread.
Close ==
  /\ phase = "close"
  /\ bundle' = [bundle EXCEPT !.closed = TRUE]
  /\ Goto(IF job.recovered /\ bundle.selected = "generated" THEN "train" ELSE "finish")
  /\ UNCHANGED <<job, store, ledger, receipt>> /\ Bounds

\* The last look at the deadline.
Finish ==
  /\ phase = "finish"
  /\ IF Cancelled THEN Fail ELSE Goto("incumbent") /\ UNCHANGED job
  /\ UNCHANGED <<store, ledger, bundle, receipt>> /\ Bounds

\* _complete_campaign: a generated incumbent is recorded, a fallback one must still be there ...
Incumbent ==
  /\ phase = "incumbent"
  /\ IF bundle.selected = "fallback" /\ incumbent # "fallback" THEN Fail
     ELSE Goto("complete") /\ UNCHANGED job
  /\ incumbent' = IF bundle.selected = "generated" THEN "generated" ELSE incumbent
  /\ UNCHANGED <<status, training, ledger, bundle, receipt>> /\ Bounds

\* ... and the campaign is completed.
Complete ==
  /\ phase = "complete"
  /\ IF status \in {"FINALIZING", "COMPLETED"}
     THEN status' = "COMPLETED" /\ Goto("receipt") /\ UNCHANGED job
     ELSE Fail /\ UNCHANGED status
  /\ UNCHANGED <<training, incumbent, ledger, bundle, receipt>> /\ Bounds

CreateReceipt ==
  /\ phase = "receipt"
  /\ IF receipt = None THEN receipt' = Torn /\ Goto("fill") /\ UNCHANGED job
     ELSE Fail /\ UNCHANGED receipt
  /\ UNCHANGED <<store, ledger, bundle>> /\ Bounds

\* What the receipt says of the training replay.
Mode ==
  CASE job.recovered /\ bundle.selected = "fallback" -> "recovered"
    [] job.recovered /\ bundle.selected = "generated" -> "completed"
    [] ~job.recovered /\ wanted = "fallback" -> "not applicable"
    [] ~job.recovered /\ wanted = "generated" -> IF job.reason = None THEN "completed" ELSE "failed closed"

\* A recovered bundle is acknowledged without the failures that led to it.
FillReceipt ==
  /\ phase = "fill"
  /\ receipt' = [selected |-> bundle.selected, reason |-> job.reason,
                 failures |-> job.failures, mode |-> Mode]
  /\ Goto("returned") /\ UNCHANGED job
  /\ UNCHANGED <<store, ledger, bundle>> /\ Bounds

-----------------------------------------------------------------------------
(* What happens to an attempt.                                             *)

\* An exception that nothing here handles.  _write_exclusive removes what it could not
\* fill; the staging file of the table stays.
Raise ==
  /\ faults < MaxFaults /\ faults' = faults + 1
  /\ phase \notin Idle \cup {"failed", "spawn", "run", "build"}
  /\ phase = "train" => job.recovered
  /\ jsonl' = IF phase = "fill_jsonl" THEN None ELSE jsonl
  /\ receipt' = IF phase = "fill" THEN None ELSE receipt
  /\ Fail
  /\ UNCHANGED <<wanted, sound, late, deaths, broken, store, staging, csv, bundle>>

Signal ==
  /\ phase \notin Idle /\ ~job.signalled
  /\ deaths < MaxDeaths /\ deaths' = deaths + 1
  /\ job' = [job EXCEPT !.signalled = TRUE]
  /\ UNCHANGED <<wanted, sound, late, broken, store, ledger, bundle, receipt, phase, faults>>

Die ==
  /\ phase \notin Idle
  /\ deaths < MaxDeaths /\ deaths' = deaths + 1
  /\ Goto("down") /\ job' = NoJob
  /\ UNCHANGED <<wanted, sound, late, broken, store, ledger, bundle, receipt, faults>>

\* Where an attempt appends a checkpoint to the deadline chain: observe_deadline before the
\* training, before either candidate is built and before the completion; and the resume of a
\* campaign that is not over, which also writes what it reconciled.
Observing ==
  \/ phase \in {"train", "build", "fallback", "finish"}
  \/ phase = "failed" /\ late /\ status # "COMPLETED"
  \/ phase \in Idle /\ status \notin {"COMPLETED", "INCOMPLETE"}

\* The file is created and not filled, by a death or for a fault, and stays: _write_new_json
\* closes it and raises.  Every look at the deadline reads it, the one that decides about the
\* fallback included.
Tear ==
  /\ Observing /\ "journal" \notin broken /\ broken' = broken \cup {"journal"}
  /\ \/ UNCHANGED training
     \/ phase \in Idle /\ training = "starting" /\ training' = "failed"
  /\ \/ deaths < MaxDeaths /\ deaths' = deaths + 1 /\ Goto("down") /\ job' = NoJob /\ UNCHANGED faults
     \/ /\ faults < MaxFaults /\ faults' = faults + 1 /\ UNCHANGED deaths
        /\ IF phase \in Idle \cup {"failed"} THEN Goto("down") /\ job' = NoJob ELSE Fail
  /\ UNCHANGED <<wanted, sound, late, status, incumbent, ledger, bundle, receipt>>

\* A death while an artifact of a replay candidate has two names: every later put of the same
\* content finds an object it does not accept.
DieStoring ==
  /\ phase \in {"build", "fallback"}
  /\ deaths < MaxDeaths /\ deaths' = deaths + 1
  /\ broken' = broken \cup {IF phase = "build" THEN "generated" ELSE "fallback"}
  /\ Goto("down") /\ job' = NoJob
  /\ UNCHANGED <<wanted, sound, late, store, ledger, bundle, receipt, faults>>

Tick ==
  /\ ~late /\ late' = TRUE
  /\ UNCHANGED <<wanted, sound, broken, store, ledger, bundle, receipt, phase, job, faults, deaths>>

Step ==
  \/ Command \/ Load \/ Failed
  \/ Train \/ Spawn \/ EndTraining \/ Build \/ BuildFallback
  \/ WriteJsonl \/ FillJsonl \/ WriteCsv \/ RenameCsv
  \/ OpenWalk \/ PassGate \/ CancelGate \/ FailGate \/ Rename \/ Verify \/ Clean
  \/ Close \/ Finish \/ Incumbent \/ Complete \/ CreateReceipt \/ FillReceipt

Next == Step \/ Raise \/ Signal \/ Die \/ Tear \/ DieStoring \/ Tick

Spec == Init /\ [][Next]_vars

\* The attempt goes on, and the operator starts another one when it has ended.
FairSpec == Spec /\ WF_vars(Step)

-----------------------------------------------------------------------------
(* Properties.                                                             *)

\* Every variable holds a value of its type, and the walk is never looked into when it is
\* over.
TypeOK ==
  /\ wanted \in Selections /\ sound \in BOOLEAN /\ late \in BOOLEAN
  /\ status \in {"FINALIZATION_REQUIRED", "FINALIZING", "COMPLETED", "INCOMPLETE"}
  /\ training \in {"none", "starting", "running", "failed", "exact", "different"}
  /\ incumbent \in Selections
  /\ jsonl \in Ledgers \cup {None, Torn} /\ csv \in Ledgers \cup {None} /\ staging \in BOOLEAN
  /\ bundle \in Bundles \cup {None}
  /\ receipt \in Receipts \cup {None, Torn} /\ broken \in SUBSET Files
  /\ phase \in Phases /\ job \in Job
  /\ phase \in {"walk", "rename", "verify"} => job.walk # <<>>
  /\ faults \in 0 .. MaxFaults /\ deaths \in 0 .. MaxDeaths

\* A published bundle explains itself, whichever attempt left which part of it: the ledgers
\* in it are the retained ones and say of the final training what the database says; its
\* report and its ledger give the same reason; a generated bundle was trained to the selected
\* bytes; and where the fallback stands for a generated candidate, the bundle says what
\* became of that one.  Only a receipt that says it was recovered leaves the failures out.
Explained ==
  /\ bundle # None =>
       /\ bundle.ledger = jsonl /\ bundle.ledger = csv
       /\ bundle.ledger = [training |-> training, reason |-> bundle.reason]
       /\ bundle.selected = "generated" =>
            wanted = "generated" /\ training = "exact" /\ bundle.failures = {}
       /\ bundle.selected = "fallback" /\ wanted = "generated" =>
            bundle.reason # None \/ \E f \in bundle.failures : f.candidate = "generated"
  /\ Receipted /\ receipt.mode # "recovered" =>
       receipt.reason = bundle.reason /\ receipt.failures = bundle.failures

\* _finalize_provider_free_campaign_impl: "Exact terminal retries verify and return the
\* retained outcome" - before the deadline, whatever died between publication and receipt.
RetryReturns ==
  [][phase = "load" /\ Receipted /\ ~Cancelled /\ faults' = faults /\ phase' \notin {"load", "down"}
       => phase' = "returned"]_vars

\* A retained ledger whose reason the next attempt need not find again: it finds the retained
\* failure, a success, or an artifact that collides by now, and contradicts it.
Contradicted ==
  /\ bundle = None /\ jsonl \notin {None, Torn}
  /\ \/ jsonl.reason \in {"refused", "error"}
     \/ jsonl.reason \in {None, "candidate"} /\ "generated" \in broken

\* What an attempt may leave that later ones do not get past: a running execution, a broken
\* file of the controller or of the fallback, a torn ledger or receipt, the staging file of
\* the table, a ledger that will be contradicted.
Jammed ==
  /\ phase = "down"
  /\ \/ training = "running" \/ "journal" \in broken \/ "fallback" \in broken
     \/ jsonl = Torn \/ receipt = Torn \/ staging \/ Contradicted

\* An attempt that is repeated ends with the receipt of a published bundle, unless the deadline
\* passes or an attempt left one of these.  Everything else that a death, a signal or a fault
\* leaves at the steps above is caught up with: a published bundle without its receipt, a
\* campaign half completed, a candidate that can no longer be built.
Finishes == <>(Receipted \/ late \/ Jammed)
=============================================================================
