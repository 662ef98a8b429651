-------------------------- MODULE CampaignLifecycle --------------------------
(***************************************************************************)
(* A campaign from its creation to its outcome receipt: the commands       *)
(* `resume` (drive, then finalize) and `finalize`, which share             *)
(* CampaignEngine.resume, the progress checkpoints of the runtime, the     *)
(* research outcome they end in, and the production finalization that      *)
(* publishes one bundle before the hard deadline.  A command may die       *)
(* between any two durable steps, and nothing stops two commands from      *)
(* running on one directory.                                               *)
(*                                                                         *)
(* Executions are reduced to the status of the row a command has in hand   *)
(* (LaunchJournal has the details) and public queries to what the ledgers  *)
(* agree on (OuterQueries).  An exception that no action names ends the    *)
(* command where it is, which is Crash.                                    *)
(*                                                                         *)
(* A durable step may itself be made of two: a checkpoint and a manifest   *)
(* are linked from a staging name that is unlinked afterwards, a deadline  *)
(* checkpoint and a reconciliation report are created and then filled.     *)
(* Between the two, and for ever when the command dies there, whoever      *)
(* reads the file raises: Writes says which step writes what, Reads which  *)
(* step reads what.                                                        *)
(***************************************************************************)
EXTENDS Naturals, FiniteSets

CONSTANTS
  Controllers,    \* commands that may run on the directory
  Wall,           \* hard deadline, in ticks after the start
  Reserve,        \* finalization reserve before it
  MaxNow,         \* last tick that is explored
  MaxCandidates,  \* scientific iterations of a live campaign
  MaxPromotions,  \* outer promotion limit
  MaxCrashes,     \* bound on deaths of commands
  None

ASSUME DeadlineAssumption == Wall \in Nat /\ Reserve \in 1 .. (Wall - 1) /\ MaxNow \in 0 .. Wall
ASSUME LimitsAssumption ==
  /\ MaxCandidates \in Nat \ {0} /\ MaxPromotions \in Nat \ {0} /\ MaxCrashes \in Nat

Selections == {"fallback", "generated"}
ASSUME NoneAssumption == None \notin Selections \cup Controllers

\* The checkpoint stages, in their only order.
Stages == <<"DATA_PREPARED", "QUALIFICATION_VERIFIED", "FOLD_CONTROLS_READY", "FEATURES_READY",
            "LINEAGE_READY", "SCIENCE_COMPLETE", "REFLECTED", "FINALIZATION_REQUIRED">>
FoldControls == 3
Features == 4
Lineage == 5
Science == 6
Reflected == 7
Handoff == 8

Candidates == 1 .. MaxCandidates

VARIABLES
  live,       \* the request names a live provider; else there is one scripted candidate
  now,        \* elapsed campaign time
  status,     \* campaigns.status
  rev,        \* revision of the campaign database
  stages,     \* number of retained progress checkpoints
  bare,       \* the retained LINEAGE_READY was written by a pass that closed research
  folds,      \* fold controls: not trained, "ready" or "failed"
  verdict,    \* candidate -> what the ledgers say of it
  outcome,    \* selection of the retained research outcome, or None
  child,      \* controller -> execution row it opened and has not finished
  training,   \* the final training replay execution
  bundle,     \* selection of the published bundle, or None
  incumbent,  \* current incumbent of the campaign database
  receipt,    \* production outcome file: None, Torn or its content
  broken,     \* kinds of files with one that a death left torn or linked twice
  crashes, pc, job

store == <<status, rev, folds, verdict, child, training, incumbent>>
files == <<stages, bare, outcome, bundle, receipt>>
vars == <<live, now, store, files, broken, crashes, pc, job>>

\* The deadline chain, the reconciliation reports and manifests, the progress checkpoints
\* and the object of the research outcome.
Kinds == {"deadline", "reconciliation", "progress", "outcome"}

States == {"RUNNING", "FINALIZATION_REQUIRED", "FINALIZING", "COMPLETED", "INCOMPLETE"}
Terminal == {"COMPLETED", "INCOMPLETE"}

\* A candidate is rejected before it reaches the public data, or a public query is charged
\* to it, which it wins (it becomes the research incumbent) or loses.
Verdicts == {"none", "rejected", "charged", "won", "lost"}
Charged == {c \in Candidates : verdict[c] \in {"charged", "won", "lost"}}
Winner == \E c \in Candidates : verdict[c] = "won"

Receipts == [selected : Selections, rev : Nat]
Torn == [selected |-> None, rev |-> 0]   \* created, not filled
ASSUME TornAssumption == Torn # None /\ None \notin Receipts
Receipted == receipt \notin {None, Torn}

Phases == {"down", "returned", "drive", "resume", "dispose", "set", "resumed",
           "stage", "gate", "science", "begin", "commit_child", "end_child", "verdict",
           "ensure", "commit", "load", "phase", "prepare", "publish", "observe",
           "incumbent", "complete", "receipt", "fill", "failed"}

Job == [kind : {"drive", "finalize", "expire"}, seen : Nat, target : States \cup {None},
        required : BOOLEAN, done : BOOLEAN, next : 1 .. Handoff, close : BOOLEAN,
        resumed : BOOLEAN, cand : 0 .. MaxCandidates, ok : BOOLEAN, final : BOOLEAN,
        picked : Selections, rev : Nat]

NoJob == [kind |-> "drive", seen |-> 0, target |-> None, required |-> FALSE, done |-> FALSE,
          next |-> 1, close |-> FALSE, resumed |-> FALSE, cand |-> 0, ok |-> TRUE,
          final |-> FALSE, picked |-> "fallback", rev |-> 0]

Init ==
  /\ live \in BOOLEAN
  /\ now = 0
  /\ status = "RUNNING" /\ rev = 0
  /\ stages = 0
  /\ bare = FALSE
  /\ folds = "none"
  /\ verdict = [c \in Candidates |-> "none"]
  /\ outcome = None
  /\ child = [p \in Controllers |-> "none"]
  /\ training = "none"
  /\ bundle = None
  /\ incumbent = "fallback"
  /\ receipt = None
  /\ broken = {}
  /\ crashes = 0
  /\ pc = [p \in Controllers |-> "down"]
  /\ job = [p \in Controllers |-> NoJob]

Expired == now >= Wall
ReserveActive(t) == t >= Wall - Reserve

Goto(p, next) == pc' = [pc EXCEPT ![p] = next]
Keep == UNCHANGED <<live, now, broken, crashes>>

\* The command ends, having raised or (Return) having printed its result.
Exit(p) == Goto(p, "down") /\ job' = [job EXCEPT ![p] = NoJob]
Return(p) == Goto(p, "returned") /\ job' = [job EXCEPT ![p] = NoJob]

-----------------------------------------------------------------------------
(* Files in the middle of being written.                                   *)

\* What the step that p is at reads.  resume reads its own reports and manifests again, the
\* gates and the follow-ups look at the clock, the commit puts an object that may be there.
Reads(p) ==
  CASE pc[p] \in {"drive", "stage"} -> {"progress"}
    [] pc[p] = "resume" -> {"deadline", "reconciliation"}
    [] pc[p] \in {"gate", "publish"} -> {"progress", "deadline"}
    [] pc[p] = "commit" -> {"progress", "outcome"}
    [] pc[p] = "load" -> {"progress", "deadline", "reconciliation"}
    [] pc[p] \in {"science", "begin", "prepare", "observe"} -> {"deadline"}
    [] OTHER -> {}

\* What it has half written when it stops in the middle of the step.  A resume observes the
\* deadline and then reports what it interrupted; one of a terminal campaign writes nothing.
Writes(p) ==
  CASE pc[p] \in {"resume", "dispose"} /\ status \notin Terminal -> {"deadline", "reconciliation"}
    [] pc[p] \in {"begin", "publish", "observe"} -> {"deadline"}
    [] pc[p] = "stage" /\ stages = job[p].next - 1 -> {"progress"}
    [] pc[p] = "commit" /\ stages = Reflected -> {"progress", "outcome"}
    [] OTHER -> {}

\* A file of kind k cannot be read by p: one is left broken, or another command is at it.
Unreadable(p, k) == k \in broken \/ \E q \in Controllers \ {p} : k \in Writes(q)

\* Nothing that p must read stays broken.  The object of an outcome is in the way of a
\* commit of the same content only.
Legible(p) == Reads(p) \cap broken \subseteq {"outcome"}

-----------------------------------------------------------------------------
(* The commands and CampaignEngine.resume.                                 *)

\* The operator starts `resume` or `finalize`.
Command(p) ==
  /\ pc[p] \in {"down", "returned"}
  /\ \/ /\ job' = [job EXCEPT ![p] = NoJob]
        /\ Goto(p, "drive")
     \/ /\ job' = [job EXCEPT ![p] = [NoJob EXCEPT !.kind = "finalize"]]
        /\ Goto(p, "resume")
  /\ UNCHANGED <<store, files>> /\ Keep

\* The progress ledger already ends in the handoff.
HandedOff == stages = Handoff

\* Mutant of Drive: the retained research outcome is not looked for.
DriveAnew(p) ==
  /\ pc[p] = "drive" /\ Legible(p)
  /\ Goto(p, "resume")
  /\ UNCHANGED <<store, files, job>> /\ Keep

\* run_provider_free_campaign returns a retained outcome at once; finalization follows.
Drive(p) ==
  /\ pc[p] = "drive" /\ Legible(p)
  /\ job' = [job EXCEPT ![p].kind = IF HandedOff THEN "finalize" ELSE "drive"]
  /\ Goto(p, "resume")
  /\ UNCHANGED <<store, files>> /\ Keep

\* Nobody's execution row is RUNNING; every production workspace lies outside
\* <run>/workspaces, so resume raises on the first one that is.
Reconcilable == \A p \in Controllers : child[p] # "running"
Unfinished == {p \in Controllers : child[p] # "none"}

\* resume: a terminal campaign is only reported; otherwise the deadline is observed and
\* executions that never got a process are interrupted.
ResumeRead(p) ==
  /\ pc[p] = "resume" /\ Legible(p)
  /\ \/ /\ status \in Terminal /\ Unfinished = {}
        /\ Goto(p, "resumed")
        /\ UNCHANGED <<store, job>>
     \/ /\ status \notin Terminal /\ Reconcilable
        /\ child' = [q \in Controllers |-> "none"]
        /\ training' = IF training = "opened" THEN "failed" ELSE training
        /\ job' = [job EXCEPT ![p].seen = now]
        /\ Goto(p, "dispose")
        /\ UNCHANGED <<status, rev, folds, verdict, incumbent>>
     \/ /\ IF status \in Terminal THEN Unfinished # {} ELSE ~Reconcilable
        /\ Exit(p)
        /\ UNCHANGED store
  /\ UNCHANGED files /\ Keep

\* Mutant of Disposition: an expired campaign that is being finalized is left alone.
DispositionFinalizing(seen, stop) ==
  CASE status \in Terminal \cup {"FINALIZING"} -> None
    [] seen >= Wall -> "INCOMPLETE"
    [] status = "RUNNING" /\ (ReserveActive(seen) \/ stop) -> "FINALIZATION_REQUIRED"
    [] OTHER -> None

\* _next_campaign_disposition; stop is "launches, iterations or convergence say stop".
Disposition(seen, stop) ==
  CASE status \in Terminal -> None
    [] status \notin Terminal /\ seen >= Wall -> "INCOMPLETE"
    [] seen < Wall /\ status = "RUNNING" /\ (ReserveActive(seen) \/ stop) -> "FINALIZATION_REQUIRED"
    [] OTHER -> None

Dispose(p) ==
  /\ pc[p] = "dispose"
  /\ \E stop \in BOOLEAN :
       LET target == Disposition(job[p].seen, stop)
       IN /\ job' = [job EXCEPT ![p].target = target]
          /\ Goto(p, IF target = None THEN "resumed" ELSE "set")
  /\ UNCHANGED <<store, files>> /\ Keep

\* set_campaign_phase checks a revision that was read after the disposition was chosen,
\* and no transition table.
SetPhase(p) ==
  /\ pc[p] = "set" /\ job[p].target # None
  /\ status' = job[p].target
  /\ rev' = rev + 1
  /\ Goto(p, "resumed")
  /\ UNCHANGED <<folds, verdict, child, training, incumbent, files, job>> /\ Keep

\* What the caller of resume does with the status it returns.
Resumed(p) ==
  /\ pc[p] = "resumed"
  /\ \/ /\ job[p].kind = "drive" /\ status \notin Terminal
        /\ job' = [job EXCEPT ![p] = [NoJob EXCEPT !.required = (status # "RUNNING")]]
        /\ Goto(p, "stage")
     \/ /\ job[p].kind = "finalize"
        /\ status # "INCOMPLETE" /\ (status = "COMPLETED" \/ ~Expired)
        /\ job' = [job EXCEPT ![p] = [NoJob EXCEPT !.kind = "finalize",
                                                      !.done = (status = "COMPLETED")]]
        /\ Goto(p, "load")
     \/ /\ \/ job[p].kind = "drive" /\ status \in Terminal
           \/ job[p].kind = "finalize" /\ (status = "INCOMPLETE" \/ (status # "COMPLETED" /\ Expired))
           \/ job[p].kind = "expire"
        /\ Exit(p)
  /\ UNCHANGED <<store, files>> /\ Keep

-----------------------------------------------------------------------------
(* run_provider_free_campaign                                              *)

\* What stands between the runtime and stage n.
TowardStage(n, close) ==
  CASE ~close /\ n \in {FoldControls, Features, Lineage} -> "gate"
    [] ~close /\ n = Science -> "science"
    [] n = Handoff -> "ensure"
    [] OTHER -> "stage"

\* _stage keeps a retained checkpoint as it is, whatever this pass would have written, and
\* appends a new one.  Only a pass that admits research writes a scientific start cursor.
Stage(p) ==
  LET n == job[p].next
  IN /\ pc[p] = "stage" /\ Legible(p) /\ n < Handoff
     /\ stages >= n - 1
     /\ stages' = IF stages >= n THEN stages ELSE n
     /\ bare' = (bare \/ (stages < n /\ n = Lineage /\ job[p].close))
     /\ job' = [job EXCEPT ![p].next = n + 1]
     /\ Goto(p, TowardStage(n + 1, job[p].close))
     /\ UNCHANGED <<store, outcome, bundle, receipt>> /\ Keep

\* Mutant of Closes: the reserve closes research although a promotion was charged.
ClosesAlways(required, authorized) == required \/ ReserveActive(now)

\* Research admission is closed, unless a charged promotion must be completed.
Closes(required, authorized) == (required \/ ReserveActive(now)) /\ ~authorized

\* Before the fold controls: a second charged promotion and a retained lineage without its
\* start cursor are errors.  A control that failed once stays failed and closes research.
FoldGate(p) ==
  LET authorized == Charged # {}
      closed == Closes(job[p].required, authorized)
  IN /\ pc[p] = "gate" /\ Legible(p) /\ job[p].next = FoldControls
     /\ IF Cardinality(Charged) > 1 \/ bare
        THEN Exit(p) /\ UNCHANGED folds
        ELSE /\ folds' \in IF folds = "none" /\ ~closed THEN {"ready", "failed"} ELSE {folds}
             /\ job' = [job EXCEPT ![p].resumed = authorized,
                                   ![p].close = closed \/ folds' = "failed"]
             /\ Goto(p, "stage")
     /\ UNCHANGED <<status, rev, verdict, child, training, incumbent, files>> /\ Keep

\* After the fold controls.
FeatureGate(p) ==
  /\ pc[p] = "gate" /\ job[p].next = Features /\ Legible(p)
  /\ job' = [job EXCEPT ![p].close = Closes(FALSE, job[p].resumed)]
  /\ Goto(p, "stage")
  /\ UNCHANGED <<store, files>> /\ Keep

\* A live lineage needs a provider that can be selected and a reserve that is not active,
\* even when the lineage is retained and only has to be read back.
LineageGate(p) ==
  /\ pc[p] = "gate" /\ job[p].next = Lineage /\ Legible(p)
  /\ \E unavailable \in BOOLEAN :
       /\ unavailable => live
       /\ job' = [job EXCEPT ![p].close = unavailable \/ (live /\ ReserveActive(now))]
  /\ Goto(p, "stage")
  /\ UNCHANGED <<store, files>> /\ Keep

\* The next candidate of this pass: the first one, and then each one that the clock and the
\* ledger allow (_run_autonomous_followups).
NextCandidate(p) ==
  LET c == job[p].cand + 1
  IN /\ pc[p] = "science" /\ Legible(p) /\ c \in Candidates
     /\ c > 1 => live /\ ~ReserveActive(now) /\ Cardinality(Charged) < MaxPromotions
     /\ job' = [job EXCEPT ![p].cand = c, ![p].ok = TRUE,
                           ![p].picked = IF verdict[c] = "won" THEN "generated" ELSE @]
     /\ Goto(p, IF verdict[c] \in {"none", "charged"} THEN "begin" ELSE "science")
     /\ UNCHANGED <<store, files>> /\ Keep

\* A promotion is charged (OuterQueries) and its matched seeds are trained.
Promote(p) ==
  LET c == job[p].cand
  IN /\ pc[p] = "verdict" /\ job[p].ok /\ verdict[c] = "none"
     /\ Cardinality(Charged) < MaxPromotions
     /\ verdict' = [verdict EXCEPT ![c] = "charged"]
     /\ Goto(p, "begin")
     /\ UNCHANGED <<status, rev, folds, child, training, incumbent, files, job>> /\ Keep

\* The candidate is not promotable, or the verdict of its promotion becomes durable.
Verdict(p) ==
  LET c == job[p].cand
  IN /\ pc[p] = "verdict"
     /\ \E v \in {"rejected", "won", "lost"} :
          /\ v = "rejected" <=> verdict[c] = "none"
          /\ v = "won" => job[p].ok
          /\ verdict' = IF verdict[c] \in {"none", "charged"} THEN [verdict EXCEPT ![c] = v] ELSE verdict
     /\ job' = [job EXCEPT ![p].picked = IF verdict'[c] = "won" THEN "generated" ELSE @]
     /\ Goto(p, "science")
     /\ UNCHANGED <<status, rev, folds, child, training, incumbent, files>> /\ Keep

\* The scientific campaign stops; its incumbent is the selection of this pass.
EndScience(p) ==
  /\ pc[p] = "science" /\ job[p].cand > 0
  /\ job' = [job EXCEPT ![p] = [NoJob EXCEPT !.next = Science, !.picked = job[p].picked]]
  /\ Goto(p, "stage")
  /\ UNCHANGED <<store, files>> /\ Keep

\* _ensure_finalization_required.
EnsureRequired(p) ==
  /\ pc[p] = "ensure"
  /\ \/ /\ status = "RUNNING"
        /\ status' = "FINALIZATION_REQUIRED" /\ rev' = rev + 1
        /\ Goto(p, "commit") /\ UNCHANGED job
     \/ /\ status = "FINALIZATION_REQUIRED"
        /\ Goto(p, "commit") /\ UNCHANGED <<status, rev, job>>
     \/ /\ status \notin {"RUNNING", "FINALIZATION_REQUIRED"}
        /\ Exit(p) /\ UNCHANGED <<status, rev>>
  /\ UNCHANGED <<folds, verdict, child, training, incumbent, files>> /\ Keep

\* Mutant of CommitOutcome: the outcome is retained, its checkpoint is not.
CommitUnlisted(p) ==
  /\ pc[p] = "commit" /\ Legible(p)
  /\ outcome' = job[p].picked
  /\ job' = [job EXCEPT ![p] = [NoJob EXCEPT !.kind = "finalize"]]
  /\ Goto(p, "resume")
  /\ UNCHANGED <<store, stages, bare, bundle, receipt>> /\ Keep

\* FullCampaignOutcomeRepository.commit: the handoff checkpoint names the outcome.
CommitOutcome(p) ==
  /\ pc[p] = "commit" /\ Legible(p)
  /\ \/ /\ stages = Reflected
        /\ stages' = Handoff /\ outcome' = job[p].picked
     \/ /\ HandedOff /\ outcome = job[p].picked
        /\ UNCHANGED <<stages, outcome>>
  /\ job' = [job EXCEPT ![p] = [NoJob EXCEPT !.kind = "finalize"]]
  /\ Goto(p, "resume")
  /\ UNCHANGED <<store, bare, bundle, receipt>> /\ Keep

\* A retained outcome with another selection is never replaced.
RefuseOutcome(p) ==
  /\ pc[p] = "commit" /\ HandedOff /\ outcome # job[p].picked /\ Legible(p)
  /\ Exit(p)
  /\ UNCHANGED <<store, files>> /\ Keep

-----------------------------------------------------------------------------
(* Children: the row is opened, then committed RUNNING, then finished.     *)

\* A child that is refused, interrupted or unsuccessful.
ChildFailed(p) ==
  /\ job' = [job EXCEPT ![p].ok = FALSE, ![p].final = FALSE,
                        ![p].picked = IF job[p].final THEN "fallback" ELSE @]
  /\ Goto(p, CASE ~job[p].final -> "verdict"
               [] job[p].final /\ (Expired \/ bundle # None) -> "failed"
               [] job[p].final /\ ~Expired /\ bundle = None -> "publish")

\* Its outputs are there, from this launch or from an earlier one.
ChildSucceeded(p) ==
  /\ job' = [job EXCEPT ![p].ok = TRUE, ![p].final = FALSE,
                        ![p].picked = IF job[p].final THEN "generated" ELSE @]
  /\ Goto(p, CASE ~job[p].final -> "verdict"
               [] job[p].final /\ bundle = None -> "publish"
               [] job[p].final /\ bundle # None -> "observe")

\* Admission may refuse the launch; the row of the final training is opened only once.
StartChild(p) ==
  /\ pc[p] = "begin" /\ Legible(p)
  /\ \/ /\ ~Expired
        /\ job[p].final => training = "none"
        /\ child' = [child EXCEPT ![p] = "starting"]
        /\ training' = IF job[p].final THEN "opened" ELSE training
        /\ Goto(p, "commit_child") /\ UNCHANGED job
     \/ /\ job[p].final /\ training = "succeeded"
        /\ ChildSucceeded(p) /\ UNCHANGED <<child, training>>
     \/ /\ job[p].final => training # "succeeded"
        /\ ChildFailed(p) /\ UNCHANGED <<child, training>>
  /\ UNCHANGED <<status, rev, folds, verdict, incumbent, files>> /\ Keep

\* The row may have been interrupted by the resume of another command.
CommitChild(p) ==
  /\ pc[p] = "commit_child"
  /\ \/ /\ child[p] = "starting"
        /\ child' = [child EXCEPT ![p] = "running"]
        /\ Goto(p, "end_child") /\ UNCHANGED job
     \/ child[p] # "starting" /\ ChildFailed(p) /\ UNCHANGED child
  /\ UNCHANGED <<status, rev, folds, verdict, training, incumbent, files>> /\ Keep

EndChild(p) ==
  /\ pc[p] = "end_child"
  /\ child' = [child EXCEPT ![p] = "none"]
  /\ \/ /\ training' = IF job[p].final THEN "succeeded" ELSE training
        /\ ChildSucceeded(p)
     \/ /\ training' = IF job[p].final THEN "failed" ELSE training
        /\ ChildFailed(p)
  /\ UNCHANGED <<status, rev, folds, verdict, incumbent, files>> /\ Keep

-----------------------------------------------------------------------------
(* finalize_provider_free_campaign                                         *)

\* _FinalizationDeadlineEvent.is_set, without the signal (which ends the command: Crash).
Cancelled == Expired

Fail(p) == Goto(p, "failed") /\ UNCHANGED job

\* The retained outcomes are read: research first, then the production receipt.
Load(p) ==
  LET retained == status = "COMPLETED" /\ rev = receipt.rev /\ bundle = receipt.selected
  IN /\ pc[p] = "load" /\ Legible(p)
     /\ \/ /\ ~Cancelled /\ HandedOff /\ receipt = None
           /\ Goto(p, "phase") /\ UNCHANGED job
        \/ ~Cancelled /\ HandedOff /\ Receipted /\ retained /\ Return(p)
        \/ /\ ~Cancelled /\ HandedOff => receipt # None /\ (Receipted => ~retained)
           /\ Fail(p)
     /\ UNCHANGED <<store, files>> /\ Keep

\* Mutant of Phase: the finalization does not take the campaign over.
PhaseKept(p) ==
  /\ pc[p] = "phase"
  /\ Goto(p, "prepare")
  /\ UNCHANGED <<store, files, job>> /\ Keep

\* _phase_for_finalization.
Phase(p) ==
  /\ pc[p] = "phase"
  /\ CASE status = "FINALIZATION_REQUIRED" ->
            /\ status' = "FINALIZING" /\ rev' = rev + 1
            /\ Goto(p, "prepare") /\ UNCHANGED job
       [] status \in {"FINALIZING", "COMPLETED"} ->
            Goto(p, "prepare") /\ UNCHANGED <<status, rev, job>>
       [] OTHER -> Fail(p) /\ UNCHANGED <<status, rev>>
  /\ UNCHANGED <<folds, verdict, child, training, incumbent, files>> /\ Keep

\* A generated candidate, published or about to be, is trained again from the official data.
NeedsTraining == IF bundle = None THEN outcome = "generated" ELSE bundle = "generated"

\* A published bundle is taken up as it is; otherwise the candidates are rebuilt, the
\* official fallback always among them.
Prepare(p) ==
  /\ pc[p] = "prepare" /\ Legible(p)
  /\ \/ /\ bundle = None /\ status = "COMPLETED"
        /\ Fail(p)
     \/ /\ bundle = None => status # "COMPLETED"
        /\ ~NeedsTraining
        /\ job' = [job EXCEPT ![p].picked = "fallback"]
        /\ Goto(p, IF bundle = None THEN "publish" ELSE "observe")
     \/ /\ bundle = None => status # "COMPLETED"
        /\ NeedsTraining
        /\ \/ Cancelled /\ Fail(p)
           \/ /\ ~Cancelled /\ training = "none"
              /\ job' = [job EXCEPT ![p].final = TRUE]
              /\ Goto(p, "begin")
           \/ /\ ~Cancelled /\ training = "succeeded"
              /\ job' = [job EXCEPT ![p].picked = "generated"]
              /\ Goto(p, IF bundle = None THEN "publish" ELSE "observe")
           \/ /\ ~Cancelled /\ training \in {"opened", "failed"}
              /\ job' = [job EXCEPT ![p].picked = "fallback"]
              /\ Goto(p, IF bundle = None THEN "publish" ELSE "failed")
  /\ UNCHANGED <<store, files>> /\ Keep

\* run_finalization walks from the picked candidate back to the fallback; the destination
\* is created exclusively.
Publish(p) ==
  /\ pc[p] = "publish" /\ Legible(p)
  /\ \/ /\ ~Cancelled /\ bundle = None
        /\ bundle' \in {job[p].picked, "fallback"}
        /\ Goto(p, "observe") /\ UNCHANGED job
     \/ Fail(p) /\ UNCHANGED bundle
  /\ UNCHANGED <<store, stages, bare, outcome, receipt>> /\ Keep

\* The last look at the deadline.
Observe(p) ==
  /\ pc[p] = "observe" /\ Legible(p)
  /\ IF Cancelled THEN Fail(p) ELSE Goto(p, "incumbent") /\ UNCHANGED job
  /\ UNCHANGED <<store, files>> /\ Keep

\* Mutant of Incumbent: the generated incumbent is not recorded.
IncumbentSkipped(p) ==
  /\ pc[p] = "incumbent"
  /\ Goto(p, "complete")
  /\ UNCHANGED <<store, files, job>> /\ Keep

\* _complete_campaign records a generated incumbent (again, without effect, on a retry) ...
Incumbent(p) ==
  /\ pc[p] = "incumbent"
  /\ \/ /\ bundle = "generated"
        /\ incumbent' = bundle
        /\ rev' = IF incumbent = bundle THEN rev ELSE rev + 1
        /\ Goto(p, "complete") /\ UNCHANGED job
     \/ /\ bundle = "fallback" /\ incumbent = "fallback"
        /\ Goto(p, "complete") /\ UNCHANGED <<rev, incumbent, job>>
     \/ /\ bundle = "fallback" /\ incumbent # "fallback"
        /\ Fail(p) /\ UNCHANGED <<rev, incumbent>>
  /\ UNCHANGED <<status, folds, verdict, child, training, files>> /\ Keep

\* ... and then completes the campaign.
Complete(p) ==
  /\ pc[p] = "complete"
  /\ CASE status = "FINALIZING" ->
            /\ status' = "COMPLETED" /\ rev' = rev + 1
            /\ job' = [job EXCEPT ![p].rev = rev + 1]
            /\ Goto(p, "receipt")
       [] status = "COMPLETED" ->
            /\ job' = [job EXCEPT ![p].rev = rev]
            /\ Goto(p, "receipt") /\ UNCHANGED <<status, rev>>
       [] OTHER -> Fail(p) /\ UNCHANGED <<status, rev>>
  /\ UNCHANGED <<folds, verdict, child, training, incumbent, files>> /\ Keep

\* Mutant of CreateReceipt: the file is opened without O_EXCL.
TruncateReceipt(p) ==
  /\ pc[p] = "receipt"
  /\ receipt' = Torn /\ Goto(p, "fill")
  /\ UNCHANGED <<store, stages, bare, outcome, bundle, job>> /\ Keep

\* _write_exclusive: the file appears empty ...
CreateReceipt(p) ==
  /\ pc[p] = "receipt"
  /\ IF receipt = None
     THEN receipt' = Torn /\ Goto(p, "fill") /\ UNCHANGED job
     ELSE Fail(p) /\ UNCHANGED receipt
  /\ UNCHANGED <<store, stages, bare, outcome, bundle>> /\ Keep

\* ... and is then filled.
FillReceipt(p) ==
  /\ pc[p] = "fill"
  /\ receipt' = [selected |-> bundle, rev |-> job[p].rev]
  /\ Return(p)
  /\ UNCHANGED <<store, stages, bare, outcome, bundle>> /\ Keep

\* A finalization that fails after the deadline resumes once more, for the status.
Failed(p) ==
  /\ pc[p] = "failed"
  /\ IF ~job[p].done /\ Expired
     THEN /\ job' = [job EXCEPT ![p] = [NoJob EXCEPT !.kind = "expire"]]
          /\ Goto(p, "resume")
     ELSE Exit(p)
  /\ UNCHANGED <<store, files>> /\ Keep

-----------------------------------------------------------------------------
(* Failures.                                                               *)

\* A read raises.  The child it was for is given up, finalization fails, the rest is
\* contained nowhere and ends the command.
Refused(p) ==
  /\ \E k \in Reads(p) : Unreadable(p, k)
  /\ \/ pc[p] \in {"drive", "resume", "stage", "gate", "science", "commit"} /\ Exit(p)
     \/ pc[p] = "begin" /\ ChildFailed(p)
     \/ pc[p] \in {"load", "prepare", "publish", "observe"} /\ Fail(p)
  /\ UNCHANGED <<store, files>> /\ Keep

\* The command dies, or is interrupted, or raises where no action says so: between two
\* steps or in the middle of the one that it is at.
Crash(p) ==
  /\ pc[p] \notin {"down", "returned"}
  /\ crashes < MaxCrashes
  /\ crashes' = crashes + 1
  /\ broken' \in {broken} \cup {broken \cup {k} : k \in Writes(p)}
  /\ Exit(p)
  /\ UNCHANGED <<live, now, store, files>>

Tick ==
  /\ now < MaxNow
  /\ now' = now + 1
  /\ UNCHANGED <<live, store, files, broken, crashes, pc, job>>

Step(p) ==
  \/ Drive(p) \/ ResumeRead(p) \/ Dispose(p) \/ SetPhase(p) \/ Resumed(p)
  \/ Stage(p) \/ FoldGate(p) \/ FeatureGate(p) \/ LineageGate(p)
  \/ NextCandidate(p) \/ Promote(p) \/ Verdict(p) \/ EndScience(p)
  \/ EnsureRequired(p) \/ CommitOutcome(p) \/ RefuseOutcome(p)
  \/ StartChild(p) \/ CommitChild(p) \/ EndChild(p)
  \/ Load(p) \/ Phase(p) \/ Prepare(p) \/ Publish(p) \/ Observe(p)
  \/ Incumbent(p) \/ Complete(p) \/ CreateReceipt(p) \/ FillReceipt(p) \/ Failed(p)
  \/ Refused(p)

Next == Tick \/ \E p \in Controllers : Command(p) \/ Step(p) \/ Crash(p)

Spec == Init /\ [][Next]_vars

\* Time passes, a command that runs goes on, and the operator starts another when it ended.
FairSpec == Spec /\ WF_vars(Tick) /\ \A p \in Controllers : WF_vars(Command(p) \/ Step(p))

-----------------------------------------------------------------------------
(* Properties.                                                             *)

\* Every variable holds a value of its type, and only handed-off research has an outcome.
TypeOK ==
  /\ live \in BOOLEAN
  /\ now \in 0 .. MaxNow /\ crashes \in 0 .. MaxCrashes
  /\ status \in States /\ rev \in Nat
  /\ stages \in 0 .. Handoff /\ bare \in BOOLEAN
  /\ folds \in {"none", "ready", "failed"}
  /\ verdict \in [Candidates -> Verdicts]
  /\ outcome \in Selections \cup {None}
  /\ outcome # None <=> stages = Handoff
  /\ child \in [Controllers -> {"none", "starting", "running"}]
  /\ training \in {"none", "opened", "succeeded", "failed"}
  /\ bundle \in Selections \cup {None}
  /\ incumbent \in Selections
  /\ receipt \in {None, Torn} \cup Receipts
  /\ broken \subseteq Kinds
  /\ pc \in [Controllers -> Phases]
  /\ job \in [Controllers -> Job]

\* A scripted campaign driven by one command at a time hands over the candidate that won
\* its public promotion, whatever died on the way and however late the resume came
\* (_outer_resume_authorization exempts a charged promotion from the reserve).
WinnerHandedOff == ~live /\ outcome = "fallback" => ~Winner

\* The receipt of a finished campaign names the bundle that was published; a generated one
\* was selected by research, retrained in a charged launch and made the incumbent.
ReceiptTrue ==
  Receipted =>
    /\ receipt.selected = bundle
    /\ bundle = "generated" =>
         outcome = "generated" /\ training = "succeeded" /\ incumbent = "generated"

\* Nothing completes without a published bundle whose selection is the incumbent, and a
\* bundle that research did not select is never published.
CompletedHasBundle ==
  /\ status = "COMPLETED" => bundle # None /\ incumbent = bundle
  /\ bundle # None => outcome # None /\ (bundle = "generated" => outcome = "generated")

\* The evidence of a campaign agrees: receipt, bundle, incumbent, outcome and status tell of
\* the same candidate, whichever commands raced or died (_complete_campaign and the receipt
\* write it in several places, one after another).
EvidenceAgrees == ReceiptTrue /\ CompletedHasBundle

\* A published bundle, a retained outcome and a complete receipt are never replaced.
EvidenceKept ==
  [][/\ bundle # None => bundle' = bundle
     /\ outcome # None => outcome' = outcome
     /\ Receipted => receipt' = receipt]_vars

\* Once research is handed over to finalization, no public query is charged or decided.
NoResearchAfterHandoff == [][outcome # None => verdict' = verdict]_vars

\* A command died with its child process running: the row stays RUNNING and every later
\* resume raises.
Orphaned == \E p \in Controllers : child[p] = "running" /\ pc[p] # "end_child"

\* A command died while it wrote a file that every `resume` reads before it looks at the
\* deadline: a deadline checkpoint (_append_deadline), a report or manifest of the
\* reconciliation (_reconcile_unfinished) or a progress checkpoint (append).
Jammed == broken \cap {"deadline", "reconciliation", "progress"} # {}

\* A campaign that somebody keeps resuming ends COMPLETED or INCOMPLETE, unless a child was
\* orphaned or a command died in the middle of a write that jams it; a half-linked outcome
\* object does not, as the next resume past the deadline still sets INCOMPLETE.
Terminates == <>(status \in Terminal \/ Orphaned \/ Jammed)

\* One command at a time keeps the promise of CampaignPromise.
Promise == INSTANCE CampaignPromise WITH
  Bundles <- Selections, state <- status,
  receipt <- IF Receipted THEN receipt.selected ELSE None
ImplementsPromise == Promise!Spec

\* README.md: `resume` "continues only while the original launch/time policies permit, and
\* then finalizes" - before the hard deadline, a resume with at most one charged promotion is
\* not refused by what an earlier pass left behind.
ResumeContinues ==
  [][\A p \in Controllers :
       pc[p] = "gate" /\ ~Expired /\ Cardinality(Charged) <= 1 /\ crashes' = crashes
         => pc'[p] # "down"]_vars
=============================================================================
