------------------------------ MODULE Science ------------------------------
(***************************************************************************)
(* The scientific part of a campaign: candidates are taken one by one      *)
(* through the rungs (Fold B screen, Fold A confirmation, three matched    *)
(* outer seeds), charged to the launch budget and to the public queries,   *)
(* compared with the incumbent, and followed by another candidate until a  *)
(* terminal condition.  The command may die at any step, and the next one  *)
(* runs the whole sequence again from what is durable: executions,         *)
(* charges, scientific records, queries, failures and prepared lineages.   *)
(*                                                                         *)
(* One command runs at a time.  A launch is one step (LaunchJournal has    *)
(* its parts) and so is a reservation or completion of a query             *)
(* (OuterQueries).  A candidate scores whole numbers, its p95 covers its   *)
(* cleanup, and all its gates but the scores pass.  A command that dies    *)
(* while a child is RUNNING cannot be resumed at all, which LaunchJournal  *)
(* shows; here it dies before or after the launch.                         *)
(***************************************************************************)
EXTENDS Selection, FiniteSets

CONSTANTS
  First,          \* iteration of the lineage that LINEAGE_READY retains
  MaxIterations,  \* max_scientific_iterations
  Ceiling,        \* what CATEGORY_CEILINGS leaves, by category
  MaxQueries,     \* outer_promotion_limit
  Scores,         \* rung -> scores a candidate may get
  Limits,         \* campaigns: launch cap, time already elapsed, seconds the good runs take
  Wall, Reserve,  \* deadline and reserve, in the time the loop adds up itself
  P95,            \* what a launch is admitted with and a failed run counts; no bound on a good one
  MaxFaults,      \* bound on transient failures
  MaxDeaths       \* bound on deaths of the command

Categories == 1 .. 4
Candidates == First .. MaxIterations

ASSUME ScienceAssumption ==
  /\ First \in Nat \ {0} /\ MaxIterations \in Nat /\ First <= MaxIterations
  /\ Limits \subseteq [launches : Nat, elapsed : 0 .. Wall,
                        seconds : [Candidates -> [Rungs -> Nat]]]
  /\ MaxQueries \in Nat
  /\ Ceiling \in [Categories -> Nat]
  /\ Scores \in [Rungs -> SUBSET (Nat \ {0})]
  /\ Wall \in Nat /\ Reserve \in Nat /\ P95 \in Nat \ {0}
  /\ MaxFaults \in Nat /\ MaxDeaths \in Nat

Fallback == 0
ASSUME FallbackAssumption == Fallback \notin Candidates

\* Screens, confirmations, first seeds and other seeds have a launch category each.
Category(r) == IF r > FirstSeed THEN FirstSeed + 1 ELSE r

\* What the real clock still allows: everything; nothing that must leave the reserve; the
\* reserve has begun; no launch at all; the hard deadline has passed.
Clock == 0 .. 4
Open == 0
Short == 1
InReserve == 2
Late == 3
Expired == 4

VARIABLES
  limits,    \* of this campaign: max_launches less the launches of the controls; elapsed time;
             \* and the wall time that a good run will have on record, scorer included
  exec,      \* candidate, rung -> its executions: none, training done, or failed for good
  charged,   \* <<candidate, rung>> whose training launch is charged
  record,    \* candidate, rung -> score in the scientific record, 0 if there is none
  query,     \* candidate -> its public query
  failure,   \* candidate -> number of runs in the durable failure of its bundle, 0 if none
  lineage,   \* candidate -> retained lineage: prepared by this command, or by an earlier one
  clock,
  phase, job,
  \* what the properties look back on
  verdict,   \* candidate -> last outcome
  starved,   \* bundles cut for want of budget after the query was charged, and which budget
  strayed,   \* a launch was counted by the loop without a charge
  raised,    \* errors that ended a command
  faults, deaths

durable == <<exec, charged, record, query, failure, lineage>>
looks == <<verdict, starved, strayed, raised, faults, deaths>>
setting == <<limits, clock>>
vars == <<setting, durable, phase, job, looks>>

Stops == {"none", "launch_cap", "reserve", "hard_deadline", "converged", "not_promotable",
          "iteration_cap", "query_limit", "provider"}
Verdicts == Measured \cup {"none", "budget_rejected", "callback_failed", "screen_rejected",
                           "inner_rejected", "outer_failed"}
Errors == {"cursor", "contradiction", "several_queries", "overrun"}
Causes == {"launches", "ceiling", "time"}
Phases == {"down", "admit", "call", "judge", "reserve", "settle", "close", "follow", "end",
           "complete", "closed", "refused"}

\* The locals of the loop; cut says that the bundle of the candidate was not completed.
Job == [iter : Candidates, rung : Rungs, used : Nat, elapsed : Nat,
        incumbent : Candidates \cup {Fallback}, conv : Convergence, stop : Stops, cut : BOOLEAN]

FallbackEvidence == [r \in Rungs |-> 1]
Evidence(c) == IF c = Fallback THEN FallbackEvidence ELSE record[c]

FreshJob == [iter |-> First, rung |-> FoldB, used |-> 0, elapsed |-> limits.elapsed,
             incumbent |-> Fallback, conv |-> InitialConvergence(SeedTotal(FallbackEvidence)),
             stop |-> "none", cut |-> FALSE]

Init ==
  /\ limits \in Limits
  /\ exec = [c \in Candidates |-> [r \in Rungs |-> "none"]]
  /\ charged = {}
  /\ record = [c \in Candidates |-> [r \in Rungs |-> 0]]
  /\ query = [c \in Candidates |-> "none"]
  /\ failure = [c \in Candidates |-> 0]
  /\ lineage = [c \in Candidates |-> IF c = First THEN "retained" ELSE "none"]
  /\ clock = Open
  /\ phase = "down" /\ job = FreshJob
  /\ verdict = [c \in Candidates |-> "none"]
  /\ starved = {} /\ strayed = FALSE /\ raised = {} /\ faults = 0 /\ deaths = 0

Queried == {c \in Candidates : query[c] # "none"}

-----------------------------------------------------------------------------
(* A command starts, dies, raises; time passes.                            *)

Raise(error) ==
  /\ raised' = raised \cup {error}
  /\ phase' = "down" /\ job' = FreshJob
  /\ UNCHANGED <<setting, verdict, starved, strayed, faults, deaths>>

\* drive, up to the start of the science: _outer_resume_authorization refuses several
\* charged queries; inside the reserve only a charged query reopens the science.
Begin ==
  /\ phase = "down"
  /\ IF Cardinality(Queried) > 1
     THEN phase' = "refused" /\ raised' = raised \cup {"several_queries"}
     ELSE /\ phase' = IF clock = Expired \/ (clock >= InReserve /\ Queried = {})
                      THEN "closed" ELSE "admit"
          /\ UNCHANGED raised
  /\ lineage' = [c \in Candidates |-> IF lineage[c] = "fresh" THEN "stale" ELSE lineage[c]]
  /\ job' = FreshJob
  /\ UNCHANGED <<exec, charged, record, query, failure, setting, verdict, starved, strayed,
                 faults, deaths>>

Running == phase \notin {"down", "complete", "closed", "refused"}

Die ==
  /\ Running /\ deaths < MaxDeaths
  /\ deaths' = deaths + 1
  /\ phase' = "down" /\ job' = FreshJob
  /\ UNCHANGED <<durable, setting, verdict, starved, strayed, raised, faults>>

\* Time passes before each step that reads the real clock.
Tick ==
  /\ clock < Expired /\ phase \in {"down", "call", "follow"}
  /\ clock' = clock + 1
  /\ UNCHANGED <<limits, durable, phase, job, looks>>

-----------------------------------------------------------------------------
(* Admission, by the time and the launches the loop counts.                *)

\* _time_admission_reason for so many launches, which may or may not use the reserve.
TimeReason(launches, required) ==
  LET need == job.elapsed + launches * P95
  IN IF need > Wall THEN "hard_deadline"
     ELSE IF ~required /\ need + Reserve > Wall THEN "reserve"
     ELSE "none"

\* Mutant of Admission: only the time is asked.
AdmissionUncapped == TimeReason(1, job.rung > FirstSeed)

\* Before each launch; seeds after the first may use the reserve.
Admission ==
  IF job.used >= limits.launches THEN "launch_cap" ELSE TimeReason(1, job.rung > FirstSeed)

\* Mutant of BundleAdmission: only the next launch has to fit.
BundleAdmissionOne ==
  IF job.used + 1 > limits.launches THEN "launch_cap" ELSE TimeReason(1, FALSE)

\* _outer_bundle_admission_reason: the three seeds must fit together.
BundleAdmission ==
  IF job.used + Cardinality(Seeds) > limits.launches THEN "launch_cap"
  ELSE TimeReason(Cardinality(Seeds), FALSE)

\* The iteration ends: its result, the convergence and the reason to stop, if there is one.
Finish(outcome, conv, stop, incumbent) ==
  /\ verdict' = [verdict EXCEPT ![job.iter] = outcome]
  /\ job' = [job EXCEPT !.conv = conv, !.stop = stop, !.incumbent = incumbent]
  /\ phase' = "close"
  /\ UNCHANGED <<setting, starved, strayed, raised, faults, deaths>>

FinishUnmeasured(outcome, stop) ==
  Finish(outcome, UnmeasuredUpdate(job.conv), stop, job.incumbent)

\* The bundle is given up: it will be completed as failed.
GiveUp(elapsed, stop) ==
  /\ job' = [job EXCEPT !.elapsed = elapsed, !.stop = stop, !.cut = TRUE]
  /\ phase' = "settle"

\* run_scientific_campaign is not entered for a candidate with more time elapsed than there is.
Overrun ==
  /\ phase = "admit" /\ job.rung = FoldB /\ job.elapsed > Wall
  /\ Raise("overrun")
  /\ UNCHANGED durable

\* The next launch does not fit: before a screen the iteration does not even count.
RejectLaunch ==
  /\ phase = "admit" /\ Admission # "none"
  /\ job.rung = FoldB => job.elapsed <= Wall
  /\ CASE job.rung = FoldB -> Finish("budget_rejected", job.conv, Admission, job.incumbent)
       [] job.rung = FoldA -> FinishUnmeasured("budget_rejected", Admission)
       [] job.rung \in Seeds ->
            /\ GiveUp(job.elapsed, Admission)
            /\ starved' = starved \cup
                 {<<job.iter, IF Admission = "launch_cap" THEN "launches" ELSE "time">>}
            /\ UNCHANGED <<setting, verdict, strayed, raised, faults, deaths>>
  /\ UNCHANGED durable

\* Mutant of Request: a run that has its record is not counted again.
RequestUncached ==
  /\ phase = "admit" /\ Admission = "none"
  /\ job' = [job EXCEPT !.used = @ + (IF record[job.iter][job.rung] = 0 THEN 1 ELSE 0)]
  /\ phase' = "call"
  /\ UNCHANGED <<durable, setting, looks>>

\* The request is counted before it is made.
Request ==
  /\ phase = "admit" /\ Admission = "none"
  /\ job' = [job EXCEPT !.used = @ + 1]
  /\ phase' = "call"
  /\ UNCHANGED <<durable, setting, looks>>

-----------------------------------------------------------------------------
(* The run of one rung: the runtime, the generated runner and its journal. *)

\* An execution of the rung is admitted by the real clock; seeds may use the reserve.
ClockAdmits(r) == clock < IF r \in Folds THEN Short ELSE Late

\* The journal also admits a training by the charges: the hard cap and the category.
Charges(category) == {launch \in charged : Category(launch[2]) = category}
HardCapAdmits == Cardinality(charged) < limits.launches
BudgetAdmits(r) ==
  /\ HardCapAdmits
  /\ Cardinality(Charges(Category(r))) < Ceiling[Category(r)]

\* The call has raised, which _invoke_runner turns into a failed run.
RunFailed ==
  IF job.rung \in Folds
  THEN /\ verdict' = [verdict EXCEPT ![job.iter] = "callback_failed"]
       /\ job' = [job EXCEPT !.elapsed = @ + P95, !.conv = UnmeasuredUpdate(@)]
       /\ phase' = "close"
  ELSE GiveUp(job.elapsed + P95, job.stop) /\ UNCHANGED verdict

Pending(state) ==
  /\ phase = "call"
  /\ record[job.iter][job.rung] = 0
  /\ exec[job.iter][job.rung] = state

\* A training is launched.  It may fail once it is released, or before, and is then not charged.
Train ==
  /\ Pending("none") /\ ClockAdmits(job.rung) /\ BudgetAdmits(job.rung)
  /\ \E state \in {"trained", "failed"}, released \in BOOLEAN :
       /\ state = "trained" => released
       /\ exec' = [exec EXCEPT ![job.iter][job.rung] = state]
       /\ charged' = IF released THEN charged \cup {<<job.iter, job.rung>>} ELSE charged
       /\ strayed' = (strayed \/ ~released)
  /\ UNCHANGED <<record, query, failure, lineage, setting, phase, job, verdict, starved, raised,
                 faults, deaths>>

\* The journal refuses the training, and nothing is charged or recorded.
RefuseTraining ==
  /\ Pending("none") /\ ~(ClockAdmits(job.rung) /\ BudgetAdmits(job.rung))
  /\ RunFailed
  /\ strayed' = TRUE
  /\ starved' = IF ~(job.rung \in Seeds /\ ClockAdmits(job.rung)) THEN starved
                ELSE starved \cup
                  {<<job.iter, IF HardCapAdmits THEN "ceiling" ELSE "launches">>}
  /\ UNCHANGED <<durable, setting, raised, faults, deaths>>

\* The predictions are made twice, compared and scored, and the record is committed; or an
\* execution fails for good.
Evaluate ==
  /\ Pending("trained") /\ ClockAdmits(job.rung)
  /\ \/ \E score \in Scores[job.rung] :
          record' = [record EXCEPT ![job.iter][job.rung] = score]
        /\ UNCHANGED exec
     \/ /\ exec' = [exec EXCEPT ![job.iter][job.rung] = "failed"]
        /\ UNCHANGED record
  /\ UNCHANGED <<charged, query, failure, lineage, setting, phase, job, looks>>

RefusePrediction ==
  /\ Pending("trained") /\ ~ClockAdmits(job.rung)
  /\ RunFailed
  /\ UNCHANGED <<durable, setting, starved, strayed, raised, faults, deaths>>

\* Mutant of RestoreFailure: a failed execution is attempted again.
RestoreFailureAnew ==
  /\ Pending("failed")
  /\ exec' = [exec EXCEPT ![job.iter][job.rung] = "none"]
  /\ RunFailed
  /\ UNCHANGED <<charged, record, query, failure, lineage, setting, starved, strayed, raised,
                 faults, deaths>>

\* A failed execution is restored and raises.
RestoreFailure ==
  /\ Pending("failed")
  /\ RunFailed
  /\ UNCHANGED <<durable, setting, starved, strayed, raised, faults, deaths>>

\* Anything else that goes wrong in the call leaves nothing behind and may not happen again.
Falter ==
  /\ phase = "call" /\ faults < MaxFaults
  /\ record[job.iter][job.rung] = 0
  /\ RunFailed
  /\ faults' = faults + 1
  /\ strayed' = (strayed \/ exec[job.iter][job.rung] = "none")
  /\ UNCHANGED <<durable, setting, starved, raised, deaths>>

\* The record of the request is there, from this command or an earlier one, with the wall time of
\* its training, its two predictions and its scoring, each bounded by the timeout on its own.
ReturnRecord ==
  /\ phase = "call" /\ record[job.iter][job.rung] # 0
  /\ job' = [job EXCEPT !.elapsed = @ + limits.seconds[job.iter][job.rung]]
  /\ phase' = "judge"
  /\ UNCHANGED <<durable, setting, looks>>

-----------------------------------------------------------------------------
(* The verdict on a run, and on a bundle.                                  *)

NextRung == job' = [job EXCEPT !.rung = @ + 1] /\ UNCHANGED looks

JudgeScreen ==
  /\ phase = "judge" /\ job.rung = FoldB
  /\ IF Screened(job.iter = 1, record[job.iter], Evidence(job.incumbent))
     THEN NextRung /\ phase' = "admit" /\ UNCHANGED setting
     ELSE FinishUnmeasured("screen_rejected", "none")
  /\ UNCHANGED durable

MayPromote ==
  /\ OuterEligible(job.iter = 1, record[job.iter], Evidence(job.incumbent), FallbackEvidence)
  /\ job.iter \in Queried \/ Cardinality(Queried) < MaxQueries

JudgeFolds ==
  /\ phase = "judge" /\ job.rung = FoldA
  /\ CASE ~MayPromote -> FinishUnmeasured("inner_rejected", "none")
       [] MayPromote /\ BundleAdmission # "none" ->
            FinishUnmeasured("budget_rejected", BundleAdmission)
       [] MayPromote /\ BundleAdmission = "none" ->
            phase' = "reserve" /\ UNCHANGED <<setting, job, looks>>
  /\ UNCHANGED durable

\* outer_ledger.reserve: a new charge, or the one that is there.
ReserveQuery ==
  /\ phase = "reserve"
  /\ query' = [query EXCEPT ![job.iter] = IF @ = "none" THEN "charged" ELSE @]
  /\ NextRung /\ phase' = "admit"
  /\ UNCHANGED <<exec, charged, record, failure, lineage, setting>>

JudgeSeed ==
  /\ phase = "judge" /\ job.rung \in Seeds
  /\ IF job.rung < LastSeed THEN NextRung /\ phase' = "admit"
     ELSE phase' = "settle" /\ UNCHANGED <<job, looks>>
  /\ UNCHANGED <<durable, setting>>

\* Runs in the evidence of a bundle that was cut: those before the rung that failed.
Runs == job.rung - 1

FailedStop == IF job.used >= limits.launches THEN "launch_cap" ELSE job.stop

\* Mutant of SettleFailed: the failure of the bundle is not recorded.
SettleFailedSilently ==
  /\ phase = "settle" /\ job.cut
  /\ FinishUnmeasured("outer_failed", FailedStop)
  /\ UNCHANGED durable

\* complete(successful=False), which a decided query or another failure contradicts.
SettleFailed ==
  /\ phase = "settle" /\ job.cut
  /\ IF query[job.iter] = "published" \/ failure[job.iter] \notin {0, Runs}
     THEN Raise("contradiction") /\ UNCHANGED failure
     ELSE /\ failure' = [failure EXCEPT ![job.iter] = Runs]
          /\ FinishUnmeasured("outer_failed", FailedStop)
  /\ UNCHANGED <<exec, charged, record, query, lineage>>

\* decide, then complete(successful=True), which a failure contradicts, then the promotion.
SettleDecided ==
  /\ phase = "settle" /\ ~job.cut
  /\ IF failure[job.iter] # 0
     THEN Raise("contradiction") /\ UNCHANGED query
     ELSE LET evidence == record[job.iter]
              outcome == Decide(job.iter = 1, evidence, Evidence(job.incumbent), FallbackEvidence)
          IN /\ query' = [query EXCEPT ![job.iter] = "published"]
             /\ Finish(outcome, MeasuredUpdate(job.conv, SeedTotal(evidence)), job.stop,
                       IF outcome \in Promotions THEN job.iter ELSE job.incumbent)
  /\ UNCHANGED <<exec, charged, record, failure, lineage>>

-----------------------------------------------------------------------------
(* After an iteration: the cursor, the next lineage, the end.              *)

\* Mutant of CursorAgrees: the launches of the loop are believed.
CursorTrusted == TRUE

\* The loop has counted as many launches as the campaign database has charged.
CursorAgrees == job.used = Cardinality(charged)

\* The first iteration is closed only if the cursors agree; a later one is not compared.
Close ==
  /\ phase = "close"
  /\ IF job.iter = First /\ ~CursorAgrees THEN Raise("cursor")
     ELSE phase' = "follow" /\ UNCHANGED <<setting, job, looks>>
  /\ UNCHANGED durable

\* Why no other candidate follows, in the order of the code; the clock is the real one.
Terminal ==
  CASE Converged(job.conv) -> "converged"
    [] ~Converged(job.conv) /\ ShouldStop(job.conv) -> "not_promotable"
    [] ~ShouldStop(job.conv) /\ job.iter >= MaxIterations -> "iteration_cap"
    [] ~ShouldStop(job.conv) /\ job.iter < MaxIterations ->
         IF job.used >= limits.launches THEN "launch_cap"
         ELSE IF job.stop # "none" THEN job.stop
         ELSE IF Cardinality(Queried) >= MaxQueries THEN "query_limit"
         ELSE IF clock = Expired THEN "hard_deadline"
         ELSE IF clock >= InReserve THEN "reserve"
         ELSE "none"

Stop(reason) == job' = [job EXCEPT !.stop = reason] /\ phase' = "end"

\* The next lineage: admitted, rejected before its source is written, or not to be had.  One
\* that an earlier command wrote never matches the context of this one, which counts as the last.
Follow ==
  /\ phase = "follow"
  /\ IF Terminal # "none"
     THEN Stop(Terminal) /\ UNCHANGED lineage
     ELSE LET next == job.iter + 1
          IN \/ /\ lineage[next] = "none"
                /\ lineage' = [lineage EXCEPT ![next] = "fresh"]
                /\ job' = [job EXCEPT !.iter = next, !.rung = FoldB, !.cut = FALSE]
                /\ phase' = "admit"
             \/ /\ lineage[next] = "none"
                /\ job' = [job EXCEPT !.iter = next]
                /\ UNCHANGED <<lineage, phase>>
             \/ Stop("provider") /\ UNCHANGED lineage
  /\ UNCHANGED <<exec, charged, record, query, failure, setting, looks>>

\* SCIENCE_COMPLETE, if the cursors agree.
End ==
  /\ phase = "end"
  /\ IF CursorAgrees THEN phase' = "complete" /\ UNCHANGED <<setting, job, looks>>
     ELSE Raise("cursor")
  /\ UNCHANGED durable

Next ==
  \/ Begin \/ Die \/ Tick
  \/ Overrun \/ RejectLaunch \/ Request
  \/ Train \/ RefuseTraining \/ Evaluate \/ RefusePrediction \/ RestoreFailure \/ Falter
  \/ ReturnRecord
  \/ JudgeScreen \/ JudgeFolds \/ ReserveQuery \/ JudgeSeed \/ SettleFailed \/ SettleDecided
  \/ Close \/ Follow \/ End

Spec == Init /\ [][Next]_vars

-----------------------------------------------------------------------------
(* Properties                                                              *)

\* The state is well-formed, and the loop never counts more launches than the hard cap.
TypeOK ==
  /\ exec \in [Candidates -> [Rungs -> {"none", "trained", "failed"}]]
  /\ charged \subseteq Candidates \X Rungs
  /\ record \in [Candidates -> [Rungs -> Nat]]
  /\ query \in [Candidates -> {"none", "charged", "published"}]
  /\ failure \in [Candidates -> 0 .. LastSeed]
  /\ lineage \in [Candidates -> {"none", "retained", "fresh", "stale"}]
  /\ limits \in Limits /\ clock \in Clock
  /\ phase \in Phases
  /\ job \in Job /\ job.used <= limits.launches
  /\ verdict \in [Candidates -> Verdicts]
  /\ starved \subseteq Candidates \X Causes
  /\ strayed \in BOOLEAN
  /\ raised \subseteq Errors
  /\ faults \in 0 .. MaxFaults /\ deaths \in 0 .. MaxDeaths

\* Whatever was retried, replayed or cut, only a candidate whose public query is decided and
\* whose bundle never failed becomes the incumbent, and it beats the fallback on the folds and
\* on the matched seeds.
IncumbentEarned ==
  job.incumbent # Fallback =>
    /\ query[job.incumbent] = "published" /\ failure[job.incumbent] = 0
    /\ FoldTotal(record[job.incumbent]) > FoldTotal(FallbackEvidence)
    /\ SeedTotal(record[job.incumbent]) > SeedTotal(FallbackEvidence)

\* A completed science leaves no public query charged and forgotten: each is decided, or the
\* failure of its bundle is on record.
NothingUndecided ==
  phase = "complete" => \A c \in Queried : query[c] = "published" \/ failure[c] # 0

\* A completed science hands over the best candidate that any command ever promoted, not only
\* the best one of the last command.
WinnerKept ==
  phase = "complete" =>
    \A c \in Candidates : verdict[c] \in Promotions =>
      SeedTotal(Evidence(job.incumbent)) >= SeedTotal(record[c])

\* Candidates of this command with an outer primary, and the best primary before one of them.
Scored == {c \in First .. job.iter : verdict[c] \in Measured}
FlatAt(c) ==
  \E d \in {Fallback} \cup {d \in Scored : d < c} :
    SeedTotal(record[c]) <= SeedTotal(Evidence(d)) + Epsilon

\* Research is reported as converged only after Patience measured candidates in a row without
\* material gain, however many failures and rejections lie between them.
MeasuredConvergence ==
  phase \in {"end", "complete"} /\ job.stop = "converged" =>
    \E last \in SUBSET Scored :
      /\ Cardinality(last) = Patience
      /\ \A c \in last : FlatAt(c) /\ \A d \in Scored \ last : d < c

\* A follow-up of an earlier command has used launches that no later command counts.
Stranded == \E launch \in charged : lineage[launch[1]] = "stale"

\* The whole matched-seed bundle fits before it consumes an outer slot, as the docstring of
\* _outer_bundle_admission_reason has it: no bundle is cut for want of launches or of the time
\* the loop counts, unless a follow-up of an earlier command has used what the loop does not
\* know of.
BundleFits == Stranded \/ starved = {}

\* The categories of the seeds have room for the bundles of all candidates queried so far.
CeilingsHold ==
  /\ Cardinality(Queried) <= Ceiling[FirstSeed]
  /\ 2 * Cardinality(Queried) <= Ceiling[FirstSeed + 1]

\* Once its query is charged, a bundle is never cut by the launch cap that it was admitted
\* against; by the ceiling of a category only when the candidates queried so far are more than
\* it has room for; and by the time the loop counts only if one of its own seeds took longer
\* than the p95 it was admitted with.  A follow-up of an earlier command is left out, as above.
CutsExplained ==
  ~Stranded => \A cut \in starved :
    /\ cut[2] # "launches"
    /\ cut[2] = "ceiling" => ~CeilingsHold
    /\ cut[2] = "time" => \E r \in Seeds : limits.seconds[cut[1]][r] > P95

\* A command that takes up the work of another comes to the same verdict on every candidate,
\* unless a transient failure came between.
SameVerdict ==
  [][\A c \in Candidates : verdict[c] # "none" => verdict'[c] = verdict[c] \/ faults > 0]_vars

\* A command whose launches were all charged reconciles its count with the campaign database,
\* however often it was killed, unless an earlier one was killed in a follow-up; and the ledgers
\* contradict it only after a transient failure.
ResumeReconciles ==
  /\ "contradiction" \in raised => faults > 0
  /\ raised \cap {"cursor", "several_queries"} # {} => strayed \/ Stranded

=============================================================================
