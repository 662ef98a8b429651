# A verification of the KuaiRand campaign agent

`src/src/kuairand_agent` (about 69K lines of Python) runs an autonomous research campaign
under hard limits: six hours of wall clock, a fixed number of training launches, six
public-validation queries for the whole project. It runs code a language model wrote, and
it promises that a campaign can be killed at any instruction and resumed without paying
twice, losing evidence or exceeding a limit. Those promises are kept by SQLite transactions,
exclusively created files and a blocked process launcher, put together in several thousand
lines that no unit test can interleave. They are what this project models, checks with TLC
and proves with TLAPS.

Paths below are relative to `src/src/kuairand_agent` unless they say otherwise.
`PROJECT.json` maps every definition to the lines it was translated from.

## The system

| component | state it keeps | operations | what makes it hard |
|---|---|---|---|
| Project ledger `campaign/store.py` (`OuterQueryLedger`) | one SQLite database for all campaigns: query events and a revision | `reserve`, `complete`, `projection` | shared by campaigns; cannot commit together with their databases |
| Campaign database `campaign/store.py` (`CampaignStore`) | status and phase, launches, executions, experiments, metrics, failures, queries, incumbent, one revision | one transaction per method, optimistic `expected_revision` | several writers, deaths between two transactions |
| Ledger adapter `campaign/scientific_store.py` | none of its own | `reserve`, `complete` of one promotion over both databases | read, then write later; retries |
| Candidate journal `campaign/candidate_journal.py` | none of its own | `prepare`, `commit`, `finish`, `rehydrate_terminal` | two transactions and a process between them |
| Runner and launcher `execution/runner.py`, `_launcher.py`, `candidate_executor.py` | operating-system processes, release pipe | `run`: spawn blocked, commit, release, supervise, terminate | process outlives its controller; interrupts between two instructions |
| Controller `campaign/controller.py`, `clock.py` | request, deadline checkpoint chain, reconciliation records | `create`, `resume`, `status`, `observe_deadline` | resumes what a dead (or a live) controller left |
| Runtime `campaign/full_campaign_runtime.py`, `full_campaign.py` | progress checkpoints, research outcome | `run_provider_free_campaign` and its early closures | restarts in the middle of any stage |
| Scientific loop `campaign/scientific.py`, `selector.py`, `convergence.py`, `budgets.py` | experiment states, convergence state, launch categories | rungs, promotion, stopping rule | budgets, admission order, ties |
| Research loop `research/*.py`, `generated_scientific_runner.py` | research evidence ledger, lineages, rejections | propose, implement, repair, reflect | provider failures, retries, rejected attempts |
| Finalization `finalization/*.py` | final bundle, production outcome | training replay, walk to the fallback, publication, completion | deadline during publication; deaths between bundle, database and outcome |
| Artifacts and workspaces `execution/artifacts.py`, `workspace.py` | content-addressed files | `put_*`, `verify`, materialize | installation by rename or link, read-only trees |
| Data plane, baselines, candidate models, scoring | tables and files | parsing, training, metrics | numeric; no concurrency of their own |

The command line drives them: `run` creates a campaign, drives the runtime and finalizes;
`resume` drives and finalizes an existing one; `finalize` only finalizes. The runtime calls the
controller to resume, the scientific loop for experiments, and that loop calls the journal and
runner for each training, the adapter for each promotion. All of them share the run directory
and the two databases; **no lock protects a run directory**, so two commands may work on one.

## What makes each part correct

- **Public queries.** The project never charges more than six queries; a campaign's
  database never claims more than the ledger says; a decided query is never decided again or
  with other evidence; evidence that was recorded as failed is never published.
- **Candidate journal, runner, resume.** Code that ran stays charged; an execution gets one
  process, ever; no process outlives its terminal record unless the record admits it; the
  launch limit holds under races; research goes on only from a reconciled journal, and what a
  death left unfinished is eventually settled, unless it came in the middle of a file of the
  controller.
- **Lifecycle and finalization.** The status follows its transition table; a campaign that is
  resumed often enough ends, unless a child was orphaned or a death left a file torn or with two
  names that every resume reads; nothing completes without a published bundle that is also the
  incumbent and the receipt; published evidence is never replaced; a winner that was paid for
  is handed over; after the handoff research is over.
- **Deadline.** Observed time never goes back across races, deaths and reboots; an observation
  that was acted upon is never replaced; the deadline is never extended by downtime, sleep or
  a reboot.
- **Scientific campaign, selection, convergence.** The incumbent is earned by evidence that
  was published and never failed; a charged query ends in a verdict or a recorded failure;
  the winner handed over is the best one any command promoted; a resumed command repeats the
  verdicts of the dead one and agrees with the database on the launches; research is called
  converged only when it was measured to be.
- **Research admission.** What the provider may still be asked is governed by the journal of
  rejections, whatever a restart forgot; the calls stay within their allowances; the counters and
  the cap of the journal never refuse a later pass, and what does is a file that a death left torn
  or doubled, or a record whose context is gone; the branch that was recorded is the branch of the
  campaign.
- **Artifacts and workspaces.** What a terminal row refers to can be read for ever; a failed
  copy and an answer of the journal leave nothing that stops a later attempt. A death, a removal
  that fails, and an error between the rename of a workspace and its row do.

## Modules

| module | what it is | state | actions |
|---|---|---|---|
| `OuterQueries` | ledger, campaign databases and adapter | `outer`, `outerRev` (ledger); `rev`, `local`, `metrics`, `failures` (campaign databases); `pc`, `job` (controllers) | one per SQLite transaction or read of `reserve` and `complete`, `Score`, `Crash` |
| `PublicScores` | abstract: one charge, one verdict, one publication per candidate | `owner`, `verdict`, `published` | `Charge`, `Decide`, `Publish` |
| `OuterQueriesProofs` | proofs | | |
| `LaunchJournal` | journal, launches and executions, runner, `_reconcile_unfinished` | `launch`, `exec`, `claimed`, `unverified`, `incomplete` (campaign database); `proc` (operating system); `torn`, `doubled` (files of the controller); `pc`, `job` (controllers); `ran`, `crashes` (history and bound) | `Prepare` ... `Settle` and `Rehydrate` for a run, `Start` ... `Report`, `NextLoop`, `Resumed` for a resume, `Refuse`, `Abandon` (an exception the scientific loop contains), `Quit`, `Crash`, `Tear` and `DieStoring` (deaths in the middle of a file), `LauncherExits`, `CandidateExits` |
| `LaunchBudget` | abstract: charge before run, refund only what never ran | `charged`, `refunded`, `ran` | `Charge`, `Refund`, `Run` |
| `LaunchJournalProofs` | proofs | | |
| `CandidateFiles` | the files around the same execution: `ArtifactStore`, `WorkspaceMaterializer`, `GeneratedCandidateExecutor` | the state of `LaunchJournal`, and `object`, `lock`, `workspace` (files); `at`, `hand` (controllers); `left` (history) | `Begin`, `TakeLock`, `Publish`, `Unlock`, `FailSpec`, `RefusePrepare`, `Undo`; `Link`, `Unlink`, `Collide`; `Cleanup`; `Journal`, `Admit`, `Restore`, `Fail`, `Die`, `DieWriting` around steps of `LaunchJournal` |
| `CandidateFilesProofs` | proofs | | |
| `CampaignLifecycle` | `resume`/`finalize` from the first checkpoint to the receipt | `status`, `rev`, `folds`, `verdict`, `child`, `training`, `incumbent` (campaign database); `stages`, `bare`, `outcome`, `bundle`, `receipt`, `broken` (files); `now`, `live`; `pc`, `job` (commands); `crashes` | see below |
| `CampaignPromise` | abstract: status, bundle and receipt as a reader sees them | `state`, `bundle`, `receipt` | `Advance`, `Publish`, `Acknowledge` |
| `CampaignLifecycleProofs` | proofs | | |
| `Deadline` | `DeadlineState.observe` and the checkpoint chain | `source`, `real`, `offset`, `mono`, `boot`, `born`, `slept`, `back`, `adjusts` (the machine and its clocks); `chain`, `partial` (files); `pc`, `job` (controllers) | `Load`, `ReadUtc`, `ReadMono`, `Identify`, `Create`, `Fill`, `Crash`; `Tick`, `Adjust`, `Reboot` of the machine |
| `DeadlineProofs` | proofs | | |
| `Selection` | pure: `Selector`, `ConvergenceState` | | |
| `Science` | scientific loop, generated runner, follow-ups, cursors | `exec`, `charged`, `record`, `query`, `failure`, `lineage` (durable); `limits`, `clock`; `phase`, `job` (the command); `verdict`, `starved`, `strayed`, `raised`, `faults`, `deaths` (history and bounds) | `Begin`, `Die`, `Tick`; `Overrun`, `RejectLaunch`, `Request`; `Train` ... `ReturnRecord` for a rung; `JudgeScreen` ... `SettleDecided` for verdicts; `Close`, `Follow`, `End` |
| `ScienceProofs` | proofs | | |
| `Research` | initial live admission and the provider | `journal`, `tornEntry`, `tree`, `record`, `ready`, `doubled` (files); `ledger` (campaign database); `time`; `phase`, `job`, `call`, `sent` (the command); `refusals`, `deaths` | `Resume...`, `StopAdmission`, `Propose`, `Rehydrate...`; `AnswerRefused` ... `NoTimeLeft` for an attempt; `ProposalAnswered` ... `Reject` for a branch; `WriteRecord`, `StoreLineage`, `Register`, `StoreRejections`, `StoreRefused`, `LineageReady`, `Handoff`; `Tick`, `Die`, `DieWriting`, `DieLinking` |
| `ResearchProofs` | proofs | | |
| `Finalization` | one finalization attempt after another | `wanted`, `sound` (what is finalized); `status`, `training`, `incumbent` (campaign database); `jsonl`, `staging`, `csv`, `bundle`, `receipt`, `broken` (files); `late` (the clock); `phase`, `job` (the attempt); `faults`, `deaths` | `Command`, `Load`; `Train` ... `EndTraining`, `GiveUp`, `Build`; `WriteJsonl` ... `RenameCsv` for the ledgers; `OpenWalk` ... `Rename`, `Verify`, `Clean` for the walk; `Close` ... `FillReceipt`; `Raise`, `Signal`, `Die`, `Tear`, `DieStoring`, `Tick` |
| `FinalizationProofs` | proofs | | |
| `MC...` | instances for TLC | | |

How they compose: the real program is one program, and the modules overlap only where a
component is an interface to another. `CampaignLifecycle` keeps of a public query what
`PublicScores` says of it (charged once, decided once) and of an execution what
`LaunchJournal` guarantees (opened, committed, finished, or interrupted by a resume).
`OuterQueries` and `LaunchJournal` are the detailed accounts of those two, each shown to
implement its abstract module. `now` of `CampaignLifecycle` is the elapsed time that `Deadline`
accounts for: what is shown there is why it may be taken to grow only. `Research` and `Science`
are the two stages that `CampaignLifecycle` keeps as one step each: what happens before
LINEAGE_READY, and what happens after it. A launch is one step of `Science` and many of
`LaunchJournal`; a reservation or completion of a query is one step of `Science` and many of
`OuterQueries`; a closing of research is one step of `Research` and five checkpoints in
`CampaignLifecycle`. `Finalization` is what one command of `CampaignLifecycle` does between `Load`
and `FillReceipt`, with the ledgers and the walk over candidates, which are one step there;
`CampaignLifecycle` has the race of two commands, which `Finalization` leaves out.
`CandidateFiles` extends `LaunchJournal`: each of its steps is a step of the journal or leaves the
journal alone.

**Granularity.** SQLite transactions and single file operations are atomic; everything between
two of them is interleaved with other processes and may be the place of a death. A method that
reads, computes and then writes is therefore several actions, with the values it carries over
in `job[p]`. An exception nobody handles ends a command where it stands, which for the rest of
the world is a death: it is the same action. Handled exceptions are actions of their own
(`RefuseOutcome`, `Failed`, `Refuse`, ...).

Files are written in two ways, and a death in the middle of either is modelled wherever somebody
reads the file again. `_write_new_json` and `_write_exclusive` create a file and then fill it
(`campaign/controller.py:261-274`, `finalization/production.py:525-546`): a kill or a full disk in
between leaves it **torn**. An artifact or a progress checkpoint is linked to its name and then loses
its staging name (`execution/artifacts.py:555-592`, `campaign/full_campaign.py:409-432`): a kill in between
leaves it **doubled**, with two links, which `verify` and `_bounded_regular_bytes` refuse. The code removes
neither. Each module therefore carries what is torn or doubled (`torn`, `doubled`, `broken`,
`partial`), the steps that read such a file raise, and the liveness properties name what jams.
Where the content of the file matters (the receipt, the ledgers, the chain, the objects) creation and
completion are two actions; elsewhere the file is written with the step it belongs to, and the
death in the middle is an action of its own.

**`CampaignLifecycle` in particular.** `Command`, `Drive` are the two commands;
`ResumeRead`, `Dispose`, `SetPhase`, `Resumed` are `CampaignEngine.resume`, whose disposition
and write are two steps because the code reads again between them; `Stage` is `_stage`;
`FoldGate`, `FeatureGate`, `LineageGate` are the three places where the runtime decides to
close research; `NextCandidate`, `Promote`, `Verdict`, `EndScience` are the scientific
campaign and its follow-ups as far as resumption depends on them; `EnsureRequired`,
`CommitOutcome` and `RefuseOutcome` are the handoff; `StartChild`, `CommitChild`, `EndChild` an
execution of any kind; `Load` ... `FillReceipt` and `Failed` the finalization. `live` is chosen
once: a live campaign needs a provider and may follow up with further candidates, a scripted
one has a single candidate. `bare` says that LINEAGE_READY was written by a pass that closed
research and so has no scientific start cursor. `Torn` is a receipt that was created and not
yet filled. A child that dies with its command stays RUNNING, which in the production layout no
resume can reconcile (`Orphaned`; the finding of `LaunchJournalLayout`). `Reads` says which kinds of
files a step reads and `Writes` which ones it has half written if it stops in the middle: checkpoints of the
deadline, reports and manifests of the reconciliation, progress checkpoints, the object of
the outcome. `Crash` may leave any of those in `broken`; a step that reads one is refused
(`Refused`), also while another command is in the middle of it. The first three jam the campaign
for good, since every `resume` reads them before it looks at the deadline (`Jammed`); a doubled outcome
object refuses only the commit, and the next resume past the deadline still sets INCOMPLETE.

**`LaunchJournal` in particular.** `Start` reads the deadline chain and the reports and adds a
checkpoint, `Interrupt` puts the manifest of the interruption and moves the row, `Report` writes the
report. `Tear` leaves a checkpoint or a report torn, and no controller starts after that. The
manifest of a row that was STARTING has the same content at every attempt, so a death between its
link and its unlink (`DieStoring`) stops every later resume at that row; the manifest of a RUNNING
row holds the time of the inspection and does not collide. `Reconciled` and
`ReconcilesUnfinished` except both (`Jammed`).

**`Science` in particular.** A command replays the whole loop from the first candidate, so
what a death loses is `job` and what it keeps is `durable`: a rung whose record is there returns
it (`ReturnRecord`), one whose execution failed raises again (`RestoreFailure`), one that is
trained is only evaluated. Every launch is counted in `job.used` before it is requested and
charged in `charged` only when it is released, and `CursorAgrees` compares the two; `strayed`
remembers a launch that was counted and not charged. The budget is asked three times: by the
loop, with the time it adds up itself (`Admission`, `BundleAdmission`), by the real clock and by
the launch categories (`ClockAdmits`, `BudgetAdmits`). What the loop adds for a good run is the wall time of
the whole run, a training and two predictions, each bounded by the timeout that is also the p95,
and the scoring (`scientific.py:1432`, `generated_scientific_runner.py:1805`), so it may be more than
three times the p95. `limits.seconds` gives each run of a campaign its time, and is kept by the
record, so that a replay adds the same. A command that has counted more time than there is
cannot enter another candidate (`Overrun`). Real time may move before any step that
reads it, which is when a call or a follow-up begins; the other steps do not look at it. Scores are
chosen when a run is evaluated and kept in its record. A candidate that fails outside the journal
(an exception in the runtime) fails once per fault (`Falter`). A follow-up lineage that an
earlier command prepared never matches again, since its context holds the time that was left
(`lineage` "stale"). Which family a candidate belongs to, blending and the experiment states
of the store are left out; all gates but the scores are taken as passed, so that a bundle
whose runs succeed is decided by its scores.

**`Research` in particular.** The provider may answer each attempt in any way; what it
answers is reduced to what the code tells apart: an answer that ends the call on this endpoint,
one that may be retried, a rate limit, a malformed one, and a good one. A malformed answer does
not end a row of rate limits, a failed transport does. A manifest against the source policy
never reaches the admission check of `prepare_or_rehydrate_live_lineage`, because `_parse` has
treated it as malformed; the check is therefore no action. A package is good, refused before its
directory exists (`early`) or after (`late`). A directory that a dead command left makes the same
proposal fail like a package that cannot be materialized, with the same fingerprint. A
context is the time left and the number of rejections it tells of, which is what its digest
changes with during this stage. `ready` keeps the context of the accepted branch; before it is
there, a recorded branch is accepted only if no time has passed. `StoreLineage` puts the artifacts of the
accepted branch between the record and the ledger, `Register` stands for the six
facts that `_ensure_lineage_ledger` writes if they are missing, and `StoreRejections` puts the evidence
of the rejections before LINEAGE_READY. A death between link and unlink of one of those artifacts or
of the checkpoint (`DieLinking`) refuses every later pass that gets there: at the artifact
(`StoreRefused`) or when it reads the checkpoints (`ResumeUnread`). The scripted provider has no
rejections and is one step of `CampaignLifecycle`.

**`CandidateFiles` in particular.** An object is installed by a link to its digest path and
the removal of the staging name, two calls (`Link`, `Unlink`). Between them the object has two
links, and `verify` refuses it (`artifacts.py:407-427`); a kill there leaves it so for ever, and
every later put of the same content raises. The module is called crash-safe (`artifacts.py:1`), and
a test says that an orphaned staging file is harmless
(`src/tests/unit/test_artifact_store.py:149`), which is true of one that was not yet linked. A log is
the content that many executions share, since most are empty; everything else the model stores is
the execution's own. The publish lock and the workspace come before the row of the journal, and
their names are the execution id, which is deterministic: what stays there stops every
retry. A kill leaves them; so does a removal that fails; and so do the sync and the validation
after the rename (`workspace.py:219-232`) and the steps before the journal is asked
(`candidate_executor.py:624-633`, `738-747`, `FailSpec`), whose errors nobody cleans up after and
the scientific loop contains. `RefusalsLeaveNothing` says that nothing else does: not a copy that
fails and not an answer of the journal; and no error leaves an object with two names. An exception from a put, a copy or a transaction is contained by the scientific loop
(`scientific.py:917-939`): the controller goes on with the row RUNNING (`Abandon`), and only a resume
settles it. `at` and `hand` are where a controller is with the files of its execution; `left` remembers
what those cases left, for the property alone. The files of the reconciliation are those of
`LaunchJournal` (`DieWriting`).

**`Finalization` in particular.** `wanted` is what research handed over, `sound` whether the
evidence of the selected candidate holds together. `job.reason` says why there is no trained
candidate and `job.failures` at which gate the walk left each one; the ledgers hold them and are retained exactly, so an attempt that finds
another history than the one it wrote down stops. Seven things jam a finalization for good:
a training left RUNNING, a torn checkpoint of the deadline or report of the reconciliation (`Tear`; every
attempt observes the deadline several times), an artifact of the fallback with two names
(`DieStoring`; with one of the selected candidate the walk goes on to the fallback), a torn experiment
ledger, a CSV staging file, a torn receipt, and a retained ledger that the new attempt contradicts.
`Finishes` names them; the docstring
(`production.py:4986-4990`) calls the function restart-safe without them. A bundle that an earlier
attempt published is taken up (`Found`), whichever candidate it holds. The hard deadline is
looked at before the retained outcome (`production.py:4994`), so a repeated command after it fails
where `README.md:139-141` says that it returns; `RetryReturns` speaks of commands in time.
What happens inside a gate of the walk (replay, organizer check, report, copying) is in a private
directory and passes, fails or is cancelled.

**`Deadline` in particular.** The three readings of `observe` are three actions, since the
clocks move between them. `real` is time itself, which no program reads; `offset` is the error of
the wall clock, `mono` stands still while the machine sleeps and starts again at a reboot. The
boot identity is psutil's boot time, or the wall clock at monotonic zero where psutil is refused
(`clock.py:47-60`). psutil is no part of the sources, and its boot time is kept by some
systems and computed from the wall clock by others, so there are three values of `source`; a
controller does not change from one to another. Rounding to whole seconds is below the unit of
`real`. `create` writes two checkpoints before the campaign can be seen, which are the initial
state. A checkpoint that was created and not filled is `partial`; while there is one, nobody
can load the chain.

## Runs

| run | instance | what it shows |
|---|---|---|
| `OuterQueries` | 3 controllers, 2 campaigns of one configuration, 2 candidates, limit 1, 2 seeds; two controllers share a campaign, the third has its own | types, agreement of the two databases and coherent evidence bundles, finality of evidence, failed evidence of the lone campaign never published; the protocol implements `PublicScores`, which has the limit |
| `LaunchJournal` | 2 controllers, 2 trainings, 1 launch left, 2 deaths, also in the middle of a file, one workspace misplaced; 282,675 states, 21 s | types, stray processes, one process per execution, and `LaunchBudget`, which has the limit and that what ran stays charged |
| `CandidateFiles` | 1 controller, a training and the prediction that reads its checkpoint, a shared log that an earlier execution stored or died at, 2 deaths; 72,520 states, 20 s | recorded artifacts stay readable; a failed copy and an answer of the journal leave nothing in the way; research goes on only from a reconciled journal; everything unfinished is settled unless a file of the controller was jammed (liveness) |
| `LaunchJournalLayout` | 1 controller, 1 training, 1 death | **finding**: a RUNNING execution of the production layout can never be reconciled |
| `CampaignLifecycle` | 1 command at a time, deadline 3, reserve 1, 2 candidates, 2 promotions, 2 deaths; 143,578 states, 22 s | types, the winner is handed over, no research after the handoff, `CampaignPromise`, termination unless orphaned or jammed (liveness) |
| `CampaignLifecycleTwo` | 2 commands at once, live, deadline 2, 1 candidate, 1 death; 2.2 million states, 1 min 10 s | bundle, outcome, incumbent, status and receipt agree and are never replaced |
| `CampaignLifecycleContinue` | 1 command, 1 death | **finding**: a closing pass that dies leaves a campaign no resume accepts |
| `Deadline` | 2 observers, budget 2, 3 units of time, 1 reboot, 1 adjustment of at most 2, up to 2 further checkpoints | types, the order of the chain, and a deadline that is never extended |
| `Science` | 2 candidates, 2 public queries, 4 campaigns (room for all; few launches; most of the time gone; seeds that take three p95), 1 death, 1 transient failure; 3.7 million states, 1 min 10 s | types and the cap, earned incumbent, no undecided query, the best winner kept, measured convergence, cuts of a charged bundle explained, the same verdicts after a death, reconciled launch counts |
| `ScienceBundle` | one launch less in the category of the later seeds, no slow runs, deaths or failures | **finding**: a query is charged for a bundle whose last launch can never be made |
| `Research` | 5 iterations, 2 families, 2 endpoints, 2 transport retries, 1 malformed retry, 2 deaths, reserve after 2 units of time; 3.3 million states, 1 min 50 s | types, what the provider is asked is what the journal allows, bounded calls, refusals never for counters or the cap and otherwise only for torn or doubled files and lost contexts, one branch for good |
| `Finalization` | a sound or contradictory candidate, 1 fault, 2 deaths or signals, a deadline that may pass anywhere; 37,352 states, 4 s | types; bundle, ledgers and receipt explain each other; a retry in time returns the retained outcome; repeated attempts finish unless jammed in a named way (liveness) |

Every property of a passing run has a mutant in `PROJECT.json`: a plausible bug in one
definition that makes TLC find the property violated in that very instance.

**Bounds, and why they are enough.** The public limit and the launch limit are 1 or 2 so that
exhaustion is reached and raced for; a second campaign, candidate or training is what a race
needs. In `OuterQueries` two candidates are enough: a failed one and a published one, or a charged
one and a refused one; the lone campaign beside the shared one is what its property needs.
Two controllers are what one run directory needs for every pairwise race; the proofs lift the number
for the properties they cover. Two deaths allow a death, a recovery and a death in the recovery.
In `CandidateFiles` one controller is enough to see every file in every state: a death
plays the part that a second controller has in the middle of an installation, and the campaign
that came before plays the part of the executions that share a log.
Time has one tick before the reserve, one in it and one past the deadline, so every order of a
clock reading and a step occurs; `MaxNow` is the deadline itself, since the code only asks whether
it has passed. In `Deadline` the adjustment is as large as the budget, and time goes one unit
beyond it, so that an observation can be wrong by all of it; two further checkpoints are what
two observers race for, and the proofs lift every bound. In `Science` a wall of 14 with a reserve
of 1 and a p95 of 2 lets a two-candidate portfolio finish, and the four campaigns of `MCLimits` make the launch cap
or the time the first thing to run out, the time because little is left or because the seeds outlast
their p95; the categories are exactly as large as two bundles need, and in `ScienceBundle` one smaller. Scores are 1 or 2, so that candidates tie, gain
or lose. In `Research` five iterations are needed because a blocked family reaches its third
root failure only then, and two families because the block must not spread; two transport retries let a rate limit come twice in a row.
`CampaignLifecycleTwo` takes a live campaign, which may close research at every gate where a scripted one
may and at one more; `CampaignLifecycle` has both. In `Finalization`
one fault anywhere and two deaths or signals give a broken attempt, a recovery and an interrupted
recovery. Revisions are bounded by the finite number of writes and need no bound. In
`CampaignLifecycleTwo` the two commands, in `LaunchJournal` the controllers, and in `Deadline` the
observers are interchangeable and symmetry is used; it is not used where liveness is checked.

**Fairness.** Liveness is claimed under: a controller that can take a step takes one (the
operating system schedules it), an ended one is started again (the operator reruns `resume`,
which README.md:127-141 tells them to), a command ends, if only at its deadline, and time passes.
In `CandidateFiles` a command that goes from one request to the next is only now and then at a
point where it can end, hence strong fairness of `EndCommand`; in `LaunchJournal` weak fairness of
`Quit`. In `Finalization` the attempt goes on and the operator starts another one.
Deaths and faults are bounded: a campaign that is killed for ever does not end. A torn or doubled
file is not repaired by any amount of fairness, so the liveness properties except it by name. No fairness is
assumed of providers or candidate code: an admission may be refused and a child may fail whenever
the code allows it. Supervision has a timeout, so a child that never ends is not a behaviour.
`Science` and `Research` state no fairness: their properties are of safety.
`CHECK_DEADLOCK FALSE` stands where the system really stops: in `LaunchJournal` and `CandidateFiles`
all executions may be finished and nobody has a reason to go on, in `Deadline` a torn checkpoint
stops every observer and time ends at `MaxReal`, and `Science`, `Research` and `Finalization` end
with their campaign.

**Scope of some properties.**
- `FailedNeverPublished` speaks of campaigns with one controller; with two on one run
  directory, one may record a failure while the other is between its checks and its
  publication. Controllers of other campaigns may do what they like.
- `CandidateFiles` puts no workspace in `Misplaced`: it shows what resume does in the
  layout `controller.py` expects. The production runtime uses another one (the finding).
- `ResumesClean` is about the step with which resume hands over to research, and one controller.
  A row abandoned afterwards stays RUNNING until the next command.
- `WinnerHandedOff` is stated for scripted campaigns. A live campaign whose winner is decided
  and which is then resumed inside the reserve, or while its provider cannot be selected,
  closes research before it reads the retained lineage and hands over the fallback. The code
  does so, no document promises otherwise, and `PROJECT.json` lists it as a hazard.
- `ImplementsPromise` is checked with one command at a time. `resume` chooses a disposition
  and writes it under a later revision, and `set_campaign_phase` has no transition table, so two
  commands at once can move a COMPLETED campaign to INCOMPLETE; what still holds then is
  what `CampaignLifecycleTwo` checks.
- `RetryReturns` is about retries that are not cancelled: before the deadline, without a signal.
- `NeverExtended` excludes wall clocks that were set back, except on the original boot, with a
  boot time that stands and a machine that did not sleep: there the monotonic clock makes
  up for it. Nothing could after a reboot.

## Findings

1. `LaunchJournalLayout` / `ReconcilesUnfinished` (`campaign/controller.py:1237`): `resume`
   demands that the workspace of an unfinished execution lies under `<run>/workspaces`, the
   production runtime puts all of them under `<run>/production`. After a death in the middle
   of a child, every resume raises.
2. `CampaignLifecycleContinue` / `ResumeContinues`
   (`campaign/full_campaign_runtime.py:3466`): a pass that closes research writes
   LINEAGE_READY without the start cursor that the next pass requires; a death before the
   handoff makes the campaign unresumable and it can only become INCOMPLETE.
3. `ScienceBundle` / `BundleFits` (`campaign/scientific.py:1030`): a matched-seed bundle is
   admitted against the launch cap, and launched against the ceiling of its category; a public
   query is charged for a bundle that cannot be completed.
   The time is no better guarded: the bundle is admitted with three times the p95 and the reserve, but a
   run may cost a training, two predictions and the scoring (`campaign/scientific.py:1432`), each of the
   first three bounded by that p95. The slow campaign of `Science` has such bundles, cut after
   their query was charged; `CutsExplained` says that the launch cap never cuts one, a category only beyond
   its room, and the time only after a seed that outlasted its p95.

## Proofs

| theorem | argument |
|---|---|
| `OuterQueriesProofs!TypeCorrect` | types are inductive with the control invariant `ControlOK` |
| `OuterQueriesProofs!BudgetHolds`, `StoresAgree`, `EvidenceIsFinal` | the inductive invariant `Agreement`: what the databases say (`LocalBackedByProject`, `BundleCoherent`, `CompletedHasResult`) together with what a controller has already read and may still act upon (`InFlight`). Neither half is inductive alone: the second database is written on the strength of a value read from the first one several steps earlier |
| `OuterQueriesProofs!FailureIsFinal` | the same, for each campaign that only one controller works on (`Sole`) |
| `OuterQueriesProofs!Refinement` | every step maps to a step of `PublicScores` or to a stutter, from `Agreement` |
| `LaunchJournalProofs!RanIsCharged`, `NoStray`, `OneProcessEver`, `LimitHolds` | the inductive invariant `Custody`: at most one controller holds an execution before its row is terminal (`OneHolder`), its position bounds what the process can be (`ProcessAt`), what it read is still true or harmless (`ReadAt`), and each row bounds launch and process (`RowOK`) |
| `LaunchJournalProofs!ResumesReconciled` | one controller: the inductive invariant `Reconciling`: what a loop of the reconciliation is about is still to be picked or in hand, and what the loops before it were about is no more |
| `LaunchJournalProofs!ImplementsBudget` | step simulation of `LaunchBudget` from `Custody` |
| `CampaignLifecycleProofs!TypeCorrect` | types are inductive together with `BundleInHand`: without it the receipt could be filled with no bundle |
| `CampaignLifecycleProofs!EvidenceIsKept` | the inductive invariant `Custody`: the receipt file has one writer from its exclusive creation to its last byte, and an outcome is listed by the last checkpoint, so the next append is refused |
| `DeadlineProofs!TypeCorrect`, `NothingGivenBack`, `CheckpointsRetained` | the inductive invariant `Custody`: what an observer read is not behind the checkpoint it loaded (`NotBehind`), and whoever fills a file is alone and loaded the whole chain before it (`OneFiller`), which is what exclusive creation of the next number gives |
| `DeadlineProofs!DeadlineNeverExtended` | the invariant `Timed` under `Custody`: while a clock is honest (`ClocksTrue`), what each observer read or found at its step accounts for the time (`Accounts`); an adjustment or a sleep in the middle of an observation only weakens what has to be shown |
| `ResearchProofs!TypeCorrect`, `JournalGoverned`, `CallsBounded`, `RefusalsExplained`, `AcceptedIsKept` | one inductive invariant `IInv`: what the command works on is a prefix of the journal it read (`Working`), what it has in flight agrees with it (`Sent`), the counters of a call account for its attempts (`Tallied`), the recorded branch is the one in hand (`Kept`), and every refusal has what a death left torn, doubled or out of context (`Refusals`) |
| `CandidateFilesProofs!FilesKeepJournal` | each step is a step of `LaunchJournal` or a stutter, so all that is proved of the journal holds here |
| `CandidateFilesProofs!RecordsStayReadable` | the inductive invariant `Custodian`: from the first look at an object to the terminal row its writer has it in hand, and nobody deletes what is published |
| `CandidateFilesProofs!RefusalsBlockNothing` | the inductive invariant `Accounted`: every lock, workspace and half installed object has an owner in the middle of the step that removes it, or `left` has it: a death, a failed removal, or an error between the rename and the journal |
| `CampaignLifecycleProofs!EvidenceHolds` | the inductive invariant `Evidence`: what a finalization has in hand at each phase (a retained outcome, a picked candidate that research selected, an incumbent that is the bundle), and one owner of the final training, which its launch identity gives |
| `CampaignLifecycleProofs!ResearchIsOver`, `KeepsPromise`, `WinnerIsHandedOff` | one command: the invariants `After`, `Order` and `Scripted` say which checkpoints and which status each step of the command implies; the second is a step simulation of `CampaignPromise` |
| `FinalizationProofs!TypeCorrect`, `BundleExplainsItself` | one inductive invariant `IInv`: what an attempt knows at each phase of the ledgers it wrote or found, of the training and of the candidate it walks with, which later attempts may find written with less knowledge |
| `FinalizationProofs!TerminalRetryReturns` | the invariant `Kept` beside it: a campaign is completed and its bundle closed before the receipt is written, and no later step takes that back |
| `ScienceProofs!TypeCorrect`, `IncumbentIsEarned` | the inductive invariant `IInv`, and that each incumbent has beaten the one before it |
| `ScienceProofs!NoQueryForgotten` | the same invariant. A command that finds a query charged replays from the first candidate. If the query is that candidate's, all that its verdicts on the folds depend on is retained (`QualifiedAt`, `FirstAt`), so the replay comes back to the query. If it is another's, that one's folds are two charged launches more than those the replay has passed, where the loop has counted at most one more: by the pigeonhole principle the cursors differ (`Counting`), and the command fails instead of completing |
| `ScienceProofs!BestWinnerKept` | `WinnerAt` beside `IInv` and `RInv` (what is retained of each candidate: `OrderAt`, `FullAt`, `LineageAt`, `NewAt`, `QueriesAt`). Only the first candidate can have been promoted by an earlier command in a science that completes, since a query of another one puts the cursors at odds; a published candidate has all its scores, and none of them changes |
| `ScienceProofs!ConvergenceMeasured` | `CInv`: the best primary of the convergence state is that of a candidate behind the command or of the fallback (`BestAt`), and its streak counts the last measured candidates, each flat against one before it (`StreakAt`). What a later command measures again it measures alike |
| `ScienceProofs!CutsAreExplained` | `LInv` and `CutsStep`: past the first candidate the launches the loop has counted are those charged and the one it waits for (`CountAt`), and at each seed there is room for the rest of the bundle, launches always and time while the seeds keep to their p95 (`RoomAt`, `OnTime`, `SeedAdmitted`). So the hard cap has a launch left (`CapLeft`), and a category has one unless more candidates were queried than it has room for (`CategoryLeft`) |
| `ScienceProofs!VerdictsRepeat` | `VInv`: the verdict due to the first candidate is a function of the durable state (`Fate`), which follows the code from the first admission to the decision. A run that is blocked (failed, or refused by a clock that only advances or by charges that only grow) stays blocked (`BlockedStays`), so a verdict that is due stays due (`FateKept`), and each way an iteration ends is that verdict (`FirstVerdict`). Another candidate can have the query the first one needs only after this one was judged (`PromotedOnce`); it has a verdict only once, since its lineage is never taken up again (`NewAt`) |
| `ScienceProofs!ResumeIsReconciled` | `LInv` and `VInv`: the first candidate is counted as it was charged (`FirstReconciled`), the others launch by launch; the failure of a bundle names the run that is blocked, where the replay cuts it again |
| `ScienceProofs!QueryLimitHolds`, `SettledOnce`, `LedgersAreFinal` | the query count that `RInv` keeps, and what every step leaves of the ledgers (`Writes`): rows are added or found, never rewritten, and the two that settle a bundle exclude each other |

They hold for every number of controllers, candidates, executions, faults and deaths and for every
limit and deadline that satisfies the named assumptions (limits are natural numbers, sets that are
counted are finite, `None` is no element of the other sets). `ResearchIsOver`, `KeepsPromise` and
`WinnerIsHandedOff` assume that one command works on the campaign (see the scope of
`ImplementsPromise`); `ResumesReconciled` assumes one controller, and `FailureIsFinal` one for the campaign it speaks of. The bounds of
`Deadline` are constants in its guards, so its theorems hold for each value of them. Assumptions are
evaluated by TLC in the runs.

`BudgetHolds`, `LimitHolds`, `RanIsCharged`, `CheckpointsRetained`, `QueryLimitHolds`, `SettledOnce`
and `LedgersAreFinal` have no property of a run beside them: the runs check the first four through
the refinements and the order of the chain, and the last three are facts the proofs above rest on or
follow from.

Every safety property and action property of the passing runs is stated by a theorem. Only
model-checked are the liveness properties `Reconciled`, `Terminates` and `Finishes`: liveness and
ENABLED are out of the prover's reach, as is induction over data.

## Not modelled

Source policy, prompts, schemas and materialization of generated code, data parsing, features,
baselines, candidate models and scoring are pure functions over long texts, tables or floating
point without state to interleave; they are a large part of the repository, which is why the map
covers a modest share of its lines. `ResearchCampaignLoop` of `research/loop.py` is used by tests only.
Within the modelled parts: `CampaignEngine.create` and `status`, the admission rules of
`DeadlineObservation` (which only tests call), usage accounting and transcripts of the provider and
its selection, reallocation between launch categories, blending of candidates, the content of
checkpoints, reports and digests, resource limits and log capture of the runner, directory trees
and path policies of artifacts and workspaces, and `replay_final_bundle`, which only reads.

## Plan

Done: `OuterQueries` with `PublicScores`; `LaunchJournal` with `LaunchBudget`; `CampaignLifecycle`
with `CampaignPromise`; `Deadline`; `Selection` and `Science`; `Research`; `Finalization`;
`CandidateFiles`. Left, in this order:

1. `RunnerSteps`: the supervision loop of `runner.py` (limits, signals, drain, cleanup) shown to
   implement the process part of `LaunchJournal`.
2. `Acquire`: verified download and exclusive installation of the archive, which precedes a campaign.
