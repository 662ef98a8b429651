---------------------------- MODULE LaunchJournal ----------------------------
(***************************************************************************)
(* One generated-candidate execution, from its launch reservation to its   *)
(* terminal record: GeneratedCandidateExecutor drives the                  *)
(* CampaignStoreCandidateJournal (prepare, commit, finish) around          *)
(* Runner.run, whose blocked launcher turns into candidate code only after *)
(* commit returned.  A controller may die anywhere; CampaignEngine.resume  *)
(* then interrupts what it left behind.  Nothing locks a run directory, so *)
(* a second controller may resume while the first one is still alive.      *)
(*                                                                         *)
(* Every action is one SQLite transaction, or one step of the runner on    *)
(* the operating-system process.  A transaction reads the revision it then *)
(* requires, so a write that lost a race is an exception: the controller   *)
(* unwinds, which for the rest of the world is Crash.                      *)
(*                                                                         *)
(* The controller's own files (the deadline chain, the reports and the     *)
(* manifests of a reconciliation) are written with the step they belong    *)
(* to.  A death in the middle of such a write is an action of its own:     *)
(* it leaves a file that no later resume gets past.                        *)
(***************************************************************************)
EXTENDS Naturals, FiniteSets

CONSTANTS
  Controllers,   \* controller processes
  Executions,    \* deterministic execution ids
  Trainings,     \* the ones that train: each owns the launch of the same name
  Misplaced,     \* executions whose workspace is outside <run>/workspaces
  MaxLaunches,   \* launches left of the campaign limit
  MaxCrashes,    \* bound on controller deaths
  None

ASSUME TrainingsAssumption == Trainings \subseteq Executions /\ IsFiniteSet(Executions)
ASSUME MisplacedAssumption == Misplaced \subseteq Executions
ASSUME BoundsAssumption == MaxLaunches \in Nat /\ MaxCrashes \in Nat
ASSUME NoneAssumption == None \notin Executions

VARIABLES
  launch,      \* training -> state of its latest launch event
  exec,        \* execution -> status of its row
  claimed,     \* executions whose terminal result says candidate_released
  unverified,  \* executions whose terminal record says cleanup was not proven
  incomplete,  \* the campaign was closed as INCOMPLETE
  proc,        \* execution -> its operating-system process
  ran,         \* history: executions whose candidate code was released
  crashes,     \* controller deaths so far
  torn,        \* kinds of JSON files of which one was created and not filled
  doubled,     \* executions whose manifest of a STARTING row has two names
  pc,          \* controller -> next step
  job          \* controller -> its local variables

db == <<launch, exec, claimed, unverified, incomplete>>
damage == <<torn, doubled>>
vars == <<launch, exec, claimed, unverified, incomplete, proc, ran, crashes, torn, doubled, pc, job>>

\* A checkpoint of the deadline chain, a report of _reconcile_unfinished.
JsonFiles == {"deadline", "report"}

LaunchStates == {"NONE", "RESERVED", "STARTED", "START_UNCERTAIN", "FINISHED", "NOT_STARTED"}
Open == {"RESERVED", "STARTED", "START_UNCERTAIN"}
Unfinished == {"STARTING", "RUNNING"}
Terminal == {"SUCCEEDED", "FAILED", "INTERRUPTED"}
ExecStates == {"NONE"} \cup Unfinished \cup Terminal
ProcStates == {"none", "blocked", "candidate", "gone"}

RunPhases == {"reserve", "create", "spawn", "commit_exec", "commit_launch", "release",
              "supervise", "record", "settle"}
ResumePhases == {"resume", "inspect", "interrupt", "close"}
Loops == {"unfinished", "split", "orphans"}
Phases == {"down", "idle"} \cup RunPhases \cup ResumePhases

Job == [exec : Executions \cup {None}, released : BOOLEAN, ok : BOOLEAN, verified : BOOLEAN,
        loop : Loops, todo : SUBSET (Executions \X ExecStates), seen : ExecStates,
        unsafe : BOOLEAN]

NoJob == [exec |-> None, released |-> FALSE, ok |-> FALSE, verified |-> TRUE,
          loop |-> "unfinished", todo |-> {}, seen |-> "NONE", unsafe |-> FALSE]

Init ==
  /\ launch = [e \in Trainings |-> "NONE"]
  /\ exec = [e \in Executions |-> "NONE"]
  /\ claimed = {}
  /\ unverified = {}
  /\ incomplete = FALSE
  /\ proc = [e \in Executions |-> "none"]
  /\ ran = {}
  /\ crashes = 0
  /\ torn = {} /\ doubled = {}
  /\ pc = [p \in Controllers |-> "down"]
  /\ job = [p \in Controllers |-> NoJob]

-----------------------------------------------------------------------------

\* Only NOT_STARTED releases the conservative charge of a reservation.
Charged == {e \in Trainings : launch[e] \notin {"NONE", "NOT_STARTED"}}

\* _LAUNCH_TRANSITIONS.
MayFollow(from, to) ==
  \/ from = "RESERVED" /\ to \in {"STARTED", "NOT_STARTED", "START_UNCERTAIN"}
  \/ from = "STARTED" /\ to \in {"FINISHED", "START_UNCERTAIN"}
  \/ from = "START_UNCERTAIN" /\ to = "FINISHED"

MoveLaunch(e, to) ==
  /\ MayFollow(launch[e], to)
  /\ launch' = [launch EXCEPT ![e] = to]

MoveExec(e, from, to) ==
  /\ exec[e] = from
  /\ exec' = [exec EXCEPT ![e] = to]

Goto(p, next) == pc' = [pc EXCEPT ![p] = next]

\* The controller is at the given step of the execution in its hands.
At(p, phase, e) == pc[p] = phase /\ job[p].exec = e

\* The execution's processing is over; the controller takes the next request.
Done(p) == Goto(p, "idle") /\ job' = [job EXCEPT ![p] = NoJob]

\* An exception leaves the controller, or the process is killed.
Exit(p) == Goto(p, "down") /\ job' = [job EXCEPT ![p] = NoJob]

-----------------------------------------------------------------------------
(* CampaignStoreCandidateJournal.prepare                                   *)

\* A new execution id is admitted.  An unfinished or INTERRUPTED row is pending, a
\* closed launch without a row is not resumable: such a request is refused.  The caller has
\* observed the deadline before (Tear).
Prepare(p, e) ==
  /\ pc[p] = "idle"
  /\ exec[e] = "NONE"
  /\ e \in Trainings => \/ launch[e] = "RESERVED"
                        \/ launch[e] = "NONE" /\ Cardinality(Charged) < MaxLaunches
  /\ job' = [job EXCEPT ![p].exec = e]
  /\ Goto(p, IF e \in Trainings THEN "reserve" ELSE "create")
  /\ UNCHANGED <<db, proc, ran, crashes, damage>>

\* The limit is counted again in the transaction that charges.
MayReserve(e) == launch[e] = "NONE" /\ Cardinality(Charged) < MaxLaunches

\* reserve_launch: an exact retry returns the stored launch, in whatever state it is.
Reserve(p, e) ==
  /\ At(p, "reserve", e)
  /\ \/ launch[e] # "NONE" /\ UNCHANGED launch
     \/ MayReserve(e) /\ launch' = [launch EXCEPT ![e] = "RESERVED"]
  /\ Goto(p, "create")
  /\ UNCHANGED <<exec, claimed, unverified, incomplete, proc, ran, crashes, damage, job>>

\* Mutant of Unused: a row that is only STARTING is taken over.
UnusedOrStarting(e) == exec[e] \in {"NONE", "STARTING"}

\* The execution id, the primary key of its table, has no row.
Unused(e) == exec[e] = "NONE"

\* create_execution.
Create(p, e) ==
  /\ At(p, "create", e)
  /\ Unused(e)
  /\ exec' = [exec EXCEPT ![e] = "STARTING"]
  /\ Goto(p, "spawn")
  /\ UNCHANGED <<launch, claimed, unverified, incomplete, proc, ran, crashes, damage, job>>

-----------------------------------------------------------------------------
(* Runner.run                                                              *)

\* The launcher starts blocked on the release pipe, or the spawn fails.
Spawn(p, e) ==
  /\ At(p, "spawn", e)
  /\ \/ /\ proc' = [proc EXCEPT ![e] = "blocked"]
        /\ Goto(p, "commit_exec")
     \/ /\ UNCHANGED proc
        /\ Goto(p, "record")
  /\ UNCHANGED <<db, ran, crashes, damage, job>>

\* Mutant of AfterReceipt: the release does not wait for the launch.
AfterReceiptDirect(e) == "release"

\* The order of commit: the process receipt, then the launch, then the release.
AfterReceipt(e) == IF e \in Trainings THEN "commit_launch" ELSE "release"

\* commit, first transaction: the process receipt becomes durable.
CommitExec(p, e) ==
  /\ At(p, "commit_exec", e)
  /\ MoveExec(e, "STARTING", "RUNNING")
  /\ Goto(p, AfterReceipt(e))
  /\ UNCHANGED <<launch, claimed, unverified, incomplete, proc, ran, crashes, damage, job>>

\* commit, second transaction: the launch is started, with the receipt's digest.
CommitLaunch(p, e) ==
  /\ At(p, "commit_launch", e)
  /\ MoveLaunch(e, "STARTED")
  /\ Goto(p, "release")
  /\ UNCHANGED <<exec, claimed, unverified, incomplete, proc, ran, crashes, damage, job>>

\* Mutant of Terminate: only a launcher that is still blocked is terminated.
TerminateBlocked(e, verified) ==
  IF proc[e] = "blocked" /\ verified
  THEN proc' = [proc EXCEPT ![e] = "gone"] ELSE UNCHANGED proc

\* _terminate_tree, which may fail to prove that the process is gone.
Terminate(e, verified) ==
  IF proc[e] \in {"blocked", "candidate"} /\ verified
  THEN proc' = [proc EXCEPT ![e] = "gone"] ELSE UNCHANGED proc

\* Any exception of commit, a cancellation before the release, or a launcher that died:
\* the release pipe is closed unwritten and the process is terminated.
NotReleased(p, e) ==
  /\ \E phase \in {"commit_exec", "commit_launch", "release"} : At(p, phase, e)
  /\ proc' = [proc EXCEPT ![e] = "gone"]
  /\ Goto(p, "record")
  /\ UNCHANGED <<db, ran, crashes, damage, job>>

\* The nonce is written to the pipe of a live launcher: candidate code runs.  A
\* KeyboardInterrupt may strike after the write and before it is noted as released.
Release(p, e) ==
  /\ At(p, "release", e)
  /\ proc[e] = "blocked"
  /\ proc' = [proc EXCEPT ![e] = "candidate"]
  /\ ran' = ran \cup {e}
  /\ \E noted \in BOOLEAN : job' = [job EXCEPT ![p].released = noted]
  /\ Goto(p, "supervise")
  /\ UNCHANGED <<db, crashes, damage>>

\* The supervision loop ends: the candidate exited, or a limit, a cancellation, an
\* interrupt or a failed inspection made the runner terminate it.
Supervise(p, e) ==
  /\ At(p, "supervise", e)
  /\ \E ok, verified \in BOOLEAN :
       /\ ok => proc[e] = "gone" /\ job[p].released /\ verified
       /\ Terminate(e, verified)
       /\ job' = [job EXCEPT ![p].ok = ok, ![p].verified = verified]
  /\ Goto(p, "record")
  /\ UNCHANGED <<db, ran, crashes, damage>>

-----------------------------------------------------------------------------
(* CampaignStoreCandidateJournal.finish and rehydrate_terminal             *)

\* finish, first transaction: the terminal status; a row that another controller has
\* interrupted is refused.  Output validation may still fail a successful process.
Record(p, e) ==
  /\ At(p, "record", e)
  /\ \E status \in {"SUCCEEDED", "FAILED"} :
       /\ status = "SUCCEEDED" => job[p].ok
       /\ exec[e] \in Unfinished
       /\ exec' = [exec EXCEPT ![e] = status]
  /\ claimed' = IF job[p].released THEN claimed \cup {e} ELSE claimed
  /\ unverified' = IF job[p].verified THEN unverified ELSE unverified \cup {e}
  /\ IF e \in Trainings THEN Goto(p, "settle") /\ UNCHANGED job ELSE Done(p)
  /\ UNCHANGED <<launch, incomplete, proc, ran, crashes, damage>>

\* The launch state a finished execution asks for.
Settlement(released, state) ==
  IF ~released /\ state \in {"RESERVED", "NOT_STARTED"} THEN "NOT_STARTED" ELSE "FINISHED"

\* finish, second transaction: a released candidate must have a started launch.
Settle(p, e) ==
  LET desired == Settlement(job[p].released, launch[e])
  IN /\ At(p, "settle", e)
     /\ job[p].released => launch[e] \in {"STARTED", "START_UNCERTAIN", "FINISHED"}
     /\ \/ launch[e] = desired /\ UNCHANGED launch
        \/ launch[e] # desired /\ MoveLaunch(e, desired)
     /\ Done(p)
     /\ UNCHANGED <<exec, claimed, unverified, incomplete, proc, ran, crashes, damage>>

\* prepare of a terminal execution restores it and settles the launch that a death
\* between the two transactions of finish left open.
Rehydrate(p, e) ==
  /\ pc[p] = "idle"
  /\ e \in Trainings /\ exec[e] \in {"SUCCEEDED", "FAILED"}
  /\ e \in claimed => launch[e] # "RESERVED"
  /\ MoveLaunch(e, Settlement(e \in claimed, launch[e]))
  /\ UNCHANGED <<exec, claimed, unverified, incomplete, proc, ran, crashes, damage, pc, job>>

-----------------------------------------------------------------------------
(* CampaignEngine.resume                                                   *)

OpenLaunch(e) == e \in Trainings /\ launch[e] \in Open

\* Mutant of InLoop: finished executions are interrupted as well.
InLoopFinished(loop, e) ==
  \/ loop = "unfinished" /\ exec[e] # "NONE"
  \/ loop = "split" /\ exec[e] \in Terminal /\ OpenLaunch(e)
  \/ loop = "orphans" /\ exec[e] = "NONE" /\ OpenLaunch(e)

\* Mutant of InLoop: an open launch is only settled with its unfinished execution.
InLoopNoSplit(loop, e) ==
  \/ loop = "unfinished" /\ exec[e] \in Unfinished
  \/ loop = "orphans" /\ exec[e] = "NONE" /\ OpenLaunch(e)

\* Mutant of InLoop: launches without an execution row are left alone.
InLoopNoOrphans(loop, e) ==
  \/ loop = "unfinished" /\ exec[e] \in Unfinished
  \/ loop = "split" /\ exec[e] \in Terminal /\ OpenLaunch(e)

\* The executions a loop of _reconcile_unfinished is about.
InLoop(loop, e) ==
  \/ loop = "unfinished" /\ exec[e] \in Unfinished
  \/ loop = "split" /\ exec[e] \in Terminal /\ OpenLaunch(e)
  \/ loop = "orphans" /\ exec[e] = "NONE" /\ OpenLaunch(e)

\* What a loop reads on entry.
Todo(loop) == {t \in Executions \X ExecStates : InLoop(loop, t[1]) /\ t[2] = exec[t[1]]}

\* A controller starts on the run directory; a terminal campaign is only reported.  It reads
\* the deadline chain, adds its checkpoint, and reads the reports; one that is torn, or is
\* being written by another controller, is refused.
Start(p) ==
  /\ pc[p] = "down" /\ ~incomplete /\ torn = {}
  /\ job' = [job EXCEPT ![p] = [NoJob EXCEPT !.todo = Todo("unfinished")]]
  /\ Goto(p, "resume")
  /\ UNCHANGED <<db, proc, ran, crashes, damage>>

Pick(p, e) ==
  /\ pc[p] = "resume"
  /\ \E s \in ExecStates :
       /\ <<e, s>> \in job[p].todo
       /\ job' = [job EXCEPT ![p].exec = e, ![p].seen = s, ![p].verified = TRUE,
                             ![p].todo = @ \ {<<e, s>>}]
       /\ Goto(p, CASE job[p].loop # "unfinished" -> "close"
                    [] job[p].loop = "unfinished" /\ s = "RUNNING" -> "inspect"
                    [] OTHER -> "interrupt")
  /\ UNCHANGED <<db, proc, ran, crashes, damage>>

\* _process_reconciliation: a process that still matches its receipt is terminated; a
\* workspace elsewhere than under <run>/workspaces is an integrity error (see Refuse).
Inspect(p, e) ==
  /\ At(p, "inspect", e)
  /\ e \notin Misplaced
  /\ \E verified \in BOOLEAN :
       /\ ~verified => proc[e] \in {"blocked", "candidate"}
       /\ Terminate(e, verified)
       /\ job' = [job EXCEPT ![p].verified = verified, ![p].unsafe = @ \/ ~verified]
  /\ Goto(p, "interrupt")
  /\ UNCHANGED <<db, ran, crashes, damage>>

\* The manifest of the interruption can be stored.  That of a STARTING row says nothing that a
\* later resume would not say again; that of a RUNNING row has the time of the inspection.
Storable(p, e) == job[p].seen = "STARTING" => e \notin doubled

\* The manifest is put, and the abandoned execution becomes INTERRUPTED if it still is what
\* resume read.
Interrupt(p, e) ==
  /\ At(p, "interrupt", e) /\ Storable(p, e)
  /\ MoveExec(e, job[p].seen, "INTERRUPTED")
  /\ unverified' = IF job[p].verified THEN unverified ELSE unverified \cup {e}
  /\ Goto(p, "close")
  /\ UNCHANGED <<launch, claimed, incomplete, proc, ran, crashes, damage, job>>

\* _finish_reconciled_launch: never NOT_STARTED, the charge is kept.
Close(p, e) ==
  /\ At(p, "close", e) /\ e \in Trainings
  /\ \/ launch[e] = "RESERVED" /\ MoveLaunch(e, "START_UNCERTAIN")
     \/ launch[e] \in {"STARTED", "START_UNCERTAIN"} /\ MoveLaunch(e, "FINISHED")
  /\ UNCHANGED <<exec, claimed, unverified, incomplete, proc, ran, crashes, damage, pc, job>>

Closed(e) == e \in Trainings => launch[e] \in {"FINISHED", "NOT_STARTED"}

\* The report of one reconciled execution or launch is written.
Report(p, e) ==
  /\ At(p, "close", e) /\ Closed(e)
  /\ Goto(p, "resume")
  /\ UNCHANGED <<db, proc, ran, crashes, damage, job>>

\* The next loop of _reconcile_unfinished, with what it reads now.
NextLoop(p) ==
  /\ pc[p] = "resume" /\ job[p].todo = {} /\ job[p].loop # "orphans"
  /\ LET next == IF job[p].loop = "unfinished" THEN "split" ELSE "orphans"
     IN job' = [job EXCEPT ![p].loop = next, ![p].todo = Todo(next)]
  /\ UNCHANGED <<db, proc, ran, crashes, damage, pc>>

\* Reconciled: research goes on, or an unproven cleanup closes the campaign.  The status that
\* resume returns reads the reports again, which another controller may have torn.
Resumed(p) ==
  /\ pc[p] = "resume" /\ job[p].todo = {} /\ job[p].loop = "orphans"
  /\ incomplete' = (incomplete \/ job[p].unsafe)
  /\ IF job[p].unsafe \/ "report" \in torn THEN Exit(p) ELSE Done(p)
  /\ UNCHANGED <<launch, exec, claimed, unverified, proc, ran, crashes, damage>>

-----------------------------------------------------------------------------

\* A step whose transaction or file is refused raises: a manifest with two names, for good or
\* while another controller puts it, or a report whose number another controller has taken
\* since the reports were counted.  The caller of an execution may contain the exception and
\* go on, as the scientific loop does, or end; resume ends.
Refuse(p, e) ==
  /\ \/ At(p, "reserve", e) /\ launch[e] = "NONE" /\ ~MayReserve(e) /\ Done(p)
     \/ At(p, "create", e) /\ ~Unused(e) /\ Done(p)
     \/ At(p, "record", e) /\ exec[e] \notin Unfinished /\ (Done(p) \/ Exit(p))
     \/ /\ At(p, "settle", e) /\ job[p].released
        /\ launch[e] \in {"RESERVED", "NOT_STARTED"} /\ (Done(p) \/ Exit(p))
     \/ At(p, "inspect", e) /\ e \in Misplaced /\ Exit(p)
     \/ At(p, "interrupt", e) /\ (exec[e] # job[p].seen \/ ~Storable(p, e)) /\ Exit(p)
     \/ \E q \in Controllers \ {p} : At(p, "interrupt", e) /\ At(q, "interrupt", e) /\ Exit(p)
     \/ At(p, "close", e) /\ Closed(e) /\ Controllers # {p} /\ Exit(p)
  /\ UNCHANGED <<db, proc, ran, crashes, damage>>

\* An artifact, a directory or a transaction fails before the execution is finished: the
\* scientific loop contains the exception and goes on, and the row stays as it is.
Abandon(p, e) ==
  /\ \E phase \in {"reserve", "create", "record", "settle"} : At(p, phase, e)
  /\ Done(p)
  /\ UNCHANGED <<db, proc, ran, crashes, damage>>

\* The command has no more to ask for and ends.
Quit(p) ==
  /\ pc[p] = "idle"
  /\ Exit(p)
  /\ UNCHANGED <<db, proc, ran, crashes, damage>>

\* The controller is killed, or an exception no other action covers ends it.
Crash(p) ==
  /\ pc[p] # "down" /\ crashes < MaxCrashes
  /\ crashes' = crashes + 1
  /\ Exit(p)
  /\ UNCHANGED <<db, proc, ran, damage>>

\* A death or a fault of the disk between the exclusive creation of a JSON file and its last
\* byte; _write_new_json closes the file and leaves it.  Checkpoints are written by a resume
\* that starts and by observe_deadline before each request, reports at the end of each
\* reconciliation.
Tear(p) ==
  /\ \E kind \in JsonFiles :
       /\ \/ kind = "deadline" /\ pc[p] = "down" /\ ~incomplete
          \/ kind = "deadline" /\ pc[p] = "idle"
          \/ kind = "report" /\ \E e \in Executions : At(p, "close", e) /\ Closed(e)
       /\ kind \notin torn /\ torn' = torn \cup {kind}
  /\ crashes < MaxCrashes /\ crashes' = crashes + 1
  /\ Exit(p)
  /\ UNCHANGED <<db, proc, ran, doubled>>

\* A death between the link and the unlink of the manifest of a row that is STARTING.
DieStoring(p) ==
  /\ \E e \in Executions :
       /\ At(p, "interrupt", e) /\ job[p].seen = "STARTING" /\ exec[e] = "STARTING"
       /\ e \notin doubled /\ doubled' = doubled \cup {e}
  /\ crashes < MaxCrashes /\ crashes' = crashes + 1
  /\ Exit(p)
  /\ UNCHANGED <<db, proc, ran, torn>>

\* A launcher whose release pipe was closed unwritten exits without candidate code.
LauncherExits(e) ==
  /\ proc[e] = "blocked"
  /\ \A p \in Controllers, phase \in {"commit_exec", "commit_launch", "release"} : ~At(p, phase, e)
  /\ proc' = [proc EXCEPT ![e] = "gone"]
  /\ UNCHANGED <<db, ran, crashes, damage, pc, job>>

\* Candidate code ends by itself, supervised or not.
CandidateExits(e) ==
  /\ proc[e] = "candidate"
  /\ proc' = [proc EXCEPT ![e] = "gone"]
  /\ UNCHANGED <<db, ran, crashes, damage, pc, job>>

\* The steps a live controller takes once it has a request or has started to resume.
Step(p, e) ==
  \/ Reserve(p, e) \/ Create(p, e) \/ Spawn(p, e) \/ CommitExec(p, e) \/ CommitLaunch(p, e)
  \/ NotReleased(p, e) \/ Release(p, e) \/ Supervise(p, e) \/ Record(p, e) \/ Settle(p, e)
  \/ Pick(p, e) \/ Inspect(p, e) \/ Interrupt(p, e) \/ Close(p, e) \/ Report(p, e)
  \/ Refuse(p, e)

Advance(p) == NextLoop(p) \/ Resumed(p) \/ \E e \in Executions : Step(p, e)

Request(p) == \E e \in Executions : Prepare(p, e) \/ Rehydrate(p, e)

End(p) == Crash(p) \/ Tear(p) \/ DieStoring(p) \/ Quit(p) \/ \E e \in Executions : Abandon(p, e)

Next ==
  \/ \E p \in Controllers : Start(p) \/ Request(p) \/ Advance(p) \/ End(p)
  \/ \E e \in Executions : LauncherExits(e) \/ CandidateExits(e)

Spec == Init /\ [][Next]_vars

\* A live controller keeps taking steps, a command ends, if only at its deadline, and the
\* operator reruns one that is down.
Fairness ==
  \A p \in Controllers : WF_vars(Advance(p)) /\ WF_vars(Quit(p)) /\ WF_vars(Start(p))

FairSpec == Spec /\ Fairness

-----------------------------------------------------------------------------
(* Properties.                                                             *)

DatabaseOK ==
  /\ launch \in [Trainings -> LaunchStates]
  /\ exec \in [Executions -> ExecStates]
  /\ claimed \subseteq Executions
  /\ unverified \subseteq Executions
  /\ incomplete \in BOOLEAN

JobOK(p) ==
  /\ pc[p] \notin {"down", "idle", "resume"} => job[p].exec \in Executions
  /\ pc[p] \in {"inspect", "interrupt"} => job[p].seen \in Unfinished
  /\ job[p].loop = "unfinished" => \A t \in job[p].todo : t[2] \in Unfinished

\* Type invariant; a controller at a step of an execution has that execution in hand, and
\* only interrupts what it read as unfinished.
TypeOK ==
  /\ DatabaseOK
  /\ proc \in [Executions -> ProcStates]
  /\ ran \subseteq Executions
  /\ crashes \in Nat
  /\ torn \subseteq JsonFiles /\ doubled \subseteq Executions
  /\ pc \in [Controllers -> Phases]
  /\ job \in [Controllers -> Job]
  /\ \A p \in Controllers : JobOK(p)

\* Candidate code that was ever released stays charged to the launch limit, whatever
\* died when: its launch is started, uncertain or finished, never given back.
RanStaysCharged ==
  \A e \in ran \cap Trainings : launch[e] \in {"STARTED", "START_UNCERTAIN", "FINISHED"}

\* A candidate outlives its terminal record only if that record admits that the cleanup
\* was not proven.
NoStrayCandidate ==
  \A e \in Executions :
    proc[e] = "candidate" /\ exec[e] \in Terminal => e \in unverified

\* The charges never exceed the campaign limit, however many controllers reserve at once.
WithinLimit == Cardinality(Charged) <= MaxLaunches

Clean ==
  /\ \A e \in Executions : exec[e] \notin Unfinished
  /\ \A e \in Trainings : launch[e] \notin Open

\* With one controller, research resumes only on a reconciled journal: no unfinished
\* execution and no open launch is left from before, whatever was killed or abandoned when.
ResumesClean ==
  [][\A p \in Controllers : pc[p] = "resume" /\ pc'[p] = "idle" => Clean']_vars

SpawnsOnce ==
  \A e \in Executions :
    /\ proc[e] # "none" => proc'[e] \notin {"none", "blocked"} \/ proc'[e] = proc[e]
    /\ proc[e] = "gone" => proc'[e] = "gone"

\* An execution id gets at most one operating-system process, ever: two controllers that
\* prepare the same id, or a retry after a restart, never run its candidate a second time.
OneProcess == [][SpawnsOnce]_vars

\* A death in the middle of one of the controller's own files has left it torn or with two
\* names; every later resume finds it.
Jammed == torn # {} \/ doubled # {}

\* "resume ... reconciles unfinished subprocesses" (README.md): with an operator who reruns
\* a controller that is down, no execution stays unfinished, unless the files are jammed.
ReconcilesUnfinished ==
  \A e \in Executions : exec[e] \in Unfinished ~> exec[e] \in Terminal \/ incomplete \/ Jammed

\* Once controllers stop dying, no execution stays unfinished and no launch stays open: every
\* charge is eventually settled, wherever the deaths came, the middle of a reconciliation
\* included.  Only one in the middle of a file of the controller is not made up for.
Reconciled ==
  /\ ReconcilesUnfinished
  /\ \A e \in Trainings : launch[e] \in Open ~> launch[e] \notin Open \/ incomplete \/ Jammed

-----------------------------------------------------------------------------
(* The journal implements the budget of LaunchBudget.                      *)

Budget == INSTANCE LaunchBudget WITH
  Launches <- Trainings,
  charged <- Charged,
  refunded <- {e \in Trainings : launch[e] = "NOT_STARTED"},
  ran <- ran \cap Trainings

\* Every transaction and process step is a step of the abstract launch budget or nothing.
ImplementsLaunchBudget == Budget!Spec

=============================================================================
