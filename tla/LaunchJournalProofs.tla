------------------------- MODULE LaunchJournalProofs -------------------------
(***************************************************************************)
(* Proofs about LaunchJournal, for any number of controllers, executions,  *)
(* launches and crashes.  TypeOK first; then the inductive invariant       *)
(* Custody (who may still act on an execution, and what its process can    *)
(* be meanwhile), from which the safety properties follow; then the step   *)
(* refinement to LaunchBudget.                                             *)
(***************************************************************************)
EXTENDS LaunchJournal, FiniteSetTheorems, TLAPS

-----------------------------------------------------------------------------
(* Types.                                                                  *)

\* Leaving or finishing an execution keeps the control state well typed.
LEMMA IdleTyped ==
  ASSUME TypeOK, NEW p \in Controllers, NEW next \in {"down", "idle"},
         pc' = [pc EXCEPT ![p] = next], job' = [job EXCEPT ![p] = NoJob]
  PROVE  /\ pc' \in [Controllers -> Phases]
         /\ job' \in [Controllers -> Job]
         /\ \A q \in Controllers : JobOK(q)'
<1>1. NoJob \in Job
  BY DEF NoJob, Job, Loops, ExecStates
<1> QED
  BY <1>1 DEF TypeOK, JobOK, NoJob, Phases

\* A step of the execution in hand keeps the control state well typed.
LEMMA StepTyped ==
  ASSUME TypeOK, NEW p \in Controllers, NEW e \in Executions,
         NEW next \in RunPhases \cup {"close"},
         job[p].exec = e, pc' = [pc EXCEPT ![p] = next], job' \in [Controllers -> Job],
         job'[p].exec = e, job'[p].loop = job[p].loop, job'[p].todo = job[p].todo,
         \A q \in Controllers \ {p} : job'[q] = job[q]
  PROVE  /\ pc' \in [Controllers -> Phases]
         /\ \A q \in Controllers : JobOK(q)'
  BY DEF TypeOK, JobOK, Phases, RunPhases, ResumePhases

LEMMA JobResult ==
  ASSUME NEW j \in Job, NEW ok \in BOOLEAN, NEW verified \in BOOLEAN
  PROVE  [j EXCEPT !.ok = ok, !.verified = verified] \in Job
<1> DEFINE k == [j EXCEPT !.ok = ok, !.verified = verified]
<1>1. k.ok \in BOOLEAN /\ k.verified \in BOOLEAN
  BY Zenon DEF Job
<1> QED
  BY <1>1 DEF Job

LEMMA RequestTyped ==
  ASSUME TypeOK, NEW p \in Controllers, Request(p)
  PROVE  TypeOK'
<1> SUFFICES ASSUME NEW e \in Executions, Prepare(p, e) \/ Rehydrate(p, e)
             PROVE  TypeOK'
  BY DEF Request
<1>1. CASE Prepare(p, e)
  <2>1. job' \in [Controllers -> Job]
    BY <1>1 DEF Prepare, TypeOK, Job
  <2>2. /\ job'[p].exec = e /\ job'[p].loop = job[p].loop /\ job'[p].todo = job[p].todo
        /\ \A q \in Controllers \ {p} : job'[q] = job[q]
    BY <1>1 DEF Prepare, TypeOK, Job
  <2>3. PICK next \in {"reserve", "create"} : pc' = [pc EXCEPT ![p] = next]
    BY <1>1 DEF Prepare, Goto
  <2> QED
    BY <1>1, <2>1, <2>2, <2>3 DEF Prepare, TypeOK, DatabaseOK, damage, db, Phases, RunPhases, JobOK
<1>2. CASE Rehydrate(p, e)
  BY <1>2 DEF Rehydrate, TypeOK, DatabaseOK, damage, MoveLaunch, Settlement, LaunchStates, JobOK
<1> QED
  BY <1>1, <1>2

\* The steps of a run: every one keeps the execution in hand or finishes it.
LEMMA RunTyped ==
  ASSUME TypeOK, NEW p \in Controllers, NEW e \in Executions,
         \/ Reserve(p, e) \/ Create(p, e) \/ Spawn(p, e) \/ CommitExec(p, e)
         \/ CommitLaunch(p, e) \/ NotReleased(p, e) \/ Release(p, e) \/ Supervise(p, e)
         \/ Record(p, e) \/ Settle(p, e)
  PROVE  TypeOK'
<1>1. CASE Reserve(p, e)
  <2>1. launch' \in [Trainings -> LaunchStates]
    BY <1>1 DEF Reserve, TypeOK, DatabaseOK, damage, LaunchStates
  <2>2. pc' = [pc EXCEPT ![p] = "create"] /\ job' = job /\ job[p].exec = e
    BY <1>1 DEF Reserve, Goto, At
  <2> QED
    BY <1>1, <2>1, <2>2 DEF Reserve, TypeOK, DatabaseOK, damage, Phases, RunPhases, JobOK
<1>2. CASE Create(p, e)
  BY <1>2 DEF Create, Goto, At, TypeOK, DatabaseOK, damage, ExecStates, Unfinished, Phases, RunPhases, JobOK
<1>3. CASE Spawn(p, e)
  <2>1. proc' \in [Executions -> ProcStates]
    BY <1>3 DEF Spawn, TypeOK, ProcStates
  <2>2. PICK next \in {"commit_exec", "record"} : pc' = [pc EXCEPT ![p] = next]
    BY <1>3 DEF Spawn, Goto
  <2> QED
    BY <1>3, <2>1, <2>2 DEF Spawn, At, TypeOK, DatabaseOK, damage, db, Phases, RunPhases, JobOK
<1>4. CASE CommitExec(p, e)
  <2>1. exec' \in [Executions -> ExecStates]
    BY <1>4 DEF CommitExec, MoveExec, TypeOK, DatabaseOK, damage, ExecStates, Unfinished
  <2>2. PICK next \in {"commit_launch", "release"} : pc' = [pc EXCEPT ![p] = next]
    BY <1>4 DEF CommitExec, Goto, AfterReceipt
  <2> QED
    BY <1>4, <2>1, <2>2 DEF CommitExec, At, TypeOK, DatabaseOK, damage, Phases, RunPhases, JobOK
<1>5. CASE CommitLaunch(p, e)
  <2>1. launch' \in [Trainings -> LaunchStates]
    BY <1>5 DEF CommitLaunch, MoveLaunch, TypeOK, DatabaseOK, damage, LaunchStates
  <2> QED
    BY <1>5, <2>1 DEF CommitLaunch, Goto, At, TypeOK, DatabaseOK, damage, Phases, RunPhases, JobOK
<1>6. CASE NotReleased(p, e)
  <2>1. job[p].exec = e
    BY <1>6 DEF NotReleased, At
  <2> QED
    BY <1>6, <2>1 DEF NotReleased, Goto, TypeOK, DatabaseOK, damage, db, ProcStates, Phases, RunPhases, JobOK
<1>7. CASE Release(p, e)
  <2>1. job' \in [Controllers -> Job]
    <3>1. PICK noted \in BOOLEAN : job' = [job EXCEPT ![p].released = noted]
      BY <1>7 DEF Release
    <3>2. job[p] \in Job
      BY DEF TypeOK
    <3>3. [job[p] EXCEPT !.released = noted] \in Job
      BY <3>2 DEF Job
    <3> QED
      BY <3>1, <3>3 DEF TypeOK
  <2>2. /\ job'[p].exec = e /\ job'[p].loop = job[p].loop /\ job'[p].todo = job[p].todo
        /\ \A q \in Controllers \ {p} : job'[q] = job[q]
    BY <1>7 DEF Release, At, TypeOK, Job
  <2>3. proc' \in [Executions -> ProcStates]
    BY <1>7 DEF Release, TypeOK, ProcStates
  <2> QED
    BY <1>7, <2>1, <2>2, <2>3 DEF Release, Goto, TypeOK, DatabaseOK, damage, db, Phases, RunPhases, JobOK
<1>8. CASE Supervise(p, e)
  <2>1. PICK ok, verified \in BOOLEAN :
          /\ Terminate(e, verified)
          /\ job' = [job EXCEPT ![p].ok = ok, ![p].verified = verified]
    BY <1>8 DEF Supervise
  <2> DEFINE j == [job[p] EXCEPT !.ok = ok, !.verified = verified]
  <2>2. job' = [job EXCEPT ![p] = j]
    BY <2>1, Zenon
  <2>3. job[p] \in Job
    BY DEF TypeOK
  <2>5. j \in Job
    BY <2>3, JobResult, Zenon
  <2>6. j.exec = job[p].exec /\ j.loop = job[p].loop /\ j.todo = job[p].todo
    BY <2>3 DEF Job
  <2> HIDE DEF j
  <2>7. job[p].exec = e
    BY <1>8 DEF Supervise, At
  <2>4. proc' \in [Executions -> ProcStates]
    BY <2>1 DEF Terminate, TypeOK, ProcStates
  <2> QED
    BY <1>8, <2>2, <2>5, <2>6, <2>7, <2>4 DEF Supervise, Goto, TypeOK, DatabaseOK, damage, db, Phases, RunPhases, JobOK
<1>9. CASE Record(p, e)
  <2>1. exec' \in [Executions -> ExecStates]
    BY <1>9 DEF Record, TypeOK, DatabaseOK, damage, ExecStates, Terminal
  <2>2. claimed' \subseteq Executions /\ unverified' \subseteq Executions
    BY <1>9 DEF Record, TypeOK, DatabaseOK, damage
  <2>3. CASE e \in Trainings
    BY <1>9, <2>1, <2>2, <2>3
    DEF Record, Goto, At, TypeOK, DatabaseOK, damage, Phases, RunPhases, JobOK
  <2>4. CASE e \notin Trainings
    <3>1. pc' = [pc EXCEPT ![p] = "idle"] /\ job' = [job EXCEPT ![p] = NoJob]
      BY <1>9, <2>4 DEF Record, Done, Goto
    <3> QED
      BY <1>9, <2>1, <2>2, <3>1, IdleTyped DEF Record, TypeOK, DatabaseOK, damage
  <2> QED
    BY <2>3, <2>4
<1>10. CASE Settle(p, e)
  <2>1. pc' = [pc EXCEPT ![p] = "idle"] /\ job' = [job EXCEPT ![p] = NoJob]
    BY <1>10 DEF Settle, Done, Goto
  <2>2. launch' \in [Trainings -> LaunchStates]
    BY <1>10 DEF Settle, Settlement, MoveLaunch, TypeOK, DatabaseOK, damage, LaunchStates
  <2> QED
    BY <1>10, <2>1, <2>2, IdleTyped DEF Settle, TypeOK, DatabaseOK, damage
<1> QED
  BY <1>1, <1>2, <1>3, <1>4, <1>5, <1>6, <1>7, <1>8, <1>9, <1>10

\* What a reconciliation loop reads is a set of executions and their statuses, and the
\* first loop reads unfinished ones only.
LEMMA TodoTyped ==
  ASSUME NEW loop
  PROVE  /\ Todo(loop) \in SUBSET (Executions \X ExecStates)
         /\ loop = "unfinished" => \A t \in Todo(loop) : t[2] \in Unfinished
  BY DEF Todo, InLoop

LEMMA ResumeTyped ==
  ASSUME TypeOK, NEW p \in Controllers, Start(p) \/ NextLoop(p) \/ Resumed(p)
  PROVE  TypeOK'
<1>1. CASE Start(p)
  <2> DEFINE j == [NoJob EXCEPT !.todo = Todo("unfinished")]
  <2>1. j \in Job /\ j.todo = Todo("unfinished")
    BY TodoTyped DEF NoJob, Job, Loops, ExecStates
  <2>2. job' = [job EXCEPT ![p] = j] /\ pc' = [pc EXCEPT ![p] = "resume"]
    BY <1>1 DEF Start, Goto
  <2> HIDE DEF j
  <2>3. \A q \in Controllers : JobOK(q)'
    BY <2>1, <2>2, TodoTyped DEF JobOK, TypeOK
  <2> QED
    BY <1>1, <2>1, <2>2, <2>3 DEF Start, TypeOK, DatabaseOK, damage, db, Phases, ResumePhases
<1>2. CASE NextLoop(p)
  <2>1. PICK next \in {"split", "orphans"} :
          job' = [job EXCEPT ![p].loop = next, ![p].todo = Todo(next)]
    BY <1>2 DEF NextLoop
  <2> DEFINE j == [job[p] EXCEPT !.loop = next, !.todo = Todo(next)]
  <2>2. job' = [job EXCEPT ![p] = j]
    BY <2>1, Zenon
  <2>3. j \in Job /\ j.loop = next
    BY TodoTyped DEF TypeOK, Job, Loops
  <2> HIDE DEF j
  <2>4. \A q \in Controllers : JobOK(q)'
    <3> SUFFICES ASSUME NEW q \in Controllers PROVE JobOK(q)'
      OBVIOUS
    <3>1. pc' = pc /\ pc[p] = "resume"
      BY <1>2 DEF NextLoop
    <3>2. CASE q = p
      <4>1. job'[q] = j
        BY <2>2, <3>2 DEF TypeOK
      <4> QED
        BY <2>3, <3>1, <3>2, <4>1 DEF JobOK
    <3>3. CASE q # p
      BY <2>2, <3>1, <3>3 DEF JobOK, TypeOK
    <3> QED
      BY <3>2, <3>3
  <2> QED
    BY <1>2, <2>2, <2>3, <2>4 DEF NextLoop, TypeOK, DatabaseOK, damage, db
<1>3. CASE Resumed(p)
  <2>1. PICK next \in {"down", "idle"} :
          pc' = [pc EXCEPT ![p] = next] /\ job' = [job EXCEPT ![p] = NoJob]
    BY <1>3 DEF Resumed, Done, Exit, Goto
  <2>2. incomplete' \in BOOLEAN
    BY <1>3 DEF Resumed, TypeOK, DatabaseOK, damage
  <2> QED
    BY <1>3, <2>1, <2>2, IdleTyped DEF Resumed, TypeOK, DatabaseOK, damage
<1> QED
  BY <1>1, <1>2, <1>3

\* The steps of one reconciliation.
LEMMA ReconcileTyped ==
  ASSUME TypeOK, NEW p \in Controllers, NEW e \in Executions,
         Pick(p, e) \/ Inspect(p, e) \/ Interrupt(p, e) \/ Close(p, e) \/ Report(p, e)
  PROVE  TypeOK'
<1>1. CASE Pick(p, e)
  <2>1. PICK s \in ExecStates :
          /\ <<e, s>> \in job[p].todo
          /\ job' = [job EXCEPT ![p].exec = e, ![p].seen = s, ![p].verified = TRUE,
                                ![p].todo = @ \ {<<e, s>>}]
          /\ Goto(p, CASE job[p].loop # "unfinished" -> "close"
                       [] job[p].loop = "unfinished" /\ s = "RUNNING" -> "inspect"
                       [] OTHER -> "interrupt")
    BY <1>1 DEF Pick
  <2> DEFINE j == [job[p] EXCEPT !.exec = e, !.seen = s, !.verified = TRUE,
                                 !.todo = @ \ {<<e, s>>}]
  <2>2. job' = [job EXCEPT ![p] = j]
    BY <2>1, Zenon
  <2>3. job[p] \in Job
    BY DEF TypeOK
  <2>4. /\ j \in Job /\ j.exec = e /\ j.seen = s /\ j.loop = job[p].loop
        /\ j.todo = job[p].todo \ {<<e, s>>}
    BY <2>3 DEF Job
  <2> HIDE DEF j
  <2>5. PICK next \in {"close", "inspect", "interrupt"} :
          /\ pc' = [pc EXCEPT ![p] = next]
          /\ next # "close" => job[p].loop = "unfinished"
    BY <2>1 DEF Goto
  <2>6. next # "close" => s \in Unfinished
    BY <2>1, <2>5 DEF TypeOK, JobOK
  <2>7. \A q \in Controllers : JobOK(q)'
    BY <2>2, <2>4, <2>5, <2>6 DEF JobOK, TypeOK
  <2> QED
    BY <1>1, <2>2, <2>4, <2>5, <2>7 DEF Pick, TypeOK, DatabaseOK, damage, db, Phases, ResumePhases
<1>2. CASE Inspect(p, e)
  <2>1. PICK verified \in BOOLEAN :
          /\ Terminate(e, verified)
          /\ job' = [job EXCEPT ![p].verified = verified, ![p].unsafe = @ \/ ~verified]
    BY <1>2 DEF Inspect
  <2> DEFINE j == [job[p] EXCEPT !.verified = verified, !.unsafe = @ \/ ~verified]
  <2>2. job' = [job EXCEPT ![p] = j]
    BY <2>1, Zenon
  <2>3. job[p] \in Job
    BY DEF TypeOK
  <2>4. j.verified \in BOOLEAN /\ j.unsafe \in BOOLEAN
    BY <2>3, Zenon DEF Job
  <2>5. j \in Job /\ j.exec = job[p].exec /\ j.seen = job[p].seen
        /\ j.loop = job[p].loop /\ j.todo = job[p].todo
    BY <2>3, <2>4 DEF Job
  <2> HIDE DEF j
  <2>6. proc' \in [Executions -> ProcStates]
    BY <2>1 DEF Terminate, TypeOK, ProcStates
  <2>7. pc[p] = "inspect" /\ pc' = [pc EXCEPT ![p] = "interrupt"]
    BY <1>2 DEF Inspect, At, Goto
  <2>8. \A q \in Controllers : JobOK(q)'
    BY <2>2, <2>5, <2>7 DEF JobOK, TypeOK
  <2> QED
    BY <1>2, <2>2, <2>5, <2>6, <2>7, <2>8
    DEF Inspect, TypeOK, DatabaseOK, damage, db, Phases, ResumePhases
<1>3. CASE Interrupt(p, e)
  <2>1. exec' \in [Executions -> ExecStates] /\ unverified' \subseteq Executions
    BY <1>3 DEF Interrupt, MoveExec, TypeOK, DatabaseOK, damage, ExecStates, Terminal
  <2>2. pc' = [pc EXCEPT ![p] = "close"] /\ job' = job /\ job[p].exec = e
    BY <1>3 DEF Interrupt, Goto, At
  <2>3. \A q \in Controllers : JobOK(q)'
    BY <2>2 DEF JobOK, TypeOK
  <2> QED
    BY <1>3, <2>1, <2>2, <2>3 DEF Interrupt, TypeOK, DatabaseOK, damage, Phases, ResumePhases
<1>4. CASE Close(p, e)
  <2>1. launch' \in [Trainings -> LaunchStates]
    BY <1>4 DEF Close, MoveLaunch, TypeOK, DatabaseOK, damage, LaunchStates
  <2>2. \A q \in Controllers : JobOK(q)'
    BY <1>4 DEF Close, JobOK, TypeOK
  <2> QED
    BY <1>4, <2>1, <2>2 DEF Close, TypeOK, DatabaseOK, damage
<1>5. CASE Report(p, e)
  <2>1. pc' = [pc EXCEPT ![p] = "resume"] /\ job' = job
    BY <1>5 DEF Report, Goto
  <2>2. \A q \in Controllers : JobOK(q)'
    BY <2>1 DEF JobOK, TypeOK
  <2> QED
    BY <1>5, <2>1, <2>2 DEF Report, TypeOK, DatabaseOK, damage, db, Phases, ResumePhases
<1> QED
  BY <1>1, <1>2, <1>3, <1>4, <1>5

LEMMA EndTyped ==
  ASSUME TypeOK, NEW p \in Controllers, End(p) \/ \E e \in Executions : Refuse(p, e)
  PROVE  TypeOK'
<1>1. PICK next \in {"down", "idle"} :
        pc' = [pc EXCEPT ![p] = next] /\ job' = [job EXCEPT ![p] = NoJob]
  BY DEF End, Crash, Tear, DieStoring, Quit, Abandon, Refuse, Done, Exit, Goto
<1>2. crashes' \in Nat
  BY DEF End, Crash, Tear, DieStoring, Quit, Abandon, Refuse, TypeOK
<1>3. torn' \subseteq JsonFiles /\ doubled' \subseteq Executions
  BY DEF End, Crash, Tear, DieStoring, Quit, Abandon, Refuse, TypeOK, damage
<1> QED
  BY <1>1, <1>2, <1>3, IdleTyped DEF End, Crash, Tear, DieStoring, Quit, Abandon, Refuse, TypeOK, DatabaseOK, damage, db

\* A first command finds nothing on the run directory.
LEMMA InitTyped == Init => TypeOK
<1> SUFFICES ASSUME Init PROVE TypeOK
  OBVIOUS
<1>1. NoJob \in Job /\ NoJob.todo = {}
  BY DEF NoJob, Job, Loops, ExecStates
<1>2. ASSUME NEW p \in Controllers PROVE JobOK(p)
  <2>1. pc[p] = "down" /\ job[p] = NoJob
    BY DEF Init
  <2> QED
    BY <2>1, <1>1 DEF JobOK
<1>3. incomplete \in BOOLEAN
  BY Zenon DEF Init
<1>4. launch \in [Trainings -> LaunchStates] /\ exec \in [Executions -> ExecStates]
  BY DEF Init, LaunchStates, ExecStates
<1>5. proc \in [Executions -> ProcStates] /\ pc \in [Controllers -> Phases]
  BY DEF Init, ProcStates, Phases
<1>6. claimed \subseteq Executions /\ unverified \subseteq Executions /\ ran \subseteq Executions
  BY DEF Init
<1>7. /\ crashes \in Nat /\ job \in [Controllers -> Job]
      /\ torn \subseteq JsonFiles /\ doubled \subseteq Executions
  BY <1>1 DEF Init
<1> QED
  BY <1>2, <1>3, <1>4, <1>5, <1>6, <1>7 DEF TypeOK, DatabaseOK, damage

\* Every step keeps the types.
LEMMA TypeStep == TypeOK /\ [Next]_vars => TypeOK'
<1> SUFFICES ASSUME TypeOK, [Next]_vars PROVE TypeOK'
  OBVIOUS
<1>1. ASSUME NEW p \in Controllers, Start(p) \/ Request(p) \/ Advance(p) \/ End(p)
      PROVE  TypeOK'
  BY <1>1, RequestTyped, RunTyped, ResumeTyped, ReconcileTyped, EndTyped DEF Advance, Step
<1>2. ASSUME NEW e \in Executions, LauncherExits(e) \/ CandidateExits(e)
      PROVE  TypeOK'
  BY <1>2 DEF LauncherExits, CandidateExits, TypeOK, DatabaseOK, damage, db, ProcStates, JobOK
<1>3. CASE UNCHANGED vars
  BY <1>3 DEF vars, TypeOK, DatabaseOK, damage, JobOK
<1> QED
  BY <1>1, <1>2, <1>3 DEF Next

\* TypeOK is an invariant: every controller, however it races, dies and resumes, holds
\* the execution its step is about.
THEOREM TypeCorrect == Spec => []TypeOK
BY InitTyped, TypeStep, PTL DEF Spec

-----------------------------------------------------------------------------
(* Custody: who may act on an execution, and what its process can be then. *)

RowPhases == {"spawn", "commit_exec", "commit_launch", "release", "supervise", "record", "settle"}

\* The controller created the execution's row and still runs it.
Holds(p, e) == pc[p] \in RowPhases /\ job[p].exec = e

Secured == {"STARTED", "START_UNCERTAIN", "FINISHED"}

\* A row has one maker; without a row there is no process.
OneHolder ==
  /\ \A p, q \in Controllers : \A e \in Executions : Holds(p, e) /\ Holds(q, e) => p = q
  /\ \A e \in Executions : exec[e] = "NONE" => proc[e] = "none" /\ \A p \in Controllers : ~Holds(p, e)

\* The process at each step of its controller.
ProcessAt(p, e) ==
  /\ At(p, "spawn", e) => proc[e] = "none"
  /\ At(p, "commit_exec", e) => proc[e] \in {"blocked", "gone"}
  /\ At(p, "commit_launch", e) \/ At(p, "release", e) =>
       /\ proc[e] \in {"blocked", "gone"}
       /\ exec[e] \notin {"NONE", "STARTING"}
       /\ proc[e] = "blocked" /\ exec[e] \in Terminal => e \in unverified
  /\ At(p, "supervise", e) => proc[e] \in {"candidate", "gone"}
  /\ At(p, "record", e) /\ job[p].verified => proc[e] \in {"none", "gone"}
  /\ At(p, "release", e) /\ e \in Trainings => launch[e] \in Secured

\* What a resuming controller has read of an execution it is about to interrupt.
ReadAt(p, e) ==
  /\ <<e, "RUNNING">> \in job[p].todo => proc[e] # "none"
  /\ At(p, "inspect", e) => proc[e] # "none" /\ job[p].seen = "RUNNING"
  /\ At(p, "interrupt", e) /\ job[p].seen = "RUNNING" /\ job[p].verified => proc[e] = "gone"

\* The process at each status of its row, and the launch of candidate code that ran.
RowOK(e) ==
  /\ exec[e] \in {"NONE", "STARTING"} => proc[e] # "candidate"
  /\ exec[e] = "RUNNING" => proc[e] # "none"
  /\ proc[e] = "candidate" /\ exec[e] \in Terminal => e \in unverified
  /\ e \in ran => proc[e] \in {"candidate", "gone"}
  /\ e \in ran \cap Trainings => launch[e] \in Secured

Custody ==
  /\ OneHolder
  /\ \A p \in Controllers, e \in Executions : ProcessAt(p, e) /\ ReadAt(p, e)
  /\ \A e \in Executions : RowOK(e)

\* The other controllers keep their control state.
Frame(p) == \A q \in Controllers \ {p} : pc'[q] = pc[q] /\ job'[q] = job[q]

\* A controller that holds no row moves on, with rows and processes as they were and
\* secured launches still secured: custody stays as it was.
LEMMA CalmStep ==
  ASSUME Custody, NEW p \in Controllers, Frame(p),
         UNCHANGED <<exec, unverified, proc, ran>>,
         \A t \in Trainings : launch[t] \in Secured => launch'[t] \in Secured,
         pc'[p] \notin RowPhases, \A f \in Executions : ReadAt(p, f)'
  PROVE  Custody'
<1>1. OneHolder'
  BY DEF Custody, OneHolder, Holds, Frame
<1>2. ASSUME NEW q \in Controllers, NEW f \in Executions
      PROVE  ProcessAt(q, f)'
  <2>1. CASE q = p
    BY <2>1 DEF ProcessAt, At, RowPhases
  <2>2. CASE q # p
    <3>1. ProcessAt(q, f)
      BY DEF Custody
    <3> QED
      BY <2>2, <3>1 DEF ProcessAt, At, Frame
  <2> QED
    BY <2>1, <2>2
<1>3. ASSUME NEW q \in Controllers, NEW f \in Executions
      PROVE  ReadAt(q, f)'
  <2>1. CASE q # p
    <3>1. ReadAt(q, f)
      BY DEF Custody
    <3> QED
      BY <2>1, <3>1 DEF ReadAt, At, Frame
  <2> QED
    BY <2>1
<1>4. ASSUME NEW f \in Executions PROVE RowOK(f)'
  <2>1. RowOK(f)
    BY DEF Custody
  <2> QED
    BY <2>1 DEF RowOK
<1> QED
  BY <1>1, <1>2, <1>3, <1>4 DEF Custody

\* The holder of a row steps: nobody else is at a row step of that execution, and nothing
\* of any other execution changes.
LEMMA HolderStep ==
  ASSUME Custody, NEW p \in Controllers, NEW e \in Executions, Frame(p), Holds(p, e),
         pc'[p] \in RowPhases => job'[p].exec = e,
         pc'[p] \in RowPhases \cup {"idle"},
         job'[p].todo \subseteq job[p].todo,
         \A f \in Executions \ {e} :
           /\ proc'[f] = proc[f] /\ exec'[f] = exec[f]
           /\ f \in Trainings => launch'[f] = launch[f]
           /\ f \in unverified' <=> f \in unverified
           /\ f \in ran' <=> f \in ran,
         exec'[e] # "NONE",
         proc[e] # "none" => proc'[e] # "none",
         proc[e] = "gone" => proc'[e] = "gone",
         ProcessAt(p, e)', RowOK(e)'
  PROVE  Custody'
<1>1. OneHolder'
  <2>1. ASSUME NEW q \in Controllers, NEW f \in Executions, Holds(q, f)'
        PROVE  Holds(q, f)
    BY <2>1 DEF Holds, Frame
  <2> QED
    BY <2>1 DEF Custody, OneHolder
<1>2. ASSUME NEW q \in Controllers, NEW f \in Executions
      PROVE  ProcessAt(q, f)'
  <2>0. ProcessAt(q, f)
    BY DEF Custody
  <2>1. CASE q = p /\ f # e
    BY <2>1 DEF ProcessAt, At, RowPhases
  <2>2. CASE q # p /\ f # e
    BY <2>0, <2>2 DEF ProcessAt, At, Frame
  <2>3. CASE q # p /\ f = e
    <3>1. ~Holds(q, f)
      BY <2>3 DEF Custody, OneHolder
    <3> QED
      BY <2>3, <3>1 DEF ProcessAt, At, Frame, Holds, RowPhases
  <2> QED
    BY <2>1, <2>2, <2>3
<1>3. ASSUME NEW q \in Controllers, NEW f \in Executions
      PROVE  ReadAt(q, f)'
  <2>1. ReadAt(q, f)
    BY DEF Custody
  <2>2. proc[f] # "none" => proc'[f] # "none"
    OBVIOUS
  <2>3. proc[f] = "gone" => proc'[f] = "gone"
    OBVIOUS
  <2>4. CASE q = p
    BY <2>1, <2>2, <2>4 DEF ReadAt, At, RowPhases
  <2>5. CASE q # p
    BY <2>1, <2>2, <2>3, <2>5 DEF ReadAt, At, Frame
  <2> QED
    BY <2>4, <2>5
<1>4. ASSUME NEW f \in Executions PROVE RowOK(f)'
  <2>1. RowOK(f)
    BY DEF Custody
  <2> QED
    BY <2>1 DEF RowOK
<1> QED
  BY <1>1, <1>2, <1>3, <1>4 DEF Custody

\* A secured launch stays secured: only a RESERVED one can be given back.
LEMMA SecuredStays ==
  ASSUME TypeOK, NEW e \in Trainings, NEW to, MoveLaunch(e, to)
  PROVE  \A t \in Trainings : launch[t] \in Secured => launch'[t] \in Secured
  BY DEF TypeOK, DatabaseOK, damage, MoveLaunch, MayFollow, Secured

\* What resume reads as RUNNING has a process.
LEMMA ReadRunning ==
  ASSUME Custody, NEW loop, NEW f \in Executions, <<f, "RUNNING">> \in Todo(loop)
  PROVE  proc[f] # "none"
  BY DEF Todo, Custody, RowOK

\* Requests, and the bookkeeping, refusals and ends of a controller.
LEMMA CalmActions ==
  ASSUME TypeOK, Custody, NEW p \in Controllers,
         \/ Start(p) \/ Request(p) \/ NextLoop(p) \/ Resumed(p) \/ End(p)
         \/ \E e \in Executions :
              \/ Reserve(p, e) \/ Settle(p, e) \/ Pick(p, e)
              \/ Close(p, e) \/ Report(p, e) \/ Refuse(p, e)
  PROVE  Custody'
<1>1. Frame(p)
  BY DEF Start, Request, NextLoop, Resumed, End, Crash, Tear, DieStoring, Quit, Abandon,
         Reserve, Settle, Pick, Close, Report, Refuse,
         Prepare, Rehydrate, Done, Exit, Goto, Frame, TypeOK
<1>2. UNCHANGED <<exec, unverified, proc, ran>>
  BY DEF Start, Request, NextLoop, Resumed, End, Crash, Tear, DieStoring, Quit, Abandon,
         Reserve, Settle, Pick, Close, Report, Refuse,
         Prepare, Rehydrate, db
<1>3. \A t \in Trainings : launch[t] \in Secured => launch'[t] \in Secured
  <2>1. \/ UNCHANGED launch
        \/ \E e \in Trainings : \E to \in LaunchStates : MoveLaunch(e, to)
        \/ \E e \in Trainings :
             launch[e] = "NONE" /\ launch' = [launch EXCEPT ![e] = "RESERVED"]
    <3>1. CASE \E e \in Executions : Reserve(p, e)
      BY <3>1 DEF Reserve, MayReserve, TypeOK, DatabaseOK, damage
    <3>2. CASE \E e \in Executions : Settle(p, e)
      BY <3>2 DEF Settle, Settlement, LaunchStates, MoveLaunch, MayFollow, TypeOK, DatabaseOK, damage
    <3>3. CASE \E e \in Executions : Close(p, e)
      BY <3>3 DEF Close, LaunchStates
    <3>4. CASE Request(p)
      BY <3>4 DEF Request, Prepare, Rehydrate, db, Settlement, LaunchStates
    <3>5. CASE \/ Start(p) \/ NextLoop(p) \/ Resumed(p) \/ End(p)
               \/ \E e \in Executions : Pick(p, e) \/ Report(p, e) \/ Refuse(p, e)
      BY <3>5 DEF Start, NextLoop, Resumed, End, Crash, Tear, DieStoring, Quit, Abandon, Pick,
                     Report, Refuse, db
    <3> QED
      BY <3>1, <3>2, <3>3, <3>4, <3>5
  <2> QED
    BY <2>1, SecuredStays DEF TypeOK, DatabaseOK, damage, Secured
<1>4. NoJob.todo = {} /\ NoJob.loop = "unfinished"
  BY DEF NoJob
<1>5. \A f \in Executions : ReadAt(p, f)
  BY DEF Custody
<1>6. pc'[p] \notin RowPhases /\ \A f \in Executions : ReadAt(p, f)'
  <2>1. CASE pc'[p] \in {"down", "idle"} /\ job'[p] = NoJob
    BY <2>1, <1>4 DEF ReadAt, At, RowPhases
  <2>2. CASE pc'[p] \notin RowPhases \cup {"inspect", "interrupt"} /\ job'[p].todo \subseteq job[p].todo
    BY <2>2, <1>2, <1>5 DEF ReadAt, At
  <2>3. CASE pc'[p] = "resume" /\ \E loop \in Loops : job'[p].todo = Todo(loop)
    BY <2>3, <1>2, ReadRunning DEF ReadAt, At, RowPhases
  <2>4. ASSUME NEW e \in Executions, Pick(p, e)
        PROVE  pc'[p] \notin RowPhases /\ \A f \in Executions : ReadAt(p, f)'
    <3>1. PICK s \in ExecStates :
            /\ <<e, s>> \in job[p].todo
            /\ job' = [job EXCEPT ![p].exec = e, ![p].seen = s, ![p].verified = TRUE,
                                  ![p].todo = @ \ {<<e, s>>}]
            /\ Goto(p, CASE job[p].loop # "unfinished" -> "close"
                         [] job[p].loop = "unfinished" /\ s = "RUNNING" -> "inspect"
                         [] OTHER -> "interrupt")
      BY <2>4 DEF Pick
    <3> DEFINE j == [job[p] EXCEPT !.exec = e, !.seen = s, !.verified = TRUE,
                                   !.todo = @ \ {<<e, s>>}]
    <3>2. job' = [job EXCEPT ![p] = j]
      BY <3>1, Zenon
    <3>3. job[p] \in Job
      BY DEF TypeOK
    <3>4. j.exec = e /\ j.seen = s /\ j.todo = job[p].todo \ {<<e, s>>}
      BY <3>3 DEF Job
    <3> HIDE DEF j
    <3>5. job'[p] = j
      BY <3>2 DEF TypeOK
    <3>6. pc'[p] \in {"close", "inspect", "interrupt"}
      BY <3>1 DEF Goto, TypeOK
    <3>7. (pc'[p] = "inspect" => s = "RUNNING") /\ (pc'[p] = "interrupt" => s # "RUNNING")
      BY <3>1 DEF Goto, TypeOK
    <3>8. <<e, s>> \in job[p].todo
      BY <3>1
    <3> QED
      BY <1>2, <1>5, <3>4, <3>5, <3>6, <3>7, <3>8 DEF ReadAt, At, RowPhases
  <2>5. CASE \E e \in Executions : Pick(p, e)
    BY <2>4, <2>5
  <2>6. CASE Start(p)
    <3>1. job'[p] = [NoJob EXCEPT !.todo = Todo("unfinished")] /\ pc'[p] = "resume"
      BY <2>6 DEF Start, Goto, TypeOK
    <3>2. job'[p].todo = Todo("unfinished")
      BY <3>1 DEF NoJob
    <3> QED
      BY <2>3, <3>1, <3>2 DEF Loops
  <2>7. CASE NextLoop(p)
    <3>1. PICK next \in {"split", "orphans"} :
            job' = [job EXCEPT ![p].loop = next, ![p].todo = Todo(next)]
      BY <2>7 DEF NextLoop
    <3>2. job'[p] = [job[p] EXCEPT !.loop = next, !.todo = Todo(next)]
      BY <3>1, Zenon DEF TypeOK
    <3>3. job[p] \in Job
      BY DEF TypeOK
    <3>4. job'[p].todo = Todo(next)
      BY <3>2, <3>3 DEF Job
    <3> QED
      BY <2>3, <2>7, <3>4 DEF NextLoop, Loops
  <2>8. CASE Request(p)
    <3>1. job'[p].todo = job[p].todo
      BY <2>8 DEF Request, Prepare, Rehydrate, TypeOK, Job
    <3>2. pc'[p] \in {"reserve", "create", "idle"}
      BY <2>8 DEF Request, Prepare, Rehydrate, Goto, TypeOK
    <3> QED
      BY <2>2, <3>1, <3>2 DEF RowPhases
  <2>9. CASE \E e \in Executions : Reserve(p, e) \/ Close(p, e) \/ Report(p, e)
    BY <2>9, <2>2 DEF Reserve, Close, Report, Goto, At, TypeOK, RowPhases
  <2>10. CASE Resumed(p) \/ End(p) \/ \E e \in Executions : Settle(p, e) \/ Refuse(p, e)
    BY <2>10, <2>1 DEF Resumed, End, Crash, Tear, DieStoring, Quit, Abandon, Settle, Refuse, Done, Exit, Goto, TypeOK
  <2> QED
    BY <2>5, <2>6, <2>7, <2>8, <2>9, <2>10
<1> QED
  BY <1>1, <1>2, <1>3, <1>6, CalmStep

\* The holder's own steps.
LEMMA HolderActions ==
  ASSUME TypeOK, Custody, NEW p \in Controllers, NEW e \in Executions,
         \/ Spawn(p, e) \/ CommitExec(p, e) \/ CommitLaunch(p, e) \/ NotReleased(p, e)
         \/ Release(p, e) \/ Supervise(p, e) \/ Record(p, e)
  PROVE  Custody'
<1>1. Frame(p)
  BY DEF Spawn, CommitExec, CommitLaunch, NotReleased, Release, Supervise, Record, Done, Goto,
         Frame, TypeOK
<1>2. Holds(p, e) /\ job[p].exec = e
  BY DEF Spawn, CommitExec, CommitLaunch, NotReleased, Release, Supervise, Record, At, Holds,
         RowPhases
<1>3. exec[e] # "NONE" /\ ProcessAt(p, e) /\ RowOK(e)
  BY <1>2 DEF Custody, OneHolder
<1>4. CASE Spawn(p, e)
  <2>1. pc[p] = "spawn" /\ job' = job /\ proc[e] = "none"
    BY <1>4, <1>3 DEF Spawn, At, ProcessAt
  <2>2. UNCHANGED <<launch, exec, unverified, ran>>
    BY <1>4 DEF Spawn, db
  <2>3. \/ pc'[p] = "commit_exec" /\ proc' = [proc EXCEPT ![e] = "blocked"]
        \/ pc'[p] = "record" /\ UNCHANGED proc
    BY <1>4 DEF Spawn, Goto, TypeOK
  <2>4. ProcessAt(p, e)' /\ RowOK(e)'
    BY <1>3, <2>1, <2>2, <2>3 DEF ProcessAt, RowOK, At, TypeOK
  <2> QED
    BY <1>1, <1>2, <1>3, <2>1, <2>2, <2>3, <2>4, HolderStep DEF RowPhases, TypeOK
<1>5. CASE CommitExec(p, e)
  <2>1. pc[p] = "commit_exec" /\ job' = job /\ proc[e] \in {"blocked", "gone"}
    BY <1>5, <1>3 DEF CommitExec, At, ProcessAt
  <2>2. UNCHANGED <<launch, unverified, proc, ran>>
    BY <1>5 DEF CommitExec
  <2>3. exec[e] = "STARTING" /\ exec' = [exec EXCEPT ![e] = "RUNNING"]
    BY <1>5 DEF CommitExec, MoveExec
  <2>4. pc'[p] = AfterReceipt(e)
    BY <1>5 DEF CommitExec, Goto, TypeOK
  <2>5. ProcessAt(p, e)' /\ RowOK(e)'
    BY <1>3, <2>1, <2>2, <2>3, <2>4
    DEF ProcessAt, RowOK, At, TypeOK, DatabaseOK, damage, AfterReceipt, Terminal
  <2> QED
    BY <1>1, <1>2, <2>1, <2>2, <2>3, <2>4, <2>5, HolderStep
    DEF RowPhases, TypeOK, DatabaseOK, damage, AfterReceipt
<1>6. CASE CommitLaunch(p, e)
  <2>1. /\ pc[p] = "commit_launch" /\ job' = job /\ pc'[p] = "release"
        /\ UNCHANGED <<exec, unverified, proc, ran>>
    BY <1>6 DEF CommitLaunch, At, Goto, TypeOK
  <2>2. launch' = [launch EXCEPT ![e] = "STARTED"]
    BY <1>6 DEF CommitLaunch, MoveLaunch
  <2>3. ProcessAt(p, e)' /\ RowOK(e)'
    BY <1>3, <2>1, <2>2 DEF ProcessAt, RowOK, At, TypeOK, DatabaseOK, damage, Secured
  <2> QED
    BY <1>1, <1>2, <1>3, <2>1, <2>2, <2>3, HolderStep DEF RowPhases, TypeOK, DatabaseOK, damage
<1>7. CASE NotReleased(p, e)
  <2>1. pc[p] \in {"commit_exec", "commit_launch", "release"} /\ pc'[p] = "record" /\ job' = job
    BY <1>7 DEF NotReleased, At, Goto, TypeOK
  <2>2. proc' = [proc EXCEPT ![e] = "gone"] /\ UNCHANGED <<launch, exec, unverified, ran>>
    BY <1>7 DEF NotReleased, db
  <2>3. ProcessAt(p, e)' /\ RowOK(e)'
    BY <1>3, <2>1, <2>2 DEF ProcessAt, RowOK, At, TypeOK
  <2> QED
    BY <1>1, <1>2, <1>3, <2>1, <2>2, <2>3, HolderStep DEF RowPhases, TypeOK
<1>8. CASE Release(p, e)
  <2>1. pc[p] = "release" /\ pc'[p] = "supervise" /\ proc[e] = "blocked"
    BY <1>8 DEF Release, At, Goto, TypeOK
  <2>2. /\ proc' = [proc EXCEPT ![e] = "candidate"] /\ ran' = ran \cup {e}
        /\ UNCHANGED <<launch, exec, unverified>>
    BY <1>8 DEF Release, db
  <2>3. job'[p].exec = e /\ job'[p].todo = job[p].todo
    BY <1>8, <1>2 DEF Release, TypeOK, Job
  <2>4. At(p, "release", e)
    BY <2>1, <1>2 DEF At
  <2>5. ProcessAt(p, e)'
    BY <2>1, <2>2 DEF ProcessAt, At, TypeOK
  <2>6. RowOK(e)'
    BY <1>3, <2>1, <2>2, <2>4 DEF ProcessAt, RowOK, TypeOK, DatabaseOK, damage
  <2> QED
    BY <1>1, <1>2, <1>3, <2>1, <2>2, <2>3, <2>5, <2>6, HolderStep DEF RowPhases, TypeOK
<1>9. CASE Supervise(p, e)
  <2>1. PICK ok, verified \in BOOLEAN :
          /\ Terminate(e, verified)
          /\ job' = [job EXCEPT ![p].ok = ok, ![p].verified = verified]
    BY <1>9 DEF Supervise
  <2> DEFINE j == [job[p] EXCEPT !.ok = ok, !.verified = verified]
  <2>2. job' = [job EXCEPT ![p] = j]
    BY <2>1, Zenon
  <2>3. j.exec = job[p].exec /\ j.todo = job[p].todo
    BY DEF TypeOK, Job
  <2>4. j.verified = verified
    BY Zenon DEF TypeOK, Job
  <2> HIDE DEF j
  <2>5. job'[p] = j
    BY <2>2 DEF TypeOK
  <2>6. job'[p].exec = e /\ job'[p].todo = job[p].todo
    BY <2>3, <2>5, <1>2
  <2>7. job'[p].verified => verified
    BY <2>4, <2>5
  <2>8. pc[p] = "supervise" /\ pc'[p] = "record" /\ proc[e] \in {"candidate", "gone"}
    BY <1>9, <1>3 DEF Supervise, At, Goto, ProcessAt, TypeOK
  <2>9. UNCHANGED <<launch, exec, unverified, ran>>
    BY <1>9 DEF Supervise, db
  <2>10. /\ proc' = [proc EXCEPT ![e] = "gone"] \/ UNCHANGED proc
         /\ verified => proc'[e] = "gone"
    BY <2>1, <2>8 DEF Terminate, TypeOK
  <2>11. ProcessAt(p, e)' /\ RowOK(e)'
    BY <1>3, <2>7, <2>8, <2>9, <2>10 DEF ProcessAt, RowOK, At, TypeOK
  <2> QED
    BY <1>1, <1>2, <1>3, <2>6, <2>8, <2>9, <2>10, <2>11, HolderStep DEF RowPhases, TypeOK
<1>10. CASE Record(p, e)
  <2>1. pc[p] = "record" /\ UNCHANGED <<launch, proc, ran>> /\ exec[e] \in Unfinished
    BY <1>10 DEF Record, At
  <2>2. \/ pc'[p] = "settle" /\ job' = job
        \/ pc'[p] = "idle" /\ job'[p] = NoJob
    BY <1>10 DEF Record, Done, Goto, TypeOK
  <2>3. PICK status \in {"SUCCEEDED", "FAILED"} : exec' = [exec EXCEPT ![e] = status]
    BY <1>10 DEF Record
  <2>4. unverified' = IF job[p].verified THEN unverified ELSE unverified \cup {e}
    BY <1>10 DEF Record
  <2>5. ProcessAt(p, e)'
    BY <2>2 DEF ProcessAt, At
  <2>6. RowOK(e)'
    BY <1>2, <1>3, <2>1, <2>3, <2>4 DEF ProcessAt, RowOK, At, TypeOK, DatabaseOK, damage, Unfinished
  <2>7. job'[p].todo \subseteq job[p].todo
    BY <2>2 DEF NoJob
  <2> QED
    BY <1>1, <1>2, <2>1, <2>2, <2>3, <2>4, <2>5, <2>6, <2>7, HolderStep
    DEF RowPhases, TypeOK, DatabaseOK, damage
<1> QED
  BY <1>4, <1>5, <1>6, <1>7, <1>8, <1>9, <1>10

\* The row is made: its maker becomes the holder, and no process exists yet.
LEMMA CreateStep ==
  ASSUME TypeOK, Custody, NEW p \in Controllers, NEW e \in Executions, Create(p, e)
  PROVE  Custody'
<1>1. /\ Frame(p) /\ pc[p] = "create" /\ pc'[p] = "spawn" /\ job' = job /\ job[p].exec = e
      /\ UNCHANGED <<launch, unverified, proc, ran>>
  BY DEF Create, At, Goto, Frame, TypeOK
<1>2. exec[e] = "NONE" /\ exec' = [exec EXCEPT ![e] = "STARTING"]
  BY DEF Create, Unused
<1>3. proc[e] = "none" /\ \A q \in Controllers : ~Holds(q, e)
  BY <1>2 DEF Custody, OneHolder
<1>4. OneHolder'
  <2>1. ASSUME NEW q \in Controllers, NEW f \in Executions, Holds(q, f)'
        PROVE  Holds(q, f) \/ (q = p /\ f = e)
    BY <1>1, <2>1 DEF Holds, Frame
  <2>2. exec'[e] # "NONE" /\ \A f \in Executions \ {e} : exec'[f] = exec[f]
    BY <1>2 DEF TypeOK, DatabaseOK, damage
  <2> QED
    BY <1>1, <1>3, <2>1, <2>2 DEF Custody, OneHolder
<1>5. ASSUME NEW q \in Controllers, NEW f \in Executions
      PROVE  ProcessAt(q, f)'
  <2>1. ProcessAt(q, f)
    BY DEF Custody
  <2>2. CASE q = p
    BY <1>1, <1>3, <2>2 DEF ProcessAt, At
  <2>3. CASE q # p /\ f = e
    BY <1>1, <1>3, <2>3 DEF ProcessAt, At, Frame, Holds, RowPhases
  <2>4. CASE q # p /\ f # e
    BY <1>1, <1>2, <2>1, <2>4 DEF ProcessAt, At, Frame, TypeOK, DatabaseOK, damage
  <2> QED
    BY <2>2, <2>3, <2>4
<1>6. ASSUME NEW q \in Controllers, NEW f \in Executions
      PROVE  ReadAt(q, f)'
  <2>1. ReadAt(q, f)
    BY DEF Custody
  <2> QED
    BY <1>1, <2>1 DEF ReadAt, At, Frame
<1>7. ASSUME NEW f \in Executions PROVE RowOK(f)'
  <2>1. RowOK(f)
    BY DEF Custody
  <2> QED
    BY <1>1, <1>2, <1>3, <2>1 DEF RowOK, TypeOK, DatabaseOK, damage, Terminal
<1> QED
  BY <1>4, <1>5, <1>6, <1>7 DEF Custody

\* A process ends or stays, and a controller that holds no row moves on: nobody at a row
\* step needs the process alive.
LEMMA ProcessEnds ==
  ASSUME TypeOK, Custody, NEW e \in Executions,
         proc[e] # "none", proc' = [proc EXCEPT ![e] = "gone"] \/ UNCHANGED proc,
         UNCHANGED <<launch, exec, unverified, ran>>,
         \A q \in Controllers :
           \/ pc'[q] = pc[q] /\ job'[q] = job[q]
           \/ pc'[q] \notin RowPhases /\ \A f \in Executions : ReadAt(q, f)'
  PROVE  Custody'
<1>1. OneHolder'
  BY DEF Custody, OneHolder, Holds, TypeOK
<1>2. ASSUME NEW q \in Controllers, NEW f \in Executions
      PROVE  ProcessAt(q, f)' /\ ReadAt(q, f)'
  <2>1. ProcessAt(q, f) /\ ReadAt(q, f)
    BY DEF Custody
  <2>2. CASE pc'[q] \notin RowPhases /\ \A g \in Executions : ReadAt(q, g)'
    BY <2>2 DEF ProcessAt, At, RowPhases
  <2>3. CASE pc'[q] = pc[q] /\ job'[q] = job[q]
    <3>1. ProcessAt(q, f)'
      BY <2>1, <2>3 DEF ProcessAt, At, TypeOK
    <3>2. ReadAt(q, f)'
      BY <2>1, <2>3 DEF ReadAt, At, TypeOK
    <3> QED
      BY <3>1, <3>2
  <2> QED
    BY <2>2, <2>3
<1>3. ASSUME NEW f \in Executions PROVE RowOK(f)'
  <2>1. RowOK(f)
    BY DEF Custody
  <2> QED
    BY <2>1 DEF RowOK, TypeOK
<1> QED
  BY <1>1, <1>2, <1>3 DEF Custody

LEMMA InspectStep ==
  ASSUME TypeOK, Custody, NEW p \in Controllers, NEW e \in Executions, Inspect(p, e)
  PROVE  Custody'
<1>1. PICK verified \in BOOLEAN :
        /\ Terminate(e, verified)
        /\ job' = [job EXCEPT ![p].verified = verified, ![p].unsafe = @ \/ ~verified]
        /\ ~verified => proc[e] \in {"blocked", "candidate"}
  BY DEF Inspect
<1> DEFINE j == [job[p] EXCEPT !.verified = verified, !.unsafe = @ \/ ~verified]
<1>2. job' = [job EXCEPT ![p] = j]
  BY <1>1, Zenon
<1>3. j.exec = job[p].exec /\ j.todo = job[p].todo /\ j.seen = job[p].seen
  BY DEF TypeOK, Job
<1>4. j.verified = verified
  BY Zenon DEF TypeOK, Job
<1> HIDE DEF j
<1>5. job'[p] = j /\ \A q \in Controllers \ {p} : job'[q] = job[q]
  BY <1>2 DEF TypeOK
<1>6. /\ job'[p].exec = job[p].exec /\ job'[p].todo = job[p].todo /\ job'[p].seen = job[p].seen
      /\ job'[p].verified => verified
  BY <1>3, <1>4, <1>5
<1>7. At(p, "inspect", e) /\ ReadAt(p, e)
  BY DEF Inspect, Custody
<1>8. pc'[p] = "interrupt" /\ \A q \in Controllers \ {p} : pc'[q] = pc[q]
  BY DEF Inspect, Goto, TypeOK
<1>9. /\ proc[e] # "none"
      /\ proc' = [proc EXCEPT ![e] = "gone"] \/ UNCHANGED proc
      /\ verified => proc'[e] = "gone"
  BY <1>1, <1>7 DEF Terminate, ReadAt, TypeOK, ProcStates
<1>10. ASSUME NEW f \in Executions PROVE ReadAt(p, f)'
  <2>1. ReadAt(p, f)
    BY DEF Custody
  <2> QED
    BY <1>6, <1>7, <1>8, <1>9, <2>1 DEF ReadAt, At, TypeOK
<1>11. UNCHANGED <<launch, exec, unverified, ran>>
  BY DEF Inspect, db
<1> QED
  BY <1>5, <1>8, <1>9, <1>10, <1>11, ProcessEnds DEF RowPhases

\* The interrupted row: its process is gone, or the record says so was not proven.
LEMMA InterruptStep ==
  ASSUME TypeOK, Custody, NEW p \in Controllers, NEW e \in Executions, Interrupt(p, e)
  PROVE  Custody'
<1>1. /\ At(p, "interrupt", e) /\ pc'[p] = "close" /\ job' = job
      /\ \A q \in Controllers \ {p} : pc'[q] = pc[q]
      /\ UNCHANGED <<launch, proc, ran>>
  BY DEF Interrupt, Goto, TypeOK
<1>2. exec[e] = job[p].seen /\ exec' = [exec EXCEPT ![e] = "INTERRUPTED"]
  BY DEF Interrupt, MoveExec
<1>3. job[p].seen \in Unfinished
  BY <1>1 DEF TypeOK, JobOK, At
<1>4. unverified' = IF job[p].verified THEN unverified ELSE unverified \cup {e}
  BY DEF Interrupt
<1>5. ReadAt(p, e) /\ RowOK(e)
  BY DEF Custody
<1>6. proc[e] \in {"candidate"} => e \in unverified'
  BY <1>1, <1>2, <1>3, <1>4, <1>5 DEF ReadAt, RowOK, Unfinished
<1>7. exec[e] = "RUNNING" /\ proc[e] # "gone" => e \in unverified'
  BY <1>1, <1>2, <1>4, <1>5 DEF ReadAt
<1>8. OneHolder'
  BY <1>1, <1>2 DEF Custody, OneHolder, Holds, RowPhases, TypeOK, DatabaseOK, damage
<1>9. ASSUME NEW q \in Controllers, NEW f \in Executions
      PROVE  ProcessAt(q, f)' /\ ReadAt(q, f)'
  <2>1. ProcessAt(q, f) /\ ReadAt(q, f)
    BY DEF Custody
  <2>2. ProcessAt(q, f)'
    <3>1. CASE q = p
      BY <1>1, <3>1 DEF ProcessAt, At
    <3>2. CASE q # p /\ f # e
      BY <1>1, <1>2, <1>4, <2>1, <3>2 DEF ProcessAt, At, TypeOK, DatabaseOK, damage
    <3>3. CASE q # p /\ f = e
      BY <1>1, <1>2, <1>3, <1>4, <1>7, <2>1, <3>3
      DEF ProcessAt, At, TypeOK, DatabaseOK, damage, Unfinished
    <3> QED
      BY <3>1, <3>2, <3>3
  <2>3. ReadAt(q, f)'
    BY <1>1, <2>1 DEF ReadAt, At
  <2> QED
    BY <2>2, <2>3
<1>10. ASSUME NEW f \in Executions PROVE RowOK(f)'
  <2>1. RowOK(f)
    BY DEF Custody
  <2> QED
    BY <1>1, <1>2, <1>4, <1>6, <2>1 DEF RowOK, TypeOK, DatabaseOK, damage
<1> QED
  BY <1>8, <1>9, <1>10 DEF Custody

LEMMA CustodyStep == TypeOK /\ Custody /\ [Next]_vars => Custody'
<1> SUFFICES ASSUME TypeOK, Custody, [Next]_vars PROVE Custody'
  OBVIOUS
<1>1. ASSUME NEW p \in Controllers, Start(p) \/ Request(p) \/ Advance(p) \/ End(p)
      PROVE  Custody'
  BY <1>1, CalmActions, HolderActions, CreateStep, InspectStep, InterruptStep DEF Advance, Step
<1>2. ASSUME NEW e \in Executions, LauncherExits(e) \/ CandidateExits(e)
      PROVE  Custody'
  <2>1. proc[e] # "none" /\ proc' = [proc EXCEPT ![e] = "gone"]
    BY <1>2 DEF LauncherExits, CandidateExits
  <2>2. UNCHANGED <<launch, exec, unverified, ran, pc, job>>
    BY <1>2 DEF LauncherExits, CandidateExits, db
  <2> QED
    BY <2>1, <2>2, ProcessEnds
<1>3. CASE UNCHANGED vars
  BY <1>3 DEF vars, Custody, OneHolder, Holds, ProcessAt, ReadAt, RowOK, At
<1> QED
  BY <1>1, <1>2, <1>3 DEF Next

LEMMA CustodyHolds == Spec => []Custody
<1>1. Init => Custody
  <2> SUFFICES ASSUME Init PROVE Custody
    OBVIOUS
  <2>1. NoJob.todo = {}
    BY DEF NoJob
  <2> QED
    BY <2>1 DEF Init, Custody, OneHolder, Holds, ProcessAt, ReadAt, RowOK, At, RowPhases, Terminal
<1> QED
  BY <1>1, CustodyStep, TypeCorrect, PTL DEF Spec

-----------------------------------------------------------------------------
(* Safety.                                                                 *)

\* Candidate code that was ever released stays charged, whoever died when: the release
\* waits for the started launch, and only a reservation can be given back.
THEOREM RanIsCharged == Spec => []RanStaysCharged
<1>1. Custody => RanStaysCharged
  BY TrainingsAssumption DEF Custody, RowOK, RanStaysCharged, Secured
<1> QED
  BY <1>1, CustodyHolds, PTL

\* Candidate code outlives its terminal record only when that record admits it.
THEOREM NoStray == Spec => []NoStrayCandidate
<1>1. Custody => NoStrayCandidate
  BY DEF Custody, RowOK, NoStrayCandidate
<1> QED
  BY <1>1, CustodyHolds, PTL

\* An execution id gets one process, ever: a spawn needs the row its controller made, and
\* a row is made once.
THEOREM OneProcessEver == Spec => OneProcess
<1>1. TypeOK /\ Custody /\ [Next]_vars => [SpawnsOnce]_vars
  <2> SUFFICES ASSUME TypeOK, Custody, Next PROVE SpawnsOnce
    OBVIOUS
  <2> SUFFICES ASSUME NEW f \in Executions
               PROVE  /\ proc[f] # "none" => proc'[f] \notin {"none", "blocked"} \/ proc'[f] = proc[f]
                      /\ proc[f] = "gone" => proc'[f] = "gone"
    BY DEF SpawnsOnce
  <2>1. ASSUME NEW p \in Controllers, NEW e \in Executions, Spawn(p, e)
        PROVE  UNCHANGED proc \/ (proc[e] = "none" /\ proc' = [proc EXCEPT ![e] = "blocked"])
    BY <2>1 DEF Spawn, At, Custody, ProcessAt
  <2>2. ASSUME NEW p \in Controllers, NEW e \in Executions, Release(p, e)
        PROVE  proc[e] = "blocked" /\ proc' = [proc EXCEPT ![e] = "candidate"]
    BY <2>2 DEF Release
  <2>3. ASSUME NEW p \in Controllers, NEW e \in Executions,
               NotReleased(p, e) \/ Supervise(p, e) \/ Inspect(p, e)
        PROVE  UNCHANGED proc \/ proc' = [proc EXCEPT ![e] = "gone"]
    BY <2>3 DEF NotReleased, Supervise, Inspect, Terminate
  <2>4. ASSUME NEW p \in Controllers, NEW e \in Executions,
               \/ Reserve(p, e) \/ Create(p, e) \/ CommitExec(p, e) \/ CommitLaunch(p, e)
               \/ Record(p, e) \/ Settle(p, e) \/ Pick(p, e) \/ Interrupt(p, e)
               \/ Close(p, e) \/ Report(p, e) \/ Refuse(p, e)
        PROVE  UNCHANGED proc
    BY <2>4 DEF Reserve, Create, CommitExec, CommitLaunch, Record, Settle, Pick, Interrupt,
                Close, Report, Refuse
  <2>5. ASSUME NEW p \in Controllers, Start(p) \/ Request(p) \/ NextLoop(p) \/ Resumed(p) \/ End(p)
        PROVE  UNCHANGED proc
    BY <2>5 DEF Start, Request, Prepare, Rehydrate, NextLoop, Resumed, End, Crash, Tear, DieStoring, Quit, Abandon
  <2>6. ASSUME NEW e \in Executions, LauncherExits(e) \/ CandidateExits(e)
        PROVE  proc' = [proc EXCEPT ![e] = "gone"]
    BY <2>6 DEF LauncherExits, CandidateExits
  <2>7. \/ UNCHANGED proc
        \/ \E e \in Executions :
             \/ proc[e] = "none" /\ proc' = [proc EXCEPT ![e] = "blocked"]
             \/ proc[e] = "blocked" /\ proc' = [proc EXCEPT ![e] = "candidate"]
             \/ proc' = [proc EXCEPT ![e] = "gone"]
    BY <2>1, <2>2, <2>3, <2>4, <2>5, <2>6 DEF Next, Advance, Step
  <2> QED
    BY <2>7 DEF TypeOK
<1> QED
  BY <1>1, TypeCorrect, CustodyHolds, PTL DEF Spec, OneProcess

-----------------------------------------------------------------------------
(* Reconciliation, with one controller.                                    *)

\* The execution that a loop has taken up and not yet dealt with.
InTurn(p, e) ==
  /\ job[p].exec = e
  /\ pc[p] \in IF job[p].loop = "unfinished" THEN {"inspect", "interrupt"} ELSE {"close"}

\* What a loop is about is still to be picked or in hand, and what the loops before it were
\* about is no more.
Reconciling ==
  \A p \in Controllers : pc[p] \in ResumePhases =>
    /\ \A e \in Executions : InLoop(job[p].loop, e) =>
         <<e, exec[e]>> \in job[p].todo \/ InTurn(p, e)
    /\ job[p].loop # "unfinished" => \A e \in Executions : exec[e] \notin Unfinished
    /\ job[p].loop = "orphans" => \A e \in Executions : ~InLoop("split", e)

\* Only the steps of a resume lead into one; the others leave it or are no part of it.
LEMMA OutsideResume ==
  ASSUME TypeOK, NEW p \in Controllers,
         \/ Request(p) \/ Resumed(p) \/ End(p)
         \/ \E e \in Executions :
              \/ Reserve(p, e) \/ Create(p, e) \/ Spawn(p, e) \/ CommitExec(p, e) \/ CommitLaunch(p, e)
              \/ NotReleased(p, e) \/ Release(p, e) \/ Supervise(p, e) \/ Record(p, e) \/ Settle(p, e)
              \/ Refuse(p, e)
  PROVE  pc'[p] \notin ResumePhases
<1>0. pc \in [Controllers -> Phases]
  BY DEF TypeOK
<1>1. CASE Request(p) \/ Resumed(p) \/ End(p)
  BY <1>0, <1>1 DEF Request, Prepare, Rehydrate, Resumed, End, Crash, Tear, DieStoring, Quit, Abandon, Done, Exit, Goto, ResumePhases
<1>2. CASE \E e \in Executions :
             \/ Reserve(p, e) \/ Create(p, e) \/ Spawn(p, e) \/ CommitExec(p, e) \/ CommitLaunch(p, e)
             \/ NotReleased(p, e) \/ Release(p, e) \/ Supervise(p, e)
  BY <1>0, <1>2 DEF Reserve, Create, Spawn, CommitExec, CommitLaunch, NotReleased, Release, Supervise,
                    AfterReceipt, Goto, ResumePhases
<1>3. CASE \E e \in Executions : Record(p, e) \/ Settle(p, e) \/ Refuse(p, e)
  BY <1>0, <1>3 DEF Record, Settle, Refuse, Done, Exit, Goto, ResumePhases
<1> QED
  BY <1>1, <1>2, <1>3

\* A loop starts with all it is about.
LEMMA LoopStarts ==
  ASSUME NEW loop, NEW e \in Executions, InLoop(loop, e), TypeOK
  PROVE  <<e, exec[e]>> \in Todo(loop)
BY DEF Todo, TypeOK, DatabaseOK, damage

LEMMA ReconcilingStep ==
  ASSUME NEW c, Controllers = {c}, TypeOK, Reconciling, [Next]_vars
  PROVE  Reconciling'
<1>0. /\ pc \in [Controllers -> Phases] /\ job \in [Controllers -> Job] /\ c \in Controllers
      /\ exec \in [Executions -> ExecStates] /\ launch \in [Trainings -> LaunchStates] /\ JobOK(c)
  BY DEF TypeOK, DatabaseOK, damage
<1>1. CASE \/ Request(c) \/ Resumed(c) \/ End(c)
           \/ \E e \in Executions :
                \/ Reserve(c, e) \/ Create(c, e) \/ Spawn(c, e) \/ CommitExec(c, e) \/ CommitLaunch(c, e)
                \/ NotReleased(c, e) \/ Release(c, e) \/ Supervise(c, e) \/ Record(c, e) \/ Settle(c, e)
                \/ Refuse(c, e)
  BY <1>0, <1>1, OutsideResume DEF Reconciling
<1>2. CASE Start(c)
  <2>1. UNCHANGED <<exec, launch>>
    BY <1>2 DEF Start, db
  <2>2. job'[c].loop = "unfinished" /\ job'[c].todo = Todo("unfinished")
    BY <1>0, <1>2 DEF Start, NoJob
  <2>3. \A e \in Executions : InLoop("unfinished", e)' => <<e, exec'[e]>> \in Todo("unfinished")
    BY <2>1, LoopStarts DEF InLoop
  <2> QED
    BY <2>2, <2>3 DEF Reconciling
<1>3. CASE NextLoop(c)
  <2>1. /\ UNCHANGED <<exec, launch, pc>> /\ pc[c] = "resume" /\ job[c].todo = {}
        /\ job[c].loop # "orphans"
    BY <1>3 DEF NextLoop, db
  <2> DEFINE next == IF job[c].loop = "unfinished" THEN "split" ELSE "orphans"
  <2>2. job'[c].loop = next /\ job'[c].todo = Todo(next)
    BY <1>0, <1>3 DEF NextLoop, Job
  <2>3. \A e \in Executions : ~InLoop(job[c].loop, e)
    BY <1>0, <2>1 DEF Reconciling, InTurn, ResumePhases
  <2>4. job[c].loop \in Loops
    BY <1>0 DEF Job
  <2>5. \A e \in Executions : exec[e] \notin Unfinished
    BY <1>0, <2>1, <2>3 DEF Reconciling, InLoop, ResumePhases
  <2>6. next = "orphans" => \A e \in Executions : ~InLoop("split", e)
    BY <2>1, <2>3, <2>4 DEF Loops
  <2>7. \A e \in Executions, l \in Loops : InLoop(l, e)' <=> InLoop(l, e)
    BY <2>1 DEF InLoop, OpenLaunch
  <2>8. \A e \in Executions, l \in Loops : InLoop(l, e) => <<e, exec[e]>> \in Todo(l)
    BY LoopStarts
  <2>9. next \in Loops /\ "split" \in Loops
    BY DEF Loops
  <2>10. \A e \in Executions : InLoop(job[c].loop, e)' => <<e, exec'[e]>> \in job'[c].todo
    <3> HIDE DEF next
    <3> QED
      BY <2>1, <2>2, <2>7, <2>8, <2>9
  <2>11. /\ \A e \in Executions : exec'[e] \notin Unfinished
         /\ job'[c].loop = "orphans" => \A e \in Executions : ~InLoop("split", e)'
    <3> HIDE DEF next
    <3> QED
      BY <2>1, <2>2, <2>5, <2>6, <2>7, <2>9
  <2> QED
    BY <2>10, <2>11 DEF Reconciling
<1>4. ASSUME NEW e \in Executions, Pick(c, e) PROVE Reconciling'
  <2>1. UNCHANGED <<exec, launch>> /\ pc[c] = "resume"
    BY <1>4 DEF Pick, db
  <2>2. PICK s \in ExecStates :
          /\ <<e, s>> \in job[c].todo
          /\ job' = [job EXCEPT ![c].exec = e, ![c].seen = s, ![c].verified = TRUE,
                                ![c].todo = @ \ {<<e, s>>}]
          /\ Goto(c, CASE job[c].loop # "unfinished" -> "close"
                       [] job[c].loop = "unfinished" /\ s = "RUNNING" -> "inspect"
                       [] OTHER -> "interrupt")
    BY <1>4, Zenon DEF Pick
  <2>3. job'[c].exec = e /\ job'[c].loop = job[c].loop /\ job'[c].todo = job[c].todo \ {<<e, s>>}
    BY <1>0, <2>2 DEF Job
  <2>4. pc'[c] \in IF job[c].loop = "unfinished" THEN {"inspect", "interrupt"} ELSE {"close"}
    <3>1. CASE job[c].loop # "unfinished"
      BY <1>0, <2>2, <3>1 DEF Goto
    <3>2. CASE job[c].loop = "unfinished" /\ s = "RUNNING"
      BY <1>0, <2>2, <3>2 DEF Goto
    <3>3. CASE job[c].loop = "unfinished" /\ s # "RUNNING"
      BY <1>0, <2>2, <3>3 DEF Goto
    <3> QED
      BY <3>1, <3>2, <3>3
  <2>5. \A f \in Executions : InLoop(job[c].loop, f) => <<f, exec[f]>> \in job[c].todo
    BY <1>0, <2>1 DEF Reconciling, InTurn, ResumePhases
  <2>6. \A f \in Executions : f # e => (<<f, exec[f]>> \in job[c].todo => <<f, exec[f]>> \in job'[c].todo)
    BY <2>3
  <2>7. \A f \in Executions, l \in Loops : InLoop(l, f)' <=> InLoop(l, f)
    BY <2>1 DEF InLoop, OpenLaunch
  <2>8. job[c].loop \in Loops /\ "split" \in Loops
    BY <1>0 DEF Job, Loops
  <2>9. InTurn(c, e)'
    BY <2>3, <2>4 DEF InTurn
  <2>10. \A f \in Executions : InLoop(job[c].loop, f)' => <<f, exec'[f]>> \in job'[c].todo \/ InTurn(c, f)'
    BY <2>1, <2>3, <2>5, <2>6, <2>7, <2>8, <2>9
  <2>11. /\ job'[c].loop # "unfinished" => \A f \in Executions : exec'[f] \notin Unfinished
         /\ job'[c].loop = "orphans" => \A f \in Executions : ~InLoop("split", f)'
    BY <1>0, <2>1, <2>3, <2>7, <2>8 DEF Reconciling, ResumePhases
  <2> QED
    BY <2>10, <2>11 DEF Reconciling
<1>5. ASSUME NEW e \in Executions, Inspect(c, e) PROVE Reconciling'
  <2>1. UNCHANGED <<exec, launch>> /\ pc[c] = "inspect" /\ pc'[c] = "interrupt"
    BY <1>0, <1>5 DEF Inspect, db, At, Goto
  <2>2. job'[c].exec = job[c].exec /\ job'[c].loop = job[c].loop /\ job'[c].todo = job[c].todo
    BY <1>0, <1>5 DEF Inspect, Job
  <2>3. \A f \in Executions, l \in Loops : InLoop(l, f)' <=> InLoop(l, f)
    BY <2>1 DEF InLoop, OpenLaunch
  <2>4. job[c].loop \in Loops /\ "split" \in Loops
    BY <1>0 DEF Job, Loops
  <2>5. \A f \in Executions : InTurn(c, f) => InTurn(c, f)'
    BY <2>1, <2>2 DEF InTurn
  <2> QED
    BY <1>0, <2>1, <2>2, <2>3, <2>4, <2>5 DEF Reconciling, ResumePhases
<1>6. ASSUME NEW e \in Executions, Interrupt(c, e) PROVE Reconciling'
  <2>1. /\ UNCHANGED <<launch, job>> /\ pc[c] = "interrupt" /\ job[c].exec = e /\ exec[e] \in Unfinished
        /\ exec' = [exec EXCEPT ![e] = "INTERRUPTED"]
    BY <1>0, <1>6 DEF Interrupt, At, MoveExec, JobOK
  <2>2. job[c].loop = "unfinished"
    BY <1>0, <2>1 DEF Reconciling, ResumePhases
  <2>3. exec'[e] = "INTERRUPTED" /\ \A f \in Executions : f # e => exec'[f] = exec[f]
    BY <1>0, <2>1
  <2>4. \A f \in Executions : InLoop("unfinished", f)' => f # e /\ InLoop("unfinished", f)
    BY <2>3 DEF InLoop, Unfinished
  <2>5. \A f \in Executions : InLoop("unfinished", f) /\ f # e => <<f, exec[f]>> \in job[c].todo
    BY <1>0, <2>1, <2>2 DEF Reconciling, InTurn, ResumePhases
  <2> QED
    BY <2>1, <2>2, <2>3, <2>4, <2>5 DEF Reconciling
<1>7. ASSUME NEW e \in Executions, Close(c, e) PROVE Reconciling'
  <2>1. UNCHANGED <<exec, job>> /\ pc[c] = "close" /\ job[c].exec = e
    BY <1>7 DEF Close, At
  <2>2. pc' = pc /\ \A f \in Executions : OpenLaunch(f)' => OpenLaunch(f)
    BY <1>0, <1>7 DEF Close, MoveLaunch, OpenLaunch, Open
  <2>3. \A f \in Executions, l \in Loops : InLoop(l, f)' => InLoop(l, f)
    BY <2>1, <2>2 DEF InLoop
  <2>4. job[c].loop \in Loops /\ "split" \in Loops
    BY <1>0 DEF Job, Loops
  <2>5. \A f \in Executions : InLoop(job[c].loop, f)' => <<f, exec[f]>> \in job[c].todo \/ InTurn(c, f)
    BY <1>0, <2>1, <2>3, <2>4 DEF Reconciling, ResumePhases
  <2>6. \A f \in Executions : InTurn(c, f) => InTurn(c, f)'
    BY <2>1, <2>2 DEF InTurn
  <2>7. /\ job[c].loop # "unfinished" => \A f \in Executions : exec[f] \notin Unfinished
        /\ job[c].loop = "orphans" => \A f \in Executions : ~InLoop("split", f)'
    BY <1>0, <2>1, <2>3, <2>4 DEF Reconciling, ResumePhases
  <2> QED
    BY <2>1, <2>5, <2>6, <2>7 DEF Reconciling
<1>12. ASSUME NEW e \in Executions, Report(c, e) PROVE Reconciling'
  <2>1. /\ UNCHANGED <<exec, launch, job>> /\ pc[c] = "close" /\ job[c].exec = e
        /\ pc'[c] = "resume" /\ Closed(e)
    BY <1>0, <1>12 DEF Report, At, Goto, db
  <2>2. ~OpenLaunch(e)
    BY <2>1 DEF Closed, OpenLaunch, Open
  <2>3. \A f \in Executions, l \in Loops : InLoop(l, f)' <=> InLoop(l, f)
    BY <2>1 DEF InLoop, OpenLaunch
  <2>4. job[c].loop \in Loops /\ "split" \in Loops
    BY <1>0 DEF Job, Loops
  <2>5. \A f \in Executions : InLoop(job[c].loop, f) => ~InTurn(c, f)
    BY <2>1, <2>2 DEF InLoop, InTurn
  <2> QED
    BY <1>0, <2>1, <2>3, <2>4, <2>5 DEF Reconciling, ResumePhases
<1>8. CASE UNCHANGED <<exec, launch, pc, job>>
  BY <1>8 DEF Reconciling, InLoop, InTurn, OpenLaunch
<1>9. ASSUME NEW e \in Executions, LauncherExits(e) \/ CandidateExits(e)
      PROVE  UNCHANGED <<exec, launch, pc, job>>
  BY <1>9 DEF LauncherExits, CandidateExits, db
<1>10. CASE UNCHANGED vars
  BY <1>8, <1>10 DEF vars
<1>11. CASE Advance(c)
  BY <1>1, <1>3, <1>4, <1>5, <1>6, <1>7, <1>11, <1>12 DEF Advance, Step
<1> QED
  BY <1>1, <1>2, <1>8, <1>9, <1>10, <1>11 DEF Next

\* With one controller, research resumes only on a reconciled journal: the three loops of
\* _reconcile_unfinished leave no unfinished row and no open launch, whatever was killed or
\* abandoned when.
THEOREM ResumesReconciled ==
  ASSUME NEW c, Controllers = {c}
  PROVE  Spec => ResumesClean
<1>1. Init => Reconciling
  BY DEF Init, Reconciling, ResumePhases
<1>2. TypeOK /\ Reconciling /\ [Next]_vars => Reconciling'
  BY ReconcilingStep
<1>3. TypeOK /\ Reconciling /\ [Next]_vars =>
        [\A p \in Controllers : pc[p] = "resume" /\ pc'[p] = "idle" => Clean']_vars
  <2> SUFFICES ASSUME TypeOK, Reconciling, Next, pc[c] = "resume", pc'[c] = "idle"
               PROVE  Clean'
    OBVIOUS
  <2>0. pc \in [Controllers -> Phases] /\ job \in [Controllers -> Job] /\ c \in Controllers
    BY DEF TypeOK
  <2>1. Resumed(c)
    <3>1. \/ Start(c) \/ Request(c) \/ Advance(c) \/ End(c)
          \/ \E e \in Executions : LauncherExits(e) \/ CandidateExits(e)
      BY DEF Next
    <3>2. ~Start(c) /\ ~Request(c) /\ ~End(c) /\ ~NextLoop(c)
      BY <2>0 DEF Start, Request, Prepare, Rehydrate, End, Crash, Tear, DieStoring, Quit, Abandon, At, Exit, Goto, NextLoop
    <3>3. ASSUME NEW e \in Executions, Step(c, e) PROVE FALSE
      <4>1. ASSUME Pick(c, e) PROVE FALSE
        <5>1. PICK next \in {"close", "inspect", "interrupt"} : Goto(c, next)
          BY <4>1 DEF Pick
        <5> QED
          BY <2>0, <5>1 DEF Goto
      <4> QED
        BY <3>3, <4>1 DEF Step, Reserve, Create, Spawn, CommitExec, CommitLaunch, NotReleased, Release,
                          Supervise, Record, Settle, Inspect, Interrupt, Close, Report, Refuse, At
    <3>4. ~(\E e \in Executions : LauncherExits(e) \/ CandidateExits(e))
      BY DEF LauncherExits, CandidateExits
    <3> QED
      BY <3>1, <3>2, <3>3, <3>4 DEF Advance
  <2>2. UNCHANGED <<launch, exec>> /\ job[c].todo = {} /\ job[c].loop = "orphans"
    BY <2>1 DEF Resumed
  <2>3. \A e \in Executions : exec[e] \notin Unfinished /\ ~InLoop("split", e) /\ ~InLoop("orphans", e)
    BY <2>0, <2>2 DEF Reconciling, InTurn, ResumePhases
  <2>4. \A e \in Executions : exec[e] = "NONE" \/ exec[e] \in Unfinished \/ exec[e] \in Terminal
    BY DEF TypeOK, DatabaseOK, damage, ExecStates
  <2>5. \A e \in Trainings : launch[e] \notin Open
    BY <2>3, <2>4, TrainingsAssumption DEF InLoop, OpenLaunch
  <2> QED
    BY <2>2, <2>3, <2>5 DEF Clean
<1> QED
  BY <1>1, <1>2, <1>3, TypeCorrect, PTL DEF Spec, ResumesClean

-----------------------------------------------------------------------------
(* The charges.                                                            *)

\* How a step moves launches: it charges one, under the limit, or it moves one along
\* _LAUNCH_TRANSITIONS, and gives none back whose candidate ran; a release runs under a
\* secured launch.
LEMMA LaunchMoves ==
  ASSUME TypeOK, Custody, [Next]_vars
  PROVE  \/ UNCHANGED <<launch, ran>>
         \/ \E e \in Trainings :
              \/ MayReserve(e) /\ launch' = [launch EXCEPT ![e] = "RESERVED"] /\ UNCHANGED ran
              \/ \E to \in LaunchStates : MoveLaunch(e, to) /\ UNCHANGED ran
         \/ \E e \in Executions : /\ UNCHANGED launch /\ ran' = ran \cup {e} /\ e \notin ran
                                  /\ e \in Trainings => launch[e] \in Secured
<1>1. ASSUME NEW p \in Controllers, NEW e \in Executions, Reserve(p, e)
      PROVE  /\ UNCHANGED ran
             /\ UNCHANGED launch \/ (e \in Trainings /\ MayReserve(e)
                                       /\ launch' = [launch EXCEPT ![e] = "RESERVED"])
  BY <1>1 DEF Reserve, MayReserve, TypeOK, DatabaseOK, damage
<1>2. ASSUME NEW p \in Controllers, NEW e \in Executions,
             CommitLaunch(p, e) \/ Settle(p, e) \/ Close(p, e) \/ Rehydrate(p, e)
      PROVE  /\ UNCHANGED ran
             /\ \/ UNCHANGED launch
                \/ e \in Trainings /\ \E to \in LaunchStates : MoveLaunch(e, to)
  <2>1. UNCHANGED ran
    BY <1>2 DEF CommitLaunch, Settle, Close, Rehydrate
  <2>2. UNCHANGED launch \/ \E to \in LaunchStates : MoveLaunch(e, to)
    BY <1>2 DEF CommitLaunch, Settle, Close, Rehydrate, Settlement, LaunchStates
  <2>3. e \notin Trainings /\ (\E to \in LaunchStates : MoveLaunch(e, to)) => UNCHANGED launch
    BY DEF MoveLaunch, TypeOK, DatabaseOK, damage
  <2> QED
    BY <2>1, <2>2, <2>3
<1>3. ASSUME NEW p \in Controllers, NEW e \in Executions, Release(p, e)
      PROVE  /\ UNCHANGED launch /\ ran' = ran \cup {e} /\ e \notin ran
             /\ e \in Trainings => launch[e] \in Secured
  BY <1>3 DEF Release, db, Custody, RowOK, ProcessAt
<1>4. ASSUME NEW p \in Controllers, NEW e \in Executions,
             \/ Prepare(p, e) \/ Create(p, e) \/ Spawn(p, e) \/ CommitExec(p, e)
             \/ NotReleased(p, e) \/ Supervise(p, e) \/ Record(p, e) \/ Pick(p, e)
             \/ Inspect(p, e) \/ Interrupt(p, e) \/ Report(p, e) \/ Refuse(p, e)
      PROVE  UNCHANGED <<launch, ran>>
  BY <1>4 DEF Prepare, Create, Spawn, CommitExec, NotReleased, Supervise, Record, Pick, Inspect,
              Interrupt, Report, Refuse, db
<1>5. ASSUME NEW p \in Controllers, Start(p) \/ NextLoop(p) \/ Resumed(p) \/ End(p)
      PROVE  UNCHANGED <<launch, ran>>
  BY <1>5 DEF Start, NextLoop, Resumed, End, Crash, Tear, DieStoring, Quit, Abandon, db
<1>6. ASSUME NEW e \in Executions, LauncherExits(e) \/ CandidateExits(e)
      PROVE  UNCHANGED <<launch, ran>>
  BY <1>6 DEF LauncherExits, CandidateExits, db
<1>7. CASE UNCHANGED vars
  BY <1>7 DEF vars
<1>8. CASE \E p \in Controllers : Start(p) \/ Request(p) \/ Advance(p) \/ End(p)
  <2>1. PICK p \in Controllers : Start(p) \/ Request(p) \/ Advance(p) \/ End(p)
    BY <1>8
  <2>2. CASE Start(p) \/ NextLoop(p) \/ Resumed(p) \/ End(p)
    BY <2>2, <1>5
  <2>3. CASE \E e \in Executions : Prepare(p, e) \/ Rehydrate(p, e) \/ Step(p, e)
    BY <2>3, <1>1, <1>2, <1>3, <1>4 DEF Step
  <2> QED
    BY <2>1, <2>2, <2>3 DEF Request, Advance
<1> QED
  BY <1>6, <1>7, <1>8 DEF Next

LEMMA ChargedFinite ==
  Charged \subseteq Trainings /\ IsFiniteSet(Charged) /\ Cardinality(Charged) \in Nat
<1>1. IsFiniteSet(Trainings)
  BY TrainingsAssumption, FS_Subset
<1> QED
  BY <1>1, FS_Subset, FS_CardinalityType DEF Charged

\* The charges never exceed the limit: the transaction that adds one counts them again.
THEOREM LimitHolds == Spec => []WithinLimit
<1>1. Init => WithinLimit
  <2>1. Init => Charged = {}
    BY DEF Init, Charged
  <2> QED
    BY <2>1, FS_EmptySet, BoundsAssumption DEF WithinLimit
<1>2. TypeOK /\ Custody /\ WithinLimit /\ [Next]_vars => WithinLimit'
  <2> SUFFICES ASSUME TypeOK, Custody, WithinLimit, [Next]_vars PROVE WithinLimit'
    OBVIOUS
  <2>1. CASE Charged' \subseteq Charged
    <3>1. Cardinality(Charged') <= Cardinality(Charged)
      BY <2>1, ChargedFinite, FS_Subset
    <3>2. Cardinality(Charged') \in Nat
      BY <2>1, ChargedFinite, FS_Subset, FS_CardinalityType
    <3> QED
      BY <3>1, <3>2, ChargedFinite, BoundsAssumption DEF WithinLimit
  <2>2. CASE \E e \in Trainings : MayReserve(e) /\ launch' = [launch EXCEPT ![e] = "RESERVED"]
    <3>1. PICK e \in Trainings : MayReserve(e) /\ launch' = [launch EXCEPT ![e] = "RESERVED"]
      BY <2>2
    <3>2. Charged' = Charged \cup {e} /\ e \notin Charged
      BY <3>1 DEF Charged, MayReserve, TypeOK, DatabaseOK, damage
    <3>3. Cardinality(Charged') = Cardinality(Charged) + 1
      BY <3>2, ChargedFinite, FS_AddElement
    <3> QED
      BY <3>1, <3>3, ChargedFinite, BoundsAssumption DEF MayReserve, WithinLimit
  <2>3. ASSUME NEW e \in Trainings, NEW to \in LaunchStates, MoveLaunch(e, to)
        PROVE  Charged' \subseteq Charged
    BY <2>3 DEF MoveLaunch, MayFollow, Charged, TypeOK, DatabaseOK, damage
  <2>4. UNCHANGED launch => Charged' = Charged
    BY DEF Charged
  <2>5. CASE \E e \in Trainings : \E to \in LaunchStates : MoveLaunch(e, to)
    <3>1. PICK e \in Trainings : \E to \in LaunchStates : MoveLaunch(e, to)
      BY <2>5
    <3>2. PICK to \in LaunchStates : MoveLaunch(e, to)
      BY <3>1
    <3> QED
      BY <3>2, <2>3, <2>1
  <2>6. CASE UNCHANGED launch
    BY <2>6, <2>4, <2>1
  <2> QED
    BY <2>2, <2>5, <2>6, LaunchMoves
<1> QED
  BY <1>1, <1>2, TypeCorrect, CustodyHolds, PTL DEF Spec

-----------------------------------------------------------------------------
(* Refinement.                                                             *)

\* The journal implements LaunchBudget: every transaction and every process step charges,
\* runs or refunds one launch as the budget allows, or changes nothing it can see.
THEOREM ImplementsBudget == Spec => ImplementsLaunchBudget
<1>1. Init => Budget!Init
  BY DEF Init, Budget!Init, Charged
<1>2. TypeOK /\ Custody /\ [Next]_vars => [Budget!Next]_(Budget!vars)
  <2> SUFFICES ASSUME TypeOK, Custody, [Next]_vars PROVE [Budget!Next]_(Budget!vars)
    OBVIOUS
  <2> DEFINE refunded == {e \in Trainings : launch[e] = "NOT_STARTED"}
  <2>1. CASE UNCHANGED <<launch, ran>>
    BY <2>1 DEF Budget!vars, Charged
  <2>2. ASSUME NEW e \in Trainings, MayReserve(e), launch' = [launch EXCEPT ![e] = "RESERVED"],
               UNCHANGED ran
        PROVE  Budget!Charge(e)
    <3>1. e \notin Charged \cup refunded
      BY <2>2 DEF MayReserve, Charged
    <3>2. Charged' = Charged \cup {e} /\ refunded' = refunded
      BY <2>2 DEF MayReserve, Charged, TypeOK, DatabaseOK, damage
    <3>3. Budget!Cardinality(Charged) < MaxLaunches
      <4>1. Cardinality(Charged) < MaxLaunches
        BY <2>2 DEF MayReserve
      <4> QED
        BY <4>1, Zenon DEF Cardinality, Budget!Cardinality
    <3> QED
      BY <2>2, <3>1, <3>2, <3>3 DEF Budget!Charge
  <2>3. ASSUME NEW e \in Trainings, NEW to \in LaunchStates, MoveLaunch(e, to), UNCHANGED ran
        PROVE  Budget!Refund(e) \/ UNCHANGED Budget!vars
    <3>1. CASE to = "NOT_STARTED"
      <4>1. launch[e] = "RESERVED" /\ launch' = [launch EXCEPT ![e] = "NOT_STARTED"]
        BY <2>3, <3>1 DEF MoveLaunch, MayFollow
      <4>2. e \in Charged /\ e \notin ran
        BY <4>1, TrainingsAssumption DEF Charged, Custody, RowOK, Secured
      <4>3. Charged' = Charged \ {e} /\ refunded' = refunded \cup {e}
        BY <4>1 DEF Charged, TypeOK, DatabaseOK, damage
      <4> QED
        BY <2>3, <4>2, <4>3 DEF Budget!Refund
    <3>2. CASE to # "NOT_STARTED"
      <4>1. Charged' = Charged /\ refunded' = refunded
        BY <2>3, <3>2 DEF MoveLaunch, MayFollow, Charged, TypeOK, DatabaseOK, damage
      <4> QED
        BY <2>3, <4>1 DEF Budget!vars
    <3> QED
      BY <3>1, <3>2
  <2>4. ASSUME NEW e \in Executions, UNCHANGED launch, ran' = ran \cup {e}, e \notin ran,
               e \in Trainings => launch[e] \in Secured
        PROVE  (e \in Trainings /\ Budget!Run(e)) \/ UNCHANGED Budget!vars
    <3>1. Charged' = Charged /\ refunded' = refunded
      BY <2>4 DEF Charged
    <3>2. CASE e \in Trainings
      <4>1. e \in Charged
        BY <2>4, <3>2 DEF Charged, Secured
      <4> QED
        BY <2>4, <3>1, <3>2, <4>1 DEF Budget!Run
    <3>3. CASE e \notin Trainings
      BY <2>4, <3>1, <3>3 DEF Budget!vars
    <3> QED
      BY <3>2, <3>3
  <2>5. CASE \E e \in Trainings :
              MayReserve(e) /\ launch' = [launch EXCEPT ![e] = "RESERVED"] /\ UNCHANGED ran
    <3>1. PICK e \in Trainings :
            MayReserve(e) /\ launch' = [launch EXCEPT ![e] = "RESERVED"] /\ UNCHANGED ran
      BY <2>5
    <3>2. Budget!Charge(e)
      BY <3>1, <2>2
    <3> QED
      BY <3>2 DEF Budget!Next
  <2>6. CASE \E e \in Trainings : \E to \in LaunchStates : MoveLaunch(e, to) /\ UNCHANGED ran
    <3>1. PICK e \in Trainings : \E to \in LaunchStates : MoveLaunch(e, to) /\ UNCHANGED ran
      BY <2>6
    <3>2. PICK to \in LaunchStates : MoveLaunch(e, to) /\ UNCHANGED ran
      BY <3>1
    <3>3. Budget!Refund(e) \/ UNCHANGED Budget!vars
      BY <3>2, <2>3
    <3> QED
      BY <3>3 DEF Budget!Next
  <2>7. CASE \E e \in Executions : /\ UNCHANGED launch /\ ran' = ran \cup {e} /\ e \notin ran
                                   /\ e \in Trainings => launch[e] \in Secured
    <3>1. PICK e \in Executions : /\ UNCHANGED launch /\ ran' = ran \cup {e} /\ e \notin ran
                                  /\ e \in Trainings => launch[e] \in Secured
      BY <2>7
    <3>2. (e \in Trainings /\ Budget!Run(e)) \/ UNCHANGED Budget!vars
      BY <3>1, <2>4
    <3> QED
      BY <3>2 DEF Budget!Next
  <2> QED
    BY <2>1, <2>5, <2>6, <2>7, LaunchMoves
<1> QED
  BY <1>1, <1>2, TypeCorrect, CustodyHolds, PTL DEF Spec, Budget!Spec, ImplementsLaunchBudget
=============================================================================
