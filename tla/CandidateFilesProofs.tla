------------------------ MODULE CandidateFilesProofs ------------------------
(***************************************************************************)
(* Proofs about CandidateFiles, for any number of controllers, executions, *)
(* contents and crashes: its steps are steps of LaunchJournal, so what is  *)
(* proved of the journal holds with the files around it, and what a        *)
(* terminal row refers to stays readable.  Both need the inductive         *)
(* invariant Custodian: a controller that runs an execution has that       *)
(* execution in hand, and what it has stored of it is installed.           *)
(***************************************************************************)
EXTENDS CandidateFiles, LaunchJournalProofs

-----------------------------------------------------------------------------
(* The inductive invariant.                                                *)

\* The phases in which an execution runs and may become terminal.
Running == RunPhases \ {"settle"}

\* The file steps of an execution whose workspace is published.
Holding == {"ready", "log", "logged", "output", "stored", "cleaned", "failed"}

InHand(p) ==
  /\ at[p] # "none" => hand[p] \in Executions
  /\ pc[p] \in Running => at[p] \in Holding /\ hand[p] = job[p].exec
  /\ at[p] \in Holding \ {"ready", "log"} => object[Log] = "alone"
  /\ at[p] \in {"stored", "cleaned"} => object[Output[hand[p]]] = "alone"

FilesTyped ==
  /\ object \in [Contents -> {"none", "linked", "alone"}]
  /\ at \in [Controllers -> Steps]
  /\ hand \in [Controllers -> Executions \cup {None}]

Custodian == FilesTyped /\ \A p \in Controllers : InHand(p)

-----------------------------------------------------------------------------
(* What a step of the journal does to rows and to the hands of controllers. *)

\* What a step may do to a row: nothing, something that refers to no content, or the terminal
\* record of the execution that the controller has in hand.
RowMoves(p) ==
  \A e \in Executions :
    \/ exec'[e] = exec[e]
    \/ exec'[e] \in {"STARTING", "RUNNING", "INTERRUPTED"}
    \/ pc[p] = "record" /\ job[p].exec = e

\* The controller does not come to run an execution, nor to run another one; the record is
\* its last step with it.
Onward(p) ==
  /\ pc'[p] \in Running => pc[p] \in Running \ {"record"} /\ job'[p].exec = job[p].exec
  /\ \A q \in Controllers \ {p} : pc'[q] = pc[q] /\ job'[q] = job[q]

\* A controller that goes on with its execution keeps it.
LEMMA KeepsRunning ==
  ASSUME TypeOK, NEW p \in Controllers, NEW next, pc[p] \in Running \ {"record"},
         pc' = [pc EXCEPT ![p] = next], job'[p].exec = job[p].exec,
         \A q \in Controllers \ {p} : job'[q] = job[q]
  PROVE  Onward(p)
BY DEF Onward, TypeOK

\* A step of the runner, before the record.
LEMMA RunOnward ==
  ASSUME TypeOK, NEW p \in Controllers, NEW e \in Executions,
         \/ Reserve(p, e) \/ Create(p, e) \/ Spawn(p, e) \/ CommitExec(p, e)
         \/ CommitLaunch(p, e) \/ NotReleased(p, e) \/ Release(p, e) \/ Supervise(p, e)
  PROVE  Onward(p) /\ RowMoves(p)
<1>1. PICK next : pc' = [pc EXCEPT ![p] = next]
  BY DEF Reserve, Create, Spawn, CommitExec, CommitLaunch, NotReleased, Release, Supervise, Goto
<1>2. pc[p] \in Running \ {"record"}
  BY DEF Reserve, Create, Spawn, CommitExec, CommitLaunch, NotReleased, Release, Supervise, At,
         Running, RunPhases
<1>3. job'[p].exec = job[p].exec /\ \A q \in Controllers \ {p} : job'[q] = job[q]
  <2>1. CASE job' = job
    BY <2>1
  <2>2. CASE Release(p, e)
    BY <2>2 DEF Release, TypeOK, Job
  <2>3. CASE Supervise(p, e)
    BY <2>3 DEF Supervise, TypeOK, Job
  <2> QED
    BY <2>1, <2>2, <2>3 DEF Reserve, Create, Spawn, CommitExec, CommitLaunch, NotReleased
<1>4. RowMoves(p)
  BY DEF RowMoves, Reserve, Create, Spawn, CommitExec, CommitLaunch, NotReleased, Release,
         Supervise, MoveExec, db, TypeOK, DatabaseOK
<1> QED
  BY <1>1, <1>2, <1>3, <1>4, KeepsRunning

\* The record of an execution, its settlement, and every step of a resume.
LEMMA OtherOnward ==
  ASSUME TypeOK, NEW p \in Controllers, NEW e \in Executions,
         \/ Record(p, e) \/ Settle(p, e) \/ Pick(p, e) \/ Inspect(p, e) \/ Interrupt(p, e)
         \/ Close(p, e) \/ Report(p, e) \/ Refuse(p, e) \/ NextLoop(p) \/ Resumed(p)
  PROVE  Onward(p) /\ RowMoves(p)
<1>1. pc'[p] \notin Running
  <2>1. CASE UNCHANGED pc
    BY <2>1 DEF Record, Settle, Pick, Inspect, Interrupt, Close, Report, Refuse, NextLoop, Resumed, Done, Exit,
                Goto, At, TypeOK, Running, RunPhases
  <2>2. CASE ~UNCHANGED pc
    BY <2>2 DEF Record, Settle, Pick, Inspect, Interrupt, Close, Report, Refuse, NextLoop, Resumed, Done, Exit,
                Goto, At, TypeOK, Running, RunPhases
  <2> QED
    BY <2>1, <2>2
<1>2. \A q \in Controllers \ {p} : pc'[q] = pc[q]
  BY DEF Record, Settle, Pick, Inspect, Interrupt, Close, Report, Refuse, NextLoop, Resumed, Done, Exit, Goto,
         TypeOK
<1>3. \A q \in Controllers \ {p} : job'[q] = job[q]
  BY DEF Record, Settle, Pick, Inspect, Interrupt, Close, Report, Refuse, NextLoop, Resumed, Done, Exit,
         TypeOK
<1>4. RowMoves(p)
  BY DEF RowMoves, Record, Settle, Pick, Inspect, Interrupt, Close, Report, Refuse, NextLoop, Resumed, At,
         MoveExec, db, TypeOK, DatabaseOK
<1> QED
  BY <1>1, <1>2, <1>3, <1>4 DEF Onward

\* Every step of a live controller.
LEMMA AdvanceOnward ==
  ASSUME TypeOK, NEW p \in Controllers, Advance(p)
  PROVE  Onward(p) /\ RowMoves(p)
<1>1. ASSUME NextLoop(p) \/ Resumed(p)
      PROVE  Onward(p) /\ RowMoves(p)
  <2>1. CASE Executions # {}
    <3>1. PICK e \in Executions : TRUE
      BY <2>1
    <3> QED
      BY <1>1, <3>1, OtherOnward
  <2>2. CASE Executions = {}
    <3>1. \A q \in Controllers \ {p} : pc'[q] = pc[q] /\ job'[q] = job[q]
      BY <1>1 DEF NextLoop, Resumed, Done, Exit, Goto, TypeOK
    <3>2. pc'[p] \notin Running
      BY <1>1 DEF NextLoop, Resumed, Done, Exit, Goto, TypeOK, Running, RunPhases
    <3> QED
      BY <2>2, <3>1, <3>2 DEF Onward, RowMoves
  <2> QED
    BY <2>1, <2>2
<1>2. ASSUME NEW e \in Executions, Step(p, e)
      PROVE  Onward(p) /\ RowMoves(p)
  BY <1>2, RunOnward, OtherOnward DEF Step
<1> QED
  BY <1>1, <1>2 DEF Advance

-----------------------------------------------------------------------------
(* The steps of the files.                                                 *)

\* What is installed stays installed.
Installed == \A c \in Contents : object[c] = "alone" => object'[c] = "alone"

\* A step that leaves the journal alone and moves one controller on with its files.
LEMMA FileStep ==
  ASSUME Custodian, NEW p \in Controllers, NEW step \in Steps, UNCHANGED vars, Installed,
         object' \in [Contents -> {"none", "linked", "alone"}],
         Put(p, step), step # "none" => at[p] # "none",
         pc[p] \in Running => step \in Holding,
         step \in Holding \ {"ready", "log"} => object'[Log] = "alone",
         step \in {"stored", "cleaned"} => object'[Output[hand[p]]] = "alone"
  PROVE  Custodian'
<1>1. FilesTyped'
  BY DEF Custodian, FilesTyped, Put
<1>2. ASSUME NEW q \in Controllers \ {p}
      PROVE  InHand(q)'
  <2>1. at'[q] = at[q] /\ hand'[q] = hand[q] /\ pc'[q] = pc[q] /\ job'[q] = job[q]
    BY DEF Put, Custodian, FilesTyped, vars
  <2>2. InHand(q)
    BY DEF Custodian
  <2>3. at[q] # "none" => Output[hand[q]] \in Contents
    BY <2>2, ContentsAssumption DEF InHand
  <2> QED
    BY <2>1, <2>2, <2>3, ContentsAssumption DEF InHand, Installed
<1>3. InHand(p)'
  <2>1. at'[p] = step /\ pc'[p] = pc[p] /\ job'[p] = job[p]
    BY DEF Put, Custodian, FilesTyped, vars
  <2>2. step # "none" => hand'[p] = hand[p]
    BY DEF Put
  <2>3. InHand(p)
    BY DEF Custodian
  <2> QED
    BY <2>1, <2>2, <2>3 DEF InHand, Holding
<1> QED
  BY <1>1, <1>2, <1>3 DEF Custodian

\* Storing a content of the execution in hand.
LEMMA StoreStep ==
  ASSUME TypeOK, Custodian, NEW p \in Controllers, NEW c \in Contents, Link(p, c) \/ Unlink(p, c)
  PROVE  Custodian'
<1>1. InHand(p) /\ FilesTyped
  BY DEF Custodian
<1>2. object' \in [Contents -> {"none", "linked", "alone"}] /\ Installed
  BY <1>1 DEF Link, Unlink, FilesTyped, Installed
<1>3. UNCHANGED vars
  BY DEF Link, Unlink
<1>4. CASE Link(p, c)
  <2>1. PICK step \in {"log", "output", "logged", "stored"} :
          /\ Put(p, step)
          /\ step = "log" <=> (at[p] = "ready" /\ object[c] = "none")
          /\ step = "output" <=> (at[p] = "logged" /\ object[c] = "none")
          /\ step = "logged" <=> (at[p] = "ready" /\ object[c] # "none")
          /\ step \in {"logged", "stored"} => object[c] = "alone"
    BY <1>4 DEF Link, Verifies
  <2>2. step = "logged" => c = Log
    BY <1>4, <2>1 DEF Link, Storing
  <2>3. step \in {"output", "stored"} => c = Output[hand[p]] /\ at[p] = "logged"
    BY <1>4, <2>1 DEF Link, Storing
  <2>4. step \in Steps /\ step \in Holding /\ at[p] # "none"
    BY <1>4, <2>1 DEF Link, Steps, Holding
  <2>5. step \in Holding \ {"ready", "log"} => object'[Log] = "alone"
    BY <1>1, <1>2, <2>1, <2>2, <2>3, ContentsAssumption DEF InHand, Holding, Installed
  <2>6. step \in {"stored", "cleaned"} => object'[Output[hand[p]]] = "alone"
    BY <1>2, <2>1, <2>3 DEF Installed
  <2> QED
    BY <1>2, <1>3, <2>1, <2>4, <2>5, <2>6, FileStep
<1>5. CASE Unlink(p, c)
  <2>1. PICK step \in {"logged", "stored"} :
          Put(p, step) /\ (step = "logged" <=> at[p] = "log")
    BY <1>5 DEF Unlink
  <2>2. object'[c] = "alone"
    BY <1>1, <1>5 DEF Unlink, FilesTyped
  <2>3. step = "logged" => c = Log
    BY <1>5, <2>1 DEF Unlink, Storing
  <2>4. step = "stored" => c = Output[hand[p]] /\ at[p] = "output"
    BY <1>5, <2>1 DEF Unlink, Storing
  <2>5. step \in Steps /\ step \in Holding /\ at[p] # "none"
    BY <1>5, <2>1 DEF Unlink, Steps, Holding
  <2>6. object'[Log] = "alone"
    BY <1>1, <1>2, <2>1, <2>2, <2>3, <2>4, ContentsAssumption DEF InHand, Holding, Installed
  <2>7. step \in {"stored", "cleaned"} => object'[Output[hand[p]]] = "alone"
    BY <2>2, <2>4, <2>1
  <2> QED
    BY <1>2, <1>3, <2>1, <2>5, <2>6, <2>7, FileStep
<1> QED
  BY <1>4, <1>5

\* Publishing, undoing and removing a workspace.
LEMMA WorkspaceStep ==
  ASSUME TypeOK, Custodian, NEW p \in Controllers,
         TakeLock(p) \/ Publish(p) \/ Unlock(p) \/ FailSpec(p) \/ RefusePrepare(p) \/ Undo(p) \/ Cleanup(p)
  PROVE  Custodian'
<1>1. InHand(p) /\ FilesTyped
  BY DEF Custodian
<1>2. /\ UNCHANGED vars /\ UNCHANGED object
      /\ object' \in [Contents -> {"none", "linked", "alone"}] /\ Installed
  BY <1>1 DEF TakeLock, Publish, Unlock, FailSpec, RefusePrepare, Undo, Cleanup, FilesTyped, Installed
<1>3. CASE TakeLock(p) \/ Publish(p) \/ Unlock(p) \/ FailSpec(p) \/ RefusePrepare(p) \/ Undo(p)
  <2>1. PICK step \in {"none", "publish", "unlock", "withdraw", "ready", "undo"} : Put(p, step)
    BY <1>3 DEF TakeLock, Publish, Unlock, FailSpec, RefusePrepare, Undo
  <2>2. pc[p] \notin Running
    BY <1>1, <1>3 DEF TakeLock, Publish, Unlock, FailSpec, RefusePrepare, Undo, InHand, Holding, Running,
                      RunPhases
  <2>3. at[p] # "none" /\ step \in Steps
    BY <1>3, <2>1 DEF TakeLock, Publish, Unlock, FailSpec, RefusePrepare, Undo, Steps, Locked
  <2>4. step \notin Holding \ {"ready", "log"} /\ step \notin {"stored", "cleaned"}
    BY <2>1 DEF Holding
  <2> QED
    BY <1>2, <2>1, <2>2, <2>3, <2>4, FileStep
<1>4. CASE Cleanup(p)
  <2>1. PICK step \in {"cleaned", "failed"} : Put(p, step) /\ (step = "cleaned" => at[p] = "stored")
    BY <1>4 DEF Cleanup
  <2>2. at[p] \in {"logged", "stored"}
    BY <1>4 DEF Cleanup
  <2>3. object[Log] = "alone" /\ (step = "cleaned" => object[Output[hand[p]]] = "alone")
    BY <1>1, <2>1, <2>2 DEF InHand, Holding
  <2>4. step \in Steps /\ step \in Holding
    BY <2>1 DEF Steps, Holding
  <2> QED
    BY <1>2, <2>1, <2>2, <2>3, <2>4, FileStep
<1> QED
  BY <1>3, <1>4

\* A step of the journal by a controller that keeps its hand or has nothing left to run.
LEMMA HandStep ==
  ASSUME TypeOK, Custodian, NEW p \in Controllers, NEW step \in Steps, UNCHANGED object,
         Onward(p), Put(p, step), step \in {at[p], "none", "undo"},
         step # "none" => at[p] # "none",
         pc'[p] \in Running => step = at[p]
  PROVE  Custodian'
<1>1. FilesTyped'
  BY DEF Custodian, FilesTyped, Put
<1>2. ASSUME NEW q \in Controllers \ {p}
      PROVE  InHand(q)'
  BY <1>1 DEF Put, Custodian, FilesTyped, InHand, Onward
<1>3. InHand(p)'
  <2>1. at'[p] = step /\ (step # "none" => hand'[p] = hand[p])
    BY DEF Put, Custodian, FilesTyped
  <2>2. InHand(p)
    BY DEF Custodian
  <2>3. pc'[p] \in Running => at[p] \in Holding /\ step = at[p] /\ hand[p] = job'[p].exec
    BY <2>2 DEF InHand, Onward
  <2>4. step \in {"none", "undo"} \/ step = at[p]
    OBVIOUS
  <2> QED
    BY <2>1, <2>2, <2>3, <2>4 DEF InHand, Holding
<1> QED
  BY <1>1, <1>2, <1>3 DEF Custodian

\* A controller that ends, abandons its execution or restores a row runs nothing afterwards.
LEMMA Stops ==
  ASSUME TypeOK, NEW p \in Controllers,
         \/ Crash(p) \/ Tear(p) \/ DieStoring(p) \/ Quit(p) \/ Start(p)
         \/ \E e \in Executions : Abandon(p, e) \/ Rehydrate(p, e)
  PROVE  Onward(p) /\ pc'[p] \notin Running /\ UNCHANGED exec
<1>1. pc'[p] \notin Running /\ UNCHANGED exec
  BY DEF Crash, Tear, DieStoring, Quit, Start, Abandon, Rehydrate, Done, Exit, Goto, db, TypeOK, Running, RunPhases
<1>2. \A q \in Controllers \ {p} : pc'[q] = pc[q] /\ job'[q] = job[q]
  BY DEF Crash, Tear, DieStoring, Quit, Start, Abandon, Rehydrate, Done, Exit, Goto, TypeOK
<1> QED
  BY <1>1, <1>2 DEF Onward

\* Where a step of the journal leaves the controller with its files.
LEMMA AfterStepIs ==
  ASSUME TypeOK, Custodian, NEW p \in Controllers
  PROVE  /\ AfterStep(p) \in Steps
         /\ AfterStep(p) \in {at[p], "none", "undo"}
         /\ AfterStep(p) # "none" => at[p] # "none"
         /\ pc'[p] \in Running /\ pc[p] \in Running \ {"record"} => AfterStep(p) = at[p]
BY DEF AfterStep, Custodian, FilesTyped, InHand, Steps, Locked, Holding, Running, RunPhases

\* A controller with an execution in hand goes on.
LEMMA GoOnStep ==
  ASSUME TypeOK, Custodian, NEW p \in Controllers, GoOn(p)
  PROVE  Custodian'
<1>1. CASE Journal(p)
  <2>1. Onward(p) /\ Put(p, AfterStep(p)) /\ UNCHANGED object
    BY <1>1, AdvanceOnward DEF Journal
  <2> QED
    BY <2>1, AfterStepIs, HandStep DEF Onward
<1>2. ASSUME NEW c \in Contents, Collide(p, c)
      PROVE  Custodian'
  <2>1. hand[p] \in Executions
    BY <1>2 DEF Collide, Custodian, InHand
  <2>2. Onward(p) /\ pc'[p] \notin Running
    BY <1>2, <2>1, Stops DEF Collide
  <2> QED
    BY <1>2, <2>2, HandStep DEF Collide, Steps
<1> QED
  BY <1>1, <1>2, WorkspaceStep, StoreStep DEF GoOn

\* A controller takes an execution in hand.
LEMMA BeginStep ==
  ASSUME TypeOK, Custodian, NEW p \in Controllers, NEW e \in Executions, Begin(p, e)
  PROVE  Custodian'
<1>1. FilesTyped'
  BY DEF Begin, Custodian, FilesTyped, Steps
<1>2. ASSUME NEW q \in Controllers \ {p}
      PROVE  InHand(q)'
  BY DEF Begin, Custodian, FilesTyped, InHand, vars
<1>3. InHand(p)'
  BY DEF Begin, Custodian, FilesTyped, InHand, vars, Holding, Running, RunPhases
<1> QED
  BY <1>1, <1>2, <1>3 DEF Custodian

\* The journal admits the execution in hand.
LEMMA AdmitStep ==
  ASSUME TypeOK, Custodian, NEW p \in Controllers, Admit(p)
  PROVE  Custodian'
<1>1. job[p] \in Job
  BY DEF TypeOK
<1>2. job' = [job EXCEPT ![p].exec = hand[p]] /\ pc' = [pc EXCEPT ![p] = pc'[p]]
  BY DEF Admit, Prepare, Goto, TypeOK
<1>3. job'[p].exec = hand[p] /\ \A q \in Controllers \ {p} : job'[q] = job[q] /\ pc'[q] = pc[q]
  BY <1>1, <1>2 DEF TypeOK, Job
<1>4. UNCHANGED <<object, at, hand>> /\ at[p] = "ready"
  BY DEF Admit, files
<1> QED
  BY <1>3, <1>4 DEF Custodian, FilesTyped, InHand, Holding

\* The other steps.
LEMMA OtherStep ==
  ASSUME TypeOK, Custodian, NEW p \in Controllers,
         \/ Fail(p) \/ StartAgain(p) \/ EndCommand(p) \/ Die(p) \/ DieWriting(p)
         \/ \E e \in Executions : Restore(p, e)
  PROVE  Custodian'
<1>1. InHand(p) /\ at[p] \in Steps /\ hand \in [Controllers -> Executions \cup {None}]
  BY DEF Custodian, FilesTyped
<1>2. CASE Fail(p)
  <2>1. Onward(p) /\ pc'[p] \notin Running
    BY <1>2, Stops DEF Fail
  <2> QED
    BY <1>2, <2>1, AfterStepIs, HandStep DEF Fail
<1>3. CASE Die(p)
  <2>1. Onward(p) /\ pc'[p] \notin Running
    BY <1>3, Stops DEF Die
  <2> QED
    BY <1>3, <2>1, HandStep DEF Die, Steps
<1>4. CASE StartAgain(p) \/ EndCommand(p) \/ DieWriting(p)
  <2>1. Onward(p) /\ pc'[p] \notin Running
    BY <1>4, Stops DEF StartAgain, EndCommand, DieWriting
  <2>2. UNCHANGED <<object, at, hand>>
    BY <1>4 DEF StartAgain, EndCommand, DieWriting, files
  <2> QED
    BY <2>1, <2>2 DEF Custodian, FilesTyped, InHand, Onward
<1>5. ASSUME NEW e \in Executions, Restore(p, e)
      PROVE  Custodian'
  <2>1. Onward(p) /\ pc'[p] \notin Running
    BY <1>5, Stops DEF Restore
  <2>2. CASE UNCHANGED <<at, hand>>
    BY <1>5, <2>1, <2>2 DEF Restore, Custodian, FilesTyped, InHand, Onward
  <2>3. CASE at[p] = "ready" /\ Put(p, "undo")
    BY <1>5, <2>1, <2>3, HandStep DEF Restore, Steps
  <2> QED
    BY <1>5, <2>2, <2>3 DEF Restore
<1> QED
  BY <1>2, <1>3, <1>4, <1>5

\* Every step keeps the invariant.
LEMMA CustodianStep == TypeOK /\ Custodian /\ [NextFiles]_all => Custodian'
<1> SUFFICES ASSUME TypeOK, Custodian, [NextFiles]_all PROVE Custodian'
  OBVIOUS
<1>1. CASE Elsewhere
  <2>1. UNCHANGED <<pc, job, object, at, hand>>
    BY <1>1 DEF Elsewhere, LauncherExits, CandidateExits, files
  <2> QED
    BY <2>1 DEF Custodian, FilesTyped, InHand
<1>2. CASE UNCHANGED all
  BY <1>2 DEF all, vars, files, Custodian, FilesTyped, InHand
<1> QED
  BY <1>1, <1>2, GoOnStep, BeginStep, AdmitStep, OtherStep DEF NextFiles

-----------------------------------------------------------------------------
(* What is proved of the journal holds with the files around it.           *)

\* One step around the journal is a step of the journal or leaves it alone.
LEMMA JournalStep == TypeOK /\ Custodian /\ [NextFiles]_all => [Next]_vars
<1> SUFFICES ASSUME TypeOK, Custodian, [NextFiles]_all PROVE [Next]_vars
  OBVIOUS
<1>1. ASSUME NEW p \in Controllers, GoOn(p)
      PROVE  [Next]_vars
  <2>1. CASE Journal(p)
    BY <2>1 DEF Journal, Next
  <2>2. ASSUME NEW c \in Contents, Collide(p, c)
        PROVE  [Next]_vars
    <3>1. hand[p] \in Executions
      BY <2>2 DEF Collide, Custodian, InHand
    <3> QED
      BY <2>2, <3>1 DEF Collide, Next, End
  <2> QED
    BY <1>1, <2>1, <2>2
    DEF GoOn, TakeLock, Publish, Unlock, FailSpec, RefusePrepare, Undo, Cleanup, Link, Unlink
<1>2. ASSUME NEW p \in Controllers, Admit(p)
      PROVE  [Next]_vars
  <2>1. hand[p] \in Executions
    BY <1>2 DEF Admit, Custodian, InHand
  <2> QED
    BY <1>2, <2>1 DEF Admit, Next, Request
<1>3. ASSUME NEW p \in Controllers, Fail(p) \/ StartAgain(p) \/ EndCommand(p) \/ Die(p) \/ DieWriting(p)
      PROVE  [Next]_vars
  BY <1>3 DEF Fail, StartAgain, EndCommand, Die, DieWriting, Next, End
<1>4. ASSUME NEW p \in Controllers, NEW e \in Executions, Begin(p, e) \/ Restore(p, e)
      PROVE  [Next]_vars
  BY <1>4 DEF Begin, Restore, Next, Request
<1>5. CASE Elsewhere
  BY <1>5 DEF Elsewhere, Next
<1>6. CASE UNCHANGED all
  BY <1>6 DEF all
<1> QED
  BY <1>1, <1>2, <1>3, <1>4, <1>5, <1>6 DEF NextFiles

\* The invariant holds of every behaviour, together with the types of the journal.
LEMMA CustodianHolds == SpecFiles => [](TypeOK /\ Custodian)
<1>1. InitFiles => TypeOK /\ Custodian
  <2> SUFFICES ASSUME InitFiles PROVE TypeOK /\ Custodian
    OBVIOUS
  <2>1. FilesTyped
    BY DEF InitFiles, FilesTyped, Steps
  <2>2. ASSUME NEW p \in Controllers
        PROVE  InHand(p)
    BY DEF InitFiles, Init, InHand, Holding, Running, RunPhases
  <2> QED
    BY <2>1, <2>2, InitTyped DEF InitFiles, Custodian
<1>2. TypeOK /\ Custodian /\ [NextFiles]_all => TypeOK' /\ Custodian'
  BY CustodianStep, JournalStep, TypeStep
<1> QED
  BY <1>1, <1>2, PTL DEF SpecFiles

\* The files around it leave the journal what it is: whatever the executor does with objects,
\* locks and workspaces, and wherever it fails, the journal behaves as LaunchJournal says.
THEOREM FilesKeepJournal == SpecFiles => Spec
<1>1. InitFiles => Init
  BY DEF InitFiles
<1> QED
  BY <1>1, JournalStep, CustodianHolds, PTL DEF SpecFiles, Spec

-----------------------------------------------------------------------------
(* What a terminal row refers to stays readable.                           *)

\* No step takes an installed content away.
LEMMA StaysInstalled ==
  ASSUME TypeOK, Custodian, [NextFiles]_all
  PROVE  Installed
<1>1. object \in [Contents -> {"none", "linked", "alone"}]
  BY DEF Custodian, FilesTyped
<1>2. ASSUME NEW p \in Controllers, GoOn(p)
      PROVE  Installed
  BY <1>1, <1>2 DEF GoOn, Link, Unlink, Collide, TakeLock, Publish, Unlock, FailSpec, RefusePrepare, Undo,
                    Cleanup, Journal, Installed
<1>3. ASSUME ~\E p \in Controllers : GoOn(p)
      PROVE  UNCHANGED object
  BY <1>3 DEF NextFiles, Fail, Admit, StartAgain, EndCommand, Die, DieWriting, Begin, Restore, Elsewhere, files, all
<1> QED
  BY <1>2, <1>3 DEF Installed

\* A row becomes terminal only with what its controller has installed.
LEMMA RecordRefers ==
  ASSUME TypeOK, Custodian, [NextFiles]_all, NEW e \in Executions, exec'[e] # exec[e],
         exec'[e] \in {"SUCCEEDED", "FAILED"}
  PROVE  \A c \in References(e)' : object'[c] = "alone"
<1>1. PICK p \in Controllers : Journal(p)
  <2>1. ~UNCHANGED exec
    OBVIOUS
  <2>2. ASSUME NEW p \in Controllers, \E f \in Executions : Abandon(p, f) \/ Rehydrate(p, f)
        PROVE  UNCHANGED exec
    BY <2>2, Stops
  <2>3. ASSUME NEW p \in Controllers, Crash(p) \/ Tear(p) \/ DieStoring(p) \/ Quit(p) \/ Start(p)
        PROVE  UNCHANGED exec
    BY <2>3, Stops
  <2>4. ASSUME NEW p \in Controllers, NEW c \in Contents
        PROVE  ~(Link(p, c) \/ Unlink(p, c) \/ Collide(p, c))
    BY <2>1, <2>2 DEF Link, Unlink, Collide, Abandon, db, vars
  <2>5. ASSUME NEW p \in Controllers
        PROVE  ~(TakeLock(p) \/ Publish(p) \/ Unlock(p) \/ FailSpec(p) \/ RefusePrepare(p) \/ Undo(p) \/ Cleanup(p))
    BY <2>1 DEF TakeLock, Publish, Unlock, FailSpec, RefusePrepare, Undo, Cleanup, vars
  <2>6. ASSUME NEW p \in Controllers
        PROVE  /\ ~(Fail(p) \/ Admit(p) \/ StartAgain(p) \/ EndCommand(p) \/ Die(p) \/ DieWriting(p))
               /\ \A f \in Executions : ~(Begin(p, f) \/ Restore(p, f))
    BY <2>1, <2>2, <2>3 DEF Fail, Admit, Prepare, db, StartAgain, EndCommand, Die, DieWriting, Begin, Restore, vars
  <2>7. ~Elsewhere /\ ~UNCHANGED all
    BY <2>1 DEF Elsewhere, LauncherExits, CandidateExits, db, all, vars
  <2> QED
    BY <2>4, <2>5, <2>6, <2>7 DEF NextFiles, GoOn
<1>2. Onward(p) /\ RowMoves(p)
  BY <1>1, AdvanceOnward DEF Journal
<1>3. pc[p] = "record" /\ job[p].exec = e
  BY <1>2 DEF RowMoves
<1>4. /\ at[p] \in {"cleaned", "failed"} /\ hand[p] = e
      /\ exec'[e] = IF at[p] = "cleaned" THEN "SUCCEEDED" ELSE "FAILED"
  BY <1>1, <1>3 DEF Journal, MayFinish, Custodian, InHand, Running, RunPhases
<1>5. object'[Log] = "alone" /\ (at[p] = "cleaned" => object'[Output[e]] = "alone")
  BY <1>1, <1>4 DEF Journal, Custodian, InHand, Holding
<1> QED
  BY <1>4, <1>5 DEF References

\* Whatever a terminal row refers to stays readable and verifiable, for any number of
\* controllers that store the same contents, die and try again.
THEOREM RecordsStayReadable == SpecFiles => []RecordedReadable
<1>1. InitFiles => RecordedReadable
  BY DEF InitFiles, Init, RecordedReadable, References
<1>2. TypeOK /\ Custodian /\ RecordedReadable /\ [NextFiles]_all => RecordedReadable'
  <2> SUFFICES ASSUME TypeOK, Custodian, RecordedReadable, [NextFiles]_all, NEW e \in Executions
               PROVE  \A c \in References(e)' : object'[c] = "alone"
    BY DEF RecordedReadable
  <2>1. CASE exec'[e] = exec[e]
    <3>1. References(e)' = References(e) /\ References(e) \subseteq Contents
      BY <2>1, ContentsAssumption DEF References
    <3> QED
      BY <3>1, StaysInstalled DEF RecordedReadable, Installed
  <2>2. CASE exec'[e] # exec[e] /\ exec'[e] \in {"SUCCEEDED", "FAILED"}
    BY <2>2, RecordRefers
  <2>3. CASE exec'[e] \notin {"SUCCEEDED", "FAILED"}
    BY <2>3 DEF References
  <2> QED
    BY <2>1, <2>2, <2>3
<1> QED
  BY <1>1, <1>2, CustodianHolds, PTL DEF SpecFiles

-----------------------------------------------------------------------------
(* What is in the way, and who left it there.                              *)

\* Where a controller with files in hand is with the journal.
Placed(p) ==
  /\ at[p] \in Holding \ {"ready"} => pc[p] = "record"
  /\ at[p] \in {"lock", "undo"} \cup Locked => pc[p] = "idle"
  /\ pc[p] \in Running \ {"reserve", "create"} => exec[hand[p]] # "NONE"

\* The file steps after the workspace was published.
Owning == {"unlock", "undo"} \cup Holding

LocksExplained ==
  \A e \in lock : <<"lock", e>> \in left \/ \E p \in Controllers : hand[p] = e /\ at[p] \in Locked

WorkspacesExplained ==
  \A e \in workspace :
    /\ e \in Executions
    /\ \/ exec[e] # "NONE" \/ <<"workspace", e>> \in left
       \/ \E p \in Controllers : hand[p] = e /\ at[p] \in Owning

ObjectsExplained ==
  \A c \in Contents :
    object[c] = "linked" =>
      \/ <<"object", c>> \in left
      \/ \E p \in Controllers : at[p] \in {"log", "output"} /\ Storing(p, c)

Accounted ==
  /\ \A p \in Controllers : Placed(p)
  /\ LocksExplained /\ WorkspacesExplained /\ ObjectsExplained

\* A row that exists never disappears.
LEMMA RowsStay ==
  ASSUME TypeOK, [Next]_vars
  PROVE  \A e \in Executions : exec[e] # "NONE" => exec'[e] # "NONE"
<1>1. ASSUME NEW p \in Controllers, NEW e \in Executions, Step(p, e)
      PROVE  \A f \in Executions : exec[f] # "NONE" => exec'[f] # "NONE"
  BY <1>1 DEF Step, Reserve, Create, Spawn, CommitExec, CommitLaunch, NotReleased, Release, Supervise,
              Record, Settle, Pick, Inspect, Interrupt, Close, Report, Refuse, MoveExec, db, TypeOK, DatabaseOK
<1>2. ASSUME NEW p \in Controllers, Start(p) \/ Request(p) \/ End(p) \/ NextLoop(p) \/ Resumed(p)
      PROVE  UNCHANGED exec
  BY <1>2 DEF Start, Request, Prepare, Rehydrate, End, Crash, Tear, DieStoring, Quit, Abandon, NextLoop, Resumed, db
<1>3. ASSUME NEW e \in Executions, LauncherExits(e) \/ CandidateExits(e)
      PROVE  UNCHANGED exec
  BY <1>3 DEF LauncherExits, CandidateExits, db
<1> QED
  BY <1>1, <1>2, <1>3 DEF Next, Advance, vars

\* A controller passes to the spawn of its execution only by creating its row.
LEMMA RunsWithRow ==
  ASSUME TypeOK, NEW p \in Controllers, Advance(p),
         pc'[p] \in Running \ {"reserve", "create"}
  PROVE  pc[p] \in Running \ {"reserve", "create"} \/ exec'[job[p].exec] # "NONE"
<1>1. pc[p] \in Running
  BY AdvanceOnward DEF Onward
<1>2. ASSUME NEW e \in Executions, Reserve(p, e)
      PROVE  FALSE
  BY <1>2 DEF Reserve, Goto, TypeOK
<1>3. ASSUME NEW e \in Executions, Create(p, e)
      PROVE  exec'[job[p].exec] # "NONE"
  BY <1>3 DEF Create, At, TypeOK, DatabaseOK
<1>4. ASSUME pc[p] \in {"reserve", "create"}
      PROVE  \E e \in Executions : Reserve(p, e) \/ Create(p, e) \/ Refuse(p, e)
  BY <1>4 DEF Advance, Step, NextLoop, Resumed, Spawn, CommitExec, CommitLaunch, NotReleased, Release,
              Supervise, Record, Settle, Pick, Inspect, Interrupt, Close, Report, At
<1>5. ASSUME NEW e \in Executions, Refuse(p, e)
      PROVE  FALSE
  BY <1>5, OtherOnward, <1>1 DEF Refuse, Done, Exit, Goto, TypeOK, Running, RunPhases
<1> QED
  BY <1>1, <1>2, <1>3, <1>4, <1>5

\* What a step does to the controllers that do not take it, and to what is left.
LEMMA OthersStay ==
  ASSUME TypeOK, Custodian, NEW p \in Controllers,
         \/ GoOn(p) \/ Fail(p) \/ Admit(p) \/ StartAgain(p) \/ EndCommand(p) \/ Die(p) \/ DieWriting(p)
         \/ \E e \in Executions : Begin(p, e) \/ Restore(p, e)
  PROVE  /\ \A q \in Controllers \ {p} :
              at'[q] = at[q] /\ hand'[q] = hand[q] /\ pc'[q] = pc[q] /\ job'[q] = job[q]
         /\ left \subseteq left'
<1>1. \A q \in Controllers \ {p} : at'[q] = at[q] /\ hand'[q] = hand[q]
  BY DEF GoOn, Link, Unlink, Collide, TakeLock, Publish, Unlock, FailSpec, RefusePrepare, Undo, Cleanup, Journal,
         Fail, Admit, StartAgain, EndCommand, Die, DieWriting, Begin, Restore, Put, files, Custodian, FilesTyped
<1>2. left \subseteq left'
  BY DEF GoOn, Link, Unlink, Collide, TakeLock, Publish, Unlock, FailSpec, RefusePrepare, Undo, Cleanup, Journal,
         Fail, Admit, StartAgain, EndCommand, Die, DieWriting, Begin, Restore, files, Leave
<1>3. \A q \in Controllers \ {p} : pc'[q] = pc[q] /\ job'[q] = job[q]
  <2>1. CASE UNCHANGED vars
    BY <2>1 DEF vars
  <2>2. CASE Journal(p)
    BY <2>2, AdvanceOnward DEF Journal, Onward
  <2>3. CASE Fail(p) \/ StartAgain(p) \/ EndCommand(p) \/ Die(p) \/ DieWriting(p) \/ \E e \in Executions : Restore(p, e)
    BY <2>3, Stops DEF Fail, StartAgain, EndCommand, Die, DieWriting, Restore, Onward
  <2>4. CASE Admit(p)
    BY <2>4 DEF Admit, Prepare, Goto, TypeOK
  <2>5. ASSUME NEW c \in Contents, Collide(p, c)
        PROVE  \A q \in Controllers \ {p} : pc'[q] = pc[q] /\ job'[q] = job[q]
    <3>1. hand[p] \in Executions
      BY <2>5 DEF Collide, Custodian, InHand
    <3> QED
      BY <2>5, <3>1, Stops DEF Collide, Onward
  <2>6. ASSUME NEW c \in Contents, Link(p, c) \/ Unlink(p, c)
        PROVE  UNCHANGED vars
    BY <2>6 DEF Link, Unlink
  <2>7. ASSUME \/ TakeLock(p) \/ Publish(p) \/ Unlock(p) \/ FailSpec(p) \/ RefusePrepare(p) \/ Undo(p) \/ Cleanup(p)
               \/ \E e \in Executions : Begin(p, e)
        PROVE  UNCHANGED vars
    BY <2>7 DEF TakeLock, Publish, Unlock, FailSpec, RefusePrepare, Undo, Cleanup, Begin
  <2> QED
    BY <2>1, <2>2, <2>3, <2>4, <2>5, <2>6, <2>7 DEF GoOn
<1> QED
  BY <1>1, <1>2, <1>3

\* A controller without an execution takes no step of one.
LEMMA AdvanceBusy ==
  ASSUME NEW p \in Controllers, Advance(p)
  PROVE  pc[p] # "idle"
BY DEF Advance, NextLoop, Resumed, Step, Reserve, Create, Spawn, CommitExec, CommitLaunch, NotReleased,
       Release, Supervise, Record, Settle, Pick, Inspect, Interrupt, Close, Report, Refuse, At

\* The controller that takes a step stays where its files say.
LEMMA PlacedStep ==
  ASSUME TypeOK, Custodian, NEW p \in Controllers, Placed(p),
         \/ GoOn(p) \/ Fail(p) \/ Admit(p) \/ StartAgain(p) \/ EndCommand(p) \/ Die(p) \/ DieWriting(p)
         \/ \E e \in Executions : Begin(p, e) \/ Restore(p, e)
  PROVE  Placed(p)'
<1>1. InHand(p) /\ FilesTyped
  BY DEF Custodian
<1>2. CASE Journal(p)
  <2>1. at'[p] = AfterStep(p) /\ (AfterStep(p) # "none" => hand'[p] = hand[p])
    BY <1>1, <1>2 DEF Journal, Put, FilesTyped
  <2>2. pc[p] # "idle"
    BY <1>2, AdvanceBusy DEF Journal
  <2>3. at[p] \notin {"lock", "undo"} \cup Locked /\ at'[p] \notin {"lock"} \cup Locked
    BY <2>1, <2>2 DEF Placed, AfterStep, Locked
  <2>4. at'[p] = "undo" => pc'[p] = "idle"
    BY <2>1, <2>3 DEF AfterStep
  <2>5. at'[p] \notin Holding \ {"ready"}
    BY <2>1 DEF AfterStep, Placed, Holding
  <2>6. ASSUME pc'[p] \in Running \ {"reserve", "create"}
        PROVE  exec'[hand'[p]] # "NONE"
    <3>1. pc[p] \in Running /\ pc[p] # "record" /\ hand[p] = job[p].exec /\ at[p] \in Holding
      BY <1>1, <1>2, <2>6, AdvanceOnward DEF Journal, Onward, InHand
    <3>2. AfterStep(p) = at[p] /\ hand'[p] = hand[p] /\ hand[p] \in Executions
      BY <1>1, <2>1, <2>6, <3>1 DEF AfterStep, InHand, Holding, Running, RunPhases
    <3>3. exec[hand[p]] # "NONE" \/ exec'[hand[p]] # "NONE"
      BY <1>2, <2>6, <3>1, RunsWithRow DEF Journal, Placed
    <3>4. exec[hand[p]] # "NONE" => exec'[hand[p]] # "NONE"
      BY <1>2, <3>2, RowsStay DEF Journal, Next
    <3> QED
      BY <3>2, <3>3, <3>4
  <2> QED
    BY <2>3, <2>4, <2>5, <2>6 DEF Placed
<1>3. CASE Fail(p)
  <2>1. pc'[p] = "idle" /\ pc[p] # "idle"
    BY <1>3 DEF Fail, Abandon, Done, Goto, At, TypeOK
  <2>2. at'[p] = AfterStep(p)
    BY <1>1, <1>3 DEF Fail, Put, FilesTyped
  <2>3. at'[p] \notin Holding \ {"ready"}
    BY <2>2 DEF AfterStep, Placed, Holding
  <2> QED
    BY <2>1, <2>3 DEF Placed, Running, RunPhases
<1>4. ASSUME NEW c \in Contents, Collide(p, c)
      PROVE  Placed(p)'
  <2>1. at'[p] = "none" /\ pc'[p] = "idle"
    BY <1>1, <1>4 DEF Collide, Put, FilesTyped, Abandon, Done, Goto, TypeOK
  <2> QED
    BY <2>1 DEF Placed, Running, RunPhases, Holding, Locked
<1>5. CASE Die(p) \/ DieWriting(p) \/ EndCommand(p) \/ StartAgain(p)
  <2>1. at'[p] \in {"none", "ready"}
    BY <1>1, <1>5 DEF Die, DieWriting, EndCommand, StartAgain, Put, FilesTyped, files, Start, Placed, Holding, Steps
  <2>2. pc'[p] \notin Running
    BY <1>5, Stops DEF Die, DieWriting, EndCommand, StartAgain
  <2> QED
    BY <2>1, <2>2 DEF Placed, Holding, Locked
<1>6. CASE Admit(p)
  <2>1. at'[p] = "ready" /\ pc'[p] \in {"reserve", "create"}
    BY <1>6 DEF Admit, files, Prepare, Goto, TypeOK
  <2> QED
    BY <2>1 DEF Placed, Locked
<1>7. ASSUME NEW e \in Executions, Begin(p, e) \/ Restore(p, e)
      PROVE  Placed(p)'
  <2>1. pc'[p] = "idle"
    BY <1>7 DEF Begin, Restore, Rehydrate, vars
  <2>2. at'[p] \in {"lock", "undo", "none"}
    BY <1>1, <1>7 DEF Begin, Restore, Put, FilesTyped
  <2> QED
    BY <2>1, <2>2 DEF Placed, Running, RunPhases, Holding
<1>8. ASSUME NEW c \in Contents, Link(p, c) \/ Unlink(p, c)
      PROVE  Placed(p)'
  <2>1. at[p] \in {"ready", "log", "logged", "output"} /\ pc[p] = "record"
    BY <1>8 DEF Link, Unlink, Placed, Holding
  <2>2. at'[p] \in Holding /\ hand'[p] = hand[p] /\ UNCHANGED vars
    BY <1>1, <1>8 DEF Link, Unlink, Put, FilesTyped, Holding
  <2> QED
    BY <2>1, <2>2 DEF Placed, vars, Holding, Locked
<1>9. CASE TakeLock(p) \/ Publish(p) \/ Unlock(p) \/ FailSpec(p) \/ RefusePrepare(p) \/ Undo(p)
  <2>1. pc'[p] = "idle"
    BY <1>9 DEF TakeLock, Publish, Unlock, FailSpec, RefusePrepare, Undo, Placed, Locked, vars
  <2>2. at'[p] \in {"none", "publish", "unlock", "withdraw", "ready", "undo"}
    BY <1>1, <1>9 DEF TakeLock, Publish, Unlock, FailSpec, RefusePrepare, Undo, Put, FilesTyped
  <2> QED
    BY <2>1, <2>2 DEF Placed, Running, RunPhases, Holding
<1>10. CASE Cleanup(p)
  <2>1. pc'[p] = "record" /\ UNCHANGED exec /\ exec[hand[p]] # "NONE"
    BY <1>10 DEF Cleanup, Placed, Holding, vars, Running, RunPhases
  <2>2. at'[p] \in {"cleaned", "failed"} /\ hand'[p] = hand[p]
    BY <1>1, <1>10 DEF Cleanup, Put, FilesTyped
  <2> QED
    BY <2>1, <2>2 DEF Placed, Locked
<1> QED
  BY <1>2, <1>3, <1>4, <1>5, <1>6, <1>7, <1>8, <1>9, <1>10 DEF GoOn

\* A lock that stays has its holder at it, or has been left by a death.
LEMMA LockStep ==
  ASSUME TypeOK, Custodian, LocksExplained, NEW p \in Controllers, Placed(p),
         \/ GoOn(p) \/ Fail(p) \/ Admit(p) \/ StartAgain(p) \/ EndCommand(p) \/ Die(p) \/ DieWriting(p)
         \/ \E e \in Executions : Begin(p, e) \/ Restore(p, e)
  PROVE  LocksExplained'
<1> SUFFICES ASSUME NEW e, e \in lock'
             PROVE  \/ <<"lock", e>> \in left'
                    \/ \E q \in Controllers : hand'[q] = e /\ at'[q] \in Locked
  BY DEF LocksExplained
<1>1. FilesTyped
  BY DEF Custodian
<1>2. CASE TakeLock(p) /\ e \notin lock
  BY <1>1, <1>2 DEF TakeLock, Put, FilesTyped, Locked
<1>3. e \in lock \/ (TakeLock(p) /\ e \notin lock)
  BY DEF GoOn, Link, Unlink, Collide, TakeLock, Publish, Unlock, FailSpec, RefusePrepare, Undo, Cleanup, Journal,
         Fail, Admit, StartAgain, EndCommand, Die, DieWriting, Begin, Restore, files
<1>4. CASE e \in lock
  <2>1. CASE <<"lock", e>> \in left
    BY <2>1, OthersStay
  <2>2. ASSUME NEW q \in Controllers \ {p}, hand[q] = e, at[q] \in Locked
        PROVE  hand'[q] = e /\ at'[q] \in Locked
    BY <2>2, OthersStay
  <2>3. CASE hand[p] = e /\ at[p] \in Locked
    <3>1. pc[p] = "idle"
      BY <2>3 DEF Placed
    <3>2. Publish(p) \/ Unlock(p) \/ Die(p)
      BY <2>3, <3>1, AdvanceBusy
      DEF GoOn, Link, Unlink, Collide, TakeLock, FailSpec, RefusePrepare, Undo, Cleanup, Journal, Fail,
          Abandon, At, Admit, StartAgain, Start, EndCommand, DieWriting, Begin, Restore, Locked
    <3>3. CASE Publish(p)
      BY <1>1, <2>3, <3>3 DEF Publish, Put, FilesTyped, Locked
    <3>4. CASE Die(p)
      BY <2>3, <3>4 DEF Die, Traces
    <3>5. CASE Unlock(p)
      BY <2>3, <3>5 DEF Unlock, Leave
    <3> QED
      BY <3>2, <3>3, <3>4, <3>5
  <2> QED
    BY <1>4, <2>1, <2>2, <2>3 DEF LocksExplained
<1> QED
  BY <1>2, <1>3, <1>4

\* A workspace that stays belongs to a row or a controller, or has been left.
LEMMA WorkspaceKept ==
  ASSUME TypeOK, Custodian, [NextFiles]_all, WorkspacesExplained, NEW p \in Controllers, Placed(p),
         \/ GoOn(p) \/ Fail(p) \/ Admit(p) \/ StartAgain(p) \/ EndCommand(p) \/ Die(p) \/ DieWriting(p)
         \/ \E e \in Executions : Begin(p, e) \/ Restore(p, e)
  PROVE  WorkspacesExplained'
<1> SUFFICES ASSUME NEW e, e \in workspace'
             PROVE  /\ e \in Executions
                    /\ \/ exec'[e] # "NONE" \/ <<"workspace", e>> \in left'
                       \/ \E q \in Controllers : hand'[q] = e /\ at'[q] \in Owning
  BY DEF WorkspacesExplained
<1>1. FilesTyped /\ InHand(p)
  BY DEF Custodian
<1>2. CASE Publish(p) /\ e \notin workspace
  <2>1. e = hand[p] /\ e \in Executions
    BY <1>1, <1>2 DEF Publish, InHand
  <2>2. Put(p, "unlock") \/ Leave(p, {"workspace"})
    BY <1>2 DEF Publish
  <2>3. CASE Leave(p, {"workspace"})
    BY <2>1, <2>3 DEF Leave
  <2>4. CASE Put(p, "unlock")
    BY <1>1, <2>1, <2>4 DEF Put, FilesTyped, Owning
  <2> QED
    BY <2>1, <2>2, <2>3, <2>4
<1>3. e \in workspace \/ (Publish(p) /\ e \notin workspace)
  BY DEF GoOn, Link, Unlink, Collide, TakeLock, Publish, Unlock, FailSpec, RefusePrepare, Undo, Cleanup, Journal,
         Fail, Admit, StartAgain, EndCommand, Die, DieWriting, Begin, Restore, files
<1>4. CASE e \in workspace
  <2>1. e \in Executions
    BY <1>4 DEF WorkspacesExplained
  <2>2. CASE exec[e] # "NONE"
    BY <2>1, <2>2, JournalStep, RowsStay
  <2>3. CASE <<"workspace", e>> \in left
    BY <2>1, <2>3, OthersStay
  <2>4. ASSUME NEW q \in Controllers \ {p}, hand[q] = e, at[q] \in Owning
        PROVE  hand'[q] = e /\ at'[q] \in Owning
    BY <2>4, OthersStay
  <2>5. CASE exec[e] = "NONE" /\ hand[p] = e /\ at[p] \in Owning
    <3>1. pc[p] # "record" /\ at[p] \in {"undo", "unlock", "ready"}
      BY <2>5 DEF Placed, Owning, Running, RunPhases
    <3>2. CASE Die(p)
      BY <2>1, <2>5, <3>2 DEF Die, Traces
    <3>3. CASE Undo(p)
      BY <2>1, <2>5, <3>3 DEF Undo, Leave
    <3>4. CASE UNCHANGED <<at, hand>>
      BY <2>1, <2>5, <3>4
    <3>5. ASSUME NEW step \in {"undo", "ready"}, Put(p, step)
          PROVE  hand'[p] = e /\ at'[p] \in Owning
      BY <1>1, <2>5, <3>5 DEF Put, FilesTyped, Owning, Holding
    <3>6. CASE Journal(p) \/ Fail(p)
      <4>1. Put(p, AfterStep(p))
        BY <3>6 DEF Journal, Fail
      <4>2. AfterStep(p) \in {"undo", "ready"}
        <5>1. pc[p] # "idle"
          BY <3>6, AdvanceBusy DEF Journal, Fail, Abandon, At
        <5>2. at[p] = "ready"
          BY <3>1, <5>1 DEF Placed, Locked
        <5> QED
          BY <3>1, <5>2 DEF AfterStep
      <4> QED
        BY <2>1, <4>1, <4>2, <3>5
    <3>7. CASE Unlock(p) \/ FailSpec(p) \/ RefusePrepare(p)
      <4>1. \/ Put(p, "ready") \/ Put(p, "undo")
            \/ Leave(p, {"workspace"}) \/ Leave(p, {"lock", "workspace"})
        BY <3>1, <3>7 DEF Unlock, FailSpec, RefusePrepare
      <4>2. CASE Leave(p, {"workspace"}) \/ Leave(p, {"lock", "workspace"})
        BY <2>1, <2>5, <4>2 DEF Leave
      <4> QED
        BY <2>1, <4>1, <4>2, <3>5
    <3>8. ASSUME NEW f \in Executions, Restore(p, f)
          PROVE  UNCHANGED <<at, hand>> \/ Put(p, "undo")
      BY <3>8 DEF Restore
    <3>9. CASE Admit(p) \/ StartAgain(p) \/ EndCommand(p) \/ DieWriting(p)
      BY <3>4, <3>9 DEF Admit, StartAgain, EndCommand, DieWriting, files
    <3>10. ASSUME NEW c \in Contents
           PROVE  ~(Link(p, c) \/ Unlink(p, c) \/ Collide(p, c))
      BY <3>1 DEF Link, Unlink, Collide
    <3>11. ~(TakeLock(p) \/ Publish(p) \/ Cleanup(p)) /\ \A f \in Executions : ~Begin(p, f)
      BY <3>1 DEF TakeLock, Publish, Cleanup, Begin
    <3> QED
      BY <2>1, <3>2, <3>3, <3>4, <3>5, <3>6, <3>7, <3>8, <3>9, <3>10, <3>11 DEF GoOn
  <2> QED
    BY <1>4, <2>1, <2>2, <2>3, <2>4, <2>5 DEF WorkspacesExplained
<1> QED
  BY <1>2, <1>3, <1>4

\* An object with two links is being installed, or its installer died.
LEMMA ObjectStep ==
  ASSUME TypeOK, Custodian, ObjectsExplained, NEW p \in Controllers, Placed(p),
         \/ GoOn(p) \/ Fail(p) \/ Admit(p) \/ StartAgain(p) \/ EndCommand(p) \/ Die(p) \/ DieWriting(p)
         \/ \E e \in Executions : Begin(p, e) \/ Restore(p, e)
  PROVE  ObjectsExplained'
<1> SUFFICES ASSUME NEW c \in Contents, object'[c] = "linked"
             PROVE  \/ <<"object", c>> \in left'
                    \/ \E q \in Controllers : at'[q] \in {"log", "output"} /\ Storing(q, c)'
  BY DEF ObjectsExplained
<1>1. FilesTyped /\ InHand(p)
  BY DEF Custodian
<1>2. CASE Link(p, c) /\ object[c] # "linked"
  <2>1. object[c] = "none" /\ Put(p, IF at[p] = "ready" THEN "log" ELSE "output") /\ Storing(p, c)
    BY <1>1, <1>2 DEF Link, Verifies, FilesTyped
  <2>2. at[p] \in {"ready", "logged"} /\ UNCHANGED job
    BY <1>2 DEF Link, vars
  <2>3. /\ at'[p] = IF at[p] = "ready" THEN "log" ELSE "output"
        /\ hand'[p] = hand[p]
    BY <1>1, <2>1 DEF Put, FilesTyped
  <2> QED
    BY <2>1, <2>2, <2>3 DEF Storing
<1>3. object[c] = "linked" \/ (Link(p, c) /\ object[c] # "linked")
  <2>1. ASSUME NEW d \in Contents, Link(p, d), d # c
        PROVE  object'[c] = object[c]
    BY <1>1, <2>1 DEF Link, FilesTyped
  <2>2. ASSUME NEW d \in Contents, Unlink(p, d)
        PROVE  object'[c] = object[c]
    BY <1>1, <2>2 DEF Unlink, FilesTyped
  <2> QED
    BY <2>1, <2>2
    DEF GoOn, Collide, TakeLock, Publish, Unlock, FailSpec, RefusePrepare, Undo, Cleanup, Journal,
        Fail, Admit, StartAgain, EndCommand, Die, DieWriting, Begin, Restore, files
<1>4. CASE object[c] = "linked"
  <2>1. CASE <<"object", c>> \in left
    BY <2>1, OthersStay
  <2>2. ASSUME NEW q \in Controllers \ {p}, at[q] \in {"log", "output"}, Storing(q, c)
        PROVE  at'[q] \in {"log", "output"} /\ Storing(q, c)'
    BY <2>2, OthersStay DEF Storing
  <2>3. CASE at[p] \in {"log", "output"} /\ Storing(p, c)
    <3>1. pc[p] = "record"
      BY <2>3 DEF Placed, Holding
    <3>2. CASE Die(p)
      BY <2>3, <3>2 DEF Die, Traces
    <3>3. ~(\E d \in Contents : Unlink(p, d))
      BY <1>1, <2>3 DEF Unlink, Storing, FilesTyped
    <3>4. ~(\E d \in Contents : Link(p, d) \/ Collide(p, d))
      BY <2>3 DEF Link, Collide
    <3>5. ~(Journal(p) \/ Fail(p))
      BY <2>3, <3>1 DEF Journal, MayFinish, Fail
    <3>6. ~(TakeLock(p) \/ Publish(p) \/ Unlock(p) \/ FailSpec(p) \/ RefusePrepare(p) \/ Undo(p) \/ Cleanup(p))
      BY <2>3 DEF TakeLock, Publish, Unlock, FailSpec, RefusePrepare, Undo, Cleanup
    <3>7. ~(Admit(p) \/ StartAgain(p) \/ EndCommand(p) \/ DieWriting(p))
      BY <2>3, <3>1 DEF Admit, StartAgain, Start, EndCommand, DieWriting
    <3>8. ~(\E f \in Executions : Begin(p, f) \/ Restore(p, f))
      BY <2>3 DEF Begin, Restore
    <3> QED
      BY <3>2, <3>3, <3>4, <3>5, <3>6, <3>7, <3>8 DEF GoOn
  <2> QED
    BY <1>4, <2>1, <2>2, <2>3 DEF ObjectsExplained
<1> QED
  BY <1>2, <1>3, <1>4

\* Every step keeps what is in the way explained.
LEMMA AccountedStep == TypeOK /\ Custodian /\ Accounted /\ [NextFiles]_all => Accounted'
<1> SUFFICES ASSUME TypeOK, Custodian, Accounted, [NextFiles]_all PROVE Accounted'
  OBVIOUS
<1>1. ASSUME NEW p \in Controllers,
             \/ GoOn(p) \/ Fail(p) \/ Admit(p) \/ StartAgain(p) \/ EndCommand(p) \/ Die(p) \/ DieWriting(p)
             \/ \E e \in Executions : Begin(p, e) \/ Restore(p, e)
      PROVE  Accounted'
  <2>1. Placed(p) /\ LocksExplained /\ WorkspacesExplained /\ ObjectsExplained
    BY DEF Accounted
  <2>2. LocksExplained' /\ WorkspacesExplained' /\ ObjectsExplained' /\ Placed(p)'
    BY <1>1, <2>1, LockStep, WorkspaceKept, ObjectStep, PlacedStep
  <2>3. ASSUME NEW q \in Controllers \ {p}
        PROVE  Placed(q)'
    <3>1. at'[q] = at[q] /\ hand'[q] = hand[q] /\ pc'[q] = pc[q]
      BY <1>1, OthersStay
    <3>2. pc[q] \in Running => hand[q] \in Executions
      BY DEF Custodian, InHand, Holding
    <3>3. Placed(q)
      BY DEF Accounted
    <3> QED
      BY <3>1, <3>2, <3>3, JournalStep, RowsStay DEF Placed
  <2> QED
    BY <2>2, <2>3 DEF Accounted
<1>2. CASE Elsewhere \/ UNCHANGED all
  <2>1. UNCHANGED <<exec, pc, job, files>>
    BY <1>2 DEF Elsewhere, LauncherExits, CandidateExits, db, all, vars
  <2> QED
    BY <2>1 DEF files, Accounted, Placed, LocksExplained, WorkspacesExplained, ObjectsExplained, Storing
<1> QED
  BY <1>1, <1>2 DEF NextFiles

\* For any number of controllers: a copy that failed and an answer of the journal leave no
\* lock and no workspace of an execution without a row behind, and no error leaves a half
\* installed object; what is in the way is a controller that is still at it, or what a death, a
\* removal that failed or an error between the rename and the journal has left.
THEOREM RefusalsBlockNothing == SpecFiles => []RefusalsLeaveNothing
<1>1. InitFiles => Accounted
  BY DEF InitFiles, Init, Accounted, Placed, LocksExplained, WorkspacesExplained, ObjectsExplained,
         Holding, Locked, Running, RunPhases
<1>2. Accounted => RefusalsLeaveNothing
  <2>1. \A s \in Owning : s # "lock"
    BY DEF Owning, Holding
  <2> QED
    BY <2>1 DEF Accounted, RefusalsLeaveNothing, LocksExplained, WorkspacesExplained, ObjectsExplained
<1> QED
  BY <1>1, <1>2, AccountedStep, CustodianHolds, PTL DEF SpecFiles
=============================================================================
