---------------------------- MODULE CandidateFiles ----------------------------
(***************************************************************************)
(* The files around one candidate execution: GeneratedCandidateExecutor    *)
(* publishes a workspace before it asks the journal, stores what the child *)
(* left in the content-addressed ArtifactStore, and removes the workspace  *)
(* before it finishes the row.  LaunchJournal is the journal and the       *)
(* process of the same execution; every step here is a step of it or       *)
(* leaves it alone.                                                        *)
(*                                                                         *)
(* A content is installed by linking a staging file to its digest path     *)
(* and unlinking the staging file, two steps: between them, and for ever   *)
(* if the controller dies there, the object has two links and verify       *)
(* refuses it.  Contents that only one run can have (manifests, cleanup    *)
(* receipts) cannot collide and are left out, as are the staging files and *)
(* directories nobody looks at again; the manifest of an interruption,     *)
(* which can, is in LaunchJournal.                                         *)
(***************************************************************************)
EXTENDS LaunchJournal

CONSTANTS
  Contents,  \* byte strings that executions store
  Log,       \* what every child leaves in its log: mostly nothing at all
  Output,    \* execution -> its checkpoint or predictions
  Reads      \* execution -> executions whose output is one of its inputs

ASSUME ContentsAssumption == Log \in Contents /\ Output \in [Executions -> Contents]
ASSUME ReadsAssumption == Reads \in [Executions -> SUBSET Executions]

VARIABLES
  object,     \* content -> its object: none, linked to a staging file as well, alone
  lock,       \* executions with a publish lock
  workspace,  \* executions with a published workspace
  left,       \* history: what a death, a failed removal or an error left in the way
  at,         \* controller -> what it does next with the files of its execution
  hand        \* controller -> that execution

files == <<object, lock, workspace, left, at, hand>>
all == <<vars, files>>

Locked == {"publish", "unlock", "withdraw"}
Steps == {"none", "lock", "ready", "undo", "log", "logged", "output", "stored",
          "cleaned", "failed"} \cup Locked

\* Earlier executions of the campaign may have stored the log, or a command died at it.
InitFiles ==
  /\ Init
  /\ \E o \in {"none", "linked", "alone"} :
       /\ object = [c \in Contents |-> IF c = Log THEN o ELSE "none"]
       /\ left = IF o = "linked" THEN {<<"object", Log>>} ELSE {}
  /\ lock = {} /\ workspace = {}
  /\ at = [p \in Controllers |-> "none"]
  /\ hand = [p \in Controllers |-> None]

\* The controller's next step with its files; after "none" it has no execution in hand.
Put(p, step) ==
  /\ at' = [at EXCEPT ![p] = step]
  /\ hand' = IF step = "none" THEN [hand EXCEPT ![p] = None] ELSE hand

-----------------------------------------------------------------------------
(* ArtifactStore                                                           *)

\* Mutant of Verifies: the link count is not looked at.
VerifiesShared(c) == object[c] # "none"

\* verify: the object is there, and the digest path is its only name.
Verifies(c) == object[c] = "alone"

\* The references that the terminal row of an execution holds.
References(e) ==
  CASE exec[e] = "SUCCEEDED" -> {Log, Output[e]}
    [] exec[e] = "FAILED" -> {Log}
    [] OTHER -> {}

\* What the controller stores next: first the logs, then, if the child succeeded and its
\* output is valid, the output.
Storing(p, c) ==
  \/ at[p] \in {"ready", "log"} /\ c = Log
  \/ at[p] \in {"logged", "output"} /\ job[p].ok /\ c = Output[hand[p]]

\* _put_chunks links the staging file to a digest path that is free, or verifies what is there.
Link(p, c) ==
  /\ pc[p] = "record" /\ at[p] \in {"ready", "logged"} /\ Storing(p, c)
  /\ \/ /\ object[c] = "none"
        /\ object' = [object EXCEPT ![c] = "linked"]
        /\ Put(p, IF at[p] = "ready" THEN "log" ELSE "output")
     \/ /\ Verifies(c)
        /\ Put(p, IF at[p] = "ready" THEN "logged" ELSE "stored")
        /\ UNCHANGED object
  /\ UNCHANGED <<vars, lock, workspace, left>>

\* The staging file is unlinked.
Unlink(p, c) ==
  /\ at[p] \in {"log", "output"} /\ Storing(p, c)
  /\ object' = [object EXCEPT ![c] = "alone"]
  /\ Put(p, IF at[p] = "log" THEN "logged" ELSE "stored")
  /\ UNCHANGED <<vars, lock, workspace, left>>

\* ArtifactCollisionError: the path is taken by an object that does not verify.  The exception
\* passes the executor, and the row stays RUNNING.
Collide(p, c) ==
  /\ at[p] \in {"ready", "logged"} /\ Storing(p, c)
  /\ object[c] # "none" /\ ~Verifies(c)
  /\ pc[p] = "record" /\ Abandon(p, hand[p])
  /\ Put(p, "none")
  /\ UNCHANGED <<object, lock, workspace, left>>

-----------------------------------------------------------------------------
(* WorkspaceMaterializer and GeneratedCandidateExecutor                    *)

\* train or predict: the inputs verify and no workspace of the execution is there yet.
Begin(p, e) ==
  /\ pc[p] = "idle" /\ at[p] = "none"
  /\ \A r \in Reads[e] : exec[r] = "SUCCEEDED" /\ Verifies(Output[r])
  /\ e \notin workspace
  /\ at' = [at EXCEPT ![p] = "lock"] /\ hand' = [hand EXCEPT ![p] = e]
  /\ UNCHANGED <<vars, object, lock, workspace, left>>

\* The exclusive creation of the publish lock, or WorkspaceExistsError.
TakeLock(p) ==
  /\ at[p] = "lock"
  /\ IF hand[p] \in lock THEN Put(p, "none") /\ UNCHANGED lock
                         ELSE Put(p, "publish") /\ lock' = lock \cup {hand[p]}
  /\ UNCHANGED <<vars, object, workspace, left>>

\* What is left behind of the execution in hand.
Leave(p, kinds) == left' = left \cup {<<kind, hand[p]>> : kind \in kinds}

\* The populated staging directory is renamed, unless a workspace has appeared or a copy fails.
\* The directory is synced and the workspace validated after that: if either fails, the
\* workspace stays and nobody knows of it.
Publish(p) ==
  /\ at[p] = "publish"
  /\ \/ hand[p] \notin workspace /\ workspace' = workspace \cup {hand[p]} /\ Put(p, "unlock")
        /\ UNCHANGED left
     \/ hand[p] \notin workspace /\ workspace' = workspace \cup {hand[p]} /\ Put(p, "withdraw")
        /\ Leave(p, {"workspace"})
     \/ UNCHANGED <<workspace, left>> /\ Put(p, "withdraw")
  /\ UNCHANGED <<vars, object, lock>>

\* The lock is removed whatever happened, or its removal fails and the request with it.
Unlock(p) ==
  /\ at[p] \in {"unlock", "withdraw"}
  /\ \/ lock' = lock \ {hand[p]} /\ Put(p, IF at[p] = "unlock" THEN "ready" ELSE "none")
        /\ UNCHANGED left
     \/ UNCHANGED lock /\ Put(p, "none")
        /\ Leave(p, {"lock"} \cup IF at[p] = "unlock" THEN {"workspace"} ELSE {})
  /\ UNCHANGED <<vars, object, workspace>>

\* _spec or _next_control_dir raises before the journal is asked; only _prepare removes a
\* workspace.
FailSpec(p) ==
  /\ pc[p] = "idle" /\ at[p] = "ready"
  /\ Leave(p, {"workspace"})
  /\ Put(p, "none")
  /\ UNCHANGED <<vars, object, lock, workspace>>

\* prepare refuses: the row exists, the launch is closed, or the budget or the deadline says no.
RefusePrepare(p) ==
  /\ pc[p] = "idle" /\ at[p] = "ready"
  /\ Put(p, "undo")
  /\ UNCHANGED <<vars, object, lock, workspace, left>>

\* Mutant of Undo: the refusal is passed on and the workspace stays.
UndoNothing(p) ==
  /\ at[p] = "undo"
  /\ Put(p, "none")
  /\ UNCHANGED <<vars, object, lock, workspace, left>>

\* _prepare removes the workspace of a refused request, which may fail.
Undo(p) ==
  /\ at[p] = "undo"
  /\ \/ workspace' = workspace \ {hand[p]} /\ UNCHANGED left
     \/ Leave(p, {"workspace"}) /\ UNCHANGED workspace
  /\ Put(p, "none")
  /\ UNCHANGED <<vars, object, lock>>

\* _cleanup_workspace before finish; a successful run whose workspace stays is a failed one.
Cleanup(p) ==
  /\ at[p] \in {"logged", "stored"}
  /\ \/ workspace' = workspace \ {hand[p]} /\ Put(p, IF at[p] = "stored" THEN "cleaned" ELSE "failed")
     \/ Put(p, "failed") /\ UNCHANGED workspace
  /\ UNCHANGED <<vars, object, lock, left>>

-----------------------------------------------------------------------------
(* The steps of the journal.                                               *)

\* Where a step of the journal leaves the controller with its files.
AfterStep(p) ==
  IF pc[p] \in {"reserve", "create"} /\ pc'[p] = "idle" THEN "undo"
  ELSE IF pc[p] = "record" THEN "none" ELSE at[p]

\* finish comes after the cleanup; a stored output and a removed workspace make a success.
MayFinish(p) ==
  pc[p] = "record" =>
    /\ at[p] \in {"cleaned", "failed"}
    /\ \A e \in Executions :
         exec'[e] # exec[e] => exec'[e] = IF at[p] = "cleaned" THEN "SUCCEEDED" ELSE "FAILED"

\* One step of the journal, of the runner, or of a resume.
Journal(p) ==
  /\ Advance(p) /\ MayFinish(p)
  /\ Put(p, AfterStep(p))
  /\ UNCHANGED <<object, lock, workspace, left>>

\* A transaction or a put that fails otherwise; the staging file is unlinked first.
Fail(p) ==
  /\ \E e \in Executions : Abandon(p, e)
  /\ at[p] \notin {"log", "output"}
  /\ Put(p, AfterStep(p))
  /\ UNCHANGED <<object, lock, workspace, left>>

Admit(p) ==
  /\ at[p] = "ready" /\ Prepare(p, hand[p])
  /\ UNCHANGED files

\* A terminal row is restored before a workspace exists, or by prepare, which then raises.
Restore(p, e) ==
  /\ Rehydrate(p, e) /\ \A c \in References(e) : Verifies(c)
  /\ \/ at[p] = "none" /\ UNCHANGED <<at, hand>>
     \/ at[p] = "ready" /\ hand[p] = e /\ Put(p, "undo")
  /\ UNCHANGED <<object, lock, workspace, left>>

StartAgain(p) == Start(p) /\ UNCHANGED files

EndCommand(p) == Quit(p) /\ at[p] = "none" /\ UNCHANGED files

\* A death leaves the lock, the workspace or the second link it was about to remove.
Traces(p) ==
  {<<"lock", e>> : e \in {f \in {hand[p]} : at[p] \in Locked}}
    \cup {<<"workspace", e>> : e \in {f \in {hand[p]} \cap Executions : exec[f] = "NONE"}}
    \cup {<<"object", c>> : c \in {d \in Contents : at[p] \in {"log", "output"} /\ Storing(p, d)}}

Die(p) ==
  /\ Crash(p)
  /\ left' = left \cup Traces(p)
  /\ Put(p, "none")
  /\ UNCHANGED <<object, lock, workspace>>

\* A death while a resume, or the observation before a request, writes a file of the controller.
DieWriting(p) ==
  /\ at[p] = "none" /\ (Tear(p) \/ DieStoring(p))
  /\ UNCHANGED files

Elsewhere ==
  /\ \E e \in Executions : LauncherExits(e) \/ CandidateExits(e)
  /\ UNCHANGED files

\* A controller with an execution in hand, or one that resumes, goes on.
GoOn(p) ==
  \/ TakeLock(p) \/ Publish(p) \/ Unlock(p) \/ FailSpec(p) \/ RefusePrepare(p) \/ Undo(p) \/ Cleanup(p)
  \/ Journal(p)
  \/ \E c \in Contents : Link(p, c) \/ Unlink(p, c) \/ Collide(p, c)

NextFiles ==
  \/ \E p \in Controllers :
       \/ GoOn(p) \/ Fail(p) \/ Admit(p) \/ StartAgain(p) \/ EndCommand(p) \/ Die(p) \/ DieWriting(p)
       \/ \E e \in Executions : Begin(p, e) \/ Restore(p, e)
  \/ Elsewhere

SpecFiles == InitFiles /\ [][NextFiles]_all

\* A command ends at its deadline, however many requests it makes.
FairFiles ==
  /\ SpecFiles
  /\ \A p \in Controllers :
       WF_all(GoOn(p)) /\ SF_all(EndCommand(p)) /\ WF_all(StartAgain(p))

-----------------------------------------------------------------------------
(* Properties.                                                             *)

\* Whatever a terminal row refers to can be read and verified, for ever: no put returns an
\* object that another, or a dead, controller has not finished installing.
RecordedReadable == \A e \in Executions : \A c \in References(e) : object[c] = "alone"

\* An execution that has no row yet can be tried again, and a content can be stored, unless a
\* controller is at it or it is known what left something in the way: a death, a removal that
\* failed, or an error after the rename of the workspace and before the journal was asked.  A
\* copy that failed and an answer of the journal leave nothing, and no error leaves an object
\* with two names.
RefusalsLeaveNothing ==
  /\ \A e \in lock : <<"lock", e>> \in left \/ \E p \in Controllers : hand[p] = e /\ at[p] \in Locked
  /\ \A e \in workspace :
       \/ exec[e] # "NONE" \/ <<"workspace", e>> \in left
       \/ \E p \in Controllers : hand[p] = e /\ at[p] # "lock"
  /\ \A c \in Contents :
       object[c] = "linked" =>
         \/ <<"object", c>> \in left
         \/ \E p \in Controllers : at[p] \in {"log", "output"} /\ Storing(p, c)
=============================================================================
