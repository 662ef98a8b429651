----------------------- MODULE CampaignLifecycleProofs -----------------------
(***************************************************************************)
(* What survives any number of commands on one run directory, any number   *)
(* of deaths and any deadline: the types, and that a published bundle, a   *)
(* retained research outcome and a complete receipt are never replaced.    *)
(*                                                                         *)
(* The bundle and the outcome are protected by the guard of the one step   *)
(* that writes them.  The receipt is written in two steps, so its guard is *)
(* the exclusive creation: whoever is about to fill the file created it,   *)
(* nobody else is about to fill it, and it is still torn.                  *)
(***************************************************************************)
EXTENDS CampaignLifecycle, TLAPS

-----------------------------------------------------------------------------
(* Types: what a command has in hand.                                      *)

\* A command starts with a well-typed hand.
LEMMA NoJobTyped == NoJob \in Job
BY LimitsAssumption DEF NoJob, Job, States, Handoff, Selections

\* A new hand: what it was started for, or what resume returned.
LEMMA FreshKind ==
  ASSUME NEW k \in {"drive", "finalize", "expire"}
  PROVE  [NoJob EXCEPT !.kind = k] \in Job
BY NoJobTyped DEF Job, NoJob

LEMMA FreshRequired ==
  ASSUME NEW r \in BOOLEAN
  PROVE  [NoJob EXCEPT !.required = r] \in Job
BY NoJobTyped DEF Job

\* A hand of which some fields change.
LEMMA JobDone ==
  ASSUME NEW j \in Job, NEW k \in {"drive", "finalize", "expire"}, NEW d \in BOOLEAN
  PROVE  [j EXCEPT !.kind = k, !.done = d] \in Job
BY DEF Job

LEMMA JobScience ==
  ASSUME NEW j \in Job, NEW s \in Selections
  PROVE  [j EXCEPT !.next = Science, !.picked = s] \in Job
<1>1. Science \in 1 .. Handoff
  BY DEF Science, Handoff
<1> QED
  BY <1>1 DEF Job

LEMMA JobSeen ==
  ASSUME NEW j \in Job, NEW t \in Nat
  PROVE  [j EXCEPT !.seen = t] \in Job
BY DEF Job

LEMMA JobPicked ==
  ASSUME NEW j \in Job, NEW s \in Selections
  PROVE  [j EXCEPT !.picked = s] \in Job
BY DEF Job

LEMMA JobFinal ==
  ASSUME NEW j \in Job
  PROVE  [j EXCEPT !.final = TRUE] \in Job
BY DEF Job

LEMMA JobClose ==
  ASSUME NEW j \in Job, NEW c \in BOOLEAN
  PROVE  [j EXCEPT !.close = c] \in Job
BY DEF Job

LEMMA JobResumed ==
  ASSUME NEW j \in Job, NEW r \in BOOLEAN, NEW c \in BOOLEAN
  PROVE  [j EXCEPT !.resumed = r, !.close = c] \in Job
BY DEF Job

LEMMA JobEnded ==
  ASSUME NEW j \in Job, NEW o \in BOOLEAN, NEW s \in Selections
  PROVE  [j EXCEPT !.ok = o, !.final = FALSE, !.picked = s] \in Job
BY DEF Job

LEMMA JobCand ==
  ASSUME NEW j \in Job, NEW c \in Candidates, NEW s \in Selections
  PROVE  [j EXCEPT !.cand = c, !.ok = TRUE, !.picked = s] \in Job
<1>1. c \in 0 .. MaxCandidates
  BY LimitsAssumption DEF Candidates
<1> QED
  BY <1>1 DEF Job

\* The hand of one command is replaced.
LEMMA JobAt ==
  ASSUME NEW p \in Controllers, job \in [Controllers -> Job], NEW j \in Job,
         job' = [job EXCEPT ![p] = j]
  PROVE  job' \in [Controllers -> Job]
OBVIOUS

\* The reading of the deadline by resume.
LEMMA ResumeReadJob ==
  ASSUME TypeOK, NEW p \in Controllers, ResumeRead(p)
  PROVE  job' \in [Controllers -> Job]
<1>1. \/ job' = [job EXCEPT ![p] = NoJob]
      \/ job' = [job EXCEPT ![p].seen = now]
      \/ job' = job
  BY DEF ResumeRead, Exit
<1>2. now \in Nat /\ job[p] \in Job
  BY DeadlineAssumption DEF TypeOK
<1>3. [job[p] EXCEPT !.seen = now] \in Job
  BY <1>2, JobSeen
<1>4. job' = [job EXCEPT ![p].seen = now] => job' = [job EXCEPT ![p] = [job[p] EXCEPT !.seen = now]]
  BY Zenon
<1> QED
  BY <1>1, <1>3, <1>4, NoJobTyped, JobAt DEF TypeOK

\* What resume's caller goes on with.
LEMMA ResumedJob ==
  ASSUME TypeOK, NEW p \in Controllers, Resumed(p)
  PROVE  job' \in [Controllers -> Job]
<1>1. \/ job' = [job EXCEPT ![p] = NoJob]
      \/ job' = [job EXCEPT ![p] = [NoJob EXCEPT !.required = (status # "RUNNING")]]
      \/ job' = [job EXCEPT ![p] = [NoJob EXCEPT !.kind = "finalize", !.done = (status = "COMPLETED")]]
  BY DEF Resumed, Exit
<1>2. [NoJob EXCEPT !.required = (status # "RUNNING")] \in Job
  BY FreshRequired
<1>3. [NoJob EXCEPT !.kind = "finalize", !.done = (status = "COMPLETED")] \in Job
  BY JobDone, NoJobTyped
<1> QED
  BY <1>1, <1>2, <1>3, NoJobTyped DEF TypeOK

\* The gates decide whether research is closed.
LEMMA FoldGateJob ==
  ASSUME TypeOK, NEW p \in Controllers, FoldGate(p)
  PROVE  job' \in [Controllers -> Job]
<1> DEFINE r == Charged # {}
           c == Closes(job[p].required, r) \/ folds' = "failed"
<1>1. \/ job' = [job EXCEPT ![p] = NoJob]
      \/ job' = [job EXCEPT ![p].resumed = r, ![p].close = c]
  BY Zenon DEF FoldGate, Exit
<1>2. CASE job' = [job EXCEPT ![p] = NoJob]
  BY <1>2, NoJobTyped, JobAt DEF TypeOK
<1>3. CASE job' = [job EXCEPT ![p].resumed = r, ![p].close = c]
  <2>1. r \in BOOLEAN /\ c \in BOOLEAN /\ job[p] \in Job /\ job \in [Controllers -> Job]
    BY Zenon DEF TypeOK, Closes
  <2> HIDE DEF r, c
  <2>2. job' = [job EXCEPT ![p] = [job[p] EXCEPT !.resumed = r, !.close = c]]
    BY <1>3, <2>1
  <2>3. [job[p] EXCEPT !.resumed = r, !.close = c] \in Job
    BY <2>1, JobResumed
  <2> QED
    BY <2>1, <2>2, <2>3, JobAt
<1> QED
  BY <1>1, <1>2, <1>3

LEMMA LineageGateJob ==
  ASSUME TypeOK, NEW p \in Controllers, LineageGate(p)
  PROVE  job' \in [Controllers -> Job]
<1>1. PICK u \in BOOLEAN : job' = [job EXCEPT ![p].close = u \/ (live /\ ReserveActive(now))]
  BY DEF LineageGate
<1> DEFINE c == u \/ (live /\ ReserveActive(now))
<1>2. job' = [job EXCEPT ![p] = [job[p] EXCEPT !.close = c]]
  BY <1>1, Zenon
<1>3. c \in BOOLEAN /\ job[p] \in Job
  BY DEF TypeOK
<1> HIDE DEF c
<1>4. [job[p] EXCEPT !.close = c] \in Job
  BY <1>3, JobClose
<1> QED
  BY <1>2, <1>4, JobAt DEF TypeOK

\* The next candidate is one of the campaign's.
LEMMA NextCandidateJob ==
  ASSUME TypeOK, NEW p \in Controllers, NextCandidate(p)
  PROVE  job' \in [Controllers -> Job]
<1> DEFINE c == job[p].cand + 1
           s == IF verdict[c] = "won" THEN "generated" ELSE job[p].picked
<1>1. job[p] \in Job /\ s \in Selections /\ c \in Candidates
  BY DEF TypeOK, Job, Selections, NextCandidate
<1>2. job' = [job EXCEPT ![p] = [job[p] EXCEPT !.cand = c, !.ok = TRUE, !.picked = s]]
  BY Zenon DEF NextCandidate
<1> HIDE DEF c, s
<1>3. [job[p] EXCEPT !.cand = c, !.ok = TRUE, !.picked = s] \in Job
  BY <1>1, JobCand
<1> QED
  BY <1>2, <1>3, JobAt DEF TypeOK

\* A child ends or is refused.
LEMMA EndedJob ==
  ASSUME TypeOK, NEW p \in Controllers, ChildFailed(p) \/ ChildSucceeded(p)
  PROVE  job' \in [Controllers -> Job]
<1>1. job[p] \in Job /\ job[p].picked \in Selections
  BY DEF TypeOK, Job
<1>2. PICK o \in BOOLEAN, s \in Selections :
        job' = [job EXCEPT ![p].ok = o, ![p].final = FALSE, ![p].picked = s]
  BY <1>1 DEF ChildFailed, ChildSucceeded, Selections
<1>3. job' = [job EXCEPT ![p] = [job[p] EXCEPT !.ok = o, !.final = FALSE, !.picked = s]]
  BY <1>2
<1> QED
  BY <1>1, <1>3, JobEnded, JobAt DEF TypeOK

LEMMA ChildJob ==
  ASSUME TypeOK, NEW p \in Controllers, StartChild(p) \/ CommitChild(p) \/ EndChild(p)
  PROVE  job' \in [Controllers -> Job]
<1>1. job' = job \/ ChildFailed(p) \/ ChildSucceeded(p)
  BY DEF StartChild, CommitChild, EndChild
<1> QED
  BY <1>1, EndedJob DEF TypeOK

\* The candidate that finalization tries.
LEMMA PrepareJob ==
  ASSUME TypeOK, NEW p \in Controllers, Prepare(p)
  PROVE  job' \in [Controllers -> Job]
<1>1. \/ job' = job
      \/ job' = [job EXCEPT ![p].final = TRUE]
      \/ \E s \in Selections : job' = [job EXCEPT ![p].picked = s]
  BY DEF Prepare, Fail, Selections
<1>2. CASE job' = [job EXCEPT ![p].final = TRUE]
  <2>1. job' = [job EXCEPT ![p] = [job[p] EXCEPT !.final = TRUE]] /\ job[p] \in Job
    BY <1>2 DEF TypeOK
  <2> QED
    BY <2>1, JobFinal, JobAt DEF TypeOK
<1>3. ASSUME NEW s \in Selections, job' = [job EXCEPT ![p].picked = s]
      PROVE  job' \in [Controllers -> Job]
  <2>1. job' = [job EXCEPT ![p] = [job[p] EXCEPT !.picked = s]] /\ job[p] \in Job
    BY <1>3 DEF TypeOK
  <2> QED
    BY <2>1, JobPicked, JobAt DEF TypeOK
<1> QED
  BY <1>1, <1>2, <1>3 DEF TypeOK

\* Every step of a command leaves every hand well typed.
LEMMA JobTyped ==
  ASSUME TypeOK, NEW p \in Controllers, Command(p) \/ Step(p) \/ Crash(p)
  PROVE  job' \in [Controllers -> Job]
<1>1. job \in [Controllers -> Job] /\ rev \in Nat
  BY DEF TypeOK
<1>2. CASE Command(p)
  BY <1>2, <1>1, NoJobTyped, LimitsAssumption, FreshKind DEF Command, Goto, Exit, Return, Fail,
     Job, Handoff, Science, States, Selections, Terminal
<1>3. CASE Drive(p)
  BY <1>3, <1>1, NoJobTyped, LimitsAssumption DEF Drive, Goto, Exit, Return, Fail, Job, Handoff,
     Science, States, Selections, Terminal
<1>4. CASE ResumeRead(p)
  BY <1>4, ResumeReadJob
<1>5. CASE Dispose(p)
  BY <1>5, <1>1, NoJobTyped, LimitsAssumption DEF Dispose, Goto, Exit, Return, Fail, Job,
     Handoff, Science, States, Selections, Terminal, Disposition
<1>6. CASE SetPhase(p)
  BY <1>6, <1>1, NoJobTyped, LimitsAssumption DEF SetPhase, Goto, Exit, Return, Fail, Job,
     Handoff, Science, States, Selections, Terminal
<1>7. CASE Resumed(p)
  BY <1>7, ResumedJob
<1>8. CASE Stage(p)
  BY <1>8, <1>1, NoJobTyped, LimitsAssumption DEF Stage, Goto, Exit, Return, Fail, Job, Handoff,
     Science, States, Selections, Terminal, TowardStage
<1>9. CASE FoldGate(p)
  BY <1>9, FoldGateJob
<1>10. CASE FeatureGate(p)
  BY <1>10, <1>1, NoJobTyped, LimitsAssumption, JobClose DEF FeatureGate, Goto, Exit, Return,
     Fail, Job, Handoff, Science, States, Selections, Terminal, Closes
<1>11. CASE LineageGate(p)
  BY <1>11, LineageGateJob
<1>12. CASE NextCandidate(p)
  BY <1>12, NextCandidateJob
<1>13. CASE Promote(p)
  BY <1>13, <1>1, NoJobTyped, LimitsAssumption DEF Promote, Goto, Exit, Return, Fail, Job,
     Handoff, Science, States, Selections, Terminal
<1>14. CASE Verdict(p)
  BY <1>14, <1>1, NoJobTyped, LimitsAssumption, JobPicked DEF Verdict, Goto, Exit, Return, Fail,
     Job, Handoff, Science, States, Selections, Terminal
<1>15. CASE EndScience(p)
  BY <1>15, <1>1, NoJobTyped, LimitsAssumption, JobScience DEF EndScience, Goto, Exit, Return,
     Fail, Job, Handoff, Science, States, Selections, Terminal
<1>16. CASE EnsureRequired(p)
  BY <1>16, <1>1, NoJobTyped, LimitsAssumption DEF EnsureRequired, Goto, Exit, Return, Fail,
     Job, Handoff, Science, States, Selections, Terminal
<1>17. CASE CommitOutcome(p)
  BY <1>17, <1>1, NoJobTyped, LimitsAssumption, FreshKind DEF CommitOutcome, Goto, Exit, Return,
     Fail, Job, Handoff, Science, States, Selections, Terminal, HandedOff
<1>18. CASE RefuseOutcome(p)
  BY <1>18, <1>1, NoJobTyped, LimitsAssumption DEF RefuseOutcome, Goto, Exit, Return, Fail, Job,
     Handoff, Science, States, Selections, Terminal
<1>19. CASE StartChild(p)
  BY <1>19, ChildJob
<1>20. CASE CommitChild(p)
  BY <1>20, ChildJob
<1>21. CASE EndChild(p)
  BY <1>21, ChildJob
<1>22. CASE Load(p)
  BY <1>22, <1>1, NoJobTyped, LimitsAssumption DEF Load, Goto, Exit, Return, Fail, Job, Handoff,
     Science, States, Selections, Terminal
<1>23. CASE Phase(p)
  BY <1>23, <1>1, NoJobTyped, LimitsAssumption DEF Phase, Goto, Exit, Return, Fail, Job,
     Handoff, Science, States, Selections, Terminal
<1>24. CASE Prepare(p)
  BY <1>24, PrepareJob
<1>25. CASE Publish(p)
  BY <1>25, <1>1, NoJobTyped, LimitsAssumption DEF Publish, Goto, Exit, Return, Fail, Job,
     Handoff, Science, States, Selections, Terminal
<1>26. CASE Observe(p)
  BY <1>26, <1>1, NoJobTyped, LimitsAssumption DEF Observe, Goto, Exit, Return, Fail, Job,
     Handoff, Science, States, Selections, Terminal
<1>27. CASE Incumbent(p)
  BY <1>27, <1>1, NoJobTyped, LimitsAssumption DEF Incumbent, Goto, Exit, Return, Fail, Job,
     Handoff, Science, States, Selections, Terminal
<1>28. CASE Complete(p)
  BY <1>28, <1>1, NoJobTyped, LimitsAssumption DEF Complete, Goto, Exit, Return, Fail, Job,
     Handoff, Science, States, Selections, Terminal
<1>29. CASE CreateReceipt(p)
  BY <1>29, <1>1, NoJobTyped, LimitsAssumption DEF CreateReceipt, Goto, Exit, Return, Fail, Job,
     Handoff, Science, States, Selections, Terminal
<1>30. CASE FillReceipt(p)
  BY <1>30, <1>1, NoJobTyped, LimitsAssumption DEF FillReceipt, Goto, Exit, Return, Fail, Job,
     Handoff, Science, States, Selections, Terminal
<1>31. CASE Failed(p)
  BY <1>31, <1>1, NoJobTyped, LimitsAssumption, FreshKind DEF Failed, Goto, Exit, Return, Fail,
     Job, Handoff, Science, States, Selections, Terminal
<1>32. CASE Crash(p)
  BY <1>32, <1>1, NoJobTyped, LimitsAssumption DEF Crash, Goto, Exit, Return, Fail, Job,
     Handoff, Science, States, Selections, Terminal
<1>33. CASE Refused(p)
  <2>1. job' = job \/ job' = [job EXCEPT ![p] = NoJob] \/ ChildFailed(p)
    BY <1>33 DEF Refused, Exit, Fail
  <2> QED
    BY <2>1, <1>1, NoJobTyped, JobAt, EndedJob
<1> QED
  BY <1>2, <1>3, <1>4, <1>5, <1>6, <1>7, <1>8, <1>9, <1>10, <1>11, <1>12, <1>13, <1>14, <1>15,
     <1>16, <1>17, <1>18, <1>19, <1>20, <1>21, <1>22, <1>23, <1>24, <1>25, <1>26, <1>27, <1>28,
     <1>29, <1>30, <1>31, <1>32, <1>33 DEF Step

-----------------------------------------------------------------------------
(* Types: where a command goes.                                            *)

\* Past the publication there is a bundle.
Published == {"observe", "incumbent", "complete", "receipt", "fill"}
BundleInHand == \A p \in Controllers : pc[p] \in Published => bundle # None

Moves(p) ==
  /\ \E next \in Phases :
       /\ pc' = [pc EXCEPT ![p] = next]
       /\ next \in Published => bundle' # None
  /\ bundle # None => bundle' # None

\* The next stage.
LEMMA StageMoves ==
  ASSUME NEW p \in Controllers, Stage(p)
  PROVE  Moves(p)
<1>1. pc' = [pc EXCEPT ![p] = TowardStage(job[p].next + 1, job[p].close)] /\ bundle' = bundle
  BY DEF Stage, Goto
<1>2. TowardStage(job[p].next + 1, job[p].close) \in Phases \ Published
  BY DEF TowardStage, Phases, Published
<1> QED
  BY <1>1, <1>2 DEF Moves

\* The publication leaves a bundle behind, or fails.
LEMMA PublishMoves ==
  ASSUME TypeOK, NEW p \in Controllers, Publish(p)
  PROVE  Moves(p)
<1>1. job[p].picked \in Selections
  BY DEF TypeOK, Job
<1> QED
  BY <1>1, NoneAssumption DEF Moves, Published, Publish, Goto, Fail, Phases, Selections

\* Every step of a command leads it to a phase, and past the publication only with a bundle.
LEMMA MovesTyped ==
  ASSUME TypeOK, BundleInHand, NEW p \in Controllers, Command(p) \/ Step(p) \/ Crash(p)
  PROVE  Moves(p)
<1> USE NoneAssumption
<1>1. CASE Command(p)
  BY <1>1 DEF Command, BundleInHand, Moves, Published, Goto, Exit, Return, Fail, Phases, files
<1>2. CASE Drive(p)
  BY <1>2 DEF Drive, BundleInHand, Moves, Published, Goto, Exit, Return, Fail, Phases, files
<1>3. CASE ResumeRead(p)
  BY <1>3 DEF ResumeRead, BundleInHand, Moves, Published, Goto, Exit, Return, Fail, Phases, files
<1>4. CASE Dispose(p)
  BY <1>4 DEF Dispose, BundleInHand, Moves, Published, Goto, Exit, Return, Fail, Phases, files,
     Disposition
<1>5. CASE SetPhase(p)
  BY <1>5 DEF SetPhase, BundleInHand, Moves, Published, Goto, Exit, Return, Fail, Phases, files
<1>6. CASE Resumed(p)
  BY <1>6 DEF Resumed, BundleInHand, Moves, Published, Goto, Exit, Return, Fail, Phases, files
<1>7. CASE Stage(p)
  BY <1>7, StageMoves
<1>8. CASE FoldGate(p)
  BY <1>8 DEF FoldGate, BundleInHand, Moves, Published, Goto, Exit, Return, Fail, Phases, files,
     Closes
<1>9. CASE FeatureGate(p)
  BY <1>9 DEF FeatureGate, BundleInHand, Moves, Published, Goto, Exit, Return, Fail, Phases,
     files, Closes
<1>10. CASE LineageGate(p)
  BY <1>10 DEF LineageGate, BundleInHand, Moves, Published, Goto, Exit, Return, Fail, Phases,
     files
<1>11. CASE NextCandidate(p)
  BY <1>11 DEF NextCandidate, BundleInHand, Moves, Published, Goto, Exit, Return, Fail, Phases,
     files
<1>12. CASE Promote(p)
  BY <1>12 DEF Promote, BundleInHand, Moves, Published, Goto, Exit, Return, Fail, Phases, files
<1>13. CASE Verdict(p)
  BY <1>13 DEF Verdict, BundleInHand, Moves, Published, Goto, Exit, Return, Fail, Phases, files
<1>14. CASE EndScience(p)
  BY <1>14 DEF EndScience, BundleInHand, Moves, Published, Goto, Exit, Return, Fail, Phases, files
<1>15. CASE EnsureRequired(p)
  BY <1>15 DEF EnsureRequired, BundleInHand, Moves, Published, Goto, Exit, Return, Fail, Phases,
     files
<1>16. CASE CommitOutcome(p)
  BY <1>16 DEF CommitOutcome, BundleInHand, Moves, Published, Goto, Exit, Return, Fail, Phases,
     files, HandedOff
<1>17. CASE RefuseOutcome(p)
  BY <1>17 DEF RefuseOutcome, BundleInHand, Moves, Published, Goto, Exit, Return, Fail, Phases,
     files
<1>18. CASE StartChild(p)
  BY <1>18 DEF StartChild, BundleInHand, Moves, Published, Goto, Exit, Return, Fail, Phases,
     files, ChildFailed, ChildSucceeded
<1>19. CASE CommitChild(p)
  BY <1>19 DEF CommitChild, BundleInHand, Moves, Published, Goto, Exit, Return, Fail, Phases,
     files, ChildFailed
<1>20. CASE EndChild(p)
  BY <1>20 DEF EndChild, BundleInHand, Moves, Published, Goto, Exit, Return, Fail, Phases,
     files, ChildFailed, ChildSucceeded
<1>21. CASE Load(p)
  BY <1>21 DEF Load, BundleInHand, Moves, Published, Goto, Exit, Return, Fail, Phases, files
<1>22. CASE Phase(p)
  BY <1>22 DEF Phase, BundleInHand, Moves, Published, Goto, Exit, Return, Fail, Phases, files
<1>23. CASE Prepare(p)
  BY <1>23 DEF Prepare, BundleInHand, Moves, Published, Goto, Exit, Return, Fail, Phases, files,
     NeedsTraining
<1>24. CASE Publish(p)
  BY <1>24, PublishMoves
<1>25. CASE Observe(p)
  BY <1>25 DEF Observe, BundleInHand, Moves, Published, Goto, Exit, Return, Fail, Phases, files
<1>26. CASE Incumbent(p)
  BY <1>26 DEF Incumbent, BundleInHand, Moves, Published, Goto, Exit, Return, Fail, Phases, files
<1>27. CASE Complete(p)
  BY <1>27 DEF Complete, BundleInHand, Moves, Published, Goto, Exit, Return, Fail, Phases, files
<1>28. CASE CreateReceipt(p)
  BY <1>28 DEF CreateReceipt, BundleInHand, Moves, Published, Goto, Exit, Return, Fail, Phases,
     files
<1>29. CASE FillReceipt(p)
  BY <1>29 DEF FillReceipt, BundleInHand, Moves, Published, Goto, Exit, Return, Fail, Phases,
     files
<1>30. CASE Failed(p)
  BY <1>30 DEF Failed, BundleInHand, Moves, Published, Goto, Exit, Return, Fail, Phases, files
<1>31. CASE Crash(p)
  BY <1>31 DEF Crash, BundleInHand, Moves, Published, Goto, Exit, Return, Fail, Phases, files
<1>32. CASE Refused(p)
  BY <1>32 DEF Refused, BundleInHand, Moves, Published, Goto, Exit, Fail, Phases, files, ChildFailed
<1> QED
  BY <1>1, <1>2, <1>3, <1>4, <1>5, <1>6, <1>7, <1>8, <1>9, <1>10, <1>11, <1>12, <1>13, <1>14,
     <1>15, <1>16, <1>17, <1>18, <1>19, <1>20, <1>21, <1>22, <1>23, <1>24, <1>25, <1>26, <1>27,
     <1>28, <1>29, <1>30, <1>31, <1>32 DEF Step

-----------------------------------------------------------------------------
(* Types: what is retained.                                                *)

\* The part of TypeOK that is not about the commands.
Facts ==
  /\ live \in BOOLEAN
  /\ now \in 0 .. MaxNow /\ crashes \in 0 .. MaxCrashes
  /\ status \in States /\ rev \in Nat
  /\ stages \in 0 .. Handoff /\ bare \in BOOLEAN
  /\ folds \in {"none", "ready", "failed"}
  /\ verdict \in [Candidates -> Verdicts]
  /\ outcome \in Selections \cup {None}
  /\ outcome # None <=> stages = Handoff
  /\ child \in [Controllers -> {"none", "starting", "running"}]
  /\ training \in {"none", "opened", "succeeded", "failed"}
  /\ bundle \in Selections \cup {None}
  /\ incumbent \in Selections
  /\ receipt \in {None, Torn} \cup Receipts
  /\ broken \subseteq Kinds

\* A step that writes nothing.
LEMMA StillFacts ==
  ASSUME TypeOK, UNCHANGED <<store, files>>, Keep
  PROVE  Facts'
BY DEF Facts, TypeOK, store, files, Keep

\* A phase that resume chose is a phase.
LEMMA SetPhaseFacts ==
  ASSUME TypeOK, NEW p \in Controllers, SetPhase(p)
  PROVE  Facts'
<1>1. status' \in States /\ rev' \in Nat
  BY DEF SetPhase, TypeOK, Job
<1> QED
  BY <1>1 DEF Facts, TypeOK, SetPhase, files, Keep

\* No checkpoint but the handoff is the last one.
LEMMA StageFacts ==
  ASSUME TypeOK, NEW p \in Controllers, Stage(p)
  PROVE  Facts'
<1>1. job[p].next \in 1 .. Handoff /\ stages \in 0 .. Handoff
  BY DEF TypeOK, Job
<1>2. bare' \in BOOLEAN
  BY Zenon DEF TypeOK, Stage
<1>3. stages' \in 0 .. Handoff /\ (stages' = Handoff <=> stages = Handoff)
  BY <1>1 DEF Stage, Handoff
<1> QED
  BY <1>2, <1>3 DEF Facts, TypeOK, Stage, store, Keep

\* Charges and verdicts.
LEMMA VerdictFacts ==
  ASSUME TypeOK, NEW p \in Controllers, Promote(p) \/ Verdict(p)
  PROVE  Facts'
<1>1. verdict' \in [Candidates -> Verdicts]
  <2>1. CASE Promote(p)
    BY <2>1 DEF Promote, TypeOK, Verdicts
  <2>2. CASE Verdict(p)
    <3>1. PICK v \in Verdicts : verdict' \in {verdict, [verdict EXCEPT ![job[p].cand] = v]}
      BY <2>2 DEF Verdict, Verdicts
    <3> QED
      BY <3>1 DEF TypeOK
  <2> QED
    BY <2>1, <2>2
<1>2. UNCHANGED <<status, rev, folds, child, training, incumbent, files, live, now, broken, crashes>>
  BY DEF Promote, Verdict, Keep
<1> QED
  BY <1>1, <1>2 DEF Facts, TypeOK, files

\* Children and the final training.
LEMMA ChildFacts ==
  ASSUME TypeOK, NEW p \in Controllers, StartChild(p) \/ CommitChild(p) \/ EndChild(p)
  PROVE  Facts'
<1>1. /\ child' \in [Controllers -> {"none", "starting", "running"}]
      /\ training' \in {"none", "opened", "succeeded", "failed"}
  BY DEF TypeOK, StartChild, CommitChild, EndChild
<1>2. UNCHANGED <<status, rev, folds, verdict, incumbent, files, live, now, broken, crashes>>
  BY DEF StartChild, CommitChild, EndChild, Keep
<1> QED
  BY <1>1, <1>2 DEF Facts, TypeOK, files

\* A death leaves files of known kinds broken.
LEMMA CrashFacts ==
  ASSUME TypeOK, NEW p \in Controllers, Crash(p)
  PROVE  Facts'
<1>1. Writes(p) \subseteq Kinds
  BY DEF Writes, Kinds
<1>2. broken' \subseteq Kinds
  BY <1>1 DEF Crash, TypeOK
<1>3. crashes' \in 0 .. MaxCrashes
  BY LimitsAssumption DEF Crash, TypeOK
<1> QED
  BY <1>2, <1>3 DEF Crash, Facts, TypeOK, store, files

\* Every step of a command leaves well-typed stores and files.
LEMMA FactsTyped ==
  ASSUME TypeOK, BundleInHand, NEW p \in Controllers, Command(p) \/ Step(p) \/ Crash(p)
  PROVE  Facts'
<1>1. CASE Command(p)
  BY <1>1, StillFacts DEF Command
<1>2. CASE Drive(p)
  BY <1>2, StillFacts DEF Drive
<1>3. CASE ResumeRead(p)
  BY <1>3, NoneAssumption, LimitsAssumption, DeadlineAssumption DEF ResumeRead, Facts, TypeOK,
     BundleInHand, Published, Keep, files, store, States, Handoff, Reflected, Selections,
     Receipts, Job
<1>4. CASE Dispose(p)
  BY <1>4, StillFacts DEF Dispose
<1>5. CASE SetPhase(p)
  BY <1>5, SetPhaseFacts
<1>6. CASE Resumed(p)
  BY <1>6, StillFacts DEF Resumed
<1>7. CASE Stage(p)
  BY <1>7, StageFacts
<1>8. CASE FoldGate(p)
  BY <1>8, NoneAssumption, LimitsAssumption, DeadlineAssumption DEF FoldGate, Facts, TypeOK,
     BundleInHand, Published, Keep, files, store, States, Handoff, Reflected, Selections,
     Receipts, Job, Closes
<1>9. CASE FeatureGate(p)
  BY <1>9, StillFacts DEF FeatureGate
<1>10. CASE LineageGate(p)
  BY <1>10, StillFacts DEF LineageGate
<1>11. CASE NextCandidate(p)
  BY <1>11, StillFacts DEF NextCandidate
<1>12. CASE Promote(p)
  BY <1>12, VerdictFacts
<1>13. CASE Verdict(p)
  BY <1>13, VerdictFacts
<1>14. CASE EndScience(p)
  BY <1>14, StillFacts DEF EndScience
<1>15. CASE EnsureRequired(p)
  BY <1>15, NoneAssumption, LimitsAssumption, DeadlineAssumption DEF EnsureRequired, Facts,
     TypeOK, BundleInHand, Published, Keep, files, store, States, Handoff, Reflected,
     Selections, Receipts, Job
<1>16. CASE CommitOutcome(p)
  BY <1>16, NoneAssumption, LimitsAssumption, DeadlineAssumption DEF CommitOutcome, Facts,
     TypeOK, BundleInHand, Published, Keep, files, store, States, Handoff, Reflected,
     Selections, Receipts, Job, HandedOff
<1>17. CASE RefuseOutcome(p)
  BY <1>17, StillFacts DEF RefuseOutcome
<1>18. CASE StartChild(p)
  BY <1>18, ChildFacts
<1>19. CASE CommitChild(p)
  BY <1>19, ChildFacts
<1>20. CASE EndChild(p)
  BY <1>20, ChildFacts
<1>21. CASE Load(p)
  BY <1>21, StillFacts DEF Load
<1>22. CASE Phase(p)
  BY <1>22, NoneAssumption, LimitsAssumption, DeadlineAssumption DEF Phase, Facts, TypeOK,
     BundleInHand, Published, Keep, files, store, States, Handoff, Reflected, Selections,
     Receipts, Job
<1>23. CASE Prepare(p)
  BY <1>23, StillFacts DEF Prepare
<1>24. CASE Publish(p)
  BY <1>24, NoneAssumption, LimitsAssumption, DeadlineAssumption DEF Publish, Facts, TypeOK,
     BundleInHand, Published, Keep, files, store, States, Handoff, Reflected, Selections,
     Receipts, Job
<1>25. CASE Observe(p)
  BY <1>25, StillFacts DEF Observe
<1>26. CASE Incumbent(p)
  BY <1>26, NoneAssumption, LimitsAssumption, DeadlineAssumption DEF Incumbent, Facts, TypeOK,
     BundleInHand, Published, Keep, files, store, States, Handoff, Reflected, Selections,
     Receipts, Job
<1>27. CASE Complete(p)
  BY <1>27, NoneAssumption, LimitsAssumption, DeadlineAssumption DEF Complete, Facts, TypeOK,
     BundleInHand, Published, Keep, files, store, States, Handoff, Reflected, Selections,
     Receipts, Job
<1>28. CASE CreateReceipt(p)
  BY <1>28, NoneAssumption, LimitsAssumption, DeadlineAssumption DEF CreateReceipt, Facts,
     TypeOK, BundleInHand, Published, Keep, files, store, States, Handoff, Reflected,
     Selections, Receipts, Job
<1>29. CASE FillReceipt(p)
  BY <1>29, NoneAssumption, LimitsAssumption, DeadlineAssumption DEF FillReceipt, Facts, TypeOK,
     BundleInHand, Published, Keep, files, store, States, Handoff, Reflected, Selections,
     Receipts, Job
<1>30. CASE Failed(p)
  BY <1>30, StillFacts DEF Failed
<1>31. CASE Crash(p)
  BY <1>31, CrashFacts
<1>32. CASE Refused(p)
  BY <1>32, StillFacts DEF Refused
<1> QED
  BY <1>1, <1>2, <1>3, <1>4, <1>5, <1>6, <1>7, <1>8, <1>9, <1>10, <1>11, <1>12, <1>13, <1>14,
     <1>15, <1>16, <1>17, <1>18, <1>19, <1>20, <1>21, <1>22, <1>23, <1>24, <1>25, <1>26, <1>27,
     <1>28, <1>29, <1>30, <1>31, <1>32 DEF Step

\* The initial state is well typed and nobody is past the publication.
LEMMA InitTyped == Init => TypeOK /\ BundleInHand
<1> SUFFICES ASSUME Init
             PROVE  TypeOK /\ BundleInHand
  OBVIOUS
<1>1. job \in [Controllers -> Job] /\ pc \in [Controllers -> Phases]
  BY NoJobTyped DEF Init, Phases
<1>2. BundleInHand
  BY DEF Init, BundleInHand, Published
<1>3. now \in 0 .. MaxNow /\ crashes \in 0 .. MaxCrashes
  BY DeadlineAssumption, LimitsAssumption DEF Init
<1>4. /\ verdict \in [Candidates -> Verdicts]
      /\ child \in [Controllers -> {"none", "starting", "running"}]
  BY DEF Init, Verdicts
<1>5. live \in BOOLEAN /\ bare \in BOOLEAN
  BY Zenon DEF Init
<1>6. /\ status \in States /\ rev \in Nat /\ incumbent \in Selections
      /\ stages \in 0 .. Handoff /\ stages # Handoff
  BY DEF Init, States, Handoff, Selections
<1> QED
  BY <1>1, <1>2, <1>3, <1>4, <1>5, <1>6 DEF Init, TypeOK

\* Every step keeps the types and the bundle in hand.
LEMMA TypeStep == TypeOK /\ BundleInHand /\ [Next]_vars => TypeOK' /\ BundleInHand'
<1> SUFFICES ASSUME TypeOK, BundleInHand, [Next]_vars
             PROVE  TypeOK' /\ BundleInHand'
  OBVIOUS
<1>1. CASE UNCHANGED vars
  BY <1>1 DEF TypeOK, BundleInHand, vars, store, files
<1>2. CASE Tick
  BY <1>2, DeadlineAssumption DEF Tick, TypeOK, BundleInHand, store, files
<1>3. ASSUME NEW p \in Controllers, Command(p) \/ Step(p) \/ Crash(p)
      PROVE  TypeOK' /\ BundleInHand'
  <2>1. Facts' /\ job' \in [Controllers -> Job] /\ Moves(p)
    BY <1>3, FactsTyped, JobTyped, MovesTyped
  <2>2. pc' \in [Controllers -> Phases] /\ BundleInHand'
    BY <2>1 DEF Moves, TypeOK, BundleInHand
  <2> QED
    BY <2>1, <2>2 DEF Facts, TypeOK
<1> QED
  BY <1>1, <1>2, <1>3 DEF Next

\* Types, and that a command past the publication holds a bundle, for any number of commands,
\* candidates and deaths and for every deadline.
THEOREM TypeCorrect == Spec => [](TypeOK /\ BundleInHand)
BY InitTyped, TypeStep, PTL DEF Spec

-----------------------------------------------------------------------------
(* Custody of the retained evidence.                                       *)

\* The file has one writer, from its creation to its last byte.
OneWriter ==
  \A p \in Controllers : pc[p] = "fill" =>
    /\ receipt = Torn
    /\ \A q \in Controllers : pc[q] = "fill" => q = p

\* The outcome is listed by the last checkpoint.
OutcomeListed == outcome # None => stages = Handoff

Custody ==
  /\ pc \in [Controllers -> Phases]
  /\ OneWriter
  /\ OutcomeListed

\* A step that leads its command anywhere but into the file.
Away(p) == \E next \in Phases \ {"fill"} : pc' = [pc EXCEPT ![p] = next]

\* A step that touches neither the outcome nor the receipt.
Quiet == UNCHANGED <<stages, outcome, bundle, receipt>>

\* No command has started: nothing is retained and nothing is being written.
LEMMA InitCustody == Init => Custody
BY DEF Init, Custody, OneWriter, OutcomeListed, Phases

\* A step that neither creates nor fills the receipt keeps its one writer.
LEMMA CalmStep ==
  ASSUME Custody, NEW p \in Controllers, Away(p), receipt' = receipt, OutcomeListed'
  PROVE  Custody'
BY DEF Custody, OneWriter, Away

QuietStep(p) ==
  \/ Command(p) \/ Drive(p) \/ ResumeRead(p) \/ Dispose(p) \/ SetPhase(p)
  \/ Resumed(p) \/ FoldGate(p) \/ FeatureGate(p) \/ LineageGate(p) \/ NextCandidate(p)
  \/ Promote(p) \/ Verdict(p) \/ EndScience(p) \/ EnsureRequired(p) \/ RefuseOutcome(p)
  \/ StartChild(p) \/ CommitChild(p) \/ EndChild(p) \/ Load(p) \/ Phase(p)
  \/ Prepare(p) \/ Observe(p) \/ Incumbent(p) \/ Complete(p) \/ Failed(p)
  \/ Refused(p) \/ Crash(p)

\* Every step but the ones that write a file.
LEMMA QuietSteps ==
  ASSUME NEW p \in Controllers, QuietStep(p)
  PROVE  Away(p) /\ Quiet
<1> USE DEF Away, Quiet, Phases, Goto, Exit, Return, Fail, Keep, files
<1>1. CASE Command(p)
  BY <1>1 DEF Command
<1>2. CASE Drive(p)
  BY <1>2 DEF Drive
<1>3. CASE ResumeRead(p)
  BY <1>3 DEF ResumeRead
<1>4. CASE Dispose(p)
  BY <1>4 DEF Dispose
<1>5. CASE SetPhase(p)
  BY <1>5 DEF SetPhase
<1>6. CASE Resumed(p)
  BY <1>6 DEF Resumed
<1>7. CASE FoldGate(p)
  BY <1>7 DEF FoldGate, Closes
<1>8. CASE FeatureGate(p)
  BY <1>8 DEF FeatureGate
<1>9. CASE LineageGate(p)
  BY <1>9 DEF LineageGate
<1>10. CASE NextCandidate(p)
  BY <1>10 DEF NextCandidate
<1>11. CASE Promote(p)
  BY <1>11 DEF Promote
<1>12. CASE Verdict(p)
  BY <1>12 DEF Verdict
<1>13. CASE EndScience(p)
  BY <1>13 DEF EndScience
<1>14. CASE EnsureRequired(p)
  BY <1>14 DEF EnsureRequired
<1>15. CASE RefuseOutcome(p)
  BY <1>15 DEF RefuseOutcome
<1>16. CASE StartChild(p)
  BY <1>16 DEF StartChild, ChildFailed, ChildSucceeded
<1>17. CASE CommitChild(p)
  BY <1>17 DEF CommitChild, ChildFailed
<1>18. CASE EndChild(p)
  BY <1>18 DEF EndChild, ChildFailed, ChildSucceeded
<1>19. CASE Load(p)
  BY <1>19 DEF Load
<1>20. CASE Phase(p)
  BY <1>20 DEF Phase
<1>21. CASE Prepare(p)
  BY <1>21 DEF Prepare
<1>22. CASE Observe(p)
  BY <1>22 DEF Observe
<1>23. CASE Incumbent(p)
  BY <1>23 DEF Incumbent
<1>24. CASE Complete(p)
  BY <1>24 DEF Complete
<1>25. CASE Failed(p)
  BY <1>25 DEF Failed
<1>26. CASE Crash(p)
  BY <1>26 DEF Crash
<1>27. CASE Refused(p)
  BY <1>27 DEF Refused, ChildFailed
<1> QED
  BY <1>1, <1>2, <1>3, <1>4, <1>5, <1>6, <1>7, <1>8, <1>9, <1>10, <1>11, <1>12, <1>13, <1>14,
     <1>15, <1>16, <1>17, <1>18, <1>19, <1>20, <1>21, <1>22, <1>23, <1>24, <1>25, <1>26, <1>27
     DEF QuietStep

-----------------------------------------------------------------------------
(* The steps that write a file.                                            *)

\* A checkpoint is appended only before the handoff, while there is no outcome.
LEMMA StageStep ==
  ASSUME TypeOK, Custody, NEW p \in Controllers, Stage(p)
  PROVE  /\ Custody'
         /\ UNCHANGED <<outcome, bundle, receipt>>
<1>1. UNCHANGED <<outcome, bundle, receipt>>
  BY DEF Stage
<1>2. Away(p)
  BY DEF Stage, TowardStage, Goto, Away, Phases
<1>3. OutcomeListed'
  <2>1. job[p].next \in 1 .. Handoff /\ stages \in 0 .. Handoff
    BY DEF TypeOK, Job
  <2> QED
    BY <2>1 DEF Stage, Custody, OutcomeListed, Handoff
<1> QED
  BY <1>1, <1>2, <1>3, CalmStep

\* The outcome is written together with the checkpoint that lists it, and once.
LEMMA CommitStep ==
  ASSUME Custody, NEW p \in Controllers, CommitOutcome(p)
  PROVE  /\ Custody'
         /\ outcome # None => outcome' = outcome
         /\ UNCHANGED <<bundle, receipt>>
<1>1. UNCHANGED <<bundle, receipt>>
  BY DEF CommitOutcome
<1>2. Away(p)
  BY DEF CommitOutcome, Goto, Away, Phases
<1>3. OutcomeListed'
  BY DEF CommitOutcome, HandedOff, OutcomeListed
<1>4. outcome # None => outcome' = outcome
  BY DEF CommitOutcome, Custody, OutcomeListed, Handoff, Reflected
<1> QED
  BY <1>1, <1>2, <1>3, <1>4, CalmStep

\* A bundle is published only where there is none.
LEMMA PublishStep ==
  ASSUME Custody, NEW p \in Controllers, Publish(p)
  PROVE  /\ Custody'
         /\ bundle # None => bundle' = bundle
         /\ UNCHANGED <<outcome, receipt>>
<1>1. UNCHANGED <<stages, outcome, receipt>>
  BY DEF Publish
<1>2. Away(p)
  BY DEF Publish, Fail, Goto, Away, Phases
<1>3. bundle # None => bundle' = bundle
  BY DEF Publish
<1>4. OutcomeListed'
  BY <1>1 DEF Custody, OutcomeListed
<1> QED
  BY <1>1, <1>2, <1>3, <1>4, CalmStep

\* Whoever creates the receipt becomes its only writer; everyone else fails.
LEMMA CreateStep ==
  ASSUME Custody, NEW p \in Controllers, CreateReceipt(p)
  PROVE  /\ Custody'
         /\ Receipted => receipt' = receipt
         /\ UNCHANGED <<outcome, bundle>>
<1>1. UNCHANGED <<stages, outcome, bundle>>
  BY DEF CreateReceipt
<1>2. OutcomeListed'
  BY <1>1 DEF Custody, OutcomeListed
<1>3. CASE receipt = None
  <2>1. receipt' = Torn /\ pc' = [pc EXCEPT ![p] = "fill"]
    BY <1>3 DEF CreateReceipt, Goto
  <2>2. \A q \in Controllers : pc[q] # "fill"
    BY <1>3, TornAssumption DEF Custody, OneWriter
  <2>3. OneWriter'
    BY <2>1, <2>2 DEF OneWriter, Custody
  <2>4. pc' \in [Controllers -> Phases]
    BY <2>1 DEF Custody, Phases
  <2> QED
    BY <1>1, <1>2, <1>3, <2>3, <2>4 DEF Custody, Receipted
<1>4. CASE receipt # None
  <2>1. receipt' = receipt
    BY <1>4 DEF CreateReceipt
  <2>2. Away(p)
    BY <1>4 DEF CreateReceipt, Fail, Goto, Away, Phases
  <2> QED
    BY <1>1, <1>2, <2>1, <2>2, CalmStep
<1> QED
  BY <1>3, <1>4

\* The writer fills the file it created, which is still torn, and is its writer no more.
LEMMA FillStep ==
  ASSUME Custody, NEW p \in Controllers, FillReceipt(p)
  PROVE  /\ Custody'
         /\ Receipted => receipt' = receipt
         /\ UNCHANGED <<outcome, bundle>>
<1>1. UNCHANGED <<stages, outcome, bundle>>
  BY DEF FillReceipt
<1>2. OutcomeListed'
  BY <1>1 DEF Custody, OutcomeListed
<1>3. pc[p] = "fill" /\ pc' = [pc EXCEPT ![p] = "returned"]
  BY DEF FillReceipt, Return, Goto
<1>4. receipt = Torn /\ \A q \in Controllers : pc[q] = "fill" => q = p
  BY <1>3 DEF Custody, OneWriter
<1>5. \A q \in Controllers : pc'[q] # "fill"
  BY <1>3, <1>4 DEF Custody
<1>6. pc' \in [Controllers -> Phases]
  BY <1>3 DEF Custody, Phases
<1> QED
  BY <1>1, <1>2, <1>4, <1>5, <1>6 DEF Custody, OneWriter, Receipted

-----------------------------------------------------------------------------
(* Every step.                                                             *)

\* Nothing that is retained, published or complete is replaced by a step.
Kept ==
  /\ bundle # None => bundle' = bundle
  /\ outcome # None => outcome' = outcome
  /\ Receipted => receipt' = receipt

\* A step of any command, its death, the clock or a stutter keeps the custody of the files
\* and what they hold.
LEMMA CustodyStep == TypeOK /\ Custody /\ [Next]_vars => Custody' /\ Kept
<1> SUFFICES ASSUME TypeOK, Custody, [Next]_vars
             PROVE  Custody' /\ Kept
  OBVIOUS
<1>1. CASE Tick \/ UNCHANGED vars
  <2>1. UNCHANGED <<stages, outcome, bundle, receipt, pc>>
    BY <1>1 DEF Tick, vars, files
  <2> QED
    BY <2>1 DEF Custody, OneWriter, OutcomeListed, Kept
<1>2. ASSUME NEW p \in Controllers, QuietStep(p)
      PROVE  Custody' /\ Kept
  <2>1. Away(p) /\ UNCHANGED <<stages, outcome, bundle, receipt>>
    BY <1>2, QuietSteps DEF Quiet
  <2>2. OutcomeListed'
    BY <2>1 DEF Custody, OutcomeListed
  <2> QED
    BY <2>1, <2>2, CalmStep DEF Kept
<1>3. ASSUME NEW p \in Controllers,
             Stage(p) \/ CommitOutcome(p) \/ Publish(p) \/ CreateReceipt(p) \/ FillReceipt(p)
      PROVE  Custody' /\ Kept
  BY <1>3, StageStep, CommitStep, PublishStep, CreateStep, FillStep DEF Kept
<1>4. ASSUME NEW p \in Controllers, Command(p) \/ Step(p) \/ Crash(p)
      PROVE  Custody' /\ Kept
  BY <1>2, <1>3, <1>4 DEF Step, QuietStep
<1> QED
  BY <1>1, <1>4 DEF Next

\* The receipt has at most one writer and an outcome is listed by the last checkpoint, in
\* every reachable state.
THEOREM CustodyHolds == Spec => []Custody
BY InitCustody, CustodyStep, TypeCorrect, PTL DEF Spec

\* Any number of commands, deaths and retries of `resume` and `finalize` (production.py,
\* full_campaign_runtime.py) leave a published bundle, a retained outcome and a complete
\* receipt as they are.
THEOREM EvidenceIsKept == Spec => EvidenceKept
<1>1. TypeOK /\ Custody /\ [Next]_vars => [Kept]_vars
  BY CustodyStep
<1>2. EvidenceKept <=> [][Kept]_vars
  BY DEF EvidenceKept, Kept
<1> QED
  BY <1>1, <1>2, CustodyHolds, TypeCorrect, PTL DEF Spec
-----------------------------------------------------------------------------
(* The evidence of a campaign agrees.                                      *)

\* The phases of a child.
Children == {"begin", "commit_child", "end_child"}

\* Commands whose final training has a row and no result yet.
Trainers == {p \in Controllers : job[p].final /\ pc[p] \in {"commit_child", "end_child"}}

\* The row of the final training is opened once, so at most one command trains.
OneTrainer ==
  /\ \A p, q \in Trainers : p = q
  /\ Trainers # {} => training \in {"opened", "failed"}

\* What a command may rely on where it is: research selected what it trains or publishes, what
\* it is about to complete is the incumbent, and resume completes nothing.
Backed(p) ==
  /\ job[p].final => pc[p] \in Children /\ outcome = "generated"
  /\ pc[p] \in {"phase", "prepare", "publish"} => outcome # None
  /\ pc[p] = "publish" /\ job[p].picked = "generated" =>
       outcome = "generated" /\ training = "succeeded"
  /\ pc[p] \in {"complete", "receipt", "fill"} => incumbent = bundle
  /\ pc[p] = "set" => job[p].target # "COMPLETED"

BundleBacked ==
  /\ bundle # None => outcome # None
  /\ bundle = "generated" => outcome = "generated" /\ training = "succeeded"

CompletedBacked == status = "COMPLETED" => bundle # None /\ incumbent = bundle

Evidence ==
  /\ \A p \in Controllers : Backed(p)
  /\ OneTrainer /\ BundleBacked /\ CompletedBacked /\ ReceiptTrue

\* The other commands stay where they are.
Alone(p) == \A q \in Controllers \ {p} : pc'[q] = pc[q] /\ job'[q] = job[q]

\* A trained candidate stays trained, a recorded bundle stays recorded.
Lasting ==
  /\ training = "succeeded" => training' = "succeeded"
  /\ bundle # None /\ incumbent = bundle => incumbent' = bundle

\* A step that keeps the evidence, of which only its own command has to be looked at.
LEMMA EvidenceFrame ==
  ASSUME TypeOK, BundleInHand, Evidence, Kept, NEW p \in Controllers, Alone(p), Lasting,
         Backed(p)', OneTrainer', BundleBacked', CompletedBacked', ReceiptTrue'
  PROVE  Evidence'
<1>1. ASSUME NEW q \in Controllers \ {p}
      PROVE  Backed(q)'
  <2>1. pc'[q] = pc[q] /\ job'[q] = job[q] /\ Backed(q)
    BY DEF Alone, Evidence
  <2>2. pc[q] \in {"complete", "receipt", "fill"} => bundle # None
    BY DEF BundleInHand, Published
  <2> QED
    BY <2>1, <2>2, NoneAssumption DEF Backed, Kept, Lasting, Selections
<1> QED
  BY <1>1 DEF Evidence

\* A step that leaves the training, the bundle, the incumbent and the receipt as they are, and
\* does not complete the campaign.
Modest ==
  /\ UNCHANGED <<bundle, incumbent, receipt>>
  /\ training' = training \/ (training = "opened" /\ training' = "failed")
  /\ status' = status \/ status' # "COMPLETED"

\* Such a step of a command that does not come to train.
LEMMA ModestStep ==
  ASSUME TypeOK, BundleInHand, Evidence, Kept, NEW p \in Controllers, Alone(p), Modest,
         Backed(p)', ~(job'[p].final /\ pc'[p] \in {"commit_child", "end_child"})
  PROVE  Evidence'
<1>1. Lasting
  BY DEF Modest, Lasting
<1>2. OneTrainer'
  <2>1. Trainers' \subseteq Trainers
    BY DEF Trainers, Alone
  <2> QED
    BY <2>1 DEF Evidence, OneTrainer, Modest
<1>3. BundleBacked'
  BY NoneAssumption DEF Modest, Evidence, BundleBacked, Kept, Selections
<1>4. CompletedBacked'
  BY DEF Modest, Evidence, CompletedBacked
<1>5. ReceiptTrue'
  BY NoneAssumption DEF Modest, Evidence, ReceiptTrue, Receipted, Kept, BundleBacked, Selections
<1> QED
  BY <1>1, <1>2, <1>3, <1>4, <1>5, EvidenceFrame

\* Phases in which nothing is relied on.
Free == Phases \ {"phase", "prepare", "publish", "complete", "receipt", "fill", "set"}

\* A modest step that leads its command to such a phase, without the final training in hand.
LEMMA FreeStep ==
  ASSUME TypeOK, BundleInHand, Evidence, Kept, NEW p \in Controllers, Alone(p), Modest,
         pc'[p] \in Free, ~job'[p].final
  PROVE  Evidence'
<1>1. Backed(p)'
  BY DEF Backed, Free
<1> QED
  BY <1>1, ModestStep

FreeAction(p) ==
  \/ Command(p) \/ Drive(p) \/ ResumeRead(p) \/ SetPhase(p) \/ Resumed(p) \/ Stage(p)
  \/ FoldGate(p) \/ FeatureGate(p) \/ LineageGate(p) \/ NextCandidate(p) \/ Promote(p)
  \/ Verdict(p) \/ EndScience(p) \/ EnsureRequired(p) \/ CommitOutcome(p) \/ RefuseOutcome(p)
  \/ Observe(p) \/ Failed(p) \/ Crash(p)

\* Resume's caller has nothing to train in hand.
LEMMA ResumedHand ==
  ASSUME NEW p \in Controllers, Resumed(p)
  PROVE  \E j : j \in Job /\ ~j.final /\ job' = [job EXCEPT ![p] = j]
<1>1. \/ job' = [job EXCEPT ![p] = NoJob]
      \/ job' = [job EXCEPT ![p] = [NoJob EXCEPT !.required = (status # "RUNNING")]]
      \/ job' = [job EXCEPT ![p] = [NoJob EXCEPT !.kind = "finalize", !.done = (status = "COMPLETED")]]
  BY DEF Resumed, Exit
<1>2. NoJob \in Job /\ ~NoJob.final
  BY NoJobTyped DEF NoJob
<1>3. ASSUME NEW b \in BOOLEAN
      PROVE  ~[NoJob EXCEPT !.required = b].final
  BY <1>2 DEF Job
<1>4. ASSUME NEW b \in BOOLEAN
      PROVE  ~[NoJob EXCEPT !.kind = "finalize", !.done = b].final
  BY <1>2 DEF Job
<1>5. [NoJob EXCEPT !.required = (status # "RUNNING")] \in Job
  BY FreshRequired
<1>6. [NoJob EXCEPT !.kind = "finalize", !.done = (status = "COMPLETED")] \in Job
  BY JobDone, NoJobTyped
<1> QED
  BY <1>1, <1>2, <1>3, <1>4, <1>5, <1>6

\* Starting, resuming and research are modest, and so are the last look at the deadline, a
\* failure and a death.
LEMMA FreeActions ==
  ASSUME TypeOK, Evidence, NEW p \in Controllers, FreeAction(p)
  PROVE  Alone(p) /\ Modest /\ pc'[p] \in Free /\ ~job'[p].final
<1> USE DEF Alone, Modest, Free, Phases, Goto, Exit, Return, Fail, store, files
<1>0. /\ job \in [Controllers -> Job] /\ pc \in [Controllers -> Phases]
      /\ ~NoJob.final /\ \A q \in Controllers : job[q].final \in BOOLEAN
  BY DEF TypeOK, NoJob, Job
<1>f. pc[p] \notin Children => ~job[p].final
  BY DEF Evidence, Backed
<1>1. CASE Command(p)
  BY <1>0, <1>f, <1>1 DEF Command, Children, Job, NoJob
<1>2. CASE Drive(p)
  BY <1>0, <1>f, <1>2 DEF Drive, Children, Job, NoJob
<1>3. CASE ResumeRead(p)
  BY <1>0, <1>f, <1>3 DEF ResumeRead, Children, Job, NoJob
<1>4. CASE SetPhase(p)
  BY <1>0, <1>f, <1>4 DEF SetPhase, Children, Job, NoJob, Backed, Evidence
<1>5. CASE Resumed(p)
  <2>1. PICK j : j \in Job /\ ~j.final /\ job' = [job EXCEPT ![p] = j]
    BY <1>5, ResumedHand
  <2>2. Alone(p) /\ ~job'[p].final
    BY <1>0, <1>5, <2>1 DEF Resumed
  <2> QED
    BY <1>0, <1>5, <2>2 DEF Resumed
<1>6. CASE Stage(p)
  BY <1>0, <1>f, <1>6 DEF Stage, Children, Job, NoJob, TowardStage
<1>7. CASE FoldGate(p)
  BY <1>0, <1>f, <1>7 DEF FoldGate, Children, Job, NoJob, Closes
<1>8. CASE FeatureGate(p)
  BY <1>0, <1>f, <1>8 DEF FeatureGate, Children, Job, NoJob, Closes
<1>9. CASE LineageGate(p)
  BY <1>0, <1>f, <1>9 DEF LineageGate, Children, Job, NoJob
<1>10. CASE NextCandidate(p)
  BY <1>0, <1>f, <1>10 DEF NextCandidate, Children, Job, NoJob
<1>11. CASE Promote(p)
  BY <1>0, <1>f, <1>11 DEF Promote, Children, Job, NoJob
<1>12. CASE Verdict(p)
  BY <1>0, <1>f, <1>12 DEF Verdict, Children, Job, NoJob
<1>13. CASE EndScience(p)
  BY <1>0, <1>f, <1>13 DEF EndScience, Children, Job, NoJob
<1>14. CASE EnsureRequired(p)
  BY <1>0, <1>f, <1>14 DEF EnsureRequired, Children, Job, NoJob
<1>15. CASE CommitOutcome(p)
  BY <1>0, <1>f, <1>15 DEF CommitOutcome, Children, Job, NoJob, HandedOff
<1>16. CASE RefuseOutcome(p)
  BY <1>0, <1>f, <1>16 DEF RefuseOutcome, Children, Job, NoJob
<1>17. CASE Observe(p)
  BY <1>0, <1>f, <1>17 DEF Observe, Children, Job, NoJob
<1>18. CASE Failed(p)
  BY <1>0, <1>f, <1>18 DEF Failed, Children, Job, NoJob
<1>19. CASE Crash(p)
  BY <1>0, <1>f, <1>19 DEF Crash, Children, Job, NoJob
<1> QED
  BY <1>1, <1>2, <1>3, <1>4, <1>5, <1>6, <1>7, <1>8, <1>9, <1>10, <1>11, <1>12, <1>13, <1>14, <1>15, <1>16, <1>17, <1>18, <1>19 DEF FreeAction

\* Choosing a disposition, loading, taking over and preparing are modest.
LEMMA DisposeStep ==
  ASSUME TypeOK, Evidence, NEW p \in Controllers, Dispose(p)
  PROVE  Alone(p) /\ Modest /\ ~job'[p].final /\ Backed(p)'
<1>1. /\ job \in [Controllers -> Job] /\ pc \in [Controllers -> Phases]
      /\ job[p].final \in BOOLEAN /\ ~job[p].final
  BY DEF TypeOK, Job, Evidence, Backed, Dispose, Children
<1>2. PICK t \in {None, "INCOMPLETE", "FINALIZATION_REQUIRED"} :
        job' = [job EXCEPT ![p].target = t]
  BY DEF Dispose, Disposition
<1>3. /\ Alone(p) /\ ~job'[p].final /\ job'[p].target = t
      /\ pc'[p] \in {"resumed", "set"} /\ (pc'[p] = "set" => t # None)
  BY <1>1, <1>2 DEF Dispose, Goto, Alone, Job
<1>4. t = None \/ t # "COMPLETED"
  BY <1>2
<1>5. Modest
  BY DEF Dispose, Modest, store, files
<1>6. Backed(p)'
  BY <1>3, <1>4 DEF Backed
<1> QED
  BY <1>3, <1>5, <1>6

LEMMA LoadStep ==
  ASSUME TypeOK, Evidence, NEW p \in Controllers, Load(p)
  PROVE  Alone(p) /\ Modest /\ ~job'[p].final /\ Backed(p)'
<1>1. /\ job \in [Controllers -> Job] /\ pc \in [Controllers -> Phases]
      /\ ~job[p].final /\ ~NoJob.final
  BY DEF TypeOK, Job, Evidence, Backed, Load, Children, NoJob
<1>2. Modest /\ UNCHANGED outcome
  BY DEF Load, Modest, store, files
<1>3. Alone(p) /\ ~job'[p].final /\ pc'[p] \in {"phase", "returned", "failed"}
  BY <1>1 DEF Load, Goto, Return, Fail, Alone
<1>4. pc'[p] = "phase" => HandedOff
  BY <1>1 DEF Load, Goto, Return, Fail
<1>5. HandedOff => outcome # None
  BY DEF HandedOff, TypeOK
<1> QED
  BY <1>2, <1>3, <1>4, <1>5 DEF Backed

LEMMA PhaseStep ==
  ASSUME TypeOK, Evidence, NEW p \in Controllers, Phase(p)
  PROVE  Alone(p) /\ Modest /\ ~job'[p].final /\ Backed(p)'
<1>1. /\ job \in [Controllers -> Job] /\ pc \in [Controllers -> Phases]
      /\ ~job[p].final /\ outcome # None
  BY DEF TypeOK, Job, Evidence, Backed, Phase, Children
<1>2. /\ Alone(p) /\ ~job'[p].final /\ Modest /\ UNCHANGED outcome
      /\ pc'[p] \in {"prepare", "failed"}
  BY <1>1 DEF Phase, Goto, Fail, Alone, Modest, files
<1> QED
  BY <1>1, <1>2 DEF Backed

\* What is prepared for training or publication was selected by research.
LEMMA PrepareStep ==
  ASSUME TypeOK, Evidence, NEW p \in Controllers, Prepare(p)
  PROVE  /\ Alone(p) /\ Modest /\ Backed(p)'
         /\ pc'[p] \notin {"commit_child", "end_child"}
<1>1. /\ job \in [Controllers -> Job] /\ pc \in [Controllers -> Phases]
      /\ job[p].final \in BOOLEAN /\ ~job[p].final /\ outcome # None
  BY DEF TypeOK, Job, Evidence, Backed, Prepare, Children
<1>2. Alone(p) /\ Modest /\ UNCHANGED <<outcome, training>>
  BY <1>1 DEF Prepare, Goto, Fail, Alone, Modest, store, files
<1>3. NeedsTraining => outcome = "generated"
  BY NoneAssumption DEF NeedsTraining, Evidence, BundleBacked, Selections
<1>4. CASE job' = [job EXCEPT ![p].final = TRUE] /\ pc' = [pc EXCEPT ![p] = "begin"] /\ NeedsTraining
  <2>1. pc'[p] = "begin"
    BY <1>1, <1>4
  <2> QED
    BY <1>2, <1>3, <1>4, <2>1 DEF Backed, Children
<1>5. ASSUME NEW s \in Selections, job' = [job EXCEPT ![p].picked = s],
             s = "generated" => NeedsTraining /\ training = "succeeded",
             pc'[p] \in {"publish", "observe", "failed"}
      PROVE  Backed(p)' /\ pc'[p] \notin {"commit_child", "end_child"}
  <2>1. ~job'[p].final /\ job'[p].picked = s
    BY <1>1, <1>5 DEF Job
  <2> QED
    BY <1>1, <1>2, <1>3, <1>5, <2>1 DEF Backed
<1>6. CASE Fail(p)
  <2>1. pc'[p] = "failed" /\ ~job'[p].final
    BY <1>1, <1>6 DEF Fail, Goto
  <2> QED
    BY <1>2, <2>1 DEF Backed
<1>7. \/ Fail(p)
      \/ job' = [job EXCEPT ![p].final = TRUE] /\ pc' = [pc EXCEPT ![p] = "begin"] /\ NeedsTraining
      \/ \E s \in Selections :
           /\ job' = [job EXCEPT ![p].picked = s]
           /\ s = "generated" => NeedsTraining /\ training = "succeeded"
           /\ pc'[p] \in {"publish", "observe", "failed"}
  BY <1>1 DEF Prepare, Goto, Selections
<1> QED
  BY <1>2, <1>4, <1>5, <1>6, <1>7

\* What is published was selected by research, and trained if it is generated.
LEMMA PublishEvidence ==
  ASSUME TypeOK, BundleInHand, Evidence, Kept, NEW p \in Controllers, Publish(p)
  PROVE  Evidence'
<1>1. /\ job \in [Controllers -> Job] /\ pc \in [Controllers -> Phases]
      /\ ~job[p].final /\ outcome # None /\ job[p].picked \in Selections
  BY DEF TypeOK, Job, Evidence, Backed, Publish, Children
<1>2. /\ Alone(p) /\ UNCHANGED <<status, outcome, training, incumbent, receipt, job>>
      /\ pc'[p] \in {"observe", "failed"}
  BY <1>1 DEF Publish, Goto, Fail, Alone, store
<1>3. Backed(p)'
  BY <1>1, <1>2 DEF Backed
<1>4. CASE bundle' = bundle
  BY <1>1, <1>2, <1>3, <1>4, ModestStep DEF Modest
<1>5. CASE bundle = None /\ bundle' \in {job[p].picked, "fallback"}
  <2>1. BundleBacked'
    BY <1>1, <1>2, <1>5 DEF BundleBacked, Evidence, Backed, Publish
  <2>2. CompletedBacked'
    BY <1>2, <1>5 DEF CompletedBacked, Evidence
  <2>3. ~Receipted
    BY <1>5, NoneAssumption DEF Evidence, ReceiptTrue, Receipted, TypeOK, Receipts
  <2>4. ReceiptTrue'
    BY <1>2, <2>3 DEF ReceiptTrue, Receipted
  <2>5. Lasting
    BY <1>2, <1>5 DEF Lasting
  <2>6. OneTrainer'
    <3>1. Trainers' \subseteq Trainers
      BY <1>2 DEF Trainers, Alone
    <3> QED
      BY <1>2, <3>1 DEF Evidence, OneTrainer
  <2> QED
    BY <1>2, <1>3, <2>1, <2>2, <2>4, <2>5, <2>6, EvidenceFrame
<1> QED
  BY <1>4, <1>5 DEF Publish

\* A step that leaves the training as it is and does not come to train.
LEMMA TrainersStay ==
  ASSUME Evidence, NEW p \in Controllers, Alone(p), UNCHANGED training,
         ~(job'[p].final /\ pc'[p] \in {"commit_child", "end_child"})
  PROVE  OneTrainer'
<1>1. Trainers' \subseteq Trainers
  BY DEF Trainers, Alone
<1> QED
  BY <1>1 DEF Evidence, OneTrainer

\* The incumbent that _complete_campaign records is the selection of the bundle.
LEMMA IncumbentEvidence ==
  ASSUME TypeOK, BundleInHand, Evidence, Kept, NEW p \in Controllers, Incumbent(p)
  PROVE  Evidence'
<1>1. /\ job \in [Controllers -> Job] /\ pc \in [Controllers -> Phases]
      /\ ~job[p].final /\ bundle # None
  BY DEF TypeOK, Job, Evidence, Backed, Incumbent, Children, BundleInHand, Published
<1>2. /\ Alone(p) /\ UNCHANGED <<status, outcome, training, bundle, receipt, job>>
      /\ pc'[p] \in {"complete", "failed"}
  BY <1>1 DEF Incumbent, Goto, Fail, Alone, files
<1>3. /\ pc'[p] = "complete" => incumbent' = bundle
      /\ incumbent' = incumbent \/ incumbent' = bundle
  BY <1>1 DEF Incumbent, Goto, Fail
<1>4. Backed(p)'
  BY <1>1, <1>2, <1>3 DEF Backed
<1>5. Lasting /\ BundleBacked' /\ CompletedBacked'
  BY <1>2, <1>3 DEF Lasting, BundleBacked, CompletedBacked, Evidence
<1>6. ReceiptTrue'
  BY <1>2, <1>3 DEF ReceiptTrue, Receipted, Evidence
<1>7. OneTrainer'
  BY <1>1, <1>2, TrainersStay
<1> QED
  BY <1>2, <1>4, <1>5, <1>6, <1>7, EvidenceFrame

\* A campaign is completed with its bundle as the incumbent.
LEMMA CompleteEvidence ==
  ASSUME TypeOK, BundleInHand, Evidence, Kept, NEW p \in Controllers, Complete(p)
  PROVE  Evidence'
<1>1. /\ job \in [Controllers -> Job] /\ pc \in [Controllers -> Phases]
      /\ ~job[p].final /\ bundle # None /\ incumbent = bundle
  BY DEF TypeOK, Job, Evidence, Backed, Complete, Children, BundleInHand, Published
<1>2. /\ Alone(p) /\ UNCHANGED <<outcome, training, bundle, incumbent, receipt>>
      /\ pc'[p] \in {"receipt", "failed"} /\ ~job'[p].final
  BY <1>1 DEF Complete, Goto, Fail, Alone, files, Job
<1>3. Backed(p)'
  BY <1>1, <1>2 DEF Backed
<1>4. Lasting /\ BundleBacked' /\ CompletedBacked'
  BY <1>1, <1>2 DEF Lasting, BundleBacked, CompletedBacked, Evidence
<1>5. ReceiptTrue'
  BY <1>2 DEF ReceiptTrue, Receipted, Evidence
<1>6. OneTrainer'
  BY <1>2, TrainersStay
<1> QED
  BY <1>2, <1>3, <1>4, <1>5, <1>6, EvidenceFrame

\* The receipt appears empty ...
LEMMA CreateEvidence ==
  ASSUME TypeOK, BundleInHand, Evidence, Kept, NEW p \in Controllers, CreateReceipt(p)
  PROVE  Evidence'
<1>1. /\ job \in [Controllers -> Job] /\ pc \in [Controllers -> Phases]
      /\ ~job[p].final /\ incumbent = bundle
  BY DEF TypeOK, Job, Evidence, Backed, CreateReceipt, Children
<1>2. /\ Alone(p) /\ UNCHANGED <<status, outcome, training, bundle, incumbent, job>>
      /\ pc'[p] \in {"fill", "failed"} /\ receipt' \in {Torn, receipt}
  BY <1>1 DEF CreateReceipt, Goto, Fail, Alone, store
<1>3. Backed(p)'
  BY <1>1, <1>2 DEF Backed
<1>4. Lasting /\ BundleBacked' /\ CompletedBacked'
  BY <1>2 DEF Lasting, BundleBacked, CompletedBacked, Evidence
<1>5. ReceiptTrue'
  BY <1>2 DEF ReceiptTrue, Receipted, Evidence
<1>6. OneTrainer'
  BY <1>1, <1>2, TrainersStay
<1> QED
  BY <1>2, <1>3, <1>4, <1>5, <1>6, EvidenceFrame

\* ... and is filled with what was published.
LEMMA FillEvidence ==
  ASSUME TypeOK, BundleInHand, Evidence, Kept, NEW p \in Controllers, FillReceipt(p)
  PROVE  Evidence'
<1>1. /\ job \in [Controllers -> Job] /\ pc \in [Controllers -> Phases]
      /\ incumbent = bundle /\ ~NoJob.final
  BY DEF TypeOK, Evidence, Backed, FillReceipt, NoJob
<1>2. /\ Alone(p) /\ UNCHANGED <<status, outcome, training, bundle, incumbent>>
      /\ pc'[p] = "returned" /\ ~job'[p].final /\ receipt'.selected = bundle
  BY <1>1 DEF FillReceipt, Return, Goto, Alone, store
<1>3. Backed(p)'
  BY <1>1, <1>2 DEF Backed
<1>4. Lasting /\ BundleBacked' /\ CompletedBacked'
  BY <1>2 DEF Lasting, BundleBacked, CompletedBacked, Evidence
<1>5. ReceiptTrue'
  BY <1>1, <1>2 DEF ReceiptTrue, Receipted, Evidence, BundleBacked
<1>6. OneTrainer'
  BY <1>2, TrainersStay
<1> QED
  BY <1>2, <1>3, <1>4, <1>5, <1>6, EvidenceFrame

\* What a child leaves in the hands of its command.
LEMMA ChildHand ==
  ASSUME TypeOK, NEW p \in Controllers, ChildFailed(p) \/ ChildSucceeded(p)
  PROVE  /\ Alone(p) /\ ~job'[p].final
         /\ pc'[p] \in {"verdict", "failed", "publish", "observe"}
         /\ pc'[p] = "publish" => job[p].final
         /\ pc'[p] = "publish" /\ job'[p].picked = "generated" => ChildSucceeded(p)
<1>1. /\ job \in [Controllers -> Job] /\ pc \in [Controllers -> Phases]
      /\ job[p].final \in BOOLEAN
  BY DEF TypeOK, Job
<1>2. CASE ChildFailed(p)
  <2>1. /\ Alone(p) /\ ~job'[p].final
        /\ job'[p].picked = IF job[p].final THEN "fallback" ELSE job[p].picked
    BY <1>1, <1>2 DEF ChildFailed, Goto, Alone, Job
  <2>2. /\ pc'[p] \in {"verdict", "failed", "publish"}
        /\ pc'[p] = "publish" => job[p].final
    BY <1>1, <1>2 DEF ChildFailed, Goto
  <2> QED
    BY <2>1, <2>2
<1>3. CASE ChildSucceeded(p)
  <2>1. Alone(p) /\ ~job'[p].final
    BY <1>1, <1>3 DEF ChildSucceeded, Goto, Alone, Job
  <2>2. /\ pc'[p] \in {"verdict", "publish", "observe"}
        /\ pc'[p] = "publish" => job[p].final
    BY <1>1, <1>3 DEF ChildSucceeded, Goto
  <2> QED
    BY <1>3, <2>1, <2>2
<1> QED
  BY <1>2, <1>3

\* A child that ends without touching the training is modest.
LEMMA ChildEvidence ==
  ASSUME TypeOK, BundleInHand, Evidence, Kept, NEW p \in Controllers,
         pc[p] \in Children, UNCHANGED <<status, incumbent, files, training>>,
         ChildFailed(p) \/ (ChildSucceeded(p) /\ (job[p].final => training = "succeeded"))
  PROVE  Evidence'
<1>1. /\ Alone(p) /\ ~job'[p].final
      /\ pc'[p] \in {"verdict", "failed", "publish", "observe"}
      /\ pc'[p] = "publish" => job[p].final
      /\ pc'[p] = "publish" /\ job'[p].picked = "generated" => ChildSucceeded(p)
  BY ChildHand
<1>2. pc'[p] = "publish" /\ job'[p].picked = "generated" => training = "succeeded"
  <2>1. CASE ChildFailed(p)
    <3>1. job[p].final => job'[p].picked = "fallback"
      BY <2>1 DEF ChildFailed, TypeOK, Job
    <3> QED
      BY <1>1, <3>1
  <2> QED
    BY <1>1, <2>1
<1>3. job[p].final => outcome = "generated"
  BY DEF Evidence, Backed
<1>4. Modest /\ UNCHANGED outcome
  BY DEF Modest, files
<1>5. Backed(p)'
  BY <1>1, <1>2, <1>3, <1>4, NoneAssumption DEF Backed, Selections
<1> QED
  BY <1>1, <1>4, <1>5, ModestStep

\* The row of the final training is opened only when nobody trains.
LEMMA StartEvidence ==
  ASSUME TypeOK, BundleInHand, Evidence, Kept, NEW p \in Controllers, StartChild(p)
  PROVE  Evidence'
<1>1. /\ job \in [Controllers -> Job] /\ pc \in [Controllers -> Phases]
      /\ job[p].final \in BOOLEAN /\ pc[p] = "begin"
  BY DEF TypeOK, Job, StartChild
<1>2. UNCHANGED <<status, incumbent, files>>
  BY DEF StartChild
<1>3. CASE UNCHANGED training /\ (ChildFailed(p) \/ (ChildSucceeded(p) /\ training = "succeeded"))
  BY <1>1, <1>2, <1>3, ChildEvidence DEF Children
<1>4. CASE /\ job[p].final => training = "none"
           /\ training' = IF job[p].final THEN "opened" ELSE training
           /\ pc' = [pc EXCEPT ![p] = "commit_child"] /\ UNCHANGED job
  <2>1. Alone(p) /\ pc'[p] = "commit_child" /\ job' = job
    BY <1>1, <1>4 DEF Alone
  <2>2. Backed(p)'
    BY <1>1, <1>2, <2>1 DEF Backed, Evidence, Children, files
  <2>3. CASE ~job[p].final
    <3>1. Modest
      BY <1>2, <1>4, <2>3 DEF Modest, files
    <3> QED
      BY <2>1, <2>2, <2>3, <3>1, ModestStep
  <2>4. CASE job[p].final
    <3>1. training = "none" /\ training' = "opened" /\ UNCHANGED <<status, outcome, bundle, incumbent, receipt>>
      BY <1>2, <1>4, <2>4 DEF files
    <3>2. Trainers = {}
      BY <3>1 DEF Evidence, OneTrainer
    <3>3. Trainers' \subseteq {p}
      BY <2>1, <3>2 DEF Trainers, Alone
    <3>4. OneTrainer'
      BY <3>1, <3>3 DEF OneTrainer
    <3>5. Lasting /\ BundleBacked' /\ CompletedBacked'
      BY <3>1 DEF Lasting, Evidence, BundleBacked, CompletedBacked
    <3>6. ReceiptTrue'
      BY <3>1 DEF Evidence, ReceiptTrue, Receipted
    <3> QED
      BY <2>1, <2>2, <3>4, <3>5, <3>6, EvidenceFrame
  <2> QED
    BY <1>1, <2>3, <2>4
<1> QED
  BY <1>3, <1>4 DEF StartChild, Goto

\* Committing the row does not end the training.
LEMMA CommitEvidence ==
  ASSUME TypeOK, BundleInHand, Evidence, Kept, NEW p \in Controllers, CommitChild(p)
  PROVE  Evidence'
<1>1. /\ job \in [Controllers -> Job] /\ pc \in [Controllers -> Phases]
      /\ pc[p] = "commit_child"
  BY DEF TypeOK, CommitChild
<1>2. UNCHANGED <<status, incumbent, training, files>>
  BY DEF CommitChild
<1>3. CASE ChildFailed(p)
  BY <1>1, <1>2, <1>3, ChildEvidence DEF Children
<1>4. CASE pc' = [pc EXCEPT ![p] = "end_child"] /\ UNCHANGED job
  <2>1. Alone(p) /\ pc'[p] = "end_child" /\ job' = job
    BY <1>1, <1>4 DEF Alone
  <2>2. Backed(p)'
    BY <1>1, <1>2, <2>1 DEF Backed, Evidence, Children, files
  <2>3. Trainers' = Trainers
    BY <1>1, <2>1 DEF Trainers, Alone
  <2>4. OneTrainer'
    BY <1>2, <2>3 DEF OneTrainer, Evidence
  <2>5. Lasting /\ BundleBacked' /\ CompletedBacked'
    BY <1>2 DEF Lasting, Evidence, BundleBacked, CompletedBacked, files
  <2>6. ReceiptTrue'
    BY <1>2 DEF Evidence, ReceiptTrue, Receipted, files
  <2> QED
    BY <2>1, <2>2, <2>4, <2>5, <2>6, EvidenceFrame
<1> QED
  BY <1>3, <1>4 DEF CommitChild, Goto

\* The final training ends for the only command that trains, before anything generated is
\* published.
LEMMA EndEvidence ==
  ASSUME TypeOK, BundleInHand, Evidence, Kept, NEW p \in Controllers, EndChild(p)
  PROVE  Evidence'
<1>1. /\ job \in [Controllers -> Job] /\ pc \in [Controllers -> Phases]
      /\ job[p].final \in BOOLEAN /\ pc[p] = "end_child"
  BY DEF TypeOK, Job, EndChild
<1>2. UNCHANGED <<status, incumbent, files>>
  BY DEF EndChild
<1>3. CASE ~job[p].final
  <2>1. UNCHANGED training /\ (ChildFailed(p) \/ ChildSucceeded(p))
    BY <1>3 DEF EndChild
  <2> QED
    BY <1>1, <1>2, <1>3, <2>1, ChildEvidence DEF Children
<1>4. CASE job[p].final
  <2>1. /\ Alone(p) /\ ~job'[p].final
        /\ pc'[p] \in {"verdict", "failed", "publish", "observe"}
        /\ pc'[p] = "publish" /\ job'[p].picked = "generated" => ChildSucceeded(p)
    BY ChildHand DEF EndChild
  <2>2. ChildSucceeded(p) /\ ~ChildFailed(p) => training' = "succeeded"
    BY <1>4 DEF EndChild
  <2>3. ChildFailed(p) => job'[p].picked = "fallback"
    BY <1>1, <1>4 DEF ChildFailed, Job
  <2>4. outcome = "generated" /\ outcome' = outcome
    BY <1>2, <1>4 DEF Evidence, Backed, files
  <2>5. Backed(p)'
    BY <2>1, <2>2, <2>3, <2>4, NoneAssumption DEF Backed, Selections
  <2>6. p \in Trainers
    BY <1>1, <1>4 DEF Trainers
  <2>7. Trainers' = {}
    BY <2>1, <2>6 DEF Trainers, Alone, Evidence, OneTrainer
  <2>8. training # "succeeded" /\ bundle # "generated"
    BY <2>6 DEF Evidence, OneTrainer, BundleBacked
  <2>9. OneTrainer'
    BY <2>7 DEF OneTrainer
  <2>10. Lasting /\ BundleBacked' /\ CompletedBacked'
    BY <1>2, <2>8 DEF Lasting, Evidence, BundleBacked, CompletedBacked, files
  <2>11. ReceiptTrue'
    BY <1>2, <2>8 DEF Evidence, ReceiptTrue, Receipted, files
  <2> QED
    BY <2>1, <2>5, <2>9, <2>10, <2>11, EvidenceFrame
<1> QED
  BY <1>1, <1>3, <1>4

\* A file that cannot be read ends the command, fails its finalization or gives its child up.
LEMMA RefusedEvidence ==
  ASSUME TypeOK, BundleInHand, Evidence, Kept, NEW p \in Controllers, Refused(p)
  PROVE  Evidence'
<1>1. /\ job \in [Controllers -> Job] /\ pc \in [Controllers -> Phases]
      /\ UNCHANGED <<status, incumbent, training, files>>
  BY DEF TypeOK, Refused, store
<1>2. CASE pc[p] = "begin" /\ ChildFailed(p)
  BY <1>1, <1>2, ChildEvidence DEF Children
<1>3. CASE ~(pc[p] = "begin" /\ ChildFailed(p))
  <2>1. Exit(p) \/ (Fail(p) /\ pc[p] \notin Children)
    BY <1>3 DEF Refused, Children
  <2>2. ~NoJob.final /\ (pc[p] \notin Children => ~job[p].final)
    BY DEF NoJob, Evidence, Backed
  <2>3. Alone(p) /\ pc'[p] \in {"down", "failed"} /\ ~job'[p].final
    BY <1>1, <2>1, <2>2 DEF Exit, Fail, Goto, Alone
  <2>4. Modest
    BY <1>1 DEF Modest, files
  <2> QED
    BY <2>3, <2>4, FreeStep DEF Free, Phases
<1> QED
  BY <1>2, <1>3

\* No command has started and nothing is retained.
LEMMA InitEvidence == Init => Evidence
<1> SUFFICES ASSUME Init
             PROVE  Evidence
  OBVIOUS
<1>1. /\ \A p \in Controllers : pc[p] = "down" /\ job[p] = NoJob
      /\ status = "RUNNING" /\ bundle = None /\ receipt = None
  BY DEF Init
<1>2. ~NoJob.final
  BY DEF NoJob
<1>3. ASSUME NEW p \in Controllers
      PROVE  Backed(p)
  BY <1>1, <1>2 DEF Backed
<1>4. OneTrainer
  BY <1>1 DEF OneTrainer, Trainers
<1>5. BundleBacked
  BY <1>1, NoneAssumption DEF BundleBacked, Selections
<1>6. CompletedBacked /\ ReceiptTrue
  BY <1>1 DEF CompletedBacked, ReceiptTrue, Receipted
<1> QED
  BY <1>3, <1>4, <1>5, <1>6 DEF Evidence

\* Every step keeps the evidence.
LEMMA EvidenceStep ==
  TypeOK /\ BundleInHand /\ Custody /\ Evidence /\ [Next]_vars => Evidence'
<1> SUFFICES ASSUME TypeOK, BundleInHand, Custody, Evidence, [Next]_vars
             PROVE  Evidence'
  OBVIOUS
<1>0. Kept
  BY CustodyStep
<1>1. CASE Tick \/ UNCHANGED vars
  <2>1. UNCHANGED <<status, outcome, training, bundle, incumbent, receipt, pc, job>>
    BY <1>1 DEF Tick, vars, store, files
  <2> QED
    BY <2>1 DEF Evidence, Backed, OneTrainer, Trainers, BundleBacked, CompletedBacked,
      ReceiptTrue, Receipted
<1>2. ASSUME NEW p \in Controllers, FreeAction(p)
      PROVE  Evidence'
  BY <1>0, <1>2, FreeActions, FreeStep
<1>3. ASSUME NEW p \in Controllers, Dispose(p) \/ Load(p) \/ Phase(p)
      PROVE  Evidence'
  BY <1>0, <1>3, DisposeStep, LoadStep, PhaseStep, ModestStep
<1>4. ASSUME NEW p \in Controllers, Prepare(p)
      PROVE  Evidence'
  BY <1>0, <1>4, PrepareStep, ModestStep
<1>5. ASSUME NEW p \in Controllers, StartChild(p) \/ CommitChild(p) \/ EndChild(p)
      PROVE  Evidence'
  BY <1>0, <1>5, StartEvidence, CommitEvidence, EndEvidence
<1>6. ASSUME NEW p \in Controllers, Publish(p) \/ Incumbent(p) \/ Complete(p)
      PROVE  Evidence'
  BY <1>0, <1>6, PublishEvidence, IncumbentEvidence, CompleteEvidence
<1>7. ASSUME NEW p \in Controllers, CreateReceipt(p) \/ FillReceipt(p)
      PROVE  Evidence'
  BY <1>0, <1>7, CreateEvidence, FillEvidence
<1>8. ASSUME NEW p \in Controllers, Refused(p)
      PROVE  Evidence'
  BY <1>0, <1>8, RefusedEvidence
<1> QED
  BY <1>1, <1>2, <1>3, <1>4, <1>5, <1>6, <1>7, <1>8 DEF Next, Step, FreeAction

\* Whatever commands race, die and are repeated, the receipt, the bundle, the incumbent, the
\* outcome and the status of a campaign tell of one candidate (_complete_campaign and
\* _write_exclusive of production.py, set_current_incumbent of store.py).
THEOREM EvidenceHolds == Spec => []EvidenceAgrees
<1>1. TypeOK /\ Evidence => EvidenceAgrees
  BY DEF Evidence, EvidenceAgrees, CompletedHasBundle, BundleBacked, CompletedBacked
<1> QED
  BY <1>1, InitEvidence, EvidenceStep, TypeCorrect, CustodyHolds, PTL DEF Spec

-----------------------------------------------------------------------------
(* One command at a time: research ends with the handoff.                  *)

\* Where a pass of the runtime is before it hands over.
Researching == {"stage", "gate", "science", "verdict", "ensure", "commit"}

\* After the handoff a command is reporting or finalizing, its child is the final training.
After(p) ==
  HandedOff =>
    /\ pc[p] \notin Researching
    /\ pc[p] \in Children => job[p].final
    /\ pc[p] \in {"resume", "dispose", "set", "resumed"} => job[p].kind # "drive"

\* The command, its death and the clock keep it there.
LEMMA AfterStep ==
  ASSUME NEW c, Controllers = {c}, TypeOK, After(c), [Next]_vars
  PROVE  After(c)'
<1> USE DEF After, HandedOff, Handoff, Researching, Children, Goto, Exit, Return, Fail, store, files
<1>0. /\ pc \in [Controllers -> Phases] /\ job \in [Controllers -> Job]
      /\ c \in Controllers /\ job[c] \in Job /\ stages \in 0 .. 8
      /\ job[c].final \in BOOLEAN /\ NoJob.kind = "drive"
  BY DEF TypeOK, NoJob, Job
<1>k. [NoJob EXCEPT !.kind = "finalize"].kind = "finalize" /\ [NoJob EXCEPT !.kind = "expire"].kind = "expire"
  BY DEF NoJob
<1>1. CASE Command(c)
  BY <1>0, <1>k, <1>1 DEF Command
<1>2. CASE Drive(c)
  BY <1>0, <1>2 DEF Drive
<1>3. CASE ResumeRead(c)
  <2>1. /\ pc'[c] \in {"resumed", "dispose", "down"} /\ UNCHANGED stages /\ pc[c] = "resume"
        /\ pc'[c] # "down" => job'[c].kind = job[c].kind
    BY <1>0, <1>3 DEF ResumeRead, Job
  <2> QED
    BY <2>1
<1>4. CASE Dispose(c)
  BY <1>0, <1>4 DEF Dispose, Disposition
<1>5. CASE SetPhase(c)
  BY <1>0, <1>5 DEF SetPhase
<1>6. CASE Resumed(c)
  BY <1>0, <1>6 DEF Resumed
<1>7. CASE Stage(c)
  BY <1>0, <1>7 DEF Stage, TowardStage
<1>8. CASE FoldGate(c)
  BY <1>0, <1>8 DEF FoldGate, Closes
<1>9. CASE FeatureGate(c)
  BY <1>0, <1>9 DEF FeatureGate, Closes
<1>10. CASE LineageGate(c)
  BY <1>0, <1>10 DEF LineageGate
<1>11. CASE NextCandidate(c)
  BY <1>0, <1>11 DEF NextCandidate
<1>12. CASE Promote(c)
  BY <1>0, <1>12 DEF Promote
<1>13. CASE Verdict(c)
  BY <1>0, <1>13 DEF Verdict
<1>14. CASE EndScience(c)
  BY <1>0, <1>14 DEF EndScience
<1>15. CASE EnsureRequired(c)
  BY <1>0, <1>15 DEF EnsureRequired
<1>16. CASE CommitOutcome(c)
  BY <1>0, <1>16 DEF CommitOutcome
<1>17. CASE RefuseOutcome(c)
  BY <1>0, <1>17 DEF RefuseOutcome
<1>18. CASE StartChild(c)
  BY <1>0, <1>18 DEF StartChild, ChildFailed, ChildSucceeded
<1>19. CASE CommitChild(c)
  BY <1>0, <1>19 DEF CommitChild, ChildFailed
<1>20. CASE EndChild(c)
  BY <1>0, <1>20 DEF EndChild, ChildFailed, ChildSucceeded
<1>21. CASE Load(c)
  BY <1>0, <1>21 DEF Load
<1>22. CASE Phase(c)
  BY <1>0, <1>22 DEF Phase
<1>23. CASE Prepare(c)
  <2>1. /\ pc'[c] \in {"failed", "publish", "observe", "begin"} /\ UNCHANGED stages
        /\ pc'[c] = "begin" => job'[c].final
    BY <1>0, <1>23 DEF Prepare, Job
  <2> QED
    BY <2>1
<1>24. CASE Publish(c)
  BY <1>0, <1>24 DEF Publish
<1>25. CASE Observe(c)
  BY <1>0, <1>25 DEF Observe
<1>26. CASE Incumbent(c)
  BY <1>0, <1>26 DEF Incumbent
<1>27. CASE Complete(c)
  BY <1>0, <1>27 DEF Complete
<1>28. CASE CreateReceipt(c)
  BY <1>0, <1>28 DEF CreateReceipt
<1>29. CASE FillReceipt(c)
  BY <1>0, <1>29 DEF FillReceipt
<1>30. CASE Failed(c)
  BY <1>0, <1>k, <1>30 DEF Failed
<1>31. CASE Crash(c)
  BY <1>0, <1>31 DEF Crash
<1>32. CASE Tick \/ UNCHANGED vars
  BY <1>0, <1>32 DEF Tick, vars
<1>33. CASE Refused(c)
  BY <1>0, <1>33 DEF Refused, ChildFailed
<1> QED
  BY <1>1, <1>2, <1>3, <1>4, <1>5, <1>6, <1>7, <1>8, <1>9, <1>10, <1>11, <1>12, <1>13, <1>14, <1>15, <1>16, <1>17, <1>18, <1>19, <1>20, <1>21, <1>22, <1>23, <1>24, <1>25, <1>26, <1>27, <1>28, <1>29, <1>30, <1>31, <1>32, <1>33 DEF Next, Step

\* Nothing has been handed over, and the verdicts change only where research goes on.
LEMMA InitAfter == ASSUME NEW c, Controllers = {c}, Init
                   PROVE  After(c)
BY DEF Init, After, HandedOff, Handoff

LEMMA VerdictsStand ==
  ASSUME NEW c, Controllers = {c}, TypeOK, After(c), [Next]_vars, outcome # None
  PROVE  verdict' = verdict
<1> USE DEF store
<1>1. HandedOff /\ pc[c] # "verdict"
  BY DEF TypeOK, After, HandedOff, Researching
<1>2. CASE Tick \/ UNCHANGED vars \/ \E p \in Controllers : Command(p) \/ Crash(p)
  BY <1>2 DEF Tick, vars, Command, Crash
<1>3. CASE Step(c)
  <2>1. ~Promote(c) /\ ~Verdict(c)
    BY <1>1 DEF Promote, Verdict
  <2>2. CASE Drive(c) \/ ResumeRead(c) \/ Dispose(c) \/ SetPhase(c) \/ Resumed(c) \/ Stage(c)
    BY <2>2 DEF Drive, ResumeRead, Dispose, SetPhase, Resumed, Stage
  <2>3. CASE FoldGate(c) \/ FeatureGate(c) \/ LineageGate(c) \/ NextCandidate(c) \/ EndScience(c)
             \/ EnsureRequired(c) \/ CommitOutcome(c) \/ RefuseOutcome(c)
    BY <2>3 DEF FoldGate, FeatureGate, LineageGate, NextCandidate, EndScience, EnsureRequired,
      CommitOutcome, RefuseOutcome
  <2>4. CASE StartChild(c) \/ CommitChild(c) \/ EndChild(c) \/ Load(c) \/ Phase(c) \/ Prepare(c)
    BY <2>4 DEF StartChild, CommitChild, EndChild, Load, Phase, Prepare
  <2>5. CASE Publish(c) \/ Observe(c) \/ Incumbent(c) \/ Complete(c) \/ CreateReceipt(c)
             \/ FillReceipt(c) \/ Failed(c)
    BY <2>5 DEF Publish, Observe, Incumbent, Complete, CreateReceipt, FillReceipt, Failed
  <2>6. CASE Refused(c)
    BY <2>6 DEF Refused
  <2> QED
    BY <1>3, <2>1, <2>2, <2>3, <2>4, <2>5, <2>6 DEF Step
<1> QED
  BY <1>2, <1>3 DEF Next

\* With one command at a time no public query is charged or decided after the handoff
\* (run_provider_free_campaign returns a retained outcome before it does anything else).
THEOREM ResearchIsOver ==
  ASSUME NEW c, Controllers = {c}
  PROVE  Spec => NoResearchAfterHandoff
<1>1. Init => After(c)
  BY InitAfter
<1>2. TypeOK /\ After(c) /\ [Next]_vars => After(c)'
  BY AfterStep
<1>3. TypeOK /\ After(c) /\ [Next]_vars => [outcome # None => verdict' = verdict]_vars
  BY VerdictsStand
<1> QED
  BY <1>1, <1>2, <1>3, TypeCorrect, PTL DEF Spec, NoResearchAfterHandoff

-----------------------------------------------------------------------------
(* One command at a time: the status follows its transition table.         *)

\* A finalization that goes on took the campaign over, and no disposition is out of date.
Order(p) ==
  /\ pc[p] = "dispose" => status \notin Terminal
  /\ pc[p] = "set" => /\ status \notin Terminal
                      /\ \/ job[p].target = "INCOMPLETE"
                         \/ status = "RUNNING" /\ job[p].target = "FINALIZATION_REQUIRED"
  /\ pc[p] \in {"prepare", "publish"} \/ job[p].final => status \in {"FINALIZING", "COMPLETED"}
  /\ pc[p] \in {"receipt", "fill"} => status = "COMPLETED"

\* The command, its death and the clock keep it so.
LEMMA OrderStep ==
  ASSUME NEW c, Controllers = {c}, TypeOK, Evidence, Order(c), [Next]_vars
  PROVE  Order(c)'
<1> USE DEF Order, Children, Goto, Exit, Return, Fail, store, files, Terminal
<1>0. /\ pc \in [Controllers -> Phases] /\ job \in [Controllers -> Job]
      /\ c \in Controllers /\ job[c] \in Job /\ job[c].final \in BOOLEAN
      /\ pc[c] \notin Children => ~job[c].final
  BY DEF TypeOK, Job, Evidence, Backed
<1>k. ~NoJob.final
  BY DEF NoJob
<1>1. CASE Command(c)
  <2>1. pc'[c] \in Free /\ ~job'[c].final
    BY <1>1, FreeActions DEF FreeAction
  <2>2. pc'[c] # "dispose"
    BY <1>0, <1>1 DEF Command
  <2> QED
    BY <2>1, <2>2 DEF Free
<1>2. CASE Drive(c)
  BY <1>0, <1>k, <1>2 DEF Drive
<1>3. CASE ResumeRead(c)
  <2>1. pc'[c] \in Free /\ ~job'[c].final
    BY <1>3, FreeActions DEF FreeAction
  <2>2. pc'[c] = "dispose" => status' \notin Terminal
    BY <1>0, <1>3 DEF ResumeRead
  <2> QED
    BY <2>1, <2>2 DEF Free
<1>4. CASE Dispose(c)
  BY <1>0, <1>k, <1>4 DEF Dispose, Disposition
<1>5. CASE SetPhase(c)
  BY <1>0, <1>k, <1>5 DEF SetPhase
<1>6. CASE Resumed(c)
  <2>1. pc'[c] \in Free /\ ~job'[c].final
    BY <1>6, FreeActions DEF FreeAction
  <2>2. pc'[c] # "dispose"
    BY <1>0, <1>6 DEF Resumed
  <2> QED
    BY <2>1, <2>2 DEF Free
<1>7. CASE Stage(c)
  BY <1>0, <1>k, <1>7 DEF Stage, TowardStage
<1>8. CASE FoldGate(c)
  <2>1. pc'[c] \in Free /\ ~job'[c].final
    BY <1>8, FreeActions DEF FreeAction
  <2>2. pc'[c] # "dispose"
    BY <1>0, <1>8 DEF FoldGate
  <2> QED
    BY <2>1, <2>2 DEF Free
<1>9. CASE FeatureGate(c)
  BY <1>0, <1>k, <1>9 DEF FeatureGate, Closes
<1>10. CASE LineageGate(c)
  BY <1>0, <1>k, <1>10 DEF LineageGate
<1>11. CASE NextCandidate(c)
  BY <1>0, <1>k, <1>11 DEF NextCandidate
<1>12. CASE Promote(c)
  BY <1>0, <1>k, <1>12 DEF Promote
<1>13. CASE Verdict(c)
  BY <1>0, <1>k, <1>13 DEF Verdict
<1>14. CASE EndScience(c)
  BY <1>0, <1>k, <1>14 DEF EndScience
<1>15. CASE EnsureRequired(c)
  BY <1>0, <1>k, <1>15 DEF EnsureRequired
<1>16. CASE CommitOutcome(c)
  BY <1>0, <1>k, <1>16 DEF CommitOutcome
<1>17. CASE RefuseOutcome(c)
  BY <1>0, <1>k, <1>17 DEF RefuseOutcome
<1>18. CASE StartChild(c)
  <2>1. CASE UNCHANGED job /\ pc' = [pc EXCEPT ![c] = "commit_child"]
    BY <1>0, <1>18, <2>1 DEF StartChild
  <2>2. CASE ChildFailed(c) \/ ChildSucceeded(c)
    <3>1. /\ ~job'[c].final /\ pc'[c] \in {"verdict", "failed", "publish", "observe"}
          /\ pc'[c] = "publish" => job[c].final
      BY <2>2, ChildHand
    <3>2. UNCHANGED status
      BY <1>18 DEF StartChild
    <3> QED
      BY <3>1, <3>2
  <2> QED
    BY <1>18, <2>1, <2>2 DEF StartChild
<1>19. CASE CommitChild(c)
  <2>1. CASE UNCHANGED job /\ pc' = [pc EXCEPT ![c] = "end_child"]
    BY <1>0, <1>19, <2>1 DEF CommitChild
  <2>2. CASE ChildFailed(c) \/ ChildSucceeded(c)
    <3>1. /\ ~job'[c].final /\ pc'[c] \in {"verdict", "failed", "publish", "observe"}
          /\ pc'[c] = "publish" => job[c].final
      BY <2>2, ChildHand
    <3>2. UNCHANGED status
      BY <1>19 DEF CommitChild
    <3> QED
      BY <3>1, <3>2
  <2> QED
    BY <1>19, <2>1, <2>2 DEF CommitChild
<1>20. CASE EndChild(c)
  <2>2. CASE ChildFailed(c) \/ ChildSucceeded(c)
    <3>1. /\ ~job'[c].final /\ pc'[c] \in {"verdict", "failed", "publish", "observe"}
          /\ pc'[c] = "publish" => job[c].final
      BY <2>2, ChildHand
    <3>2. UNCHANGED status
      BY <1>20 DEF EndChild
    <3> QED
      BY <3>1, <3>2
  <2> QED
    BY <1>20, <2>2 DEF EndChild
<1>21. CASE Load(c)
  BY <1>0, <1>k, <1>21 DEF Load
<1>22. CASE Phase(c)
  BY <1>0, <1>k, <1>22 DEF Phase
<1>23. CASE Prepare(c)
  BY <1>0, <1>k, <1>23 DEF Prepare
<1>24. CASE Publish(c)
  BY <1>0, <1>k, <1>24 DEF Publish
<1>25. CASE Observe(c)
  BY <1>0, <1>k, <1>25 DEF Observe
<1>26. CASE Incumbent(c)
  BY <1>0, <1>k, <1>26 DEF Incumbent
<1>27. CASE Complete(c)
  BY <1>0, <1>k, <1>27 DEF Complete
<1>28. CASE CreateReceipt(c)
  BY <1>0, <1>k, <1>28 DEF CreateReceipt
<1>29. CASE FillReceipt(c)
  BY <1>0, <1>k, <1>29 DEF FillReceipt
<1>30. CASE Failed(c)
  <2>1. pc'[c] \in Free /\ ~job'[c].final
    BY <1>30, FreeActions DEF FreeAction
  <2>2. pc'[c] # "dispose"
    BY <1>0, <1>30 DEF Failed
  <2> QED
    BY <2>1, <2>2 DEF Free
<1>31. CASE Crash(c)
  BY <1>0, <1>k, <1>31 DEF Crash
<1>32. CASE Tick \/ UNCHANGED vars
  BY <1>0, <1>32 DEF Tick, vars
<1>33. CASE Refused(c)
  <2>1. CASE pc[c] = "begin" /\ ChildFailed(c)
    <3>1. /\ ~job'[c].final /\ pc'[c] \in {"verdict", "failed", "publish", "observe"}
          /\ pc'[c] = "publish" => job[c].final
      BY <2>1, ChildHand
    <3>2. UNCHANGED status
      BY <1>33 DEF Refused
    <3> QED
      BY <3>1, <3>2
  <2>2. CASE Exit(c) \/ (Fail(c) /\ pc[c] \notin Children)
    <3>1. pc'[c] \in {"down", "failed"} /\ ~job'[c].final
      BY <1>0, <1>k, <2>2
    <3> QED
      BY <3>1
  <2> QED
    BY <1>33, <2>1, <2>2 DEF Refused
<1> QED
  BY <1>1, <1>2, <1>3, <1>4, <1>5, <1>6, <1>7, <1>8, <1>9, <1>10, <1>11, <1>12, <1>13, <1>14, <1>15, <1>16, <1>17, <1>18, <1>19, <1>20, <1>21, <1>22, <1>23, <1>24, <1>25, <1>26, <1>27, <1>28, <1>29, <1>30, <1>31, <1>32, <1>33 DEF Next, Step

\* What a reader sees of the receipt.
Shown == IF Receipted THEN receipt.selected ELSE None

\* The moves of the status that _CAMPAIGN_TRANSITIONS allows and the commands make.
LEMMA Transitions ==
  /\ \A s \in States \ Terminal : <<s, "INCOMPLETE">> \in Promise!Transitions
  /\ <<"RUNNING", "FINALIZATION_REQUIRED">> \in Promise!Transitions
  /\ <<"FINALIZATION_REQUIRED", "FINALIZING">> \in Promise!Transitions
  /\ <<"FINALIZING", "COMPLETED">> \in Promise!Transitions
BY DEF Promise!Transitions, Promise!States, States, Terminal

\* Such a move, to COMPLETED only with a bundle.
LEMMA Advances ==
  ASSUME NEW to \in States, <<status, to>> \in Promise!Transitions, status' = to,
         to = "COMPLETED" => bundle # None, UNCHANGED <<bundle, receipt>>
  PROVE  Promise!Next
<1>1. Shown' = Shown
  BY DEF Shown, Receipted
<1>2. to \in Promise!States
  BY DEF States, Promise!States
<1>3. Promise!Advance(to)
  BY <1>1 DEF Promise!Advance, Shown
<1> QED
  BY <1>2, <1>3 DEF Promise!Next

\* A step that a reader does not see.
Unseen == UNCHANGED <<status, bundle, receipt>>

UnseenAction(p) ==
  \/ Command(p) \/ Drive(p) \/ ResumeRead(p) \/ Dispose(p) \/ Resumed(p) \/ Stage(p)
  \/ FoldGate(p) \/ FeatureGate(p) \/ LineageGate(p) \/ NextCandidate(p) \/ Promote(p)
  \/ Verdict(p) \/ EndScience(p) \/ CommitOutcome(p) \/ RefuseOutcome(p) \/ StartChild(p)
  \/ CommitChild(p) \/ EndChild(p) \/ Load(p) \/ Prepare(p) \/ Observe(p) \/ Incumbent(p)
  \/ Failed(p) \/ Refused(p) \/ Crash(p)

LEMMA UnseenSteps ==
  ASSUME NEW p, UnseenAction(p)
  PROVE  Unseen
<1> USE DEF Unseen, store, files
<1>1. CASE Command(p) \/ Drive(p) \/ ResumeRead(p) \/ Dispose(p) \/ Resumed(p) \/ Stage(p)
  BY <1>1 DEF Command, Drive, ResumeRead, Dispose, Resumed, Stage
<1>2. CASE FoldGate(p) \/ FeatureGate(p) \/ LineageGate(p) \/ NextCandidate(p) \/ Promote(p)
           \/ Verdict(p) \/ EndScience(p) \/ CommitOutcome(p) \/ RefuseOutcome(p)
  BY <1>2 DEF FoldGate, FeatureGate, LineageGate, NextCandidate, Promote, Verdict, EndScience,
    CommitOutcome, RefuseOutcome
<1>3. CASE StartChild(p) \/ CommitChild(p) \/ EndChild(p) \/ Load(p) \/ Prepare(p) \/ Observe(p)
           \/ Incumbent(p) \/ Failed(p) \/ Refused(p) \/ Crash(p)
  BY <1>3 DEF StartChild, CommitChild, EndChild, Load, Prepare, Observe, Incumbent, Failed, Refused,
    Crash
<1> QED
  BY <1>1, <1>2, <1>3 DEF UnseenAction

\* Every step of the one command is a step of the promise or is not seen.
LEMMA PromiseStep ==
  ASSUME NEW c, Controllers = {c}, TypeOK, BundleInHand, Custody, Evidence, Order(c), [Next]_vars
  PROVE  [Promise!Next]_(Promise!vars)
<1>0. c \in Controllers
  OBVIOUS
<1>1. CASE Unseen
  BY <1>1 DEF Unseen, Promise!vars, Receipted
<1>2. CASE Tick \/ UNCHANGED vars
  BY <1>1, <1>2 DEF Unseen, Tick, vars, store, files
<1>3. CASE UnseenAction(c)
  BY <1>1, <1>3, UnseenSteps
<1>4. CASE SetPhase(c)
  <2>1. /\ job[c].target \in States /\ status' = job[c].target /\ UNCHANGED <<bundle, receipt>>
        /\ job[c].target # "COMPLETED" /\ status \in States
    BY <1>4 DEF SetPhase, Order, files, States, TypeOK
  <2>2. <<status, job[c].target>> \in Promise!Transitions
    BY <1>4, <2>1, Transitions DEF SetPhase, Order
  <2> QED
    BY <2>1, <2>2, Advances
<1>5. CASE EnsureRequired(c)
  <2>1. \/ Unseen
        \/ /\ status = "RUNNING" /\ status' = "FINALIZATION_REQUIRED"
           /\ UNCHANGED <<bundle, receipt>>
    BY <1>5 DEF EnsureRequired, Unseen, files
  <2> QED
    BY <1>1, <2>1, Transitions, Advances DEF States
<1>6. CASE Phase(c)
  <2>1. \/ Unseen
        \/ /\ status = "FINALIZATION_REQUIRED" /\ status' = "FINALIZING"
           /\ UNCHANGED <<bundle, receipt>>
    BY <1>6 DEF Phase, Unseen, files
  <2> QED
    BY <1>1, <2>1, Transitions, Advances DEF States
<1>7. CASE Complete(c)
  <2>1. bundle # None
    BY <1>0, <1>7 DEF Complete, BundleInHand, Published
  <2>2. \/ Unseen
        \/ /\ status = "FINALIZING" /\ status' = "COMPLETED"
           /\ UNCHANGED <<bundle, receipt>>
    BY <1>7 DEF Complete, Unseen, files
  <2> QED
    BY <1>1, <2>1, <2>2, Transitions, Advances DEF States
<1>8. CASE Publish(c)
  <2>1. \/ Unseen
        \/ /\ bundle = None /\ bundle' \in Selections /\ UNCHANGED <<status, receipt>>
    BY <1>0, <1>8 DEF Publish, Unseen, store, TypeOK, Job, Selections
  <2>2. ASSUME bundle = None, bundle' \in Selections, UNCHANGED <<status, receipt>>
        PROVE  Promise!Next
    <3>1. status = "FINALIZING"
      BY <1>8, <2>2 DEF Publish, Order, Evidence, CompletedBacked
    <3>2. Promise!Publish(bundle')
      BY <2>2, <3>1 DEF Promise!Publish, Receipted
    <3> QED
      BY <2>2, <3>2 DEF Promise!Next
  <2> QED
    BY <1>1, <2>1, <2>2
<1>9. CASE CreateReceipt(c)
  <2>1. /\ UNCHANGED <<status, bundle>>
        /\ receipt' = receipt \/ (receipt = None /\ receipt' = Torn)
    BY <1>9 DEF CreateReceipt, store, Fail
  <2> QED
    BY <2>1 DEF Promise!vars, Receipted
<1>10. CASE FillReceipt(c)
  <2>1. /\ receipt' = [selected |-> bundle, rev |-> job[c].rev] /\ UNCHANGED <<status, bundle>>
        /\ receipt = Torn /\ status = "COMPLETED" /\ bundle \in Selections
    BY <1>0, <1>10 DEF FillReceipt, store, Custody, OneWriter, Order, BundleInHand, Published, TypeOK
  <2>2. ~Receipted
    BY <2>1 DEF Receipted
  <2>3. Receipted' /\ receipt'.selected = bundle
    <3>1. job[c].rev \in Nat
      BY <1>0 DEF TypeOK, Job
    <3>2. receipt' \in Receipts /\ receipt'.selected = bundle
      BY <2>1, <3>1 DEF Receipts
    <3>3. receipt' # Torn
      BY <2>1, <3>2, NoneAssumption DEF Torn
    <3> QED
      BY <3>2, <3>3, TornAssumption DEF Receipted
  <2>4. Promise!Acknowledge
    BY <2>1, <2>2, <2>3 DEF Promise!Acknowledge
  <2> QED
    BY <2>4 DEF Promise!Next
<1> QED
  BY <1>2, <1>3, <1>4, <1>5, <1>6, <1>7, <1>8, <1>9, <1>10 DEF Next, Step, UnseenAction

LEMMA InitOrder == ASSUME NEW c, Controllers = {c}, Init
                   PROVE  Order(c) /\ Promise!Init
BY DEF Init, Order, NoJob, Promise!Init, Receipted

\* With one command at a time, whatever dies, a reader of the status, the bundle and the receipt
\* sees what CampaignPromise promises: the transition table of campaign/models.py, one bundle,
\* one true receipt.
THEOREM KeepsPromise ==
  ASSUME NEW c, Controllers = {c}
  PROVE  Spec => ImplementsPromise
<1>1. Init => Order(c) /\ Promise!Init
  BY InitOrder
<1>2. TypeOK /\ Evidence /\ Order(c) /\ [Next]_vars => Order(c)'
  BY OrderStep
<1>3. TypeOK /\ BundleInHand /\ Custody /\ Evidence /\ Order(c) /\ [Next]_vars
        => [Promise!Next]_(Promise!vars)
  BY PromiseStep
<1> QED
  BY <1>1, <1>2, <1>3, InitEvidence, EvidenceStep, TypeCorrect, CustodyHolds, PTL
    DEF Spec, ImplementsPromise, Promise!Spec

-----------------------------------------------------------------------------
(* One command at a time: a scripted campaign hands its winner over.       *)

\* The one candidate of a scripted campaign, its charge and its win.
Paid == verdict[1] \in {"charged", "won", "lost"}
Won == verdict[1] = "won"

\* A charge finds the fold controls ready, so no pass of a scripted campaign closes after it.
Passing(p) ==
  pc[p] \in {"stage", "gate"} =>
    /\ job[p].cand = 0
    /\ (pc[p] = "gate" /\ job[p].next \in {4, 5}) \/ (pc[p] = "stage" /\ job[p].next \in {3, 4, 5} /\ ~job[p].close)
         => folds = "ready" /\ (job[p].resumed <=> Paid)

\* A pass that closed has nothing to hand over; another one has the winner in hand.
Closing(p) ==
  pc[p] \in {"stage", "ensure", "commit"} =>
    /\ job[p].close => ~Paid
    /\ ~job[p].close /\ (pc[p] = "stage" => job[p].next \in {6, 7, 8}) /\ Won => job[p].picked = "generated"

\* The candidate is tried once the controls are ready, and kept when it wins.
Trying(p) ==
  /\ pc[p] = "science" =>
       /\ folds = "ready" /\ job[p].cand \in {0, 1}
       /\ job[p].cand = 1 /\ Won => job[p].picked = "generated"
  /\ pc[p] \in Children \cup {"verdict"} /\ ~job[p].final =>
       folds = "ready" /\ job[p].cand = 1 /\ verdict[1] \in {"none", "charged"}

Scripted(p) ==
  /\ \A x \in Candidates : x # 1 => verdict[x] = "none"
  /\ Paid => folds = "ready"
  /\ outcome = "fallback" => ~Won
  /\ Passing(p) /\ Closing(p) /\ Trying(p)

\* Nothing but the one candidate is ever charged or won.
LEMMA TheOne ==
  ASSUME TypeOK, \A x \in Candidates : x # 1 => verdict[x] = "none"
  PROVE  /\ 1 \in Candidates
         /\ Charged # {} <=> Paid
         /\ Winner <=> Won
<1>1. 1 \in Candidates
  BY LimitsAssumption DEF Candidates
<1> QED
  BY <1>1 DEF Charged, Paid, Winner, Won

\* A step that leads out of research, or goes on with the final training.
LEMMA ElsewhereStep ==
  ASSUME NEW c \in Controllers, Scripted(c), UNCHANGED <<verdict, folds, outcome>>,
         \/ pc'[c] \notin Researching \cup Children
         \/ pc'[c] \in Children /\ job'[c].final
  PROVE  Scripted(c)'
<1>1. Passing(c)' /\ Closing(c)'
  BY DEF Passing, Closing, Researching, Children
<1>2. Trying(c)'
  BY DEF Trying, Researching, Children
<1> QED
  BY <1>1, <1>2 DEF Scripted, Paid, Won

ElsewhereAction(p) ==
  \/ Command(p) \/ Drive(p) \/ ResumeRead(p) \/ Dispose(p) \/ SetPhase(p) \/ RefuseOutcome(p)
  \/ Load(p) \/ Phase(p) \/ Prepare(p) \/ Publish(p) \/ Observe(p) \/ Incumbent(p) \/ Complete(p)
  \/ CreateReceipt(p) \/ FillReceipt(p) \/ Failed(p) \/ Crash(p)

LEMMA ElsewhereActions ==
  ASSUME TypeOK, NEW c \in Controllers, ElsewhereAction(c)
  PROVE  /\ UNCHANGED <<verdict, folds, outcome>>
         /\ \/ pc'[c] \notin Researching \cup Children
            \/ pc'[c] \in Children /\ job'[c].final
<1> USE DEF Goto, Exit, Return, Fail, store, files, Researching, Children
<1>0. pc \in [Controllers -> Phases] /\ job \in [Controllers -> Job]
  BY DEF TypeOK
<1>1. CASE Command(c) \/ Drive(c) \/ ResumeRead(c) \/ Dispose(c) \/ SetPhase(c) \/ RefuseOutcome(c)
  BY <1>0, <1>1 DEF Command, Drive, ResumeRead, Dispose, SetPhase, RefuseOutcome
<1>2. CASE Load(c) \/ Phase(c) \/ Publish(c) \/ Observe(c) \/ Incumbent(c)
  BY <1>0, <1>2 DEF Load, Phase, Publish, Observe, Incumbent
<1>3. CASE Complete(c) \/ CreateReceipt(c) \/ FillReceipt(c) \/ Failed(c) \/ Crash(c)
  BY <1>0, <1>3 DEF Complete, CreateReceipt, FillReceipt, Failed, Crash
<1>4. CASE Prepare(c)
  <2>1. /\ pc'[c] \in {"failed", "publish", "observe", "begin"}
        /\ pc'[c] = "begin" => job'[c].final
    BY <1>0, <1>4 DEF Prepare, Job
  <2> QED
    BY <1>4, <2>1 DEF Prepare
<1> QED
  BY <1>1, <1>2, <1>3, <1>4 DEF ElsewhereAction

\* What a gate decides for a scripted campaign.
LEMMA FoldGateScripted ==
  ASSUME TypeOK, NEW c \in Controllers, Scripted(c), FoldGate(c)
  PROVE  Scripted(c)'
<1>1. /\ pc \in [Controllers -> Phases] /\ job \in [Controllers -> Job]
      /\ job[c].next = FoldControls /\ pc[c] = "gate" /\ folds \in {"none", "ready", "failed"}
      /\ Charged # {} <=> Paid
      /\ UNCHANGED <<verdict, outcome>>
  BY TheOne DEF TypeOK, FoldGate, Scripted, files
<1>2. CASE pc'[c] = "down" /\ UNCHANGED folds
  BY <1>1, <1>2, ElsewhereStep DEF Researching, Children
<1>3. CASE /\ folds' \in IF folds = "none" /\ ~Closes(job[c].required, Charged # {})
                         THEN {"ready", "failed"} ELSE {folds}
           /\ job' = [job EXCEPT ![c].resumed = Charged # {},
                                 ![c].close = Closes(job[c].required, Charged # {}) \/ folds' = "failed"]
           /\ pc' = [pc EXCEPT ![c] = "stage"]
  <2>1. /\ pc'[c] = "stage" /\ job'[c].next = 3 /\ job'[c].cand = 0
        /\ job'[c].resumed = Paid
        /\ job'[c].close = (Closes(job[c].required, Charged # {}) \/ folds' = "failed")
    <3> DEFINE y == Closes(job[c].required, Charged # {}) \/ folds' = "failed"
    <3>1. job' = [job EXCEPT ![c].resumed = Charged # {}, ![c].close = y]
      BY <1>3
    <3>2. job[c].cand = 0 /\ job[c].next = 3
      BY <1>1 DEF Scripted, Passing, FoldControls
    <3>3. (Charged # {}) = Paid
      BY <1>1 DEF Paid
    <3> HIDE DEF y
    <3>4. /\ job'[c].next = 3 /\ job'[c].cand = 0 /\ job'[c].close = y
          /\ job'[c].resumed = (Charged # {})
      BY <1>1, <3>1, <3>2 DEF Job
    <3>5. pc'[c] = "stage"
      BY <1>1, <1>3
    <3> QED
      BY <3>2, <3>3, <3>4, <3>5 DEF y
  <2>2. Paid => folds = "ready" /\ folds' = "ready" /\ ~job'[c].close
    BY <1>1, <1>3, <2>1 DEF Scripted, Closes
  <2>3. ~job'[c].close => folds' = "ready"
    BY <1>1, <1>3, <2>1
  <2>4. Passing(c)'
    BY <1>1, <2>1, <2>3 DEF Passing, Paid
  <2>5. Closing(c)'
    BY <1>1, <2>1, <2>2 DEF Closing, Paid
  <2>6. Trying(c)'
    BY <2>1 DEF Trying, Children
  <2> QED
    BY <1>1, <2>2, <2>4, <2>5, <2>6 DEF Scripted, Paid, Won
<1>4. \/ pc'[c] = "down" /\ UNCHANGED folds
      \/ /\ folds' \in IF folds = "none" /\ ~Closes(job[c].required, Charged # {})
                       THEN {"ready", "failed"} ELSE {folds}
         /\ job' = [job EXCEPT ![c].resumed = Charged # {},
                               ![c].close = Closes(job[c].required, Charged # {}) \/ folds' = "failed"]
         /\ pc' = [pc EXCEPT ![c] = "stage"]
  BY <1>1 DEF FoldGate, Exit, Goto
<1> QED
  BY <1>2, <1>3, <1>4

LEMMA LaterGateScripted ==
  ASSUME TypeOK, NEW c \in Controllers, Scripted(c), ~live, FeatureGate(c) \/ LineageGate(c)
  PROVE  Scripted(c)'
<1>1. /\ pc \in [Controllers -> Phases] /\ job \in [Controllers -> Job]
      /\ pc[c] = "gate" /\ job[c].next \in {4, 5} /\ job[c].cand = 0
      /\ folds = "ready" /\ job[c].resumed = Paid
      /\ UNCHANGED <<verdict, outcome, folds>>
  <2>1. /\ pc[c] = "gate" /\ job[c].next \in {4, 5} /\ UNCHANGED <<verdict, outcome, folds>>
        /\ job[c].resumed \in BOOLEAN
    BY DEF FeatureGate, LineageGate, Features, Lineage, store, files, TypeOK, Job
  <2> QED
    BY <2>1 DEF Scripted, Passing, TypeOK, Paid
<1>2. PICK x \in BOOLEAN : job' = [job EXCEPT ![c].close = x] /\ pc' = [pc EXCEPT ![c] = "stage"]
                           /\ (x => ~Paid)
  <2>1. CASE FeatureGate(c)
    BY <1>1, <2>1 DEF FeatureGate, Closes, Goto
  <2>2. CASE LineageGate(c)
    BY <1>1, <2>2 DEF LineageGate, Goto
  <2> QED
    BY <2>1, <2>2
<1>3. /\ pc'[c] = "stage" /\ job'[c].next \in {4, 5} /\ job'[c].cand = 0
      /\ job'[c].resumed = Paid /\ job'[c].close = x
  BY <1>1, <1>2 DEF Job
<1>4. Passing(c)'
  BY <1>1, <1>3 DEF Passing, Paid
<1>5. Closing(c)'
  BY <1>1, <1>2, <1>3 DEF Closing, Paid
<1>6. Trying(c)'
  BY <1>3 DEF Trying, Children
<1> QED
  BY <1>1, <1>4, <1>5, <1>6 DEF Scripted, Paid, Won

\* A pass starts without a candidate in hand, and its stages carry on what the gates decided.
LEMMA ResumedScripted ==
  ASSUME TypeOK, NEW c \in Controllers, Scripted(c), Resumed(c)
  PROVE  Scripted(c)'
<1>1. /\ pc \in [Controllers -> Phases] /\ job \in [Controllers -> Job]
      /\ UNCHANGED <<verdict, folds, outcome>>
  BY DEF TypeOK, Resumed, store, files
<1>2. CASE pc'[c] \notin Researching \cup Children
  BY <1>1, <1>2, ElsewhereStep
<1>3. CASE job' = [job EXCEPT ![c] = [NoJob EXCEPT !.required = (status # "RUNNING")]]
           /\ pc' = [pc EXCEPT ![c] = "stage"]
  <2>1. job'[c].next = 1 /\ job'[c].cand = 0 /\ ~job'[c].close /\ pc'[c] = "stage"
    BY <1>1, <1>3 DEF NoJob
  <2> QED
    BY <1>1, <2>1 DEF Scripted, Passing, Closing, Trying, Children, Paid, Won
<1> QED
  BY <1>1, <1>2, <1>3 DEF Resumed, Goto, Exit, Researching, Children

LEMMA StageScripted ==
  ASSUME TypeOK, NEW c \in Controllers, Scripted(c), Stage(c)
  PROVE  Scripted(c)'
<1>1. /\ pc \in [Controllers -> Phases] /\ job \in [Controllers -> Job]
      /\ pc[c] = "stage" /\ job[c].next \in 1 .. 7 /\ job[c].close \in BOOLEAN
      /\ UNCHANGED <<verdict, folds, outcome>>
  BY DEF TypeOK, Stage, store, Job, Handoff
<1>2. /\ job'[c].next = job[c].next + 1 /\ job'[c].cand = job[c].cand
      /\ job'[c].close = job[c].close /\ job'[c].resumed = job[c].resumed
      /\ job'[c].picked = job[c].picked
      /\ pc'[c] = TowardStage(job[c].next + 1, job[c].close)
  BY <1>1 DEF Stage, Goto, Job
<1>3. /\ pc'[c] = "gate" => ~job[c].close /\ job[c].next \in {2, 3, 4}
      /\ pc'[c] = "science" => ~job[c].close /\ job[c].next = 5
      /\ pc'[c] = "ensure" => job[c].next = 7
      /\ pc'[c] = "stage" => job[c].close \/ job[c].next \in {1, 6}
      /\ pc'[c] \in {"gate", "science", "ensure", "stage"}
  BY <1>1, <1>2 DEF TowardStage, FoldControls, Features, Lineage, Science, Handoff
<1>4. Passing(c) /\ Closing(c)
  BY DEF Scripted
<1>5. Passing(c)'
  BY <1>1, <1>2, <1>3, <1>4 DEF Passing, Paid
<1>6. Closing(c)'
  BY <1>1, <1>2, <1>3, <1>4 DEF Closing, Paid, Won
<1>7. Trying(c)'
  BY <1>1, <1>2, <1>3, <1>4 DEF Trying, Passing, Children
<1> QED
  BY <1>1, <1>5, <1>6, <1>7 DEF Scripted, Paid, Won

\* The candidate is tried.
LEMMA NextScripted ==
  ASSUME TypeOK, NEW c \in Controllers, Scripted(c), ~live, NextCandidate(c)
  PROVE  Scripted(c)'
<1>1. /\ pc \in [Controllers -> Phases] /\ job \in [Controllers -> Job]
      /\ pc[c] = "science" /\ folds = "ready" /\ job[c].cand = 0
      /\ UNCHANGED <<verdict, folds, outcome>>
  <2>1. pc[c] = "science" /\ ~(job[c].cand + 1 > 1) /\ UNCHANGED <<verdict, folds, outcome>>
    BY DEF NextCandidate, store, files
  <2>2. job[c].cand \in {0, 1} /\ folds = "ready"
    BY <2>1 DEF Scripted, Trying
  <2> QED
    BY <2>1, <2>2 DEF TypeOK
<1>2. /\ job'[c].cand = 1
      /\ Won => job'[c].picked = "generated"
      /\ pc'[c] = IF verdict[1] \in {"none", "charged"} THEN "begin" ELSE "science"
  BY <1>1 DEF NextCandidate, Goto, Won, Job
<1>3. Trying(c)'
  BY <1>1, <1>2 DEF Trying, Won, Children
<1> QED
  BY <1>1, <1>2, <1>3 DEF Scripted, Passing, Closing, Paid, Won

LEMMA PromoteScripted ==
  ASSUME TypeOK, Evidence, NEW c \in Controllers, Scripted(c), outcome = None, Promote(c)
  PROVE  Scripted(c)'
<1>1. /\ pc \in [Controllers -> Phases] /\ job \in [Controllers -> Job]
      /\ verdict \in [Candidates -> Verdicts] /\ 1 \in Candidates
      /\ ~job[c].final /\ folds = "ready" /\ job[c].cand = 1
  BY TheOne DEF TypeOK, Promote, Scripted, Trying, Evidence, Backed, Children
<1>2. /\ verdict' = [verdict EXCEPT ![1] = "charged"] /\ pc'[c] = "begin"
      /\ UNCHANGED <<job, folds, outcome>>
  BY <1>1 DEF Promote, Goto, files
<1>3. Trying(c)'
  BY <1>1, <1>2 DEF Trying, Children
<1> QED
  BY <1>1, <1>2, <1>3, NoneAssumption DEF Scripted, Passing, Closing, Paid, Won, Selections

LEMMA VerdictScripted ==
  ASSUME TypeOK, Evidence, NEW c \in Controllers, Scripted(c), outcome = None, Verdict(c)
  PROVE  Scripted(c)'
<1>1. /\ pc \in [Controllers -> Phases] /\ job \in [Controllers -> Job]
      /\ verdict \in [Candidates -> Verdicts] /\ 1 \in Candidates
      /\ folds = "ready" /\ job[c].cand = 1
  BY TheOne DEF TypeOK, Verdict, Scripted, Trying, Evidence, Backed, Children
<1>2. /\ \A x \in Candidates : x # 1 => verdict'[x] = verdict[x]
      /\ UNCHANGED <<folds, outcome>> /\ pc'[c] = "science"
      /\ job'[c].cand = 1
      /\ verdict'[1] = "won" => job'[c].picked = "generated"
  BY <1>1 DEF Verdict, Goto, files, Job
<1>3. Trying(c)'
  BY <1>1, <1>2 DEF Trying, Won, Children
<1> QED
  BY <1>1, <1>2, <1>3, NoneAssumption DEF Scripted, Passing, Closing, Paid, Won, Selections

\* The winner is in hand when the scientific campaign stops ...
LEMMA EndScripted ==
  ASSUME TypeOK, NEW c \in Controllers, Scripted(c), EndScience(c)
  PROVE  Scripted(c)'
<1>1. /\ pc \in [Controllers -> Phases] /\ job \in [Controllers -> Job]
      /\ Won => job[c].picked = "generated"
      /\ UNCHANGED <<verdict, folds, outcome>>
  BY DEF TypeOK, EndScience, Scripted, Trying, store, files
<1>2. /\ job'[c].next = 6 /\ job'[c].cand = 0 /\ ~job'[c].close
      /\ job'[c].picked = job[c].picked /\ pc'[c] = "stage"
  BY <1>1 DEF EndScience, Goto, NoJob, Science
<1> QED
  BY <1>1, <1>2 DEF Scripted, Passing, Closing, Trying, Children, Paid, Won

\* ... and is handed over.
LEMMA HandoffScripted ==
  ASSUME TypeOK, NEW c \in Controllers, Scripted(c), EnsureRequired(c) \/ CommitOutcome(c)
  PROVE  Scripted(c)'
<1>1. /\ pc \in [Controllers -> Phases] /\ job \in [Controllers -> Job]
      /\ UNCHANGED <<verdict, folds>>
  BY DEF TypeOK, EnsureRequired, CommitOutcome, store
<1>2. CASE EnsureRequired(c)
  <2>1. /\ UNCHANGED outcome /\ pc[c] = "ensure" /\ pc'[c] \in {"commit", "down"}
        /\ pc'[c] = "commit" => job'[c] = job[c]
    BY <1>1, <1>2 DEF EnsureRequired, Goto, Exit, files
  <2>2. CASE pc'[c] = "down"
    BY <1>1, <2>1, <2>2, ElsewhereStep DEF Researching, Children
  <2>3. CASE pc'[c] = "commit"
    BY <1>1, <2>1, <2>3 DEF Scripted, Passing, Closing, Trying, Children, Paid, Won
  <2> QED
    BY <2>1, <2>2, <2>3
<1>3. CASE CommitOutcome(c)
  <2>1. pc[c] = "commit" /\ pc'[c] = "resume" /\ outcome' \in {job[c].picked, outcome}
    BY <1>1, <1>3 DEF CommitOutcome, Goto
  <2>2. job[c].picked = "fallback" => ~Won
    BY <2>1 DEF Scripted, Closing, Paid, Won, TypeOK, Job
  <2>3. outcome' = "fallback" => ~Won
    BY <2>1, <2>2 DEF Scripted
  <2> QED
    BY <1>1, <2>1, <2>3 DEF Scripted, Passing, Closing, Trying, Children, Paid, Won
<1> QED
  BY <1>2, <1>3

\* A child of the candidate leaves the verdict to its command.
LEMMA EndedScripted ==
  ASSUME TypeOK, NEW c \in Controllers, Scripted(c), pc[c] \in Children,
         UNCHANGED <<verdict, folds, outcome>>, ChildFailed(c) \/ ChildSucceeded(c)
  PROVE  Scripted(c)'
<1>1. pc \in [Controllers -> Phases] /\ job \in [Controllers -> Job]
  BY DEF TypeOK
<1>2. /\ pc'[c] \in {"verdict", "failed", "publish", "observe"} /\ ~job'[c].final
  BY ChildHand
<1>3. pc'[c] = "verdict" => ~job[c].final /\ job'[c].cand = job[c].cand
  BY <1>1 DEF ChildFailed, ChildSucceeded, Goto, Job
<1> QED
  BY <1>2, <1>3 DEF Scripted, Passing, Closing, Trying, Children, Paid, Won

LEMMA ChildScripted ==
  ASSUME TypeOK, NEW c \in Controllers, Scripted(c), StartChild(c) \/ CommitChild(c) \/ EndChild(c)
  PROVE  Scripted(c)'
<1>1. /\ pc \in [Controllers -> Phases] /\ job \in [Controllers -> Job]
      /\ pc[c] \in Children /\ UNCHANGED <<verdict, folds, outcome>>
  BY DEF TypeOK, StartChild, CommitChild, EndChild, Children, files
<1>2. CASE UNCHANGED job /\ pc'[c] \in Children
  BY <1>1, <1>2 DEF Scripted, Passing, Closing, Trying, Children, Paid, Won
<1>3. CASE ChildFailed(c) \/ ChildSucceeded(c)
  BY <1>1, <1>3, EndedScripted
<1> QED
  BY <1>1, <1>2, <1>3 DEF StartChild, CommitChild, EndChild, Goto, Children

\* A command that cannot read a file leaves research or gives its child up.
LEMMA RefusedScripted ==
  ASSUME TypeOK, Evidence, NEW c \in Controllers, Scripted(c), Refused(c)
  PROVE  Scripted(c)'
<1>1. pc \in [Controllers -> Phases] /\ UNCHANGED <<verdict, folds, outcome>>
  BY DEF TypeOK, Refused, store, files
<1>2. CASE pc[c] = "begin" /\ ChildFailed(c)
  BY <1>1, <1>2, EndedScripted DEF Children
<1>3. CASE Exit(c) \/ Fail(c)
  <2>1. pc'[c] \in {"down", "failed"}
    BY <1>1, <1>3 DEF Exit, Fail, Goto
  <2> QED
    BY <1>1, <2>1, ElsewhereStep DEF Researching, Children
<1> QED
  BY <1>2, <1>3 DEF Refused

\* Every step of the one command of a scripted campaign.
LEMMA ScriptedStep ==
  ASSUME NEW c, Controllers = {c}, TypeOK, Evidence, After(c), [Next]_vars,
         ~live => Scripted(c)
  PROVE  ~live' => Scripted(c)'
<1> SUFFICES ASSUME ~live, Scripted(c)
             PROVE  Scripted(c)'
  <2>1. live' = live
    <3>1. CASE Tick \/ UNCHANGED vars \/ Command(c) \/ Crash(c)
      BY <3>1 DEF Tick, vars, Command, Crash, Keep
    <3>2. CASE Step(c)
      BY <3>2 DEF Step, Drive, ResumeRead, Dispose, SetPhase, Resumed, Stage, FoldGate, FeatureGate,
        LineageGate, NextCandidate, Promote, Verdict, EndScience, EnsureRequired, CommitOutcome,
        RefuseOutcome, StartChild, CommitChild, EndChild, Load, Phase, Prepare, Publish, Observe,
        Incumbent, Complete, CreateReceipt, FillReceipt, Failed, Refused, Keep
    <3> QED
      BY <3>1, <3>2 DEF Next
  <2> QED
    BY <2>1
<1>0. c \in Controllers
  OBVIOUS
<1>1. CASE Tick \/ UNCHANGED vars
  BY <1>1 DEF Tick, vars, store, files, Scripted, Passing, Closing, Trying, Paid, Won
<1>2. CASE ElsewhereAction(c)
  BY <1>0, <1>2, ElsewhereActions, ElsewhereStep
<1>3. CASE Resumed(c) \/ Stage(c) \/ FoldGate(c) \/ FeatureGate(c) \/ LineageGate(c)
  BY <1>0, <1>3, ResumedScripted, StageScripted, FoldGateScripted, LaterGateScripted
<1>4. CASE NextCandidate(c) \/ EndScience(c) \/ EnsureRequired(c) \/ CommitOutcome(c)
  BY <1>0, <1>4, NextScripted, EndScripted, HandoffScripted
<1>5. CASE StartChild(c) \/ CommitChild(c) \/ EndChild(c)
  BY <1>0, <1>5, ChildScripted
<1>6. CASE Promote(c) \/ Verdict(c)
  <2>1. outcome = None
    BY <1>6 DEF After, HandedOff, Researching, TypeOK, Promote, Verdict
  <2> QED
    BY <1>0, <1>6, <2>1, PromoteScripted, VerdictScripted
<1>7. CASE Refused(c)
  BY <1>0, <1>7, RefusedScripted
<1> QED
  BY <1>0, <1>1, <1>2, <1>3, <1>4, <1>5, <1>6, <1>7 DEF Next, Step, ElsewhereAction

LEMMA InitScripted == ASSUME NEW c, Controllers = {c}, Init
                      PROVE  Scripted(c)
<1>1. /\ pc[c] = "down" /\ outcome = None /\ \A x \in Candidates : verdict[x] = "none"
      /\ 1 \in Candidates
  BY LimitsAssumption DEF Init, Candidates
<1> QED
  BY <1>1, NoneAssumption DEF Scripted, Passing, Closing, Trying, Children, Paid, Won, Selections

\* A scripted campaign that one command at a time works on hands over the winner of its public
\* promotion, whatever died on the way and however late the resume came
\* (_outer_resume_authorization).
THEOREM WinnerIsHandedOff ==
  ASSUME NEW c, Controllers = {c}
  PROVE  Spec => []WinnerHandedOff
<1>1. Init => (~live => Scripted(c))
  BY InitScripted
<1>2. TypeOK /\ Evidence /\ After(c) /\ (~live => Scripted(c)) /\ [Next]_vars
        => (~live => Scripted(c))'
  BY ScriptedStep
<1>3. TypeOK /\ (~live => Scripted(c)) => WinnerHandedOff
  BY TheOne DEF Scripted, WinnerHandedOff
<1>4. Init => After(c)
  BY InitAfter
<1>5. TypeOK /\ After(c) /\ [Next]_vars => After(c)'
  BY AfterStep
<1> QED
  BY <1>1, <1>2, <1>3, <1>4, <1>5, InitEvidence, EvidenceStep, TypeCorrect, CustodyHolds, PTL DEF Spec
=============================================================================
