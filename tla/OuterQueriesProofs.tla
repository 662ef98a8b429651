------------------------- MODULE OuterQueriesProofs -------------------------
(***************************************************************************)
(* Theorems of OuterQueries for any number of controllers, campaigns,      *)
(* configurations, candidates and seeds.                                   *)
(***************************************************************************)
EXTENDS OuterQueries, FiniteSetTheorems, TLAPS

USE ConfigOfAssumption, CampaignOfAssumption, LimitAssumption, NoneAssumption

\* The identity of a promotion in progress names rows of the tables.
LEMMA Identity ==
  ASSUME TypeOK, NEW p \in Controllers, pc[p] # "idle"
  PROVE  /\ Cand(p) \in Candidates /\ Camp(p) \in Campaigns /\ Query(p) \in Queries
         /\ Query(p)[2] = Cand(p)
BY DEF TypeOK, ControlOK, Cand, Camp, Query, QueryOf, Queries

LEMMA InitType == Init => TypeOK
BY DEF Init, TypeOK, StoresOK, ControlOK, OuterRecord, LocalRecord, QueryStates, Job, NoJob,
       Phases, ReservePhases, FailurePhases, MetricPhases, CompletePhases

\* A promotion that ends leaves a well-typed controller behind.
LEMMA LeaveType ==
  ASSUME TypeOK, NEW p \in Controllers, Leave(p)
  PROVE  ControlOK'
<1>1. NoJob \in Job
  BY DEF NoJob, Job
<1>. QED
  BY <1>1 DEF TypeOK, ControlOK, Leave, Phases, MetricPhases

LEMMA AbortType ==
  ASSUME TypeOK, NEW p \in Controllers, Abort(p)
  PROVE  TypeOK'
BY LeaveType DEF TypeOK, StoresOK, Abort, stores

\* A step that only moves a controller to another phase keeps the types, provided that
\* the phase's demands on the job are already met.
LEMMA GotoType ==
  ASSUME TypeOK, NEW p \in Controllers, NEW next \in Phases, Goto(p, next), UNCHANGED job,
         pc[p] # "idle",
         next \notin {"idle", "score"} \cup ReservePhases => job[p].result \in Results,
         next \in MetricPhases => job[p].seed \in Seeds
  PROVE  ControlOK'
BY DEF TypeOK, ControlOK, Goto

\* A step that moves a controller and changes its job keeps the types.
LEMMA JobType ==
  ASSUME TypeOK, NEW p \in Controllers, NEW next \in Phases, Goto(p, next),
         job' = [job EXCEPT ![p] = job'[p]], job'[p] \in Job,
         next # "idle" => job'[p].cand \in Candidates,
         next \notin {"idle", "score"} \cup ReservePhases => job'[p].result \in Results,
         next \in MetricPhases => job'[p].seed \in Seeds
  PROVE  ControlOK'
BY DEF TypeOK, ControlOK, Goto

-----------------------------------------------------------------------------

LEMMA StepType ==
  ASSUME TypeOK, NEW p \in Controllers, Reserve(p) \/ Score(p) \/ Complete(p) \/ Crash(p)
  PROVE  TypeOK'
<1>. USE DEF Phases, ReservePhases, FailurePhases, MetricPhases, CompletePhases
<1>j. job[p] \in Job
  BY DEF TypeOK, ControlOK
<1>s. UNCHANGED stores => StoresOK'
  BY DEF TypeOK, StoresOK, stores
<1>1. ASSUME NEW k \in Candidates, Snapshot(p, k) PROVE TypeOK'
  <2>. DEFINE b == k \in ChargedCandidates
              j == [NoJob EXCEPT !.cand = k, !.snapRev = outerRev, !.known = b]
  <2>1. b \in BOOLEAN
    OBVIOUS
  <2>2. job' = [job EXCEPT ![p] = j] /\ Goto(p, "project")
    BY <1>1 DEF Snapshot
  <2>3. j \in Job /\ j.cand = k
    <3>. HIDE DEF b
    <3>. QED
      BY <2>1 DEF NoJob, Job, TypeOK, StoresOK
  <2>j. job'[p] = j /\ job' = [job EXCEPT ![p] = job'[p]]
    BY <2>2 DEF TypeOK, ControlOK
  <2>. HIDE DEF j
  <2>4. ControlOK'
    BY <2>2, <2>3, <2>j, JobType
  <2>. QED
    BY <1>1, <1>s, <2>4 DEF Snapshot, TypeOK
<1>2. CASE ReadProject(p)
  <2>. DEFINE s == IF Reserved(Query(p)) THEN outer[Query(p)].slot ELSE Cand(p) \notin ChargedCandidates
              j == [job[p] EXCEPT !.slot = s]
  <2>1. s \in BOOLEAN
    BY <1>2, Identity DEF ReadProject, TypeOK, StoresOK, OuterRecord
  <2>2. job' = [job EXCEPT ![p] = j] /\ Goto(p, "reserve_rev")
    BY <1>2 DEF ReadProject
  <2>. HIDE DEF s
  <2>3. j \in Job /\ j.cand \in Candidates
    BY <1>2, <1>j, <2>1, Identity DEF Job, ReadProject, Cand
  <2>j. job'[p] = j /\ job' = [job EXCEPT ![p] = job'[p]]
    BY <2>2 DEF TypeOK, ControlOK
  <2>. HIDE DEF j
  <2>4. ControlOK'
    BY <2>2, <2>3, <2>j, JobType
  <2>. QED
    BY <1>2, <1>s, <2>4 DEF ReadProject, TypeOK
<1>3. ASSUME NEW from \in Phases, NEW next \in Phases, ReadRevision(p, from, next),
             from \notin {"idle", "score"}, next # "idle",
             next \in ReservePhases \/ from \notin ReservePhases,
             next \in MetricPhases => from \in MetricPhases
      PROVE  TypeOK'
  <2>. DEFINE j == [job[p] EXCEPT !.expected = rev[Camp(p)]]
  <2>1. job' = [job EXCEPT ![p] = j] /\ Goto(p, next)
    BY <1>3 DEF ReadRevision
  <2>2. /\ j \in Job /\ j.cand \in Candidates
        /\ j.result = job[p].result /\ j.seed = job[p].seed
    BY <1>3, <1>j, Identity DEF Job, ReadRevision, Cand, TypeOK, StoresOK
  <2>j. job'[p] = j /\ job' = [job EXCEPT ![p] = job'[p]]
    BY <2>1 DEF TypeOK, ControlOK
  <2>. HIDE DEF j
  <2>3. ControlOK'
    BY <1>3, <2>1, <2>2, <2>j, JobType DEF TypeOK, ControlOK, ReadRevision
  <2>. QED
    BY <1>3, <1>s, <2>3 DEF ReadRevision, TypeOK
<1>4. CASE ReserveLocal(p)
  BY <1>4, <1>s, AbortType, GotoType DEF ReserveLocal, TypeOK, stores
<1>5. CASE ReserveOuter(p)
  <2>1. Query(p) \in Queries /\ Camp(p) \in Campaigns
    BY <1>5, Identity DEF ReserveOuter
  <2>2. CASE Abort(p)
    BY <2>2, AbortType
  <2>3. CASE ~Abort(p)
    <3>1. ControlOK'
      BY <1>5, <2>3, GotoType DEF ReserveOuter
    <3>2. StoresOK'
      <4>1. job[p].slot \in BOOLEAN /\ outerRev + 1 \in Nat
        BY <1>j DEF Job, TypeOK, StoresOK
      <4>2. [state |-> "RESERVED", campaign |-> Camp(p), slot |-> job[p].slot,
             at |-> outerRev + 1, result |-> None] \in OuterRecord
        BY <2>1, <4>1 DEF OuterRecord, QueryStates
      <4>3. CASE UNCHANGED stores
        BY <1>s, <4>3
      <4>4. CASE ~UNCHANGED stores
        <5>. DEFINE r == [state |-> "RESERVED", campaign |-> Camp(p), slot |-> job[p].slot,
                          at |-> outerRev + 1, result |-> None]
        <5>1. /\ outer' = [outer EXCEPT ![Query(p)] = r]
              /\ outerRev' = outerRev + 1
              /\ UNCHANGED <<rev, local, metrics, failures>>
          BY <1>5, <2>3, <4>4 DEF ReserveOuter
        <5>2. r \in OuterRecord
          BY <4>2
        <5>. HIDE DEF r
        <5>. QED
          BY <2>1, <4>1, <5>1, <5>2 DEF TypeOK, StoresOK
      <4>. QED
        BY <4>3, <4>4
    <3>. QED
      BY <3>1, <3>2 DEF TypeOK
  <2>. QED
    BY <2>2, <2>3
<1>6. CASE ReserveCommit(p)
  <2>1. Cand(p) \in Candidates /\ Camp(p) \in Campaigns
    BY <1>6, Identity DEF ReserveCommit
  <2>2. CASE Abort(p)
    BY <2>2, AbortType
  <2>3. CASE ~Abort(p)
    <3>1. ControlOK'
      BY <1>6, <2>3, GotoType DEF ReserveCommit
    <3>2. [state |-> "RESERVED", result |-> None] \in LocalRecord
      BY DEF LocalRecord, QueryStates
    <3>3. CASE UNCHANGED stores
      BY <1>s, <3>1, <3>3 DEF TypeOK
    <3>4. CASE ~UNCHANGED stores
      <4>. DEFINE c == Camp(p)
                  k == Cand(p)
                  r == [state |-> "RESERVED", result |-> None]
      <4>1. /\ local' = [local EXCEPT ![c][k] = r]
            /\ rev' = [rev EXCEPT ![c] = @ + 1]
            /\ UNCHANGED <<outer, outerRev, metrics, failures>>
        BY <1>6, <2>3, <3>4 DEF ReserveCommit
      <4>. HIDE DEF c, k, r
      <4>2. c \in Campaigns /\ k \in Candidates /\ r \in LocalRecord
        BY <2>1, <3>2 DEF c, k, r
      <4>3. StoresOK'
        BY <4>1, <4>2 DEF TypeOK, StoresOK
      <4>. QED
        BY <3>1, <4>3 DEF TypeOK
    <3>. QED
      BY <3>3, <3>4
  <2>. QED
    BY <2>2, <2>3
<1>7. CASE Confirm(p)
  <2>1. CASE Abort(p)
    BY <2>1, AbortType
  <2>2. CASE ~Abort(p)
    <3>. DEFINE j == [job[p] EXCEPT !.at = outer[Query(p)].at]
    <3>1. job' = [job EXCEPT ![p] = j] /\ Goto(p, "score") /\ UNCHANGED stores
      BY <1>7, <2>2 DEF Confirm
    <3>2. j \in Job /\ j.cand \in Candidates
      BY <1>7, <1>j, Identity DEF Job, Confirm, Cand, TypeOK, StoresOK, OuterRecord
    <3>j. job'[p] = j /\ job' = [job EXCEPT ![p] = job'[p]]
      BY <3>1 DEF TypeOK, ControlOK
    <3>. HIDE DEF j
    <3>. QED
      BY <1>s, <3>1, <3>2, <3>j, JobType DEF TypeOK
  <2>. QED
    BY <2>1, <2>2
<1>8. CASE Score(p)
  <2>1. PICK ok \in BOOLEAN, r \in Results :
          job' = [job EXCEPT ![p].ok = ok, ![p].result = r]
    BY <1>8 DEF Score
  <2>. DEFINE j == [job[p] EXCEPT !.ok = ok, !.result = r]
  <2>2. j \in Job /\ j.cand \in Candidates /\ j.result \in Results
    BY <1>8, <1>j, Identity DEF Job, Score, Cand
  <2>j. job'[p] = j /\ job' = [job EXCEPT ![p] = job'[p]]
    BY <2>1 DEF TypeOK, ControlOK
  <2>. HIDE DEF j
  <2>. QED
    BY <1>8, <1>s, <2>2, <2>j, JobType DEF Score, TypeOK
<1>9. CASE ReadRecord(p)
  <2>1. CASE Abort(p)
    BY <2>1, AbortType
  <2>2. CASE ~Abort(p)
    <3>. DEFINE j == [job[p] EXCEPT !.done = (outer[Query(p)].state = "COMPLETED")]
    <3>1. job' = [job EXCEPT ![p] = j] /\ Goto(p, "prior") /\ UNCHANGED stores
      BY <1>9, <2>2 DEF ReadRecord
    <3>2. j \in Job /\ j.cand \in Candidates /\ j.result \in Results
      BY <1>9, <1>j, Identity DEF Job, ReadRecord, Cand, TypeOK, ControlOK
    <3>j. job'[p] = j /\ job' = [job EXCEPT ![p] = job'[p]]
      BY <3>1 DEF TypeOK, ControlOK
    <3>. HIDE DEF j
    <3>. QED
      BY <1>s, <3>1, <3>2, <3>j, JobType DEF TypeOK
  <2>. QED
    BY <2>1, <2>2
<1>10. CASE ReadPrior(p)
  <2>1. CASE Abort(p)
    BY <2>1, AbortType
  <2>2. CASE ~Abort(p) /\ ~job[p].ok
    <3>1. pc[p] = "prior" /\ Goto(p, "failure") /\ UNCHANGED <<stores, job>>
      BY <1>10, <2>2 DEF ReadPrior
    <3>. QED
      BY <1>s, <3>1, GotoType DEF TypeOK, ControlOK
  <2>3. CASE ~Abort(p) /\ job[p].ok
    <3>. DEFINE j == [job[p] EXCEPT !.seed = RepresentativeSeed + 1]
    <3>1. /\ job' = [job EXCEPT ![p] = j] /\ UNCHANGED stores
          /\ Goto(p, AfterSeed(RepresentativeSeed))
      BY <1>10, <2>3 DEF ReadPrior
    <3>2. /\ j \in Job /\ j.cand \in Candidates /\ j.result \in Results
          /\ AfterSeed(RepresentativeSeed) = "metric" => j.seed \in Seeds
      BY <1>10, <1>j, Identity DEF Job, ReadPrior, Cand, TypeOK, ControlOK, AfterSeed,
                                   RepresentativeSeed, Seeds
    <3>j. job'[p] = j /\ job' = [job EXCEPT ![p] = job'[p]]
      BY <3>1 DEF TypeOK, ControlOK
    <3>. HIDE DEF j
    <3>. QED
      BY <1>s, <3>1, <3>2, <3>j, JobType DEF TypeOK, AfterSeed
  <2>. QED
    BY <2>1, <2>2, <2>3
<1>11. CASE ReadFailure(p)
  BY <1>11, <1>s, AbortType, GotoType DEF ReadFailure, TypeOK, ControlOK
<1>12. CASE WriteFailure(p)
  <2>1. CASE Abort(p)
    BY <2>1, AbortType
  <2>2. CASE ~Abort(p)
    <3>. DEFINE c == Camp(p)
                k == Cand(p)
                r == job[p].result
    <3>1. /\ failures' = [failures EXCEPT ![c][k] = r]
          /\ rev' = [rev EXCEPT ![c] = @ + 1]
          /\ Leave(p)
          /\ UNCHANGED <<outer, outerRev, local, metrics>>
      BY <1>12, <2>2 DEF WriteFailure
    <3>. HIDE DEF c, k, r
    <3>2. c \in Campaigns /\ k \in Candidates /\ r \in Results
      BY <1>12, Identity DEF c, k, r, WriteFailure, TypeOK, ControlOK
    <3>3. StoresOK'
      BY <3>1, <3>2 DEF TypeOK, StoresOK
    <3>. QED
      BY <3>1, <3>3, LeaveType DEF TypeOK
  <2>. QED
    BY <2>1, <2>2
\* Passing a seed: the next one, if the metrics are not complete, is a matched seed.
<1>m. ASSUME pc[p] \in MetricPhases, job' = [job EXCEPT ![p].seed = @ + 1],
             Goto(p, AfterSeed(job[p].seed))
      PROVE  ControlOK'
  <2>. DEFINE j == [job[p] EXCEPT !.seed = @ + 1]
  <2>1. /\ j \in Job /\ j.cand \in Candidates /\ j.result \in Results
        /\ AfterSeed(job[p].seed) = "metric" => j.seed \in Seeds
    BY <1>m, <1>j, Identity DEF Job, Cand, TypeOK, ControlOK, AfterSeed, Seeds
  <2>j. job'[p] = j /\ job' = [job EXCEPT ![p] = job'[p]]
    BY <1>m DEF TypeOK, ControlOK
  <2>. HIDE DEF j
  <2>. QED
    BY <1>m, <2>1, <2>j, JobType DEF AfterSeed
<1>13. CASE ReadMetric(p)
  <2>1. CASE Abort(p)
    BY <2>1, AbortType
  <2>2. CASE Goto(p, "metric_rev") /\ UNCHANGED <<stores, job>>
    BY <1>13, <1>s, <2>2, GotoType DEF ReadMetric, TypeOK, ControlOK
  <2>3. CASE ~Abort(p) /\ ~(Goto(p, "metric_rev") /\ UNCHANGED <<stores, job>>)
    BY <1>13, <1>s, <1>m, <2>3 DEF ReadMetric, TypeOK
  <2>. QED
    BY <2>1, <2>2, <2>3
<1>14. CASE WriteMetric(p)
  <2>1. CASE Abort(p)
    BY <2>1, AbortType
  <2>2. CASE ~Abort(p)
    <3>. DEFINE c == Camp(p)
                k == Cand(p)
                s == job[p].seed
                r == job[p].result
    <3>1. /\ metrics' = [metrics EXCEPT ![c][k][s] = r]
          /\ rev' = [rev EXCEPT ![c] = @ + 1]
          /\ job' = [job EXCEPT ![p].seed = @ + 1]
          /\ Goto(p, AfterSeed(job[p].seed))
          /\ UNCHANGED <<outer, outerRev, local, failures>>
      BY <1>14, <2>2 DEF WriteMetric
    <3>2. ControlOK'
      BY <1>14, <1>m, <3>1 DEF WriteMetric
    <3>. HIDE DEF c, k, s, r
    <3>3. c \in Campaigns /\ k \in Candidates /\ s \in Seeds /\ r \in Results
      BY <1>14, Identity DEF c, k, s, r, WriteMetric, TypeOK, ControlOK
    <3>4. StoresOK'
      BY <3>1, <3>3 DEF TypeOK, StoresOK
    <3>. QED
      BY <3>2, <3>4 DEF TypeOK
  <2>. QED
    BY <2>1, <2>2
<1>15. CASE CompleteRead(p)
  <2>1. CASE Abort(p)
    BY <2>1, AbortType
  <2>2. CASE ~Abort(p)
    <3>. DEFINE d == local[Camp(p)][Cand(p)].state = "COMPLETED"
                j == [job[p] EXCEPT !.done = d]
    <3>1. job' = [job EXCEPT ![p] = j] /\ Goto(p, "complete_outer") /\ UNCHANGED stores
      BY <1>15, <2>2 DEF CompleteRead
    <3>2. d \in BOOLEAN
      OBVIOUS
    <3>. HIDE DEF d
    <3>3. j \in Job /\ j.cand \in Candidates /\ j.result \in Results
      BY <1>15, <1>j, <3>2, Identity DEF Job, CompleteRead, Cand, TypeOK, ControlOK
    <3>j. job'[p] = j /\ job' = [job EXCEPT ![p] = job'[p]]
      BY <3>1 DEF TypeOK, ControlOK
    <3>. HIDE DEF j
    <3>. QED
      BY <1>s, <3>1, <3>3, <3>j, JobType DEF TypeOK
  <2>. QED
    BY <2>1, <2>2
<1>16. CASE CompleteOuter(p)
  <2>1. CASE Abort(p)
    BY <2>1, AbortType
  <2>2. CASE ~Abort(p)
    <3>1. ControlOK'
      BY <1>16, <2>2, GotoType, LeaveType DEF CompleteOuter, TypeOK, ControlOK
    <3>2. CASE UNCHANGED stores
      BY <1>s, <3>1, <3>2 DEF TypeOK
    <3>3. CASE ~UNCHANGED stores
      <4>. DEFINE q == Query(p)
                  r == job[p].result
      <4>1. /\ outer' = [outer EXCEPT ![q].state = "COMPLETED", ![q].result = r]
            /\ outerRev' = outerRev + 1
            /\ UNCHANGED <<rev, local, metrics, failures>>
        BY <1>16, <2>2, <3>3 DEF CompleteOuter
      <4>. HIDE DEF q, r
      <4>2. q \in Queries /\ r \in Results
        BY <1>16, Identity DEF q, r, CompleteOuter, TypeOK, ControlOK
      <4>. DEFINE o == [outer[q] EXCEPT !.state = "COMPLETED", !.result = r]
      <4>4. outer[q] \in OuterRecord
        BY <4>2 DEF TypeOK, StoresOK
      <4>5. o \in OuterRecord
        BY <4>2, <4>4 DEF OuterRecord, QueryStates
      <4>6. outer' = [outer EXCEPT ![q] = o]
        BY <4>1
      <4>. HIDE DEF o
      <4>3. StoresOK'
        <5>1. outer' \in [Queries -> OuterRecord]
          BY <4>2, <4>5, <4>6 DEF TypeOK, StoresOK
        <5>. QED
          BY <4>1, <5>1 DEF TypeOK, StoresOK
      <4>. QED
        BY <3>1, <4>3 DEF TypeOK
    <3>. QED
      BY <3>2, <3>3
  <2>. QED
    BY <2>1, <2>2
<1>17. CASE CompleteWrite(p)
  <2>1. CASE Abort(p)
    BY <2>1, AbortType
  <2>2. CASE ~Abort(p)
    <3>. DEFINE c == Camp(p)
                k == Cand(p)
                r == job[p].result
    <3>1. /\ local' = [local EXCEPT ![c][k] = [state |-> "COMPLETED", result |-> r]]
          /\ metrics' = [metrics EXCEPT ![c][k][RepresentativeSeed] = r]
          /\ rev' = [rev EXCEPT ![c] = @ + 1]
          /\ Leave(p)
          /\ UNCHANGED <<outer, outerRev, failures>>
      BY <1>17, <2>2 DEF CompleteWrite
    <3>. HIDE DEF c, k, r
    <3>2. c \in Campaigns /\ k \in Candidates /\ r \in Results
      BY <1>17, Identity DEF c, k, r, CompleteWrite, TypeOK, ControlOK
    <3>3. RepresentativeSeed \in Seeds
      BY DEF RepresentativeSeed, Seeds
    <3>4. StoresOK'
      BY <3>1, <3>2, <3>3 DEF TypeOK, StoresOK, LocalRecord, QueryStates
    <3>. QED
      BY <3>1, <3>4, LeaveType DEF TypeOK
  <2>. QED
    BY <2>1, <2>2
<1>18. CASE Crash(p)
  BY <1>18, AbortType DEF Crash
<1>19. CASE ReserveRevision(p)
  BY <1>19, <1>3 DEF ReserveRevision
<1>20. CASE FailureRevision(p)
  BY <1>20, <1>3 DEF FailureRevision
<1>21. CASE MetricRevision(p)
  BY <1>21, <1>3 DEF MetricRevision
<1>22. CASE CompleteRevision(p)
  BY <1>22, <1>3 DEF CompleteRevision
<1>. QED
  BY <1>1, <1>2, <1>4, <1>5, <1>6, <1>7, <1>8, <1>9, <1>10, <1>11, <1>12, <1>13, <1>14,
     <1>15, <1>16, <1>17, <1>18, <1>19, <1>20, <1>21, <1>22 DEF Reserve, Complete

\* Whatever the number of controllers and wherever they die, the tables and the local
\* variables of every promotion stay well typed.
THEOREM TypeCorrect == Spec => []TypeOK
<1>1. TypeOK /\ [Next]_vars => TypeOK'
  BY StepType DEF Next, vars, TypeOK, StoresOK, ControlOK
<1>. QED
  BY InitType, <1>1, PTL DEF Spec

-----------------------------------------------------------------------------
(* A step of one controller leaves the phase and the job of the others.    *)

Step(p) == Reserve(p) \/ Score(p) \/ Complete(p) \/ Crash(p)

LEMMA OthersKeep ==
  ASSUME TypeOK, NEW p \in Controllers, Step(p), NEW q \in Controllers, q # p
  PROVE  pc'[q] = pc[q] /\ job'[q] = job[q]
<1>1. ASSUME NEW k \in Candidates, Snapshot(p, k) PROVE pc'[q] = pc[q] /\ job'[q] = job[q]
  BY <1>1 DEF Snapshot, Goto, TypeOK, ControlOK
<1>2. CASE ReadProject(p) \/ ReserveRevision(p) \/ ReserveLocal(p) \/ ReserveOuter(p)
  BY <1>2 DEF ReadProject, ReserveRevision, ReserveLocal, ReserveOuter, ReadRevision,
              Abort, Leave, Goto, TypeOK, ControlOK
<1>3. CASE ReserveCommit(p) \/ Confirm(p) \/ Score(p) \/ ReadRecord(p) \/ ReadPrior(p)
  BY <1>3 DEF ReserveCommit, Confirm, Score, ReadRecord, ReadPrior,
              Abort, Leave, Goto, TypeOK, ControlOK
<1>4. CASE ReadFailure(p) \/ FailureRevision(p) \/ WriteFailure(p) \/ Crash(p)
  BY <1>4 DEF ReadFailure, FailureRevision, WriteFailure, ReadRevision, Crash,
              Abort, Leave, Goto, TypeOK, ControlOK
<1>5. CASE ReadMetric(p) \/ MetricRevision(p) \/ WriteMetric(p)
  BY <1>5 DEF ReadMetric, MetricRevision, WriteMetric, ReadRevision,
              Abort, Leave, Goto, TypeOK, ControlOK
<1>6. CASE CompleteRevision(p) \/ CompleteRead(p) \/ CompleteOuter(p) \/ CompleteWrite(p)
  BY <1>6 DEF CompleteRevision, CompleteRead, CompleteOuter, CompleteWrite, ReadRevision,
              Abort, Leave, Goto, TypeOK, ControlOK
<1>. QED
  BY <1>1, <1>2, <1>3, <1>4, <1>5, <1>6 DEF Step, Reserve, Complete

-----------------------------------------------------------------------------
(* What each write does to the tables; every other step leaves them.       *)

LEMMA Writes ==
  ASSUME NEW p \in Controllers, Step(p), ~UNCHANGED stores
  PROVE  ReserveOuter(p) \/ ReserveCommit(p) \/ WriteFailure(p) \/ WriteMetric(p)
           \/ CompleteOuter(p) \/ CompleteWrite(p)
<1>1. CASE \E k \in Candidates : Snapshot(p, k)
  BY <1>1 DEF Snapshot, stores
<1>2. CASE ReadProject(p) \/ ReserveRevision(p) \/ ReserveLocal(p) \/ Confirm(p)
             \/ Score(p) \/ ReadRecord(p) \/ ReadPrior(p) \/ ReadFailure(p)
             \/ FailureRevision(p) \/ ReadMetric(p) \/ MetricRevision(p)
             \/ CompleteRevision(p) \/ CompleteRead(p) \/ Crash(p)
  BY <1>2 DEF ReadProject, ReserveRevision, ReserveLocal, Confirm, Score, ReadRecord,
              ReadPrior, ReadFailure, FailureRevision, ReadMetric, MetricRevision,
              CompleteRevision, CompleteRead, Crash, ReadRevision, Abort, stores
<1>. QED
  BY <1>1, <1>2 DEF Step, Reserve, Complete

LEMMA ReserveOuterWrites ==
  ASSUME TypeOK, NEW p \in Controllers, ReserveOuter(p), ~UNCHANGED stores
  PROVE  /\ Query(p) \in Queries /\ Camp(p) \in Campaigns /\ MayCharge(p) /\ ~Reserved(Query(p))
         /\ Query(p)[2] = Cand(p)
         /\ \A q \in Queries \ {Query(p)} : outer'[q] = outer[q]
         /\ outer'[Query(p)].state = "RESERVED" /\ outer'[Query(p)].campaign = Camp(p)
         /\ UNCHANGED <<rev, local, metrics, failures>>
<1>. DEFINE r == [state |-> "RESERVED", campaign |-> Camp(p), slot |-> job[p].slot,
                  at |-> outerRev + 1, result |-> None]
<1>1. /\ outer' = [outer EXCEPT ![Query(p)] = r] /\ MayCharge(p) /\ ~Reserved(Query(p))
      /\ UNCHANGED <<rev, local, metrics, failures>>
  BY DEF ReserveOuter, Abort, stores
<1>2. Query(p) \in Queries /\ Camp(p) \in Campaigns /\ Query(p)[2] = Cand(p)
  BY Identity DEF ReserveOuter
<1>3. r.state = "RESERVED" /\ r.campaign = Camp(p)
  OBVIOUS
<1>. HIDE DEF r
<1>. QED
  BY <1>1, <1>2, <1>3 DEF TypeOK, StoresOK

LEMMA ReserveCommitWrites ==
  ASSUME TypeOK, NEW p \in Controllers, ReserveCommit(p), ~UNCHANGED stores
  PROVE  /\ Camp(p) \in Campaigns /\ Cand(p) \in Candidates
         /\ pc[p] = "reserve_commit" /\ local[Camp(p)][Cand(p)].state = "NONE"
         /\ local' = [local EXCEPT ![Camp(p)][Cand(p)] = [state |-> "RESERVED", result |-> None]]
         /\ UNCHANGED <<outer, outerRev, metrics, failures>>
BY Identity DEF ReserveCommit, Abort, stores

LEMMA WriteFailureWrites ==
  ASSUME TypeOK, NEW p \in Controllers, WriteFailure(p), ~UNCHANGED stores
  PROVE  /\ Camp(p) \in Campaigns /\ Cand(p) \in Candidates
         /\ pc[p] = "failure_write" /\ failures[Camp(p)][Cand(p)] = None
         /\ failures' = [failures EXCEPT ![Camp(p)][Cand(p)] = job[p].result]
         /\ Leave(p)
         /\ UNCHANGED <<outer, outerRev, local, metrics>>
BY Identity DEF WriteFailure, Abort, stores

LEMMA WriteMetricWrites ==
  ASSUME TypeOK, NEW p \in Controllers, WriteMetric(p), ~UNCHANGED stores
  PROVE  /\ Camp(p) \in Campaigns /\ Cand(p) \in Candidates /\ job[p].seed \in Seeds
         /\ pc[p] = "metric_write" /\ metrics[Camp(p)][Cand(p)][job[p].seed] = None
         /\ metrics' = [metrics EXCEPT ![Camp(p)][Cand(p)][job[p].seed] = job[p].result]
         /\ job' = [job EXCEPT ![p].seed = @ + 1]
         /\ Goto(p, AfterSeed(job[p].seed))
         /\ UNCHANGED <<outer, outerRev, local, failures>>
<1>1. pc[p] = "metric_write"
  BY DEF WriteMetric
<1>2. Camp(p) \in Campaigns /\ Cand(p) \in Candidates /\ job[p].seed \in Seeds
  BY <1>1, Identity DEF TypeOK, ControlOK, MetricPhases
<1>. QED
  BY <1>1, <1>2 DEF WriteMetric, Abort, stores

LEMMA CompleteOuterWrites ==
  ASSUME TypeOK, NEW p \in Controllers, CompleteOuter(p), ~UNCHANGED stores
  PROVE  /\ Query(p) \in Queries /\ pc[p] = "complete_outer"
         /\ outer[Query(p)].state = "RESERVED"
         /\ \A q \in Queries \ {Query(p)} : outer'[q] = outer[q]
         /\ outer'[Query(p)].state = "COMPLETED" /\ outer'[Query(p)].result = job[p].result
         /\ outer'[Query(p)].campaign = outer[Query(p)].campaign
         /\ outer'[Query(p)].at = outer[Query(p)].at
         /\ UNCHANGED <<rev, local, metrics, failures>>
<1>. DEFINE o == [outer[Query(p)] EXCEPT !.state = "COMPLETED", !.result = job[p].result]
<1>1. /\ outer' = [outer EXCEPT ![Query(p)] = o] /\ outer[Query(p)].state = "RESERVED"
      /\ UNCHANGED <<rev, local, metrics, failures>> /\ pc[p] = "complete_outer"
  BY DEF CompleteOuter, Abort, stores, Undecided
<1>2. Query(p) \in Queries
  BY <1>1, Identity
<1>3. /\ o.state = "COMPLETED" /\ o.result = job[p].result
      /\ o.campaign = outer[Query(p)].campaign /\ o.at = outer[Query(p)].at
  BY <1>2 DEF TypeOK, StoresOK, OuterRecord
<1>. HIDE DEF o
<1>. QED
  BY <1>1, <1>2, <1>3 DEF TypeOK, StoresOK

LEMMA CompleteWriteWrites ==
  ASSUME TypeOK, NEW p \in Controllers, CompleteWrite(p), ~UNCHANGED stores
  PROVE  /\ Camp(p) \in Campaigns /\ Cand(p) \in Candidates
         /\ pc[p] = "complete_write" /\ local[Camp(p)][Cand(p)].state = "RESERVED"
         /\ metrics[Camp(p)][Cand(p)][RepresentativeSeed] = None
         /\ local' = [local EXCEPT ![Camp(p)][Cand(p)] =
                        [state |-> "COMPLETED", result |-> job[p].result]]
         /\ metrics' = [metrics EXCEPT ![Camp(p)][Cand(p)][RepresentativeSeed] = job[p].result]
         /\ Leave(p)
         /\ UNCHANGED <<outer, outerRev, failures>>
BY Identity DEF CompleteWrite, Abort, stores

LEMMA StepKeepsEvidence ==
  ASSUME TypeOK, NEW p \in Controllers, Step(p)
  PROVE  KeepsEvidence
<1>1. CASE UNCHANGED stores
  BY <1>1 DEF stores, KeepsEvidence
<1>2. CASE ~UNCHANGED stores
  <2>1. CASE ReserveOuter(p)
    BY <1>2, <2>1, ReserveOuterWrites DEF KeepsEvidence, Reserved
  <2>2. CASE ReserveCommit(p)
    BY <1>2, <2>2, ReserveCommitWrites DEF KeepsEvidence
  <2>3. CASE WriteFailure(p)
    <3>1. /\ failures[Camp(p)][Cand(p)] = None
          /\ failures' = [failures EXCEPT ![Camp(p)][Cand(p)] = job[p].result]
          /\ UNCHANGED <<outer, metrics>>
      BY <1>2, <2>3, WriteFailureWrites
    <3>2. ASSUME NEW c \in Campaigns, NEW k \in Candidates, failures[c][k] # None
          PROVE  failures'[c][k] = failures[c][k]
      BY <3>1, <3>2 DEF TypeOK, StoresOK
    <3>. QED
      BY <3>1, <3>2 DEF KeepsEvidence
  <2>4. CASE WriteMetric(p)
    <3>1. /\ metrics[Camp(p)][Cand(p)][job[p].seed] = None
          /\ metrics' = [metrics EXCEPT ![Camp(p)][Cand(p)][job[p].seed] = job[p].result]
          /\ UNCHANGED <<outer, failures>>
      BY <1>2, <2>4, WriteMetricWrites
    <3>2. ASSUME NEW c \in Campaigns, NEW k \in Candidates, NEW s \in Seeds,
                 metrics[c][k][s] # None
          PROVE  metrics'[c][k][s] = metrics[c][k][s]
      BY <3>1, <3>2 DEF TypeOK, StoresOK
    <3>. QED
      BY <3>1, <3>2 DEF KeepsEvidence
  <2>5. CASE CompleteOuter(p)
    BY <1>2, <2>5, CompleteOuterWrites DEF KeepsEvidence
  <2>6. CASE CompleteWrite(p)
    <3>1. /\ metrics[Camp(p)][Cand(p)][RepresentativeSeed] = None
          /\ metrics' = [metrics EXCEPT ![Camp(p)][Cand(p)][RepresentativeSeed] = job[p].result]
          /\ UNCHANGED <<outer, failures>>
      BY <1>2, <2>6, CompleteWriteWrites
    <3>2. ASSUME NEW c \in Campaigns, NEW k \in Candidates, NEW s \in Seeds,
                 metrics[c][k][s] # None
          PROVE  metrics'[c][k][s] = metrics[c][k][s]
      BY <3>1, <3>2 DEF TypeOK, StoresOK
    <3>. QED
      BY <3>1, <3>2 DEF KeepsEvidence
  <2>. QED
    BY <1>2, <2>1, <2>2, <2>3, <2>4, <2>5, <2>6, Writes
<1>. QED
  BY <1>1, <1>2

\* Evidence is final, whoever writes: no interleaving of controllers, retries and
\* crashes rewrites a reservation's owner, a project result, a metric or a failure.
THEOREM EvidenceIsFinal == Spec => EvidenceFinal
<1>1. TypeOK /\ [Next]_vars => [KeepsEvidence]_vars
  BY StepKeepsEvidence DEF Next, Step
<1>. QED
  BY TypeCorrect, <1>1, PTL DEF Spec, EvidenceFinal
-----------------------------------------------------------------------------
(* The query budget.                                                       *)

LEMMA FiniteCharged == IsFiniteSet(Charged)
<1>1. IsFiniteSet(Queries)
  BY CandidatesAssumption, FS_Product DEF Queries
<1>. QED
  BY <1>1, FS_Subset DEF Charged

LEMMA StepCharges ==
  ASSUME TypeOK, NEW p \in Controllers, Step(p)
  PROVE  \/ Charged' = Charged
         \/ \E q \in Queries : /\ q \notin Charged /\ Charged' = Charged \cup {q}
                             /\ q[2] \notin ChargedCandidates /\ Used < MaxQueries
<1>1. CASE ReserveOuter(p) /\ ~UNCHANGED stores
  BY <1>1, ReserveOuterWrites DEF Charged, Reserved, MayCharge
<1>2. CASE CompleteOuter(p) /\ ~UNCHANGED stores
  BY <1>2, CompleteOuterWrites DEF Charged, Reserved
<1>3. CASE outer' = outer
  BY <1>3 DEF Charged, Reserved
<1>. QED
  BY <1>1, <1>2, <1>3, Writes, ReserveCommitWrites, WriteFailureWrites, WriteMetricWrites,
     CompleteWriteWrites DEF stores

LEMMA StepBudget ==
  ASSUME TypeOK, QueryBudget, NEW p \in Controllers, Step(p)
  PROVE  QueryBudget'
<1>1. CASE Charged' = Charged
  BY <1>1 DEF QueryBudget, Used
<1>2. CASE \E q \in Queries : /\ q \notin Charged /\ Charged' = Charged \cup {q}
                              /\ q[2] \notin ChargedCandidates /\ Used < MaxQueries
  <2>1. PICK q \in Queries : /\ q \notin Charged /\ Charged' = Charged \cup {q}
                             /\ q[2] \notin ChargedCandidates /\ Used < MaxQueries
    BY <1>2
  <2>2. Cardinality(Charged \cup {q}) = Cardinality(Charged) + 1
    BY <2>1, FiniteCharged, FS_AddElement
  <2>3. Cardinality(Charged) \in Nat
    BY FiniteCharged, FS_CardinalityType
  <2>4. Used' <= MaxQueries
    BY <2>1, <2>2, <2>3 DEF Used
  <2>5. ASSUME NEW a \in Charged', NEW b \in Charged', a[2] = b[2] PROVE a = b
    BY <2>1, <2>5 DEF QueryBudget, ChargedCandidates
  <2>. QED
    BY <2>4, <2>5 DEF QueryBudget
<1>. QED
  BY <1>1, <1>2, StepCharges

\* The project never spends more public queries than its limit, nor two on a candidate.
THEOREM BudgetHolds == Spec => []QueryBudget
<1>1. Init => QueryBudget
  <2>1. Init => Charged = {}
    BY DEF Init, Charged, Reserved
  <2>. QED
    BY <2>1, FS_EmptySet DEF QueryBudget, Used
<1>2. TypeOK /\ QueryBudget /\ [Next]_vars => QueryBudget'
  <2>1. UNCHANGED vars /\ QueryBudget => QueryBudget'
    BY DEF vars, QueryBudget, Used, Charged, Reserved
  <2>. QED
    BY <2>1, StepBudget DEF Next, Step
<1>. QED
  BY TypeCorrect, <1>1, <1>2, PTL DEF Spec

-----------------------------------------------------------------------------
(* The local record, the metrics and the project record agree.  What a     *)
(* controller relies on between two of its transactions has to be part of  *)
(* the inductive invariant: the reservation before the local event, the    *)
(* project verdict before the local result, the metrics already stored.    *)

HeldMetrics(p) ==
  \A s \in Seeds \ {RepresentativeSeed} :
    pc[p] \in CompletePhases \/ (pc[p] \in MetricPhases /\ s < job[p].seed)
      => metrics[Camp(p)][Cand(p)][s] = job[p].result

InFlight(p) ==
  /\ pc[p] = "reserve_commit" => Reserved(Query(p)) /\ outer[Query(p)].campaign = Camp(p)
  /\ pc[p] = "complete_write" => /\ outer[Query(p)].state = "COMPLETED"
                                 /\ outer[Query(p)].result = job[p].result
  /\ HeldMetrics(p)

CompletedHasResult ==
  \A c \in Campaigns, k \in Candidates :
    local[c][k].state = "COMPLETED" => local[c][k].result # None

Agreement ==
  /\ LocalBackedByProject
  /\ BundleCoherent
  /\ CompletedHasResult
  /\ \A p \in Controllers : InFlight(p)

LEMMA InitAgreement == Init => Agreement
BY DEF Init, Agreement, LocalBackedByProject, BundleCoherent, CompletedHasResult, InFlight,
       HeldMetrics, CompletePhases, MetricPhases

\* What the others rely on survives, because evidence is final.
LEMMA OthersInFlight ==
  ASSUME TypeOK, TypeOK', Agreement, NEW p \in Controllers, Step(p),
         NEW q \in Controllers, q # p
  PROVE  InFlight(q)'
<1>1. KeepsEvidence /\ pc'[q] = pc[q] /\ job'[q] = job[q] /\ InFlight(q)
  BY StepKeepsEvidence, OthersKeep DEF Agreement
<1>2. Cand(q)' = Cand(q) /\ Camp(q)' = Camp(q) /\ Query(q)' = Query(q)
  BY <1>1 DEF Cand, Camp, Query, QueryOf
<1>3. pc[q] # "idle" => Query(q) \in Queries /\ Camp(q) \in Campaigns /\ Cand(q) \in Candidates
  BY Identity
<1>4. pc'[q] = "reserve_commit" => Reserved(Query(q))' /\ outer'[Query(q)].campaign = Camp(q)
  BY <1>1, <1>2, <1>3 DEF InFlight, KeepsEvidence, Reserved
<1>5. pc'[q] = "complete_write" => /\ outer'[Query(q)].state = "COMPLETED"
                                   /\ outer'[Query(q)].result = job'[q].result
  BY <1>1, <1>2, <1>3 DEF InFlight, KeepsEvidence
<1>6. ASSUME NEW s \in Seeds \ {RepresentativeSeed},
             pc'[q] \in CompletePhases \/ (pc'[q] \in MetricPhases /\ s < job'[q].seed)
      PROVE  metrics'[Camp(q)][Cand(q)][s] = job'[q].result
  <2>1. job[q].result \in Results
    BY <1>1, <1>6 DEF TypeOK, ControlOK, CompletePhases, MetricPhases, ReservePhases
  <2>2. pc[q] # "idle"
    BY <1>1, <1>6 DEF CompletePhases, MetricPhases
  <2>3. metrics[Camp(q)][Cand(q)][s] = job[q].result
    BY <1>1, <1>6 DEF InFlight, HeldMetrics
  <2>. QED
    BY <1>1, <1>3, <2>1, <2>2, <2>3 DEF KeepsEvidence
<1>7. HeldMetrics(q)'
  BY <1>2, <1>6 DEF HeldMetrics
<1>. QED
  BY <1>2, <1>4, <1>5, <1>7 DEF InFlight

\* A controller outside these phases relies on nothing.
LEMMA Careless ==
  ASSUME NEW p \in Controllers,
         pc'[p] \notin {"reserve_commit"} \cup MetricPhases \cup CompletePhases
  PROVE  InFlight(p)'
BY DEF InFlight, HeldMetrics, CompletePhases

LEMMA LeaveCareless ==
  ASSUME TypeOK, NEW p \in Controllers, Leave(p)
  PROVE  InFlight(p)'
BY Careless DEF Leave, TypeOK, ControlOK, MetricPhases, CompletePhases

\* A controller that moves from one of these phases to another still holds its metrics.
LEMMA KeepsHeld ==
  ASSUME TypeOK, NEW p \in Controllers, HeldMetrics(p), KeepsEvidence,
         pc[p] \in MetricPhases \cup CompletePhases,
         pc[p] \in CompletePhases <=> pc'[p] \in CompletePhases,
         Cand(p)' = Cand(p), job'[p].result = job[p].result, job'[p].seed = job[p].seed
  PROVE  HeldMetrics(p)'
<1>1. job[p].result \in Results /\ Camp(p) \in Campaigns /\ Cand(p) \in Candidates
  BY Identity DEF TypeOK, ControlOK, CompletePhases, MetricPhases, ReservePhases
<1>2. ASSUME NEW s \in Seeds \ {RepresentativeSeed},
             pc'[p] \in CompletePhases \/ (pc'[p] \in MetricPhases /\ s < job'[p].seed)
      PROVE  metrics'[Camp(p)][Cand(p)][s] = job'[p].result
  <2>1. metrics[Camp(p)][Cand(p)][s] = job[p].result
    BY <1>2 DEF HeldMetrics
  <2>. QED
    BY <1>1, <2>1 DEF KeepsEvidence
<1>3. Camp(p)' = Camp(p)
  BY DEF Camp
<1>. QED
  BY <1>2, <1>3 DEF HeldMetrics

\* A controller that passes its seed, once the metric of that seed is stored as its own.
LEMMA PassSeed ==
  ASSUME TypeOK, NEW p \in Controllers, HeldMetrics(p), KeepsEvidence, pc[p] \in MetricPhases,
         job' = [job EXCEPT ![p].seed = @ + 1], Goto(p, AfterSeed(job[p].seed)),
         metrics'[Camp(p)][Cand(p)][job[p].seed] = job[p].result
  PROVE  InFlight(p)'
<1>1. /\ job[p].result \in Results /\ Camp(p) \in Campaigns /\ Cand(p) \in Candidates
      /\ job[p].seed \in Seeds
  BY Identity DEF TypeOK, ControlOK, CompletePhases, MetricPhases, ReservePhases
<1>2. /\ job'[p].result = job[p].result /\ job'[p].seed = job[p].seed + 1
      /\ Cand(p)' = Cand(p) /\ Camp(p)' = Camp(p)
  BY DEF TypeOK, ControlOK, Job, Cand, Camp
<1>3. pc'[p] = AfterSeed(job[p].seed)
  BY DEF Goto, TypeOK, ControlOK
<1>4. ASSUME NEW s \in Seeds \ {RepresentativeSeed},
             pc'[p] \in CompletePhases \/ (pc'[p] \in MetricPhases /\ s < job'[p].seed)
      PROVE  metrics'[Camp(p)][Cand(p)][s] = job'[p].result
  <2>1. s <= job[p].seed
    BY <1>1, <1>2, <1>3, <1>4 DEF AfterSeed, Seeds, CompletePhases, MetricPhases
  <2>2. CASE s = job[p].seed
    BY <1>2, <2>2
  <2>3. CASE s < job[p].seed
    <3>1. metrics[Camp(p)][Cand(p)][s] = job[p].result
      BY <2>3 DEF HeldMetrics
    <3>. QED
      BY <1>1, <1>2, <3>1 DEF KeepsEvidence
  <2>. QED
    BY <1>1, <2>1, <2>2, <2>3 DEF Seeds
<1>5. HeldMetrics(p)'
  BY <1>2, <1>4 DEF HeldMetrics
<1>6. pc'[p] \notin {"reserve_commit", "complete_write"}
  BY <1>3 DEF AfterSeed
<1>. QED
  BY <1>5, <1>6 DEF InFlight

LEMMA OwnInFlight ==
  ASSUME TypeOK, TypeOK', Agreement, NEW p \in Controllers, Step(p)
  PROVE  InFlight(p)'
<1>1. KeepsEvidence /\ InFlight(p) /\ HeldMetrics(p)
  BY StepKeepsEvidence DEF Agreement, InFlight
<1>2. CASE Leave(p)
  BY <1>2, LeaveCareless
<1>. SUFFICES ASSUME ~Leave(p) PROVE InFlight(p)'
  BY <1>2
<1>. USE DEF CompletePhases, MetricPhases
<1>3. CASE \/ \E k \in Candidates : Snapshot(p, k)
           \/ ReadProject(p) \/ ReserveRevision(p) \/ ReserveLocal(p) \/ Confirm(p) \/ Score(p)
           \/ ReadRecord(p) \/ ReadFailure(p) \/ FailureRevision(p)
  <2>1. pc'[p] \in {"project", "reserve_rev", "reserve_local", "confirm", "reserve_outer",
                    "score", "record", "prior", "failure_rev", "failure_write"}
    BY <1>3 DEF Snapshot, ReadProject, ReserveRevision, ReserveLocal, Confirm, Score, ReadRecord,
                ReadFailure, FailureRevision, ReadRevision, Goto, Abort, TypeOK, ControlOK
  <2>. QED
    BY <2>1, Careless
<1>4. CASE ReserveOuter(p)
  <2>1. /\ pc'[p] = "reserve_commit" /\ job' = job
        /\ Query(p) \in Queries /\ outer'[Query(p)].state # "NONE"
        /\ outer'[Query(p)].campaign = Camp(p)
    <3>1. pc[p] = "reserve_outer" /\ Goto(p, "reserve_commit") /\ job' = job
      BY <1>4 DEF ReserveOuter, Abort
    <3>2. Query(p) \in Queries
      BY <3>1, Identity
    <3>3. CASE UNCHANGED stores
      <4>. SUFFICES outer'[Query(p)].state # "NONE" /\ outer'[Query(p)].campaign = Camp(p)
        BY <3>1, <3>2 DEF Goto, TypeOK, ControlOK
      <4>1. CASE Reserved(Query(p))
        <5>1. SameReservation(p)
          BY <1>4, <4>1 DEF ReserveOuter, Abort
        <5>. QED
          BY <3>3, <4>1, <5>1 DEF SameReservation, Reserved, stores
      <4>2. CASE ~Reserved(Query(p))
        <5>1. outerRev' = outerRev + 1
          BY <1>4, <4>2, Zenon DEF ReserveOuter, Abort
        <5>. QED
          BY <3>3, <5>1 DEF stores, TypeOK, StoresOK
      <4>. QED
        BY <4>1, <4>2
    <3>4. CASE ~UNCHANGED stores
      <4>1. outer'[Query(p)].state # "NONE" /\ outer'[Query(p)].campaign = Camp(p)
        BY <1>4, <3>4, ReserveOuterWrites
      <4>. QED
        BY <3>1, <3>2, <4>1 DEF Goto, TypeOK, ControlOK
    <3>. QED
      BY <3>3, <3>4
  <2>2. Query(p)' = Query(p) /\ Camp(p)' = Camp(p)
    BY <2>1 DEF Query, QueryOf, Camp, Cand
  <2>. QED
    BY <2>1, <2>2 DEF InFlight, HeldMetrics, Reserved
<1>5. CASE ReserveCommit(p)
  <2>1. pc'[p] = "confirm"
    BY <1>5 DEF ReserveCommit, Goto, Abort, TypeOK, ControlOK
  <2>. QED
    BY <2>1, Careless
<1>6. CASE ReadPrior(p)
  <2>1. CASE pc'[p] = "failure"
    BY <2>1, Careless
  <2>2. CASE pc'[p] # "failure"
    <3>1. pc'[p] = AfterSeed(RepresentativeSeed) /\ job'[p].seed = RepresentativeSeed + 1
      BY <1>6, <2>2 DEF ReadPrior, Goto, Abort, TypeOK, ControlOK, Job
    <3>2. ASSUME NEW s \in Seeds \ {RepresentativeSeed}
          PROVE  ~(pc'[p] \in CompletePhases \/ (pc'[p] \in MetricPhases /\ s < job'[p].seed))
      BY <3>1 DEF AfterSeed, RepresentativeSeed, Seeds
    <3>. QED
      BY <3>1, <3>2 DEF InFlight, HeldMetrics, AfterSeed
  <2>. QED
    BY <2>1, <2>2
<1>7. CASE ReadMetric(p)
  <2>1. CASE Goto(p, "metric_rev") /\ UNCHANGED job
    BY <1>1, <1>7, <2>1, KeepsHeld DEF ReadMetric, InFlight, Goto, TypeOK, ControlOK, Cand
  <2>2. CASE ~(Goto(p, "metric_rev") /\ UNCHANGED job)
    <3>1. /\ pc[p] \in MetricPhases /\ SameMetric(p) /\ UNCHANGED stores
          /\ job' = [job EXCEPT ![p].seed = @ + 1] /\ Goto(p, AfterSeed(job[p].seed))
      BY <1>7, <2>2 DEF ReadMetric, Abort
    <3>. QED
      BY <1>1, <3>1, PassSeed DEF SameMetric, StoredMetric, stores
  <2>. QED
    BY <2>1, <2>2
<1>8. CASE WriteMetric(p)
  <2>1. /\ pc[p] \in MetricPhases /\ Camp(p) \in Campaigns /\ Cand(p) \in Candidates
        /\ job[p].seed \in Seeds
        /\ metrics' = [metrics EXCEPT ![Camp(p)][Cand(p)][job[p].seed] = job[p].result]
        /\ job' = [job EXCEPT ![p].seed = @ + 1]
        /\ Goto(p, AfterSeed(job[p].seed))
    BY <1>8, Identity DEF WriteMetric, Abort, TypeOK, ControlOK
  <2>2. metrics'[Camp(p)][Cand(p)][job[p].seed] = job[p].result
    BY <2>1 DEF TypeOK, StoresOK
  <2>. QED
    BY <1>1, <2>1, <2>2, PassSeed
<1>9. CASE MetricRevision(p) \/ CompleteRevision(p)
  <2>1. /\ job' = [job EXCEPT ![p].expected = rev[Camp(p)]]
        /\ \/ pc[p] = "metric_rev" /\ pc'[p] = "metric_write"
           \/ pc[p] = "complete_rev" /\ pc'[p] = "complete_read"
    BY <1>9 DEF MetricRevision, CompleteRevision, ReadRevision, Goto, TypeOK, ControlOK
  <2>2. job'[p].result = job[p].result /\ job'[p].seed = job[p].seed /\ Cand(p)' = Cand(p)
    <3> DEFINE revision == rev[Camp(p)]
    <3>1. job' = [job EXCEPT ![p].expected = revision]
      BY <2>1
    <3> HIDE DEF revision
    <3>2. job \in [Controllers -> Job]
      BY DEF TypeOK, ControlOK
    <3>3. job'[p] = [job[p] EXCEPT !.expected = revision] /\ job[p] \in Job
      BY <3>1, <3>2
    <3>4. /\ job'[p].result = job[p].result /\ job'[p].seed = job[p].seed
          /\ job'[p].cand = job[p].cand
      BY <3>3 DEF Job
    <3>. QED
      BY <3>4 DEF Cand
  <2>. QED
    BY <1>1, <2>1, <2>2, KeepsHeld DEF InFlight
<1>10. CASE CompleteRead(p)
  <2>1. /\ job' = [job EXCEPT ![p].done = (local[Camp(p)][Cand(p)].state = "COMPLETED")]
        /\ pc[p] = "complete_read" /\ pc'[p] = "complete_outer"
    BY <1>10 DEF CompleteRead, Abort, Goto, TypeOK, ControlOK
  <2>2. job'[p].result = job[p].result /\ job'[p].seed = job[p].seed /\ Cand(p)' = Cand(p)
    <3> DEFINE decided == local[Camp(p)][Cand(p)].state = "COMPLETED"
    <3>1. job' = [job EXCEPT ![p].done = decided]
      BY <2>1
    <3> HIDE DEF decided
    <3>2. job \in [Controllers -> Job]
      BY DEF TypeOK, ControlOK
    <3>3. job'[p] = [job[p] EXCEPT !.done = decided] /\ job[p] \in Job
      BY <3>1, <3>2
    <3>4. /\ job'[p].result = job[p].result /\ job'[p].seed = job[p].seed
          /\ job'[p].cand = job[p].cand
      BY <3>3 DEF Job
    <3>. QED
      BY <3>4 DEF Cand
  <2>. QED
    BY <1>1, <2>1, <2>2, KeepsHeld DEF InFlight
<1>11. CASE CompleteOuter(p)
  <2>1. pc[p] = "complete_outer" /\ Goto(p, "complete_write") /\ UNCHANGED job
    BY <1>11 DEF CompleteOuter, Abort
  <2>2. pc'[p] = "complete_write" /\ Query(p) \in Queries
    BY <2>1, Identity DEF Goto, TypeOK, ControlOK
  <2>3. HeldMetrics(p)'
    BY <1>1, <2>1, <2>2, KeepsHeld DEF Cand
  <2>4. outer'[Query(p)].state = "COMPLETED" /\ outer'[Query(p)].result = job[p].result
    <3>1. CASE Undecided(Query(p))
      <4>1. outerRev' = outerRev + 1
        BY <1>11, <3>1 DEF CompleteOuter, Abort, Undecided
      <4>2. ~UNCHANGED stores
        BY <4>1 DEF stores, TypeOK, StoresOK
      <4>. QED
        BY <1>11, <4>2, CompleteOuterWrites
    <3>2. CASE ~Undecided(Query(p))
      BY <1>11, <3>2 DEF CompleteOuter, Abort, stores
    <3>. QED
      BY <3>1, <3>2
  <2>5. Query(p)' = Query(p)
    BY <2>1 DEF Query, QueryOf, Camp, Cand
  <2>. QED
    BY <2>1, <2>2, <2>3, <2>4, <2>5 DEF InFlight
<1>12. CASE WriteFailure(p) \/ CompleteWrite(p) \/ Crash(p)
  BY <1>12 DEF WriteFailure, CompleteWrite, Crash, Abort
<1>. QED
  BY <1>3, <1>4, <1>5, <1>6, <1>7, <1>8, <1>9, <1>10, <1>11, <1>12 DEF Step, Reserve, Complete

LEMMA StepAgreement ==
  ASSUME TypeOK, TypeOK', Agreement, NEW p \in Controllers, Step(p)
  PROVE  Agreement'
<1>1. \A q \in Controllers : InFlight(q)'
  BY OwnInFlight, OthersInFlight
<1>2. KeepsEvidence /\ InFlight(p)
  BY StepKeepsEvidence DEF Agreement
<1>3. ASSUME NEW c \in Campaigns, NEW k \in Candidates
      PROVE  QueryOf(c, k) \in Queries
  BY DEF QueryOf, Queries
<1>4. CASE local' = local
  <2>1. LocalBackedByProject'
    BY <1>2, <1>3, <1>4 DEF KeepsEvidence, Agreement, LocalBackedByProject
  <2>2. BundleCoherent' /\ CompletedHasResult'
    BY <1>2, <1>4 DEF KeepsEvidence, Agreement, BundleCoherent, CompletedHasResult
  <2>. QED
    BY <1>1, <2>1, <2>2 DEF Agreement
<1>5. CASE ReserveCommit(p) /\ ~UNCHANGED stores
  <2>. DEFINE r == [state |-> "RESERVED", result |-> None]
  <2>1. /\ Camp(p) \in Campaigns /\ Cand(p) \in Candidates /\ pc[p] = "reserve_commit"
        /\ local' = [local EXCEPT ![Camp(p)][Cand(p)] = r]
        /\ UNCHANGED <<outer, metrics>>
    BY <1>5, ReserveCommitWrites
  <2>2. r.state = "RESERVED"
    OBVIOUS
  <2>. HIDE DEF r
  <2>3. outer[Query(p)].state # "NONE" /\ outer[Query(p)].campaign = Camp(p)
    BY <1>2, <2>1 DEF InFlight, Reserved
  <2>4. ASSUME NEW c \in Campaigns, NEW k \in Candidates
        PROVE  local'[c][k] = IF c = Camp(p) /\ k = Cand(p) THEN r ELSE local[c][k]
    BY <2>1 DEF TypeOK, StoresOK
  <2>5. LocalBackedByProject'
    BY <2>1, <2>2, <2>3, <2>4 DEF Agreement, LocalBackedByProject, Query
  <2>6. BundleCoherent' /\ CompletedHasResult'
    BY <2>1, <2>2, <2>4 DEF Agreement, BundleCoherent, CompletedHasResult
  <2>. QED
    BY <1>1, <2>5, <2>6 DEF Agreement
<1>6. CASE CompleteWrite(p) /\ ~UNCHANGED stores
  <2>. DEFINE r == [state |-> "COMPLETED", result |-> job[p].result]
  <2>1. /\ Camp(p) \in Campaigns /\ Cand(p) \in Candidates /\ pc[p] = "complete_write"
        /\ local[Camp(p)][Cand(p)].state = "RESERVED"
        /\ local' = [local EXCEPT ![Camp(p)][Cand(p)] = r]
        /\ metrics' = [metrics EXCEPT ![Camp(p)][Cand(p)][RepresentativeSeed] = job[p].result]
        /\ UNCHANGED outer
    BY <1>6, CompleteWriteWrites
  <2>2. r.state = "COMPLETED" /\ r.result = job[p].result
    OBVIOUS
  <2>. HIDE DEF r
  <2>3. /\ outer[Query(p)].state = "COMPLETED" /\ outer[Query(p)].result = job[p].result
        /\ HeldMetrics(p)
    BY <1>2, <2>1 DEF InFlight
  <2>4. job[p].result \in Results
    BY <2>1 DEF TypeOK, ControlOK, ReservePhases
  <2>5. ASSUME NEW c \in Campaigns, NEW k \in Candidates
        PROVE  local'[c][k] = IF c = Camp(p) /\ k = Cand(p) THEN r ELSE local[c][k]
    BY <2>1 DEF TypeOK, StoresOK
  <2>6. LocalBackedByProject'
    BY <2>1, <2>2, <2>3, <2>5 DEF Agreement, LocalBackedByProject, Query
  <2>7. ASSUME NEW c \in Campaigns, NEW k \in Candidates, local'[c][k].state = "COMPLETED",
               NEW s \in Seeds
        PROVE  metrics'[c][k][s] = local'[c][k].result
    <3>1. CASE c = Camp(p) /\ k = Cand(p)
      <4>1. metrics[c][k] \in [Seeds -> Results \cup {None}]
        BY DEF TypeOK, StoresOK
      <4>2. metrics'[c][k] = [metrics[c][k] EXCEPT ![RepresentativeSeed] = job[p].result]
        BY <2>1, <3>1 DEF TypeOK, StoresOK
      <4>3. s # RepresentativeSeed => metrics[c][k][s] = job[p].result
        BY <2>1, <2>3, <3>1 DEF HeldMetrics, CompletePhases
      <4>. QED
        BY <2>2, <2>5, <3>1, <4>1, <4>2, <4>3
    <3>2. CASE ~(c = Camp(p) /\ k = Cand(p))
      BY <1>2, <2>5, <2>7, <3>2 DEF KeepsEvidence, Agreement, BundleCoherent, CompletedHasResult
    <3>. QED
      BY <3>1, <3>2
  <2>8. BundleCoherent' /\ CompletedHasResult'
    BY <2>2, <2>4, <2>5, <2>7 DEF Agreement, BundleCoherent, CompletedHasResult
  <2>. QED
    BY <1>1, <2>6, <2>8 DEF Agreement
<1>. QED
  BY <1>4, <1>5, <1>6, Writes, ReserveOuterWrites, WriteFailureWrites, WriteMetricWrites,
     CompleteOuterWrites DEF stores

LEMMA AgreementHolds == Spec => []Agreement
<1>1. TypeOK /\ TypeOK' /\ Agreement /\ [Next]_vars => Agreement'
  <2>1. UNCHANGED vars /\ Agreement => Agreement'
    BY DEF vars, Agreement, LocalBackedByProject, BundleCoherent, CompletedHasResult, InFlight,
           HeldMetrics, Reserved, Query, QueryOf, Camp, Cand
  <2>. QED
    BY <2>1, StepAgreement DEF Next, Step
<1>. QED
  BY TypeCorrect, InitAgreement, <1>1, PTL DEF Spec

\* Every claim of a campaign's private database is backed by the project ledger, and a
\* published bundle is coherent: no two attempts and no two campaigns are ever mixed.
THEOREM StoresAgree == Spec => []Coherent
<1>1. Agreement => Coherent
  BY DEF Agreement, Coherent
<1>. QED
  BY AgreementHolds, <1>1, PTL

-----------------------------------------------------------------------------
(* A failed bundle stays failed, when a campaign has one controller: the   *)
(* checks of complete and the writes they guard are separate transactions. *)

Undisputed(p) ==
  Sole(Camp(p)) =>
  /\ pc[p] \in MetricPhases \cup CompletePhases => failures[Camp(p)][Cand(p)] = None
  /\ pc[p] \in FailurePhases \/ (pc[p] = "prior" /\ ~job[p].done)
       => local[Camp(p)][Cand(p)].state # "COMPLETED"

Exclusive == FailedNeverPublished /\ \A p \in Controllers : Undisputed(p)

\* What a step may change of the rows that the invariant is about.
LEMMA RowWrites ==
  ASSUME TypeOK, NEW p \in Controllers, Step(p), NEW c \in Campaigns, NEW k \in Candidates
  PROVE  /\ failures'[c][k] # failures[c][k] =>
              c = Camp(p) /\ k = Cand(p) /\ pc[p] = "failure_write" /\ pc'[p] = "idle"
         /\ local'[c][k] # local[c][k] =>
              /\ c = Camp(p) /\ k = Cand(p)
              /\ \/ local'[c][k].state = "RESERVED" /\ pc'[p] = "confirm"
                 \/ pc[p] = "complete_write" /\ pc'[p] = "idle"
<1>1. CASE UNCHANGED <<local, failures>>
  BY <1>1
<1>2. CASE WriteFailure(p) /\ ~UNCHANGED stores
  BY <1>2, WriteFailureWrites DEF TypeOK, StoresOK, ControlOK, Leave
<1>3. CASE ReserveCommit(p) /\ ~UNCHANGED stores
  <2>1. pc'[p] = "confirm"
    BY <1>3 DEF ReserveCommit, Goto, Abort, TypeOK, ControlOK
  <2>. QED
    BY <1>3, <2>1, ReserveCommitWrites DEF TypeOK, StoresOK
<1>4. CASE CompleteWrite(p) /\ ~UNCHANGED stores
  BY <1>4, CompleteWriteWrites DEF TypeOK, StoresOK, ControlOK, Leave
<1>. QED
  BY <1>1, <1>2, <1>3, <1>4, Writes, ReserveOuterWrites, WriteMetricWrites, CompleteOuterWrites
  DEF stores

LEMMA OthersUndisputed ==
  ASSUME TypeOK, Exclusive, NEW p \in Controllers, Step(p),
         NEW q \in Controllers, q # p
  PROVE  Undisputed(q)'
<1>1. pc'[q] = pc[q] /\ job'[q] = job[q] /\ Undisputed(q)
  BY OthersKeep DEF Exclusive
<1>2. /\ Cand(q)' = Cand(q) /\ Camp(q)' = Camp(q)
      /\ Sole(Camp(q))' <=> Sole(Camp(q))
  BY <1>1 DEF Cand, Camp, Sole
<1>3. CASE pc[q] = "idle"
  BY <1>1, <1>3 DEF Undisputed, MetricPhases, CompletePhases, FailurePhases
<1>4. CASE Camp(q) = Camp(p)
  BY <1>2, <1>4 DEF Undisputed, Sole, Camp
<1>5. CASE pc[q] # "idle" /\ Camp(q) # Camp(p)
  <2>1. Camp(q) \in Campaigns /\ Cand(q) \in Candidates
    BY <1>5, Identity
  <2>2. /\ failures'[Camp(q)][Cand(q)] = failures[Camp(q)][Cand(q)]
        /\ local'[Camp(q)][Cand(q)] = local[Camp(q)][Cand(q)]
    BY <1>2, <1>5, <2>1, RowWrites
  <2>. QED
    BY <1>1, <1>2, <2>2 DEF Undisputed, Camp
<1>. QED
  BY <1>3, <1>4, <1>5

LEMMA OwnUndisputed ==
  ASSUME TypeOK, Agreement, Exclusive, NEW p \in Controllers, Step(p)
  PROVE  Undisputed(p)'
<1>. USE DEF MetricPhases, CompletePhases, FailurePhases
<1>. DEFINE careful == pc'[p] \in {"prior"} \cup MetricPhases \cup CompletePhases \cup FailurePhases
<1>1. CASE ~careful
  BY <1>1 DEF Undisputed
<1>2. CASE careful
  <2>1. CASE ReadRecord(p) /\ pc'[p] = "prior"
    <3>1. /\ job'[p].done = (outer[Query(p)].state = "COMPLETED") /\ UNCHANGED stores
          /\ Cand(p)' = Cand(p) /\ Camp(p)' = Camp(p)
      BY <2>1 DEF ReadRecord, Abort, Leave, Goto, TypeOK, ControlOK, Job, Cand, Camp
    <3>2. Camp(p) \in Campaigns /\ Cand(p) \in Candidates
      BY <2>1, Identity DEF ReadRecord
    <3>3. local[Camp(p)][Cand(p)].state = "COMPLETED" => outer[Query(p)].state = "COMPLETED"
      BY <3>2 DEF Agreement, LocalBackedByProject, Query
    <3>. QED
      BY <2>1, <3>1, <3>3 DEF Undisputed, stores
  <2>2. CASE ReadPrior(p)
    <3>1. /\ UNCHANGED stores /\ Cand(p)' = Cand(p) /\ Camp(p)' = Camp(p) /\ pc[p] = "prior"
          /\ \/ pc'[p] = "failure" /\ ~job[p].done
             \/ pc'[p] \in {"metric", "complete_rev"} /\ failures[Camp(p)][Cand(p)] = None
      BY <1>2, <2>2 DEF ReadPrior, Abort, Leave, Goto, TypeOK, ControlOK, Job, Cand, Camp,
                        FailedBefore, AfterSeed
    <3>. QED
      BY <3>1 DEF Undisputed, Exclusive, stores
  <2>3. CASE \/ ReadFailure(p) \/ FailureRevision(p) \/ ReadMetric(p) \/ MetricRevision(p)
             \/ CompleteRevision(p) \/ CompleteRead(p) \/ WriteMetric(p) \/ CompleteOuter(p)
    <3>1. /\ UNCHANGED <<local, failures>> /\ Cand(p)' = Cand(p) /\ Camp(p)' = Camp(p)
          /\ \/ pc[p] \in FailurePhases /\ pc'[p] \in FailurePhases
             \/ /\ pc[p] \in MetricPhases \cup CompletePhases
                /\ pc'[p] \in MetricPhases \cup CompletePhases
      <4>1. CASE ReadFailure(p) \/ FailureRevision(p)
        BY <1>2, <4>1 DEF ReadFailure, FailureRevision, ReadRevision, Abort, Leave, Goto, stores,
                          TypeOK, ControlOK, Job, Cand, Camp
      <4>2. CASE ReadMetric(p) \/ MetricRevision(p) \/ WriteMetric(p)
        BY <1>2, <4>2 DEF ReadMetric, MetricRevision, WriteMetric, ReadRevision, Abort, Leave,
                          Goto, stores, TypeOK, ControlOK, Job, Cand, Camp, AfterSeed
      <4>3. CASE CompleteRevision(p) \/ CompleteRead(p) \/ CompleteOuter(p)
        BY <1>2, <4>3 DEF CompleteRevision, CompleteRead, CompleteOuter, ReadRevision, Abort,
                          Leave, Goto, stores, TypeOK, ControlOK, Job, Cand, Camp
      <4>. QED
        BY <2>3, <4>1, <4>2, <4>3
    <3>. QED
      BY <3>1 DEF Undisputed, Exclusive
  <2>4. CASE \/ \E k \in Candidates : Snapshot(p, k)
             \/ ReadProject(p) \/ ReserveRevision(p) \/ ReserveLocal(p) \/ ReserveOuter(p)
             \/ ReserveCommit(p) \/ Confirm(p) \/ Score(p)
    BY <1>2, <2>4 DEF Snapshot, ReadProject, ReserveRevision, ReadRevision, ReserveLocal,
         ReserveOuter, ReserveCommit, Confirm, Score, Abort, Leave, Goto, TypeOK, ControlOK,
         Undisputed
  <2>5. CASE WriteFailure(p) \/ CompleteWrite(p) \/ Crash(p)
    BY <1>2, <2>5 DEF WriteFailure, CompleteWrite, Crash, Abort, Leave, TypeOK, ControlOK
  <2>6. CASE ReadRecord(p) /\ pc'[p] # "prior"
    BY <1>2, <2>6 DEF ReadRecord, Abort, Leave, Goto, TypeOK, ControlOK
  <2>. QED
    BY <2>1, <2>2, <2>3, <2>4, <2>5, <2>6 DEF Step, Reserve, Complete
<1>. QED
  BY <1>1, <1>2

\* A failed bundle is never published: "failed matched-seed bundle cannot later become
\* successful" holds across crashes and retries of a campaign's only controller, whatever
\* the controllers of other campaigns do to the ledger they share.
THEOREM FailureIsFinal ==
  Spec => []FailedNeverPublished
<1>1. Init => Exclusive
  BY DEF Init, Exclusive, FailedNeverPublished, Undisputed, MetricPhases, CompletePhases,
         FailurePhases
<1>2. ASSUME TypeOK, Agreement, Exclusive, NEW p \in Controllers, Step(p)
      PROVE  Exclusive'
  <2>1. \A q \in Controllers : Undisputed(q)'
    BY <1>2, OwnUndisputed, OthersUndisputed
  <2>2. ASSUME NEW c \in Campaigns, NEW k \in Candidates, Sole(c), failures'[c][k] # None
        PROVE  local'[c][k].state # "COMPLETED"
    <3>1. CASE failures'[c][k] = failures[c][k]
      <4>1. local[c][k].state # "COMPLETED"
        BY <1>2, <2>2, <3>1 DEF Exclusive, FailedNeverPublished
      <4>. QED
        BY <1>2, <2>2, <3>1, <4>1, RowWrites DEF Exclusive, Undisputed, Camp, CompletePhases
    <3>2. CASE failures'[c][k] # failures[c][k]
      BY <1>2, <2>2, <3>2, RowWrites DEF Exclusive, Undisputed, Camp, FailurePhases
    <3>. QED
      BY <3>1, <3>2
  <2>3. FailedNeverPublished'
    BY <2>2 DEF FailedNeverPublished, Sole
  <2>. QED
    BY <2>1, <2>3 DEF Exclusive
<1>3. UNCHANGED vars /\ Exclusive => Exclusive'
  BY DEF vars, Exclusive, FailedNeverPublished, Undisputed, Camp, Cand
<1>4. TypeOK /\ Agreement /\ Exclusive /\ [Next]_vars => Exclusive'
  BY <1>2, <1>3 DEF Next, Step
<1>5. Exclusive => FailedNeverPublished
  BY DEF Exclusive
<1>. QED
  BY TypeCorrect, AgreementHolds, <1>1, <1>4, <1>5, PTL DEF Spec

-----------------------------------------------------------------------------
(* The refinement.  The two databases and their crashing controllers       *)
(* implement the abstract budget of PublicScores: every transaction        *)
(* charges, decides or publishes exactly once, or is invisible.            *)

\* A row of the project ledger is empty, reserved or completed as a whole.
RowsWhole ==
  \A q \in Queries :
    /\ outer[q].state # "NONE" => outer[q].campaign \in Campaigns
    /\ outer[q].state # "COMPLETED" => outer[q].result = None
    /\ outer[q].state = "COMPLETED" => outer[q].result \in Results

LEMMA StepRowsWhole ==
  ASSUME TypeOK, RowsWhole, NEW p \in Controllers, Step(p)
  PROVE  RowsWhole'
<1>1. CASE outer' = outer
  BY <1>1 DEF RowsWhole
<1>2. CASE ReserveOuter(p) /\ ~UNCHANGED stores
  <2>1. outer'[Query(p)].result = None
    BY <1>2, Identity DEF ReserveOuter, Abort, stores, TypeOK, StoresOK
  <2>. QED
    BY <1>2, <2>1, ReserveOuterWrites DEF RowsWhole
<1>3. CASE CompleteOuter(p) /\ ~UNCHANGED stores
  <2>1. job[p].result \in Results
    BY <1>3 DEF CompleteOuter, TypeOK, ControlOK, ReservePhases
  <2>. QED
    BY <1>3, <2>1, CompleteOuterWrites DEF RowsWhole
<1>. QED
  BY <1>1, <1>2, <1>3, Writes, ReserveCommitWrites, WriteFailureWrites, WriteMetricWrites,
     CompleteWriteWrites DEF stores

\* Everything the mapping needs to be true of the states it maps.
Mappable == TypeOK /\ QueryBudget /\ Agreement /\ RowsWhole

LEMMA MappableHolds == Spec => []Mappable
<1>1. Init => RowsWhole
  BY DEF Init, RowsWhole
<1>2. TypeOK /\ RowsWhole /\ [Next]_vars => RowsWhole'
  BY StepRowsWhole DEF Next, Step, vars, RowsWhole
<1>3. Spec => []RowsWhole
  BY TypeCorrect, <1>1, <1>2, PTL DEF Spec
<1>. QED
  BY <1>3, TypeCorrect, BudgetHolds, AgreementHolds, PTL DEF Mappable

-----------------------------------------------------------------------------
(* The mapping read through the one query that charges a candidate.        *)

LEMMA OwnerOfCharged ==
  ASSUME QueryBudget, NEW q \in Charged
  PROVE  /\ q[2] \in ChargedCandidates
         /\ OwnerOf(q[2]) = outer[q].campaign
         /\ VerdictOf(q[2]) = outer[q].result
<1>1. q[2] \in ChargedCandidates
  BY DEF ChargedCandidates
<1>2. (CHOOSE r \in Charged : r[2] = q[2]) = q
  BY DEF QueryBudget
<1>. QED
  BY <1>1, <1>2 DEF OwnerOf, VerdictOf

LEMMA OwnerOfOther ==
  ASSUME NEW k, k \notin ChargedCandidates
  PROVE  OwnerOf(k) = None /\ VerdictOf(k) = None
BY DEF OwnerOf, VerdictOf

\* Two states with the same charged queries map a candidate to the same owner and
\* verdict when its query has the same campaign and result in both.
LEMMA SameView ==
  ASSUME QueryBudget, QueryBudget', Charged' = Charged, NEW k,
         \A q \in Charged : q[2] = k => /\ outer'[q].campaign = outer[q].campaign
                                        /\ outer'[q].result = outer[q].result
  PROVE  OwnerOf(k)' = OwnerOf(k) /\ VerdictOf(k)' = VerdictOf(k)
<1>1. ChargedCandidates' = ChargedCandidates
  BY DEF ChargedCandidates
<1>2. CASE k \notin ChargedCandidates
  BY <1>1, <1>2 DEF OwnerOf, VerdictOf
<1>3. CASE k \in ChargedCandidates
  <2>1. PICK q \in Charged : q[2] = k
    BY <1>3 DEF ChargedCandidates
  <2>2. (CHOOSE r \in Charged : r[2] = k) = q
    BY <2>1 DEF QueryBudget
  <2>. QED
    BY <1>1, <1>3, <2>1, <2>2 DEF OwnerOf, VerdictOf
<1>. QED
  BY <1>2, <1>3

-----------------------------------------------------------------------------
(* One step of one controller is one abstract step.                        *)

LEMMA SpentIsCharged ==
  ASSUME Mappable
  PROVE  Scores!Spent = ChargedCandidates
<1>1. ASSUME NEW k \in Candidates PROVE OwnerOf(k) # None <=> k \in ChargedCandidates
  <2>1. CASE k \in ChargedCandidates
    <3>1. PICK q \in Charged : q[2] = k
      BY <2>1 DEF ChargedCandidates
    <3>2. OwnerOf(k) = outer[q].campaign /\ outer[q].campaign \in Campaigns
      BY <3>1, OwnerOfCharged DEF Mappable, RowsWhole, Charged, Reserved
    <3>. QED
      BY <2>1, <3>2
  <2>2. CASE k \notin ChargedCandidates
    BY <2>2, OwnerOfOther
  <2>. QED
    BY <2>1, <2>2
<1>2. ChargedCandidates \subseteq Candidates
  BY DEF ChargedCandidates, Charged, Queries
<1>. QED
  BY <1>1, <1>2 DEF Scores!Spent

\* Fewer candidates than queries are charged.
LEMMA SpentBound ==
  ASSUME Mappable, Used < MaxQueries
  PROVE  Cardinality(Scores!Spent) < MaxQueries
<1>. DEFINE f == [q \in Charged |-> q[2]]
<1>1. f \in Surjection(Charged, ChargedCandidates)
  BY Zenon DEF Surjection, ChargedCandidates
<1>2. IsFiniteSet(Charged) /\ Cardinality(Charged) \in Nat
  BY FiniteCharged, FS_CardinalityType
<1>3. Cardinality(ChargedCandidates) <= Cardinality(Charged) /\ Cardinality(ChargedCandidates) \in Nat
  BY <1>1, <1>2, FS_Surjection, FS_CardinalityType
<1>. QED
  BY <1>2, <1>3, SpentIsCharged DEF Used

LEMMA ChargeStep ==
  ASSUME Mappable, Mappable', NEW p \in Controllers, ReserveOuter(p), ~UNCHANGED stores
  PROVE  \E k \in Candidates, c \in Campaigns : Scores!Charge(k, c)
<1>k. PICK k \in Candidates, c \in Campaigns, q \in Queries :
        k = Cand(p) /\ c = Camp(p) /\ q = Query(p)
  BY Identity DEF ReserveOuter, Mappable
<1>1. /\ q \in Queries /\ q[2] = k /\ k \notin ChargedCandidates /\ Used < MaxQueries
      /\ ~Reserved(q) /\ \A r \in Queries \ {q} : outer'[r] = outer[r]
      /\ outer'[q].state = "RESERVED" /\ outer'[q].campaign = c
      /\ local' = local
  BY <1>k, ReserveOuterWrites DEF Mappable, MayCharge
<1>2. outer'[q].result = None
  BY <1>1 DEF Mappable, RowsWhole
<1>3. Charged' = Charged \cup {q}
  BY <1>1 DEF Charged, Reserved
<1>4. OwnerOf(k) = None /\ VerdictOf(k) = None
  BY <1>1, OwnerOfOther
<1>5. OwnerOf(k)' = c /\ VerdictOf(k)' = None
  <2>1. q \in Charged' /\ QueryBudget'
    BY <1>3 DEF Mappable
  <2>2. (CHOOSE r \in Charged' : r[2] = k) = q /\ k \in ChargedCandidates'
    BY <1>1, <2>1 DEF QueryBudget, ChargedCandidates
  <2>. QED
    BY <1>1, <1>2, <2>2 DEF OwnerOf, VerdictOf
<1>6. ASSUME NEW j \in Candidates, j # k
      PROVE  OwnerOf(j)' = OwnerOf(j) /\ VerdictOf(j)' = VerdictOf(j)
  <2>1. j \in ChargedCandidates' <=> j \in ChargedCandidates
    BY <1>1, <1>3, <1>6 DEF ChargedCandidates
  <2>2. CASE j \notin ChargedCandidates
    BY <2>1, <2>2 DEF OwnerOf, VerdictOf
  <2>3. CASE j \in ChargedCandidates
    <3>1. PICK r \in Charged : r[2] = j
      BY <2>3 DEF ChargedCandidates
    <3>2. (CHOOSE s \in Charged' : s[2] = j) = r /\ outer'[r] = outer[r]
      BY <1>1, <1>3, <1>6, <3>1 DEF Mappable, QueryBudget, Charged
    <3>3. OwnerOf(j) = outer[r].campaign /\ VerdictOf(j) = outer[r].result
      BY <3>1, OwnerOfCharged DEF Mappable
    <3>4. OwnerOf(j)' = outer'[r].campaign /\ VerdictOf(j)' = outer'[r].result
      BY <2>1, <2>3, <3>2 DEF OwnerOf, VerdictOf
    <3>. QED
      BY <3>2, <3>3, <3>4
  <2>. QED
    BY <2>2, <2>3
<1>7. Cardinality(Scores!Spent) < MaxQueries
  BY <1>1, SpentBound
<1>8. Published' = Published
  BY <1>1 DEF Published
<1>9. [j \in Candidates |-> OwnerOf(j)]'
        = [[j \in Candidates |-> OwnerOf(j)] EXCEPT ![k] = c]
  BY <1>5, <1>6
<1>10. [j \in Candidates |-> VerdictOf(j)]' = [j \in Candidates |-> VerdictOf(j)]
  BY <1>4, <1>5, <1>6
<1>11. [j \in Candidates |-> OwnerOf(j)][k] = None
  BY <1>4
<1>12. Scores!Cardinality(Scores!Spent) = Cardinality(Scores!Spent)
  BY Zenon DEF Cardinality, Scores!Cardinality
<1>13. Scores!Charge(k, c)
  BY <1>7, <1>8, <1>9, <1>10, <1>11, <1>12 DEF Scores!Charge
<1>. QED
  BY <1>13

LEMMA DecideStep ==
  ASSUME Mappable, Mappable', NEW p \in Controllers, CompleteOuter(p), ~UNCHANGED stores
  PROVE  \E k \in Candidates, v \in Results : Scores!Decide(k, v)
<1>k. PICK k \in Candidates, v \in Results, q \in Queries :
        k = Cand(p) /\ v = job[p].result /\ q = Query(p) /\ q[2] = k
  BY Identity DEF CompleteOuter, Mappable, TypeOK, ControlOK, ReservePhases
<1>1. /\ q \in Queries /\ outer[q].state = "RESERVED" /\ outer'[q].state = "COMPLETED"
      /\ outer'[q].result = v /\ outer'[q].campaign = outer[q].campaign
      /\ \A r \in Queries \ {q} : outer'[r] = outer[r]
      /\ local' = local
  BY <1>k, CompleteOuterWrites DEF Mappable
<1>2. q[2] = k
  BY <1>k
<1>3. Charged' = Charged /\ q \in Charged
  BY <1>1 DEF Charged, Reserved
<1>4. OwnerOf(k) # None /\ VerdictOf(k) = None
  BY <1>1, <1>2, <1>3, OwnerOfCharged DEF Mappable, RowsWhole
<1>5. OwnerOf(k)' = OwnerOf(k) /\ VerdictOf(k)' = v
  <2>1. (CHOOSE r \in Charged : r[2] = k) = q /\ k \in ChargedCandidates
    BY <1>2, <1>3 DEF Mappable, QueryBudget, ChargedCandidates
  <2>2. ChargedCandidates' = ChargedCandidates
    BY <1>3 DEF ChargedCandidates
  <2>. QED
    BY <1>1, <1>3, <2>1, <2>2 DEF OwnerOf, VerdictOf
<1>6. ASSUME NEW j \in Candidates, j # k
      PROVE  OwnerOf(j)' = OwnerOf(j) /\ VerdictOf(j)' = VerdictOf(j)
  <2>1. \A r \in Charged : r[2] = j => outer'[r] = outer[r]
    BY <1>1, <1>2, <1>6 DEF Charged
  <2>. QED
    BY <1>3, <2>1, SameView DEF Mappable
<1>7. Published' = Published
  BY <1>1 DEF Published
<1>8. [j \in Candidates |-> OwnerOf(j)]' = [j \in Candidates |-> OwnerOf(j)]
  BY <1>5, <1>6
<1>9. [j \in Candidates |-> VerdictOf(j)]'
        = [[j \in Candidates |-> VerdictOf(j)] EXCEPT ![k] = v]
  BY <1>5, <1>6
<1>. QED
  BY <1>2, <1>4, <1>7, <1>8, <1>9 DEF Scores!Decide

\* A step that leaves the project ledger alone leaves owners and verdicts alone.
LEMMA QuietLedger ==
  ASSUME Mappable, Mappable', outer' = outer
  PROVE  /\ [j \in Candidates |-> OwnerOf(j)]' = [j \in Candidates |-> OwnerOf(j)]
         /\ [j \in Candidates |-> VerdictOf(j)]' = [j \in Candidates |-> VerdictOf(j)]
<1>1. Charged' = Charged
  BY DEF Charged, Reserved
<1>2. \A j \in Candidates : OwnerOf(j)' = OwnerOf(j) /\ VerdictOf(j)' = VerdictOf(j)
  BY <1>1, SameView DEF Mappable
<1>. QED
  BY <1>2

LEMMA PublishStep ==
  ASSUME Mappable, Mappable', NEW p \in Controllers, CompleteWrite(p), ~UNCHANGED stores
  PROVE  (\E k \in Candidates : Scores!Publish(k)) \/ UNCHANGED Scores!vars
<1>k. PICK k \in Candidates : k = Cand(p)
  BY Identity DEF CompleteWrite, Mappable
<1>1. /\ Camp(p) \in Campaigns /\ pc[p] = "complete_write"
      /\ local' = [local EXCEPT ![Camp(p)][k] = [state |-> "COMPLETED", result |-> job[p].result]]
      /\ outer' = outer
  BY <1>k, CompleteWriteWrites DEF Mappable
<1>2. outer[Query(p)].state = "COMPLETED"
  BY <1>1 DEF Mappable, Agreement, InFlight
<1>3. VerdictOf(k) # None
  <2>1. Query(p) \in Charged /\ Query(p)[2] = k
    BY <1>k, <1>1, <1>2, Identity DEF Charged, Reserved, Mappable
  <2>. QED
    BY <1>2, <2>1, OwnerOfCharged DEF Mappable, RowsWhole, Charged
<1>4. Published' = Published \cup {k}
  <2>1. ASSUME NEW c \in Campaigns, NEW j \in Candidates
        PROVE  local'[c][j].state = IF c = Camp(p) /\ j = k THEN "COMPLETED" ELSE local[c][j].state
    BY <1>1 DEF Mappable, TypeOK, StoresOK
  <2>. QED
    BY <1>1, <2>1 DEF Published
<1>5. CASE k \in Published
  BY <1>1, <1>4, <1>5, QuietLedger DEF Scores!vars
<1>6. CASE k \notin Published
  BY <1>1, <1>3, <1>4, <1>6, QuietLedger DEF Scores!Publish
<1>. QED
  BY <1>5, <1>6

LEMMA QuietStep ==
  ASSUME Mappable, Mappable', outer' = outer,
         \A c \in Campaigns, j \in Candidates :
           local'[c][j].state = "COMPLETED" <=> local[c][j].state = "COMPLETED"
  PROVE  UNCHANGED Scores!vars
<1>1. Published' = Published
  BY DEF Published
<1>. QED
  BY <1>1, QuietLedger DEF Scores!vars

LEMMA StepRefines ==
  ASSUME Mappable, Mappable', NEW p \in Controllers, Step(p)
  PROVE  Scores!Next \/ UNCHANGED Scores!vars
<1>1. CASE UNCHANGED stores
  BY <1>1, QuietStep DEF stores
<1>2. CASE ReserveOuter(p) /\ ~UNCHANGED stores
  BY <1>2, ChargeStep DEF Scores!Next
<1>3. CASE CompleteOuter(p) /\ ~UNCHANGED stores
  BY <1>3, DecideStep DEF Scores!Next
<1>4. CASE CompleteWrite(p) /\ ~UNCHANGED stores
  BY <1>4, PublishStep DEF Scores!Next
<1>5. CASE ReserveCommit(p) /\ ~UNCHANGED stores
  <2>1. /\ outer' = outer /\ Camp(p) \in Campaigns /\ Cand(p) \in Candidates
        /\ local[Camp(p)][Cand(p)].state = "NONE"
        /\ local' = [local EXCEPT ![Camp(p)][Cand(p)] = [state |-> "RESERVED", result |-> None]]
    BY <1>5, ReserveCommitWrites DEF Mappable
  <2>2. \A c \in Campaigns, j \in Candidates :
          local'[c][j].state = "COMPLETED" <=> local[c][j].state = "COMPLETED"
    BY <2>1 DEF Mappable, TypeOK, StoresOK
  <2>. QED
    BY <2>1, <2>2, QuietStep
<1>6. CASE (WriteFailure(p) \/ WriteMetric(p)) /\ ~UNCHANGED stores
  BY <1>6, QuietStep, WriteFailureWrites, WriteMetricWrites DEF Mappable
<1>. QED
  BY <1>1, <1>2, <1>3, <1>4, <1>5, <1>6, Writes

\* The stores implement the abstract budget, for any number of racing controllers.
THEOREM Refinement == Spec => ImplementsPublicScores
<1>1. Init => Scores!Init
  <2>1. Init => Charged = {} /\ Published = {}
    BY DEF Init, Charged, Reserved, Published
  <2>2. Init => ChargedCandidates = {}
    BY <2>1 DEF ChargedCandidates
  <2>. QED
    BY <2>1, <2>2, OwnerOfOther DEF Scores!Init
<1>2. Mappable /\ Mappable' /\ [Next]_vars => [Scores!Next]_(Scores!vars)
  <2>1. ASSUME Mappable, Mappable', UNCHANGED vars PROVE UNCHANGED Scores!vars
    BY <2>1, QuietStep DEF vars
  <2>. QED
    BY <2>1, StepRefines DEF Next, Step
<1>. QED
  BY MappableHolds, <1>1, <1>2, PTL DEF Spec, ImplementsPublicScores, Scores!Spec
=============================================================================
