---------------------------- MODULE OuterQueries ----------------------------
(***************************************************************************)
(* Public-validation queries: the project-wide OuterQueryLedger, the       *)
(* private CampaignStore of every campaign, and the                        *)
(* DurableScientificLedgerAdapter that drives both for one promotion of    *)
(* run_scientific_campaign.                                                *)
(*                                                                         *)
(* The two SQLite databases cannot commit together, so one promotion is a  *)
(* sequence of transactions; every action below is one transaction (or one *)
(* read) of one controller process.  Any controller may die between two of *)
(* them, a later one may retry the same promotion, and nothing but the     *)
(* optimistic campaign revision keeps two controllers that were started on *)
(* one run directory apart.                                                *)
(***************************************************************************)
EXTENDS Naturals, FiniteSets

CONSTANTS
  Candidates,    \* candidate fingerprints
  Campaigns,     \* campaign ids (one private database each)
  Configs,       \* configuration digests
  Controllers,   \* controller processes
  Results,       \* digests of a scored (or failed) evidence bundle
  ConfigOf,      \* campaign -> configuration
  CampaignOf,    \* controller -> campaign
  MaxQueries,    \* project-wide limit (six in the code)
  LastSeed,      \* matched seeds are 0 .. LastSeed (two in the code)
  None

ASSUME ConfigOfAssumption == ConfigOf \in [Campaigns -> Configs]
ASSUME CampaignOfAssumption == CampaignOf \in [Controllers -> Campaigns]
ASSUME LimitAssumption == MaxQueries \in Nat \ {0} /\ LastSeed \in Nat
ASSUME NoneAssumption == None \notin Results \cup Candidates \cup Campaigns
ASSUME CandidatesAssumption == IsFiniteSet(Candidates) /\ IsFiniteSet(Configs)

Seeds == 0 .. LastSeed
RepresentativeSeed == 0

\* query_id hashes the promotion request, which names the configuration and the
\* candidate but not the campaign: campaigns of one configuration share it.
Queries == Configs \X Candidates
QueryOf(c, k) == <<ConfigOf[c], k>>

QueryStates == {"NONE", "RESERVED", "COMPLETED"}

VARIABLES
  outer,      \* project ledger: query -> latest event and reservation identity
  outerRev,   \* project ledger revision: events appended so far
  rev,        \* campaign -> revision of its database
  local,      \* campaign -> candidate -> latest validation_queries event
  metrics,    \* campaign -> candidate -> seed -> stored metric evidence
  failures,   \* campaign -> candidate -> recorded failure of the bundle
  pc,         \* controller -> next transaction
  job         \* controller -> local variables of the promotion in progress

vars == <<outer, outerRev, rev, local, metrics, failures, pc, job>>
stores == <<outer, outerRev, rev, local, metrics, failures>>

OuterRecord ==
  [state : QueryStates, campaign : Campaigns \cup {None},
   slot : BOOLEAN, at : Nat, result : Results \cup {None}]
LocalRecord == [state : QueryStates, result : Results \cup {None}]

Job == [cand : Candidates \cup {None}, snapRev : Nat, known : BOOLEAN, slot : BOOLEAN,
        expected : Nat, at : Nat, ok : BOOLEAN, result : Results \cup {None},
        done : BOOLEAN, seed : Nat]

ReservePhases == {"project", "reserve_rev", "reserve_local", "reserve_outer",
                  "reserve_commit", "confirm"}
FailurePhases == {"failure", "failure_rev", "failure_write"}
MetricPhases == {"metric", "metric_rev", "metric_write"}
CompletePhases == {"complete_rev", "complete_read", "complete_outer", "complete_write"}
Phases == {"idle", "score", "record", "prior"}
            \cup ReservePhases \cup FailurePhases \cup MetricPhases \cup CompletePhases

NoJob == [cand |-> None, snapRev |-> 0, known |-> FALSE, slot |-> FALSE,
          expected |-> 0, at |-> 0, ok |-> FALSE, result |-> None,
          done |-> FALSE, seed |-> 0]

Init ==
  /\ outer = [q \in Queries |-> [state |-> "NONE", campaign |-> None,
                                 slot |-> FALSE, at |-> 0, result |-> None]]
  /\ outerRev = 0
  /\ rev = [c \in Campaigns |-> 0]
  /\ local = [c \in Campaigns |-> [k \in Candidates |-> [state |-> "NONE", result |-> None]]]
  /\ metrics = [c \in Campaigns |-> [k \in Candidates |-> [s \in Seeds |-> None]]]
  /\ failures = [c \in Campaigns |-> [k \in Candidates |-> None]]
  /\ pc = [p \in Controllers |-> "idle"]
  /\ job = [p \in Controllers |-> NoJob]

-----------------------------------------------------------------------------
(* What the tables say.                                                    *)

\* Mutant of Reserved: a reservation is only found once it is completed.
ReservedCompleted(q) == outer[q].state = "COMPLETED"

Reserved(q) == outer[q].state # "NONE"
Charged == {q \in Queries : Reserved(q)}
ChargedCandidates == {q[2] : q \in Charged}
Used == Cardinality(Charged)
LocalUsed(c) == Cardinality({k \in Candidates : local[c][k].state # "NONE"})

Cand(p) == job[p].cand
Camp(p) == CampaignOf[p]
Query(p) == QueryOf(Camp(p), Cand(p))
Fresh(p) == rev[Camp(p)] = job[p].expected

Goto(p, next) == pc' = [pc EXCEPT ![p] = next]

\* The promotion ends: it returned, or an exception or a crash unwound it.
Leave(p) ==
  /\ pc' = [pc EXCEPT ![p] = "idle"]
  /\ job' = [job EXCEPT ![p] = NoJob]

\* A refused transaction rolls back and its exception unwinds the promotion.
Abort(p) == Leave(p) /\ UNCHANGED stores

ReadRevision(p, from, next) ==
  /\ pc[p] = from
  /\ job' = [job EXCEPT ![p].expected = rev[Camp(p)]]
  /\ Goto(p, next)
  /\ UNCHANGED stores

-----------------------------------------------------------------------------
(* DurableScientificLedgerAdapter.reserve                                  *)

\* run_scientific_campaign reads the ledger and asks the selector for an outer slot.
Snapshot(p, k) ==
  /\ pc[p] = "idle"
  /\ \/ k \in ChargedCandidates
     \/ Cardinality(ChargedCandidates) < MaxQueries
  /\ job' = [job EXCEPT ![p] = [NoJob EXCEPT !.cand = k, !.snapRev = outerRev,
                                             !.known = k \in ChargedCandidates]]
  /\ Goto(p, "project")
  /\ UNCHANGED stores

\* The projection before the reservation decides whether it consumes a slot.
ReadProject(p) ==
  /\ pc[p] = "project"
  /\ job' = [job EXCEPT ![p].slot = IF Reserved(Query(p)) THEN outer[Query(p)].slot
                                    ELSE Cand(p) \notin ChargedCandidates]
  /\ Goto(p, "reserve_rev")
  /\ UNCHANGED stores

ReserveRevision(p) == ReadRevision(p, "reserve_rev", "reserve_local")

\* reserve_public_query, first transaction: fail on local conflicts before the
\* project slot is spent; an existing local reservation is returned as it is.
ReserveLocal(p) ==
  LET known == local[Camp(p)][Cand(p)].state # "NONE"
  IN /\ pc[p] = "reserve_local"
     /\ IF Fresh(p) /\ (known \/ LocalUsed(Camp(p)) < MaxQueries)
        THEN /\ Goto(p, IF known THEN "confirm" ELSE "reserve_outer")
             /\ UNCHANGED <<stores, job>>
        ELSE Abort(p)

\* The stored reservation is this very request; metadata holds the slot flag.
SameReservation(p) ==
  /\ outer[Query(p)].campaign = Camp(p)
  /\ outer[Query(p)].slot = job[p].slot

\* Mutant of MayCharge: the limit is left to the caller's earlier snapshot.
MayChargeUncounted(p) == Cand(p) \notin ChargedCandidates

\* A new project reservation: its candidate is new and the limit is not reached.
MayCharge(p) == Cand(p) \notin ChargedCandidates /\ Used < MaxQueries

\* OuterQueryLedger.reserve: one project-wide transaction.
ReserveOuter(p) ==
  LET q == Query(p)
  IN /\ pc[p] = "reserve_outer"
     /\ \/ /\ Reserved(q)
           /\ IF SameReservation(p)
              THEN Goto(p, "reserve_commit") /\ UNCHANGED <<stores, job>>
              ELSE Abort(p)
        \/ /\ ~Reserved(q)
           /\ IF MayCharge(p)
              THEN /\ outer' = [outer EXCEPT ![q] =
                         [state |-> "RESERVED", campaign |-> Camp(p),
                          slot |-> job[p].slot, at |-> outerRev + 1, result |-> None]]
                   /\ outerRev' = outerRev + 1
                   /\ Goto(p, "reserve_commit")
                   /\ UNCHANGED <<rev, local, metrics, failures, job>>
              ELSE Abort(p)

\* reserve_public_query, last transaction: the campaign-local event.
ReserveCommit(p) ==
  LET c == Camp(p)
      k == Cand(p)
      known == local[c][k].state # "NONE"
  IN /\ pc[p] = "reserve_commit"
     /\ \/ /\ Fresh(p) /\ known
           /\ Goto(p, "confirm")
           /\ UNCHANGED <<stores, job>>
        \/ /\ Fresh(p) /\ ~known /\ LocalUsed(c) < MaxQueries
           /\ local' = [local EXCEPT ![c][k] = [state |-> "RESERVED", result |-> None]]
           /\ rev' = [rev EXCEPT ![c] = @ + 1]
           /\ Goto(p, "confirm")
           /\ UNCHANGED <<outer, outerRev, metrics, failures, job>>
        \/ /\ ~Fresh(p) \/ (~known /\ LocalUsed(c) >= MaxQueries)
           /\ Abort(p)

\* The projection after the reservation, and the caller's identity checks on it.
Confirm(p) ==
  LET r == outer[Query(p)]
      revisionFits == IF job[p].known THEN r.at <= job[p].snapRev
                      ELSE r.at > job[p].snapRev /\ r.slot
  IN /\ pc[p] = "confirm"
     /\ IF Reserved(Query(p)) /\ r.slot = job[p].slot /\ revisionFits
        THEN /\ job' = [job EXCEPT ![p].at = r.at]
             /\ Goto(p, "score")
             /\ UNCHANGED stores
        ELSE Abort(p)

\* The matched seeds are trained and scored; the bundle is complete or it failed.
Score(p) ==
  /\ pc[p] = "score"
  /\ \E ok \in BOOLEAN, r \in Results :
        job' = [job EXCEPT ![p].ok = ok, ![p].result = r]
  /\ Goto(p, "record")
  /\ UNCHANGED stores

-----------------------------------------------------------------------------
(* DurableScientificLedgerAdapter.complete                                 *)

\* _request_record: the reservation must still be the one that was granted.
ReadRecord(p) ==
  LET r == outer[Query(p)]
  IN /\ pc[p] = "record"
     /\ IF Reserved(Query(p)) /\ r.at = job[p].at /\ SameReservation(p)
        THEN /\ job' = [job EXCEPT ![p].done = (r.state = "COMPLETED")]
             /\ Goto(p, "prior")
             /\ UNCHANGED stores
        ELSE Abort(p)

\* Mutant of AfterSeed: one seed too many.
AfterSeedInclusive(s) == IF s <= LastSeed THEN "metric" ELSE "complete_rev"

\* The metrics of the other seeds are persisted in seed order, then the bundle.
AfterSeed(s) == IF s < LastSeed THEN "metric" ELSE "complete_rev"

\* Mutant of FailedBefore: the recorded failure is not looked up.
FailedBeforeIgnored(p) == Cand(p) = None

\* The bundle already has a recorded failure.
FailedBefore(p) == failures[Camp(p)][Cand(p)] # None

\* A failed bundle stays failed; a completed query cannot become a failure.
ReadPrior(p) ==
  /\ pc[p] = "prior"
  /\ \/ /\ job[p].ok /\ ~FailedBefore(p)
        /\ job' = [job EXCEPT ![p].seed = RepresentativeSeed + 1]
        /\ Goto(p, AfterSeed(RepresentativeSeed))
        /\ UNCHANGED stores
     \/ /\ ~job[p].ok /\ ~job[p].done
        /\ Goto(p, "failure")
        /\ UNCHANGED <<stores, job>>
     \/ /\ IF job[p].ok THEN FailedBefore(p) ELSE job[p].done
        /\ Abort(p)

\* _record_failed_completion: an equal recorded failure is accepted, a different one is not.
ReadFailure(p) ==
  /\ pc[p] = "failure"
  /\ IF FailedBefore(p)
     THEN Abort(p)
     ELSE Goto(p, "failure_rev") /\ UNCHANGED <<stores, job>>

FailureRevision(p) == ReadRevision(p, "failure_rev", "failure_write")

WriteFailure(p) ==
  LET c == Camp(p)
      k == Cand(p)
  IN /\ pc[p] = "failure_write"
     /\ IF Fresh(p) /\ failures[c][k] = None
        THEN /\ failures' = [failures EXCEPT ![c][k] = job[p].result]
             /\ rev' = [rev EXCEPT ![c] = @ + 1]
             /\ Leave(p)
             /\ UNCHANGED <<outer, outerRev, local, metrics>>
        ELSE Abort(p)

StoredMetric(p) == metrics[Camp(p)][Cand(p)][job[p].seed]

\* Mutant of SameMetric: any stored metric of the seed is taken for this attempt's.
AnyMetric(p) == StoredMetric(p) # None

\* The stored metric of the seed is the evidence this attempt computed.
SameMetric(p) == StoredMetric(p) = job[p].result

\* _record_nonrepresentative_metrics, one seed at a time.
ReadMetric(p) ==
  /\ pc[p] = "metric"
  /\ \/ /\ StoredMetric(p) = None
        /\ Goto(p, "metric_rev")
        /\ UNCHANGED <<stores, job>>
     \/ /\ StoredMetric(p) # None /\ SameMetric(p)
        /\ job' = [job EXCEPT ![p].seed = @ + 1]
        /\ Goto(p, AfterSeed(job[p].seed))
        /\ UNCHANGED stores
     \/ /\ StoredMetric(p) # None /\ ~SameMetric(p)
        /\ Abort(p)

MetricRevision(p) == ReadRevision(p, "metric_rev", "metric_write")

WriteMetric(p) ==
  LET c == Camp(p)
      k == Cand(p)
      s == job[p].seed
  IN /\ pc[p] = "metric_write"
     /\ IF Fresh(p) /\ metrics[c][k][s] = None
        THEN /\ metrics' = [metrics EXCEPT ![c][k][s] = job[p].result]
             /\ rev' = [rev EXCEPT ![c] = @ + 1]
             /\ job' = [job EXCEPT ![p].seed = @ + 1]
             /\ Goto(p, AfterSeed(s))
             /\ UNCHANGED <<outer, outerRev, local, failures>>
        ELSE Abort(p)

CompleteRevision(p) == ReadRevision(p, "complete_rev", "complete_read")

\* complete_public_query, first transaction: a retry must repeat the stored result.
CompleteRead(p) ==
  LET l == local[Camp(p)][Cand(p)]
      done == l.state = "COMPLETED"
      sameResult == /\ l.result = job[p].result
                    /\ metrics[Camp(p)][Cand(p)][RepresentativeSeed] = job[p].result
  IN /\ pc[p] = "complete_read"
     /\ IF Fresh(p) /\ l.state # "NONE" /\ (done => sameResult)
        THEN /\ job' = [job EXCEPT ![p].done = done]
             /\ Goto(p, "complete_outer")
             /\ UNCHANGED stores
        ELSE Abort(p)

\* The query is reserved and has no result yet.
Undecided(q) == outer[q].state = "RESERVED"

\* OuterQueryLedger.complete: the project result is final.
CompleteOuter(p) ==
  LET q == Query(p)
      r == outer[q]
      leaveOrCommit == IF job[p].done THEN Leave(p)
                       ELSE Goto(p, "complete_write") /\ UNCHANGED job
  IN /\ pc[p] = "complete_outer"
     /\ \/ /\ Undecided(q)
           /\ outer' = [outer EXCEPT ![q].state = "COMPLETED", ![q].result = job[p].result]
           /\ outerRev' = outerRev + 1
           /\ leaveOrCommit
           /\ UNCHANGED <<rev, local, metrics, failures>>
        \/ /\ r.state = "COMPLETED" /\ r.result = job[p].result
           /\ leaveOrCommit
           /\ UNCHANGED stores
        \/ /\ r.state = "NONE" \/ (r.state = "COMPLETED" /\ r.result # job[p].result)
           /\ Abort(p)

\* complete_public_query, last transaction: result event and representative metric.
CompleteWrite(p) ==
  LET c == Camp(p)
      k == Cand(p)
      l == local[c][k]
  IN /\ pc[p] = "complete_write"
     /\ IF Fresh(p) /\ l.state = "RESERVED" /\ metrics[c][k][RepresentativeSeed] = None
        THEN /\ local' = [local EXCEPT ![c][k] = [state |-> "COMPLETED", result |-> job[p].result]]
             /\ metrics' = [metrics EXCEPT ![c][k][RepresentativeSeed] = job[p].result]
             /\ rev' = [rev EXCEPT ![c] = @ + 1]
             /\ Leave(p)
             /\ UNCHANGED <<outer, outerRev, failures>>
        ELSE Abort(p)

\* The controller process dies between two transactions.
Crash(p) == pc[p] # "idle" /\ Abort(p)

-----------------------------------------------------------------------------

Reserve(p) ==
  \/ \E k \in Candidates : Snapshot(p, k)
  \/ ReadProject(p) \/ ReserveRevision(p) \/ ReserveLocal(p)
  \/ ReserveOuter(p) \/ ReserveCommit(p) \/ Confirm(p)

Complete(p) ==
  \/ ReadRecord(p) \/ ReadPrior(p)
  \/ ReadFailure(p) \/ FailureRevision(p) \/ WriteFailure(p)
  \/ ReadMetric(p) \/ MetricRevision(p) \/ WriteMetric(p)
  \/ CompleteRevision(p) \/ CompleteRead(p) \/ CompleteOuter(p) \/ CompleteWrite(p)

Next == \E p \in Controllers : Reserve(p) \/ Score(p) \/ Complete(p) \/ Crash(p)

Spec == Init /\ [][Next]_vars

-----------------------------------------------------------------------------
(* Properties.                                                             *)

StoresOK ==
  /\ outer \in [Queries -> OuterRecord]
  /\ outerRev \in Nat
  /\ rev \in [Campaigns -> Nat]
  /\ local \in [Campaigns -> [Candidates -> LocalRecord]]
  /\ metrics \in [Campaigns -> [Candidates -> [Seeds -> Results \cup {None}]]]
  /\ failures \in [Campaigns -> [Candidates -> Results \cup {None}]]

ControlOK ==
  /\ pc \in [Controllers -> Phases]
  /\ job \in [Controllers -> Job]
  /\ \A p \in Controllers :
       /\ pc[p] # "idle" => job[p].cand \in Candidates
       /\ pc[p] \notin {"idle", "score"} \cup ReservePhases => job[p].result \in Results
       /\ pc[p] \in MetricPhases => job[p].seed \in Seeds

\* Type invariant: every column and every local variable holds a value of its type, and
\* the candidate, result and seed of a promotion are set in the phases that use them.
TypeOK == StoresOK /\ ControlOK

\* However many controllers of however many campaigns race and die, the project never
\* spends more public queries than its limit, and never spends two on one candidate.
QueryBudget ==
  /\ Used <= MaxQueries
  /\ \A q, r \in Charged : q[2] = r[2] => q = r

\* A campaign never believes in a public query the project did not charge to that same
\* campaign, nor in a result other than the one the project recorded as final.
LocalBackedByProject ==
  \A c \in Campaigns, k \in Candidates :
    LET l == local[c][k]
        o == outer[QueryOf(c, k)]
    IN l.state # "NONE" =>
         /\ o.state # "NONE" /\ o.campaign = c
         /\ l.state = "COMPLETED" => o.state = "COMPLETED" /\ o.result = l.result

\* A locally completed query carries one evidence bundle: the metrics of every matched
\* seed come from the attempt whose result was published, never from two attempts.
BundleCoherent ==
  \A c \in Campaigns, k \in Candidates :
    local[c][k].state = "COMPLETED" =>
      \A s \in Seeds : metrics[c][k][s] = local[c][k].result

\* What the two databases say of a query agrees, and so does the evidence behind it: no two
\* attempts and no two campaigns are ever mixed, wherever a controller died between the
\* transactions of one promotion.
Coherent == LocalBackedByProject /\ BundleCoherent

Sole(c) == \A p, q \in Controllers : CampaignOf[p] = c /\ CampaignOf[q] = c => p = q

\* In a campaign with one controller, a bundle recorded as failed is never also published
\* as successful ("failed matched-seed bundle cannot later become successful").
FailedNeverPublished ==
  \A c \in Campaigns, k \in Candidates :
    Sole(c) /\ failures[c][k] # None => local[c][k].state # "COMPLETED"

KeepsEvidence ==
  /\ \A q \in Queries :
       /\ outer[q].state # "NONE" => /\ outer'[q].state # "NONE"
                                     /\ outer'[q].campaign = outer[q].campaign
                                     /\ outer'[q].at = outer[q].at
       /\ outer[q].state = "COMPLETED" => outer'[q] = outer[q]
  /\ \A c \in Campaigns, k \in Candidates :
       /\ failures[c][k] # None => failures'[c][k] = failures[c][k]
       /\ \A s \in Seeds : metrics[c][k][s] # None => metrics'[c][k][s] = metrics[c][k][s]

\* No step rewrites evidence: a project reservation keeps its owner and revision, a
\* project result, a stored metric and a recorded failure are final.
EvidenceFinal == [][KeepsEvidence]_vars

-----------------------------------------------------------------------------
(* The two databases implement the abstract budget of PublicScores.        *)

OwnerOf(k) ==
  IF k \in ChargedCandidates
  THEN outer[CHOOSE q \in Charged : q[2] = k].campaign ELSE None

VerdictOf(k) ==
  IF k \in ChargedCandidates
  THEN outer[CHOOSE q \in Charged : q[2] = k].result ELSE None

Published == {k \in Candidates : \E c \in Campaigns : local[c][k].state = "COMPLETED"}

Scores == INSTANCE PublicScores WITH
  owner <- [k \in Candidates |-> OwnerOf(k)],
  verdict <- [k \in Candidates |-> VerdictOf(k)],
  published <- Published

\* Every transaction of every controller is a step of the abstract budget or changes
\* nothing it can see: crashes and retries never charge, decide or publish twice.
ImplementsPublicScores == Scores!Spec

=============================================================================
