---------------------------- MODULE ScienceProofs ----------------------------
(***************************************************************************)
(* For every set of limits, any number of candidates, faults and deaths:   *)
(* the types and the launch cap, that an incumbent was earned and the best *)
(* one is handed over, that convergence was measured, that a completed     *)
(* science leaves no public query undecided, what a bundle may be cut for, *)
(* that a resumed command reconciles its count, and that it comes to the   *)
(* same verdicts.                                                          *)
(*                                                                         *)
(* A command may die with a query charged, and the next one runs all again *)
(* from the first candidate.  If the query is that candidate's, the new    *)
(* command is bound to come back to it, since all that the verdicts on the *)
(* folds depend on is retained.  If it is another candidate's, the new     *)
(* command counts at most one launch more than the records of the first    *)
(* candidate stand for, and the folds of the other one are two more, so    *)
(* that the cursors cannot agree.                                          *)
(*                                                                         *)
(* The rest is built on IInv in layers: what is retained of each candidate *)
(* (RInv); what the loop has counted, which is what was charged unless a   *)
(* launch strayed or an earlier command left one behind (LInv); and the    *)
(* verdict due to the first candidate, a function of what is durable that  *)
(* no step changes once it is settled (VInv, FateKept).                    *)
(***************************************************************************)
EXTENDS Science, FiniteSetTheorems, TLAPS

-----------------------------------------------------------------------------
(* What the command knows.                                                 *)

\* A candidate whose query is charged and neither decided nor recorded as failed.
Undecided(c) == query[c] = "charged" /\ failure[c] = 0

\* Where the command is and what the rung in hand can be.
After == {"close", "follow", "end", "complete"}
RungAt ==
  /\ phase = "reserve" => job.rung = FoldA
  /\ phase = "settle" => job.rung \in Seeds /\ (~job.cut => job.rung = LastSeed)
  /\ job.cut => phase \in After \cup {"settle"}
  /\ phase \in {"down", "closed", "refused"} => job = FreshJob

\* A score is that of a charged training; a charged query is that of a candidate with both folds.
ScoreAt ==
  /\ \A c \in Candidates, r \in Rungs :
       /\ record[c][r] # 0 => exec[c][r] = "trained"
       /\ exec[c][r] = "trained" => <<c, r>> \in charged
  /\ \A c \in Candidates : query[c] # "none" => record[c][FoldB] # 0 /\ record[c][FoldA] # 0

\* The rungs before the one in hand have their scores.
BehindAt ==
  /\ phase \notin {"follow", "end", "complete"} =>
       \A r \in Rungs : r < job.rung => record[job.iter][r] # 0
  /\ phase \in {"judge", "reserve"} \/ (phase = "settle" /\ ~job.cut) =>
       record[job.iter][job.rung] # 0

IncumbentAt ==
  job.incumbent # Fallback =>
    job.incumbent < job.iter \/ (job.incumbent = job.iter /\ phase \in After)

\* The first candidate of a command is always counted alike, with the time of its runs on record.
Seconds(r) == limits.seconds[First][r]
Spent(n) ==
  (IF n >= 1 THEN Seconds(1) ELSE 0) + (IF n >= 2 THEN Seconds(2) ELSE 0) +
  (IF n >= 3 THEN Seconds(3) ELSE 0) + (IF n >= 4 THEN Seconds(4) ELSE 0) +
  (IF n >= 5 THEN Seconds(5) ELSE 0)
FirstAt ==
  job.iter = First /\ phase \notin {"follow", "end", "complete"} =>
    /\ phase = "admit" => job.used = job.rung - 1
    /\ phase \in {"call", "judge", "reserve"} => job.used = job.rung
    /\ phase \in {"settle", "close"} => job.used <= job.rung
    /\ phase \in {"admit", "call"} => job.elapsed = limits.elapsed + Spent(job.rung - 1)
    /\ phase \in {"judge", "reserve"} => job.elapsed = limits.elapsed + Spent(job.rung)
    /\ phase \notin After => job.incumbent = Fallback

\* Matched seeds are run for a charged query.
ChargedAt ==
  phase \in {"admit", "call", "judge", "settle"} /\ job.rung \in Seeds => query[job.iter] # "none"

Qualified ==
  /\ OuterEligible(First = 1, record[First], FallbackEvidence, FallbackEvidence)
  /\ limits.launches >= 5
  /\ limits.elapsed + Spent(2) + 3 * P95 + Reserve <= Wall
QualifiedAt ==
  /\ query[First] # "none" => Qualified
  /\ phase = "reserve" /\ job.iter = First => Qualified

UndecidedAt ==
  /\ phase = "close" => ~Undecided(job.iter)
  /\ job.iter > First \/ phase \in {"follow", "end", "complete"} =>
       \A c \in Candidates : Undecided(c) =>
         c = job.iter /\ job.rung \in Seeds /\ phase \in {"admit", "call", "judge", "settle"}

IInv == RungAt /\ ScoreAt /\ BehindAt /\ IncumbentAt /\ FirstAt /\ ChargedAt /\ QualifiedAt /\ UndecidedAt

-----------------------------------------------------------------------------
(* Arithmetic of rungs, of scores and of the admission.                    *)

\* What the constants are, as numbers.
LEMMA Settings ==
  /\ First \in Nat /\ First # 0 /\ MaxIterations \in Nat /\ First <= MaxIterations
  /\ Wall \in Nat /\ Reserve \in Nat /\ P95 \in Nat
BY ScienceAssumption

USE Settings DEF Candidates, Fallback

\* The rungs are numbered in their order.
LEMMA RungNumbers ==
  /\ FoldB = 1 /\ FoldA = 2 /\ FirstSeed = 3 /\ LastSeed = 5
  /\ Folds = {1, 2} /\ Seeds = 3 .. 5 /\ Rungs = 1 .. 5
BY DEF FoldB, FoldA, FirstSeed, LastSeed, Folds, Seeds, Rungs

\* There are three matched seeds.
LEMMA SeedCount == Cardinality(Seeds) = 3
<1>0. 3 \in Int /\ 5 \in Int
  OBVIOUS
<1>1. Cardinality(3 .. 5) = IF 3 > 5 THEN 0 ELSE 5 - 3 + 1
  BY <1>0, FS_Interval, Zenon
<1> QED
  BY <1>1, RungNumbers

\* Totals of scores are natural numbers.
LEMMA TotalsTyped ==
  ASSUME NEW e \in [Rungs -> Nat]
  PROVE  FoldTotal(e) \in Nat /\ SeedTotal(e) \in Nat
BY RungNumbers DEF FoldTotal, SeedTotal

\* The official fallback has evidence like any candidate.
LEMMA FallbackTyped == FallbackEvidence \in [Rungs -> Nat]
BY DEF FallbackEvidence

\* Evidence of a candidate or of the fallback is a score for each rung.
LEMMA EvidenceTyped ==
  ASSUME TypeOK, NEW c \in Candidates \cup {Fallback}
  PROVE  Evidence(c) \in [Rungs -> Nat]
BY FallbackTyped DEF TypeOK, Evidence

\* What is admitted by the time the loop adds up.
LEMMA OneFits ==
  ASSUME job.elapsed \in Nat
  PROVE  TimeReason(1, FALSE) = "none" <=> job.elapsed + P95 + Reserve <= Wall
<1>1. job.elapsed + 1 * P95 = job.elapsed + P95
  OBVIOUS
<1> QED
  BY <1>1 DEF TimeReason

\* The same for the three launches of a bundle.
LEMMA BundleFitsTime ==
  ASSUME job.elapsed \in Nat
  PROVE  TimeReason(3, FALSE) = "none" <=> job.elapsed + 3 * P95 + Reserve <= Wall
BY DEF TimeReason

\* What admission answers is a reason to stop.
LEMMA AdmissionTyped == Admission \in Stops /\ BundleAdmission \in Stops
<1>1. TimeReason(1, job.rung > FirstSeed) \in Stops /\ TimeReason(3, FALSE) \in Stops
  BY DEF TimeReason, Stops
<1> QED
  BY <1>1, SeedCount DEF Admission, BundleAdmission, Stops

\* Why no other candidate follows; another one follows only if there is one.
LEMMA TerminalTyped ==
  ASSUME TypeOK
  PROVE  Terminal \in Stops /\ (Terminal = "none" => job.iter < MaxIterations)
<1>0. job.iter \in Nat /\ job.stop \in Stops
  BY DEF TypeOK, Job
<1>1. CASE Converged(job.conv)
  <2>1. Terminal = "converged"
    BY <1>1, Zenon DEF Terminal, ShouldStop
  <2> QED
    BY <2>1 DEF Stops
<1>2. CASE ~Converged(job.conv) /\ ShouldStop(job.conv)
  <2>1. Terminal = "not_promotable"
    BY <1>2, Zenon DEF Terminal
  <2> QED
    BY <2>1 DEF Stops
<1>3. CASE ~ShouldStop(job.conv) /\ job.iter >= MaxIterations
  <2>1. ~Converged(job.conv) /\ ~(job.iter < MaxIterations)
    BY <1>0, <1>3 DEF ShouldStop
  <2>2. Terminal = "iteration_cap"
    BY <1>3, <2>1, Zenon DEF Terminal
  <2> QED
    BY <2>2 DEF Stops
<1>4. CASE ~ShouldStop(job.conv) /\ job.iter < MaxIterations
  <2>1. ~Converged(job.conv) /\ ~(job.iter >= MaxIterations)
    BY <1>0, <1>4 DEF ShouldStop
  <2>2. Terminal = IF job.used >= limits.launches THEN "launch_cap"
                   ELSE IF job.stop # "none" THEN job.stop
                   ELSE IF Cardinality(Queried) >= MaxQueries THEN "query_limit"
                   ELSE IF clock = Expired THEN "hard_deadline"
                   ELSE IF clock >= InReserve THEN "reserve"
                   ELSE "none"
    BY <1>4, <2>1, Zenon DEF Terminal
  <2> QED
    BY <1>0, <1>4, <2>2 DEF Stops
<1> QED
  BY <1>0, <1>1, <1>2, <1>3, <1>4

\* The verdict on a decided bundle, and what a promotion means.
LEMMA DecideFacts ==
  ASSUME NEW root \in BOOLEAN, NEW e, NEW i, NEW f
  PROVE  /\ Decide(root, e, i, f) \in Measured
         /\ Decide(root, e, i, f) \in Promotions =>
              OuterEligible(root, e, i, f) /\ Replaces(e, i)
BY DEF Decide, Measured, Promotions

-----------------------------------------------------------------------------
(* How the hand of the command changes.                                    *)

Hand == phase \in Phases /\ job \in Job /\ job.used <= limits.launches

Kept ==
  /\ job'.iter = job.iter /\ job'.rung = job.rung /\ job'.used = job.used
  /\ job'.incumbent = job.incumbent

\* The iteration ends, the bundle is given up, the next rung is taken, or the command is over.
ToClose == phase' = "close" /\ Kept /\ job'.cut = job.cut
ToSettle == phase' = "settle" /\ Kept /\ job'.cut
ToNext ==
  /\ phase' = "admit" /\ job'.rung = job.rung + 1 /\ job'.iter = job.iter /\ job'.used = job.used
  /\ job'.incumbent = job.incumbent /\ job'.cut = job.cut /\ job'.elapsed = job.elapsed
Down == phase' = "down" /\ job' = FreshJob

\* The types, in parts.
Stored ==
  /\ exec \in [Candidates -> [Rungs -> {"none", "trained", "failed"}]]
  /\ charged \subseteq Candidates \X Rungs
  /\ record \in [Candidates -> [Rungs -> Nat]]
  /\ query \in [Candidates -> {"none", "charged", "published"}]
  /\ failure \in [Candidates -> 0 .. LastSeed]
  /\ lineage \in [Candidates -> {"none", "retained", "fresh", "stale"}]
Set == limits \in Limits /\ clock \in Clock
Seen ==
  /\ verdict \in [Candidates -> Verdicts]
  /\ starved \subseteq Candidates \X Causes /\ strayed \in BOOLEAN /\ raised \subseteq Errors
  /\ faults \in 0 .. MaxFaults /\ deaths \in 0 .. MaxDeaths

\* Nothing is lost by taking the types apart.
LEMMA TypeParts == TypeOK <=> Stored /\ Set /\ Hand /\ Seen
BY DEF TypeOK, Stored, Set, Hand, Seen

\* The numbers in the settings and in the hand.
LEMMA Numbers ==
  ASSUME TypeOK
  PROVE  /\ limits.launches \in Nat /\ limits.elapsed \in Nat
         /\ job.iter \in Candidates /\ job.iter \in Nat /\ job.rung \in 1 .. 5 /\ job.rung \in Rungs
         /\ job.used \in Nat /\ job.elapsed \in Nat /\ job.cut \in BOOLEAN
         /\ job.incumbent \in Candidates \cup {Fallback} /\ job.conv \in Convergence
         /\ job.stop \in Stops
         /\ record[job.iter] \in [Rungs -> Nat]
<1>0. job \in Job /\ limits \in Limits /\ record \in [Candidates -> [Rungs -> Nat]]
  BY DEF TypeOK
<1>1. limits.launches \in Nat /\ limits.elapsed \in Nat
  BY <1>0, ScienceAssumption
<1>2. /\ job.iter \in Candidates /\ job.rung \in Rungs /\ job.used \in Nat /\ job.elapsed \in Nat
      /\ job.cut \in BOOLEAN /\ job.incumbent \in Candidates \cup {Fallback}
      /\ job.conv \in Convergence /\ job.stop \in Stops
  BY <1>0 DEF Job
<1>3. job.iter \in Nat /\ job.rung \in 1 .. 5
  BY <1>2, RungNumbers
<1>4. record[job.iter] \in [Rungs -> Nat]
  BY <1>0, <1>2
<1> QED
  BY <1>1, <1>2, <1>3, <1>4

\* The time of each run that is good.
LEMMA SecondsTyped ==
  ASSUME TypeOK
  PROVE  \A c \in Candidates, r \in Rungs : limits.seconds[c][r] \in Nat
<1>1. limits \in Limits
  BY DEF TypeOK
<1>2. limits.seconds \in [Candidates -> [Rungs -> Nat]]
  BY <1>1, ScienceAssumption
<1> QED
  BY <1>2

\* The time that the first candidate takes, rung by rung.
LEMMA SpentRuns ==
  ASSUME TypeOK
  PROVE  /\ Spent(0) = 0 /\ Spent(1) <= Spent(2)
         /\ \A n \in 0 .. 5 : Spent(n) \in Nat
         /\ \A n \in 1 .. 5 : Seconds(n) \in Nat /\ Spent(n) = Spent(n - 1) + Seconds(n)
<1>1. \A n \in 1 .. 5 : Seconds(n) \in Nat
  <2>1. First \in Candidates /\ Rungs = 1 .. 5
    BY RungNumbers
  <2> QED
    BY <2>1, SecondsTyped DEF Seconds
<1>2. Seconds(1) \in Nat /\ Seconds(2) \in Nat /\ Seconds(3) \in Nat /\ Seconds(4) \in Nat /\ Seconds(5) \in Nat
  BY <1>1
<1>3. /\ Spent(0) = 0 /\ Spent(1) = Seconds(1) /\ Spent(2) = Seconds(1) + Seconds(2)
      /\ Spent(3) = Seconds(1) + Seconds(2) + Seconds(3)
      /\ Spent(4) = Seconds(1) + Seconds(2) + Seconds(3) + Seconds(4)
      /\ Spent(5) = Seconds(1) + Seconds(2) + Seconds(3) + Seconds(4) + Seconds(5)
  BY <1>2 DEF Spent
<1>4. ASSUME NEW n \in 1 .. 5 PROVE Spent(n) = Spent(n - 1) + Seconds(n)
  <2>1. n \in {1, 2, 3, 4, 5}
    OBVIOUS
  <2> QED
    BY <1>2, <1>3, <2>1
<1>5. ASSUME NEW n \in 0 .. 5 PROVE Spent(n) \in Nat
  <2>1. n \in {0, 1, 2, 3, 4, 5}
    OBVIOUS
  <2> QED
    BY <1>2, <1>3, <2>1
<1> QED
  BY <1>1, <1>2, <1>3, <1>4, <1>5

\* A command starts without anything in hand.
LEMMA FreshTyped ==
  ASSUME TypeOK
  PROVE  /\ FreshJob \in Job
         /\ FreshJob.iter = First /\ FreshJob.rung = FoldB /\ FreshJob.used = 0
         /\ FreshJob.elapsed = limits.elapsed /\ FreshJob.incumbent = Fallback /\ ~FreshJob.cut
<1>1. First \in Candidates /\ FoldB \in Rungs /\ limits.elapsed \in Nat
  BY Numbers, RungNumbers
<1>2. SeedTotal(FallbackEvidence) \in Nat
  BY FallbackTyped, TotalsTyped
<1>3. InitialConvergence(SeedTotal(FallbackEvidence)) \in Convergence
  BY <1>2 DEF InitialConvergence, Convergence
<1>4. "none" \in Stops
  BY DEF Stops
<1> QED
  BY <1>1, <1>3, <1>4 DEF FreshJob, Job

\* Convergence stays well typed.
LEMMA ConvergenceTyped ==
  ASSUME NEW c \in Convergence, NEW n \in Nat
  PROVE  UnmeasuredUpdate(c) \in Convergence /\ MeasuredUpdate(c, n) \in Convergence
<1>1. c.best \in Nat /\ c.flat \in Nat /\ c.blank \in Nat /\ c.done \in Nat
  BY DEF Convergence
<1>2. MeasuredUpdate(c, n) \in Convergence
  BY <1>1 DEF Convergence, MeasuredUpdate
<1>3. c.blank + 1 \in Nat /\ c.done + 1 \in Nat
  BY <1>1
<1> DEFINE b == c.blank + 1
           d == c.done + 1
<1>4. UnmeasuredUpdate(c) = [c EXCEPT !.blank = b, !.done = d]
  BY DEF UnmeasuredUpdate
<1> HIDE DEF b, d
<1>5. b \in Nat /\ d \in Nat
  BY <1>3 DEF b, d
<1>6. [c EXCEPT !.blank = b, !.done = d] \in Convergence
  BY <1>5 DEF Convergence
<1> QED
  BY <1>2, <1>4, <1>6

\* What the end of an iteration does to the hand of the command, measured or not.
LEMMA FinishHand ==
  ASSUME TypeOK, NEW o \in Verdicts, NEW conv \in Convergence, NEW stop \in Stops,
         NEW i \in Candidates \cup {Fallback}, Finish(o, conv, stop, i)
  PROVE  /\ phase' = "close" /\ job' \in Job /\ verdict' \in [Candidates -> Verdicts]
         /\ job'.iter = job.iter /\ job'.rung = job.rung /\ job'.used = job.used
         /\ job'.cut = job.cut /\ job'.incumbent = i
         /\ UNCHANGED <<setting, starved, strayed, raised, faults, deaths>>
<1>0. job \in Job /\ verdict \in [Candidates -> Verdicts]
  BY DEF TypeOK
<1>1. job' = [job EXCEPT !.conv = conv, !.stop = stop, !.incumbent = i]
  BY DEF Finish
<1> QED
  BY <1>0, <1>1 DEF Finish, Job

\* An iteration that ends without an outer primary keeps the incumbent.
LEMMA UnmeasuredHand ==
  ASSUME TypeOK, NEW o \in Verdicts, NEW stop \in Stops, FinishUnmeasured(o, stop)
  PROVE  /\ ToClose /\ job' \in Job /\ verdict' \in [Candidates -> Verdicts]
         /\ UNCHANGED <<setting, starved, strayed, raised, faults, deaths>>
<1>1. UnmeasuredUpdate(job.conv) \in Convergence /\ job.incumbent \in Candidates \cup {Fallback}
  BY Numbers, ConvergenceTyped
<1>2. Finish(o, UnmeasuredUpdate(job.conv), stop, job.incumbent)
  BY DEF FinishUnmeasured
<1> QED
  BY <1>1, <1>2, FinishHand DEF ToClose, Kept

\* A bundle that is given up keeps its place.
LEMMA GiveUpHand ==
  ASSUME TypeOK, NEW n \in Nat, NEW stop \in Stops, GiveUp(n, stop)
  PROVE  ToSettle /\ job' \in Job
<1>0. job \in Job
  BY DEF TypeOK
<1> QED
  BY <1>0 DEF GiveUp, ToSettle, Kept, Job

\* The next rung changes nothing else.
LEMMA NextRungHand ==
  ASSUME TypeOK, job.rung < 5, NextRung, phase' = "admit"
  PROVE  ToNext /\ job' \in Job /\ UNCHANGED looks
<1>0. job \in Job
  BY DEF TypeOK
<1>1. job.rung + 1 \in Rungs
  BY Numbers, RungNumbers
<1> QED
  BY <1>0, <1>1 DEF NextRung, ToNext, Job

\* A run that raised ends its iteration on the folds and its bundle on the seeds.
LEMMA RunFailedHand ==
  ASSUME TypeOK, RunFailed
  PROVE  /\ job' \in Job /\ verdict' \in [Candidates -> Verdicts]
         /\ job.rung \in Folds => ToClose
         /\ job.rung \notin Folds => ToSettle
<1>a. job \in Job /\ verdict \in [Candidates -> Verdicts]
  BY DEF TypeOK
<1>b. job.elapsed + P95 \in Nat /\ job.stop \in Stops
  BY Numbers
<1>c. "callback_failed" \in Verdicts
  BY DEF Verdicts
<1>0. job \in Job /\ verdict \in [Candidates -> Verdicts] /\ job.elapsed + P95 \in Nat
      /\ job.stop \in Stops /\ "callback_failed" \in Verdicts
  BY <1>a, <1>b, <1>c
<1>1. CASE job.rung \in Folds
  <2>1. UnmeasuredUpdate(job.conv) \in Convergence
    BY Numbers, ConvergenceTyped
  <2> DEFINE conv == UnmeasuredUpdate(job.conv)
  <2>2. job' = [job EXCEPT !.elapsed = job.elapsed + P95, !.conv = conv] /\ phase' = "close"
        /\ verdict' = [verdict EXCEPT ![job.iter] = "callback_failed"]
    BY <1>1 DEF RunFailed
  <2> HIDE DEF conv
  <2>3. job' \in Job /\ ToClose
    BY <1>0, <2>1, <2>2 DEF Job, ToClose, Kept, conv
  <2> QED
    BY <1>0, <1>1, <2>2, <2>3
<1>2. CASE job.rung \notin Folds
  <2>1. GiveUp(job.elapsed + P95, job.stop) /\ verdict' = verdict
    BY <1>2 DEF RunFailed
  <2> QED
    BY <1>0, <1>2, <2>1, GiveUpHand
<1> QED
  BY <1>1, <1>2

\* An error ends the command.
LEMMA RaiseHand ==
  ASSUME TypeOK, NEW e \in Errors, Raise(e)
  PROVE  /\ Down /\ job' \in Job /\ raised' \subseteq Errors
         /\ UNCHANGED <<setting, verdict, starved, strayed, faults, deaths>>
BY FreshTyped DEF Raise, Down, TypeOK

-----------------------------------------------------------------------------
(* Steps that leave the records and the queries alone.                     *)

Frame == UNCHANGED <<exec, charged, record, query, failure, limits>>

\* What the first candidate is counted with depends on the campaign, not on the step.
LEMMA FirstNext ==
  ASSUME limits' = limits
  PROVE  FirstAt' <=>
           (job'.iter = First /\ phase' \notin {"follow", "end", "complete"} =>
              /\ phase' = "admit" => job'.used = job'.rung - 1
              /\ phase' \in {"call", "judge", "reserve"} => job'.used = job'.rung
              /\ phase' \in {"settle", "close"} => job'.used <= job'.rung
              /\ phase' \in {"admit", "call"} => job'.elapsed = limits.elapsed + Spent(job'.rung - 1)
              /\ phase' \in {"judge", "reserve"} => job'.elapsed = limits.elapsed + Spent(job'.rung)
              /\ phase' \notin After => job'.incumbent = Fallback)
BY DEF FirstAt, Spent, Seconds, After

\* What is known of the scores and of the first candidate does not depend on the hand.
LEMMA FrameKeeps ==
  ASSUME Frame
  PROVE  /\ Qualified' <=> Qualified
         /\ \A c \in Candidates : Undecided(c)' <=> Undecided(c)
         /\ FreshJob' = FreshJob /\ (ScoreAt' <=> ScoreAt)
BY DEF Frame, Qualified, Spent, Seconds, Undecided, FreshJob, ScoreAt

\* The iteration ends on its folds.
LEMMA CloseStep ==
  ASSUME TypeOK, IInv, Frame, ToClose, phase \in {"admit", "call", "judge"}, job.rung \in Folds,
         ~Undecided(job.iter)
  PROVE  IInv'
<1> USE DEF IInv, ToClose, Kept, After
<1>0. /\ job.iter \in Candidates /\ job.iter \in Nat /\ job.rung \in {1, 2} /\ job.used \in Nat
      /\ job'.iter = job.iter /\ job'.rung = job.rung /\ Rungs = 1 .. 5
  BY Numbers, RungNumbers
<1>1. RungAt' /\ IncumbentAt'
  BY DEF RungAt, IncumbentAt
<1>2. ScoreAt' /\ BehindAt'
  BY <1>0, FrameKeeps DEF BehindAt, Frame
<1>3. FirstAt'
  BY <1>0 DEF FirstAt, Frame, Spent, Seconds
<1>4. QualifiedAt' /\ ChargedAt'
  <2>1. QualifiedAt'
    BY FrameKeeps DEF QualifiedAt, Frame
  <2>2. phase' = "close"
    OBVIOUS
  <2>3. ChargedAt'
    BY <2>2 DEF ChargedAt
  <2> QED
    BY <2>1, <2>3
<1>5. UndecidedAt'
  BY <1>0, FrameKeeps, RungNumbers DEF UndecidedAt
<1> QED
  BY <1>1, <1>2, <1>3, <1>4, <1>5

\* The bundle is given up.
LEMMA SettleStep ==
  ASSUME TypeOK, IInv, Frame, ToSettle, phase \in {"admit", "call"}, job.rung \in Seeds
  PROVE  IInv'
<1> USE DEF IInv, ToSettle, Kept, After
<1>0. /\ job.iter \in Candidates /\ job.iter \in Nat /\ job.rung \in 3 .. 5 /\ job.used \in Nat
      /\ job'.iter = job.iter /\ job'.rung = job.rung /\ Rungs = 1 .. 5
  BY Numbers, RungNumbers
<1>1. RungAt' /\ IncumbentAt'
  BY DEF RungAt, IncumbentAt
<1>2. ScoreAt' /\ BehindAt'
  BY <1>0, FrameKeeps DEF BehindAt, Frame
<1>3. FirstAt'
  BY <1>0 DEF FirstAt, Frame, Spent, Seconds
<1>4. QualifiedAt' /\ ChargedAt'
  <2>1. QualifiedAt'
    BY FrameKeeps DEF QualifiedAt, Frame
  <2>2. query[job.iter] # "none"
    BY DEF ChargedAt
  <2>3. query'[job'.iter] # "none"
    BY <1>0, <2>2 DEF Frame
  <2>4. ChargedAt'
    BY <2>3 DEF ChargedAt
  <2> QED
    BY <2>1, <2>4
<1>5. UndecidedAt'
  BY <1>0, FrameKeeps DEF UndecidedAt
<1> QED
  BY <1>1, <1>2, <1>3, <1>4, <1>5

\* The next rung is taken on its own.
LEMMA NextStep ==
  ASSUME TypeOK, IInv, Frame, ToNext, phase = "judge", job.rung # FoldA, job.rung < 5
  PROVE  IInv'
<1> USE DEF IInv, ToNext, After
<1>0. /\ job.iter \in Candidates /\ job.iter \in Nat /\ job.rung \in {1, 3, 4} /\ job.used \in Nat
      /\ job.elapsed \in Nat /\ job'.iter = job.iter /\ job'.rung = job.rung + 1 /\ Rungs = 1 .. 5
  BY Numbers, RungNumbers
<1>1. RungAt' /\ IncumbentAt'
  BY DEF RungAt, IncumbentAt
<1>2. ScoreAt' /\ BehindAt'
  BY <1>0, FrameKeeps DEF BehindAt, Frame
<1>3. FirstAt'
  BY <1>0, Numbers, SpentRuns DEF FirstAt, Frame, Spent, Seconds
<1>4. QualifiedAt' /\ ChargedAt'
  <2>1. QualifiedAt'
    BY FrameKeeps DEF QualifiedAt, Frame
  <2>2. ChargedAt'
    BY <1>0, RungNumbers DEF ChargedAt, Frame
  <2> QED
    BY <2>1, <2>2
<1>5. UndecidedAt'
  BY <1>0, FrameKeeps, RungNumbers DEF UndecidedAt
<1> QED
  BY <1>1, <1>2, <1>3, <1>4, <1>5

\* The command is over or starts.
LEMMA FreshStep ==
  ASSUME TypeOK, IInv, Frame, job' = FreshJob, phase' \in {"down", "closed", "refused", "admit"}
  PROVE  IInv'
<1> USE DEF IInv, After
<1>0. /\ job'.iter = First /\ job'.rung = 1 /\ job'.used = 0 /\ job'.elapsed = limits.elapsed + Spent(0)
      /\ job'.incumbent = Fallback /\ ~job'.cut /\ job' = FreshJob'
      /\ limits.elapsed \in Nat /\ Rungs = 1 .. 5
  BY FreshTyped, FrameKeeps, Numbers, RungNumbers, SpentRuns
<1>1. RungAt' /\ IncumbentAt'
  BY <1>0 DEF RungAt, IncumbentAt
<1>2. ScoreAt' /\ BehindAt'
  BY <1>0, FrameKeeps DEF BehindAt, Frame
<1>3. FirstAt'
  BY <1>0 DEF FirstAt, Frame, Spent, Seconds
<1>4. QualifiedAt' /\ ChargedAt'
  <2>1. QualifiedAt'
    BY FrameKeeps DEF QualifiedAt, Frame
  <2>2. ChargedAt'
    BY <1>0, RungNumbers DEF ChargedAt, Frame
  <2> QED
    BY <2>1, <2>2
<1>5. UndecidedAt'
  BY <1>0, FrameKeeps DEF UndecidedAt
<1> QED
  BY <1>1, <1>2, <1>3, <1>4, <1>5

\* A launch is counted, its record comes back, the bundle is complete, or time passes.
LEMMA CountStep ==
  ASSUME TypeOK, IInv, Request \/ ReturnRecord \/ Tick
  PROVE  IInv' /\ Hand' /\ Frame
<1> USE DEF IInv, After
<1>0. /\ job.iter \in Candidates /\ job.iter \in Nat /\ job.rung \in 1 .. 5 /\ job.used \in Nat
      /\ job.elapsed \in Nat /\ Rungs = 1 .. 5 /\ job \in Job /\ limits.launches \in Nat
      /\ limits.elapsed \in Nat /\ phase \in Phases /\ job.used <= limits.launches
  BY Numbers, RungNumbers DEF TypeOK
<1>1. Frame
  BY DEF Request, ReturnRecord, Tick, Frame, durable, setting
<1>2. /\ job'.iter = job.iter /\ job'.rung = job.rung /\ job'.incumbent = job.incumbent
      /\ job'.cut = job.cut /\ job' \in Job
      /\ \/ phase = "admit" /\ phase' = "call" /\ job'.used = job.used + 1 /\ job'.elapsed = job.elapsed
            /\ job.used < limits.launches
         \/ phase = "call" /\ phase' = "judge" /\ job'.used = job.used /\ job'.elapsed = job.elapsed + limits.seconds[job.iter][job.rung]
            /\ record[job.iter][job.rung] # 0
         \/ phase' = phase /\ job' = job
  <2>1. CASE Request
    <3>1. job.used < limits.launches
      BY <1>0, <2>1 DEF Request, Admission
    <3> QED
      BY <1>0, <2>1, <3>1 DEF Request, Job
  <2>2. CASE ReturnRecord
    <3>1. limits.seconds[job.iter][job.rung] \in Nat
      BY <1>0, SecondsTyped
    <3> QED
      BY <1>0, <2>2, <3>1 DEF ReturnRecord, Job
  <2>3. CASE Tick
    BY <1>0, <2>3 DEF Tick
  <2> QED
    BY <2>1, <2>2, <2>3
<1>3. RungAt' /\ IncumbentAt'
  BY <1>1, <1>2, FrameKeeps DEF RungAt, IncumbentAt
<1>4. ScoreAt' /\ BehindAt'
  BY <1>0, <1>1, <1>2, FrameKeeps DEF BehindAt, Frame
<1>5. FirstAt'
  <2>1. limits' = limits
    BY <1>1 DEF Frame
  <2>2. job.iter = First => Spent(job.rung) = Spent(job.rung - 1) + limits.seconds[job.iter][job.rung]
    BY <1>0, SpentRuns DEF Seconds
  <2>3. Spent(job.rung - 1) \in Nat
    BY <1>0, SpentRuns
  <2>4. job'.iter = First /\ phase' \notin {"follow", "end", "complete"} =>
          /\ phase' = "admit" => job'.used = job'.rung - 1
          /\ phase' \in {"call", "judge", "reserve"} => job'.used = job'.rung
          /\ phase' \in {"settle", "close"} => job'.used <= job'.rung
          /\ phase' \in {"admit", "call"} => job'.elapsed = limits.elapsed + Spent(job'.rung - 1)
          /\ phase' \in {"judge", "reserve"} => job'.elapsed = limits.elapsed + Spent(job'.rung)
          /\ phase' \notin After => job'.incumbent = Fallback
    <3>1. CASE phase = "admit" /\ phase' = "call"
      BY <1>0, <1>2, <2>3, <3>1 DEF FirstAt
    <3>2. CASE phase = "call" /\ phase' = "judge"
      <4>1. job.iter = First =>
              job.elapsed = limits.elapsed + Spent(job.rung - 1) /\ job.used = job.rung
              /\ job.incumbent = Fallback
        BY <3>2 DEF FirstAt
      <4> DEFINE t == limits.seconds[job.iter][job.rung]
      <4>2. t \in Nat
        BY <1>0, SecondsTyped
      <4>3. job.iter = First => Spent(job.rung) = Spent(job.rung - 1) + t
        BY <2>2
      <4>4. job'.elapsed = job.elapsed + t /\ job'.used = job.used
        BY <1>2, <3>2
      <4> HIDE DEF t
      <4>5. job.iter = First => job'.elapsed = limits.elapsed + Spent(job.rung)
        BY <1>0, <2>3, <4>1, <4>2, <4>3, <4>4
      <4> QED
        BY <1>2, <3>2, <4>1, <4>4, <4>5
    <3>3. CASE phase' = phase /\ job' = job
      BY <3>3 DEF FirstAt
    <3> QED
      BY <1>2, <3>1, <3>2, <3>3
  <2> QED
    BY <2>1, <2>4, FirstNext
<1>6. QualifiedAt' /\ ChargedAt'
  <2>1. QualifiedAt'
    BY <1>1, <1>2, FrameKeeps DEF QualifiedAt, Frame
  <2>2. ChargedAt'
    BY <1>1, <1>2 DEF ChargedAt, Frame
  <2> QED
    BY <2>1, <2>2
<1>7. UndecidedAt'
  BY <1>0, <1>1, <1>2, FrameKeeps DEF UndecidedAt
<1>8. Hand'
  BY <1>0, <1>1, <1>2 DEF Hand, Frame, Phases
<1> QED
  BY <1>1, <1>3, <1>4, <1>5, <1>6, <1>7, <1>8

-----------------------------------------------------------------------------
(* An iteration does not end on its folds while its query waits.           *)

\* A query that waits for the candidate in hand, on its folds, is that of the first candidate,
\* which an earlier command has charged: it is qualified and has its scores.
LEMMA Waiting ==
  ASSUME TypeOK, IInv, phase \in {"admit", "call", "judge"}, job.rung \in Folds, Undecided(job.iter)
  PROVE  /\ job.iter = First /\ Qualified /\ job.incumbent = Fallback
         /\ query[First] # "none" /\ record[First][1] # 0 /\ record[First][2] # 0
<1>0. job.iter \in Candidates /\ job.iter \in Nat /\ job.rung \in {1, 2} /\ First \in Nat
  BY Numbers, RungNumbers
<1>1. job.iter = First
  BY <1>0, RungNumbers DEF IInv, UndecidedAt
<1>2. query[First] # "none"
  BY <1>1 DEF Undecided
<1>3. Qualified /\ job.incumbent = Fallback
  BY <1>1, <1>2 DEF IInv, QualifiedAt, FirstAt, After
<1>4. record[First][1] # 0 /\ record[First][2] # 0
  BY <1>0, <1>1, <1>2, RungNumbers DEF IInv, ScoreAt
<1> QED
  BY <1>1, <1>2, <1>3, <1>4

\* The next launch does not fit, or the call of a rung has raised.
LEMMA EndsStep ==
  ASSUME TypeOK, IInv,
         RejectLaunch \/ RefuseTraining \/ RefusePrediction \/ RestoreFailure \/ Falter
  PROVE  IInv' /\ job' \in Job /\ Kept /\ phase' \in Phases /\ verdict' \in [Candidates -> Verdicts]
<1>0. /\ job.iter \in Candidates /\ job.rung \in 1 .. 5 /\ job.elapsed \in Nat /\ job.used \in Nat
      /\ limits.launches \in Nat /\ limits.elapsed \in Nat /\ job.conv \in Convergence
      /\ job.incumbent \in Candidates \cup {Fallback} /\ job.stop \in Stops
      /\ verdict \in [Candidates -> Verdicts] /\ Rungs = 1 .. 5 /\ Folds = {1, 2} /\ Seeds = 3 .. 5
      /\ FoldB = 1 /\ FoldA = 2
  <2>1. verdict \in [Candidates -> Verdicts]
    BY DEF TypeOK
  <2> QED
    BY <2>1, Numbers, RungNumbers
<1>1. UNCHANGED durable
  BY DEF RejectLaunch, RefuseTraining, RefusePrediction, RestoreFailure, Falter
<1>2. CASE RejectLaunch
  <2>1. Admission \in Stops /\ "budget_rejected" \in Verdicts
    BY AdmissionTyped DEF Verdicts
  <2>2. CASE job.rung \in Folds
    <3>1. ToClose /\ job' \in Job /\ verdict' \in [Candidates -> Verdicts] /\ UNCHANGED setting
      <4>1. CASE job.rung = 1
        <5>1. Finish("budget_rejected", job.conv, Admission, job.incumbent)
          <6>1. job.rung = FoldB /\ job.rung # FoldA /\ job.rung \notin Seeds
            BY <1>0, <4>1
          <6> QED
            BY <1>2, <6>1, Zenon DEF RejectLaunch
        <5> QED
          BY <1>0, <2>1, <5>1, FinishHand DEF ToClose, Kept
      <4>2. CASE job.rung = 2
        <5>1. FinishUnmeasured("budget_rejected", Admission)
          BY <1>0, <1>2, <4>2 DEF RejectLaunch
        <5> QED
          BY <2>1, <5>1, UnmeasuredHand
      <4> QED
        BY <1>0, <2>2, <4>1, <4>2
    <3>2. ~Undecided(job.iter)
      <4> SUFFICES ASSUME Undecided(job.iter) PROVE FALSE
        OBVIOUS
      <4>0. phase = "admit"
        BY <1>2 DEF RejectLaunch
      <4>1. job.iter = First /\ Qualified
        BY <2>2, <4>0, Waiting
      <4>2. job.used = job.rung - 1 /\ job.elapsed = limits.elapsed + Spent(job.rung - 1)
        BY <4>0, <4>1 DEF IInv, FirstAt
      <4>a. limits.launches >= 5 /\ limits.elapsed + Spent(2) + 3 * P95 + Reserve <= Wall
        BY <4>1 DEF Qualified
      <4>3. job.used < limits.launches /\ job.elapsed + P95 + Reserve <= Wall
        <5> DEFINE n == 3 * P95
        <5>1. n \in Nat /\ P95 \in Nat /\ P95 <= n /\ limits.elapsed + Spent(2) + n + Reserve <= Wall
          BY <4>a
        <5>4. Spent(job.rung - 1) \in Nat /\ Spent(2) \in Nat /\ Spent(job.rung - 1) <= Spent(2)
          <6>1. job.rung \in {1, 2}
            BY <1>0, <2>2
          <6> QED
            BY <6>1, SpentRuns
        <5> HIDE DEF n
        <5>2. job.rung \in {1, 2} /\ job.used = job.rung - 1 /\ job.elapsed = limits.elapsed + Spent(job.rung - 1)
          BY <1>0, <2>2, <4>2
        <5>3. limits.elapsed \in Nat /\ limits.launches \in Nat
          BY <1>0
        <5> QED
          BY <4>a, <5>1, <5>2, <5>3, <5>4
      <4>6. Admission = "none"
        <5> DEFINE t == TimeReason(1, job.rung > FirstSeed)
        <5>1. job.elapsed \in Nat /\ job.used \in Nat /\ limits.launches \in Nat /\ ~(job.rung > FirstSeed)
          BY <1>0, <2>2, RungNumbers
        <5>2. 1 * P95 = P95
          OBVIOUS
        <5>3. t = "none"
          BY <4>3, <5>1, <5>2 DEF TimeReason
        <5>4. Admission = IF job.used >= limits.launches THEN "launch_cap" ELSE t
          BY Zenon DEF Admission
        <5> HIDE DEF t
        <5> QED
          BY <4>3, <5>1, <5>3, <5>4
      <4> QED
        BY <1>2, <4>6 DEF RejectLaunch
    <3>3. phase = "admit" /\ phase' = "close"
      BY <1>2, <3>1 DEF RejectLaunch, ToClose
    <3>4. Frame
      BY <1>1, <3>1 DEF Frame, durable, setting
    <3> QED
      BY <2>2, <3>1, <3>2, <3>3, <3>4, CloseStep DEF ToClose, Phases
  <2>3. CASE job.rung \in Seeds
    <3>0. job.rung # FoldB /\ job.rung # FoldA
      BY <2>3, RungNumbers
    <3>1. GiveUp(job.elapsed, Admission) /\ UNCHANGED <<setting, verdict>> /\ phase = "admit"
      BY <1>2, <2>3, <3>0, Zenon DEF RejectLaunch
    <3>3. Frame
      BY <1>1, <3>1 DEF Frame, durable, setting
    <3>2. ToSettle /\ job' \in Job
      BY <1>0, <2>1, <3>1, GiveUpHand
    <3> QED
      BY <1>0, <2>3, <3>1, <3>2, <3>3, SettleStep DEF ToSettle, Phases
  <2> QED
    BY <1>0, <2>2, <2>3
<1>3. CASE RefuseTraining \/ RefusePrediction \/ RestoreFailure \/ Falter
  <2>1. RunFailed /\ phase = "call" /\ record[job.iter][job.rung] = 0
    BY <1>3 DEF RefuseTraining, RefusePrediction, RestoreFailure, Falter, Pending
  <2>0. Frame
    BY <1>1, <1>3 DEF RefuseTraining, RefusePrediction, RestoreFailure, Falter, Frame, durable, setting
  <2>2. /\ job' \in Job /\ verdict' \in [Candidates -> Verdicts]
        /\ job.rung \in Folds => ToClose
        /\ job.rung \notin Folds => ToSettle
    BY <2>1, RunFailedHand
  <2>3. CASE job.rung \in Folds
    <3>1. ~Undecided(job.iter)
      BY <1>0, <2>1, <2>3, Waiting
    <3> QED
      BY <2>0, <2>1, <2>2, <2>3, <3>1, CloseStep DEF ToClose, Phases
  <2>4. CASE job.rung \notin Folds
    BY <1>0, <2>0, <2>1, <2>2, <2>4, SettleStep DEF ToSettle, Phases
  <2> QED
    BY <2>3, <2>4
<1> QED
  BY <1>2, <1>3

\* The screen is passed or not; a candidate whose query waits has passed it.
LEMMA ScreenStep ==
  ASSUME TypeOK, IInv, JudgeScreen
  PROVE  IInv' /\ job' \in Job /\ job'.used = job.used /\ phase' \in Phases
         /\ verdict' \in [Candidates -> Verdicts] /\ UNCHANGED <<durable, setting>>
         /\ UNCHANGED <<starved, strayed, raised, faults, deaths>>
<1>0. phase = "judge" /\ job.rung = 1 /\ FoldB = 1 /\ FoldA = 2 /\ Folds = {1, 2}
      /\ verdict \in [Candidates -> Verdicts] /\ UNCHANGED durable
  BY RungNumbers DEF JudgeScreen, TypeOK
<1>1. CASE Screened(job.iter = 1, record[job.iter], Evidence(job.incumbent))
  <2>1. NextRung /\ phase' = "admit" /\ UNCHANGED setting
    BY <1>1 DEF JudgeScreen
  <2>2. ToNext /\ job' \in Job /\ UNCHANGED looks
    BY <1>0, <2>1, NextRungHand
  <2>3. Frame
    BY <1>0, <2>1 DEF Frame, durable, setting
  <2>4. IInv'
    BY <1>0, <2>2, <2>3, NextStep
  <2> QED
    BY <1>0, <2>1, <2>2, <2>4 DEF looks, ToNext, Phases
<1>2. CASE ~Screened(job.iter = 1, record[job.iter], Evidence(job.incumbent))
  <2>1. FinishUnmeasured("screen_rejected", "none")
    BY <1>2 DEF JudgeScreen
  <2>2. "screen_rejected" \in Verdicts /\ "none" \in Stops
    BY DEF Verdicts, Stops
  <2>3. /\ ToClose /\ job' \in Job /\ verdict' \in [Candidates -> Verdicts]
        /\ UNCHANGED <<setting, starved, strayed, raised, faults, deaths>>
    BY <2>1, <2>2, UnmeasuredHand
  <2>4. Frame
    BY <1>0, <2>3 DEF Frame, durable, setting
  <2>5. ~Undecided(job.iter)
    <3> SUFFICES ASSUME Undecided(job.iter) PROVE FALSE
      OBVIOUS
    <3>1. job.iter = First /\ Qualified /\ job.incumbent = Fallback
      BY <1>0, Waiting
    <3>2. Screened(First = 1, record[First], FallbackEvidence)
      BY <3>1 DEF Qualified, OuterEligible
    <3> QED
      BY <1>2, <3>1, <3>2 DEF Evidence
  <2>6. IInv'
    BY <1>0, <2>3, <2>4, <2>5, CloseStep
  <2> QED
    BY <1>0, <2>3, <2>6 DEF ToClose, Kept, Phases
<1> QED
  BY <1>1, <1>2

\* A candidate whose query waits comes back to it.
LEMMA FoldsStep ==
  ASSUME TypeOK, IInv, JudgeFolds
  PROVE  IInv' /\ job' \in Job /\ job'.used = job.used /\ phase' \in Phases
         /\ verdict' \in [Candidates -> Verdicts] /\ UNCHANGED <<durable, setting>>
         /\ UNCHANGED <<starved, strayed, raised, faults, deaths>>
<1>0. phase = "judge" /\ job.rung = 2 /\ FoldB = 1 /\ FoldA = 2 /\ Folds = {1, 2}
      /\ verdict \in [Candidates -> Verdicts] /\ UNCHANGED durable /\ job \in Job
  BY RungNumbers DEF JudgeFolds, TypeOK
<1>a. limits.launches \in Nat /\ limits.elapsed \in Nat /\ job.used \in Nat /\ job.elapsed \in Nat
      /\ job.iter \in Candidates
  BY Numbers
<1>1. BundleAdmission = "none" <=>
        job.used + 3 <= limits.launches /\ job.elapsed + 3 * P95 + Reserve <= Wall
  <2>1. BundleAdmission = IF job.used + 3 > limits.launches THEN "launch_cap" ELSE TimeReason(3, FALSE)
    BY SeedCount, Zenon DEF BundleAdmission
  <2> DEFINE t == TimeReason(3, FALSE)
  <2>2. t = "none" <=> job.elapsed + 3 * P95 + Reserve <= Wall
    BY <1>a, BundleFitsTime
  <2>3. BundleAdmission = IF job.used + 3 > limits.launches THEN "launch_cap" ELSE t
    BY <2>1
  <2> HIDE DEF t
  <2> QED
    BY <1>a, <2>2, <2>3
<1>2. job.iter = First =>
        job.used = 2 /\ job.elapsed = limits.elapsed + Spent(2) /\ job.incumbent = Fallback
  BY <1>0 DEF IInv, FirstAt, After
<1>3. CASE MayPromote /\ BundleAdmission = "none"
  <2>1. phase' = "reserve" /\ UNCHANGED <<setting, job, looks>>
    BY <1>3, Zenon DEF JudgeFolds
  <2>2. Frame
    BY <1>0, <2>1 DEF Frame, durable, setting
  <2>3. job.iter = First => Qualified
    BY <1>a, <1>1, <1>2, <1>3 DEF Qualified, MayPromote, Evidence
  <2>4. RungAt' /\ IncumbentAt'
    BY <1>0, <2>1, <2>2 DEF IInv, RungAt, IncumbentAt, After, Frame
  <2>9. FirstAt'
    BY <1>0, <2>1, FirstNext DEF IInv, FirstAt, After, setting
  <2>5. ScoreAt' /\ BehindAt'
    BY <1>0, <2>1, <2>2, FrameKeeps DEF IInv, BehindAt, Frame
  <2>6. QualifiedAt' /\ ChargedAt'
    BY <2>1, <2>2, <2>3, FrameKeeps DEF IInv, QualifiedAt, ChargedAt, Frame
  <2>7. UndecidedAt'
    BY <1>0, <2>1, <2>2, FrameKeeps, RungNumbers DEF IInv, UndecidedAt
  <2> QED
    BY <1>0, <2>1, <2>4, <2>5, <2>6, <2>7, <2>9 DEF IInv, Phases, looks
<1>4. CASE ~MayPromote \/ BundleAdmission # "none"
  <2>1. \/ FinishUnmeasured("inner_rejected", "none")
        \/ FinishUnmeasured("budget_rejected", BundleAdmission)
    <3>1. CASE ~MayPromote
      BY <3>1, Zenon DEF JudgeFolds
    <3>2. CASE MayPromote /\ BundleAdmission # "none"
      BY <3>2, Zenon DEF JudgeFolds
    <3> QED
      BY <1>4, <3>1, <3>2
  <2>2. {"inner_rejected", "budget_rejected"} \subseteq Verdicts /\ "none" \in Stops /\ BundleAdmission \in Stops
    BY AdmissionTyped DEF Verdicts, Stops
  <2>3. /\ ToClose /\ job' \in Job /\ verdict' \in [Candidates -> Verdicts]
        /\ UNCHANGED <<setting, starved, strayed, raised, faults, deaths>>
    BY <2>1, <2>2, UnmeasuredHand
  <2>4. Frame
    BY <1>0, <2>3 DEF Frame, durable, setting
  <2>5. ~Undecided(job.iter)
    <3> SUFFICES ASSUME Undecided(job.iter) PROVE FALSE
      OBVIOUS
    <3>1. job.iter = First /\ Qualified /\ job.incumbent = Fallback /\ query[First] # "none"
      BY <1>0, Waiting
    <3>2. OuterEligible(job.iter = 1, record[job.iter], Evidence(job.incumbent), FallbackEvidence)
      BY <3>1 DEF Qualified, Evidence
    <3>3. MayPromote
      BY <1>a, <3>1, <3>2 DEF MayPromote, Queried
    <3>4. BundleAdmission = "none"
      BY <1>a, <1>1, <1>2, <3>1 DEF Qualified
    <3> QED
      BY <1>4, <3>3, <3>4
  <2>6. IInv'
    BY <1>0, <2>3, <2>4, <2>5, CloseStep
  <2> QED
    BY <1>0, <2>3, <2>6 DEF ToClose, Kept, Phases
<1> QED
  BY <1>3, <1>4

-----------------------------------------------------------------------------
(* Queries.                                                                *)

\* The query is charged, and the bundle begins.
LEMMA ReserveStep ==
  ASSUME TypeOK, IInv, ReserveQuery
  PROVE  /\ IInv' /\ job' \in Job /\ job'.used = job.used /\ phase' \in Phases
         /\ query' \in [Candidates -> {"none", "charged", "published"}]
         /\ UNCHANGED <<limits, looks>>
<1>0. /\ job.iter \in Candidates /\ job.iter \in Nat /\ job.rung = 2 /\ job.used \in Nat /\ phase = "reserve"
      /\ FoldB = 1 /\ FoldA = 2 /\ Rungs = 1 .. 5 /\ Seeds = 3 .. 5
  BY Numbers, RungNumbers DEF ReserveQuery, IInv, RungAt
<1>1. ToNext /\ job' \in Job /\ UNCHANGED looks
  BY <1>0, NextRungHand DEF ReserveQuery
<1>2. /\ UNCHANGED <<exec, charged, record, failure, limits>>
      /\ query' = [query EXCEPT ![job.iter] = IF query[job.iter] = "none" THEN "charged" ELSE query[job.iter]]
      /\ query \in [Candidates -> {"none", "charged", "published"}]
  BY DEF ReserveQuery, setting, TypeOK
<1>3. /\ query' \in [Candidates -> {"none", "charged", "published"}]
      /\ \A c \in Candidates : c # job.iter => query'[c] = query[c]
  BY <1>0, <1>2
<1>4. /\ phase' = "admit" /\ job'.rung = 3 /\ job'.iter = job.iter /\ job'.used = job.used
      /\ job'.incumbent = job.incumbent /\ job'.cut = job.cut /\ job'.elapsed = job.elapsed
  BY <1>0, <1>1 DEF ToNext
<1>5. RungAt' /\ IncumbentAt'
  BY <1>0, <1>4 DEF IInv, RungAt, IncumbentAt, After
<1>6. BehindAt'
  BY <1>0, <1>2, <1>4 DEF IInv, BehindAt
<1>7. ScoreAt'
  <2>1. record[job.iter][1] # 0 /\ record[job.iter][2] # 0
    BY <1>0 DEF IInv, BehindAt
  <2>2. \A c \in Candidates : query'[c] # "none" => record[c][1] # 0 /\ record[c][2] # 0
    BY <1>0, <1>3, <2>1 DEF IInv, ScoreAt
  <2> QED
    BY <1>0, <1>2, <2>2 DEF IInv, ScoreAt
<1>8. FirstAt'
  <2>1. job'.rung - 1 = 2 /\ limits' = limits
    BY <1>2, <1>4
  <2>2. job.iter = First => job.used = 2 /\ job.elapsed = limits.elapsed + Spent(2) /\ job.incumbent = Fallback
    BY <1>0 DEF IInv, FirstAt, After
  <2> QED
    BY <1>4, <2>1, <2>2, FirstNext
<1>9. QualifiedAt'
  <2>1. Qualified' <=> Qualified
    BY <1>2 DEF Qualified, Spent, Seconds
  <2>2. query'[First] # "none" => query[First] # "none" \/ job.iter = First
    BY <1>0, <1>3
  <2> QED
    BY <1>0, <1>4, <2>1, <2>2 DEF IInv, QualifiedAt
<1>10. UndecidedAt' /\ ChargedAt'
  <2>1. UndecidedAt'
    BY <1>0, <1>2, <1>3, <1>4 DEF IInv, UndecidedAt, Undecided
  <2>2. query'[job.iter] # "none"
    BY <1>0, <1>2
  <2> QED
    BY <1>4, <2>1, <2>2 DEF ChargedAt
<1> QED
  BY <1>1, <1>2, <1>3, <1>4, <1>5, <1>6, <1>7, <1>8, <1>9, <1>10 DEF IInv, Phases

\* A bundle that is settled is no longer waiting.
LEMMA SettledStep ==
  ASSUME TypeOK, IInv, phase = "settle", phase' = "close",
         job'.iter = job.iter, job'.rung = job.rung, job'.used = job.used, job'.cut = job.cut,
         job'.incumbent \in {job.incumbent, job.iter},
         UNCHANGED <<exec, charged, record, limits>>,
         ~Undecided(job.iter)',
         \A c \in Candidates : query'[c] # "none" => query[c] # "none" \/ c = job.iter,
         \A c \in Candidates : c # job.iter => (Undecided(c)' <=> Undecided(c))
  PROVE  IInv'
<1>0. job.iter \in Candidates /\ job.iter \in Nat /\ job.rung \in 3 .. 5 /\ Rungs = 1 .. 5 /\ job.cut \in BOOLEAN
  BY Numbers, RungNumbers DEF IInv, RungAt
<1>1. RungAt' /\ IncumbentAt'
  BY DEF IInv, RungAt, IncumbentAt, After
<1>2. BehindAt'
  BY <1>0 DEF IInv, BehindAt
<1>3. ScoreAt' /\ ChargedAt'
  <2>1. query[job.iter] # "none"
    BY DEF IInv, ChargedAt, RungAt
  <2>2. \A c \in Candidates : query'[c] # "none" => query[c] # "none"
    BY <2>1
  <2>3. ScoreAt'
    BY <2>2 DEF IInv, ScoreAt
  <2> QED
    BY <2>3 DEF ChargedAt
<1>4. FirstAt'
  BY FirstNext DEF IInv, FirstAt, After
<1>5. QualifiedAt'
  <2>1. Qualified' <=> Qualified
    BY DEF Qualified, Spent, Seconds
  <2>0. query[job.iter] # "none"
    BY DEF IInv, ChargedAt, RungAt
  <2>2. query'[First] # "none" => query[First] # "none"
    BY <2>0
  <2> QED
    BY <2>1, <2>2 DEF IInv, QualifiedAt
<1>6. UndecidedAt'
  BY <1>0 DEF IInv, UndecidedAt
<1> QED
  BY <1>1, <1>2, <1>3, <1>4, <1>5, <1>6 DEF IInv

\* The failure of a bundle that was cut is recorded, unless the ledger contradicts it.
LEMMA FailedStep ==
  ASSUME TypeOK, IInv, SettleFailed
  PROVE  /\ IInv' /\ job' \in Job /\ job'.used <= limits.launches /\ phase' \in Phases
         /\ verdict' \in [Candidates -> Verdicts] /\ raised' \subseteq Errors
         /\ failure' \in [Candidates -> 0 .. LastSeed]
         /\ UNCHANGED <<exec, charged, record, query, lineage, setting, starved, strayed, faults, deaths>>
<1>0. /\ job.iter \in Candidates /\ job.iter \in Nat /\ job.rung \in 3 .. 5 /\ job.used \in Nat /\ phase = "settle"
      /\ limits.launches \in Nat /\ job.cut
      /\ LastSeed = 5 /\ UNCHANGED <<exec, charged, record, query, lineage>>
  BY Numbers, RungNumbers DEF SettleFailed, IInv, RungAt
<1>1. CASE query[job.iter] = "published" \/ failure[job.iter] \notin {0, Runs}
  <2>1. Raise("contradiction") /\ UNCHANGED failure
    BY <1>1, Zenon DEF SettleFailed
  <2>2. "contradiction" \in Errors
    BY DEF Errors
  <2>3. /\ Down /\ job' \in Job /\ raised' \subseteq Errors
        /\ UNCHANGED <<setting, verdict, starved, strayed, faults, deaths>>
    BY <2>1, <2>2, RaiseHand
  <2>4. Frame
    BY <1>0, <2>1, <2>3 DEF Frame, setting
  <2>5. IInv' /\ job'.used = 0
    BY <2>3, <2>4, FreshStep, FreshTyped DEF Down
  <2> QED
    BY <1>0, <2>1, <2>3, <2>5 DEF Down, Phases, TypeOK
<1>2. CASE ~(query[job.iter] = "published" \/ failure[job.iter] \notin {0, Runs})
  <2>1. /\ failure' = [failure EXCEPT ![job.iter] = Runs]
        /\ FinishUnmeasured("outer_failed", FailedStop)
    BY <1>2, Zenon DEF SettleFailed
  <2>2. "outer_failed" \in Verdicts /\ FailedStop \in Stops
    <3>1. job.stop \in Stops
      BY Numbers
    <3> QED
      BY <3>1 DEF Verdicts, FailedStop, Stops
  <2>3. /\ ToClose /\ job' \in Job /\ verdict' \in [Candidates -> Verdicts]
        /\ UNCHANGED <<setting, starved, strayed, raised, faults, deaths>>
    BY <2>1, <2>2, UnmeasuredHand
  <2>4. Runs \in 2 .. 4 /\ Runs \in 0 .. LastSeed
    BY <1>0 DEF Runs
  <2>5. /\ failure' \in [Candidates -> 0 .. LastSeed] /\ failure'[job.iter] = Runs
        /\ \A c \in Candidates : c # job.iter => failure'[c] = failure[c]
    <3>1. failure \in [Candidates -> 0 .. LastSeed]
      BY DEF TypeOK
    <3> DEFINE n == Runs
    <3>2. n \in 0 .. LastSeed /\ failure' = [failure EXCEPT ![job.iter] = n]
      BY <2>1, <2>4
    <3> HIDE DEF n
    <3>3. /\ failure' \in [Candidates -> 0 .. LastSeed] /\ failure'[job.iter] = n
          /\ \A c \in Candidates : c # job.iter => failure'[c] = failure[c]
      BY <1>0, <3>1, <3>2
    <3> QED
      BY <3>3 DEF n
  <2>6. ~Undecided(job.iter)' /\ \A c \in Candidates : c # job.iter => (Undecided(c)' <=> Undecided(c))
    BY <1>0, <2>3, <2>4, <2>5 DEF Undecided, ToClose, Kept
  <2>7. IInv'
    BY <1>0, <2>3, <2>6, SettledStep DEF ToClose, Kept, setting
  <2> QED
    BY <1>0, <2>3, <2>5, <2>7 DEF ToClose, Kept, Phases, TypeOK
<1> QED
  BY <1>1, <1>2

\* A complete bundle is published, unless a failure contradicts it; a promotion is an incumbent.
LEMMA DecidedStep ==
  ASSUME TypeOK, IInv, SettleDecided
  PROVE  /\ IInv' /\ job' \in Job /\ job'.used <= limits.launches /\ phase' \in Phases
         /\ verdict' \in [Candidates -> Verdicts] /\ raised' \subseteq Errors
         /\ query' \in [Candidates -> {"none", "charged", "published"}]
         /\ UNCHANGED <<exec, charged, record, failure, lineage, setting, starved, strayed, faults, deaths>>
<1>0. /\ job.iter \in Candidates /\ job.iter \in Nat /\ job.used \in Nat /\ phase = "settle"
      /\ job.used <= limits.launches /\ job.incumbent \in Candidates \cup {Fallback}
      /\ limits.launches \in Nat /\ UNCHANGED <<exec, charged, record, failure, lineage>>
      /\ query \in [Candidates -> {"none", "charged", "published"}]
  <2>1. job.used <= limits.launches /\ query \in [Candidates -> {"none", "charged", "published"}]
    BY DEF TypeOK
  <2>2. phase = "settle" /\ UNCHANGED <<exec, charged, record, failure, lineage>>
    BY DEF SettleDecided
  <2> QED
    BY <2>1, <2>2, Numbers
<1>1. CASE failure[job.iter] # 0
  <2>1. Raise("contradiction") /\ UNCHANGED query
    BY <1>1, Zenon DEF SettleDecided
  <2>2. "contradiction" \in Errors
    BY DEF Errors
  <2>3. /\ Down /\ job' \in Job /\ raised' \subseteq Errors
        /\ UNCHANGED <<setting, verdict, starved, strayed, faults, deaths>>
    BY <2>1, <2>2, RaiseHand
  <2>4. Frame
    BY <1>0, <2>1, <2>3 DEF Frame, setting
  <2>5. IInv' /\ job'.used = 0
    BY <2>3, <2>4, FreshStep, FreshTyped DEF Down
  <2> QED
    BY <1>0, <2>1, <2>3, <2>5 DEF Down, Phases, TypeOK
<1>2. CASE failure[job.iter] = 0
  <2> DEFINE e == record[job.iter]
             o == Decide(job.iter = 1, e, Evidence(job.incumbent), FallbackEvidence)
             conv == MeasuredUpdate(job.conv, SeedTotal(e))
             i == IF o \in Promotions THEN job.iter ELSE job.incumbent
  <2>1. query' = [query EXCEPT ![job.iter] = "published"] /\ Finish(o, conv, job.stop, i)
    BY <1>2, Zenon DEF SettleDecided
  <2>2. o \in Verdicts
    <3>1. (job.iter = 1) \in BOOLEAN
      OBVIOUS
    <3>2. o \in Measured
      BY <3>1, DecideFacts, Zenon
    <3> QED
      BY <3>2 DEF Verdicts
  <2>3. conv \in Convergence /\ job.stop \in Stops
    BY Numbers, TotalsTyped, ConvergenceTyped
  <2>4. i \in Candidates \cup {Fallback} /\ i \in {job.incumbent, job.iter}
    BY <1>0
  <2> HIDE DEF o, conv, i
  <2>5. /\ phase' = "close" /\ job' \in Job /\ verdict' \in [Candidates -> Verdicts]
        /\ job'.iter = job.iter /\ job'.rung = job.rung /\ job'.used = job.used
        /\ job'.cut = job.cut /\ job'.incumbent = i
        /\ UNCHANGED <<setting, starved, strayed, raised, faults, deaths>>
    BY <2>1, <2>2, <2>3, <2>4, FinishHand
  <2>6. /\ query' \in [Candidates -> {"none", "charged", "published"}]
        /\ query'[job.iter] = "published"
        /\ \A c \in Candidates : c # job.iter => query'[c] = query[c]
    BY <1>0, <2>1
  <2>7. ~Undecided(job.iter)' /\ \A c \in Candidates : c # job.iter => (Undecided(c)' <=> Undecided(c))
    BY <1>0, <2>5, <2>6 DEF Undecided
  <2>8. limits' = limits
    BY <2>5 DEF setting
  <2>9. \A c \in Candidates : query'[c] # "none" => query[c] # "none" \/ c = job.iter
    BY <2>6
  <2>10. IInv'
    BY <1>0, <2>4, <2>5, <2>7, <2>8, <2>9, SettledStep
  <2> QED
    BY <1>0, <2>5, <2>6, <2>10 DEF Phases, TypeOK
<1> QED
  BY <1>1, <1>2

-----------------------------------------------------------------------------
(* The run of a rung.                                                      *)

\* A training leaves its charge, or fails.
LEMMA TrainStep ==
  ASSUME TypeOK, IInv, Train
  PROVE  IInv' /\ Stored' /\ UNCHANGED <<setting, phase, job, verdict, starved, raised, faults, deaths>>
<1>0. /\ job.iter \in Candidates /\ job.rung \in Rungs
      /\ record[job.iter][job.rung] = 0 /\ exec[job.iter][job.rung] = "none"
      /\ UNCHANGED <<record, query, failure, lineage, setting, phase, job, verdict, starved, raised,
                     faults, deaths>>
  BY Numbers DEF Train, Pending
<1>1. PICK state \in {"trained", "failed"}, released \in BOOLEAN :
        /\ state = "trained" => released
        /\ exec' = [exec EXCEPT ![job.iter][job.rung] = state]
        /\ charged' = IF released THEN charged \cup {<<job.iter, job.rung>>} ELSE charged
  BY DEF Train
<1>2. /\ exec \in [Candidates -> [Rungs -> {"none", "trained", "failed"}]]
      /\ charged \subseteq Candidates \X Rungs
  BY DEF TypeOK
<1>3. exec' \in [Candidates -> [Rungs -> {"none", "trained", "failed"}]]
  BY <1>0, <1>1, <1>2
<1>4. charged' \subseteq Candidates \X Rungs /\ charged \subseteq charged'
  BY <1>0, <1>1, <1>2
<1>5. \A c \in Candidates, r \in Rungs :
        exec'[c][r] = IF c = job.iter /\ r = job.rung THEN state ELSE exec[c][r]
  BY <1>0, <1>1, <1>2
<1>6. state = "trained" => <<job.iter, job.rung>> \in charged'
  BY <1>1
<1>7. ScoreAt'
  <2>1. \A c \in Candidates, r \in Rungs : exec'[c][r] = "trained" => <<c, r>> \in charged'
    BY <1>4, <1>5, <1>6 DEF IInv, ScoreAt
  <2>2. \A c \in Candidates, r \in Rungs : record[c][r] # 0 => exec'[c][r] = "trained"
    <3>1. \A c \in Candidates, r \in Rungs : record[c][r] # 0 => exec[c][r] = "trained"
      BY DEF IInv, ScoreAt
    <3>2. \A c \in Candidates, r \in Rungs :
            record[c][r] # 0 => ~(c = job.iter /\ r = job.rung)
      BY <1>0
    <3> QED
      BY <1>5, <3>1, <3>2
  <2> QED
    BY <1>0, <2>1, <2>2 DEF IInv, ScoreAt
<1>8. RungAt' /\ BehindAt' /\ IncumbentAt' /\ FirstAt' /\ ChargedAt' /\ QualifiedAt' /\ UndecidedAt'
  <2>1. FreshJob' = FreshJob /\ (Qualified' <=> Qualified) /\ limits' = limits
    BY <1>0 DEF FreshJob, Qualified, Spent, Seconds, setting
  <2>2. \A c \in Candidates : Undecided(c)' <=> Undecided(c)
    BY <1>0 DEF Undecided
  <2>3. Undecided(job.iter)' <=> Undecided(job.iter)
    BY <1>0 DEF Undecided
  <2>4. RungAt' /\ BehindAt' /\ IncumbentAt'
    BY <1>0, <2>1 DEF IInv, RungAt, BehindAt, IncumbentAt
  <2>5. ChargedAt' /\ QualifiedAt'
    BY <1>0, <2>1 DEF IInv, ChargedAt, QualifiedAt
  <2>7. FirstAt'
    BY <1>0, <2>1, FirstNext DEF IInv, FirstAt, After
  <2>6. UndecidedAt'
    BY <1>0, <2>2, <2>3 DEF IInv, UndecidedAt
  <2> QED
    BY <2>4, <2>5, <2>6, <2>7
<1>9. Stored'
  BY <1>0, <1>3, <1>4 DEF TypeOK, Stored
<1> QED
  BY <1>0, <1>7, <1>8, <1>9 DEF IInv

\* The score of a rung is recorded once.
LEMMA EvaluateStep ==
  ASSUME TypeOK, IInv, Evaluate
  PROVE  /\ IInv' /\ Stored' /\ UNCHANGED <<setting, phase, job, looks>>
         /\ \A c \in Candidates : c # job.iter => record'[c] = record[c]
<1>0. /\ job.iter \in Candidates /\ job.rung \in Rungs /\ phase = "call"
      /\ record[job.iter][job.rung] = 0 /\ exec[job.iter][job.rung] = "trained"
      /\ UNCHANGED <<charged, query, failure, lineage, setting, phase, job, looks>>
  BY Numbers DEF Evaluate, Pending
<1>1. /\ exec \in [Candidates -> [Rungs -> {"none", "trained", "failed"}]]
      /\ record \in [Candidates -> [Rungs -> Nat]]
  BY DEF TypeOK
<1>2. /\ record' \in [Candidates -> [Rungs -> Nat]]
      /\ \A c \in Candidates : c # job.iter => record'[c] = record[c]
      /\ \A c \in Candidates, r \in Rungs : record[c][r] # 0 => record'[c][r] = record[c][r]
      /\ record' # record => exec' = exec
      /\ \A c \in Candidates, r \in Rungs :
           record'[c][r] # record[c][r] => c = job.iter /\ r = job.rung
  <2>1. CASE record' = record
    BY <1>1, <2>1
  <2>2. CASE exec' = exec /\ \E score \in Scores[job.rung] :
               record' = [record EXCEPT ![job.iter][job.rung] = score]
    <3>1. PICK score \in Scores[job.rung] : record' = [record EXCEPT ![job.iter][job.rung] = score]
      BY <2>2
    <3>2. score \in Nat
      BY <1>0, ScienceAssumption
    <3> QED
      BY <1>0, <1>1, <2>2, <3>1, <3>2
  <2> QED
    BY <2>1, <2>2 DEF Evaluate
<1>3. /\ exec' \in [Candidates -> [Rungs -> {"none", "trained", "failed"}]]
      /\ \A c \in Candidates, r \in Rungs : exec'[c][r] # exec[c][r] =>
           c = job.iter /\ r = job.rung /\ exec'[c][r] = "failed"
      /\ exec' # exec => record' = record
  <2>1. CASE exec' = exec
    BY <1>1, <2>1
  <2>2. CASE exec' = [exec EXCEPT ![job.iter][job.rung] = "failed"] /\ record' = record
    BY <1>0, <1>1, <2>2
  <2> QED
    BY <2>1, <2>2 DEF Evaluate
<1>4. ScoreAt'
  <2>1. \A c \in Candidates, r \in Rungs : record'[c][r] # 0 => exec'[c][r] = "trained"
    <3> SUFFICES ASSUME NEW c \in Candidates, NEW r \in Rungs, record'[c][r] # 0
                 PROVE  exec'[c][r] = "trained"
      OBVIOUS
    <3>0. record[c][r] # 0 => exec[c][r] = "trained"
      BY DEF IInv, ScoreAt
    <3>1. exec[c][r] = "trained"
      BY <1>0, <1>2, <3>0
    <3>2. exec'[c][r] = exec[c][r]
      BY <1>0, <1>2, <1>3
    <3> QED
      BY <3>1, <3>2
  <2>2. \A c \in Candidates, r \in Rungs : exec'[c][r] = "trained" => <<c, r>> \in charged'
    BY <1>0, <1>3 DEF IInv, ScoreAt
  <2>3. \A c \in Candidates : query'[c] # "none" => record'[c][FoldB] # 0 /\ record'[c][FoldA] # 0
    <3>1. \A c \in Candidates : query[c] # "none" => record[c][1] # 0 /\ record[c][2] # 0
      BY RungNumbers DEF IInv, ScoreAt
    <3>2. 1 \in Rungs /\ 2 \in Rungs /\ FoldB = 1 /\ FoldA = 2
      BY RungNumbers
    <3> QED
      BY <1>0, <1>2, <3>1, <3>2
  <2> QED
    BY <2>1, <2>2, <2>3 DEF ScoreAt
<1>5. FreshJob' = FreshJob /\ limits' = limits
  BY <1>0 DEF FreshJob, setting
<1>6. BehindAt'
  BY <1>0, <1>2 DEF IInv, BehindAt
<1>7. QualifiedAt'
  <2>1. query[First] # "none" => record'[First][1] = record[First][1] /\ record'[First][2] = record[First][2]
    <3>1. First \in Candidates /\ 1 \in Rungs /\ 2 \in Rungs
      BY RungNumbers
    <3>2. query[First] # "none" => record[First][1] # 0 /\ record[First][2] # 0
      BY RungNumbers DEF IInv, ScoreAt
    <3> QED
      BY <1>2, <3>1, <3>2
  <2>2. query[First] # "none" => (Qualified' <=> Qualified)
    BY <1>5, <2>1, RungNumbers DEF Qualified, OuterEligible, Screened, FoldTotal, Spent, Seconds
  <2>3. phase' # "reserve" /\ query' = query
    BY <1>0
  <2> QED
    BY <2>2, <2>3 DEF IInv, QualifiedAt
<1>8. RungAt' /\ IncumbentAt' /\ FirstAt' /\ ChargedAt'
  <2>1. FirstAt'
    BY <1>0, <1>5, FirstNext DEF IInv, FirstAt, After
  <2> QED
    BY <1>0, <1>5, <2>1 DEF IInv, RungAt, IncumbentAt, ChargedAt
<1>9. UndecidedAt'
  BY <1>0 DEF IInv, UndecidedAt, Undecided
<1>10. Stored'
  BY <1>0, <1>2, <1>3 DEF TypeOK, Stored
<1> QED
  BY <1>0, <1>2, <1>4, <1>6, <1>7, <1>8, <1>9, <1>10 DEF IInv

-----------------------------------------------------------------------------
(* A command starts or is over, and a bundle is run through.               *)

\* A command starts with nothing in hand, and the lineages of the last one are stale.
LEMMA BeginStep ==
  ASSUME TypeOK, IInv, Begin
  PROVE  /\ IInv' /\ job' \in Job /\ job'.used = 0 /\ phase' \in Phases /\ raised' \subseteq Errors
         /\ lineage' \in [Candidates -> {"none", "retained", "fresh", "stale"}]
         /\ UNCHANGED <<exec, charged, record, query, failure, setting, verdict, starved, strayed, faults, deaths>>
<1>1. job' = FreshJob /\ Frame
      /\ UNCHANGED <<exec, charged, record, query, failure, setting, verdict, starved, strayed, faults, deaths>>
  BY DEF Begin, Frame, setting
<1>2. phase' \in {"refused", "closed", "admit"} /\ raised' \subseteq Errors
  <2>1. raised \subseteq Errors
    BY DEF TypeOK
  <2> QED
    BY <2>1, Zenon DEF Begin, Errors
<1>3. lineage' \in [Candidates -> {"none", "retained", "fresh", "stale"}]
  <2>1. lineage \in [Candidates -> {"none", "retained", "fresh", "stale"}]
    BY DEF TypeOK
  <2>2. lineage' = [c \in Candidates |-> IF lineage[c] = "fresh" THEN "stale" ELSE lineage[c]]
    BY DEF Begin
  <2> QED
    BY <2>1, <2>2
<1>4. IInv'
  BY <1>1, <1>2, FreshStep
<1> QED
  BY <1>1, <1>2, <1>3, <1>4, FreshTyped DEF Phases

\* A command dies and leaves what is durable.
LEMMA DieStep ==
  ASSUME TypeOK, IInv, Die
  PROVE  /\ IInv' /\ job' \in Job /\ job'.used = 0 /\ phase' \in Phases
         /\ deaths' \in 0 .. MaxDeaths
         /\ UNCHANGED <<durable, setting, verdict, starved, strayed, raised, faults>>
<1>1. job' = FreshJob /\ Frame /\ phase' = "down"
      /\ UNCHANGED <<durable, setting, verdict, starved, strayed, raised, faults>>
  BY DEF Die, Frame, setting, durable
<1>2. deaths' \in 0 .. MaxDeaths
  <2>1. MaxDeaths \in Nat
    BY ScienceAssumption
  <2> QED
    BY <2>1 DEF TypeOK, Die
<1>3. IInv'
  BY <1>1, FreshStep
<1> QED
  BY <1>1, <1>2, <1>3, FreshTyped DEF Phases

\* A command that is refused the time it has leaves what is durable.
LEMMA OverrunStep ==
  ASSUME TypeOK, IInv, Overrun
  PROVE  /\ IInv' /\ job' \in Job /\ job'.used = 0 /\ phase' \in Phases /\ raised' \subseteq Errors
         /\ UNCHANGED <<durable, setting, verdict, starved, strayed, faults, deaths>>
<1>1. /\ job' = FreshJob /\ Frame /\ phase' = "down" /\ raised' = raised \cup {"overrun"}
      /\ UNCHANGED <<durable, setting, verdict, starved, strayed, faults, deaths>>
  BY DEF Overrun, Raise, Frame, setting, durable
<1>2. raised' \subseteq Errors
  BY <1>1 DEF TypeOK, Errors
<1>3. IInv'
  BY <1>1, FreshStep
<1> QED
  BY <1>1, <1>2, <1>3, FreshTyped DEF Phases

\* The next seed is run, or the bundle is complete.
LEMMA SeedStep ==
  ASSUME TypeOK, IInv, JudgeSeed
  PROVE  IInv' /\ job' \in Job /\ job'.used = job.used /\ phase' \in Phases /\ UNCHANGED <<durable, setting, looks>>
<1>0. /\ phase = "judge" /\ job.rung \in 3 .. 5 /\ job.iter \in Nat /\ job \in Job
      /\ UNCHANGED <<durable, setting>> /\ Frame
      /\ FoldA = 2 /\ LastSeed = 5 /\ Seeds = 3 .. 5 /\ job.used \in Nat
  BY Numbers, RungNumbers DEF JudgeSeed, Frame, durable, setting, TypeOK
<1>1. CASE job.rung < LastSeed
  <2>1. NextRung /\ phase' = "admit"
    BY <1>1 DEF JudgeSeed
  <2>2. ToNext /\ job' \in Job /\ UNCHANGED looks
    BY <1>0, <1>1, <2>1, NextRungHand
  <2>3. IInv'
    BY <1>0, <1>1, <2>2, NextStep
  <2> QED
    BY <1>0, <2>2, <2>3 DEF ToNext, Phases
<1>2. CASE ~(job.rung < LastSeed)
  <2>1. phase' = "settle" /\ UNCHANGED <<job, looks>> /\ job.rung = LastSeed
    BY <1>0, <1>2 DEF JudgeSeed
  <2>2. RungAt' /\ IncumbentAt' /\ FirstAt'
    BY <1>0, <2>1 DEF IInv, RungAt, IncumbentAt, FirstAt, After, Frame
  <2>3. ScoreAt' /\ BehindAt'
    BY <1>0, <2>1, FrameKeeps DEF IInv, BehindAt, Frame
  <2>4. QualifiedAt'
    BY <1>0, <2>1, FrameKeeps DEF IInv, QualifiedAt, Frame
  <2>5. ChargedAt'
    BY <1>0, <2>1 DEF IInv, ChargedAt, Frame
  <2>6. UndecidedAt'
    BY <1>0, <2>1, FrameKeeps DEF IInv, UndecidedAt
  <2> QED
    BY <1>0, <2>1, <2>2, <2>3, <2>4, <2>5, <2>6 DEF IInv, Phases
<1> QED
  BY <1>1, <1>2

-----------------------------------------------------------------------------
(* After an iteration.                                                     *)

\* If the cursors agree after the first iteration, no other candidate has charged a query: its
\* folds would be two launches more than those behind the rung in hand, where the loop has
\* counted at most one.
LEMMA Counting ==
  ASSUME TypeOK, IInv, phase = "close", job.iter = First, CursorAgrees,
         NEW c \in Candidates, query[c] # "none"
  PROVE  c = First
<1> SUFFICES ASSUME c # First PROVE FALSE
  OBVIOUS
<1> DEFINE n == job.rung
           f == [i \in 1 .. (n + 1) |-> IF i < n THEN <<First, i>> ELSE <<c, (i - n) + 1>>]
<1>1. n \in 1 .. 5 /\ Rungs = 1 .. 5 /\ FoldB = 1 /\ FoldA = 2 /\ First \in Candidates
  BY Numbers, RungNumbers
<1>2. \A i \in 1 .. 5 : i < n => <<First, i>> \in charged
  BY <1>1 DEF IInv, BehindAt, ScoreAt
<1>3. <<c, 1>> \in charged /\ <<c, 2>> \in charged
  <2>1. record[c][1] # 0 /\ record[c][2] # 0
    BY <1>1 DEF IInv, ScoreAt
  <2>2. \A r \in Rungs : record[c][r] # 0 => <<c, r>> \in charged
    BY DEF IInv, ScoreAt
  <2>3. 1 \in Rungs /\ 2 \in Rungs
    BY <1>1
  <2> QED
    BY <2>1, <2>2, <2>3
<1>4. Cardinality(charged) <= n
  <2>1. job.used <= job.rung
    BY DEF IInv, FirstAt
  <2> QED
    BY <2>1 DEF CursorAgrees
<1>5. IsFiniteSet(charged)
  <2>1. IsFiniteSet(Candidates) /\ IsFiniteSet(Rungs)
    <3>1. First \in Int /\ MaxIterations \in Int /\ 1 \in Int /\ 5 \in Int
      OBVIOUS
    <3>2. IsFiniteSet(First .. MaxIterations) /\ IsFiniteSet(1 .. 5)
      BY <3>1, FS_Interval, Zenon
    <3> QED
      BY <1>1, <3>2, Zenon
  <2>2. IsFiniteSet(Candidates \X Rungs)
    BY <2>1, FS_Product
  <2> QED
    BY <2>2, FS_Subset DEF TypeOK
<1> HIDE DEF n
<1>6. IsFiniteSet(1 .. (n + 1)) /\ Cardinality(1 .. (n + 1)) = n + 1
  <2>1. n + 1 \in Int /\ 1 \in Int /\ ~(1 > n + 1) /\ (n + 1) - 1 + 1 = n + 1
    BY <1>1
  <2> QED
    BY <2>1, FS_Interval
<1>7. f \in [1 .. (n + 1) -> charged]
  <2> SUFFICES ASSUME NEW i \in 1 .. (n + 1)
               PROVE  (IF i < n THEN <<First, i>> ELSE <<c, (i - n) + 1>>) \in charged
    OBVIOUS
  <2>1. CASE i < n
    BY <1>1, <1>2, <2>1
  <2>2. CASE ~(i < n)
    <3>1. (i - n) + 1 = 1 \/ (i - n) + 1 = 2
      BY <1>1, <2>2
    <3> QED
      BY <1>3, <2>2, <3>1
  <2> QED
    BY <2>1, <2>2
<1>8. Cardinality(charged) < Cardinality(1 .. (n + 1))
  <2>1. Cardinality(charged) \in Nat
    BY <1>5, FS_CardinalityType
  <2> QED
    BY <1>1, <1>4, <1>6, <2>1
<1>9. \A x, y \in 1 .. (n + 1) : f[x] = f[y] => x = y
  BY <1>1
<1> HIDE DEF f
<1>10. \E x, y \in 1 .. (n + 1) : x # y /\ f[x] = f[y]
  BY <1>5, <1>6, <1>7, <1>8, FS_PigeonHole
<1> QED
  BY <1>9, <1>10

\* The first iteration is closed without a query that waits, or not at all.
LEMMA CloseIteration ==
  ASSUME TypeOK, IInv, Close
  PROVE  /\ IInv' /\ job' \in Job /\ job'.used <= limits.launches /\ phase' \in Phases
         /\ raised' \subseteq Errors
         /\ UNCHANGED <<durable, setting, verdict, starved, strayed, faults, deaths>>
<1>0. phase = "close" /\ UNCHANGED durable /\ job \in Job /\ job.used <= limits.launches
      /\ limits.launches \in Nat /\ raised \subseteq Errors
  BY Numbers DEF Close, TypeOK
<1>1. CASE job.iter = First /\ ~CursorAgrees
  <2>1. Raise("cursor")
    BY <1>1, Zenon DEF Close
  <2>2. "cursor" \in Errors
    BY DEF Errors
  <2>3. /\ Down /\ job' \in Job /\ raised' \subseteq Errors
        /\ UNCHANGED <<setting, verdict, starved, strayed, faults, deaths>>
    BY <2>1, <2>2, RaiseHand
  <2>4. Frame
    BY <1>0, <2>3 DEF Frame, setting, durable
  <2>5. IInv' /\ job'.used = 0
    BY <2>3, <2>4, FreshStep, FreshTyped DEF Down
  <2> QED
    BY <1>0, <2>3, <2>5 DEF Down, Phases
<1>2. CASE ~(job.iter = First /\ ~CursorAgrees)
  <2>1. phase' = "follow" /\ UNCHANGED <<setting, job, looks>>
    BY <1>2, Zenon DEF Close
  <2>2. Frame /\ UNCHANGED <<setting, verdict, starved, strayed, raised, faults, deaths>>
    BY <1>0, <2>1 DEF Frame, durable, setting, looks
  <2>3. RungAt' /\ IncumbentAt' /\ FirstAt'
    BY <1>0, <2>1 DEF IInv, RungAt, IncumbentAt, FirstAt, After
  <2>4. ScoreAt' /\ BehindAt' /\ ChargedAt'
    BY <1>0, <2>1, <2>2, FrameKeeps DEF IInv, BehindAt, ChargedAt
  <2>5. QualifiedAt'
    BY <1>0, <2>1, <2>2, FrameKeeps DEF IInv, QualifiedAt, Frame
  <2>6. \A c \in Candidates : ~Undecided(c)
    <3> SUFFICES ASSUME NEW c \in Candidates, Undecided(c) PROVE FALSE
      OBVIOUS
    <3>1. ~Undecided(job.iter)
      BY <1>0 DEF IInv, UndecidedAt
    <3>2. CASE job.iter = First
      <4>1. CursorAgrees /\ query[c] # "none"
        BY <1>2, <3>2 DEF Undecided
      <4>2. c = First
        BY <1>0, <3>2, <4>1, Counting
      <4> QED
        BY <3>1, <3>2, <4>2
    <3>3. CASE job.iter # First
      <4>1. job.iter > First
        BY <3>3, Numbers
      <4> QED
        BY <1>0, <4>1 DEF IInv, UndecidedAt
    <3> QED
      BY <3>2, <3>3
  <2>7. UndecidedAt'
    BY <2>1, <2>2, <2>6, FrameKeeps DEF UndecidedAt
  <2> QED
    BY <1>0, <2>1, <2>2, <2>3, <2>4, <2>5, <2>7 DEF IInv, Phases
<1> QED
  BY <1>1, <1>2

\* Nothing waits when another candidate is taken up, and the incumbent is an earlier one.
LEMMA FollowStep ==
  ASSUME TypeOK, IInv, Follow
  PROVE  /\ IInv' /\ job' \in Job /\ job'.used = job.used /\ phase' \in Phases
         /\ lineage' \in [Candidates -> {"none", "retained", "fresh", "stale"}]
         /\ UNCHANGED <<exec, charged, record, query, failure, setting, looks>>
<1>0. /\ phase = "follow" /\ job \in Job /\ lineage \in [Candidates -> {"none", "retained", "fresh", "stale"}]
      /\ UNCHANGED <<exec, charged, record, query, failure, setting, looks>> /\ Frame
  BY DEF Follow, TypeOK, Frame, setting
<1>1. job.iter \in Candidates /\ job.iter \in Nat /\ FoldB \in Rungs /\ FoldB = 1 /\ Rungs = 1 .. 5 /\ Seeds = 3 .. 5
      /\ job.incumbent \in Candidates \cup {Fallback}
  BY Numbers, RungNumbers
<1>2. \A c \in Candidates : ~Undecided(c)
  BY <1>0 DEF IInv, UndecidedAt
<1>3. /\ job' \in Job /\ job'.used = job.used /\ job'.incumbent = job.incumbent
      /\ lineage' \in [Candidates -> {"none", "retained", "fresh", "stale"}]
      /\ \/ /\ phase' = "end" /\ job'.iter = job.iter /\ job'.cut = job.cut /\ job'.rung = job.rung
         \/ /\ phase' = "follow" /\ job'.iter = job.iter + 1 /\ job'.cut = job.cut /\ job'.rung = job.rung
         \/ /\ phase' = "admit" /\ job'.iter = job.iter + 1 /\ ~job'.cut /\ job'.rung = 1
  <2>1. CASE Terminal # "none"
    <3> DEFINE t == Terminal
    <3>1. job' = [job EXCEPT !.stop = t] /\ phase' = "end" /\ lineage' = lineage
      BY <2>1 DEF Follow, Stop
    <3>2. t \in Stops
      BY TerminalTyped
    <3> HIDE DEF t
    <3> QED
      BY <1>0, <3>1, <3>2 DEF Job
  <2>2. CASE Terminal = "none"
    <3> DEFINE next == job.iter + 1
    <3>1. next \in Candidates
      BY <1>1, <2>2, TerminalTyped
    <3>2. \/ /\ lineage' = [lineage EXCEPT ![next] = "fresh"]
             /\ job' = [job EXCEPT !.iter = next, !.rung = FoldB, !.cut = FALSE]
             /\ phase' = "admit"
          \/ /\ job' = [job EXCEPT !.iter = next]
             /\ UNCHANGED <<lineage, phase>>
          \/ Stop("provider") /\ UNCHANGED lineage
      BY <2>2 DEF Follow
    <3> HIDE DEF next
    <3>3. CASE /\ lineage' = [lineage EXCEPT ![next] = "fresh"]
               /\ job' = [job EXCEPT !.iter = next, !.rung = FoldB, !.cut = FALSE]
               /\ phase' = "admit"
      <4>1. job' \in Job /\ job'.used = job.used /\ job'.incumbent = job.incumbent
            /\ job'.iter = next /\ job'.cut = FALSE /\ job'.rung = 1
        BY <1>0, <1>1, <3>1, <3>3 DEF Job
      <4>2. lineage' \in [Candidates -> {"none", "retained", "fresh", "stale"}]
        BY <1>0, <3>1, <3>3
      <4> QED
        BY <3>3, <4>1, <4>2 DEF next
    <3>4. CASE job' = [job EXCEPT !.iter = next] /\ UNCHANGED <<lineage, phase>>
      <4>1. job' \in Job /\ job'.used = job.used /\ job'.incumbent = job.incumbent
            /\ job'.iter = next /\ job'.cut = job.cut /\ job'.rung = job.rung
        BY <1>0, <3>1, <3>4 DEF Job
      <4> QED
        BY <1>0, <3>4, <4>1 DEF next
    <3>5. CASE Stop("provider") /\ UNCHANGED lineage
      BY <1>0, <3>5 DEF Stop, Job, Stops
    <3> QED
      BY <3>2, <3>3, <3>4, <3>5
  <2> QED
    BY <2>1, <2>2
<1>4. RungAt'
  BY <1>3 DEF IInv, RungAt, After
<1>5. ScoreAt' /\ BehindAt' /\ ChargedAt'
  <2>1. ScoreAt'
    BY <1>0, FrameKeeps DEF IInv
  <2>2. BehindAt'
    BY <1>1, <1>3 DEF BehindAt
  <2>3. ChargedAt'
    BY <1>1, <1>3 DEF ChargedAt
  <2> QED
    BY <2>1, <2>2, <2>3
<1>6. IncumbentAt'
  BY <1>0, <1>1, <1>3 DEF IInv, IncumbentAt, After
<1>7. FirstAt'
  BY <1>1, <1>3 DEF FirstAt
<1>8. QualifiedAt'
  BY <1>0, <1>3, FrameKeeps DEF IInv, QualifiedAt, Frame
<1>9. UndecidedAt'
  <2>1. (\A c \in Candidates : ~Undecided(c))'
    BY <1>0, <1>2, FrameKeeps
  <2>2. phase' # "close"
    BY <1>3
  <2> QED
    BY <2>1, <2>2 DEF UndecidedAt
<1> QED
  BY <1>0, <1>3, <1>4, <1>5, <1>6, <1>7, <1>8, <1>9 DEF IInv, Phases

\* The science is complete, or the command fails.
LEMMA EndStep ==
  ASSUME TypeOK, IInv, End
  PROVE  /\ IInv' /\ job' \in Job /\ job'.used <= limits.launches /\ phase' \in Phases
         /\ raised' \subseteq Errors
         /\ UNCHANGED <<durable, setting, verdict, starved, strayed, faults, deaths>>
<1>0. phase = "end" /\ UNCHANGED durable /\ job \in Job /\ job.used <= limits.launches
      /\ limits.launches \in Nat /\ raised \subseteq Errors
  BY Numbers DEF End, TypeOK
<1>1. CASE ~CursorAgrees
  <2>1. Raise("cursor")
    BY <1>1, Zenon DEF End
  <2>2. "cursor" \in Errors
    BY DEF Errors
  <2>3. /\ Down /\ job' \in Job /\ raised' \subseteq Errors
        /\ UNCHANGED <<setting, verdict, starved, strayed, faults, deaths>>
    BY <2>1, <2>2, RaiseHand
  <2>4. Frame
    BY <1>0, <2>3 DEF Frame, setting, durable
  <2>5. IInv' /\ job'.used = 0
    BY <2>3, <2>4, FreshStep, FreshTyped DEF Down
  <2> QED
    BY <1>0, <2>3, <2>5 DEF Down, Phases
<1>2. CASE CursorAgrees
  <2>1. phase' = "complete" /\ UNCHANGED <<setting, job, looks>>
    BY <1>2, Zenon DEF End
  <2>2. Frame /\ UNCHANGED <<setting, verdict, starved, strayed, raised, faults, deaths>>
    BY <1>0, <2>1 DEF Frame, durable, setting, looks
  <2>3. RungAt' /\ IncumbentAt' /\ FirstAt'
    BY <1>0, <2>1 DEF IInv, RungAt, IncumbentAt, FirstAt, After
  <2>4. ScoreAt' /\ BehindAt' /\ ChargedAt'
    BY <1>0, <2>1, <2>2, FrameKeeps DEF IInv, BehindAt, ChargedAt
  <2>5. QualifiedAt'
    BY <1>0, <2>1, <2>2, FrameKeeps DEF IInv, QualifiedAt, Frame
  <2>6. \A c \in Candidates : ~Undecided(c)
    BY <1>0 DEF IInv, UndecidedAt
  <2>7. UndecidedAt'
    BY <2>1, <2>2, <2>6, FrameKeeps DEF UndecidedAt
  <2> QED
    BY <1>0, <2>1, <2>2, <2>3, <2>4, <2>5, <2>7 DEF IInv, Phases
<1> QED
  BY <1>1, <1>2

-----------------------------------------------------------------------------
(* Types.                                                                  *)

\* The initial state has the types.
LEMMA InitType == Init => TypeOK
<1> SUFFICES ASSUME Init PROVE TypeOK
  OBVIOUS
<1>1. limits \in Limits /\ clock = 0 /\ phase = "down" /\ job = FreshJob /\ charged = {}
      /\ starved = {} /\ strayed = FALSE /\ raised = {} /\ faults = 0 /\ deaths = 0
  BY DEF Init, Open
<1>2. limits.launches \in Nat /\ limits.elapsed \in Nat
  BY <1>1, ScienceAssumption
<1>3. SeedTotal(FallbackEvidence) \in Nat
  BY FallbackTyped, TotalsTyped
<1>4. InitialConvergence(SeedTotal(FallbackEvidence)) \in Convergence
  BY <1>3 DEF InitialConvergence, Convergence
<1>5. FreshJob \in Job /\ FreshJob.used = 0
  BY <1>2, <1>4, RungNumbers DEF FreshJob, Job, Stops
<1>6. Hand
  BY <1>1, <1>2, <1>5 DEF Hand, Phases
<1>7. Set
  BY <1>1 DEF Set, Clock
<1>8. Stored
  BY <1>1, RungNumbers DEF Init, Stored
<1>9. Seen
  <2>1. MaxFaults \in Nat /\ MaxDeaths \in Nat
    BY ScienceAssumption
  <2>2. verdict \in [Candidates -> Verdicts]
    BY DEF Init, Verdicts
  <2>3. strayed \in BOOLEAN
    BY <1>1, Zenon
  <2>4. starved \subseteq Candidates /\ raised \subseteq Errors
    BY <1>1
  <2> QED
    BY <1>1, <2>1, <2>2, <2>3, <2>4 DEF Seen
<1> QED
  BY <1>6, <1>7, <1>8, <1>9, TypeParts

\* A command knows nothing in the initial state.
LEMMA InitKnown == Init => IInv
<1> SUFFICES ASSUME Init PROVE IInv
  OBVIOUS
<1>0. TypeOK
  BY InitType
<1>1. phase = "down" /\ job = FreshJob
  BY DEF Init
<1>2. job.iter = First /\ job.rung = 1 /\ job.incumbent = Fallback /\ ~job.cut
  BY <1>0, <1>1, FreshTyped, RungNumbers
<1>3. /\ \A c \in Candidates, r \in Rungs : record[c][r] = 0 /\ exec[c][r] = "none"
      /\ \A c \in Candidates : query[c] = "none"
  BY DEF Init
<1>4. RungAt /\ IncumbentAt /\ FirstAt
  BY <1>1, <1>2 DEF RungAt, IncumbentAt, FirstAt, After
<1>5. ScoreAt /\ BehindAt /\ ChargedAt
  BY <1>1, <1>2, <1>3, RungNumbers DEF ScoreAt, BehindAt, ChargedAt
<1>6. QualifiedAt /\ UndecidedAt
  BY <1>1, <1>2, <1>3 DEF QualifiedAt, UndecidedAt, Undecided
<1> QED
  BY <1>4, <1>5, <1>6 DEF IInv

\* What a launch or its failure leaves in the sets the properties look back on.
LEMMA EndsSeen ==
  ASSUME TypeOK, RejectLaunch \/ RefuseTraining \/ RefusePrediction \/ RestoreFailure \/ Falter
  PROVE  /\ UNCHANGED <<durable, setting, raised, deaths>>
         /\ starved' \subseteq Candidates \X Causes /\ strayed' \in BOOLEAN /\ faults' \in 0 .. MaxFaults
<1>b. /\ starved \subseteq Candidates \X Causes /\ faults \in 0 .. MaxFaults /\ job.iter \in Candidates
      /\ MaxFaults \in Nat
  BY Numbers, ScienceAssumption DEF TypeOK
<1>c. \A why \in Causes : starved \cup {<<job.iter, why>>} \subseteq Candidates \X Causes
  BY <1>b
<1>d. {"launches", "ceiling", "time"} \subseteq Causes
  BY DEF Causes
<1>0. /\ starved \subseteq Candidates \X Causes /\ faults \in 0 .. MaxFaults /\ job.iter \in Candidates
      /\ MaxFaults \in Nat
      /\ \A why \in Causes : starved \cup {<<job.iter, why>>} \subseteq Candidates \X Causes
      /\ {"launches", "ceiling", "time"} \subseteq Causes
  BY <1>b, <1>c, <1>d
<1>a. strayed \in BOOLEAN
  BY DEF TypeOK
<1>1. CASE RejectLaunch
  <2>1. \/ Finish("budget_rejected", job.conv, Admission, job.incumbent)
        \/ FinishUnmeasured("budget_rejected", Admission)
        \/ /\ \E why \in Causes : starved' = starved \cup {<<job.iter, why>>}
           /\ UNCHANGED <<setting, strayed, raised, faults, deaths>>
    <3>1. job.rung = FoldB \/ job.rung = FoldA \/ job.rung \in Seeds
      BY Numbers, RungNumbers
    <3>2. FoldB # FoldA /\ FoldB \notin Seeds /\ FoldA \notin Seeds
      BY RungNumbers
    <3>3. CASE job.rung = FoldB
      BY <1>1, <3>2, <3>3, Zenon DEF RejectLaunch
    <3>4. CASE job.rung = FoldA
      BY <1>1, <3>2, <3>4, Zenon DEF RejectLaunch
    <3>5. CASE job.rung \in Seeds
      <4>1. job.rung # FoldB /\ job.rung # FoldA
        BY <3>2, <3>5
      <4> DEFINE why == IF Admission = "launch_cap" THEN "launches" ELSE "time"
      <4>2. starved' = starved \cup {<<job.iter, why>>} /\ UNCHANGED <<setting, strayed, raised, faults, deaths>>
        BY <1>1, <3>5, <4>1, Zenon DEF RejectLaunch
      <4>3. why \in Causes
        BY DEF Causes
      <4> QED
        BY <4>2, <4>3
    <3> QED
      BY <3>1, <3>3, <3>4, <3>5
  <2>2. UNCHANGED <<setting, strayed, raised, faults, deaths>> /\ starved' \subseteq Candidates \X Causes
    BY <1>0, <2>1 DEF Finish, FinishUnmeasured
  <2>3. strayed' \in BOOLEAN
    BY <1>a, <2>2
  <2> QED
    BY <1>0, <1>1, <2>2, <2>3 DEF RejectLaunch
<1>2. CASE RefuseTraining
  <2>1. strayed' \in BOOLEAN
    BY <1>2, Zenon DEF RefuseTraining
  <2>2. starved' \subseteq Candidates \X Causes /\ UNCHANGED <<durable, setting, raised, faults, deaths>>
    BY <1>0, <1>2 DEF RefuseTraining
  <2> QED
    BY <1>0, <2>1, <2>2
<1>3. CASE RefusePrediction \/ RestoreFailure
  <2>1. UNCHANGED <<durable, setting, starved, strayed, raised, faults, deaths>>
    BY <1>3 DEF RefusePrediction, RestoreFailure
  <2>2. strayed' \in BOOLEAN
    BY <1>a, <2>1
  <2> QED
    BY <1>0, <2>1, <2>2
<1>4. CASE Falter
  <2>1. strayed' = (strayed \/ exec[job.iter][job.rung] = "none")
    BY <1>4 DEF Falter
  <2>2. strayed' \in BOOLEAN
    BY <2>1, Zenon
  <2>3. faults' \in 0 .. MaxFaults /\ UNCHANGED <<durable, setting, starved, raised, deaths>>
    BY <1>0, <1>4 DEF Falter
  <2> QED
    BY <1>0, <2>2, <2>3
<1> QED
  BY <1>1, <1>2, <1>3, <1>4

\* Whether a launch was counted without a charge.
LEMMA TrainSeen ==
  ASSUME Train
  PROVE  strayed' \in BOOLEAN
BY Zenon DEF Train

\* Types and knowledge are kept together.
LEMMA StepKeeps == TypeOK /\ IInv /\ [Next]_vars => TypeOK' /\ IInv'
<1> SUFFICES ASSUME TypeOK, IInv, [Next]_vars PROVE TypeOK' /\ IInv'
  OBVIOUS
<1>0. Stored /\ Set /\ Hand /\ Seen
  BY TypeParts
<1>a. /\ job \in Job /\ phase \in Phases /\ job.used \in Nat /\ limits.launches \in Nat
      /\ job.used <= limits.launches /\ 0 <= limits.launches
  <2>1. job \in Job /\ phase \in Phases /\ job.used <= limits.launches
    BY <1>0 DEF Hand
  <2> QED
    BY <2>1, Numbers
<1>s. ASSUME UNCHANGED durable PROVE Stored'
  BY <1>0, <1>s DEF Stored, durable
<1>t. ASSUME UNCHANGED setting PROVE Set' /\ limits' = limits
  BY <1>0, <1>t DEF Set, setting
<1>l. ASSUME UNCHANGED looks PROVE Seen'
  BY <1>0, <1>l DEF Seen, looks
<1> SUFFICES Stored' /\ Set' /\ Hand' /\ Seen' /\ IInv'
  BY TypeParts, PTL
<1>1. CASE Begin
  <2>1. Stored' /\ Set' /\ Hand' /\ IInv'
    BY <1>0, <1>1, <1>a, BeginStep DEF Stored, Set, setting, Hand
  <2>2. Seen'
    BY <1>0, <1>1, BeginStep DEF Seen
  <2> QED
    BY <2>1, <2>2
<1>20. CASE Overrun
  <2>1. Stored' /\ Set' /\ Hand' /\ IInv'
    BY <1>20, <1>a, <1>s, <1>t, OverrunStep DEF Hand
  <2>2. Seen'
    BY <1>0, <1>20, OverrunStep DEF Seen
  <2> QED
    BY <2>1, <2>2
<1>2. CASE Die
  <2>1. Stored' /\ Set' /\ Hand' /\ IInv'
    BY <1>2, <1>a, <1>s, <1>t, DieStep DEF Hand
  <2>2. Seen'
    BY <1>0, <1>2, DieStep DEF Seen
  <2> QED
    BY <2>1, <2>2
<1>3. CASE Request \/ ReturnRecord
  <2>1. UNCHANGED <<durable, setting, looks>>
    BY <1>3 DEF Request, ReturnRecord
  <2> QED
    BY <1>3, <1>s, <1>t, <1>l, <2>1, CountStep
<1>4. CASE Tick
  <2>1. UNCHANGED <<limits, durable, looks>> /\ clock < Expired /\ clock' = clock + 1
    BY <1>4 DEF Tick
  <2>2. Set'
    BY <1>0, <2>1 DEF Set, Clock, Expired
  <2> QED
    BY <1>4, <1>s, <1>l, <2>1, <2>2, CountStep
<1>5. CASE RejectLaunch \/ RefuseTraining \/ RefusePrediction \/ RestoreFailure \/ Falter
  <2>1. IInv' /\ job' \in Job /\ Kept /\ phase' \in Phases /\ verdict' \in [Candidates -> Verdicts]
    BY <1>5, EndsStep
  <2>2. UNCHANGED durable /\ UNCHANGED setting /\ UNCHANGED <<raised, deaths>>
        /\ starved' \subseteq Candidates \X Causes /\ strayed' \in BOOLEAN /\ faults' \in 0 .. MaxFaults
    BY <1>5, EndsSeen
  <2>3. Seen'
    BY <1>0, <2>1, <2>2 DEF Seen
  <2> QED
    BY <1>a, <1>s, <1>t, <2>1, <2>2, <2>3 DEF Hand, Kept
<1>6. CASE Train
  <2>1. IInv' /\ Stored' /\ UNCHANGED <<setting, phase, job, verdict, starved, raised, faults, deaths>>
    BY <1>6, TrainStep
  <2>2. Seen'
    BY <1>0, <1>6, <2>1, TrainSeen DEF Seen
  <2> QED
    BY <1>a, <1>t, <2>1, <2>2 DEF Hand
<1>7. CASE Evaluate
  <2>1. IInv' /\ Stored' /\ UNCHANGED setting /\ UNCHANGED <<phase, job>> /\ UNCHANGED looks
    BY <1>7, EvaluateStep
  <2> QED
    BY <1>a, <1>t, <1>l, <2>1 DEF Hand
<1>8. CASE JudgeScreen \/ JudgeFolds
  <2>1. IInv' /\ job' \in Job /\ job'.used = job.used /\ phase' \in Phases
        /\ verdict' \in [Candidates -> Verdicts] /\ UNCHANGED durable /\ UNCHANGED setting
        /\ UNCHANGED <<starved, strayed, raised, faults, deaths>>
    BY <1>8, ScreenStep, FoldsStep
  <2>2. Seen'
    BY <1>0, <2>1 DEF Seen
  <2> QED
    BY <1>a, <1>s, <1>t, <2>1, <2>2 DEF Hand
<1>9. CASE ReserveQuery
  <2>1. /\ IInv' /\ job' \in Job /\ job'.used = job.used /\ phase' \in Phases
        /\ query' \in [Candidates -> {"none", "charged", "published"}]
        /\ UNCHANGED limits /\ UNCHANGED looks
    BY <1>9, ReserveStep
  <2>2. UNCHANGED <<exec, charged, record, failure, lineage, setting>>
    BY <1>9 DEF ReserveQuery
  <2>3. Stored'
    BY <1>0, <2>1, <2>2 DEF Stored
  <2>4. UNCHANGED setting
    BY <2>2
  <2> QED
    BY <1>a, <1>t, <1>l, <2>1, <2>3, <2>4 DEF Hand
<1>10. CASE JudgeSeed
  <2>1. /\ IInv' /\ job' \in Job /\ job'.used = job.used /\ phase' \in Phases
        /\ UNCHANGED durable /\ UNCHANGED setting /\ UNCHANGED looks
    BY <1>10, SeedStep
  <2> QED
    BY <1>a, <1>s, <1>t, <1>l, <2>1 DEF Hand
<1>11. CASE SettleFailed
  <2>1. /\ IInv' /\ job' \in Job /\ job'.used <= limits.launches /\ phase' \in Phases
        /\ verdict' \in [Candidates -> Verdicts] /\ raised' \subseteq Errors
        /\ failure' \in [Candidates -> 0 .. LastSeed]
        /\ UNCHANGED <<exec, charged, record, query, lineage>> /\ UNCHANGED setting
        /\ UNCHANGED <<starved, strayed, faults, deaths>>
    BY <1>11, FailedStep
  <2>2. Seen' /\ Stored'
    BY <1>0, <2>1 DEF Seen, Stored
  <2> QED
    BY <1>t, <2>1, <2>2 DEF Hand
<1>12. CASE SettleDecided
  <2>1. /\ IInv' /\ job' \in Job /\ job'.used <= limits.launches /\ phase' \in Phases
        /\ verdict' \in [Candidates -> Verdicts] /\ raised' \subseteq Errors
        /\ query' \in [Candidates -> {"none", "charged", "published"}]
        /\ UNCHANGED <<exec, charged, record, failure, lineage>> /\ UNCHANGED setting
        /\ UNCHANGED <<starved, strayed, faults, deaths>>
    BY <1>12, DecidedStep
  <2>2. Seen' /\ Stored'
    BY <1>0, <2>1 DEF Seen, Stored
  <2> QED
    BY <1>t, <2>1, <2>2 DEF Hand
<1>13. CASE Close \/ End
  <2>1. /\ IInv' /\ job' \in Job /\ job'.used <= limits.launches /\ phase' \in Phases
        /\ raised' \subseteq Errors /\ UNCHANGED durable /\ UNCHANGED setting
        /\ UNCHANGED <<verdict, starved, strayed, faults, deaths>>
    BY <1>13, CloseIteration, EndStep
  <2>2. Seen'
    BY <1>0, <2>1 DEF Seen
  <2> QED
    BY <1>s, <1>t, <2>1, <2>2 DEF Hand
<1>14. CASE Follow
  <2>1. /\ IInv' /\ job' \in Job /\ job'.used = job.used /\ phase' \in Phases
        /\ lineage' \in [Candidates -> {"none", "retained", "fresh", "stale"}]
        /\ UNCHANGED <<exec, charged, record, query, failure>> /\ UNCHANGED setting /\ UNCHANGED looks
    BY <1>14, FollowStep
  <2>2. Stored'
    BY <1>0, <2>1 DEF Stored
  <2> QED
    BY <1>a, <1>t, <1>l, <2>1, <2>2 DEF Hand
<1>15. CASE UNCHANGED vars
  <2>1. UNCHANGED durable /\ UNCHANGED setting /\ UNCHANGED <<phase, job>> /\ UNCHANGED looks
    BY <1>15 DEF vars
  <2>2. Frame
    BY <2>1 DEF Frame, durable, setting
  <2>3. IInv'
    <3>1. RungAt' /\ BehindAt' /\ IncumbentAt' /\ ScoreAt'
      BY <2>1, <2>2, FrameKeeps DEF IInv, RungAt, BehindAt, IncumbentAt, Frame
    <3>2. ChargedAt' /\ QualifiedAt'
      BY <2>1, <2>2, FrameKeeps DEF IInv, ChargedAt, QualifiedAt, Frame
    <3>4. FirstAt'
      BY <2>1, FirstNext DEF IInv, FirstAt, After, setting
    <3>3. UndecidedAt'
      BY <2>1, <2>2 DEF IInv, UndecidedAt, Undecided, Frame
    <3> QED
      BY <3>1, <3>2, <3>3, <3>4 DEF IInv
  <2> QED
    BY <1>a, <1>s, <1>t, <1>l, <2>1, <2>3 DEF Hand
<1> QED
  BY <1>1, <1>2, <1>3, <1>4, <1>5, <1>6, <1>7, <1>8, <1>9, <1>10, <1>11, <1>12, <1>13, <1>14, <1>15, <1>20
     DEF Next

\* The invariant the theorems follow from.
LEMMA Inductive == Spec => [](TypeOK /\ IInv)
<1>1. Init => TypeOK /\ IInv
  BY InitType, InitKnown
<1>2. (TypeOK /\ IInv) /\ [Next]_vars => (TypeOK /\ IInv)'
  BY StepKeeps
<1> QED
  BY <1>1, <1>2, PTL DEF Spec

-----------------------------------------------------------------------------
(* What each step does, with the parts of the hand and of the ledgers one  *)
(* by one.                                                                 *)

\* The command is over or starts; the iteration ends without an outer primary; its bundle is
\* given up; its place changes and nothing else.
Fresh ==
  /\ job' = FreshJob
  /\ UNCHANGED <<exec, charged, record, query, failure, setting, verdict, starved, strayed, faults>>
Over == Fresh /\ phase' = "down" /\ UNCHANGED lineage
Blank(o) ==
  /\ ToClose /\ verdict' = [verdict EXCEPT ![job.iter] = o]
  /\ job'.conv.best = job.conv.best /\ job'.conv.flat = job.conv.flat
  /\ UNCHANGED <<exec, charged, record, query, lineage, setting>>
Cut == ToSettle /\ job'.conv = job.conv /\ UNCHANGED <<durable, setting, verdict>>
Still == job'.conv = job.conv /\ job'.stop = job.stop /\ UNCHANGED looks

\* An iteration that ends unmeasured, field by field.
LEMMA UnmeasuredFacts ==
  ASSUME TypeOK, NEW o \in Verdicts, NEW stop \in Stops, FinishUnmeasured(o, stop),
         UNCHANGED <<exec, charged, record, query, lineage>>
  PROVE  Blank(o) /\ job'.stop = stop /\ UNCHANGED <<starved, strayed, raised, faults>>
<1>1. job \in Job /\ job.conv \in Convergence
  BY Numbers DEF TypeOK
<1> DEFINE conv == UnmeasuredUpdate(job.conv)
<1>2. conv.best = job.conv.best /\ conv.flat = job.conv.flat
  BY <1>1 DEF UnmeasuredUpdate, Convergence
<1>3. Finish(o, conv, stop, job.incumbent)
  BY DEF FinishUnmeasured
<1> HIDE DEF conv
<1>4. ToClose /\ job'.conv = conv /\ job'.stop = stop
  BY <1>1, <1>3 DEF Finish, ToClose, Kept, Job
<1> QED
  BY <1>2, <1>3, <1>4 DEF Finish, Blank

\* A launch that does not fit ends the iteration on the folds and the bundle on the seeds.
LEMMA RejectFacts ==
  ASSUME TypeOK, RejectLaunch
  PROVE  /\ phase = "admit" /\ Admission # "none" /\ job'.stop = Admission
         /\ UNCHANGED <<durable, setting, strayed, raised, faults>>
         /\ \/ job.rung \in Folds /\ Blank("budget_rejected") /\ UNCHANGED starved
            \/ /\ job.rung \in Seeds /\ Cut
               /\ starved' = starved \cup
                    {<<job.iter, IF Admission = "launch_cap" THEN "launches" ELSE "time">>}
<1>a. phase = "admit" /\ Admission # "none" /\ UNCHANGED durable /\ job \in Job
  BY DEF RejectLaunch, TypeOK
<1>b. job.rung \in 1 .. 5
  BY Numbers
<1>c. /\ job.rung \in {FoldB, FoldA} \cup Seeds /\ FoldB # FoldA /\ FoldB \notin Seeds /\ FoldA \notin Seeds
      /\ Folds = {FoldB, FoldA}
  BY <1>b, RungNumbers
<1>0. /\ phase = "admit" /\ Admission # "none" /\ UNCHANGED durable /\ job \in Job
      /\ job.rung \in {FoldB, FoldA} \cup Seeds /\ FoldB # FoldA /\ FoldB \notin Seeds /\ FoldA \notin Seeds
      /\ Folds = {FoldB, FoldA}
  BY <1>a, <1>c
<1>1. Admission \in Stops /\ "budget_rejected" \in Verdicts
  BY AdmissionTyped DEF Verdicts
<1>2. UNCHANGED <<exec, charged, record, query, lineage>>
  BY <1>0 DEF durable
<1>3. CASE job.rung = FoldB
  <2>1. Finish("budget_rejected", job.conv, Admission, job.incumbent)
    BY <1>0, <1>3, Zenon DEF RejectLaunch
  <2> DEFINE a == Admission
  <2>2. a = Admission /\ Finish("budget_rejected", job.conv, a, job.incumbent)
    BY <2>1
  <2> HIDE DEF a
  <2>3. ToClose /\ job'.conv = job.conv /\ job'.stop = a
    BY <1>0, <2>2 DEF Finish, ToClose, Kept, Job
  <2> QED
    BY <1>0, <1>2, <1>3, <2>2, <2>3 DEF Finish, Blank
<1>4. CASE job.rung = FoldA
  <2>1. FinishUnmeasured("budget_rejected", Admission)
    BY <1>0, <1>4, Zenon DEF RejectLaunch
  <2>2. /\ Blank("budget_rejected") /\ job'.stop = Admission
        /\ UNCHANGED <<starved, strayed, raised, faults>>
    BY <1>1, <1>2, <2>1, UnmeasuredFacts
  <2> QED
    BY <1>0, <1>4, <2>2 DEF Blank
<1>5. CASE job.rung \in Seeds
  <2>0. job.rung # FoldB /\ job.rung # FoldA
    BY <1>0, <1>5
  <2>1. /\ GiveUp(job.elapsed, Admission)
        /\ starved' = starved \cup
             {<<job.iter, IF Admission = "launch_cap" THEN "launches" ELSE "time">>}
        /\ UNCHANGED <<setting, verdict, strayed, raised, faults>>
    BY <1>0, <1>5, <2>0, Zenon DEF RejectLaunch
  <2> DEFINE a == Admission
  <2>2. a = Admission /\ GiveUp(job.elapsed, a)
    BY <2>1
  <2> HIDE DEF a
  <2>3. ToSettle /\ job'.conv = job.conv /\ job'.stop = a
    BY <1>0, <2>2 DEF GiveUp, ToSettle, Kept, Job
  <2> QED
    BY <1>0, <1>5, <2>1, <2>2, <2>3 DEF Cut
<1> QED
  BY <1>0, <1>3, <1>4, <1>5

\* A call that raises does the same.
LEMMA FailedFacts ==
  ASSUME TypeOK, RunFailed, UNCHANGED <<durable, setting>>
  PROVE  /\ job'.stop = job.stop
         /\ \/ job.rung \in Folds /\ Blank("callback_failed")
            \/ job.rung \in Seeds /\ Cut
<1>a. job \in Job /\ job.conv \in Convergence /\ job.rung \in 1 .. 5
  BY Numbers DEF TypeOK
<1>b. job.rung \in Folds \/ job.rung \in Seeds
  BY <1>a, RungNumbers
<1>0. job \in Job /\ job.conv \in Convergence /\ (job.rung \in Folds \/ job.rung \in Seeds)
      /\ UNCHANGED <<exec, charged, record, query, lineage>>
  BY <1>a, <1>b DEF durable
<1>1. CASE job.rung \in Folds
  <2> DEFINE conv == UnmeasuredUpdate(job.conv)
  <2>1. conv.best = job.conv.best /\ conv.flat = job.conv.flat
    BY <1>0 DEF UnmeasuredUpdate, Convergence
  <2>2. job' = [job EXCEPT !.elapsed = job.elapsed + P95, !.conv = conv] /\ phase' = "close"
        /\ verdict' = [verdict EXCEPT ![job.iter] = "callback_failed"]
    BY <1>1 DEF RunFailed
  <2> HIDE DEF conv
  <2>3. ToClose /\ job'.conv = conv /\ job'.stop = job.stop
    BY <1>0, <2>2 DEF ToClose, Kept, Job
  <2> QED
    BY <1>0, <1>1, <2>1, <2>2, <2>3 DEF Blank
<1>2. CASE job.rung \notin Folds
  <2>1. GiveUp(job.elapsed + P95, job.stop) /\ verdict' = verdict
    BY <1>2 DEF RunFailed
  <2>2. ToSettle /\ job'.conv = job.conv /\ job'.stop = job.stop
    BY <1>0, <2>1 DEF GiveUp, ToSettle, Kept, Job
  <2> QED
    BY <1>0, <1>2, <2>1, <2>2 DEF Cut
<1> QED
  BY <1>1, <1>2

\* The four ways in which a call raises.
LEMMA CallFacts ==
  ASSUME TypeOK, RefuseTraining \/ RefusePrediction \/ RestoreFailure \/ Falter
  PROVE  /\ phase = "call" /\ record[job.iter][job.rung] = 0
         /\ UNCHANGED <<durable, setting, raised>> /\ job'.stop = job.stop
         /\ \/ job.rung \in Folds /\ Blank("callback_failed")
            \/ job.rung \in Seeds /\ Cut
         /\ faults <= faults'
         /\ exec[job.iter][job.rung] = "none" => strayed'
<1>1. /\ phase = "call" /\ record[job.iter][job.rung] = 0 /\ RunFailed
      /\ UNCHANGED <<durable, setting, raised>>
  BY DEF RefuseTraining, RefusePrediction, RestoreFailure, Falter, Pending
<1>2. faults \in Nat
  BY ScienceAssumption DEF TypeOK
<1>3. faults' = faults \/ faults' = faults + 1
  BY DEF RefuseTraining, RefusePrediction, RestoreFailure, Falter
<1>4. exec[job.iter][job.rung] = "none" => strayed'
  BY Zenon DEF RefuseTraining, RefusePrediction, RestoreFailure, Falter, Pending
<1> QED
  BY <1>1, <1>2, <1>3, <1>4, FailedFacts

\* The next rung, field by field.
LEMMA NextFacts ==
  ASSUME TypeOK, job.rung < 5, NextRung, phase' = "admit"
  PROVE  ToNext /\ Still
<1>0. job \in Job
  BY DEF TypeOK
<1> QED
  BY <1>0 DEF NextRung, ToNext, Still, Job

\* The verdict on a screen.
LEMMA ScreenFacts ==
  ASSUME TypeOK, JudgeScreen
  PROVE  /\ phase = "judge" /\ job.rung = 1
         /\ UNCHANGED <<durable, setting, starved, strayed, raised, faults>>
         /\ \/ /\ Screened(job.iter = 1, record[job.iter], Evidence(job.incumbent))
               /\ ToNext /\ Still
            \/ /\ ~Screened(job.iter = 1, record[job.iter], Evidence(job.incumbent))
               /\ Blank("screen_rejected") /\ job'.stop = "none"
<1>0. phase = "judge" /\ job.rung = 1 /\ UNCHANGED durable /\ UNCHANGED <<exec, charged, record, query, lineage>>
  BY RungNumbers DEF JudgeScreen, durable
<1>1. CASE Screened(job.iter = 1, record[job.iter], Evidence(job.incumbent))
  <2>1. NextRung /\ phase' = "admit" /\ UNCHANGED setting
    BY <1>1 DEF JudgeScreen
  <2>2. ToNext /\ Still
    BY <1>0, <2>1, NextFacts
  <2> QED
    BY <1>0, <1>1, <2>1, <2>2 DEF Still, looks
<1>2. CASE ~Screened(job.iter = 1, record[job.iter], Evidence(job.incumbent))
  <2>1. FinishUnmeasured("screen_rejected", "none")
    BY <1>2 DEF JudgeScreen
  <2>2. "screen_rejected" \in Verdicts /\ "none" \in Stops
    BY DEF Verdicts, Stops
  <2>3. /\ Blank("screen_rejected") /\ job'.stop = "none"
        /\ UNCHANGED <<starved, strayed, raised, faults>>
    BY <1>0, <2>1, <2>2, UnmeasuredFacts
  <2> QED
    BY <1>0, <1>2, <2>3 DEF Blank
<1> QED
  BY <1>1, <1>2

\* The verdict on both folds.
LEMMA FoldsFacts ==
  ASSUME TypeOK, JudgeFolds
  PROVE  /\ phase = "judge" /\ job.rung = 2
         /\ UNCHANGED <<durable, setting, starved, strayed, raised, faults>>
         /\ \/ /\ MayPromote /\ BundleAdmission = "none"
               /\ phase' = "reserve" /\ UNCHANGED <<job, looks>>
            \/ ~MayPromote /\ Blank("inner_rejected") /\ job'.stop = "none"
            \/ /\ MayPromote /\ BundleAdmission # "none"
               /\ Blank("budget_rejected") /\ job'.stop = BundleAdmission
<1>0. phase = "judge" /\ job.rung = 2 /\ UNCHANGED durable /\ UNCHANGED <<exec, charged, record, query, lineage>>
  BY RungNumbers DEF JudgeFolds, durable
<1>1. /\ "inner_rejected" \in Verdicts /\ "budget_rejected" \in Verdicts
      /\ "none" \in Stops /\ BundleAdmission \in Stops
  BY AdmissionTyped DEF Verdicts, Stops
<1>2. CASE ~MayPromote
  <2>1. FinishUnmeasured("inner_rejected", "none")
    BY <1>2, Zenon DEF JudgeFolds
  <2>2. /\ Blank("inner_rejected") /\ job'.stop = "none"
        /\ UNCHANGED <<starved, strayed, raised, faults>>
    BY <1>0, <1>1, <2>1, UnmeasuredFacts
  <2> QED
    BY <1>0, <1>2, <2>2 DEF Blank
<1>3. CASE MayPromote /\ BundleAdmission # "none"
  <2>1. FinishUnmeasured("budget_rejected", BundleAdmission)
    BY <1>3, Zenon DEF JudgeFolds
  <2>2. /\ Blank("budget_rejected") /\ job'.stop = BundleAdmission
        /\ UNCHANGED <<starved, strayed, raised, faults>>
    BY <1>0, <1>1, <2>1, UnmeasuredFacts
  <2> QED
    BY <1>0, <1>3, <2>2 DEF Blank
<1>4. CASE MayPromote /\ BundleAdmission = "none"
  <2>1. phase' = "reserve" /\ UNCHANGED <<setting, job, looks>>
    BY <1>4, Zenon DEF JudgeFolds
  <2> QED
    BY <1>0, <1>4, <2>1 DEF looks
<1> QED
  BY <1>2, <1>3, <1>4

\* The query is charged, if it is not, and the bundle begins.
LEMMA ReserveFacts ==
  ASSUME TypeOK, IInv, ReserveQuery
  PROVE  /\ phase = "reserve" /\ job.rung = 2 /\ ToNext /\ Still
         /\ UNCHANGED <<exec, charged, record, failure, lineage, setting>>
         /\ query'[job.iter] = (IF query[job.iter] = "none" THEN "charged" ELSE query[job.iter])
         /\ \A c \in Candidates : c # job.iter => query'[c] = query[c]
<1>1. phase = "reserve" /\ job.rung = 2 /\ job.iter \in Candidates
      /\ query \in [Candidates -> {"none", "charged", "published"}]
  BY Numbers, RungNumbers DEF ReserveQuery, IInv, RungAt, TypeOK
<1>2. /\ UNCHANGED <<exec, charged, record, failure, lineage, setting>> /\ phase' = "admit" /\ NextRung
      /\ query' = [query EXCEPT ![job.iter] = IF query[job.iter] = "none" THEN "charged" ELSE query[job.iter]]
  BY DEF ReserveQuery
<1>3. ToNext /\ Still
  BY <1>1, <1>2, NextFacts
<1> QED
  BY <1>1, <1>2, <1>3

\* The verdict on a seed: the next one, or the bundle is complete.
LEMMA SeedFacts ==
  ASSUME TypeOK, JudgeSeed
  PROVE  /\ phase = "judge" /\ job.rung \in 3 .. 5 /\ UNCHANGED <<durable, setting, looks>>
         /\ \/ job.rung < 5 /\ ToNext /\ Still
            \/ job.rung = 5 /\ phase' = "settle" /\ UNCHANGED job
<1>1. phase = "judge" /\ job.rung \in 3 .. 5 /\ UNCHANGED <<durable, setting>> /\ LastSeed = 5
  BY RungNumbers DEF JudgeSeed
<1>2. CASE job.rung < 5
  <2>1. NextRung /\ phase' = "admit"
    BY <1>1, <1>2 DEF JudgeSeed
  <2>2. ToNext /\ Still
    BY <1>2, <2>1, NextFacts
  <2> QED
    BY <1>1, <1>2, <2>2 DEF Still
<1>3. CASE ~(job.rung < 5)
  BY <1>1, <1>3 DEF JudgeSeed
<1> QED
  BY <1>2, <1>3

\* A contradiction ends the command; otherwise the failure of the bundle is recorded.
LEMMA SettleFailedFacts ==
  ASSUME TypeOK, IInv, SettleFailed
  PROVE  /\ phase = "settle" /\ job.cut /\ job.rung \in 3 .. 5
         /\ UNCHANGED <<exec, charged, record, query, lineage, setting, starved, strayed, faults>>
         /\ \/ /\ query[job.iter] = "published" \/ failure[job.iter] \notin {0, job.rung - 1}
               /\ Over /\ raised' = raised \cup {"contradiction"}
            \/ /\ Blank("outer_failed") /\ UNCHANGED raised
               /\ query[job.iter] # "published" /\ failure[job.iter] \in {0, job.rung - 1}
               /\ failure'[job.iter] = job.rung - 1
               /\ \A c \in Candidates : c # job.iter => failure'[c] = failure[c]
               /\ job'.stop \in {job.stop, "launch_cap"}
<1>0. /\ phase = "settle" /\ job.cut /\ job.rung \in 3 .. 5 /\ job.iter \in Candidates
      /\ UNCHANGED <<exec, charged, record, query, lineage>> /\ failure \in [Candidates -> 0 .. LastSeed]
      /\ Runs = job.rung - 1
  BY Numbers, RungNumbers DEF SettleFailed, IInv, RungAt, TypeOK, Runs
<1>1. CASE query[job.iter] = "published" \/ failure[job.iter] \notin {0, Runs}
  <2>1. Raise("contradiction") /\ UNCHANGED failure
    BY <1>1, Zenon DEF SettleFailed
  <2> QED
    BY <1>0, <1>1, <2>1 DEF Raise, Over, Fresh, setting
<1>2. CASE ~(query[job.iter] = "published" \/ failure[job.iter] \notin {0, Runs})
  <2>1. failure' = [failure EXCEPT ![job.iter] = Runs] /\ FinishUnmeasured("outer_failed", FailedStop)
    BY <1>2, Zenon DEF SettleFailed
  <2>2. "outer_failed" \in Verdicts /\ FailedStop \in Stops /\ FailedStop \in {job.stop, "launch_cap"}
    <3>1. job.stop \in Stops
      BY Numbers
    <3> QED
      BY <3>1 DEF Verdicts, FailedStop, Stops
  <2>3. Blank("outer_failed") /\ job'.stop = FailedStop /\ UNCHANGED <<starved, strayed, raised, faults>>
    BY <1>0, <2>1, <2>2, UnmeasuredFacts
  <2>4. failure'[job.iter] = job.rung - 1 /\ \A c \in Candidates : c # job.iter => failure'[c] = failure[c]
    <3> DEFINE n == Runs
    <3>1. failure' = [failure EXCEPT ![job.iter] = n] /\ n = job.rung - 1
      BY <1>0, <2>1
    <3> HIDE DEF n
    <3> QED
      BY <1>0, <3>1
  <2> QED
    BY <1>0, <1>2, <2>2, <2>3, <2>4 DEF Blank
<1> QED
  BY <1>1, <1>2

\* The verdict on the bundle in hand.
Outcome == Decide(job.iter = 1, record[job.iter], Evidence(job.incumbent), FallbackEvidence)

\* A contradiction ends the command; otherwise the bundle is decided.
LEMMA SettleDecidedFacts ==
  ASSUME TypeOK, IInv, SettleDecided
  PROVE  /\ phase = "settle" /\ ~job.cut /\ job.rung = 5
         /\ UNCHANGED <<exec, charged, record, failure, lineage, setting, starved, strayed, faults>>
         /\ \/ failure[job.iter] # 0 /\ Over /\ raised' = raised \cup {"contradiction"}
            \/ /\ failure[job.iter] = 0 /\ phase' = "close" /\ UNCHANGED raised
               /\ query'[job.iter] = "published"
               /\ \A c \in Candidates : c # job.iter => query'[c] = query[c]
               /\ Outcome \in Measured
               /\ Outcome \in Promotions => SeedTotal(record[job.iter]) > SeedTotal(Evidence(job.incumbent))
               /\ verdict' = [verdict EXCEPT ![job.iter] = Outcome]
               /\ job'.iter = job.iter /\ job'.rung = job.rung /\ job'.used = job.used
               /\ job'.cut = job.cut /\ job'.stop = job.stop
               /\ job'.conv = MeasuredUpdate(job.conv, SeedTotal(record[job.iter]))
               /\ job'.incumbent = IF Outcome \in Promotions THEN job.iter ELSE job.incumbent
<1>0. /\ phase = "settle" /\ ~job.cut /\ job.rung = 5 /\ job.iter \in Candidates
      /\ UNCHANGED <<exec, charged, record, failure, lineage>> /\ job \in Job
      /\ query \in [Candidates -> {"none", "charged", "published"}]
  BY RungNumbers DEF SettleDecided, IInv, RungAt, TypeOK, Job
<1>1. CASE failure[job.iter] # 0
  <2>1. Raise("contradiction") /\ UNCHANGED query
    BY <1>1, Zenon DEF SettleDecided
  <2> QED
    BY <1>0, <1>1, <2>1 DEF Raise, Over, Fresh, setting
<1>2. CASE failure[job.iter] = 0
  <2> DEFINE o == Outcome
             conv == MeasuredUpdate(job.conv, SeedTotal(record[job.iter]))
             i == IF o \in Promotions THEN job.iter ELSE job.incumbent
  <2>1. query' = [query EXCEPT ![job.iter] = "published"] /\ Finish(o, conv, job.stop, i)
    BY <1>2, Zenon DEF SettleDecided, Outcome
  <2>2. /\ o \in Measured
        /\ o \in Promotions => SeedTotal(record[job.iter]) > SeedTotal(Evidence(job.incumbent))
    <3>1. (job.iter = 1) \in BOOLEAN
      OBVIOUS
    <3>2. /\ o \in Measured
          /\ o \in Promotions => Replaces(record[job.iter], Evidence(job.incumbent))
      BY <3>1, DecideFacts, Zenon DEF Outcome
    <3> QED
      BY <3>2, Zenon DEF Replaces
  <2>3. o = Outcome /\ conv = MeasuredUpdate(job.conv, SeedTotal(record[job.iter]))
        /\ i = IF o \in Promotions THEN job.iter ELSE job.incumbent
    OBVIOUS
  <2> HIDE DEF o, conv, i
  <2>4. /\ job'.iter = job.iter /\ job'.rung = job.rung /\ job'.used = job.used
        /\ job'.cut = job.cut /\ job'.stop = job.stop /\ job'.conv = conv /\ job'.incumbent = i
    BY <1>0, <2>1 DEF Finish, Job
  <2>5. query'[job.iter] = "published" /\ \A c \in Candidates : c # job.iter => query'[c] = query[c]
    BY <1>0, <2>1
  <2> QED
    BY <1>0, <1>2, <2>1, <2>2, <2>3, <2>4, <2>5 DEF Finish
<1> QED
  BY <1>1, <1>2

\* A command starts; what an earlier one prepared is stale.
LEMMA BeginFacts ==
  ASSUME TypeOK, Begin
  PROVE  /\ phase = "down" /\ Fresh /\ phase' \in {"refused", "closed", "admit"}
         /\ \A c \in Candidates : lineage'[c] = IF lineage[c] = "fresh" THEN "stale" ELSE lineage[c]
         /\ \/ Cardinality(Queried) > 1 /\ raised' = raised \cup {"several_queries"}
            \/ UNCHANGED raised
<1>1. phase = "down" /\ Fresh
      /\ lineage' = [c \in Candidates |-> IF lineage[c] = "fresh" THEN "stale" ELSE lineage[c]]
  BY DEF Begin, Fresh
<1>2. phase' \in {"refused", "closed", "admit"}
  BY Zenon DEF Begin
<1>3. \/ Cardinality(Queried) > 1 /\ raised' = raised \cup {"several_queries"}
      \/ UNCHANGED raised
  BY Zenon DEF Begin
<1> QED
  BY <1>1, <1>2, <1>3

\* A command is refused the time it has.
LEMMA OverrunFacts ==
  ASSUME Overrun
  PROVE  /\ phase = "admit" /\ job.rung = FoldB /\ job.elapsed > Wall /\ Over
         /\ raised' = raised \cup {"overrun"}
BY DEF Overrun, Raise, Over, Fresh, durable

\* A command dies.
LEMMA DieFacts ==
  ASSUME Die
  PROVE  Running /\ Over /\ UNCHANGED raised
BY DEF Die, Over, Fresh, durable

\* A launch is counted, and fits.
LEMMA RequestFacts ==
  ASSUME TypeOK, Request
  PROVE  /\ phase = "admit" /\ phase' = "call" /\ Admission = "none"
         /\ UNCHANGED <<durable, setting>> /\ Still
         /\ job'.iter = job.iter /\ job'.rung = job.rung /\ job'.cut = job.cut
         /\ job'.incumbent = job.incumbent /\ job'.elapsed = job.elapsed /\ job'.used = job.used + 1
<1>1. job \in Job
  BY DEF TypeOK
<1> QED
  BY <1>1 DEF Request, Still, Job

\* The record of the run comes back.
LEMMA ReturnFacts ==
  ASSUME TypeOK, ReturnRecord
  PROVE  /\ phase = "call" /\ phase' = "judge" /\ record[job.iter][job.rung] # 0
         /\ UNCHANGED <<durable, setting>> /\ Still /\ Kept
         /\ job'.cut = job.cut
         /\ job'.elapsed = job.elapsed + limits.seconds[job.iter][job.rung]
<1>1. job \in Job
  BY DEF TypeOK
<1> QED
  BY <1>1 DEF ReturnRecord, Still, Kept, Job

\* A training leaves an execution, and a charge or a stray launch.
LEMMA TrainFacts ==
  ASSUME TypeOK, Train
  PROVE  /\ phase = "call" /\ record[job.iter][job.rung] = 0 /\ exec[job.iter][job.rung] = "none"
         /\ ClockAdmits(job.rung) /\ BudgetAdmits(job.rung)
         /\ exec'[job.iter][job.rung] # "none"
         /\ \A c \in Candidates, r \in Rungs :
              c # job.iter \/ r # job.rung => exec'[c][r] = exec[c][r]
         /\ \/ charged' = charged \cup {<<job.iter, job.rung>>} /\ (strayed => strayed')
            \/ charged' = charged /\ strayed' /\ exec'[job.iter][job.rung] = "failed"
         /\ UNCHANGED <<record, query, failure, lineage, setting, phase, job, verdict, starved,
                        raised, faults>>
<1>1. /\ phase = "call" /\ record[job.iter][job.rung] = 0 /\ exec[job.iter][job.rung] = "none"
      /\ ClockAdmits(job.rung) /\ BudgetAdmits(job.rung)
      /\ job.iter \in Candidates /\ job.rung \in Rungs
      /\ exec \in [Candidates -> [Rungs -> {"none", "trained", "failed"}]]
      /\ UNCHANGED <<record, query, failure, lineage, setting, phase, job, verdict, starved,
                     raised, faults>>
  BY Numbers DEF Train, Pending, TypeOK
<1>2. PICK state \in {"trained", "failed"}, released \in BOOLEAN :
        /\ state = "trained" => released
        /\ exec' = [exec EXCEPT ![job.iter][job.rung] = state]
        /\ charged' = IF released THEN charged \cup {<<job.iter, job.rung>>} ELSE charged
        /\ strayed' = (strayed \/ ~released)
  BY DEF Train
<1>3. exec'[job.iter][job.rung] = state
  BY <1>1, <1>2
<1>4. \A c \in Candidates, r \in Rungs :
        c # job.iter \/ r # job.rung => exec'[c][r] = exec[c][r]
  BY <1>1, <1>2
<1>5. \/ charged' = charged \cup {<<job.iter, job.rung>>} /\ (strayed => strayed')
      \/ charged' = charged /\ strayed' /\ state = "failed"
  <2>1. CASE released
    BY <1>2, <2>1, Zenon
  <2>2. CASE ~released
    <3>1. state = "failed" /\ charged' = charged
      BY <1>2, <2>2
    <3>2. strayed'
      BY <1>2, <2>2, Zenon
    <3> QED
      BY <3>1, <3>2
  <2> QED
    BY <2>1, <2>2
<1> QED
  BY <1>1, <1>2, <1>3, <1>4, <1>5

\* A trained run gets its score or fails for good.
LEMMA EvaluateFacts ==
  ASSUME TypeOK, Evaluate
  PROVE  /\ phase = "call" /\ record[job.iter][job.rung] = 0 /\ exec[job.iter][job.rung] = "trained"
         /\ ClockAdmits(job.rung)
         /\ \A c \in Candidates, r \in Rungs : c # job.iter \/ r # job.rung =>
              exec'[c][r] = exec[c][r] /\ record'[c][r] = record[c][r]
         /\ \/ UNCHANGED exec /\ record'[job.iter][job.rung] # 0
            \/ UNCHANGED record /\ exec'[job.iter][job.rung] = "failed"
         /\ UNCHANGED <<charged, query, failure, lineage, setting, phase, job, looks>>
<1>1. /\ phase = "call" /\ record[job.iter][job.rung] = 0 /\ exec[job.iter][job.rung] = "trained"
      /\ ClockAdmits(job.rung) /\ job.iter \in Candidates /\ job.rung \in Rungs
      /\ exec \in [Candidates -> [Rungs -> {"none", "trained", "failed"}]]
      /\ record \in [Candidates -> [Rungs -> Nat]]
      /\ UNCHANGED <<charged, query, failure, lineage, setting, phase, job, looks>>
  BY Numbers DEF Evaluate, Pending, TypeOK
<1>2. CASE UNCHANGED record
  <2>1. CASE exec' = [exec EXCEPT ![job.iter][job.rung] = "failed"]
    BY <1>1, <1>2, <2>1
  <2>2. CASE exec' # [exec EXCEPT ![job.iter][job.rung] = "failed"]
    <3>1. UNCHANGED exec
      BY <2>2 DEF Evaluate
    <3>2. PICK score \in Scores[job.rung] : record' = [record EXCEPT ![job.iter][job.rung] = score]
      BY <2>2 DEF Evaluate
    <3>3. score # 0
      BY <1>1, ScienceAssumption
    <3>4. record'[job.iter][job.rung] = score
      BY <1>1, <3>2
    <3> QED
      BY <1>1, <1>2, <3>3, <3>4
  <2> QED
    BY <2>1, <2>2
<1>3. CASE ~UNCHANGED record
  <2>1. UNCHANGED exec
    BY <1>3 DEF Evaluate
  <2>2. PICK score \in Scores[job.rung] : record' = [record EXCEPT ![job.iter][job.rung] = score]
    BY <1>3 DEF Evaluate
  <2>3. score # 0
    BY <1>1, ScienceAssumption
  <2>4. record'[job.iter][job.rung] = score
    BY <1>1, <2>2
  <2>5. \A c \in Candidates, r \in Rungs : c # job.iter \/ r # job.rung => record'[c][r] = record[c][r]
    BY <1>1, <2>2
  <2> QED
    BY <1>1, <2>1, <2>3, <2>4, <2>5
<1> QED
  BY <1>2, <1>3

\* The first iteration ends only if the cursors agree.
LEMMA CloseFacts ==
  ASSUME Close
  PROVE  /\ phase = "close" /\ UNCHANGED durable
         /\ \/ /\ job.iter = First /\ ~CursorAgrees
               /\ Over /\ raised' = raised \cup {"cursor"}
            \/ /\ job.iter = First => CursorAgrees
               /\ phase' = "follow" /\ UNCHANGED <<setting, job, looks>>
<1>1. phase = "close" /\ UNCHANGED durable
  BY DEF Close
<1>2. CASE job.iter = First /\ ~CursorAgrees
  <2>1. Raise("cursor")
    BY <1>2, Zenon DEF Close
  <2> QED
    BY <1>1, <1>2, <2>1 DEF Raise, Over, Fresh, durable
<1>3. CASE ~(job.iter = First /\ ~CursorAgrees)
  <2>1. phase' = "follow" /\ UNCHANGED <<setting, job, looks>>
    BY <1>3, Zenon DEF Close
  <2> QED
    BY <1>1, <1>3, <2>1
<1> QED
  BY <1>2, <1>3

\* The science is complete only if the cursors agree.
LEMMA EndFacts ==
  ASSUME End
  PROVE  /\ phase = "end" /\ UNCHANGED durable
         /\ \/ ~CursorAgrees /\ Over /\ raised' = raised \cup {"cursor"}
            \/ CursorAgrees /\ phase' = "complete" /\ UNCHANGED <<setting, job, looks>>
<1>1. phase = "end" /\ UNCHANGED durable
  BY DEF End
<1>2. CASE ~CursorAgrees
  <2>1. Raise("cursor")
    BY <1>2, Zenon DEF End
  <2> QED
    BY <1>1, <1>2, <2>1 DEF Raise, Over, Fresh, durable
<1>3. CASE CursorAgrees
  <2>1. phase' = "complete" /\ UNCHANGED <<setting, job, looks>>
    BY <1>3, Zenon DEF End
  <2> QED
    BY <1>1, <1>3, <2>1
<1> QED
  BY <1>2, <1>3

\* What it takes to go on, and to report convergence.
LEMMA TerminalFacts ==
  ASSUME TypeOK
  PROVE  /\ Terminal = "none" =>
              ~Converged(job.conv) /\ job.stop = "none" /\ job.iter < MaxIterations
         /\ Terminal = "converged" => Converged(job.conv) \/ job.stop = "converged"
<1>0. job.iter \in Nat
  BY Numbers
<1>1. CASE Converged(job.conv)
  <2>1. Terminal = "converged"
    BY <1>1, Zenon DEF Terminal, ShouldStop
  <2> QED
    BY <1>1, <2>1
<1>2. CASE ~Converged(job.conv) /\ ShouldStop(job.conv)
  <2>1. Terminal = "not_promotable"
    BY <1>2, Zenon DEF Terminal
  <2> QED
    BY <2>1
<1>3. CASE ~ShouldStop(job.conv) /\ job.iter >= MaxIterations
  <2>1. ~Converged(job.conv) /\ ~(job.iter < MaxIterations)
    BY <1>0, <1>3 DEF ShouldStop
  <2>2. Terminal = "iteration_cap"
    BY <1>3, <2>1, Zenon DEF Terminal
  <2> QED
    BY <2>2
<1>4. CASE ~ShouldStop(job.conv) /\ job.iter < MaxIterations
  <2>1. ~Converged(job.conv) /\ ~(job.iter >= MaxIterations)
    BY <1>0, <1>4 DEF ShouldStop
  <2>2. Terminal = IF job.used >= limits.launches THEN "launch_cap"
                   ELSE IF job.stop # "none" THEN job.stop
                   ELSE IF Cardinality(Queried) >= MaxQueries THEN "query_limit"
                   ELSE IF clock = Expired THEN "hard_deadline"
                   ELSE IF clock >= InReserve THEN "reserve"
                   ELSE "none"
    BY <1>4, <2>1, Zenon DEF Terminal
  <2> QED
    BY <1>4, <2>1, <2>2
<1> QED
  BY <1>0, <1>1, <1>2, <1>3, <1>4

\* The campaign ends, a lineage is rejected, or another candidate is taken up.
Hold ==
  /\ job'.used = job.used /\ job'.elapsed = job.elapsed
  /\ job'.incumbent = job.incumbent /\ job'.conv = job.conv

\* The cases of Follow, field by field.
LEMMA FollowFacts ==
  ASSUME TypeOK, Follow
  PROVE  /\ phase = "follow" /\ Hold
         /\ UNCHANGED <<exec, charged, record, query, failure, setting, looks>>
         /\ \/ /\ phase' = "end" /\ UNCHANGED lineage
               /\ job'.iter = job.iter /\ job'.rung = job.rung /\ job'.cut = job.cut
               /\ job'.stop = "provider" \/ (job'.stop = Terminal /\ Terminal # "none")
            \/ /\ Terminal = "none" /\ job.iter + 1 \in Candidates
               /\ lineage[job.iter + 1] = "none"
               /\ job'.iter = job.iter + 1 /\ job'.stop = job.stop
               /\ \/ /\ phase' = "follow" /\ UNCHANGED lineage
                     /\ job'.rung = job.rung /\ job'.cut = job.cut
                  \/ /\ phase' = "admit" /\ job'.rung = 1 /\ ~job'.cut
                     /\ lineage' = [lineage EXCEPT ![job.iter + 1] = "fresh"]
<1>0. /\ phase = "follow" /\ job \in Job /\ job.iter \in Candidates /\ job.iter \in Nat /\ FoldB = 1
      /\ UNCHANGED <<exec, charged, record, query, failure, setting, looks>>
  BY Numbers, RungNumbers DEF Follow, TypeOK
<1>1. CASE Terminal # "none"
  <2> DEFINE t == Terminal
  <2>1. job' = [job EXCEPT !.stop = t] /\ phase' = "end" /\ lineage' = lineage
    BY <1>1 DEF Follow, Stop
  <2>2. t = Terminal
    OBVIOUS
  <2> HIDE DEF t
  <2> QED
    BY <1>0, <1>1, <2>1, <2>2 DEF Job, Hold
<1>2. CASE Terminal = "none"
  <2> DEFINE next == job.iter + 1
  <2>1. next \in Candidates /\ next = job.iter + 1
    BY <1>0, <1>2, TerminalTyped
  <2>2. \/ /\ lineage[next] = "none"
           /\ lineage' = [lineage EXCEPT ![next] = "fresh"]
           /\ job' = [job EXCEPT !.iter = next, !.rung = FoldB, !.cut = FALSE]
           /\ phase' = "admit"
        \/ /\ lineage[next] = "none"
           /\ job' = [job EXCEPT !.iter = next]
           /\ UNCHANGED <<lineage, phase>>
        \/ job' = [job EXCEPT !.stop = "provider"] /\ phase' = "end" /\ UNCHANGED lineage
    BY <1>2 DEF Follow, Stop
  <2> HIDE DEF next
  <2>3. CASE /\ lineage[next] = "none"
             /\ lineage' = [lineage EXCEPT ![next] = "fresh"]
             /\ job' = [job EXCEPT !.iter = next, !.rung = FoldB, !.cut = FALSE]
             /\ phase' = "admit"
    BY <1>0, <1>2, <2>1, <2>3 DEF Job, Hold
  <2>4. CASE /\ lineage[next] = "none"
             /\ job' = [job EXCEPT !.iter = next]
             /\ UNCHANGED <<lineage, phase>>
    BY <1>0, <1>2, <2>1, <2>4 DEF Job, Hold
  <2>5. CASE job' = [job EXCEPT !.stop = "provider"] /\ phase' = "end" /\ UNCHANGED lineage
    BY <1>0, <2>5 DEF Job, Hold
  <2> QED
    BY <2>2, <2>3, <2>4, <2>5
<1> QED
  BY <1>1, <1>2

-----------------------------------------------------------------------------
(* What steps have in common.                                              *)

Active == {"admit", "call", "judge", "reserve", "settle"}

\* What is durable only grows, and a step writes only what is of the iteration in hand.
Writes ==
  /\ limits' = limits /\ clock <= clock' /\ faults <= faults' /\ (strayed => strayed')
  /\ \A c \in Candidates, r \in Rungs :
       /\ exec[c][r] # "none" => exec'[c][r] # "none"
       /\ exec[c][r] = "none" /\ exec'[c][r] # "none" =>
            /\ phase = "call" /\ c = job.iter /\ r = job.rung /\ phase' = phase /\ job' = job
            /\ strayed' \/ <<c, r>> \in charged'
       /\ record[c][r] # 0 => record'[c][r] = record[c][r]
       /\ record'[c][r] # record[c][r] => phase = "call" /\ c = job.iter /\ r = job.rung
       /\ <<c, r>> \in charged => <<c, r>> \in charged'
       /\ <<c, r>> \in charged' =>
            <<c, r>> \in charged \/ (exec[c][r] = "none" /\ exec'[c][r] # "none")
  /\ \A c \in Candidates :
       /\ query[c] # "none" => query'[c] # "none"
       /\ query[c] = "published" => query'[c] = "published"
       /\ query'[c] # query[c] => c = job.iter /\ phase \in {"reserve", "settle"}
       /\ query'[c] = "published" =>
            query[c] = "published" \/ (c = job.iter /\ phase = "settle" /\ ~job.cut)
       /\ failure'[c] # failure[c] => c = job.iter /\ phase = "settle" /\ phase' = "close"
       /\ verdict'[c] # verdict[c] =>
            c = job.iter /\ phase \in {"admit", "call", "judge", "settle"} /\ phase' = "close"
       /\ verdict'[c] \in Measured => verdict[c] \in Measured \/ query'[c] = "published"

\* Where the command goes from where it is.
Stays == job'.iter = job.iter /\ UNCHANGED lineage
Ends ==
  /\ phase = "admit" => Admission # "none"
  /\ phase = "call" =>
       record[job.iter][job.rung] = 0 /\ (exec[job.iter][job.rung] = "none" => strayed')
  /\ phase = "judge" =>
       \/ job.rung = 1 /\ ~Screened(job.iter = 1, record[job.iter], Evidence(job.incumbent))
       \/ job.rung = 2 /\ ~(MayPromote /\ BundleAdmission = "none")
Moves ==
  /\ job'.rung = IF phase' = "admit" THEN job.rung + 1 ELSE job.rung
  /\ job'.used = IF phase' = "call" THEN job.used + 1 ELSE job.used
  /\ phase' # "settle" =>
       job'.elapsed = IF phase' = "judge" THEN job.elapsed + limits.seconds[job.iter][job.rung]
                      ELSE job.elapsed
  /\ UNCHANGED <<exec, charged, record>>
  /\ \/ phase = "admit" /\ phase' = "call" /\ Admission = "none"
     \/ phase = "call" /\ phase' = "judge" /\ record[job.iter][job.rung] # 0
     \/ /\ phase = "judge" /\ phase' = "admit" /\ job.rung = 1
        /\ Screened(job.iter = 1, record[job.iter], Evidence(job.incumbent))
     \/ phase = "judge" /\ phase' = "reserve" /\ job.rung = 2 /\ BundleAdmission = "none"
     \/ phase = "reserve" /\ phase' = "admit" /\ job.rung = 2
     \/ phase = "judge" /\ phase' = "admit" /\ job.rung \in {3, 4}
     \/ phase = "judge" /\ phase' = "settle" /\ job.rung = 5
     \/ phase \in {"admit", "call"} /\ phase' = "settle" /\ job.rung \in 3 .. 5 /\ Ends
Places ==
  \/ Over
  \/ /\ phase = "down" /\ Fresh /\ phase' \in {"refused", "closed", "admit"}
     /\ \A c \in Candidates : lineage'[c] = IF lineage[c] = "fresh" THEN "stale" ELSE lineage[c]
  \/ UNCHANGED <<phase, job, lineage, query>>
  \/ /\ Stays /\ phase \in Active \ {"settle"} /\ phase' \in Active
     /\ job'.rung = job.rung \/ (job'.rung = job.rung + 1 /\ job.rung < 5)
     /\ phase' = "admit" => job'.rung = job.rung + 1 /\ job.rung < 5
     /\ \A c \in Candidates : query[c] = "none" /\ query'[c] # "none" => job'.rung \in Seeds
     /\ phase' = "reserve" => MayPromote /\ UNCHANGED query
     /\ Moves
  \/ /\ Stays /\ phase \in Active \ {"reserve"} /\ phase' = "close"
     /\ job'.rung = job.rung /\ job'.used = job.used /\ Ends
  \/ Stays /\ job' = job /\ phase = "close" /\ phase' = "follow" /\ (job.iter = First => CursorAgrees)
  \/ Stays /\ phase = "follow" /\ phase' = "end" /\ job'.used = job.used
  \/ Stays /\ job' = job /\ phase = "end" /\ phase' = "complete"
  \/ /\ phase = "follow" /\ Terminal = "none" /\ job.iter + 1 \in Candidates /\ lineage[job.iter + 1] = "none"
     /\ job'.iter = job.iter + 1 /\ job'.used = job.used
     /\ \/ phase' = "follow" /\ UNCHANGED lineage
        \/ /\ phase' = "admit" /\ lineage' = [lineage EXCEPT ![job.iter + 1] = "fresh"]
           /\ job'.rung = 1

\* No verdict of an unmeasured iteration is measured.
LEMMA BlankVerdicts ==
  {"budget_rejected", "callback_failed", "screen_rejected", "inner_rejected", "outer_failed"}
    \cap (Measured \cup {"none"}) = {}
BY DEF Measured, Promotions

\* Each step keeps to this.
LEMMA StepShape ==
  ASSUME TypeOK, IInv, [Next]_vars
  PROVE  Writes /\ Places
<1>t. /\ exec \in [Candidates -> [Rungs -> {"none", "trained", "failed"}]]
      /\ record \in [Candidates -> [Rungs -> Nat]]
      /\ query \in [Candidates -> {"none", "charged", "published"}]
      /\ verdict \in [Candidates -> Verdicts] /\ job.iter \in Candidates /\ job.rung \in 1 .. 5
      /\ clock \in Nat /\ faults \in Nat
  <2>1. MaxFaults \in Nat
    BY ScienceAssumption
  <2>2. clock \in Nat /\ faults \in Nat
    BY <2>1 DEF TypeOK, Clock
  <2> QED
    BY <2>2, Numbers DEF TypeOK
<1>f. Fresh => Writes
  BY <1>t DEF Fresh, Writes, setting
<1>0. ASSUME UNCHANGED <<durable, limits, verdict, strayed, faults>>, clock <= clock'
      PROVE  Writes
  BY <1>0, <1>t DEF Writes, durable
<1>b. ASSUME NEW o, Blank(o), Ends, o \notin Measured, phase \in {"admit", "call", "judge", "settle"},
             strayed => strayed', faults <= faults',
             \A c \in Candidates : failure'[c] # failure[c] => c = job.iter /\ phase = "settle"
      PROVE  Writes /\ Places
  <2>1. phase' = "close" /\ job'.iter = job.iter /\ job'.rung = job.rung /\ job'.used = job.used
    BY <1>b DEF Blank, ToClose, Kept
  <2>2. \A c \in Candidates : verdict'[c] = IF c = job.iter THEN o ELSE verdict[c]
    BY <1>b, <1>t DEF Blank
  <2>3. UNCHANGED <<exec, charged, record, query, lineage, limits, clock>>
    BY <1>b DEF Blank, setting
  <2>4. Writes
    BY <1>b, <1>t, <2>1, <2>2, <2>3 DEF Writes
  <2>5. Places
    BY <1>b, <2>1, <2>3 DEF Places, Stays, Active
  <2> QED
    BY <2>4, <2>5
<1>c. ASSUME Cut, Ends, phase \in {"admit", "call"}, job.rung \in 3 .. 5, strayed => strayed', faults <= faults'
      PROVE  Writes /\ Places
  <2>1. /\ phase' = "settle" /\ job'.iter = job.iter /\ job'.rung = job.rung /\ job'.used = job.used
        /\ UNCHANGED <<exec, charged, record, lineage>>
    BY <1>c DEF Cut, ToSettle, Kept, durable
  <2>2. Writes
    BY <1>c, <1>t DEF Writes, Cut, durable, setting
  <2>3. Places
    BY <1>c, <2>1 DEF Places, Stays, Moves, Active, Cut, durable
  <2> QED
    BY <2>2, <2>3
<1>d. ASSUME UNCHANGED <<durable, setting>>, Still, phase \in Active \ {"settle"}, phase' \in Active,
             job'.iter = job.iter, Moves,
             \/ job'.rung = job.rung /\ phase' \notin {"admit", "reserve"}
             \/ ToNext /\ job.rung < 5
      PROVE  Writes /\ Places
  <2>1. UNCHANGED <<durable, limits, clock, verdict, strayed, faults, lineage, query>>
    BY <1>d DEF durable, setting, Still, looks
  <2>2. Writes
    BY <1>0, <1>t, <2>1
  <2>3. Places
    BY <1>d, <2>1 DEF Places, Stays, ToNext, Active
  <2> QED
    BY <2>2, <2>3
<1>n. Seeds = 3 .. 5
  BY RungNumbers
<1>1. CASE Begin
  BY <1>1, <1>f, BeginFacts DEF Places
<1>2. CASE Die \/ Overrun
  BY <1>2, <1>f, DieFacts, OverrunFacts DEF Places, Over
<1>3. CASE Tick \/ UNCHANGED vars
  <2>1. UNCHANGED <<durable, limits, phase, job, looks>> /\ clock <= clock'
    BY <1>3, <1>t DEF Tick, vars, setting
  <2>2. UNCHANGED <<phase, job, lineage, query, verdict, strayed, faults>>
    BY <2>1 DEF durable, looks
  <2> QED
    BY <1>0, <2>1, <2>2 DEF Places
<1>4. CASE Request
  <2>1. Moves
    BY <1>4, RequestFacts DEF Moves, durable
  <2> QED
    BY <1>4, <1>d, <2>1, RequestFacts DEF Active
<1>5. CASE ReturnRecord
  <2>1. Moves
    BY <1>5, ReturnFacts DEF Moves, Kept, durable
  <2> QED
    BY <1>5, <1>d, <2>1, ReturnFacts DEF Active, Kept
<1>6. CASE RejectLaunch
  <2>1. UNCHANGED <<failure, strayed, faults>> /\ phase = "admit"
        /\ (Blank("budget_rejected") \/ (Cut /\ job.rung \in 3 .. 5))
    BY <1>6, <1>n, RejectFacts DEF durable
  <2>2. Ends
    BY <1>6, RejectFacts DEF Ends
  <2> QED
    BY <1>b, <1>c, <1>t, <2>1, <2>2, BlankVerdicts
<1>7. CASE RefuseTraining \/ RefusePrediction \/ RestoreFailure \/ Falter
  <2>1. UNCHANGED failure /\ phase = "call" /\ faults <= faults'
        /\ (Blank("callback_failed") \/ (Cut /\ job.rung \in 3 .. 5))
    BY <1>7, <1>n, CallFacts DEF durable
  <2>2. strayed => strayed'
    BY <1>7 DEF RefuseTraining, RefusePrediction, RestoreFailure, Falter
  <2>3. Ends
    BY <1>7, CallFacts DEF Ends
  <2> QED
    BY <1>b, <1>c, <2>1, <2>2, <2>3, BlankVerdicts
<1>8. CASE Train
  <2>1. UNCHANGED <<record, query, failure, lineage, limits, clock, phase, job, verdict, faults>>
        /\ phase = "call"
    BY <1>8, TrainFacts DEF setting
  <2>2. strayed => strayed'
    BY <1>8, TrainFacts
  <2>3. Places
    BY <2>1 DEF Places
  <2>4. \A c \in Candidates, r \in Rungs :
          /\ exec'[c][r] # "none" => exec[c][r] # "none" \/ (c = job.iter /\ r = job.rung)
          /\ exec[c][r] # "none" => exec'[c][r] # "none"
          /\ <<c, r>> \in charged => <<c, r>> \in charged'
          /\ <<c, r>> \in charged' =>
               <<c, r>> \in charged \/ (exec[c][r] = "none" /\ exec'[c][r] # "none")
          /\ c = job.iter /\ r = job.rung => strayed' \/ <<c, r>> \in charged'
    BY <1>8, TrainFacts
  <2>5. \A c \in Candidates, r \in Rungs : exec[c][r] = "none" /\ exec'[c][r] # "none" =>
          /\ phase = "call" /\ c = job.iter /\ r = job.rung /\ phase' = phase /\ job' = job
          /\ strayed' \/ <<c, r>> \in charged'
    BY <2>1, <2>4, Zenon
  <2>6. Writes
    BY <1>t, <2>1, <2>2, <2>4, <2>5 DEF Writes
  <2> QED
    BY <2>3, <2>6
<1>9. CASE Evaluate
  <2>1. UNCHANGED <<charged, query, failure, lineage, limits, clock, phase, job, verdict, strayed, faults>>
        /\ phase = "call"
    BY <1>9, EvaluateFacts DEF setting, looks
  <2>2. Places
    BY <2>1 DEF Places
  <2>3. \A c \in Candidates, r \in Rungs :
          /\ exec[c][r] # "none" <=> exec'[c][r] # "none"
          /\ record[c][r] # 0 => record'[c][r] = record[c][r]
          /\ record'[c][r] # record[c][r] => c = job.iter /\ r = job.rung
    BY <1>9, EvaluateFacts
  <2>4. Writes
    BY <1>t, <2>1, <2>3 DEF Writes
  <2> QED
    BY <2>2, <2>4
<1>10. CASE JudgeScreen
  <2>0. /\ UNCHANGED <<failure, strayed, faults>> /\ UNCHANGED <<durable, setting>> /\ phase = "judge" /\ job.rung = 1
        /\ \/ /\ Blank("screen_rejected")
              /\ ~Screened(job.iter = 1, record[job.iter], Evidence(job.incumbent))
           \/ /\ ToNext /\ Still
              /\ Screened(job.iter = 1, record[job.iter], Evidence(job.incumbent))
    BY <1>10, ScreenFacts DEF durable
  <2>1. /\ UNCHANGED <<failure, strayed, faults>> /\ UNCHANGED <<durable, setting>> /\ phase = "judge" /\ job.rung = 1
        /\ ((Blank("screen_rejected") /\ Ends) \/ (ToNext /\ Still /\ Moves))
    BY <2>0 DEF ToNext, Moves, Ends, durable
  <2> QED
    BY <1>b, <1>d, <1>t, <2>1, BlankVerdicts DEF Active, ToNext
<1>11. CASE JudgeFolds
  <2>1. UNCHANGED <<failure, query, lineage, strayed, faults>> /\ UNCHANGED <<durable, setting>> /\ phase = "judge"
        /\ \/ (Blank("inner_rejected") \/ Blank("budget_rejected")) /\ Ends
           \/ phase' = "reserve" /\ UNCHANGED <<job, looks>> /\ MayPromote /\ Moves
    <3>1. CASE phase' = "reserve" /\ UNCHANGED <<job, looks>> /\ MayPromote /\ BundleAdmission = "none"
      BY <1>11, <3>1, FoldsFacts DEF durable, Moves
    <3>2. CASE ~(MayPromote /\ BundleAdmission = "none")
      BY <1>11, <3>2, FoldsFacts DEF durable, Ends
    <3> QED
      BY <1>11, <3>1, <3>2, FoldsFacts DEF durable
  <2>2. CASE phase' = "reserve" /\ UNCHANGED <<job, looks>> /\ MayPromote /\ Moves
    <3>1. Writes
      BY <1>0, <1>t, <2>1, <2>2 DEF setting, looks
    <3>2. Places
      BY <2>1, <2>2 DEF Places, Stays, Active
    <3> QED
      BY <3>1, <3>2
  <2> QED
    BY <1>b, <1>t, <2>1, <2>2, BlankVerdicts
<1>12. CASE ReserveQuery
  <2>1. /\ phase = "reserve" /\ job.rung = 2 /\ phase' = "admit" /\ job'.rung = 3 /\ job'.iter = job.iter
        /\ job'.used = job.used /\ job'.elapsed = job.elapsed
        /\ UNCHANGED <<exec, charged, record, failure, lineage, limits, clock, verdict, strayed, faults>>
    BY <1>12, ReserveFacts DEF ToNext, Still, looks, setting
  <2>2. /\ query'[job.iter] = (IF query[job.iter] = "none" THEN "charged" ELSE query[job.iter])
        /\ \A c \in Candidates : c # job.iter => query'[c] = query[c]
    BY <1>12, ReserveFacts
  <2>3. Writes
    BY <1>t, <2>1, <2>2 DEF Writes
  <2>4. Places
    <3>1. Moves
      BY <2>1 DEF Moves
    <3> QED
      BY <1>n, <2>1, <3>1 DEF Places, Stays, Active
  <2> QED
    BY <2>3, <2>4
<1>13. CASE JudgeSeed
  <2>1. phase = "judge" /\ UNCHANGED <<durable, setting, looks>>
        /\ \/ job.rung \in {3, 4} /\ ToNext /\ Still
           \/ job.rung = 5 /\ phase' = "settle" /\ UNCHANGED job
    BY <1>13, SeedFacts
  <2>2. Still /\ job'.iter = job.iter /\ Moves
    BY <2>1 DEF Still, ToNext, Moves, durable
  <2> QED
    BY <1>d, <2>1, <2>2 DEF Active, ToNext
<1>14. CASE SettleFailed
  <2>1. /\ phase = "settle" /\ UNCHANGED <<strayed, faults>>
        /\ \/ Over
           \/ /\ Blank("outer_failed")
              /\ \A c \in Candidates : c # job.iter => failure'[c] = failure[c]
    BY <1>14, SettleFailedFacts
  <2>2. CASE Over
    BY <1>f, <2>2 DEF Places, Over
  <2>3. Ends
    BY <2>1 DEF Ends
  <2> QED
    BY <1>b, <1>t, <2>1, <2>2, <2>3, BlankVerdicts
<1>15. CASE SettleDecided
  <2>1. phase = "settle" /\ ~job.cut
        /\ UNCHANGED <<exec, charged, record, failure, lineage, limits, clock, strayed, faults>>
    BY <1>15, SettleDecidedFacts DEF setting
  <2>2. CASE Over
    BY <1>f, <2>2 DEF Places, Over
  <2>3. CASE ~Over
    <3>1. /\ phase' = "close" /\ job'.iter = job.iter /\ job'.rung = job.rung /\ job'.used = job.used
          /\ query'[job.iter] = "published"
          /\ \A c \in Candidates : c # job.iter => query'[c] = query[c]
          /\ verdict' = [verdict EXCEPT ![job.iter] = Outcome]
      BY <1>15, <2>3, SettleDecidedFacts
    <3>2. \A c \in Candidates : c # job.iter => verdict'[c] = verdict[c]
      BY <1>t, <3>1
    <3>3. Writes
      BY <1>t, <2>1, <3>1, <3>2 DEF Writes
    <3>4. Places
      BY <2>1, <3>1 DEF Places, Stays, Active, Ends
    <3> QED
      BY <3>3, <3>4
  <2> QED
    BY <2>2, <2>3
<1>16. CASE Close \/ End
  <2>1. CASE Over
    BY <1>f, <2>1 DEF Places, Over
  <2>2. CASE ~Over
    <3>1. /\ UNCHANGED <<durable, setting, job, looks>>
          /\ \/ phase = "close" /\ phase' = "follow" /\ (job.iter = First => CursorAgrees)
             \/ phase = "end" /\ phase' = "complete"
      BY <1>16, <2>2, CloseFacts, EndFacts
    <3>2. UNCHANGED <<limits, clock, verdict, strayed, faults, lineage>>
      BY <3>1 DEF durable, setting, looks
    <3>3. Writes
      BY <1>0, <1>t, <3>1, <3>2
    <3>4. Places
      BY <3>1, <3>2 DEF Places, Stays
    <3> QED
      BY <3>3, <3>4
  <2> QED
    BY <2>1, <2>2
<1>17. CASE Follow
  <2>1. UNCHANGED <<exec, charged, record, query, failure, limits, clock, verdict, strayed, faults>>
    BY <1>17, FollowFacts DEF setting, looks
  <2>2. Writes
    BY <1>t, <2>1 DEF Writes
  <2>3. Places
    BY <1>17, FollowFacts DEF Places, Stays, Hold
  <2> QED
    BY <2>2, <2>3
<1> QED
  BY <1>1, <1>2, <1>3, <1>4, <1>5, <1>6, <1>7, <1>8, <1>9, <1>10, <1>11, <1>12, <1>13, <1>14,
     <1>15, <1>16, <1>17 DEF Next

\* Only the decision of a bundle makes an incumbent or counts for the convergence, and only the
\* end of a command forgets them.
LEMMA HandStays ==
  ASSUME TypeOK, IInv, [Next]_vars, ~SettleDecided
  PROVE  \/ /\ job'.incumbent = job.incumbent
            /\ job'.conv.best = job.conv.best /\ job'.conv.flat = job.conv.flat
         \/ Over \/ Begin
<1>1. CASE Begin \/ Die \/ Overrun \/ Close \/ End
  BY <1>1, DieFacts, OverrunFacts, CloseFacts, EndFacts
<1>2. CASE RejectLaunch
  BY <1>2, RejectFacts DEF Cut, Blank, ToClose, ToSettle, Kept
<1>3. CASE RefuseTraining \/ RefusePrediction \/ RestoreFailure \/ Falter
  BY <1>3, CallFacts DEF Cut, Blank, ToClose, ToSettle, Kept
<1>4. CASE JudgeScreen
  BY <1>4, ScreenFacts DEF Blank, ToClose, ToNext, Kept, Still
<1>5. CASE JudgeFolds
  BY <1>5, FoldsFacts DEF Blank, ToClose, Kept
<1>6. CASE ReserveQuery \/ JudgeSeed
  BY <1>6, ReserveFacts, SeedFacts DEF ToNext, Still
<1>7. CASE SettleFailed
  BY <1>7, SettleFailedFacts DEF Blank, ToClose, Kept
<1>8. CASE Request \/ ReturnRecord \/ Follow
  BY <1>8, RequestFacts, ReturnFacts, FollowFacts DEF Kept, Hold, Still
<1>9. CASE Tick \/ Train \/ Evaluate \/ UNCHANGED vars
  <2>1. UNCHANGED job
    BY <1>9, TrainFacts, EvaluateFacts DEF Tick, vars
  <2> QED
    BY <2>1
<1> QED
  BY <1>1, <1>2, <1>3, <1>4, <1>5, <1>6, <1>7, <1>8, <1>9 DEF Next

-----------------------------------------------------------------------------
(* The incumbent.                                                          *)

\* The iteration in hand still runs: its incumbent is an earlier candidate.
LEMMA Earlier ==
  ASSUME TypeOK, IInv, phase \in {"call", "reserve", "settle"}, job.incumbent # Fallback
  PROVE  job.incumbent \in Candidates /\ job.incumbent # job.iter
<1>1. job.incumbent < job.iter
  BY DEF IInv, IncumbentAt, After
<1>2. job.incumbent \in Candidates /\ job.iter \in Nat
  BY Numbers
<1> QED
  BY <1>1, <1>2

\* An incumbent that stays, or goes, is as good as it was while its ledgers and scores stay.
LEMMA EarnedKept ==
  ASSUME IncumbentEarned, job'.incumbent \in {job.incumbent, Fallback},
         job.incumbent # Fallback =>
           /\ query'[job.incumbent] = query[job.incumbent]
           /\ failure'[job.incumbent] = failure[job.incumbent]
           /\ record'[job.incumbent] = record[job.incumbent]
  PROVE  IncumbentEarned'
BY DEF IncumbentEarned, FallbackEvidence

\* Only the decision of a bundle makes an incumbent.
LEMMA OthersKeepIncumbent ==
  ASSUME TypeOK, IInv, Next, ~SettleDecided
  PROVE  job'.incumbent \in {job.incumbent, Fallback}
<1>1. Over \/ Begin => job'.incumbent = Fallback
  BY FreshTyped, BeginFacts DEF Over, Fresh
<1> QED
  BY <1>1, HandStays

\* Only three steps touch a query, a failure or a score, and each that of the iteration in hand.
LEMMA OthersKeepLedgers ==
  ASSUME Next, ~SettleDecided, ~SettleFailed, ~ReserveQuery, ~Evaluate
  PROVE  UNCHANGED <<query, failure, record>>
<1>1. CASE UNCHANGED durable
  BY <1>1 DEF durable
<1>2. CASE Begin \/ Train \/ Follow
  BY <1>2 DEF Begin, Train, Follow
<1>3. CASE RejectLaunch \/ RefuseTraining \/ RefusePrediction \/ RestoreFailure \/ Falter
  BY <1>1, <1>3 DEF RejectLaunch, RefuseTraining, RefusePrediction, RestoreFailure, Falter
<1>4. CASE Die \/ Overrun \/ Tick \/ Request \/ ReturnRecord \/ Close \/ End
  BY <1>1, <1>4, Zenon DEF Die, Overrun, Tick, Request, ReturnRecord, Close, End, durable
<1>5. CASE JudgeScreen \/ JudgeFolds \/ JudgeSeed
  BY <1>1, <1>5 DEF JudgeScreen, JudgeFolds, JudgeSeed, durable
<1> QED
  BY <1>2, <1>3, <1>4, <1>5 DEF Next

\* Each incumbent has beaten the one before it, and so the fallback.
LEMMA EarnedStep == TypeOK /\ IInv /\ IncumbentEarned /\ [Next]_vars => IncumbentEarned'
<1> SUFFICES ASSUME TypeOK, IInv, IncumbentEarned, [Next]_vars PROVE IncumbentEarned'
  OBVIOUS
<1>0. /\ job.iter \in Candidates /\ job.incumbent \in Candidates \cup {Fallback}
      /\ record \in [Candidates -> [Rungs -> Nat]] /\ failure \in [Candidates -> 0 .. LastSeed]
      /\ query \in [Candidates -> {"none", "charged", "published"}]
  BY Numbers DEF TypeOK
<1>1. CASE UNCHANGED vars
  BY <1>1, EarnedKept DEF vars, durable
<1>2. CASE Next /\ ~SettleDecided /\ ~SettleFailed /\ ~ReserveQuery /\ ~Evaluate
  BY <1>2, EarnedKept, OthersKeepIncumbent, OthersKeepLedgers
<1>3. CASE Evaluate
  <2>1. /\ UNCHANGED <<query, failure, job>>
        /\ \A c \in Candidates : c # job.iter => record'[c] = record[c]
    BY <1>3, EvaluateStep DEF Evaluate
  <2>2. job.incumbent # Fallback => job.incumbent \in Candidates /\ job.incumbent # job.iter
    BY <1>3, Earlier DEF Evaluate, Pending
  <2> QED
    BY <2>1, <2>2, EarnedKept
<1>4. CASE ReserveQuery
  <2>1. UNCHANGED <<failure, record>>
        /\ query' = [query EXCEPT ![job.iter] = IF query[job.iter] = "none" THEN "charged" ELSE query[job.iter]]
    BY <1>4 DEF ReserveQuery
  <2>2. job'.incumbent \in {job.incumbent, Fallback}
    <3>1. ~SettleDecided
      BY <1>4 DEF ReserveQuery, SettleDecided
    <3> QED
      BY <1>4, <3>1, OthersKeepIncumbent DEF Next
  <2>3. job.incumbent # Fallback => query'[job.incumbent] = query[job.incumbent]
    BY <1>0, <2>1 DEF IncumbentEarned
  <2> QED
    BY <2>1, <2>2, <2>3, EarnedKept
<1>5. CASE SettleFailed
  <2>1. /\ UNCHANGED <<query, record>>
        /\ failure' = failure \/ failure' = [failure EXCEPT ![job.iter] = Runs]
    BY <1>5, Zenon DEF SettleFailed
  <2>2. job.incumbent # Fallback => job.incumbent \in Candidates /\ job.incumbent # job.iter
    BY <1>5, Earlier DEF SettleFailed
  <2>3. job'.incumbent \in {job.incumbent, Fallback}
    <3>1. ~SettleDecided
      BY <1>5 DEF SettleFailed, SettleDecided
    <3> QED
      BY <1>5, <3>1, OthersKeepIncumbent DEF Next
  <2>4. job.incumbent # Fallback => failure'[job.incumbent] = failure[job.incumbent]
    <3> DEFINE n == Runs
    <3>1. failure' = failure \/ failure' = [failure EXCEPT ![job.iter] = n]
      BY <2>1
    <3> HIDE DEF n
    <3> QED
      BY <1>0, <2>2, <3>1
  <2> QED
    BY <2>1, <2>3, <2>4, EarnedKept
<1>6. CASE SettleDecided
  <2>0. phase = "settle" /\ UNCHANGED <<failure, record>>
    BY <1>6 DEF SettleDecided
  <2>1. CASE failure[job.iter] # 0
    <3>1. Raise("contradiction") /\ UNCHANGED query
      BY <1>6, <2>1, Zenon DEF SettleDecided
    <3>2. job'.incumbent = Fallback
      BY <3>1, FreshTyped DEF Raise
    <3> QED
      BY <2>0, <3>1, <3>2, EarnedKept
  <2>2. CASE failure[job.iter] = 0
    <3> DEFINE e == record[job.iter]
               b == Evidence(job.incumbent)
               o == Decide(job.iter = 1, e, b, FallbackEvidence)
               conv == MeasuredUpdate(job.conv, SeedTotal(e))
               i == IF o \in Promotions THEN job.iter ELSE job.incumbent
    <3>1. query' = [query EXCEPT ![job.iter] = "published"] /\ Finish(o, conv, job.stop, i)
      BY <1>6, <2>2, Zenon DEF SettleDecided
    <3>2. job'.incumbent = i
      <4>1. job \in Job
        BY DEF TypeOK
      <4> HIDE DEF o, conv, i
      <4> QED
        BY <3>1, <4>1 DEF Finish, Job
    <3>3. o \in Promotions => OuterEligible(job.iter = 1, e, b, FallbackEvidence) /\ Replaces(e, b)
      <4>1. (job.iter = 1) \in BOOLEAN
        OBVIOUS
      <4> QED
        BY <4>1, DecideFacts, Zenon
    <3>4. CASE o \in Promotions
      <4>1. FoldTotal(e) > FoldTotal(FallbackEvidence) /\ SeedTotal(e) > SeedTotal(b)
        BY <3>3, <3>4 DEF OuterEligible, Replaces
      <4>2. SeedTotal(e) \in Nat /\ SeedTotal(b) \in Nat /\ SeedTotal(FallbackEvidence) \in Nat
        BY <1>0, EvidenceTyped, FallbackTyped, TotalsTyped
      <4>3. SeedTotal(b) >= SeedTotal(FallbackEvidence)
        <5>1. CASE job.incumbent = Fallback
          BY <4>2, <5>1 DEF Evidence
        <5>2. CASE job.incumbent # Fallback
          <6>1. b = record[job.incumbent]
            BY <5>2 DEF Evidence
          <6> HIDE DEF b
          <6>2. SeedTotal(b) > SeedTotal(FallbackEvidence)
            BY <5>2, <6>1 DEF IncumbentEarned
          <6> QED
            BY <4>2, <6>2
        <5> QED
          BY <5>1, <5>2
      <4>4. SeedTotal(e) > SeedTotal(FallbackEvidence)
        <5> HIDE DEF e, b
        <5> QED
          BY <4>1, <4>2, <4>3
      <4>5. i = job.iter
        BY <3>4
      <4>6. /\ query'[job.iter] = "published" /\ failure'[job.iter] = 0 /\ record'[job.iter] = e
        BY <1>0, <2>0, <2>2, <3>1
      <4>7. FallbackEvidence' = FallbackEvidence
        BY DEF FallbackEvidence
      <4> HIDE DEF e, b, o, conv, i
      <4> QED
        BY <3>2, <4>1, <4>4, <4>5, <4>6, <4>7 DEF IncumbentEarned, FoldTotal, SeedTotal
    <3>5. CASE o \notin Promotions
      <4>1. job'.incumbent = job.incumbent
        BY <3>2, <3>5
      <4>2. job.incumbent # Fallback => query'[job.incumbent] = query[job.incumbent]
        <5>1. job.incumbent # Fallback => job.incumbent \in Candidates /\ job.incumbent # job.iter
          BY <2>0, Earlier
        <5> HIDE DEF o, conv, i
        <5> QED
          BY <1>0, <3>1, <5>1
      <4> QED
        BY <2>0, <4>1, <4>2, EarnedKept
    <3> QED
      BY <3>4, <3>5
  <2> QED
    BY <2>1, <2>2
<1> QED
  BY <1>1, <1>2, <1>3, <1>4, <1>5, <1>6

-----------------------------------------------------------------------------
(* What is retained of each candidate.                                     *)

\* Runs are made in their order, those on the seeds for a charged query, and each charge is that
\* of an execution.
OrderAt ==
  \A c \in Candidates, r \in Rungs :
    /\ exec[c][r] # "none" =>
         /\ \A q \in Rungs : q < r => record[c][q] # 0
         /\ r \in Seeds => query[c] # "none"
    /\ <<c, r>> \in charged => exec[c][r] # "none"

\* A measured candidate is published, and a published one has all its scores.
FullAt ==
  \A c \in Candidates :
    /\ verdict[c] \in Measured => query[c] = "published"
    /\ query[c] = "published" => \A r \in Rungs : record[c][r] # 0

\* Nothing is known of a candidate without a lineage; what is fresh is of this command.
LineageAt ==
  /\ lineage[First] = "retained"
  /\ \A c \in Candidates :
       /\ c # First => lineage[c] # "retained"
       /\ lineage[c] = "none" =>
            /\ \A r \in Rungs : exec[c][r] = "none"
            /\ query[c] = "none" /\ failure[c] = 0 /\ verdict[c] = "none"
       /\ lineage[c] = "fresh" /\ phase # "down" => First < c /\ c <= job.iter
  /\ job.iter > First /\ phase \in Active \cup {"close"} => lineage[job.iter] = "fresh"

\* A candidate after the first one is taken up once.
NewAt ==
  job.iter > First /\ phase \in Active =>
    /\ verdict[job.iter] = "none" /\ failure[job.iter] = 0 /\ query[job.iter] # "published"
    /\ query[job.iter] # "none" => job.rung \in Seeds
    /\ \A r \in Rungs : exec[job.iter][r] # "none" =>
         r < job.rung \/ (r = job.rung /\ phase # "admit")

\* A query is reserved only while one is left.
QueriesAt ==
  /\ Cardinality(Queried) <= MaxQueries
  /\ phase = "reserve" => job.iter \in Queried \/ Cardinality(Queried) < MaxQueries

RInv == OrderAt /\ FullAt /\ LineageAt /\ NewAt /\ QueriesAt

\* There are finitely many candidates.
LEMMA CandidatesFinite ==
  /\ IsFiniteSet(Candidates) /\ IsFiniteSet(Queried) /\ Cardinality(Queried) \in Nat
<1>1. First \in Int /\ MaxIterations \in Int
  OBVIOUS
<1>2. IsFiniteSet(First .. MaxIterations)
  BY <1>1, FS_Interval, Zenon
<1>3. IsFiniteSet(Queried)
  BY <1>2, FS_Subset DEF Queried
<1> QED
  BY <1>2, <1>3, FS_CardinalityType

\* The iteration in hand has a lineage, and what rests is at the first candidate.
LEMMA InHand ==
  ASSUME TypeOK, IInv, LineageAt
  PROVE  /\ phase \in Active => lineage[job.iter] # "none"
         /\ phase \in {"down", "closed", "refused"} => job.iter = First
         /\ phase \notin {"follow", "end", "complete"} /\ job.iter > First => phase \in Active \cup {"close"}
<1>1. job.iter \in Candidates /\ job.iter \in Nat /\ FreshJob.iter = First
  BY Numbers, FreshTyped
<1>2. phase \in {"down", "closed", "refused"} => job.iter = First
  BY <1>1 DEF IInv, RungAt
<1>3. phase \in Phases
  BY DEF TypeOK
<1>4. phase \notin {"follow", "end", "complete"} /\ job.iter > First => phase \in Active \cup {"close"}
  BY <1>1, <1>2, <1>3 DEF Active, Phases
<1>5. phase \in Active => lineage[job.iter] # "none"
  BY <1>1 DEF LineageAt
<1> QED
  BY <1>2, <1>4, <1>5

\* The order of the runs is kept.
LEMMA OrderStep ==
  ASSUME TypeOK, IInv, RInv, [Next]_vars
  PROVE  OrderAt'
<1>0. Writes /\ job.iter \in Candidates /\ job.rung \in Rungs /\ job.rung \in 1 .. 5
  BY StepShape, Numbers
<1> SUFFICES ASSUME NEW c \in Candidates, NEW r \in Rungs
             PROVE  /\ exec'[c][r] # "none" =>
                         /\ \A q \in Rungs : q < r => record'[c][q] # 0
                         /\ r \in Seeds => query'[c] # "none"
                    /\ <<c, r>> \in charged' => exec'[c][r] # "none"
  BY Zenon DEF OrderAt
<1>1. <<c, r>> \in charged' => exec'[c][r] # "none"
  BY <1>0 DEF Writes, RInv, OrderAt
<1>2. CASE exec[c][r] # "none"
  <2>1. \A q \in Rungs : q < r => record'[c][q] # 0
    <3> SUFFICES ASSUME NEW q \in Rungs, q < r PROVE record'[c][q] # 0
      OBVIOUS
    <3>1. record[c][q] # 0
      BY <1>2 DEF RInv, OrderAt
    <3> QED
      BY <1>0, <3>1 DEF Writes
  <2>2. r \in Seeds => query'[c] # "none"
    BY <1>0, <1>2 DEF Writes, RInv, OrderAt
  <2> QED
    BY <1>1, <2>1, <2>2
<1>3. CASE exec[c][r] = "none" /\ exec'[c][r] # "none"
  <2>1. phase = "call" /\ c = job.iter /\ r = job.rung
    BY <1>0, <1>3 DEF Writes
  <2>2. \A q \in Rungs : q < r => record'[c][q] # 0
    <3> SUFFICES ASSUME NEW q \in Rungs, q < r PROVE record'[c][q] # 0
      OBVIOUS
    <3>1. record[c][q] # 0
      BY <2>1 DEF IInv, BehindAt
    <3> QED
      BY <1>0, <3>1 DEF Writes
  <2>3. r \in Seeds => query[c] # "none"
    BY <2>1 DEF IInv, ChargedAt
  <2>4. query[c] # "none" => query'[c] # "none"
    BY <1>0 DEF Writes
  <2> QED
    BY <1>1, <2>2, <2>3, <2>4
<1> QED
  BY <1>1, <1>2, <1>3

\* A bundle is published with all its scores.
LEMMA FullStep ==
  ASSUME TypeOK, IInv, RInv, [Next]_vars
  PROVE  FullAt'
<1>0. Writes
  BY StepShape
<1> SUFFICES ASSUME NEW c \in Candidates
             PROVE  /\ verdict'[c] \in Measured => query'[c] = "published"
                    /\ query'[c] = "published" => \A r \in Rungs : record'[c][r] # 0
  BY DEF FullAt
<1>1. verdict'[c] \in Measured => query'[c] = "published"
  BY <1>0 DEF Writes, RInv, FullAt
<1>2. ASSUME query'[c] = "published", NEW r \in Rungs PROVE record'[c][r] # 0
  <2>1. record[c][r] # 0
    <3>1. CASE query[c] = "published"
      BY <3>1 DEF RInv, FullAt
    <3>2. CASE c = job.iter /\ phase = "settle" /\ ~job.cut
      <4>1. job.rung = 5 /\ r \in 1 .. 5
        BY <3>2, RungNumbers DEF IInv, RungAt
      <4> QED
        BY <3>2, <4>1 DEF IInv, BehindAt
    <3> QED
      BY <1>0, <1>2, <3>1, <3>2 DEF Writes
  <2> QED
    BY <1>0, <2>1 DEF Writes
<1> QED
  BY <1>1, <1>2

\* Lineages are prepared before anything is known of them, and go stale with their command.
LEMMA LineageStep ==
  ASSUME TypeOK, IInv, RInv, [Next]_vars
  PROVE  LineageAt'
<1>0. /\ Writes /\ Places /\ job.iter \in Candidates /\ job.iter \in Nat
      /\ lineage \in [Candidates -> {"none", "retained", "fresh", "stale"}] /\ First \in Candidates
  <2>1. lineage \in [Candidates -> {"none", "retained", "fresh", "stale"}]
    BY DEF TypeOK
  <2>2. First \in Candidates
    OBVIOUS
  <2> QED
    BY <2>1, <2>2, StepShape, Numbers
<1>1. /\ FreshJob.iter = First
      /\ phase \in Active => lineage[job.iter] # "none"
      /\ phase \in {"down", "closed", "refused"} => job.iter = First
      /\ phase \notin {"follow", "end", "complete"} /\ job.iter > First => phase \in Active \cup {"close"}
  BY FreshTyped, InHand DEF RInv
<1>2. \A c \in Candidates :
        \/ lineage'[c] = lineage[c]
        \/ lineage[c] = "fresh" /\ lineage'[c] = "stale"
        \/ lineage[c] = "none" /\ lineage'[c] = "fresh" /\ c = job'.iter /\ c = job.iter + 1
  BY <1>0 DEF Places, Over, Stays
<1>3. lineage'[First] = "retained"
  BY <1>0, <1>2 DEF RInv, LineageAt
<1>4. ASSUME NEW c \in Candidates
      PROVE  /\ c # First => lineage'[c] # "retained"
             /\ lineage'[c] = "none" =>
                  /\ \A r \in Rungs : exec'[c][r] = "none"
                  /\ query'[c] = "none" /\ failure'[c] = 0 /\ verdict'[c] = "none"
  <2>1. c # First => lineage'[c] # "retained"
    BY <1>2 DEF RInv, LineageAt
  <2>2. ASSUME lineage'[c] = "none"
        PROVE  /\ \A r \in Rungs : exec'[c][r] = "none"
               /\ query'[c] = "none" /\ failure'[c] = 0 /\ verdict'[c] = "none"
    <3>1. lineage[c] = "none"
      BY <1>2, <2>2
    <3>2. ~(phase \in Active /\ c = job.iter)
      BY <1>1, <3>1
    <3>3. /\ \A r \in Rungs : exec[c][r] = "none"
          /\ query[c] = "none" /\ failure[c] = 0 /\ verdict[c] = "none"
      BY <3>1 DEF RInv, LineageAt
    <3> QED
      BY <1>0, <3>2, <3>3 DEF Writes, Active
  <2> QED
    BY <2>1, <2>2
<1>5. ASSUME NEW c \in Candidates, lineage'[c] = "fresh", phase' # "down"
      PROVE  First < c /\ c <= job'.iter
  <2>1. \A d \in Candidates : lineage[d] = "fresh" /\ phase # "down" => First < d /\ d <= job.iter
    BY DEF RInv, LineageAt
  <2>2. CASE phase = "down"
    <3>1. FALSE
      BY <1>0, <1>5, <2>2 DEF Places, Over, Active
    <3> QED
      BY <3>1
  <2>3. CASE phase # "down" /\ lineage[c] = "fresh"
    <3>1. First < c /\ c <= job.iter
      BY <2>1, <2>3
    <3>2. job.iter <= job'.iter
      BY <1>0, <1>5, <2>3 DEF Places, Over, Stays
    <3>3. job'.iter \in Nat
      BY <1>0, <1>1 DEF Places, Over, Fresh, Stays
    <3> QED
      BY <1>0, <3>1, <3>2, <3>3
  <2>4. CASE phase # "down" /\ lineage[c] # "fresh"
    <3>1. c = job'.iter /\ c = job.iter + 1
      BY <1>2, <1>5, <2>4
    <3> QED
      BY <1>0, <3>1
  <2> QED
    BY <2>2, <2>3, <2>4
<1>6. ASSUME job'.iter > First, phase' \in Active \cup {"close"}
      PROVE  lineage'[job'.iter] = "fresh"
  <2>1. CASE Stays \/ UNCHANGED <<phase, job, lineage, query>>
    <3>1. phase \in Active \cup {"close"}
      <4>1. ~Fresh
        BY <1>0, <1>1, <1>6 DEF Fresh
      <4>2. CASE UNCHANGED <<phase, job, lineage, query>>
        BY <1>6, <4>2
      <4>3. CASE Stays /\ ~UNCHANGED <<phase, job, lineage, query>>
        <5>1. job'.iter # job.iter + 1
          BY <1>0, <4>3 DEF Stays
        <5> QED
          BY <1>0, <1>6, <4>1, <4>3, <5>1 DEF Places, Over, Active
      <4> QED
        BY <2>1, <4>2, <4>3
    <3> QED
      BY <1>6, <2>1, <3>1 DEF Stays, RInv, LineageAt
  <2>2. CASE ~(Stays \/ UNCHANGED <<phase, job, lineage, query>>)
    <3>1. job'.iter = job.iter + 1 /\ job.iter + 1 \in Candidates
          /\ lineage' = [lineage EXCEPT ![job.iter + 1] = "fresh"]
      BY <1>0, <1>1, <1>6, <2>2 DEF Places, Over, Fresh, Active
    <3> QED
      BY <1>0, <3>1
  <2> QED
    BY <2>1, <2>2
<1> QED
  BY <1>3, <1>4, <1>5, <1>6 DEF LineageAt

\* A candidate is new when it is taken up, and what is written of it is of its rungs.
LEMMA NewStep ==
  ASSUME TypeOK, IInv, RInv, [Next]_vars
  PROVE  NewAt'
<1>0. /\ Writes /\ Places /\ job.iter \in Candidates /\ job.iter \in Nat /\ job.rung \in 1 .. 5 /\ job.rung \in Rungs
      /\ Rungs = 1 .. 5 /\ Seeds = 3 .. 5
      /\ query \in [Candidates -> {"none", "charged", "published"}]
  BY StepShape, Numbers, RungNumbers DEF TypeOK
<1>1. /\ FreshJob.iter = First
      /\ phase \in {"down", "closed", "refused"} => job.iter = First
      /\ phase \notin {"follow", "end", "complete"} /\ job.iter > First => phase \in Active \cup {"close"}
  BY FreshTyped, InHand DEF RInv
<1> SUFFICES ASSUME job'.iter > First, phase' \in Active
             PROVE  /\ verdict'[job'.iter] = "none" /\ failure'[job'.iter] = 0
                    /\ query'[job'.iter] # "published"
                    /\ query'[job'.iter] # "none" => job'.rung \in Seeds
                    /\ \A r \in Rungs : exec'[job'.iter][r] # "none" =>
                         r < job'.rung \/ (r = job'.rung /\ phase' # "admit")
  BY DEF NewAt
<1>2. CASE job'.iter = job.iter
  <2>1. /\ phase \in Active
        /\ job'.rung = job.rung \/ (job'.rung = job.rung + 1 /\ job.rung < 5)
        /\ phase' = "admit" => (phase = "admit" /\ job'.rung = job.rung) \/ job'.rung = job.rung + 1
        /\ query[job.iter] = "none" /\ query'[job.iter] # "none" => job'.rung \in Seeds
    <3>1. CASE UNCHANGED <<phase, job, lineage, query>>
      BY <3>1
    <3>2. CASE ~UNCHANGED <<phase, job, lineage, query>>
      BY <1>0, <1>1, <1>2, <3>2 DEF Places, Over, Fresh, Active, Stays
    <3> QED
      BY <3>1, <3>2
  <2>2. /\ verdict[job.iter] = "none" /\ failure[job.iter] = 0 /\ query[job.iter] # "published"
        /\ query[job.iter] # "none" => job.rung \in Seeds
        /\ \A r \in Rungs : exec[job.iter][r] # "none" =>
             r < job.rung \/ (r = job.rung /\ phase # "admit")
    BY <1>2, <2>1 DEF RInv, NewAt
  <2>3. verdict'[job.iter] = "none" /\ failure'[job.iter] = 0
    BY <1>0, <2>2 DEF Writes, Active
  <2>4. query'[job.iter] # "published"
    <3>1. phase = "settle" => UNCHANGED <<phase, job, lineage, query>>
      <4>1. ~Fresh
        BY <1>0, <1>1 DEF Fresh
      <4> QED
        BY <1>0, <1>2, <4>1 DEF Places, Over, Active, Stays
    <3> QED
      BY <1>0, <2>2, <3>1 DEF Writes
  <2>5. query'[job.iter] # "none" => job'.rung \in Seeds
    BY <1>0, <2>1, <2>2
  <2>6. ASSUME NEW r \in Rungs, exec'[job.iter][r] # "none"
        PROVE  r < job'.rung \/ (r = job'.rung /\ phase' # "admit")
    <3>1. CASE exec[job.iter][r] # "none"
      <4>1. r < job.rung \/ (r = job.rung /\ phase # "admit")
        BY <2>2, <3>1
      <4> QED
        BY <1>0, <2>1, <4>1
    <3>2. CASE exec[job.iter][r] = "none"
      <4>1. phase = "call" /\ r = job.rung /\ phase' = phase /\ job' = job
        BY <1>0, <2>6, <3>2 DEF Writes
      <4> QED
        BY <4>1
    <3> QED
      BY <3>1, <3>2
  <2> QED
    BY <1>2, <2>3, <2>4, <2>5, <2>6
<1>3. CASE job'.iter # job.iter
  <2>1. /\ job'.iter = job.iter + 1 /\ job.iter + 1 \in Candidates /\ phase = "follow"
        /\ lineage[job'.iter] = "none"
    BY <1>0, <1>1, <1>3 DEF Places, Over, Fresh, Active, Stays
  <2>2. /\ \A r \in Rungs : exec[job'.iter][r] = "none"
        /\ query[job'.iter] = "none" /\ failure[job'.iter] = 0 /\ verdict[job'.iter] = "none"
    BY <2>1 DEF RInv, LineageAt
  <2>3. /\ \A r \in Rungs : exec'[job'.iter][r] = "none"
        /\ query'[job'.iter] = "none" /\ failure'[job'.iter] = 0 /\ verdict'[job'.iter] = "none"
    <3> DEFINE c == job'.iter
    <3>1. c \in Candidates /\ c # job.iter
      BY <1>0, <2>1
    <3> HIDE DEF c
    <3>2. /\ \A r \in Rungs : exec[c][r] = "none"
          /\ query[c] = "none" /\ failure[c] = 0 /\ verdict[c] = "none"
      BY <2>2 DEF c
    <3>0. phase = "follow"
      BY <2>1
    <3>3. \A r \in Rungs : exec'[c][r] = "none"
      BY <1>0, <3>0, <3>1, <3>2 DEF Writes
    <3>4. query'[c] = "none" /\ failure'[c] = 0 /\ verdict'[c] = "none"
      BY <1>0, <3>0, <3>1, <3>2 DEF Writes
    <3> QED
      BY <3>3, <3>4 DEF c
  <2> QED
    BY <2>3
<1> QED
  BY <1>2, <1>3

\* A query more, only if one is left.
LEMMA QueriesStep ==
  ASSUME TypeOK, IInv, RInv, [Next]_vars
  PROVE  QueriesAt'
<1>0. /\ Writes /\ Places /\ job.iter \in Candidates
      /\ IsFiniteSet(Queried) /\ Cardinality(Queried) \in Nat /\ MaxQueries \in Nat
  BY StepShape, Numbers, CandidatesFinite, ScienceAssumption
<1>1. CASE Queried' = Queried
  <2>1. phase' = "reserve" => job'.iter \in Queried \/ Cardinality(Queried) < MaxQueries
    <3>1. phase' = "reserve" => job'.iter = job.iter /\ (phase = "reserve" \/ MayPromote)
      BY <1>0 DEF Places, Over, Active, Stays
    <3> QED
      BY <3>1 DEF RInv, QueriesAt, MayPromote
  <2> QED
    BY <1>1, <2>1 DEF RInv, QueriesAt
<1>2. CASE Queried' # Queried
  <2>1. PICK c \in Candidates : query[c] = "none" /\ query'[c] # "none"
    BY <1>0, <1>2 DEF Queried, Writes
  <2>2. c = job.iter /\ phase \in {"reserve", "settle"}
    BY <1>0, <2>1 DEF Writes
  <2>3. phase = "reserve"
    BY <2>1, <2>2 DEF IInv, ChargedAt, RungAt
  <2>4. Queried' = Queried \cup {job.iter} /\ job.iter \notin Queried
    BY <1>0, <2>1, <2>2 DEF Queried, Writes
  <2>5. Cardinality(Queried \cup {job.iter}) = Cardinality(Queried) + 1
    BY <1>0, <2>4, FS_AddElement
  <2>6. Cardinality(Queried) < MaxQueries
    BY <2>3, <2>4 DEF RInv, QueriesAt
  <2>7. phase' # "reserve"
    BY <1>0, <2>1, <2>3 DEF Places, Over, Active, Stays
  <2>8. Cardinality(Queried') <= MaxQueries
    BY <1>0, <2>4, <2>5, <2>6
  <2>9. Cardinality(Queried)' <= MaxQueries
    BY <2>8
  <2> QED
    BY <2>7, <2>9 DEF QueriesAt
<1> QED
  BY <1>1, <1>2

\* Nothing is retained at first.
LEMMA InitRetained == Init => RInv
<1> SUFFICES ASSUME Init PROVE RInv
  OBVIOUS
<1>1. /\ \A c \in Candidates, r \in Rungs : record[c][r] = 0 /\ exec[c][r] = "none"
      /\ \A c \in Candidates : query[c] = "none" /\ failure[c] = 0 /\ verdict[c] = "none"
      /\ \A c \in Candidates : lineage[c] = IF c = First THEN "retained" ELSE "none"
      /\ charged = {} /\ phase = "down" /\ job = FreshJob /\ First \in Candidates
  BY DEF Init
<1>2. FreshJob.iter = First
  BY InitType, FreshTyped
<1>3. OrderAt /\ FullAt
  BY <1>1 DEF OrderAt, FullAt, Measured, Promotions
<1>4. LineageAt /\ NewAt
  BY <1>1, <1>2 DEF LineageAt, NewAt, Active
<1>5. QueriesAt
  <2>1. Queried = {} /\ MaxQueries \in Nat
    BY <1>1, ScienceAssumption DEF Queried
  <2>2. Cardinality(Queried) = 0
    BY <2>1, FS_EmptySet
  <2> QED
    BY <1>1, <2>1, <2>2 DEF QueriesAt
<1> QED
  BY <1>3, <1>4, <1>5 DEF RInv

\* What is retained stays known.
LEMMA Retained == Spec => []RInv
<1>1. TypeOK /\ IInv /\ RInv /\ [Next]_vars => RInv'
  <2> SUFFICES ASSUME TypeOK, IInv, RInv, [Next]_vars
               PROVE  OrderAt' /\ FullAt' /\ LineageAt' /\ NewAt' /\ QueriesAt'
    BY DEF RInv
  <2> QED
    BY OrderStep, FullStep, LineageStep, NewStep, QueriesStep
<1> QED
  BY <1>1, InitRetained, Inductive, PTL DEF Spec

-----------------------------------------------------------------------------
(* The winner.                                                             *)

\* Past the first iteration the incumbent is as good as any candidate that was ever promoted.
Past == job.iter > First \/ phase \in {"follow", "end", "complete"}
WinnerAt ==
  /\ phase = "close" /\ verdict[job.iter] \in Promotions => job.incumbent = job.iter
  /\ Past =>
       \A c \in Candidates : verdict[c] \in Promotions =>
         SeedTotal(Evidence(job.incumbent)) >= SeedTotal(record[c])

\* The scores of a promoted candidate, and of an incumbent, do not change.
LEMMA ScoresKept ==
  ASSUME TypeOK, IInv, RInv, [Next]_vars,
         NEW c \in Candidates, \A r \in Rungs : record[c][r] # 0
  PROVE  SeedTotal(record'[c]) = SeedTotal(record[c]) /\ SeedTotal(record[c]) \in Nat
<1>1. Writes /\ record[c] \in [Rungs -> Nat]
  BY StepShape DEF TypeOK
<1>2. \A r \in Rungs : record'[c][r] = record[c][r]
  BY <1>1 DEF Writes
<1>3. SeedTotal(record'[c]) = SeedTotal(record[c])
  BY <1>2, RungNumbers DEF SeedTotal
<1> QED
  BY <1>1, <1>3, TotalsTyped

\* The evidence for the fallback is what it is.
LEMMA FallbackKept == Evidence(Fallback)' = Evidence(Fallback)
BY DEF Evidence, FallbackEvidence

\* The evidence for the incumbent does not change while it is the incumbent.
LEMMA IncumbentKept ==
  ASSUME TypeOK, IInv, RInv, IncumbentEarned, [Next]_vars, job'.incumbent = job.incumbent
  PROVE  SeedTotal(Evidence(job.incumbent))' = SeedTotal(Evidence(job.incumbent))
<1>0. job.incumbent \in Candidates \cup {Fallback}
  BY Numbers
<1>1. CASE job.incumbent = Fallback
  BY <1>1, FallbackKept DEF SeedTotal, Evidence, FallbackEvidence
<1>2. CASE job.incumbent # Fallback
  <2>1. job.incumbent \in Candidates /\ \A r \in Rungs : record[job.incumbent][r] # 0
    BY <1>0, <1>2 DEF IncumbentEarned, RInv, FullAt
  <2> DEFINE c == job.incumbent
  <2>2. SeedTotal(record'[c]) = SeedTotal(record[c])
    BY <2>1, ScoresKept
  <2>3. Evidence(job.incumbent) = record[c] /\ Evidence(job.incumbent)' = record'[c]
    BY <1>2 DEF Evidence
  <2>4. SeedTotal(Evidence(job.incumbent))' = SeedTotal(record'[c])
    BY <2>3 DEF SeedTotal
  <2> QED
    BY <2>2, <2>3, <2>4
<1> QED
  BY <1>0, <1>1, <1>2

\* Only the decision of a bundle is measured.
LEMMA UnmeasuredEnd ==
  ASSUME TypeOK, IInv, Next, ~SettleDecided, phase # "close", phase' = "close"
  PROVE  verdict'[job.iter] \notin Measured
<1>0. verdict \in [Candidates -> Verdicts] /\ job.iter \in Candidates
  BY Numbers DEF TypeOK
<1>b. ASSUME NEW o, Blank(o), o \notin Measured PROVE verdict'[job.iter] \notin Measured
  BY <1>0, <1>b DEF Blank
<1>1. CASE RejectLaunch
  BY <1>b, <1>1, RejectFacts, BlankVerdicts DEF Cut, ToSettle
<1>2. CASE RefuseTraining \/ RefusePrediction \/ RestoreFailure \/ Falter
  BY <1>b, <1>2, CallFacts, BlankVerdicts DEF Cut, ToSettle
<1>3. CASE JudgeScreen
  BY <1>b, <1>3, ScreenFacts, BlankVerdicts DEF ToNext
<1>4. CASE JudgeFolds
  BY <1>b, <1>4, FoldsFacts, BlankVerdicts
<1>5. CASE SettleFailed
  BY <1>b, <1>5, SettleFailedFacts, BlankVerdicts DEF Over
<1>6. CASE Begin \/ Die \/ Overrun \/ Close \/ End
  BY <1>6, BeginFacts, DieFacts, OverrunFacts, CloseFacts, EndFacts DEF Over
<1>7. CASE Tick \/ Request \/ Train \/ Evaluate \/ ReturnRecord
  BY <1>7, RequestFacts, TrainFacts, EvaluateFacts, ReturnFacts DEF Tick
<1>8. CASE ReserveQuery \/ JudgeSeed \/ Follow
  BY <1>8, ReserveFacts, SeedFacts, FollowFacts DEF ToNext
<1> QED
  BY <1>1, <1>2, <1>3, <1>4, <1>5, <1>6, <1>7, <1>8 DEF Next

\* The winner is kept by the steps of an iteration and of what follows it.
LEMMA WinnerStep ==
  ASSUME TypeOK, IInv, RInv, IncumbentEarned, WinnerAt, [Next]_vars
  PROVE  WinnerAt'
<1>0. /\ Writes /\ Places /\ job.iter \in Candidates /\ job.iter \in Nat /\ First \in Candidates
      /\ FreshJob.iter = First /\ verdict \in [Candidates -> Verdicts]
  <2>1. verdict \in [Candidates -> Verdicts] /\ First \in Candidates
    BY DEF TypeOK
  <2> QED
    BY <2>1, StepShape, Numbers, FreshTyped
<1>1. \A c \in Candidates : verdict[c] \in Promotions =>
        /\ query[c] # "none"
        /\ SeedTotal(record'[c]) = SeedTotal(record[c]) /\ SeedTotal(record[c]) \in Nat
  <2> SUFFICES ASSUME NEW c \in Candidates, verdict[c] \in Promotions
               PROVE  /\ query[c] # "none"
                      /\ SeedTotal(record'[c]) = SeedTotal(record[c]) /\ SeedTotal(record[c]) \in Nat
    OBVIOUS
  <2>1. query[c] = "published" /\ \A r \in Rungs : record[c][r] # 0
    BY DEF RInv, FullAt, Measured
  <2> QED
    BY <2>1, ScoresKept
<1>2. phase' = "close" /\ verdict'[job'.iter] \in Promotions => job'.incumbent = job'.iter
  <2> SUFFICES ASSUME phase' = "close", verdict'[job'.iter] \in Promotions
               PROVE  job'.incumbent = job'.iter
    OBVIOUS
  <2>0. Promotions \subseteq Measured
    BY DEF Measured
  <2>1. CASE phase = "close"
    <3>1. UNCHANGED job
      BY <1>0, <2>1 DEF Places, Over, Active, Stays
    <3>2. verdict'[job.iter] = verdict[job.iter]
      BY <1>0, <2>1 DEF Writes
    <3> QED
      BY <2>1, <3>1, <3>2 DEF WinnerAt
  <2>2. CASE phase # "close"
    <3>1. job'.iter = job.iter /\ ~UNCHANGED vars
      BY <1>0, <2>2 DEF Places, Over, Active, Stays, vars
    <3>2. SettleDecided
      BY <2>0, <2>2, <3>1, UnmeasuredEnd
    <3>3. verdict'[job.iter] = Outcome
      BY <1>0, <3>2, SettleDecidedFacts DEF Over
    <3> QED
      BY <3>1, <3>2, <3>3, SettleDecidedFacts DEF Over
  <2> QED
    BY <2>1, <2>2
<1>3. ASSUME Past', NEW c \in Candidates, verdict'[c] \in Promotions
      PROVE  SeedTotal(Evidence(job.incumbent))' >= SeedTotal(record'[c])
  <2>0. Promotions \subseteq Measured
    BY DEF Measured
  <2>1. CASE SettleDecided
    <3>1. phase = "settle" /\ UNCHANGED record
      BY <2>1, SettleDecidedFacts
    <3>2. ~Over
      BY <1>0, <1>3 DEF Over, Fresh, Past
    <3>3. job'.iter = job.iter /\ phase' = "close"
      BY <2>1, <3>2, SettleDecidedFacts
    <3>4. Past
      BY <1>3, <3>3 DEF Past
    <3>5. /\ job.incumbent \in Candidates \cup {Fallback}
          /\ Evidence(job.incumbent) \in [Rungs -> Nat]
          /\ SeedTotal(Evidence(job.incumbent)) \in Nat
      BY Numbers, EvidenceTyped, TotalsTyped
    <3>6. /\ record[job.iter] \in [Rungs -> Nat] /\ record[c] \in [Rungs -> Nat]
          /\ SeedTotal(record[job.iter]) \in Nat /\ SeedTotal(record[c]) \in Nat
      BY <1>0, TotalsTyped DEF TypeOK
    <3>7. /\ verdict' = [verdict EXCEPT ![job.iter] = Outcome]
          /\ Outcome \in Promotions => SeedTotal(record[job.iter]) > SeedTotal(Evidence(job.incumbent))
          /\ job'.incumbent = IF Outcome \in Promotions THEN job.iter ELSE job.incumbent
      BY <2>1, <3>2, SettleDecidedFacts
    <3>8. c # job.iter => SeedTotal(Evidence(job.incumbent)) >= SeedTotal(record[c])
      <4> SUFFICES ASSUME c # job.iter PROVE SeedTotal(Evidence(job.incumbent)) >= SeedTotal(record[c])
        OBVIOUS
      <4>1. verdict[c] \in Promotions
        BY <1>0, <1>3, <3>7
      <4> QED
        BY <3>4, <4>1 DEF WinnerAt
    <3>9. c = job.iter => Outcome \in Promotions
      BY <1>0, <1>3, <3>7
    <3>10. CASE Outcome \in Promotions
      <4>1. SeedTotal(Evidence(job.incumbent))' = SeedTotal(record[job.iter])
        <5>1. job'.incumbent = job.iter /\ job.iter # Fallback
          BY <1>0, <3>7, <3>10
        <5>2. Evidence(job.incumbent)' = record[job.iter]
          BY <3>1, <5>1 DEF Evidence
        <5> QED
          BY <5>2 DEF SeedTotal
      <4> QED
        BY <3>1, <3>5, <3>6, <3>7, <3>8, <3>10, <4>1
    <3>11. CASE Outcome \notin Promotions
      <4>1. SeedTotal(Evidence(job.incumbent))' = SeedTotal(Evidence(job.incumbent))
        BY <3>7, <3>11, IncumbentKept
      <4> QED
        BY <3>1, <3>8, <3>9, <3>11, <4>1
    <3> QED
      BY <3>10, <3>11
  <2>2. CASE ~SettleDecided
    <3>1. ~Over /\ ~Begin
      <4>1. ~Over
        BY <1>0, <1>3 DEF Over, Fresh, Past
      <4>2. ~Begin
        BY <1>0, <1>3, BeginFacts DEF Fresh, Past
      <4> QED
        BY <4>1, <4>2
    <3>2. job'.incumbent = job.incumbent
      BY <2>2, <3>1, HandStays
    <3>3. SeedTotal(Evidence(job.incumbent))' = SeedTotal(Evidence(job.incumbent))
      BY <3>2, IncumbentKept
    <3>4. verdict[c] \in Promotions
      <4> SUFFICES ASSUME verdict'[c] # verdict[c] PROVE FALSE
        BY <1>3
      <4>1. c = job.iter /\ phase # "close" /\ phase' = "close"
        BY <1>0 DEF Writes
      <4>2. ~UNCHANGED vars
        BY <4>1 DEF vars
      <4> QED
        BY <1>3, <2>0, <2>2, <4>1, <4>2, UnmeasuredEnd
    <3>5. SeedTotal(Evidence(job.incumbent)) >= SeedTotal(record[c])
      <4>1. CASE Past
        BY <3>4, <4>1 DEF WinnerAt
      <4>2. CASE ~Past
        <5>1. phase = "close" /\ job.iter = First /\ CursorAgrees
          BY <1>0, <1>3, <3>1, <4>2 DEF Past, Places, Stays, Fresh, Active
        <5>2. c = First
          BY <1>1, <3>4, <5>1, Counting
        <5>3. job.incumbent = First /\ First # Fallback
          BY <3>4, <5>1, <5>2 DEF WinnerAt
        <5> QED
          BY <1>1, <3>4, <5>2, <5>3 DEF Evidence
      <4> QED
        BY <4>1, <4>2
    <3> QED
      BY <1>1, <3>3, <3>4, <3>5
  <2> QED
    BY <2>1, <2>2
<1> QED
  BY <1>2, <1>3 DEF WinnerAt

-----------------------------------------------------------------------------
(* Convergence.                                                            *)

\* The measured candidates that the command has behind it, and the primary of each.
Behind == {c \in First .. job.iter : verdict[c] \in Measured /\ (c < job.iter \/ phase \in After)}
Total(d) == SeedTotal(Evidence(d))

\* The best primary is that of the fallback or of one of them.
BestAt == \E d \in {Fallback} \cup Behind : Total(d) = job.conv.best

\* The streak is one of the last of them, none of which gains on all that came before it.
StreakAt ==
  \E last \in SUBSET Behind :
    /\ Cardinality(last) = job.conv.flat
    /\ \A c \in last :
         /\ \E d \in {Fallback} \cup {d \in Behind : d < c} : Total(c) <= Total(d) + Epsilon
         /\ \A d \in Behind \ last : d < c

\* A converged command is at its end.
ConvergedAt ==
  /\ job.conv.flat <= Patience
  /\ phase \notin After => job.conv.flat < Patience
  /\ job.stop = "converged" => phase \in {"end", "complete"} /\ Converged(job.conv)

CInv == BestAt /\ StreakAt /\ ConvergedAt

\* Admission never answers that research has converged.
LEMMA AdmissionAnswers ==
  Admission # "converged" /\ BundleAdmission # "converged"
<1>1. TimeReason(1, job.rung > FirstSeed) # "converged" /\ TimeReason(3, FALSE) # "converged"
  BY DEF TimeReason
<1> QED
  BY <1>1, SeedCount DEF Admission, BundleAdmission

\* A command starts without a streak.
LEMMA FreshStreak ==
  /\ FreshJob.conv.best = SeedTotal(FallbackEvidence) /\ FreshJob.conv.flat = 0
  /\ FreshJob.stop = "none"
BY DEF FreshJob, InitialConvergence

\* Research converges only where another candidate would be looked for.
LEMMA ConvergedHere ==
  ASSUME TypeOK, IInv, [Next]_vars, job.stop # "converged", job'.stop = "converged"
  PROVE  phase' = "end" /\ Converged(job.conv) /\ job'.conv = job.conv
<1>0. "converged" # "launch_cap" /\ "converged" # "provider"
  OBVIOUS
<1>1. CASE Begin \/ Die \/ Overrun \/ Close \/ End
  <2>1. job' = FreshJob \/ job' = job
    BY <1>1, BeginFacts, DieFacts, OverrunFacts, CloseFacts, EndFacts DEF Over, Fresh
  <2> QED
    BY <2>1, FreshStreak
<1>2. CASE RejectLaunch
  BY <1>2, RejectFacts, AdmissionAnswers
<1>3. CASE RefuseTraining \/ RefusePrediction \/ RestoreFailure \/ Falter
  BY <1>3, CallFacts
<1>4. CASE JudgeScreen
  BY <1>4, ScreenFacts DEF Still
<1>5. CASE JudgeFolds
  BY <1>5, FoldsFacts, AdmissionAnswers
<1>6. CASE ReserveQuery \/ JudgeSeed
  BY <1>6, ReserveFacts, SeedFacts DEF Still
<1>7. CASE SettleFailed \/ SettleDecided
  BY <1>0, <1>7, SettleFailedFacts, SettleDecidedFacts, FreshStreak DEF Over, Fresh
<1>8. CASE Request \/ ReturnRecord
  BY <1>8, RequestFacts, ReturnFacts DEF Still
<1>9. CASE Follow
  BY <1>0, <1>9, FollowFacts, TerminalFacts DEF Hold
<1>10. CASE Tick \/ Train \/ Evaluate \/ UNCHANGED vars
  <2>1. UNCHANGED job
    BY <1>10, TrainFacts, EvaluateFacts DEF Tick, vars
  <2> QED
    BY <2>1
<1> QED
  BY <1>1, <1>2, <1>3, <1>4, <1>5, <1>6, <1>7, <1>8, <1>9, <1>10 DEF Next

\* What is behind the command: nothing when it is over or starts, one more when a bundle is
\* decided, and the same otherwise.
LEMMA BehindStep ==
  ASSUME TypeOK, IInv, RInv, [Next]_vars
  PROVE  \/ job' = FreshJob /\ phase' \notin After /\ Behind' = {}
         \/ SettleDecided /\ ~Over /\ job.iter \notin Behind /\ Behind' = Behind \cup {job.iter}
         \/ ~SettleDecided /\ ~Over /\ ~Begin /\ Behind' = Behind
<1>0. /\ Writes /\ Places /\ job.iter \in Candidates /\ job.iter \in Nat
      /\ FreshJob.iter = First /\ verdict \in [Candidates -> Verdicts] /\ phase \in Phases
      /\ First .. job.iter \subseteq Candidates
  <2>1. verdict \in [Candidates -> Verdicts] /\ phase \in Phases
    BY DEF TypeOK
  <2>2. job.iter \in Candidates /\ job.iter \in Nat
    BY Numbers
  <2> QED
    BY <2>1, <2>2, StepShape, FreshTyped
<1>1. CASE Fresh /\ phase' \in {"down", "refused", "closed", "admit"}
  <2>1. job' = FreshJob /\ phase' \notin After
    BY <1>1 DEF Fresh, After
  <2>2. Behind' = {}
    BY <1>0, <2>1 DEF Behind
  <2> QED
    BY <2>1, <2>2
<1>2. CASE ~(Fresh /\ phase' \in {"down", "refused", "closed", "admit"})
  <2>1. ~Over /\ ~Begin
    BY <1>2, BeginFacts DEF Over
  <2>2. CASE SettleDecided
    <3>1. /\ phase = "settle" /\ phase' = "close" /\ job'.iter = job.iter
          /\ verdict' = [verdict EXCEPT ![job.iter] = Outcome] /\ Outcome \in Measured
      BY <2>1, <2>2, SettleDecidedFacts
    <3>2. \A c \in First .. job.iter : verdict'[c] = IF c = job.iter THEN Outcome ELSE verdict[c]
      BY <1>0, <3>1
    <3>3. job.iter \notin Behind
      BY <3>1 DEF Behind, After
    <3>4. Behind' = Behind \cup {job.iter}
      BY <1>0, <3>1, <3>2 DEF Behind, After
    <3> QED
      BY <2>1, <2>2, <3>3, <3>4
  <2>3. CASE ~SettleDecided
    <3>1. CASE phase' = "close" /\ phase # "close"
      <4>1. job'.iter = job.iter /\ phase \in Active /\ ~UNCHANGED vars
        BY <1>0, <1>2, <3>1 DEF Places, Over, Active, Stays, vars
      <4>2. verdict'[job.iter] \notin Measured
        BY <2>3, <3>1, <4>1, UnmeasuredEnd
      <4>3. \A c \in First .. job.iter : c # job.iter => verdict'[c] = verdict[c]
        BY <1>0 DEF Writes
      <4>4. Behind' = Behind
        BY <1>0, <3>1, <4>1, <4>2, <4>3 DEF Behind, After, Active
      <4> QED
        BY <2>1, <2>3, <4>4
    <3>2. CASE ~(phase' = "close" /\ phase # "close")
      <4>1. \A c \in Candidates : verdict'[c] = verdict[c]
        BY <1>0, <3>2 DEF Writes
      <4>2. CASE job'.iter = job.iter
        <5>1. phase \in After <=> phase' \in After
          BY <1>0, <1>2, <3>2, <4>2 DEF Places, Over, Active, Stays, After
        <5>2. Behind' = Behind
          BY <1>0, <4>1, <4>2, <5>1 DEF Behind
        <5> QED
          BY <2>1, <2>3, <5>2
      <4>3. CASE job'.iter # job.iter
        <5>1. /\ phase = "follow" /\ job'.iter = job.iter + 1 /\ job.iter + 1 \in Candidates
              /\ lineage[job.iter + 1] = "none"
          BY <1>0, <1>2, <4>3 DEF Places, Over, Stays
        <5>2. verdict'[job.iter + 1] \notin Measured
          <6>1. verdict[job.iter + 1] = "none"
            BY <5>1 DEF RInv, LineageAt
          <6>2. "none" \notin Measured
            BY DEF Measured, Promotions
          <6> QED
            BY <4>1, <5>1, <6>1, <6>2
        <5>3. Behind' = Behind
          BY <1>0, <4>1, <5>1, <5>2 DEF Behind, After
        <5> QED
          BY <2>1, <2>3, <5>3
      <4> QED
        BY <4>2, <4>3
    <3> QED
      BY <3>1, <3>2
  <2> QED
    BY <2>2, <2>3
<1> QED
  BY <1>1, <1>2

\* The primaries behind the command are those of decided bundles, which do not change.
LEMMA TotalsKept ==
  ASSUME TypeOK, IInv, RInv, [Next]_vars, NEW d \in {Fallback} \cup Behind
  PROVE  /\ Total(d) \in Nat /\ SeedTotal(Evidence(d)') = Total(d)
         /\ d \in Behind => d \in Candidates /\ d \in Nat /\ Total(d) = SeedTotal(record[d])
<1>1. CASE d = Fallback
  <2>1. FallbackEvidence \in [Rungs -> Nat] /\ Fallback \notin Behind
    BY FallbackTyped DEF Behind
  <2> QED
    BY <1>1, <2>1, FallbackKept, TotalsTyped DEF Total, Evidence
<1>2. CASE d \in Behind
  <2>1. d \in Candidates /\ d \in Nat /\ d # Fallback /\ verdict[d] \in Measured
    BY <1>2, Numbers DEF Behind
  <2>2. \A r \in Rungs : record[d][r] # 0
    BY <2>1 DEF RInv, FullAt
  <2>3. SeedTotal(record'[d]) = SeedTotal(record[d]) /\ SeedTotal(record[d]) \in Nat
    BY <2>1, <2>2, ScoresKept
  <2>4. Evidence(d) = record[d] /\ Evidence(d)' = record'[d]
    BY <2>1 DEF Evidence
  <2> QED
    BY <2>1, <2>3, <2>4 DEF Total
<1> QED
  BY <1>1, <1>2

\* The best primary is kept.
LEMMA BestStep ==
  ASSUME TypeOK, IInv, RInv, CInv, [Next]_vars
  PROVE  BestAt'
<1>0. \A d \in {Fallback} \cup Behind : Total(d) \in Nat /\ SeedTotal(Evidence(d)') = Total(d)
  BY TotalsKept
<1> SUFFICES \E d \in {Fallback} \cup Behind' : SeedTotal(Evidence(d)') = job'.conv.best
  BY DEF BestAt, Total
<1>1. CASE job' = FreshJob /\ Behind' = {}
  <2>1. SeedTotal(Evidence(Fallback)') = SeedTotal(FallbackEvidence)
    BY FallbackKept DEF Evidence
  <2> QED
    BY <1>1, <2>1, FreshStreak
<1>2. PICK d \in {Fallback} \cup Behind : Total(d) = job.conv.best
  BY DEF CInv, BestAt
<1>3. CASE SettleDecided /\ ~Over /\ Behind' = Behind \cup {job.iter}
  <2>1. /\ job'.conv = MeasuredUpdate(job.conv, SeedTotal(record[job.iter]))
        /\ UNCHANGED record
    BY <1>3, SettleDecidedFacts
  <2>2. job'.conv.best \in {SeedTotal(record[job.iter]), job.conv.best}
    BY <2>1 DEF MeasuredUpdate
  <2>4. CASE job'.conv.best = job.conv.best
    BY <1>0, <1>2, <1>3, <2>4
  <2>5. CASE job'.conv.best = SeedTotal(record[job.iter])
    <3>1. PICK i \in Candidates : i = job.iter
      BY Numbers
    <3>2. i # Fallback /\ i \in Behind' /\ job'.conv.best = SeedTotal(record'[i])
      BY <1>3, <2>1, <2>5, <3>1
    <3>3. Evidence(i)' = record'[i]
      BY <3>2 DEF Evidence
    <3> QED
      BY <3>2, <3>3
  <2> QED
    BY <2>2, <2>4, <2>5
<1>4. CASE ~SettleDecided /\ ~Over /\ ~Begin /\ Behind' = Behind
  <2>1. job'.conv.best = job.conv.best
    BY <1>4, HandStays
  <2> QED
    BY <1>0, <1>2, <1>4, <2>1
<1> QED
  BY <1>1, <1>3, <1>4, BehindStep

\* So is the streak, which a decided bundle extends or ends.
LEMMA StreakStep ==
  ASSUME TypeOK, IInv, RInv, CInv, [Next]_vars
  PROVE  StreakAt'
<1>0. /\ \A d \in {Fallback} \cup Behind : Total(d) \in Nat /\ SeedTotal(Evidence(d)') = Total(d)
      /\ \A d \in Behind : d \in Candidates /\ d \in Nat
      /\ job.iter \in Nat /\ job.conv \in Convergence /\ job.conv.flat \in Nat /\ job.conv.best \in Nat
      /\ Epsilon \in Nat
  BY TotalsKept, Numbers, SelectionAssumption DEF Convergence
<1> DEFINE next(d) == SeedTotal(Evidence(d)')
<1>s. SUFFICES \E last \in SUBSET Behind' :
        /\ Cardinality(last) = job'.conv.flat
        /\ \A c \in last :
             /\ \E d \in {Fallback} \cup {d \in Behind' : d < c} : next(c) <= next(d) + Epsilon
             /\ \A d \in Behind' \ last : d < c
  BY DEF StreakAt, Total
<1>1. CASE job' = FreshJob /\ Behind' = {}
  <2>1. Cardinality({}) = 0
    BY FS_EmptySet
  <2> QED
    BY <1>1, <2>1, FreshStreak
<1>2. PICK last \in SUBSET Behind :
        /\ Cardinality(last) = job.conv.flat
        /\ \A c \in last :
             /\ \E d \in {Fallback} \cup {d \in Behind : d < c} : Total(c) <= Total(d) + Epsilon
             /\ \A d \in Behind \ last : d < c
  BY DEF CInv, StreakAt
<1>3. \A c \in last :
        /\ \E d \in {Fallback} \cup {d \in Behind : d < c} : next(c) <= next(d) + Epsilon
        /\ \A d \in Behind \ last : d < c
  <2> SUFFICES ASSUME NEW c \in last
               PROVE  \E d \in {Fallback} \cup {d \in Behind : d < c} : next(c) <= next(d) + Epsilon
    BY <1>2
  <2>1. PICK d \in {Fallback} \cup {d \in Behind : d < c} : Total(c) <= Total(d) + Epsilon
    BY <1>2
  <2>2. next(c) = Total(c) /\ next(d) = Total(d)
    BY <1>0
  <2> QED
    BY <2>1, <2>2
<1>4. CASE ~SettleDecided /\ ~Over /\ ~Begin /\ Behind' = Behind
  <2>1. job'.conv.flat = job.conv.flat
    BY <1>4, HandStays
  <2> QED
    BY <1>2, <1>3, <1>4, <2>1
<1>5. CASE SettleDecided /\ ~Over /\ job.iter \notin Behind /\ Behind' = Behind \cup {job.iter}
  <2>0. PICK i \in Candidates : i = job.iter
    BY Numbers
  <2>1. /\ phase = "settle" /\ UNCHANGED record
        /\ job'.conv = MeasuredUpdate(job.conv, SeedTotal(record[i]))
    BY <1>5, <2>0, SettleDecidedFacts
  <2>2. job'.conv.flat = IF SeedTotal(record[i]) - job.conv.best > Epsilon THEN 0 ELSE job.conv.flat + 1
    BY <2>1 DEF MeasuredUpdate
  <2>3. i # Fallback /\ i \in Nat /\ Behind' = Behind \cup {i} /\ i \notin Behind
    BY <1>0, <1>5, <2>0
  <2>4. next(i) = SeedTotal(record[i]) /\ SeedTotal(record[i]) \in Nat
    <3>1. Evidence(i)' = record[i]
      BY <2>1, <2>3 DEF Evidence
    <3>2. record[i] \in [Rungs -> Nat]
      BY DEF TypeOK
    <3> QED
      BY <3>1, <3>2, TotalsTyped
  <2>5. \A d \in Behind : d < i
    BY <2>0, <2>1, Numbers DEF Behind, After
  <2>6. CASE SeedTotal(record[i]) - job.conv.best > Epsilon
    <3>1. Cardinality({}) = 0
      BY FS_EmptySet
    <3> QED
      BY <2>2, <2>6, <3>1
  <2>7. CASE ~(SeedTotal(record[i]) - job.conv.best > Epsilon)
    <3> DEFINE more == last \cup {i}
    <3>1. Cardinality(more) = job'.conv.flat
      <4>1. IsFiniteSet(last)
        BY <1>0, CandidatesFinite, FS_Subset
      <4>2. Cardinality(more) = Cardinality(last) + 1
        BY <2>3, <4>1, FS_AddElement
      <4> QED
        BY <1>2, <2>2, <2>7, <4>2
    <3>2. PICK d \in {Fallback} \cup Behind : Total(d) = job.conv.best
      BY DEF CInv, BestAt
    <3>3. next(i) <= next(d) + Epsilon
      <4>1. next(d) = job.conv.best
        BY <1>0, <3>2
      <4> HIDE DEF next
      <4> QED
        BY <1>0, <2>4, <2>7, <4>1
    <3>4. d \in {Fallback} \cup {e \in Behind' : e < i}
      BY <2>3, <2>5
    <3> HIDE DEF next
    <3>5. ASSUME NEW c \in more
          PROVE  /\ \E e \in {Fallback} \cup {e \in Behind' : e < c} : next(c) <= next(e) + Epsilon
                 /\ \A e \in Behind' \ more : e < c
      <4>1. CASE c = i
        BY <2>3, <2>5, <3>3, <3>4, <4>1
      <4>2. CASE c \in last
        <5>1. Behind' \ more = Behind \ last
          BY <2>3
        <5>2. \A e \in Behind \ last : e < c
          BY <1>3, <4>2
        <5>3. PICK e \in {Fallback} \cup {e \in Behind : e < c} : next(c) <= next(e) + Epsilon
          BY <1>3, <4>2
        <5> QED
          BY <2>3, <5>1, <5>2, <5>3
      <4> QED
        BY <4>1, <4>2
    <3>6. more \in SUBSET Behind'
      BY <2>3
    <3> HIDE DEF more
    <3> QED
      BY <3>1, <3>5, <3>6
  <2> QED
    BY <2>6, <2>7
<1> QED
  BY <1>1, <1>4, <1>5, BehindStep

\* The command never goes on with a full streak, and stops for one only where it is full.
LEMMA ConvergedStep ==
  ASSUME TypeOK, IInv, RInv, CInv, [Next]_vars
  PROVE  ConvergedAt'
<1>0. /\ Places /\ job.conv.flat \in Nat /\ Patience \in Nat /\ Patience # 0
      /\ phase \in Phases
  <2>1. phase \in Phases
    BY DEF TypeOK
  <2> QED
    BY <2>1, StepShape, Numbers, SelectionAssumption DEF Convergence
<1>1. CASE job' = FreshJob /\ phase' \notin After
  BY <1>0, <1>1, FreshStreak DEF ConvergedAt
<1>2. CASE SettleDecided /\ ~Over
  <2>1. /\ phase = "settle" /\ phase' = "close" /\ job'.stop = job.stop
        /\ job'.conv = MeasuredUpdate(job.conv, SeedTotal(record[job.iter]))
    BY <1>2, SettleDecidedFacts
  <2>2. job'.conv.flat \in {0, job.conv.flat + 1}
    BY <2>1 DEF MeasuredUpdate
  <2>3. job.conv.flat < Patience /\ job.stop # "converged"
    BY <2>1 DEF CInv, ConvergedAt, After
  <2>4. phase' \in After
    BY <2>1 DEF After
  <2>5. job'.conv.flat <= Patience
    BY <1>0, <2>2, <2>3
  <2> QED
    BY <2>1, <2>3, <2>4, <2>5 DEF ConvergedAt
<1>3. CASE ~SettleDecided /\ ~Over /\ ~Begin
  <2>1. job'.conv.flat = job.conv.flat
    BY <1>3, HandStays
  <2>2. phase' \notin After => job.conv.flat < Patience
    <3>1. CASE phase \notin After
      BY <3>1 DEF CInv, ConvergedAt
    <3>2. CASE phase \in After
      <4>1. phase' \notin After => Terminal = "none"
        BY <1>0, <1>3, <3>2 DEF Places, Active, After, Stays
      <4>2. Terminal = "none" => ~Converged(job.conv)
        BY TerminalFacts
      <4> QED
        BY <1>0, <4>1, <4>2 DEF Converged
    <3> QED
      BY <3>1, <3>2
  <2>3. job'.stop = "converged" => phase' \in {"end", "complete"} /\ Converged(job'.conv)
    <3>1. CASE job.stop = "converged"
      <4>1. phase \in {"end", "complete"} /\ Converged(job.conv)
        BY <3>1 DEF CInv, ConvergedAt
      <4>2. phase' \in {"end", "complete"}
        BY <1>0, <1>3, <4>1 DEF Places, Active, Stays
      <4> QED
        BY <2>1, <4>1, <4>2 DEF Converged
    <3>2. CASE job.stop # "converged"
      BY <3>2, ConvergedHere
    <3> QED
      BY <3>1, <3>2
  <2> QED
    BY <2>1, <2>2, <2>3 DEF CInv, ConvergedAt
<1> QED
  BY <1>1, <1>2, <1>3, BehindStep

\* Nothing is behind a command at first.
LEMMA InitConvergence == Init => CInv
<1> SUFFICES ASSUME Init PROVE CInv
  OBVIOUS
<1>1. /\ phase = "down" /\ job = FreshJob /\ job.iter = First /\ First \in Nat
      /\ Patience \in Nat /\ Patience # 0
  BY InitType, FreshTyped, SelectionAssumption DEF Init
<1>2. Behind = {}
  BY <1>1 DEF Behind, After
<1>3. BestAt
  BY <1>1, FreshStreak DEF BestAt, Total, Evidence
<1>4. StreakAt
  <2>1. Cardinality({}) = 0
    BY FS_EmptySet
  <2> QED
    BY <1>1, <1>2, <2>1, FreshStreak DEF StreakAt
<1>5. ConvergedAt
  BY <1>1, FreshStreak DEF ConvergedAt
<1> QED
  BY <1>3, <1>4, <1>5 DEF CInv

-----------------------------------------------------------------------------
(* What the loop has counted.                                              *)

\* A launch of the first candidate that a command comes to, by the count and the time it then has.
Admits(r) ==
  /\ r <= limits.launches
  /\ limits.elapsed + Spent(r - 1) + P95 + (IF r > FirstSeed THEN 0 ELSE Reserve) <= Wall
Roots == Screened(First = 1, record[First], FallbackEvidence)

\* The first candidate is executed only where every command admits it.
GroundAt ==
  /\ \A r \in Rungs : exec[First][r] # "none" => Admits(r) /\ (r >= 2 => Roots)
  /\ job.iter = First /\ phase \in {"call", "judge", "reserve"} => Admits(job.rung)
  /\ job.iter = First /\ phase \in Active /\ job.rung >= 2 => Roots

\* An execution is charged, unless a launch strayed; and when the first candidate ends, the loop
\* has counted what was executed of it.
StrayAt ==
  /\ ~strayed => \A c \in Candidates, r \in Rungs : exec[c][r] # "none" => <<c, r>> \in charged
  /\ job.iter = First /\ phase \in {"settle", "close"} =>
       \A r \in Rungs :
         /\ exec[First][r] # "none" => r <= job.used
         /\ ~strayed /\ r <= job.used => <<First, r>> \in charged

\* Past the first candidate the loop has counted every charge, and the launch it waits for.
Waits == phase = "call" /\ exec[job.iter][job.rung] = "none"
Charged == Cardinality(charged) + (IF Waits THEN 1 ELSE 0)
CountAt ==
  ~Stranded /\ Past => Charged <= job.used /\ (~strayed => Charged = job.used)

\* A bundle in hand has the launches it was admitted with, and the time as long as none of its
\* seeds takes longer than it was admitted with.
OnTime(c) == \A r \in Seeds : limits.seconds[c][r] <= P95
RoomAt ==
  /\ phase = "reserve" =>
       job.used + 3 <= limits.launches /\ job.elapsed + 3 * P95 + Reserve <= Wall
  /\ job.rung \in Seeds /\ phase \in {"admit", "call", "judge"} =>
       /\ job.used + (IF phase = "admit" THEN 6 ELSE 5) - job.rung <= limits.launches
       /\ OnTime(job.iter) =>
            job.elapsed + ((IF phase = "judge" THEN 5 ELSE 6) - job.rung) * P95 + Reserve <= Wall

LInv == GroundAt /\ StrayAt /\ CountAt /\ RoomAt

\* What Admission answers to the first candidate.
LEMMA FirstAdmitted ==
  ASSUME TypeOK, IInv, job.iter = First, phase = "admit"
  PROVE  Admission = "none" <=> Admits(job.rung)
<1>1. /\ job.used = job.rung - 1 /\ job.elapsed = limits.elapsed + Spent(job.rung - 1)
      /\ limits.launches \in Nat /\ limits.elapsed \in Nat /\ job.rung \in 1 .. 5 /\ FirstSeed = 3
  BY Numbers, RungNumbers DEF IInv, FirstAt
<1>2. job.used >= limits.launches <=> ~(job.rung <= limits.launches)
  BY <1>1
<1>3. TimeReason(1, job.rung > FirstSeed) = "none" <=>
        limits.elapsed + Spent(job.rung - 1) + P95 + (IF job.rung > FirstSeed THEN 0 ELSE Reserve) <= Wall
  <2>0. Spent(job.rung - 1) \in Nat /\ P95 \in Nat /\ Reserve \in Nat /\ Wall \in Nat
    <3>1. job.rung - 1 \in 0 .. 5
      BY <1>1
    <3> QED
      BY <3>1, SpentRuns, Settings
  <2> DEFINE need == limits.elapsed + Spent(job.rung - 1) + P95
  <2>1. job.elapsed + 1 * P95 = need /\ need \in Nat
    BY <1>1, <2>0
  <2> HIDE DEF need
  <2>4. need = limits.elapsed + Spent(job.rung - 1) + P95
    BY DEF need
  <2>2. CASE job.rung > FirstSeed
    BY <2>0, <2>1, <2>2, <2>4 DEF TimeReason
  <2>3. CASE ~(job.rung > FirstSeed)
    BY <2>0, <2>1, <2>3, <2>4 DEF TimeReason
  <2> QED
    BY <2>2, <2>3
<1>4. CASE job.used >= limits.launches
  BY <1>2, <1>4 DEF Admission, Admits
<1>5. CASE ~(job.used >= limits.launches)
  <2>1. Admission = TimeReason(1, job.rung > FirstSeed)
    BY <1>5 DEF Admission
  <2> QED
    BY <1>2, <1>3, <1>5, <2>1 DEF Admits
<1> QED
  BY <1>4, <1>5

\* A root stays one.
LEMMA RootsKept ==
  ASSUME TypeOK, IInv, [Next]_vars, Roots
  PROVE  Roots'
<1>a. Writes /\ First \in Candidates
  BY StepShape
<1>b. 1 \in Rungs /\ FoldB = 1
  BY RungNumbers
<1>c. record[First] \in [Rungs -> Nat]
  BY <1>a DEF TypeOK
<1>0. Writes /\ record[First][1] \in Nat /\ 1 \in Rungs /\ First \in Candidates /\ FoldB = 1
  BY <1>a, <1>b, <1>c
<1>1. CASE First = 1
  BY <1>1 DEF Roots, Screened
<1>2. CASE First # 1
  <2>1. record[First][1] > 1
    BY <1>0, <1>2 DEF Roots, Screened, FallbackEvidence
  <2>2. record[First][1] # 0
    BY <1>0, <2>1
  <2>3. record'[First][1] = record[First][1]
    BY <1>0, <2>2 DEF Writes
  <2> QED
    BY <1>0, <2>1, <2>3 DEF Roots, Screened, FallbackEvidence
<1> QED
  BY <1>1, <1>2

\* Every command admits what one has executed.
LEMMA GroundStep ==
  ASSUME TypeOK, IInv, RInv, GroundAt, [Next]_vars
  PROVE  GroundAt'
<1>0. /\ Writes /\ Places /\ job.iter \in Candidates /\ job.iter \in Nat /\ job.rung \in 1 .. 5
      /\ job.rung \in Rungs /\ First \in Candidates
      /\ FreshJob.iter = First /\ FreshJob.rung = 1
  BY StepShape, Numbers, FreshTyped, RungNumbers
<1>1. \A r : Admits(r)' <=> Admits(r)
  BY <1>0 DEF Admits, Spent, Seconds, Writes
<1>2. Roots => Roots'
  BY RootsKept
<1>3. ASSUME NEW r \in Rungs, exec'[First][r] # "none" PROVE Admits(r) /\ (r >= 2 => Roots)
  <2>1. CASE exec[First][r] # "none"
    BY <2>1 DEF GroundAt
  <2>2. CASE exec[First][r] = "none"
    <3>1. phase = "call" /\ job.iter = First /\ job.rung = r
      BY <1>0, <1>3, <2>2 DEF Writes
    <3> QED
      BY <3>1 DEF GroundAt, Active
  <2> QED
    BY <2>1, <2>2
<1>4. ASSUME job'.iter = First, phase' \in {"call", "judge", "reserve"}
      PROVE  Admits(job'.rung)
  <2>1. CASE UNCHANGED <<phase, job>>
    BY <1>4, <2>1 DEF GroundAt
  <2>2. CASE ~UNCHANGED <<phase, job>>
    <3>1. Stays /\ Moves
      BY <1>0, <1>4, <2>2 DEF Places, Over
    <3>2. CASE phase = "admit"
      <4>1. Admission = "none" /\ job'.rung = job.rung /\ job.iter = First
        BY <1>4, <3>1, <3>2 DEF Moves, Stays
      <4> QED
        BY <3>2, <4>1, FirstAdmitted
    <3>3. CASE phase # "admit"
      <4>1. job'.rung = job.rung /\ job.iter = First /\ phase \in {"call", "judge", "reserve"}
        BY <1>4, <3>1, <3>3 DEF Moves, Stays
      <4> QED
        BY <4>1 DEF GroundAt
    <3> QED
      BY <3>2, <3>3
  <2> QED
    BY <2>1, <2>2
<1>5. ASSUME job'.iter = First, phase' \in Active, job'.rung >= 2
      PROVE  Roots
  <2>1. CASE UNCHANGED <<phase, job>>
    BY <1>5, <2>1 DEF GroundAt
  <2>2. CASE ~UNCHANGED <<phase, job>>
    <3>0. ~Fresh
      BY <1>0, <1>5 DEF Fresh
    <3>1. Stays /\ Moves /\ phase \in Active /\ job.iter = First
      BY <1>0, <1>5, <2>2, <3>0 DEF Places, Over, Active, Stays
    <3>2. CASE job.rung >= 2
      BY <3>1, <3>2 DEF GroundAt
    <3>3. CASE job.rung = 1
      <4>1. /\ phase = "judge"
            /\ Screened(job.iter = 1, record[job.iter], Evidence(job.incumbent))
        BY <1>5, <3>1, <3>3 DEF Moves
      <4>2. job.incumbent = Fallback
        BY <3>1, <4>1 DEF IInv, FirstAt, After
      <4> QED
        BY <3>1, <4>1, <4>2 DEF Roots, Evidence
    <3> QED
      BY <1>0, <3>2, <3>3
  <2> QED
    BY <2>1, <2>2
<1>6. \A r \in Rungs : exec'[First][r] # "none" => Admits(r)' /\ (r >= 2 => Roots')
  BY <1>1, <1>2, <1>3
<1>7. job'.iter = First /\ phase' \in {"call", "judge", "reserve"} => Admits(job'.rung)
  BY <1>4
<1>8. Admits(job'.rung) => Admits(job.rung)'
  BY <1>0 DEF Admits, Spent, Seconds, Writes
<1> QED
  BY <1>2, <1>5, <1>6, <1>7, <1>8 DEF GroundAt, Active

\* The runs behind the one in hand are charged.
LEMMA RunsCharged ==
  ASSUME TypeOK, IInv, phase \notin {"follow", "end", "complete"}
  PROVE  \A r \in Rungs : r < job.rung => <<job.iter, r>> \in charged
<1> SUFFICES ASSUME NEW r \in Rungs, r < job.rung PROVE <<job.iter, r>> \in charged
  OBVIOUS
<1>1. record[job.iter][r] # 0 /\ job.iter \in Candidates
  BY Numbers DEF IInv, BehindAt
<1> QED
  BY <1>1 DEF IInv, ScoreAt

\* Where a score is missing nothing was executed after it.
LEMMA NothingAfter ==
  ASSUME OrderAt, NEW c \in Candidates, NEW q \in Rungs, record[c][q] = 0, NEW r \in Rungs, q < r
  PROVE  exec[c][r] = "none"
BY DEF OrderAt

\* When the first candidate ends, nothing was executed of it that the loop has not counted: every
\* command that went on from where this one ends would have been admitted as this one was.
LEMMA FirstEnds ==
  ASSUME TypeOK, IInv, RInv, GroundAt, [Next]_vars, job.iter = First, Ends,
         phase \in {"admit", "call", "judge"}, NEW r \in Rungs, exec[First][r] # "none"
  PROVE  r <= job.used
<1>0. /\ job.rung \in 1 .. 5 /\ job.rung \in Rungs /\ First \in Candidates /\ r \in 1 .. 5
      /\ Rungs = 1 .. 5 /\ Seeds = 3 .. 5
      /\ job.used = IF phase = "admit" THEN job.rung - 1 ELSE job.rung
  BY Numbers, RungNumbers DEF IInv, FirstAt
<1>1. CASE phase = "admit"
  <2>1. ~Admits(job.rung)
    BY <1>1, FirstAdmitted DEF Ends
  <2>2. exec[First][job.rung] = "none"
    BY <1>0, <2>1 DEF GroundAt
  <2>3. record[First][job.rung] = 0
    BY <1>0, <2>2 DEF IInv, ScoreAt
  <2>4. ~(job.rung < r) /\ job.rung # r
    BY <1>0, <2>2, <2>3, NothingAfter DEF RInv
  <2> QED
    BY <1>0, <1>1, <2>4
<1>2. CASE phase = "call"
  <2>1. record[First][job.rung] = 0
    BY <1>2 DEF Ends
  <2>2. ~(job.rung < r)
    BY <1>0, <2>1, NothingAfter DEF RInv
  <2> QED
    BY <1>0, <1>2, <2>2
<1>3. CASE phase = "judge" /\ job.rung = 1
  <2>1. job.incumbent = Fallback
    BY <1>3 DEF IInv, FirstAt, After
  <2>2. ~Roots
    BY <1>3, <2>1 DEF Ends, Roots, Evidence
  <2>3. ~(r >= 2)
    BY <2>2 DEF GroundAt
  <2> QED
    BY <1>0, <1>3, <2>3
<1>4. CASE phase = "judge" /\ job.rung = 2
  <2>1. ~(MayPromote /\ BundleAdmission = "none")
    BY <1>4 DEF Ends
  <2>2. CASE query[First] # "none"
    <3>1. job.incumbent = Fallback /\ job.used = 2 /\ job.elapsed = limits.elapsed + Spent(2)
      BY <1>4 DEF IInv, FirstAt, After
    <3>2. Qualified
      BY <2>2 DEF IInv, QualifiedAt
    <3>3. MayPromote
      BY <1>0, <2>2, <3>1, <3>2 DEF MayPromote, Qualified, Evidence, Queried
    <3>4. BundleAdmission = "none"
      <4>1. job.elapsed \in Nat /\ limits.elapsed \in Nat /\ limits.launches \in Nat
        BY Numbers
      <4>2. TimeReason(3, FALSE) = "none"
        BY <3>1, <3>2, <4>1, BundleFitsTime DEF Qualified
      <4>3. ~(job.used + 3 > limits.launches)
        BY <3>1, <3>2, <4>1 DEF Qualified
      <4> QED
        BY <4>2, <4>3, SeedCount DEF BundleAdmission
    <3> QED
      BY <2>1, <3>3, <3>4
  <2>3. CASE query[First] = "none"
    <3>1. r \notin Seeds
      BY <1>0, <2>3 DEF RInv, OrderAt
    <3> QED
      BY <1>0, <1>4, <3>1
  <2> QED
    BY <2>2, <2>3
<1> QED
  BY <1>0, <1>1, <1>2, <1>3, <1>4 DEF Ends

\* So the count of the first candidate is right when it ends, unless a launch strayed.
LEMMA StrayStep ==
  ASSUME TypeOK, IInv, RInv, GroundAt, StrayAt, [Next]_vars
  PROVE  StrayAt'
<1>0. /\ Writes /\ Places /\ job.iter \in Candidates /\ job.iter \in Nat /\ job.rung \in 1 .. 5
      /\ First \in Candidates /\ FreshJob.iter = First
  BY StepShape, Numbers, FreshTyped
<1>1. ASSUME ~strayed', NEW c \in Candidates, NEW r \in Rungs, exec'[c][r] # "none"
      PROVE  <<c, r>> \in charged'
  <2>1. ~strayed
    BY <1>0, <1>1, Zenon DEF Writes
  <2>2. CASE exec[c][r] # "none"
    <3>1. <<c, r>> \in charged
      BY <2>1, <2>2, Zenon DEF StrayAt
    <3> QED
      BY <1>0, <3>1, Zenon DEF Writes
  <2>3. CASE exec[c][r] = "none"
    BY <1>0, <1>1, <2>3, Zenon DEF Writes
  <2> QED
    BY <2>2, <2>3
<1>2. ASSUME job'.iter = First, phase' \in {"settle", "close"}, NEW r \in Rungs
      PROVE  /\ exec'[First][r] # "none" => r <= job'.used
             /\ ~strayed' /\ r <= job'.used => <<First, r>> \in charged'
  <2>1. /\ job.iter = First /\ job'.used = job.used /\ phase # "reserve"
        /\ UNCHANGED <<phase, job>> \/ (Moves /\ phase \in Active \ {"settle"})
           \/ (Ends /\ phase \in Active)
        /\ phase \in Active \cup {"close"}
    BY <1>0, <1>2 DEF Places, Stays, Over, Active, Moves
  <2>2. ~(phase = "call" /\ phase' = phase) /\ r \in 1 .. 5 /\ job.used \in Nat
    BY <1>2, RungNumbers, Numbers
  <2>3. exec'[First][r] # "none" => exec[First][r] # "none"
    BY <1>0, <2>2 DEF Writes
  <2>4. ~strayed' => ~strayed
    BY <1>0, Zenon DEF Writes
  <2>5. <<First, r>> \in charged => <<First, r>> \in charged'
    BY <1>0 DEF Writes
  <2>6. CASE phase \in {"settle", "close"}
    <3>1. /\ exec[First][r] # "none" => r <= job.used
          /\ ~strayed /\ r <= job.used => <<First, r>> \in charged
      BY <2>1, <2>6 DEF StrayAt
    <3> QED
      BY <2>1, <2>3, <2>4, <2>5, <3>1, Zenon
  <2>7. CASE phase \in {"admit", "call", "judge"}
    <3>0. job.used = IF phase = "admit" THEN job.rung - 1 ELSE job.rung
      BY <2>1, <2>7 DEF IInv, FirstAt
    <3>1. r < job.rung => <<First, r>> \in charged
      BY <2>1, <2>7, RunsCharged
    <3>2. CASE Ends
      <4>1. exec[First][r] # "none" => r <= job.used
        BY <2>1, <2>7, <3>2, FirstEnds
      <4>2. ASSUME ~strayed', r <= job.used PROVE <<First, r>> \in charged
        <5>1. CASE phase = "judge"
          <6>1. record[First][job.rung] # 0
            BY <2>1, <5>1 DEF IInv, BehindAt
          <6>2. <<First, job.rung>> \in charged
            BY <1>0, <6>1, Numbers DEF IInv, ScoreAt
          <6> QED
            BY <1>0, <2>2, <3>0, <3>1, <4>2, <5>1, <6>2
        <5>2. CASE phase = "call"
          <6>1. exec[First][job.rung] # "none"
            BY <2>1, <3>2, <4>2, <5>2, Zenon DEF Ends
          <6>2. ~strayed
            BY <2>4, <4>2
          <6>3. job.rung \in Rungs
            BY Numbers
          <6>4. <<First, job.rung>> \in charged
            BY <1>0, <6>1, <6>2, <6>3, Zenon DEF StrayAt
          <6> QED
            BY <1>0, <2>2, <3>0, <3>1, <4>2, <5>2, <6>4
        <5>3. CASE phase = "admit"
          BY <1>0, <2>2, <3>0, <3>1, <4>2, <5>3
        <5> QED
          BY <2>7, <5>1, <5>2, <5>3
      <4> QED
        BY <2>1, <2>3, <2>5, <4>1, <4>2, Zenon
    <3>3. CASE ~Ends
      <4>1. phase = "judge" /\ job.rung = 5 /\ job.used = 5
        <5>1. Moves
          BY <1>2, <2>1, <2>7, <3>3
        <5> QED
          BY <1>2, <2>7, <3>0, <3>3, <5>1 DEF Moves
      <4>2. record[First][5] # 0 /\ 5 \in Rungs
        BY <2>1, <4>1, Numbers DEF IInv, BehindAt
      <4>3. <<First, 5>> \in charged
        BY <1>0, <4>2 DEF IInv, ScoreAt
      <4>4. <<First, r>> \in charged
        BY <2>2, <3>1, <4>1, <4>3
      <4> QED
        BY <2>1, <2>2, <2>5, <4>1, <4>4
    <3> QED
      BY <3>2, <3>3
  <2> QED
    BY <2>1, <2>6, <2>7 DEF Active
<1> QED
  BY <1>1, <1>2, Zenon DEF StrayAt

\* A bundle that was admitted has the room left that it was admitted with.
LEMMA RoomStep ==
  ASSUME TypeOK, IInv, RInv, RoomAt, [Next]_vars
  PROVE  RoomAt'
<1>0. /\ Writes /\ Places /\ job.rung \in 1 .. 5 /\ job.used \in Nat /\ job.elapsed \in Nat
      /\ limits.launches \in Nat /\ FreshJob.rung = 1 /\ Seeds = 3 .. 5 /\ P95 \in Nat /\ P95 # 0
      /\ limits' = limits
  <2>1. Writes /\ Places
    BY StepShape
  <2>2. limits' = limits
    BY <2>1 DEF Writes
  <2> QED
    BY <2>1, <2>2, Numbers, FreshTyped, RungNumbers, ScienceAssumption
<1>1. CASE UNCHANGED <<phase, job>>
  BY <1>0, <1>1 DEF RoomAt, OnTime
<1>2. CASE ~UNCHANGED <<phase, job>> /\ ~(Stays /\ Moves)
  <2>1. phase' # "reserve" /\ (phase' \in {"admit", "call", "judge"} => job'.rung = 1)
    BY <1>0, <1>2 DEF Places, Over, Fresh, Active
  <2> QED
    BY <1>0, <2>1 DEF RoomAt
<1>3. CASE Stays /\ Moves
  <2> DEFINE u == job'.used
             e == job'.elapsed
             k == job'.rung
             t == limits.seconds[job.iter][job.rung]
  <2>0. OnTime(job.iter)' <=> OnTime(job.iter)
    BY <1>0, <1>3 DEF OnTime, Stays
  <2>t. t \in Nat /\ (OnTime(job.iter) /\ job.rung \in Seeds => t <= P95)
    BY Numbers, SecondsTyped DEF OnTime
  <2> HIDE DEF t
  <2>1. CASE phase = "judge" /\ phase' = "reserve"
    <3>1. u = job.used /\ e = job.elapsed /\ BundleAdmission = "none" /\ k = 2
      BY <1>3, <2>1 DEF Moves
    <3>2. job.used + 3 <= limits.launches /\ job.elapsed + 3 * P95 + Reserve <= Wall
      <4>1. ~(job.used + 3 > limits.launches) /\ TimeReason(3, FALSE) = "none"
        BY <3>1, SeedCount DEF BundleAdmission
      <4>2. job.elapsed + 3 * P95 + Reserve <= Wall
        BY <1>0, <4>1, BundleFitsTime
      <4>3. job.used + 3 <= limits.launches
        BY <1>0, <4>1
      <4> QED
        BY <4>2, <4>3
    <3> QED
      BY <1>0, <2>1, <3>1, <3>2 DEF RoomAt
  <2>2. CASE phase = "reserve"
    <3>1. phase' = "admit" /\ u = job.used /\ e = job.elapsed /\ k = 3
      BY <1>3, <2>2 DEF Moves
    <3>2. job.used + 3 <= limits.launches /\ job.elapsed + 3 * P95 + Reserve <= Wall
      BY <2>2 DEF RoomAt
    <3>3. u + 6 - k <= limits.launches /\ e + (6 - k) * P95 + Reserve <= Wall
      BY <1>0, <3>1, <3>2
    <3> QED
      BY <1>0, <3>1, <3>3 DEF RoomAt
  <2>3. CASE phase = "admit" /\ phase' = "call"
    <3>1. u = job.used + 1 /\ e = job.elapsed /\ k = job.rung
      BY <1>3, <2>3 DEF Moves
    <3>2. job.rung \in Seeds =>
            /\ job.used + 6 - job.rung <= limits.launches
            /\ OnTime(job.iter) => job.elapsed + (6 - job.rung) * P95 + Reserve <= Wall
      BY <2>3 DEF RoomAt
    <3>3. k \in Seeds =>
            /\ u + 5 - k <= limits.launches
            /\ OnTime(job.iter) => e + (6 - k) * P95 + Reserve <= Wall
      BY <1>0, <3>1, <3>2
    <3> QED
      BY <1>0, <2>0, <2>3, <3>3 DEF RoomAt
  <2>4. CASE phase = "call" /\ phase' = "judge"
    <3>1. u = job.used /\ e = job.elapsed + t /\ k = job.rung
      BY <1>3, <2>4 DEF Moves, t
    <3>2. job.rung \in Seeds =>
            /\ job.used + 5 - job.rung <= limits.launches
            /\ OnTime(job.iter) => job.elapsed + (6 - job.rung) * P95 + Reserve <= Wall
      BY <2>4 DEF RoomAt
    <3>3. job.rung \in Seeds => (6 - job.rung) * P95 = (5 - job.rung) * P95 + P95
      BY <1>0
    <3>4. k \in Seeds =>
            /\ u + 5 - k <= limits.launches
            /\ OnTime(job.iter) => e + (5 - k) * P95 + Reserve <= Wall
      <4> SUFFICES ASSUME k \in Seeds, OnTime(job.iter)
                   PROVE  e + (5 - k) * P95 + Reserve <= Wall
        BY <1>0, <3>1, <3>2
      <4> DEFINE n == (5 - job.rung) * P95
      <4>1. n \in Int /\ job.elapsed + n + P95 + Reserve <= Wall
        BY <1>0, <3>1, <3>2, <3>3
      <4>2. e + n + Reserve <= Wall
        <5> HIDE DEF n
        <5> QED
          BY <1>0, <2>t, <3>1, <4>1, ScienceAssumption
      <4> QED
        BY <3>1, <4>2
    <3> QED
      BY <1>0, <2>0, <2>4, <3>4 DEF RoomAt
  <2>5. CASE phase = "judge" /\ phase' = "admit"
    <3>1. u = job.used /\ e = job.elapsed /\ k = job.rung + 1 /\ job.rung \in {1, 3, 4}
      BY <1>3, <2>5 DEF Moves
    <3>2. job.rung \in Seeds =>
            /\ job.used + 5 - job.rung <= limits.launches
            /\ OnTime(job.iter) => job.elapsed + (5 - job.rung) * P95 + Reserve <= Wall
      BY <2>5 DEF RoomAt
    <3>3. k \in Seeds =>
            /\ u + 6 - k <= limits.launches
            /\ OnTime(job.iter) => e + (6 - k) * P95 + Reserve <= Wall
      BY <1>0, <3>1, <3>2
    <3> QED
      BY <1>0, <2>0, <2>5, <3>3 DEF RoomAt
  <2>6. CASE phase' = "settle"
    BY <2>6 DEF RoomAt
  <2> QED
    BY <1>3, <2>1, <2>2, <2>3, <2>4, <2>5, <2>6 DEF Moves
<1> QED
  BY <1>1, <1>2, <1>3

\* A launch that an earlier command left behind stays uncounted.
LEMMA StrandedStays ==
  ASSUME TypeOK, IInv, RInv, [Next]_vars, Stranded
  PROVE  Stranded'
<1>0. /\ Writes /\ Places /\ charged \subseteq Candidates \X Rungs
      /\ lineage \in [Candidates -> {"none", "retained", "fresh", "stale"}]
  <2>1. /\ charged \subseteq Candidates \X Rungs
        /\ lineage \in [Candidates -> {"none", "retained", "fresh", "stale"}]
    BY DEF TypeOK
  <2> QED
    BY <2>1, StepShape
<1>1. PICK launch \in charged : lineage[launch[1]] = "stale"
  BY DEF Stranded
<1>2. PICK c \in Candidates, r \in Rungs : launch = <<c, r>>
  BY <1>0
<1>3. lineage[c] = "stale" /\ <<c, r>> \in charged
  BY <1>1, <1>2
<1>4. <<c, r>> \in charged'
  BY <1>0, <1>3 DEF Writes
<1>5. lineage'[c] = "stale"
  BY <1>0, <1>3 DEF Places, Over, Stays
<1> QED
  BY <1>4, <1>5 DEF Stranded

\* The charges are finitely many.
LEMMA ChargedFinite ==
  ASSUME TypeOK
  PROVE  IsFiniteSet(charged) /\ Cardinality(charged) \in Nat
<1>1. IsFiniteSet(Candidates) /\ IsFiniteSet(Rungs)
  <2>1. 1 \in Int /\ 5 \in Int
    OBVIOUS
  <2>2. IsFiniteSet(1 .. 5)
    BY <2>1, FS_Interval, Zenon
  <2> QED
    BY <2>2, CandidatesFinite, RungNumbers
<1>2. IsFiniteSet(Candidates \X Rungs)
  BY <1>1, FS_Product
<1>3. charged \subseteq Candidates \X Rungs
  BY DEF TypeOK
<1> QED
  BY <1>2, <1>3, FS_Subset, FS_CardinalityType

\* So many launches of one candidate.
LEMMA RunsCounted ==
  ASSUME NEW c, NEW n \in Nat
  PROVE  IsFiniteSet({c} \X (1 .. n)) /\ Cardinality({c} \X (1 .. n)) = n
<1>1. IsFiniteSet({c}) /\ Cardinality({c}) = 1
  BY FS_Singleton
<1>2. IsFiniteSet(1 .. n) /\ Cardinality(1 .. n) = n
  <2>1. 1 \in Int /\ n \in Int
    OBVIOUS
  <2>2. IsFiniteSet(1 .. n) /\ Cardinality(1 .. n) = IF 1 > n THEN 0 ELSE n - 1 + 1
    BY <2>1, FS_Interval, Zenon
  <2> QED
    BY <2>2
<1>3. IsFiniteSet({c} \X (1 .. n)) /\ Cardinality({c} \X (1 .. n)) = 1 * n
  BY <1>1, <1>2, FS_Product
<1> QED
  BY <1>3

\* While the first candidate is in hand, only launches left behind are those of another.
LEMMA FirstAlone ==
  ASSUME TypeOK, IInv, RInv, ~Stranded, phase # "down", job.iter = First,
         NEW launch \in charged
  PROVE  \E r \in Rungs : launch = <<First, r>> /\ exec[First][r] # "none"
<1>1. PICK c \in Candidates, r \in Rungs : launch = <<c, r>>
  BY DEF TypeOK
<1>2. exec[c][r] # "none" /\ lineage[c] \in {"none", "retained", "fresh", "stale"}
  BY <1>1 DEF RInv, OrderAt, TypeOK
<1>3. lineage[c] # "none" /\ (c # First => lineage[c] # "retained")
  BY <1>2 DEF RInv, LineageAt
<1>4. lineage[c] # "fresh"
  <2>1. c \in Nat /\ First \in Nat
    BY <1>1
  <2> QED
    BY <1>1, <2>1 DEF RInv, LineageAt
<1>5. lineage[c] # "stale"
  BY <1>1 DEF Stranded
<1>6. c = First
  BY <1>2, <1>3, <1>4, <1>5
<1> QED
  BY <1>1, <1>2, <1>6

\* The cursors agree on the first candidate, unless a launch strayed or was left behind.
LEMMA FirstReconciled ==
  ASSUME TypeOK, IInv, RInv, LInv, phase = "close", job.iter = First, ~strayed, ~Stranded
  PROVE  CursorAgrees
<1>0. job.used \in Nat /\ job.used <= 5 /\ Rungs = 1 .. 5
  BY Numbers, RungNumbers DEF IInv, FirstAt
<1>1. charged = {First} \X (1 .. job.used)
  <2>1. ASSUME NEW launch \in charged PROVE launch \in {First} \X (1 .. job.used)
    <3>1. PICK r \in Rungs : launch = <<First, r>> /\ exec[First][r] # "none"
      BY FirstAlone
    <3>2. r <= job.used
      BY <3>1 DEF LInv, StrayAt
    <3> QED
      BY <1>0, <3>1, <3>2
  <2>2. ASSUME NEW launch \in {First} \X (1 .. job.used) PROVE launch \in charged
    <3>1. PICK r \in 1 .. job.used : launch = <<First, r>>
      BY <2>2
    <3>2. r \in Rungs /\ r <= job.used
      BY <1>0
    <3> QED
      BY <3>1, <3>2 DEF LInv, StrayAt
  <2> QED
    BY <2>1, <2>2
<1>2. Cardinality(charged) = job.used
  BY <1>0, <1>1, RunsCounted
<1> QED
  BY <1>2 DEF CursorAgrees

\* Past the first candidate each launch is counted when it is asked for, and charged after that.
LEMMA TallyStep ==
  ASSUME TypeOK, IInv, RInv, LInv, [Next]_vars
  PROVE  CountAt'
<1>0. /\ Writes /\ Places /\ job.iter \in Candidates /\ job.iter \in Nat /\ job.rung \in Rungs
      /\ job.used \in Nat /\ FreshJob.iter = First
      /\ IsFiniteSet(charged) /\ Cardinality(charged) \in Nat
  BY StepShape, Numbers, FreshTyped, ChargedFinite
<1>t. /\ charged \subseteq Candidates \X Rungs /\ charged' \subseteq Candidates \X Rungs
      /\ strayed \in BOOLEAN /\ strayed' \in BOOLEAN
  <2>1. TypeOK'
    BY StepKeeps
  <2> QED
    BY <2>1 DEF TypeOK
<1>w. \A c \in Candidates, r \in Rungs :
        /\ exec[c][r] # "none" => exec'[c][r] # "none"
        /\ exec[c][r] = "none" /\ exec'[c][r] # "none" =>
             phase = "call" /\ phase' = phase /\ c = job.iter /\ r = job.rung
        /\ <<c, r>> \in charged => <<c, r>> \in charged'
        /\ <<c, r>> \in charged' =>
             <<c, r>> \in charged \/ (exec[c][r] = "none" /\ exec'[c][r] # "none")
  <2> SUFFICES ASSUME NEW c \in Candidates, NEW r \in Rungs
               PROVE  /\ exec[c][r] # "none" => exec'[c][r] # "none"
                      /\ exec[c][r] = "none" /\ exec'[c][r] # "none" =>
                           phase = "call" /\ phase' = phase /\ c = job.iter /\ r = job.rung
                      /\ <<c, r>> \in charged => <<c, r>> \in charged'
                      /\ <<c, r>> \in charged' =>
                           <<c, r>> \in charged \/ (exec[c][r] = "none" /\ exec'[c][r] # "none")
    BY Zenon
  <2> QED
    BY <1>0 DEF Writes
<1> SUFFICES ASSUME ~Stranded', Past'
             PROVE  Charged' <= job'.used /\ (~strayed' => Charged' = job'.used)
  BY DEF CountAt
<1>1. ~Stranded
  BY StrandedStays
<1>2. ~Over /\ ~(Fresh /\ phase' \in {"refused", "closed", "admit"})
  BY <1>0 DEF Fresh, Past, Over
<1>3. ~strayed' => ~strayed
  BY <1>0, Zenon DEF Writes
<1>4. Past => Charged <= job.used /\ (~strayed => Charged = job.used)
  BY <1>1, Zenon DEF LInv, CountAt
<1>5. ASSUME phase # "call" \/ phase' # phase \/ exec[job.iter][job.rung] # "none"
      PROVE  /\ charged' = charged
             /\ exec'[job.iter][job.rung] = "none" <=> exec[job.iter][job.rung] = "none"
  <2>1. \A c \in Candidates, r \in Rungs : ~(exec[c][r] = "none" /\ exec'[c][r] # "none")
    BY <1>w, <1>5
  <2>2. \A c \in Candidates, r \in Rungs : <<c, r>> \in charged' <=> <<c, r>> \in charged
    BY <1>w, <2>1, Zenon
  <2>3. charged' = charged
    BY <1>t, <2>2
  <2>4. exec'[job.iter][job.rung] = "none" <=> exec[job.iter][job.rung] = "none"
    BY <1>0, <1>w, <2>1
  <2> QED
    BY <2>3, <2>4
<1>6. ASSUME charged' = charged, job'.used = job.used, Past, ~Waits', Waits => strayed'
      PROVE  Charged' <= job'.used /\ (~strayed' => Charged' = job'.used)
  <2>1. Charged' = Cardinality(charged)
    BY <1>0, <1>6 DEF Charged
  <2>2. CASE Waits
    <3>1. strayed' /\ Charged = Cardinality(charged) + 1
      BY <1>6, <2>2 DEF Charged
    <3> QED
      BY <1>0, <1>4, <1>6, <2>1, <3>1
  <2>3. CASE ~Waits
    <3>1. Charged = Cardinality(charged)
      BY <1>0, <2>3 DEF Charged
    <3> QED
      BY <1>3, <1>4, <1>6, <2>1, <3>1
  <2> QED
    BY <2>2, <2>3
<1>7. CASE UNCHANGED <<phase, job>>
  <2>0. Past
    BY <1>7 DEF Past
  <2>1. CASE Waits /\ exec'[job.iter][job.rung] # "none"
    <3> DEFINE x == <<job.iter, job.rung>>
    <3>2. x \notin charged
      BY <1>0, <2>1 DEF RInv, OrderAt, Waits
    <3>3. strayed' \/ x \in charged'
      BY <1>0, <2>1, Zenon DEF Writes, Waits
    <3>4. Charged = Cardinality(charged) + 1
      BY <2>1 DEF Charged
    <3>5. charged' = charged \/ charged' = charged \cup {x}
      <4>1. \A c \in Candidates, r \in Rungs :
              <<c, r>> \in charged' => <<c, r>> \in charged \/ <<c, r>> = x
        BY <1>w
      <4>2. \A c \in Candidates, r \in Rungs : <<c, r>> \in charged => <<c, r>> \in charged'
        BY <1>w
      <4> HIDE DEF x
      <4> QED
        BY <1>t, <4>1, <4>2
    <3>1. ~Waits'
      BY <1>7, <2>1 DEF Waits
    <3> HIDE DEF x
    <3>6. CASE x \in charged'
      <4>1. Cardinality(charged') = Cardinality(charged) + 1
        BY <1>0, <3>2, <3>5, <3>6, FS_AddElement
      <4>2. Charged' = Cardinality(charged) + 1
        BY <1>0, <3>1, <4>1 DEF Charged
      <4> QED
        BY <1>3, <1>4, <1>7, <2>0, <3>4, <4>2
    <3>7. CASE x \notin charged'
      <4>1. charged' = charged /\ strayed'
        BY <3>3, <3>5, <3>7
      <4>2. Charged' = Cardinality(charged)
        BY <1>0, <3>1, <4>1 DEF Charged
      <4> QED
        BY <1>0, <1>4, <1>7, <2>0, <3>4, <4>1, <4>2
    <3> QED
      BY <3>6, <3>7
  <2>2. CASE ~(Waits /\ exec'[job.iter][job.rung] # "none")
    <3>1. charged' = charged /\ (Waits' <=> Waits)
      <4>1. CASE Waits
        <5>1. \A c \in Candidates, r \in Rungs : ~(exec[c][r] = "none" /\ exec'[c][r] # "none")
          BY <1>w, <2>2, <4>1
        <5>2. \A c \in Candidates, r \in Rungs : <<c, r>> \in charged' <=> <<c, r>> \in charged
          BY <1>w, <5>1, Zenon
        <5>3. charged' = charged
          BY <1>t, <5>2
        <5> QED
          BY <1>7, <2>2, <4>1, <5>3 DEF Waits
      <4>2. CASE ~Waits
        BY <1>5, <1>7, <4>2 DEF Waits
      <4> QED
        BY <4>1, <4>2
    <3>2. Charged' = Charged
      BY <3>1 DEF Charged
    <3> QED
      BY <1>3, <1>4, <1>7, <2>0, <3>2
  <2> QED
    BY <2>1, <2>2
<1>8. CASE Stays /\ Moves /\ ~UNCHANGED <<phase, job>>
  <2>0. Past /\ job.iter > First /\ phase \in Active /\ charged' = charged
    BY <1>0, <1>8 DEF Past, Moves, Stays, Active
  <2>1. CASE phase' = "call"
    <3>1. phase = "admit" /\ job'.used = job.used + 1 /\ UNCHANGED exec /\ job'.rung = job.rung
      BY <1>8, <2>1 DEF Moves
    <3>2. exec[job.iter][job.rung] = "none"
      BY <1>0, <2>0, <3>1, Numbers DEF RInv, NewAt
    <3>3. Waits' /\ ~Waits
      BY <1>8, <2>1, <3>1, <3>2 DEF Waits, Stays
    <3>4. Charged = Cardinality(charged) /\ Charged' = Cardinality(charged) + 1
      BY <1>0, <2>0, <3>3 DEF Charged
    <3> QED
      BY <1>0, <1>3, <1>4, <2>0, <3>1, <3>4
  <2>2. CASE phase' # "call"
    <3>1. job'.used = job.used /\ ~Waits'
      BY <1>8, <2>2 DEF Moves, Waits
    <3>2. Waits => strayed'
      <4> SUFFICES ASSUME Waits PROVE strayed'
        OBVIOUS
      <4>1. phase = "call" /\ exec[job.iter][job.rung] = "none"
        BY DEF Waits
      <4>2. record[job.iter][job.rung] = 0
        BY <1>0, <4>1 DEF IInv, ScoreAt
      <4>3. Ends
        BY <1>8, <4>1, <4>2 DEF Moves
      <4> QED
        BY <4>1, <4>3 DEF Ends
    <3> QED
      BY <1>6, <2>0, <3>1, <3>2
  <2> QED
    BY <2>1, <2>2
<1>9. CASE Stays /\ phase' = "close" /\ phase \in Active /\ job'.used = job.used /\ Ends
  <2>1. Past /\ ~Waits'
    BY <1>9 DEF Past, Stays, Waits
  <2>2. charged' = charged
    BY <1>5, <1>9 DEF Active
  <2>3. Waits => strayed'
    BY <1>9 DEF Ends, Waits
  <2> QED
    BY <1>6, <1>9, <2>1, <2>2, <2>3
<1>10. CASE /\ phase \in {"close", "follow", "end"} /\ phase' \in {"admit", "follow", "end", "complete"}
            /\ job'.used = job.used /\ Past
  <2>1. ~Waits /\ ~Waits' /\ charged' = charged
    BY <1>5, <1>10 DEF Waits
  <2> QED
    BY <1>6, <1>10, <2>1
<1>11. CASE phase = "close" /\ phase' = "follow" /\ job' = job /\ job.iter = First /\ CursorAgrees
  <2>1. ~Waits' /\ charged' = charged
    BY <1>5, <1>11 DEF Waits
  <2>2. Charged' = Cardinality(charged)
    BY <1>0, <2>1 DEF Charged
  <2> QED
    BY <1>0, <1>11, <2>2 DEF CursorAgrees
<1>12. CASE phase = "close" /\ phase' = "follow" /\ job' = job /\ job.iter # First
  <2>1. Past
    BY <1>0, <1>12 DEF Past
  <2> QED
    BY <1>10, <1>12, <2>1
<1> QED
  BY <1>0, <1>2, <1>7, <1>8, <1>9, <1>10, <1>11, <1>12 DEF Places, Over, Past, Stays

\* Nothing is counted at first.
LEMMA InitCounted == Init => LInv
<1> SUFFICES ASSUME Init PROVE LInv
  OBVIOUS
<1>1. /\ \A c \in Candidates, r \in Rungs : exec[c][r] = "none"
      /\ phase = "down" /\ job.iter = First /\ job.rung = 1 /\ First \in Candidates
      /\ Seeds = 3 .. 5
  BY InitType, FreshTyped, RungNumbers DEF Init
<1>2. GroundAt
  BY <1>1 DEF GroundAt, Active
<1>3. StrayAt /\ CountAt /\ RoomAt
  BY <1>1 DEF StrayAt, CountAt, RoomAt, Past
<1> QED
  BY <1>2, <1>3 DEF LInv

\* What the loop has counted stays right.
LEMMA Counted == Spec => []LInv
<1>1. TypeOK /\ IInv /\ RInv /\ LInv /\ [Next]_vars => LInv'
  <2> SUFFICES ASSUME TypeOK, IInv, RInv, LInv, [Next]_vars
               PROVE  GroundAt' /\ StrayAt' /\ CountAt' /\ RoomAt'
    BY DEF LInv
  <2>1. GroundAt /\ StrayAt /\ RoomAt
    BY DEF LInv
  <2> QED
    BY <2>1, GroundStep, StrayStep, TallyStep, RoomStep
<1> QED
  BY <1>1, InitCounted, Inductive, Retained, PTL DEF Spec

\* Two charged queries are those of two candidates, and one of them is a follow-up.
LEMMA SeveralQueries ==
  ASSUME TypeOK, IInv, RInv, Cardinality(Queried) > 1
  PROVE  \E c \in Candidates : <<c, 1>> \in charged /\ lineage[c] \in {"fresh", "stale"}
<1>1. PICK c \in Candidates : query[c] # "none" /\ c # First
  <2> SUFFICES ASSUME Queried \subseteq {First} PROVE FALSE
    BY DEF Queried
  <2>1. IsFiniteSet({First}) /\ Cardinality({First}) = 1
    BY FS_Singleton
  <2>2. Cardinality(Queried) <= 1
    BY <2>1, FS_Subset
  <2>3. Cardinality(Queried) \in Nat
    BY CandidatesFinite
  <2> QED
    BY <2>2, <2>3
<1>2. FoldB = 1 /\ 1 \in Rungs
  BY RungNumbers
<1>3. <<c, 1>> \in charged
  <2>1. record[c][1] # 0
    BY <1>1, <1>2 DEF IInv, ScoreAt
  <2> QED
    BY <1>2, <2>1 DEF IInv, ScoreAt
<1>4. lineage[c] \in {"none", "retained", "fresh", "stale"}
  BY DEF TypeOK
<1> QED
  BY <1>1, <1>3, <1>4 DEF RInv, LineageAt

\* The cursors are at odds, or several queries are charged, only if a launch strayed or was left
\* behind by an earlier command.
Reconcilable == raised \cap {"cursor", "several_queries"} # {} => strayed \/ Stranded

\* That is kept.
LEMMA ReconcilableStep ==
  ASSUME TypeOK, IInv, RInv, LInv, Reconcilable, [Next]_vars
  PROVE  Reconcilable'
<1>1. strayed \/ Stranded => strayed' \/ Stranded'
  <2>1. Writes /\ (Stranded => Stranded')
    BY StepShape, StrandedStays
  <2> QED
    BY <2>1, Zenon DEF Writes
<1>2. CASE raised' \cap {"cursor", "several_queries"} = raised \cap {"cursor", "several_queries"}
  BY <1>1, <1>2, Zenon DEF Reconcilable
<1>3. CASE Begin
  <2>1. CASE Cardinality(Queried) > 1
    <3>1. PICK c \in Candidates : <<c, 1>> \in charged /\ lineage[c] \in {"fresh", "stale"}
      BY <2>1, SeveralQueries
    <3>2. lineage'[c] = "stale" /\ UNCHANGED charged
      BY <1>3, <3>1, BeginFacts DEF Fresh
    <3>3. Stranded'
      BY <3>1, <3>2 DEF Stranded
    <3> QED
      BY <3>3 DEF Reconcilable
  <2>2. CASE ~(Cardinality(Queried) > 1)
    <3>1. raised' = raised
      BY <1>3, <2>2, BeginFacts
    <3> QED
      BY <1>2, <3>1
  <2> QED
    BY <2>1, <2>2
<1>4. CASE Close
  <2>1. CASE job.iter = First /\ ~CursorAgrees
    <3>1. phase = "close"
      BY <1>4, CloseFacts
    <3>2. strayed \/ Stranded
      BY <2>1, <3>1, FirstReconciled
    <3> QED
      BY <1>1, <3>2, Zenon DEF Reconcilable
  <2>2. CASE ~(job.iter = First /\ ~CursorAgrees)
    <3>1. raised' = raised
      BY <1>4, <2>2, CloseFacts DEF looks
    <3> QED
      BY <1>2, <3>1
  <2> QED
    BY <2>1, <2>2
<1>5. CASE End
  <2>1. CASE ~CursorAgrees
    <3>1. phase = "end" /\ ~Waits /\ Past
      BY <1>5, EndFacts DEF Waits, Past
    <3>2. Charged = Cardinality(charged)
      BY <3>1, ChargedFinite DEF Charged
    <3>3. strayed \/ Stranded
      BY <2>1, <3>1, <3>2, Zenon DEF LInv, CountAt, CursorAgrees
    <3> QED
      BY <1>1, <3>3, Zenon DEF Reconcilable
  <2>2. CASE CursorAgrees
    <3>1. raised' = raised
      BY <1>5, <2>2, EndFacts DEF looks
    <3> QED
      BY <1>2, <3>1
  <2> QED
    BY <2>1, <2>2
<1>6. CASE SettleFailed \/ SettleDecided
  <2>1. raised' = raised \/ raised' = raised \cup {"contradiction"}
    BY <1>6, SettleFailedFacts, SettleDecidedFacts
  <2> QED
    BY <1>2, <2>1
<1>7. CASE ~(Begin \/ Close \/ End \/ SettleFailed \/ SettleDecided)
  <2>1. CASE Die \/ Overrun \/ RejectLaunch \/ RefuseTraining \/ RefusePrediction \/ RestoreFailure \/ Falter
    BY <1>2, <2>1, DieFacts, OverrunFacts, RejectFacts, CallFacts
  <2>2. CASE JudgeScreen \/ JudgeFolds \/ Train
    BY <1>2, <2>2, ScreenFacts, FoldsFacts, TrainFacts
  <2>3. CASE Request \/ ReturnRecord \/ ReserveQuery
    BY <1>2, <2>3, RequestFacts, ReturnFacts, ReserveFacts DEF Still, looks
  <2>4. CASE Evaluate \/ JudgeSeed \/ Follow
    BY <1>2, <2>4, EvaluateFacts, SeedFacts, FollowFacts DEF looks
  <2>5. CASE Tick \/ UNCHANGED vars
    BY <1>2, <2>5 DEF Tick, vars, looks
  <2> QED
    BY <1>7, <2>1, <2>2, <2>3, <2>4, <2>5 DEF Next
<1> QED
  BY <1>3, <1>4, <1>5, <1>6, <1>7

-----------------------------------------------------------------------------
(* The bundles.                                                            *)

\* Within an admitted bundle each launch is admitted by the cap, and by the time if the seeds take
\* no longer than they were admitted with.
LEMMA SeedAdmitted ==
  ASSUME TypeOK, RoomAt, phase = "admit", job.rung \in Seeds
  PROVE  Admission # "launch_cap" /\ (OnTime(job.iter) => Admission = "none")
<1>0. /\ job.rung \in 3 .. 5 /\ FirstSeed = 3 /\ job.used \in Nat /\ job.elapsed \in Nat
      /\ limits.launches \in Nat
  BY Numbers, RungNumbers
<1>1. /\ job.used + 6 - job.rung <= limits.launches
      /\ OnTime(job.iter) => job.elapsed + (6 - job.rung) * P95 + Reserve <= Wall
  BY DEF RoomAt
<1>2. ~(job.used >= limits.launches)
  BY <1>0, <1>1
<1>3. OnTime(job.iter) => job.elapsed + P95 + Reserve <= Wall
  <2>1. (6 - job.rung) * P95 >= P95
    BY <1>0
  <2> QED
    BY <1>0, <1>1, <2>1
<1>4. OnTime(job.iter) => TimeReason(1, job.rung > FirstSeed) = "none"
  <2>1. job.elapsed + 1 * P95 = job.elapsed + P95
    BY <1>0
  <2> QED
    BY <1>0, <1>3, <2>1 DEF TimeReason
<1>5. TimeReason(1, job.rung > FirstSeed) # "launch_cap"
  BY DEF TimeReason
<1> QED
  BY <1>2, <1>4, <1>5 DEF Admission

\* The launch that is asked for is not yet charged, and the hard cap has room for it.
LEMMA CapLeft ==
  ASSUME TypeOK, IInv, RInv, LInv, ~Stranded, phase = "call", exec[job.iter][job.rung] = "none"
  PROVE  Cardinality(charged) < limits.launches
<1>0. /\ job.iter \in Candidates /\ job.iter \in Nat /\ job.rung \in 1 .. 5 /\ job.rung \in Rungs
      /\ job.used \in Nat /\ limits.launches \in Nat /\ job.used <= limits.launches
      /\ Cardinality(charged) \in Nat /\ Rungs = 1 .. 5
  <2>1. job.used <= limits.launches
    BY DEF TypeOK
  <2> QED
    BY <2>1, Numbers, ChargedFinite, RungNumbers
<1>1. CASE job.iter > First
  <2>1. Charged <= job.used /\ Charged = Cardinality(charged) + 1
    BY <1>1 DEF LInv, CountAt, Past, Charged, Waits
  <2> QED
    BY <1>0, <2>1
<1>2. CASE job.iter = First
  <2>1. job.used = job.rung
    BY <1>2 DEF IInv, FirstAt
  <2>2. record[First][job.rung] = 0
    BY <1>0, <1>2 DEF IInv, ScoreAt
  <2>3. charged \subseteq {First} \X (1 .. (job.rung - 1))
    <3> SUFFICES ASSUME NEW launch \in charged PROVE launch \in {First} \X (1 .. (job.rung - 1))
      OBVIOUS
    <3>1. PICK r \in Rungs : launch = <<First, r>> /\ exec[First][r] # "none"
      BY <1>2, FirstAlone
    <3>2. r # job.rung /\ ~(job.rung < r)
      BY <1>0, <1>2, <2>2, <3>1, NothingAfter DEF RInv
    <3>3. r \in 1 .. (job.rung - 1)
      BY <1>0, <3>2
    <3> QED
      BY <3>1, <3>3
  <2> DEFINE n == job.rung - 1
  <2>4. n \in Nat /\ n < job.rung
    BY <1>0
  <2>5. IsFiniteSet({First} \X (1 .. n)) /\ Cardinality({First} \X (1 .. n)) = n
    <3> HIDE DEF n
    <3> QED
      BY <2>4, RunsCounted
  <2>6. Cardinality(charged) <= n
    BY <2>3, <2>5, FS_Subset
  <2> QED
    BY <1>0, <2>1, <2>4, <2>6
<1> QED
  BY <1>0, <1>1, <1>2

\* So has its category, if it holds the bundles of all queries: the launches charged in it are
\* those of other bundles, and of the other later seed of this one.
LEMMA CategoryLeft ==
  ASSUME TypeOK, IInv, RInv, CeilingsHold, phase = "call", job.rung \in Seeds,
         exec[job.iter][job.rung] = "none"
  PROVE  Cardinality(Charges(Category(job.rung))) < Ceiling[Category(job.rung)]
<1>0. /\ job.iter \in Candidates /\ job.rung \in 3 .. 5 /\ job.rung \in Rungs /\ FirstSeed = 3
      /\ Rungs = 1 .. 5 /\ Seeds = 3 .. 5 /\ MaxQueries \in Nat
      /\ Ceiling[3] \in Nat /\ Ceiling[4] \in Nat
  BY Numbers, RungNumbers, ScienceAssumption DEF Categories
<1>1. job.iter \in Queried
  BY <1>0 DEF IInv, ChargedAt, Queried
<1>2. <<job.iter, job.rung>> \notin charged
  BY <1>0 DEF RInv, OrderAt
<1>3. ASSUME NEW launch \in charged, launch[2] \in Seeds
      PROVE  \E c \in Queried, r \in Seeds : launch = <<c, r>>
  <2>1. PICK c \in Candidates, r \in Rungs : launch = <<c, r>>
    BY DEF TypeOK
  <2>2. r \in Seeds /\ exec[c][r] # "none"
    BY <1>3, <2>1 DEF RInv, OrderAt
  <2>3. query[c] # "none"
    BY <2>1, <2>2 DEF RInv, OrderAt
  <2> QED
    BY <2>1, <2>2, <2>3 DEF Queried
<1>4. IsFiniteSet(Queried) /\ Cardinality(Queried) \in Nat /\ Cardinality(Queried) <= MaxQueries
  BY CandidatesFinite DEF RInv, QueriesAt
<1>q. ASSUME NEW S, IsFiniteSet(S), NEW x, x \in S, NEW T, T \subseteq S \ {x}
      PROVE  Cardinality(T) < Cardinality(S) /\ Cardinality(S) \in Nat
  <2>1. IsFiniteSet(S \ {x}) /\ Cardinality(S \ {x}) = Cardinality(S) - 1
    BY <1>q, FS_RemoveElement
  <2>2. Cardinality(T) <= Cardinality(S \ {x}) /\ IsFiniteSet(T)
    BY <1>q, <2>1, FS_Subset
  <2>3. Cardinality(T) \in Nat /\ Cardinality(S) \in Nat
    BY <1>q, <2>2, FS_CardinalityType
  <2> QED
    BY <2>1, <2>2, <2>3
<1>5. CASE job.rung = 3
  <2>1. Category(job.rung) = 3
    BY <1>0, <1>5 DEF Category
  <2> DEFINE S == Queried \X {3}
  <2>2. IsFiniteSet(S) /\ Cardinality(S) = Cardinality(Queried)
    <3>1. IsFiniteSet({3}) /\ Cardinality({3}) = 1
      BY FS_Singleton
    <3>2. IsFiniteSet(S) /\ Cardinality(S) = Cardinality(Queried) * 1
      BY <1>4, <3>1, FS_Product
    <3> QED
      BY <1>4, <3>2
  <2>3. Charges(3) \subseteq S \ {<<job.iter, 3>>}
    <3> SUFFICES ASSUME NEW launch \in charged, Category(launch[2]) = 3
                 PROVE  launch \in S /\ launch # <<job.iter, 3>>
      BY DEF Charges
    <3>0. PICK d \in Candidates, q \in Rungs : launch = <<d, q>>
      BY DEF TypeOK
    <3>1. launch[2] = 3
      BY <1>0, <3>0 DEF Category
    <3>2. PICK c \in Queried, r \in Seeds : launch = <<c, r>>
      BY <1>0, <1>3, <3>1
    <3> QED
      BY <1>2, <1>5, <3>1, <3>2
  <2>4. <<job.iter, 3>> \in S
    BY <1>1
  <2> HIDE DEF S
  <2>5. Cardinality(Charges(3)) < Cardinality(S)
    BY <1>q, <2>2, <2>3, <2>4
  <2>6. Cardinality(Charges(3)) \in Int
    <3>1. IsFiniteSet(Charges(3))
      BY <2>2, <2>3, FS_Subset
    <3> QED
      BY <3>1, FS_CardinalityType
  <2> QED
    BY <1>0, <1>4, <2>1, <2>2, <2>5, <2>6 DEF CeilingsHold
<1>6. CASE job.rung \in {4, 5}
  <2>1. Category(job.rung) = 4
    BY <1>0, <1>6 DEF Category
  <2> DEFINE S == Queried \X {4, 5}
  <2>2. IsFiniteSet(S) /\ Cardinality(S) = Cardinality(Queried) * 2
    <3>1. IsFiniteSet({4, 5}) /\ Cardinality({4, 5}) = 2
      <4>1. IsFiniteSet({4}) /\ Cardinality({4}) = 1
        BY FS_Singleton
      <4>2. 5 \notin {4} /\ {4, 5} = {4} \cup {5}
        OBVIOUS
      <4>3. IsFiniteSet({4} \cup {5}) /\ Cardinality({4} \cup {5}) = Cardinality({4}) + 1
        BY <4>1, <4>2, FS_AddElement
      <4> QED
        BY <4>1, <4>2, <4>3
    <3> QED
      BY <1>4, <3>1, FS_Product
  <2>3. Charges(4) \subseteq S \ {<<job.iter, job.rung>>}
    <3> SUFFICES ASSUME NEW launch \in charged, Category(launch[2]) = 4
                 PROVE  launch \in S /\ launch # <<job.iter, job.rung>>
      BY DEF Charges
    <3>0. PICK d \in Candidates, q \in Rungs : launch = <<d, q>>
      BY DEF TypeOK
    <3>1. launch[2] \in {4, 5}
      BY <1>0, <3>0 DEF Category
    <3>2. PICK c \in Queried, r \in Seeds : launch = <<c, r>>
      BY <1>0, <1>3, <3>1
    <3> QED
      BY <1>2, <3>1, <3>2
  <2>4. <<job.iter, job.rung>> \in S
    BY <1>1, <1>6
  <2> HIDE DEF S
  <2>5. Cardinality(Charges(4)) < Cardinality(S)
    BY <1>q, <2>2, <2>3, <2>4
  <2>6. Cardinality(Charges(4)) \in Int
    <3>1. IsFiniteSet(Charges(4))
      BY <2>2, <2>3, FS_Subset
    <3> QED
      BY <3>1, FS_CardinalityType
  <2> QED
    BY <1>0, <1>4, <2>1, <2>2, <2>5, <2>6 DEF CeilingsHold
<1> QED
  BY <1>0, <1>5, <1>6

\* Ceilings that are outgrown stay outgrown.
LEMMA CeilingsOutgrown ==
  ASSUME TypeOK, IInv, [Next]_vars, ~CeilingsHold
  PROVE  ~CeilingsHold'
<1>1. Queried \subseteq Queried'
  BY StepShape DEF Writes, Queried
<1>2. Cardinality(Queried) <= Cardinality(Queried')
  <2>1. IsFiniteSet(Candidates) /\ Queried' \subseteq Candidates
    BY CandidatesFinite DEF Queried
  <2>2. IsFiniteSet(Queried')
    BY <2>1, FS_Subset
  <2> QED
    BY <1>1, <2>2, FS_Subset
<1>3. Cardinality(Queried) \in Nat /\ Cardinality(Queried') \in Nat
  <2>1. IsFiniteSet(Candidates) /\ Queried' \subseteq Candidates /\ Queried \subseteq Candidates
    BY CandidatesFinite DEF Queried
  <2> QED
    BY <2>1, FS_Subset, FS_CardinalityType
<1>4. Ceiling[FirstSeed] \in Nat /\ Ceiling[FirstSeed + 1] \in Nat
  BY RungNumbers, ScienceAssumption DEF Categories
<1> QED
  BY <1>2, <1>3, <1>4 DEF CeilingsHold

\* Each cut has its explanation when it is made, and keeps it.
LEMMA CutsStep ==
  ASSUME TypeOK, IInv, RInv, LInv, CutsExplained, [Next]_vars
  PROVE  CutsExplained'
<1> SUFFICES ASSUME ~Stranded', NEW cut \in starved'
             PROVE  /\ cut[2] # "launches"
                    /\ cut[2] = "ceiling" => ~CeilingsHold'
                    /\ cut[2] = "time" => \E r \in Seeds : limits'.seconds[cut[1]][r] > P95
  BY DEF CutsExplained
<1>0. ~Stranded /\ limits' = limits
  BY StrandedStays, StepShape DEF Writes
<1>1. CASE cut \in starved
  BY <1>0, <1>1, CeilingsOutgrown DEF CutsExplained
<1>2. CASE RejectLaunch /\ cut \notin starved
  <2>1. /\ phase = "admit" /\ job.rung \in Seeds /\ Admission # "none"
        /\ cut = <<job.iter, IF Admission = "launch_cap" THEN "launches" ELSE "time">>
    BY <1>2, RejectFacts
  <2>2. Admission # "launch_cap" /\ ~OnTime(job.iter)
    BY <2>1, SeedAdmitted DEF LInv
  <2>3. PICK r \in Seeds : limits.seconds[job.iter][r] > P95
    <3>1. \A r \in Seeds : limits.seconds[job.iter][r] \in Nat
      BY SecondsTyped, Numbers, RungNumbers
    <3> QED
      BY <2>2, <3>1 DEF OnTime
  <2> QED
    BY <1>0, <2>1, <2>2, <2>3
<1>3. CASE RefuseTraining /\ cut \notin starved
  <2>1. /\ phase = "call" /\ exec[job.iter][job.rung] = "none" /\ job.rung \in Seeds
        /\ ~BudgetAdmits(job.rung)
        /\ cut = <<job.iter, IF HardCapAdmits THEN "ceiling" ELSE "launches">>
    BY <1>3 DEF RefuseTraining, Pending
  <2>2. HardCapAdmits
    BY <1>0, <2>1, CapLeft DEF HardCapAdmits
  <2>3. ~CeilingsHold
    BY <2>1, <2>2, CategoryLeft DEF BudgetAdmits
  <2> QED
    BY <2>1, <2>2, <2>3, CeilingsOutgrown
<1>4. CASE ~(RejectLaunch \/ RefuseTraining)
  <2>1. starved' = starved
    <3>1. CASE Begin \/ Die \/ Overrun \/ RefusePrediction \/ RestoreFailure \/ Falter
      BY <3>1 DEF Begin, Die, Overrun, Raise, RefusePrediction, RestoreFailure, Falter
    <3>2. CASE JudgeScreen \/ JudgeFolds \/ Train \/ SettleFailed \/ SettleDecided
      BY <3>2, ScreenFacts, FoldsFacts, TrainFacts, SettleFailedFacts, SettleDecidedFacts
    <3>3. CASE Request \/ ReturnRecord \/ ReserveQuery
      BY <3>3, RequestFacts, ReturnFacts, ReserveFacts DEF Still, looks
    <3>4. CASE Evaluate \/ JudgeSeed \/ Follow
      BY <3>4, EvaluateFacts, SeedFacts, FollowFacts DEF looks
    <3>5. CASE Close \/ End
      BY <3>5, CloseFacts, EndFacts DEF Over, Fresh, looks
    <3>6. CASE Tick \/ UNCHANGED vars
      BY <3>6 DEF Tick, vars, looks
    <3> QED
      BY <1>4, <3>1, <3>2, <3>3, <3>4, <3>5, <3>6 DEF Next
  <2> QED
    BY <1>1, <2>1
<1> QED
  BY <1>1, <1>2, <1>3, <1>4

-----------------------------------------------------------------------------
(* The verdict on the first candidate.                                     *)

\* Every command judges the first candidate against the fallback and by the same limits, so what
\* is durable tells the verdict that a command comes to, if none of its calls falters.  A run is
\* blocked when it has no score and cannot get one any more.
Eligible == OuterEligible(First = 1, record[First], FallbackEvidence, FallbackEvidence)
AdmitsBundle == 5 <= limits.launches /\ limits.elapsed + Spent(2) + 3 * P95 + Reserve <= Wall
Blocked(r) ==
  /\ record[First][r] = 0
  /\ \/ ~Admits(r)
     \/ exec[First][r] = "failed"
     \/ exec[First][r] = "trained" /\ ~ClockAdmits(r)
     \/ exec[First][r] = "none" /\ ~(ClockAdmits(r) /\ BudgetAdmits(r))
Called(r) == IF Blocked(r) THEN "callback_failed" ELSE "none"
Broken == \E r \in Seeds : Blocked(r) /\ \A q \in Seeds : q < r => record[First][q] # 0
Bundle ==
  IF Broken THEN "outer_failed"
  ELSE IF \A r \in Seeds : record[First][r] # 0
       THEN Decide(First = 1, record[First], FallbackEvidence, FallbackEvidence) ELSE "none"
Confirmation ==
  IF ~Admits(2) THEN "budget_rejected"
  ELSE IF record[First][2] = 0 THEN Called(2)
  ELSE IF ~(Eligible /\ MaxQueries > 0) THEN "inner_rejected"
  ELSE IF ~AdmitsBundle THEN "budget_rejected"
  ELSE IF query[First] = "none" THEN "none" ELSE Bundle
Fate ==
  IF ~Admits(1) THEN "budget_rejected"
  ELSE IF record[First][1] = 0 THEN Called(1)
  ELSE IF ~Roots THEN "screen_rejected"
  ELSE Confirmation

\* Until a call falters, the verdict is that one, a bundle is cut where a run is blocked, and its
\* failure says where.
FateAt == faults = 0 /\ verdict[First] # "none" => verdict[First] = Fate
CutAt ==
  faults = 0 /\ phase = "settle" /\ job.cut /\ job.iter = First =>
    \A r \in Rungs : r = job.rung => Blocked(r)
FailureAt ==
  faults = 0 /\ failure[First] # 0 =>
    \E r \in Seeds :
      /\ failure[First] = r - 1 /\ Blocked(r)
      /\ \A q \in Rungs : q < r => record[First][q] # 0

\* Only a candidate that is judged, and not for want of budget, is followed by another one.
Judged == verdict[First] \notin {"none", "budget_rejected"}
FollowAt ==
  /\ faults = 0 /\ (\E c \in Candidates : c # First /\ lineage[c] # "none") => Judged
  /\ job.iter > First => Judged
  /\ job.iter = First /\ phase \in {"close", "follow"} =>
       verdict[First] # "none" /\ (verdict[First] = "budget_rejected" => job.stop # "none")

ContradictionAt == "contradiction" \in raised => faults > 0

VInv == FateAt /\ CutAt /\ FailureAt /\ FollowAt /\ ContradictionAt

\* Only a training and an evaluation change what is executed or scored.
LEMMA OthersKeepRuns ==
  ASSUME TypeOK, IInv, [Next]_vars, ~Train, ~Evaluate
  PROVE  UNCHANGED <<exec, record, charged>>
<1>1. CASE Begin \/ Die \/ Overrun
  BY <1>1, BeginFacts, DieFacts, OverrunFacts DEF Over, Fresh
<1>2. CASE Tick \/ UNCHANGED vars
  BY <1>2 DEF Tick, vars, durable
<1>3. CASE RejectLaunch \/ RefuseTraining \/ RefusePrediction \/ RestoreFailure \/ Falter
  BY <1>3, RejectFacts, CallFacts DEF durable
<1>4. CASE Request \/ ReturnRecord \/ ReserveQuery
  BY <1>4, RequestFacts, ReturnFacts, ReserveFacts DEF durable
<1>5. CASE JudgeScreen \/ JudgeFolds \/ JudgeSeed
  BY <1>5, ScreenFacts, FoldsFacts, SeedFacts DEF durable
<1>6. CASE SettleFailed \/ SettleDecided
  BY <1>6, SettleFailedFacts, SettleDecidedFacts
<1>7. CASE Close \/ End \/ Follow
  BY <1>7, CloseFacts, EndFacts, FollowFacts DEF durable
<1> QED
  BY <1>1, <1>2, <1>3, <1>4, <1>5, <1>6, <1>7 DEF Next

\* What the clock and the charges refuse once, they refuse for good.
LEMMA RefusedForGood ==
  ASSUME TypeOK, IInv, RInv, [Next]_vars, NEW r \in Rungs
  PROVE  (ClockAdmits(r)' => ClockAdmits(r)) /\ (BudgetAdmits(r)' => BudgetAdmits(r))
<1>0. Writes /\ clock \in Nat /\ charged \subseteq Candidates \X Rungs
  <2>1. clock \in Nat /\ charged \subseteq Candidates \X Rungs
    BY DEF TypeOK, Clock
  <2> QED
    BY <2>1, StepShape
<1>1. ClockAdmits(r)' => ClockAdmits(r)
  <2>1. clock' \in Nat /\ clock <= clock'
    <3>1. TypeOK'
      BY StepKeeps
    <3> QED
      BY <1>0, <3>1 DEF TypeOK, Clock, Writes
  <2> QED
    BY <1>0, <2>1 DEF ClockAdmits, Short, Late
<1>2. charged \subseteq charged'
  BY <1>0 DEF Writes
<1>3. IsFiniteSet(charged')
  <2>1. CASE Train
    BY <2>1, TrainFacts, ChargedFinite, FS_AddElement
  <2>2. CASE Evaluate
    BY <2>2, EvaluateFacts, ChargedFinite
  <2>3. CASE ~Train /\ ~Evaluate
    BY <2>3, OthersKeepRuns, ChargedFinite
  <2> QED
    BY <2>1, <2>2, <2>3
<1>4. ASSUME NEW S, NEW T, S \subseteq T, IsFiniteSet(T), NEW n, Cardinality(T) < n, n \in Int
      PROVE  Cardinality(S) < n
  <2>1. IsFiniteSet(S) /\ Cardinality(S) <= Cardinality(T)
    BY <1>4, FS_Subset
  <2>2. Cardinality(S) \in Nat /\ Cardinality(T) \in Nat
    BY <1>4, <2>1, FS_CardinalityType
  <2> QED
    BY <1>4, <2>1, <2>2
<1>5. BudgetAdmits(r)' => BudgetAdmits(r)
  <2> SUFFICES ASSUME BudgetAdmits(r)' PROVE BudgetAdmits(r)
    OBVIOUS
  <2> DEFINE k == Category(r)
  <2>1. limits' = limits /\ limits.launches \in Int /\ Ceiling[k] \in Int
    <3>1. k \in Categories
      BY RungNumbers DEF Category, Categories
    <3> QED
      BY <1>0, <3>1, Numbers, ScienceAssumption DEF Writes
  <2>2. Cardinality(charged') < limits.launches /\ Cardinality(Charges(k)') < Ceiling[k]
    BY <2>1 DEF BudgetAdmits, HardCapAdmits
  <2>3. Cardinality(charged) < limits.launches
    BY <1>2, <1>3, <1>4, <2>1, <2>2
  <2>4. Charges(k) \subseteq Charges(k)' /\ IsFiniteSet(Charges(k)')
    <3>1. Charges(k) \subseteq Charges(k)' /\ Charges(k)' \subseteq charged'
      BY <1>2 DEF Charges
    <3> QED
      BY <1>3, <3>1, FS_Subset
  <2>5. Cardinality(Charges(k)) < Ceiling[k]
    BY <1>4, <2>1, <2>2, <2>4
  <2> QED
    BY <2>3, <2>5 DEF BudgetAdmits, HardCapAdmits
<1> QED
  BY <1>1, <1>5

\* What admits a launch is settled by the limits.
LEMMA AdmitsKept ==
  ASSUME TypeOK, IInv, [Next]_vars
  PROVE  (AdmitsBundle' <=> AdmitsBundle) /\ \A r : Admits(r)' <=> Admits(r)
<1>1. limits' = limits
  BY StepShape DEF Writes
<1> QED
  BY <1>1 DEF Admits, AdmitsBundle, Spent, Seconds

\* A blocked run stays blocked.
LEMMA BlockedStays ==
  ASSUME TypeOK, IInv, RInv, GroundAt, [Next]_vars, NEW r \in Rungs, Blocked(r)
  PROVE  Blocked(r)'
<1>1. exec'[First][r] = exec[First][r] /\ record'[First][r] = record[First][r]
  <2>0. First \in Candidates
    OBVIOUS
  <2>1. CASE Train
    <3>1. ~(First = job.iter /\ r = job.rung)
      BY <2>1, TrainFacts DEF Blocked, GroundAt
    <3> QED
      BY <2>0, <2>1, <3>1, TrainFacts
  <2>2. CASE Evaluate
    <3>1. ~(First = job.iter /\ r = job.rung)
      BY <2>2, EvaluateFacts DEF Blocked, GroundAt
    <3> QED
      BY <2>0, <2>2, <3>1, EvaluateFacts
  <2>3. CASE ~Train /\ ~Evaluate
    BY <2>3, OthersKeepRuns
  <2> QED
    BY <2>1, <2>2, <2>3
<1> QED
  BY <1>1, RefusedForGood, AdmitsKept, Zenon DEF Blocked

\* A verdict on the bundle that is settled stays.
LEMMA BundleKept ==
  ASSUME TypeOK, IInv, RInv, GroundAt, [Next]_vars, record[First][1] # 0, record[First][2] # 0,
         Bundle # "none"
  PROVE  Bundle' = Bundle
<1>0. /\ Writes /\ First \in Candidates /\ Seeds \subseteq Rungs /\ {1, 2} \subseteq Rungs
      /\ Rungs = {1, 2} \cup Seeds
  <2>1. Seeds \subseteq Rungs /\ {1, 2} \subseteq Rungs /\ Rungs = {1, 2} \cup Seeds
    BY RungNumbers
  <2> QED
    BY <2>1, StepShape
<1>1. \A r \in Rungs : record[First][r] # 0 => record'[First][r] = record[First][r]
  BY <1>0 DEF Writes
<1>2. CASE Broken
  <2>1. PICK r \in Seeds : Blocked(r) /\ \A q \in Seeds : q < r => record[First][q] # 0
    BY <1>2 DEF Broken
  <2>2. Blocked(r)'
    BY <1>0, <2>1, BlockedStays
  <2>3. \A q \in Seeds : q < r => record'[First][q] # 0
    BY <1>0, <1>1, <2>1
  <2>4. Broken'
    BY <2>2, <2>3 DEF Broken
  <2> QED
    BY <1>2, <2>4 DEF Bundle
<1>3. CASE ~Broken
  <2>1. \A r \in Seeds : record[First][r] # 0
    BY <1>3 DEF Bundle
  <2>2. \A r \in Rungs : record[First][r] # 0 /\ record'[First][r] = record[First][r]
    BY <1>0, <1>1, <2>1
  <2>3. record'[First] = record[First]
    <3>1. TypeOK'
      BY StepKeeps
    <3>2. record[First] \in [Rungs -> Nat] /\ record'[First] \in [Rungs -> Nat]
      BY <1>0, <3>1 DEF TypeOK
    <3> QED
      BY <2>2, <3>2
  <2>4. ~Broken'
    BY <1>0, <2>2, <2>3 DEF Broken, Blocked
  <2>5. \A r \in Seeds : record'[First][r] # 0
    BY <2>1, <2>3
  <2>6. Bundle' = Decide(First = 1, record'[First], FallbackEvidence, FallbackEvidence)
    BY <2>4, <2>5 DEF Bundle, Decide, OuterEligible, Screened, Replaces, FoldTotal, SeedTotal, FallbackEvidence
  <2> QED
    BY <1>3, <2>1, <2>3, <2>6 DEF Bundle
<1> QED
  BY <1>2, <1>3

\* So does a verdict past the screen.
LEMMA ConfirmationKept ==
  ASSUME TypeOK, IInv, RInv, GroundAt, [Next]_vars, record[First][1] # 0, Confirmation # "none"
  PROVE  Confirmation' = Confirmation
<1>0. Writes /\ First \in Candidates /\ {1, 2} \subseteq Rungs
  BY StepShape, RungNumbers
<1>1. CASE ~Admits(2)
  BY <1>1, AdmitsKept DEF Confirmation
<1>2. CASE Admits(2) /\ record[First][2] = 0
  <2>1. Blocked(2)
    BY <1>2 DEF Confirmation, Called
  <2>2. Blocked(2)'
    BY <1>0, <2>1, BlockedStays
  <2>3. record'[First][2] = 0
    BY <2>2 DEF Blocked
  <2>4. Admits(2)'
    BY <1>2, AdmitsKept
  <2> QED
    BY <1>2, <2>1, <2>2, <2>3, <2>4 DEF Confirmation, Called
<1>3. CASE Admits(2) /\ record[First][2] # 0
  <2>1. record'[First][1] = record[First][1] /\ record'[First][2] = record[First][2]
    BY <1>0, <1>3 DEF Writes
  <2>2. Eligible' <=> Eligible
    BY <2>1, RungNumbers DEF Eligible, OuterEligible, Screened, FoldTotal, FallbackEvidence
  <2>3. Admits(2)' /\ (AdmitsBundle' <=> AdmitsBundle)
    BY <1>3, AdmitsKept
  <2>4. CASE ~(Eligible /\ MaxQueries > 0 /\ AdmitsBundle)
    BY <1>3, <2>1, <2>2, <2>3, <2>4 DEF Confirmation
  <2>5. CASE Eligible /\ MaxQueries > 0 /\ AdmitsBundle
    <3>1. query[First] # "none" /\ Confirmation = Bundle
      BY <1>3, <2>5 DEF Confirmation
    <3>2. query'[First] # "none"
      BY <1>0, <3>1 DEF Writes
    <3>3. Confirmation' = Bundle'
      BY <1>3, <2>1, <2>2, <2>3, <2>5, <3>2 DEF Confirmation
    <3> QED
      BY <1>3, <3>1, <3>3, BundleKept
  <2> QED
    BY <2>4, <2>5
<1> QED
  BY <1>1, <1>2, <1>3

\* The verdict that is due stays due.
LEMMA FateKept ==
  ASSUME TypeOK, IInv, RInv, GroundAt, [Next]_vars, Fate # "none"
  PROVE  Fate' = Fate
<1>0. Writes /\ First \in Candidates /\ 1 \in Rungs
  BY StepShape, RungNumbers
<1>1. CASE ~Admits(1)
  BY <1>1, AdmitsKept DEF Fate
<1>2. CASE Admits(1) /\ record[First][1] = 0
  <2>1. Blocked(1)
    BY <1>2 DEF Fate, Called
  <2>2. Blocked(1)'
    BY <1>0, <2>1, BlockedStays
  <2>3. record'[First][1] = 0
    BY <2>2 DEF Blocked
  <2>4. Admits(1)'
    BY <1>2, AdmitsKept
  <2> QED
    BY <1>2, <2>1, <2>2, <2>3, <2>4 DEF Fate, Called
<1>3. CASE Admits(1) /\ record[First][1] # 0
  <2>1. record'[First][1] = record[First][1]
    BY <1>0, <1>3 DEF Writes
  <2>2. Roots' <=> Roots
    BY <2>1, RungNumbers DEF Roots, Screened, FallbackEvidence
  <2>3. Admits(1)'
    BY <1>3, AdmitsKept
  <2>4. CASE ~Roots
    BY <1>3, <2>1, <2>2, <2>3, <2>4 DEF Fate
  <2>5. CASE Roots
    <3>1. Fate = Confirmation /\ Fate' = Confirmation'
      BY <1>3, <2>1, <2>2, <2>3, <2>5 DEF Fate
    <3> QED
      BY <1>3, <3>1, ConfirmationKept
  <2> QED
    BY <2>4, <2>5
<1> QED
  BY <1>1, <1>2, <1>3

\* What is scored was admitted.
LEMMA ScoredAdmitted ==
  ASSUME TypeOK, IInv, GroundAt, NEW r \in Rungs, record[First][r] # 0
  PROVE  Admits(r) /\ (r >= 2 => Roots)
<1>1. exec[First][r] = "trained"
  <2>1. First \in Candidates
    OBVIOUS
  <2> QED
    BY <2>1 DEF IInv, ScoreAt
<1> QED
  BY <1>1 DEF GroundAt

\* What admits the second run admits the first.
LEMMA AdmitsFirst ==
  ASSUME TypeOK, Admits(2)
  PROVE  Admits(1)
<1>1. limits.launches \in Nat /\ limits.elapsed \in Nat /\ FirstSeed = 3
  BY Numbers, RungNumbers
<1>2. Spent(0) \in Nat /\ Spent(1) \in Nat /\ Spent(0) <= Spent(1)
  BY SpentRuns
<1>3. limits.elapsed + Spent(1) + P95 + Reserve <= Wall
  <2>1. ~(2 > FirstSeed) /\ 2 - 1 = 1
    BY <1>1
  <2> QED
    BY <2>1 DEF Admits
<1>4. 1 <= limits.launches
  BY <1>1 DEF Admits
<1>5. limits.elapsed + Spent(0) + P95 + Reserve <= Wall
  BY <1>1, <1>2, <1>3, Settings
<1>6. ~(1 > FirstSeed) /\ 1 - 1 = 0
  BY <1>1
<1> QED
  BY <1>4, <1>5, <1>6 DEF Admits

\* A query is charged only if there is one.
LEMMA QueryThere ==
  ASSUME RInv, Queried # {}
  PROVE  MaxQueries > 0
<1>1. IsFiniteSet(Queried) /\ Cardinality(Queried) \in Nat /\ MaxQueries \in Nat
  BY CandidatesFinite, ScienceAssumption
<1>2. Cardinality(Queried) # 0
  BY <1>1, FS_EmptySet
<1>3. Cardinality(Queried) <= MaxQueries
  BY DEF RInv, QueriesAt
<1> QED
  BY <1>1, <1>2, <1>3

\* The verdict due to a fold that has no score yet.
LEMMA FateOfCall ==
  ASSUME TypeOK, IInv, GroundAt, phase = "call", job.iter = First, job.rung \in Folds,
         record[First][job.rung] = 0
  PROVE  Fate = Called(job.rung)
<1>1. Admits(job.rung) /\ (job.rung = 1 \/ job.rung = 2) /\ {1, 2} \subseteq Rungs
  BY RungNumbers DEF GroundAt
<1>2. CASE job.rung = 1
  BY <1>1, <1>2 DEF Fate
<1>3. CASE job.rung = 2
  <2>1. record[First][1] # 0
    BY <1>1, <1>3 DEF IInv, BehindAt
  <2>2. Roots /\ Admits(1)
    BY <1>1, <1>3, AdmitsFirst DEF GroundAt, Active
  <2> QED
    BY <1>1, <1>3, <2>1, <2>2 DEF Fate, Confirmation
<1> QED
  BY <1>1, <1>2, <1>3

\* The verdict due to a bundle whose query is charged.
LEMMA FateOfBundle ==
  ASSUME TypeOK, IInv, RInv, GroundAt, query[First] # "none"
  PROVE  Fate = Bundle
<1>0. First \in Candidates /\ {1, 2} \subseteq Rungs /\ FoldB = 1 /\ FoldA = 2
  BY RungNumbers
<1>1. record[First][1] # 0 /\ record[First][2] # 0
  BY <1>0 DEF IInv, ScoreAt
<1>2. Admits(2) /\ Roots
  BY <1>0, <1>1, ScoredAdmitted
<1>3. Eligible /\ AdmitsBundle
  <2>1. Qualified /\ limits.launches \in Nat
    BY Numbers DEF IInv, QualifiedAt
  <2> QED
    BY <2>1 DEF Qualified, Eligible, AdmitsBundle
<1>4. MaxQueries > 0
  BY <1>0, QueryThere DEF Queried
<1> QED
  BY <1>1, <1>2, <1>3, <1>4, AdmitsFirst DEF Fate, Confirmation

\* The bundle of the first candidate is reserved by every command or by none: another candidate
\* has the query only after this one was judged.
LEMMA PromotedOnce ==
  ASSUME TypeOK, IInv, RInv, GroundAt, VInv, faults = 0,
         phase = "judge", job.iter = First, job.rung = 2
  PROVE  MayPromote <=> Eligible /\ MaxQueries > 0
<1>0. First \in Candidates /\ {1, 2} \subseteq Rungs /\ job.incumbent = Fallback
  BY RungNumbers DEF IInv, FirstAt, After
<1>1. MayPromote <=> Eligible /\ (First \in Queried \/ Cardinality(Queried) < MaxQueries)
  BY <1>0 DEF MayPromote, Eligible, Evidence
<1>2. IsFiniteSet(Queried) /\ Cardinality(Queried) \in Nat /\ MaxQueries \in Nat
  BY CandidatesFinite, ScienceAssumption
<1>3. CASE Queried = {}
  <2>1. Cardinality(Queried) = 0
    BY <1>2, <1>3, FS_EmptySet
  <2> QED
    BY <1>1, <1>2, <1>3, <2>1
<1>4. CASE First \in Queried
  BY <1>1, <1>4, QueryThere
<1>5. CASE Queried # {} /\ First \notin Queried /\ Eligible
  <2>1. PICK c \in Candidates : query[c] # "none" /\ c # First
    BY <1>5 DEF Queried
  <2>2. lineage[c] # "none"
    BY <2>1 DEF RInv, LineageAt
  <2>3. verdict[First] \notin {"none", "budget_rejected"}
    BY <2>1, <2>2 DEF VInv, FollowAt, Judged
  <2>4. Fate \notin {"none", "budget_rejected"}
    BY <2>3 DEF VInv, FateAt
  <2>5. record[First][1] # 0 /\ record[First][2] # 0
    BY <1>0 DEF IInv, BehindAt
  <2>6. Admits(2) /\ Admits(1) /\ Roots
    BY <1>0, <2>5, ScoredAdmitted, AdmitsFirst
  <2>7. MaxQueries > 0 /\ query[First] = "none"
    BY <1>0, <1>5, QueryThere DEF Queried
  <2>8. Fate \in {"none", "budget_rejected"}
    BY <1>5, <2>5, <2>6, <2>7 DEF Fate, Confirmation
  <2> QED
    BY <2>4, <2>8
<1>6. CASE ~Eligible
  BY <1>1, <1>6
<1> QED
  BY <1>3, <1>4, <1>5, <1>6

\* A call that is refused, or restored as failed, is of a run that is blocked.
LEMMA RefusedBlocked ==
  ASSUME RefuseTraining \/ RefusePrediction \/ RestoreFailure, job.iter = First
  PROVE  Blocked(job.rung)
BY DEF RefuseTraining, RefusePrediction, RestoreFailure, Pending, Blocked

\* An iteration of the first candidate ends with the verdict that is due.
LEMMA FirstVerdict ==
  ASSUME TypeOK, IInv, RInv, GroundAt, VInv, Next, faults = 0, faults' = 0,
         job.iter = First, phase # "close", phase' = "close"
  PROVE  verdict'[First] = Fate
<1>0. /\ verdict \in [Candidates -> Verdicts] /\ First \in Candidates /\ job.rung \in 1 .. 5
      /\ {1, 2} \subseteq Rungs /\ Folds = {1, 2} /\ Seeds = 3 .. 5 /\ Rungs = 1 .. 5
  <2>1. verdict \in [Candidates -> Verdicts] /\ First \in Candidates /\ job.rung \in 1 .. 5
    BY Numbers DEF TypeOK
  <2> QED
    BY <2>1, RungNumbers
<1>b. ASSUME NEW o, Blank(o) PROVE verdict'[First] = o
  BY <1>0, <1>b DEF Blank
<1>s. phase \in Active => \A q \in Rungs : q < job.rung => record[First][q] # 0
  BY DEF IInv, BehindAt, Active
<1>1. CASE RejectLaunch
  <2>1. phase = "admit" /\ Admission # "none" /\ job.rung \in {1, 2} /\ Blank("budget_rejected")
    BY <1>0, <1>1, RejectFacts DEF Cut, ToSettle
  <2>2. ~Admits(job.rung)
    BY <2>1, FirstAdmitted
  <2>3. Fate = "budget_rejected"
    <3>1. CASE ~Admits(1)
      BY <3>1 DEF Fate
    <3>2. CASE Admits(1)
      <4>1. job.rung = 2 /\ record[First][1] # 0
        BY <1>0, <1>s, <2>1, <2>2, <3>2 DEF Active
      <4>2. Roots
        BY <2>1, <4>1 DEF GroundAt, Active
      <4> QED
        BY <2>2, <3>2, <4>1, <4>2 DEF Fate, Confirmation
    <3> QED
      BY <3>1, <3>2
  <2> QED
    BY <1>b, <2>1, <2>3
<1>2. CASE RefuseTraining \/ RefusePrediction \/ RestoreFailure \/ Falter
  <2>1. /\ phase = "call" /\ record[First][job.rung] = 0 /\ job.rung \in Folds
        /\ Blank("callback_failed")
    BY <1>2, CallFacts DEF Cut, ToSettle
  <2>2. ~Falter
    BY DEF Falter
  <2>3. Blocked(job.rung)
    BY <1>2, <2>2, RefusedBlocked
  <2>4. Fate = "callback_failed"
    BY <2>1, <2>3, FateOfCall DEF Called
  <2> QED
    BY <1>b, <2>1, <2>4
<1>3. CASE JudgeScreen
  <2>1. /\ phase = "judge" /\ job.rung = 1 /\ Blank("screen_rejected")
        /\ ~Screened(job.iter = 1, record[job.iter], Evidence(job.incumbent))
    BY <1>3, ScreenFacts DEF ToNext
  <2>2. job.incumbent = Fallback
    BY <2>1 DEF IInv, FirstAt, After
  <2>3. ~Roots
    BY <2>1, <2>2 DEF Roots, Evidence
  <2>4. Admits(1) /\ record[First][1] # 0
    <3>1. record[First][1] # 0
      BY <2>1 DEF IInv, BehindAt
    <3> QED
      BY <1>0, <3>1, ScoredAdmitted
  <2>5. Fate = "screen_rejected"
    BY <2>3, <2>4 DEF Fate
  <2> QED
    BY <1>b, <2>1, <2>5
<1>4. CASE JudgeFolds
  <2>1. /\ phase = "judge" /\ job.rung = 2
        /\ \/ ~MayPromote /\ Blank("inner_rejected")
           \/ MayPromote /\ BundleAdmission # "none" /\ Blank("budget_rejected")
    BY <1>4, FoldsFacts
  <2>2. record[First][1] # 0 /\ record[First][2] # 0
    BY <1>0, <1>s, <2>1 DEF IInv, BehindAt, Active
  <2>3. Admits(2) /\ Admits(1) /\ Roots
    BY <1>0, <2>2, ScoredAdmitted, AdmitsFirst
  <2>4. MayPromote <=> Eligible /\ MaxQueries > 0
    BY <2>1, PromotedOnce
  <2>5. CASE ~MayPromote
    BY <1>b, <2>1, <2>2, <2>3, <2>4, <2>5 DEF Fate, Confirmation
  <2>6. CASE MayPromote /\ BundleAdmission # "none" /\ Blank("budget_rejected")
    <3>1. ~AdmitsBundle
      <4>1. /\ job.used = 2 /\ job.elapsed = limits.elapsed + Spent(2)
            /\ limits.elapsed \in Nat /\ limits.launches \in Nat
        BY <2>1, Numbers DEF IInv, FirstAt
      <4>2. job.elapsed \in Nat
        BY Numbers
      <4>3. TimeReason(3, FALSE) = "none" <=> limits.elapsed + Spent(2) + 3 * P95 + Reserve <= Wall
        BY <4>1, <4>2, BundleFitsTime
      <4>4. BundleAdmission = IF job.used + 3 > limits.launches THEN "launch_cap" ELSE TimeReason(3, FALSE)
        BY SeedCount DEF BundleAdmission
      <4>5. CASE job.used + 3 > limits.launches
        BY <4>1, <4>5 DEF AdmitsBundle
      <4>6. CASE ~(job.used + 3 > limits.launches)
        BY <2>6, <4>3, <4>4, <4>6 DEF AdmitsBundle
      <4> QED
        BY <4>5, <4>6
    <3> QED
      BY <1>b, <2>2, <2>3, <2>4, <2>6, <3>1 DEF Fate, Confirmation
  <2> QED
    BY <2>1, <2>5, <2>6
<1>5. CASE SettleFailed
  <2>1. phase = "settle" /\ job.cut /\ job.rung \in 3 .. 5 /\ Blank("outer_failed")
    BY <1>5, SettleFailedFacts DEF Over
  <2>2. Blocked(job.rung)
    BY <1>0, <2>1 DEF VInv, CutAt
  <2>3. Broken
    BY <1>0, <1>s, <2>1, <2>2 DEF Broken, Active
  <2>4. query[First] # "none"
    BY <1>0, <2>1 DEF IInv, ChargedAt
  <2>5. Fate = "outer_failed"
    BY <2>3, <2>4, FateOfBundle DEF Bundle
  <2> QED
    BY <1>b, <2>1, <2>5
<1>6. CASE SettleDecided
  <2>1. /\ phase = "settle" /\ ~job.cut /\ job.rung = 5
        /\ verdict' = [verdict EXCEPT ![job.iter] = Outcome]
    BY <1>6, SettleDecidedFacts DEF Over
  <2>2. \A q \in Rungs : record[First][q] # 0
    BY <1>0, <1>s, <2>1 DEF IInv, BehindAt, Active
  <2>3. query[First] # "none"
    BY <1>0, <2>1 DEF IInv, ChargedAt
  <2>4. job.incumbent = Fallback
    BY <2>1 DEF IInv, FirstAt, After
  <2>5. Outcome = Decide(First = 1, record[First], FallbackEvidence, FallbackEvidence)
    BY <2>4 DEF Outcome, Evidence
  <2>6. ~Broken /\ \A r \in Seeds : record[First][r] # 0
    BY <1>0, <2>2 DEF Broken, Blocked
  <2>7. Fate = Outcome
    BY <2>3, <2>5, <2>6, FateOfBundle DEF Bundle
  <2>8. verdict'[First] = Outcome
    BY <1>0, <2>1
  <2> QED
    BY <2>7, <2>8
<1>7. CASE Begin \/ Die \/ Overrun \/ Close \/ End
  BY <1>7, BeginFacts, DieFacts, OverrunFacts, CloseFacts, EndFacts DEF Over
<1>8. CASE Tick \/ Request \/ Train \/ Evaluate \/ ReturnRecord
  BY <1>8, RequestFacts, TrainFacts, EvaluateFacts, ReturnFacts DEF Tick
<1>9. CASE ReserveQuery \/ JudgeSeed \/ Follow
  BY <1>9, ReserveFacts, SeedFacts, FollowFacts DEF ToNext
<1> QED
  BY <1>1, <1>2, <1>3, <1>4, <1>5, <1>6, <1>7, <1>8, <1>9 DEF Next

\* An iteration that ends has a verdict, and one that ends for want of budget a reason to stop.
LEMMA EndReason ==
  ASSUME TypeOK, IInv, Next, phase # "close", phase' = "close"
  PROVE  /\ verdict'[job.iter] # "none"
         /\ verdict'[job.iter] = "budget_rejected" => job'.stop # "none"
<1>0. verdict \in [Candidates -> Verdicts] /\ job.iter \in Candidates
  BY Numbers DEF TypeOK
<1>b. ASSUME NEW o, Blank(o) PROVE verdict'[job.iter] = o
  BY <1>0, <1>b DEF Blank
<1>1. CASE RejectLaunch
  BY <1>b, <1>1, RejectFacts DEF Cut, ToSettle
<1>2. CASE RefuseTraining \/ RefusePrediction \/ RestoreFailure \/ Falter
  BY <1>b, <1>2, CallFacts DEF Cut, ToSettle
<1>3. CASE JudgeScreen
  BY <1>b, <1>3, ScreenFacts DEF ToNext
<1>4. CASE JudgeFolds
  BY <1>b, <1>4, FoldsFacts
<1>5. CASE SettleFailed
  BY <1>b, <1>5, SettleFailedFacts DEF Over
<1>6. CASE SettleDecided
  <2>1. verdict' = [verdict EXCEPT ![job.iter] = Outcome] /\ Outcome \in Measured
    BY <1>6, SettleDecidedFacts DEF Over
  <2>2. Outcome \notin {"none", "budget_rejected"}
    BY <2>1, Zenon DEF Measured, Promotions
  <2> QED
    BY <1>0, <2>1, <2>2
<1>7. CASE Begin \/ Die \/ Overrun \/ Close \/ End
  BY <1>7, BeginFacts, DieFacts, OverrunFacts, CloseFacts, EndFacts DEF Over
<1>8. CASE Tick \/ Request \/ Train \/ Evaluate \/ ReturnRecord
  BY <1>8, RequestFacts, TrainFacts, EvaluateFacts, ReturnFacts DEF Tick
<1>9. CASE ReserveQuery \/ JudgeSeed \/ Follow
  BY <1>9, ReserveFacts, SeedFacts, FollowFacts DEF ToNext
<1> QED
  BY <1>1, <1>2, <1>3, <1>4, <1>5, <1>6, <1>7, <1>8, <1>9 DEF Next

\* Only a call that falters does so.
LEMMA OthersKeepFaults ==
  ASSUME TypeOK, IInv, [Next]_vars, ~Falter
  PROVE  faults' = faults
<1>1. CASE Begin \/ Die \/ Overrun
  BY <1>1, BeginFacts, DieFacts, OverrunFacts DEF Over, Fresh
<1>2. CASE Tick \/ UNCHANGED vars
  BY <1>2 DEF Tick, vars, looks
<1>3. CASE RejectLaunch \/ RefuseTraining \/ RefusePrediction \/ RestoreFailure
  BY <1>3, RejectFacts DEF RefuseTraining, RefusePrediction, RestoreFailure
<1>4. CASE Train \/ Evaluate \/ JudgeScreen \/ JudgeFolds
  BY <1>4, TrainFacts, EvaluateFacts, ScreenFacts, FoldsFacts DEF looks
<1>5. CASE Request \/ ReturnRecord \/ ReserveQuery \/ JudgeSeed
  BY <1>5, RequestFacts, ReturnFacts, ReserveFacts, SeedFacts DEF Still, looks
<1>6. CASE SettleFailed \/ SettleDecided
  BY <1>6, SettleFailedFacts, SettleDecidedFacts
<1>7. CASE Close \/ End \/ Follow
  BY <1>7, CloseFacts, EndFacts, FollowFacts DEF Over, Fresh, looks
<1> QED
  BY <1>1, <1>2, <1>3, <1>4, <1>5, <1>6, <1>7 DEF Next

\* Once a call has faltered, one has.
LEMMA FaultsGrow ==
  ASSUME TypeOK, IInv, [Next]_vars
  PROVE  faults \in Nat /\ faults' \in Nat /\ (faults' = 0 => faults = 0)
<1>1. faults \in Nat
  BY ScienceAssumption DEF TypeOK
<1>2. faults' = faults \/ faults' = faults + 1
  BY OthersKeepFaults DEF Falter
<1> QED
  BY <1>1, <1>2

\* The first candidate gets the verdict that is due.
LEMMA FateStep ==
  ASSUME TypeOK, IInv, RInv, GroundAt, VInv, [Next]_vars
  PROVE  FateAt'
<1> SUFFICES ASSUME faults' = 0, verdict'[First] # "none" PROVE verdict'[First] = Fate'
  BY DEF FateAt
<1>0. faults = 0 /\ Writes /\ First \in Candidates
  BY FaultsGrow, StepShape
<1>1. CASE verdict'[First] = verdict[First]
  <2>1. verdict[First] = Fate
    BY <1>0, <1>1 DEF VInv, FateAt
  <2> QED
    BY <1>1, <2>1, FateKept
<1>2. CASE verdict'[First] # verdict[First]
  <2>1. job.iter = First /\ phase # "close" /\ phase' = "close"
    BY <1>0, <1>2 DEF Writes
  <2>2. Next
    BY <1>2 DEF vars, looks
  <2>3. verdict'[First] = Fate
    BY <1>0, <2>1, <2>2, FirstVerdict
  <2> QED
    BY <2>3, FateKept
<1> QED
  BY <1>1, <1>2

\* And it keeps it, even when a call falters for the first time.
LEMMA FirstSame ==
  ASSUME TypeOK, IInv, RInv, GroundAt, VInv, [Next]_vars, faults = 0, verdict[First] # "none"
  PROVE  verdict'[First] = verdict[First]
<1>0. Writes /\ First \in Candidates /\ verdict[First] = Fate /\ verdict \in [Candidates -> Verdicts]
  <2>1. First \in Candidates /\ verdict[First] = Fate /\ verdict \in [Candidates -> Verdicts]
    BY DEF VInv, FateAt, TypeOK
  <2> QED
    BY <2>1, StepShape
<1>1. CASE verdict'[First] # verdict[First]
  <2>1. job.iter = First /\ phase # "close" /\ phase' = "close"
    BY <1>0, <1>1 DEF Writes
  <2>2. Next
    BY <1>1 DEF vars, looks
  <2>3. CASE faults' = 0
    BY <1>0, <2>1, <2>2, <2>3, FirstVerdict
  <2>4. CASE faults' # 0
    <3>1. Falter
      BY <2>4, OthersKeepFaults
    <3>2. /\ phase = "call" /\ record[First][job.rung] = 0 /\ job.rung \in Folds
          /\ Blank("callback_failed")
      BY <2>1, <3>1, CallFacts DEF Cut, ToSettle
    <3>3. Fate \in {"none", "callback_failed"}
      BY <2>1, <3>2, FateOfCall DEF Called
    <3>4. verdict'[First] = "callback_failed"
      BY <1>0, <2>1, <3>2 DEF Blank
    <3> QED
      BY <1>0, <3>3, <3>4
  <2> QED
    BY <2>3, <2>4
<1> QED
  BY <1>1

\* The bundle of the first candidate is cut at a run that is blocked.
LEMMA CutStep ==
  ASSUME TypeOK, IInv, RInv, GroundAt, VInv, [Next]_vars
  PROVE  CutAt'
<1> SUFFICES ASSUME faults' = 0, phase' = "settle", job'.cut, job'.iter = First,
                    NEW r \in Rungs, r = job'.rung
             PROVE  Blocked(r)'
  BY DEF CutAt
<1>0. faults = 0
  BY FaultsGrow
<1>1. CASE Blocked(r)
  BY <1>1, BlockedStays
<1>2. CASE UNCHANGED <<phase, job>>
  BY <1>0, <1>1, <1>2 DEF VInv, CutAt
<1>3. CASE RejectLaunch
  <2>1. /\ phase = "admit" /\ Admission # "none" /\ job.rung = r /\ job.iter = First
        /\ job.rung \in Rungs
    BY <1>3, Numbers, RejectFacts DEF Blank, ToClose, Cut, ToSettle, Kept
  <2>2. ~Admits(r)
    BY <2>1, FirstAdmitted
  <2>3. record[First][r] = 0
    BY <2>1, <2>2, ScoredAdmitted
  <2> QED
    BY <1>1, <2>2, <2>3 DEF Blocked
<1>4. CASE RefuseTraining \/ RefusePrediction \/ RestoreFailure \/ Falter
  <2>1. job.iter = First /\ job.rung = r
    BY <1>4, CallFacts DEF Blank, ToClose, Cut, ToSettle, Kept
  <2>2. ~Falter
    BY <1>0 DEF Falter
  <2>3. Blocked(job.rung)
    BY <1>4, <2>1, <2>2, RefusedBlocked
  <2> QED
    BY <1>1, <2>1, <2>3
<1>5. CASE JudgeSeed
  <2>1. phase = "judge" /\ job' = job
    BY <1>5, SeedFacts DEF ToNext
  <2> QED
    BY <2>1 DEF IInv, RungAt, After
<1>6. CASE Begin \/ Die \/ Overrun \/ Close \/ End \/ Follow
  BY <1>6, BeginFacts, DieFacts, OverrunFacts, CloseFacts, EndFacts, FollowFacts DEF Over
<1>7. CASE Request \/ ReturnRecord \/ ReserveQuery
  BY <1>7, RequestFacts, ReturnFacts, ReserveFacts DEF ToNext
<1>8. CASE JudgeScreen \/ JudgeFolds
  BY <1>8, ScreenFacts, FoldsFacts DEF ToNext, Blank, ToClose
<1>9. CASE SettleFailed \/ SettleDecided
  BY <1>9, SettleFailedFacts, SettleDecidedFacts DEF Over, Blank, ToClose
<1>10. CASE Tick \/ Train \/ Evaluate \/ UNCHANGED vars
  BY <1>2, <1>10, TrainFacts, EvaluateFacts DEF Tick, vars
<1> QED
  BY <1>3, <1>4, <1>5, <1>6, <1>7, <1>8, <1>9, <1>10 DEF Next

\* The failure of that bundle is where it was cut.
LEMMA FailureStep ==
  ASSUME TypeOK, IInv, RInv, GroundAt, VInv, [Next]_vars
  PROVE  FailureAt'
<1> SUFFICES ASSUME faults' = 0, failure'[First] # 0
             PROVE  \E r \in Seeds :
                      /\ failure'[First] = r - 1 /\ Blocked(r)'
                      /\ \A q \in Rungs : q < r => record'[First][q] # 0
  BY DEF FailureAt
<1>0. faults = 0 /\ First \in Candidates /\ Seeds \subseteq Rungs /\ Seeds = 3 .. 5
  BY FaultsGrow, RungNumbers
<1>w. Writes
  BY StepShape
<1>s. ASSUME NEW r \in Seeds, failure'[First] = r - 1, Blocked(r),
             \A q \in Rungs : q < r => record[First][q] # 0
      PROVE  /\ failure'[First] = r - 1 /\ Blocked(r)'
             /\ \A q \in Rungs : q < r => record'[First][q] # 0
  <2>1. Blocked(r)'
    BY <1>0, <1>s, BlockedStays
  <2>2. \A q \in Rungs : record[First][q] # 0 => record'[First][q] = record[First][q]
    BY <1>0, <1>w DEF Writes
  <2> QED
    BY <1>s, <2>1, <2>2
<1>1. CASE failure'[First] = failure[First]
  <2>1. PICK r \in Seeds :
          /\ failure[First] = r - 1 /\ Blocked(r)
          /\ \A q \in Rungs : q < r => record[First][q] # 0
    BY <1>0, <1>1 DEF VInv, FailureAt
  <2> QED
    BY <1>1, <1>s, <2>1
<1>2. CASE failure'[First] # failure[First]
  <2>1. job.iter = First /\ phase = "settle" /\ phase' = "close"
    BY <1>0, <1>2, <1>w DEF Writes
  <2>2. SettleFailed
    <3>1. CASE SettleDecided \/ ReserveQuery \/ Evaluate
      BY <1>2, <3>1, SettleDecidedFacts, ReserveFacts, EvaluateFacts
    <3>2. CASE UNCHANGED vars
      BY <1>2, <3>2 DEF vars, durable
    <3> QED
      BY <1>2, <3>1, <3>2, OthersKeepLedgers
  <2>3. job.cut /\ job.rung \in Seeds /\ failure'[First] = job.rung - 1
    BY <1>0, <2>1, <2>2, SettleFailedFacts DEF Over
  <2>4. Blocked(job.rung)
    BY <1>0, <2>1, <2>3 DEF VInv, CutAt
  <2>5. \A q \in Rungs : q < job.rung => record[First][q] # 0
    BY <2>1 DEF IInv, BehindAt
  <2>6. PICK r \in Seeds : r = job.rung
    BY <2>3
  <2> QED
    BY <1>s, <2>3, <2>4, <2>5, <2>6
<1> QED
  BY <1>1, <1>2

\* Another candidate follows only a judged one.
LEMMA FollowedStep ==
  ASSUME TypeOK, IInv, RInv, GroundAt, VInv, [Next]_vars
  PROVE  FollowAt'
<1>0. /\ Writes /\ Places /\ First \in Candidates /\ First \in Nat
      /\ job.iter \in Candidates /\ job.iter \in Nat /\ FreshJob.iter = First
  BY StepShape, Numbers, FreshTyped
<1>v. verdict'[First] # verdict[First] =>
        job.iter = First /\ phase \in {"admit", "call", "judge", "settle"} /\ phase' = "close"
  BY <1>0 DEF Writes
<1>1. ASSUME job'.iter > First PROVE Judged'
  <2>1. CASE job.iter > First
    BY <1>0, <1>v, <2>1 DEF VInv, FollowAt, Judged
  <2>2. CASE job.iter = First
    <3>1. phase = "follow" /\ Terminal = "none"
      BY <1>0, <1>1, <2>2 DEF Places, Over, Fresh, Stays
    <3>2. job.stop = "none"
      BY <3>1, TerminalFacts
    <3> QED
      BY <1>v, <2>2, <3>1, <3>2 DEF VInv, FollowAt, Judged
  <2> QED
    BY <1>0, <2>1, <2>2
<1>2. ASSUME faults' = 0, NEW c \in Candidates, c # First, lineage'[c] # "none" PROVE Judged'
  <2>0. faults = 0
    BY <1>2, FaultsGrow
  <2>1. CASE lineage[c] # "none"
    <3>1. verdict[First] \notin {"none", "budget_rejected"}
      BY <1>2, <2>0, <2>1 DEF VInv, FollowAt, Judged
    <3>2. verdict'[First] = verdict[First]
      BY <2>0, <3>1, FirstSame
    <3> QED
      BY <3>1, <3>2 DEF Judged
  <2>2. CASE lineage[c] = "none"
    <3>1. lineage \in [Candidates -> {"none", "retained", "fresh", "stale"}]
      BY DEF TypeOK
    <3>2. phase = "follow" /\ job'.iter = job.iter + 1
      BY <1>0, <1>2, <2>2, <3>1 DEF Places, Over, Stays
    <3>3. job'.iter > First
      BY <1>0, <3>2
    <3> QED
      BY <1>1, <3>3
  <2> QED
    BY <2>1, <2>2
<1>3. ASSUME job'.iter = First, phase' \in {"close", "follow"}
      PROVE  verdict'[First] # "none" /\ (verdict'[First] = "budget_rejected" => job'.stop # "none")
  <2>1. CASE phase = "close"
    <3>1. job' = job
      BY <1>0, <1>3, <2>1 DEF Places, Over, Active
    <3> QED
      BY <1>3, <1>v, <2>1, <3>1 DEF VInv, FollowAt
  <2>2. CASE phase # "close" /\ phase' = "close"
    <3>1. job.iter = First /\ Next
      <4>1. job'.iter = job.iter
        BY <1>0, <2>2 DEF Places, Over, Stays
      <4> QED
        BY <1>3, <2>2, <4>1 DEF vars
    <3> QED
      BY <2>2, <3>1, EndReason
  <2>3. CASE phase # "close" /\ phase' = "follow"
    <3>1. phase = "follow" /\ job' = job
      <4>1. job'.iter <= job.iter
        BY <1>0, <1>3
      <4> QED
        BY <1>0, <2>3, <4>1 DEF Places, Over, Active
    <3> QED
      BY <1>3, <1>v, <3>1 DEF VInv, FollowAt
  <2> QED
    BY <1>3, <2>1, <2>2, <2>3
<1> QED
  BY <1>1, <1>2, <1>3 DEF FollowAt

\* Only the settlement of a bundle meets a contradiction.
LEMMA OthersRaise ==
  ASSUME TypeOK, IInv, [Next]_vars, ~SettleFailed, ~SettleDecided
  PROVE  raised' \subseteq raised \cup {"cursor", "several_queries", "overrun"}
<1>1. CASE Die \/ Overrun \/ RejectLaunch \/ RefuseTraining \/ RefusePrediction \/ RestoreFailure \/ Falter
  BY <1>1, DieFacts, OverrunFacts, RejectFacts, CallFacts
<1>2. CASE JudgeScreen \/ JudgeFolds \/ Train
  BY <1>2, ScreenFacts, FoldsFacts, TrainFacts
<1>3. CASE Request \/ ReturnRecord \/ ReserveQuery
  BY <1>3, RequestFacts, ReturnFacts, ReserveFacts DEF Still, looks
<1>4. CASE Evaluate \/ JudgeSeed \/ Follow
  BY <1>4, EvaluateFacts, SeedFacts, FollowFacts DEF looks
<1>5. CASE Begin \/ Close \/ End
  BY <1>5, BeginFacts, CloseFacts, EndFacts DEF looks
<1>6. CASE Tick \/ UNCHANGED vars
  BY <1>6 DEF Tick, vars, looks
<1> QED
  BY <1>1, <1>2, <1>3, <1>4, <1>5, <1>6 DEF Next

\* The ledgers agree with what the loop settles until a call falters.
LEMMA ContradictionStep ==
  ASSUME TypeOK, IInv, RInv, GroundAt, VInv, [Next]_vars
  PROVE  ContradictionAt'
<1> SUFFICES ASSUME faults' = 0, "contradiction" \in raised' PROVE FALSE
  BY FaultsGrow DEF ContradictionAt
<1>0. /\ faults = 0 /\ "contradiction" \notin raised
      /\ First \in Candidates /\ Rungs = 1 .. 5 /\ Seeds = 3 .. 5
      /\ job.iter \in Candidates /\ job.iter \in Nat
  <2>1. faults = 0
    BY FaultsGrow
  <2> QED
    BY <2>1, Numbers, RungNumbers DEF VInv, ContradictionAt
<1>1. SettleFailed \/ SettleDecided
  BY <1>0, OthersRaise
<1>n. phase = "settle" /\ job.iter # First => failure[job.iter] = 0 /\ query[job.iter] # "published"
  BY <1>0 DEF RInv, NewAt, Active
<1>b. phase = "settle" => \A q \in Rungs : q < job.rung => record[job.iter][q] # 0
  BY DEF IInv, BehindAt
<1>2. CASE SettleFailed
  <2>1. /\ phase = "settle" /\ job.cut /\ job.rung \in 3 .. 5
        /\ query[job.iter] = "published" \/ failure[job.iter] \notin {0, job.rung - 1}
    BY <1>0, <1>2, SettleFailedFacts
  <2>2. job.iter = First
    BY <1>n, <2>1
  <2>3. record[First][job.rung] = 0
    <3>1. Blocked(job.rung)
      BY <1>0, <2>1, <2>2 DEF VInv, CutAt
    <3> QED
      BY <3>1 DEF Blocked
  <2>4. query[First] # "published"
    BY <1>0, <2>1, <2>3 DEF RInv, FullAt
  <2>5. failure[First] # 0 /\ failure[First] # job.rung - 1
    BY <2>1, <2>2, <2>4
  <2>6. PICK r \in Seeds :
          /\ failure[First] = r - 1 /\ Blocked(r)
          /\ \A q \in Rungs : q < r => record[First][q] # 0
    BY <1>0, <2>5 DEF VInv, FailureAt
  <2>7. record[First][r] = 0
    BY <2>6 DEF Blocked
  <2>8. r # job.rung
    BY <2>5, <2>6
  <2>9. r < job.rung \/ job.rung < r
    BY <1>0, <2>1, <2>6, <2>8
  <2> QED
    BY <1>0, <1>b, <2>1, <2>2, <2>3, <2>6, <2>7, <2>9
<1>3. CASE SettleDecided
  <2>1. phase = "settle" /\ ~job.cut /\ job.rung = 5 /\ failure[job.iter] # 0
    BY <1>0, <1>3, SettleDecidedFacts
  <2>2. job.iter = First
    BY <1>n, <2>1
  <2>3. PICK r \in Seeds : Blocked(r)
    BY <1>0, <2>1, <2>2 DEF VInv, FailureAt
  <2>4. record[First][r] = 0
    BY <2>3 DEF Blocked
  <2>5. record[First][5] # 0
    BY <2>1, <2>2 DEF IInv, BehindAt
  <2> QED
    BY <1>0, <1>b, <2>1, <2>2, <2>3, <2>4, <2>5
<1> QED
  BY <1>1, <1>2, <1>3

\* Nothing is judged at first.
LEMMA InitJudged == Init => VInv
<1> SUFFICES ASSUME Init PROVE VInv
  OBVIOUS
<1>1. /\ phase = "down" /\ job.iter = First /\ First \in Candidates /\ raised = {}
      /\ verdict[First] = "none" /\ failure[First] = 0
      /\ \A c \in Candidates : c # First => lineage[c] = "none"
  BY InitType, FreshTyped DEF Init
<1>2. FateAt /\ CutAt /\ FailureAt /\ FollowAt /\ ContradictionAt
  BY <1>1 DEF FateAt, CutAt, FailureAt, FollowAt, ContradictionAt
<1> QED
  BY <1>2 DEF VInv

\* What is due to the first candidate stays right.
LEMMA JudgedAlike == Spec => []VInv
<1>1. TypeOK /\ IInv /\ RInv /\ LInv /\ VInv /\ [Next]_vars => VInv'
  <2> SUFFICES ASSUME TypeOK, IInv, RInv, GroundAt, VInv, [Next]_vars
               PROVE  FateAt' /\ CutAt' /\ FailureAt' /\ FollowAt' /\ ContradictionAt'
    BY DEF VInv, LInv
  <2> QED
    BY FateStep, CutStep, FailureStep, FollowedStep, ContradictionStep
<1> QED
  BY <1>1, InitJudged, Inductive, Retained, Counted, PTL DEF Spec

-----------------------------------------------------------------------------
(* Theorems.                                                               *)

\* The types; and the loop never counts more launches than the hard cap (Admission asks before
\* each launch, and every command counts from nothing).
THEOREM TypeCorrect == Spec => []TypeOK
BY Inductive, PTL

\* Only a candidate whose public query is decided and whose bundle never failed becomes the
\* incumbent (decide and complete come before the promotion), and it beats the fallback on the
\* folds and, by way of the incumbents before it, on the matched seeds.
THEOREM IncumbentIsEarned == Spec => []IncumbentEarned
<1>1. Init => IncumbentEarned
  <2> SUFFICES ASSUME Init PROVE IncumbentEarned
    OBVIOUS
  <2>1. job = FreshJob /\ TypeOK
    BY InitType DEF Init
  <2> QED
    BY <2>1, FreshTyped DEF IncumbentEarned
<1>2. TypeOK /\ IInv /\ IncumbentEarned /\ [Next]_vars => IncumbentEarned'
  BY EarnedStep
<1> QED
  BY <1>1, <1>2, Inductive, PTL DEF Spec

\* A completed science leaves no public query charged and forgotten (SCIENCE_COMPLETE is
\* reached only past the comparison of the cursors).
THEOREM NoQueryForgotten == Spec => []NothingUndecided
<1>1. TypeOK /\ IInv => NothingUndecided
  <2> SUFFICES ASSUME TypeOK, IInv, phase = "complete", NEW c \in Queried
               PROVE  query[c] = "published" \/ failure[c] # 0
    BY DEF NothingUndecided
  <2>1. c \in Candidates /\ query[c] # "none" /\ query[c] \in {"none", "charged", "published"}
    BY DEF Queried, TypeOK
  <2>2. ~Undecided(c)
    BY <2>1 DEF IInv, UndecidedAt
  <2> QED
    BY <2>1, <2>2 DEF Undecided
<1> QED
  BY <1>1, Inductive, PTL

\* A completed science hands over the best candidate that any command ever promoted: the loop
\* runs through the retained candidates again, and none of them changes its scores.
THEOREM BestWinnerKept == Spec => []WinnerKept
<1>1. Init => WinnerAt
  <2> SUFFICES ASSUME Init PROVE WinnerAt
    OBVIOUS
  <2>1. phase = "down" /\ job.iter = First /\ First \in Nat
    BY InitType, FreshTyped DEF Init
  <2> QED
    BY <2>1 DEF WinnerAt, Past
<1>2. TypeOK /\ IInv /\ RInv /\ IncumbentEarned /\ WinnerAt /\ [Next]_vars => WinnerAt'
  BY WinnerStep
<1>3. WinnerAt => WinnerKept
  BY DEF WinnerAt, WinnerKept, Past
<1> QED
  BY <1>1, <1>2, <1>3, Inductive, Retained, IncumbentIsEarned, PTL DEF Spec

\* Convergence is reported only for Patience measured candidates in a row, in this command, none of
\* which gained on all that came before it (ConvergenceState.record, after a restart from nothing).
THEOREM ConvergenceMeasured == Spec => []MeasuredConvergence
<1>1. TypeOK /\ IInv /\ RInv /\ CInv /\ [Next]_vars => CInv'
  BY BestStep, StreakStep, ConvergedStep DEF CInv
<1>2. TypeOK /\ CInv => MeasuredConvergence
  <2> SUFFICES ASSUME TypeOK, CInv, phase \in {"end", "complete"}, job.stop = "converged"
               PROVE  \E last \in SUBSET Scored :
                        /\ Cardinality(last) = Patience
                        /\ \A c \in last : FlatAt(c) /\ \A d \in Scored \ last : d < c
    BY DEF MeasuredConvergence
  <2>1. Behind = Scored
    BY Numbers DEF Behind, Scored, After
  <2>2. job.conv.flat = Patience
    <3>1. job.conv.flat \in Nat /\ Patience \in Nat
      BY Numbers, SelectionAssumption DEF Convergence
    <3> QED
      BY <3>1 DEF CInv, ConvergedAt, Converged
  <2>3. PICK last \in SUBSET Scored :
          /\ Cardinality(last) = Patience
          /\ \A c \in last :
               /\ \E d \in {Fallback} \cup {d \in Scored : d < c} : Total(c) <= Total(d) + Epsilon
               /\ \A d \in Scored \ last : d < c
    BY <2>1, <2>2 DEF CInv, StreakAt
  <2>4. \A c \in last : Total(c) = SeedTotal(record[c])
    <3>1. \A c \in last : c # Fallback
      BY Numbers DEF Scored
    <3> QED
      BY <3>1 DEF Total, Evidence
  <2> QED
    BY <2>3, <2>4 DEF FlatAt, Total
<1> QED
  BY <1>1, <1>2, InitConvergence, Inductive, Retained, PTL DEF Spec

\* A bundle whose query is charged is never cut by the launch cap (_outer_bundle_admission_reason
\* has asked for all three); by the ceiling of a category only beyond the queries it has room for
\* (CATEGORY_CEILINGS); and by counted time only if one of its seeds took longer than its p95;
\* unless an earlier command was killed in a follow-up.
THEOREM CutsAreExplained == Spec => []CutsExplained
<1>1. Init => CutsExplained
  BY DEF Init, CutsExplained
<1>2. TypeOK /\ IInv /\ RInv /\ LInv /\ CutsExplained /\ [Next]_vars => CutsExplained'
  BY CutsStep
<1> QED
  BY <1>1, <1>2, Inductive, Retained, Counted, PTL DEF Spec

\* A command that takes up the work of another comes to the same verdict on every candidate, unless
\* a call falters: it judges the first one against the fallback, by durable scores and by limits
\* that do not change, and takes up no other one that has a verdict (LINEAGE_READY retains only
\* the first lineage).
THEOREM VerdictsRepeat == Spec => SameVerdict
<1>1. ASSUME TypeOK, IInv, RInv, LInv, VInv, [Next]_vars
      PROVE  [\A c \in Candidates : verdict[c] # "none" => verdict'[c] = verdict[c] \/ faults > 0]_vars
  <2> SUFFICES ASSUME NEW c \in Candidates, verdict[c] # "none", faults = 0
               PROVE  verdict'[c] = verdict[c]
    BY <1>1, FaultsGrow
  <2>1. CASE c = First
    BY <1>1, <2>1, FirstSame DEF LInv
  <2>2. CASE c # First
    <3>1. Writes /\ c \in Nat
      BY <1>1, StepShape
    <3>2. CASE verdict'[c] # verdict[c]
      <4>1. c = job.iter /\ phase \in {"admit", "call", "judge", "settle"}
        BY <3>1, <3>2 DEF Writes
      <4>2. job.iter > First
        BY <2>2, <3>1, <4>1
      <4> QED
        BY <1>1, <4>1, <4>2 DEF RInv, NewAt, Active
    <3> QED
      BY <3>2
  <2> QED
    BY <2>1, <2>2
<1> QED
  BY <1>1, Inductive, Retained, Counted, JudgedAlike, PTL DEF Spec, SameVerdict

\* A command whose launches were all charged reconciles its count with the campaign database
\* (Close and End compare them), unless an earlier one was killed in a follow-up; and the ledgers
\* contradict what it settles only after a call has faltered.
THEOREM ResumeIsReconciled == Spec => []ResumeReconciles
<1>1. Init => Reconcilable
  <2> SUFFICES ASSUME Init PROVE Reconcilable
    OBVIOUS
  <2>1. raised = {}
    BY DEF Init
  <2> QED
    BY <2>1, Zenon DEF Reconcilable
<1>2. TypeOK /\ IInv /\ RInv /\ LInv /\ Reconcilable /\ [Next]_vars => Reconcilable'
  BY ReconcilableStep
<1>3. VInv /\ Reconcilable => ResumeReconciles
  BY DEF VInv, ContradictionAt, Reconcilable, ResumeReconciles
<1> QED
  BY <1>1, <1>2, <1>3, Inductive, Retained, Counted, JudgedAlike, PTL DEF Spec

-----------------------------------------------------------------------------
\* No command, however it was resumed, charges more public queries than outer_promotion_limit.
THEOREM QueryLimitHolds == Spec => [](Cardinality(Queried) <= MaxQueries)
<1>1. RInv => Cardinality(Queried) <= MaxQueries
  BY DEF RInv, QueriesAt
<1> QED
  BY <1>1, Retained, PTL

\* No candidate is both decided and failed.
Settled == \A c \in Candidates : query[c] = "published" => failure[c] = 0

\* A bundle is settled once: what is decided never fails, and what has failed is never decided
\* (decide and complete contradict each other).
THEOREM SettledOnce == Spec => []Settled
<1>1. Init => Settled
  BY DEF Init, Settled
<1>2. TypeOK /\ IInv /\ Settled /\ [Next]_vars => Settled'
  <2> SUFFICES ASSUME TypeOK, IInv, Settled, [Next]_vars, NEW c \in Candidates, query'[c] = "published"
               PROVE  failure'[c] = 0
    BY Zenon DEF Settled
  <2>1. CASE SettleDecided
    <3>1. UNCHANGED failure /\ (c # job.iter \/ failure[c] # 0 => query'[c] = query[c])
      BY <2>1, SettleDecidedFacts DEF Over, Fresh
    <3> QED
      BY <3>1 DEF Settled
  <2>2. CASE SettleFailed
    <3>1. UNCHANGED query /\ (query[c] = "published" => failure'[c] = failure[c])
      BY <2>2, SettleFailedFacts DEF Over, Fresh
    <3> QED
      BY <3>1 DEF Settled
  <2>3. CASE ReserveQuery
    <3>1. UNCHANGED failure /\ (query'[c] = "published" => query[c] = "published")
      BY <2>3, ReserveFacts
    <3> QED
      BY <3>1 DEF Settled
  <2>4. CASE ~SettleDecided /\ ~SettleFailed /\ ~ReserveQuery
    <3>1. UNCHANGED <<query, failure>>
      <4>1. CASE Evaluate \/ UNCHANGED vars
        BY <4>1, EvaluateFacts DEF vars, durable
      <4> QED
        BY <2>4, <4>1, OthersKeepLedgers
    <3> QED
      BY <3>1 DEF Settled
  <2> QED
    BY <2>1, <2>2, <2>3, <2>4
<1> QED
  BY <1>1, <1>2, Inductive, PTL DEF Spec

\* What a step may not do to the rows of the ledgers: take one back or write another in its place.
Final ==
  /\ charged \subseteq charged'
  /\ \A c \in Candidates, r \in Rungs :
       /\ exec[c][r] = "failed" => exec'[c][r] = "failed"
       /\ exec[c][r] # "none" => exec'[c][r] # "none"
       /\ record[c][r] # 0 => record'[c][r] = record[c][r]
  /\ \A c \in Candidates :
       /\ query[c] = "published" => query'[c] = "published"
       /\ query[c] # "none" => query'[c] # "none"
       /\ failure[c] # 0 => failure'[c] = failure[c]

\* Nothing that is durable is taken back: neither a charge nor an execution, a score, a decision, a
\* failure or the place where it was (the ledgers only insert, or find what they would insert).
THEOREM LedgersAreFinal == Spec => [][Final]_vars
<1>1. ASSUME TypeOK, IInv, [Next]_vars PROVE Final
  <2>1. Writes /\ charged \subseteq Candidates \X Rungs
    <3>1. charged \subseteq Candidates \X Rungs
      BY <1>1 DEF TypeOK
    <3> QED
      BY <1>1, <3>1, StepShape
  <2>2. charged \subseteq charged'
    BY <2>1 DEF Writes
  <2>3. ASSUME NEW c \in Candidates, NEW r \in Rungs, exec[c][r] = "failed"
        PROVE  exec'[c][r] = "failed"
    <3>1. CASE Train \/ Evaluate
      BY <1>1, <2>3, <3>1, TrainFacts, EvaluateFacts
    <3>2. CASE ~Train /\ ~Evaluate
      BY <1>1, <2>3, <3>2, OthersKeepRuns
    <3> QED
      BY <3>1, <3>2
  <2>4. ASSUME NEW c \in Candidates, failure[c] # 0 PROVE failure'[c] = failure[c]
    <3>1. CASE SettleFailed
      <4>1. failure[job.iter] \in {0, job.rung - 1} => failure'[job.iter] = job.rung - 1 \/ Over
        BY <1>1, <3>1, SettleFailedFacts
      <4>2. Over => failure' = failure
        BY DEF Over, Fresh
      <4> QED
        BY <1>1, <2>4, <3>1, <4>2, SettleFailedFacts
    <3>2. CASE ~SettleFailed
      <4>1. CASE SettleDecided \/ ReserveQuery \/ Evaluate \/ UNCHANGED vars
        BY <1>1, <4>1, SettleDecidedFacts, ReserveFacts, EvaluateFacts DEF vars, durable
      <4> QED
        BY <1>1, <3>2, <4>1, OthersKeepLedgers
    <3> QED
      BY <3>1, <3>2
  <2>5. ASSUME NEW c \in Candidates, NEW r \in Rungs
        PROVE  /\ exec[c][r] # "none" => exec'[c][r] # "none"
               /\ record[c][r] # 0 => record'[c][r] = record[c][r]
    BY <2>1 DEF Writes
  <2>6. ASSUME NEW c \in Candidates
        PROVE  /\ query[c] = "published" => query'[c] = "published"
               /\ query[c] # "none" => query'[c] # "none"
    BY <2>1 DEF Writes
  <2> QED
    BY Zenon, <2>2, <2>3, <2>4, <2>5, <2>6 DEF Final
<1>2. ASSUME TypeOK, IInv, [Next]_vars PROVE [Final]_vars
  BY <1>1, <1>2
<1> QED
  BY <1>2, Inductive, PTL DEF Spec

=============================================================================
