------------------------- MODULE FinalizationProofs -------------------------
(***************************************************************************)
(* For any number of faults, deaths and signals: the types, that a         *)
(* published bundle explains itself, and that a retry returns its receipt. *)
(*                                                                         *)
(* A bundle is put together by several attempts: one writes the ledgers,   *)
(* another publishes, a third one writes the receipt.  What makes the      *)
(* parts agree is what each attempt knows at each phase: that the ledgers  *)
(* it goes on with are the rows it would write, that the candidate it      *)
(* walks back from left a failure behind, and that no training starts once *)
(* a bundle is there.                                                      *)
(***************************************************************************)
EXTENDS Finalization, TLAPS

-----------------------------------------------------------------------------
(* What an attempt has in hand.                                            *)

Walks == {<<>>, <<"fallback">>, <<"generated", "fallback">>}

\* There are five gates.
LEMMA GateCount == Len(Gates) = 5
BY DEF Gates

\* What is left of a walk.
LEMMA Lineage ==
  /\ Head(<<"generated", "fallback">>) = "generated" /\ Tail(<<"generated", "fallback">>) = <<"fallback">>
  /\ Head(<<"fallback">>) = "fallback" /\ Tail(<<"fallback">>) = <<>>
  /\ <<"fallback">> # <<>> /\ <<"generated", "fallback">> # <<>>
  /\ <<"generated", "fallback">> # <<"fallback">>
OBVIOUS

\* An attempt starts with the official fallback and nothing to report.
LEMMA NoJobTyped == NoJob \in Job
BY GateCount DEF NoJob, Job

\* A hand of which some fields change.
LEMMA JobRecovered ==
  ASSUME NEW j \in Job, NEW b \in BOOLEAN
  PROVE  [j EXCEPT !.recovered = b] \in Job
BY DEF Job

LEMMA JobSignalled ==
  ASSUME NEW j \in Job
  PROVE  [j EXCEPT !.signalled = TRUE] \in Job
BY DEF Job

LEMMA JobReason ==
  ASSUME NEW j \in Job, NEW r \in Reasons
  PROVE  [j EXCEPT !.reason = r] \in Job
BY DEF Job

LEMMA JobWalk ==
  ASSUME NEW j \in Job
  PROVE  [j EXCEPT !.walk = <<"generated", "fallback">>] \in Job
BY DEF Job

LEMMA JobGate ==
  ASSUME NEW j \in Job, j.gate # Len(Gates)
  PROVE  [j EXCEPT !.gate = @ + 1] \in Job
<1>1. j.gate \in 1 .. 5 /\ j.gate + 1 \in 1 .. Len(Gates)
  BY GateCount DEF Job
<1> QED
  BY <1>1 DEF Job

LEMMA JobBack ==
  ASSUME NEW j \in Job, NEW w \in Walks, NEW g \in SUBSET Failures
  PROVE  [j EXCEPT !.walk = w, !.gate = 1, !.failures = g] \in Job
<1>1. 1 \in 1 .. Len(Gates)
  BY GateCount
<1> QED
  BY <1>1 DEF Job, Walks

\* Walking back drops the candidate that failed, and says which gate it failed.
LEMMA BackFacts ==
  ASSUME job \in Job, job.walk # <<>>, WalkBack
  PROVE  /\ job' \in Job
         /\ job'.walk = Tail(job.walk)
         /\ job'.failures = job.failures \cup {[candidate |-> Head(job.walk), gate |-> job.gate]}
         /\ job'.reason = job.reason /\ job'.recovered = job.recovered
         /\ phase' = IF job.walk = <<"fallback">> THEN "failed" ELSE "walk"
         /\ \/ job.walk = <<"fallback">> /\ job'.walk = <<>>
            \/ job.walk = <<"generated", "fallback">> /\ job'.walk = <<"fallback">>
<1> DEFINE f == [candidate |-> Head(job.walk), gate |-> job.gate]
           g == job.failures \cup {f}
<1>1. job.walk \in {<<"fallback">>, <<"generated", "fallback">>}
  BY DEF Job
<1>2. Head(job.walk) \in Selections /\ Tail(job.walk) \in Walks
  BY <1>1, Lineage DEF Selections, Walks
<1>3. f \in Failures
  BY <1>2 DEF Failures, Job
<1>4. g \in SUBSET Failures
  BY <1>3 DEF Job
<1>5. job' = [job EXCEPT !.walk = Tail(job.walk), !.gate = 1, !.failures = g]
  BY DEF WalkBack
<1> DEFINE w == Tail(job.walk)
<1> HIDE DEF f, g, w
<1>6. job' \in Job
  <2>1. w \in Walks /\ job' = [job EXCEPT !.walk = w, !.gate = 1, !.failures = g]
    BY <1>2, <1>5 DEF w
  <2>2. [job EXCEPT !.walk = w, !.gate = 1, !.failures = g] \in Job
    BY <1>4, <2>1, JobBack, Zenon
  <2> QED
    BY <2>1, <2>2
<1>7. /\ job'.walk = Tail(job.walk) /\ job'.failures = g
      /\ job'.reason = job.reason /\ job'.recovered = job.recovered
  BY <1>5 DEF Job
<1>8. /\ phase' = IF job.walk = <<"fallback">> THEN "failed" ELSE "walk"
      /\ \/ job.walk = <<"fallback">> /\ job'.walk = <<>>
         \/ job.walk = <<"generated", "fallback">> /\ job'.walk = <<"fallback">>
  <2>1. Tail(job.walk) = <<>> <=> job.walk = <<"fallback">>
    BY <1>1, Lineage
  <2>2. phase' = IF Tail(job.walk) = <<>> THEN "failed" ELSE "walk"
    BY DEF WalkBack, Goto
  <2> QED
    BY <1>1, <1>7, <2>1, <2>2, Lineage
<1> QED
  BY <1>6, <1>7, <1>8 DEF f, g

-----------------------------------------------------------------------------
(* What an attempt knows at each phase.                                    *)

\* From the publication to the receipt.
Completing == {"verify", "clean", "close", "finish", "incumbent", "complete", "receipt", "fill"}

\* From the final training to the walk, before anything is published.
Preparing == {"spawn", "run", "build", "fallback", "jsonl", "fill_jsonl", "csv", "rename_csv",
              "open", "rename"}

\* There is a bundle where one is completed, and none where one is prepared.
BundleAt ==
  /\ phase \in Completing \/ job.recovered => bundle # None
  /\ phase \in Preparing => bundle = None
  /\ phase = "train" /\ bundle # None => job.recovered /\ bundle.selected = "generated"
  /\ Receipted => bundle # None

\* The final training is in progress only where an attempt waits for it or died waiting; a
\* candidate is rebuilt once it is exact.
TrainingAt ==
  /\ training = "starting" => phase \in {"spawn", "down"}
  /\ training = "running" => phase \in {"run", "down"}
  /\ phase = "build" => training = "exact"
  /\ phase \in {"train", "spawn", "run", "build"} => job.recovered \/ wanted = "generated"

\* The walk ends only in a failure.
WalkAt == job.walk = <<>> => phase = "failed"

\* An attempt that has not begun to give up, or that found a bundle, has nothing to report.
Fresh == job.reason = None /\ job.failures = {}
FreshAt ==
  /\ phase \in {"load", "train", "spawn", "run", "build"} => Fresh /\ job.walk = <<"fallback">>
  /\ job.recovered =>
       Fresh /\ job.walk = <<"fallback">> /\ phase \notin {"walk", "rename", "verify"}

\* The walk begins with the generated candidate only if that one was trained, and with the
\* fallback in its place only if the attempt can say why.
ReasonAt ==
  phase \in {"fallback", "jsonl", "fill_jsonl", "csv", "rename_csv", "open", "walk", "rename"} =>
    /\ job.walk = <<"generated", "fallback">> =>
         wanted = "generated" /\ training = "exact" /\ Fresh
    /\ job.walk = <<"fallback">> /\ wanted = "generated" =>
         job.reason # None \/ \E f \in job.failures : f.candidate = "generated"

\* What is walked is what the ledgers were written for.
RowsAt ==
  /\ phase \in {"csv", "rename_csv", "open"} => jsonl = Rows
  /\ phase = "open" => csv = Rows
  /\ phase \in {"walk", "rename"} /\ bundle = None => jsonl = Rows /\ csv = Rows

\* What is being completed is what this attempt made, unless it found it.
MadeAt ==
  phase \in Completing /\ ~job.recovered =>
    job.reason = bundle.reason /\ job.failures = bundle.failures

BundleExplained ==
  bundle # None =>
    /\ bundle.ledger = jsonl /\ bundle.ledger = csv
    /\ bundle.ledger = [training |-> training, reason |-> bundle.reason]
    /\ training \notin {"starting", "running"}
    /\ bundle.selected = "generated" =>
         wanted = "generated" /\ training = "exact" /\ bundle.failures = {} /\ bundle.reason = None
    /\ bundle.selected = "fallback" /\ wanted = "generated" =>
         bundle.reason # None \/ \E f \in bundle.failures : f.candidate = "generated"

ReceiptExplained ==
  Receipted /\ receipt.mode # "recovered" =>
    receipt.reason = bundle.reason /\ receipt.failures = bundle.failures

IInv ==
  /\ BundleAt /\ TrainingAt /\ WalkAt /\ FreshAt /\ ReasonAt /\ RowsAt /\ MadeAt
  /\ BundleExplained /\ ReceiptExplained

\* What may change hands at a step that leaves the files and the training alone.
Still == UNCHANGED <<wanted, training, ledger, bundle, receipt>>

At == BundleAt /\ TrainingAt /\ WalkAt /\ FreshAt /\ ReasonAt /\ RowsAt /\ MadeAt

\* Such a step only has to place the attempt.
LEMMA StillStep ==
  ASSUME TypeOK, IInv, Still, At'
  PROVE  IInv'
BY DEF Still, At, IInv, BundleExplained, ReceiptExplained, Receipted, ledger

\* The steps that only move on, fail or end.
LEMMA PlainStep ==
  ASSUME TypeOK, IInv,
         \/ Failed \/ BuildFallback \/ OpenWalk \/ CancelGate \/ Clean \/ Finish \/ Incumbent
         \/ Complete \/ Signal \/ Die \/ DieStoring \/ Tick
  PROVE  At' /\ Still
<1> USE DEF At, IInv, Goto, Fail, Completing, Preparing, Receipted, Bounds, BundleAt, TrainingAt,
            WalkAt, FreshAt, Fresh, ReasonAt, RowsAt, Rows, MadeAt, NoJob, Job, Still, store, ledger
<1>0. job \in Job /\ phase \in Phases
  BY DEF TypeOK
<1>1. CASE Failed
  BY <1>0, <1>1 DEF Failed
<1>2. CASE BuildFallback
  BY <1>0, <1>2 DEF BuildFallback
<1>3. CASE OpenWalk
  BY <1>0, <1>3 DEF OpenWalk
<1>4. CASE CancelGate
  BY <1>0, <1>4 DEF CancelGate
<1>5. CASE Clean
  BY <1>0, <1>5 DEF Clean
<1>6. CASE Finish
  BY <1>0, <1>6 DEF Finish
<1>7. CASE Incumbent
  BY <1>0, <1>7 DEF Incumbent
<1>8. CASE Complete
  BY <1>0, <1>8 DEF Complete
<1>9. CASE Signal
  BY <1>0, <1>9 DEF Signal
<1>10. CASE Die
  BY <1>0, <1>10 DEF Die
<1>11. CASE Tick
  BY <1>0, <1>11 DEF Tick
<1>12. CASE DieStoring
  BY <1>0, <1>12 DEF DieStoring
<1> QED
  BY <1>1, <1>2, <1>3, <1>4, <1>5, <1>6, <1>7, <1>8, <1>9, <1>10, <1>11, <1>12

\* What an attempt finds when it begins.
LEMMA LoadStep == ASSUME TypeOK, IInv, Load PROVE At' /\ Still
<1> USE DEF At, IInv, Load, Goto, Fail, Completing, Preparing, Receipted, Bounds, Still, ledger
<1>0. job \in Job /\ phase = "load"
  BY DEF TypeOK
<1>1. /\ training' = training /\ bundle' = bundle /\ receipt' = receipt
      /\ job'.walk = job.walk /\ job'.reason = job.reason /\ job'.failures = job.failures
      /\ phase' \in {"returned", "failed"} \/ (phase' = "close" /\ bundle # None)
           \/ (phase' = "train" /\ bundle = None) \/ (phase' = "fallback" /\ bundle = None /\ wanted = "fallback")
      /\ phase' \in {"returned", "failed"} => job' = job
      /\ phase' \notin {"returned", "failed"} => job'.recovered = (bundle # None)
  BY <1>0 DEF Found, Job
<1>2. BundleAt' /\ TrainingAt'
  BY <1>0, <1>1 DEF BundleAt, TrainingAt
<1>3. WalkAt' /\ FreshAt' /\ ReasonAt'
  BY <1>0, <1>1, Lineage DEF WalkAt, FreshAt, Fresh, ReasonAt
<1>4. RowsAt' /\ MadeAt' /\ Still
  BY <1>0, <1>1 DEF RowsAt, MadeAt
<1> QED
  BY <1>2, <1>3, <1>4

\* The generated candidate comes before the fallback, or its failure comes with it.
LEMMA BuildStep == ASSUME TypeOK, IInv, Build PROVE At' /\ Still
<1> USE DEF At, IInv, Goto, Fail, Completing, Preparing, Receipted, Bounds, Still, ledger
<1>0. job \in Job /\ phase = "build" /\ bundle = None /\ Fresh /\ job.walk = <<"fallback">> /\ ~job.recovered
  BY DEF TypeOK, Build, BundleAt, FreshAt, Job
<1>1. Still
  BY DEF Build, store
<1>2. \/ phase' = "failed" /\ job' = job
      \/ phase' = "fallback" /\ job' = [job EXCEPT !.walk = <<"generated", "fallback">>]
      \/ \E r \in Reasons : phase' = "fallback" /\ job' = [job EXCEPT !.reason = r]
  BY DEF Build, GiveUp, Reasons
<1>3. wanted = "generated" /\ training = "exact"
  BY <1>0 DEF TrainingAt
<1> QED
  BY <1>0, <1>1, <1>2, <1>3, AbsentAssumption, Lineage DEF BundleAt, TrainingAt, WalkAt, FreshAt,
    Fresh, ReasonAt, RowsAt, MadeAt, Job, Reasons

\* A gate is passed, or the name is free.
LEMMA PassStep == ASSUME TypeOK, IInv, PassGate PROVE At' /\ Still
<1> USE DEF At, IInv, Goto, Completing, Preparing, Receipted, Bounds, Still, store, ledger
<1>0. job \in Job /\ phase = "walk"
  BY DEF TypeOK, PassGate
<1>1. /\ Still
      /\ job'.walk = job.walk /\ job'.reason = job.reason /\ job'.failures = job.failures
      /\ job'.recovered = job.recovered
      /\ phase' = "walk" \/ (phase' = "rename" /\ bundle = None)
  BY <1>0 DEF PassGate, Occupied, Job
<1> QED
  BY <1>0, <1>1 DEF BundleAt, TrainingAt, WalkAt, FreshAt, Fresh, ReasonAt, RowsAt, Rows, MadeAt

\* A candidate fails, during the walk, its publication or the reading of what was published.
LEMMA BackStep ==
  ASSUME TypeOK, IInv, phase \in {"walk", "rename", "verify"}, WalkBack, Still
  PROVE  At'
<1> USE DEF At, IInv, Completing, Preparing, Receipted, Still, ledger
<1>0. job \in Job /\ job.walk # <<>>
  BY DEF TypeOK
<1>1. /\ job'.failures = job.failures \cup {[candidate |-> Head(job.walk), gate |-> job.gate]}
      /\ job'.reason = job.reason /\ job'.recovered = job.recovered
      /\ phase' = IF job.walk = <<"fallback">> THEN "failed" ELSE "walk"
      /\ \/ job.walk = <<"fallback">> /\ job'.walk = <<>>
         \/ job.walk = <<"generated", "fallback">> /\ job'.walk = <<"fallback">>
  BY <1>0, BackFacts
<1>2. ~job.recovered
  BY DEF FreshAt
<1>3. BundleAt' /\ TrainingAt'
  BY <1>1, <1>2 DEF BundleAt, TrainingAt
<1>4. WalkAt' /\ FreshAt' /\ MadeAt'
  BY <1>1, <1>2, Lineage DEF WalkAt, FreshAt, MadeAt
<1>5. ReasonAt'
  <2>1. CASE phase' = "walk"
    <3>1. Head(job.walk) = "generated"
      BY <1>1, <2>1, Lineage
    <3>2. \E f \in job'.failures : f.candidate = "generated"
      <4> DEFINE g == [candidate |-> Head(job.walk), gate |-> job.gate]
      <4>1. g \in job'.failures
        BY <1>1
      <4>2. g.candidate = "generated"
        BY <3>1
      <4> QED
        BY <4>1, <4>2
    <3>3. job'.walk = <<"fallback">>
      BY <1>1, <2>1
    <3> QED
      BY <2>1, <3>2, <3>3, Lineage DEF ReasonAt
  <2> QED
    BY <1>1, <2>1 DEF ReasonAt
<1>6. RowsAt'
  BY <1>1 DEF RowsAt, Rows, BundleAt
<1> QED
  BY <1>3, <1>4, <1>5, <1>6

\* Before there is a bundle nothing has to be explained.
LEMMA NothingYet ==
  ASSUME bundle' = None, ~Receipted, receipt' = receipt
  PROVE  BundleExplained' /\ ReceiptExplained'
BY DEF BundleExplained, ReceiptExplained, Receipted

\* A campaign is resumed: an execution that was starting is interrupted.
LEMMA CommandStep == ASSUME TypeOK, IInv, Command PROVE IInv'
<1> USE DEF IInv, Goto, Completing, Preparing, Bounds, ledger
<1>0. job \in Job /\ phase \in {"down", "returned"} /\ training # "running"
  BY DEF TypeOK, Command, Idle
<1>1. /\ bundle' = bundle /\ receipt' = receipt /\ jsonl' = jsonl /\ csv' = csv /\ wanted' = wanted
      /\ training' \in {training, "failed"} /\ training' # "starting" /\ training' # "running"
      /\ training' = training \/ training = "starting"
      /\ \/ phase' = phase /\ job' = job
         \/ /\ phase' = "load" /\ job'.walk = <<"fallback">> /\ job'.reason = None
            /\ job'.failures = {} /\ ~job'.recovered
  BY <1>0 DEF Command, NoJob
<1>2. BundleAt' /\ TrainingAt'
  BY <1>0, <1>1 DEF BundleAt, TrainingAt, Receipted
<1>3. WalkAt' /\ FreshAt' /\ ReasonAt' /\ RowsAt' /\ MadeAt'
  BY <1>0, <1>1, Lineage DEF WalkAt, FreshAt, Fresh, ReasonAt, RowsAt, MadeAt
<1>4. BundleExplained' /\ ReceiptExplained'
  BY <1>0, <1>1 DEF BundleExplained, ReceiptExplained, Receipted
<1> QED
  BY <1>2, <1>3, <1>4

\* The attempt falls back, or fails.
LEMMA GiveUpHand ==
  ASSUME job \in Job, NEW r \in Reasons, GiveUp(r)
  PROVE  \/ phase' = "failed" /\ job' = job
         \/ /\ phase' = "fallback" /\ ~job.recovered /\ job'.reason # None
            /\ job'.walk = job.walk /\ job'.recovered = job.recovered
<1>1. r # None
  BY AbsentAssumption
<1> QED
  BY <1>1 DEF GiveUp, Fail, Goto, Job

\* The final training of an attempt that found no bundle changes only what is known of it.
LEMMA TrainingStep ==
  ASSUME TypeOK, IInv, phase \in {"train", "spawn", "run"}, bundle = None,
         UNCHANGED <<wanted, ledger, bundle, receipt>>,
         \/ phase' = "spawn" /\ training' = "starting" /\ job' = job
         \/ phase' = "run" /\ training' = "running" /\ job' = job
         \/ phase' = "build" /\ training' = "exact" /\ job' = job
         \/ phase' = "failed" /\ training' \notin {"starting", "running"} /\ job' = job
         \/ /\ phase' = "fallback" /\ training' \notin {"starting", "running"}
            /\ job'.reason # None /\ job'.walk = job.walk /\ ~job'.recovered
  PROVE  IInv'
<1> USE DEF IInv, Completing, Preparing, ledger
<1>0. ~job.recovered /\ Fresh /\ job.walk = <<"fallback">> /\ wanted = "generated" /\ ~Receipted
  BY DEF BundleAt, FreshAt, TrainingAt
<1>1. BundleAt' /\ TrainingAt'
  BY <1>0 DEF BundleAt, TrainingAt, Receipted
<1>2. WalkAt' /\ FreshAt' /\ ReasonAt' /\ RowsAt' /\ MadeAt'
  BY <1>0, Lineage DEF WalkAt, FreshAt, Fresh, ReasonAt, RowsAt, MadeAt
<1>3. BundleExplained' /\ ReceiptExplained'
  BY <1>0, NothingYet
<1> QED
  BY <1>1, <1>2, <1>3

LEMMA TrainStep == ASSUME TypeOK, IInv, Train PROVE IInv'
<1> USE DEF ledger
<1>0. /\ phase = "train" /\ job \in Job /\ Reasons = {"refused", "error", "retained", "bytes", "candidate", "object"}
      /\ UNCHANGED <<wanted, ledger, bundle, receipt>>
  BY DEF Train, TypeOK, Bounds, Reasons
<1>1. CASE bundle = None
  <2>0. ~job.recovered /\ training \notin {"starting", "running"}
    BY <1>0, <1>1 DEF IInv, BundleAt, TrainingAt
  <2>1. CASE \E r \in Reasons : GiveUp(r) /\ UNCHANGED training
    <3>1. PICK r \in Reasons : GiveUp(r) /\ UNCHANGED training
      BY <2>1
    <3>2. \/ phase' = "failed" /\ job' = job
          \/ /\ phase' = "fallback" /\ ~job.recovered /\ job'.reason # None
             /\ job'.walk = job.walk /\ job'.recovered = job.recovered
      BY <1>0, <3>1, GiveUpHand
    <3> QED
      BY <1>0, <1>1, <2>0, <3>1, <3>2, TrainingStep
  <2>2. CASE phase' = "failed" /\ job' = job /\ training' = training
    BY <1>0, <1>1, <2>0, <2>2, TrainingStep
  <2>3. CASE phase' = "spawn" /\ training' = "starting" /\ job' = job
    BY <1>0, <1>1, <2>3, TrainingStep
  <2>4. CASE phase' = "build" /\ training' = "exact" /\ job' = job
    BY <1>0, <1>1, <2>4, TrainingStep
  <2> QED
    BY <1>0, <2>0, <2>1, <2>2, <2>3, <2>4 DEF Train, Fail, Goto, Trained
<1>2. CASE bundle # None
  <2>1. job.recovered /\ training = "exact"
    BY <1>0, <1>2 DEF IInv, BundleAt, BundleExplained
  <2>2. phase' \in {"failed", "finish"} /\ job' = job /\ Still
    BY <1>0, <2>1 DEF Train, Fail, Goto, Trained, Still
  <2>3. At'
    BY <1>0, <1>2, <2>1, <2>2 DEF IInv, At, BundleAt, TrainingAt, WalkAt, FreshAt, Fresh, ReasonAt,
      RowsAt, MadeAt, Completing, Preparing, Receipted, Still
  <2> QED
    BY <2>2, <2>3, StillStep
<1> QED
  BY <1>1, <1>2

LEMMA SpawnStep == ASSUME TypeOK, IInv, Spawn \/ EndTraining PROVE IInv'
<1>0. /\ phase \in {"spawn", "run"} /\ job \in Job /\ bundle = None /\ ~job.recovered
      /\ Reasons = {"refused", "error", "retained", "bytes", "candidate", "object"}
      /\ UNCHANGED <<wanted, ledger, bundle, receipt>>
  BY DEF Spawn, EndTraining, TypeOK, Bounds, Reasons, IInv, BundleAt, Preparing, Job
<1>1. CASE \E r \in Reasons : GiveUp(r) /\ training' \in {"failed", "different"}
  <2>1. PICK r \in Reasons : GiveUp(r) /\ training' \in {"failed", "different"}
    BY <1>1
  <2>2. \/ phase' = "failed" /\ job' = job
        \/ /\ phase' = "fallback" /\ ~job.recovered /\ job'.reason # None
           /\ job'.walk = job.walk /\ job'.recovered = job.recovered
    BY <1>0, <2>1, GiveUpHand
  <2> QED
    BY <1>0, <2>1, <2>2, TrainingStep
<1>2. CASE phase' = "run" /\ training' = "running" /\ job' = job
  BY <1>0, <1>2, TrainingStep
<1>3. CASE phase' = "build" /\ training' = "exact" /\ job' = job
  BY <1>0, <1>3, TrainingStep
<1> QED
  BY <1>0, <1>1, <1>2, <1>3 DEF Spawn, EndTraining, Goto, Trained

\* The ledgers are written, or found to hold what would be written, before there is a bundle.
LEMMA LedgerStep ==
  ASSUME TypeOK, IInv, WriteJsonl \/ FillJsonl \/ WriteCsv \/ RenameCsv
  PROVE  IInv'
<1> USE DEF IInv, Goto, Fail, Completing, Preparing, Bounds, store
<1>0. /\ phase \in {"jsonl", "fill_jsonl", "csv", "rename_csv"} /\ job \in Job
      /\ job' = job /\ UNCHANGED <<wanted, training, bundle, receipt>>
      /\ bundle = None /\ ~Receipted
      /\ phase' \in {"fill_jsonl", "csv", "rename_csv", "open", "failed"}
  BY DEF TypeOK, WriteJsonl, FillJsonl, WriteCsv, RenameCsv, BundleAt
<1>1. BundleAt' /\ TrainingAt'
  BY <1>0 DEF BundleAt, TrainingAt, Receipted
<1>2. WalkAt' /\ FreshAt' /\ MadeAt'
  BY <1>0 DEF WalkAt, FreshAt, Fresh, MadeAt
<1>3. ReasonAt'
  BY <1>0 DEF ReasonAt, Fresh
<1>4. RowsAt'
  BY <1>0 DEF RowsAt, Rows, WriteJsonl, FillJsonl, WriteCsv, RenameCsv
<1>5. BundleExplained' /\ ReceiptExplained'
  BY <1>0, NothingYet
<1> QED
  BY <1>1, <1>2, <1>3, <1>4, <1>5

\* The bundle that appears tells what the attempt knows.
LEMMA PublishStep ==
  ASSUME TypeOK, IInv, Rename, bundle = None
  PROVE  IInv'
<1> USE DEF IInv, Goto, Completing, Preparing, Bounds, store, ledger
<1> DEFINE b == [selected |-> Head(job.walk), reason |-> job.reason, failures |-> job.failures,
                 ledger |-> jsonl, closed |-> FALSE]
<1>0. /\ phase = "rename" /\ job \in Job /\ ~job.recovered /\ ~Receipted
      /\ bundle' = b /\ phase' = "verify" /\ job' = job
      /\ UNCHANGED <<wanted, training, jsonl, csv, receipt>>
      /\ jsonl = Rows /\ csv = Rows
  BY DEF TypeOK, Rename, BundleAt, RowsAt, FreshAt
<1>1. training \notin {"starting", "running"}
  BY <1>0 DEF TrainingAt
<1>2. \/ job.walk = <<"fallback">>
      \/ job.walk = <<"generated", "fallback">>
  BY <1>0 DEF TypeOK, Job
<1>3. b # None
  <2>1. Head(job.walk) \in Selections
    BY <1>2, Lineage DEF Selections
  <2>2. training \in {"none", "failed", "exact", "different"}
    BY <1>1 DEF TypeOK
  <2>3. jsonl \in Ledgers
    BY <1>0, <2>2 DEF Rows, Ledgers, Job
  <2>4. b \in Bundles
    BY <1>0, <2>1, <2>3 DEF Bundles, Job
  <2> QED
    BY <2>4, AbsentAssumption
<1>4. /\ b.selected = Head(job.walk) /\ b.reason = job.reason /\ b.failures = job.failures
      /\ b.ledger = jsonl
  OBVIOUS
<1> HIDE DEF b
<1>5. BundleAt' /\ TrainingAt'
  BY <1>0, <1>1, <1>3 DEF BundleAt, TrainingAt, Receipted
<1>6. WalkAt' /\ FreshAt' /\ ReasonAt' /\ RowsAt'
  BY <1>0, <1>2, Lineage DEF WalkAt, FreshAt, ReasonAt, RowsAt, Fresh
<1>7. MadeAt'
  BY <1>0, <1>4 DEF MadeAt
<1>8. BundleExplained'
  <2>1. b.selected = "generated" =>
          wanted = "generated" /\ training = "exact" /\ b.failures = {} /\ b.reason = None
    BY <1>0, <1>2, <1>4, Lineage DEF ReasonAt, Fresh
  <2>2. b.selected = "fallback" /\ wanted = "generated" =>
          b.reason # None \/ \E f \in b.failures : f.candidate = "generated"
    BY <1>0, <1>2, <1>4, Lineage DEF ReasonAt
  <2>3. b.ledger = [training |-> training, reason |-> b.reason]
    BY <1>0, <1>4 DEF Rows
  <2> QED
    BY <1>0, <1>1, <1>4, <2>1, <2>2, <2>3 DEF BundleExplained
<1>9. ReceiptExplained'
  BY <1>0 DEF ReceiptExplained, Receipted
<1> QED
  BY <1>5, <1>6, <1>7, <1>8, <1>9

\* Closing the directories changes nothing that is said.
LEMMA CloseStep == ASSUME TypeOK, IInv, Close PROVE IInv'
<1> USE DEF IInv, Goto, Completing, Preparing, Bounds, store, ledger
<1>0. /\ phase = "close" /\ job \in Job /\ bundle \in Bundles /\ bundle # None
      /\ job' = job /\ UNCHANGED <<wanted, training, jsonl, csv, receipt>>
      /\ phase' = IF job.recovered /\ bundle.selected = "generated" THEN "train" ELSE "finish"
  BY DEF TypeOK, Close, BundleAt
<1>1. /\ bundle' \in Bundles /\ bundle' # None
      /\ bundle'.selected = bundle.selected /\ bundle'.reason = bundle.reason
      /\ bundle'.failures = bundle.failures /\ bundle'.ledger = bundle.ledger
  <2>1. bundle' = [bundle EXCEPT !.closed = TRUE]
    BY DEF Close
  <2>2. bundle' \in Bundles
    BY <1>0, <2>1 DEF Bundles
  <2> QED
    BY <1>0, <2>1, <2>2, AbsentAssumption DEF Bundles
<1>2. BundleAt' /\ TrainingAt'
  BY <1>0, <1>1 DEF BundleAt, TrainingAt, Receipted
<1>3. WalkAt' /\ FreshAt' /\ ReasonAt' /\ RowsAt'
  <2>1. phase' = "train" => job.recovered /\ Fresh /\ job.walk = <<"fallback">>
    BY <1>0 DEF FreshAt
  <2> QED
    BY <1>0, <2>1 DEF WalkAt, FreshAt, ReasonAt, RowsAt, Fresh
<1>4. MadeAt'
  BY <1>0, <1>1 DEF MadeAt
<1>5. BundleExplained' /\ ReceiptExplained'
  BY <1>0, <1>1 DEF BundleExplained, ReceiptExplained, Receipted
<1> QED
  BY <1>2, <1>3, <1>4, <1>5

\* The receipt appears, and repeats what the bundle says unless the bundle was found.
LEMMA ReceiptStep == ASSUME TypeOK, IInv, CreateReceipt \/ FillReceipt PROVE IInv'
<1> USE DEF IInv, Goto, Fail, Completing, Preparing, Bounds, store, ledger
<1>0. /\ phase \in {"receipt", "fill"} /\ job \in Job /\ bundle # None /\ job' = job
      /\ UNCHANGED <<wanted, training, jsonl, csv, bundle>>
      /\ phase' \in {"fill", "failed", "returned"}
  BY DEF TypeOK, CreateReceipt, FillReceipt, BundleAt
<1>1. BundleAt' /\ TrainingAt'
  BY <1>0 DEF BundleAt, TrainingAt
<1>2. WalkAt' /\ FreshAt' /\ ReasonAt' /\ RowsAt' /\ MadeAt'
  BY <1>0 DEF WalkAt, FreshAt, Fresh, ReasonAt, RowsAt, MadeAt
<1>3. BundleExplained'
  BY <1>0 DEF BundleExplained
<1>4. ReceiptExplained'
  <2>1. CASE CreateReceipt
    BY <1>0, <2>1 DEF CreateReceipt, ReceiptExplained, Receipted
  <2>2. CASE FillReceipt
    <3>1. /\ receipt'.reason = job.reason /\ receipt'.failures = job.failures
          /\ receipt'.mode = Mode /\ phase = "fill"
      BY <2>2 DEF FillReceipt
    <3>2. CASE ~job.recovered
      BY <1>0, <3>1, <3>2 DEF MadeAt, ReceiptExplained
    <3>3. CASE job.recovered
      <4>1. bundle.selected \in Selections
        BY <1>0 DEF TypeOK, Bundles
      <4>2. CASE bundle.selected = "fallback"
        <5>1. Mode = "recovered"
          BY <3>3, <4>2 DEF Mode
        <5> QED
          BY <3>1, <5>1 DEF ReceiptExplained
      <4>3. CASE bundle.selected = "generated"
        BY <1>0, <3>1, <3>3, <4>3 DEF BundleExplained, ReceiptExplained, FreshAt, Fresh
      <4> QED
        BY <4>1, <4>2, <4>3 DEF Selections
    <3> QED
      BY <1>0, <3>2, <3>3 DEF Job
  <2> QED
    BY <2>1, <2>2
<1> QED
  BY <1>1, <1>2, <1>3, <1>4

\* An exception takes back the file that was being filled.
LEMMA RaiseStep == ASSUME TypeOK, IInv, Raise PROVE IInv'
<1> USE DEF IInv, Goto, Fail, Completing, Preparing, store
<1>0. /\ phase \in Phases \ {"down", "returned", "failed", "spawn", "run", "build"}
      /\ job' = job /\ phase' = "failed"
      /\ UNCHANGED <<wanted, training, csv, bundle>>
      /\ receipt' = receipt \/ receipt' = None
      /\ jsonl' = jsonl \/ bundle = None
  BY DEF TypeOK, Raise, Idle, BundleAt
<1>1. Receipted' => Receipted /\ receipt' = receipt
  BY <1>0 DEF Receipted
<1>2. BundleAt' /\ TrainingAt'
  BY <1>0, <1>1 DEF BundleAt, TrainingAt
<1>3. WalkAt' /\ FreshAt' /\ ReasonAt' /\ RowsAt' /\ MadeAt'
  BY <1>0 DEF WalkAt, FreshAt, Fresh, ReasonAt, RowsAt, MadeAt
<1>4. BundleExplained'
  BY <1>0 DEF BundleExplained
<1>5. ReceiptExplained'
  BY <1>0, <1>1 DEF ReceiptExplained
<1> QED
  BY <1>2, <1>3, <1>4, <1>5

\* A file of the controller is left behind, by an attempt or by the resume of the next one.
LEMMA TearStep == ASSUME TypeOK, IInv, Tear PROVE IInv'
<1> USE DEF IInv, Completing, Preparing, ledger
<1>0. /\ job \in Job
      /\ UNCHANGED <<wanted, ledger, bundle, receipt>>
      /\ training' = training \/ (training = "starting" /\ training' = "failed" /\ phase \in {"down", "returned"})
      /\ \/ /\ phase' = "down" /\ job'.walk = <<"fallback">> /\ job'.reason = None
            /\ job'.failures = {} /\ ~job'.recovered
         \/ phase' = "failed" /\ job' = job /\ phase \in {"train", "build", "fallback", "finish"}
  BY DEF TypeOK, Tear, Observing, Idle, Goto, Fail, NoJob
<1>1. BundleAt' /\ TrainingAt'
  BY <1>0 DEF BundleAt, TrainingAt, Receipted
<1>2. WalkAt' /\ FreshAt' /\ ReasonAt' /\ RowsAt' /\ MadeAt'
  BY <1>0, Lineage DEF WalkAt, FreshAt, Fresh, ReasonAt, RowsAt, MadeAt
<1>3. BundleExplained' /\ ReceiptExplained'
  BY <1>0 DEF BundleExplained, ReceiptExplained, Receipted
<1> QED
  BY <1>1, <1>2, <1>3

\* Nothing has been made and nothing is known.
LEMMA InitKnown == Init => IInv
<1> SUFFICES ASSUME Init PROVE IInv
  OBVIOUS
<1>1. /\ phase = "down" /\ bundle = None /\ receipt = None /\ training = "none"
      /\ job.walk = <<"fallback">> /\ job.reason = None /\ job.failures = {} /\ ~job.recovered
  BY DEF Init, NoJob
<1> QED
  BY <1>1, Lineage DEF IInv, BundleAt, TrainingAt, WalkAt, FreshAt, ReasonAt, RowsAt, MadeAt,
    BundleExplained, ReceiptExplained, Receipted, Completing, Preparing, Fresh

\* Every step keeps what is known.
LEMMA KnownStep == TypeOK /\ IInv /\ [Next]_vars => IInv'
<1> SUFFICES ASSUME TypeOK, IInv, [Next]_vars
             PROVE  IInv'
  OBVIOUS
<1>1. CASE Failed \/ BuildFallback \/ OpenWalk \/ CancelGate \/ Clean \/ Finish \/ Incumbent
           \/ Complete \/ Signal \/ Die \/ DieStoring \/ Tick
  BY <1>1, PlainStep, StillStep
<1>2. CASE Load \/ Build \/ PassGate
  BY <1>2, LoadStep, BuildStep, PassStep, StillStep
<1>3. CASE FailGate \/ Verify
  <2>1. Still /\ phase \in {"walk", "verify"}
    BY <1>3 DEF FailGate, Verify, Still, Goto, store
  <2>2. CASE WalkBack
    BY <2>1, <2>2, BackStep, StillStep
  <2>3. CASE phase = "verify" /\ phase' = "clean" /\ job' = job
    <3>1. At'
      BY <2>1, <2>3 DEF At, IInv, Still, ledger, BundleAt, TrainingAt, WalkAt, FreshAt, Fresh, ReasonAt,
        RowsAt, MadeAt, Completing, Preparing, Receipted
    <3> QED
      BY <2>1, <3>1, StillStep
  <2> QED
    BY <1>3, <2>2, <2>3 DEF FailGate, Verify, Goto
<1>4. CASE Rename
  <2>1. CASE bundle # None
    BY <1>4, <2>1 DEF Rename, IInv, BundleAt, Preparing
  <2> QED
    BY <1>4, <2>1, PublishStep
<1>5. CASE Command \/ Train \/ Spawn \/ EndTraining
  BY <1>5, CommandStep, TrainStep, SpawnStep
<1>6. CASE WriteJsonl \/ FillJsonl \/ WriteCsv \/ RenameCsv
  BY <1>6, LedgerStep
<1>7. CASE Close \/ CreateReceipt \/ FillReceipt \/ Raise \/ Tear
  BY <1>7, CloseStep, ReceiptStep, RaiseStep, TearStep
<1>8. CASE UNCHANGED vars
  BY <1>8 DEF vars, store, ledger, IInv, BundleAt, TrainingAt, WalkAt, FreshAt, Fresh, ReasonAt, RowsAt,
    Rows, MadeAt, BundleExplained, ReceiptExplained, Receipted
<1> QED
  BY <1>1, <1>2, <1>3, <1>4, <1>5, <1>6, <1>7, <1>8 DEF Next, Step
-----------------------------------------------------------------------------
(* The types.                                                              *)

\* The hand of an attempt and the place where it is.
Placed ==
  /\ job \in Job /\ phase \in Phases
  /\ status \in {"FINALIZATION_REQUIRED", "FINALIZING", "COMPLETED", "INCOMPLETE"}

\* What is on disk and in the database.
Stored ==
  /\ training \in {"none", "starting", "running", "failed", "exact", "different"}
  /\ incumbent \in Selections
  /\ jsonl \in Ledgers \cup {None, Torn} /\ csv \in Ledgers \cup {None} /\ staging \in BOOLEAN
  /\ bundle \in Bundles \cup {None} /\ receipt \in Receipts \cup {None, Torn}

Counted ==
  /\ wanted \in Selections /\ sound \in BOOLEAN /\ late \in BOOLEAN
  /\ faults \in 0 .. MaxFaults /\ deaths \in 0 .. MaxDeaths
  /\ broken \in SUBSET Files

\* The walk is looked into only while there is one.
LEMMA TypeParts == TypeOK <=> /\ Placed /\ Stored /\ Counted
                              /\ phase \in {"walk", "rename", "verify"} => job.walk # <<>>
BY DEF TypeOK, Placed, Stored, Counted

\* The bounds hold and nothing else of this group ever changes but the deadline and what is
\* broken.
LEMMA CountedStep == ASSUME TypeOK, Next PROVE Counted'
<1>0. faults \in 0 .. MaxFaults /\ deaths \in 0 .. MaxDeaths /\ MaxFaults \in Nat /\ MaxDeaths \in Nat
  BY FinalizationAssumption DEF TypeOK
<1>1. /\ wanted' = wanted /\ sound' = sound /\ late' \in {late, TRUE}
  BY DEF Next, Step, Command, Load, Failed, Train, Spawn, EndTraining, Build, BuildFallback, WriteJsonl,
    FillJsonl, WriteCsv, RenameCsv, OpenWalk, PassGate, CancelGate, FailGate, Rename, Verify, Clean, Close,
    Finish, Incumbent, Complete, CreateReceipt, FillReceipt, Raise, Signal, Die, Tear, DieStoring, Tick, Bounds
<1>2. faults' \in {faults, faults + 1} /\ (faults' = faults \/ faults' <= MaxFaults)
  BY <1>0 DEF Next, Step, Command, Load, Failed, Train, Spawn, EndTraining, Build, BuildFallback, WriteJsonl,
    FillJsonl, WriteCsv, RenameCsv, OpenWalk, PassGate, CancelGate, FailGate, Rename, Verify, Clean, Close,
    Finish, Incumbent, Complete, CreateReceipt, FillReceipt, Raise, Signal, Die, Tear, DieStoring, Tick, Bounds
<1>3. deaths' \in {deaths, deaths + 1} /\ (deaths' = deaths \/ deaths' <= MaxDeaths)
  BY <1>0 DEF Next, Step, Command, Load, Failed, Train, Spawn, EndTraining, Build, BuildFallback, WriteJsonl,
    FillJsonl, WriteCsv, RenameCsv, OpenWalk, PassGate, CancelGate, FailGate, Rename, Verify, Clean, Close,
    Finish, Incumbent, Complete, CreateReceipt, FillReceipt, Raise, Signal, Die, Tear, DieStoring, Tick, Bounds
<1>4. faults' \in 0 .. MaxFaults
  BY <1>0, <1>2
<1>5. deaths' \in 0 .. MaxDeaths
  BY <1>0, <1>3
<1>6. wanted' \in Selections /\ sound' \in BOOLEAN /\ late' \in BOOLEAN
  BY <1>1 DEF TypeOK
<1>7. broken' \in SUBSET Files
  <2>1. \/ broken' = broken
        \/ \E f \in Files : broken' = broken \cup {f}
    BY DEF Next, Step, Command, Load, Failed, Train, Spawn, EndTraining, Build, BuildFallback, WriteJsonl,
      FillJsonl, WriteCsv, RenameCsv, OpenWalk, PassGate, CancelGate, FailGate, Rename, Verify, Clean, Close,
      Finish, Incumbent, Complete, CreateReceipt, FillReceipt, Raise, Signal, Die, Tear, DieStoring, Tick,
      Bounds, Files
  <2> QED
    BY <2>1 DEF TypeOK
<1> QED
  BY <1>4, <1>5, <1>6, <1>7 DEF Counted

\* The steps that start, resume and end an attempt, and what may happen to it.
LEMMA AttemptPlaced ==
  ASSUME TypeOK,
         Command \/ Load \/ Failed \/ Raise \/ Signal \/ Die \/ Tear \/ DieStoring \/ Tick
  PROVE  Placed'
<1> USE DEF Goto, Fail, Bounds, Placed, Phases, store
<1>0. job \in Job /\ phase \in Phases /\ NoJob \in Job
      /\ status \in {"FINALIZATION_REQUIRED", "FINALIZING", "COMPLETED", "INCOMPLETE"}
  BY NoJobTyped DEF TypeOK
<1>1. CASE Command
  BY <1>0, <1>1 DEF Command
<1>2. CASE Load
  <2>1. [job EXCEPT !.recovered = Found] \in Job
    <3>1. Found \in BOOLEAN
      BY DEF Found
    <3> QED
      BY <1>0, <3>1, JobRecovered
  <2>2. job' = job \/ job' = [job EXCEPT !.recovered = Found]
    BY <1>2 DEF Load
  <2>3. job' \in Job
    BY <1>0, <2>1, <2>2
  <2> QED
    BY <1>0, <1>2, <2>3 DEF Load
<1>3. CASE Failed
  BY <1>0, <1>3 DEF Failed
<1>4. CASE Raise
  BY <1>0, <1>4 DEF Raise
<1>5. CASE Signal
  BY <1>0, <1>5, JobSignalled DEF Signal
<1>6. CASE Die
  BY <1>0, <1>6 DEF Die
<1>7. CASE Tick
  BY <1>0, <1>7 DEF Tick
<1>8. CASE Tear \/ DieStoring
  BY <1>0, <1>8 DEF Tear, DieStoring
<1> QED
  BY <1>1, <1>2, <1>3, <1>4, <1>5, <1>6, <1>7, <1>8

\* The final training and the candidate that is rebuilt from it.
LEMMA TrainingPlaced ==
  ASSUME TypeOK, Train \/ Spawn \/ EndTraining \/ Build \/ BuildFallback
  PROVE  Placed'
<1> USE DEF Goto, Bounds, Placed, Phases, store
<1>0. job \in Job /\ Reasons = {"refused", "error", "retained", "bytes", "candidate", "object"}
      /\ status \in {"FINALIZATION_REQUIRED", "FINALIZING", "COMPLETED", "INCOMPLETE"}
  BY DEF TypeOK, Reasons
<1>1. CASE \E r \in Reasons : GiveUp(r)
  <2>1. PICK r \in Reasons : GiveUp(r)
    BY <1>1
  <2>2. [job EXCEPT !.reason = r] \in Job
    BY <1>0, JobReason
  <2>3. job' \in Job /\ phase' \in {"failed", "fallback"}
    BY <1>0, <2>1, <2>2 DEF GiveUp, Fail
  <2>4. status' = status
    BY DEF Train, Spawn, EndTraining, Build, BuildFallback
  <2> QED
    BY <1>0, <2>3, <2>4
<1>2. CASE Build /\ job' = [job EXCEPT !.walk = <<"generated", "fallback">>] /\ phase' = "fallback"
  BY <1>0, <1>2, JobWalk DEF Build
<1>3. CASE phase' \in {"failed", "spawn", "run", "build", "finish", "jsonl"} /\ job' = job
  <2>1. status' = status
    BY DEF Train, Spawn, EndTraining, Build, BuildFallback
  <2> QED
    BY <1>0, <1>3, <2>1
<1> QED
  BY <1>0, <1>1, <1>2, <1>3 DEF Train, Spawn, EndTraining, Build, BuildFallback, Fail, Trained

\* The walk, and what is walked back from.
LEMMA WalkPlaced ==
  ASSUME TypeOK,
         OpenWalk \/ PassGate \/ CancelGate \/ FailGate \/ Rename \/ Verify \/ Clean
  PROVE  Placed'
<1> USE DEF Goto, Bounds, Placed, Phases, store
<1>0. job \in Job /\ phase \in Phases
      /\ status \in {"FINALIZATION_REQUIRED", "FINALIZING", "COMPLETED", "INCOMPLETE"}
  BY DEF TypeOK
<1>1. status' = status
  BY DEF OpenWalk, PassGate, CancelGate, FailGate, Rename, Verify, Clean
<1>2. CASE WalkBack /\ phase \in {"walk", "rename", "verify"}
  <2>1. job.walk # <<>>
    BY <1>2 DEF TypeOK
  <2> QED
    BY <1>0, <1>1, <1>2, <2>1, BackFacts
<1>3. CASE PassGate /\ job' = [job EXCEPT !.gate = @ + 1]
  BY <1>0, <1>1, <1>3, JobGate DEF PassGate
<1>4. CASE job' = job /\ phase' \in {"failed", "walk", "rename", "verify", "clean", "close"}
  BY <1>0, <1>1, <1>4
<1> QED
  BY <1>0, <1>1, <1>2, <1>3, <1>4 DEF OpenWalk, PassGate, CancelGate, FailGate, Rename, Verify, Clean, Fail

\* The files and the completion.
LEMMA FilePlaced ==
  ASSUME TypeOK,
         \/ WriteJsonl \/ FillJsonl \/ WriteCsv \/ RenameCsv
         \/ Close \/ Finish \/ Incumbent \/ Complete \/ CreateReceipt \/ FillReceipt
  PROVE  Placed'
<1>0. job \in Job /\ phase \in Phases
      /\ status \in {"FINALIZATION_REQUIRED", "FINALIZING", "COMPLETED", "INCOMPLETE"}
  BY DEF TypeOK
<1>1. job' = job /\ phase' \in Phases /\ status' \in {status, "COMPLETED"}
  BY <1>0 DEF WriteJsonl, FillJsonl, WriteCsv, RenameCsv, Close, Finish, Incumbent, Complete, CreateReceipt,
    FillReceipt, Goto, Fail, Bounds, Phases, store
<1> QED
  BY <1>0, <1>1 DEF Placed

\* The rows are written when no training is in progress.
LEMMA RowsTyped ==
  ASSUME TypeOK, IInv, phase \notin {"down", "spawn", "run"}
  PROVE  Rows \in Ledgers
<1>1. training \in {"none", "failed", "exact", "different"}
  BY DEF TypeOK, IInv, TrainingAt
<1>2. job.reason \in Reasons \cup {None}
  BY DEF TypeOK, Job
<1> QED
  BY <1>1, <1>2 DEF Rows, Ledgers

\* What a receipt may say of the replay.
LEMMA ModeTyped == ASSUME TypeOK, bundle \in Bundles PROVE Mode \in Modes
<1>1. bundle.selected \in {"fallback", "generated"} /\ wanted \in {"fallback", "generated"} /\ job.recovered \in BOOLEAN
  BY DEF TypeOK, Bundles, Selections, Job
<1>2. CASE job.recovered /\ bundle.selected = "fallback"
  BY <1>2 DEF Mode, Modes
<1>3. CASE job.recovered /\ bundle.selected = "generated"
  <2>1. Mode = "completed"
    BY <1>3 DEF Mode
  <2> QED
    BY <2>1 DEF Modes
<1>4. CASE ~job.recovered /\ wanted = "fallback"
  <2>1. Mode = "not applicable"
    BY <1>4 DEF Mode
  <2> QED
    BY <2>1, Zenon DEF Modes
<1>5. CASE ~job.recovered /\ wanted = "generated"
  <2>1. ~(job.recovered /\ bundle.selected = "fallback")
        /\ ~(job.recovered /\ bundle.selected = "generated")
        /\ ~(~job.recovered /\ wanted = "fallback")
    BY <1>5
  <2>2. Mode = "completed" \/ Mode = "failed closed"
    BY <1>5, <2>1, Zenon DEF Mode
  <2> QED
    BY <2>2, Zenon DEF Modes
<1> QED
  BY <1>1, <1>2, <1>3, <1>4, <1>5

\* What each step leaves on disk and in the database.
LEMMA StoredStep == ASSUME TypeOK, IInv, Next PROVE Stored'
<1> USE DEF Stored, Bounds, store, ledger
<1>0. Stored
  BY DEF TypeOK
<1>1. CASE \/ Load \/ Failed \/ Build \/ BuildFallback \/ OpenWalk \/ PassGate \/ CancelGate \/ FailGate
           \/ Verify \/ Clean \/ Finish \/ Complete \/ Signal \/ Die \/ Tear \/ DieStoring \/ Tick
  BY <1>0, <1>1 DEF Load, Failed, Build, BuildFallback, OpenWalk, PassGate, CancelGate, FailGate, Verify,
    Clean, Finish, Complete, Signal, Die, Tear, DieStoring, Tick
<1>2. CASE Command \/ Train \/ Spawn \/ EndTraining
  BY <1>0, <1>2 DEF Command, Train, Spawn, EndTraining
<1>3. CASE WriteJsonl \/ FillJsonl \/ WriteCsv \/ RenameCsv
  <2>1. Rows \in Ledgers
    BY <1>3, RowsTyped DEF WriteJsonl, FillJsonl, WriteCsv, RenameCsv
  <2> QED
    BY <1>0, <1>3, <2>1 DEF WriteJsonl, FillJsonl, WriteCsv, RenameCsv
<1>4. CASE Rename
  <2> DEFINE b == [selected |-> Head(job.walk), reason |-> job.reason, failures |-> job.failures,
                   ledger |-> jsonl, closed |-> FALSE]
  <2>1. phase = "rename" /\ job \in Job /\ bundle = None /\ bundle' = b /\ jsonl = Rows
        /\ UNCHANGED <<store, ledger, receipt>>
    BY <1>4 DEF Rename, TypeOK, IInv, BundleAt, Preparing, RowsAt
  <2>2. jsonl \in Ledgers
    BY <2>1, RowsTyped
  <2>3. Head(job.walk) \in Selections
    <3>1. job.walk \in {<<"fallback">>, <<"generated", "fallback">>}
      BY <2>1 DEF TypeOK, Job
    <3> QED
      BY <3>1, Lineage DEF Selections
  <2>4. b \in Bundles
    BY <2>1, <2>2, <2>3 DEF Bundles, Job
  <2> QED
    BY <1>0, <2>1, <2>4
<1>5. CASE Close
  <2>1. bundle \in Bundles
    BY <1>0, <1>5 DEF Close, IInv, BundleAt, Completing
  <2>2. [bundle EXCEPT !.closed = TRUE] \in Bundles
    BY <2>1 DEF Bundles
  <2> QED
    BY <1>0, <1>5, <2>2 DEF Close
<1>6. CASE Incumbent \/ CreateReceipt
  BY <1>0, <1>6 DEF Incumbent, CreateReceipt, Selections
<1>7. CASE FillReceipt
  <2>1. bundle \in Bundles /\ job \in Job
    BY <1>0, <1>7 DEF FillReceipt, IInv, BundleAt, Completing, TypeOK
  <2>2. Mode \in Modes
    BY <2>1, ModeTyped
  <2>3. bundle.selected \in Selections /\ job.reason \in Reasons \cup {None} /\ job.failures \in SUBSET Failures
    BY <2>1 DEF Bundles, Job
  <2>4. receipt' \in Receipts
    BY <1>7, <2>2, <2>3 DEF FillReceipt, Receipts
  <2> QED
    BY <1>0, <1>7, <2>4 DEF FillReceipt
<1>8. CASE Raise
  BY <1>0, <1>8 DEF Raise
<1> QED
  BY <1>1, <1>2, <1>3, <1>4, <1>5, <1>6, <1>7, <1>8 DEF Next, Step

\* Every step keeps the types.
LEMMA TypeStep == TypeOK /\ IInv /\ [Next]_vars => TypeOK'
<1> SUFFICES ASSUME TypeOK, IInv, [Next]_vars
             PROVE  TypeOK'
  OBVIOUS
<1>1. CASE Next
  <2>1. Placed'
    BY <1>1, AttemptPlaced, TrainingPlaced, WalkPlaced, FilePlaced DEF Next, Step
  <2>2. Stored' /\ Counted'
    BY <1>1, StoredStep, CountedStep
  <2>3. WalkAt'
    BY KnownStep DEF IInv
  <2> QED
    BY <2>1, <2>2, <2>3 DEF TypeOK, Placed, Stored, Counted, WalkAt
<1>2. CASE UNCHANGED vars
  BY <1>2 DEF vars, store, ledger, TypeOK
<1> QED
  BY <1>1, <1>2

\* The first attempt finds nothing.
LEMMA InitTyped == Init => TypeOK
<1> SUFFICES ASSUME Init PROVE TypeOK
  OBVIOUS
<1>1. Placed
  BY NoJobTyped DEF Init, Placed, Phases
<1>2. Stored
  BY DEF Init, Stored, Selections
<1>3. Counted
  <2>1. faults \in 0 .. MaxFaults /\ deaths \in 0 .. MaxDeaths
    BY FinalizationAssumption DEF Init
  <2>2. wanted \in Selections /\ sound \in BOOLEAN /\ late \in BOOLEAN
    BY Zenon DEF Init
  <2> QED
    BY <2>1, <2>2 DEF Counted, Init
<1>4. phase = "down"
  BY DEF Init
<1> QED
  BY <1>1, <1>2, <1>3, <1>4, TypeParts

\* What each attempt knows, at every moment.
LEMMA KnownHolds == Spec => [](TypeOK /\ IInv)
<1>1. Init => TypeOK /\ IInv
  BY InitTyped, InitKnown
<1>2. TypeOK /\ IInv /\ [Next]_vars => (TypeOK /\ IInv)'
  BY TypeStep, KnownStep
<1> QED
  BY <1>1, <1>2, PTL DEF Spec

-----------------------------------------------------------------------------
(* A retry finds what the receipt speaks of.                               *)

\* What a receipt needs is there before it is written, and stays.
Kept ==
  /\ \/ phase \in {"finish", "incumbent", "complete", "receipt", "fill"}
     \/ phase = "train" /\ job.recovered
     => bundle # None /\ bundle.closed
  /\ phase \in {"receipt", "fill"} => status = "COMPLETED"
  /\ Receipted => status = "COMPLETED" /\ bundle # None /\ bundle.closed /\ receipt.selected = bundle.selected

\* A campaign that was completed stays completed; a bundle that was closed stays closed.
Lasting ==
  /\ status = "COMPLETED" => status' = "COMPLETED"
  /\ bundle # None => bundle' # None /\ bundle'.selected = bundle.selected
  /\ bundle # None /\ bundle.closed => bundle'.closed

\* Nothing has been closed or written yet.
LEMMA InitKept == Init => Kept
BY AbsentAssumption DEF Init, Kept, Receipted

\* No step takes it back.
LEMMA LastingStep == ASSUME TypeOK, IInv, Next PROVE Lasting
<1> USE DEF Lasting, Bounds, store
<1>0. bundle \in Bundles \cup {None}
  BY DEF TypeOK
<1>1. CASE Close
  <2>1. ASSUME bundle # None
        PROVE  /\ [bundle EXCEPT !.closed = TRUE] \in Bundles /\ [bundle EXCEPT !.closed = TRUE].closed
               /\ [bundle EXCEPT !.closed = TRUE].selected = bundle.selected
    BY <1>0, <2>1 DEF Bundles
  <2> QED
    BY <1>1, <2>1, AbsentAssumption DEF Close
<1>2. CASE Rename
  BY <1>2 DEF Rename
<1>3. CASE ~Close /\ ~Rename
  BY <1>3 DEF Next, Step, Command, Load, Failed, Train, Spawn, EndTraining, Build, BuildFallback, WriteJsonl,
    FillJsonl, WriteCsv, RenameCsv, OpenWalk, PassGate, CancelGate, FailGate, Verify, Clean, Finish,
    Incumbent, Complete, CreateReceipt, FillReceipt, Raise, Signal, Die, Tear, DieStoring, Tick
<1> QED
  BY <1>1, <1>2, <1>3

\* The steps of an attempt that reach its completion.
LEMMA KeptStep == TypeOK /\ IInv /\ Kept /\ [Next]_vars => Kept'
<1> SUFFICES ASSUME TypeOK, IInv, Kept, [Next]_vars
             PROVE  Kept'
  OBVIOUS
<1>0. job \in Job /\ bundle \in Bundles \cup {None} /\ phase \in Phases
  BY DEF TypeOK
<1>1. CASE UNCHANGED vars
  BY <1>1 DEF vars, store, ledger, Kept, Receipted
<1>2. ASSUME Next PROVE Kept'
  <2> USE DEF Kept, Goto, Fail, Bounds, store
  <2>1. Lasting
    BY <1>2, LastingStep
  <2>2. CASE CreateReceipt \/ FillReceipt
    BY <1>0, <2>1, <2>2 DEF CreateReceipt, FillReceipt, Receipted, Lasting
  <2>3. ASSUME ~CreateReceipt, ~FillReceipt PROVE receipt' \in {receipt, None}
    BY <1>2, <2>3 DEF Next, Step, Command, Load, Failed, Train, Spawn, EndTraining, Build, BuildFallback, WriteJsonl,
      FillJsonl, WriteCsv, RenameCsv, OpenWalk, PassGate, CancelGate, FailGate, Rename, Verify, Clean, Close,
      Finish, Incumbent, Complete, Raise, Signal, Die, Tear, DieStoring, Tick
  <2>4. ASSUME ~CreateReceipt, ~FillReceipt
        PROVE  Receipted' => status' = "COMPLETED" /\ bundle' # None /\ bundle'.closed /\ receipt'.selected = bundle'.selected
    <3>1. receipt' \in {receipt, None}
      BY <2>3, <2>4, Zenon
    <3>2. Receipted' => Receipted /\ receipt' = receipt
      BY <3>1 DEF Receipted
    <3> SUFFICES ASSUME Receipted'
                 PROVE  status' = "COMPLETED" /\ bundle' # None /\ bundle'.closed /\ receipt'.selected = bundle'.selected
      OBVIOUS
    <3>3. Receipted /\ receipt' = receipt
      BY <3>2
    <3>4. status = "COMPLETED" /\ bundle # None /\ bundle.closed /\ receipt.selected = bundle.selected
      BY <3>3
    <3>5. status' = "COMPLETED" /\ bundle' # None /\ bundle'.closed /\ bundle'.selected = bundle.selected
      BY <2>1, <3>4 DEF Lasting
    <3> QED
      BY <3>3, <3>4, <3>5
  <2>5. ASSUME ~CreateReceipt, ~FillReceipt PROVE phase' \in {"receipt", "fill"} => status' = "COMPLETED"
    BY <1>2, <2>1, <2>5 DEF Lasting, Next, Step, Command, Load, Failed, Train, Spawn, EndTraining, Build, BuildFallback,
      WriteJsonl, FillJsonl, WriteCsv, RenameCsv, OpenWalk, PassGate, CancelGate, FailGate, Rename, Verify,
      Clean, Close, Finish, Incumbent, Complete, Raise, Signal, Die, Tear, DieStoring, Tick, GiveUp, Trained, WalkBack, Idle
  <2>6. ASSUME phase' \in {"finish", "incumbent", "complete", "receipt", "fill"}
               \/ (phase' = "train" /\ job'.recovered)
        PROVE  bundle' # None /\ bundle'.closed
    <3>1. CASE Close
      <4>1. bundle \in Bundles
        BY <1>0, <3>1 DEF Close, IInv, BundleAt, Completing
      <4>2. [bundle EXCEPT !.closed = TRUE] \in Bundles /\ [bundle EXCEPT !.closed = TRUE].closed
        BY <4>1 DEF Bundles
      <4> QED
        BY <3>1, <4>2, AbsentAssumption DEF Close
    <3>2. CASE Finish \/ Incumbent \/ Complete \/ CreateReceipt \/ FillReceipt
      BY <2>1, <2>6, <3>2 DEF Finish, Incumbent, Complete, CreateReceipt, FillReceipt, Lasting
    <3>3. CASE Train \/ Spawn \/ EndTraining \/ Build
      BY <2>1, <2>6, <3>3 DEF Train, Spawn, EndTraining, Build, GiveUp, Trained, Lasting, IInv, BundleAt, Preparing
    <3>4. CASE Signal \/ Tick
      BY <1>0, <2>1, <2>6, <3>4 DEF Signal, Tick, Lasting, Job
    <3>5. CASE \/ Command \/ Load
      BY <1>0, <2>1, <2>6, <3>5 DEF Command, Load, Idle, Found, Lasting, NoJob, Job
    <3>6. CASE \/ Failed \/ BuildFallback \/ WriteJsonl \/ FillJsonl \/ WriteCsv \/ RenameCsv \/ OpenWalk
               \/ PassGate \/ CancelGate \/ FailGate \/ Rename \/ Verify \/ Clean \/ Raise \/ Die
               \/ Tear \/ DieStoring
      BY <2>6, <3>6 DEF Failed, BuildFallback, WriteJsonl, FillJsonl, WriteCsv, RenameCsv, OpenWalk, PassGate,
        CancelGate, FailGate, Rename, Verify, Clean, Raise, Die, Tear, DieStoring, WalkBack
    <3> QED
      BY <1>2, <3>1, <3>2, <3>3, <3>4, <3>5, <3>6 DEF Next, Step
  <2> QED
    BY <2>2, <2>4, <2>5, <2>6
<1> QED
  BY <1>1, <1>2

-----------------------------------------------------------------------------
(* The theorems.                                                           *)

\* Every variable of a finalization keeps its type and the walk of run_finalization is never
\* looked into when it is over, however many attempts finalize_provider_free_campaign makes.
THEOREM TypeCorrect == Spec => []TypeOK
BY KnownHolds, PTL

\* A published bundle explains itself: its ledgers are the retained ones and agree with the
\* database, a generated bundle was trained to the selected bytes, a fallback says why, and the
\* receipt repeats it - whichever attempts of finalize_provider_free_campaign,
\* _write_experiment_ledgers and run_finalization left the parts, for any number of faults,
\* deaths and signals.
THEOREM BundleExplainsItself == Spec => []Explained
<1>1. IInv => Explained
  BY DEF IInv, BundleExplained, ReceiptExplained, Explained
<1> QED
  BY <1>1, KnownHolds, PTL

\* Whatever died between publication and receipt, a command that finds the receipt before the
\* deadline returns it: the campaign is still COMPLETED, and the bundle is there, closed, and
\* the one of the receipt (_load_production_outcome), unless the machine fails under its hands.
THEOREM TerminalRetryReturns == Spec => RetryReturns
<1>1. Init => Kept
  BY InitKept
<1>2. TypeOK /\ IInv /\ Kept /\ [Next]_vars => Kept'
  BY KeptStep
<1>3. TypeOK /\ IInv /\ Kept /\ [Next]_vars =>
        [phase = "load" /\ Receipted /\ ~Cancelled /\ faults' = faults /\ phase' \notin {"load", "down"}
           => phase' = "returned"]_vars
  <2> SUFFICES ASSUME IInv, Kept, Next, phase = "load", Receipted, ~Cancelled, faults' = faults,
                      phase' \notin {"load", "down"}, TypeOK
               PROVE  phase' = "returned"
    OBVIOUS
  <2>1. Retained
    BY DEF Kept, IInv, BundleExplained, Retained
  <2>2. CASE Load
    BY <2>1, <2>2 DEF Load, Goto, Receipted
  <2>3. CASE Raise
    BY <2>3 DEF Raise, TypeOK
  <2>4. CASE ~Load /\ ~Raise
    BY <2>4 DEF Next, Step, Command, Failed, Train, Spawn, EndTraining, Build, BuildFallback, WriteJsonl,
      FillJsonl, WriteCsv, RenameCsv, OpenWalk, PassGate, CancelGate, FailGate, Rename, Verify, Clean, Close,
      Finish, Incumbent, Complete, CreateReceipt, FillReceipt, Signal, Die, Tear, DieStoring, Tick, Goto, Idle, Observing
  <2> QED
    BY <2>2, <2>3, <2>4
<1> QED
  BY <1>1, <1>2, <1>3, KnownHolds, PTL DEF Spec, RetryReturns
=============================================================================
