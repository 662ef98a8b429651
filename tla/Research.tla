------------------------------ MODULE Research ------------------------------
(***************************************************************************)
(* The initial research admission of a live campaign: iteration after      *)
(* iteration the provider is asked for a proposal, an implementation and   *)
(* repairs, until one branch materializes and passes its local checks or   *)
(* research is closed.  Rejected branches go into a journal of one file    *)
(* per iteration; the accepted branch goes into a lineage record, the      *)
(* artifacts, the campaign store and the LINEAGE_READY checkpoint.  The    *)
(* command may die at any step, and the next one starts from those files.  *)
(*                                                                         *)
(* One command runs at a time.  Closing is one step (CampaignLifecycle has *)
(* its checkpoints), and so is all that follows LINEAGE_READY (Science).   *)
(* An attempt of the provider is one step, its transcript included.  An    *)
(* artifact or a checkpoint gets its final name as a second link to a      *)
(* staging file, and then loses the first: a death between the two leaves  *)
(* it doubled, and what has two links is refused whenever it is looked at. *)
(***************************************************************************)
EXTENDS Naturals, Sequences, FiniteSets

CONSTANTS
  Families,       \* what proposal_family_of tells apart
  Proposals,      \* family, and repairs it asks for
  MaxIterations,  \* benchmark.max_iterations
  Slots,          \* endpoints: 1, or 2 with a fallback
  MaxTransport,   \* max_transport_retries
  MaxMalformed,   \* max_malformed_retries
  Reserve,        \* time at which the finalization reserve begins
  MaxDeaths,      \* bound on deaths of the command
  None,           \* nothing is there
  Torn            \* a record that was cut short

ASSUME ResearchAssumption ==
  /\ Proposals \subseteq [family : Families, repairs : Nat]
  /\ MaxIterations \in Nat \ {0} /\ Slots \in Nat \ {0}
  /\ MaxTransport \in Nat /\ MaxMalformed \in Nat
  /\ Reserve \in Nat \ {0} /\ MaxDeaths \in Nat

\* Fingerprints of root failures: a package refused before or after its directory is there,
\* and a blocked family, which is its own subject.  A manifest against the source policy does
\* not get here: the provider's _parse has made the answer malformed.
Faults == {"materialization", "static"}
Roots == Faults \cup Families

Operations == {"propose", "implement", "repair"}
Packages == {"good", "early", "late"}
MaxRepairs == 2

VARIABLES
  journal,   \* rejections, one entry per iteration
  tornEntry, \* the next entry was begun and never finished
  tree,      \* directories of the iteration after the journal: proposal, number of repairs
  record,    \* lineage record: None, torn, or the accepted branch
  ledger,    \* facts of the accepted branch that are in the campaign store
  ready,     \* LINEAGE_READY: None, or the branch and the context it froze
  doubled,   \* what a death left with two links
  time,
  phase, job, call,
  sent,      \* requests of the current operation, by endpoint
  refusals,  \* reasons why a pass was refused
  deaths

files == <<journal, tornEntry, tree, record, ledger, ready, doubled>>
looks == <<refusals, deaths>>
vars == <<files, time, phase, job, call, sent, looks>>

Entry == [root : Roots, family : Families, total : Nat \ {0}, streak : Nat \ {0},
          familyTotal : Nat \ {0}, blocked : BOOLEAN]
\* A context is the time left and the rejections it tells the provider.
Context == [time : 0 .. Reserve, records : 0 .. MaxIterations]
Branch == [iter : 1 .. MaxIterations, context : Context, proposal : Proposals, repairs : 0 .. MaxRepairs]

ASSUME NoneAssumption == None # Torn /\ None \notin Branch \cup Roots /\ Torn \notin Branch

\* What the loop has counted of the rejections so far.
Seen == [roots : [Roots -> Nat], families : [Families -> Nat], previous : Roots \cup {None},
         streak : Nat]
NoContext == [time |-> 0, records |-> 0]
Job == [seen : Seen, context : Context, proposal : Proposals \cup {None},
        package : Packages \cup {None}, repairs : 0 .. MaxRepairs, root : Roots \cup {None}]

\* State of OpenAIChatCompletionsModel._call, and the endpoint that is active.
Call == [op : Operations, slot : 1 .. Slots, transport : 0 .. MaxTransport,
         malformed : 0 .. MaxMalformed, limited : 0 .. 1]
FreshCall(op, slot) ==
  [op |-> op, slot |-> slot, transport |-> 0, malformed |-> 0, limited |-> 0]
NothingSent == [s \in 1 .. Slots |-> 0]

(***************************************************************************)
(* The rejection journal                                                   *)
(***************************************************************************)
RootTotal(i) == Cardinality({k \in 1 .. i : journal[k].root = journal[i].root})
FamilyTotal(i) == Cardinality({k \in 1 .. i : journal[k].family = journal[i].family})
Streak(i) == Cardinality({k \in 1 .. i : \A n \in k .. i : journal[n].root = journal[i].root})

\* The counters of every entry are those a walk over the journal gives.
Consistent ==
  \A i \in DOMAIN journal :
    /\ journal[i].total = RootTotal(i) /\ journal[i].streak = Streak(i)
    /\ journal[i].familyTotal = FamilyTotal(i)
    /\ journal[i].blocked = (FamilyTotal(i) >= 2)

RepeatedFailure == \E i \in DOMAIN journal : RootTotal(i) >= 3

\* Counters of a pass that has just read the journal.
Recounted ==
  [roots |-> [r \in Roots |-> Cardinality({k \in DOMAIN journal : journal[k].root = r})],
   families |-> [f \in Families |-> Cardinality({k \in DOMAIN journal : journal[k].family = f})],
   previous |-> IF journal = <<>> THEN None ELSE journal[Len(journal)].root,
   streak |-> IF journal = <<>> THEN 0 ELSE Streak(Len(journal))]

CountedWithoutReset(seen, root, family) ==
  [roots |-> [seen.roots EXCEPT ![root] = @ + 1],
   families |-> [seen.families EXCEPT ![family] = @ + 1],
   previous |-> root,
   streak |-> seen.streak + 1]

\* Counters after one more rejection.
Counted(seen, root, family) ==
  [roots |-> [seen.roots EXCEPT ![root] = @ + 1],
   families |-> [seen.families EXCEPT ![family] = @ + 1],
   previous |-> root,
   streak |-> IF root = seen.previous THEN seen.streak + 1 ELSE 1]

\* _proposal_family_is_blocked: by the records in the context of this iteration.
BlockedByLast(context, family) ==
  /\ context.records > 0
  /\ journal[context.records].blocked /\ journal[context.records].family = family
Blocked(context, family) ==
  \E k \in 1 .. context.records : journal[k].blocked /\ journal[k].family = family

Iteration == Len(journal) + 1

(***************************************************************************)
(* A pass over the research stage                                          *)
(***************************************************************************)
NothingSeen ==
  [roots |-> [r \in Roots |-> 0], families |-> [f \in Families |-> 0], previous |-> None,
   streak |-> 0]
FreshJob(seen) ==
  [seen |-> seen, context |-> NoContext, proposal |-> None, package |-> None, repairs |-> 0,
   root |-> None]

Init ==
  /\ journal = <<>> /\ tornEntry = FALSE /\ tree = {} /\ record = None /\ ledger = 0 /\ ready = None
  /\ doubled = {} /\ time = 0 /\ phase = "down" /\ job = FreshJob(NothingSeen) /\ call = FreshCall("propose", 1)
  /\ sent = NothingSent /\ refusals = {} /\ deaths = 0

\* The command ends: its locals are gone.
Idle(slot) == call' = FreshCall("propose", slot) /\ sent' = NothingSent
Ended == job' = FreshJob(NothingSeen) /\ Idle(1)

Refused(reason) ==
  /\ phase' = "down" /\ refusals' = refusals \cup {reason} /\ Ended
  /\ UNCHANGED <<files, time, deaths>>

Closes ==
  /\ phase' = "close" /\ Ended
  /\ UNCHANGED <<files, time, looks>>

InReserve == time >= Reserve

\* The checkpoints are read before anything else.
Readable == phase = "down" /\ "checkpoint" \notin doubled
ResumeUnread == phase = "down" /\ "checkpoint" \in doubled /\ Refused("checkpoint")

\* The pass looks at the reserve next, and only then at the journal.
ResumeLate == Readable /\ InReserve /\ Closes

\* What makes the journal unreadable for ever.
Unreadable ==
  {reason \in {"entry", "cap", "counters"} :
     CASE reason = "entry" -> tornEntry
       [] reason = "cap" -> Len(journal) > MaxIterations
       [] reason = "counters" -> ~Consistent}

ResumeRefused ==
  Readable /\ ~InReserve /\ \E reason \in Unreadable : Refused(reason)

ResumeRepeated == Readable /\ ~InReserve /\ Unreadable = {} /\ RepeatedFailure /\ Closes

Resume ==
  /\ Readable /\ ~InReserve /\ Unreadable = {} /\ ~RepeatedFailure
  /\ phase' = "admit" /\ job' = FreshJob(Recounted)
  /\ UNCHANGED <<files, time, call, sent, looks>>

\* The iterations are used up, or the reserve has begun.
StopAdmission == phase = "admit" /\ (Iteration > MaxIterations \/ InReserve) /\ Closes

\* The context of a retained lineage is frozen; another one holds the time that is left now.
ContextNow == IF ready = None THEN [time |-> time, records |-> Len(journal)] ELSE ready.context

Ask(op, slot) ==
  phase' = "call" /\ call' = FreshCall(op, slot) /\ sent' = NothingSent

MustProposeUnlessSame(context) ==
  record = None \/ (record \notin {None, Torn} /\ record.context # context)
MustPropose(context) == record = None
RecordMatches(context) == record \notin {None, Torn} /\ record.context = context

Propose ==
  /\ phase = "admit" /\ Iteration <= MaxIterations /\ ~InReserve /\ MustPropose(ContextNow)
  /\ job' = [job EXCEPT !.context = ContextNow]
  /\ Ask("propose", call.slot)
  /\ UNCHANGED <<files, time, looks>>

Rehydrate ==
  /\ phase = "admit" /\ Iteration <= MaxIterations /\ ~InReserve /\ RecordMatches(ContextNow)
  /\ job' = [job EXCEPT !.context = record.context, !.proposal = record.proposal,
                        !.repairs = record.repairs, !.package = "good"]
  /\ phase' = "store"
  /\ UNCHANGED <<files, time, call, sent, looks>>

RehydrateRefused ==
  /\ phase = "admit" /\ Iteration <= MaxIterations /\ ~InReserve
  /\ ~MustPropose(ContextNow) /\ ~RecordMatches(ContextNow)
  /\ Refused(IF record = Torn THEN "record" ELSE "context")

(***************************************************************************)
(* One attempt at the provider                                             *)
(***************************************************************************)
MaySend == phase = "call" /\ ~InReserve
Counts == sent' = [sent EXCEPT ![call.slot] = @ + 1]

Again(next) == Counts /\ call' = next /\ UNCHANGED <<files, time, phase, job, looks>>

\* The endpoint is given up: the other one takes over for good, or research is closed.
GiveUpSlot ==
  \/ call.slot < Slots /\ Again(FreshCall(call.op, call.slot + 1))
  \/ call.slot = Slots /\ Closes

\* Too large, a typed provider error in the answer, a status that is not worth a retry, or a
\* rate limit whose wait does not fit or that follows another one.
AnswerRefused == MaySend /\ GiveUpSlot

\* No answer, or a status other than 429 that is worth a retry; the next 429 is a first one.
MayRetry == call.transport < MaxTransport
SendFails ==
  /\ MaySend
  /\ \/ MayRetry /\ Again([call EXCEPT !.transport = @ + 1, !.limited = 0])
     \/ ~MayRetry /\ GiveUpSlot

\* A rate limit is waited for once in a row, and only if the wait fits before the reserve.
MayWaitTwice == MayRetry
MayWait == MayRetry /\ call.limited = 0
RateLimited ==
  /\ MaySend /\ MayWait
  /\ Again([call EXCEPT !.transport = @ + 1, !.limited = @ + 1])

AfterMalformedAnew == [call EXCEPT !.malformed = @ + 1, !.transport = 0]
AfterMalformed == [call EXCEPT !.malformed = @ + 1]
AnswerMalformed ==
  /\ MaySend
  /\ \/ call.malformed < MaxMalformed /\ Again(AfterMalformed)
     \/ call.malformed = MaxMalformed /\ GiveUpSlot

NoTimeLeft == phase = "call" /\ InReserve /\ Closes

(***************************************************************************)
(* The branch of one iteration                                             *)
(***************************************************************************)
\* A proposal is rejected before anything is implemented, or its implementation is asked for.
ProposalAnswered(p) ==
  /\ MaySend /\ call.op = "propose"
  /\ \/ /\ Blocked(job.context, p.family)
        /\ phase' = "reject" /\ Idle(call.slot)
        /\ job' = [job EXCEPT !.proposal = p, !.root = p.family]
     \/ /\ ~Blocked(job.context, p.family)
        /\ job' = [job EXCEPT !.proposal = p]
        /\ Ask("implement", call.slot)
  /\ UNCHANGED <<files, time, looks>>

PackageAnswered(package) ==
  /\ MaySend /\ call.op # "propose"
  /\ phase' = "build" /\ Idle(call.slot)
  /\ job' = [job EXCEPT !.package = package,
                        !.repairs = IF call.op = "repair" THEN @ + 1 ELSE @]
  /\ UNCHANGED <<files, time, looks>>

Directory == <<job.proposal, job.repairs>>
Occupied == Directory \in tree
AllowedRepairs == IF job.proposal.repairs < MaxRepairs THEN job.proposal.repairs ELSE MaxRepairs

\* Materialization refuses a package before it writes, or a directory that is there already;
\* the static and material checks refuse what has been written.
Build ==
  /\ phase = "build" /\ job.package = "good" /\ ~Occupied
  /\ tree' = tree \cup {Directory} /\ phase' = "write"
  /\ UNCHANGED <<journal, tornEntry, record, ledger, ready, doubled, time, job, call, sent, looks>>

BuildFails ==
  /\ phase = "build" /\ (job.package # "good" \/ Occupied)
  /\ LET written == job.package # "early" /\ ~Occupied
         root == IF job.root # None THEN job.root
                 ELSE IF written THEN "static" ELSE "materialization"
     IN  /\ tree' = IF written THEN tree \cup {Directory} ELSE tree
         /\ job' = [job EXCEPT !.root = root]
  /\ \/ job.repairs < AllowedRepairs /\ Ask("repair", call.slot)
     \/ job.repairs >= AllowedRepairs /\ phase' = "reject" /\ UNCHANGED <<call, sent>>
  /\ UNCHANGED <<journal, tornEntry, record, ledger, ready, doubled, time, looks>>

\* The rejection is counted and its entry written; the next iteration begins, or the third
\* occurrence of one root failure closes research.
Reject ==
  /\ phase = "reject"
  /\ LET family == job.proposal.family
         seen == Counted(job.seen, job.root, family)
         entry == [root |-> job.root, family |-> family, total |-> seen.roots[job.root],
                   streak |-> seen.streak, familyTotal |-> seen.families[family],
                   blocked |-> seen.families[family] >= 2]
     IN  /\ journal' = Append(journal, entry) /\ tree' = {}
         /\ \/ entry.total >= 3 /\ phase' = "close" /\ Ended
            \/ entry.total < 3 /\ phase' = "admit" /\ job' = FreshJob(seen)
               /\ UNCHANGED <<call, sent>>
  /\ UNCHANGED <<tornEntry, record, ledger, ready, doubled, time, looks>>

WriteRecord ==
  /\ phase = "write"
  /\ record' = [iter |-> Iteration, context |-> job.context, proposal |-> job.proposal,
                repairs |-> job.repairs]
  /\ phase' = "store"
  /\ UNCHANGED <<journal, tornEntry, tree, ledger, ready, doubled, time, job, call, sent, looks>>

\* Source, diff and transcript of the branch become artifacts.
StoreLineage ==
  /\ phase = "store" /\ "lineage" \notin doubled /\ phase' = "register"
  /\ UNCHANGED <<files, time, job, call, sent, looks>>

\* _ensure_lineage_ledger: experiment, proposal, PROPOSED, source, MATERIALIZED, RUNNING,
\* each written only if it is missing.
LedgerFacts == 6
Registered == phase = "register" /\ ledger = LedgerFacts
Register ==
  /\ phase = "register" /\ ledger < LedgerFacts
  /\ ledger' = ledger + 1
  /\ UNCHANGED <<journal, tornEntry, tree, record, ready, doubled, time, phase, job, call, sent, looks>>

\* The list of rejections becomes an artifact.  A list that was left doubled may be another one.
StoreRejections ==
  /\ Registered /\ phase' = "ready"
  /\ UNCHANGED <<files, time, job, call, sent, looks>>

\* An artifact that is there already must have one link.
StoreRefused ==
  /\ \/ phase = "store" /\ "lineage" \in doubled
     \/ (Registered \/ phase = "close") /\ "rejections" \in doubled
  /\ Refused("object")

\* LINEAGE_READY, which retains what it was first written with.
Frozen == IF ready = None
          THEN [context |-> job.context, proposal |-> job.proposal, repairs |-> job.repairs]
          ELSE ready
LineageReady ==
  /\ phase = "ready" /\ ready' = Frozen /\ phase' = "science" /\ Ended
  /\ UNCHANGED <<journal, tornEntry, tree, record, ledger, doubled, time, looks>>

Handoff ==
  /\ phase = "close" /\ phase' = "closed"
  /\ UNCHANGED <<files, time, job, call, sent, looks>>

(***************************************************************************)
(* Environment                                                             *)
(***************************************************************************)
\* Time is read when a pass begins, when an iteration is admitted and before an attempt.
Tick ==
  /\ phase \in {"down", "admit", "call"} /\ time < Reserve /\ time' = time + 1
  /\ UNCHANGED <<files, phase, job, call, sent, looks>>

Dies ==
  /\ phase \notin {"down", "closed"} /\ deaths < MaxDeaths
  /\ phase' = "down" /\ deaths' = deaths + 1 /\ Ended
  /\ UNCHANGED <<time, refusals>>

Die == Dies /\ UNCHANGED files

\* A death, or an interrupt, in the middle of a file or of a directory.
DieWriting ==
  /\ Dies
  /\ \/ phase = "reject" /\ tornEntry' = TRUE /\ UNCHANGED <<tree, record>>
     \/ phase = "write" /\ record' = Torn /\ UNCHANGED <<tornEntry, tree>>
     \/ phase = "build" /\ job.package # "early" /\ tree' = tree \cup {Directory}
        /\ UNCHANGED <<tornEntry, record>>
  /\ UNCHANGED <<journal, ledger, ready, doubled>>

\* A kill between the two links.  The artifacts of a branch are all there once its facts are.
Doubles(thing) == doubled' = doubled \cup {thing}
DieLinking ==
  /\ Dies
  /\ \/ phase = "store" /\ ledger = 0 /\ Doubles("lineage") /\ UNCHANGED ready
     \/ (Registered \/ phase = "close") /\ Doubles("rejections") /\ UNCHANGED ready
     \/ phase = "ready" /\ ready = None /\ Doubles("checkpoint") /\ ready' = Frozen
     \/ phase = "close" /\ Doubles("checkpoint") /\ UNCHANGED ready
  /\ UNCHANGED <<journal, tornEntry, tree, record, ledger>>

Next ==
  \/ ResumeUnread \/ ResumeLate \/ ResumeRefused \/ ResumeRepeated \/ Resume
  \/ StopAdmission \/ Propose \/ Rehydrate \/ RehydrateRefused
  \/ AnswerRefused \/ SendFails \/ RateLimited \/ AnswerMalformed \/ NoTimeLeft
  \/ \E p \in Proposals : ProposalAnswered(p)
  \/ \E package \in Packages : PackageAnswered(package)
  \/ Build \/ BuildFails \/ Reject \/ WriteRecord \/ StoreLineage \/ Register
  \/ StoreRejections \/ StoreRefused \/ LineageReady \/ Handoff
  \/ Tick \/ Die \/ DieWriting \/ DieLinking

Spec == Init /\ [][Next]_vars

(***************************************************************************)
(* Properties                                                              *)
(***************************************************************************)
\* Every variable has its type; no repair or retry passes its bound.
TypeOK ==
  /\ journal \in Seq(Entry) /\ tornEntry \in BOOLEAN /\ tree \subseteq Proposals \X (0 .. MaxRepairs)
  /\ record \in {None, Torn} \cup Branch /\ ledger \in 0 .. LedgerFacts
  /\ ready \in {None} \cup [context : Context, proposal : Proposals, repairs : 0 .. MaxRepairs]
  /\ doubled \subseteq {"lineage", "rejections", "checkpoint"} /\ time \in 0 .. Reserve
  /\ phase \in {"down", "admit", "call", "build", "reject", "write", "store", "register", "ready",
                "science", "close", "closed"}
  /\ job \in Job /\ call \in Call /\ sent \in [1 .. Slots -> Nat]
  /\ refusals \subseteq {"entry", "cap", "counters", "record", "context", "object", "checkpoint"}
  /\ deaths \in Nat

\* Whatever was forgotten in between, the provider is asked nothing once one root failure is in
\* the journal three times, and asked to implement or repair nothing of a family that the
\* journal has twice (README.md:89-96, _proposal_family_is_blocked).
JournalGoverns ==
  phase = "call" =>
    /\ ~RepeatedFailure
    /\ call.op # "propose" =>
         Cardinality({k \in DOMAIN journal : journal[k].family = job.proposal.family}) < 2

\* Retries of several kinds, one after the other, never send more than their separate
\* allowances to one endpoint, and nothing goes to an endpoint before those ahead of it are
\* given up (OpenAIChatCompletionsModel._call, OpenAIFailoverModel._call).
CallBounded ==
  phase = "call" =>
    \A s \in 1 .. Slots :
      /\ sent[s] <= 1 + MaxTransport + MaxMalformed
      /\ s > call.slot => sent[s] = 0

\* The counters and the cap of a journal that a dead command left never refuse a pass.  What does
\* was left by a death, and lies there for the reader to see: a file cut short, an artifact or a
\* checkpoint with two links, or a record whose context is gone (_load_rejection_journal,
\* _prepare_live_lineage_portfolio, ArtifactStore.verify, _bounded_regular_bytes).
RefusalExplained ==
  /\ refusals # {} => deaths > 0
  /\ refusals \cap {"cap", "counters"} = {}
  /\ "entry" \in refusals => tornEntry
  /\ "record" \in refusals => record = Torn
  /\ "context" \in refusals => ready = None /\ record \notin {None, Torn}
  /\ "object" \in refusals => doubled \cap {"lineage", "rejections"} # {}
  /\ "checkpoint" \in refusals => "checkpoint" \in doubled

\* A recorded branch is the one of the campaign for good: the provider is not asked again, no
\* rejection comes after it, and store and LINEAGE_READY tell of the recorded branch.
AcceptedKept ==
  /\ record \notin {None, Torn} => phase \notin {"call", "build", "reject", "write"}
  /\ record \notin {None, Torn} => record.iter = Iteration
  /\ ledger > 0 \/ ready # None => record \notin {None, Torn}
  /\ ready # None => /\ ready.context = record.context /\ ready.proposal = record.proposal
                     /\ ready.repairs = record.repairs /\ ledger = LedgerFacts

=============================================================================
