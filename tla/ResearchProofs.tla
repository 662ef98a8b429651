--------------------------- MODULE ResearchProofs ---------------------------
(***************************************************************************)
(* Proofs about Research, for any families and proposals, any number of    *)
(* iterations, endpoints, retries and deaths.  The inductive invariant     *)
(* says what a command knows in each phase: Working (the branch in hand),  *)
(* Sent (requests against the state of the call), Tallied (the counters in *)
(* memory are those of the journal), Kept (who agrees with the record) and *)
(* Refusals (why no later pass can undo a refusal).                        *)
(***************************************************************************)
EXTENDS Research, FiniteSetTheorems, TLAPS

\* A branch is in the making, or the loop over the iterations runs.
Making == {"call", "build", "reject", "write"}
Accepting == {"store", "register", "ready"}
Looping == Making \cup Accepting \cup {"admit"}

Working ==
  /\ phase \in Making =>
       /\ Len(journal) < MaxIterations /\ record = None
       /\ job.context.records = Len(journal) /\ job.context.time <= time
  /\ phase \in {"build", "reject", "write"} \cup Accepting => job.proposal \in Proposals
  /\ phase = "call" /\ call.op # "propose" => job.proposal \in Proposals
  /\ phase = "call" /\ call.op = "repair" => job.repairs < AllowedRepairs
  /\ phase = "reject" => job.root \in Roots

Sent ==
  phase = "call" =>
    /\ sent[call.slot] = call.transport + call.malformed
    /\ \A s \in 1 .. Slots : /\ s < call.slot => sent[s] <= 1 + MaxTransport + MaxMalformed
                             /\ s > call.slot => sent[s] = 0

Of(family) == {k \in DOMAIN journal : journal[k].family = family}

Tallied ==
  /\ Len(journal) <= MaxIterations /\ Consistent
  /\ \A f \in Families :
       Cardinality(Of(f)) >= 2 => \E k \in DOMAIN journal : journal[k].blocked /\ journal[k].family = f
  /\ phase \in Looping => job.seen = Recounted /\ ~RepeatedFailure
  /\ phase = "build" \/ (phase = "call" /\ call.op # "propose") =>
       Cardinality(Of(job.proposal.family)) < 2

Kept ==
  /\ AcceptedKept
  /\ phase = "ready" => ledger = LedgerFacts
  /\ phase \in Accepting =>
       /\ record \notin {None, Torn} /\ record.context = job.context
       /\ record.proposal = job.proposal /\ record.repairs = job.repairs
  /\ record \notin {None, Torn} =>
       record.context.records = Len(journal) /\ record.context.time <= time

Refusals ==
  /\ RefusalExplained
  /\ "context" \in refusals => phase \notin Accepting /\ record.context.time < time
  /\ tornEntry \/ record = Torn \/ doubled # {} => deaths > 0
  /\ record \notin {None, Torn} /\ phase \notin Accepting \cup {"science"} /\ ready = None => deaths > 0

IInv == TypeOK /\ Working /\ Sent /\ Tallied /\ Kept /\ Refusals


-----------------------------------------------------------------------------
(* Types.                                                                  *)

\* What the journal counts is a finite set of its positions.
LEMMA FiniteCount ==
  ASSUME NEW n \in Nat, NEW S \in SUBSET (1 .. n)
  PROVE  IsFiniteSet(S) /\ Cardinality(S) \in Nat
<1>1. IsFiniteSet(1 .. n)
  BY FS_Interval
<1> QED
  BY <1>1, FS_Subset, FS_CardinalityType

\* Counters read from the journal, or none, are well typed.
LEMMA RecountedTyped ==
  ASSUME TypeOK
  PROVE  Recounted \in Seen /\ NothingSeen \in Seen
<1>1. Len(journal) \in Nat /\ DOMAIN journal = 1 .. Len(journal)
  BY DEF TypeOK
<1>2. \A r \in Roots : Cardinality({k \in DOMAIN journal : journal[k].root = r}) \in Nat
  BY <1>1, FiniteCount
<1>3. \A f \in Families : Cardinality({k \in DOMAIN journal : journal[k].family = f}) \in Nat
  BY <1>1, FiniteCount
<1>4. Streak(Len(journal)) \in Nat
  BY <1>1, FiniteCount DEF Streak
<1>5. journal # <<>> => journal[Len(journal)].root \in Roots
  <2> SUFFICES ASSUME journal # <<>> PROVE journal[Len(journal)].root \in Roots
    OBVIOUS
  <2>1. Len(journal) \in 1 .. Len(journal)
    BY <1>1 DEF TypeOK
  <2>2. journal[Len(journal)] \in Entry
    BY <2>1 DEF TypeOK
  <2> QED
    BY <2>2 DEF Entry
<1> QED
  BY <1>2, <1>3, <1>4, <1>5 DEF Recounted, NothingSeen, Seen

LEMMA FreshTyped ==
  /\ \A seen \in Seen : FreshJob(seen) \in Job
  /\ \A op \in Operations, slot \in 1 .. Slots : FreshCall(op, slot) \in Call
  /\ NothingSent \in [1 .. Slots -> Nat]
<1>1. NoContext \in Context /\ MaxTransport \in Nat /\ MaxMalformed \in Nat
  BY ResearchAssumption DEF NoContext, Context
<1>2. ASSUME NEW seen \in Seen PROVE FreshJob(seen) \in Job
  BY <1>1 DEF FreshJob, Job, MaxRepairs
<1>3. ASSUME NEW op \in Operations, NEW slot \in 1 .. Slots PROVE FreshCall(op, slot) \in Call
  BY <1>1 DEF FreshCall, Call
<1> QED
  BY <1>2, <1>3 DEF NothingSent

\* The control state after a command has ended.
LEMMA EndedTyped ==
  ASSUME TypeOK, Ended
  PROVE  job' \in Job /\ call' \in Call /\ sent' \in [1 .. Slots -> Nat]
<1>1. "propose" \in Operations /\ 1 \in 1 .. Slots
  BY ResearchAssumption DEF Operations
<1> QED
  BY <1>1, FreshTyped, RecountedTyped DEF Ended, Idle

\* A step that closes research changes nothing on disk.
LEMMA ClosesTyped ==
  ASSUME TypeOK, Closes
  PROVE  TypeOK'
<1>1. job' \in Job /\ call' \in Call /\ sent' \in [1 .. Slots -> Nat]
  BY EndedTyped DEF Closes
<1> QED
  BY <1>1 DEF Closes, TypeOK, files, looks

LEMMA AgainTyped ==
  ASSUME TypeOK, NEW next \in Call, Again(next)
  PROVE  TypeOK'
<1>1. sent' \in [1 .. Slots -> Nat]
  BY DEF Again, Counts, TypeOK, Call
<1> QED
  BY <1>1 DEF Again, TypeOK, files, looks

LEMMA GiveUpTyped ==
  ASSUME TypeOK, GiveUpSlot
  PROVE  TypeOK'
<1>1. CASE call.slot < Slots /\ Again(FreshCall(call.op, call.slot + 1))
  <2>1. call.op \in Operations /\ call.slot + 1 \in 1 .. Slots
    BY <1>1, ResearchAssumption DEF TypeOK, Call
  <2> QED
    BY <1>1, <2>1, FreshTyped, AgainTyped
<1> QED
  BY <1>1, ClosesTyped DEF GiveUpSlot

\* The state of the call after an attempt that is repeated at the same endpoint.
LEMMA RetryTyped ==
  ASSUME NEW c \in Call
  PROVE  /\ c.transport < MaxTransport => [c EXCEPT !.transport = @ + 1, !.limited = 0] \in Call
         /\ c.transport < MaxTransport /\ c.limited = 0 =>
              [c EXCEPT !.transport = @ + 1, !.limited = @ + 1] \in Call
         /\ c.malformed < MaxMalformed => [c EXCEPT !.malformed = @ + 1] \in Call
<1>1. /\ c.transport \in 0 .. MaxTransport /\ c.malformed \in 0 .. MaxMalformed
      /\ c.limited \in 0 .. 1 /\ c.slot \in 1 .. Slots /\ c.op \in Operations
  BY DEF Call
<1>2. /\ c.transport < MaxTransport => c.transport + 1 \in 0 .. MaxTransport
      /\ c.malformed < MaxMalformed => c.malformed + 1 \in 0 .. MaxMalformed
      /\ c.limited = 0 => c.limited + 1 \in 0 .. 1
  BY <1>1, ResearchAssumption
<1>3. ASSUME c.transport < MaxTransport, NEW l \in 0 .. 1
      PROVE  [c EXCEPT !.transport = c.transport + 1, !.limited = l] \in Call
  BY <1>2, <1>3 DEF Call
<1>4. c.malformed < MaxMalformed => [c EXCEPT !.malformed = c.malformed + 1] \in Call
  BY <1>2 DEF Call
<1>5. 0 \in 0 .. 1
  OBVIOUS
<1> QED
  BY <1>2, <1>3, <1>4, <1>5

LEMMA AttemptTyped ==
  ASSUME TypeOK, AnswerRefused \/ SendFails \/ RateLimited \/ AnswerMalformed
  PROVE  TypeOK'
<1>1. call \in Call
  BY DEF TypeOK
<1> QED
  BY <1>1, RetryTyped, AgainTyped, GiveUpTyped
  DEF AnswerRefused, SendFails, RateLimited, AnswerMalformed, MayRetry, MayWait, AfterMalformed

LEMMA RefusedTyped ==
  ASSUME TypeOK, 
         NEW reason \in {"entry", "cap", "counters", "record", "context", "object", "checkpoint"},
         Refused(reason)
  PROVE  TypeOK'
<1>1. job' \in Job /\ call' \in Call /\ sent' \in [1 .. Slots -> Nat]
  BY EndedTyped DEF Refused
<1> QED
  BY <1>1 DEF Refused, TypeOK, files

\* A context taken now is one the model knows.
LEMMA ContextTyped ==
  ASSUME TypeOK, Len(journal) <= MaxIterations
  PROVE  ContextNow \in Context
<1>1. CASE ready = None
  BY <1>1, ResearchAssumption DEF ContextNow, TypeOK, Context
<1>2. CASE ready # None
  BY <1>2 DEF ContextNow, TypeOK
<1> QED
  BY <1>1, <1>2

LEMMA AskTyped ==
  ASSUME TypeOK, NEW op \in Operations, Ask(op, call.slot)
  PROVE  call' \in Call /\ sent' \in [1 .. Slots -> Nat] /\ phase' = "call"
<1>1. call.slot \in 1 .. Slots
  BY DEF TypeOK, Call
<1> QED
  BY <1>1, FreshTyped DEF Ask

LEMMA ProposeTyped ==
  ASSUME TypeOK, Propose
  PROVE  TypeOK'
<1>1. ContextNow \in Context
  <2>1. Len(journal) \in Nat /\ Len(journal) + 1 <= MaxIterations
    BY DEF Propose, Iteration, TypeOK
  <2> QED
    BY <2>1, ContextTyped, ResearchAssumption
<1>2. job' \in Job
  BY <1>1 DEF Propose, TypeOK, Job
<1>3. call' \in Call /\ sent' \in [1 .. Slots -> Nat] /\ phase' = "call"
  BY AskTyped DEF Propose, Operations
<1> QED
  BY <1>2, <1>3 DEF Propose, TypeOK, files, looks

LEMMA RehydrateTyped ==
  ASSUME TypeOK, Rehydrate
  PROVE  TypeOK'
<1>1. record \in Branch
  BY DEF Rehydrate, RecordMatches, TypeOK
<1>2. record.context \in Context /\ record.proposal \in Proposals /\ record.repairs \in 0 .. MaxRepairs
  BY <1>1 DEF Branch
<1>3. job' \in Job
  BY <1>2 DEF Rehydrate, TypeOK, Job, Packages
<1> QED
  BY <1>3 DEF Rehydrate, TypeOK, files, looks

LEMMA AnsweredTyped ==
  ASSUME TypeOK, Working,
         (\E p \in Proposals : ProposalAnswered(p)) \/ (\E k \in Packages : PackageAnswered(k))
  PROVE  TypeOK'
<1>1. call.slot \in 1 .. Slots /\ {"propose", "implement"} \subseteq Operations
  BY DEF TypeOK, Call, Operations
<1>2. ASSUME NEW p \in Proposals, ProposalAnswered(p) PROVE TypeOK'
  <2>1. p.family \in Roots
    BY ResearchAssumption DEF Roots
  <2>2. job' \in Job
    BY <1>2, <2>1 DEF ProposalAnswered, TypeOK, Job
  <2>3. call' \in Call /\ sent' \in [1 .. Slots -> Nat] /\ phase' \in {"reject", "call"}
    <3>1. /\ call' = FreshCall("propose", call.slot) \/ call' = FreshCall("implement", call.slot)
          /\ sent' = NothingSent /\ phase' \in {"reject", "call"}
      BY <1>2 DEF ProposalAnswered, Ask, Idle
    <3>2. FreshCall("propose", call.slot) \in Call /\ FreshCall("implement", call.slot) \in Call
      BY <1>1, FreshTyped
    <3> QED
      BY <3>1, <3>2, FreshTyped
  <2> QED
    BY <1>2, <2>2, <2>3 DEF ProposalAnswered, TypeOK, files, looks
<1>3. ASSUME NEW k \in Packages, PackageAnswered(k) PROVE TypeOK'
  <2>1. job.repairs + 1 \in 0 .. MaxRepairs \/ call.op # "repair"
    <3> SUFFICES ASSUME call.op = "repair" PROVE job.repairs + 1 \in 0 .. MaxRepairs
      OBVIOUS
    <3>1. job.repairs < AllowedRepairs /\ job.proposal \in Proposals
      BY <1>3 DEF PackageAnswered, MaySend, Working
    <3>2. job.proposal.repairs \in Nat /\ job.repairs \in 0 .. MaxRepairs
      BY <3>1, ResearchAssumption DEF TypeOK, Job
    <3> QED
      BY <3>1, <3>2 DEF AllowedRepairs, MaxRepairs
  <2>2. job' \in Job
    <3>1. /\ job' = [job EXCEPT !.package = k,
                                !.repairs = IF call.op = "repair" THEN job.repairs + 1 ELSE job.repairs]
          /\ job \in Job
      BY <1>3 DEF PackageAnswered, TypeOK
    <3>2. (IF call.op = "repair" THEN job.repairs + 1 ELSE job.repairs) \in 0 .. MaxRepairs
      BY <2>1, <3>1 DEF Job
    <3> QED
      BY <3>1, <3>2 DEF Job
  <2>3. call' \in Call /\ sent' \in [1 .. Slots -> Nat]
    BY <1>1, <1>3, FreshTyped DEF PackageAnswered, Idle
  <2> QED
    BY <1>3, <2>2, <2>3 DEF PackageAnswered, TypeOK, files, looks
<1> QED
  BY <1>2, <1>3

LEMMA BuildTyped ==
  ASSUME TypeOK, Working, Build \/ BuildFails
  PROVE  TypeOK'
<1>1. phase = "build" /\ Directory \in Proposals \X (0 .. MaxRepairs)
  BY DEF Build, BuildFails, Working, Directory, TypeOK, Job
<1>2. CASE Build
  BY <1>1, <1>2 DEF Build, TypeOK, looks
<1>3. CASE BuildFails
  <2>1. tree' \subseteq Proposals \X (0 .. MaxRepairs)
    BY <1>1, <1>3 DEF BuildFails, TypeOK
  <2>2. job' \in Job
    BY <1>3 DEF BuildFails, TypeOK, Job, Roots, Faults
  <2>3. call' \in Call /\ sent' \in [1 .. Slots -> Nat] /\ phase' \in {"call", "reject"}
    <3>1. CASE Ask("repair", call.slot)
      BY <3>1, AskTyped DEF Operations
    <3>2. CASE phase' = "reject" /\ UNCHANGED <<call, sent>>
      BY <3>2 DEF TypeOK
    <3> QED
      BY <1>3, <3>1, <3>2 DEF BuildFails
  <2> QED
    BY <1>3, <2>1, <2>2, <2>3 DEF BuildFails, TypeOK, looks
<1> QED
  BY <1>2, <1>3

\* One more rejection keeps the counters well typed and positive where it counts.
LEMMA CountedTyped ==
  ASSUME NEW seen \in Seen, NEW root \in Roots, NEW family \in Families
  PROVE  /\ Counted(seen, root, family) \in Seen
         /\ Counted(seen, root, family).roots[root] \in Nat \ {0}
         /\ Counted(seen, root, family).families[family] \in Nat \ {0}
         /\ Counted(seen, root, family).streak \in Nat \ {0}
<1>1. seen.roots \in [Roots -> Nat] /\ seen.families \in [Families -> Nat] /\ seen.streak \in Nat
  BY DEF Seen
<1> DEFINE rs == [seen.roots EXCEPT ![root] = @ + 1]
           fs == [seen.families EXCEPT ![family] = @ + 1]
           st == IF root = seen.previous THEN seen.streak + 1 ELSE 1
<1>2. rs \in [Roots -> Nat] /\ fs \in [Families -> Nat] /\ st \in Nat \ {0}
      /\ rs[root] \in Nat \ {0} /\ fs[family] \in Nat \ {0}
  BY <1>1
<1>3. Counted(seen, root, family) = [roots |-> rs, families |-> fs, previous |-> root, streak |-> st]
  BY DEF Counted
<1> HIDE DEF rs, fs, st
<1> QED
  BY <1>2, <1>3 DEF Seen

LEMMA RejectTyped ==
  ASSUME TypeOK, Working, Reject
  PROVE  TypeOK'
<1> DEFINE family == job.proposal.family
           seen == Counted(job.seen, job.root, family)
           entry == [root |-> job.root, family |-> family, total |-> seen.roots[job.root],
                     streak |-> seen.streak, familyTotal |-> seen.families[family],
                     blocked |-> seen.families[family] >= 2]
<1>1. job.root \in Roots /\ family \in Families /\ job.seen \in Seen
  BY ResearchAssumption DEF Reject, Working, TypeOK, Job
<1>2. /\ seen \in Seen /\ seen.streak \in Nat \ {0}
      /\ seen.roots[job.root] \in Nat \ {0} /\ seen.families[family] \in Nat \ {0}
  BY <1>1, CountedTyped
<1>3. entry \in Entry
  <2> HIDE DEF seen, family
  <2> QED
    BY <1>1, <1>2 DEF Entry
<1>4. /\ journal' = Append(journal, entry) /\ tree' = {}
      /\ \/ phase' = "close" /\ Ended
         \/ phase' = "admit" /\ job' = FreshJob(seen) /\ UNCHANGED <<call, sent>>
      /\ UNCHANGED <<tornEntry, record, ledger, ready, doubled, time, looks>>
  BY DEF Reject
<1> HIDE DEF entry, seen
<1>5. job' \in Job /\ call' \in Call /\ sent' \in [1 .. Slots -> Nat]
  BY <1>2, <1>4, FreshTyped, EndedTyped DEF TypeOK
<1>6. journal' \in Seq(Entry)
  BY <1>3, <1>4 DEF TypeOK
<1> QED
  BY <1>4, <1>5, <1>6 DEF TypeOK, looks

LEMMA RecordTyped ==
  ASSUME TypeOK, Working,
         WriteRecord \/ StoreLineage \/ Register \/ StoreRejections \/ LineageReady \/ Handoff
  PROVE  TypeOK'
<1>1. CASE WriteRecord
  <2>1. job.context \in Context /\ job.repairs \in 0 .. MaxRepairs /\ job.proposal \in Proposals
    BY <1>1 DEF WriteRecord, Working, TypeOK, Job
  <2>2. Iteration \in 1 .. MaxIterations
    BY <1>1, ResearchAssumption DEF WriteRecord, Working, Making, Iteration, TypeOK
  <2> QED
    BY <1>1, <2>1, <2>2 DEF WriteRecord, TypeOK, Branch, looks
<1>2. CASE Register
  BY <1>2 DEF Register, TypeOK, LedgerFacts, looks
<1>3. CASE LineageReady
  <2>1. job.context \in Context /\ job.repairs \in 0 .. MaxRepairs /\ job.proposal \in Proposals
    BY <1>3 DEF LineageReady, Working, Accepting, TypeOK, Job
  <2>2. job' \in Job /\ call' \in Call /\ sent' \in [1 .. Slots -> Nat]
    BY <1>3, EndedTyped DEF LineageReady
  <2> QED
    BY <1>3, <2>1, <2>2 DEF LineageReady, Frozen, TypeOK, looks
<1>4. CASE StoreLineage \/ StoreRejections \/ Handoff
  BY <1>4 DEF StoreLineage, StoreRejections, Handoff, TypeOK, files, looks
<1> QED
  BY <1>1, <1>2, <1>3, <1>4

LEMMA EnvironmentTyped ==
  ASSUME TypeOK, Working, Tick \/ Die \/ DieWriting \/ DieLinking
  PROVE  TypeOK'
<1>1. CASE Tick
  BY <1>1, ResearchAssumption DEF Tick, TypeOK, files, looks
<1>2. CASE Die \/ DieWriting \/ DieLinking
  <2>1. Dies
    BY <1>2 DEF Die, DieWriting, DieLinking
  <2>2. job' \in Job /\ call' \in Call /\ sent' \in [1 .. Slots -> Nat]
    BY <2>1, EndedTyped DEF Dies
  <2>3. phase' = "down" /\ deaths' \in Nat /\ UNCHANGED <<time, refusals>>
    BY <2>1 DEF Dies, TypeOK
  <2>4. CASE Die
    BY <2>2, <2>3, <2>4 DEF Die, TypeOK, files
  <2>5. CASE DieWriting
    <3>1. phase = "build" => Directory \in Proposals \X (0 .. MaxRepairs)
      BY DEF Working, Directory, TypeOK, Job
    <3> QED
      BY <2>2, <2>3, <2>5, <3>1 DEF DieWriting, TypeOK
  <2>6. CASE DieLinking
    <3>1. /\ doubled' \subseteq {"lineage", "rejections", "checkpoint"}
          /\ ready' = ready \/ (phase = "ready" /\ ready' = Frozen)
          /\ UNCHANGED <<journal, tornEntry, tree, record, ledger>>
      BY <2>6 DEF DieLinking, Doubles, TypeOK
    <3>2. phase = "ready" =>
            job.context \in Context /\ job.repairs \in 0 .. MaxRepairs /\ job.proposal \in Proposals
      BY DEF Working, Accepting, TypeOK, Job
    <3>3. ready' \in {None} \cup [context : Context, proposal : Proposals, repairs : 0 .. MaxRepairs]
      BY <3>1, <3>2 DEF Frozen, TypeOK
    <3> QED
      BY <2>2, <2>3, <3>1, <3>3 DEF TypeOK
  <2> QED
    BY <1>2, <2>4, <2>5, <2>6
<1> QED
  BY <1>1, <1>2

LEMMA PassTyped ==
  ASSUME TypeOK, ResumeUnread \/ ResumeLate \/ ResumeRefused \/ ResumeRepeated \/ Resume
                 \/ StopAdmission \/ RehydrateRefused \/ StoreRefused \/ NoTimeLeft
  PROVE  TypeOK'
<1>1. CASE ResumeLate \/ ResumeRepeated \/ StopAdmission \/ NoTimeLeft
  BY <1>1, ClosesTyped DEF ResumeLate, ResumeRepeated, StopAdmission, NoTimeLeft
<1>2. CASE ResumeUnread \/ ResumeRefused \/ StoreRefused
  BY <1>2, RefusedTyped DEF ResumeUnread, ResumeRefused, StoreRefused, Unreadable
<1>3. CASE Resume
  <2>1. job' \in Job
    BY <1>3, RecountedTyped, FreshTyped DEF Resume
  <2> QED
    BY <1>3, <2>1 DEF Resume, TypeOK, files, looks
<1>4. CASE RehydrateRefused
  BY <1>4, RefusedTyped DEF RehydrateRefused
<1> QED
  BY <1>1, <1>2, <1>3, <1>4

LEMMA TypeStep ==
  ASSUME TypeOK, Working, [Next]_vars
  PROVE  TypeOK'
<1>1. CASE UNCHANGED vars
  BY <1>1 DEF vars, files, looks, TypeOK
<1>2. CASE Next
  BY <1>2, PassTyped, ProposeTyped, RehydrateTyped, AttemptTyped, AnsweredTyped, BuildTyped,
     RejectTyped, RecordTyped, EnvironmentTyped
  DEF Next
<1> QED
  BY <1>1, <1>2

-----------------------------------------------------------------------------
(* The branch in hand, and the requests of the call.                       *)

\* Outside the making and the registration of a branch nothing is claimed of either.
LEMMA Quiet ==
  ASSUME phase' \notin Making \cup Accepting
  PROVE  Working' /\ Sent'
  BY DEF Working, Sent, Making, Accepting

\* Steps that end in such a phase.
LEMMA QuietStep ==
  ASSUME ResumeUnread \/ ResumeLate \/ ResumeRefused \/ ResumeRepeated \/ Resume
         \/ StopAdmission \/ RehydrateRefused \/ StoreRefused \/ NoTimeLeft \/ Reject
         \/ LineageReady \/ Handoff \/ Die \/ DieWriting \/ DieLinking
  PROVE  phase' \notin Making \cup Accepting
  BY DEF ResumeUnread, ResumeLate, ResumeRefused, ResumeRepeated, Resume, StopAdmission,
     RehydrateRefused, StoreRefused, NoTimeLeft, Reject, LineageReady, Handoff, Die, DieWriting,
     DieLinking, Dies, Closes, Refused, Making, Accepting

\* A new call has sent nothing.
LEMMA FreshSent ==
  ASSUME call.slot \in 1 .. Slots, NEW op, call' = FreshCall(op, call.slot), sent' = NothingSent
  PROVE  Sent' /\ call'.op = op
<1>1. call'.slot \in 1 .. Slots /\ call'.transport = 0 /\ call'.malformed = 0 /\ call'.op = op
  BY DEF FreshCall
<1>2. \A s \in 1 .. Slots : sent'[s] = 0
  BY DEF NothingSent
<1> QED
  BY <1>1, <1>2, ResearchAssumption DEF Sent

LEMMA ProposeWorks ==
  ASSUME TypeOK, Working, Kept, Propose
  PROVE  Working' /\ Sent'
<1>1. call.slot \in 1 .. Slots /\ job \in Job /\ Len(journal) \in Nat
  BY DEF TypeOK, Call
<1>2. call' = FreshCall("propose", call.slot) /\ sent' = NothingSent /\ phase' = "call"
  BY DEF Propose, Ask
<1>3. record = None
  BY DEF Propose, MustPropose
<1>4. ready = None
  BY <1>3 DEF Kept, AcceptedKept
<1>5. job'.context.records = Len(journal) /\ job'.context.time = time /\ time \in Nat
  BY <1>1, <1>4 DEF Propose, ContextNow, Job, TypeOK
<1>6. Len(journal) < MaxIterations
  BY <1>1, ResearchAssumption DEF Propose, Iteration
<1>7. UNCHANGED <<journal, record, time>>
  BY DEF Propose, files
<1>8. Sent' /\ call'.op = "propose"
  BY <1>1, <1>2, FreshSent
<1> QED
  BY <1>2, <1>3, <1>5, <1>6, <1>7, <1>8 DEF Working, Accepting

LEMMA RehydrateWorks ==
  ASSUME TypeOK, Rehydrate
  PROVE  Working' /\ Sent'
<1>1. record \in Branch /\ phase' = "store"
  BY DEF Rehydrate, RecordMatches, TypeOK
<1>2. job'.proposal \in Proposals
  BY <1>1 DEF Rehydrate, Branch, TypeOK, Job
<1> QED
  BY <1>1, <1>2 DEF Working, Sent, Making

\* An attempt is repeated: at the same endpoint, or as a new call at the next one.
LEMMA AgainWorks ==
  ASSUME TypeOK, Working, Sent, NEW next \in Call, Again(next), phase = "call",
         next.op = call.op,
         \/ next.slot = call.slot /\ next.transport + next.malformed = call.transport + call.malformed + 1
         \/ next = FreshCall(call.op, call.slot + 1)
  PROVE  Working' /\ Sent'
<1>1. /\ phase' = "call" /\ call' = next /\ UNCHANGED <<journal, record, time, job>>
      /\ sent' = [sent EXCEPT ![call.slot] = @ + 1]
  BY DEF Again, Counts, files
<1>2. Working'
  BY <1>1 DEF Working, AllowedRepairs
<1>3. /\ call.slot \in 1 .. Slots /\ call.transport \in 0 .. MaxTransport
      /\ call.malformed \in 0 .. MaxMalformed /\ sent \in [1 .. Slots -> Nat]
  BY DEF TypeOK, Call
<1>4. /\ sent[call.slot] = call.transport + call.malformed
      /\ \A s \in 1 .. Slots : /\ s < call.slot => sent[s] <= 1 + MaxTransport + MaxMalformed
                               /\ s > call.slot => sent[s] = 0
  BY DEF Sent
<1>5. /\ sent'[call.slot] = call.transport + call.malformed + 1
      /\ \A s \in 1 .. Slots : s # call.slot => sent'[s] = sent[s]
  BY <1>1, <1>3, <1>4
<1>6. CASE next.slot = call.slot
           /\ next.transport + next.malformed = call.transport + call.malformed + 1
  <2>1. sent'[next.slot] = next.transport + next.malformed
    BY <1>5, <1>6
  <2>2. \A s \in 1 .. Slots : /\ s < next.slot => sent'[s] <= 1 + MaxTransport + MaxMalformed
                              /\ s > next.slot => sent'[s] = 0
    BY <1>3, <1>4, <1>5, <1>6
  <2> QED
    BY <1>1, <1>2, <2>1, <2>2 DEF Sent
<1>7. CASE next = FreshCall(call.op, call.slot + 1)
  <2>1. next.slot = call.slot + 1 /\ next.transport = 0 /\ next.malformed = 0 /\ next.slot \in 1 .. Slots
    BY <1>7 DEF FreshCall, Call
  <2>2. call.transport + call.malformed + 1 <= 1 + MaxTransport + MaxMalformed
    BY <1>3, ResearchAssumption
  <2>3. sent'[call.slot] <= 1 + MaxTransport + MaxMalformed /\ sent'[call.slot + 1] = 0
    BY <1>3, <1>4, <1>5, <2>1, <2>2
  <2> QED
    <3>1. sent'[next.slot] = next.transport + next.malformed
      BY <2>1, <2>3
    <3>2. \A s \in 1 .. Slots : /\ s < next.slot => sent'[s] <= 1 + MaxTransport + MaxMalformed
                                /\ s > next.slot => sent'[s] = 0
      BY <1>3, <1>4, <1>5, <2>1, <2>3
    <3> QED
      BY <1>1, <1>2, <3>1, <3>2 DEF Sent
<1> QED
  BY <1>2, <1>6, <1>7

LEMMA GiveUpWorks ==
  ASSUME TypeOK, Working, Sent, GiveUpSlot, phase = "call"
  PROVE  Working' /\ Sent'
<1>1. CASE call.slot < Slots /\ Again(FreshCall(call.op, call.slot + 1))
  <2>1. call.op \in Operations /\ call.slot + 1 \in 1 .. Slots
    BY <1>1, ResearchAssumption DEF TypeOK, Call
  <2>2. FreshCall(call.op, call.slot + 1) \in Call /\ FreshCall(call.op, call.slot + 1).op = call.op
    BY <2>1, FreshTyped DEF FreshCall
  <2> QED
    BY <1>1, <2>2, AgainWorks
<1>2. CASE Closes
  BY <1>2, Quiet DEF Closes, Making, Accepting
<1> QED
  BY <1>1, <1>2 DEF GiveUpSlot

\* What a repeated attempt at the same endpoint leaves of the state of the call.
LEMMA RetryCounts ==
  ASSUME NEW c \in Call
  PROVE  /\ \A l \in 0 .. 1 :
              LET next == [c EXCEPT !.transport = c.transport + 1, !.limited = l]
              IN  /\ next.op = c.op /\ next.slot = c.slot
                  /\ next.transport + next.malformed = c.transport + c.malformed + 1
         /\ LET next == [c EXCEPT !.malformed = c.malformed + 1]
            IN  /\ next.op = c.op /\ next.slot = c.slot
                /\ next.transport + next.malformed = c.transport + c.malformed + 1
<1>1. c.transport \in Int /\ c.malformed \in Int
  BY ResearchAssumption DEF Call
<1> QED
  BY <1>1 DEF Call

LEMMA AttemptWorks ==
  ASSUME TypeOK, Working, Sent, AnswerRefused \/ SendFails \/ RateLimited \/ AnswerMalformed
  PROVE  Working' /\ Sent'
<1>1. call \in Call /\ phase = "call" /\ 0 \in 0 .. 1
  BY DEF TypeOK, AnswerRefused, SendFails, RateLimited, AnswerMalformed, MaySend
<1>2. CASE GiveUpSlot
  BY <1>1, <1>2, GiveUpWorks
<1>3. CASE MayRetry /\ Again([call EXCEPT !.transport = @ + 1, !.limited = 0])
  <2> DEFINE next == [call EXCEPT !.transport = call.transport + 1, !.limited = 0]
  <2>1. next \in Call
    BY <1>1, <1>3, RetryTyped DEF MayRetry
  <2>2. /\ next.op = call.op /\ next.slot = call.slot
        /\ next.transport + next.malformed = call.transport + call.malformed + 1
    BY <1>1, RetryCounts
  <2> HIDE DEF next
  <2> QED
    BY <1>1, <1>3, <2>1, <2>2, AgainWorks DEF next
<1>4. CASE MayWait /\ Again([call EXCEPT !.transport = @ + 1, !.limited = @ + 1])
  <2> DEFINE next == [call EXCEPT !.transport = call.transport + 1, !.limited = call.limited + 1]
  <2>1. next \in Call
    BY <1>1, <1>4, RetryTyped DEF MayWait, MayRetry
  <2>2. call.limited + 1 \in 0 .. 1
    BY <1>1, <1>4 DEF MayWait
  <2>3. /\ next.op = call.op /\ next.slot = call.slot
        /\ next.transport + next.malformed = call.transport + call.malformed + 1
    BY <1>1, <2>2, RetryCounts
  <2> HIDE DEF next
  <2> QED
    BY <1>1, <1>4, <2>1, <2>3, AgainWorks DEF next
<1>5. CASE call.malformed < MaxMalformed /\ Again(AfterMalformed)
  <2>1. AfterMalformed \in Call
    BY <1>1, <1>5, RetryTyped DEF AfterMalformed
  <2>2. /\ AfterMalformed.op = call.op /\ AfterMalformed.slot = call.slot
        /\ AfterMalformed.transport + AfterMalformed.malformed = call.transport + call.malformed + 1
    BY <1>1, RetryCounts DEF AfterMalformed
  <2> QED
    BY <1>1, <1>5, <2>1, <2>2, AgainWorks
<1> QED
  BY <1>2, <1>3, <1>4, <1>5 DEF AnswerRefused, SendFails, RateLimited, AnswerMalformed

LEMMA AnsweredWorks ==
  ASSUME TypeOK, Working, Sent,
         (\E p \in Proposals : ProposalAnswered(p)) \/ (\E k \in Packages : PackageAnswered(k))
  PROVE  Working' /\ Sent'
<1>1. /\ phase = "call" /\ call.slot \in 1 .. Slots /\ job \in Job
      /\ UNCHANGED <<journal, record, time>>
  BY DEF ProposalAnswered, PackageAnswered, MaySend, TypeOK, Call, files
<1>2. /\ Len(journal) < MaxIterations /\ record = None
      /\ job.context.records = Len(journal) /\ job.context.time <= time
  BY <1>1 DEF Working, Making
<1>3. ASSUME NEW p \in Proposals, ProposalAnswered(p) PROVE Working' /\ Sent'
  <2>1. p.family \in Roots
    BY ResearchAssumption DEF Roots
  <2>2. job'.context = job.context /\ job'.proposal = p
    BY <1>1, <1>3 DEF ProposalAnswered, Job
  <2>3. CASE phase' = "reject" /\ job' = [job EXCEPT !.proposal = p, !.root = p.family]
    <3>1. job'.root = p.family
      BY <1>1, <2>3 DEF Job
    <3> QED
      BY <1>1, <1>2, <2>1, <2>2, <2>3, <3>1 DEF Working, Sent
  <2>4. CASE Ask("implement", call.slot)
    <3>1. phase' = "call" /\ Sent' /\ call'.op = "implement"
      BY <1>1, <2>4, FreshSent DEF Ask
    <3> QED
      BY <1>1, <1>2, <2>2, <3>1 DEF Working
  <2> QED
    BY <1>3, <2>3, <2>4 DEF ProposalAnswered
<1>4. ASSUME NEW k \in Packages, PackageAnswered(k) PROVE Working' /\ Sent'
  <2>1. phase' = "build" /\ job'.context = job.context /\ job'.proposal = job.proposal
    BY <1>1, <1>4 DEF PackageAnswered, Job
  <2>2. job.proposal \in Proposals
    BY <1>1, <1>4 DEF PackageAnswered, Working
  <2> QED
    BY <1>1, <1>2, <2>1, <2>2 DEF Working, Sent
<1> QED
  BY <1>3, <1>4

LEMMA BuildWorks ==
  ASSUME TypeOK, Working, Build \/ BuildFails
  PROVE  Working' /\ Sent'
<1>1. /\ phase = "build" /\ call.slot \in 1 .. Slots /\ job \in Job
      /\ UNCHANGED <<journal, record, time>>
  BY DEF Build, BuildFails, TypeOK, Call
<1>2. /\ Len(journal) < MaxIterations /\ record = None /\ job.proposal \in Proposals
      /\ job.context.records = Len(journal) /\ job.context.time <= time
  BY <1>1 DEF Working, Making
<1>3. CASE Build
  BY <1>1, <1>2, <1>3 DEF Build, Working, Sent
<1>4. CASE BuildFails
  <2>1. PICK root \in Roots : job' = [job EXCEPT !.root = root]
    BY <1>1, <1>4 DEF BuildFails, Job, Roots, Faults
  <2>2. /\ job'.context = job.context /\ job'.proposal = job.proposal
        /\ job'.repairs = job.repairs /\ job'.root = root
    BY <1>1, <2>1 DEF Job
  <2>3. CASE job.repairs < AllowedRepairs /\ Ask("repair", call.slot)
    <3>1. phase' = "call" /\ Sent' /\ call'.op = "repair"
      BY <1>1, <2>3, FreshSent DEF Ask
    <3>2. job'.repairs < AllowedRepairs'
      BY <2>2, <2>3 DEF AllowedRepairs
    <3> QED
      BY <1>1, <1>2, <2>2, <3>1, <3>2 DEF Working
  <2>4. CASE phase' = "reject"
    BY <1>1, <1>2, <2>2, <2>4 DEF Working, Sent
  <2> QED
    BY <1>4, <2>3, <2>4 DEF BuildFails
<1> QED
  BY <1>3, <1>4

\* Writing the record, storing and registering it leave the branch in hand, and time may pass.
LEMMA OtherWorks ==
  ASSUME TypeOK, Working, Sent,
         \/ WriteRecord \/ StoreLineage \/ Register \/ StoreRejections
         \/ Tick \/ UNCHANGED vars
  PROVE  Working' /\ Sent'
<1>1. CASE WriteRecord \/ StoreLineage \/ Register \/ StoreRejections
  BY <1>1 DEF WriteRecord, StoreLineage, Register, StoreRejections, Registered, Working, Sent,
     Making, Accepting, AllowedRepairs
<1>2. CASE Tick
  <2>1. /\ time' = time + 1 /\ time \in Nat /\ UNCHANGED <<journal, record, phase, job, call, sent>>
    BY <1>2 DEF Tick, files, TypeOK
  <2>2. phase \in Making => job.context.time \in Nat
    BY DEF TypeOK, Job, Context
  <2> QED
    BY <2>1, <2>2 DEF Working, Sent, AllowedRepairs
<1>3. CASE UNCHANGED vars
  BY <1>3 DEF vars, files, looks, Working, Sent, AllowedRepairs
<1> QED
  BY <1>1, <1>2, <1>3

LEMMA WorkingStep ==
  ASSUME TypeOK, Working, Sent, Kept, [Next]_vars
  PROVE  Working' /\ Sent'
<1>1. CASE UNCHANGED vars
  BY <1>1, OtherWorks
<1>2. CASE Next
  BY <1>2, Quiet, QuietStep, ProposeWorks, RehydrateWorks, AttemptWorks, AnsweredWorks,
     BuildWorks, OtherWorks
  DEF Next
<1> QED
  BY <1>1, <1>2

-----------------------------------------------------------------------------
(* The counters of the journal.                                            *)

LEMMA OneMore ==
  ASSUME NEW n \in Nat, NEW S \in SUBSET (1 .. n)
  PROVE  Cardinality(S \cup {n + 1}) = Cardinality(S) + 1
<1>1. IsFiniteSet(S)
  BY FiniteCount
<1>2. n + 1 \notin 1 .. n
  OBVIOUS
<1>3. n + 1 \notin S
  BY <1>2
<1> QED
  BY <1>1, <1>3, FS_AddElement

\* What an appended entry does to every count over the journal.
LEMMA Appended ==
  ASSUME TypeOK, NEW n \in Nat, n = Len(journal), NEW entry \in Entry,
         journal' = Append(journal, entry)
  PROVE  /\ DOMAIN journal' = 1 .. n + 1 /\ journal'[n + 1] = entry
         /\ \A i \in 1 .. n :
              /\ journal'[i] = journal[i] /\ RootTotal(i)' = RootTotal(i)
              /\ FamilyTotal(i)' = FamilyTotal(i) /\ Streak(i)' = Streak(i)
         /\ Recounted' = Counted(Recounted, entry.root, entry.family)
         /\ RootTotal(n + 1)' = Recounted'.roots[entry.root]
         /\ FamilyTotal(n + 1)' = Recounted'.families[entry.family]
         /\ Streak(n + 1)' = Recounted'.streak
<1> DEFINE root == entry.root
           family == entry.family
<1>1. /\ DOMAIN journal = 1 .. n /\ DOMAIN journal' = 1 .. n + 1 /\ Len(journal') = n + 1
      /\ journal'[n + 1] = entry /\ \A i \in 1 .. n : journal'[i] = journal[i]
  BY DEF TypeOK
<1>2. root \in Roots /\ family \in Families
  BY DEF Entry
<1>3. \A i \in 1 .. n : /\ RootTotal(i)' = RootTotal(i) /\ FamilyTotal(i)' = FamilyTotal(i)
                        /\ Streak(i)' = Streak(i)
  <2> SUFFICES ASSUME NEW i \in 1 .. n
               PROVE  /\ RootTotal(i)' = RootTotal(i) /\ FamilyTotal(i)' = FamilyTotal(i)
                      /\ Streak(i)' = Streak(i)
    OBVIOUS
  <2>1. {k \in 1 .. i : journal'[k].root = journal'[i].root} = {k \in 1 .. i : journal[k].root = journal[i].root}
    BY <1>1
  <2>2. {k \in 1 .. i : journal'[k].family = journal'[i].family} = {k \in 1 .. i : journal[k].family = journal[i].family}
    BY <1>1
  <2>3. {k \in 1 .. i : \A m \in k .. i : journal'[m].root = journal'[i].root}
        = {k \in 1 .. i : \A m \in k .. i : journal[m].root = journal[i].root}
    BY <1>1
  <2> QED
    BY <2>1, <2>2, <2>3 DEF RootTotal, FamilyTotal, Streak
<1> DEFINE R(r) == {k \in 1 .. n : journal[k].root = r}
           F(f) == {k \in 1 .. n : journal[k].family = f}
           R1(r) == {k \in 1 .. n + 1 : journal'[k].root = r}
           F1(f) == {k \in 1 .. n + 1 : journal'[k].family = f}
<1>4. \A r \in Roots : Cardinality(R1(r)) = IF r = root THEN Cardinality(R(r)) + 1 ELSE Cardinality(R(r))
  <2> SUFFICES ASSUME NEW r \in Roots
               PROVE  Cardinality(R1(r)) = IF r = root THEN Cardinality(R(r)) + 1 ELSE Cardinality(R(r))
    OBVIOUS
  <2>1. R1(r) = IF r = root THEN R(r) \cup {n + 1} ELSE R(r)
    BY <1>1
  <2>2. Cardinality(R(r) \cup {n + 1}) = Cardinality(R(r)) + 1
    BY OneMore
  <2> QED
    BY <2>1, <2>2
<1>5. \A f \in Families :
        Cardinality(F1(f)) = IF f = family THEN Cardinality(F(f)) + 1 ELSE Cardinality(F(f))
  <2> SUFFICES ASSUME NEW f \in Families
               PROVE  Cardinality(F1(f)) = IF f = family THEN Cardinality(F(f)) + 1 ELSE Cardinality(F(f))
    OBVIOUS
  <2>1. F1(f) = IF f = family THEN F(f) \cup {n + 1} ELSE F(f)
    BY <1>1
  <2>2. Cardinality(F(f) \cup {n + 1}) = Cardinality(F(f)) + 1
    BY OneMore
  <2> QED
    BY <2>1, <2>2
<1> DEFINE T == {k \in 1 .. n : \A m \in k .. n : journal[m].root = root}
           T1 == {k \in 1 .. n + 1 : \A m \in k .. n + 1 : journal'[m].root = root}
<1>6. T1 = T \cup {n + 1} /\ Cardinality(T1) = Cardinality(T) + 1
  <2>1. n + 1 \in T1
    BY <1>1
  <2>2. ASSUME NEW k \in 1 .. n PROVE k \in T1 <=> k \in T
    BY <1>1
  <2>3. T1 = T \cup {n + 1}
    BY <2>1, <2>2
  <2> QED
    BY <2>3, OneMore
<1>7. Cardinality(T1) = IF root = Recounted.previous THEN Recounted.streak + 1 ELSE 1
  <2>1. CASE n = 0
    <3>1. journal = <<>>
      <4>1. journal \in Seq(Entry) /\ Len(journal) = 0
        BY <2>1 DEF TypeOK
      <4> HIDE DEF T, T1
      <4> QED
        BY <4>1
    <3>2. Recounted.previous = None
      BY <3>1 DEF Recounted
    <3>3. T = {}
      BY <2>1
    <3> HIDE DEF T, T1
    <3>4. Cardinality(T1) = 1
      BY <1>6, <3>3, FS_EmptySet
    <3>5. root # Recounted.previous
      BY <1>2, <3>2, NoneAssumption
    <3> QED
      BY <3>4, <3>5
  <2>2. CASE n > 0 /\ journal[n].root = root
    <3>1. journal # <<>> /\ Recounted.previous = root /\ Recounted.streak = Streak(n)
      BY <2>2 DEF Recounted
    <3>2. Streak(n) = Cardinality(T)
      BY <2>2 DEF Streak
    <3> QED
      BY <1>6, <3>1, <3>2
  <2>3. CASE n > 0 /\ journal[n].root # root
    <3>1. journal # <<>> /\ Recounted.previous # root
      BY <2>3 DEF Recounted
    <3>2. \A k \in 1 .. n : n \in k .. n
      OBVIOUS
    <3>3. T = {}
      BY <2>3, <3>2
    <3> HIDE DEF T, T1
    <3>4. Cardinality(T1) = 1
      BY <1>6, <3>3, FS_EmptySet
    <3> QED
      BY <3>1, <3>4
  <2> HIDE DEF T1
  <2>4. n = 0 \/ n > 0
    OBVIOUS
  <2> QED
    BY <2>1, <2>2, <2>3, <2>4
<1>8. Streak(n + 1)' = Cardinality(T1)
  BY <1>1 DEF Streak
<1>9. Recounted' = [roots |-> [r \in Roots |-> Cardinality(R1(r))],
                    families |-> [f \in Families |-> Cardinality(F1(f))],
                    previous |-> root, streak |-> Cardinality(T1)]
  <2>1. journal' # <<>> /\ Len(journal)' = n + 1 /\ journal'[Len(journal')].root = root
    BY <1>1
  <2>2. Streak(Len(journal))' = Cardinality(T1)
    BY <1>1 DEF Streak
  <2>3. [r \in Roots |-> Cardinality({k \in DOMAIN journal' : journal'[k].root = r})]
        = [r \in Roots |-> Cardinality(R1(r))]
    BY <1>1
  <2>4. [f \in Families |-> Cardinality({k \in DOMAIN journal' : journal'[k].family = f})]
        = [f \in Families |-> Cardinality(F1(f))]
    BY <1>1
  <2> HIDE DEF R1, F1, T1
  <2> QED
    BY <2>1, <2>2, <2>3, <2>4 DEF Recounted
<1>10. /\ Recounted.roots = [r \in Roots |-> Cardinality(R(r))]
       /\ Recounted.families = [f \in Families |-> Cardinality(F(f))]
  BY <1>1 DEF Recounted
<1>11. [Recounted.roots EXCEPT ![root] = @ + 1] = [r \in Roots |-> Cardinality(R1(r))]
  <2> HIDE DEF R, R1
  <2> QED
    BY <1>2, <1>4, <1>10
<1>12. [Recounted.families EXCEPT ![family] = @ + 1] = [f \in Families |-> Cardinality(F1(f))]
  <2> HIDE DEF F, F1
  <2> QED
    BY <1>2, <1>5, <1>10
<1>13. Recounted' = Counted(Recounted, root, family)
  <2> HIDE DEF R1, F1, T1
  <2> QED
    BY <1>7, <1>9, <1>11, <1>12 DEF Counted
<1>14. RootTotal(n + 1)' = Cardinality(R1(root)) /\ FamilyTotal(n + 1)' = Cardinality(F1(family))
  BY <1>1 DEF RootTotal, FamilyTotal
<1>15. /\ Recounted'.roots[root] = Cardinality(R1(root))
       /\ Recounted'.families[family] = Cardinality(F1(family))
       /\ Recounted'.streak = Cardinality(T1)
  <2> HIDE DEF R1, F1, T1
  <2> QED
    BY <1>2, <1>9
<1> QED
  BY <1>1, <1>3, <1>8, <1>13, <1>14, <1>15

\* A step that leaves the journal alone leaves what is counted in it alone.
LEMMA JournalKept ==
  ASSUME Tallied, UNCHANGED journal
  PROVE  /\ Len(journal') <= MaxIterations /\ Consistent'
         /\ \A f \in Families :
              Cardinality(Of(f)') >= 2 =>
                \E k \in DOMAIN journal' : journal'[k].blocked /\ journal'[k].family = f
         /\ Recounted' = Recounted /\ (RepeatedFailure' <=> RepeatedFailure)
         /\ \A f : Of(f)' = Of(f)
<1>1. \A i : RootTotal(i)' = RootTotal(i) /\ FamilyTotal(i)' = FamilyTotal(i) /\ Streak(i)' = Streak(i)
  BY DEF RootTotal, FamilyTotal, Streak
<1>2. Consistent'
  BY <1>1, Zenon DEF Tallied, Consistent
<1>3. RepeatedFailure' <=> RepeatedFailure
  BY <1>1, Zenon DEF RepeatedFailure
<1>4. Recounted' = Recounted
  BY DEF Recounted, Streak
<1>5. \A f : Of(f)' = Of(f)
  BY DEF Of
<1> QED
  BY <1>2, <1>3, <1>4, <1>5 DEF Tallied

LEMMA RejectTallied ==
  ASSUME TypeOK, Working, Tallied, Reject
  PROVE  Tallied'
<1> DEFINE family == job.proposal.family
           seen == Counted(job.seen, job.root, family)
           entry == [root |-> job.root, family |-> family, total |-> seen.roots[job.root],
                     streak |-> seen.streak, familyTotal |-> seen.families[family],
                     blocked |-> seen.families[family] >= 2]
<1>1. job.root \in Roots /\ family \in Families /\ job.seen \in Seen /\ phase = "reject"
  BY ResearchAssumption DEF Reject, Working, TypeOK, Job
<1>2. /\ seen \in Seen /\ seen.streak \in Nat \ {0}
      /\ seen.roots[job.root] \in Nat \ {0} /\ seen.families[family] \in Nat \ {0}
  BY <1>1, CountedTyped
<1>3. /\ entry \in Entry /\ entry.root = job.root /\ entry.family = family
      /\ entry.total = seen.roots[job.root] /\ entry.streak = seen.streak
      /\ entry.familyTotal = seen.families[family] /\ entry.blocked = (seen.families[family] >= 2)
  <2> HIDE DEF seen, family
  <2> QED
    BY <1>1, <1>2 DEF Entry
<1>4. /\ journal' = Append(journal, entry)
      /\ \/ phase' = "close"
         \/ entry.total < 3 /\ phase' = "admit" /\ job' = FreshJob(seen)
  BY DEF Reject
<1>5. job.seen = Recounted /\ ~RepeatedFailure
  BY <1>1 DEF Tallied, Looping, Making, Accepting
<1>6. PICK n \in Nat : n = Len(journal)
  BY DEF TypeOK
<1>7. n < MaxIterations
  BY <1>1, <1>6 DEF Working, Making
<1> HIDE DEF entry
<1>8. /\ DOMAIN journal' = 1 .. n + 1 /\ journal'[n + 1] = entry
      /\ \A i \in 1 .. n :
           /\ journal'[i] = journal[i] /\ RootTotal(i)' = RootTotal(i)
           /\ FamilyTotal(i)' = FamilyTotal(i) /\ Streak(i)' = Streak(i)
      /\ Recounted' = Counted(Recounted, entry.root, entry.family)
      /\ RootTotal(n + 1)' = Recounted'.roots[entry.root]
      /\ FamilyTotal(n + 1)' = Recounted'.families[entry.family]
      /\ Streak(n + 1)' = Recounted'.streak
  BY <1>3, <1>4, <1>6, Appended
<1>9. Recounted' = seen
  BY <1>3, <1>5, <1>8
<1> HIDE DEF seen, family
<1>10. DOMAIN journal = 1 .. n /\ Len(journal') = n + 1
  BY <1>4, <1>6, <1>3 DEF TypeOK
<1>11. Consistent'
  <2> SUFFICES ASSUME NEW i \in 1 .. n + 1
               PROVE  /\ journal'[i].total = RootTotal(i)' /\ journal'[i].streak = Streak(i)'
                      /\ journal'[i].familyTotal = FamilyTotal(i)'
                      /\ journal'[i].blocked = (FamilyTotal(i)' >= 2)
    BY <1>8 DEF Consistent
  <2>1. CASE i \in 1 .. n
    <3>1. /\ journal[i].total = RootTotal(i) /\ journal[i].streak = Streak(i)
          /\ journal[i].familyTotal = FamilyTotal(i)
          /\ journal[i].blocked = (FamilyTotal(i) >= 2)
      BY <1>10, <2>1 DEF Tallied, Consistent
    <3>2. /\ journal'[i] = journal[i] /\ RootTotal(i)' = RootTotal(i)
          /\ FamilyTotal(i)' = FamilyTotal(i) /\ Streak(i)' = Streak(i)
      BY <1>8, <2>1
    <3> QED
      BY <3>1, <3>2, Zenon
  <2>2. CASE i = n + 1
    <3>1. /\ journal'[i] = entry /\ RootTotal(i)' = seen.roots[job.root]
          /\ FamilyTotal(i)' = seen.families[family] /\ Streak(i)' = seen.streak
      BY <1>3, <1>8, <1>9, <2>2
    <3> QED
      BY <1>3, <3>1, Zenon
  <2> QED
    BY <2>1, <2>2
<1>12. \A f \in Families :
         Cardinality(Of(f)') >= 2 =>
           \E k \in DOMAIN journal' : journal'[k].blocked /\ journal'[k].family = f
  <2> SUFFICES ASSUME NEW f \in Families, Cardinality(Of(f)') >= 2
               PROVE  \E k \in 1 .. n + 1 : journal'[k].blocked /\ journal'[k].family = f
    BY <1>8
  <2>1. CASE f = family
    <3>1. Cardinality(Of(f)') = seen.families[family]
      <4>1. FamilyTotal(n + 1)' = Cardinality({k \in 1 .. n + 1 : journal'[k].family = family})
        BY <1>3, <1>8 DEF FamilyTotal
      <4>2. Of(f)' = {k \in 1 .. n + 1 : journal'[k].family = family}
        BY <1>8, <2>1 DEF Of
      <4> QED
        BY <1>3, <1>8, <1>9, <4>1, <4>2
    <3>2. entry.blocked
      BY <1>3, <3>1, Zenon
    <3>3. n + 1 \in 1 .. n + 1 /\ journal'[n + 1].blocked /\ journal'[n + 1].family = f
      BY <1>3, <1>8, <2>1, <3>2
    <3> QED
      BY <3>3
  <2>2. CASE f # family
    <3>1. Of(f)' = Of(f)
      BY <1>3, <1>8, <1>10, <2>2 DEF Of
    <3>2. PICK k \in 1 .. n : journal[k].blocked /\ journal[k].family = f
      BY <1>10, <3>1 DEF Tallied
    <3> QED
      BY <1>8, <3>2
  <2> QED
    BY <2>1, <2>2
<1>13. phase' = "admit" => job'.seen = Recounted' /\ ~RepeatedFailure'
  <2> SUFFICES ASSUME phase' = "admit" PROVE job'.seen = Recounted' /\ ~RepeatedFailure'
    OBVIOUS
  <2>1. entry.total < 3 /\ job'.seen = seen
    BY <1>4 DEF FreshJob
  <2>2. ASSUME NEW i \in 1 .. n + 1 PROVE ~(RootTotal(i)' >= 3)
    <3>1. CASE i = n + 1
      BY <1>2, <1>3, <1>8, <1>9, <2>1, <3>1
    <3>2. CASE i \in 1 .. n
      BY <1>5, <1>8, <1>10, <3>2 DEF RepeatedFailure
    <3> QED
      BY <3>1, <3>2
  <2> QED
    BY <1>8, <1>9, <2>1, <2>2 DEF RepeatedFailure
<1>14. phase' \in {"admit", "close"} /\ Len(journal') <= MaxIterations
  BY <1>4, <1>7, <1>10, ResearchAssumption
<1> QED
  BY <1>11, <1>12, <1>13, <1>14 DEF Tallied, Looping, Making, Accepting

\* A family that is not blocked is in the journal once at most.
LEMMA NotBlocked ==
  ASSUME TypeOK, Tallied, NEW f \in Families, job.context.records = Len(journal),
         ~Blocked(job.context, f)
  PROVE  Cardinality(Of(f)) < 2
<1>1. DOMAIN journal = 1 .. Len(journal) /\ Len(journal) \in Nat
  BY DEF TypeOK
<1>2. Cardinality(Of(f)) \in Nat
  BY <1>1, FiniteCount DEF Of
<1>3. ~(Cardinality(Of(f)) >= 2)
  BY <1>1 DEF Tallied, Blocked
<1> QED
  BY <1>2, <1>3

LEMMA TalliedStep ==
  ASSUME TypeOK, Working, Tallied, [Next]_vars
  PROVE  Tallied'
<1>1. CASE Reject
  BY <1>1, RejectTallied
<1>2. CASE /\ UNCHANGED journal /\ phase' \notin Looping \cup {"build"}
  BY <1>2, JournalKept DEF Tallied, Looping, Making, Accepting
<1>3. CASE /\ UNCHANGED journal /\ phase' \in Looping /\ phase \in Looping /\ job'.seen = job.seen
           /\ (phase' = "build" \/ (phase' = "call" /\ call'.op # "propose")) =>
                Cardinality(Of(job'.proposal.family)) < 2
  <2>1. job'.seen = Recounted' /\ ~RepeatedFailure'
    BY <1>3, JournalKept DEF Tallied
  <2>2. (phase' = "build" \/ (phase' = "call" /\ call'.op # "propose")) =>
          Cardinality(Of(job.proposal.family)') < 2
    BY <1>3 DEF Of
  <2> QED
    BY <1>3, <2>1, <2>2, JournalKept DEF Tallied
<1>4. CASE UNCHANGED vars
  <2>1. UNCHANGED <<journal, phase, job, call>>
    BY <1>4 DEF vars, files
  <2>2. CASE phase \in Looping
    BY <1>3, <2>1, <2>2 DEF Tallied
  <2>3. CASE phase \notin Looping
    BY <1>2, <2>1, <2>3 DEF Looping, Making, Accepting
  <2> QED
    BY <2>2, <2>3
<1>5. CASE ResumeUnread \/ ResumeLate \/ ResumeRefused \/ ResumeRepeated \/ StopAdmission
           \/ RehydrateRefused \/ StoreRefused \/ NoTimeLeft \/ LineageReady \/ Handoff \/ Die
           \/ DieWriting \/ DieLinking
  <2>1. UNCHANGED journal /\ phase' \notin Looping \cup {"build"}
    BY <1>5 DEF ResumeUnread, ResumeLate, ResumeRefused, ResumeRepeated, StopAdmission,
       RehydrateRefused, StoreRefused, NoTimeLeft, LineageReady, Handoff, Die, DieWriting,
       DieLinking, Dies, Closes, Refused, files, Looping, Making, Accepting
  <2> QED
    BY <1>2, <2>1
<1>6. CASE Resume
  <2>1. UNCHANGED journal /\ phase' = "admit" /\ job'.seen = Recounted /\ ~RepeatedFailure
    BY <1>6 DEF Resume, FreshJob, files
  <2> QED
    BY <2>1, JournalKept DEF Tallied
<1>7. CASE Propose \/ Rehydrate
  <2>1. /\ UNCHANGED journal /\ phase = "admit"
        /\ phase' = "store" \/ (phase' = "call" /\ call' = FreshCall("propose", call.slot))
    BY <1>7 DEF Propose, Rehydrate, Ask, files
  <2>2. job'.seen = job.seen
    BY <1>7 DEF Propose, Rehydrate, TypeOK, Job
  <2>3. phase' = "call" => call'.op = "propose"
    BY <2>1 DEF FreshCall
  <2> QED
    BY <1>3, <2>1, <2>2, <2>3 DEF Looping, Making, Accepting
<1>8. CASE AnswerRefused \/ SendFails \/ RateLimited \/ AnswerMalformed
  <2>1. CASE Closes
    BY <1>2, <2>1 DEF Closes, files, Looping, Making, Accepting
  <2>2. ASSUME NEW next, Again(next), next.op = call.op, phase = "call" PROVE Tallied'
    <3>1. UNCHANGED <<journal, phase, job>> /\ call' = next
      BY <2>2 DEF Again, files
    <3> QED
      BY <1>3, <2>2, <3>1 DEF Tallied, Looping, Making, Accepting
  <2>3. phase = "call" /\ call \in Call
    BY <1>8 DEF TypeOK, AnswerRefused, SendFails, RateLimited, AnswerMalformed, MaySend
  <2>4. /\ FreshCall(call.op, call.slot + 1).op = call.op
        /\ [call EXCEPT !.transport = @ + 1, !.limited = 0].op = call.op
        /\ [call EXCEPT !.transport = @ + 1, !.limited = @ + 1].op = call.op
        /\ AfterMalformed.op = call.op
    BY <2>3 DEF FreshCall, AfterMalformed, Call
  <2> QED
    BY <1>8, <2>1, <2>2, <2>3, <2>4
    DEF AnswerRefused, SendFails, RateLimited, AnswerMalformed, GiveUpSlot
<1>9. ASSUME NEW p \in Proposals, ProposalAnswered(p) PROVE Tallied'
  <2>1. /\ UNCHANGED journal /\ phase = "call" /\ phase' \in {"reject", "call"}
        /\ job'.seen = job.seen /\ job'.proposal = p
        /\ phase' = "call" => ~Blocked(job.context, p.family)
    BY <1>9 DEF ProposalAnswered, MaySend, Ask, files, TypeOK, Job
  <2>2. phase' = "call" => Cardinality(Of(p.family)) < 2
    BY <2>1, NotBlocked, ResearchAssumption DEF Working, Making
  <2> QED
    BY <1>3, <2>1, <2>2 DEF Looping, Making, Accepting
<1>10. ASSUME NEW k \in Packages, PackageAnswered(k) PROVE Tallied'
  <2>1. /\ UNCHANGED journal /\ phase = "call" /\ call.op # "propose" /\ phase' = "build"
        /\ job'.seen = job.seen /\ job'.proposal = job.proposal
    BY <1>10 DEF PackageAnswered, MaySend, files, TypeOK, Job
  <2> QED
    BY <1>3, <2>1 DEF Tallied, Looping, Making, Accepting
<1>11. CASE Build \/ BuildFails
  <2>1. /\ UNCHANGED journal /\ phase = "build" /\ phase' \in {"write", "call", "reject"}
        /\ job'.seen = job.seen /\ job'.proposal = job.proposal
    BY <1>11 DEF Build, BuildFails, Ask, TypeOK, Job
  <2> QED
    BY <1>3, <2>1 DEF Tallied, Looping, Making, Accepting
<1>12. CASE WriteRecord \/ StoreLineage \/ Register \/ StoreRejections
  BY <1>3, <1>12 DEF WriteRecord, StoreLineage, Register, StoreRejections, Registered, files,
     Looping, Making, Accepting
<1>13. CASE Tick
  <2>1. UNCHANGED <<journal, phase, job, call>>
    BY <1>13 DEF Tick, files
  <2>2. CASE phase \in Looping
    BY <1>3, <2>1, <2>2 DEF Tallied
  <2>3. CASE phase \notin Looping
    BY <1>2, <2>1, <2>3 DEF Looping, Making, Accepting
  <2> QED
    BY <2>2, <2>3
<1> QED
  BY <1>1, <1>4, <1>5, <1>6, <1>7, <1>8, <1>9, <1>10, <1>11, <1>12, <1>13 DEF Next

-----------------------------------------------------------------------------
(* The record, the store and LINEAGE_READY.                                *)

\* Steps that leave the journal and what is kept alone and do not begin to register a branch.
LEMMA KeptFrame ==
  ASSUME Kept, UNCHANGED <<journal, record, ledger, ready, time>>,
         phase' \notin Accepting, record = None \/ phase' \notin Making
  PROVE  Kept'
  BY DEF Kept, AcceptedKept, Iteration, Making, Accepting

\* Before there is a record, store and LINEAGE_READY are empty.
LEMMA NothingKept ==
  ASSUME TypeOK, Kept, record = None
  PROVE  ledger = 0 /\ ready = None
  BY DEF TypeOK, Kept, AcceptedKept

LEMMA PassesKept ==
  ASSUME TypeOK, Working, Kept,
         \/ ResumeUnread \/ ResumeLate \/ ResumeRefused \/ ResumeRepeated \/ Resume
         \/ StopAdmission \/ Propose \/ RehydrateRefused \/ StoreRefused
         \/ AnswerRefused \/ SendFails \/ RateLimited \/ AnswerMalformed
         \/ NoTimeLeft \/ (\E p \in Proposals : ProposalAnswered(p))
         \/ (\E k \in Packages : PackageAnswered(k)) \/ Build \/ BuildFails \/ Handoff \/ Die
  PROVE  Kept'
<1>1. CASE ResumeUnread \/ ResumeLate \/ ResumeRefused \/ ResumeRepeated \/ Resume
           \/ StopAdmission \/ RehydrateRefused \/ StoreRefused \/ NoTimeLeft \/ Handoff \/ Die
  <2>1. UNCHANGED <<journal, record, ledger, ready, time>> /\ phase' \notin Making \cup Accepting
    BY <1>1 DEF ResumeUnread, ResumeLate, ResumeRefused, ResumeRepeated, Resume, StopAdmission,
       RehydrateRefused, StoreRefused, NoTimeLeft, Handoff, Die, Dies, Closes, Refused, files,
       Making, Accepting
  <2> QED
    BY <2>1, KeptFrame
<1>2. CASE Propose
  BY <1>2, KeptFrame DEF Propose, MustPropose, Ask, files, Accepting
<1>3. CASE AnswerRefused \/ SendFails \/ RateLimited \/ AnswerMalformed
           \/ (\E p \in Proposals : ProposalAnswered(p)) \/ (\E k \in Packages : PackageAnswered(k))
  <2>1. phase = "call" /\ record = None
    BY <1>3 DEF AnswerRefused, SendFails, RateLimited, AnswerMalformed, ProposalAnswered,
       PackageAnswered, MaySend, Working, Making
  <2>2. UNCHANGED <<journal, record, ledger, ready, time>> /\ phase' \notin Accepting
    BY <1>3, <2>1 DEF AnswerRefused, SendFails, RateLimited, AnswerMalformed, ProposalAnswered,
       PackageAnswered, GiveUpSlot, Closes, Again, Ask, files, Accepting
  <2> QED
    BY <2>1, <2>2, KeptFrame
<1>4. CASE Build \/ BuildFails
  <2>1. phase = "build" /\ record = None
    BY <1>4 DEF Build, BuildFails, Working, Making
  <2>2. UNCHANGED <<journal, record, ledger, ready, time>> /\ phase' \notin Accepting
    BY <1>4 DEF Build, BuildFails, Ask, Accepting
  <2> QED
    BY <2>1, <2>2, KeptFrame
<1> QED
  BY <1>1, <1>2, <1>3, <1>4

LEMMA WritesKept ==
  ASSUME TypeOK, Working, Kept, Reject \/ WriteRecord \/ DieWriting \/ DieLinking
  PROVE  Kept'
<1>1. CASE Reject
  <2>1. record = None /\ ledger = 0 /\ ready = None
    BY <1>1, NothingKept DEF Reject, Working, Making
  <2>2. UNCHANGED <<record, ledger, ready>> /\ phase' \notin Accepting
    BY <1>1 DEF Reject, Ended, Accepting
  <2> QED
    BY <2>1, <2>2, NoneAssumption DEF Kept, AcceptedKept, Accepting
<1>2. CASE WriteRecord
  <2>1. /\ record = None /\ ledger = 0 /\ ready = None /\ job.proposal \in Proposals
        /\ Len(journal) < MaxIterations
        /\ job.context.records = Len(journal) /\ job.context.time <= time
    BY <1>2, NothingKept DEF WriteRecord, Working, Making
  <2>2. /\ record' = [iter |-> Iteration, context |-> job.context, proposal |-> job.proposal,
                      repairs |-> job.repairs]
        /\ phase' = "store" /\ UNCHANGED <<journal, ledger, ready, time, job>>
    BY <1>2 DEF WriteRecord
  <2>3. record' \in Branch
    <3>1. job.context \in Context /\ job.repairs \in 0 .. MaxRepairs
      BY DEF TypeOK, Job
    <3>2. Iteration \in 1 .. MaxIterations
      BY <2>1, ResearchAssumption DEF Iteration, TypeOK
    <3> QED
      BY <2>1, <2>2, <3>1, <3>2 DEF Branch
  <2>4. record' \notin {None, Torn}
    BY <2>3, NoneAssumption
  <2>5. /\ record'.iter = Iteration' /\ record'.context = job'.context
        /\ record'.proposal = job'.proposal /\ record'.repairs = job'.repairs
        /\ record'.context.records = Len(journal') /\ record'.context.time <= time'
    BY <2>1, <2>2 DEF Iteration
  <2> QED
    BY <2>1, <2>2, <2>4, <2>5 DEF Kept, AcceptedKept, Making
<1>3. CASE DieWriting
  <2>1. phase' = "down" /\ UNCHANGED time
    BY <1>3 DEF DieWriting, Dies
  <2>2. CASE UNCHANGED <<journal, record, ledger, ready>>
    BY <2>1, <2>2, KeptFrame DEF Making, Accepting
  <2>3. CASE phase = "write" /\ record' = Torn /\ UNCHANGED <<journal, ledger, ready>>
    <3>1. ledger' = 0 /\ ready' = None
      BY <2>3, NothingKept DEF Working, Making
    <3> QED
      BY <2>1, <2>3, <3>1 DEF Kept, AcceptedKept, Accepting
  <2> QED
    BY <1>3, <2>2, <2>3 DEF DieWriting
<1>4. CASE DieLinking
  <2>1. phase' = "down" /\ UNCHANGED <<journal, record, ledger, time>>
    BY <1>4 DEF DieLinking, Dies
  <2>2. CASE UNCHANGED ready
    BY <2>1, <2>2, KeptFrame DEF Making, Accepting
  <2>3. CASE phase = "ready" /\ ready' = Frozen
    <3>1. /\ record \notin {None, Torn} /\ ready'.context = record.context
          /\ ready'.proposal = record.proposal /\ ready'.repairs = record.repairs
          /\ ledger = LedgerFacts
      BY <2>3 DEF Kept, AcceptedKept, Accepting, Frozen
    <3> QED
      BY <2>1, <3>1 DEF Kept, AcceptedKept, Iteration, Making, Accepting
  <2> QED
    BY <1>4, <2>2, <2>3 DEF DieLinking
<1> QED
  BY <1>1, <1>2, <1>3, <1>4

LEMMA RegistersKept ==
  ASSUME TypeOK, Working, Kept,
         Rehydrate \/ StoreLineage \/ Register \/ StoreRejections \/ LineageReady \/ Tick
  PROVE  Kept'
<1>1. CASE Rehydrate
  <2>1. /\ record \notin {None, Torn} /\ phase' = "store"
        /\ job' = [job EXCEPT !.context = record.context, !.proposal = record.proposal,
                              !.repairs = record.repairs, !.package = "good"]
        /\ UNCHANGED <<journal, record, ledger, ready, time>>
    BY <1>1 DEF Rehydrate, RecordMatches, files
  <2>2. /\ job'.context = record.context /\ job'.proposal = record.proposal
        /\ job'.repairs = record.repairs
    BY <2>1 DEF TypeOK, Job
  <2> QED
    BY <2>1, <2>2 DEF Kept, AcceptedKept, Iteration, Making, Accepting
<1>2. CASE Register
  <2>1. /\ phase = "register" /\ phase' = "register" /\ ledger < LedgerFacts
        /\ UNCHANGED <<journal, record, ready, time, job>>
    BY <1>2 DEF Register
  <2>2. ready = None
    BY <2>1 DEF Kept, AcceptedKept, LedgerFacts
  <2> QED
    BY <2>1, <2>2 DEF Kept, AcceptedKept, Iteration, Making, Accepting
<1>3. CASE LineageReady
  <2>1. /\ phase = "ready" /\ phase' = "science" /\ ledger = LedgerFacts
        /\ UNCHANGED <<journal, record, ledger, time>>
        /\ ready' = IF ready = None
                    THEN [context |-> job.context, proposal |-> job.proposal, repairs |-> job.repairs]
                    ELSE ready
    BY <1>3 DEF LineageReady, Frozen, Kept
  <2>2. /\ ready'.context = record.context /\ ready'.proposal = record.proposal
        /\ ready'.repairs = record.repairs
    BY <2>1 DEF Kept, AcceptedKept, Accepting
  <2> QED
    BY <2>1, <2>2 DEF Kept, AcceptedKept, Iteration, Making, Accepting
<1>4. CASE Tick
  <2>1. /\ time' = time + 1 /\ time \in Nat /\ UNCHANGED <<journal, record, ledger, ready, phase, job>>
    BY <1>4 DEF Tick, files, TypeOK
  <2>2. record \notin {None, Torn} => record.context.time \in Nat
    BY DEF TypeOK, Branch, Context
  <2> QED
    BY <2>1, <2>2 DEF Kept, AcceptedKept, Iteration
<1>5. CASE StoreLineage \/ StoreRejections
  <2>1. /\ UNCHANGED <<journal, record, ledger, ready, time, job>>
        /\ phase \in Accepting /\ phase' \in Accepting
        /\ phase' = "ready" => ledger = LedgerFacts
    BY <1>5 DEF StoreLineage, StoreRejections, Registered, files, Accepting
  <2> QED
    BY <2>1 DEF Kept, AcceptedKept, Iteration, Accepting
<1> QED
  BY <1>1, <1>2, <1>3, <1>4, <1>5

LEMMA KeptStep ==
  ASSUME TypeOK, Working, Kept, [Next]_vars
  PROVE  Kept'
<1>1. CASE UNCHANGED vars
  BY <1>1 DEF vars, files, Kept, AcceptedKept, Iteration
<1> QED
  BY <1>1, PassesKept, WritesKept, RegistersKept DEF Next

-----------------------------------------------------------------------------
(* Refusals.                                                               *)

LEMMA RefusalsFrame ==
  ASSUME TypeOK, Kept, Refusals, UNCHANGED <<refusals, record, ready, doubled, deaths, tornEntry>>,
         time' = time \/ time' = time + 1,
         phase' \in Accepting \cup {"science"} <=> phase \in Accepting \cup {"science"},
         phase' \in Accepting <=> phase \in Accepting
  PROVE  Refusals'
<1>1. record \notin {None, Torn} => record.context.time \in Nat
  BY DEF TypeOK, Branch, Context
<1>2. "context" \in refusals => record.context.time < time'
  BY <1>1 DEF Refusals, RefusalExplained, TypeOK
<1> QED
  BY <1>2 DEF Refusals, RefusalExplained

\* Steps that refuse nothing and write neither the record nor LINEAGE_READY.
LEMMA SilentRefusals ==
  ASSUME TypeOK, Working, Kept, Refusals,
         \/ ResumeLate \/ ResumeRepeated \/ Resume \/ StopAdmission \/ Propose
         \/ AnswerRefused \/ SendFails \/ RateLimited \/ AnswerMalformed
         \/ NoTimeLeft \/ (\E p \in Proposals : ProposalAnswered(p))
         \/ (\E k \in Packages : PackageAnswered(k)) \/ Build \/ BuildFails \/ Reject
         \/ StoreLineage \/ Register \/ StoreRejections \/ Handoff \/ Tick
  PROVE  Refusals'
<1>1. UNCHANGED <<refusals, record, ready, doubled, deaths, tornEntry>>
  BY DEF ResumeLate, ResumeRepeated, Resume, StopAdmission, Propose, AnswerRefused, SendFails,
     RateLimited, AnswerMalformed, NoTimeLeft, ProposalAnswered, PackageAnswered, Build,
     BuildFails, Reject, StoreLineage, Register, StoreRejections, Handoff, Tick, GiveUpSlot,
     Closes, Again, files, looks
<1>2. time' = time \/ time' = time + 1
  BY DEF ResumeLate, ResumeRepeated, Resume, StopAdmission, Propose, AnswerRefused, SendFails,
     RateLimited, AnswerMalformed, NoTimeLeft, ProposalAnswered, PackageAnswered, Build,
     BuildFails, Reject, StoreLineage, Register, StoreRejections, Handoff, Tick, GiveUpSlot,
     Closes, Again
<1>3. /\ phase' \in Accepting <=> phase \in Accepting
      /\ phase' \in Accepting \cup {"science"} <=> phase \in Accepting \cup {"science"}
  BY DEF ResumeLate, ResumeRepeated, Resume, Readable, StopAdmission, Propose, AnswerRefused,
     SendFails, RateLimited, AnswerMalformed, MaySend, NoTimeLeft, ProposalAnswered,
     PackageAnswered, Build, BuildFails, Reject, StoreLineage, Register, StoreRejections,
     Registered, Handoff, Tick, GiveUpSlot, Closes, Again, Ask, Accepting
<1> QED
  BY <1>1, <1>2, <1>3, RefusalsFrame

\* A pass is refused for what a death left: of the retained record, that its context is gone.
LEMMA RefusedExplained ==
  ASSUME TypeOK, Tallied, Kept, Refusals,
         ResumeUnread \/ ResumeRefused \/ RehydrateRefused \/ StoreRefused
  PROVE  Refusals'
<1>1. /\ UNCHANGED <<record, ready, tornEntry, doubled, time, journal, deaths>> /\ phase' = "down"
      /\ phase' \notin Accepting
  BY DEF ResumeUnread, ResumeRefused, RehydrateRefused, StoreRefused, Refused, files, Accepting
<1>2. CASE ResumeRefused
  <2>1. PICK reason \in Unreadable : Refused(reason)
    BY <1>2 DEF ResumeRefused
  <2>2. ~(Len(journal) > MaxIterations) /\ Consistent
    BY ResearchAssumption DEF Tallied, TypeOK
  <2>3. reason = "entry" /\ tornEntry
    BY <2>1, <2>2 DEF Unreadable
  <2>4. refusals' = refusals \cup {"entry"} /\ deaths > 0
    BY <2>1, <2>3 DEF Refused, Refusals
  <2>5. phase \notin Accepting
    BY <1>2 DEF ResumeRefused, Readable, Accepting
  <2> QED
    BY <1>1, <2>3, <2>4, <2>5 DEF Refusals, RefusalExplained
<1>3. CASE RehydrateRefused
  <2>1. /\ record # None /\ phase \notin Accepting \cup {"science"}
        /\ record # Torn => record.context # ContextNow
        /\ refusals' = refusals \cup {IF record = Torn THEN "record" ELSE "context"}
    BY <1>3 DEF RehydrateRefused, MustPropose, RecordMatches, Refused, Accepting
  <2>2. CASE record = Torn
    <3>1. deaths > 0 /\ refusals' = refusals \cup {"record"}
      BY <2>1, <2>2 DEF Refusals
    <3> QED
      BY <1>1, <2>1, <2>2, <3>1, NoneAssumption DEF Refusals, RefusalExplained
  <2>3. CASE record # Torn
    <3>1. record \in Branch /\ record.context # ContextNow
      BY <2>1, <2>3 DEF TypeOK
    <3>2. ready = None
      BY <3>1 DEF Kept, AcceptedKept, ContextNow
    <3>3. ContextNow = [time |-> time, records |-> Len(journal)]
      BY <3>2 DEF ContextNow
    <3>4. record.context \in Context
      BY <3>1 DEF Branch
    <3>5. record.context.records = Len(journal) /\ record.context.time <= time
      BY <2>1, <2>3 DEF Kept
    <3>6. record.context = [time |-> record.context.time, records |-> record.context.records]
      BY <3>4 DEF Context
    <3>7. record.context.time # time
      BY <3>1, <3>3, <3>5, <3>6
    <3>8. record.context.time \in Nat /\ time \in Nat
      BY <3>4 DEF Context, TypeOK
    <3>9. record.context.time < time
      BY <3>5, <3>7, <3>8
    <3>10. deaths > 0 /\ refusals' = refusals \cup {"context"}
      BY <2>1, <2>3, <3>2 DEF Refusals
    <3> QED
      BY <1>1, <2>1, <2>3, <3>2, <3>9, <3>10 DEF Refusals, RefusalExplained
  <2> QED
    BY <2>2, <2>3
<1>4. CASE ResumeUnread \/ StoreRefused
  <2>1. /\ doubled # {} /\ deaths > 0
        /\ \/ refusals' = refusals \cup {"checkpoint"} /\ "checkpoint" \in doubled
           \/ refusals' = refusals \cup {"object"} /\ doubled \cap {"lineage", "rejections"} # {}
    BY <1>4 DEF ResumeUnread, StoreRefused, Refused, Refusals
  <2> QED
    BY <1>1, <2>1 DEF Refusals, RefusalExplained
<1> QED
  BY <1>2, <1>3, <1>4

LEMMA WritesExplained ==
  ASSUME TypeOK, Working, Kept, Refusals, Rehydrate \/ WriteRecord \/ LineageReady
  PROVE  Refusals'
<1>1. UNCHANGED <<refusals, deaths, doubled, tornEntry>>
  BY DEF Rehydrate, WriteRecord, LineageReady, looks, files
<1>2. CASE Rehydrate
  <2>1. record \notin {None, Torn} /\ record.context = ContextNow /\ phase' \in Accepting
    BY <1>2 DEF Rehydrate, RecordMatches, Accepting
  <2>2. "context" \notin refusals
    <3>1. SUFFICES ASSUME "context" \in refusals PROVE FALSE
      OBVIOUS
    <3>2. ready = None /\ record.context.time < time
      BY <3>1 DEF Refusals, RefusalExplained
    <3>3. record.context.time = time /\ time \in Nat
      BY <2>1, <3>2 DEF ContextNow, TypeOK
    <3> QED
      BY <3>2, <3>3
  <2> QED
    BY <1>1, <1>2, <2>1, <2>2 DEF Rehydrate, files, Refusals, RefusalExplained
<1>3. CASE WriteRecord
  <2>1. record = None
    BY <1>3 DEF WriteRecord, Working, Making
  <2>2. "context" \notin refusals /\ "record" \notin refusals
    BY <2>1, NoneAssumption DEF Refusals, RefusalExplained
  <2>3. record' \in Branch
    <3>1. TypeOK'
      BY <1>3, RecordTyped
    <3>2. (record' # None /\ record' # Torn) \/ record' \in Branch
      <4>1. job.context \in Context /\ job.repairs \in 0 .. MaxRepairs /\ job.proposal \in Proposals
        BY <1>3 DEF WriteRecord, Working, TypeOK, Job
      <4>2. Iteration \in 1 .. MaxIterations
        BY <1>3, ResearchAssumption DEF WriteRecord, Working, Making, Iteration, TypeOK
      <4> QED
        BY <1>3, <4>1, <4>2 DEF WriteRecord, Branch
    <3> QED
      BY <3>1, <3>2 DEF TypeOK
  <2>4. record' # Torn /\ phase' \in Accepting
    BY <1>3, <2>3, NoneAssumption DEF WriteRecord, Accepting
  <2> QED
    BY <1>1, <1>3, <2>2, <2>4 DEF WriteRecord, Refusals, RefusalExplained
<1>4. CASE LineageReady
  <2>1. "context" \notin refusals /\ phase' = "science" /\ UNCHANGED <<record, time>>
    BY <1>4 DEF LineageReady, Refusals, Accepting
  <2> QED
    BY <1>1, <2>1 DEF Refusals, RefusalExplained
<1> QED
  BY <1>2, <1>3, <1>4

LEMMA DeathsExplained ==
  ASSUME TypeOK, Working, Kept, Refusals, Die \/ DieWriting \/ DieLinking
  PROVE  Refusals'
<1>1. /\ UNCHANGED <<refusals, time>> /\ deaths' > 0 /\ phase' \notin Accepting
      /\ phase' = "down"
  BY DEF Die, DieWriting, DieLinking, Dies, TypeOK, Accepting
<1>2. CASE UNCHANGED <<record, ready>> /\ (tornEntry' = TRUE \/ UNCHANGED tornEntry)
           /\ doubled \subseteq doubled'
  BY <1>1, <1>2 DEF Refusals, RefusalExplained
<1>3. CASE phase = "write" /\ record' = Torn /\ UNCHANGED <<tornEntry, ready, doubled>>
  <2>1. record = None
    BY <1>3 DEF Working, Making
  <2>2. "context" \notin refusals
    BY <2>1, NoneAssumption DEF Refusals, RefusalExplained
  <2> QED
    BY <1>1, <1>3, <2>2 DEF Refusals, RefusalExplained
<1>4. CASE phase = "ready" /\ UNCHANGED <<tornEntry, record>> /\ doubled \subseteq doubled'
  <2>1. "context" \notin refusals
    BY <1>4 DEF Refusals, Accepting
  <2> QED
    BY <1>1, <1>4, <2>1 DEF Refusals, RefusalExplained
<1>5. CASE Die
  BY <1>2, <1>5 DEF Die, files
<1>6. CASE DieWriting
  BY <1>2, <1>3, <1>6 DEF DieWriting
<1>7. CASE DieLinking
  BY <1>2, <1>4, <1>7 DEF DieLinking, Doubles
<1> QED
  BY <1>5, <1>6, <1>7

LEMMA RefusalsStep ==
  ASSUME TypeOK, Working, Tallied, Kept, Refusals, [Next]_vars
  PROVE  Refusals'
<1>1. CASE UNCHANGED vars
  BY <1>1 DEF vars, files, looks, Refusals, RefusalExplained
<1> QED
  BY <1>1, SilentRefusals, RefusedExplained, WritesExplained, DeathsExplained DEF Next

-----------------------------------------------------------------------------
(* The theorems.                                                           *)

LEMMA InitIInv == Init => IInv
<1> SUFFICES ASSUME Init PROVE IInv
  OBVIOUS
<1>1. journal = <<>> /\ Len(journal) = 0 /\ DOMAIN journal = {} /\ phase = "down" /\ record = None
  BY DEF Init
<1>2. TypeOK
  <2>1. NothingSeen \in Seen
    BY NoneAssumption DEF NothingSeen, Seen
  <2>2. job \in Job /\ call \in Call /\ sent \in [1 .. Slots -> Nat]
    BY <2>1, FreshTyped, ResearchAssumption DEF Init, Operations
  <2>3. journal \in Seq(Entry) /\ time \in 0 .. Reserve
    BY ResearchAssumption DEF Init
  <2>4. /\ tornEntry \in BOOLEAN /\ tree \subseteq Proposals \X (0 .. MaxRepairs)
        /\ record \in {None, Torn} \cup Branch /\ ledger \in 0 .. LedgerFacts
        /\ ready \in {None} \cup [context : Context, proposal : Proposals, repairs : 0 .. MaxRepairs]
        /\ doubled = {} /\ phase = "down" /\ refusals = {} /\ deaths \in Nat
    <3>1. /\ tornEntry = FALSE /\ tree = {} /\ record = None /\ ledger = 0 /\ ready = None
          /\ doubled = {} /\ phase = "down" /\ refusals = {} /\ deaths = 0
      BY DEF Init
    <3>2. 0 \in 0 .. LedgerFacts /\ 0 \in Nat
      BY DEF LedgerFacts
    <3>3. ledger \in 0 .. LedgerFacts /\ deaths \in Nat
      BY <3>1, <3>2
    <3> QED
      BY <3>1, <3>3, Zenon
  <2> QED
    BY <2>2, <2>3, <2>4 DEF TypeOK
<1>3. Working /\ Sent
  BY <1>1 DEF Working, Sent, Making, Accepting
<1>4. Tallied
  <2>1. \A f : Of(f) = {}
    BY <1>1 DEF Of
  <2>2. \A f : ~(Cardinality(Of(f)) >= 2)
    BY <2>1, FS_EmptySet
  <2>3. Consistent
    BY <1>1 DEF Consistent
  <2> QED
    BY <1>1, <2>2, <2>3, ResearchAssumption DEF Tallied, Looping, Making, Accepting
<1>5. Kept
  BY <1>1 DEF Init, Kept, AcceptedKept, Accepting
<1>6. Refusals
  <2>1. refusals = {} /\ tornEntry = FALSE /\ doubled = {} /\ record = None
    BY DEF Init
  <2> QED
    BY <2>1, NoneAssumption DEF Refusals, RefusalExplained
<1> QED
  BY <1>2, <1>3, <1>4, <1>5, <1>6 DEF IInv

LEMMA StepIInv == IInv /\ [Next]_vars => IInv'
  BY TypeStep, WorkingStep, TalliedStep, KeptStep, RefusalsStep DEF IInv

LEMMA Inductive == Spec => []IInv
  BY InitIInv, StepIInv, PTL DEF Spec

\* Every variable keeps its type, so no repair or retry passes its bound
\* (prepare_or_rehydrate_live_lineage, OpenAIChatCompletionsModel._call).
THEOREM TypeCorrect == Spec => []TypeOK
<1>1. IInv => TypeOK
  BY DEF IInv
<1> QED
  BY Inductive, <1>1, PTL

\* The provider is asked nothing once one root failure is in the journal three times, and to
\* implement or repair nothing of a family the journal has twice, whatever was forgotten in
\* between (_prepare_live_lineage_portfolio, _proposal_family_is_blocked).
THEOREM JournalGoverned == Spec => []JournalGoverns
<1>1. IInv => JournalGoverns
  <2> SUFFICES ASSUME IInv PROVE JournalGoverns
    OBVIOUS
  <2>1. phase = "call" => ~RepeatedFailure
    BY DEF IInv, Tallied, Looping, Making
  <2>2. phase = "call" /\ call.op # "propose" => Cardinality(Of(job.proposal.family)) < 2
    BY DEF IInv, Tallied
  <2> QED
    BY <2>1, <2>2 DEF JournalGoverns, Of
<1> QED
  BY Inductive, <1>1, PTL

\* Retries of several kinds never send more than their separate allowances to one endpoint, and
\* nothing to an endpoint the call has not come to (OpenAIChatCompletionsModel._call,
\* OpenAIFailoverModel._call).
THEOREM CallsBounded == Spec => []CallBounded
<1>1. IInv => CallBounded
  <2> SUFFICES ASSUME IInv, phase = "call", NEW s \in 1 .. Slots
               PROVE  /\ sent[s] <= 1 + MaxTransport + MaxMalformed
                      /\ s > call.slot => sent[s] = 0
    BY DEF CallBounded
  <2>1. /\ call.slot \in 1 .. Slots /\ call.transport \in 0 .. MaxTransport
        /\ call.malformed \in 0 .. MaxMalformed
    BY DEF IInv, TypeOK, Call
  <2>2. /\ sent[call.slot] = call.transport + call.malformed
        /\ s < call.slot => sent[s] <= 1 + MaxTransport + MaxMalformed
        /\ s > call.slot => sent[s] = 0
    BY DEF IInv, Sent
  <2> QED
    BY <2>1, <2>2, ResearchAssumption
<1> QED
  BY Inductive, <1>1, PTL

\* The counters and the cap of a journal that a dead command left never refuse a pass; what does
\* is there, and a death left it: a file cut short, an artifact or a checkpoint with two links, a
\* record whose context is gone (_load_rejection_journal, ArtifactStore.verify,
\* _bounded_regular_bytes).
THEOREM RefusalsExplained == Spec => []RefusalExplained
<1>1. IInv => RefusalExplained
  BY DEF IInv, Refusals
<1> QED
  BY Inductive, <1>1, PTL

\* A recorded branch stays the branch of the campaign: nothing is asked or rejected after it,
\* and store and LINEAGE_READY tell of it (prepare_or_rehydrate_live_lineage).
THEOREM AcceptedIsKept == Spec => []AcceptedKept
<1>1. IInv => AcceptedKept
  BY DEF IInv, Kept
<1> QED
  BY Inductive, <1>1, PTL

=============================================================================
