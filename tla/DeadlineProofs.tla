--------------------------- MODULE DeadlineProofs ---------------------------
(***************************************************************************)
(* For any number of observers, deaths, reboots and adjustments of the     *)
(* clock: the chain of checkpoints only grows, never gives time back, and  *)
(* counts at least the time that passed.                                   *)
(*                                                                         *)
(* Custody says what an observer has in hand: a checkpoint that is still   *)
(* there, readings that are not behind it, and, once it created the next   *)
(* file, the only right to fill it.  The chain is ordered because whoever  *)
(* fills a file loaded the whole chain before it.                          *)
(***************************************************************************)
EXTENDS Deadline, TLAPS

-----------------------------------------------------------------------------
(* Types.                                                                  *)

\* What an observer has in hand has its type.
LEMMA JobBase ==
  ASSUME NEW j \in Job, NEW n \in Nat
  PROVE  [j EXCEPT !.base = n] \in Job
BY DEF Job

LEMMA JobUtc ==
  ASSUME NEW j \in Job, NEW u \in Int, NEW r \in Nat
  PROVE  [j EXCEPT !.utc = u, !.at = r] \in Job
BY DEF Job

LEMMA JobMono ==
  ASSUME NEW j \in Job, NEW m \in Int
  PROVE  [j EXCEPT !.mono = m] \in Job
BY DEF Job

LEMMA JobFound ==
  ASSUME NEW j \in Job, NEW c \in Checkpoint
  PROVE  [j EXCEPT !.found = c] \in Job
BY DEF Job

LEMMA FirstTyped == First \in Checkpoint
BY WallAssumption DEF First, Checkpoint

LEMMA NoJobTyped == NoJob \in Job
BY FirstTyped DEF NoJob, Job

\* The base of an observer is one of the checkpoints.
BaseKnown ==
  \A p \in Controllers : pc[p] # "idle" => job[p].base \in 1 .. Len(chain)

\* The time that is counted is a number between the last one and the budget.
LEMMA ElapsedTyped ==
  ASSUME NEW last \in 0 .. Wall, NEW utc \in Int, NEW now \in Int, NEW same \in BOOLEAN
  PROVE  Elapsed(last, utc, now, same) \in last .. Wall
BY WallAssumption DEF Elapsed, Smaller, Larger

\* What Identify finds, and that it is not behind the base.
LEMMA FoundTyped ==
  ASSUME TypeOK, BaseKnown, NEW p \in Controllers, Identify(p), pc'[p] = "create"
  PROVE  /\ job' = [job EXCEPT ![p] = [job[p] EXCEPT !.found = job'[p].found]]
         /\ job'[p].found \in Checkpoint
         /\ job'[p].found.utc = job[p].utc /\ job'[p].found.at = job[p].at
         /\ job'[p].found.elapsed =
              Elapsed(Base(p).elapsed, job[p].utc, job[p].mono, SameBoot)
<1> DEFINE last == Base(p)
           j == job[p]
           e == Elapsed(last.elapsed, j.utc, j.mono, SameBoot)
           m == IF SameBoot THEN j.mono ELSE last.mono
           found == [utc |-> j.utc, mono |-> m, elapsed |-> e, at |-> j.at]
<1>1. pc[p] = "identity" /\ j \in Job /\ last \in Checkpoint
  BY DEF Identify, TypeOK, BaseKnown, Base
<1>2. /\ last.elapsed \in 0 .. Wall /\ last.mono \in Int
      /\ j.utc \in Int /\ j.mono \in Int /\ j.at \in Nat
  BY <1>1 DEF Checkpoint, Job
<1>3. SameBoot \in BOOLEAN
  BY DEF SameBoot
<1>4. e \in 0 .. Wall
  BY <1>2, <1>3, ElapsedTyped
<1>5. job' = [job EXCEPT ![p].found = found]
  BY DEF Identify, Raise, Goto, TypeOK
<1>6. found \in Checkpoint
  BY <1>2, <1>4 DEF Checkpoint
<1>9. found.utc = j.utc /\ found.at = j.at /\ found.elapsed = e
  OBVIOUS
<1> HIDE DEF found
<1>7. job' = [job EXCEPT ![p] = [job[p] EXCEPT !.found = found]]
  BY <1>5, Zenon
<1>8. job'[p].found = found
  BY <1>7, <1>1 DEF TypeOK, Job
<1>10. job' = [job EXCEPT ![p] = [job[p] EXCEPT !.found = job'[p].found]]
  BY <1>7, <1>8, Zenon
<1> QED
  BY <1>6, <1>8, <1>9, <1>10, Zenon

\* Raising, dying and returning leave well-typed hands.
LEMMA RaiseTyped ==
  ASSUME TypeOK, NEW p \in Controllers, Raise(p)
  PROVE  pc' \in [Controllers -> Phases] /\ job' \in [Controllers -> Job]
BY NoJobTyped DEF TypeOK, Raise, Goto, Phases

\* Appending the checkpoint in hand.
LEMMA PutTyped ==
  ASSUME TypeOK, NEW p \in Controllers
  PROVE  /\ Put(job[p].base + 1, job[p].found) \in Seq(Checkpoint)
         /\ Len(Put(job[p].base + 1, job[p].found)) >= 2
<1>1. job[p].found \in Checkpoint /\ chain \in Seq(Checkpoint) /\ Len(chain) >= 2
  BY DEF TypeOK, Job
<1> QED
  BY <1>1 DEF Put

\* Every step of an observer keeps the types.
LEMMA ObserveTyped ==
  ASSUME TypeOK, BaseKnown, NEW p \in Controllers, Observe(p)
  PROVE  TypeOK'
<1>1. CASE Load(p)
  <2>1. Len(chain) \in Nat /\ job[p] \in Job
    BY DEF TypeOK
  <2>2. job' = [job EXCEPT ![p] = [job[p] EXCEPT !.base = Len(chain)]]
    BY <1>1, Zenon DEF Load
  <2>3. job' \in [Controllers -> Job]
    BY <2>1, <2>2, JobBase DEF TypeOK
  <2> QED
    BY <1>1, <2>3 DEF Load, Goto, TypeOK, Phases, clocks
<1>2. CASE ReadUtc(p)
  <2>1. Utc \in Int /\ real \in Nat /\ job[p] \in Job
    BY DEF TypeOK, Utc
  <2>2. CASE WentBack(p)
    BY <1>2, <2>2, RaiseTyped DEF ReadUtc, TypeOK, clocks
  <2>3. CASE ~WentBack(p)
    <3>1. job' = [job EXCEPT ![p].utc = Utc, ![p].at = real]
      BY <1>2, <2>3 DEF ReadUtc
    <3>2. job' = [job EXCEPT ![p] = [job[p] EXCEPT !.utc = Utc, !.at = real]]
      BY <3>1 DEF TypeOK
    <3>3. job' \in [Controllers -> Job]
      BY <2>1, <3>2, JobUtc DEF TypeOK
    <3> QED
      BY <1>2, <2>3, <3>3 DEF ReadUtc, Goto, TypeOK, Phases, Reading, clocks
  <2> QED
    BY <2>2, <2>3
<1>3. CASE ReadMono(p)
  <2>1. job' = [job EXCEPT ![p] = [job[p] EXCEPT !.mono = mono]]
    BY <1>3, Zenon DEF ReadMono
  <2>2. job' \in [Controllers -> Job]
    BY <2>1, JobMono DEF TypeOK
  <2> QED
    BY <1>3, <2>2 DEF ReadMono, Goto, TypeOK, Phases, Reading, clocks
<1>4. CASE Identify(p)
  <2>1. CASE Raise(p)
    BY <1>4, <2>1, RaiseTyped DEF Identify, TypeOK, clocks
  <2>2. CASE Goto(p, "create")
    <3>1. pc'[p] = "create" /\ pc' \in [Controllers -> Phases]
      BY <2>2 DEF Goto, TypeOK, Phases, Writing
    <3>2. job' \in [Controllers -> Job]
      BY <1>4, <3>1, FoundTyped, JobFound DEF TypeOK
    <3> QED
      BY <1>4, <3>1, <3>2 DEF Identify, TypeOK, clocks
  <2> QED
    BY <1>4, <2>1, <2>2 DEF Identify
<1>5. CASE Create(p)
  <2>1. job[p].base + 1 \in Nat
    BY DEF TypeOK, Job
  <2>2. CASE Raise(p) /\ UNCHANGED partial
    BY <1>5, <2>2, RaiseTyped DEF Create, TypeOK, clocks
  <2>3. CASE partial' = job[p].base + 1 /\ Goto(p, "fill") /\ UNCHANGED job
    BY <1>5, <2>1, <2>3 DEF Create, Goto, TypeOK, Phases, Writing, clocks
  <2> QED
    BY <1>5, <2>2, <2>3 DEF Create
<1>6. CASE Fill(p)
  BY <1>6, RaiseTyped, PutTyped DEF Fill, TypeOK, clocks
<1>7. CASE Crash(p)
  BY <1>7, RaiseTyped DEF Crash, TypeOK, clocks
<1> QED
  BY <1>1, <1>2, <1>3, <1>4, <1>5, <1>6, <1>7 DEF Observe

\* The machine keeps the types.
LEMMA MachineTyped ==
  ASSUME TypeOK, Tick \/ Adjust \/ Reboot
  PROVE  TypeOK'
<1>1. CASE Tick
  <2>1. slept' \in BOOLEAN
    BY <1>1, Zenon DEF Tick, TypeOK
  <2>2. real' \in Nat /\ mono' \in Nat
    BY <1>1 DEF Tick, TypeOK
  <2> QED
    BY <1>1, <2>1, <2>2 DEF Tick, TypeOK
<1>2. CASE Adjust
  <2>1. offset' \in Int /\ adjusts' \in Nat
    BY <1>2, BoundsAssumption DEF Adjust, TypeOK
  <2>2. back' \in BOOLEAN
    BY <1>2, Zenon DEF Adjust
  <2> QED
    BY <1>2, <2>1, <2>2 DEF Adjust, TypeOK
<1>3. CASE Reboot
  BY <1>3, NoJobTyped DEF Reboot, TypeOK, Phases
<1> QED
  BY <1>1, <1>2, <1>3

-----------------------------------------------------------------------------
(* Custody of the chain.                                                   *)

\* Nothing an observer read is behind the checkpoint it loaded.
NotBehind ==
  \A p \in Controllers :
    /\ pc[p] \in Reading => Base(p).utc <= job[p].utc
    /\ pc[p] \in Writing => /\ Base(p).utc <= job[p].found.utc
                            /\ Base(p).elapsed <= job[p].found.elapsed

\* Whoever fills a checkpoint created it, alone, and it is the next one.
OneFiller ==
  \A p \in Controllers : pc[p] = "fill" =>
    /\ job[p].base = Len(chain) /\ partial = Len(chain) + 1
    /\ \A q \in Controllers : pc[q] = "fill" => q = p

Custody == TypeOK /\ BaseKnown /\ NotBehind /\ OneFiller /\ ChainOrdered

\* A campaign starts with two equal checkpoints and nobody observing.
LEMMA InitCustody == Init => Custody
<1> SUFFICES ASSUME Init
             PROVE  Custody
  OBVIOUS
<1>1. chain \in Seq(Checkpoint) /\ Len(chain) = 2 /\ chain[1] = First /\ chain[2] = First
  BY FirstTyped DEF Init
<1>2. slept \in BOOLEAN /\ back \in BOOLEAN
  BY Zenon DEF Init
<1>3. TypeOK
  BY <1>1, <1>2, NoJobTyped, WallAssumption DEF Init, TypeOK, Phases, Sources
<1>4. ChainOrdered
  BY <1>1 DEF ChainOrdered, First
<1> QED
  BY <1>1, <1>3, <1>4 DEF Init, Custody, BaseKnown, NotBehind, OneFiller, Reading, Writing

\* A step of one observer that leaves the files alone.
LEMMA StillCustody ==
  ASSUME Custody, TypeOK', NEW p \in Controllers, chain' = chain, partial' = partial,
         pc'[p] # "fill",
         \A q \in Controllers \ {p} : pc'[q] = pc[q] /\ job'[q] = job[q],
         pc'[p] # "idle" => job'[p].base \in 1 .. Len(chain),
         pc'[p] \in Reading => Base(p)'.utc <= job'[p].utc,
         pc'[p] \in Writing => /\ Base(p)'.utc <= job'[p].found.utc
                               /\ Base(p)'.elapsed <= job'[p].found.elapsed
  PROVE  Custody'
<1>1. BaseKnown'
  BY DEF Custody, BaseKnown
<1>2. NotBehind'
  BY DEF Custody, NotBehind, Base
<1>3. OneFiller'
  BY DEF Custody, OneFiller
<1>4. ChainOrdered'
  BY DEF Custody, ChainOrdered
<1> QED
  BY <1>1, <1>2, <1>3, <1>4 DEF Custody

\* An observer that raises, returns or dies without a trace.
LEMMA RaiseCustody ==
  ASSUME Custody, TypeOK', NEW p \in Controllers, Raise(p), UNCHANGED <<chain, partial>>
  PROVE  Custody'
<1>1. /\ chain' = chain /\ partial' = partial
      /\ pc'[p] = "idle"
      /\ \A q \in Controllers \ {p} : pc'[q] = pc[q] /\ job'[q] = job[q]
  BY DEF Custody, TypeOK, Raise, Goto
<1> QED
  BY <1>1, StillCustody DEF Reading, Writing

\* Loading and reading the clock: the base is the last checkpoint, and a clock behind it raises.
LEMMA ReadCustody ==
  ASSUME Custody, TypeOK', NEW p \in Controllers, Load(p) \/ ReadUtc(p) \/ ReadMono(p)
  PROVE  Custody'
<1>1. CASE Load(p)
  <2>1. Len(chain) \in 1 .. Len(chain)
    BY DEF Custody, TypeOK
  <2>2. /\ pc'[p] = "utc" /\ job'[p].base = Len(chain)
        /\ \A q \in Controllers \ {p} : pc'[q] = pc[q] /\ job'[q] = job[q]
    BY <1>1 DEF Load, Goto, Custody, TypeOK, Job
  <2>3. chain' = chain /\ partial' = partial
    BY <1>1 DEF Load
  <2> QED
    BY <2>1, <2>2, <2>3, StillCustody DEF Reading, Writing
<1>2. CASE ReadUtc(p) /\ Raise(p)
  BY <1>2, RaiseCustody DEF ReadUtc
<1>3. CASE ReadUtc(p) /\ ~WentBack(p)
  <2>1. /\ pc'[p] = "mono" /\ job'[p].base = job[p].base /\ job'[p].utc = Utc
        /\ \A q \in Controllers \ {p} : pc'[q] = pc[q] /\ job'[q] = job[q]
    <3>1. job' = [job EXCEPT ![p].utc = Utc, ![p].at = real]
      BY <1>3 DEF ReadUtc
    <3>2. job' = [job EXCEPT ![p] = [job[p] EXCEPT !.utc = Utc, !.at = real]]
      BY <3>1 DEF Custody, TypeOK
    <3> QED
      BY <1>3, <3>2 DEF ReadUtc, Goto, Custody, TypeOK, Job
  <2>2. chain' = chain /\ partial' = partial /\ pc[p] = "utc"
    BY <1>3 DEF ReadUtc
  <2>3. job[p].base \in 1 .. Len(chain)
    BY <2>2 DEF Custody, BaseKnown
  <2>4. Base(p)' = Base(p)
    BY <2>1, <2>2 DEF Base
  <2>5. Base(p) \in Checkpoint /\ Utc \in Int
    BY <2>3 DEF Base, Custody, TypeOK, Utc
  <2>6. Base(p)'.utc <= job'[p].utc
    BY <1>3, <2>1, <2>4, <2>5 DEF WentBack, Checkpoint
  <2> QED
    BY <2>1, <2>2, <2>3, <2>6, StillCustody DEF Reading, Writing
<1>4. CASE ReadMono(p)
  <2>1. /\ pc'[p] = "identity" /\ job'[p].base = job[p].base /\ job'[p].utc = job[p].utc
        /\ \A q \in Controllers \ {p} : pc'[q] = pc[q] /\ job'[q] = job[q]
    BY <1>4 DEF ReadMono, Goto, Custody, TypeOK, Job
  <2>2. chain' = chain /\ partial' = partial /\ pc[p] = "mono"
    BY <1>4 DEF ReadMono
  <2>3. job[p].base \in 1 .. Len(chain) /\ Base(p).utc <= job[p].utc
    BY <2>2 DEF Custody, BaseKnown, NotBehind, Reading
  <2>4. Base(p)'.utc <= job'[p].utc
    BY <2>1, <2>2, <2>3 DEF Base
  <2> QED
    BY <2>1, <2>2, <2>3, <2>4, StillCustody DEF Reading, Writing
<1> QED
  BY <1>1, <1>2, <1>3, <1>4 DEF ReadUtc

\* What is found is not behind the base.
LEMMA IdentifyCustody ==
  ASSUME Custody, TypeOK', NEW p \in Controllers, Identify(p)
  PROVE  Custody'
<1>1. CASE Raise(p)
  BY <1>1, RaiseCustody DEF Identify
<1>2. CASE Goto(p, "create")
  <2>1. pc'[p] = "create" /\ pc[p] = "identity" /\ chain' = chain /\ partial' = partial
    BY <1>2 DEF Goto, Identify, Custody, TypeOK
  <2>2. /\ job' = [job EXCEPT ![p] = [job[p] EXCEPT !.found = job'[p].found]]
        /\ job'[p].found.utc = job[p].utc
        /\ job'[p].found.elapsed = Elapsed(Base(p).elapsed, job[p].utc, job[p].mono, SameBoot)
    BY <2>1, FoundTyped DEF Custody
  <2>3. /\ job'[p].base = job[p].base
        /\ \A q \in Controllers \ {p} : pc'[q] = pc[q] /\ job'[q] = job[q]
    BY <1>2, <2>2 DEF Goto, Custody, TypeOK, Job
  <2>4. job[p].base \in 1 .. Len(chain) /\ Base(p).utc <= job[p].utc
    BY <2>1 DEF Custody, BaseKnown, NotBehind, Reading
  <2>5. Base(p) \in Checkpoint /\ job[p] \in Job
    BY <2>4 DEF Base, Custody, TypeOK
  <2>6. /\ Base(p).elapsed \in 0 .. Wall /\ job[p].utc \in Int /\ job[p].mono \in Int
        /\ SameBoot \in BOOLEAN
    BY <2>5 DEF Checkpoint, Job, SameBoot
  <2>7. Base(p).elapsed <= job'[p].found.elapsed
    <3>1. Elapsed(Base(p).elapsed, job[p].utc, job[p].mono, SameBoot) \in Base(p).elapsed .. Wall
      BY <2>6, ElapsedTyped
    <3> QED
      BY <2>2, <2>6, <3>1, WallAssumption
  <2>8. Base(p)' = Base(p)
    BY <2>1, <2>3 DEF Base
  <2> QED
    BY <2>1, <2>2, <2>3, <2>4, <2>7, <2>8, StillCustody DEF Reading
<1> QED
  BY <1>1, <1>2 DEF Identify

\* Whoever creates the next file loaded the whole chain, and nobody else fills one.
LEMMA CreateCustody ==
  ASSUME Custody, TypeOK', NEW p \in Controllers, Create(p)
  PROVE  Custody'
<1>1. CASE Raise(p) /\ UNCHANGED partial
  BY <1>1, RaiseCustody DEF Create
<1>2. CASE /\ Free(job[p].base + 1) /\ partial' = job[p].base + 1
           /\ Goto(p, "fill") /\ UNCHANGED job
  <2>1. pc[p] = "create" /\ chain' = chain /\ job' = job
    BY <1>2 DEF Create
  <2>2. pc'[p] = "fill" /\ \A q \in Controllers \ {p} : pc'[q] = pc[q]
    BY <1>2 DEF Goto, Custody, TypeOK
  <2>3. job[p].base \in 1 .. Len(chain) /\ chain \in Seq(Checkpoint)
    BY <2>1 DEF Custody, BaseKnown, TypeOK
  <2>4. job[p].base = Len(chain) /\ partial # Len(chain) + 1
    BY <1>2, <2>3 DEF Free
  <2>5. \A q \in Controllers : pc[q] # "fill"
    BY <2>4 DEF Custody, OneFiller
  <2>6. BaseKnown' /\ ChainOrdered'
    BY <2>1, <2>2, <2>3 DEF Custody, BaseKnown, ChainOrdered
  <2>7. NotBehind'
    BY <2>1, <2>2 DEF Custody, NotBehind, Base, Reading, Writing
  <2>8. OneFiller'
    BY <1>2, <2>1, <2>2, <2>4, <2>5 DEF OneFiller
  <2> QED
    BY <2>6, <2>7, <2>8 DEF Custody
<1> QED
  BY <1>1, <1>2 DEF Create

\* Filling a file appends to the chain.
LEMMA FillAppends ==
  ASSUME Custody, NEW p \in Controllers, Fill(p)
  PROVE  chain' = Append(chain, job[p].found)
<1>1. job[p].base = Len(chain) /\ chain \in Seq(Checkpoint)
  BY DEF Custody, OneFiller, TypeOK, Fill
<1> QED
  BY <1>1 DEF Fill, Put

\* The chain stays ordered, because the filler's base is the last checkpoint.
LEMMA FillCustody ==
  ASSUME Custody, TypeOK', NEW p \in Controllers, Fill(p)
  PROVE  Custody'
<1> DEFINE found == job[p].found
<1>1. pc[p] = "fill" /\ job[p].base = Len(chain) /\ \A q \in Controllers \ {p} : pc[q] # "fill"
  BY DEF Fill, Custody, OneFiller
<1>2. /\ pc'[p] = "idle"
      /\ \A q \in Controllers \ {p} : pc'[q] = pc[q] /\ job'[q] = job[q]
  BY DEF Fill, Raise, Goto, Custody, TypeOK
<1>3. chain \in Seq(Checkpoint) /\ Len(chain) >= 2 /\ found \in Checkpoint
  BY DEF Custody, TypeOK, Job
<1>4. chain' = Append(chain, found)
  BY FillAppends
<1> HIDE DEF found
<1>5. /\ Len(chain') = Len(chain) + 1 /\ chain'[Len(chain) + 1] = found
      /\ \A i \in 1 .. Len(chain) : chain'[i] = chain[i]
  BY <1>3, <1>4
<1>6. chain[Len(chain)].utc <= found.utc /\ chain[Len(chain)].elapsed <= found.elapsed
  BY <1>1 DEF Custody, NotBehind, Writing, Base, found
<1>7. \A i \in 1 .. Len(chain) :
        /\ chain[i] \in Checkpoint
        /\ chain[i].utc <= chain[Len(chain)].utc /\ chain[i].elapsed <= chain[Len(chain)].elapsed
  <2>1. SUFFICES ASSUME NEW i \in 1 .. Len(chain)
                 PROVE  /\ chain[i] \in Checkpoint
                        /\ chain[i].utc <= chain[Len(chain)].utc
                        /\ chain[i].elapsed <= chain[Len(chain)].elapsed
    OBVIOUS
  <2>2. chain[i] \in Checkpoint
    BY <1>3
  <2>3. chain[i].utc \in Int /\ chain[i].elapsed \in Int
    BY <2>2, WallAssumption DEF Checkpoint
  <2>4. CASE i = Len(chain)
    BY <2>2, <2>3, <2>4
  <2>5. CASE i < Len(chain)
    BY <1>3, <2>2, <2>5 DEF Custody, ChainOrdered
  <2> QED
    BY <1>3, <2>4, <2>5
<1>8. ChainOrdered'
  <2>1. SUFFICES ASSUME NEW i \in 1 .. Len(chain) + 1, NEW k \in 1 .. Len(chain) + 1, i < k
                 PROVE  chain'[i].elapsed <= chain'[k].elapsed /\ chain'[i].utc <= chain'[k].utc
    BY <1>3, <1>4, <1>5 DEF ChainOrdered
  <2>2. CASE k \in 1 .. Len(chain)
    BY <1>3, <1>5, <2>1, <2>2 DEF Custody, ChainOrdered
  <2>3. CASE k = Len(chain) + 1
    <3>1. i \in 1 .. Len(chain)
      BY <1>3, <2>1, <2>3
    <3> DEFINE a == chain[i]
               b == chain[Len(chain)]
    <3>2. a \in Checkpoint /\ b \in Checkpoint
      BY <1>3, <1>7, <3>1
    <3> HIDE DEF a, b
    <3>3. /\ a.utc \in Int /\ a.elapsed \in Int /\ b.utc \in Int /\ b.elapsed \in Int
          /\ found.utc \in Int /\ found.elapsed \in Int
      BY <1>3, <3>2, WallAssumption DEF Checkpoint
    <3>4. /\ a.utc <= b.utc /\ a.elapsed <= b.elapsed
          /\ b.utc <= found.utc /\ b.elapsed <= found.elapsed
      BY <1>6, <1>7, <3>1, Zenon DEF a, b
    <3>5. chain'[i] = a /\ chain'[k] = found
      BY <1>5, <2>3, <3>1 DEF a
    <3> QED
      BY <3>3, <3>4, <3>5
  <2> QED
    BY <1>3, <2>2, <2>3
<1>9. BaseKnown'
  BY <1>2, <1>3, <1>5 DEF Custody, BaseKnown
<1>10. NotBehind'
  <2>1. SUFFICES ASSUME NEW q \in Controllers \ {p}, pc[q] # "idle"
                 PROVE  Base(q)' = Base(q)
    BY <1>2 DEF NotBehind, Custody, Reading, Writing
  <2>2. job[q].base \in 1 .. Len(chain)
    BY <2>1 DEF Custody, BaseKnown
  <2> QED
    BY <1>2, <1>5, <2>2 DEF Base
<1>11. OneFiller'
  BY <1>1, <1>2 DEF OneFiller
<1> QED
  BY <1>8, <1>9, <1>10, <1>11 DEF Custody

\* The machine leaves the files alone, and a reboot takes everybody's hands off them.
LEMMA MachineCustody ==
  ASSUME Custody, TypeOK', Tick \/ Adjust \/ Reboot
  PROVE  Custody'
<1>1. CASE Tick \/ Adjust
  <2>1. chain' = chain /\ partial' = partial /\ pc' = pc /\ job' = job
    BY <1>1 DEF Tick, Adjust
  <2> QED
    BY <2>1 DEF Custody, BaseKnown, NotBehind, OneFiller, ChainOrdered, Base
<1>2. CASE Reboot
  <2>1. chain' = chain /\ \A q \in Controllers : pc'[q] = "idle"
    BY <1>2 DEF Reboot
  <2> QED
    BY <2>1 DEF Custody, BaseKnown, NotBehind, OneFiller, ChainOrdered, Reading, Writing
<1> QED
  BY <1>1, <1>2

\* The inductive invariant.
LEMMA NextCustody == Custody /\ [Next]_vars => Custody'
<1> SUFFICES ASSUME Custody, [Next]_vars
             PROVE  Custody'
  OBVIOUS
<1>1. CASE Tick \/ Adjust \/ Reboot
  BY <1>1, MachineTyped, MachineCustody DEF Custody
<1>2. ASSUME NEW p \in Controllers, Observe(p)
      PROVE  Custody'
  <2>1. TypeOK'
    BY <1>2, ObserveTyped DEF Custody
  <2>2. CASE Crash(p)
    BY <2>1, <2>2, RaiseCustody DEF Crash
  <2> QED
    BY <1>2, <2>1, <2>2, ReadCustody, IdentifyCustody, CreateCustody, FillCustody DEF Observe
<1>3. CASE UNCHANGED vars
  BY <1>3 DEF vars, clocks, Custody, TypeOK, BaseKnown, NotBehind, OneFiller, ChainOrdered, Base
<1> QED
  BY <1>1, <1>2, <1>3 DEF Next

\* Every observer's custody of the chain holds throughout.
THEOREM CustodyHolds == Spec => []Custody
<1>1. Init => Custody
  BY InitCustody
<1>2. Custody /\ [Next]_vars => Custody'
  BY NextCustody
<1> QED
  BY <1>1, <1>2, PTL DEF Spec

\* Every variable keeps its type.
THEOREM TypeCorrect == Spec => []TypeOK
<1>1. Custody => TypeOK
  BY DEF Custody
<1> QED
  BY <1>1, CustodyHolds, PTL

\* Neither the elapsed time nor the wall clock of the chain ever goes back, however many
\* controllers observe, die or reboot and however the clock is set.
THEOREM NothingGivenBack == Spec => []ChainOrdered
<1>1. Custody => ChainOrdered
  BY DEF Custody
<1> QED
  BY <1>1, CustodyHolds, PTL

\* A checkpoint, once written, is there for good: the chain is only appended to.
LEMMA NextRetains ==
  ASSUME Custody, [Next]_vars
  PROVE  Len(chain) <= Len(chain') /\ \A i \in DOMAIN chain : chain'[i] = chain[i]
<1>1. chain \in Seq(Checkpoint)
  BY DEF Custody, TypeOK
<1>2. CASE chain' = chain
  BY <1>1, <1>2
<1>3. ASSUME NEW p \in Controllers, Fill(p)
      PROVE  Len(chain) <= Len(chain') /\ \A i \in DOMAIN chain : chain'[i] = chain[i]
  <2>1. chain' = Append(chain, job[p].found) /\ job[p].found \in Checkpoint
    BY <1>3, FillAppends DEF Custody, TypeOK, Job
  <2> QED
    BY <1>1, <2>1
<1>4. chain' = chain \/ \E p \in Controllers : Fill(p)
  BY DEF Next, vars, Observe, Tick, Adjust, Reboot, Load, ReadUtc, ReadMono, Identify, Create, Crash
<1> QED
  BY <1>2, <1>3, <1>4

\* No observation that was returned is replaced or lost.
THEOREM CheckpointsRetained == Spec => Retained
<1>1. Custody /\ [Next]_vars =>
        [Len(chain) <= Len(chain') /\ \A i \in DOMAIN chain : chain'[i] = chain[i]]_vars
  BY NextRetains
<1> QED
  BY <1>1, CustodyHolds, PTL DEF Spec, Retained

-----------------------------------------------------------------------------
(* The deadline is never extended.                                         *)

\* The clocks an observation may rest on: a wall clock that was never set back, or the original
\* boot's monotonic clock, when it never stopped and boots are told apart.
Honest == ~back \/ (source = "psutil" /\ boot = 0 /\ ~slept)

\* An honest wall clock is not behind the time, and an honest monotonic clock shows it.
ClocksTrue ==
  /\ ~back => offset >= 0
  /\ boot = 0 /\ ~slept => mono = Uptime + real

\* What observer p read and found counts the time that had passed when it began.
Accounts(p) ==
  /\ pc[p] \in Reading => job[p].at <= real /\ (~back => job[p].utc >= job[p].at)
  /\ pc[p] = "identity" /\ boot = 0 /\ ~slept => job[p].mono >= Uptime + job[p].at
  /\ pc[p] \in Writing /\ Honest => Covers(job[p].found)

Timed == /\ ClocksTrue
         /\ \A p \in Controllers : Accounts(p)
         /\ NeverExtended

\* Either honest clock alone makes the elapsed time large enough.
LEMMA ElapsedCovers ==
  ASSUME NEW last \in 0 .. Wall, NEW utc \in Int, NEW now \in Int, NEW same \in BOOLEAN,
         NEW at \in Nat, utc >= at \/ (same /\ now - Uptime >= at)
  PROVE  Elapsed(last, utc, now, same) >= Smaller(Wall, at)
BY WallAssumption DEF Elapsed, Smaller, Larger

\* A step that leaves the clocks alone.
LEMMA StillTimed ==
  ASSUME Timed, UNCHANGED clocks, NEW p \in Controllers, Accounts(p)', NeverExtended',
         \A q \in Controllers \ {p} : pc'[q] = pc[q] /\ job'[q] = job[q]
  PROVE  Timed'
BY DEF Timed, ClocksTrue, Accounts, Honest, Covers, clocks

\* An observer that raises, returns or dies has nothing to account for.
LEMMA RaiseTimed ==
  ASSUME TypeOK, Timed, UNCHANGED clocks, NEW p \in Controllers, Raise(p), NeverExtended'
  PROVE  Timed'
<1>1. /\ pc'[p] = "idle"
      /\ \A q \in Controllers \ {p} : pc'[q] = pc[q] /\ job'[q] = job[q]
  BY DEF TypeOK, Raise, Goto
<1>2. Accounts(p)'
  BY <1>1 DEF Accounts, Reading, Writing
<1> QED
  BY <1>1, <1>2, StillTimed

\* Only Fill changes the chain, so the deadline stands where neither it nor the clocks change.
LEMMA StillCovered ==
  ASSUME Timed, UNCHANGED <<clocks, chain>>
  PROVE  NeverExtended'
BY DEF Timed, NeverExtended, Covers, clocks

\* The wall clock is read at the instant the observation counts from, the monotonic clock later.
LEMMA ReadTimed ==
  ASSUME TypeOK, Timed, NEW p \in Controllers, Load(p) \/ ReadUtc(p) \/ ReadMono(p)
  PROVE  Timed'
<1>1. UNCHANGED <<clocks, chain>> /\ NeverExtended'
  BY StillCovered DEF Load, ReadUtc, ReadMono
<1>2. CASE Load(p)
  <2>1. /\ pc'[p] = "utc"
        /\ \A q \in Controllers \ {p} : pc'[q] = pc[q] /\ job'[q] = job[q]
    BY <1>2 DEF Load, Goto, TypeOK
  <2>2. Accounts(p)'
    BY <2>1 DEF Accounts, Reading, Writing
  <2> QED
    BY <1>1, <2>1, <2>2, StillTimed
<1>3. CASE ReadUtc(p) /\ Raise(p)
  BY <1>1, <1>3, RaiseTimed
<1>4. CASE ReadUtc(p) /\ ~WentBack(p)
  <2>1. job' = [job EXCEPT ![p].utc = Utc, ![p].at = real]
    BY <1>4 DEF ReadUtc
  <2>2. job' = [job EXCEPT ![p] = [job[p] EXCEPT !.utc = Utc, !.at = real]]
    BY <2>1 DEF TypeOK
  <2>3. /\ pc'[p] = "mono" /\ job'[p].utc = Utc /\ job'[p].at = real
        /\ \A q \in Controllers \ {p} : pc'[q] = pc[q] /\ job'[q] = job[q]
    BY <1>4, <2>2 DEF ReadUtc, Goto, TypeOK, Job
  <2>4. ~back => Utc >= real
    BY DEF TypeOK, Timed, ClocksTrue, Utc
  <2>5. real' = real /\ back' = back /\ real \in Nat
    BY <1>1 DEF clocks, TypeOK
  <2>6. Accounts(p)'
    BY <2>3, <2>4, <2>5 DEF Accounts, Writing
  <2> QED
    BY <1>1, <2>3, <2>6, StillTimed
<1>5. CASE ReadMono(p)
  <2>1. job' = [job EXCEPT ![p] = [job[p] EXCEPT !.mono = mono]]
    BY <1>5, Zenon DEF ReadMono
  <2>2. /\ pc[p] = "mono" /\ pc'[p] = "identity" /\ job'[p].mono = mono
        /\ job'[p].utc = job[p].utc /\ job'[p].at = job[p].at
        /\ \A q \in Controllers \ {p} : pc'[q] = pc[q] /\ job'[q] = job[q]
    BY <1>5, <2>1 DEF ReadMono, Goto, TypeOK, Job
  <2>3. job[p].at <= real /\ (~back => job[p].utc >= job[p].at)
    BY <2>2 DEF Timed, Accounts, Reading
  <2>4. job[p].at \in Nat /\ real \in Nat /\ Uptime \in Nat
    BY WallAssumption DEF TypeOK, Job
  <2>5. boot = 0 /\ ~slept => mono >= Uptime + job[p].at
    BY <2>3, <2>4 DEF Timed, ClocksTrue
  <2>6. real' = real /\ back' = back /\ boot' = boot /\ slept' = slept
    BY <1>1 DEF clocks
  <2>7. Accounts(p)'
    BY <2>2, <2>3, <2>5, <2>6 DEF Accounts, Writing
  <2> QED
    BY <1>1, <2>2, <2>7, StillTimed
<1> QED
  BY <1>2, <1>3, <1>4, <1>5 DEF ReadUtc

\* What is found covers the time, from whichever clock is honest.
LEMMA IdentifyTimed ==
  ASSUME TypeOK, BaseKnown, Timed, NEW p \in Controllers, Identify(p)
  PROVE  Timed'
<1>1. UNCHANGED <<clocks, chain>> /\ NeverExtended'
  BY StillCovered DEF Identify
<1>2. CASE Raise(p)
  BY <1>1, <1>2, RaiseTimed
<1>3. CASE Goto(p, "create")
  <2>1. pc'[p] = "create" /\ pc[p] = "identity"
    BY <1>3 DEF Goto, Identify, TypeOK
  <2>2. /\ job' = [job EXCEPT ![p] = [job[p] EXCEPT !.found = job'[p].found]]
        /\ job'[p].found.at = job[p].at
        /\ job'[p].found.elapsed = Elapsed(Base(p).elapsed, job[p].utc, job[p].mono, SameBoot)
    BY <2>1, FoundTyped
  <2>3. \A q \in Controllers \ {p} : pc'[q] = pc[q] /\ job'[q] = job[q]
    BY <1>3, <2>2 DEF Goto, TypeOK
  <2>4. Base(p) \in Checkpoint /\ job[p] \in Job
    BY <2>1 DEF Base, BaseKnown, TypeOK
  <2>5. /\ Base(p).elapsed \in 0 .. Wall /\ job[p].utc \in Int /\ job[p].mono \in Int
        /\ job[p].at \in Nat /\ SameBoot \in BOOLEAN
    BY <2>4 DEF Checkpoint, Job, SameBoot
  <2>6. Honest => job[p].utc >= job[p].at \/ (SameBoot /\ job[p].mono - Uptime >= job[p].at)
    BY <2>1, <2>5, WallAssumption DEF Timed, Accounts, Reading, Honest, SameBoot
  <2>7. Honest => Covers(job'[p].found)
    BY <2>2, <2>5, <2>6, ElapsedCovers DEF Covers
  <2>8. Honest' <=> Honest
    BY <1>1 DEF Honest, clocks
  <2>9. Accounts(p)'
    BY <2>1, <2>7, <2>8 DEF Accounts, Reading, Covers
  <2> QED
    BY <1>1, <2>3, <2>9, StillTimed
<1> QED
  BY <1>2, <1>3 DEF Identify

\* Creating and filling the file keep what was found.
LEMMA WriteTimed ==
  ASSUME Custody, Timed, NEW p \in Controllers, Create(p) \/ Fill(p)
  PROVE  Timed'
<1>1. CASE Create(p)
  <2>1. UNCHANGED <<clocks, chain>> /\ NeverExtended'
    BY <1>1, StillCovered DEF Create
  <2>2. CASE Raise(p)
    BY <2>1, <2>2, RaiseTimed DEF Custody
  <2>3. CASE Goto(p, "fill") /\ UNCHANGED job
    <3>1. /\ pc[p] = "create" /\ pc'[p] = "fill" /\ job' = job
          /\ \A q \in Controllers \ {p} : pc'[q] = pc[q]
      BY <1>1, <2>3 DEF Create, Goto, Custody, TypeOK
    <3>2. Honest' <=> Honest
      BY <2>1 DEF Honest, clocks
    <3>3. Accounts(p)'
      BY <3>1, <3>2 DEF Timed, Accounts, Reading, Writing, Covers
    <3> QED
      BY <2>1, <3>1, <3>3, StillTimed
  <2> QED
    BY <1>1, <2>2, <2>3 DEF Create
<1>2. CASE Fill(p)
  <2>1. /\ chain' = Append(chain, job[p].found) /\ chain \in Seq(Checkpoint)
        /\ job[p].found \in Checkpoint
    BY <1>2, FillAppends DEF Custody, TypeOK, Job
  <2>2. \A i \in DOMAIN chain' : chain'[i] = job[p].found \/ (i \in DOMAIN chain /\ chain'[i] = chain[i])
    BY <2>1
  <2>3. Honest => Covers(job[p].found) /\ \A i \in DOMAIN chain : Covers(chain[i])
    BY <1>2 DEF Timed, Accounts, NeverExtended, Honest, Fill, Writing
  <2>4. Honest' <=> Honest
    BY <1>2 DEF Honest, Fill, clocks
  <2>5. NeverExtended'
    BY <2>2, <2>3, <2>4 DEF NeverExtended, Honest, Covers
  <2> QED
    BY <1>2, <2>5, RaiseTimed DEF Fill, Custody
<1> QED
  BY <1>1, <1>2

\* Time, sleep, adjustments and reboots: an account in hand stays good while the clocks are honest.
LEMMA MachineTimed ==
  ASSUME TypeOK, Timed, Tick \/ Adjust \/ Reboot
  PROVE  Timed'
<1>1. /\ ~back' => ~back
      /\ boot' = 0 /\ ~slept' => boot = 0 /\ ~slept
      /\ source' = source /\ chain' = chain
      /\ real <= real' /\ real \in Nat /\ real' \in Nat
  <2>1. CASE Tick
    BY <2>1 DEF Tick, TypeOK
  <2>2. CASE Adjust
    BY <2>2 DEF Adjust, TypeOK
  <2>3. CASE Reboot
    BY <2>3 DEF Reboot, TypeOK
  <2> QED
    BY <2>1, <2>2, <2>3
<1>2. Honest' => Honest
  BY <1>1 DEF Honest
<1>3. NeverExtended'
  BY <1>1, <1>2 DEF Timed, NeverExtended, Honest, Covers
<1>4. ClocksTrue'
  <2>1. CASE Tick
    BY <2>1, WallAssumption DEF Tick, TypeOK, Timed, ClocksTrue
  <2>2. CASE Adjust
    <3>1. offset' \in Int
      BY <2>2, BoundsAssumption DEF Adjust, TypeOK
    <3>2. ~back' => ~back /\ ~(offset' < offset)
      BY <2>2, Zenon DEF Adjust
    <3>3. mono' = mono /\ real' = real /\ boot' = boot /\ slept' = slept
      BY <2>2 DEF Adjust
    <3>4. offset \in Int /\ (~back => offset >= 0)
      BY DEF TypeOK, Timed, ClocksTrue
    <3>5. ~back' => offset' >= 0
      BY <3>1, <3>2, <3>4
    <3> QED
      BY <3>3, <3>5 DEF Timed, ClocksTrue
  <2>3. CASE Reboot
    BY <2>3 DEF Reboot, TypeOK, Timed, ClocksTrue
  <2> QED
    BY <2>1, <2>2, <2>3
<1>5. ASSUME NEW p \in Controllers
      PROVE  Accounts(p)'
  <2>1. CASE Tick \/ Adjust
    <3>1. pc' = pc /\ job' = job /\ job[p].at \in Nat
      BY <2>1 DEF Tick, Adjust, TypeOK, Job
    <3> QED
      BY <1>1, <1>2, <3>1 DEF Timed, Accounts, Covers
  <2>2. CASE Reboot
    <3>1. pc'[p] = "idle"
      BY <2>2 DEF Reboot
    <3> QED
      BY <3>1 DEF Accounts, Reading, Writing
  <2> QED
    BY <2>1, <2>2
<1> QED
  BY <1>3, <1>4, <1>5 DEF Timed

\* The inductive step, under custody.
LEMMA NextTimed == Custody /\ Timed /\ [Next]_vars => Timed'
<1> SUFFICES ASSUME Custody, Timed, [Next]_vars
             PROVE  Timed'
  OBVIOUS
<1>1. TypeOK /\ BaseKnown
  BY DEF Custody
<1>2. CASE Tick \/ Adjust \/ Reboot
  BY <1>1, <1>2, MachineTimed
<1>3. ASSUME NEW p \in Controllers, Observe(p)
      PROVE  Timed'
  <2>1. CASE Crash(p)
    <3>1. UNCHANGED <<clocks, chain>> /\ Raise(p)
      BY <2>1 DEF Crash
    <3> QED
      BY <1>1, <3>1, RaiseTimed, StillCovered
  <2> QED
    BY <1>1, <1>3, <2>1, ReadTimed, IdentifyTimed, WriteTimed DEF Observe
<1>4. CASE UNCHANGED vars
  BY <1>4 DEF vars, clocks, Timed, ClocksTrue, Accounts, NeverExtended, Honest, Covers
<1> QED
  BY <1>2, <1>3, <1>4 DEF Next

\* Every observation that was kept counts at least the time that had passed when it was begun,
\* through sleep, reboots, races and deaths, as long as the wall clock was never set back - or
\* on the original boot even then, where psutil names the boots.
THEOREM DeadlineNeverExtended == Spec => []NeverExtended
<1>1. Init => Timed
  <2>1. SUFFICES ASSUME Init
                 PROVE  Timed
    OBVIOUS
  <2>2. chain \in Seq(Checkpoint) /\ Len(chain) = 2 /\ chain[1] = First /\ chain[2] = First
    BY <2>1, FirstTyped DEF Init
  <2>3. Covers(First)
    BY WallAssumption DEF Covers, First, Smaller
  <2>4. NeverExtended
    BY <2>2, <2>3 DEF NeverExtended, Covers
  <2>5. ClocksTrue
    BY <2>1, WallAssumption DEF Init, ClocksTrue
  <2> QED
    BY <2>1, <2>4, <2>5 DEF Init, Timed, Accounts, Reading, Writing
<1>2. Custody /\ Timed /\ [Next]_vars => Timed'
  BY NextTimed
<1>3. Timed => NeverExtended
  BY DEF Timed
<1> QED
  BY <1>1, <1>2, <1>3, CustodyHolds, PTL DEF Spec
=============================================================================
