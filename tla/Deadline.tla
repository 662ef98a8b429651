------------------------------ MODULE Deadline ------------------------------
(***************************************************************************)
(* The hard deadline of a campaign: DeadlineState.observe of clock.py and  *)
(* the chain of checkpoint files in which controller.py keeps what was     *)
(* observed (_load_deadline, _append_deadline, observe_deadline and the    *)
(* same steps at the start of resume).                                     *)
(*                                                                         *)
(* An observation is a load of the chain, three readings of the clock and  *)
(* a file that is created exclusively and then filled.  The machine may    *)
(* sleep or reboot, its wall clock may be set forward or back, and several *)
(* controllers may observe at once, each dying anywhere.                   *)
(*                                                                         *)
(* real and at are history: no clock shows them.                           *)
(***************************************************************************)
EXTENDS Integers, Sequences

CONSTANTS
  Controllers,
  Wall,         \* wall_clock_seconds
  Uptime,       \* monotonic clock when the campaign started
  MaxReal,      \* last instant that is explored
  MaxShift,     \* largest adjustment of the wall clock
  MaxAdjusts,   \* bound on adjustments
  MaxReboots,   \* bound on reboots
  MaxChain      \* bound on checkpoints

ASSUME WallAssumption == Wall \in Nat \ {0} /\ Uptime \in Nat
ASSUME BoundsAssumption ==
  /\ MaxReal \in Nat /\ MaxShift \in Nat /\ MaxAdjusts \in Nat /\ MaxReboots \in Nat
  /\ MaxChain \in Nat

VARIABLES
  source,    \* where SystemClock takes the boot identity from
  real,      \* time since the start of the campaign
  offset,    \* error of the wall clock since then
  mono,      \* monotonic clock
  boot, born,             \* reboots so far; when this boot began
  slept, back, adjusts,   \* the machine slept; the wall clock was set back; how often set
  chain,     \* complete checkpoints
  partial,   \* number of the checkpoint that is created and not filled, or 0
  pc, job

clocks == <<source, real, offset, mono, boot, born, slept, back, adjusts>>
vars == <<clocks, chain, partial, pc, job>>

\* The campaign started at UTC 0.
Utc == real + offset

Checkpoint == [utc : Int, mono : Int, elapsed : 0 .. Wall, at : Nat]
First == [utc |-> 0, mono |-> Uptime, elapsed |-> 0, at |-> 0]

Job == [base : Nat, utc : Int, at : Nat, mono : Int, found : Checkpoint]
NoJob == [base |-> 0, utc |-> 0, at |-> 0, mono |-> 0, found |-> First]

Reading == {"mono", "identity"}
Writing == {"create", "fill"}
Phases == {"idle", "utc"} \cup Reading \cup Writing

\* psutil's boot time is either kept by the system or derived from the wall clock.
Sources == {"psutil", "psutil-derived", "wall-minus-monotonic"}

\* create observes the deadline once before the campaign is visible.
Init ==
  /\ source \in Sources
  /\ real = 0 /\ offset = 0 /\ mono = Uptime
  /\ boot = 0 /\ born = -Uptime /\ slept = FALSE /\ back = FALSE /\ adjusts = 0
  /\ chain = <<First, First>>
  /\ partial = 0
  /\ pc = [p \in Controllers |-> "idle"]
  /\ job = [p \in Controllers |-> NoJob]

Goto(p, next) == pc' = [pc EXCEPT ![p] = next]
Raise(p) == Goto(p, "idle") /\ job' = [job EXCEPT ![p] = NoJob]

-----------------------------------------------------------------------------
(* observe_deadline.                                                       *)

\* _load_deadline: with an unreadable last checkpoint it raises.
Load(p) ==
  /\ pc[p] = "idle"
  /\ partial = 0 /\ Len(chain) < MaxChain
  /\ job' = [job EXCEPT ![p].base = Len(chain)]
  /\ Goto(p, "utc")
  /\ UNCHANGED <<clocks, chain, partial>>

Base(p) == chain[job[p].base]

\* Mutant of WentBack: the wall clock is compared with the start of the campaign.
WentBackBehindStart(p) == Utc < First.utc

\* observe: a wall clock behind the last observation raises.
WentBack(p) == Utc < Base(p).utc

ReadUtc(p) ==
  /\ pc[p] = "utc"
  /\ IF WentBack(p)
     THEN Raise(p)
     ELSE /\ job' = [job EXCEPT ![p].utc = Utc, ![p].at = real]
          /\ Goto(p, "mono")
  /\ UNCHANGED <<clocks, chain, partial>>

ReadMono(p) ==
  /\ pc[p] = "mono"
  /\ job' = [job EXCEPT ![p].mono = mono]
  /\ Goto(p, "identity")
  /\ UNCHANGED <<clocks, chain, partial>>

\* boot_identity: when this boot began, as psutil tells it or as the wall clock at monotonic
\* zero.  A boot time that the system keeps is taken for the number of the boot.
SameBoot ==
  \/ source = "psutil" /\ boot = 0
  \/ source = "psutil-derived" /\ born + offset = -Uptime
  \/ source = "wall-minus-monotonic" /\ Utc - mono = First.utc - First.mono

Larger(a, b) == IF a >= b THEN a ELSE b
Smaller(a, b) == IF a <= b THEN a ELSE b

\* Mutant of Elapsed: the last observation is not carried on.
ElapsedAnew(last, utc, now, same) ==
  Smaller(Wall, Larger(Larger(0, utc), IF same THEN now - Uptime ELSE 0))

\* Mutant of Elapsed: the wall clock is consulted only on another boot.
ElapsedOneClock(last, utc, now, same) ==
  Smaller(Wall, Larger(last, IF same THEN now - Uptime ELSE utc))

\* Mutant of Elapsed: the budget does not cap it.
ElapsedUncapped(last, utc, now, same) ==
  Larger(Larger(last, utc), IF same THEN now - Uptime ELSE 0)

\* The largest of what was observed before, the wall clock and, on the original boot, the
\* monotonic clock; never more than the budget.
Elapsed(last, utc, now, same) ==
  Smaller(Wall, Larger(Larger(last, utc), IF same THEN now - Uptime ELSE 0))

\* A monotonic clock that went back on the same boot raises; another boot's is not kept.
Identify(p) ==
  LET last == Base(p)
      j == job[p]
  IN /\ pc[p] = "identity"
     /\ IF SameBoot /\ j.mono < last.mono
        THEN Raise(p)
        ELSE /\ job' = [job EXCEPT ![p].found =
                          [utc |-> j.utc, mono |-> IF SameBoot THEN j.mono ELSE last.mono,
                           elapsed |-> Elapsed(last.elapsed, j.utc, j.mono, SameBoot),
                           at |-> j.at]]
             /\ Goto(p, "create")
     /\ UNCHANGED <<clocks, chain, partial>>

\* No file has the number yet.
Free(n) == n \notin DOMAIN chain /\ n # partial

\* _append_deadline: the next number is created exclusively ...
Create(p) ==
  LET n == job[p].base + 1
  IN /\ pc[p] = "create"
     /\ IF Free(n)
        THEN partial' = n /\ Goto(p, "fill") /\ UNCHANGED job
        ELSE Raise(p) /\ UNCHANGED partial
     /\ UNCHANGED <<clocks, chain>>

Put(n, found) == IF n \in DOMAIN chain THEN [chain EXCEPT ![n] = found] ELSE Append(chain, found)

\* ... and then filled; only now is the observation returned.
Fill(p) ==
  /\ pc[p] = "fill"
  /\ chain' = Put(job[p].base + 1, job[p].found)
  /\ partial' = 0
  /\ Raise(p)
  /\ UNCHANGED clocks

\* The controller dies; a checkpoint that it was filling stays as it is.
Crash(p) ==
  /\ pc[p] # "idle"
  /\ Raise(p)
  /\ UNCHANGED <<clocks, chain, partial>>

-----------------------------------------------------------------------------
(* The machine.                                                            *)

\* Time passes.  A machine that sleeps does not advance its monotonic clock.
Tick ==
  /\ real < MaxReal
  /\ real' = real + 1
  /\ \/ mono' = mono + 1 /\ UNCHANGED slept
     \/ slept' = TRUE /\ UNCHANGED mono
  /\ UNCHANGED <<source, offset, boot, born, back, adjusts, chain, partial, pc, job>>

Adjust ==
  /\ adjusts < MaxAdjusts
  /\ adjusts' = adjusts + 1
  /\ offset' \in (offset - MaxShift) .. (offset + MaxShift)
  /\ back' = (back \/ offset' < offset)
  /\ UNCHANGED <<source, real, mono, boot, born, slept, chain, partial, pc, job>>

\* Nobody survives it.
Reboot ==
  /\ boot < MaxReboots
  /\ boot' = boot + 1
  /\ born' = real
  /\ mono' = 0
  /\ pc' = [p \in Controllers |-> "idle"]
  /\ job' = [p \in Controllers |-> NoJob]
  /\ UNCHANGED <<source, real, offset, slept, back, adjusts, chain, partial>>

Observe(p) ==
  \/ Load(p) \/ ReadUtc(p) \/ ReadMono(p) \/ Identify(p) \/ Create(p) \/ Fill(p) \/ Crash(p)

Next == Tick \/ Adjust \/ Reboot \/ \E p \in Controllers : Observe(p)

Spec == Init /\ [][Next]_vars

-----------------------------------------------------------------------------
(* Properties.                                                             *)

\* Every variable holds a value of its type.
TypeOK ==
  /\ source \in Sources
  /\ real \in Nat /\ offset \in Int /\ mono \in Nat /\ boot \in Nat /\ born \in Int
  /\ adjusts \in Nat
  /\ slept \in BOOLEAN /\ back \in BOOLEAN
  /\ chain \in Seq(Checkpoint) /\ Len(chain) >= 2
  /\ partial \in Nat
  /\ pc \in [Controllers -> Phases]
  /\ job \in [Controllers -> Job]

\* _load_deadline's checks ("deadline elapsed time moved backwards", "deadline UTC observation
\* moved backwards") never fail on a chain the controllers wrote, however they raced, died or
\* rebooted and whatever was done to the clocks: no observation gives time back.
ChainOrdered ==
  \A i, j \in DOMAIN chain :
    i < j => chain[i].elapsed <= chain[j].elapsed /\ chain[i].utc <= chain[j].utc

\* An observation that was returned is never replaced by another one.
Retained ==
  [][Len(chain) <= Len(chain') /\ \A i \in DOMAIN chain : chain'[i] = chain[i]]_vars

\* The observation counts at least the time that had really passed when it was begun.
Covers(c) == c.elapsed >= Smaller(Wall, c.at)

\* The deadline is never extended, by downtime, sleep or reboot, unless the wall clock was set
\* back - and not even then on the original boot, while psutil's boot time stands and the
\* monotonic clock never stopped.
NeverExtended ==
  ~back \/ (source = "psutil" /\ boot = 0 /\ ~slept) => \A i \in DOMAIN chain : Covers(chain[i])
=============================================================================
