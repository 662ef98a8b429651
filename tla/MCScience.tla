----------------------------- MODULE MCScience -----------------------------
(* Science for TLC: two candidates that may fail or beat the fallback, which scores 1. *)
EXTENDS Science

\* Every good run takes less than P95; or the seeds, but the first one of the first candidate,
\* take a training and two predictions of P95 each.
Punctual == [c \in Candidates |-> [r \in Rungs |-> 1]]
Slow == [c \in Candidates |->
           [r \in Rungs |-> IF r > FirstSeed \/ (c = 2 /\ r = FirstSeed) THEN 3 * P95 ELSE 1]]
Campaign(launches, elapsed, seconds) ==
  [launches |-> launches, elapsed |-> elapsed, seconds |-> seconds]

MCLimits == {Campaign(10, 0, Punctual), Campaign(6, 0, Punctual), Campaign(10, 11, Punctual),
             Campaign(10, 0, Slow)}
MCLimitsPunctual == {Campaign(10, 0, Punctual)}
MCCeiling == <<2, 2, 2, 4>>
\* Two later seeds, each a launch of one category in which there is room for one.
MCCeilingScarce == <<2, 2, 2, 3>>
MCScores == <<{1, 2}, {1, 2}, {1, 2}, {1, 2}, {1}>>

=============================================================================
