---------------------------- MODULE MCCodexHealth ----------------------------
(* Instances of CodexHealth for TLC.  One tick stands for two and a half     *)
(* minutes, in the lifecycle run for five, durations rounded up: the default *)
(* cooldown (60 s) is no longer than the probe interval (5 min), a           *)
(* reset-derived one (15 min) is longer, and the third soft avoid (10 min)   *)
(* outlasts the failure window (5 min).                                      *)
EXTENDS CodexHealth, TLC

CONSTANTS a1, a2, r1, r2, r3, r4, r5

MCSoftAvoids == [n \in 0..3 |-> <<1, 1, 4, 12>>[n + 1]]

MCRequests == Permutations(Requests)
=============================================================================
