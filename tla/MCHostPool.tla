----------------------------- MODULE MCHostPool -----------------------------
(* HostPool with two retirement threads and a handful of utterances.        *)
EXTENDS HostPool, TLC

\* The retirement threads are alike.
AlikeTimers == Permutations(Timers)
=============================================================================
