-------------------------- MODULE MCTimelineCache --------------------------
(***************************************************************************)
(* TimelineCache for TLC: two requests for one window, which is short, so  *)
(* that it slides past old entries.  Requests for different windows do not *)
(* meet in the cache.                                                      *)
(***************************************************************************)
EXTENDS TimelineCache, TLC

CONSTANTS r1, r2

MCRequest == {r1, r2}

MCKey == {"24h"}

MCDuration == [k \in MCKey |-> 1]

Symmetry == Permutations(MCRequest)
=============================================================================
