-------------------------- MODULE MCCongestionLimiter --------------------------
(***************************************************************************)
(* Answers and clocks for TLC.                                             *)
(***************************************************************************)
EXTENDS CongestionLimiter

All == [send |-> TRUE, value |-> 0, delay |-> 0]
Limited(n, d) == [send |-> FALSE, value |-> n, delay |-> d]

\* The server is restarted with another limit: one of the two that the counter
\* of Half = 3 can reach, none at all, or one it cannot reach.
Limits == {All, Limited(0, 1), Limited(1, 0), Limited(2, 1), Limited(3, 1)}

BackAndForth == {-1, 1}
=============================================================================
