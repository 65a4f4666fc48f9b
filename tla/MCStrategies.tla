---------------------------- MODULE MCStrategies ----------------------------
(***************************************************************************)
(* Instances of Strategies for TLC.                                        *)
(***************************************************************************)
EXTENDS Strategies

At(s, o) == [season |-> s, open |-> o]
\* One season, the wait for the next, and the next.
MCBackToBack == <<At(1, TRUE), At(2, TRUE)>>
MCTimeline == <<At(1, TRUE), At(2, FALSE), At(2, TRUE)>>
==============================================================================
