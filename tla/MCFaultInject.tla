--------------------------- MODULE MCFaultInject ----------------------------
(***************************************************************************)
(* FaultInject for TLC: every command line of one or two scenarios.        *)
(***************************************************************************)
EXTENDS FaultInject

Lines == UNION {[1..n -> OneShot \cup Endless] : n \in 1..2}
=============================================================================
