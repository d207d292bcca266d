--------------------------- MODULE MCDiagnostics ----------------------------
(***************************************************************************)
(* Diagnostics for TLC: cooldowns in the order of the code's 10, 5 and 0 s *)
(* (models.py:123-127), in ticks of the window.                            *)
(***************************************************************************)
EXTENDS Diagnostics

Cooldowns == [INFO |-> 3, WARN |-> 2, CRITICAL |-> 0]
=============================================================================
