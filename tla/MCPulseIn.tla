----------------------------- MODULE MCPulseIn -----------------------------
(* The calls of the checks of PulseIn.  pulseInLong() makes 16 iterations   *)
(* for each microsecond of its timeout.                                    *)
EXTENDS PulseIn

MCRequests == ({"pulseIn"} \X {1, 3, 8}) \union ({"pulseInLong"} \X {1})
=============================================================================
