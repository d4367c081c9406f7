------------------------------- MODULE Sweep -------------------------------
(***************************************************************************)
(* What the radar promises its host: reports from the angles of a sweep to  *)
(* and fro that never ends.  A sweep up ends with LastAngle and a sweep     *)
(* down begins with it; a sweep down leaves FirstAngle to the next one up.  *)
(***************************************************************************)
EXTENDS Integers

CONSTANTS FirstAngle, LastAngle

VARIABLES angle, rising   \* of the last report; FirstAngle - 1 before it

vars == <<angle, rising>>

Init == angle = FirstAngle - 1 /\ rising = TRUE

Up == rising /\ angle < LastAngle /\ angle' = angle + 1 /\ rising' = TRUE

Turn == rising /\ angle = LastAngle /\ angle' = angle /\ rising' = FALSE

Down ==
  /\ ~ rising
  /\ angle' = angle - 1
  /\ rising' = (angle' = FirstAngle)

Spec == Init /\ [][Up \/ Turn \/ Down]_vars /\ WF_vars(Up \/ Turn \/ Down)
=============================================================================
