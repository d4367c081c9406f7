---------------------------- MODULE MCServoAngle ----------------------------
(* The limits and the values of the checks of ServoAngle: the default       *)
(* limits, those of common servos and the widest and narrowest that min    *)
(* and max can hold; all angles, out-of-range values, and a sample of the  *)
(* pulse widths.                                                           *)
EXTENDS ServoAngle

MCLimits == {<<544, 2400>>, <<1000, 2000>>, <<700, 2300>>, <<36, 2912>>,
             <<1056, 1892>>, <<601, 2399>>}

MCValues == (-2 .. 182) \union {200, 543, 544, 545}
            \union {36 * k : k \in 16 .. 90}
=============================================================================
