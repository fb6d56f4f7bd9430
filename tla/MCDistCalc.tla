----------------------------- MODULE MCDistCalc -----------------------------
(***************************************************************************)
(* Instances of DistCalc.  OBUs are on a line, so a distance is the        *)
(* difference of two coordinates.                                          *)
(***************************************************************************)
EXTENDS DistCalc, TLC

CONSTANTS a1, a2, a3, b1, w1, w2

\* OBU 1 sends a1, a2 and a3, OBU 2 sends b1, and OBUs 5 and 9 send w1 and w2.
\* With Half = 4 the OBU IDs 5 and 9 become -3 and 1.
MCOBUOf == [e \in Events |-> CASE e \in {a1, a2, a3} -> 1
                               [] e = b1 -> 2
                               [] e = w1 -> 5
                               [] e = w2 -> 9]

MCPoints == 0 .. 3

MCAt == [e \in Events |-> CASE e = a2 -> 3 [] e = a3 -> 1 [] OTHER -> 0]

MCCalcDist == [q \in MCPoints \X MCPoints |->
                  IF q[1] < q[2] THEN q[2] - q[1] ELSE q[1] - q[2]]

MCOnePartition == [o \in OBUs |-> 1]

MCTwoPartitions == [o \in OBUs |-> IF o = 2 THEN 2 ELSE 1]

MCSymmetry == Permutations(CallIDs)
=============================================================================
