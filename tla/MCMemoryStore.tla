--------------------------- MODULE MCMemoryStore ---------------------------
(***************************************************************************)
(* Three handlers, three event IDs on two OBUs.  e1 arrives with two       *)
(* different distances, as it does when a restarted calculator replays it. *)
(* The hashes 3, 1 and 3 of two-bit words make Sum wrap and XOR cancel.    *)
(***************************************************************************)
EXTENDS MemoryStore, TLC

CONSTANTS e1, e2, e3

MCEventIDs == {e1, e2, e3}

MCFingerprint == e1 :> 3 @@ e2 :> 1 @@ e3 :> 3

MCDistance(e, o, v) ==
    [EventID |-> e, ProducedAtUnixNano |-> 1, OBUID |-> o, Value |-> v]

MCDistances ==
    {MCDistance(e1, 1, 2), MCDistance(e1, 1, 0), MCDistance(e2, 1, 1),
     MCDistance(e3, 2, 1),
     MCDistance(NoEventID, 1, 1), MCDistance(e2, 0, 1), MCDistance(e2, 1, -1),
     MCDistance(e2, 1, Infinite),
     [MCDistance(e3, 2, 1) EXCEPT !.ProducedAtUnixNano = 0]}
=============================================================================
