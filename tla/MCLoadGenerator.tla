-------------------------- MODULE MCLoadGenerator --------------------------
(* Small instances of the OBU simulator: event IDs are sequence numbers.   *)
EXTENDS LoadGenerator

MCFive == 1 .. 5

MCConfig(m, rate, given, ramp, timed) ==
    [Mode |-> m, RatePositive |-> rate, RampGiven |-> given, Ramp |-> ramp,
     Timed |-> timed]

\* Two runs without end, four timed ones (one of them with a ramp of spaces, which
\* parseRamp takes for none, so that no positive rate is asked for) and four that
\* are refused.
MCConfigs ==
    {MCConfig("fixed", TRUE, FALSE, <<>>, FALSE),
     MCConfig("max", FALSE, FALSE, <<>>, FALSE),
     MCConfig("fixed", TRUE, FALSE, <<>>, TRUE),
     MCConfig("fixed", FALSE, TRUE, <<"good", "good">>, FALSE),
     MCConfig("fixed", FALSE, TRUE, <<>>, TRUE),
     MCConfig("max", TRUE, FALSE, <<>>, TRUE),
     MCConfig("fixed", FALSE, FALSE, <<>>, TRUE),
     MCConfig("fixed", TRUE, TRUE, <<"good", "bad">>, TRUE),
     MCConfig("max", TRUE, TRUE, <<"good">>, TRUE),
     MCConfig("burst", TRUE, FALSE, <<>>, TRUE)}

\* Events 1 and 3 have the same hash, so they cancel in the XOR.
MCHash == [e \in EventIDs |-> <<3, 1, 3, 2, 1>>[e]]
=============================================================================
