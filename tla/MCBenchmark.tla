---------------------------- MODULE MCBenchmark ----------------------------
(* A warm-up of one event, then a load of none and a load of two.          *)
EXTENDS Benchmark

MCLoads == <<1, 0, 2>>
MCBounds == <<2, 3>>
=============================================================================
