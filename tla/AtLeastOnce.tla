---------------------------- MODULE AtLeastOnce ----------------------------
(***************************************************************************)
(* What the distance calculator promises the pipeline.  Records arrive in  *)
(* partitions; an event may be charged, any number of times, once it has   *)
(* arrived; and the records of a partition are finished one by one in      *)
(* order, an event only after it was charged.  DistCalc is shown to        *)
(* implement this specification, through crashes, retries and late calls.  *)
(***************************************************************************)
EXTENDS Integers, Sequences

CONSTANTS
    Partitions,
    Events,      \* the records that can be charged
    BadRecord    \* a record that is only thrown away

VARIABLES
    log,        \* log[p]: the records that arrived in partition p
    finished,   \* finished[p]: how many of them will not be looked at again
    charged     \* the events that have been charged

vars == <<log, finished, charged>>

Init ==
    /\ log = [p \in Partitions |-> <<>>]
    /\ finished = [p \in Partitions |-> 0]
    /\ charged = {}

Arrive(p, r) ==
    /\ log' = [log EXCEPT ![p] = Append(@, r)]
    /\ UNCHANGED <<finished, charged>>

Arrived(e) == \E p \in Partitions : \E i \in 1 .. Len(log[p]) : log[p][i] = e

Charge(e) ==
    /\ Arrived(e)
    /\ charged' = charged \cup {e}
    /\ UNCHANGED <<log, finished>>

Finish(p) ==
    LET next == finished[p] + 1 IN
    /\ next <= Len(log[p])
    /\ log[p][next] \in charged \cup {BadRecord}
    /\ finished' = [finished EXCEPT ![p] = next]
    /\ UNCHANGED <<log, charged>>

Next ==
    \/ \E p \in Partitions, r \in Events \cup {BadRecord} : Arrive(p, r)
    \/ \E e \in Events : Charge(e)
    \/ \E p \in Partitions : Finish(p)

Spec == Init /\ [][Next]_vars
=============================================================================
