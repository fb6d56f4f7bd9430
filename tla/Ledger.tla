------------------------------- MODULE Ledger -------------------------------
(***************************************************************************)
(* What the aggregator promises its callers: a ledger with at most one     *)
(* charge per event ID, kept for good, from which invoices and the         *)
(* reconciliation record are computed.  Every call takes effect at one     *)
(* instant.  MemoryStore is shown to implement this specification.         *)
(***************************************************************************)
EXTENDS Fingerprint

CONSTANTS
    Goroutines,   \* concurrent HTTP and gRPC handlers
    Distances,    \* the types.Distance values that callers send
    OBUIDs,       \* the OBU IDs invoices are asked for
    NoEventID,    \* the empty event ID
    Infinite,     \* a Value this large stands for NaN or +Inf
    None

VARIABLES
    ledger,   \* event ID -> [OBUID, Value], for the events applied so far
    out       \* out[t]: the result the call of goroutine t is about to return

vars == <<ledger, out>>

Init ==
    /\ ledger = [e \in {} |-> None]
    /\ out = [t \in Goroutines |-> None]

Acceptable(d) ==
    /\ d.EventID # NoEventID
    /\ d.ProducedAtUnixNano > 0
    /\ d.OBUID > 0
    /\ d.Value \in 0 .. (Infinite - 1)

Return(t, result) ==
    /\ out[t] = None
    /\ out' = [out EXCEPT ![t] = result]

Charge(e, d) ==
    ledger' = [x \in DOMAIN ledger \cup {e} |->
                  IF x = e THEN [OBUID |-> d.OBUID, Value |-> d.Value]
                           ELSE ledger[x]]

ChargesOf(o) == {e \in DOMAIN ledger : ledger[e].OBUID = o}

TotalOf(o) == SumOver([e \in DOMAIN ledger |-> ledger[e].Value], ChargesOf(o))

\* Mutant: a replayed event replaces the charge.
AggregateOverwriting(t, d) ==
    \/ /\ ~Acceptable(d)
       /\ Return(t, <<"invalid">>)
       /\ UNCHANGED ledger
    \/ /\ Acceptable(d)
       /\ Return(t, <<"applied", d.EventID \notin DOMAIN ledger>>)
       /\ Charge(d.EventID, d)

AggregateDistance(t, d) ==
    \/ /\ ~Acceptable(d)
       /\ Return(t, <<"invalid">>)
       /\ UNCHANGED ledger
    \/ /\ Acceptable(d) /\ d.EventID \in DOMAIN ledger
       /\ Return(t, <<"applied", FALSE>>)
       /\ UNCHANGED ledger
    \/ /\ Acceptable(d) /\ d.EventID \notin DOMAIN ledger
       /\ Return(t, <<"applied", TRUE>>)
       /\ Charge(d.EventID, d)

\* basePrice is 3.15; amounts are in hundredths.
CalculateInvoice(t, o) ==
    /\ Return(t, IF ChargesOf(o) = {}
                 THEN <<"not found">>
                 ELSE <<"invoice", o, TotalOf(o), 315 * TotalOf(o)>>)
    /\ UNCHANGED ledger

Reconciliation(t) ==
    /\ Return(t, <<"reconciliation", ReconciliationOf(DOMAIN ledger)>>)
    /\ UNCHANGED ledger

Reply(t) ==
    /\ out' = [out EXCEPT ![t] = None]
    /\ UNCHANGED ledger

Next ==
    \E t \in Goroutines :
        \/ \E d \in Distances : AggregateDistance(t, d)
        \/ \E o \in OBUIDs : CalculateInvoice(t, o)
        \/ Reconciliation(t) \/ Reply(t)

Spec == Init /\ [][Next]_vars
=============================================================================
