----------------------------- MODULE MCGateway -----------------------------
(***************************************************************************)
(* An event and its replay with another distance, or an event whose clock  *)
(* is ahead; invoices before, after and meanwhile; and a third caller who  *)
(* may also send what somebody refuses.  Infinite = 10 makes the amount of *)
(* OBU 1 overflow when both its events are charged.                        *)
(***************************************************************************)
EXTENDS Gateway, TLC

CONSTANTS e1, e2, c1, c2, c3

MCEventIDs == {e1, e2}

MCFingerprint == e1 :> 3 @@ e2 :> 1

MCDistance(e, t, v) ==
    [EventID |-> e, ProducedAtUnixNano |-> t, OBUID |-> 1, Value |-> v]

MCDistances ==
    {MCDistance(e1, 1, 2), MCDistance(e1, 1, 0), MCDistance(e2, 2, 2),
     MCDistance(e2, 1, -1), MCDistance(e2, 1, Infinite)}

MCRequest(client, protocol, op, method, arg) ==
    [client |-> client, protocol |-> protocol, op |-> op, method |-> method,
     arg |-> arg]

MCAggregate(protocol, d) == MCRequest("library", protocol, "aggregate", TRUE, d)

MCInvoice(method, arg) == MCRequest("gateway", "http", "invoice", method, arg)

MCDirect(op, method, arg) == MCRequest("direct", "http", op, method, arg)

MCRequests ==
    c1 :> {MCAggregate("http", MCDistance(e1, 1, 2)), MCInvoice(TRUE, 1)} @@
    c2 :> {MCAggregate("http", MCDistance(e1, 1, 0)),
           MCAggregate("grpc", MCDistance(e2, 2, 2))} @@
    c3 :> {MCInvoice(TRUE, 1), MCInvoice(TRUE, 0), MCInvoice(FALSE, 1),
           MCInvoice(TRUE, Malformed),
           MCRequest("library", "grpc", "invoice", TRUE, 1),
           MCAggregate("grpc", MCDistance(e2, 1, -1)),
           MCAggregate("http", MCDistance(e2, 1, Infinite)),
           MCDirect("aggregate", TRUE, Malformed),
           MCDirect("aggregate", FALSE, Malformed),
           MCDirect("invoice", TRUE, Malformed),
           MCDirect("reconciliation", TRUE, None),
           MCDirect("reconciliation", FALSE, None)}
=============================================================================
