----------------------------- MODULE Aggregator -----------------------------
(***************************************************************************)
(* The aggregator process around its store: the HTTP and gRPC handlers,    *)
(* the metrics middleware and the shutdown sequence of main.  The service  *)
(* behind the middleware is the atomic Ledger that MemoryStore implements. *)
(*                                                                         *)
(* A call is one request on its way through the server.  Several are in    *)
(* progress at once, and each counter changes in a step of its own, as     *)
(* the Prometheus counters do.  A counter with labels keeps only the       *)
(* labels that the properties tell apart.                                  *)
(***************************************************************************)
EXTENDS Fingerprint

CONSTANTS
    Calls,        \* the requests made of the server, each at most once
    Requests,     \* Requests[c]: what call c may ask
    Distances,    \* the types.Distance values that callers send
    OBUIDs,       \* the OBU IDs invoices are asked for
    NoEventID,    \* the empty event ID
    Infinite,     \* a Value this large stands for NaN or +Inf
    Malformed,    \* a body or query parameter that does not parse
    Now,          \* the aggregator's clock, beside ProducedAtUnixNano
    None

Protocols == {"http", "grpc"}

Codes == {"200", "202", "400", "405", "500", "OK", "InvalidArgument"}

\* What callers can send.  The gateway asks for invoices over HTTP; the client
\* libraries, and gRPC, send no body that does not parse.
RequestOf(clients, protocols, op, args) ==
    [client : clients, protocol : protocols, op : {op}, method : BOOLEAN, arg : args]

Request ==
    RequestOf({"library"}, Protocols, "aggregate", Distances)
      \cup RequestOf({"direct"}, {"http"}, "aggregate", Distances \cup {Malformed})
      \cup RequestOf({"gateway", "direct"}, {"http"}, "invoice", Int \cup {Malformed})
      \cup RequestOf({"library"}, Protocols, "invoice", Int)
      \cup RequestOf({"direct"}, {"http"}, "reconciliation", {None})

\* What the service returns: see Ledger.
Outcomes ==
    {<<"invalid">>, <<"not found">>} \cup ({"applied"} \X BOOLEAN)
      \cup ({"invoice"} \X Int \X Nat \X Nat)
      \cup ({"reconciliation"} \X [Count : Nat, XOR : SUBSET BitPositions, Sum : Nat])

ASSUME AggregatorAssumption ==
    /\ NoEventID \notin EventIDs
    /\ Infinite \in Nat /\ Now \in Int
    /\ None \notin Outcomes \cup Codes \cup {<<"ok">>, <<"error">>}
    /\ Malformed \notin Distances \cup Int
    /\ OBUIDs \subseteq Int
    /\ Distances \subseteq
         [EventID : EventIDs \cup {NoEventID}, ProducedAtUnixNano : Int,
          OBUID : Int, Value : Int]
    /\ \A c \in Calls : Requests[c] \subseteq Request

VARIABLES
    at,           \* at[c]: how far call c has come
    req,          \* req[c]: what it asks
    code,         \* code[c]: the status it is answered with
    ledger, out,  \* the service: see Ledger
    received,     \* received[p]: aggregator_events_received_total
    applied,      \* aggregator_events_applied_total
    duplicates,   \* aggregator_duplicate_events_total
    samples,      \* the count of pipeline_event_duration_seconds
    requests,     \* requests[k]: {http,grpc}_requests_total{role="server"}
    mpc,          \* where main is
    accepting,    \* the transports that take new requests
    late          \* whether shutdownCtx expired before a server had stopped

Store == INSTANCE Ledger WITH Goroutines <- Calls, ledger <- ledger, out <- out

callVars == <<at, req, code>>

metrics == <<received, applied, duplicates, samples, requests>>

mainVars == <<mpc, accepting, late>>

vars == <<callVars, ledger, out, metrics, mainVars>>

Init ==
    /\ at = [c \in Calls |-> "none"]
    /\ req = [c \in Calls |-> None]
    /\ code = [c \in Calls |-> None]
    /\ Store!Init
    /\ received = [p \in Protocols |-> 0]
    /\ applied = 0
    /\ duplicates = 0
    /\ samples = 0
    /\ requests = [k \in Codes |-> 0]
    /\ mpc = "serve"
    /\ accepting = Protocols
    /\ late = FALSE

(***************************************************************************)
(* Requests on the network.                                                *)
(***************************************************************************)
Running == mpc # "exited"

GoTo(c, s) == at' = [at EXCEPT ![c] = s]

Arrive(c, r) ==
    /\ at[c] = "none"
    /\ GoTo(c, "wire")
    /\ req' = [req EXCEPT ![c] = r]
    /\ UNCHANGED <<code, ledger, out, metrics, mainVars>>

\* Nothing makes a request arrive: one that is lost just stays on the wire.
Begin(c) ==
    /\ Running
    /\ at[c] = "wire" /\ req[c].protocol \in accepting
    /\ GoTo(c, "handler")
    /\ UNCHANGED <<req, code, ledger, out, metrics, mainVars>>

(***************************************************************************)
(* The HTTP handlers.  Respond stands for writeJson: the status is fixed   *)
(* when the header is written, before the body is encoded.                 *)
(***************************************************************************)
Handling(c, protocol, op) ==
    /\ Running
    /\ at[c] = "handler"
    /\ req[c].protocol = protocol /\ req[c].op = op

Respond(c, k) ==
    /\ code' = [code EXCEPT ![c] = k]
    /\ GoTo(c, "finish")

MethodNotAllowed(c) ==
    /\ ~req[c].method
    /\ Respond(c, "405")
    /\ UNCHANGED <<ledger, out>>

handleReconciliation(c) ==
    /\ Handling(c, "http", "reconciliation")
    /\ \/ MethodNotAllowed(c)
       \/ /\ req[c].method
          /\ Store!Reconciliation(c)
          /\ Respond(c, "200")
    /\ UNCHANGED <<req, metrics, mainVars>>

handleGetInvoice(c) ==
    /\ Handling(c, "http", "invoice")
    /\ \/ MethodNotAllowed(c)
       \/ /\ req[c].method /\ req[c].arg = Malformed
          /\ Respond(c, "400")
          /\ UNCHANGED <<ledger, out>>
       \/ /\ req[c].method /\ req[c].arg # Malformed
          /\ Store!CalculateInvoice(c, req[c].arg)
          /\ Respond(c, IF out'[c] = <<"not found">> THEN "500" ELSE "200")
    /\ UNCHANGED <<req, metrics, mainVars>>

\* No read timeout is set: a body may take for ever to arrive.
handleAggregate(c) ==
    /\ Handling(c, "http", "aggregate")
    /\ \/ MethodNotAllowed(c) /\ UNCHANGED received
       \/ /\ req[c].method
          /\ received' = [received EXCEPT !["http"] = @ + 1]
          /\ GoTo(c, "body")
          /\ UNCHANGED <<code, ledger, out>>
    /\ UNCHANGED <<req, applied, duplicates, samples, requests, mainVars>>

\* Also a good body fails to decode when its connection breaks.
Decode(c) ==
    /\ Running
    /\ at[c] = "body"
    /\ \/ Respond(c, "400")
       \/ req[c].arg # Malformed /\ GoTo(c, "service") /\ UNCHANGED code
    /\ UNCHANGED <<req, ledger, out, metrics, mainVars>>

(***************************************************************************)
(* The gRPC handler.  The message is complete when it is called.           *)
(***************************************************************************)
Aggregate(c) ==
    /\ Handling(c, "grpc", "aggregate")
    /\ received' = [received EXCEPT !["grpc"] = @ + 1]
    /\ GoTo(c, "service")
    /\ UNCHANGED <<req, code, ledger, out, applied, duplicates, samples,
                   requests, mainVars>>

(***************************************************************************)
(* The service and its middleware.  The store never returns an error, so   *)
(* storeErrors and the status 500 of handleAggregate do not occur.         *)
(***************************************************************************)
\* Mutant: a status nobody counts or expects.
AcceptedNoContent(c) == "204"

Accepted(c) == IF req[c].protocol = "http" THEN "202" ELSE "OK"

Rejected(c) == IF req[c].protocol = "http" THEN "400" ELSE "InvalidArgument"

\* Mutant: the handler is not wrapped in the metrics middleware.
AggregateUncounted(c) ==
    /\ Running
    /\ at[c] = "service"
    /\ Store!AggregateDistance(c, req[c].arg)
    /\ Respond(c, IF out'[c] = <<"invalid">> THEN Rejected(c) ELSE Accepted(c))
    /\ UNCHANGED <<req, metrics, mainVars>>

AggregateDistance(c) ==
    /\ Running
    /\ at[c] = "service"
    /\ Store!AggregateDistance(c, req[c].arg)
    /\ IF out'[c] = <<"invalid">>
       THEN Respond(c, Rejected(c))
       ELSE code' = [code EXCEPT ![c] = Accepted(c)] /\ GoTo(c, "count")
    /\ UNCHANGED <<req, metrics, mainVars>>

\* Mutant: duplicates are counted as applied.
AppliedOrDuplicate(c) == out[c] \in {<<"applied", TRUE>>, <<"applied", FALSE>>}

Applied(c) == out[c] = <<"applied", TRUE>>

CountOutcome(c) ==
    /\ Running
    /\ at[c] = "count"
    /\ IF Applied(c)
       THEN applied' = applied + 1 /\ GoTo(c, "sample") /\ UNCHANGED duplicates
       ELSE duplicates' = duplicates + 1 /\ GoTo(c, "finish") /\ UNCHANGED applied
    /\ UNCHANGED <<req, code, ledger, out, received, samples, requests, mainVars>>

\* An event produced after Now, by a clock that is ahead, gives no sample.
ObserveLatency(c) ==
    /\ Running
    /\ at[c] = "sample"
    /\ samples' = IF req[c].arg.ProducedAtUnixNano <= Now THEN samples + 1 ELSE samples
    /\ GoTo(c, "finish")
    /\ UNCHANGED <<req, code, ledger, out, received, applied, duplicates, requests,
                   mainVars>>

(***************************************************************************)
(* The wrapper of the handlers counts a request by its status.  Only when  *)
(* it has returned does the server send the response, which is small and   *)
(* stays in its buffer until then.                                         *)
(***************************************************************************)
\* Mutant: WriteHeader is not intercepted.
StatusNeverSet(c) == "200"

statusWriter(c) == code[c]

CountRequest(c, protocol, k) ==
    /\ Running
    /\ at[c] = "finish" /\ req[c].protocol = protocol
    /\ requests' = [requests EXCEPT ![k] = @ + 1]
    /\ GoTo(c, "counted")
    /\ UNCHANGED <<req, code, ledger, out, received, applied, duplicates, samples,
                   mainVars>>

instrumentHTTP(c) == CountRequest(c, "http", statusWriter(c))

grpcMetricsInterceptor(c) == CountRequest(c, "grpc", code[c])

\* Mutant: the handler flushes its response, which may be read before it is counted.
ReplyEarly(c) ==
    /\ Running
    /\ at[c] \in {"finish", "counted"}
    /\ GoTo(c, "answered")
    /\ UNCHANGED <<req, code, ledger, out, metrics, mainVars>>

Reply(c) ==
    /\ Running
    /\ at[c] = "counted"
    /\ GoTo(c, "answered")
    /\ UNCHANGED <<req, code, ledger, out, metrics, mainVars>>

(***************************************************************************)
(* main: a signal, or the end of either transport, starts the shutdown.  A *)
(* gRPC server whose Serve has returned still serves open connections.     *)
(* The two servers are stopped one after the other under one deadline.     *)
(***************************************************************************)
InService(c) ==
    at[c] \in {"handler", "body", "service", "count", "sample", "finish", "counted"}

Quiet(p) == \A c \in Calls : InService(c) => req[c].protocol # p

Signal ==
    /\ mpc = "serve"
    /\ mpc' = "shutdown"
    /\ accepting' = accepting \ {"http"}
    /\ UNCHANGED <<late, callVars, ledger, out, metrics>>

\* Mutant: Shutdown is given a context without deadline.
HTTPShutdownUnbounded ==
    /\ mpc = "shutdown"
    /\ Quiet("http")
    /\ mpc' = "graceful"
    /\ UNCHANGED <<late, accepting, callVars, ledger, out, metrics>>

\* httpServer.Shutdown returns when HTTP is quiet or the ten seconds are over.
\* The gRPC server goes on accepting meanwhile.
HTTPShutdown ==
    /\ mpc = "shutdown"
    /\ \/ Quiet("http") /\ UNCHANGED late
       \/ late' = TRUE
    /\ mpc' = "graceful"
    /\ UNCHANGED <<accepting, callVars, ledger, out, metrics>>

GracefulStop ==
    /\ mpc = "graceful"
    /\ mpc' = "wait"
    /\ accepting' = {}
    /\ UNCHANGED <<late, callVars, ledger, out, metrics>>

\* Mutant: nothing waits for the goroutine that runs GracefulStop.
ExitAtOnce ==
    /\ mpc = "wait"
    /\ mpc' = "exited"
    /\ UNCHANGED <<late, accepting, callVars, ledger, out, metrics>>

\* shutdownCtx is the context HTTPShutdown may have used up already.
Exit ==
    /\ mpc = "wait"
    /\ \/ Quiet("grpc") /\ UNCHANGED late
       \/ late' = TRUE
    /\ mpc' = "exited"
    /\ UNCHANGED <<accepting, callVars, ledger, out, metrics>>

Handler(c) ==
    \/ handleReconciliation(c) \/ handleGetInvoice(c) \/ handleAggregate(c)
    \/ Decode(c) \/ Aggregate(c) \/ AggregateDistance(c)
    \/ CountOutcome(c) \/ ObserveLatency(c)
    \/ instrumentHTTP(c) \/ grpcMetricsInterceptor(c) \/ Reply(c)

Main == Signal \/ HTTPShutdown \/ GracefulStop \/ Exit

ServerNext ==
    \/ \E c \in Calls : Begin(c) \/ Handler(c)
    \/ Main

\* main is scheduled, and each of its waits ends with shutdownCtx.  Nothing is
\* assumed of the handlers, whose bodies may never arrive.
MainFairness == WF_vars(HTTPShutdown) /\ WF_vars(GracefulStop) /\ WF_vars(Exit)

-----------------------------------------------------------------------------
TypeOK ==
    /\ at \in [Calls -> {"none", "wire", "handler", "body", "service",
                         "count", "sample", "finish", "counted", "answered"}]
    /\ \A c \in Calls : req[c] # None => req[c].op \in {"aggregate", "invoice",
                                                        "reconciliation"}
    /\ \A c \in Calls : at[c] \in {"finish", "counted", "answered"} => code[c] \in Codes
    /\ \A c \in Calls : (code[c] \in Codes) = (at[c] \in {"count", "sample",
                                                         "finish", "counted", "answered"})
    /\ received \in [Protocols -> Nat]
    /\ {applied, duplicates, samples} \subseteq Nat
    /\ requests \in [Codes -> Nat]
    /\ mpc \in {"serve", "shutdown", "graceful", "wait", "exited"}
    /\ accepting \subseteq Protocols
    /\ late \in BOOLEAN

\* The counters of MetricsMiddleWare trail the store and never lead it: at any
\* scrape the events applied differ from the ledger by exactly the handlers that
\* are between the store and the counter, every applied event has or is about
\* to have one latency sample unless its clock was ahead, and no event is counted
\* that was not received.
MetricsDescribeLedger ==
    LET uncounted == {c \in Calls : Applied(c) /\ at[c] = "count"}
        sampled == {c \in Calls : /\ Applied(c) /\ at[c] \notin {"count", "sample"}
                                 /\ req[c].arg.ProducedAtUnixNano <= Now}
        undecided == {c \in Calls : at[c] \in {"body", "service", "count"}}
    IN  /\ applied + Cardinality(uncounted) = Cardinality(DOMAIN ledger)
        /\ samples = Cardinality(sampled) /\ samples <= applied
        /\ applied + duplicates + Cardinality(undecided)
             <= received["http"] + received["grpc"]

\* A shutdown that ends before its ten seconds are over cuts no request off: every
\* request a handler had begun has been answered when main returns, the gRPC
\* requests accepted while HTTP was shutting down included.
ShutdownCutsNothing ==
    mpc = "exited" /\ ~late => \A c \in Calls : ~InService(c)

\* A signal, or a transport that stops, always ends the process, whatever the
\* handlers in progress wait for.
ShutdownEnds == mpc = "shutdown" ~> mpc = "exited"
=============================================================================
