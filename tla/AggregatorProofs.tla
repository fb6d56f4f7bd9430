-------------------------- MODULE AggregatorProofs --------------------------
(***************************************************************************)
(* The aggregator with any number of calls in progress: its shutdown, and  *)
(* what its counters say of the ledger and of the answers.                 *)
(***************************************************************************)
EXTENDS Gateway, TLAPS

Types ==
    /\ DOMAIN at = Calls /\ DOMAIN req = Calls
    /\ accepting \subseteq Protocols
    /\ late \in BOOLEAN
    /\ mpc \in {"serve", "shutdown", "graceful", "wait", "exited"}
    /\ \A c \in Calls : InService(c) => req[c].protocol \in Protocols

\* A transport that main has begun to stop accepts nothing, and one that has stopped
\* in time has no request left in a handler.
Stopped ==
    /\ mpc # "serve" => "http" \notin accepting
    /\ mpc \in {"wait", "exited"} => "grpc" \notin accepting
    /\ mpc \in {"graceful", "wait", "exited"} /\ ~late => Quiet("http")
    /\ mpc = "exited" /\ ~late => Quiet("grpc")

IndInv == Types /\ Stopped

\* What a step of a handler or of a caller does to the requests in service: it may
\* finish one and starts none.
NoneBegins ==
    /\ DOMAIN at' = Calls /\ DOMAIN req' = Calls
    /\ UNCHANGED mainVars
    /\ \A c \in Calls : InService(c)' => InService(c) /\ req'[c] = req[c]

\* No request is in service before main has started its listeners.
LEMMA InitInv == InitAll => IndInv
  BY Zenon DEF InitAll, Init, IndInv, Types, Stopped, Quiet, InService, Protocols

\* No handler takes up a request other than its own.
LEMMA HandlerStep ==
    ASSUME Types, NEW c \in Calls, Handler(c)
    PROVE  NoneBegins
  <1> DEFINE Service == {"handler", "body", "service", "count", "sample", "finish", "counted"}
  <1>1. /\ at[c] \in Service /\ req' = req /\ UNCHANGED mainVars
        /\ \E s : at' = [at EXCEPT ![c] = s]
    <2>1. CASE handleReconciliation(c)
      BY Zenon, <2>1 DEF handleReconciliation, Handling, MethodNotAllowed, Respond, GoTo
    <2>2. CASE handleGetInvoice(c)
      BY <2>2, Zenon DEF handleGetInvoice, Handling, MethodNotAllowed, Respond, GoTo
    <2>3. CASE handleAggregate(c)
      BY Zenon, <2>3 DEF handleAggregate, Handling, MethodNotAllowed, Respond, GoTo
    <2>4. CASE Decode(c) \/ Aggregate(c)
      BY Zenon, <2>4 DEF Decode, Aggregate, Handling, Respond, GoTo
    <2>5. CASE AggregateDistance(c)
      BY Zenon, <2>5 DEF AggregateDistance, Respond, GoTo
    <2>6. CASE CountOutcome(c) \/ ObserveLatency(c)
      BY Zenon, <2>6 DEF CountOutcome, ObserveLatency, GoTo
    <2>7. CASE instrumentHTTP(c) \/ grpcMetricsInterceptor(c) \/ Reply(c)
      BY Zenon, <2>7 DEF instrumentHTTP, grpcMetricsInterceptor, CountRequest, Reply, GoTo
    <2> QED
      BY Zenon, <2>1, <2>2, <2>3, <2>4, <2>5, <2>6, <2>7 DEF Handler
  <1> QED
    BY Zenon, <1>1 DEF NoneBegins, Types, InService

\* A caller puts a request on the wire, where it is in nobody's service.
LEMMA ClientStep ==
    ASSUME Types, NEW c \in Calls, Client(c)
    PROVE  NoneBegins
  <1>1. CASE UNCHANGED vars
    BY Zenon, <1>1 DEF vars, callVars, NoneBegins, Types, InService
  <1>2. ASSUME NEW r, Send(c, r) PROVE NoneBegins
    BY Zenon, <1>2 DEF Send, Arrive, GoTo, NoneBegins, Types, InService
  <1> QED
    BY Zenon, <1>1, <1>2 DEF Client, Refuse, Receive, BodyBreaks, GiveUp

\* Every step of the servers and of their callers keeps the shutdown invariant.
LEMMA NextInv == IndInv /\ [NextAll]_allVars => IndInv'
  <1> SUFFICES ASSUME IndInv, [NextAll]_allVars PROVE IndInv'
    BY Zenon
  <1> USE DEF IndInv
  <1>1. CASE NoneBegins
    BY Zenon, <1>1 DEF NoneBegins, mainVars, Types, Stopped, Quiet
  <1>2. CASE UNCHANGED allVars
    BY Zenon, <1>1, <1>2 DEF allVars, vars, callVars, NoneBegins, Types, InService
  <1>3. ASSUME NEW c \in Calls, Begin(c) PROVE IndInv'
    <2>1. /\ mpc # "exited" /\ at[c] = "wire" /\ req[c].protocol \in accepting
          /\ at' = [at EXCEPT ![c] = "handler"] /\ UNCHANGED <<req, mainVars>>
      BY Zenon, <1>3 DEF Begin, Running, GoTo
    <2>2. \A d \in Calls : InService(d)' => InService(d) \/ d = c
      BY Zenon, <2>1 DEF InService, Types
    <2>3. Types'
      BY Zenon, <2>1, <2>2 DEF Types, mainVars
    <2> QED
      BY Zenon, <2>1, <2>2, <2>3 DEF Stopped, Quiet, mainVars
  <1>4. CASE Main
    <2>1. UNCHANGED <<at, req>>
      BY Zenon, <1>4 DEF Main, Signal, HTTPShutdown, GracefulStop, Exit, callVars
    <2>2. \A c \in Calls : InService(c)' <=> InService(c)
      BY Zenon, <2>1 DEF InService
    <2>3. \A p : Quiet(p)' <=> Quiet(p)
      BY Zenon, <2>1, <2>2 DEF Quiet
    <2>4. Types'
      BY <1>4, <2>1, <2>2, Zenon DEF Types, Main, Signal, HTTPShutdown,
         GracefulStop, Exit
    <2>5. CASE Signal
      BY Zenon, <2>3, <2>4, <2>5 DEF Signal, Stopped
    <2>6. CASE HTTPShutdown
      BY Zenon, <2>3, <2>4, <2>6 DEF HTTPShutdown, Stopped
    <2>7. CASE GracefulStop
      BY Zenon, <2>3, <2>4, <2>7 DEF GracefulStop, Stopped
    <2>8. CASE Exit
      BY Zenon, <2>3, <2>4, <2>8 DEF Exit, Stopped
    <2> QED
      BY Zenon, <1>4, <2>5, <2>6, <2>7, <2>8 DEF Main
  <1> QED
    BY Zenon, <1>1, <1>2, <1>3, <1>4, HandlerStep, ClientStep DEF NextAll, ServerNext

\* A shutdown that keeps within its ten seconds cuts off no request that a handler
\* had begun, however requests and the two servers' shutdowns interleave.
THEOREM ShutdownIsGraceful == Spec => []ShutdownCutsNothing
  <1>1. IndInv => ShutdownCutsNothing
    BY Zenon DEF IndInv, Types, Stopped, ShutdownCutsNothing, Quiet, Protocols
  <1> QED
    BY <1>1, InitInv, NextInv, PTL DEF Spec

-----------------------------------------------------------------------------
\* How far a call can come.
Stages == {"none", "wire", "handler", "body", "service", "count", "sample", "finish", "counted",
           "answered"}

\* The service has accepted the event of call c, or had it already.
Settling == {<<"applied", TRUE>>, <<"applied", FALSE>>}
Settled(c) == out[c] \in Settling

\* What call c has with it at each stage.
CallOK(c) ==
    /\ IF at[c] = "none" THEN req[c] = None ELSE req[c] \in Request
    /\ at[c] \in {"none", "wire", "handler", "body", "service"} =>
          out[c] = None /\ code[c] = None
    /\ at[c] \in {"body", "service"} => req[c].op = "aggregate"
    /\ at[c] = "service" => req[c].arg \in Distances
    /\ at[c] \in {"count", "sample"} => Settled(c)
    /\ at[c] = "sample" => Applied(c)
    /\ at[c] \in {"count", "sample", "finish", "counted", "answered"} =>
          /\ code[c] \in Codes
          /\ Settled(c) <=> code[c] \in {"202", "OK"}
          /\ code[c] = "200" => out[c] \notin {None, Error, <<"ok">>}
    /\ Settled(c) => /\ req[c].op = "aggregate" /\ req[c].arg \in Distances
                     /\ req[c].arg.EventID \in DOMAIN ledger

CallInv ==
    /\ at \in [Calls -> Stages]
    /\ req = [c \in Calls |-> req[c]] /\ code = [c \in Calls |-> code[c]]
    /\ out = [c \in Calls |-> out[c]]
    /\ \A c \in Calls : CallOK(c)

\* The charges.
LedgerInv ==
    /\ DOMAIN ledger \subseteq EventIDs /\ IsFiniteSet(DOMAIN ledger)
    /\ ledger \in [DOMAIN ledger -> [OBUID : Nat, Value : Nat]]

\* The calls that a counter has counted or will count.
Begun == {c \in Calls : at[c] # "none"}
AppliedCalls == {c \in Calls : Applied(c)}
AppliedCounted == {c \in Calls : Applied(c) /\ at[c] # "count"}
SettledCounted == {c \in Calls : Settled(c) /\ at[c] # "count"}
Sampled == {c \in Calls : /\ Applied(c) /\ at[c] \notin {"count", "sample"}
                          /\ req[c].arg.ProducedAtUnixNano <= Now}
Undecided == {c \in Calls : at[c] \in {"body", "service", "count"}}
Answered(k) == {c \in Calls : at[c] \in {"counted", "answered"} /\ code[c] = k}

\* Every counter of the server is the number of a set of calls.
CounterInv ==
    /\ IsFiniteSet(Begun)
    /\ Cardinality(DOMAIN ledger) = Cardinality(AppliedCalls)
    /\ applied = Cardinality(AppliedCounted)
    /\ duplicates \in Nat /\ applied + duplicates = Cardinality(SettledCounted)
    /\ samples = Cardinality(Sampled)
    /\ received \in [Protocols -> Nat]
    /\ applied + duplicates + Cardinality(Undecided) <= received["http"] + received["grpc"]
    /\ requests = [k \in Codes |-> Cardinality(Answered(k))]

ServerInv == CallInv /\ LedgerInv /\ CounterInv

-----------------------------------------------------------------------------
\* Call c goes on to a stage, with status k and result o.
Moves(c, stage, k, o) ==
    /\ at' = [at EXCEPT ![c] = stage]
    /\ code' = [code EXCEPT ![c] = k]
    /\ out' = [out EXCEPT ![c] = o]
    /\ req' = req

\* The kinds of step a handler takes.  First: the answer is given, and nothing charged.
Declining(c, k, o) ==
    /\ at[c] \in {"handler", "body", "service"}
    /\ Moves(c, "finish", k, o)
    /\ o \notin Settling
    /\ k = "200" => o \notin {None, Error, <<"ok">>}
    /\ req[c].op = "invoice" /\ k = "200" =>
          /\ req[c].arg # Malformed /\ Store!ChargesOf(req[c].arg) # {}
          /\ o = <<"invoice", req[c].arg, Store!TotalOf(req[c].arg),
                   315 * Store!TotalOf(req[c].arg)>>
    /\ req[c].op = "invoice" /\ k = "500" =>
          req[c].arg # Malformed /\ Store!ChargesOf(req[c].arg) = {}
    /\ UNCHANGED <<ledger, metrics>>

Declines(c) == \E k \in Codes \ {"202", "OK"} : \E o : Declining(c, k, o)

\* An event is received.
Takes(c) ==
    /\ at[c] = "handler" /\ req[c].op = "aggregate"
    /\ \E s \in {"body", "service"} :
          /\ Moves(c, s, code[c], out[c])
          /\ s = "service" => req[c].arg \in Distances
    /\ \E p \in Protocols : received' = [received EXCEPT ![p] = @ + 1]
    /\ UNCHANGED <<ledger, applied, duplicates, samples, requests>>

\* A stage follows without any effect.
GoesOn(c) ==
    /\ \/ at[c] = "wire" /\ Moves(c, "handler", code[c], out[c])
       \/ at[c] = "body" /\ Moves(c, "service", code[c], out[c]) /\ req[c].arg \in Distances
       \/ at[c] = "counted" /\ Moves(c, "answered", code[c], out[c])
    /\ UNCHANGED <<ledger, metrics>>

\* The service accepts an event: it is charged, or was before.
Settles(c) ==
    LET d == req[c].arg IN
    /\ at[c] = "service" /\ Store!Acceptable(d)
    /\ \E fresh \in BOOLEAN :
          /\ Moves(c, "count", Accepted(c), <<"applied", fresh>>)
          /\ fresh <=> d.EventID \notin DOMAIN ledger
          /\ IF fresh THEN Store!Charge(d.EventID, d) ELSE UNCHANGED ledger
    /\ UNCHANGED metrics

\* What the service computes for an answer has its type.
ResultsTyped ==
    /\ <<"reconciliation", Store!ReconciliationOf(DOMAIN ledger)>> \in Outcomes
    /\ \A o : Store!TotalOf(o) \in Nat

\* None is neither a result nor an answer.
LEMMA NothingSettles == None \notin Settling \cup {<<"ok">>, Error}
  <1>1. TRUE \in BOOLEAN /\ FALSE \in BOOLEAN
    BY Zenon
  <1>2. <<"applied", TRUE>> \in {"applied"} \X BOOLEAN
    BY <1>1, Zenon
  <1>3. <<"applied", FALSE>> \in {"applied"} \X BOOLEAN
    BY <1>1, Zenon
  <1>4. Settling \subseteq Outcomes
    BY <1>2, <1>3, Zenon DEF Settling, Outcomes
  <1> QED
    BY Zenon, <1>4, AggregatorAssumption DEF Error

\* Every step of a handler is of one of these kinds.
LEMMA HandlerKinds ==
    ASSUME CallInv, ResultsTyped, NEW c \in Calls, Handler(c)
    PROVE  \/ Declines(c) \/ Takes(c) \/ GoesOn(c) \/ Settles(c)
           \/ CountOutcome(c) \/ ObserveLatency(c)
           \/ \E p : CountRequest(c, p, code[c])
  <1>a. CallOK(c) /\ DOMAIN out = Calls /\ DOMAIN code = Calls
    BY Zenon DEF CallInv
  <1>b. out = [out EXCEPT ![c] = out[c]] /\ code = [code EXCEPT ![c] = code[c]]
    BY Zenon DEF CallInv
  <1>c. None \notin Settling \cup {<<"ok">>, Error}
    BY Zenon, NothingSettles
  <1>d. Error \notin Settling
    BY Zenon DEF Settling, Error
  <1>1. CASE MethodNotAllowed(c) /\ at[c] = "handler" /\ req' = req /\ UNCHANGED metrics
    <2>1. Moves(c, "finish", "405", None) /\ UNCHANGED <<ledger, metrics>>
      BY Zenon, <1>a, <1>b, <1>1 DEF MethodNotAllowed, Respond, GoTo, Moves, CallOK
    <2> QED
      BY <1>1, <1>c, <2>1 DEF Declines, Declining, Codes
  <1>2. CASE handleReconciliation(c)
    <2> DEFINE o == <<"reconciliation", Store!ReconciliationOf(DOMAIN ledger)>>
    <2>1. CASE MethodNotAllowed(c)
      BY Zenon, <1>1, <1>2, <2>1 DEF handleReconciliation, Handling
    <2>2. CASE ~MethodNotAllowed(c)
      <3>1. o \notin Settling \cup {None, Error, <<"ok">>}
        BY Zenon, AggregatorAssumption DEF ResultsTyped, Settling, Error
      <3> HIDE DEF o
      <3>2. Moves(c, "finish", "200", o) /\ at[c] = "handler" /\ req[c].op = "reconciliation"
            /\ UNCHANGED <<ledger, metrics>>
        BY Zenon, <1>2, <2>2 DEF handleReconciliation, Handling, Respond, GoTo, Moves,
           Store!Reconciliation, Store!Return, o
      <3> QED
        BY <3>1, <3>2 DEF Declines, Declining, Codes
    <2> QED BY Zenon, <2>1, <2>2
  <1>3. CASE handleGetInvoice(c)
    <2> DEFINE o == req[c].arg
               n == Store!TotalOf(o)
               w == <<"invoice", o, n, 315 * n>>
    <2>0. at[c] = "handler" /\ req[c].op = "invoice" /\ req' = req /\ UNCHANGED metrics
          /\ req[c] \in Request
      BY <1>3, <1>a, Zenon DEF handleGetInvoice, Handling, CallOK
    <2>1. CASE MethodNotAllowed(c)
      BY Zenon, <1>1, <2>0, <2>1
    <2>2. CASE o = Malformed /\ ~MethodNotAllowed(c)
      <3>1. Moves(c, "finish", "400", None) /\ UNCHANGED <<ledger, metrics>>
        BY Zenon, <1>a, <1>b, <1>3, <2>0, <2>2 DEF handleGetInvoice, Respond, GoTo, Moves, CallOK
      <3> QED
        BY <1>c, <2>0, <3>1 DEF Declines, Declining, Codes
    <2>3. CASE o # Malformed /\ ~MethodNotAllowed(c) /\ Store!ChargesOf(o) = {}
      <3>1. Moves(c, "finish", "500", <<"not found">>) /\ UNCHANGED <<ledger, metrics>>
        BY <1>a, <1>3, <2>0, <2>3, Zenon DEF handleGetInvoice, Respond, GoTo, Moves,
           Store!CalculateInvoice, Store!Return
      <3>2. <<"not found">> \notin Settling
        BY Zenon DEF Settling
      <3> QED
        <4>1. Declining(c, "500", <<"not found">>)
          BY <2>0, <2>3, <3>1, <3>2, Zenon DEF Declining
        <4> QED
          BY <4>1, Zenon DEF Declines, Codes
    <2>4. CASE o # Malformed /\ ~MethodNotAllowed(c) /\ Store!ChargesOf(o) # {}
      <3>1. n \in Nat /\ o \in Int
        BY Zenon, <2>0, <2>4 DEF ResultsTyped, Request, RequestOf
      <3>2. w \in Outcomes /\ w \notin Settling \cup {Error, <<"ok">>, <<"not found">>}
        BY <3>1 DEF Outcomes, Settling, Error
      <3>3. w # None
        BY Zenon, <3>2, AggregatorAssumption
      <3>4. UNCHANGED <<ledger, metrics>> /\ out' = [out EXCEPT ![c] = w]
            /\ at' = [at EXCEPT ![c] = "finish"]
            /\ code' = [code EXCEPT ![c] = IF out'[c] = <<"not found">> THEN "500" ELSE "200"]
        BY <1>3, <2>0, <2>4, Zenon DEF handleGetInvoice, Respond, GoTo,
           Store!CalculateInvoice, Store!Return
      <3> HIDE DEF w, n
      <3>5. out'[c] # <<"not found">>
        BY <1>a, <3>2, <3>4, Zenon
      <3>6. Moves(c, "finish", "200", w)
        BY <2>0, <3>4, <3>5, Zenon DEF Moves
      <3>7. /\ req[c].arg # Malformed /\ Store!ChargesOf(req[c].arg) # {}
            /\ w = <<"invoice", req[c].arg, Store!TotalOf(req[c].arg),
                       315 * Store!TotalOf(req[c].arg)>>
        BY Zenon, <2>4 DEF w, n
      <3> QED
        <4>1. Declining(c, "200", w)
          BY <2>0, <3>2, <3>3, <3>4, <3>6, <3>7, Zenon DEF Declining
        <4> QED
          BY Zenon, <4>1 DEF Declines, Codes
    <2> QED BY Zenon, <2>1, <2>2, <2>3, <2>4
  <1>4. CASE handleAggregate(c)
    <2>1. CASE MethodNotAllowed(c)
      <3>1. at[c] = "handler" /\ req' = req /\ UNCHANGED metrics
        BY Zenon, <1>4, <2>1 DEF handleAggregate, Handling, MethodNotAllowed, metrics
      <3> QED
        BY Zenon, <1>1, <2>1, <3>1
    <2>2. CASE ~MethodNotAllowed(c)
      BY Zenon, <1>b, <1>4, <2>2 DEF handleAggregate, Handling, GoTo, Takes, Moves, Protocols
    <2> QED BY Zenon, <2>1, <2>2
  <1>5. CASE Decode(c)
    <2>1. CASE Respond(c, "400")
      <3>1. Moves(c, "finish", "400", None) /\ at[c] = "body" /\ UNCHANGED <<ledger, metrics>>
        BY Zenon, <1>a, <1>b, <1>5, <2>1 DEF Decode, Respond, GoTo, Moves, CallOK
      <3>2. req[c].op = "aggregate"
        BY Zenon, <1>a, <3>1 DEF CallOK
      <3> QED
        BY <1>c, <3>1, <3>2 DEF Declines, Declining, Codes
    <2>2. CASE ~Respond(c, "400")
      <3>1. at[c] = "body" /\ req[c].arg # Malformed /\ Moves(c, "service", code[c], out[c])
            /\ UNCHANGED <<ledger, metrics>>
        BY Zenon, <1>b, <1>5, <2>2 DEF Decode, GoTo, Moves
      <3>2. req[c] \in Request /\ req[c].op = "aggregate"
        BY Zenon, <1>a, <3>1 DEF CallOK
      <3>3. req[c].arg \in Distances
        BY Zenon, <3>1, <3>2 DEF Request, RequestOf
      <3> QED
        BY Zenon, <3>1, <3>3 DEF GoesOn
    <2> QED BY Zenon, <2>1, <2>2
  <1>6. CASE Aggregate(c)
    <2>1. req[c] \in Request /\ req[c].op = "aggregate" /\ req[c].protocol = "grpc"
      BY Zenon, <1>a, <1>6 DEF CallOK, Aggregate, Handling
    <2>2. req[c].arg \in Distances
      BY Zenon, <2>1 DEF Request, RequestOf
    <2> QED
      BY Zenon, <1>b, <1>6, <2>1, <2>2 DEF Aggregate, Handling, GoTo, Takes, Moves, Protocols
  <1>7. CASE AggregateDistance(c)
    <2> DEFINE d == req[c].arg
    <2>0. at[c] = "service" /\ req' = req /\ UNCHANGED metrics /\ req[c].op = "aggregate"
      BY Zenon, <1>7, <1>a DEF AggregateDistance, CallOK
    <2>1. CASE ~Store!Acceptable(d)
      <3>1. out' = [out EXCEPT ![c] = <<"invalid">>] /\ UNCHANGED ledger
        BY <1>7, <2>1, Zenon DEF AggregateDistance, Store!AggregateDistance, Store!Return
      <3>2. out'[c] = <<"invalid">>
        BY Zenon, <1>a, <3>1
      <3>3. Moves(c, "finish", Rejected(c), <<"invalid">>)
        BY Zenon, <1>7, <3>1, <3>2 DEF AggregateDistance, Respond, GoTo, Moves
      <3>4. Rejected(c) \in Codes \ {"202", "OK", "200", "500"} /\ <<"invalid">> \notin Settling
        BY Zenon DEF Rejected, Codes, Settling
      <3> QED
        BY <2>0, <3>1, <3>3, <3>4 DEF Declines, Declining
    <2>2. CASE Store!Acceptable(d)
      <3> DEFINE fresh == d.EventID \notin DOMAIN ledger
      <3>1. out' = [out EXCEPT ![c] = <<"applied", fresh>>]
            /\ IF fresh THEN Store!Charge(d.EventID, d) ELSE UNCHANGED ledger
        <4>1. CASE fresh
          <5>1. fresh = TRUE BY Zenon, <4>1
          <5>2. out' = [out EXCEPT ![c] = <<"applied", TRUE>>] /\ Store!Charge(d.EventID, d)
            BY <1>7, <2>2, <4>1, Zenon DEF AggregateDistance, Store!AggregateDistance, Store!Return
          <5> QED BY <5>1, <5>2, Zenon
        <4>2. CASE ~fresh
          <5>1. fresh = FALSE BY Zenon, <4>2
          <5>2. out' = [out EXCEPT ![c] = <<"applied", FALSE>>] /\ UNCHANGED ledger
            BY <1>7, <2>2, <4>2, Zenon DEF AggregateDistance, Store!AggregateDistance, Store!Return
          <5> QED BY <5>1, <5>2, Zenon
        <4> QED BY Zenon, <4>1, <4>2
      <3> fresh \in BOOLEAN
        BY Zenon
      <3> HIDE DEF fresh
      <3>2. out'[c] # <<"invalid">>
        BY Zenon, <1>a, <3>1
      <3>3. Moves(c, "count", Accepted(c), <<"applied", fresh>>)
        BY Zenon, <1>7, <3>1, <3>2 DEF AggregateDistance, GoTo, Moves
      <3> QED
        BY <2>0, <2>2, <3>1, <3>3, Zenon DEF Settles, fresh
    <2> QED BY Zenon, <2>1, <2>2
  <1>8. CASE Reply(c)
    BY Zenon, <1>b, <1>8 DEF Reply, GoTo, GoesOn, Moves
  <1> QED
    BY Zenon, <1>2, <1>3, <1>4, <1>5, <1>6, <1>7, <1>8 DEF Handler, instrumentHTTP,
       grpcMetricsInterceptor, statusWriter

\* A step of the server for call c.
Serves(c) ==
    \/ Declines(c) \/ Takes(c) \/ GoesOn(c) \/ Settles(c)
    \/ CountOutcome(c) \/ ObserveLatency(c)
    \/ \E p : CountRequest(c, p, code[c])

\* A step that leaves the calls, the ledger and the counters alone.
Idles == UNCHANGED <<at, req, code, out, ledger, metrics>>

\* Every step serves one call, or leaves the calls alone and may be a caller's, or
\* sends a request.
LEMMA SystemKinds ==
    ASSUME CallInv, ResultsTyped, [NextAll]_allVars
    PROVE  \/ \E c \in Calls : Serves(c) /\ UNCHANGED clientVars
           \/ Idles /\ (UNCHANGED clientVars \/ \E c \in Calls : Client(c))
           \/ \E c \in Calls : \E r \in Requests[c] : Send(c, r)
  <1>1. CASE UNCHANGED allVars
    <2>1. UNCHANGED clientVars /\ UNCHANGED vars
      BY Zenon, <1>1 DEF allVars
    <2>2. Idles
      BY Zenon, <2>1 DEF vars, callVars, Idles
    <2> QED
      BY Zenon, <2>1, <2>2
  <1>2. ASSUME NEW c \in Calls, Begin(c) PROVE GoesOn(c)
    BY <1>2, Zenon DEF Begin, GoTo, GoesOn, Moves, CallInv
  <1>3. Main => Idles
    BY Zenon DEF Main, Signal, HTTPShutdown, GracefulStop, Exit, callVars, Idles
  <1>4. CASE \E c \in Calls : Client(c)
    <2>1. PICK c \in Calls : Client(c)
      BY Zenon, <1>4
    <2>2. UNCHANGED vars \/ \E r \in Requests[c] : Send(c, r)
      BY Zenon, <2>1 DEF Client, Refuse, Receive, BodyBreaks, GiveUp
    <2>3. UNCHANGED vars => Idles
      BY Zenon DEF vars, callVars, Idles
    <2> QED
      BY Zenon, <2>1, <2>2, <2>3
  <1> QED
    BY Zenon, <1>1, <1>2, <1>3, <1>4, HandlerKinds DEF NextAll, ServerNext, Serves

\* The ledger of a step: nothing is charged, or one event that was not charged before.
Grows ==
    \/ UNCHANGED ledger
    \/ \E e \in EventIDs \ DOMAIN ledger : \E d \in [OBUID : Nat, Value : Nat] :
          ledger' = [x \in DOMAIN ledger \cup {e} |-> IF x = e THEN d ELSE ledger[x]]

\* Serving a call leaves the ledger as it was or adds one charge to it.
LEMMA ServesGrows ==
    ASSUME CallInv, NEW c \in Calls, Serves(c)
    PROVE  Grows
  <1>1. CASE Settles(c)
    <2> DEFINE d == req[c].arg
               v == [OBUID |-> d.OBUID, Value |-> d.Value]
    <2>1. d \in Distances /\ Store!Acceptable(d)
      BY Zenon, <1>1 DEF Settles, CallInv, CallOK
    <2>2. d.EventID \in EventIDs /\ v \in [OBUID : Nat, Value : Nat]
      BY <2>1, AggregatorAssumption DEF Store!Acceptable
    <2>3. CASE d.EventID \notin DOMAIN ledger
      <3>1. Store!Charge(d.EventID, d)
        BY Zenon, <1>1, <2>3 DEF Settles
      <3> QED
        BY Zenon, <2>2, <2>3, <3>1 DEF Grows, Store!Charge
    <2>4. CASE d.EventID \in DOMAIN ledger
      BY Zenon, <1>1, <2>4 DEF Settles, Grows
    <2> QED BY Zenon, <2>3, <2>4
  <1> QED
    BY <1>1, Zenon DEF Serves, Declines, Declining, Takes, GoesOn, CountOutcome, ObserveLatency,
       CountRequest, Grows
\* A call is not affected by what another does.
LEMMA OtherCalls ==
    ASSUME CallInv, DOMAIN ledger \subseteq DOMAIN ledger', NEW c \in Calls,
           NEW s \in Stages, NEW k, NEW o, Moves(c, s, k, o), CallOK(c)'
    PROVE  CallInv'
  <1>1. ASSUME NEW d \in Calls, d # c PROVE CallOK(d)'
    <2>1. at'[d] = at[d] /\ req'[d] = req[d] /\ code'[d] = code[d] /\ out'[d] = out[d]
      BY Zenon, <1>1 DEF Moves, CallInv
    <2> QED
      BY <2>1, Zenon DEF CallInv, CallOK, Settled, Applied
  <1>2. /\ at' \in [Calls -> Stages]
        /\ req' = [d \in Calls |-> req'[d]] /\ code' = [d \in Calls |-> code'[d]]
        /\ out' = [d \in Calls |-> out'[d]]
    BY Zenon DEF Moves, CallInv
  <1> QED
    BY Zenon, <1>1, <1>2 DEF CallInv

\* Serving a call keeps every call at a stage that fits its request, code and outcome.
LEMMA CallStep ==
    ASSUME CallInv, NEW c \in Calls, Serves(c), DOMAIN ledger \subseteq DOMAIN ledger'
    PROVE  CallInv'
  <1>a. CallOK(c) /\ c \in DOMAIN at /\ c \in DOMAIN code /\ c \in DOMAIN out
    BY Zenon DEF CallInv
  <1>b. out = [out EXCEPT ![c] = out[c]] /\ code = [code EXCEPT ![c] = code[c]]
    BY Zenon DEF CallInv
  <1>1. ASSUME NEW k \in Codes \ {"202", "OK"}, NEW o, Declining(c, k, o) PROVE CallInv'
    <2>1. Moves(c, "finish", k, o) /\ at[c] \in {"handler", "body", "service"}
      BY Zenon, <1>1 DEF Declining
    <2>2. at'[c] = "finish" /\ code'[c] = k /\ out'[c] = o /\ req'[c] = req[c]
      BY Zenon, <1>a, <2>1 DEF Moves
    <2>3. CallOK(c)'
      BY Zenon, <1>1, <1>a, <2>1, <2>2 DEF CallOK, Declining, Settled
    <2> QED
      BY Zenon, <2>1, <2>3, OtherCalls DEF Stages
  <1>2. CASE Takes(c)
    <2>1. PICK s \in {"body", "service"} :
            /\ Moves(c, s, code[c], out[c])
            /\ s = "service" => req[c].arg \in Distances
      BY Zenon, <1>2 DEF Takes
    <2>2. at'[c] = s /\ code'[c] = code[c] /\ out'[c] = out[c] /\ req'[c] = req[c]
      BY Zenon, <1>a, <2>1 DEF Moves
    <2>3. CallOK(c)'
      BY Zenon, <1>2, <1>a, <2>1, <2>2 DEF CallOK, Takes, Settled
    <2> QED
      BY Zenon, <2>1, <2>3, OtherCalls DEF Stages
  <1>3. CASE GoesOn(c)
    <2>1. PICK s \in {"handler", "service", "answered"} :
            /\ Moves(c, s, code[c], out[c])
            /\ \/ s = "handler" /\ at[c] = "wire"
               \/ s = "service" /\ at[c] = "body"
               \/ s = "answered" /\ at[c] = "counted"
            /\ s = "service" => req[c].arg \in Distances
      BY Zenon, <1>3 DEF GoesOn
    <2>2. at'[c] = s /\ code'[c] = code[c] /\ out'[c] = out[c] /\ req'[c] = req[c]
      BY Zenon, <1>a, <2>1 DEF Moves
    <2>3. CallOK(c)'
      BY Zenon, <1>a, <2>1, <2>2 DEF CallOK, Settled
    <2> QED
      BY Zenon, <2>1, <2>3, OtherCalls DEF Stages
  <1>4. CASE Settles(c)
    <2>1. PICK fresh \in BOOLEAN :
            /\ Moves(c, "count", Accepted(c), <<"applied", fresh>>)
            /\ fresh <=> req[c].arg.EventID \notin DOMAIN ledger
            /\ IF fresh THEN Store!Charge(req[c].arg.EventID, req[c].arg) ELSE UNCHANGED ledger
      BY Zenon, <1>4 DEF Settles
    <2>2. at'[c] = "count" /\ code'[c] = Accepted(c) /\ out'[c] = <<"applied", fresh>>
          /\ req'[c] = req[c]
      BY Zenon, <1>a, <2>1 DEF Moves
    <2>3. <<"applied", fresh>> \in Settling
      BY Zenon DEF Settling
    <2>4. Accepted(c) \in Codes \cap {"202", "OK"} /\ req[c].op = "aggregate"
          /\ req[c].arg \in Distances /\ req[c] \in Request
      BY Zenon, <1>4, <1>a DEF Accepted, Codes, CallOK, Settles
    <2>5. req[c].arg.EventID \in DOMAIN ledger'
      BY Zenon, <2>1 DEF Store!Charge
    <2>6. CallOK(c)'
      BY Zenon, <2>2, <2>3, <2>4, <2>5 DEF CallOK, Settled
    <2> QED
      BY Zenon, <2>1, <2>6, OtherCalls DEF Stages
  <1>5. CASE CountOutcome(c)
    <2> DEFINE s == IF Applied(c) THEN "sample" ELSE "finish"
    <2>1. Moves(c, s, code[c], out[c]) /\ at[c] = "count"
      BY Zenon, <1>5, <1>b DEF CountOutcome, GoTo, Moves
    <2>2. at'[c] = s /\ code'[c] = code[c] /\ out'[c] = out[c] /\ req'[c] = req[c]
      BY Zenon, <1>a, <2>1 DEF Moves
    <2>3. CallOK(c)'
      BY <1>a, <2>1, <2>2, Zenon DEF CallOK, Settled, Applied
    <2> QED
      BY Zenon, <2>1, <2>3, OtherCalls DEF Stages
  <1>6. CASE ObserveLatency(c) \/ \E p : CountRequest(c, p, code[c])
    <2> DEFINE s == IF at[c] = "sample" THEN "finish" ELSE "counted"
    <2>1. Moves(c, s, code[c], out[c]) /\ at[c] \in {"sample", "finish"}
      BY Zenon, <1>6, <1>b DEF ObserveLatency, CountRequest, GoTo, Moves
    <2>2. at'[c] = s /\ code'[c] = code[c] /\ out'[c] = out[c] /\ req'[c] = req[c]
      BY Zenon, <1>a, <2>1 DEF Moves
    <2>3. CallOK(c)'
      BY Zenon, <1>a, <2>1, <2>2 DEF CallOK, Settled, Applied
    <2> QED
      BY Zenon, <2>1, <2>3, OtherCalls DEF Stages
  <1> QED
    BY Zenon, <1>1, <1>2, <1>3, <1>4, <1>5, <1>6 DEF Serves, Declines

\* A caller that sends a request puts it on the wire.
LEMMA CallSend ==
    ASSUME CallInv, NEW c \in Calls, NEW r \in Requests[c], Send(c, r)
    PROVE  CallInv'
  <1>1. /\ at[c] = "none" /\ at' = [at EXCEPT ![c] = "wire"] /\ req' = [req EXCEPT ![c] = r]
        /\ code' = code /\ out' = out /\ ledger' = ledger
    BY Zenon DEF Send, Arrive, GoTo
  <1>2. r \in Request
    BY Zenon, AggregatorAssumption
  <1>3. ASSUME NEW d \in Calls PROVE CallOK(d)'
    <2>1. CASE d = c
      <3>1. at'[c] = "wire" /\ req'[c] = r /\ out'[c] = None /\ code'[c] = None
        BY Zenon, <1>1 DEF CallInv, CallOK
      <3>2. None \notin Settling
        BY Zenon, NothingSettles
      <3> QED
        BY Zenon, <1>2, <2>1, <3>1, <3>2 DEF CallOK, Settled
    <2>2. CASE d # c
      BY <1>1, <2>2, Zenon DEF CallInv, CallOK, Settled, Applied
    <2> QED BY Zenon, <2>1, <2>2
  <1> QED
    BY Zenon, <1>1, <1>3 DEF CallInv, Stages

\* A step that serves no call keeps what is known of the calls and of the ledger.
LEMMA CallIdle == CallInv /\ LedgerInv /\ Idles => CallInv' /\ LedgerInv'
  BY ZenonT(40) DEF Idles, CallInv, CallOK, Settled, Applied, LedgerInv

-----------------------------------------------------------------------------
\* T becomes S in a step that can change only what it says of c.
Follows(S, T, c) ==
    /\ (c \in S <=> c \in T) => S = T
    /\ c \in S => S = T \cup {c}
    /\ c \notin S => S = T \ {c}

OnlyCounts(c) ==
    /\ Follows(Begun', Begun, c) /\ Follows(AppliedCalls', AppliedCalls, c)
    /\ Follows(AppliedCounted', AppliedCounted, c)
    /\ Follows(SettledCounted', SettledCounted, c)
    /\ Follows(Sampled', Sampled, c) /\ Follows(Undecided', Undecided, c)
    /\ \A j : Follows(Answered(j)', Answered(j), c)

\* A step of call c counts or forgets no other call.
LEMMA OthersCounted ==
    ASSUME CallInv, NEW c \in Calls, NEW s, NEW k, NEW o, Moves(c, s, k, o)
    PROVE  OnlyCounts(c)
  <1>1. \A d \in Calls : d # c => at'[d] = at[d] /\ req'[d] = req[d] /\ code'[d] = code[d]
                                  /\ out'[d] = out[d]
    BY Zenon DEF Moves, CallInv
  <1>2. /\ Begun' \ {c} = Begun \ {c} /\ AppliedCalls' \ {c} = AppliedCalls \ {c}
        /\ AppliedCounted' \ {c} = AppliedCounted \ {c}
        /\ SettledCounted' \ {c} = SettledCounted \ {c}
        /\ Sampled' \ {c} = Sampled \ {c} /\ Undecided' \ {c} = Undecided \ {c}
        /\ \A j : Answered(j)' \ {c} = Answered(j) \ {c}
    BY <1>1, Zenon DEF AppliedCalls, AppliedCounted, SettledCounted, Sampled, Undecided, Answered,
       Begun, Applied, Settled
  <1>3. ASSUME NEW S, NEW T, S \ {c} = T \ {c} PROVE Follows(S, T, c)
    BY <1>3 DEF Follows
  <1> QED
    BY Zenon, <1>2, <1>3 DEF OnlyCounts

\* Where c itself is counted.
Places(c) ==
    /\ c \in Begun <=> at[c] # "none"
    /\ c \in AppliedCalls <=> Applied(c)
    /\ c \in AppliedCounted <=> Applied(c) /\ at[c] # "count"
    /\ c \in SettledCounted <=> Settled(c) /\ at[c] # "count"
    /\ c \in Sampled <=> /\ Applied(c) /\ at[c] \notin {"count", "sample"}
                         /\ req[c].arg.ProducedAtUnixNano <= Now
    /\ c \in Undecided <=> at[c] \in {"body", "service", "count"}
    /\ \A j : c \in Answered(j) <=> at[c] \in {"counted", "answered"} /\ code[c] = j

\* Where a call stands decides which of the counted sets it belongs to.
LEMMA Placed == \A c \in Calls : Places(c) /\ Places(c)'
  BY Zenon DEF AppliedCalls, AppliedCounted, SettledCounted, Sampled, Undecided, Answered, Begun, Places

\* What the proofs below use of a call.
Sound(c) ==
    /\ CallOK(c) /\ Places(c) /\ Places(c)'
    /\ DOMAIN at = Calls /\ DOMAIN out = Calls /\ DOMAIN code = Calls
    /\ out = [out EXCEPT ![c] = out[c]] /\ code = [code EXCEPT ![c] = code[c]]
    /\ at[c] \in {"wire", "handler", "body", "service"} => ~Settled(c)
    /\ Applied(c) => Settled(c)
    /\ (Applied(c) => Settled(c))'

\* The invariant gives every call the facts the counting lemmas use.
LEMMA Soundness ==
    ASSUME CallInv, NEW c \in Calls
    PROVE  Sound(c)
  <1>1. CallOK(c) /\ DOMAIN at = Calls /\ DOMAIN out = Calls /\ DOMAIN code = Calls
    BY Zenon DEF CallInv
  <1>2. out = [out EXCEPT ![c] = out[c]] /\ code = [code EXCEPT ![c] = code[c]]
    BY Zenon DEF CallInv
  <1>3. at[c] \in {"wire", "handler", "body", "service"} => ~Settled(c)
    BY Zenon, <1>1, NothingSettles DEF CallOK, Settled
  <1>4. Applied(c) => Settled(c)
    BY Zenon DEF Applied, Settled, Settling
  <1>5. (Applied(c) => Settled(c))'
    BY Zenon DEF Applied, Settled, Settling
  <1> QED
    BY <1>1, <1>2, <1>3, <1>4, <1>5, Placed, Zenon DEF Sound

\* How each kind of step changes what is counted.
LEMMA DeclineCounts ==
    ASSUME CallInv, NEW c \in Calls, NEW k, NEW o, Declining(c, k, o)
    PROVE  /\ Begun' = Begun /\ AppliedCalls' = AppliedCalls
           /\ AppliedCounted' = AppliedCounted /\ SettledCounted' = SettledCounted
           /\ Sampled' = Sampled /\ Undecided' = Undecided \ {c}
           /\ \A j : Answered(j)' = Answered(j)
  <1> Sound(c)
    BY Zenon, Soundness
  <1>1. Moves(c, "finish", k, o) /\ at[c] \in {"handler", "body", "service"} /\ o \notin Settling
    BY Zenon DEF Declining
  <1>2. at'[c] = "finish" /\ ~Settled(c) /\ ~Settled(c)'
    BY Zenon, <1>1 DEF Moves, Settled, Sound
  <1>3. OnlyCounts(c)
    BY Zenon, <1>1, OthersCounted
  <1>4. /\ (c \in Begun' <=> c \in Begun)
        /\ (c \in AppliedCalls' <=> c \in AppliedCalls)
        /\ (c \in AppliedCounted' <=> c \in AppliedCounted)
        /\ (c \in SettledCounted' <=> c \in SettledCounted)
        /\ (c \in Sampled' <=> c \in Sampled)
        /\ c \notin Undecided'
        /\ \A j : c \in Answered(j)' <=> c \in Answered(j)
    BY Zenon, <1>1, <1>2 DEF Sound, Places
  <1> QED
    BY Zenon, <1>3, <1>4 DEF OnlyCounts, Follows

\* A handler that takes up an aggregation adds its call to the undecided ones.
LEMMA TakeCounts ==
    ASSUME CallInv, NEW c \in Calls, Takes(c)
    PROVE  /\ Begun' = Begun /\ AppliedCalls' = AppliedCalls
           /\ AppliedCounted' = AppliedCounted /\ SettledCounted' = SettledCounted
           /\ Sampled' = Sampled /\ Undecided' = Undecided \cup {c}
           /\ c \notin Undecided
           /\ \A j : Answered(j)' = Answered(j)
  <1> Sound(c)
    BY Zenon, Soundness
  <1>1. PICK s \in {"body", "service"} : Moves(c, s, code[c], out[c])
    BY Zenon DEF Takes
  <1>2. at'[c] = s /\ at[c] = "handler" /\ ~Settled(c) /\ ~Settled(c)'
    BY Zenon, <1>1 DEF Moves, Settled, Takes, Sound
  <1>3. OnlyCounts(c)
    BY Zenon, <1>1, OthersCounted
  <1>4. /\ (c \in Begun' <=> c \in Begun)
        /\ (c \in AppliedCalls' <=> c \in AppliedCalls)
        /\ (c \in AppliedCounted' <=> c \in AppliedCounted)
        /\ (c \in SettledCounted' <=> c \in SettledCounted)
        /\ (c \in Sampled' <=> c \in Sampled)
        /\ c \notin Undecided /\ c \in Undecided'
        /\ \A j : c \in Answered(j)' <=> c \in Answered(j)
    BY Zenon, <1>1, <1>2 DEF Sound, Places
  <1> QED
    BY Zenon, <1>3, <1>4 DEF OnlyCounts, Follows

\* Moving on to the next stage without a call of the service counts nothing.
LEMMA GoOnCounts ==
    ASSUME CallInv, NEW c \in Calls, GoesOn(c)
    PROVE  /\ Begun' = Begun /\ AppliedCalls' = AppliedCalls
           /\ AppliedCounted' = AppliedCounted /\ SettledCounted' = SettledCounted
           /\ Sampled' = Sampled /\ Undecided' = Undecided
           /\ \A j : Answered(j)' = Answered(j)
  <1> Sound(c)
    BY Zenon, Soundness
  <1>1. PICK s \in {"handler", "service", "answered"} :
          /\ Moves(c, s, code[c], out[c])
          /\ \/ s = "handler" /\ at[c] = "wire"
             \/ s = "service" /\ at[c] = "body"
             \/ s = "answered" /\ at[c] = "counted"
    BY Zenon DEF GoesOn
  <1>2. at'[c] = s /\ code'[c] = code[c] /\ req'[c] = req[c]
        /\ (Settled(c)' <=> Settled(c)) /\ (Applied(c)' <=> Applied(c))
    BY Zenon, <1>1 DEF Moves, Settled, Applied, Sound
  <1>3. OnlyCounts(c)
    BY Zenon, <1>1, OthersCounted
  <1>4. /\ (c \in Begun' <=> c \in Begun)
        /\ (c \in AppliedCalls' <=> c \in AppliedCalls)
        /\ (c \in AppliedCounted' <=> c \in AppliedCounted)
        /\ (c \in SettledCounted' <=> c \in SettledCounted)
        /\ (c \in Sampled' <=> c \in Sampled)
        /\ (c \in Undecided' <=> c \in Undecided)
        /\ \A j : c \in Answered(j)' <=> c \in Answered(j)
    BY Zenon, <1>1, <1>2 DEF Sound, Places
  <1> QED
    BY Zenon, <1>3, <1>4 DEF OnlyCounts, Follows

\* The store's answer makes the call an applied one exactly when the event was new.
LEMMA SettleCounts ==
    ASSUME CallInv, NEW c \in Calls, NEW fresh \in BOOLEAN, at[c] = "service",
           Moves(c, "count", Accepted(c), <<"applied", fresh>>)
    PROVE  /\ Begun' = Begun /\ AppliedCalls' = AppliedCalls \cup (IF fresh THEN {c} ELSE {})
           /\ AppliedCounted' = AppliedCounted /\ SettledCounted' = SettledCounted
           /\ Sampled' = Sampled /\ Undecided' = Undecided
           /\ c \notin AppliedCalls
           /\ \A j : Answered(j)' = Answered(j)
  <1> Sound(c)
    BY Zenon, Soundness
  <1>1. Moves(c, "count", Accepted(c), <<"applied", fresh>>)
    BY Zenon
  <1>2. at'[c] = "count" /\ out'[c] = <<"applied", fresh>> /\ ~Settled(c)
    BY Zenon, <1>1 DEF Moves, Sound
  <1>3. Applied(c)' <=> fresh
    <2>1. CASE fresh = TRUE
      BY Zenon, <1>2, <2>1 DEF Applied
    <2>2. CASE fresh = FALSE
      <3>1. <<"applied", FALSE>> # <<"applied", TRUE>>
        BY Zenon
      <3> QED
        BY <1>2, <2>2, <3>1, Zenon DEF Applied
    <2> QED BY <2>1, <2>2, Zenon
  <1>4. OnlyCounts(c)
    BY Zenon, <1>1, OthersCounted
  <1>5. /\ (c \in Begun' <=> c \in Begun)
        /\ c \notin AppliedCalls /\ (c \in AppliedCalls' <=> fresh)
        /\ (c \in AppliedCounted' <=> c \in AppliedCounted)
        /\ (c \in SettledCounted' <=> c \in SettledCounted)
        /\ (c \in Sampled' <=> c \in Sampled)
        /\ (c \in Undecided' <=> c \in Undecided)
        /\ \A j : c \in Answered(j)' <=> c \in Answered(j)
    BY Zenon, <1>2, <1>3 DEF Sound, Places
  <1> QED
    BY Zenon, <1>4, <1>5 DEF OnlyCounts, Follows

\* Counting the outcome moves the call from the undecided to the settled ones, and to
\* the applied ones when it charged the event.
LEMMA OutcomeCounts ==
    ASSUME CallInv, NEW c \in Calls, CountOutcome(c)
    PROVE  /\ Begun' = Begun /\ AppliedCalls' = AppliedCalls
           /\ AppliedCounted' = AppliedCounted \cup (IF Applied(c) THEN {c} ELSE {})
           /\ SettledCounted' = SettledCounted \cup {c}
           /\ Sampled' = Sampled /\ Undecided' = Undecided \ {c}
           /\ c \notin AppliedCounted /\ c \notin SettledCounted /\ c \in Undecided
           /\ \A j : Answered(j)' = Answered(j)
  <1> Sound(c)
    BY Zenon, Soundness
  <1> DEFINE s == IF Applied(c) THEN "sample" ELSE "finish"
  <1>1. Moves(c, s, code[c], out[c]) /\ at[c] = "count"
    BY Zenon DEF CountOutcome, GoTo, Moves, Sound
  <1>2. at'[c] = s /\ Settled(c) /\ Settled(c)' /\ (Applied(c)' <=> Applied(c))
    BY Zenon, <1>1 DEF Moves, Settled, Applied, CallOK, Sound
  <1>3. OnlyCounts(c)
    BY Zenon, <1>1, OthersCounted
  <1>4. /\ (c \in Begun' <=> c \in Begun)
        /\ (c \in AppliedCalls' <=> c \in AppliedCalls)
        /\ c \notin AppliedCounted /\ (c \in AppliedCounted' <=> Applied(c))
        /\ c \notin SettledCounted /\ c \in SettledCounted'
        /\ (c \in Sampled' <=> c \in Sampled)
        /\ c \in Undecided /\ c \notin Undecided'
        /\ \A j : c \in Answered(j)' <=> c \in Answered(j)
    BY Zenon, <1>1, <1>2 DEF Sound, Places
  <1> QED
    BY Zenon, <1>3, <1>4 DEF OnlyCounts, Follows

\* The latency of a call is sampled unless its producer's clock is ahead.
LEMMA LatencyCounts ==
    ASSUME CallInv, NEW c \in Calls, ObserveLatency(c)
    PROVE  /\ Begun' = Begun /\ AppliedCalls' = AppliedCalls
           /\ AppliedCounted' = AppliedCounted /\ SettledCounted' = SettledCounted
           /\ Sampled' = Sampled \cup (IF req[c].arg.ProducedAtUnixNano <= Now THEN {c} ELSE {})
           /\ Undecided' = Undecided /\ c \notin Sampled
           /\ \A j : Answered(j)' = Answered(j)
  <1> Sound(c)
    BY Zenon, Soundness
  <1>1. Moves(c, "finish", code[c], out[c]) /\ at[c] = "sample"
    BY Zenon DEF ObserveLatency, GoTo, Moves, Sound
  <1>2. at'[c] = "finish" /\ req'[c] = req[c] /\ Settled(c) /\ Settled(c)'
        /\ Applied(c)' /\ Applied(c)
    BY <1>1, Zenon DEF Moves, Settled, Applied, CallOK, Sound
  <1>3. OnlyCounts(c)
    BY Zenon, <1>1, OthersCounted
  <1>4. /\ (c \in Begun' <=> c \in Begun)
        /\ (c \in AppliedCalls' <=> c \in AppliedCalls)
        /\ (c \in AppliedCounted' <=> c \in AppliedCounted)
        /\ (c \in SettledCounted' <=> c \in SettledCounted)
        /\ c \notin Sampled /\ (c \in Sampled' <=> req[c].arg.ProducedAtUnixNano <= Now)
        /\ (c \in Undecided' <=> c \in Undecided)
        /\ \A j : c \in Answered(j)' <=> c \in Answered(j)
    BY Zenon, <1>1, <1>2 DEF Sound, Places
  <1> QED
    BY Zenon, <1>3, <1>4 DEF OnlyCounts, Follows

\* Counting the request makes the call one of those answered with its code.
LEMMA RequestCounts ==
    ASSUME CallInv, NEW c \in Calls, NEW p, NEW k, k = code[c], CountRequest(c, p, k)
    PROVE  /\ Begun' = Begun /\ AppliedCalls' = AppliedCalls
           /\ AppliedCounted' = AppliedCounted /\ SettledCounted' = SettledCounted
           /\ Sampled' = Sampled /\ Undecided' = Undecided
           /\ c \notin Answered(k)
           /\ \A j : Answered(j)' = IF j = k THEN Answered(j) \cup {c} ELSE Answered(j)
  <1> Sound(c)
    BY Zenon, Soundness
  <1>1. Moves(c, "counted", k, out[c]) /\ at[c] = "finish"
    BY Zenon DEF CountRequest, GoTo, Moves, Sound
  <1>2. at'[c] = "counted" /\ code'[c] = k /\ req'[c] = req[c]
        /\ (Settled(c)' <=> Settled(c)) /\ (Applied(c)' <=> Applied(c))
    BY Zenon, <1>1 DEF Moves, Settled, Applied, Sound
  <1>3. OnlyCounts(c)
    BY Zenon, <1>1, OthersCounted
  <1>4. /\ (c \in Begun' <=> c \in Begun)
        /\ (c \in AppliedCalls' <=> c \in AppliedCalls)
        /\ (c \in AppliedCounted' <=> c \in AppliedCounted)
        /\ (c \in SettledCounted' <=> c \in SettledCounted)
        /\ (c \in Sampled' <=> c \in Sampled)
        /\ (c \in Undecided' <=> c \in Undecided)
        /\ c \notin Answered(k) /\ c \in Answered(k)'
        /\ \A j : j # k => (c \in Answered(j)' <=> c \in Answered(j))
    BY Zenon, <1>1, <1>2 DEF Sound, Places
  <1>5. /\ Begun' = Begun /\ AppliedCalls' = AppliedCalls
        /\ AppliedCounted' = AppliedCounted /\ SettledCounted' = SettledCounted
        /\ Sampled' = Sampled /\ Undecided' = Undecided
    BY Zenon, <1>3, <1>4 DEF OnlyCounts, Follows
  <1>6. Answered(k)' = Answered(k) \cup {c} /\ \A j : j # k => Answered(j)' = Answered(j)
    BY Zenon, <1>3, <1>4 DEF OnlyCounts, Follows
  <1> QED
    BY Zenon, <1>4, <1>5, <1>6

-----------------------------------------------------------------------------
\* What the caller is told: "ok" exactly for an event that was accepted, and else the
\* result or an error.
LEMMA AnswerCases ==
    ASSUME CallInv, NEW c \in Calls, at[c] = "answered"
    PROVE  /\ Answer(c) = <<"ok">> <=> Settled(c)
           /\ Answer(c) # None
           /\ Answer(c) \notin {Error, <<"ok">>} => code[c] = "200" /\ Answer(c) = out[c]
  <1>1. /\ code[c] \in Codes /\ (Settled(c) <=> code[c] \in {"202", "OK"})
        /\ code[c] = "200" => out[c] \notin {None, Error, <<"ok">>}
    BY Zenon DEF CallInv, CallOK
  <1>2. None \notin {Error, <<"ok">>} /\ Error # <<"ok">>
    BY Zenon, NothingSettles DEF Error
  <1>3. CASE code[c] \in {"202", "OK"}
    <2>1. Answer(c) = <<"ok">>
      BY Zenon, <1>3 DEF Answer
    <2> QED BY Zenon, <1>1, <1>2, <1>3, <2>1
  <1>4. CASE code[c] = "200" /\ req[c].op = "invoice"
    <2>1. Answer(c) = IF Encodable(out[c][3]) THEN out[c] ELSE Error
      BY Zenon, <1>4 DEF Answer
    <2> QED BY Zenon, <1>1, <1>2, <1>4, <2>1
  <1>5. CASE code[c] = "200" /\ req[c].op = "reconciliation"
    <2>1. Answer(c) = out[c]
      BY Zenon, <1>5 DEF Answer
    <2> QED BY Zenon, <1>1, <1>2, <1>5, <2>1
  <1>6. CASE code[c] \notin {"202", "OK"} /\ ~(code[c] = "200" /\ req[c].op = "invoice")
             /\ ~(code[c] = "200" /\ req[c].op = "reconciliation")
    <2>1. Answer(c) = Error
      BY Zenon, <1>6 DEF Answer
    <2> QED BY Zenon, <1>1, <1>2, <1>6, <2>1
  <1> QED
    BY Zenon, <1>3, <1>4, <1>5, <1>6

\* A step of the server goes on with one call that is not answered yet, and gives it a
\* status only where it declines it or the call is an event.
LEMMA ServesMoves ==
    ASSUME CallInv, NEW c \in Calls, Serves(c)
    PROVE  /\ at[c] \notin {"none", "answered"}
           /\ \E s \in Stages \ {"none"} : \E k, o :
                 /\ Moves(c, s, k, o)
                 /\ \/ k = code[c] /\ o = out[c]
                    \/ Declining(c, k, o) /\ UNCHANGED ledger
                    \/ req[c].op = "aggregate"
  <1>b. out = [out EXCEPT ![c] = out[c]] /\ code = [code EXCEPT ![c] = code[c]] /\ CallOK(c)
    BY Zenon DEF CallInv
  <1>1. ASSUME NEW k, NEW o, Declining(c, k, o)
        PROVE  Moves(c, "finish", k, o) /\ UNCHANGED ledger /\ at[c] \notin {"none", "answered"}
    BY Zenon, <1>1 DEF Declining
  <1>2. CASE Takes(c)
    BY Zenon, <1>2 DEF Takes, Stages
  <1>3. CASE GoesOn(c)
    BY Zenon, <1>3 DEF GoesOn, Stages
  <1>4. CASE Settles(c)
    <2>1. req[c].op = "aggregate" /\ at[c] = "service"
      BY Zenon, <1>4, <1>b DEF Settles, CallOK
    <2> QED
      BY Zenon, <1>4, <2>1 DEF Settles, Stages
  <1>5. CASE CountOutcome(c)
    BY Zenon, <1>5, <1>b DEF CountOutcome, GoTo, Moves, Stages
  <1>6. CASE ObserveLatency(c) \/ \E p : CountRequest(c, p, code[c])
    BY Zenon, <1>6, <1>b DEF ObserveLatency, CountRequest, GoTo, Moves, Stages
  <1> QED
    BY Zenon, <1>1, <1>2, <1>3, <1>4, <1>5, <1>6 DEF Serves, Declines, Stages

\* So every other call is as before.
LEMMA ServesOthers ==
    ASSUME CallInv, NEW c \in Calls, Serves(c), NEW d \in Calls, d # c
    PROVE  at'[d] = at[d] /\ req'[d] = req[d] /\ code'[d] = code[d] /\ out'[d] = out[d]
  BY ServesMoves DEF Moves, CallInv

-----------------------------------------------------------------------------
\* What is used here of finite sets.  GatewayProofs takes it from the library.
Counting ==
    /\ \A S : IsFiniteSet(S) => Cardinality(S) \in Nat
    /\ \A S, T : IsFiniteSet(S) /\ T \subseteq S =>
          IsFiniteSet(T) /\ Cardinality(T) <= Cardinality(S)
    /\ \A S, c : IsFiniteSet(S) /\ c \notin S =>
          IsFiniteSet(S \cup {c}) /\ Cardinality(S \cup {c}) = Cardinality(S) + 1
    /\ \A S, c : IsFiniteSet(S) /\ c \in S => Cardinality(S \ {c}) = Cardinality(S) - 1

\* Counting a finite set with one more or one less element.
LEMMA CountMore ==
    ASSUME Counting, NEW S, NEW T, NEW c, IsFiniteSet(S), c \notin S, T = S \cup {c}
    PROVE  IsFiniteSet(T) /\ Cardinality(T) = Cardinality(S) + 1 /\ Cardinality(S) \in Nat
  BY Zenon DEF Counting

\* Taking one element away lowers a cardinality by one.
LEMMA CountLess ==
    ASSUME Counting, NEW S, NEW T, NEW c, IsFiniteSet(S), c \in S, T = S \ {c}
    PROVE  Cardinality(T) = Cardinality(S) - 1 /\ Cardinality(S) \in Nat
  BY Zenon DEF Counting

\* Only calls that have begun are counted.
LEMMA CountedAreFinite ==
    ASSUME Counting, CallInv, IsFiniteSet(Begun)
    PROVE  /\ IsFiniteSet(AppliedCalls) /\ IsFiniteSet(AppliedCounted)
           /\ IsFiniteSet(SettledCounted) /\ IsFiniteSet(Sampled) /\ IsFiniteSet(Undecided)
           /\ \A k : IsFiniteSet(Answered(k))
  <1>1. \A c \in Calls : Settled(c) => at[c] # "none"
    BY Zenon, NothingSettles DEF CallInv, CallOK, Settled
  <1>2. \A c \in Calls : Applied(c) => Settled(c)
    BY Zenon DEF Applied, Settled, Settling
  <1>3. /\ AppliedCalls \subseteq Begun /\ AppliedCounted \subseteq Begun
        /\ SettledCounted \subseteq Begun /\ Sampled \subseteq Begun /\ Undecided \subseteq Begun
        /\ \A k : Answered(k) \subseteq Begun
    BY Zenon, <1>1, <1>2 DEF AppliedCalls, AppliedCounted, SettledCounted, Sampled, Undecided,
       Answered, Begun
  <1> QED
    BY Zenon, <1>3 DEF Counting

\* A step of the server moves its counters with the calls they count.
LEMMA CounterStep ==
    ASSUME Counting, ServerInv, NEW c \in Calls, Serves(c)
    PROVE  CounterInv'
  <1> CallInv /\ LedgerInv /\ CounterInv
    BY Zenon DEF ServerInv
  <1>a. /\ IsFiniteSet(AppliedCalls) /\ IsFiniteSet(AppliedCounted)
        /\ IsFiniteSet(SettledCounted) /\ IsFiniteSet(Sampled) /\ IsFiniteSet(Undecided)
        /\ \A k : IsFiniteSet(Answered(k))
    BY Zenon, CountedAreFinite DEF CounterInv
  <1>b. /\ Cardinality(Undecided) \in Nat /\ applied \in Nat /\ duplicates \in Nat
        /\ received["http"] \in Nat /\ received["grpc"] \in Nat
    BY Zenon, <1>a DEF Counting, CounterInv, Protocols
  <1>1. ASSUME NEW k \in Codes \ {"202", "OK"}, NEW o, Declining(c, k, o) PROVE CounterInv'
    <2>1. UNCHANGED <<ledger, metrics>>
      BY Zenon, <1>1 DEF Declining
    <2>2. Cardinality(Undecided') \in Nat /\ Cardinality(Undecided') <= Cardinality(Undecided)
      <3>1. Undecided' \subseteq Undecided
        BY Zenon, <1>1, DeclineCounts
      <3> QED
        BY Zenon, <1>a, <3>1 DEF Counting
    <2> QED
      BY <1>b, <1>1, <2>1, <2>2, DeclineCounts DEF CounterInv, metrics
  <1>2. CASE Takes(c)
    <2>1. Cardinality(Undecided') = Cardinality(Undecided) + 1
      BY Zenon, <1>a, <1>2, TakeCounts, CountMore
    <2>2. /\ received' \in [Protocols -> Nat]
          /\ received'["http"] + received'["grpc"] = received["http"] + received["grpc"] + 1
      BY <1>2 DEF Takes, CounterInv, Protocols
    <2>3. UNCHANGED <<ledger, applied, duplicates, samples, requests>>
      BY Zenon, <1>2 DEF Takes
    <2> QED
      BY <1>b, <1>2, <2>1, <2>2, <2>3, TakeCounts DEF CounterInv
  <1>3. CASE GoesOn(c)
    BY Zenon, <1>3, GoOnCounts DEF CounterInv, metrics, GoesOn
  <1>4. CASE Settles(c)
    <2> DEFINE e == req[c].arg.EventID
    <2>1. PICK fresh \in BOOLEAN :
            /\ Moves(c, "count", Accepted(c), <<"applied", fresh>>)
            /\ fresh <=> e \notin DOMAIN ledger
            /\ IF fresh THEN Store!Charge(e, req[c].arg) ELSE UNCHANGED ledger
      BY Zenon, <1>4 DEF Settles
    <2>2. at[c] = "service" /\ UNCHANGED metrics
      BY Zenon, <1>4 DEF Settles
    <2>3. Cardinality(DOMAIN ledger') = Cardinality(AppliedCalls')
      <3>1. CASE fresh
        <4>1. DOMAIN ledger' = DOMAIN ledger \cup {e} /\ e \notin DOMAIN ledger
          BY Zenon, <2>1, <3>1 DEF Store!Charge
        <4>2. Cardinality(DOMAIN ledger') = Cardinality(DOMAIN ledger) + 1
          BY Zenon, <4>1, CountMore DEF LedgerInv
        <4>3. AppliedCalls' = AppliedCalls \cup {c} /\ c \notin AppliedCalls
          BY Zenon, <2>1, <2>2, <3>1, SettleCounts
        <4>4. Cardinality(AppliedCalls') = Cardinality(AppliedCalls) + 1
          BY Zenon, <1>a, <4>3, CountMore
        <4> QED
          BY Zenon, <4>2, <4>4 DEF CounterInv
      <3>2. CASE ~fresh
        BY Zenon, <2>1, <2>2, <3>2, SettleCounts DEF CounterInv
      <3> QED BY Zenon, <3>1, <3>2
    <2> QED
      BY Zenon, <2>1, <2>2, <2>3, SettleCounts DEF CounterInv, metrics
  <1>5. CASE CountOutcome(c)
    <2>1. UNCHANGED <<ledger, received, samples, requests>>
      BY Zenon, <1>5 DEF CountOutcome
    <2>2. Cardinality(SettledCounted') = Cardinality(SettledCounted) + 1
      BY Zenon, <1>a, <1>5, OutcomeCounts, CountMore
    <2>3. Cardinality(Undecided') = Cardinality(Undecided) - 1
      BY Zenon, <1>a, <1>5, OutcomeCounts, CountLess
    <2>4. /\ applied' = Cardinality(AppliedCounted') /\ duplicates' \in Nat
          /\ applied' + duplicates' = applied + duplicates + 1
      <3>1. CASE Applied(c)
        <4>1. Cardinality(AppliedCounted') = Cardinality(AppliedCounted) + 1
          BY Zenon, <1>a, <1>5, <3>1, OutcomeCounts, CountMore
        <4> QED
          BY <1>b, <1>5, <3>1, <4>1 DEF CountOutcome, CounterInv
      <3>2. CASE ~Applied(c)
        <4>1. AppliedCounted' = AppliedCounted
          BY Zenon, <1>5, <3>2, OutcomeCounts
        <4> QED
          BY <1>b, <1>5, <3>2, <4>1 DEF CountOutcome, CounterInv
      <3> QED BY Zenon, <3>1, <3>2
    <2>5. /\ applied' + duplicates' = Cardinality(SettledCounted')
          /\ applied' + duplicates' + Cardinality(Undecided') <= received["http"] + received["grpc"]
      BY <1>b, <2>2, <2>3, <2>4 DEF CounterInv
    <2> QED
      BY Zenon, <1>5, <2>1, <2>4, <2>5, OutcomeCounts DEF CounterInv
  <1>6. CASE ObserveLatency(c)
    <2>1. samples' = Cardinality(Sampled')
      <3>1. CASE req[c].arg.ProducedAtUnixNano <= Now
        <4>1. Cardinality(Sampled') = Cardinality(Sampled) + 1
          BY Zenon, <1>a, <1>6, <3>1, LatencyCounts, CountMore
        <4> QED
          BY Zenon, <1>6, <3>1, <4>1 DEF CounterInv, ObserveLatency
      <3>2. CASE ~(req[c].arg.ProducedAtUnixNano <= Now)
        BY Zenon, <1>6, <3>2, LatencyCounts DEF CounterInv, ObserveLatency
      <3> QED BY Zenon, <3>1, <3>2
    <2>2. UNCHANGED <<ledger, received, applied, duplicates, requests>>
      BY Zenon, <1>6 DEF ObserveLatency
    <2> QED
      BY Zenon, <1>6, <2>1, <2>2, LatencyCounts DEF CounterInv
  <1>7. ASSUME NEW p, CountRequest(c, p, code[c]) PROVE CounterInv'
    <2>1. PICK k : k = code[c] /\ CountRequest(c, p, k)
      BY Zenon, <1>7
    <2>2. /\ UNCHANGED <<ledger, received, applied, duplicates, samples>>
          /\ requests' = [requests EXCEPT ![k] = @ + 1]
      BY Zenon, <2>1 DEF CountRequest
    <2>3. ASSUME NEW j \in Codes PROVE requests'[j] = Cardinality(Answered(j)')
      <3>1. CASE j = k
        <4>1. Answered(j)' = Answered(j) \cup {c} /\ c \notin Answered(j)
          BY Zenon, <2>1, <3>1, RequestCounts
        <4>2. Cardinality(Answered(j)') = Cardinality(Answered(j)) + 1
          BY Zenon, <1>a, <4>1, CountMore
        <4> QED
          BY Zenon, <2>2, <3>1, <4>2 DEF CounterInv
      <3>2. CASE j # k
        BY Zenon, <2>1, <2>2, <3>2, RequestCounts DEF CounterInv
      <3> QED BY Zenon, <3>1, <3>2
    <2>4. requests' = [j \in Codes |-> Cardinality(Answered(j))]'
      BY Zenon, <2>2, <2>3 DEF CounterInv
    <2> QED
      BY Zenon, <2>1, <2>2, <2>4, RequestCounts DEF CounterInv
  <1> QED
    BY Zenon, <1>1, <1>2, <1>3, <1>4, <1>5, <1>6, <1>7 DEF Serves, Declines

\* A step that leaves the calls alone leaves what is counted alone.
LEMMA CounterIdle == CounterInv /\ Idles => CounterInv'
  <1> SUFFICES ASSUME CounterInv, Idles PROVE CounterInv'
    BY Zenon
  <1>1. /\ Begun' = Begun /\ AppliedCalls' = AppliedCalls
        /\ AppliedCounted' = AppliedCounted /\ SettledCounted' = SettledCounted
        /\ Sampled' = Sampled /\ Undecided' = Undecided
        /\ \A j : Answered(j)' = Answered(j)
    BY Zenon DEF Idles, AppliedCalls, AppliedCounted, SettledCounted, Sampled, Undecided, Answered,
       Begun, Applied, Settled
  <1>2. UNCHANGED <<ledger, metrics>>
    BY Zenon DEF Idles
  <1> QED
    BY Zenon, <1>1, <1>2 DEF CounterInv, metrics

\* A request on the wire is not counted yet.
LEMMA CounterSend ==
    ASSUME Counting, CallInv, CounterInv, NEW c \in Calls, NEW r, Send(c, r)
    PROVE  CounterInv'
  <1>1. /\ at[c] = "none" /\ at' = [at EXCEPT ![c] = "wire"] /\ req' = [req EXCEPT ![c] = r]
        /\ code' = code /\ out' = out /\ UNCHANGED <<ledger, metrics>>
    BY Zenon DEF Send, Arrive, GoTo
  <1>2. ~Settled(c) /\ ~Applied(c)
    BY <1>1, NothingSettles, Zenon DEF CallInv, CallOK, Settled, Applied, Settling
  <1>3. /\ at'[c] = "wire" /\ \A d \in Calls : d # c => at'[d] = at[d] /\ req'[d] = req[d]
        /\ \A d \in Calls : (Applied(d)' <=> Applied(d)) /\ (Settled(d)' <=> Settled(d))
    BY Zenon, <1>1 DEF CallInv, Applied, Settled
  <1>4. /\ AppliedCalls' = AppliedCalls /\ AppliedCounted' = AppliedCounted
        /\ SettledCounted' = SettledCounted
    BY Zenon, <1>1, <1>2, <1>3 DEF AppliedCalls, AppliedCounted, SettledCounted
  <1>5. Sampled' = Sampled
    BY Zenon, <1>1, <1>2, <1>3 DEF Sampled
  <1>6. Undecided' = Undecided /\ \A j : Answered(j)' = Answered(j)
    BY Zenon, <1>1, <1>3 DEF Undecided, Answered
  <1>7. Begun' = Begun \cup {c} /\ IsFiniteSet(Begun)
    BY Zenon, <1>1, <1>3 DEF Begun, CounterInv
  <1>8. IsFiniteSet(Begun')
    BY Zenon, <1>1, <1>7 DEF Counting, Begun
  <1> QED
    BY Zenon, <1>1, <1>4, <1>5, <1>6, <1>8 DEF CounterInv, metrics

=============================================================================
