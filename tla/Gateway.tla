------------------------------ MODULE Gateway ------------------------------
(***************************************************************************)
(* The callers of the aggregator: the gateway, which proxies invoices, the *)
(* HTTP and gRPC clients that it and the distance calculator use, and      *)
(* programs that send HTTP requests of their own.  Composed with the       *)
(* server of Aggregator, whose calls these are.                            *)
(*                                                                         *)
(* A caller that gives up leaves its request behind, which may still be    *)
(* handled.                                                                *)
(***************************************************************************)
EXTENDS Aggregator

VARIABLES
    cpc,        \* cpc[c]: "idle", "wait" or "returned"
    result,     \* result[c]: what the caller got
    responses,  \* responses[k]: {http,grpc}_requests_total{role="client"}
    seen,       \* history: seen[o] is the largest total that anybody was told
                \* of OBU o, or -1
    acked,      \* history: the events whose callers were told they are accepted
    floor       \* history: floor[c] is what was known when call c began

clientVars == <<cpc, result, responses, seen, acked, floor>>

allVars == <<vars, clientVars>>

\* Mutant: the error is dropped and nothing is written.
NoAnswer == None

Error == <<"error">>

InitAll ==
    /\ Init
    /\ cpc = [c \in Calls |-> "idle"]
    /\ result = [c \in Calls |-> None]
    /\ responses = [k \in Codes \cup {"client_error"} |-> 0]
    /\ seen = [o \in OBUIDs |-> -1]
    /\ acked = {}
    /\ floor = [c \in Calls |-> -1]

-----------------------------------------------------------------------------
\* What a caller refuses before anything is sent.

\* InvoiceHandler.handleGetInvoice; makeApiFunc makes the error a 500.
GatewayRefuses(r) ==
    /\ r.client = "gateway"
    /\ r.method /\ r.arg # Malformed => r.arg <= 0

\* json.Marshal has no encoding for NaN and +Inf.
MarshalFails(r) ==
    /\ r.client = "library" /\ r.protocol = "http" /\ r.op = "aggregate"
    /\ r.arg.Value >= Infinite

\* GrpcClient.GetInvoice.
Unimplemented(r) ==
    r.client = "library" /\ r.protocol = "grpc" /\ r.op = "invoice"

Refused(r) == GatewayRefuses(r) \/ MarshalFails(r) \/ Unimplemented(r)

CountResponse(k) == responses' = [responses EXCEPT ![k] = @ + 1]

Refuse(c, r) ==
    /\ cpc[c] = "idle"
    /\ Refused(r)
    /\ cpc' = [cpc EXCEPT ![c] = "returned"]
    /\ result' = [result EXCEPT ![c] = Error]
    /\ IF MarshalFails(r) THEN CountResponse("client_error") ELSE UNCHANGED responses
    /\ UNCHANGED <<seen, acked, floor, vars>>

-----------------------------------------------------------------------------
\* What is known of OBU o from the answers so far.
Known(o) ==
    Max({seen[o], IF acked \cap Store!ChargesOf(o) = {} THEN seen[o]
                  ELSE SumOver([e \in DOMAIN ledger |-> ledger[e].Value],
                               acked \cap Store!ChargesOf(o))})

Send(c, r) ==
    /\ cpc[c] = "idle"
    /\ ~Refused(r)
    /\ Arrive(c, r)
    /\ cpc' = [cpc EXCEPT ![c] = "wait"]
    /\ floor' = [floor EXCEPT ![c] = IF r.op = "invoice" /\ r.arg \in OBUIDs
                                     THEN Known(r.arg) ELSE -1]
    /\ UNCHANGED <<result, responses, seen, acked>>

\* An invoice that does not fit a float has no JSON encoding, and the header with
\* status 200 is followed by an empty body.
Encodable(total) == 315 * total < 100 * Infinite

Answer(c) ==
    CASE code[c] \in {"202", "OK"} -> <<"ok">>
      [] code[c] = "200" /\ req[c].op = "invoice" ->
           IF Encodable(out[c][3]) THEN out[c] ELSE Error
      [] code[c] = "200" /\ req[c].op = "reconciliation" -> out[c]
      [] OTHER -> Error

Learn(c) ==
    /\ acked' = IF Answer(c) = <<"ok">> THEN acked \cup {req[c].arg.EventID} ELSE acked
    /\ seen' = [o \in OBUIDs |->
                  IF Answer(c) # Error /\ req[c].op = "invoice" /\ req[c].arg = o
                  THEN Max({seen[o], Answer(c)[3]})
                  ELSE seen[o]]

Receive(c) ==
    /\ cpc[c] = "wait"
    /\ at[c] = "answered"
    /\ cpc' = [cpc EXCEPT ![c] = "returned"]
    /\ result' = [result EXCEPT ![c] = Answer(c)]
    /\ IF req[c].client = "direct" THEN UNCHANGED responses ELSE CountResponse(code[c])
    /\ Learn(c)
    /\ UNCHANGED <<floor, vars>>

\* The status of an invoice is noted, and then the connection breaks in the body.
BodyBreaks(c) ==
    /\ cpc[c] = "wait"
    /\ at[c] = "answered" /\ code[c] = "200" /\ req[c].client # "direct"
    /\ cpc' = [cpc EXCEPT ![c] = "returned"]
    /\ result' = [result EXCEPT ![c] = Error]
    /\ CountResponse("200")
    /\ UNCHANGED <<seen, acked, floor, vars>>

\* The deadline passes, or the connection is refused or breaks.
GiveUp(c) ==
    /\ cpc[c] = "wait"
    /\ cpc' = [cpc EXCEPT ![c] = "returned"]
    /\ result' = [result EXCEPT ![c] = Error]
    /\ IF req[c].client = "direct" THEN UNCHANGED responses
                                   ELSE CountResponse("client_error")
    /\ UNCHANGED <<seen, acked, floor, vars>>

Client(c) ==
    \/ \E r \in Requests[c] : Refuse(c, r) \/ Send(c, r)
    \/ Receive(c) \/ BodyBreaks(c) \/ GiveUp(c)

NextAll == (ServerNext /\ UNCHANGED clientVars) \/ \E c \in Calls : Client(c)

Spec == InitAll /\ [][NextAll]_allVars /\ MainFairness

-----------------------------------------------------------------------------
ClientTypeOK ==
    /\ cpc \in [Calls -> {"idle", "wait", "returned"}]
    /\ \A c \in Calls : (cpc[c] = "returned") = (result[c] # None)
    /\ \A k \in DOMAIN responses : responses[k] \in Nat
    /\ acked \subseteq EventIDs

\* Invoices read one after the other never shrink, and an invoice asked for after a
\* charge was accepted contains it: it shows at least the total known when the call
\* began, no more than is charged, and an OBU that has charges is not answered with
\* an error status.  The gateway never answers 200 without such an invoice.
InvoicesNeverShrink ==
    \A c \in Calls :
        at[c] # "none" /\ req[c].op = "invoice" =>
            /\ result[c] \notin {None, Error} =>
                 /\ result[c][3] >= floor[c]
                 /\ result[c][3] <= Store!TotalOf(result[c][2])
            /\ code[c] = "500" => floor[c] = -1

\* A caller that was told "accepted" finds its event in the ledger, and in the
\* counters: whoever scrapes after such an answer sees that call as an applied or a
\* duplicate event.
AcceptedIsDone ==
    /\ acked \subseteq DOMAIN ledger
    /\ Cardinality({c \in Calls : result[c] = <<"ok">>}) <= applied + duplicates

\* For every status, the clients together have counted no more answers than the
\* server has: a response is counted before it can be read.
ResponsesWereCounted == \A k \in Codes : responses[k] <= requests[k]
=============================================================================
