--------------------------- MODULE GatewayProofs ---------------------------
(***************************************************************************)
(* What the callers of the aggregator may rely on, with any number of      *)
(* calls in progress: what the counters say of the answers, and that       *)
(* invoices never shrink.                                                  *)
(***************************************************************************)
EXTENDS AggregatorProofs, FingerprintProofs

\* The instance of the ledger has its own copies of the library's operators.
LEMMA SameSum == \A w, S : Store!SumOver(w, S) = SumOver(w, S)
  BY Zenon DEF SumOver, Store!SumOver, MapThenSumSet, Store!MapThenSumSet,
         MapThenFoldSet, Store!MapThenFoldSet

\* Cardinality means the same through the instance of the ledger.
LEMMA SameCardinality == \A S : Store!Cardinality(S) = Cardinality(S)
  BY Zenon DEF Cardinality, Store!Cardinality, IsFiniteSet, Store!IsFiniteSet

\* The total the store reports for an OBU is the sum of its charges in the ledger.
LEMMA TotalIsCharged == \A o : Store!TotalOf(o) = Charged(ledger, o)
  BY Zenon, SameSum DEF Store!TotalOf, Store!ChargesOf, Charged

\* The answer to a reconciliation request is none of the values that stand for
\* something else.
LEMMA ReconciliationType ==
    ASSUME LedgerInv
    PROVE  <<"reconciliation", Store!ReconciliationOf(DOMAIN ledger)>> \in Outcomes
  <1>1. SumOf(DOMAIN ledger) \in Nat /\ XorOf(DOMAIN ledger) \in SUBSET BitPositions
    BY FingerprintType, PowerPositive, FingerprintAssumption DEF LedgerInv
  <1>2. Cardinality(DOMAIN ledger) \in Nat
    BY Zenon, FS_CardinalityType DEF LedgerInv
  <1>3. Store!ReconciliationOf(DOMAIN ledger) =
          [Count |-> Cardinality(DOMAIN ledger), XOR |-> XorOf(DOMAIN ledger),
           Sum |-> SumOf(DOMAIN ledger)]
    BY SameSum, SameCardinality, Zenon DEF Store!ReconciliationOf, Store!SumOf, SumOf, Store!XorOf, XorOf,
       Store!BitPositions, BitPositions, Store!Bits, Bits
  <1> QED
    BY <1>1, <1>2, <1>3 DEF Outcomes

\* Charges are only added.
LEMMA LedgerStep ==
    ASSUME LedgerInv, Grows
    PROVE  LedgerInv' /\ DOMAIN ledger \subseteq DOMAIN ledger'
  <1>1. CASE UNCHANGED ledger
    BY Zenon, <1>1 DEF LedgerInv
  <1>2. ASSUME NEW e \in EventIDs \ DOMAIN ledger, NEW d \in [OBUID : Nat, Value : Nat],
               ledger' = [x \in DOMAIN ledger \cup {e} |-> IF x = e THEN d ELSE ledger[x]]
        PROVE  LedgerInv' /\ DOMAIN ledger \subseteq DOMAIN ledger'
    <2>1. DOMAIN ledger' = DOMAIN ledger \cup {e}
      BY Zenon, <1>2
    <2>2. IsFiniteSet(DOMAIN ledger \cup {e})
      BY Zenon, FS_AddElement DEF LedgerInv
    <2>3. ledger' \in [DOMAIN ledger \cup {e} -> [OBUID : Nat, Value : Nat]]
      BY Zenon, <1>2 DEF LedgerInv
    <2> QED
      BY Zenon, <2>1, <2>2, <2>3 DEF LedgerInv
  <1> QED
    BY <1>1, <1>2, Zenon DEF Grows
-----------------------------------------------------------------------------
\* The facts about cardinalities that the aggregator's lemmas assume.
LEMMA CountingHolds == Counting
  BY Zenon, FS_CardinalityType, FS_Subset, FS_AddElement, FS_RemoveElement DEF Counting

\* With a well-typed ledger the store's answers are of the kinds its callers expect.
LEMMA ResultsAreTyped == LedgerInv => ResultsTyped
  BY Zenon, ReconciliationType, TotalIsCharged, ChargedType DEF ResultsTyped, LedgerInv

-----------------------------------------------------------------------------
\* The server's invariant holds before the first request.
LEMMA ServerInit == InitAll => ServerInv
  <1> SUFFICES ASSUME InitAll PROVE ServerInv
    BY Zenon
  <1>1. /\ at = [c \in Calls |-> "none"] /\ req = [c \in Calls |-> None]
        /\ code = [c \in Calls |-> None] /\ out = [c \in Calls |-> None]
        /\ ledger = [e \in {} |-> None]
    BY Zenon DEF InitAll, Init, Store!Init
  <1>2. CallInv
    BY Zenon, <1>1, NothingSettles DEF CallInv, CallOK, Stages, Settled
  <1>3. DOMAIN ledger = {} /\ IsFiniteSet({}) /\ Cardinality({}) = 0
    BY Zenon, <1>1, FS_EmptySet
  <1>4. LedgerInv
    BY Zenon, <1>1, <1>3 DEF LedgerInv
  <1>5. \A c \in Calls : ~Settled(c) /\ ~Applied(c)
    BY <1>1, NothingSettles, Zenon DEF Settled, Settling, Applied
  <1>6. /\ Begun = {} /\ AppliedCalls = {} /\ AppliedCounted = {} /\ SettledCounted = {}
        /\ Sampled = {} /\ Undecided = {} /\ \A k : Answered(k) = {}
    BY Zenon, <1>1, <1>5 DEF Begun, AppliedCalls, AppliedCounted, SettledCounted, Sampled, Undecided,
       Answered
  <1>7. /\ received = [p \in Protocols |-> 0] /\ applied = 0 /\ duplicates = 0 /\ samples = 0
        /\ requests = [k \in Codes |-> 0] /\ received["http"] + received["grpc"] = 0
    BY DEF InitAll, Init, Protocols
  <1>8. requests = [k \in Codes |-> Cardinality(Answered(k))]
    BY <1>3, <1>6, <1>7, Zenon
  <1>9. CounterInv
    BY <1>3, <1>6, <1>7, <1>8 DEF CounterInv
  <1> QED
    BY Zenon, <1>2, <1>4, <1>9 DEF ServerInv

\* Every step keeps the server's invariant.
LEMMA ServerInvNext == ServerInv /\ [NextAll]_allVars => ServerInv'
  <1> SUFFICES ASSUME ServerInv, [NextAll]_allVars PROVE ServerInv'
    BY Zenon
  <1>1. CallInv /\ LedgerInv /\ CounterInv
    BY Zenon DEF ServerInv
  <1>2. ASSUME NEW c \in Calls, Serves(c) PROVE ServerInv'
    <2>1. LedgerInv' /\ DOMAIN ledger \subseteq DOMAIN ledger'
      BY Zenon, <1>1, <1>2, ServesGrows, LedgerStep
    <2> QED
      BY Zenon, <1>1, <1>2, <2>1, CallStep, CountingHolds, CounterStep DEF ServerInv
  <1>3. CASE Idles
    BY Zenon, <1>1, <1>3, CallIdle, CounterIdle DEF ServerInv
  <1>4. ASSUME NEW c \in Calls, NEW r \in Requests[c], Send(c, r) PROVE ServerInv'
    <2>1. UNCHANGED ledger
      BY Zenon, <1>4 DEF Send, Arrive
    <2> QED
      BY Zenon, <1>1, <1>4, <2>1, CallSend, CountingHolds, CounterSend DEF ServerInv, LedgerInv
  <1> QED
    BY Zenon, <1>1, <1>2, <1>3, <1>4, ResultsAreTyped, SystemKinds

\* Every call is at a stage of its handler, with a status from the moment one is
\* decided; the counters are natural numbers.
THEOREM AggregatorTypeCorrect == Spec => []TypeOK
  <1>1. ServerInv /\ IndInv => TypeOK
    <2> SUFFICES ASSUME CallInv, CounterInv, LedgerInv, Types PROVE TypeOK
      BY Zenon DEF ServerInv, IndInv
    <2>1. ASSUME NEW c \in Calls
          PROVE  /\ req[c] # None => req[c].op \in {"aggregate", "invoice", "reconciliation"}
                 /\ at[c] \in {"finish", "counted", "answered"} => code[c] \in Codes
                 /\ (code[c] \in Codes) <=>
                       at[c] \in {"count", "sample", "finish", "counted", "answered"}
      <3>1. CallOK(c) /\ at[c] \in Stages
        BY Zenon DEF CallInv
      <3>2. None \notin Codes
        BY Zenon, AggregatorAssumption
      <3>3. req[c] \in Request => req[c].op \in {"aggregate", "invoice", "reconciliation"}
        BY Zenon DEF Request, RequestOf
      <3> QED
        BY Zenon, <3>1, <3>2, <3>3 DEF CallOK, Stages
    <2>2. applied \in Nat /\ samples \in Nat /\ \A k : Cardinality(Answered(k)) \in Nat
      BY Zenon, CountingHolds, CountedAreFinite, FS_CardinalityType DEF CounterInv
    <2>3. requests \in [Codes -> Nat] /\ received \in [Protocols -> Nat] /\ duplicates \in Nat
      BY Zenon, <2>2 DEF CounterInv
    <2>4. at \in [Calls -> {"none", "wire", "handler", "body", "service",
                            "count", "sample", "finish", "counted", "answered"}]
      BY Zenon DEF CallInv, Stages
    <2> QED
      BY <2>1, <2>2, <2>3, <2>4 DEF TypeOK, Types
  <1> QED
    BY <1>1, InitInv, NextInv, ServerInit, ServerInvNext, PTL DEF Spec

\* At any scrape the events counted as applied are those of the ledger but for the
\* handlers between the store and the counter, each applied event has its latency
\* sample, and no event is counted that was not received.
THEOREM MetricsFollowLedger == Spec => []MetricsDescribeLedger
  <1>1. ServerInv => MetricsDescribeLedger
    <2> SUFFICES ASSUME CallInv, CounterInv PROVE MetricsDescribeLedger
      BY Zenon DEF ServerInv
    <2> DEFINE uncounted == {c \in Calls : Applied(c) /\ at[c] = "count"}
    <2>1. IsFiniteSet(AppliedCalls) /\ IsFiniteSet(AppliedCounted)
      BY Zenon, CountingHolds, CountedAreFinite DEF CounterInv
    <2>2. /\ uncounted \cup AppliedCounted = AppliedCalls /\ uncounted \cap AppliedCounted = {}
          /\ uncounted \subseteq AppliedCalls
      BY Zenon DEF AppliedCalls, AppliedCounted
    <2>3. IsFiniteSet(uncounted)
      BY Zenon, <2>1, <2>2, FS_Subset
    <2> HIDE DEF uncounted
    <2>4. Cardinality(AppliedCalls)
            = Cardinality(uncounted) + Cardinality(AppliedCounted) - Cardinality({})
      BY Zenon, <2>1, <2>2, <2>3, FS_Union
    <2>5. /\ Cardinality({}) = 0 /\ Cardinality(uncounted) \in Nat
          /\ Cardinality(AppliedCounted) \in Nat
      BY Zenon, <2>1, <2>3, FS_EmptySet, FS_CardinalityType
    <2>6. applied + Cardinality(uncounted) = Cardinality(DOMAIN ledger)
      BY <2>4, <2>5 DEF CounterInv
    <2>7. Sampled \subseteq AppliedCounted
      BY Zenon DEF Sampled, AppliedCounted
    <2>8. samples <= applied
      BY Zenon, <2>1, <2>7, FS_Subset DEF CounterInv
    <2>9. samples = Cardinality(Sampled)
          /\ applied + duplicates + Cardinality(Undecided) <= received["http"] + received["grpc"]
      BY Zenon DEF CounterInv
    <2> QED
      BY Zenon, <2>6, <2>8, <2>9 DEF MetricsDescribeLedger, uncounted, Sampled, Undecided
  <1> QED
    BY <1>1, ServerInit, ServerInvNext, PTL DEF Spec

-----------------------------------------------------------------------------
\* The calls answered with status k whose callers have returned.
Returned(k) == {c \in Answered(k) : at[c] = "answered" /\ cpc[c] = "returned"}

\* What the caller of c has been given.
CallerOK(c) ==
    /\ cpc[c] = "idle" => at[c] = "none"
    /\ cpc[c] = "wait" => at[c] # "none"
    /\ cpc[c] # "returned" => result[c] = None
    /\ cpc[c] = "returned" =>
          \/ result[c] = Error
          \/ at[c] = "answered" /\ result[c] = Answer(c)

ClientInv ==
    /\ cpc \in [Calls -> {"idle", "wait", "returned"}]
    /\ result = [c \in Calls |-> result[c]]
    /\ \A c \in Calls : CallerOK(c)
    /\ responses \in [Codes \cup {"client_error"} -> Nat]
    /\ \A k \in Codes : responses[k] <= Cardinality(Returned(k))
    /\ acked \subseteq DOMAIN ledger

\* By the ledger l, n is not more than what OBU o is charged, and -1 unless it has
\* charges.
Covered(l, n, o) ==
    \/ n = -1
    \/ n \in Nat /\ n <= Charged(l, o) /\ \E e \in DOMAIN l : l[e].OBUID = o

\* The service has given call c an invoice that shows all that was known.
Invoice(c) ==
    LET n == out[c][3] IN
    /\ out[c] = <<"invoice", req[c].arg, n, 315 * n>>
    /\ n \in Nat /\ floor[c] <= n /\ Covered(ledger, n, req[c].arg)

\* What was known when call c asked for an invoice is covered by the charges, and so
\* is the invoice.
InvoiceOK(c) ==
    IF at[c] # "none" /\ req[c].op = "invoice" /\ req[c].arg # Malformed
    THEN /\ Covered(ledger, floor[c], req[c].arg)
         /\ code[c] = "200" => Invoice(c)
         /\ code[c] = "500" => floor[c] = -1
    ELSE floor[c] = -1 /\ (at[c] # "none" /\ req[c].op = "invoice" => code[c] # "200")

InvoiceInv ==
    /\ seen = [o \in OBUIDs |-> seen[o]] /\ \A o \in OBUIDs : Covered(ledger, seen[o], o)
    /\ floor = [c \in Calls |-> floor[c]] /\ \A c \in Calls : InvoiceOK(c)

GatewayInv == ServerInv /\ ClientInv /\ InvoiceInv

-----------------------------------------------------------------------------
\* Finitely many calls have returned with any one code.
LEMMA ReturnedAreFinite ==
    ASSUME CallInv, IsFiniteSet(Begun)
    PROVE  \A k : IsFiniteSet(Returned(k)) /\ Cardinality(Returned(k)) \in Nat
  <1>1. \A k : IsFiniteSet(Answered(k)) /\ Returned(k) \subseteq Answered(k)
    BY Zenon, CountingHolds, CountedAreFinite DEF Returned
  <1> QED
    BY Zenon, <1>1, FS_Subset, FS_CardinalityType

\* No caller hears of a step of the server.
LEMMA ClientServes ==
    ASSUME ServerInv, ServerInv', ClientInv, NEW c \in Calls, Serves(c), UNCHANGED clientVars,
           DOMAIN ledger \subseteq DOMAIN ledger'
    PROVE  ClientInv'
  <1>1. CallInv /\ CallInv' /\ IsFiniteSet(Begun) /\ IsFiniteSet(Begun')
    BY Zenon DEF ServerInv, CounterInv
  <1>2. UNCHANGED <<cpc, result, responses, acked>>
    BY Zenon DEF clientVars
  <1>3. at[c] \notin {"none", "answered"} /\ at'[c] # "none"
    <2>1. PICK s \in Stages \ {"none"} : \E k, o : Moves(c, s, k, o)
      BY Zenon, <1>1, ServesMoves
    <2>2. at[c] \notin {"none", "answered"}
      BY Zenon, <1>1, ServesMoves
    <2> QED
      BY Zenon, <1>1, <2>1, <2>2 DEF Moves, CallInv
  <1>4. ASSUME NEW d \in Calls PROVE CallerOK(d)'
    <2>1. CASE d = c
      BY Zenon, <1>2, <1>3, <2>1 DEF CallerOK, ClientInv
    <2>2. CASE d # c
      <3>1. at'[d] = at[d] /\ req'[d] = req[d] /\ code'[d] = code[d] /\ out'[d] = out[d]
        BY Zenon, <1>1, <2>2, ServesOthers
      <3>2. Answer(d)' = Answer(d)
        BY Zenon, <3>1 DEF Answer
      <3> QED
        BY Zenon, <1>2, <3>1, <3>2 DEF CallerOK, ClientInv
    <2> QED BY Zenon, <2>1, <2>2
  <1>5. ASSUME NEW k \in Codes PROVE responses'[k] <= Cardinality(Returned(k)')
    <2>1. Returned(k) \subseteq Returned(k)'
      <3>1. \A d \in Calls : at[d] = "answered" => at'[d] = at[d] /\ code'[d] = code[d]
        BY Zenon, <1>1, <1>3, ServesOthers
      <3> QED
        BY Zenon, <1>2, <3>1 DEF Returned, Answered
    <2>2. IsFiniteSet(Returned(k)') /\ Cardinality(Returned(k)') \in Nat
      <3>1. Returned(k)' \subseteq Begun'
        BY Zenon DEF Returned, Answered, Begun
      <3> QED
        BY Zenon, <1>1, <3>1, FS_Subset, FS_CardinalityType
    <2>3. Cardinality(Returned(k)) <= Cardinality(Returned(k)')
      BY Zenon, <2>1, <2>2, FS_Subset
    <2>4. Cardinality(Returned(k)) \in Nat /\ responses[k] \in Nat
      BY Zenon, <1>1, ReturnedAreFinite DEF ClientInv
    <2> QED
      BY <1>2, <2>2, <2>3, <2>4 DEF ClientInv
  <1> QED
    BY Zenon, <1>2, <1>4, <1>5 DEF ClientInv

\* A caller returns with the answer or with an error.  It counts a status only of an
\* answered call.
LEMMA ClientReturns ==
    ASSUME ServerInv, ClientInv, Idles, NEW c \in Calls, cpc[c] # "returned",
           cpc' = [cpc EXCEPT ![c] = "returned"],
           NEW v, result' = [result EXCEPT ![c] = v],
           v = Error \/ (at[c] = "answered" /\ v = Answer(c)),
           \/ responses' = responses
           \/ responses' = [responses EXCEPT !["client_error"] = @ + 1]
           \/ at[c] = "answered" /\ responses' = [responses EXCEPT ![code[c]] = @ + 1],
           acked' \subseteq DOMAIN ledger
    PROVE  ClientInv'
  <1>1. CallInv /\ IsFiniteSet(Begun) /\ UNCHANGED <<at, req, code, out, ledger>>
    BY Zenon DEF ServerInv, CounterInv, Idles
  <1>2. \A d \in Calls : Answer(d)' = Answer(d)
    BY Zenon, <1>1 DEF Answer
  <1>3. ASSUME NEW d \in Calls PROVE CallerOK(d)'
    BY Zenon, <1>1, <1>2 DEF CallerOK, ClientInv
  <1>4. /\ cpc' \in [Calls -> {"idle", "wait", "returned"}]
        /\ result' = [d \in Calls |-> result'[d]]
    BY Zenon DEF ClientInv
  <1>5. at[c] = "answered" => code[c] \in Codes
    BY Zenon, <1>1 DEF CallInv, CallOK
  <1>6. responses' \in [Codes \cup {"client_error"} -> Nat]
    BY <1>5 DEF ClientInv
  <1>7. ASSUME NEW k \in Codes PROVE responses'[k] <= Cardinality(Returned(k)')
    <2>1. Answered(k)' = Answered(k)
      BY Zenon, <1>1 DEF Answered
    <2>2. Returned(k)' = IF at[c] = "answered" /\ code[c] = k
                         THEN Returned(k) \cup {c} ELSE Returned(k)
      BY <1>1, <2>1 DEF Returned, Answered, ClientInv
    <2>3. c \notin Returned(k)
      BY Zenon DEF Returned
    <2>4. IsFiniteSet(Returned(k)) /\ Cardinality(Returned(k)) \in Nat
          /\ responses[k] \in Nat /\ responses[k] <= Cardinality(Returned(k))
      BY Zenon, <1>1, ReturnedAreFinite DEF ClientInv
    <2>5. CASE at[c] = "answered" /\ code[c] = k
      <3>1. Cardinality(Returned(k)') = Cardinality(Returned(k)) + 1
        BY Zenon, <2>2, <2>3, <2>4, <2>5, CountingHolds, CountMore
      <3>2. responses'[k] <= responses[k] + 1
        BY <2>4 DEF ClientInv, Codes
      <3> QED
        BY SMTT(20), <1>6, <2>4, <3>1, <3>2
    <2>6. CASE ~(at[c] = "answered" /\ code[c] = k)
      <3>1. responses'[k] = responses[k]
        BY Zenon, <2>6 DEF ClientInv, Codes
      <3> QED
        BY Zenon, <2>2, <2>4, <2>6, <3>1
    <2> QED BY Zenon, <2>5, <2>6
  <1> QED
    BY Zenon, <1>1, <1>3, <1>4, <1>6, <1>7 DEF ClientInv

\* Sending a request keeps the callers' invariant.
LEMMA ClientSend ==
    ASSUME CallInv, ClientInv, NEW c \in Calls, NEW r, Send(c, r)
    PROVE  ClientInv'
  <1>1. /\ at[c] = "none" /\ at' = [at EXCEPT ![c] = "wire"] /\ req' = [req EXCEPT ![c] = r]
        /\ code' = code /\ out' = out /\ ledger' = ledger /\ cpc[c] = "idle"
        /\ cpc' = [cpc EXCEPT ![c] = "wait"] /\ UNCHANGED <<result, responses, acked>>
    BY Zenon DEF Send, Arrive, GoTo
  <1>2. ASSUME NEW d \in Calls PROVE CallerOK(d)'
    <2>1. CASE d = c
      BY Zenon, <1>1, <2>1 DEF CallerOK, ClientInv, CallInv
    <2>2. CASE d # c
      <3>1. at'[d] = at[d] /\ req'[d] = req[d] /\ cpc'[d] = cpc[d]
        BY Zenon, <1>1, <2>2 DEF CallInv, ClientInv
      <3>2. Answer(d)' = Answer(d)
        BY Zenon, <1>1, <3>1 DEF Answer
      <3> QED
        BY Zenon, <1>1, <3>1, <3>2 DEF CallerOK, ClientInv
    <2> QED BY Zenon, <2>1, <2>2
  <1>3. \A k : Returned(k)' = Returned(k)
    BY Zenon, <1>1 DEF Returned, Answered, CallInv, ClientInv
  <1> QED
    BY Zenon, <1>1, <1>2, <1>3 DEF ClientInv

\* Every step keeps the callers' invariant.
LEMMA ClientInvNext ==
    ASSUME ServerInv, ServerInv', ClientInv, [NextAll]_allVars
    PROVE  ClientInv'
  <1>1. CallInv /\ LedgerInv /\ acked \subseteq DOMAIN ledger
    BY Zenon DEF ServerInv, ClientInv
  <1>2. ASSUME NEW c \in Calls, Serves(c), UNCHANGED clientVars PROVE ClientInv'
    BY Zenon, <1>1, <1>2, ServesGrows, LedgerStep, ClientServes
  <1>3. CASE Idles /\ UNCHANGED clientVars
    <2>1. \A c \in Calls : Answer(c)' = Answer(c)
      BY Zenon, <1>3 DEF Answer, Idles
    <2>2. \A c \in Calls : CallerOK(c)'
      BY Zenon, <1>3, <2>1 DEF CallerOK, ClientInv, Idles, clientVars
    <2>3. \A k : Returned(k)' = Returned(k)
      BY Zenon, <1>3 DEF Returned, Answered, Idles, clientVars
    <2> QED
      BY Zenon, <1>3, <2>2, <2>3 DEF ClientInv, Idles, clientVars
  <1>4. ASSUME NEW c \in Calls, NEW r \in Requests[c], Send(c, r) PROVE ClientInv'
    BY Zenon, <1>1, <1>4, ClientSend
  <1>5. ASSUME Idles, NEW c \in Calls, NEW r, Refuse(c, r) PROVE ClientInv'
    <2>1. /\ cpc[c] # "returned" /\ cpc' = [cpc EXCEPT ![c] = "returned"]
          /\ result' = [result EXCEPT ![c] = Error] /\ acked' = acked
          /\ \/ responses' = responses
             \/ responses' = [responses EXCEPT !["client_error"] = @ + 1]
      BY Zenon, <1>5 DEF Refuse, CountResponse
    <2> QED
      BY <1>1, <1>5, <2>1, ClientReturns, Zenon
  <1>6. ASSUME Idles, NEW c \in Calls, Receive(c) PROVE ClientInv'
    <2>1. /\ cpc[c] # "returned" /\ cpc' = [cpc EXCEPT ![c] = "returned"]
          /\ at[c] = "answered" /\ result' = [result EXCEPT ![c] = Answer(c)]
          /\ \/ responses' = responses
             \/ responses' = [responses EXCEPT ![code[c]] = @ + 1]
      BY Zenon, <1>6 DEF Receive, CountResponse
    <2>2. acked' = IF Answer(c) = <<"ok">> THEN acked \cup {req[c].arg.EventID} ELSE acked
      BY Zenon, <1>6 DEF Receive, Learn
    <2>3. Answer(c) = <<"ok">> => req[c].arg.EventID \in DOMAIN ledger
      BY Zenon, <1>1, <2>1, AnswerCases DEF CallInv, CallOK
    <2>4. acked' \subseteq DOMAIN ledger
      BY Zenon, <1>1, <2>2, <2>3
    <2> QED
      BY <1>6, <2>1, <2>4, ClientReturns, Zenon
  <1>7. ASSUME Idles, NEW c \in Calls, BodyBreaks(c) PROVE ClientInv'
    <2>1. /\ cpc[c] # "returned" /\ cpc' = [cpc EXCEPT ![c] = "returned"]
          /\ at[c] = "answered" /\ result' = [result EXCEPT ![c] = Error]
          /\ responses' = [responses EXCEPT ![code[c]] = @ + 1] /\ acked' = acked
      BY Zenon, <1>7 DEF BodyBreaks, CountResponse
    <2> QED
      BY <1>1, <1>7, <2>1, ClientReturns, Zenon
  <1>8. ASSUME Idles, NEW c \in Calls, GiveUp(c) PROVE ClientInv'
    <2>1. /\ cpc[c] # "returned" /\ cpc' = [cpc EXCEPT ![c] = "returned"]
          /\ result' = [result EXCEPT ![c] = Error] /\ acked' = acked
          /\ \/ responses' = responses
             \/ responses' = [responses EXCEPT !["client_error"] = @ + 1]
      BY Zenon, <1>8 DEF GiveUp, CountResponse
    <2> QED
      BY <1>1, <1>8, <2>1, ClientReturns, Zenon
  <1> QED
    BY Zenon, <1>1, <1>2, <1>3, <1>4, <1>5, <1>6, <1>7, <1>8, ResultsAreTyped,
       SystemKinds DEF Client

-----------------------------------------------------------------------------
\* What a charge covers, every later ledger covers.
LEMMA CoveredGrows ==
    ASSUME LedgerInv, Grows, NEW n, NEW o, Covered(ledger, n, o)
    PROVE  Covered(ledger', n, o)
  <1>1. ASSUME NEW e \in EventIDs \ DOMAIN ledger, NEW d \in [OBUID : Nat, Value : Nat],
               ledger' = [x \in DOMAIN ledger \cup {e} |-> IF x = e THEN d ELSE ledger[x]]
        PROVE  Covered(ledger', n, o)
    <2>1. Charged(ledger, o) \in Nat
      BY Zenon, ChargedType DEF LedgerInv
    <2>2. PICK m : m = ledger'
      BY Zenon
    <2>3. Charged(m, o) = IF o = d.OBUID THEN Charged(ledger, o) + d.Value ELSE Charged(ledger, o)
      <3>1. /\ IsFiniteSet(DOMAIN ledger) /\ ledger \in [DOMAIN ledger -> [OBUID : Nat, Value : Nat]]
            /\ e \notin DOMAIN ledger
            /\ m = [x \in DOMAIN ledger \cup {e} |-> IF x = e THEN d ELSE ledger[x]]
        BY Zenon, <1>1, <2>2 DEF LedgerInv
      <3> QED
        BY SMTT(60), <3>1, ChargeAdds
    <2>4. Charged(m, o) \in Nat /\ Charged(m, o) >= Charged(ledger, o)
      BY <2>1, <2>3
    <2>5. ASSUME NEW x \in DOMAIN ledger, ledger[x].OBUID = o
          PROVE  \E y \in DOMAIN m : m[y].OBUID = o
      BY Zenon, <1>1, <2>2, <2>5
    <2>6. Covered(m, n, o)
      BY SMTT(20), <2>1, <2>4, <2>5 DEF Covered
    <2> QED
      BY Zenon, <2>2, <2>6
  <1>2. CASE UNCHANGED ledger
    BY Zenon, <1>2
  <1> QED
    BY <1>1, <1>2, Zenon DEF Grows

\* The larger of two numbers is one of them.
LEMMA MaxOfTwo == \A a, b \in Int : Max({a, b}) \in {a, b}
  <1> SUFFICES ASSUME NEW a \in Int, NEW b \in Int PROVE Max({a, b}) \in {a, b}
    BY Zenon
  <1>1. \E x \in {a, b} : \A y \in {a, b} : x >= y
    OBVIOUS
  <1> QED
    BY Zenon, <1>1 DEF Max

\* What is known of an OBU is covered by its charges.
LEMMA KnownIsCovered ==
    ASSUME LedgerInv, acked \subseteq DOMAIN ledger, NEW o \in OBUIDs,
           Covered(ledger, seen[o], o)
    PROVE  Covered(ledger, Known(o), o)
  <1> DEFINE w == [e \in DOMAIN ledger |-> ledger[e].Value]
             C == {e \in DOMAIN ledger : ledger[e].OBUID = o}
             A == acked \cap Store!ChargesOf(o)
             n == SumOver(w, A)
             k == IF A = {} THEN seen[o] ELSE n
  <1>1. IsFiniteSet(C) /\ \A e \in C : w[e] \in Nat
    BY Zenon, FS_Subset DEF LedgerInv
  <1>2. A \subseteq C /\ IsFiniteSet(A)
    BY Zenon, <1>1, FS_Subset DEF Store!ChargesOf
  <1>3. n \in Nat /\ n <= SumOver(w, C)
    BY Zenon, <1>1, <1>2, SumType, SumMonotone
  <1>4. Charged(ledger, o) = SumOver(w, C)
    BY Zenon DEF Charged
  <1>5. A # {} => Covered(ledger, n, o)
    BY Zenon, <1>2, <1>3, <1>4 DEF Covered
  <1>6. Known(o) = Max({seen[o], k})
    BY Zenon DEF Known
  <1>7. seen[o] \in Int /\ k \in Int
    BY <1>3 DEF Covered
  <1> HIDE DEF k
  <1>8. Known(o) \in {seen[o], k}
    BY Zenon, <1>6, <1>7, MaxOfTwo
  <1> QED
    BY Zenon, <1>5, <1>8 DEF k

\* A step of the server: an invoice shows the charges of its moment, and charges that
\* are added later do no harm.
LEMMA InvoiceServes ==
    ASSUME ServerInv, InvoiceInv, NEW c \in Calls, Serves(c), UNCHANGED clientVars
    PROVE  InvoiceInv'
  <1>1. CallInv /\ LedgerInv /\ Grows
    BY Zenon, ServesGrows DEF ServerInv
  <1>2. UNCHANGED <<seen, floor>>
    BY Zenon DEF clientVars
  <1>3. ASSUME NEW n, NEW o, Covered(ledger, n, o) PROVE Covered(ledger', n, o)
    BY Zenon, <1>1, <1>3, CoveredGrows
  <1>4. ASSUME NEW d \in Calls, at'[d] # "none", at[d] # "none", req'[d] = req[d],
               code'[d] = code[d], out'[d] = out[d]
        PROVE  InvoiceOK(d)'
    <2>1. Invoice(d) => Invoice(d)'
      BY ZenonT(40), <1>2, <1>3, <1>4 DEF Invoice
    <2> QED
      BY Zenon, <1>2, <1>3, <1>4, <2>1 DEF InvoiceOK, InvoiceInv
  <1>5. ASSUME NEW d \in Calls, d # c PROVE InvoiceOK(d)'
    <2>1. at'[d] = at[d] /\ req'[d] = req[d] /\ code'[d] = code[d] /\ out'[d] = out[d]
      BY Zenon, <1>1, <1>5, ServesOthers
    <2>2. CASE at[d] = "none"
      BY Zenon, <1>2, <2>1, <2>2 DEF InvoiceOK, InvoiceInv
    <2> QED
      BY Zenon, <1>4, <2>1, <2>2
  <1>6. InvoiceOK(c)'
    <2>1. PICK s, k, o :
            /\ s \in Stages \ {"none"} /\ Moves(c, s, k, o)
            /\ \/ k = code[c] /\ o = out[c]
               \/ Declining(c, k, o) /\ UNCHANGED ledger
               \/ req[c].op = "aggregate"
      BY Zenon, <1>1, ServesMoves
    <2>2. at[c] # "none"
      BY Zenon, <1>1, ServesMoves
    <2>3. at'[c] # "none" /\ req'[c] = req[c] /\ code'[c] = k /\ out'[c] = o
      BY Zenon, <1>1, <2>1 DEF Moves, CallInv
    <2>4. CASE k = code[c] /\ o = out[c]
      BY Zenon, <1>4, <2>2, <2>3, <2>4
    <2>5. CASE req[c].op = "aggregate"
      <3>1. floor[c] = -1
        BY Zenon, <2>2, <2>5 DEF InvoiceInv, InvoiceOK
      <3> QED
        BY Zenon, <1>2, <2>3, <2>5, <3>1 DEF InvoiceOK
    <2>6. CASE Declining(c, k, o) /\ UNCHANGED ledger /\ req[c].op # "aggregate"
      <3> DEFINE a == req[c].arg
                 n == Charged(ledger, a)
      <3>1. CASE req[c].op = "invoice" /\ a # Malformed
        <4>1. Covered(ledger, floor[c], a)
          BY Zenon, <2>2, <3>1 DEF InvoiceInv, InvoiceOK
        <4>2. n \in Nat
          BY Zenon, <1>1, ChargedType DEF LedgerInv
        <4>3. ASSUME k = "200" PROVE Invoice(c)'
          <5>1. o = <<"invoice", a, n, 315 * n>> /\ Store!ChargesOf(a) # {}
            BY Zenon, <2>6, <3>1, <4>3, TotalIsCharged DEF Declining
          <5>2. Covered(ledger, n, a)
            BY <4>2, <5>1 DEF Covered, Store!ChargesOf
          <5>3. floor[c] <= n
            BY <4>1, <4>2 DEF Covered
          <5> HIDE DEF n
          <5>4. out'[c] = <<"invoice", a, n, 315 * n>> /\ out'[c][3] = n /\ req'[c].arg = a
                /\ floor'[c] = floor[c] /\ ledger' = ledger
            BY SMTT(20), <1>2, <2>3, <2>6, <5>1
          <5> QED
            BY Zenon, <4>2, <5>2, <5>3, <5>4 DEF Invoice
        <4>4. ASSUME k = "500" PROVE floor[c] = -1
          <5>1. Store!ChargesOf(a) = {}
            BY Zenon, <2>6, <3>1, <4>4 DEF Declining
          <5> QED
            BY Zenon, <4>1, <5>1 DEF Covered, Store!ChargesOf
        <4> QED
          BY Zenon, <1>2, <2>3, <2>6, <3>1, <4>1, <4>3, <4>4 DEF InvoiceOK
      <3>2. CASE req[c].op = "invoice" /\ a = Malformed
        <4>1. k # "200" /\ floor[c] = -1
          BY Zenon, <2>2, <2>6, <3>2 DEF Declining, InvoiceInv, InvoiceOK
        <4> QED
          BY Zenon, <1>2, <2>3, <3>2, <4>1 DEF InvoiceOK
      <3>3. CASE req[c].op # "invoice"
        <4>1. floor[c] = -1
          BY Zenon, <2>2, <3>3 DEF InvoiceInv, InvoiceOK
        <4> QED
          BY Zenon, <1>2, <2>3, <3>3, <4>1 DEF InvoiceOK
      <3> QED BY Zenon, <3>1, <3>2, <3>3
    <2> QED
      BY Zenon, <2>1, <2>4, <2>5, <2>6
  <1> QED
    BY Zenon, <1>2, <1>3, <1>5, <1>6 DEF InvoiceInv

\* A caller that asks for an invoice brings what is known.
LEMMA InvoiceSend ==
    ASSUME ServerInv, ClientInv, InvoiceInv, NEW c \in Calls, NEW r \in Requests[c], Send(c, r)
    PROVE  InvoiceInv'
  <1>1. /\ at[c] = "none" /\ at' = [at EXCEPT ![c] = "wire"] /\ req' = [req EXCEPT ![c] = r]
        /\ code' = code /\ out' = out /\ ledger' = ledger /\ seen' = seen
        /\ floor' = [floor EXCEPT ![c] = IF r.op = "invoice" /\ r.arg \in OBUIDs
                                         THEN Known(r.arg) ELSE -1]
    BY Zenon DEF Send, Arrive, GoTo
  <1>2. CallInv /\ LedgerInv /\ acked \subseteq DOMAIN ledger
    BY Zenon DEF ServerInv, ClientInv
  <1>3. ASSUME NEW d \in Calls, d # c PROVE InvoiceOK(d)'
    <2>1. at'[d] = at[d] /\ req'[d] = req[d] /\ floor'[d] = floor[d]
      BY Zenon, <1>1, <1>2, <1>3 DEF CallInv, InvoiceInv
    <2>2. Invoice(d)' <=> Invoice(d)
      BY Zenon, <1>1, <2>1 DEF Invoice
    <2> QED
      BY Zenon, <1>1, <2>1, <2>2 DEF InvoiceOK, InvoiceInv
  <1>4. InvoiceOK(c)'
    <2>1. code[c] \notin {"200", "500"}
      BY Zenon, <1>1, <1>2, AggregatorAssumption DEF CallInv, CallOK, Codes
    <2>2. at'[c] = "wire" /\ req'[c] = r /\ code'[c] = code[c]
      BY Zenon, <1>1, <1>2 DEF CallInv
    <2>3. CASE r.op = "invoice" /\ r.arg \in OBUIDs
      <3>1. Covered(ledger, Known(r.arg), r.arg)
        BY Zenon, <1>2, <2>3, KnownIsCovered DEF InvoiceInv
      <3>2. floor'[c] = Known(r.arg)
        BY Zenon, <1>1, <2>3 DEF InvoiceInv
      <3>3. r.arg # Malformed
        BY <2>3, AggregatorAssumption, Zenon
      <3> QED
        BY Zenon, <1>1, <2>1, <2>2, <2>3, <3>1, <3>2, <3>3 DEF InvoiceOK
    <2>4. CASE ~(r.op = "invoice" /\ r.arg \in OBUIDs)
      <3>1. floor'[c] = -1
        BY Zenon, <1>1, <2>4 DEF InvoiceInv
      <3> QED
        BY Zenon, <2>1, <2>2, <3>1 DEF InvoiceOK, Covered
    <2> QED BY Zenon, <2>3, <2>4
  <1> QED
    BY Zenon, <1>1, <1>3, <1>4 DEF InvoiceInv

\* A caller that returns has seen at most what is charged.
LEMMA InvoiceReturns ==
    ASSUME ServerInv, ClientInv, InvoiceInv, Idles, UNCHANGED floor,
           UNCHANGED seen \/ \E c \in Calls : Receive(c)
    PROVE  InvoiceInv'
  <1>1. CallInv /\ UNCHANGED <<at, req, code, out, ledger, floor>>
    BY Zenon DEF ServerInv, Idles
  <1>2. \A d \in Calls : InvoiceOK(d)'
    <2>1. \A d \in Calls : Invoice(d)' <=> Invoice(d)
      BY ZenonT(40), <1>1 DEF Invoice
    <2> QED
      BY Zenon, <1>1, <2>1 DEF InvoiceOK, InvoiceInv
  <1>3. ASSUME NEW c \in Calls, Receive(c)
        PROVE  seen' = [o \in OBUIDs |-> seen'[o]] /\ \A o \in OBUIDs : Covered(ledger, seen'[o], o)
    <2>1. /\ at[c] = "answered"
          /\ seen' = [o \in OBUIDs |->
                        IF Answer(c) # Error /\ req[c].op = "invoice" /\ req[c].arg = o
                        THEN Max({seen[o], Answer(c)[3]}) ELSE seen[o]]
      BY Zenon, <1>3 DEF Receive, Learn
    <2>2. ASSUME NEW o \in OBUIDs, Answer(c) # Error, req[c].op = "invoice", req[c].arg = o
          PROVE  Covered(ledger, Max({seen[o], Answer(c)[3]}), o)
      <3>1. code[c] = "200" /\ Answer(c) = out[c]
        BY Zenon, <1>1, <2>1, <2>2, AnswerCases DEF CallInv, CallOK
      <3>2. Invoice(c)
        BY Zenon, <2>1, <2>2, <3>1, AggregatorAssumption DEF InvoiceInv, InvoiceOK
      <3>3. Covered(ledger, Answer(c)[3], o) /\ Answer(c)[3] \in Int
        BY SMTT(20), <2>2, <3>1, <3>2 DEF Invoice
      <3>4. Covered(ledger, seen[o], o) /\ seen[o] \in Int
        BY DEF InvoiceInv, Covered
      <3>5. Max({seen[o], Answer(c)[3]}) \in {seen[o], Answer(c)[3]}
        BY Zenon, <3>3, <3>4, MaxOfTwo
      <3> QED
        BY Zenon, <3>3, <3>4, <3>5
    <2> QED
      BY Zenon, <2>1, <2>2 DEF InvoiceInv
  <1> QED
    BY Zenon, <1>1, <1>2, <1>3 DEF InvoiceInv

\* Every step keeps what each caller may expect of its invoice.
LEMMA InvoiceInvNext ==
    ASSUME ServerInv, ClientInv, InvoiceInv, [NextAll]_allVars
    PROVE  InvoiceInv'
  <1>1. CASE Idles /\ UNCHANGED clientVars
    BY Zenon, <1>1, InvoiceReturns DEF clientVars
  <1>2. ASSUME Idles, NEW c \in Calls, Client(c), \A r : ~Send(c, r)
        PROVE  InvoiceInv'
    <2>1. UNCHANGED floor /\ (UNCHANGED seen \/ Receive(c))
      BY Zenon, <1>2 DEF Client, Refuse, Receive, BodyBreaks, GiveUp
    <2> QED
      BY Zenon, <1>2, <2>1, InvoiceReturns
  <1>3. ASSUME Idles, NEW c \in Calls, NEW r, Send(c, r) PROVE FALSE
    BY Zenon, <1>3 DEF Send, Arrive, GoTo, Idles, ServerInv, CallInv
  <1> QED
    BY Zenon, <1>1, <1>2, <1>3, ResultsAreTyped, SystemKinds, InvoiceServes, InvoiceSend
       DEF ServerInv

\* The whole invariant holds initially.
LEMMA GatewayInit == InitAll => GatewayInv
  <1> SUFFICES ASSUME InitAll PROVE GatewayInv
    BY Zenon
  <1>1. ServerInv /\ at = [c \in Calls |-> "none"]
    BY Zenon, ServerInit DEF InitAll, Init
  <1>2. /\ cpc = [c \in Calls |-> "idle"] /\ result = [c \in Calls |-> None]
        /\ responses = [k \in Codes \cup {"client_error"} |-> 0] /\ acked = {}
        /\ seen = [o \in OBUIDs |-> -1] /\ floor = [c \in Calls |-> -1]
    BY Zenon DEF InitAll
  <1>3. \A k : Cardinality(Returned(k)) \in Nat
    BY Zenon, <1>1, ReturnedAreFinite DEF ServerInv, CounterInv
  <1>4. ClientInv
    BY <1>1, <1>2, <1>3 DEF ClientInv, CallerOK
  <1>5. InvoiceInv
    BY Zenon, <1>1, <1>2 DEF InvoiceInv, InvoiceOK, Covered
  <1> QED
    BY Zenon, <1>1, <1>4, <1>5 DEF GatewayInv

\* Every step keeps the whole invariant.
LEMMA GatewayNext == GatewayInv /\ [NextAll]_allVars => GatewayInv'
  BY Zenon, ServerInvNext, ClientInvNext, InvoiceInvNext DEF GatewayInv

\* The inductive invariant of the aggregator and its callers.
THEOREM GatewayInvariance == Spec => []GatewayInv
  BY GatewayInit, GatewayNext, PTL DEF Spec

-----------------------------------------------------------------------------
\* A caller has returned exactly when it has a result, and only events are
\* acknowledged.
THEOREM CallersTypeCorrect == Spec => []ClientTypeOK
  <1>1. GatewayInv => ClientTypeOK
    <2> SUFFICES ASSUME ServerInv, ClientInv PROVE ClientTypeOK
      BY Zenon DEF GatewayInv
    <2>1. CallInv /\ DOMAIN ledger \subseteq EventIDs
      BY Zenon DEF ServerInv, LedgerInv
    <2>2. ASSUME NEW c \in Calls PROVE (cpc[c] = "returned") <=> (result[c] # None)
      BY Zenon, <2>1, AnswerCases, NothingSettles DEF ClientInv, CallerOK
    <2> QED
      BY Zenon, <2>1, <2>2 DEF ClientTypeOK, ClientInv
  <1> QED
    BY <1>1, GatewayInvariance, PTL

\* A caller that was told its event is accepted finds it in the ledger and in the
\* counters.
THEOREM AcceptedMeansDone == Spec => []AcceptedIsDone
  <1>1. GatewayInv => AcceptedIsDone
    <2> SUFFICES ASSUME ServerInv, ClientInv PROVE AcceptedIsDone
      BY Zenon DEF GatewayInv
    <2> DEFINE told == {c \in Calls : result[c] = <<"ok">>}
    <2>1. CallInv /\ CounterInv /\ IsFiniteSet(SettledCounted)
      BY Zenon, CountingHolds, CountedAreFinite DEF ServerInv, CounterInv
    <2>2. ASSUME NEW c \in Calls, result[c] = <<"ok">> PROVE c \in SettledCounted
      <3>1. <<"ok">> # None /\ <<"ok">> # Error
        BY Zenon, NothingSettles DEF Error
      <3>2. at[c] = "answered" /\ Answer(c) = <<"ok">>
        BY Zenon, <2>2, <3>1 DEF ClientInv, CallerOK
      <3> QED
        BY Zenon, <2>1, <3>2, AnswerCases DEF SettledCounted
    <2>3. told \subseteq SettledCounted
      BY Zenon, <2>2
    <2>4. Cardinality(told) <= Cardinality(SettledCounted)
      BY Zenon, <2>1, <2>3, FS_Subset
    <2> QED
      BY Zenon, <2>1, <2>4 DEF AcceptedIsDone, CounterInv, ClientInv
  <1> QED
    BY <1>1, GatewayInvariance, PTL

\* For every status the clients together have counted no more answers than the server.
THEOREM ResponsesAreCounted == Spec => []ResponsesWereCounted
  <1>1. GatewayInv => ResponsesWereCounted
    <2> SUFFICES ASSUME ServerInv, ClientInv, NEW k \in Codes PROVE responses[k] <= requests[k]
      BY Zenon DEF GatewayInv, ResponsesWereCounted
    <2>1. CallInv /\ CounterInv /\ IsFiniteSet(Answered(k))
      BY Zenon, CountingHolds, CountedAreFinite DEF ServerInv, CounterInv
    <2>2. Returned(k) \subseteq Answered(k)
      BY Zenon DEF Returned
    <2>3. Cardinality(Returned(k)) <= Cardinality(Answered(k))
          /\ Cardinality(Returned(k)) \in Nat /\ Cardinality(Answered(k)) \in Nat
      BY Zenon, <2>1, <2>2, FS_Subset, FS_CardinalityType
    <2>4. responses[k] \in Nat /\ responses[k] <= Cardinality(Returned(k))
          /\ requests[k] = Cardinality(Answered(k))
      BY Zenon, <2>1 DEF ClientInv, CounterInv
    <2> QED
      BY <2>3, <2>4
  <1> QED
    BY <1>1, GatewayInvariance, PTL

\* Invoices never shrink: each shows at least what was known of its OBU when it was
\* asked for, and no more than is charged.
THEOREM InvoicesGrow == Spec => []InvoicesNeverShrink
  <1>1. GatewayInv => InvoicesNeverShrink
    <2> SUFFICES ASSUME ServerInv, ClientInv, InvoiceInv,
                        NEW c \in Calls, at[c] # "none", req[c].op = "invoice"
                 PROVE  /\ result[c] \notin {None, Error} =>
                             /\ result[c][3] >= floor[c]
                             /\ result[c][3] <= Store!TotalOf(result[c][2])
                        /\ code[c] = "500" => floor[c] = -1
      BY Zenon DEF GatewayInv, InvoicesNeverShrink
    <2>1. CallInv /\ LedgerInv
      BY Zenon DEF ServerInv
    <2>2. ASSUME result[c] \notin {None, Error}
          PROVE  result[c][3] >= floor[c] /\ result[c][3] <= Store!TotalOf(result[c][2])
      <3>1. at[c] = "answered" /\ result[c] = Answer(c)
        BY Zenon, <2>2 DEF ClientInv, CallerOK
      <3>2. code[c] = "200" /\ result[c] = out[c]
        BY Zenon, <2>1, <2>2, <3>1, AnswerCases DEF CallInv, CallOK
      <3>3. req[c].arg # Malformed /\ Invoice(c)
        BY Zenon, <3>2 DEF InvoiceInv, InvoiceOK
      <3>4. PICK n : n = out[c][3]
        BY Zenon
      <3>5. result[c] = <<"invoice", req[c].arg, n, 315 * n>> /\ n \in Nat /\ floor[c] <= n
            /\ Covered(ledger, n, req[c].arg)
        BY Zenon, <3>2, <3>3, <3>4 DEF Invoice
      <3>6. floor[c] \in Int /\ n <= Charged(ledger, req[c].arg)
        BY <3>3, <3>5 DEF Covered, InvoiceInv, InvoiceOK
      <3>7. n <= Store!TotalOf(req[c].arg)
        BY Zenon, <3>6, TotalIsCharged
      <3> QED
        BY SMTT(20), <3>5, <3>6, <3>7
    <2> QED
      BY Zenon, <2>2 DEF InvoiceInv, InvoiceOK
  <1> QED
    BY <1>1, GatewayInvariance, PTL
=============================================================================
