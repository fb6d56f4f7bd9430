------------------------------ MODULE DistCalc ------------------------------
(***************************************************************************)
(* The distance calculator (dist-calc/consumer.go and service.go) between  *)
(* Kafka and the aggregator: read a record, compute the distance from the  *)
(* OBU's previous point, charge it through the aggregator, commit the      *)
(* offset; on any error seek back to the record and try again.             *)
(*                                                                         *)
(* Kafka is external: one log per partition, a committed offset the broker *)
(* keeps, and the read position the client library keeps.  Offset k is     *)
(* log[p][k+1].  A call to the aggregator is a request on the wire that    *)
(* can be handled late, after its caller gave up, or lost.  The aggregator *)
(* is the atomic ledger that MemoryStore implements.                       *)
(***************************************************************************)
EXTENDS Integers, Sequences, FiniteSets

CONSTANTS
    Partitions, PartitionOf,   \* Kafka maps the key, an OBU ID, to a partition
    Events, OBUOf, At,         \* a valid record is an event with its OBU ID and point
    BadRecord,                 \* invalid JSON, or event ID, time or OBU ID missing
    Points, CalcDist,          \* CalcDist[a, b]: distance between two points
    Infinite,                  \* a distance this large is +Inf
    Half,                      \* 2^31: an int32 is in -Half .. Half-1
    Protocol,                  \* AGGREGATOR_PROTOCOL
    CallIDs,                   \* calls whose request may be on the wire at once
    None

CONSTANTS
    MaxLog,         \* bound: records per partition
    MaxCrashes,     \* bound: crashes and stop signals of the calculator
    MaxAggCrashes,  \* bound: restarts of the aggregator
    MayRepeat       \* the receiver's producer has no idempotence: a record may
                    \* be in the log twice

OBUs == {OBUOf[e] : e \in Events}

ASSUME EventAssumption ==
    /\ OBUOf \in [Events -> Nat \ {0}]
    /\ PartitionOf \in [OBUs -> Partitions]
    /\ At \in [Events -> Points]
    /\ CalcDist \in [Points \X Points -> Nat]
    /\ BadRecord \notin Events

ASSUME CallAssumption ==
    /\ None \notin CallIDs \cup {"ok", "invalid argument"}
    /\ Protocol \in {"http", "grpc"}

ASSUME NumberAssumption ==
    /\ Half \in Nat \ {0}
    /\ Infinite \in Nat
    /\ MaxLog \in Nat /\ MaxCrashes \in Nat /\ MaxAggCrashes \in Nat
    /\ MayRepeat \in BOOLEAN

VARIABLES
    log,          \* Kafka: records of each partition
    committed,    \* Kafka: committed offset of the consumer group
    position,     \* client library: offset ReadMessage returns next
    pc,           \* where the loop of Start is
    msg,          \* the record in hand: [p, off]
    stopping,     \* the context of Start is cancelled
    prevPoints,   \* CalcService.prevPoints: OBU ID -> point
    results,      \* CalcService.results: event -> distance
    call,         \* the call Aggregate waits for, or None
    reply,        \* its reply, or None
    wire,         \* requests sent and not yet handled
    ledger,       \* aggregator: event -> [OBUID, Value]
    applied,      \* history: events some aggregator process applied
    crashes,      \* history: crashes and stop signals so far
    aggCrashes,   \* history: aggregator restarts so far
    restarted     \* history: the calculator has lost its memory at least once

kafka == <<log, committed>>
memory == <<prevPoints, results>>
rpc == <<call, reply, wire>>
aggregator == <<ledger, applied, aggCrashes>>
incidents == <<crashes, restarted>>
vars == <<kafka, position, pc, msg, stopping, memory, rpc, aggregator, incidents>>

Request == [call : CallIDs, EventID : Events, OBUID : Int, Value : Nat]

Put(m, k, v) == [x \in DOMAIN m \cup {k} |-> IF x = k THEN v ELSE m[x]]

EmptyMap == [x \in {} |-> None]

Init ==
    /\ log = [p \in Partitions |-> <<>>]
    /\ committed = [p \in Partitions |-> 0]
    /\ position = [p \in Partitions |-> 0]
    /\ pc = "top"
    /\ msg = None
    /\ stopping = FALSE
    /\ prevPoints = EmptyMap
    /\ results = EmptyMap
    /\ call = None
    /\ reply = None
    /\ wire = {}
    /\ ledger = EmptyMap
    /\ applied = {}
    /\ crashes = 0
    /\ aggCrashes = 0
    /\ restarted = FALSE

-----------------------------------------------------------------------------
\* Kafka, fed by the data receiver.

Publish(p, r) ==
    /\ Len(log[p]) < MaxLog
    /\ r \in Events =>
         /\ p = PartitionOf[OBUOf[r]]
         /\ MayRepeat \/ \A i \in 1 .. Len(log[p]) : log[p][i] # r
    /\ log' = [log EXCEPT ![p] = Append(@, r)]
    /\ UNCHANGED <<committed, position, pc, msg, stopping, memory, rpc, aggregator, incidents>>

\* The group coordinator takes the partitions away and hands them back: the
\* client library reads on from the committed offsets.  It does so inside
\* ReadMessage.
Rebalance ==
    /\ pc = "read"
    /\ position' = committed
    /\ UNCHANGED <<kafka, pc, msg, stopping, memory, rpc, aggregator, incidents>>

-----------------------------------------------------------------------------
\* KafkaConsumer.Start

\* Mutant: cancellation is not looked at.
LoopTopIgnoresStop ==
    /\ pc = "top"
    /\ pc' = "read"
    /\ UNCHANGED <<kafka, position, msg, stopping, memory, rpc, aggregator, incidents>>

\* ctx.Err() is looked at here and nowhere else.
LoopTop ==
    /\ pc = "top"
    /\ pc' = IF stopping THEN "exited" ELSE "read"
    /\ UNCHANGED <<kafka, position, msg, stopping, memory, rpc, aggregator, incidents>>

ReadMessage(p) ==
    /\ pc = "read"
    /\ position[p] < Len(log[p])
    /\ msg' = [p |-> p, off |-> position[p]]
    /\ position' = [position EXCEPT ![p] = @ + 1]
    /\ pc' = "process"
    /\ UNCHANGED <<kafka, stopping, memory, rpc, aggregator, incidents>>

\* The poll interval elapsed, or ReadMessage returned another error.
ReadFails ==
    /\ pc = "read"
    /\ pc' = "top"
    /\ UNCHANGED <<kafka, position, msg, stopping, memory, rpc, aggregator, incidents>>

\* Mutants: the position is left alone, or set one record too early.
SeekForgotten ==
    /\ pc = "seek"
    /\ msg' = None
    /\ pc' = "top"
    /\ UNCHANGED <<kafka, position, stopping, memory, rpc, aggregator, incidents>>

SeekTooEarly ==
    /\ pc = "seek"
    /\ position' = [position EXCEPT ![msg.p] = msg.off - 1]
    /\ msg' = None
    /\ pc' = "top"
    /\ UNCHANGED <<kafka, stopping, memory, rpc, aggregator, incidents>>

SeekBack ==
    /\ pc = "seek"
    /\ position' = [position EXCEPT ![msg.p] = msg.off]
    /\ msg' = None
    /\ pc' = "top"
    /\ UNCHANGED <<kafka, stopping, memory, rpc, aggregator, incidents>>

\* Start returns the error and main exits.
SeekFails ==
    /\ pc = "seek"
    /\ msg' = None
    /\ pc' = "exited"
    /\ UNCHANGED <<kafka, position, stopping, memory, rpc, aggregator, incidents>>

-----------------------------------------------------------------------------
\* KafkaConsumer.processMessage

RecordInHand == log[msg.p][msg.off + 1]

\* Mutant: an invalid record is an error like any other and is not committed.
DiscardWithoutCommit ==
    /\ pc = "process"
    /\ RecordInHand = BadRecord
    /\ pc' = "seek"
    /\ UNCHANGED <<kafka, position, msg, stopping, memory, rpc, aggregator, incidents>>

DiscardInvalid ==
    /\ pc = "process"
    /\ RecordInHand = BadRecord
    /\ pc' = "commit"
    /\ UNCHANGED <<kafka, position, msg, stopping, memory, rpc, aggregator, incidents>>

\* Mutant: the record's own offset is committed instead of the next one.
CommitOwnOffset ==
    /\ pc = "commit"
    /\ committed' = [committed EXCEPT ![msg.p] = msg.off]
    /\ msg' = None
    /\ pc' = "top"
    /\ UNCHANGED <<log, position, stopping, memory, rpc, aggregator, incidents>>

\* CommitMessage succeeds and processMessage returns nil.
Commit ==
    /\ pc = "commit"
    /\ committed' = [committed EXCEPT ![msg.p] = msg.off + 1]
    /\ msg' = None
    /\ pc' = "top"
    /\ UNCHANGED <<log, position, stopping, memory, rpc, aggregator, incidents>>

\* CommitMessage returns an error.  The broker may have stored the offset all
\* the same and only the answer was lost.
CommitFails(stored) ==
    /\ pc = "commit"
    /\ committed' = IF stored THEN [committed EXCEPT ![msg.p] = msg.off + 1]
                              ELSE committed
    /\ pc' = "seek"
    /\ UNCHANGED <<log, position, msg, stopping, memory, rpc, aggregator, incidents>>

-----------------------------------------------------------------------------
\* CalcService.CalculateDist

\* Mutant: a repeated event is computed again.
DistanceNotCached(e) ==
    IF OBUOf[e] \in DOMAIN prevPoints
    THEN CalcDist[prevPoints[OBUOf[e]], At[e]] ELSE 0

DistanceOf(e) ==
    CASE e \in DOMAIN results -> results[e]
      [] e \notin DOMAIN results /\ OBUOf[e] \in DOMAIN prevPoints ->
             CalcDist[prevPoints[OBUOf[e]], At[e]]
      [] OTHER -> 0

\* Mutant: the point of an OBU is set once and not advanced.
CalculateFromFirstPoint(e) ==
    /\ results' = Put(results, e, DistanceOf(e))
    /\ prevPoints' = IF OBUOf[e] \in DOMAIN prevPoints THEN prevPoints
                     ELSE Put(prevPoints, OBUOf[e], At[e])

CalculateDist(e) ==
    /\ results' = Put(results, e, DistanceOf(e))
    /\ prevPoints' = IF e \in DOMAIN results THEN prevPoints
                                             ELSE Put(prevPoints, OBUOf[e], At[e])

-----------------------------------------------------------------------------
\* KafkaConsumer.processEvent and the aggregator clients

\* Go's int32(n).
ToInt32(n) == ((n + Half) % (2 * Half)) - Half

\* json.Marshal of +Inf fails in the HTTP client: nothing is sent.
MarshalFails(e) == Protocol = "http" /\ DistanceOf(e) >= Infinite

ProcessEvent ==
    LET e == RecordInHand IN
    /\ pc = "process"
    /\ e \in Events
    /\ CalculateDist(e)
    /\ \/ /\ MarshalFails(e)
          /\ pc' = "seek"
          /\ UNCHANGED rpc
       \/ /\ ~MarshalFails(e)
          /\ \E c \in CallIDs :
               /\ \A r \in wire : r.call # c
               /\ call' = c
               /\ wire' = wire \cup
                    {[call |-> c, EventID |-> e, OBUID |-> ToInt32(OBUOf[e]),
                      Value |-> DistanceOf(e)]}
          /\ reply' = None
          /\ pc' = "wait"
    /\ UNCHANGED <<kafka, position, msg, stopping, aggregator, incidents>>

CallReturns ==
    /\ pc = "wait"
    /\ reply # None
    /\ pc' = IF reply = "ok" THEN "commit" ELSE "seek"
    /\ call' = None
    /\ reply' = None
    /\ UNCHANGED <<kafka, position, msg, stopping, memory, wire, aggregator, incidents>>

\* Mutant: the error of the call is swallowed and the offset committed.
CallFailureIgnored ==
    /\ pc = "wait"
    /\ pc' = "commit"
    /\ call' = None
    /\ reply' = None
    /\ UNCHANGED <<kafka, position, msg, stopping, memory, wire, aggregator, incidents>>

\* The downstream timeout, or a broken connection.  The request may still be
\* on its way.
CallFails ==
    /\ pc = "wait"
    /\ pc' = "seek"
    /\ call' = None
    /\ reply' = None
    /\ UNCHANGED <<kafka, position, msg, stopping, memory, wire, aggregator, incidents>>

-----------------------------------------------------------------------------
\* The aggregator's Aggregate handlers and the wire

Answer(r, code) ==
    /\ reply' = IF call = r.call THEN code ELSE reply
    /\ wire' = wire \ {r}
    /\ UNCHANGED <<kafka, position, pc, msg, stopping, memory, call, aggCrashes, incidents>>

RejectedByAggregator(r) == r.OBUID <= 0 \/ r.Value >= Infinite

Reject(r) ==
    /\ RejectedByAggregator(r)
    /\ Answer(r, "invalid argument")
    /\ UNCHANGED <<ledger, applied>>

Insert(r) ==
    /\ ~RejectedByAggregator(r)
    /\ ledger' = IF r.EventID \in DOMAIN ledger
                 THEN ledger
                 ELSE Put(ledger, r.EventID, [OBUID |-> r.OBUID, Value |-> r.Value])
    /\ applied' = applied \cup {r.EventID}
    /\ Answer(r, "ok")

LoseRequest(r) ==
    /\ wire' = wire \ {r}
    /\ UNCHANGED <<kafka, position, pc, msg, stopping, memory, call, reply, aggregator, incidents>>

-----------------------------------------------------------------------------
\* Stop signals, crashes and restarts

Stop ==
    /\ pc # "exited" /\ ~stopping
    /\ crashes < MaxCrashes
    /\ crashes' = crashes + 1
    /\ stopping' = TRUE
    /\ UNCHANGED <<kafka, position, pc, msg, memory, rpc, aggregator, restarted>>

Crash ==
    /\ pc # "exited"
    /\ crashes < MaxCrashes
    /\ crashes' = crashes + 1
    /\ pc' = "exited"
    /\ msg' = None
    /\ call' = None
    /\ reply' = None
    /\ UNCHANGED <<kafka, position, stopping, memory, wire, aggregator, restarted>>

\* The container starts again with empty maps, at the committed offsets.
Restart ==
    /\ pc = "exited"
    /\ pc' = "top"
    /\ stopping' = FALSE
    /\ position' = committed
    /\ prevPoints' = EmptyMap
    /\ results' = EmptyMap
    /\ restarted' = TRUE
    /\ UNCHANGED <<kafka, msg, rpc, aggregator, crashes>>

\* MemoryStore is in memory only.
AggregatorRestart ==
    /\ aggCrashes < MaxAggCrashes
    /\ aggCrashes' = aggCrashes + 1
    /\ ledger' = EmptyMap
    /\ UNCHANGED <<kafka, position, pc, msg, stopping, memory, rpc, applied, incidents>>

-----------------------------------------------------------------------------
Processing == {"process", "wait", "commit", "seek"}

Loop ==
    \/ LoopTop
    \/ \E p \in Partitions : ReadMessage(p)
    \/ ReadFails
    \/ DiscardInvalid \/ ProcessEvent
    \/ CallReturns \/ CallFails
    \/ Commit \/ \E stored \in BOOLEAN : CommitFails(stored)
    \/ SeekBack \/ SeekFails

Handle(r) == Insert(r) \/ Reject(r)

Next ==
    \/ \E p \in Partitions, r \in Events \cup {BadRecord} : Publish(p, r)
    \/ Rebalance
    \/ Loop
    \/ \E r \in wire : Handle(r) \/ LoseRequest(r)
    \/ Stop \/ Crash \/ Restart \/ AggregatorRestart

Spec == Init /\ [][Next]_vars

\* The loop keeps running: ReadMessage, Aggregate, CommitMessage and Seek all
\* return within their timeouts, and Docker restarts a process that exited.  A
\* request on the wire is handled or lost.
LoopSpec ==
    /\ Spec
    /\ WF_vars(Loop)
    /\ WF_vars(Restart)
    /\ \A c \in CallIDs :
         WF_vars(\E r \in wire : r.call = c /\ (Handle(r) \/ LoseRequest(r)))

Holding(p) == pc \in Processing /\ msg.p = p

\* The network and the broker are not down for ever: a call or a commit that is
\* tried again and again for the records of one partition succeeds some time, and
\* ReadMessage neglects no partition.
OutagesEnd ==
    \A p \in Partitions :
        /\ SF_vars(ReadMessage(p))
        /\ SF_vars(Holding(p) /\ \E r \in wire : r.call = call /\ Handle(r))
        /\ SF_vars(Holding(p) /\ CallReturns)
        /\ SF_vars(Holding(p) /\ Commit)

-----------------------------------------------------------------------------
\* Properties

KafkaTypeOK ==
    /\ log \in [Partitions -> Seq(Events \cup {BadRecord})]
    /\ committed \in [Partitions -> Nat]
    /\ position \in [Partitions -> Nat]

LoopTypeOK ==
    /\ pc \in Processing \cup {"top", "read", "exited"}
    /\ IF pc \in Processing THEN msg \in [p : Partitions, off : Nat] ELSE msg = None
    /\ crashes \in 0 .. MaxCrashes

FlagsTypeOK == stopping \in BOOLEAN /\ restarted \in BOOLEAN

MemoryTypeOK ==
    /\ DOMAIN prevPoints \subseteq OBUs /\ prevPoints \in [DOMAIN prevPoints -> Points]
    /\ DOMAIN results \subseteq Events /\ results \in [DOMAIN results -> Nat]

CallTypeOK ==
    /\ call \in CallIDs \cup {None}
    /\ reply \in {None, "ok", "invalid argument"}
    /\ wire \subseteq Request

AggregatorTypeOK ==
    /\ DOMAIN ledger \subseteq Events
    /\ ledger \in [DOMAIN ledger -> [OBUID : Nat, Value : Nat]]
    /\ applied \subseteq Events
    /\ aggCrashes \in 0 .. MaxAggCrashes

\* Every variable stays in its type; in particular Insert keeps only positive
\* OBU IDs although a request may carry any int32.
TypeOK ==
    /\ KafkaTypeOK
    /\ LoopTypeOK
    /\ FlagsTypeOK
    /\ MemoryTypeOK
    /\ CallTypeOK
    /\ AggregatorTypeOK

\* The offset is committed only after aggregation succeeded: every valid record
\* below a committed offset was applied by the aggregator, whatever was lost,
\* late, retried or restarted on the way (processMessage, Start's seek).
CommittedWereApplied ==
    \A p \in Partitions : \A i \in 1 .. committed[p] :
        log[p][i] \in Events => log[p][i] \in applied

\* The reader never runs ahead of the committed offset by more than the record
\* in hand, and falls behind it only by the one record whose commit was stored
\* but reported as failed; so no record is skipped by Seek, by a rebalance or
\* by a restart.
PositionTracksCommit ==
    pc # "exited" =>
        \A p \in Partitions :
            IF Holding(p)
            THEN /\ position[p] = msg.off + 1
                 /\ committed[p] \in {msg.off, msg.off + 1}
            ELSE committed[p] \in {position[p], position[p] + 1}

\* Committed offsets never go back.
CommitsAdvance == [][\A p \in Partitions : committed'[p] >= committed[p]]_vars

\* The first place of an event in its partition, and the event of the same OBU
\* that comes before it there: the two ends of the distance it stands for.
FirstAt(p, i) ==
    /\ log[p][i] \in Events
    /\ \A j \in 1 .. i - 1 : log[p][j] # log[p][i]

Precedes(f, e) ==
    \E p \in Partitions : \E j \in 1 .. Len(log[p]) : \E i \in 1 .. j - 1 :
        /\ FirstAt(p, i) /\ log[p][i] = f
        /\ FirstAt(p, j) /\ log[p][j] = e
        /\ OBUOf[f] = OBUOf[e]
        /\ \A k \in i + 1 .. j - 1 : FirstAt(p, k) => OBUOf[log[p][k]] # OBUOf[e]

IsStep(e, v) == \E f \in Events : Precedes(f, e) /\ v = CalcDist[At[f], At[e]]

IsFirstOfOBU(e) == \A f \in Events : ~Precedes(f, e)

Repeated ==
    \E p \in Partitions : \E j \in 1 .. Len(log[p]) :
        log[p][j] \in Events /\ ~FirstAt(p, j)

\* The pairs of an event and a distance that were sent or charged.
Sent ==
    {<<r.EventID, r.Value>> : r \in wire}
        \cup {<<e, ledger[e].Value>> : e \in DOMAIN ledger}

\* While the calculator stays up, every distance sent or charged for an event
\* is exactly the distance from the previous event of its OBU in the log,
\* however often the event is retried, repeated by Kafka or answered late:
\* CalculateDist caches the result and does not move the point again.
ExactWhileAlive ==
    ~restarted =>
        \A s \in Sent : IF IsFirstOfOBU(s[1]) THEN s[2] = 0
                                               ELSE IsStep(s[1], s[2])

\* Across crashes and restarts of the calculator an OBU is never charged for a
\* stretch it did not drive: the charge of an event is the distance from the
\* previous event of its OBU, or zero where CalcService lost that point,
\* provided that the log holds no record twice.
NeverOvercharged ==
    ~Repeated => \A s \in Sent : s[2] = 0 \/ IsStep(s[1], s[2])

\* A charge goes to the OBU that sent the event (processEvent's request).
ChargesOwnOBU == \A e \in DOMAIN ledger : ledger[e].OBUID = OBUOf[e]

\* The aggregator accepts the event wherever its OBU was before.
Billable(e) ==
    /\ ToInt32(OBUOf[e]) > 0
    /\ \A f \in Events : OBUOf[f] = OBUOf[e] => CalcDist[At[f], At[e]] < Infinite

\* If outages end, a partition all of whose events the aggregator accepts is
\* committed to its end, through restarts, lost calls and failed commits, even
\* while Start seeks back again and again to a record of another partition.
HealthyPartitionsDrain ==
    OutagesEnd =>
    \A p \in Partitions :
        (\A e \in Events : PartitionOf[OBUOf[e]] = p => Billable(e)) =>
            \A n \in 1 .. MaxLog : Len(log[p]) >= n ~> committed[p] >= n

\* After a stop signal the loop ends, also when the aggregator never answers:
\* the downstream call is bounded and its failure leads back to ctx.Err().
StopEndsLoop == stopping ~> ~stopping \/ pc = "exited"

Delivery == INSTANCE AtLeastOnce WITH finished <- committed, charged <- applied

\* Kafka's committed offset, seen from outside, is a count of finished records: it
\* moves past one record at a time, and past an event only when the aggregator
\* has applied it; and nothing is applied that is not in the log.
ImplementsAtLeastOnce == Delivery!Spec
=============================================================================
