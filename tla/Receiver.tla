------------------------------ MODULE Receiver ------------------------------
(***************************************************************************)
(* The data receiver (data_receiver/main.go, producer.go): one goroutine   *)
(* per WebSocket reads messages and publishes each to Kafka, waiting for   *)
(* the delivery report before it reads the next; a stop signal closes the  *)
(* sockets and flushes the producer.                                       *)
(*                                                                         *)
(* The Kafka client and the broker are external: a message handed to       *)
(* Produce is stored in the topic late, twice or never, and one delivery   *)
(* report for it goes, in the order of the client's poller goroutine, to   *)
(* the channel that came with the message.                                 *)
(***************************************************************************)
EXTENDS Integers, Sequences, FiniteSets

CONSTANTS
    Conns,    \* WebSocket connections
    Stream,   \* Stream[c]: the messages the peer of c sends, in order
    Bad,      \* a message that is not JSON or misses a required value
    MaxLog,   \* bound on records stored in the topic
    MayStop   \* whether a stop signal may arrive

Sent(c) == {Stream[c][i] : i \in DOMAIN Stream[c]} \ {Bad}
Events == UNION {Sent(c) : c \in Conns}

ASSUME StreamAssumption ==
    /\ \A c \in Conns : Stream[c] \in Seq(Events \cup {Bad})
    /\ \A c \in Conns : \A i, j \in DOMAIN Stream[c] :
          i # j /\ Stream[c][i] # Bad => Stream[c][i] # Stream[c][j]
    /\ \A c, d \in Conns : c # d => Sent(c) \cap Sent(d) = {}
    /\ MaxLog \in Nat
    /\ MayStop \in BOOLEAN

VARIABLES
    hpc,        \* hpc[c]: where the handler of c is
    nread,      \* nread[c]: messages read from c
    open,       \* the upgraded sockets that neither side has closed
    told,       \* the sockets that were sent a going-away message
    registered, \* dr.connections
    received, invalid, failures, active,   \* the four metrics
    queue,      \* messages the Kafka client has not reported on
    reports,    \* delivery reports its poller has still to hand over
    delivery,   \* delivery[e]: content of the channel made for event e
    log,        \* the topic
    published,  \* history: events for which ProduceData returned nil
    handed,     \* history: events Produce accepted
    mpc,        \* main: "serve", "shutdown", "flush", "close", "exited"
    complained, \* Close found messages left and returned an error
    sweep,      \* closeConnections: "idle", "locked" (connectionsMu), "done"
    todo        \* the connections it has still to close

handler == <<hpc, nread>>
sockets == <<open, told, registered>>
metrics == <<received, invalid, failures, active>>
kafka == <<queue, reports, delivery, log, handed>>
sweeper == <<sweep, todo>>
main == <<mpc, complained, sweeper>>
vars == <<handler, sockets, metrics, kafka, published, main>>

Running == mpc # "exited"
Sweeping == sweep = "locked"
Current(c) == Stream[c][nread[c]]

Init ==
    /\ hpc = [c \in Conns |-> "none"]
    /\ nread = [c \in Conns |-> 0]
    /\ open = {} /\ told = {} /\ registered = {}
    /\ received = 0 /\ invalid = 0 /\ failures = 0 /\ active = 0
    /\ queue = {} /\ reports = <<>> /\ log = <<>>
    /\ delivery = [e \in Events |-> <<>>]
    /\ published = {} /\ handed = {}
    /\ mpc = "serve" /\ complained = FALSE
    /\ sweep = "idle" /\ todo = {}

Goto(c, from, to) ==
    /\ Running
    /\ hpc[c] = from
    /\ hpc' = [hpc EXCEPT ![c] = to]

-----------------------------------------------------------------------------
\* handleWS

\* net/http accepts a connection and starts its handler (external).
Accept(c) ==
    /\ mpc = "serve"
    /\ Goto(c, "none", "accepted")
    /\ UNCHANGED <<nread, sockets, metrics, kafka, published, main>>

UpgradeFails(c) ==
    /\ Goto(c, "accepted", "gone")
    /\ UNCHANGED <<nread, sockets, metrics, kafka, published, main>>

Upgrade(c) ==
    /\ Goto(c, "accepted", "upgraded")
    /\ open' = open \cup {c}
    /\ active' = active + 1
    /\ UNCHANGED <<nread, told, registered, received, invalid, failures, kafka, published, main>>

Register(c) ==
    /\ Goto(c, "upgraded", "read")
    /\ ~Sweeping
    /\ registered' = registered \cup {c}
    /\ UNCHANGED <<nread, open, told, metrics, kafka, published, main>>

\* Mutant: the deferred delete is forgotten.
LeaveRegistered(c) ==
    /\ Goto(c, "leaving", "gone")
    /\ ~Sweeping
    /\ open' = open \ {c}
    /\ active' = active - 1
    /\ UNCHANGED <<nread, told, registered, received, invalid, failures, kafka, published, main>>

\* The deferred functions, once the receive loop has returned.
Leave(c) ==
    /\ Goto(c, "leaving", "gone")
    /\ ~Sweeping
    /\ registered' = registered \ {c}
    /\ open' = open \ {c}
    /\ active' = active - 1
    /\ UNCHANGED <<nread, told, received, invalid, failures, kafka, published, main>>

\* The peer closes, the network breaks, or nothing came for readTimeout.
Disconnect(c) ==
    /\ Running
    /\ c \in open
    /\ open' = open \ {c}
    /\ UNCHANGED <<handler, told, registered, metrics, kafka, published, main>>

-----------------------------------------------------------------------------
\* wsReceiveLoop

\* Messages that arrived before the socket was closed can still be read.
ReadMessage(c) ==
    /\ nread[c] < Len(Stream[c])
    /\ nread' = [nread EXCEPT ![c] = @ + 1]
    /\ received' = received + 1
    /\ IF Stream[c][nread[c] + 1] = Bad
       THEN Goto(c, "read", "read") /\ invalid' = invalid + 1
       ELSE Goto(c, "read", "produce") /\ UNCHANGED invalid
    /\ UNCHANGED <<sockets, failures, active, kafka, published, main>>

\* Mutant: the loop goes on after a read error.
ReadErrorIgnored(c) ==
    /\ Goto(c, "read", "read")
    /\ c \notin open
    /\ UNCHANGED <<nread, sockets, metrics, kafka, published, main>>

ReadEnds(c) ==
    /\ Goto(c, "read", "leaving")
    /\ c \notin open
    /\ UNCHANGED <<nread, sockets, metrics, kafka, published, main>>

-----------------------------------------------------------------------------
\* ProduceData

\* Mutant: the delivery channel is not buffered.
UnbufferedDelivery == 0

DeliveryCapacity == 1

Enqueue(c) ==
    /\ Goto(c, "produce", "wait")
    /\ queue' = queue \cup {Current(c)}
    /\ handed' = handed \cup {Current(c)}
    /\ UNCHANGED <<nread, sockets, metrics, reports, delivery, log, published, main>>

\* Produce returns an error: its local queue is full.
ProduceFails(c) ==
    /\ Goto(c, "produce", "read")
    /\ failures' = failures + 1
    /\ UNCHANGED <<nread, sockets, received, invalid, active, kafka, published, main>>

\* Mutant: the connection has one delivery channel for all its events.
DeliveredOnSharedChannel(c) == \E e \in Sent(c) :
    /\ Goto(c, "wait", "read")
    /\ delivery[e] # <<>>
    /\ delivery' = [delivery EXCEPT ![e] = Tail(@)]
    /\ IF Head(delivery[e]) = "stored"
       THEN published' = published \cup {Current(c)} /\ UNCHANGED failures
       ELSE failures' = failures + 1 /\ UNCHANGED published
    /\ UNCHANGED <<nread, sockets, received, invalid, active, queue, reports, log, handed, main>>

Delivered(c) ==
    LET e == Current(c) IN
    /\ Goto(c, "wait", "read")
    /\ delivery[e] # <<>>
    /\ delivery' = [delivery EXCEPT ![e] = Tail(@)]
    /\ IF Head(delivery[e]) = "stored"
       THEN published' = published \cup {e} /\ UNCHANGED failures
       ELSE failures' = failures + 1 /\ UNCHANGED published
    /\ UNCHANGED <<nread, sockets, received, invalid, active, queue, reports, log, handed, main>>

\* Mutant: a timeout is not counted as a failure.
TimeoutNotCounted(c) ==
    /\ Goto(c, "wait", "read")
    /\ UNCHANGED <<nread, sockets, metrics, kafka, published, main>>

\* produceTimeout: the report, if it ever comes, is not read.
TimedOut(c) ==
    /\ Goto(c, "wait", "read")
    /\ failures' = failures + 1
    /\ UNCHANGED <<nread, sockets, received, invalid, active, kafka, published, main>>

-----------------------------------------------------------------------------
\* External: the broker and the Kafka client's own goroutines.

\* A produce request is stored; without idempotence it may be stored again.
Store(e) ==
    /\ Running
    /\ e \in handed
    /\ Len(log) < MaxLog
    /\ log' = Append(log, e)
    /\ UNCHANGED <<handler, sockets, metrics, queue, reports, delivery, handed, published, main>>

InLog(e) == \E i \in DOMAIN log : log[i] = e

\* With acks=all the report is "stored" only for a record in the topic.
Report(e, result) ==
    /\ Running
    /\ e \in queue
    /\ result = "stored" => InLog(e)
    /\ queue' = queue \ {e}
    /\ reports' = Append(reports, [event |-> e, result |-> result])
    /\ UNCHANGED <<handler, sockets, metrics, delivery, log, handed, published, main>>

\* The poller can hand the report over: there is room, or someone receives.
CanHandOver(e) ==
    \/ Len(delivery[e]) < DeliveryCapacity
    \/ \E c \in Conns : hpc[c] = "wait" /\ Current(c) = e

HandOver ==
    /\ Running
    /\ reports # <<>>
    /\ LET r == Head(reports) IN
        /\ CanHandOver(r.event)
        /\ delivery' = [delivery EXCEPT ![r.event] = Append(@, r.result)]
    /\ reports' = Tail(reports)
    /\ UNCHANGED <<handler, sockets, metrics, queue, log, handed, published, main>>

-----------------------------------------------------------------------------
\* Shutdown: main, and closeConnections in a goroutine of its own

Signal ==
    /\ MayStop
    /\ mpc = "serve"
    /\ mpc' = "shutdown"
    /\ UNCHANGED <<handler, sockets, metrics, kafka, published, complained, sweeper>>

StartSweep ==
    /\ Running /\ mpc # "serve"
    /\ sweep = "idle"
    /\ sweep' = "locked"
    /\ todo' = registered
    /\ UNCHANGED <<handler, sockets, metrics, kafka, published, mpc, complained>>

\* WriteControl, whose error is ignored, and Close.
SweepOne(c, wrote) ==
    /\ Running /\ Sweeping
    /\ c \in todo
    /\ wrote => c \in open
    /\ told' = IF wrote THEN told \cup {c} ELSE told
    /\ open' = open \ {c}
    /\ todo' = todo \ {c}
    /\ UNCHANGED <<handler, registered, metrics, kafka, published, mpc, complained, sweep>>

EndSweep ==
    /\ Running /\ Sweeping
    /\ todo = {}
    /\ sweep' = "done"
    /\ UNCHANGED <<handler, sockets, metrics, kafka, published, mpc, complained, todo>>

\* Shutdown waits, at most ten seconds, for handlers that have not upgraded:
\* an upgraded connection is hijacked and no longer its concern.
ShutdownReturns(late) ==
    /\ mpc = "shutdown"
    /\ late \/ \A c \in Conns : hpc[c] # "accepted"
    /\ mpc' = "flush"
    /\ UNCHANGED <<handler, sockets, metrics, kafka, published, complained, sweeper>>

\* Mutant: Flush is called without a timeout.
FlushForever(late) ==
    /\ mpc = "flush"
    /\ queue = {} /\ reports = <<>>
    /\ complained' = FALSE
    /\ mpc' = "close"
    /\ UNCHANGED <<handler, sockets, metrics, kafka, published, sweeper>>

\* Flush returns when nothing is outstanding, or after five seconds.
Flush(late) ==
    /\ mpc = "flush"
    /\ late \/ (queue = {} /\ reports = <<>>)
    /\ complained' = ~(queue = {} /\ reports = <<>>)
    /\ mpc' = "close"
    /\ UNCHANGED <<handler, sockets, metrics, kafka, published, sweeper>>

\* producer.Close, and main returns: every other goroutine ends with it.
Exit ==
    /\ mpc = "close"
    /\ mpc' = "exited"
    /\ UNCHANGED <<handler, sockets, metrics, kafka, published, complained, sweeper>>

\* The process has exited, or waits for connections and has none.
Rest ==
    /\ ~Running \/ \A c \in Conns : hpc[c] = "gone"
    /\ UNCHANGED vars
-----------------------------------------------------------------------------
Handler(c) ==
    \/ UpgradeFails(c) \/ Upgrade(c) \/ Register(c) \/ Leave(c)
    \/ ReadMessage(c) \/ ReadEnds(c)
    \/ Enqueue(c) \/ ProduceFails(c) \/ Delivered(c) \/ TimedOut(c)

Closer == StartSweep \/ EndSweep \/ \E c \in Conns, wrote \in BOOLEAN : SweepOne(c, wrote)

Main == Exit \/ \E late \in BOOLEAN : ShutdownReturns(late) \/ Flush(late)

Next ==
    \/ \E c \in Conns : Accept(c) \/ Disconnect(c) \/ Handler(c)
    \/ \E e \in Events : Store(e) \/ \E r \in {"stored", "error"} : Report(e, r)
    \/ HandOver \/ Signal \/ Closer \/ Main \/ Rest

Spec == Init /\ [][Next]_vars

\* Goroutines are scheduled and every wait has its timeout; nothing is asked
\* of the broker.  A goroutine that waits for connectionsMu gets it.
FairSpec ==
    /\ Spec
    /\ \A c \in Conns : WF_vars(Handler(c))
    /\ WF_vars(Closer) /\ WF_vars(Main)

-----------------------------------------------------------------------------
(***************************************************************************)
(* Every variable has its type; a connection in dr.connections belongs to  *)
(* a handler that has still to remove it, so the map does not grow with    *)
(* connections that are gone.                                              *)
(***************************************************************************)
TypeOK ==
    /\ hpc \in [Conns -> {"none", "accepted", "upgraded", "read", "produce", "wait",
                          "leaving", "gone"}]
    /\ \A c \in Conns :
        /\ nread[c] \in 0 .. Len(Stream[c])
        /\ hpc[c] \in {"produce", "wait"} => nread[c] > 0 /\ Current(c) # Bad
    /\ open \cup told \cup todo \subseteq Conns
    /\ registered = {c \in Conns : hpc[c] \in {"read", "produce", "wait", "leaving"}}
    /\ {received, invalid, failures, active} \subseteq Nat
    /\ queue \subseteq handed /\ published \subseteq handed /\ handed \subseteq Events
    /\ reports \in Seq([event : Events, result : {"stored", "error"}])
    /\ delivery \in [Events -> Seq({"stored", "error"})]
    /\ log \in Seq(Events)
    /\ mpc \in {"serve", "shutdown", "flush", "close", "exited"}
    /\ complained \in BOOLEAN
    /\ sweep \in {"idle", "locked", "done"}

(***************************************************************************)
(* An event for which ProduceData returned nil is in the topic, before any *)
(* record of a message read later from the same connection: late reports   *)
(* of timed-out events and repeated records do not disturb the order in    *)
(* which the calculator will see an OBU's points.                          *)
(***************************************************************************)
PublishedInOrder ==
    \A c \in Conns : \A i \in DOMAIN Stream[c] : Stream[c][i] \in published =>
        \E k \in DOMAIN log :
            /\ log[k] = Stream[c][i]
            /\ \A j \in DOMAIN Stream[c], l \in 1 .. k :
                  j > i /\ Stream[c][j] # Bad => log[l] # Stream[c][j]

(***************************************************************************)
(* The poller goroutine, which all connections share, can always hand over *)
(* the next delivery report: a handler that gave up waiting, or one whose  *)
(* acknowledgement is slow, never holds up the reports of the others.      *)
(***************************************************************************)
PollerNeverBlocks == reports # <<>> => CanHandOver(Head(reports).event)

(***************************************************************************)
(* Every message read is counted once: as invalid, as a failure or as      *)
(* published, or its handler still works on it.  The gauge counts the      *)
(* handlers that have upgraded and not returned.                           *)
(***************************************************************************)
MessagesAccounted ==
    /\ received = invalid + failures + Cardinality(published)
                     + Cardinality({c \in Conns : hpc[c] \in {"produce", "wait"}})
    /\ active = Cardinality({c \in Conns : hpc[c] \notin {"none", "accepted", "gone"}})

(***************************************************************************)
(* When a socket is closed, by the peer or by closeConnections, its        *)
(* handler ends and forgets it, whatever Kafka does and although           *)
(* closeConnections holds the mutex meanwhile; or the process exits.       *)
(***************************************************************************)
ClosedSocketsForgotten ==
    \A c \in Conns :
        hpc[c] \in {"upgraded", "read", "produce", "wait"} /\ c \notin open
            ~> hpc[c] = "gone" \/ ~Running

(***************************************************************************)
(* A stop signal ends the process, in spite of messages Kafka never        *)
(* reports on and of handlers that still read.                             *)
(***************************************************************************)
SignalEndsProcess == mpc = "shutdown" ~> ~Running

(***************************************************************************)
(* What design/03-data-receiver.md says of shutdown: the producer reports  *)
(* an error if messages remain undelivered (KafkaProducer.Close).          *)
(***************************************************************************)
UndeliveredReported == ~Running /\ queue # {} => complained

(***************************************************************************)
(* What design/03-data-receiver.md says of shutdown: active sockets        *)
(* receive a going-away message, before the process ends with them         *)
(* (closeConnections, registered with RegisterOnShutdown).                 *)
(***************************************************************************)
ActiveSocketsTold == ~Running => registered \cap open \subseteq told
=============================================================================
