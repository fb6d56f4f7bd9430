--------------------------- MODULE LoadGenerator ---------------------------
(***************************************************************************)
(* The OBU simulator (obu/main.go).  In fixed mode one scheduler hands     *)
(* events to a writer per WebSocket connection through bounded channels;   *)
(* in max mode every connection has a worker that makes and writes its own *)
(* events.  Both share the atomic counters of loadStats, from which the    *)
(* final summary is printed.                                               *)
(*                                                                         *)
(* An event ID is made of the run and a sequence number: here it is the    *)
(* number, so EventIDs is 1 .. n for the bound n on events.                *)
(***************************************************************************)
EXTENDS Fingerprint, Sequences

CONSTANTS
    OBUs,          \* number of simulated OBUs
    Connections,   \* number of WebSocket connections
    Capacity,      \* of a job channel (1024 in the code)
    Configs        \* the rest of loadConfig; see validateConfig

ASSUME LoadAssumption ==
    /\ OBUs \in Nat \ {0} /\ Connections \in Nat \ {0}
    /\ Capacity \in Nat \ {0}
    /\ EventIDs \subseteq Nat
    /\ \A cfg \in Configs : cfg.Ramp \in Seq({"good", "bad"})

Conns == 1 .. Connections

VARIABLES
    config,      \* the configuration the program was started with
    sequence, attempted, written, failed, hashSum, hashXOR,   \* loadStats
    spc,         \* main: "start", "failed", "run", "wait" (channels closed), "done"
    open,        \* the number of connections dialled and not closed
    active,      \* obuActiveConnections
    phase,       \* current phase
    cancelled,   \* the context: stop signal, or the deadline of max mode
    jobs,        \* jobs[c]: the buffered channel of connection c
    wpc,         \* wpc[c]: where the writer or worker of c is
    cur,         \* cur[c]: the event it writes
    old,         \* old[c]: the hashXOR it loaded
    turn,        \* turn[c]: obuIndex of a max-mode worker
    socket,      \* socket[c]: events put on the connection, in order
    accepted,    \* history: the events whose write returned no error
    broken       \* history: the connections on which a write returned an error

counters == <<attempted, written, failed, hashSum, hashXOR>>
main == <<config, open, active, spc, phase, cancelled>>
writers == <<wpc, cur, old, turn>>
vars == <<sequence, counters, main, jobs, writers, socket, accepted, broken>>

Event == [seq : EventIDs, obu : 1 .. OBUs]

\* The OBUs of connection c in max mode: c, c + Connections, ...
AssignedOBUs(c) == {o \in 1 .. OBUs : (o - 1) % Connections = c - 1}

mode == config.Mode

Init ==
    /\ config \in Configs
    /\ sequence = 0 /\ attempted = 0 /\ written = 0 /\ failed = 0
    /\ hashSum = 0 /\ hashXOR = {}
    /\ spc = "start"
    /\ open = 0 /\ active = 0
    /\ phase = 1
    /\ cancelled = FALSE
    /\ jobs = [c \in Conns |-> <<>>]
    /\ wpc = [c \in Conns |-> "done"]
    /\ cur = [c \in Conns |-> [seq |-> 0, obu |-> 0]]
    /\ old = [c \in Conns |-> {}]
    /\ turn = [c \in Conns |-> 0]
    /\ socket = [c \in Conns |-> <<>>]
    /\ accepted = {}
    /\ broken = {}

-----------------------------------------------------------------------------
\* main: the configuration, the connections, the goroutines

\* The numbers of OBUs and connections are positive: see LoadAssumption.
validateConfig(cfg) ==
    /\ cfg.Mode \in {"fixed", "max"}
    /\ cfg.Mode = "max" => ~cfg.RampGiven
    /\ cfg.Mode = "fixed" => cfg.RatePositive \/ cfg.RampGiven

\* A phase of cfg.Ramp is "good", or its duration or rate is missing or not positive.
parseRamp(cfg) == \A i \in DOMAIN cfg.Ramp : cfg.Ramp[i] = "good"

RejectConfig ==
    /\ spc = "start"
    /\ ~(validateConfig(config) /\ parseRamp(config))
    /\ spc' = "failed"
    /\ UNCHANGED <<sequence, counters, config, open, active, phase, cancelled, jobs, writers,
                   socket, accepted, broken>>

\* One iteration of dialConnections.  After the last one the goroutines start.
Dial ==
    /\ spc = "start" /\ ~cancelled
    /\ validateConfig(config) /\ parseRamp(config)
    /\ open' = open + 1
    /\ active' = active + 1
    /\ IF open + 1 < Connections
       THEN UNCHANGED <<spc, wpc>>
       ELSE /\ spc' = IF mode = "fixed" THEN "run" ELSE "wait"
            /\ wpc' = [c \in Conns |-> IF mode = "max" /\ AssignedOBUs(c) = {}
                                        THEN "done" ELSE "next"]
    /\ UNCHANGED <<sequence, counters, config, phase, cancelled, jobs, cur, old, turn,
                   socket, accepted, broken>>

\* Mutant: the connections dialled so far stay open.
DialFailsLeaking ==
    /\ spc = "start"
    /\ validateConfig(config) /\ parseRamp(config)
    /\ spc' = "failed"
    /\ UNCHANGED <<sequence, counters, config, open, active, phase, cancelled, jobs, writers,
                   socket, accepted, broken>>

\* Each connection is closed, and counted down from the gauge.
closeConnections ==
    /\ open' = 0
    /\ active' = active - open

\* The receiver refuses, or the context is done: what was dialled is closed.
DialFails ==
    /\ spc = "start"
    /\ validateConfig(config) /\ parseRamp(config)
    /\ spc' = "failed"
    /\ closeConnections
    /\ UNCHANGED <<sequence, counters, config, phase, cancelled, jobs, writers,
                   socket, accepted, broken>>

\* A signal arrives, or the duration of a max-mode run has passed.
Cancel ==
    /\ ~cancelled /\ spc \notin {"failed", "done"}
    /\ cancelled' = TRUE
    /\ UNCHANGED <<config, open, active, sequence, counters, spc, phase, jobs, writers, socket,
                   accepted, broken>>

-----------------------------------------------------------------------------
\* runFixedRate: the scheduler

\* Mutant: OBUs are numbered from zero.
NextEventFromZero == [seq |-> sequence + 1, obu |-> sequence % OBUs]

\* nextEvent and eventForOBU
NextEvent == [seq |-> sequence + 1, obu |-> (sequence % OBUs) + 1]

\* Mutant: events are dealt to the connections in turn.
ConnectionInTurn(e) == ((e.seq - 1) % Connections) + 1

ConnectionOf(e) == ((e.obu - 1) % Connections) + 1

\* Mutant: a full channel drops the event without counting it.
TickDropsSilently ==
    LET e == NextEvent
        c == ConnectionOf(e)
        full == Len(jobs[c]) = Capacity IN
    /\ spc = "run"
    /\ e.seq \in EventIDs
    /\ sequence' = e.seq
    /\ attempted' = attempted + 1
    /\ jobs' = IF full THEN jobs ELSE [jobs EXCEPT ![c] = Append(@, e)]
    /\ UNCHANGED <<failed, written, hashSum, hashXOR, main, writers, socket, accepted, broken>>

\* The event goes into the channel, or is counted as failed if that is full.
Tick ==
    LET e == NextEvent
        c == ConnectionOf(e)
        full == Len(jobs[c]) = Capacity IN
    /\ spc = "run"
    /\ e.seq \in EventIDs
    /\ sequence' = e.seq
    /\ attempted' = attempted + 1
    /\ jobs' = IF full THEN jobs ELSE [jobs EXCEPT ![c] = Append(@, e)]
    /\ failed' = IF full THEN failed + 1 ELSE failed
    /\ UNCHANGED <<written, hashSum, hashXOR, main, writers, socket, accepted, broken>>

\* Without a ramp there is one phase, which has no end if no duration is set.
Phases == IF config.Ramp = <<>> THEN 1 ELSE Len(config.Ramp)

PhaseTimed == config.Ramp # <<>> \/ config.Timed

\* phaseCtx is done: the next phase, or the channels are closed.
PhaseEnds ==
    /\ spc = "run"
    /\ cancelled \/ PhaseTimed
    /\ IF cancelled \/ phase = Phases
       THEN spc' = "wait" /\ UNCHANGED phase
       ELSE phase' = phase + 1 /\ UNCHANGED spc
    /\ UNCHANGED <<config, open, active, sequence, counters, cancelled, jobs, writers, socket,
                   accepted, broken>>

printSummary ==
    [EventsAttempted |-> attempted, EventsWritten |-> written, WriteFailures |-> failed,
     EventIDHashXOR |-> hashXOR, EventIDHashSum |-> hashSum]

\* workers.Wait returns; the connections are closed and printSummary is printed.
Finish ==
    /\ spc = "wait"
    /\ \A c \in Conns : wpc[c] = "done"
    /\ spc' = "done"
    /\ closeConnections
    /\ UNCHANGED <<config, sequence, counters, phase, cancelled, jobs, writers, socket, accepted, broken>>

-----------------------------------------------------------------------------
\* writer (fixed mode)

Goto(c, from, to) ==
    /\ wpc[c] = from
    /\ wpc' = [wpc EXCEPT ![c] = to]

TakeJob(c) ==
    /\ mode = "fixed"
    /\ Goto(c, "next", "write")
    /\ jobs[c] # <<>>
    /\ cur' = [cur EXCEPT ![c] = Head(jobs[c])]
    /\ jobs' = [jobs EXCEPT ![c] = Tail(@)]
    /\ UNCHANGED <<sequence, counters, main, old, turn, socket, accepted, broken>>

\* The channel is closed and empty, or the context is done: with both ready
\* select picks either, so events may stay behind in the channel.
WriterStops(c) ==
    /\ mode = "fixed"
    /\ Goto(c, "next", "done")
    /\ cancelled \/ (spc = "wait" /\ jobs[c] = <<>>)
    /\ UNCHANGED <<sequence, counters, main, jobs, cur, old, turn, socket, accepted, broken>>

-----------------------------------------------------------------------------
\* runMaximumThroughput: a worker

\* The i-th OBU of connection c, from zero.
AssignedOBU(c, i) == c + i * Connections

MakeEvent(c) ==
    /\ mode = "max"
    /\ Goto(c, "next", "write")
    /\ ~cancelled
    /\ sequence + 1 \in EventIDs
    /\ sequence' = sequence + 1
    /\ cur' = [cur EXCEPT ![c] = [seq |-> sequence + 1, obu |-> AssignedOBU(c, turn[c])]]
    /\ turn' = [turn EXCEPT ![c] = (@ + 1) % Cardinality(AssignedOBUs(c))]
    /\ attempted' = attempted + 1
    /\ UNCHANGED <<written, failed, hashSum, hashXOR, main, jobs, old, socket, accepted, broken>>

WorkerStops(c) ==
    /\ mode = "max"
    /\ Goto(c, "next", "done")
    /\ cancelled
    /\ UNCHANGED <<sequence, counters, main, jobs, cur, old, turn, socket, accepted, broken>>

-----------------------------------------------------------------------------
\* writeEvent, recordSuccess and recordFailure, in both modes

WriteSucceeds(c) ==
    /\ Goto(c, "write", "written")
    /\ socket' = [socket EXCEPT ![c] = Append(@, cur[c])]
    /\ accepted' = accepted \cup {cur[c].seq}
    /\ UNCHANGED <<sequence, counters, main, jobs, cur, old, turn, broken>>

\* The write deadline or a broken connection; the frame may have gone out.
WriteFails(c, sent) ==
    /\ Goto(c, "write", "done")
    /\ socket' = IF sent THEN [socket EXCEPT ![c] = Append(@, cur[c])] ELSE socket
    /\ failed' = failed + 1
    /\ broken' = broken \cup {c}
    /\ UNCHANGED <<sequence, attempted, written, hashSum, hashXOR, main, jobs, cur,
                   old, turn, accepted>>

CountWritten(c) ==
    /\ Goto(c, "written", "sum")
    /\ written' = written + 1
    /\ UNCHANGED <<sequence, attempted, failed, hashSum, hashXOR, main, jobs, cur,
                   old, turn, socket, accepted, broken>>

AddSum(c) ==
    /\ Goto(c, "sum", "load")
    /\ hashSum' = AddWord(hashSum, EventIDFingerprint[cur[c].seq])
    /\ UNCHANGED <<sequence, attempted, written, failed, hashXOR, main, jobs, cur,
                   old, turn, socket, accepted, broken>>

LoadXOR(c) ==
    /\ Goto(c, "load", "swap")
    /\ old' = [old EXCEPT ![c] = hashXOR]
    /\ UNCHANGED <<sequence, counters, main, jobs, cur, turn, socket, accepted, broken>>

\* Mutant: the new value is stored without comparing.
StoreXOR(c) ==
    /\ Goto(c, "swap", "next")
    /\ hashXOR' = Xor(old[c], Bits(EventIDFingerprint[cur[c].seq]))
    /\ UNCHANGED <<sequence, attempted, written, failed, hashSum, main, jobs, cur,
                   old, turn, socket, accepted, broken>>

\* Mutant: the value is loaded once, before the loop.
RetryWithoutReload(c) ==
    /\ Goto(c, "swap", IF hashXOR = old[c] THEN "next" ELSE "swap")
    /\ hashXOR' = IF hashXOR = old[c]
                  THEN Xor(old[c], Bits(EventIDFingerprint[cur[c].seq])) ELSE hashXOR
    /\ UNCHANGED <<sequence, attempted, written, failed, hashSum, main, jobs, cur,
                   old, turn, socket, accepted, broken>>

CompareAndSwapXOR(c) ==
    /\ Goto(c, "swap", IF hashXOR = old[c] THEN "next" ELSE "load")
    /\ hashXOR' = IF hashXOR = old[c]
                  THEN Xor(old[c], Bits(EventIDFingerprint[cur[c].seq])) ELSE hashXOR
    /\ UNCHANGED <<sequence, attempted, written, failed, hashSum, main, jobs, cur,
                   old, turn, socket, accepted, broken>>

-----------------------------------------------------------------------------
Writer(c) ==
    \/ TakeJob(c) \/ WriterStops(c)
    \/ MakeEvent(c) \/ WorkerStops(c)
    \/ WriteSucceeds(c) \/ \E sent \in BOOLEAN : WriteFails(c, sent)
    \/ CountWritten(c) \/ AddSum(c) \/ LoadXOR(c) \/ CompareAndSwapXOR(c)

\* The process has printed its summary and exited.
Ended == spc \in {"failed", "done"}

Exited == Ended /\ UNCHANGED vars

Next ==
    \/ Cancel
    \/ RejectConfig \/ Dial \/ DialFails
    \/ Tick \/ PhaseEnds \/ Finish
    \/ \E c \in Conns : Writer(c)
    \/ Exited

Spec == Init /\ [][Next]_vars

\* Goroutines are scheduled, dialling and every write end at their deadlines, and
\* the timer of a phase, or the context, is not starved by the ticker.
FairSpec ==
    /\ Spec
    /\ WF_vars(RejectConfig \/ Dial \/ DialFails)
    /\ WF_vars(PhaseEnds) /\ WF_vars(Finish)
    /\ \A c \in Conns : WF_vars(Writer(c))
    /\ WF_vars(mode = "max" /\ config.Timed /\ Cancel)

-----------------------------------------------------------------------------
(***************************************************************************)
(* The counters are numbers, every channel respects its capacity, and      *)
(* every event queued, written or sent has an OBU that is simulated.       *)
(***************************************************************************)
TypeOK ==
    /\ {sequence, attempted, written, failed} \subseteq Nat
    /\ hashSum \in 0 .. (2^HashBits - 1) /\ hashXOR \subseteq BitPositions
    /\ config \in Configs
    /\ spc \in {"start", "failed", "run", "wait", "done"}
    /\ {open, active} \subseteq 0 .. Connections
    /\ phase \in 1 .. Phases
    /\ cancelled \in BOOLEAN /\ broken \subseteq Conns
    /\ \A c \in Conns :
        /\ jobs[c] \in Seq(Event) /\ Len(jobs[c]) <= Capacity
        /\ socket[c] \in Seq(Event)
        /\ wpc[c] \in {"next", "write", "written", "sum", "load", "swap", "done"}
        /\ wpc[c] \in {"write", "written", "sum", "load", "swap"} => cur[c] \in Event
        /\ old[c] \subseteq BitPositions
    /\ accepted \subseteq EventIDs

(***************************************************************************)
(* One OBU keeps using the same connection, and its events go out on it in *)
(* the order in which they were made: no event of an OBU overtakes another *)
(* and none is sent twice, although the writers run concurrently.          *)
(***************************************************************************)
OBUsStayInOrder ==
    \A c, d \in Conns : \A i \in DOMAIN socket[c], j \in DOMAIN socket[d] :
        socket[c][i].obu = socket[d][j].obu =>
            /\ c = d
            /\ i < j => socket[c][i].seq < socket[d][j].seq

(***************************************************************************)
(* The summary printed at the end describes exactly the events whose write *)
(* succeeded: their number, and the fingerprint the aggregator will have   *)
(* if all of them are applied, however recordSuccess interleaved.          *)
(***************************************************************************)
SummaryDescribesWrites ==
    spc = "done" =>
        [Count |-> printSummary.EventsWritten, XOR |-> printSummary.EventIDHashXOR,
         Sum |-> printSummary.EventIDHashSum] = ReconciliationOf(accepted)

Waiting == SumOver([c \in Conns |-> Len(jobs[c])], Conns)
InHand == Cardinality({c \in Conns : wpc[c] \in {"write", "written"}})

(***************************************************************************)
(* No attempt is lost track of: it is written, failed, queued or in the    *)
(* hands of a writer.  What the summary leaves out is only what stays      *)
(* behind in the channels when the writers are gone, and nothing stays in  *)
(* the channel of a connection unless the run was told to stop or a write  *)
(* failed on that very connection; in max mode nothing does.               *)
(***************************************************************************)
AttemptsAccounted ==
    /\ attempted = written + failed + Waiting + InHand
    /\ spc = "done" =>
          /\ printSummary.EventsAttempted
                = printSummary.EventsWritten + printSummary.WriteFailures + Waiting
          /\ \A c \in Conns : jobs[c] # <<>> => mode # "max" /\ (cancelled \/ c \in broken)

(***************************************************************************)
(* A run that is timed, or has been told to stop, ends: its phases are     *)
(* over or the context is done, every writer leaves its loop although a    *)
(* connection broke or its channel is full, and the compare-and-swap loop  *)
(* does not keep a writer for ever.                                        *)
(***************************************************************************)
RunEnds == (config.Timed \/ config.Ramp # <<>> \/ cancelled) ~> Ended

(***************************************************************************)
(* The gauge of active connections is back at zero when the process ends,  *)
(* also when dialConnections failed halfway; and it shows all connections  *)
(* as long as anything is written.                                         *)
(***************************************************************************)
ConnectionsReleased ==
    /\ Ended => active = 0
    /\ (\E c \in Conns : wpc[c] # "done") => active = Connections
=============================================================================
