------------------------ MODULE LoadGeneratorProofs ------------------------
(***************************************************************************)
(* The OBU simulator, for any number of OBUs and connections, any channel  *)
(* capacity and any configurations: every OBU keeps to one connection and  *)
(* its events stay in order, the summary describes exactly the events that *)
(* were written, every attempt is accounted for and connections are        *)
(* released.                                                               *)
(*                                                                         *)
(* LoadInv says where every event is: each belongs to one connection,      *)
(* which has sent, holds or has queued it in the order of the sequence     *)
(* numbers, and where main is while the writers run.  Sums and Attempts    *)
(* then relate the counters to these places.                               *)
(***************************************************************************)
EXTENDS LoadGenerator, FingerprintProofs, TLAPS

-----------------------------------------------------------------------------
\* Events and sequences

\* nextEvent numbers OBUs in range, and connIndex is one of the connections.
LEMMA NextEventIsEvent ==
    ASSUME sequence \in Nat, sequence + 1 \in EventIDs
    PROVE  NextEvent \in Event /\ ConnectionOf(NextEvent) \in Conns
<1>1. sequence % OBUs \in 0 .. (OBUs - 1) /\ OBUs \in Nat \ {0} /\ Connections \in Nat \ {0}
    BY LoadAssumption
<1>2. NextEvent \in Event /\ NextEvent.obu = (sequence % OBUs) + 1
    BY <1>1 DEF NextEvent, Event
<1>3. (NextEvent.obu - 1) % Connections \in 0 .. (Connections - 1)
    BY <1>1, <1>2
<1> QED BY <1>1, <1>2, <1>3 DEF ConnectionOf, Conns

\* What Append and Tail do to a sequence.
LEMMA AppendFacts ==
    ASSUME NEW S, NEW s \in Seq(S), NEW e \in S
    PROVE  /\ Append(s, e) \in Seq(S) /\ Len(Append(s, e)) = Len(s) + 1
           /\ Len(s) \in Nat
           /\ DOMAIN Append(s, e) = DOMAIN s \cup {Len(s) + 1}
           /\ Append(s, e)[Len(s) + 1] = e
           /\ \A i \in DOMAIN s : Append(s, e)[i] = s[i] /\ i <= Len(s) /\ i \in Nat
OBVIOUS

\* Tail(s) is s without its first element.
LEMMA TailFacts ==
    ASSUME NEW S, NEW s \in Seq(S), s # <<>>
    PROVE  /\ Tail(s) \in Seq(S) /\ Len(Tail(s)) = Len(s) - 1 /\ Len(s) \in Nat \ {0}
           /\ Head(s) \in S /\ Head(s) = s[1] /\ 1 \in DOMAIN s
           /\ \A i \in DOMAIN Tail(s) : /\ i + 1 \in DOMAIN s /\ 1 < i + 1 /\ i \in Nat
                                        /\ Tail(s)[i] = s[i + 1]
OBVIOUS

-----------------------------------------------------------------------------
\* Types

\* Where a writer has an event in hand.
HeldPlaces == {"write", "written", "sum", "load", "swap"}

Places == HeldPlaces \cup {"next", "done"}

NoEvent == [seq |-> 0, obu |-> 0]

CounterTypes ==
    /\ sequence \in Nat /\ attempted \in Nat /\ written \in Nat /\ failed \in Nat
    /\ hashSum \in 0 .. (2^HashBits - 1) /\ hashXOR \subseteq BitPositions

MainTypes ==
    /\ config \in Configs
    /\ phase \in 1 .. Phases
    /\ cancelled \in BOOLEAN /\ broken \subseteq Conns

WriterTypes ==
    /\ wpc \in [Conns -> Places]
    /\ cur \in [Conns -> Event \cup {NoEvent}]
    /\ old \in [Conns -> SUBSET BitPositions]
    /\ \A c \in Conns : wpc[c] \in HeldPlaces => cur[c] \in Event

\* A max-mode worker runs only if it has OBUs, and its turn is that of one of them.
TurnTypes ==
    /\ turn \in [Conns -> Nat]
    /\ \A c \in Conns : AssignedOBUs(c) # {} => turn[c] < Cardinality(AssignedOBUs(c))
    /\ \A c \in Conns : mode = "max" /\ wpc[c] # "done" => AssignedOBUs(c) # {}

QueueTypes ==
    /\ jobs \in [Conns -> Seq(Event)]
    /\ \A c \in Conns : Len(jobs[c]) <= Capacity
    /\ socket \in [Conns -> Seq(Event)]
    /\ accepted \subseteq EventIDs

\* How many OBUs a worker has, and the size of a word.  These facts rest on the theory
\* of finite sets; NumbersHold in LoadGeneratorProofs proves them.
Numbers ==
    /\ 2^HashBits \in Nat \ {0}
    /\ \A c \in Conns :
         /\ Cardinality(AssignedOBUs(c)) \in Nat
         /\ AssignedOBUs(c) # {} => Cardinality(AssignedOBUs(c)) > 0
    /\ \A c \in Conns, i \in Nat : i < Cardinality(AssignedOBUs(c)) =>
         /\ AssignedOBU(c, i) \in 1 .. OBUs
         /\ (AssignedOBU(c, i) - 1) % Connections = c - 1

Types == Numbers /\ CounterTypes /\ MainTypes /\ WriterTypes /\ TurnTypes /\ QueueTypes

\* The initial state has these types.
LEMMA InitTypes == Numbers /\ Init => Types
<1> SUFFICES ASSUME Numbers, Init PROVE Types
    BY Zenon
<1>1. CounterTypes
    BY DEF Init, CounterTypes, Numbers
<1>2. MainTypes
    <2>1. config.Ramp \in Seq({"good", "bad"})
        BY Zenon, LoadAssumption DEF Init
    <2>2. Phases \in Nat /\ Phases >= 1
        BY <2>1 DEF Phases
    <2>3. phase \in 1 .. Phases
        BY <2>2 DEF Init
    <2> QED BY <2>3, Zenon DEF Init, MainTypes
<1>3. WriterTypes
    BY Zenon DEF Init, WriterTypes, Places, HeldPlaces, NoEvent
<1>4. TurnTypes
    BY Zenon DEF Init, TurnTypes, Numbers
<1>5. QueueTypes
    <2>1. <<>> \in Seq(Event) /\ Len(<<>>) <= Capacity
        BY LoadAssumption
    <2> QED BY Zenon, <2>1 DEF Init, QueueTypes
<1> QED BY Zenon, <1>1, <1>2, <1>3, <1>4, <1>5 DEF Types

\* What a held event is made of.
LEMMA HeldEvent ==
    ASSUME Types, NEW c \in Conns, wpc[c] \in HeldPlaces
    PROVE  /\ cur[c] \in Event /\ cur[c].seq \in EventIDs /\ cur[c].seq \in Nat
           /\ EventIDFingerprint[cur[c].seq] \in Nat
<1>1. cur[c] \in Event
    BY Zenon DEF Types, WriterTypes
<1>2. cur[c].seq \in EventIDs
    BY Zenon, <1>1 DEF Event
<1> QED BY Zenon, <1>1, <1>2, LoadAssumption, FingerprintAssumption

\* The counters of loadStats stay numbers and words.
LEMMA CounterTypesStep == Types /\ [Next]_vars => CounterTypes'
<1> SUFFICES ASSUME Types, [Next]_vars PROVE CounterTypes'
    BY Zenon
<1>1. /\ sequence \in Nat /\ attempted \in Nat /\ written \in Nat /\ failed \in Nat
      /\ hashSum \in 0 .. (2^HashBits - 1) /\ hashXOR \subseteq BitPositions
    BY Zenon DEF Types, CounterTypes
<1>2. CASE UNCHANGED <<sequence, counters>>
    BY Zenon, <1>1, <1>2 DEF CounterTypes, counters
<1>3. CASE Tick
    BY <1>1, <1>3 DEF CounterTypes, Tick, NextEvent
<1>4. ASSUME NEW c \in Conns, MakeEvent(c) PROVE CounterTypes'
    BY <1>1, <1>4 DEF CounterTypes, MakeEvent
<1>5. ASSUME NEW c \in Conns, NEW sent \in BOOLEAN, WriteFails(c, sent) PROVE CounterTypes'
    BY <1>1, <1>5 DEF CounterTypes, WriteFails
<1>6. ASSUME NEW c \in Conns, CountWritten(c) PROVE CounterTypes'
    BY <1>1, <1>6 DEF CounterTypes, CountWritten
<1>7. ASSUME NEW c \in Conns, AddSum(c) PROVE CounterTypes'
    <2>1. EventIDFingerprint[cur[c].seq] \in Nat
        BY Zenon, <1>7, HeldEvent DEF AddSum, Goto, HeldPlaces
    <2>2. hashSum \in Nat
        BY <1>1 DEF Types, Numbers
    <2>3. hashSum' \in 0 .. (2^HashBits - 1)
        BY <1>7, <2>1, <2>2 DEF AddSum, AddWord, Types, Numbers
    <2> QED BY Zenon, <1>1, <1>7, <2>3 DEF CounterTypes, AddSum
<1>8. ASSUME NEW c \in Conns, CompareAndSwapXOR(c) PROVE CounterTypes'
    <2>1. hashXOR' \subseteq BitPositions
        <3>1. old[c] \subseteq BitPositions
            BY Zenon DEF Types, WriterTypes
        <3>2. hashXOR' = hashXOR \/ hashXOR' = Xor(old[c], Bits(EventIDFingerprint[cur[c].seq]))
            BY <1>8, Zenon DEF CompareAndSwapXOR
        <3>3. Bits(EventIDFingerprint[cur[c].seq]) \subseteq BitPositions
            BY Zenon DEF Bits
        <3> QED BY <1>1, <3>1, <3>2, <3>3, Zenon DEF Xor
    <2> QED BY Zenon, <1>1, <1>8, <2>1 DEF CounterTypes, CompareAndSwapXOR
<1>9. ASSUME NEW c \in Conns,
             TakeJob(c) \/ WriterStops(c) \/ WorkerStops(c) \/ WriteSucceeds(c) \/ LoadXOR(c)
      PROVE  UNCHANGED <<sequence, counters>>
    BY <1>9, Zenon DEF TakeJob, WriterStops, WorkerStops, WriteSucceeds, LoadXOR
<1>10. ASSUME Cancel \/ RejectConfig \/ Dial \/ DialFails \/ PhaseEnds \/ Finish
                \/ Exited \/ UNCHANGED vars
       PROVE  UNCHANGED <<sequence, counters>>
    BY <1>10, Zenon DEF Cancel, RejectConfig, Dial, DialFails, PhaseEnds, Finish, Exited, vars
<1> QED
    BY <1>2, <1>3, <1>4, <1>5, <1>6, <1>7, <1>8, <1>9, <1>10, Zenon DEF Next, Writer

\* The phase stays one of the phases of the configuration (runFixedRate).
LEMMA MainTypesStep == Types /\ [Next]_vars => MainTypes'
<1> SUFFICES ASSUME Types, [Next]_vars PROVE MainTypes'
    BY Zenon
<1>1. /\ config \in Configs /\ phase \in 1 .. Phases
      /\ cancelled \in BOOLEAN /\ broken \subseteq Conns
    BY Zenon DEF Types, MainTypes
<1>2. CASE UNCHANGED <<main, broken>>
    BY Zenon, <1>1, <1>2 DEF MainTypes, Phases, main
<1>3. CASE Cancel
    BY Zenon, <1>1, <1>3 DEF MainTypes, Phases, Cancel
<1>4. CASE PhaseEnds
    <2>1. Phases \in Nat
        BY <1>1, LoadAssumption DEF Phases
    <2>2. UNCHANGED <<config, cancelled, broken>>
        BY <1>4, Zenon DEF PhaseEnds
    <2>3. phase' = phase \/ (phase # Phases /\ phase' = phase + 1)
        BY <1>4, Zenon DEF PhaseEnds
    <2>4. phase' \in 1 .. Phases
        BY <1>1, <2>1, <2>3
    <2> QED BY <1>1, <2>2, <2>4, Zenon DEF MainTypes, Phases
<1>5. ASSUME NEW c \in Conns, NEW sent \in BOOLEAN, WriteFails(c, sent) PROVE MainTypes'
    BY Zenon, <1>1, <1>5 DEF MainTypes, Phases, WriteFails, main
<1>6. ASSUME NEW c \in Conns,
             \/ TakeJob(c) \/ WriterStops(c) \/ WorkerStops(c) \/ MakeEvent(c)
             \/ WriteSucceeds(c) \/ CountWritten(c) \/ AddSum(c) \/ LoadXOR(c)
             \/ CompareAndSwapXOR(c)
      PROVE  UNCHANGED <<main, broken>>
    BY <1>6, Zenon DEF TakeJob, WriterStops, WorkerStops, MakeEvent, WriteSucceeds,
                       CountWritten, AddSum, LoadXOR, CompareAndSwapXOR
<1>7. ASSUME Tick \/ Exited \/ UNCHANGED vars
      PROVE  UNCHANGED <<main, broken>>
    BY <1>7, Zenon DEF Tick, Exited, vars
<1>8. ASSUME RejectConfig \/ Dial \/ DialFails \/ Finish
      PROVE  UNCHANGED <<config, phase, cancelled, broken>>
    BY <1>8, Zenon DEF RejectConfig, Dial, DialFails, Finish
<1>9. CASE UNCHANGED <<config, phase, cancelled, broken>>
    BY Zenon, <1>1, <1>9 DEF MainTypes, Phases
<1> QED
    BY <1>2, <1>3, <1>4, <1>5, <1>6, <1>7, <1>8, <1>9, Zenon DEF Next, Writer

\* A move of one writer.
LEMMA Moves ==
    ASSUME Types, NEW c \in Conns, NEW from, NEW to, Goto(c, from, to), to \in Places
    PROVE  /\ wpc[c] = from /\ wpc'[c] = to
           /\ wpc' \in [Conns -> Places]
           /\ \A d \in Conns \ {c} : wpc'[d] = wpc[d]
BY Zenon DEF Types, WriterTypes, Goto

\* The event a max-mode worker makes is one of its connection.
LEMMA MadeEvent ==
    ASSUME Types, NEW c \in Conns, MakeEvent(c)
    PROVE  /\ cur' = [cur EXCEPT ![c] = cur'[c]]
           /\ cur'[c] \in Event /\ cur'[c].seq = sequence + 1 /\ ConnectionOf(cur'[c]) = c
<1> DEFINE e == [seq |-> sequence + 1, obu |-> AssignedOBU(c, turn[c])]
<1>1. cur \in [Conns -> Event \cup {NoEvent}] /\ cur' = [cur EXCEPT ![c] = e]
    BY Zenon DEF MakeEvent, Types, WriterTypes
<1>2. cur'[c] = e
    BY Zenon, <1>1
<1>3. wpc[c] # "done" /\ mode = "max" /\ sequence + 1 \in EventIDs
    BY Zenon DEF MakeEvent, Goto
<1>4. turn[c] \in Nat /\ turn[c] < Cardinality(AssignedOBUs(c))
    BY Zenon, <1>3 DEF Types, TurnTypes
<1>5. /\ AssignedOBU(c, turn[c]) \in 1 .. OBUs
      /\ (AssignedOBU(c, turn[c]) - 1) % Connections = c - 1
    BY <1>4, Zenon DEF Types, Numbers
<1>6. e \in Event
    BY Zenon, <1>3, <1>5 DEF Event
<1>7. ConnectionOf(e) = c
    <2>1. e.obu = AssignedOBU(c, turn[c]) /\ c \in Int
        BY DEF Conns
    <2> QED BY <1>5, <2>1 DEF ConnectionOf
<1> QED BY Zenon, <1>1, <1>2, <1>6, <1>7

\* The event a writer takes from its channel.
LEMMA TakenEvent ==
    ASSUME Types, NEW c \in Conns, TakeJob(c)
    PROVE  /\ jobs[c] \in Seq(Event) /\ jobs[c] # <<>>
           /\ cur' = [cur EXCEPT ![c] = cur'[c]]
           /\ cur'[c] = Head(jobs[c]) /\ cur'[c] \in Event
           /\ jobs' = [jobs EXCEPT ![c] = Tail(jobs[c])]
<1>1. jobs[c] \in Seq(Event) /\ jobs[c] # <<>>
    BY Zenon DEF TakeJob, Types, QueueTypes
<1>2. cur' = [cur EXCEPT ![c] = Head(jobs[c])] /\ jobs' = [jobs EXCEPT ![c] = Tail(jobs[c])]
    BY Zenon DEF TakeJob
<1>3. cur'[c] = Head(jobs[c])
    BY Zenon, <1>2 DEF Types, WriterTypes
<1>4. Head(jobs[c]) \in Event
    BY <1>1
<1> QED BY Zenon, <1>1, <1>2, <1>3, <1>4

\* A writer that goes on with the event it has.
LEMMA WriterTypesMove ==
    ASSUME Types, NEW c \in Conns, NEW from, NEW to, Goto(c, from, to), to \in Places,
           UNCHANGED cur, to \in HeldPlaces => from \in HeldPlaces,
           old' \in [Conns -> SUBSET BitPositions]
    PROVE  WriterTypes'
<1>1. /\ wpc[c] = from /\ wpc'[c] = to
      /\ wpc' \in [Conns -> Places]
      /\ \A d \in Conns \ {c} : wpc'[d] = wpc[d]
    BY Zenon, Moves
<1>2. \A d \in Conns : wpc'[d] \in HeldPlaces => cur'[d] \in Event
    BY <1>1, Zenon DEF Types, WriterTypes
<1> QED BY <1>1, <1>2, Zenon DEF Types, WriterTypes

\* A writer that takes an event in hand.
LEMMA WriterTypesTake ==
    ASSUME Types, NEW c \in Conns, Goto(c, "next", "write"),
           cur' = [cur EXCEPT ![c] = cur'[c]], cur'[c] \in Event, UNCHANGED old
    PROVE  WriterTypes'
<1>1. /\ wpc'[c] = "write" /\ wpc' \in [Conns -> Places]
      /\ \A d \in Conns \ {c} : wpc'[d] = wpc[d]
    BY Zenon, Moves DEF Places, HeldPlaces
<1>2. cur' \in [Conns -> Event \cup {NoEvent}]
    BY Zenon DEF Types, WriterTypes
<1>3. \A d \in Conns \ {c} : cur'[d] = cur[d]
    BY Zenon DEF Types, WriterTypes
<1>4. \A d \in Conns : wpc'[d] \in HeldPlaces => cur'[d] \in Event
    BY <1>1, <1>3, Zenon DEF Types, WriterTypes
<1> QED BY <1>1, <1>2, <1>4, Zenon DEF Types, WriterTypes

\* A writer that is past its loop head has an event in hand.
LEMMA WriterTypesStep == Types /\ [Next]_vars => WriterTypes'
<1> SUFFICES ASSUME Types, [Next]_vars PROVE WriterTypes'
    BY Zenon
<1>1. /\ wpc \in [Conns -> Places] /\ cur \in [Conns -> Event \cup {NoEvent}]
      /\ old \in [Conns -> SUBSET BitPositions]
      /\ \A c \in Conns : wpc[c] \in HeldPlaces => cur[c] \in Event
    BY Zenon DEF Types, WriterTypes
<1>2. CASE UNCHANGED <<wpc, cur, old>>
    BY Zenon, <1>1, <1>2 DEF WriterTypes
<1>3. CASE Dial
    <2>1. UNCHANGED <<cur, old>>
        BY <1>3, Zenon DEF Dial
    <2>2. CASE UNCHANGED wpc
        BY Zenon, <1>2, <2>1, <2>2
    <2>3. CASE wpc' = [c \in Conns |-> IF mode = "max" /\ AssignedOBUs(c) = {}
                                        THEN "done" ELSE "next"]
        BY Zenon, <1>1, <2>1, <2>3 DEF WriterTypes, Places, HeldPlaces
    <2> QED BY <1>3, <2>2, <2>3, Zenon DEF Dial
<1>4. ASSUME NEW c \in Conns, TakeJob(c) PROVE WriterTypes'
    <2>1. Goto(c, "next", "write") /\ UNCHANGED old
        BY <1>4, Zenon DEF TakeJob
    <2> QED BY <1>4, <2>1, TakenEvent, WriterTypesTake, Zenon
<1>5. ASSUME NEW c \in Conns, MakeEvent(c) PROVE WriterTypes'
    <2>1. Goto(c, "next", "write") /\ UNCHANGED old
        BY <1>5, Zenon DEF MakeEvent
    <2> QED BY <1>5, <2>1, MadeEvent, WriterTypesTake, Zenon
<1>6. ASSUME NEW c \in Conns, LoadXOR(c) PROVE WriterTypes'
    <2>1. Goto(c, "load", "swap") /\ UNCHANGED cur /\ old' = [old EXCEPT ![c] = hashXOR]
        BY <1>6, Zenon DEF LoadXOR
    <2>2. old' \in [Conns -> SUBSET BitPositions]
        BY Zenon, <1>1, <2>1 DEF Types, CounterTypes
    <2> QED BY Zenon, <2>1, <2>2, WriterTypesMove DEF Places, HeldPlaces
<1>7. ASSUME NEW c \in Conns, UNCHANGED <<cur, old>>,
             NEW from \in {"next", "write", "written", "sum", "swap"},
             NEW to \in Places, Goto(c, from, to), from = "next" => to = "done"
      PROVE  WriterTypes'
    <2>1. to \in HeldPlaces => from \in HeldPlaces
        BY Zenon, <1>7 DEF HeldPlaces
    <2>2. UNCHANGED cur /\ old' \in [Conns -> SUBSET BitPositions]
        BY Zenon, <1>1, <1>7
    <2> QED BY Zenon, <1>7, <2>1, <2>2, WriterTypesMove
<1>8. ASSUME NEW c \in Conns, WriterStops(c) \/ WorkerStops(c) PROVE WriterTypes'
    <2>1. Goto(c, "next", "done") /\ UNCHANGED <<cur, old>>
        BY <1>8, Zenon DEF WriterStops, WorkerStops
    <2> QED BY Zenon, <1>7, <2>1 DEF Places
<1>9. ASSUME NEW c \in Conns, NEW sent \in BOOLEAN, WriteFails(c, sent) PROVE WriterTypes'
    <2>1. Goto(c, "write", "done") /\ UNCHANGED <<cur, old>>
        BY <1>9, Zenon DEF WriteFails
    <2> QED BY Zenon, <1>7, <2>1 DEF Places
<1>10. ASSUME NEW c \in Conns, WriteSucceeds(c) PROVE WriterTypes'
    <2>1. Goto(c, "write", "written") /\ UNCHANGED <<cur, old>>
        BY <1>10, Zenon DEF WriteSucceeds
    <2> QED BY Zenon, <1>7, <2>1 DEF Places, HeldPlaces
<1>11. ASSUME NEW c \in Conns, CountWritten(c) PROVE WriterTypes'
    <2>1. Goto(c, "written", "sum") /\ UNCHANGED <<cur, old>>
        BY <1>11, Zenon DEF CountWritten
    <2> QED BY Zenon, <1>7, <2>1 DEF Places, HeldPlaces
<1>12. ASSUME NEW c \in Conns, AddSum(c) PROVE WriterTypes'
    <2>1. Goto(c, "sum", "load") /\ UNCHANGED <<cur, old>>
        BY <1>12, Zenon DEF AddSum
    <2> QED BY Zenon, <1>7, <2>1 DEF Places, HeldPlaces
<1>13. ASSUME NEW c \in Conns, CompareAndSwapXOR(c) PROVE WriterTypes'
    <2>1. PICK to \in {"next", "load"} : Goto(c, "swap", to) /\ UNCHANGED <<cur, old>>
        BY <1>13, Zenon DEF CompareAndSwapXOR
    <2> QED BY Zenon, <1>7, <2>1 DEF Places, HeldPlaces
<1>14. ASSUME Cancel \/ RejectConfig \/ DialFails \/ Tick \/ PhaseEnds \/ Finish
                \/ Exited \/ UNCHANGED vars
       PROVE  UNCHANGED <<wpc, cur, old>>
    BY <1>14, Zenon DEF Cancel, RejectConfig, DialFails, Tick, PhaseEnds, Finish, Exited,
                        vars, writers
<1> QED
    BY <1>2, <1>3, <1>4, <1>5, <1>6, <1>8, <1>9, <1>10, <1>11, <1>12, <1>13, <1>14, Zenon
    DEF Next, Writer

\* obuIndex stays below the number of the OBUs of its worker (runMaximumThroughput).
LEMMA TurnTypesStep == Types /\ [Next]_vars => TurnTypes'
<1> SUFFICES ASSUME Types, [Next]_vars PROVE TurnTypes'
    BY Zenon
<1>1. /\ turn \in [Conns -> Nat]
      /\ \A c \in Conns : AssignedOBUs(c) # {} => turn[c] < Cardinality(AssignedOBUs(c))
      /\ \A c \in Conns : mode = "max" /\ wpc[c] # "done" => AssignedOBUs(c) # {}
    BY Zenon DEF Types, TurnTypes
<1>2. mode' = mode
    BY Zenon DEF mode, main, Next, Writer, TakeJob, WriterStops, WorkerStops, MakeEvent, WriteSucceeds,
       WriteFails, CountWritten, AddSum, LoadXOR, CompareAndSwapXOR, Cancel, RejectConfig,
       Dial, DialFails, Tick, PhaseEnds, Finish, Exited, vars
<1>3. ASSUME UNCHANGED turn, \A c \in Conns : wpc'[c] # "done" => wpc[c] # "done"
      PROVE  TurnTypes'
    BY <1>1, <1>2, <1>3, Zenon DEF TurnTypes
<1>4. CASE UNCHANGED <<turn, wpc>>
    BY <1>3, <1>4, Zenon
<1>5. CASE Dial
    <2>1. UNCHANGED turn
        BY <1>5, Zenon DEF Dial
    <2>2. CASE UNCHANGED wpc
        BY Zenon, <1>4, <2>1, <2>2
    <2>3. CASE wpc' = [c \in Conns |-> IF mode = "max" /\ AssignedOBUs(c) = {}
                                        THEN "done" ELSE "next"]
        <3>1. \A c \in Conns : mode = "max" /\ wpc'[c] # "done" => AssignedOBUs(c) # {}
            BY Zenon, <2>3
        <3> QED BY <1>1, <1>2, <2>1, <3>1, Zenon DEF TurnTypes
    <2> QED BY <1>5, <2>2, <2>3, Zenon DEF Dial
<1>6. ASSUME NEW c \in Conns, MakeEvent(c) PROVE TurnTypes'
    <2>1. turn' = [turn EXCEPT ![c] = (turn[c] + 1) % Cardinality(AssignedOBUs(c))]
        BY <1>6, Zenon DEF MakeEvent
    <2>2. wpc[c] = "next" /\ wpc' = [wpc EXCEPT ![c] = "write"] /\ mode = "max"
        BY <1>6, Zenon DEF MakeEvent, Goto
    <2>3. AssignedOBUs(c) # {} /\ Cardinality(AssignedOBUs(c)) \in Nat \ {0}
        BY <1>1, <2>2 DEF Types, Numbers
    <2>4. PICK k : k = Cardinality(AssignedOBUs(c))
        BY Zenon
    <2>5. (turn[c] + 1) % k \in 0 .. (k - 1)
        BY <1>1, <2>3, <2>4
    <2>6. turn' \in [Conns -> Nat] /\ turn'[c] < k /\ \A d \in Conns \ {c} : turn'[d] = turn[d]
        BY <1>1, <2>1, <2>3, <2>4, <2>5
    <2>7. \A d \in Conns : wpc'[d] # "done" => wpc[d] # "done"
        BY Zenon, <2>2 DEF Types, WriterTypes
    <2>8. \A d \in Conns : AssignedOBUs(d) # {} => turn'[d] < Cardinality(AssignedOBUs(d))
        BY <1>1, <2>4, <2>6, Zenon
    <2> QED BY <1>1, <1>2, <2>6, <2>7, <2>8, Zenon DEF TurnTypes
<1>7. ASSUME NEW c \in Conns, NEW from, NEW to, Goto(c, from, to), from # "done",
             UNCHANGED turn
      PROVE  TurnTypes'
    <2>1. \A d \in Conns : wpc'[d] # "done" => wpc[d] # "done"
        BY Zenon, <1>7 DEF Goto, Types, WriterTypes
    <2> QED BY Zenon, <1>3, <1>7, <2>1
<1>8. ASSUME NEW c \in Conns, Writer(c), ~MakeEvent(c) PROVE TurnTypes'
    <2>1. UNCHANGED turn
        BY <1>8, Zenon DEF Writer, TakeJob, WriterStops, WorkerStops, WriteSucceeds,
          WriteFails,               CountWritten, AddSum, LoadXOR, CompareAndSwapXOR
    <2>2. wpc[c] # "done"
        BY <1>8, Zenon DEF Writer, TakeJob, WriterStops, WorkerStops, WriteSucceeds,
          WriteFails,               CountWritten, AddSum, LoadXOR, CompareAndSwapXOR, Goto
    <2>3. \E to : Goto(c, wpc[c], to)
        BY <1>8, Zenon DEF Writer, TakeJob, WriterStops, WorkerStops, WriteSucceeds,
          WriteFails,               CountWritten, AddSum, LoadXOR, CompareAndSwapXOR, Goto
    <2> QED BY <1>7, <2>1, <2>2, <2>3, Zenon
<1>9. ASSUME Cancel \/ RejectConfig \/ DialFails \/ Tick \/ PhaseEnds \/ Finish
                \/ Exited \/ UNCHANGED vars
       PROVE  UNCHANGED <<turn, wpc>>
    BY <1>9, Zenon DEF Cancel, RejectConfig, DialFails, Tick, PhaseEnds, Finish, Exited,
                        vars, writers
<1> QED
    BY <1>4, <1>5, <1>6, <1>8, <1>9, Zenon DEF Next

\* A tick puts the next event in the channel of its connection, if there is room.
LEMMA Ticked ==
    ASSUME Types, Tick
    PROVE  /\ NextEvent \in Event /\ NextEvent.seq = sequence + 1 /\ sequence' = sequence + 1
           /\ ConnectionOf(NextEvent) \in Conns
           /\ \/ UNCHANGED jobs /\ failed' = failed + 1
              \/ /\ Len(jobs[ConnectionOf(NextEvent)]) # Capacity
                 /\ jobs' = [jobs EXCEPT ![ConnectionOf(NextEvent)] =
                                Append(jobs[ConnectionOf(NextEvent)], NextEvent)]
                 /\ UNCHANGED failed
<1>1. sequence \in Nat /\ sequence + 1 \in EventIDs /\ NextEvent.seq = sequence + 1
    BY Zenon DEF Tick, NextEvent, Types, CounterTypes
<1>2. NextEvent \in Event /\ ConnectionOf(NextEvent) \in Conns
    BY Zenon, <1>1, NextEventIsEvent
<1>3. sequence' = sequence + 1
    BY <1>1, Zenon DEF Tick
<1> DEFINE e == NextEvent
           k == ConnectionOf(e)
<1>4. \/ UNCHANGED jobs /\ failed' = failed + 1
      \/ /\ Len(jobs[k]) # Capacity
         /\ jobs' = [jobs EXCEPT ![k] = Append(jobs[k], e)]
         /\ UNCHANGED failed
    BY Zenon DEF Tick
<1> QED BY <1>1, <1>2, <1>3, <1>4, Zenon

\* No channel is filled beyond its capacity, and only events are queued and sent.
LEMMA QueueTypesStep == Types /\ [Next]_vars => QueueTypes'
<1> SUFFICES ASSUME Types, [Next]_vars PROVE QueueTypes'
    BY Zenon
<1>1. /\ jobs \in [Conns -> Seq(Event)] /\ \A c \in Conns : Len(jobs[c]) <= Capacity
      /\ socket \in [Conns -> Seq(Event)] /\ accepted \subseteq EventIDs
    BY Zenon DEF Types, QueueTypes
<1>2. CASE UNCHANGED <<jobs, socket, accepted>>
    BY <1>1, <1>2, Zenon DEF QueueTypes
<1>3. CASE Tick
    <2>1. UNCHANGED <<socket, accepted>>
        BY <1>3, Zenon DEF Tick
    <2> DEFINE e == NextEvent
               k == ConnectionOf(e)
    <2>2. CASE UNCHANGED jobs
        BY Zenon, <1>2, <2>1, <2>2
    <2>3. CASE Len(jobs[k]) # Capacity /\ jobs' = [jobs EXCEPT ![k] = Append(jobs[k], e)]
        <3>1. e \in Event /\ k \in Conns
            BY <1>3, Ticked, Zenon
        <3> HIDE DEF k, e
        <3>2. /\ Append(jobs[k], e) \in Seq(Event) /\ Len(jobs[k]) \in Nat
              /\ Len(Append(jobs[k], e)) = Len(jobs[k]) + 1
            BY <1>1, <3>1
        <3>3. Len(Append(jobs[k], e)) <= Capacity
            BY <1>1, <2>3, <3>1, <3>2, LoadAssumption
        <3>4. jobs' \in [Conns -> Seq(Event)] /\ jobs'[k] = Append(jobs[k], e)
              /\ \A d \in Conns \ {k} : jobs'[d] = jobs[d]
            BY Zenon, <1>1, <2>3, <3>1, <3>2
        <3>5. \A d \in Conns : Len(jobs'[d]) <= Capacity
            BY <1>1, <3>3, <3>4, Zenon
        <3> QED BY <1>1, <2>1, <3>4, <3>5, Zenon DEF QueueTypes
    <2> QED BY <1>3, Ticked, <2>2, <2>3, Zenon
<1>4. ASSUME NEW c \in Conns, TakeJob(c) PROVE QueueTypes'
    <2>1. UNCHANGED <<socket, accepted>>
        BY <1>4, Zenon DEF TakeJob
    <2>2. jobs[c] \in Seq(Event) /\ jobs[c] # <<>> /\ jobs' = [jobs EXCEPT ![c] = Tail(jobs[c])]
        BY Zenon, <1>4, TakenEvent
    <2>3. Tail(jobs[c]) \in Seq(Event) /\ Len(Tail(jobs[c])) <= Capacity
        BY <1>1, <2>2, LoadAssumption
    <2>4. jobs' \in [Conns -> Seq(Event)] /\ \A d \in Conns : Len(jobs'[d]) <= Capacity
        BY Zenon, <1>1, <2>2, <2>3
    <2> QED BY <1>1, <2>1, <2>4, Zenon DEF QueueTypes
<1>5. ASSUME NEW c \in Conns, NEW sent \in BOOLEAN, WriteSucceeds(c) \/ WriteFails(c, sent)
      PROVE  QueueTypes'
    <2>1. /\ UNCHANGED jobs
          /\ UNCHANGED socket \/ socket' = [socket EXCEPT ![c] = Append(socket[c], cur[c])]
        BY <1>5, Zenon DEF WriteSucceeds, WriteFails
    <2>2. wpc[c] \in HeldPlaces
        BY Zenon, <1>5 DEF WriteSucceeds, WriteFails, Goto, HeldPlaces
    <2>3. cur[c] \in Event /\ cur[c].seq \in EventIDs
        BY Zenon, <2>2, HeldEvent
    <2>4. accepted' \subseteq EventIDs
        <3>1. accepted' = accepted \/ accepted' = accepted \cup {cur[c].seq}
            BY <1>5, Zenon DEF WriteSucceeds, WriteFails
        <3> QED BY Zenon, <1>1, <2>3, <3>1
    <2>5. socket' \in [Conns -> Seq(Event)]
        <3>1. Append(socket[c], cur[c]) \in Seq(Event)
            BY <1>1, <2>3
        <3> QED BY Zenon, <1>1, <2>1, <3>1
    <2> QED BY <1>1, <2>1, <2>4, <2>5, Zenon DEF QueueTypes
<1>6. ASSUME NEW c \in Conns,
             \/ WriterStops(c) \/ WorkerStops(c) \/ MakeEvent(c) \/ CountWritten(c)
             \/ AddSum(c) \/ LoadXOR(c) \/ CompareAndSwapXOR(c)
      PROVE  UNCHANGED <<jobs, socket, accepted>>
    BY <1>6, Zenon DEF WriterStops, WorkerStops, MakeEvent, CountWritten, AddSum, LoadXOR,
                       CompareAndSwapXOR
<1>7. ASSUME Cancel \/ RejectConfig \/ Dial \/ DialFails \/ PhaseEnds \/ Finish
                \/ Exited \/ UNCHANGED vars
       PROVE  UNCHANGED <<jobs, socket, accepted>>
    BY <1>7, Zenon DEF Cancel, RejectConfig, Dial, DialFails, PhaseEnds, Finish, Exited, vars
<1> QED
    BY <1>2, <1>3, <1>4, <1>5, <1>6, <1>7, Zenon DEF Next, Writer

\* All of these types are kept.
LEMMA TypesStep == Types /\ [Next]_vars => Types'
BY Zenon, CounterTypesStep, MainTypesStep, WriterTypesStep, TurnTypesStep, QueueTypesStep
   DEF Types, Numbers

-----------------------------------------------------------------------------
\* Where main is

\* Where main is decides how many connections are open and whether writers run, and
\* a writer that is gone has left nothing behind unless it was told to stop or a
\* write failed.
Control ==
    /\ spc \in {"start", "failed", "run", "wait", "done"}
    /\ active \in Nat /\ open = active
    /\ spc = "start" => active < Connections
    /\ spc \in {"run", "wait"} => active = Connections
    /\ spc \in {"failed", "done"} => active = 0
    /\ spc \notin {"run", "wait"} => \A c \in Conns : wpc[c] = "done"
    /\ spc = "run" => mode = "fixed"
    /\ active # 0 => validateConfig(config) /\ parseRamp(config)

LeftBehind ==
    /\ mode = "max" \/ spc = "start" => \A c \in Conns : jobs[c] = <<>>
    /\ \A c \in Conns : wpc[c] = "done" /\ (spc = "run" \/ jobs[c] # <<>>) =>
          cancelled \/ c \in broken

\* At the start nothing is open, queued or running.
LEMMA InitControl == Init => Control /\ LeftBehind
BY LoadAssumption DEF Init, Control, LeftBehind

\* A writer moves only while main is running or waiting for it.
LEMMA WriterMoves ==
    ASSUME Types, Control, NEW c \in Conns, Writer(c)
    PROVE  /\ wpc[c] # "done" /\ spc \in {"run", "wait"}
           /\ UNCHANGED main
           /\ \E to : wpc' = [wpc EXCEPT ![c] = to]
           /\ \A d \in Conns \ {c} : wpc'[d] = wpc[d]
<1>1. wpc[c] # "done"
    BY Zenon DEF Writer, TakeJob, WriterStops, MakeEvent, WorkerStops, WriteSucceeds,
          WriteFails,           CountWritten, AddSum, LoadXOR, CompareAndSwapXOR, Goto
<1>2. \E to : wpc' = [wpc EXCEPT ![c] = to]
    BY Zenon DEF Writer, TakeJob, WriterStops, MakeEvent, WorkerStops, WriteSucceeds,
          WriteFails,           CountWritten, AddSum, LoadXOR, CompareAndSwapXOR, Goto
<1>3. UNCHANGED main
    BY Zenon DEF Writer, TakeJob, WriterStops, MakeEvent, WorkerStops, WriteSucceeds,
          WriteFails,           CountWritten, AddSum, LoadXOR, CompareAndSwapXOR
<1>4. \A d \in Conns \ {c} : wpc'[d] = wpc[d]
    BY Zenon, <1>2 DEF Types, WriterTypes
<1>5. spc \in {"run", "wait"}
    BY <1>1, Zenon DEF Control
<1> QED BY Zenon, <1>1, <1>2, <1>3, <1>4, <1>5

\* closeConnections runs on every way out of main.
LEMMA ControlStep == Types /\ Control /\ [Next]_vars => Control'
<1> SUFFICES ASSUME Types, Control, [Next]_vars PROVE Control'
    BY Zenon
<1>1. CASE UNCHANGED <<spc, open, active, wpc, config>>
    BY <1>1, Zenon DEF Control, mode, validateConfig, parseRamp
<1>2. CASE Cancel \/ Tick \/ Exited \/ UNCHANGED vars
    <2>1. UNCHANGED <<spc, open, active, wpc, config>>
        BY <1>2, Zenon DEF Cancel, Tick, Exited, vars, main, writers
    <2> QED BY Zenon, <1>1, <2>1
<1>3. CASE RejectConfig \/ DialFails \/ Finish
    <2>1. UNCHANGED <<wpc, config>> /\ \A c \in Conns : wpc[c] = "done"
        BY <1>3, Zenon DEF RejectConfig, DialFails, Finish, writers, Control
    <2>2. spc' \in {"failed", "done"}
        BY <1>3, Zenon DEF RejectConfig, DialFails, Finish
    <2>3. active' = 0 /\ open' = 0
        <3>1. active - open = 0
            BY DEF Control
        <3>2. \/ spc = "start" /\ active = 0 /\ UNCHANGED <<open, active>>
              \/ active' = active - open /\ open' = 0
            BY <1>3, Zenon DEF RejectConfig, DialFails, Finish, closeConnections, Control
        <3> QED BY Zenon, <3>1, <3>2 DEF Control
    <2> QED BY Zenon, <2>1, <2>2, <2>3 DEF Control
<1>4. CASE Dial
    <2>1. spc = "start" /\ open = active /\ open' = open + 1 /\ active' = active + 1 /\ active \in Nat /\ active < Connections
          /\ config' = config /\ \A c \in Conns : wpc[c] = "done"
        BY Zenon, <1>4 DEF Dial, Control
    <2>0. (validateConfig(config) /\ parseRamp(config))'
        BY <1>4, <2>1, Zenon DEF Dial, validateConfig, parseRamp
    <2>2. CASE open + 1 < Connections /\ UNCHANGED <<spc, wpc>>
        BY <2>0, <2>1, <2>2 DEF Control
    <2>3. CASE ~(open + 1 < Connections) /\ spc' = IF mode = "fixed" THEN "run" ELSE "wait"
        <3>1. active' = Connections
            BY <2>1, <2>3, LoadAssumption
        <3> QED BY Zenon, <2>0, <2>1, <2>3, <3>1, LoadAssumption DEF Control, mode
    <2> QED BY <1>4, <2>2, <2>3, Zenon DEF Dial
<1>5. CASE PhaseEnds
    <2>1. UNCHANGED <<open, active, wpc, config>> /\ spc = "run" /\ (spc' = "wait" \/ spc' = "run")
        BY <1>5, Zenon DEF PhaseEnds, writers
    <2> QED BY <2>1, Zenon DEF Control, mode, validateConfig, parseRamp
<1>6. ASSUME NEW c \in Conns, Writer(c) PROVE Control'
    <2>1. UNCHANGED <<spc, open, active, config>> /\ spc \in {"run", "wait"}
        BY <1>6, WriterMoves, Zenon DEF main
    <2> QED BY <2>1, Zenon DEF Control, mode, validateConfig, parseRamp
<1> QED
    BY <1>2, <1>3, <1>4, <1>5, <1>6, Zenon DEF Next

\* What a writer leaves in its channel it leaves because it was stopped.
LEMMA LeftBehindStep == Types /\ Control /\ LeftBehind /\ [Next]_vars => LeftBehind'
<1> SUFFICES ASSUME Types, Control, LeftBehind, [Next]_vars PROVE LeftBehind'
    BY Zenon
<1>1. CASE UNCHANGED <<spc, wpc, jobs, config, broken>> /\ (cancelled => cancelled')
    BY <1>1, Zenon DEF LeftBehind, mode
<1>2. CASE Cancel \/ Exited \/ UNCHANGED vars
    <2>1. UNCHANGED <<spc, wpc, jobs, config, broken>> /\ (~cancelled \/ UNCHANGED cancelled)
        BY <1>2, Zenon DEF Cancel, Exited, vars, main, writers
    <2> QED BY Zenon, <1>1, <2>1
<1>3. CASE RejectConfig \/ DialFails \/ Finish \/ PhaseEnds
    <2>1. UNCHANGED <<wpc, jobs, config, broken, cancelled>>
        BY <1>3, Zenon DEF RejectConfig, DialFails, Finish, PhaseEnds, writers
    <2>2. spc' # "start" /\ (spc' = "run" => spc = "run")
        BY <1>3, Zenon DEF RejectConfig, DialFails, Finish, PhaseEnds
    <2> QED BY <2>1, <2>2, Zenon DEF LeftBehind, mode
<1>4. CASE Dial
    <2>1. spc = "start" /\ UNCHANGED <<jobs, config>>
        BY <1>4, Zenon DEF Dial
    <2>2. \A c \in Conns : jobs'[c] = <<>>
        BY <2>1, Zenon DEF LeftBehind
    <2>3. spc' = "run" => \A c \in Conns : wpc'[c] # "done"
        <3>1. CASE UNCHANGED spc
            BY Zenon, <2>1, <3>1
        <3>2. CASE /\ spc' = IF mode = "fixed" THEN "run" ELSE "wait"
                   /\ wpc' = [c \in Conns |-> IF mode = "max" /\ AssignedOBUs(c) = {}
                                        THEN "done" ELSE "next"]
            BY Zenon, <3>2
        <3> QED BY <1>4, <3>1, <3>2, Zenon DEF Dial
    <2> QED BY <2>2, <2>3, Zenon DEF LeftBehind
<1>5. CASE Tick
    <2>1. spc = "run" /\ UNCHANGED <<spc, wpc, config, broken, cancelled>>
        BY <1>5, Zenon DEF Tick, main, writers
    <2>2. mode = "fixed"
        BY Zenon, <2>1 DEF Control
    <2> QED BY Zenon, <2>1, <2>2 DEF LeftBehind, mode
<1>6. ASSUME NEW c \in Conns, Writer(c) PROVE LeftBehind'
    <2>1. /\ UNCHANGED <<spc, config, cancelled>> /\ spc \in {"run", "wait"} /\ wpc[c] # "done"
          /\ \A d \in Conns \ {c} : wpc'[d] = wpc[d]
        BY <1>6, WriterMoves, Zenon DEF main
    <2>2. broken \subseteq broken'
        BY <1>6, Zenon DEF Writer, TakeJob, WriterStops, MakeEvent, WorkerStops, WriteSucceeds,
          WriteFails,           CountWritten, AddSum, LoadXOR, CompareAndSwapXOR
    <2>3. \A d \in Conns \ {c} : jobs'[d] = jobs[d]
        <3>1. CASE TakeJob(c)
            BY Zenon, <3>1, TakenEvent DEF Types, QueueTypes
        <3>2. CASE ~TakeJob(c)
            <4>1. UNCHANGED jobs
                BY <1>6, <3>2, Zenon DEF Writer, WriterStops, MakeEvent, WorkerStops, WriteSucceeds,
          WriteFails,                         CountWritten, AddSum, LoadXOR, CompareAndSwapXOR
            <4> QED BY Zenon, <4>1
        <3> QED BY Zenon, <3>1, <3>2
    <2>4. mode = "max" => UNCHANGED jobs
        BY <1>6, Zenon DEF Writer, TakeJob, WriterStops, MakeEvent, WorkerStops, WriteSucceeds,
          WriteFails,           CountWritten, AddSum, LoadXOR, CompareAndSwapXOR
    <2>5. ASSUME wpc'[c] = "done", spc = "run" \/ jobs'[c] # <<>> PROVE cancelled' \/ c \in broken'
        <3>1. CASE WriterStops(c)
            BY <2>1, <2>5, <3>1, Zenon DEF WriterStops
        <3>2. CASE WorkerStops(c)
            BY <2>1, <3>2, Zenon DEF WorkerStops
        <3>3. ASSUME NEW sent \in BOOLEAN, WriteFails(c, sent) PROVE c \in broken'
            BY <3>3, Zenon DEF WriteFails
        <3>4. ASSUME NEW from, NEW to, Goto(c, from, to), to # "done" PROVE FALSE
            BY Zenon, <2>5, <3>4 DEF Goto, Types, WriterTypes
        <3>5. CASE \/ TakeJob(c) \/ MakeEvent(c) \/ WriteSucceeds(c)
                   \/ CountWritten(c) \/ AddSum(c) \/ LoadXOR(c) \/ CompareAndSwapXOR(c)
            <4>1. \E from, to : Goto(c, from, to) /\ to # "done"
                BY <3>5 DEF TakeJob, MakeEvent, WriteSucceeds, CountWritten, AddSum,
                            LoadXOR, CompareAndSwapXOR
            <4> QED BY Zenon, <4>1, <3>4
        <3> QED BY <1>6, <3>1, <3>2, <3>3, <3>5, Zenon DEF Writer
    <2>6. mode = "max" => \A d \in Conns : jobs'[d] = <<>>
        BY <2>4, Zenon DEF LeftBehind
    <2>7. \A d \in Conns : wpc'[d] = "done" /\ (spc' = "run" \/ jobs'[d] # <<>>) =>
              cancelled' \/ d \in broken'
        BY <2>1, <2>2, <2>3, <2>5, Zenon DEF LeftBehind
    <2> QED BY Zenon, <2>1, <2>6, <2>7 DEF LeftBehind, mode
<1> QED
    BY <1>2, <1>3, <1>4, <1>5, <1>6, Zenon DEF Next

-----------------------------------------------------------------------------
\* The order of events

\* The sequence numbers of a sequence of events; those that connection c has sent,
\* has in hand and has queued.
Seqs(s) == {s[i].seq : i \in DOMAIN s}

Sent(c) == Seqs(socket[c])
Queued(c) == Seqs(jobs[c])
Held(c) == IF wpc[c] \in HeldPlaces THEN {cur[c].seq} ELSE {}
Own(c) == Sent(c) \cup Held(c) \cup Queued(c)

\* The events of s belong to connection c and are in order.
Lined(s, c) ==
    /\ \A i \in DOMAIN s : ConnectionOf(s[i]) = c
    /\ \A i, j \in DOMAIN s : i < j => s[i].seq < s[j].seq

\* What a connection has sent comes before what it has in hand, and that before
\* what it has queued.
Ordered(c) ==
    /\ Lined(socket[c], c)
    /\ Lined(jobs[c], c)
    /\ wpc[c] \in HeldPlaces => ConnectionOf(cur[c]) = c
    /\ \A m \in Sent(c) \cup Held(c) : \A n \in Queued(c) : m < n
    /\ wpc[c] = "write" => \A m \in Sent(c) : m < cur[c].seq

Order == \A c \in Conns : Ordered(c)

\* No two connections have the same event, and none has one that is yet to be made.
Owned ==
    /\ \A c \in Conns : \A n \in Own(c) : n \in Nat /\ n <= sequence
    /\ \A c, d \in Conns : c # d => Own(c) \cap Own(d) = {}

\* At the start no connection has an event.
LEMMA InitOrder == Init => Order /\ Owned
<1> SUFFICES ASSUME Init PROVE Order /\ Owned
    BY Zenon
<1>1. \A c \in Conns : socket[c] = <<>> /\ jobs[c] = <<>> /\ wpc[c] = "done"
    BY Zenon DEF Init
<1>2. \A c \in Conns : Lined(socket[c], c) /\ Lined(jobs[c], c)
    BY <1>1 DEF Lined
<1>3. \A c \in Conns : Sent(c) = {} /\ Queued(c) = {} /\ Held(c) = {}
    BY <1>1 DEF Sent, Queued, Held, Seqs, HeldPlaces
<1> QED BY Zenon, <1>1, <1>2, <1>3 DEF Order, Ordered, Owned, Own, HeldPlaces

\* Appending an event adds its number.
LEMMA AppendSeqs ==
    ASSUME NEW s \in Seq(Event), NEW e \in Event
    PROVE  Seqs(Append(s, e)) = Seqs(s) \cup {e.seq}
<1>1. /\ DOMAIN Append(s, e) = DOMAIN s \cup {Len(s) + 1}
      /\ Append(s, e)[Len(s) + 1] = e
      /\ \A i \in DOMAIN s : Append(s, e)[i] = s[i]
    BY AppendFacts
<1> QED BY <1>1, Zenon DEF Seqs

\* Appending a later event of the connection keeps the sequence in order.
LEMMA AppendLined ==
    ASSUME NEW s \in Seq(Event), NEW e \in Event, NEW c, Lined(s, c), ConnectionOf(e) = c,
           \A n \in Seqs(s) : n < e.seq
    PROVE  Lined(Append(s, e), c)
<1> DEFINE t == Append(s, e)
<1>1. /\ DOMAIN t = DOMAIN s \cup {Len(s) + 1}
      /\ t[Len(s) + 1] = e /\ Len(s) \in Nat
      /\ \A i \in DOMAIN s : t[i] = s[i] /\ i <= Len(s) /\ i \in Nat
    BY AppendFacts
<1> HIDE DEF t
<1>2. \A i \in DOMAIN t : ConnectionOf(t[i]) = c
    BY <1>1, Zenon DEF Lined
<1>3. ASSUME NEW i \in DOMAIN t, NEW j \in DOMAIN t, i < j PROVE t[i].seq < t[j].seq
    <2>1. i \in DOMAIN s
        BY <1>1, <1>3
    <2>2. CASE j \in DOMAIN s
        BY <1>1, <1>3, <2>1, <2>2, Zenon DEF Lined
    <2>3. CASE j = Len(s) + 1
        BY <1>1, <2>1, <2>3, Zenon DEF Seqs
    <2> QED BY Zenon, <1>1, <2>2, <2>3
<1> QED BY Zenon, <1>2, <1>3 DEF Lined, t

\* The first event comes before the others, which stay in order.
LEMMA TailSeqs ==
    ASSUME NEW s \in Seq(Event), s # <<>>, NEW c, Lined(s, c)
    PROVE  /\ Seqs(s) = {Head(s).seq} \cup Seqs(Tail(s))
           /\ \A n \in Seqs(Tail(s)) : Head(s).seq < n
           /\ Lined(Tail(s), c) /\ ConnectionOf(Head(s)) = c
<1> DEFINE t == Tail(s)
<1>1. /\ Head(s) = s[1] /\ 1 \in DOMAIN s
      /\ \A i \in DOMAIN t : i + 1 \in DOMAIN s /\ 1 < i + 1 /\ i \in Nat /\ t[i] = s[i + 1]
    BY Zenon, TailFacts
<1>2. \A j \in DOMAIN s \ {1} : j - 1 \in DOMAIN t /\ (j - 1) + 1 = j
    <2>1. DOMAIN s = 1 .. Len(s) /\ DOMAIN t = 1 .. (Len(s) - 1) /\ Len(s) \in Nat
        OBVIOUS
    <2> HIDE DEF t
    <2> QED BY <2>1
<1> HIDE DEF t
<1>3. Seqs(s) \subseteq {Head(s).seq} \cup Seqs(t)
    <2>1. ASSUME NEW j \in DOMAIN s, j # 1 PROVE s[j].seq \in Seqs(t)
        <3>1. j - 1 \in DOMAIN t /\ t[j - 1] = s[j]
            BY Zenon, <1>1, <1>2, <2>1
        <3> QED BY <3>1, Zenon DEF Seqs
    <2> QED BY <1>1, <2>1, Zenon DEF Seqs
<1>4. {Head(s).seq} \cup Seqs(t) \subseteq Seqs(s)
    BY <1>1, ZenonT(40) DEF Seqs
<1>5. \A n \in Seqs(t) : Head(s).seq < n
    BY <1>1, Zenon DEF Seqs, Lined
<1>6. \A i, j \in DOMAIN t : i < j => i + 1 < j + 1
    BY <1>1
<1>7. Lined(t, c)
    BY <1>1, <1>6, Zenon DEF Lined
<1> QED BY <1>1, <1>3, <1>4, <1>5, <1>7, Zenon DEF t, Lined

\* Priming goes inside.
LEMMA SeqsPrime ==
    ASSUME NEW c
    PROVE  Sent(c)' = Seqs(socket'[c]) /\ Queued(c)' = Seqs(jobs'[c])
BY Zenon DEF Sent, Queued, Seqs

\* What connection c sent, holds and queued depends on its own variables only.
LEMMA SameOwn ==
    ASSUME NEW c \in Conns, Ordered(c), socket'[c] = socket[c], jobs'[c] = jobs[c],
           cur'[c] = cur[c], wpc'[c] = "write" => wpc[c] = "write",
           wpc'[c] \in HeldPlaces => wpc[c] \in HeldPlaces
    PROVE  /\ Ordered(c)' /\ Own(c)' \subseteq Own(c)
<1>1. Sent(c)' = Sent(c) /\ Queued(c)' = Queued(c)
    BY Zenon DEF Sent, Queued, Seqs
<1>2. Held(c)' \subseteq Held(c)
    BY Zenon DEF Held
<1>3. Lined(socket[c], c)' /\ Lined(jobs[c], c)' /\ (wpc'[c] \in HeldPlaces => ConnectionOf(cur[c])' = c)
    BY Zenon DEF Ordered, Lined, ConnectionOf
<1> QED BY <1>1, <1>2, <1>3, Zenon DEF Ordered, Own

\* The event that a tick queues comes after everything its connection has.
LEMMA TickOrder ==
    ASSUME Types, Order, Owned, Tick
    PROVE  \E k \in Conns : /\ Ordered(k)' /\ Own(k)' \subseteq Own(k) \cup {sequence + 1}
                            /\ \A d \in Conns \ {k} : Ordered(d)' /\ Own(d)' \subseteq Own(d)
<1>1. PICK e \in Event : e = NextEvent
    BY Zenon, Ticked
<1>2. PICK k \in Conns : k = ConnectionOf(e)
    BY Zenon, <1>1, Ticked
<1>3. UNCHANGED <<socket, cur, wpc>>
    BY Zenon DEF Tick, writers
<1>4. e.seq = sequence + 1
    BY Zenon, <1>1, Ticked
<1>5. CASE UNCHANGED jobs
    BY <1>3, <1>5, SameOwn, Zenon DEF Order
<1>6. CASE jobs' = [jobs EXCEPT ![k] = Append(jobs[k], e)]
    <2>1. jobs'[k] = Append(jobs[k], e) /\ jobs[k] \in Seq(Event)
          /\ \A d \in Conns \ {k} : jobs'[d] = jobs[d]
        BY Zenon, <1>6 DEF Types, QueueTypes
    <2>2. \A d \in Conns \ {k} : Ordered(d)' /\ Own(d)' \subseteq Own(d)
        BY <1>3, <2>1, SameOwn, Zenon DEF Order
    <2>3. Queued(k)' = Queued(k) \cup {e.seq}
        BY <2>1, AppendSeqs, SeqsPrime, Zenon DEF Queued
    <2>4. Sent(k)' = Sent(k) /\ Held(k)' = Held(k)
        BY <1>3, Zenon DEF Sent, Held, Seqs
    <2>5. \A n \in Own(k) : n < e.seq
        BY <1>4 DEF Owned, Types, CounterTypes
    <2>6. \A n \in Seqs(jobs[k]) : n < e.seq
        BY <2>5, Zenon DEF Own, Queued
    <2>7. Lined(Append(jobs[k], e), k)
        BY <1>2, <2>1, <2>6, AppendLined, Zenon DEF Order, Ordered
    <2>8. Lined(jobs[k], k)'
        BY <2>1, <2>7, Zenon DEF Lined, ConnectionOf
    <2>9. Lined(socket[k], k)' /\ (wpc'[k] \in HeldPlaces => ConnectionOf(cur[k])' = k)
          /\ (wpc'[k] = "write" => \A m \in Sent(k)' : m < cur'[k].seq)
        BY <1>3, <2>4, ZenonT(40) DEF Order, Ordered, Lined, ConnectionOf
    <2>10. \A m \in Sent(k)' \cup Held(k)' : \A n \in Queued(k)' : m < n
        BY <2>3, <2>4, <2>5, Zenon DEF Order, Ordered, Own
    <2>11. Own(k)' \subseteq Own(k) \cup {sequence + 1}
        BY <1>4, <2>3, <2>4, Zenon DEF Own
    <2> QED BY <2>2, <2>8, <2>9, <2>10, <2>11, Zenon DEF Ordered
<1> QED BY <1>1, <1>2, <1>5, <1>6, Ticked, Zenon

\* The event a worker makes comes after everything its connection has sent.
LEMMA MakeOrder ==
    ASSUME Types, Control, LeftBehind, Order, Owned, NEW c \in Conns, MakeEvent(c)
    PROVE  /\ Ordered(c)' /\ Own(c)' \subseteq Own(c) \cup {sequence + 1}
           /\ \A d \in Conns \ {c} : Ordered(d)' /\ Own(d)' \subseteq Own(d)
<1>1. UNCHANGED <<socket, jobs>> /\ jobs[c] = <<>>
    BY Zenon DEF MakeEvent, LeftBehind
<1>2. /\ cur' = [cur EXCEPT ![c] = cur'[c]]
      /\ cur'[c].seq = sequence + 1 /\ ConnectionOf(cur'[c]) = c
    BY Zenon, MadeEvent
<1>3. Goto(c, "next", "write")
    BY Zenon DEF MakeEvent
<1>4. wpc'[c] = "write" /\ \A d \in Conns \ {c} : wpc'[d] = wpc[d]
    BY Zenon, <1>3, Moves DEF Places, HeldPlaces
<1>5. \A d \in Conns \ {c} : cur'[d] = cur[d]
    BY Zenon, <1>2 DEF Types, WriterTypes
<1>6. \A d \in Conns \ {c} : Ordered(d)' /\ Own(d)' \subseteq Own(d)
    BY <1>1, <1>4, <1>5, SameOwn, Zenon DEF Order
<1>7. Sent(c)' = Sent(c) /\ Queued(c)' = {}
    <2>1. Sent(c)' = Sent(c) /\ Queued(c)' = Queued(c)
        BY <1>1, Zenon DEF Sent, Queued, Seqs
    <2>2. Queued(c) = {}
        BY <1>1 DEF Queued, Seqs
    <2> QED BY Zenon, <2>1, <2>2
<1>8. Held(c)' = {sequence + 1}
    BY Zenon, <1>2, <1>4 DEF Held, HeldPlaces
<1>9. \A n \in Own(c) : n < sequence + 1
    BY DEF Owned, Types, CounterTypes
<1>10. ConnectionOf(cur[c])' = c
    BY <1>2, Zenon DEF ConnectionOf
<1>11. Lined(socket[c], c)' /\ Lined(jobs[c], c)'
    BY <1>1, Zenon DEF Order, Ordered, Lined, ConnectionOf
<1>12. \A m \in Sent(c)' : m < cur'[c].seq
    BY <1>2, <1>7, <1>9, Zenon DEF Own
<1> QED BY <1>6, <1>7, <1>8, <1>10, <1>11, <1>12, Zenon DEF Ordered, Own

\* Taking an event from the channel keeps the order.
LEMMA TakeOrder ==
    ASSUME Types, Order, NEW c \in Conns, TakeJob(c)
    PROVE  \A d \in Conns : Ordered(d)' /\ Own(d)' \subseteq Own(d)
<1>1. UNCHANGED socket /\ Goto(c, "next", "write")
    BY Zenon DEF TakeJob
<1>2. /\ jobs[c] \in Seq(Event) /\ jobs[c] # <<>>
      /\ cur' = [cur EXCEPT ![c] = cur'[c]]
      /\ cur'[c] = Head(jobs[c])
      /\ jobs' = [jobs EXCEPT ![c] = Tail(jobs[c])]
    BY Zenon, TakenEvent
<1>3. wpc[c] = "next" /\ wpc'[c] = "write" /\ \A d \in Conns \ {c} : wpc'[d] = wpc[d]
    BY Zenon, <1>1, Moves DEF Places, HeldPlaces
<1>4. jobs'[c] = Tail(jobs[c]) /\ \A d \in Conns \ {c} : jobs'[d] = jobs[d] /\ cur'[d] = cur[d]
    BY Zenon, <1>2 DEF Types, WriterTypes, QueueTypes
<1>5. \A d \in Conns \ {c} : Ordered(d)' /\ Own(d)' \subseteq Own(d)
    BY <1>1, <1>3, <1>4, SameOwn, Zenon DEF Order
<1>6. /\ Seqs(jobs[c]) = {Head(jobs[c]).seq} \cup Seqs(Tail(jobs[c]))
      /\ \A n \in Seqs(Tail(jobs[c])) : Head(jobs[c]).seq < n
      /\ Lined(Tail(jobs[c]), c) /\ ConnectionOf(Head(jobs[c])) = c
    BY <1>2, TailSeqs, Zenon DEF Order, Ordered
<1>7. /\ Sent(c)' = Sent(c) /\ Held(c)' = {cur'[c].seq}
      /\ Queued(c) = {cur'[c].seq} \cup Queued(c)'
    BY <1>1, <1>2, <1>3, <1>4, <1>6, SeqsPrime, Zenon DEF Sent, Held, Queued, HeldPlaces
<1>8. \A n \in Queued(c)' : cur'[c].seq < n
    BY <1>2, <1>4, <1>6, SeqsPrime, ZenonT(40)
<1>9. Lined(socket[c], c)' /\ Lined(jobs[c], c)' /\ ConnectionOf(cur[c])' = c
    BY <1>1, <1>2, <1>4, <1>6, Zenon DEF Order, Ordered, Lined, ConnectionOf
<1>10. \A m \in Sent(c)' : m < cur'[c].seq /\ \A n \in Queued(c)' : m < n
    BY <1>7, Zenon DEF Order, Ordered
<1>11. Own(c)' \subseteq Own(c)
    BY <1>7, Zenon DEF Own
<1>12. Ordered(c)'
    BY <1>7, <1>8, <1>9, <1>10, Zenon DEF Ordered
<1> QED BY <1>5, <1>11, <1>12, Zenon

\* So does writing it, whether or not the write is reported as done.
LEMMA WriteOrder ==
    ASSUME Types, Order, NEW c \in Conns, NEW to \in {"written", "done"}, Goto(c, "write", to),
           UNCHANGED <<jobs, cur>>,
           UNCHANGED socket \/ socket' = [socket EXCEPT ![c] = Append(socket[c], cur[c])]
    PROVE  \A d \in Conns : Ordered(d)' /\ Own(d)' \subseteq Own(d)
<1>1. wpc[c] = "write" /\ wpc'[c] = to /\ \A d \in Conns \ {c} : wpc'[d] = wpc[d]
    BY Zenon, Moves DEF Places, HeldPlaces
<1>2. CASE UNCHANGED socket
    BY Zenon, <1>1, <1>2, SameOwn DEF Order, HeldPlaces
<1>3. CASE socket' = [socket EXCEPT ![c] = Append(socket[c], cur[c])]
    <2>1. /\ socket[c] \in Seq(Event) /\ socket'[c] = Append(socket[c], cur[c])
          /\ \A d \in Conns \ {c} : socket'[d] = socket[d]
        BY Zenon, <1>3 DEF Types, QueueTypes
    <2>2. cur[c] \in Event
        BY Zenon, <1>1, HeldEvent DEF HeldPlaces
    <2>3. \A d \in Conns \ {c} : Ordered(d)' /\ Own(d)' \subseteq Own(d)
        BY <1>1, <2>1, SameOwn, Zenon DEF Order
    <2>4. Sent(c)' = Sent(c) \cup {cur[c].seq} /\ Queued(c)' = Queued(c)
        BY <2>1, <2>2, AppendSeqs, SeqsPrime, Zenon DEF Sent, Queued
    <2>5. Held(c) = {cur[c].seq} /\ Held(c)' \subseteq {cur[c].seq} /\ wpc'[c] # "write"
        BY <1>1, Zenon DEF Held, HeldPlaces
    <2>6. /\ ConnectionOf(cur[c]) = c /\ Lined(socket[c], c)
          /\ \A m \in Seqs(socket[c]) : m < cur[c].seq
        BY <1>1, Zenon DEF Order, Ordered, HeldPlaces, Sent
    <2>7. Lined(Append(socket[c], cur[c]), c)
        BY <2>1, <2>2, <2>6, AppendLined, Zenon
    <2>8. Lined(socket[c], c)' /\ Lined(jobs[c], c)' /\ ConnectionOf(cur[c])' = c
        BY <2>1, <2>6, <2>7, Zenon DEF Order, Ordered, Lined, ConnectionOf
    <2>9. \A m \in Sent(c)' \cup Held(c)' : \A n \in Queued(c)' : m < n
        BY <2>4, <2>5, Zenon DEF Order, Ordered
    <2>10. Own(c)' \subseteq Own(c)
        BY <2>4, <2>5, Zenon DEF Own
    <2>11. Ordered(c)'
        BY <2>5, <2>8, <2>9, Zenon DEF Ordered
    <2> QED BY <2>3, <2>10, <2>11, Zenon
<1> QED BY Zenon, <1>2, <1>3

\* A new sequence number is nobody's yet.
LEMMA OwnedNew ==
    ASSUME Types, Owned, NEW k \in Conns, sequence' = sequence + 1,
           Own(k)' \subseteq Own(k) \cup {sequence + 1},
           \A d \in Conns \ {k} : Own(d)' \subseteq Own(d)
    PROVE  Owned'
<1>1. sequence \in Nat
    BY Zenon DEF Types, CounterTypes
<1>2. \A c \in Conns : \A n \in Own(c) :
        n \in Nat /\ n <= sequence /\ n <= sequence + 1 /\ n # sequence + 1
    BY <1>1 DEF Owned
<1>3. sequence + 1 \in Nat /\ sequence + 1 <= sequence + 1
    BY <1>1
<1>4. \A c \in Conns : \A n \in Own(c)' : n \in Nat /\ n <= sequence'
    <2> SUFFICES ASSUME NEW c \in Conns, NEW n \in Own(c)' PROVE n \in Nat /\ n <= sequence'
        BY Zenon
    <2>1. n \in Own(c) \/ n = sequence + 1
        BY Zenon
    <2>2. n \in Nat /\ n <= sequence + 1
        BY <1>2, <1>3, <2>1, Zenon
    <2> QED BY <2>2, Zenon
<1>5. \A c, d \in Conns : c # d => Own(c)' \cap Own(d)' = {}
    <2> SUFFICES ASSUME NEW c \in Conns, NEW d \in Conns, c # d,
                        NEW n \in Own(c)', n \in Own(d)' PROVE FALSE
        BY Zenon
    <2>1. Own(c) \cap Own(d) = {}
        BY Zenon DEF Owned
    <2>2. CASE n = sequence + 1
        BY <1>2, <2>2, Zenon
    <2>3. CASE n # sequence + 1
        BY <2>1, <2>3, Zenon
    <2> QED BY Zenon, <2>2, <2>3
<1> QED BY <1>4, <1>5, Zenon DEF Owned

\* A step that makes no event gives nobody an event of another.
LEMMA OwnedSame ==
    ASSUME Owned, sequence' = sequence, \A d \in Conns : Own(d)' \subseteq Own(d)
    PROVE  Owned'
<1>1. \A c \in Conns : \A n \in Own(c)' : n \in Nat /\ n <= sequence'
    BY Zenon DEF Owned
<1>2. \A c, d \in Conns : c # d => Own(c)' \cap Own(d)' = {}
    BY Zenon DEF Owned
<1> QED BY <1>1, <1>2, Zenon DEF Owned

\* Every step keeps the events of a connection in order and apart from others.
LEMMA OrderStep ==
    Types /\ Control /\ LeftBehind /\ Order /\ Owned /\ [Next]_vars => Order' /\ Owned'
<1> SUFFICES ASSUME Types, Control, LeftBehind, Order, Owned, [Next]_vars
             PROVE  Order' /\ Owned'
    BY Zenon
<1>1. ASSUME sequence' = sequence, \A d \in Conns : Ordered(d)' /\ Own(d)' \subseteq Own(d)
      PROVE  Order' /\ Owned'
    BY <1>1, OwnedSame, Zenon DEF Order
<1>2. ASSUME UNCHANGED <<sequence, socket, jobs, cur>>,
             \A d \in Conns : /\ wpc'[d] = "write" => wpc[d] = "write"
                              /\ wpc'[d] \in HeldPlaces => wpc[d] \in HeldPlaces
      PROVE  Order' /\ Owned'
    <2>1. \A d \in Conns : Ordered(d)' /\ Own(d)' \subseteq Own(d)
        BY <1>2, SameOwn, Zenon DEF Order
    <2> QED BY Zenon, <1>1, <1>2, <2>1
<1>3. CASE Tick
    <2>1. sequence' = sequence + 1
        BY Zenon, <1>3, Ticked
    <2> QED BY <1>3, <2>1, TickOrder, OwnedNew, Zenon DEF Order
<1>4. ASSUME NEW c \in Conns, MakeEvent(c) PROVE Order' /\ Owned'
    <2>1. sequence' = sequence + 1
        BY <1>4, Zenon DEF MakeEvent
    <2> QED BY <1>4, <2>1, MakeOrder, OwnedNew, Zenon DEF Order
<1>5. ASSUME NEW c \in Conns, TakeJob(c) PROVE Order' /\ Owned'
    <2>1. sequence' = sequence
        BY <1>5, Zenon DEF TakeJob
    <2> QED BY <1>1, <1>5, <2>1, TakeOrder, Zenon
<1>6. ASSUME NEW c \in Conns, NEW sent \in BOOLEAN, WriteSucceeds(c) \/ WriteFails(c, sent)
      PROVE  Order' /\ Owned'
    <2>1. UNCHANGED sequence /\ UNCHANGED <<jobs, cur>>
          /\ (UNCHANGED socket \/ socket' = [socket EXCEPT ![c] = Append(socket[c], cur[c])])
        BY <1>6, Zenon DEF WriteSucceeds, WriteFails
    <2>2. Goto(c, "write", "written") \/ Goto(c, "write", "done")
        BY <1>6, Zenon DEF WriteSucceeds, WriteFails
    <2>3. \A d \in Conns : Ordered(d)' /\ Own(d)' \subseteq Own(d)
        BY Zenon, <2>1, <2>2, WriteOrder
    <2> QED BY <1>1, <2>1, <2>3, Zenon
<1>7. ASSUME NEW c \in Conns,
             WriterStops(c) \/ WorkerStops(c) \/ CountWritten(c) \/ AddSum(c) \/ LoadXOR(c)
               \/ CompareAndSwapXOR(c)
      PROVE  Order' /\ Owned'
    <2>1. UNCHANGED <<sequence, socket, jobs, cur>>
        BY <1>7, Zenon DEF WriterStops, WorkerStops, CountWritten, AddSum, LoadXOR, CompareAndSwapXOR
    <2>2. \E from, to \in Places : /\ Goto(c, from, to) /\ to # "write"
                                   /\ to \in HeldPlaces => from \in HeldPlaces
        BY <1>7 DEF WriterStops, WorkerStops, CountWritten, AddSum, LoadXOR, CompareAndSwapXOR,
                    Places, HeldPlaces
    <2>3. \A d \in Conns : /\ wpc'[d] = "write" => wpc[d] = "write"
                           /\ wpc'[d] \in HeldPlaces => wpc[d] \in HeldPlaces
        BY <2>2, Moves, Zenon
    <2> QED BY Zenon, <1>2, <2>1, <2>3
<1>8. CASE Dial
    <2>1. UNCHANGED <<sequence, socket, jobs, cur>>
        BY <1>8, Zenon DEF Dial
    <2>2. CASE UNCHANGED wpc
        BY Zenon, <1>2, <2>1, <2>2
    <2>3. CASE wpc' = [c \in Conns |-> IF mode = "max" /\ AssignedOBUs(c) = {}
                                        THEN "done" ELSE "next"]
        <3>1. \A d \in Conns : wpc'[d] \notin HeldPlaces /\ wpc'[d] # "write"
            BY Zenon, <2>3 DEF HeldPlaces
        <3> QED BY <1>2, <2>1, <3>1, Zenon
    <2> QED BY <1>8, <2>2, <2>3, Zenon DEF Dial
<1>9. CASE Cancel \/ RejectConfig \/ DialFails \/ PhaseEnds \/ Finish \/ Exited \/ UNCHANGED vars
    <2>1. UNCHANGED <<sequence, socket, jobs, cur, wpc>>
        BY <1>9, Zenon DEF Cancel, RejectConfig, DialFails, PhaseEnds, Finish, Exited,
                           vars, writers
    <2> QED BY Zenon, <1>2, <2>1
<1> QED
    BY <1>3, <1>4, <1>5, <1>6, <1>7, <1>8, <1>9, Zenon DEF Next, Writer

\* The events whose write succeeded have been sent, and one that is still in hand
\* after its write is among them.
AcceptedSent ==
    /\ \A n \in accepted : \E c \in Conns : n \in Sent(c)
    /\ \A c \in Conns : wpc[c] \in HeldPlaces \ {"write"} => cur[c].seq \in accepted

\* Every step keeps the written events among those sent.
LEMMA AcceptedStep == Types /\ Control /\ AcceptedSent /\ [Next]_vars => AcceptedSent'
<1> SUFFICES ASSUME Types, Control, AcceptedSent, [Next]_vars PROVE AcceptedSent'
    BY Zenon
<1>1. ASSUME UNCHANGED <<accepted, cur>>, \A d \in Conns : Sent(d) \subseteq Sent(d)',
             \A d \in Conns : wpc'[d] \in HeldPlaces \ {"write"} => wpc[d] \in HeldPlaces \ {"write"}
      PROVE  AcceptedSent'
    BY <1>1, Zenon DEF AcceptedSent
<1>2. ASSUME UNCHANGED socket PROVE \A d \in Conns : Sent(d) \subseteq Sent(d)'
    BY <1>2, Zenon DEF Sent, Seqs
<1>3. ASSUME NEW c \in Conns, cur[c] \in Event,
             socket' = [socket EXCEPT ![c] = Append(socket[c], cur[c])]
      PROVE  cur[c].seq \in Sent(c)' /\ \A d \in Conns : Sent(d) \subseteq Sent(d)'
    <2>1. /\ socket[c] \in Seq(Event) /\ socket'[c] = Append(socket[c], cur[c])
          /\ \A d \in Conns \ {c} : socket'[d] = socket[d]
        BY Zenon, <1>3 DEF Types, QueueTypes
    <2>2. Sent(c)' = Sent(c) \cup {cur[c].seq}
        BY <1>3, <2>1, AppendSeqs, SeqsPrime, Zenon DEF Sent
    <2>3. \A d \in Conns \ {c} : Sent(d)' = Sent(d)
        BY <2>1, SeqsPrime, Zenon DEF Sent
    <2> QED BY <2>2, <2>3, Zenon
<1>4. ASSUME NEW c \in Conns, WriteSucceeds(c) PROVE AcceptedSent'
    <2>1. /\ socket' = [socket EXCEPT ![c] = Append(socket[c], cur[c])] /\ UNCHANGED cur
          /\ accepted' = accepted \cup {cur[c].seq} /\ Goto(c, "write", "written")
        BY <1>4, Zenon DEF WriteSucceeds
    <2>2. \A d \in Conns \ {c} : wpc'[d] = wpc[d]
        BY Zenon, <2>1, Moves DEF Places, HeldPlaces
    <2>3. cur[c] \in Event
        BY Zenon, <2>1, HeldEvent DEF Goto, HeldPlaces
    <2>4. cur[c].seq \in Sent(c)' /\ \A d \in Conns : Sent(d) \subseteq Sent(d)'
        BY Zenon, <1>3, <2>1, <2>3
    <2> QED BY <2>1, <2>2, <2>4, Zenon DEF AcceptedSent
<1>5. ASSUME NEW c \in Conns, NEW sent \in BOOLEAN, WriteFails(c, sent) PROVE AcceptedSent'
    <2>1. /\ UNCHANGED socket \/ socket' = [socket EXCEPT ![c] = Append(socket[c], cur[c])]
          /\ UNCHANGED <<cur, accepted>> /\ Goto(c, "write", "done")
        BY <1>5, Zenon DEF WriteFails
    <2>2. wpc'[c] = "done" /\ \A d \in Conns \ {c} : wpc'[d] = wpc[d]
        BY Zenon, <2>1, Moves DEF Places, HeldPlaces
    <2>3. cur[c] \in Event
        BY Zenon, <2>1, HeldEvent DEF Goto, HeldPlaces
    <2>4. \A d \in Conns : Sent(d) \subseteq Sent(d)'
        BY Zenon, <1>2, <1>3, <2>1, <2>3
    <2> QED BY Zenon, <1>1, <2>1, <2>2, <2>4 DEF HeldPlaces
<1>6. ASSUME NEW c \in Conns, TakeJob(c) \/ MakeEvent(c) PROVE AcceptedSent'
    <2>1. UNCHANGED <<socket, accepted>> /\ Goto(c, "next", "write")
        BY <1>6, Zenon DEF TakeJob, MakeEvent
    <2>2. wpc'[c] = "write" /\ \A d \in Conns \ {c} : wpc'[d] = wpc[d]
        BY Zenon, <2>1, Moves DEF Places, HeldPlaces
    <2>3. cur' = [cur EXCEPT ![c] = cur'[c]]
        BY Zenon, <1>6, TakenEvent, MadeEvent
    <2>4. \A d \in Conns \ {c} : cur'[d] = cur[d]
        BY Zenon, <2>3 DEF Types, WriterTypes
    <2> QED BY <1>2, <2>1, <2>2, <2>4, Zenon DEF AcceptedSent
<1>7. ASSUME NEW c \in Conns,
             WriterStops(c) \/ WorkerStops(c) \/ CountWritten(c) \/ AddSum(c) \/ LoadXOR(c)
               \/ CompareAndSwapXOR(c)
      PROVE  AcceptedSent'
    <2>1. UNCHANGED <<accepted, cur>> /\ UNCHANGED socket
        BY <1>7, Zenon DEF WriterStops, WorkerStops, CountWritten, AddSum, LoadXOR, CompareAndSwapXOR
    <2>2. \E from, to \in Places : /\ Goto(c, from, to) /\ from # "write"
                                   /\ to \in HeldPlaces => from \in HeldPlaces
        BY <1>7 DEF WriterStops, WorkerStops, CountWritten, AddSum, LoadXOR, CompareAndSwapXOR,
                    Places, HeldPlaces
    <2>3. \A d \in Conns : wpc'[d] \in HeldPlaces \ {"write"} => wpc[d] \in HeldPlaces \ {"write"}
        BY <2>2, Moves, Zenon
    <2> QED BY Zenon, <1>1, <1>2, <2>1, <2>3
<1>8. CASE Dial
    <2>1. UNCHANGED <<accepted, cur>> /\ UNCHANGED socket
        BY <1>8, Zenon DEF Dial
    <2>2. CASE UNCHANGED wpc
        BY <1>1, <1>2, <2>1, <2>2, Zenon
    <2>3. CASE wpc' = [c \in Conns |-> IF mode = "max" /\ AssignedOBUs(c) = {}
                                        THEN "done" ELSE "next"]
        <3>1. \A d \in Conns : wpc'[d] \notin HeldPlaces
            BY Zenon, <2>3 DEF HeldPlaces
        <3> QED BY <1>1, <1>2, <2>1, <3>1, Zenon
    <2> QED BY <1>8, <2>2, <2>3, Zenon DEF Dial
<1>9. CASE Cancel \/ RejectConfig \/ DialFails \/ Tick \/ PhaseEnds \/ Finish \/ Exited \/ UNCHANGED vars
    <2>1. UNCHANGED <<accepted, cur>> /\ UNCHANGED socket /\ UNCHANGED wpc
        BY <1>9, Zenon DEF Cancel, RejectConfig, DialFails, Tick, PhaseEnds, Finish, Exited,
                           vars, writers
    <2> QED BY <1>1, <1>2, <2>1, Zenon
<1> QED
    BY <1>4, <1>5, <1>6, <1>7, <1>8, <1>9, Zenon DEF Next, Writer

LoadInv == Types /\ Control /\ LeftBehind /\ Order /\ Owned /\ AcceptedSent

\* At the start every event is where it should be.
LEMMA LoadInit == Numbers /\ Init => LoadInv
<1>1. Init => AcceptedSent
    BY Zenon DEF Init, AcceptedSent, HeldPlaces
<1> QED BY Zenon, <1>1, InitTypes, InitControl, InitOrder DEF LoadInv

\* Every step leaves every event where it should be.
LEMMA LoadStep == LoadInv /\ [Next]_vars => LoadInv'
BY TypesStep, ControlStep, LeftBehindStep, OrderStep, AcceptedStep, Zenon DEF LoadInv

\* LoadInv has the types of all variables in it.
LEMMA TypesImply == LoadInv => TypeOK
<1> SUFFICES ASSUME LoadInv PROVE TypeOK
    BY Zenon
<1>1. {open, active} \subseteq 0 .. Connections
    BY LoadAssumption DEF LoadInv, Control
<1>2. /\ {sequence, attempted, written, failed} \subseteq Nat
      /\ hashSum \in 0 .. (2^HashBits - 1) /\ hashXOR \subseteq BitPositions
    BY Zenon DEF LoadInv, Types, CounterTypes
<1>3. \A c \in Conns :
        /\ jobs[c] \in Seq(Event) /\ Len(jobs[c]) <= Capacity
        /\ socket[c] \in Seq(Event)
    BY Zenon DEF LoadInv, Types, QueueTypes
<1>4. \A c \in Conns :
        /\ wpc[c] \in {"next", "write", "written", "sum", "load", "swap", "done"}
        /\ wpc[c] \in {"write", "written", "sum", "load", "swap"} => cur[c] \in Event
        /\ old[c] \subseteq BitPositions
    BY Zenon DEF LoadInv, Types, WriterTypes, Places, HeldPlaces
<1>5. /\ config \in Configs /\ phase \in 1 .. Phases /\ cancelled \in BOOLEAN /\ broken \subseteq Conns
      /\ accepted \subseteq EventIDs
    BY Zenon DEF LoadInv, Types, MainTypes, QueueTypes
<1>6. spc \in {"start", "failed", "run", "wait", "done"}
    BY Zenon DEF LoadInv, Control
<1> QED BY <1>1, <1>2, <1>3, <1>4, <1>5, <1>6, Zenon DEF TypeOK

\* Events on the sockets are in order, each on the connection of its OBU.
LEMMA OrderImplies == LoadInv => OBUsStayInOrder
<1> SUFFICES ASSUME LoadInv, NEW c \in Conns, NEW d \in Conns,
                    NEW i \in DOMAIN socket[c], NEW j \in DOMAIN socket[d],
                    socket[c][i].obu = socket[d][j].obu
             PROVE  c = d /\ (i < j => socket[c][i].seq < socket[d][j].seq)
    BY Zenon DEF OBUsStayInOrder
<1>1. Lined(socket[c], c) /\ Lined(socket[d], d)
    BY Zenon DEF LoadInv, Order, Ordered
<1>2. ConnectionOf(socket[c][i]) = c /\ ConnectionOf(socket[d][j]) = d
    BY Zenon, <1>1 DEF Lined
<1>3. c = d
    BY <1>2, Zenon DEF ConnectionOf
<1> QED BY <1>1, <1>3, Zenon DEF Lined

\* The gauge follows main.
LEMMA ControlImplies == LoadInv => ConnectionsReleased
BY Zenon DEF LoadInv, Control, ConnectionsReleased, Ended

-----------------------------------------------------------------------------
\* Events in hand

\* The connections whose writers are at one of the given places, and the events these
\* have in hand.
AtPlaces(P) == {c \in Conns : wpc[c] \in P}

Pending(P) == {cur[c].seq : c \in AtPlaces(P)}

\* How a move of one writer changes the writers at the places P.
LEMMA PlacesMove ==
    ASSUME Types, NEW c \in Conns, NEW from, NEW to \in Places, Goto(c, from, to), NEW P
    PROVE  /\ AtPlaces(P)' = IF to \in P THEN AtPlaces(P) \cup {c} ELSE AtPlaces(P) \ {c}
           /\ c \in AtPlaces(P) <=> from \in P
<1>1. wpc[c] = from /\ wpc'[c] = to /\ \A d \in Conns \ {c} : wpc'[d] = wpc[d]
    BY Zenon, Moves
<1>2. c \in AtPlaces(P) <=> from \in P
    BY <1>1, Zenon DEF AtPlaces
<1>3. AtPlaces(P)' = IF to \in P THEN AtPlaces(P) \cup {c} ELSE AtPlaces(P) \ {c}
    <2>1. AtPlaces(P)' = {d \in Conns : wpc'[d] \in P}
        BY Zenon DEF AtPlaces
    <2>2. CASE to \in P
        <3>1. {d \in Conns : wpc'[d] \in P} = {d \in Conns : wpc[d] \in P} \cup {c}
            BY <1>1, <2>2
        <3> QED BY <2>1, <2>2, <3>1, Zenon DEF AtPlaces
    <2>3. CASE to \notin P
        <3>1. {d \in Conns : wpc'[d] \in P} = {d \in Conns : wpc[d] \in P} \ {c}
            BY <1>1, <2>3
        <3> QED BY <2>1, <2>3, <3>1, Zenon DEF AtPlaces
    <2> QED BY Zenon, <2>2, <2>3
<1> QED BY Zenon, <1>2, <1>3

\* No two writers have the same event in hand.
LEMMA HeldApart ==
    ASSUME LoadInv, NEW c \in Conns, NEW d \in Conns, wpc[c] \in HeldPlaces,
           wpc[d] \in HeldPlaces, cur[c].seq = cur[d].seq
    PROVE  c = d
<1>1. cur[c].seq \in Own(c) /\ cur[d].seq \in Own(d)
    BY Zenon DEF Own, Held
<1> QED BY <1>1, Zenon DEF LoadInv, Owned

\* An event that is about to be written has not been written.
LEMMA NotYetAccepted ==
    ASSUME LoadInv, NEW c \in Conns, wpc[c] = "write"
    PROVE  cur[c].seq \notin accepted
<1> SUFFICES ASSUME cur[c].seq \in accepted PROVE FALSE
    BY Zenon
<1>1. PICK d \in Conns : cur[c].seq \in Sent(d)
    BY Zenon DEF LoadInv, AcceptedSent
<1>2. cur[c].seq \in Own(c) /\ cur[c].seq \in Own(d) /\ cur[c].seq \in Nat
    BY <1>1, Zenon DEF Own, Held, HeldPlaces, LoadInv, Owned
<1>3. c = d
    BY <1>2, Zenon DEF LoadInv, Owned
<1>4. cur[c].seq < cur[c].seq
    BY <1>1, <1>3, Zenon DEF LoadInv, Order, Ordered
<1> QED BY <1>2, <1>4

\* What a move of writer c changes of the events pending at places P.
LEMMA PendingMove ==
    ASSUME LoadInv, NEW c \in Conns, NEW from \in HeldPlaces, NEW to \in Places,
           Goto(c, from, to), UNCHANGED cur, NEW P \in SUBSET HeldPlaces
    PROVE  Pending(P)' = IF to \in P THEN Pending(P) \cup {cur[c].seq} ELSE Pending(P) \ {cur[c].seq}
<1>0. wpc[c] = from
    BY Zenon DEF Goto
<1>1. AtPlaces(P)' = IF to \in P THEN AtPlaces(P) \cup {c} ELSE AtPlaces(P) \ {c}
    BY PlacesMove, Zenon DEF LoadInv
<1>2. Pending(P)' = {cur[d].seq : d \in AtPlaces(P)'}
    BY Zenon DEF Pending
<1>3. CASE to \in P
    BY <1>1, <1>2, <1>3, Zenon DEF Pending
<1>4. CASE to \notin P
    <2>1. \A d \in AtPlaces(P) : cur[d].seq = cur[c].seq => d = c
        BY <1>0, HeldApart, Zenon DEF AtPlaces
    <2> QED BY <1>1, <1>2, <1>4, <2>1, Zenon DEF Pending
<1> QED BY Zenon, <1>3, <1>4

\* Steps of a writer that has nothing in hand do not touch them.
LEMMA PendingSame ==
    ASSUME NEW P \in SUBSET HeldPlaces,
           \A d \in Conns : /\ wpc'[d] \in P <=> wpc[d] \in P
                            /\ wpc[d] \in P => cur'[d] = cur[d]
    PROVE  AtPlaces(P)' = AtPlaces(P) /\ Pending(P)' = Pending(P)
<1>1. AtPlaces(P)' = AtPlaces(P)
    BY Zenon DEF AtPlaces
<1>2. \A d \in AtPlaces(P) : cur'[d] = cur[d]
    BY Zenon DEF AtPlaces
<1>3. Pending(P)' = {cur'[d].seq : d \in AtPlaces(P)'}
    BY Zenon DEF Pending
<1>4. {cur'[d].seq : d \in AtPlaces(P)} = {cur[d].seq : d \in AtPlaces(P)}
    BY <1>2, Zenon
<1> QED BY <1>1, <1>3, <1>4, Zenon DEF Pending

\* The pending events keep, or lose, the one that a writer moves on with.
LEMMA PendingKeeps ==
    ASSUME LoadInv, NEW c \in Conns, NEW from \in HeldPlaces \ {"write"}, NEW to \in Places,
           Goto(c, from, to), UNCHANGED <<cur, accepted>>, NEW P \in SUBSET HeldPlaces
    PROVE  /\ (from \in P <=> to \in P) => (accepted \ Pending(P))' = accepted \ Pending(P)
           /\ from \in P /\ to \notin P =>
                /\ (accepted \ Pending(P))' = (accepted \ Pending(P)) \cup {cur[c].seq}
                /\ cur[c].seq \in EventIDs \ (accepted \ Pending(P))
<1> DEFINE e == cur[c].seq
<1>1. Pending(P)' = IF to \in P THEN Pending(P) \cup {e} ELSE Pending(P) \ {e}
    BY PendingMove, Zenon
<1>2. wpc[c] = from
    BY Zenon DEF Goto
<1>3. e \in accepted /\ e \in EventIDs
    <2>1. e \in accepted
        BY <1>2, Zenon DEF LoadInv, AcceptedSent
    <2> QED BY Zenon, <2>1 DEF LoadInv, Types, QueueTypes
<1>4. from \in P => e \in Pending(P)
    BY <1>2, Zenon DEF Pending, AtPlaces
<1>5. from \notin P => e \notin Pending(P)
    <2> SUFFICES ASSUME from \notin P, NEW d \in AtPlaces(P), e = cur[d].seq PROVE FALSE
        BY Zenon DEF Pending
    <2>1. d \in Conns /\ wpc[d] \in P /\ wpc[d] \in HeldPlaces
        BY Zenon DEF AtPlaces
    <2>2. c = d
        BY <1>2, <2>1, HeldApart, Zenon
    <2> QED BY <1>2, <2>1, <2>2, Zenon
<1>6. ASSUME from \in P <=> to \in P PROVE Pending(P)' = Pending(P)
    <2>1. CASE to \in P
        BY <1>1, <1>4, <1>6, <2>1, Zenon
    <2>2. CASE to \notin P
        BY <1>1, <1>5, <1>6, <2>2, Zenon
    <2> QED BY Zenon, <2>1, <2>2
<1>7. ASSUME from \in P, to \notin P
      PROVE  /\ accepted \ (Pending(P)') = (accepted \ Pending(P)) \cup {e}
             /\ e \in EventIDs \ (accepted \ Pending(P))
    BY <1>1, <1>3, <1>4, <1>7, Zenon
<1> QED BY <1>6, <1>7, Zenon


-----------------------------------------------------------------------------
\* The OBUs of a worker, and what follows from LoadInv

\* Counting on from r by multiples of m keeps the remainder.
LEMMA RemainderOfSum ==
    ASSUME NEW m \in Nat \ {0}, NEW r \in 0 .. (m - 1), NEW q \in Nat
    PROVE  (r + q * m) % m = r
<1>1. (m * q + r) % m = r
    OBVIOUS
<1> QED BY <1>1

\* Worker c has as many OBUs as fit: the i-th, for i below their number, exists and
\* is one of its own.
LEMMA AssignedIsOwn ==
    ASSUME NEW c \in Conns, NEW i \in Nat, i < Cardinality(AssignedOBUs(c))
    PROVE  /\ AssignedOBU(c, i) \in 1 .. OBUs
           /\ (AssignedOBU(c, i) - 1) % Connections = c - 1
<1> DEFINE N == Connections
           A == AssignedOBUs(c)
           f == [j \in 0 .. (i - 1) |-> c + j * N]
<1>1. N \in Nat \ {0} /\ OBUs \in Nat \ {0} /\ c \in 1 .. N
    BY Zenon, LoadAssumption DEF Conns
<1>2. i * N \in Nat
    BY <1>1
<1>3. c + i * N <= OBUs
    <2> SUFFICES ASSUME c + i * N > OBUs PROVE FALSE
        BY <1>1, <1>2
    <2>1. ASSUME NEW o \in A PROVE \E j \in 0 .. (i - 1) : o = f[j]
        <3> DEFINE q == (o - 1) \div N
        <3>1. o \in 1 .. OBUs /\ (o - 1) % N = c - 1
            BY Zenon DEF AssignedOBUs
        <3>2. q \in Nat /\ o - 1 = N * q + (c - 1)
            BY <3>1, <1>1
        <3> HIDE DEF q
        <3>3. q < i
            <4>1. N * q < N * i
                BY <3>1, <3>2, <1>1, <1>2
            <4>2. CASE q >= i
                <5>1. N * q >= N * i
                    BY <4>2, <3>2, <1>1
                <5> QED BY <4>1, <5>1, <3>2, <1>1
            <4> QED BY <4>2, <3>2
        <3>4. q \in 0 .. (i - 1) /\ f[q] = c + q * N
            BY <3>2, <3>3
        <3>5. o = c + q * N
            BY <3>1, <3>2, <1>1
        <3> QED BY <3>4, <3>5, Zenon
    <2>2. IsFiniteSet(0 .. (i - 1)) /\ Cardinality(0 .. (i - 1)) = i
        BY FS_Interval
    <2> DEFINE R == {f[j] : j \in 0 .. (i - 1)}
    <2>3. IsFiniteSet(R) /\ Cardinality(R) <= i
        <3>1. f \in Surjection(0 .. (i - 1), R)
            BY Zenon DEF Surjection
        <3> QED BY <2>2, <3>1, FS_Surjection
    <2>4. A \subseteq R
        BY Zenon, <2>1
    <2>5. Cardinality(A) <= Cardinality(R) /\ Cardinality(A) \in Nat /\ Cardinality(R) \in Nat
        BY Zenon, <2>3, <2>4, FS_Subset, FS_CardinalityType
    <2> QED BY <2>3, <2>5
<1>4. (c - 1 + i * N) % N = c - 1
    <2>1. c - 1 \in 0 .. (N - 1)
        BY <1>1
    <2> QED BY <1>1, <2>1, RemainderOfSum, Zenon
<1> QED BY <1>1, <1>2, <1>3, <1>4 DEF AssignedOBU

\* A worker has finitely many OBUs.
LEMMA AssignedFinite ==
    ASSUME NEW c \in Conns
    PROVE  /\ Cardinality(AssignedOBUs(c)) \in Nat
           /\ AssignedOBUs(c) # {} => Cardinality(AssignedOBUs(c)) > 0
<1>1. IsFiniteSet(1 .. OBUs)
    BY FS_Interval, LoadAssumption
<1>2. AssignedOBUs(c) \subseteq 1 .. OBUs
    BY Zenon DEF AssignedOBUs
<1>3. IsFiniteSet(AssignedOBUs(c))
    BY Zenon, <1>1, <1>2, FS_Subset
<1>4. Cardinality(AssignedOBUs(c)) \in Nat
    BY Zenon, <1>3, FS_CardinalityType
<1>5. AssignedOBUs(c) # {} => Cardinality(AssignedOBUs(c)) # 0
    BY Zenon, <1>3, FS_EmptySet
<1> QED BY <1>4, <1>5

\* The facts that LoadInv takes as given about the OBUs of a worker and about words.
LEMMA NumbersHold == Numbers
<1>1. 2^HashBits \in Nat \ {0}
    BY Zenon, PowerPositive, FingerprintAssumption
<1>2. \A c \in Conns : /\ Cardinality(AssignedOBUs(c)) \in Nat
                       /\ AssignedOBUs(c) # {} => Cardinality(AssignedOBUs(c)) > 0
    BY Zenon, AssignedFinite
<1>3. \A c \in Conns, i \in Nat : i < Cardinality(AssignedOBUs(c)) =>
         /\ AssignedOBU(c, i) \in 1 .. OBUs
         /\ (AssignedOBU(c, i) - 1) % Connections = c - 1
    BY AssignedIsOwn, Zenon
<1> QED BY <1>1, <1>2, <1>3, Zenon DEF Numbers

\* Every event is where it should be, in every reachable state.
THEOREM LoadInvariance == Spec => []LoadInv
BY NumbersHold, LoadInit, LoadStep, PTL DEF Spec

\* Every variable of the simulator has its type: no channel overflows, and every event
\* queued, written or sent has an OBU that is simulated.
THEOREM LoadTypeCorrect == Spec => []TypeOK
BY TypesImply, LoadInvariance, PTL

\* One OBU keeps using the same connection and its events go out on it in the order
\* in which they were made (runFixedRate, runMaximumThroughput).
THEOREM OBUsKeepTheirConnection == Spec => []OBUsStayInOrder
BY OrderImplies, LoadInvariance, PTL

\* obuActiveConnections is zero when the process ends, and shows all connections as
\* long as anything is written (dialConnections, closeConnections).
THEOREM ConnectionsAreReleased == Spec => []ConnectionsReleased
BY ControlImplies, LoadInvariance, PTL

-----------------------------------------------------------------------------
\* The counters of loadStats

\* recordSuccess in three steps: what is counted, and what has been added to the sum
\* and to the XOR, are the events written but for those on their way there.
Sums ==
    /\ written + Cardinality(AtPlaces({"written"})) = Cardinality(accepted)
    /\ hashSum = SumOf(accepted \ Pending({"written", "sum"}))
    /\ hashXOR = XorOf(accepted \ Pending({"written", "sum", "load", "swap"}))

Attempts == attempted = written + failed + Waiting + InHand

\* There are finitely many connections.
LEMMA ConnsFinite ==
    /\ IsFiniteSet(Conns)
    /\ \A P : IsFiniteSet(AtPlaces(P)) /\ Cardinality(AtPlaces(P)) \in Nat
    /\ \A P : Cardinality(AtPlaces(P)') \in Nat
<1>1. IsFiniteSet(Conns)
    BY FS_Interval, LoadAssumption DEF Conns
<1>2. \A P : AtPlaces(P) \subseteq Conns /\ AtPlaces(P)' \subseteq Conns
    BY Zenon DEF AtPlaces
<1> QED BY Zenon, <1>1, <1>2, FS_Subset, FS_CardinalityType

\* Finitely many events have been written.
LEMMA AcceptedFinite ==
    ASSUME LoadInv
    PROVE  IsFiniteSet(accepted) /\ accepted \subseteq EventIDs /\ Cardinality(accepted) \in Nat
<1>1. accepted \subseteq 0 .. sequence
    <2> SUFFICES ASSUME NEW n \in accepted PROVE n \in 0 .. sequence
        BY Zenon
    <2>1. PICK c \in Conns : n \in Sent(c)
        BY Zenon DEF LoadInv, AcceptedSent
    <2>2. n \in Nat /\ n <= sequence
        BY <2>1, Zenon DEF LoadInv, Owned, Own
    <2> QED BY <2>2 DEF LoadInv, Types, CounterTypes
<1>2. IsFiniteSet(0 .. sequence)
    BY FS_Interval DEF LoadInv, Types, CounterTypes
<1>3. IsFiniteSet(accepted)
    BY Zenon, <1>1, <1>2, FS_Subset
<1> QED BY Zenon, <1>3, FS_CardinalityType DEF LoadInv, Types, QueueTypes

\* How a move of one writer changes the number of writers at the places P.
LEMMA MoveCounts ==
    ASSUME Types, NEW c \in Conns, NEW from, NEW to \in Places, Goto(c, from, to), NEW P
    PROVE  Cardinality(AtPlaces(P)') = Cardinality(AtPlaces(P))
             + (IF to \in P THEN 1 ELSE 0) - (IF from \in P THEN 1 ELSE 0)
<1>1. /\ AtPlaces(P)' = IF to \in P THEN AtPlaces(P) \cup {c} ELSE AtPlaces(P) \ {c}
      /\ c \in AtPlaces(P) <=> from \in P
    BY PlacesMove, Zenon
<1>2. IsFiniteSet(AtPlaces(P)) /\ Cardinality(AtPlaces(P)) \in Nat
    BY Zenon, ConnsFinite
<1>3. PICK A : A = AtPlaces(P)
    BY Zenon
<1>4. Cardinality(A \cup {c}) = IF c \in A THEN Cardinality(A) ELSE Cardinality(A) + 1
    BY Zenon, <1>2, <1>3, FS_AddElement
<1>5. Cardinality(A \ {c}) = IF c \in A THEN Cardinality(A) - 1 ELSE Cardinality(A)
    BY Zenon, <1>2, <1>3, FS_RemoveElement
<1>6. CASE to \in P
    BY <1>1, <1>2, <1>3, <1>4, <1>6
<1>7. CASE to \notin P
    BY <1>1, <1>2, <1>3, <1>5, <1>7
<1> QED BY Zenon, <1>6, <1>7

\* A write that succeeds is in accepted at once, and pending in all three.
LEMMA SumsWrite ==
    ASSUME LoadInv, Sums, NEW c \in Conns, WriteSucceeds(c)
    PROVE  Sums'
<1>1. /\ Goto(c, "write", "written") /\ accepted' = accepted \cup {cur[c].seq}
      /\ UNCHANGED cur /\ UNCHANGED <<written, hashSum, hashXOR>>
    BY Zenon DEF WriteSucceeds, counters
<1>2. cur[c].seq \notin accepted
    BY <1>1, NotYetAccepted, Zenon DEF Goto
<1>3. IsFiniteSet(accepted) /\ Cardinality(accepted) \in Nat
    BY Zenon, AcceptedFinite
<1>4. Cardinality(accepted') = Cardinality(accepted) + 1
    BY Zenon, <1>1, <1>2, <1>3, FS_AddElement
<1>5. Cardinality(AtPlaces({"written"})') = Cardinality(AtPlaces({"written"})) + 1
    <2>1. "written" \in Places /\ "written" \in {"written"} /\ "write" \notin {"written"}
        BY Zenon DEF Places, HeldPlaces
    <2>2. /\ Cardinality(AtPlaces({"written"})') = Cardinality(AtPlaces({"written"}))
               + (IF "written" \in {"written"} THEN 1 ELSE 0)
               - (IF "write" \in {"written"} THEN 1 ELSE 0)
        BY <1>1, <2>1, MoveCounts, Zenon DEF LoadInv
    <2>3. Cardinality(AtPlaces({"written"})) \in Nat
        BY Zenon, ConnsFinite
    <2> QED BY <2>1, <2>2, <2>3
<1>6. ASSUME NEW P \in SUBSET HeldPlaces, "written" \in P
      PROVE  (accepted \ Pending(P))' = accepted \ Pending(P)
    <2>1. Pending(P)' = Pending(P) \cup {cur[c].seq}
        <3>1. "write" \in HeldPlaces /\ "written" \in Places
            BY Zenon DEF HeldPlaces, Places
        <3> QED BY <1>1, <1>6, <3>1, PendingMove, Zenon
    <2> QED BY <1>1, <1>2, <2>1, Zenon
<1>7. hashSum' = SumOf((accepted \ Pending({"written", "sum"}))')
    BY Zenon, <1>1, <1>6 DEF Sums, HeldPlaces
<1>8. hashXOR' = XorOf((accepted \ Pending({"written", "sum", "load", "swap"}))')
    BY Zenon, <1>1, <1>6 DEF Sums, HeldPlaces
<1>9. written' + Cardinality(AtPlaces({"written"})') = Cardinality(accepted')
    BY SMTT(20), <1>1, <1>3, <1>4, <1>5, ConnsFinite DEF Sums, LoadInv, Types, CounterTypes
<1> QED BY <1>7, <1>8, <1>9, Zenon DEF Sums

\* The number of writers about to count their event.
LEMMA CountMove ==
    ASSUME LoadInv, NEW c \in Conns, NEW from, NEW to \in Places \ {"written"},
           Goto(c, from, to)
    PROVE  Cardinality(AtPlaces({"written"})) = Cardinality(AtPlaces({"written"})')
             + (IF from = "written" THEN 1 ELSE 0)
<1>1. Cardinality(AtPlaces({"written"})') = Cardinality(AtPlaces({"written"}))
         + (IF to \in {"written"} THEN 1 ELSE 0) - (IF from \in {"written"} THEN 1 ELSE 0)
    BY MoveCounts, Zenon DEF LoadInv
<1>2. Cardinality(AtPlaces({"written"})) \in Nat
    BY Zenon, ConnsFinite
<1> QED BY <1>1, <1>2

\* The steps of recordSuccess, however they interleave with those of other writers.
LEMMA SumsRecord ==
    ASSUME LoadInv, Sums, NEW c \in Conns,
           CountWritten(c) \/ AddSum(c) \/ LoadXOR(c) \/ CompareAndSwapXOR(c)
    PROVE  Sums'
<1> DEFINE e == cur[c].seq
           U == {"written", "sum"}
           V == {"written", "sum", "load", "swap"}
<1>1. UNCHANGED <<cur, accepted>>
    BY Zenon DEF CountWritten, AddSum, LoadXOR, CompareAndSwapXOR
<1>2. U \in SUBSET HeldPlaces /\ V \in SUBSET HeldPlaces
    BY Zenon DEF HeldPlaces
<1>3. /\ written \in Nat /\ Cardinality(AtPlaces({"written"})) \in Nat
      /\ Cardinality(AtPlaces({"written"})') \in Nat
    <2>1. /\ Cardinality(AtPlaces({"written"})) \in Nat
          /\ Cardinality(AtPlaces({"written"})') \in Nat
        BY Zenon, ConnsFinite
    <2> QED BY Zenon, <2>1 DEF LoadInv, Types, CounterTypes
<1>4. IsFiniteSet(accepted \ Pending(U)) /\ accepted \ Pending(U) \in SUBSET EventIDs
      /\ IsFiniteSet(accepted \ Pending(V)) /\ accepted \ Pending(V) \in SUBSET EventIDs
    BY Zenon, AcceptedFinite, FS_Subset
<1>5. CASE CountWritten(c)
    <2>1. Goto(c, "written", "sum") /\ written' = written + 1 /\ UNCHANGED <<hashSum, hashXOR>>
        BY <1>5, Zenon DEF CountWritten
    <2>2. "written" \in HeldPlaces \ {"write"} /\ "sum" \in Places \ {"written"}
        BY Zenon DEF HeldPlaces, Places
    <2>3. /\ (accepted \ Pending(U))' = accepted \ Pending(U)
          /\ (accepted \ Pending(V))' = accepted \ Pending(V)
        BY <1>1, <1>2, <2>1, <2>2, PendingKeeps
    <2>4. Cardinality(AtPlaces({"written"})) = Cardinality(AtPlaces({"written"})') + 1
        BY Zenon, <2>1, <2>2, CountMove
    <2>5. written' + Cardinality(AtPlaces({"written"})') = Cardinality(accepted)
        BY <1>3, <2>1, <2>4 DEF Sums
    <2> QED BY <1>1, <2>1, <2>3, <2>5, Zenon DEF Sums
<1>6. ASSUME NEW from \in {"sum", "load", "swap"}, NEW to \in {"load", "swap", "next"},
             Goto(c, from, to), UNCHANGED written
      PROVE  written' + Cardinality(AtPlaces({"written"})') = Cardinality(accepted')
    <2>1. to \in Places \ {"written"} /\ from # "written"
        BY Zenon DEF HeldPlaces, Places
    <2>2. Cardinality(AtPlaces({"written"})) = Cardinality(AtPlaces({"written"})')
        BY <1>3, <1>6, <2>1, CountMove
    <2> QED BY <1>1, <1>6, <2>2, Zenon DEF Sums
<1>7. CASE AddSum(c)
    <2>1. Goto(c, "sum", "load") /\ UNCHANGED <<written, hashXOR>>
          /\ hashSum' = AddWord(hashSum, EventIDFingerprint[e])
        BY <1>7, Zenon DEF AddSum
    <2>2. "sum" \in HeldPlaces \ {"write"} /\ "load" \in Places
        BY Zenon DEF HeldPlaces, Places
    <2>3. /\ (accepted \ Pending(U))' = (accepted \ Pending(U)) \cup {e}
          /\ e \in EventIDs \ (accepted \ Pending(U))
          /\ (accepted \ Pending(V))' = accepted \ Pending(V)
        BY <1>1, <1>2, <2>1, <2>2, PendingKeeps
    <2>4. hashSum' = SumOf((accepted \ Pending(U))')
        BY <1>4, <2>1, <2>3, SumOfAdd, Zenon DEF Sums
    <2>5. written' + Cardinality(AtPlaces({"written"})') = Cardinality(accepted')
        BY Zenon, <1>6, <2>1
    <2> QED BY <1>1, <2>1, <2>3, <2>4, <2>5, Zenon DEF Sums
<1>8. CASE LoadXOR(c)
    <2>1. Goto(c, "load", "swap") /\ UNCHANGED <<written, hashSum, hashXOR>>
        BY <1>8, Zenon DEF LoadXOR, counters
    <2>2. "load" \in HeldPlaces \ {"write"} /\ "swap" \in Places
        BY Zenon DEF HeldPlaces, Places
    <2>3. /\ (accepted \ Pending(U))' = accepted \ Pending(U)
          /\ (accepted \ Pending(V))' = accepted \ Pending(V)
        BY <1>1, <1>2, <2>1, <2>2, PendingKeeps
    <2>4. written' + Cardinality(AtPlaces({"written"})') = Cardinality(accepted')
        BY Zenon, <1>6, <2>1
    <2> QED BY <1>1, <2>1, <2>3, <2>4, Zenon DEF Sums
<1>9. CASE CompareAndSwapXOR(c)
    <2>1. UNCHANGED <<written, hashSum>>
        BY <1>9, Zenon DEF CompareAndSwapXOR
    <2>2. "swap" \in HeldPlaces \ {"write"} /\ "next" \in Places /\ "load" \in Places
        BY Zenon DEF HeldPlaces, Places
    <2>3. CASE hashXOR = old[c]
        <3>1. Goto(c, "swap", "next") /\ hashXOR' = Xor(hashXOR, Bits(EventIDFingerprint[e]))
            BY <1>9, <2>3, Zenon DEF CompareAndSwapXOR
        <3>2. /\ (accepted \ Pending(V))' = (accepted \ Pending(V)) \cup {e}
              /\ e \in EventIDs \ (accepted \ Pending(V))
              /\ (accepted \ Pending(U))' = accepted \ Pending(U)
            BY SMTT(20), <1>1, <1>2, <2>2, <3>1, PendingKeeps
        <3>3. hashXOR' = XorOf((accepted \ Pending(V))')
            BY <1>4, <3>1, <3>2, XorOfAdd, Zenon DEF Sums
        <3>4. written' + Cardinality(AtPlaces({"written"})') = Cardinality(accepted')
            BY Zenon, <1>6, <2>1, <3>1
        <3> QED BY <1>1, <2>1, <3>2, <3>3, <3>4, Zenon DEF Sums
    <2>4. CASE hashXOR # old[c]
        <3>1. Goto(c, "swap", "load") /\ hashXOR' = hashXOR
            BY <1>9, <2>4, Zenon DEF CompareAndSwapXOR
        <3>2. /\ (accepted \ Pending(U))' = accepted \ Pending(U)
              /\ (accepted \ Pending(V))' = accepted \ Pending(V)
            BY <1>1, <1>2, <2>2, <3>1, PendingKeeps
        <3>3. written' + Cardinality(AtPlaces({"written"})') = Cardinality(accepted')
            BY Zenon, <1>6, <2>1, <3>1
        <3> QED BY <1>1, <2>1, <3>1, <3>2, <3>3, Zenon DEF Sums
    <2> QED BY Zenon, <2>3, <2>4
<1> QED BY Zenon, <1>5, <1>7, <1>8, <1>9

\* The other steps touch no event after its write.
LEMMA SumsQuiet ==
    ASSUME LoadInv, Sums, UNCHANGED <<written, hashSum, hashXOR, accepted>>,
           \A d \in Conns : /\ wpc'[d] \in HeldPlaces \ {"write"} => wpc'[d] = wpc[d]
                            /\ wpc[d] \in HeldPlaces \ {"write"} => wpc'[d] = wpc[d] /\ cur'[d] = cur[d]
    PROVE  Sums'
<1>1. ASSUME NEW P \in SUBSET (HeldPlaces \ {"write"})
      PROVE  AtPlaces(P)' = AtPlaces(P) /\ Pending(P)' = Pending(P)
    BY PendingSame, Zenon
<1>2. /\ {"written"} \in SUBSET (HeldPlaces \ {"write"})
      /\ {"written", "sum"} \in SUBSET (HeldPlaces \ {"write"})
      /\ {"written", "sum", "load", "swap"} \in SUBSET (HeldPlaces \ {"write"})
    BY Zenon DEF HeldPlaces
<1> QED BY <1>1, <1>2, Zenon DEF Sums

\* Every step keeps the counters and the fingerprint in step with the writes.
LEMMA SumsStep == LoadInv /\ Sums /\ [Next]_vars => Sums'
<1> SUFFICES ASSUME LoadInv, Sums, [Next]_vars PROVE Sums'
    BY Zenon
<1>1. ASSUME NEW c \in Conns, TakeJob(c) \/ MakeEvent(c) PROVE Sums'
    <2>1. UNCHANGED <<written, hashSum, hashXOR, accepted>> /\ Goto(c, "next", "write")
        BY <1>1, Zenon DEF TakeJob, MakeEvent, counters
    <2>2. wpc[c] = "next" /\ wpc'[c] = "write" /\ \A d \in Conns \ {c} : wpc'[d] = wpc[d]
        BY Zenon, <2>1, Moves DEF Places, HeldPlaces, LoadInv
    <2>3. cur' = [cur EXCEPT ![c] = cur'[c]]
        BY Zenon, <1>1, TakenEvent, MadeEvent DEF LoadInv
    <2>4. \A d \in Conns \ {c} : cur'[d] = cur[d]
        BY Zenon, <2>3 DEF LoadInv, Types, WriterTypes
    <2>5. "next" \notin HeldPlaces
        BY Zenon DEF HeldPlaces
    <2> QED BY <2>1, <2>2, <2>4, <2>5, SumsQuiet, Zenon
<1>2. ASSUME NEW c \in Conns, NEW sent \in BOOLEAN,
             WriterStops(c) \/ WorkerStops(c) \/ WriteFails(c, sent)
      PROVE  Sums'
    <2>1. UNCHANGED <<written, hashSum, hashXOR, accepted>> /\ UNCHANGED cur
          /\ (Goto(c, "next", "done") \/ Goto(c, "write", "done"))
        BY <1>2, Zenon DEF WriterStops, WorkerStops, WriteFails, counters
    <2>2. wpc[c] \in {"next", "write"} /\ wpc'[c] = "done" /\ \A d \in Conns \ {c} : wpc'[d] = wpc[d]
        BY Zenon, <2>1, Moves DEF Places, HeldPlaces, LoadInv
    <2>3. wpc[c] \notin HeldPlaces \ {"write"} /\ wpc'[c] \notin HeldPlaces
        BY Zenon, <2>2 DEF HeldPlaces
    <2> QED BY <2>1, <2>2, <2>3, SumsQuiet, Zenon
<1>3. CASE Dial
    <2>1. UNCHANGED <<written, hashSum, hashXOR, accepted>> /\ UNCHANGED cur /\ spc = "start"
        BY <1>3, Zenon DEF Dial, counters
    <2>2. \A d \in Conns : wpc[d] = "done"
        BY Zenon, <2>1 DEF LoadInv, Control
    <2>3. CASE UNCHANGED wpc
        BY <2>1, <2>3, SumsQuiet, Zenon
    <2>4. CASE wpc' = [c \in Conns |-> IF mode = "max" /\ AssignedOBUs(c) = {}
                                        THEN "done" ELSE "next"]
        <3>1. \A d \in Conns : wpc'[d] \notin HeldPlaces /\ wpc[d] \notin HeldPlaces
            BY Zenon, <2>2, <2>4 DEF HeldPlaces
        <3> QED BY <2>1, <3>1, SumsQuiet, Zenon
    <2> QED BY <1>3, <2>3, <2>4, Zenon DEF Dial
<1>4. CASE Cancel \/ RejectConfig \/ DialFails \/ Tick \/ PhaseEnds \/ Finish \/ Exited \/ UNCHANGED vars
    <2>1. UNCHANGED <<written, hashSum, hashXOR, accepted>> /\ UNCHANGED cur /\ UNCHANGED wpc
        BY <1>4, Zenon DEF Cancel, RejectConfig, DialFails, Tick, PhaseEnds, Finish, Exited, vars,
                           writers, counters
    <2> QED BY <2>1, SumsQuiet, Zenon
<1> QED
    BY <1>1, <1>2, <1>3, <1>4, SumsWrite, SumsRecord, Zenon DEF Next, Writer

Lengths == [c \in Conns |-> Len(jobs[c])]

\* A channel that changes changes the number of waiting events by as much.
LEMMA WaitingMove ==
    ASSUME Types, NEW c \in Conns, NEW s \in Seq(Event), jobs' = [jobs EXCEPT ![c] = s]
    PROVE  Waiting' + Len(jobs[c]) = Waiting + Len(s) /\ Waiting \in Nat /\ Waiting' \in Nat
<1> DEFINE v == Lengths
           w == [d \in Conns |-> Len(jobs'[d])]
           R == Conns \ {c}
<1>1. Waiting = SumOver(v, Conns) /\ Waiting' = SumOver(w, Conns)
    BY Zenon DEF Waiting, Lengths, SumOver, MapThenSumSet, MapThenFoldSet
<1>2. /\ \A d \in Conns : v[d] \in Nat /\ w[d] \in Nat
      /\ v[c] = Len(jobs[c]) /\ w[c] = Len(s) /\ \A d \in R : v[d] = w[d]
    BY DEF Lengths, Types, QueueTypes
<1>3. IsFiniteSet(Conns) /\ IsFiniteSet(R)
    BY Zenon, ConnsFinite, FS_Subset
<1> HIDE DEF v, w
<1>4. /\ SumOver(v, Conns) = v[c] + SumOver(v, R)
      /\ SumOver(w, Conns) = w[c] + SumOver(w, R)
    <2>1. \A d \in Conns : v[d] \in Nat
        BY Zenon, <1>2
    <2>2. \A d \in Conns : w[d] \in Nat
        BY Zenon, <1>2
    <2>3. SumOver(v, Conns) = v[c] + SumOver(v, Conns \ {c})
        BY <1>3, <2>1, SumRemove
    <2>4. SumOver(w, Conns) = w[c] + SumOver(w, Conns \ {c})
        BY <1>3, <2>2, SumRemove
    <2> QED BY Zenon, <2>3, <2>4
<1>5. SumOver(v, R) = SumOver(w, R) /\ SumOver(v, R) \in Nat
    BY <1>2, <1>3, SumSame, SumType, Zenon
<1> QED BY <1>1, <1>2, <1>4, <1>5

\* The channels together hold a number of events.
LEMMA WaitingIsNumber == Types => Waiting \in Nat
<1> SUFFICES ASSUME Types PROVE Waiting \in Nat
    BY Zenon
<1>1. Waiting = SumOver(Lengths, Conns)
    BY Zenon DEF Waiting, Lengths
<1>2. \A d \in Conns : Lengths[d] \in Nat
    BY DEF Lengths, Types, QueueTypes
<1> QED BY Zenon, <1>1, <1>2, ConnsFinite, SumType

\* A channel that does not change has as many events.
LEMMA WaitingSame ==
    ASSUME Types, UNCHANGED jobs
    PROVE  Waiting' = Waiting /\ Waiting \in Nat
<1>1. Waiting' = Waiting
    BY ZenonT(40) DEF Waiting, SumOver, MapThenSumSet, MapThenFoldSet
<1> QED BY Zenon, <1>1, WaitingIsNumber

Hands == {"write", "written"}

\* How a move of one writer changes the number of events in hand.
LEMMA InHandMove ==
    ASSUME Types, NEW c \in Conns, NEW from, NEW to \in Places, Goto(c, from, to)
    PROVE  /\ InHand' = InHand + (IF to \in Hands THEN 1 ELSE 0) - (IF from \in Hands THEN 1 ELSE 0)
           /\ InHand \in Nat
<1>1. InHand = Cardinality(AtPlaces(Hands)) /\ InHand' = Cardinality(AtPlaces(Hands)')
    BY Zenon DEF InHand, AtPlaces, Hands
<1>2. Cardinality(AtPlaces(Hands)') = Cardinality(AtPlaces(Hands))
         + (IF to \in Hands THEN 1 ELSE 0) - (IF from \in Hands THEN 1 ELSE 0)
    BY MoveCounts, Zenon
<1> QED BY Zenon, <1>1, <1>2, ConnsFinite

\* Every step keeps the attempts accounted for.
LEMMA AttemptsStep == LoadInv /\ Attempts /\ [Next]_vars => Attempts'
<1> SUFFICES ASSUME LoadInv, Attempts, [Next]_vars PROVE Attempts'
    BY Zenon
<1>0. Types
    BY Zenon DEF LoadInv
<1>1. attempted \in Nat /\ written \in Nat /\ failed \in Nat
    BY Zenon, <1>0 DEF Types, CounterTypes
<1>2. ASSUME UNCHANGED <<attempted, written, failed, jobs>>, InHand' = InHand PROVE Attempts'
    BY <1>0, <1>2, WaitingSame, Zenon DEF Attempts
<1>3. InHand \in Nat
    <2>1. InHand = Cardinality(AtPlaces(Hands))
        BY Zenon DEF InHand, AtPlaces, Hands
    <2> QED BY Zenon, <2>1, ConnsFinite
<1>4. CASE Tick
    <2>1. attempted' = attempted + 1 /\ UNCHANGED <<written, wpc>>
        BY <1>4, Zenon DEF Tick, writers
    <2>2. InHand' = InHand
        BY <2>1, Zenon DEF InHand
    <2>3. CASE UNCHANGED jobs /\ failed' = failed + 1
        BY SMTT(20), <1>0, <1>1, <1>3, <2>1, <2>2, <2>3, WaitingSame DEF Attempts
    <2>4. CASE /\ UNCHANGED failed
               /\ \E k \in Conns, e \in Event : jobs' = [jobs EXCEPT ![k] = Append(jobs[k], e)]
        <3>1. PICK k \in Conns, e \in Event : jobs' = [jobs EXCEPT ![k] = Append(jobs[k], e)]
            BY Zenon, <2>4
        <3>2. /\ Append(jobs[k], e) \in Seq(Event) /\ Len(jobs[k]) \in Nat
              /\ Len(Append(jobs[k], e)) = Len(jobs[k]) + 1
            BY <1>0, AppendFacts DEF Types, QueueTypes
        <3>3. /\ Waiting' + Len(jobs[k]) = Waiting + (Len(jobs[k]) + 1)
              /\ Waiting \in Nat /\ Waiting' \in Nat
            BY <1>0, <3>1, <3>2, WaitingMove, Zenon
        <3>4. Waiting' = Waiting + 1
            BY <3>2, <3>3
        <3> QED BY SMTT(20), <1>1, <1>3, <2>1, <2>2, <2>4, <3>3, <3>4 DEF Attempts
    <2> QED BY <1>0, <1>4, <2>3, <2>4, Ticked, Zenon
<1>5. ASSUME NEW c \in Conns, TakeJob(c) PROVE Attempts'
    <2>1. UNCHANGED <<attempted, written, failed>> /\ Goto(c, "next", "write")
        BY <1>5, Zenon DEF TakeJob, counters
    <2>2. InHand' = InHand + 1
        BY <1>0, <1>3, <2>1, InHandMove DEF Places, HeldPlaces, Hands
    <2>3. jobs[c] \in Seq(Event) /\ jobs[c] # <<>> /\ jobs' = [jobs EXCEPT ![c] = Tail(jobs[c])]
        BY Zenon, <1>0, <1>5, TakenEvent
    <2>4. Tail(jobs[c]) \in Seq(Event) /\ Len(Tail(jobs[c])) = Len(jobs[c]) - 1 /\ Len(jobs[c]) \in Nat
        BY Zenon, <2>3, TailFacts
    <2>5. Waiting' + Len(jobs[c]) = Waiting + (Len(jobs[c]) - 1) /\ Waiting \in Nat /\ Waiting' \in Nat
        BY <1>0, <2>3, <2>4, WaitingMove, Zenon
    <2>6. Waiting = Waiting' + 1
        <3>1. \A x, y, n \in Nat : y + n = x + (n - 1) => x = y + 1
            OBVIOUS
        <3> QED BY <2>4, <2>5, <3>1, Zenon
    <2> QED BY SMTT(20), <1>1, <1>3, <2>1, <2>2, <2>5, <2>6 DEF Attempts
<1>6. ASSUME NEW c \in Conns, MakeEvent(c) PROVE Attempts'
    <2>1. attempted' = attempted + 1 /\ UNCHANGED <<written, failed, jobs>> /\ Goto(c, "next", "write")
        BY <1>6, Zenon DEF MakeEvent
    <2>2. InHand' = InHand + 1
        BY SMTT(20), <1>0, <1>3, <2>1, InHandMove DEF Places, HeldPlaces, Hands
    <2> QED BY SMTT(20), <1>0, <1>1, <1>3, <2>1, <2>2, WaitingSame DEF Attempts
<1>7. ASSUME NEW c \in Conns, NEW sent \in BOOLEAN, WriteFails(c, sent) PROVE Attempts'
    <2>1. failed' = failed + 1 /\ UNCHANGED <<written, attempted, jobs>> /\ Goto(c, "write", "done")
        BY <1>7, Zenon DEF WriteFails
    <2>2. InHand' = InHand - 1
        BY SMTT(20), <1>0, <1>3, <2>1, InHandMove DEF Places, HeldPlaces, Hands
    <2> QED BY SMTT(20), <1>0, <1>1, <1>3, <2>1, <2>2, WaitingSame DEF Attempts
<1>8. ASSUME NEW c \in Conns, CountWritten(c) PROVE Attempts'
    <2>1. written' = written + 1 /\ UNCHANGED <<failed, attempted, jobs>> /\ Goto(c, "written", "sum")
        BY <1>8, Zenon DEF CountWritten
    <2>2. InHand' = InHand - 1
        BY SMTT(20), <1>0, <1>3, <2>1, InHandMove DEF Places, HeldPlaces, Hands
    <2> QED BY SMTT(20), <1>0, <1>1, <1>3, <2>1, <2>2, WaitingSame DEF Attempts
<1>9. ASSUME NEW c \in Conns,
             WriterStops(c) \/ WorkerStops(c) \/ WriteSucceeds(c) \/ AddSum(c) \/ LoadXOR(c)
               \/ CompareAndSwapXOR(c)
      PROVE  Attempts'
    <2>1. UNCHANGED <<attempted, written, failed, jobs>>
        BY <1>9, Zenon DEF WriterStops, WorkerStops, WriteSucceeds, AddSum, LoadXOR,
                           CompareAndSwapXOR, counters
    <2>2. \E from, to \in Places : Goto(c, from, to) /\ (from \in Hands <=> to \in Hands)
        <3>1. \/ Goto(c, "next", "done") \/ Goto(c, "write", "written") \/ Goto(c, "sum", "load")
              \/ Goto(c, "load", "swap") \/ Goto(c, "swap", "next") \/ Goto(c, "swap", "load")
            BY <1>9, Zenon DEF WriterStops, WorkerStops, WriteSucceeds, AddSum, LoadXOR,
                               CompareAndSwapXOR
        <3> QED BY <3>1 DEF Places, HeldPlaces, Hands
    <2>3. InHand' = InHand
        <3>1. PICK from \in Places, to \in Places :
                 Goto(c, from, to) /\ (from \in Hands <=> to \in Hands)
            BY Zenon, <2>2
        <3>2. InHand' = InHand + (IF to \in Hands THEN 1 ELSE 0) - (IF from \in Hands THEN 1 ELSE 0)
            BY <1>0, <3>1, InHandMove, Zenon
        <3> QED BY <1>3, <3>1, <3>2
    <2> QED BY Zenon, <1>2, <2>1, <2>3
<1>10. CASE Dial
    <2>1. UNCHANGED <<attempted, written, failed, jobs>> /\ spc = "start"
        BY <1>10, Zenon DEF Dial, counters
    <2>2. \A d \in Conns : wpc[d] \notin {"write", "written"} /\ wpc'[d] \notin {"write", "written"}
        <3>1. \A d \in Conns : wpc[d] = "done"
            BY Zenon, <2>1 DEF LoadInv, Control
        <3>2. CASE UNCHANGED wpc
            BY Zenon, <3>1, <3>2
        <3>3. CASE wpc' = [c \in Conns |-> IF mode = "max" /\ AssignedOBUs(c) = {}
                                        THEN "done" ELSE "next"]
            BY Zenon, <3>1, <3>3
        <3> QED BY <1>10, <3>2, <3>3, Zenon DEF Dial
    <2>3. InHand' = InHand
        <3>1. {d \in Conns : wpc[d] \in {"write", "written"}}
                = {d \in Conns : wpc'[d] \in {"write", "written"}}
            BY <2>2, Zenon
        <3> QED BY <3>1, Zenon DEF InHand
    <2> QED BY Zenon, <1>2, <2>1, <2>3
<1>11. CASE Cancel \/ RejectConfig \/ DialFails \/ PhaseEnds \/ Finish \/ Exited \/ UNCHANGED vars
    <2>1. UNCHANGED <<attempted, written, failed, jobs>> /\ UNCHANGED wpc
        BY <1>11, Zenon DEF Cancel, RejectConfig, DialFails, PhaseEnds, Finish, Exited, vars,
                           writers, counters
    <2>2. InHand' = InHand
        BY <2>1, Zenon DEF InHand
    <2> QED BY Zenon, <1>2, <2>1, <2>2
<1> QED
    BY <1>4, <1>5, <1>6, <1>7, <1>8, <1>9, <1>10, <1>11, Zenon DEF Next, Writer

\* At the start nothing is counted.
LEMMA InitSums == Init => Sums /\ Attempts
<1> SUFFICES ASSUME Init PROVE Sums /\ Attempts
    BY Zenon
<1>1. \A P \in SUBSET HeldPlaces : AtPlaces(P) = {} /\ Pending(P) = {}
    <2>1. \A P \in SUBSET HeldPlaces : AtPlaces(P) = {}
        BY Zenon DEF Init, AtPlaces, HeldPlaces
    <2> QED BY <2>1, Zenon DEF Pending
<1>2. /\ {"written"} \in SUBSET HeldPlaces /\ Hands \in SUBSET HeldPlaces
      /\ {"written", "sum"} \in SUBSET HeldPlaces
      /\ {"written", "sum", "load", "swap"} \in SUBSET HeldPlaces
    BY Zenon DEF HeldPlaces, Hands
<1>3. Cardinality({}) = 0
    BY Zenon, FS_EmptySet
<1>4. Sums
    <2>1. accepted = {} /\ written = 0 /\ hashSum = 0 /\ hashXOR = {}
        BY Zenon DEF Init
    <2>2. /\ accepted \ Pending({"written", "sum"}) = {}
          /\ accepted \ Pending({"written", "sum", "load", "swap"}) = {}
        BY Zenon, <2>1
    <2>3. Cardinality(AtPlaces({"written"})) = 0 /\ Cardinality(accepted) = 0
        BY <1>1, <1>2, <1>3, <2>1, Zenon
    <2>4. written + Cardinality(AtPlaces({"written"})) = Cardinality(accepted)
        BY <2>1, <2>3
    <2> QED BY <2>1, <2>2, <2>4, NothingReconciled, Zenon DEF Sums
<1>5. InHand = 0
    <2>1. InHand = Cardinality(AtPlaces(Hands))
        BY Zenon DEF InHand, AtPlaces, Hands
    <2> QED BY <1>1, <1>2, <1>3, <2>1, Zenon
<1>6. Waiting = 0
    <2>1. \A d \in Conns : Lengths[d] = 0
        BY Zenon DEF Init, Lengths
    <2>2. Waiting = SumOver(Lengths, Conns)
        BY Zenon DEF Waiting, Lengths
    <2> QED BY <2>1, <2>2, ConnsFinite, SumOfZeros, Zenon
<1>7. attempted = 0 /\ written = 0 /\ failed = 0
    BY Zenon DEF Init
<1>8. Attempts
    BY <1>5, <1>6, <1>7 DEF Attempts
<1> QED BY Zenon, <1>4, <1>8

\* The counters follow the writes, however recordSuccess interleaves.
THEOREM SumsInvariance == Spec => [](LoadInv /\ Sums /\ Attempts)
<1>1. LoadInv /\ Sums /\ Attempts /\ [Next]_vars => Sums' /\ Attempts'
    BY Zenon, SumsStep, AttemptsStep
<1> QED BY <1>1, InitSums, LoadInvariance, PTL DEF Spec

\* The summary describes exactly the events whose write succeeded: their number and
\* their fingerprint (recordSuccess, printSummary).
THEOREM SummaryIsTrue == Spec => []SummaryDescribesWrites
<1>1. LoadInv /\ Sums /\ Attempts => SummaryDescribesWrites
    <2> SUFFICES ASSUME LoadInv, Sums, spc = "done"
                 PROVE  [Count |-> printSummary.EventsWritten, XOR |-> printSummary.EventIDHashXOR,
                         Sum |-> printSummary.EventIDHashSum] = ReconciliationOf(accepted)
        BY Zenon DEF SummaryDescribesWrites
    <2>1. \A d \in Conns : wpc[d] = "done"
        BY Zenon DEF LoadInv, Control
    <2>2. ASSUME NEW P, "done" \notin P PROVE AtPlaces(P) = {} /\ Pending(P) = {}
        BY <2>1, <2>2, Zenon DEF AtPlaces, Pending
    <2>3. written + Cardinality({}) = Cardinality(accepted) /\ Cardinality({}) = 0
        BY Zenon, <2>2, FS_EmptySet DEF Sums
    <2>4. written = Cardinality(accepted)
        BY <2>3 DEF LoadInv, Types, CounterTypes
    <2>5. hashSum = SumOf(accepted) /\ hashXOR = XorOf(accepted)
        <3>1. Pending({"written", "sum"}) = {} /\ Pending({"written", "sum", "load", "swap"}) = {}
            BY Zenon, <2>2
        <3>2. accepted \ {} = accepted
            BY Zenon
        <3> QED BY <3>1, <3>2, Zenon DEF Sums
    <2> QED BY Zenon, <2>4, <2>5 DEF printSummary, ReconciliationOf
<1> QED BY <1>1, SumsInvariance, PTL

\* Every attempt is written, failed, queued or in hand.  The summary leaves out only
\* what is left in channels, and a channel is left only by a writer that was told to
\* stop or whose own write failed (runFixedRate, writer, recordFailure).
THEOREM AttemptsAreAccounted == Spec => []AttemptsAccounted
<1>1. LoadInv /\ Sums /\ Attempts => AttemptsAccounted
    <2> SUFFICES ASSUME LoadInv, Attempts PROVE AttemptsAccounted
        BY Zenon
    <2>1. ASSUME spc = "done"
          PROVE  /\ attempted = written + failed + Waiting
                 /\ \A c \in Conns : jobs[c] # <<>> => mode # "max" /\ (cancelled \/ c \in broken)
        <3>1. \A d \in Conns : wpc[d] = "done"
            BY Zenon, <2>1 DEF LoadInv, Control
        <3>2. \A c \in Conns : jobs[c] # <<>> => mode # "max" /\ (cancelled \/ c \in broken)
            BY <3>1, Zenon DEF LoadInv, LeftBehind
        <3>3. InHand = 0
            <4>1. {d \in Conns : wpc[d] \in {"write", "written"}} = {}
                BY Zenon, <3>1
            <4> QED BY Zenon, <4>1, FS_EmptySet DEF InHand
        <3>4. Waiting \in Nat
            BY Zenon, WaitingIsNumber DEF LoadInv
        <3>5. attempted = written + failed + Waiting
            BY <3>3, <3>4 DEF Attempts, LoadInv, Types, CounterTypes
        <3> QED BY Zenon, <3>2, <3>5
    <2> QED BY <2>1, Zenon DEF AttemptsAccounted, Attempts, printSummary
<1> QED BY <1>1, SumsInvariance, PTL
=============================================================================
