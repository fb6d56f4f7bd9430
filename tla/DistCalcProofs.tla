--------------------------- MODULE DistCalcProofs ---------------------------
(***************************************************************************)
(* Proofs about DistCalc for any number of partitions, events, OBUs and    *)
(* calls, any distances, and any number of crashes, retries and repeated   *)
(* records.  First its invariants, and that it implements AtLeastOnce.     *)
(* Then, as an invariant, what CalcService remembers and what is charged:  *)
(* why the steps that leave the log and the memory alone keep it, why a    *)
(* growing log and a restart keep it, and last ProcessEvent and what the   *)
(* invariant says about charges.                                           *)
(***************************************************************************)
EXTENDS DistCalc, TLAPS

\* What the loop knows between two statements: offsets lie inside the logs,
\* the record in hand is the one just read, and a request that carries the
\* current call is about that record.
Offsets ==
    \A p \in Partitions :
        /\ committed[p] <= Len(log[p])
        /\ position[p] <= Len(log[p])

InHand ==
    /\ pc = "wait" => RecordInHand \in Events
    /\ pc = "commit" => (RecordInHand \in Events => RecordInHand \in applied)

Calls ==
    /\ pc # "wait" => call = None /\ reply = None
    /\ pc = "wait" => /\ reply = "ok" => RecordInHand \in applied
                      /\ \A r \in wire : r.call = call => r.EventID = RecordInHand

IndInv ==
    /\ TypeOK
    /\ Offsets
    /\ PositionTracksCommit
    /\ CommittedWereApplied
    /\ InHand
    /\ Calls

-----------------------------------------------------------------------------
\* The narrowing conversion of processEvent yields an integer.
LEMMA ToInt32Type == ASSUME NEW n \in Nat PROVE ToInt32(n) \in Int
  <1> DEFINE w == 2 * Half
  <1>1. w \in Nat \ {0} /\ Half \in Nat
    BY NumberAssumption
  <1> HIDE DEF w
  <1>2. (n + Half) % w \in Int
    BY <1>1
  <1> QED
    BY <1>1, <1>2 DEF ToInt32, w

\* CalculateDist returns a distance, cached or new.
LEMMA DistanceType ==
  ASSUME TypeOK, NEW e \in Events
  PROVE  DistanceOf(e) \in Nat
  <1>1. CASE e \in DOMAIN results
    BY Zenon, <1>1 DEF DistanceOf, TypeOK, MemoryTypeOK
  <1>2. CASE e \notin DOMAIN results /\ OBUOf[e] \in DOMAIN prevPoints
    <2>1. prevPoints[OBUOf[e]] \in Points /\ At[e] \in Points
      BY Zenon, <1>2, EventAssumption DEF TypeOK, MemoryTypeOK
    <2>2. CalcDist[prevPoints[OBUOf[e]], At[e]] \in Nat
      BY Zenon, <2>1, EventAssumption
    <2> QED
      BY Zenon, <1>2, <2>2 DEF DistanceOf
  <1>3. CASE e \notin DOMAIN results /\ OBUOf[e] \notin DOMAIN prevPoints
    BY Zenon, <1>3 DEF DistanceOf
  <1> QED
    BY Zenon, <1>1, <1>2, <1>3

\* The record in hand is a record of the log (ReadMessage, Seek).
LEMMA RecordType ==
  ASSUME KafkaTypeOK, LoopTypeOK, Offsets, PositionTracksCommit, pc \in Processing
  PROVE  /\ msg.p \in Partitions /\ msg.off \in Nat
         /\ msg.off + 1 \in 1 .. Len(log[msg.p])
         /\ RecordInHand \in Events \cup {BadRecord}
         /\ position[msg.p] = msg.off + 1
         /\ committed[msg.p] \in {msg.off, msg.off + 1}
  <1>1. msg \in [p : Partitions, off : Nat]
    BY Zenon DEF LoopTypeOK
  <1>2. position[msg.p] = msg.off + 1 /\ committed[msg.p] \in {msg.off, msg.off + 1}
    BY Zenon, <1>1 DEF PositionTracksCommit, Holding, Processing
  <1>3. log[msg.p] \in Seq(Events \cup {BadRecord}) /\ Len(log[msg.p]) \in Nat
    BY <1>1 DEF KafkaTypeOK
  <1>4. msg.off + 1 \in 1 .. Len(log[msg.p])
    BY <1>1, <1>2, <1>3 DEF Offsets
  <1>5. RecordInHand \in Events \cup {BadRecord}
    BY <1>3, <1>4 DEF RecordInHand
  <1> QED
    BY Zenon, <1>1, <1>2, <1>4, <1>5

\* The calculator starts with empty maps at the committed offsets.
LEMMA InitIndInv == Init => IndInv
  <1> SUFFICES ASSUME Init PROVE IndInv
    BY Zenon
  <1>1. DOMAIN EmptyMap = {} /\ \A S : EmptyMap \in [{} -> S]
    BY Zenon DEF EmptyMap
  <1>2. KafkaTypeOK
    BY DEF Init, KafkaTypeOK
  <1>7. LoopTypeOK
    BY NumberAssumption DEF Init, LoopTypeOK, Processing
  <1>8. FlagsTypeOK
    BY Zenon DEF Init, FlagsTypeOK
  <1>3. MemoryTypeOK /\ CallTypeOK
    BY Zenon, <1>1 DEF Init, MemoryTypeOK, CallTypeOK
  <1>4. AggregatorTypeOK
    BY <1>1, NumberAssumption DEF Init, AggregatorTypeOK
  <1>5. Offsets /\ PositionTracksCommit /\ CommittedWereApplied
    BY DEF Init, Offsets, PositionTracksCommit, Holding, Processing, CommittedWereApplied
  <1>6. InHand /\ Calls
    BY ZenonT(40), CallAssumption DEF Init, InHand, Calls
  <1> QED
    BY Zenon, <1>2, <1>3, <1>4, <1>5, <1>6, <1>7, <1>8 DEF IndInv, TypeOK

-----------------------------------------------------------------------------
\* Type correctness, one step per action and under it the groups of variables
\* that the action changes.
LEMMA TypeStep ==
  ASSUME IndInv, [Next]_vars
  PROVE  TypeOK'
  <1> USE DEF IndInv, TypeOK, kafka, memory, rpc, aggregator, incidents
  <1>1. ASSUME NEW p \in Partitions, NEW r \in Events \cup {BadRecord}, Publish(p, r) PROVE TypeOK'
    <2>1. KafkaTypeOK'
      BY <1>1 DEF Publish, KafkaTypeOK
    <2>2. LoopTypeOK' /\ FlagsTypeOK' /\ MemoryTypeOK' /\ CallTypeOK' /\ AggregatorTypeOK'
      BY Zenon, <1>1 DEF Publish, LoopTypeOK, FlagsTypeOK, MemoryTypeOK, CallTypeOK, AggregatorTypeOK
    <2> QED
      BY Zenon, <2>1, <2>2
  <1>2. ASSUME Rebalance PROVE TypeOK'
    <2>1. KafkaTypeOK'
      BY Zenon, <1>2 DEF Rebalance, KafkaTypeOK
    <2>2. LoopTypeOK' /\ FlagsTypeOK' /\ MemoryTypeOK' /\ CallTypeOK' /\ AggregatorTypeOK'
      BY Zenon, <1>2 DEF Rebalance, LoopTypeOK, FlagsTypeOK, MemoryTypeOK, CallTypeOK, AggregatorTypeOK
    <2> QED
      BY Zenon, <2>1, <2>2
  <1>3. ASSUME LoopTop PROVE TypeOK'
    <2>1. LoopTypeOK'
      BY Zenon, <1>3 DEF LoopTop, LoopTypeOK, Processing
    <2>2. KafkaTypeOK' /\ FlagsTypeOK' /\ MemoryTypeOK' /\ CallTypeOK' /\ AggregatorTypeOK'
      BY Zenon, <1>3 DEF LoopTop, KafkaTypeOK, FlagsTypeOK, MemoryTypeOK, CallTypeOK, AggregatorTypeOK
    <2> QED
      BY Zenon, <2>1, <2>2
  <1>4. ASSUME NEW p \in Partitions, ReadMessage(p) PROVE TypeOK'
    <2>1. KafkaTypeOK'
      BY <1>4 DEF ReadMessage, KafkaTypeOK
    <2>2. LoopTypeOK'
      BY Zenon, <1>4 DEF ReadMessage, KafkaTypeOK, LoopTypeOK, Processing
    <2>3. FlagsTypeOK' /\ MemoryTypeOK' /\ CallTypeOK' /\ AggregatorTypeOK'
      BY Zenon, <1>4 DEF ReadMessage, FlagsTypeOK, MemoryTypeOK, CallTypeOK, AggregatorTypeOK
    <2> QED
      BY Zenon, <2>1, <2>2, <2>3
  <1>5. ASSUME ReadFails PROVE TypeOK'
    <2>1. LoopTypeOK'
      BY Zenon, <1>5 DEF ReadFails, LoopTypeOK, Processing
    <2>2. KafkaTypeOK' /\ FlagsTypeOK' /\ MemoryTypeOK' /\ CallTypeOK' /\ AggregatorTypeOK'
      BY Zenon, <1>5 DEF ReadFails, KafkaTypeOK, FlagsTypeOK, MemoryTypeOK, CallTypeOK, AggregatorTypeOK
    <2> QED
      BY Zenon, <2>1, <2>2
  <1>6. ASSUME DiscardInvalid PROVE TypeOK'
    <2>1. LoopTypeOK'
      BY Zenon, <1>6 DEF DiscardInvalid, LoopTypeOK, Processing
    <2>2. KafkaTypeOK' /\ FlagsTypeOK' /\ MemoryTypeOK' /\ CallTypeOK' /\ AggregatorTypeOK'
      BY Zenon, <1>6 DEF DiscardInvalid, KafkaTypeOK, FlagsTypeOK, MemoryTypeOK, CallTypeOK,
         AggregatorTypeOK
    <2> QED
      BY Zenon, <2>1, <2>2
  <1>7. ASSUME ProcessEvent PROVE TypeOK'
    <2>1. LoopTypeOK'
      BY Zenon, <1>7 DEF ProcessEvent, LoopTypeOK, Processing
    <2> DEFINE e == RecordInHand
    <2>e. e \in Events /\ OBUOf[e] \in OBUs /\ OBUOf[e] \in Nat /\ At[e] \in Points
      BY Zenon, <1>7, EventAssumption DEF ProcessEvent, OBUs
    <2>d. DistanceOf(e) \in Nat /\ ToInt32(OBUOf[e]) \in Int
      BY Zenon, <2>e, DistanceType, ToInt32Type
    <2>2. MemoryTypeOK'
      <3>1. /\ results' = Put(results, e, DistanceOf(e))
            /\ \/ prevPoints' = prevPoints
               \/ prevPoints' = Put(prevPoints, OBUOf[e], At[e])
        BY Zenon, <1>7 DEF ProcessEvent, CalculateDist
      <3> HIDE DEF e
      <3>2. DOMAIN results' \subseteq Events /\ results' \in [DOMAIN results' -> Nat]
        BY Zenon, <2>e, <2>d, <3>1 DEF Put, MemoryTypeOK
      <3>3. DOMAIN prevPoints' \subseteq OBUs /\ prevPoints' \in [DOMAIN prevPoints' -> Points]
        BY Zenon, <2>e, <3>1 DEF Put, MemoryTypeOK
      <3> QED
        BY Zenon, <3>2, <3>3 DEF MemoryTypeOK
    <2>3. CallTypeOK'
      <3>1. CASE UNCHANGED rpc
        BY Zenon, <3>1 DEF CallTypeOK
      <3>2. ASSUME NEW c \in CallIDs, call' = c, reply' = None,
                   wire' = wire \cup {[call |-> c, EventID |-> e,
                                       OBUID |-> ToInt32(OBUOf[e]), Value |-> DistanceOf(e)]}
            PROVE  CallTypeOK'
        <4> DEFINE q == [call |-> c, EventID |-> e, OBUID |-> ToInt32(OBUOf[e]),
                         Value |-> DistanceOf(e)]
        <4>1. q \in Request
          BY Zenon, <2>e, <2>d DEF Request
        <4>2. wire' = wire \cup {q} /\ call' \in CallIDs /\ reply' = None
          BY Zenon, <3>2
        <4> HIDE DEF q
        <4> QED
          BY Zenon, <4>1, <4>2 DEF CallTypeOK
      <3> QED
        BY Zenon, <1>7, <3>1, <3>2 DEF ProcessEvent
    <2>4. KafkaTypeOK' /\ FlagsTypeOK' /\ AggregatorTypeOK'
      BY Zenon, <1>7 DEF ProcessEvent, KafkaTypeOK, FlagsTypeOK, AggregatorTypeOK
    <2> QED
      BY Zenon, <2>1, <2>2, <2>3, <2>4
  <1>8. ASSUME CallReturns PROVE TypeOK'
    <2>1. LoopTypeOK'
      BY Zenon, <1>8 DEF CallReturns, LoopTypeOK, Processing
    <2>2. CallTypeOK'
      BY Zenon, <1>8 DEF CallReturns, CallTypeOK
    <2>3. KafkaTypeOK' /\ FlagsTypeOK' /\ MemoryTypeOK' /\ AggregatorTypeOK'
      BY Zenon, <1>8 DEF CallReturns, KafkaTypeOK, FlagsTypeOK, MemoryTypeOK, AggregatorTypeOK
    <2> QED
      BY Zenon, <2>1, <2>2, <2>3
  <1>9. ASSUME CallFails PROVE TypeOK'
    <2>1. LoopTypeOK'
      BY Zenon, <1>9 DEF CallFails, LoopTypeOK, Processing
    <2>2. CallTypeOK'
      BY Zenon, <1>9 DEF CallFails, CallTypeOK
    <2>3. KafkaTypeOK' /\ FlagsTypeOK' /\ MemoryTypeOK' /\ AggregatorTypeOK'
      BY Zenon, <1>9 DEF CallFails, KafkaTypeOK, FlagsTypeOK, MemoryTypeOK, AggregatorTypeOK
    <2> QED
      BY Zenon, <2>1, <2>2, <2>3
  <1>10. ASSUME Commit PROVE TypeOK'
    <2>1. KafkaTypeOK'
      BY <1>10 DEF Commit, KafkaTypeOK, LoopTypeOK, Processing
    <2>2. LoopTypeOK'
      BY Zenon, <1>10 DEF Commit, LoopTypeOK, Processing
    <2>3. FlagsTypeOK' /\ MemoryTypeOK' /\ CallTypeOK' /\ AggregatorTypeOK'
      BY Zenon, <1>10 DEF Commit, FlagsTypeOK, MemoryTypeOK, CallTypeOK, AggregatorTypeOK
    <2> QED
      BY Zenon, <2>1, <2>2, <2>3
  <1>11. ASSUME NEW stored \in BOOLEAN, CommitFails(stored) PROVE TypeOK'
    <2>1. KafkaTypeOK'
      BY <1>11 DEF CommitFails, KafkaTypeOK, LoopTypeOK, Processing
    <2>2. LoopTypeOK'
      BY Zenon, <1>11 DEF CommitFails, LoopTypeOK, Processing
    <2>3. FlagsTypeOK' /\ MemoryTypeOK' /\ CallTypeOK' /\ AggregatorTypeOK'
      BY Zenon, <1>11 DEF CommitFails, FlagsTypeOK, MemoryTypeOK, CallTypeOK, AggregatorTypeOK
    <2> QED
      BY Zenon, <2>1, <2>2, <2>3
  <1>12. ASSUME SeekBack PROVE TypeOK'
    <2>1. KafkaTypeOK'
      BY Zenon, <1>12 DEF SeekBack, KafkaTypeOK, LoopTypeOK, Processing
    <2>2. LoopTypeOK'
      BY Zenon, <1>12 DEF SeekBack, LoopTypeOK, Processing
    <2>3. FlagsTypeOK' /\ MemoryTypeOK' /\ CallTypeOK' /\ AggregatorTypeOK'
      BY Zenon, <1>12 DEF SeekBack, FlagsTypeOK, MemoryTypeOK, CallTypeOK, AggregatorTypeOK
    <2> QED
      BY Zenon, <2>1, <2>2, <2>3
  <1>13. ASSUME SeekFails PROVE TypeOK'
    <2>1. LoopTypeOK'
      BY Zenon, <1>13 DEF SeekFails, LoopTypeOK, Processing
    <2>2. KafkaTypeOK' /\ FlagsTypeOK' /\ MemoryTypeOK' /\ CallTypeOK' /\ AggregatorTypeOK'
      BY Zenon, <1>13 DEF SeekFails, KafkaTypeOK, FlagsTypeOK, MemoryTypeOK, CallTypeOK, AggregatorTypeOK
    <2> QED
      BY Zenon, <2>1, <2>2
  <1>14. ASSUME NEW r \in wire, Insert(r) PROVE TypeOK'
    <2>1. CallTypeOK'
      BY Zenon, <1>14 DEF Insert, Answer, CallTypeOK
    <2>2. AggregatorTypeOK'
      <3>1. r.EventID \in Events /\ r.OBUID \in Int /\ r.Value \in Nat
        BY Zenon DEF CallTypeOK, Request
      <3>2. [OBUID |-> r.OBUID, Value |-> r.Value] \in [OBUID : Nat, Value : Nat]
        BY <1>14, <3>1 DEF Insert, RejectedByAggregator
      <3> QED
        BY Zenon, <1>14, <3>1, <3>2 DEF Insert, Answer, Put, AggregatorTypeOK
    <2>3. KafkaTypeOK' /\ LoopTypeOK' /\ FlagsTypeOK' /\ MemoryTypeOK'
      BY Zenon, <1>14 DEF Insert, Answer, KafkaTypeOK, LoopTypeOK, FlagsTypeOK, MemoryTypeOK
    <2> QED
      BY Zenon, <2>1, <2>2, <2>3
  <1>15. ASSUME NEW r \in wire, Reject(r) PROVE TypeOK'
    <2>1. CallTypeOK'
      BY Zenon, <1>15 DEF Reject, Answer, CallTypeOK
    <2>2. AggregatorTypeOK'
      BY Zenon, <1>15 DEF Reject, Answer, AggregatorTypeOK
    <2>3. KafkaTypeOK' /\ LoopTypeOK' /\ FlagsTypeOK' /\ MemoryTypeOK'
      BY Zenon, <1>15 DEF Reject, Answer, KafkaTypeOK, LoopTypeOK, FlagsTypeOK, MemoryTypeOK
    <2> QED
      BY Zenon, <2>1, <2>2, <2>3
  <1>16. ASSUME NEW r \in wire, LoseRequest(r) PROVE TypeOK'
    <2>1. CallTypeOK'
      BY Zenon, <1>16 DEF LoseRequest, CallTypeOK
    <2>2. KafkaTypeOK' /\ LoopTypeOK' /\ FlagsTypeOK' /\ MemoryTypeOK' /\ AggregatorTypeOK'
      BY Zenon, <1>16 DEF LoseRequest, KafkaTypeOK, LoopTypeOK, FlagsTypeOK, MemoryTypeOK, AggregatorTypeOK
    <2> QED
      BY Zenon, <2>1, <2>2
  <1>17. ASSUME Stop PROVE TypeOK'
    <2>1. LoopTypeOK'
      BY <1>17, NumberAssumption DEF Stop, LoopTypeOK, Processing
    <2>2. FlagsTypeOK'
      BY <1>17, Zenon DEF Stop, FlagsTypeOK
    <2>3. KafkaTypeOK' /\ MemoryTypeOK' /\ CallTypeOK' /\ AggregatorTypeOK'
      BY Zenon, <1>17 DEF Stop, KafkaTypeOK, MemoryTypeOK, CallTypeOK, AggregatorTypeOK
    <2> QED
      BY Zenon, <2>1, <2>2, <2>3
  <1>18. ASSUME Crash PROVE TypeOK'
    <2>1. LoopTypeOK'
      BY <1>18, NumberAssumption DEF Crash, LoopTypeOK, Processing
    <2>2. CallTypeOK'
      BY Zenon, <1>18 DEF Crash, CallTypeOK
    <2>3. KafkaTypeOK' /\ FlagsTypeOK' /\ MemoryTypeOK' /\ AggregatorTypeOK'
      BY Zenon, <1>18 DEF Crash, KafkaTypeOK, FlagsTypeOK, MemoryTypeOK, AggregatorTypeOK
    <2> QED
      BY Zenon, <2>1, <2>2, <2>3
  <1>19. ASSUME Restart PROVE TypeOK'
    <2>1. KafkaTypeOK'
      BY Zenon, <1>19 DEF Restart, KafkaTypeOK
    <2>2. LoopTypeOK'
      BY Zenon, <1>19 DEF Restart, LoopTypeOK, Processing
    <2>3. FlagsTypeOK'
      BY <1>19, Zenon DEF Restart, FlagsTypeOK
    <2>4. MemoryTypeOK'
      BY Zenon, <1>19 DEF Restart, MemoryTypeOK, EmptyMap
    <2>5. CallTypeOK' /\ AggregatorTypeOK'
      BY Zenon, <1>19 DEF Restart, CallTypeOK, AggregatorTypeOK
    <2> QED
      BY Zenon, <2>1, <2>2, <2>3, <2>4, <2>5
  <1>20. ASSUME AggregatorRestart PROVE TypeOK'
    <2>1. AggregatorTypeOK'
      BY <1>20, NumberAssumption DEF AggregatorRestart, AggregatorTypeOK, EmptyMap
    <2>2. KafkaTypeOK' /\ LoopTypeOK' /\ FlagsTypeOK' /\ MemoryTypeOK' /\ CallTypeOK'
      BY Zenon, <1>20 DEF AggregatorRestart, KafkaTypeOK, LoopTypeOK, FlagsTypeOK, MemoryTypeOK,
         CallTypeOK
    <2> QED
      BY Zenon, <2>1, <2>2
  <1>21. CASE UNCHANGED vars
    BY Zenon, <1>21 DEF vars, KafkaTypeOK, LoopTypeOK, FlagsTypeOK, MemoryTypeOK,
      CallTypeOK, AggregatorTypeOK
  <1> QED
    BY Zenon, <1>1, <1>2, <1>3, <1>4, <1>5, <1>6, <1>7, <1>8, <1>9, <1>10, <1>11, <1>12, <1>13,
       <1>14, <1>15, <1>16, <1>17, <1>18, <1>19, <1>20, <1>21 DEF Next, Loop, Handle

-----------------------------------------------------------------------------
\* Appending a record leaves the records below it alone.
LEMMA PublishGrows ==
  ASSUME KafkaTypeOK, NEW p \in Partitions, NEW r \in Events \cup {BadRecord},
         Publish(p, r), NEW q \in Partitions
  PROVE  /\ Len(log[q]) \in Nat /\ Len(log'[q]) \in Nat
         /\ Len(log[q]) <= Len(log'[q])
         /\ \A i \in 1 .. Len(log[q]) : log'[q][i] = log[q][i]
  <1>1. log[q] \in Seq(Events \cup {BadRecord})
    BY Zenon DEF KafkaTypeOK
  <1>2. log'[q] = IF q = p THEN Append(log[q], r) ELSE log[q]
    BY Zenon DEF Publish, KafkaTypeOK
  <1> QED
    BY <1>1, <1>2

\* Where the reader stands.
LEMMA OffsetsStep ==
  ASSUME IndInv, [Next]_vars
  PROVE  Offsets' /\ PositionTracksCommit'
  <1> USE DEF IndInv, TypeOK, kafka, memory, rpc, aggregator, incidents
  <1>t. TypeOK'
    BY Zenon, TypeStep
  <1>r. pc \in Processing =>
          /\ msg.p \in Partitions /\ msg.off \in Nat
          /\ msg.off + 1 \in 1 .. Len(log[msg.p])
          /\ RecordInHand \in Events \cup {BadRecord}
          /\ position[msg.p] = msg.off + 1
          /\ committed[msg.p] \in {msg.off, msg.off + 1}
    BY Zenon, RecordType
  <1>1. ASSUME NEW p \in Partitions, NEW r \in Events \cup {BadRecord}, Publish(p, r)
        PROVE  Offsets' /\ PositionTracksCommit'
    BY <1>1, <1>r, PublishGrows DEF Publish, Offsets, PositionTracksCommit, Holding, KafkaTypeOK,
       LoopTypeOK, Processing
  <1>2. ASSUME Rebalance PROVE Offsets' /\ PositionTracksCommit'
    BY Zenon, <1>2, <1>r DEF Rebalance, Offsets, PositionTracksCommit, Holding, KafkaTypeOK, LoopTypeOK,
       Processing
  <1>3. ASSUME LoopTop PROVE Offsets' /\ PositionTracksCommit'
    BY Zenon, <1>3, <1>r DEF LoopTop, Offsets, PositionTracksCommit, Holding, KafkaTypeOK, LoopTypeOK,
       Processing
  <1>4. ASSUME NEW p \in Partitions, ReadMessage(p) PROVE Offsets' /\ PositionTracksCommit'
    BY <1>4, <1>r DEF ReadMessage, Offsets, PositionTracksCommit, Holding, KafkaTypeOK, LoopTypeOK,
       Processing
  <1>5. ASSUME ReadFails PROVE Offsets' /\ PositionTracksCommit'
    BY Zenon, <1>5, <1>r DEF ReadFails, Offsets, PositionTracksCommit, Holding, KafkaTypeOK, LoopTypeOK,
       Processing
  <1>6. ASSUME DiscardInvalid PROVE Offsets' /\ PositionTracksCommit'
    BY Zenon, <1>6, <1>r DEF DiscardInvalid, Offsets, PositionTracksCommit, Holding, KafkaTypeOK,
       LoopTypeOK, Processing
  <1>7. ASSUME ProcessEvent PROVE Offsets' /\ PositionTracksCommit'
    BY Zenon, <1>7, <1>r DEF ProcessEvent, Offsets, PositionTracksCommit, Holding, KafkaTypeOK, LoopTypeOK,
       Processing
  <1>8. ASSUME CallReturns PROVE Offsets' /\ PositionTracksCommit'
    BY Zenon, <1>8, <1>r DEF CallReturns, Offsets, PositionTracksCommit, Holding, KafkaTypeOK, LoopTypeOK,
       Processing
  <1>9. ASSUME CallFails PROVE Offsets' /\ PositionTracksCommit'
    BY Zenon, <1>9, <1>r DEF CallFails, Offsets, PositionTracksCommit, Holding, KafkaTypeOK, LoopTypeOK,
       Processing
  <1>10. ASSUME Commit PROVE Offsets' /\ PositionTracksCommit'
    BY Zenon, <1>10, <1>r DEF Commit, Offsets, PositionTracksCommit, Holding, KafkaTypeOK, LoopTypeOK,
       Processing
  <1>11. ASSUME NEW stored \in BOOLEAN, CommitFails(stored) PROVE Offsets' /\ PositionTracksCommit'
    BY Zenon, <1>11, <1>r DEF CommitFails, Offsets, PositionTracksCommit, Holding, KafkaTypeOK, LoopTypeOK,
       Processing
  <1>12. ASSUME SeekBack PROVE Offsets' /\ PositionTracksCommit'
    BY <1>12, <1>r DEF SeekBack, Offsets, PositionTracksCommit, Holding, KafkaTypeOK, LoopTypeOK,
       Processing
  <1>13. ASSUME SeekFails PROVE Offsets' /\ PositionTracksCommit'
    BY Zenon, <1>13, <1>r DEF SeekFails, Offsets, PositionTracksCommit, Holding, KafkaTypeOK, LoopTypeOK,
       Processing
  <1>14. ASSUME NEW r \in wire, Insert(r) PROVE Offsets' /\ PositionTracksCommit'
    BY Zenon, <1>14, <1>r DEF Insert, Answer, Offsets, PositionTracksCommit, Holding, KafkaTypeOK,
       LoopTypeOK, Processing
  <1>15. ASSUME NEW r \in wire, Reject(r) PROVE Offsets' /\ PositionTracksCommit'
    BY Zenon, <1>15, <1>r DEF Reject, Answer, Offsets, PositionTracksCommit, Holding, KafkaTypeOK,
       LoopTypeOK, Processing
  <1>16. ASSUME NEW r \in wire, LoseRequest(r) PROVE Offsets' /\ PositionTracksCommit'
    BY Zenon, <1>16, <1>r DEF LoseRequest, Offsets, PositionTracksCommit, Holding, KafkaTypeOK, LoopTypeOK,
       Processing
  <1>17. ASSUME Stop PROVE Offsets' /\ PositionTracksCommit'
    BY Zenon, <1>17, <1>r DEF Stop, Offsets, PositionTracksCommit, Holding, KafkaTypeOK, LoopTypeOK, Processing
  <1>18. ASSUME Crash PROVE Offsets' /\ PositionTracksCommit'
    BY Zenon, <1>18, <1>r DEF Crash, Offsets, PositionTracksCommit, Holding, KafkaTypeOK, LoopTypeOK, Processing
  <1>19. ASSUME Restart PROVE Offsets' /\ PositionTracksCommit'
    BY Zenon, <1>19, <1>r DEF Restart, Offsets, PositionTracksCommit, Holding, KafkaTypeOK, LoopTypeOK,
       Processing
  <1>20. ASSUME AggregatorRestart PROVE Offsets' /\ PositionTracksCommit'
    BY Zenon, <1>20, <1>r DEF AggregatorRestart, Offsets, PositionTracksCommit, Holding, KafkaTypeOK,
       LoopTypeOK, Processing
  <1>21. CASE UNCHANGED vars
    BY Zenon, <1>21 DEF vars, Offsets, PositionTracksCommit, Holding, KafkaTypeOK, LoopTypeOK, Processing
  <1> QED
    BY Zenon, <1>1, <1>2, <1>3, <1>4, <1>5, <1>6, <1>7, <1>8, <1>9, <1>10, <1>11, <1>12, <1>13, <1>14,
       <1>15, <1>16, <1>17, <1>18, <1>19, <1>20, <1>21 DEF Next, Loop, Handle

\* What is committed was applied.
LEMMA AppliedStep ==
  ASSUME IndInv, [Next]_vars
  PROVE  CommittedWereApplied' /\ InHand'
  <1> USE DEF IndInv, TypeOK, kafka, memory, rpc, aggregator, incidents
  <1>t. TypeOK'
    BY Zenon, TypeStep
  <1>r. pc \in Processing =>
          /\ msg.p \in Partitions /\ msg.off \in Nat
          /\ msg.off + 1 \in 1 .. Len(log[msg.p])
          /\ RecordInHand \in Events \cup {BadRecord}
          /\ position[msg.p] = msg.off + 1
          /\ committed[msg.p] \in {msg.off, msg.off + 1}
    BY Zenon, RecordType
  <1>1. ASSUME NEW p \in Partitions, NEW r \in Events \cup {BadRecord}, Publish(p, r)
        PROVE  CommittedWereApplied' /\ InHand'
    <2>1. ASSUME NEW q \in Partitions, NEW i \in 1 .. committed'[q]
          PROVE  log'[q][i] = log[q][i] /\ i \in 1 .. committed[q]
      <3>1. committed'[q] = committed[q]
        BY Zenon, <1>1 DEF Publish
      <3>2. committed[q] \in Nat /\ committed[q] <= Len(log[q])
        BY Zenon DEF Offsets, KafkaTypeOK
      <3>3. Len(log[q]) \in Nat /\ \A k \in 1 .. Len(log[q]) : log'[q][k] = log[q][k]
        BY Zenon, <1>1, PublishGrows
      <3> QED
        BY <2>1, <3>1, <3>2, <3>3, SMT
    <2>2. CommittedWereApplied'
      <3> SUFFICES ASSUME NEW q \in Partitions, NEW i \in 1 .. committed'[q],
                          log'[q][i] \in Events
                   PROVE  log'[q][i] \in applied'
        BY Zenon DEF CommittedWereApplied
      <3>1. log'[q][i] = log[q][i] /\ i \in 1 .. committed[q]
        BY Zenon, <2>1
      <3>2. log[q][i] \in applied
        BY Zenon, <3>1 DEF CommittedWereApplied
      <3>3. applied' = applied
        BY Zenon, <1>1 DEF Publish
      <3> QED
        BY Zenon, <3>1, <3>2, <3>3
    <2>3. pc \in Processing => RecordInHand' = RecordInHand
      BY <1>1, <1>r, PublishGrows DEF Publish, RecordInHand
    <2>4. InHand'
      BY Zenon, <1>1, <2>3 DEF Publish, InHand, Processing
    <2> QED
      BY Zenon, <2>2, <2>4
  <1>2. ASSUME Rebalance PROVE CommittedWereApplied' /\ InHand'
    BY Zenon, <1>2, <1>r DEF Rebalance, CommittedWereApplied, InHand, RecordInHand, KafkaTypeOK,
       LoopTypeOK, Processing
  <1>3. ASSUME LoopTop PROVE CommittedWereApplied' /\ InHand'
    BY Zenon, <1>3, <1>r DEF LoopTop, CommittedWereApplied, InHand, RecordInHand, KafkaTypeOK, LoopTypeOK,
       Processing
  <1>4. ASSUME NEW p \in Partitions, ReadMessage(p) PROVE CommittedWereApplied' /\ InHand'
    BY Zenon, <1>4, <1>r DEF ReadMessage, CommittedWereApplied, InHand, RecordInHand, KafkaTypeOK,
       LoopTypeOK, Processing
  <1>5. ASSUME ReadFails PROVE CommittedWereApplied' /\ InHand'
    BY Zenon, <1>5, <1>r DEF ReadFails, CommittedWereApplied, InHand, RecordInHand, KafkaTypeOK,
       LoopTypeOK, Processing
  <1>6. ASSUME DiscardInvalid PROVE CommittedWereApplied' /\ InHand'
    BY Zenon, <1>6, <1>r, EventAssumption DEF DiscardInvalid, CommittedWereApplied, InHand, RecordInHand,
       KafkaTypeOK, LoopTypeOK, Processing
  <1>7. ASSUME ProcessEvent PROVE CommittedWereApplied' /\ InHand'
    BY Zenon, <1>7, <1>r DEF ProcessEvent, CommittedWereApplied, InHand, RecordInHand, KafkaTypeOK,
       LoopTypeOK, Processing
  <1>8. ASSUME CallReturns PROVE CommittedWereApplied' /\ InHand'
    BY Zenon, <1>8, <1>r DEF CallReturns, Calls, CommittedWereApplied, InHand, RecordInHand, KafkaTypeOK,
       LoopTypeOK, Processing
  <1>9. ASSUME CallFails PROVE CommittedWereApplied' /\ InHand'
    BY Zenon, <1>9, <1>r DEF CallFails, CommittedWereApplied, InHand, RecordInHand, KafkaTypeOK,
       LoopTypeOK, Processing
  <1>10. ASSUME Commit PROVE CommittedWereApplied' /\ InHand'
    BY <1>10, <1>r DEF Commit, CommittedWereApplied, InHand, RecordInHand, KafkaTypeOK, LoopTypeOK,
       Processing
  <1>11. ASSUME NEW stored \in BOOLEAN, CommitFails(stored) PROVE CommittedWereApplied' /\ InHand'
    BY <1>11, <1>r DEF CommitFails, CommittedWereApplied, InHand, RecordInHand, KafkaTypeOK,
       LoopTypeOK, Processing
  <1>12. ASSUME SeekBack PROVE CommittedWereApplied' /\ InHand'
    BY Zenon, <1>12, <1>r DEF SeekBack, CommittedWereApplied, InHand, RecordInHand, KafkaTypeOK,
       LoopTypeOK, Processing
  <1>13. ASSUME SeekFails PROVE CommittedWereApplied' /\ InHand'
    BY Zenon, <1>13, <1>r DEF SeekFails, CommittedWereApplied, InHand, RecordInHand, KafkaTypeOK,
       LoopTypeOK, Processing
  <1>14. ASSUME NEW r \in wire, Insert(r) PROVE CommittedWereApplied' /\ InHand'
    BY Zenon, <1>14, <1>r DEF Insert, Answer, CommittedWereApplied, InHand, RecordInHand,
       KafkaTypeOK, LoopTypeOK, Processing
  <1>15. ASSUME NEW r \in wire, Reject(r) PROVE CommittedWereApplied' /\ InHand'
    BY ZenonT(40), <1>15, <1>r DEF Reject, Answer, CommittedWereApplied, InHand, RecordInHand,
       KafkaTypeOK, LoopTypeOK, Processing
  <1>16. ASSUME NEW r \in wire, LoseRequest(r) PROVE CommittedWereApplied' /\ InHand'
    BY Zenon, <1>16, <1>r DEF LoseRequest, CommittedWereApplied, InHand, RecordInHand, KafkaTypeOK,
       LoopTypeOK, Processing
  <1>17. ASSUME Stop PROVE CommittedWereApplied' /\ InHand'
    BY Zenon, <1>17, <1>r DEF Stop, CommittedWereApplied, InHand, RecordInHand, KafkaTypeOK,
       LoopTypeOK, Processing
  <1>18. ASSUME Crash PROVE CommittedWereApplied' /\ InHand'
    BY Zenon, <1>18, <1>r DEF Crash, CommittedWereApplied, InHand, RecordInHand, KafkaTypeOK,
       LoopTypeOK, Processing
  <1>19. ASSUME Restart PROVE CommittedWereApplied' /\ InHand'
    BY Zenon, <1>19, <1>r DEF Restart, CommittedWereApplied, InHand, RecordInHand, KafkaTypeOK, LoopTypeOK,
       Processing
  <1>20. ASSUME AggregatorRestart PROVE CommittedWereApplied' /\ InHand'
    BY Zenon, <1>20, <1>r DEF AggregatorRestart, CommittedWereApplied, InHand, RecordInHand,
       KafkaTypeOK, LoopTypeOK, Processing
  <1>21. CASE UNCHANGED vars
    BY Zenon, <1>21 DEF vars, CommittedWereApplied, InHand, RecordInHand, KafkaTypeOK, LoopTypeOK, Processing
  <1> QED
    BY Zenon, <1>1, <1>2, <1>3, <1>4, <1>5, <1>6, <1>7, <1>8, <1>9, <1>10, <1>11, <1>12, <1>13, <1>14,
       <1>15, <1>16, <1>17, <1>18, <1>19, <1>20, <1>21 DEF Next, Loop, Handle

\* What a reply means.
LEMMA CallsStep ==
  ASSUME IndInv, [Next]_vars
  PROVE  Calls'
  <1> USE DEF IndInv, TypeOK, kafka, memory, rpc, aggregator, incidents
  <1>t. TypeOK'
    BY Zenon, TypeStep
  <1>r. pc \in Processing =>
          /\ msg.p \in Partitions /\ msg.off \in Nat
          /\ msg.off + 1 \in 1 .. Len(log[msg.p])
          /\ RecordInHand \in Events \cup {BadRecord}
          /\ position[msg.p] = msg.off + 1
          /\ committed[msg.p] \in {msg.off, msg.off + 1}
    BY Zenon, RecordType
  <1>1. ASSUME NEW p \in Partitions, NEW r \in Events \cup {BadRecord}, Publish(p, r)
        PROVE  Calls'
    <2>1. pc \in Processing => RecordInHand' = RecordInHand
      BY <1>1, <1>r, PublishGrows DEF Publish, RecordInHand
    <2> QED
      BY ZenonT(40), <1>1, <2>1 DEF Publish, Calls, Processing
  <1>2. ASSUME Rebalance PROVE Calls'
    BY ZenonT(40), <1>2, <1>r, CallAssumption DEF Rebalance, Calls, RecordInHand, LoopTypeOK,
       CallTypeOK, Processing
  <1>3. ASSUME LoopTop PROVE Calls'
    BY ZenonT(40), <1>3, <1>r, CallAssumption DEF LoopTop, Calls, RecordInHand, LoopTypeOK,
       CallTypeOK, Processing
  <1>4. ASSUME NEW p \in Partitions, ReadMessage(p) PROVE Calls'
    BY ZenonT(40), <1>4, <1>r, CallAssumption DEF ReadMessage, Calls, RecordInHand, LoopTypeOK,
       CallTypeOK, Processing
  <1>5. ASSUME ReadFails PROVE Calls'
    BY ZenonT(40), <1>5, <1>r, CallAssumption DEF ReadFails, Calls, RecordInHand, LoopTypeOK,
       CallTypeOK, Processing
  <1>6. ASSUME DiscardInvalid PROVE Calls'
    BY ZenonT(40), <1>6, <1>r, CallAssumption DEF DiscardInvalid, Calls, RecordInHand, LoopTypeOK,
       CallTypeOK, Processing
  <1>7. ASSUME ProcessEvent PROVE Calls'
    <2>1. RecordInHand' = RecordInHand
      BY Zenon, <1>7 DEF ProcessEvent, RecordInHand
    <2>2. CASE pc' = "seek" /\ UNCHANGED rpc
      BY Zenon, <1>7, <2>2 DEF ProcessEvent, Calls
    <2>3. ASSUME pc' = "wait", reply' = None,
                 NEW c \in CallIDs, \A r \in wire : r.call # c, call' = c,
                 NEW q, q.call = c, q.EventID = RecordInHand, wire' = wire \cup {q}
          PROVE  Calls'
      BY Zenon, <2>1, <2>3, CallAssumption DEF Calls
    <2> QED
      BY ZenonT(40), <1>7, <2>2, <2>3 DEF ProcessEvent
  <1>8. ASSUME CallReturns PROVE Calls'
    BY Zenon, <1>8, <1>r, CallAssumption DEF CallReturns, Calls, RecordInHand, LoopTypeOK,
       CallTypeOK, Processing
  <1>9. ASSUME CallFails PROVE Calls'
    BY ZenonT(40), <1>9, <1>r, CallAssumption DEF CallFails, Calls, RecordInHand, LoopTypeOK,
       CallTypeOK, Processing
  <1>10. ASSUME Commit PROVE Calls'
    BY ZenonT(40), <1>10, <1>r, CallAssumption DEF Commit, Calls, RecordInHand, LoopTypeOK,
       CallTypeOK, Processing
  <1>11. ASSUME NEW stored \in BOOLEAN, CommitFails(stored) PROVE Calls'
    BY ZenonT(40), <1>11, <1>r, CallAssumption DEF CommitFails, Calls, RecordInHand, LoopTypeOK,
       CallTypeOK, Processing
  <1>12. ASSUME SeekBack PROVE Calls'
    BY ZenonT(40), <1>12, <1>r, CallAssumption DEF SeekBack, Calls, RecordInHand, LoopTypeOK,
       CallTypeOK, Processing
  <1>13. ASSUME SeekFails PROVE Calls'
    BY Zenon, <1>13, <1>r, CallAssumption DEF SeekFails, Calls, RecordInHand, LoopTypeOK,
       CallTypeOK, Processing
  <1>14. ASSUME NEW r \in wire, Insert(r) PROVE Calls'
    <2>1. RecordInHand' = RecordInHand
      BY ZenonT(40), <1>14 DEF Insert, Answer, RecordInHand
    <2>2. r.call \in CallIDs
      BY Zenon DEF CallTypeOK, Request
    <2> QED
      BY ZenonT(40), <1>14, <2>1, <2>2, CallAssumption DEF Insert, Answer, Calls
  <1>15. ASSUME NEW r \in wire, Reject(r) PROVE Calls'
    <2>1. RecordInHand' = RecordInHand
      BY ZenonT(40), <1>15 DEF Reject, Answer, RecordInHand
    <2>2. r.call \in CallIDs
      BY Zenon DEF CallTypeOK, Request
    <2> QED
      BY ZenonT(40), <1>15, <2>1, <2>2, CallAssumption DEF Reject, Answer, Calls
  <1>16. ASSUME NEW r \in wire, LoseRequest(r) PROVE Calls'
    BY ZenonT(40), <1>16, <1>r, CallAssumption DEF LoseRequest, Calls, RecordInHand, LoopTypeOK,
       CallTypeOK, Processing
  <1>17. ASSUME Stop PROVE Calls'
    BY ZenonT(40), <1>17, <1>r, CallAssumption DEF Stop, Calls, RecordInHand, LoopTypeOK,
       CallTypeOK, Processing
  <1>18. ASSUME Crash PROVE Calls'
    BY ZenonT(40), <1>18, <1>r, CallAssumption DEF Crash, Calls, RecordInHand, LoopTypeOK,
       CallTypeOK, Processing
  <1>19. ASSUME Restart PROVE Calls'
    BY ZenonT(40), <1>19, <1>r, CallAssumption DEF Restart, Calls, RecordInHand, LoopTypeOK,
       CallTypeOK, Processing
  <1>20. ASSUME AggregatorRestart PROVE Calls'
    BY ZenonT(40), <1>20, <1>r, CallAssumption DEF AggregatorRestart, Calls, RecordInHand,
       LoopTypeOK, CallTypeOK, Processing
  <1>21. CASE UNCHANGED vars
    BY Zenon, <1>21 DEF vars, Calls, RecordInHand, LoopTypeOK, CallTypeOK, Processing
  <1> QED
    BY Zenon, <1>1, <1>2, <1>3, <1>4, <1>5, <1>6, <1>7, <1>8, <1>9, <1>10, <1>11, <1>12, <1>13, <1>14,
       <1>15, <1>16, <1>17, <1>18, <1>19, <1>20, <1>21 DEF Next, Loop, Handle

-----------------------------------------------------------------------------
\* Every step of the system keeps the inductive invariant.
LEMMA NextIndInv ==
  ASSUME IndInv, [Next]_vars
  PROVE  IndInv'
  BY Zenon, TypeStep, OffsetsStep, AppliedStep, CallsStep DEF IndInv

\* The inductive invariant holds in every reachable state of the calculator:
\* the facts above survive every step of the loop, the broker, the network and
\* the aggregator, and every crash.
THEOREM Invariance == Spec => []IndInv
  BY InitIndInv, NextIndInv, PTL DEF Spec

\* Every variable of the calculator, the wire and the ledger keeps its type.
THEOREM TypeCorrect == Spec => []TypeOK
  <1>1. IndInv => TypeOK
    BY Zenon DEF IndInv
  <1> QED
    BY <1>1, Invariance, PTL

\* Offsets are committed only after aggregation succeeded: no crash, lost or
\* late reply, failed commit, rebalance or rewind makes processMessage commit
\* past a valid record that the aggregator has not applied.
THEOREM CommitAfterApply == Spec => []CommittedWereApplied
  <1>1. IndInv => CommittedWereApplied
    BY Zenon DEF IndInv
  <1> QED
    BY <1>1, Invariance, PTL

\* The reader of Start is never further than the record in hand from the
\* committed offset, so that Seek, a rebalance or a restart skips no record.
THEOREM NoRecordSkipped == Spec => []PositionTracksCommit
  <1>1. IndInv => PositionTracksCommit
    BY Zenon DEF IndInv
  <1> QED
    BY <1>1, Invariance, PTL

\* CommitMessage never moves a committed offset back.
THEOREM CommitMonotone == Spec => CommitsAdvance
  <1>1. ASSUME IndInv, [Next]_vars
        PROVE  [\A p \in Partitions : committed'[p] >= committed[p]]_vars
    <2> SUFFICES ASSUME NEW p \in Partitions PROVE committed'[p] >= committed[p]
      BY Zenon
    <2>0. committed[p] \in Nat
      BY Zenon, <1>1 DEF IndInv, TypeOK, KafkaTypeOK
    <2>1. pc \in Processing => /\ msg.p \in Partitions /\ msg.off \in Nat
                               /\ committed[msg.p] \in {msg.off, msg.off + 1}
      BY Zenon, <1>1, RecordType DEF IndInv, TypeOK
    <2>2. CASE Commit \/ \E stored \in BOOLEAN : CommitFails(stored)
      <3>1. /\ pc \in Processing
            /\ committed' = committed
               \/ committed' = [committed EXCEPT ![msg.p] = msg.off + 1]
        BY Zenon, <2>2 DEF Commit, CommitFails, Processing
      <3>2. committed \in [Partitions -> Nat]
        BY Zenon, <1>1 DEF IndInv, TypeOK, KafkaTypeOK
      <3>3. CASE p = msg.p
        BY <2>1, <3>1, <3>2, <3>3
      <3>4. CASE p # msg.p
        BY <2>0, <3>1, <3>2, <3>4
      <3> QED
        BY Zenon, <3>3, <3>4
    <2>3. CASE UNCHANGED committed
      BY <2>0, <2>3
    <2>4. UNCHANGED committed \/ Commit \/ \E stored \in BOOLEAN : CommitFails(stored)
      BY ZenonT(40), <1>1 DEF Next, vars, kafka, Publish, Rebalance, Loop, LoopTop, ReadMessage,
        ReadFails, DiscardInvalid, ProcessEvent, CallReturns, CallFails, SeekBack,
        SeekFails, Handle, Insert, Reject, Answer, LoseRequest, Stop, Crash, Restart,
        AggregatorRestart
    <2> QED
      BY Zenon, <2>2, <2>3, <2>4
  <1> QED
    BY <1>1, Invariance, PTL DEF Spec, CommitsAdvance

-----------------------------------------------------------------------------
\* Every request on the wire is about an event of the log (processEvent).
WireFromLog == \A r \in wire : Delivery!Arrived(r.EventID)

-----------------------------------------------------------------------------
\* What has arrived in a log stays there: logs only grow at their ends.
LEMMA ArrivedStays ==
  ASSUME TypeOK, [Next]_vars, NEW e, Delivery!Arrived(e)
  PROVE  Delivery!Arrived(e)'
  <1>0. PICK p \in Partitions : \E i \in 1 .. Len(log[p]) : log[p][i] = e
    BY Zenon DEF Delivery!Arrived
  <1>1. PICK i \in 1 .. Len(log[p]) : log[p][i] = e
    BY Zenon, <1>0
  <1>2. log \in [Partitions -> Seq(Events \cup {BadRecord})]
    BY Zenon DEF TypeOK, KafkaTypeOK
  <1>3. CASE \E q \in Partitions, r \in Events \cup {BadRecord} : Publish(q, r)
    <2>1. PICK q \in Partitions, r \in Events \cup {BadRecord} : Publish(q, r)
      BY Zenon, <1>3
    <2>2. log' = [log EXCEPT ![q] = Append(@, r)]
      BY Zenon, <2>1 DEF Publish
    <2>3. i \in 1 .. Len(log'[p]) /\ log'[p][i] = log[p][i]
      BY <1>2, <2>2
    <2> QED
      BY Zenon, <1>1, <2>3 DEF Delivery!Arrived
  <1>4. CASE UNCHANGED log
    BY Zenon, <1>1, <1>4 DEF Delivery!Arrived
  <1> QED
    BY ZenonT(40), <1>3, <1>4 DEF Next, vars, kafka, Rebalance, Loop, LoopTop, ReadMessage, ReadFails,
      DiscardInvalid, ProcessEvent, CallReturns, CallFails, Commit, CommitFails,
      SeekBack, SeekFails, Handle, Insert, Reject, Answer, LoseRequest, Stop, Crash,
      Restart, AggregatorRestart

\* A request enters the wire only in ProcessEvent, for the record in hand.
LEMMA WireStep ==
  ASSUME IndInv, WireFromLog, [Next]_vars
  PROVE  WireFromLog'
  <1>t. TypeOK
    BY Zenon DEF IndInv
  <1> SUFFICES ASSUME NEW r \in wire' PROVE Delivery!Arrived(r.EventID)'
    BY Zenon DEF WireFromLog
  <1>1. CASE r \in wire
    BY Zenon, <1>1, <1>t, ArrivedStays DEF WireFromLog
  <1>2. CASE ProcessEvent /\ r \notin wire
    <2>1. pc \in Processing /\ r.EventID = RecordInHand
      BY <1>2 DEF ProcessEvent, Processing, rpc
    <2>2. msg.p \in Partitions /\ msg.off + 1 \in 1 .. Len(log[msg.p])
      BY Zenon, <2>1, RecordType DEF IndInv, TypeOK
    <2>3. Delivery!Arrived(r.EventID)
      BY Zenon, <2>1, <2>2 DEF Delivery!Arrived, RecordInHand
    <2> QED
      BY Zenon, <1>t, <2>3, ArrivedStays
  <1>3. wire' \subseteq wire \/ ProcessEvent
    BY Zenon DEF Next, vars, rpc, Publish, Rebalance, Loop, LoopTop, ReadMessage, ReadFails,
      DiscardInvalid, CallReturns, CallFails, Commit, CommitFails,
      SeekBack, SeekFails, Handle, Insert, Reject, Answer, LoseRequest, Stop, Crash,
      Restart, AggregatorRestart
  <1> QED
    BY Zenon, <1>1, <1>2, <1>3

\* The calculator starts as the abstract specification does.
LEMMA InitMaps == Init => Delivery!Init
  BY Zenon DEF Init, Delivery!Init

\* A commit, reported as failed or not, finishes the record in hand or nothing:
\* the record was applied or is invalid, and only its own offset is passed.
LEMMA CommitMaps ==
  ASSUME IndInv, pc = "commit", UNCHANGED <<log, applied>>,
         committed' = [committed EXCEPT ![msg.p] = msg.off + 1]
  PROVE  Delivery!Next \/ UNCHANGED Delivery!vars
  <1> DEFINE p == msg.p
  <1>1. /\ p \in Partitions /\ msg.off \in Nat
        /\ msg.off + 1 \in 1 .. Len(log[p])
        /\ RecordInHand \in Events \cup {BadRecord}
        /\ committed[p] \in {msg.off, msg.off + 1}
    BY Zenon, RecordType DEF IndInv, TypeOK, Processing
  <1>2. committed \in [Partitions -> Nat]
    BY Zenon DEF IndInv, TypeOK, KafkaTypeOK
  <1>3. CASE committed[p] = msg.off + 1
    <2>1. committed' = committed
      BY Zenon, <1>1, <1>2, <1>3
    <2> QED
      BY Zenon, <2>1 DEF Delivery!vars
  <1>4. CASE committed[p] = msg.off
    <2>1. log[p][committed[p] + 1] \in applied \cup {BadRecord}
      BY Zenon, <1>1, <1>4 DEF IndInv, InHand, RecordInHand
    <2>2. Len(log[p]) \in Nat /\ committed[p] + 1 <= Len(log[p])
      BY <1>1, <1>4 DEF IndInv, TypeOK, KafkaTypeOK
    <2>3. Delivery!Finish(p)
      BY Zenon, <1>4, <2>1, <2>2 DEF Delivery!Finish
    <2> QED
      BY Zenon, <1>1, <2>3 DEF Delivery!Next
  <1> QED
    BY Zenon, <1>1, <1>3, <1>4

\* Every step of the calculator, the broker, the network and the aggregator is a
\* step of the abstract specification or changes nothing it can see.
LEMMA StepMaps ==
  ASSUME IndInv, WireFromLog, [Next]_vars
  PROVE  Delivery!Next \/ UNCHANGED Delivery!vars
  <1>1. CASE \E p \in Partitions, r \in Events \cup {BadRecord} : Publish(p, r)
    BY ZenonT(30), <1>1 DEF Publish, aggregator, Delivery!Next, Delivery!Arrive
  <1>2. CASE Commit
    BY Zenon, <1>2, CommitMaps DEF Commit, aggregator
  <1>3. ASSUME NEW stored \in BOOLEAN, CommitFails(stored)
        PROVE  Delivery!Next \/ UNCHANGED Delivery!vars
    <2>1. CASE stored
      BY Zenon, <1>3, <2>1, CommitMaps DEF CommitFails, aggregator
    <2>2. CASE ~stored
      BY Zenon, <1>3, <2>2 DEF CommitFails, aggregator, Delivery!vars
    <2> QED
      BY Zenon, <2>1, <2>2
  <1>4. ASSUME NEW r \in wire, Insert(r)
        PROVE  Delivery!Next \/ UNCHANGED Delivery!vars
    <2>1. r.EventID \in Events
      BY Zenon DEF IndInv, TypeOK, CallTypeOK, Request
    <2>2. Delivery!Arrived(r.EventID)
      BY Zenon DEF WireFromLog
    <2>3. Delivery!Charge(r.EventID)
      BY Zenon, <1>4, <2>2 DEF Insert, Answer, kafka, Delivery!Charge
    <2> QED
      BY Zenon, <2>1, <2>3 DEF Delivery!Next
  <1>5. CASE UNCHANGED <<log, committed, applied>>
    BY Zenon, <1>5 DEF Delivery!vars
  <1> QED
    BY ZenonT(40), <1>1, <1>2, <1>3, <1>4, <1>5 DEF Next, vars, kafka, aggregator, Rebalance, Loop,
      LoopTop, ReadMessage, ReadFails, DiscardInvalid, ProcessEvent, CallReturns,
      CallFails, SeekBack, SeekFails, Handle, Reject, Answer, LoseRequest,
      Stop, Crash, Restart, AggregatorRestart

\* The calculator implements the at-least-once delivery it promises: the committed
\* offset of a partition moves past one record at a time, past an event only after
\* the aggregator applied it, and only events of the log are applied.
THEOREM DeliversAtLeastOnce == Spec => ImplementsAtLeastOnce
  <1>1. Init => WireFromLog
    BY Zenon DEF Init, WireFromLog
  <1>2. IndInv /\ WireFromLog /\ [Next]_vars => WireFromLog'
    BY Zenon, WireStep
  <1>3. IndInv /\ WireFromLog /\ [Next]_vars => [Delivery!Next]_Delivery!vars
    BY Zenon, StepMaps
  <1> QED
    BY <1>1, <1>2, <1>3, InitMaps, Invariance, PTL
       DEF Spec, ImplementsAtLeastOnce, Delivery!Spec

-----------------------------------------------------------------------------
Home(e) == PartitionOf[OBUOf[e]]

InLog(e) == \E k \in 1 .. Len(log[Home(e)]) : log[Home(e)][k] = e

\* An event is in the partition of its OBU, and only events of the log are computed,
\* sent or charged.
Placed ==
    /\ \A p \in Partitions : \A k \in 1 .. Len(log[p]) :
          log[p][k] \in Events => p = Home(log[p][k])
    /\ \A e \in DOMAIN results : InLog(e)
    /\ \A r \in wire : InLog(r.EventID)
    /\ \A e \in DOMAIN ledger : InLog(e)

\* The records of p that the loop has passed, the one in hand excluded while its
\* distance is still to be computed.
Passed(p) == IF Holding(p) /\ pc = "process" THEN position[p] - 1 ELSE position[p]

Computed(p, k) == log[p][k] \in Events => log[p][k] \in DOMAIN results

\* A record that the loop has dealt with since it started has its distance cached:
\* the one in hand, the one whose commit was stored but reported as failed, and, if
\* the loop was never restarted, all of them.
Cached ==
    /\ pc \in {"wait", "commit", "seek"} => Computed(msg.p, msg.off + 1)
    /\ pc # "exited" => \A p \in Partitions :
          /\ committed[p] > Passed(p) => Computed(p, committed[p])
          /\ ~restarted => \A k \in 1 .. Passed(p) : Computed(p, k)
    /\ \A e \in DOMAIN results : OBUOf[e] \in DOMAIN prevPoints

\* The cases in which no distance is computed from a point that is out of order.
InOrder == ~Repeated \/ ~restarted

OfOBU(p, k, o) == FirstAt(p, k) /\ OBUOf[log[p][k]] = o

\* No distance is cached beyond the record in hand or the next one.
NotAhead ==
    pc # "exited" => \A p \in Partitions : \A k \in 1 .. Len(log[p]) :
        FirstAt(p, k) /\ log[p][k] \in DOMAIN results =>
            k <= (IF Holding(p) THEN position[p] ELSE position[p] + 1)

\* Place i holds the last event of o that was computed or passed.
LastOf(o, p, i) ==
    /\ OfOBU(p, i, o)
    /\ log[p][i] \in DOMAIN results
    /\ \A k \in i + 1 .. Len(log[p]) :
          OfOBU(p, k, o) => k > Passed(p) /\ log[p][k] \notin DOMAIN results

\* CalcService remembers for each OBU the point of the last of its events.
PointsFromLog ==
    pc # "exited" /\ InOrder => \A o \in DOMAIN prevPoints :
        \E i \in 1 .. Len(log[PartitionOf[o]]) :
            /\ LastOf(o, PartitionOf[o], i)
            /\ prevPoints[o] = At[log[PartitionOf[o]][i]]

\* v is the distance that e stands for, or zero because the point before it is not
\* there or was lost.
Right(e, v) == IsStep(e, v) \/ (v = 0 /\ (~restarted => IsFirstOfOBU(e)))

AllRight ==
    InOrder =>
        /\ \A e \in DOMAIN results : Right(e, results[e])
        /\ \A r \in wire : Right(r.EventID, r.Value)
        /\ \A e \in DOMAIN ledger : Right(e, ledger[e].Value)

ChargeInv == Placed /\ Cached /\ NotAhead /\ PointsFromLog /\ AllRight

-----------------------------------------------------------------------------
\* How far the loop may have cached distances in p.
Reach(p) == IF Holding(p) THEN position[p] ELSE position[p] + 1

\* The offsets of a running loop.
LEMMA Standing ==
  ASSUME IndInv, pc # "exited", NEW p \in Partitions
  PROVE  /\ position[p] \in Nat /\ committed[p] \in Nat /\ Len(log[p]) \in Nat
         /\ position[p] <= Len(log[p]) /\ committed[p] <= Len(log[p])
         /\ Passed(p) \in Nat /\ Passed(p) <= Len(log[p])
         /\ Holding(p) => /\ msg.off \in Nat /\ position[p] = msg.off + 1
                          /\ committed[p] \in {msg.off, msg.off + 1}
         /\ ~Holding(p) => committed[p] \in {position[p], position[p] + 1}
  <1>1. /\ position[p] \in Nat /\ committed[p] \in Nat /\ Len(log[p]) \in Nat
        /\ position[p] <= Len(log[p]) /\ committed[p] <= Len(log[p])
    BY DEF IndInv, TypeOK, KafkaTypeOK, Offsets
  <1>2. Holding(p) => /\ msg.off \in Nat /\ position[p] = msg.off + 1
                      /\ committed[p] \in {msg.off, msg.off + 1}
    BY Zenon DEF IndInv, TypeOK, LoopTypeOK, PositionTracksCommit, Holding
  <1>3. ~Holding(p) => committed[p] \in {position[p], position[p] + 1}
    BY Zenon DEF IndInv, PositionTracksCommit
  <1> QED
    BY <1>1, <1>2, <1>3 DEF Passed

\* What a step that computes nothing does to the place of the loop: it passes at
\* most one more record, whose distance is cached if it is an event.
Moved ==
    /\ pc # "exited"
    /\ \A p \in Partitions :
          /\ {Passed(p), Passed(p)', Reach(p), Reach(p)'} \subseteq Nat
          /\ \/ Passed(p)' <= Passed(p)
             \/ Passed(p)' = Passed(p) + 1 /\ Computed(p, Passed(p) + 1)
          /\ Reach(p) <= Reach(p)'
          /\ committed'[p] > Passed(p)' => Computed(p, committed'[p])
    /\ pc' \in {"wait", "commit", "seek"} => Computed(msg'.p, msg'.off + 1)

\* The steps of the loop that compute no distance.
LEMMA LoopMoves ==
  ASSUME IndInv, Cached, Loop, ~ProcessEvent, pc' # "exited"
  PROVE  Moved
  <1>0. pc # "exited"
    BY Zenon DEF Loop, LoopTop, ReadMessage, ReadFails, DiscardInvalid, CallReturns,
       CallFails, Commit, CommitFails, SeekBack, SeekFails
  <1> DEFINE At0(p) ==
        /\ position[p] \in Nat /\ committed[p] \in Nat
        /\ Holding(p) => /\ msg.off \in Nat /\ position[p] = msg.off + 1
                         /\ committed[p] \in {msg.off, msg.off + 1}
        /\ ~Holding(p) => committed[p] \in {position[p], position[p] + 1}
        /\ committed[p] > Passed(p) => Computed(p, committed[p])
  <1>a. \A p \in Partitions : At0(p)
    BY Zenon, <1>0, Standing DEF Cached
  <1>b. position \in [Partitions -> Nat] /\ committed \in [Partitions -> Nat]
    BY Zenon DEF IndInv, TypeOK, KafkaTypeOK
  <1>c. pc \in Processing => msg \in [p : Partitions, off : Nat]
    BY Zenon DEF IndInv, TypeOK, LoopTypeOK
  <1>d. pc \in {"wait", "commit", "seek"} => Computed(msg.p, msg.off + 1)
    BY Zenon DEF Cached
  <1> USE DEF Moved, Passed, Reach, Holding, Processing, kafka
  <1>1. CASE LoopTop \/ ReadFails
    BY <1>1, <1>a, <1>b DEF LoopTop, ReadFails
  <1>2. ASSUME NEW q \in Partitions, ReadMessage(q) PROVE Moved
    BY <1>2, <1>a, <1>b DEF ReadMessage
  <1>3. CASE DiscardInvalid
    <2>1. Computed(msg.p, msg.off + 1)
      BY Zenon, <1>3, EventAssumption DEF DiscardInvalid, RecordInHand, Computed
    <2> QED
      BY <1>3, <1>a, <1>b, <1>c, <2>1 DEF DiscardInvalid
  <1>4. CASE CallReturns \/ CallFails
    BY <1>4, <1>a, <1>b, <1>c, <1>d DEF CallReturns, CallFails
  <1>5. CASE Commit
    BY <1>5, <1>a, <1>b, <1>c DEF Commit
  <1>6. ASSUME NEW stored \in BOOLEAN, CommitFails(stored) PROVE Moved
    BY <1>6, <1>a, <1>b, <1>c, <1>d DEF CommitFails
  <1>7. CASE SeekBack
    BY <1>7, <1>a, <1>b, <1>c, <1>d DEF SeekBack
  <1>8. CASE SeekFails
    BY Zenon, <1>8 DEF SeekFails
  <1> HIDE DEF Moved, Passed, Reach, Holding, Processing, kafka
  <1> QED
    BY Zenon, <1>1, <1>2, <1>3, <1>4, <1>5, <1>6, <1>7, <1>8 DEF Loop

\* A step that publishes nothing, computes nothing and restarts nothing keeps the log
\* and the memory.
LEMMA QuietFrame ==
  ASSUME [Next]_vars, ~ProcessEvent, ~Restart,
         ~\E p \in Partitions, r \in Events \cup {BadRecord} : Publish(p, r)
  PROVE  UNCHANGED <<log, prevPoints, results, restarted>>
  <1>1. CASE Loop
    BY Zenon, <1>1 DEF Loop, LoopTop, ReadMessage, ReadFails, DiscardInvalid, CallReturns,
       CallFails, Commit, CommitFails, SeekBack, SeekFails, kafka, memory, incidents
  <1>2. ASSUME NEW r \in wire, Handle(r) \/ LoseRequest(r)
        PROVE  UNCHANGED <<log, prevPoints, results, restarted>>
    BY ZenonT(40), <1>2 DEF Handle, Insert, Reject, Answer, LoseRequest, kafka, memory, incidents
  <1>3. CASE Rebalance \/ Stop \/ Crash \/ AggregatorRestart
    BY Zenon, <1>3 DEF Rebalance, Stop, Crash, AggregatorRestart, kafka, memory, incidents
  <1>4. CASE UNCHANGED vars
    BY Zenon, <1>4 DEF vars, kafka, memory, incidents
  <1> QED
    BY Zenon, <1>1, <1>2, <1>3, <1>4 DEF Next

\* In such a step the loop moves as above, or is down afterwards.
LEMMA QuietMoves ==
  ASSUME IndInv, Cached, [Next]_vars, ~ProcessEvent, ~Restart,
         ~\E p \in Partitions, r \in Events \cup {BadRecord} : Publish(p, r),
         pc' # "exited"
  PROVE  Moved
  <1>1. CASE Loop
    BY Zenon, <1>1, LoopMoves
  <1>2. CASE UNCHANGED <<position, committed, pc, msg>>
    <2>1. pc # "exited"
      BY Zenon, <1>2
    <2>2. \A p \in Partitions : Passed(p) \in Nat /\ position[p] \in Nat
      BY Zenon, <2>1, Standing
    <2>3. \A p \in Partitions :
            /\ Passed(p)' = Passed(p) /\ committed'[p] = committed[p]
            /\ Reach(p)' = Reach(p) /\ Reach(p) \in Nat
      BY <1>2, <2>2 DEF Passed, Reach, Holding
    <2>4. /\ \A p \in Partitions : committed[p] > Passed(p) => Computed(p, committed[p])
          /\ pc' \in {"wait", "commit", "seek"} => Computed(msg'.p, msg'.off + 1)
      BY Zenon, <1>2, <2>1 DEF Cached
    <2>5. ASSUME NEW p \in Partitions
          PROVE  /\ {Passed(p), Passed(p)', Reach(p), Reach(p)'} \subseteq Nat
                 /\ \/ Passed(p)' <= Passed(p)
                    \/ Passed(p)' = Passed(p) + 1 /\ Computed(p, Passed(p) + 1)
                 /\ Reach(p) <= Reach(p)'
                 /\ committed'[p] > Passed(p)' => Computed(p, committed'[p])
      BY <2>2, <2>3, <2>4
    <2> QED
      BY <2>1, <2>4, <2>5, Zenon DEF Moved
  <1>3. CASE Rebalance
    <2>1. pc = "read" /\ UNCHANGED <<committed, pc, msg>> /\ position' = committed
      BY Zenon, <1>3 DEF Rebalance, kafka
    <2>2. \A p \in Partitions :
            /\ position[p] \in Nat /\ committed[p] \in {position[p], position[p] + 1}
            /\ ~Holding(p) /\ ~Holding(p)'
      BY Zenon, <2>1, Standing DEF Holding, Processing
    <2>3. \A p \in Partitions : Passed(p) = position[p] /\ Passed(p)' = committed[p]
      BY Zenon, <2>1, <2>2 DEF Passed
    <2>4. \A p \in Partitions : Reach(p) = position[p] + 1 /\ Reach(p)' = committed[p] + 1
      BY Zenon, <2>1, <2>2 DEF Reach
    <2>5. /\ \A p \in Partitions : committed[p] > position[p] => Computed(p, committed[p])
          /\ pc # "exited" /\ pc' \notin {"wait", "commit", "seek"}
      BY Zenon, <2>1, <2>3 DEF Cached
    <2>6. ASSUME NEW p \in Partitions
          PROVE  /\ {Passed(p), Passed(p)', Reach(p), Reach(p)'} \subseteq Nat
                 /\ \/ Passed(p)' <= Passed(p)
                    \/ Passed(p)' = Passed(p) + 1 /\ Computed(p, Passed(p) + 1)
                 /\ Reach(p) <= Reach(p)'
                 /\ committed'[p] > Passed(p)' => Computed(p, committed'[p])
      BY <2>1, <2>2, <2>3, <2>4, <2>5
    <2> QED
      BY <2>5, <2>6, Zenon DEF Moved
  <1>4. CASE Crash
    BY Zenon, <1>4 DEF Crash
  <1>5. ASSUME NEW r \in wire, Handle(r) \/ LoseRequest(r)
        PROVE  UNCHANGED <<position, committed, pc, msg>>
    BY ZenonT(40), <1>5 DEF Handle, Insert, Reject, Answer, LoseRequest, kafka
  <1>6. CASE Stop \/ AggregatorRestart \/ UNCHANGED vars
    BY Zenon, <1>2, <1>6 DEF Stop, AggregatorRestart, vars, kafka
  <1> QED
    BY Zenon, <1>1, <1>2, <1>3, <1>4, <1>5, <1>6 DEF Next

\* Such a step keeps what is known of the memory.
LEMMA QuietMemory ==
  ASSUME IndInv, Cached, NotAhead, PointsFromLog,
         UNCHANGED <<log, prevPoints, results, restarted>>, pc' # "exited" => Moved
  PROVE  Cached' /\ NotAhead' /\ PointsFromLog'
  <1>1. \A p, k : Computed(p, k)' <=> Computed(p, k)
    BY Zenon DEF Computed
  <1>2. \A p, k, o : FirstAt(p, k)' <=> FirstAt(p, k)
    BY Zenon DEF FirstAt
  <1>3. \A p, k, o : OfOBU(p, k, o)' <=> OfOBU(p, k, o)
    BY Zenon, <1>2 DEF OfOBU
  <1>4. ASSUME pc' # "exited", NEW p \in Partitions, NEW k \in Nat, k <= Passed(p)'
        PROVE  k <= Passed(p) \/ Computed(p, k)
    BY <1>4 DEF Moved
  <1>5. Cached'
    <2>1. ASSUME pc' # "exited", ~restarted, NEW p \in Partitions, NEW k \in 1 .. Passed(p)'
          PROVE  Computed(p, k)'
      <3>1. /\ pc # "exited" /\ Passed(p) \in Nat
            /\ k \in Nat /\ k >= 1 /\ k <= Passed(p)'
        BY <2>1 DEF Moved
      <3>2. k <= Passed(p) \/ Computed(p, k)
        BY Zenon, <1>4, <2>1, <3>1
      <3>3. k <= Passed(p) => k \in 1 .. Passed(p)
        BY <3>1
      <3>4. k \in 1 .. Passed(p) => Computed(p, k)
        BY Zenon, <2>1, <3>1 DEF Cached
      <3> QED
        BY Zenon, <1>1, <3>2, <3>3, <3>4
    <2> QED
      BY Zenon, <1>1, <2>1 DEF Cached, Moved
  <1>6. NotAhead'
    <2> SUFFICES ASSUME pc' # "exited", NEW p \in Partitions, NEW k \in 1 .. Len(log[p]),
                        FirstAt(p, k), log[p][k] \in DOMAIN results
                 PROVE  k <= Reach(p)'
      BY Zenon, <1>2 DEF NotAhead, Reach
    <2>1. Reach(p) <= Reach(p)' /\ Reach(p) \in Nat /\ Reach(p)' \in Nat
      BY Zenon DEF Moved
    <2>2. k <= Reach(p)
      BY Zenon DEF NotAhead, Reach, Moved
    <2>3. k \in Nat
      OBVIOUS
    <2> QED
      BY <2>1, <2>2, <2>3
  <1>7. PointsFromLog'
    <2> SUFFICES ASSUME pc' # "exited", InOrder', NEW o \in DOMAIN prevPoints
                 PROVE  \E i \in 1 .. Len(log[PartitionOf[o]]) :
                          /\ LastOf(o, PartitionOf[o], i)'
                          /\ prevPoints[o] = At[log[PartitionOf[o]][i]]
      BY ZenonT(40) DEF PointsFromLog
    <2> DEFINE p == PartitionOf[o]
    <2>1. InOrder /\ pc # "exited"
      BY Zenon, <1>2 DEF InOrder, Repeated, Moved
    <2>2. p \in Partitions
      BY Zenon, EventAssumption DEF IndInv, TypeOK, MemoryTypeOK
    <2>3. PICK i \in 1 .. Len(log[p]) :
            LastOf(o, p, i) /\ prevPoints[o] = At[log[p][i]]
      BY Zenon, <2>1 DEF PointsFromLog
    <2>4. Len(log[p]) \in Nat /\ i \in Nat
      BY <2>1, <2>2, <2>3, Standing
    <2> HIDE DEF p
    <2>5. ASSUME NEW k \in i + 1 .. Len(log[p]), OfOBU(p, k, o)
          PROVE  k > Passed(p)' /\ log[p][k] \notin DOMAIN results
      <3>1. k > Passed(p) /\ log[p][k] \notin DOMAIN results
        BY Zenon, <2>3, <2>5 DEF LastOf
      <3>2. k \in Nat /\ log[p][k] \in Events
        BY <2>4, <2>5 DEF OfOBU, FirstAt
      <3>3. Passed(p) \in Nat /\ Passed(p)' \in Nat
        BY Zenon, <2>2 DEF Moved
      <3>4. ~(k <= Passed(p)')
        BY <1>4, <2>2, <3>1, <3>2, <3>3 DEF Computed
      <3> QED
        BY <3>1, <3>2, <3>3, <3>4
    <2>6. LastOf(o, p, i)'
      BY Zenon, <1>3, <2>3, <2>5 DEF LastOf
    <2> QED
      BY ZenonT(40), <2>3, <2>6 DEF p
  <1> QED
    BY Zenon, <1>5, <1>6, <1>7

-----------------------------------------------------------------------------
\* What is said of an unchanged log stays true.
LEMMA LogSame ==
  ASSUME UNCHANGED log
  PROVE  /\ \A e : InLog(e)' <=> InLog(e)
         /\ \A p, k : FirstAt(p, k)' <=> FirstAt(p, k)
         /\ \A e, v : IsStep(e, v)' <=> IsStep(e, v)
         /\ \A e : IsFirstOfOBU(e)' <=> IsFirstOfOBU(e)
         /\ Repeated' <=> Repeated
  <1>1. \A p, k : FirstAt(p, k)' <=> FirstAt(p, k)
    BY Zenon DEF FirstAt
  <1>2. \A f, e : Precedes(f, e)' <=> Precedes(f, e)
    BY <1>1 DEF Precedes
  <1> QED
    BY Zenon, <1>1, <1>2 DEF InLog, IsStep, IsFirstOfOBU, Repeated

\* What ProcessEvent does with the event in hand.
LEMMA EventInHand ==
  ASSUME IndInv, Placed, ProcessEvent
  PROVE  LET e == RecordInHand
         IN  /\ e \in Events /\ InLog(e)
             /\ msg.p \in Partitions /\ msg.p = Home(e) /\ msg.off \in Nat
             /\ msg.off + 1 \in 1 .. Len(log[msg.p]) /\ log[msg.p][msg.off + 1] = e
             /\ pc = "process" /\ pc' \in {"wait", "seek"}
             /\ position[msg.p] = msg.off + 1
             /\ UNCHANGED <<log, committed, position, msg, ledger, restarted>>
             /\ results' = Put(results, e, DistanceOf(e))
             /\ prevPoints' = IF e \in DOMAIN results THEN prevPoints
                                                    ELSE Put(prevPoints, OBUOf[e], At[e])
             /\ \A r \in wire' : r \in wire \/ (r.EventID = e /\ r.Value = DistanceOf(e))
  <1> DEFINE e == RecordInHand
  <1>1. /\ pc = "process" /\ e \in Events /\ pc' \in {"wait", "seek"}
        /\ UNCHANGED <<log, committed, position, msg, ledger, restarted>>
        /\ results' = Put(results, e, DistanceOf(e))
        /\ prevPoints' = IF e \in DOMAIN results THEN prevPoints
                                               ELSE Put(prevPoints, OBUOf[e], At[e])
    BY Zenon DEF ProcessEvent, CalculateDist, kafka, aggregator, incidents
  <1>2. \A r \in wire' : r \in wire \/ (r.EventID = e /\ r.Value = DistanceOf(e))
    BY DEF ProcessEvent, rpc
  <1>3. /\ msg.p \in Partitions /\ msg.off \in Nat
        /\ msg.off + 1 \in 1 .. Len(log[msg.p]) /\ position[msg.p] = msg.off + 1
    BY Zenon, <1>1, RecordType DEF IndInv, TypeOK, Processing
  <1>4. log[msg.p][msg.off + 1] = e
    BY Zenon DEF RecordInHand
  <1>5. msg.p = Home(e)
    BY Zenon, <1>1, <1>3, <1>4 DEF Placed
  <1>6. InLog(e)
    BY Zenon, <1>3, <1>4, <1>5 DEF InLog
  <1> QED
    BY Zenon, <1>1, <1>2, <1>3, <1>4, <1>5, <1>6

\* An event whose distance is not cached is at its first place in the log.
LEMMA FirstTime ==
  ASSUME IndInv, Placed, Cached, InOrder, ProcessEvent, RecordInHand \notin DOMAIN results
  PROVE  FirstAt(msg.p, msg.off + 1)
  <1>1. /\ msg.p \in Partitions /\ msg.off \in Nat
        /\ msg.off + 1 \in 1 .. Len(log[msg.p]) /\ log[msg.p][msg.off + 1] = RecordInHand
        /\ RecordInHand \in Events /\ pc = "process" /\ position[msg.p] = msg.off + 1
    BY Zenon, EventInHand
  <1>2. CASE ~Repeated
    BY Zenon, <1>1, <1>2 DEF Repeated
  <1>3. CASE ~restarted
    <2>1. Passed(msg.p) = msg.off
      BY <1>1 DEF Passed, Holding, Processing
    <2>2. \A j \in 1 .. msg.off : Computed(msg.p, j)
      BY Zenon, <1>1, <1>3, <2>1 DEF Cached
    <2>3. \A j \in 1 .. msg.off : log[msg.p][j] # RecordInHand
      BY Zenon, <1>1, <2>2 DEF Computed
    <2>4. (msg.off + 1) - 1 = msg.off
      BY <1>1
    <2> QED
      BY Zenon, <1>1, <2>3, <2>4 DEF FirstAt
  <1> QED
    BY Zenon, <1>2, <1>3 DEF InOrder

\* CalculateDist gives the distance from the previous event of the OBU, or zero.
LEMMA NewDistance ==
  ASSUME IndInv, ChargeInv, InOrder, ProcessEvent
  PROVE  Right(RecordInHand, DistanceOf(RecordInHand))
  <1> DEFINE e == RecordInHand
             p == msg.p
             n == msg.off + 1
             o == OBUOf[e]
  <1>0. /\ p \in Partitions /\ p = Home(e) /\ msg.off \in Nat
        /\ n \in 1 .. Len(log[p]) /\ log[p][n] = e
        /\ e \in Events /\ pc = "process" /\ position[p] = n
    BY Zenon, EventInHand DEF ChargeInv
  <1>a. Passed(p) = msg.off /\ Holding(p)
    BY <1>0 DEF Passed, Holding, Processing
  <1>b. Len(log[p]) \in Nat
    BY Zenon, <1>0, Standing
  <1> USE DEF ChargeInv
  <1>1. CASE e \in DOMAIN results
    BY Zenon, <1>1 DEF AllRight, DistanceOf
  <1>2. CASE e \notin DOMAIN results /\ o \in DOMAIN prevPoints
    <2>1. DistanceOf(e) = CalcDist[prevPoints[o], At[e]]
      BY Zenon, <1>2 DEF DistanceOf
    <2>2. FirstAt(p, n)
      BY Zenon, <1>2, FirstTime
    <2>3. p = PartitionOf[o]
      BY Zenon, <1>0 DEF Home
    <2>4. PICK i \in 1 .. Len(log[p]) :
            LastOf(o, p, i) /\ prevPoints[o] = At[log[p][i]]
      BY <1>0, <1>2, <2>3 DEF PointsFromLog
    <2>5. /\ FirstAt(p, i) /\ OBUOf[log[p][i]] = o /\ log[p][i] \in DOMAIN results
          /\ log[p][i] \in Events
      BY Zenon, <2>4 DEF LastOf, OfOBU, FirstAt
    <2>6. i <= n
      BY Zenon, <1>0, <1>a, <2>5 DEF NotAhead
    <2>7. i # n
      BY Zenon, <1>0, <1>2, <2>5
    <2>8. i \in 1 .. n - 1 /\ i \in Nat /\ n \in Nat
      BY <1>0, <1>b, <2>6, <2>7
    <2>9. \A k \in i + 1 .. n - 1 : FirstAt(p, k) => OBUOf[log[p][k]] # o
      <3> SUFFICES ASSUME NEW k \in i + 1 .. n - 1, OfOBU(p, k, o) PROVE FALSE
        BY Zenon DEF OfOBU
      <3>1. k \in i + 1 .. Len(log[p]) /\ k <= msg.off /\ k \in Nat
        BY <1>0, <1>b, <2>8
      <3>2. k > Passed(p)
        BY Zenon, <2>4, <3>1 DEF LastOf
      <3> QED
        BY <1>0, <1>a, <3>1, <3>2
    <2>10. Precedes(log[p][i], e)
      BY Zenon, <1>0, <2>2, <2>5, <2>8, <2>9 DEF Precedes
    <2> QED
      BY Zenon, <2>1, <2>4, <2>5, <2>10 DEF Right, IsStep
  <1>3. CASE e \notin DOMAIN results /\ o \notin DOMAIN prevPoints
    <2>1. DistanceOf(e) = 0
      BY Zenon, <1>3 DEF DistanceOf
    <2>2. ASSUME ~restarted, NEW f \in Events, Precedes(f, e) PROVE FALSE
      <3>1. PICK q \in Partitions : \E j \in 1 .. Len(log[q]) : \E i \in 1 .. j - 1 :
              /\ FirstAt(q, j) /\ log[q][j] = e
              /\ log[q][i] = f /\ OBUOf[f] = o
        BY Zenon, <2>2 DEF Precedes
      <3>2. PICK j \in 1 .. Len(log[q]) : \E i \in 1 .. j - 1 :
              /\ FirstAt(q, j) /\ log[q][j] = e
              /\ log[q][i] = f /\ OBUOf[f] = o
        BY Zenon, <3>1
      <3>3. PICK i \in 1 .. j - 1 :
              /\ FirstAt(q, j) /\ log[q][j] = e
              /\ log[q][i] = f /\ OBUOf[f] = o
        BY Zenon, <3>2
      <3>4. q = p
        BY Zenon, <1>0, <3>3 DEF Placed
      <3>5. j \in Nat /\ i \in Nat /\ i < j /\ i >= 1
        BY <1>b, <3>4
      <3>6. ~(n \in 1 .. j - 1)
        BY Zenon, <1>0, <3>3, <3>4 DEF FirstAt
      <3>7. i \in 1 .. msg.off
        BY <1>0, <3>5, <3>6
      <3>8. Computed(p, i)
        BY Zenon, <1>0, <1>a, <2>2, <3>7 DEF Cached
      <3>9. f \in DOMAIN results
        BY Zenon, <3>3, <3>4, <3>8 DEF Computed
      <3> QED
        BY Zenon, <1>3, <3>3, <3>9 DEF Cached
    <2> QED
      BY Zenon, <2>1, <2>2 DEF Right, IsFirstOfOBU
  <1> QED
    BY Zenon, <1>1, <1>2, <1>3

\* ProcessEvent caches the distance of the event in hand and, when it is new, makes
\* its point the last of its OBU.
LEMMA ProcessMemory ==
  ASSUME IndInv, ChargeInv, ProcessEvent
  PROVE  Cached' /\ NotAhead' /\ PointsFromLog'
  <1> DEFINE e == RecordInHand
             m == msg.p
             n == msg.off + 1
  <1> USE DEF ChargeInv
  <1>0. /\ e \in Events /\ m \in Partitions /\ m = Home(e) /\ msg.off \in Nat
        /\ n \in 1 .. Len(log[m]) /\ log[m][n] = e /\ position[m] = n
        /\ pc = "process" /\ pc' \in {"wait", "seek"}
        /\ UNCHANGED <<log, committed, position, msg, restarted>>
    BY Zenon, EventInHand
  <1>1. /\ results' = Put(results, e, DistanceOf(e))
        /\ prevPoints' = IF e \in DOMAIN results THEN prevPoints
                                               ELSE Put(prevPoints, OBUOf[e], At[e])
    BY Zenon, EventInHand
  <1>2. \A p \in Partitions :
          /\ Len(log[p]) \in Nat /\ position[p] \in Nat /\ committed[p] \in Nat
          /\ Holding(p)' <=> Holding(p)
          /\ Holding(p) <=> p = m
          /\ Passed(p)' = position[p]
          /\ Passed(p) = IF p = m THEN msg.off ELSE position[p]
    BY <1>0, Standing DEF Passed, Holding, Processing
  <1>3. committed[m] <= n /\ n \in Nat
    BY <1>0, <1>2, Standing
  <1>4. CASE e \in DOMAIN results
    <2>1. UNCHANGED <<log, prevPoints, results, restarted>>
      <3>1. DistanceOf(e) = results[e]
        BY Zenon, <1>4 DEF DistanceOf
      <3>2. results \in [DOMAIN results -> Nat]
        BY Zenon DEF IndInv, TypeOK, MemoryTypeOK
      <3>3. results' = results
        BY Zenon, <1>1, <1>4, <3>1, <3>2 DEF Put
      <3> QED
        BY Zenon, <1>0, <1>1, <1>4, <3>3
    <2>2. Computed(m, n)
      BY Zenon, <1>0, <1>4 DEF Computed
    <2>3. Moved
      <3>1. ASSUME NEW p \in Partitions
            PROVE  /\ {Passed(p), Passed(p)', Reach(p), Reach(p)'} \subseteq Nat
                   /\ \/ Passed(p)' <= Passed(p)
                      \/ Passed(p)' = Passed(p) + 1 /\ Computed(p, Passed(p) + 1)
                   /\ Reach(p) <= Reach(p)'
                   /\ committed'[p] > Passed(p)' => Computed(p, committed'[p])
        <4>1. CASE p = m
          BY <1>0, <1>2, <1>3, <2>2, <4>1 DEF Reach
        <4>2. CASE p # m
          BY <1>0, <1>2, <4>2 DEF Reach, Cached
        <4> QED
          BY Zenon, <4>1, <4>2
      <3> QED
        BY Zenon, <1>0, <2>2, <3>1 DEF Moved
    <2> QED
      BY Zenon, <2>1, <2>3, QuietMemory
  <1>5. CASE e \notin DOMAIN results
    <2>1. /\ DOMAIN results' = DOMAIN results \cup {e}
          /\ DOMAIN prevPoints' = DOMAIN prevPoints \cup {OBUOf[e]}
          /\ prevPoints'[OBUOf[e]] = At[e]
          /\ \A o \in DOMAIN prevPoints : o # OBUOf[e] => prevPoints'[o] = prevPoints[o]
      BY Zenon, <1>1, <1>5 DEF Put
    <2>2. \A p, k : Computed(p, k) /\ log'[p][k] \in Events => log'[p][k] \in DOMAIN results'
      BY Zenon, <1>0, <2>1 DEF Computed
    <2>3. \A p, k, o : (FirstAt(p, k)' <=> FirstAt(p, k)) /\ (OfOBU(p, k, o)' <=> OfOBU(p, k, o))
      <3>1. log' = log /\ \A p, k : FirstAt(p, k)' <=> FirstAt(p, k)
        BY Zenon, <1>0, LogSame
      <3> QED
        BY <3>1, Zenon DEF OfOBU
    <2>4. \A p \in Partitions : \A k \in 1 .. Len(log[p]) :
            FirstAt(p, k) /\ log[p][k] = e => p = m /\ k <= n
      <3> SUFFICES ASSUME NEW p \in Partitions, NEW k \in 1 .. Len(log[p]),
                          FirstAt(p, k), log[p][k] = e
                   PROVE  p = m /\ k <= n
        BY Zenon
      <3>1. p = m
        BY Zenon, <1>0 DEF Placed
      <3>2. n \notin 1 .. k - 1
        BY Zenon, <1>0, <3>1 DEF FirstAt
      <3> QED
        BY <1>0, <1>2, <1>3, <3>1, <3>2
    <2>5. Cached'
      <3>1. log'[m][n] \in DOMAIN results'
        BY ZenonT(40), <1>0, <2>1
      <3>2. ASSUME NEW p \in Partitions, committed[p] > position[p]
            PROVE  log'[p][committed[p]] \in Events => log'[p][committed[p]] \in DOMAIN results'
        <4>1. p # m
          BY <1>0, <1>2, <1>3, <3>2
        <4>2. Computed(p, committed[p])
          BY Zenon, <1>0, <1>2, <3>2, <4>1 DEF Cached
        <4> QED
          BY Zenon, <2>2, <4>2
      <3>3. ASSUME NEW p \in Partitions, ~restarted, NEW k \in 1 .. position[p]
            PROVE  log'[p][k] \in Events => log'[p][k] \in DOMAIN results'
        <4>1. CASE p = m /\ k = n
          BY Zenon, <3>1, <4>1
        <4>2. CASE ~(p = m /\ k = n)
          <5>1. k \in 1 .. Passed(p)
            BY <1>0, <1>2, <1>3, <3>3, <4>2
          <5>2. Computed(p, k)
            BY Zenon, <1>0, <3>3, <5>1 DEF Cached
          <5> QED
            BY Zenon, <2>2, <5>2
        <4> QED
          BY Zenon, <4>1, <4>2
      <3>4. \A f \in DOMAIN results' : OBUOf[f] \in DOMAIN prevPoints'
        BY Zenon, <2>1 DEF Cached
      <3>5. (pc \in {"wait", "commit", "seek"} => Computed(msg.p, msg.off + 1))'
        BY Zenon, <1>0, <3>1 DEF Computed
      <3>6. ASSUME NEW p \in Partitions
            PROVE  /\ (committed[p] > Passed(p) => Computed(p, committed[p]))'
                   /\ (~restarted => \A k \in 1 .. Passed(p) : Computed(p, k))'
        BY Zenon, <1>0, <1>2, <3>2, <3>3 DEF Computed
      <3> QED
        BY Zenon, <3>4, <3>5, <3>6 DEF Cached
    <2>6. NotAhead'
      <3> SUFFICES ASSUME NEW p \in Partitions, NEW k \in 1 .. Len(log[p]),
                          FirstAt(p, k), log[p][k] \in DOMAIN results'
                   PROVE  k <= (IF Holding(p) THEN position[p] ELSE position[p] + 1)
        BY ZenonT(40), <1>0, <1>2, <2>3 DEF NotAhead
      <3>1. CASE log[p][k] \in DOMAIN results
        BY Zenon, <1>0, <3>1 DEF NotAhead
      <3>2. CASE log[p][k] = e
        BY Zenon, <1>0, <1>2, <2>4, <3>2
      <3> QED
        BY Zenon, <2>1, <3>1, <3>2
    <2>7. PointsFromLog'
      <3> SUFFICES ASSUME InOrder', NEW o \in DOMAIN prevPoints'
                   PROVE  \E i \in 1 .. Len(log[PartitionOf[o]]) :
                            /\ LastOf(o, PartitionOf[o], i)'
                            /\ prevPoints'[o] = At[log[PartitionOf[o]][i]]
        BY Zenon, <1>0 DEF PointsFromLog
      <3>0. InOrder
        BY Zenon, <1>0, LogSame DEF InOrder
      <3>1. CASE o = OBUOf[e]
        <4>1. PartitionOf[o] = m
          BY Zenon, <1>0, <3>1 DEF Home
        <4>2. FirstAt(m, n) /\ OfOBU(m, n, o)
          BY Zenon, <1>0, <1>5, <3>0, <3>1, FirstTime DEF OfOBU
        <4>3. ASSUME NEW k \in n + 1 .. Len(log[m]), OfOBU(m, k, o)
              PROVE  k > n /\ log[m][k] \notin DOMAIN results'
          <5>1. k \in 1 .. Len(log[m]) /\ k > n /\ k \in Nat
            BY <1>0, <1>2, <1>3, <4>3
          <5>2. FirstAt(m, k)
            BY Zenon, <4>3 DEF OfOBU
          <5>3. log[m][k] # e
            BY <1>0, <1>3, <2>4, <5>1, <5>2
          <5>4. log[m][k] \notin DOMAIN results
            BY <1>0, <1>2, <1>3, <5>1, <5>2 DEF NotAhead
          <5> QED
            BY Zenon, <2>1, <5>1, <5>3, <5>4
        <4>4. PICK i \in Nat : i = n
          BY Zenon, <1>3
        <4>5. i \in 1 .. Len(log[PartitionOf[o]]) /\ Passed(PartitionOf[o])' = i
          BY Zenon, <1>0, <1>2, <4>1, <4>4
        <4>6. /\ OfOBU(PartitionOf[o], i, o)'
              /\ log'[PartitionOf[o]][i] \in DOMAIN results'
              /\ \A k \in i + 1 .. Len(log'[PartitionOf[o]]) :
                   OfOBU(PartitionOf[o], k, o)' =>
                     k > i /\ log'[PartitionOf[o]][k] \notin DOMAIN results'
          BY Zenon, <1>0, <2>1, <2>3, <4>1, <4>2, <4>3, <4>4
        <4>7. LastOf(o, PartitionOf[o], i)'
          BY Zenon, <4>5, <4>6 DEF LastOf
        <4>8. prevPoints'[o] = At[log[PartitionOf[o]][i]]
          BY Zenon, <1>0, <2>1, <3>1, <4>1, <4>4
        <4> QED
          BY Zenon, <4>5, <4>7, <4>8
      <3>2. CASE o # OBUOf[e]
        <4>1. o \in DOMAIN prevPoints /\ prevPoints'[o] = prevPoints[o]
          BY Zenon, <2>1, <3>2
        <4>2. PICK i \in 1 .. Len(log[PartitionOf[o]]) :
                 /\ LastOf(o, PartitionOf[o], i)
                 /\ prevPoints[o] = At[log[PartitionOf[o]][i]]
          BY Zenon, <1>0, <3>0, <4>1 DEF PointsFromLog
        <4>3. PartitionOf[o] \in Partitions
          BY Zenon, <4>1, EventAssumption DEF IndInv, TypeOK, MemoryTypeOK
        <4>4. ASSUME NEW k \in i + 1 .. Len(log[PartitionOf[o]]), OfOBU(PartitionOf[o], k, o)
              PROVE  /\ k > position[PartitionOf[o]]
                     /\ log[PartitionOf[o]][k] \notin DOMAIN results'
          <5>1. /\ k > Passed(PartitionOf[o]) /\ k \in Int
                /\ log[PartitionOf[o]][k] \notin DOMAIN results
            BY <4>2, <4>4 DEF LastOf
          <5>2. log[PartitionOf[o]][k] # e
            BY Zenon, <3>2, <4>4 DEF OfOBU
          <5>3. ~(PartitionOf[o] = m /\ k = n)
            BY Zenon, <1>0, <5>2
          <5> QED
            BY <1>0, <1>2, <2>1, <4>3, <5>1, <5>2, <5>3
        <4>5. LastOf(o, PartitionOf[o], i)'
          <5>1. OfOBU(PartitionOf[o], i, o)' /\ log'[PartitionOf[o]][i] \in DOMAIN results'
            BY Zenon, <1>0, <2>1, <2>3, <4>2 DEF LastOf
          <5>2. \A k \in i + 1 .. Len(log'[PartitionOf[o]]) :
                  OfOBU(PartitionOf[o], k, o)' =>
                    k > Passed(PartitionOf[o])' /\ log'[PartitionOf[o]][k] \notin DOMAIN results'
            BY Zenon, <1>0, <1>2, <2>3, <4>3, <4>4
          <5> QED
            BY Zenon, <5>1, <5>2 DEF LastOf
        <4> QED
          BY Zenon, <4>1, <4>2, <4>5
      <3> QED
        BY Zenon, <3>1, <3>2
    <2> QED
      BY Zenon, <2>5, <2>6, <2>7
  <1> QED
    BY Zenon, <1>4, <1>5
\* Requests and charges come from the requests before, ProcessEvent's excepted.
LEMMA ChargesFromWire ==
  ASSUME [Next]_vars, ~ProcessEvent, AggregatorTypeOK, CallTypeOK
  PROVE  /\ wire' \subseteq wire
         /\ \A e \in DOMAIN ledger' :
              \/ e \in DOMAIN ledger /\ ledger'[e].Value = ledger[e].Value
              \/ \E r \in wire : r.EventID = e /\ ledger'[e].Value = r.Value
  <1> DEFINE Goal == /\ wire' \subseteq wire
                     /\ \A e \in DOMAIN ledger' :
                          \/ e \in DOMAIN ledger /\ ledger'[e].Value = ledger[e].Value
                          \/ \E r \in wire : r.EventID = e /\ ledger'[e].Value = r.Value
  <1>1. CASE UNCHANGED <<wire, ledger>>
    BY Zenon, <1>1
  <1>2. ASSUME NEW r \in wire, Insert(r) PROVE Goal
    <2>1. wire' \subseteq wire
      BY Zenon, <1>2 DEF Insert, Answer
    <2>2. CASE r.EventID \in DOMAIN ledger
      BY Zenon, <1>2, <2>1, <2>2 DEF Insert
    <2>3. CASE r.EventID \notin DOMAIN ledger
      <3>1. ledger' = Put(ledger, r.EventID, [OBUID |-> r.OBUID, Value |-> r.Value])
        BY Zenon, <1>2, <2>3 DEF Insert
      <3> QED
        BY ZenonT(40), <2>1, <3>1 DEF Put
    <2> QED
      BY Zenon, <2>2, <2>3
  <1>3. ASSUME NEW r \in wire, Reject(r) \/ LoseRequest(r) PROVE Goal
    BY Zenon, <1>3 DEF Reject, LoseRequest, Answer, aggregator
  <1>4. CASE AggregatorRestart
    BY Zenon, <1>4 DEF AggregatorRestart, rpc, EmptyMap
  <1>5. CASE Loop
    BY Zenon, <1>1, <1>5 DEF Loop, LoopTop, ReadMessage, ReadFails, DiscardInvalid, CallReturns,
       CallFails, Commit, CommitFails, SeekBack, SeekFails, rpc, aggregator
  <1>6. CASE Rebalance \/ Stop \/ Crash \/ Restart \/ UNCHANGED vars
    <2>1. Rebalance => UNCHANGED <<wire, ledger>>
      BY Zenon DEF Rebalance, rpc, aggregator
    <2>2. Stop => UNCHANGED <<wire, ledger>>
      BY Zenon DEF Stop, rpc, aggregator
    <2>3. Crash => UNCHANGED <<wire, ledger>>
      BY Zenon DEF Crash, rpc, aggregator
    <2>4. Restart => UNCHANGED <<wire, ledger>>
      BY Zenon DEF Restart, rpc, aggregator
    <2>5. UNCHANGED vars => UNCHANGED <<wire, ledger>>
      BY Zenon DEF vars, rpc, aggregator
    <2> QED
      BY Zenon, <1>1, <1>6, <2>1, <2>2, <2>3, <2>4, <2>5
  <1>7. ASSUME NEW p \in Partitions, NEW r \in Events \cup {BadRecord}, Publish(p, r)
        PROVE  Goal
    <2>1. UNCHANGED <<wire, ledger>>
      BY Zenon, <1>7 DEF Publish, rpc, aggregator
    <2> QED
      BY Zenon, <1>1, <2>1
  <1> QED
    BY Zenon, <1>2, <1>3, <1>4, <1>5, <1>6, <1>7 DEF Next, Handle

-----------------------------------------------------------------------------
\* What Publish leaves alone: the places before the new record.
LEMMA LogPrefix ==
  ASSUME KafkaTypeOK, NEW q \in Partitions, NEW r \in Events \cup {BadRecord},
         Publish(q, r), NEW p \in Partitions
  PROVE  /\ Len(log[p]) \in Nat /\ Len(log'[p]) \in Nat
         /\ Len(log[p]) <= Len(log'[p])
         /\ \A k \in 1 .. Len(log[p]) :
               log'[p][k] = log[p][k] /\ (FirstAt(p, k)' <=> FirstAt(p, k))
         /\ \A k \in 1 .. Len(log'[p]) :
               k \in 1 .. Len(log[p]) \/ (p = q /\ k = Len(log[q]) + 1 /\ log'[p][k] = r)
  <1>1. /\ Len(log[p]) \in Nat /\ Len(log'[p]) \in Nat
        /\ Len(log[p]) <= Len(log'[p])
        /\ \A k \in 1 .. Len(log[p]) : log'[p][k] = log[p][k]
    BY Zenon, PublishGrows
  <1>2. ASSUME NEW k \in 1 .. Len(log[p]) PROVE FirstAt(p, k)' <=> FirstAt(p, k)
    <2>1. \A j \in 1 .. k - 1 : log'[p][j] = log[p][j]
      BY <1>1
    <2> QED
      BY Zenon, <1>1, <2>1 DEF FirstAt
  <1>3. \A k \in 1 .. Len(log'[p]) :
          k \in 1 .. Len(log[p]) \/ (p = q /\ k = Len(log[q]) + 1 /\ log'[p][k] = r)
    BY DEF Publish, KafkaTypeOK
  <1> QED
    BY Zenon, <1>1, <1>2, <1>3

\* An event stays in its log.
LEMMA InLogStays ==
  ASSUME KafkaTypeOK, NEW q \in Partitions, NEW r \in Events \cup {BadRecord},
         Publish(q, r), NEW e \in Events, InLog(e)
  PROVE  InLog(e)'
  <1>0. Home(e) \in Partitions
    BY Zenon, EventAssumption DEF Home, OBUs
  <1>1. PICK k \in 1 .. Len(log[Home(e)]) : log[Home(e)][k] = e
    BY Zenon DEF InLog
  <1>2. k \in 1 .. Len(log'[Home(e)]) /\ log'[Home(e)][k] = e
    BY <1>0, <1>1, LogPrefix
  <1> QED
    BY Zenon, <1>2 DEF InLog, Home

\* Publish adds at the end of a log: it neither moves nor separates two events, and
\* puts none before an event that is there.
LEMMA PublishKeeps ==
  ASSUME KafkaTypeOK, Placed, Placed', NEW q \in Partitions,
         NEW r \in Events \cup {BadRecord}, Publish(q, r)
  PROVE  /\ \A e \in Events : InLog(e) => InLog(e)'
         /\ \A e, v : IsStep(e, v) => IsStep(e, v)'
         /\ \A e \in Events : InLog(e) /\ IsFirstOfOBU(e) => IsFirstOfOBU(e)'
         /\ Repeated => Repeated'
  <1>1. \A e \in Events : InLog(e) => InLog(e)'
    BY Zenon, InLogStays
  <1>2. ASSUME NEW f, NEW e, Precedes(f, e) PROVE Precedes(f, e)'
    <2>1. PICK p \in Partitions : \E j \in 1 .. Len(log[p]) : \E i \in 1 .. j - 1 :
            /\ FirstAt(p, i) /\ log[p][i] = f
            /\ FirstAt(p, j) /\ log[p][j] = e
            /\ OBUOf[f] = OBUOf[e]
            /\ \A k \in i + 1 .. j - 1 : FirstAt(p, k) => OBUOf[log[p][k]] # OBUOf[e]
      BY Zenon, <1>2 DEF Precedes
    <2>a. PICK j \in 1 .. Len(log[p]) : \E i \in 1 .. j - 1 :
            /\ FirstAt(p, i) /\ log[p][i] = f
            /\ FirstAt(p, j) /\ log[p][j] = e
            /\ OBUOf[f] = OBUOf[e]
            /\ \A k \in i + 1 .. j - 1 : FirstAt(p, k) => OBUOf[log[p][k]] # OBUOf[e]
      BY Zenon, <2>1
    <2>2. PICK i \in 1 .. j - 1 :
            /\ FirstAt(p, i) /\ log[p][i] = f
            /\ FirstAt(p, j) /\ log[p][j] = e
            /\ OBUOf[f] = OBUOf[e]
            /\ \A k \in i + 1 .. j - 1 : FirstAt(p, k) => OBUOf[log[p][k]] # OBUOf[e]
      BY Zenon, <2>a
    <2>3. /\ Len(log[p]) \in Nat /\ Len(log'[p]) \in Nat
          /\ Len(log[p]) <= Len(log'[p])
          /\ \A k \in 1 .. Len(log[p]) :
                log'[p][k] = log[p][k] /\ (FirstAt(p, k)' <=> FirstAt(p, k))
      BY Zenon, LogPrefix
    <2>4. /\ j \in 1 .. Len(log'[p]) /\ i \in 1 .. Len(log[p])
          /\ \A k \in i + 1 .. j - 1 : k \in 1 .. Len(log[p])
      BY <2>3
    <2>5. /\ FirstAt(p, i)' /\ log'[p][i] = f
          /\ FirstAt(p, j)' /\ log'[p][j] = e
          /\ \A k \in i + 1 .. j - 1 : FirstAt(p, k)' => OBUOf[log'[p][k]] # OBUOf[e]
      BY Zenon, <2>2, <2>3, <2>4
    <2> QED
      BY Zenon, <2>2, <2>4, <2>5 DEF Precedes
  <1>3. ASSUME NEW f, NEW e \in Events, InLog(e), Precedes(f, e)' PROVE Precedes(f, e)
    <2>1. PICK p \in Partitions : \E j \in 1 .. Len(log'[p]) : \E i \in 1 .. j - 1 :
            /\ FirstAt(p, i)' /\ log'[p][i] = f
            /\ FirstAt(p, j)' /\ log'[p][j] = e
            /\ OBUOf[f] = OBUOf[e]
            /\ \A k \in i + 1 .. j - 1 : FirstAt(p, k)' => OBUOf[log'[p][k]] # OBUOf[e]
      BY Zenon, <1>3 DEF Precedes
    <2>a. PICK j \in 1 .. Len(log'[p]) : \E i \in 1 .. j - 1 :
            /\ FirstAt(p, i)' /\ log'[p][i] = f
            /\ FirstAt(p, j)' /\ log'[p][j] = e
            /\ OBUOf[f] = OBUOf[e]
            /\ \A k \in i + 1 .. j - 1 : FirstAt(p, k)' => OBUOf[log'[p][k]] # OBUOf[e]
      BY Zenon, <2>1
    <2>2. PICK i \in 1 .. j - 1 :
            /\ FirstAt(p, i)' /\ log'[p][i] = f
            /\ FirstAt(p, j)' /\ log'[p][j] = e
            /\ OBUOf[f] = OBUOf[e]
            /\ \A k \in i + 1 .. j - 1 : FirstAt(p, k)' => OBUOf[log'[p][k]] # OBUOf[e]
      BY Zenon, <2>a
    <2>3. /\ Len(log[p]) \in Nat /\ Len(log'[p]) \in Nat
          /\ Len(log[p]) <= Len(log'[p])
          /\ \A k \in 1 .. Len(log[p]) :
                log'[p][k] = log[p][k] /\ (FirstAt(p, k)' <=> FirstAt(p, k))
      BY Zenon, LogPrefix
    <2>4. j \in 1 .. Len(log[p])
      <3>1. p = Home(e)
        BY Zenon, <2>2 DEF Placed, Home
      <3>2. PICK k \in 1 .. Len(log[p]) : log[p][k] = e
        BY Zenon, <1>3, <3>1 DEF InLog
      <3>3. log'[p][k] = e /\ k \in Nat /\ k >= 1 /\ j \in Nat
        BY <2>3, <3>2
      <3>4. \A x \in 1 .. j - 1 : log'[p][x] # e
        BY Zenon, <2>2 DEF FirstAt
      <3>5. k \notin 1 .. j - 1
        BY Zenon, <3>3, <3>4
      <3> QED
        BY <2>3, <3>2, <3>3, <3>5
    <2>5. /\ i \in 1 .. Len(log[p])
          /\ \A k \in i + 1 .. j - 1 : k \in 1 .. Len(log[p])
      BY <2>3, <2>4
    <2>6. /\ FirstAt(p, i) /\ log[p][i] = f
          /\ FirstAt(p, j) /\ log[p][j] = e
          /\ \A k \in i + 1 .. j - 1 : FirstAt(p, k) => OBUOf[log[p][k]] # OBUOf[e]
      BY Zenon, <2>2, <2>3, <2>4, <2>5
    <2> QED
      BY Zenon, <2>2, <2>4, <2>6 DEF Precedes
  <1>4. ASSUME Repeated PROVE Repeated'
    <2>1. PICK p \in Partitions : \E j \in 1 .. Len(log[p]) :
            log[p][j] \in Events /\ ~FirstAt(p, j)
      BY Zenon, <1>4 DEF Repeated
    <2>2. PICK j \in 1 .. Len(log[p]) : log[p][j] \in Events /\ ~FirstAt(p, j)
      BY Zenon, <2>1
    <2>3. j \in 1 .. Len(log'[p]) /\ log'[p][j] \in Events /\ ~FirstAt(p, j)'
      BY <2>2, LogPrefix
    <2> QED
      BY Zenon, <2>3 DEF Repeated
  <1> QED
    BY Zenon, <1>1, <1>2, <1>3, <1>4 DEF IsStep, IsFirstOfOBU

\* A new record is beyond everything the loop has passed, and at the first place of
\* its event nothing is cached for it.
LEMMA PublishMemory ==
  ASSUME IndInv, Placed, Placed', Cached, NotAhead, PointsFromLog,
         NEW q \in Partitions, NEW r \in Events \cup {BadRecord}, Publish(q, r)
  PROVE  Cached' /\ NotAhead' /\ PointsFromLog'
  <1>t. KafkaTypeOK
    BY Zenon DEF IndInv, TypeOK
  <1>1. UNCHANGED <<committed, position, pc, msg, prevPoints, results, restarted>>
    BY Zenon DEF Publish, memory, incidents
  <1>2. \A p \in Partitions :
          /\ Holding(p)' <=> Holding(p)
          /\ Passed(p)' = Passed(p)
    BY Zenon, <1>1 DEF Passed, Holding
  <1>3. \A p \in Partitions : \A k \in 1 .. Len(log[p]) :
          /\ Computed(p, k)' <=> Computed(p, k)
          /\ \A o : OfOBU(p, k, o)' <=> OfOBU(p, k, o)
    BY ZenonT(40), <1>1, <1>t, LogPrefix DEF Computed, OfOBU
  <1>4. ASSUME NEW p \in Partitions, NEW k \in 1 .. Len(log'[p]),
               k \notin 1 .. Len(log[p]), FirstAt(p, k)'
        PROVE  log'[p][k] \notin DOMAIN results
    <2>1. /\ p = q /\ k = Len(log[q]) + 1 /\ log'[p][k] = r
          /\ Len(log[q]) \in Nat
          /\ \A j \in 1 .. Len(log[q]) : log'[q][j] = log[q][j]
      BY <1>4, <1>t, LogPrefix
    <2>2. p = Home(r)
      BY Zenon, <1>4, <2>1 DEF Placed, FirstAt, Home
    <2>3. SUFFICES ASSUME r \in DOMAIN results PROVE FALSE
      BY Zenon, <2>1
    <2>4. PICK j \in 1 .. Len(log[q]) : log[q][j] = r
      BY <2>1, <2>2, <2>3 DEF Placed, InLog
    <2>5. j \in 1 .. k - 1 /\ log'[p][j] = log'[p][k]
      BY <2>1, <2>4
    <2> QED
      BY Zenon, <1>4, <2>5 DEF FirstAt
  <1>5. Cached'
    <2>1. ASSUME pc \in {"wait", "commit", "seek"} PROVE Computed(msg.p, msg.off + 1)'
      <3>1. msg.p \in Partitions /\ msg.off + 1 \in 1 .. Len(log[msg.p])
        BY Zenon, <2>1, RecordType DEF IndInv, TypeOK, Processing
      <3> QED
        BY Zenon, <1>1, <1>3, <2>1, <3>1 DEF Cached, Computed
    <2>2. ASSUME pc # "exited", NEW p \in Partitions
          PROVE  /\ committed[p] > Passed(p) => Computed(p, committed[p])'
                 /\ ~restarted => \A k \in 1 .. Passed(p) : Computed(p, k)'
      <3>1. /\ committed[p] \in Nat /\ Passed(p) \in Nat /\ Len(log[p]) \in Nat
            /\ committed[p] <= Len(log[p]) /\ Passed(p) <= Len(log[p])
        BY Zenon, <2>2, Standing
      <3>2. committed[p] > Passed(p) => committed[p] \in 1 .. Len(log[p])
        BY <3>1
      <3>3. \A k \in 1 .. Passed(p) : k \in 1 .. Len(log[p])
        BY <3>1
      <3> QED
        BY Zenon, <1>1, <1>3, <2>2, <3>2, <3>3 DEF Cached, Computed
    <2> QED
      BY Zenon, <1>1, <1>2, <2>1, <2>2 DEF Cached, Computed
  <1>6. NotAhead'
    <2> SUFFICES ASSUME pc # "exited", NEW p \in Partitions, NEW k \in 1 .. Len(log'[p]),
                        FirstAt(p, k)', log'[p][k] \in DOMAIN results
                 PROVE  k <= (IF Holding(p) THEN position[p] ELSE position[p] + 1)
      BY Zenon, <1>1, <1>2 DEF NotAhead
    <2>1. k \in 1 .. Len(log[p])
      BY Zenon, <1>4
    <2>2. FirstAt(p, k) /\ log[p][k] \in DOMAIN results
      BY Zenon, <1>t, <2>1, LogPrefix
    <2> QED
      BY Zenon, <2>1, <2>2 DEF NotAhead
  <1>7. PointsFromLog'
    <2> SUFFICES ASSUME pc # "exited", InOrder', NEW o \in DOMAIN prevPoints
                 PROVE  \E i \in 1 .. Len(log'[PartitionOf[o]]) :
                          /\ LastOf(o, PartitionOf[o], i)'
                          /\ prevPoints[o] = At[log'[PartitionOf[o]][i]]
      BY Zenon, <1>1 DEF PointsFromLog
    <2> DEFINE p == PartitionOf[o]
    <2>1. InOrder
      BY Zenon, <1>1, <1>t, PublishKeeps DEF InOrder
    <2>2. p \in Partitions
      BY Zenon, EventAssumption DEF IndInv, TypeOK, MemoryTypeOK
    <2>3. PICK i \in 1 .. Len(log[p]) :
            LastOf(o, p, i) /\ prevPoints[o] = At[log[p][i]]
      BY Zenon, <2>1 DEF PointsFromLog
    <2> HIDE DEF p
    <2>4. /\ Len(log[p]) \in Nat /\ Len(log'[p]) \in Nat /\ Len(log[p]) <= Len(log'[p])
          /\ \A k \in 1 .. Len(log[p]) : log'[p][k] = log[p][k]
          /\ Passed(p) \in Nat /\ Passed(p) <= Len(log[p])
      BY Zenon, <1>t, <2>2, LogPrefix, Standing
    <2>5. ASSUME NEW k \in i + 1 .. Len(log'[p]), OfOBU(p, k, o)'
          PROVE  k > Passed(p)' /\ log'[p][k] \notin DOMAIN results
      <3>0. k \in 1 .. Len(log'[p]) /\ k \in Nat
        BY <2>3, <2>4
      <3>1. CASE k \in 1 .. Len(log[p])
        <4>1. k \in i + 1 .. Len(log[p]) /\ OfOBU(p, k, o) /\ log'[p][k] = log[p][k]
          BY <1>3, <2>2, <2>4, <2>5, <3>1
        <4> QED
          BY Zenon, <1>2, <2>2, <2>3, <4>1 DEF LastOf
      <3>2. CASE k \notin 1 .. Len(log[p])
        <4>1. k > Len(log[p])
          BY <2>4, <3>0, <3>2
        <4>2. log'[p][k] \notin DOMAIN results
          BY Zenon, <1>4, <2>2, <2>5, <3>0, <3>2 DEF OfOBU
        <4> QED
          BY <1>2, <2>2, <2>4, <3>0, <4>1, <4>2
      <3> QED
        BY Zenon, <3>1, <3>2
    <2>6. OfOBU(p, i, o)' /\ log'[p][i] = log[p][i] /\ i \in 1 .. Len(log'[p])
      BY <1>3, <2>2, <2>3, <2>4 DEF LastOf
    <2>7. LastOf(o, p, i)'
      BY Zenon, <1>1, <2>3, <2>5, <2>6 DEF LastOf
    <2> QED
      BY Zenon, <2>3, <2>6, <2>7 DEF p
  <1> QED
    BY Zenon, <1>5, <1>6, <1>7

\* A restarted loop remembers nothing and has passed what is committed.
LEMMA RestartMemory ==
  ASSUME IndInv, Restart
  PROVE  Cached' /\ NotAhead' /\ PointsFromLog'
  <1>1. /\ DOMAIN results' = {} /\ DOMAIN prevPoints' = {} /\ restarted' /\ pc' = "top"
        /\ position' = committed /\ committed' = committed
    BY Zenon DEF Restart, EmptyMap, kafka
  <1>2. \A p \in Partitions : Passed(p)' = committed[p] /\ committed[p] \in Nat
    BY Zenon, <1>1 DEF Passed, Holding, Processing, IndInv, TypeOK, KafkaTypeOK
  <1>3. Cached'
    BY <1>1, <1>2 DEF Cached
  <1>4. NotAhead' /\ PointsFromLog'
    BY Zenon, <1>1 DEF NotAhead, PointsFromLog
  <1> QED
    BY Zenon, <1>3, <1>4
-----------------------------------------------------------------------------
\* Events are in the partitions of their OBUs, and everything else is about them.
LEMMA PlacedStep ==
  ASSUME IndInv, Placed, [Next]_vars
  PROVE  Placed'
  <1>t. KafkaTypeOK /\ AggregatorTypeOK /\ CallTypeOK /\ MemoryTypeOK
    BY Zenon DEF IndInv, TypeOK
  <1>a. (\A r \in wire : r.EventID \in Events) /\ DOMAIN ledger \subseteq Events
        /\ DOMAIN results \subseteq Events
    BY ZenonT(40), <1>t DEF CallTypeOK, Request, AggregatorTypeOK, MemoryTypeOK
  <1>1. ASSUME NEW q \in Partitions, NEW r \in Events \cup {BadRecord}, Publish(q, r)
        PROVE  Placed'
    <2>1. UNCHANGED <<results, wire, ledger>>
      BY Zenon, <1>1 DEF Publish, memory, rpc, aggregator
    <2>2. \A e \in Events : InLog(e) => InLog(e)'
      BY Zenon, <1>t, <1>1, InLogStays
    <2>3. ASSUME NEW p \in Partitions, NEW k \in 1 .. Len(log'[p]), log'[p][k] \in Events
          PROVE  p = Home(log'[p][k])
      <3>1. CASE k \in 1 .. Len(log[p])
        BY Zenon, <1>1, <1>t, <2>3, <3>1, LogPrefix DEF Placed
      <3>2. CASE p = q /\ log'[p][k] = r
        BY Zenon, <1>1, <2>3, <3>2 DEF Publish, Home
      <3> QED
        BY <1>1, <1>t, <3>1, <3>2, LogPrefix
    <2> QED
      BY Zenon, <1>a, <2>1, <2>2, <2>3 DEF Placed, Home
  <1>2. CASE ProcessEvent
    <2>1. /\ InLog(RecordInHand)
          /\ UNCHANGED <<log, ledger>>
          /\ DOMAIN results' = DOMAIN results \cup {RecordInHand}
          /\ \A r \in wire' : r \in wire \/ r.EventID = RecordInHand
      BY Zenon, <1>2, EventInHand DEF Put
    <2>2. \A e : InLog(e)' <=> InLog(e)
      BY Zenon, <2>1, LogSame
    <2> QED
      BY Zenon, <2>1, <2>2 DEF Placed
  <1>3. CASE UNCHANGED log /\ DOMAIN results' \subseteq DOMAIN results /\ ~ProcessEvent
    <2>1. \A e : InLog(e)' <=> InLog(e)
      BY Zenon, <1>3, LogSame
    <2>2. wire' \subseteq wire /\ \A e \in DOMAIN ledger' :
             e \in DOMAIN ledger \/ \E r \in wire : r.EventID = e
      BY Zenon, <1>3, <1>t, ChargesFromWire
    <2> QED
      BY Zenon, <1>3, <2>1, <2>2 DEF Placed
  <1>4. CASE Restart
    BY Zenon, <1>3, <1>4 DEF Restart, kafka, EmptyMap, ProcessEvent
  <1> QED
    BY Zenon, <1>1, <1>2, <1>3, <1>4, QuietFrame

\* A restart only weakens what is right, a longer log only adds to it.
LEMMA RightStays ==
  ASSUME IndInv, Placed, Placed', [Next]_vars
  PROVE  /\ InOrder' => InOrder
         /\ \A e \in Events : \A v : InLog(e) /\ Right(e, v) => Right(e, v)'
  <1>t. KafkaTypeOK /\ restarted \in BOOLEAN
    BY Zenon DEF IndInv, TypeOK, FlagsTypeOK
  <1>1. restarted => restarted'
    <2>1. CASE ~Restart
      BY ZenonT(40), <2>1 DEF Next, Loop, Publish, Rebalance, LoopTop, ReadMessage, ReadFails,
         DiscardInvalid, ProcessEvent, CallReturns, CallFails, Commit, CommitFails,
         SeekBack, SeekFails, Handle, Insert, Reject, Answer, LoseRequest, Stop,
         Crash, AggregatorRestart, incidents, vars
    <2> QED
      BY Zenon, <2>1 DEF Restart
  <1>2. CASE UNCHANGED log
    BY Zenon, <1>1, <1>2, LogSame DEF InOrder, Right
  <1>3. ASSUME NEW q \in Partitions, NEW r \in Events \cup {BadRecord}, Publish(q, r)
        PROVE  /\ InOrder' => InOrder
               /\ \A e \in Events : \A v : InLog(e) /\ Right(e, v) => Right(e, v)'
    BY Zenon, <1>t, <1>1, <1>3, PublishKeeps DEF InOrder, Right
  <1>4. UNCHANGED log \/ \E q \in Partitions, r \in Events \cup {BadRecord} : Publish(q, r)
    BY ZenonT(40) DEF Next, Loop, Rebalance, LoopTop, ReadMessage, ReadFails,
       DiscardInvalid, ProcessEvent, CallReturns, CallFails, Commit, CommitFails,
       SeekBack, SeekFails, Handle, Insert, Reject, Answer, LoseRequest, Stop,
       Crash, Restart, AggregatorRestart, kafka, vars
  <1> QED
    BY Zenon, <1>2, <1>3, <1>4

\* Every step keeps what was computed, sent and charged right.
LEMMA AllRightStep ==
  ASSUME IndInv, ChargeInv, Placed', [Next]_vars
  PROVE  AllRight'
  <1> USE DEF ChargeInv
  <1> SUFFICES ASSUME InOrder'
               PROVE  /\ \A e \in DOMAIN results' : Right(e, results[e])'
                      /\ \A r \in wire' : Right(r.EventID, r.Value)'
                      /\ \A e \in DOMAIN ledger' : Right(e, ledger[e].Value)'
    BY Zenon DEF AllRight
  <1>t. /\ DOMAIN results \subseteq Events /\ DOMAIN ledger \subseteq Events
        /\ \A r \in wire : r.EventID \in Events
        /\ AggregatorTypeOK /\ CallTypeOK
    BY Zenon DEF IndInv, TypeOK, MemoryTypeOK, AggregatorTypeOK, CallTypeOK, Request
  <1>0. InOrder
    BY Zenon, RightStays
  <1>r. \A e \in DOMAIN results : \A v : v = results[e] => Right(e, v)'
    <2>1. \A e \in DOMAIN results : e \in Events /\ InLog(e) /\ Right(e, results[e])
      BY Zenon, <1>t, <1>0 DEF AllRight, Placed
    <2> QED
      BY Zenon, <2>1, RightStays
  <1>w. \A r \in wire : Right(r.EventID, r.Value)'
    BY Zenon, <1>t, <1>0, RightStays DEF AllRight, Placed
  <1>l. \A e \in DOMAIN ledger : \A v : v = ledger[e].Value => Right(e, v)'
    BY Zenon, <1>t, <1>0, RightStays DEF AllRight, Placed
  <1>1. CASE ProcessEvent
    <2>1. /\ results' = Put(results, RecordInHand, DistanceOf(RecordInHand))
          /\ ledger' = ledger /\ RecordInHand \in Events /\ InLog(RecordInHand)
          /\ \A r \in wire' :
               r \in wire \/ (r.EventID = RecordInHand /\ r.Value = DistanceOf(RecordInHand))
      BY Zenon, <1>1, EventInHand
    <2>2. \A e, v : e = RecordInHand /\ v = DistanceOf(RecordInHand) => Right(e, v)'
      <3>1. Right(RecordInHand, DistanceOf(RecordInHand))
        BY Zenon, <1>0, <1>1, NewDistance
      <3> QED
        BY Zenon, <2>1, <3>1, RightStays
    <2>3. \A e \in DOMAIN results' : Right(e, results[e])'
      <3> SUFFICES ASSUME NEW e \in DOMAIN results', NEW v, v = results'[e]
                   PROVE  Right(e, v)'
        BY Zenon DEF Right
      <3>1. CASE e = RecordInHand
        BY Zenon, <2>1, <2>2, <3>1 DEF Put
      <3>2. CASE e # RecordInHand
        BY Zenon, <1>r, <2>1, <3>2 DEF Put
      <3> QED
        BY Zenon, <3>1, <3>2
    <2>4. \A r \in wire' : Right(r.EventID, r.Value)'
      BY Zenon, <1>w, <2>1, <2>2
    <2>5. \A e \in DOMAIN ledger' : Right(e, ledger[e].Value)'
      BY Zenon, <1>l, <2>1 DEF Right
    <2> QED
      BY Zenon, <2>3, <2>4, <2>5
  <1>2. CASE ~ProcessEvent
    <2>1. /\ wire' \subseteq wire
          /\ \A e \in DOMAIN ledger' :
               \/ e \in DOMAIN ledger /\ ledger'[e].Value = ledger[e].Value
               \/ \E r \in wire : r.EventID = e /\ ledger'[e].Value = r.Value
      BY Zenon, <1>t, <1>2, ChargesFromWire
    <2>2. DOMAIN results' = {} \/ results' = results
      BY ZenonT(40), <1>2, QuietFrame DEF Restart, EmptyMap, Publish, memory
    <2>3. \A e \in DOMAIN results' : Right(e, results[e])'
      BY Zenon, <1>r, <2>2 DEF Right
    <2>4. \A e \in DOMAIN ledger' : Right(e, ledger[e].Value)'
      <3> SUFFICES ASSUME NEW e \in DOMAIN ledger', NEW v, v = ledger'[e].Value
                   PROVE  Right(e, v)'
        BY Zenon DEF Right
      <3> QED
        BY Zenon, <1>w, <1>l, <2>1
    <2> QED
      BY Zenon, <1>w, <2>1, <2>3, <2>4
  <1> QED
    BY Zenon, <1>1, <1>2

\* Nothing is computed, sent or charged at the start.
LEMMA InitChargeInv == Init => ChargeInv
  <1> SUFFICES ASSUME Init PROVE ChargeInv
    BY Zenon
  <1>1. /\ DOMAIN results = {} /\ DOMAIN prevPoints = {} /\ DOMAIN ledger = {} /\ wire = {}
        /\ pc = "top" /\ \A p \in Partitions : log[p] = <<>> /\ committed[p] = 0 /\ position[p] = 0
    BY Zenon DEF Init, EmptyMap
  <1>2. \A p \in Partitions : Passed(p) = 0
    BY Zenon, <1>1 DEF Passed, Holding, Processing
  <1> QED
    BY <1>1, <1>2 DEF ChargeInv, Placed, Cached, NotAhead, PointsFromLog, AllRight

\* Every step of the calculator keeps the charges right.
LEMMA NextChargeInv ==
  ASSUME IndInv, ChargeInv, [Next]_vars
  PROVE  ChargeInv'
  <1>1. Placed'
    BY Zenon, PlacedStep DEF ChargeInv
  <1>2. AllRight'
    BY Zenon, <1>1, AllRightStep
  <1>3. Cached' /\ NotAhead' /\ PointsFromLog'
    <2>1. CASE \E q \in Partitions, r \in Events \cup {BadRecord} : Publish(q, r)
      BY Zenon, <1>1, <2>1, PublishMemory DEF ChargeInv
    <2>2. CASE ProcessEvent
      BY Zenon, <2>2, ProcessMemory
    <2>3. CASE Restart
      BY Zenon, <2>3, RestartMemory
    <2>4. CASE /\ ~ProcessEvent /\ ~Restart
               /\ ~\E q \in Partitions, r \in Events \cup {BadRecord} : Publish(q, r)
      <3>1. UNCHANGED <<log, prevPoints, results, restarted>>
        BY Zenon, <2>4, QuietFrame
      <3>2. pc' # "exited" => Moved
        BY Zenon, <2>4, QuietMoves DEF ChargeInv
      <3> QED
        BY Zenon, <3>1, <3>2, QuietMemory DEF ChargeInv
    <2> QED
      BY Zenon, <2>1, <2>2, <2>3, <2>4
  <1> QED
    BY Zenon, <1>1, <1>2, <1>3 DEF ChargeInv

\* What was computed, sent and charged is right in every reachable state: the facts
\* above survive every step of the loop, the broker, the network and the processes.
THEOREM ChargeInvariance == Spec => []ChargeInv
  <1>1. IndInv /\ ChargeInv /\ [Next]_vars => ChargeInv'
    BY Zenon, NextChargeInv
  <1> QED
    BY <1>1, InitChargeInv, Invariance, PTL DEF Spec

\* Whatever crashes, retries and late calls there were, the charge of an event is the
\* distance from the previous event of its OBU, or zero where CalculateDist lost that
\* point, provided that the log holds no record twice.
THEOREM NoOvercharge == Spec => []NeverOvercharged
  <1>1. ChargeInv => NeverOvercharged
    BY DEF ChargeInv, AllRight, InOrder, Right, NeverOvercharged, Sent
  <1> QED
    BY <1>1, ChargeInvariance, PTL

\* As long as the calculator has not been restarted, every distance sent or charged is
\* exactly the one from the previous event of the OBU, however often CalculateDist is
\* called for the event.
THEOREM ExactDistances == Spec => []ExactWhileAlive
  <1>1. ChargeInv => ExactWhileAlive
    <2> SUFFICES ASSUME ChargeInv, ~restarted, NEW s \in Sent
                 PROVE  IF IsFirstOfOBU(s[1]) THEN s[2] = 0 ELSE IsStep(s[1], s[2])
      BY Zenon DEF ExactWhileAlive
    <2>1. Right(s[1], s[2])
      BY DEF ChargeInv, AllRight, InOrder, Sent
    <2>2. IsFirstOfOBU(s[1]) => ~IsStep(s[1], s[2])
      BY Zenon DEF IsFirstOfOBU, IsStep
    <2> QED
      BY Zenon, <2>1, <2>2 DEF Right
  <1> QED
    BY <1>1, ChargeInvariance, PTL
=============================================================================
