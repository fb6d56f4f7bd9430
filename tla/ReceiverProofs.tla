-------------------------- MODULE ReceiverProofs --------------------------
(***************************************************************************)
(* The receiver's publishing path, for any number of connections and any   *)
(* streams: what it reports as published is in the topic in order, the     *)
(* goroutine that hands over delivery reports never blocks, and every      *)
(* message and connection is counted.                                      *)
(***************************************************************************)
EXTENDS Receiver, FiniteSetTheorems, TLAPS

Places == {"none", "accepted", "upgraded", "read", "produce", "wait", "leaving", "gone"}

Busy == {"produce", "wait"}

Results == {"stored", "error"}

Types ==
    /\ hpc \in [Conns -> Places]
    /\ nread \in [Conns -> Nat]
    /\ \A c \in Conns : nread[c] <= Len(Stream[c])
    /\ \A c \in Conns : hpc[c] \in Busy => nread[c] > 0 /\ Current(c) # Bad
    /\ queue \subseteq handed /\ handed \subseteq Events
    /\ reports \in Seq([event : Events, result : Results])
    /\ delivery \in [Events -> Seq(Results)]
    /\ log \in Seq(Events)

\* Kafka has been handed nothing that is not read yet, and not the message whose
\* Produce is still to come.
Unsent ==
    \A c \in Conns : \A i \in DOMAIN Stream[c] : Stream[c][i] \in handed =>
        i <= nread[c] /\ (hpc[c] = "produce" => i # nread[c])

\* Of an event that was handed over there is one entry in the queue, one report
\* under way, one in its channel, or none.
Single ==
    /\ \A k \in DOMAIN reports :
         /\ reports[k].event \in handed \ queue
         /\ delivery[reports[k].event] = <<>>
         /\ \A l \in DOMAIN reports : reports[l].event = reports[k].event => l = k
    /\ \A e \in Events : delivery[e] # <<>> =>
         e \in handed \ queue /\ Len(delivery[e]) = 1

\* A "stored" that is under way or in a channel speaks of a record in the topic, and
\* the topic holds only what was handed over.
Honest ==
    /\ \A k \in DOMAIN log : log[k] \in handed
    /\ \A k \in DOMAIN reports : reports[k].result = "stored" => InLog(reports[k].event)
    /\ \A e \in Events : \A k \in DOMAIN delivery[e] : delivery[e][k] = "stored" => InLog(e)

IndInv == Types /\ Unsent /\ Single /\ Honest /\ PublishedInOrder

\* What is left of a sequence without its head.
LEMMA HeadTail ==
    ASSUME NEW S, NEW q \in Seq(S), q # <<>>
    PROVE  /\ 1 \in DOMAIN q /\ Head(q) = q[1] /\ Head(q) \in S
           /\ Tail(q) \in Seq(S)
           /\ Len(q) = 1 => Tail(q) = <<>>
           /\ \A k \in DOMAIN Tail(q) :
                /\ k \in Nat \ {0} /\ k + 1 \in DOMAIN q
                /\ Tail(q)[k] = q[k + 1]
  <1>1. Len(q) \in Nat \ {0} /\ DOMAIN q = 1 .. Len(q)
    OBVIOUS
  <1>2. 1 \in DOMAIN q /\ Head(q) = q[1] /\ q[1] \in S
    BY <1>1
  <1>3. /\ Tail(q) \in Seq(S) /\ Len(Tail(q)) = Len(q) - 1
        /\ DOMAIN Tail(q) = 1 .. Len(q) - 1
    BY <1>1
  <1>4. \A k \in 1 .. Len(q) - 1 : Tail(q)[k] = q[k + 1]
    BY <1>1
  <1> QED
    BY <1>1, <1>2, <1>3, <1>4

\* What a sequence is with one element more.
LEMMA OneMore ==
    ASSUME NEW S, NEW q \in Seq(S), NEW x \in S
    PROVE  /\ Append(q, x) \in Seq(S)
           /\ DOMAIN q = 1 .. Len(q) /\ Len(q) \in Nat
           /\ DOMAIN Append(q, x) = DOMAIN q \cup {Len(q) + 1}
           /\ Len(q) + 1 \notin DOMAIN q
           /\ Append(q, x)[Len(q) + 1] = x
           /\ \A k \in DOMAIN q : Append(q, x)[k] = q[k]
  OBVIOUS

\* The steps that neither read nor publish a message.
Aside ==
    /\ UNCHANGED <<nread, kafka, published>>
    /\ \/ hpc' = hpc
       \/ \E c \in Conns, p \in Places \ Busy : hpc' = [hpc EXCEPT ![c] = p]

Publishing(c) == ReadMessage(c) \/ Enqueue(c) \/ Delivered(c)

\* Every step is one that is aside, one of a handler on its message, or Kafka's.
LEMMA StepKinds ==
    ASSUME [Next]_vars
    PROVE  \/ Aside
           \/ \E c \in Conns : Publishing(c)
           \/ \E e \in Events : Store(e) \/ \E r \in Results : Report(e, r)
           \/ HandOver
  <1>1. CASE UNCHANGED vars
    BY Zenon, <1>1 DEF vars, handler, kafka, Aside
  <1>2. ASSUME NEW c \in Conns, Accept(c) \/ Disconnect(c)
        PROVE  Aside
    BY Zenon, <1>2 DEF Accept, Disconnect, Goto, Aside, Places, Busy, handler
  <1>3. ASSUME NEW c \in Conns, Handler(c)
        PROVE  Aside \/ Publishing(c)
    BY Zenon, <1>3 DEF Handler, UpgradeFails, Upgrade, Register, Leave, ReadEnds, ProduceFails,
       TimedOut, Goto, Aside, Publishing, Places, Busy
  <1>4. CASE Signal \/ Closer \/ Main \/ Rest
    BY Zenon, <1>4 DEF Signal, Closer, StartSweep, EndSweep, SweepOne, Main, Exit,
       ShutdownReturns, Flush, Rest, vars, handler, Aside
  <1> QED
    BY Zenon, <1>1, <1>2, <1>3, <1>4 DEF Next, Results

\* An event is at one place of one stream.
LEMMA OnePlace ==
    ASSUME NEW c \in Conns, NEW i \in DOMAIN Stream[c], Stream[c][i] # Bad
    PROVE  /\ Stream[c][i] \in Events
           /\ \A d \in Conns : \A j \in DOMAIN Stream[d] :
                Stream[d][j] = Stream[c][i] => d = c /\ j = i
  <1>1. Stream[c][i] \in Sent(c)
    BY Zenon DEF Sent
  <1>2. ASSUME NEW d \in Conns, NEW j \in DOMAIN Stream[d], Stream[d][j] = Stream[c][i]
        PROVE  d = c /\ j = i
    <2>1. Stream[c][i] \in Sent(d)
      BY Zenon, <1>2 DEF Sent
    <2> QED
      BY Zenon, <1>1, <1>2, <2>1, StreamAssumption
  <1> QED
    BY Zenon, <1>1, <1>2 DEF Events

\* The message a handler works on is a place of its stream.
LEMMA CurrentPlace ==
    ASSUME Types, NEW c \in Conns, hpc[c] \in Busy
    PROVE  nread[c] \in DOMAIN Stream[c] /\ Current(c) \in Events
  <1>1. nread[c] \in DOMAIN Stream[c]
    BY StreamAssumption DEF Types
  <1> QED
    BY Zenon, <1>1, OnePlace DEF Types, Current

\* What the poller hands over.
LEMMA HandOverHead ==
    ASSUME reports \in Seq([event : Events, result : Results]), HandOver
    PROVE  /\ 1 \in DOMAIN reports
           /\ reports[1] \in [event : Events, result : Results]
           /\ \A k \in DOMAIN Tail(reports) :
                /\ k \in Nat \ {0} /\ k + 1 \in DOMAIN reports
                /\ Tail(reports)[k] = reports[k + 1]
           /\ reports' = Tail(reports)
           /\ delivery' = [delivery EXCEPT ![reports[1].event] =
                             Append(delivery[reports[1].event], reports[1].result)]
           /\ UNCHANGED <<nread, hpc, queue, handed, log, published>>
  <1> DEFINE R == [event : Events, result : Results]
  <1>1. /\ reports # <<>> /\ reports' = Tail(reports)
        /\ delivery' = [delivery EXCEPT ![Head(reports).event] =
                          Append(delivery[Head(reports).event], Head(reports).result)]
        /\ UNCHANGED <<nread, hpc, queue, handed, log, published>>
    BY Zenon DEF HandOver, handler
  <1>2. reports \in Seq(R)
    BY Zenon
  <1> HIDE DEF R
  <1>3. /\ 1 \in DOMAIN reports /\ Head(reports) = reports[1] /\ Head(reports) \in R
        /\ \A k \in DOMAIN Tail(reports) :
             /\ k \in Nat \ {0} /\ k + 1 \in DOMAIN reports
             /\ Tail(reports)[k] = reports[k + 1]
    BY <1>1, <1>2, HeadTail
  <1> QED
    BY Zenon, <1>1, <1>3 DEF R

\* The receiver satisfies the invariant before it starts.
LEMMA InitInv == Init => IndInv
  <1> SUFFICES ASSUME Init PROVE IndInv
    BY Zenon
  <1>1. \A c \in Conns : Len(Stream[c]) \in Nat
    BY SMTT(30), StreamAssumption
  <1> QED
    BY <1>1 DEF Init, IndInv, Types, Unsent, Single, Honest, PublishedInOrder, Places,
       Busy, Results

\* Every step keeps the types, and a handler on a message of its stream.
LEMMA TypesStep == IndInv /\ [Next]_vars => Types'
  <1> SUFFICES ASSUME IndInv, [Next]_vars PROVE Types'
    BY Zenon
  <1> USE DEF IndInv, Types, Places, Busy, Results, Current
  <1>0. \A c \in Conns : Len(Stream[c]) \in Nat /\ DOMAIN Stream[c] = 1 .. Len(Stream[c])
    BY StreamAssumption
  <1>1. CASE Aside
    BY SMTT(30), <1>1 DEF Aside, kafka
  <1>2. ASSUME NEW c \in Conns, ReadMessage(c) PROVE Types'
    <2>1. UNCHANGED kafka
      BY Zenon, <1>2 DEF ReadMessage
    <2>2. /\ nread' = [nread EXCEPT ![c] = nread[c] + 1] /\ nread[c] < Len(Stream[c])
          /\ \/ hpc' = [hpc EXCEPT ![c] = "read"]
             \/ hpc' = [hpc EXCEPT ![c] = "produce"] /\ Stream[c][nread[c] + 1] # Bad
      BY Zenon, <1>2 DEF ReadMessage, Goto
    <2>3. \A d \in Conns : nread'[d] \in Nat /\ nread'[d] <= Len(Stream[d])
      BY <1>0, <2>2
    <2>4. hpc' \in [Conns -> Places] /\ nread' \in [Conns -> Nat]
      BY <2>2
    <2>5. \A d \in Conns : hpc'[d] \in Busy => nread'[d] > 0 /\ Stream[d][nread'[d]] # Bad
      BY <2>2
    <2> QED
      BY Zenon, <2>1, <2>3, <2>4, <2>5 DEF kafka
  <1>3. ASSUME NEW c \in Conns, Enqueue(c) PROVE Types'
    <2>1. hpc[c] \in Busy /\ Current(c) \in Events
      BY Zenon, <1>3, CurrentPlace DEF Enqueue, Goto
    <2> QED
      BY Zenon, <1>3, <2>1 DEF Enqueue, Goto
  <1>4. ASSUME NEW c \in Conns, Delivered(c) PROVE Types'
    <2>1. hpc[c] \in Busy /\ Current(c) \in Events
      BY Zenon, <1>4, CurrentPlace DEF Delivered, Goto
    <2>2. Tail(delivery[Current(c)]) \in Seq(Results)
      BY <1>4, <2>1 DEF Delivered
    <2> QED
      BY Zenon, <1>4, <2>1, <2>2 DEF Delivered, Goto
  <1>5. ASSUME NEW e \in Events, Store(e) PROVE Types'
    BY <1>5 DEF Store, handler
  <1>6. ASSUME NEW e \in Events, NEW r \in Results, Report(e, r) PROVE Types'
    BY <1>6 DEF Report, handler
  <1>7. CASE HandOver
    <2>1. /\ Head(reports) \in [event : Events, result : Results]
          /\ Tail(reports) \in Seq([event : Events, result : Results])
      BY ZenonT(40), <1>7, HeadTail DEF HandOver
    <2> QED
      BY <1>7, <2>1 DEF HandOver, handler
  <1> QED
    BY ZenonT(40), <1>1, <1>2, <1>3, <1>4, <1>5, <1>6, <1>7, StepKinds DEF Publishing

\* A message is handed over once, when it is the handler's current one.
LEMMA UnsentStep == IndInv /\ [Next]_vars => Unsent'
  <1> SUFFICES ASSUME IndInv, [Next]_vars PROVE Unsent'
    BY Zenon
  <1> USE DEF IndInv, Types, Unsent, Busy, Current
  <1>1. CASE Aside
    BY Zenon, <1>1 DEF Aside, kafka, Places
  <1>2. ASSUME NEW c \in Conns, ReadMessage(c) PROVE Unsent'
    <2>1. /\ nread' = [nread EXCEPT ![c] = nread[c] + 1] /\ handed' = handed
          /\ \E p \in {"read", "produce"} : hpc' = [hpc EXCEPT ![c] = p]
      BY Zenon, <1>2 DEF ReadMessage, Goto, kafka
    <2>2. \A d \in Conns : \A i \in DOMAIN Stream[d] : i \in Nat
      BY StreamAssumption
    <2> QED
      BY <2>1, <2>2
  <1>3. ASSUME NEW c \in Conns, Enqueue(c) PROVE Unsent'
    <2>1. nread[c] \in DOMAIN Stream[c] /\ Stream[c][nread[c]] # Bad
      BY Zenon, <1>3, CurrentPlace DEF Enqueue, Goto
    <2>2. \A d \in Conns : \A j \in DOMAIN Stream[d] :
            Stream[d][j] = Stream[c][nread[c]] => d = c /\ j = nread[c]
      BY Zenon, <2>1, OnePlace
    <2>3. /\ handed' = handed \cup {Stream[c][nread[c]]} /\ nread' = nread
          /\ hpc' = [hpc EXCEPT ![c] = "wait"]
      BY Zenon, <1>3 DEF Enqueue, Goto
    <2> QED
      BY <2>2, <2>3
  <1>4. ASSUME NEW c \in Conns, Delivered(c) PROVE Unsent'
    BY Zenon, <1>4 DEF Delivered, Goto
  <1>5. ASSUME NEW e \in Events, Store(e) \/ \E r \in Results : Report(e, r)
        PROVE  Unsent'
    BY ZenonT(40), <1>5 DEF Store, Report, handler
  <1>6. CASE HandOver
    BY Zenon, <1>6 DEF HandOver, handler
  <1> QED
    BY Zenon, <1>1, <1>2, <1>3, <1>4, <1>5, <1>6, StepKinds DEF Publishing

\* A report moves from the queue to the poller and on to its own channel.
LEMMA SingleStep == IndInv /\ [Next]_vars => Single'
  <1> SUFFICES ASSUME IndInv, [Next]_vars PROVE Single'
    BY Zenon
  <1> USE DEF IndInv, Types, Single, Results
  <1>1. CASE Aside
    BY Zenon, <1>1 DEF Aside, kafka
  <1>2. ASSUME NEW c \in Conns, ReadMessage(c) PROVE Single'
    BY Zenon, <1>2 DEF ReadMessage, kafka
  <1>3. ASSUME NEW c \in Conns, Enqueue(c) PROVE Single'
    <2>1. Current(c) \notin handed
      <3>1. nread[c] \in DOMAIN Stream[c] /\ hpc[c] = "produce"
        BY Zenon, <1>3, CurrentPlace DEF Enqueue, Goto, Busy
      <3> QED
        BY Zenon, <3>1 DEF Unsent, Current
    <2>2. /\ queue' = queue \cup {Current(c)} /\ handed' = handed \cup {Current(c)}
          /\ reports' = reports /\ delivery' = delivery
      BY Zenon, <1>3 DEF Enqueue
    <2> QED
      BY Zenon, <2>1, <2>2
  <1>4. ASSUME NEW c \in Conns, Delivered(c) PROVE Single'
    <2>1. Current(c) \in Events /\ delivery[Current(c)] # <<>>
      BY Zenon, <1>4, CurrentPlace DEF Delivered, Goto, Busy
    <2>2. /\ delivery' = [delivery EXCEPT ![Current(c)] = <<>>]
          /\ UNCHANGED <<queue, handed, reports>>
      <3>1. Tail(delivery[Current(c)]) = <<>>
        BY <2>1, HeadTail
      <3> QED
        BY ZenonT(40), <1>4, <3>1 DEF Delivered
    <2> QED
      BY Zenon, <2>1, <2>2
  <1>5. ASSUME NEW e \in Events, Store(e) PROVE Single'
    BY Zenon, <1>5 DEF Store
  <1>6. ASSUME NEW e \in Events, NEW r \in Results, Report(e, r) PROVE Single'
    <2> DEFINE n == Len(reports) + 1
    <2>1. /\ queue' = queue \ {e} /\ e \in queue
          /\ reports' = Append(reports, [event |-> e, result |-> r])
          /\ UNCHANGED <<delivery, handed>>
      BY Zenon, <1>6 DEF Report
    <2>2. /\ DOMAIN reports' = DOMAIN reports \cup {n} /\ n \notin DOMAIN reports
          /\ reports'[n].event = e
          /\ \A k \in DOMAIN reports : reports'[k] = reports[k]
      <3>1. [event |-> e, result |-> r] \in [event : Events, result : Results]
        BY Zenon
      <3> QED
        BY SMTT(30), <2>1, <3>1, OneMore
    <2>3. \A k \in DOMAIN reports : reports[k].event # e
      BY Zenon, <2>1
    <2> HIDE DEF n
    <2>4. ASSUME NEW k \in DOMAIN reports'
          PROVE  /\ reports'[k].event \in handed' \ queue'
                 /\ delivery'[reports'[k].event] = <<>>
      <3>1. CASE k \in DOMAIN reports
        BY Zenon, <2>1, <2>2, <3>1
      <3>2. CASE k = n
        BY Zenon, <2>1, <2>2, <3>2
      <3> QED
        BY Zenon, <2>2, <3>1, <3>2
    <2>5. ASSUME NEW k \in DOMAIN reports', NEW l \in DOMAIN reports',
                 reports'[l].event = reports'[k].event
          PROVE  l = k
      BY SMTT(30), <2>2, <2>3, <2>5
    <2>6. \A f \in Events : delivery'[f] # <<>> =>
            f \in handed' \ queue' /\ Len(delivery'[f]) = 1
      BY Zenon, <2>1
    <2> QED
      BY Zenon, <2>4, <2>5, <2>6
  <1>7. CASE HandOver
    <2> DEFINE e == reports[1].event
    <2>1. /\ 1 \in DOMAIN reports
          /\ reports[1] \in [event : Events, result : Results]
          /\ \A k \in DOMAIN Tail(reports) :
               /\ k \in Nat \ {0} /\ k + 1 \in DOMAIN reports
               /\ Tail(reports)[k] = reports[k + 1]
      BY Zenon, <1>7, HandOverHead
    <2>2. /\ e \in Events /\ delivery[e] = <<>> /\ e \in handed \ queue
          /\ reports[1].result \in Results
      BY Zenon, <2>1
    <2>3. /\ delivery' = [delivery EXCEPT ![e] = <<reports[1].result>>]
          /\ reports' = Tail(reports) /\ UNCHANGED <<queue, handed>>
      <3>1. /\ delivery' = [delivery EXCEPT ![e] = Append(delivery[e], reports[1].result)]
            /\ reports' = Tail(reports) /\ UNCHANGED <<queue, handed>>
        BY Zenon, <1>7, HandOverHead
      <3>2. Append(<<>>, reports[1].result) = <<reports[1].result>>
        BY <2>2
      <3> QED
        BY Zenon, <2>2, <3>1, <3>2
    <2>4. \A k \in DOMAIN reports' : reports'[k].event # e
      BY <2>1, <2>3
    <2>5. ASSUME NEW k \in DOMAIN reports', NEW l \in DOMAIN reports',
                 reports'[l].event = reports'[k].event
          PROVE  l = k
      BY <2>1, <2>3, <2>5
    <2> HIDE DEF e
    <2>6. ASSUME NEW k \in DOMAIN reports'
          PROVE  /\ reports'[k].event \in handed' \ queue'
                 /\ delivery'[reports'[k].event] = <<>>
      <3>1. /\ reports'[k] = reports[k + 1] /\ k + 1 \in DOMAIN reports
            /\ reports[k + 1].event # e /\ reports[k + 1].event \in Events
        BY ZenonT(40), <2>1, <2>3, <2>4
      <3> QED
        BY Zenon, <2>3, <3>1
    <2>7. \A f \in Events : delivery'[f] # <<>> =>
            f \in handed' \ queue' /\ Len(delivery'[f]) = 1
      BY Zenon, <2>2, <2>3
    <2> QED
      BY Zenon, <2>5, <2>6, <2>7
  <1> QED
    BY Zenon, <1>1, <1>2, <1>3, <1>4, <1>5, <1>6, <1>7, StepKinds DEF Publishing

\* A record stored in the topic stays where it is.
LEMMA LogGrows ==
    ASSUME Types, [Next]_vars
    PROVE  /\ DOMAIN log \subseteq DOMAIN log'
           /\ \A k \in DOMAIN log : log'[k] = log[k]
           /\ \A e : InLog(e) => InLog(e)'
  <1>1. DOMAIN log \subseteq DOMAIN log' /\ \A k \in DOMAIN log : log'[k] = log[k]
    <2>1. CASE log' = log
      BY Zenon, <2>1
    <2>2. ASSUME NEW e \in Events, log' = Append(log, e)
          PROVE  DOMAIN log \subseteq DOMAIN log' /\ \A k \in DOMAIN log : log'[k] = log[k]
      BY <2>2, OneMore DEF Types
    <2> QED
      BY ZenonT(40), <2>1, <2>2, StepKinds DEF Aside, Publishing, ReadMessage, Enqueue, Delivered,
         Store, Report, HandOver, kafka
  <1> QED
    BY Zenon, <1>1 DEF InLog

\* Kafka reports as stored only what is in the topic, and stores what it was handed.
LEMMA HonestStep == IndInv /\ [Next]_vars => Honest'
  <1> SUFFICES ASSUME IndInv, [Next]_vars PROVE Honest'
    BY Zenon
  <1>0. \A e : InLog(e) => InLog(e)'
    BY SMTT(30), LogGrows DEF IndInv
  <1> USE DEF IndInv, Types, Honest
  <1>1. CASE Aside
    BY Zenon, <1>1 DEF Aside, kafka, InLog
  <1>2. ASSUME NEW c \in Conns, ReadMessage(c) \/ Enqueue(c) PROVE Honest'
    BY ZenonT(40), <1>2 DEF ReadMessage, Enqueue, kafka, InLog
  <1>3. ASSUME NEW c \in Conns, Delivered(c) PROVE Honest'
    <2>1. Current(c) \in Events /\ delivery[Current(c)] # <<>>
      BY Zenon, <1>3, CurrentPlace DEF Delivered, Goto, Busy
    <2>2. Tail(delivery[Current(c)]) = <<>>
      BY SMTT(30), <2>1, HeadTail DEF Single
    <2>3. /\ delivery' = [delivery EXCEPT ![Current(c)] = <<>>]
          /\ UNCHANGED <<handed, reports, log>>
      BY ZenonT(40), <1>3, <2>2 DEF Delivered
    <2> QED
      BY <2>1, <2>3 DEF InLog
  <1>4. ASSUME NEW e \in Events, Store(e) PROVE Honest'
    <2>1. /\ e \in handed /\ log' = Append(log, e)
          /\ UNCHANGED <<reports, delivery, handed>>
      BY Zenon, <1>4 DEF Store
    <2>2. \A k \in DOMAIN log' : log'[k] \in handed'
      BY SMTT(30), <2>1, OneMore
    <2> QED
      BY Zenon, <1>0, <2>1, <2>2
  <1>5. ASSUME NEW e \in Events, NEW r \in Results, Report(e, r) PROVE Honest'
    <2> DEFINE R == [event : Events, result : Results]
    <2>1. /\ reports' = Append(reports, [event |-> e, result |-> r])
          /\ r = "stored" => InLog(e)
          /\ UNCHANGED <<delivery, log, handed>>
      BY SMTT(30), <1>5 DEF Report
    <2>2. [event |-> e, result |-> r] \in R /\ reports \in Seq(R)
      BY Zenon
    <2> HIDE DEF R
    <2>3. ASSUME NEW k \in DOMAIN reports', reports'[k].result = "stored"
          PROVE  InLog(reports'[k].event)
      <3>1. \/ k \in DOMAIN reports /\ reports'[k] = reports[k]
            \/ reports'[k] = [event |-> e, result |-> r]
        BY SMTT(30), <2>1, <2>2, OneMore
      <3> QED
        BY <2>1, <2>3, <3>1
    <2> QED
      BY SMTT(30), <1>0, <2>1, <2>3 DEF InLog
  <1>6. CASE HandOver
    <2> DEFINE e == reports[1].event
    <2>1. /\ 1 \in DOMAIN reports /\ reports[1] \in [event : Events, result : Results]
          /\ \A k \in DOMAIN Tail(reports) :
               k + 1 \in DOMAIN reports /\ Tail(reports)[k] = reports[k + 1]
          /\ reports' = Tail(reports) /\ UNCHANGED <<log, handed>>
          /\ delivery' = [delivery EXCEPT ![e] = Append(delivery[e], reports[1].result)]
      BY Zenon, <1>6, HandOverHead
    <2>2. e \in Events /\ delivery[e] = <<>>
      BY Zenon, <2>1 DEF Single
    <2>3. /\ DOMAIN Append(<<>>, reports[1].result) = {1}
          /\ Append(<<>>, reports[1].result)[1] = reports[1].result
      OBVIOUS
    <2>4. reports[1].result = "stored" => InLog(e)
      BY Zenon, <2>1
    <2>5. \A f \in Events : \A k \in DOMAIN delivery'[f] :
            delivery'[f][k] = "stored" => InLog(f)
      BY Zenon, <2>1, <2>2, <2>3, <2>4
    <2>6. \A k \in DOMAIN reports' : reports'[k].result = "stored" => InLog(reports'[k].event)
      BY <2>1
    <2> QED
      BY Zenon, <1>0, <2>1, <2>5, <2>6 DEF InLog
  <1> QED
    BY ZenonT(40), <1>1, <1>2, <1>3, <1>4, <1>5, <1>6, StepKinds DEF Publishing

\* ProduceData returns nil when its event is in the topic and no later one is.
LEMMA PublishedStep == IndInv /\ [Next]_vars => PublishedInOrder'
  <1> SUFFICES ASSUME IndInv, [Next]_vars PROVE PublishedInOrder'
    BY Zenon
  <1>0. /\ DOMAIN log \subseteq DOMAIN log' /\ DOMAIN log = 1 .. Len(log)
        /\ \A k \in DOMAIN log : log'[k] = log[k]
    BY LogGrows DEF IndInv, Types
  <1> SUFFICES ASSUME NEW c \in Conns, NEW i \in DOMAIN Stream[c],
                      Stream[c][i] \in published'
               PROVE  \E k \in DOMAIN log' :
                        /\ log'[k] = Stream[c][i]
                        /\ \A j \in DOMAIN Stream[c], l \in 1 .. k :
                              j > i /\ Stream[c][j] # Bad => log'[l] # Stream[c][j]
    BY Zenon DEF PublishedInOrder
  <1>1. CASE Stream[c][i] \in published
    <2>1. PICK k \in DOMAIN log :
            /\ log[k] = Stream[c][i]
            /\ \A j \in DOMAIN Stream[c], l \in 1 .. k :
                  j > i /\ Stream[c][j] # Bad => log[l] # Stream[c][j]
      BY Zenon, <1>1 DEF IndInv, PublishedInOrder
    <2>2. \A l \in 1 .. k : l \in DOMAIN log
      BY <1>0 DEF IndInv, Types
    <2> QED
      BY <1>0, <2>1, <2>2
  <1>2. CASE Stream[c][i] \notin published
    <2>1. PICK d \in Conns : Delivered(d)
      BY ZenonT(40), <1>2, StepKinds DEF Aside, Publishing, ReadMessage, Enqueue, Store, Report,
         HandOver
    <2>2. /\ Current(d) \in Events /\ nread[d] \in DOMAIN Stream[d]
          /\ Current(d) # Bad /\ delivery[Current(d)] # <<>>
      BY Zenon, <2>1, CurrentPlace DEF Delivered, Goto, Busy, IndInv, Types
    <2>3. /\ Stream[c][i] = Current(d) /\ Head(delivery[Current(d)]) = "stored"
          /\ log' = log
      BY Zenon, <1>2, <2>1 DEF Delivered
    <2>4. d = c /\ nread[c] = i
      BY <2>2, <2>3, OnePlace DEF Current
    <2>5. delivery[Current(d)] \in Seq(Results)
      BY SMTT(30), <2>2 DEF IndInv, Types
    <2>6. 1 \in DOMAIN delivery[Current(d)] /\ delivery[Current(d)][1] = "stored"
      BY Zenon, <2>2, <2>3, <2>5, HeadTail
    <2>7. PICK k \in DOMAIN log : log[k] = Stream[c][i]
      BY Zenon, <2>2, <2>3, <2>6 DEF IndInv, Honest, InLog
    <2>8. \A j \in DOMAIN Stream[c] : j > i => Stream[c][j] \notin handed
      <3>1. \A j \in DOMAIN Stream[c] : j \in Nat
        BY StreamAssumption
      <3> QED
        BY SMTT(30), <2>4, <3>1 DEF IndInv, Unsent, Types
    <2>9. \A l \in 1 .. k : log[l] \in handed
      <3>1. \A l \in 1 .. k : l \in DOMAIN log
        BY <1>0 DEF IndInv, Types
      <3> QED
        BY Zenon, <3>1 DEF IndInv, Honest
    <2> QED
      BY SMTT(30), <2>3, <2>7, <2>8, <2>9
  <1> QED
    BY SMTT(30), <1>1, <1>2

\* The inductive invariant holds in every reachable state of the receiver.
THEOREM ReceiverInvariance == Spec => []IndInv
  <1>1. IndInv /\ [Next]_vars => IndInv'
    BY Zenon, TypesStep, UnsentStep, SingleStep, HonestStep, PublishedStep DEF IndInv
  <1> QED
    BY <1>1, InitInv, PTL DEF Spec

\* What ProduceData reports as published is in the topic, before every later message
\* of its connection.
THEOREM PublishesInOrder == Spec => []PublishedInOrder
  <1>1. IndInv => PublishedInOrder
    BY Zenon DEF IndInv
  <1> QED
    BY <1>1, ReceiverInvariance, PTL

\* A delivery channel of capacity one always has room for its report, so the poller
\* is never held up by a handler that timed out.
THEOREM PollerIsFree == Spec => []PollerNeverBlocks
  <1>1. IndInv => PollerNeverBlocks
    <2> SUFFICES ASSUME IndInv, reports # <<>> PROVE CanHandOver(Head(reports).event)
      BY Zenon DEF PollerNeverBlocks
    <2>1. 1 \in DOMAIN reports /\ Head(reports) = reports[1]
      BY Zenon, HeadTail DEF IndInv, Types
    <2>2. delivery[Head(reports).event] = <<>>
      BY Zenon, <2>1 DEF IndInv, Single
    <2> QED
      BY <2>2 DEF CanHandOver, DeliveryCapacity
  <1> QED
    BY <1>1, ReceiverInvariance, PTL

-----------------------------------------------------------------------------
\* The handlers that have upgraded and not returned, and those with a message.
Outside == {"none", "accepted", "gone"}

Serving == {c \in Conns : hpc[c] \notin Outside}

Working == {c \in Conns : hpc[c] \in Busy}

\* What is counted: only finitely many handlers have begun, and a message that a
\* handler works on is not yet published, so publishing it is one more.
Counted ==
    /\ {received, invalid, failures, active} \subseteq Nat
    /\ IsFiniteSet(Serving) /\ IsFiniteSet(published)
    /\ received = invalid + failures + Cardinality(published) + Cardinality(Working)
    /\ active = Cardinality(Serving)

Unpublished ==
    /\ published \subseteq handed
    /\ \A c \in Conns : hpc[c] \in Busy => Current(c) \notin published
    /\ \A c \in Conns : hpc[c] = "wait" => Current(c) \in handed

\* The sockets, the map of connections and the shutdown.
Connected ==
    /\ open \cup told \cup todo \subseteq Conns
    /\ registered = {c \in Conns : hpc[c] \in {"read", "produce", "wait", "leaving"}}
    /\ mpc \in {"serve", "shutdown", "flush", "close", "exited"}
    /\ complained \in BOOLEAN
    /\ sweep \in {"idle", "locked", "done"}

\* Working handlers serve, so they are finitely many.
LEMMA WorkingFinite ==
    ASSUME IsFiniteSet(Serving)
    PROVE  /\ IsFiniteSet(Working) /\ Cardinality(Working) \in Nat
           /\ Cardinality(Serving) \in Nat
  <1>1. Working \subseteq Serving
    BY Zenon DEF Working, Serving, Busy, Outside
  <1> QED
    BY Zenon, <1>1, FS_Subset, FS_CardinalityType

\* What a handler's move adds to the two sets.
LEMMA MoveCounts ==
    ASSUME Types, IsFiniteSet(Serving), NEW c \in Conns, NEW from, NEW to, Goto(c, from, to)
    PROVE  /\ IsFiniteSet(Serving')
           /\ Cardinality(Working') = Cardinality(Working)
                + (IF to \in Busy THEN 1 ELSE 0) - (IF from \in Busy THEN 1 ELSE 0)
           /\ Cardinality(Serving') = Cardinality(Serving)
                + (IF to \in Outside THEN 0 ELSE 1) - (IF from \in Outside THEN 0 ELSE 1)
  <1>1. hpc[c] = from /\ hpc' = [hpc EXCEPT ![c] = to] /\ hpc \in [Conns -> Places]
    BY Zenon DEF Goto, Types
  <1>2. /\ IsFiniteSet(Working) /\ Cardinality(Working) \in Nat
        /\ Cardinality(Serving) \in Nat
    BY Zenon, WorkingFinite
  <1>3. \A d \in Conns : hpc'[d] = IF d = c THEN to ELSE hpc[d]
    BY Zenon, <1>1
  <1>4. /\ c \in Working <=> from \in Busy
        /\ c \in Serving <=> from \notin Outside
    BY Zenon, <1>1 DEF Working, Serving
  <1>5. Working' = IF to \in Busy THEN Working \cup {c} ELSE Working \ {c}
    BY <1>3, Zenon DEF Working
  <1>6. Serving' = IF to \in Outside THEN Serving \ {c} ELSE Serving \cup {c}
    BY <1>3, Zenon DEF Serving
  <1>7. Cardinality(Working') = Cardinality(Working)
          + (IF to \in Busy THEN 1 ELSE 0) - (IF from \in Busy THEN 1 ELSE 0)
    <2>1. Cardinality(Working \cup {c}) =
            IF c \in Working THEN Cardinality(Working) ELSE Cardinality(Working) + 1
      BY Zenon, <1>2, FS_AddElement
    <2>2. Cardinality(Working \ {c}) =
            IF c \in Working THEN Cardinality(Working) - 1 ELSE Cardinality(Working)
      BY Zenon, <1>2, FS_RemoveElement
    <2> QED
      BY <1>2, <1>4, <1>5, <2>1, <2>2
  <1>8. /\ IsFiniteSet(Serving')
        /\ Cardinality(Serving') = Cardinality(Serving)
             + (IF to \in Outside THEN 0 ELSE 1) - (IF from \in Outside THEN 0 ELSE 1)
    <2>1. /\ IsFiniteSet(Serving \cup {c})
          /\ Cardinality(Serving \cup {c}) =
               IF c \in Serving THEN Cardinality(Serving) ELSE Cardinality(Serving) + 1
      BY Zenon, FS_AddElement
    <2>2. /\ IsFiniteSet(Serving \ {c})
          /\ Cardinality(Serving \ {c}) =
               IF c \in Serving THEN Cardinality(Serving) - 1 ELSE Cardinality(Serving)
      BY Zenon, FS_RemoveElement
    <2> QED
      BY <1>2, <1>4, <1>6, <2>1, <2>2
  <1> QED
    BY Zenon, <1>7, <1>8

\* A step leaves the handlers and the counters alone, or is one of a handler.
LEMMA CountingKinds ==
    ASSUME [Next]_vars
    PROVE  \/ UNCHANGED <<hpc, nread, published, metrics>> /\ handed \subseteq handed'
           \/ \E c \in Conns : Accept(c) \/ Handler(c)
  <1>1. CASE UNCHANGED vars \/ Rest
    BY Zenon, <1>1 DEF Rest, vars, handler, kafka
  <1>2. CASE \E c \in Conns : Disconnect(c)
    BY Zenon, <1>2 DEF Disconnect, handler, kafka
  <1>3. CASE \E e \in Events : Store(e) \/ \E r \in {"stored", "error"} : Report(e, r)
    BY Zenon, <1>3 DEF Store, Report, handler
  <1>4. CASE HandOver
    BY Zenon, <1>4 DEF HandOver, handler
  <1>5. CASE Signal \/ Closer \/ Main
    BY Zenon, <1>5 DEF Signal, Closer, StartSweep, EndSweep, SweepOne, Main, Exit,
       ShutdownReturns, Flush, handler, kafka
  <1> QED
    BY Zenon, <1>1, <1>2, <1>3, <1>4, <1>5 DEF Next

\* Every message read is counted once.
LEMMA CountedStep ==
    ASSUME IndInv, Unpublished, Counted, [Next]_vars
    PROVE  Counted'
  <1>0. /\ IsFiniteSet(Working) /\ Cardinality(Working) \in Nat
        /\ Cardinality(Serving) \in Nat /\ Cardinality(published) \in Nat
    BY Zenon, WorkingFinite, FS_CardinalityType DEF Counted
  <1>1. CASE UNCHANGED <<hpc, nread, published, metrics>>
    <2>1. Working' = Working /\ Serving' = Serving
      BY Zenon, <1>1 DEF Working, Serving
    <2> QED
      BY Zenon, <1>1, <2>1 DEF Counted, metrics
  <1>2. ASSUME NEW c \in Conns, NEW from \in Places, NEW to \in Places, Goto(c, from, to),
               from \in Busy <=> to \in Busy, from \in Outside <=> to \in Outside,
               UNCHANGED <<published, metrics>>
        PROVE  Counted'
    BY <1>0, <1>2, MoveCounts DEF Counted, metrics, IndInv
  <1>3. ASSUME NEW c \in Conns,
               Accept(c) \/ UpgradeFails(c) \/ Register(c) \/ ReadEnds(c) \/ Enqueue(c)
        PROVE  Counted'
    BY Zenon, <1>2, <1>3 DEF Accept, UpgradeFails, Register, ReadEnds, Enqueue, Places, Busy, Outside
  <1>4. ASSUME NEW c \in Conns, Upgrade(c) PROVE Counted'
    BY <1>0, <1>4, MoveCounts DEF Upgrade, Counted, Busy, Outside, IndInv
  <1>5. ASSUME NEW c \in Conns, Leave(c) PROVE Counted'
    <2>1. Cardinality(Serving') = Cardinality(Serving) - 1 /\ Cardinality(Working') = Cardinality(Working)
          /\ IsFiniteSet(Serving')
      BY <1>0, <1>5, MoveCounts DEF Leave, Counted, Busy, Outside, IndInv
    <2>2. Cardinality(Serving') \in Nat
      BY Zenon, <2>1, FS_CardinalityType
    <2> QED
      BY Zenon, <1>0, <1>5, <2>1, <2>2 DEF Leave, Counted
  <1>6. ASSUME NEW c \in Conns, ReadMessage(c) PROVE Counted'
    <2>1. received' = received + 1 /\ UNCHANGED <<failures, active, published>>
      BY Zenon, <1>6 DEF ReadMessage
    <2>2. CASE Goto(c, "read", "read") /\ invalid' = invalid + 1
      <3>1. /\ IsFiniteSet(Serving') /\ Cardinality(Serving') = Cardinality(Serving)
            /\ Cardinality(Working') = Cardinality(Working)
        BY <1>0, <2>2, MoveCounts DEF Counted, Busy, Outside, IndInv
      <3> QED
        BY <1>0, <2>1, <2>2, <3>1 DEF Counted
    <2>3. CASE Goto(c, "read", "produce") /\ invalid' = invalid
      <3>1. /\ IsFiniteSet(Serving') /\ Cardinality(Serving') = Cardinality(Serving)
            /\ Cardinality(Working') = Cardinality(Working) + 1
        BY <1>0, <2>3, MoveCounts DEF Counted, Busy, Outside, IndInv
      <3> QED
        BY <1>0, <2>1, <2>3, <3>1 DEF Counted
    <2> QED
      BY Zenon, <1>6, <2>2, <2>3 DEF ReadMessage
  <1>7. ASSUME NEW c \in Conns, ProduceFails(c) \/ TimedOut(c) PROVE Counted'
    <2>1. PICK from \in Busy : Goto(c, from, "read")
      BY Zenon, <1>7 DEF ProduceFails, TimedOut, Busy
    <2>2. /\ failures' = failures + 1
          /\ UNCHANGED <<received, invalid, active, published>>
      BY Zenon, <1>7 DEF ProduceFails, TimedOut
    <2> QED
      BY <1>0, <2>1, <2>2, MoveCounts DEF Counted, Busy, Outside, IndInv
  <1>8. ASSUME NEW c \in Conns, Delivered(c) PROVE Counted'
    <2>1. Goto(c, "wait", "read") /\ UNCHANGED <<received, invalid, active>>
      BY Zenon, <1>8 DEF Delivered
    <2>2. Current(c) \notin published
      BY Zenon, <2>1 DEF Unpublished, Goto, Busy
    <2>3. \/ published' = published \cup {Current(c)} /\ failures' = failures
          \/ published' = published /\ failures' = failures + 1
      BY Zenon, <1>8 DEF Delivered
    <2>4. /\ IsFiniteSet(published')
          /\ failures' + Cardinality(published') = failures + Cardinality(published) + 1
          /\ failures' \in Nat /\ Cardinality(published') \in Nat
      <3>1. /\ IsFiniteSet(published \cup {Current(c)})
            /\ Cardinality(published \cup {Current(c)}) = Cardinality(published) + 1
        BY Zenon, <2>2, FS_AddElement DEF Counted
      <3>2. failures \in Nat /\ IsFiniteSet(published)
        BY Zenon DEF Counted
      <3>3. CASE published' = published \cup {Current(c)} /\ failures' = failures
        BY <1>0, <3>1, <3>2, <3>3
      <3>4. CASE published' = published /\ failures' = failures + 1
        BY <1>0, <3>2, <3>4
      <3> QED
        BY Zenon, <2>3, <3>3, <3>4
    <2>5. /\ IsFiniteSet(Serving') /\ Cardinality(Serving') = Cardinality(Serving)
          /\ Cardinality(Working') = Cardinality(Working) - 1
      BY <1>0, <2>1, MoveCounts DEF Counted, Busy, Outside, IndInv
    <2>6. received' = invalid' + failures' + Cardinality(published') + Cardinality(Working')
      BY <1>0, <2>1, <2>4, <2>5 DEF Counted
    <2> QED
      BY Zenon, <1>0, <2>1, <2>4, <2>5, <2>6 DEF Counted
  <1> QED
    BY Zenon, <1>1, <1>3, <1>4, <1>5, <1>6, <1>7, <1>8, CountingKinds DEF Handler

\* What a handler works on is published only when it is done with it.
LEMMA UnpublishedStep ==
    ASSUME IndInv, Unpublished, [Next]_vars
    PROVE  Unpublished'
  <1>1. CASE UNCHANGED <<hpc, nread, published, metrics>> /\ handed \subseteq handed'
    BY Zenon, <1>1 DEF Unpublished, Current
  <1>2. ASSUME NEW c \in Conns, NEW from, NEW to, Goto(c, from, to), to \in Busy => from \in Busy,
               to = "wait" => Current(c) \in handed',
               UNCHANGED <<nread, published>>, handed \subseteq handed'
        PROVE  Unpublished'
    BY Zenon, <1>2 DEF Unpublished, Current, Goto, IndInv, Types
  <1>3. ASSUME NEW c \in Conns,
               \/ Accept(c) \/ UpgradeFails(c) \/ Upgrade(c) \/ Register(c) \/ Leave(c)
               \/ ReadEnds(c) \/ Enqueue(c) \/ ProduceFails(c) \/ TimedOut(c)
        PROVE  Unpublished'
    BY Zenon, <1>2, <1>3 DEF Accept, UpgradeFails, Upgrade, Register, Leave, ReadEnds, Enqueue,
       ProduceFails, TimedOut, Busy, kafka
  <1>4. ASSUME NEW c \in Conns, ReadMessage(c) PROVE Unpublished'
    <2>1. /\ nread' = [nread EXCEPT ![c] = nread[c] + 1] /\ nread[c] + 1 \in DOMAIN Stream[c]
          /\ UNCHANGED <<published, handed>> /\ nread[c] \in Nat
          /\ \E to \in {"read", "produce"} : hpc' = [hpc EXCEPT ![c] = to]
      BY <1>4, StreamAssumption DEF ReadMessage, Goto, kafka, IndInv, Types
    <2>2. Stream[c][nread[c] + 1] \notin handed
      BY <2>1 DEF IndInv, Unsent
    <2>3. \A d \in Conns : d # c => Current(d)' = Current(d) /\ hpc'[d] = hpc[d]
      BY Zenon, <2>1 DEF Current, IndInv, Types
    <2>4. Current(c)' = Stream[c][nread[c] + 1]
      BY Zenon, <2>1 DEF Current, IndInv, Types
    <2> QED
      BY Zenon, <2>1, <2>2, <2>3, <2>4 DEF Unpublished, IndInv, Types
  <1>5. ASSUME NEW c \in Conns, Delivered(c) PROVE Unpublished'
    <2>1. /\ hpc[c] = "wait" /\ hpc' = [hpc EXCEPT ![c] = "read"] /\ UNCHANGED <<nread, handed>>
          /\ published' \subseteq published \cup {Current(c)}
      BY Zenon, <1>5 DEF Delivered, Goto
    <2>2. nread[c] \in DOMAIN Stream[c] /\ Current(c) # Bad
      BY Zenon, <2>1, CurrentPlace DEF IndInv, Types, Busy
    <2>3. Current(c) \in handed
      BY Zenon, <2>1 DEF Unpublished
    <2>4. ASSUME NEW d \in Conns, hpc'[d] \in Busy PROVE Current(d) \notin published'
      <3>1. d # c /\ hpc[d] \in Busy
        BY Zenon, <2>1, <2>4 DEF IndInv, Types, Busy
      <3>2. nread[d] \in DOMAIN Stream[d]
        BY Zenon, <3>1, CurrentPlace DEF IndInv
      <3>3. Current(d) # Current(c)
        BY Zenon, <2>2, <3>1, <3>2, OnePlace DEF Current
      <3> QED
        BY Zenon, <2>1, <3>1, <3>3 DEF Unpublished
    <2> QED
      BY <2>1, <2>3, <2>4 DEF Unpublished, Current
  <1> QED
    BY Zenon, <1>1, <1>3, <1>4, <1>5, CountingKinds DEF Handler

\* The map of connections holds those whose handlers are past Register.
LEMMA ConnectedStep ==
    ASSUME IndInv, Connected, [Next]_vars
    PROVE  Connected'
  <1> DEFINE Holds == {"read", "produce", "wait", "leaving"}
  <1>1. CASE UNCHANGED <<hpc, sockets, main>>
    BY Zenon, <1>1 DEF Connected, sockets, main, sweeper
  <1>2. ASSUME NEW c \in Conns, NEW from, NEW to, Goto(c, from, to),
               \/ from \in Holds /\ to \in Holds /\ registered' = registered
               \/ from \notin Holds /\ to \notin Holds /\ registered' = registered
               \/ to \in Holds /\ registered' = registered \cup {c}
               \/ to \notin Holds /\ registered' = registered \ {c}
        PROVE  registered' = {d \in Conns : hpc'[d] \in Holds}
    <2>1. \A d \in Conns : hpc'[d] = IF d = c THEN to ELSE hpc[d]
      BY Zenon, <1>2 DEF Goto, IndInv, Types
    <2>2. hpc[c] = from /\ registered = {d \in Conns : hpc[d] \in Holds}
      BY Zenon, <1>2 DEF Goto, Connected
    <2> HIDE DEF Holds
    <2> QED
      BY Zenon, <1>2, <2>1, <2>2
  <1>3. ASSUME NEW c \in Conns,
               \/ Accept(c) \/ UpgradeFails(c) \/ ReadMessage(c) \/ ReadEnds(c)
               \/ Enqueue(c) \/ ProduceFails(c) \/ Delivered(c) \/ TimedOut(c)
        PROVE  Connected'
    <2>1. registered' = {d \in Conns : hpc'[d] \in Holds}
      BY Zenon, <1>2, <1>3 DEF Accept, UpgradeFails, ReadMessage, ReadEnds, Enqueue, ProduceFails,
         Delivered, TimedOut, sockets
    <2>2. UNCHANGED <<sockets, main>>
      BY Zenon, <1>3 DEF Accept, UpgradeFails, ReadMessage, ReadEnds, Enqueue, ProduceFails,
         Delivered, TimedOut
    <2> QED
      BY Zenon, <2>1, <2>2 DEF Connected, sockets, main, sweeper
  <1>4. ASSUME NEW c \in Conns, Upgrade(c) \/ Register(c) \/ Leave(c) PROVE Connected'
    <2>1. registered' = {d \in Conns : hpc'[d] \in Holds}
      BY Zenon, <1>2, <1>4 DEF Upgrade, Register, Leave
    <2>2. UNCHANGED <<told, main>> /\ open' \subseteq open \cup {c}
      BY Zenon, <1>4 DEF Upgrade, Register, Leave
    <2> QED
      BY Zenon, <2>1, <2>2 DEF Connected, main, sweeper
  <1>5. ASSUME NEW c \in Conns, Disconnect(c) PROVE Connected'
    BY Zenon, <1>5 DEF Disconnect, Connected, handler, main, sweeper
  <1>6. ASSUME NEW e \in Events, Store(e) \/ \E r \in {"stored", "error"} : Report(e, r)
        PROVE  Connected'
    BY Zenon, <1>1, <1>6 DEF Store, Report, handler
  <1>7. CASE HandOver \/ Rest \/ UNCHANGED vars
    BY Zenon, <1>1, <1>7 DEF HandOver, Rest, vars, handler
  <1>8. CASE Signal \/ Main
    BY Zenon, <1>8 DEF Signal, Main, Exit, ShutdownReturns, Flush, Connected, handler, sockets, sweeper
  <1>9. CASE Closer
    BY Zenon, <1>9 DEF Closer, StartSweep, EndSweep, SweepOne, Connected, handler, sockets
  <1> QED
    BY Zenon, <1>3, <1>4, <1>5, <1>6, <1>7, <1>8, <1>9 DEF Next, Handler

\* Counters and connections in the initial state.
LEMMA InitCounted == Init => Unpublished /\ Counted /\ Connected
  <1> SUFFICES ASSUME Init PROVE Unpublished /\ Counted /\ Connected
    BY Zenon
  <1>1. Serving = {} /\ Working = {}
    BY Zenon DEF Init, Serving, Working, Outside, Busy
  <1>2. Counted
    BY <1>1, FS_EmptySet DEF Init, Counted
  <1> QED
    BY Zenon, <1>2 DEF Init, Unpublished, Connected, Busy

\* The counters and the connections stay as they should be, for any connections and
\* streams.
THEOREM CountedInvariance == Spec => [](IndInv /\ Unpublished /\ Counted /\ Connected)
  <1>1. IndInv /\ Unpublished /\ Counted /\ Connected /\ [Next]_vars
          => Unpublished' /\ Counted' /\ Connected'
    BY Zenon, UnpublishedStep, CountedStep, ConnectedStep
  <1> QED
    BY <1>1, InitCounted, ReceiverInvariance, PTL DEF Spec

\* Every variable of the receiver has its type, and dr.connections holds exactly the
\* connections whose handlers have still to remove them.
THEOREM ReceiverTypeCorrect == Spec => []TypeOK
  <1>1. IndInv /\ Unpublished /\ Counted /\ Connected => TypeOK
    <2> SUFFICES ASSUME IndInv, Unpublished, Counted, Connected PROVE TypeOK
      BY Zenon
    <2>1. \A c \in Conns : nread[c] \in 0 .. Len(Stream[c])
      BY StreamAssumption DEF IndInv, Types
    <2> QED
      BY Zenon, <2>1 DEF IndInv, Types, Unpublished, Counted, Connected, TypeOK, Places, Busy, Results
  <1> QED
    BY <1>1, CountedInvariance, PTL

\* Every message read is invalid, failed, published or in a handler's hands, and the
\* gauge counts the handlers at work (wsReceiveLoop, handleWS).
THEOREM EveryMessageCounted == Spec => []MessagesAccounted
  <1>1. Counted => MessagesAccounted
    BY Zenon DEF Counted, MessagesAccounted, Working, Serving, Busy, Outside
  <1> QED
    BY <1>1, CountedInvariance, PTL
===========================================================================
