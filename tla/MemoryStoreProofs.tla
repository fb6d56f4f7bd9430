------------------------- MODULE MemoryStoreProofs -------------------------
(***************************************************************************)
(* What the RWMutex of MemoryStore protects, for any number of goroutines, *)
(* events and OBUs: a goroutine between the statements of Insert is alone, *)
(* no event is charged twice, the running record and the totals map agree  *)
(* with the charges, and the store implements the ledger.                  *)
(***************************************************************************)
EXTENDS MemoryStore, FingerprintProofs

Reading == {"Get", "Copy", "RUnlock"}

Places == Locking \cup Reading
            \cup {"idle", "Lock", "RLockGet", "RLockReconciliation", "Reply"}

\* Between the check for a duplicate and the charge.
Charging == {"Mark", "Count", "XOR", "Sum", "Add"}

Types ==
    /\ pc \in [Goroutines -> Places]
    /\ dist \in [Goroutines -> Distances \cup {None}]
    /\ writer \in Goroutines \cup {None}
    /\ readers \subseteq Goroutines

\* The argument of an Insert has passed the validation of AggregateDistance.
Validated ==
    \A t \in Goroutines : pc[t] \in Locking \cup {"Lock"} =>
        dist[t] \in Distances /\ ~Invalid(dist[t])

\* The write lock has one holder, and readers are out when it is past Drain.
Exclusive ==
    /\ \A t \in Goroutines : pc[t] \in Locking <=> writer = t
    /\ \A t \in Goroutines : pc[t] \in Reading <=> t \in readers
    /\ \A t \in Goroutines : Inside(t) => readers = {}

\* processed is ahead of the ledger by the event of the Insert in progress.
Marked ==
    /\ DOMAIN ledger \subseteq processed
    /\ \A t \in Goroutines : pc[t] \in Charging =>
          /\ dist[t].EventID \notin DOMAIN ledger
          /\ pc[t] # "Mark" => dist[t].EventID \in processed
    /\ \A e \in processed \ DOMAIN ledger :
          \E t \in Goroutines : pc[t] \in Charging \ {"Mark"} /\ dist[t].EventID = e

IndInv == Types /\ Validated /\ Exclusive /\ Marked

\* A record of Distances has its fields, and a valid one has a real event ID.
LEMMA ValidDistance ==
    ASSUME NEW d \in Distances, ~Invalid(d)
    PROVE  d.EventID \in EventIDs /\ d.EventID # NoEventID
  BY Zenon, StoreAssumption DEF Invalid

\* The empty store satisfies the invariant.
LEMMA InitInv == Init => IndInv
  BY Zenon, StoreAssumption DEF Init, IndInv, Types, Validated, Exclusive, Marked, Places,
     Locking, Reading, Charging, Inside

\* Every statement keeps the program counters, arguments and lock typed.
LEMMA TypesStep == IndInv /\ [Next]_vars => Types'
  <1> SUFFICES ASSUME IndInv, [Next]_vars PROVE Types'
    BY Zenon
  <1> USE DEF Types, Places, Locking, Reading, Step, Return, IndInv
  <1>1. CASE UNCHANGED vars
    BY Zenon, <1>1 DEF vars, lock
  <1>2. ASSUME NEW t \in Goroutines, Call(t) PROVE Types'
    BY Zenon, <1>2 DEF Call, RejectDistance, AggregateDistance, CalculateInvoice,
       Reconciliation, lock
  <1>3. ASSUME NEW t \in Goroutines, Run(t) PROVE Types'
    BY ZenonT(40), <1>3 DEF Run, Lock, Drain, Check, Mark, Count, XOR, Sum, Add, Unlock,
       RLockGet, RLock, Get, RLockReconciliation, Copy, RUnlock, Reply, lock
  <1>4. QED
    BY Zenon, <1>1, <1>2, <1>3 DEF Next

\* Only AggregateDistance sets an argument, after the validation.
LEMMA ValidatedStep == IndInv /\ [Next]_vars => Validated'
  <1> SUFFICES ASSUME IndInv, [Next]_vars PROVE Validated'
    BY Zenon
  <1> USE DEF IndInv, Types, Validated, Places, Locking, Reading, Step
  <1>1. CASE UNCHANGED vars
    BY Zenon, <1>1 DEF vars
  <1>2. ASSUME NEW t \in Goroutines, Call(t) PROVE Validated'
    BY Zenon, <1>2 DEF Call, RejectDistance, AggregateDistance, CalculateInvoice, Reconciliation
  <1>3. ASSUME NEW t \in Goroutines, Run(t) PROVE Validated'
    BY ZenonT(40), <1>3 DEF Run, Lock, Drain, Check, Mark, Count, XOR, Sum, Add, Unlock,
       RLockGet, RLock, Get, RLockReconciliation, Copy, RUnlock, Reply
  <1>4. QED
    BY Zenon, <1>1, <1>2, <1>3 DEF Next

\* sync.RWMutex: Lock needs no other writer, Drain no reader, RLock no writer.
LEMMA ExclusiveStep == IndInv /\ [Next]_vars => Exclusive'
  <1> SUFFICES ASSUME IndInv, [Next]_vars PROVE Exclusive'
    BY Zenon
  <1> USE StoreAssumption DEF IndInv, Types, Exclusive, Inside, Places, Locking, Reading, Step
  <1>1. CASE UNCHANGED vars
    BY Zenon, <1>1 DEF vars, lock
  <1>2. ASSUME NEW t \in Goroutines, Call(t) PROVE Exclusive'
    BY <1>2 DEF Call, RejectDistance, AggregateDistance, CalculateInvoice,
       Reconciliation, lock
  <1>3. ASSUME NEW t \in Goroutines, Run(t) PROVE Exclusive'
    <2>1. CASE Lock(t)
      BY Zenon, <2>1 DEF Lock
    <2>2. CASE Drain(t)
      BY Zenon, <2>2 DEF Drain, lock
    <2>3. CASE Check(t) \/ Mark(t) \/ Count(t) \/ XOR(t) \/ Sum(t) \/ Add(t)
      BY <2>3, ValidDistance DEF Check, Mark, Count, XOR, Sum, Add, lock, Validated
    <2>4. CASE Unlock(t)
      BY Zenon, <2>4 DEF Unlock
    <2>5. CASE RLockGet(t) \/ RLockReconciliation(t)
      BY <2>5 DEF RLockGet, RLockReconciliation, RLock
    <2>6. CASE Get(t) \/ Copy(t) \/ Reply(t)
      BY ZenonT(40), <2>6 DEF Get, Copy, Reply, lock
    <2>7. CASE RUnlock(t)
      BY Zenon, <2>7 DEF RUnlock
    <2>8. QED
      BY Zenon, <1>3, <2>1, <2>2, <2>3, <2>4, <2>5, <2>6, <2>7 DEF Run
  <1>4. QED
    BY Zenon, <1>1, <1>2, <1>3 DEF Next

\* Check, Mark and Add keep processed and the ledger together, because nobody else
\* is between them.
LEMMA MarkedStep == IndInv /\ [Next]_vars => Marked'
  <1> SUFFICES ASSUME IndInv, [Next]_vars PROVE Marked'
    BY Zenon
  <1> USE DEF IndInv, Types, Marked, Charging, Places, Locking, Reading, Step
  <1>a. ASSUME NEW t \in Goroutines, NEW u \in Goroutines,
               pc[t] \in Locking, pc[u] \in Charging
        PROVE  t = u
    BY Zenon, <1>a DEF Exclusive
  <1>1. CASE UNCHANGED vars
    BY Zenon, <1>1 DEF vars, shared
  <1>2. ASSUME NEW t \in Goroutines, Call(t) PROVE Marked'
    BY <1>2 DEF Call, RejectDistance, AggregateDistance, CalculateInvoice,
       Reconciliation, shared
  <1>3. ASSUME NEW t \in Goroutines, Run(t) PROVE Marked'
    <2>1. CASE Lock(t) \/ Drain(t) \/ Unlock(t)
      BY <2>1 DEF Lock, Drain, Unlock, shared
    <2>2. CASE Check(t)
      <3>1. dist[t] \in Distances /\ dist[t].EventID # NoEventID
        BY Zenon, <2>2, ValidDistance DEF Check, Validated
      <3> QED
        BY <2>2, <3>1 DEF Check, shared
    <2>3. CASE Mark(t)
      BY <2>3, <1>a DEF Mark
    <2>4. CASE Count(t) \/ XOR(t) \/ Sum(t)
      BY <2>4 DEF Count, XOR, Sum
    <2>5. CASE Add(t)
      <3>1. /\ DOMAIN ledger' = DOMAIN ledger \cup {dist[t].EventID}
            /\ processed' = processed /\ dist' = dist
            /\ pc[t] = "Add" /\ pc' = [pc EXCEPT ![t] = "Unlock"]
        BY Zenon, <2>5 DEF Add
      <3> QED
        BY <3>1, <1>a
    <2>6. CASE RLockGet(t) \/ RLockReconciliation(t)
      BY <2>6 DEF RLockGet, RLockReconciliation, RLock, shared
    <2>7. CASE Get(t)
      BY ZenonT(40), <2>7 DEF Get, shared
    <2>8. CASE Copy(t) \/ RUnlock(t)
      BY <2>8 DEF Copy, RUnlock, shared
    <2>9. CASE Reply(t)
      BY <2>9 DEF Reply, shared
    <2>10. QED
      BY Zenon, <1>3, <2>1, <2>2, <2>3, <2>4, <2>5, <2>6, <2>7, <2>8, <2>9 DEF Run
  <1>4. QED
    BY Zenon, <1>1, <1>2, <1>3 DEF Next

\* The inductive invariant holds in every reachable state of the store.
THEOREM StoreInvariance == Spec => []IndInv
  <1>1. IndInv /\ [Next]_vars => IndInv'
    BY Zenon, TypesStep, ValidatedStep, ExclusiveStep, MarkedStep DEF IndInv
  <1> QED
    BY <1>1, InitInv, PTL DEF Spec

\* A goroutine between Lock and Unlock of Insert runs beside no other Insert and
\* beside no reader: what CalculateInvoice and Reconciliation read is never half
\* written.
THEOREM InsertIsAlone ==
    Spec => [](\A t \in Goroutines : Inside(t) =>
                  /\ \A u \in Goroutines : Inside(u) => u = t
                  /\ \A u \in Goroutines : pc[u] \notin {"Get", "Copy", "RUnlock"})
  <1>1. IndInv => \A t \in Goroutines : Inside(t) =>
                  /\ \A u \in Goroutines : Inside(u) => u = t
                  /\ \A u \in Goroutines : pc[u] \notin {"Get", "Copy", "RUnlock"}
    BY Zenon DEF IndInv, Exclusive, Inside, Reading
  <1> QED
    BY <1>1, StoreInvariance, PTL

\* Insert charges an event ID at most once and never changes a charge.
THEOREM ChargedOnce == Spec => ChargesAreFinal
  <1>1. IndInv /\ [Next]_vars =>
          [\A t \in Goroutines :
             Add(t) => \A e \in DOMAIN ledger :
                          /\ e # dist[t].EventID
                          /\ ledger'[e] = ledger[e]]_vars
    BY DEF IndInv, Marked, Charging, Add, Step
  <1> QED
    BY <1>1, StoreInvariance, PTL DEF Spec, ChargesAreFinal

-----------------------------------------------------------------------------
\* The events of the Inserts that are at one of these statements.
Behind(places) == {dist[t].EventID : t \in {u \in Goroutines : pc[u] \in places}}

\* In the middle of Insert each number of the running record is behind the processed
\* set by the event whose statement for that number is still to come.
Reconciled ==
    /\ IsFiniteSet(processed) /\ processed \subseteq EventIDs
    /\ reconcile =
         [Count |-> Cardinality(processed \ Behind({"Count"})),
          XOR |-> XorOf(processed \ Behind({"Count", "XOR"})),
          Sum |-> SumOf(processed \ Behind({"Count", "XOR", "Sum"}))]

\* The totals map is never behind the ledger.
Totalled ==
    /\ ledger \in [DOMAIN ledger -> [OBUID : Nat, Value : Nat]]
    /\ DOMAIN data = {ledger[e].OBUID : e \in DOMAIN ledger}
    /\ data = [o \in DOMAIN data |-> TotalOf(o)]

\* A call has a result only at its last statement, and CalculateInvoice an argument
\* until then.
Results ==
    /\ obu \in [Goroutines -> OBUIDs \cup {None}]
    /\ out = [t \in Goroutines |-> out[t]]
    /\ \A t \in Goroutines : pc[t] \notin {"Unlock", "RUnlock", "Reply"} => out[t] = None
    /\ \A t \in Goroutines : pc[t] \in {"RLockGet", "Get"} => obu[t] \in OBUIDs

StoreInv == IndInv /\ Reconciled /\ Totalled /\ Results

\* While an Insert holds the lock, no other Insert is behind.
LEMMA OnlyOneBehind ==
    ASSUME IndInv, NEW t \in Goroutines, pc[t] \in Locking, NEW P, P \subseteq Locking
    PROVE  Behind(P) = IF pc[t] \in P THEN {dist[t].EventID} ELSE {}
  <1>1. \A u \in Goroutines : pc[u] \in P => u = t
    BY Zenon DEF IndInv, Exclusive
  <1> QED
    BY Zenon, <1>1 DEF Behind

\* The same after a statement of that Insert.
LEMMA OnlyOneBehindNext ==
    ASSUME IndInv, NEW t \in Goroutines, pc[t] \in Locking, NEW P, P \subseteq Locking,
           NEW to, pc' = [pc EXCEPT ![t] = to], dist' = dist
    PROVE  Behind(P)' = IF to \in P THEN {dist[t].EventID} ELSE {}
  <1>1. \A u \in Goroutines : pc[u] \in P => u = t
    BY Zenon DEF IndInv, Exclusive
  <1>2. pc \in [Goroutines -> Places]
    BY Zenon DEF IndInv, Types
  <1>3. Behind(P)' = {dist[u].EventID : u \in {v \in Goroutines : pc'[v] \in P}}
    BY Zenon DEF Behind
  <1>4. {v \in Goroutines : pc'[v] \in P} = IF to \in P THEN {t} ELSE {}
    BY Zenon, <1>1, <1>2
  <1> QED
    BY Zenon, <1>3, <1>4

\* A step that leaves the record alone, and moves no goroutine to or from a statement
\* that updates it, keeps the record right.
LEMMA RecordUntouched ==
    ASSUME Reconciled, UNCHANGED <<processed, reconcile>>,
           \A u \in Goroutines :
              \/ pc'[u] = pc[u] /\ dist'[u] = dist[u]
              \/ /\ pc'[u] \notin {"Count", "XOR", "Sum"}
                 /\ pc[u] \notin {"Count", "XOR", "Sum"}
    PROVE  Reconciled'
  <1>1. ASSUME NEW P, P \subseteq {"Count", "XOR", "Sum"}
        PROVE  Behind(P)' = Behind(P)
    <2>1. {u \in Goroutines : pc'[u] \in P} = {u \in Goroutines : pc[u] \in P}
      BY Zenon, <1>1
    <2>2. \A u \in Goroutines : pc[u] \in P => dist'[u] = dist[u]
      BY Zenon, <1>1
    <2>3. Behind(P)' = {dist'[u].EventID : u \in {v \in Goroutines : pc'[v] \in P}}
      BY Zenon DEF Behind
    <2> QED
      BY Zenon, <2>1, <2>2, <2>3 DEF Behind
  <1>2. /\ Behind({"Count"})' = Behind({"Count"})
        /\ Behind({"Count", "XOR"})' = Behind({"Count", "XOR"})
        /\ Behind({"Count", "XOR", "Sum"})' = Behind({"Count", "XOR", "Sum"})
    BY Zenon, <1>1
  <1> QED
    BY Zenon, <1>2 DEF Reconciled, XorOf, SumOf

\* Mark, Count, XOR and Sum bring the record up to the new event, one number each.
LEMMA ReconciledStep == StoreInv /\ [Next]_vars => Reconciled'
  <1> SUFFICES ASSUME StoreInv, [Next]_vars PROVE Reconciled'
    BY Zenon
  <1>1. IndInv /\ Reconciled
    BY Zenon DEF StoreInv
  <1>2. pc \in [Goroutines -> Places] /\ dist \in [Goroutines -> Distances \cup {None}]
    BY Zenon, <1>1 DEF IndInv, Types
  <1>3. CASE UNCHANGED vars
    BY Zenon, <1>1, <1>3, RecordUntouched DEF vars, shared
  <1>4. ASSUME NEW t \in Goroutines, Call(t) PROVE Reconciled'
    <2>1. UNCHANGED <<processed, reconcile>>
      BY Zenon, <1>4 DEF Call, RejectDistance, AggregateDistance, CalculateInvoice,
         Reconciliation, shared
    <2>2. \A u \in Goroutines :
             \/ pc'[u] = pc[u] /\ dist'[u] = dist[u]
             \/ /\ pc'[u] \notin {"Count", "XOR", "Sum"}
                /\ pc[u] \notin {"Count", "XOR", "Sum"}
      BY Zenon, <1>2, <1>4 DEF Call, RejectDistance, AggregateDistance, CalculateInvoice,
         Reconciliation, Step
    <2> QED
      BY Zenon, <1>1, <2>1, <2>2, RecordUntouched
  <1>5. ASSUME NEW t \in Goroutines, Run(t) PROVE Reconciled'
    <2> DEFINE e == dist[t].EventID
    <2>a. ASSUME pc[t] \in Charging
          PROVE  /\ e \in EventIDs /\ e \notin DOMAIN ledger
                 /\ pc[t] = "Mark" => e \notin processed
                 /\ pc[t] # "Mark" => e \in processed
      <3>1. e \in EventIDs
        BY Zenon, <1>1, <2>a, ValidDistance DEF IndInv, Validated, Charging, Locking
      <3>2. \A u \in Goroutines : pc[u] \in Charging => u = t
        BY <1>1, <2>a DEF IndInv, Exclusive, Charging, Locking
      <3> QED
        BY Zenon, <1>1, <2>a, <3>1, <3>2 DEF IndInv, Marked, Charging
    <2>b. Reconciled' =
            /\ IsFiniteSet(processed') /\ processed' \subseteq EventIDs
            /\ reconcile' =
                 [Count |-> Cardinality(processed' \ Behind({"Count"})'),
                  XOR |-> XorOf(processed' \ Behind({"Count", "XOR"})'),
                  Sum |-> SumOf(processed' \ Behind({"Count", "XOR", "Sum"})')]
      BY Zenon DEF Reconciled, XorOf, SumOf
    <2>1. CASE Mark(t)
      <3>1. /\ pc[t] = "Mark" /\ pc' = [pc EXCEPT ![t] = "Count"] /\ dist' = dist
            /\ processed' = processed \cup {e} /\ reconcile' = reconcile
        BY Zenon, <2>1 DEF Mark, Step
      <3>2. e \in EventIDs /\ e \notin processed
        BY Zenon, <2>a, <3>1 DEF Charging
      <3>3. ASSUME NEW P, P \subseteq {"Count", "XOR", "Sum"}, "Count" \in P
            PROVE  Behind(P) = {} /\ Behind(P)' = {e}
        BY Zenon, <1>1, <3>1, <3>3, OnlyOneBehind, OnlyOneBehindNext DEF Locking
      <3>4. ASSUME NEW P, P \subseteq {"Count", "XOR", "Sum"}, "Count" \in P
            PROVE  (processed \ Behind(P))' = processed \ Behind(P)
        BY <3>1, <3>2, <3>3, <3>4
      <3>5. /\ (processed \ Behind({"Count"}))' = processed \ Behind({"Count"})
            /\ (processed \ Behind({"Count", "XOR"}))' = processed \ Behind({"Count", "XOR"})
            /\ (processed \ Behind({"Count", "XOR", "Sum"}))'
                  = processed \ Behind({"Count", "XOR", "Sum"})
        BY Zenon, <3>4
      <3>6. IsFiniteSet(processed') /\ processed' \subseteq EventIDs
        BY Zenon, <1>1, <3>1, <3>2, FS_AddElement DEF Reconciled
      <3> QED
        BY Zenon, <1>1, <2>b, <3>1, <3>5, <3>6 DEF Reconciled
    <2>2. CASE Count(t)
      <3>1. /\ pc[t] = "Count" /\ pc' = [pc EXCEPT ![t] = "XOR"] /\ dist' = dist
            /\ processed' = processed
            /\ reconcile' = [reconcile EXCEPT !.Count = @ + 1]
        BY Zenon, <2>2 DEF Count, Step
      <3>2. e \in processed
        BY Zenon, <2>a, <3>1 DEF Charging
      <3>3. /\ Behind({"Count"}) = {e} /\ Behind({"Count"})' = {}
            /\ Behind({"Count", "XOR"})' = Behind({"Count", "XOR"})
            /\ Behind({"Count", "XOR", "Sum"})' = Behind({"Count", "XOR", "Sum"})
        BY Zenon, <1>1, <3>1, OnlyOneBehind, OnlyOneBehindNext DEF Locking
      <3>4. Cardinality(processed \ {e}) + 1 = Cardinality(processed)
        <4>1. IsFiniteSet(processed)
          BY Zenon, <1>1 DEF Reconciled
        <4>2. Cardinality(processed) \in Nat
          BY Zenon, <4>1, FS_CardinalityType
        <4>3. Cardinality(processed \ {e}) = Cardinality(processed) - 1
          BY Zenon, <3>2, <4>1, FS_RemoveElement
        <4> QED
          BY <4>2, <4>3
      <3> QED
        BY Zenon, <1>1, <2>b, <3>1, <3>3, <3>4 DEF Reconciled
    <2>3. CASE XOR(t)
      <3>1. /\ pc[t] = "XOR" /\ pc' = [pc EXCEPT ![t] = "Sum"] /\ dist' = dist
            /\ processed' = processed
            /\ reconcile' = [reconcile EXCEPT !.XOR = Xor(@, Bits(EventIDFingerprint[e]))]
        BY Zenon, <2>3 DEF XOR, Step
      <3>2. e \in processed /\ e \in EventIDs
        BY Zenon, <2>a, <3>1 DEF Charging
      <3>3. /\ Behind({"Count"}) = {} /\ Behind({"Count"})' = {}
            /\ Behind({"Count", "XOR"}) = {e} /\ Behind({"Count", "XOR"})' = {}
            /\ Behind({"Count", "XOR", "Sum"})' = Behind({"Count", "XOR", "Sum"})
        BY Zenon, <1>1, <3>1, OnlyOneBehind, OnlyOneBehindNext DEF Locking
      <3>4. XorOf(processed) = Xor(XorOf(processed \ {e}), Bits(EventIDFingerprint[e]))
        <4>1. (processed \ {e}) \cup {e} = processed
          BY Zenon, <3>2
        <4>2. IsFiniteSet(processed \ {e}) /\ processed \ {e} \in SUBSET EventIDs
          BY Zenon, <1>1, FS_RemoveElement DEF Reconciled
        <4> QED
          BY Zenon, <3>2, <4>1, <4>2, XorOfAdd
      <3> QED
        BY Zenon, <1>1, <2>b, <3>1, <3>3, <3>4 DEF Reconciled
    <2>4. CASE Sum(t)
      <3>1. /\ pc[t] = "Sum" /\ pc' = [pc EXCEPT ![t] = "Add"] /\ dist' = dist
            /\ processed' = processed
            /\ reconcile' = [reconcile EXCEPT !.Sum = AddWord(@, EventIDFingerprint[e])]
        BY Zenon, <2>4 DEF Sum, Step
      <3>2. e \in processed /\ e \in EventIDs
        BY Zenon, <2>a, <3>1 DEF Charging
      <3>3. /\ Behind({"Count"}) = {} /\ Behind({"Count"})' = {}
            /\ Behind({"Count", "XOR"}) = {} /\ Behind({"Count", "XOR"})' = {}
            /\ Behind({"Count", "XOR", "Sum"}) = {e} /\ Behind({"Count", "XOR", "Sum"})' = {}
        BY ZenonT(40), <1>1, <3>1, OnlyOneBehind, OnlyOneBehindNext DEF Locking
      <3>4. SumOf(processed) = AddWord(SumOf(processed \ {e}), EventIDFingerprint[e])
        <4>1. (processed \ {e}) \cup {e} = processed
          BY Zenon, <3>2
        <4>2. IsFiniteSet(processed \ {e}) /\ processed \ {e} \in SUBSET EventIDs
          BY Zenon, <1>1, FS_RemoveElement DEF Reconciled
        <4> QED
          BY Zenon, <3>2, <4>1, <4>2, SumOfAdd
      <3> QED
        BY Zenon, <1>1, <2>b, <3>1, <3>3, <3>4 DEF Reconciled
    <2>5. CASE ~(Mark(t) \/ Count(t) \/ XOR(t) \/ Sum(t))
      <3>1. UNCHANGED <<processed, reconcile>>
        BY Zenon, <1>5, <2>5 DEF Run, Lock, Drain, Check, Add, Unlock, RLockGet, RLock, Get,
           RLockReconciliation, Copy, RUnlock, Reply, shared
      <3>2. /\ \A u \in Goroutines : u # t => pc'[u] = pc[u] /\ dist'[u] = dist[u]
            /\ pc[t] \notin {"Count", "XOR", "Sum"} /\ pc'[t] \notin {"Count", "XOR", "Sum"}
        BY ZenonT(40), <1>2, <1>5, <2>5 DEF Run, Lock, Drain, Check, Add, Unlock, RLockGet, RLock,
           Get, RLockReconciliation, Copy, RUnlock, Reply, Step
      <3> QED
        BY Zenon, <1>1, <3>1, <3>2, RecordUntouched
    <2> QED
      BY Zenon, <2>1, <2>2, <2>3, <2>4, <2>5
  <1> QED
    BY Zenon, <1>3, <1>4, <1>5 DEF Next

\* TotalOf is a function of the ledger.
LEMMA TotalIsCharged == \A o : TotalOf(o) = Charged(ledger, o)
  BY Zenon DEF TotalOf, Charged

\* Add charges the OBU of the event in the totals map and in the ledger.
LEMMA TotalledStep == StoreInv /\ [Next]_vars => Totalled'
  <1> SUFFICES ASSUME StoreInv, [Next]_vars PROVE Totalled'
    BY Zenon
  <1>1. IndInv /\ Reconciled /\ Totalled
    BY Zenon DEF StoreInv
  <1>2. CASE UNCHANGED <<data, ledger>>
    BY Zenon, <1>1, <1>2 DEF Totalled, TotalOf
  <1>3. ASSUME NEW t \in Goroutines, Add(t) PROVE Totalled'
    <2> DEFINE d == dist[t]
               e == d.EventID
               c == [OBUID |-> d.OBUID, Value |-> d.Value]
    <2>1. d \in Distances /\ ~Invalid(d) /\ e \notin DOMAIN ledger
      BY Zenon, <1>1, <1>3 DEF Add, Step, IndInv, Validated, Marked, Locking, Charging
    <2>2. c \in [OBUID : Nat, Value : Nat]
      BY <2>1, StoreAssumption DEF Invalid
    <2>3. /\ ledger' = [x \in DOMAIN ledger \cup {e} |-> IF x = e THEN c ELSE ledger[x]]
          /\ data' = [o \in DOMAIN data \cup {d.OBUID} |->
                         IF o = d.OBUID THEN Lookup(data, o) + d.Value ELSE data[o]]
      BY Zenon, <1>3 DEF Add
    <2>4. /\ IsFiniteSet(DOMAIN ledger)
          /\ ledger \in [DOMAIN ledger -> [OBUID : Nat, Value : Nat]]
      <3>1. DOMAIN ledger \in SUBSET processed /\ IsFiniteSet(processed)
        BY Zenon, <1>1 DEF IndInv, Marked, Reconciled
      <3> QED
        BY Zenon, <1>1, <3>1, FS_Subset DEF Totalled
    <2>5. ASSUME NEW o
          PROVE  Charged(ledger', o) = IF o = c.OBUID THEN Charged(ledger, o) + c.Value
                                                      ELSE Charged(ledger, o)
      <3> HIDE DEF c, e, d
      <3> DEFINE m == [x \in DOMAIN ledger \cup {e} |-> IF x = e THEN c ELSE ledger[x]]
      <3>1. Charged(m, o) = IF o = c.OBUID THEN Charged(ledger, o) + c.Value
                                           ELSE Charged(ledger, o)
        <4>1. e \notin DOMAIN ledger
          BY Zenon, <2>1
        <4> HIDE DEF m
        <4>2. m = [x \in DOMAIN ledger \cup {e} |-> IF x = e THEN c ELSE ledger[x]]
          BY Zenon DEF m
        <4> QED
          BY <2>2, <2>4, <4>1, <4>2, ChargeAdds
      <3> QED
        BY Zenon, <2>3, <3>1
    <2>6. /\ ledger' \in [DOMAIN ledger' -> [OBUID : Nat, Value : Nat]]
          /\ DOMAIN ledger' = DOMAIN ledger \cup {e}
          /\ ledger'[e] = c /\ \A x \in DOMAIN ledger : ledger'[x] = ledger[x]
      <3> HIDE DEF c, e
      <3> QED
        BY Zenon, <2>1, <2>2, <2>3, <2>4
    <2>7. DOMAIN data' = {ledger'[x].OBUID : x \in DOMAIN ledger'}
      <3>1. {ledger'[x].OBUID : x \in DOMAIN ledger'}
              = {ledger[x].OBUID : x \in DOMAIN ledger} \cup {c.OBUID}
        <4> HIDE DEF c, e
        <4> QED
          BY <2>6
      <3> QED
        BY Zenon, <1>1, <2>3, <3>1 DEF Totalled
    <2>8. ASSUME NEW o \in DOMAIN data' PROVE data'[o] = Charged(ledger', o)
      <3>1. o \in DOMAIN data => data[o] = Charged(ledger, o)
        BY Zenon, <1>1, TotalIsCharged DEF Totalled
      <3>2. o \notin DOMAIN data => Charged(ledger, o) = 0
        BY Zenon, <1>1, <2>4, ChargedType DEF Totalled
      <3>3. Lookup(data, o) = Charged(ledger, o)
        BY Zenon, <3>1, <3>2 DEF Lookup
      <3> QED
        BY Zenon, <2>3, <2>5, <3>1, <3>3
    <2>9. \A o : TotalOf(o)' = Charged(ledger', o)
      BY Zenon DEF TotalOf, Charged
    <2> QED
      BY ZenonT(40), <2>3, <2>6, <2>7, <2>8, <2>9 DEF Totalled
  <1>4. UNCHANGED <<data, ledger>> \/ \E t \in Goroutines : Add(t)
    BY ZenonT(40) DEF Next, Call, RejectDistance, AggregateDistance, CalculateInvoice, Reconciliation,
       Run, Lock, Drain, Check, Mark, Count, XOR, Sum, Unlock, RLockGet, RLock, Get,
       RLockReconciliation, Copy, RUnlock, Reply, vars, shared
  <1> QED
    BY Zenon, <1>2, <1>3, <1>4

\* Every call sets its result in the statement before its last and clears it there.
LEMMA ResultsStep == StoreInv /\ [Next]_vars => Results'
  <1> SUFFICES ASSUME StoreInv, [Next]_vars PROVE Results'
    BY Zenon
  <1>1. Results /\ pc \in [Goroutines -> Places]
    BY Zenon DEF StoreInv, IndInv, Types
  <1> USE DEF Results, Step, Return
  <1>2. CASE UNCHANGED vars
    BY Zenon, <1>1, <1>2 DEF vars
  <1>3. ASSUME NEW t \in Goroutines, Call(t) PROVE Results'
    BY Zenon, <1>1, <1>3 DEF Call, RejectDistance, AggregateDistance, CalculateInvoice, Reconciliation
  <1>4. ASSUME NEW t \in Goroutines, Run(t) PROVE Results'
    <2>1. CASE Lock(t) \/ Drain(t) \/ Mark(t) \/ Count(t) \/ XOR(t) \/ Sum(t) \/ Add(t)
      BY ZenonT(40), <1>1, <2>1 DEF Lock, Drain, Mark, Count, XOR, Sum, Add
    <2>2. CASE Check(t)
      BY Zenon, <1>1, <2>2 DEF Check
    <2>3. CASE RLockGet(t) \/ RLockReconciliation(t)
      BY Zenon, <1>1, <2>3 DEF RLockGet, RLockReconciliation, RLock
    <2>4. CASE Get(t) \/ Copy(t)
      BY Zenon, <1>1, <2>4 DEF Get, Copy
    <2>5. CASE Unlock(t) \/ RUnlock(t) \/ Reply(t)
      BY Zenon, <1>1, <2>5 DEF Unlock, RUnlock, Reply
    <2> QED
      BY Zenon, <1>4, <2>1, <2>2, <2>3, <2>4, <2>5 DEF Run
  <1> QED
    BY Zenon, <1>2, <1>3, <1>4 DEF Next

\* A new store is empty: no events, no charges, no totals.
LEMMA StoreInit == Init => StoreInv
  <1> SUFFICES ASSUME Init PROVE StoreInv
    BY Zenon
  <1>1. Behind({"Count"}) = {} /\ Behind({"Count", "XOR"}) = {}
        /\ Behind({"Count", "XOR", "Sum"}) = {}
    BY Zenon DEF Init, Behind
  <1>2. Reconciled
    BY Zenon, <1>1, FS_EmptySet, NothingReconciled DEF Init, Reconciled, NoEvents
  <1>3. Totalled /\ Results
    BY Zenon DEF Init, Totalled, Results
  <1> QED
    BY Zenon, <1>2, <1>3, InitInv DEF StoreInv

\* The strengthened invariant holds in every reachable state of the store.
THEOREM RecordInvariance == Spec => []StoreInv
  <1>1. StoreInv /\ [Next]_vars => StoreInv'
    <2>1. StoreInv /\ [Next]_vars => IndInv'
      BY Zenon, TypesStep, ValidatedStep, ExclusiveStep, MarkedStep DEF StoreInv, IndInv
    <2> QED
      BY Zenon, <2>1, ReconciledStep, TotalledStep, ResultsStep DEF StoreInv
  <1> QED
    BY <1>1, StoreInit, PTL DEF Spec

\* Every variable of the store keeps its type: events and totals are the ones of
\* validated distances, and the running record is made of words.
THEOREM StoreTypeCorrect == Spec => []TypeOK
  <1>1. StoreInv => TypeOK
    <2> SUFFICES ASSUME StoreInv PROVE TypeOK
      BY Zenon
    <2>1. IndInv /\ Reconciled /\ Totalled /\ Results
      BY Zenon DEF StoreInv
    <2>2. /\ pc \in [Goroutines -> Places] /\ writer \in Goroutines \cup {None}
          /\ dist \in [Goroutines -> Distances \cup {None}]
          /\ readers \subseteq Goroutines /\ DOMAIN ledger \subseteq processed
      BY Zenon, <2>1 DEF IndInv, Types, Marked
    <2>3. /\ IsFiniteSet(processed) /\ processed \subseteq EventIDs
          /\ IsFiniteSet(DOMAIN ledger)
      BY Zenon, <2>1, <2>2, FS_Subset DEF Reconciled
    <2>4. reconcile \in [Count : Nat, XOR : SUBSET BitPositions, Sum : Nat]
      <3>1. ASSUME NEW P
            PROVE  /\ IsFiniteSet(processed \ Behind(P))
                   /\ processed \ Behind(P) \in SUBSET EventIDs
        BY Zenon, <2>3, FS_Subset
      <3>2. Cardinality(processed \ Behind({"Count"})) \in Nat
        BY Zenon, <3>1, FS_CardinalityType
      <3>3. XorOf(processed \ Behind({"Count", "XOR"})) \subseteq BitPositions
        BY Zenon, <3>1, FingerprintType
      <3>4. SumOf(processed \ Behind({"Count", "XOR", "Sum"})) \in Nat
        <4>1. 2^HashBits \in Nat
          BY Zenon, PowerPositive, FingerprintAssumption
        <4> QED
          BY <3>1, <4>1, FingerprintType
      <3> QED
        BY Zenon, <2>1, <3>2, <3>3, <3>4 DEF Reconciled
    <2>5. data \in [DOMAIN data -> Nat] /\ DOMAIN data \subseteq Nat
      <3>1. \A o \in DOMAIN data : data[o] \in Nat
        BY <2>1, <2>3, TotalIsCharged, ChargedType DEF Totalled
      <3> QED
        BY Zenon, <2>1, <3>1 DEF Totalled
    <2> QED
      BY Zenon, <2>1, <2>2, <2>3, <2>4, <2>5 DEF TypeOK, Results, Totalled, Places, Reading, Locking
  <1> QED
    BY <1>1, RecordInvariance, PTL

\* Outside of Insert the record, the processed set and the totals map agree.
LEMMA Agreement == StoreInv => StoreAgreesWithCharges
  <1> SUFFICES ASSUME StoreInv, \A t \in Goroutines : ~Inside(t)
               PROVE  /\ processed = DOMAIN ledger
                      /\ reconcile = ReconciliationOf(processed)
                      /\ DOMAIN data = {ledger[e].OBUID : e \in DOMAIN ledger}
                      /\ \A o \in DOMAIN data : data[o] = TotalOf(o)
    BY Zenon DEF StoreAgreesWithCharges
  <1>1. IndInv /\ Reconciled /\ Totalled
    BY Zenon DEF StoreInv
  <1>2. processed = DOMAIN ledger
    BY Zenon, <1>1 DEF IndInv, Marked, Inside, Charging, Locking
  <1>3. /\ Behind({"Count"}) = {} /\ Behind({"Count", "XOR"}) = {}
        /\ Behind({"Count", "XOR", "Sum"}) = {}
    BY Zenon DEF Behind, Inside, Locking
  <1>4. reconcile = ReconciliationOf(processed)
    BY Zenon, <1>1, <1>3 DEF Reconciled, ReconciliationOf
  <1> QED
    BY Zenon, <1>1, <1>2, <1>4 DEF Totalled

\* Whenever no Insert is in progress the running record of store.go, the processed
\* set and the totals map describe the same set of charges, for any number of
\* goroutines, events and OBUs and any hash function.
THEOREM StoreConsistent == Spec => []StoreAgreesWithCharges
  BY Agreement, RecordInvariance, PTL

-----------------------------------------------------------------------------
\* The ledger and the store compute sums in the same way.
LEMMA SameSum == \A w, S : L!SumOver(w, S) = SumOver(w, S)
  BY Zenon DEF SumOver, L!SumOver, MapThenSumSet, L!MapThenSumSet, MapThenFoldSet, L!MapThenFoldSet

\* And they count in the same way.
LEMMA SameCardinality == \A S : L!Cardinality(S) = Cardinality(S)
  BY Zenon DEF Cardinality, L!Cardinality, IsFiniteSet, L!IsFiniteSet

\* A statement that neither charges nor sets a result is a stutter of the ledger; the
\* others are its calls.
LEMMA LedgerStep == StoreInv /\ [Next]_vars => [L!Next]_(L!vars)
  <1> SUFFICES ASSUME StoreInv, [Next]_vars PROVE [L!Next]_(L!vars)
    BY Zenon
  <1>1. IndInv /\ Reconciled /\ Totalled /\ Results
    BY Zenon DEF StoreInv
  <1>2. out = [t \in Goroutines |-> out[t]]
    BY Zenon, <1>1 DEF Results
  <1>3. CASE UNCHANGED vars
    BY Zenon, <1>3 DEF vars, shared, L!vars
  <1>4. ASSUME NEW t \in Goroutines, Call(t) PROVE [L!Next]_(L!vars)
    <2>1. ASSUME NEW d \in Distances, RejectDistance(t, d) PROVE L!Next
      <3>1. out[t] = None /\ ~L!Acceptable(d)
        BY <1>1, <2>1, StoreAssumption DEF RejectDistance, Step, Invalid, Results, L!Acceptable
      <3>2. L!AggregateDistance(t, d)
        BY Zenon, <2>1, <3>1 DEF RejectDistance, Return, shared, L!AggregateDistance, L!Return
      <3> QED
        BY Zenon, <3>2 DEF L!Next
    <2>2. CASE ~\E d \in Distances : RejectDistance(t, d)
      BY Zenon, <1>4, <2>2 DEF Call, AggregateDistance, CalculateInvoice, Reconciliation, shared, L!vars
    <2> QED
      BY Zenon, <2>1, <2>2
  <1>5. ASSUME NEW t \in Goroutines, Run(t) PROVE [L!Next]_(L!vars)
    <2>a. ASSUME pc[t] \in Reading \cup {"Check"}
          PROVE  StoreAgreesWithCharges /\ processed = DOMAIN ledger
      <3>1. \A u \in Goroutines : ~Inside(u) \/ (u = t /\ pc[u] = "Check")
        BY Zenon, <1>1, <2>a DEF IndInv, Exclusive, Inside, Reading, Locking
      <3>2. processed = DOMAIN ledger
        BY Zenon, <1>1, <3>1 DEF IndInv, Marked, Inside, Charging, Locking
      <3> QED
        BY Zenon, <3>2, Agreement
    <2>1. CASE Check(t)
      <3> DEFINE d == dist[t]
      <3>1. CASE UNCHANGED out
        BY Zenon, <2>1, <3>1 DEF Check, shared, L!vars
      <3>2. CASE ~UNCHANGED out
        <4>1. /\ pc[t] = "Check" /\ d.EventID \in processed /\ out' = [out EXCEPT ![t] = <<"applied", FALSE>>]
              /\ ledger' = ledger
          BY Zenon, <2>1, <3>2 DEF Check, Step, Return, shared
        <4>2. d \in Distances /\ ~Invalid(d) /\ out[t] = None
          BY Zenon, <1>1, <4>1 DEF IndInv, Validated, Results, Locking
        <4>3. L!Acceptable(d) /\ d.EventID \in DOMAIN ledger
          BY <2>a, <4>1, <4>2, StoreAssumption DEF L!Acceptable, Invalid
        <4>4. L!AggregateDistance(t, d)
          BY Zenon, <4>1, <4>2, <4>3 DEF L!AggregateDistance, L!Return
        <4> QED
          BY Zenon, <4>2, <4>4 DEF L!Next
      <3> QED
        BY Zenon, <3>1, <3>2
    <2>2. CASE Add(t)
      <3> DEFINE d == dist[t]
      <3>1. pc[t] = "Add" /\ out' = [out EXCEPT ![t] = <<"applied", TRUE>>]
        BY Zenon, <2>2 DEF Add, Step, Return
      <3>2. /\ d \in Distances /\ ~Invalid(d) /\ out[t] = None
            /\ d.EventID \notin DOMAIN ledger
        BY Zenon, <1>1, <3>1 DEF IndInv, Validated, Marked, Charging, Results, Locking
      <3>3. L!Acceptable(d)
        BY <3>2, StoreAssumption DEF L!Acceptable, Invalid
      <3>4. L!Charge(d.EventID, d)
        BY Zenon, <2>2 DEF Add, L!Charge
      <3>5. L!AggregateDistance(t, d)
        BY Zenon, <3>1, <3>2, <3>3, <3>4 DEF L!AggregateDistance, L!Return
      <3> QED
        BY Zenon, <3>2, <3>5 DEF L!Next
    <2>3. CASE Get(t)
      <3> DEFINE o == obu[t]
      <3>1. /\ pc[t] = "Get" /\ ledger' = ledger
            /\ out' = [out EXCEPT ![t] = IF o \in DOMAIN data
                                         THEN <<"invoice", o, data[o], 315 * data[o]>>
                                         ELSE <<"not found">>]
        BY Zenon, <2>3 DEF Get, Step, Return, shared
      <3>2. out[t] = None /\ o \in OBUIDs
        BY Zenon, <1>1, <3>1 DEF Results
      <3>3. L!ChargesOf(o) = {} <=> o \notin DOMAIN data
        BY Zenon, <1>1 DEF Totalled, L!ChargesOf
      <3>4. o \in DOMAIN data => data[o] = L!TotalOf(o)
        <4>1. TotalOf(o) = L!TotalOf(o)
          BY Zenon, SameSum DEF TotalOf, L!TotalOf, L!ChargesOf
        <4> QED
          BY Zenon, <1>1, <4>1 DEF Totalled
      <3>5. L!CalculateInvoice(t, o)
        BY ZenonT(40), <3>1, <3>2, <3>3, <3>4 DEF L!CalculateInvoice, L!Return
      <3> QED
        BY Zenon, <3>2, <3>5 DEF L!Next
    <2>4. CASE Copy(t)
      <3>1. /\ pc[t] = "Copy" /\ ledger' = ledger
            /\ out' = [out EXCEPT ![t] = <<"reconciliation", reconcile>>]
        BY Zenon, <2>4 DEF Copy, Step, Return, shared
      <3>2. out[t] = None
        BY Zenon, <1>1, <3>1 DEF Results
      <3>3. reconcile = ReconciliationOf(DOMAIN ledger)
        <4>1. \A u \in Goroutines : ~Inside(u)
          BY Zenon, <1>1, <3>1 DEF IndInv, Exclusive, Reading
        <4> QED
          BY Zenon, <4>1, <2>a, <3>1 DEF StoreAgreesWithCharges, Reading
      <3>4. ReconciliationOf(DOMAIN ledger) = L!ReconciliationOf(DOMAIN ledger)
        <4>1. XorOf(DOMAIN ledger) = L!XorOf(DOMAIN ledger)
          BY Zenon, SameCardinality DEF XorOf, L!XorOf, Bits, L!Bits, BitPositions, L!BitPositions
        <4>2. SumOf(DOMAIN ledger) = L!SumOf(DOMAIN ledger)
          BY Zenon, SameSum DEF SumOf, L!SumOf
        <4> QED
          BY Zenon, <4>1, <4>2, SameCardinality DEF ReconciliationOf, L!ReconciliationOf
      <3>5. L!Reconciliation(t)
        BY Zenon, <3>1, <3>2, <3>3, <3>4 DEF L!Reconciliation, L!Return
      <3> QED
        BY Zenon, <3>5 DEF L!Next
    <2>5. CASE Unlock(t) \/ RUnlock(t) \/ Reply(t)
      <3>1. L!Reply(t)
        BY Zenon, <2>5 DEF Unlock, RUnlock, Reply, Return, shared, L!Reply
      <3> QED
        BY Zenon, <3>1 DEF L!Next
    <2>6. CASE \/ Lock(t) \/ Drain(t) \/ Mark(t) \/ Count(t) \/ XOR(t) \/ Sum(t)
               \/ RLockGet(t) \/ RLockReconciliation(t)
      BY Zenon, <2>6 DEF Lock, Drain, Mark, Count, XOR, Sum, RLockGet, RLockReconciliation, RLock,
         shared, L!vars
    <2> QED
      BY Zenon, <1>5, <2>1, <2>2, <2>3, <2>4, <2>5, <2>6 DEF Run
  <1> QED
    BY Zenon, <1>3, <1>4, <1>5 DEF Next

\* The locked, statement-by-statement store implements the ledger: every call takes
\* effect at one instant, and every invoice and every record read is the one of the
\* charges made so far.
THEOREM StoreRefinesLedger == Spec => ImplementsLedger
  <1>1. Init => L!Init
    BY Zenon DEF Init, L!Init
  <1> QED
    BY <1>1, LedgerStep, RecordInvariance, PTL DEF Spec, ImplementsLedger, L!Spec
=============================================================================
