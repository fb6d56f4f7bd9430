---------------------------- MODULE MemoryStore ----------------------------
(***************************************************************************)
(* aggregator/store.go behind aggregator/service.go: the maps and the      *)
(* running reconciliation record that request goroutines share under a     *)
(* sync.RWMutex.  Every statement that writes shared state is a step of    *)
(* its own, so that what the lock protects is visible.                     *)
(*                                                                         *)
(* float64 totals are integers: rounding is left out.                      *)
(***************************************************************************)
EXTENDS Fingerprint

CONSTANTS
    Goroutines,   \* concurrent HTTP and gRPC handlers
    Distances,    \* the types.Distance values that callers send
    OBUIDs,       \* the OBU IDs invoices are asked for
    NoEventID,    \* the empty event ID
    Infinite,     \* a Value this large stands for NaN or +Inf
    None

ASSUME StoreAssumption ==
    /\ NoEventID \notin EventIDs
    /\ Infinite \in Nat
    /\ None \notin Goroutines
    /\ Distances \subseteq
         [EventID : EventIDs \cup {NoEventID}, ProducedAtUnixNano : Int,
          OBUID : Int, Value : Int]

VARIABLES
    data,        \* OBU ID -> total distance (a Go map: absent keys matter)
    processed,   \* the event IDs already applied
    reconcile,   \* running EventReconciliation
    writer,      \* RWMutex: the goroutine that holds or awaits the write lock
    readers,     \* RWMutex: the goroutines that hold the read lock
    pc,          \* pc[t]: the statement goroutine t executes next
    dist,        \* dist[t]: the argument of its AggregateDistance call
    obu,         \* obu[t]: the argument of its CalculateInvoice call
    out,         \* out[t]: the result its call is about to return
    ledger       \* history: event ID -> the charge it made

shared == <<data, processed, reconcile, ledger>>
lock == <<writer, readers>>
vars == <<shared, lock, pc, dist, obu, out>>

Init ==
    /\ data = [o \in {} |-> 0]
    /\ processed = {}
    /\ reconcile = NoEvents
    /\ writer = None
    /\ readers = {}
    /\ pc = [t \in Goroutines |-> "idle"]
    /\ dist = [t \in Goroutines |-> None]
    /\ obu = [t \in Goroutines |-> None]
    /\ out = [t \in Goroutines |-> None]
    /\ ledger = [e \in {} |-> None]

Step(t, from, to) ==
    /\ pc[t] = from
    /\ pc' = [pc EXCEPT ![t] = to]

Return(t, result) == out' = [out EXCEPT ![t] = result]

-----------------------------------------------------------------------------
\* InvoiceAggregator.AggregateDistance: validation, then Insert.

\* Mutant: negative distances pass.
InvalidButNegative(d) ==
    \/ d.EventID = NoEventID
    \/ d.ProducedAtUnixNano <= 0
    \/ d.OBUID <= 0
    \/ d.Value >= Infinite

Invalid(d) ==
    \/ d.EventID = NoEventID
    \/ d.ProducedAtUnixNano <= 0
    \/ d.OBUID <= 0
    \/ d.Value < 0
    \/ d.Value >= Infinite

RejectDistance(t, d) ==
    /\ Step(t, "idle", "Reply")
    /\ Invalid(d)
    /\ Return(t, <<"invalid">>)
    /\ UNCHANGED <<shared, lock, dist, obu>>

Reply(t) ==
    /\ Step(t, "Reply", "idle")
    /\ Return(t, None)
    /\ UNCHANGED <<shared, lock, dist, obu>>

AggregateDistance(t, d) ==
    /\ Step(t, "idle", "Lock")
    /\ ~Invalid(d)
    /\ dist' = [dist EXCEPT ![t] = d]
    /\ UNCHANGED <<shared, lock, obu, out>>

-----------------------------------------------------------------------------
\* sync.RWMutex: a writer first shuts out new readers and other writers, then
\* waits for the readers inside.

Lock(t) ==
    /\ Step(t, "Lock", "Drain")
    /\ writer = None
    /\ writer' = t
    /\ UNCHANGED <<shared, readers, dist, obu, out>>

Drain(t) ==
    /\ Step(t, "Drain", "Check")
    /\ readers = {}
    /\ UNCHANGED <<shared, lock, dist, obu, out>>

Unlock(t) ==
    /\ Step(t, "Unlock", "idle")
    /\ writer' = None
    /\ dist' = [dist EXCEPT ![t] = None]
    /\ Return(t, None)
    /\ UNCHANGED <<shared, readers, obu>>

\* Mutant: the reader does not wait for the writer.
RLockBesideWriter(t, from, to) ==
    /\ Step(t, from, to)
    /\ readers' = readers \cup {t}
    /\ UNCHANGED <<shared, writer, dist, obu, out>>

RLock(t, from, to) ==
    /\ Step(t, from, to)
    /\ writer = None
    /\ readers' = readers \cup {t}
    /\ UNCHANGED <<shared, writer, dist, obu, out>>

RUnlock(t) ==
    /\ Step(t, "RUnlock", "idle")
    /\ readers' = readers \ {t}
    /\ obu' = [obu EXCEPT ![t] = None]
    /\ Return(t, None)
    /\ UNCHANGED <<shared, writer, dist>>

-----------------------------------------------------------------------------
\* MemoryStore.Insert, between Lock and Unlock.

\* Mutants: a duplicate is applied again, or waited out under the lock.
CheckWithoutDuplicates(t) ==
    /\ Step(t, "Check", "Mark")
    /\ UNCHANGED <<shared, lock, dist, obu, out>>

CheckWaitsForDuplicate(t) ==
    /\ Step(t, "Check", IF dist[t].EventID \in processed THEN "Drain" ELSE "Mark")
    /\ UNCHANGED <<shared, lock, dist, obu, out>>

\* The branch for an empty event ID is unreachable behind AggregateDistance.
Check(t) ==
    \/ /\ Step(t, "Check", "Unlock")
       /\ dist[t].EventID \in processed
       /\ Return(t, <<"applied", FALSE>>)
       /\ UNCHANGED <<shared, lock, dist, obu>>
    \/ /\ Step(t, "Check", IF dist[t].EventID = NoEventID THEN "Add" ELSE "Mark")
       /\ dist[t].EventID \notin processed
       /\ UNCHANGED <<shared, lock, dist, obu, out>>

Mark(t) ==
    /\ Step(t, "Mark", "Count")
    /\ processed' = processed \cup {dist[t].EventID}
    /\ UNCHANGED <<data, reconcile, ledger, lock, dist, obu, out>>

Count(t) ==
    /\ Step(t, "Count", "XOR")
    /\ reconcile' = [reconcile EXCEPT !.Count = @ + 1]
    /\ UNCHANGED <<data, processed, ledger, lock, dist, obu, out>>

\* Mutant: |= for ^=.
OR(t) ==
    /\ Step(t, "XOR", "Sum")
    /\ reconcile' = [reconcile EXCEPT
                        !.XOR = @ \cup Bits(EventIDFingerprint[dist[t].EventID])]
    /\ UNCHANGED <<data, processed, ledger, lock, dist, obu, out>>

XOR(t) ==
    /\ Step(t, "XOR", "Sum")
    /\ reconcile' = [reconcile EXCEPT
                        !.XOR = Xor(@, Bits(EventIDFingerprint[dist[t].EventID]))]
    /\ UNCHANGED <<data, processed, ledger, lock, dist, obu, out>>

Sum(t) ==
    /\ Step(t, "Sum", "Add")
    /\ reconcile' = [reconcile EXCEPT
                        !.Sum = AddWord(@, EventIDFingerprint[dist[t].EventID])]
    /\ UNCHANGED <<data, processed, ledger, lock, dist, obu, out>>

Lookup(m, k) == IF k \in DOMAIN m THEN m[k] ELSE 0

Add(t) ==
    LET d == dist[t] IN
    /\ Step(t, "Add", "Unlock")
    /\ data' = [o \in DOMAIN data \cup {d.OBUID} |->
                   IF o = d.OBUID THEN Lookup(data, o) + d.Value ELSE data[o]]
    /\ ledger' = [e \in DOMAIN ledger \cup {d.EventID} |->
                   IF e = d.EventID THEN [OBUID |-> d.OBUID, Value |-> d.Value]
                                    ELSE ledger[e]]
    /\ Return(t, <<"applied", TRUE>>)
    /\ UNCHANGED <<processed, reconcile, lock, dist, obu>>

-----------------------------------------------------------------------------
\* InvoiceAggregator.CalculateInvoice and Reconciliation: reads under RLock.

CalculateInvoice(t, o) ==
    /\ Step(t, "idle", "RLockGet")
    /\ obu' = [obu EXCEPT ![t] = o]
    /\ UNCHANGED <<shared, lock, dist, out>>

RLockGet(t) == RLock(t, "RLockGet", "Get")

\* basePrice is 3.15; amounts are in hundredths.
Get(t) ==
    LET o == obu[t] IN
    /\ Step(t, "Get", "RUnlock")
    /\ Return(t, IF o \in DOMAIN data
                 THEN <<"invoice", o, data[o], 315 * data[o]>>
                 ELSE <<"not found">>)
    /\ UNCHANGED <<shared, lock, dist, obu>>

Reconciliation(t) ==
    /\ Step(t, "idle", "RLockReconciliation")
    /\ UNCHANGED <<shared, lock, dist, obu, out>>

RLockReconciliation(t) == RLock(t, "RLockReconciliation", "Copy")

Copy(t) ==
    /\ Step(t, "Copy", "RUnlock")
    /\ Return(t, <<"reconciliation", reconcile>>)
    /\ UNCHANGED <<shared, lock, dist, obu>>

-----------------------------------------------------------------------------
Call(t) ==
    \/ \E d \in Distances : RejectDistance(t, d) \/ AggregateDistance(t, d)
    \/ \E o \in OBUIDs : CalculateInvoice(t, o)
    \/ Reconciliation(t)

\* What the runtime owes a goroutine inside a call.
Run(t) ==
    \/ Lock(t) \/ Drain(t)
    \/ Check(t) \/ Mark(t) \/ Count(t) \/ XOR(t) \/ Sum(t) \/ Add(t)
    \/ Unlock(t)
    \/ RLockGet(t) \/ Get(t)
    \/ RLockReconciliation(t) \/ Copy(t)
    \/ RUnlock(t) \/ Reply(t)

Next == \E t \in Goroutines : Call(t) \/ Run(t)

Spec == Init /\ [][Next]_vars

\* The Go scheduler runs every runnable goroutine, and sync.RWMutex lets no
\* waiting writer or reader starve.
FairSpec == Spec /\ \A t \in Goroutines : SF_vars(Run(t))

-----------------------------------------------------------------------------
\* Properties

Locking == {"Drain", "Check", "Mark", "Count", "XOR", "Sum", "Add", "Unlock"}

TypeOK ==
    /\ data \in [DOMAIN data -> Nat] /\ DOMAIN data \subseteq Nat
    /\ processed \subseteq EventIDs
    /\ reconcile \in [Count : Nat, XOR : SUBSET BitPositions, Sum : Nat]
    /\ writer \in Goroutines \cup {None}
    /\ readers \subseteq Goroutines
    /\ pc \in [Goroutines -> Locking \cup {"idle", "Lock", "RLockGet", "Get",
                              "RLockReconciliation", "Copy", "RUnlock", "Reply"}]
    /\ dist \in [Goroutines -> Distances \cup {None}]
    /\ obu \in [Goroutines -> OBUIDs \cup {None}]
    /\ DOMAIN ledger \subseteq EventIDs
    /\ ledger \in [DOMAIN ledger -> [OBUID : Nat, Value : Nat]]

Inside(t) == pc[t] \in Locking \ {"Drain"}

TotalOf(o) ==
    SumOver([e \in DOMAIN ledger |-> ledger[e].Value],
            {e \in DOMAIN ledger : ledger[e].OBUID = o})

\* Whenever no Insert is between its first and its last write, the running
\* record of store.go (Count++, XOR ^=, Sum +=), the processed set and the
\* totals map all describe the same set of charges: the record equals the one
\* computed from the set at once, and every total is the sum of its charges.
StoreAgreesWithCharges ==
    (\A t \in Goroutines : ~Inside(t)) =>
        /\ processed = DOMAIN ledger
        /\ reconcile = ReconciliationOf(processed)
        /\ DOMAIN data = {ledger[e].OBUID : e \in DOMAIN ledger}
        /\ \A o \in DOMAIN data : data[o] = TotalOf(o)

\* Insert charges an event ID at most once and never changes or drops a charge
\* it made, however the handlers of a replayed event interleave.
ChargesAreFinal ==
    [][\A t \in Goroutines :
         Add(t) => \A e \in DOMAIN ledger :
                      /\ e # dist[t].EventID
                      /\ ledger'[e] = ledger[e]]_vars

\* Under the scheduler and the RWMutex, every AggregateDistance,
\* CalculateInvoice and Reconciliation call returns: Lock and RLock are always
\* released, on the duplicate path too.
EveryCallReturns ==
    \A t \in Goroutines : pc[t] # "idle" ~> pc[t] = "idle"

\* The locked, statement-by-statement store implements the ledger: every call
\* takes effect at one instant and every invoice or reconciliation record read
\* is the one of some ledger that existed during the call.
L == INSTANCE Ledger WITH ledger <- ledger, out <- out

ImplementsLedger == L!Spec
=============================================================================
