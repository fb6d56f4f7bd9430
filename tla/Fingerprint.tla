---------------------------- MODULE Fingerprint ----------------------------
(***************************************************************************)
(* The order-independent fingerprint of a set of event IDs: the record     *)
(* types.EventReconciliation that the aggregator keeps for the events it   *)
(* applied and the OBU simulator for the events it wrote.                  *)
(*                                                                         *)
(* FNV-1a is the constant function EventIDFingerprint, with 64-bit words   *)
(* replaced by words of HashBits bits.  A word that is only ever XORed is  *)
(* the set of its one-bits, so that ^= is symmetric difference.            *)
(***************************************************************************)
EXTENDS Integers, FiniteSets, FiniteSetsExt

CONSTANTS
    EventIDs,            \* the non-empty event IDs
    HashBits,            \* width of a fingerprint (64 in the code)
    EventIDFingerprint   \* EventIDFingerprint[e] is the hash of e

ASSUME FingerprintAssumption ==
    /\ HashBits \in Nat
    /\ EventIDFingerprint \in [EventIDs -> Nat]

BitPositions == 0 .. (HashBits - 1)

Bits(n) == {b \in BitPositions : (n \div 2^b) % 2 = 1}

Xor(x, y) == (x \ y) \cup (y \ x)

AddWord(x, y) == (x + y) % 2^HashBits

NoEvents == [Count |-> 0, XOR |-> {}, Sum |-> 0]

(***************************************************************************)
(* The reference: what the three numbers should be for the set S, computed *)
(* from S at once instead of event by event.                               *)
(***************************************************************************)
XorOf(S) ==
    {b \in BitPositions :
        Cardinality({e \in S : b \in Bits(EventIDFingerprint[e])}) % 2 = 1}

SumOver(weight, S) == MapThenSumSet(LAMBDA x : weight[x], S)

SumOf(S) == SumOver(EventIDFingerprint, S) % 2^HashBits

ReconciliationOf(S) ==
    [Count |-> Cardinality(S), XOR |-> XorOf(S), Sum |-> SumOf(S)]
=============================================================================
