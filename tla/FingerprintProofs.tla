------------------------- MODULE FingerprintProofs -------------------------
(***************************************************************************)
(* Facts about the sums and fingerprints of Fingerprint, for sets of any   *)
(* finite size.  A sum is a recursive function over the subsets of a set:  *)
(* that the recursion has a solution, and that it does not depend on the   *)
(* order in which elements are picked, is proved by induction, with the    *)
(* induction hypothesis as a set so that no operator is quantified.        *)
(***************************************************************************)
EXTENDS Fingerprint, FiniteSetTheorems, TLAPS

\* The element that MapThenSumSet takes out of a set first.
Pick(s) == CHOOSE x \in s : TRUE

\* g is a solution of the recursion that defines the sum of w over S.
Solves(g, w, S) ==
    g = [s \in SUBSET S |-> IF s = {} THEN 0 ELSE w[Pick(s)] + g[s \ {Pick(s)}]]

\* Induction over the subsets of a finite set: P is the set of the subsets for
\* which the claim holds.
LEMMA SetInduction ==
    ASSUME NEW S, IsFiniteSet(S), NEW P,
           \A T \in SUBSET S : (\A U \in SUBSET T : U # T => U \in P) => T \in P
    PROVE  \A T \in SUBSET S : T \in P
<1> DEFINE Bad == {T \in SUBSET S : T \notin P}
<1>1. SUFFICES ASSUME Bad # {} PROVE FALSE
    BY Zenon
<1>2. Bad \subseteq FiniteSubsetsOf(S)
    BY FS_FiniteSubsetsOfFinite
<1>3. IsWellFoundedOn(StrictSubsetOrdering(S), FiniteSubsetsOf(S))
    BY Zenon, FS_StrictSubsetOrderingWellFounded
<1>4. PICK T \in Bad : \A U \in Bad : <<U, T>> \notin StrictSubsetOrdering(S)
    <2> HIDE DEF Bad
    <2> QED BY <1>1, <1>2, <1>3, WFMin
<1>5. \A U \in SUBSET T : U # T => U \in P
    BY Zenon, <1>4 DEF StrictSubsetOrdering
<1> QED BY Zenon, <1>5

\* SumOver is a recursive function: by definition some solution, if there is one.
LEMMA SumIsChosen ==
    ASSUME NEW w, NEW S
    PROVE  SumOver(w, S) = (CHOOSE f : Solves(f, w, S))[S]
BY Zenon DEF SumOver, MapThenSumSet, MapThenFoldSet, Solves, Pick

\* Pick takes an element of the set.
LEMMA PickInSet == \A s : s # {} => Pick(s) \in s
BY Zenon DEF Pick

\* Solutions over two sets agree where both are defined.
LEMMA SolutionsAgree ==
    ASSUME NEW w, NEW S, NEW T, IsFiniteSet(S), NEW g, NEW h,
           Solves(g, w, S), Solves(h, w, T), S \subseteq T
    PROVE  g[S] = h[S]
<1> DEFINE P == {U \in SUBSET S : g[U] = h[U]}
<1>1. ASSUME NEW U \in SUBSET S, \A V \in SUBSET U : V # U => V \in P
      PROVE  U \in P
    <2>1. CASE U = {}
        BY Zenon, <2>1 DEF Solves
    <2>2. CASE U # {}
        <3>1. Pick(U) \in U
            BY Zenon, <2>2, PickInSet
        <3> DEFINE V == U \ {Pick(U)}
        <3>2. V \in SUBSET U /\ V # U
            BY Zenon, <3>1
        <3>3. g[V] = h[V]
            BY Zenon, <1>1, <3>2
        <3>4. g[U] = w[Pick(U)] + g[V] /\ h[U] = w[Pick(U)] + h[V]
            BY Zenon, <2>2 DEF Solves
        <3> QED BY Zenon, <3>3, <3>4
    <2> QED BY Zenon, <2>1, <2>2
<1>2. \A U \in SUBSET S : U \in P
    <2> HIDE DEF P
    <2> QED BY Zenon, <1>1, SetInduction
<1> QED BY Zenon, <1>2

\* The recursion has a solution over every finite set.
LEMMA SolutionExists ==
    ASSUME NEW w, NEW S, IsFiniteSet(S)
    PROVE  \E f : Solves(f, w, S)
<1> DEFINE P == {T \in SUBSET S : \E f : Solves(f, w, T)}
<1>0. \A T \in P : Solves(CHOOSE f : Solves(f, w, T), w, T)
    BY Zenon
<1>1. ASSUME NEW T \in SUBSET S, \A U \in SUBSET T : U # T => U \in P
      PROVE  T \in P
    <2> DEFINE C(U) == (CHOOSE f : Solves(f, w, U))[U]
               h == [s \in SUBSET T |-> IF s = {} THEN 0
                                        ELSE w[Pick(s)] + C(s \ {Pick(s)})]
    <2>1. ASSUME NEW u \in SUBSET T, u # T, u # {}
          PROVE  C(u) = w[Pick(u)] + C(u \ {Pick(u)})
        <3> DEFINE v == u \ {Pick(u)}
                   g == CHOOSE f : Solves(f, w, u)
                   k == CHOOSE f : Solves(f, w, v)
        <3>1. Pick(u) \in u /\ v \subseteq u /\ IsFiniteSet(v)
            BY Zenon, <2>1, PickInSet, FS_Subset
        <3>2. Solves(g, w, u) /\ Solves(k, w, v)
            BY Zenon, <1>0, <1>1, <2>1, <3>1
        <3>3. g[u] = w[Pick(u)] + g[v]
            <4> HIDE DEF g, k
            <4> QED BY Zenon, <2>1, <3>2 DEF Solves
        <3>4. k[v] = g[v]
            <4> HIDE DEF g, k, v
            <4> QED BY <3>1, <3>2, SolutionsAgree
        <3> QED BY Zenon, <3>3, <3>4
    <2>2. ASSUME NEW u \in SUBSET T, u # T
          PROVE  C(u) = h[u]
        <3>1. CASE u = {}
            <4> DEFINE g == CHOOSE f : Solves(f, w, {})
            <4>1. Solves(g, w, {})
                BY Zenon, <1>0, <1>1, <2>2, <3>1
            <4>2. g[{}] = 0
                <5> HIDE DEF g
                <5> QED BY Zenon, <4>1 DEF Solves
            <4> QED BY <3>1, <4>2
        <3>2. CASE u # {}
            <4> HIDE DEF C
            <4> QED BY Zenon, <2>1, <2>2, <3>2
        <3> QED BY Zenon, <3>1, <3>2
    <2>3. Solves(h, w, T)
        <3>1. \A s \in SUBSET T : s # {} =>
                 C(s \ {Pick(s)}) = h[s \ {Pick(s)}]
            <4> HIDE DEF C, h
            <4> QED BY Zenon, <2>2, PickInSet
        <3> HIDE DEF C
        <3> QED BY Zenon, <3>1 DEF Solves
    <2> QED BY Zenon, <2>3
<1>2. \A T \in SUBSET S : T \in P
    <2> HIDE DEF P
    <2> QED BY Zenon, <1>1, SetInduction
<1> QED BY Zenon, <1>2

\* The sum over no elements.
LEMMA SumEmpty == \A w : SumOver(w, {}) = 0
<1> SUFFICES ASSUME NEW w PROVE SumOver(w, {}) = 0
    BY Zenon
<1> DEFINE g == CHOOSE f : Solves(f, w, {})
<1>1. Solves(g, w, {})
    BY Zenon, SolutionExists, FS_EmptySet
<1>2. g[{}] = 0
    <2> HIDE DEF g
    <2> QED BY Zenon, <1>1 DEF Solves
<1> QED BY Zenon, <1>2, SumIsChosen

\* The sum satisfies its recursion.
LEMMA SumPick ==
    ASSUME NEW w, NEW S, IsFiniteSet(S), S # {}
    PROVE  SumOver(w, S) = w[Pick(S)] + SumOver(w, S \ {Pick(S)})
<1> DEFINE V == S \ {Pick(S)}
           g == CHOOSE f : Solves(f, w, S)
           k == CHOOSE f : Solves(f, w, V)
<1>1. V \subseteq S /\ IsFiniteSet(V)
    BY Zenon, FS_Subset
<1>2. Solves(g, w, S) /\ Solves(k, w, V)
    BY Zenon, <1>1, SolutionExists
<1>3. g[S] = w[Pick(S)] + g[V]
    <2> HIDE DEF g, k
    <2> QED BY Zenon, <1>2 DEF Solves
<1>4. k[V] = g[V]
    <2> HIDE DEF g, k, V
    <2> QED BY <1>1, <1>2, SolutionsAgree
<1> QED BY Zenon, <1>3, <1>4, SumIsChosen

\* A sum of naturals is a natural.
LEMMA SumType ==
    ASSUME NEW w, NEW S, IsFiniteSet(S), \A x \in S : w[x] \in Nat
    PROVE  SumOver(w, S) \in Nat
<1> DEFINE P == {T \in SUBSET S : SumOver(w, T) \in Nat}
<1>1. ASSUME NEW T \in SUBSET S, \A U \in SUBSET T : U # T => U \in P
      PROVE  T \in P
    <2>1. CASE T = {}
        BY <2>1, SumEmpty
    <2>2. CASE T # {}
        <3>1. Pick(T) \in T /\ IsFiniteSet(T)
            BY Zenon, <2>2, PickInSet, FS_Subset
        <3>2. SumOver(w, T) = w[Pick(T)] + SumOver(w, T \ {Pick(T)})
            BY Zenon, <2>2, <3>1, SumPick
        <3>3. SumOver(w, T \ {Pick(T)}) \in Nat
            BY Zenon, <1>1, <3>1
        <3>4. w[Pick(T)] \in Nat
            BY Zenon, <3>1
        <3> QED BY <3>2, <3>3, <3>4
    <2> QED BY Zenon, <2>1, <2>2
<1>2. \A T \in SUBSET S : T \in P
    <2> HIDE DEF P
    <2> QED BY Zenon, <1>1, SetInduction
<1> QED BY Zenon, <1>2

\* Any element can be taken out first: the order of a sum does not matter.
LEMMA SumRemove ==
    ASSUME NEW w, NEW S, IsFiniteSet(S), \A x \in S : w[x] \in Nat, NEW x \in S
    PROVE  SumOver(w, S) = w[x] + SumOver(w, S \ {x})
<1> DEFINE P == {T \in SUBSET S :
                    \A y \in T : SumOver(w, T) = w[y] + SumOver(w, T \ {y})}
<1>1. ASSUME NEW T \in SUBSET S, \A U \in SUBSET T : U # T => U \in P
      PROVE  T \in P
    <2>1. SUFFICES ASSUME NEW y \in T
                   PROVE  SumOver(w, T) = w[y] + SumOver(w, T \ {y})
        BY Zenon
    <2> DEFINE p == Pick(T)
               A == T \ {p}
               B == T \ {y}
               C == T \ {p, y}
    <2>2. p \in T /\ IsFiniteSet(T)
        BY Zenon, <2>1, PickInSet, FS_Subset
    <2>3. SumOver(w, T) = w[p] + SumOver(w, A)
        BY Zenon, <2>1, <2>2, SumPick
    <2>4. CASE p = y
        BY Zenon, <2>3, <2>4
    <2>5. CASE p # y
        <3>1. A \in P /\ y \in A /\ A \ {y} = C
            BY Zenon, <1>1, <2>2, <2>5
        <3>2. B \in P /\ p \in B /\ B \ {p} = C
            BY Zenon, <1>1, <2>2, <2>5
        <3>3. SumOver(w, A) = w[y] + SumOver(w, C)
            BY Zenon, <3>1
        <3>4. SumOver(w, B) = w[p] + SumOver(w, C)
            BY Zenon, <3>2
        <3>5. w[p] \in Nat /\ w[y] \in Nat
            BY Zenon, <2>2
        <3>6. SumOver(w, C) \in Nat
            BY Zenon, FS_Subset, SumType
        <3>7. SumOver(w, T) = w[y] + SumOver(w, B)
            <4> HIDE DEF A, B, C, p
            <4> QED BY <2>3, <3>3, <3>4, <3>5, <3>6
        <3> QED BY Zenon, <3>7
    <2> QED BY Zenon, <2>4, <2>5
<1>2. \A T \in SUBSET S : T \in P
    <2> HIDE DEF P
    <2> QED BY Zenon, <1>1, SetInduction
<1> QED BY Zenon, <1>2

\* Adding one element to a set adds its weight to the sum.
LEMMA SumAdd ==
    ASSUME NEW w, NEW S, IsFiniteSet(S), NEW x, x \notin S,
           \A y \in S \cup {x} : w[y] \in Nat
    PROVE  SumOver(w, S \cup {x}) = SumOver(w, S) + w[x]
<1>1. IsFiniteSet(S \cup {x}) /\ (S \cup {x}) \ {x} = S
    BY Zenon, FS_AddElement
<1>2. SumOver(w, S \cup {x}) = w[x] + SumOver(w, S)
    BY <1>1, SumRemove
<1>3. SumOver(w, S) \in Nat /\ w[x] \in Nat
    BY Zenon, SumType
<1> QED BY <1>2, <1>3

\* A sum of nothing but zeros.
LEMMA SumOfZeros ==
    ASSUME NEW w, NEW S, IsFiniteSet(S), \A x \in S : w[x] = 0
    PROVE  SumOver(w, S) = 0
<1> DEFINE P == {T \in SUBSET S : SumOver(w, T) = 0}
<1>1. ASSUME NEW T \in SUBSET S, \A U \in SUBSET T : U # T => U \in P
      PROVE  T \in P
    <2>1. CASE T = {}
        BY Zenon, <2>1, SumEmpty
    <2>2. CASE T # {}
        <3>1. Pick(T) \in T /\ IsFiniteSet(T)
            BY Zenon, <2>2, PickInSet, FS_Subset
        <3>2. SumOver(w, T) = w[Pick(T)] + SumOver(w, T \ {Pick(T)})
            BY Zenon, <2>2, <3>1, SumPick
        <3>3. T \ {Pick(T)} \in P
            BY Zenon, <1>1, <3>1
        <3> QED BY <3>1, <3>2, <3>3
    <2> QED BY Zenon, <2>1, <2>2
<1>2. \A T \in SUBSET S : T \in P
    <2> HIDE DEF P
    <2> QED BY Zenon, <1>1, SetInduction
<1> QED BY Zenon, <1>2

\* The sum depends on the weights of the elements of the set only.
LEMMA SumSame ==
    ASSUME NEW v, NEW w, NEW S, IsFiniteSet(S), \A x \in S : v[x] = w[x]
    PROVE  SumOver(v, S) = SumOver(w, S)
<1> DEFINE P == {T \in SUBSET S : SumOver(v, T) = SumOver(w, T)}
<1>1. ASSUME NEW T \in SUBSET S, \A U \in SUBSET T : U # T => U \in P
      PROVE  T \in P
    <2>1. CASE T = {}
        BY Zenon, <2>1, SumEmpty
    <2>2. CASE T # {}
        <3>1. Pick(T) \in T /\ IsFiniteSet(T)
            BY Zenon, <2>2, PickInSet, FS_Subset
        <3>2. /\ SumOver(v, T) = v[Pick(T)] + SumOver(v, T \ {Pick(T)})
              /\ SumOver(w, T) = w[Pick(T)] + SumOver(w, T \ {Pick(T)})
            BY Zenon, <2>2, <3>1, SumPick
        <3>3. SumOver(v, T \ {Pick(T)}) = SumOver(w, T \ {Pick(T)})
            BY Zenon, <1>1, <3>1
        <3> QED BY Zenon, <3>1, <3>2, <3>3
    <2> QED BY Zenon, <2>1, <2>2
<1>2. \A T \in SUBSET S : T \in P
    <2> HIDE DEF P
    <2> QED BY Zenon, <1>1, SetInduction
<1> QED BY Zenon, <1>2

\* A sum over more elements is not smaller.
LEMMA SumMonotone ==
    ASSUME NEW w, NEW S, IsFiniteSet(S), \A x \in S : w[x] \in Nat
    PROVE  \A T \in SUBSET S : SumOver(w, T) <= SumOver(w, S)
<1> DEFINE P == {U \in SUBSET S : \A T \in SUBSET U : SumOver(w, T) <= SumOver(w, U)}
<1>1. ASSUME NEW U \in SUBSET S, \A V \in SUBSET U : V # U => V \in P
      PROVE  U \in P
    <2>1. SUFFICES ASSUME NEW T \in SUBSET U, T # U
                   PROVE  SumOver(w, T) <= SumOver(w, U)
        <3>1. SumOver(w, U) \in Nat
            BY Zenon, FS_Subset, SumType
        <3> QED BY <3>1
    <2>2. PICK x \in U : x \notin T
        BY Zenon, <2>1
    <2> DEFINE V == U \ {x}
    <2>3. V \in P /\ T \in SUBSET V
        BY Zenon, <1>1, <2>1, <2>2
    <2>4. SumOver(w, T) <= SumOver(w, V)
        BY Zenon, <2>3
    <2>5. SumOver(w, U) = w[x] + SumOver(w, V)
        BY FS_Subset, SumRemove
    <2>6. SumOver(w, T) \in Nat /\ SumOver(w, V) \in Nat /\ w[x] \in Nat
        <3>1. IsFiniteSet(T) /\ IsFiniteSet(V)
            BY Zenon, FS_Subset
        <3> QED BY Zenon, <3>1, SumType
    <2> HIDE DEF V
    <2> QED BY <2>4, <2>5, <2>6
<1>2. \A U \in SUBSET S : U \in P
    <2> HIDE DEF P
    <2> QED BY Zenon, <1>1, SetInduction
<1> QED BY Zenon, <1>2

-----------------------------------------------------------------------------
\* 2^n is the number of subsets of a set of n elements, so it is positive.
LEMMA PowerPositive == \A n \in Nat : 2^n \in Nat \ {0}
<1> SUFFICES ASSUME NEW n \in Nat PROVE 2^n \in Nat \ {0}
    BY Zenon
<1>1. IsFiniteSet(1 .. n) /\ Cardinality(1 .. n) = n
    BY FS_Interval
<1>2. IsFiniteSet(SUBSET (1 .. n)) /\ Cardinality(SUBSET (1 .. n)) = 2^n
    BY Zenon, <1>1, FS_SUBSET
<1>3. Cardinality(SUBSET (1 .. n)) \in Nat
    BY Zenon, <1>2, FS_CardinalityType
<1>4. Cardinality(SUBSET (1 .. n)) # 0
    BY <1>2, FS_EmptySet
<1> QED BY Zenon, <1>2, <1>3, <1>4

\* A word may be reduced before adding or after.
LEMMA ModAdd ==
    ASSUME NEW m \in Nat \ {0}, NEW a \in Nat, NEW b \in Nat
    PROVE  ((a % m) + b) % m = (a + b) % m
<1> DEFINE q == a \div m
           r == a % m
           k == (r + b) \div m
           l == (r + b) % m
<1>1. q \in Int /\ r \in 0 .. (m - 1) /\ a = m * q + r
    OBVIOUS
<1>2. k \in Int /\ l \in 0 .. (m - 1) /\ r + b = m * k + l
    OBVIOUS
<1>3. a + b = m * (q + k) + l /\ q + k \in Int
    <2> HIDE DEF q, r, k, l
    <2> QED BY <1>1, <1>2
<1>4. (m * (q + k) + l) % m = l
    <2> HIDE DEF q, r, k, l
    <2>1. \A j \in Int : (m * j + l) % m = l
        BY <1>2
    <2> QED BY Zenon, <1>3, <2>1
<1> QED BY Zenon, <1>3, <1>4

\* A word is smaller than 2^HashBits, and a reduced sum stays one.
LEMMA AddWordType ==
    ASSUME NEW x \in Nat, NEW y \in Nat
    PROVE  AddWord(x, y) \in 0 .. (2^HashBits - 1)
BY PowerPositive, FingerprintAssumption DEF AddWord

\* The fingerprint of a finite set of events is made of words.
LEMMA FingerprintType ==
    ASSUME NEW S \in SUBSET EventIDs, IsFiniteSet(S)
    PROVE  SumOf(S) \in 0 .. (2^HashBits - 1) /\ XorOf(S) \subseteq BitPositions
<1>1. SumOver(EventIDFingerprint, S) \in Nat
    BY Zenon, FingerprintAssumption, SumType
<1>2. 2^HashBits \in Nat \ {0}
    BY Zenon, PowerPositive, FingerprintAssumption
<1> QED BY <1>1, <1>2 DEF SumOf, XorOf

\* store.go, Sum += hash: adding the hash of a new event to the sum of S gives the
\* sum of S with that event.
LEMMA SumOfAdd ==
    ASSUME NEW S \in SUBSET EventIDs, IsFiniteSet(S), NEW e \in EventIDs \ S
    PROVE  SumOf(S \cup {e}) = AddWord(SumOf(S), EventIDFingerprint[e])
<1>1. \A x \in EventIDs : EventIDFingerprint[x] \in Nat
    BY Zenon, FingerprintAssumption
<1>2. SumOver(EventIDFingerprint, S \cup {e})
        = SumOver(EventIDFingerprint, S) + EventIDFingerprint[e]
    BY Zenon, <1>1, SumAdd
<1>3. SumOver(EventIDFingerprint, S) \in Nat
    BY Zenon, <1>1, SumType
<1>4. 2^HashBits \in Nat \ {0}
    BY Zenon, PowerPositive, FingerprintAssumption
<1> QED BY ZenonT(40), <1>1, <1>2, <1>3, <1>4, ModAdd DEF SumOf, AddWord

\* store.go, XOR ^= hash: a bit of the result is set if an odd number of the events
\* has it.
LEMMA XorOfAdd ==
    ASSUME NEW S \in SUBSET EventIDs, IsFiniteSet(S), NEW e \in EventIDs \ S
    PROVE  XorOf(S \cup {e}) = Xor(XorOf(S), Bits(EventIDFingerprint[e]))
<1> DEFINE H == Bits(EventIDFingerprint[e])
           With(T, b) == {x \in T : b \in Bits(EventIDFingerprint[x])}
           Odd(T, b) == Cardinality(With(T, b)) % 2 = 1
<1>1. ASSUME NEW b \in BitPositions
      PROVE  Odd(S \cup {e}, b) <=> (Odd(S, b) <=> b \notin H)
    <2>1. IsFiniteSet(With(S, b))
        BY Zenon, FS_Subset
    <2>2. Cardinality(With(S, b)) \in Nat
        BY Zenon, <2>1, FS_CardinalityType
    <2>3. CASE b \in H
        <3>1. With(S \cup {e}, b) = With(S, b) \cup {e} /\ e \notin With(S, b)
            BY Zenon, <2>3
        <3>2. Cardinality(With(S \cup {e}, b)) = Cardinality(With(S, b)) + 1
            BY Zenon, <2>1, <3>1, FS_AddElement
        <3> HIDE DEF With, H
        <3> QED BY <2>2, <2>3, <3>2
    <2>4. CASE b \notin H
        <3>1. With(S \cup {e}, b) = With(S, b)
            BY Zenon, <2>4
        <3> HIDE DEF With, H
        <3> QED BY Zenon, <2>4, <3>1
    <2> QED BY Zenon, <2>3, <2>4
<1>2. H \subseteq BitPositions
    BY Zenon DEF Bits
<1>3. \A T : XorOf(T) = {b \in BitPositions : Odd(T, b)}
    BY Zenon DEF XorOf
<1> HIDE DEF H, Odd
<1>4. XorOf(S \cup {e}) = Xor(XorOf(S), H)
    BY Zenon, <1>1, <1>2, <1>3 DEF Xor
<1> QED BY Zenon, <1>4 DEF H

\* The record of no events is the one the store and the simulator start with.
LEMMA NothingReconciled == XorOf({}) = {} /\ SumOf({}) = 0
<1>1. \A b : {e \in {} : b \in Bits(EventIDFingerprint[e])} = {}
    BY Zenon
<1>2. XorOf({}) = {}
    BY <1>1, FS_EmptySet DEF XorOf
<1>3. 0 % 2^HashBits = 0
    BY PowerPositive, FingerprintAssumption
<1> QED BY Zenon, <1>2, <1>3, SumEmpty DEF SumOf

-----------------------------------------------------------------------------
\* The total of OBU o in a ledger l that maps event IDs to charges.
Charged(l, o) ==
    SumOver([e \in DOMAIN l |-> l[e].Value], {e \in DOMAIN l : l[e].OBUID = o})

\* A total is a number, and zero for an OBU without charges.
LEMMA ChargedType ==
    ASSUME NEW l, IsFiniteSet(DOMAIN l), l \in [DOMAIN l -> [OBUID : Nat, Value : Nat]], NEW o
    PROVE  /\ Charged(l, o) \in Nat
           /\ (\A e \in DOMAIN l : l[e].OBUID # o) => Charged(l, o) = 0
<1> DEFINE C == {e \in DOMAIN l : l[e].OBUID = o}
           w == [e \in DOMAIN l |-> l[e].Value]
<1>1. IsFiniteSet(C)
    BY Zenon, FS_Subset
<1>2. \A e \in C : w[e] \in Nat
    BY Zenon
<1>3. SumOver(w, C) \in Nat
    <2> HIDE DEF w, C
    <2> QED BY Zenon, <1>1, <1>2, SumType
<1>4. C = {} => SumOver(w, C) = 0
    BY Zenon, SumEmpty
<1> QED BY Zenon, <1>3, <1>4 DEF Charged

\* A new charge adds its value to the total of its OBU and to no other.
LEMMA ChargeAdds ==
    ASSUME NEW l, IsFiniteSet(DOMAIN l), l \in [DOMAIN l -> [OBUID : Nat, Value : Nat]],
           NEW e, e \notin DOMAIN l, NEW c \in [OBUID : Nat, Value : Nat],
           NEW m, m = [x \in DOMAIN l \cup {e} |-> IF x = e THEN c ELSE l[x]], NEW o
    PROVE  Charged(m, o) = IF o = c.OBUID THEN Charged(l, o) + c.Value ELSE Charged(l, o)
<1> DEFINE C == {x \in DOMAIN l : l[x].OBUID = o}
           D == {x \in DOMAIN m : m[x].OBUID = o}
           w == [x \in DOMAIN l |-> l[x].Value]
           v == [x \in DOMAIN m |-> m[x].Value]
<1>1. /\ IsFiniteSet(C) /\ e \notin C
      /\ D = IF o = c.OBUID THEN C \cup {e} ELSE C
    BY Zenon, FS_Subset
<1>2. /\ \A x \in C : v[x] = w[x]
      /\ \A x \in C \cup {e} : v[x] \in Nat
      /\ v[e] = c.Value
    BY Zenon
<1>3. SumOver(v, C) = SumOver(w, C)
    <2> HIDE DEF C, w, v
    <2> QED BY <1>1, <1>2, SumSame
<1>4. SumOver(v, C \cup {e}) = SumOver(v, C) + v[e]
    <2> HIDE DEF C, v
    <2> QED BY <1>1, <1>2, SumAdd
<1>5. Charged(l, o) = SumOver(w, C) /\ Charged(m, o) = SumOver(v, D)
    BY Zenon DEF Charged
<1> HIDE DEF C, D, v, w
<1> QED BY Zenon, <1>1, <1>2, <1>3, <1>4, <1>5
=============================================================================
