------------------------------ MODULE DevMgrProofs ------------------------------
(***************************************************************************)
(* Proofs about the device manager, for every set of bus ids, every size   *)
(* of pool and table and every hash function: the hash chains, the pool    *)
(* and its counter implement the map from bus ids to owners, and the       *)
(* device list that walks the drivers while devices come back announces no *)
(* more records than it sends.                                             *)
(***************************************************************************)
EXTENDS DevList, FunctionTheorems, FiniteSetTheorems, SequenceTheorems,
        WellFoundedInduction, TLAPS

-----------------------------------------------------------------------------
(* The inductive invariant of the registry.                                 *)

Used == {e \in Entries : busid[e] # None}

(* The entries that belong in the chain of bucket b.                        *)
Bucket(b) == {e \in Used : Hash[busid[e]] = b}

(* Links lead from used entries, or the table, to used entries of the same  *)
(* bucket, and one leads to each.                                           *)
LinkInv ==
  /\ \A b \in Buckets : table[b] # None => table[b] \in Bucket(b)
  /\ \A e \in Entries : next[e] # None =>
       e \in Used /\ next[e] \in Bucket(Hash[busid[e]])
  /\ \A e \in Used : \/ table[Hash[busid[e]]] = e
                     \/ \E f \in Entries : next[f] = e

(* pos orders the entries as the links do: no chain bites its tail.         *)
Orders(pos) == \A e \in Entries : next[e] # None => pos[e] < pos[next[e]]
OrderInv == \E pos \in [Entries -> Nat] : Orders(pos)

CountInv ==
  /\ \A e, f \in Used : busid[e] = busid[f] => e = f
  /\ count = Cardinality(Used)

(* No driver is registered twice.                                           *)
DriverInv == \A i, j \in DOMAIN drivers : drivers[i] = drivers[j] => i = j

Linked == TypeOK /\ LinkInv /\ OrderInv /\ CountInv /\ DriverInv

-----------------------------------------------------------------------------
(* Induction by the least counterexample.                                   *)

LEMMA NatMin ==
  ASSUME NEW T, T \subseteq Nat, T # {}
  PROVE  \E x \in T : \A y \in T : x <= y
<1>1. IsWellFoundedOn(OpToRel(<, Nat), Nat)
  BY NatLessThanWellFounded
<1>2. PICK x \in T : \A y \in T : ~ (<<y, x>> \in OpToRel(<, Nat))
  BY <1>1, WFMin
<1>3. ASSUME NEW y \in T PROVE x <= y
  <2>1. ~(y < x)
    <3>1. ASSUME y < x PROVE <<y, x>> \in OpToRel(<, Nat)
      BY <3>1 DEF OpToRel
    <3> QED BY <1>2, <3>1
  <2> QED BY <2>1
<1> QED BY <1>3

(* What is so at 0 and goes on is so everywhere up to m.                    *)
LEMMA Induction ==
  ASSUME NEW m \in Nat, NEW T, 0 \in T,
         \A i \in 0 .. m : i + 1 \in 0 .. m /\ i \in T => i + 1 \in T
  PROVE  0 .. m \subseteq T
<1> DEFINE Bad == {i \in 0 .. m : i \notin T}
<1>1. SUFFICES ASSUME Bad # {} PROVE FALSE
  OBVIOUS
<1>2. Bad \subseteq Nat
  OBVIOUS
<1>3. PICK x \in Bad : \A y \in Bad : x <= y
  <2> HIDE DEF Bad
  <2> QED BY <1>1, <1>2, NatMin
<1>4. x \in 0 .. m /\ x # 0 /\ x \notin T
  OBVIOUS
<1>5. PICK n \in 0 .. m : x = n + 1
  <2>1. x - 1 \in 0 .. m /\ x = (x - 1) + 1
    BY <1>4
  <2> QED BY <2>1
<1>6. n \notin Bad
  <2>1. ~(x <= n)
    BY <1>4, <1>5
  <2> QED BY <1>3, <2>1
<1>7. n \in T
  BY <1>6
<1> QED BY <1>4, <1>5, <1>7

-----------------------------------------------------------------------------
(* The chains.                                                              *)

(* A function defined by what it is at the index before exists.             *)
LEMMA LinksExist ==
  ASSUME NEW b
  PROVE  \E g : g = [i \in 0 .. Capacity |->
                       IF i = 0 THEN table[b]
                       ELSE IF g[i - 1] = None THEN None ELSE next[g[i - 1]]]
<1> DEFINE St(i, x) == IF i = 0 THEN table[b] ELSE IF x = None THEN None ELSE next[x]
<1> DEFINE T == {n \in Nat : \E g : g = [i \in 0 .. n |-> St(i, g[i - 1])]}
<1>1. 0 \in T
  <2> DEFINE g == [i \in 0 .. 0 |-> table[b]]
  <2>1. \A i \in 0 .. 0 : St(i, g[i - 1]) = table[b]
    OBVIOUS
  <2>2. g = [i \in 0 .. 0 |-> St(i, g[i - 1])]
    <3> HIDE DEF St
    <3> QED BY <2>1
  <2> HIDE DEF g, St
  <2> QED BY <2>2
<1>2. ASSUME NEW n \in 0 .. Capacity, n + 1 \in 0 .. Capacity, n \in T
      PROVE  n + 1 \in T
  <2> HIDE DEF St
  <2>1. PICK g : g = [i \in 0 .. n |-> St(i, g[i - 1])]
    BY <1>2
  <2>2. \A i \in 0 .. n : g[i] = St(i, g[i - 1])
    BY <2>1
  <2> DEFINE h == [i \in 0 .. n + 1 |-> IF i = n + 1 THEN St(i, g[n]) ELSE g[i]]
  <2>3. \A i \in 0 .. n : h[i] = g[i]
    OBVIOUS
  <2>4. \A i \in 0 .. n : i # 0 => i - 1 \in 0 .. n
    OBVIOUS
  <2>5. ASSUME NEW i \in 0 .. n + 1 PROVE h[i] = St(i, h[i - 1])
    <3>1. CASE i = n + 1
      <4>1. h[i] = St(i, g[n]) /\ i - 1 = n /\ n \in 0 .. n
        BY <3>1
      <4> QED BY <2>3, <4>1
    <3>2. CASE i = 0
      <4>1. i \in 0 .. n
        BY <3>2
      <4> QED BY <2>2, <2>3, <3>2, <4>1 DEF St
    <3>3. CASE i # 0 /\ i # n + 1
      <4>1. i \in 0 .. n /\ i - 1 \in 0 .. n
        BY <3>3
      <4> QED BY <2>2, <2>3, <4>1
    <3> QED BY <3>1, <3>2, <3>3
  <2>6. DOMAIN h = 0 .. n + 1 /\ h = [i \in 0 .. n + 1 |-> h[i]]
    OBVIOUS
  <2> HIDE DEF h
  <2>7. h = [i \in 0 .. n + 1 |-> St(i, h[i - 1])]
    BY <2>5, <2>6
  <2> QED BY <2>7
<1>3. Capacity \in Nat /\ Capacity \in 0 .. Capacity
  BY DevMgrAssumption
<1>4. Capacity \in T
  <2> HIDE DEF T
  <2>1. 0 .. Capacity \subseteq T
    BY <1>1, <1>2, <1>3, Induction
  <2> QED BY <1>3, <2>1
<1> QED BY <1>4

(* What Link computes.                                                      *)
LEMMA LinkFacts ==
  ASSUME NEW b
  PROVE  \A i \in 0 .. Capacity :
           Link(b)[i] = IF i = 0 THEN table[b]
                        ELSE IF Link(b)[i - 1] = None THEN None
                        ELSE next[Link(b)[i - 1]]
<1> DEFINE links[i \in 0 .. Capacity] ==
             IF i = 0 THEN table[b]
             ELSE IF links[i - 1] = None THEN None ELSE next[links[i - 1]]
<1>2. links = [i \in 0 .. Capacity |->
                 IF i = 0 THEN table[b]
                 ELSE IF links[i - 1] = None THEN None ELSE next[links[i - 1]]]
  BY LinksExist
<1>3. Link(b) = links
  BY DEF Link
<1> HIDE DEF links
<1> QED BY <1>2, <1>3

(* The links stay in the bucket and go up in the order.                     *)
LEMMA LinksRise ==
  ASSUME TypeOK, LinkInv, NEW b \in Buckets, NEW pos \in [Entries -> Nat], Orders(pos)
  PROVE  \A j \in 0 .. Capacity : Link(b)[j] # None =>
           /\ Link(b)[j] \in Bucket(b)
           /\ \A i \in 0 .. Capacity : i < j =>
                /\ Link(b)[i] \in Bucket(b)
                /\ pos[Link(b)[i]] < pos[Link(b)[j]]
<1> DEFINE L(i) == Link(b)[i]
<1> DEFINE R(j) == L(j) # None =>
             /\ L(j) \in Bucket(b)
             /\ \A i \in 0 .. Capacity : i < j => L(i) \in Bucket(b) /\ pos[L(i)] < pos[L(j)]
<1> DEFINE T == {j \in 0 .. Capacity : R(j)}
<1>1. Capacity \in Nat /\ 0 \in 0 .. Capacity
  BY DevMgrAssumption
<1>2. R(0)
  <2>1. \A i \in 0 .. Capacity : ~(i < 0)
    OBVIOUS
  <2>2. L(0) = table[b]
    BY <1>1, LinkFacts
  <2> QED BY <2>1, <2>2 DEF LinkInv
<1>3. ASSUME NEW n \in 0 .. Capacity, n + 1 \in 0 .. Capacity, R(n)
      PROVE  R(n + 1)
  <2>1. n + 1 # 0 /\ (n + 1) - 1 = n
    OBVIOUS
  <2>2. L(n + 1) = IF L(n) = None THEN None ELSE next[L(n)]
    BY <1>3, <2>1, LinkFacts
  <2> SUFFICES ASSUME L(n + 1) # None
               PROVE  /\ L(n + 1) \in Bucket(b)
                      /\ \A i \in 0 .. Capacity : i < n + 1 =>
                           L(i) \in Bucket(b) /\ pos[L(i)] < pos[L(n + 1)]
    OBVIOUS
  <2>3. L(n) \in Bucket(b) /\ L(n + 1) = next[L(n)]
    BY <1>3, <2>2
  <2> HIDE DEF L
  <2>4. L(n) \in Entries /\ L(n + 1) \in Bucket(b) /\ pos[L(n)] < pos[L(n + 1)]
    BY <2>3 DEF LinkInv, Bucket, Used, Orders
  <2>5. ASSUME NEW i \in 0 .. Capacity, i < n + 1
        PROVE  L(i) \in Bucket(b) /\ pos[L(i)] < pos[L(n + 1)]
    <3>1. CASE i = n
      BY <2>3, <2>4, <3>1
    <3>2. CASE i # n
      <4>1. i < n
        BY <2>5, <3>2
      <4>2. L(i) \in Bucket(b) /\ pos[L(i)] < pos[L(n)]
        BY <1>3, <2>2, <4>1
      <4>3. L(i) \in Entries /\ L(n + 1) \in Entries
        BY <2>4, <4>2 DEF Bucket, Used
      <4> QED BY <2>4, <4>2, <4>3
    <3> QED BY <3>1, <3>2
  <2> QED BY <2>4, <2>5
<1> HIDE DEF R
<1>4. 0 .. Capacity \subseteq T
  BY <1>1, <1>2, <1>3, Induction
<1> QED BY <1>4 DEF R

(* A chain ends, and holds the entries of its bucket.                       *)
LEMMA ChainFacts ==
  ASSUME TypeOK, LinkInv, OrderInv, NEW b \in Buckets
  PROVE  Link(b)[Capacity] = None /\ Chain(b) = Bucket(b)
<1>1. PICK pos \in [Entries -> Nat] : Orders(pos)
  BY DEF OrderInv
<1>2. \A j \in 0 .. Capacity : Link(b)[j] # None =>
           /\ Link(b)[j] \in Bucket(b)
           /\ \A i \in 0 .. Capacity : i < j =>
                /\ Link(b)[i] \in Bucket(b)
                /\ pos[Link(b)[i]] < pos[Link(b)[j]]
  BY <1>1, LinksRise
<1> DEFINE L(i) == Link(b)[i]
<1>a. Capacity \in Nat \ {0}
  BY DevMgrAssumption
<1>3. L(Capacity) = None
  <2> SUFFICES ASSUME L(Capacity) # None PROVE FALSE
    OBVIOUS
  <2> DEFINE f == [i \in 0 .. Capacity |-> L(i)]
  <2>1. \A i \in 0 .. Capacity : i < Capacity \/ i = Capacity
    BY <1>a
  <2>2. \A i \in 0 .. Capacity : L(i) \in Bucket(b)
    BY <1>2, <1>a, <2>1
  <2>3. f \in [0 .. Capacity -> Entries]
    BY <2>2 DEF Bucket, Used
  <2>4. IsFiniteSet(0 .. Capacity) /\ Cardinality(0 .. Capacity) = Capacity + 1
    BY <1>a, FS_Interval
  <2>5. IsFiniteSet(Entries) /\ Cardinality(Entries) = Capacity
    BY <1>a, FS_Interval DEF Entries
  <2>6. Capacity < Capacity + 1
    BY <1>a
  <2>7. PICK i, j \in 0 .. Capacity : i # j /\ f[i] = f[j]
    <3> DEFINE S == 0 .. Capacity
    <3>1. f \in [S -> Entries] /\ IsFiniteSet(S) /\ Cardinality(Entries) < Cardinality(S)
      BY <2>3, <2>4, <2>5, <2>6
    <3> HIDE DEF f, S
    <3>2. \E i, j \in S : i # j /\ f[i] = f[j]
      BY <2>5, <3>1, FS_PigeonHole
    <3> QED BY <3>2 DEF S
  <2>8. L(i) = L(j) /\ (i < j \/ j < i)
    BY <2>7
  <2>9. L(i) # None /\ L(j) # None /\ pos[L(i)] \in Nat /\ pos[L(j)] \in Nat
    BY <2>2, DevMgrAssumption DEF Bucket, Used, Entries
  <2> HIDE DEF L, f
  <2>10. pos[L(i)] < pos[L(j)] \/ pos[L(j)] < pos[L(i)]
    BY <1>2, <2>8, <2>9 DEF L
  <2> QED BY <2>8, <2>9, <2>10
<1>4. Chain(b) \subseteq Bucket(b)
  BY <1>2 DEF Chain
<1>5. Bucket(b) \subseteq Chain(b)
  <2> DEFINE Bad == {e \in Bucket(b) : e \notin Chain(b)}
  <2> DEFINE P == {pos[e] : e \in Bad}
  <2> SUFFICES ASSUME Bad # {} PROVE FALSE
    OBVIOUS
  <2>1. P \subseteq Nat /\ P # {}
    BY DEF Bucket, Used
  <2>2. PICK x \in P : \A y \in P : x <= y
    <3> HIDE DEF P
    <3> QED BY <2>1, NatMin
  <2>3. PICK e \in Bad : \A f \in Bad : pos[e] <= pos[f]
    BY <2>2
  <2>4. e \in Used /\ Hash[busid[e]] = b /\ e \notin Chain(b) /\ e \in Entries
    BY <2>3 DEF Bucket, Used
  <2>5. e # None
    BY <2>4, DevMgrAssumption DEF Entries
  <2>6. \A i \in 0 .. Capacity : L(i) # e
    BY <2>4, <2>5 DEF Chain
  <2>7. table[b] # e
    <3>1. L(0) = table[b]
      BY <1>a, LinkFacts
    <3> QED BY <1>a, <2>6, <3>1
  <2>8. PICK f \in Entries : next[f] = e
    BY <2>4, <2>7 DEF LinkInv
  <2>9. f \in Bucket(b)
    BY <2>4, <2>5, <2>8 DEF LinkInv, Bucket
  <2>10. pos[f] < pos[e] /\ pos[f] \in Nat /\ pos[e] \in Nat
    BY <1>1, <2>4, <2>5, <2>8 DEF Orders
  <2>11. f \notin Bad
    BY <2>3, <2>10
  <2>12. PICK i \in 0 .. Capacity : L(i) = f
    BY <2>9, <2>11 DEF Chain
  <2>13. f # None
    BY <2>8, DevMgrAssumption DEF Entries
  <2>14. i # Capacity
    BY <1>3, <2>12, <2>13
  <2>15. i + 1 \in 0 .. Capacity /\ i + 1 # 0 /\ (i + 1) - 1 = i
    BY <1>a, <2>14
  <2>16. L(i + 1) = e
    BY <2>8, <2>12, <2>13, <2>15, LinkFacts
  <2> QED BY <2>6, <2>15, <2>16
<1> QED BY <1>3, <1>4, <1>5

(* What a lookup finds.                                                     *)
LEMMA FindFacts ==
  ASSUME TypeOK, LinkInv, OrderInv, NEW n \in Names
  PROVE  /\ Find(n) = None <=> \A e \in Entries : busid[e] # n
         /\ Find(n) # None => Find(n) \in Entries /\ busid[Find(n)] = n
<1> DEFINE b == Hash[n]
           links == Link(b)
           hits == {i \in 0 .. Capacity : links[i] # None /\ busid[links[i]] = n}
<1>1. b \in Buckets /\ n # None /\ None \notin Entries
  BY DevMgrAssumption DEF Entries
<1>2. Chain(b) = Bucket(b)
  BY <1>1, ChainFacts
<1>3. Find(n) = IF hits = {} THEN None
                ELSE links[CHOOSE i \in hits : \A j \in hits : i <= j]
  BY DEF Find
<1> HIDE DEF b
<1>4. ASSUME NEW i \in hits PROVE links[i] \in Entries /\ busid[links[i]] = n
  BY <1>2 DEF Chain, Bucket, Used
<1>5. ASSUME NEW e \in Entries, busid[e] = n PROVE hits # {}
  <2>1. e \in Bucket(b)
    BY <1>1, <1>5 DEF Bucket, Used, b
  <2>2. PICK i \in 0 .. Capacity : links[i] = e
    BY <1>2, <2>1 DEF Chain
  <2> QED BY <1>1, <1>5, <2>2
<1>6. CASE hits = {}
  BY <1>3, <1>5, <1>6
<1>7. CASE hits # {}
  <2>1. hits \subseteq Nat
    OBVIOUS
  <2> HIDE DEF hits
  <2>2. \E i \in hits : \A j \in hits : i <= j
    BY <1>7, <2>1, NatMin
  <2>3. (CHOOSE i \in hits : \A j \in hits : i <= j) \in hits
    BY <2>2
  <2> QED BY <1>1, <1>3, <1>4, <1>7, <2>3
<1> QED BY <1>6, <1>7

LEMMA UsedFinite ==
  /\ IsFiniteSet(Entries) /\ Cardinality(Entries) = Capacity
  /\ IsFiniteSet(Used) /\ Cardinality(Used) \in Nat /\ Cardinality(Used) <= Capacity
<1>1. IsFiniteSet(Entries) /\ Cardinality(Entries) = Capacity
  BY DevMgrAssumption, FS_Interval DEF Entries
<1>2. Used \subseteq Entries
  BY DEF Used
<1> QED BY <1>1, <1>2, FS_Subset, FS_CardinalityType

(* A new entry is one that is free.                                         *)
LEMMA AllocFacts ==
  ASSUME FreeEntries # {}
  PROVE  Alloc \in Entries /\ busid[Alloc] = None
<1>1. FreeEntries \subseteq Nat
  BY DevMgrAssumption DEF FreeEntries, Entries
<1>2. \E e \in FreeEntries : \A f \in FreeEntries : e <= f
  BY <1>1, NatMin
<1>3. Alloc \in FreeEntries
  BY <1>2 DEF Alloc
<1> QED BY <1>3 DEF FreeEntries

-----------------------------------------------------------------------------
(* Each call preserves the invariant.                                       *)

LEMMA LinkedInit == Init => Linked
<1> SUFFICES ASSUME Init PROVE Linked
  OBVIOUS
<1> USE DevMgrAssumption DEF Init
<1>1. Used = {}
  BY DEF Used
<1>2. TypeOK
  BY DEF TypeOK, Entries
<1>3. LinkInv
  BY <1>1 DEF LinkInv
<1>4. OrderInv
  <2>1. [e \in Entries |-> 0] \in [Entries -> Nat] /\ Orders([e \in Entries |-> 0])
    BY DEF Orders
  <2> QED BY <2>1 DEF OrderInv
<1>5. CountInv
  BY <1>1, FS_EmptySet DEF CountInv
<1>6. DriverInv
  BY DEF DriverInv
<1> QED BY <1>2, <1>3, <1>4, <1>5, <1>6 DEF Linked

(* The new entry goes before all others.                                    *)
LEMMA InsertLinked ==
  ASSUME Linked, NEW n \in Names, NEW o \in Conns \cup {None},
         Find(n) = None, Insert(n, o)
  PROVE  Linked'
<1> DEFINE h == Hash[n]
<1>1. /\ TypeOK /\ LinkInv /\ OrderInv /\ CountInv /\ DriverInv
      /\ h \in Buckets /\ n # None /\ None \notin Entries
  BY DevMgrAssumption DEF Linked, Entries
<1>2. PICK e : e = Alloc
  OBVIOUS
<1>3. /\ e \in Entries /\ busid[e] = None /\ count < Capacity
      /\ busid' = [busid EXCEPT ![e] = n]
      /\ owner' = [owner EXCEPT ![e] = o]
      /\ next' = [next EXCEPT ![e] = table[h]]
      /\ table' = [table EXCEPT ![h] = e]
      /\ count' = count + 1
      /\ UNCHANGED <<drivers, ready>>
  BY <1>2, AllocFacts DEF Insert, CanAlloc
<1> HIDE DEF h
<1>4. e \notin Used /\ next[e] = None
  BY <1>1, <1>3 DEF Used, LinkInv
<1>5. /\ \A f \in Entries : next[f] # e
      /\ \A b \in Buckets : table[b] # e
  BY <1>1, <1>3, <1>4 DEF LinkInv, Bucket
<1>6. /\ busid' \in [Entries -> Names \cup {None}]
      /\ \A f \in Entries : busid'[f] = IF f = e THEN n ELSE busid[f]
      /\ next' \in [Entries -> Entries \cup {None}]
      /\ \A f \in Entries : next'[f] = IF f = e THEN table[h] ELSE next[f]
      /\ table' \in [Buckets -> Entries \cup {None}]
      /\ \A b \in Buckets : table'[b] = IF b = h THEN e ELSE table[b]
  BY <1>1, <1>3 DEF TypeOK
<1>7. TypeOK'
  <2>1. owner' \in [Entries -> Conns \cup {None}]
    BY <1>1, <1>3 DEF TypeOK
  <2>2. count' \in 0 .. Capacity
    BY <1>1, <1>3, DevMgrAssumption DEF TypeOK
  <2> QED BY <1>1, <1>3, <1>6, <2>1, <2>2 DEF TypeOK, Entries
<1>8. Used' = Used \cup {e}
  <2>1. \A f \in Entries : f \in Used' <=> f \in Used \cup {e}
    BY <1>1, <1>3, <1>6 DEF Used
  <2> QED BY <1>3, <2>1 DEF Used
<1>9. \A f \in Used : busid'[f] = busid[f] /\ f # e
  BY <1>4, <1>6 DEF Used
<1>10. \A b \in Buckets : Bucket(b)' = IF b = h THEN Bucket(b) \cup {e} ELSE Bucket(b)
  <2> TAKE b \in Buckets
  <2>1. \A f \in Used' : Hash[busid'[f]] = b <=> \/ f \in Used /\ Hash[busid[f]] = b
                                                 \/ f = e /\ b = h
    BY <1>3, <1>4, <1>6, <1>8, <1>9 DEF h
  <2>2. \A f : f \in Bucket(b)' <=> f \in Bucket(b) \/ (f = e /\ b = h)
    BY <1>8, <2>1 DEF Bucket
  <2> QED BY <2>2
<1>11. LinkInv'
  <2>1. ASSUME NEW b \in Buckets, table'[b] # None PROVE table'[b] \in Bucket(b)'
    BY <1>1, <1>6, <1>10, <2>1 DEF LinkInv
  <2>2. ASSUME NEW f \in Entries, next'[f] # None
        PROVE  f \in Used' /\ next'[f] \in Bucket(Hash[busid[f]])'
    <3>1. CASE f = e
      <4>1. next'[f] = table[h] /\ Hash[busid'[f]] = h /\ f \in Used'
        BY <1>6, <1>8, <3>1 DEF h
      <4>2. table[h] \in Bucket(h)
        BY <1>1, <2>2, <4>1 DEF LinkInv
      <4> QED BY <1>1, <1>10, <4>1, <4>2
    <3>2. CASE f # e
      <4>1. next'[f] = next[f] /\ f \in Used /\ next[f] \in Bucket(Hash[busid[f]])
        BY <1>1, <1>6, <2>2, <3>2 DEF LinkInv
      <4>2. busid'[f] = busid[f] /\ Hash[busid[f]] \in Buckets
        BY <1>1, <1>9, <4>1, DevMgrAssumption DEF Used, TypeOK
      <4> QED BY <1>8, <1>10, <4>1, <4>2
    <3> QED BY <3>1, <3>2
  <2>3. ASSUME NEW f \in Used'
        PROVE  table'[Hash[busid'[f]]] = f \/ \E g \in Entries : next'[g] = f
    <3>1. CASE f = e
      BY <1>1, <1>6, <1>3, <3>1 DEF h
    <3>2. CASE f # e
      <4>1. f \in Used /\ busid'[f] = busid[f] /\ Hash[busid[f]] \in Buckets
        BY <1>1, <1>8, <1>9, <3>2, DevMgrAssumption DEF Used, TypeOK
      <4>2. CASE table[Hash[busid[f]]] = f
        <5>1. CASE Hash[busid[f]] = h
          BY <1>3, <1>6, <4>2, <5>1
        <5>2. CASE Hash[busid[f]] # h
          BY <1>6, <4>1, <4>2, <5>2
        <5> QED BY <5>1, <5>2
      <4>3. CASE \E g \in Entries : next[g] = f
        <5>1. PICK g \in Entries : next[g] = f
          BY <4>3
        <5>2. g # e
          BY <1>1, <1>4, <4>1, <5>1 DEF Used
        <5> QED BY <1>6, <5>1, <5>2
      <4> QED BY <1>1, <4>1, <4>2, <4>3 DEF LinkInv
    <3> QED BY <3>1, <3>2
  <2> QED BY <2>1, <2>2, <2>3 DEF LinkInv
<1>12. OrderInv'
  <2>1. PICK pos \in [Entries -> Nat] : Orders(pos)
    BY <1>1 DEF OrderInv
  <2> DEFINE new == [f \in Entries |-> IF f = e THEN 0 ELSE pos[f] + 1]
  <2>2. new \in [Entries -> Nat]
    OBVIOUS
  <2>3. ASSUME NEW f \in Entries, next'[f] # None PROVE new[f] < new[next'[f]]
    <3>1. next'[f] \in Entries /\ next'[f] # e
      BY <1>1, <1>5, <1>6, <2>3
    <3>2. new[next'[f]] = pos[next'[f]] + 1 /\ pos[next'[f]] \in Nat
      BY <3>1
    <3>3. CASE f = e
      BY <3>2, <3>3
    <3>4. CASE f # e
      <4>1. next'[f] = next[f] /\ new[f] = pos[f] + 1 /\ pos[f] \in Nat
        BY <1>6, <3>4
      <4>2. pos[f] < pos[next[f]]
        BY <2>1, <2>3, <4>1 DEF Orders
      <4> HIDE DEF new
      <4> QED BY <3>2, <4>1, <4>2
    <3> QED BY <3>3, <3>4
  <2> HIDE DEF new
  <2>4. Orders(new)'
    BY <2>3 DEF Orders
  <2> QED BY <2>2, <2>4 DEF OrderInv, Entries
<1>13. CountInv'
  <2>1. \A f \in Used : busid[f] # n
    BY <1>1, FindFacts DEF Used
  <2>2. ASSUME NEW f \in Used', NEW g \in Used', busid'[f] = busid'[g] PROVE f = g
    BY <1>1, <1>3, <1>6, <1>8, <1>9, <2>1, <2>2 DEF CountInv
  <2>3. Cardinality(Used \cup {e}) = Cardinality(Used) + 1
    BY <1>4, UsedFinite, FS_AddElement
  <2> QED BY <1>1, <1>3, <1>8, <2>2, <2>3 DEF CountInv
<1>14. DriverInv'
  BY <1>1, <1>3 DEF DriverInv
<1> QED BY <1>7, <1>11, <1>12, <1>13, <1>14 DEF Linked

(* What led to the entry leads past it.                                     *)
LEMMA ReleaseLinked ==
  ASSUME Linked, NEW n \in Names, Release(n)
  PROVE  Linked'
<1> DEFINE h == Hash[n]
<1>1. /\ TypeOK /\ LinkInv /\ OrderInv /\ CountInv /\ DriverInv
      /\ h \in Buckets /\ n # None /\ None \notin Entries
  BY DevMgrAssumption DEF Linked, Entries
<1>2. PICK e : e = Find(n)
  OBVIOUS
<1>3. /\ e \in Entries /\ busid[e] = n
      /\ busid' = [busid EXCEPT ![e] = None]
      /\ owner' = [owner EXCEPT ![e] = None]
      /\ table' = [table EXCEPT ![h] = IF @ = e THEN next[e] ELSE @]
      /\ next' = [f \in Entries |->
                    IF f = e THEN None
                    ELSE IF f \in Chain(h) /\ next[f] = e THEN next[e]
                    ELSE next[f]]
      /\ count' = count - 1
      /\ UNCHANGED <<drivers, ready>>
  BY <1>1, <1>2, FindFacts DEF Release, Unlink
<1>4. Chain(h) = Bucket(h) /\ e \in Bucket(h)
  BY <1>1, <1>3, ChainFacts DEF Bucket, Used
<1>5. ASSUME NEW f \in Entries, next[f] = e PROVE f \in Bucket(h) /\ f # e
  <2>1. f \in Used /\ e \in Bucket(Hash[busid[f]])
    BY <1>1, <1>3, <1>5 DEF LinkInv
  <2>2. f \in Bucket(h)
    BY <1>3, <2>1 DEF Bucket
  <2>3. PICK pos \in [Entries -> Nat] : Orders(pos)
    BY <1>1 DEF OrderInv
  <2>4. pos[f] < pos[e] /\ pos[f] \in Nat
    BY <1>1, <1>3, <1>5, <2>3 DEF Orders
  <2> QED BY <2>2, <2>4
<1> HIDE DEF h
<1>6. /\ busid' \in [Entries -> Names \cup {None}]
      /\ \A f \in Entries : busid'[f] = IF f = e THEN None ELSE busid[f]
      /\ \A f \in Entries : next'[f] = IF f = e THEN None
                                       ELSE IF next[f] = e THEN next[e]
                                       ELSE next[f]
      /\ table' \in [Buckets -> Entries \cup {None}]
      /\ \A b \in Buckets : table'[b] = IF table[b] = e THEN next[e] ELSE table[b]
  <2>1. \A b \in Buckets : table[b] = e => b = h
    BY <1>1, <1>3 DEF LinkInv, Bucket, h
  <2>2. \A f \in Entries : next'[f] = IF f = e THEN None
                                       ELSE IF next[f] = e THEN next[e]
                                       ELSE next[f]
    BY <1>3, <1>4, <1>5
  <2>3. \A b \in Buckets : table'[b] = IF b = h /\ table[b] = e THEN next[e] ELSE table[b]
    BY <1>1, <1>3 DEF TypeOK
  <2>4. table' \in [Buckets -> Entries \cup {None}]
    BY <1>1, <1>3 DEF TypeOK
  <2>5. busid' \in [Entries -> Names \cup {None}]
        /\ \A f \in Entries : busid'[f] = IF f = e THEN None ELSE busid[f]
    BY <1>1, <1>3 DEF TypeOK
  <2> QED BY <2>1, <2>2, <2>3, <2>4, <2>5
<1>7. next[e] # e /\ next[e] \in Entries \cup {None}
  BY <1>1, <1>3, <1>5 DEF TypeOK
<1>8. /\ next' \in [Entries -> Entries \cup {None}]
      /\ \A f \in Entries : next'[f] # e
      /\ \A b \in Buckets : table'[b] # e
  <2>1. \A f \in Entries : next'[f] \in Entries \cup {None} /\ next'[f] # e
    BY <1>1, <1>3, <1>6, <1>7 DEF TypeOK
  <2>2. next' = [f \in Entries |-> next'[f]]
    BY <1>3
  <2> QED BY <1>6, <1>7, <2>1, <2>2
<1>9. Used' = Used \ {e} /\ e \in Used
  <2>1. \A f \in Entries : f \in Used' <=> f \in Used \ {e}
    BY <1>1, <1>3, <1>6 DEF Used
  <2> QED BY <1>1, <1>3, <2>1 DEF Used
<1>10. CountInv' /\ count' \in 0 .. Capacity
  <2>1. Cardinality(Used \ {e}) = Cardinality(Used) - 1
    BY <1>9, UsedFinite, FS_RemoveElement
  <2>2. Cardinality(Used \ {e}) \in Nat
    BY UsedFinite, FS_RemoveElement, FS_CardinalityType
  <2>3. count \in 0 .. Capacity /\ Capacity \in Nat /\ count = Cardinality(Used)
    BY <1>1, DevMgrAssumption DEF TypeOK, CountInv
  <2>4. count' = Cardinality(Used \ {e}) /\ count' \in 0 .. Capacity
    BY <1>3, <2>1, <2>2, <2>3
  <2>5. \A f, g \in Used' : busid'[f] = busid'[g] => f = g
    BY <1>1, <1>6, <1>9 DEF CountInv, Used
  <2> QED BY <1>9, <2>4, <2>5 DEF CountInv
<1>11. TypeOK'
  <2>1. owner' \in [Entries -> Conns \cup {None}]
    BY <1>1, <1>3 DEF TypeOK
  <2> QED BY <1>1, <1>3, <1>6, <1>8, <1>10, <2>1 DEF TypeOK, Entries
<1>12. \A b \in Buckets : Bucket(b)' = Bucket(b) \ {e}
  <2> TAKE b \in Buckets
  <2>1. \A f : f \in Bucket(b)' <=> f \in Bucket(b) \ {e}
    BY <1>6, <1>9 DEF Bucket, Used
  <2> QED BY <2>1
<1>13. LinkInv'
  <2>1. next[e] # None => next[e] \in Bucket(h)
    BY <1>1, <1>3 DEF LinkInv, h
  <2>2. ASSUME NEW b \in Buckets, table'[b] # None PROVE table'[b] \in Bucket(b)'
    <3>1. CASE table[b] = e
      <4>1. b = h
        BY <1>1, <1>3, <2>2, <3>1 DEF LinkInv, Bucket, h
      <4> QED BY <1>6, <1>8, <1>12, <2>1, <2>2, <3>1, <4>1
    <3>2. CASE table[b] # e
      BY <1>1, <1>6, <1>12, <2>2, <3>2 DEF LinkInv
    <3> QED BY <3>1, <3>2
  <2>3. ASSUME NEW f \in Entries, next'[f] # None
        PROVE  f \in Used' /\ next'[f] \in Bucket(Hash[busid[f]])'
    <3>1. f # e /\ next[f] # None
      BY <1>1, <1>3, <1>6, <2>3
    <3>2. /\ f \in Used /\ next[f] \in Bucket(Hash[busid[f]])
          /\ busid'[f] = busid[f] /\ Hash[busid[f]] \in Buckets
      BY <1>1, <1>6, <3>1, DevMgrAssumption DEF LinkInv, Used, TypeOK
    <3>3. CASE next[f] = e
      <4>1. Hash[busid[f]] = h
        BY <1>5, <3>3 DEF Bucket
      <4> QED BY <1>6, <1>8, <1>9, <1>12, <2>1, <2>3, <3>1, <3>2, <3>3, <4>1
    <3>4. CASE next[f] # e
      BY <1>6, <1>9, <1>12, <3>1, <3>2, <3>4
    <3> QED BY <3>3, <3>4
  <2>4. ASSUME NEW f \in Used'
        PROVE  table'[Hash[busid'[f]]] = f \/ \E g \in Entries : next'[g] = f
    <3>1. f # e /\ f \in Used /\ busid'[f] = busid[f] /\ Hash[busid[f]] \in Buckets
      BY <1>1, <1>6, <1>9, DevMgrAssumption DEF Used, TypeOK
    <3>2. CASE table[Hash[busid[f]]] = f
      BY <1>6, <3>1, <3>2
    <3>3. CASE \E g \in Entries : next[g] = f
      <4>1. PICK g \in Entries : next[g] = f
        BY <3>3
      <4>2. CASE g # e
        BY <1>6, <3>1, <4>1, <4>2
      <4>3. CASE g = e
        <5>1. f \in Bucket(h) /\ next[e] = f
          <6>1. f # None /\ next[e] = f
            BY <1>1, <3>1, <4>1, <4>3 DEF Used
          <6> QED BY <2>1, <6>1
        <5>2. CASE table[h] = e
          BY <1>1, <1>6, <3>1, <5>1, <5>2 DEF Bucket
        <5>3. CASE table[h] # e
          <6>1. PICK k \in Entries : next[k] = e
            BY <1>1, <1>3, <1>9, <5>3 DEF LinkInv, h
          <6>2. next'[k] = f
            BY <1>5, <1>6, <5>1, <6>1
          <6> QED BY <6>2
        <5> QED BY <5>2, <5>3
      <4> QED BY <4>2, <4>3
    <3> QED BY <1>1, <3>1, <3>2, <3>3 DEF LinkInv
  <2> QED BY <2>2, <2>3, <2>4 DEF LinkInv
<1>14. OrderInv'
  <2>1. PICK pos \in [Entries -> Nat] : Orders(pos)
    BY <1>1 DEF OrderInv
  <2>2. ASSUME NEW f \in Entries, next'[f] # None PROVE pos[f] < pos[next'[f]]
    <3>1. f # e /\ next'[f] = IF next[f] = e THEN next[e] ELSE next[f]
      BY <1>6, <2>2
    <3>2. CASE next[f] # e
      BY <2>1, <2>2, <3>1, <3>2 DEF Orders
    <3>3. CASE next[f] = e
      <4>1. pos[f] < pos[e] /\ pos[e] < pos[next[e]] /\ next[e] \in Entries
        BY <1>1, <1>3, <1>7, <2>1, <2>2, <3>1, <3>3 DEF Orders
      <4>2. pos[f] \in Nat /\ pos[e] \in Nat /\ pos[next[e]] \in Nat
        BY <1>3, <4>1
      <4> QED BY <3>1, <3>3, <4>1, <4>2
    <3> QED BY <3>2, <3>3
  <2>3. Orders(pos)'
    BY <2>2 DEF Orders
  <2> QED BY <2>3 DEF OrderInv, Entries
<1>15. DriverInv'
  BY <1>1, <1>3 DEF DriverInv
<1> QED BY <1>10, <1>11, <1>13, <1>14, <1>15 DEF Linked

-----------------------------------------------------------------------------
(* Drivers.                                                                 *)

LEMMA RemoveAtFacts ==
  ASSUME NEW S, NEW s \in Seq(S), NEW i \in 1 .. Len(s)
  PROVE  /\ RemoveAt(s, i) \in Seq(S)
         /\ Len(RemoveAt(s, i)) = Len(s) - 1
         /\ \A j \in 1 .. Len(s) - 1 :
              RemoveAt(s, i)[j] = IF j < i THEN s[j] ELSE s[j + 1]
<1> DEFINE a == SubSeq(s, 1, i - 1)
           b == SubSeq(s, i + 1, Len(s))
<1>1. Len(s) \in Nat /\ \A j \in 1 .. Len(s) : s[j] \in S
  BY LenProperties, ElementOfSeq
<1>2. a \in Seq(S) /\ Len(a) = i - 1 /\ \A j \in 1 .. i - 1 : a[j] = s[j]
  <2>1. 1 \in Int /\ i - 1 \in Int /\ \A j \in 1 .. i - 1 : s[j] \in S
    BY <1>1
  <2>2. /\ a \in Seq(S) /\ Len(a) = IF 1 <= i - 1 THEN i - 1 - 1 + 1 ELSE 0
        /\ \A j \in 1 .. i - 1 - 1 + 1 : a[j] = s[1 + j - 1]
    BY <2>1, SubSeqProperties
  <2> HIDE DEF a
  <2> QED BY <1>1, <2>2
<1>3. b \in Seq(S) /\ Len(b) = Len(s) - i /\ \A j \in 1 .. Len(s) - i : b[j] = s[i + j]
  <2> DEFINE m == i + 1
             n == Len(s)
  <2>1. m \in Int /\ n \in Int /\ \A j \in m .. n : s[j] \in S
    BY <1>1
  <2>2. /\ b \in Seq(S) /\ Len(b) = IF m <= n THEN n - m + 1 ELSE 0
        /\ \A j \in 1 .. n - m + 1 : b[j] = s[m + j - 1]
    <3> HIDE DEF m, n
    <3>1. /\ SubSeq(s, m, n) \in Seq(S)
          /\ Len(SubSeq(s, m, n)) = IF m <= n THEN n - m + 1 ELSE 0
          /\ \A j \in 1 .. n - m + 1 : SubSeq(s, m, n)[j] = s[m + j - 1]
      BY <2>1, SubSeqProperties
    <3> QED BY <3>1 DEF m, n
  <2> HIDE DEF b
  <2>3. \A j \in 1 .. Len(s) - i : j \in 1 .. n - m + 1 /\ m + j - 1 = i + j
    BY <1>1
  <2>4. Len(b) = Len(s) - i
    BY <1>1, <2>2
  <2> QED BY <2>2, <2>3, <2>4
<1> HIDE DEF a, b
<1>4. /\ a \o b \in Seq(S) /\ Len(a \o b) = Len(a) + Len(b)
      /\ \A j \in 1 .. Len(a) + Len(b) :
           (a \o b)[j] = IF j <= Len(a) THEN a[j] ELSE b[j - Len(a)]
  BY <1>2, <1>3, ConcatProperties
<1>5. RemoveAt(s, i) = a \o b
  BY DEF RemoveAt, a, b
<1>6. ASSUME NEW j \in 1 .. Len(s) - 1
      PROVE  (a \o b)[j] = IF j < i THEN s[j] ELSE s[j + 1]
  <2>1. (a \o b)[j] = IF j <= i - 1 THEN a[j] ELSE b[j - (i - 1)]
    BY <1>1, <1>2, <1>3, <1>4
  <2>2. CASE j < i
    BY <1>1, <1>2, <2>1, <2>2
  <2>3. CASE ~(j < i)
    <3>1. j - (i - 1) \in 1 .. Len(s) - i /\ i + (j - (i - 1)) = j + 1
      BY <1>1, <2>3
    <3>2. b[j - (i - 1)] = s[j + 1]
      BY <1>3, <3>1
    <3>3. ~(j <= i - 1)
      BY <1>1, <2>3
    <3> QED BY <2>1, <2>3, <3>2, <3>3
  <2> QED BY <2>2, <2>3
<1> QED BY <1>1, <1>2, <1>3, <1>4, <1>5, <1>6

LEMMA DriversLinked ==
  ASSUME Linked, NEW d \in Drivers, Register(d) \/ Unregister(d)
  PROVE  Linked'
<1>1. /\ TypeOK /\ LinkInv /\ OrderInv /\ CountInv /\ DriverInv
      /\ busid' = busid /\ owner' = owner /\ next' = next /\ table' = table
      /\ count' = count /\ ready' \subseteq Drivers
  BY DEF Linked, Register, Unregister, devices, TypeOK
<1>2. /\ drivers \in Seq(Drivers) /\ Len(drivers) \in Nat /\ Len(drivers) <= MaxDrivers
      /\ DOMAIN drivers = 1 .. Len(drivers) /\ MaxDrivers \in Nat
  BY <1>1, DevMgrAssumption, LenProperties DEF TypeOK
<1>3. /\ drivers' \in Seq(Drivers) /\ Len(drivers') <= MaxDrivers /\ DriverInv'
  <2>1. CASE Register(d)
    <3>1. /\ drivers' = Append(drivers, d) /\ Len(drivers) < MaxDrivers
          /\ \A i \in 1 .. Len(drivers) : drivers[i] # d
      BY <1>2, <2>1 DEF Register, Registered
    <3>2. /\ drivers' \in Seq(Drivers) /\ Len(drivers') = Len(drivers) + 1
          /\ \A i \in 1 .. Len(drivers) : drivers'[i] = drivers[i]
          /\ drivers'[Len(drivers) + 1] = d
      BY <1>2, <3>1, AppendProperties
    <3>3. DOMAIN drivers' = 1 .. Len(drivers) + 1
      BY <3>2, LenProperties
    <3>4. ASSUME NEW i \in DOMAIN drivers', NEW j \in DOMAIN drivers',
                 drivers'[i] = drivers'[j]
          PROVE  i = j
      <4>1. /\ i \in 1 .. Len(drivers) \/ i = Len(drivers) + 1
            /\ j \in 1 .. Len(drivers) \/ j = Len(drivers) + 1
        BY <1>2, <3>3
      <4> QED BY <1>1, <1>2, <3>1, <3>2, <3>4, <4>1 DEF DriverInv
    <3> QED BY <1>2, <3>1, <3>2, <3>4 DEF DriverInv
  <2>2. CASE Unregister(d)
    <3>1. PICK k \in 1 .. Len(drivers) : drivers' = RemoveAt(drivers, k)
      BY <1>2, <2>2 DEF Unregister
    <3>2. /\ drivers' \in Seq(Drivers) /\ Len(drivers') = Len(drivers) - 1
          /\ \A j \in 1 .. Len(drivers) - 1 :
               drivers'[j] = IF j < k THEN drivers[j] ELSE drivers[j + 1]
      BY <1>2, <3>1, RemoveAtFacts
    <3>3. DOMAIN drivers' = 1 .. Len(drivers) - 1
      BY <3>2, LenProperties
    <3>4. ASSUME NEW i \in DOMAIN drivers', NEW j \in DOMAIN drivers',
                 drivers'[i] = drivers'[j]
          PROVE  i = j
      <4>1. \A x \in 1 .. Len(drivers) - 1 :
              /\ x \in 1 .. Len(drivers) /\ x + 1 \in 1 .. Len(drivers)
        BY <1>2
      <4>2. \A x, y \in 1 .. Len(drivers) : drivers[x] = drivers[y] => x = y
        BY <1>1, <1>2 DEF DriverInv
      <4>3. PICK x \in 1 .. Len(drivers) :
              x = (IF i < k THEN i ELSE i + 1) /\ drivers'[i] = drivers[x]
        BY <3>2, <3>3, <4>1
      <4>4. PICK y \in 1 .. Len(drivers) :
              y = (IF j < k THEN j ELSE j + 1) /\ drivers'[j] = drivers[y]
        BY <3>2, <3>3, <4>1
      <4>5. x = y
        BY <3>4, <4>2, <4>3, <4>4
      <4>6. i \in Nat /\ j \in Nat /\ k \in Nat
        BY <1>2, <3>3
      <4> QED BY <4>3, <4>4, <4>5, <4>6
    <3> QED BY <1>2, <3>2, <3>4 DEF DriverInv
  <2> QED BY <2>1, <2>2
<1>4. TypeOK'
  BY <1>1, <1>3 DEF TypeOK, Entries
<1>5. LinkInv' /\ OrderInv' /\ CountInv'
  BY <1>1 DEF LinkInv, OrderInv, Orders, CountInv, Bucket, Used, Entries
<1> QED BY <1>3, <1>4, <1>5 DEF Linked

LEMMA LinkedNext == Linked /\ [Next]_vars => Linked'
<1> SUFFICES ASSUME Linked, [Next]_vars PROVE Linked'
  OBVIOUS
<1>1. CASE UNCHANGED vars
  <2>1. /\ busid' = busid /\ owner' = owner /\ next' = next /\ table' = table
        /\ count' = count /\ drivers' = drivers /\ ready' = ready
    BY <1>1 DEF vars
  <2> QED BY <2>1 DEF Linked, TypeOK, LinkInv, OrderInv, Orders, CountInv, DriverInv,
                      Bucket, Used, Entries
<1>2. CASE \E n \in Names, o \in Conns : Bind(n, o)
  BY <1>2, InsertLinked DEF Bind
<1>3. CASE \E n \in Names : SetBusy(n)
  BY <1>3, InsertLinked DEF SetBusy
<1>4. CASE \E n \in Names : Release(n)
  BY <1>4, ReleaseLinked
<1>5. CASE \E d \in Drivers : Register(d) \/ Unregister(d)
  BY <1>5, DriversLinked
<1> QED BY <1>1, <1>2, <1>3, <1>4, <1>5 DEF Next

LEMMA LinkedAlways == Spec => []Linked
BY LinkedInit, LinkedNext, PTL DEF Spec

-----------------------------------------------------------------------------
(* Chains, pool and counter agree.                                          *)

LEMMA LinkedSound == Linked => TableSound
<1> SUFFICES ASSUME Linked PROVE TableSound
  OBVIOUS
<1>1. TypeOK /\ LinkInv /\ OrderInv /\ CountInv
  BY DEF Linked
<1>2. Entries \ FreeEntries = Used
  BY DEF FreeEntries, Used
<1>3. \A b \in Buckets : Link(b)[Capacity] = None /\ Chain(b) = Bucket(b)
  BY <1>1, ChainFacts
<1>4. \A b \in Buckets : \A e \in Bucket(b) : busid[e] \in Names /\ Hash[busid[e]] = b
  BY <1>1 DEF Bucket, Used, TypeOK
<1>5. UNION {Bucket(b) : b \in Buckets} = Used
  <2>1. \A e \in Used : Hash[busid[e]] \in Buckets /\ e \in Bucket(Hash[busid[e]])
    BY <1>1, DevMgrAssumption DEF Bucket, Used, TypeOK
  <2> QED BY <2>1 DEF Bucket
<1>6. UNION {Chain(b) : b \in Buckets} = UNION {Bucket(b) : b \in Buckets}
  BY <1>3
<1>7. /\ \A e, f \in Used : busid[e] = busid[f] => e = f
      /\ count = Cardinality(Used)
  BY <1>1 DEF CountInv
<1>8. \A b \in Buckets : \A e \in Chain(b) : busid[e] \in Names /\ Hash[busid[e]] = b
  BY <1>3, <1>4
<1> DEFINE U == Entries \ FreeEntries
<1>9. /\ UNION {Chain(b) : b \in Buckets} = U
      /\ \A e, f \in U : busid[e] = busid[f] => e = f
      /\ count = Cardinality(U)
  BY <1>2, <1>5, <1>6, <1>7
<1> QED BY <1>3, <1>8, <1>9 DEF TableSound

(* The chains end and hold exactly the entries in use, each in the chain of *)
(* its bus id, no bus id twice, and the counter is their number, whatever   *)
(* is bound and released in whatever order (usbip_devmgr.c:143-224).        *)
THEOREM TableIsSound == Spec => []TableSound
BY LinkedAlways, LinkedSound, PTL

-----------------------------------------------------------------------------
(* The map from bus ids to owners.                                          *)

Reg == [n \in Names |-> IF Find(n) = None THEN None ELSE Entry(n)]

(* What lookups find, in terms of the entries.                              *)
Finds ==
  \A n \in Names :
    /\ Find(n) = None <=> \A e \in Entries : busid[e] # n
    /\ Find(n) # None => Find(n) \in Entries /\ busid[Find(n)] = n

LEMMA LinkedFinds == Linked => Finds
BY FindFacts DEF Linked, Finds

(* An entry is never mistaken for none.                                     *)
LEMMA EntryFacts ==
  ASSUME TypeOK, Finds, NEW n \in Names
  PROVE  Reg[n] = None <=> Find(n) = None
<1>1. CASE Find(n) = None
  BY <1>1 DEF Reg
<1>2. CASE Find(n) # None
  <2>1. owner[Find(n)] \in Conns \cup {None}
    BY <1>2 DEF Finds, TypeOK
  <2>2. None \notin Conns /\ NoOwner # None
    BY DevMgrAssumption DEF NoOwner
  <2>3. Entry(n) # None
    BY <2>1, <2>2 DEF Entry
  <2> QED BY <1>2, <2>3 DEF Reg
<1> QED BY <1>1, <1>2

(* The counter is the number of devices in the map.                         *)
LEMMA RegCount ==
  ASSUME Linked, Finds
  PROVE  Cardinality({n \in Names : Reg[n] # None}) = count
<1> DEFINE S == {n \in Names : Reg[n] # None}
           f == [e \in Used |-> busid[e]]
<1>1. TypeOK /\ CountInv
  BY DEF Linked
<1>2. ASSUME NEW e \in Used PROVE busid[e] \in S
  <2>1. busid[e] \in Names /\ e \in Entries
    BY <1>1 DEF Used, TypeOK
  <2>2. Find(busid[e]) # None
    BY <2>1 DEF Finds
  <2> QED BY <1>1, <2>1, <2>2, EntryFacts
<1>3. ASSUME NEW n \in S PROVE \E e \in Used : busid[e] = n
  <2>1. Find(n) \in Entries /\ busid[Find(n)] = n
    BY <1>1, EntryFacts DEF Finds
  <2> QED BY <2>1, DevMgrAssumption DEF Used
<1>4. f \in Bijection(Used, S)
  <2>1. f \in [Used -> S]
    BY <1>2
  <2>2. \A e, g \in Used : f[e] = f[g] => e = g
    BY <1>1 DEF CountInv
  <2>3. \A n \in S : \E e \in Used : f[e] = n
    BY <1>3
  <2> HIDE DEF f, S
  <2> QED BY <2>1, <2>2, <2>3, Fun_IsBij
<1>5. Cardinality(S) = Cardinality(Used)
  <2> HIDE DEF f, S
  <2>1. ExistsBijection(Used, S)
    BY <1>4 DEF ExistsBijection
  <2> QED BY <2>1, UsedFinite, FS_Bijection
<1> QED BY <1>1, <1>5 DEF CountInv

(* A new entry is found under its bus id, and changes nothing else.         *)
LEMMA InsertReg ==
  ASSUME Linked, Finds, Linked', Finds', NEW n \in Names, NEW o \in Conns \cup {None},
         Find(n) = None, Insert(n, o)
  PROVE  /\ Reg[n] = None /\ Cardinality({d \in Names : Reg[d] # None}) < Capacity
         /\ Reg' = [Reg EXCEPT ![n] = IF o = None THEN NoOwner ELSE o]
<1>1. TypeOK /\ CountInv /\ TypeOK' /\ CountInv'
  BY DEF Linked
<1>2. PICK e : e = Alloc
  OBVIOUS
<1>3. /\ e \in Entries /\ busid[e] = None /\ count < Capacity
      /\ \A f \in Entries : busid'[f] = IF f = e THEN n ELSE busid[f]
      /\ \A f \in Entries : owner'[f] = IF f = e THEN o ELSE owner[f]
  BY <1>1, <1>2, AllocFacts DEF Insert, CanAlloc, TypeOK
<1>4. n # None /\ \A f \in Entries : busid[f] # n
  BY DevMgrAssumption DEF Finds
<1>5. Entries' = Entries
  BY DEF Entries
<1>6. ASSUME NEW m \in Names
      PROVE  Reg'[m] = IF m = n THEN (IF o = None THEN NoOwner ELSE o) ELSE Reg[m]
  <2>1. PICK g : g = Find(m)'
    OBVIOUS
  <2>2. /\ g = None <=> \A f \in Entries : busid'[f] # m
        /\ g # None => g \in Entries /\ busid'[g] = m
    BY <1>5, <2>1 DEF Finds
  <2>3. Reg'[m] = IF g = None THEN None
                  ELSE IF owner'[g] = None THEN NoOwner ELSE owner'[g]
    BY <2>1 DEF Reg, Entry, NoOwner
  <2>4. CASE m = n
    <3>1. g = e
      BY <1>3, <1>4, <2>2, <2>4
    <3>2. g # None
      BY <1>3, <2>2, <2>4
    <3> QED BY <1>3, <2>3, <2>4, <3>1, <3>2
  <2>5. CASE m # n
    <3>1. m # None
      BY DevMgrAssumption
    <3>2. \A f \in Entries : busid'[f] = m <=> (busid[f] = m /\ f # e)
      BY <1>3, <2>5, <3>1
    <3>3. g = None <=> Find(m) = None
      BY <1>3, <2>2, <3>1, <3>2 DEF Finds
    <3>4. CASE g = None
      BY <2>3, <2>5, <3>3, <3>4 DEF Reg
    <3>5. CASE g # None
      <4>1. Find(m) \in Entries /\ busid[Find(m)] = m /\ g \in Entries /\ busid[g] = m
            /\ g # e
        BY <2>2, <3>2, <3>3, <3>5 DEF Finds
      <4>2. g = Find(m)
        BY <1>1, <3>1, <4>1 DEF CountInv, Used
      <4>3. owner'[g] = owner[g]
        BY <1>3, <4>1
      <4> QED BY <2>3, <2>5, <3>3, <3>5, <4>2, <4>3 DEF Reg, Entry
    <3> QED BY <3>4, <3>5
  <2> QED BY <2>4, <2>5
<1>7. Reg' = [Reg EXCEPT ![n] = IF o = None THEN NoOwner ELSE o]
  <2>1. Reg' = [m \in Names |-> Reg'[m]] /\ Reg = [m \in Names |-> Reg[m]]
    BY DEF Reg
  <2> QED BY <1>6, <2>1
<1>8. Reg[n] = None
  BY <1>1, EntryFacts
<1>9. Cardinality({d \in Names : Reg[d] # None}) < Capacity
  BY <1>3, RegCount
<1> QED BY <1>7, <1>8, <1>9

(* A released entry is found no more, and the others are.                   *)
LEMMA ReleaseReg ==
  ASSUME Linked, Finds, Linked', Finds', NEW n \in Names, Release(n)
  PROVE  Reg' = [Reg EXCEPT ![n] = None]
<1>1. TypeOK /\ CountInv /\ TypeOK' /\ CountInv'
  BY DEF Linked
<1>2. PICK e : e = Find(n)
  OBVIOUS
<1>3. /\ e \in Entries /\ busid[e] = n
      /\ \A f \in Entries : busid'[f] = IF f = e THEN None ELSE busid[f]
      /\ \A f \in Entries : owner'[f] = IF f = e THEN None ELSE owner[f]
  BY <1>1, <1>2 DEF Release, TypeOK, Finds
<1>4. n # None
  BY DevMgrAssumption
<1>5. Entries' = Entries
  BY DEF Entries
<1>6. ASSUME NEW m \in Names
      PROVE  Reg'[m] = IF m = n THEN None ELSE Reg[m]
  <2>1. PICK g : g = Find(m)'
    OBVIOUS
  <2>2. /\ g = None <=> \A f \in Entries : busid'[f] # m
        /\ g # None => g \in Entries /\ busid'[g] = m
    BY <1>5, <2>1 DEF Finds
  <2>3. Reg'[m] = IF g = None THEN None
                  ELSE IF owner'[g] = None THEN NoOwner ELSE owner'[g]
    BY <2>1 DEF Reg, Entry, NoOwner
  <2>4. m # None
    BY DevMgrAssumption
  <2>5. CASE m = n
    <3>1. \A f \in Entries : busid'[f] # n
      BY <1>1, <1>3, <1>4 DEF CountInv, Used
    <3> QED BY <2>2, <2>3, <2>5, <3>1
  <2>6. CASE m # n
    <3>1. \A f \in Entries : busid'[f] = m <=> busid[f] = m
      BY <1>3, <2>4, <2>6
    <3>2. g = None <=> Find(m) = None
      BY <2>2, <3>1 DEF Finds
    <3>3. CASE g = None
      BY <2>3, <2>6, <3>2, <3>3 DEF Reg
    <3>4. CASE g # None
      <4>1. Find(m) \in Entries /\ busid[Find(m)] = m /\ g \in Entries /\ busid[g] = m
        BY <2>2, <3>1, <3>2, <3>4 DEF Finds
      <4>2. g = Find(m)
        BY <1>1, <2>4, <4>1 DEF CountInv, Used
      <4>3. owner'[g] = owner[g]
        BY <1>3, <2>6, <4>1
      <4> QED BY <2>3, <2>6, <3>2, <3>4, <4>2, <4>3 DEF Reg, Entry
    <3> QED BY <3>3, <3>4
  <2> QED BY <2>5, <2>6
<1>7. Reg' = [m \in Names |-> Reg'[m]] /\ Reg = [m \in Names |-> Reg[m]]
  BY DEF Reg
<1> QED BY <1>6, <1>7

LEMMA RegistryInit == Init /\ Finds => Registry!Init
<1> SUFFICES ASSUME Init, Finds PROVE Registry!Init
  OBVIOUS
<1>1. \A n \in Names : Find(n) = None
  BY DevMgrAssumption DEF Finds, Init
<1> QED BY <1>1 DEF Registry!Init

LEMMA RegistryStep ==
  Linked /\ Finds /\ Linked' /\ Finds' /\ [Next]_vars
    => Registry!Next \/ Reg' = Reg
<1> SUFFICES ASSUME Linked, Finds, Linked', Finds', [Next]_vars
             PROVE  Registry!Next \/ Reg' = Reg
  OBVIOUS
<1>0. \A S : Registry!Cardinality(S) = Cardinality(S)
  BY DEF Registry!Cardinality, Cardinality
<1>1. ASSUME NEW n \in Names, NEW o \in Conns, Bind(n, o) PROVE Registry!Next
  <2>1. /\ Reg[n] = None /\ Cardinality({d \in Names : Reg[d] # None}) < Capacity
        /\ Reg' = [Reg EXCEPT ![n] = IF o = None THEN NoOwner ELSE o]
    BY <1>1, InsertReg DEF Bind
  <2>2. o # None
    BY DevMgrAssumption
  <2>3. Reg' = [Reg EXCEPT ![n] = o]
    BY <2>1, <2>2
  <2>4. Registry!Available(n)
    BY <2>1 DEF Registry!Available, Reg
  <2>5. Registry!Room
    BY <1>0, <2>1 DEF Registry!Room, Reg
  <2>6. Registry!Bind(n, o)
    BY <2>3, <2>4, <2>5 DEF Registry!Bind, Registry!CanBind, Reg
  <2> QED BY <2>6 DEF Registry!Next
<1>2. ASSUME NEW n \in Names, SetBusy(n) PROVE Registry!Next
  <2>1. /\ Reg[n] = None /\ Cardinality({d \in Names : Reg[d] # None}) < Capacity
        /\ Reg' = [Reg EXCEPT ![n] = NoOwner]
    BY <1>2, InsertReg DEF SetBusy
  <2>2. Registry!Available(n)
    BY <2>1 DEF Registry!Available, Reg
  <2>3. Registry!Room
    BY <1>0, <2>1 DEF Registry!Room, Reg
  <2>4. Registry!SetBusy(n)
    BY <2>1, <2>2, <2>3 DEF Registry!SetBusy, Registry!CanBind, Reg
  <2> QED BY <2>4 DEF Registry!Next
<1>3. ASSUME NEW n \in Names, Release(n) PROVE Registry!Next
  <2>1. Registry!Release(n)
    BY <1>3, ReleaseReg DEF Registry!Release, Reg
  <2> QED BY <2>1 DEF Registry!Next
<1>4. ASSUME UNCHANGED devices PROVE Reg' = Reg
  <2>1. UNCHANGED <<busid, owner, next, table>>
    BY <1>4 DEF devices
  <2> QED BY <2>1 DEF Reg, Entry, Find, Link, NoOwner
<1>5. CASE UNCHANGED vars
  BY <1>4, <1>5 DEF vars, devices
<1>6. CASE \E d \in Drivers : Register(d) \/ Unregister(d)
  BY <1>4, <1>6 DEF Register, Unregister
<1> QED BY <1>1, <1>2, <1>3, <1>5, <1>6 DEF Next

(* The hash table implements the map: every call changes what is found for  *)
(* its own bus id and for no other, and a bind succeeds only for a device   *)
(* that is available and when there is room (usbip_devmgr.c:490-662).       *)
THEOREM RefinesRegistry == Spec => ImplementsRegistry
<1>1. Init /\ Finds => Registry!Init
  BY RegistryInit
<1>2. Linked /\ Finds /\ Linked' /\ Finds' /\ [Next]_vars
        => [Registry!Next]_([n \in Names |-> IF Find(n) = None THEN None ELSE Entry(n)])
  BY RegistryStep DEF Reg
<1> QED BY <1>1, <1>2, LinkedAlways, LinkedFinds, PTL
        DEF Spec, ImplementsRegistry, Registry!Spec

-----------------------------------------------------------------------------
(* The devices on offer.                                                    *)

(* The devices of each driver, in the order of the drivers.                 *)
Parts == [k \in DOMAIN drivers |-> DevicesOf[drivers[k]]]

(* No device belongs to two drivers, and no driver is there twice.          *)
LEMMA PartsFacts ==
  ASSUME TypeOK, DriverInv
  PROVE  /\ DOMAIN Parts = 1 .. Len(Parts) /\ Len(Parts) \in Nat
         /\ \A i \in 1 .. Len(Parts) : Parts[i] \in Seq(Names)
         /\ \A i, k \in 1 .. Len(Parts) :
              \A j \in DOMAIN Parts[i], l \in DOMAIN Parts[k] :
                Parts[i][j] = Parts[k][l] => i = k /\ j = l
<1>1. /\ drivers \in Seq(Drivers) /\ Len(drivers) \in Nat
      /\ DOMAIN drivers = 1 .. Len(drivers)
      /\ \A i \in 1 .. Len(drivers) : drivers[i] \in Drivers
  BY LenProperties, ElementOfSeq DEF TypeOK
<1>2. \A i \in 1 .. Len(drivers) : Parts[i] = DevicesOf[drivers[i]] /\ Parts[i] \in Seq(Names)
  BY <1>1, DevicesOfAssumption DEF Parts
<1>3. Len(Parts) = Len(drivers) /\ DOMAIN Parts = 1 .. Len(Parts)
  <2>1. Parts = [i \in 1 .. Len(drivers) |-> Parts[i]]
    BY <1>1 DEF Parts
  <2>2. Parts \in Seq(Seq(Names))
    BY <1>1, <1>2, <2>1
  <2> QED BY <1>1, <2>1, <2>2, LenProperties
<1>4. ASSUME NEW i \in 1 .. Len(drivers), NEW k \in 1 .. Len(drivers),
             NEW j \in DOMAIN Parts[i], NEW l \in DOMAIN Parts[k],
             Parts[i][j] = Parts[k][l]
      PROVE  i = k /\ j = l
  <2>1. drivers[i] = drivers[k] /\ j = l
    BY <1>1, <1>2, <1>4, DevicesOfAssumption
  <2> QED BY <1>1, <2>1 DEF DriverInv
<1> QED BY <1>1, <1>2, <1>3, <1>4

LEMMA FlatExists ==
  ASSUME Len(Parts) \in Nat
  PROVE  \E g : g = [i \in 1 .. Len(Parts) |->
                       IF i = 1 THEN Parts[i] ELSE g[i - 1] \o Parts[i]]
<1> DEFINE St(i, x) == IF i = 1 THEN Parts[i] ELSE x \o Parts[i]
           T == {n \in Nat : \E g : g = [i \in 1 .. n |-> St(i, g[i - 1])]}
           m == Len(Parts)
<1> HIDE DEF m
<1>1. 0 \in T
  <2> DEFINE g == [i \in 1 .. 0 |-> 0]
  <2> HIDE DEF St
  <2>1. g = [i \in 1 .. 0 |-> St(i, g[i - 1])]
    OBVIOUS
  <2> QED BY <2>1
<1>2. ASSUME NEW n \in 0 .. m, n + 1 \in 0 .. m, n \in T
      PROVE  n + 1 \in T
  <2> HIDE DEF St
  <2>1. PICK g : g = [i \in 1 .. n |-> St(i, g[i - 1])]
    BY <1>2
  <2>2. \A i \in 1 .. n : g[i] = St(i, g[i - 1])
    BY <2>1
  <2> DEFINE h == [i \in 1 .. n + 1 |-> IF i = n + 1 THEN St(i, g[n]) ELSE g[i]]
  <2>3. \A i \in 1 .. n : h[i] = g[i]
    OBVIOUS
  <2>4. h[n + 1] = St(n + 1, g[n])
    OBVIOUS
  <2>5. ASSUME NEW i \in 1 .. n + 1 PROVE h[i] = St(i, h[i - 1])
    <3>1. CASE i = n + 1 /\ n # 0
      <4>1. n \in 1 .. n /\ i - 1 = n
        BY <3>1
      <4> QED BY <2>3, <2>4, <3>1, <4>1
    <3>2. CASE i = 1
      <4>1. h[i] = St(i, IF n = 0 THEN g[n] ELSE g[i - 1])
        <5>1. CASE n = 0
          BY <2>4, <3>2, <5>1
        <5>2. CASE n # 0
          <6>1. i \in 1 .. n
            BY <3>2, <5>2
          <6> QED BY <2>2, <2>3, <5>2, <6>1
        <5> QED BY <5>1, <5>2
      <4> HIDE DEF h
      <4> QED BY <3>2, <4>1 DEF St
    <3>3. CASE i # 1 /\ i # n + 1
      <4>1. i \in 1 .. n /\ i - 1 \in 1 .. n
        BY <3>3
      <4> QED BY <2>2, <2>3, <4>1
    <3>4. (i = n + 1 /\ n # 0) \/ i = 1 \/ (i # 1 /\ i # n + 1)
      OBVIOUS
    <3> QED BY <3>1, <3>2, <3>3, <3>4
  <2>6. h = [i \in 1 .. n + 1 |-> h[i]]
    OBVIOUS
  <2> HIDE DEF h
  <2>7. h = [i \in 1 .. n + 1 |-> St(i, h[i - 1])]
    BY <2>5, <2>6
  <2> QED BY <2>7
<1>3. m \in Nat /\ m \in 0 .. m
  BY DEF m
<1>4. m \in T
  <2> HIDE DEF T
  <2>1. 0 .. m \subseteq T
    BY <1>1, <1>2, <1>3, Induction
  <2> QED BY <1>3, <2>1
<1> QED BY <1>4 DEF m

(* No device is offered twice.                                              *)
LEMMA OfferedFacts ==
  ASSUME TypeOK, DriverInv
  PROVE  /\ Offered \in Seq(Names) /\ Len(Offered) \in Nat
         /\ DOMAIN Offered = 1 .. Len(Offered)
         /\ \A i, j \in DOMAIN Offered : Offered[i] = Offered[j] => i = j
<1>1. /\ DOMAIN Parts = 1 .. Len(Parts) /\ Len(Parts) \in Nat
      /\ \A i \in 1 .. Len(Parts) : Parts[i] \in Seq(Names)
      /\ \A i, k \in 1 .. Len(Parts) :
           \A j \in DOMAIN Parts[i], l \in DOMAIN Parts[k] :
             Parts[i][j] = Parts[k][l] => i = k /\ j = l
  BY PartsFacts
<1> DEFINE flatten[i \in 1 .. Len(Parts)] ==
             IF i = 1 THEN Parts[i] ELSE flatten[i - 1] \o Parts[i]
<1>2. flatten = [i \in 1 .. Len(Parts) |->
                   IF i = 1 THEN Parts[i] ELSE flatten[i - 1] \o Parts[i]]
  BY <1>1, FlatExists
<1>3. Offered = FlattenSeq(Parts)
  BY DEF Offered, Parts
<1>4. Offered = IF Len(Parts) = 0 THEN Parts ELSE flatten[Len(Parts)]
  BY <1>3 DEF FlattenSeq
<1> HIDE DEF flatten
<1>5. \A i \in 1 .. Len(Parts) :
        flatten[i] = IF i = 1 THEN Parts[i] ELSE flatten[i - 1] \o Parts[i]
  BY <1>2
<1>n. \A n \in 0 .. Len(Parts) :
        n + 1 \in 0 .. Len(Parts) => n + 1 \in 1 .. Len(Parts)
  BY <1>1
<1> DEFINE F(n) == /\ flatten[n] \in Seq(Names)
                   /\ \A p \in DOMAIN flatten[n] : \E i \in 1 .. n :
                        \E j \in DOMAIN Parts[i] : flatten[n][p] = Parts[i][j]
                   /\ \A p, q \in DOMAIN flatten[n] :
                        flatten[n][p] = flatten[n][q] => p = q
           T == {n \in 0 .. Len(Parts) : n = 0 \/ F(n)}
<1>6. ASSUME NEW n \in 0 .. Len(Parts), n + 1 \in 0 .. Len(Parts), n \in T
      PROVE  n + 1 \in T
  <2>1. n + 1 \in 1 .. Len(Parts)
    BY <1>6, <1>n
  <2>2. CASE n = 0
    <3>1. flatten[n + 1] = Parts[1] /\ n + 1 = 1 /\ 1 \in 1 .. Len(Parts)
      BY <1>5, <2>1, <2>2
    <3> QED BY <1>1, <1>6, <3>1
  <2>3. CASE n # 0
    <3> DEFINE a == flatten[n]
               c == Parts[n + 1]
    <3>1. F(n) /\ n \in 1 .. Len(Parts) /\ n + 1 # 1 /\ (n + 1) - 1 = n
      BY <1>1, <1>6, <2>3
    <3>2. flatten[n + 1] = a \o c
      BY <1>5, <2>1, <3>1
    <3>3. a \in Seq(Names) /\ c \in Seq(Names)
      BY <1>1, <2>1, <3>1
    <3>4. \A p \in DOMAIN a : \E i \in 1 .. n : \E j \in DOMAIN Parts[i] : a[p] = Parts[i][j]
      BY <3>1
    <3>5. \A p, q \in DOMAIN a : a[p] = a[q] => p = q
      BY <3>1
    <3>6. \A p, q \in DOMAIN c : c[p] = c[q] => p = q
      BY <1>1, <2>1
    <3>7. ASSUME NEW p \in DOMAIN a, NEW q \in DOMAIN c PROVE a[p] # c[q]
      <4>1. PICK i \in 1 .. n : \E j \in DOMAIN Parts[i] : a[p] = Parts[i][j]
        BY <3>4
      <4>2. i \in 1 .. Len(Parts) /\ i # n + 1
        BY <1>1, <3>1
      <4> QED BY <1>1, <2>1, <4>1, <4>2
    <3> DEFINE d == a \o c
    <3>8. /\ d \in Seq(Names) /\ Len(d) = Len(a) + Len(c)
          /\ \A p \in 1 .. Len(a) + Len(c) :
               d[p] = IF p <= Len(a) THEN a[p] ELSE c[p - Len(a)]
      BY <3>3, ConcatProperties
    <3>9. /\ Len(a) \in Nat /\ DOMAIN a = 1 .. Len(a)
          /\ Len(c) \in Nat /\ DOMAIN c = 1 .. Len(c)
          /\ DOMAIN d = 1 .. Len(a) + Len(c)
      BY <3>3, <3>8, LenProperties
    <3> HIDE DEF a, d, F
    <3>10. ASSUME NEW p \in DOMAIN d
           PROVE  \/ p \in DOMAIN a /\ d[p] = a[p]
                  \/ \E r \in DOMAIN c : p = Len(a) + r /\ d[p] = c[r]
      <4>1. CASE p <= Len(a)
        BY <3>8, <3>9, <4>1
      <4>2. CASE ~(p <= Len(a))
        <5>1. p - Len(a) \in DOMAIN c /\ p = Len(a) + (p - Len(a))
          BY <3>9, <4>2
        <5> QED BY <3>8, <3>9, <4>2, <5>1
      <4> QED BY <4>1, <4>2
    <3>11. \A p \in DOMAIN d : \E i \in 1 .. n + 1 : \E j \in DOMAIN Parts[i] :
             d[p] = Parts[i][j]
      <4>1. \A i \in 1 .. n : i \in 1 .. n + 1
        OBVIOUS
      <4>2. n + 1 \in 1 .. n + 1
        BY <3>1
      <4> QED BY <3>4, <3>10, <4>1, <4>2
    <3>12. ASSUME NEW p \in DOMAIN d, NEW q \in DOMAIN d, d[p] = d[q] PROVE p = q
      BY <3>5, <3>6, <3>7, <3>10, <3>12
    <3>13. flatten[n + 1] = d
      BY <3>2 DEF a, d
    <3>14. F(n + 1)
      BY <3>8, <3>11, <3>12, <3>13 DEF F
    <3> QED BY <1>6, <3>14
  <2> QED BY <2>2, <2>3
<1>7. CASE Len(Parts) = 0
  <2>1. Offered = Parts /\ DOMAIN Parts = {}
    BY <1>1, <1>4, <1>7
  <2>2. Parts = <<>>
    BY <1>1, <1>7, <2>1 DEF Parts
  <2> QED BY <2>1, <2>2
<1>8. CASE Len(Parts) # 0
  <2> DEFINE m == Len(Parts)
  <2>1. 0 \in T /\ m \in Nat /\ m \in 0 .. m
    BY <1>1
  <2>2. m \in T
    <3> HIDE DEF T
    <3>1. 0 .. m \subseteq T
      BY <1>6, <2>1, Induction
    <3> QED BY <2>1, <3>1
  <2>3. F(m)
    BY <1>8, <2>2
  <2>4. Offered = flatten[m]
    BY <1>4, <1>8
  <2> QED BY <2>3, <2>4, LenProperties
<1> QED BY <1>7, <1>8

-----------------------------------------------------------------------------
(* The device list.                                                         *)

(* The positions whose device is available, behind and ahead of the loop.   *)
Open == {k \in DOMAIN Offered : \A e \in Entries : busid[e] # Offered[k]}
Behind == {k \in Open : k < at}
Ahead == {k \in Open : at <= k}

(* What was announced is there still: sent already, or available and ahead. *)
WalkInv ==
  /\ pc \in {"idle", "count", "announce", "list", "done"}
  /\ at \in Nat \ {0} /\ announced \in Nat /\ sent \in Seq(Names)
  /\ pc = "count" => announced <= Cardinality(Behind)
  /\ pc = "announce" => announced <= Cardinality(Open) /\ at = 1
  /\ pc = "list" => announced <= Len(sent) + Cardinality(Ahead)
  /\ pc = "done" => announced <= Len(sent)

(* What was sent are devices behind the loop.                               *)
SentInv ==
  /\ pc \in {"idle", "count", "announce"} => sent = <<>>
  /\ pc = "list" => \A p \in DOMAIN sent : \E k \in DOMAIN Offered :
                      k < at /\ sent[p] = Offered[k]
  /\ \A p, q \in DOMAIN sent : sent[p] = sent[q] => p = q

(* What the walk is about.                                                  *)
LEMMA OpenFacts ==
  ASSUME Linked, Finds, at \in Nat
  PROVE  /\ IsFiniteSet(Open) /\ Cardinality(Open) \in Nat
         /\ IsFiniteSet(Behind) /\ Cardinality(Behind) \in Nat
         /\ IsFiniteSet(Ahead) /\ Cardinality(Ahead) \in Nat
         /\ Listed <=> at \in Open
         /\ \A k \in Open : k \in Nat /\ 1 <= k /\ k <= Len(Offered)
<1>1. /\ Offered \in Seq(Names) /\ Len(Offered) \in Nat
      /\ DOMAIN Offered = 1 .. Len(Offered)
  BY OfferedFacts DEF Linked
<1>2. IsFiniteSet(DOMAIN Offered)
  BY <1>1, FS_Interval
<1>3. Open \subseteq DOMAIN Offered /\ Behind \subseteq DOMAIN Offered
      /\ Ahead \subseteq DOMAIN Offered
  BY DEF Open, Behind, Ahead
<1>4. Listed <=> at \in Open
  <2>1. ASSUME at \in DOMAIN Offered
        PROVE  Find(Offered[at]) = None <=> \A e \in Entries : busid[e] # Offered[at]
    <3>1. Offered[at] \in Names
      BY <1>1, <2>1, ElementOfSeq
    <3> QED BY <3>1 DEF Finds
  <2> QED BY <2>1 DEF Listed, Available, Open
<1>5. \A k \in Open : k \in Nat /\ 1 <= k /\ k <= Len(Offered)
  BY <1>1, <1>3
<1> QED BY <1>2, <1>3, <1>4, <1>5, FS_Subset, FS_CardinalityType

LEMMA WalkInit == ListInit => WalkInv /\ SentInv
<1> SUFFICES ASSUME ListInit PROVE WalkInv /\ SentInv
  OBVIOUS
<1>1. sent \in Seq(Names) /\ DOMAIN sent = {}
  BY EmptySeq DEF ListInit
<1> QED BY <1>1 DEF ListInit, WalkInv, SentInv

(* A device that is given back is one more that is available.               *)
LEMMA GiveBackWalk ==
  ASSUME Linked, Finds, WalkInv, SentInv, GiveBack
  PROVE  WalkInv' /\ SentInv'
<1>1. PICK n \in Names : Release(n)
  BY DEF GiveBack
<1>2. /\ busid' = [busid EXCEPT ![Find(n)] = None] /\ drivers' = drivers
      /\ pc' = pc /\ at' = at /\ announced' = announced /\ sent' = sent
  BY <1>1 DEF Release, GiveBack, walk
<1>3. Offered' = Offered
  BY <1>2 DEF Offered
<1>4. /\ Offered \in Seq(Names) /\ Len(Offered) \in Nat
      /\ DOMAIN Offered = 1 .. Len(Offered)
  BY OfferedFacts DEF Linked
<1>5. Open \subseteq Open'
  <2>1. ASSUME NEW k \in Open PROVE k \in Open'
    <3>1. k \in DOMAIN Offered /\ \A e \in Entries : busid[e] # Offered[k]
      BY DEF Open
    <3>2. Offered[k] \in Names /\ Offered[k] # None
      BY <1>4, <3>1, ElementOfSeq, DevMgrAssumption
    <3>3. busid \in [Entries -> Names \cup {None}]
      BY DEF Linked, TypeOK
    <3>4. \A e \in Entries : busid'[e] # Offered[k]
      BY <1>2, <3>1, <3>2, <3>3
    <3> QED BY <1>3, <3>1, <3>4 DEF Open, Entries
  <2> QED BY <2>1
<1>6. /\ Open' \subseteq DOMAIN Offered /\ Behind \subseteq Behind' /\ Ahead \subseteq Ahead'
      /\ Behind' \subseteq DOMAIN Offered /\ Ahead' \subseteq DOMAIN Offered
  BY <1>2, <1>3, <1>5 DEF Open, Behind, Ahead
<1>7. IsFiniteSet(DOMAIN Offered)
  BY <1>4, FS_Interval
<1>8. /\ IsFiniteSet(Open') /\ IsFiniteSet(Behind') /\ IsFiniteSet(Ahead')
  BY <1>6, <1>7, FS_Subset
<1>9. /\ Cardinality(Open) <= Cardinality(Open')
      /\ Cardinality(Behind) <= Cardinality(Behind')
      /\ Cardinality(Ahead) <= Cardinality(Ahead')
  BY <1>5, <1>6, <1>8, FS_Subset
<1>10. /\ Cardinality(Open') \in Nat /\ Cardinality(Behind') \in Nat
       /\ Cardinality(Ahead') \in Nat
  BY <1>8, FS_CardinalityType
<1>11. /\ Cardinality(Open) \in Nat /\ Cardinality(Behind) \in Nat
       /\ Cardinality(Ahead) \in Nat
  BY OpenFacts DEF WalkInv
<1>12. Len(sent) \in Nat /\ sent \in Seq(Names)
  BY LenProperties DEF WalkInv
<1>13. WalkInv'
  BY <1>2, <1>9, <1>10, <1>11, <1>12 DEF WalkInv
<1>14. SentInv'
  BY <1>2, <1>3 DEF SentInv
<1> QED BY <1>13, <1>14

LEMMA CountWalk ==
  ASSUME Linked, Finds, WalkInv, SentInv, Count
  PROVE  WalkInv' /\ SentInv'
<1>1. /\ pc = "count" /\ sent = <<>> /\ sent \in Seq(Names) /\ DOMAIN sent = {}
      /\ at \in Nat \ {0} /\ announced \in Nat /\ announced <= Cardinality(Behind)
      /\ UNCHANGED <<busid, drivers, sent>>
      /\ announced' = announced + (IF Listed THEN 1 ELSE 0)
      /\ IF at < Len(Offered) THEN at' = at + 1 /\ pc' = "count"
         ELSE at' = 1 /\ pc' = "announce"
  BY EmptySeq DEF Count, Advance, WalkInv, SentInv, vars
<1>2. /\ IsFiniteSet(Behind) /\ Cardinality(Behind) \in Nat
      /\ Listed <=> at \in Open
      /\ \A k \in Open : k \in Nat /\ 1 <= k /\ k <= Len(Offered)
  BY <1>1, OpenFacts
<1>3. Len(Offered) \in Nat
  BY OfferedFacts DEF Linked
<1>4. Open' = Open
  BY <1>1 DEF Open, Offered, Entries
<1>5. PICK S : S = IF Listed THEN Behind \cup {at} ELSE Behind
  OBVIOUS
<1>6. at \notin Behind
  BY <1>1 DEF Behind
<1>7. Cardinality(S) = Cardinality(Behind) + (IF Listed THEN 1 ELSE 0)
  <2>1. Cardinality(Behind \cup {at}) = Cardinality(Behind) + 1
    BY <1>2, <1>6, FS_AddElement
  <2>2. CASE Listed
    BY <1>5, <2>1, <2>2
  <2>3. CASE ~Listed
    BY <1>2, <1>5, <2>3
  <2> QED BY <2>2, <2>3
<1>8. announced' \in Nat /\ announced' <= Cardinality(S)
  BY <1>1, <1>2, <1>7
<1>9. CASE at < Len(Offered)
  <2>1. at' = at + 1 /\ pc' = "count"
    BY <1>1, <1>9
  <2>2. \A k : k \in Behind' <=> k \in S
    BY <1>1, <1>2, <1>4, <1>5, <2>1 DEF Behind
  <2>3. Behind' = S
    BY <2>2
  <2> QED BY <1>1, <1>8, <2>1, <2>3 DEF WalkInv, SentInv
<1>10. CASE ~(at < Len(Offered))
  <2>1. at' = 1 /\ pc' = "announce"
    BY <1>1, <1>10
  <2>2. \A k : k \in Open <=> k \in S
    BY <1>1, <1>2, <1>3, <1>5, <1>10 DEF Behind
  <2>3. Open' = S
    BY <1>4, <2>2
  <2> QED BY <1>1, <1>8, <2>1, <2>3 DEF WalkInv, SentInv
<1> QED BY <1>9, <1>10

LEMMA SendCountWalk ==
  ASSUME Linked, Finds, WalkInv, SentInv, SendCount
  PROVE  WalkInv' /\ SentInv'
<1>1. /\ pc = "announce" /\ pc' = "list" /\ sent = <<>> /\ at = 1
      /\ announced <= Cardinality(Open) /\ announced \in Nat
      /\ UNCHANGED <<busid, drivers, at, announced, sent>>
  BY DEF SendCount, WalkInv, SentInv, vars
<1>2. /\ Cardinality(Open) \in Nat /\ \A k \in Open : k \in Nat /\ 1 <= k
  BY <1>1, OpenFacts
<1>3. Ahead' = Open
  <2>1. Open' = Open
    BY <1>1 DEF Open, Offered, Entries
  <2>2. \A k : k \in Ahead' <=> k \in Open
    BY <1>1, <1>2, <2>1 DEF Ahead
  <2> QED BY <2>2
<1>4. /\ sent' = <<>> /\ Len(sent') = 0 /\ DOMAIN sent' = {} /\ sent' \in Seq(Names)
  BY <1>1, EmptySeq
<1> QED BY <1>1, <1>2, <1>3, <1>4 DEF WalkInv, SentInv

LEMMA SendDeviceWalk ==
  ASSUME Linked, Finds, WalkInv, SentInv, SendDevice
  PROVE  WalkInv' /\ SentInv'
<1>1. /\ pc = "list" /\ at \in Nat \ {0} /\ announced \in Nat /\ sent \in Seq(Names)
      /\ announced <= Len(sent) + Cardinality(Ahead)
      /\ UNCHANGED <<busid, drivers, announced>>
      /\ sent' = IF Listed THEN Append(sent, Offered[at]) ELSE sent
      /\ IF at < Len(Offered) THEN at' = at + 1 /\ pc' = "list"
         ELSE at' = 1 /\ pc' = "done"
  BY DEF SendDevice, Advance, WalkInv, vars
<1>2. /\ IsFiniteSet(Ahead) /\ Cardinality(Ahead) \in Nat
      /\ Listed <=> at \in Open
      /\ \A k \in Open : k \in Nat /\ 1 <= k /\ k <= Len(Offered)
  BY <1>1, OpenFacts
<1>3. /\ Offered \in Seq(Names) /\ Len(Offered) \in Nat
      /\ DOMAIN Offered = 1 .. Len(Offered)
      /\ \A i, j \in DOMAIN Offered : Offered[i] = Offered[j] => i = j
  BY OfferedFacts DEF Linked
<1>4. Open' = Open /\ Offered' = Offered
  BY <1>1 DEF Open, Offered, Entries
<1>5. Len(sent) \in Nat /\ DOMAIN sent = 1 .. Len(sent)
  BY <1>1, LenProperties
<1>6. PICK R : R = IF Listed THEN Ahead \ {at} ELSE Ahead
  OBVIOUS
<1>7. PICK n \in Nat : n = Cardinality(R)
  BY <1>2, <1>6, FS_RemoveElement, FS_CardinalityType
<1>8. Cardinality(Ahead) = n + (IF Listed THEN 1 ELSE 0)
  <2>1. CASE Listed
    <3>1. at \in Ahead
      BY <1>1, <1>2, <2>1 DEF Ahead
    <3>2. Cardinality(R) = Cardinality(Ahead) - 1
      BY <1>2, <1>6, <2>1, <3>1, FS_RemoveElement
    <3> QED BY <1>2, <1>7, <2>1, <3>2
  <2>2. CASE ~Listed
    BY <1>2, <1>6, <1>7, <2>2
  <2> QED BY <2>1, <2>2
<1>9. \A k : k \in R <=> k \in Open /\ at < k
  BY <1>1, <1>2, <1>6 DEF Ahead
<1>10. /\ sent' \in Seq(Names) /\ Len(sent') = Len(sent) + (IF Listed THEN 1 ELSE 0)
  <2>1. CASE Listed
    <3>1. Offered[at] \in Names
      BY <1>3, <2>1, ElementOfSeq DEF Listed
    <3> QED BY <1>1, <2>1, <3>1, AppendProperties
  <2>2. CASE ~Listed
    BY <1>1, <1>5, <2>2
  <2> QED BY <2>1, <2>2
<1>11. announced <= Len(sent') + n
  BY <1>1, <1>5, <1>7, <1>8, <1>10
<1>12. WalkInv'
  <2>1. CASE at < Len(Offered)
    <3>1. at' = at + 1 /\ pc' = "list"
      BY <1>1, <2>1
    <3>2. \A k : k \in Ahead' <=> k \in R
      BY <1>1, <1>2, <1>4, <1>9, <3>1 DEF Ahead
    <3>3. Cardinality(Ahead') = n
      BY <1>7, <3>2
    <3> QED BY <1>1, <1>10, <1>11, <3>1, <3>3 DEF WalkInv
  <2>2. CASE ~(at < Len(Offered))
    <3>1. at' = 1 /\ pc' = "done"
      BY <1>1, <2>2
    <3>2. R = {}
      BY <1>1, <1>2, <1>3, <1>9, <2>2
    <3>3. n = 0
      BY <1>7, <3>2, FS_EmptySet
    <3>4. Len(sent') \in Nat
      BY <1>10, LenProperties
    <3> QED BY <1>1, <1>10, <1>11, <3>1, <3>3, <3>4 DEF WalkInv
  <2> QED BY <2>1, <2>2
<1>13. SentInv'
  <2>1. /\ \A p \in DOMAIN sent : \E k \in DOMAIN Offered : k < at /\ sent[p] = Offered[k]
        /\ \A p, q \in DOMAIN sent : sent[p] = sent[q] => p = q
    BY <1>1 DEF SentInv
  <2>2. ASSUME NEW p \in DOMAIN sent'
        PROVE  \/ p \in DOMAIN sent /\ sent'[p] = sent[p]
               \/ /\ Listed /\ at \in DOMAIN Offered
                  /\ p = Len(sent) + 1 /\ sent'[p] = Offered[at]
    <3>1. DOMAIN sent' = 1 .. Len(sent')
      BY <1>10, LenProperties
    <3>2. CASE Listed
      <4>1. at \in DOMAIN Offered /\ Offered[at] \in Names
        BY <1>3, <3>2, ElementOfSeq DEF Listed
      <4>2. /\ \A i \in 1 .. Len(sent) : sent'[i] = sent[i]
            /\ sent'[Len(sent) + 1] = Offered[at]
        BY <1>1, <3>2, <4>1, AppendProperties
      <4>3. p \in 1 .. Len(sent) \/ p = Len(sent) + 1
        BY <1>5, <1>10, <3>1, <3>2
      <4> QED BY <1>5, <3>2, <4>1, <4>2, <4>3
    <3>3. CASE ~Listed
      BY <1>1, <3>3
    <3> QED BY <3>2, <3>3
  <2>3. ASSUME NEW p \in DOMAIN sent', NEW q \in DOMAIN sent', sent'[p] = sent'[q]
        PROVE  p = q
    <3>1. \A r \in DOMAIN sent : at \in DOMAIN Offered => sent[r] # Offered[at]
      <4> SUFFICES ASSUME NEW r \in DOMAIN sent, at \in DOMAIN Offered,
                          sent[r] = Offered[at]
                   PROVE  FALSE
        OBVIOUS
      <4>1. PICK k \in DOMAIN Offered : k < at /\ sent[r] = Offered[k]
        BY <2>1
      <4>2. k = at
        BY <1>3, <4>1
      <4> QED BY <1>1, <4>1, <4>2
    <3> QED BY <2>1, <2>2, <2>3, <3>1
  <2>4. ASSUME NEW p \in DOMAIN sent', pc' = "list"
        PROVE  \E k \in DOMAIN Offered : k < at' /\ sent'[p] = Offered[k]
    <3>1. at' = at + 1
      BY <1>1, <2>4
    <3>2. \A k \in DOMAIN Offered : (k < at => k < at') /\ (k = at => k < at')
      BY <1>1, <1>3, <3>1
    <3> QED BY <2>1, <2>2, <3>2
  <2>5. pc' \in {"list", "done"}
    BY <1>1
  <2> QED BY <1>4, <2>3, <2>4, <2>5 DEF SentInv
<1> QED BY <1>12, <1>13

LEMMA ListNextStep == ListNext => [Next]_vars
BY DEF ListNext, Import, Serve, GiveBack, Ask, Count, SendCount, SendDevice, Close,
       SendFails, Forget, Next, walk

LEMMA WalkNext ==
  Linked /\ Finds /\ WalkInv /\ SentInv /\ [ListNext]_<<vars, walk>>
    => WalkInv' /\ SentInv'
<1> SUFFICES ASSUME Linked, Finds, WalkInv, SentInv, [ListNext]_<<vars, walk>>
             PROVE  WalkInv' /\ SentInv'
  OBVIOUS
<1>1. CASE UNCHANGED <<vars, walk>>
  <2>1. /\ busid' = busid /\ drivers' = drivers /\ pc' = pc /\ at' = at
        /\ announced' = announced /\ sent' = sent
    BY <1>1 DEF vars, walk
  <2> QED BY <2>1 DEF WalkInv, SentInv, Open, Behind, Ahead, Offered, Entries
<1>2. CASE Import
  <2>1. /\ pc = "idle" /\ pc' = pc /\ at' = at /\ announced' = announced /\ sent' = sent
    BY <1>2 DEF Import, walk
  <2> QED BY <2>1 DEF WalkInv, SentInv
<1>3. CASE GiveBack
  BY <1>3, GiveBackWalk
<1>4. CASE Ask
  <2>1. pc' = "count" /\ at' = 1 /\ announced' = 0 /\ sent' = <<>>
        /\ UNCHANGED <<busid, drivers>>
    BY <1>4 DEF Ask, vars
  <2>2. sent' \in Seq(Names) /\ DOMAIN sent' = {}
    BY <2>1, EmptySeq
  <2>3. Behind' = {}
    <3>1. Open' = Open
      BY <2>1 DEF Open, Offered, Entries
    <3>2. \A k \in Open : k \in Nat /\ 1 <= k
      BY OpenFacts DEF WalkInv
    <3> QED BY <2>1, <3>1, <3>2 DEF Behind
  <2>4. Cardinality(Behind') = 0
    BY <2>3, FS_EmptySet
  <2> QED BY <2>1, <2>2, <2>4 DEF WalkInv, SentInv
<1>5. CASE Count
  BY <1>5, CountWalk
<1>6. CASE SendCount
  BY <1>6, SendCountWalk
<1>7. CASE SendDevice
  BY <1>7, SendDeviceWalk
<1>8. CASE Forget
  <2>1. pc' = "idle" /\ at' = 1 /\ announced' = 0 /\ sent' = <<>>
    BY <1>8 DEF Forget
  <2>2. sent' \in Seq(Names) /\ DOMAIN sent' = {}
    BY <2>1, EmptySeq
  <2> QED BY <2>1, <2>2 DEF WalkInv, SentInv
<1> QED BY <1>1, <1>2, <1>3, <1>4, <1>5, <1>6, <1>7, <1>8 DEF ListNext, Close, SendFails

(* Making device lists does not change the registry.                        *)
LEMMA ListIsSpec == ListSpec => Spec
<1>1. ListInit => Init
  BY DEF ListInit
<1>2. [ListNext]_<<vars, walk>> => [Next]_vars
  BY ListNextStep DEF vars
<1> QED BY <1>1, <1>2, PTL DEF ListSpec, Spec

(* The client is sent at least as many records as it was announced, and no  *)
(* device twice, while ConnCleanup gives devices back between and during    *)
(* the two walks (usbip_server.c:90-190).                                   *)
THEOREM AnnouncedSent == ListSpec => []NoneMissing
<1>1. WalkInv /\ SentInv => NoneMissing
  <2> SUFFICES ASSUME WalkInv, SentInv PROVE NoneMissing
    OBVIOUS
  <2>1. Len(sent) \in Nat
    BY LenProperties DEF WalkInv
  <2> QED BY <2>1 DEF WalkInv, SentInv, NoneMissing, IsInjective
<1> QED BY <1>1, WalkInit, WalkNext, ListIsSpec, LinkedAlways, LinkedFinds, PTL
        DEF ListSpec

(* The registry's guarantees hold as well while device lists are made.      *)
THEOREM ListsHarmless == ListSpec => []TableSound /\ ImplementsRegistry
BY ListIsSpec, TableIsSound, RefinesRegistry, PTL

(* Every field of the manager keeps its type: links lead to entries, and    *)
(* pool and driver table are never overfilled.                              *)
THEOREM TypeCorrect == Spec => []TypeOK
BY LinkedAlways, PTL DEF Linked

===============================================================================
