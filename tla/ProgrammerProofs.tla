--------------------------- MODULE ProgrammerProofs ---------------------------
(***************************************************************************)
(* Proofs about Programmer for every layout of the flash, every choice of  *)
(* algorithms, files and blocks, and with every failure.                   *)
(***************************************************************************)
EXTENDS Programmer, FiniteSetTheorems, SequenceTheorems, WellFoundedInduction, TLAPS

-----------------------------------------------------------------------------
(* Numbers.                                                                 *)

LEMMA Euclid ==
  ASSUME NEW a \in Nat, NEW s \in Nat, s > 0
  PROVE  a % s \in 0 .. s - 1 /\ a = s * (a \div s) + (a % s) /\ a \div s \in Nat
OBVIOUS

LEMMA Remainder ==
  ASSUME NEW a \in Nat, NEW s \in Nat, s > 0, NEW q \in Nat, NEW r \in 0 .. s - 1,
         a = s * q + r
  PROVE  a % s = r
OBVIOUS

LEMMA Multiple ==
  ASSUME NEW a \in Nat, NEW s \in Nat, s > 0, a % s = 0
  PROVE  \E q \in Nat : a = s * q
<1>1. a = s * (a \div s) + (a % s) /\ a \div s \in Nat
  BY Euclid
<1>2. a = s * (a \div s)
  <2> DEFINE q == a \div s
  <2>1. q \in Nat /\ a = s * q + (a % s)
    BY <1>1
  <2> HIDE DEF q
  <2>2. s * q \in Nat
    BY <2>1
  <2>3. a = s * q
    BY <2>1, <2>2
  <2> QED BY <2>3 DEF q
<1> QED BY <1>1, <1>2

LEMMA Ordered ==
  ASSUME NEW s \in Nat, NEW p \in Nat, NEW q \in Nat, p <= q
  PROVE  s * p <= s * q
OBVIOUS

LEMMA Apart ==
  ASSUME NEW m \in Nat, NEW n \in Nat, NEW s \in Nat, s > 0, m % s = 0, n % s = 0, m < n
  PROVE  m + s <= n
<1>1. PICK p \in Nat : m = s * p
  BY Multiple
<1>2. PICK q \in Nat : n = s * q
  BY Multiple
<1>3. p < q
  <2>1. ASSUME q <= p PROVE FALSE
    BY <1>1, <1>2, <2>1, Ordered
  <2> QED BY <2>1
<1>4. s * (p + 1) <= s * q
  BY <1>3, Ordered
<1>5. s * (p + 1) = m + s
  BY <1>1
<1> QED BY <1>2, <1>4, <1>5

LEMMA Finer ==
  ASSUME NEW m \in Nat, NEW b \in Nat, NEW s \in Nat, s > 0, b > 0, m % s = 0, s % b = 0
  PROVE  m % b = 0
<1>1. PICK p \in Nat : m = s * p
  BY Multiple
<1>2. PICK q \in Nat : s = b * q
  BY Multiple
<1>3. m = b * (q * p) + 0 /\ q * p \in Nat
  BY <1>1, <1>2
<1> QED BY <1>3, Remainder

LEMMA Further ==
  ASSUME NEW m \in Nat, NEW s \in Nat, s > 0, m % s = 0
  PROVE  (m + s) % s = 0
<1>1. PICK p \in Nat : m = s * p
  BY Multiple
<1>2. m + s = s * (p + 1) + 0
  BY <1>1
<1> QED BY <1>2, Remainder

LEMMA Rounded ==
  ASSUME NEW a \in Nat, NEW s \in Nat, s > 0
  PROVE  /\ RoundDown(a, s) \in Nat /\ RoundDown(a, s) <= a
         /\ a < RoundDown(a, s) + s /\ RoundDown(a, s) % s = 0
<1>1. a % s \in 0 .. s - 1 /\ a % s <= a
  BY Euclid
<1>2. (a - (a % s)) % s = 0
  OBVIOUS
<1> QED BY <1>1, <1>2 DEF RoundDown

LEMMA RoundedBelow ==
  ASSUME NEW a \in Nat, NEW s \in Nat, s > 0, NEW m \in Nat, m % s = 0, m <= a
  PROVE  m <= RoundDown(a, s)
<1> DEFINE d == RoundDown(a, s)
<1>1. d \in Nat /\ d <= a /\ a < d + s /\ d % s = 0
  BY Rounded
<1> HIDE DEF d
<1>2. ASSUME d < m PROVE FALSE
  BY <1>1, <1>2, Apart
<1> QED BY <1>1, <1>2 DEF d

LEMMA RoundedIs ==
  ASSUME NEW a \in Nat, NEW s \in Nat, s > 0, NEW m \in Nat, m % s = 0, m <= a, a < m + s
  PROVE  RoundDown(a, s) = m
<1> DEFINE d == RoundDown(a, s)
<1>1. d \in Nat /\ d <= a /\ a < d + s /\ d % s = 0
  BY Rounded
<1>2. m <= d
  BY RoundedBelow
<1> HIDE DEF d
<1>3. ASSUME m < d PROVE FALSE
  BY <1>1, <1>3, Apart
<1> QED BY <1>1, <1>2, <1>3 DEF d

LEMMA SumOf ==
  ASSUME NEW m \in Nat, NEW n \in Nat, NEW s \in Nat, s > 0, m % s = 0, n % s = 0
  PROVE  (m + n) % s = 0
<1>1. PICK p \in Nat : m = s * p
  BY Multiple
<1>2. PICK q \in Nat : n = s * q
  BY Multiple
<1> DEFINE v == p + q
           w == m + n
<1>3. w = s * v + 0
  BY <1>1, <1>2
<1>4. v \in Nat /\ w \in Nat /\ 0 \in 0 .. s - 1
  OBVIOUS
<1> HIDE DEF v, w
<1>5. w % s = 0
  BY <1>3, <1>4, Remainder
<1> QED BY <1>5 DEF w

LEMMA SumNat ==
  ASSUME NEW m \in Nat, NEW n \in Nat
  PROVE  m + n \in Nat
OBVIOUS

LEMMA Less ==
  ASSUME NEW m \in Nat, NEW n \in Nat, m < n
  PROVE  m <= n
OBVIOUS

LEMMA NatMin ==
  ASSUME NEW T, T \subseteq Nat, T # {}
  PROVE  \E x \in T : \A y \in T : x <= y
<1>1. IsWellFoundedOn(OpToRel(<, Nat), Nat)
  BY NatLessThanWellFounded
<1>2. PICK x \in T : \A y \in T : ~ (<<y, x>> \in OpToRel(<, Nat))
  BY <1>1, WFMin
<1>3. ASSUME NEW y \in T PROVE x <= y
  <2>1. ~(y < x)
    <3>1. ASSUME y < x PROVE <<y, x>> \in OpToRel(<, Nat)
      BY <3>1 DEF OpToRel
    <3> QED BY <1>2, <3>1
  <2> QED BY <2>1
<1> QED BY <1>3

LEMMA MinIs ==
  ASSUME NEW T, T \subseteq Nat, T # {}
  PROVE  Min(T) \in T /\ \A y \in T : Min(T) <= y
<1>1. PICK x \in T : \A y \in T : x <= y
  BY NatMin
<1> QED BY <1>1 DEF Min

LEMMA MaxIs ==
  ASSUME NEW n \in Nat, NEW T, T \subseteq 1 .. n, T # {}
  PROVE  Max(T) \in T /\ \A y \in T : Max(T) >= y
<1> DEFINE U == {y \in Nat : \A x \in T : y >= x}
<1>1. n \in U
  OBVIOUS
<1>2. PICK y \in U : \A z \in U : y <= z
  <2> HIDE DEF U
  <2>1. U # {}
    BY <1>1
  <2>2. U \subseteq Nat
    BY DEF U
  <2> QED BY <2>1, <2>2, NatMin
<1>3. y \in T
  <2>1. SUFFICES ASSUME y \notin T PROVE FALSE
    OBVIOUS
  <2>2. \A x \in T : x \in Nat /\ x >= 1 /\ y > x
    BY <2>1
  <2>3. PICK x \in T : TRUE
    OBVIOUS
  <2>4. y - 1 \in Nat
    BY <2>2, <2>3
  <2>5. \A w \in T : y - 1 >= w
    BY <2>2, <2>4
  <2>6. y - 1 \in U
    BY <2>4, <2>5
  <2> QED BY <1>2, <2>4, <2>6
<1>4. \A x \in T : y >= x
  OBVIOUS
<1> QED BY <1>3, <1>4 DEF Max

-----------------------------------------------------------------------------
(* The layout of the flash.                                                 *)

(* The sectors of the configuration that begin at or before an address.     *)
Below(a) == {i \in DOMAIN Sectors : a >= Sectors[i].start}

(* The entry that describes the sector of a.                                *)
Info(a) == Max(Below(a))

LEMMA SectorFacts ==
  /\ Len(Sectors) \in Nat /\ DOMAIN Sectors = 1 .. Len(Sectors)
  /\ \A i \in DOMAIN Sectors :
       Sectors[i].start \in Nat /\ Sectors[i].size \in Nat /\ Sectors[i].size > 0
<1> DEFINE R == [start : Nat, size : Nat \ {0}]
<1>1. Sectors \in Seq(R)
  BY SectorAssumption
<1>2. \A i \in DOMAIN Sectors : Sectors[i] \in R
  <2> HIDE DEF R
  <2> QED BY <1>1, ElementOfSeq
<1>3. \A x \in R : x.start \in Nat /\ x.size \in Nat /\ x.size > 0
  OBVIOUS
<1> HIDE DEF R
<1> QED BY <1>1, <1>2, <1>3

LEMMA SectorOrder ==
  ASSUME NEW i \in DOMAIN Sectors, NEW j \in DOMAIN Sectors
  PROVE  /\ Sectors[i].start % Sectors[i].size = 0
         /\ i < j => Sectors[i].start < Sectors[j].start
         /\ j = i + 1 => Sectors[j].start % Sectors[i].size = 0
BY SectorAssumption

LEMMA InfoFacts ==
  ASSUME NEW a \in Nat, Below(a) # {}
  PROVE  /\ Info(a) \in DOMAIN Sectors /\ Sectors[Info(a)].start <= a
         /\ \A j \in DOMAIN Sectors : j > Info(a) => a < Sectors[j].start
<1>1. Below(a) \subseteq 1 .. Len(Sectors)
  BY SectorFacts DEF Below
<1>2. Info(a) \in Below(a) /\ \A j \in Below(a) : Info(a) >= j
  BY <1>1, SectorFacts, MaxIs DEF Info
<1>3. ASSUME NEW j \in DOMAIN Sectors, j > Info(a) PROVE a < Sectors[j].start
  <2>1. j \notin Below(a)
    BY <1>1, <1>2, <1>3, SectorFacts
  <2> QED BY <2>1, SectorFacts DEF Below
<1> QED BY <1>2, <1>3, SectorFacts DEF Below

LEMMA InfoIs ==
  ASSUME NEW a \in Nat, NEW i \in DOMAIN Sectors, Sectors[i].start <= a,
         \A j \in DOMAIN Sectors : j > i => a < Sectors[j].start
  PROVE  Below(a) # {} /\ Info(a) = i
<1>1. i \in Below(a)
  BY SectorFacts DEF Below
<1>2. Info(a) \in DOMAIN Sectors /\ Sectors[Info(a)].start <= a
      /\ \A j \in DOMAIN Sectors : j > Info(a) => a < Sectors[j].start
  BY <1>1, InfoFacts
<1> DEFINE e == Info(a)
<1>3. e \in Nat /\ i \in Nat
  BY <1>2, SectorFacts
<1>4. ~(e > i)
  BY <1>2, <1>3, SectorFacts
<1>5. ~(i > e)
  BY <1>2, <1>3, SectorFacts
<1> HIDE DEF e
<1>6. e = i
  BY <1>3, <1>4, <1>5
<1> QED BY <1>1, <1>6 DEF e

LEMMA SizeIs ==
  ASSUME NEW a
  PROVE  /\ SectorSize(a) = IF Below(a) = {} THEN 0 ELSE Sectors[Info(a)].size
         /\ SectorOf(a) = IF Below(a) = {} THEN a
              ELSE a - ((a - Sectors[Info(a)].start) % Sectors[Info(a)].size)
BY DEF SectorSize, SectorOf, Below, Info, Indices

LEMMA Located ==
  ASSUME NEW a \in Nat, SectorSize(a) # 0
  PROVE  /\ Below(a) # {} /\ SectorSize(a) = Sectors[Info(a)].size
         /\ SectorSize(a) \in Nat /\ SectorSize(a) > 0
         /\ SectorOf(a) = RoundDown(a, SectorSize(a))
         /\ SectorOf(a) \in Nat /\ SectorOf(a) <= a /\ a < SectorOf(a) + SectorSize(a)
         /\ SectorOf(a) % SectorSize(a) = 0
         /\ Sectors[Info(a)].start <= SectorOf(a)
<1>1. Below(a) # {} /\ SectorSize(a) = Sectors[Info(a)].size
  BY SizeIs
<1> DEFINE st == Sectors[Info(a)].start
           sz == Sectors[Info(a)].size
           k == a - st
<1>2. /\ Info(a) \in DOMAIN Sectors /\ st \in Nat /\ sz \in Nat /\ sz > 0 /\ st <= a
      /\ st % sz = 0 /\ k \in Nat /\ a = st + k
  BY <1>1, InfoFacts, SectorFacts, SectorAssumption
<1>3. SectorOf(a) = a - (k % sz)
  BY <1>1, SizeIs
<1> HIDE DEF st, sz, k
<1>4. k % sz \in 0 .. sz - 1
  BY <1>2, Euclid
<1>5. /\ RoundDown(k, sz) \in Nat /\ RoundDown(k, sz) % sz = 0
      /\ RoundDown(k, sz) = k - (k % sz)
  BY <1>2, Rounded DEF RoundDown
<1>6. SectorOf(a) = st + RoundDown(k, sz)
  BY <1>2, <1>3, <1>4, <1>5
<1>7. SectorOf(a) \in Nat /\ SectorOf(a) % sz = 0 /\ st <= SectorOf(a)
  <2>1. (st + RoundDown(k, sz)) % sz = 0
    BY <1>2, <1>5, SumOf
  <2> QED BY <1>2, <1>5, <1>6, <2>1
<1>8. SectorOf(a) <= a /\ a < SectorOf(a) + sz
  BY <1>2, <1>3, <1>4
<1>9. SectorOf(a) = RoundDown(a, sz)
  BY <1>2, <1>7, <1>8, RoundedIs
<1>10. SectorSize(a) = sz
  BY <1>1 DEF sz
<1> QED BY <1>1, <1>2, <1>7, <1>8, <1>9, <1>10 DEF st

(* All addresses of a sector find it.                                       *)
LEMMA SameSector ==
  ASSUME NEW a \in Nat, SectorSize(a) # 0, NEW b \in Nat,
         SectorOf(a) <= b, b < SectorOf(a) + SectorSize(a)
  PROVE  SectorSize(b) = SectorSize(a) /\ SectorOf(b) = SectorOf(a)
<1> DEFINE i == Info(a)
           d == SectorOf(a)
           s == SectorSize(a)
<1>1. /\ Below(a) # {} /\ s = Sectors[i].size /\ s \in Nat /\ s > 0
      /\ d \in Nat /\ d <= a /\ a < d + s /\ d % s = 0 /\ Sectors[i].start <= d
  BY Located
<1>2. /\ i \in DOMAIN Sectors
      /\ \A j \in DOMAIN Sectors : j > i => a < Sectors[j].start
  BY <1>1, InfoFacts
<1>3. d <= b /\ b < d + s
  OBVIOUS
<1> HIDE DEF i, d, s
<1>4. ASSUME NEW j \in DOMAIN Sectors, j > i PROVE b < Sectors[j].start
  <2>1. i \in Nat /\ j \in Nat /\ i + 1 \in DOMAIN Sectors
    BY <1>2, <1>4, SectorFacts
  <2>2. /\ Sectors[i + 1].start % s = 0 /\ a < Sectors[i + 1].start
        /\ Sectors[i + 1].start \in Nat /\ Sectors[j].start \in Nat
    BY <1>1, <1>2, <2>1, SectorFacts, SectorOrder
  <2>5. d < Sectors[i + 1].start
    BY <1>1, <2>2
  <2>3. d + s <= Sectors[i + 1].start
    BY <1>1, <2>2, <2>5, Apart
  <2>4. Sectors[i + 1].start <= Sectors[j].start
    <3>1. CASE j = i + 1
      BY <3>1, <2>2
    <3>2. CASE j # i + 1
      <4>1. i + 1 < j
        BY <1>4, <2>1, <3>2
      <4> QED BY <2>1, <2>2, <4>1, SectorOrder
    <3> QED BY <3>1, <3>2
  <2> QED BY <1>1, <1>3, <2>2, <2>3, <2>4
<1>5. Sectors[i].start <= b
  BY <1>1, <1>2, <1>3, SectorFacts
<1>6. Below(b) # {} /\ Info(b) = i
  BY <1>2, <1>4, <1>5, InfoIs
<1>7. SectorSize(b) = s
  BY <1>1, <1>6, SizeIs
<1>8. SectorOf(b) = RoundDown(b, s)
  BY <1>1, <1>7, Located
<1>9. RoundDown(b, s) = d
  BY <1>1, <1>3, RoundedIs
<1> QED BY <1>7, <1>8, <1>9 DEF d, s

(* Behind a sector another one begins.                                      *)
LEMMA NextSector ==
  ASSUME NEW a \in Nat, SectorSize(a) # 0
  PROVE  LET b == SectorOf(a) + SectorSize(a)
         IN  /\ SectorSize(b) # 0 /\ SectorOf(b) = b
             /\ SectorSize(b - 1) = SectorSize(a)
<1> DEFINE i == Info(a)
           d == SectorOf(a)
           s == SectorSize(a)
           b == d + s
<1>1. /\ Below(a) # {} /\ s = Sectors[i].size /\ s \in Nat /\ s > 0
      /\ d \in Nat /\ d <= a /\ a < d + s /\ d % s = 0 /\ Sectors[i].start <= d
  BY Located
<1>2. /\ i \in DOMAIN Sectors
      /\ \A j \in DOMAIN Sectors : j > i => a < Sectors[j].start
  BY <1>1, InfoFacts
<1>3. SectorSize(b - 1) = s
  BY <1>1, SameSector
<1> HIDE DEF i, d, s
<1>13. Sectors[i].start \in Nat
  BY <1>2, SectorFacts
<1>4. b \in Nat /\ b > a /\ b % s = 0 /\ Sectors[i].start <= b
  <2>1. (d + s) % s = 0
    BY <1>1, Further
  <2> QED BY <1>1, <1>13, <2>1
<1>5. i \in Below(b)
  BY <1>2, <1>4 DEF Below
<1> DEFINE j == Info(b)
<1>6. /\ j \in DOMAIN Sectors /\ Sectors[j].start <= b
      /\ \A k \in DOMAIN Sectors : k > j => b < Sectors[k].start
  BY <1>4, <1>5, InfoFacts
<1> DEFINE z == SectorSize(b)
<1>7. z = Sectors[j].size /\ z \in Nat /\ z > 0
  BY <1>5, <1>6, SizeIs, SectorFacts
<1>8. SectorOf(b) = RoundDown(b, z)
  BY <1>4, <1>7, Located
<1> HIDE DEF j, z
<1>9. i \in Nat /\ j \in Nat /\ i <= j
  BY <1>2, <1>4, <1>6, SectorFacts
<1>10. b % z = 0
  <2>1. CASE j = i
    BY <2>1, <1>1, <1>4, <1>7
  <2>2. CASE j # i
    <3>1. i + 1 \in DOMAIN Sectors /\ i + 1 <= j
      BY <1>2, <1>6, <1>9, <2>2, SectorFacts
    <3>2. /\ Sectors[i + 1].start % s = 0 /\ a < Sectors[i + 1].start
          /\ Sectors[i + 1].start \in Nat /\ Sectors[j].start \in Nat
      BY <1>1, <1>2, <1>6, <1>9, <3>1, SectorFacts, SectorOrder
    <3>6. d < Sectors[i + 1].start
      BY <1>1, <3>2
    <3>3. b <= Sectors[i + 1].start
      BY <1>1, <3>2, <3>6, Apart
    <3>4. j = i + 1
      <4>1. ASSUME i + 1 < j PROVE FALSE
        <5>1. Sectors[i + 1].start < Sectors[j].start
          BY <1>6, <3>1, <4>1, SectorOrder
        <5> QED BY <1>4, <1>6, <3>2, <3>3, <5>1
      <4> QED BY <1>9, <3>1, <4>1
    <3>5. Sectors[j].start = b
      BY <1>4, <1>6, <3>2, <3>3, <3>4
    <3> QED BY <1>6, <1>7, <3>5, SectorOrder
  <2> QED BY <2>1, <2>2
<1> HIDE DEF b
<1>11. RoundDown(b, z) = b
  BY <1>4, <1>7, <1>10, RoundedIs
<1>12. z # 0 /\ SectorOf(b) = b /\ SectorSize(b - 1) = s
  BY <1>3, <1>7, <1>8, <1>11
<1> QED BY <1>12 DEF b, d, s, z

(* Where the algorithm changes, a region begins or has just ended.          *)
LEMMA BorderAt ==
  ASSUME NEW m \in Nat, m > 0, AlgoAt(m - 1) # AlgoAt(m)
  PROVE  \E i \in DOMAIN Regions : m = Regions[i].start \/ m = Regions[i].end + 1
<1> DEFINE R == [start : Nat, end : Nat, default : BOOLEAN, algo : Algorithms \cup {None}]
           In(x) == {i \in DOMAIN Regions : x >= Regions[i].start /\ x <= Regions[i].end}
<1>1. \A i \in DOMAIN Regions : Regions[i] \in R
  <2>1. Regions \in Seq(R)
    BY RegionAssumption
  <2> HIDE DEF R
  <2> QED BY <2>1, ElementOfSeq
<1>2. SUFFICES ASSUME \A i \in DOMAIN Regions : m # Regions[i].start /\ m # Regions[i].end + 1
               PROVE  FALSE
  OBVIOUS
<1>3. ASSUME NEW i \in DOMAIN Regions
      PROVE  (m >= Regions[i].start /\ m <= Regions[i].end)
             <=> (m - 1 >= Regions[i].start /\ m - 1 <= Regions[i].end)
  <2> DEFINE p == Regions[i].start
             q == Regions[i].end
  <2>1. p \in Nat /\ q \in Nat
    <3>1. Regions[i] \in R
      BY <1>1
    <3> QED BY <3>1
  <2>2. m # p /\ m # q + 1
    BY <1>2
  <2> HIDE DEF p, q
  <2>3. (m >= p /\ m <= q) <=> (m - 1 >= p /\ m - 1 <= q)
    BY <2>1, <2>2
  <2> QED BY <2>3 DEF p, q
<1>4. In(m) = In(m - 1)
  BY <1>3
<1>5. \A x : AlgoAt(x) = IF In(x) # {} THEN Regions[Min(In(x))].algo ELSE DefaultAlgo
  BY DEF AlgoAt, AlgoIn, Indices
<1> HIDE DEF In
<1> QED BY <1>4, <1>5

(* Over the sector of an address the algorithm stays the same: the first    *)
(* address with another one would be a border inside the sector.            *)
LEMMA SameAlgorithm ==
  ASSUME NEW a \in Nat, SectorSize(a) # 0, NEW b \in Nat,
         SectorOf(a) <= b, b < SectorOf(a) + SectorSize(a),
         NEW t, t.default = DefaultAlgo
  PROVE  AlgoFor(t, b) = AlgoFor(t, SectorOf(a))
<1> DEFINE d == SectorOf(a)
           s == SectorSize(a)
<1>1. d \in Nat /\ s \in Nat /\ s > 0 /\ d % s = 0 /\ d <= b /\ b < d + s
  BY Located
<1>2. ASSUME NEW x \in Nat, d < x, x <= b PROVE x % s # 0
  <2>1. x < d + s
    BY <1>1, <1>2
  <2> HIDE DEF d, s
  <2>2. ASSUME x % s = 0 PROVE d + s <= x
    BY <1>1, <1>2, <2>2, Apart
  <2> QED BY <1>1, <1>2, <2>1, <2>2
<1>3. ASSUME NEW x \in Nat, d < x, x <= b PROVE SectorSize(x) = s
  BY <1>1, <1>3, SameSector
<1>4. \A x : AlgoFor(t, x) = AlgoAt(x)
  BY DEF AlgoFor, AlgoAt
<1> HIDE DEF d, s
<1>5. SUFFICES ASSUME AlgoAt(b) # AlgoAt(d) PROVE FALSE
  BY <1>4 DEF d
<1> DEFINE T == {x \in d .. b : AlgoAt(x) # AlgoAt(d)}
<1>6. PICK m \in T : \A y \in T : m <= y
  <2>1. T \subseteq Nat /\ b \in T
    BY <1>1, <1>5
  <2> HIDE DEF T
  <2> QED BY <2>1, NatMin
<1>7. m \in Nat /\ d <= m /\ m <= b /\ AlgoAt(m) # AlgoAt(d)
  BY <1>1, <1>6
<1>8. d < m
  BY <1>1, <1>7
<1>9. AlgoAt(m - 1) = AlgoAt(d)
  <2>1. m - 1 \in d .. b /\ ~(m <= m - 1)
    BY <1>1, <1>7, <1>8
  <2> QED BY <1>6, <2>1
<1>10. PICK i \in DOMAIN Regions : m = Regions[i].start \/ m = Regions[i].end + 1
  <2>1. m > 0 /\ AlgoAt(m - 1) # AlgoAt(m)
    BY <1>1, <1>7, <1>8, <1>9
  <2> QED BY <1>7, <2>1, BorderAt
<1>11. SectorSize(m) = s /\ m % s # 0
  BY <1>2, <1>3, <1>7, <1>8
<1>12. m > 0 /\ SectorSize(m) # 0 /\ AlgoAt(m - 1) # AlgoAt(m)
  BY <1>1, <1>7, <1>8, <1>9, <1>11
<1> QED BY <1>10, <1>11, <1>12, RegionAssumption

LEMMA AlgoKind ==
  ASSUME NEW t, t.default \in Algorithms \cup {None}, NEW a
  PROVE  AlgoFor(t, a) \in Algorithms \cup {None}
<1> DEFINE In == {i \in DOMAIN Regions : a >= Regions[i].start /\ a <= Regions[i].end}
           R == [start : Nat, end : Nat, default : BOOLEAN, algo : Algorithms \cup {None}]
<1>1. AlgoFor(t, a) = IF In # {} THEN Regions[Min(In)].algo ELSE t.default
  BY DEF AlgoFor, AlgoIn, Indices
<1>2. \A i \in DOMAIN Regions : Regions[i] \in R
  <2>1. Regions \in Seq(R)
    BY RegionAssumption
  <2> HIDE DEF R
  <2> QED BY <2>1, ElementOfSeq
<1>3. ASSUME In # {} PROVE Min(In) \in DOMAIN Regions
  <2>1. In \subseteq Nat
    BY RegionAssumption
  <2>2. Min(In) \in In
    <3> HIDE DEF In
    <3> QED BY <1>3, <2>1, MinIs
  <2> QED BY <2>2
<1> HIDE DEF In
<1> QED BY <1>1, <1>2, <1>3

LEMMA AlgoByDefault ==
  ASSUME NEW t, NEW u, t.default = u.default, NEW a
  PROVE  AlgoFor(t, a) = AlgoFor(u, a)
BY DEF AlgoFor

-----------------------------------------------------------------------------
(* The calls of the target flash.                                           *)

Funcs == {"nop", "erase", "program", "verify"}
Loads == Algorithms \cup {None}
Cells == Bytes \cup {Garbled}

(* The default algorithm is unknown until the flash is first opened.        *)
Defaults == {None, DefaultAlgo}

LEMMA DefaultIs == Defaults \subseteq Loads
<1> DEFINE R == [start : Nat, end : Nat, default : BOOLEAN, algo : Algorithms \cup {None}]
           D == {i \in DOMAIN Regions : Regions[i].default}
<1>1. DefaultAlgo = IF D = {} THEN None ELSE Regions[Min(D)].algo
  BY DEF DefaultAlgo, Indices
<1>2. \A i \in DOMAIN Regions : Regions[i] \in R
  <2>1. Regions \in Seq(R)
    BY RegionAssumption
  <2> HIDE DEF R
  <2> QED BY <2>1, ElementOfSeq
<1>3. ASSUME D # {} PROVE Min(D) \in DOMAIN Regions
  <2>1. D \subseteq Nat
    BY RegionAssumption
  <2>2. Min(D) \in D
    <3> HIDE DEF D
    <3> QED BY <1>3, <2>1, MinIs
  <2> QED BY <2>2
<1> HIDE DEF D
<1> QED BY <1>1, <1>2, <1>3 DEF Defaults, Loads

TargetType ==
  [func : Funcs, algo : Loads, default : Defaults, loaded : Loads, inited : BOOLEAN,
   mem : [Addresses -> Cells], strayed : BOOLEAN]

(* What the flash functions go by is so: the algorithm last chosen is in    *)
(* the target's memory, and was initialised for the last function, and the  *)
(* default algorithm is the configuration's.                                *)
InOrder(t) ==
  /\ t.default = DefaultAlgo
  /\ t.algo # None => t.loaded = t.algo
  /\ t.func # "nop" => t.inited

(* A call that leaves the flash alone, whatever becomes of it.              *)
Harmless(t, o) ==
  /\ o.t \in TargetType /\ o.err \in Errors \cup {None}
  /\ o.t.default = t.default /\ o.t.mem = t.mem /\ o.t.strayed = t.strayed

LEMMA NoneIsNoError == None \notin Errors /\ None \notin Algorithms
BY TargetFlashAssumption

LEMMA FailIs ==
  ASSUME NEW e, NEW ts, NEW o \in Fail(e, ts)
  PROVE  o.err = e /\ o.t \in ts
BY DEF Fail, Failed

LEMMA FuncStarts ==
  ASSUME NEW t \in TargetType, NEW f \in Funcs, NEW o \in FuncStart(t, f)
  PROVE  /\ Harmless(t, o)
         /\ o.t.algo = t.algo /\ o.t.loaded = t.loaded
         /\ o.err = None => o.t.func = f /\ (InOrder(t) => InOrder(o.t))
<1> DEFINE begun == [t EXCEPT !.func = f]
           ended == [t EXCEPT !.inited = FALSE]
           inited == [t EXCEPT !.inited = TRUE]
           e1 == [ended EXCEPT !.func = f]
           i1 == [inited EXCEPT !.func = f]
<1>1. /\ begun \in TargetType /\ begun.func = f /\ begun.inited = t.inited
      /\ begun.mem = t.mem /\ begun.default = t.default /\ begun.strayed = t.strayed
      /\ begun.algo = t.algo /\ begun.loaded = t.loaded
  BY DEF TargetType
<1>2. /\ e1 \in TargetType /\ e1.func = f
      /\ e1.mem = t.mem /\ e1.default = t.default /\ e1.strayed = t.strayed
      /\ e1.algo = t.algo /\ e1.loaded = t.loaded
  BY DEF TargetType
<1>3. /\ i1 \in TargetType /\ i1.func = f /\ i1.inited
      /\ i1.mem = t.mem /\ i1.default = t.default /\ i1.strayed = t.strayed
      /\ i1.algo = t.algo /\ i1.loaded = t.loaded
  BY DEF TargetType
<1>4. \A u \in {t, ended, inited} :
        /\ u \in TargetType /\ u.mem = t.mem /\ u.default = t.default
        /\ u.strayed = t.strayed /\ u.algo = t.algo /\ u.loaded = t.loaded
  BY DEF TargetType
<1>5. CASE t.func # "nop" /\ f = "nop"
  <2>1. o = Done(e1) \/ o \in Fail("uninit", {t, ended})
    BY <1>5 DEF FuncStart
  <2>2. CASE o = Done(e1)
    <3>1. o.t = e1 /\ o.err = None
      BY <2>2 DEF Done
    <3> HIDE DEF e1
    <3> QED BY <1>2, <1>5, <3>1 DEF Harmless, InOrder
  <2>3. CASE o \in Fail("uninit", {t, ended})
    <3>1. o.err = "uninit" /\ o.t \in {t, ended, inited}
      BY <2>3, FailIs
    <3>2. o.err \in Errors /\ o.err # None
      BY <3>1, NoneIsNoError DEF Errors
    <3> HIDE DEF ended, inited
    <3> QED BY <1>4, <3>1, <3>2 DEF Harmless
  <2> QED BY <2>1, <2>2, <2>3
<1>6. CASE t.func = "nop" /\ f # "nop"
  <2>1. o = Done(i1) \/ o \in Fail("init", {t, inited})
    BY <1>6 DEF FuncStart
  <2>2. CASE o = Done(i1)
    <3>1. o.t = i1 /\ o.err = None
      BY <2>2 DEF Done
    <3> HIDE DEF i1
    <3> QED BY <1>3, <1>6, <3>1 DEF Harmless, InOrder
  <2>3. CASE o \in Fail("init", {t, inited})
    <3>1. o.err = "init" /\ o.t \in {t, ended, inited}
      BY <2>3, FailIs
    <3>2. o.err \in Errors /\ o.err # None
      BY <3>1, NoneIsNoError DEF Errors
    <3> HIDE DEF ended, inited
    <3> QED BY <1>4, <3>1, <3>2 DEF Harmless
  <2> QED BY <2>1, <2>2, <2>3
<1>7. CASE ~(t.func # "nop" /\ f = "nop") /\ ~(t.func = "nop" /\ f # "nop")
  <2>1. o = Done(begun)
    BY <1>7, Zenon DEF FuncStart
  <2>2. o.t = begun /\ o.err = None
    BY <2>1 DEF Done
  <2> HIDE DEF begun
  <2> QED BY <1>1, <1>7, <2>2 DEF Harmless, InOrder
<1> QED BY <1>5, <1>6, <1>7

(* flash_algo_set leaves the algorithm of the address, ready to run.        *)
LEMMA AlgoSets ==
  ASSUME NEW t \in TargetType, InOrder(t), NEW a, NEW o \in AlgoSet(t, a)
  PROVE  /\ Harmless(t, o)
         /\ o.err = None =>
              InOrder(o.t) /\ o.t.algo = AlgoFor(t, a) /\ o.t.algo # None
<1> DEFINE algo == AlgoFor(t, a)
           Op(u) == {Done([u EXCEPT !.loaded = algo, !.algo = algo])}
                       \cup Fail("algo_dl", {u, [u EXCEPT !.loaded = None]})
<1>0. algo \in Loads
  <2>1. t.default \in Algorithms \cup {None}
    BY DefaultIs DEF TargetType, Loads
  <2> QED BY <2>1, AlgoKind DEF Loads
<1>1. CASE algo = None
  <2>1. o = Failed("algo_missing", t)
    BY <1>1 DEF AlgoSet
  <2>2. o.err = "algo_missing" /\ o.t = t
    BY <2>1 DEF Failed
  <2> QED BY <2>2, NoneIsNoError DEF Harmless, Errors
<1>2. CASE algo # None /\ algo = t.algo
  <2>1. o = Done(t)
    BY <1>2 DEF AlgoSet
  <2>2. o.err = None /\ o.t = t
    BY <2>1 DEF Done
  <2> QED BY <1>2, <2>2 DEF Harmless
<1>3. CASE algo # None /\ algo # t.algo
  <2>1. o \in Then(FuncStart(t, "nop"), Op)
    BY <1>3, Zenon DEF AlgoSet
  <2>2. PICK p \in FuncStart(t, "nop") :
          (p.err = None /\ o \in Op(p.t)) \/ (p.err # None /\ o = p)
    <3> HIDE DEF algo, Op
    <3> QED BY <2>1 DEF Then
  <2>3. /\ Harmless(t, p) /\ p.t.algo = t.algo /\ p.t.loaded = t.loaded
        /\ p.err = None => p.t.func = "nop" /\ InOrder(p.t)
    BY FuncStarts DEF Funcs
  <2>4. CASE p.err # None /\ o = p
    BY <2>3, <2>4
  <2>5. CASE p.err = None /\ o \in Op(p.t)
    <3> DEFINE u == p.t
               v == [u EXCEPT !.loaded = algo, !.algo = algo]
               w == [u EXCEPT !.loaded = None]
    <3>0. u \in TargetType /\ u.default = t.default /\ u.mem = t.mem
          /\ u.strayed = t.strayed /\ u.func = "nop"
      BY <2>3, <2>5 DEF Harmless
    <3>1. o = Done(v) \/ o \in Fail("algo_dl", {u, w})
      BY <2>5
    <3> HIDE DEF algo, u
    <3>2. /\ v \in TargetType /\ v.default = u.default /\ v.mem = u.mem /\ v.func = u.func
          /\ v.strayed = u.strayed /\ v.algo = algo /\ v.loaded = algo
      BY <1>0, <3>0 DEF TargetType
    <3>3. /\ w \in TargetType /\ w.default = u.default /\ w.mem = u.mem
          /\ w.strayed = u.strayed
      BY <3>0 DEF TargetType, Loads
    <3> HIDE DEF v, w
    <3>4. CASE o = Done(v)
      <4>1. o.err = None /\ o.t = v
        BY <3>4 DEF Done
      <4> QED BY <1>3, <3>0, <3>2, <4>1 DEF Harmless, InOrder, algo
    <3>5. CASE o \in Fail("algo_dl", {u, w})
      <4>1. o.err = "algo_dl" /\ o.t \in {u, w}
        BY <3>5, FailIs
      <4> QED BY <3>0, <3>3, <4>1, NoneIsNoError DEF Harmless, Errors
    <3> QED BY <3>1, <3>4, <3>5
  <2> QED BY <2>2, <2>4, <2>5
<1> QED BY <1>1, <1>2, <1>3

(* flash_erase_sector changes one sector, with the algorithm of the sector. *)
Confined(t, o, d) ==
  /\ o.t \in TargetType /\ o.err \in Errors \cup {None}
  /\ o.t.default = t.default /\ ~o.t.strayed
  /\ \A x \in Addresses : o.t.mem[x] # t.mem[x] => SectorOf(x) = d

Wiped(mem, d) == [x \in Addresses |-> IF SectorOf(x) = d THEN FF ELSE mem[x]]

LEMMA EraseFacts ==
  ASSUME NEW u \in TargetType, ~u.strayed, u.inited, NEW a, u.loaded = AlgoFor(u, a)
  PROVE  LET v == Erased(u, a)
         IN  /\ v \in TargetType /\ ~v.strayed /\ v.mem = Wiped(u.mem, SectorOf(a))
             /\ v.default = u.default /\ v.algo = u.algo /\ v.loaded = u.loaded
             /\ v.inited = u.inited /\ v.func = u.func
<1> DEFINE m == [x \in Addresses |-> IF SectorOf(x) = SectorOf(a) THEN FF ELSE u.mem[x]]
           b == u.strayed \/ ~Prepared(u, a)
<1>1. Erased(u, a) = [u EXCEPT !.strayed = b, !.mem = m]
  BY DEF Erased
<1>2. ~b /\ b \in BOOLEAN
  BY DEF Prepared, TargetType
<1>3. m \in [Addresses -> Cells]
  BY TargetFlashAssumption DEF TargetType, Cells
<1>4. m = Wiped(u.mem, SectorOf(a))
  BY DEF Wiped
<1> HIDE DEF m, b
<1> QED BY <1>1, <1>2, <1>3, <1>4 DEF TargetType

LEMMA EraseKeeps ==
  ASSUME NEW t \in TargetType, InOrder(t), ~t.strayed, NEW a, t.algo = AlgoFor(t, a),
         NEW o \in EraseSector(t, a)
  PROVE  /\ Confined(t, o, SectorOf(a))
         /\ o.err = None =>
              /\ InOrder(o.t) /\ o.t.algo = t.algo
              /\ o.t.mem = Wiped(t.mem, SectorOf(a))
<1> DEFINE Op(u) == {Done(Erased(u, a))} \cup Fail("erase_sector", {u, Erased(u, a)})
<1>1. CASE t.algo = None \/ a % SectorSize(a) # 0
  <2>1. o = Failed("internal", t) \/ o = Failed("erase_sector", t)
    BY <1>1 DEF EraseSector
  <2>2. o.err \in Errors /\ o.t = t
    BY <2>1 DEF Failed, Errors
  <2> QED BY <2>2, NoneIsNoError DEF Confined
<1>2. CASE ~(t.algo = None \/ a % SectorSize(a) # 0)
  <2>1. o \in Then(FuncStart(t, "erase"), Op)
    BY <1>2, Zenon DEF EraseSector
  <2>2. PICK p \in FuncStart(t, "erase") :
          (p.err = None /\ o \in Op(p.t)) \/ (p.err # None /\ o = p)
    <3> HIDE DEF Op
    <3> QED BY <2>1 DEF Then
  <2>3. /\ Harmless(t, p) /\ p.t.algo = t.algo /\ p.t.loaded = t.loaded
        /\ p.err = None => p.t.func = "erase" /\ InOrder(p.t)
    BY FuncStarts DEF Funcs
  <2>4. CASE p.err # None /\ o = p
    BY <2>3, <2>4 DEF Harmless, Confined
  <2>5. CASE p.err = None /\ o \in Op(p.t)
    <3> DEFINE u == p.t
               v == Erased(u, a)
    <3>1. /\ u \in TargetType /\ ~u.strayed /\ u.mem = t.mem /\ u.default = t.default
          /\ InOrder(u) /\ u.algo = t.algo
      BY <2>3, <2>5 DEF Harmless
    <3>2. u.inited /\ u.loaded = AlgoFor(u, a)
      <4>1. AlgoFor(u, a) = AlgoFor(t, a)
        BY <3>1, AlgoByDefault
      <4>2. u.func = "erase" /\ u.algo # None
        BY <1>2, <2>3, <2>5
      <4> QED BY <3>1, <4>1, <4>2 DEF InOrder
    <3>3. o = Done(v) \/ o \in Fail("erase_sector", {u, v})
      BY <2>5
    <3> HIDE DEF u
    <3>4. /\ v \in TargetType /\ ~v.strayed /\ v.mem = Wiped(u.mem, SectorOf(a))
          /\ v.default = u.default /\ v.algo = u.algo /\ v.loaded = u.loaded
          /\ v.inited = u.inited /\ v.func = u.func
      BY <3>1, <3>2, EraseFacts
    <3> HIDE DEF v
    <3>5. \A x \in Addresses : v.mem[x] # t.mem[x] => SectorOf(x) = SectorOf(a)
      BY <3>1, <3>4 DEF Wiped
    <3>6. CASE o = Done(v)
      <4>1. o.err = None /\ o.t = v
        BY <3>6 DEF Done
      <4> QED BY <3>1, <3>4, <3>5, <4>1 DEF Confined, InOrder
    <3>7. CASE o \in Fail("erase_sector", {u, v})
      <4>1. o.err = "erase_sector" /\ o.t \in {u, v}
        BY <3>7, FailIs
      <4> QED BY <3>1, <3>4, <3>5, <4>1, NoneIsNoError DEF Confined, Errors
    <3> QED BY <3>3, <3>6, <3>7
  <2> QED BY <2>2, <2>4, <2>5
<1> QED BY <1>1, <1>2

LEMMA FlashUninits ==
  ASSUME NEW t \in TargetType, NEW o \in FlashUninit(t)
  PROVE  Harmless(t, o)
<1> DEFINE Op(u) == {Done([u EXCEPT !.inited = FALSE])}
<1>1. o \in Then(FuncStart(t, "nop"), Op)
  BY Zenon DEF FlashUninit
<1>2. PICK p \in FuncStart(t, "nop") :
        (p.err = None /\ o \in Op(p.t)) \/ (p.err # None /\ o = p)
  <2> HIDE DEF Op
  <2> QED BY <1>1 DEF Then
<1>3. Harmless(t, p)
  BY FuncStarts DEF Funcs
<1>4. CASE p.err = None /\ o \in Op(p.t)
  <2> DEFINE u == p.t
             v == [u EXCEPT !.inited = FALSE]
  <2>1. o.err = None /\ o.t = v
    BY <1>4 DEF Done
  <2>2. u \in TargetType /\ u.mem = t.mem /\ u.default = t.default /\ u.strayed = t.strayed
    BY <1>3 DEF Harmless
  <2> HIDE DEF u
  <2>3. /\ v \in TargetType /\ v.mem = u.mem /\ v.default = u.default
        /\ v.strayed = u.strayed
    BY <2>2 DEF TargetType
  <2> QED BY <2>1, <2>2, <2>3 DEF Harmless
<1> QED BY <1>2, <1>3, <1>4

LEMMA FlashInits ==
  ASSUME NEW t \in TargetType, NEW o \in FlashInit(t)
  PROVE  /\ o.t \in TargetType /\ o.err \in Errors \cup {None}
         /\ o.t.mem = t.mem /\ o.t.strayed = t.strayed
         /\ o.t.algo = None
         /\ o.err = None => InOrder(o.t)
<1> DEFINE reset == [t EXCEPT !.func = "nop", !.algo = None, !.inited = FALSE]
           dflt == IF DefaultAlgo = None THEN reset.default ELSE DefaultAlgo
           v == [reset EXCEPT !.default = dflt]
<1>1. o = Done(v) \/ o \in Fail("reset", {reset})
  BY DEF FlashInit
<1>2. /\ reset \in TargetType /\ reset.mem = t.mem /\ reset.strayed = t.strayed
      /\ reset.func = "nop" /\ reset.algo = None
  BY DEF TargetType, Funcs, Loads
<1>4. dflt \in Defaults /\ dflt = DefaultAlgo
  BY <1>2 DEF TargetType, Defaults
<1> HIDE DEF reset, dflt
<1>5. /\ v \in TargetType /\ v.mem = reset.mem /\ v.strayed = reset.strayed
      /\ v.func = reset.func /\ v.algo = reset.algo /\ v.default = dflt
  BY <1>2, <1>4 DEF TargetType
<1> HIDE DEF v
<1>6. CASE o = Done(v)
  <2>1. o.err = None /\ o.t = v
    BY <1>6 DEF Done
  <2> QED BY <1>2, <1>4, <1>5, <2>1 DEF InOrder
<1>7. CASE o \in Fail("reset", {reset})
  <2>1. o.err = "reset" /\ o.t = reset
    BY <1>7, FailIs
  <2> QED BY <1>2, <2>1, NoneIsNoError DEF InOrder, Errors
<1> QED BY <1>1, <1>6, <1>7

-----------------------------------------------------------------------------
(* The recursive functions of the model, up to n: pieces of a page, what    *)
(* the records of a file say, and their text.                               *)

PieceOf(p, k) ==
  SubSeq(p.buf, (k - 1) * p.n + 1, IF k * p.n < Len(p.buf) THEN k * p.n ELSE Len(p.buf))

RecStep(which, p, k, x) ==
  CASE which = "page" -> Then(x, LAMBDA u : ProgramPiece(u, p.a + (k - 1) * p.n, PieceOf(p, k)))
    [] which = "told" -> Said(x, p[k])
    [] which = "text" -> IF k = 1 THEN Line(p, k) ELSE x \o Line(p, k)

Recursive(which, p, base, n, g) ==
  g = [k \in 0 .. n |-> IF k = 0 THEN base ELSE RecStep(which, p, k, g[k - 1])]

(* What is so at 0 and goes on is so everywhere up to m.                    *)
LEMMA Induction ==
  ASSUME NEW m \in Nat, NEW T, 0 \in T,
         \A i \in 0 .. m : i + 1 \in 0 .. m /\ i \in T => i + 1 \in T
  PROVE  0 .. m \subseteq T
<1> DEFINE Bad == {i \in 0 .. m : i \notin T}
<1>1. SUFFICES ASSUME Bad # {} PROVE FALSE
  OBVIOUS
<1>2. Bad \subseteq Nat
  OBVIOUS
<1>3. PICK x \in Bad : \A y \in Bad : x <= y
  <2> HIDE DEF Bad
  <2> QED BY <1>1, <1>2, NatMin
<1>4. x \in 0 .. m /\ x # 0 /\ x \notin T
  OBVIOUS
<1>5. PICK n \in 0 .. m : x = n + 1
  <2>1. x - 1 \in 0 .. m /\ x = (x - 1) + 1
    BY <1>4
  <2> QED BY <2>1
<1>6. n \notin Bad
  <2>1. ~(x <= n)
    BY <1>4, <1>5
  <2> QED BY <1>3, <2>1
<1>7. n \in T
  BY <1>6
<1> QED BY <1>4, <1>5, <1>7

LEMMA RecursiveExists ==
  ASSUME NEW which, NEW p, NEW base, NEW n \in Nat
  PROVE  \E g : Recursive(which, p, base, n, g)
<1> DEFINE St(k, x) == IF k = 0 THEN base ELSE RecStep(which, p, k, x)
           T == {m \in Nat : \E g : g = [k \in 0 .. m |-> St(k, g[k - 1])]}
<1>1. 0 \in T
  <2> DEFINE g == [k \in 0 .. 0 |-> base]
  <2>1. \A k \in 0 .. 0 : \A x : St(k, x) = base
    OBVIOUS
  <2> HIDE DEF St
  <2>2. g = [k \in 0 .. 0 |-> St(k, g[k - 1])]
    BY <2>1
  <2> HIDE DEF g
  <2> QED BY <2>2
<1>2. ASSUME NEW m \in 0 .. n, m \in T
      PROVE  m + 1 \in T
  <2> HIDE DEF St
  <2>1. PICK g : g = [k \in 0 .. m |-> St(k, g[k - 1])]
    BY <1>2
  <2>2. m \in Nat /\ m + 1 \in Nat
    OBVIOUS
  <2>3. \A k \in 0 .. m : g[k] = St(k, g[k - 1])
    BY <2>1, Zenon
  <2> DEFINE h == [k \in 0 .. m + 1 |-> IF k = m + 1 THEN St(k, g[m]) ELSE g[k]]
  <2>4. \A k \in 0 .. m : h[k] = g[k]
    BY <2>2
  <2>5. h[m + 1] = St(m + 1, g[m])
    BY <2>2
  <2>6. h = [k \in 0 .. m + 1 |-> h[k]]
    OBVIOUS
  <2> HIDE DEF h
  <2>7. ASSUME NEW k \in 0 .. m + 1
        PROVE  h[k] = St(k, h[k - 1])
    <3>1. CASE k = m + 1
      <4>1. k - 1 = m /\ m \in 0 .. m
        BY <2>2, <3>1
      <4> QED BY <2>4, <2>5, <3>1, <4>1
    <3>2. CASE k = 0
      <4>1. \A x : St(k, x) = base
        BY <3>2 DEF St
      <4>2. k \in 0 .. m
        BY <2>2, <3>2
      <4> QED BY <2>3, <2>4, <4>1, <4>2
    <3>3. CASE k # 0 /\ k # m + 1
      <4>1. k \in 0 .. m /\ k - 1 \in 0 .. m
        BY <2>2, <3>3
      <4> QED BY <2>3, <2>4, <4>1
    <3> QED BY <3>1, <3>2, <3>3
  <2>8. h = [k \in 0 .. m + 1 |-> St(k, h[k - 1])]
    BY <2>6, <2>7
  <2> QED BY <2>2, <2>8
<1> HIDE DEF T
<1>3. n \in T
  BY <1>1, <1>2, Induction
<1> QED BY <1>3 DEF Recursive, T

Unrolled(which, p, base, n, g) ==
  /\ g[0] = base
  /\ \A k \in 0 .. n : k + 1 \in 0 .. n =>
       g[k + 1] = RecStep(which, p, k + 1, g[k])

LEMMA RecursiveUnrolls ==
  ASSUME NEW which, NEW p, NEW base, NEW n \in Nat, NEW g, Recursive(which, p, base, n, g)
  PROVE  Unrolled(which, p, base, n, g)
<1>1. \A k \in 0 .. n : g[k] = IF k = 0 THEN base ELSE RecStep(which, p, k, g[k - 1])
  BY Zenon DEF Recursive
<1>2. 0 \in 0 .. n
  OBVIOUS
<1>3. ASSUME NEW k \in 0 .. n, k + 1 \in 0 .. n
      PROVE  g[k + 1] = RecStep(which, p, k + 1, g[k])
  <2>1. k + 1 # 0 /\ (k + 1) - 1 = k
    OBVIOUS
  <2> QED BY <1>1, <1>3, <2>1
<1> QED BY <1>1, <1>2, <1>3 DEF Unrolled

-----------------------------------------------------------------------------
(* flash_program_page                                                       *)

(* The page p is being programmed, algo ready, and no cell outside changed. *)
PageAlgo(t, p) ==
  /\ t.algo # None /\ p.a \in Nat /\ p.buf \in Seq(Bytes) /\ p.n = BufferSize[t.algo]
  /\ \A x \in p.a .. (p.a + Len(p.buf)) - 1 : AlgoFor(t, x) = t.algo

InPage(p, x) == x >= p.a /\ x < p.a + Len(p.buf)

(* What a part of a page leaves, of which the bytes before m are written.   *)
PageKept(t, p, o) ==
  /\ o.t \in TargetType /\ o.err \in Errors \cup {None}
  /\ o.t.default = t.default /\ ~o.t.strayed
  /\ \A x \in Addresses : ~InPage(p, x) => o.t.mem[x] = t.mem[x]

PageDone(t, p, m, o) ==
  /\ InOrder(o.t) /\ o.t.algo = t.algo /\ o.t.func # "nop"
  /\ \A x \in Addresses : InPage(p, x) =>
       IF x < p.a + m
       THEN o.t.mem[x] = p.buf[(x - p.a) + 1] /\ o.t.mem[x] = Cell(t.mem[x], p.buf[(x - p.a) + 1])
       ELSE o.t.mem[x] = t.mem[x]

PageAt(t, p, m, outs) ==
  \A o \in outs : PageKept(t, p, o) /\ (o.err = None => PageDone(t, p, m, o))

LEMMA Programs ==
  ASSUME NEW u \in TargetType, ~u.strayed, u.inited, NEW a, u.loaded = AlgoFor(u, a),
         a \in Nat, NEW buf \in Seq(Bytes)
  PROVE  LET v == Programmed(u, a, buf)
         IN  /\ v \in TargetType /\ ~v.strayed
             /\ v.default = u.default /\ v.algo = u.algo /\ v.loaded = u.loaded
             /\ v.inited = u.inited /\ v.func = u.func
             /\ \A x \in Addresses :
                  v.mem[x] = IF x >= a /\ x < a + Len(buf)
                             THEN Cell(u.mem[x], buf[(x - a) + 1]) ELSE u.mem[x]
<1> DEFINE m == [x \in Addresses |->
                   IF x >= a /\ x < a + Len(buf)
                   THEN Cell(u.mem[x], buf[(x - a) + 1]) ELSE u.mem[x]]
           b == u.strayed \/ ~Prepared(u, a)
<1>1. Programmed(u, a, buf) = [u EXCEPT !.strayed = b, !.mem = m]
  BY DEF Programmed
<1>2. ~b /\ b \in BOOLEAN
  BY DEF Prepared, TargetType
<1>3. m \in [Addresses -> Cells]
  <2>1. \A x \in Addresses : u.mem[x] \in Cells /\ x \in Nat
    BY TargetFlashAssumption DEF TargetType
  <2>2. \A x \in Addresses : x >= a /\ x < a + Len(buf) => buf[(x - a) + 1] \in Bytes
    <3>1. \A x \in Addresses : x >= a /\ x < a + Len(buf) => (x - a) + 1 \in DOMAIN buf
      BY <2>1
    <3> QED BY <3>1, ElementOfSeq
  <2>3. \A old \in Cells, new \in Bytes : Cell(old, new) \in Cells
    BY DEF Cell, Cells
  <2> QED BY <2>1, <2>2, <2>3
<1>4. \A x \in Addresses : m[x] = IF x >= a /\ x < a + Len(buf)
                                  THEN Cell(u.mem[x], buf[(x - a) + 1]) ELSE u.mem[x]
  OBVIOUS
<1> HIDE DEF m, b
<1> QED BY <1>1, <1>2, <1>3, <1>4 DEF TargetType

LEMMA VerifyKeeps ==
  ASSUME NEW t \in TargetType, InOrder(t), t.func # "nop", NEW a, NEW buf,
         NEW o \in Verify(t, a, buf)
  PROVE  /\ Harmless(t, o)
         /\ o.err = None =>
              /\ InOrder(o.t) /\ o.t.algo = t.algo /\ o.t.func # "nop"
              /\ Holds(o.t, a, buf)
<1> DEFINE check(u) == (IF Holds(u, a, buf) THEN {Done(u)} ELSE {Failed("verify", u)})
                       \cup Fail("verify", {u})
<1>1. ASSUME NEW u \in TargetType, InOrder(u), u.func # "nop", NEW q \in check(u)
      PROVE  /\ q.t = u /\ q.err \in Errors \cup {None}
             /\ q.err = None => Holds(u, a, buf)
  <2>1. \/ q = Done(u) /\ Holds(u, a, buf)
        \/ q = Failed("verify", u)
        \/ q \in Fail("verify", {u})
    BY <1>1
  <2>2. CASE q = Done(u) /\ Holds(u, a, buf)
    BY <2>2 DEF Done
  <2>3. CASE q = Failed("verify", u)
    BY <2>3, NoneIsNoError DEF Failed, Errors
  <2>4. CASE q \in Fail("verify", {u})
    <3>1. q.err = "verify" /\ q.t = u
      BY <2>4, FailIs
    <3> QED BY <3>1, NoneIsNoError DEF Errors
  <2> QED BY <2>1, <2>2, <2>3, <2>4
<1>2. o \in IF t.algo \in HasVerify THEN Then(FuncStart(t, "verify"), check) ELSE check(t)
  BY Zenon DEF Verify
<1> HIDE DEF check
<1>3. CASE o \in check(t)
  <2>1. o.t = t /\ o.err \in Errors \cup {None} /\ (o.err = None => Holds(t, a, buf))
    BY <1>1, <1>3
  <2> QED BY <2>1 DEF Harmless
<1>4. CASE o \in Then(FuncStart(t, "verify"), check)
  <2>1. PICK p \in FuncStart(t, "verify") :
          (p.err = None /\ o \in check(p.t)) \/ (p.err # None /\ o = p)
    BY <1>4 DEF Then
  <2>2. /\ Harmless(t, p) /\ p.t.algo = t.algo
        /\ p.err = None => p.t.func = "verify" /\ InOrder(p.t)
    BY FuncStarts DEF Funcs
  <2>3. CASE p.err # None /\ o = p
    BY <2>2, <2>3
  <2>4. CASE p.err = None /\ o \in check(p.t)
    <3> DEFINE u == p.t
    <3>1. u \in TargetType /\ InOrder(u) /\ u.func # "nop"
      BY <2>2, <2>4 DEF Harmless
    <3> HIDE DEF u
    <3>2. o \in check(u)
      BY <2>4 DEF u
    <3>3. o.t = u /\ o.err \in Errors \cup {None} /\ (o.err = None => Holds(u, a, buf))
      BY <1>1, <3>1, <3>2
    <3> QED BY <2>2, <3>1, <3>3 DEF Harmless, u
  <2> QED BY <2>1, <2>3, <2>4
<1> QED BY <1>2, <1>3, <1>4

LEMMA PieceKeeps ==
  ASSUME NEW u \in TargetType, ~u.strayed, InOrder(u), u.func # "nop", u.algo # None,
         NEW a \in Nat, NEW buf \in Seq(Bytes), AlgoFor(u, a) = u.algo,
         NEW o \in ProgramPiece(u, a, buf)
  PROVE  /\ o.t \in TargetType /\ o.err \in Errors \cup {None}
         /\ o.t.default = u.default /\ ~o.t.strayed
         /\ \A x \in Addresses : ~(x >= a /\ x < a + Len(buf)) => o.t.mem[x] = u.mem[x]
         /\ o.err = None =>
              /\ InOrder(o.t) /\ o.t.algo = u.algo /\ o.t.func # "nop"
              /\ \A x \in Addresses : x >= a /\ x < a + Len(buf) =>
                   /\ o.t.mem[x] = buf[(x - a) + 1]
                   /\ o.t.mem[x] = Cell(u.mem[x], buf[(x - a) + 1])
<1> DEFINE v == Programmed(u, a, buf)
           X == {Done(v)} \cup Fail("write", {u, v})
           Op(w) == Verify(w, a, buf)
<1>1. o \in Then(X, Op)
  BY Zenon DEF ProgramPiece
<1>2. PICK p \in X : (p.err = None /\ o \in Op(p.t)) \/ (p.err # None /\ o = p)
  <2> HIDE DEF X, Op
  <2> QED BY <1>1 DEF Then
<1>3. /\ v \in TargetType /\ ~v.strayed
      /\ v.default = u.default /\ v.algo = u.algo /\ v.loaded = u.loaded
      /\ v.inited = u.inited /\ v.func = u.func
      /\ \A x \in Addresses :
           v.mem[x] = IF x >= a /\ x < a + Len(buf)
                      THEN Cell(u.mem[x], buf[(x - a) + 1]) ELSE u.mem[x]
  <2>1. u.inited /\ u.loaded = AlgoFor(u, a)
    BY DEF InOrder
  <2> QED BY <2>1, Programs
<1>4. p = Done(v) \/ p \in Fail("write", {u, v})
  OBVIOUS
<1> HIDE DEF v
<1>5. CASE p \in Fail("write", {u, v})
  <2>1. p.err = "write" /\ p.t \in {u, v}
    BY <1>5, FailIs
  <2>2. p.err \in Errors /\ p.err # None /\ o = p
    BY <1>2, <2>1, NoneIsNoError DEF Errors
  <2> QED BY <1>3, <2>1, <2>2
<1>6. CASE p = Done(v)
  <2>1. p.err = None /\ p.t = v
    BY <1>6 DEF Done
  <2>2. o \in Verify(v, a, buf)
    BY <1>2, <2>1
  <2>3. InOrder(v) /\ v.func # "nop"
    BY <1>3 DEF InOrder
  <2>4. /\ Harmless(v, o)
        /\ o.err = None =>
             /\ InOrder(o.t) /\ o.t.algo = v.algo /\ o.t.func # "nop"
             /\ Holds(o.t, a, buf)
    BY <1>3, <2>2, <2>3, VerifyKeeps
  <2>5. ASSUME o.err = None, NEW x \in Addresses, x >= a, x < a + Len(buf)
        PROVE  o.t.mem[x] = buf[(x - a) + 1]
    <3>1. Holds(o.t, a, buf)
      BY <2>4, <2>5
    <3> DEFINE i == (x - a) + 1
    <3>2. x \in Nat /\ i \in DOMAIN buf /\ (a + i) - 1 = x
      BY <2>5, TargetFlashAssumption
    <3> HIDE DEF i
    <3>3. o.t.mem[(a + i) - 1] = buf[i]
      BY <3>1, <3>2 DEF Holds
    <3> QED BY <3>2, <3>3 DEF i
  <2>6. \A x \in Addresses : o.t.mem[x] = v.mem[x]
    BY <2>4 DEF Harmless
  <2> QED BY <1>3, <2>4, <2>5, <2>6 DEF Harmless
<1> QED BY <1>4, <1>5, <1>6

LEMMA PartOf ==
  ASSUME NEW S, NEW q \in Seq(S), NEW m \in Nat, NEW l \in Nat, m <= l, l <= Len(q)
  PROVE  /\ SubSeq(q, m + 1, l) \in Seq(S) /\ Len(SubSeq(q, m + 1, l)) = l - m
         /\ \A i \in 1 .. l - m : SubSeq(q, m + 1, l)[i] = q[m + i]
<1>1. Len(SubSeq(q, m + 1, l)) = l - m
  OBVIOUS
<1>2. ASSUME NEW i \in 1 .. l - m PROVE SubSeq(q, m + 1, l)[i] = q[m + i]
  OBVIOUS
<1>3. SubSeq(q, m + 1, l) \in Seq(S)
  OBVIOUS
<1> QED BY <1>1, <1>2, <1>3

(* The bytes before piece k + 1 of a page.                                  *)
Upto(p, k) == IF k * p.n < Len(p.buf) THEN k * p.n ELSE Len(p.buf)

LEMMA PieceStep ==
  ASSUME NEW t, NEW p, PageAlgo(t, p), p.n \in Nat, p.n > 0,
         NEW k \in Nat, k * p.n < Len(p.buf), NEW outs, PageAt(t, p, Upto(p, k), outs)
  PROVE  PageAt(t, p, Upto(p, k + 1), RecStep("page", p, k + 1, outs))
<1> DEFINE b == p.a
           n == p.n
           z == Len(p.buf)
           m == k * n
           l == Upto(p, k + 1)
           a == b + m
           piece == PieceOf(p, k + 1)
           Op(u) == ProgramPiece(u, b + ((k + 1) - 1) * n, piece)
<1>1. /\ b \in Nat /\ p.buf \in Seq(Bytes) /\ z \in Nat /\ t.algo # None
      /\ \A x \in b .. (b + z) - 1 : AlgoFor(t, x) = t.algo
  BY DEF PageAlgo
<1>2. m \in Nat /\ (k + 1) * n = m + n /\ ((k + 1) - 1) * n = m /\ m < z /\ n \in Nat /\ n > 0
  OBVIOUS
<1>4. Upto(p, k) = m
  BY DEF Upto
<1>12. l = IF (k + 1) * n < z THEN (k + 1) * n ELSE z
  BY DEF Upto
<1>13. piece = SubSeq(p.buf, ((k + 1) - 1) * n + 1, IF (k + 1) * n < z THEN (k + 1) * n ELSE z)
  BY DEF PieceOf
<1>7. RecStep("page", p, k + 1, outs) = Then(outs, Op)
  BY DEF RecStep
<1>8. \A u : Op(u) = ProgramPiece(u, a, piece)
  BY <1>2
<1>14. \A x : InPage(p, x) <=> x >= b /\ x < b + z
  BY DEF InPage
<1> HIDE DEF m, l, piece, Op, n, b, z
<1>3. l \in Nat /\ m < l /\ l <= z /\ a \in Nat
  BY <1>1, <1>2, <1>12
<1>5. piece = SubSeq(p.buf, m + 1, l)
  BY <1>2, <1>12, <1>13
<1>6. /\ piece \in Seq(Bytes) /\ Len(piece) = l - m
      /\ \A i \in 1 .. l - m : piece[i] = p.buf[m + i]
  BY <1>1, <1>2, <1>3, <1>5, PartOf DEF z
<1>9. AlgoFor(t, a) = t.algo
  BY <1>1, <1>2, <1>3
<1> HIDE DEF a
<1>10. ASSUME NEW q \in outs, q.err = None, NEW o \in ProgramPiece(q.t, a, piece)
       PROVE  PageKept(t, p, o) /\ (o.err = None => PageDone(t, p, l, o))
  <2> DEFINE u == q.t
  <2>1. PageKept(t, p, q) /\ PageDone(t, p, m, q)
    BY <1>4, <1>10 DEF PageAt
  <2>2. /\ u \in TargetType /\ ~u.strayed /\ InOrder(u) /\ u.func # "nop"
        /\ u.algo = t.algo /\ u.default = t.default
        /\ \A x \in Addresses : ~InPage(p, x) => u.mem[x] = t.mem[x]
        /\ \A x \in Addresses : InPage(p, x) =>
             IF x < b + m
             THEN u.mem[x] = p.buf[(x - b) + 1] /\ u.mem[x] = Cell(t.mem[x], p.buf[(x - b) + 1])
             ELSE u.mem[x] = t.mem[x]
    BY <2>1 DEF PageKept, PageDone, b
  <2>3. AlgoFor(u, a) = u.algo
    BY <1>9, <2>2, AlgoByDefault
  <2> HIDE DEF u
  <2>4. o \in ProgramPiece(u, a, piece)
    BY <1>10 DEF u
  <2>5. /\ o.t \in TargetType /\ o.err \in Errors \cup {None}
        /\ o.t.default = u.default /\ ~o.t.strayed
        /\ \A x \in Addresses : ~(x >= a /\ x < a + Len(piece)) => o.t.mem[x] = u.mem[x]
        /\ o.err = None =>
             /\ InOrder(o.t) /\ o.t.algo = u.algo /\ o.t.func # "nop"
             /\ \A x \in Addresses : x >= a /\ x < a + Len(piece) =>
                  /\ o.t.mem[x] = piece[(x - a) + 1]
                  /\ o.t.mem[x] = Cell(u.mem[x], piece[(x - a) + 1])
    BY <1>1, <1>3, <1>6, <2>2, <2>3, <2>4, PieceKeeps
  <2>6. ASSUME NEW x \in Addresses
        PROVE  x >= a /\ x < a + Len(piece) <=> InPage(p, x) /\ x >= b + m /\ x < b + l
    <3>1. x \in Nat
      BY TargetFlashAssumption
    <3>2. a = b + m /\ Len(piece) = l - m
      BY <1>6 DEF a
    <3>3. b \in Nat /\ m \in Nat /\ l \in Nat /\ z \in Nat /\ m < l /\ l <= z
      BY <1>1, <1>2, <1>3
    <3>4. InPage(p, x) <=> x >= b /\ x < b + z
      BY <1>14
    <3> QED BY <3>1, <3>2, <3>3, <3>4
  <2>7. PageKept(t, p, o)
    BY <2>2, <2>5, <2>6 DEF PageKept
  <2>8. ASSUME o.err = None, NEW x \in Addresses, InPage(p, x)
        PROVE  IF x < b + l
               THEN /\ o.t.mem[x] = p.buf[(x - b) + 1]
                    /\ o.t.mem[x] = Cell(t.mem[x], p.buf[(x - b) + 1])
               ELSE o.t.mem[x] = t.mem[x]
    <3>1. x \in Nat /\ b + m \in Nat /\ b + l \in Nat /\ b + m < b + l
      BY <1>1, <1>2, <1>3, TargetFlashAssumption
    <3>2. CASE x < b + m
      <4>1. o.t.mem[x] = u.mem[x] /\ x < b + l
        BY <2>5, <2>6, <3>1, <3>2
      <4> QED BY <2>2, <2>8, <3>2, <4>1
    <3>3. CASE x >= b + l
      <4>1. o.t.mem[x] = u.mem[x] /\ ~(x < b + m) /\ ~(x < b + l)
        BY <2>5, <2>6, <3>1, <3>3
      <4> QED BY <2>2, <2>8, <4>1
    <3>4. CASE x >= b + m /\ x < b + l
      <4>1. x >= a /\ x < a + Len(piece) /\ ~(x < b + m)
        BY <2>6, <2>8, <3>1, <3>4
      <4>2. u.mem[x] = t.mem[x]
        BY <2>2, <2>8, <4>1
      <4>3. piece[(x - a) + 1] = p.buf[(x - b) + 1]
        <5> DEFINE i == (x - a) + 1
        <5>1. i \in 1 .. l - m /\ m + i = (x - b) + 1
          BY <1>1, <1>2, <1>3, <3>1, <3>4 DEF a
        <5> HIDE DEF i
        <5>2. piece[i] = p.buf[m + i]
          BY <1>6, <5>1
        <5> QED BY <5>1, <5>2 DEF i
      <4> QED BY <2>5, <2>8, <3>4, <4>1, <4>2, <4>3
    <3> QED BY <3>1, <3>2, <3>3, <3>4
  <2>9. ASSUME o.err = None PROVE PageDone(t, p, l, o)
    <3>1. InOrder(o.t) /\ o.t.algo = t.algo /\ o.t.func # "nop"
      BY <2>2, <2>5, <2>9
    <3> QED BY <2>8, <2>9, <3>1 DEF PageDone, b
  <2> QED BY <2>7, <2>9
<1>11. ASSUME NEW o \in RecStep("page", p, k + 1, outs)
       PROVE  PageKept(t, p, o) /\ (o.err = None => PageDone(t, p, l, o))
  <2>1. PICK q \in outs : (q.err = None /\ o \in Op(q.t)) \/ (q.err # None /\ o = q)
    BY <1>7, <1>11 DEF Then
  <2>2. CASE q.err = None /\ o \in Op(q.t)
    BY <1>8, <1>10, <2>2
  <2>3. CASE q.err # None /\ o = q
    BY <2>1, <2>3 DEF PageAt
  <2> QED BY <2>1, <2>2, <2>3
<1> QED BY <1>11 DEF PageAt, l

LEMMA PageFold ==
  ASSUME NEW t, t.algo \in Algorithms, NEW a, NEW buf \in Seq(Bytes)
  PROVE  LET n == BufferSize[t.algo]
             pieces == (Len(buf) + n - 1) \div n
             p == [a |-> a, buf |-> buf, n |-> n]
         IN  \E g : /\ Recursive("page", p, FuncStart(t, "program"), pieces, g)
                    /\ ProgramPage(t, a, buf) = g[pieces]
<1> DEFINE n == BufferSize[t.algo]
           pieces == (Len(buf) + n - 1) \div n
           p == [a |-> a, buf |-> buf, n |-> n]
           base == FuncStart(t, "program")
           op(x, k) == Then(x, LAMBDA u : ProgramPiece(u, a + (k - 1) * n,
                                          SubSeq(buf, (k - 1) * n + 1,
                                                 IF k * n < Len(buf) THEN k * n ELSE Len(buf))))
           after[k \in 0 .. pieces] == IF k = 0 THEN base ELSE op(after[k - 1], k)
<1>1. pieces \in Nat
  <2>1. n \in Nat /\ n > 0 /\ Len(buf) \in Nat
    BY TargetFlashAssumption
  <2> DEFINE m == Len(buf) + n - 1
  <2>2. m \in Nat
    BY <2>1
  <2> HIDE DEF n, m
  <2>3. m \div n \in Nat
    BY <2>1, <2>2, Euclid
  <2> QED BY <2>3 DEF m
<1>2. t.algo # None
  BY TargetFlashAssumption
<1>3. ProgramPage(t, a, buf) = after[pieces]
  BY <1>2, Zenon DEF ProgramPage
<1>4. PICK g : Recursive("page", p, base, pieces, g)
  <2> HIDE DEF p, base, pieces
  <2> QED BY <1>1, RecursiveExists
<1>5. \A x, k : RecStep("page", p, k, x) = op(x, k)
  <2> TAKE x, k
  <2>1. p.a = a /\ p.n = n /\ p.buf = buf
    OBVIOUS
  <2> HIDE DEF p, n
  <2>2. RecStep("page", p, k, x) =
          Then(x, LAMBDA u : ProgramPiece(u, p.a + (k - 1) * p.n, PieceOf(p, k)))
    BY DEF RecStep
  <2> QED BY <2>1, <2>2 DEF PieceOf
<1>6. g = [k \in 0 .. pieces |-> IF k = 0 THEN base ELSE op(g[k - 1], k)]
  <2> HIDE DEF base, pieces, op, after, p, n
  <2> QED BY <1>4, <1>5 DEF Recursive
<1>7. after = [k \in 0 .. pieces |-> IF k = 0 THEN base ELSE op(after[k - 1], k)]
  <2> HIDE DEF base, pieces, op, p, n
  <2> QED BY <1>6
<1>8. Recursive("page", p, base, pieces, after)
  <2> HIDE DEF base, pieces, op, after, p, n
  <2> QED BY <1>5, <1>7 DEF Recursive
<1> HIDE DEF after, op
<1> QED BY <1>3, <1>8

(* flash_program_page changes the page only, and reports success when every *)
(* cell of it has its byte.                                                 *)
LEMMA PageProgrammed ==
  ASSUME NEW t \in TargetType, InOrder(t), ~t.strayed, NEW a \in Nat, NEW buf \in Seq(Bytes),
         \A x \in a .. (a + Len(buf)) - 1 : AlgoFor(t, x) = t.algo,
         NEW o \in ProgramPage(t, a, buf)
  PROVE  /\ o.t \in TargetType /\ o.err \in Errors \cup {None}
         /\ o.t.default = t.default /\ ~o.t.strayed
         /\ \A x \in Addresses : ~(x >= a /\ x < a + Len(buf)) => o.t.mem[x] = t.mem[x]
         /\ o.err = None =>
              /\ InOrder(o.t) /\ o.t.algo = t.algo
              /\ \A x \in Addresses : x >= a /\ x < a + Len(buf) =>
                   /\ o.t.mem[x] = buf[(x - a) + 1]
                   /\ o.t.mem[x] = Cell(t.mem[x], buf[(x - a) + 1])
<1>1. CASE t.algo = None
  <2>1. o = Failed("algo_missing", t)
    BY <1>1 DEF ProgramPage
  <2>2. o.err = "algo_missing" /\ o.t = t
    BY <2>1 DEF Failed
  <2> QED BY <2>2, NoneIsNoError DEF Errors
<1>2. CASE t.algo # None
  <2> DEFINE n == BufferSize[t.algo]
             z == Len(buf)
             pieces == (z + n - 1) \div n
             p == [a |-> a, buf |-> buf, n |-> n]
             base == FuncStart(t, "program")
  <2>1. t.algo \in Algorithms
    BY <1>2 DEF TargetType, Loads
  <2>2. n \in Nat /\ n > 0 /\ z \in Nat
    BY <2>1, TargetFlashAssumption
  <2>3. PICK g : /\ Recursive("page", p, base, pieces, g)
                 /\ ProgramPage(t, a, buf) = g[pieces]
    BY <2>1, PageFold, Zenon
  <2>4. p.a = a /\ p.buf = buf /\ p.n = n
    OBVIOUS
  <2>5. PageAlgo(t, p)
    <3> HIDE DEF p
    <3> QED BY <1>2, <2>4 DEF PageAlgo
  <2>18. Len(p.buf) = z
    BY <2>4
  <2> HIDE DEF p, n, z
  <2>6. pieces \in Nat /\ pieces * n >= z /\ \A k \in Nat : k < pieces => k * n < z
    <3> DEFINE m == z + n - 1
               r == m % n
    <3>1. m \in Nat
      BY <2>2
    <3>2. pieces = m \div n
      OBVIOUS
    <3> HIDE DEF m, r, pieces
    <3>3. m \div n \in Nat /\ r \in 0 .. n - 1 /\ m = n * (m \div n) + r
      BY <2>2, <3>1, Euclid DEF r
    <3>4. pieces \in Nat /\ m = n * pieces + r
      BY <3>2, <3>3
    <3>5. n * pieces = pieces * n /\ pieces * n \in Nat
      BY <2>2, <3>4
    <3>6. pieces * n >= z
      <4> DEFINE w == pieces * n
      <4>1. m = w + r /\ w \in Nat
        BY <3>4, <3>5
      <4> HIDE DEF w
      <4>2. w >= z
        BY <2>2, <3>3, <4>1 DEF m
      <4> QED BY <4>2 DEF w
    <3>7. ASSUME NEW k \in Nat, k < pieces PROVE k * n < z
      <4> DEFINE w == n * pieces
                 v == n * k
      <4>1. n * (k + 1) <= n * pieces
        BY <2>2, <3>4, <3>7, Ordered
      <4>2. n * (k + 1) = v + n /\ v \in Nat /\ w \in Nat /\ k * n = v
        BY <2>2, <3>4
      <4>3. v + n <= w
        BY <4>1, <4>2
      <4> HIDE DEF v, w
      <4>4. m = w + r
        BY <3>4 DEF w
      <4>5. v < z
        BY <2>2, <3>3, <4>2, <4>3, <4>4 DEF m
      <4> QED BY <4>2, <4>5
    <3> QED BY <3>4, <3>6, <3>7
  <2> HIDE DEF pieces
  <2>7. g[0] = base /\ \A k \in 0 .. pieces : k + 1 \in 0 .. pieces =>
          g[k + 1] = RecStep("page", p, k + 1, g[k])
    <3>1. pieces \in Nat /\ Recursive("page", p, base, pieces, g)
      BY <2>3, <2>6
    <3> HIDE DEF base
    <3>2. Unrolled("page", p, base, pieces, g)
      BY <3>1, RecursiveUnrolls
    <3> QED BY <3>2 DEF Unrolled
  <2>8. PageAt(t, p, 0, base)
    <3> SUFFICES ASSUME NEW q \in base
                 PROVE  PageKept(t, p, q) /\ (q.err = None => PageDone(t, p, 0, q))
      BY DEF PageAt
    <3>1. /\ Harmless(t, q) /\ q.t.algo = t.algo /\ q.t.loaded = t.loaded
          /\ q.err = None => q.t.func = "program" /\ (InOrder(t) => InOrder(q.t))
      BY FuncStarts DEF base, Funcs
    <3>2. \A x \in Addresses : x \in Nat
      BY TargetFlashAssumption
    <3>3. PageKept(t, p, q)
      BY <3>1 DEF PageKept, Harmless
    <3>4. ASSUME q.err = None PROVE PageDone(t, p, 0, q)
      <4>1. InOrder(q.t) /\ q.t.algo = t.algo /\ q.t.func # "nop"
        BY <3>1, <3>4
      <4>2. \A x \in Addresses : q.t.mem[x] = t.mem[x]
        BY <3>1 DEF Harmless
      <4>3. \A x \in Addresses : InPage(p, x) => ~(x < p.a + 0)
        BY <2>4, <3>2 DEF InPage
      <4> QED BY <4>1, <4>2, <4>3 DEF PageDone
    <3> QED BY <3>3, <3>4
  <2> DEFINE T == {k \in 0 .. pieces : PageAt(t, p, Upto(p, k), g[k])}
  <2>9. 0 \in T
    <3>1. Upto(p, 0) = 0
      BY <2>2, <2>4, <2>18 DEF Upto
    <3> QED BY <2>6, <2>7, <2>8, <3>1
  <2>10. ASSUME NEW k \in 0 .. pieces, k + 1 \in 0 .. pieces, k \in T
         PROVE  k + 1 \in T
    <3>1. k \in Nat /\ k < pieces
      BY <2>6, <2>10
    <3>2. k * n < z
      BY <2>6, <3>1
    <3>3. PageAt(t, p, Upto(p, k + 1), RecStep("page", p, k + 1, g[k]))
      <4>1. PageAt(t, p, Upto(p, k), g[k])
        BY <2>10
      <4> QED BY <2>2, <2>4, <2>5, <2>18, <3>1, <3>2, <4>1, PieceStep
    <3> QED BY <2>7, <2>10, <3>3
  <2> HIDE DEF T, base
  <2>11. pieces \in T
    <3>1. pieces \in Nat /\ pieces \in 0 .. pieces
      BY <2>6
    <3>2. \A k \in 0 .. pieces : k + 1 \in 0 .. pieces /\ k \in T => k + 1 \in T
      BY <2>10
    <3>3. 0 .. pieces \subseteq T
      BY <2>9, <3>1, <3>2, Induction
    <3> QED BY <3>1, <3>3
  <2>12. Upto(p, pieces) = z
    <3>1. p.n = n /\ ~(pieces * n < z)
      <4> DEFINE w == pieces * n
      <4>1. w >= z /\ w \in Nat
        BY <2>2, <2>6
      <4> HIDE DEF w
      <4>2. ~(w < z)
        BY <2>2, <4>1
      <4> QED BY <2>4, <4>2 DEF w
    <3> QED BY <2>18, <3>1 DEF Upto
  <2>13. PageKept(t, p, o) /\ (o.err = None => PageDone(t, p, z, o))
    BY <2>3, <2>11, <2>12 DEF T, PageAt
  <2>14. \A x : InPage(p, x) <=> x >= a /\ x < a + z
    BY <2>4, <2>18 DEF InPage
  <2>15. z = Len(buf)
    BY DEF z
  <2>16. o.err = None =>
           /\ InOrder(o.t) /\ o.t.algo = t.algo
           /\ \A x \in Addresses : x >= a /\ x < a + z =>
                /\ o.t.mem[x] = buf[(x - a) + 1]
                /\ o.t.mem[x] = Cell(t.mem[x], buf[(x - a) + 1])
    BY <2>4, <2>13, <2>14 DEF PageDone
  <2>17. /\ o.t \in TargetType /\ o.err \in Errors \cup {None}
         /\ o.t.default = t.default /\ ~o.t.strayed
         /\ \A x \in Addresses : ~(x >= a /\ x < a + z) => o.t.mem[x] = t.mem[x]
    BY <2>13, <2>14 DEF PageKept
  <2> QED BY <2>15, <2>16, <2>17
<1> QED BY <1>1, <1>2

-----------------------------------------------------------------------------
(***************************************************************************)
(* The accessor.                                                           *)
(***************************************************************************)
AccessorType ==
  /\ target \in TargetType
  /\ flash_state \in {"CLOSED", "OPEN", "ERROR"}
  /\ current_sector_valid \in BOOLEAN /\ last_packet_addr \in Nat
  /\ current_write_block_addr \in Nat /\ current_write_block_size \in Nat
  /\ current_sector_addr \in Nat /\ current_sector_size \in Nat
  /\ page_buf_empty \in BOOLEAN /\ page_buffer \in [1 .. PageBuffer -> Bytes]
  /\ at \in {None, "first", "block", "sector", "flush", "end", "copy", "lost"}
  /\ todo \in [addr : Nat, data : Seq(Bytes)]
  /\ err \in Errors \cup {None} /\ overrun \in BOOLEAN

(* The current sector is one, its algorithm is loaded, and a page that      *)
(* holds something is a block of it.                                        *)
SectorSet ==
  /\ current_sector_size # 0
  /\ current_sector_addr = SectorOf(current_sector_addr)
  /\ current_sector_size = SectorSize(current_sector_addr)
  /\ current_write_block_size =
       IF current_sector_size <= PageBuffer THEN current_sector_size ELSE PageBuffer
  /\ target.algo = AlgoFor(target, current_sector_addr)
  /\ current_write_block_addr % current_write_block_size = 0
  /\ ~page_buf_empty => current_sector_addr <= current_write_block_addr /\ BlockEnd <= SectorEnd

(* The block of the packet's end is the current one, or nothing was written *)
(* since the sector was set up.                                             *)
AtBlock(a) ==
  \/ current_write_block_addr = RoundDown(a, current_write_block_size)
  \/ page_buf_empty /\ current_write_block_addr = current_sector_addr
     /\ current_sector_addr <= a /\ a < SectorEnd

(* The last packet ended with its sector, and this one begins behind it, no *)
(* further than a sector of that size would reach.                          *)
Behind ==
  /\ last_packet_addr = SectorOf(last_packet_addr)
  /\ RoundDown(todo.addr, SectorSize(last_packet_addr - 1)) = last_packet_addr

BehindSector ==
  /\ last_packet_addr = SectorEnd
  /\ RoundDown(todo.addr, current_sector_size) = last_packet_addr

LastInside == current_sector_addr <= last_packet_addr /\ last_packet_addr <= SectorEnd

(* Where the statements of a write find the block and the sector.           *)
Positions ==
  /\ at = None => LastInside
       /\ current_write_block_addr = RoundDown(last_packet_addr, current_write_block_size)
  /\ at = "block" => LastInside /\ AtBlock(last_packet_addr)
       /\ (current_write_block_addr # RoundDown(last_packet_addr, current_write_block_size)
           => todo.addr = last_packet_addr)
  /\ at = "sector" =>
       /\ LastInside /\ AtBlock(todo.addr)
       /\ ~page_buf_empty => \A a \in {todo.addr, last_packet_addr} :
            current_write_block_addr = RoundDown(a, current_write_block_size)
  /\ at \in {"flush", "end"} =>
       /\ current_sector_addr <= todo.addr /\ current_write_block_addr <= todo.addr
       /\ todo.addr <= SectorEnd \/ (BehindSector /\ todo.data # <<>>)
  /\ at = "end" => todo.addr < BlockEnd
  /\ at = "copy" =>
       /\ current_sector_addr <= todo.addr /\ todo.addr < SectorEnd
       /\ current_write_block_addr <= todo.addr
       /\ \/ todo.addr < BlockEnd
          \/ page_buf_empty /\ current_write_block_addr = current_sector_addr /\ Behind
  /\ at = "lost" =>
       /\ Behind /\ todo.addr >= SectorOf(todo.addr) + current_write_block_size

AccessorInv ==
  /\ AccessorType
  /\ ~target.strayed
  /\ page_buf_empty => page_buffer = EmptyPage
  /\ at # None => flash_state = "OPEN"
  /\ overrun <=> at = "lost"
  /\ at \in {"first", "block", "sector", "copy"} => todo.data # <<>>
  /\ flash_state = "OPEN" => InOrder(target) /\ err = None
  /\ flash_state = "OPEN" /\ ~current_sector_valid =>
       /\ page_buf_empty /\ current_write_block_size = 0 /\ at \in {None, "first"}
  /\ at = "first" => ~current_sector_valid
  /\ flash_state = "OPEN" /\ current_sector_valid => SectorSet /\ Positions
  /\ flash_state = "ERROR" => err # None

(* How a session uses it.                                                   *)
SessionInv ==
  /\ pc \in {"idle", "connected", "ready", "parse", "write"}
  /\ result \in BOOLEAN \cup {None}
  /\ result = TRUE => pc = "idle"
  /\ pc \in {"idle", "connected"} => flash_state = "CLOSED"
  /\ pc \in {"ready", "parse"} => flash_state = "OPEN"
  /\ at # None => pc = "write"
  /\ pc = "write" => flash_state # "CLOSED"

-----------------------------------------------------------------------------
(* The calls that a write makes.                                            *)

LEMMA SetupOuts ==
  ASSUME NEW t \in TargetType, InOrder(t), ~t.strayed, NEW d,
         NEW o \in Uninited(Then(AlgoSet(t, d), LAMBDA u : EraseSector(u, d)))
  PROVE  /\ Confined(t, o, SectorOf(d))
         /\ o.err = None =>
              /\ InOrder(o.t) /\ o.t.algo = AlgoFor(t, d)
              /\ o.t.mem = Wiped(t.mem, SectorOf(d))
<1> DEFINE Op(u) == EraseSector(u, d)
           outs == Then(AlgoSet(t, d), Op)
<1>1. ASSUME NEW q \in outs
      PROVE  /\ Confined(t, q, SectorOf(d))
             /\ q.err = None =>
                  /\ InOrder(q.t) /\ q.t.algo = AlgoFor(t, d)
                  /\ q.t.mem = Wiped(t.mem, SectorOf(d))
  <2>1. PICK p \in AlgoSet(t, d) :
          (p.err = None /\ q \in Op(p.t)) \/ (p.err # None /\ q = p)
    <3> HIDE DEF Op
    <3> QED BY <1>1 DEF Then
  <2>2. /\ Harmless(t, p)
        /\ p.err = None => InOrder(p.t) /\ p.t.algo = AlgoFor(t, d)
    BY AlgoSets
  <2>3. CASE p.err # None /\ q = p
    BY <2>2, <2>3 DEF Harmless, Confined
  <2>4. CASE p.err = None /\ q \in Op(p.t)
    <3> DEFINE u == p.t
    <3>1. /\ u \in TargetType /\ InOrder(u) /\ ~u.strayed /\ u.default = t.default
          /\ u.mem = t.mem /\ u.algo = AlgoFor(t, d)
      BY <2>2, <2>4 DEF Harmless
    <3>2. q \in EraseSector(u, d)
      BY <2>4
    <3> HIDE DEF u
    <3>3. AlgoFor(t, d) = AlgoFor(u, d)
      BY <3>1, AlgoByDefault
    <3>4. /\ Confined(u, q, SectorOf(d))
          /\ q.err = None =>
               /\ InOrder(q.t) /\ q.t.algo = u.algo
               /\ q.t.mem = Wiped(u.mem, SectorOf(d))
      BY <3>1, <3>2, <3>3, EraseKeeps
    <3> QED BY <3>1, <3>4 DEF Confined
  <2> QED BY <2>1, <2>3, <2>4
<1>2. o \in Uninited(outs)
  BY Zenon
<1> HIDE DEF outs
<1>3. PICK q \in outs :
        (q.err = None /\ o = q)
        \/ (q.err # None /\ \E w \in FlashUninit(q.t) : o = Failed(q.err, w.t))
  BY <1>2 DEF Uninited
<1>4. CASE q.err = None /\ o = q
  BY <1>1, <1>4
<1>5. CASE q.err # None /\ \E w \in FlashUninit(q.t) : o = Failed(q.err, w.t)
  <2>1. PICK w \in FlashUninit(q.t) : o = Failed(q.err, w.t)
    BY <1>5
  <2>2. o.err = q.err /\ o.t = w.t
    BY <2>1 DEF Failed
  <2>3. Confined(t, q, SectorOf(d))
    BY <1>1
  <2>4. Harmless(q.t, w)
    BY <2>3, FlashUninits DEF Confined
  <2> QED BY <1>5, <2>2, <2>3, <2>4 DEF Confined, Harmless
<1> QED BY <1>3, <1>4, <1>5

(* What a call that may end the write leaves.                               *)
Ended(then) ==
  /\ err' \in Errors \cup {None}
  /\ err' = None => at' = then /\ flash_state' = flash_state
  /\ err' # None => at' = None /\ flash_state' = "ERROR"

LEMMA Proceeds ==
  ASSUME NEW o, o.err \in Errors \cup {None}, NEW then, Proceed(o, then)
  PROVE  Ended(then) /\ target' = o.t /\ err' = o.err
BY DEF Proceed, Ended

LEMMA SetupEnds ==
  ASSUME AccessorType, ~target.strayed, InOrder(target), NEW then, SetupSector(then)
  PROVE  LET d == SectorOf(todo.addr)
         IN  /\ Ended(then)
             /\ target' \in TargetType /\ ~target'.strayed
             /\ target'.default = target.default
             /\ \A x \in Addresses : target'.mem[x] # target.mem[x] => SectorOf(x) = d
             /\ current_sector_addr' \in Nat /\ current_sector_size' \in Nat
             /\ current_write_block_addr' \in Nat /\ current_write_block_size' \in Nat
             /\ page_buffer' = page_buffer \/ page_buffer' = EmptyPage
             /\ err' = None =>
                  /\ InOrder(target') /\ target'.algo = AlgoFor(target', d)
                  /\ target'.mem = Wiped(target.mem, d) /\ page_buffer' = EmptyPage
                  /\ SectorSize(todo.addr) # 0
                  /\ current_sector_addr' = d /\ current_sector_size' = SectorSize(todo.addr)
                  /\ current_write_block_addr' = d
                  /\ current_write_block_size' =
                       IF current_sector_size' <= PageBuffer THEN current_sector_size' ELSE PageBuffer
<1> DEFINE a == todo.addr
           size == SectorSize(a)
           d == SectorOf(a)
           start == RoundDown(a, size)
<1>1. a \in Nat /\ PageBuffer \in Nat
  BY FlashAccessorAssumption DEF AccessorType
<1>2. CASE size = 0
  <2>1. Proceed(Failed("internal", target), then) /\ UNCHANGED <<block, sector, page_buffer>>
    BY <1>2 DEF SetupSector
  <2> DEFINE f == Failed("internal", target)
  <2>2. f.err = "internal" /\ f.t = target
    BY DEF Failed
  <2>3. f.err \in Errors \cup {None} /\ f.err # None
    BY <2>2, NoneIsNoError DEF Errors
  <2>4. Proceed(f, then)
    BY <2>1
  <2> HIDE DEF f
  <2>5. Ended(then) /\ target' = target /\ err' = f.err
    BY <2>2, <2>3, <2>4, Proceeds
  <2>6. /\ current_sector_addr' = current_sector_addr
        /\ current_sector_size' = current_sector_size
        /\ current_write_block_addr' = current_write_block_addr
        /\ current_write_block_size' = current_write_block_size
        /\ page_buffer' = page_buffer
    BY <2>1 DEF block, sector
  <2> QED BY <2>3, <2>5, <2>6 DEF AccessorType
<1>3. CASE size # 0
  <2>1. /\ current_sector_addr' = start /\ current_sector_size' = size
        /\ current_write_block_addr' = start
        /\ current_write_block_size' = IF size <= PageBuffer THEN size ELSE PageBuffer
        /\ \E o \in Uninited(Then(AlgoSet(target, start), LAMBDA u : EraseSector(u, start))) :
             /\ Proceed(o, then)
             /\ page_buffer' = IF o.err = None THEN EmptyPage ELSE page_buffer
    BY <1>3 DEF SetupSector
  <2>2. size \in Nat /\ size > 0 /\ start = d /\ d \in Nat /\ SectorOf(d) = d
    <3>1. /\ size \in Nat /\ size > 0 /\ start = d /\ d \in Nat /\ d <= a /\ a < d + size
      BY <1>1, <1>3, Located
    <3>2. d <= d /\ d < d + size
      BY <3>1
    <3>3. SectorOf(d) = d
      BY <1>1, <1>3, <3>1, <3>2, SameSector
    <3> QED BY <3>1, <3>3
  <2>3. PICK o \in Uninited(Then(AlgoSet(target, start), LAMBDA u : EraseSector(u, start))) :
             /\ Proceed(o, then)
             /\ page_buffer' = IF o.err = None THEN EmptyPage ELSE page_buffer
    BY <2>1
  <2>4. target \in TargetType
    BY DEF AccessorType
  <2>5. /\ Confined(target, o, SectorOf(start))
        /\ o.err = None =>
              /\ InOrder(o.t) /\ o.t.algo = AlgoFor(target, start)
              /\ o.t.mem = Wiped(target.mem, SectorOf(start))
    BY <2>3, <2>4, SetupOuts, Zenon
  <2> HIDE DEF start, size, d
  <2>6. Ended(then) /\ target' = o.t /\ err' = o.err
    BY <2>3, <2>5, Proceeds DEF Confined
  <2>7. AlgoFor(target', d) = AlgoFor(target, d)
    BY <2>5, <2>6, AlgoByDefault DEF Confined
  <2>8. /\ Ended(then)
        /\ target' \in TargetType /\ ~target'.strayed
        /\ target'.default = target.default
        /\ \A x \in Addresses : target'.mem[x] # target.mem[x] => SectorOf(x) = d
    BY <2>2, <2>5, <2>6 DEF Confined
  <2>9. err' = None =>
          /\ InOrder(target') /\ target'.algo = AlgoFor(target', d)
          /\ target'.mem = Wiped(target.mem, d) /\ page_buffer' = EmptyPage
    BY <2>2, <2>3, <2>5, <2>6, <2>7
  <2>10. /\ current_sector_addr' = d /\ current_sector_size' = size
         /\ current_write_block_addr' = d
         /\ current_write_block_size' = IF size <= PageBuffer THEN size ELSE PageBuffer
         /\ page_buffer' = page_buffer \/ page_buffer' = EmptyPage
    BY <2>1, <2>2, <2>3
  <2> QED BY <1>1, <1>3, <2>2, <2>8, <2>9, <2>10 DEF size, d
<1> QED BY <1>2, <1>3

InBlock(x) == x >= current_write_block_addr /\ x < BlockEnd
Paged(x) == page_buffer[(x - current_write_block_addr) + 1]

(* The cells of the page are written with it, the others kept.              *)
PageOut(o) ==
  /\ o.t \in TargetType /\ o.err \in Errors \cup {None}
  /\ o.t.default = target.default /\ ~o.t.strayed
  /\ \A x \in Addresses : page_buf_empty \/ ~InBlock(x) => o.t.mem[x] = target.mem[x]
  /\ o.err = None =>
       /\ InOrder(o.t) /\ o.t.algo = target.algo
       /\ \A x \in Addresses : ~page_buf_empty /\ InBlock(x) =>
            o.t.mem[x] = Paged(x) /\ o.t.mem[x] = Cell(target.mem[x], Paged(x))

LEMMA SectorIs ==
  ASSUME AccessorType, SectorSet
  PROVE  /\ current_write_block_size > 0 /\ current_write_block_size <= PageBuffer
         /\ current_sector_size % current_write_block_size = 0
         /\ current_sector_addr % current_sector_size = 0
         /\ current_sector_addr % current_write_block_size = 0
         /\ PageBuffer \in Nat /\ current_sector_size > 0
<1> DEFINE c == current_sector_addr
           z == current_sector_size
           b == current_write_block_size
<1>1. PageBuffer \in Nat /\ PageBuffer > 0
  BY FlashAccessorAssumption
<1>2. c \in Nat /\ z \in Nat /\ z > 0 /\ z = SectorSize(c) /\ c = SectorOf(c)
  BY DEF AccessorType, SectorSet
<1>3. b = IF z <= PageBuffer THEN z ELSE PageBuffer
  BY DEF SectorSet
<1>4. /\ Below(c) # {} /\ SectorSize(c) = Sectors[Info(c)].size
      /\ SectorOf(c) % SectorSize(c) = 0
  BY <1>2, Located
<1>5. Info(c) \in DOMAIN Sectors
  BY <1>2, <1>4, InfoFacts
<1> HIDE DEF c, z, b
<1>6. z > PageBuffer => z % PageBuffer = 0
  BY <1>2, <1>4, <1>5, FlashAccessorAssumption
<1>7. z % z = 0
  BY <1>2, Rounded, RoundedIs
<1>8. b > 0 /\ b <= PageBuffer /\ z % b = 0 /\ b \in Nat
  BY <1>1, <1>2, <1>3, <1>6, <1>7
<1>9. c % z = 0
  BY <1>2, <1>4
<1>10. c % b = 0
  BY <1>2, <1>8, <1>9, Finer
<1> QED BY <1>1, <1>2, <1>8, <1>9, <1>10 DEF c, z, b

LEMMA PageOuts ==
  ASSUME AccessorType, ~target.strayed, InOrder(target), SectorSet,
         NEW o \in IF page_buf_empty THEN {Done(target)}
                   ELSE ProgramPage(target, current_write_block_addr,
                                    SubSeq(page_buffer, 1, current_write_block_size))
  PROVE  PageOut(o)
<1>1. CASE page_buf_empty
  <2>1. o = Done(target)
    BY <1>1
  <2>2. o.t = target /\ o.err = None
    BY <2>1 DEF Done
  <2> QED BY <1>1, <2>2 DEF PageOut, AccessorType
<1>2. CASE ~page_buf_empty
  <2> DEFINE b == current_write_block_addr
             z == current_write_block_size
             buf == SubSeq(page_buffer, 1, z)
  <2>1. /\ b \in Nat /\ z \in Nat /\ PageBuffer \in Nat /\ z <= PageBuffer
        /\ page_buffer \in [1 .. PageBuffer -> Bytes] /\ target \in TargetType
    BY SectorIs DEF AccessorType
  <2>2. page_buffer \in Seq(Bytes) /\ Len(page_buffer) = PageBuffer
    BY <2>1
  <2>3. /\ buf \in Seq(Bytes) /\ Len(buf) = z
        /\ \A i \in 1 .. z : buf[i] = page_buffer[i]
    BY <2>1, <2>2
  <2>4. o \in ProgramPage(target, b, buf)
    BY <1>2
  <2>5. ASSUME NEW x \in b .. (b + z) - 1
        PROVE  AlgoFor(target, x) = target.algo
    <3> DEFINE c == current_sector_addr
               s == current_sector_size
    <3>1. /\ c \in Nat /\ s \in Nat /\ s # 0 /\ s = SectorSize(c) /\ c = SectorOf(c)
          /\ target.algo = AlgoFor(target, c) /\ c <= b /\ b + z <= c + s
      BY <1>2 DEF AccessorType, SectorSet, BlockEnd, SectorEnd
    <3> HIDE DEF c, s, b, z
    <3>2. x \in Nat /\ c <= x /\ x < c + s
      BY <2>1, <3>1
    <3>3. AlgoFor(target, x) = AlgoFor(target, SectorOf(c))
      BY <3>1, <3>2, SameAlgorithm DEF InOrder
    <3> QED BY <3>1, <3>3
  <2> HIDE DEF b, z, buf
  <2>6. /\ o.t \in TargetType /\ o.err \in Errors \cup {None}
        /\ o.t.default = target.default /\ ~o.t.strayed
        /\ \A x \in Addresses : ~(x >= b /\ x < b + Len(buf)) => o.t.mem[x] = target.mem[x]
        /\ o.err = None =>
             /\ InOrder(o.t) /\ o.t.algo = target.algo
             /\ \A x \in Addresses : x >= b /\ x < b + Len(buf) =>
                  /\ o.t.mem[x] = buf[(x - b) + 1]
                  /\ o.t.mem[x] = Cell(target.mem[x], buf[(x - b) + 1])
    BY <2>1, <2>3, <2>4, <2>5, PageProgrammed
  <2>7. \A x : InBlock(x) <=> x >= b /\ x < b + z
    BY DEF InBlock, BlockEnd, b, z
  <2>8. \A x \in Addresses : InBlock(x) => buf[(x - b) + 1] = Paged(x)
    <3> TAKE x \in Addresses
    <3> HAVE InBlock(x)
    <3>1. x \in Nat /\ x >= b /\ x < b + z
      BY <2>7, TargetFlashAssumption
    <3>2. (x - b) + 1 \in 1 .. z
      BY <2>1, <3>1
    <3> QED BY <2>3, <3>2 DEF Paged, b
  <2>9. \A x \in Addresses : ~InBlock(x) => o.t.mem[x] = target.mem[x]
    BY <2>3, <2>6, <2>7
  <2>10. o.err = None => \A x \in Addresses : InBlock(x) =>
            o.t.mem[x] = Paged(x) /\ o.t.mem[x] = Cell(target.mem[x], Paged(x))
    BY <2>3, <2>6, <2>7, <2>8
  <2> QED BY <1>2, <2>6, <2>9, <2>10 DEF PageOut
<1> QED BY <1>1, <1>2

LEMMA FlushEnds ==
  ASSUME AccessorType, ~target.strayed, InOrder(target), SectorSet, NEW then, Flush(then)
  PROVE  /\ Ended(then) /\ PageOut([err |-> err', t |-> target'])
         /\ page_buf_empty' = TRUE /\ page_buffer' = EmptyPage
         /\ current_write_block_addr' = RoundDown(todo.addr, current_write_block_size)
         /\ current_write_block_addr' \in Nat
         /\ current_write_block_addr' % current_write_block_size = 0
<1>1. PICK o \in IF page_buf_empty THEN {Done(target)}
                   ELSE ProgramPage(target, current_write_block_addr,
                                    SubSeq(page_buffer, 1, current_write_block_size)) :
        Proceed(o, then)
  BY DEF Flush
<1>2. PageOut(o)
  BY <1>1, PageOuts
<1>3. Ended(then) /\ target' = o.t /\ err' = o.err
  BY <1>1, <1>2, Proceeds DEF PageOut
<1>4. PageOut([err |-> err', t |-> target'])
  BY <1>2, <1>3 DEF PageOut
<1>5. current_write_block_addr' = RoundDown(todo.addr, current_write_block_size)
  BY DEF Flush
<1>6. /\ RoundDown(todo.addr, current_write_block_size) \in Nat
      /\ RoundDown(todo.addr, current_write_block_size) % current_write_block_size = 0
  <2>1. todo.addr \in Nat /\ current_write_block_size \in Nat /\ current_write_block_size > 0
    BY SectorIs DEF AccessorType
  <2> QED BY <2>1, Rounded
<1> QED BY <1>3, <1>4, <1>5, <1>6 DEF Flush

-----------------------------------------------------------------------------
(* The steps of a write.                                                    *)

Statements == {"first", "block", "sector", "flush", "end", "copy", "lost"}

LEMMA NoStatement == None \notin Statements
BY FlashAccessorAssumption DEF Statements

LEMMA EmptyType == EmptyPage \in [1 .. PageBuffer -> Bytes]
BY TargetFlashAssumption DEF EmptyPage

LEMMA FailedWrite ==
  ASSUME AccessorType', ~target'.strayed, NEW then, Ended(then), err' # None,
         (page_buf_empty => page_buffer = EmptyPage)', overrun' = FALSE
  PROVE  AccessorInv'
BY NoStatement DEF AccessorInv, Ended, Statements

LEMMA Running ==
  ASSUME AccessorInv, at \in Statements \ {"lost"}
  PROVE  /\ AccessorType /\ ~target.strayed /\ InOrder(target) /\ flash_state = "OPEN"
         /\ err = None /\ overrun = FALSE
         /\ at # "first" => current_sector_valid /\ SectorSet /\ Positions
         /\ page_buf_empty => page_buffer = EmptyPage
         /\ at \in {"first", "block", "sector", "copy"} => todo.data # <<>>
BY NoStatement DEF AccessorInv, Statements, AccessorType

LEMMA EndsAre ==
  /\ SectorEnd = current_sector_addr + current_sector_size
  /\ SectorEnd' = current_sector_addr' + current_sector_size'
  /\ BlockEnd = current_write_block_addr + current_write_block_size
  /\ BlockEnd' = current_write_block_addr' + current_write_block_size'
BY DEF SectorEnd, BlockEnd

(* After a successful setup the sector is the packet's.                     *)
LEMMA SetupSets ==
  ASSUME AccessorType, ~target.strayed, InOrder(target), NEW then, SetupSector(then),
         err' = None, page_buf_empty' = TRUE
  PROVE  /\ SectorSet' /\ page_buffer' = EmptyPage
         /\ current_sector_addr' = SectorOf(todo.addr)
         /\ current_write_block_addr' = current_sector_addr'
         /\ current_sector_addr' <= todo.addr /\ todo.addr < SectorEnd'
<1> DEFINE a == todo.addr
           d == SectorOf(a)
           s == SectorSize(a)
<1>1. /\ InOrder(target') /\ target'.algo = AlgoFor(target', d)
      /\ page_buffer' = EmptyPage /\ s # 0
      /\ current_sector_addr' = d /\ current_sector_size' = s
      /\ current_write_block_addr' = d
      /\ current_write_block_size' =
           IF current_sector_size' <= PageBuffer THEN current_sector_size' ELSE PageBuffer
  BY SetupEnds
<1>2. a \in Nat
  BY DEF AccessorType
<1>3. /\ s \in Nat /\ s > 0 /\ d \in Nat /\ d <= a /\ a < d + s /\ d % s = 0
  BY <1>1, <1>2, Located
<1>4. SectorSize(d) = s /\ SectorOf(d) = d
  <2>1. d <= d /\ d < d + s
    BY <1>3
  <2> QED BY <1>1, <1>2, <1>3, <2>1, SameSector
<1>9. Below(d) # {} /\ s = Sectors[Info(d)].size /\ Info(d) \in DOMAIN Sectors
  BY <1>1, <1>3, <1>4, Located, InfoFacts
<1> HIDE DEF d, s
<1>5. d % current_write_block_size' = 0
  <2>1. s > PageBuffer => s % PageBuffer = 0
    BY <1>9, FlashAccessorAssumption
  <2>2. CASE s <= PageBuffer
    BY <1>1, <1>3, <2>2
  <2>3. CASE s > PageBuffer
    <3>1. PageBuffer \in Nat /\ PageBuffer > 0 /\ s % PageBuffer = 0
      BY <2>1, <2>3, FlashAccessorAssumption
    <3>2. d % PageBuffer = 0
      BY <1>3, <3>1, Finer
    <3>3. current_write_block_size' = PageBuffer
      BY <1>1, <1>3, <2>3, <3>1
    <3> QED BY <3>2, <3>3
  <2> QED BY <1>3, <2>2, <2>3, FlashAccessorAssumption
<1>6. SectorSet'
  <2>1. /\ current_sector_size' # 0
        /\ current_sector_addr' = SectorOf(current_sector_addr')
        /\ current_sector_size' = SectorSize(current_sector_addr')
        /\ target'.algo = AlgoFor(target', current_sector_addr')
        /\ current_write_block_addr' % current_write_block_size' = 0
    BY <1>1, <1>4, <1>5
  <2> QED BY <1>1, <2>1 DEF SectorSet
<1>7. SectorEnd' = d + s
  BY <1>1 DEF SectorEnd
<1> QED BY <1>1, <1>3, <1>6, <1>7 DEF d, s

LEMMA SetupType ==
  ASSUME AccessorType, ~target.strayed, InOrder(target), NEW then \in Statements, SetupSector(then),
         current_sector_valid' \in BOOLEAN, last_packet_addr' \in Nat,
         UNCHANGED <<page_buf_empty, todo, overrun>>
  PROVE  AccessorType' /\ ~target'.strayed /\ Ended(then)
<1>1. /\ Ended(then)
      /\ target' \in TargetType /\ ~target'.strayed
      /\ current_sector_addr' \in Nat /\ current_sector_size' \in Nat
      /\ current_write_block_addr' \in Nat /\ current_write_block_size' \in Nat
      /\ page_buffer' = page_buffer \/ page_buffer' = EmptyPage
  BY SetupEnds
<1>2. page_buffer' \in [1 .. PageBuffer -> Bytes]
  BY <1>1, EmptyType DEF AccessorType
<1>3. flash_state' \in {"CLOSED", "OPEN", "ERROR"}
  BY <1>1 DEF Ended, AccessorType
<1>4. at' \in {None, "first", "block", "sector", "flush", "end", "copy", "lost"}
  BY <1>1 DEF Ended, Statements
<1>5. err' \in Errors \cup {None}
  BY <1>1 DEF Ended
<1>6. /\ page_buf_empty' \in BOOLEAN /\ overrun' \in BOOLEAN
      /\ todo' \in [addr : Nat, data : Seq(Bytes)]
  BY Zenon DEF AccessorType
<1>7. current_sector_valid' \in BOOLEAN /\ last_packet_addr' \in Nat
  OBVIOUS
<1> QED BY <1>1, <1>2, <1>3, <1>4, <1>5, <1>6, <1>7, Zenon DEF AccessorType

LEMMA FirstKeeps ==
  ASSUME AccessorInv, WriteFirst
  PROVE  AccessorInv'
<1>1. /\ AccessorType /\ ~target.strayed /\ InOrder(target) /\ flash_state = "OPEN"
      /\ overrun = FALSE /\ todo.data # <<>>
      /\ page_buf_empty => page_buffer = EmptyPage
  BY Running DEF WriteFirst, Statements
<1>2. page_buf_empty = TRUE
  <2>1. ~current_sector_valid
    BY DEF WriteFirst, AccessorInv
  <2> QED BY <1>1, <2>1, Zenon DEF AccessorInv, AccessorType
<1>3. /\ SetupSector("block") /\ current_sector_valid' = (err' = None)
      /\ last_packet_addr' = IF err' = None THEN todo.addr ELSE last_packet_addr
      /\ page_buf_empty' = page_buf_empty /\ todo' = todo /\ overrun' = overrun
  BY DEF WriteFirst
<1>4. current_sector_valid' \in BOOLEAN /\ last_packet_addr' \in Nat
  <2>1. current_sector_valid' \in BOOLEAN
    BY <1>3, Zenon
  <2>2. last_packet_addr' \in Nat
    BY <1>1, <1>3 DEF AccessorType
  <2> QED BY <2>1, <2>2
<1>5. AccessorType' /\ ~target'.strayed /\ Ended("block")
  BY <1>1, <1>3, <1>4, SetupType DEF Statements
<1>6. CASE err' # None
  <2>1. page_buffer' = EmptyPage
    <3>1. page_buffer = EmptyPage
      BY <1>1, <1>2, Zenon
    <3>2. page_buffer' = page_buffer \/ page_buffer' = EmptyPage
      BY <1>1, <1>3, SetupEnds
    <3> QED BY <3>1, <3>2
  <2> QED BY <1>1, <1>3, <1>5, <1>6, <2>1, FailedWrite
<1>7. CASE err' = None
  <2>1. /\ SectorSet' /\ page_buffer' = EmptyPage
        /\ current_write_block_addr' = current_sector_addr'
        /\ current_sector_addr' <= todo.addr /\ todo.addr < SectorEnd'
    BY <1>1, <1>2, <1>3, <1>7, SetupSets
  <2>2. InOrder(target')
    BY <1>1, <1>3, <1>7, SetupEnds
  <2>3. /\ at' = "block" /\ flash_state' = "OPEN" /\ current_sector_valid'
        /\ last_packet_addr' = todo.addr /\ page_buf_empty' /\ overrun' = FALSE
        /\ todo' = todo /\ err' = None
    BY <1>1, <1>2, <1>3, <1>5, <1>7 DEF Ended
  <2>4. LastInside' /\ AtBlock(last_packet_addr)'
    <3>1. SectorEnd' \in Nat
      <4>1. current_sector_addr' \in Nat /\ current_sector_size' \in Nat
        BY <1>1, <1>3, SetupEnds
      <4> QED BY <4>1, EndsAre, SumNat
    <3>2. todo.addr \in Nat
      BY <1>1 DEF AccessorType
    <3>3. todo.addr <= SectorEnd'
      BY <2>1, <3>1, <3>2, Less
    <3> QED BY <2>1, <2>3, <3>3 DEF LastInside, AtBlock
  <2>5. Positions'
    BY <2>3, <2>4, NoStatement DEF Positions, Statements
  <2> QED BY <1>1, <1>5, <2>1, <2>2, <2>3, <2>5, NoStatement DEF AccessorInv, Statements
<1> QED BY <1>6, <1>7

(* A step within a write.                                                   *)
LEMMA Advances ==
  ASSUME AccessorInv, at \in Statements \ {"first", "lost"}, AccessorType', ~target'.strayed,
         InOrder(target'), at' \in Statements \ {"first", "lost"}, flash_state' = flash_state,
         err' = None, current_sector_valid' = current_sector_valid, overrun' = overrun,
         SectorSet', Positions', (page_buf_empty => page_buffer = EmptyPage)',
         at' \in {"block", "sector", "copy"} => todo'.data # <<>>
  PROVE  AccessorInv'
<1>1. flash_state' = "OPEN" /\ current_sector_valid' /\ overrun' = FALSE
  BY Running
<1>2. at' # None /\ at' # "lost" /\ at' # "first"
  BY NoStatement
<1> QED BY <1>1, <1>2 DEF AccessorInv

LEMMA FlushSets ==
  ASSUME AccessorInv, at \in Statements \ {"first", "lost"}, NEW then \in Statements, Flush(then)
  PROVE  /\ AccessorType' /\ ~target'.strayed /\ Ended(then)
         /\ page_buf_empty' = TRUE /\ page_buffer' = EmptyPage
         /\ current_write_block_addr' = RoundDown(todo.addr, current_write_block_size)
         /\ UNCHANGED <<current_write_block_size, sector, current_sector_valid,
                        last_packet_addr, todo, overrun>>
         /\ err' = None => SectorSet' /\ InOrder(target')
<1>1. /\ AccessorType /\ ~target.strayed /\ InOrder(target) /\ SectorSet
      /\ overrun = FALSE /\ flash_state = "OPEN"
  BY Running
<1>2. /\ Ended(then) /\ PageOut([err |-> err', t |-> target'])
      /\ page_buf_empty' = TRUE /\ page_buffer' = EmptyPage
      /\ current_write_block_addr' = RoundDown(todo.addr, current_write_block_size)
      /\ current_write_block_addr' \in Nat
      /\ current_write_block_addr' % current_write_block_size = 0
  BY <1>1, FlushEnds
<1>3. UNCHANGED <<current_write_block_size, sector, current_sector_valid,
                  last_packet_addr, todo, overrun>>
  BY DEF Flush
<1>4. /\ target' \in TargetType /\ ~target'.strayed /\ target'.default = target.default
      /\ err' = None => InOrder(target') /\ target'.algo = target.algo
  BY <1>2 DEF PageOut
<1>5. AccessorType'
  <2>1. flash_state' \in {"CLOSED", "OPEN", "ERROR"}
        /\ at' \in {None, "first", "block", "sector", "flush", "end", "copy", "lost"}
    BY <1>1, <1>2 DEF Ended, Statements
  <2>2. /\ current_sector_addr' \in Nat /\ current_sector_size' \in Nat
        /\ current_write_block_size' \in Nat /\ last_packet_addr' \in Nat
    BY <1>1, <1>3 DEF sector, AccessorType
  <2>3. err' \in Errors \cup {None} /\ page_buffer' \in [1 .. PageBuffer -> Bytes]
    BY <1>2, EmptyType DEF Ended
  <2>4. /\ page_buf_empty' \in BOOLEAN /\ overrun' \in BOOLEAN
        /\ current_sector_valid' \in BOOLEAN
        /\ todo' \in [addr : Nat, data : Seq(Bytes)]
    BY <1>1, <1>2, <1>3, Zenon DEF AccessorType
  <2> QED BY <1>2, <1>4, <2>1, <2>2, <2>3, <2>4, Zenon DEF AccessorType
<1>6. ASSUME err' = None PROVE SectorSet'
  <2>1. AlgoFor(target', current_sector_addr) = AlgoFor(target, current_sector_addr)
    BY <1>4, AlgoByDefault
  <2>2. target'.algo = AlgoFor(target', current_sector_addr)
    BY <1>1, <1>4, <1>6, <2>1 DEF SectorSet
  <2> QED BY <1>1, <1>2, <1>3, <2>2 DEF SectorSet, sector
<1> QED BY <1>2, <1>3, <1>4, <1>5, <1>6

LEMMA SkipSets ==
  ASSUME AccessorInv, at \in Statements \ {"first", "lost"}, NEW then \in Statements, Skip(then)
  PROVE  /\ AccessorType' /\ ~target'.strayed /\ InOrder(target') /\ at' = then
         /\ flash_state' = flash_state /\ err' = None
         /\ UNCHANGED <<current_sector_valid, last_packet_addr, block, sector, page, todo, overrun>>
         /\ SectorSet' /\ (page_buf_empty => page_buffer = EmptyPage)'
<1>1. /\ AccessorType /\ ~target.strayed /\ InOrder(target) /\ SectorSet
      /\ overrun = FALSE /\ flash_state = "OPEN" /\ err = None
      /\ page_buf_empty => page_buffer = EmptyPage
  BY Running
<1>2. /\ at' = then
      /\ UNCHANGED <<target, flash_state, current_sector_valid, last_packet_addr,
                     block, sector, page, todo, err, overrun>>
  BY DEF Skip
<1>3. AccessorType'
  <2>1. at' \in {None, "first", "block", "sector", "flush", "end", "copy", "lost"}
    BY <1>2 DEF Statements
  <2> QED BY <1>1, <1>2, <2>1, Zenon DEF AccessorType, block, sector, page
<1>4. SectorSet'
  BY <1>1, <1>2, Zenon DEF SectorSet, BlockEnd, SectorEnd, block, sector, page
<1> QED BY <1>1, <1>2, <1>3, <1>4 DEF page

LEMMA BlockKeeps ==
  ASSUME AccessorInv, WriteBlock
  PROVE  AccessorInv'
<1> DEFINE b == current_write_block_size
           a == todo.addr
           l == last_packet_addr
<1>1. at = "block" /\ at \in Statements \ {"first", "lost"}
  BY DEF WriteBlock, Statements
<1>2. /\ AccessorType /\ SectorSet /\ Positions /\ overrun = FALSE /\ flash_state = "OPEN"
      /\ todo.data # <<>>
  BY <1>1, Running
<1>3. /\ LastInside /\ AtBlock(l)
      /\ current_write_block_addr # RoundDown(l, b) => a = l
  BY <1>1, <1>2 DEF Positions
<1>4. CASE Left(b) /\ Flush("sector")
  <2>1. /\ AccessorType' /\ ~target'.strayed /\ Ended("sector")
        /\ page_buf_empty' = TRUE /\ page_buffer' = EmptyPage
        /\ current_write_block_addr' = RoundDown(a, b)
        /\ UNCHANGED <<current_write_block_size, sector, current_sector_valid,
                       last_packet_addr, todo, overrun>>
        /\ err' = None => SectorSet' /\ InOrder(target')
    BY <1>1, <1>4, FlushSets DEF Statements
  <2>2. CASE err' # None
    BY <1>2, <2>1, <2>2, FailedWrite
  <2>3. CASE err' = None
    <3>1. at' = "sector" /\ flash_state' = flash_state
      BY <2>1, <2>3 DEF Ended
    <3>2. LastInside' /\ AtBlock(a)'
      BY <1>3, <2>1 DEF LastInside, AtBlock, sector, SectorEnd
    <3>3. Positions'
      BY <2>1, <3>1, <3>2, NoStatement DEF Positions, Statements
    <3> QED BY <1>1, <1>2, <2>1, <2>3, <3>1, <3>3, Advances DEF Statements
  <2> QED BY <2>2, <2>3
<1>5. CASE ~Left(b) /\ Skip("sector")
  <2>1. /\ AccessorType' /\ ~target'.strayed /\ InOrder(target') /\ at' = "sector"
        /\ flash_state' = flash_state /\ err' = None
        /\ UNCHANGED <<current_sector_valid, last_packet_addr, block, sector, page, todo, overrun>>
        /\ SectorSet' /\ (page_buf_empty => page_buffer = EmptyPage)'
    BY <1>1, <1>5, SkipSets DEF Statements
  <2>2. RoundDown(a, b) = RoundDown(l, b)
    BY <1>5 DEF Left
  <2>3. LastInside' /\ AtBlock(a)'
    <3>1. AtBlock(a)
      BY <1>3, <2>2 DEF AtBlock
    <3> QED BY <1>3, <2>1, <3>1 DEF LastInside, AtBlock, sector, block, page, SectorEnd
  <2>4. ~page_buf_empty => current_write_block_addr = RoundDown(l, b)
    BY <1>3 DEF AtBlock
  <2>5. Positions'
    BY <2>1, <2>2, <2>3, <2>4, NoStatement DEF Positions, Statements, block, page
  <2> QED BY <1>1, <1>2, <2>1, <2>5, Advances DEF Statements
<1> QED BY <1>4, <1>5 DEF WriteBlock

LEMMA SectorKeeps ==
  ASSUME AccessorInv, WriteSector
  PROVE  AccessorInv'
<1> DEFINE b == current_write_block_size
           c == current_sector_addr
           z == current_sector_size
           w == current_write_block_addr
           a == todo.addr
           l == last_packet_addr
<1>1. at = "sector" /\ at \in Statements \ {"first", "lost"}
  BY DEF WriteSector, Statements
<1>2. /\ AccessorType /\ ~target.strayed /\ InOrder(target) /\ SectorSet /\ Positions
      /\ overrun = FALSE /\ flash_state = "OPEN" /\ todo.data # <<>>
      /\ page_buf_empty => page_buffer = EmptyPage
  BY <1>1, Running
<1>3. /\ LastInside /\ AtBlock(a)
      /\ ~page_buf_empty => w = RoundDown(a, b) /\ w = RoundDown(l, b)
  BY <1>1, <1>2 DEF Positions
<1>4. /\ a \in Nat /\ l \in Nat /\ c \in Nat /\ z \in Nat /\ w \in Nat /\ b \in Nat
      /\ z > 0 /\ b > 0 /\ c % z = 0
  BY <1>2, SectorIs DEF AccessorType
<1>5. c <= l /\ l <= c + z
  BY <1>3 DEF LastInside, SectorEnd
<1>6. page_buf_empty \in BOOLEAN
  BY <1>2, Zenon DEF AccessorType
<1>7. CASE Left(z) /\ SetupSector("flush") /\
           UNCHANGED <<current_sector_valid, last_packet_addr, page_buf_empty, todo, overrun>>
  <2>1. page_buf_empty = TRUE
    <3>1. SUFFICES ASSUME ~page_buf_empty PROVE FALSE
      BY <1>6
    <3>2. c <= w /\ w + b <= c + z
      BY <1>2, <3>1 DEF SectorSet, BlockEnd, SectorEnd
    <3>3. w = RoundDown(a, b) /\ w = RoundDown(l, b)
      BY <1>3, <3>1
    <3> HIDE DEF a, b, c, l, w, z
    <3>4. w <= a /\ a < w + b /\ w <= l /\ l < w + b
      BY <1>4, <3>3, Rounded
    <3>5. c <= a /\ a < c + z /\ c <= l /\ l < c + z
      BY <1>4, <3>2, <3>4
    <3>6. RoundDown(a, z) = c /\ RoundDown(l, z) = c
      BY <1>4, <3>5, RoundedIs
    <3> QED BY <1>7, <3>6 DEF Left, a, l
  <2>2. SetupSector("flush") /\ page_buf_empty' = TRUE
    BY <1>7, <2>1
  <2>3. AccessorType' /\ ~target'.strayed /\ Ended("flush")
    <3>1. "flush" \in Statements /\ current_sector_valid' \in BOOLEAN /\ last_packet_addr' \in Nat
      BY <1>2, <1>7, Zenon DEF Statements, AccessorType
    <3> QED BY <1>2, <1>7, <3>1, SetupType
  <2>4. CASE err' # None
    <3>1. page_buffer' = EmptyPage
      BY <1>2, <2>1, <2>2, SetupEnds
    <3> QED BY <1>2, <1>7, <2>3, <2>4, <3>1, FailedWrite
  <2>5. CASE err' = None
    <3>1. /\ SectorSet' /\ page_buffer' = EmptyPage
          /\ current_write_block_addr' = current_sector_addr'
          /\ current_sector_addr' <= todo.addr /\ todo.addr < SectorEnd'
      BY <1>2, <2>2, <2>5, SetupSets
    <3>2. InOrder(target')
      BY <1>2, <2>2, <2>5, SetupEnds
    <3>3. at' = "flush" /\ flash_state' = flash_state /\ todo' = todo
      BY <1>7, <2>3, <2>5 DEF Ended
    <3>4. SectorEnd' \in Nat
      <4>1. current_sector_addr' \in Nat /\ current_sector_size' \in Nat
        BY <1>2, <2>2, SetupEnds
      <4> QED BY <4>1, EndsAre, SumNat
    <3>5. todo.addr <= SectorEnd'
      BY <1>4, <3>1, <3>4, Less
    <3>6. Positions'
      BY <3>1, <3>3, <3>5, NoStatement DEF Positions, Statements
    <3> QED BY <1>1, <1>7, <2>3, <2>5, <3>1, <3>2, <3>3, <3>6, Advances DEF Statements
  <2> QED BY <2>4, <2>5
<1>8. CASE ~Left(z) /\ Skip("flush")
  <2>1. /\ AccessorType' /\ ~target'.strayed /\ InOrder(target') /\ at' = "flush"
        /\ flash_state' = flash_state /\ err' = None
        /\ UNCHANGED <<current_sector_valid, last_packet_addr, block, sector, page, todo, overrun>>
        /\ SectorSet' /\ (page_buf_empty => page_buffer = EmptyPage)'
    BY <1>1, <1>8, SkipSets DEF Statements
  <2>2. RoundDown(a, z) = RoundDown(l, z)
    BY <1>8 DEF Left
  <2>3. w = RoundDown(a, b) \/ (w = c /\ c <= a)
    BY <1>3 DEF AtBlock
  <2> HIDE DEF a, b, c, l, w, z
  <2>4. c <= a /\ w <= a
    <3>1. c <= RoundDown(l, z) /\ RoundDown(l, z) \in Nat
      BY <1>4, <1>5, Rounded, RoundedBelow
    <3>2. RoundDown(a, z) <= a /\ RoundDown(a, b) <= a
      BY <1>4, Rounded
    <3> QED BY <1>4, <2>2, <2>3, <3>1, <3>2
  <2>5. a <= c + z \/ (l = c + z /\ RoundDown(a, z) = l)
    <3>1. CASE l < c + z
      <4>1. RoundDown(l, z) = c
        BY <1>4, <1>5, <3>1, RoundedIs
      <4>2. a < RoundDown(a, z) + z
        BY <1>4, Rounded
      <4> QED BY <1>4, <2>2, <4>1, <4>2
    <3>2. CASE l = c + z
      <4>1. l % z = 0
        BY <1>4, <3>2, Further
      <4>2. RoundDown(l, z) = l
        BY <1>4, <4>1, RoundedIs
      <4> QED BY <2>2, <3>2, <4>2
    <3> QED BY <1>4, <1>5, <3>1, <3>2
  <2>6. a <= SectorEnd \/ BehindSector
    BY <2>5 DEF BehindSector, SectorEnd, a, c, l, z
  <2>7. Positions'
    <3>1. current_sector_addr' <= todo'.addr /\ current_write_block_addr' <= todo'.addr
      BY <2>1, <2>4 DEF block, sector, a, c, w
    <3>2. (todo.addr <= SectorEnd \/ BehindSector)'
      BY <2>1, <2>6 DEF BehindSector, SectorEnd, sector, a
    <3>3. todo'.data # <<>>
      BY <1>2, <2>1
    <3> QED BY <2>1, <3>1, <3>2, <3>3, NoStatement DEF Positions, Statements
  <2> QED BY <1>1, <1>2, <2>1, <2>7, Advances DEF Statements
<1> QED BY <1>7, <1>8 DEF WriteSector

LEMMA FlushKeeps ==
  ASSUME AccessorInv, WriteFlush
  PROVE  AccessorInv'
<1> DEFINE b == current_write_block_size
           a == todo.addr
<1>1. at = "flush" /\ at \in Statements \ {"first", "lost"}
  BY DEF WriteFlush, Statements
<1>2. /\ AccessorType /\ SectorSet /\ Positions /\ overrun = FALSE /\ flash_state = "OPEN"
  BY <1>1, Running
<1>3. /\ current_sector_addr <= a /\ current_write_block_addr <= a
      /\ a <= SectorEnd \/ (BehindSector /\ todo.data # <<>>)
  BY <1>1, <1>2 DEF Positions
<1>4. a \in Nat /\ b \in Nat /\ b > 0
  BY <1>2, SectorIs DEF AccessorType
<1>5. CASE a >= BlockEnd /\ Flush("end")
  <2>1. /\ AccessorType' /\ ~target'.strayed /\ Ended("end")
        /\ page_buf_empty' = TRUE /\ page_buffer' = EmptyPage
        /\ current_write_block_addr' = RoundDown(a, b)
        /\ UNCHANGED <<current_write_block_size, sector, current_sector_valid,
                       last_packet_addr, todo, overrun>>
        /\ err' = None => SectorSet' /\ InOrder(target')
    BY <1>1, <1>5, FlushSets DEF Statements
  <2>2. CASE err' # None
    BY <1>2, <2>1, <2>2, FailedWrite
  <2>3. CASE err' = None
    <3>1. at' = "end" /\ flash_state' = flash_state
      BY <2>1, <2>3 DEF Ended
    <3>2. RoundDown(a, b) <= a /\ a < RoundDown(a, b) + b
      BY <1>4, Rounded
    <3>3. /\ current_sector_addr' <= todo'.addr /\ current_write_block_addr' <= todo'.addr
          /\ (a <= SectorEnd \/ (BehindSector /\ todo.data # <<>>))'
      BY <1>3, <2>1, <3>2 DEF sector, SectorEnd, BehindSector
    <3>4. todo'.addr < BlockEnd'
      BY <2>1, <3>2 DEF BlockEnd
    <3>5. Positions'
      BY <3>1, <3>3, <3>4, NoStatement DEF Positions, Statements
    <3> QED BY <1>1, <2>1, <2>3, <3>1, <3>5, Advances DEF Statements
  <2> QED BY <2>2, <2>3
<1>6. CASE a < BlockEnd /\ Skip("end")
  <2>1. /\ AccessorType' /\ ~target'.strayed /\ InOrder(target') /\ at' = "end"
        /\ flash_state' = flash_state /\ err' = None
        /\ UNCHANGED <<current_sector_valid, last_packet_addr, block, sector, page, todo, overrun>>
        /\ SectorSet' /\ (page_buf_empty => page_buffer = EmptyPage)'
    BY <1>1, <1>6, SkipSets DEF Statements
  <2>2. /\ current_sector_addr' <= todo'.addr /\ current_write_block_addr' <= todo'.addr
        /\ (a <= SectorEnd \/ (BehindSector /\ todo.data # <<>>))'
        /\ todo'.addr < BlockEnd'
    BY <1>3, <1>6, <2>1 DEF block, sector, SectorEnd, BlockEnd, BehindSector
  <2>3. Positions'
    BY <2>1, <2>2, NoStatement DEF Positions, Statements
  <2> QED BY <1>1, <2>1, <2>3, Advances DEF Statements
<1> QED BY <1>5, <1>6 DEF WriteFlush

LEMMA EndKeeps ==
  ASSUME AccessorInv, WriteEnd
  PROVE  AccessorInv'
<1> DEFINE b == current_write_block_size
           w == current_write_block_addr
           a == todo.addr
<1>1. at = "end" /\ at \in Statements \ {"first", "lost"} /\ todo.data = <<>>
  BY DEF WriteEnd, Statements
<1>2. /\ AccessorType /\ ~target.strayed /\ InOrder(target) /\ SectorSet /\ Positions
      /\ overrun = FALSE /\ flash_state = "OPEN" /\ err = None /\ current_sector_valid
      /\ page_buf_empty => page_buffer = EmptyPage
  BY <1>1, Running
<1>3. /\ current_sector_addr <= a /\ w <= a /\ a <= SectorEnd /\ a < w + b
  BY <1>1, <1>2 DEF Positions, BlockEnd
<1>4. a \in Nat /\ b \in Nat /\ b > 0 /\ w \in Nat /\ w % b = 0
  BY <1>2, SectorIs DEF AccessorType, SectorSet
<1>5. /\ at' = None /\ last_packet_addr' = todo.addr
      /\ UNCHANGED <<target, flash_state, current_sector_valid, block, sector,
                     page, todo, err, overrun>>
  BY DEF WriteEnd
<1>6. w = RoundDown(a, b)
  <2> HIDE DEF a, b, w
  <2> QED BY <1>3, <1>4, RoundedIs
<1>7. AccessorType'
  <2>1. last_packet_addr' \in Nat
    BY <1>4, <1>5
  <2> QED BY <1>2, <1>5, <2>1, Zenon DEF AccessorType, block, sector, page
<1>8. SectorSet'
  BY <1>2, <1>5, Zenon DEF SectorSet, BlockEnd, SectorEnd, block, sector, page
<1>9. LastInside' /\ (current_write_block_addr = RoundDown(last_packet_addr, current_write_block_size))'
  BY <1>3, <1>5, <1>6 DEF LastInside, SectorEnd, block, sector
<1>10. Positions'
  BY <1>5, <1>9, NoStatement DEF Positions, Statements
<1>11. (page_buf_empty => page_buffer = EmptyPage)'
  BY <1>2, <1>5 DEF page
<1>12. InOrder(target') /\ ~target'.strayed /\ err' = None /\ flash_state' = "OPEN"
       /\ current_sector_valid' /\ overrun' = FALSE
  BY <1>2, <1>5
<1> QED BY <1>5, <1>7, <1>8, <1>10, <1>11, <1>12, NoStatement DEF AccessorInv, Statements

LEMMA ChangeKeeps ==
  ASSUME AccessorInv, WriteChange
  PROVE  AccessorInv'
<1> DEFINE b == current_write_block_size
           c == current_sector_addr
           z == current_sector_size
           w == current_write_block_addr
           a == todo.addr
           l == last_packet_addr
<1>1. at = "end" /\ at \in Statements \ {"first", "lost"} /\ todo.data # <<>>
  BY DEF WriteChange, Statements
<1>2. /\ AccessorType /\ ~target.strayed /\ InOrder(target) /\ SectorSet /\ Positions
      /\ overrun = FALSE /\ flash_state = "OPEN" /\ err = None /\ current_sector_valid
      /\ page_buf_empty => page_buffer = EmptyPage
  BY <1>1, Running
<1>3. /\ c <= a /\ w <= a /\ a < BlockEnd
      /\ a <= SectorEnd \/ BehindSector
  BY <1>1, <1>2 DEF Positions
<1>4. /\ a \in Nat /\ l \in Nat /\ c \in Nat /\ z \in Nat /\ w \in Nat /\ b \in Nat
      /\ z > 0 /\ b > 0 /\ SectorEnd = c + z /\ BlockEnd = w + b
  BY <1>2, SectorIs, EndsAre DEF AccessorType
<1>5. page_buf_empty \in BOOLEAN
  BY <1>2, Zenon DEF AccessorType
<1>6. CASE a >= SectorEnd /\ SetupSector("copy") /\
           UNCHANGED <<current_sector_valid, last_packet_addr, page_buf_empty, todo, overrun>>
  <2>1. page_buf_empty = TRUE
    <3>1. ASSUME ~page_buf_empty PROVE FALSE
      <4>1. BlockEnd <= SectorEnd
        BY <1>2, <3>1 DEF SectorSet
      <4> HIDE DEF a, b, c, w, z
      <4> QED BY <1>3, <1>4, <1>6, <4>1
    <3> QED BY <1>5, <3>1
  <2>2. SetupSector("copy") /\ page_buf_empty' = TRUE
    BY <1>6, <2>1
  <2>3. AccessorType' /\ ~target'.strayed /\ Ended("copy")
    <3>1. "copy" \in Statements /\ current_sector_valid' \in BOOLEAN /\ last_packet_addr' \in Nat
      BY <1>2, <1>6, Zenon DEF Statements, AccessorType
    <3> QED BY <1>2, <1>6, <3>1, SetupType
  <2>4. CASE err' # None
    <3>1. page_buffer' = EmptyPage
      BY <1>2, <2>1, <2>2, SetupEnds
    <3> QED BY <1>2, <1>6, <2>3, <2>4, <3>1, FailedWrite
  <2>5. CASE err' = None
    <3>1. /\ SectorSet' /\ page_buffer' = EmptyPage
          /\ current_sector_addr' = SectorOf(a)
          /\ current_write_block_addr' = current_sector_addr'
          /\ current_sector_addr' <= todo.addr /\ todo.addr < SectorEnd'
      BY <1>2, <2>2, <2>5, SetupSets
    <3>2. InOrder(target')
      BY <1>2, <2>2, <2>5, SetupEnds
    <3>3. at' = "copy" /\ flash_state' = flash_state /\ todo' = todo
      BY <1>6, <2>3, <2>5 DEF Ended
    <3>4. SectorOf(c + z) = c + z /\ SectorSize((c + z) - 1) = z
      <4>1. z # 0 /\ c = SectorOf(c) /\ z = SectorSize(c)
        BY <1>2 DEF SectorSet
      <4> HIDE DEF c, z
      <4> QED BY <1>4, <4>1, NextSector
    <3>5. todo'.addr < BlockEnd' \/ Behind'
      <4>1. CASE a <= SectorEnd
        <5>1. a = c + z
          <6> HIDE DEF a, c, z
          <6> QED BY <1>4, <1>6, <4>1
        <5>2. current_write_block_addr' = a
          BY <3>1, <3>4, <5>1
        <5>3. current_write_block_size' \in Nat /\ current_write_block_size' > 0
          <6> DEFINE s == SectorSize(a)
          <6>1. /\ s # 0 /\ current_sector_size' = s
                /\ current_write_block_size' =
                     IF current_sector_size' <= PageBuffer THEN current_sector_size' ELSE PageBuffer
            BY <1>2, <2>2, <2>5, SetupEnds
          <6>2. s \in Nat /\ s > 0 /\ PageBuffer \in Nat /\ PageBuffer > 0
            BY <1>4, <6>1, Located, FlashAccessorAssumption
          <6> HIDE DEF s
          <6> QED BY <6>1, <6>2
        <5>4. BlockEnd' = a + current_write_block_size'
          BY <5>2, EndsAre
        <5>5. \A m \in Nat : m > 0 => a < a + m
          BY <1>4
        <5> QED BY <3>3, <5>3, <5>4, <5>5
      <4>2. CASE BehindSector
        <5>1. l = c + z /\ RoundDown(a, z) = l
          BY <1>4, <4>2 DEF BehindSector
        <5>2. l = SectorOf(l) /\ RoundDown(a, SectorSize(l - 1)) = l
          BY <3>4, <5>1
        <5> QED BY <1>6, <5>2 DEF Behind
      <4> QED BY <1>3, <4>1, <4>2
    <3>6. Positions'
      BY <2>2, <3>1, <3>3, <3>5, NoStatement DEF Positions, Statements
    <3> QED BY <1>1, <1>6, <2>3, <2>5, <3>1, <3>2, <3>3, <3>6, Advances DEF Statements
  <2> QED BY <2>4, <2>5
<1>7. CASE a < SectorEnd /\ Skip("copy")
  <2>1. /\ AccessorType' /\ ~target'.strayed /\ InOrder(target') /\ at' = "copy"
        /\ flash_state' = flash_state /\ err' = None
        /\ UNCHANGED <<current_sector_valid, last_packet_addr, block, sector, page, todo, overrun>>
        /\ SectorSet' /\ (page_buf_empty => page_buffer = EmptyPage)'
    BY <1>1, <1>7, SkipSets DEF Statements
  <2>2. /\ current_sector_addr' <= todo'.addr /\ current_write_block_addr' <= todo'.addr
        /\ todo'.addr < SectorEnd' /\ todo'.addr < BlockEnd'
    BY <1>3, <1>7, <2>1 DEF block, sector, SectorEnd, BlockEnd
  <2>3. Positions'
    BY <2>1, <2>2, NoStatement DEF Positions, Statements
  <2> QED BY <1>1, <2>1, <2>3, Advances DEF Statements
<1> QED BY <1>6, <1>7 DEF WriteChange

(* What a copy takes and what it leaves.                                    *)
Taken ==
  IF Len(todo.data) < current_write_block_size - CopyStart
  THEN Len(todo.data) ELSE current_write_block_size - CopyStart

LEMMA Copies ==
  ASSUME AccessorInv, WriteCopy
  PROVE  /\ AccessorType /\ SectorSet /\ flash_state = "OPEN" /\ overrun = FALSE
         /\ current_write_block_addr <= todo.addr /\ todo.addr < BlockEnd
         /\ current_sector_addr <= current_write_block_addr /\ BlockEnd <= SectorEnd
         /\ Taken \in 1 .. Len(todo.data)
         /\ todo.addr + Taken <= BlockEnd
         /\ CopyStart \in Nat /\ CopyStart + Taken <= PageBuffer
         /\ page_buffer' = [i \in 1 .. PageBuffer |->
                              IF i > CopyStart /\ i <= CopyStart + Taken
                              THEN todo.data[i - CopyStart] ELSE page_buffer[i]]
         /\ todo' = [addr |-> todo.addr + Taken,
                     data |-> SubSeq(todo.data, Taken + 1, Len(todo.data))]
         /\ page_buf_empty' = FALSE /\ at' = "flush"
         /\ UNCHANGED <<target, flash_state, current_sector_valid, last_packet_addr,
                        block, sector, err, overrun>>
<1> DEFINE b == current_write_block_size
           c == current_sector_addr
           z == current_sector_size
           w == current_write_block_addr
           a == todo.addr
           k == Len(todo.data)
           n == Taken
<1>1. at = "copy" /\ at \in Statements \ {"first", "lost"}
  BY DEF WriteCopy, Statements
<1>2. /\ AccessorType /\ SectorSet /\ Positions /\ overrun = FALSE /\ flash_state = "OPEN"
      /\ todo.data # <<>>
  BY <1>1, Running
<1>3. /\ c <= a /\ a < SectorEnd /\ w <= a
  BY <1>1, <1>2 DEF Positions
<1>4. /\ a \in Nat /\ c \in Nat /\ z \in Nat /\ w \in Nat /\ b \in Nat
      /\ z > 0 /\ b > 0 /\ b <= PageBuffer /\ PageBuffer \in Nat
      /\ SectorEnd = c + z /\ BlockEnd = w + b
      /\ z % b = 0 /\ c % b = 0 /\ w % b = 0
  BY <1>2, SectorIs, EndsAre DEF AccessorType, SectorSet
<1>5. k \in Nat /\ k > 0
  <2>1. todo.data \in Seq(Bytes)
    BY <1>2 DEF AccessorType
  <2> QED BY <1>2, <2>1
<1>6. CopyStart = a - w /\ CopyStart < b
  BY DEF WriteCopy, CopyStart
<1>7. n = IF k < b - CopyStart THEN k ELSE b - CopyStart
  BY DEF Taken
<1>8. UNCHANGED <<target, flash_state, current_sector_valid, last_packet_addr,
                  block, sector, err, overrun>>
      /\ page_buf_empty' = FALSE /\ at' = "flush"
      /\ page_buffer' = [i \in 1 .. PageBuffer |->
                              IF i > CopyStart /\ i <= CopyStart + Taken
                              THEN todo.data[i - CopyStart] ELSE page_buffer[i]]
      /\ todo' = [addr |-> todo.addr + Taken,
                  data |-> SubSeq(todo.data, Taken + 1, Len(todo.data))]
  BY DEF WriteCopy, Taken
<1> HIDE DEF a, b, c, k, w, z, n
<1>9. /\ CopyStart \in Nat /\ n \in 1 .. k /\ a + n <= w + b /\ a < w + b
      /\ CopyStart + n <= PageBuffer
  BY <1>3, <1>4, <1>5, <1>6, <1>7
<1>10. RoundDown(a, b) = w
  BY <1>3, <1>4, <1>9, RoundedIs
<1>11. c <= w
  BY <1>3, <1>4, <1>10, RoundedBelow
<1>12. w + b <= c + z
  <2>4. (c + z) % b = 0
    BY <1>4, SumOf
  <2>5. c + z \in Nat
    BY <1>4
  <2> DEFINE e == c + z
  <2>1. e % b = 0 /\ e \in Nat
    BY <2>4, <2>5
  <2>2. w < e
    BY <1>3, <1>4
  <2> HIDE DEF e
  <2>3. w + b <= e
    BY <1>4, <2>1, <2>2, Apart
  <2> QED BY <2>3 DEF e
<1> QED BY <1>2, <1>3, <1>4, <1>8, <1>9, <1>11, <1>12 DEF a, b, c, w, z, k, n

LEMMA CopyKeeps ==
  ASSUME AccessorInv, WriteCopy
  PROVE  AccessorInv'
<1> DEFINE n == Taken
           a == todo.addr
           d == todo.data
           k == Len(d)
<1>1. /\ AccessorType /\ SectorSet /\ flash_state = "OPEN" /\ overrun = FALSE
      /\ current_write_block_addr <= a /\ a < BlockEnd
      /\ current_sector_addr <= current_write_block_addr /\ BlockEnd <= SectorEnd
      /\ n \in 1 .. k /\ a + n <= BlockEnd
      /\ CopyStart \in Nat /\ CopyStart + n <= PageBuffer
      /\ page_buffer' = [i \in 1 .. PageBuffer |->
                           IF i > CopyStart /\ i <= CopyStart + n
                           THEN d[i - CopyStart] ELSE page_buffer[i]]
      /\ todo' = [addr |-> a + n, data |-> SubSeq(d, n + 1, k)]
      /\ page_buf_empty' = FALSE /\ at' = "flush"
      /\ UNCHANGED <<target, flash_state, current_sector_valid, last_packet_addr,
                     block, sector, err, overrun>>
  BY Copies
<1>2. /\ at \in Statements \ {"first", "lost"}
  BY DEF WriteCopy, Statements
<1>3. ~target.strayed /\ InOrder(target) /\ err = None /\ current_sector_valid
  BY <1>2, Running DEF WriteCopy
<1>4. /\ a \in Nat /\ d \in Seq(Bytes) /\ page_buffer \in [1 .. PageBuffer -> Bytes]
      /\ k \in Nat /\ PageBuffer \in Nat /\ current_sector_addr \in Nat
      /\ current_write_block_addr \in Nat /\ BlockEnd \in Nat /\ SectorEnd \in Nat
  BY <1>1, FlashAccessorAssumption DEF AccessorType, BlockEnd, SectorEnd
<1> HIDE DEF n, a, d, k
<1>5. todo' \in [addr : Nat, data : Seq(Bytes)] /\ todo'.addr = a + n /\ todo'.addr \in Nat
  <2>1. a + n \in Nat
    BY <1>1, <1>4
  <2>2. SubSeq(d, n + 1, k) \in Seq(Bytes)
    <3>1. n + 1 \in Nat /\ n + 1 >= 1 /\ k = Len(d)
      BY <1>1, <1>4 DEF k
    <3> QED BY <1>4, <3>1
  <2> QED BY <1>1, <2>1, <2>2
<1>6. page_buffer' \in [1 .. PageBuffer -> Bytes]
  <2>1. ASSUME NEW i \in 1 .. PageBuffer, i > CopyStart, i <= CopyStart + n
        PROVE  d[i - CopyStart] \in Bytes
    <3>1. i - CopyStart \in 1 .. Len(d)
      BY <1>1, <1>4, <2>1 DEF k
    <3> QED BY <1>4, <3>1, ElementOfSeq
  <2>2. \A i \in 1 .. PageBuffer : page_buffer[i] \in Bytes
    BY <1>4
  <2> QED BY <1>1, <2>1, <2>2
<1>7. AccessorType'
  <2>1. at' \in {None, "first", "block", "sector", "flush", "end", "copy", "lost"}
        /\ page_buf_empty' \in BOOLEAN
    BY <1>1
  <2> QED BY <1>1, <1>5, <1>6, <2>1, Zenon DEF AccessorType, block, sector
<1>8. SectorSet' /\ SectorEnd' = SectorEnd
  BY <1>1 DEF SectorSet, BlockEnd, SectorEnd, block, sector
<1>9. /\ current_sector_addr' = current_sector_addr
      /\ current_write_block_addr' = current_write_block_addr
  BY <1>1 DEF block, sector
<1>10. /\ current_sector_addr <= a + n /\ current_write_block_addr <= a + n /\ a + n <= SectorEnd
  BY <1>1, <1>4
<1>11. Positions'
  <2>1. current_sector_addr' <= todo'.addr /\ current_write_block_addr' <= todo'.addr
        /\ todo'.addr <= SectorEnd'
    BY <1>5, <1>8, <1>9, <1>10
  <2> QED BY <1>1, <2>1, NoStatement DEF Positions, Statements
<1> QED BY <1>1, <1>2, <1>3, <1>7, <1>8, <1>11, Advances DEF Statements

LEMMA BeyondKeeps ==
  ASSUME AccessorInv, WriteBeyond
  PROVE  AccessorInv'
<1> DEFINE b == current_write_block_size
           c == current_sector_addr
           z == current_sector_size
           w == current_write_block_addr
           a == todo.addr
<1>1. at = "copy" /\ at \in Statements \ {"first", "lost"}
  BY DEF WriteBeyond, Statements
<1>2. /\ AccessorType /\ SectorSet /\ Positions /\ flash_state = "OPEN" /\ ~target.strayed
      /\ InOrder(target) /\ err = None /\ current_sector_valid
      /\ page_buf_empty => page_buffer = EmptyPage
  BY <1>1, Running
<1>3. /\ c <= a /\ a < SectorEnd /\ w <= a
      /\ a < BlockEnd \/ (w = c /\ Behind)
  BY <1>1, <1>2 DEF Positions
<1>4. /\ a \in Nat /\ c \in Nat /\ z \in Nat /\ w \in Nat /\ b \in Nat
      /\ z > 0 /\ b > 0 /\ SectorEnd = c + z /\ BlockEnd = w + b
      /\ c = SectorOf(c) /\ z = SectorSize(c)
  BY <1>2, SectorIs, EndsAre DEF AccessorType, SectorSet
<1>5. CopyStart = a - w /\ CopyStart >= b
  BY DEF WriteBeyond, CopyStart
<1>6. /\ overrun' = TRUE /\ at' = "lost"
      /\ UNCHANGED <<target, flash_state, current_sector_valid, last_packet_addr,
                     block, sector, page, todo, err>>
  BY DEF WriteBeyond
<1> HIDE DEF a, b, c, w, z
<1>7. a >= w + b
  BY <1>4, <1>5
<1>8. w = c /\ Behind
  BY <1>3, <1>4, <1>7
<1>9. SectorOf(a) = c
  <2>1. z # 0 /\ SectorOf(c) <= a /\ a < SectorOf(c) + SectorSize(c)
    BY <1>3, <1>4
  <2> QED BY <1>4, <2>1, SameSector
<1>10. a >= SectorOf(a) + b
  BY <1>4, <1>7, <1>8, <1>9
<1>11. AccessorType'
  BY <1>2, <1>6, Zenon DEF AccessorType, block, sector, page
<1>12. SectorSet'
  BY <1>2, <1>6, Zenon DEF SectorSet, BlockEnd, SectorEnd, block, sector, page
<1>13. Behind' /\ (todo.addr >= SectorOf(todo.addr) + current_write_block_size)'
  BY <1>6, <1>8, <1>10 DEF Behind, block, a, b
<1>14. Positions'
  BY <1>6, <1>13, NoStatement DEF Positions, Statements
<1>15. (page_buf_empty => page_buffer = EmptyPage)'
  BY <1>2, <1>6 DEF page
<1>16. InOrder(target') /\ ~target'.strayed /\ err' = None /\ flash_state' = "OPEN"
       /\ current_sector_valid'
  BY <1>2, <1>6
<1> QED BY <1>6, <1>11, <1>12, <1>14, <1>15, <1>16, NoStatement DEF AccessorInv, Statements

LEMMA WriteKeeps ==
  ASSUME AccessorInv, WriteStep
  PROVE  AccessorInv'
BY FirstKeeps, BlockKeeps, SectorKeeps, FlushKeeps, EndKeeps, ChangeKeeps, CopyKeeps,
   BeyondKeeps DEF WriteStep

-----------------------------------------------------------------------------
(* The other operations of the accessor.                                    *)

LEMMA OpenKeeps ==
  ASSUME AccessorInv, flash_state = "CLOSED", Open
  PROVE  /\ AccessorInv' /\ target'.mem = target.mem
         /\ err' = None => flash_state' = "OPEN" /\ ~current_sector_valid'
         /\ err' # None => flash_state' = "CLOSED"
         /\ at' = None /\ page_buf_empty' = TRUE
<1>1. at = None
  BY DEF Open
<1>2. PICK o \in FlashInit(target) :
        target' = o.t /\ err' = o.err /\ flash_state' = IF o.err = None THEN "OPEN" ELSE "CLOSED"
  BY DEF Open
<1>3. ResetFields /\ UNCHANGED <<at, todo, overrun>>
  BY DEF Open
<1>4. AccessorType /\ ~target.strayed /\ overrun = FALSE
  BY <1>1, NoStatement DEF AccessorInv, AccessorType, Statements
<1>5. /\ target' \in TargetType /\ err' \in Errors \cup {None} /\ target'.mem = target.mem
      /\ (err' = None => InOrder(target')) /\ ~target'.strayed
  BY <1>2, <1>4, FlashInits DEF AccessorType
<1>6. /\ current_sector_valid' = FALSE /\ last_packet_addr' = 0
      /\ current_write_block_addr' = 0 /\ current_write_block_size' = 0
      /\ current_sector_addr' = 0 /\ current_sector_size' = 0
      /\ page_buf_empty' = TRUE /\ page_buffer' = EmptyPage
  BY <1>3 DEF ResetFields
<1>7. AccessorType'
  <2>1. flash_state' \in {"CLOSED", "OPEN", "ERROR"}
    BY <1>2
  <2>2. at' \in {None, "first", "block", "sector", "flush", "end", "copy", "lost"}
    BY <1>1, <1>3
  <2>3. page_buffer' \in [1 .. PageBuffer -> Bytes]
    BY <1>6, EmptyType
  <2>4. todo' \in [addr : Nat, data : Seq(Bytes)] /\ overrun' \in BOOLEAN
    BY <1>3, <1>4, Zenon DEF AccessorType
  <2>5. /\ current_sector_valid' \in BOOLEAN /\ page_buf_empty' \in BOOLEAN
    BY <1>6, Zenon
  <2>6. /\ current_sector_addr' \in Nat /\ current_sector_size' \in Nat
        /\ current_write_block_addr' \in Nat /\ current_write_block_size' \in Nat
        /\ last_packet_addr' \in Nat
    BY <1>6
  <2> QED BY <1>5, <2>1, <2>2, <2>3, <2>4, <2>5, <2>6, Zenon DEF AccessorType
<1>8. at' = None /\ overrun' = FALSE
  BY <1>1, <1>3, <1>4
<1>9. AccessorInv'
  BY <1>2, <1>5, <1>6, <1>7, <1>8, NoStatement DEF AccessorInv, Statements
<1> QED BY <1>2, <1>5, <1>6, <1>8, <1>9

LEMMA BeginKeeps ==
  ASSUME AccessorInv, flash_state = "OPEN", NEW a \in Nat, NEW data \in Seq(Bytes), data # <<>>,
         Write(a, data)
  PROVE  /\ AccessorInv' /\ at' # None /\ todo' = [addr |-> a, data |-> data]
         /\ at' = IF current_sector_valid THEN "block" ELSE "first"
         /\ UNCHANGED <<target, flash_state, current_sector_valid, last_packet_addr,
                        block, sector, page, overrun>>
<1>1. /\ at = None /\ at' = IF current_sector_valid THEN "block" ELSE "first"
      /\ todo' = [addr |-> a, data |-> data] /\ err' = None
      /\ UNCHANGED <<target, flash_state, current_sector_valid, last_packet_addr,
                     block, sector, page, overrun>>
  BY DEF Write
<1>2. /\ AccessorType /\ ~target.strayed /\ overrun = FALSE /\ InOrder(target)
      /\ page_buf_empty => page_buffer = EmptyPage
      /\ ~current_sector_valid => page_buf_empty /\ current_write_block_size = 0
      /\ current_sector_valid => SectorSet /\ Positions
  BY <1>1, NoStatement DEF AccessorInv, AccessorType, Statements
<1>3. todo' \in [addr : Nat, data : Seq(Bytes)] /\ todo'.data # <<>>
  BY <1>1
<1>4. AccessorType'
  <2>1. at' \in {None, "first", "block", "sector", "flush", "end", "copy", "lost"}
    BY <1>1
  <2>2. err' \in Errors \cup {None}
    BY <1>1
  <2> QED BY <1>1, <1>2, <1>3, <2>1, <2>2, Zenon DEF AccessorType, block, sector, page
<1>5. (page_buf_empty => page_buffer = EmptyPage)'
  BY <1>1, <1>2 DEF page
<1>6. at' \in {"first", "block"} /\ at' # None
  BY <1>1, NoStatement DEF Statements
<1>7. CASE current_sector_valid
  <2>1. SectorSet'
    BY <1>1, <1>2, <1>7, Zenon DEF SectorSet, BlockEnd, SectorEnd, block, sector, page
  <2>2. at' = "block"
    BY <1>1, <1>7
  <2>3. /\ LastInside
        /\ current_write_block_addr = RoundDown(last_packet_addr, current_write_block_size)
    BY <1>1, <1>2, <1>7 DEF Positions
  <2>4. /\ LastInside' /\ AtBlock(last_packet_addr)'
        /\ (current_write_block_addr = RoundDown(last_packet_addr, current_write_block_size))'
    BY <1>1, <2>3 DEF LastInside, AtBlock, SectorEnd, block, sector, page
  <2>5. Positions'
    BY <2>2, <2>4, NoStatement DEF Positions, Statements
  <2>6. current_sector_valid' /\ flash_state' = "OPEN" /\ InOrder(target') /\ ~target'.strayed
        /\ overrun' = FALSE /\ err' = None
    BY <1>1, <1>2, <1>7
  <2> QED BY <1>1, <1>3, <1>4, <1>5, <1>6, <2>1, <2>2, <2>5, <2>6 DEF AccessorInv
<1>8. CASE ~current_sector_valid
  <2>1. at' = "first"
    BY <1>1, <1>8
  <2>2. /\ ~current_sector_valid' /\ flash_state' = "OPEN" /\ InOrder(target') /\ ~target'.strayed
        /\ overrun' = FALSE /\ err' = None /\ page_buf_empty' = page_buf_empty
        /\ current_write_block_size' = 0
    BY <1>1, <1>2, <1>8 DEF block, page
  <2> QED BY <1>1, <1>2, <1>3, <1>4, <1>5, <1>6, <1>8, <2>1, <2>2 DEF AccessorInv
<1> QED BY <1>1, <1>6, <1>7, <1>8

LEMMA Closes ==
  ASSUME AccessorInv, flash_state # "CLOSED", Close
  PROVE  /\ target' \in TargetType /\ ~target'.strayed /\ err' \in Errors \cup {None}
         /\ \A x \in Addresses : target'.mem[x] # target.mem[x] =>
              flash_state = "OPEN" /\ current_sector_valid /\ ~page_buf_empty /\ InBlock(x)
         /\ flash_state = "OPEN" /\ err' = None =>
              /\ current_sector_valid
              /\ \A x \in Addresses : ~page_buf_empty /\ InBlock(x) =>
                   target'.mem[x] = Paged(x) /\ target'.mem[x] = Cell(target.mem[x], Paged(x))
<1>1. PICK o \in LastFlush :
        \E u \in FlashUninit(o.t) :
             target' = u.t /\ err' = IF u.err # None THEN u.err ELSE o.err
  BY DEF Close
<1>2. PICK u \in FlashUninit(o.t) :
        target' = u.t /\ err' = IF u.err # None THEN u.err ELSE o.err
  BY <1>1
<1>3. AccessorType /\ ~target.strayed /\ at = None /\ target \in TargetType
  BY DEF AccessorInv, Close, AccessorType
<1>4. /\ o.t \in TargetType /\ ~o.t.strayed /\ o.err \in Errors \cup {None}
      /\ \A x \in Addresses : o.t.mem[x] # target.mem[x] =>
           flash_state = "OPEN" /\ current_sector_valid /\ ~page_buf_empty /\ InBlock(x)
      /\ flash_state = "OPEN" /\ o.err = None =>
           /\ current_sector_valid
           /\ \A x \in Addresses : ~page_buf_empty /\ InBlock(x) =>
                o.t.mem[x] = Paged(x) /\ o.t.mem[x] = Cell(target.mem[x], Paged(x))
  <2>1. CASE flash_state = "ERROR"
    <3>1. o = Done(target)
      BY <1>1, <2>1 DEF LastFlush
    <3>2. o.t = target /\ o.err = None
      BY <3>1 DEF Done
    <3> QED BY <1>3, <2>1, <3>2
  <2>2. CASE flash_state = "OPEN" /\ ~current_sector_valid
    <3>1. current_write_block_size = 0
      BY <2>2 DEF AccessorInv
    <3>2. o = Failed("internal", target)
      BY <1>1, <2>2, <3>1 DEF LastFlush
    <3>3. o.t = target /\ o.err = "internal" /\ o.err \in Errors /\ o.err # None
      BY <3>2, NoneIsNoError DEF Failed, Errors
    <3> QED BY <1>3, <3>3
  <2>3. CASE flash_state = "OPEN" /\ current_sector_valid
    <3>1. SectorSet /\ InOrder(target)
      BY <2>3 DEF AccessorInv
    <3>2. current_write_block_size # 0
      BY <1>3, <3>1, SectorIs DEF AccessorType
    <3>3. o \in IF page_buf_empty THEN {Done(target)}
                ELSE ProgramPage(target, current_write_block_addr,
                                 SubSeq(page_buffer, 1, current_write_block_size))
      BY <1>1, <2>3, <3>2 DEF LastFlush
    <3>4. PageOut(o)
      BY <1>3, <3>1, <3>3, PageOuts
    <3> QED BY <2>3, <3>4 DEF PageOut
  <2> QED BY <1>3, <2>1, <2>2, <2>3 DEF AccessorType
<1>5. Harmless(o.t, u)
  BY <1>4, FlashUninits
<1>6. target' \in TargetType /\ target'.mem = o.t.mem /\ ~target'.strayed
  BY <1>2, <1>4, <1>5 DEF Harmless
<1>7. err' \in Errors \cup {None} /\ (err' = None => o.err = None)
  BY <1>2, <1>4, <1>5 DEF Harmless
<1> QED BY <1>4, <1>6, <1>7

LEMMA CloseKeeps ==
  ASSUME AccessorInv, flash_state # "CLOSED", Close
  PROVE  /\ AccessorInv' /\ flash_state' = "CLOSED" /\ at' = None /\ todo' = todo
         /\ at = None
<1>1. target' \in TargetType /\ ~target'.strayed /\ err' \in Errors \cup {None}
  BY Closes
<1>2. /\ at = None /\ flash_state' = "CLOSED" /\ ResetFields /\ UNCHANGED <<at, todo, overrun>>
  BY DEF Close
<1>3. AccessorType /\ overrun = FALSE
  BY <1>2, NoStatement DEF AccessorInv, AccessorType, Statements
<1>6. /\ current_sector_valid' = FALSE /\ last_packet_addr' = 0
      /\ current_write_block_addr' = 0 /\ current_write_block_size' = 0
      /\ current_sector_addr' = 0 /\ current_sector_size' = 0
      /\ page_buf_empty' = TRUE /\ page_buffer' = EmptyPage
  BY <1>2 DEF ResetFields
<1>7. AccessorType'
  <2>1. flash_state' \in {"CLOSED", "OPEN", "ERROR"}
    BY <1>2
  <2>2. at' \in {None, "first", "block", "sector", "flush", "end", "copy", "lost"}
    BY <1>2
  <2>3. page_buffer' \in [1 .. PageBuffer -> Bytes]
    BY <1>6, EmptyType
  <2>4. todo' \in [addr : Nat, data : Seq(Bytes)] /\ overrun' \in BOOLEAN
    BY <1>2, <1>3, Zenon DEF AccessorType
  <2>5. /\ current_sector_valid' \in BOOLEAN /\ page_buf_empty' \in BOOLEAN
    BY <1>6, Zenon
  <2>6. /\ current_sector_addr' \in Nat /\ current_sector_size' \in Nat
        /\ current_write_block_addr' \in Nat /\ current_write_block_size' \in Nat
        /\ last_packet_addr' \in Nat
    BY <1>6
  <2> QED BY <1>1, <2>1, <2>2, <2>3, <2>4, <2>5, <2>6, Zenon DEF AccessorType
<1> QED BY <1>1, <1>2, <1>3, <1>6, <1>7, NoStatement DEF AccessorInv, Statements

LEMMA ConnectKeeps ==
  ASSUME AccessorInv, flash_state = "CLOSED", Connect
  PROVE  AccessorInv' /\ target'.mem = Blank /\ flash_state' = "CLOSED" /\ at' = None
<1>1. AccessorType /\ ~target.strayed /\ at = None /\ overrun = FALSE /\ target \in TargetType
  <2>1. AccessorType /\ at = None
    BY DEF AccessorInv
  <2>2. overrun = FALSE
    BY <2>1, NoStatement, Zenon DEF AccessorInv, AccessorType, Statements
  <2> QED BY <2>1, <2>2 DEF AccessorInv, AccessorType
<1>2. /\ target' = [target EXCEPT !.mem = Blank, !.loaded = None, !.inited = FALSE]
      /\ err' = None
      /\ UNCHANGED <<flash_state, current_sector_valid,
                 last_packet_addr, block, sector, page, at, todo, overrun>>
  BY DEF Connect
<1>3. target' \in TargetType /\ ~target'.strayed /\ target'.mem = Blank
  BY <1>1, <1>2, ProgrammerAssumption DEF TargetType, Cells, Loads
<1>4. AccessorType'
  <2>1. err' \in Errors \cup {None}
    BY <1>2
  <2> QED BY <1>1, <1>2, <1>3, <2>1, Zenon DEF AccessorType, block, sector, page
<1>5. (page_buf_empty => page_buffer = EmptyPage)'
  BY <1>2 DEF AccessorInv, page
<1> QED BY <1>1, <1>2, <1>3, <1>4, <1>5, NoStatement DEF AccessorInv, Statements

LEMMA AccessorBegins == Init => AccessorInv
<1> SUFFICES ASSUME Init PROVE AccessorInv
  OBVIOUS
<1>1. InitialAccessor(Blank)
  BY DEF Init
<1>2. target \in TargetType /\ ~target.strayed
  BY <1>1, ProgrammerAssumption DEF InitialAccessor, InitialTarget, TargetType, Cells, Loads, Defaults, Funcs
<1>3. AccessorType
  <2>1. todo \in [addr : Nat, data : Seq(Bytes)]
    BY <1>1 DEF InitialAccessor
  <2>2. page_buffer \in [1 .. PageBuffer -> Bytes]
    BY <1>1, EmptyType DEF InitialAccessor
  <2>3. current_sector_valid \in BOOLEAN /\ page_buf_empty \in BOOLEAN /\ overrun \in BOOLEAN
    BY <1>1, Zenon DEF InitialAccessor
  <2>4. /\ flash_state \in {"CLOSED", "OPEN", "ERROR"}
        /\ current_sector_addr \in Nat /\ current_sector_size \in Nat
        /\ current_write_block_addr \in Nat /\ current_write_block_size \in Nat
        /\ last_packet_addr \in Nat
        /\ at \in {None, "first", "block", "sector", "flush", "end", "copy", "lost"}
        /\ err \in Errors \cup {None}
    BY <1>1 DEF InitialAccessor
  <2> QED BY <1>2, <2>1, <2>2, <2>3, <2>4, Zenon DEF AccessorType
<1> QED BY <1>1, <1>2, <1>3, NoStatement DEF AccessorInv, InitialAccessor, Statements

-----------------------------------------------------------------------------
(***************************************************************************)
(* The text of a file.                                                     *)
(***************************************************************************)
Chars == [rec : Nat, at : Nat]

(* The place of a record's line end.                                        *)
LastAt(f, k) == 2 * LineBytes(f[k]) + 1

Follows(f, c, d) ==
  d = IF c.at = LastAt(f, c.rec) THEN [rec |-> c.rec + 1, at |-> 0]
      ELSE [rec |-> c.rec, at |-> c.at + 1]

(* The text x of the first k records.                                       *)
Shape(f, k, x) ==
  /\ x \in Seq(Chars) /\ Len(x) > 0
  /\ x[1] = [rec |-> 1, at |-> 0]
  /\ x[Len(x)] = [rec |-> k, at |-> LastAt(f, k)]
  /\ \A p \in 1 .. Len(x) : x[p].rec \in 1 .. k /\ x[p].at \in 0 .. LastAt(f, x[p].rec)
  /\ \A p \in 1 .. Len(x) : p + 1 <= Len(x) => Follows(f, x[p], x[p + 1])

LEMMA RecordIs ==
  ASSUME NEW f \in Seq(Record), NEW k \in DOMAIN f
  PROVE  /\ f[k] \in Record /\ f[k].addr \in Nat /\ f[k].data \in Seq(Bytes)
         /\ f[k].value \in Nat /\ f[k].ok \in BOOLEAN
         /\ f[k].type \in {"data", "custom", "eof", "segment", "linear", "meta", "other"}
         /\ LineBytes(f[k]) \in Nat /\ LineBytes(f[k]) > 0
         /\ LastAt(f, k) \in Nat /\ LastAt(f, k) > 2
<1>1. f[k] \in Record
  BY ElementOfSeq
<1>2. /\ f[k].addr \in Nat /\ f[k].data \in Seq(Bytes)
      /\ f[k].value \in Nat
      /\ f[k].type \in {"data", "custom", "eof", "segment", "linear", "meta", "other"}
  BY <1>1 DEF Record
<1>3. f[k].ok \in BOOLEAN
  BY <1>1, Zenon DEF Record
<1>4. LineBytes(f[k]) \in Nat /\ LineBytes(f[k]) >= 5
  <2> DEFINE n == Len(f[k].data)
  <2>1. n \in Nat
    BY <1>2
  <2>2. LineBytes(f[k]) = n + 5
    BY DEF LineBytes
  <2> HIDE DEF n
  <2> QED BY <2>1, <2>2
<1>5. LastAt(f, k) \in Nat /\ LastAt(f, k) > 2
  <2> DEFINE n == LineBytes(f[k])
  <2>1. n \in Nat /\ n >= 5 /\ LastAt(f, k) = 2 * n + 1
    BY <1>4 DEF LastAt
  <2> HIDE DEF n
  <2> QED BY <2>1
<1> QED BY <1>1, <1>2, <1>3, <1>4, <1>5

LEMMA LineShape ==
  ASSUME NEW f \in Seq(Record), NEW k \in DOMAIN f
  PROVE  /\ Line(f, k) \in Seq(Chars) /\ Len(Line(f, k)) = LastAt(f, k) + 1
         /\ \A i \in 1 .. LastAt(f, k) + 1 : Line(f, k)[i] = [rec |-> k, at |-> i - 1]
<1> DEFINE m == LastAt(f, k) + 1
<1>1. m \in Nat /\ k \in Nat /\ 2 * LineBytes(f[k]) + 2 = m
  <2> DEFINE n == LineBytes(f[k])
  <2>1. n \in Nat /\ LastAt(f, k) = 2 * n + 1 /\ k \in Nat
    BY RecordIs DEF LastAt
  <2> HIDE DEF n
  <2>2. 2 * n + 2 = m /\ m \in Nat
    BY <2>1
  <2> QED BY <2>1, <2>2 DEF n
<1>2. Line(f, k) = [i \in 1 .. m |-> [rec |-> k, at |-> i - 1]]
  BY <1>1 DEF Line
<1> HIDE DEF m
<1>3. \A i \in 1 .. m : [rec |-> k, at |-> i - 1] \in Chars
  BY <1>1 DEF Chars
<1>4. Line(f, k) \in Seq(Chars) /\ Len(Line(f, k)) = m
  BY <1>1, <1>2, <1>3
<1>5. \A i \in 1 .. m : Line(f, k)[i] = [rec |-> k, at |-> i - 1]
  BY <1>2
<1> QED BY <1>4, <1>5 DEF m

LEMMA ShapeFirst ==
  ASSUME NEW f \in Seq(Record), 1 \in DOMAIN f
  PROVE  Shape(f, 1, Line(f, 1))
<1> DEFINE x == Line(f, 1)
           m == LastAt(f, 1)
<1>1. /\ x \in Seq(Chars) /\ Len(x) = m + 1 /\ m \in Nat
      /\ \A i \in 1 .. m + 1 : x[i] = [rec |-> 1, at |-> i - 1]
  BY LineShape, RecordIs
<1> HIDE DEF x
<1>2. x[1] = [rec |-> 1, at |-> 0] /\ x[m + 1] = [rec |-> 1, at |-> m]
  <2>1. 1 \in 1 .. m + 1 /\ m + 1 \in 1 .. m + 1 /\ 1 - 1 = 0 /\ (m + 1) - 1 = m
    BY <1>1
  <2> QED BY <1>1, <2>1
<1>3. \A p \in 1 .. m + 1 : x[p].rec = 1 /\ x[p].at = p - 1 /\ x[p].at \in 0 .. m
  BY <1>1
<1>4. ASSUME NEW p \in 1 .. m + 1, p + 1 <= m + 1 PROVE Follows(f, x[p], x[p + 1])
  <2>1. p + 1 \in 1 .. m + 1 /\ (p + 1) - 1 = (p - 1) + 1 /\ p - 1 # m
    BY <1>1, <1>4
  <2> QED BY <1>1, <1>3, <2>1 DEF Follows, m
<1>5. Len(x) > 0
  BY <1>1
<1> QED BY <1>1, <1>2, <1>3, <1>4, <1>5 DEF Shape, x, m

LEMMA ShapeNext ==
  ASSUME NEW f \in Seq(Record), NEW k \in Nat, k > 0, k + 1 \in DOMAIN f,
         NEW x, Shape(f, k, x)
  PROVE  Shape(f, k + 1, x \o Line(f, k + 1))
<1> DEFINE l == Line(f, k + 1)
           m == LastAt(f, k + 1)
           n == Len(x)
           y == x \o l
<1>1. /\ l \in Seq(Chars) /\ Len(l) = m + 1 /\ m \in Nat
      /\ \A i \in 1 .. m + 1 : l[i] = [rec |-> k + 1, at |-> i - 1]
  BY LineShape, RecordIs
<1>2. /\ x \in Seq(Chars) /\ n > 0 /\ n \in Nat
      /\ x[1] = [rec |-> 1, at |-> 0]
      /\ x[n] = [rec |-> k, at |-> LastAt(f, k)]
      /\ \A p \in 1 .. n : x[p].rec \in 1 .. k /\ x[p].at \in 0 .. LastAt(f, x[p].rec)
      /\ \A p \in 1 .. n : p + 1 <= n => Follows(f, x[p], x[p + 1])
  BY DEF Shape
<1>10. Len(l) \in Nat
  BY <1>1
<1>3. y \in Seq(Chars) /\ Len(y) = n + (m + 1)
  <2>1. y \in Seq(Chars) /\ Len(y) = Len(x) + Len(l)
    <3> HIDE DEF l
    <3> QED BY <1>1, <1>2, ConcatProperties
  <2> QED BY <1>1, <2>1
<1>4. \A p \in 1 .. n : y[p] = x[p]
  <2> HIDE DEF l
  <2> QED BY <1>1, <1>2, <1>10, ConcatProperties
<1>5. \A i \in 1 .. m + 1 : y[n + i] = [rec |-> k + 1, at |-> i - 1]
  <2> TAKE i \in 1 .. m + 1
  <2> DEFINE q == n + i
  <2>1. q \in 1 .. Len(x) + Len(l) /\ ~(q <= Len(x)) /\ q - Len(x) = i
    BY <1>1, <1>2
  <2> HIDE DEF q, l
  <2>2. y[q] = IF q <= Len(x) THEN x[q] ELSE l[q - Len(x)]
    BY <1>1, <1>2, <2>1, ConcatProperties
  <2>3. y[q] = l[i]
    BY <2>1, <2>2
  <2> QED BY <1>1, <2>3 DEF q
<1> HIDE DEF y, l, m, n
<1>6. y[1] = [rec |-> 1, at |-> 0] /\ y[n + (m + 1)] = [rec |-> k + 1, at |-> m]
  <2>1. 1 \in 1 .. n /\ m + 1 \in 1 .. m + 1 /\ (m + 1) - 1 = m
    BY <1>1, <1>2
  <2> QED BY <1>2, <1>4, <1>5, <2>1
<1>7. ASSUME NEW p \in 1 .. n + (m + 1)
      PROVE  y[p].rec \in 1 .. k + 1 /\ y[p].at \in 0 .. LastAt(f, y[p].rec)
  <2>1. CASE p <= n
    BY <1>2, <1>4, <2>1
  <2>2. CASE p > n
    <3> DEFINE i == p - n
    <3>1. i \in 1 .. m + 1 /\ p = n + i
      BY <1>1, <1>2, <2>2
    <3> HIDE DEF i
    <3>2. y[p] = [rec |-> k + 1, at |-> i - 1]
      BY <1>5, <3>1
    <3>3. i - 1 \in 0 .. m
      BY <1>1, <3>1
    <3> QED BY <3>2, <3>3 DEF m
  <2> QED BY <1>1, <1>2, <2>1, <2>2
<1>8. ASSUME NEW p \in 1 .. n + (m + 1), p + 1 <= n + (m + 1)
      PROVE  Follows(f, y[p], y[p + 1])
  <2>1. CASE p + 1 <= n
    <3>1. p \in 1 .. n /\ p + 1 \in 1 .. n
      BY <1>2, <2>1
    <3> QED BY <1>2, <1>4, <2>1, <3>1
  <2>2. CASE p = n
    <3>1. 1 \in 1 .. m + 1 /\ n \in 1 .. n
      BY <1>1, <1>2
    <3>2. y[n] = [rec |-> k, at |-> LastAt(f, k)] /\ y[n + 1] = [rec |-> k + 1, at |-> 0]
      BY <1>2, <1>4, <1>5, <3>1
    <3> QED BY <2>2, <3>2 DEF Follows
  <2>3. CASE p > n
    <3> DEFINE i == p - n
    <3>1. i \in 1 .. m + 1 /\ i + 1 \in 1 .. m + 1 /\ p = n + i /\ p + 1 = n + (i + 1)
          /\ i - 1 # m /\ (i + 1) - 1 = (i - 1) + 1
      BY <1>1, <1>2, <1>8, <2>3
    <3> HIDE DEF i
    <3>2. y[p] = [rec |-> k + 1, at |-> i - 1] /\ y[p + 1] = [rec |-> k + 1, at |-> (i + 1) - 1]
      BY <1>5, <3>1
    <3> QED BY <3>1, <3>2 DEF Follows, m
  <2> QED BY <1>1, <1>2, <2>1, <2>2, <2>3
<1>9. Len(y) > 0 /\ Len(y) = n + (m + 1)
  BY <1>1, <1>2, <1>3
<1> QED BY <1>3, <1>6, <1>7, <1>8, <1>9 DEF Shape, y, l, m

(* The texts of the first records.                                          *)
Texts(f, g) ==
  /\ g[1] = Line(f, 1)
  /\ \A k \in 1 .. Len(f) : k + 1 \in 1 .. Len(f) => g[k + 1] = g[k] \o Line(f, k + 1)
  /\ Text(f) = g[Len(f)]

LEMMA TextFold ==
  ASSUME NEW f \in Seq(Record), f # <<>>
  PROVE  \E g : Texts(f, g)
<1> DEFINE n == Len(f)
           seqs == [k \in DOMAIN f |-> Line(f, k)]
           flatten[i \in 1 .. Len(seqs)] ==
             IF i = 1 THEN seqs[i] ELSE flatten[i - 1] \o seqs[i]
<1>1. n \in Nat /\ n > 0 /\ DOMAIN f = 1 .. n
  OBVIOUS
<1>2. Len(seqs) = n /\ \A i \in 1 .. n : seqs[i] = Line(f, i)
  BY <1>1
<1>3. Text(f) = FlattenSeq(seqs)
  BY DEF Text
<1>4. Len(seqs) # 0
  BY <1>1, <1>2
<1> HIDE DEF seqs, n
<1>5. FlattenSeq(seqs) = flatten[Len(seqs)]
  BY <1>4, Zenon DEF FlattenSeq
<1>6. PICK g : Recursive("text", f, <<>>, n, g)
  BY <1>1, RecursiveExists
<1>7. Unrolled("text", f, <<>>, n, g)
  BY <1>1, <1>6, RecursiveUnrolls
<1> DEFINE h == [i \in 1 .. n |-> g[i]]
<1>8. ASSUME NEW i \in 1 .. n
      PROVE  h[i] = IF i = 1 THEN seqs[i] ELSE h[i - 1] \o seqs[i]
  <2> DEFINE j == i - 1
  <2>1. j \in 0 .. n /\ j + 1 \in 0 .. n /\ i = j + 1
    BY <1>1, <1>8
  <2> HIDE DEF j
  <2>2. g[j + 1] = RecStep("text", f, j + 1, g[j])
    BY <1>7, <2>1 DEF Unrolled
  <2>3. g[i] = IF i = 1 THEN Line(f, i) ELSE g[j] \o Line(f, i)
    BY <2>1, <2>2 DEF RecStep
  <2>4. i # 1 => j \in 1 .. n /\ j = i - 1
    BY <1>1, <2>1
  <2> QED BY <1>2, <2>3, <2>4
<1>9. h = [i \in 1 .. Len(seqs) |-> IF i = 1 THEN seqs[i] ELSE h[i - 1] \o seqs[i]]
  <2>1. h = [i \in 1 .. n |-> h[i]]
    OBVIOUS
  <2> HIDE DEF h
  <2> QED BY <1>2, <1>8, <2>1
<1>10. flatten = [i \in 1 .. Len(seqs) |-> IF i = 1 THEN seqs[i] ELSE flatten[i - 1] \o seqs[i]]
  <2> HIDE DEF h
  <2> QED BY <1>9
<1> HIDE DEF flatten
<1>11. \A i \in 1 .. n : flatten[i] = IF i = 1 THEN Line(f, i) ELSE flatten[i - 1] \o Line(f, i)
  <2>1. \A i \in 1 .. Len(seqs) :
          flatten[i] = IF i = 1 THEN seqs[i] ELSE flatten[i - 1] \o seqs[i]
    BY <1>10, Zenon
  <2> QED BY <1>2, <2>1
<1>12. flatten[1] = Line(f, 1)
  <2>1. 1 \in 1 .. n
    BY <1>1
  <2> QED BY <1>11, <2>1
<1>13. ASSUME NEW k \in 1 .. n, k + 1 \in 1 .. n
       PROVE  flatten[k + 1] = flatten[k] \o Line(f, k + 1)
  <2>1. k + 1 # 1 /\ (k + 1) - 1 = k
    OBVIOUS
  <2> QED BY <1>11, <1>13, <2>1
<1>14. Text(f) = flatten[n]
  BY <1>2, <1>3, <1>5
<1>15. Texts(f, flatten)
  BY <1>12, <1>13, <1>14 DEF Texts, n
<1> QED BY <1>15

LEMMA TextShape ==
  ASSUME NEW f \in Seq(Record), f # <<>>
  PROVE  Shape(f, Len(f), Text(f))
<1> DEFINE n == Len(f)
<1>1. n \in Nat /\ n > 0 /\ DOMAIN f = 1 .. n
  OBVIOUS
<1>7. PICK g : Texts(f, g)
  BY TextFold
<1>2. /\ g[1] = Line(f, 1)
      /\ \A k \in 1 .. n : k + 1 \in 1 .. n => g[k + 1] = g[k] \o Line(f, k + 1)
      /\ Text(f) = g[n]
  BY <1>7 DEF Texts
<1> HIDE DEF n
<1> DEFINE T == {k \in 0 .. n : k = 0 \/ Shape(f, k, g[k])}
<1>3. ASSUME NEW k \in 0 .. n, k + 1 \in 0 .. n, k \in T PROVE k + 1 \in T
  <2>1. k + 1 \in 1 .. n /\ (k + 1) - 1 = k
    BY <1>1, <1>3
  <2>2. CASE k = 0
    <3>1. 1 \in DOMAIN f
      BY <1>1
    <3>2. Shape(f, 1, g[1])
      BY <1>2, <3>1, ShapeFirst
    <3> QED BY <1>3, <2>2, <3>2
  <2>3. CASE k # 0
    <3>4. k \in 1 .. n /\ k \in Nat /\ k > 0
      BY <1>1, <2>3
    <3>1. g[k + 1] = g[k] \o Line(f, k + 1)
      BY <1>2, <2>1, <3>4
    <3>2. Shape(f, k, g[k]) /\ k + 1 \in DOMAIN f
      BY <1>1, <1>3, <2>1, <2>3
    <3>3. Shape(f, k + 1, g[k + 1])
      BY <3>1, <3>2, <3>4, ShapeNext
    <3> QED BY <1>3, <3>3
  <2> QED BY <2>2, <2>3
<1>4. 0 \in T
  BY <1>1
<1> HIDE DEF T
<1>5. 0 .. n \subseteq T
  BY <1>1, <1>3, <1>4, Induction
<1>6. n \in T /\ n # 0
  BY <1>1, <1>5
<1> QED BY <1>2, <1>6 DEF T, n

LEMMA TextFacts ==
  ASSUME NEW f \in HexFiles
  PROVE  /\ f \in Seq(Record) /\ Len(f) \in Nat /\ Len(f) > 0 /\ DOMAIN f = 1 .. Len(f)
         /\ Text(f) \in Seq(Chars) /\ Len(Text(f)) \in Nat /\ Len(Text(f)) > 2
         /\ DOMAIN Text(f) = 1 .. Len(Text(f))
         /\ Text(f)[1] = [rec |-> 1, at |-> 0]
         /\ Text(f)[Len(Text(f))] = [rec |-> Len(f), at |-> LastAt(f, Len(f))]
         /\ \A p \in 1 .. Len(Text(f)) :
              Text(f)[p].rec \in DOMAIN f /\ Text(f)[p].at \in 0 .. LastAt(f, Text(f)[p].rec)
         /\ \A p \in 1 .. Len(Text(f)) :
              p + 1 <= Len(Text(f)) => Follows(f, Text(f)[p], Text(f)[p + 1])
<1> DEFINE x == Text(f)
           n == Len(x)
<1>1. f \in Seq(Record) /\ f # <<>>
  BY HexFilesAssumption
<1>2. Len(f) \in Nat /\ Len(f) > 0 /\ DOMAIN f = 1 .. Len(f)
  BY <1>1
<1>3. Shape(f, Len(f), x)
  BY <1>1, TextShape
<1> HIDE DEF x
<1>4. /\ x \in Seq(Chars) /\ n > 0 /\ n \in Nat /\ DOMAIN x = 1 .. n
      /\ x[1] = [rec |-> 1, at |-> 0]
      /\ x[n] = [rec |-> Len(f), at |-> LastAt(f, Len(f))]
      /\ \A p \in 1 .. n : x[p].rec \in DOMAIN f /\ x[p].at \in 0 .. LastAt(f, x[p].rec)
      /\ \A p \in 1 .. n : p + 1 <= n => Follows(f, x[p], x[p + 1])
  BY <1>2, <1>3 DEF Shape
<1>5. n > 2
  <2>1. LastAt(f, Len(f)) \in Nat /\ LastAt(f, Len(f)) > 2
    BY <1>1, <1>2, RecordIs
  <2>6. 1 \in DOMAIN f
    BY <1>2
  <2>2. LastAt(f, 1) > 2 /\ LastAt(f, 1) \in Nat
    BY <1>1, <2>6, RecordIs
  <2>3. n # 1
    <3>1. SUFFICES ASSUME n = 1 PROVE FALSE
      OBVIOUS
    <3>2. x[n].at = 0 /\ x[n].at = LastAt(f, Len(f))
      BY <1>4, <3>1
    <3> QED BY <2>1, <3>2
  <2>4. n # 2
    <3>1. SUFFICES ASSUME n = 2 PROVE FALSE
      OBVIOUS
    <3>2. Follows(f, x[1], x[2])
      <4>1. 1 \in 1 .. n /\ 1 + 1 <= n /\ 1 + 1 = 2
        BY <3>1
      <4> QED BY <1>4, <4>1
    <3>3. x[1].at = 0 /\ x[1].rec = 1 /\ 0 # LastAt(f, 1)
      BY <1>4, <2>2
    <3>4. x[2] = [rec |-> 1, at |-> 1]
      BY <3>2, <3>3 DEF Follows
    <3>5. x[2].at = LastAt(f, Len(f))
      BY <1>4, <3>1
    <3> QED BY <2>1, <3>4, <3>5
  <2> QED BY <1>4, <2>3, <2>4
<1> QED BY <1>1, <1>2, <1>4, <1>5 DEF x

(* What one character says of the next.                                     *)
LEMMA NextChar ==
  ASSUME NEW f \in HexFiles, NEW p \in 1 .. Len(Text(f)), p + 1 <= Len(Text(f))
  PROVE  LET c == Text(f)[p]
             d == Text(f)[p + 1]
         IN  /\ p + 1 \in 1 .. Len(Text(f))
             /\ c.rec \in DOMAIN f /\ c.at \in 0 .. LastAt(f, c.rec)
             /\ d.rec \in DOMAIN f /\ d.at \in 0 .. LastAt(f, d.rec)
             /\ IsLineEnd(f, c) <=> IsColon(d)
             /\ IsColon(d) => d.rec = c.rec + 1
             /\ ~IsColon(d) => d.rec = c.rec /\ d.at = c.at + 1
<1> DEFINE c == Text(f)[p]
           d == Text(f)[p + 1]
<1>1. p + 1 \in 1 .. Len(Text(f))
  OBVIOUS
<1>2. /\ c.rec \in DOMAIN f /\ c.at \in 0 .. LastAt(f, c.rec)
      /\ d.rec \in DOMAIN f /\ d.at \in 0 .. LastAt(f, d.rec)
      /\ Follows(f, c, d)
  BY <1>1, TextFacts
<1>3. LastAt(f, c.rec) \in Nat
  BY <1>2, TextFacts, RecordIs
<1>4. IsLineEnd(f, c) <=> c.at = LastAt(f, c.rec)
  BY DEF IsLineEnd, LastAt
<1> HIDE DEF c, d
<1>5. CASE c.at = LastAt(f, c.rec)
  <2>1. d.rec = c.rec + 1 /\ d.at = 0
    BY <1>2, <1>5 DEF Follows
  <2> QED BY <1>1, <1>2, <1>4, <1>5, <2>1 DEF IsColon, c, d
<1>6. CASE c.at # LastAt(f, c.rec)
  <2>1. d.rec = c.rec /\ d.at = c.at + 1
    BY <1>2, <1>6 DEF Follows
  <2>2. d.at # 0
    BY <1>2, <1>3, <2>1
  <2> QED BY <1>1, <1>2, <1>4, <1>6, <2>1, <2>2 DEF IsColon, c, d
<1> QED BY <1>5, <1>6

(* Records follow each other in the text.                                   *)
LEMMA RecordOrder ==
  ASSUME NEW f \in HexFiles, NEW p \in 1 .. Len(Text(f)), NEW q \in 1 .. Len(Text(f)), p <= q
  PROVE  /\ Text(f)[p].rec <= Text(f)[q].rec
         /\ \A k \in Text(f)[p].rec .. Text(f)[q].rec : \E s \in p .. q : Text(f)[s].rec = k
<1> DEFINE x == Text(f)
           n == Len(x)
           Ok(m) == /\ x[p].rec <= x[p + m].rec
                    /\ \A k \in x[p].rec .. x[p + m].rec : \E s \in p .. p + m : x[s].rec = k
           T == {m \in 0 .. n - p : Ok(m)}
<1>1. n \in Nat /\ p \in Nat /\ q \in Nat /\ n - p \in Nat /\ p <= n
  BY TextFacts
<1>9. ASSUME NEW s \in 1 .. n PROVE x[s].rec \in Nat
  <2>1. x[s].rec \in DOMAIN f
    BY TextFacts
  <2>2. DOMAIN f = 1 .. Len(f) /\ Len(f) \in Nat
    BY TextFacts
  <2> HIDE DEF x
  <2> QED BY <2>1, <2>2
<1>2. 0 \in T
  <2>1. p + 0 = p /\ x[p].rec \in Nat /\ p .. p = {p}
    BY <1>1, <1>9
  <2> HIDE DEF x
  <2>2. Ok(0)
    BY <1>1, <2>1
  <2> HIDE DEF Ok
  <2> QED BY <1>1, <2>2
<1>3. ASSUME NEW m \in 0 .. n - p, m + 1 \in 0 .. n - p, m \in T PROVE m + 1 \in T
  <2> DEFINE a == p + m
  <2>1. a \in 1 .. n /\ a + 1 <= n /\ a + 1 = p + (m + 1) /\ a + 1 \in 1 .. n
    BY <1>1, <1>3
  <2>2. x[a + 1].rec = x[a].rec \/ x[a + 1].rec = x[a].rec + 1
    BY <2>1, NextChar
  <2>3. x[a].rec \in Nat /\ x[p].rec \in Nat
    BY <1>9, <2>1
  <2>4. Ok(m)
    BY <1>3
  <2> HIDE DEF x
  <2>5. x[p].rec <= x[a].rec /\ \A k \in x[p].rec .. x[a].rec : \E s \in p .. a : x[s].rec = k
    BY <2>4
  <2>6. p .. a \subseteq p .. a + 1 /\ a + 1 \in p .. a + 1
    BY <1>1, <2>1, <1>3
  <2> HIDE DEF a
  <2>7. x[p].rec <= x[a + 1].rec
    BY <2>2, <2>3, <2>5
  <2>8. ASSUME NEW k \in x[p].rec .. x[a + 1].rec PROVE \E s \in p .. a + 1 : x[s].rec = k
    <3>1. CASE k = x[a + 1].rec
      BY <2>6, <3>1
    <3>2. CASE k # x[a + 1].rec
      <4>1. k \in x[p].rec .. x[a].rec
        <5> DEFINE u == x[p].rec
                   v == x[a].rec
                   w == x[a + 1].rec
        <5>1. u \in Nat /\ v \in Nat /\ (w = v \/ w = v + 1) /\ k \in u .. w /\ k # w
              /\ u <= v
          BY <2>2, <2>3, <2>5, <3>2
        <5> HIDE DEF u, v, w
        <5>2. k \in u .. v
          BY <5>1
        <5> QED BY <5>2 DEF u, v
      <4> QED BY <2>5, <2>6, <4>1
    <3> QED BY <3>1, <3>2
  <2>9. Ok(m + 1)
    BY <2>1, <2>7, <2>8
  <2> HIDE DEF Ok
  <2> QED BY <1>3, <2>9
<1>4. 0 .. n - p \subseteq T
  <2> HIDE DEF T, n
  <2> QED BY <1>1, <1>2, <1>3, Induction
<1>5. Ok(q - p)
  <2> HIDE DEF Ok
  <2>1. q - p \in 0 .. n - p
    BY <1>1
  <2> QED BY <1>4, <2>1
<1>6. p + (q - p) = q
  BY <1>1
<1> HIDE DEF x
<1> QED BY <1>5, <1>6 DEF x

-----------------------------------------------------------------------------
(***************************************************************************)
(* What a file says.                                                       *)
(***************************************************************************)
Pairs == Nat \X Bytes
ToldType == [base : Nat, version : Nat, bytes : Seq(Pairs)]

LEMMA AddressedIs ==
  ASSUME NEW a \in Nat, NEW d \in Seq(Bytes)
  PROVE  /\ Addressed(a, d) \in Seq(Pairs) /\ Len(Addressed(a, d)) = Len(d)
         /\ \A i \in 1 .. Len(d) : Addressed(a, d)[i] = <<(a + i) - 1, d[i]>>
<1>1. DOMAIN d = 1 .. Len(d) /\ Len(d) \in Nat
  OBVIOUS
<1>2. Addressed(a, d) = [i \in 1 .. Len(d) |-> <<(a + i) - 1, d[i]>>]
  BY <1>1 DEF Addressed
<1>3. \A i \in 1 .. Len(d) : <<(a + i) - 1, d[i]>> \in Pairs
  <2>1. \A i \in 1 .. Len(d) : d[i] \in Bytes /\ (a + i) - 1 \in Nat
    BY ElementOfSeq
  <2> QED BY <2>1 DEF Pairs
<1>4. Addressed(a, d) \in Seq(Pairs) /\ Len(Addressed(a, d)) = Len(d)
  BY <1>1, <1>2, <1>3
<1> QED BY <1>2, <1>4

LEMMA AddressedNone == \A a : Addressed(a, <<>>) = <<>>
BY DEF Addressed

LEMMA AddressedJoins ==
  ASSUME NEW a \in Nat, NEW d \in Seq(Bytes), NEW e \in Seq(Bytes)
  PROVE  Addressed(a, d \o e) = Addressed(a, d) \o Addressed(a + Len(d), e)
<1> DEFINE m == Len(d)
           n == Len(e)
           x == Addressed(a, d)
           y == Addressed(a + m, e)
           z == Addressed(a, d \o e)
<1>1. m \in Nat /\ n \in Nat /\ a + m \in Nat
  OBVIOUS
<1>2. /\ d \o e \in Seq(Bytes) /\ Len(d \o e) = m + n
      /\ \A i \in 1 .. m + n : (d \o e)[i] = IF i <= m THEN d[i] ELSE e[i - m]
  BY ConcatProperties
<1>3. /\ x \in Seq(Pairs) /\ Len(x) = m
      /\ \A i \in 1 .. m : x[i] = <<(a + i) - 1, d[i]>>
  BY AddressedIs
<1>4. /\ y \in Seq(Pairs) /\ Len(y) = n
      /\ \A i \in 1 .. n : y[i] = <<((a + m) + i) - 1, e[i]>>
  BY <1>1, AddressedIs
<1>5. /\ z \in Seq(Pairs) /\ Len(z) = m + n
      /\ \A i \in 1 .. m + n : z[i] = <<(a + i) - 1, (d \o e)[i]>>
  BY <1>2, AddressedIs
<1> HIDE DEF x, y, z, m, n
<1>6. /\ x \o y \in Seq(Pairs) /\ Len(x \o y) = m + n
      /\ \A i \in 1 .. m + n : (x \o y)[i] = IF i <= m THEN x[i] ELSE y[i - m]
  BY <1>3, <1>4, ConcatProperties
<1>7. ASSUME NEW i \in 1 .. m + n PROVE z[i] = (x \o y)[i]
  <2>0. i \in Nat
    BY <1>1
  <2>1. CASE i <= m
    <3>1. i \in 1 .. m
      BY <1>1, <2>1
    <3> QED BY <1>2, <1>3, <1>5, <1>6, <2>1, <3>1
  <2>2. CASE i > m
    <3> DEFINE j == i - m
    <3>1. j \in 1 .. n /\ ((a + m) + j) - 1 = (a + i) - 1 /\ ~(i <= m)
      BY <1>1, <2>2
    <3>2. (x \o y)[i] = y[j] /\ (d \o e)[i] = e[j]
      BY <1>2, <1>6, <3>1
    <3> HIDE DEF j
    <3> QED BY <1>4, <1>5, <3>1, <3>2
  <2>3. i <= m \/ i > m
    BY <1>1, <2>0
  <2> QED BY <2>1, <2>2, <2>3
<1>8. z = x \o y
  BY <1>5, <1>6, <1>7, SeqEqual
<1> QED BY <1>8 DEF x, y, z, m

LEMMA BaseIs ==
  ASSUME NEW r \in Record
  PROVE  Base(r) \in Nat
<1>1. r.value \in Nat
  BY DEF Record
<1>2. Paragraph \in Nat /\ Segment \in Nat
  BY HexParserAssumption
<1> QED BY <1>1, <1>2 DEF Base

LEMMA SaidIs ==
  ASSUME NEW t \in ToldType, NEW r \in Record
  PROVE  /\ Said(t, r) \in ToldType
         /\ Said(t, r).base = IF r.type \in Extended THEN Base(r) ELSE t.base
         /\ Said(t, r).version = IF r.type = "meta" THEN r.value ELSE t.version
         /\ Said(t, r).bytes = IF r.type \in DataTypes /\ t.version = 0
                               THEN t.bytes \o Addressed(t.base + r.addr, r.data) ELSE t.bytes
         /\ (r.type = "other" \/ (r.type \in DataTypes /\ t.version # 0)) => Said(t, r) = t
<1>1. /\ r.addr \in Nat /\ r.data \in Seq(Bytes) /\ r.value \in Nat /\ Base(r) \in Nat
      /\ r.type \in {"data", "custom", "eof", "segment", "linear", "meta", "other"}
  BY BaseIs DEF Record
<1>2. t.base \in Nat /\ t.version \in Nat /\ t.bytes \in Seq(Pairs)
  BY DEF ToldType
<1>3. CASE r.type \in {"segment", "linear"}
  <2>1. Said(t, r) = [t EXCEPT !.base = Base(r)]
    BY <1>3 DEF Said, DataTypes
  <2>2. r.type \in Extended /\ r.type \notin DataTypes /\ r.type # "meta" /\ r.type # "other"
    BY <1>3 DEF Extended, DataTypes
  <2> QED BY <1>1, <1>2, <2>1, <2>2 DEF ToldType
<1>4. CASE r.type = "meta"
  <2>1. Said(t, r) = [t EXCEPT !.version = r.value]
    BY <1>4 DEF Said, DataTypes
  <2>2. r.type \notin Extended /\ r.type \notin DataTypes /\ r.type # "other"
    BY <1>4 DEF Extended, DataTypes
  <2> QED BY <1>1, <1>2, <1>4, <2>1, <2>2 DEF ToldType
<1>5. CASE r.type \in DataTypes /\ t.version = 0
  <2> DEFINE b == t.bytes \o Addressed(t.base + r.addr, r.data)
  <2>1. Said(t, r) = [t EXCEPT !.bytes = b]
    BY <1>5 DEF Said, DataTypes
  <2>2. r.type \notin Extended /\ r.type # "meta" /\ r.type # "other"
    BY <1>5 DEF Extended, DataTypes
  <2>3. b \in Seq(Pairs)
    <3>1. t.base + r.addr \in Nat
      BY <1>1, <1>2
    <3>2. Addressed(t.base + r.addr, r.data) \in Seq(Pairs)
      BY <1>1, <3>1, AddressedIs
    <3> QED BY <1>2, <3>2, ConcatProperties
  <2>4. b = t.bytes \o Addressed(t.base + r.addr, r.data)
    OBVIOUS
  <2> HIDE DEF b
  <2> QED BY <1>1, <1>2, <1>5, <2>1, <2>2, <2>3, <2>4 DEF ToldType
<1>6. CASE r.type \in {"eof", "other"} \/ (r.type \in DataTypes /\ t.version # 0)
  <2>1. Said(t, r) = t
    BY <1>6 DEF Said, DataTypes
  <2>2. r.type \notin Extended /\ r.type # "meta" /\ ~(r.type \in DataTypes /\ t.version = 0)
    BY <1>6 DEF Extended, DataTypes
  <2> QED BY <1>1, <1>2, <2>1, <2>2
<1> QED BY <1>1, <1>3, <1>4, <1>5, <1>6 DEF DataTypes

LEMMA ToldUnrolls ==
  ASSUME NEW f, Len(f) \in Nat
  PROVE  /\ Told(f)[0] = [base |-> 0, version |-> 0, bytes |-> <<>>]
         /\ \A k \in 0 .. Len(f) : k + 1 \in 0 .. Len(f) =>
              Told(f)[k + 1] = Said(Told(f)[k], f[k + 1])
<1> DEFINE n == Len(f)
           base == [base |-> 0, version |-> 0, bytes |-> <<>>]
           told[k \in 0 .. n] == IF k = 0 THEN base ELSE Said(told[k - 1], f[k])
<1>1. n \in Nat
  OBVIOUS
<1>2. Told(f) = told
  BY Zenon DEF Told
<1> HIDE DEF n, base
<1>3. PICK g : Recursive("told", f, base, n, g)
  BY <1>1, RecursiveExists
<1>4. \A k, x : RecStep("told", f, k, x) = Said(x, f[k])
  BY DEF RecStep
<1>5. g = [k \in 0 .. n |-> IF k = 0 THEN base ELSE Said(g[k - 1], f[k])]
  <2> HIDE DEF told
  <2> QED BY <1>3, <1>4 DEF Recursive
<1>6. told = [k \in 0 .. n |-> IF k = 0 THEN base ELSE Said(told[k - 1], f[k])]
  BY <1>5
<1> HIDE DEF told
<1>7. Recursive("told", f, base, n, told)
  BY <1>4, <1>6 DEF Recursive
<1>8. Unrolled("told", f, base, n, told)
  BY <1>1, <1>7, RecursiveUnrolls
<1> QED BY <1>2, <1>4, <1>8 DEF Unrolled, n, base

(* t is what the first k records say.                                       *)
LEMMA ToldIs ==
  ASSUME NEW f \in HexFiles, NEW k \in 0 .. Len(f)
  PROVE  Told(f)[k] \in ToldType /\ Told(f)[k].base % Segment = 0
<1> DEFINE n == Len(f)
           T == {i \in 0 .. n : Told(f)[i] \in ToldType /\ Told(f)[i].base % Segment = 0}
<1>1. n \in Nat
  BY TextFacts
<1>2. 0 \in T
  <2>1. Told(f)[0] = [base |-> 0, version |-> 0, bytes |-> <<>>]
    BY TextFacts, ToldUnrolls
  <2>2. 0 % Segment = 0
    <3>1. Segment \in Nat /\ Segment > 0
      BY HexParserAssumption
    <3> QED BY <3>1
  <2>3. <<>> \in Seq(Pairs)
    OBVIOUS
  <2>4. Told(f)[0] \in ToldType
    BY <2>1, <2>3 DEF ToldType
  <2>5. Told(f)[0].base % Segment = 0
    BY <2>1, <2>2
  <2> HIDE DEF n
  <2> QED BY <1>1, <2>4, <2>5
<1>3. ASSUME NEW i \in 0 .. n, i + 1 \in 0 .. n, i \in T PROVE i + 1 \in T
  <2> DEFINE t == Told(f)[i]
             r == f[i + 1]
  <2>1. Told(f)[i + 1] = Said(t, r)
    BY <1>3, TextFacts, ToldUnrolls
  <2>2. i + 1 \in DOMAIN f
    BY <1>1, <1>3, TextFacts
  <2>3. r \in Record
    BY <2>2, TextFacts, RecordIs
  <2>4. t \in ToldType /\ t.base % Segment = 0
    BY <1>3
  <2>5. r.type \in Extended => Base(r) % Segment = 0
    BY <2>2, HexFilesAssumption
  <2>6. Said(t, r) \in ToldType /\ Said(t, r).base = IF r.type \in Extended THEN Base(r) ELSE t.base
    BY <2>3, <2>4, SaidIs
  <2> HIDE DEF t, r, n
  <2> QED BY <1>3, <2>1, <2>4, <2>5, <2>6
<1>4. 0 .. n \subseteq T
  <2> HIDE DEF T, n
  <2> QED BY <1>1, <1>2, <1>3, Induction
<1> QED BY <1>4

(* What one more record says.                                               *)
LEMMA ToldNext ==
  ASSUME NEW f \in HexFiles, NEW k \in DOMAIN f
  PROVE  LET t == Told(f)[k - 1]
             r == f[k]
         IN  /\ k - 1 \in 0 .. Len(f) /\ t \in ToldType /\ r \in Record
             /\ Told(f)[k] = Said(t, r)
             /\ Told(f)[k] \in ToldType
             /\ Told(f)[k].base = IF r.type \in Extended THEN Base(r) ELSE t.base
             /\ Told(f)[k].version = IF r.type = "meta" THEN r.value ELSE t.version
             /\ Told(f)[k].bytes = IF r.type \in DataTypes /\ t.version = 0
                                   THEN t.bytes \o Addressed(t.base + r.addr, r.data) ELSE t.bytes
             /\ (r.type = "other" \/ (r.type \in DataTypes /\ t.version # 0)) => Told(f)[k] = t
<1> DEFINE j == k - 1
<1>1. j \in 0 .. Len(f) /\ j + 1 \in 0 .. Len(f) /\ j + 1 = k
  BY TextFacts
<1>2. Told(f)[j] \in ToldType /\ f[k] \in Record
  BY <1>1, ToldIs, TextFacts, RecordIs
<1>3. Told(f)[j + 1] = Said(Told(f)[j], f[j + 1])
  BY <1>1, TextFacts, ToldUnrolls
<1> HIDE DEF j
<1>4. Told(f)[k] = Said(Told(f)[j], f[k])
  BY <1>1, <1>3
<1>5. /\ j \in 0 .. Len(f) /\ Told(f)[j] \in ToldType /\ f[k] \in Record
      /\ Told(f)[k] = Said(Told(f)[j], f[k])
      /\ Told(f)[k] \in ToldType
      /\ Told(f)[k].base = IF f[k].type \in Extended THEN Base(f[k]) ELSE Told(f)[j].base
      /\ Told(f)[k].version = IF f[k].type = "meta" THEN f[k].value ELSE Told(f)[j].version
      /\ Told(f)[k].bytes = IF f[k].type \in DataTypes /\ Told(f)[j].version = 0
                            THEN Told(f)[j].bytes \o Addressed(Told(f)[j].base + f[k].addr, f[k].data)
                            ELSE Told(f)[j].bytes
      /\ (f[k].type = "other" \/ (f[k].type \in DataTypes /\ Told(f)[j].version # 0))
           => Told(f)[k] = Told(f)[j]
  BY <1>1, <1>2, <1>4, SaidIs
<1> QED BY <1>5 DEF j

LEMMA PrefixIs ==
  ASSUME NEW s \in Seq(Pairs), NEW u \in Seq(Pairs)
  PROVE  /\ IsPrefix(s, s \o u)
         /\ s # <<>> => s \o u # <<>> /\ (s \o u)[1] = s[1]
<1> DEFINE n == Len(s)
           t == s \o u
<1>1. /\ t \in Seq(Pairs) /\ n \in Nat /\ Len(t) \in Nat /\ n <= Len(t)
      /\ \A i \in 1 .. n : t[i] = s[i]
  BY ConcatProperties
<1> HIDE DEF t
<1>2. SubSeq(s, 1, n) = SubSeq(t, 1, n)
  BY <1>1
<1>3. s # <<>> => 1 \in 1 .. n
  OBVIOUS
<1>4. IsPrefix(s, t)
  BY <1>1, <1>2 DEF IsPrefix
<1>5. s # <<>> => t # <<>> /\ t[1] = s[1]
  BY <1>1, <1>3
<1> QED BY <1>4, <1>5 DEF t

LEMMA Upward ==
  ASSUME NEW k \in Nat, NEW m \in Nat, k <= m, NEW T, k \in T,
         \A i \in k .. m : i + 1 \in k .. m /\ i \in T => i + 1 \in T
  PROVE  m \in T
<1> DEFINE n == m - k
           U == {i \in 0 .. n : k + i \in T}
<1>1. n \in Nat /\ k + n = m /\ k + 0 = k
  OBVIOUS
<1>2. 0 \in U
  BY <1>1
<1>3. ASSUME NEW i \in 0 .. n, i + 1 \in 0 .. n, i \in U PROVE i + 1 \in U
  <2>1. i \in Nat /\ k + i \in k .. m /\ (k + i) + 1 \in k .. m /\ (k + i) + 1 = k + (i + 1)
    BY <1>1, <1>3
  <2>2. k + i \in T
    BY <1>3
  <2>3. k + (i + 1) \in T
    BY <2>1, <2>2
  <2> QED BY <1>3, <2>3
<1>4. 0 .. n \subseteq U
  <2> HIDE DEF U, n
  <2> QED BY <1>1, <1>2, <1>3, Induction
<1>5. n \in U
  BY <1>1, <1>4
<1> QED BY <1>1, <1>5

LEMMA ToldAdds ==
  ASSUME NEW f \in HexFiles, NEW k \in DOMAIN f
  PROVE  \E u \in Seq(Pairs) : Told(f)[k].bytes = Told(f)[k - 1].bytes \o u
<1> DEFINE b == Told(f)[k - 1].base
           s == Told(f)[k - 1].bytes
           r == f[k]
           v == Addressed(b + r.addr, r.data)
<1>1. /\ Told(f)[k - 1] \in ToldType /\ r \in Record
      /\ Told(f)[k].bytes = s \o v \/ Told(f)[k].bytes = s
  BY ToldNext
<1>2. s \in Seq(Pairs) /\ b \in Nat
  BY <1>1 DEF ToldType
<1>3. r.addr \in Nat /\ r.data \in Seq(Bytes)
  BY <1>1 DEF Record
<1> HIDE DEF b, r
<1>4. b + r.addr \in Nat
  BY <1>2, <1>3
<1>5. v \in Seq(Pairs)
  BY <1>3, <1>4, AddressedIs
<1> HIDE DEF s, v
<1>6. s = s \o <<>> /\ <<>> \in Seq(Pairs)
  BY <1>2
<1>7. Told(f)[k].bytes = s \o <<>> \/ Told(f)[k].bytes = s \o v
  BY <1>1, <1>6
<1> QED BY <1>5, <1>6, <1>7 DEF s

(* Each record adds its bytes to those before.                              *)
GoesOn(f, k, m) == \E u \in Seq(Pairs) : Told(f)[m].bytes = Told(f)[k].bytes \o u

LEMMA ToldGrows ==
  ASSUME NEW f \in HexFiles, NEW k \in 0 .. Len(f), NEW m \in k .. Len(f)
  PROVE  GoesOn(f, k, m)
<1> DEFINE s == Told(f)[k].bytes
           T == {i \in k .. m : GoesOn(f, k, i)}
<1>1. k \in Nat /\ m \in Nat /\ k <= m /\ Len(f) \in Nat /\ m <= Len(f)
  BY TextFacts
<1>2. k \in T
  <2>1. s \in Seq(Pairs)
    BY ToldIs DEF ToldType
  <2> HIDE DEF s
  <2>2. s = s \o <<>> /\ <<>> \in Seq(Pairs)
    BY <2>1
  <2>3. Told(f)[k].bytes = s \o <<>>
    BY <2>2 DEF s
  <2>4. GoesOn(f, k, k)
    BY <2>2, <2>3 DEF GoesOn, s
  <2>5. k \in k .. m
    BY <1>1
  <2> QED BY <2>4, <2>5
<1>3. ASSUME NEW i \in k .. m, i + 1 \in k .. m, i \in T PROVE i + 1 \in T
  <2>1. PICK u \in Seq(Pairs) : Told(f)[i].bytes = s \o u
    BY <1>3 DEF GoesOn
  <2>2. i + 1 \in DOMAIN f /\ (i + 1) - 1 = i
    BY <1>1, <1>3, TextFacts
  <2>3. PICK v \in Seq(Pairs) : Told(f)[i + 1].bytes = Told(f)[i].bytes \o v
    BY <2>2, ToldAdds
  <2>4. s \in Seq(Pairs)
    BY ToldIs DEF ToldType
  <2> HIDE DEF s
  <2>5. (s \o u) \o v = s \o (u \o v)
    BY <2>4, ConcatAssociative
  <2>6. u \o v \in Seq(Pairs)
    BY ConcatProperties
  <2>7. Told(f)[i + 1].bytes = s \o (u \o v)
    BY <2>1, <2>3, <2>5
  <2>8. GoesOn(f, k, i + 1)
    BY <2>6, <2>7 DEF GoesOn, s
  <2> QED BY <1>3, <2>8
<1>4. m \in T
  <2> HIDE DEF T
  <2> QED BY <1>1, <1>2, <1>3, Upward
<1> QED BY <1>4

(* The parser's next address, in the upper half that the first k records    *)
(* leave: behind its beginning or behind the bytes of a record.             *)
Reached(f, k, e) ==
  \/ e = 0
  \/ \E j \in 1 .. k : /\ f[j].type \in DataTypes /\ e = f[j].addr + Len(f[j].data)
                       /\ \A i \in j + 1 .. k : f[i].type \notin Extended

NextIs(f, k, a) == \E e \in 0 .. Segment : a = Told(f)[k].base + e /\ Reached(f, k, e)

LEMMA ReachedOn ==
  ASSUME NEW f \in HexFiles, NEW k \in DOMAIN f, f[k].type \notin Extended,
         NEW a, NextIs(f, k - 1, a)
  PROVE  NextIs(f, k, a)
<1>1. PICK e \in 0 .. Segment : a = Told(f)[k - 1].base + e /\ Reached(f, k - 1, e)
  BY DEF NextIs
<1>2. Told(f)[k].base = Told(f)[k - 1].base
  BY ToldNext
<1>3. k \in Nat /\ k >= 1
  BY TextFacts
<1>4. Reached(f, k, e)
  <2>1. CASE e = 0
    BY <2>1 DEF Reached
  <2>2. CASE e # 0
    <3>1. PICK j \in 1 .. k - 1 : /\ f[j].type \in DataTypes /\ e = f[j].addr + Len(f[j].data)
                                  /\ \A i \in j + 1 .. k - 1 : f[i].type \notin Extended
      BY <1>1, <2>2, Zenon DEF Reached
    <3>2. j \in 1 .. k /\ \A i \in j + 1 .. k : i = k \/ i \in j + 1 .. k - 1
      BY <1>3
    <3>3. \A i \in j + 1 .. k : f[i].type \notin Extended
      BY <3>1, <3>2
    <3> QED BY <3>1, <3>2, <3>3 DEF Reached
  <2> QED BY <2>1, <2>2
<1> QED BY <1>1, <1>2, <1>4 DEF NextIs

LEMMA ReachedData ==
  ASSUME NEW f \in HexFiles, NEW k \in DOMAIN f, f[k].type \in DataTypes
  PROVE  NextIs(f, k, (Told(f)[k - 1].base + f[k].addr) + Len(f[k].data))
<1> DEFINE b == Told(f)[k - 1].base
           a == f[k].addr
           n == Len(f[k].data)
           e == a + n
<1>1. f[k].type \notin Extended
  BY DEF Extended, DataTypes
<1>2. Told(f)[k].base = b /\ b \in Nat /\ a \in Nat /\ n \in Nat
  BY <1>1, ToldNext DEF ToldType, Record
<1>3. e \in 0 .. Segment
  <2>1. e <= Segment
    BY HexFilesAssumption
  <2>2. Segment \in Nat /\ e \in Nat
    BY <1>2, HexParserAssumption
  <2> HIDE DEF e
  <2> QED BY <2>1, <2>2
<1>4. Reached(f, k, e)
  <2>1. k \in 1 .. k /\ \A i \in k + 1 .. k : FALSE
    <3>1. DOMAIN f = 1 .. Len(f) /\ Len(f) \in Nat
      BY TextFacts
    <3>2. k \in 1 .. Len(f)
      BY <3>1
    <3> QED BY <3>1, <3>2
  <2> QED BY <2>1 DEF Reached
<1>5. (b + a) + n = b + e
  BY <1>2
<1> HIDE DEF b, e
<1>6. (b + a) + n = Told(f)[k].base + e
  BY <1>2, <1>5
<1>7. NextIs(f, k, (b + a) + n)
  BY <1>3, <1>4, <1>6 DEF NextIs
<1> QED BY <1>7 DEF b

LEMMA ReachedBase ==
  ASSUME NEW f \in HexFiles, NEW k \in 0 .. Len(f)
  PROVE  NextIs(f, k, Told(f)[k].base)
<1>1. Told(f)[k].base \in Nat
  BY ToldIs DEF ToldType
<1>2. 0 \in 0 .. Segment
  BY HexParserAssumption
<1>3. Told(f)[k].base = Told(f)[k].base + 0
  BY <1>1
<1> QED BY <1>2, <1>3 DEF NextIs, Reached

(* Data is placed in the upper half that the records before it leave.       *)
LEMMA PlacedIs ==
  ASSUME NEW f \in HexFiles, NEW k \in DOMAIN f, f[k].type \in DataTypes,
         NEW a, NextIs(f, k - 1, a)
  PROVE  a \in Nat /\ Upper(a) = Told(f)[k - 1].base
<1> DEFINE b == Told(f)[k - 1].base
<1>1. PICK e \in 0 .. Segment : a = b + e /\ Reached(f, k - 1, e)
  BY DEF NextIs
<1>2. b \in Nat /\ b % Segment = 0
  BY ToldNext, ToldIs DEF ToldType
<1>3. Segment \in Nat /\ Segment > 0
  BY HexParserAssumption
<1>4. e < Segment
  <2>1. CASE e = 0
    BY <1>3, <2>1
  <2>2. CASE e # 0
    <3>1. PICK j \in 1 .. k - 1 : /\ f[j].type \in DataTypes /\ e = f[j].addr + Len(f[j].data)
                                  /\ \A i \in j + 1 .. k - 1 : f[i].type \notin Extended
      BY <1>1, <2>2, Zenon DEF Reached
    <3>2. f[j].addr + Len(f[j].data) < Segment
      BY <3>1, HexFilesAssumption
    <3> QED BY <3>1, <3>2
  <2> QED BY <2>1, <2>2
<1> HIDE DEF b
<1>5. PICK q \in Nat : b = Segment * q
  BY <1>2, <1>3, Multiple
<1>6. e \in 0 .. Segment - 1 /\ a \in Nat
  BY <1>1, <1>2, <1>3, <1>4
<1>7. a % Segment = e
  <2>1. a = Segment * q + e
    BY <1>1, <1>5
  <2> QED BY <1>3, <1>6, <2>1, Remainder
<1>8. Upper(a) = b
  BY <1>1, <1>2, <1>6, <1>7 DEF Upper
<1> QED BY <1>6, <1>8 DEF b

(* Records for another version, and those the parser does not know, say     *)
(* nothing.                                                                 *)
LEMMA ToldSame ==
  ASSUME NEW f \in HexFiles, NEW k \in 0 .. Len(f), NEW m \in k .. Len(f),
         Told(f)[k].version # 0,
         \A i \in k + 1 .. m : f[i].type \in DataTypes \cup {"other"},
         NEW a, NextIs(f, k, a)
  PROVE  Told(f)[m] = Told(f)[k] /\ NextIs(f, m, a)
<1> DEFINE T == {i \in k .. m : Told(f)[i] = Told(f)[k] /\ NextIs(f, i, a)}
<1>1. k \in Nat /\ m \in Nat /\ k <= m /\ Len(f) \in Nat /\ m <= Len(f)
  BY TextFacts
<1>2. k \in T
  BY <1>1
<1>3. ASSUME NEW i \in k .. m, i + 1 \in k .. m, i \in T PROVE i + 1 \in T
  <2> DEFINE j == i + 1
  <2>1. j \in DOMAIN f /\ j \in k + 1 .. m /\ j - 1 = i
    BY <1>1, <1>3, TextFacts
  <2>2. Told(f)[i] = Told(f)[k] /\ NextIs(f, i, a) /\ j \in k .. m
    BY <1>3
  <2> HIDE DEF j
  <2>3. f[j].type \in DataTypes \cup {"other"} /\ f[j].type \notin Extended
    BY <2>1 DEF Extended, DataTypes
  <2>4. Told(f)[j] = Told(f)[k]
    BY <2>1, <2>2, <2>3, ToldNext
  <2>5. NextIs(f, j, a)
    BY <2>1, <2>2, <2>3, ReachedOn
  <2>6. j \in T
    BY <2>2, <2>4, <2>5
  <2> QED BY <2>6 DEF j
<1>4. m \in T
  <2> HIDE DEF T
  <2> QED BY <1>1, <1>2, <1>3, Upward
<1> QED BY <1>4

(* The upper address that the linear addresses among the first i records    *)
(* leave.                                                                   *)
Linears(f, i) == {j \in 1 .. i : f[j].type = "linear"}
Above(f, i) == IF Linears(f, i) = {} THEN 0 ELSE Base(f[Max(Linears(f, i))])

LEMMA AboveNext ==
  ASSUME NEW f, NEW i \in Nat
  PROVE  /\ Above(f, 0) = 0
         /\ f[i + 1].type # "linear" => Above(f, i + 1) = Above(f, i)
         /\ f[i + 1].type = "linear" => Above(f, i + 1) = Base(f[i + 1])
<1>1. Linears(f, 0) = {}
  BY DEF Linears
<1>2. ASSUME f[i + 1].type # "linear" PROVE Above(f, i + 1) = Above(f, i)
  <2>1. Linears(f, i + 1) = Linears(f, i)
    BY <1>2 DEF Linears
  <2> QED BY <2>1 DEF Above
<1>3. ASSUME f[i + 1].type = "linear" PROVE Above(f, i + 1) = Base(f[i + 1])
  <2> DEFINE n == i + 1
  <2>1. n \in Linears(f, n) /\ Linears(f, n) \subseteq 1 .. n /\ n \in Nat
    BY <1>3 DEF Linears
  <2> HIDE DEF n
  <2>2. Max(Linears(f, n)) \in Linears(f, n) /\ Max(Linears(f, n)) >= n
    BY <2>1, MaxIs
  <2>3. Max(Linears(f, n)) = n
    BY <2>1, <2>2
  <2>4. Above(f, n) = Base(f[n])
    BY <2>1, <2>3 DEF Above
  <2> QED BY <2>4 DEF n
<1> QED BY <1>1, <1>2, <1>3 DEF Above

(* The scan for the start address finds that of the first byte.             *)
LEMMA StartIs ==
  ASSUME NEW f \in HexFiles, HexBytes(f) # <<>>,
         \A k \in DOMAIN f : f[k].type \notin {"segment", "meta", "custom"}
  PROVE  StartAddress(f, None) = HexBytes(f)[1][1]
<1> DEFINE D == {j \in DOMAIN f : f[j].type \in {"data", "eof"}}
           k == Min(D)
<1>1. /\ Len(f) \in Nat /\ Len(f) > 0 /\ DOMAIN f = 1 .. Len(f)
      /\ \A j \in DOMAIN f : f[j].type = "eof" <=> j = Len(f)
  BY TextFacts, HexFilesAssumption
<1>2. k \in D /\ \A y \in D : k <= y
  <2>1. D # {} /\ D \subseteq Nat
    <3>1. Len(f) \in DOMAIN f
      BY <1>1
    <3>2. Len(f) \in D
      BY <1>1, <3>1
    <3> QED BY <1>1, <3>2
  <2> HIDE DEF D
  <2> QED BY <2>1, MinIs
<1>3. k \in DOMAIN f /\ f[k].type \in {"data", "eof"}
  <2> HIDE DEF k
  <2> QED BY <1>2
<1>4. \A i \in 1 .. k - 1 : f[i].type \notin {"data", "eof"} /\ i \in DOMAIN f
  <2> HIDE DEF k
  <2>1. \A i \in 1 .. k - 1 : i \in DOMAIN f /\ ~(k <= i)
    BY <1>1, <1>3
  <2> QED BY <1>2, <2>1
<1>5. StartAddress(f, None) =
        IF f[k].type = "eof" THEN None ELSE Above(f, k - 1) + f[k].addr
  BY DEF StartAddress, Above, Linears
<1> HIDE DEF k, D
<1> DEFINE m == k - 1
           T == {i \in 0 .. m : /\ Told(f)[i].bytes = <<>> /\ Told(f)[i].version = 0
                                /\ Told(f)[i].base = Above(f, i)}
<1>6. m \in Nat /\ m + 1 = k /\ k \in Nat /\ k <= Len(f)
  BY <1>1, <1>3
<1>7. m \in T
  <2>1. 0 \in T
    <3>1. Told(f)[0] = [base |-> 0, version |-> 0, bytes |-> <<>>]
      BY TextFacts, ToldUnrolls
    <3>2. Above(f, 0) = 0
      BY AboveNext
    <3> QED BY <1>6, <3>1, <3>2
  <2>2. ASSUME NEW i \in 0 .. m, i + 1 \in 0 .. m, i \in T PROVE i + 1 \in T
    <3> DEFINE j == i + 1
    <3>1. j \in DOMAIN f /\ j \in 1 .. k - 1 /\ j - 1 = i /\ i \in Nat
      BY <1>1, <1>6, <2>2
    <3>2. j \in 0 .. m /\ i + 1 = j
      BY <2>2
    <3>3. Told(f)[i].bytes = <<>> /\ Told(f)[i].version = 0 /\ Told(f)[i].base = Above(f, i)
      BY <2>2
    <3> HIDE DEF j
    <3>4. f[j].type \notin {"data", "custom", "eof", "segment", "meta"}
      BY <1>4, <3>1
    <3>5. f[j].type \in {"linear", "other"} /\ (f[j].type = "linear" => f[j].type \in Extended)
      BY <3>1, <3>4, ToldNext DEF Record, Extended
    <3>6. Told(f)[j].bytes = <<>> /\ Told(f)[j].version = 0
      BY <3>1, <3>3, <3>4, ToldNext DEF DataTypes
    <3>7. Told(f)[j].base = Above(f, j)
      <4>1. CASE f[j].type = "linear"
        <5>1. Above(f, j) = Base(f[j])
          BY <3>1, <3>2, <4>1, AboveNext
        <5> QED BY <3>1, <3>5, <4>1, <5>1, ToldNext
      <4>2. CASE f[j].type = "other"
        <5>1. Above(f, j) = Above(f, i)
          BY <3>1, <3>2, <4>2, AboveNext
        <5>2. Told(f)[j] = Told(f)[i]
          BY <3>1, <4>2, ToldNext
        <5> QED BY <3>3, <5>1, <5>2
      <4> QED BY <3>5, <4>1, <4>2
    <3>8. j \in T
      BY <3>2, <3>6, <3>7
    <3> QED BY <3>8 DEF j
  <2> HIDE DEF T
  <2>3. 0 \in Nat /\ 0 <= m
    BY <1>6
  <2> QED BY <1>6, <2>1, <2>2, <2>3, Upward
<1>8. Told(f)[k - 1].bytes = <<>> /\ Told(f)[k - 1].version = 0 /\ Told(f)[k - 1].base = Above(f, k - 1)
  BY <1>7
<1>9. PICK u \in Seq(Pairs) : HexBytes(f) = Told(f)[k].bytes \o u
  <2>1. k \in 0 .. Len(f) /\ Len(f) \in k .. Len(f)
    BY <1>1, <1>6
  <2> QED BY <2>1, ToldGrows DEF GoesOn, HexBytes
<1>10. CASE f[k].type = "eof"
  <2>1. k = Len(f)
    BY <1>1, <1>3, <1>10
  <2>2. Told(f)[k].bytes = Told(f)[k - 1].bytes
    BY <1>3, <1>10, ToldNext DEF DataTypes
  <2> QED BY <1>8, <2>1, <2>2 DEF HexBytes
<1>11. CASE f[k].type = "data"
  <2> DEFINE a == Above(f, k - 1) + f[k].addr
             d == f[k].data
             s == Addressed(a, d)
  <2>0. f[k].type \in DataTypes
    BY <1>11 DEF DataTypes
  <2>1. Told(f)[k].bytes = <<>> \o s
    BY <1>3, <1>8, <2>0, ToldNext
  <2>2. a \in Nat /\ d \in Seq(Bytes) /\ d # <<>>
    <3>1. f[k] \in Record /\ Told(f)[k - 1] \in ToldType
      BY <1>3, ToldNext
    <3>2. f[k].addr \in Nat /\ d \in Seq(Bytes) /\ Above(f, k - 1) \in Nat
      BY <1>8, <3>1 DEF Record, ToldType
    <3>3. d # <<>>
      BY <1>3, <2>0, HexFilesAssumption
    <3> HIDE DEF d
    <3> QED BY <3>2, <3>3
  <2>3. StartAddress(f, None) = a
    BY <1>5, <1>11
  <2> HIDE DEF a, d
  <2>4. s \in Seq(Pairs) /\ Len(s) = Len(d) /\ \A i \in 1 .. Len(d) : s[i] = <<(a + i) - 1, d[i]>>
    BY <2>2, AddressedIs
  <2>5. Len(d) \in Nat /\ Len(d) > 0
    BY <2>2
  <2>6. s[1] = <<(a + 1) - 1, d[1]>> /\ (a + 1) - 1 = a
    BY <2>2, <2>4, <2>5
  <2>7. s # <<>>
    BY <2>4, <2>5
  <2> HIDE DEF s
  <2>8. Told(f)[k].bytes = s
    BY <2>1, <2>4
  <2>9. HexBytes(f)[1] = s[1]
    BY <1>9, <2>4, <2>7, <2>8, PrefixIs
  <2> QED BY <2>3, <2>6, <2>9
<1> QED BY <1>3, <1>10, <1>11

-----------------------------------------------------------------------------
(***************************************************************************)
(* The parser.                                                             *)
(***************************************************************************)
Active == pc \in {"ready", "parse", "write"}

HpType ==
  [rec : Nat, idx : Nat, low_nibble : BOOLEAN, record_processed : BOOLEAN,
   load_unaligned_record : BOOLEAN, skip_until_aligned : BOOLEAN,
   binary_version : Nat, next : Nat, sound : BOOLEAN]

ParserType ==
  /\ hp \in HpType /\ bin \in Seq(Bytes) /\ address \in Nat
  /\ status \in {"parsing", "ok", "unaligned", "eof", "checksum", "beyond"}
  /\ pc = "parse" /\ status = "parsing" => Len(bin) <= hp.next

FileInv ==
  /\ front \in {"file", "stream"}
  /\ (kind = "hex" /\ file \in HexFiles \cup {<<>>}) \/ (kind = "bin" /\ file \in BinFiles)
  /\ Active /\ kind = "hex" => file \in HexFiles /\ (front = "stream" => file \notin Universal)

(* The digit c is the next one of its record, or the last one of an address *)
(* record and was looked at before.                                         *)
Expected(f, h, c) ==
  \/ ~h.record_processed /\ c.at = 2 * h.idx + (IF h.low_nibble THEN 2 ELSE 1)
  \/ /\ h.record_processed /\ f[c.rec].ok /\ f[c.rec].type \in Extended /\ h.low_nibble
     /\ h.idx = LineBytes(f[c.rec]) /\ c.at = 2 * h.idx

(* The parser h has consumed p characters of f.                             *)
Synced(f, h, p) ==
  IF p = Len(Text(f)) THEN h.rec = Len(f) /\ h.record_processed
  ELSE LET c == Text(f)[p + 1]
       IN  ~IsColon(c) =>
             /\ h.rec = c.rec
             /\ IsLineEnd(f, c) => h.record_processed
             /\ ~IsLineEnd(f, c) => h.sound /\ Expected(f, h, c)

(* The records whose bytes it knows, ...                                    *)
KnownAt(f, h, p) ==
  IF p = Len(Text(f)) THEN Len(f)
  ELSE LET c == Text(f)[p + 1]
       IN  IF ~IsColon(c) /\ h.record_processed THEN c.rec ELSE c.rec - 1

(* ... and those whose bytes it has put into the buffer.                    *)
CountAt(f, h, p) == IF h.load_unaligned_record THEN KnownAt(f, h, p) - 1 ELSE KnownAt(f, h, p)

(* The bytes handed over and those in the buffer.                           *)
Decoded ==
  IF pc = "parse"
  THEN handed \o Addressed(IF status \in {"parsing", "beyond"} THEN hp.next - Len(bin) ELSE address,
                            bin)
  ELSE handed

(* The first k records say x, and h is what the parser keeps of them.       *)
Says(f, k, h, x) ==
  /\ k \in 0 .. Len(f)
  /\ Told(f)[k].bytes = x /\ Told(f)[k].version = h.binary_version
  /\ NextIs(f, k, h.next)

(* The block ends at e, and p of the characters before were looked at.      *)
Slices(p, e) ==
  /\ p \in Nat /\ e \in Nat /\ p <= e /\ e <= Len(Text(file))
  /\ rest = SubSeq(Text(file), e + 1, Len(Text(file)))
  /\ pc = "ready" => p = e
  /\ pc # "ready" => blob = SubSeq(Text(file), p + 1, e)

(* A file is cut at multiples of the buffer's size.                         *)
Cut(p, e) ==
  front = "file" =>
    /\ rest = <<>> \/ e % FileBlock = 0
    /\ pc # "ready" => \E b \in Nat : b % FileBlock = 0 /\ b <= p /\ e <= b + FileBlock

Reading(p) ==
  /\ ~hp.skip_until_aligned
  /\ pc = "ready" \/ status \notin {"checksum", "eof"} => Synced(file, hp, p)
  /\ hp.load_unaligned_record =>
       /\ pc # "ready" /\ status = "unaligned" /\ hp.record_processed
       /\ p < Len(Text(file)) /\ ~IsColon(Text(file)[p + 1]) /\ Text(file)[p + 1].rec = hp.rec
       /\ file[hp.rec].type \in DataTypes /\ hp.binary_version = 0
       /\ Len(file[hp.rec].data) <= LineData
  /\ pc # "ready" /\ status = "ok" => blob = <<>>
  /\ pc # "ready" /\ status = "eof" =>
       p + 2 = Len(Text(file)) /\ blob # <<>> /\ hp.record_processed /\ hp.rec = Len(file)
  /\ Says(file, CountAt(file, hp, p), hp, Decoded)

(* The block, and those that do not begin with a record, are passed over.   *)
Skipping(e) ==
  /\ hp.skip_until_aligned /\ ~hp.load_unaligned_record
  /\ status = "ok" /\ front = "file"
  /\ \E q \in 1 .. e :
       /\ Text(file)[q].rec = hp.rec /\ Foreign(file, hp.rec)
       /\ \A x \in q + 1 .. e : (x - 1) % FileBlock = 0 => ~IsColon(Text(file)[x])
  /\ Says(file, hp.rec, hp, Decoded)

HexAt(p, e) == Slices(p, e) /\ Cut(p, e) /\ (Reading(p) \/ Skipping(e))

HexInv == Active /\ kind = "hex" => \E p, e \in Nat : HexAt(p, e)

BinInv ==
  Active /\ kind = "bin" =>
    /\ pc # "parse"
    /\ \E n \in 0 .. Len(file.data) :
         /\ rest = SubSeq(file.data, n + 1, Len(file.data))
         /\ addr = file.addr + n
         /\ handed = Addressed(file.addr, SubSeq(file.data, 1, n))

HandedInv ==
  /\ handed \in Seq(Pairs)
  /\ IsPrefix(handed, FileBytes)
  /\ result = TRUE => handed = FileBytes
  /\ pc = "connected" => handed = <<>>

(* A slice of a sequence, and what is taken from its beginning.             *)
LEMMA SliceIs ==
  ASSUME NEW S, NEW s \in Seq(S), NEW p \in Nat, NEW e \in Nat, p <= e, e <= Len(s)
  PROVE  /\ SubSeq(s, p + 1, e) \in Seq(S) /\ Len(SubSeq(s, p + 1, e)) = e - p
         /\ \A i \in 1 .. e - p : SubSeq(s, p + 1, e)[i] = s[p + i]
         /\ SubSeq(s, p + 1, e) = <<>> <=> p = e
<1> DEFINE a == p + 1
           x == SubSeq(s, a, e)
<1>1. a \in Int /\ e \in Int /\ \A i \in a .. e : s[i] \in S
  <2>1. \A i \in a .. e : i \in 1 .. Len(s)
    OBVIOUS
  <2> QED BY <2>1, ElementOfSeq
<1>2. /\ x \in Seq(S) /\ Len(x) = IF a <= e THEN (e - a) + 1 ELSE 0
      /\ \A i \in 1 .. (e - a) + 1 : x[i] = s[(a + i) - 1]
  BY <1>1, SubSeqProperties
<1> HIDE DEF x
<1>3. Len(x) = e - p
  BY <1>2
<1>4. \A i \in 1 .. e - p : i \in 1 .. (e - a) + 1 /\ (a + i) - 1 = p + i
  OBVIOUS
<1>5. \A i \in 1 .. e - p : x[i] = s[p + i]
  BY <1>2, <1>4
<1>6. x = <<>> <=> Len(x) = 0
  BY <1>2, EmptySeq
<1>7. x = <<>> <=> p = e
  BY <1>3, <1>6
<1> QED BY <1>2, <1>3, <1>5, <1>7 DEF x

LEMMA SliceEmpty ==
  ASSUME NEW S, NEW s \in Seq(S), NEW p \in Nat, NEW e \in Nat, p <= e, e <= Len(s)
  PROVE  SubSeq(s, p + 1, e) = <<>> <=> p = e
BY SliceIs

LEMMA SliceHead ==
  ASSUME NEW S, NEW s \in Seq(S), NEW p \in Nat, NEW e \in Nat, p < e, e <= Len(s)
  PROVE  /\ Head(SubSeq(s, p + 1, e)) = s[p + 1]
         /\ Tail(SubSeq(s, p + 1, e)) = SubSeq(s, (p + 1) + 1, e)
<1>1. p + 1 \in 1 .. Len(s) /\ e \in p + 1 .. Len(s)
  OBVIOUS
<1> QED BY <1>1, HeadTailOfSubSeq

LEMMA SliceCut ==
  ASSUME NEW S, NEW s \in Seq(S), NEW p \in Nat, NEW e \in Nat, p <= e, e <= Len(s),
         NEW n \in 1 .. e - p
  PROVE  /\ SubSeq(SubSeq(s, p + 1, e), 1, n) = SubSeq(s, p + 1, p + n)
         /\ SubSeq(SubSeq(s, p + 1, e), n + 1, Len(SubSeq(s, p + 1, e))) = SubSeq(s, (p + n) + 1, e)
<1> DEFINE x == SubSeq(s, p + 1, e)
           q == p + n
           u == SubSeq(x, 1, n)
           v == SubSeq(s, p + 1, q)
           y == SubSeq(x, n + 1, Len(x))
           z == SubSeq(s, q + 1, e)
<1>1. /\ x \in Seq(S) /\ Len(x) = e - p
      /\ \A i \in 1 .. e - p : x[i] = s[p + i]
  BY SliceIs
<1>2. q \in Nat /\ p <= q /\ q <= e /\ q <= Len(s) /\ q - p = n /\ n \in Nat /\ n <= e - p
  OBVIOUS
<1>3. u \in Seq(S) /\ Len(u) = n /\ \A i \in 1 .. n : u[i] = x[i]
  <2> HIDE DEF x, q
  <2>1. 0 \in Nat /\ 0 + 1 = 1 /\ n - 0 = n /\ 0 <= n /\ n <= Len(x) /\ \A i \in 1 .. n : 0 + i = i
    BY <1>1, <1>2
  <2>2. /\ SubSeq(x, 0 + 1, n) \in Seq(S) /\ Len(SubSeq(x, 0 + 1, n)) = n - 0
        /\ \A i \in 1 .. n - 0 : SubSeq(x, 0 + 1, n)[i] = x[0 + i]
    BY <1>1, <1>2, <2>1, SliceIs
  <2> QED BY <2>1, <2>2
<1>4. v \in Seq(S) /\ Len(v) = n /\ \A i \in 1 .. n : v[i] = s[p + i]
  <2> HIDE DEF q
  <2>1. /\ v \in Seq(S) /\ Len(v) = q - p
        /\ \A i \in 1 .. q - p : v[i] = s[p + i]
    BY <1>2, SliceIs
  <2> QED BY <1>2, <2>1
<1>5. y \in Seq(S) /\ Len(y) = (e - p) - n /\ \A i \in 1 .. (e - p) - n : y[i] = x[n + i]
  <2> HIDE DEF x, q
  <2> QED BY <1>1, <1>2, SliceIs
<1>6. z \in Seq(S) /\ Len(z) = e - q /\ \A i \in 1 .. e - q : z[i] = s[q + i]
  <2> HIDE DEF q
  <2> QED BY <1>2, SliceIs
<1>7. u = v
  <2> HIDE DEF u, v, x, q
  <2>1. \A i \in 1 .. n : u[i] = v[i]
    BY <1>1, <1>2, <1>3, <1>4
  <2> QED BY <1>3, <1>4, <2>1, SeqEqual
<1>8. y = z
  <2> HIDE DEF y, z, x
  <2>1. e - q = (e - p) - n /\ \A i \in 1 .. e - q : n + i \in 1 .. e - p /\ p + (n + i) = q + i
    BY <1>2
  <2>2. \A i \in 1 .. e - q : y[i] = z[i]
    BY <1>1, <1>5, <1>6, <2>1
  <2>3. Len(y) = Len(z) /\ Len(y) = e - q
    BY <1>5, <1>6, <2>1
  <2> QED BY <1>5, <1>6, <2>2, <2>3, SeqEqual
<1> QED BY <1>7, <1>8 DEF x, q, u, v, y, z

(* The next character of a block, and the text after it.                    *)
LEMMA CharHere ==
  ASSUME NEW f \in HexFiles, NEW p \in Nat, NEW e \in Nat, p < e, e <= Len(Text(f))
  PROVE  LET x == SubSeq(Text(f), p + 1, e)
             c == Text(f)[p + 1]
         IN  /\ x # <<>> /\ Head(x) = c /\ Tail(x) = SubSeq(Text(f), (p + 1) + 1, e)
             /\ p + 1 \in 1 .. Len(Text(f)) /\ c \in Chars /\ p # Len(Text(f))
             /\ c.rec \in DOMAIN f /\ c.rec \in Nat /\ c.rec >= 1 /\ c.rec <= Len(f)
             /\ c.at \in 0 .. LastAt(f, c.rec)
<1>1. /\ Text(f) \in Seq(Chars) /\ Len(Text(f)) \in Nat /\ DOMAIN f = 1 .. Len(f) /\ Len(f) \in Nat
      /\ \A q \in 1 .. Len(Text(f)) :
              Text(f)[q].rec \in DOMAIN f /\ Text(f)[q].at \in 0 .. LastAt(f, Text(f)[q].rec)
  BY TextFacts
<1>2. p + 1 \in 1 .. Len(Text(f)) /\ p <= e /\ p # Len(Text(f)) /\ p # e
  BY <1>1
<1>3. SubSeq(Text(f), p + 1, e) # <<>>
  <2> DEFINE T == Text(f)
  <2>1. T \in Seq(Chars) /\ p <= e /\ e <= Len(T) /\ p # e
    BY <1>1, <1>2
  <2> HIDE DEF T
  <2>2. SubSeq(T, p + 1, e) = <<>> <=> p = e
    BY <2>1, SliceIs
  <2> QED BY <2>1, <2>2 DEF T
<1>4. /\ Head(SubSeq(Text(f), p + 1, e)) = Text(f)[p + 1]
      /\ Tail(SubSeq(Text(f), p + 1, e)) = SubSeq(Text(f), (p + 1) + 1, e)
  BY <1>1, SliceHead
<1>5. Text(f)[p + 1] \in Chars
  BY <1>1, <1>2, ElementOfSeq
<1> DEFINE c == Text(f)[p + 1]
<1>6. c.rec \in DOMAIN f /\ c.at \in 0 .. LastAt(f, c.rec)
  BY <1>1, <1>2
<1> HIDE DEF c
<1>7. c.rec \in Nat /\ c.rec >= 1 /\ c.rec <= Len(f)
  BY <1>1, <1>6
<1> QED BY <1>2, <1>3, <1>4, <1>5, <1>6, <1>7 DEF c

(* The parser's place in a record after the next character.                 *)
LEMMA BytesOf ==
  ASSUME NEW f \in HexFiles, NEW k \in DOMAIN f
  PROVE  LineBytes(f[k]) \in Nat /\ LineBytes(f[k]) >= 5 /\ LastAt(f, k) = 2 * LineBytes(f[k]) + 1
<1>1. f[k] \in Record
  BY ToldNext
<1>2. Len(f[k].data) \in Nat
  BY <1>1 DEF Record
<1> QED BY <1>2 DEF LineBytes, LastAt

LEMMA AfterLineEnd ==
  ASSUME NEW f \in HexFiles, NEW p \in Nat, p < Len(Text(f)), NEW h \in HpType,
         Synced(f, h, p), IsLineEnd(f, Text(f)[p + 1])
  PROVE  /\ Synced(f, h, p + 1) /\ KnownAt(f, h, p + 1) = KnownAt(f, h, p)
         /\ ~IsColon(Text(f)[p + 1]) /\ h.record_processed
<1> DEFINE N == Len(Text(f))
           c == Text(f)[p + 1]
           d == Text(f)[(p + 1) + 1]
<1>1. N \in Nat /\ p + 1 \in 1 .. N /\ c.rec \in DOMAIN f /\ c.rec \in Nat /\ p # N
  BY TextFacts, CharHere
<1>2. c.at = 2 * LineBytes(f[c.rec]) + 1 /\ ~IsColon(c)
  BY <1>1, BytesOf DEF IsLineEnd, IsColon
<1>3. h.rec = c.rec /\ h.record_processed /\ KnownAt(f, h, p) = c.rec
  BY <1>1, <1>2 DEF Synced, KnownAt
<1>4. CASE p + 1 = N
  <2>1. c = [rec |-> Len(f), at |-> LastAt(f, Len(f))]
    BY <1>4, TextFacts
  <2>2. c.rec = Len(f)
    BY <2>1
  <2> QED BY <1>2, <1>3, <1>4, <2>2 DEF Synced, KnownAt
<1>5. CASE p + 1 # N
  <2>1. p + 1 \in 1 .. N /\ (p + 1) + 1 <= N
    BY <1>1, <1>5
  <2>2. IsColon(d) /\ d.rec = c.rec + 1
    BY <2>1, NextChar
  <2>3. d.rec - 1 = c.rec
    BY <1>1, <2>2
  <2> QED BY <1>2, <1>3, <1>5, <2>2, <2>3 DEF Synced, KnownAt
<1> QED BY <1>4, <1>5

LEMMA AtDigit ==
  ASSUME NEW f \in HexFiles, NEW p \in Nat, p < Len(Text(f)), NEW h \in HpType,
         Synced(f, h, p), ~IsColon(Text(f)[p + 1]), ~IsLineEnd(f, Text(f)[p + 1])
  PROVE  LET c == Text(f)[p + 1]
             d == Text(f)[(p + 1) + 1]
             n == LineBytes(f[c.rec])
         IN  /\ (p + 1) + 1 \in 1 .. Len(Text(f)) /\ p + 1 \in Nat /\ p + 1 < Len(Text(f))
             /\ h.rec = c.rec /\ c.rec \in DOMAIN f /\ h.sound
             /\ ~IsColon(d) /\ d.rec = c.rec /\ d.at = c.at + 1
             /\ c.at \in Nat /\ c.at <= 2 * n /\ n \in Nat /\ n >= 5
             /\ IsLineEnd(f, d) <=> c.at = 2 * n
             /\ ~h.record_processed => c.at = 2 * h.idx + (IF h.low_nibble THEN 2 ELSE 1)
             /\ h.record_processed => f[c.rec].ok /\ h.low_nibble /\ h.idx = n /\ c.at = 2 * n
             /\ h.record_processed => f[c.rec].type \in Extended
             /\ KnownAt(f, h, p) = IF h.record_processed THEN c.rec ELSE c.rec - 1
<1> DEFINE N == Len(Text(f))
           c == Text(f)[p + 1]
           d == Text(f)[(p + 1) + 1]
           n == LineBytes(f[c.rec])
<1>1. /\ N \in Nat /\ p + 1 \in 1 .. N /\ c.rec \in DOMAIN f /\ c.rec \in Nat /\ p # N
      /\ c.at \in 0 .. LastAt(f, c.rec)
  BY TextFacts, CharHere
<1>2. n \in Nat /\ n >= 5 /\ LastAt(f, c.rec) = 2 * n + 1
  BY <1>1, BytesOf
<1>3. h.rec = c.rec /\ h.sound /\ Expected(f, h, c)
  BY <1>1 DEF Synced
<1>4. p + 1 # N
  <2>1. ASSUME p + 1 = N PROVE FALSE
    <3>1. c = [rec |-> Len(f), at |-> LastAt(f, Len(f))]
      BY <2>1, TextFacts
    <3>2. IsLineEnd(f, c)
      BY <3>1 DEF IsLineEnd, LastAt
    <3> QED BY <3>2
  <2> QED BY <2>1
<1>5. (p + 1) + 1 <= N /\ (p + 1) + 1 \in 1 .. N /\ p + 1 < N
  BY <1>1, <1>4
<1>6. ~IsColon(d) /\ d.rec = c.rec /\ d.at = c.at + 1
  BY <1>1, <1>5, NextChar
<1>7. c.at # 2 * n + 1
  BY DEF IsLineEnd
<1>8. IsLineEnd(f, d) <=> d.at = 2 * n + 1
  BY <1>6 DEF IsLineEnd
<1>9. /\ ~h.record_processed => c.at = 2 * h.idx + (IF h.low_nibble THEN 2 ELSE 1)
      /\ h.record_processed => f[c.rec].ok /\ h.low_nibble /\ h.idx = n /\ c.at = 2 * h.idx
      /\ h.record_processed => f[c.rec].type \in Extended
  BY <1>3 DEF Expected
<1>10. KnownAt(f, h, p) = IF h.record_processed THEN c.rec ELSE c.rec - 1
  BY <1>1 DEF KnownAt
<1> HIDE DEF N, c, d, n
<1>11. c.at \in Nat /\ c.at <= 2 * n
  BY <1>1, <1>2, <1>7
<1>12. IsLineEnd(f, d) <=> c.at = 2 * n
  BY <1>2, <1>6, <1>8, <1>11
<1>13. h.record_processed => c.at = 2 * n
  BY <1>9
<1>14. p + 1 \in Nat
  OBVIOUS
<1> QED BY <1>1, <1>2, <1>3, <1>5, <1>6, <1>9, <1>10, <1>11, <1>12, <1>13, <1>14 DEF N, c, d, n

(* A record that was dealt with is behind the parser at its line end.       *)
LEMMA AtLineEnd ==
  ASSUME NEW f \in HexFiles, NEW p \in Nat, p < Len(Text(f)), NEW h,
         IsLineEnd(f, Text(f)[p + 1]), h.rec = Text(f)[p + 1].rec, h.record_processed
  PROVE  Synced(f, h, p) /\ KnownAt(f, h, p) = h.rec /\ ~IsColon(Text(f)[p + 1])
<1> DEFINE c == Text(f)[p + 1]
<1>1. c.rec \in DOMAIN f /\ c.rec \in Nat /\ p # Len(Text(f))
  BY TextFacts, CharHere
<1>2. c.at = 2 * LineBytes(f[c.rec]) + 1 /\ ~IsColon(c)
  BY <1>1, BytesOf DEF IsLineEnd, IsColon
<1> QED BY <1>1, <1>2 DEF Synced, KnownAt

LEMMA AfterColon ==
  ASSUME NEW f \in HexFiles, NEW p \in Nat, p < Len(Text(f)), NEW h,
         IsColon(Text(f)[p + 1]), h.rec = Text(f)[p + 1].rec, h.idx = 0,
         ~h.low_nibble, ~h.record_processed, h.sound
  PROVE  /\ Synced(f, h, p + 1) /\ KnownAt(f, h, p + 1) = h.rec - 1
         /\ \A g : KnownAt(f, g, p) = h.rec - 1
<1> DEFINE N == Len(Text(f))
           c == Text(f)[p + 1]
           d == Text(f)[(p + 1) + 1]
<1>1. /\ N \in Nat /\ p + 1 \in 1 .. N /\ c.rec \in DOMAIN f /\ c.rec \in Nat /\ p # N
  BY TextFacts, CharHere
<1>2. c.at = 0 /\ LineBytes(f[c.rec]) \in Nat /\ LineBytes(f[c.rec]) >= 5
  BY <1>1, BytesOf DEF IsColon
<1>3. p + 1 # N
  <2>1. ASSUME p + 1 = N PROVE FALSE
    <3>1. c = [rec |-> Len(f), at |-> LastAt(f, Len(f))]
      BY <2>1, TextFacts
    <3>2. LastAt(f, Len(f)) = 0 /\ c.rec = Len(f)
      BY <1>2, <3>1
    <3> QED BY <1>2, <3>2 DEF LastAt
  <2> QED BY <2>1
<1>4. (p + 1) + 1 <= N
  BY <1>1, <1>3
<1>5. ~IsLineEnd(f, c)
  BY <1>2 DEF IsLineEnd
<1>6. ~IsColon(d) /\ d.rec = c.rec /\ d.at = c.at + 1
  BY <1>1, <1>4, <1>5, NextChar
<1>7. d.at = 1 /\ ~IsLineEnd(f, d)
  BY <1>2, <1>6 DEF IsLineEnd
<1>8. Expected(f, h, d)
  BY <1>7 DEF Expected
<1>9. Synced(f, h, p + 1) /\ KnownAt(f, h, p + 1) = h.rec - 1
  BY <1>3, <1>6, <1>7, <1>8 DEF Synced, KnownAt
<1> QED BY <1>1, <1>9 DEF KnownAt

(* The parser after a digit within a record.                                *)
LEMMA AfterDigit ==
  ASSUME NEW f \in HexFiles, NEW p \in Nat, p < Len(Text(f)), NEW h \in HpType,
         Synced(f, h, p), ~IsColon(Text(f)[p + 1]), ~IsLineEnd(f, Text(f)[p + 1]),
         NEW g \in HpType, g.rec = h.rec, g.record_processed = h.record_processed, g.sound,
         g.idx = (IF h.low_nibble THEN h.idx + 1 ELSE h.idx), g.low_nibble = ~h.low_nibble,
         h.low_nibble /\ h.idx + 1 >= LineBytes(f[h.rec]) => h.record_processed
  PROVE  Synced(f, g, p + 1) /\ KnownAt(f, g, p + 1) = KnownAt(f, h, p)
<1> DEFINE N == Len(Text(f))
           c == Text(f)[p + 1]
           d == Text(f)[(p + 1) + 1]
           n == LineBytes(f[c.rec])
<1>1. /\ p + 1 \in Nat /\ p + 1 < N /\ p + 1 # N
      /\ h.rec = c.rec /\ c.rec \in DOMAIN f /\ h.sound
      /\ ~IsColon(d) /\ d.rec = c.rec /\ d.at = c.at + 1
      /\ c.at \in Nat /\ c.at <= 2 * n /\ n \in Nat /\ n >= 5
      /\ IsLineEnd(f, d) <=> c.at = 2 * n
      /\ ~h.record_processed => c.at = 2 * h.idx + (IF h.low_nibble THEN 2 ELSE 1)
      /\ h.record_processed => f[c.rec].ok /\ h.low_nibble /\ h.idx = n /\ c.at = 2 * n
      /\ KnownAt(f, h, p) = IF h.record_processed THEN c.rec ELSE c.rec - 1
  BY AtDigit
<1>2. KnownAt(f, g, p + 1) = KnownAt(f, h, p)
  BY <1>1 DEF KnownAt
<1>3. h.idx \in Nat /\ h.low_nibble \in BOOLEAN /\ g.idx \in Nat
  BY DEF HpType
<1>4. CASE h.record_processed
  <2>1. IsLineEnd(f, d)
    BY <1>1, <1>4
  <2>2. Synced(f, g, p + 1)
    BY <1>1, <1>4, <2>1 DEF Synced
  <2> QED BY <1>2, <2>2
<1>5. CASE ~h.record_processed
  <2>1. c.at = 2 * h.idx + (IF h.low_nibble THEN 2 ELSE 1) /\ (h.low_nibble => h.idx + 1 < n)
    BY <1>1, <1>3, <1>5
  <2>2. d.at = 2 * g.idx + (IF g.low_nibble THEN 2 ELSE 1) /\ c.at # 2 * n
    <3> DEFINE i == h.idx
               j == g.idx
               x == c.at
               y == d.at
    <3>1. i \in Nat /\ x \in Nat /\ n \in Nat /\ y = x + 1
      BY <1>1, <1>3
    <3>2. CASE h.low_nibble
      <4>1. ~g.low_nibble /\ j = i + 1 /\ x = 2 * i + 2 /\ i + 1 < n
        BY <2>1, <3>2
      <4> HIDE DEF i, j, x, y, n
      <4>2. y = 2 * j + 1 /\ x # 2 * n
        BY <3>1, <4>1
      <4> QED BY <4>1, <4>2 DEF i, j, x, y, n
    <3>3. CASE ~h.low_nibble
      <4>1. g.low_nibble /\ j = i /\ x = 2 * i + 1
        BY <2>1, <3>3
      <4> HIDE DEF i, j, x, y, n
      <4>2. y = 2 * j + 2 /\ x # 2 * n
        BY <3>1, <4>1
      <4> QED BY <4>1, <4>2 DEF i, j, x, y, n
    <3> QED BY <3>2, <3>3
  <2>3. Expected(f, g, d) /\ ~IsLineEnd(f, d)
    BY <1>1, <1>5, <2>2 DEF Expected
  <2>4. Synced(f, g, p + 1)
    BY <1>1, <2>3 DEF Synced
  <2> QED BY <1>2, <2>4
<1> QED BY <1>4, <1>5

(* The parser at the last digit of a record it has dealt with.              *)
LEMMA AtLastDigit ==
  ASSUME NEW f \in HexFiles, NEW p \in Nat, p < Len(Text(f)), NEW g,
         LET c == Text(f)[p + 1]
         IN  /\ ~IsColon(c) /\ ~IsLineEnd(f, c) /\ g.rec = c.rec
             /\ c.at = 2 * g.idx /\ g.idx = LineBytes(f[c.rec]) /\ f[c.rec].ok,
         g.record_processed, g.low_nibble, g.sound
  PROVE  /\ KnownAt(f, g, p) = g.rec
         /\ f[g.rec].type \in Extended => Synced(f, g, p)
<1>1. p # Len(Text(f))
  BY TextFacts
<1> QED BY <1>1 DEF Synced, KnownAt, Expected

-----------------------------------------------------------------------------
(* A call of the parser.                                                    *)
Parsing(p, e) ==
  /\ file \in HexFiles /\ front \in {"file", "stream"} /\ (front = "stream" => file \notin Universal)
  /\ ParserType /\ p \in Nat /\ e \in Nat
  /\ Slices(p, e) /\ Cut(p, e) /\ Reading(p)
  /\ pc = "parse" /\ status = "parsing" /\ handed \in Seq(Pairs)

Same == UNCHANGED <<front, kind, file, pc, rest, handed>>

InBuffer == Addressed(hp.next - Len(bin), bin)

LEMMA ParsingFacts ==
  ASSUME NEW p, NEW e, Parsing(p, e)
  PROVE  /\ file \in HexFiles /\ p \in Nat /\ e \in Nat /\ p <= e /\ e <= Len(Text(file))
         /\ Len(Text(file)) \in Nat /\ p + 1 \in Nat
         /\ hp \in HpType /\ bin \in Seq(Bytes) /\ Len(bin) \in Nat /\ Len(bin) <= hp.next
         /\ hp.next \in Nat /\ hp.next - Len(bin) \in Nat
         /\ ~hp.skip_until_aligned /\ ~hp.load_unaligned_record
         /\ Synced(file, hp, p)
         /\ Says(file, KnownAt(file, hp, p), hp, handed \o InBuffer)
         /\ blob = SubSeq(Text(file), p + 1, e)
<1>1. /\ file \in HexFiles /\ p \in Nat /\ e \in Nat /\ p <= e /\ e <= Len(Text(file))
      /\ hp \in HpType /\ bin \in Seq(Bytes) /\ Len(bin) <= hp.next
      /\ blob = SubSeq(Text(file), p + 1, e)
  BY DEF Parsing, Slices, ParserType
<1>2. hp.next \in Nat /\ Len(bin) \in Nat
  BY <1>1 DEF HpType
<1>3. hp.next - Len(bin) \in Nat /\ p + 1 \in Nat
  BY <1>1, <1>2
<1>4. ~hp.skip_until_aligned /\ ~hp.load_unaligned_record /\ Synced(file, hp, p)
  BY DEF Parsing, Reading
<1>5. Says(file, KnownAt(file, hp, p), hp, handed \o InBuffer)
  <2>1. CountAt(file, hp, p) = KnownAt(file, hp, p)
    BY <1>4 DEF CountAt
  <2>2. Decoded = handed \o InBuffer
    BY DEF Decoded, InBuffer, Parsing
  <2> QED BY <2>1, <2>2 DEF Parsing, Reading
<1> QED BY <1>1, <1>2, <1>3, <1>4, <1>5, TextFacts

LEMMA Stays ==
  ASSUME NEW p, NEW e, Slices(p, e), Cut(p, e), pc # "ready", pc' # "ready",
         UNCHANGED <<front, file, rest>>, blob' = blob
  PROVE  Slices(p, e)' /\ Cut(p, e)'
<1>1. Slices(p, e)'
  BY DEF Slices
<1>2. Cut(p, e)'
  BY Zenon DEF Cut
<1> QED BY <1>1, <1>2

LEMMA Moves ==
  ASSUME NEW p, NEW e, Parsing(p, e), blob # <<>>
  PROVE  /\ p < e /\ p < Len(Text(file)) /\ Head(blob) = Text(file)[p + 1]
         /\ Same /\ blob' = Tail(blob) => Slices(p + 1, e)' /\ Cut(p + 1, e)'
<1>1. /\ file \in HexFiles /\ p \in Nat /\ e \in Nat /\ p <= e /\ e <= Len(Text(file))
      /\ Len(Text(file)) \in Nat /\ p + 1 \in Nat
      /\ blob = SubSeq(Text(file), p + 1, e) /\ Text(file) \in Seq(Chars)
  BY ParsingFacts, TextFacts
<1>2. p # e
  BY <1>1, SliceIs
<1>3. p < e /\ p < Len(Text(file)) /\ p + 1 <= e
  BY <1>1, <1>2
<1>4. Head(blob) = Text(file)[p + 1] /\ Tail(blob) = SubSeq(Text(file), (p + 1) + 1, e)
  BY <1>1, <1>3, CharHere
<1>5. ASSUME Same, blob' = Tail(blob) PROVE Slices(p + 1, e)' /\ Cut(p + 1, e)'
  <2>1. pc' = pc /\ pc = "parse" /\ file' = file /\ rest' = rest /\ front' = front
    BY <1>5 DEF Parsing, Same
  <2>2. Slices(p + 1, e)'
    <3>1. rest = SubSeq(Text(file), e + 1, Len(Text(file)))
      BY DEF Parsing, Slices
    <3> QED BY <1>1, <1>3, <1>4, <1>5, <2>1, <3>1 DEF Slices
  <2>3. ASSUME front = "file"
        PROVE  /\ rest = <<>> \/ e % FileBlock = 0
               /\ \E b \in Nat : b % FileBlock = 0 /\ b <= p + 1 /\ e <= b + FileBlock
    <3>1. PICK b \in Nat : b % FileBlock = 0 /\ b <= p /\ e <= b + FileBlock
      BY <2>1, <2>3 DEF Parsing, Cut
    <3>2. b <= p + 1
      BY <1>1, <3>1
    <3>3. rest = <<>> \/ e % FileBlock = 0
      BY <2>3 DEF Parsing, Cut
    <3> QED BY <3>1, <3>2, <3>3
  <2>4. Cut(p + 1, e)'
    BY <2>1, <2>3, Zenon DEF Cut
  <2> QED BY <2>2, <2>4
<1> QED BY <1>3, <1>4, <1>5

(* The call goes on.                                                        *)
LEMMA ReadsOn ==
  ASSUME NEW p \in Nat, NEW e \in Nat, Slices(p, e)', Cut(p, e)', pc' = "parse", status' = "parsing",
         ~hp'.skip_until_aligned, ~hp'.load_unaligned_record, Synced(file', hp', p),
         Says(file', KnownAt(file', hp', p), hp', handed' \o InBuffer')
  PROVE  HexAt(p, e)'
<1>1. CountAt(file', hp', p) = KnownAt(file', hp', p)
  BY DEF CountAt
<1>2. Decoded' = handed' \o InBuffer'
  BY DEF Decoded, InBuffer
<1>3. Reading(p)'
  BY <1>1, <1>2 DEF Reading
<1> QED BY <1>3 DEF HexAt

(* The call ends.                                                           *)
LEMMA ReadsNoMore ==
  ASSUME NEW p \in Nat, NEW e \in Nat, Slices(p, e)', Cut(p, e)', pc' = "parse",
         NEW result1 \in {"ok", "unaligned", "eof", "checksum"}, status' = result1,
         ~hp'.skip_until_aligned, ~hp'.load_unaligned_record,
         result1 \notin {"checksum", "eof"} => Synced(file', hp', p),
         result1 = "ok" => blob' = <<>>,
         result1 = "eof" => /\ p + 2 = Len(Text(file')) /\ blob' # <<>>
                            /\ hp'.record_processed /\ hp'.rec = Len(file'),
         Says(file', KnownAt(file', hp', p), hp', handed' \o Addressed(address', bin'))
  PROVE  HexAt(p, e)'
<1>1. CountAt(file', hp', p) = KnownAt(file', hp', p)
  BY DEF CountAt
<1>2. Decoded' = handed' \o Addressed(address', bin')
  BY DEF Decoded
<1>3. Reading(p)'
  BY <1>1, <1>2 DEF Reading
<1> QED BY <1>3 DEF HexAt

LEMMA ParserTypeOn ==
  ASSUME ParserType, Same, pc = "parse", hp' \in HpType, bin' \in Seq(Bytes), UNCHANGED <<address, status>>,
         status = "parsing" => Len(bin') <= hp'.next
  PROVE  ParserType'
BY DEF ParserType, Same

LEMMA ParserTypeEnds ==
  ASSUME hp' \in HpType, bin' \in Seq(Bytes), address' \in Nat,
         status' \in {"ok", "unaligned", "eof", "checksum"}
  PROVE  ParserType'
BY DEF ParserType

LEMMA LineEndKeeps ==
  ASSUME NEW p, NEW e, Parsing(p, e), Same, LineEnd(file)
  PROVE  ParserType' /\ HexAt(p + 1, e)'
<1>1. /\ status = "parsing" /\ blob # <<>> /\ IsLineEnd(file, Head(blob))
      /\ blob' = Tail(blob) /\ hp' = hp /\ bin' = bin /\ address' = address /\ status' = status
      /\ pc' = pc /\ pc = "parse" /\ file' = file /\ handed' = handed
  BY DEF LineEnd, Same, Parsing
<1>2. /\ p < e /\ p < Len(Text(file)) /\ Head(blob) = Text(file)[p + 1]
      /\ Slices(p + 1, e)' /\ Cut(p + 1, e)'
  BY <1>1, Moves
<1>3. Synced(file, hp, p + 1) /\ KnownAt(file, hp, p + 1) = KnownAt(file, hp, p)
  BY <1>1, <1>2, ParsingFacts, AfterLineEnd
<1>4. InBuffer' = InBuffer
  BY <1>1 DEF InBuffer
<1>5. HexAt(p + 1, e)'
  BY <1>1, <1>2, <1>3, <1>4, ParsingFacts, ReadsOn
<1>6. ParserType'
  BY <1>1, ParserTypeOn DEF Parsing, ParserType
<1> QED BY <1>5, <1>6

LEMMA BlobEndKeeps ==
  ASSUME NEW p, NEW e, Parsing(p, e), Same, BlobEnd
  PROVE  ParserType' /\ HexAt(p, e)'
<1>1. /\ blob = <<>> /\ blob' = blob /\ hp' = hp /\ bin' = bin /\ address' = hp.next - Len(bin)
      /\ status' = "ok" /\ pc' = pc /\ pc = "parse" /\ file' = file /\ handed' = handed
      /\ rest' = rest /\ front' = front
  BY DEF BlobEnd, Finish, Same, Parsing
<1>2. Slices(p, e)' /\ Cut(p, e)'
  BY <1>1, Stays DEF Parsing
<1>3. Addressed(address', bin') = InBuffer
  BY <1>1 DEF InBuffer
<1>4. HexAt(p, e)'
  BY <1>1, <1>2, <1>3, ParsingFacts, ReadsNoMore
<1>5. ParserType'
  BY <1>1, ParsingFacts, ParserTypeEnds
<1> QED BY <1>4, <1>5

LEMMA ColonKeeps ==
  ASSUME NEW p, NEW e, Parsing(p, e), Same, Colon
  PROVE  ParserType' /\ HexAt(p + 1, e)'
<1> DEFINE c == Head(blob)
<1>1. /\ blob # <<>> /\ IsColon(c)
      /\ blob' = Tail(blob) /\ bin' = bin /\ address' = address /\ status' = status
      /\ hp' = [hp EXCEPT !.rec = c.rec, !.idx = 0, !.low_nibble = FALSE,
                          !.record_processed = FALSE, !.sound = TRUE]
      /\ pc' = pc /\ pc = "parse" /\ file' = file /\ handed' = handed /\ status = "parsing"
  BY DEF Colon, Same, Parsing
<1>2. /\ p < e /\ p < Len(Text(file)) /\ c = Text(file)[p + 1]
      /\ Slices(p + 1, e)' /\ Cut(p + 1, e)'
  BY <1>1, Moves
<1>3. c.rec \in Nat
  BY <1>2, ParsingFacts, CharHere
<1> HIDE DEF c
<1>4. /\ hp' \in HpType /\ hp'.rec = c.rec /\ hp'.idx = 0 /\ ~hp'.low_nibble /\ ~hp'.record_processed
      /\ hp'.sound /\ hp'.skip_until_aligned = hp.skip_until_aligned
      /\ hp'.load_unaligned_record = hp.load_unaligned_record
      /\ hp'.binary_version = hp.binary_version /\ hp'.next = hp.next
  BY <1>1, <1>3, ParsingFacts DEF HpType
<1>5. /\ Synced(file, hp', p + 1) /\ KnownAt(file, hp', p + 1) = hp'.rec - 1
      /\ KnownAt(file, hp, p) = hp'.rec - 1
  <2> DEFINE h == hp'
  <2>1. /\ file \in HexFiles /\ p \in Nat /\ p < Len(Text(file))
        /\ IsColon(Text(file)[p + 1]) /\ h.rec = Text(file)[p + 1].rec /\ h.idx = 0
        /\ ~h.low_nibble /\ ~h.record_processed /\ h.sound
    BY <1>1, <1>2, <1>4, ParsingFacts
  <2> HIDE DEF h
  <2>2. /\ Synced(file, h, p + 1) /\ KnownAt(file, h, p + 1) = h.rec - 1
        /\ \A g : KnownAt(file, g, p) = h.rec - 1
    BY <2>1, AfterColon
  <2> QED BY <2>2 DEF h
<1>6. InBuffer' = InBuffer
  BY <1>1, <1>4 DEF InBuffer
<1>7. Says(file, KnownAt(file, hp', p + 1), hp', handed \o InBuffer)
  BY <1>4, <1>5, ParsingFacts DEF Says
<1>8. HexAt(p + 1, e)'
  BY <1>1, <1>2, <1>4, <1>5, <1>6, <1>7, ParsingFacts, ReadsOn
<1>9. ParserType'
  BY <1>1, <1>4, ParsingFacts, ParserTypeOn DEF Parsing
<1> QED BY <1>8, <1>9

(* A digit is in its place.                                                 *)
LEMMA DigitHere ==
  ASSUME NEW p, NEW e, Parsing(p, e), Digit(file)
  PROVE  LET c == Text(file)[p + 1]
             g == Stored(file)
         IN  /\ blob # <<>> /\ p < e /\ p < Len(Text(file)) /\ Head(blob) = c
             /\ ~IsColon(c) /\ ~IsLineEnd(file, c)
             /\ g \in HpType /\ g.sound /\ g.rec = hp.rec
             /\ g.idx = (IF hp.low_nibble THEN hp.idx + 1 ELSE hp.idx)
             /\ g.low_nibble = hp.low_nibble /\ g.record_processed = hp.record_processed
             /\ g.load_unaligned_record = FALSE /\ g.skip_until_aligned = FALSE
             /\ g.binary_version = hp.binary_version /\ g.next = hp.next
<1> DEFINE c == Text(file)[p + 1]
           n == LineBytes(file[c.rec])
           g == Stored(file)
<1>1. blob # <<>> /\ ~IsColon(Head(blob)) /\ ~IsLineEnd(file, Head(blob))
  BY DEF Digit, DigitNext
<1>2. p < e /\ p < Len(Text(file)) /\ Head(blob) = c
  BY <1>1, Moves
<1>3. file \in HexFiles /\ p \in Nat /\ e <= Len(Text(file)) /\ e \in Nat /\ hp \in HpType
      /\ Synced(file, hp, p) /\ ~hp.load_unaligned_record /\ ~hp.skip_until_aligned
  BY ParsingFacts
<1>4. /\ hp.rec = c.rec /\ hp.sound /\ n \in Nat
      /\ ~hp.record_processed => c.at = 2 * hp.idx + (IF hp.low_nibble THEN 2 ELSE 1)
      /\ hp.record_processed => hp.idx = n
  BY <1>1, <1>2, <1>3, AtDigit
<1>5. InPlace(file)
  <2>1. CASE hp.record_processed
    <3>1. hp.idx >= LineBytes(file[hp.rec])
      BY <1>4, <2>1
    <3> QED BY <3>1 DEF InPlace
  <2>2. CASE ~hp.record_processed
    <3>1. c \in Chars
      BY <1>2, <1>3, CharHere
    <3>2. c = [rec |-> c.rec, at |-> c.at]
      BY <3>1 DEF Chars
    <3>3. c = [rec |-> hp.rec, at |-> 2 * hp.idx + (IF hp.low_nibble THEN 2 ELSE 1)]
      <4> HIDE DEF c
      <4> QED BY <1>4, <2>2, <3>2
    <3> QED BY <1>2, <3>3 DEF InPlace
  <2> QED BY <2>1, <2>2
<1>6. /\ hp.idx \in Nat /\ hp.idx + 1 \in Nat /\ hp.load_unaligned_record = FALSE
      /\ hp.skip_until_aligned = FALSE /\ hp.sound = TRUE
  <2>1. hp.idx \in Nat /\ hp.idx + 1 \in Nat
    BY <1>3 DEF HpType
  <2>2. hp.load_unaligned_record \in BOOLEAN /\ hp.skip_until_aligned \in BOOLEAN /\ hp.sound \in BOOLEAN
    BY <1>3 DEF HpType
  <2> QED BY <1>3, <1>4, <2>1, <2>2, Zenon
<1>7. g = [hp EXCEPT !.sound = TRUE, !.idx = IF hp.low_nibble THEN hp.idx + 1 ELSE hp.idx]
  BY <1>5, <1>6 DEF Stored
<1>8. /\ g \in HpType /\ g.sound /\ g.rec = hp.rec
      /\ g.idx = (IF hp.low_nibble THEN hp.idx + 1 ELSE hp.idx)
      /\ g.low_nibble = hp.low_nibble /\ g.record_processed = hp.record_processed
      /\ g.load_unaligned_record = FALSE /\ g.skip_until_aligned = FALSE
      /\ g.binary_version = hp.binary_version /\ g.next = hp.next
  <2> DEFINE x == IF hp.low_nibble THEN hp.idx + 1 ELSE hp.idx
  <2>1. x \in Nat /\ g = [hp EXCEPT !.sound = TRUE, !.idx = x]
    BY <1>6, <1>7
  <2> HIDE DEF g, x
  <2>2. /\ g \in HpType /\ g.sound /\ g.rec = hp.rec /\ g.idx = x
        /\ g.low_nibble = hp.low_nibble /\ g.record_processed = hp.record_processed
        /\ g.load_unaligned_record = FALSE /\ g.skip_until_aligned = FALSE
        /\ g.binary_version = hp.binary_version /\ g.next = hp.next
    BY <1>3, <1>6, <2>1 DEF HpType
  <2> QED BY <2>2 DEF x
<1> QED BY <1>1, <1>2, <1>8

LEMMA DigitInsideKeeps ==
  ASSUME NEW p, NEW e, Parsing(p, e), Same, DigitInside(file)
  PROVE  ParserType' /\ HexAt(p + 1, e)'
<1> DEFINE c == Text(file)[p + 1]
           s == Stored(file)
           g == hp'
<1>1. /\ Digit(file) /\ (Completes(file) => hp.record_processed)
      /\ g = [s EXCEPT !.low_nibble = ~@]
      /\ blob' = Tail(blob) /\ bin' = bin /\ address' = address /\ status' = status
      /\ pc' = pc /\ pc = "parse" /\ file' = file /\ handed' = handed /\ status = "parsing"
  BY DEF DigitInside, Same, Parsing
<1>2. /\ blob # <<>> /\ p < e /\ p < Len(Text(file)) /\ Head(blob) = c
      /\ ~IsColon(c) /\ ~IsLineEnd(file, c)
      /\ s \in HpType /\ s.sound /\ s.rec = hp.rec
      /\ s.idx = (IF hp.low_nibble THEN hp.idx + 1 ELSE hp.idx)
      /\ s.low_nibble = hp.low_nibble /\ s.record_processed = hp.record_processed
      /\ s.load_unaligned_record = FALSE /\ s.skip_until_aligned = FALSE
      /\ s.binary_version = hp.binary_version /\ s.next = hp.next
  BY <1>1, DigitHere
<1>3. Slices(p + 1, e)' /\ Cut(p + 1, e)'
  BY <1>1, <1>2, Moves
<1>4. hp.low_nibble /\ hp.idx + 1 >= LineBytes(file[hp.rec]) => hp.record_processed
  BY <1>1 DEF Completes
<1> HIDE DEF s, g, c
<1>5. /\ g \in HpType /\ g.sound /\ g.rec = hp.rec
      /\ g.idx = (IF hp.low_nibble THEN hp.idx + 1 ELSE hp.idx)
      /\ g.low_nibble = ~hp.low_nibble /\ g.record_processed = hp.record_processed
      /\ g.load_unaligned_record = FALSE /\ g.skip_until_aligned = FALSE
      /\ g.binary_version = hp.binary_version /\ g.next = hp.next
  BY <1>1, <1>2 DEF HpType
<1>6. Synced(file, g, p + 1) /\ KnownAt(file, g, p + 1) = KnownAt(file, hp, p)
  BY <1>2, <1>4, <1>5, ParsingFacts, AfterDigit DEF c
<1>7. InBuffer' = InBuffer
  BY <1>1, <1>5 DEF InBuffer, g
<1>8. Says(file, KnownAt(file, g, p + 1), g, handed \o InBuffer)
  BY <1>5, <1>6, ParsingFacts DEF Says
<1>9. HexAt(p + 1, e)'
  BY <1>1, <1>3, <1>5, <1>6, <1>7, <1>8, ParsingFacts, ReadsOn DEF g
<1>10. ParserType'
  BY <1>1, <1>5, ParsingFacts, ParserTypeOn DEF Parsing, g
<1> QED BY <1>9, <1>10

LEMMA BadChecksumKeeps ==
  ASSUME NEW p, NEW e, Parsing(p, e), Same, BadChecksum(file)
  PROVE  ParserType' /\ HexAt(p, e)'
<1> DEFINE s == Stored(file)
           g == hp'
<1>1. /\ Digit(file) /\ g = s
      /\ blob' = blob /\ bin' = bin /\ status' = "checksum" /\ address' = g.next - Len(bin')
      /\ pc' = pc /\ pc = "parse" /\ file' = file /\ handed' = handed /\ rest' = rest /\ front' = front
  BY DEF BadChecksum, Finish, Same, Parsing
<1>2. /\ s \in HpType /\ s.record_processed = hp.record_processed
      /\ s.load_unaligned_record = FALSE /\ s.skip_until_aligned = FALSE
      /\ s.binary_version = hp.binary_version /\ s.next = hp.next
  BY <1>1, DigitHere
<1> HIDE DEF s, g
<1>3. Slices(p, e)' /\ Cut(p, e)'
  BY <1>1, Stays DEF Parsing
<1>4. KnownAt(file, g, p) = KnownAt(file, hp, p)
  BY <1>1, <1>2 DEF KnownAt
<1>5. Addressed(address', bin') = InBuffer
  BY <1>1, <1>2 DEF InBuffer
<1>6. Says(file, KnownAt(file, g, p), g, handed \o InBuffer)
  BY <1>1, <1>2, <1>4, ParsingFacts DEF Says
<1>7. HexAt(p, e)'
  BY <1>1, <1>2, <1>3, <1>5, <1>6, ParsingFacts, ReadsNoMore DEF g
<1>8. ParserType'
  BY <1>1, <1>2, ParsingFacts, ParserTypeEnds DEF g
<1> QED BY <1>7, <1>8

(* The last digit of a record completes it.                                 *)
LEMMA CompleteHere ==
  ASSUME NEW p, NEW e, Parsing(p, e), NEW types, Complete(file, types)
  PROVE  LET c == Text(file)[p + 1]
             k == hp.rec
             g == Processed(file)
         IN  /\ blob # <<>> /\ p < e /\ p < Len(Text(file)) /\ Head(blob) = c
             /\ k \in DOMAIN file /\ k \in Nat /\ k - 1 \in 0 .. Len(file)
             /\ k \in 0 .. Len(file)
             /\ file[k].type \in types /\ file[k].ok
             /\ KnownAt(file, hp, p) = k - 1
             /\ c.rec = k /\ c.at = 2 * g.idx /\ g.idx = LineBytes(file[k])
             /\ ~IsColon(c) /\ ~IsLineEnd(file, c)
             /\ IsLineEnd(file, Text(file)[(p + 1) + 1]) /\ Text(file)[(p + 1) + 1].rec = k
             /\ p + 1 < Len(Text(file))
             /\ Len(file[k].data) <= LineData
             /\ g \in HpType /\ g.sound /\ g.rec = k /\ g.low_nibble = TRUE
             /\ g.record_processed = TRUE
             /\ g.load_unaligned_record = FALSE /\ g.skip_until_aligned = FALSE
             /\ g.binary_version = hp.binary_version /\ g.next = hp.next
<1> DEFINE c == Text(file)[p + 1]
           d == Text(file)[(p + 1) + 1]
           n == LineBytes(file[c.rec])
           k == hp.rec
           s == Stored(file)
           g == Processed(file)
<1>1. /\ Digit(file) /\ Completes(file) /\ ChecksumValid(file) /\ ~hp.record_processed
      /\ file[k].type \in types
  BY DEF Complete
<1>2. /\ blob # <<>> /\ p < e /\ p < Len(Text(file)) /\ Head(blob) = c
      /\ ~IsColon(c) /\ ~IsLineEnd(file, c)
      /\ s \in HpType /\ s.sound /\ s.rec = k
      /\ s.idx = (IF hp.low_nibble THEN hp.idx + 1 ELSE hp.idx)
      /\ s.low_nibble = hp.low_nibble /\ s.record_processed = hp.record_processed
      /\ s.load_unaligned_record = FALSE /\ s.skip_until_aligned = FALSE
      /\ s.binary_version = hp.binary_version /\ s.next = hp.next
  BY <1>1, DigitHere
<1>3. /\ p + 1 \in Nat /\ p + 1 < Len(Text(file))
      /\ hp.rec = c.rec /\ c.rec \in DOMAIN file
      /\ d.rec = c.rec /\ c.at \in Nat /\ c.at <= 2 * n /\ n \in Nat
      /\ IsLineEnd(file, d) <=> c.at = 2 * n
      /\ c.at = 2 * hp.idx + (IF hp.low_nibble THEN 2 ELSE 1)
      /\ KnownAt(file, hp, p) = c.rec - 1
  <2>1. file \in HexFiles /\ p \in Nat /\ hp \in HpType /\ Synced(file, hp, p)
    BY ParsingFacts
  <2>2. /\ p + 1 \in Nat /\ p + 1 < Len(Text(file))
        /\ hp.rec = c.rec /\ c.rec \in DOMAIN file
        /\ d.rec = c.rec /\ c.at \in Nat /\ c.at <= 2 * n /\ n \in Nat
        /\ IsLineEnd(file, d) <=> c.at = 2 * n
        /\ ~hp.record_processed => c.at = 2 * hp.idx + (IF hp.low_nibble THEN 2 ELSE 1)
        /\ KnownAt(file, hp, p) = IF hp.record_processed THEN c.rec ELSE c.rec - 1
    BY <1>2, <2>1, AtDigit
  <2> HIDE DEF c, d, n
  <2> QED BY <1>1, <2>2
<1>4. hp.low_nibble /\ hp.idx + 1 >= n /\ file[k].ok
  BY <1>1, <1>3 DEF Completes, ChecksumValid
<1>5. hp.idx \in Nat /\ hp.low_nibble = TRUE
  BY <1>4, ParsingFacts DEF HpType
<1>6. s.idx = n /\ c.at = 2 * n
  <2> DEFINE i == hp.idx
             x == c.at
  <2>1. x = 2 * i + 2 /\ i + 1 >= n /\ x <= 2 * n /\ x \in Nat /\ i \in Nat /\ n \in Nat /\ s.idx = i + 1
    BY <1>2, <1>3, <1>4, <1>5
  <2> HIDE DEF i, x, n
  <2>2. i + 1 = n /\ x = 2 * n
    BY <2>1
  <2> QED BY <2>1, <2>2 DEF x
<1>7. /\ g \in HpType /\ g.sound /\ g.rec = k /\ g.low_nibble = TRUE /\ g.idx = n
      /\ g.record_processed = TRUE
      /\ g.load_unaligned_record = FALSE /\ g.skip_until_aligned = FALSE
      /\ g.binary_version = hp.binary_version /\ g.next = hp.next
  <2>1. g = [s EXCEPT !.record_processed = TRUE]
    BY DEF Processed
  <2> HIDE DEF g, s, n, c, k
  <2> QED BY <1>2, <1>5, <1>6, <2>1 DEF HpType
<1>8. k \in Nat /\ k - 1 \in 0 .. Len(file) /\ k \in 0 .. Len(file) /\ k \in DOMAIN file
  <2>1. k \in DOMAIN file /\ DOMAIN file = 1 .. Len(file) /\ Len(file) \in Nat
    BY <1>3, ParsingFacts, TextFacts
  <2> HIDE DEF k
  <2> QED BY <2>1
<1> HIDE DEF c, d, n, k, s, g
<1>9. c.rec = k /\ d.rec = k /\ n = LineBytes(file[k]) /\ KnownAt(file, hp, p) = k - 1
  BY <1>3 DEF k, n
<1>10. c.at = 2 * g.idx /\ g.idx = LineBytes(file[k]) /\ IsLineEnd(file, d)
  BY <1>3, <1>6, <1>7, <1>9
<1>11. Len(file[k].data) <= LineData
  <2>1. ~OffLine
    BY <1>1 DEF Digit
  <2>2. LineData \in Nat /\ LineSize = LineData + 5
    BY HexParserAssumption DEF LineSize
  <2>3. hp.idx < LineData + 5
    BY <1>5, <2>1, <2>2 DEF OffLine
  <2>4. hp.idx + 1 = n
    BY <1>2, <1>4, <1>6
  <2>5. n = Len(file[k].data) + 5 /\ Len(file[k].data) \in Nat
    <3>1. file[k] \in Record
      BY <1>8, ParsingFacts, ToldNext
    <3>2. file[k].data \in Seq(Bytes)
      BY <3>1 DEF Record
    <3> QED BY <1>9, <3>2 DEF LineBytes
  <2> QED BY <1>5, <2>2, <2>3, <2>4, <2>5
<1> QED BY <1>1, <1>2, <1>3, <1>4, <1>7, <1>8, <1>9, <1>10, <1>11 DEF c, d, k, s, g

(* A record that has no bytes for this version.                             *)
LEMMA SaysOn ==
  ASSUME NEW f \in HexFiles, NEW k \in DOMAIN f, NEW h, NEW x, Says(f, k - 1, h, x),
         f[k].type \notin Extended, f[k].type \in DataTypes => h.binary_version # 0,
         NEW g, g.next = h.next,
         g.binary_version = IF f[k].type = "meta" THEN f[k].value ELSE h.binary_version
  PROVE  Says(f, k, g, x)
<1>1. k \in 0 .. Len(f)
  BY TextFacts
<1>2. /\ Told(f)[k - 1].bytes = x /\ Told(f)[k - 1].version = h.binary_version
      /\ NextIs(f, k - 1, h.next)
  BY DEF Says
<1>3. Told(f)[k].bytes = x
  BY <1>2, ToldNext
<1>4. Told(f)[k].version = g.binary_version
  BY <1>2, ToldNext
<1>5. NextIs(f, k, h.next)
  BY <1>2, ReachedOn
<1> QED BY <1>1, <1>3, <1>4, <1>5 DEF Says

LEMMA MetadataKeeps ==
  ASSUME NEW p, NEW e, Parsing(p, e), Same, Metadata(file)
  PROVE  ParserType' /\ HexAt(p + 1, e)'
<1> DEFINE k == hp.rec
           v == IF file[k].type = "meta" THEN file[k].value ELSE hp.binary_version
           g == Processed(file)
           h == hp'
<1>1. /\ Complete(file, {"meta", "other"})
      /\ h = [g EXCEPT !.low_nibble = FALSE,
                       !.binary_version = IF file[k].type = "meta" THEN file[k].value ELSE @]
      /\ blob' = Tail(blob) /\ bin' = bin /\ address' = address /\ status' = status
      /\ pc' = pc /\ pc = "parse" /\ file' = file /\ handed' = handed /\ status = "parsing"
  BY DEF Metadata, Same, Parsing
<1>2. /\ blob # <<>> /\ p < Len(Text(file))
      /\ k \in DOMAIN file
      /\ file[k].type \in {"meta", "other"}
      /\ KnownAt(file, hp, p) = k - 1
      /\ IsLineEnd(file, Text(file)[(p + 1) + 1]) /\ Text(file)[(p + 1) + 1].rec = k
      /\ p + 1 < Len(Text(file))
      /\ g \in HpType /\ g.rec = k /\ g.record_processed = TRUE
      /\ g.load_unaligned_record = FALSE /\ g.skip_until_aligned = FALSE
      /\ g.binary_version = hp.binary_version /\ g.next = hp.next
  BY <1>1, CompleteHere
<1>3. Slices(p + 1, e)' /\ Cut(p + 1, e)'
  BY <1>1, <1>2, Moves
<1>4. v \in Nat
  <2>1. file[k] \in Record /\ hp.binary_version \in Nat
    BY <1>2, ParsingFacts, ToldNext DEF HpType
  <2> QED BY <2>1 DEF Record
<1>5. /\ h \in HpType /\ h.rec = k /\ h.record_processed = TRUE
      /\ h.load_unaligned_record = FALSE /\ h.skip_until_aligned = FALSE
      /\ h.binary_version = v /\ h.next = hp.next
  <2>1. h = [g EXCEPT !.low_nibble = FALSE, !.binary_version = v]
    BY <1>1, <1>2
  <2> HIDE DEF v, g, h, k
  <2> QED BY <1>2, <1>4, <2>1 DEF HpType
<1>6. Synced(file, h, p + 1) /\ KnownAt(file, h, p + 1) = k
  <2> HIDE DEF h, k, g
  <2> QED BY <1>2, <1>5, ParsingFacts, AtLineEnd
<1>7. InBuffer' = InBuffer
  BY <1>1, <1>5 DEF InBuffer
<1>8. Says(file, k, h, handed \o InBuffer)
  <2> HIDE DEF h, k, g
  <2>1. Says(file, k - 1, hp, handed \o InBuffer)
    BY <1>2, ParsingFacts
  <2>2. file[k].type \notin Extended /\ file[k].type \notin DataTypes
    BY <1>2 DEF Extended, DataTypes
  <2> QED BY <1>2, <1>5, <2>1, <2>2, ParsingFacts, SaysOn
<1> HIDE DEF g, k, v, h
<1>9. HexAt(p + 1, e)'
  BY <1>1, <1>3, <1>5, <1>6, <1>7, <1>8, ParsingFacts, ReadsOn DEF h
<1>10. ParserType'
  BY <1>1, <1>5, ParsingFacts, ParserTypeOn DEF Parsing, h
<1> QED BY <1>9, <1>10

LEMMA ForeignKeeps ==
  ASSUME NEW p, NEW e, Parsing(p, e), Same, ForeignData(file)
  PROVE  ParserType' /\ HexAt(p, e)'
<1> DEFINE k == hp.rec
           g == Processed(file)
           h == hp'
<1>1. /\ Complete(file, DataTypes) /\ hp.binary_version # 0
      /\ h = [g EXCEPT !.skip_until_aligned = TRUE]
      /\ blob' = blob /\ bin' = bin /\ status' = "ok" /\ address' = h.next - Len(bin')
      /\ pc' = pc /\ pc = "parse" /\ file' = file /\ handed' = handed /\ rest' = rest /\ front' = front
  BY DEF ForeignData, Finish, Same, Parsing
<1>2. /\ p < e /\ p < Len(Text(file))
      /\ k \in DOMAIN file
      /\ file[k].type \in DataTypes
      /\ KnownAt(file, hp, p) = k - 1
      /\ Text(file)[p + 1].rec = k
      /\ g \in HpType /\ g.rec = k
      /\ g.load_unaligned_record = FALSE
      /\ g.binary_version = hp.binary_version /\ g.next = hp.next
  <2>1. /\ p < e /\ p < Len(Text(file))
        /\ k \in DOMAIN file
        /\ file[k].type \in DataTypes
        /\ KnownAt(file, hp, p) = k - 1
        /\ Text(file)[p + 1].rec = k
        /\ g \in HpType /\ g.rec = k
        /\ g.load_unaligned_record = FALSE
        /\ g.binary_version = hp.binary_version /\ g.next = hp.next
    BY <1>1, CompleteHere
  <2>2. file[k].type \in DataTypes
    BY <2>1
  <2> HIDE DEF g, k
  <2> QED BY <2>1, <2>2
<1>3. Slices(p, e)' /\ Cut(p, e)'
  BY <1>1, Stays DEF Parsing
<1> HIDE DEF g
<1>4. /\ h \in HpType /\ h.rec = k /\ h.load_unaligned_record = FALSE /\ h.skip_until_aligned = TRUE
      /\ h.binary_version = hp.binary_version /\ h.next = hp.next
  <2> HIDE DEF h, k
  <2> QED BY <1>1, <1>2 DEF HpType
<1> HIDE DEF h, k
<1>5. Says(file, k, h, handed \o InBuffer)
  <2>1. Says(file, k - 1, hp, handed \o InBuffer)
    BY <1>2, ParsingFacts
  <2>2. file[k].type \notin Extended /\ file[k].type # "meta"
    BY <1>2 DEF Extended, DataTypes
  <2> QED BY <1>1, <1>2, <1>4, <2>1, <2>2, ParsingFacts, SaysOn
<1>6. Foreign(file, k)
  <2>1. Told(file)[k].version = hp.binary_version
    BY <1>4, <1>5 DEF Says
  <2> QED BY <1>1, <1>2, <2>1 DEF Foreign
<1>7. front = "file"
  <2>1. front = "stream" => \A j \in DOMAIN file : ~Foreign(file, j)
    BY UniversalAssumption DEF Parsing
  <2>2. front # "stream"
    BY <1>2, <1>6, <2>1
  <2> QED BY <2>2 DEF Parsing
<1>8. p + 1 \in 1 .. e /\ Text(file)[p + 1].rec = k
  BY <1>2, ParsingFacts
<1>9. ASSUME NEW x \in (p + 1) + 1 .. e, (x - 1) % FileBlock = 0 PROVE FALSE
  <2>1. PICK b \in Nat : b % FileBlock = 0 /\ b <= p /\ e <= b + FileBlock
    BY <1>1, <1>7 DEF Parsing, Cut
  <2> DEFINE m == x - 1
  <2>0. p \in Nat /\ e \in Nat
    BY ParsingFacts
  <2>2. m \in Nat /\ b < m /\ m < b + FileBlock
    <3>1. FileBlock \in Nat
      BY ProgrammerAssumption
    <3> QED BY <2>0, <2>1, <3>1
  <2>3. FileBlock \in Nat /\ FileBlock > 0
    BY ProgrammerAssumption
  <2> HIDE DEF m
  <2>4. m % FileBlock = 0
    BY <1>9 DEF m
  <2> QED BY <2>1, <2>2, <2>3, <2>4, Apart
<1>10. Decoded' = handed \o InBuffer
  BY <1>1, <1>4 DEF Decoded, InBuffer, h
<1>11. Skipping(e)'
  <2>1. \E q \in 1 .. e :
          /\ Text(file)[q].rec = k /\ Foreign(file, k)
          /\ \A x \in q + 1 .. e : (x - 1) % FileBlock = 0 => ~IsColon(Text(file)[x])
    BY <1>6, <1>8, <1>9
  <2> QED BY <1>1, <1>4, <1>5, <1>7, <1>10, <2>1 DEF Skipping, h
<1>12. HexAt(p, e)'
  BY <1>3, <1>11 DEF HexAt
<1>13. ParserType'
  BY <1>1, <1>4, ParsingFacts, ParserTypeEnds DEF h
<1> QED BY <1>12, <1>13

(* Data for this version is said at the place the parser puts it.           *)
LEMMA SaysData ==
  ASSUME NEW f \in HexFiles, NEW k \in DOMAIN f, f[k].type \in DataTypes,
         NEW h, NEW x \in Seq(Pairs), Says(f, k - 1, h, x), h.binary_version = 0,
         NEW g, g.binary_version = 0,
         g.next = (Upper(h.next) + f[k].addr) + Len(f[k].data)
  PROVE  /\ Says(f, k, g, x \o Addressed(Upper(h.next) + f[k].addr, f[k].data))
         /\ Upper(h.next) + f[k].addr \in Nat /\ f[k].data \in Seq(Bytes)
<1> DEFINE b == Told(f)[k - 1].base
           r == f[k]
<1>1. k \in 0 .. Len(f)
  BY TextFacts
<1>2. /\ Told(f)[k - 1].bytes = x /\ Told(f)[k - 1].version = 0
      /\ NextIs(f, k - 1, h.next)
  BY DEF Says
<1>3. Upper(h.next) = b
  BY <1>2, PlacedIs
<1>4. Told(f)[k].bytes = x \o Addressed(b + r.addr, r.data)
  BY <1>2, ToldNext
<1>5. Told(f)[k].version = 0
  BY <1>2, ToldNext DEF DataTypes
<1>6. NextIs(f, k, (b + r.addr) + Len(r.data))
  BY ReachedData
<1>7. b \in Nat /\ r.addr \in Nat /\ r.data \in Seq(Bytes)
  BY ToldNext DEF ToldType, Record
<1> HIDE DEF b, r
<1>8. b + r.addr \in Nat
  BY <1>7
<1> QED BY <1>1, <1>3, <1>4, <1>5, <1>6, <1>7, <1>8 DEF Says, r

LEMMA Assoc ==
  ASSUME NEW s \in Seq(Pairs), NEW t \in Seq(Pairs), NEW u \in Seq(Pairs)
  PROVE  (s \o t) \o u = s \o (t \o u)
BY ConcatAssociative

LEMMA DataKeeps ==
  ASSUME NEW p, NEW e, Parsing(p, e), Same, Data(file)
  PROVE  ParserType' /\ HexAt(p + 1, e)'
<1> DEFINE k == hp.rec
           r == file[k]
           g == Processed(file)
           h == hp'
           n == hp.next
           m == Len(bin)
           l == Len(r.data)
<1>1. /\ Complete(file, DataTypes) /\ hp.binary_version = 0 /\ Placed(r.addr) = hp.next
      /\ h = [g EXCEPT !.low_nibble = FALSE, !.next = Placed(r.addr) + l]
      /\ blob' = Tail(blob) /\ bin' = bin \o r.data /\ address' = address /\ status' = status
      /\ pc' = pc /\ pc = "parse" /\ file' = file /\ handed' = handed /\ status = "parsing"
  BY DEF Data, Continues, Same, Parsing
<1>2. /\ blob # <<>> /\ p < Len(Text(file))
      /\ k \in DOMAIN file
      /\ file[k].type \in DataTypes
      /\ KnownAt(file, hp, p) = k - 1
      /\ IsLineEnd(file, Text(file)[(p + 1) + 1]) /\ Text(file)[(p + 1) + 1].rec = k
      /\ p + 1 < Len(Text(file))
      /\ g \in HpType /\ g.rec = k /\ g.record_processed = TRUE
      /\ g.load_unaligned_record = FALSE /\ g.skip_until_aligned = FALSE
      /\ g.binary_version = hp.binary_version /\ g.next = hp.next
  BY <1>1, CompleteHere
<1>3. Slices(p + 1, e)' /\ Cut(p + 1, e)'
  BY <1>1, <1>2, Moves
<1>4. r.data \in Seq(Bytes) /\ l \in Nat /\ n \in Nat /\ m \in Nat /\ m <= n /\ bin \in Seq(Bytes)
  <2>1. file[k] \in Record
    BY <1>2, ParsingFacts, ToldNext
  <2>2. r.data \in Seq(Bytes)
    BY <2>1 DEF Record
  <2> QED BY <2>2, ParsingFacts
<1> HIDE DEF g
<1>5. /\ h \in HpType /\ h.rec = k /\ h.record_processed = TRUE
      /\ h.load_unaligned_record = FALSE /\ h.skip_until_aligned = FALSE
      /\ h.binary_version = 0 /\ h.next = n + l
  <2>1. h = [g EXCEPT !.low_nibble = FALSE, !.next = n + l] /\ n + l \in Nat
    BY <1>1, <1>4
  <2> HIDE DEF h, k, n, l
  <2> QED BY <1>1, <1>2, <2>1 DEF HpType
<1>6. Synced(file, h, p + 1) /\ KnownAt(file, h, p + 1) = k
  <2> HIDE DEF h, k
  <2>1. /\ file \in HexFiles /\ p + 1 \in Nat /\ p + 1 < Len(Text(file))
        /\ IsLineEnd(file, Text(file)[(p + 1) + 1])
        /\ h.rec = Text(file)[(p + 1) + 1].rec /\ h.record_processed
    BY <1>2, <1>5, ParsingFacts
  <2>2. Synced(file, h, p + 1) /\ KnownAt(file, h, p + 1) = h.rec
    BY <2>1, AtLineEnd
  <2> QED BY <1>5, <2>2
<1>7. /\ bin' \in Seq(Bytes) /\ Len(bin') = m + l
      /\ InBuffer' = InBuffer \o Addressed(n, r.data)
      /\ InBuffer \in Seq(Pairs) /\ Addressed(n, r.data) \in Seq(Pairs)
  <2>1. bin' \in Seq(Bytes) /\ Len(bin') = m + l
    <3> HIDE DEF r
    <3>1. bin \o r.data \in Seq(Bytes) /\ Len(bin \o r.data) = Len(bin) + Len(r.data)
      BY <1>4, ConcatProperties
    <3> QED BY <1>1, <3>1
  <2>2. n - m \in Nat /\ (n - m) + m = n /\ (n + l) - (m + l) = n - m
    <3> HIDE DEF n, m, l
    <3> QED BY <1>4
  <2>3. Addressed(n - m, bin \o r.data) = Addressed(n - m, bin) \o Addressed((n - m) + m, r.data)
    <3> HIDE DEF n, r
    <3> QED BY <1>4, <2>2, AddressedJoins
  <2>4. InBuffer' = Addressed(h.next - Len(bin'), bin')
    BY DEF InBuffer
  <2>5. InBuffer' = Addressed(n - m, bin \o r.data)
    <3> HIDE DEF n, m, l, h, r
    <3> QED BY <1>1, <1>5, <2>1, <2>2, <2>4
  <2>6. InBuffer = Addressed(n - m, bin)
    BY DEF InBuffer
  <2>7. InBuffer \in Seq(Pairs) /\ Addressed(n, r.data) \in Seq(Pairs)
    <3> HIDE DEF n, m, r
    <3> QED BY <1>4, <2>2, <2>6, AddressedIs
  <2> HIDE DEF n, m, l, h, r
  <2> QED BY <2>1, <2>2, <2>3, <2>5, <2>6, <2>7
<1>8. Says(file, k, h, handed \o InBuffer')
  <2>1. Says(file, k - 1, hp, handed \o InBuffer) /\ file[k].type \in DataTypes
    BY <1>2, ParsingFacts
  <2>2. Upper(hp.next) + r.addr = n
    BY <1>1 DEF Placed
  <2>3. handed \in Seq(Pairs)
    BY DEF Parsing
  <2>4. handed \o InBuffer \in Seq(Pairs)
    BY <1>7, <2>3, ConcatProperties
  <2> DEFINE x == handed \o InBuffer
  <2>5. h.next = (Upper(hp.next) + file[k].addr) + Len(file[k].data)
    BY <1>5, <2>2
  <2>6. file \in HexFiles /\ k \in DOMAIN file /\ hp.binary_version = 0 /\ h.binary_version = 0
    BY <1>1, <1>2, <1>5, ParsingFacts
  <2> HIDE DEF x, h, k, n, l, m
  <2>7. Says(file, k, h, x \o Addressed(Upper(hp.next) + file[k].addr, file[k].data))
    <3>1. Says(file, k - 1, hp, x) /\ x \in Seq(Pairs)
      BY <2>1, <2>4 DEF x
    <3> QED BY <2>1, <2>5, <2>6, <3>1, SaysData
  <2>8. x \o Addressed(n, r.data) = handed \o InBuffer'
    BY <1>7, <2>3, Assoc DEF x
  <2> QED BY <2>2, <2>7, <2>8
<1>9. HexAt(p + 1, e)'
  <2> HIDE DEF k, n, l
  <2> QED BY <1>1, <1>3, <1>5, <1>6, <1>8, ParsingFacts, ReadsOn
<1>10. ParserType'
  <2>1. Len(bin') <= h.next
    <3> HIDE DEF n, m, l, h
    <3> QED BY <1>4, <1>5, <1>7
  <2> HIDE DEF k, n, l, m
  <2> QED BY <1>1, <1>5, <1>7, <2>1, ParserTypeOn DEF Parsing
<1> QED BY <1>9, <1>10

LEMMA UnalignedKeeps ==
  ASSUME NEW p, NEW e, Parsing(p, e), Same, UnalignedData(file)
  PROVE  ParserType' /\ HexAt(p + 1, e)'
<1> DEFINE k == hp.rec
           g == Processed(file)
           h == hp'
<1>1. /\ Complete(file, DataTypes) /\ hp.binary_version = 0
      /\ h = [g EXCEPT !.load_unaligned_record = TRUE]
      /\ blob' = Tail(blob) /\ bin' = bin /\ status' = "unaligned" /\ address' = h.next - Len(bin')
      /\ pc' = pc /\ pc = "parse" /\ file' = file /\ handed' = handed
  BY DEF UnalignedData, Finish, Same, Parsing
<1>2. /\ blob # <<>> /\ p < Len(Text(file))
      /\ k \in DOMAIN file /\ k \in Nat
      /\ file[k].type \in DataTypes
      /\ KnownAt(file, hp, p) = k - 1
      /\ IsLineEnd(file, Text(file)[(p + 1) + 1]) /\ Text(file)[(p + 1) + 1].rec = k
      /\ p + 1 < Len(Text(file)) /\ Len(file[k].data) <= LineData
      /\ g \in HpType /\ g.rec = k /\ g.record_processed = TRUE
      /\ g.skip_until_aligned = FALSE
      /\ g.binary_version = hp.binary_version /\ g.next = hp.next
  BY <1>1, CompleteHere
<1>3. Slices(p + 1, e)' /\ Cut(p + 1, e)'
  BY <1>1, <1>2, Moves
<1> HIDE DEF g
<1>4. /\ h \in HpType /\ h.rec = k /\ h.record_processed = TRUE
      /\ h.load_unaligned_record = TRUE /\ h.skip_until_aligned = FALSE
      /\ h.binary_version = hp.binary_version /\ h.next = hp.next
  <2> HIDE DEF h, k
  <2> QED BY <1>1, <1>2 DEF HpType
<1> HIDE DEF h, k
<1>5. /\ Synced(file, h, p + 1) /\ KnownAt(file, h, p + 1) = k
      /\ ~IsColon(Text(file)[(p + 1) + 1])
  BY <1>2, <1>4, ParsingFacts, AtLineEnd
<1>6. CountAt(file, h, p + 1) = k - 1
  BY <1>4, <1>5 DEF CountAt
<1>7. Says(file, k - 1, h, handed \o InBuffer)
  <2>1. Says(file, k - 1, hp, handed \o InBuffer)
    BY <1>2, ParsingFacts
  <2> QED BY <1>4, <2>1 DEF Says
<1>8. Decoded' = handed \o InBuffer
  BY <1>1, <1>4 DEF Decoded, InBuffer, h
<1>9. Reading(p + 1)'
  <2>1. file[k].type \in DataTypes
    BY <1>2
  <2> QED BY <1>1, <1>2, <1>4, <1>5, <1>6, <1>7, <1>8, <2>1 DEF Reading, h
<1>10. HexAt(p + 1, e)'
  BY <1>3, <1>9 DEF HexAt
<1>11. ParserType'
  BY <1>1, <1>4, ParsingFacts, ParserTypeEnds DEF h
<1> QED BY <1>10, <1>11

LEMMA EndOfFileKeeps ==
  ASSUME NEW p, NEW e, Parsing(p, e), Same, EndOfFile(file)
  PROVE  ParserType' /\ HexAt(p, e)'
<1> DEFINE k == hp.rec
           h == hp'
           d == Text(file)[(p + 1) + 1]
<1>1. /\ Complete(file, {"eof"})
      /\ h = Processed(file)
      /\ blob' = blob /\ bin' = bin /\ status' = "eof" /\ address' = h.next - Len(bin')
      /\ pc' = pc /\ pc = "parse" /\ file' = file /\ handed' = handed /\ rest' = rest /\ front' = front
  BY DEF EndOfFile, Finish, Same, Parsing
<1>2. /\ blob # <<>> /\ p < Len(Text(file))
      /\ k \in DOMAIN file /\ file[k].ok
      /\ file[k].type \in {"eof"}
      /\ KnownAt(file, hp, p) = k - 1
      /\ Text(file)[p + 1].rec = k /\ Text(file)[p + 1].at = 2 * h.idx /\ h.idx = LineBytes(file[k])
      /\ ~IsColon(Text(file)[p + 1]) /\ ~IsLineEnd(file, Text(file)[p + 1])
      /\ IsLineEnd(file, d) /\ d.rec = k
      /\ p + 1 < Len(Text(file))
      /\ h \in HpType /\ h.rec = k /\ h.low_nibble /\ h.record_processed /\ h.sound
      /\ ~h.load_unaligned_record /\ ~h.skip_until_aligned
      /\ h.binary_version = hp.binary_version /\ h.next = hp.next
  BY <1>1, CompleteHere
<1>3. Slices(p, e)' /\ Cut(p, e)'
  BY <1>1, Stays DEF Parsing
<1> HIDE DEF h, k, d
<1>4. file[k].type = "eof"
  BY <1>2
<1>5. k = Len(file)
  BY <1>2, <1>4, ParsingFacts, HexFilesAssumption
<1>6. p + 2 = Len(Text(file))
  <2> DEFINE N == Len(Text(file))
             x == Text(file)[((p + 1) + 1) + 1]
  <2>1. ASSUME (p + 1) + 1 # N PROVE FALSE
    <3>1. (p + 1) + 1 \in 1 .. N /\ ((p + 1) + 1) + 1 <= N
      <4>1. p \in Nat /\ N \in Nat /\ p + 1 < N
        BY <1>2, ParsingFacts
      <4> HIDE DEF N
      <4> QED BY <2>1, <4>1
    <3>2. x.rec = d.rec + 1 /\ x.rec \in DOMAIN file
      BY <1>2, <3>1, ParsingFacts, NextChar DEF d
    <3>3. x.rec = Len(file) + 1
      BY <1>2, <1>5, <3>2
    <3>4. DOMAIN file = 1 .. Len(file) /\ Len(file) \in Nat
      BY ParsingFacts, TextFacts
    <3> HIDE DEF x
    <3> QED BY <3>2, <3>3, <3>4
  <2>2. p \in Nat /\ (p + 1) + 1 = p + 2
    BY ParsingFacts
  <2> QED BY <2>1, <2>2
<1>7. KnownAt(file, h, p) = k
  <2>1. /\ file \in HexFiles /\ p \in Nat /\ p < Len(Text(file))
        /\ ~IsColon(Text(file)[p + 1]) /\ ~IsLineEnd(file, Text(file)[p + 1])
        /\ h.rec = Text(file)[p + 1].rec /\ Text(file)[p + 1].at = 2 * h.idx
        /\ h.idx = LineBytes(file[Text(file)[p + 1].rec]) /\ file[Text(file)[p + 1].rec].ok
        /\ h.record_processed /\ h.low_nibble /\ h.sound
    BY <1>2, ParsingFacts
  <2>2. KnownAt(file, h, p) = h.rec
    BY <2>1, AtLastDigit
  <2> QED BY <1>2, <2>2
<1>8. Says(file, k, h, handed \o InBuffer)
  <2>1. Says(file, k - 1, hp, handed \o InBuffer)
    BY <1>2, ParsingFacts
  <2>2. file[k].type \notin Extended /\ file[k].type \notin DataTypes /\ file[k].type # "meta"
    BY <1>4 DEF Extended, DataTypes
  <2> QED BY <1>2, <2>1, <2>2, ParsingFacts, SaysOn
<1>9. Addressed(address', bin') = InBuffer
  BY <1>1, <1>2 DEF InBuffer
<1>10. HexAt(p, e)'
  BY <1>1, <1>2, <1>3, <1>5, <1>6, <1>7, <1>8, <1>9, ParsingFacts, ReadsNoMore DEF h
<1>11. ParserType'
  BY <1>1, <1>2, ParsingFacts, ParserTypeEnds DEF h
<1> QED BY <1>10, <1>11

LEMMA UpperKeeps ==
  ASSUME NEW p, NEW e, Parsing(p, e), Same, UpperAddress(file)
  PROVE  ParserType' /\ HexAt(p, e)'
<1> DEFINE k == hp.rec
           b == Base(file[k])
           g == Processed(file)
           h == hp'
<1>1. /\ Complete(file, {"segment", "linear"})
      /\ h = [g EXCEPT !.next = b]
      /\ blob' = blob /\ bin' = bin /\ status' = "unaligned" /\ address' = hp.next - Len(bin)
      /\ pc' = pc /\ pc = "parse" /\ file' = file /\ handed' = handed /\ rest' = rest /\ front' = front
  BY DEF UpperAddress, Same, Parsing
<1>2. /\ p < Len(Text(file))
      /\ k \in DOMAIN file /\ file[k].ok /\ k \in 0 .. Len(file)
      /\ file[k].type \in {"segment", "linear"}
      /\ KnownAt(file, hp, p) = k - 1
      /\ Text(file)[p + 1].rec = k /\ Text(file)[p + 1].at = 2 * g.idx /\ g.idx = LineBytes(file[k])
      /\ ~IsColon(Text(file)[p + 1]) /\ ~IsLineEnd(file, Text(file)[p + 1])
      /\ g \in HpType /\ g.rec = k /\ g.low_nibble = TRUE /\ g.record_processed = TRUE /\ g.sound
      /\ g.load_unaligned_record = FALSE /\ g.skip_until_aligned = FALSE
      /\ g.binary_version = hp.binary_version
  BY <1>1, CompleteHere
<1>3. Slices(p, e)' /\ Cut(p, e)'
  BY <1>1, Stays DEF Parsing
<1>4. b \in Nat
  BY <1>2, ParsingFacts, ToldNext, BaseIs
<1> HIDE DEF g, b
<1>5. /\ h \in HpType /\ h.rec = k /\ h.low_nibble = TRUE /\ h.record_processed = TRUE /\ h.sound
      /\ h.idx = g.idx /\ h.load_unaligned_record = FALSE /\ h.skip_until_aligned = FALSE
      /\ h.binary_version = hp.binary_version /\ h.next = b
  <2> HIDE DEF h, k
  <2> QED BY <1>1, <1>2, <1>4 DEF HpType
<1> HIDE DEF h, k
<1>6. Synced(file, h, p) /\ KnownAt(file, h, p) = k
  <2>1. /\ file \in HexFiles /\ p \in Nat /\ p < Len(Text(file))
        /\ ~IsColon(Text(file)[p + 1]) /\ ~IsLineEnd(file, Text(file)[p + 1])
        /\ h.rec = Text(file)[p + 1].rec /\ Text(file)[p + 1].at = 2 * h.idx
        /\ h.idx = LineBytes(file[Text(file)[p + 1].rec]) /\ file[Text(file)[p + 1].rec].ok
        /\ h.record_processed /\ h.low_nibble /\ h.sound
    BY <1>2, <1>5, ParsingFacts
  <2>3. file[h.rec].type \in Extended
    BY <1>2, <1>5 DEF Extended
  <2>2. Synced(file, h, p) /\ KnownAt(file, h, p) = h.rec
    BY <2>1, <2>3, AtLastDigit
  <2> QED BY <1>5, <2>2
<1>7. Says(file, k, h, handed \o InBuffer)
  <2>1. Says(file, k - 1, hp, handed \o InBuffer)
    BY <1>2, ParsingFacts
  <2>2. file[k].type \in Extended /\ file[k].type \notin DataTypes /\ file[k].type # "meta"
    BY <1>2 DEF Extended, DataTypes
  <2>3. /\ Told(file)[k].base = b /\ Told(file)[k].version = Told(file)[k - 1].version
        /\ Told(file)[k].bytes = Told(file)[k - 1].bytes
    <3>1. file \in HexFiles /\ k \in DOMAIN file
      BY <1>2, ParsingFacts
    <3> QED BY <2>2, <3>1, ToldNext DEF b
  <2>4. NextIs(file, k, b)
    BY <1>2, <2>3, ParsingFacts, ReachedBase
  <2> QED BY <1>2, <1>5, <2>1, <2>3, <2>4 DEF Says
<1>8. Addressed(address', bin') = InBuffer
  BY <1>1 DEF InBuffer
<1>9. HexAt(p, e)'
  BY <1>1, <1>3, <1>5, <1>6, <1>7, <1>8, ParsingFacts, ReadsNoMore DEF h
<1>10. ParserType'
  BY <1>1, <1>5, ParsingFacts, ParserTypeEnds DEF h
<1> QED BY <1>9, <1>10

(* Nothing that was decoded is touched when the parser leaves its line.     *)
LEMMA LeaveLineKeeps ==
  ASSUME NEW p, NEW e, Parsing(p, e), Same, LeaveLine(file)
  PROVE  ParserType' /\ HexAt(p, e)'
<1>1. /\ status' = "beyond" /\ hp' = hp /\ blob' = blob /\ bin' = bin /\ address' = address
      /\ pc' = pc /\ pc = "parse" /\ status = "parsing"
      /\ front' = front /\ file' = file /\ rest' = rest /\ handed' = handed
  BY DEF LeaveLine, Same, Parsing
<1>2. Slices(p, e)' /\ Cut(p, e)'
  BY <1>1, Stays DEF Parsing
<1>3. Decoded' = Decoded
  BY <1>1 DEF Decoded
<1>4. Reading(p)'
  BY <1>1, <1>3, ParsingFacts DEF Parsing, Reading
<1>5. ParserType'
  BY <1>1 DEF Parsing, ParserType
<1> QED BY <1>2, <1>4, <1>5 DEF HexAt

LEMMA ParseKeeps ==
  ASSUME NEW p, NEW e, Parsing(p, e), ParseStep
  PROVE  ParserType' /\ \E q \in Nat : HexAt(q, e)'
<1>1. Same /\ Parse(file)
  BY DEF ParseStep, Same, session
<1>2. p \in Nat /\ p + 1 \in Nat
  BY ParsingFacts
<1>3. CASE BlobEnd
  BY <1>1, <1>2, <1>3, BlobEndKeeps
<1>4. CASE LineEnd(file)
  BY <1>1, <1>2, <1>4, LineEndKeeps
<1>5. CASE Colon
  BY <1>1, <1>2, <1>5, ColonKeeps
<1>14. CASE LeaveLine(file)
  BY <1>1, <1>2, <1>14, LeaveLineKeeps
<1>6. CASE DigitInside(file)
  BY <1>1, <1>2, <1>6, DigitInsideKeeps
<1>7. CASE BadChecksum(file)
  BY <1>1, <1>2, <1>7, BadChecksumKeeps
<1>8. CASE Metadata(file)
  BY <1>1, <1>2, <1>8, MetadataKeeps
<1>9. CASE ForeignData(file)
  BY <1>1, <1>2, <1>9, ForeignKeeps
<1>10. CASE Data(file)
  BY <1>1, <1>2, <1>10, DataKeeps
<1>11. CASE UnalignedData(file)
  BY <1>1, <1>2, <1>11, UnalignedKeeps
<1>12. CASE EndOfFile(file)
  BY <1>1, <1>2, <1>12, EndOfFileKeeps
<1>13. CASE UpperAddress(file)
  BY <1>1, <1>2, <1>13, UpperKeeps
<1> QED BY <1>1, <1>3, <1>4, <1>5, <1>6, <1>7, <1>8, <1>9, <1>10, <1>11, <1>12, <1>13, <1>14
       DEF Parse

-----------------------------------------------------------------------------
(* Between the calls of the parser.                                         *)
Hexing(p, e) ==
  /\ file \in HexFiles /\ front \in {"file", "stream"} /\ (front = "stream" => file \notin Universal)
  /\ ParserType /\ p \in Nat /\ e \in Nat /\ HexAt(p, e) /\ handed \in Seq(Pairs)

LEMMA SyncedSame ==
  ASSUME NEW f, NEW p, NEW h, NEW g, g.rec = h.rec, g.record_processed = h.record_processed,
         g.sound = h.sound, g.idx = h.idx, g.low_nibble = h.low_nibble
  PROVE  Synced(f, h, p) => Synced(f, g, p) /\ KnownAt(f, g, p) = KnownAt(f, h, p)
BY DEF Synced, KnownAt, Expected

LEMMA EmptyBuffer ==
  ASSUME NEW s \in Seq(Pairs)
  PROVE  \A a : s \o Addressed(a, <<>>) = s
<1>1. s \o <<>> = s
  OBVIOUS
<1> QED BY <1>1, AddressedNone

LEMMA HandOverAt ==
  ASSUME NEW p, NEW e, Hexing(p, e), HandOver
  PROVE  HexAt(p, e)' /\ ParserType' /\ handed' = Decoded
<1>1. /\ pc = "parse" /\ status \in {"ok", "unaligned", "eof"} /\ pc' = "write"
      /\ handed' = handed \o Addressed(address, bin)
      /\ UNCHANGED <<front, kind, file, rest, hp, blob, bin, address, status>>
  BY DEF HandOver, session, parserVars
<1>2. Decoded = handed' /\ Decoded' = handed'
  BY <1>1 DEF Decoded
<1>3. Slices(p, e)' /\ Cut(p, e)'
  BY <1>1, Stays DEF Hexing, HexAt
<1>4. ASSUME Reading(p) PROVE Reading(p)'
  BY <1>1, <1>2, <1>4 DEF Reading
<1>5. ASSUME Skipping(e) PROVE Skipping(e)'
  BY <1>1, <1>2, <1>5 DEF Skipping
<1>6. ParserType'
  BY <1>1 DEF ParserType, Hexing
<1> QED BY <1>2, <1>3, <1>4, <1>5, <1>6 DEF Hexing, HexAt

LEMMA WriteAt ==
  ASSUME NEW p, NEW e, Hexing(p, e), WriteGoesOn
  PROVE  HexAt(p, e)' /\ ParserType'
<1>1. /\ pc' = pc /\ pc = "write" /\ handed' = handed
      /\ UNCHANGED <<front, kind, file, rest, hp, blob, bin, address, status>>
  BY DEF WriteGoesOn, session, parserVars
<1>2. Decoded' = Decoded
  BY <1>1 DEF Decoded
<1>3. Slices(p, e)' /\ Cut(p, e)'
  BY <1>1, Stays DEF Hexing, HexAt
<1>4. ASSUME Reading(p) PROVE Reading(p)'
  BY <1>1, <1>2, <1>4 DEF Reading
<1>5. ASSUME Skipping(e) PROVE Skipping(e)'
  BY <1>1, <1>2, <1>5 DEF Skipping
<1>6. ParserType'
  BY <1>1 DEF ParserType, Hexing
<1> QED BY <1>3, <1>4, <1>5, <1>6 DEF Hexing, HexAt

(* The next call finds the parser as the last one left it.                  *)
LEMMA BeginAt ==
  ASSUME NEW p \in Nat, NEW e \in Nat, file \in HexFiles, ParserType, handed \in Seq(Pairs),
         hp' = [hp EXCEPT !.skip_until_aligned = FALSE], bin' = <<>>, status' = "parsing",
         pc' = "parse", file' = file, handed' = handed, address' = address,
         Slices(p, e)', Cut(p, e)', ~hp.load_unaligned_record, Synced(file, hp, p),
         NEW k, k = KnownAt(file, hp, p), Says(file, k, hp, handed)
  PROVE  HexAt(p, e)' /\ ParserType'
<1> DEFINE h == hp'
<1>1. /\ h \in HpType /\ h.rec = hp.rec /\ h.record_processed = hp.record_processed
      /\ h.sound = hp.sound /\ h.idx = hp.idx /\ h.low_nibble = hp.low_nibble
      /\ h.load_unaligned_record = hp.load_unaligned_record /\ h.skip_until_aligned = FALSE
      /\ h.binary_version = hp.binary_version /\ h.next = hp.next
  BY DEF ParserType, HpType
<1> HIDE DEF h
<1>2. Synced(file, h, p) /\ KnownAt(file, h, p) = k
  BY <1>1, SyncedSame
<1>3. handed \o InBuffer' = handed
  <2>1. handed \o Addressed((hp.next - Len(bin))', <<>>) = handed
    BY EmptyBuffer
  <2> QED BY <2>1 DEF InBuffer
<1>4. Says(file, k, h, handed)
  BY <1>1 DEF Says
<1>5. HexAt(p, e)'
  BY <1>1, <1>2, <1>3, <1>4, ReadsOn DEF h
<1>6. ParserType'
  <2>1. Len(bin') <= h.next
    <3>1. h.next \in Nat /\ Len(bin') = 0
      BY <1>1 DEF HpType
    <3> QED BY <3>1
  <2>2. bin' \in Seq(Bytes) /\ address' \in Nat
    BY DEF ParserType
  <2> QED BY <1>1, <2>1, <2>2 DEF ParserType, h
<1> QED BY <1>5, <1>6

(* A record that its line had room for fits the buffer.                     *)
LEMMA Unclamped ==
  ASSUME NEW f \in HexFiles, NEW k \in DOMAIN f, Len(f[k].data) <= LineData
  PROVE  SubSeq(f[k].data, 1, Min({Len(f[k].data), BinBuf, LineData})) = f[k].data
<1> DEFINE d == f[k].data
           n == Len(d)
           T == {n, BinBuf, LineData}
<1>1. d \in Seq(Bytes)
  <2>1. f[k] \in Record
    BY ToldNext
  <2> QED BY <2>1 DEF Record
<1>2. n \in Nat /\ BinBuf \in Nat /\ LineData \in Nat /\ n <= LineData /\ LineData <= BinBuf
  BY <1>1, HexParserAssumption
<1> HIDE DEF n, d
<1>3. Min(T) \in T /\ \A y \in T : Min(T) <= y
  <2>1. T # {} /\ T \subseteq Nat
    BY <1>2
  <2> HIDE DEF T
  <2> QED BY <2>1, MinIs
<1>4. Min(T) = n
  BY <1>2, <1>3
<1>5. SubSeq(d, 1, n) = d
  BY <1>1, SubSeqFull DEF n
<1> QED BY <1>4, <1>5 DEF d, n

(* The record that did not continue the run begins the next one.            *)
LEMMA LoadAt ==
  ASSUME NEW p \in Nat, NEW e \in Nat, file \in HexFiles, ParserType, handed \in Seq(Pairs),
         NEW k, k = hp.rec, k \in DOMAIN file, file[k].type \in DataTypes, hp.binary_version = 0,
         bin' = file[k].data,
         hp' = [hp EXCEPT !.skip_until_aligned = FALSE,
                          !.load_unaligned_record = FALSE,
                          !.next = Placed(file[k].addr) + Len(file[k].data)],
         status' = "parsing",
         pc' = "parse", file' = file, handed' = handed, address' = address,
         Slices(p, e)', Cut(p, e)', Synced(file, hp, p), KnownAt(file, hp, p) = k,
         Says(file, k - 1, hp, handed)
  PROVE  HexAt(p, e)' /\ ParserType'
<1> DEFINE h == hp'
           a == Placed(file[k].addr)
           l == Len(file[k].data)
           g == [binary_version |-> 0, next |-> a + l]
<1>1. /\ Says(file, k, g, handed \o Addressed(a, file[k].data))
      /\ a \in Nat /\ file[k].data \in Seq(Bytes)
  <2>1. a = Upper(hp.next) + file[k].addr
    BY DEF Placed
  <2>2. g.next = (Upper(hp.next) + file[k].addr) + Len(file[k].data) /\ g.binary_version = 0
    BY <2>1
  <2> HIDE DEF g, a, l
  <2> QED BY <2>1, <2>2, SaysData
<1>2. l \in Nat /\ a + l \in Nat /\ (a + l) - l = a /\ l <= a + l
  <2>1. l \in Nat
    BY <1>1
  <2> HIDE DEF a, l
  <2> QED BY <1>1, <2>1
<1>3. /\ h \in HpType /\ h.rec = hp.rec /\ h.record_processed = hp.record_processed
      /\ h.sound = hp.sound /\ h.idx = hp.idx /\ h.low_nibble = hp.low_nibble
      /\ h.load_unaligned_record = FALSE /\ h.skip_until_aligned = FALSE
      /\ h.binary_version = 0 /\ h.next = a + l
  <2>1. h = [hp EXCEPT !.skip_until_aligned = FALSE, !.load_unaligned_record = FALSE, !.next = a + l]
    OBVIOUS
  <2>2. hp \in HpType /\ hp.binary_version = 0
    BY DEF ParserType
  <2> HIDE DEF a, l, h
  <2> QED BY <1>2, <2>1, <2>2 DEF HpType
<1>4. Synced(file, h, p) /\ KnownAt(file, h, p) = k
  <2> HIDE DEF h
  <2>1. /\ h.rec = hp.rec /\ h.record_processed = hp.record_processed
        /\ h.sound = hp.sound /\ h.idx = hp.idx /\ h.low_nibble = hp.low_nibble
    BY <1>3
  <2>2. Synced(file, hp, p) => Synced(file, h, p) /\ KnownAt(file, h, p) = KnownAt(file, hp, p)
    BY <2>1, SyncedSame
  <2> QED BY <2>2
<1>5. InBuffer' = Addressed(a, file[k].data)
  <2>1. InBuffer' = Addressed(h.next - l, file[k].data)
    BY DEF InBuffer
  <2>2. h.next - l = a
    <3> HIDE DEF a, l, h
    <3> QED BY <1>2, <1>3
  <2> QED BY <2>1, <2>2
<1> HIDE DEF a, l, h
<1>6. Says(file, k, h, handed \o InBuffer')
  BY <1>1, <1>3, <1>5 DEF Says, g
<1>7. HexAt(p, e)'
  BY <1>3, <1>4, <1>6, ReadsOn DEF h
<1>8. ParserType'
  <2>1. Len(bin') <= h.next
    BY <1>2, <1>3 DEF l
  <2>2. bin' \in Seq(Bytes) /\ address' \in Nat
    BY <1>1 DEF ParserType
  <2> QED BY <1>3, <2>1, <2>2 DEF ParserType, h
<1> QED BY <1>7, <1>8

LEMMA NextCallAt ==
  ASSUME NEW p, NEW e, Hexing(p, e), NextCall
  PROVE  HexAt(p, e)' /\ ParserType'
<1>1. /\ status = "unaligned" /\ Begin(file, blob) /\ pc' = "parse"
      /\ UNCHANGED <<front, kind, file, rest, handed>>
      /\ pc \in {"parse", "write"}
      /\ pc = "parse" => bin = <<>>
  BY DEF NextCall, Parsed, session
<1>2. Reading(p) /\ Slices(p, e) /\ Cut(p, e) /\ p \in Nat /\ e \in Nat
  BY <1>1 DEF Hexing, HexAt, Skipping
<1>3. blob' = blob
  BY <1>1 DEF Begin
<1>4. Slices(p, e)' /\ Cut(p, e)'
  BY <1>1, <1>2, <1>3, Stays
<1>5. Decoded = handed
  <2>1. pc = "parse" => Decoded = handed \o Addressed(address, <<>>)
    BY <1>1 DEF Decoded
  <2>2. handed \o Addressed(address, <<>>) = handed
    BY EmptyBuffer DEF Hexing
  <2> QED BY <1>1, <2>1, <2>2 DEF Decoded
<1>6. ~hp.skip_until_aligned /\ Synced(file, hp, p)
  BY <1>1, <1>2 DEF Reading
<1>7. file \in HexFiles /\ ParserType /\ handed \in Seq(Pairs) /\ file' = file /\ handed' = handed
  BY <1>1 DEF Hexing
<1>8. CASE hp.load_unaligned_record
  <2>1. /\ status' = "parsing" /\ address' = address
        /\ bin' = SubSeq(file[hp.rec].data, 1,
                         Min({Len(file[hp.rec].data), BinBuf, LineData}))
        /\ hp' = [hp EXCEPT !.skip_until_aligned = FALSE,
                            !.load_unaligned_record = FALSE,
                            !.next = Placed(file[hp.rec].addr) + Len(file[hp.rec].data)]
    BY <1>1, <1>6, <1>8 DEF Begin
  <2>2. /\ hp.record_processed /\ p < Len(Text(file)) /\ ~IsColon(Text(file)[p + 1])
        /\ Text(file)[p + 1].rec = hp.rec
        /\ file[hp.rec].type \in DataTypes /\ hp.binary_version = 0
        /\ Len(file[hp.rec].data) <= LineData
    BY <1>2, <1>8 DEF Reading
  <2>3. KnownAt(file, hp, p) = hp.rec /\ hp.rec \in DOMAIN file
    BY <1>2, <1>7, <2>2, TextFacts, CharHere DEF KnownAt
  <2>4. Says(file, hp.rec - 1, hp, handed)
    BY <1>2, <1>5, <1>8, <2>3 DEF Reading, CountAt
  <2>5. bin' = file[hp.rec].data
    BY <1>7, <2>1, <2>2, <2>3, Unclamped
  <2> QED BY <1>1, <1>2, <1>4, <1>6, <1>7, <2>1, <2>2, <2>3, <2>4, <2>5, LoadAt
<1>9. CASE ~hp.load_unaligned_record
  <2>1. /\ status' = "parsing" /\ address' = address
        /\ bin' = <<>> /\ hp' = [hp EXCEPT !.skip_until_aligned = FALSE]
    BY <1>1, <1>6, <1>9 DEF Begin
  <2>2. Says(file, KnownAt(file, hp, p), hp, handed)
    BY <1>2, <1>5, <1>9 DEF Reading, CountAt
  <2> QED BY <1>1, <1>2, <1>4, <1>6, <1>7, <1>9, <2>1, <2>2, BeginAt
<1> QED BY <1>8, <1>9

(* The block is done: what it had left is behind the last record.           *)
LEMMA LastDigit ==
  ASSUME NEW f \in HexFiles, NEW p \in Nat, p + 2 = Len(Text(f))
  PROVE  /\ p < Len(Text(f)) /\ p # Len(Text(f)) /\ p + 1 # Len(Text(f))
         /\ ~IsColon(Text(f)[p + 1]) /\ Text(f)[p + 1].rec = Len(f)
         /\ IsLineEnd(f, Text(f)[(p + 1) + 1]) /\ Text(f)[(p + 1) + 1].rec = Len(f)
<1> DEFINE N == Len(Text(f))
           c == Text(f)[p + 1]
           d == Text(f)[(p + 1) + 1]
<1>1. N \in Nat /\ N = p + 2 /\ (p + 1) + 1 = N /\ p < N /\ p # N /\ p + 1 # N
  BY TextFacts
<1>2. p + 1 \in 1 .. N /\ (p + 1) + 1 <= N
  <2> HIDE DEF N
  <2> QED BY <1>1
<1>3. d = [rec |-> Len(f), at |-> LastAt(f, Len(f))]
  BY <1>1, TextFacts
<1>4. Len(f) \in DOMAIN f
  <2>1. DOMAIN f = 1 .. Len(f) /\ Len(f) \in Nat /\ Len(f) > 0
    BY TextFacts
  <2> QED BY <2>1
<1>5. LineBytes(f[Len(f)]) \in Nat /\ LineBytes(f[Len(f)]) >= 5
      /\ LastAt(f, Len(f)) = 2 * LineBytes(f[Len(f)]) + 1
  BY <1>4, BytesOf
<1>6. IsLineEnd(f, d) /\ d.rec = Len(f) /\ ~IsColon(d) /\ d.at = LastAt(f, Len(f))
  BY <1>3, <1>5 DEF IsLineEnd, IsColon
<1>7. d.rec = c.rec /\ d.at = c.at + 1
  BY <1>2, <1>6, NextChar
<1>8. c.at # 0
  BY <1>5, <1>6, <1>7
<1> QED BY <1>1, <1>6, <1>7, <1>8 DEF IsColon

LEMMA BlockDoneAt ==
  ASSUME NEW p, NEW e, Hexing(p, e), BlockDone, kind = "hex"
  PROVE  HexAt(e, e)' /\ ParserType'
<1> DEFINE N == Len(Text(file))
<1>1. /\ status \in {"ok", "eof"} /\ pc' = "ready" /\ pc # "ready"
      /\ hp' = hp /\ bin' = bin /\ blob' = blob /\ address' = address /\ status' = status
      /\ file' = file /\ handed' = handed /\ rest' = rest /\ front' = front
      /\ pc = "parse" => bin = <<>>
      /\ pc = "parse" \/ pc = "write"
  BY DEF BlockDone, Parsed, session, parserVars
<1>2. Decoded = handed /\ Decoded' = handed
  <2>1. handed \o Addressed(address, <<>>) = handed
    BY EmptyBuffer DEF Hexing
  <2>2. pc = "parse" => Decoded = handed
    BY <1>1, <2>1 DEF Decoded
  <2> QED BY <1>1, <2>2 DEF Decoded
<1>3. /\ p \in Nat /\ e \in Nat /\ p <= e /\ e <= N /\ blob = SubSeq(Text(file), p + 1, e)
      /\ rest = SubSeq(Text(file), e + 1, N)
      /\ N \in Nat /\ Text(file) \in Seq(Chars) /\ file \in HexFiles
  BY <1>1, TextFacts DEF Hexing, HexAt, Slices
<1>4. Slices(e, e)'
  BY <1>1, <1>3 DEF Slices
<1>5. Cut(e, e)'
  BY <1>1 DEF Hexing, HexAt, Cut
<1>6. ParserType'
  BY <1>1 DEF Hexing, ParserType
<1>7. CASE Skipping(e)
  <2>1. Skipping(e)'
    BY <1>1, <1>2, <1>7 DEF Skipping
  <2> QED BY <1>4, <1>5, <1>6, <2>1 DEF HexAt
<1>8. CASE Reading(p)
  <2>1. /\ ~hp.skip_until_aligned /\ ~hp.load_unaligned_record
        /\ status = "ok" => Synced(file, hp, p)
        /\ Says(file, KnownAt(file, hp, p), hp, handed)
    BY <1>1, <1>2, <1>8 DEF Reading, CountAt
  <2>2. Synced(file, hp, e) /\ KnownAt(file, hp, e) = KnownAt(file, hp, p)
    <3>1. CASE status = "ok"
      <4>1. blob = <<>>
        BY <1>1, <1>8, <3>1 DEF Reading
      <4>2. p = e
        <5> HIDE DEF N
        <5>1. Text(file) \in Seq(Chars) /\ p \in Nat /\ e \in Nat /\ p <= e /\ e <= Len(Text(file))
          BY <1>3 DEF N
        <5>2. SubSeq(Text(file), p + 1, e) = <<>> <=> p = e
          BY <5>1, SliceEmpty
        <5> QED BY <1>3, <4>1, <5>2
      <4> QED BY <2>1, <3>1, <4>2
    <3>2. CASE status = "eof"
      <4>1. p + 2 = N /\ blob # <<>> /\ hp.record_processed /\ hp.rec = Len(file)
        BY <1>1, <1>8, <3>2 DEF Reading
      <4>2. /\ p # N /\ p < N
            /\ ~IsColon(Text(file)[p + 1]) /\ Text(file)[p + 1].rec = Len(file)
            /\ IsLineEnd(file, Text(file)[(p + 1) + 1]) /\ Text(file)[(p + 1) + 1].rec = Len(file)
        BY <1>3, <4>1, LastDigit
      <4>3. KnownAt(file, hp, p) = Len(file) /\ hp.rec = Len(file)
        BY <4>1, <4>2 DEF KnownAt
      <4>4. p # e
        <5> HIDE DEF N
        <5>1. Text(file) \in Seq(Chars) /\ p \in Nat /\ e \in Nat /\ p <= e /\ e <= Len(Text(file))
          BY <1>3 DEF N
        <5>2. SubSeq(Text(file), p + 1, e) = <<>> <=> p = e
          BY <5>1, SliceEmpty
        <5> QED BY <1>3, <4>1, <5>2
      <4>5. e = N \/ e = p + 1
        <5> HIDE DEF N
        <5> QED BY <1>3, <4>1, <4>4
      <4>6. CASE e = N
        BY <4>1, <4>3, <4>6 DEF Synced, KnownAt
      <4>7. CASE e = p + 1
        <5>1. p + 1 \in Nat /\ p + 1 < N
          <6> HIDE DEF N
          <6> QED BY <1>3, <4>1
        <5>2. Synced(file, hp, p + 1) /\ KnownAt(file, hp, p + 1) = hp.rec
          BY <1>3, <4>1, <4>2, <4>3, <5>1, AtLineEnd
        <5> QED BY <4>3, <4>7, <5>2
      <4> QED BY <4>5, <4>6, <4>7
    <3> QED BY <1>1, <3>1, <3>2
  <2>3. Reading(e)'
    <3>1. CountAt(file, hp, e) = KnownAt(file, hp, p)
      BY <2>1, <2>2 DEF CountAt
    <3> QED BY <1>1, <1>2, <2>1, <2>2, <3>1 DEF Reading
  <2> QED BY <1>4, <1>5, <1>6, <2>3 DEF HexAt
<1> QED BY <1>7, <1>8 DEF Hexing, HexAt

(* Between two multiples of the buffer's size there is none.                *)
LEMMA Multiples ==
  ASSUME NEW a \in Nat, NEW s \in Nat, s > 0, a % s = 0
  PROVE  (a + s) % s = 0 /\ \A x \in a + 1 .. (a + s) - 1 : x % s # 0
<1>1. PICK q \in Nat : a = s * q
  BY Multiple
<1>2. (a + s) % s = 0
  <2>1. a + s = s * (q + 1) + 0
    <3>1. s * (q + 1) = s * q + s
      OBVIOUS
    <3> QED BY <1>1, <3>1
  <2>2. a + s \in Nat /\ q + 1 \in Nat /\ 0 \in 0 .. s - 1
    OBVIOUS
  <2> DEFINE b == a + s
             r == q + 1
  <2>3. b \in Nat /\ r \in Nat /\ 0 \in 0 .. s - 1 /\ b = s * r + 0
    BY <2>1, <2>2
  <2> HIDE DEF b, r
  <2>4. b % s = 0
    BY <2>3, Remainder, Zenon
  <2> QED BY <2>4 DEF b
<1>3. ASSUME NEW x \in a + 1 .. (a + s) - 1 PROVE x % s # 0
  <2>1. PICK j \in 0 .. s - 1 : j # 0 /\ x = a + j
    <3>1. x - a \in 0 .. s - 1 /\ x - a # 0 /\ x = a + (x - a)
      OBVIOUS
    <3> QED BY <3>1
  <2>2. x \in Nat /\ x = s * q + j
    BY <1>1, <2>1
  <2>3. x % s = j
    <3> HIDE <2>1
    <3> QED BY <2>2, Remainder
  <2> QED BY <2>1, <2>3
<1> QED BY <1>2, <1>3

(* The next block: at its beginning the record that was passed over is      *)
(* known to say nothing.                                                    *)
LEMMA PassedOver ==
  ASSUME NEW f \in HexFiles, NEW e \in Nat, e < Len(Text(f)), IsColon(Text(f)[e + 1]),
         NEW q \in 1 .. e, Foreign(f, Text(f)[q].rec),
         \A x \in q + 1 .. e : (x - 1) % FileBlock = 0 => ~IsColon(Text(f)[x]),
         NEW a, NextIs(f, Text(f)[q].rec, a)
  PROVE  LET k == Text(f)[q].rec
             m == Text(f)[e + 1].rec - 1
         IN  m \in 0 .. Len(f) /\ Told(f)[m] = Told(f)[k] /\ NextIs(f, m, a)
<1> DEFINE N == Len(Text(f))
           k == Text(f)[q].rec
           m == Text(f)[e].rec
<1>1. N \in Nat /\ q \in 1 .. N /\ e \in 1 .. N /\ q <= e /\ e + 1 <= N /\ e + 1 \in 1 .. N
  BY TextFacts
<1>2. Text(f)[e + 1].rec = m + 1
  BY <1>1, NextChar
<1>3. /\ k \in DOMAIN f /\ m \in DOMAIN f /\ DOMAIN f = 1 .. Len(f) /\ Len(f) \in Nat
  BY <1>1, TextFacts
<1>4. k <= m /\ \A i \in k .. m : \E s \in q .. e : Text(f)[s].rec = i
  BY <1>1, RecordOrder
<1>5. ASSUME NEW i \in k + 1 .. m PROVE f[i].type \in DataTypes \cup {"other"}
  <2>0. i \in k .. m /\ i # k
    <3> HIDE DEF k, m
    <3> QED BY <1>3
  <2>1. PICK s \in q .. e : Text(f)[s].rec = i
    BY <1>4, <2>0
  <2>2. s # q
    BY <2>0, <2>1
  <2>3. q < s /\ s \in q + 1 .. e /\ s \in 1 .. N /\ q + 1 .. s \subseteq q + 1 .. e
    BY <1>1, <2>2
  <2>4. q \in DOMAIN Text(f) /\ s \in DOMAIN Text(f)
    BY <1>1, <2>3, TextFacts
  <2>5. \A x \in q + 1 .. s : (x - 1) % FileBlock = 0 => ~IsColon(Text(f)[x])
    BY <2>3
  <2>6. Foreign(f, Text(f)[q].rec) /\ Text(f)[s].rec # Text(f)[q].rec
    BY <2>0, <2>1
  <2>7. f[Text(f)[s].rec].type \in DataTypes \cup {"other"}
    BY <2>3, <2>4, <2>5, <2>6, UniversalAssumption
  <2> QED BY <2>1, <2>7
<1>6. Told(f)[k].version # 0 /\ NextIs(f, k, a)
  BY DEF Foreign
<1> HIDE DEF k, m
<1>7. k \in 0 .. Len(f) /\ m \in k .. Len(f) /\ m \in 0 .. Len(f) /\ (m + 1) - 1 = m
  BY <1>3, <1>4
<1>8. Told(f)[m] = Told(f)[k] /\ NextIs(f, m, a)
  BY <1>5, <1>6, <1>7, ToldSame
<1> QED BY <1>2, <1>7, <1>8 DEF k

LEMMA BlockTaken ==
  ASSUME NEW n \in 1 .. Len(rest), TakeBlock(n), NEW e \in Nat, file \in HexFiles,
         pc = "ready", kind = "hex", Slices(e, e), Cut(e, e), front \in {"file", "stream"}
  PROVE  LET taken == SubSeq(rest, 1, n)
         IN  /\ e + n \in Nat /\ e < e + n /\ e + n <= Len(Text(file)) /\ e < Len(Text(file))
             /\ Head(taken) = Text(file)[e + 1]
             /\ Begin(file, taken) /\ pc' = "parse" /\ blob' = taken
             /\ UNCHANGED <<front, kind, file, handed>>
             /\ Slices(e, e + n)' /\ Cut(e, e + n)'
             /\ front = "file" => e % FileBlock = 0 /\ n <= FileBlock
<1> DEFINE T == Text(file)
           N == Len(T)
           taken == SubSeq(rest, 1, n)
           q == e + n
<1>1. /\ Begin(file, taken) /\ pc' = "parse"
      /\ UNCHANGED <<front, kind, file, handed>>
      /\ rest' = SubSeq(rest, n + 1, Len(rest))
      /\ rest # <<>>
      /\ n = Len(rest) \/ (n < Len(rest) /\ n \in Lengths)
      /\ \E m \in Lengths : n <= m
  BY DEF TakeBlock, session
<1>2. e <= N /\ rest = SubSeq(T, e + 1, N) /\ T \in Seq(Chars) /\ N \in Nat
  BY TextFacts DEF Slices
<1>3. Len(rest) = N - e
  <2> HIDE DEF T
  <2>1. N <= Len(T)
    BY <1>2
  <2> QED BY <1>2, <2>1, SliceIs
<1>4. n \in 1 .. N - e
  BY <1>3
<1>5. q \in Nat /\ e < q /\ q <= N /\ e < N /\ e <= q
  <2> HIDE DEF N
  <2> QED BY <1>2, <1>4
<1>6. taken = SubSeq(T, e + 1, q) /\ rest' = SubSeq(T, q + 1, N)
  <2> HIDE DEF T
  <2>1. N <= Len(T) /\ T \in Seq(Chars) /\ N \in Nat /\ e <= N
    BY <1>2
  <2>2. /\ SubSeq(SubSeq(T, e + 1, N), 1, n) = SubSeq(T, e + 1, e + n)
        /\ SubSeq(SubSeq(T, e + 1, N), n + 1, Len(SubSeq(T, e + 1, N))) = SubSeq(T, (e + n) + 1, N)
    BY <1>4, <2>1, SliceCut
  <2> QED BY <1>1, <1>2, <2>2
<1>7. Head(taken) = T[e + 1]
  <2> HIDE DEF q, taken
  <2> QED BY <1>2, <1>5, <1>6, CharHere
<1>8. blob' = taken
  BY <1>1 DEF Begin
<1>9. Slices(e, q)'
  <2> HIDE DEF q, taken
  <2> QED BY <1>1, <1>2, <1>5, <1>6, <1>8 DEF Slices
<1>10. FileBlock \in Nat /\ FileBlock > 0
  BY ProgrammerAssumption
<1>11. ASSUME front = "file"
       PROVE  e % FileBlock = 0 /\ n <= FileBlock /\ (rest' = <<>> \/ q % FileBlock = 0)
  <2>1. e % FileBlock = 0
    BY <1>1, <1>11 DEF Cut
  <2>2. Lengths = {FileBlock}
    BY <1>11 DEF Lengths
  <2>3. n <= FileBlock
    BY <1>1, <2>2
  <2>4. CASE n = Len(rest)
    <3>1. q = N
      <4> HIDE DEF N
      <4> QED BY <1>2, <1>3, <2>4
    <3>2. rest' = <<>>
      <4> HIDE DEF T, q
      <4>1. N <= Len(T) /\ T \in Seq(Chars) /\ N \in Nat /\ N <= N
        BY <1>2
      <4>2. SubSeq(T, N + 1, N) = <<>>
        BY <4>1, SliceIs
      <4> QED BY <1>6, <3>1, <4>2
    <3> QED BY <2>1, <2>3, <3>2
  <2>5. CASE n = FileBlock
    <3>1. (e + FileBlock) % FileBlock = 0
      BY <1>10, <2>1, Multiples
    <3> QED BY <2>1, <2>3, <2>5, <3>1
  <2> QED BY <1>1, <2>2, <2>4, <2>5
<1>12. Cut(e, q)'
  <2>1. ASSUME front = "file"
        PROVE  e % FileBlock = 0 /\ e <= e /\ q <= e + FileBlock
    <3>1. e % FileBlock = 0 /\ n <= FileBlock
      BY <1>11, <2>1
    <3> QED BY <1>10, <3>1
  <2> HIDE DEF q
  <2>2. front' = front
    BY <1>1
  <2> QED BY <1>11, <2>1, <2>2 DEF Cut
<1> QED BY <1>1, <1>5, <1>7, <1>8, <1>9, <1>11, <1>12

LEMMA TakeAt ==
  ASSUME NEW p, NEW e, Hexing(p, e), NEW n \in 1 .. Len(rest), TakeBlock(n),
         pc = "ready", kind = "hex"
  PROVE  HexAt(e, e + n)' /\ ParserType' /\ handed' = handed
<1> DEFINE T == Text(file)
           taken == SubSeq(rest, 1, n)
           q == e + n
<1>1. /\ p = e /\ e \in Nat /\ file \in HexFiles /\ front \in {"file", "stream"}
      /\ ParserType /\ handed \in Seq(Pairs)
      /\ Slices(e, e) /\ Cut(e, e) /\ (Reading(e) \/ Skipping(e))
  BY DEF Hexing, HexAt, Slices
<1>2. /\ q \in Nat /\ e < q /\ q <= Len(T) /\ e < Len(T)
      /\ Head(taken) = T[e + 1]
      /\ Begin(file, taken) /\ pc' = "parse" /\ blob' = taken
      /\ UNCHANGED <<front, kind, file, handed>>
      /\ Slices(e, q)' /\ Cut(e, q)'
      /\ front = "file" => e % FileBlock = 0 /\ n <= FileBlock
  BY <1>1, BlockTaken
<1>3. e # Len(T) /\ Len(T) \in Nat
  <2> DEFINE N == Len(T)
  <2>1. N \in Nat
    BY <1>1, TextFacts
  <2>2. e < N
    BY <1>2
  <2> HIDE DEF N
  <2>3. e # N
    BY <1>1, <2>1, <2>2
  <2> QED BY <2>1, <2>3 DEF N
<1>4. Decoded = handed
  BY DEF Decoded
<1> HIDE DEF q, taken
<1>5. CASE Reading(e)
  <2>1. /\ ~hp.skip_until_aligned /\ ~hp.load_unaligned_record /\ Synced(file, hp, e)
        /\ Says(file, KnownAt(file, hp, e), hp, handed)
    BY <1>4, <1>5 DEF Reading, CountAt
  <2>2. /\ bin' = <<>> /\ hp' = [hp EXCEPT !.skip_until_aligned = FALSE]
        /\ status' = "parsing" /\ address' = address
    BY <1>2, <2>1 DEF Begin
  <2> QED BY <1>1, <1>2, <2>1, <2>2, BeginAt DEF q
<1>6. CASE Skipping(e) /\ IsColon(T[e + 1])
  <2>1. hp.skip_until_aligned /\ ~hp.load_unaligned_record /\ Says(file, hp.rec, hp, handed)
    BY <1>4, <1>6 DEF Skipping
  <2>2. /\ bin' = <<>> /\ hp' = [hp EXCEPT !.skip_until_aligned = FALSE]
        /\ status' = "parsing" /\ address' = address
    BY <1>2, <1>6, <2>1 DEF Begin
  <2>3. PICK x \in 1 .. e :
           /\ T[x].rec = hp.rec /\ Foreign(file, hp.rec)
           /\ \A y \in x + 1 .. e : (y - 1) % FileBlock = 0 => ~IsColon(T[y])
    BY <1>6 DEF Skipping
  <2> DEFINE m == T[e + 1].rec - 1
  <2>4. NextIs(file, hp.rec, hp.next)
    BY <2>1 DEF Says
  <2>5. m \in 0 .. Len(file) /\ Told(file)[m] = Told(file)[hp.rec] /\ NextIs(file, m, hp.next)
    <3>1. /\ Foreign(file, T[x].rec) /\ NextIs(file, T[x].rec, hp.next)
          /\ IsColon(Text(file)[e + 1]) /\ e < Len(Text(file))
      BY <1>2, <1>6, <2>3, <2>4
    <3>2. \A y \in x + 1 .. e : (y - 1) % FileBlock = 0 => ~IsColon(Text(file)[y])
      BY <2>3
    <3>3. m \in 0 .. Len(file) /\ Told(file)[m] = Told(file)[T[x].rec] /\ NextIs(file, m, hp.next)
      BY <1>1, <3>1, <3>2, PassedOver
    <3> QED BY <2>3, <3>3
  <2>6. Synced(file, hp, e) /\ KnownAt(file, hp, e) = m
    BY <1>3, <1>6 DEF Synced, KnownAt
  <2> HIDE DEF m
  <2>7. Says(file, m, hp, handed)
    BY <2>1, <2>5 DEF Says
  <2> QED BY <1>1, <1>2, <2>1, <2>2, <2>6, <2>7, BeginAt DEF q
<1>7. CASE Skipping(e) /\ ~IsColon(T[e + 1])
  <2>1. /\ hp.skip_until_aligned /\ ~hp.load_unaligned_record /\ Says(file, hp.rec, hp, handed)
        /\ status = "ok" /\ front = "file"
    BY <1>4, <1>7 DEF Skipping
  <2>2. /\ bin' = <<>> /\ hp' = hp /\ status' = "ok" /\ address' = hp'.next - Len(bin')
    BY <1>2, <1>7, <2>1 DEF Begin, Finish
  <2>3. PICK x \in 1 .. e :
           /\ T[x].rec = hp.rec /\ Foreign(file, hp.rec)
           /\ \A y \in x + 1 .. e : (y - 1) % FileBlock = 0 => ~IsColon(T[y])
    BY <1>7 DEF Skipping
  <2>4. ASSUME NEW y \in x + 1 .. q, (y - 1) % FileBlock = 0 PROVE ~IsColon(T[y])
    <3>1. CASE y <= e
      <4>1. y \in x + 1 .. e
        BY <1>1, <3>1
      <4> QED BY <2>3, <2>4, <4>1
    <3>2. CASE y = e + 1
      BY <1>7, <3>2
    <3>3. CASE y > e + 1
      <4>1. e % FileBlock = 0 /\ n <= FileBlock /\ FileBlock \in Nat /\ FileBlock > 0
        BY <1>2, <2>1, ProgrammerAssumption
      <4>2. \A z \in e + 1 .. (e + FileBlock) - 1 : z % FileBlock # 0
        BY <1>1, <4>1, Multiples
      <4>3. y - 1 \in e + 1 .. (e + FileBlock) - 1
        BY <1>1, <3>3, <4>1 DEF q
      <4> QED BY <2>4, <4>2, <4>3
    <3> QED BY <1>1, <3>1, <3>2, <3>3
  <2>5. x \in 1 .. q
    BY <1>1, <1>2
  <2>6. hp'.next \in Nat /\ Len(bin') = 0
    BY <1>1, <2>2 DEF ParserType, HpType
  <2>7. address' \in Nat
    BY <2>2, <2>6
  <2>8. Decoded' = handed
    <3>1. handed \o Addressed(address', <<>>) = handed
      BY <1>1, EmptyBuffer
    <3>2. pc' = "parse" /\ status' = "ok" /\ bin' = <<>> /\ handed' = handed
      BY <1>2, <2>2
    <3> QED BY <3>1, <3>2 DEF Decoded
  <2>9. Skipping(q)'
    <3>1. hp' = hp /\ status' = "ok" /\ front' = "file" /\ file' = file
      BY <1>2, <2>1, <2>2
    <3> QED BY <2>1, <2>3, <2>4, <2>5, <2>8, <3>1 DEF Skipping
  <2>10. ParserType'
    BY <1>1, <1>2, <2>2, <2>7 DEF ParserType
  <2> QED BY <1>2, <2>9, <2>10 DEF HexAt, q
<1> QED BY <1>1, <1>5, <1>6, <1>7

LEMMA StartAt ==
  ASSUME NEW f \in HexFiles, StartHex(f), ParserType, handed = <<>>, pc' = "ready"
  PROVE  HexAt(0, 0)' /\ ParserType' /\ handed' = handed /\ file' = f /\ kind' = "hex"
<1> DEFINE N == Len(Text(f))
<1>1. /\ kind' = "hex" /\ file' = f /\ rest' = Text(f) /\ hp' = ResetParser /\ handed' = handed
      /\ blob' = blob /\ bin' = bin /\ address' = address /\ status' = status
  BY DEF StartHex, Opened
<1>2. N \in Nat /\ N > 2 /\ Text(f) \in Seq(Chars) /\ Text(f)[1] = [rec |-> 1, at |-> 0]
  BY TextFacts
<1>3. Text(f) = SubSeq(Text(f), 0 + 1, N)
  <2> DEFINE T == Text(f)
  <2>1. T \in Seq(Chars)
    BY <1>2
  <2> HIDE DEF T
  <2>2. SubSeq(T, 1, Len(T)) = T
    BY <2>1, SubSeqFull
  <2>3. 0 + 1 = 1
    OBVIOUS
  <2> QED BY <2>2, <2>3 DEF T
<1>4. Slices(0, 0)'
  <2>1. 0 \in Nat /\ 0 <= 0 /\ 0 <= N
    BY <1>2
  <2> QED BY <1>1, <1>3, <2>1 DEF Slices
<1>5. Cut(0, 0)'
  <2>1. 0 % FileBlock = 0
    <3>1. FileBlock \in Nat /\ FileBlock > 0
      BY ProgrammerAssumption
    <3> QED BY <3>1
  <2> QED BY <2>1 DEF Cut
<1>6. Reading(0)'
  <2> DEFINE h == hp'
  <2>1. ~h.skip_until_aligned /\ ~h.load_unaligned_record /\ h.next = 0 /\ h.binary_version = 0
    BY <1>1 DEF ResetParser
  <2>2. IsColon(Text(f)[0 + 1]) /\ Text(f)[0 + 1].rec = 1 /\ 0 # N
    <3>1. 0 + 1 = 1
      OBVIOUS
    <3> QED BY <1>2, <3>1 DEF IsColon
  <2>3. Synced(f, h, 0) /\ KnownAt(f, h, 0) = 1 - 1
    BY <2>2 DEF Synced, KnownAt
  <2>4. CountAt(f, h, 0) = 0
    BY <2>1, <2>3 DEF CountAt
  <2>5. Told(f)[0] = [base |-> 0, version |-> 0, bytes |-> <<>>] /\ 0 \in 0 .. Len(f)
    BY TextFacts, ToldUnrolls
  <2>6. NextIs(f, 0, 0)
    BY <2>5, ReachedBase
  <2>7. Says(f, 0, h, <<>>)
    BY <2>1, <2>5, <2>6 DEF Says
  <2>8. Decoded' = <<>>
    BY <1>1 DEF Decoded
  <2> QED BY <1>1, <2>1, <2>3, <2>4, <2>7, <2>8 DEF Reading
<1>7. ParserType'
  <2>1. hp' \in HpType
    BY <1>1 DEF ResetParser, HpType
  <2> QED BY <1>1, <2>1 DEF ParserType
<1> QED BY <1>1, <1>4, <1>5, <1>6, <1>7 DEF HexAt

-----------------------------------------------------------------------------
(* What was handed over is what the file says first.                        *)
LEMMA NonePrefix ==
  ASSUME NEW s \in Seq(Pairs)
  PROVE  IsPrefix(<<>>, s) /\ <<>> \in Seq(Pairs)
<1>1. <<>> \in Seq(Pairs) /\ <<>> \o s = s
  OBVIOUS
<1> QED BY <1>1, PrefixIs

LEMMA PrefixHead ==
  ASSUME NEW s \in Seq(Pairs), NEW t \in Seq(Pairs), IsPrefix(s, t), s # <<>>
  PROVE  t # <<>> /\ t[1] = s[1]
<1> DEFINE n == Len(s)
<1>1. n \in Nat /\ n >= 1 /\ n <= Len(t) /\ Len(t) \in Nat /\ SubSeq(s, 1, n) = SubSeq(t, 1, n)
  BY DEF IsPrefix
<1>2. SubSeq(s, 1, n) = s
  BY SubSeqFull
<1>3. SubSeq(t, 1, n)[1] = t[1]
  <2>1. 1 \in 1 .. Len(t) /\ n \in 1 .. Len(t)
    BY <1>1
  <2>2. \A i \in 1 .. n : t[i] \in Pairs
    BY <1>1, ElementOfSeq
  <2>3. 1 \in Int /\ n \in Int /\ 1 \in 1 .. (n - 1) + 1 /\ (1 + 1) - 1 = 1
    BY <1>1
  <2>4. \A i \in 1 .. (n - 1) + 1 : SubSeq(t, 1, n)[i] = t[(1 + i) - 1]
    BY <2>2, <2>3, SubSeqProperties
  <2> QED BY <2>3, <2>4
<1>4. t # <<>>
  BY <1>1
<1> QED BY <1>1, <1>2, <1>3, <1>4

LEMMA SaidPrefix ==
  ASSUME NEW f \in HexFiles, NEW k \in 0 .. Len(f)
  PROVE  IsPrefix(Told(f)[k].bytes, HexBytes(f)) /\ HexBytes(f) \in Seq(Pairs)
<1>1. Len(f) \in k .. Len(f) /\ Len(f) \in 0 .. Len(f)
  BY TextFacts
<1>2. PICK u \in Seq(Pairs) : HexBytes(f) = Told(f)[k].bytes \o u
  BY <1>1, ToldGrows DEF GoesOn, HexBytes
<1>3. Told(f)[k].bytes \in Seq(Pairs)
  BY ToldIs DEF ToldType
<1>4. HexBytes(f) \in Seq(Pairs)
  BY <1>1, ToldIs DEF ToldType, HexBytes
<1> QED BY <1>2, <1>3, <1>4, PrefixIs

LEMMA DecodedPrefix ==
  ASSUME NEW p, NEW e, Hexing(p, e)
  PROVE  Decoded \in Seq(Pairs) /\ IsPrefix(Decoded, HexBytes(file))
<1>1. PICK k : Says(file, k, hp, Decoded)
  BY DEF Hexing, HexAt, Reading, Skipping
<1>2. k \in 0 .. Len(file) /\ Told(file)[k].bytes = Decoded
  BY <1>1 DEF Says
<1>3. file \in HexFiles
  BY DEF Hexing
<1>4. Told(file)[k].bytes \in Seq(Pairs)
  BY <1>2, <1>3, ToldIs DEF ToldType
<1> QED BY <1>2, <1>3, <1>4, SaidPrefix

(* At the end of the file it is all that the file says: the last block does *)
(* not end while the parser is passing records over.                        *)
LEMMA AllHandedOver ==
  ASSUME NEW p, NEW e, Hexing(p, e), pc = "ready", rest = <<>>
  PROVE  handed = HexBytes(file)
<1> DEFINE T == Text(file)
           N == Len(T)
<1>1. /\ p = e /\ e \in Nat /\ e <= N /\ rest = SubSeq(T, e + 1, N) /\ file \in HexFiles
      /\ T \in Seq(Chars) /\ N \in Nat /\ Len(file) \in Nat /\ Len(file) > 0
      /\ DOMAIN file = 1 .. Len(file) /\ N > 2
  BY TextFacts DEF Hexing, HexAt, Slices
<1>2. e = N
  <2> HIDE DEF T
  <2>1. N <= Len(T)
    BY <1>1
  <2>2. SubSeq(T, e + 1, N) = <<>> <=> e = N
    BY <1>1, <2>1, SliceEmpty
  <2> QED BY <1>1, <2>2
<1>3. Decoded = handed
  BY DEF Decoded
<1>4. CASE Reading(e)
  <2>1. ~hp.load_unaligned_record /\ KnownAt(file, hp, e) = Len(file)
    BY <1>2, <1>4 DEF Reading, KnownAt
  <2>2. Says(file, Len(file), hp, handed)
    BY <1>3, <1>4, <2>1 DEF Reading, CountAt
  <2> QED BY <2>2 DEF Says, HexBytes
<1>5. CASE Skipping(e)
  <2>1. PICK q \in 1 .. N :
           /\ T[q].rec = hp.rec /\ Foreign(file, hp.rec)
           /\ \A x \in q + 1 .. N : (x - 1) % FileBlock = 0 => ~IsColon(T[x])
    BY <1>2, <1>5 DEF Skipping
  <2>2. T[N] = [rec |-> Len(file), at |-> LastAt(file, Len(file))]
    BY <1>1, TextFacts
  <2>3. T[N].rec = Len(file) /\ Len(file) \in DOMAIN file
    BY <1>1, <2>2
  <2>4. file[Len(file)].type = "eof"
    BY <1>1, <2>3, HexFilesAssumption
  <2>5. file[T[q].rec].type \in DataTypes
    BY <2>1 DEF Foreign
  <2>6. T[q].rec # T[N].rec /\ q # N
    BY <2>3, <2>4, <2>5 DEF DataTypes
  <2>7. q \in DOMAIN T /\ N \in DOMAIN T /\ q < N
    <3>1. DOMAIN T = 1 .. N /\ N \in Nat /\ N > 0
      BY <1>1, TextFacts
    <3>2. q \in 1 .. N /\ q # N
      BY <2>6
    <3> HIDE DEF T, N
    <3> QED BY <3>1, <3>2
  <2>8. Foreign(file, T[q].rec) /\ \A x \in q + 1 .. N : (x - 1) % FileBlock = 0 => ~IsColon(T[x])
    BY <2>1
  <2>9. file[T[N].rec].type \in DataTypes \cup {"other"}
    BY <1>1, <2>6, <2>7, <2>8, UniversalAssumption
  <2> QED BY <2>3, <2>4, <2>9 DEF DataTypes
<1> QED BY <1>1, <1>4, <1>5 DEF Hexing, HexAt

(* A binary file.                                                           *)
LEMMA BinIs ==
  ASSUME NEW f \in BinFiles
  PROVE  f.addr \in Nat /\ f.data \in Seq(Bytes) /\ Addressed(f.addr, f.data) \in Seq(Pairs)
<1>1. f.addr \in Nat /\ f.data \in Seq(Bytes)
  BY AddressesAssumption
<1> QED BY <1>1, AddressedIs

LEMMA BinPrefix ==
  ASSUME NEW d \in Seq(Bytes), NEW a \in Nat, NEW n \in 0 .. Len(d)
  PROVE  /\ Addressed(a, SubSeq(d, 1, n)) \in Seq(Pairs)
         /\ IsPrefix(Addressed(a, SubSeq(d, 1, n)), Addressed(a, d))
<1> DEFINE x == SubSeq(d, 1, n)
           y == SubSeq(d, n + 1, Len(d))
<1>1. n \in Nat /\ n <= Len(d) /\ Len(d) \in Nat /\ 0 + 1 = 1
  OBVIOUS
<1>2. x \in Seq(Bytes) /\ Len(x) = n
  <2>1. 0 \in Nat /\ 0 <= n /\ n - 0 = n
    BY <1>1
  <2>2. SubSeq(d, 0 + 1, n) \in Seq(Bytes) /\ Len(SubSeq(d, 0 + 1, n)) = n - 0
    BY <1>1, <2>1, SliceIs
  <2> QED BY <2>1, <2>2
<1>3. y \in Seq(Bytes)
  <2>1. Len(d) <= Len(d)
    BY <1>1
  <2> QED BY <1>1, <2>1, SliceIs
<1>4. d = x \o y
  <2>1. 1 \in 1 .. Len(d) + 1 /\ n \in 1 - 1 .. Len(d) /\ Len(d) \in n .. Len(d)
    BY <1>1
  <2>2. x \o y = SubSeq(d, 1, Len(d))
    BY <2>1, ConcatAdjacentSubSeq
  <2> QED BY <2>2, SubSeqFull
<1> HIDE DEF x, y
<1>5. Addressed(a, d) = Addressed(a, x) \o Addressed(a + n, y)
  BY <1>2, <1>3, <1>4, AddressedJoins
<1>6. Addressed(a, x) \in Seq(Pairs) /\ Addressed(a + n, y) \in Seq(Pairs)
  <2>1. a + n \in Nat
    BY <1>1
  <2> QED BY <1>2, <1>3, <2>1, AddressedIs
<1> QED BY <1>5, <1>6, PrefixIs DEF x

LEMMA BinSlice ==
  ASSUME NEW d \in Seq(Bytes), NEW m \in Nat, NEW q \in Nat, m < q, q <= Len(d)
  PROVE  SubSeq(d, m + 1, q) \in Seq(Bytes) /\ SubSeq(d, m + 1, q) # <<>>
<1> DEFINE y == SubSeq(d, m + 1, q)
<1>1. m <= q
  OBVIOUS
<1>2. y \in Seq(Bytes) /\ Len(y) = q - m
  BY <1>1, SliceIs
<1> HIDE DEF y
<1>3. Len(y) # 0
  BY <1>2
<1>4. y # <<>>
  BY <1>3
<1> QED BY <1>2, <1>4 DEF y

LEMMA BinTake ==
  ASSUME NEW d \in Seq(Bytes), NEW a \in Nat, NEW m \in 0 .. Len(d),
         rest = SubSeq(d, m + 1, Len(d)), NEW n \in 1 .. Len(rest)
  PROVE  /\ SubSeq(rest, 1, n) \in Seq(Bytes) /\ SubSeq(rest, 1, n) # <<>>
         /\ m + n \in 0 .. Len(d) /\ SubSeq(rest, n + 1, Len(rest)) = SubSeq(d, (m + n) + 1, Len(d))
         /\ Addressed(a, SubSeq(d, 1, m)) \o Addressed(a + m, SubSeq(rest, 1, n))
              = Addressed(a, SubSeq(d, 1, m + n))
         /\ a + m \in Nat /\ (a + m) + n = a + (m + n)
<1> DEFINE N == Len(d)
           x == SubSeq(d, 1, m)
           q == m + n
           y == SubSeq(d, m + 1, q)
<1>1. m \in Nat /\ m <= N /\ N \in Nat /\ N <= N /\ 0 + 1 = 1
  OBVIOUS
<1>2. Len(rest) = N - m
  BY <1>1, SliceIs
<1>3. n \in 1 .. N - m /\ n \in Nat
  BY <1>2
<1>4. q \in Nat /\ m < q /\ q <= N /\ m # q
  BY <1>1, <1>3
<1>5. SubSeq(rest, 1, n) = y /\ SubSeq(rest, n + 1, Len(rest)) = SubSeq(d, q + 1, N)
  BY <1>1, <1>3, SliceCut
<1>6. y \in Seq(Bytes) /\ y # <<>>
  <2> HIDE DEF q
  <2> QED BY <1>1, <1>4, BinSlice
<1>7. x \in Seq(Bytes) /\ Len(x) = m
  <2>1. 0 \in Nat /\ 0 <= m /\ m - 0 = m
    BY <1>1
  <2>2. SubSeq(d, 0 + 1, m) \in Seq(Bytes) /\ Len(SubSeq(d, 0 + 1, m)) = m - 0
    BY <1>1, <2>1, SliceIs
  <2> QED BY <2>1, <2>2
<1>8. x \o y = SubSeq(d, 1, q)
  <2> HIDE DEF q
  <2>1. 1 \in 1 .. Len(d) + 1 /\ m \in 1 - 1 .. Len(d) /\ q \in m .. Len(d)
    BY <1>1, <1>4
  <2> QED BY <2>1, ConcatAdjacentSubSeq
<1> HIDE DEF x, y
<1>9. Addressed(a, x \o y) = Addressed(a, x) \o Addressed(a + m, y)
  BY <1>6, <1>7, AddressedJoins
<1>10. a + m \in Nat /\ (a + m) + n = a + (m + n) /\ q \in 0 .. N
  BY <1>1, <1>3, <1>4
<1> QED BY <1>4, <1>5, <1>6, <1>8, <1>9, <1>10 DEF x

LEMMA BinRest ==
  ASSUME NEW d \in Seq(Bytes), NEW m \in 0 .. Len(d), rest = SubSeq(d, m + 1, Len(d)),
         NEW n \in 1 .. Len(rest)
  PROVE  SubSeq(rest, n + 1, Len(rest)) = SubSeq(d, (m + n) + 1, Len(d))
BY 0 \in Nat, BinTake

(* What the session's file says.                                            *)
LEMMA FileBytesIs == FileInv => FileBytes \in Seq(Pairs)
<1> SUFFICES ASSUME FileInv PROVE FileBytes \in Seq(Pairs)
  OBVIOUS
<1>1. CASE kind = "hex" /\ file \in HexFiles
  <2>1. Len(file) \in 0 .. Len(file)
    BY <1>1, TextFacts
  <2>2. HexBytes(file) \in Seq(Pairs)
    BY <1>1, <2>1, SaidPrefix
  <2> QED BY <1>1, <2>2 DEF FileBytes
<1>2. CASE kind = "hex" /\ file = <<>>
  <2>1. Len(file) = 0
    BY <1>2
  <2>2. Told(file)[0] = [base |-> 0, version |-> 0, bytes |-> <<>>]
    BY <2>1, ToldUnrolls
  <2>3. FileBytes = <<>>
    BY <1>2, <2>1, <2>2 DEF FileBytes, HexBytes
  <2> QED BY <2>3
<1>3. CASE kind = "bin" /\ file \in BinFiles
  BY <1>3, BinIs DEF FileBytes
<1> QED BY <1>1, <1>2, <1>3 DEF FileInv

-----------------------------------------------------------------------------
(***************************************************************************)
(* The program.                                                            *)
(***************************************************************************)
ProgramInv ==
  AccessorInv /\ SessionInv /\ FileInv /\ ParserType /\ HexInv /\ BinInv /\ HandedInv

LEMMA ProgramBegins == Init => ProgramInv
<1> SUFFICES ASSUME Init PROVE ProgramInv
  OBVIOUS
<1>1. /\ front = "file" /\ kind = "hex" /\ file = <<>> /\ pc = "idle" /\ result = None
      /\ handed = <<>> /\ hp = ResetParser /\ bin = <<>> /\ address = 0 /\ status = "ok"
      /\ flash_state = "CLOSED" /\ at = None
  BY DEF Init, InitialAccessor
<1>2. AccessorInv
  BY AccessorBegins
<1>3. SessionInv
  <2>1. result # TRUE
    BY <1>1, ProgrammerAssumption
  <2> QED BY <1>1, <2>1 DEF SessionInv
<1>4. FileInv
  BY <1>1 DEF FileInv, Active
<1>5. ParserType
  <2>1. hp \in HpType
    BY <1>1 DEF ResetParser, HpType
  <2> QED BY <1>1, <2>1 DEF ParserType
<1>6. HexInv /\ BinInv
  BY <1>1 DEF HexInv, BinInv, Active
<1>7. HandedInv
  <2>1. IsPrefix(<<>>, FileBytes) /\ <<>> \in Seq(Pairs)
    BY <1>4, FileBytesIs, NonePrefix
  <2>2. result # TRUE
    BY <1>1, ProgrammerAssumption
  <2> QED BY <1>1, <2>1, <2>2, Zenon DEF HandedInv
<1> QED BY <1>2, <1>3, <1>4, <1>5, <1>6, <1>7 DEF ProgramInv

LEMMA ConnectInv ==
  ASSUME ProgramInv, Connect
  PROVE  ProgramInv'
<1>1. /\ pc = "idle" /\ pc' = "connected" /\ result' = None /\ handed' = <<>>
      /\ UNCHANGED <<front, kind, file, hp, blob, bin, address, status, flash_state, at>>
  BY DEF Connect, session, parserVars
<1>2. flash_state = "CLOSED" /\ (at # None => pc = "write")
  BY <1>1 DEF ProgramInv, SessionInv
<1>3. AccessorInv'
  BY <1>2, ConnectKeeps DEF ProgramInv
<1>4. SessionInv'
  <2>1. result' # TRUE
    BY <1>1, ProgrammerAssumption
  <2> QED BY <1>1, <1>2, <2>1 DEF SessionInv
<1>5. FileInv'
  BY <1>1 DEF ProgramInv, FileInv, Active
<1>6. ParserType'
  BY <1>1 DEF ProgramInv, ParserType
<1>7. HexInv' /\ BinInv'
  BY <1>1 DEF HexInv, BinInv, Active
<1>8. HandedInv'
  <2>1. FileBytes' = FileBytes
    BY <1>1 DEF FileBytes
  <2>2. IsPrefix(<<>>, FileBytes) /\ <<>> \in Seq(Pairs)
    BY FileBytesIs, NonePrefix DEF ProgramInv
  <2>3. result' # TRUE
    BY <1>1, ProgrammerAssumption
  <2>4. handed' = <<>> /\ IsPrefix(<<>>, FileBytes')
    BY <1>1, <2>1, <2>2
  <2> QED BY <2>2, <2>3, <2>4, Zenon DEF HandedInv
<1> QED BY <1>3, <1>4, <1>5, <1>6, <1>7, <1>8 DEF ProgramInv

(* The accessor is opened.                                                  *)
LEMMA OpenedInv ==
  ASSUME ProgramInv, pc = "connected", Opened
  PROVE  /\ AccessorInv' /\ SessionInv' /\ handed' = <<>> /\ result' # TRUE
         /\ pc' \in {"ready", "idle"}
<1>1. /\ Open /\ handed' = handed
      /\ \/ err' = None /\ pc' = "ready" /\ result' = None
         \/ err' # None /\ pc' = "idle" /\ result' = FALSE
  BY DEF Opened
<1>2. flash_state = "CLOSED" /\ handed = <<>> /\ AccessorInv
  BY DEF ProgramInv, SessionInv, HandedInv
<1>3. /\ AccessorInv' /\ at' = None
      /\ err' = None => flash_state' = "OPEN"
      /\ err' # None => flash_state' = "CLOSED"
  BY <1>1, <1>2, OpenKeeps
<1>4. result' # TRUE /\ pc' \in {"ready", "idle"}
  BY <1>1, ProgrammerAssumption
<1>5. SessionInv'
  BY <1>1, <1>3, <1>4 DEF SessionInv
<1> QED BY <1>1, <1>2, <1>3, <1>4, <1>5

LEMMA StartHexInv ==
  ASSUME ProgramInv, NEW f \in HexFiles, StartHex(f), front' \in {"file", "stream"},
         front' = "stream" => f \notin Universal
  PROVE  ProgramInv'
<1>1. /\ pc = "connected" /\ kind' = "hex" /\ file' = f /\ hp' = ResetParser /\ Opened
      /\ UNCHANGED <<blob, bin, address, status>>
  BY DEF StartHex
<1>2. /\ AccessorInv' /\ SessionInv' /\ handed' = <<>> /\ result' # TRUE
      /\ pc' \in {"ready", "idle"}
  BY <1>1, OpenedInv
<1>3. FileInv'
  BY <1>1, <1>2 DEF FileInv, Active
<1>4. ParserType'
  <2>1. hp' \in HpType
    BY <1>1 DEF ResetParser, HpType
  <2> QED BY <1>1, <1>2, <2>1 DEF ProgramInv, ParserType
<1>5. HexInv'
  <2>1. CASE pc' = "ready"
    <3>1. handed = <<>>
      BY <1>1 DEF ProgramInv, HandedInv
    <3>2. HexAt(0, 0)'
      BY <2>1, <3>1, StartAt DEF ProgramInv
    <3>3. 0 \in Nat
      OBVIOUS
    <3> QED BY <3>2, <3>3 DEF HexInv
  <2>2. CASE pc' = "idle"
    BY <2>2 DEF HexInv, Active
  <2> QED BY <1>2, <2>1, <2>2
<1>6. BinInv'
  BY <1>1 DEF BinInv
<1>7. HandedInv'
  <2>1. IsPrefix(<<>>, FileBytes') /\ <<>> \in Seq(Pairs)
    <3>1. FileBytes' = HexBytes(f)
      BY <1>1 DEF FileBytes
    <3>2. Len(f) \in 0 .. Len(f)
      BY TextFacts
    <3>3. HexBytes(f) \in Seq(Pairs)
      BY <3>2, SaidPrefix
    <3> QED BY <3>1, <3>3, NonePrefix
  <2>2. handed' = <<>> /\ result' # TRUE /\ pc' # "connected"
    BY <1>2
  <2> QED BY <2>1, <2>2, Zenon DEF HandedInv
<1> QED BY <1>2, <1>3, <1>4, <1>5, <1>6, <1>7 DEF ProgramInv

LEMMA StartBinInv ==
  ASSUME ProgramInv, NEW f \in BinFiles, StartBin(f), front' \in {"file", "stream"}
  PROVE  ProgramInv'
<1>1. /\ pc = "connected" /\ kind' = "bin" /\ file' = f /\ rest' = f.data
      /\ \/ /\ f.addr = 0
            /\ result' = FALSE /\ pc' = "idle"
            /\ UNCHANGED <<addr, handed, accessorVars>>
         \/ /\ f.addr # 0
            /\ addr' = f.addr
            /\ Opened
      /\ UNCHANGED <<hp, blob, bin, address, status>>
  BY DEF StartBin, parserVars
<1>2. f.addr \in Nat /\ f.data \in Seq(Bytes) /\ Addressed(f.addr, f.data) \in Seq(Pairs)
  BY BinIs
<1>3. /\ AccessorInv' /\ SessionInv' /\ handed' = <<>> /\ result' # TRUE
      /\ pc' \in {"ready", "idle"} /\ (pc' = "ready" => addr' = f.addr)
  <2>1. CASE f.addr = 0 /\ result' = FALSE /\ pc' = "idle" /\ UNCHANGED <<addr, handed, accessorVars>>
    <3>1. AccessorInv'
      BY <2>1 DEF ProgramInv, AccessorInv, AccessorType, SectorSet, Positions, LastInside, AtBlock,
                  Behind, BehindSector, BlockEnd, SectorEnd, accessorVars, block, sector, page
    <3>2. flash_state' = "CLOSED" /\ at' = None
      BY <1>1, <2>1 DEF ProgramInv, SessionInv, accessorVars
    <3>3. SessionInv'
      BY <2>1, <3>2 DEF SessionInv
    <3>4. handed' = <<>>
      BY <1>1, <2>1 DEF ProgramInv, HandedInv
    <3> QED BY <2>1, <3>1, <3>3, <3>4
  <2>2. CASE addr' = f.addr /\ Opened
    BY <1>1, <2>2, OpenedInv
  <2> QED BY <1>1, <2>1, <2>2
<1>4. FileInv'
  BY <1>1 DEF FileInv
<1>5. ParserType'
  BY <1>1, <1>3 DEF ProgramInv, ParserType
<1>6. HexInv'
  BY <1>1 DEF HexInv
<1>7. BinInv'
  <2>1. CASE pc' = "ready"
    <3> DEFINE d == f.data
    <3>1. SubSeq(d, 0 + 1, Len(d)) = d /\ SubSeq(d, 1, 0) = <<>> /\ 0 \in 0 .. Len(d)
      <4>1. d \in Seq(Bytes) /\ 0 + 1 = 1
        BY <1>2
      <4> HIDE DEF d
      <4>2. SubSeq(d, 1, 0) = <<>>
        BY SubSeqEmpty
      <4> QED BY <4>1, <4>2, SubSeqFull
    <3>2. f.addr + 0 = f.addr
      BY <1>2
    <3>3. Addressed(f.addr, SubSeq(d, 1, 0)) = <<>>
      BY <3>1, AddressedNone
    <3>4. rest' = SubSeq(d, 0 + 1, Len(d)) /\ addr' = f.addr + 0
          /\ handed' = Addressed(f.addr, SubSeq(d, 1, 0))
      BY <1>1, <1>3, <2>1, <3>1, <3>2, <3>3
    <3> QED BY <1>1, <2>1, <3>1, <3>4 DEF BinInv
  <2>2. CASE pc' = "idle"
    BY <2>2 DEF BinInv, Active
  <2> QED BY <1>3, <2>1, <2>2
<1>8. HandedInv'
  <2>1. FileBytes' = Addressed(f.addr, f.data)
    BY <1>1 DEF FileBytes
  <2>2. IsPrefix(<<>>, FileBytes') /\ <<>> \in Seq(Pairs)
    BY <1>2, <2>1, NonePrefix
  <2>3. handed' = <<>> /\ result' # TRUE /\ pc' # "connected"
    BY <1>3
  <2> QED BY <2>2, <2>3, Zenon DEF HandedInv
<1> QED BY <1>3, <1>4, <1>5, <1>6, <1>7, <1>8 DEF ProgramInv

(* A session goes on.                                                       *)
LEMMA GoesOnInv ==
  ASSUME ProgramInv, Active, UNCHANGED session, AccessorInv', SessionInv', ParserType',
         HexInv', BinInv', handed' \in Seq(Pairs), IsPrefix(handed', FileBytes),
         result' = TRUE => handed' = FileBytes, pc' # "connected"
  PROVE  ProgramInv'
<1>1. front' = front /\ kind' = kind /\ file' = file
  BY DEF session
<1>2. FileInv'
  BY <1>1 DEF ProgramInv, FileInv
<1>3. HandedInv'
  <2>1. FileBytes' = FileBytes
    BY <1>1 DEF FileBytes
  <2>2. IsPrefix(handed', FileBytes')
    BY <2>1
  <2> QED BY <2>1, <2>2, Zenon DEF HandedInv
<1> QED BY <1>2, <1>3 DEF ProgramInv

LEMMA Hexed ==
  ASSUME ProgramInv, Active, kind = "hex"
  PROVE  \E p, e \in Nat : Hexing(p, e)
<1>1. PICK p \in Nat, e \in Nat : HexAt(p, e)
  BY DEF ProgramInv, HexInv
<1>2. /\ file \in HexFiles /\ front \in {"file", "stream"} /\ (front = "stream" => file \notin Universal)
      /\ ParserType /\ handed \in Seq(Pairs)
  BY DEF ProgramInv, FileInv, HandedInv
<1>3. Hexing(p, e)
  BY <1>1, <1>2 DEF Hexing
<1> QED BY <1>3

LEMMA Kinds ==
  ASSUME ProgramInv
  PROVE  /\ kind \in {"hex", "bin"}
         /\ kind = "hex" => FileBytes = HexBytes(file)
         /\ kind = "bin" => file \in BinFiles /\ FileBytes = Addressed(file.addr, file.data)
         /\ pc = "parse" => kind = "hex"
         /\ handed \in Seq(Pairs) /\ IsPrefix(handed, FileBytes)
         /\ result = TRUE => handed = FileBytes
<1>1. kind \in {"hex", "bin"} /\ (kind = "bin" => file \in BinFiles)
  BY DEF ProgramInv, FileInv
<1>2. pc = "parse" => kind = "hex"
  BY <1>1 DEF ProgramInv, BinInv, Active
<1>3. handed \in Seq(Pairs) /\ IsPrefix(handed, FileBytes) /\ (result = TRUE => handed = FileBytes)
  BY Zenon DEF ProgramInv, HandedInv
<1>4. /\ kind = "hex" => FileBytes = HexBytes(file)
      /\ kind = "bin" => FileBytes = Addressed(file.addr, file.data)
  BY <1>1 DEF FileBytes
<1> QED BY <1>1, <1>2, <1>3, <1>4

(* The accessor is left alone.                                              *)
LEMMA AccessorSame ==
  ASSUME AccessorInv, UNCHANGED accessorVars
  PROVE  AccessorInv' /\ flash_state' = flash_state /\ at' = at /\ err' = err
BY DEF AccessorInv, AccessorType, SectorSet, Positions, LastInside, AtBlock,
       Behind, BehindSector, BlockEnd, SectorEnd, accessorVars, block, sector, page

LEMMA WriteStates ==
  ASSUME WriteStep
  PROVE  flash_state' \in {flash_state, "ERROR"} /\ at # None
<1>1. ASSUME NEW o, NEW then, Proceed(o, then) PROVE flash_state' \in {flash_state, "ERROR"}
  BY <1>1 DEF Proceed
<1>2. ASSUME NEW then, SetupSector(then) PROVE flash_state' \in {flash_state, "ERROR"}
  <2>1. \E o : Proceed(o, then)
    BY <1>2, Zenon DEF SetupSector
  <2> QED BY <1>1, <2>1
<1>3. ASSUME NEW then, Flush(then) PROVE flash_state' \in {flash_state, "ERROR"}
  <2>1. \E o : Proceed(o, then)
    BY <1>3, Zenon DEF Flush
  <2> QED BY <1>1, <2>1
<1>4. ASSUME NEW then, Skip(then) PROVE flash_state' \in {flash_state, "ERROR"}
  BY <1>4 DEF Skip
<1>5. /\ at \in Statements
      /\ \/ \E then : SetupSector(then) \/ Flush(then) \/ Skip(then)
         \/ flash_state' = flash_state
  <2>1. CASE WriteFirst
    BY <2>1 DEF WriteFirst, Statements
  <2>2. CASE WriteBlock
    BY <2>2 DEF WriteBlock, Statements
  <2>3. CASE WriteSector
    BY <2>3 DEF WriteSector, Statements
  <2>4. CASE WriteFlush
    BY <2>4 DEF WriteFlush, Statements
  <2>5. CASE WriteEnd
    BY <2>5 DEF WriteEnd, Statements
  <2>6. CASE WriteChange
    BY <2>6 DEF WriteChange, Statements
  <2>7. CASE WriteCopy
    BY <2>7 DEF WriteCopy, Statements
  <2>8. CASE WriteBeyond
    BY <2>8 DEF WriteBeyond, Statements
  <2> QED BY <2>1, <2>2, <2>3, <2>4, <2>5, <2>6, <2>7, <2>8 DEF WriteStep
<1> QED BY <1>2, <1>3, <1>4, <1>5, NoStatement

LEMMA TakeHexInv ==
  ASSUME ProgramInv, NEW n \in 1 .. Len(rest), TakeBlock(n), kind = "hex"
  PROVE  ProgramInv'
<1>1. /\ pc = "ready" /\ pc' = "parse" /\ UNCHANGED <<accessorVars, session, result>>
  BY DEF TakeBlock
<1>2. Active /\ Active' /\ kind' = "hex"
  BY <1>1 DEF Active, session
<1>3. PICK p \in Nat, e \in Nat : Hexing(p, e)
  BY <1>2, Hexed
<1>4. HexAt(e, e + n)' /\ ParserType' /\ handed' = handed
  BY <1>1, <1>3, TakeAt
<1>5. HexInv' /\ BinInv'
  <2>1. e + n \in Nat
    BY <1>3
  <2> QED BY <1>2, <1>3, <1>4, <2>1 DEF HexInv, BinInv
<1>6. AccessorInv' /\ flash_state' = flash_state /\ at' = at
  BY <1>1, AccessorSame DEF ProgramInv
<1>7. SessionInv'
  BY <1>1, <1>6 DEF ProgramInv, SessionInv
<1>8. handed' \in Seq(Pairs) /\ IsPrefix(handed', FileBytes) /\ (result' = TRUE => handed' = FileBytes)
  BY <1>1, <1>4, Kinds, Zenon
<1>9. pc' # "connected" /\ UNCHANGED session
  BY <1>1
<1> QED BY <1>2, <1>4, <1>5, <1>6, <1>7, <1>8, <1>9, GoesOnInv

LEMMA TakeBinInv ==
  ASSUME ProgramInv, NEW n \in 1 .. Len(rest), TakeBlock(n), kind = "bin"
  PROVE  ProgramInv'
<1> DEFINE d == file.data
           a == file.addr
           taken == SubSeq(rest, 1, n)
<1>1. /\ pc = "ready" /\ pc' = "write" /\ Write(addr, taken)
      /\ rest' = SubSeq(rest, n + 1, Len(rest))
      /\ handed' = handed \o Addressed(addr, taken) /\ addr' = addr + n
      /\ UNCHANGED <<session, result, hp, blob, bin, address, status>>
  BY DEF TakeBlock, parserVars
<1>2. Active /\ Active' /\ kind' = "bin" /\ file' = file
  BY <1>1 DEF Active, session
<1>3. file \in BinFiles /\ FileBytes = Addressed(a, d)
  BY Kinds
<1>4. a \in Nat /\ d \in Seq(Bytes)
  BY <1>3, BinIs
<1>5. PICK m \in 0 .. Len(d) :
         /\ rest = SubSeq(d, m + 1, Len(d)) /\ addr = a + m
         /\ handed = Addressed(a, SubSeq(d, 1, m))
  BY <1>2 DEF ProgramInv, BinInv
<1>6. /\ taken \in Seq(Bytes) /\ taken # <<>>
      /\ m + n \in 0 .. Len(d) /\ rest' = SubSeq(d, (m + n) + 1, Len(d))
      /\ handed' = Addressed(a, SubSeq(d, 1, m + n))
      /\ addr \in Nat /\ addr' = a + (m + n)
  <2> HIDE DEF a, d
  <2>1. /\ taken \in Seq(Bytes) /\ taken # <<>>
        /\ m + n \in 0 .. Len(d)
        /\ SubSeq(rest, n + 1, Len(rest)) = SubSeq(d, (m + n) + 1, Len(d))
        /\ Addressed(a, SubSeq(d, 1, m)) \o Addressed(a + m, taken) = Addressed(a, SubSeq(d, 1, m + n))
        /\ a + m \in Nat /\ (a + m) + n = a + (m + n)
    <3>1. /\ d \in Seq(Bytes) /\ a \in Nat /\ m \in 0 .. Len(d)
          /\ rest = SubSeq(d, m + 1, Len(d)) /\ n \in 1 .. Len(rest)
      BY <1>4, <1>5
    <3>2. taken \in Seq(Bytes) /\ taken # <<>>
      BY <3>1, BinTake, Zenon
    <3>3. m + n \in 0 .. Len(d)
      BY <3>1, BinTake, Zenon
    <3>4. SubSeq(rest, n + 1, Len(rest)) = SubSeq(d, (m + n) + 1, Len(d))
      BY <3>1, BinRest
    <3>5. Addressed(a, SubSeq(d, 1, m)) \o Addressed(a + m, taken) = Addressed(a, SubSeq(d, 1, m + n))
      BY <3>1, BinTake, Zenon
    <3>6. a + m \in Nat /\ (a + m) + n = a + (m + n)
      BY <3>1, BinTake, Zenon
    <3> QED BY <3>2, <3>3, <3>4, <3>5, <3>6
  <2> HIDE DEF taken
  <2> QED BY <1>1, <1>5, <2>1
<1> HIDE DEF taken
<1>7. BinInv'
  <2> DEFINE q == m + n
  <2>1. /\ q \in 0 .. Len(d) /\ rest' = SubSeq(d, q + 1, Len(d))
        /\ handed' = Addressed(a, SubSeq(d, 1, q)) /\ addr' = a + q
    BY <1>6
  <2> HIDE DEF q
  <2>2. pc' # "parse"
    BY <1>1
  <2> QED BY <1>2, <2>1, <2>2 DEF BinInv
<1>8. flash_state = "OPEN" /\ AccessorInv
  BY <1>1 DEF ProgramInv, SessionInv
<1>9. AccessorInv' /\ flash_state' = flash_state
  BY <1>1, <1>6, <1>8, BeginKeeps
<1>10. SessionInv'
  BY <1>1, <1>8, <1>9 DEF ProgramInv, SessionInv
<1>11. ParserType'
  BY <1>1 DEF ProgramInv, ParserType
<1>12. HexInv'
  BY <1>2 DEF HexInv
<1>13. handed' \in Seq(Pairs) /\ IsPrefix(handed', FileBytes)
  <2> HIDE DEF a, d
  <2> QED BY <1>3, <1>4, <1>6, BinPrefix
<1>14. result' # TRUE
  <2>1. result # TRUE
    BY <1>1 DEF ProgramInv, SessionInv
  <2> QED BY <1>1, <2>1
<1> QED BY <1>1, <1>2, <1>7, <1>9, <1>10, <1>11, <1>12, <1>13, <1>14, GoesOnInv

LEMMA ParseInv ==
  ASSUME ProgramInv, ParseStep
  PROVE  ProgramInv'
<1>1. /\ pc = "parse" /\ status = "parsing"
      /\ UNCHANGED <<accessorVars, session, result, handed, pc, rest, addr>>
  <2>1. status = "parsing"
    BY DEF ParseStep, Parse, BlobEnd, LineEnd, Colon, LeaveLine, DigitInside, Digit, DigitNext,
           BadChecksum, Metadata, ForeignData, Data, UnalignedData, EndOfFile, UpperAddress, Complete
  <2> QED BY <2>1 DEF ParseStep
<1>2. Active /\ Active' /\ kind = "hex" /\ kind' = "hex"
  BY <1>1, Kinds DEF Active, session
<1>3. PICK p \in Nat, e \in Nat : Hexing(p, e)
  BY <1>2, Hexed
<1>4. Parsing(p, e)
  BY <1>1, <1>3 DEF Hexing, HexAt, Skipping, Parsing
<1>5. ParserType' /\ \E q \in Nat : HexAt(q, e)'
  BY <1>4, ParseKeeps
<1>6. HexInv' /\ BinInv'
  BY <1>2, <1>3, <1>5 DEF HexInv, BinInv
<1>7. AccessorInv' /\ flash_state' = flash_state /\ at' = at
  BY <1>1, AccessorSame DEF ProgramInv
<1>8. SessionInv'
  BY <1>1, <1>7 DEF ProgramInv, SessionInv
<1>9. handed' \in Seq(Pairs) /\ IsPrefix(handed', FileBytes) /\ (result' = TRUE => handed' = FileBytes)
  BY <1>1, Kinds, Zenon
<1>10. pc' # "connected" /\ UNCHANGED session
  BY <1>1
<1> QED BY <1>2, <1>5, <1>6, <1>7, <1>8, <1>9, <1>10, GoesOnInv

LEMMA LeavesBeyond ==
  ASSUME NEW p, NEW e, Parsing(p, e), LeaveLine(file)
  PROVE  /\ status' = "beyond" /\ hp' = hp
         /\ \/ Len(file[hp.rec].data) > LineData
            \/ Len(file[hp.rec].data) = LineData /\ file[hp.rec].type \in Extended
<1> DEFINE c == Text(file)[p + 1]
           n == LineBytes(file[hp.rec])
           l == Len(file[hp.rec].data)
<1>1. /\ status' = "beyond" /\ hp' = hp
      /\ blob # <<>> /\ ~IsColon(Head(blob)) /\ ~IsLineEnd(file, Head(blob))
      /\ hp.low_nibble /\ hp.idx >= LineData + 5
  BY DEF LeaveLine, DigitNext, OffLine, LineSize
<1>2. p < Len(Text(file)) /\ Head(blob) = c
  BY <1>1, Moves
<1>3. /\ hp.rec = c.rec /\ c.rec \in DOMAIN file /\ c.at <= 2 * n /\ n \in Nat
      /\ ~hp.record_processed => c.at = 2 * hp.idx + 2
      /\ hp.record_processed => hp.idx = n /\ file[hp.rec].type \in Extended
  <2>1. /\ file \in HexFiles /\ p \in Nat /\ p < Len(Text(file)) /\ hp \in HpType
        /\ Synced(file, hp, p) /\ ~IsColon(c) /\ ~IsLineEnd(file, c)
    BY <1>1, <1>2, ParsingFacts, Zenon
  <2>2. /\ hp.rec = c.rec /\ c.rec \in DOMAIN file
        /\ c.at <= 2 * LineBytes(file[c.rec]) /\ LineBytes(file[c.rec]) \in Nat
        /\ ~hp.record_processed => c.at = 2 * hp.idx + (IF hp.low_nibble THEN 2 ELSE 1)
        /\ hp.record_processed => hp.idx = LineBytes(file[c.rec])
        /\ hp.record_processed => file[c.rec].type \in Extended
    BY <2>1, AtDigit
  <2> QED BY <1>1, <2>2
<1>4. hp.idx \in Nat /\ LineData \in Nat
  <2>1. hp \in HpType
    BY ParsingFacts, Zenon
  <2> QED BY <2>1, HexParserAssumption DEF HpType
<1>5. l \in Nat /\ n = l + 5
  <2>1. file[hp.rec] \in Record
    BY <1>3, ParsingFacts, ToldNext
  <2>2. file[hp.rec].data \in Seq(Bytes)
    BY <2>1 DEF Record
  <2> QED BY <2>2 DEF LineBytes
<1> HIDE DEF n, l
<1>6. CASE hp.record_processed
  <2>1. l >= LineData
    BY <1>1, <1>3, <1>4, <1>5, <1>6
  <2> QED BY <1>1, <1>3, <1>4, <1>5, <1>6, <2>1 DEF l
<1>7. CASE ~hp.record_processed
  <2>1. c.at = 2 * hp.idx + 2 /\ c.at <= 2 * n
    BY <1>3, <1>7
  <2>2. hp.idx + 1 <= n
    BY <1>3, <1>4, <2>1
  <2>3. l > LineData
    BY <1>1, <1>4, <1>5, <2>2
  <2> QED BY <1>1, <2>3 DEF l
<1> QED BY <1>6, <1>7

LEMMA HandOverInv ==
  ASSUME ProgramInv, HandOver
  PROVE  ProgramInv'
<1>1. /\ pc = "parse" /\ pc' = "write" /\ bin # <<>> /\ Write(address, bin)
      /\ UNCHANGED <<session, result>>
  BY DEF HandOver
<1>2. Active /\ Active' /\ kind = "hex" /\ kind' = "hex"
  BY <1>1, Kinds DEF Active, session
<1>3. PICK p \in Nat, e \in Nat : Hexing(p, e)
  BY <1>2, Hexed
<1>4. HexAt(p, e)' /\ ParserType' /\ handed' = Decoded
  BY <1>3, HandOverAt
<1>5. HexInv' /\ BinInv'
  BY <1>2, <1>3, <1>4 DEF HexInv, BinInv
<1>6. address \in Nat /\ bin \in Seq(Bytes) /\ flash_state = "OPEN" /\ AccessorInv
  BY <1>1 DEF ProgramInv, SessionInv, ParserType
<1>7. AccessorInv' /\ flash_state' = flash_state
  BY <1>1, <1>6, BeginKeeps
<1>8. SessionInv'
  BY <1>1, <1>6, <1>7 DEF ProgramInv, SessionInv
<1>9. handed' \in Seq(Pairs) /\ IsPrefix(handed', FileBytes)
  BY <1>2, <1>3, <1>4, Kinds, DecodedPrefix
<1>10. result' # TRUE
  <2>1. result # TRUE
    BY <1>1 DEF ProgramInv, SessionInv
  <2> QED BY <1>1, <2>1
<1> QED BY <1>1, <1>2, <1>4, <1>5, <1>7, <1>8, <1>9, <1>10, GoesOnInv

(* Nothing of the session changes.                                          *)
LEMMA QuietInv ==
  ASSUME ProgramInv, Active, Active', UNCHANGED <<session, rest, addr, result, handed>>,
         AccessorInv', SessionInv', ParserType', kind = "hex" => HexInv',
         pc' = "parse" => kind = "hex"
  PROVE  ProgramInv'
<1>1. kind' = kind /\ file' = file
  BY DEF session
<1>2. HexInv'
  BY <1>1, Kinds DEF HexInv
<1>3. BinInv'
  <2>1. kind = "bin" => pc' # "parse"
    BY Kinds
  <2> QED BY <1>1, <2>1 DEF ProgramInv, BinInv
<1>4. handed' \in Seq(Pairs) /\ IsPrefix(handed', FileBytes) /\ (result' = TRUE => handed' = FileBytes)
  BY Kinds, Zenon
<1>5. pc' # "connected"
  BY DEF Active
<1> QED BY <1>2, <1>3, <1>4, <1>5, GoesOnInv

LEMMA WriteInv ==
  ASSUME ProgramInv, WriteGoesOn
  PROVE  ProgramInv'
<1>1. /\ pc = "write" /\ pc' = pc /\ WriteStep
      /\ UNCHANGED <<session, rest, addr, result, handed, parserVars>>
  BY DEF WriteGoesOn
<1>2. Active /\ Active'
  BY <1>1 DEF Active
<1>3. AccessorInv'
  BY <1>1, WriteKeeps DEF ProgramInv
<1>4. SessionInv'
  <2>1. flash_state' \in {flash_state, "ERROR"}
    BY <1>1, WriteStates
  <2>2. /\ result \in BOOLEAN \cup {None} /\ (result = TRUE => pc = "idle")
        /\ flash_state # "CLOSED"
    BY <1>1 DEF ProgramInv, SessionInv
  <2> QED BY <1>1, <2>1, <2>2 DEF SessionInv
<1>5. ParserType'
  BY <1>1 DEF ProgramInv, ParserType, parserVars
<1>6. ASSUME kind = "hex" PROVE HexInv'
  <2>1. PICK p \in Nat, e \in Nat : Hexing(p, e)
    BY <1>2, <1>6, Hexed
  <2>2. HexAt(p, e)'
    BY <2>1, WriteAt
  <2> QED BY <2>1, <2>2 DEF HexInv
<1>7. pc' # "parse"
  BY <1>1
<1>8. UNCHANGED <<session, rest, addr, result, handed>>
  BY <1>1
<1> QED BY <1>2, <1>3, <1>4, <1>5, <1>6, <1>7, <1>8, QuietInv

(* What was parsed is written without an error.                             *)
LEMMA ParsedOpen ==
  ASSUME ProgramInv, Parsed
  PROVE  Active /\ flash_state = "OPEN" /\ (at # None => pc' = "write") /\ at = None
<1>1. CASE pc = "parse"
  <2>1. flash_state = "OPEN" /\ at = None
    BY <1>1 DEF ProgramInv, SessionInv
  <2> QED BY <1>1, <2>1 DEF Active
<1>2. CASE pc = "write" /\ at = None /\ err = None
  <2>1. flash_state # "CLOSED" /\ flash_state \in {"CLOSED", "OPEN", "ERROR"}
        /\ (flash_state = "ERROR" => err # None)
    BY <1>2 DEF ProgramInv, SessionInv, AccessorInv, AccessorType
  <2> QED BY <1>2, <2>1 DEF Active
<1> QED BY <1>1, <1>2 DEF Parsed

LEMMA NextCallInv ==
  ASSUME ProgramInv, NextCall
  PROVE  ProgramInv'
<1>1. /\ Parsed /\ kind = "hex" /\ pc' = "parse"
      /\ UNCHANGED <<session, rest, addr, result, handed>> /\ UNCHANGED accessorVars
  BY DEF NextCall
<1>2. Active /\ Active' /\ flash_state = "OPEN" /\ at = None
  BY <1>1, ParsedOpen DEF Active
<1>3. PICK p \in Nat, e \in Nat : Hexing(p, e)
  BY <1>1, <1>2, Hexed
<1>4. HexAt(p, e)' /\ ParserType'
  BY <1>3, NextCallAt
<1>5. AccessorInv' /\ flash_state' = flash_state /\ at' = at
  BY <1>1, AccessorSame DEF ProgramInv
<1>6. result # TRUE /\ result \in BOOLEAN \cup {None}
  BY <1>2 DEF ProgramInv, SessionInv, Active
<1>7. SessionInv'
  BY <1>1, <1>2, <1>5, <1>6 DEF SessionInv
<1>8. HexInv'
  BY <1>3, <1>4 DEF HexInv
<1> QED BY <1>1, <1>2, <1>4, <1>5, <1>7, <1>8, QuietInv

LEMMA BlockDoneInv ==
  ASSUME ProgramInv, BlockDone
  PROVE  ProgramInv'
<1>1. /\ Parsed /\ pc' = "ready"
      /\ UNCHANGED <<session, rest, addr, result, handed>> /\ UNCHANGED accessorVars
      /\ UNCHANGED <<hp, blob, bin, address, status>>
  BY DEF BlockDone, parserVars
<1>2. Active /\ Active' /\ flash_state = "OPEN" /\ at = None
  BY <1>1, ParsedOpen DEF Active
<1>3. ASSUME kind = "hex" PROVE HexInv'
  <2>1. PICK p \in Nat, e \in Nat : Hexing(p, e)
    BY <1>2, <1>3, Hexed
  <2>2. HexAt(e, e)'
    BY <1>3, <2>1, BlockDoneAt
  <2> QED BY <2>1, <2>2 DEF HexInv
<1>4. ParserType'
  BY <1>1 DEF ProgramInv, ParserType
<1>5. AccessorInv' /\ flash_state' = flash_state /\ at' = at
  BY <1>1, AccessorSame DEF ProgramInv
<1>6. result # TRUE /\ result \in BOOLEAN \cup {None}
  BY <1>2 DEF ProgramInv, SessionInv, Active
<1>7. SessionInv'
  BY <1>1, <1>2, <1>5, <1>6 DEF SessionInv
<1>8. pc' # "parse"
  BY <1>1
<1> QED BY <1>1, <1>2, <1>3, <1>4, <1>5, <1>7, <1>8, QuietInv

(* A session ends.                                                          *)
LEMMA EndsInv ==
  ASSUME ProgramInv, Active, Close, pc' = "idle", result' \in BOOLEAN,
         UNCHANGED <<session, rest, handed, parserVars>>,
         result' = TRUE => handed' = FileBytes
  PROVE  ProgramInv'
<1>1. flash_state # "CLOSED" /\ AccessorInv
  BY DEF ProgramInv, SessionInv, Active
<1>2. AccessorInv' /\ flash_state' = "CLOSED" /\ at' = None
  BY <1>1, CloseKeeps
<1>3. SessionInv'
  BY <1>2 DEF SessionInv
<1>4. ParserType'
  BY DEF ProgramInv, ParserType, parserVars
<1>5. HexInv' /\ BinInv'
  BY DEF HexInv, BinInv, Active
<1>6. handed' \in Seq(Pairs) /\ IsPrefix(handed', FileBytes)
  BY Kinds, Zenon
<1>7. pc' # "connected" /\ UNCHANGED session
  OBVIOUS
<1> QED BY <1>2, <1>3, <1>4, <1>5, <1>6, <1>7, GoesOnInv

LEMMA FailsInv ==
  ASSUME ProgramInv, BlockFails
  PROVE  ProgramInv'
<1>1. /\ Close /\ pc' = "idle" /\ result' = FALSE /\ result' \in BOOLEAN
      /\ UNCHANGED <<session, rest, handed, parserVars>> /\ Active
  BY DEF BlockFails, Active
<1>2. result' # TRUE
  BY <1>1
<1> QED BY <1>1, <1>2, EndsInv

LEMMA FinishedInv ==
  ASSUME ProgramInv, Finished
  PROVE  ProgramInv'
<1>1. /\ Close /\ pc = "ready" /\ rest = <<>> /\ pc' = "idle" /\ result' = TRUE
      /\ UNCHANGED <<session, rest, handed, parserVars>> /\ Active
  BY DEF Finished, Active
<1>2. handed = FileBytes
  <2>1. CASE kind = "hex"
    <3>1. PICK p \in Nat, e \in Nat : Hexing(p, e)
      BY <1>1, <2>1, Hexed
    <3>2. handed = HexBytes(file)
      BY <1>1, <3>1, AllHandedOver
    <3> QED BY <2>1, <3>2, Kinds
  <2>2. CASE kind = "bin"
    <3> DEFINE d == file.data
               a == file.addr
    <3>1. PICK m \in 0 .. Len(d) :
             rest = SubSeq(d, m + 1, Len(d)) /\ handed = Addressed(a, SubSeq(d, 1, m))
      BY <1>1, <2>2 DEF ProgramInv, BinInv
    <3>2. file \in BinFiles /\ FileBytes = Addressed(a, d)
      BY <2>2, Kinds
    <3>3. d \in Seq(Bytes)
      BY <3>2, BinIs
    <3> HIDE DEF d, a
    <3>4. m = Len(d)
      <4>1. m \in Nat /\ m <= Len(d) /\ Len(d) <= Len(d) /\ Len(d) \in Nat
        BY <3>3
      <4>2. SubSeq(d, m + 1, Len(d)) = <<>>
        BY <1>1, <3>1
      <4>3. ~(m < Len(d))
        BY <3>3, <4>1, <4>2, BinSlice
      <4> QED BY <4>1, <4>3
    <3>5. SubSeq(d, 1, m) = d
      BY <3>3, <3>4, SubSeqFull
    <3> QED BY <3>1, <3>2, <3>5
  <2> QED BY <2>1, <2>2, Kinds
<1>3. handed' = FileBytes /\ result' \in BOOLEAN
  BY <1>1, <1>2
<1> QED BY <1>1, <1>3, EndsInv

LEMMA SameInv ==
  ASSUME ProgramInv, UNCHANGED vars
  PROVE  ProgramInv'
<1>1. UNCHANGED <<session, pc, rest, addr, result, handed>> /\ UNCHANGED parserVars /\ UNCHANGED accessorVars
  BY DEF vars
<1>2. AccessorInv' /\ flash_state' = flash_state /\ at' = at
  BY <1>1, AccessorSame DEF ProgramInv
<1>3. SessionInv'
  BY <1>1, <1>2 DEF ProgramInv, SessionInv
<1>4. FileInv' /\ ParserType'
  BY <1>1 DEF ProgramInv, FileInv, ParserType, Active, session, parserVars
<1>5. HexInv'
  <2>1. UNCHANGED <<front, kind, file, pc, rest, handed, hp, blob, bin, address, status>>
    BY <1>1 DEF session, parserVars
  <2>2. ASSUME NEW p \in Nat, NEW e \in Nat, HexAt(p, e) PROVE HexAt(p, e)'
    <3>1. Decoded' = Decoded
      BY <2>1 DEF Decoded
    <3>2. Slices(p, e)' /\ Cut(p, e)'
      BY <2>1, <2>2 DEF HexAt, Slices, Cut
    <3>3. Reading(p) => Reading(p)'
      BY <2>1, <3>1 DEF Reading
    <3>4. Skipping(e) => Skipping(e)'
      BY <2>1, <3>1 DEF Skipping
    <3> QED BY <2>2, <3>2, <3>3, <3>4 DEF HexAt
  <2>3. HexInv
    BY DEF ProgramInv
  <2> QED BY <2>1, <2>2, <2>3 DEF HexInv, Active
<1>6. BinInv'
  BY <1>1 DEF ProgramInv, BinInv, Active, session
<1>7. HandedInv'
  BY <1>1 DEF ProgramInv, HandedInv, FileBytes, session
<1> QED BY <1>2, <1>3, <1>4, <1>5, <1>6, <1>7 DEF ProgramInv

LEMMA ProgramKeeps == ProgramInv /\ [Next]_vars => ProgramInv'
<1> SUFFICES ASSUME ProgramInv, [Next]_vars PROVE ProgramInv'
  OBVIOUS
<1>1. CASE Connect
  BY <1>1, ConnectInv
<1>2. CASE Start
  <2>1. front' \in {"file", "stream"}
    BY <1>2 DEF Start
  <2>2. ASSUME NEW f \in HexFiles, front' = "stream" => f \notin Universal, StartHex(f)
        PROVE  ProgramInv'
    BY <2>1, <2>2, StartHexInv
  <2>3. ASSUME NEW f \in BinFiles, StartBin(f) PROVE ProgramInv'
    BY <2>1, <2>3, StartBinInv
  <2> QED BY <1>2, <2>2, <2>3 DEF Start
<1>3. ASSUME NEW n \in 1 .. Len(rest), TakeBlock(n) PROVE ProgramInv'
  <2>1. kind \in {"hex", "bin"}
    BY Kinds
  <2> QED BY <1>3, <2>1, TakeHexInv, TakeBinInv
<1>4. CASE ParseStep
  BY <1>4, ParseInv
<1>5. CASE HandOver
  BY <1>5, HandOverInv
<1>6. CASE WriteGoesOn
  BY <1>6, WriteInv
<1>7. CASE NextCall
  BY <1>7, NextCallInv
<1>8. CASE BlockDone
  BY <1>8, BlockDoneInv
<1>9. CASE BlockFails
  BY <1>9, FailsInv
<1>10. CASE Finished
  BY <1>10, FinishedInv
<1>11. CASE UNCHANGED vars
  BY <1>11, SameInv
<1> QED BY <1>1, <1>2, <1>3, <1>4, <1>5, <1>6, <1>7, <1>8, <1>9, <1>10, <1>11 DEF Next, Step

(* The invariant of the two programmers, the parser and the accessor holds  *)
(* in every reachable state, whatever the files, the blocks, the sectors    *)
(* and the failures of the target are.                                      *)
THEOREM ProgramAlways == Spec => []ProgramInv
<1>1. Init => ProgramInv
  BY ProgramBegins
<1>2. ProgramInv /\ [Next]_vars => ProgramInv'
  BY ProgramKeeps
<1> QED BY <1>1, <1>2, PTL DEF Spec

(* Every variable has its type, and the accessor is closed between sessions *)
(* (flash_accessor.cpp:236-278, stream_programmer.cpp:42-53).               *)
THEOREM TypesAlways == Spec => []TypeOK
<1>1. ProgramInv => TypeOK
  <2> SUFFICES ASSUME ProgramInv PROVE TypeOK
    OBVIOUS
  <2>1. AccessorType /\ SessionInv
    BY DEF ProgramInv, AccessorInv
  <2>2. target.mem \in [Addresses -> Bytes \cup {Garbled}]
    BY <2>1 DEF AccessorType, TargetType, Cells
  <2> QED BY <2>1, <2>2 DEF TypeOK, AccessorType, SessionInv
<1> QED BY <1>1, ProgramAlways, PTL

(* No flash function runs but after Init, by the algorithm of the region it *)
(* works on (target_flash.cpp:57-79, 366-393).                              *)
THEOREM AlgorithmReadyAlways == Spec => []AlgorithmReady
<1>1. ProgramInv => AlgorithmReady
  BY DEF ProgramInv, AccessorInv, AlgorithmReady
<1> QED BY <1>1, ProgramAlways, PTL

(* A copy leaves the page buffer only when the last packet ended with its   *)
(* sector, the next one begins behind it, no further than a sector of that  *)
(* size would reach, and not in the first block of its own sector           *)
(* (flash_accessor.cpp:176-222).                                            *)
THEOREM OverrunKnownAlways == Spec => []OverrunKnown
<1>1. ProgramInv => OverrunKnown
  <2> SUFFICES ASSUME ProgramInv, overrun PROVE OverrunKnown
    BY DEF OverrunKnown
  <2>1. at = "lost" /\ AccessorInv
    BY DEF ProgramInv, AccessorInv
  <2>2. at # None /\ at # "first"
    BY <2>1, FlashAccessorAssumption
  <2>3. flash_state = "OPEN" /\ current_sector_valid
    BY <2>1, <2>2 DEF AccessorInv
  <2>4. Positions
    BY <2>1, <2>3 DEF AccessorInv
  <2>5. Behind /\ todo.addr >= SectorOf(todo.addr) + current_write_block_size
    BY <2>1, <2>4 DEF Positions
  <2> QED BY <2>5 DEF Behind, OverrunKnown
<1> QED BY <1>1, ProgramAlways, PTL

(* From behind its line the parser does not come back.                      *)
LineInv == LineKept /\ (status = "beyond" => pc = "parse")

LEMMA LineStays ==
  ASSUME ProgramInv, LineInv, [Next]_vars
  PROVE  LineInv'
<1>1. CASE status' # "beyond"
  BY <1>1 DEF LineInv, LineKept
<1>2. CASE ParseStep /\ status' = "beyond"
  <2>1. /\ LeaveLine(file) /\ pc = "parse" /\ status = "parsing"
        /\ UNCHANGED <<session, pc>>
    BY <1>2 DEF ParseStep, Parse, BlobEnd, LineEnd, Colon, LeaveLine, DigitInside, Digit, DigitNext,
                BadChecksum, Metadata, ForeignData, Data, UnalignedData, EndOfFile, UpperAddress,
                Complete, Finish
  <2>2. PICK p \in Nat, e \in Nat : Hexing(p, e)
    BY <2>1, Kinds, Hexed DEF Active
  <2>3. Parsing(p, e)
    BY <2>1, <2>2 DEF Hexing, HexAt, Skipping, Parsing
  <2>4. /\ hp' = hp /\ file' = file
        /\ \/ Len(file[hp.rec].data) > LineData
           \/ Len(file[hp.rec].data) = LineData /\ file[hp.rec].type \in Extended
    BY <2>1, <2>3, LeavesBeyond DEF session
  <2> QED BY <2>1, <2>4 DEF LineInv, LineKept
<1>3. CASE ~ParseStep /\ status' = "beyond" /\ ~UNCHANGED vars
  <2>1. status' = status
    BY <1>3 DEF Next, Step, Connect, Start, StartHex, StartBin, TakeBlock, HandOver, WriteGoesOn,
                NextCall, BlockDone, BlockFails, Finished, Begin, Finish, parserVars
  <2>2. status = "beyond" /\ pc = "parse" /\ kind = "hex"
    BY <1>3, <2>1, Kinds DEF LineInv, Active
  <2>3. FALSE
    BY <1>3, <2>2 DEF Next, Step, Connect, Start, StartHex, StartBin, TakeBlock, HandOver, WriteGoesOn,
                      NextCall, Parsed, BlockDone, BlockFails, Finished
  <2> QED BY <2>3
<1>4. CASE UNCHANGED vars
  BY <1>4 DEF LineInv, LineKept, vars, session, parserVars
<1> QED BY <1>1, <1>2, <1>3, <1>4

(* The parser writes behind its line for no other record than one with more *)
(* data than the line has room for, or an extended address that fills it,   *)
(* whatever the file, the blocks and the records before it are              *)
(* (hex_parser.c:164-168, 237-270, 279-285).                                *)
THEOREM LineKeptAlways == Spec => []LineKept
<1>1. Init => LineInv
  BY DEF Init, LineInv, LineKept
<1>2. ProgramInv /\ LineInv /\ [Next]_vars => LineInv'
  BY LineStays
<1>3. LineInv => LineKept
  BY DEF LineInv
<1> QED BY <1>1, <1>2, <1>3, ProgramAlways, PTL DEF Spec

(* However the file is cut into blocks, the bytes handed to the accessor    *)
(* are those of the file, in its order, at their addresses; when the        *)
(* session succeeds they are all, and the scan for the start address names  *)
(* the first of them.  Only a record that the parser's line has no room for *)
(* ends this (hex_parser.c:103-412, hex_program.cpp:51-117).                *)
THEOREM ParsedAsWrittenAlways == Spec => []ParsedAsWritten
<1>1. ProgramInv /\ LineKept => ParsedAsWritten
  <2> SUFFICES ASSUME ProgramInv, LineKept PROVE ParsedAsWritten
    OBVIOUS
  <2>1. /\ IsPrefix(handed, FileBytes) /\ (result = TRUE => handed = FileBytes)
        /\ handed \in Seq(Pairs)
    BY Kinds, Zenon
  <2>2. ASSUME kind = "hex", handed # <<>>,
               \A k \in DOMAIN file : file[k].type \notin {"segment", "meta", "custom"}
        PROVE  StartAddress(file, None) = handed[1][1]
    <3>1. FileBytes = HexBytes(file) /\ FileBytes \in Seq(Pairs)
      BY <2>2, Kinds, FileBytesIs DEF ProgramInv
    <3>2. HexBytes(file) # <<>> /\ HexBytes(file)[1] = handed[1]
      BY <2>1, <2>2, <3>1, PrefixHead
    <3>3. file \in HexFiles
      <4>1. file # <<>>
        <5>1. ASSUME file = <<>> PROVE FALSE
          <6>1. Len(file) = 0
            BY <5>1
          <6>2. Told(file)[0] = [base |-> 0, version |-> 0, bytes |-> <<>>]
            BY <6>1, ToldUnrolls
          <6>3. HexBytes(file) = <<>>
            BY <6>1, <6>2 DEF HexBytes
          <6> QED BY <3>2, <6>3
        <5> QED BY <5>1
      <4> QED BY <2>2, <4>1 DEF ProgramInv, FileInv
    <3>4. StartAddress(file, None) = HexBytes(file)[1][1]
      BY <2>2, <3>2, <3>3, StartIs
    <3> QED BY <3>2, <3>4
  <2> QED BY <2>1, <2>2, Zenon DEF ParsedAsWritten
<1> QED BY <1>1, ProgramAlways, LineKeptAlways, PTL

-----------------------------------------------------------------------------
(***************************************************************************)
(* What is in the flash.                                                   *)
(***************************************************************************)

(* The bytes handed over of which the accessor has a copy.                  *)
Copied == IF at = None THEN Len(handed) ELSE Len(handed) - Len(todo.data)

TodoIs ==
  at # None =>
    /\ Len(todo.data) <= Len(handed)
    /\ \A i \in 1 .. Len(todo.data) :
         handed[Copied + i] = <<(todo.addr + i) - 1, todo.data[i]>>

(* The last byte copied was in the current sector, and a is the next one.   *)
Before(a) ==
  /\ Copied > 0 /\ SectorOf(handed[Copied][1]) = current_sector_addr
  /\ handed[Copied][1] + 1 = a

LastIs ==
  /\ at \in {None, "block", "sector"} =>
       \/ Before(last_packet_addr)
       \/ at # None /\ Copied = 0 /\ todo.addr = last_packet_addr /\ last_packet_addr < SectorEnd
  /\ at \in {"flush", "end"} /\ todo.data = <<>> => Before(todo.addr)
  /\ at \in {"flush", "end"} /\ todo.addr >= SectorEnd => Before(SectorEnd)

(* The bytes whose sectors were entered.                                    *)
Entered ==
  IF at = "copy" \/ (at \in {"flush", "end"} /\ todo.data # <<>> /\ todo.addr < SectorEnd)
  THEN Copied + 1 ELSE Copied

(* The sector of byte i is entered by one of the bytes behind it, up to n.  *)
Again(i, n) ==
  \E k \in i + 1 .. n : Enters(k) /\ SectorOf(handed[k][1]) = SectorOf(handed[i][1])

Wanted(i, n) == IF Again(i, n) THEN FF ELSE handed[i][2]

Newest(i, n) == \A j \in i + 1 .. n : handed[j][1] # handed[i][1]

(* The cell holds v, or will when the page is written.                      *)
Holding(x, v) ==
  IF ~page_buf_empty /\ InBlock(x)
  THEN Paged(x) = v \/ (Paged(x) = FF /\ target.mem[x] = v)
  ELSE target.mem[x] = v

(* The first c bytes have their places, when e of them entered sectors.     *)
Contents(c, e) ==
  \A i \in 1 .. c : Newest(i, c) => Holding(handed[i][1], Wanted(i, e))

FlashInv ==
  flash_state = "OPEN" =>
    /\ TodoIs
    /\ current_sector_valid /\ at # "lost" => LastIs
    /\ ~current_sector_valid => Copied = 0
    /\ at # "lost" => Contents(Copied, Entered)

(* The current sector, and every sector that was changed, is one of a byte. *)
SectorOfByte(d) == \E i \in DOMAIN handed : SectorOf(handed[i][1]) = d

TouchedInv ==
  /\ \A x \in Addresses : target.mem[x] # Blank[x] => SectorOfByte(SectorOf(x))
  /\ flash_state = "OPEN" /\ current_sector_valid => SectorOfByte(current_sector_addr)

(* The bytes handed over are a sequence, and have their places.             *)
HandedIn ==
  /\ handed \in Seq(Pairs)
  /\ \A i \in 1 .. Len(handed) : handed[i][1] \in Addresses /\ handed[i][1] \in Nat

LEMMA PrefixAt ==
  ASSUME NEW s \in Seq(Pairs), NEW t \in Seq(Pairs), IsPrefix(s, t)
  PROVE  Len(s) <= Len(t) /\ \A i \in 1 .. Len(s) : s[i] = t[i]
<1> DEFINE n == Len(s)
<1>1. n \in Nat /\ n <= Len(t) /\ Len(t) \in Nat /\ SubSeq(s, 1, n) = SubSeq(t, 1, n)
  BY DEF IsPrefix
<1>2. SubSeq(s, 1, n) = s
  BY SubSeqFull
<1> HIDE DEF n
<1>3. ASSUME NEW i \in 1 .. n PROVE s[i] = t[i]
  <2>1. \A j \in 1 .. n : t[j] \in Pairs
    BY <1>1, ElementOfSeq
  <2>2. 1 \in Int /\ n \in Int /\ i \in 1 .. (n - 1) + 1 /\ (1 + i) - 1 = i
    BY <1>1
  <2>3. \A j \in 1 .. (n - 1) + 1 : SubSeq(t, 1, n)[j] = t[(1 + j) - 1]
    BY <2>1, <2>2, SubSeqProperties
  <2> QED BY <1>1, <1>2, <2>2, <2>3
<1> QED BY <1>1, <1>3 DEF n

LEMMA HandedAlways == ASSUME ProgramInv PROVE HandedIn
<1>1. handed \in Seq(Pairs) /\ IsPrefix(handed, FileBytes) /\ FileBytes \in Seq(Pairs)
  BY Kinds, FileBytesIs, Zenon DEF ProgramInv
<1>2. \A i \in 1 .. Len(FileBytes) : FileBytes[i][1] \in Addresses
  <2>1. CASE kind = "hex" /\ file \in HexFiles
    <3>1. FileBytes = HexBytes(file)
      BY <2>1, Kinds
    <3>2. \A i \in DOMAIN HexBytes(file) : HexBytes(file)[i][1] \in Addresses
      BY <2>1, AddressesAssumption
    <3>3. DOMAIN FileBytes = 1 .. Len(FileBytes)
      BY <1>1
    <3> QED BY <3>1, <3>2, <3>3
  <2>2. CASE kind = "hex" /\ file = <<>>
    <3>1. Len(file) = 0
      BY <2>2
    <3>2. Told(file)[0] = [base |-> 0, version |-> 0, bytes |-> <<>>]
      BY <3>1, ToldUnrolls
    <3>3. FileBytes = <<>>
      BY <2>2, <3>1, <3>2 DEF FileBytes, HexBytes
    <3> QED BY <3>3
  <2>3. CASE kind = "bin" /\ file \in BinFiles
    <3> DEFINE a == file.addr
               d == file.data
    <3>1. FileBytes = Addressed(a, d) /\ a \in Nat /\ d \in Seq(Bytes)
      BY <2>3, Kinds, BinIs
    <3>2. \A i \in DOMAIN d : (a + i) - 1 \in Addresses
      BY <2>3, AddressesAssumption
    <3> HIDE DEF a, d
    <3>3. /\ Len(Addressed(a, d)) = Len(d)
          /\ \A i \in 1 .. Len(d) : Addressed(a, d)[i] = <<(a + i) - 1, d[i]>>
      BY <3>1, AddressedIs
    <3>4. DOMAIN d = 1 .. Len(d)
      BY <3>1
    <3>5. ASSUME NEW i \in 1 .. Len(d) PROVE Addressed(a, d)[i][1] \in Addresses
      BY <3>2, <3>3, <3>4
    <3> QED BY <3>1, <3>3, <3>5
  <2> QED BY <2>1, <2>2, <2>3 DEF ProgramInv, FileInv
<1>3. Len(handed) <= Len(FileBytes) /\ \A i \in 1 .. Len(handed) : handed[i] = FileBytes[i]
  BY <1>1, PrefixAt
<1>4. \A i \in 1 .. Len(handed) : handed[i][1] \in Addresses
  BY <1>1, <1>2, <1>3
<1> QED BY <1>1, <1>4, TargetFlashAssumption DEF HandedIn

LEMMA EntersIs ==
  ASSUME NEW k \in Nat, NEW b, NEW a, handed[k - 1][1] = b, handed[k][1] = a
  PROVE  Enters(k) <=> SectorOf(b) # SectorOf(a) \/ SectorOf(b + 1) # SectorOf(a)
BY DEF Enters

LEMMA ContentsKept ==
  ASSUME HandedIn, handed' = handed, NEW c \in Nat, c <= Len(handed), NEW e, Contents(c, e),
         \A x \in Addresses : \A v : Holding(x, v) => Holding(x, v)'
  PROVE  Contents(c, e)'
<1> SUFFICES ASSUME NEW i \in 1 .. c, Newest(i, c)'
             PROVE  Holding(handed[i][1], Wanted(i, e))'
  BY DEF Contents
<1>1. Newest(i, c)
  BY DEF Newest
<1>2. Holding(handed[i][1], Wanted(i, e))
  BY <1>1 DEF Contents
<1>3. handed[i][1] \in Addresses
  <2>1. Len(handed) \in Nat
    BY DEF HandedIn
  <2>2. i \in 1 .. Len(handed)
    BY <2>1
  <2> QED BY <2>2 DEF HandedIn
<1>4. Wanted(i, e)' = Wanted(i, e) /\ handed'[i][1] = handed[i][1]
  BY DEF Wanted, Again, Enters
<1> DEFINE x == handed[i][1]
           v == Wanted(i, e)
<1>5. x' = x /\ v' = v /\ x \in Addresses /\ Holding(x, v)
  BY <1>2, <1>3, <1>4
<1> HIDE DEF x, v
<1>6. PICK y \in Addresses : y = x
  BY <1>5
<1>7. PICK w : w = v
  OBVIOUS
<1>8. Holding(y, w)'
  BY <1>5, <1>6, <1>7
<1>9. Holding(x, v)'
  BY <1>5, <1>6, <1>7, <1>8 DEF Holding, InBlock, Paged, BlockEnd
<1> QED BY <1>9 DEF x, v

LEMMA ContentsMore ==
  ASSUME NEW c \in Nat, NEW e \in Nat, NEW f \in Nat, c <= e, e <= f, Contents(c, e),
         \A k \in e + 1 .. f : ~Enters(k)
  PROVE  Contents(c, f)
<1>1. ASSUME NEW i \in 1 .. c PROVE Wanted(i, f) = Wanted(i, e)
  <2>1. Again(i, f) => Again(i, e)
    <3>1. ASSUME NEW k \in i + 1 .. f, Enters(k), SectorOf(handed[k][1]) = SectorOf(handed[i][1])
          PROVE  k \in i + 1 .. e
      <4>1. k \notin e + 1 .. f
        BY <3>1
      <4> QED BY <4>1
    <3> QED BY <3>1 DEF Again
  <2>2. Again(i, e) => Again(i, f)
    BY DEF Again
  <2> QED BY <2>1, <2>2 DEF Wanted
<1> QED BY <1>1 DEF Contents

(* A sector is erased.                                                      *)
LEMMA ContentsErased ==
  ASSUME HandedIn, handed' = handed, NEW c \in Nat, c + 1 <= Len(handed),
         page_buf_empty = TRUE, page_buf_empty' = TRUE,
         NEW d, d = SectorOf(handed[c + 1][1]), target'.mem = Wiped(target.mem, d),
         c > 0 => Enters(c + 1), Contents(c, c)
  PROVE  Contents(c, c + 1)'
<1> SUFFICES ASSUME NEW i \in 1 .. c, Newest(i, c)'
             PROVE  Holding(handed[i][1], Wanted(i, c + 1))'
  BY DEF Contents
<1>1. Newest(i, c)
  BY DEF Newest
<1> DEFINE x == handed[i][1]
<1>2. Holding(x, Wanted(i, c)) /\ target.mem[x] = Wanted(i, c)
  BY <1>1 DEF Contents, Holding
<1>3. x \in Addresses
  <2>1. Len(handed) \in Nat
    BY DEF HandedIn
  <2>2. i \in 1 .. Len(handed)
    BY <2>1
  <2> QED BY <2>2 DEF HandedIn
<1>4. target'.mem[x] = IF SectorOf(x) = d THEN FF ELSE target.mem[x]
  BY <1>3 DEF Wiped
<1>5. Wanted(i, c + 1)' = Wanted(i, c + 1) /\ x' = x
  BY DEF Wanted, Again, Enters
<1>6. Wanted(i, c + 1) = IF SectorOf(x) = d THEN FF ELSE Wanted(i, c)
  <2>1. CASE SectorOf(x) = d
    <3>1. c + 1 \in i + 1 .. c + 1 /\ Enters(c + 1)
      OBVIOUS
    <3>2. Again(i, c + 1)
      BY <2>1, <3>1 DEF Again
    <3> QED BY <2>1, <3>2 DEF Wanted
  <2>2. CASE SectorOf(x) # d
    <3>1. Again(i, c + 1) <=> Again(i, c)
      <4>1. ASSUME NEW k \in i + 1 .. c + 1, SectorOf(handed[k][1]) = SectorOf(x)
            PROVE  k \in i + 1 .. c
        <5>1. k # c + 1
          BY <2>2, <4>1
        <5> QED BY <5>1
      <4>2. i + 1 .. c \subseteq i + 1 .. c + 1
        OBVIOUS
      <4> QED BY <4>1, <4>2 DEF Again
    <3> QED BY <2>2, <3>1 DEF Wanted
  <2> QED BY <2>1, <2>2
<1>7. target'.mem[x'] = Wanted(i, c + 1)'
  BY <1>2, <1>4, <1>5, <1>6
<1> QED BY <1>7 DEF Holding

LEMMA HoldingFlushed ==
  ASSUME PageOut([err |-> err', t |-> target']), err' = None, page_buf_empty' = TRUE
  PROVE  \A x \in Addresses : \A v : Holding(x, v) => Holding(x, v)'
<1> SUFFICES ASSUME NEW x \in Addresses, NEW v, Holding(x, v) PROVE Holding(x, v)'
  OBVIOUS
<1>1. /\ page_buf_empty \/ ~InBlock(x) => target'.mem[x] = target.mem[x]
      /\ ~page_buf_empty /\ InBlock(x) =>
           target'.mem[x] = Paged(x) /\ target'.mem[x] = Cell(target.mem[x], Paged(x))
  BY DEF PageOut
<1>2. target'.mem[x] = v
  <2>1. CASE ~page_buf_empty /\ InBlock(x)
    <3>1. Paged(x) = v \/ (Paged(x) = FF /\ target.mem[x] = v)
      BY <2>1 DEF Holding
    <3>2. CASE Paged(x) = v
      BY <1>1, <2>1, <3>2
    <3>3. CASE Paged(x) = FF /\ target.mem[x] = v
      BY <1>1, <2>1, <3>3 DEF Cell
    <3> QED BY <3>1, <3>2, <3>3
  <2>2. CASE ~(~page_buf_empty /\ InBlock(x))
    BY <1>1, <2>2 DEF Holding
  <2> QED BY <2>1, <2>2
<1> QED BY <1>2 DEF Holding

LEMMA HoldingSame ==
  ASSUME UNCHANGED <<target, block, page>>
  PROVE  \A x \in Addresses : \A v : Holding(x, v) => Holding(x, v)'
BY DEF Holding, InBlock, Paged, BlockEnd, block, page

LEMMA CopiedIs ==
  ASSUME AccessorType, HandedIn, TodoIs
  PROVE  /\ Copied \in Nat /\ Copied <= Len(handed) /\ Len(handed) \in Nat
         /\ at = None => Copied = Len(handed)
         /\ at # None =>
              /\ Len(todo.data) \in Nat /\ Len(handed) = Copied + Len(todo.data)
              /\ \A i \in 1 .. Len(todo.data) :
                   handed[Copied + i] = <<(todo.addr + i) - 1, todo.data[i]>>
              /\ todo.data # <<>> => Copied + 1 <= Len(handed) /\ handed[Copied + 1][1] = todo.addr
<1>1. Len(handed) \in Nat /\ Len(todo.data) \in Nat /\ todo.addr \in Nat /\ todo.data \in Seq(Bytes)
  BY DEF HandedIn, AccessorType
<1>2. CASE at = None
  BY <1>1, <1>2 DEF Copied
<1>3. CASE at # None
  <2> DEFINE k == Len(todo.data)
             a == todo.addr
             c == Copied
  <2>1. /\ c = Len(handed) - k /\ k <= Len(handed)
        /\ \A i \in 1 .. k : handed[c + i] = <<(a + i) - 1, todo.data[i]>>
    BY <1>3 DEF Copied, TodoIs
  <2>2. todo.data # <<>> => 1 \in 1 .. k
    BY <1>1
  <2> HIDE DEF k, a, c
  <2>3. c \in Nat /\ c <= Len(handed) /\ Len(handed) = c + k /\ k \in Nat /\ a \in Nat
    BY <1>1, <2>1 DEF k, a
  <2>4. todo.data # <<>> => c + 1 <= Len(handed) /\ handed[c + 1][1] = a
    <3>1. (a + 1) - 1 = a
      BY <2>3
    <3> QED BY <2>1, <2>2, <2>3, <3>1
  <2> QED BY <1>1, <1>3, <2>1, <2>3, <2>4 DEF k, a, c
<1> QED BY <1>2, <1>3

LEMMA TodoSame ==
  ASSUME at # None, at' # None, todo' = todo, handed' = handed, TodoIs
  PROVE  TodoIs' /\ Copied' = Copied
BY DEF TodoIs, Copied

(* Nothing was copied or entered.                                           *)
LEMMA FlashFailed == ASSUME flash_state' # "OPEN" PROVE FlashInv'
BY DEF FlashInv

LEMMA FirstFlash ==
  ASSUME AccessorInv, HandedIn, FlashInv, handed' = handed, WriteFirst
  PROVE  FlashInv'
<1>1. /\ AccessorType /\ ~target.strayed /\ InOrder(target) /\ flash_state = "OPEN" /\ at = "first"
  BY Running DEF WriteFirst, Statements
<1>2. ~current_sector_valid /\ page_buf_empty
  BY <1>1 DEF AccessorInv
<1>3. /\ SetupSector("block") /\ todo' = todo /\ page_buf_empty' = page_buf_empty
      /\ last_packet_addr' = IF err' = None THEN todo.addr ELSE last_packet_addr
      /\ current_sector_valid' = (err' = None)
  BY DEF WriteFirst
<1>4. Ended("block")
  BY <1>1, <1>3, SetupEnds
<1>5. CASE err' # None
  BY <1>4, <1>5, FlashFailed DEF Ended
<1>6. CASE err' = None
  <2>1. at' = "block" /\ at # None /\ at' # None
    BY <1>1, <1>4, <1>6, NoStatement DEF Ended, Statements
  <2>2. TodoIs /\ Copied = 0
    BY <1>1, <1>2 DEF FlashInv
  <2>3. TodoIs' /\ Copied' = 0
    BY <1>3, <2>1, <2>2, TodoSame
  <2>4. page_buf_empty' = TRUE
    BY <1>1, <1>2, <1>3, Zenon DEF AccessorType
  <2>5. todo.addr < SectorEnd'
    BY <1>1, <1>3, <1>6, <2>4, SetupSets
  <2>6. LastIs'
    BY <1>3, <1>6, <2>1, <2>3, <2>5 DEF LastIs
  <2>7. Contents(Copied, Entered)'
    BY <2>3 DEF Contents
  <2>8. current_sector_valid'
    BY <1>3, <1>6
  <2> QED BY <2>3, <2>6, <2>7, <2>8 DEF FlashInv
<1> QED BY <1>5, <1>6

LEMMA ContentsNow ==
  ASSUME NEW c \in Nat, NEW e \in Nat, Copied' = c, Entered' = e, Contents(c, e)'
  PROVE  Contents(Copied, Entered)'
BY DEF Contents, Newest, Wanted, Again, Enters

LEMMA ContentsThen ==
  ASSUME NEW c \in Nat, NEW e \in Nat, Copied = c, Entered = e, Contents(Copied, Entered)
  PROVE  Contents(c, e)
BY DEF Contents

(* A step of a write, which copies nothing.                                 *)
NothingCopied ==
  /\ flash_state' = "OPEN" /\ current_sector_valid' /\ at' # None
  /\ TodoIs' /\ Copied' = Copied

(* The cells and the page hold what they did.                               *)
NothingLost ==
  \A c, e \in Nat : c <= Len(handed) /\ Contents(c, e) => Contents(c, e)'

LEMMA Flushed ==
  ASSUME AccessorInv, HandedIn, FlashInv, handed' = handed, at \in Statements \ {"first", "lost"},
         NEW then \in Statements, Flush(then), err' = None
  PROVE  /\ NothingCopied /\ NothingLost /\ at' = then
         /\ UNCHANGED <<current_write_block_size, sector, last_packet_addr, todo>>
<1>1. /\ AccessorType /\ ~target.strayed /\ InOrder(target) /\ SectorSet /\ flash_state = "OPEN"
      /\ current_sector_valid
  BY Running
<1>2. /\ Ended(then) /\ PageOut([err |-> err', t |-> target']) /\ page_buf_empty' = TRUE
  BY <1>1, FlushEnds
<1>3. UNCHANGED <<current_write_block_size, sector, current_sector_valid, last_packet_addr, todo>>
  BY DEF Flush
<1>4. at # None /\ at' # None /\ at' = then /\ flash_state' = "OPEN"
  BY <1>1, <1>2, NoStatement DEF Ended
<1>5. TodoIs' /\ Copied' = Copied
  BY <1>1, <1>3, <1>4, TodoSame DEF FlashInv
<1>6. \A x \in Addresses : \A v : Holding(x, v) => Holding(x, v)'
  BY <1>2, HoldingFlushed
<1>7. NothingLost
  BY <1>6, ContentsKept DEF NothingLost
<1> QED BY <1>1, <1>3, <1>4, <1>5, <1>7 DEF NothingCopied

LEMMA Skipped ==
  ASSUME AccessorInv, HandedIn, FlashInv, handed' = handed, at \in Statements \ {"first", "lost"},
         NEW then \in Statements, Skip(then)
  PROVE  /\ NothingCopied /\ NothingLost /\ at' = then
         /\ UNCHANGED <<current_write_block_size, sector, last_packet_addr, todo>>
<1>1. AccessorType /\ flash_state = "OPEN" /\ current_sector_valid
  BY Running
<1>2. /\ at' = then
      /\ UNCHANGED <<target, flash_state, current_sector_valid, last_packet_addr,
                     block, sector, page, todo>>
  BY DEF Skip
<1>3. at # None /\ at' # None
  BY <1>2, NoStatement
<1>4. TodoIs' /\ Copied' = Copied
  BY <1>1, <1>2, <1>3, TodoSame DEF FlashInv
<1>5. \A x \in Addresses : \A v : Holding(x, v) => Holding(x, v)'
  BY <1>2, HoldingSame
<1>6. NothingLost
  BY <1>5, ContentsKept DEF NothingLost
<1> QED BY <1>1, <1>2, <1>3, <1>4, <1>6 DEF NothingCopied, block

LEMMA Unlost ==
  ASSUME AccessorInv, HandedIn, FlashInv, at \in Statements \ {"lost"}
  PROVE  /\ flash_state = "OPEN" /\ TodoIs /\ Contents(Copied, Entered)
         /\ Copied \in Nat /\ Entered \in Nat /\ Copied <= Len(handed)
         /\ at # "first" => LastIs
<1>1. flash_state = "OPEN" /\ AccessorType /\ (at # "first" => current_sector_valid)
  BY Running
<1>2. TodoIs /\ Contents(Copied, Entered) /\ (at # "first" => LastIs)
  BY <1>1 DEF FlashInv
<1>3. Copied \in Nat /\ Copied <= Len(handed)
  BY <1>1, <1>2, CopiedIs
<1>4. Entered \in Nat
  BY <1>3 DEF Entered
<1> QED BY <1>1, <1>2, <1>3, <1>4

(* No byte more has entered its sector.                                     *)
LEMMA NoneEntered ==
  ASSUME AccessorInv, HandedIn, FlashInv, at \in Statements \ {"lost"},
         NothingCopied, NothingLost, at' # "lost", Entered' = Entered, LastIs'
  PROVE  FlashInv'
<1>1. PICK c \in Nat : c = Copied
  BY Unlost
<1>2. PICK e \in Nat : e = Entered
  BY Unlost
<1>3. Contents(c, e) /\ c <= Len(handed)
  BY <1>1, <1>2, Unlost
<1>4. Contents(c, e)'
  BY <1>3 DEF NothingLost
<1>5. Copied' = c /\ Entered' = e
  BY <1>1, <1>2 DEF NothingCopied
<1>6. Contents(Copied, Entered)'
  BY <1>4, <1>5, ContentsNow
<1> QED BY <1>6 DEF NothingCopied, FlashInv

LEMMA BlockFlash ==
  ASSUME AccessorInv, HandedIn, FlashInv, handed' = handed, WriteBlock
  PROVE  FlashInv'
<1>1. at = "block" /\ at \in Statements \ {"first", "lost"} /\ "sector" \in Statements
  BY DEF WriteBlock, Statements
<1>2. CASE err' # None
  <2>1. Flush("sector") \/ Skip("sector")
    BY DEF WriteBlock
  <2>2. CASE Flush("sector")
    <3>1. Ended("sector")
      BY <1>1, <2>2, FlushSets
    <3> QED BY <1>2, <3>1, FlashFailed DEF Ended
  <2>3. CASE Skip("sector")
    BY <1>1, <1>2, <2>3, SkipSets
  <2> QED BY <2>1, <2>2, <2>3
<1>3. CASE err' = None
  <2>1. /\ NothingCopied /\ NothingLost /\ at' = "sector"
        /\ UNCHANGED <<current_write_block_size, sector, last_packet_addr, todo>>
    BY <1>1, <1>3, Flushed, Skipped DEF WriteBlock
  <2>2. Entered' = Entered
    BY <1>1, <2>1 DEF Entered, NothingCopied
  <2>3. LastIs'
    <3>1. LastIs /\ Copied' = Copied
      BY <1>1, <2>1, Unlost DEF NothingCopied
    <3>2. Before(last_packet_addr) => Before(last_packet_addr)'
      BY <2>1, <3>1 DEF Before, sector
    <3>3. SectorEnd' = SectorEnd
      BY <2>1 DEF SectorEnd, sector
    <3> QED BY <1>1, <2>1, <3>1, <3>2, <3>3, NoStatement DEF LastIs, Statements
  <2> QED BY <1>1, <2>1, <2>2, <2>3, NoneEntered
<1> QED BY <1>2, <1>3

(* A page that holds something is in the sector of the packet.              *)
LEMMA LeftEmpty ==
  ASSUME AccessorInv, at = "sector", Left(current_sector_size)
  PROVE  page_buf_empty = TRUE
<1> DEFINE b == current_write_block_size
           c == current_sector_addr
           z == current_sector_size
           w == current_write_block_addr
           a == todo.addr
           l == last_packet_addr
<1>1. AccessorType /\ SectorSet /\ Positions
  BY Running DEF Statements
<1>2. ~page_buf_empty => w = RoundDown(a, b) /\ w = RoundDown(l, b)
  BY <1>1 DEF Positions
<1>3. /\ a \in Nat /\ l \in Nat /\ c \in Nat /\ z \in Nat /\ w \in Nat /\ b \in Nat
      /\ z > 0 /\ b > 0 /\ c % z = 0
  BY <1>1, SectorIs DEF AccessorType
<1>4. ASSUME ~page_buf_empty PROVE FALSE
  <2>1. c <= w /\ w + b <= c + z
    BY <1>1, <1>4 DEF SectorSet, BlockEnd, SectorEnd
  <2>2. w = RoundDown(a, b) /\ w = RoundDown(l, b)
    BY <1>2, <1>4
  <2>3. RoundDown(a, z) # RoundDown(l, z)
    BY DEF Left
  <2> HIDE DEF a, b, c, l, w, z
  <2>4. w <= a /\ a < w + b /\ w <= l /\ l < w + b
    BY <1>3, <2>2, Rounded
  <2>5. c <= a /\ a < c + z /\ c <= l /\ l < c + z
    BY <1>3, <2>1, <2>4
  <2>6. RoundDown(a, z) = c /\ RoundDown(l, z) = c
    BY <1>3, <2>5, RoundedIs
  <2> QED BY <2>3, <2>6
<1>5. page_buf_empty \in BOOLEAN
  BY <1>1, Zenon DEF AccessorType
<1> QED BY <1>4, <1>5

LEMMA EndEmpty ==
  ASSUME AccessorInv, at = "end", todo.addr >= SectorEnd
  PROVE  page_buf_empty = TRUE
<1>1. AccessorType /\ SectorSet /\ Positions
  BY Running DEF Statements
<1>2. todo.addr < BlockEnd
  BY <1>1 DEF Positions
<1>3. todo.addr \in Nat /\ SectorEnd \in Nat /\ BlockEnd \in Nat
  BY <1>1, EndsAre, SumNat DEF AccessorType
<1>4. ASSUME ~page_buf_empty PROVE FALSE
  <2>1. BlockEnd <= SectorEnd
    BY <1>1, <1>4 DEF SectorSet
  <2> QED BY <1>2, <1>3, <2>1
<1>5. page_buf_empty \in BOOLEAN
  BY <1>1, Zenon DEF AccessorType
<1> QED BY <1>4, <1>5

(* The end of the current sector is in another one.                         *)
LEMMA EndOfSector ==
  ASSUME AccessorType, SectorSet
  PROVE  /\ SectorOf(SectorEnd) = SectorEnd /\ SectorEnd # current_sector_addr
         /\ SectorEnd \in Nat /\ current_sector_addr \in Nat
         /\ \A x \in Nat : current_sector_addr <= x /\ x < SectorEnd => SectorOf(x) = current_sector_addr
<1> DEFINE c == current_sector_addr
           z == current_sector_size
<1>1. c \in Nat /\ z \in Nat /\ z # 0 /\ c = SectorOf(c) /\ z = SectorSize(c) /\ SectorEnd = c + z
  BY EndsAre DEF AccessorType, SectorSet
<1> HIDE DEF c, z
<1>2. SectorOf(c + z) = c + z
  BY <1>1, NextSector
<1>3. ASSUME NEW x \in Nat, c <= x, x < c + z PROVE SectorOf(x) = c
  <2>1. SectorOf(c) <= x /\ x < SectorOf(c) + SectorSize(c) /\ SectorSize(c) # 0
    BY <1>1, <1>3
  <2> QED BY <1>1, <2>1, SameSector
<1>4. c + z # c /\ c + z \in Nat
  BY <1>1
<1> QED BY <1>1, <1>2, <1>3, <1>4 DEF c

(* A sector is set up for the next byte, which enters it.                   *)
LEMMA SetupFlash ==
  ASSUME AccessorInv, HandedIn, FlashInv, handed' = handed, at \in {"sector", "end"},
         todo.data # <<>>, Entered = Copied, page_buf_empty = TRUE,
         NEW then \in {"flush", "copy"}, SetupSector(then),
         UNCHANGED <<current_sector_valid, last_packet_addr, page_buf_empty, todo, overrun>>,
         SectorSize(todo.addr) # 0 /\ Copied > 0 => Enters(Copied + 1)
  PROVE  FlashInv'
<1>1. /\ AccessorType /\ ~target.strayed /\ InOrder(target) /\ flash_state = "OPEN"
      /\ current_sector_valid /\ at \in Statements \ {"first", "lost"} /\ at # None
  BY Running, NoStatement DEF Statements
<1>2. Ended(then)
  BY <1>1, SetupEnds
<1>3. CASE err' # None
  BY <1>2, <1>3, FlashFailed DEF Ended
<1>4. CASE err' = None
  <2>1. at' = then /\ flash_state' = "OPEN" /\ at' # None /\ current_sector_valid' /\ at' # "lost"
    BY <1>1, <1>2, <1>4, NoStatement DEF Ended, Statements
  <2>2. page_buf_empty' = TRUE
    OBVIOUS
  <2>3. /\ target'.mem = Wiped(target.mem, SectorOf(todo.addr)) /\ SectorSize(todo.addr) # 0
    BY <1>1, <1>4, SetupEnds
  <2>4. /\ current_sector_addr' = SectorOf(todo.addr) /\ todo.addr < SectorEnd'
        /\ SectorSet'
    BY <1>1, <1>4, <2>2, SetupSets
  <2>5. TodoIs /\ Contents(Copied, Entered) /\ Copied \in Nat
    BY <1>1, Unlost
  <2>6. TodoIs' /\ Copied' = Copied
    BY <1>1, <2>1, <2>5, TodoSame
  <2>7. PICK c \in Nat : c = Copied
    BY <2>5
  <2>8. /\ c + 1 <= Len(handed) /\ handed[c + 1][1] = todo.addr
        /\ c > 0 => Enters(c + 1)
    BY <1>1, <2>3, <2>5, <2>7, CopiedIs
  <2>9. Contents(c, c)
    BY <2>5, <2>7, ContentsThen
  <2>10. Contents(c, c + 1)'
    BY <2>2, <2>3, <2>8, <2>9, ContentsErased
  <2>11. Entered' = c + 1 /\ Copied' = c
    BY <2>1, <2>4, <2>6, <2>7 DEF Entered
  <2>12. Contents(Copied, Entered)'
    BY <2>10, <2>11, ContentsNow
  <2>13. LastIs'
    <3>1. ~(todo'.addr >= SectorEnd')
      <4>1. todo.addr \in Nat /\ SectorEnd' \in Nat
        <5>1. current_sector_addr' \in Nat /\ current_sector_size' \in Nat
          BY <1>1, SetupEnds
        <5> QED BY <1>1, <5>1, EndsAre, SumNat DEF AccessorType
      <4> QED BY <2>4, <4>1
    <3> QED BY <2>1, <3>1, NoStatement DEF LastIs, Statements
  <2> QED BY <2>1, <2>6, <2>12, <2>13 DEF FlashInv
<1> QED BY <1>3, <1>4

(* The packet stays in the sector, or goes on where the last one ended it.  *)
LEMMA StaysInSector ==
  ASSUME AccessorInv, at = "sector", ~Left(current_sector_size), Skip("flush")
  PROVE  /\ todo.addr < SectorEnd =>
              SectorOf(todo.addr) = current_sector_addr /\ SectorOf(last_packet_addr) = current_sector_addr
         /\ todo.addr >= SectorEnd => last_packet_addr = SectorEnd
<1> DEFINE c == current_sector_addr
           z == current_sector_size
           a == todo.addr
           l == last_packet_addr
<1>1. AccessorType /\ SectorSet /\ Positions
  BY Running DEF Statements
<1>2. /\ a \in Nat /\ l \in Nat /\ c \in Nat /\ z \in Nat /\ z > 0 /\ c % z = 0 /\ SectorEnd = c + z
      /\ c <= l /\ l <= c + z
  BY <1>1, SectorIs, EndsAre DEF AccessorType, Positions, LastInside
<1>3. RoundDown(a, z) = RoundDown(l, z)
  BY DEF Left
<1>4. \A x \in Nat : c <= x /\ x < SectorEnd => SectorOf(x) = c
  BY <1>1, EndOfSector
<1>5. (c + z) % z = 0
  BY <1>2, Further
<1> HIDE DEF a, c, l, z
<1>6. RoundDown(l, z) = IF l < c + z THEN c ELSE l
  <2>1. CASE l < c + z
    BY <1>2, <2>1, RoundedIs
  <2>2. CASE ~(l < c + z)
    <3>1. l = c + z
      BY <1>2, <2>2
    <3>2. l % z = 0 /\ l <= l /\ l < l + z
      BY <1>2, <1>5, <3>1
    <3>3. RoundDown(l, z) = l
      BY <1>2, <3>2, RoundedIs
    <3> QED BY <2>2, <3>3
  <2> QED BY <2>1, <2>2
<1>7. RoundDown(a, z) <= a /\ a < RoundDown(a, z) + z
  BY <1>2, Rounded
<1>8. CASE l < c + z
  <2>1. c <= a /\ a < c + z
    BY <1>2, <1>3, <1>6, <1>7, <1>8
  <2>2. SectorOf(a) = c /\ SectorOf(l) = c
    BY <1>2, <1>4, <1>8, <2>1
  <2>3. ~(a >= SectorEnd)
    BY <1>2, <2>1
  <2> QED BY <2>2, <2>3 DEF a, c, l
<1>9. CASE l = c + z
  <2>1. ~(a < SectorEnd)
    BY <1>2, <1>3, <1>6, <1>7, <1>9
  <2> QED BY <1>2, <1>9, <2>1 DEF a, l
<1> QED BY <1>2, <1>8, <1>9

LEMMA SectorSetupFlash ==
  ASSUME AccessorInv, HandedIn, FlashInv, handed' = handed, WriteSector,
         Left(current_sector_size), SetupSector("flush"),
         UNCHANGED <<current_sector_valid, last_packet_addr, page_buf_empty, todo, overrun>>
  PROVE  FlashInv'
<1>1. at = "sector" /\ at \in Statements \ {"lost"} /\ at # "first"
  BY DEF WriteSector, Statements
<1>2. AccessorType /\ SectorSet /\ Positions /\ todo.data # <<>> /\ LastIs
  BY <1>1, Running, Unlost DEF Statements
<1>3. page_buf_empty = TRUE /\ Entered = Copied
  BY <1>1, LeftEmpty DEF Entered
<1>4. Copied \in Nat /\ Copied + 1 <= Len(handed) /\ handed[Copied + 1][1] = todo.addr
  BY <1>1, <1>2, Unlost, CopiedIs, NoStatement
<1>5. ASSUME SectorSize(todo.addr) # 0, Copied > 0 PROVE Enters(Copied + 1)
  <2> DEFINE c == current_sector_addr
             z == current_sector_size
             a == todo.addr
             l == last_packet_addr
             k == Copied + 1
             b == handed[Copied][1]
  <2>1. SectorOf(b) = c /\ b + 1 = l
    <3>1. Before(l)
      BY <1>1, <1>2, <1>4, <1>5 DEF LastIs
    <3> QED BY <3>1 DEF Before
  <2>2. /\ a \in Nat /\ l \in Nat /\ c \in Nat /\ z \in Nat /\ z > 0 /\ c % z = 0 /\ SectorEnd = c + z
        /\ c <= l /\ l <= c + z /\ z = SectorSize(c)
    BY <1>1, <1>2, SectorIs, EndsAre DEF AccessorType, Positions, LastInside, SectorSet
  <2>3. RoundDown(a, z) # RoundDown(l, z)
    BY DEF Left
  <2>4. SectorOf(SectorEnd) = SectorEnd /\ SectorEnd # c
    BY <1>2, EndOfSector
  <2>5. /\ SectorOf(a) \in Nat /\ SectorOf(a) <= a /\ a < SectorOf(a) + SectorSize(a)
        /\ SectorSize(a) \in Nat /\ SectorSize(a) > 0
    BY <1>5, <2>2, Located
  <2>6. SectorSize(a) # 0
    BY <1>5
  <2>7. k \in Nat /\ handed[k - 1][1] = b /\ handed[k][1] = a
    BY <1>4
  <2> HIDE DEF a, b, c, k, l, z
  <2>8. SectorOf(b) # SectorOf(a) \/ SectorOf(b + 1) # SectorOf(a)
    <3>1. SUFFICES ASSUME SectorOf(a) = c, SectorOf(l) = c PROVE FALSE
      BY <2>1
    <3>2. SectorOf(a) <= c /\ c < SectorOf(a) + SectorSize(a)
      BY <2>2, <2>5, <3>1
    <3>3. SectorSize(c) = SectorSize(a)
      BY <2>2, <2>6, <3>2, SameSector
    <3>4. c <= a /\ a < c + z
      BY <2>2, <2>5, <3>1, <3>3
    <3>5. l # c + z
      BY <2>2, <2>4, <3>1
    <3>6. l < c + z
      BY <2>2, <3>5
    <3>7. RoundDown(a, z) = c /\ RoundDown(l, z) = c
      BY <2>2, <3>4, <3>6, RoundedIs
    <3> QED BY <2>3, <3>7
  <2>9. Enters(k)
    BY <2>7, <2>8, EntersIs
  <2> QED BY <2>9 DEF k
<1> QED BY <1>1, <1>2, <1>3, <1>5, SetupFlash

LEMMA SectorSkipFlash ==
  ASSUME AccessorInv, HandedIn, FlashInv, handed' = handed, WriteSector,
         ~Left(current_sector_size), Skip("flush")
  PROVE  FlashInv'
<1>1. /\ at = "sector" /\ at \in Statements \ {"first", "lost"} /\ "flush" \in Statements
      /\ at # "first" /\ at \in Statements \ {"lost"}
  BY DEF WriteSector, Statements
<1>2. /\ NothingCopied /\ NothingLost /\ at' = "flush"
      /\ UNCHANGED <<current_write_block_size, sector, last_packet_addr, todo>>
  BY <1>1, Skipped
<1>3. /\ AccessorType /\ SectorSet /\ Positions /\ todo.data # <<>>
  BY <1>1, Running
<1>4. /\ LastIs /\ TodoIs /\ Contents(Copied, Entered) /\ Copied \in Nat
  BY <1>1, Unlost
<1>5. /\ todo.addr < SectorEnd =>
           SectorOf(todo.addr) = current_sector_addr /\ SectorOf(last_packet_addr) = current_sector_addr
      /\ todo.addr >= SectorEnd => last_packet_addr = SectorEnd
  BY <1>1, StaysInSector
<1>6. PICK c \in Nat : c = Copied
  BY <1>4
<1>7. Entered = c /\ Copied' = c /\ handed[c + 1][1] = todo.addr /\ c + 1 <= Len(handed)
  BY <1>1, <1>2, <1>3, <1>4, <1>6, CopiedIs, NoStatement DEF Entered, NothingCopied
<1>8. todo.addr \in Nat /\ SectorEnd \in Nat /\ SectorEnd' = SectorEnd /\ last_packet_addr \in Nat
  <2>1. SectorEnd' = SectorEnd
    BY <1>2 DEF SectorEnd, sector
  <2> QED BY <1>3, <2>1, EndsAre, SumNat DEF AccessorType
<1>9. Before(last_packet_addr) \/ (c = 0 /\ last_packet_addr < SectorEnd)
  BY <1>1, <1>4, <1>6 DEF LastIs
<1>10. LastIs'
  <2>1. todo.addr >= SectorEnd => Before(SectorEnd)
    BY <1>5, <1>8, <1>9
  <2>2. Copied' = Copied
    BY <1>2 DEF NothingCopied
  <2>3. todo'.addr >= SectorEnd' => Before(SectorEnd)'
    BY <1>2, <1>8, <2>1, <2>2 DEF Before, sector
  <2> QED BY <1>2, <1>3, <2>3, NoStatement DEF LastIs, Statements
<1>11. Contents(c, c)
  BY <1>4, <1>6, <1>7, ContentsThen
<1>12. CASE todo.addr < SectorEnd
  <2>1. Entered' = c + 1
    BY <1>2, <1>3, <1>7, <1>8, <1>12 DEF Entered
  <2>2. Contents(c, c + 1)
    <3>1. CASE c = 0
      BY <3>1 DEF Contents
    <3>2. CASE c > 0
      <4>1. /\ SectorOf(handed[c][1]) = current_sector_addr
            /\ handed[c][1] + 1 = last_packet_addr
        BY <1>6, <1>9, <3>2 DEF Before
      <4> DEFINE k == c + 1
      <4>2. k \in Nat /\ k - 1 = c /\ c + 1 .. k = {k}
        OBVIOUS
      <4>3. handed[k][1] = todo.addr
        BY <1>7
      <4> HIDE DEF k
      <4>4. ~Enters(k)
        BY <1>5, <1>12, <4>1, <4>2, <4>3, EntersIs
      <4>5. \A x \in c + 1 .. k : ~Enters(x)
        BY <4>2, <4>4
      <4>6. c <= c /\ c <= k
        BY <4>2
      <4>7. Contents(c, k)
        BY <1>11, <4>2, <4>5, <4>6, ContentsMore
      <4> QED BY <4>7 DEF k
    <3> QED BY <3>1, <3>2
  <2>3. Contents(c, c + 1)'
    BY <1>2, <1>7, <2>2 DEF NothingLost
  <2>4. Contents(Copied, Entered)'
    BY <1>7, <2>1, <2>3, ContentsNow
  <2> QED BY <1>2, <1>10, <2>4 DEF FlashInv, NothingCopied
<1>13. CASE ~(todo.addr < SectorEnd)
  <2>1. Entered' = Entered
    BY <1>2, <1>7, <1>8, <1>13 DEF Entered
  <2> QED BY <1>1, <1>2, <1>10, <2>1, NoneEntered
<1> QED BY <1>12, <1>13

LEMMA SectorFlash ==
  ASSUME AccessorInv, HandedIn, FlashInv, handed' = handed, WriteSector
  PROVE  FlashInv'
BY SectorSetupFlash, SectorSkipFlash DEF WriteSector

LEMMA FlushFlash ==
  ASSUME AccessorInv, HandedIn, FlashInv, handed' = handed, WriteFlush
  PROVE  FlashInv'
<1>1. at = "flush" /\ at \in Statements \ {"first", "lost"} /\ at # "first" /\ "end" \in Statements
      /\ at \in Statements \ {"lost"}
  BY DEF WriteFlush, Statements
<1>2. CASE err' # None
  <2>1. CASE Flush("end")
    <3>1. Ended("end")
      BY <1>1, <2>1, FlushSets
    <3> QED BY <1>2, <3>1, FlashFailed DEF Ended
  <2>2. CASE Skip("end")
    BY <1>1, <1>2, <2>2, SkipSets
  <2> QED BY <2>1, <2>2 DEF WriteFlush
<1>3. CASE err' = None
  <2>1. /\ NothingCopied /\ NothingLost /\ at' = "end"
        /\ UNCHANGED <<current_write_block_size, sector, last_packet_addr, todo>>
    BY <1>1, <1>3, Flushed, Skipped DEF WriteFlush
  <2>2. SectorEnd' = SectorEnd
    BY <2>1 DEF SectorEnd, sector
  <2>3. Entered' = Entered
    BY <1>1, <2>1, <2>2 DEF Entered, NothingCopied
  <2>4. LastIs'
    <3>1. LastIs /\ Copied' = Copied
      BY <1>1, <2>1, Unlost DEF NothingCopied
    <3>2. /\ Before(todo.addr) => Before(todo.addr)'
          /\ Before(SectorEnd) => Before(SectorEnd)'
      BY <2>1, <2>2, <3>1 DEF Before, sector
    <3> QED BY <1>1, <2>1, <2>2, <3>1, <3>2, NoStatement DEF LastIs, Statements
  <2> QED BY <1>1, <2>1, <2>3, <2>4, NoneEntered
<1> QED BY <1>2, <1>3

LEMMA EndFlash ==
  ASSUME AccessorInv, HandedIn, FlashInv, handed' = handed, WriteEnd
  PROVE  FlashInv'
<1>1. at = "end" /\ at \in Statements \ {"lost"} /\ at # "first" /\ todo.data = <<>> /\ at # None
  BY NoStatement DEF WriteEnd, Statements
<1>2. /\ at' = None /\ last_packet_addr' = todo.addr
      /\ UNCHANGED <<target, flash_state, current_sector_valid, block, sector, page>>
  BY DEF WriteEnd
<1>3. AccessorType /\ flash_state = "OPEN" /\ current_sector_valid
  BY <1>1, Running
<1>4. TodoIs /\ LastIs /\ Contents(Copied, Entered) /\ Copied \in Nat /\ Copied <= Len(handed)
  BY <1>1, Unlost
<1>5. Len(handed) = Copied
  <2>1. Len(todo.data) = 0 /\ Len(handed) = Copied + Len(todo.data)
    BY <1>1, <1>3, <1>4, CopiedIs
  <2> QED BY <1>4, <2>1
<1>6. Copied' = Copied /\ Entered' = Copied /\ Entered = Copied
  BY <1>1, <1>2, <1>5, NoStatement DEF Copied, Entered, Statements
<1>7. TodoIs'
  BY <1>2 DEF TodoIs
<1>8. Before(todo.addr)
  BY <1>1, <1>4 DEF LastIs
<1>9. LastIs'
  <2>1. Before(last_packet_addr)'
    BY <1>2, <1>6, <1>8 DEF Before, sector
  <2> QED BY <1>2, <2>1, NoStatement DEF LastIs, Statements
<1>10. Contents(Copied, Entered)'
  <2>1. PICK c \in Nat : c = Copied
    BY <1>4
  <2>2. Contents(c, c)
    BY <1>4, <1>6, <2>1, ContentsThen
  <2>3. \A x \in Addresses : \A v : Holding(x, v) => Holding(x, v)'
    BY <1>2, HoldingSame
  <2>4. Contents(c, c)'
    BY <1>4, <2>1, <2>2, <2>3, ContentsKept
  <2> QED BY <1>6, <2>1, <2>4, ContentsNow
<1> QED BY <1>2, <1>3, <1>7, <1>9, <1>10 DEF FlashInv

LEMMA ChangeFlash ==
  ASSUME AccessorInv, HandedIn, FlashInv, handed' = handed, WriteChange
  PROVE  FlashInv'
<1>1. /\ at = "end" /\ at \in Statements \ {"first", "lost"} /\ at # "first" /\ "copy" \in Statements
      /\ at \in Statements \ {"lost"} /\ todo.data # <<>> /\ at # None
  BY NoStatement DEF WriteChange, Statements
<1>2. AccessorType /\ SectorSet /\ Positions
  BY <1>1, Running
<1>3. TodoIs /\ LastIs /\ Copied \in Nat
  BY <1>1, Unlost
<1>4. Copied + 1 <= Len(handed) /\ handed[Copied + 1][1] = todo.addr
  BY <1>1, <1>2, <1>3, CopiedIs
<1>5. todo.addr \in Nat /\ SectorEnd \in Nat
  BY <1>2, EndsAre, SumNat DEF AccessorType
<1>6. CASE todo.addr >= SectorEnd /\ SetupSector("copy") /\
           UNCHANGED <<current_sector_valid, last_packet_addr, page_buf_empty, todo, overrun>>
  <2>1. page_buf_empty = TRUE
    BY <1>1, <1>6, EndEmpty
  <2>2. Entered = Copied
    BY <1>1, <1>5, <1>6 DEF Entered
  <2>3. Enters(Copied + 1)
    <3> DEFINE k == Copied + 1
               b == handed[Copied][1]
               a == todo.addr
    <3>1. Before(SectorEnd)
      BY <1>1, <1>6 , <1>3 DEF LastIs
    <3>2. SectorOf(b) = current_sector_addr /\ b + 1 = SectorEnd
      BY <3>1 DEF Before
    <3>3. SectorOf(SectorEnd) = SectorEnd /\ SectorEnd # current_sector_addr
      BY <1>2, EndOfSector
    <3>4. k \in Nat /\ handed[k - 1][1] = b /\ handed[k][1] = a
      BY <1>3, <1>4
    <3> HIDE DEF k, a, b
    <3>5. SectorOf(b) # SectorOf(a) \/ SectorOf(b + 1) # SectorOf(a)
      BY <3>2, <3>3
    <3>6. Enters(k)
      BY <3>4, <3>5, EntersIs
    <3> QED BY <3>6 DEF k
  <2> QED BY <1>1, <1>6, <2>1, <2>2, <2>3, SetupFlash
<1>7. CASE todo.addr < SectorEnd /\ Skip("copy")
  <2>1. /\ NothingCopied /\ NothingLost /\ at' = "copy"
        /\ UNCHANGED <<current_write_block_size, sector, last_packet_addr, todo>>
    BY <1>1, <1>7, Skipped
  <2>2. Entered' = Entered
    BY <1>1, <1>7, <2>1 DEF Entered, NothingCopied
  <2>3. LastIs'
    BY <2>1, NoStatement DEF LastIs, Statements
  <2> QED BY <1>1, <2>1, <2>2, <2>3, NoneEntered
<1> QED BY <1>6, <1>7 DEF WriteChange

LEMMA BeyondFlash ==
  ASSUME AccessorInv, HandedIn, FlashInv, handed' = handed, WriteBeyond
  PROVE  FlashInv'
<1>1. /\ at = "copy" /\ at' = "lost" /\ at \in Statements \ {"first", "lost"} /\ at # None /\ at' # None
      /\ UNCHANGED <<flash_state, current_sector_valid, todo>>
  BY NoStatement DEF WriteBeyond, Statements
<1>2. AccessorType /\ flash_state = "OPEN" /\ current_sector_valid
  BY <1>1, Running
<1>3. TodoIs
  BY <1>2 DEF FlashInv
<1>4. TodoIs'
  BY <1>1, <1>3, TodoSame
<1> QED BY <1>1, <1>2, <1>4 DEF FlashInv

(* The bytes that are copied, and those that are left.                      *)
LEMMA CopyFacts ==
  ASSUME AccessorInv, HandedIn, FlashInv, handed' = handed, WriteCopy
  PROVE  /\ Copied \in Nat /\ Taken \in Nat /\ Taken > 0 /\ Copied + Taken <= Len(handed)
         /\ Copied' = Copied + Taken /\ TodoIs' /\ Entered = Copied + 1
         /\ \A j \in 1 .. Taken : handed[Copied + j] = <<(todo.addr + j) - 1, todo.data[j]>>
         /\ todo'.addr = todo.addr + Taken
         /\ todo'.data # <<>> =>
              /\ (Copied + Taken) + 1 <= Len(handed)
              /\ handed[(Copied + Taken) + 1][1] = todo.addr + Taken
<1> DEFINE c == Copied
           n == Taken
           a == todo.addr
           d == todo.data
           k == Len(todo.data)
           h == Len(handed)
<1>1. at = "copy" /\ at # None /\ at \in Statements \ {"lost"}
  BY NoStatement DEF WriteCopy, Statements
<1>2. /\ AccessorType /\ n \in 1 .. k /\ at' = "flush" /\ at' # None
      /\ todo' = [addr |-> a + n, data |-> SubSeq(d, n + 1, k)]
  BY Copies, NoStatement DEF Statements
<1>3. TodoIs /\ c \in Nat
  BY <1>1, Unlost
<1>4. /\ k \in Nat /\ h = c + k /\ a \in Nat /\ d \in Seq(Bytes)
      /\ \A i \in 1 .. k : handed[c + i] = <<(a + i) - 1, d[i]>>
  BY <1>1, <1>2, <1>3, CopiedIs DEF AccessorType
<1> DEFINE e == SubSeq(d, n + 1, k)
<1>5. /\ e \in Seq(Bytes) /\ Len(e) = k - n
      /\ \A i \in 1 .. k - n : e[i] = d[n + i]
  <2>1. n + 1 \in Nat /\ n \in Nat /\ k = Len(d)
    BY <1>2, <1>4
  <2> HIDE DEF n, d, k
  <2>2. e \in Seq(Bytes) /\ Len(e) = k - n
    BY <1>2, <1>4, <2>1
  <2>3. ASSUME NEW i \in 1 .. k - n PROVE e[i] = d[n + i]
    <3>1. \A j \in (n + 1) .. k : d[j] \in Bytes
      BY <1>4, <2>1, ElementOfSeq
    <3>0. k \in Nat /\ n \in Nat
      BY <1>4, <2>1
    <3>2. n + 1 \in Int /\ k \in Int /\ i \in 1 .. (k - (n + 1)) + 1 /\ ((n + 1) + i) - 1 = n + i
      BY <3>0
    <3>3. \A j \in 1 .. (k - (n + 1)) + 1 : e[j] = d[((n + 1) + j) - 1]
      BY <3>1, <3>2, SubSeqProperties
    <3> DEFINE q == ((n + 1) + i) - 1
    <3>4. e[i] = d[q]
      BY <3>2, <3>3
    <3>5. q = n + i
      BY <3>2
    <3> HIDE DEF q
    <3> QED BY <3>4, <3>5
  <2> QED BY <2>2, <2>3
<1>6. Copied' = h - (k - n)
  BY <1>2, <1>5 DEF Copied
<1> HIDE DEF e
<1>7. todo'.addr = a + n /\ todo'.data = e
  BY <1>2 DEF e
<1> HIDE DEF c, n, a, d, k, h
<1>8. n \in Nat /\ n > 0 /\ c + n <= h /\ Copied' = c + n
  BY <1>2, <1>3, <1>4, <1>6
<1>9. \A j \in 1 .. n : handed[c + j] = <<(a + j) - 1, d[j]>>
  BY <1>2, <1>4
<1>10. ASSUME NEW i \in 1 .. k - n PROVE handed[(c + n) + i] = <<((a + n) + i) - 1, e[i]>>
  <2> DEFINE j == n + i
  <2>1. j \in 1 .. k /\ c + j = (c + n) + i /\ (a + j) - 1 = ((a + n) + i) - 1
    BY <1>2, <1>3, <1>4
  <2>2. e[i] = d[j]
    BY <1>5
  <2> HIDE DEF j
  <2> QED BY <1>4, <2>1, <2>2
<1>11. TodoIs'
  <2>1. Len(todo'.data) <= Len(handed')
    BY <1>2, <1>3, <1>4, <1>5, <1>7 DEF h
  <2>2. \A i \in 1 .. Len(todo'.data) :
           handed'[Copied' + i] = <<(todo'.addr + i) - 1, todo'.data[i]>>
    BY <1>5, <1>7, <1>8, <1>10
  <2> QED BY <1>2, <2>1, <2>2 DEF TodoIs
<1>12. ASSUME todo'.data # <<>>
       PROVE  (c + n) + 1 <= h /\ handed[(c + n) + 1][1] = a + n
  <2>1. 1 \in 1 .. k - n
    BY <1>5, <1>7, <1>12
  <2>2. ((a + n) + 1) - 1 = a + n
    BY <1>4, <1>8
  <2>3. (c + n) + 1 <= h
    BY <1>2, <1>3, <1>4, <2>1
  <2> QED BY <1>10, <2>1, <2>2, <2>3
<1>13. Entered = c + 1
  BY <1>1 DEF Entered, c
<1> QED BY <1>3, <1>7, <1>8, <1>9, <1>11, <1>12, <1>13 DEF c, n, a, d, h

(* What is not copied over stays.                                           *)
LEMMA HoldingCopied ==
  ASSUME AccessorInv, WriteCopy, NEW x \in Addresses, NEW v,
         x < todo.addr \/ x >= todo.addr + Taken, Holding(x, v)
  PROVE  Holding(x, v)'
<1> DEFINE w == current_write_block_addr
           b == current_write_block_size
           a == todo.addr
           n == Taken
           p == (x - w) + 1
<1>1. /\ AccessorType /\ SectorSet /\ w <= a /\ n \in 1 .. Len(todo.data) /\ a + n <= BlockEnd
      /\ page_buf_empty' = FALSE
      /\ page_buffer' = [i \in 1 .. PageBuffer |->
                              IF i > CopyStart /\ i <= CopyStart + n
                              THEN todo.data[i - CopyStart] ELSE page_buffer[i]]
      /\ UNCHANGED <<target, block>>
  BY Copies
<1>2. page_buf_empty => page_buffer = EmptyPage
  BY DEF AccessorInv
<1>3. /\ w \in Nat /\ b \in Nat /\ a \in Nat /\ n \in Nat /\ x \in Nat /\ PageBuffer \in Nat
      /\ b <= PageBuffer /\ BlockEnd = w + b /\ CopyStart = a - w
  BY <1>1, SectorIs, EndsAre, TargetFlashAssumption DEF AccessorType, CopyStart
<1>4. InBlock(x)' <=> InBlock(x)
  BY <1>1 DEF InBlock, BlockEnd, block
<1>5. CASE ~InBlock(x)
  BY <1>1, <1>4, <1>5 DEF Holding
<1>6. CASE InBlock(x)
  <2>1. x >= w /\ x < w + b
    BY <1>3, <1>6 DEF InBlock
  <2>2. Paged(x)' = page_buffer'[p] /\ Paged(x) = page_buffer[p]
    BY <1>1 DEF Paged, block
  <2>3. page_buf_empty \in BOOLEAN
    BY <1>1, Zenon DEF AccessorType
  <2> HIDE DEF w, b, a, n
  <2>4. p \in 1 .. PageBuffer /\ ~(p > CopyStart /\ p <= CopyStart + n)
    BY <1>1, <1>3, <2>1 DEF a, n
  <2> HIDE DEF p
  <2>5. page_buffer'[p] = page_buffer[p]
    BY <1>1, <2>4
  <2>6. CASE ~page_buf_empty
    BY <1>1, <1>4, <1>6, <2>2, <2>5, <2>6 DEF Holding
  <2>7. CASE page_buf_empty
    <3>1. target'.mem[x] = v
      BY <1>1, <2>7 DEF Holding
    <3>2. Paged(x)' = FF
      BY <1>2, <2>2, <2>4, <2>5, <2>7 DEF EmptyPage
    <3> QED BY <1>1, <1>4, <1>6, <3>1, <3>2 DEF Holding
  <2> QED BY <2>3, <2>6, <2>7
<1> QED BY <1>5, <1>6

(* What is copied is in the page.                                           *)
LEMMA HoldingCopy ==
  ASSUME AccessorInv, WriteCopy, NEW j \in 1 .. Taken, NEW x, x = (todo.addr + j) - 1,
         NEW v, v = todo.data[j]
  PROVE  Holding(x, v)' /\ SectorOf(x) = current_sector_addr
<1> DEFINE w == current_write_block_addr
           b == current_write_block_size
           a == todo.addr
           n == Taken
           p == (x - w) + 1
<1>1. /\ AccessorType /\ SectorSet /\ w <= a /\ n \in 1 .. Len(todo.data) /\ a + n <= BlockEnd
      /\ current_sector_addr <= w /\ BlockEnd <= SectorEnd
      /\ CopyStart \in Nat /\ CopyStart + n <= PageBuffer
      /\ page_buf_empty' = FALSE
      /\ page_buffer' = [i \in 1 .. PageBuffer |->
                              IF i > CopyStart /\ i <= CopyStart + n
                              THEN todo.data[i - CopyStart] ELSE page_buffer[i]]
      /\ UNCHANGED <<target, block>>
  BY Copies
<1>2. /\ w \in Nat /\ b \in Nat /\ a \in Nat /\ n \in Nat /\ PageBuffer \in Nat
      /\ BlockEnd = w + b /\ CopyStart = a - w /\ current_sector_addr \in Nat /\ SectorEnd \in Nat
  BY <1>1, EndsAre, FlashAccessorAssumption, SumNat DEF AccessorType, CopyStart
<1>3. \A y \in Nat : current_sector_addr <= y /\ y < SectorEnd => SectorOf(y) = current_sector_addr
  BY <1>1, EndOfSector
<1>4. x = (a + j) - 1 /\ j \in Nat /\ j >= 1 /\ j <= n
  BY <1>2
<1> HIDE DEF w, b, a, n
<1>5. /\ x \in Nat /\ x >= w /\ x < w + b /\ current_sector_addr <= x /\ x < SectorEnd
      /\ p \in 1 .. PageBuffer /\ p > CopyStart /\ p <= CopyStart + n /\ p - CopyStart = j
  BY <1>1, <1>2, <1>4
<1>6. SectorOf(x) = current_sector_addr
  BY <1>3, <1>5
<1> HIDE DEF p
<1>7. page_buffer'[p] = v
  BY <1>1, <1>5
<1>8. w' = w /\ BlockEnd' = w + b
  BY <1>1, <1>2 DEF block, BlockEnd, w, b
<1>9. Holding(x, v)'
  <2>1. InBlock(x)'
    BY <1>5, <1>8 DEF InBlock, w
  <2>2. Paged(x)' = v
    BY <1>7, <1>8 DEF Paged, p, w
  <2> QED BY <1>1, <2>1, <2>2 DEF Holding
<1> QED BY <1>6, <1>9

(* The bytes behind the first one of a copy are in the current sector too,  *)
(* the one that follows included if it is in front of the sector's end.     *)
LEMMA CopyEnters ==
  ASSUME AccessorInv, HandedIn, FlashInv, handed' = handed, WriteCopy,
         NEW k \in Nat, k > Copied + 1,
         \/ k <= Copied + Taken
         \/ k = (Copied + Taken) + 1 /\ todo'.data # <<>> /\ todo'.addr < SectorEnd
  PROVE  ~Enters(k)
<1> DEFINE c == Copied
           n == Taken
           a == todo.addr
           j == k - c
           b == handed[k - 1][1]
           d == handed[k][1]
<1>1. /\ c \in Nat /\ n \in Nat /\ n > 0
      /\ \A i \in 1 .. n : handed[c + i][1] = (a + i) - 1
      /\ todo'.addr = a + n
      /\ todo'.data # <<>> => handed[(c + n) + 1][1] = a + n
  BY CopyFacts
<1>2. /\ AccessorType /\ SectorSet /\ current_sector_addr <= current_write_block_addr
      /\ current_write_block_addr <= a /\ a + n <= BlockEnd /\ BlockEnd <= SectorEnd
  BY Copies
<1>3. /\ a \in Nat /\ current_sector_addr \in Nat /\ SectorEnd \in Nat /\ BlockEnd \in Nat
      /\ current_write_block_addr \in Nat
  BY <1>2, EndsAre, SumNat DEF AccessorType
<1>4. \A x \in Nat : current_sector_addr <= x /\ x < SectorEnd => SectorOf(x) = current_sector_addr
  BY <1>2, EndOfSector
<1>5. k <= c + n \/ (k = (c + n) + 1 /\ todo'.data # <<>> /\ todo'.addr < SectorEnd)
  OBVIOUS
<1>6. k \in Nat /\ k > c + 1
  OBVIOUS
<1> HIDE DEF c, n, a, b, d
<1>7. j \in Nat /\ j > 1 /\ k = c + j /\ k - 1 = c + (j - 1) /\ j - 1 \in 1 .. n
  BY <1>1, <1>5, <1>6
<1> HIDE DEF j
<1>8. b = (a + (j - 1)) - 1
  BY <1>1, <1>7 DEF b
<1>9. d = (a + j) - 1 /\ d < SectorEnd
  <2>1. CASE k <= c + n
    <3>1. j \in 1 .. n /\ (a + j) - 1 < SectorEnd
      BY <1>1, <1>2, <1>3, <1>7, <2>1
    <3> QED BY <1>1, <1>7, <3>1 DEF d
  <2>2. CASE k = (c + n) + 1 /\ todo'.data # <<>> /\ todo'.addr < SectorEnd
    <3>1. d = a + n /\ j = n + 1 /\ a + n < SectorEnd
      BY <1>1, <1>7, <2>2 DEF d
    <3> QED BY <1>1, <1>3, <3>1
  <2> QED BY <1>5, <2>1, <2>2
<1>10. b \in Nat /\ d \in Nat /\ b + 1 = d /\ current_sector_addr <= b /\ b < SectorEnd
       /\ current_sector_addr <= d
  BY <1>2, <1>3, <1>7, <1>8, <1>9
<1>11. SectorOf(b) = current_sector_addr /\ SectorOf(d) = current_sector_addr
  BY <1>4, <1>9, <1>10
<1>12. handed[k - 1][1] = b /\ handed[k][1] = d
  BY DEF b, d
<1> QED BY <1>6, <1>10, <1>11, <1>12, EntersIs

LEMMA CopyContents ==
  ASSUME AccessorInv, HandedIn, FlashInv, handed' = handed, WriteCopy, NEW c \in Nat, c = Copied,
         NEW m \in Nat, m = c + Taken, NEW f \in Nat, m <= f,
         \A k \in c + 2 .. f : ~Enters(k)
  PROVE  Contents(m, f)'
<1> DEFINE n == Taken
           a == todo.addr
<1>1. /\ n \in Nat /\ n > 0 /\ m <= Len(handed) /\ Entered = c + 1
      /\ \A j \in 1 .. n : handed[c + j] = <<(a + j) - 1, todo.data[j]>>
  BY CopyFacts
<1>2. AccessorType /\ at \in Statements \ {"lost"}
  BY Copies DEF WriteCopy, Statements
<1>3. Contents(c, f)
  <2> DEFINE e == c + 1
  <2>1. Contents(c, e)
    BY <1>1, <1>2, Unlost, ContentsThen
  <2>2. e \in Nat /\ c <= e /\ e <= f /\ e + 1 .. f = c + 2 .. f
    BY <1>1
  <2> HIDE DEF e
  <2> QED BY <2>1, <2>2, ContentsMore
<1>4. SUFFICES ASSUME NEW i \in 1 .. m, Newest(i, m)'
               PROVE  Holding(handed[i][1], Wanted(i, f))'
  BY DEF Contents
<1>5. Newest(i, m)
  BY <1>4 DEF Newest
<1>6. i \in 1 .. Len(handed) /\ handed[i][1] \in Addresses /\ handed[i][1] \in Nat
  <2>1. Len(handed) \in Nat
    BY DEF HandedIn
  <2>2. i \in 1 .. Len(handed)
    BY <1>1, <2>1
  <2> QED BY <2>2 DEF HandedIn
<1>7. Wanted(i, f)' = Wanted(i, f) /\ handed'[i][1] = handed[i][1]
  BY DEF Wanted, Again, Enters
<1>8. PICK x \in Addresses : x = handed[i][1]
  BY <1>6
<1>9. PICK v : v = Wanted(i, f)
  OBVIOUS
<1>10. a \in Nat
  BY <1>2 DEF AccessorType
<1> HIDE DEF n, a
<1>11. CASE i <= c
  <2>1. i \in 1 .. c
    BY <1>11
  <2>2. Newest(i, c)
    BY <1>1, <1>5, <2>1 DEF Newest, n
  <2>3. Holding(x, v)
    BY <1>3, <1>8, <1>9, <2>1, <2>2 DEF Contents
  <2>4. x < a \/ x >= a + n
    <3>1. SUFFICES ASSUME x >= a, x < a + n PROVE FALSE
      BY <1>1, <1>6, <1>8, <1>10
    <3> DEFINE j == (x - a) + 1
    <3>2. j \in 1 .. n /\ (a + j) - 1 = x
      BY <1>1, <1>6, <1>8, <1>10, <3>1
    <3> HIDE DEF j
    <3>3. handed[c + j][1] = x
      BY <1>1, <3>2
    <3>4. c + j \in i + 1 .. m
      BY <1>1, <1>11, <3>2 DEF n
    <3> QED BY <1>5, <1>8, <3>3, <3>4 DEF Newest
  <2>5. Holding(x, v)'
    BY <2>3, <2>4, HoldingCopied DEF a, n
  <2>6. Holding(handed[i][1], Wanted(i, f))'
    BY <1>7, <1>8, <1>9, <2>5 DEF Holding, InBlock, Paged, BlockEnd
  <2> QED BY <2>6
<1>12. CASE i > c
  <2> DEFINE j == i - c
  <2>1. j \in 1 .. n /\ i = c + j
    BY <1>1, <1>12 DEF n
  <2> HIDE DEF j
  <2>2. handed[i] = <<(a + j) - 1, todo.data[j]>>
    BY <1>1, <2>1
  <2>3. ~Again(i, f)
    <3>1. i + 1 .. f \subseteq c + 2 .. f
      BY <1>12
    <3> QED BY <3>1 DEF Again
  <2>4. x = (a + j) - 1 /\ v = todo.data[j]
    BY <1>8, <1>9, <2>2, <2>3 DEF Wanted
  <2>5. Holding(x, v)'
    BY <2>1, <2>4, HoldingCopy DEF a, n
  <2>6. Holding(handed[i][1], Wanted(i, f))'
    BY <1>7, <1>8, <1>9, <2>5 DEF Holding, InBlock, Paged, BlockEnd
  <2> QED BY <2>6
<1> QED BY <1>11, <1>12

LEMMA CopyFlash ==
  ASSUME AccessorInv, HandedIn, FlashInv, handed' = handed, WriteCopy
  PROVE  FlashInv'
<1> DEFINE n == Taken
           a == todo.addr
<1>1. /\ Copied \in Nat /\ n \in Nat /\ n > 0 /\ Copied + n <= Len(handed)
      /\ Copied' = Copied + n /\ TodoIs'
      /\ \A j \in 1 .. n : handed[Copied + j] = <<(a + j) - 1, todo.data[j]>>
      /\ todo'.addr = a + n
  BY CopyFacts
<1>2. /\ AccessorType /\ SectorSet /\ flash_state = "OPEN" /\ at' = "flush"
      /\ a + n <= BlockEnd /\ BlockEnd <= SectorEnd
      /\ UNCHANGED <<flash_state, current_sector_valid, sector>>
  BY Copies
<1>3. current_sector_valid
  BY Running DEF WriteCopy, Statements
<1>4. a \in Nat /\ SectorEnd \in Nat /\ BlockEnd \in Nat /\ SectorEnd' = SectorEnd
  BY <1>2, EndsAre, SumNat DEF AccessorType, sector
<1>5. current_sector_addr' = current_sector_addr
  BY <1>2 DEF sector
<1>6. PICK y \in Nat : y = a + n
  BY <1>1, <1>4
<1>7. PICK c \in Nat : c = Copied
  BY <1>1
<1>8. PICK m \in Nat : m = c + n
  BY <1>1, <1>7
<1>9. Before(y)'
  <2>1. n \in 1 .. n
    BY <1>1
  <2>2. handed[m][1] = (a + n) - 1
    BY <1>1, <1>7, <1>8, <2>1
  <2>3. PICK x : x = (a + n) - 1
    OBVIOUS
  <2>4. PICK v : v = todo.data[n]
    OBVIOUS
  <2>5. SectorOf(x) = current_sector_addr
    BY <2>1, <2>3, <2>4, HoldingCopy
  <2> HIDE DEF a, n
  <2>6. x + 1 = y /\ m > 0
    BY <1>1, <1>4, <1>6, <1>7, <1>8, <2>3
  <2>7. Copied' = m
    BY <1>1, <1>7, <1>8
  <2>8. handed'[m][1] = x
    BY <2>2, <2>3
  <2> QED BY <1>5, <2>5, <2>6, <2>7, <2>8 DEF Before
<1>10. PICK s \in Nat : s = SectorEnd
  BY <1>4
<1> DEFINE more == todo'.data # <<>> /\ todo'.addr < SectorEnd
           more1 == IF more THEN m + 1 ELSE m
<1>11. todo'.addr = y /\ y <= s /\ m \in Nat /\ c \in Nat /\ SectorEnd' = s
  BY <1>1, <1>2, <1>4, <1>6, <1>10
<1>f. PICK f \in Nat : f = more1
  BY <1>11
<1>12. LastIs'
  <2>1. (at' \in {None, "block", "sector"}) = FALSE
    BY <1>2, NoStatement DEF Statements
  <2>2. todo'.data = <<>> => Before(todo.addr)'
    BY <1>9, <1>11 DEF Before
  <2>3. todo'.addr >= SectorEnd' => Before(SectorEnd)'
    <3>1. todo'.addr >= SectorEnd' => y = s
      BY <1>11
    <3> QED BY <1>9, <1>11, <3>1 DEF Before
  <2> QED BY <2>1, <2>2, <2>3 DEF LastIs, Before
<1>13. Entered' = f /\ Copied' = m
  <2>1. Copied' = m
    BY <1>1, <1>7, <1>8
  <2> HIDE DEF a, n
  <2>2. Entered' = IF more THEN Copied' + 1 ELSE Copied'
    BY <1>2, <1>4 DEF Entered
  <2> QED BY <1>f, <2>1, <2>2
<1>14. m <= f /\ f <= m + 1 /\ (f = m + 1 => more)
  <2> HIDE DEF more
  <2> QED BY <1>11, <1>f
<1>15. ASSUME NEW k \in c + 2 .. f PROVE ~Enters(k)
  <2> HIDE DEF n
  <2>1. k \in Nat /\ k > Copied + 1
    BY <1>7, <1>11, <1>14
  <2>2. k <= Copied + n \/ (k = (Copied + n) + 1 /\ todo'.data # <<>> /\ todo'.addr < SectorEnd)
    <3> HIDE DEF more
    <3>1. k <= m \/ (k = m + 1 /\ more)
      BY <1>11, <1>14
    <3> QED BY <1>7, <1>8, <3>1 DEF more
  <2> QED BY <2>1, <2>2, CopyEnters DEF n
<1>16. Contents(m, f)'
  <2> QED BY <1>7, <1>8, <1>14, <1>15, CopyContents
<1>17. Contents(Copied, Entered)'
  <2> QED BY <1>11, <1>13, <1>14, <1>16, ContentsNow
<1> QED BY <1>1, <1>2, <1>3, <1>12, <1>17 DEF FlashInv

LEMMA WriteFlash ==
  ASSUME AccessorInv, HandedIn, FlashInv, handed' = handed, WriteStep
  PROVE  FlashInv'
BY FirstFlash, BlockFlash, SectorFlash, FlushFlash, EndFlash, ChangeFlash, CopyFlash, BeyondFlash
   DEF WriteStep

(* The bytes of a packet come behind those handed over before.              *)
LEMMA HandedOn ==
  ASSUME HandedIn, NEW a \in Nat, NEW data \in Seq(Bytes), NEW n, n = Len(handed),
         handed' = handed \o Addressed(a, data)
  PROVE  /\ n \in Nat /\ Len(handed') = n + Len(data)
         /\ \A i \in 1 .. n : handed'[i] = handed[i]
         /\ \A i \in 1 .. Len(data) : handed'[n + i] = <<(a + i) - 1, data[i]>>
<1> DEFINE s == Addressed(a, data)
<1>0. Len(data) \in Nat
  OBVIOUS
<1>1. /\ s \in Seq(Pairs) /\ Len(s) = Len(data)
      /\ \A i \in 1 .. Len(data) : s[i] = <<(a + i) - 1, data[i]>>
  BY AddressedIs, Zenon
<1>2. handed \in Seq(Pairs) /\ handed' = handed \o s
  BY DEF HandedIn
<1> HIDE DEF s
<1>3. /\ Len(handed \o s) = n + Len(s) /\ n \in Nat
      /\ \A i \in 1 .. n + Len(s) : (handed \o s)[i] = IF i <= n THEN handed[i] ELSE s[i - n]
  <2>1. /\ Len(handed \o s) = Len(handed) + Len(s)
        /\ \A i \in 1 .. Len(handed) + Len(s) :
             (handed \o s)[i] = IF i <= Len(handed) THEN handed[i] ELSE s[i - Len(handed)]
    BY <1>1, <1>2, ConcatProperties, Zenon
  <2>2. Len(handed) \in Nat
    BY <1>2
  <2> QED BY <2>1, <2>2
<1>4. ASSUME NEW i \in 1 .. Len(data) PROVE handed'[n + i] = <<(a + i) - 1, data[i]>>
  <2>1. n + i \in 1 .. n + Len(s) /\ ~(n + i <= n) /\ (n + i) - n = i
    BY <1>0, <1>1, <1>3
  <2> QED BY <1>1, <1>2, <1>3, <2>1
<1>5. ASSUME NEW i \in 1 .. n PROVE handed'[i] = handed[i]
  <2>1. i \in 1 .. n + Len(s) /\ i <= n
    BY <1>0, <1>1, <1>3
  <2> QED BY <1>2, <1>3, <2>1
<1> QED BY <1>0, <1>1, <1>2, <1>3, <1>4, <1>5

(* A packet begins: what was handed over before it is where it was.         *)
LEMMA BeginFlash ==
  ASSUME AccessorInv, HandedIn, FlashInv, flash_state = "OPEN", NEW a \in Nat,
         NEW data \in Seq(Bytes), data # <<>>, Write(a, data),
         handed' = handed \o Addressed(a, data)
  PROVE  FlashInv'
<1>1. PICK n : n = Len(handed)
  OBVIOUS
<1>2. /\ n \in Nat /\ Len(handed') = n + Len(data) /\ Len(data) \in Nat
      /\ \A i \in 1 .. n : handed'[i] = handed[i]
      /\ \A i \in 1 .. Len(data) : handed'[n + i] = <<(a + i) - 1, data[i]>>
  <2>1. Len(data) \in Nat
    OBVIOUS
  <2>2. n \in Nat /\ Len(handed') = n + Len(data)
    BY <1>1, HandedOn, Zenon
  <2>3. \A i \in 1 .. n : handed'[i] = handed[i]
    BY <1>1, HandedOn, Zenon
  <2>4. \A i \in 1 .. Len(data) : handed'[n + i] = <<(a + i) - 1, data[i]>>
    BY <1>1, HandedOn, Zenon
  <2> QED BY <2>1, <2>2, <2>3, <2>4
<1>3. /\ at' \in {"block", "first"} /\ todo' = [addr |-> a, data |-> data]
      /\ UNCHANGED <<target, flash_state, current_sector_valid, last_packet_addr,
                     block, sector, page>>
  <2>1. at' = IF current_sector_valid THEN "block" ELSE "first"
    BY BeginKeeps, Zenon
  <2>2. todo' = [addr |-> a, data |-> data]
    BY BeginKeeps, Zenon
  <2>3. UNCHANGED <<target, flash_state, current_sector_valid, last_packet_addr,
                    block, sector, page>>
    BY BeginKeeps, Zenon
  <2> QED BY <2>1, <2>2, <2>3
<1>4. at = None
  BY DEF Write
<1>5. at' # None /\ at' \notin {"copy", "flush", "end"}
  BY <1>3, NoStatement DEF Statements
<1>6. Copied = n /\ Copied' = n /\ Entered = n /\ Entered' = n
  <2>1. Copied = n
    BY <1>1, <1>4 DEF Copied
  <2>2. Len(handed') - Len(todo'.data) = n
    BY <1>2, <1>3
  <2>3. Copied' = n
    BY <1>5, <2>2 DEF Copied
  <2>4. at \notin {"copy", "flush", "end"}
    BY <1>4, NoStatement DEF Statements
  <2> QED BY <1>5, <2>1, <2>3, <2>4 DEF Entered
<1>7. TodoIs'
  <2>1. Len(todo'.data) <= Len(handed')
    BY <1>2, <1>3
  <2> QED BY <1>2, <1>3, <1>6, <2>1 DEF TodoIs
<1>8. Contents(n, n)
  <2>1. at # "lost"
    BY <1>4, NoStatement DEF Statements
  <2> QED BY <1>2, <1>6, <2>1 DEF FlashInv
<1>9. Contents(n, n)'
  <2>1. SUFFICES ASSUME NEW i \in 1 .. n, Newest(i, n)'
                 PROVE  Holding(handed[i][1], Wanted(i, n))'
    BY DEF Contents
  <2>2. \A j \in i .. n : handed'[j] = handed[j]
    BY <1>2
  <2>3. i \in i .. n /\ \A j \in i + 1 .. n : j \in i .. n /\ j - 1 \in i .. n
    BY <1>2
  <2>4. Newest(i, n)
    BY <2>1, <2>2, <2>3 DEF Newest
  <2>5. Wanted(i, n)' = Wanted(i, n)
    <3>1. \A j \in i + 1 .. n : Enters(j)' <=> Enters(j)
      BY <2>2, <2>3 DEF Enters
    <3> QED BY <2>2, <2>3, <3>1 DEF Wanted, Again
  <2>6. handed'[i][1] = handed[i][1] /\ handed[i][1] \in Addresses
    BY <1>1, <2>2, <2>3 DEF HandedIn
  <2>7. PICK x \in Addresses : x = handed[i][1]
    BY <2>6
  <2>8. PICK v : v = Wanted(i, n)
    OBVIOUS
  <2>9. Holding(x, v)
    BY <1>8, <2>4, <2>7, <2>8 DEF Contents
  <2>10. Holding(x, v)'
    BY <1>3, <2>9, HoldingSame
  <2> QED BY <2>5, <2>6, <2>7, <2>8, <2>10 DEF Holding, InBlock, Paged, BlockEnd
<1>10. Contents(Copied, Entered)'
  BY <1>2, <1>6, <1>9, ContentsNow
<1>11. current_sector_valid => LastIs'
  <2>1. SUFFICES ASSUME current_sector_valid PROVE LastIs'
    OBVIOUS
  <2>2. Before(last_packet_addr)
    <3>1. at # "lost" /\ ~(at # None)
      BY <1>4, NoStatement DEF Statements
    <3> QED BY <1>4, <2>1, <3>1 DEF FlashInv, LastIs
  <2>3. n > 0 /\ n \in 1 .. n
    BY <1>2, <1>6, <2>2 DEF Before
  <2>4. handed'[n] = handed[n]
    BY <1>2, <2>3
  <2>5. Before(last_packet_addr)'
    BY <1>3, <1>6, <2>2, <2>4 DEF Before, sector
  <2> QED BY <1>5, <2>5 DEF LastIs
<1>12. ~current_sector_valid => Copied' = 0
  BY <1>6 DEF FlashInv
<1> QED BY <1>3, <1>7, <1>10, <1>11, <1>12 DEF FlashInv

-----------------------------------------------------------------------------
(* What a step of a session does to the flash: nothing, or one of these.    *)

Quiet == UNCHANGED <<handed, accessorVars>> /\ result' # TRUE

Opens == Open /\ flash_state = "CLOSED" /\ handed = <<>> /\ handed' = <<>> /\ result' # TRUE

Delivers ==
  /\ flash_state = "OPEN" /\ result' # TRUE
  /\ \E a \in Nat, data \in Seq(Bytes) :
       data # <<>> /\ Write(a, data) /\ handed' = handed \o Addressed(a, data)

Writes == WriteStep /\ handed' = handed /\ result' # TRUE

Ends ==
  /\ Close /\ flash_state # "CLOSED" /\ handed' = handed
  /\ result' = TRUE => flash_state = "OPEN"

Effects == UNCHANGED vars \/ Quiet \/ Connect \/ Opens \/ Delivers \/ Writes \/ Ends

LEMMA ResultsSame ==
  ASSUME ProgramInv, Active, result' = result
  PROVE  result' # TRUE
BY DEF ProgramInv, SessionInv, Active

LEMMA OpenedEffect ==
  ASSUME ProgramInv, pc = "connected", Opened
  PROVE  Opens
<1>1. Open /\ handed' = handed /\ result' # TRUE
  BY OpenedInv DEF Opened
<1>2. flash_state = "CLOSED" /\ handed = <<>>
  BY DEF ProgramInv, SessionInv, HandedInv
<1> QED BY <1>1, <1>2 DEF Opens

LEMMA StartEffect ==
  ASSUME ProgramInv, Start
  PROVE  Opens \/ Quiet
<1>1. ASSUME NEW f \in HexFiles, StartHex(f) PROVE Opens
  BY <1>1, OpenedEffect DEF StartHex
<1>2. ASSUME NEW f \in BinFiles, StartBin(f) PROVE Opens \/ Quiet
  <2>1. CASE Opened
    BY <1>2, <2>1, OpenedEffect DEF StartBin
  <2>2. CASE result' = FALSE /\ UNCHANGED <<addr, handed, accessorVars>>
    BY <2>2 DEF Quiet
  <2> QED BY <1>2, <2>1, <2>2 DEF StartBin
<1> QED BY <1>1, <1>2 DEF Start

LEMMA TakeEffect ==
  ASSUME ProgramInv, NEW n \in 1 .. Len(rest), TakeBlock(n)
  PROVE  Quiet \/ Delivers
<1> DEFINE taken == SubSeq(rest, 1, n)
<1>1. pc = "ready" /\ result' = result /\ kind \in {"hex", "bin"}
  BY Kinds DEF TakeBlock
<1>2. Active /\ result' # TRUE
  BY <1>1, ResultsSame DEF Active
<1>3. CASE kind = "hex"
  BY <1>2, <1>3 DEF TakeBlock, Quiet
<1>4. CASE kind = "bin"
  <2>1. Write(addr, taken) /\ handed' = handed \o Addressed(addr, taken)
    BY <1>4 DEF TakeBlock
  <2>2. taken \in Seq(Bytes) /\ taken # <<>> /\ addr \in Nat
    <3> DEFINE d == file.data
    <3>1. file.addr \in Nat /\ d \in Seq(Bytes)
      BY <1>4, Kinds, BinIs
    <3>2. PICK m \in 0 .. Len(d) :
             rest = SubSeq(d, m + 1, Len(d)) /\ addr = file.addr + m
      BY <1>2, <1>4 DEF ProgramInv, BinInv
    <3> HIDE DEF d
    <3>3. taken \in Seq(Bytes) /\ taken # <<>>
      BY <3>1, <3>2, BinTake, Zenon
    <3>4. m \in Nat
      BY <3>1, <3>2
    <3> HIDE DEF taken
    <3> QED BY <3>1, <3>2, <3>3, <3>4
  <2>3. flash_state = "OPEN"
    BY <1>1 DEF ProgramInv, SessionInv
  <2> HIDE DEF taken
  <2> QED BY <1>2, <2>1, <2>2, <2>3 DEF Delivers
<1> QED BY <1>1, <1>3, <1>4

LEMMA HandOverEffect ==
  ASSUME ProgramInv, HandOver
  PROVE  Delivers
<1>1. /\ pc = "parse" /\ bin # <<>> /\ Write(address, bin) /\ result' = result
      /\ handed' = handed \o Addressed(address, bin)
  BY DEF HandOver
<1>2. address \in Nat /\ bin \in Seq(Bytes) /\ flash_state = "OPEN"
  BY <1>1 DEF ProgramInv, SessionInv, ParserType
<1>3. result' # TRUE
  BY <1>1, ResultsSame DEF Active
<1> QED BY <1>1, <1>2, <1>3 DEF Delivers

LEMMA EndEffect ==
  ASSUME ProgramInv, BlockFails \/ Finished
  PROVE  Ends
<1>1. Close /\ handed' = handed /\ Active
  BY DEF BlockFails, Finished, Active
<1>2. CASE BlockFails
  <2>1. result' = FALSE /\ flash_state # "CLOSED"
    BY <1>2 DEF BlockFails, ProgramInv, SessionInv
  <2> QED BY <1>1, <2>1 DEF Ends
<1>3. CASE Finished
  BY <1>1, <1>3 DEF Finished, Ends, ProgramInv, SessionInv
<1> QED BY <1>2, <1>3

LEMMA QuietEffect ==
  ASSUME ProgramInv, ParseStep \/ NextCall \/ BlockDone
  PROVE  Quiet
<1>1. Active
  BY DEF ParseStep, NextCall, BlockDone, Parsed, Active
<1>2. UNCHANGED <<handed, accessorVars>> /\ result' = result
  BY DEF ParseStep, NextCall, BlockDone
<1>3. result' # TRUE
  BY <1>1, <1>2, ResultsSame
<1> QED BY <1>2, <1>3 DEF Quiet

LEMMA StepEffects ==
  ASSUME ProgramInv, [Next]_vars
  PROVE  Effects
<1>1. CASE WriteGoesOn
  <2>1. Active /\ result' = result /\ WriteStep /\ handed' = handed
    BY <1>1 DEF WriteGoesOn, Active
  <2> QED BY <2>1, ResultsSame DEF Writes, Effects
<1>2. CASE Start
  BY <1>2, StartEffect DEF Effects
<1>3. ASSUME NEW n \in 1 .. Len(rest), TakeBlock(n) PROVE Effects
  BY <1>3, TakeEffect DEF Effects
<1>4. CASE HandOver
  BY <1>4, HandOverEffect DEF Effects
<1>5. CASE BlockFails \/ Finished
  BY <1>5, EndEffect DEF Effects
<1>6. CASE ParseStep \/ NextCall \/ BlockDone
  BY <1>6, QuietEffect DEF Effects
<1> QED BY <1>1, <1>2, <1>3, <1>4, <1>5, <1>6 DEF Next, Step, Effects

(* Every step keeps what is in the flash.                                   *)
LEMMA SameFlash ==
  ASSUME FlashInv, UNCHANGED <<handed, accessorVars>>
  PROVE  FlashInv'
<1>1. /\ handed' = handed /\ flash_state' = flash_state /\ at' = at /\ todo' = todo
      /\ current_sector_valid' = current_sector_valid /\ last_packet_addr' = last_packet_addr
      /\ UNCHANGED <<target, block, sector, page>>
  BY DEF accessorVars
<1>2. Copied' = Copied /\ SectorEnd' = SectorEnd /\ current_sector_addr' = current_sector_addr
  BY <1>1 DEF Copied, SectorEnd, sector
<1>3. TodoIs => TodoIs'
  BY <1>1, <1>2 DEF TodoIs
<1>4. LastIs => LastIs'
  BY <1>1, <1>2 DEF LastIs, Before
<1>5. Entered' = Entered
  BY <1>1, <1>2 DEF Entered
<1>6. Contents(Copied, Entered) => Contents(Copied, Entered)'
  <2>1. \A i, n : Newest(i, n)' <=> Newest(i, n)
    BY <1>1 DEF Newest
  <2>2. \A i, n : Wanted(i, n)' = Wanted(i, n)
    BY <1>1 DEF Wanted, Again, Enters
  <2>3. \A x, v : Holding(x, v)' <=> Holding(x, v)
    BY <1>1 DEF Holding, InBlock, Paged, BlockEnd, block, page
  <2>4. PICK c : c = Copied
    OBVIOUS
  <2>5. PICK e : e = Entered
    OBVIOUS
  <2>6. SUFFICES ASSUME Contents(c, e), NEW i \in 1 .. c, Newest(i, c)
                 PROVE  Holding(handed[i][1], Wanted(i, e))'
    BY <1>2, <1>5, <2>1, <2>4, <2>5 DEF Contents
  <2>7. PICK x : x = handed[i][1]
    OBVIOUS
  <2>8. PICK v : v = Wanted(i, e)
    OBVIOUS
  <2>9. Holding(x, v)'
    BY <2>3, <2>6, <2>7, <2>8 DEF Contents
  <2> QED BY <1>1, <2>2, <2>7, <2>8, <2>9 DEF Holding, InBlock, Paged, BlockEnd
<1> QED BY <1>1, <1>2, <1>3, <1>4, <1>6 DEF FlashInv

LEMMA OpensFlash ==
  ASSUME AccessorInv, Opens
  PROVE  FlashInv'
<1>1. /\ handed' = <<>> /\ at' = None
      /\ err' = None => ~current_sector_valid'
      /\ err' # None => flash_state' # "OPEN"
  <2>1. err' # None => flash_state' = "CLOSED"
    BY OpenKeeps, Zenon DEF Opens
  <2>2. err' = None => ~current_sector_valid'
    BY OpenKeeps, Zenon DEF Opens
  <2>3. at' = None
    BY OpenKeeps, Zenon DEF Opens
  <2> QED BY <2>1, <2>2, <2>3 DEF Opens
<1>2. Len(handed') = 0
  BY <1>1
<1>3. Copied' = 0
  BY <1>1, <1>2 DEF Copied
<1>4. Contents(Copied, Entered)'
  BY <1>3 DEF Contents
<1> QED BY <1>1, <1>3, <1>4 DEF FlashInv, TodoIs

LEMMA ConnectFlash ==
  ASSUME ProgramInv, Connect
  PROVE  FlashInv'
<1>1. flash_state' = "CLOSED"
  BY DEF Connect, ProgramInv, SessionInv
<1> QED BY <1>1, FlashFailed

LEMMA EndsFlash ==
  ASSUME AccessorInv, Ends
  PROVE  FlashInv'
<1>1. flash_state' = "CLOSED"
  BY CloseKeeps, Zenon DEF Ends
<1> QED BY <1>1, FlashFailed

LEMMA FlashKeeps ==
  ASSUME ProgramInv, FlashInv, [Next]_vars
  PROVE  FlashInv'
<1>1. AccessorInv /\ HandedIn
  BY HandedAlways DEF ProgramInv
<1>2. CASE UNCHANGED vars
  BY <1>2, SameFlash DEF vars
<1>3. CASE Quiet
  BY <1>3, SameFlash DEF Quiet
<1>4. CASE Connect
  BY <1>4, ConnectFlash
<1>5. CASE Opens
  BY <1>1, <1>5, OpensFlash
<1>6. CASE Delivers
  BY <1>1, <1>6, BeginFlash DEF Delivers
<1>7. CASE Writes
  BY <1>1, <1>7, WriteFlash DEF Writes
<1>8. CASE Ends
  BY <1>1, <1>8, EndsFlash
<1> QED BY <1>2, <1>3, <1>4, <1>5, <1>6, <1>7, <1>8, StepEffects DEF Effects

(* While a session writes, the bytes copied so far are in the flash or in   *)
(* the page buffer, those erased again excepted (flash_accessor.cpp:139-234). *)
THEOREM FlashAlways == Spec => []FlashInv
<1>1. Init => FlashInv
  BY DEF Init, InitialAccessor, FlashInv
<1>2. ProgramInv /\ FlashInv /\ [Next]_vars => FlashInv'
  BY FlashKeeps
<1> QED BY <1>1, <1>2, ProgramAlways, PTL DEF Spec

(* The last page is programmed, and the flash holds what was promised.      *)
LEMMA HoldingClosed ==
  ASSUME AccessorInv, flash_state = "OPEN", Close, err' = None, NEW x \in Addresses, NEW v,
         Holding(x, v)
  PROVE  target'.mem[x] = v
<1>1. flash_state # "CLOSED"
  OBVIOUS
<1>2. ~page_buf_empty /\ InBlock(x) =>
        target'.mem[x] = Paged(x) /\ target'.mem[x] = Cell(target.mem[x], Paged(x))
  BY <1>1, Closes, Zenon
<1>3. ~(~page_buf_empty /\ InBlock(x)) => target'.mem[x] = target.mem[x]
  BY <1>1, Closes, Zenon
<1>4. Cell(target.mem[x], FF) = target.mem[x]
  BY DEF Cell
<1> QED BY <1>2, <1>3, <1>4 DEF Holding

LEMMA HandedOrder ==
  ASSUME HandedIn, NEW n, n = Len(handed), NEW i \in 1 .. n
  PROVE  /\ Newest(i, n) <=> ~Overwritten(i)
         /\ Again(i, n) <=> Revisited(i)
<1>1. n \in Nat /\ DOMAIN handed = 1 .. n
  BY DEF HandedIn
<1>2. \A k : k \in i + 1 .. n <=> k \in 1 .. n /\ i < k
  BY <1>1
<1>3. Newest(i, n) <=> ~Overwritten(i)
  BY <1>1, <1>2 DEF Newest, Overwritten
<1>4. Again(i, n) <=> Revisited(i)
  BY <1>1, <1>2 DEF Again, Revisited
<1> QED BY <1>3, <1>4

LEMMA EndsWritten ==
  ASSUME AccessorInv, HandedIn, FlashInv, Ends
  PROVE  SuccessMeansWritten'
<1>1. SUFFICES ASSUME result' = TRUE, err' = None, NEW i \in DOMAIN handed, ~Overwritten(i)'
               PROVE  target'.mem[handed[i][1]] = IF Revisited(i)' THEN FF ELSE handed[i][2]
  BY DEF SuccessMeansWritten, Ends
<1>2. flash_state = "OPEN" /\ Close /\ at = None /\ handed' = handed
  BY <1>1 DEF Ends, Close
<1>3. current_sector_valid
  BY <1>1, <1>2, Closes
<1>4. PICK n : n = Len(handed)
  OBVIOUS
<1>5. n \in Nat /\ i \in 1 .. n
  BY <1>4 DEF HandedIn
<1>6. Copied = n /\ Entered = n /\ at # "lost"
  <2>1. at \notin {"copy", "flush", "end", "lost"}
    BY <1>2, NoStatement DEF Statements
  <2> QED BY <1>2, <1>4, <2>1 DEF Copied, Entered
<1>7. Contents(n, n)
  BY <1>2, <1>5, <1>6, ContentsThen DEF FlashInv
<1>8. (Overwritten(i)' <=> Overwritten(i)) /\ (Revisited(i)' <=> Revisited(i))
  BY <1>2 DEF Overwritten, Revisited, Enters
<1>9. Newest(i, n) /\ (Again(i, n) <=> Revisited(i))
  BY <1>1, <1>4, <1>5, <1>8, HandedOrder
<1>10. PICK x \in Addresses : x = handed[i][1]
  BY <1>4, <1>5 DEF HandedIn
<1>11. PICK v : v = Wanted(i, n)
  OBVIOUS
<1>12. Holding(x, v)
  BY <1>5, <1>7, <1>9, <1>10, <1>11 DEF Contents
<1>13. target'.mem[x] = v
  BY <1>1, <1>2, <1>12, HoldingClosed
<1> QED BY <1>8, <1>9, <1>10, <1>11, <1>13 DEF Wanted

LEMMA WrittenKeeps ==
  ASSUME ProgramInv, FlashInv, SuccessMeansWritten, [Next]_vars
  PROVE  SuccessMeansWritten'
<1>1. CASE UNCHANGED vars
  <2>1. UNCHANGED <<pc, result, err, handed, target>>
    BY <1>1 DEF vars, accessorVars
  <2>2. \A i : (Overwritten(i)' <=> Overwritten(i)) /\ (Revisited(i)' <=> Revisited(i))
    BY <2>1 DEF Overwritten, Revisited, Enters
  <2> QED BY <2>1, <2>2 DEF SuccessMeansWritten
<1>2. CASE result' # TRUE
  BY <1>2 DEF SuccessMeansWritten
<1>3. CASE Connect
  <2>1. result' # TRUE
    BY <1>3, ProgrammerAssumption DEF Connect
  <2> QED BY <1>2, <2>1
<1>4. CASE Ends
  <2>1. AccessorInv /\ HandedIn
    BY HandedAlways DEF ProgramInv
  <2> QED BY <1>4, <2>1, EndsWritten
<1> QED BY <1>1, <1>2, <1>3, <1>4, StepEffects DEF Effects, Quiet, Opens, Delivers, Writes

(* A session that reports success, and whose last flush did not fail, has   *)
(* left each byte of the file in flash, except that a sector entered again  *)
(* was erased again (flash_accessor.cpp:139-234, 236-279).                  *)
THEOREM SuccessMeansWrittenAlways == Spec => []SuccessMeansWritten
<1>1. Init => SuccessMeansWritten
  BY ProgrammerAssumption DEF Init, SuccessMeansWritten
<1>2. ProgramInv /\ FlashInv /\ SuccessMeansWritten /\ [Next]_vars => SuccessMeansWritten'
  BY WrittenKeeps
<1> QED BY <1>1, <1>2, ProgramAlways, FlashAlways, PTL DEF Spec

-----------------------------------------------------------------------------
(* Which sectors a step touches.                                            *)

(* A step changes the flash only in sectors of bytes handed over before ... *)
Touches == \A x \in Addresses : target.mem[x] # target'.mem[x] => SectorOfByte(SectorOf(x))

(* ... and leaves the accessor in one.                                      *)
InSectorOfByte ==
  flash_state' = "OPEN" /\ current_sector_valid' =>
    \E d : d = current_sector_addr' /\ SectorOfByte(d)

LEMMA NextByte ==
  ASSUME AccessorInv, HandedIn, FlashInv, at \in Statements, todo.data # <<>>
  PROVE  SectorOfByte(SectorOf(todo.addr))
<1>1. AccessorType /\ TodoIs /\ at # None
  BY NoStatement DEF AccessorInv, FlashInv
<1>2. /\ Copied \in Nat /\ Copied + 1 <= Len(handed) /\ handed[Copied + 1][1] = todo.addr
      /\ Len(handed) \in Nat /\ DOMAIN handed = 1 .. Len(handed)
  BY <1>1, CopiedIs DEF HandedIn
<1>3. Copied + 1 \in DOMAIN handed
  BY <1>2
<1> QED BY <1>2, <1>3 DEF SectorOfByte

LEMMA InPageSector ==
  ASSUME AccessorInv, TouchedInv, flash_state = "OPEN", current_sector_valid, ~page_buf_empty,
         NEW x \in Addresses, InBlock(x)
  PROVE  SectorOfByte(SectorOf(x))
<1>1. AccessorType /\ SectorSet
  BY DEF AccessorInv
<1>2. current_sector_addr <= current_write_block_addr /\ BlockEnd <= SectorEnd
  BY <1>1 DEF SectorSet
<1>3. /\ current_sector_addr \in Nat /\ SectorEnd \in Nat /\ BlockEnd \in Nat
      /\ current_write_block_addr \in Nat /\ x \in Nat
  BY <1>1, EndsAre, SumNat, TargetFlashAssumption DEF AccessorType
<1>4. current_sector_addr <= x /\ x < SectorEnd
  BY <1>2, <1>3 DEF InBlock
<1>5. SectorOf(x) = current_sector_addr
  BY <1>1, <1>3, <1>4, EndOfSector
<1> QED BY <1>5 DEF TouchedInv

LEMMA SetupTouches ==
  ASSUME AccessorInv, HandedIn, FlashInv, at \in Statements \ {"lost"}, todo.data # <<>>,
         NEW then, SetupSector(then)
  PROVE  Touches /\ InSectorOfByte
<1>1. AccessorType /\ ~target.strayed /\ InOrder(target)
  BY Running
<1>2. SectorOfByte(SectorOf(todo.addr))
  BY NextByte
<1>3. \A x \in Addresses : target'.mem[x] # target.mem[x] => SectorOf(x) = SectorOf(todo.addr)
  BY <1>1, SetupEnds
<1>4. Ended(then) /\ (err' = None => current_sector_addr' = SectorOf(todo.addr))
  BY <1>1, SetupEnds
<1>5. Touches
  BY <1>2, <1>3 DEF Touches
<1>6. InSectorOfByte
  BY <1>2, <1>4 DEF InSectorOfByte, Ended
<1> QED BY <1>5, <1>6

LEMMA StillInSector ==
  ASSUME TouchedInv, UNCHANGED <<flash_state, current_sector_valid, sector>>
  PROVE  InSectorOfByte
BY DEF TouchedInv, InSectorOfByte, sector

LEMMA FlushTouches ==
  ASSUME AccessorInv, TouchedInv, at \in Statements \ {"first", "lost"},
         NEW then \in Statements, Flush(then)
  PROVE  Touches /\ InSectorOfByte
<1>1. /\ AccessorType /\ ~target.strayed /\ InOrder(target) /\ SectorSet
      /\ flash_state = "OPEN" /\ current_sector_valid
  BY Running
<1>2. PageOut([err |-> err', t |-> target']) /\ Ended(then)
  BY <1>1, FlushEnds
<1>3. \A x \in Addresses : page_buf_empty \/ ~InBlock(x) => target'.mem[x] = target.mem[x]
  BY <1>2 DEF PageOut
<1>4. Touches
  BY <1>1, <1>3, InPageSector DEF Touches, AccessorType
<1>5. UNCHANGED <<current_sector_valid, sector>>
  BY DEF Flush
<1>6. InSectorOfByte
  BY <1>1, <1>5 DEF TouchedInv, InSectorOfByte, sector
<1> QED BY <1>4, <1>6

LEMMA WriteTouches ==
  ASSUME AccessorInv, HandedIn, FlashInv, TouchedInv, WriteStep
  PROVE  Touches /\ InSectorOfByte
<1>1. ASSUME UNCHANGED <<target, flash_state, current_sector_valid, sector>>
      PROVE  Touches /\ InSectorOfByte
  BY <1>1, StillInSector DEF Touches
<1>2. CASE WriteFirst
  <2>1. at \in Statements \ {"lost"} /\ SetupSector("block")
    BY <1>2 DEF WriteFirst, Statements
  <2>2. todo.data # <<>>
    BY <1>2 DEF WriteFirst, AccessorInv
  <2> QED BY <2>1, <2>2, SetupTouches
<1>3. ASSUME NEW then \in Statements, Flush(then), at \in Statements \ {"first", "lost"}
      PROVE  Touches /\ InSectorOfByte
  BY <1>3, FlushTouches
<1>4. ASSUME NEW then, Skip(then) PROVE Touches /\ InSectorOfByte
  BY <1>1, <1>4 DEF Skip
<1>5. CASE WriteBlock
  <2>1. at \in Statements \ {"first", "lost"} /\ "sector" \in Statements
    BY <1>5 DEF WriteBlock, Statements
  <2> QED BY <1>3, <1>4, <1>5, <2>1 DEF WriteBlock
<1>6. CASE WriteSector
  <2>1. at \in Statements \ {"lost"} /\ at = "sector"
    BY <1>6 DEF WriteSector, Statements
  <2>2. todo.data # <<>>
    BY <2>1 DEF AccessorInv
  <2> QED BY <1>4, <1>6, <2>1, <2>2, SetupTouches DEF WriteSector
<1>7. CASE WriteFlush
  <2>1. at \in Statements \ {"first", "lost"} /\ "end" \in Statements
    BY <1>7 DEF WriteFlush, Statements
  <2> QED BY <1>3, <1>4, <1>7, <2>1 DEF WriteFlush
<1>8. CASE WriteEnd
  <2>1. UNCHANGED <<target, flash_state, current_sector_valid, sector>>
    BY <1>8 DEF WriteEnd
  <2> QED BY <1>1, <2>1
<1>9. CASE WriteChange
  <2>1. at \in Statements \ {"lost"} /\ todo.data # <<>>
    BY <1>9 DEF WriteChange, Statements
  <2> QED BY <1>4, <1>9, <2>1, SetupTouches DEF WriteChange
<1>10. CASE WriteCopy
  <2>1. UNCHANGED <<target, flash_state, current_sector_valid, sector>>
    BY <1>10 DEF WriteCopy
  <2> QED BY <1>1, <2>1
<1>11. CASE WriteBeyond
  <2>1. UNCHANGED <<target, flash_state, current_sector_valid, sector>>
    BY <1>11 DEF WriteBeyond
  <2> QED BY <1>1, <2>1
<1> QED BY <1>2, <1>5, <1>6, <1>7, <1>8, <1>9, <1>10, <1>11 DEF WriteStep

LEMMA EffectTouches ==
  ASSUME ProgramInv, FlashInv, TouchedInv, [Next]_vars
  PROVE  Touches /\ (InSectorOfByte \/ flash_state' # "OPEN")
<1>1. AccessorInv /\ HandedIn
  BY HandedAlways DEF ProgramInv
<1>2. ASSUME UNCHANGED <<target, flash_state, current_sector_valid, sector>>
      PROVE  Touches /\ InSectorOfByte
  BY <1>2, StillInSector DEF Touches
<1>3. CASE UNCHANGED vars \/ Quiet
  <2>1. UNCHANGED <<target, flash_state, current_sector_valid, sector>>
    BY <1>3 DEF vars, Quiet, accessorVars
  <2> QED BY <1>2, <2>1
<1>4. CASE Connect
  <2>1. flash_state' = "CLOSED" /\ target'.mem = Blank
    <3>1. flash_state = "CLOSED"
      BY <1>4 DEF Connect, ProgramInv, SessionInv
    <3> QED BY <1>1, <1>4, <3>1, ConnectKeeps
  <2> QED BY <2>1 DEF TouchedInv, Touches
<1>5. CASE Opens
  <2>1. target'.mem = target.mem
    BY <1>1, <1>5, OpenKeeps, Zenon DEF Opens
  <2>2. err' = None => ~current_sector_valid'
    BY <1>1, <1>5, OpenKeeps, Zenon DEF Opens
  <2>3. err' # None => flash_state' = "CLOSED"
    BY <1>1, <1>5, OpenKeeps, Zenon DEF Opens
  <2> QED BY <2>1, <2>2, <2>3 DEF Touches, InSectorOfByte
<1>6. CASE Delivers
  <2>1. UNCHANGED <<target, flash_state, current_sector_valid, sector>>
    BY <1>6 DEF Delivers, Write
  <2> QED BY <1>2, <2>1
<1>7. CASE Writes
  BY <1>1, <1>7, WriteTouches DEF Writes
<1>8. CASE Ends
  <2>1. flash_state' = "CLOSED"
    BY <1>1, <1>8, CloseKeeps, Zenon DEF Ends
  <2>2. \A x \in Addresses : target'.mem[x] # target.mem[x] =>
          flash_state = "OPEN" /\ current_sector_valid /\ ~page_buf_empty /\ InBlock(x)
    BY <1>1, <1>8, Closes, Zenon DEF Ends
  <2>3. Touches
    BY <1>1, <2>2, InPageSector DEF Touches
  <2> QED BY <2>1, <2>3
<1> QED BY <1>3, <1>4, <1>5, <1>6, <1>7, <1>8, StepEffects DEF Effects

(* What was handed over stays, until a target is connected again.           *)
LEMMA BytesStay ==
  ASSUME ProgramInv, [Next]_vars, ~Connect, NEW d, SectorOfByte(d)
  PROVE  SectorOfByte(d)'
<1>1. HandedIn
  BY HandedAlways
<1>2. CASE handed' = handed
  BY <1>2 DEF SectorOfByte
<1>3. CASE Delivers
  <2>1. PICK a \in Nat, data \in Seq(Bytes) : handed' = handed \o Addressed(a, data)
    BY <1>3 DEF Delivers
  <2>2. PICK n : n = Len(handed)
    OBVIOUS
  <2>3. PICK i \in DOMAIN handed : SectorOf(handed[i][1]) = d
    BY DEF SectorOfByte
  <2>4. n \in Nat /\ i \in 1 .. n
    BY <1>1, <2>2, <2>3 DEF HandedIn
  <2>5. Len(handed') = n + Len(data)
    BY <1>1, <2>1, <2>2, HandedOn, Zenon
  <2>6. handed'[i] = handed[i]
    BY <1>1, <2>1, <2>2, <2>4, HandedOn, Zenon
  <2>7. DOMAIN handed' = 1 .. Len(handed') /\ Len(data) \in Nat
    BY ProgramKeeps DEF ProgramInv, HandedInv
  <2>8. i \in DOMAIN handed'
    BY <2>4, <2>5, <2>7
  <2> QED BY <2>3, <2>6, <2>8 DEF SectorOfByte
<1>4. CASE Opens \/ Writes \/ Ends \/ Quiet \/ UNCHANGED vars
  BY <1>2, <1>4 DEF Opens, Writes, Ends, Quiet, vars
<1> QED BY <1>3, <1>4, StepEffects DEF Effects

LEMMA TouchedKeeps ==
  ASSUME ProgramInv, FlashInv, TouchedInv, [Next]_vars
  PROVE  TouchedInv'
<1>1. CASE Connect
  <2>1. flash_state = "CLOSED"
    BY <1>1 DEF Connect, ProgramInv, SessionInv
  <2>2. flash_state' = "CLOSED" /\ target'.mem = Blank
    BY <1>1, <2>1, ConnectKeeps DEF ProgramInv
  <2> QED BY <2>2 DEF TouchedInv
<1>2. CASE ~Connect
  <2>1. ASSUME NEW x \in Addresses, target'.mem[x] # Blank[x]
        PROVE  SectorOfByte(SectorOf(x))'
    <3>1. SectorOfByte(SectorOf(x))
      BY <2>1, EffectTouches DEF Touches, TouchedInv
    <3> QED BY <1>2, <3>1, BytesStay
  <2>2. ASSUME flash_state' = "OPEN", current_sector_valid'
        PROVE  SectorOfByte(current_sector_addr)'
    <3>1. PICK d : d = current_sector_addr' /\ SectorOfByte(d)
      BY <2>2, EffectTouches DEF InSectorOfByte
    <3>2. SectorOfByte(d)'
      BY <1>2, <3>1, BytesStay
    <3> QED BY <3>1, <3>2 DEF SectorOfByte
  <2> QED BY <2>1, <2>2 DEF TouchedInv
<1> QED BY <1>1, <1>2

(* Every cell that is not what it was before the session is in the sector   *)
(* of a byte handed over, and so is the page to be programmed next          *)
(* (flash_accessor.cpp:63-104).                                             *)
THEOREM TouchedAlways == Spec => []TouchedInv
<1>1. Init => TouchedInv
  BY DEF Init, InitialAccessor, InitialTarget, TouchedInv
<1>2. ProgramInv /\ FlashInv /\ TouchedInv /\ [Next]_vars => TouchedInv'
  BY TouchedKeeps
<1> QED BY <1>1, <1>2, ProgramAlways, FlashAlways, PTL DEF Spec

(* A step changes the flash only in sectors that bytes of the file go to    *)
(* (flash_accessor.cpp:63-104).                                             *)
THEOREM OthersKeptAlways == Spec => OthersKept
<1>1. ProgramInv /\ FlashInv /\ TouchedInv /\ [Next]_vars =>
        [\A a \in Addresses : target.mem[a] # target'.mem[a] =>
           \E i \in DOMAIN handed : SectorOf(handed[i][1]) = SectorOf(a)]_vars
  BY EffectTouches DEF Touches, SectorOfByte
<1> QED BY <1>1, ProgramAlways, FlashAlways, TouchedAlways, PTL DEF Spec, OthersKept

===============================================================================
