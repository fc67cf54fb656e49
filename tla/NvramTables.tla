---------------------------- MODULE NvramTables ----------------------------
(* What the operators of Nvram do, for any input: lists of tuples, the hash *)
(* table, the header, what fits, the map an image stands for. Recursive     *)
(* functions and folds are reasoned about with the least element of a set   *)
(* of numbers, since the sets are parameters of lemmas like any other.      *)
EXTENDS Nvram, FiniteSetTheorems, SequenceTheorems, WellFoundedInduction, TLAPS

----------------------------------------------------------------------------
(* Induction                                                                *)

(* A set of numbers that is not empty has a least one.                      *)
LEMMA Least ==
    ASSUME NEW S, S \subseteq Nat, S # {}
    PROVE  \E x \in S : \A y \in S : x <= y
<1>1. PICK x \in S : \A y \in S : ~ (<<y, x>> \in OpToRel(<, Nat))
  BY NatLessThanWellFounded, WFMin
<1>2. \A y \in S : ~(y < x)
  BY <1>1 DEF OpToRel
<1> QED BY <1>2

(* Induction up to a number, and the last of a set of numbers.              *)
LEMMA UpTo ==
    ASSUME NEW m \in Nat, NEW S, 0 \in S, \A k \in 0 .. m - 1 : k \in S => k + 1 \in S
    PROVE  \A k \in 0 .. m : k \in S
<1> DEFINE T == {k \in 0 .. m : k \notin S}
<1> SUFFICES ASSUME T # {} PROVE FALSE
  OBVIOUS
<1>1. PICK x \in T : \A y \in T : x <= y
  <2>1. T \subseteq Nat
    OBVIOUS
  <2> HIDE DEF T
  <2> QED BY <2>1, Least
<1>2. x - 1 \in 0 .. m - 1 /\ x - 1 \notin T
  BY <1>1
<1> QED BY <1>1, <1>2

LEMMA Greatest ==
    ASSUME NEW m \in Nat, NEW S, S \subseteq 0 .. m, S # {}
    PROVE  Max(S) \in S /\ \A y \in S : y <= Max(S)
<1> DEFINE T == {m - k : k \in S}
<1>1. T \subseteq Nat /\ T # {}
  <2>1. \A k \in S : m - k \in Nat
    OBVIOUS
  <2> QED BY <2>1
<1>2. PICK x \in T : \A y \in T : x <= y
  <2> HIDE DEF T
  <2> QED BY <1>1, Least
<1>3. PICK k \in S : x = m - k
  BY <1>2
<1>4. \A y \in S : k >= y
  <2> SUFFICES ASSUME NEW y \in S PROVE k >= y
    OBVIOUS
  <2>1. m - k <= m - y
    BY <1>2, <1>3
  <2> QED BY <2>1
<1>5. Max(S) \in S /\ \A y \in S : Max(S) >= y
  <2>1. \E z \in S : \A y \in S : z >= y
    BY <1>4
  <2> QED BY <2>1 DEF Max
<1> QED BY <1>5

(* A recursion over 1 .. m: what has the steps G, from x, exists.            *)
Iteration(m, D, x, G, f) ==
    /\ f \in [0 .. m -> D] /\ f[0] = x
    /\ \A k \in 1 .. m : f[k] = G[k][f[k - 1]]

LEMMA Iterates ==
    ASSUME NEW m \in Nat, NEW D, NEW x \in D, NEW G \in [1 .. m -> [D -> D]]
    PROVE  \E f : Iteration(m, D, x, G, f)
<1> DEFINE S == {k \in 0 .. m : \E f : Iteration(k, D, x, G, f)}
<1>1. 0 \in S
  <2>1. PICK f : f = [k \in 0 .. 0 |-> x]
    OBVIOUS
  <2>2. f \in [0 .. 0 -> D] /\ f[0] = x
    BY <2>1
  <2>3. 1 .. 0 = {} /\ 0 \in 0 .. m
    OBVIOUS
  <2>4. Iteration(0, D, x, G, f)
    BY <2>2, <2>3 DEF Iteration
  <2> QED BY <2>3, <2>4
<1>2. ASSUME NEW k \in 0 .. m - 1, k \in S PROVE k + 1 \in S
  <2>1. PICK f : Iteration(k, D, x, G, f)
    BY <1>2
  <2> DEFINE g == [j \in 0 .. k + 1 |-> IF j <= k THEN f[j] ELSE G[k + 1][f[k]]]
  <2>2. g \in [0 .. k + 1 -> D]
    <3>1. f[k] \in D /\ k + 1 \in 1 .. m
      BY <2>1 DEF Iteration
    <3>2. G[k + 1][f[k]] \in D
      BY <3>1
    <3> QED BY <2>1, <3>2 DEF Iteration
  <2>3. g[0] = x
    BY <2>1 DEF Iteration
  <2>4. ASSUME NEW j \in 1 .. k + 1 PROVE g[j] = G[j][g[j - 1]]
    <3>1. g[j - 1] = f[j - 1]
      OBVIOUS
    <3>2. CASE j <= k
      <4>1. g[j] = f[j] /\ j \in 1 .. k
        BY <3>2
      <4> QED BY <2>1, <3>1, <4>1 DEF Iteration
    <3>3. CASE j = k + 1
      <4>1. g[k + 1] = G[k + 1][f[k]] /\ (k + 1) - 1 = k
        OBVIOUS
      <4> HIDE DEF g
      <4> QED BY <3>1, <3>3, <4>1
    <3> QED BY <3>2, <3>3
  <2>5. k + 1 \in 0 .. m
    OBVIOUS
  <2> HIDE DEF g
  <2>6. Iteration(k + 1, D, x, G, g)
    BY <2>2, <2>3, <2>4 DEF Iteration
  <2> QED BY <2>5, <2>6
<1>3. m \in S
  <2> HIDE DEF S
  <2>1. \A k \in 0 .. m : k \in S
    BY <1>1, <1>2, UpTo
  <2> QED BY <2>1
<1> QED BY <1>3

----------------------------------------------------------------------------
(* Bytes                                                                    *)

LEMMA SizeIsNat == ASSUME NEW t \in Tuple PROVE SizeOf(t) \in Nat
<1>1. <<t.name, t.value>> \in Name \X Value
  BY DEF Tuple
<1>2. Size[<<t.name, t.value>>] \in Nat
  BY <1>1, SizeAssumption
<1> QED BY <1>2 DEF SizeOf

LEMMA BytesSum ==
    ASSUME NEW ts \in Seq(Tuple)
    PROVE  \E f \in [0 .. Len(ts) -> Nat] :
             /\ Bytes(ts) = f[Len(ts)] /\ f[0] = 0
             /\ \A k \in 1 .. Len(ts) : f[k] = f[k - 1] + SizeOf(ts[k])
<1> DEFINE m == Len(ts)
           P(f) == f = [k \in 0 .. m |-> IF k = 0 THEN 0 ELSE f[k - 1] + SizeOf(ts[k])]
           G == [k \in 1 .. m |-> [y \in Nat |-> y + SizeOf(ts[k])]]
<1>1. \A k \in 1 .. m : SizeOf(ts[k]) \in Nat
  BY SizeIsNat
<1>2. PICK f : Iteration(m, Nat, 0, G, f)
  <2>1. G \in [1 .. m -> [Nat -> Nat]] /\ m \in Nat /\ 0 \in Nat
    BY <1>1
  <2> HIDE DEF G, m
  <2> QED BY <2>1, Iterates
<1>3. f \in [0 .. m -> Nat] /\ f[0] = 0
  BY <1>2 DEF Iteration
<1>4. ASSUME NEW k \in 1 .. m PROVE f[k] = f[k - 1] + SizeOf(ts[k])
  <2>1. f[k] = G[k][f[k - 1]]
    BY <1>2 DEF Iteration
  <2>2. f[k - 1] \in Nat
    BY <1>3
  <2> QED BY <2>1, <2>2
<1>5. P(f)
  <2>1. ASSUME NEW k \in 0 .. m PROVE f[k] = IF k = 0 THEN 0 ELSE f[k - 1] + SizeOf(ts[k])
    <3>1. CASE k = 0
      BY <1>3, <3>1
    <3>2. CASE k # 0
      <4>1. k \in 1 .. m
        BY <3>2
      <4> QED BY <1>4, <3>2, <4>1
    <3> QED BY <3>1, <3>2
  <2> HIDE DEF G
  <2> QED BY <1>3, <2>1
<1> DEFINE sum == CHOOSE h : P(h)
<1>6. P(sum)
  BY <1>5
<1>7. Bytes(ts) = sum[m]
  BY DEF Bytes
<1> HIDE DEF sum
<1>8. sum[0] = 0 /\ \A k \in 1 .. m : sum[k] = sum[k - 1] + SizeOf(ts[k])
  BY <1>6
<1>9. sum \in [0 .. m -> Nat]
  <2> DEFINE S == {k \in 0 .. m : sum[k] \in Nat}
  <2>1. 0 \in S /\ \A k \in 0 .. m - 1 : k \in S => k + 1 \in S
    BY <1>1, <1>8
  <2>2. \A k \in 0 .. m : k \in S
    <3> HIDE DEF S
    <3> QED BY <2>1, UpTo
  <2> QED BY <1>6, <2>2
<1> QED BY <1>7, <1>8, <1>9

----------------------------------------------------------------------------
(* Lists of tuples                                                          *)

LEMMA InList ==
    ASSUME NEW l \in Seq(Tuple), NEW x
    PROVE  x \in ToSet(l) <=> \E k \in 1 .. Len(l) : l[k] = x
BY DEF ToSet

LEMMA TuplesDiffer ==
    ASSUME NEW t \in Tuple, NEW u \in Tuple
    PROVE  t = u <=> t.name = u.name /\ t.value = u.value
BY DEF Tuple

(* A name has one place in a list without repetitions.                      *)
LEMMA OnePlace ==
    ASSUME NEW l \in Seq(Tuple), Distinct(l)
    PROVE  /\ \A t, u \in ToSet(l) : t.name = u.name => t = u
           /\ \A j, k \in 1 .. Len(l) : l[j].name = l[k].name => j = k
BY DEF Distinct, ToSet

(* nvram_set, in place.                                                     *)
LEMMA Replaced ==
    ASSUME NEW l \in Seq(Tuple), Distinct(l), NEW k \in 1 .. Len(l), NEW t \in Tuple,
           l[k].name = t.name
    PROVE  /\ [l EXCEPT ![k] = t] \in Seq(Tuple) /\ Distinct([l EXCEPT ![k] = t])
           /\ ToSet([l EXCEPT ![k] = t]) = {x \in ToSet(l) : x.name # t.name} \union {t}
<1> DEFINE m == [l EXCEPT ![k] = t]
<1>1. m \in Seq(Tuple) /\ Len(m) = Len(l) /\ DOMAIN m = 1 .. Len(l)
  OBVIOUS
<1>2. \A j \in 1 .. Len(l) : m[j] = IF j = k THEN t ELSE l[j]
  OBVIOUS
<1> HIDE DEF m
<1>3. \A j \in 1 .. Len(l) : m[j].name = l[j].name
  BY <1>2
<1>4. Distinct(m)
  BY <1>1, <1>3 DEF Distinct
<1>5. ASSUME NEW x \in ToSet(m) PROVE x \in {y \in ToSet(l) : y.name # t.name} \union {t}
  <2>1. PICK j \in 1 .. Len(l) : m[j] = x
    BY <1>1, <1>5 DEF ToSet
  <2>2. CASE j # k
    BY <1>2, <2>1, <2>2, OnePlace DEF ToSet
  <2> QED BY <1>2, <2>1, <2>2
<1>6. t \in ToSet(m)
  BY <1>1, <1>2 DEF ToSet
<1>7. ASSUME NEW x \in ToSet(l), x.name # t.name PROVE x \in ToSet(m)
  <2>1. PICK j \in 1 .. Len(l) : l[j] = x
    BY DEF ToSet
  <2>2. j # k
    BY <1>7, <2>1
  <2> QED BY <1>1, <1>2, <2>1, <2>2 DEF ToSet
<1> QED BY <1>1, <1>4, <1>5, <1>6, <1>7 DEF m

(* A list before another one.                                               *)
LEMMA Joined ==
    ASSUME NEW l \in Seq(Tuple), NEW m \in Seq(Tuple)
    PROVE  /\ l \o m \in Seq(Tuple)
           /\ ToSet(l \o m) = ToSet(l) \union ToSet(m)
           /\ Distinct(l) /\ Distinct(m) /\ (\A x \in ToSet(l), y \in ToSet(m) : x.name # y.name)
                => Distinct(l \o m)
<1> DEFINE a == l \o m
<1>1. a \in Seq(Tuple) /\ Len(a) = Len(l) + Len(m) /\ DOMAIN a = 1 .. Len(l) + Len(m)
  OBVIOUS
<1>2. \A j \in 1 .. Len(l) + Len(m) : a[j] = IF j <= Len(l) THEN l[j] ELSE m[j - Len(l)]
  OBVIOUS
<1>3. DOMAIN l = 1 .. Len(l) /\ DOMAIN m = 1 .. Len(m) /\ Len(l) \in Nat /\ Len(m) \in Nat
  OBVIOUS
<1> HIDE DEF a
<1>4. ASSUME NEW j \in 1 .. Len(l) + Len(m)
      PROVE  \/ j \in 1 .. Len(l) /\ a[j] = l[j]
             \/ j - Len(l) \in 1 .. Len(m) /\ a[j] = m[j - Len(l)]
  BY <1>2, <1>3
<1>5. \A j \in 1 .. Len(l) : j \in 1 .. Len(l) + Len(m) /\ a[j] = l[j]
  BY <1>2, <1>3
<1>6. ASSUME NEW j \in 1 .. Len(m)
      PROVE  j + Len(l) \in 1 .. Len(l) + Len(m) /\ a[j + Len(l)] = m[j]
  BY <1>2, <1>3
<1>7. ToSet(a) = ToSet(l) \union ToSet(m)
  <2>1. ASSUME NEW x \in ToSet(a) PROVE x \in ToSet(l) \union ToSet(m)
    BY <1>1, <1>3, <1>4, <2>1, Zenon DEF ToSet
  <2>2. ASSUME NEW x \in ToSet(l) PROVE x \in ToSet(a)
    BY <1>1, <1>3, <1>5, <2>2, Zenon DEF ToSet
  <2>3. ASSUME NEW x \in ToSet(m) PROVE x \in ToSet(a)
    BY <1>1, <1>3, <1>6, <2>3, Zenon DEF ToSet
  <2> QED BY <2>1, <2>2, <2>3
<1>8. ASSUME Distinct(l), Distinct(m), \A x \in ToSet(l), y \in ToSet(m) : x.name # y.name
      PROVE  Distinct(a)
  <2> SUFFICES ASSUME NEW j \in 1 .. Len(l) + Len(m), NEW k \in 1 .. Len(l) + Len(m),
                      a[j].name = a[k].name
               PROVE  j = k
    BY <1>1 DEF Distinct
  <2>1. \A i \in 1 .. Len(l) : l[i] \in ToSet(l)
    BY <1>3 DEF ToSet
  <2>2. \A i \in 1 .. Len(m) : m[i] \in ToSet(m)
    BY <1>3 DEF ToSet
  <2>3. CASE j <= Len(l) /\ k <= Len(l)
    BY <1>2, <1>8, <2>3, OnePlace
  <2>4. CASE j <= Len(l) /\ ~(k <= Len(l))
    BY <1>2, <1>3, <1>4, <1>8, <2>1, <2>2, <2>4
  <2>5. CASE ~(j <= Len(l)) /\ k <= Len(l)
    BY <1>2, <1>3, <1>4, <1>8, <2>1, <2>2, <2>5
  <2>6. CASE ~(j <= Len(l)) /\ ~(k <= Len(l))
    <3>1. /\ j - Len(l) \in 1 .. Len(m) /\ a[j] = m[j - Len(l)]
          /\ k - Len(l) \in 1 .. Len(m) /\ a[k] = m[k - Len(l)]
      BY <1>3, <1>4, <2>6
    <3>2. j - Len(l) = k - Len(l)
      BY <1>8, <3>1, OnePlace
    <3> QED BY <1>3, <3>2
  <2> QED BY <2>3, <2>4, <2>5, <2>6
<1> QED BY <1>1, <1>7, <1>8 DEF a

(* A tuple that is taken out.                                               *)
LEMMA Removed ==
    ASSUME NEW l \in Seq(Tuple), NEW k \in 1 .. Len(l)
    PROVE  /\ RemoveAt(l, k) \in Seq(Tuple) /\ Len(RemoveAt(l, k)) = Len(l) - 1
           /\ \A j \in 1 .. Len(l) - 1 : RemoveAt(l, k)[j] = l[IF j < k THEN j ELSE j + 1]
<1> DEFINE a == SubSeq(l, 1, k - 1)
           b == SubSeq(l, k + 1, Len(l))
<1>1. /\ a \in Seq(Tuple) /\ Len(a) = k - 1
      /\ \A j \in 1 .. k - 1 : a[j] = l[j]
  OBVIOUS
<1>2. /\ b \in Seq(Tuple) /\ Len(b) = Len(l) - k
      /\ \A j \in 1 .. Len(l) - k : b[j] = l[j + k]
  OBVIOUS
<1>3. RemoveAt(l, k) = a \o b
  BY DEF RemoveAt
<1> HIDE DEF a, b
<1>4. a \o b \in Seq(Tuple) /\ Len(a \o b) = Len(l) - 1
  <2>1. a \o b \in Seq(Tuple) /\ Len(a \o b) = Len(a) + Len(b)
    BY <1>1, <1>2, ConcatProperties
  <2>2. k \in Int /\ Len(l) \in Int
    OBVIOUS
  <2> QED BY <1>1, <1>2, <2>1, <2>2
<1>5. ASSUME NEW j \in 1 .. Len(l) - 1
      PROVE  (a \o b)[j] = l[IF j < k THEN j ELSE j + 1]
  <2>1. CASE j < k
    <3>1. (a \o b)[j] = a[j] /\ j \in 1 .. k - 1
      BY <1>1, <1>2, <2>1
    <3> QED BY <1>1, <2>1, <3>1
  <2>2. CASE ~(j < k)
    <3>1. (a \o b)[j] = b[j - (k - 1)]
      BY <1>1, <1>2, <2>2
    <3>2. j - (k - 1) \in 1 .. Len(l) - k /\ (j - (k - 1)) + k = j + 1
      BY <2>2
    <3> QED BY <1>2, <2>2, <3>1, <3>2
  <2> QED BY <2>1, <2>2
<1> QED BY <1>3, <1>4, <1>5

LEMMA RemovedSet ==
    ASSUME NEW l \in Seq(Tuple), Distinct(l), NEW k \in 1 .. Len(l)
    PROVE  /\ Distinct(RemoveAt(l, k))
           /\ ToSet(RemoveAt(l, k)) = {x \in ToSet(l) : x.name # l[k].name}
<1> DEFINE m == RemoveAt(l, k)
           at(j) == IF j < k THEN j ELSE j + 1
<1>1. m \in Seq(Tuple) /\ Len(m) = Len(l) - 1
  BY Removed
<1>2. \A j \in 1 .. Len(l) - 1 : m[j] = l[at(j)]
  BY Removed
<1>3. DOMAIN m = 1 .. Len(l) - 1
  BY <1>1
<1> HIDE DEF m
<1>4. Distinct(m)
  <2> SUFFICES ASSUME NEW i \in 1 .. Len(l) - 1, NEW j \in 1 .. Len(l) - 1, m[i].name = m[j].name
               PROVE  i = j
    BY <1>3 DEF Distinct
  <2>1. at(i) = at(j)
    <3>1. at(i) \in 1 .. Len(l) /\ at(j) \in 1 .. Len(l)
      OBVIOUS
    <3> HIDE DEF at
    <3> QED BY <1>2, <3>1, OnePlace
  <2> QED BY <2>1
<1>5. ASSUME NEW x \in ToSet(m) PROVE x \in ToSet(l) /\ x.name # l[k].name
  <2>1. PICK j \in 1 .. Len(l) - 1 : m[j] = x
    BY <1>3 DEF ToSet
  <2>2. at(j) \in 1 .. Len(l) /\ at(j) # k
    OBVIOUS
  <2> HIDE DEF at
  <2> QED BY <1>2, <2>1, <2>2, OnePlace DEF ToSet
<1>6. ASSUME NEW x \in ToSet(l), x.name # l[k].name PROVE x \in ToSet(m)
  <2>1. PICK i \in 1 .. Len(l) : l[i] = x
    BY DEF ToSet
  <2>2. i # k
    BY <1>6, <2>1
  <2>3. PICK j \in 1 .. Len(l) - 1 : at(j) = i
    <3>1. CASE i < k
      BY <3>1
    <3>2. CASE i > k
      <4>1. i - 1 \in 1 .. Len(l) - 1 /\ at(i - 1) = i
        BY <3>2
      <4> QED BY <4>1
    <3> QED BY <2>2, <3>1, <3>2
  <2> HIDE DEF at
  <2>4. m[j] = x
    BY <1>2, <2>1, <2>3
  <2> QED BY <1>3, <2>4 DEF ToSet
<1> QED BY <1>4, <1>5, <1>6 DEF m

----------------------------------------------------------------------------
(* Bytes of lists                                                           *)

LEMMA BytesIsNat == ASSUME NEW ts \in Seq(Tuple) PROVE Bytes(ts) \in Nat
<1>1. PICK f \in [0 .. Len(ts) -> Nat] : Bytes(ts) = f[Len(ts)]
  BY BytesSum
<1>2. Len(ts) \in 0 .. Len(ts)
  OBVIOUS
<1> QED BY <1>1, <1>2

LEMMA BytesNone == Bytes(<<>>) = 0
<1>1. <<>> \in Seq(Tuple) /\ Len(<<>>) = 0
  OBVIOUS
<1> QED BY <1>1, BytesSum

(* The bytes of a list, less one of its tuples.                             *)
LEMMA BytesRemoved ==
    ASSUME NEW l \in Seq(Tuple), NEW k \in 1 .. Len(l)
    PROVE  Bytes(l) = Bytes(RemoveAt(l, k)) + SizeOf(l[k])
<1> DEFINE r == RemoveAt(l, k)
<1>1. r \in Seq(Tuple) /\ Len(r) = Len(l) - 1
  BY Removed
<1>2. \A j \in 1 .. Len(l) - 1 : r[j] = l[IF j < k THEN j ELSE j + 1]
  BY Removed
<1>3. PICK f \in [0 .. Len(l) -> Nat] :
        /\ Bytes(l) = f[Len(l)] /\ f[0] = 0
        /\ \A j \in 1 .. Len(l) : f[j] = f[j - 1] + SizeOf(l[j])
  BY BytesSum
<1>4. PICK g \in [0 .. Len(r) -> Nat] :
        /\ Bytes(r) = g[Len(r)] /\ g[0] = 0
        /\ \A j \in 1 .. Len(r) : g[j] = g[j - 1] + SizeOf(r[j])
  BY <1>1, BytesSum
<1> HIDE DEF r
<1> DEFINE S == {j \in 0 .. Len(l) - 1 :
                   f[IF j < k THEN j ELSE j + 1] = g[j] + IF j < k THEN 0 ELSE SizeOf(l[k])}
<1>5. Len(l) \in Nat /\ Len(l) - 1 \in Nat /\ Len(r) = Len(l) - 1
  BY <1>1
<1>6. \A j \in 1 .. Len(l) : SizeOf(l[j]) \in Nat
  BY SizeIsNat
<1>7. 0 \in S
  <2>1. 0 < k /\ 0 \in 0 .. Len(l) - 1
    BY <1>5
  <2> QED BY <1>3, <1>4, <2>1
<1>8. ASSUME NEW j \in 0 .. Len(l) - 1 - 1, j \in S PROVE j + 1 \in S
  <2>1. g[j + 1] = g[j] + SizeOf(r[j + 1]) /\ g[j] \in Nat /\ g[j + 1] \in Nat
    <3>1. j + 1 \in 1 .. Len(r) /\ (j + 1) - 1 = j /\ j \in 0 .. Len(r)
      BY <1>5
    <3> QED BY <1>4, <3>1
  <2>2. r[j + 1] = l[IF j + 1 < k THEN j + 1 ELSE j + 2]
    BY <1>2, <1>5
  <2>3. f[j + 1] = f[j] + SizeOf(l[j + 1]) /\ f[j] \in Nat
    <3>1. j + 1 \in 1 .. Len(l) /\ (j + 1) - 1 = j /\ j \in 0 .. Len(l)
      BY <1>5
    <3> QED BY <1>3, <3>1
  <2>4. f[j + 2] = f[j + 1] + SizeOf(l[j + 2]) /\ f[j + 1] \in Nat
    <3>1. j + 2 \in 1 .. Len(l) /\ (j + 2) - 1 = j + 1 /\ j + 1 \in 0 .. Len(l)
      BY <1>5
    <3> QED BY <1>3, <3>1
  <2>5. j + 1 \in 0 .. Len(l) - 1
    BY <1>5
  <2>6. SizeOf(l[j + 1]) \in Nat /\ SizeOf(l[j + 2]) \in Nat /\ SizeOf(l[k]) \in Nat
    <3>1. j + 1 \in 1 .. Len(l) /\ j + 2 \in 1 .. Len(l)
      BY <1>5
    <3> HIDE DEF S
    <3> QED BY <1>6, <3>1
  <2>7. CASE j + 1 < k
    <3>1. f[j] = g[j] /\ r[j + 1] = l[j + 1]
      BY <1>8, <2>1, <2>2, <2>7
    <3>2. f[j + 1] = g[j + 1] + 0
      BY <2>1, <2>3, <2>6, <3>1
    <3> QED BY <2>5, <2>7, <3>2
  <2>8. CASE j + 1 = k
    <3>1. f[j] = g[j] /\ r[j + 1] = l[j + 2]
      BY <1>8, <2>1, <2>2, <2>8
    <3>2. f[j + 2] = g[j + 1] + SizeOf(l[k])
      <4>1. SizeOf(l[j + 1]) = SizeOf(l[k]) /\ SizeOf(r[j + 1]) = SizeOf(l[j + 2])
        BY <2>8, <3>1
      <4> QED BY <2>1, <2>3, <2>4, <2>6, <3>1, <4>1
    <3>3. (j + 1) + 1 = j + 2 /\ ~(j + 1 < k)
      BY <2>8
    <3> QED BY <2>5, <3>2, <3>3
  <2>9. CASE j + 1 > k
    <3>1. f[j + 1] = g[j] + SizeOf(l[k]) /\ r[j + 1] = l[j + 2]
      BY <1>8, <2>1, <2>2, <2>9
    <3>2. f[j + 2] = g[j + 1] + SizeOf(l[k])
      <4>1. SizeOf(r[j + 1]) = SizeOf(l[j + 2])
        BY <3>1
      <4> QED BY <2>1, <2>4, <2>6, <3>1, <4>1
    <3>3. (j + 1) + 1 = j + 2 /\ ~(j + 1 < k)
      BY <2>9
    <3> QED BY <2>5, <3>2, <3>3
  <2> QED BY <2>7, <2>8, <2>9
<1>9. Len(l) - 1 \in S
  <2> HIDE DEF S
  <2>1. \A j \in 0 .. Len(l) - 1 : j \in S
    BY <1>5, <1>7, <1>8, UpTo
  <2> QED BY <1>5, <2>1
<1>10. (Len(l) - 1) + 1 = Len(l)
  BY <1>5
<1>11. CASE k = Len(l)
  <2>1. f[Len(l) - 1] = g[Len(l) - 1]
    BY <1>4, <1>5, <1>9, <1>11
  <2> QED BY <1>3, <1>4, <1>5, <1>10, <1>11, <2>1 DEF r
<1>12. CASE k # Len(l)
  BY <1>3, <1>4, <1>5, <1>9, <1>10, <1>12 DEF r
<1> QED BY <1>11, <1>12

(* Some of a list's tuples, in another order, take no more bytes.           *)
LEMMA FewerBytes ==
    ASSUME NEW t \in Seq(Tuple), NEW s \in Seq(Tuple), Distinct(t), Distinct(s),
           ToSet(t) \subseteq ToSet(s)
    PROVE  Bytes(t) <= Bytes(s)
<1> DEFINE Fewer(u, v) == Distinct(u) /\ Distinct(v) /\ ToSet(u) \subseteq ToSet(v)
           S == {n \in 0 .. Len(t) : \A u, v \in Seq(Tuple) :
                    Len(u) = n /\ Fewer(u, v) => Bytes(u) <= Bytes(v)}
<1>1. Len(t) \in Nat
  OBVIOUS
<1>2. 0 \in S
  <2> SUFFICES ASSUME NEW u \in Seq(Tuple), NEW v \in Seq(Tuple), Len(u) = 0
               PROVE  Bytes(u) <= Bytes(v)
    BY <1>1
  <2>1. u = <<>>
    OBVIOUS
  <2>2. Bytes(u) = 0 /\ Bytes(v) \in Nat
    BY <2>1, BytesNone, BytesIsNat
  <2> QED BY <2>2
<1>3. ASSUME NEW n \in 0 .. Len(t) - 1, n \in S PROVE n + 1 \in S
  <2> SUFFICES ASSUME NEW u \in Seq(Tuple), NEW v \in Seq(Tuple), Len(u) = n + 1, Fewer(u, v)
               PROVE  Bytes(u) <= Bytes(v)
    BY <1>1
  <2>1. n + 1 \in 1 .. Len(u)
    BY <1>1
  <2>2. u[n + 1] \in ToSet(v)
    <3>1. u[n + 1] \in ToSet(u)
      BY <2>1 DEF ToSet
    <3> QED BY <3>1
  <2>3. PICK k \in 1 .. Len(v) : v[k] = u[n + 1]
    BY <2>2 DEF ToSet
  <2> DEFINE x == RemoveAt(u, n + 1)
             y == RemoveAt(v, k)
  <2>4. x \in Seq(Tuple) /\ Len(x) = n /\ y \in Seq(Tuple)
    BY <1>1, <2>1, Removed
  <2>5. Fewer(x, y)
    BY <2>1, <2>3, RemovedSet
  <2>6. Bytes(u) = Bytes(x) + SizeOf(u[n + 1]) /\ Bytes(v) = Bytes(y) + SizeOf(v[k])
    BY <2>1, BytesRemoved
  <2>7. Bytes(x) <= Bytes(y)
    <3> HIDE DEF x, y, Fewer
    <3> QED BY <1>3, <2>4, <2>5
  <2>8. Bytes(x) \in Nat /\ Bytes(y) \in Nat /\ SizeOf(v[k]) \in Nat
    <3>1. v[k] \in Tuple
      OBVIOUS
    <3> QED BY <2>4, <3>1, BytesIsNat, SizeIsNat
  <2> HIDE DEF x, y
  <2> QED BY <2>3, <2>6, <2>7, <2>8
<1>4. Len(t) \in S
  <2> HIDE DEF S
  <2>1. \A n \in 0 .. Len(t) : n \in S
    BY <1>1, <1>2, <1>3, UpTo
  <2> QED BY <1>1, <2>1
<1> QED BY <1>4

----------------------------------------------------------------------------
(* Tables                                                                   *)

\* Each tuple is in its bucket, and each name has one tuple.
Proper(tb) ==
    /\ tb \in [1 .. Buckets -> Seq(Tuple)]
    /\ \A b \in 1 .. Buckets : Distinct(tb[b]) /\ \A t \in ToSet(tb[b]) : Bucket[t.name] = b

\* The tuples that are found by their names.
Content(tb) == {t \in Tuple : t \in ToSet(tb[Bucket[t.name]])}

LEMMA OwnBucket ==
    ASSUME NEW tb, Proper(tb), NEW n \in Name
    PROVE  /\ Bucket[n] \in 1 .. Buckets /\ tb[Bucket[n]] \in Seq(Tuple)
           /\ Distinct(tb[Bucket[n]])
<1>1. Bucket[n] \in 1 .. Buckets
  BY BucketAssumption
<1> QED BY <1>1 DEF Proper

(* Where a name is.                                                         *)
LEMMA Place ==
    ASSUME NEW tb, Proper(tb), NEW n \in Name, Has(tb, n)
    PROVE  /\ At(tb, n) \in 1 .. Len(tb[Bucket[n]])
           /\ tb[Bucket[n]][At(tb, n)] \in Tuple
           /\ tb[Bucket[n]][At(tb, n)].name = n
<1>1. tb[Bucket[n]] \in Seq(Tuple)
  BY OwnBucket
<1>2. DOMAIN tb[Bucket[n]] = 1 .. Len(tb[Bucket[n]])
  BY <1>1
<1>3. At(tb, n) \in DOMAIN tb[Bucket[n]] /\ tb[Bucket[n]][At(tb, n)].name = n
  BY DEF Has, At
<1> QED BY <1>1, <1>2, <1>3

(* A table as a set of tuples: what Has and Get say of it.                  *)
LEMMA ContentIs ==
    ASSUME NEW tb, Proper(tb)
    PROVE  /\ \A b \in 1 .. Buckets : ToSet(tb[b]) \subseteq Content(tb)
           /\ \A t \in Content(tb) : Has(tb, t.name) /\ Get(tb, t.name) = t.value
           /\ \A n \in Name : Has(tb, n) =>
                [name |-> n, value |-> Get(tb, n)] \in Content(tb)
           /\ \A t, u \in Content(tb) : t.name = u.name => t = u
<1>1. ASSUME NEW b \in 1 .. Buckets, NEW t \in ToSet(tb[b]) PROVE t \in Content(tb)
  <2>1. tb[b] \in Seq(Tuple) /\ Bucket[t.name] = b
    BY DEF Proper
  <2>2. t \in Tuple
    BY <2>1 DEF ToSet
  <2> QED BY <2>1, <2>2 DEF Content
<1>2. ASSUME NEW t \in Content(tb) PROVE Has(tb, t.name) /\ Get(tb, t.name) = t.value
  <2> DEFINE l == tb[Bucket[t.name]]
  <2>1. t \in Tuple /\ t.name \in Name /\ t \in ToSet(l)
    BY DEF Content, Tuple
  <2>2. l \in Seq(Tuple) /\ Distinct(l)
    BY <2>1, OwnBucket
  <2>3. PICK k \in 1 .. Len(l) : l[k] = t
    BY <2>1, <2>2, InList
  <2>4. DOMAIN l = 1 .. Len(l)
    BY <2>2
  <2>5. Has(tb, t.name)
    BY <2>3, <2>4 DEF Has
  <2>6. At(tb, t.name) \in 1 .. Len(l) /\ l[At(tb, t.name)].name = t.name
    BY <2>1, <2>5, Place
  <2>7. At(tb, t.name) = k
    <3> HIDE DEF l
    <3> QED BY <2>2, <2>3, <2>6, OnePlace
  <2> QED BY <2>3, <2>5, <2>7 DEF Get
<1>3. ASSUME NEW n \in Name, Has(tb, n)
      PROVE  [name |-> n, value |-> Get(tb, n)] \in Content(tb)
  <2> DEFINE l == tb[Bucket[n]]
             t == l[At(tb, n)]
  <2>1. l \in Seq(Tuple)
    BY OwnBucket
  <2>2. At(tb, n) \in 1 .. Len(l) /\ t \in Tuple /\ t.name = n
    BY <1>3, Place
  <2>3. t \in ToSet(l)
    <3> HIDE DEF l
    <3> QED BY <2>1, <2>2, InList
  <2>4. t = [name |-> n, value |-> Get(tb, n)]
    BY <2>2 DEF Tuple, Get
  <2> QED BY <2>2, <2>3, <2>4 DEF Content
<1>4. ASSUME NEW t \in Content(tb), NEW u \in Content(tb), t.name = u.name PROVE t = u
  <2>1. t \in Tuple /\ u \in Tuple
    BY DEF Content
  <2> QED BY <1>2, <1>4, <2>1, TuplesDiffer
<1> QED BY <1>1, <1>2, <1>3, <1>4

LEMMA NamedIs ==
    ASSUME NEW tb, Proper(tb), NEW n \in Name
    PROVE  Has(tb, n) <=> \E t \in Content(tb) : t.name = n
<1>1. ASSUME Has(tb, n) PROVE \E t \in Content(tb) : t.name = n
  <2>1. [name |-> n, value |-> Get(tb, n)] \in Content(tb)
    BY <1>1, ContentIs
  <2> QED BY <2>1
<1>2. ASSUME NEW t \in Content(tb), t.name = n PROVE Has(tb, n)
  BY <1>2, ContentIs
<1> QED BY <1>1, <1>2

LEMMA EmptyIsProper == Proper(EmptyTable) /\ Content(EmptyTable) = {}
<1>1. EmptyTable \in [1 .. Buckets -> Seq(Tuple)] /\ \A b \in 1 .. Buckets : EmptyTable[b] = <<>>
  BY DEF EmptyTable
<1>2. Distinct(<<>>) /\ ToSet(<<>>) = {}
  BY DEF Distinct, ToSet
<1>3. \A t \in Tuple : Bucket[t.name] \in 1 .. Buckets
  BY BucketAssumption DEF Tuple
<1> QED BY <1>1, <1>2, <1>3 DEF Proper, Content

(* A table of which one bucket changes.                                     *)
LEMMA ChangeBucket ==
    ASSUME NEW tb, Proper(tb), NEW b \in 1 .. Buckets, NEW l \in Seq(Tuple), Distinct(l),
           \A t \in ToSet(l) : Bucket[t.name] = b, NEW new, new = [tb EXCEPT ![b] = l]
    PROVE  /\ Proper(new)
           /\ \A t : t \in Content(new) <=>
                  (t \in Content(tb) /\ Bucket[t.name] # b) \/ t \in ToSet(l)
<1>1. new \in [1 .. Buckets -> Seq(Tuple)]
  BY DEF Proper
<1>2. \A c \in 1 .. Buckets : new[c] = IF c = b THEN l ELSE tb[c]
  BY DEF Proper
<1>3. Proper(new)
  BY <1>1, <1>2 DEF Proper
<1>4. \A t \in Tuple : Bucket[t.name] \in 1 .. Buckets
  BY BucketAssumption DEF Tuple
<1>5. \A t \in ToSet(l) : t \in Tuple
  BY DEF ToSet
<1>6. \A t : t \in Content(new) <=>
                  (t \in Content(tb) /\ Bucket[t.name] # b) \/ t \in ToSet(l)
  BY <1>2, <1>4, <1>5 DEF Content
<1> QED BY <1>3, <1>6

LEMMA SetIs ==
    ASSUME NEW tb, Proper(tb), NEW n \in Name, NEW v \in Value
    PROVE  /\ Proper(Set(tb, n, v))
           /\ \A t : t \in Content(Set(tb, n, v)) <=>
                \/ t \in Content(tb) /\ t.name # n
                \/ t = [name |-> n, value |-> v]
<1> DEFINE b == Bucket[n]
           x == [name |-> n, value |-> v]
           l == tb[b]
           m == IF Has(tb, n) THEN [l EXCEPT ![At(tb, n)] = x] ELSE <<x>> \o l
<1>1. b \in 1 .. Buckets /\ l \in Seq(Tuple) /\ Distinct(l) /\ \A t \in ToSet(l) : Bucket[t.name] = b
  BY OwnBucket DEF Proper
<1>2. x \in Tuple /\ x.name = n
  BY DEF Tuple
<1>3. Set(tb, n, v) = [tb EXCEPT ![b] = m]
  BY <1>1 DEF Set, Proper
<1>4. m \in Seq(Tuple) /\ Distinct(m) /\ ToSet(m) = {t \in ToSet(l) : t.name # n} \union {x}
  <2>1. CASE Has(tb, n)
    <3>1. At(tb, n) \in 1 .. Len(l) /\ l[At(tb, n)].name = n
      BY <2>1, Place
    <3>2. m = [l EXCEPT ![At(tb, n)] = x]
      BY <2>1
    <3> HIDE DEF x, l, m
    <3> QED BY <1>1, <1>2, <3>1, <3>2, Replaced
  <2>2. CASE ~Has(tb, n)
    <3>1. m = <<x>> \o l
      BY <2>2
    <3>2. \A t \in ToSet(l) : t.name # n
      BY <2>2 DEF Has, ToSet
    <3>3. <<x>> \in Seq(Tuple) /\ Distinct(<<x>>) /\ ToSet(<<x>>) = {x}
      BY <1>2 DEF Distinct, ToSet
    <3> HIDE DEF x, l, m
    <3>4. \A t \in ToSet(<<x>>), u \in ToSet(l) : t.name # u.name
      BY <1>2, <3>2, <3>3
    <3>5. m \in Seq(Tuple) /\ Distinct(m) /\ ToSet(m) = ToSet(<<x>>) \union ToSet(l)
      BY <1>1, <3>1, <3>3, <3>4, Joined
    <3> QED BY <3>2, <3>3, <3>5
  <2> QED BY <2>1, <2>2
<1> HIDE DEF m
<1>5. \A t \in ToSet(m) : Bucket[t.name] = b
  BY <1>1, <1>2, <1>4
<1>6. /\ Proper(Set(tb, n, v))
      /\ \A t : t \in Content(Set(tb, n, v)) <=>
                (t \in Content(tb) /\ Bucket[t.name] # b) \/ t \in ToSet(m)
  <2> HIDE DEF b, l
  <2> QED BY <1>1, <1>3, <1>4, <1>5, ChangeBucket
<1>7. \A t \in Content(tb) : Bucket[t.name] = b => t \in ToSet(l)
  BY DEF Content
<1>8. \A t \in ToSet(l) : t \in Content(tb)
  BY <1>1, ContentIs
<1> QED BY <1>1, <1>4, <1>6, <1>7, <1>8

LEMMA UnsetIs ==
    ASSUME NEW tb, Proper(tb), NEW n \in Name
    PROVE  /\ Proper(Unset(tb, n))
           /\ \A t : t \in Content(Unset(tb, n)) <=> t \in Content(tb) /\ t.name # n
<1> DEFINE b == Bucket[n]
           l == tb[b]
           m == RemoveAt(l, At(tb, n))
<1>1. b \in 1 .. Buckets /\ l \in Seq(Tuple) /\ Distinct(l) /\ \A t \in ToSet(l) : Bucket[t.name] = b
  BY OwnBucket DEF Proper
<1>2. CASE ~Has(tb, n)
  <2>1. \A t \in Content(tb) : t.name # n
    BY <1>2, NamedIs
  <2> QED BY <1>2, <2>1 DEF Unset
<1>3. CASE Has(tb, n)
  <2>1. Unset(tb, n) = [tb EXCEPT ![b] = m]
    BY <1>1, <1>3 DEF Unset, Proper
  <2>2. At(tb, n) \in 1 .. Len(l) /\ l[At(tb, n)].name = n
    BY <1>3, Place
  <2>3. m \in Seq(Tuple) /\ Distinct(m) /\ ToSet(m) = {t \in ToSet(l) : t.name # n}
    <3> HIDE DEF l
    <3> QED BY <1>1, <2>2, Removed, RemovedSet
  <2> HIDE DEF m
  <2>4. \A t \in ToSet(m) : Bucket[t.name] = b
    BY <1>1, <2>3
  <2>5. /\ Proper(Unset(tb, n))
        /\ \A t : t \in Content(Unset(tb, n)) <=>
                (t \in Content(tb) /\ Bucket[t.name] # b) \/ t \in ToSet(m)
    <3> HIDE DEF b, l
    <3> QED BY <1>1, <2>1, <2>3, <2>4, ChangeBucket
  <2>6. \A t \in Content(tb) : Bucket[t.name] = b => t \in ToSet(l)
    BY DEF Content
  <2>7. \A t \in ToSet(l) : t \in Content(tb)
    BY <1>1, ContentIs
  <2> QED BY <1>1, <2>3, <2>5, <2>6, <2>7
<1> QED BY <1>2, <1>3

(* The arguments of a command: the last change to a name counts.            *)
ChangesName(ops, k, n) == ops[k].name = n /\ ops[k].op # "get"
LastChange(ops, m, k, n) ==
    /\ k \in 1 .. m /\ ChangesName(ops, k, n)
    /\ \A j \in k + 1 .. m : ~ChangesName(ops, j, n)
NoChange(ops, m, n) == \A j \in 1 .. m : ~ChangesName(ops, j, n)

\* What a table holds after the first m arguments.
After(tb, ops, m, t) ==
    \/ NoChange(ops, m, t.name) /\ t \in Content(tb)
    \/ /\ t \in Tuple
       /\ \E k \in 1 .. m : /\ LastChange(ops, m, k, t.name)
                            /\ ops[k].op = "set" /\ ops[k].value = t.value

LEMMA DoIs ==
    ASSUME NEW tb, Proper(tb), NEW o \in Op
    PROVE  /\ Proper(Do(tb, o))
           /\ \A t : t \in Content(Do(tb, o)) <=>
                \/ t \in Content(tb) /\ (t.name = o.name => o.op = "get")
                \/ o.op = "set" /\ t = [name |-> o.name, value |-> o.value]
<1>1. o.name \in Name /\ o.value \in Value /\ o.op \in {"set", "unset", "get"}
  BY DEF Op
<1>2. CASE o.op = "set"
  <2>1. Do(tb, o) = Set(tb, o.name, o.value)
    BY <1>2 DEF Do
  <2> QED BY <1>1, <1>2, <2>1, SetIs
<1>3. CASE o.op = "unset"
  <2>1. Do(tb, o) = Unset(tb, o.name)
    BY <1>3 DEF Do
  <2> QED BY <1>1, <1>3, <2>1, UnsetIs
<1>4. CASE o.op = "get"
  <2>1. Do(tb, o) = tb
    BY <1>4 DEF Do
  <2> QED BY <1>4, <2>1
<1> QED BY <1>1, <1>2, <1>3, <1>4

LEMMA DoAfter ==
    ASSUME NEW ops \in Seq(Op), NEW k \in Nat, k + 1 \in 1 .. Len(ops), NEW tb, NEW new,
           Content(tb) \subseteq Tuple, Proper(new),
           \A t : t \in Content(new) <=> After(tb, ops, k, t)
    PROVE  /\ Proper(Do(new, ops[k + 1]))
           /\ \A t : t \in Content(Do(new, ops[k + 1])) <=> After(tb, ops, k + 1, t)
<1> DEFINE o == ops[k + 1]
<1>1. o \in Op /\ o.name \in Name /\ o.value \in Value /\ o.op \in {"set", "unset", "get"}
  <2>1. o \in Op
    OBVIOUS
  <2> HIDE DEF o
  <2> QED BY <2>1 DEF Op
<1>2. /\ Proper(Do(new, o))
      /\ \A t : t \in Content(Do(new, o)) <=>
           \/ t \in Content(new) /\ (t.name = o.name => o.op = "get")
           \/ o.op = "set" /\ t = [name |-> o.name, value |-> o.value]
  <2> HIDE DEF o
  <2> QED BY <1>1, DoIs
<1>3. ASSUME NEW t PROVE t \in Content(Do(new, o)) <=> After(tb, ops, k + 1, t)
  <2> DEFINE n == t.name
  <2>1. CASE ~ChangesName(ops, k + 1, n)
    <3>1. NoChange(ops, k + 1, n) <=> NoChange(ops, k, n)
      BY <2>1 DEF NoChange
    <3>2. \A j \in 1 .. k : LastChange(ops, k + 1, j, n) <=> LastChange(ops, k, j, n)
      BY <2>1 DEF LastChange
    <3>3. ~LastChange(ops, k + 1, k + 1, n)
      BY <2>1 DEF LastChange
    <3>4. After(tb, ops, k + 1, t) <=> After(tb, ops, k, t)
      <4>1. 1 .. k + 1 = (1 .. k) \union {k + 1}
        OBVIOUS
      <4> QED BY <3>1, <3>2, <3>3, <4>1, Zenon DEF After
    <3>5. ~(o.op = "set" /\ t = [name |-> o.name, value |-> o.value])
      BY <2>1 DEF ChangesName
    <3>6. n = o.name => o.op = "get"
      BY <2>1 DEF ChangesName
    <3> QED BY <1>2, <3>4, <3>5, <3>6
  <2>2. CASE ChangesName(ops, k + 1, n)
    <3>1. ~NoChange(ops, k + 1, n)
      BY <2>2 DEF NoChange
    <3>2. LastChange(ops, k + 1, k + 1, n)
      BY <2>2 DEF LastChange
    <3>3. \A j \in 1 .. k : ~LastChange(ops, k + 1, j, n)
      BY <2>2 DEF LastChange
    <3>4. After(tb, ops, k + 1, t) <=> t \in Tuple /\ o.op = "set" /\ o.value = t.value
      <4>1. 1 .. k + 1 = (1 .. k) \union {k + 1}
        OBVIOUS
      <4> QED BY <3>1, <3>2, <3>3, <4>1, Zenon DEF After
    <3>5. o.name = n /\ o.op # "get"
      BY <2>2 DEF ChangesName
    <3>6. t = [name |-> o.name, value |-> o.value] <=> t \in Tuple /\ o.value = t.value
      BY <1>1, <3>5 DEF Tuple
    <3> QED BY <1>2, <3>4, <3>5, <3>6
  <2> QED BY <2>1, <2>2
<1> QED BY <1>2, <1>3

LEMMA EditIs ==
    ASSUME NEW tb, Proper(tb), NEW ops \in Seq(Op)
    PROVE  /\ Proper(Edit(tb, ops))
           /\ \A t : t \in Content(Edit(tb, ops)) <=> After(tb, ops, Len(ops), t)
<1> DEFINE m == Len(ops)
           T == {new \in [1 .. Buckets -> Seq(Tuple)] : Proper(new)}
           P(f) == f = [k \in 0 .. m |-> IF k = 0 THEN tb ELSE Do(f[k - 1], ops[k])]
           G == [k \in 1 .. m |-> [new \in T |-> Do(new, ops[k])]]
<1>1. m \in Nat /\ \A k \in 1 .. m : ops[k] \in Op
  OBVIOUS
<1>2. \A new : new \in T <=> Proper(new)
  BY DEF Proper
<1>3. PICK f : Iteration(m, T, tb, G, f)
  <2>1. \A k \in 1 .. m, new \in T : Do(new, ops[k]) \in T
    BY <1>1, <1>2, DoIs
  <2>2. G \in [1 .. m -> [T -> T]]
    <3> HIDE DEF T
    <3> QED BY <2>1
  <2>3. tb \in T
    BY <1>2
  <2> HIDE DEF G, m, T
  <2> QED BY <1>1, <2>2, <2>3, Iterates
<1>4. f \in [0 .. m -> T] /\ f[0] = tb
  BY <1>3 DEF Iteration
<1>5. ASSUME NEW k \in 1 .. m PROVE f[k] = Do(f[k - 1], ops[k])
  <2>1. f[k] = G[k][f[k - 1]]
    BY <1>3 DEF Iteration
  <2>2. f[k - 1] \in T
    BY <1>4
  <2> HIDE DEF T
  <2> QED BY <2>1, <2>2
<1>6. P(f)
  <2> HIDE DEF G, T
  <2>1. ASSUME NEW k \in 0 .. m PROVE f[k] = IF k = 0 THEN tb ELSE Do(f[k - 1], ops[k])
    <3>1. CASE k = 0
      BY <1>4, <3>1
    <3>2. CASE k # 0
      <4>1. k \in 1 .. m
        BY <3>2
      <4> QED BY <1>5, <3>2, <4>1
    <3> QED BY <3>1, <3>2
  <2> QED BY <1>4, <2>1
<1> DEFINE done == CHOOSE h : P(h)
<1>7. P(done)
  BY <1>6
<1>8. Edit(tb, ops) = done[m]
  BY DEF Edit
<1> HIDE DEF done
<1>9. done[0] = tb /\ \A k \in 1 .. m : done[k] = Do(done[k - 1], ops[k])
  BY <1>1, <1>7
<1> DEFINE S == {k \in 0 .. m : /\ Proper(done[k])
                                /\ \A t : t \in Content(done[k]) <=> After(tb, ops, k, t)}
<1>10. 0 \in S
  <2>1. \A n : NoChange(ops, 0, n)
    BY DEF NoChange
  <2>2. 1 .. 0 = {} /\ 0 \in 0 .. m
    BY <1>1
  <2>3. \A t : After(tb, ops, 0, t) <=> t \in Content(tb)
    BY <2>1, <2>2, Zenon DEF After
  <2> QED BY <1>9, <2>2, <2>3
<1>11. ASSUME NEW k \in 0 .. m - 1, k \in S PROVE k + 1 \in S
  <2>1. k \in Nat /\ k + 1 \in 1 .. m /\ (k + 1) - 1 = k
    BY <1>1
  <2>2. done[k + 1] = Do(done[k], ops[k + 1])
    BY <1>9, <2>1
  <2>3. Content(tb) \subseteq Tuple
    BY DEF Content
  <2>4. /\ Proper(Do(done[k], ops[k + 1]))
        /\ \A t : t \in Content(Do(done[k], ops[k + 1])) <=> After(tb, ops, k + 1, t)
    BY <1>11, <2>1, <2>3, DoAfter
  <2> QED BY <2>1, <2>2, <2>4
<1>12. m \in S
  <2> HIDE DEF S
  <2>1. \A k \in 0 .. m : k \in S
    <3> HIDE DEF m
    <3> QED BY <1>1, <1>10, <1>11, UpTo
  <2> QED BY <1>1, <2>1
<1> QED BY <1>8, <1>12

(* A list of a set's elements.                                              *)
LEMMA SetToSeqIs ==
    ASSUME NEW S, IsFiniteSet(S)
    PROVE  /\ SetToSeq(S) \in Seq(S) /\ Len(SetToSeq(S)) = Cardinality(S)
           /\ \A x \in S : \E k \in 1 .. Cardinality(S) : SetToSeq(S)[k] = x
           /\ \A j, k \in 1 .. Cardinality(S) : SetToSeq(S)[j] = SetToSeq(S)[k] => j = k
<1> DEFINE n == Cardinality(S)
<1>1. n \in Nat /\ ExistsBijection(1 .. n, S)
  BY FS_CardinalityType
<1>2. PICK g \in Bijection(1 .. n, S) : TRUE
  BY <1>1 DEF ExistsBijection
<1>3. g \in [1 .. n -> S] /\ IsInjective(g)
  BY <1>2 DEF Bijection, Injection
<1>4. SetToSeq(S) \in [1 .. n -> S] /\ IsInjective(SetToSeq(S))
  <2>1. SetToSeq(S) = CHOOSE f \in [1 .. n -> S] : IsInjective(f)
    BY DEF SetToSeq
  <2> HIDE DEF n
  <2> QED BY <1>3, <2>1
<1> DEFINE f == SetToSeq(S)
<1> HIDE DEF f
<1>5. f \in Injection(1 .. n, S)
  BY <1>4 DEF Injection, f
<1>6. Cardinality(1 .. n) = n /\ IsFiniteSet(1 .. n)
  BY <1>1, FS_Interval
<1>7. f \in Surjection(1 .. n, S)
  BY <1>5, <1>6, FS_Injection
<1>8. \A x \in S : \E k \in 1 .. n : f[k] = x
  BY <1>7 DEF Surjection
<1>9. f \in [1 .. n -> S]
  BY <1>5 DEF Injection
<1>10. f \in Seq(S) /\ Len(f) = n
  BY <1>1, <1>9
<1>11. \A j, k \in 1 .. n : f[j] = f[k] => j = k
  BY <1>4, <1>9 DEF IsInjective, f
<1> QED BY <1>8, <1>10, <1>11 DEF f

(* A tuple for each of a set of names.                                      *)
LEMMA TupleEach ==
    ASSUME NEW N, N \subseteq Name, IsFiniteSet(N), NEW f, \A n \in N : f[n] \in Value,
           NEW ns, ns = SetToSeq(N),
           NEW ts, ts = [k \in DOMAIN ns |-> [name |-> ns[k], value |-> f[ns[k]]]]
    PROVE  /\ ts \in Seq(Tuple) /\ Distinct(ts)
           /\ \A t : t \in ToSet(ts) <=> \E n \in N : t = [name |-> n, value |-> f[n]]
<1> DEFINE m == Cardinality(N)
<1>1. m \in Nat
  BY FS_CardinalityType
<1>2. ns \in Seq(N) /\ Len(ns) = m
  BY SetToSeqIs
<1>3. \A n \in N : \E k \in 1 .. m : ns[k] = n
  BY SetToSeqIs
<1>4. \A j, k \in 1 .. m : ns[j] = ns[k] => j = k
  BY SetToSeqIs
<1> HIDE DEF m
<1>5. DOMAIN ns = 1 .. m /\ \A k \in 1 .. m : ns[k] \in N
  BY <1>2
<1>6. \A k \in 1 .. m : ts[k] = [name |-> ns[k], value |-> f[ns[k]]] /\ ts[k] \in Tuple
  BY <1>5 DEF Tuple
<1>7. ts \in Seq(Tuple) /\ DOMAIN ts = 1 .. m
  <2>1. ts = [k \in 1 .. m |-> ts[k]]
    BY <1>5
  <2>2. ts \in [1 .. m -> Tuple]
    BY <1>6, <2>1
  <2> QED BY <1>1, <2>2
<1>8. Distinct(ts)
  BY <1>4, <1>6, <1>7 DEF Distinct
<1>9. ASSUME NEW t \in ToSet(ts) PROVE \E n \in N : t = [name |-> n, value |-> f[n]]
  BY <1>5, <1>6, <1>7 DEF ToSet
<1>10. ASSUME NEW n \in N PROVE [name |-> n, value |-> f[n]] \in ToSet(ts)
  <2>1. PICK k \in 1 .. m : ns[k] = n
    BY <1>3
  <2> QED BY <1>6, <1>7, <2>1 DEF ToSet
<1> QED BY <1>7, <1>8, <1>9, <1>10

(* The SDRAM variables that have no tuple get that of the header.           *)
LEMMA FromHeaderIs ==
    ASSUME NEW tb, Proper(tb), NEW hdr \in [Sdram -> Value]
    PROVE  /\ Proper(FromHeader(tb, hdr))
           /\ \A t : t \in Content(FromHeader(tb, hdr)) <=>
                \/ t \in Content(tb)
                \/ \E n \in Sdram : ~Has(tb, n) /\ t = [name |-> n, value |-> hdr[n]]
<1> DEFINE N(b) == {n \in Sdram : Bucket[n] = b /\ ~Has(tb, n)}
           ns(b) == SetToSeq(N(b))
           new(b) == [k \in DOMAIN ns(b) |-> [name |-> ns(b)[k], value |-> hdr[ns(b)[k]]]]
           fh == FromHeader(tb, hdr)
<1>1. \A b : N(b) \subseteq Name /\ IsFiniteSet(N(b)) /\ N(b) \subseteq Sdram
  <2>1. \A b : N(b) \in SUBSET Sdram /\ N(b) \subseteq Name
    BY SdramAssumption
  <2> HIDE DEF N
  <2> QED BY <2>1, SdramAssumption, FS_Subset
<1>2. ASSUME NEW b PROVE /\ new(b) \in Seq(Tuple) /\ Distinct(new(b))
                         /\ \A t : t \in ToSet(new(b)) <=>
                                     \E n \in N(b) : t = [name |-> n, value |-> hdr[n]]
  <2>1. \A n \in N(b) : hdr[n] \in Value
    BY <1>1
  <2> HIDE DEF N
  <2> QED BY <1>1, <2>1, TupleEach
<1>3. fh = [b \in 1 .. Buckets |-> new(b) \o tb[b]]
  BY DEF FromHeader
<1> HIDE DEF new, fh
<1>4. ASSUME NEW b \in 1 .. Buckets
      PROVE  /\ tb[b] \in Seq(Tuple) /\ Distinct(tb[b])
             /\ \A t \in ToSet(tb[b]) : Bucket[t.name] = b
  BY DEF Proper
<1>5. ASSUME NEW b \in 1 .. Buckets, NEW t \in ToSet(new(b)), NEW u \in ToSet(tb[b])
      PROVE  t.name # u.name
  <2>1. PICK n \in N(b) : t = [name |-> n, value |-> hdr[n]]
    BY <1>2
  <2>2. n \in Sdram /\ n \in Name /\ ~Has(tb, n) /\ t.name = n
    BY <2>1, SdramAssumption
  <2>3. u \in Content(tb)
    BY ContentIs
  <2> QED BY <2>2, <2>3, NamedIs
<1>6. ASSUME NEW b \in 1 .. Buckets
      PROVE  /\ fh[b] \in Seq(Tuple) /\ Distinct(fh[b])
             /\ \A t : t \in ToSet(fh[b]) <=> t \in ToSet(new(b)) \/ t \in ToSet(tb[b])
  <2>1. fh[b] = new(b) \o tb[b]
    BY <1>3
  <2> QED BY <1>2, <1>4, <1>5, <2>1, Joined
<1>7. \A b \in 1 .. Buckets : \A t \in ToSet(new(b)) : Bucket[t.name] = b
  BY <1>2
<1>8. Proper(fh)
  <2>1. fh \in [1 .. Buckets -> Seq(Tuple)]
    BY <1>3, <1>6
  <2> QED BY <1>4, <1>6, <1>7, <2>1 DEF Proper
<1>9. \A t \in Tuple : Bucket[t.name] \in 1 .. Buckets
  BY BucketAssumption DEF Tuple
<1>10. ASSUME NEW t \in Content(fh), t \notin Content(tb)
       PROVE  \E n \in Sdram : ~Has(tb, n) /\ t = [name |-> n, value |-> hdr[n]]
  <2>1. t \in Tuple /\ t \in ToSet(fh[Bucket[t.name]])
    BY DEF Content
  <2>2. t \in ToSet(new(Bucket[t.name]))
    BY <1>6, <1>9, <1>10, <2>1 DEF Content
  <2> QED BY <1>2, <2>2
<1>11. ASSUME NEW t \in Content(tb) PROVE t \in Content(fh)
  <2>1. t \in Tuple /\ t \in ToSet(tb[Bucket[t.name]])
    BY DEF Content
  <2> QED BY <1>6, <1>9, <2>1 DEF Content
<1>12. ASSUME NEW n \in Sdram, ~Has(tb, n) PROVE [name |-> n, value |-> hdr[n]] \in Content(fh)
  <2> DEFINE t == [name |-> n, value |-> hdr[n]]
  <2>1. t \in Tuple /\ t.name = n
    BY SdramAssumption DEF Tuple
  <2>2. t \in ToSet(new(Bucket[n]))
    BY <1>2, <1>12
  <2> QED BY <1>6, <1>9, <2>1, <2>2 DEF Content
<1> QED BY <1>8, <1>10, <1>11, <1>12 DEF fh

(* The header of a table holds what the table does.                         *)
LEMMA HeaderIs ==
    ASSUME NEW tb, Proper(tb)
    PROVE  /\ Header(tb) \in [Sdram -> Value]
           /\ \A n \in Sdram : (\A m \in Sdram : Has(tb, m)) => Header(tb)[n] = Get(tb, n)
           /\ \A n \in Sdram : ~(\A m \in Sdram : Has(tb, m)) => Header(tb)[n] = Default
<1>1. ASSUME NEW n \in Sdram, Has(tb, n) PROVE Get(tb, n) \in Value
  <2>1. n \in Name
    BY SdramAssumption
  <2>2. [name |-> n, value |-> Get(tb, n)] \in Tuple
    BY <1>1, <2>1, ContentIs DEF Content
  <2> QED BY <2>2 DEF Tuple
<1>2. CASE \A m \in Sdram : Has(tb, m)
  BY <1>1, <1>2 DEF Header
<1>3. CASE ~(\A m \in Sdram : Has(tb, m))
  BY <1>3, SdramAssumption DEF Header
<1> QED BY <1>2, <1>3

----------------------------------------------------------------------------
(* What nvram_commit writes                                                 *)

LEMMA Prefix ==
    ASSUME NEW ts \in Seq(Tuple), NEW m \in 0 .. Len(ts)
    PROVE  /\ SubSeq(ts, 1, m) \in Seq(Tuple) /\ Len(SubSeq(ts, 1, m)) = m
           /\ \A k \in 1 .. m : SubSeq(ts, 1, m)[k] = ts[k]
           /\ ToSet(SubSeq(ts, 1, m)) \subseteq ToSet(ts)
           /\ Distinct(ts) => Distinct(SubSeq(ts, 1, m))
<1> DEFINE a == SubSeq(ts, 1, m)
<1>1. a \in Seq(Tuple) /\ Len(a) = m /\ \A k \in 1 .. m : a[k] = ts[k]
  OBVIOUS
<1>2. DOMAIN a = 1 .. m /\ DOMAIN ts = 1 .. Len(ts) /\ \A k \in 1 .. m : k \in 1 .. Len(ts)
  BY <1>1
<1> HIDE DEF a
<1>3. ToSet(a) \subseteq ToSet(ts)
  BY <1>1, <1>2 DEF ToSet
<1>4. Distinct(ts) => Distinct(a)
  BY <1>1, <1>2 DEF Distinct
<1> QED BY <1>1, <1>3, <1>4 DEF a

LEMMA EndIsNat == End \in Nat
<1>1. Area # 1
  BY AreaAssumption
<1> QED BY <1>1, AreaAssumption DEF End

LEMMA FitsIs ==
    ASSUME NEW all \in Seq(Tuple), NEW ts \in Seq(Tuple), Bytes(all) <= End
    PROVE  /\ Fits(all, ts) \in Seq(Tuple) /\ Bytes(Fits(all, ts)) <= End
           /\ \E m \in 0 .. Len(ts) : Fits(all, ts) = all \o SubSeq(ts, 1, m)
           /\ Bytes(all \o ts) <= End => Fits(all, ts) = all \o ts
<1> DEFINE first(k) == all \o SubSeq(ts, 1, k)
           K == {k \in 0 .. Len(ts) : Bytes(first(k)) <= End}
<1>1. Len(ts) \in Nat /\ 0 \in 0 .. Len(ts) /\ Len(ts) \in 0 .. Len(ts)
  OBVIOUS
<1>2. SubSeq(ts, 1, 0) = <<>> /\ all \o <<>> = all
  OBVIOUS
<1>3. 0 \in K
  BY <1>1, <1>2
<1>4. Max(K) \in K /\ \A k \in K : k <= Max(K)
  <2>1. K \subseteq 0 .. Len(ts) /\ K # {}
    BY <1>3
  <2> HIDE DEF K
  <2> QED BY <1>1, <2>1, Greatest
<1>5. Fits(all, ts) = first(Max(K))
  BY DEF Fits
<1>6. \A k \in 0 .. Len(ts) : first(k) \in Seq(Tuple)
  <2> SUFFICES ASSUME NEW k \in 0 .. Len(ts) PROVE first(k) \in Seq(Tuple)
    OBVIOUS
  <2>1. SubSeq(ts, 1, k) \in Seq(Tuple)
    BY Prefix
  <2> QED BY <2>1
<1>7. SubSeq(ts, 1, Len(ts)) = ts
  OBVIOUS
<1>8. ASSUME Bytes(all \o ts) <= End PROVE Max(K) = Len(ts)
  <2>1. Len(ts) \in K
    BY <1>1, <1>7, <1>8
  <2>2. Max(K) \in 0 .. Len(ts) /\ Len(ts) <= Max(K)
    BY <1>4, <2>1
  <2> HIDE DEF K
  <2> QED BY <1>1, <2>2
<1> DEFINE m == Max(K)
<1>9. m \in 0 .. Len(ts) /\ Bytes(first(m)) <= End
  <2>1. m \in K
    BY <1>4
  <2> HIDE DEF m
  <2> QED BY <2>1
<1>10. Fits(all, ts) = all \o SubSeq(ts, 1, m)
  BY <1>5
<1> HIDE DEF m
<1> QED BY <1>6, <1>7, <1>8, <1>9, <1>10 DEF m

\* The tuples of the first buckets.
Upto(tb, upto) ==
    /\ upto \in [0 .. Buckets -> {u \in Seq(Tuple) : Bytes(u) <= End}]
    /\ upto[0] = <<>>
    /\ \A b \in 1 .. Buckets : upto[b] = Fits(upto[b - 1], tb[b])

LEMMA FittingUpto ==
    ASSUME NEW tb, Proper(tb)
    PROVE  \E upto : Upto(tb, upto) /\ Fitting(tb) = upto[Buckets]
<1> DEFINE T == {u \in Seq(Tuple) : Bytes(u) <= End}
           P(f) == f = [b \in 0 .. Buckets |-> IF b = 0 THEN <<>> ELSE Fits(f[b - 1], tb[b])]
           G == [b \in 1 .. Buckets |-> [u \in T |-> Fits(u, tb[b])]]
<1>1. Buckets \in Nat /\ \A b \in 1 .. Buckets : tb[b] \in Seq(Tuple)
  BY BucketAssumption DEF Proper
<1>2. <<>> \in T
  BY BytesNone, EndIsNat
<1>3. ASSUME NEW b \in 1 .. Buckets, NEW u \in T PROVE Fits(u, tb[b]) \in T
  <2>1. u \in Seq(Tuple) /\ Bytes(u) <= End
    OBVIOUS
  <2>2. Fits(u, tb[b]) \in Seq(Tuple) /\ Bytes(Fits(u, tb[b])) <= End
    BY <1>1, <2>1, FitsIs
  <2> QED BY <2>2
<1> HIDE DEF T
<1>4. G \in [1 .. Buckets -> [T -> T]]
  BY <1>3
<1>5. PICK f : Iteration(Buckets, T, <<>>, G, f)
  <2> HIDE DEF G
  <2> QED BY <1>1, <1>2, <1>4, Iterates
<1>6. f \in [0 .. Buckets -> T] /\ f[0] = <<>>
  BY <1>5 DEF Iteration
<1>7. ASSUME NEW b \in 1 .. Buckets PROVE f[b] = Fits(f[b - 1], tb[b])
  <2>1. f[b] = G[b][f[b - 1]]
    BY <1>5 DEF Iteration
  <2>2. f[b - 1] \in T
    BY <1>1, <1>6
  <2> QED BY <2>1, <2>2
<1>8. P(f)
  <2> HIDE DEF G
  <2>1. ASSUME NEW b \in 0 .. Buckets
        PROVE  f[b] = IF b = 0 THEN <<>> ELSE Fits(f[b - 1], tb[b])
    <3>1. CASE b = 0
      BY <1>6, <3>1
    <3>2. CASE b # 0
      <4>1. b \in 1 .. Buckets
        BY <1>1, <3>2
      <4> QED BY <1>7, <3>2, <4>1
    <3> QED BY <3>1, <3>2
  <2> QED BY <1>6, <2>1
<1> DEFINE upto == CHOOSE h : P(h)
<1>9. P(upto)
  BY <1>8
<1>10. Fitting(tb) = upto[Buckets]
  BY DEF Fitting
<1> HIDE DEF upto
<1>11. upto[0] = <<>> /\ \A b \in 1 .. Buckets : upto[b] = Fits(upto[b - 1], tb[b])
  BY <1>1, <1>9
<1>12. \A b \in 0 .. Buckets : upto[b] \in T
  <2> DEFINE S == {b \in 0 .. Buckets : upto[b] \in T}
  <2>1. 0 \in S
    BY <1>1, <1>2, <1>11
  <2>2. ASSUME NEW b \in 0 .. Buckets - 1, b \in S PROVE b + 1 \in S
    <3>1. b + 1 \in 1 .. Buckets /\ (b + 1) - 1 = b
      BY <1>1
    <3>2. upto[b + 1] = Fits(upto[b], tb[b + 1])
      BY <1>11, <3>1
    <3>3. upto[b] \in T
      BY <2>2
    <3> QED BY <1>3, <3>1, <3>2, <3>3
  <2>3. \A b \in 0 .. Buckets : b \in S
    <3> HIDE DEF S
    <3> QED BY <1>1, <2>1, <2>2, UpTo
  <2> QED BY <2>3
<1>13. upto \in [0 .. Buckets -> T]
  BY <1>9, <1>12
<1> QED BY <1>10, <1>11, <1>13 DEF Upto, T

(* They are tuples of the table, each one once, and all if there is room.   *)
LEMMA FittingIs ==
    ASSUME NEW tb, Proper(tb)
    PROVE  /\ Fitting(tb) \in Seq(Tuple) /\ Distinct(Fitting(tb))
           /\ ToSet(Fitting(tb)) \subseteq Content(tb)
<1>1. PICK upto : Upto(tb, upto) /\ Fitting(tb) = upto[Buckets]
  BY FittingUpto
<1>2. Buckets \in Nat /\ \A t \in Tuple : Bucket[t.name] \in 1 .. Buckets
  BY BucketAssumption DEF Tuple
<1> DEFINE S == {b \in 0 .. Buckets :
                   /\ Distinct(upto[b])
                   /\ \A t \in ToSet(upto[b]) : t \in Content(tb) /\ Bucket[t.name] <= b}
<1>3. 0 \in S
  <2>1. upto[0] = <<>> /\ Distinct(<<>>) /\ ToSet(<<>>) = {}
    BY <1>1 DEF Upto, Distinct, ToSet
  <2> QED BY <1>2, <2>1
<1>4. ASSUME NEW b \in 0 .. Buckets - 1, b \in S PROVE b + 1 \in S
  <2> DEFINE l == tb[b + 1]
  <2>1. b + 1 \in 1 .. Buckets /\ (b + 1) - 1 = b
    BY <1>2
  <2>2. upto[b] \in Seq(Tuple) /\ Bytes(upto[b]) <= End /\ upto[b + 1] = Fits(upto[b], l)
    <3>1. b \in 0 .. Buckets
      BY <1>2
    <3>2. upto[b] \in {u \in Seq(Tuple) : Bytes(u) <= End}
      BY <1>1, <3>1 DEF Upto
    <3>3. upto[b + 1] = Fits(upto[(b + 1) - 1], tb[b + 1])
      BY <1>1, <2>1 DEF Upto
    <3> QED BY <2>1, <3>2, <3>3
  <2>3. l \in Seq(Tuple) /\ Distinct(l) /\ \A t \in ToSet(l) : Bucket[t.name] = b + 1
    BY <2>1 DEF Proper
  <2>4. ToSet(l) \subseteq Content(tb)
    BY <2>1, ContentIs
  <2> HIDE DEF l
  <2>5. PICK m \in 0 .. Len(l) : upto[b + 1] = upto[b] \o SubSeq(l, 1, m)
    <3>1. PICK u \in Seq(Tuple) : u = upto[b]
      BY <2>2
    <3>2. \E m \in 0 .. Len(l) : Fits(u, l) = u \o SubSeq(l, 1, m)
      BY <2>2, <2>3, <3>1, FitsIs
    <3> QED BY <2>2, <3>1, <3>2
  <2> DEFINE a == SubSeq(l, 1, m)
  <2>6. a \in Seq(Tuple) /\ Distinct(a) /\ ToSet(a) \subseteq ToSet(l)
    BY <2>3, Prefix
  <2>7. Distinct(upto[b]) /\ \A t \in ToSet(upto[b]) : t \in Content(tb) /\ Bucket[t.name] <= b
    BY <1>4
  <2>8. \A t \in Content(tb) : Bucket[t.name] \in Nat
    BY <1>2 DEF Content
  <2>9. \A t \in ToSet(upto[b]), u \in ToSet(a) : t.name # u.name
    BY <2>1, <2>3, <2>6, <2>7
  <2> HIDE DEF a
  <2>10. /\ Distinct(upto[b + 1])
         /\ ToSet(upto[b + 1]) = ToSet(upto[b]) \union ToSet(a)
    BY <2>2, <2>5, <2>6, <2>7, <2>9, Joined DEF a
  <2>11. \A t \in ToSet(upto[b + 1]) : t \in Content(tb) /\ Bucket[t.name] <= b + 1
    BY <2>3, <2>4, <2>6, <2>7, <2>8, <2>10
  <2>12. b + 1 \in 0 .. Buckets
    BY <1>2
  <2> QED BY <2>10, <2>11, <2>12
<1>5. Buckets \in S
  <2> HIDE DEF S
  <2>1. \A b \in 0 .. Buckets : b \in S
    BY <1>2, <1>3, <1>4, UpTo
  <2> QED BY <1>2, <2>1
<1>6. upto[Buckets] \in Seq(Tuple)
  BY <1>1, <1>2 DEF Upto
<1> QED BY <1>1, <1>5, <1>6

LEMMA FittingAll ==
    ASSUME NEW tb, Proper(tb), NEW s \in Seq(Tuple), Distinct(s), ToSet(s) = Content(tb),
           Bytes(s) <= End
    PROVE  ToSet(Fitting(tb)) = Content(tb)
<1>1. PICK upto : Upto(tb, upto) /\ Fitting(tb) = upto[Buckets]
  BY FittingUpto
<1>2. Buckets \in Nat /\ \A t \in Tuple : Bucket[t.name] \in 1 .. Buckets
  BY BucketAssumption DEF Tuple
<1> DEFINE S == {b \in 0 .. Buckets :
                   /\ Distinct(upto[b])
                   /\ \A t : t \in ToSet(upto[b]) <=> t \in Content(tb) /\ Bucket[t.name] <= b}
<1>3. 0 \in S
  <2>1. upto[0] = <<>> /\ Distinct(<<>>) /\ ToSet(<<>>) = {}
    BY <1>1 DEF Upto, Distinct, ToSet
  <2>2. \A t \in Content(tb) : ~(Bucket[t.name] <= 0)
    BY <1>2 DEF Content
  <2> QED BY <1>2, <2>1, <2>2
<1>4. ASSUME NEW b \in 0 .. Buckets - 1, b \in S PROVE b + 1 \in S
  <2> DEFINE l == tb[b + 1]
  <2>1. b + 1 \in 1 .. Buckets /\ (b + 1) - 1 = b
    BY <1>2
  <2>2. upto[b] \in Seq(Tuple) /\ Bytes(upto[b]) <= End /\ upto[b + 1] = Fits(upto[b], l)
    <3>1. b \in 0 .. Buckets
      BY <1>2
    <3>2. upto[b] \in {u \in Seq(Tuple) : Bytes(u) <= End}
      BY <1>1, <3>1 DEF Upto
    <3>3. upto[b + 1] = Fits(upto[(b + 1) - 1], tb[b + 1])
      BY <1>1, <2>1 DEF Upto
    <3> QED BY <2>1, <3>2, <3>3
  <2>3. l \in Seq(Tuple) /\ Distinct(l) /\ \A t \in ToSet(l) : Bucket[t.name] = b + 1
    BY <2>1 DEF Proper
  <2>4. ToSet(l) \subseteq Content(tb)
    BY <2>1, ContentIs
  <2>5. \A t \in Content(tb) : Bucket[t.name] = b + 1 => t \in ToSet(l)
    BY DEF Content
  <2> HIDE DEF l
  <2>6. /\ Distinct(upto[b])
        /\ \A t : t \in ToSet(upto[b]) <=> t \in Content(tb) /\ Bucket[t.name] <= b
    BY <1>4
  <2>7. \A t \in Content(tb) : Bucket[t.name] \in Nat
    BY <1>2 DEF Content
  <2>8. \A t \in ToSet(upto[b]), u \in ToSet(l) : t.name # u.name
    BY <2>1, <2>3, <2>6
  <2> DEFINE a == upto[b] \o l
  <2>9. a \in Seq(Tuple) /\ Distinct(a) /\ ToSet(a) = ToSet(upto[b]) \union ToSet(l)
    BY <2>2, <2>3, <2>6, <2>8, Joined
  <2>10. Bytes(a) <= End
    <3>1. ToSet(a) \subseteq ToSet(s)
      BY <2>4, <2>6, <2>9
    <3> HIDE DEF a
    <3>2. Bytes(a) <= Bytes(s) /\ Bytes(a) \in Nat /\ Bytes(s) \in Nat
      BY <2>9, <3>1, FewerBytes, BytesIsNat
    <3> QED BY <3>2, EndIsNat
  <2>11. upto[b + 1] = a
    BY <2>2, <2>3, <2>10, FitsIs
  <2> HIDE DEF a
  <2>12. \A t : t \in ToSet(a) <=> t \in Content(tb) /\ Bucket[t.name] <= b + 1
    BY <2>3, <2>4, <2>5, <2>6, <2>7, <2>9
  <2>13. b + 1 \in 0 .. Buckets
    BY <1>2
  <2> QED BY <2>9, <2>11, <2>12, <2>13
<1>5. Buckets \in S
  <2> HIDE DEF S
  <2>1. \A b \in 0 .. Buckets : b \in S
    BY <1>2, <1>3, <1>4, UpTo
  <2> QED BY <1>2, <2>1
<1>6. \A t \in Content(tb) : Bucket[t.name] <= Buckets
  BY <1>2 DEF Content
<1> QED BY <1>1, <1>5, <1>6

LEMMA LengthIsNat == ASSUME NEW ts \in Seq(Tuple) PROVE Length(ts) \in Nat
<1>1. PICK n \in Nat : n = Bytes(ts)
  BY BytesIsNat
<1>2. ((n + 2 + 3) \div 4) * 4 \in Nat
  OBVIOUS
<1> QED BY <1>1, <1>2 DEF Length

----------------------------------------------------------------------------
(* Tables and the maps of images                                            *)

\* A table that the first m tuples have been put into.
Read(tb, ts, m) ==
    \A t : t \in Content(tb) <=>
             \E k \in 1 .. m : ts[k] = t /\ \A j \in k + 1 .. m : ts[j].name # t.name

LEMMA ReadNone == ASSUME NEW ts PROVE Read(EmptyTable, ts, 0)
<1>1. 1 .. 0 = {}
  OBVIOUS
<1> QED BY <1>1, EmptyIsProper DEF Read

LEMMA ReadNext ==
    ASSUME NEW tb, Proper(tb), NEW ts \in Seq(Tuple), NEW m \in 1 .. Len(ts),
           Read(tb, ts, m - 1)
    PROVE  /\ Proper(Set(tb, ts[m].name, ts[m].value))
           /\ Read(Set(tb, ts[m].name, ts[m].value), ts, m)
<1> DEFINE u == ts[m]
           new == Set(tb, u.name, u.value)
<1>1. u \in Tuple
  OBVIOUS
<1>2. u.name \in Name /\ u.value \in Value /\ u = [name |-> u.name, value |-> u.value]
  <2> HIDE DEF u
  <2> QED BY <1>1 DEF Tuple
<1>3. /\ Proper(new)
      /\ \A t : t \in Content(new) <=> (t \in Content(tb) /\ t.name # u.name) \/ t = u
  <2> HIDE DEF u
  <2> QED BY <1>2, SetIs
<1> HIDE DEF new
<1>4. ASSUME NEW t PROVE t \in Content(new) <=>
        \E k \in 1 .. m : ts[k] = t /\ \A j \in k + 1 .. m : ts[j].name # t.name
  <2>1. 1 .. m = (1 .. m - 1) \union {m} /\ m + 1 .. m = {}
    OBVIOUS
  <2>2. \A k \in 1 .. m - 1 : k + 1 .. m = (k + 1 .. m - 1) \union {m}
    OBVIOUS
  <2>3. t \in Content(tb) <=>
          \E k \in 1 .. m - 1 : ts[k] = t /\ \A j \in k + 1 .. m - 1 : ts[j].name # t.name
    BY DEF Read
  <2> QED BY <1>3, <2>1, <2>2, <2>3
<1> QED BY <1>3, <1>4 DEF Read, new

LEMMA LastIs ==
    ASSUME NEW ts \in Seq(Tuple), NEW n \in Names(ts)
    PROVE  /\ LastNamed(ts, n) \in 1 .. Len(ts) /\ ts[LastNamed(ts, n)].name = n
           /\ ts[LastNamed(ts, n)] \in ToSet(ts) /\ ts[LastNamed(ts, n)] \in Tuple
           /\ \A k \in 1 .. Len(ts) : ts[k].name = n => k <= LastNamed(ts, n)
<1> DEFINE K == {k \in DOMAIN ts : ts[k].name = n}
<1>1. DOMAIN ts = 1 .. Len(ts) /\ Len(ts) \in Nat
  OBVIOUS
<1>2. PICK t \in ToSet(ts) : t.name = n
  BY DEF Names
<1>3. PICK k \in 1 .. Len(ts) : ts[k] = t
  BY <1>1, <1>2 DEF ToSet
<1>4. Max(K) \in K /\ \A j \in K : j <= Max(K)
  <2>1. K \subseteq 0 .. Len(ts) /\ K # {}
    BY <1>1, <1>2, <1>3
  <2> HIDE DEF K
  <2> QED BY <1>1, <2>1, Greatest
<1> DEFINE m == Max(K)
<1>5. LastNamed(ts, n) = m
  BY DEF LastNamed
<1>6. m \in 1 .. Len(ts) /\ ts[m].name = n /\ \A j \in 1 .. Len(ts) : ts[j].name = n => j <= m
  <2> HIDE DEF m
  <2>1. m \in K /\ \A j \in K : j <= m
    BY <1>4 DEF m
  <2> QED BY <1>1, <2>1
<1> HIDE DEF m
<1>7. ts[m] \in ToSet(ts) /\ ts[m] \in Tuple
  BY <1>1, <1>6 DEF ToSet
<1> QED BY <1>5, <1>6, <1>7

LEMMA LastOfDistinct ==
    ASSUME NEW ts \in Seq(Tuple), Distinct(ts), NEW t \in ToSet(ts)
    PROVE  t.name \in Names(ts) /\ ts[LastNamed(ts, t.name)] = t
<1>1. t.name \in Names(ts)
  BY DEF Names
<1> QED BY <1>1, LastIs, OnePlace

LEMMA NamesAreFinite ==
    ASSUME NEW ts \in Seq(Tuple)
    PROVE  IsFiniteSet(Names(ts)) /\ Names(ts) \subseteq Name
<1> DEFINE f == [k \in 1 .. Len(ts) |-> ts[k].name]
<1>1. Len(ts) \in Nat /\ DOMAIN ts = 1 .. Len(ts) /\ \A k \in 1 .. Len(ts) : ts[k] \in Tuple
  OBVIOUS
<1>2. Names(ts) = {ts[k].name : k \in 1 .. Len(ts)}
  BY <1>1 DEF Names, ToSet
<1>3. f \in Surjection(1 .. Len(ts), Names(ts))
  BY <1>2 DEF Surjection
<1>4. IsFiniteSet(1 .. Len(ts))
  BY <1>1, FS_Interval
<1>5. IsFiniteSet(Names(ts))
  <2> HIDE DEF f
  <2> QED BY <1>3, <1>4, FS_Surjection
<1>6. Names(ts) \subseteq Name
  BY <1>1, <1>2 DEF Tuple
<1> QED BY <1>5, <1>6

\* A table that holds a map.
IsMap(tb, f) ==
    \A t : t \in Content(tb) <=> \E n \in DOMAIN f : t = [name |-> n, value |-> f[n]]

LEMMA MapGives ==
    ASSUME NEW tb, Proper(tb), NEW f, IsMap(tb, f)
    PROVE  /\ DOMAIN f \subseteq Name /\ \A n \in DOMAIN f : f[n] \in Value
           /\ \A n \in Name : Has(tb, n) <=> n \in DOMAIN f
           /\ \A n \in DOMAIN f : Get(tb, n) = f[n]
<1>1. ASSUME NEW n \in DOMAIN f PROVE [name |-> n, value |-> f[n]] \in Content(tb)
  BY DEF IsMap
<1>2. \A n \in DOMAIN f : n \in Name /\ f[n] \in Value
  BY <1>1 DEF Content, Tuple
<1>3. ASSUME NEW n \in Name PROVE Has(tb, n) <=> n \in DOMAIN f
  <2>1. ASSUME NEW t \in Content(tb), t.name = n PROVE n \in DOMAIN f
    BY <2>1 DEF IsMap
  <2>2. ASSUME n \in DOMAIN f PROVE \E t \in Content(tb) : t.name = n
    BY <1>1, <2>2
  <2> QED BY <2>1, <2>2, NamedIs
<1>4. ASSUME NEW n \in DOMAIN f PROVE Get(tb, n) = f[n]
  <2> DEFINE t == [name |-> n, value |-> f[n]]
  <2>1. t \in Content(tb) /\ t.name = n /\ t.value = f[n]
    BY <1>1
  <2> HIDE DEF t
  <2> QED BY <2>1, ContentIs
<1> QED BY <1>2, <1>3, <1>4

\* The parts of an image that a map is made of.
IsLegible(img) == img.magic /\ img.hdr \in [Sdram -> Value] /\ img.data \in Seq(Tuple)

LEMMA MapDomain ==
    ASSUME NEW img, img.magic
    PROVE  /\ MapOf(img) = [n \in Sdram \union Names(img.data) |->
                              IF n \in Names(img.data)
                                THEN img.data[LastNamed(img.data, n)].value
                                ELSE img.hdr[n]]
           /\ DOMAIN MapOf(img) = Sdram \union Names(img.data)
BY DEF MapOf

(* The table of a command that has parsed an image.                         *)
LEMMA ReadAll ==
    ASSUME NEW tb, Proper(tb), NEW img, IsLegible(img), Read(tb, img.data, Len(img.data))
    PROVE  Proper(FromHeader(tb, img.hdr)) /\ IsMap(FromHeader(tb, img.hdr), MapOf(img))
<1> DEFINE ts == img.data
           f == MapOf(img)
           new == FromHeader(tb, img.hdr)
<1>1. ts \in Seq(Tuple) /\ Len(ts) \in Nat /\ DOMAIN ts = 1 .. Len(ts) /\ img.hdr \in [Sdram -> Value]
  BY DEF IsLegible
<1>2. /\ Proper(new)
      /\ \A t : t \in Content(new) <=>
           \/ t \in Content(tb)
           \/ \E n \in Sdram : ~Has(tb, n) /\ t = [name |-> n, value |-> img.hdr[n]]
  BY <1>1, FromHeaderIs
<1>3. /\ DOMAIN f = Sdram \union Names(ts)
      /\ \A n \in Names(ts) : f[n] = ts[LastNamed(ts, n)].value
      /\ \A n \in Sdram \ Names(ts) : f[n] = img.hdr[n]
  BY MapDomain DEF IsLegible
<1>4. \A t : t \in Content(tb) <=>
        \E k \in 1 .. Len(ts) : ts[k] = t /\ \A j \in k + 1 .. Len(ts) : ts[j].name # t.name
  BY DEF Read
<1> HIDE DEF ts, f, new
<1>5. ASSUME NEW n \in Names(ts)
      PROVE  /\ [name |-> n, value |-> f[n]] = ts[LastNamed(ts, n)]
             /\ ts[LastNamed(ts, n)] \in Content(tb)
  <2> DEFINE k == LastNamed(ts, n)
  <2>1. /\ k \in 1 .. Len(ts) /\ ts[k].name = n /\ ts[k] \in Tuple
        /\ \A j \in 1 .. Len(ts) : ts[j].name = n => j <= k
    BY <1>1, LastIs
  <2> HIDE DEF k
  <2>2. \A j \in k + 1 .. Len(ts) : ts[j].name # n
    BY <1>1, <2>1
  <2>3. ts[k] \in Content(tb)
    BY <1>4, <2>1, <2>2
  <2>4. [name |-> n, value |-> ts[k].value] = ts[k]
    BY <2>1 DEF Tuple
  <2> QED BY <1>3, <2>3, <2>4 DEF k
<1>6. ASSUME NEW t \in Content(tb) PROVE t.name \in Names(ts) /\ t = ts[LastNamed(ts, t.name)]
  <2>1. PICK k \in 1 .. Len(ts) : ts[k] = t
    BY <1>4
  <2>2. t.name \in Names(ts)
    BY <1>1, <2>1 DEF Names, ToSet
  <2>3. ts[LastNamed(ts, t.name)] \in Content(tb) /\ ts[LastNamed(ts, t.name)].name = t.name
    BY <1>1, <1>5, <2>2, LastIs
  <2> QED BY <2>2, <2>3, ContentIs
<1>7. \A n \in Sdram : Has(tb, n) <=> n \in Names(ts)
  <2> SUFFICES ASSUME NEW n \in Sdram PROVE Has(tb, n) <=> n \in Names(ts)
    OBVIOUS
  <2>1. n \in Name
    BY SdramAssumption
  <2>2. n \in Names(ts) => ts[LastNamed(ts, n)].name = n
    BY <1>1, LastIs
  <2>3. Has(tb, n) <=> \E t \in Content(tb) : t.name = n
    BY <2>1, NamedIs
  <2>4. ASSUME n \in Names(ts) PROVE ts[LastNamed(ts, n)] \in Content(tb)
    BY <1>5, <2>4
  <2>5. ASSUME NEW t \in Content(tb), t.name = n PROVE n \in Names(ts)
    BY <1>6, <2>5
  <2> QED BY <2>2, <2>3, <2>4, <2>5, Zenon
<1>8. ASSUME NEW t \in Content(new)
      PROVE  \E n \in DOMAIN f : t = [name |-> n, value |-> f[n]]
  <2>1. CASE t \in Content(tb)
    <3>1. t.name \in Names(ts) /\ t = [name |-> t.name, value |-> f[t.name]]
      BY <1>5, <1>6, <2>1
    <3> QED BY <1>3, <3>1
  <2>2. ASSUME NEW n \in Sdram, ~Has(tb, n), t = [name |-> n, value |-> img.hdr[n]]
        PROVE  n \in DOMAIN f /\ t = [name |-> n, value |-> f[n]]
    BY <1>3, <1>7, <2>2
  <2> QED BY <1>2, <2>1, <2>2
<1>9. ASSUME NEW n \in DOMAIN f PROVE [name |-> n, value |-> f[n]] \in Content(new)
  <2>1. CASE n \in Names(ts)
    BY <1>2, <1>5, <2>1
  <2>2. CASE n \in Sdram \ Names(ts)
    BY <1>2, <1>3, <1>7, <2>2
  <2> QED BY <1>3, <2>1, <2>2
<1>10. IsMap(new, f)
  BY <1>8, <1>9 DEF IsMap
<1> QED BY <1>2, <1>10 DEF new, f

(* The arguments of a command do to the map what Effect says.               *)
LEMMA LastOpIs ==
    ASSUME NEW c \in Command, NEW n, Changes(c, n) # {}
    PROVE  /\ LastChange(c.ops, Len(c.ops), Max(Changes(c, n)), n)
           /\ \A k : LastChange(c.ops, Len(c.ops), k, n) => k = Max(Changes(c, n))
<1> DEFINE m == Len(c.ops)
           K == Changes(c, n)
<1>1. c.ops \in Seq(Op)
  BY CommandAssumption
<1>2. m \in Nat /\ DOMAIN c.ops = 1 .. m
  BY <1>1
<1>3. \A k : k \in K <=> k \in 1 .. m /\ ChangesName(c.ops, k, n)
  BY <1>2 DEF Changes, ChangesName
<1> HIDE DEF K
<1>4. Max(K) \in K /\ \A j \in K : j <= Max(K)
  <2>1. K \subseteq 0 .. m /\ K # {}
    BY <1>2, <1>3 DEF K
  <2> QED BY <1>2, <2>1, Greatest
<1> DEFINE l == Max(K)
<1>5. l \in 1 .. m /\ ChangesName(c.ops, l, n) /\ \A j \in K : j <= l
  BY <1>3, <1>4
<1> HIDE DEF l, m
<1>6. LastChange(c.ops, m, l, n)
  BY <1>2, <1>3, <1>5 DEF LastChange
<1>7. ASSUME NEW k, LastChange(c.ops, m, k, n) PROVE k = l
  <2>1. k \in K /\ \A j \in k + 1 .. m : j \notin K
    BY <1>3, <1>7 DEF LastChange
  <2>2. k <= l /\ ~(l \in k + 1 .. m)
    BY <1>3, <1>5, <2>1
  <2>3. k \in 1 .. m
    BY <1>3, <2>1
  <2> QED BY <1>2, <1>5, <2>2, <2>3
<1> QED BY <1>6, <1>7 DEF l, m, K

LEMMA EffectIs ==
    ASSUME NEW c \in Command, NEW tb, NEW t \in Tuple
    PROVE  After(tb, c.ops, Len(c.ops), t) <=>
             \/ t.name \in DOMAIN Effect(c).set /\ t.value = Effect(c).set[t.name]
             \/ /\ t.name \notin DOMAIN Effect(c).set /\ t.name \notin Effect(c).unset
                /\ t \in Content(tb)
<1> DEFINE n == t.name
           m == Len(c.ops)
           l == Max(Changes(c, n))
<1>1. c.ops \in Seq(Op) /\ n \in Name
  BY CommandAssumption DEF Tuple
<1>2. m \in Nat /\ DOMAIN c.ops = 1 .. m /\ \A k \in 1 .. m : c.ops[k].op \in {"set", "unset", "get"}
  <2>1. \A o \in Op : o.op \in {"set", "unset", "get"}
    BY DEF Op
  <2> QED BY <1>1, <2>1
<1>3. Effect(c) = [set |-> [x \in ChangedBy(c, "set") |-> LastOp(c, x).value],
                   unset |-> ChangedBy(c, "unset")]
  BY DEF Effect
<1>4. /\ DOMAIN Effect(c).set = ChangedBy(c, "set") /\ Effect(c).unset = ChangedBy(c, "unset")
      /\ \A x \in ChangedBy(c, "set") : Effect(c).set[x] = LastOp(c, x).value
  BY <1>3
<1>5. \A op : n \in ChangedBy(c, op) <=> Changes(c, n) # {} /\ c.ops[l].op = op
  BY <1>1 DEF ChangedBy, LastOp
<1>6. LastOp(c, n) = c.ops[l]
  BY DEF LastOp
<1>7. CASE Changes(c, n) = {}
  <2>1. NoChange(c.ops, m, n)
    BY <1>2, <1>7 DEF NoChange, Changes, ChangesName
  <2>2. \A k \in 1 .. m : ~LastChange(c.ops, m, k, n)
    BY <2>1 DEF NoChange, LastChange
  <2> QED BY <1>4, <1>5, <1>7, <2>1, <2>2, Zenon DEF After
<1>8. CASE Changes(c, n) # {}
  <2>1. LastChange(c.ops, m, l, n) /\ \A k : LastChange(c.ops, m, k, n) => k = l
    BY <1>8, LastOpIs
  <2> HIDE DEF l, m
  <2>2. l \in 1 .. m /\ ChangesName(c.ops, l, n)
    BY <2>1 DEF LastChange
  <2>3. ~NoChange(c.ops, m, n)
    BY <2>2 DEF NoChange
  <2>4. After(tb, c.ops, m, t) <=> c.ops[l].op = "set" /\ c.ops[l].value = t.value
    BY <2>1, <2>2, <2>3, Zenon DEF After
  <2>5. c.ops[l].op = "set" \/ c.ops[l].op = "unset"
    BY <1>2, <2>2 DEF ChangesName
  <2>6. CASE c.ops[l].op = "set"
    <3>1. n \in ChangedBy(c, "set")
      BY <1>5, <1>8, <2>6
    <3>2. Effect(c).set[n] = c.ops[l].value /\ n \in DOMAIN Effect(c).set
      BY <1>4, <1>6, <3>1
    <3> QED BY <2>4, <2>6, <3>2 DEF m
  <2>7. CASE c.ops[l].op = "unset"
    <3>1. n \in ChangedBy(c, "unset") /\ n \notin ChangedBy(c, "set")
      BY <1>5, <1>8, <2>7
    <3> QED BY <1>4, <2>4, <2>7, <3>1 DEF m
  <2> QED BY <2>5, <2>6, <2>7
<1> QED BY <1>7, <1>8

LEMMA EditedIs ==
    ASSUME NEW c \in Command, NEW tb, Proper(tb), NEW f, IsMap(tb, f)
    PROVE  /\ Proper(Edit(tb, c.ops))
           /\ IsMap(Edit(tb, c.ops), Map!Edited(f, Effect(c)))
<1> DEFINE new == Edit(tb, c.ops)
           g == Map!Edited(f, Effect(c))
           s == Effect(c).set
           u == Effect(c).unset
<1>1. c.ops \in Seq(Op)
  BY CommandAssumption
<1>2. Proper(new) /\ \A t : t \in Content(new) <=> After(tb, c.ops, Len(c.ops), t)
  BY <1>1, EditIs
<1>3. g = [n \in (DOMAIN f \union DOMAIN s) \ u |-> IF n \in DOMAIN s THEN s[n] ELSE f[n]]
  BY DEF Map!Edited
<1>4. \A n \in DOMAIN s : n \in Name /\ n \notin u /\ s[n] \in Value
  <2> SUFFICES ASSUME NEW n \in DOMAIN s PROVE n \in Name /\ n \notin u /\ s[n] \in Value
    OBVIOUS
  <2>1. Effect(c) = [set |-> [x \in ChangedBy(c, "set") |-> LastOp(c, x).value],
                     unset |-> ChangedBy(c, "unset")]
    BY DEF Effect
  <2>2. n \in ChangedBy(c, "set") /\ u = ChangedBy(c, "unset") /\ s[n] = LastOp(c, n).value
    BY <2>1
  <2>3. n \in Name /\ Changes(c, n) # {} /\ LastOp(c, n).op = "set" /\ n \notin u
    BY <2>2 DEF ChangedBy
  <2>4. Max(Changes(c, n)) \in 1 .. Len(c.ops)
    BY <2>3, LastOpIs DEF LastChange
  <2>5. LastOp(c, n) \in Op
    BY <1>1, <2>4 DEF LastOp
  <2> QED BY <2>2, <2>3, <2>5 DEF Op
<1>5. ASSUME NEW t \in Tuple
      PROVE  After(tb, c.ops, Len(c.ops), t) <=>
               \/ t.name \in DOMAIN s /\ t.value = s[t.name]
               \/ t.name \notin DOMAIN s /\ t.name \notin u /\ t \in Content(tb)
  BY EffectIs
<1> HIDE DEF new, g, s, u
<1>6. \A t \in Content(tb) : t \in Tuple
  BY DEF Content
<1>7. ASSUME NEW t \in Content(new) PROVE \E n \in DOMAIN g : t = [name |-> n, value |-> g[n]]
  <2>1. t \in Tuple /\ t = [name |-> t.name, value |-> t.value]
    BY DEF Content, Tuple
  <2>2. CASE t.name \in DOMAIN s /\ t.value = s[t.name]
    <3>1. t.name \in DOMAIN g /\ g[t.name] = t.value
      BY <1>3, <1>4, <2>2
    <3> QED BY <2>1, <3>1
  <2>3. CASE t.name \notin DOMAIN s /\ t.name \notin u /\ t \in Content(tb)
    <3>1. t.name \in DOMAIN f /\ f[t.name] = t.value
      BY <2>3 DEF IsMap
    <3>2. t.name \in DOMAIN g /\ g[t.name] = t.value
      BY <1>3, <2>3, <3>1
    <3> QED BY <2>1, <3>2
  <2> QED BY <1>2, <1>5, <2>1, <2>2, <2>3
<1>8. ASSUME NEW n \in DOMAIN g PROVE [name |-> n, value |-> g[n]] \in Content(new)
  <2> DEFINE t == [name |-> n, value |-> g[n]]
  <2>1. t.name = n /\ t.value = g[n]
    OBVIOUS
  <2>2. CASE n \in DOMAIN s
    <3>1. g[n] = s[n] /\ t \in Tuple
      BY <1>3, <1>4, <2>2 DEF Tuple
    <3> HIDE DEF t
    <3> QED BY <1>2, <1>5, <2>1, <2>2, <3>1 DEF t
  <2>3. CASE n \notin DOMAIN s
    <3>1. n \in DOMAIN f /\ n \notin u /\ g[n] = f[n]
      BY <1>3, <2>3
    <3>2. t \in Content(tb)
      BY <3>1 DEF IsMap
    <3> HIDE DEF t
    <3> QED BY <1>2, <1>5, <1>6, <2>1, <2>3, <3>1, <3>2 DEF t
  <2> QED BY <2>2, <2>3
<1> QED BY <1>2, <1>7, <1>8 DEF IsMap, new, g

(* A map weighs what the tuples of its table take.                          *)
LEMMA WeightIs ==
    ASSUME NEW tb, Proper(tb), NEW f, IsMap(tb, f), IsFiniteSet(DOMAIN f), MapWeight(f) <= End
    PROVE  ToSet(Fitting(tb)) = Content(tb)
<1> DEFINE ns == SetToSeq(DOMAIN f)
           ts == [k \in DOMAIN ns |-> [name |-> ns[k], value |-> f[ns[k]]]]
<1>1. DOMAIN f \subseteq Name /\ \A n \in DOMAIN f : f[n] \in Value
  BY MapGives
<1>2. MapWeight(f) = Bytes(ts)
  BY DEF MapWeight
<1>3. /\ ts \in Seq(Tuple) /\ Distinct(ts)
      /\ \A t : t \in ToSet(ts) <=> \E n \in DOMAIN f : t = [name |-> n, value |-> f[n]]
  BY <1>1, TupleEach
<1> HIDE DEF ts
<1>4. ToSet(ts) = Content(tb)
  BY <1>3 DEF IsMap
<1> QED BY <1>2, <1>3, <1>4, FittingAll

(* The image that nvram_commit makes of a table.                            *)
LEMMA RewrittenIs ==
    ASSUME NEW tb, Proper(tb), NEW f, IsMap(tb, f),
           NEW img, img.magic, img.hdr = Header(tb), img.data = Fitting(tb)
    PROVE  /\ IsLegible(img) /\ Distinct(img.data) /\ Agrees(img)
           /\ Names(img.data) \subseteq DOMAIN f
           /\ MapOf(img) = Map!ReadBack(f, Names(img.data))
           /\ IsFiniteSet(DOMAIN f) /\ MapWeight(f) <= End => Names(img.data) = DOMAIN f
<1> DEFINE ts == img.data
           g == MapOf(img)
<1>1. ts \in Seq(Tuple) /\ Distinct(ts) /\ ToSet(ts) \subseteq Content(tb)
  BY FittingIs
<1>2. /\ \A n \in Name : Has(tb, n) <=> n \in DOMAIN f
      /\ \A n \in DOMAIN f : Get(tb, n) = f[n]
  BY MapGives
<1>3. Sdram \subseteq Name
  BY SdramAssumption
<1>4. img.hdr \in [Sdram -> Value]
  BY HeaderIs
<1>5. ASSUME NEW n \in Sdram PROVE img.hdr[n] = IF Sdram \subseteq DOMAIN f THEN f[n] ELSE Default
  <2>1. (\A m \in Sdram : Has(tb, m)) <=> Sdram \subseteq DOMAIN f
    BY <1>2, <1>3
  <2>2. CASE Sdram \subseteq DOMAIN f
    <3>1. Header(tb)[n] = Get(tb, n) /\ n \in DOMAIN f
      BY <2>1, <2>2, HeaderIs
    <3> QED BY <1>2, <2>2, <3>1
  <2>3. CASE ~(Sdram \subseteq DOMAIN f)
    BY <2>1, <2>3, HeaderIs
  <2> QED BY <2>2, <2>3
<1>6. /\ g = [n \in Sdram \union Names(ts) |->
                IF n \in Names(ts) THEN ts[LastNamed(ts, n)].value ELSE img.hdr[n]]
      /\ IsLegible(img)
  BY <1>1, <1>4, MapDomain DEF IsLegible
<1>7. ASSUME NEW t \in ToSet(ts)
      PROVE  t.name \in DOMAIN f /\ t.value = f[t.name] /\ t.name \in Name
  <2>1. t \in Content(tb)
    BY <1>1
  <2>2. PICK n \in DOMAIN f : t = [name |-> n, value |-> f[n]]
    BY <2>1 DEF IsMap
  <2>3. t \in Tuple
    BY <2>1 DEF Content
  <2> QED BY <2>2, <2>3 DEF Tuple
<1>8. ASSUME NEW n \in Names(ts) PROVE n \in DOMAIN f /\ ts[LastNamed(ts, n)].value = f[n]
  <2>1. ts[LastNamed(ts, n)] \in ToSet(ts) /\ ts[LastNamed(ts, n)].name = n
    BY <1>1, LastIs
  <2> QED BY <1>7, <2>1
<1>9. Agrees(img)
  <2> SUFFICES ASSUME Sdram \subseteq Names(ts), NEW t \in ToSet(ts), t.name \in Sdram
               PROVE  img.hdr[t.name] = t.value
    BY DEF Agrees
  <2>1. Sdram \subseteq DOMAIN f
    BY <1>8
  <2> QED BY <1>5, <1>7, <2>1
<1>10. g = Map!ReadBack(f, Names(ts))
  <2> DEFINE h == [n \in Sdram \union Names(ts) |->
                     IF n \in Names(ts) \/ Sdram \subseteq DOMAIN f THEN f[n] ELSE Default]
  <2>1. Map!ReadBack(f, Names(ts)) = [n \in Names(ts) \union Sdram |->
          IF n \in Names(ts) \/ Sdram \subseteq DOMAIN f THEN f[n] ELSE Default]
    BY DEF Map!ReadBack
  <2>2. Names(ts) \union Sdram = Sdram \union Names(ts)
    OBVIOUS
  <2>3. ASSUME NEW n \in Sdram \union Names(ts)
        PROVE  (IF n \in Names(ts) THEN ts[LastNamed(ts, n)].value ELSE img.hdr[n]) = h[n]
    <3>1. CASE n \in Names(ts)
      BY <1>8, <3>1
    <3>2. CASE n \notin Names(ts)
      BY <1>5, <3>2
    <3> QED BY <3>1, <3>2
  <2> HIDE DEF ts, g
  <2>4. g = h
    BY <1>6, <2>3
  <2> QED BY <2>1, <2>2, <2>4
<1>11. ASSUME IsFiniteSet(DOMAIN f), MapWeight(f) <= End PROVE Names(ts) = DOMAIN f
  <2>1. ToSet(ts) = Content(tb)
    BY <1>11, WeightIs
  <2>2. ASSUME NEW n \in DOMAIN f PROVE n \in Names(ts)
    <3>1. [name |-> n, value |-> f[n]] \in Content(tb)
      BY DEF IsMap
    <3>2. [name |-> n, value |-> f[n]].name = n
      OBVIOUS
    <3> QED BY <2>1, <3>1, <3>2 DEF Names
  <2> QED BY <1>8, <2>2
<1> QED BY <1>1, <1>6, <1>8, <1>9, <1>10, <1>11

(* An image of which only the first tuples are left.                        *)
LEMMA CutIs ==
    ASSUME NEW img, IsLegible(img), Distinct(img.data), Agrees(img),
           NEW cut, cut.magic, cut.hdr = img.hdr,
           NEW k \in 0 .. Len(img.data), cut.data = SubSeq(img.data, 1, k)
    PROVE  /\ IsLegible(cut) /\ Distinct(cut.data) /\ Agrees(cut)
           /\ Sdram \subseteq DOMAIN MapOf(cut)
           /\ \A n \in DOMAIN MapOf(cut) \ Sdram :
                n \in DOMAIN MapOf(img) /\ MapOf(cut)[n] = MapOf(img)[n]
<1> DEFINE ts == img.data
           us == cut.data
<1>1. ts \in Seq(Tuple) /\ img.magic /\ img.hdr \in [Sdram -> Value]
  BY DEF IsLegible
<1>2. us \in Seq(Tuple) /\ ToSet(us) \subseteq ToSet(ts) /\ Distinct(us)
  BY <1>1, Prefix
<1>3. Names(us) \subseteq Names(ts)
  BY <1>2 DEF Names
<1>4. IsLegible(cut)
  BY <1>1, <1>2 DEF IsLegible
<1>5. Agrees(cut)
  BY <1>2, <1>3 DEF Agrees
<1>6. /\ DOMAIN MapOf(cut) = Sdram \union Names(us)
      /\ \A n \in Names(us) : MapOf(cut)[n] = us[LastNamed(us, n)].value
  BY MapDomain
<1>7. /\ DOMAIN MapOf(img) = Sdram \union Names(ts)
      /\ \A n \in Names(ts) : MapOf(img)[n] = ts[LastNamed(ts, n)].value
  BY <1>1, MapDomain
<1>8. ASSUME NEW n \in Names(us) PROVE us[LastNamed(us, n)] = ts[LastNamed(ts, n)]
  <2> DEFINE t == us[LastNamed(us, n)]
  <2>1. t \in ToSet(us) /\ t.name = n
    BY <1>2, LastIs
  <2>2. t \in ToSet(ts)
    BY <1>2, <2>1
  <2> HIDE DEF t
  <2>3. ts[LastNamed(ts, t.name)] = t
    BY <1>1, <2>2, LastOfDistinct
  <2> QED BY <2>1, <2>3 DEF t
<1> QED BY <1>2, <1>3, <1>4, <1>5, <1>6, <1>7, <1>8

LEMMA MapIsFinite ==
    ASSUME NEW img, IsLegible(img)
    PROVE  IsFiniteSet(DOMAIN MapOf(img)) /\ DOMAIN MapOf(img) # {}
<1>1. DOMAIN MapOf(img) = Sdram \union Names(img.data)
  BY MapDomain DEF IsLegible
<1>2. IsFiniteSet(Names(img.data)) /\ IsFiniteSet(Sdram) /\ Sdram # {}
  BY NamesAreFinite, SdramAssumption DEF IsLegible
<1> QED BY <1>1, <1>2, FS_Union

LEMMA EditedIsFinite ==
    ASSUME NEW c \in Command, NEW f, IsFiniteSet(DOMAIN f)
    PROVE  IsFiniteSet(DOMAIN Map!Edited(f, Effect(c)))
<1> DEFINE N == ChangedBy(c, "set")
           g == [k \in 1 .. Len(c.ops) |-> c.ops[k].name]
           R == {c.ops[k].name : k \in 1 .. Len(c.ops)}
<1>1. c.ops \in Seq(Op)
  BY CommandAssumption
<1>2. Len(c.ops) \in Nat
  BY <1>1
<1>3. g \in Surjection(1 .. Len(c.ops), R)
  BY DEF Surjection
<1>4. IsFiniteSet(R)
  <2>1. IsFiniteSet(1 .. Len(c.ops))
    BY <1>2, FS_Interval
  <2> HIDE DEF g, R
  <2> QED BY <1>3, <2>1, FS_Surjection
<1>5. N \subseteq R
  <2> SUFFICES ASSUME NEW n \in N PROVE n \in R
    OBVIOUS
  <2>1. Changes(c, n) # {}
    BY DEF ChangedBy
  <2>2. PICK k \in DOMAIN c.ops : c.ops[k].name = n
    BY <2>1 DEF Changes
  <2> QED BY <1>1, <2>2
<1>6. IsFiniteSet(N)
  <2> HIDE DEF N, R
  <2> QED BY <1>4, <1>5, FS_Subset
<1>7. DOMAIN Effect(c).set = N
  BY DEF Effect
<1>8. DOMAIN Map!Edited(f, Effect(c)) \subseteq DOMAIN f \union N
  BY <1>7 DEF Map!Edited
<1>9. IsFiniteSet(DOMAIN f \union N)
  <2> HIDE DEF N
  <2> QED BY <1>6, FS_Union
<1> QED BY <1>8, <1>9, FS_Subset
=============================================================================
