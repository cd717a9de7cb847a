---------------------------- MODULE InOrderProofs ----------------------------
(***************************************************************************)
(* What the sequences built by InOrder hold, for any sets and queues.      *)
(***************************************************************************)
EXTENDS InOrder, SequencesExt, FiniteSetTheorems, FunctionTheorems, SequenceTheorems,
        WellFoundedInduction, TLAPS

Before(S, key, x) == {y \in S : key[y] < key[x]}

LEMMA BeforeGrows ==
  ASSUME NEW S, IsFiniteSet(S), NEW key, \A x \in S : key[x] \in Nat,
         NEW x \in S, NEW y \in S, key[x] < key[y]
  PROVE  Cardinality(Before(S, key, x)) < Cardinality(Before(S, key, y))
<1>1. Before(S, key, x) \subseteq Before(S, key, y)
  BY DEF Before
<1>2. x \in Before(S, key, y) /\ x \notin Before(S, key, x)
  BY DEF Before
<1>3. IsFiniteSet(Before(S, key, y)) /\ IsFiniteSet(Before(S, key, x))
  BY FS_Subset DEF Before
<1>4. Before(S, key, x) # Before(S, key, y)
  BY <1>2
<1>5. QED
  BY <1>1, <1>3, <1>4, FS_Subset, FS_CardinalityType

(* The places are filled: as many have fewer before them as there are.      *)
LEMMA PlacesFilled ==
  ASSUME NEW S, IsFiniteSet(S), NEW key, \A x \in S : key[x] \in Nat,
         \A x, y \in S : key[x] = key[y] => x = y
  PROVE  /\ \A x \in S : Cardinality(Before(S, key, x)) \in 0..Cardinality(S) - 1
         /\ \A n \in 1..Cardinality(S) : \E x \in S : Cardinality(Before(S, key, x)) = n - 1
<1> DEFINE size == Cardinality(S)
           rank == [x \in S |-> Cardinality(Before(S, key, x))]
<1>1. size \in Nat
  BY FS_CardinalityType
<1>2. \A x \in S : rank[x] \in 0..size - 1
  <2>1. TAKE x \in S
  <2>2. Before(S, key, x) \in SUBSET S /\ x \notin Before(S, key, x)
    BY DEF Before
  <2>3. /\ IsFiniteSet(Before(S, key, x)) /\ Cardinality(Before(S, key, x)) <= size
        /\ Cardinality(Before(S, key, x)) # size
    BY <2>2, FS_Subset
  <2>4. Cardinality(Before(S, key, x)) \in Nat
    BY <2>3, FS_CardinalityType
  <2>5. QED
    BY <1>1, <2>3, <2>4
<1>3. IsFiniteSet(0..size - 1) /\ Cardinality(0..size - 1) = size
  BY <1>1, FS_Interval
<1>4. \A x, y \in S : rank[x] = rank[y] => x = y
  <2>1. TAKE x, y \in S
  <2>2. HAVE rank[x] = rank[y]
  <2>3. ~(key[x] < key[y]) /\ ~(key[y] < key[x])
    BY <1>2, <2>2, BeforeGrows
  <2>4. QED
    BY <2>3
<1>5. rank \in Injection(S, 0..size - 1)
  BY <1>2, <1>4 DEF Injection, IsInjective
<1>6. rank \in Surjection(S, 0..size - 1)
  BY <1>3, <1>5, FS_Injection
<1>7. \A m \in 0..size - 1 : \E x \in S : rank[x] = m
  BY <1>6 DEF Surjection
<1>8. \A n \in 1..size : n - 1 \in 0..size - 1
  BY <1>1
<1>9. QED
  BY <1>2, <1>7, <1>8

Sortable(S, key) ==
  /\ IsFiniteSet(S)
  /\ \A x \in S : key[x] \in Nat
  /\ \A x, y \in S : key[x] = key[y] => x = y

(* s holds each of S once, by ascending key. *)
Sorts(s, S, key) ==
  /\ s \in Seq(S)
  /\ Len(s) = Cardinality(S) /\ DOMAIN s = 1..Cardinality(S)
  /\ \A i, j \in 1..Cardinality(S) : i < j => key[s[i]] < key[s[j]]
  /\ \A x \in S : \E i \in 1..Cardinality(S) : s[i] = x

LEMMA SortedByProperties ==
  ASSUME NEW S, NEW key, Sortable(S, key)
  PROVE  Sorts(SortedBy(S, key), S, key)
<1> USE DEF Sortable
<1> DEFINE s == SortedBy(S, key)
           size == Cardinality(S)
           rank(x) == Cardinality(Before(S, key, x))
<1>1. size \in Nat
  BY FS_CardinalityType
<1>2. s = [n \in 1..size |-> CHOOSE x \in S : rank(x) = n - 1]
  BY DEF SortedBy, Before
<1>3. \A n \in 1..size : s[n] \in S /\ rank(s[n]) = n - 1
  BY <1>2, PlacesFilled
<1>4. s \in [1..size -> S]
  BY <1>2, <1>3
<1>5. s \in Seq(S)
  BY <1>1, <1>4, SeqDef
<1>6. Len(s) = size /\ DOMAIN s = 1..size
  BY <1>1, <1>4, <1>5, LenProperties
<1>7. \A i, j \in 1..size : i < j => key[s[i]] < key[s[j]]
  <2>1. TAKE i, j \in 1..size
  <2>2. HAVE i < j
  <2>3. s[i] \in S /\ s[j] \in S /\ rank(s[i]) = i - 1 /\ rank(s[j]) = j - 1
    BY <1>3
  <2>4. ~(key[s[j]] < key[s[i]])
    BY <1>1, <2>2, <2>3, BeforeGrows
  <2>5. key[s[i]] # key[s[j]]
    BY <1>1, <2>2, <2>3
  <2>6. QED
    BY <2>3, <2>4, <2>5
<1>8. \A x \in S : \E i \in 1..size : s[i] = x
  <2>1. TAKE x \in S
  <2>2. rank(x) + 1 \in 1..size
    BY <1>1, PlacesFilled
  <2>3. s[rank(x) + 1] \in S /\ rank(s[rank(x) + 1]) = rank(x)
    BY <1>1, <1>3, <2>2, PlacesFilled
  <2>4. ~(key[x] < key[s[rank(x) + 1]]) /\ ~(key[s[rank(x) + 1]] < key[x])
    BY <1>1, <2>3, BeforeGrows, PlacesFilled
  <2>5. s[rank(x) + 1] = x
    BY <2>3, <2>4
  <2>6. QED
    BY <2>2, <2>5
<1>9. QED
  BY <1>5, <1>6, <1>7, <1>8 DEF Sorts

(* The same elements, in the same order, but for those of S.                *)
LEMMA WithoutProperties ==
  ASSUME NEW T, NEW q \in Seq(T), NEW S
  PROVE  /\ Without(q, S) \in Seq(T)
         /\ ToSet(Without(q, S)) = ToSet(q) \ S
         /\ \A i, j \in DOMAIN Without(q, S) : i < j =>
              \E k, l \in DOMAIN q : k < l /\ q[k] = Without(q, S)[i] /\ q[l] = Without(q, S)[j]
<1> DEFINE w == Without(q, S)
           kept == {i \in DOMAIN q : q[i] \notin S}
           self == [i \in kept |-> i]
           place == SortedBy(kept, self)
           size == Cardinality(kept)
<1>1. Len(q) \in Nat /\ DOMAIN q = 1..Len(q) /\ \A i \in 1..Len(q) : q[i] \in T
  BY LenProperties, ElementOfSeq
<1>1a. kept \in SUBSET (1..Len(q)) /\ kept \subseteq Nat
  BY <1>1
<1>2. IsFiniteSet(kept) /\ kept \subseteq Nat /\ size \in Nat
  <2> HIDE DEF kept
  <2>1. IsFiniteSet(1..Len(q))
    BY <1>1, FS_Interval
  <2>2. IsFiniteSet(kept)
    BY <1>1a, <2>1, FS_Subset
  <2>3. QED
    BY <1>1a, <2>2, FS_CardinalityType
<1>3. (\A x \in kept : self[x] \in Nat) /\ \A x, y \in kept : self[x] = self[y] => x = y
  BY <1>2
<1> HIDE DEF kept
<1>4. /\ place \in Seq(kept) /\ Len(place) = size /\ DOMAIN place = 1..size
      /\ \A i, j \in 1..size : i < j => self[place[i]] < self[place[j]]
      /\ \A x \in kept : \E i \in 1..size : place[i] = x
  <2>1. Sortable(kept, self)
    BY <1>2, <1>3 DEF Sortable
  <2> HIDE DEF self
  <2>2. Sorts(SortedBy(kept, self), kept, self)
    BY <2>1, SortedByProperties
  <2>3. QED
    BY <2>2 DEF Sorts
<1>5. \A i \in 1..size : place[i] \in kept
  BY <1>2, <1>4, ElementOfSeq
<1>6. w = [n \in 1..size |-> q[place[n]]]
  BY DEF Without, kept
<1> HIDE DEF place
<1>7. \A n \in 1..size : w[n] = q[place[n]] /\ w[n] \in T /\ w[n] \in ToSet(q) \ S
  BY <1>1, <1>5, <1>6 DEF kept, ToSet
<1>8. w \in [1..size -> T]
  BY <1>6, <1>7
<1>9. w \in Seq(T) /\ DOMAIN w = 1..size
  BY <1>2, <1>8, SeqDef
<1>10. ToSet(w) \subseteq ToSet(q) \ S
  BY <1>7, <1>9 DEF ToSet
<1>11. ToSet(q) \ S \subseteq ToSet(w)
  <2>1. SUFFICES ASSUME NEW i \in DOMAIN q, q[i] \notin S PROVE q[i] \in ToSet(w)
    BY DEF ToSet
  <2>2. i \in kept
    BY <2>1 DEF kept
  <2>3. PICK n \in 1..size : place[n] = i
    BY <1>4, <2>2
  <2>4. w[n] = q[i]
    BY <1>7, <2>3
  <2>5. QED
    BY <1>9, <2>4 DEF ToSet
<1>12. \A i, j \in DOMAIN w : i < j => \E k, l \in DOMAIN q : k < l /\ q[k] = w[i] /\ q[l] = w[j]
  <2>1. TAKE i, j \in DOMAIN w
  <2>2. HAVE i < j
  <2>3. place[i] \in kept /\ place[j] \in kept /\ self[place[i]] < self[place[j]]
    BY <1>4, <1>5, <1>9, <2>2
  <2>4. place[i] \in DOMAIN q /\ place[j] \in DOMAIN q /\ place[i] < place[j]
    BY <2>3 DEF kept
  <2>5. QED
    BY <1>7, <1>9, <2>4
<1>13. QED
  BY <1>9, <1>10, <1>11, <1>12

LEMMA RemoveAtProperties ==
  ASSUME NEW T, NEW q \in Seq(T), NEW i \in DOMAIN q
  PROVE  /\ RemoveAt(q, i) \in Seq(T)
         /\ DOMAIN RemoveAt(q, i) = 1..Len(q) - 1
         /\ \A j \in 1..Len(q) - 1 : RemoveAt(q, i)[j] = IF j < i THEN q[j] ELSE q[j + 1]
<1> DEFINE a == SubSeq(q, 1, i - 1)
           b == SubSeq(q, i + 1, Len(q))
<1>1. Len(q) \in Nat /\ DOMAIN q = 1..Len(q) /\ i \in 1..Len(q) /\ \A j \in 1..Len(q) : q[j] \in T
  BY LenProperties, ElementOfSeq
<1>2. /\ a \in Seq(T) /\ Len(a) = i - 1
      /\ \A j \in 1..i - 1 : a[j] = q[j]
  BY <1>1, SubSeqProperties
<1>3. /\ b \in Seq(T) /\ Len(b) = Len(q) - i
      /\ \A j \in 1..Len(q) - i : b[j] = q[i + j]
  <2>1. /\ b \in Seq(T) /\ Len(b) = IF i + 1 <= Len(q) THEN Len(q) - (i + 1) + 1 ELSE 0
        /\ \A j \in 1..Len(q) - (i + 1) + 1 : b[j] = q[i + 1 + j - 1]
    BY <1>1, SubSeqProperties
  <2>2. ASSUME NEW j \in 1..Len(q) - i PROVE j \in 1..Len(q) - (i + 1) + 1 /\ i + 1 + j - 1 = i + j
    BY <1>1
  <2> HIDE DEF b
  <2>4. ASSUME NEW j \in 1..Len(q) - i PROVE b[j] = q[i + j]
    <3>1. b[j] = q[i + 1 + j - 1]
      BY <2>1, <2>2
    <3>2. QED
      BY <2>2, <3>1
  <2>5. Len(b) = Len(q) - i
    BY <1>1, <2>1
  <2>6. QED
    BY <2>1, <2>4, <2>5
<1>4. RemoveAt(q, i) = a \o b
  BY DEF RemoveAt
<1> HIDE DEF a, b
<1>5. /\ a \o b \in Seq(T) /\ Len(a \o b) = Len(q) - 1
      /\ \A j \in 1..Len(q) - 1 : (a \o b)[j] = IF j <= i - 1 THEN a[j] ELSE b[j - (i - 1)]
  <2>1. Len(a) + Len(b) = Len(q) - 1
    BY <1>1, <1>2, <1>3
  <2>2. /\ a \o b \in Seq(T) /\ Len(a \o b) = Len(a) + Len(b)
        /\ \A j \in 1..Len(a) + Len(b) : (a \o b)[j] = IF j <= Len(a) THEN a[j] ELSE b[j - Len(a)]
    BY <1>2, <1>3, ConcatProperties
  <2>3. QED
    BY <1>2, <2>1, <2>2
<1>6. ASSUME NEW j \in 1..Len(q) - 1 PROVE (a \o b)[j] = IF j < i THEN q[j] ELSE q[j + 1]
  <2>1. CASE j < i
    BY <1>1, <1>2, <1>5, <2>1
  <2>2. CASE ~(j < i)
    <3>1. j - (i - 1) \in 1..Len(q) - i /\ i + (j - (i - 1)) = j + 1 /\ ~(j <= i - 1)
      BY <1>1, <2>2
    <3>2. QED
      BY <1>3, <1>5, <2>2, <3>1
  <2>3. QED
    BY <2>1, <2>2
<1>7. QED
  BY <1>4, <1>5, <1>6, LenProperties

----------------------------------------------------------------------------
(* The least and the greatest of a set of numbers *)

LEMMA LeastOf ==
  ASSUME NEW T \in SUBSET Nat, T # {}
  PROVE  \E x \in T : \A y \in T : x <= y
<1>1. PICK x \in T : \A y \in T : <<y, x>> \notin OpToRel(<, Nat)
  BY NatLessThanWellFounded, WFMin
<1>2. \A y \in T : ~(y < x)
  BY <1>1, Zenon DEF OpToRel
<1>3. QED
  BY <1>2

LEMMA GreatestOf ==
  ASSUME NEW bound \in Nat, NEW T \in SUBSET 0..bound, T # {}
  PROVE  \E x \in T : \A y \in T : y <= x
<1> DEFINE below == {bound - x : x \in T}
<1>0. \A x \in T : x \in Nat /\ bound - x \in Nat
  OBVIOUS
<1>1. below \in SUBSET Nat /\ below # {}
  BY <1>0
<1>2. PICK b \in below : \A a \in below : b <= a
  BY <1>1, LeastOf
<1>3. PICK x \in T : b = bound - x
  OBVIOUS
<1>4. \A y \in T : bound - x <= bound - y
  BY <1>2, <1>3
<1>5. QED
  BY <1>0, <1>4

LEMMA MaxIs ==
  ASSUME NEW S \in SUBSET Int, NEW x \in S, \A y \in S : y <= x
  PROVE  Max(S) = x
<1>1. x \in S /\ \A y \in S : x >= y
  OBVIOUS
<1>2. Max(S) \in S /\ \A y \in S : Max(S) >= y
  BY <1>1, Zenon DEF Max
<1>3. PICK m : m = Max(S)
  OBVIOUS
<1>4. m \in Int /\ x \in Int /\ m >= x /\ x >= m
  BY <1>1, <1>2, <1>3
<1>5. QED
  BY <1>3, <1>4

LEMMA MinIs ==
  ASSUME NEW S \in SUBSET Int, NEW x \in S, \A y \in S : x <= y
  PROVE  Min(S) = x
<1>1. Min(S) \in S /\ \A y \in S : Min(S) <= y
  BY Zenon DEF Min
<1>2. PICK m : m = Min(S)
  OBVIOUS
<1>3. m \in Int /\ x \in Int /\ m <= x /\ x <= m
  BY <1>1, <1>2
<1>4. QED
  BY <1>2, <1>3

LEMMA MaxOfTwo ==
  ASSUME NEW a \in Int, NEW b \in Int
  PROVE  Max({a, b}) = IF a >= b THEN a ELSE b
<1>1. CASE a >= b
  <2>1. Max({a, b}) = a
    BY <1>1, MaxIs
  <2>2. QED
    BY <1>1, <2>1
<1>2. CASE ~(a >= b)
  <2>1. Max({a, b}) = b
    BY <1>2, MaxIs
  <2>2. QED
    BY <1>2, <2>1
<1>3. QED
  BY <1>1, <1>2

LEMMA MinOfTwo ==
  ASSUME NEW a \in Int, NEW b \in Int
  PROVE  Min({a, b}) = IF a <= b THEN a ELSE b
<1>1. CASE a <= b
  <2>1. Min({a, b}) = a
    BY <1>1, MinIs
  <2>2. QED
    BY <1>1, <2>1
<1>2. CASE ~(a <= b)
  <2>1. Min({a, b}) = b
    BY <1>2, MinIs
  <2>2. QED
    BY <1>2, <2>1
<1>3. QED
  BY <1>1, <1>2

LEMMA MinOfNaturals ==
  ASSUME NEW S \in SUBSET Nat, S # {}
  PROVE  Min(S) \in S /\ \A y \in S : Min(S) <= y
<1>1. PICK x \in S : \A y \in S : x <= y
  BY LeastOf
<1>2. Min(S) = x
  BY <1>1, MinIs
<1>3. QED
  BY <1>1, <1>2

(* A finite set of numbers above one, that leaves out none below a member,  *)
(* holds as many as it has members.                                         *)
LEMMA NoGaps ==
  ASSUME NEW from \in Nat, NEW P \in SUBSET Nat, IsFiniteSet(P), \A p \in P : p > from,
         \A p \in P : \A q \in from + 1..p : q \in P
  PROVE  \A k \in 1..Cardinality(P) : from + k \in P
<1>1. Cardinality(P) \in Nat
  BY FS_CardinalityType
<1>2. SUFFICES ASSUME NEW k \in 1..Cardinality(P), from + k \notin P PROVE FALSE
  OBVIOUS
<1>3. \A p \in P : p \in from + 1..from + k - 1
  <2>1. TAKE p \in P
  <2>2. ~(p >= from + k)
    BY <1>1, <1>2
  <2>3. QED
    BY <1>1, <2>2
<1>4. /\ IsFiniteSet((from + 1)..(from + k - 1))
      /\ Cardinality((from + 1)..(from + k - 1)) = k - 1
  <2>1. from + 1 \in Int /\ from + k - 1 \in Int /\ from + k - 1 - (from + 1) + 1 = k - 1
    BY <1>1
  <2>2. PICK a \in Int, b \in Int : a = from + 1 /\ b = from + k - 1
    BY <2>1
  <2>3. IsFiniteSet(a..b) /\ Cardinality(a..b) = IF a > b THEN 0 ELSE b - a + 1
    BY FS_Interval
  <2>4. (IF a > b THEN 0 ELSE b - a + 1) = k - 1
    BY <1>1, <2>2
  <2>5. QED
    BY <2>2, <2>3, <2>4
<1>5. Cardinality(P) <= k - 1
  BY <1>3, <1>4, FS_Subset
<1>6. QED
  BY <1>1, <1>5

----------------------------------------------------------------------------
(* Queues that hold each of their elements once *)

(* q is over T, and holds each of S once and nothing else.                  *)
Once(q, S, T) == q \in Seq(T) /\ IsInjective(q) /\ ToSet(q) = S

LEMMA OnceEmpty ==
  ASSUME NEW T
  PROVE  Once(<<>>, {}, T)
BY EmptySeq DEF Once, IsInjective, ToSet

LEMMA OnceHead ==
  ASSUME NEW T, NEW q \in Seq(T), q # <<>>, IsInjective(q)
  PROVE  /\ Head(q) \in ToSet(q) /\ Head(q) \in T
         /\ Once(Tail(q), ToSet(q) \ {Head(q)}, T)
<1>1. Len(q) \in Nat \ {0} /\ DOMAIN q = 1..Len(q) /\ \A j \in 1..Len(q) : q[j] \in T
  BY LenProperties, ElementOfSeq, EmptySeq
<1>2. /\ Head(q) = q[1] /\ Tail(q) \in Seq(T) /\ Len(Tail(q)) = Len(q) - 1
      /\ \A j \in 1..Len(Tail(q)) : Tail(q)[j] = q[j + 1]
  BY HeadTailProperties
<1>3. DOMAIN Tail(q) = 1..Len(q) - 1
  BY <1>2, LenProperties
<1>4. IsInjective(Tail(q))
  BY <1>1, <1>2, <1>3 DEF IsInjective
<1>5. ToSet(Tail(q)) \subseteq ToSet(q) \ {Head(q)}
  BY <1>1, <1>2, <1>3 DEF IsInjective, ToSet
<1>6. ASSUME NEW i \in DOMAIN q, q[i] # Head(q) PROVE q[i] \in ToSet(Tail(q))
  <2>1. i - 1 \in 1..Len(q) - 1 /\ (i - 1) + 1 = i
    BY <1>1, <1>2, <1>6
  <2>2. QED
    BY <1>2, <1>3, <2>1 DEF ToSet
<1>7. ToSet(q) \ {Head(q)} \subseteq ToSet(Tail(q))
  BY <1>6 DEF ToSet
<1>8. Head(q) \in ToSet(q) /\ Head(q) \in T
  <2>1. 1 \in DOMAIN q
    BY <1>1
  <2>2. QED
    BY <1>1, <1>2, <2>1 DEF ToSet
<1>9. ToSet(Tail(q)) = ToSet(q) \ {Head(q)}
  BY <1>5, <1>7
<1>10. QED
  BY <1>2, <1>4, <1>8, <1>9 DEF Once

LEMMA OnceAt ==
  ASSUME NEW T, NEW q \in Seq(T), IsInjective(q), NEW i \in DOMAIN q
  PROVE  /\ q[i] \in ToSet(q) /\ q[i] \in T
         /\ Once(RemoveAt(q, i), ToSet(q) \ {q[i]}, T)
<1> DEFINE r == RemoveAt(q, i)
<1>1. Len(q) \in Nat /\ DOMAIN q = 1..Len(q) /\ i \in 1..Len(q) /\ \A j \in 1..Len(q) : q[j] \in T
  BY LenProperties, ElementOfSeq
<1>2. /\ r \in Seq(T) /\ DOMAIN r = 1..Len(q) - 1
      /\ \A j \in 1..Len(q) - 1 : r[j] = IF j < i THEN q[j] ELSE q[j + 1]
  BY RemoveAtProperties
<1> HIDE DEF r
<1> DEFINE from == [j \in 1..Len(q) - 1 |-> IF j < i THEN j ELSE j + 1]
<1>3. \A j \in 1..Len(q) - 1 : /\ r[j] = q[from[j]]
                               /\ from[j] \in DOMAIN q /\ from[j] # i
  BY <1>1, <1>2
<1>3a. \A j, k \in 1..Len(q) - 1 : from[j] = from[k] => j = k
  BY <1>1
<1> HIDE DEF from
<1>4. IsInjective(r)
  BY <1>2, <1>3, <1>3a DEF IsInjective
<1>5. ToSet(r) \subseteq ToSet(q) \ {q[i]}
  <2>1. \A j \in 1..Len(q) - 1 : r[j] \in ToSet(q) /\ r[j] # q[i]
    BY <1>3 DEF IsInjective, ToSet
  <2>2. QED
    BY <1>2, <2>1 DEF ToSet
<1>6. ASSUME NEW j \in DOMAIN q, q[j] # q[i] PROVE q[j] \in ToSet(r)
  <2>1. CASE j < i
    <3>1. j \in 1..Len(q) - 1 /\ r[j] = q[j]
      BY <1>1, <1>2, <2>1
    <3>2. QED
      BY <1>2, <3>1 DEF ToSet
  <2>2. CASE j > i
    <3>1. j - 1 \in 1..Len(q) - 1 /\ (j - 1) + 1 = j /\ ~(j - 1 < i)
      BY <1>1, <2>2
    <3>2. r[j - 1] = q[j]
      BY <1>2, <3>1
    <3>3. QED
      BY <1>2, <3>1, <3>2 DEF ToSet
  <2>3. QED
    BY <1>1, <1>6, <2>1, <2>2
<1>7. ToSet(q) \ {q[i]} \subseteq ToSet(r)
  BY <1>6 DEF ToSet
<1>8. QED
  BY <1>1, <1>2, <1>4, <1>5, <1>7 DEF Once, ToSet, r

LEMMA OnceAppend ==
  ASSUME NEW T, NEW q \in Seq(T), IsInjective(q), NEW x \in T, x \notin ToSet(q)
  PROVE  Once(Append(q, x), ToSet(q) \cup {x}, T)
<1> DEFINE a == Append(q, x)
<1>1. Len(q) \in Nat /\ DOMAIN q = 1..Len(q)
  BY LenProperties
<1>2. /\ a \in Seq(T) /\ Len(a) = Len(q) + 1
      /\ (\A j \in 1..Len(q) : a[j] = q[j]) /\ a[Len(q) + 1] = x
  BY AppendProperties
<1>3. DOMAIN a = 1..Len(q) + 1
  BY <1>2, LenProperties
<1> HIDE DEF a
<1>4. \A j \in 1..Len(q) : a[j] # x
  BY <1>1, <1>2 DEF ToSet
<1>5. IsInjective(a)
  BY <1>1, <1>2, <1>3, <1>4 DEF IsInjective
<1>6. ToSet(a) = ToSet(q) \cup {x}
  BY <1>1, <1>2, <1>3 DEF ToSet
<1>7. QED
  BY <1>2, <1>5, <1>6 DEF Once, a

LEMMA OnceWithout ==
  ASSUME NEW T, NEW q \in Seq(T), IsInjective(q), NEW S
  PROVE  Once(Without(q, S), ToSet(q) \ S, T)
<1> DEFINE w == Without(q, S)
<1>1. /\ w \in Seq(T) /\ ToSet(w) = ToSet(q) \ S
      /\ \A i, j \in DOMAIN w : i < j => \E k, l \in DOMAIN q : k < l /\ q[k] = w[i] /\ q[l] = w[j]
  BY WithoutProperties
<1> HIDE DEF w
<1>2. DOMAIN w \subseteq Nat /\ DOMAIN q \subseteq Nat
  BY <1>1, LenProperties
<1>3. \A i, j \in DOMAIN w : i < j => w[i] # w[j]
  BY <1>1, <1>2 DEF IsInjective
<1>4. IsInjective(w)
  BY <1>2, <1>3 DEF IsInjective
<1>5. QED
  BY <1>1, <1>4 DEF Once, w

LEMMA OnceSorted ==
  ASSUME NEW T, NEW S \in SUBSET T, NEW key, Sortable(S, key)
  PROVE  Once(SortedBy(S, key), S, T)
<1> DEFINE s == SortedBy(S, key)
<1>1. Sorts(s, S, key)
  BY SortedByProperties
<1>2. Cardinality(S) \in Nat
  BY FS_CardinalityType DEF Sortable
<1> HIDE DEF s
<1>3. /\ s \in Seq(S) /\ DOMAIN s = 1..Cardinality(S) /\ \A i \in DOMAIN s : s[i] \in S
  BY <1>1, ElementOfSeq, LenProperties DEF Sorts
<1>4. s \in [1..Cardinality(S) -> T]
  BY <1>3, SeqDef, LenProperties
<1>5. s \in Seq(T)
  BY <1>2, <1>4, SeqDef
<1>6. \A i, j \in DOMAIN s : i < j => key[s[i]] < key[s[j]] /\ key[s[i]] \in Nat
  BY <1>1, <1>3 DEF Sorts, Sortable
<1>7. IsInjective(s)
  BY <1>2, <1>3, <1>6 DEF IsInjective
<1>8. ToSet(s) = S
  BY <1>1, <1>3 DEF Sorts, ToSet
<1>9. QED
  BY <1>5, <1>7, <1>8 DEF Once, s

LEMMA AtMostOneOf ==
  ASSUME NEW S, \A x, y \in S : x = y
  PROVE  IsFiniteSet(S) /\ Cardinality(S) = IF S = {} THEN 0 ELSE 1
<1>1. CASE S = {}
  BY <1>1, FS_EmptySet
<1>2. CASE S # {}
  <2>1. PICK x \in S : S = {x}
    BY <1>2
  <2>2. QED
    BY <1>2, <2>1, FS_Singleton
<1>3. QED
  BY <1>1, <1>2

LEMMA ToSetOfConcat ==
  ASSUME NEW T, NEW s \in Seq(T), NEW u \in Seq(T)
  PROVE  ToSet(s \o u) = ToSet(s) \cup ToSet(u)
<1> DEFINE c == s \o u
<1>1. /\ Len(s) \in Nat /\ Len(u) \in Nat /\ DOMAIN s = 1..Len(s) /\ DOMAIN u = 1..Len(u)
  BY LenProperties
<1>2. /\ c \in Seq(T) /\ Len(c) = Len(s) + Len(u)
      /\ \A i \in 1..Len(s) + Len(u) : c[i] = IF i <= Len(s) THEN s[i] ELSE u[i - Len(s)]
  BY ConcatProperties
<1>3. DOMAIN c = 1..Len(s) + Len(u)
  BY <1>2, LenProperties
<1> HIDE DEF c
<1>4. \A i \in 1..Len(s) : i \in DOMAIN c /\ c[i] = s[i]
  BY <1>1, <1>2, <1>3
<1>5. \A i \in 1..Len(u) : Len(s) + i \in DOMAIN c /\ c[Len(s) + i] = u[i]
  BY <1>1, <1>2, <1>3
<1>6. \A i \in DOMAIN c : \/ i \in 1..Len(s) /\ c[i] = s[i]
                          \/ i - Len(s) \in 1..Len(u) /\ c[i] = u[i - Len(s)]
  BY <1>1, <1>2, <1>3
<1>7. ToSet(c) \subseteq ToSet(s) \cup ToSet(u)
  BY <1>1, <1>6 DEF ToSet
<1>8. ToSet(s) \subseteq ToSet(c) /\ ToSet(u) \subseteq ToSet(c)
  BY <1>1, <1>4, <1>5 DEF ToSet
<1>9. QED
  BY <1>7, <1>8 DEF c

(* A sequence of numbers that ascends is what SortedBy makes of them.       *)
LEMMA AscendingIsSorted ==
  ASSUME NEW S \in SUBSET Nat, NEW s \in Seq(S), ToSet(s) = S,
         \A i, j \in 1..Len(s) : i < j => s[i] < s[j]
  PROVE  s = SortedBy(S, [x \in S |-> x])
<1> DEFINE self == [x \in S |-> x]
           n == Len(s)
<1>1. n \in Nat /\ DOMAIN s = 1..n /\ \A i \in 1..n : s[i] \in S
  BY LenProperties, ElementOfSeq
<1>2. \A x \in S : \E i \in 1..n : s[i] = x
  BY <1>1 DEF ToSet
<1>3. \A i, j \in 1..n : s[i] = s[j] => i = j
  <2>1. SUFFICES ASSUME NEW i \in 1..n, NEW j \in 1..n, s[i] = s[j], i < j PROVE FALSE
    BY <1>1
  <2>2. s[i] < s[j] /\ s[i] \in Nat
    BY <1>1, <2>1
  <2>3. QED
    BY <2>1, <2>2
<1>4. ASSUME NEW k \in 1..n PROVE Cardinality(Before(S, self, s[k])) = k - 1
  <2> DEFINE f == [j \in 1..k - 1 |-> s[j]]
             R == {s[j] : j \in 1..k - 1}
  <2>1. k \in Nat \ {0} /\ 1..k - 1 \subseteq 1..n
    BY <1>1
  <2>2. Before(S, self, s[k]) = R
    <3>1. \A j \in 1..k - 1 : s[j] \in S /\ s[j] < s[k]
      BY <1>1, <1>4, <2>1
    <3>2. ASSUME NEW x \in S, x < s[k] PROVE x \in R
      <4>1. PICK j \in 1..n : s[j] = x
        BY <1>2
      <4>2. ~(k <= j)
        <5>1. CASE k = j
          BY <3>2, <4>1, <5>1
        <5>2. CASE k < j
          <6>1. s[k] < s[j] /\ s[k] \in Nat /\ s[j] \in Nat
            BY <1>1, <1>4, <5>2
          <6>2. QED
            BY <3>2, <4>1, <6>1
        <5>3. QED
          BY <1>1, <1>4, <5>1, <5>2
      <4>3. j \in 1..k - 1
        BY <1>1, <1>4, <4>2
      <4>4. QED
        BY <4>1, <4>3
    <3>3. QED
      BY <1>1, <1>4, <3>1, <3>2 DEF Before
  <2>3. \A i, j \in 1..k - 1 : s[i] = s[j] => i = j
    BY <1>3, <2>1
  <2>4. f \in Bijection(1..k - 1, R)
    BY <2>3 DEF Bijection, Injection, Surjection, IsInjective
  <2>5. IsFiniteSet(1..k - 1) /\ Cardinality(1..k - 1) = k - 1
    BY <2>1, FS_Interval
  <2>6. Cardinality(R) = k - 1
    BY <2>4, <2>5, FS_Bijection DEF ExistsBijection
  <2>7. QED
    BY <2>2, <2>6
<1>5. Cardinality(S) = n
  <2>1. [i \in 1..n |-> s[i]] \in Bijection(1..n, S)
    BY <1>1, <1>2, <1>3 DEF Bijection, Injection, Surjection, IsInjective
  <2>2. IsFiniteSet(1..n) /\ Cardinality(1..n) = n
    BY <1>1, FS_Interval
  <2>3. QED
    BY <2>1, <2>2, FS_Bijection DEF ExistsBijection
<1> DEFINE at(k) == CHOOSE x \in S : Cardinality(Before(S, self, x)) = k - 1
<1>6. SortedBy(S, self) = [k \in 1..n |-> at(k)]
  BY <1>5 DEF SortedBy, Before
<1>7. ASSUME NEW k \in 1..n PROVE at(k) = s[k]
  <2>1. at(k) \in S /\ Cardinality(Before(S, self, at(k))) = k - 1
    BY <1>1, <1>4
  <2>2. PICK j \in 1..n : s[j] = at(k)
    BY <1>2, <2>1
  <2>3. j - 1 = k - 1
    BY <1>4, <2>1, <2>2
  <2>4. j = k
    BY <1>1, <2>3
  <2>5. QED
    BY <2>2, <2>4
<1> HIDE DEF at
<1>8. s = [k \in 1..n |-> s[k]]
  <2>1. s \in [1..n -> S]
    BY <1>1, LenProperties
  <2> HIDE DEF n
  <2>2. QED
    BY <2>1
<1>9. QED
  BY <1>6, <1>7, <1>8

===============================================================================
