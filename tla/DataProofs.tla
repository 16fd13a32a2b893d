----------------------------- MODULE DataProofs -----------------------------
(***************************************************************************)
(* Theorems about the pure modules, for data of every size: lists (filtered,*)
(* sorted, concatenated, flattened), the units a scan makes of a walk        *)
(* (Grouping), templates and segments (Names), and what a tag write keeps of *)
(* a file (Containers).                                                     *)
(*                                                                         *)
(* Folds and recursive functions are reasoned about by instances of          *)
(* FoldProofs, one for each.                                                 *)
(***************************************************************************)
EXTENDS Grouping, Names, Containers, FiniteSetTheorems, FoldProofs

-----------------------------------------------------------------------------
(* Numbers. *)

\* Two counts are the same if they count the same numbers.
LEMMA SameInterval ==
  ASSUME NEW a \in Nat, NEW b \in Nat, 1 .. a = 1 .. b
  PROVE  a = b
<1>1. SUFFICES ASSUME NEW c \in Nat, NEW d \in Nat, 1 .. c = 1 .. d, c < d PROVE FALSE
  <2>1. ~ (a < b)
    BY <1>1
  <2>2. ~ (b < a)
    BY <1>1
  <2> QED BY <2>1, <2>2
<1>2. d \in 1 .. d /\ d \notin 1 .. c
  BY <1>1
<1> QED BY <1>1, <1>2

\* The least of some numbers.
LEMMA Least ==
  ASSUME NEW S, S \subseteq Nat, S # {}
  PROVE  Min(S) \in S /\ \A y \in S : Min(S) <= y
<1>1. PICK x \in S : \A y \in S : ~ (<<y, x>> \in OpToRel(<, Nat))
  BY NatLessThanWellFounded, WFMin
<1>2. \A y \in S : x <= y
  <2>1. \A y \in S : y \in Nat /\ x \in Nat /\ ~ (y < x)
    BY <1>1 DEF OpToRel
  <2> QED BY <2>1
<1> QED BY <1>1, <1>2 DEF Min

\* The greater of two, and the less.
LEMMA OfTwo ==
  ASSUME NEW a \in Int, NEW b \in Int
  PROVE  Max({a, b}) = (IF a >= b THEN a ELSE b) /\ Min({a, b}) = (IF a <= b THEN a ELSE b)
<1>1. CASE a >= b
  <2>1. \A x \in {a, b} : (\A y \in {a, b} : x >= y) => x = a
    BY <1>1
  <2>2. \A x \in {a, b} : (\A y \in {a, b} : x <= y) => x = b
    BY <1>1
  <2>3. (\A y \in {a, b} : a >= y) /\ (\A y \in {a, b} : b <= y)
    BY <1>1
  <2> QED BY <1>1, <2>1, <2>2, <2>3 DEF Max, Min
<1>2. CASE b > a
  <2>1. \A x \in {a, b} : (\A y \in {a, b} : x >= y) => x = b
    BY <1>2
  <2>2. \A x \in {a, b} : (\A y \in {a, b} : x <= y) => x = a
    BY <1>2
  <2>3. (\A y \in {a, b} : b >= y) /\ (\A y \in {a, b} : a <= y)
    BY <1>2
  <2> QED BY <1>2, <2>1, <2>2, <2>3 DEF Max, Min
<1> QED BY <1>1, <1>2

-----------------------------------------------------------------------------
(* Lists. *)

\* What a list is.
LEMMA ListParts ==
  ASSUME NEW s, IsList(s)
  PROVE  Len(s) \in Nat /\ DOMAIN s = 1 .. Len(s) /\ s = [i \in 1 .. Len(s) |-> s[i]]
  BY DEF IsList

\* A function on the numbers from 1 is a list.
LEMMA ListOf ==
  ASSUME NEW n \in Nat, NEW s, s = [i \in 1 .. n |-> s[i]]
  PROVE  IsList(s) /\ Len(s) = n /\ DOMAIN s = 1 .. n
<1>1. DOMAIN s = 1 .. n /\ s \in [1 .. n -> Range(s)]
  BY DEF Range
<1>2. s \in Seq(Range(s))
  BY <1>1
<1> QED
  BY <1>1, <1>2 DEF IsList

\* Only the empty list has no elements.
LEMMA EmptyIs ==
  ASSUME NEW s, IsList(s)
  PROVE  s = <<>> <=> Len(s) = 0
  BY DEF IsList

\* Two lists of one length with the same elements are the same.
LEMMA ListEqual ==
  ASSUME NEW s, NEW t, IsList(s), IsList(t), Len(s) = Len(t),
         \A i \in 1 .. Len(s) : s[i] = t[i]
  PROVE  s = t
  BY ListParts

\* A list as a sequence of any set that has its elements.
LEMMA ListIn ==
  ASSUME NEW s, IsList(s), NEW S, Range(s) \subseteq S
  PROVE  s \in Seq(S)
  BY DEF IsList

\* A sequence of whatever set is a list.
LEMMA SeqList ==
  ASSUME NEW S, NEW s \in Seq(S)
  PROVE  IsList(s) /\ Len(s) \in Nat
<1>1. Len(s) \in Nat /\ s = [i \in 1 .. Len(s) |-> s[i]]
  OBVIOUS
<1> QED BY <1>1, ListOf

\* One list behind another.
LEMMA ListConcat ==
  ASSUME NEW s, NEW t, IsList(s), IsList(t)
  PROVE  /\ IsList(s \o t) /\ Len(s \o t) = Len(s) + Len(t)
         /\ \A i \in 1 .. Len(s) : (s \o t)[i] = s[i]
         /\ \A i \in 1 .. Len(t) : (s \o t)[Len(s) + i] = t[i]
         /\ \A i \in Len(s) + 1 .. Len(s) + Len(t) : (s \o t)[i] = t[i - Len(s)]
<1> DEFINE S == Range(s) \cup Range(t)
<1>1. s \in Seq(S) /\ t \in Seq(S)
  BY ListIn
<1> HIDE DEF S
<1>2. /\ s \o t \in Seq(S) /\ Len(s \o t) = Len(s) + Len(t)
      /\ \A i \in 1 .. Len(s) : (s \o t)[i] = s[i]
      /\ \A i \in Len(s) + 1 .. Len(s) + Len(t) : (s \o t)[i] = t[i - Len(s)]
  BY <1>1
<1>3. Len(s) \in Nat /\ Len(t) \in Nat
  BY <1>1
<1>4. IsList(s \o t)
  BY <1>2, SeqList
<1> QED
  BY <1>2, <1>3, <1>4

\* One more element.
LEMMA ListAppend ==
  ASSUME NEW s, IsList(s), NEW x
  PROVE  /\ IsList(Append(s, x)) /\ Len(Append(s, x)) = Len(s) + 1 /\ Len(s) \in Nat
         /\ \A i \in 1 .. Len(s) : Append(s, x)[i] = s[i]
         /\ Append(s, x)[Len(s) + 1] = x /\ Append(s, x) # <<>>
<1> DEFINE S == Range(s) \cup {x}
<1>1. s \in Seq(S) /\ x \in S
  BY ListIn
<1> HIDE DEF S
<1>2. /\ Append(s, x) \in Seq(S) /\ Len(Append(s, x)) = Len(s) + 1 /\ Len(s) \in Nat
      /\ \A i \in 1 .. Len(s) : Append(s, x)[i] = s[i]
      /\ Append(s, x)[Len(s) + 1] = x
  BY <1>1
<1>3. IsList(Append(s, x))
  BY <1>2, SeqList
<1> QED
  BY <1>2, <1>3, EmptyIs

\* A part of a list.
LEMMA ListSub ==
  ASSUME NEW s, IsList(s), NEW m \in Nat \ {0}, NEW n \in Nat, n <= Len(s), m <= n + 1
  PROVE  /\ IsList(SubSeq(s, m, n)) /\ Len(SubSeq(s, m, n)) = n + 1 - m
         /\ \A i \in 1 .. n + 1 - m : SubSeq(s, m, n)[i] = s[m + i - 1]
<1>1. s \in Seq(Range(s)) /\ Len(s) \in Nat
  BY DEF IsList
<1>2. /\ SubSeq(s, m, n) = [i \in 1 .. (n - m + 1) |-> s[i + m - 1]]
  BY <1>1
<1>3. n - m + 1 \in Nat
  BY <1>1
<1>4. /\ SubSeq(s, m, n) = [i \in 1 .. (n - m + 1) |-> SubSeq(s, m, n)[i]]
      /\ \A i \in 1 .. (n - m + 1) : SubSeq(s, m, n)[i] = s[i + m - 1]
  BY <1>2
<1> QED
  BY <1>3, <1>4, ListOf

\* A list without its last element.
LEMMA ListFront ==
  ASSUME NEW s, IsList(s), s # <<>>
  PROVE  /\ IsList(Front(s)) /\ Len(Front(s)) = Len(s) - 1 /\ Len(s) \in Nat \ {0}
         /\ \A i \in 1 .. Len(s) - 1 : Front(s)[i] = s[i]
         /\ s = Append(Front(s), Last(s))
<1>1. Len(s) \in Nat \ {0}
  BY ListParts, EmptyIs
<1>2. /\ IsList(Front(s)) /\ Len(Front(s)) = Len(s) - 1
      /\ \A i \in 1 .. Len(s) - 1 : Front(s)[i] = s[i]
  <2>1. Len(s) - 1 \in Nat /\ 1 <= (Len(s) - 1) + 1 /\ Len(s) - 1 <= Len(s)
    BY <1>1
  <2>2. /\ IsList(SubSeq(s, 1, Len(s) - 1)) /\ Len(SubSeq(s, 1, Len(s) - 1)) = (Len(s) - 1) + 1 - 1
        /\ \A i \in 1 .. (Len(s) - 1) + 1 - 1 : SubSeq(s, 1, Len(s) - 1)[i] = s[1 + i - 1]
    BY <2>1, ListSub, 1 \in Nat \ {0}
  <2> QED BY <1>1, <2>2 DEF Front
<1>3. s = Append(Front(s), Last(s))
  <2> DEFINE t == Append(Front(s), Last(s))
  <2>1. IsList(t) /\ Len(t) = Len(s) /\ (\A i \in 1 .. Len(s) - 1 : t[i] = s[i]) /\ t[Len(s)] = s[Len(s)]
    BY <1>1, <1>2, ListAppend DEF Last
  <2> HIDE DEF t
  <2>2. \A i \in 1 .. Len(s) : s[i] = t[i]
    BY <1>1, <2>1
  <2>3. s = t
    BY <2>1, <2>2, ListEqual
  <2> QED BY <2>3 DEF t
<1> QED
  BY <1>1, <1>2, <1>3

-----------------------------------------------------------------------------
(* Filters and arrangements. *)

\* The sets of positions are finite.
LEMMA PositionSets ==
  ASSUME NEW n \in Nat, NEW T \in SUBSET (1 .. n)
  PROVE  IsFiniteSet(T) /\ Cardinality(T) \in Nat /\ Cardinality(T) <= n
<1>1. IsFiniteSet(1 .. n) /\ Cardinality(1 .. n) = n
  BY FS_Interval
<1>2. IsFiniteSet(T) /\ Cardinality(T) <= n
  BY <1>1, FS_Subset
<1> QED
  BY <1>2, FS_CardinalityType

\* How many of the places are not after i.
Count(places, i) == Cardinality({j \in places : j <= i})

\* One more number adds one to the count if it is a place, and nothing if not.
LEMMA CountStep ==
  ASSUME NEW n \in Nat, NEW places \in SUBSET (1 .. n)
  PROVE  /\ Count(places, 0) = 0 /\ Count(places, n) = Cardinality(places)
         /\ \A i \in 0 .. n : Count(places, i) \in Nat
         /\ \A i \in 1 .. n : Count(places, i) = Count(places, i - 1) + (IF i \in places THEN 1 ELSE 0)
<1>0. \A j \in places : j \in Nat /\ 1 <= j /\ j <= n
  OBVIOUS
<1>1. {j \in places : j <= 0} = {} /\ {j \in places : j <= n} = places
  <2>1. \A j \in places : ~ (j <= 0) /\ j <= n
    BY <1>0
  <2> QED BY <2>1
<1>2. \A i \in 0 .. n : IsFiniteSet({j \in places : j <= i}) /\ Cardinality({j \in places : j <= i}) \in Nat
  <2>1. ASSUME NEW i \in 0 .. n PROVE {j \in places : j <= i} \in SUBSET (1 .. n)
    OBVIOUS
  <2> QED BY <2>1, PositionSets
<1>3. ASSUME NEW i \in 1 .. n
      PROVE  Count(places, i) = Count(places, i - 1) + (IF i \in places THEN 1 ELSE 0)
  <2> DEFINE B == {j \in places : j <= i - 1}
  <2>0. i \in Nat /\ i - 1 \in 0 .. n
    OBVIOUS
  <2>1. IsFiniteSet(B) /\ Cardinality(B) \in Nat
    BY <1>2, <2>0
  <2>2. CASE i \in places
    <3>1. {j \in places : j <= i} = B \cup {i} /\ i \notin B
      <4>1. \A j \in places : j <= i <=> (j <= i - 1 \/ j = i)
        BY <1>0, <2>0
      <4>2. ~ (i <= i - 1)
        BY <2>0
      <4> QED BY <2>2, <4>1, <4>2
    <3>2. Cardinality(B \cup {i}) = Cardinality(B) + 1
      <4> HIDE DEF B
      <4> QED BY <2>1, <3>1, FS_AddElement
    <3> QED BY <2>2, <3>1, <3>2 DEF Count
  <2>3. CASE i \notin places
    <3>1. {j \in places : j <= i} = B
      <4>1. \A j \in places : j <= i <=> j <= i - 1
        <5>1. \A j \in places : j # i
          BY <2>3
        <5> QED BY <1>0, <2>0, <5>1
      <4> QED BY <4>1
    <3>2. Count(places, i) = Cardinality(B) /\ Count(places, i - 1) = Cardinality(B)
      BY <3>1 DEF Count
    <3> QED BY <2>1, <2>3, <3>2
  <2> QED BY <2>2, <2>3
<1> QED
  BY <1>1, <1>2, <1>3, FS_EmptySet DEF Count

\* The count never falls.
LEMMA CountGrows ==
  ASSUME NEW n \in Nat, NEW places \in SUBSET (1 .. n), NEW i \in 0 .. n
  PROVE  \A k \in 0 .. n : i <= k => Count(places, i) <= Count(places, k)
<1> DEFINE S == {k \in Nat : i <= k /\ k <= n => Count(places, i) <= Count(places, k)}
<1>1. 0 \in S
  BY CountStep
<1>2. ASSUME NEW k \in Nat, k \in S PROVE k + 1 \in S
  <2>1. CASE i <= k /\ k + 1 <= n
    <3>1. Count(places, k + 1) = Count(places, (k + 1) - 1) + (IF k + 1 \in places THEN 1 ELSE 0)
      BY <2>1, CountStep
    <3>2. Count(places, k) \in Nat /\ Count(places, k + 1) \in Nat /\ Count(places, i) \in Nat /\ (k + 1) - 1 = k
      <4>1. k \in 0 .. n /\ k + 1 \in 0 .. n /\ i \in 0 .. n
        BY <2>1
      <4>2. (k + 1) - 1 = k
        OBVIOUS
      <4>3. \A m \in 0 .. n : Count(places, m) \in Nat
        BY CountStep
      <4> QED BY <4>1, <4>2, <4>3
    <3> QED BY <1>2, <2>1, <3>1, <3>2
  <2>2. CASE i = k + 1
    <3>1. Count(places, i) \in Nat
      BY CountStep
    <3> QED BY <2>2, <3>1
  <2> QED BY <2>1, <2>2
<1>3. Nat \subseteq S
  <2> HIDE DEF S
  <2> QED BY <1>1, <1>2, NatInd
<1> QED
  BY <1>3

\* Nth counts the places off, in order.
LEMMA NthPlace ==
  ASSUME NEW n \in Nat, NEW places \in SUBSET (1 .. n)
  PROVE  /\ Cardinality(places) \in 0 .. n
         /\ \A k \in 1 .. Cardinality(places) : Nth(places, k) \in places /\ Count(places, Nth(places, k)) = k
         /\ \A i \in places : Count(places, i) \in 1 .. Cardinality(places) /\ Nth(places, Count(places, i)) = i
<1>1. Cardinality(places) \in 0 .. n
  BY PositionSets
<1>2. ASSUME NEW i \in places, NEW j \in places, i < j
      PROVE  Count(places, i) < Count(places, j)
  <2>1. i \in 0 .. n /\ j - 1 \in 0 .. n /\ i <= j - 1 /\ j \in 1 .. n
    BY <1>2
  <2>2. Count(places, i) <= Count(places, j - 1)
    BY <2>1, CountGrows
  <2>3. Count(places, j) = Count(places, j - 1) + 1
    BY <2>1, CountStep
  <2>4. Count(places, i) \in Nat /\ Count(places, j - 1) \in Nat
    BY <2>1, CountStep
  <2> QED BY <2>2, <2>3, <2>4
<1>3. ASSUME NEW i \in places, NEW j \in places, Count(places, i) = Count(places, j) PROVE i = j
  <2>1. i \in 0 .. n /\ j \in 0 .. n
    OBVIOUS
  <2>2. ~ (i < j) /\ ~ (j < i)
    <3>1. Count(places, i) \in Nat /\ Count(places, j) \in Nat
      BY <2>1, CountStep
    <3> QED BY <1>2, <1>3, <3>1
  <2> QED BY <2>1, <2>2
<1> DEFINE S == {i \in Nat : i <= n => \A k \in 1 .. Count(places, i) : \E j \in places : Count(places, j) = k}
<1>4. n \in S
  <2>1. 0 \in S
    BY CountStep
  <2>2. ASSUME NEW i \in Nat, i \in S PROVE i + 1 \in S
    <3>1. SUFFICES ASSUME i + 1 <= n, NEW k \in 1 .. Count(places, i + 1)
                   PROVE  \E j \in places : Count(places, j) = k
      OBVIOUS
    <3>2. /\ Count(places, i + 1) = Count(places, i) + (IF i + 1 \in places THEN 1 ELSE 0)
          /\ Count(places, i) \in Nat
      <4>1. (i + 1) - 1 = i /\ i + 1 \in 1 .. n /\ i \in 0 .. n
        BY <3>1
      <4>2. /\ \A m \in 1 .. n : Count(places, m) = Count(places, m - 1) + (IF m \in places THEN 1 ELSE 0)
            /\ \A m \in 0 .. n : Count(places, m) \in Nat
        BY CountStep
      <4>3. Count(places, i + 1) = Count(places, (i + 1) - 1) + (IF i + 1 \in places THEN 1 ELSE 0)
        BY <4>1, <4>2
      <4> QED BY <4>1, <4>2, <4>3
    <3>3. CASE k <= Count(places, i)
      BY <2>2, <3>1, <3>2, <3>3
    <3>4. CASE k > Count(places, i)
      <4>1. i + 1 \in places /\ k = Count(places, i + 1)
        BY <3>2, <3>4
      <4> QED BY <4>1
    <3> QED BY <3>2, <3>3, <3>4
  <2> HIDE DEF S
  <2> QED BY <2>1, <2>2, NatInd
<1>5. ASSUME NEW k \in 1 .. Cardinality(places)
      PROVE  Nth(places, k) \in places /\ Count(places, Nth(places, k)) = k
  <2>1. \E j \in places : Count(places, j) = k
    BY <1>4, CountStep
  <2> QED BY <2>1 DEF Nth, Count
<1>6. ASSUME NEW i \in places
      PROVE  Count(places, i) \in 1 .. Cardinality(places) /\ Nth(places, Count(places, i)) = i
  <2>1. Count(places, i) \in 1 .. Cardinality(places)
    <3>1. i \in 1 .. n /\ i \in 0 .. n /\ i - 1 \in 0 .. n /\ n \in 0 .. n /\ i <= n
      OBVIOUS
    <3>2. Count(places, i) = Count(places, i - 1) + 1 /\ Count(places, i - 1) \in Nat
      BY <3>1, CountStep
    <3>3. Count(places, i) <= Count(places, n) /\ Count(places, n) = Cardinality(places)
      BY <3>1, CountGrows, CountStep
    <3> QED BY <3>2, <3>3, <1>1
  <2>2. Nth(places, Count(places, i)) \in places
        /\ Count(places, Nth(places, Count(places, i))) = Count(places, i)
    BY <1>5, <2>1
  <2> QED BY <1>3, <2>1, <2>2
<1> QED
  BY <1>1, <1>5, <1>6

\* A later element of a filtered list was a later one of the list.
LEMMA NthOrder ==
  ASSUME NEW n \in Nat, NEW places \in SUBSET (1 .. n),
         NEW k \in 1 .. Cardinality(places), NEW m \in 1 .. Cardinality(places), k < m
  PROVE  Nth(places, k) < Nth(places, m)
<1>1. /\ Nth(places, k) \in places /\ Count(places, Nth(places, k)) = k
      /\ Nth(places, m) \in places /\ Count(places, Nth(places, m)) = m
  BY NthPlace
<1>2. Cardinality(places) \in 0 .. n
  BY NthPlace
<1>3. Nth(places, k) \in 0 .. n /\ Nth(places, m) \in 0 .. n
  <2>1. \A j \in places : j \in 0 .. n
    OBVIOUS
  <2> QED BY <1>1, <2>1
<1>4. SUFFICES ASSUME Nth(places, m) <= Nth(places, k) PROVE FALSE
  BY <1>3
<1>5. Count(places, Nth(places, m)) <= Count(places, Nth(places, k))
  BY <1>3, <1>4, CountGrows
<1> QED BY <1>1, <1>2, <1>5

\* A finite set can be arranged.
LEMMA Arrangement ==
  ASSUME NEW S, IsFiniteSet(S)
  PROVE  Cardinality(S) \in Nat /\ Bijection(1 .. Cardinality(S), S) # {}
  BY FS_CardinalityType DEF ExistsBijection

\* A list of numbers that is not empty has a greatest one.
LEMMA Greatest ==
  ASSUME NEW n \in Nat, n > 0, NEW f, \A i \in 1 .. n : f[i] \in Int
  PROVE  \E k \in 1 .. n : \A i \in 1 .. n : f[k] >= f[i]
<1> DEFINE S == {m \in Nat : m + 1 <= n => \E k \in 1 .. m + 1 : \A i \in 1 .. m + 1 : f[k] >= f[i]}
<1>1. 0 \in S
  <2>1. 1 \in 1 .. n /\ f[1] >= f[1]
    OBVIOUS
  <2>2. \A i \in 1 .. 0 + 1 : i = 1
    OBVIOUS
  <2> QED BY <2>1, <2>2
<1>2. ASSUME NEW m \in Nat, m \in S PROVE m + 1 \in S
  <2>1. SUFFICES ASSUME (m + 1) + 1 <= n
                 PROVE  \E k \in 1 .. (m + 1) + 1 : \A i \in 1 .. (m + 1) + 1 : f[k] >= f[i]
    OBVIOUS
  <2>2. PICK k \in 1 .. m + 1 : \A i \in 1 .. m + 1 : f[k] >= f[i]
    BY <1>2, <2>1
  <2>3. /\ \A i \in 1 .. (m + 1) + 1 : i \in 1 .. n /\ (i \in 1 .. m + 1 \/ i = (m + 1) + 1)
        /\ k \in 1 .. (m + 1) + 1 /\ k \in 1 .. n /\ (m + 1) + 1 \in 1 .. (m + 1) + 1
    BY <2>1
  <2>4. CASE f[k] >= f[(m + 1) + 1]
    BY <2>2, <2>3, <2>4
  <2>5. CASE ~ (f[k] >= f[(m + 1) + 1])
    <3>1. \A i \in 1 .. (m + 1) + 1 : f[(m + 1) + 1] >= f[i]
      <4>1. f[k] \in Int /\ f[(m + 1) + 1] \in Int /\ \A i \in 1 .. (m + 1) + 1 : f[i] \in Int
        BY <2>3
      <4> QED BY <2>2, <2>3, <2>5, <4>1
    <3> QED BY <2>3, <3>1
  <2> QED BY <2>4, <2>5
<1>3. n - 1 \in Nat /\ n - 1 \in S /\ (n - 1) + 1 = n
  <2>1. Nat \subseteq S
    <3> HIDE DEF S
    <3> QED BY <1>1, <1>2, NatInd
  <2> HIDE DEF S
  <2> QED BY <2>1
<1> QED BY <1>3

-----------------------------------------------------------------------------
(* Lists of lists. *)

\* The places in the first m lists.
Places(ss, m) == UNION {{i} \X DOMAIN ss[i] : i \in 1 .. m}

\* flat has what is at these places, each once, and at says where it is from.
IsListing(at, flat, ss, m) ==
  /\ IsList(flat) /\ DOMAIN at = DOMAIN flat /\ IsInjective(at) /\ Range(at) = Places(ss, m)
  /\ \A k \in DOMAIN flat : flat[k] = ss[at[k][1]][at[k][2]]

\* How FlattenSeq is defined.
IsFlatten(f, ss, n) == f = [i \in 1 .. n |-> IF i = 1 THEN ss[i] ELSE f[i - 1] \o ss[i]]

\* One list more.
LEMMA ListingStep ==
  ASSUME NEW ss, NEW m \in Nat, NEW flat, NEW at, IsListing(at, flat, ss, m), IsList(ss[m + 1])
  PROVE  \E new : IsListing(new, flat \o ss[m + 1], ss, m + 1)
<1> DEFINE t == ss[m + 1]
           all == flat \o t
           new == [k \in 1 .. Len(flat) + Len(t) |-> IF k <= Len(flat) THEN at[k] ELSE <<m + 1, k - Len(flat)>>]
<1>1. /\ IsList(flat) /\ Len(flat) \in Nat /\ DOMAIN flat = 1 .. Len(flat)
      /\ IsList(t) /\ Len(t) \in Nat /\ DOMAIN t = 1 .. Len(t)
  BY ListParts DEF IsListing
<1>2. /\ IsList(all) /\ Len(all) = Len(flat) + Len(t) /\ DOMAIN all = 1 .. Len(flat) + Len(t)
      /\ \A i \in 1 .. Len(flat) : all[i] = flat[i]
      /\ \A i \in Len(flat) + 1 .. Len(flat) + Len(t) : all[i] = t[i - Len(flat)]
  <2> HIDE DEF t
  <2>1. /\ IsList(all) /\ Len(all) = Len(flat) + Len(t)
        /\ \A i \in 1 .. Len(flat) : all[i] = flat[i]
        /\ \A i \in Len(flat) + 1 .. Len(flat) + Len(t) : all[i] = t[i - Len(flat)]
    BY <1>1, ListConcat
  <2> HIDE DEF all
  <2>2. DOMAIN all = 1 .. Len(all)
    BY <2>1, ListParts
  <2> QED BY <2>1, <2>2
<1>3. /\ DOMAIN at = 1 .. Len(flat) /\ IsInjective(at) /\ Range(at) = Places(ss, m)
      /\ \A k \in 1 .. Len(flat) : flat[k] = ss[at[k][1]][at[k][2]]
  BY <1>1 DEF IsListing
<1>4. \A k \in 1 .. Len(flat) : \E i \in 1 .. m : \E j \in DOMAIN ss[i] : at[k] = <<i, j>>
  <2>1. \A k \in 1 .. Len(flat) : at[k] \in Places(ss, m)
    BY <1>3 DEF Range
  <2> QED BY <2>1 DEF Places
<1>5. /\ \A k \in 1 .. Len(flat) : k \in DOMAIN new /\ new[k] = at[k]
      /\ \A k \in Len(flat) + 1 .. Len(flat) + Len(t) : new[k] = <<m + 1, k - Len(flat)>> /\ k - Len(flat) \in 1 .. Len(t)
      /\ DOMAIN new = 1 .. Len(flat) + Len(t)
      /\ \A k \in 1 .. Len(flat) + Len(t) : k \in 1 .. Len(flat) \/ k \in Len(flat) + 1 .. Len(flat) + Len(t)
  <2> HIDE DEF t
  <2> QED BY <1>1
<1> HIDE DEF new
<1>6. IsInjective(new)
  <2>1. SUFFICES ASSUME NEW a \in 1 .. Len(flat) + Len(t), NEW b \in 1 .. Len(flat) + Len(t), new[a] = new[b]
                 PROVE  a = b
    BY <1>5 DEF IsInjective
  <2>2. CASE a \in 1 .. Len(flat) /\ b \in 1 .. Len(flat)
    BY <1>3, <1>5, <2>1, <2>2 DEF IsInjective
  <2>3. CASE a \in Len(flat) + 1 .. Len(flat) + Len(t) /\ b \in Len(flat) + 1 .. Len(flat) + Len(t)
    <3>1. a - Len(flat) = b - Len(flat)
      BY <1>5, <2>1, <2>3
    <3> QED BY <1>1, <2>3, <3>1
  <2>4. \A k \in 1 .. Len(flat) : new[k][1] \in 1 .. m
    BY <1>4, <1>5
  <2>5. \A k \in Len(flat) + 1 .. Len(flat) + Len(t) : new[k][1] = m + 1
    BY <1>5
  <2>6. m + 1 \notin 1 .. m
    OBVIOUS
  <2> QED BY <1>5, <2>1, <2>2, <2>3, <2>4, <2>5, <2>6
<1>7. Range(new) = Places(ss, m + 1)
  <2>1. Places(ss, m + 1) = Places(ss, m) \cup ({m + 1} \X DOMAIN t)
    <3>1. 1 .. m + 1 = (1 .. m) \cup {m + 1}
      OBVIOUS
    <3> QED BY <3>1 DEF Places
  <2>2. ASSUME NEW k \in 1 .. Len(flat) + Len(t) PROVE new[k] \in Places(ss, m + 1)
    <3>1. CASE k \in 1 .. Len(flat)
      BY <1>3, <1>5, <2>1, <3>1 DEF Range
    <3>2. CASE k \in Len(flat) + 1 .. Len(flat) + Len(t)
      <4>1. new[k] = <<m + 1, k - Len(flat)>> /\ k - Len(flat) \in DOMAIN t
        BY <1>1, <1>5, <3>2
      <4> HIDE DEF t
      <4> QED BY <2>1, <4>1
    <3> QED BY <1>5, <3>1, <3>2
  <2>3. ASSUME NEW x \in Places(ss, m + 1) PROVE \E k \in 1 .. Len(flat) + Len(t) : new[k] = x
    <3>1. CASE x \in Places(ss, m)
      <4>1. PICK k \in 1 .. Len(flat) : at[k] = x
        BY <1>3, <3>1 DEF Range
      <4> QED BY <1>1, <1>5, <4>1
    <3>2. CASE x \in {m + 1} \X DOMAIN t
      <4>1. PICK j \in 1 .. Len(t) : x = <<m + 1, j>>
        BY <1>1, <3>2
      <4>2. j + Len(flat) \in Len(flat) + 1 .. Len(flat) + Len(t) /\ (j + Len(flat)) - Len(flat) = j
            /\ j + Len(flat) \in 1 .. Len(flat) + Len(t)
        BY <1>1
      <4>3. new[j + Len(flat)] = <<m + 1, (j + Len(flat)) - Len(flat)>>
        BY <1>5, <4>2
      <4> QED BY <4>1, <4>2, <4>3
    <3> QED BY <2>1, <3>1, <3>2
  <2> QED BY <1>5, <2>2, <2>3 DEF Range
<1>8. \A k \in DOMAIN all : all[k] = ss[new[k][1]][new[k][2]]
  <2>1. ASSUME NEW k \in 1 .. Len(flat) PROVE all[k] = ss[new[k][1]][new[k][2]]
    BY <1>2, <1>3, <1>5
  <2>2. ASSUME NEW k \in Len(flat) + 1 .. Len(flat) + Len(t) PROVE all[k] = ss[new[k][1]][new[k][2]]
    BY <1>2, <1>5
  <2> QED BY <1>2, <1>5, <2>1, <2>2
<1>9. IsListing(new, all, ss, m + 1)
  <2> HIDE DEF all
  <2> QED BY <1>2, <1>5, <1>6, <1>7, <1>8 DEF IsListing
<1> QED BY <1>9

\* FlattenSeq lists what is in its lists.
THEOREM Flattened ==
  ASSUME NEW ss, IsList(ss), \A i \in DOMAIN ss : IsList(ss[i])
  PROVE  \E at : IsListing(at, FlattenSeq(ss), ss, Len(ss))
<1> DEFINE n == Len(ss)
<1>1. n \in Nat /\ DOMAIN ss = 1 .. n
  BY ListParts
<1>2. CASE n = 0
  <2>1. ss = <<>> /\ FlattenSeq(ss) = ss
    BY <1>2, EmptyIs DEF FlattenSeq
  <2>2. IsListing(<<>>, ss, ss, 0)
    <3>1. Places(ss, 0) = {}
      BY DEF Places
    <3> QED BY <1>1, <1>2, <2>1, <3>1 DEF IsListing, IsInjective, Range
  <2> QED BY <1>2, <2>1, <2>2
<1>3. CASE n > 0
  <2> DEFINE Ok(m, f) == DOMAIN f = 1 .. n /\ f[1] = ss[1] /\ \A i \in 2 .. m : f[i] = f[i - 1] \o ss[i]
             S == {m \in Nat : m + 1 <= n => \E f : Ok(m + 1, f)}
  <2>1. 0 \in S
    <3>1. Ok(0 + 1, [i \in 1 .. n |-> ss[1]])
      BY <1>1, <1>3
    <3>2. \E f : Ok(0 + 1, f)
      <4> HIDE DEF Ok
      <4> QED BY <3>1
    <3> HIDE DEF Ok
    <3> QED BY <3>2
  <2>2. ASSUME NEW m \in Nat, m \in S PROVE m + 1 \in S
    <3>1. SUFFICES ASSUME (m + 1) + 1 <= n PROVE \E f : Ok((m + 1) + 1, f)
      <4> HIDE DEF Ok
      <4> QED OBVIOUS
    <3>2. PICK f : Ok(m + 1, f)
      <4>1. m + 1 <= n
        BY <1>1, <3>1
      <4> HIDE DEF Ok
      <4> QED BY <2>2, <4>1
    <3> DEFINE g == [i \in 1 .. n |-> IF i = (m + 1) + 1 THEN f[m + 1] \o ss[(m + 1) + 1] ELSE f[i]]
    <3>3. Ok((m + 1) + 1, g)
      <4>0. 1 \in 1 .. n /\ 1 # (m + 1) + 1 /\ (m + 1) + 1 \in 1 .. n
        BY <1>1, <3>1
      <4>1. DOMAIN g = 1 .. n /\ g[1] = ss[1]
        BY <3>2, <4>0
      <4>2. \A i \in 1 .. m + 1 : g[i] = f[i]
        BY <1>1, <3>1, <3>2
      <4>3. g[(m + 1) + 1] = f[m + 1] \o ss[(m + 1) + 1]
        BY <4>0
      <4>4. \A i \in 2 .. m + 1 : g[i] = g[i - 1] \o ss[i]
        <5>1. \A i \in 2 .. m + 1 : i \in 1 .. m + 1 /\ i - 1 \in 1 .. m + 1
          OBVIOUS
        <5>2. \A i \in 2 .. m + 1 : f[i] = f[i - 1] \o ss[i]
          BY <3>2
        <5> HIDE DEF g, Ok
        <5> QED BY <4>2, <5>1, <5>2
      <4> HIDE DEF g
      <4>5. \A i \in 2 .. (m + 1) + 1 : i \in 2 .. m + 1 \/ i = (m + 1) + 1
        OBVIOUS
      <4>6. g[(m + 1) + 1] = g[((m + 1) + 1) - 1] \o ss[(m + 1) + 1]
        <5>1. ((m + 1) + 1) - 1 = m + 1 /\ m + 1 \in 1 .. m + 1
          OBVIOUS
        <5> QED BY <4>2, <4>3, <5>1
      <4> QED BY <4>1, <4>4, <4>5, <4>6
    <3>4. \E h : Ok((m + 1) + 1, h)
      <4> HIDE DEF Ok
      <4> QED BY <3>3
    <3> HIDE DEF Ok
    <3> QED BY <3>4
  <2>3. \E f : Ok(n, f)
    <3>1. n - 1 \in Nat /\ (n - 1) + 1 = n
      BY <1>1, <1>3
    <3>2. n - 1 \in S
      <4>1. Nat \subseteq S
        <5> HIDE DEF S
        <5> QED BY <2>1, <2>2, NatInd
      <4> HIDE DEF S
      <4> QED BY <3>1, <4>1
    <3> HIDE DEF Ok
    <3> QED BY <1>1, <3>1, <3>2
  <2>4. \E f : IsFlatten(f, ss, n)
    <3>1. PICK f : Ok(n, f)
      <4> HIDE DEF Ok
      <4> QED BY <2>3
    <3> DEFINE g == [i \in 1 .. n |-> f[i]]
    <3>2. IsFlatten(g, ss, n)
      <4>1. \A i \in 1 .. n : g[i] = IF i = 1 THEN ss[i] ELSE g[i - 1] \o ss[i]
        <5>1. ASSUME NEW i \in 1 .. n, i # 1 PROVE i \in 2 .. n /\ i - 1 \in 1 .. n
          BY <1>1, <5>1
        <5> QED BY <3>1, <5>1
      <4>2. g = [i \in 1 .. n |-> g[i]]
        OBVIOUS
      <4> HIDE DEF g
      <4> QED BY <4>1, <4>2 DEF IsFlatten
    <3> HIDE DEF g
    <3> QED BY <3>2
  <2> DEFINE flatten == CHOOSE f : IsFlatten(f, ss, n)
  <2>5. IsFlatten(flatten, ss, n) /\ FlattenSeq(ss) = flatten[n]
    <3>1. IsFlatten(flatten, ss, n)
      BY <2>4
    <3>2. FlattenSeq(ss) = flatten[n]
      BY <1>1, <1>3 DEF FlattenSeq, IsFlatten
    <3> QED BY <3>1, <3>2
  <2> HIDE DEF flatten
  <2>6. \A i \in 1 .. n : flatten[i] = IF i = 1 THEN ss[i] ELSE flatten[i - 1] \o ss[i]
    BY <2>5 DEF IsFlatten
  <2> DEFINE Q(m) == \E at : IsListing(at, flatten[m], ss, m)
             T == {m \in Nat : m + 1 <= n => Q(m + 1)}
  <2>7. 0 \in T
    <3> DEFINE at == [j \in DOMAIN ss[1] |-> <<1, j>>]
    <3>1. flatten[1] = ss[1] /\ IsList(ss[1])
      BY <1>1, <1>3, <2>6
    <3>2. Places(ss, 1) = {1} \X DOMAIN ss[1]
      <4>1. 1 .. 1 = {1}
        OBVIOUS
      <4> QED BY <4>1 DEF Places
    <3>3. IsListing(at, ss[1], ss, 1)
      <4>1. IsInjective(at) /\ DOMAIN at = DOMAIN ss[1]
        BY DEF IsInjective
      <4>2. Range(at) = Places(ss, 1)
        <5>1. \A j \in DOMAIN at : at[j] \in {1} \X DOMAIN ss[1]
          OBVIOUS
        <5>2. \A x \in {1} \X DOMAIN ss[1] : \E j \in DOMAIN at : at[j] = x
          OBVIOUS
        <5> HIDE DEF at
        <5> QED BY <3>2, <5>1, <5>2 DEF Range
      <4> QED BY <3>1, <4>1, <4>2 DEF IsListing
    <3>4. Q(0 + 1)
      <4> HIDE DEF at
      <4> QED BY <3>1, <3>3
    <3> HIDE DEF Q
    <3> QED BY <3>4
  <2>8. ASSUME NEW m \in Nat, m \in T PROVE m + 1 \in T
    <3>1. SUFFICES ASSUME (m + 1) + 1 <= n PROVE Q((m + 1) + 1)
      <4> HIDE DEF Q
      <4> QED OBVIOUS
    <3>2. m + 1 <= n /\ m + 1 \in Nat /\ (m + 1) + 1 \in 1 .. n /\ (m + 1) + 1 # 1 /\ ((m + 1) + 1) - 1 = m + 1
      BY <1>1, <3>1
    <3>3. Q(m + 1)
      <4> HIDE DEF Q
      <4> QED BY <2>8, <3>2
    <3>4. PICK at : IsListing(at, flatten[m + 1], ss, m + 1)
      BY <3>3
    <3>5. flatten[(m + 1) + 1] = flatten[m + 1] \o ss[(m + 1) + 1] /\ IsList(ss[(m + 1) + 1])
      BY <1>1, <2>6, <3>2
    <3>6. \E new : IsListing(new, flatten[m + 1] \o ss[(m + 1) + 1], ss, (m + 1) + 1)
      BY <3>2, <3>4, <3>5, ListingStep
    <3> QED BY <3>5, <3>6
  <2>9. Q(n)
    <3>1. Nat \subseteq T
      <4> HIDE DEF T
      <4> QED BY <2>7, <2>8, NatInd
    <3>2. n - 1 \in Nat /\ (n - 1) + 1 = n /\ n - 1 \in T
      <4>1. n - 1 \in Nat /\ (n - 1) + 1 = n
        BY <1>1, <1>3
      <4> HIDE DEF T
      <4> QED BY <3>1, <4>1
    <3> HIDE DEF Q
    <3> QED BY <1>1, <3>2
  <2> QED BY <2>5, <2>9
<1> QED BY <1>1, <1>2, <1>3

-----------------------------------------------------------------------------
(* Short lists, arranged lists, parts of lists. *)

\* Short lists.
LEMMA Short ==
  ASSUME NEW x, NEW y
  PROVE  /\ IsList(<<>>) /\ IsList(<<x>>) /\ IsList(<<x, y>>)
         /\ Len(<<>>) = 0 /\ Len(<<x>>) = 1 /\ Len(<<x, y>>) = 2
         /\ DOMAIN <<x>> = 1 .. 1 /\ DOMAIN <<x, y>> = 1 .. 2
         /\ Append(<<>>, x) = <<x>> /\ Append(<<x>>, y) = <<x, y>>
<1> DEFINE S == {x, y}
<1>1. <<>> \in Seq(S) /\ <<x>> \in Seq(S) /\ <<x, y>> \in Seq(S)
  OBVIOUS
<1>2. Len(<<>>) = 0 /\ Len(<<x>>) = 1 /\ Len(<<x, y>>) = 2 /\ DOMAIN <<x>> = 1 .. 1 /\ DOMAIN <<x, y>> = 1 .. 2
  OBVIOUS
<1>3. IsList(<<>>) /\ IsList(<<x>>) /\ IsList(<<x, y>>)
  BY <1>1, SeqList
<1>4. Append(<<>>, x) = <<x>>
  <2> DEFINE e == <<>>
  <2>1. IsList(e) /\ Len(e) = 0 BY <1>2, <1>3
  <2> HIDE DEF e
  <2>2. IsList(Append(e, x)) /\ Len(Append(e, x)) = 1 /\ Append(e, x)[1] = x
    <3>1. /\ IsList(Append(e, x)) /\ Len(Append(e, x)) = Len(e) + 1
          /\ \A i \in 1 .. Len(e) : Append(e, x)[i] = e[i]
          /\ Append(e, x)[Len(e) + 1] = x
      BY <2>1, ListAppend
    <3>2. Len(e) + 1 = 1
      BY <2>1
    <3> QED BY <2>1, <3>1, <3>2
  <2>3. \A i \in 1 .. 1 : Append(e, x)[i] = <<x>>[i]
    BY <2>2
  <2>4. Append(e, x) = <<x>>
    BY <1>2, <1>3, <2>2, <2>3, ListEqual
  <2> QED BY <2>4 DEF e
<1>5. Append(<<x>>, y) = <<x, y>>
  <2> DEFINE e == <<x>>
  <2>1. IsList(e) /\ Len(e) = 1 /\ e[1] = x BY <1>2, <1>3
  <2> HIDE DEF e
  <2>2. IsList(Append(e, y)) /\ Len(Append(e, y)) = 2 /\ Append(e, y)[1] = x /\ Append(e, y)[2] = y
    <3>1. /\ IsList(Append(e, y)) /\ Len(Append(e, y)) = Len(e) + 1
          /\ \A i \in 1 .. Len(e) : Append(e, y)[i] = e[i]
          /\ Append(e, y)[Len(e) + 1] = y
      BY <2>1, ListAppend
    <3>2. Len(e) + 1 = 2
      BY <2>1
    <3> QED BY <2>1, <3>1, <3>2
  <2>3. \A i \in 1 .. 2 : Append(e, y)[i] = <<x, y>>[i]
    BY <2>2
  <2>4. Append(e, y) = <<x, y>>
    BY <1>2, <1>3, <2>2, <2>3, ListEqual
  <2> QED BY <2>4 DEF e
<1> QED BY <1>2, <1>3, <1>4, <1>5

\* t is s in another order.
IsArrangement(at, s, t) == at \in Bijection(DOMAIN s, DOMAIN s) /\ t = [k \in DOMAIN s |-> s[at[k]]]

\* What an arrangement keeps.
LEMMA ArrangementParts ==
  ASSUME NEW at, NEW s, NEW t, IsList(s), IsArrangement(at, s, t)
  PROVE  /\ IsList(t) /\ Len(t) = Len(s) /\ DOMAIN t = DOMAIN s /\ DOMAIN s = 1 .. Len(s) /\ Len(s) \in Nat
         /\ \A k \in DOMAIN s : at[k] \in DOMAIN s /\ t[k] = s[at[k]]
         /\ \A j, k \in DOMAIN s : at[j] = at[k] => j = k
         /\ \A i \in DOMAIN s : \E k \in DOMAIN s : at[k] = i
<1>1. Len(s) \in Nat /\ DOMAIN s = 1 .. Len(s)
  BY ListParts
<1>2. /\ \A k \in DOMAIN s : at[k] \in DOMAIN s /\ t[k] = s[at[k]]
      /\ DOMAIN t = DOMAIN s
  BY DEF IsArrangement, Bijection, Injection
<1>3. \A j, k \in DOMAIN s : at[j] = at[k] => j = k
  BY DEF IsArrangement, Bijection, Injection, IsInjective
<1>4. \A i \in DOMAIN s : \E k \in DOMAIN s : at[k] = i
  BY DEF IsArrangement, Bijection, Surjection
<1>5. t = [k \in 1 .. Len(s) |-> t[k]]
  BY <1>1 DEF IsArrangement
<1> QED BY <1>1, <1>2, <1>3, <1>4, <1>5, ListOf

\* s has each element of S once.
IsListOf(s, S) == IsList(s) /\ IsInjective(s) /\ ToSet(s) = S

\* A bijection from the first numbers is a list of its range.
LEMMA BijectionLists ==
  ASSUME NEW S, IsFiniteSet(S), NEW s, s \in Bijection(1 .. Cardinality(S), S)
  PROVE  IsListOf(s, S) /\ Len(s) = Cardinality(S)
<1>1. Cardinality(S) \in Nat
  BY FS_CardinalityType
<1>2. s = [i \in 1 .. Cardinality(S) |-> s[i]] /\ IsInjective(s) /\ (\A i \in 1 .. Cardinality(S) : s[i] \in S)
      /\ \A x \in S : \E i \in 1 .. Cardinality(S) : s[i] = x
  BY DEF Bijection, Injection, Surjection
<1>3. IsList(s) /\ Len(s) = Cardinality(S) /\ DOMAIN s = 1 .. Cardinality(S)
  BY <1>1, <1>2, ListOf
<1>4. ToSet(s) = S
  BY <1>2, <1>3 DEF ToSet
<1> QED BY <1>2, <1>3, <1>4 DEF IsListOf

\* What a finite set is mapped to is finite.
LEMMA ImageFinite ==
  ASSUME NEW h, IsFiniteSet(DOMAIN h)
  PROVE  IsFiniteSet(Range(h))
<1> DEFINE g == [x \in DOMAIN h |-> h[x]]
<1>1. g \in Surjection(DOMAIN h, Range(h))
  BY DEF Surjection, Range
<1> QED BY <1>1, FS_Surjection

\* Two are two.
LEMMA TwoAtLeast ==
  ASSUME NEW S, IsFiniteSet(S)
  PROVE  Cardinality(S) >= 2 <=> \E a, b \in S : a # b
<1>0. Cardinality(S) \in Nat
  BY FS_CardinalityType
<1>1. ASSUME NEW a \in S, NEW b \in S, a # b PROVE Cardinality(S) >= 2
  <2>1. IsFiniteSet({a}) /\ Cardinality({a}) = 1
    BY FS_Singleton
  <2>2. PICK T : T = {a} \cup {b}
    OBVIOUS
  <2>3. IsFiniteSet(T) /\ Cardinality(T) = 2
    BY <1>1, <2>1, <2>2, FS_AddElement
  <2>4. T \in SUBSET S
    BY <2>2
  <2>5. Cardinality(T) <= Cardinality(S)
    BY <2>4, FS_Subset
  <2> QED BY <1>0, <2>3, <2>5
<1>2. ASSUME Cardinality(S) >= 2, \A a, b \in S : a = b PROVE FALSE
  <2>1. CASE S = {}
    BY <1>2, <2>1, FS_EmptySet
  <2>2. CASE S # {}
    <3>1. PICK d \in S : S = {d}
      BY <1>2, <2>2
    <3> QED BY <1>2, <3>1, FS_Singleton
  <2> QED BY <2>1, <2>2
<1> QED BY <1>1, <1>2

\* The part of a path below a folder above it.
LEMMA RelIs ==
  ASSUME NEW path, IsList(path), NEW dir, IsList(dir), Len(dir) < Len(path),
         \A i \in 1 .. Len(dir) : dir[i] = path[i]
  PROVE  LET rel == SubSeq(path, Len(dir) + 1, Len(path))
         IN IsList(rel) /\ rel # <<>> /\ Len(rel) = Len(path) - Len(dir) /\ dir \o rel = path /\ Last(rel) = Last(path)
            /\ \A i \in 1 .. Len(rel) : rel[i] = path[Len(dir) + i]
<1> DEFINE rel == SubSeq(path, Len(dir) + 1, Len(path))
<1>0. PICK m, n : m = Len(dir) /\ n = Len(path)
  OBVIOUS
<1>1. m \in Nat /\ n \in Nat /\ m < n /\ m + 1 \in Nat \ {0} /\ n <= Len(path) /\ m + 1 <= n + 1 /\ n + 1 - (m + 1) = n - m
      /\ n - m \in Nat \ {0} /\ \A i \in 1 .. n - m : (m + 1) + i - 1 = m + i
  <2>1. m \in Nat /\ n \in Nat /\ m < n
    BY <1>0, ListParts
  <2> QED BY <1>0, <2>1
<1>2. /\ IsList(rel) /\ Len(rel) = n - m /\ \A i \in 1 .. n - m : rel[i] = path[m + i]
  <2>1. /\ IsList(SubSeq(path, m + 1, n)) /\ Len(SubSeq(path, m + 1, n)) = n + 1 - (m + 1)
        /\ \A i \in 1 .. n + 1 - (m + 1) : SubSeq(path, m + 1, n)[i] = path[(m + 1) + i - 1]
    BY <1>1, ListSub
  <2> QED BY <1>0, <1>1, <2>1
<1> HIDE DEF rel
<1>3. rel # <<>>
  BY <1>1, <1>2, EmptyIs
<1>4. dir \o rel = path
  <2>1. /\ IsList(dir \o rel) /\ Len(dir \o rel) = m + (n - m)
        /\ \A i \in 1 .. m : (dir \o rel)[i] = dir[i]
        /\ \A i \in m + 1 .. m + (n - m) : (dir \o rel)[i] = rel[i - m]
    BY <1>0, <1>2, ListConcat
  <2>2. ASSUME NEW i \in 1 .. n PROVE (dir \o rel)[i] = path[i]
    <3>1. CASE i <= m
      BY <1>0, <1>1, <2>1, <3>1
    <3>2. CASE i > m
      <4>1. PICK k \in 1 .. n - m : k = i - m /\ m + k = i
        <5>1. i - m \in 1 .. n - m /\ m + (i - m) = i
          BY <1>1, <3>2
        <5> QED BY <5>1
      <4>2. i \in m + 1 .. m + (n - m)
        BY <1>1, <3>2
      <4>3. (dir \o rel)[i] = rel[k]
        BY <2>1, <4>1, <4>2
      <4>4. rel[k] = path[i]
        BY <1>2, <4>1
      <4> QED BY <4>3, <4>4
    <3>3. i <= m \/ i > m
      BY <1>1
    <3> QED BY <3>1, <3>2, <3>3
  <2>3. m + (n - m) = n
    BY <1>1
  <2> QED BY <1>0, <2>1, <2>2, <2>3, ListEqual
<1>5. Last(rel) = Last(path)
  <2>1. n - m \in 1 .. n - m /\ m + (n - m) = n
    BY <1>1
  <2> QED BY <1>0, <1>2, <2>1 DEF Last
<1> QED BY <1>0, <1>2, <1>3, <1>4, <1>5 DEF rel

\* A folder that holds a file, or holds the folder that does, is above it.
LEMMA Above ==
  ASSUME NEW path, IsList(path), path # <<>>, NEW dir,
         Front(path) = dir \/ (Front(path) # <<>> /\ IsList(Front(path)) /\ Front(Front(path)) = dir)
  PROVE  /\ IsList(dir) /\ Len(dir) < Len(path) /\ \A i \in 1 .. Len(dir) : dir[i] = path[i]
         /\ Len(path) - Len(dir) \in {1, 2} /\ (Front(path) = dir <=> Len(path) - Len(dir) = 1)
<1>1. /\ IsList(Front(path)) /\ Len(Front(path)) = Len(path) - 1 /\ Len(path) \in Nat \ {0}
      /\ \A i \in 1 .. Len(path) - 1 : Front(path)[i] = path[i]
  BY ListFront
<1>2. CASE Front(path) = dir
  BY <1>1, <1>2
<1>3. CASE Front(path) # dir
  <2> DEFINE up == Front(path)
  <2>1. up # <<>> /\ Front(up) = dir /\ IsList(up)
    BY <1>3
  <2> HIDE DEF up
  <2>2. /\ IsList(dir) /\ Len(dir) = Len(up) - 1 /\ Len(up) \in Nat \ {0}
        /\ \A i \in 1 .. Len(up) - 1 : dir[i] = up[i]
    BY <2>1, ListFront
  <2>3. Len(up) = Len(path) - 1 /\ \A i \in 1 .. Len(path) - 1 : up[i] = path[i]
    BY <1>1 DEF up
  <2> QED BY <1>1, <1>3, <2>2, <2>3
<1> QED BY <1>2, <1>3

\* Where a file is that is one or two names below a folder.
LEMMA FrontIs ==
  ASSUME NEW dir, IsList(dir), NEW rel, IsList(rel)
  PROVE  /\ Len(rel) = 1 => Front(dir \o rel) = dir
         /\ Len(rel) = 2 => LET up == Front(dir \o rel) IN
              up = Append(dir, rel[1]) /\ IsList(up) /\ up # <<>> /\ up # dir /\ Front(up) = dir /\ Last(up) = rel[1]
<1>1. PICK path : path = dir \o rel
  OBVIOUS
<1>2. /\ IsList(path) /\ Len(path) = Len(dir) + Len(rel) /\ Len(dir) \in Nat
      /\ \A i \in 1 .. Len(dir) : path[i] = dir[i]
      /\ \A i \in 1 .. Len(rel) : path[Len(dir) + i] = rel[i]
  BY <1>1, ListConcat, ListParts
<1>3. ASSUME Len(rel) = 1 PROVE Front(path) = dir
  <2>1. path # <<>>
    BY <1>2, <1>3, EmptyIs
  <2>2. IsList(Front(path)) /\ Len(Front(path)) = Len(path) - 1 /\ \A i \in 1 .. Len(path) - 1 : Front(path)[i] = path[i]
    BY <1>2, <2>1, ListFront
  <2>3. Len(path) - 1 = Len(dir)
    BY <1>2, <1>3
  <2> QED BY <1>2, <2>2, <2>3, ListEqual
<1>4. ASSUME Len(rel) = 2
      PROVE  LET up == Front(path) IN
               up = Append(dir, rel[1]) /\ IsList(up) /\ up # <<>> /\ up # dir /\ Front(up) = dir /\ Last(up) = rel[1]
  <2>1. path # <<>>
    BY <1>2, <1>4, EmptyIs
  <2>2. PICK up : up = Front(path)
    OBVIOUS
  <2>3. IsList(up) /\ Len(up) = Len(path) - 1 /\ \A i \in 1 .. Len(path) - 1 : up[i] = path[i]
    BY <1>2, <2>1, <2>2, ListFront
  <2>4. PICK d : d = Append(dir, rel[1])
    OBVIOUS
  <2>5. IsList(d) /\ Len(d) = Len(dir) + 1 /\ (\A i \in 1 .. Len(dir) : d[i] = dir[i]) /\ d[Len(dir) + 1] = rel[1] /\ d # <<>>
    BY <2>4, ListAppend
  <2>6. Len(path) - 1 = Len(dir) + 1 /\ path[Len(dir) + 1] = rel[1]
    BY <1>2, <1>4
  <2>7. \A i \in 1 .. Len(up) : up[i] = d[i]
    <3>1. \A i \in 1 .. Len(dir) + 1 : i \in 1 .. Len(dir) \/ i = Len(dir) + 1
      BY <1>2
    <3> QED BY <1>2, <2>3, <2>5, <2>6, <3>1
  <2>8. up = d
    BY <2>3, <2>5, <2>6, <2>7, ListEqual
  <2>9. IsList(Front(d)) /\ Len(Front(d)) = Len(d) - 1 /\ \A i \in 1 .. Len(d) - 1 : Front(d)[i] = d[i]
    BY <2>5, ListFront
  <2>10. Len(d) - 1 = Len(dir) /\ Len(d) # Len(dir)
    BY <1>2, <2>5
  <2>11. Front(d) = dir
    BY <2>5, <2>9, <2>10, ListEqual
  <2>12. Last(d) = rel[1]
    BY <2>5 DEF Last
  <2> QED BY <2>2, <2>4, <2>5, <2>8, <2>10, <2>11, <2>12
<1> QED BY <1>1, <1>3, <1>4

\* The last name of a path below a folder.
LEMMA LastBelow ==
  ASSUME NEW dir, IsList(dir), NEW rel, IsList(rel), rel # <<>>
  PROVE  IsList(dir \o rel) /\ dir \o rel # <<>> /\ Last(dir \o rel) = Last(rel)
<1>1. Len(dir) \in Nat /\ Len(rel) \in Nat /\ Len(rel) # 0
  BY ListParts, EmptyIs
<1>2. PICK p : p = dir \o rel
  OBVIOUS
<1>3. /\ IsList(p) /\ Len(p) = Len(dir) + Len(rel)
      /\ \A i \in 1 .. Len(rel) : p[Len(dir) + i] = rel[i]
  BY <1>2, ListConcat
<1>4. Len(rel) \in 1 .. Len(rel) /\ Len(p) # 0
  BY <1>1, <1>3
<1>5. p[Len(p)] = rel[Len(rel)]
  BY <1>3, <1>4
<1>6. p # <<>>
  BY <1>3, <1>4, EmptyIs
<1> QED BY <1>2, <1>3, <1>5, <1>6 DEF Last

\* A path of a folder and a name.
LEMMA AppendIs ==
  ASSUME NEW dir, IsList(dir), NEW x
  PROVE  dir \o <<x>> = Append(dir, x)
<1>1. PICK s : s = <<x>>
  OBVIOUS
<1>2. IsList(s) /\ Len(s) = 1 /\ s[1] = x
  BY <1>1, Short
<1>3. /\ IsList(dir \o s) /\ Len(dir \o s) = Len(dir) + 1
      /\ \A i \in 1 .. Len(dir) : (dir \o s)[i] = dir[i]
      /\ (dir \o s)[Len(dir) + 1] = x
  <2>1. /\ IsList(dir \o s) /\ Len(dir \o s) = Len(dir) + Len(s)
        /\ \A i \in 1 .. Len(dir) : (dir \o s)[i] = dir[i]
        /\ \A i \in 1 .. Len(s) : (dir \o s)[Len(dir) + i] = s[i]
    <3>1. IsList(s)
      BY <1>2
    <3> QED BY <3>1, ListConcat
  <2>2. 1 \in 1 .. Len(s)
    BY <1>2
  <2>3. (dir \o s)[Len(dir) + 1] = x
    BY <1>2, <2>1, <2>2
  <2> QED BY <1>2, <2>1, <2>3
<1>4. /\ IsList(Append(dir, x)) /\ Len(Append(dir, x)) = Len(dir) + 1 /\ Len(dir) \in Nat
      /\ \A i \in 1 .. Len(dir) : Append(dir, x)[i] = dir[i]
      /\ Append(dir, x)[Len(dir) + 1] = x
  BY ListAppend
<1>5. PICK a, b : a = dir \o s /\ b = Append(dir, x)
  OBVIOUS
<1>6. ASSUME NEW i \in 1 .. Len(a) PROVE a[i] = b[i]
  <2>1. i \in 1 .. Len(dir) \/ i = Len(dir) + 1
    BY <1>3, <1>4, <1>5
  <2> QED BY <1>3, <1>4, <1>5, <2>1
<1>7. a = b
  BY <1>3, <1>4, <1>5, <1>6, ListEqual
<1> QED BY <1>1, <1>5, <1>7

\* Lists that are not empty.
LEMMA SomeIs ==
  ASSUME NEW x, NEW s, IsList(s), NEW t, IsList(t), t # <<>>
  PROVE  <<x>> # <<>> /\ s \o t # <<>>
<1>1. PICK m \in Nat, n \in Nat : m = Len(s) /\ n = Len(t)
  BY ListParts
<1>2. n # 0
  BY <1>1, EmptyIs
<1>3. Len(s \o t) = m + n /\ m + n # 0
  BY <1>1, <1>2, ListConcat
<1>4. Len(<<>>) = 0 /\ Len(<<x>>) = 1
  BY Short
<1> QED BY <1>3, <1>4

-----------------------------------------------------------------------------
(* What a scan makes of a walk. *)

\* Files found on a walk, each with a path of its own.
IsWalk(W) ==
  /\ IsFiniteSet(W)
  /\ \A f \in W : IsList(f.path) /\ f.path # <<>>
  /\ \A f, g \in W : f.path = g.path => f = g

\* The files of a folder.
Inside(W, dir) == {f \in W : Front(f.path) = dir}

\* A folder's files are listed, whatever their order.
LEMMA InLists ==
  ASSUME NEW W, IsWalk(W), NEW dir
  PROVE  IsListOf(In(W, dir), Inside(W, dir)) /\ Len(In(W, dir)) = Cardinality(Inside(W, dir))
<1> DEFINE S == Inside(W, dir)
<1>1. IsFiniteSet(S)
  <2>1. S \subseteq W
    BY DEF Inside
  <2> QED BY <2>1, FS_Subset DEF IsWalk
<1>2. In(W, dir) \in Bijection(1 .. Cardinality(S), S)
  <2>1. Bijection(1 .. Cardinality(S), S) # {}
    BY <1>1, Arrangement
  <2>2. In(W, dir) = InOrder(S, LAMBDA f, g : PathBefore(f.path, g.path))
    BY DEF In, ByPath, Inside
  <2> HIDE DEF S
  <2> QED BY <2>1, <2>2 DEF InOrder
<1> HIDE DEF S
<1>3. IsListOf(In(W, dir), S) /\ Len(In(W, dir)) = Cardinality(S)
  BY <1>1, <1>2, BijectionLists
<1> QED BY <1>3 DEF S

\* A unit with the files of S, each once.
IsUnit(u, S) ==
  /\ u = [dir |-> u.dir, layout |-> u.layout, files |-> u.files]
  /\ IsList(u.files) /\ S # {}
  /\ \A i, j \in DOMAIN u.files : u.files[i].file = u.files[j].file => i = j
  /\ \A i \in DOMAIN u.files : u.files[i].file \in S
  /\ \A f \in S : \E i \in DOMAIN u.files : u.files[i].file = f
  /\ u.layout = "single" <=> Len(u.files) = 1

\* The files of a unit in the order of their paths.
Ordered(u) == [u EXCEPT !.files = Sort(@, LAMBDA f, g : PathBefore(f.file.path, g.file.path))]

\* The order of its files changes nothing else about a unit.
LEMMA OrderedUnit ==
  ASSUME NEW u, NEW S, IsUnit(u, S)
  PROVE  IsUnit(Ordered(u), S) /\ Ordered(u).dir = u.dir
<1> DEFINE s == u.files
           at == InOrder(DOMAIN s, LAMBDA i, j : PathBefore(s[i].file.path, s[j].file.path))
           t == [k \in DOMAIN s |-> s[at[k]]]
<1>1. DOMAIN s = 1 .. Len(s) /\ Len(s) \in Nat /\ IsFiniteSet(DOMAIN s) /\ Cardinality(DOMAIN s) = Len(s)
  <2>1. DOMAIN s = 1 .. Len(s) /\ Len(s) \in Nat
    BY ListParts DEF IsUnit
  <2> QED BY <2>1, FS_Interval
<1>2. at \in Bijection(DOMAIN s, DOMAIN s)
  <2>1. Bijection(1 .. Cardinality(DOMAIN s), DOMAIN s) # {}
    BY <1>1, Arrangement
  <2>2. at \in Bijection(1 .. Cardinality(DOMAIN s), DOMAIN s)
    <3> HIDE DEF s
    <3> QED BY <2>1 DEF InOrder
  <2> HIDE DEF at, s
  <2> QED BY <1>1, <2>2
<1>3. Ordered(u) = [u EXCEPT !.files = t]
  BY DEF Ordered, Sort
<1> HIDE DEF at
<1>4. /\ \A k \in DOMAIN s : at[k] \in DOMAIN s
      /\ \A j, k \in DOMAIN s : at[j] = at[k] => j = k
      /\ \A i \in DOMAIN s : \E k \in DOMAIN s : at[k] = i
  BY <1>2 DEF Bijection, Injection, Surjection, IsInjective
<1>5. IsList(t) /\ Len(t) = Len(s) /\ DOMAIN t = DOMAIN s /\ \A k \in DOMAIN s : t[k] = s[at[k]]
  <2>1. t = [k \in 1 .. Len(s) |-> t[k]]
    BY <1>1
  <2>2. DOMAIN t = DOMAIN s /\ \A k \in DOMAIN s : t[k] = s[at[k]]
    OBVIOUS
  <2> HIDE DEF t
  <2> QED BY <1>1, <2>1, <2>2, ListOf
<1> HIDE DEF t
<1>6. Ordered(u) = [dir |-> u.dir, layout |-> u.layout, files |-> t]
  BY <1>3 DEF IsUnit
<1>7. IsUnit([dir |-> u.dir, layout |-> u.layout, files |-> t], S)
  <2>0. /\ IsList(s) /\ S # {} /\ (u.layout = "single" <=> Len(s) = 1)
        /\ \A i, j \in DOMAIN s : s[i].file = s[j].file => i = j
        /\ \A i \in DOMAIN s : s[i].file \in S
        /\ \A f \in S : \E i \in DOMAIN s : s[i].file = f
    BY DEF IsUnit
  <2> HIDE DEF s
  <2>1. ASSUME NEW i \in DOMAIN t, NEW j \in DOMAIN t, t[i].file = t[j].file PROVE i = j
    <3>1. s[at[i]].file = s[at[j]].file /\ at[i] \in DOMAIN s /\ at[j] \in DOMAIN s
      BY <1>4, <1>5, <2>1
    <3> QED BY <1>4, <1>5, <2>0, <3>1
  <2>2. ASSUME NEW i \in DOMAIN t PROVE t[i].file \in S
    <3>1. t[i] = s[at[i]] /\ at[i] \in DOMAIN s
      BY <1>4, <1>5
    <3> QED BY <2>0, <3>1
  <2>3. ASSUME NEW f \in S PROVE \E i \in DOMAIN t : t[i].file = f
    <3>1. PICK k \in DOMAIN s : s[k].file = f
      BY <2>0
    <3>2. PICK i \in DOMAIN s : at[i] = k
      BY <1>4
    <3>3. i \in DOMAIN t /\ t[i] = s[k]
      BY <1>5, <3>2
    <3> QED BY <3>1, <3>3
  <2> QED BY <1>5, <2>0, <2>1, <2>2, <2>3 DEF IsUnit
<1> QED BY <1>6, <1>7

\* Numbered files, as they were.
LEMMA Indexed ==
  ASSUME NEW files, IsList(files), NEW index
  PROVE  LET w == WithIndex(files, index)
         IN IsList(w) /\ Len(w) = Len(files) /\ DOMAIN w = DOMAIN files /\ \A i \in DOMAIN files : w[i].file = files[i]
<1> DEFINE w == WithIndex(files, index)
<1>1. DOMAIN files = 1 .. Len(files) /\ Len(files) \in Nat
  BY ListParts
<1>2. DOMAIN w = DOMAIN files /\ (\A i \in DOMAIN files : w[i].file = files[i]) /\ w = [i \in DOMAIN files |-> w[i]]
  BY DEF WithIndex
<1> HIDE DEF w
<1>3. IsList(w) /\ Len(w) = Len(files)
  BY <1>1, <1>2, ListOf
<1> QED BY <1>2, <1>3 DEF w

\* The folders are finitely many, and each has a file.
LEMMA FoldersFinite ==
  ASSUME NEW W, IsWalk(W)
  PROVE  IsFiniteSet(Folders(W)) /\ \A d \in Folders(W) : IsList(d) /\ Inside(W, d) # {}
<1>1. IsFiniteSet(Folders(W))
  <2> DEFINE h == [f \in W |-> Front(f.path)]
  <2>1. IsFiniteSet(Range(h))
    BY ImageFinite DEF IsWalk
  <2>2. Range(h) = Folders(W)
    BY DEF Range, Folders
  <2> QED BY <2>1, <2>2
<1>2. \A d \in Folders(W) : IsList(d) /\ Inside(W, d) # {}
  BY ListFront DEF Folders, Inside, IsWalk
<1> QED BY <1>1, <1>2

\* The unit of a folder.
LEMMA FolderUnit ==
  ASSUME NEW W, IsWalk(W), NEW d \in Folders(W)
  PROVE  IsUnit(UnitForDir(W, d), Inside(W, d)) /\ UnitForDir(W, d).dir = d
<1> DEFINE files == In(W, d)
           w == WithIndex(files, SequenceIndex(files))
           u == UnitForDir(W, d)
<1>1. IsListOf(files, Inside(W, d))
  BY InLists
<1> HIDE DEF files
<1>2. IsList(files) /\ IsInjective(files) /\ ToSet(files) = Inside(W, d)
  BY <1>1 DEF IsListOf
<1>3. IsList(w) /\ Len(w) = Len(files) /\ DOMAIN w = DOMAIN files /\ \A i \in DOMAIN files : w[i].file = files[i]
  BY <1>2, Indexed
<1>4. u = [dir |-> d, layout |-> IF Len(files) = 1 THEN "single" ELSE "multi", files |-> w]
  BY DEF UnitForDir, files
<1> HIDE DEF w, u
<1>5. \A i, j \in DOMAIN w : w[i].file = w[j].file => i = j
  BY <1>2, <1>3 DEF IsInjective
<1>6. \A i \in DOMAIN w : w[i].file \in Inside(W, d)
  BY <1>2, <1>3 DEF ToSet
<1>7. \A f \in Inside(W, d) : \E i \in DOMAIN w : w[i].file = f
  BY <1>2, <1>3 DEF ToSet
<1>8. Inside(W, d) # {}
  BY FoldersFinite
<1>9. u.layout = "single" <=> Len(w) = 1
  BY <1>3, <1>4
<1>10. u.dir = d /\ u.files = w /\ u = [dir |-> u.dir, layout |-> u.layout, files |-> u.files]
  BY <1>4
<1>11. IsUnit(u, Inside(W, d))
  BY <1>3, <1>5, <1>6, <1>7, <1>8, <1>9, <1>10 DEF IsUnit
<1> QED BY <1>10, <1>11 DEF u

\* The files of a folder's discs.
OnDiscs(W, p) == {f \in W : Front(f.path) \in Kids(W, p)}

\* The unit of a folder of discs: at least two files, as there are two discs.
LEMMA DiscsUnit ==
  ASSUME NEW W, IsWalk(W), NEW p \in DiscParents(W)
  PROVE  IsUnit(MergeDiscs(W, p), OnDiscs(W, p)) /\ MergeDiscs(W, p).dir = p
<1> DEFINE K == Kids(W, p)
           kids == InOrder(K, DiscBefore)
           ss == [i \in DOMAIN kids |-> In(W, kids[i])]
           all == FlattenSeq(ss)
           w == WithIndex(all, [i \in DOMAIN all |-> i])
           u == MergeDiscs(W, p)
<1>1. IsFiniteSet(K) /\ K \subseteq Folders(W) /\ \E d1, d2 \in K : d1 # d2
  <2>1. K \subseteq Folders(W)
    BY DEF Kids
  <2>2. IsFiniteSet(K) /\ Cardinality(K) >= 2
    BY <2>1, FoldersFinite, FS_Subset DEF DiscParents
  <2> HIDE DEF K
  <2>3. SUFFICES ASSUME \A d1, d2 \in K : d1 = d2 PROVE FALSE
    BY <2>1, <2>2
  <2>4. CASE K = {}
    BY <2>2, <2>4, FS_EmptySet
  <2>5. CASE K # {}
    <3>1. PICK d \in K : K = {d}
      BY <2>3, <2>5
    <3> QED BY <2>2, <3>1, FS_Singleton
  <2> QED BY <2>4, <2>5
<1>2. IsListOf(kids, K)
  <2>1. kids \in Bijection(1 .. Cardinality(K), K)
    <3>1. Bijection(1 .. Cardinality(K), K) # {}
      BY <1>1, Arrangement
    <3> HIDE DEF K
    <3> QED BY <3>1 DEF InOrder
  <2> HIDE DEF kids, K
  <2> QED BY <1>1, <2>1, BijectionLists
<1> HIDE DEF K, kids
<1>3. IsList(kids) /\ IsInjective(kids) /\ ToSet(kids) = K /\ DOMAIN kids = 1 .. Len(kids) /\ Len(kids) \in Nat
  BY <1>2, ListParts DEF IsListOf
<1>4. IsList(ss) /\ Len(ss) = Len(kids) /\ DOMAIN ss = DOMAIN kids /\ \A i \in DOMAIN kids : ss[i] = In(W, kids[i])
  <2>1. ss = [i \in 1 .. Len(kids) |-> ss[i]] /\ DOMAIN ss = DOMAIN kids /\ \A i \in DOMAIN kids : ss[i] = In(W, kids[i])
    BY <1>3
  <2> HIDE DEF ss
  <2> QED BY <1>3, <2>1, ListOf
<1> HIDE DEF ss
<1>5. \A i \in DOMAIN kids : IsList(ss[i]) /\ IsInjective(ss[i]) /\ ToSet(ss[i]) = Inside(W, kids[i]) /\ kids[i] \in K
  BY <1>3, <1>4, InLists DEF IsListOf, ToSet
<1>6. PICK at : IsListing(at, all, ss, Len(ss))
  BY <1>4, <1>5, Flattened
<1>7. /\ IsList(all) /\ DOMAIN at = DOMAIN all /\ IsInjective(at) /\ Range(at) = Places(ss, Len(ss))
      /\ \A k \in DOMAIN all : all[k] = ss[at[k][1]][at[k][2]]
  <2> HIDE DEF all
  <2> QED BY <1>6 DEF IsListing
<1> HIDE DEF all
<1>8. \A k \in DOMAIN all : \E i \in DOMAIN kids : \E j \in DOMAIN ss[i] : at[k] = <<i, j>>
  BY <1>3, <1>4, <1>7 DEF Places, Range
<1>9. \A i \in DOMAIN kids : \A j \in DOMAIN ss[i] : \E k \in DOMAIN all : at[k] = <<i, j>>
  <2>1. ASSUME NEW i \in DOMAIN kids, NEW j \in DOMAIN ss[i] PROVE \E k \in DOMAIN all : at[k] = <<i, j>>
    <3>1. <<i, j>> \in Places(ss, Len(ss))
      BY <1>3, <1>4 DEF Places
    <3> QED BY <1>7, <3>1 DEF Range
  <2> QED BY <2>1
<1>10. \A k \in DOMAIN all : \E i \in DOMAIN kids : \E j \in DOMAIN ss[i] :
          at[k] = <<i, j>> /\ all[k] = ss[i][j] /\ all[k] \in W /\ Front(all[k].path) = kids[i]
  <2>1. ASSUME NEW k \in DOMAIN all, NEW i \in DOMAIN kids, NEW j \in DOMAIN ss[i], at[k] = <<i, j>>
        PROVE  all[k] = ss[i][j] /\ all[k] \in W /\ Front(all[k].path) = kids[i]
    <3>1. all[k] = ss[i][j]
      BY <1>7, <2>1
    <3>2. ss[i][j] \in Inside(W, kids[i])
      BY <1>5 DEF ToSet
    <3> QED BY <3>1, <3>2 DEF Inside
  <2> QED BY <1>8, <2>1
<1>11. \A f \in OnDiscs(W, p) : \E k \in DOMAIN all : all[k] = f
  <2>1. SUFFICES ASSUME NEW f \in OnDiscs(W, p) PROVE \E k \in DOMAIN all : all[k] = f
    OBVIOUS
  <2>2. Front(f.path) \in K /\ f \in W
    BY DEF OnDiscs, K
  <2>3. PICK i \in DOMAIN kids : kids[i] = Front(f.path)
    BY <1>3, <2>2 DEF ToSet
  <2>4. f \in Inside(W, kids[i])
    BY <2>2, <2>3 DEF Inside
  <2>5. PICK j \in DOMAIN ss[i] : ss[i][j] = f
    BY <1>5, <2>4 DEF ToSet
  <2>6. PICK k \in DOMAIN all : at[k] = <<i, j>>
    BY <1>9
  <2> QED BY <1>7, <2>5, <2>6
<1>12. \A k \in DOMAIN all : all[k] \in OnDiscs(W, p)
  <2>1. \A i \in DOMAIN kids : kids[i] \in Kids(W, p)
    BY <1>5 DEF K
  <2> QED BY <1>10, <2>1 DEF OnDiscs
<1>13. ASSUME NEW a \in DOMAIN all, NEW b \in DOMAIN all, all[a] = all[b] PROVE a = b
  <2>1. PICK i \in DOMAIN kids : \E j \in DOMAIN ss[i] :
          at[a] = <<i, j>> /\ all[a] = ss[i][j] /\ all[a] \in W /\ Front(all[a].path) = kids[i]
    BY <1>10
  <2>2. PICK j \in DOMAIN ss[i] : at[a] = <<i, j>> /\ all[a] = ss[i][j] /\ Front(all[a].path) = kids[i]
    BY <2>1
  <2>3. PICK k \in DOMAIN kids : \E l \in DOMAIN ss[k] :
          at[b] = <<k, l>> /\ all[b] = ss[k][l] /\ all[b] \in W /\ Front(all[b].path) = kids[k]
    BY <1>10
  <2>4. PICK l \in DOMAIN ss[k] : at[b] = <<k, l>> /\ all[b] = ss[k][l] /\ Front(all[b].path) = kids[k]
    BY <2>3
  <2>5. i = k
    BY <1>3, <1>13, <2>2, <2>4 DEF IsInjective
  <2>6. j = l
    BY <1>5, <1>13, <2>2, <2>4, <2>5 DEF IsInjective
  <2> QED BY <1>7, <2>2, <2>4, <2>5, <2>6 DEF IsInjective
<1>14. \E a, b \in DOMAIN all : a # b
  <2>1. PICK d1 \in K, d2 \in K : d1 # d2
    BY <1>1
  <2>2. PICK f1 \in Inside(W, d1) : TRUE
    BY <1>1, FoldersFinite
  <2>3. PICK f2 \in Inside(W, d2) : TRUE
    BY <1>1, FoldersFinite
  <2>4. f1 # f2 /\ f1 \in OnDiscs(W, p) /\ f2 \in OnDiscs(W, p)
    BY <2>1 DEF Inside, OnDiscs, K
  <2> QED BY <1>11, <2>4
<1>15. Len(all) # 1 /\ IsList(all) /\ OnDiscs(W, p) # {}
  <2>1. DOMAIN all = 1 .. Len(all)
    BY <1>7, ListParts
  <2>2. Len(all) # 1
    <3>1. SUFFICES ASSUME Len(all) = 1 PROVE FALSE
      OBVIOUS
    <3>2. \A a, b \in DOMAIN all : a = b
      BY <2>1, <3>1
    <3> QED BY <1>14, <3>2
  <2> QED BY <1>7, <1>12, <1>14, <2>2
<1>16. IsList(w) /\ Len(w) = Len(all) /\ DOMAIN w = DOMAIN all /\ \A i \in DOMAIN all : w[i].file = all[i]
  BY <1>15, Indexed
<1>17. u = [dir |-> p, layout |-> "multi", files |-> w]
  BY DEF MergeDiscs, all, ss, kids, K
<1> HIDE DEF w, u
<1>18. u.dir = p /\ u.files = w /\ u.layout = "multi" /\ u = [dir |-> u.dir, layout |-> u.layout, files |-> u.files]
  BY <1>17
<1>19. \A i, j \in DOMAIN w : w[i].file = w[j].file => i = j
  BY <1>13, <1>16
<1>20. \A i \in DOMAIN w : w[i].file \in OnDiscs(W, p)
  BY <1>12, <1>16
<1>21. \A f \in OnDiscs(W, p) : \E i \in DOMAIN w : w[i].file = f
  BY <1>11, <1>16
<1>22. IsUnit(u, OnDiscs(W, p))
  BY <1>15, <1>16, <1>18, <1>19, <1>20, <1>21 DEF IsUnit
<1> QED BY <1>18, <1>22 DEF u

-----------------------------------------------------------------------------
(* The units of a walk. *)

Merged(W) == UNION {Kids(W, p) : p \in DiscParents(W)}

\* The folders of the units, and the files of a unit.
Dirs(W) == DiscParents(W) \cup (Folders(W) \ Merged(W))
Share(W, dir) == IF dir \in Folders(W) THEN Inside(W, dir) ELSE OnDiscs(W, dir)

\* The units before they are put in order.
Unordered(W) ==
  {MergeDiscs(W, p) : p \in DiscParents(W)} \cup {UnitForDir(W, d) : d \in Folders(W) \ Merged(W)}

\* Each folder of Dirs is one unit.
LEMMA UnorderedUnits ==
  ASSUME NEW W, IsWalk(W)
  PROVE  /\ \A u \in Unordered(W) : u.dir \in Dirs(W) /\ IsUnit(u, Share(W, u.dir))
         /\ \A u, v \in Unordered(W) : u.dir = v.dir => u = v
         /\ \A d \in Dirs(W) : \E u \in Unordered(W) : u.dir = d
         /\ IsFiniteSet(Unordered(W))
<1>1. \A p \in DiscParents(W) : p \notin Folders(W) /\ MergeDiscs(W, p).dir = p /\ IsUnit(MergeDiscs(W, p), Share(W, p))
  BY DiscsUnit DEF DiscParents, Share
<1>2. \A d \in Folders(W) \ Merged(W) : UnitForDir(W, d).dir = d /\ IsUnit(UnitForDir(W, d), Share(W, d))
  BY FolderUnit DEF Share
<1>3. IsFiniteSet(Unordered(W))
  <2>1. IsFiniteSet(Folders(W))
    BY FoldersFinite
  <2>2. IsFiniteSet(DiscParents(W))
    <3> DEFINE h == [d \in Folders(W) |-> Front(d)]
    <3>1. IsFiniteSet(Range(h))
      BY <2>1, ImageFinite
    <3>2. DiscParents(W) \subseteq Range(h)
      BY DEF DiscParents, Range
    <3> QED BY <3>1, <3>2, FS_Subset
  <2>3. IsFiniteSet({MergeDiscs(W, p) : p \in DiscParents(W)})
    <3> DEFINE h == [p \in DiscParents(W) |-> MergeDiscs(W, p)]
    <3>1. IsFiniteSet(Range(h))
      BY <2>2, ImageFinite
    <3>2. Range(h) = {MergeDiscs(W, p) : p \in DiscParents(W)}
      BY DEF Range
    <3> QED BY <3>1, <3>2
  <2>4. IsFiniteSet({UnitForDir(W, d) : d \in Folders(W) \ Merged(W)})
    <3> DEFINE h == [d \in Folders(W) \ Merged(W) |-> UnitForDir(W, d)]
    <3>0. IsFiniteSet(Folders(W) \ Merged(W))
      BY <2>1, FS_Subset
    <3>1. IsFiniteSet(Range(h))
      BY <3>0, ImageFinite
    <3>2. Range(h) = {UnitForDir(W, d) : d \in Folders(W) \ Merged(W)}
      BY DEF Range
    <3> QED BY <3>1, <3>2
  <2> QED BY <2>3, <2>4, FS_Union DEF Unordered
<1>4. \A u \in Unordered(W) : \/ u.dir \in DiscParents(W) /\ u = MergeDiscs(W, u.dir)
                              \/ u.dir \in Folders(W) \ Merged(W) /\ u = UnitForDir(W, u.dir)
  BY <1>1, <1>2 DEF Unordered
<1>5. \A u \in Unordered(W) : u.dir \in Dirs(W) /\ IsUnit(u, Share(W, u.dir))
  BY <1>1, <1>2, <1>4 DEF Dirs
<1>6. \A u, v \in Unordered(W) : u.dir = v.dir => u = v
  BY <1>1, <1>4
<1>7. \A d \in Dirs(W) : \E u \in Unordered(W) : u.dir = d
  BY <1>1, <1>2 DEF Dirs, Unordered
<1> QED BY <1>3, <1>5, <1>6, <1>7

\* Each file is in the share of one folder of Dirs.
LEMMA SharesCover ==
  ASSUME NEW W, IsWalk(W)
  PROVE  /\ \A f \in W : \E d \in Dirs(W) : f \in Share(W, d)
         /\ \A d, e \in Dirs(W) : \A f : f \in Share(W, d) /\ f \in Share(W, e) => d = e
         /\ \A d \in Dirs(W) : \A f \in Share(W, d) :
              f \in W /\ IsList(d) /\ (Front(f.path) = d \/ (Front(f.path) # <<>> /\ IsList(Front(f.path)) /\ Front(Front(f.path)) = d))
<1>1. \A p \in DiscParents(W) : p \notin Folders(W)
  BY DEF DiscParents
<1>2. \A d \in Folders(W) : IsList(d)
  BY FoldersFinite
<1>3. \A f \in W : \E d \in Dirs(W) : f \in Share(W, d)
  <2>1. SUFFICES ASSUME NEW f \in W PROVE \E d \in Dirs(W) : f \in Share(W, d)
    OBVIOUS
  <2>2. Front(f.path) \in Folders(W)
    BY DEF Folders
  <2>3. CASE Front(f.path) \in Merged(W)
    <3>1. PICK p \in DiscParents(W) : Front(f.path) \in Kids(W, p)
      BY <2>3 DEF Merged
    <3> QED BY <1>1, <3>1 DEF Dirs, Share, OnDiscs
  <2>4. CASE Front(f.path) \notin Merged(W)
    BY <2>2, <2>4 DEF Dirs, Share, Inside
  <2> QED BY <2>3, <2>4
<1>4. \A d, e \in Dirs(W) : \A f : f \in Share(W, d) /\ f \in Share(W, e) => d = e
  <2>1. SUFFICES ASSUME NEW d \in Dirs(W), NEW e \in Dirs(W), NEW f, f \in Share(W, d), f \in Share(W, e) PROVE d = e
    OBVIOUS
  <2>2. \A k \in Dirs(W) : k \in Folders(W) => k \notin Merged(W)
    BY <1>1 DEF Dirs
  <2>3. \A k \in Dirs(W) : k \notin Folders(W) => k \in DiscParents(W)
    BY DEF Dirs
  <2>4. \A k \in Dirs(W) : f \in Share(W, k) =>
           IF k \in Folders(W) THEN Front(f.path) = k /\ Front(f.path) \notin Merged(W)
                               ELSE Front(Front(f.path)) = k /\ Front(f.path) \in Merged(W)
    BY <2>2, <2>3 DEF Share, Inside, OnDiscs, Merged, Kids
  <2> QED BY <2>1, <2>4
<1>5. \A d \in Dirs(W) : \A f \in Share(W, d) :
        f \in W /\ IsList(d) /\ (Front(f.path) = d \/ (Front(f.path) # <<>> /\ IsList(Front(f.path)) /\ Front(Front(f.path)) = d))
  <2>1. SUFFICES ASSUME NEW d \in Dirs(W), NEW f \in Share(W, d)
        PROVE  f \in W /\ IsList(d) /\ (Front(f.path) = d \/ (Front(f.path) # <<>> /\ IsList(Front(f.path)) /\ Front(Front(f.path)) = d))
    OBVIOUS
  <2>2. CASE d \in Folders(W)
    BY <1>2, <2>2 DEF Share, Inside
  <2>3. CASE d \notin Folders(W)
    <3>1. f \in W /\ Front(f.path) \in Folders(W) /\ Front(f.path) # <<>> /\ Front(Front(f.path)) = d
      BY <2>3 DEF Share, OnDiscs, Kids
    <3>2. IsList(Front(f.path)) /\ IsList(d)
      BY <1>2, <3>1, ListFront
    <3> QED BY <3>1, <3>2
  <2> QED BY <2>2, <2>3
<1> QED BY <1>3, <1>4, <1>5

\* A scan's units: one for each folder of Dirs, with the files of its share.
LEMMA GroupUnits ==
  ASSUME NEW W, IsWalk(W)
  PROVE  /\ \A u \in ToSet(Group(W)) : u.dir \in Dirs(W) /\ IsUnit(u, Share(W, u.dir))
         /\ \A u, v \in ToSet(Group(W)) : u.dir = v.dir => u = v
         /\ \A d \in Dirs(W) : \E u \in ToSet(Group(W)) : u.dir = d
<1> DEFINE U == {Ordered(u) : u \in Unordered(W)}
<1>1. IsFiniteSet(U)
  <2> DEFINE h == [u \in Unordered(W) |-> Ordered(u)]
  <2>1. IsFiniteSet(Range(h))
    BY UnorderedUnits, ImageFinite
  <2>2. Range(h) = U
    BY DEF Range
  <2> QED BY <2>1, <2>2
<1>2. Group(W) = InOrder(U, LAMBDA u, v : PathBefore(u.dir, v.dir))
  BY DEF Group, Ordered, Unordered, Merged
<1> HIDE DEF U
<1>3. Group(W) \in Bijection(1 .. Cardinality(U), U)
  <2>1. Bijection(1 .. Cardinality(U), U) # {}
    BY <1>1, Arrangement
  <2> QED BY <1>2, <2>1 DEF InOrder
<1>4. ToSet(Group(W)) = U
  BY <1>1, <1>3, BijectionLists DEF IsListOf
<1>5. \A u \in Unordered(W) : IsUnit(Ordered(u), Share(W, u.dir)) /\ Ordered(u).dir = u.dir /\ u.dir \in Dirs(W)
  BY UnorderedUnits, OrderedUnit
<1>6. \A u \in U : \E v \in Unordered(W) : u = Ordered(v)
  BY DEF U
<1>7. \A v \in Unordered(W) : Ordered(v) \in U
  BY DEF U
<1>8. \A u \in U : u.dir \in Dirs(W) /\ IsUnit(u, Share(W, u.dir))
  BY <1>5, <1>6
<1>9. \A u, v \in U : u.dir = v.dir => u = v
  <2>1. SUFFICES ASSUME NEW u \in U, NEW v \in U, u.dir = v.dir PROVE u = v
    OBVIOUS
  <2>2. PICK a \in Unordered(W) : u = Ordered(a)
    BY <1>6
  <2>3. PICK b \in Unordered(W) : v = Ordered(b)
    BY <1>6
  <2>4. a.dir = b.dir
    BY <1>5, <2>1, <2>2, <2>3
  <2> QED BY <2>2, <2>3, <2>4, UnorderedUnits
<1>10. \A d \in Dirs(W) : \E u \in U : u.dir = d
  <2>1. SUFFICES ASSUME NEW d \in Dirs(W) PROVE \E u \in U : u.dir = d
    OBVIOUS
  <2>2. PICK v \in Unordered(W) : v.dir = d
    BY UnorderedUnits
  <2> QED BY <1>5, <1>7, <2>2
<1> QED BY <1>4, <1>8, <1>9, <1>10

\* The files of a unit as a book's.
LEMMA FileRowsAre ==
  ASSUME NEW u, NEW S, IsUnit(u, S), IsList(u.dir),
         \A f \in S : /\ IsList(f.path) /\ f.path # <<>>
                      /\ Front(f.path) = u.dir
                         \/ (Front(f.path) # <<>> /\ IsList(Front(f.path)) /\ Front(Front(f.path)) = u.dir)
  PROVE  /\ IsList(FileRows(u)) /\ DOMAIN FileRows(u) = DOMAIN u.files /\ Len(FileRows(u)) = Len(u.files)
         /\ FileRows(u) # <<>>
         /\ \A i \in DOMAIN u.files :
              LET rel == FileRows(u)[i].rel
                  path == u.files[i].file.path
              IN IsList(rel) /\ rel # <<>> /\ u.dir \o rel = path /\ Last(rel) = Last(path)
<1> DEFINE w == FileRows(u)
           s == u.files
<1>1. IsList(s) /\ DOMAIN s = 1 .. Len(s) /\ Len(s) \in Nat
  BY ListParts DEF IsUnit
<1>2. w = [i \in DOMAIN s |-> w[i]] /\ DOMAIN w = DOMAIN s
      /\ \A i \in DOMAIN s : w[i].rel = SubSeq(s[i].file.path, Len(u.dir) + 1, Len(s[i].file.path))
  BY DEF FileRows
<1> HIDE DEF w
<1>3. IsList(w) /\ Len(w) = Len(s)
  BY <1>1, <1>2, ListOf
<1>4. w # <<>>
  <2>1. PICK f \in S : TRUE
    BY DEF IsUnit
  <2>2. PICK i \in DOMAIN s : TRUE
    BY <2>1 DEF IsUnit
  <2>3. Len(s) # 0
    BY <1>1, <2>2
  <2> QED BY <1>3, <2>3, EmptyIs
<1>5. ASSUME NEW i \in DOMAIN s
      PROVE  IsList(w[i].rel) /\ w[i].rel # <<>> /\ u.dir \o w[i].rel = s[i].file.path /\ Last(w[i].rel) = Last(s[i].file.path)
  <2>1. PICK path : path = s[i].file.path
    OBVIOUS
  <2>2. s[i].file \in S
    BY DEF IsUnit
  <2>3. IsList(path) /\ path # <<>> /\ (Front(path) = u.dir \/ (Front(path) # <<>> /\ IsList(Front(path)) /\ Front(Front(path)) = u.dir))
    BY <2>1, <2>2
  <2>4. Len(u.dir) < Len(path) /\ \A j \in 1 .. Len(u.dir) : u.dir[j] = path[j]
    BY <2>3, Above
  <2>5. w[i].rel = SubSeq(path, Len(u.dir) + 1, Len(path))
    BY <1>2, <2>1
  <2>6. PICK rel, dir : rel = SubSeq(path, Len(u.dir) + 1, Len(path)) /\ dir = u.dir
    OBVIOUS
  <2>7. IsList(rel) /\ rel # <<>> /\ dir \o rel = path /\ Last(rel) = Last(path)
    BY <2>3, <2>4, <2>6, RelIs
  <2> QED BY <2>1, <2>5, <2>6, <2>7
<1> QED BY <1>2, <1>3, <1>4, <1>5 DEF w

\* Whether a folder is a disc, its own name tells.
LEMMA DiscName ==
  ASSUME NEW dir, dir # <<>>
  PROVE  IsDisc(dir) <=> IsDisc(<<Last(dir)>>)
<1>1. PICK n : n = Last(dir)
  OBVIOUS
<1>2. Last(<<n>>) = n /\ <<n>> # <<>>
  BY DEF Last
<1> QED BY <1>1, <1>2 DEF IsDisc

-----------------------------------------------------------------------------
(* Templates. *)

\* A list of elements of G.
Over(G, s) == IsList(s) /\ \A i \in DOMAIN s : s[i] \in G

\* Short lists, and one list behind another.
LEMMA OverShort ==
  ASSUME NEW G
  PROVE  Over(G, <<>>) /\ \A x \in G : Over(G, <<x>>)
<1>1. IsList(<<>>) /\ DOMAIN <<>> = {}
  <2>1. PICK e : e = <<>>
    OBVIOUS
  <2>2. IsList(e) /\ Len(e) = 0
    BY <2>1, Short
  <2> QED BY <2>1, <2>2, ListParts
<1>2. ASSUME NEW x \in G PROVE Over(G, <<x>>)
  <2>1. PICK e : e = <<x>>
    OBVIOUS
  <2>2. IsList(e) /\ DOMAIN e = 1 .. 1 /\ e[1] = x
    BY <2>1, Short
  <2>3. Over(G, e)
    BY <2>2 DEF Over
  <2> QED BY <2>1, <2>3
<1> QED BY <1>1, <1>2 DEF Over

\* One behind another.
LEMMA OverConcat ==
  ASSUME NEW G, NEW s, NEW t, Over(G, s), Over(G, t)
  PROVE  Over(G, s \o t)
<1>1. IsList(s) /\ IsList(t)
  BY DEF Over
<1>2. PICK m \in Nat, n \in Nat : m = Len(s) /\ n = Len(t) /\ DOMAIN s = 1 .. m /\ DOMAIN t = 1 .. n
  BY <1>1, ListParts
<1>3. PICK c : c = s \o t
  OBVIOUS
<1>4. /\ IsList(c) /\ Len(c) = m + n /\ \A i \in 1 .. m : c[i] = s[i]
      /\ \A i \in m + 1 .. m + n : c[i] = t[i - m]
  BY <1>1, <1>2, <1>3, ListConcat
<1>5. DOMAIN c = 1 .. m + n
  BY <1>4, ListParts
<1>6. ASSUME NEW i \in 1 .. m + n PROVE c[i] \in G
  <2>1. CASE i <= m
    BY <1>2, <1>4, <2>1 DEF Over
  <2>2. CASE ~(i <= m)
    <3>1. i \in m + 1 .. m + n /\ i - m \in 1 .. n
      BY <2>2
    <3> QED BY <1>2, <1>4, <3>1 DEF Over
  <2> QED BY <2>1, <2>2
<1> QED BY <1>3, <1>4, <1>5, <1>6 DEF Over

\* A text is made from left to right: at each place of a template a piece, and then what is
\* made of the rest after it.
JumpAt(p, text, i) == IF i > p[1] THEN <<>> ELSE p[2][i] \o text[p[3][i]]
Jumping == INSTANCE FoldProofs WITH Op <- JumpAt
Unfolds(n, piece, next, text) == text = [i \in 1 .. n + 1 |-> IF i > n THEN <<>> ELSE piece[i] \o text[next[i]]]

\* Such a text exists, as long as it gets on.
LEMMA TextExists ==
  ASSUME NEW n \in Nat, NEW piece, NEW next, \A i \in 1 .. n : next[i] \in i + 1 .. n + 1
  PROVE  \E text : Unfolds(n, piece, next, text)
<1>1. PICK p : p = <<n, piece, next>>
  OBVIOUS
<1>2. p[1] = n /\ p[2] = piece /\ p[3] = next
  BY <1>1
<1>3. PICK m \in Nat : m = n + 1
  OBVIOUS
<1>4. Jumping!LooksAhead(p, m)
  <2>1. SUFFICES ASSUME NEW f, NEW g, NEW i \in 1 .. m, \A j \in i + 1 .. m : f[j] = g[j]
                 PROVE  JumpAt(p, f, i) = JumpAt(p, g, i)
    BY DEF Jumping!LooksAhead
  <2>2. CASE i > n
    BY <1>2, <2>2 DEF JumpAt
  <2>3. CASE ~(i > n)
    <3>1. i \in 1 .. n
      BY <1>3, <2>3
    <3>2. f[next[i]] = g[next[i]]
      BY <1>3, <2>1, <3>1
    <3> QED BY <1>2, <3>2 DEF JumpAt
  <2> QED BY <2>2, <2>3
<1>5. PICK text : Jumping!IsBackward(p, m, text)
  BY <1>4, Jumping!BackwardExists
<1>6. text = [i \in 1 .. m |-> JumpAt(p, text, i)]
  BY <1>5 DEF Jumping!IsBackward
<1>7. \A i \in 1 .. m : JumpAt(p, text, i) = IF i > n THEN <<>> ELSE piece[i] \o text[next[i]]
  BY <1>2 DEF JumpAt
<1>8. Unfolds(n, piece, next, text)
  BY <1>3, <1>6, <1>7 DEF Unfolds
<1> QED BY <1>8

\* It has the elements of its pieces.
LEMMA TextOver ==
  ASSUME NEW n \in Nat, NEW piece, NEW next, NEW text, Unfolds(n, piece, next, text), NEW G,
         \A i \in 1 .. n : next[i] \in i + 1 .. n + 1 /\ Over(G, piece[i])
  PROVE  Over(G, text[1])
<1>1. \A i \in 1 .. n + 1 : text[i] = IF i > n THEN <<>> ELSE piece[i] \o text[next[i]]
  BY DEF Unfolds
<1>2. PICK m \in Nat : m = n + 1
  OBVIOUS
<1> DEFINE K == {k \in 0 .. m : \A j \in k + 1 .. m : Over(G, text[j])}
<1>3. m \in K
  OBVIOUS
<1>4. ASSUME NEW k \in 0 .. m, k > 0, k \in K PROVE k - 1 \in K
  <2>1. \A j \in k + 1 .. m : Over(G, text[j])
    BY <1>4
  <2>2. Over(G, text[k])
    <3>1. CASE k > n
      <4>1. k \in 1 .. n + 1
        BY <1>2, <1>4
      <4>2. text[k] = <<>>
        BY <1>1, <3>1, <4>1
      <4> QED BY <4>2, OverShort
    <3>2. CASE ~(k > n)
      <4>1. k \in 1 .. n /\ k \in 1 .. n + 1
        BY <1>2, <1>4, <3>2
      <4>2. next[k] \in k + 1 .. m
        BY <1>2, <4>1
      <4>3. PICK a, b : a = piece[k] /\ b = text[next[k]]
        OBVIOUS
      <4>4. Over(G, a) /\ Over(G, b)
        BY <2>1, <4>1, <4>2, <4>3
      <4>5. text[k] = a \o b
        BY <1>1, <3>2, <4>1, <4>3
      <4> QED BY <4>4, <4>5, OverConcat
    <3> QED BY <3>1, <3>2
  <2>3. \A j \in (k - 1) + 1 .. m : j = k \/ j \in k + 1 .. m
    BY <1>4
  <2>4. k - 1 \in 0 .. m
    BY <1>4
  <2> QED BY <2>1, <2>2, <2>3, <2>4
<1>5. 0 .. m \subseteq K
  <2> HIDE DEF K
  <2> QED BY <1>3, <1>4, DownFrom
<1>6. 0 \in K
  <2> HIDE DEF K
  <2>1. 0 \in 0 .. m
    OBVIOUS
  <2> QED BY <1>5, <2>1
<1>7. 1 \in 0 + 1 .. m
  BY <1>2
<1> QED BY <1>6, <1>7

\* A "{" ends where it begins or later.
LEMMA EndIn ==
  ASSUME NEW t, NEW n \in Nat, n = Len(t), NEW i \in 1 .. n
  PROVE  End(t, i) \in i .. n
<1>1. PICK I : I = {k \in i .. n : t[k] = "}"}
  OBVIOUS
<1>2. End(t, i) = IF (IF I # {} THEN Min(I) ELSE 0) = 0 THEN n ELSE (IF I # {} THEN Min(I) ELSE 0)
  BY <1>1 DEF End, SelectInSubSeq
<1>3. CASE I = {}
  <2>1. End(t, i) = n
    BY <1>2, <1>3
  <2> QED BY <2>1
<1>4. CASE I # {}
  <2>1. I \subseteq i .. n
    BY <1>1
  <2>2. I \subseteq Nat
    BY <2>1
  <2>3. Min(I) \in I
    BY <1>4, <2>2, Least
  <2>4. PICK m \in i .. n : m = Min(I)
    BY <2>1, <2>3
  <2>5. m # 0
    OBVIOUS
  <2> QED BY <1>2, <1>4, <2>4, <2>5
<1> QED BY <1>3, <1>4

\* How deep a place is in groups.
LEMMA DepthInt ==
  ASSUME NEW t, NEW i \in Nat
  PROVE  Depth(t, i) \in Int
<1>1. {j \in 1 .. i : t[j] = "["} \in SUBSET (1 .. i) /\ {j \in 1 .. i : t[j] = "]"} \in SUBSET (1 .. i)
  OBVIOUS
<1>2. Cardinality({j \in 1 .. i : t[j] = "["}) \in Nat /\ Cardinality({j \in 1 .. i : t[j] = "]"}) \in Nat
  BY <1>1, PositionSets
<1> QED BY <1>2 DEF Depth

\* A group ends later than it begins.
LEMMA CloseIn ==
  ASSUME NEW t, NEW n \in Nat, n = Len(t), NEW i \in 1 .. n, FindClose(t, i) # 0
  PROVE  /\ FindClose(t, i) \in i + 1 .. n /\ Depth(t, FindClose(t, i)) < Depth(t, i)
         /\ \A k \in i .. FindClose(t, i) - 1 : ~(Depth(t, k) < Depth(t, i))
<1>1. PICK C : C = {k \in i .. n : Depth(t, k) < Depth(t, i)}
  OBVIOUS
<1>2. C # {} /\ FindClose(t, i) = Min(C)
  BY <1>1 DEF FindClose
<1>3. PICK c : c = FindClose(t, i)
  OBVIOUS
<1>4. C \subseteq Nat
  BY <1>1
<1>5. c \in C /\ \A y \in C : c <= y
  BY <1>2, <1>3, <1>4, Least
<1>6. c \in i .. n /\ Depth(t, c) < Depth(t, i)
  BY <1>1, <1>5
<1>7. c # i
  <2>1. Depth(t, i) \in Int
    BY DepthInt
  <2> QED BY <1>6, <2>1
<1>8. c \in i + 1 .. n
  BY <1>6, <1>7
<1>9. ASSUME NEW k \in i .. c - 1 PROVE ~(Depth(t, k) < Depth(t, i))
  <2>1. k \in i .. n /\ ~(c <= k)
    BY <1>8
  <2> QED BY <1>1, <1>5, <2>1
<1> QED BY <1>3, <1>6, <1>8, <1>9

\* What a template's place comes to, and where the text goes on.
SubstitutePiece(t, tv, i) == IF t[i] = "{" THEN Value(t, i, tv) ELSE <<t[i]>>
SubstituteNext(t, i) == IF t[i] = "{" THEN End(t, i) + 1 ELSE i + 1
IsGroup(t, i) == t[i] = "[" /\ FindClose(t, i) # 0
RenderPiece(t, tv, i) ==
  IF IsGroup(t, i) THEN RenderGroup(SubSeq(t, i + 1, FindClose(t, i) - 1), tv) ELSE SubstitutePiece(t, tv, i)
RenderNext(t, i) == IF IsGroup(t, i) THEN FindClose(t, i) + 1 ELSE SubstituteNext(t, i)

\* Substituted text is made of what the tokens are replaced by, and of literals.
LEMMA SubstituteOver ==
  ASSUME NEW t, NEW n \in Nat, n = Len(t), NEW tv, NEW G, \A i \in 1 .. n : Over(G, SubstitutePiece(t, tv, i))
  PROVE  Over(G, Substitute(t, tv))
<1> DEFINE Rec(text) ==
             text = [i \in 1 .. Len(t) + 1 |->
                       IF i > Len(t) THEN <<>>
                       ELSE IF t[i] = "{" THEN Value(t, i, tv) \o text[End(t, i) + 1]
                       ELSE <<t[i]>> \o text[i + 1]]
           text == CHOOSE text : Rec(text)
<1>1. PICK piece, next : /\ piece = [i \in 1 .. n |-> SubstitutePiece(t, tv, i)]
                         /\ next = [i \in 1 .. n |-> SubstituteNext(t, i)]
  OBVIOUS
<1>2. \A i \in 1 .. n : piece[i] = SubstitutePiece(t, tv, i) /\ next[i] = SubstituteNext(t, i)
  BY <1>1
<1>3. \A i \in 1 .. n : next[i] \in i + 1 .. n + 1
  <2>1. SUFFICES ASSUME NEW i \in 1 .. n PROVE SubstituteNext(t, i) \in i + 1 .. n + 1
    BY <1>2
  <2>2. PICK e \in i .. n : e = End(t, i)
    BY EndIn
  <2>3. e + 1 \in i + 1 .. n + 1 /\ i + 1 \in i + 1 .. n + 1
    OBVIOUS
  <2> QED BY <2>2, <2>3 DEF SubstituteNext
<1>4. \A f : Rec(f) <=> Unfolds(n, piece, next, f)
  <2>1. SUFFICES ASSUME NEW f PROVE Rec(f) <=> Unfolds(n, piece, next, f)
    OBVIOUS
  <2>2. ASSUME NEW i \in 1 .. n + 1
        PROVE  (IF i > Len(t) THEN <<>>
                ELSE IF t[i] = "{" THEN Value(t, i, tv) \o f[End(t, i) + 1]
                ELSE <<t[i]>> \o f[i + 1])
               = IF i > n THEN <<>> ELSE piece[i] \o f[next[i]]
    <3>1. CASE i > n
      BY <3>1
    <3>2. CASE ~(i > n)
      <4>1. piece[i] = SubstitutePiece(t, tv, i) /\ next[i] = SubstituteNext(t, i)
        BY <1>2, <3>2
      <4> QED BY <3>2, <4>1 DEF SubstitutePiece, SubstituteNext
    <3> QED BY <3>1, <3>2
  <2> QED BY <2>2 DEF Unfolds
<1>5. \E f : Rec(f)
  <2>1. PICK f : Unfolds(n, piece, next, f)
    BY <1>3, TextExists
  <2>2. Rec(f)
    <3> HIDE DEF Rec
    <3> QED BY <1>4, <2>1
  <2> HIDE DEF Rec
  <2> QED BY <2>2
<1>6. Unfolds(n, piece, next, text)
  <2> HIDE DEF Rec
  <2> QED BY <1>4, <1>5
<1>7. Substitute(t, tv) = text[1]
  BY DEF Substitute
<1> HIDE DEF text
<1>8. \A i \in 1 .. n : next[i] \in i + 1 .. n + 1 /\ Over(G, piece[i])
  BY <1>2, <1>3
<1>9. Over(G, text[1])
  BY <1>6, <1>8, TextOver
<1> QED BY <1>7, <1>9

\* And so is rendered text, of the groups as well.
LEMMA RenderOver ==
  ASSUME NEW t, NEW n \in Nat, n = Len(t), NEW tv, NEW G, \A i \in 1 .. n : Over(G, RenderPiece(t, tv, i))
  PROVE  Over(G, Render(t, tv))
<1> DEFINE Rec(text) ==
             text = [i \in 1 .. Len(t) + 1 |->
                       IF i > Len(t) THEN <<>>
                       ELSE IF t[i] = "[" /\ FindClose(t, i) # 0
                            THEN RenderGroup(SubSeq(t, i + 1, FindClose(t, i) - 1), tv) \o text[FindClose(t, i) + 1]
                       ELSE IF t[i] = "{" THEN Value(t, i, tv) \o text[End(t, i) + 1]
                       ELSE <<t[i]>> \o text[i + 1]]
           text == CHOOSE text : Rec(text)
<1>1. PICK piece, next : /\ piece = [i \in 1 .. n |-> RenderPiece(t, tv, i)]
                         /\ next = [i \in 1 .. n |-> RenderNext(t, i)]
  OBVIOUS
<1>2. \A i \in 1 .. n : piece[i] = RenderPiece(t, tv, i) /\ next[i] = RenderNext(t, i)
  BY <1>1
<1>3. \A i \in 1 .. n : next[i] \in i + 1 .. n + 1
  <2>1. SUFFICES ASSUME NEW i \in 1 .. n PROVE RenderNext(t, i) \in i + 1 .. n + 1
    BY <1>2
  <2>2. CASE IsGroup(t, i)
    <3>1. PICK c \in i + 1 .. n : c = FindClose(t, i)
      BY <2>2, CloseIn DEF IsGroup
    <3> QED BY <2>2, <3>1 DEF RenderNext
  <2>3. CASE ~IsGroup(t, i)
    <3>1. PICK e \in i .. n : e = End(t, i)
      BY EndIn
    <3>2. e + 1 \in i + 1 .. n + 1 /\ i + 1 \in i + 1 .. n + 1
      OBVIOUS
    <3> QED BY <2>3, <3>1, <3>2 DEF RenderNext, SubstituteNext
  <2> QED BY <2>2, <2>3
<1>4. \A f : Rec(f) <=> Unfolds(n, piece, next, f)
  <2>1. SUFFICES ASSUME NEW f PROVE Rec(f) <=> Unfolds(n, piece, next, f)
    OBVIOUS
  <2>2. ASSUME NEW i \in 1 .. n + 1
        PROVE  (IF i > Len(t) THEN <<>>
                ELSE IF t[i] = "[" /\ FindClose(t, i) # 0
                     THEN RenderGroup(SubSeq(t, i + 1, FindClose(t, i) - 1), tv) \o f[FindClose(t, i) + 1]
                ELSE IF t[i] = "{" THEN Value(t, i, tv) \o f[End(t, i) + 1]
                ELSE <<t[i]>> \o f[i + 1])
               = IF i > n THEN <<>> ELSE piece[i] \o f[next[i]]
    <3>1. CASE i > n
      BY <3>1
    <3>2. CASE ~(i > n)
      <4>1. piece[i] = RenderPiece(t, tv, i) /\ next[i] = RenderNext(t, i)
        BY <1>2, <3>2
      <4> QED BY <3>2, <4>1 DEF RenderPiece, RenderNext, SubstitutePiece, SubstituteNext, IsGroup
    <3> QED BY <3>1, <3>2
  <2> QED BY <2>2 DEF Unfolds
<1>5. \E f : Rec(f)
  <2>1. PICK f : Unfolds(n, piece, next, f)
    BY <1>3, TextExists
  <2>2. Rec(f)
    <3> HIDE DEF Rec
    <3> QED BY <1>4, <2>1
  <2> HIDE DEF Rec
  <2> QED BY <2>2
<1>6. Unfolds(n, piece, next, text)
  <2> HIDE DEF Rec
  <2> QED BY <1>4, <1>5
<1>7. Render(t, tv) = text[1]
  BY DEF Render
<1> HIDE DEF text
<1>8. \A i \in 1 .. n : next[i] \in i + 1 .. n + 1 /\ Over(G, piece[i])
  BY <1>2, <1>3
<1>9. Over(G, text[1])
  BY <1>6, <1>8, TextOver
<1> QED BY <1>7, <1>9

\* Lists, of whatever.
LEMMA OverList ==
  ASSUME NEW s, IsList(s), NEW G, \A i \in DOMAIN s : s[i] \in G
  PROVE  Over(G, s)
  BY DEF Over

\* A part of a list.
LEMMA OverSub ==
  ASSUME NEW G, NEW s, Over(G, s), NEW a \in Nat \ {0}, NEW b \in Nat, b <= Len(s)
  PROVE  Over(G, SubSeq(s, a, b))
<1>1. PICK n \in Nat : n = Len(s) /\ DOMAIN s = 1 .. n
  BY ListParts DEF Over
<1>2. CASE a <= b + 1
  <2>1. PICK c : c = SubSeq(s, a, b)
    OBVIOUS
  <2>2. IsList(c) /\ Len(c) = b + 1 - a /\ \A i \in 1 .. b + 1 - a : c[i] = s[a + i - 1]
    BY <1>2, <2>1, ListSub DEF Over
  <2>3. DOMAIN c = 1 .. b + 1 - a
    BY <2>2, ListParts
  <2>4. \A i \in 1 .. b + 1 - a : a + i - 1 \in 1 .. n
    BY <1>1
  <2>5. \A i \in DOMAIN c : c[i] \in G
    BY <1>1, <2>2, <2>3, <2>4 DEF Over
  <2> QED BY <2>1, <2>2, <2>5 DEF Over
<1>3. CASE ~(a <= b + 1)
  <2>1. SubSeq(s, a, b) = <<>>
    <3>1. s \in Seq(Range(s))
      BY DEF Over, IsList
    <3>2. SubSeq(s, a, b) = [i \in 1 .. (b - a + 1) |-> s[i + a - 1]]
      BY <3>1
    <3>3. 1 .. (b - a + 1) = {}
      BY <1>3
    <3> QED BY <3>2, <3>3
  <2> QED BY <2>1, OverShort
<1> QED BY <1>2, <1>3

\* What a template and the values of its tokens are made of.
Parts(t, tv) == Range(t) \cup UNION {Range(tv[x]) : x \in Tokens}

\* Text of a template is a list.
LEMMA RenderList ==
  ASSUME NEW t, IsList(t), NEW tv, \A x \in Tokens : IsList(tv[x])
  PROVE  IsList(Render(t, tv))
<1> DEFINE G == Parts(t, tv)
<1>1. PICK n \in Nat : n = Len(t) /\ DOMAIN t = 1 .. n
  BY ListParts
<1>2. Over(G, t)
  BY DEF Over, Parts, Range
<1>3. \A x \in Tokens : Over(G, tv[x])
  BY DEF Over, Parts, Range
<1> HIDE DEF G
<1>4. ASSUME NEW s, NEW m \in Nat, m = Len(s), Over(G, s), NEW i \in 1 .. m
      PROVE  Over(G, SubstitutePiece(s, tv, i))
  <2>1. s[i] \in G
    <3>1. DOMAIN s = 1 .. m
      BY <1>4, ListParts DEF Over
    <3> QED BY <1>4, <3>1 DEF Over
  <2>2. Over(G, <<s[i]>>)
    BY <2>1, OverShort
  <2>3. Over(G, Value(s, i, tv))
    <3>1. CASE Known(s, i)
      BY <1>3, <3>1 DEF Known, Value
    <3>2. CASE ~Known(s, i)
      <4>1. PICK e \in i .. m : e = End(s, i)
        BY <1>4, EndIn
      <4>2. e \in Nat /\ e <= Len(s) /\ i \in Nat \ {0}
        BY <1>4, <4>1
      <4>3. Over(G, SubSeq(s, i, e))
        BY <1>4, <4>2, OverSub
      <4> QED BY <3>2, <4>1, <4>3 DEF Value
    <3> QED BY <3>1, <3>2
  <2> QED BY <2>2, <2>3 DEF SubstitutePiece
<1>5. ASSUME NEW i \in 1 .. n PROVE Over(G, RenderPiece(t, tv, i))
  <2>1. CASE IsGroup(t, i)
    <3>1. PICK c \in i + 1 .. n : c = FindClose(t, i)
      BY <1>1, <2>1, CloseIn DEF IsGroup
    <3>2. PICK inner : inner = SubSeq(t, i + 1, c - 1)
      OBVIOUS
    <3>3. i + 1 \in Nat \ {0} /\ c - 1 \in Nat /\ c - 1 <= n
      BY <3>1
    <3>4. Over(G, inner)
      BY <1>1, <1>2, <3>2, <3>3, OverSub
    <3>5. PICK m \in Nat : m = Len(inner)
      BY <3>4, ListParts DEF Over
    <3>6. Over(G, Substitute(inner, tv))
      BY <1>4, <3>4, <3>5, SubstituteOver
    <3>7. Over(G, RenderGroup(inner, tv))
      BY <3>6, OverShort DEF RenderGroup
    <3> QED BY <2>1, <3>1, <3>2, <3>7 DEF RenderPiece
  <2>2. CASE ~IsGroup(t, i)
    <3>1. Over(G, SubstitutePiece(t, tv, i))
      BY <1>1, <1>2, <1>4
    <3> QED BY <2>2, <3>1 DEF RenderPiece
  <2> QED BY <2>1, <2>2
<1>6. Over(G, Render(t, tv))
  BY <1>1, <1>5, RenderOver
<1> QED BY <1>6 DEF Over

\* A brace, a token and a brace.
Braced(t, i, a, b) == t[i] = "{" /\ t[a] \in Tokens /\ t[b] = "}"

\* What a place adds to a count.
LEMMA CountAt ==
  ASSUME NEW n \in Nat, NEW c \in 1 .. n, NEW places \in SUBSET (1 .. n)
  PROVE  /\ Count(places, c) = Count(places, c - 1) + (IF c \in places THEN 1 ELSE 0)
         /\ Count(places, c) \in Nat /\ Count(places, c - 1) \in Nat
<1>1. c \in 0 .. n /\ c - 1 \in 0 .. n
  OBVIOUS
<1>2. /\ \A i \in 0 .. n : Count(places, i) \in Nat
      /\ \A i \in 1 .. n : Count(places, i) = Count(places, i - 1) + (IF i \in places THEN 1 ELSE 0)
  BY CountStep
<1> HIDE DEF Count
<1>3. Count(places, c) \in Nat /\ Count(places, c - 1) \in Nat
  BY <1>1, <1>2
<1> QED BY <1>2, <1>3

\* Where the depth falls, a group ends.
LEMMA DepthStep ==
  ASSUME NEW t, NEW n \in Nat, NEW c \in 1 .. n, Depth(t, c) < Depth(t, c - 1)
  PROVE  t[c] = "]"
<1>1. PICK opens \in SUBSET (1 .. n), closes \in SUBSET (1 .. n) :
        opens = {j \in 1 .. n : t[j] = "["} /\ closes = {j \in 1 .. n : t[j] = "]"}
  OBVIOUS
<1>2. \A k \in 0 .. n : Depth(t, k) = Count(opens, k) - Count(closes, k)
  <2>1. SUFFICES ASSUME NEW k \in 0 .. n PROVE Depth(t, k) = Count(opens, k) - Count(closes, k)
    OBVIOUS
  <2>2. {j \in 1 .. k : t[j] = "["} = {j \in opens : j <= k} /\ {j \in 1 .. k : t[j] = "]"} = {j \in closes : j <= k}
    BY <1>1
  <2> QED BY <2>2 DEF Depth, Count
<1>3. c \in 0 .. n /\ c - 1 \in 0 .. n
  OBVIOUS
<1>4. /\ Count(opens, c) = Count(opens, c - 1) + (IF c \in opens THEN 1 ELSE 0)
      /\ Count(opens, c) \in Nat /\ Count(opens, c - 1) \in Nat
      /\ Count(closes, c) = Count(closes, c - 1) + (IF c \in closes THEN 1 ELSE 0)
      /\ Count(closes, c) \in Nat /\ Count(closes, c - 1) \in Nat
  BY CountAt
<1>5. c \in closes
  BY <1>2, <1>3, <1>4
<1> QED BY <1>1, <1>5

\* Places inside a group, from the template's to its own.
LEMMA InsideAt ==
  ASSUME NEW n \in Nat, NEW i \in 1 .. n, NEW c \in i + 1 .. n, NEW m \in Nat, m = c - 1 - i,
         NEW j \in 1 .. m, NEW p \in 1 .. n, p = i + j, NEW a \in 1 .. n, a = p + 1, NEW b \in 1 .. n, b = p + 2,
         c # a, c # b
  PROVE  j + 1 \in 1 .. m /\ j + 2 \in 1 .. m /\ i + (j + 1) = a /\ i + (j + 2) = b
  OBVIOUS

-----------------------------------------------------------------------------
(* Segments, and a folder that is cut. *)

Shortening == INSTANCE FoldProofs WITH Op <- LAMBDA p, s, k : Shorten(s, Len(s) + 1 - k, p)
Adding == INSTANCE FoldProofs WITH Op <- LAMBDA p, n, s : n + Len(s)

\* The segments after each cut.
IsFitting(f, segs, budget) ==
  /\ DOMAIN f = 0 .. Len(segs) /\ f[0] = segs
  /\ \A k \in 1 .. Len(segs) : f[k] = Shorten(f[k - 1], Len(f[k - 1]) + 1 - k, budget)

\* fitDirSegments cuts the segments one after the other.
LEMMA FittingRun ==
  ASSUME NEW segs, IsList(segs), NEW budget
  PROVE  \E f : IsFitting(f, segs, budget) /\ FitDirSegments(segs, budget) = f[Len(segs)]
<1> DEFINE ks == [k \in DOMAIN segs |-> k]
<1>1. Len(segs) \in Nat /\ DOMAIN segs = 1 .. Len(segs)
  BY ListParts
<1>2. DOMAIN ks = 1 .. Len(segs) /\ \A k \in 1 .. Len(segs) : ks[k] = k
  BY <1>1
<1>3. FitDirSegments(segs, budget) = Shortening!Fold(budget, segs, ks)
  BY DEF FitDirSegments, Shortening!Fold, Shortening!IsIter, Shortening!Pick, FoldLeft, MapThenFoldSet, Max
<1> HIDE DEF ks
<1>4. PICK f : Shortening!IsRun(f, budget, segs, ks, Len(segs)) /\ Shortening!Fold(budget, segs, ks) = f[Len(segs)]
  BY <1>1, <1>2, Shortening!FoldSteps
<1>5. IsFitting(f, segs, budget)
  BY <1>2, <1>4 DEF IsFitting, Shortening!IsRun
<1> QED BY <1>3, <1>4, <1>5

\* A cut keeps the number of the segments.
LEMMA ShortenList ==
  ASSUME NEW segs, IsList(segs), NEW i, NEW budget
  PROVE  IsList(Shorten(segs, i, budget)) /\ Len(Shorten(segs, i, budget)) = Len(segs)
<1> DEFINE cut == Cut(segs[i], Max({Len(segs[i]) - (ChainLen(segs) - budget), MinSegment}))
           new == [segs EXCEPT ![i] = cut]
<1>1. Shorten(segs, i, budget) = segs \/ Shorten(segs, i, budget) = new
  BY DEF Shorten
<1>2. Len(segs) \in Nat /\ DOMAIN segs = 1 .. Len(segs)
  BY ListParts
<1> HIDE DEF cut
<1>3. new = [j \in 1 .. Len(segs) |-> new[j]]
  BY <1>2
<1> HIDE DEF new
<1>4. IsList(new) /\ Len(new) = Len(segs)
  BY <1>2, <1>3, ListOf
<1> QED BY <1>1, <1>4

\* And so do all the cuts.
LEMMA FittedList ==
  ASSUME NEW segs, IsList(segs), NEW budget
  PROVE  IsList(FitDirSegments(segs, budget)) /\ Len(FitDirSegments(segs, budget)) = Len(segs)
<1>1. PICK f : IsFitting(f, segs, budget) /\ FitDirSegments(segs, budget) = f[Len(segs)]
  BY FittingRun
<1>2. PICK n \in Nat : n = Len(segs)
  BY ListParts
<1> DEFINE K == {k \in Nat : k <= n => IsList(f[k]) /\ Len(f[k]) = n}
<1>3. 0 \in K
  BY <1>1, <1>2 DEF IsFitting
<1>4. ASSUME NEW k \in Nat, k \in K PROVE k + 1 \in K
  <2>1. SUFFICES ASSUME k + 1 <= n PROVE IsList(f[k + 1]) /\ Len(f[k + 1]) = n
    OBVIOUS
  <2>2. IsList(f[k]) /\ Len(f[k]) = n
    BY <1>4, <2>1
  <2>3. PICK i : f[k + 1] = Shorten(f[k], i, budget)
    <3>1. k + 1 \in 1 .. n /\ (k + 1) - 1 = k
      BY <2>1
    <3> QED BY <1>1, <1>2, <3>1 DEF IsFitting
  <2> QED BY <2>2, <2>3, ShortenList
<1>5. Nat \subseteq K
  <2> HIDE DEF K
  <2> QED BY <1>3, <1>4, NatInd
<1> QED BY <1>1, <1>2, <1>5

\* The last names of paths that are the same without case.
LEMMA FoldedLast ==
  ASSUME NEW p, NEW q, IsList(p), IsList(q), p # <<>>, q # <<>>, FoldedPath(p) = FoldedPath(q)
  PROVE  Folded(Last(p)) = Folded(Last(q))
<1>1. DOMAIN p = 1 .. Len(p) /\ Len(p) \in Nat /\ Len(p) # 0 /\ DOMAIN q = 1 .. Len(q) /\ Len(q) \in Nat /\ Len(q) # 0
  BY ListParts, EmptyIs
<1> DEFINE a == [i \in DOMAIN p |-> Folded(p[i])]
           b == [i \in DOMAIN q |-> Folded(q[i])]
<1>2. a = b
  BY DEF FoldedPath
<1>3. DOMAIN a = 1 .. Len(p) /\ DOMAIN b = 1 .. Len(q) /\ (\A i \in DOMAIN p : a[i] = Folded(p[i]))
      /\ (\A i \in DOMAIN q : b[i] = Folded(q[i]))
  BY <1>1
<1> HIDE DEF a, b
<1>4. Len(p) = Len(q)
  BY <1>1, <1>2, <1>3, SameInterval
<1>5. Len(p) \in DOMAIN p /\ Len(p) \in DOMAIN q
  BY <1>1, <1>4
<1>6. Folded(p[Len(p)]) = Folded(q[Len(q)])
  BY <1>2, <1>3, <1>4, <1>5
<1> QED BY <1>6 DEF Last

\* What is left of a name without its illegal characters.
SaneOf(name) == Filter([i \in DOMAIN name |-> Sane(name[i])], LAMBDA s : s # "")

\* It has the pieces that are sane.
LEMMA SaneOver ==
  ASSUME NEW name, IsList(name), NEW G, \A i \in DOMAIN name : Sane(name[i]) \in G
  PROVE  Over(G, SaneOf(name))
<1> DEFINE s == [i \in DOMAIN name |-> Sane(name[i])]
           places == {i \in DOMAIN s : s[i] # ""}
           n == Cardinality(places)
           A == [k \in 1 .. n |-> s[Nth(places, k)]]
<1>1. SaneOf(name) = A
  BY DEF SaneOf, Filter
<1>2. PICK m \in Nat : m = Len(name) /\ DOMAIN name = 1 .. m
  BY ListParts
<1>3. DOMAIN s = 1 .. m /\ \A i \in 1 .. m : s[i] \in G
  BY <1>2
<1>4. places \in SUBSET (1 .. m)
  BY <1>3
<1> HIDE DEF s, places
<1>5. n \in 0 .. m /\ \A k \in 1 .. n : Nth(places, k) \in places
  BY <1>4, NthPlace
<1> HIDE DEF n
<1>6. IsList(A) /\ DOMAIN A = 1 .. n
  <2>1. A = [k \in 1 .. n |-> A[k]]
    OBVIOUS
  <2> HIDE DEF A
  <2> QED BY <1>5, <2>1, ListOf
<1>7. \A k \in 1 .. n : A[k] \in G
  <2>1. SUFFICES ASSUME NEW k \in 1 .. n PROVE s[Nth(places, k)] \in G
    OBVIOUS
  <2>2. Nth(places, k) \in 1 .. m
    BY <1>4, <1>5
  <2> QED BY <1>3, <2>2
<1> QED BY <1>1, <1>6, <1>7 DEF Over

\* The beginning of a name.
LEMMA CutIs ==
  ASSUME NEW G, NEW name, Over(G, name), NEW m \in Nat, m = Len(name), NEW length \in Nat
  PROVE  Over(G, Cut(name, length)) /\ Len(Cut(name, length)) = IF m < length THEN m ELSE length
<1>1. PICK n \in Nat : n = IF m < length THEN m ELSE length
  OBVIOUS
<1>2. 1 \in Nat \ {0} /\ n <= m /\ 1 <= n + 1
  BY <1>1
<1>3. Cut(name, length) = SubSeq(name, 1, n)
  BY <1>1 DEF Cut
<1>4. Over(G, SubSeq(name, 1, n))
  BY <1>2, OverSub
<1>5. Len(SubSeq(name, 1, n)) = n + 1 - 1
  BY <1>2, ListSub DEF Over
<1>6. n + 1 - 1 = n
  OBVIOUS
<1> QED BY <1>1, <1>3, <1>4, <1>5, <1>6

\* A segment is a name: its sane pieces, or one of the two that stand for something else.
LEMMA SegmentOver ==
  ASSUME NEW name, IsList(name), NEW G, "Unknown" \in G, "_" \in G, \A i \in DOMAIN name : Sane(name[i]) \in G
  PROVE  Over(G, SanitizeSegment(name)) /\ SanitizeSegment(name) # <<>>
<1>1. PICK sane : sane = SaneOf(name)
  OBVIOUS
<1>2. Over(G, sane)
  BY <1>1, SaneOver
<1>3. SanitizeSegment(name) = IF sane = <<>> THEN <<"Unknown">>
                              ELSE Cut(IF Device(sane) THEN <<"_">> \o sane ELSE sane, MaxSegment)
  BY <1>1 DEF SanitizeSegment, SaneOf
<1>4. CASE sane = <<>>
  <2>1. Over(G, <<"Unknown">>)
    BY OverShort
  <2>2. PICK x : x = "Unknown"
    OBVIOUS
  <2>3. <<x>> # <<>>
    BY <1>2, <1>4, Short, SomeIs DEF Over
  <2> QED BY <1>3, <1>4, <2>1, <2>2, <2>3
<1>5. CASE sane # <<>>
  <2>1. PICK whole : whole = IF Device(sane) THEN <<"_">> \o sane ELSE sane
    OBVIOUS
  <2>2. Over(G, whole)
    <3>1. Over(G, <<"_">>)
      BY OverShort
    <3>2. Over(G, <<"_">> \o sane)
      BY <1>2, <3>1, OverConcat
    <3> QED BY <1>2, <2>1, <3>2
  <2>3. whole # <<>>
    <3>1. IsList(<<"_">>)
      BY Short
    <3>2. <<"_">> \o sane # <<>>
      BY <1>2, <1>5, <3>1, SomeIs DEF Over
    <3> QED BY <1>5, <2>1, <3>2
  <2>4. PICK m \in Nat : m = Len(whole) /\ m # 0
    BY <2>2, <2>3, ListParts, EmptyIs DEF Over
  <2>5. PICK cut : cut = Cut(whole, MaxSegment)
    OBVIOUS
  <2>6. Over(G, cut) /\ Len(cut) = IF m < MaxSegment THEN m ELSE MaxSegment
    BY <2>2, <2>4, <2>5, CutIs, LengthsAssumption
  <2>7. Len(cut) # 0
    BY <2>4, <2>6, LengthsAssumption
  <2>8. cut # <<>>
    BY <2>6, <2>7, EmptyIs DEF Over
  <2> QED BY <1>3, <1>5, <2>1, <2>5, <2>6, <2>8
<1> QED BY <1>4, <1>5

\* A segment is a list.
LEMMA SegmentList ==
  ASSUME NEW name, IsList(name)
  PROVE  IsList(SanitizeSegment(name)) /\ SanitizeSegment(name) # <<>>
<1>1. PICK G : G = {"Unknown", "_"} \cup {Sane(name[i]) : i \in DOMAIN name}
  OBVIOUS
<1>2. "Unknown" \in G /\ "_" \in G /\ \A i \in DOMAIN name : Sane(name[i]) \in G
  BY <1>1
<1> QED BY <1>2, SegmentOver DEF Over

\* No piece becomes a brace.
SaneText == \A s : s # "{" => Sane(s) # "{"

\* One piece more.
LEMMA OverAppend ==
  ASSUME NEW G, NEW s, Over(G, s), NEW x \in G
  PROVE  Over(G, Append(s, x))
<1>1. PICK n \in Nat : n = Len(s) /\ DOMAIN s = 1 .. n
  BY ListParts DEF Over
<1>2. PICK t : t = Append(s, x)
  OBVIOUS
<1>3. IsList(t) /\ Len(t) = n + 1 /\ (\A i \in 1 .. n : t[i] = s[i]) /\ t[n + 1] = x
  BY <1>1, <1>2, ListAppend DEF Over
<1>4. DOMAIN t = 1 .. n + 1
  BY <1>3, ListParts
<1>5. \A i \in 1 .. n + 1 : i \in 1 .. n \/ i = n + 1
  OBVIOUS
<1> QED BY <1>1, <1>2, <1>3, <1>4, <1>5 DEF Over

-----------------------------------------------------------------------------
(* The length of a path. *)

\* Names that are lists.
Lengthy(segs) == IsList(segs) /\ \A i \in DOMAIN segs : IsList(segs[i])

\* The lengths so far.
IsSum(f, segs, n) == DOMAIN f = 0 .. n /\ f[0] = n - 1 /\ \A k \in 1 .. n : f[k] = f[k - 1] + Len(segs[k])

\* segChainLen adds the lengths one after the other.
LEMMA ChainRun ==
  ASSUME NEW segs, IsList(segs), NEW n \in Nat, n = Len(segs)
  PROVE  \E f : IsSum(f, segs, n) /\ ChainLen(segs) = f[n]
<1>1. DOMAIN segs = 1 .. n
  BY ListParts
<1>2. PICK f : Adding!IsRun(f, 0, n - 1, segs, n) /\ Adding!Fold(0, n - 1, segs) = f[n]
  BY <1>1, Adding!FoldSteps
<1>3. ChainLen(segs) = Adding!Fold(0, Len(segs) - 1, segs)
  BY DEF ChainLen, Adding!Fold, Adding!IsIter, Adding!Pick, FoldLeft, MapThenFoldSet, Max
<1>4. IsSum(f, segs, n)
  BY <1>2 DEF IsSum, Adding!IsRun
<1> QED BY <1>2, <1>3, <1>4

\* It is a number, and a name more adds its length and a separator.
LEMMA ChainAppend ==
  ASSUME NEW segs, Lengthy(segs), NEW name, NEW l \in Nat, l = Len(name)
  PROVE  ChainLen(segs) \in Int /\ ChainLen(Append(segs, name)) = ChainLen(segs) + 1 + l
<1>1. PICK n \in Nat : n = Len(segs) /\ DOMAIN segs = 1 .. n
  BY ListParts DEF Lengthy
<1>2. PICK f : IsSum(f, segs, n) /\ ChainLen(segs) = f[n]
  BY <1>1, ChainRun DEF Lengthy
<1>3. PICK all : all = Append(segs, name)
  OBVIOUS
<1>4. IsList(all) /\ Len(all) = n + 1 /\ (\A i \in 1 .. n : all[i] = segs[i]) /\ all[n + 1] = name
  BY <1>1, <1>3, ListAppend DEF Lengthy
<1>5. PICK m \in Nat : m = n + 1
  OBVIOUS
<1>6. PICK g : IsSum(g, all, m) /\ ChainLen(all) = g[m]
  BY <1>4, <1>5, ChainRun
<1>7. \A i \in 1 .. n : Len(segs[i]) \in Nat
  BY <1>1, ListParts DEF Lengthy
<1> DEFINE K == {k \in Nat : k <= n => f[k] \in Int /\ g[k] = f[k] + 1}
<1>8. 0 \in K
  <2>1. f[0] = n - 1 /\ g[0] = m - 1
    BY <1>2, <1>6 DEF IsSum
  <2> QED BY <1>5, <2>1
<1>9. ASSUME NEW k \in Nat, k \in K PROVE k + 1 \in K
  <2>1. SUFFICES ASSUME k + 1 <= n PROVE f[k + 1] \in Int /\ g[k + 1] = f[k + 1] + 1
    OBVIOUS
  <2>2. k + 1 \in 1 .. n /\ k + 1 \in 1 .. m /\ (k + 1) - 1 = k
    BY <1>5, <2>1
  <2>3. f[k + 1] = f[k] + Len(segs[k + 1])
    BY <1>2, <2>2 DEF IsSum
  <2>4. g[k + 1] = g[k] + Len(segs[k + 1])
    BY <1>4, <1>6, <2>2 DEF IsSum
  <2>5. Len(segs[k + 1]) \in Nat /\ f[k] \in Int /\ g[k] = f[k] + 1
    BY <1>7, <1>9, <2>1, <2>2
  <2> QED BY <2>3, <2>4, <2>5
<1>10. Nat \subseteq K
  <2> HIDE DEF K
  <2> QED BY <1>8, <1>9, NatInd
<1>11. f[n] \in Int /\ g[n] = f[n] + 1
  BY <1>10
<1>12. g[m] = g[n] + l
  <2>1. m \in 1 .. m /\ m - 1 = n /\ all[m] = name
    BY <1>4, <1>5
  <2> QED BY <1>6, <2>1 DEF IsSum
<1> QED BY <1>2, <1>3, <1>6, <1>11, <1>12

\* A chain that is empty has a length too.
LEMMA ChainInt ==
  ASSUME NEW segs, Lengthy(segs)
  PROVE  ChainLen(segs) \in Int
<1>1. PICK e : e = <<>> /\ Len(e) = 0
  BY Short
<1>2. PICK l \in Nat : l = Len(e)
  BY <1>1
<1> QED BY <1>2, ChainAppend

\* Names that are cut, and not to less than what is still a name.
CutFrom(whole, segs, n) ==
  /\ Lengthy(segs) /\ Len(segs) = n
  /\ \A i \in 1 .. n : Len(segs[i]) >= Min({MinSegment, Len(whole[i])})

\* A cut leaves enough of a name.
LEMMA ShortenCuts ==
  ASSUME NEW whole, Lengthy(whole), NEW n \in Nat, n = Len(whole), NEW segs, CutFrom(whole, segs, n),
         NEW i, NEW budget \in Int
  PROVE  CutFrom(whole, Shorten(segs, i, budget), n)
<1>1. PICK new : new = Shorten(segs, i, budget)
  OBVIOUS
<1>2. IsList(new) /\ Len(new) = n
  BY <1>1, ShortenList DEF CutFrom, Lengthy
<1>3. DOMAIN segs = 1 .. n /\ DOMAIN new = 1 .. n
  BY <1>2, ListParts DEF CutFrom, Lengthy
<1>4. PICK over \in Int : over = ChainLen(segs) - budget
  BY ChainInt DEF CutFrom
<1>5. CASE ~(over > 0)
  <2>1. new = segs
    BY <1>1, <1>4, <1>5 DEF Shorten
  <2> QED BY <1>1, <2>1
<1>6. CASE over > 0 /\ i \notin 1 .. n
  <2>1. new = [segs EXCEPT ![i] = Cut(segs[i], Max({Len(segs[i]) - over, MinSegment}))]
    BY <1>1, <1>4, <1>6 DEF Shorten
  <2>2. \A j \in 1 .. n : new[j] = segs[j]
    BY <1>3, <1>6, <2>1
  <2>3. new = segs
    BY <1>2, <1>3, <2>2, ListEqual DEF CutFrom, Lengthy
  <2> QED BY <1>1, <2>3
<1>7. CASE over > 0 /\ i \in 1 .. n
  <2>1. PICK name : name = segs[i]
    OBVIOUS
  <2>2. PICK l \in Nat : l = Len(name) /\ IsList(name)
    BY <1>3, <1>7, <2>1, ListParts DEF CutFrom, Lengthy
  <2>3. PICK keep : keep = Max({l - over, MinSegment})
    OBVIOUS
  <2>4. keep \in Nat /\ keep >= MinSegment
    <3>1. l - over \in Int /\ MinSegment \in Int /\ MinSegment \in Nat
      BY LengthsAssumption
    <3>2. keep = IF l - over >= MinSegment THEN l - over ELSE MinSegment
      BY <2>3, <3>1, OfTwo
    <3> QED BY <3>1, <3>2
  <2>5. PICK cut : cut = Cut(name, keep)
    OBVIOUS
  <2>6. IsList(cut) /\ Len(cut) = IF l < keep THEN l ELSE keep
    <3>1. Over(Range(name), name)
      BY <2>2 DEF Over, Range
    <3>2. Over(Range(name), cut) /\ Len(cut) = IF l < keep THEN l ELSE keep
      BY <2>2, <2>4, <2>5, <3>1, CutIs
    <3> QED BY <3>2 DEF Over
  <2>7. new = [segs EXCEPT ![i] = cut]
    BY <1>1, <1>4, <1>7, <2>1, <2>2, <2>3, <2>5 DEF Shorten
  <2>8. new[i] = cut /\ \A j \in 1 .. n : j # i => new[j] = segs[j]
    BY <1>3, <1>7, <2>7
  <2>9. Lengthy(new)
    BY <1>2, <1>3, <2>6, <2>8 DEF CutFrom, Lengthy
  <2>10. Len(cut) >= Min({MinSegment, Len(whole[i])})
    <3>1. PICK w \in Nat : w = Len(whole[i])
      BY <1>7, ListParts DEF Lengthy
    <3>2. PICK least : least = Min({MinSegment, w})
      OBVIOUS
    <3>3. MinSegment \in Int /\ w \in Int /\ MinSegment \in Nat
      BY LengthsAssumption
    <3>4. least = IF MinSegment <= w THEN MinSegment ELSE w
      BY <3>2, <3>3, OfTwo
    <3>5. l >= least
      BY <1>7, <2>1, <2>2, <3>1, <3>2 DEF CutFrom
    <3>6. Len(cut) >= least
      BY <2>4, <2>6, <3>3, <3>4, <3>5
    <3> QED BY <3>1, <3>2, <3>6
  <2>11. \A j \in 1 .. n : Len(new[j]) >= Min({MinSegment, Len(whole[j])})
    BY <2>8, <2>10 DEF CutFrom
  <2> QED BY <1>1, <1>2, <2>9, <2>11 DEF CutFrom
<1> QED BY <1>5, <1>6, <1>7

\* And so do all the cuts.
LEMMA FittedCuts ==
  ASSUME NEW whole, Lengthy(whole), NEW n \in Nat, n = Len(whole), NEW budget \in Int
  PROVE  CutFrom(whole, FitDirSegments(whole, budget), n)
<1>1. PICK f : IsFitting(f, whole, budget) /\ FitDirSegments(whole, budget) = f[Len(whole)]
  BY FittingRun DEF Lengthy
<1> DEFINE K == {k \in Nat : k <= n => CutFrom(whole, f[k], n)}
<1>2. 0 \in K
  <2>1. ASSUME NEW i \in 1 .. n PROVE Len(whole[i]) >= Min({MinSegment, Len(whole[i])})
    <3>1. PICK w \in Nat : w = Len(whole[i])
      BY ListParts DEF Lengthy
    <3>2. MinSegment \in Int /\ w \in Int
      BY LengthsAssumption
    <3>3. Min({MinSegment, w}) = IF MinSegment <= w THEN MinSegment ELSE w
      BY <3>2, OfTwo
    <3>4. w >= Min({MinSegment, w})
      BY <3>2, <3>3
    <3> QED BY <3>1, <3>4
  <2>2. f[0] = whole
    BY <1>1 DEF IsFitting
  <2> QED BY <2>1, <2>2 DEF CutFrom
<1>3. ASSUME NEW k \in Nat, k \in K PROVE k + 1 \in K
  <2>1. SUFFICES ASSUME k + 1 <= n PROVE CutFrom(whole, f[k + 1], n)
    OBVIOUS
  <2>2. CutFrom(whole, f[k], n)
    BY <1>3, <2>1
  <2>3. PICK i : f[k + 1] = Shorten(f[k], i, budget)
    <3>1. k + 1 \in 1 .. n /\ (k + 1) - 1 = k
      BY <2>1
    <3> QED BY <1>1, <3>1 DEF IsFitting
  <2> QED BY <2>2, <2>3, ShortenCuts
<1>4. Nat \subseteq K
  <2> HIDE DEF K
  <2> QED BY <1>2, <1>3, NatInd
<1> QED BY <1>1, <1>4

-----------------------------------------------------------------------------
\* One element in front of a list.
LEMMA ListPrepend ==
  ASSUME NEW s, IsList(s), NEW n \in Nat, n = Len(s), NEW x, NEW t, t = <<x>> \o s
  PROVE  /\ IsList(t) /\ Len(t) = n + 1 /\ DOMAIN t = 1 .. n + 1
         /\ t[1] = x /\ \A i \in 1 .. n : t[i + 1] = s[i]
<1>1. PICK one : one = <<x>>
  OBVIOUS
<1>2. IsList(one) /\ Len(one) = 1 /\ one[1] = x
  BY <1>1, Short
<1>3. IsList(one) /\ IsList(s) /\ t = one \o s
  BY <1>1, <1>2
<1>4. /\ IsList(t) /\ Len(t) = Len(one) + Len(s) /\ (\A i \in 1 .. Len(one) : t[i] = one[i])
      /\ \A i \in 1 .. Len(s) : t[Len(one) + i] = s[i]
  <2>1. IsList(one \o s) /\ Len(one \o s) = Len(one) + Len(s)
    BY <1>3, ListConcat
  <2>2. \A i \in 1 .. Len(one) : (one \o s)[i] = one[i]
    BY <1>3, ListConcat
  <2>3. \A i \in 1 .. Len(s) : (one \o s)[Len(one) + i] = s[i]
    BY <1>3, ListConcat
  <2> QED BY <1>3, <2>1, <2>2, <2>3
<1>5. Len(t) = n + 1 /\ t[1] = x /\ \A i \in 1 .. n : t[1 + i] = s[i]
  BY <1>2, <1>4
<1>6. \A i \in 1 .. n : 1 + i = i + 1
  OBVIOUS
<1>7. DOMAIN t = 1 .. n + 1
  BY <1>4, <1>5, ListParts
<1> QED BY <1>4, <1>5, <1>6, <1>7

-----------------------------------------------------------------------------
(* The same elements, filtered from two lists. *)

\* h leads from the places of one list to those of another, in order.
Leads(h, m, P, n, Q) ==
  /\ m \in Nat /\ n \in Nat /\ P \subseteq 1 .. m /\ Q \subseteq 1 .. n
  /\ \A i \in P : h[i] \in Q
  /\ \A i, j \in P : i < j => h[i] < h[j]
  /\ \A q \in Q : \E i \in P : h[i] = q

\* As many come before.
LEMMA LeadsCount ==
  ASSUME NEW h, NEW m, NEW P, NEW n, NEW Q, Leads(h, m, P, n, Q)
  PROVE  Cardinality(Q) = Cardinality(P) /\ \A i \in P : Count(Q, h[i]) = Count(P, i)
<1>0. \A i \in P : i \in Nat
  BY DEF Leads
<1>1. \A q \in Q : q \in Nat
  BY DEF Leads
<1>2. IsFiniteSet(P)
  BY PositionSets DEF Leads
<1>3. \A i, j \in P : h[i] = h[j] => i = j
  <2>1. SUFFICES ASSUME NEW i \in P, NEW j \in P, h[i] = h[j], i # j PROVE FALSE
    OBVIOUS
  <2>2. i < j \/ j < i
    BY <1>0, <2>1
  <2>3. h[i] < h[j] \/ h[j] < h[i]
    BY <2>2 DEF Leads
  <2>4. h[i] \in Nat /\ h[j] \in Nat
    BY <1>1 DEF Leads
  <2> QED BY <2>1, <2>3, <2>4
<1>4. ASSUME NEW A \in SUBSET P, NEW B \in SUBSET Q, \A i \in A : h[i] \in B, \A q \in B : \E i \in A : h[i] = q
      PROVE  Cardinality(B) = Cardinality(A)
  <2> DEFINE g == [i \in A |-> h[i]]
  <2>1. IsFiniteSet(A)
    BY <1>2, FS_Subset
  <2>2. g \in Bijection(A, B)
    BY <1>3, <1>4 DEF Bijection, Injection, Surjection, IsInjective
  <2>3. ExistsBijection(A, B)
    BY <2>2 DEF ExistsBijection
  <2> QED BY <2>1, <2>3, FS_Bijection
<1>5. Cardinality(Q) = Cardinality(P)
  BY <1>4 DEF Leads
<1>6. ASSUME NEW i \in P PROVE Count(Q, h[i]) = Count(P, i)
  <2>1. PICK A \in SUBSET P : A = {j \in P : j <= i}
    OBVIOUS
  <2>2. PICK B \in SUBSET Q : B = {q \in Q : q <= h[i]}
    OBVIOUS
  <2>3. ASSUME NEW j \in P PROVE j <= i <=> h[j] <= h[i]
    <3>1. j < i => h[j] < h[i]
      BY DEF Leads
    <3>2. i < j => h[i] < h[j]
      BY DEF Leads
    <3>3. i \in Nat /\ j \in Nat /\ h[i] \in Nat /\ h[j] \in Nat
      BY <1>0, <1>1 DEF Leads
    <3>4. j = i => h[j] = h[i]
      OBVIOUS
    <3> QED BY <3>1, <3>2, <3>3, <3>4
  <2>4. \A j \in A : h[j] \in B
    BY <2>1, <2>2, <2>3 DEF Leads
  <2>5. \A q \in B : \E j \in A : h[j] = q
    BY <2>1, <2>2, <2>3 DEF Leads
  <2>6. Cardinality(B) = Cardinality(A)
    BY <1>4, <2>4, <2>5
  <2> QED BY <2>1, <2>2, <2>6 DEF Count
<1> QED BY <1>5, <1>6

\* What is at the places of one list is at those of the other.
LEMMA SamePicked ==
  ASSUME NEW h, NEW m, NEW P, NEW n, NEW Q, Leads(h, m, P, n, Q), NEW s, NEW t, \A i \in P : s[i] = t[h[i]]
  PROVE  [k \in 1 .. Cardinality(P) |-> s[Nth(P, k)]] = [k \in 1 .. Cardinality(Q) |-> t[Nth(Q, k)]]
<1>1. Cardinality(Q) = Cardinality(P) /\ \A i \in P : Count(Q, h[i]) = Count(P, i)
  BY LeadsCount
<1>2. ASSUME NEW k \in 1 .. Cardinality(P) PROVE s[Nth(P, k)] = t[Nth(Q, k)]
  <2>1. PICK i \in P : i = Nth(P, k) /\ Count(P, i) = k
    BY NthPlace DEF Leads
  <2>2. h[i] \in Q
    BY DEF Leads
  <2>3. Nth(Q, Count(Q, h[i])) = h[i]
    BY <2>2, NthPlace DEF Leads
  <2>4. Nth(Q, k) = h[i]
    BY <1>1, <2>1, <2>3
  <2>5. s[i] = t[h[i]]
    OBVIOUS
  <2> QED BY <2>1, <2>4, <2>5
<1> QED BY <1>1, <1>2

-----------------------------------------------------------------------------
(* Totals. *)

Sizing == INSTANCE FoldProofs WITH Op <- LAMBDA p, n, k : n + k.size
Summing == INSTANCE FoldProofs WITH Op <- LAMBDA p, n, l : n + l

\* f has what base and the first numbers of v make.
IsTotal(f, base, v, n) ==
  /\ n \in Nat /\ base \in Int /\ \A k \in 1 .. n : v[k] \in Int
  /\ f[0] = base /\ \A k \in 1 .. n : f[k] = f[k - 1] + v[k]

\* The numbers of w are those of v, and what d grows by.
Drifts(d, v, w, n) == \A k \in 0 .. n : d[k] \in Int /\ (k > 0 => w[k] = v[k] + (d[k] - d[k - 1]))

\* A list of numbers with one number more, at the end or in front.
OneMore(v, w, n, x) ==
  /\ x \in Int
  /\ \/ (\A k \in 1 .. n : w[k] = v[k]) /\ w[n + 1] = x
     \/ (\A k \in 1 .. n : w[k + 1] = v[k]) /\ w[1] = x

\* If the numbers of another list differ, its totals differ by as much.
LEMMA Drift ==
  ASSUME NEW n, NEW v, NEW b, NEW f, IsTotal(f, b, v, n),
         NEW d, NEW w, Drifts(d, v, w, n), NEW c, c = b + d[0], NEW g, IsTotal(g, c, w, n)
  PROVE  \A k \in 0 .. n : f[k] \in Int /\ g[k] = f[k] + d[k]
<1> DEFINE K == {k \in Nat : k <= n => f[k] \in Int /\ g[k] = f[k] + d[k]}
<1>0. n \in Nat
  BY DEF IsTotal
<1>1. 0 \in K
  BY DEF IsTotal
<1>2. ASSUME NEW k \in Nat, k \in K PROVE k + 1 \in K
  <2>1. SUFFICES ASSUME k + 1 <= n PROVE f[k + 1] \in Int /\ g[k + 1] = f[k + 1] + d[k + 1]
    OBVIOUS
  <2>2. PICK j \in 1 .. n : j = k + 1 /\ j - 1 = k /\ j > 0 /\ k \in 0 .. n /\ j \in 0 .. n
    BY <1>0, <2>1
  <2>4. f[j] = f[k] + v[j] /\ g[j] = g[k] + w[j] /\ v[j] \in Int
    BY <2>2 DEF IsTotal
  <2>5. w[j] = v[j] + (d[j] - d[k])
    BY <2>2 DEF Drifts
  <2>6. d[j] \in Int /\ d[k] \in Int
    BY <2>2 DEF Drifts
  <2>7. f[k] \in Int /\ g[k] = f[k] + d[k]
    BY <1>2, <2>2
  <2> QED BY <2>2, <2>4, <2>5, <2>6, <2>7
<1>3. Nat \subseteq K
  <2> HIDE DEF K
  <2> QED BY <1>1, <1>2, NatInd
<1> QED BY <1>0, <1>3

SameNumbers(v, w, n) == n \in Nat /\ \A k \in 1 .. n : v[k] \in Int /\ w[k] = v[k]

\* A list that differs nowhere.
LEMMA NoDrift ==
  ASSUME NEW n, NEW v, NEW w, SameNumbers(v, w, n), NEW x \in Int
  PROVE  \E d : Drifts(d, v, w, n) /\ \A k \in 0 .. n : d[k] = x
<1>0. n \in Nat
  BY DEF SameNumbers
<1>1. PICK d : d = [k \in 0 .. n |-> x]
  OBVIOUS
<1>2. \A k \in 0 .. n : d[k] = x
  BY <1>1
<1>3. Drifts(d, v, w, n)
  <2>1. SUFFICES ASSUME NEW k \in 0 .. n PROVE d[k] \in Int /\ (k > 0 => w[k] = v[k] + (d[k] - d[k - 1]))
    BY DEF Drifts
  <2>2. CASE k > 0
    <3>1. k \in 1 .. n /\ k - 1 \in 0 .. n
      BY <1>0, <2>2
    <3>2. w[k] = v[k] /\ v[k] \in Int /\ d[k] = x /\ d[k - 1] = x
      BY <1>2, <3>1 DEF SameNumbers
    <3> QED BY <3>2
  <2> QED BY <1>2, <2>2
<1> QED BY <1>2, <1>3

\* None differs.
LEMMA TotalSame ==
  ASSUME NEW n, NEW v, NEW b, NEW f, IsTotal(f, b, v, n), NEW g, NEW w, IsTotal(g, b, w, n),
         \A k \in 1 .. n : w[k] = v[k]
  PROVE  \A k \in 0 .. n : f[k] \in Int /\ g[k] = f[k]
<1>1. b \in Int /\ n \in Nat /\ 0 \in Int /\ SameNumbers(v, w, n)
  BY DEF IsTotal, SameNumbers
<1>2. PICK d : Drifts(d, v, w, n) /\ \A k \in 0 .. n : d[k] = 0
  BY <1>1, NoDrift
<1>3. b = b + d[0]
  BY <1>1, <1>2
<1>4. \A k \in 0 .. n : f[k] \in Int /\ g[k] = f[k] + d[k]
  BY <1>2, <1>3, Drift
<1> QED BY <1>2, <1>4

\* A total is a number.
LEMMA TotalInt ==
  ASSUME NEW n, NEW v, NEW b, NEW f, IsTotal(f, b, v, n)
  PROVE  \A k \in 0 .. n : f[k] \in Int
  BY TotalSame

\* One number differs.
LEMMA TotalPoint ==
  ASSUME NEW n, NEW v, NEW b, NEW f, IsTotal(f, b, v, n), NEW g, NEW w, IsTotal(g, b, w, n),
         NEW i \in 1 .. n, NEW x \in Int, w[i] = v[i] + x, \A k \in 1 .. n : k # i => w[k] = v[k]
  PROVE  \A k \in 0 .. n : f[k] \in Int /\ g[k] = f[k] + (IF k < i THEN 0 ELSE x)
<1>0. n \in Nat /\ b \in Int /\ \A k \in 1 .. n : v[k] \in Int
  BY DEF IsTotal
<1>1. PICK d : d = [k \in 0 .. n |-> IF k < i THEN 0 ELSE x]
  OBVIOUS
<1>2. \A k \in 0 .. n : d[k] = (IF k < i THEN 0 ELSE x) /\ d[k] \in Int
  BY <1>1
<1>3. b = b + d[0]
  BY <1>0, <1>2
<1>4. Drifts(d, v, w, n)
  <2>1. SUFFICES ASSUME NEW k \in 0 .. n, k > 0 PROVE w[k] = v[k] + (d[k] - d[k - 1])
    BY <1>2 DEF Drifts
  <2>2. k \in 1 .. n /\ k - 1 \in 0 .. n
    BY <1>0, <2>1
  <2>3. d[k] = (IF k < i THEN 0 ELSE x) /\ d[k - 1] = (IF k - 1 < i THEN 0 ELSE x)
    BY <1>2, <2>2
  <2>4. v[k] \in Int
    BY <1>0, <2>2
  <2>5. CASE k = i
    BY <1>0, <2>3, <2>4, <2>5
  <2>6. CASE k # i
    <3>1. w[k] = v[k]
      BY <2>2, <2>6
    <3> QED BY <1>0, <2>2, <2>3, <2>4, <2>6, <3>1
  <2> QED BY <2>5, <2>6
<1>5. \A k \in 0 .. n : f[k] \in Int /\ g[k] = f[k] + d[k]
  BY <1>3, <1>4, Drift
<1> QED BY <1>2, <1>5

\* One number more.
LEMMA TotalMore ==
  ASSUME NEW n, NEW v, NEW b, NEW f, IsTotal(f, b, v, n),
         NEW m, m = n + 1, NEW w, NEW g, IsTotal(g, b, w, m), NEW x, OneMore(v, w, n, x)
  PROVE  f[n] \in Int /\ g[m] = f[n] + x
<1>0. n \in Nat /\ b \in Int /\ (\A k \in 1 .. n : v[k] \in Int) /\ n \in 0 .. n /\ m \in 1 .. m /\ x \in Int
  BY DEF IsTotal, OneMore
<1>1. CASE (\A k \in 1 .. n : w[k] = v[k]) /\ w[n + 1] = x
  <2>1. IsTotal(g, b, w, n)
    BY <1>0, <1>1 DEF IsTotal
  <2>2. f[n] \in Int /\ g[n] = f[n]
    BY <1>0, <1>1, <2>1, TotalSame
  <2>3. g[m] = g[m - 1] + w[m] /\ m - 1 = n
    BY <1>0 DEF IsTotal
  <2> QED BY <1>1, <2>2, <2>3
<1>2. CASE (\A k \in 1 .. n : w[k + 1] = v[k]) /\ w[1] = x
  <2>1. PICK h : h = [k \in 0 .. n |-> g[k + 1]]
    OBVIOUS
  <2>2. g[0] = b /\ 1 \in 1 .. m /\ g[1] = g[1 - 1] + w[1]
    BY <1>0 DEF IsTotal
  <2>3. h[0] = b + x
    BY <1>0, <1>2, <2>1, <2>2
  <2>4. ASSUME NEW k \in 1 .. n PROVE h[k] = h[k - 1] + v[k]
    <3>1. PICK j \in 1 .. m : j = k + 1 /\ j - 1 = k
      BY <1>0
    <3>2. g[j] = g[k] + w[j] /\ w[j] = v[k]
      BY <1>2, <3>1 DEF IsTotal
    <3>3. h[k] = g[j] /\ h[k - 1] = g[k]
      BY <1>0, <2>1, <3>1
    <3> QED BY <3>2, <3>3
  <2>5. IsTotal(h, b + x, v, n)
    BY <1>0, <2>3, <2>4 DEF IsTotal
  <2>10. SameNumbers(v, v, n)
    BY <1>0 DEF SameNumbers, IsTotal
  <2>6. PICK d : Drifts(d, v, v, n) /\ \A k \in 0 .. n : d[k] = x
    BY <1>0, <2>10, NoDrift
  <2>7. b + x = b + d[0]
    BY <1>0, <2>6
  <2>8. \A k \in 0 .. n : f[k] \in Int /\ h[k] = f[k] + d[k]
    BY <2>5, <2>6, <2>7, Drift
  <2>9. h[n] = g[m] /\ d[n] = x
    BY <1>0, <2>1, <2>6
  <2> QED BY <1>0, <2>8, <2>9
<1> QED BY <1>1, <1>2 DEF OneMore
-----------------------------------------------------------------------------
(* Lengths of boxes, and offsets of parts. *)

SizesOf(kids) == [k \in DOMAIN kids |-> kids[k].size]

\* The length of a box is the total of its own and its children's.
LEMMA LengthRun ==
  ASSUME NEW b, Built1(b), NEW n \in Nat, n = Len(b.kids)
  PROVE  \E f : IsTotal(f, 1 + b.len, SizesOf(b.kids), n) /\ Length(b) = f[n]
<1>0. PICK len \in Int : len = b.len
  BY DEF Built1, IsBox
<1>1. PICK kids : kids = b.kids /\ IsList(kids)
  BY DEF Built1, IsBox
<1>2. DOMAIN kids = 1 .. n
  BY <1>1, ListParts
<1>3. \A k \in 1 .. n : kids[k].size \in Int
  BY <1>1, <1>2 DEF Built1, IsBox, ToSet
<1>4. PICK base \in Int : base = 1 + len
  OBVIOUS
<1>5. PICK f : Sizing!IsRun(f, 0, base, kids, n) /\ Sizing!Fold(0, base, kids) = f[n]
  BY <1>2, Sizing!FoldSteps
<1>6. Length(b) = Sizing!Fold(0, base, kids)
  BY <1>0, <1>1, <1>4 DEF Length, Box, Sizing!Fold, Sizing!IsIter, Sizing!Pick, FoldLeft, MapThenFoldSet, Max
<1>7. IsTotal(f, base, SizesOf(kids), n)
  BY <1>2, <1>3, <1>5 DEF IsTotal, SizesOf, Sizing!IsRun
<1> QED BY <1>0, <1>1, <1>4, <1>5, <1>6, <1>7

\* It is a number.
LEMMA LengthInt ==
  ASSUME NEW b, Built1(b)
  PROVE  Length(b) \in Int
<1>1. PICK n \in Nat : n = Len(b.kids)
  BY ListParts DEF Built1, IsBox
<1>2. PICK f : IsTotal(f, 1 + b.len, SizesOf(b.kids), n) /\ Length(b) = f[n]
  BY <1>1, LengthRun
<1>3. n \in 0 .. n
  OBVIOUS
<1> QED BY <1>2, <1>3, TotalInt

\* One child has another size.
LEMMA LengthPoint ==
  ASSUME NEW b, Built1(b), NEW c, Built1(c), c.len = b.len, NEW n \in Nat, n = Len(b.kids), n = Len(c.kids),
         NEW i \in 1 .. n, NEW d \in Int, c.kids[i].size = b.kids[i].size + d,
         \A k \in 1 .. n : k # i => c.kids[k].size = b.kids[k].size
  PROVE  Length(c) = Length(b) + d
<1>1. DOMAIN b.kids = 1 .. n /\ DOMAIN c.kids = 1 .. n
  BY ListParts DEF Built1, IsBox
<1>2. PICK base, v, w : base = 1 + b.len /\ v = SizesOf(b.kids) /\ w = SizesOf(c.kids)
  OBVIOUS
<1>3. PICK f : IsTotal(f, base, v, n) /\ Length(b) = f[n]
  BY <1>2, LengthRun
<1>4. PICK g : IsTotal(g, base, w, n) /\ Length(c) = g[n]
  BY <1>2, LengthRun
<1>5. w[i] = v[i] + d /\ \A k \in 1 .. n : k # i => w[k] = v[k]
  BY <1>1, <1>2 DEF SizesOf
<1>6. \A k \in 0 .. n : f[k] \in Int /\ g[k] = f[k] + (IF k < i THEN 0 ELSE d)
  BY <1>3, <1>4, <1>5, TotalPoint
<1>7. n \in 0 .. n /\ ~ (n < i)
  OBVIOUS
<1>8. g[n] = f[n] + d
  BY <1>6, <1>7
<1> QED BY <1>3, <1>4, <1>8

\* No child has another size.
LEMMA LengthSame ==
  ASSUME NEW b, Built1(b), NEW c, Built1(c), c.len = b.len, NEW n \in Nat, n = Len(b.kids), n = Len(c.kids),
         \A k \in 1 .. n : c.kids[k].size = b.kids[k].size
  PROVE  Length(c) = Length(b)
<1>1. DOMAIN b.kids = 1 .. n /\ DOMAIN c.kids = 1 .. n
  BY ListParts DEF Built1, IsBox
<1>2. PICK base, v, w : base = 1 + b.len /\ v = SizesOf(b.kids) /\ w = SizesOf(c.kids)
  OBVIOUS
<1>3. PICK f : IsTotal(f, base, v, n) /\ Length(b) = f[n]
  BY <1>2, LengthRun
<1>4. PICK g : IsTotal(g, base, w, n) /\ Length(c) = g[n]
  BY <1>2, LengthRun
<1>5. \A k \in 1 .. n : w[k] = v[k]
  BY <1>1, <1>2 DEF SizesOf
<1>6. \A k \in 0 .. n : f[k] \in Int /\ g[k] = f[k]
  BY <1>3, <1>4, <1>5, TotalSame
<1>7. n \in 0 .. n
  OBVIOUS
<1> QED BY <1>3, <1>4, <1>6, <1>7

\* One child more.
LEMMA LengthMore ==
  ASSUME NEW b, Built1(b), NEW c, Built1(c), c.len = b.len, NEW kid, IsBox(kid),
         c.kids = Append(b.kids, kid) \/ c.kids = <<kid>> \o b.kids
  PROVE  Length(c) = Length(b) + kid.size
<1>0. PICK kids : kids = b.kids /\ IsList(kids)
  BY DEF Built1, IsBox
<1>1. PICK n \in Nat : kids = b.kids /\ IsList(kids) /\ n = Len(kids) /\ DOMAIN kids = 1 .. n
  BY <1>0, ListParts
<1>2. PICK x \in Int : x = kid.size
  BY DEF IsBox
<1>11. PICK new : new = c.kids /\ IsList(new)
  BY DEF Built1, IsBox
<1>3. PICK m \in Nat : new = c.kids /\ IsList(new) /\ m = Len(new) /\ DOMAIN new = 1 .. m
  BY <1>11, ListParts
<1>4. \/ m = n + 1 /\ (\A k \in 1 .. n : new[k] = kids[k]) /\ new[n + 1] = kid
      \/ m = n + 1 /\ (\A k \in 1 .. n : new[k + 1] = kids[k]) /\ new[1] = kid
  <2>1. CASE c.kids = Append(b.kids, kid)
    BY <1>1, <1>3, <2>1, ListAppend
  <2>2. CASE c.kids = <<kid>> \o b.kids
    <3>1. new = <<kid>> \o kids
      BY <1>1, <1>3, <2>2
    <3>2. Len(new) = n + 1 /\ new[1] = kid /\ \A k \in 1 .. n : new[k + 1] = kids[k]
      BY <1>1, <3>1, ListPrepend
    <3> QED BY <1>3, <3>2
  <2> QED BY <2>1, <2>2
<1>5. PICK base, v, w : base = 1 + b.len /\ v = SizesOf(kids) /\ w = SizesOf(new)
  OBVIOUS
<1>6. PICK f : IsTotal(f, base, v, n) /\ Length(b) = f[n]
  BY <1>1, <1>5, LengthRun
<1>7. PICK g : IsTotal(g, base, w, m) /\ Length(c) = g[m]
  BY <1>3, <1>5, LengthRun
<1>8. OneMore(v, w, n, x)
  <2>1. \A k \in 1 .. n : v[k] = kids[k].size
    BY <1>1, <1>5 DEF SizesOf
  <2>2. \A k \in 1 .. m : w[k] = new[k].size
    BY <1>3, <1>5 DEF SizesOf
  <2>3. m = n + 1
    BY <1>4
  <2>4. \A k \in 1 .. n : k \in 1 .. m /\ k + 1 \in 1 .. m
    BY <2>3
  <2>5. 1 \in 1 .. m /\ n + 1 \in 1 .. m
    BY <2>3
  <2> QED BY <1>2, <1>4, <2>1, <2>2, <2>4, <2>5 DEF OneMore
<1>9. m = n + 1
  BY <1>4
<1>10. f[n] \in Int /\ g[m] = f[n] + x
  BY <1>6, <1>7, <1>8, <1>9, TotalMore
<1> QED BY <1>2, <1>6, <1>7, <1>10

LengthsOf(parts, n) == [k \in 1 .. n |-> Length(parts[k])]

\* An offset is the total of what is before.
LEMMA OffsetRun ==
  ASSUME NEW parts, NEW n \in Nat, \A k \in 1 .. n : Length(parts[k]) \in Int, NEW i \in 1 .. n + 1
  PROVE  \E f : IsTotal(f, 0, LengthsOf(parts, i - 1), i - 1) /\ Offset(parts, i) = f[i - 1]
<1>1. PICK m \in 0 .. n : m = i - 1
  OBVIOUS
<1>2. PICK v : v = LengthsOf(parts, m)
  OBVIOUS
<1>3. DOMAIN v = 1 .. m /\ m \in Nat /\ \A k \in 1 .. m : v[k] \in Int
  BY <1>2 DEF LengthsOf
<1>4. PICK f : Summing!IsRun(f, 0, 0, v, m) /\ Summing!Fold(0, 0, v) = f[m]
  <2>1. DOMAIN v = 1 .. m /\ m \in Nat
    BY <1>3
  <2> QED BY <2>1, Summing!FoldSteps
<1>5. Offset(parts, i) = Summing!Fold(0, 0, v)
  <2>1. v = [k \in 1 .. i - 1 |-> Length(parts[k])]
    BY <1>1, <1>2 DEF LengthsOf
  <2> HIDE DEF Length
  <2> QED
    BY <2>1 DEF Offset, Summing!Fold, Summing!IsIter, Summing!Pick, FoldLeft, MapThenFoldSet, Max
<1>6. IsTotal(f, 0, v, m)
  BY <1>3, <1>4 DEF IsTotal, Summing!IsRun
<1> QED BY <1>1, <1>2, <1>4, <1>5, <1>6
-----------------------------------------------------------------------------
(* Boxes at a path, and replaced there. *)

Descending == INSTANCE FoldProofs WITH Op <- LAMBDA p, b, i : b.kids[i]
Climbing == INSTANCE FoldProofs WITH Op <- LAMBDA p, child, a : [a.box EXCEPT !.kids[a.place] = child, !.size = @ + p]

\* A box gets another child in the place of one, and records d more.
Put(b, i, kid, d) == [b EXCEPT !.kids[i] = kid, !.size = @ + d]

\* At goes down one box after the other.
LEMMA AtRun ==
  ASSUME NEW b, NEW path, IsList(path), NEW n \in Nat, n = Len(path)
  PROVE  \E f : Descending!IsRun(f, 0, b, path, n) /\ At(b, path) = f[n]
<1>1. DOMAIN path = 1 .. n
  BY ListParts
<1>2. PICK f : Descending!IsRun(f, 0, b, path, n) /\ Descending!Fold(0, b, path) = f[n]
  BY <1>1, Descending!FoldSteps
<1>3. At(b, path) = Descending!Fold(0, b, path)
  BY DEF At, Descending!Fold, Descending!IsIter, Descending!Pick, FoldLeft, MapThenFoldSet, Max
<1> QED BY <1>2, <1>3

\* Nowhere down.
LEMMA AtNowhere ==
  ASSUME NEW b
  PROVE  At(b, <<>>) = b
<1>1. PICK e : e = <<>> /\ IsList(e) /\ Len(e) = 0
  BY Short
<1>2. PICK f : Descending!IsRun(f, 0, b, e, 0) /\ At(b, e) = f[0]
  BY <1>1, AtRun
<1> QED BY <1>1, <1>2 DEF Descending!IsRun

\* One box further.
LEMMA AtAppend ==
  ASSUME NEW b, NEW path, IsList(path), NEW i
  PROVE  At(b, Append(path, i)) = At(b, path).kids[i]
<1>1. PICK n \in Nat : n = Len(path)
  BY ListParts
<1>2. PICK long : long = Append(path, i)
  OBVIOUS
<1>3. PICK m \in Nat : m = n + 1
  OBVIOUS
<1>4. IsList(long) /\ Len(long) = m /\ (\A k \in 1 .. n : long[k] = path[k]) /\ long[m] = i
  BY <1>1, <1>2, <1>3, ListAppend
<1>5. PICK f : Descending!IsRun(f, 0, b, path, n) /\ At(b, path) = f[n]
  BY <1>1, AtRun
<1>6. PICK g : Descending!IsRun(g, 0, b, long, m) /\ At(b, long) = g[m]
  BY <1>4, AtRun
<1> DEFINE K == {k \in Nat : k <= n => g[k] = f[k]}
<1>7. 0 \in K
  BY <1>5, <1>6 DEF Descending!IsRun
<1>8. ASSUME NEW k \in Nat, k \in K PROVE k + 1 \in K
  <2>1. SUFFICES ASSUME k + 1 <= n PROVE g[k + 1] = f[k + 1]
    OBVIOUS
  <2>2. PICK j \in 1 .. n : j = k + 1 /\ j - 1 = k /\ j \in 1 .. m
    BY <1>3, <2>1
  <2>3. f[j] = f[k].kids[path[j]] /\ g[j] = g[k].kids[long[j]]
    BY <1>5, <1>6, <2>2 DEF Descending!IsRun
  <2>4. long[j] = path[j] /\ g[k] = f[k]
    BY <1>4, <1>8, <2>2
  <2> QED BY <2>2, <2>3, <2>4
<1>9. Nat \subseteq K
  <2> HIDE DEF K
  <2> QED BY <1>7, <1>8, NatInd
<1>10. g[n] = f[n]
  BY <1>9
<1>11. m \in 1 .. m /\ m - 1 = n
  BY <1>3
<1>12. g[m] = g[n].kids[long[m]]
  BY <1>6, <1>11 DEF Descending!IsRun
<1> QED BY <1>2, <1>4, <1>5, <1>6, <1>10, <1>12

\* Replaced goes up one ancestor after the other.
LEMMA ReplacedRun ==
  ASSUME NEW b, NEW path, IsList(path), NEW n \in Nat, n = Len(path), NEW new, NEW d
  PROVE  \E f : Climbing!IsRun(f, d, new, Ancestors(b, path), n) /\ Replaced(b, path, new, d) = f[n]
<1>1. PICK above : above = Ancestors(b, path)
  OBVIOUS
<1>2. DOMAIN above = 1 .. n
  BY <1>1, ListParts DEF Ancestors
<1>3. PICK f : Climbing!IsRun(f, d, new, above, n) /\ Climbing!Fold(d, new, above) = f[n]
  BY <1>2, Climbing!FoldSteps
<1>4. Replaced(b, path, new, d) = Climbing!Fold(d, new, above)
  BY <1>1 DEF Replaced, Climbing!Fold, Climbing!IsIter, Climbing!Pick, FoldLeft, MapThenFoldSet, Max
<1> QED BY <1>1, <1>3, <1>4

\* Nowhere below.
LEMMA ReplacedNowhere ==
  ASSUME NEW b, NEW d, NEW new
  PROVE  Replaced(b, <<>>, new, d) = new
<1>1. PICK e : e = <<>> /\ IsList(e) /\ Len(e) = 0
  BY Short
<1>3. PICK n \in Nat : n = Len(e) /\ n = 0
  BY <1>1
<1>2. PICK f : Climbing!IsRun(f, d, new, Ancestors(b, e), n) /\ Replaced(b, e, new, d) = f[n]
  <2>1. IsList(e) /\ n = Len(e)
    BY <1>1, <1>3
  <2> QED BY <2>1, ReplacedRun
<1> QED BY <1>1, <1>2, <1>3 DEF Climbing!IsRun

\* The first of a list.
LEMMA ListFirst ==
  ASSUME NEW s, IsList(s), NEW k \in Nat, k <= Len(s), NEW p, p = SubSeq(s, 1, k)
  PROVE  IsList(p) /\ Len(p) = k /\ \A j \in 1 .. k : p[j] = s[j]
<1>1. PICK m \in Nat \ {0} : m = 1
  OBVIOUS
<1>2. m <= k + 1 /\ k + 1 - m = k /\ \A j \in 1 .. k : m + j - 1 = j
  BY <1>1
<1>3. PICK q : q = SubSeq(s, m, k)
  OBVIOUS
<1>4. IsList(q) /\ Len(q) = k + 1 - m /\ \A j \in 1 .. k + 1 - m : q[j] = s[m + j - 1]
  BY <1>2, <1>3, ListSub
<1>5. IsList(q) /\ Len(q) = k /\ \A j \in 1 .. k : q[j] = s[j]
  BY <1>2, <1>4
<1> QED BY <1>1, <1>3, <1>5

\* Below one box more.
LEMMA ReplacedAppend ==
  ASSUME NEW b, NEW d, NEW path, IsList(path), NEW i, NEW new
  PROVE  Replaced(b, Append(path, i), new, d) = Replaced(b, path, Put(At(b, path), i, new, d), d)
<1>1. PICK n \in Nat : n = Len(path) /\ DOMAIN path = 1 .. n
  BY ListParts
<1>2. PICK long : long = Append(path, i)
  OBVIOUS
<1>3. PICK m \in Nat : m = n + 1
  OBVIOUS
<1>4. IsList(long) /\ Len(long) = m /\ (\A k \in 1 .. n : long[k] = path[k]) /\ long[m] = i
  BY <1>1, <1>2, <1>3, ListAppend
<1>5. DOMAIN long = 1 .. m
  BY <1>4, ListParts
<1>6. ASSUME NEW k \in 0 .. n PROVE SubSeq(long, 1, k) = SubSeq(path, 1, k)
  <2>1. k \in Nat /\ k <= n /\ k <= m
    BY <1>3
  <2>2. PICK p, q : p = SubSeq(long, 1, k) /\ q = SubSeq(path, 1, k)
    OBVIOUS
  <2>3. IsList(p) /\ Len(p) = k /\ \A j \in 1 .. k : p[j] = long[j]
    <3>1. k <= Len(long)
      BY <1>4, <2>1
    <3> QED BY <1>4, <2>1, <2>2, <3>1, ListFirst
  <2>4. IsList(q) /\ Len(q) = k /\ \A j \in 1 .. k : q[j] = path[j]
    <3>1. k <= Len(path)
      BY <1>1, <2>1
    <3> QED BY <2>1, <2>2, <3>1, ListFirst
  <2>5. \A j \in 1 .. k : j \in 1 .. n
    BY <2>1
  <2>6. \A j \in 1 .. k : p[j] = q[j]
    BY <1>4, <2>3, <2>4, <2>5
  <2>7. p = q
    BY <2>3, <2>4, <2>6, ListEqual
  <2> QED BY <2>2, <2>7
<1>7. SubSeq(path, 1, n) = path
  <2>1. PICK p : p = SubSeq(path, 1, n)
    OBVIOUS
  <2>2. 1 \in Nat \ {0} /\ n <= Len(path) /\ 1 <= n + 1
    BY <1>1
  <2>3. IsList(p) /\ Len(p) = n + 1 - 1 /\ \A j \in 1 .. n + 1 - 1 : p[j] = path[1 + j - 1]
    BY <2>1, <2>2, ListSub
  <2>4. Len(p) = n /\ \A j \in 1 .. n : p[j] = path[j]
    <3>1. n + 1 - 1 = n /\ \A j \in 1 .. n : 1 + j - 1 = j
      OBVIOUS
    <3> QED BY <2>3, <3>1
  <2> QED BY <1>1, <2>1, <2>3, <2>4, ListEqual
<1>8. PICK short, all : short = Ancestors(b, path) /\ all = Ancestors(b, long)
  OBVIOUS
<1>9. all[1] = [box |-> At(b, path), place |-> i]
  <2>1. 1 \in DOMAIN long /\ m - 1 = n /\ n + 1 = m /\ n \in 0 .. n
    BY <1>3, <1>5
  <2>2. all[1] = [box |-> At(b, SubSeq(long, 1, m - 1)), place |-> long[m - 1 + 1]]
    BY <1>4, <1>8, <2>1 DEF Ancestors
  <2>3. SubSeq(long, 1, n) = path
    BY <1>6, <1>7, <2>1
  <2> QED BY <1>4, <2>1, <2>2, <2>3
<1>10. ASSUME NEW k \in 1 .. n PROVE all[k + 1] = short[k]
  <2>1. k + 1 \in DOMAIN long /\ k \in DOMAIN path
    BY <1>1, <1>3, <1>5
  <2>2. PICK e \in 0 .. n : e = n - k /\ m - (k + 1) = e /\ e + 1 \in 1 .. n
    BY <1>3
  <2>3. all[k + 1] = [box |-> At(b, SubSeq(long, 1, e)), place |-> long[e + 1]]
    BY <1>4, <1>8, <2>1, <2>2 DEF Ancestors
  <2>4. short[k] = [box |-> At(b, SubSeq(path, 1, e)), place |-> path[e + 1]]
    BY <1>1, <1>8, <2>1, <2>2 DEF Ancestors
  <2>5. SubSeq(long, 1, e) = SubSeq(path, 1, e) /\ long[e + 1] = path[e + 1]
    BY <1>4, <1>6, <2>2
  <2> QED BY <2>3, <2>4, <2>5
<1>11. PICK kid : kid = Put(At(b, path), i, new, d)
  OBVIOUS
<1>12. PICK f : Climbing!IsRun(f, d, kid, short, n) /\ Replaced(b, path, kid, d) = f[n]
  BY <1>1, <1>8, ReplacedRun
<1>13. PICK g : Climbing!IsRun(g, d, new, all, m) /\ Replaced(b, long, new, d) = g[m]
  BY <1>4, <1>8, ReplacedRun
<1>14. g[1] = kid
  <2>1. 1 \in 1 .. m /\ 1 - 1 = 0
    BY <1>3
  <2>2. g[0] = new /\ g[1] = [all[1].box EXCEPT !.kids[all[1].place] = g[0], !.size = @ + d]
    BY <1>13, <2>1 DEF Climbing!IsRun
  <2>3. all[1].box = At(b, path) /\ all[1].place = i
    BY <1>9
  <2> QED BY <1>11, <2>2, <2>3 DEF Put
<1> DEFINE K == {k \in Nat : k <= n => g[k + 1] = f[k]}
<1>15. 0 \in K
  <2>1. f[0] = kid
    BY <1>12 DEF Climbing!IsRun
  <2> QED BY <1>14, <2>1
<1>16. ASSUME NEW k \in Nat, k \in K PROVE k + 1 \in K
  <2>1. SUFFICES ASSUME k + 1 <= n PROVE g[(k + 1) + 1] = f[k + 1]
    OBVIOUS
  <2>2. PICK j \in 1 .. n : j = k + 1 /\ j - 1 = k /\ j + 1 \in 1 .. m /\ (j + 1) - 1 = j
    BY <1>3, <2>1
  <2>3. f[j] = [short[j].box EXCEPT !.kids[short[j].place] = f[k], !.size = @ + d]
    BY <1>12, <2>2 DEF Climbing!IsRun
  <2>4. g[j + 1] = [all[j + 1].box EXCEPT !.kids[all[j + 1].place] = g[j], !.size = @ + d]
    BY <1>13, <2>2 DEF Climbing!IsRun
  <2>5. all[j + 1] = short[j] /\ g[j] = f[k]
    BY <1>10, <1>16, <2>2
  <2> QED BY <2>2, <2>3, <2>4, <2>5
<1>17. Nat \subseteq K
  <2> HIDE DEF K
  <2> QED BY <1>15, <1>16, NatInd
<1>18. g[m] = f[n]
  BY <1>3, <1>17
<1> QED BY <1>2, <1>11, <1>12, <1>13, <1>18

-----------------------------------------------------------------------------
(* The tags of an MP4. *)

\* The first of a type, if there is one.
LEMMA FindIs ==
  ASSUME NEW boxes, IsList(boxes), NEW typ
  PROVE  /\ Find(boxes, typ) # 0 =>
              /\ Find(boxes, typ) \in DOMAIN boxes /\ boxes[Find(boxes, typ)].typ = typ
              /\ \A i \in DOMAIN boxes : i < Find(boxes, typ) => boxes[i].typ # typ
         /\ Find(boxes, typ) = 0 => \A i \in DOMAIN boxes : boxes[i].typ # typ
<1>1. PICK n \in Nat : n = Len(boxes) /\ DOMAIN boxes = 1 .. n
  BY ListParts
<1>2. PICK I : I = {i \in 1 .. n : boxes[i].typ = typ}
  OBVIOUS
<1>3. Find(boxes, typ) = IF I # {} THEN Min(I) ELSE 0
  BY <1>1, <1>2 DEF Find, SelectInSeq
<1>4. CASE I = {}
  BY <1>1, <1>2, <1>3, <1>4
<1>5. CASE I # {}
  <2>1. I \subseteq Nat
    BY <1>2
  <2>2. PICK m : m = Min(I) /\ m \in I /\ \A y \in I : m <= y
    BY <1>5, <2>1, Least
  <2>3. Find(boxes, typ) = m /\ m \in 1 .. n /\ boxes[m].typ = typ
    BY <1>2, <1>3, <1>5, <2>2
  <2>4. ASSUME NEW i \in 1 .. n, i < m PROVE boxes[i].typ # typ
    BY <1>2, <2>2, <2>3, <2>4
  <2> QED BY <1>1, <2>3, <2>4
<1> QED BY <1>4, <1>5

\* What is in a concatenation is in one of its lists.
LEMMA FlatOver ==
  ASSUME NEW ss, IsList(ss), NEW G, \A i \in DOMAIN ss : Over(G, ss[i])
  PROVE  Over(G, FlattenSeq(ss))
<1>1. \A i \in DOMAIN ss : IsList(ss[i])
  BY DEF Over
<1>2. PICK flat : flat = FlattenSeq(ss)
  OBVIOUS
<1>3. PICK n : n = Len(ss)
  OBVIOUS
<1>4. PICK at : IsListing(at, flat, ss, n)
  BY <1>1, <1>2, <1>3, Flattened
<1>5. n \in Nat /\ DOMAIN ss = 1 .. n
  BY <1>3, ListParts
<1>6. ASSUME NEW k \in DOMAIN flat PROVE flat[k] \in G
  <2>1. flat[k] = ss[at[k][1]][at[k][2]] /\ at[k] \in Places(ss, n)
    BY <1>4 DEF IsListing, Range
  <2>2. PICK i \in 1 .. n : at[k] \in {i} \X DOMAIN ss[i]
    BY <2>1 DEF Places
  <2>3. at[k][1] = i /\ at[k][2] \in DOMAIN ss[i]
    BY <2>2
  <2>4. flat[k] = ss[i][at[k][2]]
    BY <2>1, <2>3
  <2>5. Over(G, ss[i])
    BY <1>5
  <2> QED BY <2>3, <2>4, <2>5 DEF Over
<1>7. IsList(flat)
  BY <1>4 DEF IsListing
<1> QED BY <1>2, <1>6, <1>7 DEF Over

KidsOf(b, typ) == {i \in DOMAIN b.kids : b.kids[i].typ = typ}
Onward(b, path, typ) == {Append(path, i) : i \in KidsOf(b, typ)}

\* Below leads to a child of the type.
LEMMA BelowIs ==
  ASSUME NEW b, IsList(b.kids), NEW path, NEW typ
  PROVE  Over(Onward(b, path, typ), Below(b, path, typ))
<1>1. PICK kids : kids = b.kids /\ IsList(kids)
  OBVIOUS
<1>2. PICK i : i = Find(kids, typ)
  OBVIOUS
<1>3. CASE i = 0
  BY <1>1, <1>2, <1>3, OverShort DEF Below, Has
<1>4. CASE i # 0
  <2>1. i \in KidsOf(b, typ)
    BY <1>1, <1>2, <1>4, FindIs DEF KidsOf
  <2>2. PICK x : x = Append(path, i) /\ x \in Onward(b, path, typ)
    BY <2>1 DEF Onward
  <2>3. Below(b, path, typ) = <<x>>
    BY <1>1, <1>2, <1>4, <2>2 DEF Below, Has
  <2> QED BY <2>2, <2>3, OverShort
<1> QED BY <1>3, <1>4

\* The first of some.
LEMMA FirstOver ==
  ASSUME NEW G, NEW s, Over(G, s), s # <<>>
  PROVE  s[1] \in G
<1>1. PICK n \in Nat : n = Len(s) /\ DOMAIN s = 1 .. n /\ n # 0
  BY ListParts, EmptyIs DEF Over
<1>2. 1 \in DOMAIN s
  BY <1>1
<1> QED BY <1>2 DEF Over

InnerPaths(moov, udtas) == UNION {Onward(At(moov, p), p, "meta") : p \in udtas}
MetaPaths(moov) == InnerPaths(moov, Onward(moov, <<>>, "udta")) \cup Onward(moov, <<>>, "meta")
IlstPaths(moov) == UNION {Onward(At(moov, p), p, "ilst") : p \in MetaPaths(moov)}

\* What is at a path of a child.
LEMMA ChildAt ==
  ASSUME NEW b, NEW typ, NEW p \in Onward(b, <<>>, typ)
  PROVE  \E i \in KidsOf(b, typ) : p = Append(<<>>, i) /\ IsList(p) /\ At(b, p) = b.kids[i]
<1>1. PICK i \in KidsOf(b, typ) : p = Append(<<>>, i)
  BY DEF Onward
<1>2. PICK e : e = <<>> /\ IsList(e)
  BY Short
<1>3. IsList(p) /\ At(b, e) = b
  BY <1>1, <1>2, ListAppend, AtNowhere
<1>4. At(b, p) = At(b, e).kids[i]
  BY <1>1, <1>2, AtAppend
<1> QED BY <1>1, <1>3, <1>4

\* And of a child of that.
LEMMA InnerAt ==
  ASSUME NEW b, NEW q, IsList(q), NEW typ, NEW p \in Onward(At(b, q), q, typ)
  PROVE  \E i \in KidsOf(At(b, q), typ) : p = Append(q, i) /\ IsList(p) /\ At(b, p) = At(b, q).kids[i]
<1>1. PICK i \in KidsOf(At(b, q), typ) : p = Append(q, i)
  BY DEF Onward
<1>2. IsList(p)
  BY <1>1, ListAppend
<1>3. At(b, p) = At(b, q).kids[i]
  BY <1>1, AtAppend
<1> QED BY <1>1, <1>2, <1>3

\* A child of a child is a box as deep as it was.
LEMMA BuiltKid ==
  ASSUME NEW b, NEW typ, NEW i \in KidsOf(b, typ)
  PROVE  /\ i \in DOMAIN b.kids /\ b.kids[i] \in ToSet(b.kids) /\ b.kids[i].typ = typ
         /\ Built3(b) => Built2(b.kids[i])
         /\ Built2(b) => Built1(b.kids[i])
         /\ Built1(b) => IsBox(b.kids[i])
<1>1. i \in DOMAIN b.kids /\ b.kids[i] \in ToSet(b.kids) /\ b.kids[i].typ = typ
  BY DEF KidsOf, ToSet
<1> QED BY <1>1 DEF Built1, Built2, Built3

\* A box as deep is one less deep.
LEMMA BuiltLess ==
  ASSUME NEW b
  PROVE  (Built3(b) => Built2(b)) /\ (Built2(b) => Built1(b)) /\ (Built1(b) => IsBox(b) /\ IsList(b.kids))
  BY DEF Built1, Built2, Built3, IsBox

\* The paths to a meta box lead to boxes.
LEMMA MetaAt ==
  ASSUME NEW moov, Built3(moov), NEW p \in MetaPaths(moov)
  PROVE  IsList(p) /\ Built1(At(moov, p))
<1>1. CASE p \in Onward(moov, <<>>, "meta")
  <2>1. PICK i \in KidsOf(moov, "meta") : IsList(p) /\ At(moov, p) = moov.kids[i]
    BY <1>1, ChildAt
  <2>2. Built2(moov.kids[i])
    BY BuiltKid
  <2> QED BY <2>1, <2>2, BuiltLess
<1>2. CASE p \in InnerPaths(moov, Onward(moov, <<>>, "udta"))
  <2>1. PICK q \in Onward(moov, <<>>, "udta") : p \in Onward(At(moov, q), q, "meta")
    BY <1>2 DEF InnerPaths
  <2>2. PICK u \in KidsOf(moov, "udta") : IsList(q) /\ At(moov, q) = moov.kids[u]
    BY ChildAt
  <2>3. PICK m \in KidsOf(At(moov, q), "meta") : IsList(p) /\ At(moov, p) = At(moov, q).kids[m]
    BY <2>1, <2>2, InnerAt
  <2>4. Built2(At(moov, q))
    BY <2>2, BuiltKid
  <2>5. Built1(At(moov, q).kids[m])
    BY <2>4, BuiltKid
  <2> QED BY <2>3, <2>5
<1> QED BY <1>1, <1>2 DEF MetaPaths

\* Chains lead to the ilst of a meta of moov, or of a udta of it.
LEMMA ChainsAre ==
  ASSUME NEW moov, Built3(moov)
  PROVE  Over(IlstPaths(moov), Chains(moov))
<1>1. PICK udta : udta = Below(moov, <<>>, "udta")
  OBVIOUS
<1>2. IsList(moov.kids)
  BY BuiltLess
<1>3. Over(Onward(moov, <<>>, "udta"), udta)
  BY <1>1, <1>2, BelowIs
<1>4. PICK ss : ss = [i \in DOMAIN udta |-> Below(At(moov, udta[i]), udta[i], "meta")]
  OBVIOUS
<1>5. IsList(udta) /\ \A i \in DOMAIN udta : udta[i] \in Onward(moov, <<>>, "udta")
  BY <1>3 DEF Over
<1>6. PICK n \in Nat : n = Len(udta) /\ DOMAIN udta = 1 .. n
  BY <1>5, ListParts
<1>7. IsList(ss) /\ DOMAIN ss = 1 .. n
  <2>1. ss = [i \in 1 .. n |-> ss[i]]
    BY <1>4, <1>6
  <2> QED BY <2>1, ListOf
<1>8. PICK G1 : G1 = InnerPaths(moov, Onward(moov, <<>>, "udta"))
  OBVIOUS
<1>9. ASSUME NEW i \in DOMAIN ss PROVE Over(G1, ss[i])
  <2>1. PICK q \in Onward(moov, <<>>, "udta") : q = udta[i] /\ ss[i] = Below(At(moov, q), q, "meta")
    BY <1>4, <1>5, <1>6, <1>7
  <2>2. PICK u \in KidsOf(moov, "udta") : At(moov, q) = moov.kids[u]
    BY ChildAt
  <2>3. Built2(moov.kids[u])
    BY BuiltKid
  <2>4. IsList(At(moov, q).kids)
    BY <2>2, <2>3, BuiltLess
  <2>5. Over(Onward(At(moov, q), q, "meta"), ss[i])
    BY <2>1, <2>4, BelowIs
  <2>6. Onward(At(moov, q), q, "meta") \subseteq G1
    BY <1>8 DEF InnerPaths
  <2> QED BY <2>5, <2>6 DEF Over
<1>10. PICK inner : inner = FlattenSeq(ss)
  OBVIOUS
<1>11. Over(G1, inner)
  BY <1>7, <1>9, <1>10, FlatOver
<1>12. PICK outer : outer = Below(moov, <<>>, "meta")
  OBVIOUS
<1>13. Over(Onward(moov, <<>>, "meta"), outer)
  BY <1>2, <1>12, BelowIs
<1>14. PICK metas : metas = inner \o outer
  OBVIOUS
<1>15. Over(MetaPaths(moov), metas)
  <2>1. Over(MetaPaths(moov), inner)
    BY <1>8, <1>11 DEF Over, MetaPaths
  <2>2. Over(MetaPaths(moov), outer)
    BY <1>13 DEF Over, MetaPaths
  <2> QED BY <1>14, <2>1, <2>2, OverConcat
<1>16. PICK tt : tt = [i \in DOMAIN metas |-> Below(At(moov, metas[i]), metas[i], "ilst")]
  OBVIOUS
<1>17. IsList(metas) /\ \A i \in DOMAIN metas : metas[i] \in MetaPaths(moov)
  BY <1>15 DEF Over
<1>18. PICK k \in Nat : k = Len(metas) /\ DOMAIN metas = 1 .. k
  BY <1>17, ListParts
<1>19. IsList(tt) /\ DOMAIN tt = 1 .. k
  <2>1. tt = [i \in 1 .. k |-> tt[i]]
    BY <1>16, <1>18
  <2> QED BY <2>1, ListOf
<1>20. ASSUME NEW i \in DOMAIN tt PROVE Over(IlstPaths(moov), tt[i])
  <2>1. PICK q \in MetaPaths(moov) : q = metas[i] /\ tt[i] = Below(At(moov, q), q, "ilst")
    BY <1>16, <1>17, <1>18, <1>19
  <2>2. Built1(At(moov, q))
    BY MetaAt
  <2>3. IsList(At(moov, q).kids)
    BY <2>2, BuiltLess
  <2>4. Over(Onward(At(moov, q), q, "ilst"), tt[i])
    BY <2>1, <2>3, BelowIs
  <2>5. Onward(At(moov, q), q, "ilst") \subseteq IlstPaths(moov)
    BY DEF IlstPaths
  <2> QED BY <2>4, <2>5 DEF Over
<1>21. Chains(moov) = FlattenSeq(tt)
  BY <1>1, <1>4, <1>10, <1>12, <1>14, <1>16 DEF Chains
<1>22. Over(IlstPaths(moov), FlattenSeq(tt))
  BY <1>19, <1>20, FlatOver
<1> QED BY <1>21, <1>22

-----------------------------------------------------------------------------
(* A box with another child. *)

\* c is b, longer by d.
Grew(b, c, d) == Built1(c) /\ c.typ = b.typ /\ c.size = b.size + d /\ Length(c) = Length(b) + d

\* c has one child that b has not, perhaps in the place of one of its type.
Changes(b, c, kid) ==
  /\ \A k \in ToSet(c.kids) : k = kid \/ k \in ToSet(b.kids)
  /\ \A k \in ToSet(b.kids) : k.typ # kid.typ => k \in ToSet(c.kids)

\* What makes a box one with children.
LEMMA BoxParts ==
  ASSUME NEW b, IsBox(b), \A k \in ToSet(b.kids) : IsBox(k)
  PROVE  Built1(b)
  BY DEF Built1

\* A child is replaced.
LEMMA PutIs ==
  ASSUME NEW b, Built1(b), NEW i \in DOMAIN b.kids, NEW kid, IsBox(kid), NEW d \in Int,
         kid.size = b.kids[i].size + d, kid.typ = b.kids[i].typ, NEW c, c = Put(b, i, kid, d)
  PROVE  Grew(b, c, d) /\ Changes(b, c, kid)
<1>1. PICK n \in Nat : n = Len(b.kids) /\ DOMAIN b.kids = 1 .. n
  BY ListParts DEF Built1, IsBox
<1>2. PICK kids : kids = [b.kids EXCEPT ![i] = kid]
  OBVIOUS
<1>3. c = [typ |-> b.typ, len |-> b.len, kids |-> kids, data |-> b.data, size |-> b.size + d]
  BY <1>2 DEF Put, Built1, IsBox
<1>4. DOMAIN kids = 1 .. n /\ kids[i] = kid /\ \A k \in 1 .. n : k # i => kids[k] = b.kids[k]
  BY <1>1, <1>2
<1>5. IsList(kids) /\ Len(kids) = n
  <2>1. kids = [k \in 1 .. n |-> kids[k]]
    BY <1>1, <1>2
  <2> QED BY <2>1, ListOf
<1>6. b.len \in Int /\ b.size \in Int /\ IsList(b.data)
  BY DEF Built1, IsBox
<1>7. c.typ = b.typ /\ c.len = b.len /\ c.kids = kids /\ c.data = b.data /\ c.size = b.size + d
  BY <1>3
<1>8. IsBox(c)
  <2>1. c = [typ |-> c.typ, len |-> c.len, kids |-> c.kids, data |-> c.data, size |-> c.size]
    BY <1>3
  <2> QED BY <1>5, <1>6, <1>7, <2>1 DEF IsBox
<1>9. ASSUME NEW k \in ToSet(c.kids) PROVE k = kid \/ k \in ToSet(b.kids)
  <2>1. PICK j \in 1 .. n : k = kids[j]
    BY <1>4, <1>7 DEF ToSet
  <2>2. CASE j = i
    BY <1>4, <2>1, <2>2
  <2>3. CASE j # i
    BY <1>1, <1>4, <2>1, <2>3 DEF ToSet
  <2> QED BY <2>2, <2>3
<1>10. ASSUME NEW k \in ToSet(b.kids), k.typ # kid.typ PROVE k \in ToSet(c.kids)
  <2>1. PICK j \in 1 .. n : k = b.kids[j]
    BY <1>1 DEF ToSet
  <2>2. j # i
    BY <1>10, <2>1
  <2>3. kids[j] = k
    BY <1>4, <2>1, <2>2
  <2> QED BY <1>4, <1>7, <2>3 DEF ToSet
<1>11. Built1(c)
  <2>1. \A k \in ToSet(c.kids) : IsBox(k)
    BY <1>9 DEF Built1
  <2> QED BY <1>8, <2>1, BoxParts
<1>12. Length(c) = Length(b) + d
  <2>1. i \in 1 .. n /\ c.kids[i].size = b.kids[i].size + d /\ \A k \in 1 .. n : k # i => c.kids[k].size = b.kids[k].size
    BY <1>1, <1>4, <1>7
  <2>2. n = Len(b.kids) /\ n = Len(c.kids) /\ c.len = b.len
    BY <1>1, <1>5, <1>7
  <2> QED BY <1>11, <2>1, <2>2, LengthPoint
<1> QED BY <1>7, <1>9, <1>10, <1>11, <1>12 DEF Grew, Changes

Adopted(b, kid, front) ==
  [b EXCEPT !.kids = IF front THEN <<kid>> \o b.kids ELSE Append(b.kids, kid), !.size = @ + kid.size]

\* A child is added.
LEMMA AdoptedIs ==
  ASSUME NEW b, Built1(b), NEW kid, IsBox(kid), NEW front \in BOOLEAN, NEW c, c = Adopted(b, kid, front)
  PROVE  Grew(b, c, kid.size) /\ Changes(b, c, kid)
<1>1. PICK old : old = b.kids /\ IsList(old)
  BY DEF Built1, IsBox
<1>2. PICK n \in Nat : n = Len(old) /\ DOMAIN old = 1 .. n
  BY <1>1, ListParts
<1>3. PICK kids : kids = IF front THEN <<kid>> \o old ELSE Append(old, kid)
  OBVIOUS
<1>4. PICK d \in Int : d = kid.size
  BY DEF IsBox
<1>5. c = [typ |-> b.typ, len |-> b.len, kids |-> kids, data |-> b.data, size |-> b.size + d]
  BY <1>1, <1>3, <1>4 DEF Adopted, Built1, IsBox
<1>6. IsList(kids) /\ ToSet(kids) = ToSet(old) \cup {kid}
  <2>1. CASE ~front
    <3>1. kids = Append(old, kid)
      BY <1>3, <2>1
    <3>2. IsList(kids) /\ Len(kids) = n + 1 /\ (\A i \in 1 .. n : kids[i] = old[i]) /\ kids[n + 1] = kid
      BY <1>1, <1>2, <3>1, ListAppend
    <3>3. DOMAIN kids = 1 .. n + 1
      BY <3>2, ListParts
    <3>4. \A i \in 1 .. n + 1 : i \in 1 .. n \/ i = n + 1
      OBVIOUS
    <3>5. \A i \in 1 .. n : i \in 1 .. n + 1
      OBVIOUS
    <3>6. n + 1 \in 1 .. n + 1
      OBVIOUS
    <3>7. \A k \in ToSet(kids) : k \in ToSet(old) \/ k = kid
      BY <1>2, <3>2, <3>3, <3>4 DEF ToSet
    <3>8. \A k \in ToSet(old) : k \in ToSet(kids)
      BY <1>2, <3>2, <3>3, <3>5 DEF ToSet
    <3>9. kid \in ToSet(kids)
      BY <3>2, <3>3, <3>6 DEF ToSet
    <3> QED BY <3>2, <3>7, <3>8, <3>9
  <2>2. CASE front
    <3>1. kids = <<kid>> \o old
      BY <1>3, <2>2
    <3>2. IsList(old) /\ n = Len(old)
      BY <1>1, <1>2
    <3>5. IsList(kids) /\ DOMAIN kids = 1 .. n + 1 /\ kids[1] = kid /\ \A i \in 1 .. n : kids[i + 1] = old[i]
      <4>1. IsList(kids) /\ DOMAIN kids = 1 .. n + 1
        BY <3>1, <3>2, ListPrepend
      <4>2. kids[1] = kid
        BY <3>1, <3>2, ListPrepend
      <4>3. \A i \in 1 .. n : kids[i + 1] = old[i]
        BY <3>1, <3>2, ListPrepend
      <4> QED BY <4>1, <4>2, <4>3
    <3>7. \A i \in 1 .. n + 1 : i = 1 \/ \E j \in 1 .. n : i = j + 1
      <4>1. SUFFICES ASSUME NEW i \in 1 .. n + 1, i # 1 PROVE \E j \in 1 .. n : i = j + 1
        OBVIOUS
      <4>2. i - 1 \in 1 .. n /\ i = (i - 1) + 1
        BY <4>1
      <4> QED BY <4>2
    <3>8. \A i \in 1 .. n : i + 1 \in 1 .. n + 1
      OBVIOUS
    <3>9. 1 \in 1 .. n + 1
      OBVIOUS
    <3>10. \A k \in ToSet(kids) : k \in ToSet(old) \/ k = kid
      BY <1>2, <3>5, <3>7 DEF ToSet
    <3>11. \A k \in ToSet(old) : k \in ToSet(kids)
      BY <1>2, <3>5, <3>8 DEF ToSet
    <3>12. kid \in ToSet(kids)
      BY <3>5, <3>9 DEF ToSet
    <3> QED BY <3>5, <3>10, <3>11, <3>12
  <2> QED BY <2>1, <2>2
<1>7. c.typ = b.typ /\ c.len = b.len /\ c.kids = kids /\ c.data = b.data /\ c.size = b.size + d
  BY <1>5
<1>8. IsBox(c)
  <2>1. c = [typ |-> c.typ, len |-> c.len, kids |-> c.kids, data |-> c.data, size |-> c.size]
    BY <1>5
  <2>2. b.len \in Int /\ b.size \in Int /\ IsList(b.data)
    BY DEF Built1, IsBox
  <2> QED BY <1>6, <1>7, <2>1, <2>2 DEF IsBox
<1>9. Built1(c)
  <2>1. \A k \in ToSet(c.kids) : IsBox(k)
    BY <1>1, <1>6, <1>7 DEF Built1
  <2> QED BY <1>8, <2>1, BoxParts
<1>10. Length(c) = Length(b) + kid.size
  <2>1. c.kids = Append(b.kids, kid) \/ c.kids = <<kid>> \o b.kids
    BY <1>1, <1>3, <1>7
  <2> QED BY <1>7, <1>9, <2>1, LengthMore
<1>11. Changes(b, c, kid)
  BY <1>1, <1>6, <1>7 DEF Changes
<1> QED BY <1>4, <1>7, <1>9, <1>10, <1>11 DEF Grew

\* The length depends on the box's own and the children only.
LEMMA LengthOf ==
  ASSUME NEW b, NEW c, c.len = b.len, c.kids = b.kids
  PROVE  Length(c) = Length(b)
  BY DEF Length

\* A new box records its size.
LEMMA BoxIs ==
  ASSUME NEW typ, NEW len \in Int, NEW kids, IsList(kids), \A k \in ToSet(kids) : IsBox(k), NEW data, IsList(data),
         NEW b, b = Box(typ, len, kids, data)
  PROVE  Built1(b) /\ Sound(b) /\ b.typ = typ /\ b.kids = kids /\ b.data = data
<1>1. PICK l : l = Length([typ |-> typ, len |-> len, kids |-> kids, data |-> data, size |-> 0])
  OBVIOUS
<1>2. l \in Int
  <2>1. PICK c : c = [typ |-> typ, len |-> len, kids |-> kids, data |-> data, size |-> 0]
    OBVIOUS
  <2>2. IsBox(c) /\ c.kids = kids
    BY <2>1 DEF IsBox
  <2>3. Built1(c)
    BY <2>2, BoxParts
  <2> QED BY <1>1, <2>1, <2>3, LengthInt
<1>3. b = [typ |-> typ, len |-> len, kids |-> kids, data |-> data, size |-> l]
  BY <1>1 DEF Box, Length
<1>4. b.typ = typ /\ b.len = len /\ b.kids = kids /\ b.data = data /\ b.size = l
  BY <1>3
<1>5. IsBox(b)
  BY <1>2, <1>3, <1>4 DEF IsBox
<1>6. Length(b) = l
  BY <1>1, <1>4, LengthOf
<1> QED BY <1>4, <1>5, <1>6, BoxParts DEF Sound

\* Without children.
LEMMA LeafIs ==
  ASSUME NEW typ, NEW len \in Int, NEW data, IsList(data), NEW b, b = Box(typ, len, <<>>, data)
  PROVE  Built3(b) /\ Sound(b) /\ b.typ = typ /\ ToSet(b.kids) = {}
<1>1. PICK e : e = <<>> /\ IsList(e) /\ Len(e) = 0
  BY Short
<1>2. ToSet(e) = {}
  BY <1>1 DEF ToSet
<1>3. Built1(b) /\ Sound(b) /\ b.typ = typ /\ b.kids = e
  <2>1. \A k \in ToSet(e) : IsBox(k)
    BY <1>2
  <2>2. b = Box(typ, len, e, data)
    BY <1>1
  <2> QED BY <1>1, <2>1, <2>2, BoxIs
<1>4. ToSet(b.kids) = {}
  BY <1>2, <1>3
<1>5. IsBox(b)
  BY <1>3 DEF Built1
<1> QED BY <1>3, <1>4, <1>5 DEF Built2, Built3, Built1

\* It and its children are as long as they record.
Well1(b) == Sound(b) /\ \A k \in ToSet(b.kids) : Sound(k)

\* A box that grew is as long as it records if it was.
LEMMA GrewSound ==
  ASSUME NEW b, NEW c, NEW d, Grew(b, c, d), Sound(b)
  PROVE  Sound(c)
  BY DEF Grew, Sound

\* With one child changed, it is as deep, and so are the lengths.
LEMMA ChangedBox ==
  ASSUME NEW b, NEW c, NEW d, Grew(b, c, d), NEW kid, Changes(b, c, kid)
  PROVE  /\ Built2(b) /\ Built1(kid) => Built2(c)
         /\ Built3(b) /\ Built2(kid) => Built3(c)
         /\ Well1(b) /\ Sound(kid) => Well1(c)
<1>1. IsBox(c)
  BY DEF Grew, Built1
<1>2. \A k \in ToSet(c.kids) : k = kid \/ k \in ToSet(b.kids)
  BY DEF Changes
<1>3. Built2(b) /\ Built1(kid) => Built2(c)
  BY <1>1, <1>2 DEF Built2
<1>4. Built3(b) /\ Built2(kid) => Built3(c)
  BY <1>1, <1>2 DEF Built3
<1>5. Well1(b) /\ Sound(kid) => Well1(c)
  BY <1>2, GrewSound DEF Well1
<1> QED BY <1>3, <1>4, <1>5

\* moov with other tags: as deep, the tracks are the same, and what was as long as it
\* recorded still is.
Spliced(b, c) ==
  /\ Built3(c) /\ c.typ = b.typ
  /\ \A k : k.typ = "trak" => (k \in ToSet(c.kids) <=> k \in ToSet(b.kids))
  /\ (\A k \in ToSet(b.kids) : Well1(k)) => \A k \in ToSet(c.kids) : Well1(k)

\* A child of moov that is no track has changed.
LEMMA SplicedBy ==
  ASSUME NEW b, Built3(b), NEW c, NEW d, Grew(b, c, d), NEW kid, Changes(b, c, kid), Built2(kid), kid.typ # "trak",
         (\A k \in ToSet(b.kids) : Well1(k)) => Well1(kid)
  PROVE  Spliced(b, c) /\ (Sound(b) => Sound(c))
<1>1. Built3(c)
  BY ChangedBox
<1>2. c.typ = b.typ
  BY DEF Grew
<1>3. \A k : k.typ = "trak" => (k \in ToSet(c.kids) <=> k \in ToSet(b.kids))
  BY DEF Changes
<1>4. (\A k \in ToSet(b.kids) : Well1(k)) => \A k \in ToSet(c.kids) : Well1(k)
  BY DEF Changes
<1>5. Sound(b) => Sound(c)
  BY GrewSound
<1> QED BY <1>1, <1>2, <1>3, <1>4, <1>5 DEF Spliced

-----------------------------------------------------------------------------
(* Splicing an ilst into moov. *)

IsIlst(ilst) == Built3(ilst) /\ Sound(ilst) /\ ilst.typ = "ilst" /\ ToSet(ilst.kids) = {}

\* What is adopted at a path is put there.
LEMMA AdoptIs ==
  ASSUME NEW b, NEW path, NEW kid, NEW front \in BOOLEAN
  PROVE  Adopt(b, path, kid, front) = Replaced(b, path, Adopted(At(b, path), kid, front), kid.size)
  BY DEF Adopt, Adopted

\* A box below a child.
LEMMA ReplacedKid ==
  ASSUME NEW b, NEW typ, NEW p \in Onward(b, <<>>, typ), NEW new, NEW d
  PROVE  \E i \in KidsOf(b, typ) :
           p = Append(<<>>, i) /\ IsList(p) /\ At(b, p) = b.kids[i] /\ Replaced(b, p, new, d) = Put(b, i, new, d)
<1>1. PICK i \in KidsOf(b, typ) : p = Append(<<>>, i) /\ IsList(p) /\ At(b, p) = b.kids[i]
  BY ChildAt
<1>2. PICK e : e = <<>> /\ IsList(e)
  BY Short
<1>3. PICK c : c = Put(At(b, e), i, new, d)
  OBVIOUS
<1>4. Replaced(b, Append(e, i), new, d) = Replaced(b, e, c, d)
  BY <1>2, <1>3, ReplacedAppend
<1>5. Replaced(b, e, c, d) = c /\ At(b, e) = b
  BY <1>2, ReplacedNowhere, AtNowhere
<1> QED BY <1>1, <1>2, <1>3, <1>4, <1>5

\* A meta box with another ilst.
LEMMA MetaWith ==
  ASSUME NEW meta, Built1(meta), NEW ilst, IsIlst(ilst), NEW i \in KidsOf(meta, "ilst"),
         NEW d, d = ilst.size - meta.kids[i].size, NEW c, c = Put(meta, i, ilst, d)
  PROVE  Grew(meta, c, d) /\ Changes(meta, c, ilst) /\ d \in Int
<1>1. i \in DOMAIN meta.kids /\ meta.kids[i].typ = "ilst" /\ IsBox(meta.kids[i])
  BY BuiltKid
<1>2. IsBox(ilst) /\ ilst.typ = "ilst"
  BY BuiltLess DEF IsIlst
<1>3. PICK x \in Int, y \in Int : x = ilst.size /\ y = meta.kids[i].size
  BY <1>1, <1>2 DEF IsBox
<1>4. d \in Int /\ ilst.size = meta.kids[i].size + d
  BY <1>3
<1>5. ilst.typ = meta.kids[i].typ
  BY <1>1, <1>2
<1> QED BY <1>1, <1>2, <1>4, <1>5, PutIs

\* A child of a child of moov, or of a box like it, is replaced by one like it.
LEMMA PutKid ==
  ASSUME NEW b, Built1(b), NEW typ, NEW i \in KidsOf(b, typ), NEW kid, NEW d \in Int, Grew(b.kids[i], kid, d),
         NEW c, c = Put(b, i, kid, d)
  PROVE  Grew(b, c, d) /\ Changes(b, c, kid) /\ kid.typ = typ
<1>1. i \in DOMAIN b.kids /\ b.kids[i].typ = typ
  BY BuiltKid
<1>2. IsBox(kid) /\ kid.size = b.kids[i].size + d /\ kid.typ = b.kids[i].typ
  BY BuiltLess DEF Grew
<1> QED BY <1>1, <1>2, PutIs

\* moov with another meta box among its children.
LEMMA SplicedKid ==
  ASSUME NEW moov, Built3(moov), NEW typ, typ # "trak", NEW i \in KidsOf(moov, typ), NEW kid, NEW d \in Int,
         Grew(moov.kids[i], kid, d), Built2(kid), Well1(moov.kids[i]) => Well1(kid), NEW c, c = Put(moov, i, kid, d)
  PROVE  Spliced(moov, c) /\ (Sound(moov) => Sound(c))
<1>1. Built1(moov)
  BY BuiltLess
<1>2. Grew(moov, c, d) /\ Changes(moov, c, kid) /\ kid.typ = typ
  BY <1>1, PutKid
<1>3. (\A k \in ToSet(moov.kids) : Well1(k)) => Well1(kid)
  BY BuiltKid
<1> QED BY <1>2, <1>3, SplicedBy

\* There is an ilst: it is replaced, in a meta of moov or of its udta.
LEMMA SplicedAt ==
  ASSUME NEW moov, Built3(moov), NEW ilst, IsIlst(ilst), NEW p \in IlstPaths(moov),
         NEW d, d = ilst.size - At(moov, p).size, NEW c, c = Replaced(moov, p, ilst, d)
  PROVE  Spliced(moov, c) /\ (Sound(moov) => Sound(c))
<1>1. PICK q \in MetaPaths(moov) : p \in Onward(At(moov, q), q, "ilst")
  BY DEF IlstPaths
<1>2. IsList(q) /\ Built1(At(moov, q))
  BY MetaAt
<1>3. PICK meta : meta = At(moov, q)
  OBVIOUS
<1>4. PICK i \in KidsOf(meta, "ilst") : p = Append(q, i) /\ At(moov, p) = meta.kids[i]
  BY <1>1, <1>2, <1>3, InnerAt
<1>5. PICK new : new = Put(meta, i, ilst, d)
  OBVIOUS
<1>6. c = Replaced(moov, q, new, d)
  <2>1. Replaced(moov, Append(q, i), ilst, d) = Replaced(moov, q, Put(At(moov, q), i, ilst, d), d)
    BY <1>2, ReplacedAppend
  <2>2. c = Replaced(moov, Append(q, i), ilst, d)
    BY <1>4
  <2> QED BY <1>3, <1>5, <2>1, <2>2
<1>7. Grew(meta, new, d) /\ Changes(meta, new, ilst) /\ d \in Int
  BY <1>2, <1>3, <1>4, <1>5, MetaWith
<1>8. Built2(ilst) /\ Built1(ilst) /\ Sound(ilst)
  BY BuiltLess DEF IsIlst
<1>9. CASE q \in Onward(moov, <<>>, "meta")
  <2>1. PICK m \in KidsOf(moov, "meta") : At(moov, q) = moov.kids[m] /\ Replaced(moov, q, new, d) = Put(moov, m, new, d)
    BY <1>9, ReplacedKid
  <2>2. Built2(moov.kids[m]) /\ meta = moov.kids[m]
    BY <1>3, <2>1, BuiltKid
  <2>3. Built2(new) /\ (Well1(meta) => Well1(new))
    BY <1>7, <1>8, <2>2, ChangedBox
  <2>4. c = Put(moov, m, new, d)
    BY <1>6, <2>1
  <2>5. "meta" # "trak"
    OBVIOUS
  <2> QED BY <1>7, <2>2, <2>3, <2>4, <2>5, SplicedKid
<1>10. CASE q \in InnerPaths(moov, Onward(moov, <<>>, "udta"))
  <2>1. PICK r \in Onward(moov, <<>>, "udta") : q \in Onward(At(moov, r), r, "meta")
    BY <1>10 DEF InnerPaths
  <2>2. PICK above : above = At(moov, r)
    OBVIOUS
  <2>3. IsList(r)
    BY ChildAt
  <2>4. PICK m \in KidsOf(above, "meta") : q = Append(r, m) /\ At(moov, q) = above.kids[m]
    BY <2>1, <2>2, <2>3, InnerAt
  <2>5. PICK udta : udta = Put(above, m, new, d)
    OBVIOUS
  <2>6. c = Replaced(moov, r, udta, d)
    BY <1>6, <2>2, <2>3, <2>4, <2>5, ReplacedAppend
  <2>7. PICK u \in KidsOf(moov, "udta") : At(moov, r) = moov.kids[u] /\ Replaced(moov, r, udta, d) = Put(moov, u, udta, d)
    BY ReplacedKid
  <2>8. Built2(above) /\ above = moov.kids[u]
    BY <2>2, <2>7, BuiltKid
  <2>9. Built1(above)
    BY <2>8, BuiltLess
  <2>10. meta = above.kids[m]
    BY <1>3, <2>4
  <2>11. Grew(above, udta, d) /\ Changes(above, udta, new)
    BY <1>7, <2>5, <2>9, <2>10, PutKid
  <2>12. Built1(new)
    BY <1>7 DEF Grew
  <2>13. Built2(udta)
    BY <2>8, <2>11, <2>12, ChangedBox
  <2>14. Well1(above) => Well1(udta)
    <3>1. SUFFICES ASSUME Well1(above) PROVE Well1(udta)
      OBVIOUS
    <3>2. Sound(meta)
      BY <2>4, <2>10, <3>1, BuiltKid DEF Well1
    <3>3. Sound(new)
      BY <1>7, <3>2, GrewSound
    <3> QED BY <2>11, <3>1, <3>3, ChangedBox
  <2>15. c = Put(moov, u, udta, d)
    BY <2>6, <2>7
  <2>16. "udta" # "trak"
    OBVIOUS
  <2> QED BY <1>7, <2>8, <2>11, <2>13, <2>14, <2>15, <2>16, SplicedKid
<1> QED BY <1>9, <1>10 DEF MetaPaths

\* There is none: it gets a place.
LEMMA SplicedNew ==
  ASSUME NEW moov, Built3(moov), NEW ilst, IsIlst(ilst)
  PROVE  Spliced(moov, CreateChain(moov, ilst))
<1>1. PICK c : c = CreateChain(moov, ilst)
  OBVIOUS
<1>2. PICK e : e = <<>> /\ IsList(e) /\ Len(e) = 0
  BY Short
<1>3. PICK hdlr : hdlr = Box("hdlr", 0, <<>>, <<>>)
  OBVIOUS
<1>4. Built3(hdlr) /\ Sound(hdlr)
  <2>1. hdlr = Box("hdlr", 0, <<>>, e)
    BY <1>2, <1>3
  <2>2. 0 \in Int
    OBVIOUS
  <2> QED BY <1>2, <2>1, <2>2, LeafIs
<1>5. Built1(hdlr) /\ IsBox(hdlr) /\ Built1(ilst) /\ IsBox(ilst) /\ Sound(ilst)
  BY <1>4, BuiltLess DEF IsIlst
<1>6. PICK pair : pair = <<hdlr, ilst>>
  OBVIOUS
<1>7. IsList(pair) /\ \A k \in ToSet(pair) : k = hdlr \/ k = ilst
  <2>1. IsList(pair) /\ DOMAIN pair = 1 .. 2
    BY <1>6, Short
  <2>2. \A i \in 1 .. 2 : i = 1 \/ i = 2
    OBVIOUS
  <2> QED BY <1>6, <2>1, <2>2 DEF ToSet
<1>8. PICK meta : meta = Box("meta", 0, pair, <<>>)
  OBVIOUS
<1>9. Built1(meta) /\ Sound(meta) /\ meta.typ = "meta" /\ meta.kids = pair
  <2>1. meta = Box("meta", 0, pair, e)
    BY <1>2, <1>8
  <2>2. \A k \in ToSet(pair) : IsBox(k)
    BY <1>5, <1>7
  <2>3. 0 \in Int
    OBVIOUS
  <2> QED BY <1>2, <1>7, <2>1, <2>2, <2>3, BoxIs
<1>10. Well1(meta) /\ IsBox(meta)
  BY <1>4, <1>5, <1>7, <1>9, BuiltLess DEF Well1
<1>11. PICK udtas : udtas = Below(moov, <<>>, "udta")
  OBVIOUS
<1>12. Over(Onward(moov, <<>>, "udta"), udtas)
  BY <1>11, BuiltLess, BelowIs
<1>13. CASE udtas = <<>>
  <2>1. PICK one : one = <<meta>>
    OBVIOUS
  <2>2. IsList(one) /\ \A k \in ToSet(one) : k = meta
    <3>1. IsList(one) /\ DOMAIN one = 1 .. 1
      BY <2>1, Short
    <3>2. \A i \in 1 .. 1 : i = 1
      OBVIOUS
    <3> QED BY <2>1, <3>1, <3>2 DEF ToSet
  <2>3. PICK udta : udta = Box("udta", 0, one, <<>>)
    OBVIOUS
  <2>4. Built1(udta) /\ Sound(udta) /\ udta.typ = "udta" /\ udta.kids = one
    <3>1. udta = Box("udta", 0, one, e)
      BY <1>2, <2>3
    <3>2. \A k \in ToSet(one) : IsBox(k)
      BY <1>10, <2>2
    <3>3. 0 \in Int
      OBVIOUS
    <3> QED BY <1>2, <2>2, <3>1, <3>2, <3>3, BoxIs
  <2>5. Built2(udta) /\ Well1(udta) /\ IsBox(udta)
    BY <1>9, <2>2, <2>4, BuiltLess DEF Built2, Well1
  <2>6. c = Adopt(moov, e, udta, FALSE)
    BY <1>1, <1>2, <1>3, <1>6, <1>8, <1>11, <1>13, <2>1, <2>3 DEF CreateChain
  <2>7. PICK new : new = Adopted(moov, udta, FALSE)
    OBVIOUS
  <2>8. c = new
    <3>1. At(moov, e) = moov
      BY <1>2, AtNowhere
    <3>2. c = Replaced(moov, e, new, udta.size)
      BY <2>6, <2>7, <3>1, AdoptIs
    <3> QED BY <1>2, <3>2, ReplacedNowhere
  <2>9. FALSE \in BOOLEAN /\ Built1(moov)
    BY BuiltLess
  <2>10. Grew(moov, c, udta.size) /\ Changes(moov, c, udta)
    BY <2>5, <2>7, <2>8, <2>9, AdoptedIs
  <2>11. udta.typ # "trak"
    BY <2>4
  <2> QED BY <1>1, <2>5, <2>10, <2>11, SplicedBy
<1>14. CASE udtas # <<>>
  <2>1. PICK r \in Onward(moov, <<>>, "udta") : r = udtas[1]
    BY <1>12, <1>14, FirstOver
  <2>2. PICK above : above = At(moov, r)
    OBVIOUS
  <2>3. PICK u \in KidsOf(moov, "udta") : IsList(r) /\ above = moov.kids[u]
    BY <2>2, ChildAt
  <2>4. Built2(above)
    BY <2>3, BuiltKid
  <2>5. Built1(above) /\ IsList(above.kids)
    BY <2>4, BuiltLess
  <2>6. PICK inner : inner = Below(above, r, "meta")
    OBVIOUS
  <2>7. Over(Onward(above, r, "meta"), inner)
    BY <2>5, <2>6, BelowIs
  <2>8. CASE inner = <<>>
    <3>1. c = Adopt(moov, r, meta, FALSE)
      BY <1>1, <1>3, <1>6, <1>8, <1>11, <1>14, <2>1, <2>2, <2>6, <2>8 DEF CreateChain
    <3>2. PICK udta : udta = Adopted(above, meta, FALSE)
      OBVIOUS
    <3>3. PICK d \in Int : d = meta.size
      BY <1>10 DEF IsBox
    <3>4. FALSE \in BOOLEAN
      OBVIOUS
    <3>5. Grew(above, udta, d) /\ Changes(above, udta, meta)
      BY <1>10, <2>5, <3>2, <3>3, <3>4, AdoptedIs
    <3>6. Built2(udta) /\ (Well1(above) => Well1(udta))
      BY <1>9, <2>4, <3>5, ChangedBox
    <3>7. c = Replaced(moov, r, udta, d)
      BY <2>2, <3>1, <3>2, <3>3, AdoptIs
    <3>8. PICK v \in KidsOf(moov, "udta") : At(moov, r) = moov.kids[v] /\ Replaced(moov, r, udta, d) = Put(moov, v, udta, d)
      BY ReplacedKid
    <3>9. c = Put(moov, v, udta, d) /\ above = moov.kids[v] /\ "udta" # "trak"
      BY <2>2, <3>7, <3>8
    <3> QED BY <1>1, <3>5, <3>6, <3>9, SplicedKid
  <2>9. CASE inner # <<>>
    <3>1. PICK q \in Onward(above, r, "meta") : q = inner[1]
      BY <2>7, <2>9, FirstOver
    <3>2. c = Adopt(moov, q, ilst, TRUE)
      BY <1>1, <1>3, <1>6, <1>8, <1>11, <1>14, <2>1, <2>2, <2>6, <2>9, <3>1 DEF CreateChain
    <3>3. PICK m \in KidsOf(above, "meta") : q = Append(r, m) /\ At(moov, q) = above.kids[m]
      <4>1. q \in Onward(At(moov, r), r, "meta") /\ IsList(r)
        BY <2>2, <2>3, <3>1
      <4>2. PICK m \in KidsOf(At(moov, r), "meta") : q = Append(r, m) /\ At(moov, q) = At(moov, r).kids[m]
        BY <4>1, InnerAt
      <4> QED BY <2>2, <4>2
    <3>4. PICK old : old = above.kids[m] /\ Built1(old)
      BY <2>4, BuiltKid
    <3>5. PICK new : new = Adopted(old, ilst, TRUE)
      OBVIOUS
    <3>6. PICK d \in Int : d = ilst.size
      BY <1>5 DEF IsBox
    <3>7. TRUE \in BOOLEAN
      OBVIOUS
    <3>8. Grew(old, new, d) /\ Changes(old, new, ilst)
      BY <1>5, <3>4, <3>5, <3>6, <3>7, AdoptedIs
    <3>9. c = Replaced(moov, q, new, d)
      BY <3>2, <3>3, <3>4, <3>5, <3>6, AdoptIs
    <3>10. PICK udta : udta = Put(above, m, new, d)
      OBVIOUS
    <3>11. c = Replaced(moov, r, udta, d)
      BY <2>2, <2>3, <3>3, <3>9, <3>10, ReplacedAppend
    <3>12. Grew(above, udta, d) /\ Changes(above, udta, new)
      BY <2>5, <3>4, <3>8, <3>10, PutKid
    <3>13. Built1(new)
      BY <3>8 DEF Grew
    <3>14. Built2(udta)
      BY <2>4, <3>12, <3>13, ChangedBox
    <3>15. Well1(above) => Well1(udta)
      <4>1. SUFFICES ASSUME Well1(above) PROVE Well1(udta)
        OBVIOUS
      <4>2. Sound(old)
        BY <3>4, <4>1, BuiltKid DEF Well1
      <4>3. Sound(new)
        BY <3>8, <4>2, GrewSound
      <4> QED BY <3>12, <4>1, <4>3, ChangedBox
    <3>16. PICK v \in KidsOf(moov, "udta") : At(moov, r) = moov.kids[v] /\ Replaced(moov, r, udta, d) = Put(moov, v, udta, d)
      BY ReplacedKid
    <3>17. c = Put(moov, v, udta, d) /\ above = moov.kids[v] /\ "udta" # "trak"
      BY <2>2, <3>11, <3>16
    <3> QED BY <1>1, <3>12, <3>14, <3>15, <3>17, SplicedKid
  <2> QED BY <2>8, <2>9
<1> QED BY <1>13, <1>14

\* With a size that is right it is still what it was.
LEMMA SplicedResized ==
  ASSUME NEW moov, NEW b, Spliced(moov, b), NEW c, c = Resized(b)
  PROVE  Spliced(moov, c) /\ Sound(c)
<1>1. Built3(b)
  BY DEF Spliced
<1>2. IsBox(b) /\ Built1(b)
  BY <1>1, BuiltLess
<1>3. PICK l \in Int : l = Length(b)
  BY <1>2, LengthInt
<1>4. c = [typ |-> b.typ, len |-> b.len, kids |-> b.kids, data |-> b.data, size |-> l]
  BY <1>2, <1>3 DEF Resized, IsBox
<1>5. c.typ = b.typ /\ c.len = b.len /\ c.kids = b.kids /\ c.data = b.data /\ c.size = l
  BY <1>4
<1>6. IsBox(c)
  BY <1>2, <1>4, <1>5 DEF IsBox
<1>7. Built3(c)
  BY <1>1, <1>5, <1>6 DEF Built3
<1>8. Sound(c)
  BY <1>3, <1>5, LengthOf DEF Sound
<1> QED BY <1>5, <1>7, <1>8 DEF Spliced

\* SpliceIlst touches no track, and what was as long as it recorded still is.
LEMMA SpliceIs ==
  ASSUME NEW moov, Built3(moov), NEW ilst, IsIlst(ilst), NEW c, c = SpliceIlst(moov, ilst)
  PROVE  Spliced(moov, c) /\ (Sound(moov) \/ Chains(moov) = <<>> => Sound(c))
<1>1. CASE Chains(moov) = <<>>
  <2>1. PICK b : b = CreateChain(moov, ilst)
    OBVIOUS
  <2>2. c = Resized(b)
    BY <1>1, <2>1 DEF SpliceIlst
  <2>3. Spliced(moov, b)
    BY <2>1, SplicedNew
  <2> QED BY <2>2, <2>3, SplicedResized
<1>2. CASE Chains(moov) # <<>>
  <2>1. Over(IlstPaths(moov), Chains(moov))
    BY ChainsAre
  <2>2. PICK p \in IlstPaths(moov) : p = Chains(moov)[1]
    BY <1>2, <2>1, FirstOver
  <2>3. c = Replaced(moov, p, ilst, ilst.size - At(moov, p).size)
    BY <1>2, <2>2 DEF SpliceIlst
  <2>4. Spliced(moov, c) /\ (Sound(moov) => Sound(c))
    BY <2>3, SplicedAt
  <2> QED BY <1>2, <2>4
<1> QED BY <1>1, <1>2

-----------------------------------------------------------------------------
(* The chunk tables of the tracks, shifted. *)

\* Other children, of the same sizes.
Alike(b, kids) ==
  /\ IsList(kids) /\ Len(kids) = Len(b.kids)
  /\ \A i \in DOMAIN kids : IsBox(kids[i]) /\ kids[i].size = b.kids[i].size

\* c is b but for its children, and as long.
Framed(b, c) == Built1(c) /\ c.typ = b.typ /\ c.size = b.size /\ Length(c) = Length(b)

\* A box with other children of the same sizes.
LEMMA KidsReplaced ==
  ASSUME NEW b, Built1(b), NEW kids, Alike(b, kids), NEW c, c = [b EXCEPT !.kids = kids]
  PROVE  Framed(b, c) /\ c.kids = kids
<1>1. IsBox(b)
  BY DEF Built1
<1>2. c = [typ |-> b.typ, len |-> b.len, kids |-> kids, data |-> b.data, size |-> b.size]
  BY <1>1 DEF IsBox
<1>3. c.typ = b.typ /\ c.len = b.len /\ c.kids = kids /\ c.data = b.data /\ c.size = b.size
  BY <1>2
<1>4. IsBox(c)
  BY <1>1, <1>2, <1>3 DEF IsBox, Alike
<1>5. Built1(c)
  <2>1. \A k \in ToSet(kids) : IsBox(k)
    BY DEF Alike, ToSet
  <2> QED BY <1>3, <1>4, <2>1, BoxParts
<1>6. PICK n \in Nat : n = Len(kids) /\ n = Len(b.kids) /\ DOMAIN kids = 1 .. n
  BY ListParts DEF Alike
<1>7. \A k \in 1 .. n : c.kids[k].size = b.kids[k].size
  BY <1>3, <1>6 DEF Alike
<1>8. n = Len(c.kids) /\ c.len = b.len
  BY <1>3, <1>6
<1>9. Length(c) = Length(b)
  BY <1>5, <1>6, <1>7, <1>8, LengthSame
<1> QED BY <1>3, <1>5, <1>9 DEF Framed

\* u has what t has, every offset e more.
MovedBy(t, u, e) ==
  DOMAIN u.data = DOMAIN t.data /\ \A i \in DOMAIN t.data : t.data[i] \in Int /\ u.data[i] = t.data[i] + e

\* A shifted table is one, as long, and has every offset moved.
LEMMA ShiftedIs ==
  ASSUME NEW t, IsBox(t), IsTable(t), NEW e \in Int, NEW u, u = Shifted(t, e)
  PROVE  /\ IsBox(u) /\ IsTable(u) /\ MovedBy(t, u, e)
         /\ u.typ = t.typ /\ u.size = t.size /\ u.kids = t.kids /\ Length(u) = Length(t)
<1>1. CASE t.typ \in {"stco", "co64"}
  <2>1. PICK old : old = t.data /\ IsList(old)
    BY DEF IsBox
  <2>2. PICK n \in Nat : n = Len(old) /\ DOMAIN old = 1 .. n
    BY <2>1, ListParts
  <2>3. PICK new : new = [i \in 1 .. n |-> old[i] + e]
    OBVIOUS
  <2>4. IsList(new) /\ DOMAIN new = 1 .. n
    <3>1. new = [i \in 1 .. n |-> new[i]]
      BY <2>3
    <3> QED BY <3>1, ListOf
  <2>5. u = [typ |-> t.typ, len |-> t.len, kids |-> t.kids, data |-> new, size |-> t.size]
    BY <1>1, <2>1, <2>2, <2>3 DEF Shifted, IsBox
  <2>6. u.typ = t.typ /\ u.len = t.len /\ u.kids = t.kids /\ u.data = new /\ u.size = t.size
    BY <2>5
  <2>7. IsBox(u)
    BY <2>4, <2>5, <2>6 DEF IsBox
  <2>8. \A i \in 1 .. n : old[i] \in Int /\ new[i] = old[i] + e
    BY <1>1, <2>1, <2>2, <2>3 DEF IsTable
  <2>9. IsTable(u)
    <3>1. \A i \in DOMAIN u.data : u.data[i] \in Int
      BY <2>4, <2>6, <2>8
    <3>2. u.typ \in {"stco", "co64"}
      BY <1>1, <2>6
    <3> QED BY <3>1, <3>2 DEF IsTable
  <2>10. MovedBy(t, u, e)
    BY <2>1, <2>2, <2>4, <2>6, <2>8 DEF MovedBy
  <2>11. Length(u) = Length(t)
    BY <2>6, LengthOf
  <2> QED BY <2>6, <2>7, <2>9, <2>10, <2>11
<1>2. CASE t.typ \notin {"stco", "co64"}
  <2>1. u = t
    BY <1>2 DEF Shifted
  <2>2. t.data = <<>>
    BY <1>2 DEF IsTable
  <2>3. DOMAIN t.data = {}
    BY <2>2
  <2>4. MovedBy(t, t, e)
    BY <2>3 DEF MovedBy
  <2> QED BY <2>1, <2>4
<1> QED BY <1>1, <1>2

\* us are the tables ts, moved.
AllMovedBy(ts, us, e) ==
  /\ \A t \in ts : \E u \in us : MovedBy(t, u, e)
  /\ \A u \in us : IsTable(u) /\ \E t \in ts : MovedBy(t, u, e)

\* It is as long, and so are they.
LEMMA TrackIs ==
  ASSUME NEW k, Built2(k), \A t \in ToSet(k.kids) : IsTable(t), NEW e \in Int, NEW c, c = ShiftedTrack(k, e)
  PROVE  Framed(k, c) /\ Built2(c) /\ AllMovedBy(ToSet(k.kids), ToSet(c.kids), e) /\ (Well1(k) => Well1(c))
<1>1. Built1(k)
  BY BuiltLess
<1>2. PICK old : old = k.kids /\ IsList(old)
  BY <1>1, BuiltLess
<1>3. PICK n \in Nat : n = Len(old) /\ DOMAIN old = 1 .. n
  BY <1>2, ListParts
<1>4. PICK new : new = [j \in 1 .. n |-> Shifted(old[j], e)]
  OBVIOUS
<1>5. IsList(new) /\ Len(new) = n /\ DOMAIN new = 1 .. n
  <2>1. new = [j \in 1 .. n |-> new[j]]
    BY <1>4
  <2> QED BY <2>1, ListOf
<1>6. c = [k EXCEPT !.kids = new]
  BY <1>2, <1>3, <1>4 DEF ShiftedTrack
<1>7. ASSUME NEW j \in 1 .. n
      PROVE  /\ old[j] \in ToSet(old) /\ new[j] \in ToSet(new) /\ Built1(new[j]) /\ IsTable(new[j]) /\ MovedBy(old[j], new[j], e)
             /\ new[j].size = old[j].size /\ Length(new[j]) = Length(old[j])
  <2>1. old[j] \in ToSet(old) /\ new[j] \in ToSet(new)
    BY <1>3, <1>5 DEF ToSet
  <2>2. Built1(old[j]) /\ IsTable(old[j])
    BY <1>2, <2>1 DEF Built2
  <2>3. IsBox(old[j])
    BY <2>2, BuiltLess
  <2>4. new[j] = Shifted(old[j], e)
    BY <1>4
  <2>5. /\ IsBox(new[j]) /\ IsTable(new[j]) /\ MovedBy(old[j], new[j], e)
        /\ new[j].size = old[j].size /\ new[j].kids = old[j].kids /\ Length(new[j]) = Length(old[j])
    BY <2>2, <2>3, <2>4, ShiftedIs
  <2>6. Built1(new[j])
    BY <2>2, <2>5 DEF Built1
  <2> QED BY <2>1, <2>5, <2>6
<1>8. Alike(k, new)
  <2>1. \A j \in 1 .. n : IsBox(new[j]) /\ new[j].size = k.kids[j].size
    BY <1>2, <1>7, BuiltLess
  <2> QED BY <1>2, <1>3, <1>5, <2>1 DEF Alike
<1>9. Framed(k, c) /\ c.kids = new
  BY <1>1, <1>6, <1>8, KidsReplaced
<1>10. \A u \in ToSet(new) : \E j \in 1 .. n : u = new[j]
  BY <1>5 DEF ToSet
<1>11. \A t \in ToSet(old) : \E j \in 1 .. n : t = old[j]
  BY <1>3 DEF ToSet
<1>12. Built2(c)
  <2>1. \A u \in ToSet(new) : Built1(u)
    BY <1>7, <1>10
  <2>2. IsBox(c)
    BY <1>9, BuiltLess DEF Framed
  <2> QED BY <1>9, <2>1, <2>2 DEF Built2
<1>13. AllMovedBy(ToSet(k.kids), ToSet(c.kids), e)
  <2>1. \A t \in ToSet(old) : \E u \in ToSet(new) : MovedBy(t, u, e)
    BY <1>7, <1>11
  <2>2. \A u \in ToSet(new) : IsTable(u) /\ \E t \in ToSet(old) : MovedBy(t, u, e)
    BY <1>7, <1>10
  <2> QED BY <1>2, <1>9, <2>1, <2>2 DEF AllMovedBy
<1>14. Well1(k) => Well1(c)
  <2>1. SUFFICES ASSUME Well1(k) PROVE Well1(c)
    OBVIOUS
  <2>2. Sound(c)
    BY <1>9, <2>1 DEF Well1, Sound, Framed
  <2>3. \A u \in ToSet(new) : Sound(u)
    BY <1>2, <1>7, <1>10, <2>1 DEF Well1, Sound
  <2> QED BY <1>9, <2>2, <2>3 DEF Well1
<1> QED BY <1>9, <1>12, <1>13, <1>14

TablesOf(moov) == UNION {ToSet(k.kids) : k \in {t \in ToSet(moov.kids) : t.typ = "trak"}}

\* What is a table of moov.
LEMMA TableOf ==
  ASSUME NEW moov, NEW t
  PROVE  t \in TablesOf(moov) <=> \E k \in ToSet(moov.kids) : k.typ = "trak" /\ t \in ToSet(k.kids)
  BY DEF TablesOf

\* The tables of all tracks are shifted; nothing else of moov changes.
LEMMA ShiftIs ==
  ASSUME NEW moov, Built3(moov), \A t \in TablesOf(moov) : IsTable(t), NEW e \in Int,
         NEW c, c = ShiftChunkOffsets(moov, e)
  PROVE  /\ Framed(moov, c) /\ Built3(c) /\ AllMovedBy(TablesOf(moov), TablesOf(c), e)
         /\ (\A k \in ToSet(moov.kids) : Well1(k)) => \A k \in ToSet(c.kids) : Well1(k)
<1>1. Built1(moov)
  BY BuiltLess
<1>2. PICK old : old = moov.kids /\ IsList(old)
  BY <1>1, BuiltLess
<1>3. PICK n \in Nat : n = Len(old) /\ DOMAIN old = 1 .. n
  BY <1>2, ListParts
<1>4. PICK new : new = [i \in 1 .. n |-> IF old[i].typ = "trak" THEN ShiftedTrack(old[i], e) ELSE old[i]]
  OBVIOUS
<1>5. IsList(new) /\ Len(new) = n /\ DOMAIN new = 1 .. n
  <2>1. new = [j \in 1 .. n |-> new[j]]
    BY <1>4
  <2> QED BY <2>1, ListOf
<1>6. c = [moov EXCEPT !.kids = new]
  BY <1>2, <1>3, <1>4 DEF ShiftChunkOffsets
<1>7. ASSUME NEW i \in 1 .. n
      PROVE  /\ old[i] \in ToSet(old) /\ new[i] \in ToSet(new) /\ Built2(new[i])
             /\ new[i].size = old[i].size /\ new[i].typ = old[i].typ
             /\ old[i].typ = "trak" => AllMovedBy(ToSet(old[i].kids), ToSet(new[i].kids), e)
             /\ Well1(old[i]) => Well1(new[i])
  <2>1. old[i] \in ToSet(old) /\ new[i] \in ToSet(new)
    BY <1>3, <1>5 DEF ToSet
  <2>2. Built2(old[i])
    BY <1>2, <2>1 DEF Built3
  <2>3. CASE old[i].typ = "trak"
    <3>1. new[i] = ShiftedTrack(old[i], e)
      BY <1>4, <2>3
    <3>2. \A t \in ToSet(old[i].kids) : IsTable(t)
      BY <1>2, <2>1, <2>3, TableOf
    <3>3. /\ Framed(old[i], new[i]) /\ Built2(new[i]) /\ AllMovedBy(ToSet(old[i].kids), ToSet(new[i].kids), e)
          /\ Well1(old[i]) => Well1(new[i])
      BY <2>2, <3>1, <3>2, TrackIs
    <3> QED BY <2>1, <3>3 DEF Framed
  <2>4. CASE old[i].typ # "trak"
    BY <1>4, <2>1, <2>2, <2>4
  <2> QED BY <2>3, <2>4
<1>8. Alike(moov, new)
  <2>1. \A j \in 1 .. n : IsBox(new[j]) /\ new[j].size = moov.kids[j].size
    BY <1>2, <1>7, BuiltLess
  <2> QED BY <1>2, <1>3, <1>5, <2>1 DEF Alike
<1>9. Framed(moov, c) /\ c.kids = new
  BY <1>1, <1>6, <1>8, KidsReplaced
<1>10. \A u \in ToSet(new) : \E j \in 1 .. n : u = new[j]
  BY <1>5 DEF ToSet
<1>11. \A t \in ToSet(old) : \E j \in 1 .. n : t = old[j]
  BY <1>3 DEF ToSet
<1>12. Built3(c)
  <2>1. \A u \in ToSet(new) : Built2(u)
    BY <1>7, <1>10
  <2>2. IsBox(c)
    BY <1>9, BuiltLess DEF Framed
  <2> QED BY <1>9, <2>1, <2>2 DEF Built3
<1>13. ASSUME NEW t \in TablesOf(moov) PROVE \E u \in TablesOf(c) : MovedBy(t, u, e)
  <2>1. PICK k \in ToSet(old) : k.typ = "trak" /\ t \in ToSet(k.kids)
    BY <1>2, TableOf
  <2>2. PICK j \in 1 .. n : k = old[j]
    BY <1>11
  <2>3. PICK new1 : new1 = new[j] /\ new1 \in ToSet(new) /\ new1.typ = "trak" /\ AllMovedBy(ToSet(k.kids), ToSet(new1.kids), e)
    BY <1>7, <2>1, <2>2
  <2>4. PICK u \in ToSet(new1.kids) : MovedBy(t, u, e)
    BY <2>1, <2>3 DEF AllMovedBy
  <2>5. u \in TablesOf(c)
    BY <1>9, <2>3, TableOf
  <2> QED BY <2>4, <2>5
<1>14. ASSUME NEW u \in TablesOf(c) PROVE IsTable(u) /\ \E t \in TablesOf(moov) : MovedBy(t, u, e)
  <2>1. PICK k \in ToSet(new) : k.typ = "trak" /\ u \in ToSet(k.kids)
    BY <1>9, TableOf
  <2>2. PICK j \in 1 .. n : k = new[j]
    BY <1>10
  <2>3. PICK old1 : old1 = old[j] /\ old1 \in ToSet(old) /\ old1.typ = "trak" /\ AllMovedBy(ToSet(old1.kids), ToSet(k.kids), e)
    BY <1>7, <2>1, <2>2
  <2>4. IsTable(u) /\ \E t \in ToSet(old1.kids) : MovedBy(t, u, e)
    BY <2>1, <2>3 DEF AllMovedBy
  <2>5. \A t \in ToSet(old1.kids) : t \in TablesOf(moov)
    BY <1>2, <2>3, TableOf
  <2> QED BY <2>4, <2>5
<1>15. (\A k \in ToSet(moov.kids) : Well1(k)) => \A k \in ToSet(c.kids) : Well1(k)
  BY <1>2, <1>7, <1>9, <1>10
<1> QED BY <1>9, <1>12, <1>13, <1>14, <1>15 DEF AllMovedBy

\* Another set of tags: the same tables.
LEMMA SplicedTables ==
  ASSUME NEW b, NEW c, Spliced(b, c)
  PROVE  TablesOf(c) = TablesOf(b)
<1>1. \A t : t \in TablesOf(c) <=> t \in TablesOf(b)
  <2>1. SUFFICES ASSUME NEW t PROVE t \in TablesOf(c) <=> t \in TablesOf(b)
    OBVIOUS
  <2>2. \A k : k.typ = "trak" => (k \in ToSet(c.kids) <=> k \in ToSet(b.kids))
    BY DEF Spliced
  <2> QED BY <2>2, TableOf
<1> QED BY <1>1

\* What another set of tags makes of moov.
Rebuilt(moov, c, after) ==
  /\ Built3(c) /\ c.typ = moov.typ
  /\ ~after => TablesOf(c) = TablesOf(moov)
  /\ after => AllMovedBy(TablesOf(moov), TablesOf(c), Length(c) - Length(moov))
  /\ Sound(moov) \/ Chains(moov) = <<>> => Sound(c)
  /\ (\A k \in ToSet(moov.kids) : Well1(k)) => \A k \in ToSet(c.kids) : Well1(k)

\* RebuildMoov moves the tables by what moov has grown, if the media data is after it.
LEMMA RebuiltIs ==
  ASSUME NEW moov, Built3(moov), \A t \in TablesOf(moov) : IsTable(t), NEW ts, TagLen(ts) \in Nat,
         NEW after \in BOOLEAN, NEW c, c = RebuildMoov(moov, ts, after)
  PROVE  Rebuilt(moov, c, after)
<1>1. PICK ilst : ilst = Box("ilst", TagLen(ts), <<>>, <<ts>>)
  OBVIOUS
<1>2. IsIlst(ilst)
  <2>1. PICK l \in Int : l = TagLen(ts)
    OBVIOUS
  <2>2. PICK data : data = <<ts>> /\ IsList(data)
    BY Short
  <2>3. ilst = Box("ilst", l, <<>>, data)
    BY <1>1, <2>1, <2>2
  <2>4. Built3(ilst) /\ Sound(ilst) /\ ilst.typ = "ilst" /\ ToSet(ilst.kids) = {}
    BY <2>2, <2>3, LeafIs
  <2> QED BY <2>4 DEF IsIlst
<1>3. PICK new : new = SpliceIlst(moov, ilst)
  OBVIOUS
<1>4. Spliced(moov, new) /\ (Sound(moov) \/ Chains(moov) = <<>> => Sound(new))
  BY <1>2, <1>3, SpliceIs
<1>5. TablesOf(new) = TablesOf(moov)
  BY <1>4, SplicedTables
<1>6. Built3(new) /\ new.typ = moov.typ
  BY <1>4 DEF Spliced
<1>7. (\A k \in ToSet(moov.kids) : Well1(k)) => \A k \in ToSet(new.kids) : Well1(k)
  BY <1>4 DEF Spliced
<1>8. c = Followed(moov, new, after)
  BY <1>1, <1>3 DEF RebuildMoov
<1>9. CASE ~after
  <2>1. c = new
    BY <1>8, <1>9 DEF Followed
  <2> QED BY <1>4, <1>5, <1>6, <1>7, <1>9, <2>1 DEF Rebuilt
<1>10. CASE after
  <2>1. PICK e \in Int : e = Length(new) - Length(moov)
    <3>1. Length(new) \in Int /\ Length(moov) \in Int
      BY <1>6, BuiltLess, LengthInt
    <3> QED BY <3>1
  <2>2. c = ShiftChunkOffsets(new, e)
    BY <1>8, <1>10, <2>1 DEF Followed
  <2>3. \A t \in TablesOf(new) : IsTable(t)
    BY <1>5
  <2>4. /\ Framed(new, c) /\ Built3(c) /\ AllMovedBy(TablesOf(new), TablesOf(c), e)
        /\ (\A k \in ToSet(new.kids) : Well1(k)) => \A k \in ToSet(c.kids) : Well1(k)
    BY <1>6, <2>2, <2>3, ShiftIs
  <2>5. c.typ = new.typ /\ c.size = new.size /\ Length(c) = Length(new)
    BY <2>4 DEF Framed
  <2>6. Sound(new) => Sound(c)
    BY <2>5 DEF Sound
  <2>7. AllMovedBy(TablesOf(moov), TablesOf(c), Length(c) - Length(moov))
    BY <1>5, <2>1, <2>4, <2>5
  <2> QED BY <1>4, <1>6, <1>7, <1>10, <2>4, <2>5, <2>6, <2>7 DEF Rebuilt
<1> QED BY <1>9, <1>10

-----------------------------------------------------------------------------
(* A file written: what a player needs is kept. *)

\* w has the media of parts, and the chunks in the same places of it.
Plays(parts, w) == Media(w) = Media(parts) /\ Chunks(w) = Chunks(parts)

\* The types of two lists are the same.
LikeTypes(s, t, n) ==
  n \in Nat /\ n = Len(s) /\ n = Len(t) /\ IsList(s) /\ IsList(t) /\ \A i \in 1 .. n : t[i].typ = s[i].typ

\* Then they are found in the same place.
LEMMA SameFind ==
  ASSUME NEW s, NEW t, NEW n, LikeTypes(s, t, n), NEW typ
  PROVE  Find(t, typ) = Find(s, typ)
<1>1. {i \in 1 .. Len(t) : t[i].typ = typ} = {i \in 1 .. Len(s) : s[i].typ = typ}
  BY DEF LikeTypes
<1> QED BY <1>1 DEF Find, SelectInSeq

\* Where the media is.
MediaOf(parts) == {i \in DOMAIN parts : parts[i].typ \notin TagBoxes}

\* Media is what is there, in order.
LEMMA MediaIs ==
  ASSUME NEW parts
  PROVE  Media(parts) = [k \in 1 .. Cardinality(MediaOf(parts)) |-> parts[Nth(MediaOf(parts), k)]]
  BY DEF Media, MediaOf, Filter

\* The same boxes, at places in the same order: the same media.
LEMMA SameMedia ==
  ASSUME NEW h, NEW m, NEW n, NEW parts, NEW w, Leads(h, m, MediaOf(parts), n, MediaOf(w)),
         \A i \in MediaOf(parts) : parts[i] = w[h[i]]
  PROVE  Media(w) = Media(parts)
<1>1. PICK P : P = MediaOf(parts)
  OBVIOUS
<1>2. PICK Q : Q = MediaOf(w)
  OBVIOUS
<1>3. Leads(h, m, P, n, Q) /\ \A i \in P : parts[i] = w[h[i]]
  BY <1>1, <1>2
<1>4. [k \in 1 .. Cardinality(P) |-> parts[Nth(P, k)]] = [k \in 1 .. Cardinality(Q) |-> w[Nth(Q, k)]]
  BY <1>3, SamePicked
<1>5. Media(parts) = [k \in 1 .. Cardinality(P) |-> parts[Nth(P, k)]]
  BY <1>1, MediaIs
<1>6. Media(w) = [k \in 1 .. Cardinality(Q) |-> w[Nth(Q, k)]]
  BY <1>2, MediaIs
<1> QED BY <1>4, <1>5, <1>6

\* Boxes that come before are the same: so is the offset.
LEMMA OffsetSame ==
  ASSUME NEW parts, NEW w, NEW i, \A k \in 1 .. i - 1 : w[k] = parts[k]
  PROVE  Offset(w, i) = Offset(parts, i)
<1>1. [k \in 1 .. i - 1 |-> Length(w[k])] = [k \in 1 .. i - 1 |-> Length(parts[k])]
  OBVIOUS
<1> QED BY <1>1 DEF Offset

\* One that comes before has grown: the offset has by as much.
LEMMA OffsetGrew ==
  ASSUME NEW parts, NEW w, NEW n \in Nat, NEW i \in 1 .. n, NEW m \in 1 .. i - 1,
         \A k \in 1 .. n : Length(parts[k]) \in Int, \A k \in 1 .. n : k # m => w[k] = parts[k], Length(w[m]) \in Int
  PROVE  Offset(parts, i) \in Int /\ Offset(w, i) = Offset(parts, i) + (Length(w[m]) - Length(parts[m]))
<1>1. i \in 1 .. n + 1 /\ i - 1 \in Nat /\ m \in 1 .. n /\ m \in 1 .. i - 1 /\ \A k \in 1 .. i - 1 : k \in 1 .. n
  OBVIOUS
<1>2. PICK x \in Int : x = Length(w[m]) - Length(parts[m])
  BY <1>1
<1>3. PICK f : IsTotal(f, 0, LengthsOf(parts, i - 1), i - 1) /\ Offset(parts, i) = f[i - 1]
  BY <1>1, OffsetRun
<1>4. \A k \in 1 .. n : Length(w[k]) \in Int
  BY <1>1
<1>5. PICK g : IsTotal(g, 0, LengthsOf(w, i - 1), i - 1) /\ Offset(w, i) = g[i - 1]
  BY <1>1, <1>4, OffsetRun
<1>6. PICK v : v = LengthsOf(parts, i - 1)
  OBVIOUS
<1>7. PICK u : u = LengthsOf(w, i - 1)
  OBVIOUS
<1>8. PICK j \in Nat : j = i - 1
  BY <1>1
<1>9. u[m] = v[m] + x
  BY <1>1, <1>2, <1>6, <1>7 DEF LengthsOf
<1>10. \A k \in 1 .. j : k # m => u[k] = v[k]
  BY <1>1, <1>6, <1>7, <1>8 DEF LengthsOf
<1>11. IsTotal(f, 0, v, j) /\ IsTotal(g, 0, u, j) /\ m \in 1 .. j
  BY <1>1, <1>3, <1>5, <1>6, <1>7, <1>8
<1>12. \A k \in 0 .. j : f[k] \in Int /\ g[k] = f[k] + (IF k < m THEN 0 ELSE x)
  BY <1>9, <1>10, <1>11, TotalPoint
<1>13. f[j] \in Int /\ g[j] = f[j] + x
  <2>1. j \in 0 .. j /\ ~(j < m)
    BY <1>8, <1>11
  <2> QED BY <1>12, <2>1
<1> QED BY <1>2, <1>3, <1>5, <1>8, <1>13

PlacesOf(ts, o) == {[i \in DOMAIN t.data |-> t.data[i] - o] : t \in ts}

\* Tables moved by as much as what they point into.
LEMMA PlacesMoved ==
  ASSUME NEW ts, NEW us, NEW e \in Int, AllMovedBy(ts, us, e), NEW o \in Int, NEW p, p = o + e
  PROVE  PlacesOf(us, p) = PlacesOf(ts, o)
<1>1. ASSUME NEW t, NEW u, MovedBy(t, u, e)
      PROVE  [i \in DOMAIN t.data |-> t.data[i] - o] = [i \in DOMAIN u.data |-> u.data[i] - p]
  <2>1. DOMAIN u.data = DOMAIN t.data
    BY <1>1 DEF MovedBy
  <2>2. \A i \in DOMAIN t.data : t.data[i] - o = u.data[i] - p
    BY <1>1 DEF MovedBy
  <2> QED BY <2>1, <2>2
<1>2. \A x \in PlacesOf(us, p) : x \in PlacesOf(ts, o)
  BY <1>1 DEF PlacesOf, AllMovedBy
<1>3. \A x \in PlacesOf(ts, o) : x \in PlacesOf(us, p)
  BY <1>1 DEF PlacesOf, AllMovedBy
<1> QED BY <1>2, <1>3

\* The tables are those of moov.
LEMMA ChunksAre ==
  ASSUME NEW parts
  PROVE  /\ Chunks(parts) = PlacesOf(Tables(parts), Offset(parts, Find(parts, "mdat")))
         /\ Tables(parts) = IF Find(parts, "moov") = 0 THEN {} ELSE TablesOf(parts[Find(parts, "moov")])
<1>1. Chunks(parts) = PlacesOf(Tables(parts), Offset(parts, Find(parts, "mdat")))
  BY DEF Chunks, PlacesOf
<1>2. Tables(parts) = IF Find(parts, "moov") = 0 THEN {} ELSE TablesOf(parts[Find(parts, "moov")])
  BY DEF Tables, TablesOf, Has
<1> QED BY <1>1, <1>2
-----------------------------------------------------------------------------
(* MP4. *)

\* moov is rebuilt, at m, and the media data is where it was: on one side of it.
MoovRebuilt(top, w, m, after) ==
  /\ IsAudio(".m4b", top) /\ m = Find(top, "moov") /\ m # 0 /\ after \in BOOLEAN
  /\ Rebuilt(top[m], w[m], after) /\ w = [top EXCEPT ![m] = w[m]]
  /\ after => Find(top, "mdat") > m
  /\ ~after => Find(top, "mdat") < m

\* What WriteMP4 writes.
LEMMA WriteMP4Is ==
  ASSUME NEW top, IsAudio(".m4b", top), NEW ts, TagLen(ts) \in Nat, NEW w, w = WriteMP4(top, ts), w # Error
  PROVE  \E m, after : MoovRebuilt(top, w, m, after)
<1>1. PICK m : m = Find(top, "moov")
  OBVIOUS
<1>2. PICK f : f = Find(top, "mdat")
  OBVIOUS
<1>3. PICK mdats : mdats = {i \in DOMAIN top : top[i].typ = "mdat"}
  OBVIOUS
<1>4. PICK after \in BOOLEAN : after = (\E i \in mdats : i > m)
  OBVIOUS
<1>5. m # 0 /\ ~((\E i \in mdats : i < m) /\ (\E i \in mdats : i > m))
  BY <1>1, <1>3 DEF WriteMP4
<1>6. PICK new : new = RebuildMoov(top[m], ts, after)
  OBVIOUS
<1>7. w = [top EXCEPT ![m] = new]
  <2>1. w = WithMoov(top, m, new)
    BY <1>1, <1>3, <1>4, <1>6 DEF WriteMP4
  <2> QED BY <2>1 DEF WithMoov
<1>8. IsList(top) /\ (\A i \in DOMAIN top : Built3(top[i])) /\ \A t \in Tables(top) : IsTable(t)
  BY DEF IsAudio
<1>9. PICK n \in Nat : n = Len(top) /\ DOMAIN top = 1 .. n
  BY <1>8, ListParts
<1>10. m \in 1 .. n /\ top[m].typ = "moov"
  BY <1>1, <1>5, <1>8, <1>9, FindIs
<1>11. w[m] = new
  BY <1>7, <1>9, <1>10
<1>12. Rebuilt(top[m], new, after)
  <2>1. Built3(top[m])
    BY <1>8, <1>9, <1>10
  <2>2. \A t \in TablesOf(top[m]) : IsTable(t)
    BY <1>1, <1>5, <1>8, ChunksAre
  <2> QED BY <1>6, <2>1, <2>2, RebuiltIs
<1>13. f # 0 => f \in mdats /\ \A i \in mdats : i >= f
  <2>1. SUFFICES ASSUME f # 0 PROVE f \in mdats /\ \A i \in mdats : i >= f
    OBVIOUS
  <2>2. f \in 1 .. n /\ top[f].typ = "mdat" /\ \A i \in 1 .. n : i < f => top[i].typ # "mdat"
    BY <1>2, <1>8, <1>9, <2>1, FindIs
  <2> QED BY <1>3, <1>9, <2>2
<1>14. f = 0 => mdats = {}
  BY <1>2, <1>3, <1>8, FindIs
<1>15. mdats \subseteq 1 .. n /\ m \notin mdats
  <2>1. "moov" # "mdat"
    OBVIOUS
  <2> QED BY <1>3, <1>9, <1>10, <2>1
<1>16. f \in Nat
  <2>1. CASE f = 0
    BY <2>1
  <2>2. CASE f # 0
    <3>1. f \in 1 .. n
      BY <1>13, <1>15, <2>2
    <3> QED BY <3>1
  <2> QED BY <2>1, <2>2
<1>17. after => f > m
  <2>1. SUFFICES ASSUME after PROVE f > m
    OBVIOUS
  <2>2. PICK i \in mdats : i > m
    BY <1>4, <2>1
  <2>3. f \in mdats
    BY <1>13, <1>14, <2>2
  <2>4. ~(f < m)
    BY <1>5, <2>2, <2>3
  <2>5. f \in 1 .. n /\ f # m
    BY <1>15, <2>3
  <2> QED BY <1>10, <2>4, <2>5
<1>18. ~after => f < m
  <2>1. SUFFICES ASSUME ~after PROVE f < m
    OBVIOUS
  <2>2. CASE f = 0
    BY <1>10, <2>2
  <2>3. CASE f # 0
    BY <1>4, <1>10, <1>13, <1>15, <1>16, <2>1, <2>3
  <2> QED BY <2>2, <2>3
<1>19. MoovRebuilt(top, w, m, after)
  BY <1>1, <1>2, <1>4, <1>5, <1>7, <1>11, <1>12, <1>17, <1>18 DEF MoovRebuilt
<1> QED BY <1>19

\* The parts of a rebuilt file.
LEMMA RebuiltParts ==
  ASSUME NEW top, NEW w, NEW m, NEW after, MoovRebuilt(top, w, m, after)
  PROVE  /\ Len(top) \in Nat /\ DOMAIN top = 1 .. Len(top) /\ LikeTypes(top, w, Len(top)) /\ DOMAIN w = 1 .. Len(top)
         /\ m \in 1 .. Len(top) /\ w[m].typ = "moov" /\ top[m].typ = "moov"
         /\ \A k \in 1 .. Len(top) : k # m => w[k] = top[k]
         /\ \A k \in 1 .. Len(top) : Built3(top[k]) /\ Built3(w[k])
<1>1. IsList(top) /\ \A i \in DOMAIN top : Built3(top[i])
  BY DEF MoovRebuilt, IsAudio
<1>2. PICK n \in Nat : n = Len(top) /\ DOMAIN top = 1 .. n
  BY <1>1, ListParts
<1>3. m \in 1 .. n /\ top[m].typ = "moov"
  BY <1>1, <1>2, FindIs DEF MoovRebuilt
<1>4. PICK new : new = w[m] /\ w = [top EXCEPT ![m] = new] /\ Built3(new) /\ new.typ = top[m].typ
  BY DEF MoovRebuilt, Rebuilt
<1>5. DOMAIN w = 1 .. n /\ \A k \in 1 .. n : k # m => w[k] = top[k]
  BY <1>2, <1>4
<1>6. IsList(w) /\ Len(w) = n
  <2>1. w = [k \in 1 .. n |-> w[k]]
    BY <1>2, <1>4
  <2> QED BY <2>1, ListOf
<1>7. \A k \in 1 .. n : w[k].typ = top[k].typ
  BY <1>4, <1>5
<1>8. \A k \in 1 .. n : Built3(top[k]) /\ Built3(w[k])
  BY <1>1, <1>2, <1>4, <1>5
<1>9. LikeTypes(top, w, n)
  BY <1>1, <1>2, <1>6, <1>7 DEF LikeTypes
<1> QED BY <1>2, <1>3, <1>4, <1>5, <1>8, <1>9

\* The same media, the chunks in the same places of it, and tables that are tables.
LEMMA RebuiltPlays ==
  ASSUME NEW top, NEW w, NEW m, NEW after, MoovRebuilt(top, w, m, after)
  PROVE  Plays(top, w) /\ IsAudio(".m4b", w)
<1>1. PICK n \in Nat : n = Len(top) /\ DOMAIN top = 1 .. n
  BY RebuiltParts
<1>2. LikeTypes(top, w, n) /\ DOMAIN w = 1 .. n
  BY <1>1, RebuiltParts
<1>3. m \in 1 .. n /\ w[m].typ = "moov" /\ top[m].typ = "moov"
  BY <1>1, RebuiltParts
<1>4. \A k \in 1 .. n : k # m => w[k] = top[k]
  BY <1>1, RebuiltParts
<1>5. \A k \in 1 .. n : Built3(top[k]) /\ Built3(w[k])
  BY <1>1, RebuiltParts
<1>6. Media(w) = Media(top)
  <2>1. PICK h : h = [i \in 1 .. n |-> i]
    OBVIOUS
  <2>2. "moov" \in TagBoxes
    BY DEF TagBoxes
  <2>3. PICK P : P = MediaOf(top)
    OBVIOUS
  <2>4. MediaOf(w) = P
    <3>1. \A i \in 1 .. n : w[i].typ = top[i].typ
      BY <1>2 DEF LikeTypes
    <3> QED BY <1>1, <1>2, <2>3, <3>1 DEF MediaOf
  <2>5. P \subseteq 1 .. n /\ m \notin P
    BY <1>1, <1>3, <2>2, <2>3 DEF MediaOf
  <2>6. Leads(h, n, P, n, P)
    BY <2>1, <2>5 DEF Leads
  <2>7. \A i \in P : top[i] = w[h[i]]
    BY <1>4, <2>1, <2>5
  <2> QED BY <2>3, <2>4, <2>6, <2>7, SameMedia
<1>7. Find(w, "moov") = m /\ Find(w, "mdat") = Find(top, "mdat") /\ Find(top, "moov") = m /\ m # 0
  BY <1>2, SameFind DEF MoovRebuilt
<1>8. PICK f : f = Find(top, "mdat")
  OBVIOUS
<1>9. Tables(top) = TablesOf(top[m]) /\ Tables(w) = TablesOf(w[m])
  BY <1>7, ChunksAre
<1>10. Chunks(top) = PlacesOf(TablesOf(top[m]), Offset(top, f)) /\ Chunks(w) = PlacesOf(TablesOf(w[m]), Offset(w, f))
  BY <1>7, <1>8, <1>9, ChunksAre
<1>11. \A t \in TablesOf(top[m]) : IsTable(t)
  BY <1>9 DEF MoovRebuilt, IsAudio
<1>12. f = 0 \/ f \in 1 .. n
  BY <1>1, <1>2, <1>8, FindIs DEF LikeTypes
<1>13. Chunks(w) = Chunks(top) /\ \A t \in TablesOf(w[m]) : IsTable(t)
  <2>1. CASE ~after
    <3>1. TablesOf(w[m]) = TablesOf(top[m]) /\ f < m
      BY <1>8, <2>1 DEF MoovRebuilt, Rebuilt
    <3>2. \A k \in 1 .. f - 1 : w[k] = top[k]
      BY <1>3, <1>4, <1>12, <3>1
    <3>3. Offset(w, f) = Offset(top, f)
      BY <3>2, OffsetSame
    <3> QED BY <1>10, <1>11, <3>1, <3>3
  <2>2. CASE after
    <3>1. AllMovedBy(TablesOf(top[m]), TablesOf(w[m]), Length(w[m]) - Length(top[m])) /\ f > m
      BY <1>8, <2>2 DEF MoovRebuilt, Rebuilt
    <3>2. \A k \in 1 .. n : Length(top[k]) \in Int /\ Length(w[k]) \in Int
      BY <1>5, BuiltLess, LengthInt
    <3>3. f \in 1 .. n /\ m \in 1 .. f - 1
      BY <1>3, <1>12, <3>1
    <3>4. PICK e \in Int : e = Length(w[m]) - Length(top[m])
      BY <1>3, <3>2
    <3>5. Offset(top, f) \in Int /\ Offset(w, f) = Offset(top, f) + e
      BY <1>3, <1>4, <3>2, <3>3, <3>4, OffsetGrew
    <3>6. PlacesOf(TablesOf(w[m]), Offset(w, f)) = PlacesOf(TablesOf(top[m]), Offset(top, f))
      BY <3>1, <3>4, <3>5, PlacesMoved
    <3>7. \A t \in TablesOf(w[m]) : IsTable(t)
      BY <3>1 DEF AllMovedBy
    <3> QED BY <1>10, <3>6, <3>7
  <2> QED BY <2>1, <2>2 DEF MoovRebuilt
<1>14. IsAudio(".m4b", w)
  <2>1. IsList(w) /\ \A i \in DOMAIN w : Built3(w[i])
    BY <1>2, <1>5 DEF LikeTypes
  <2>2. \A t \in Tables(w) : IsTable(t)
    BY <1>9, <1>13
  <2>3. ".m4b" \notin {".mp3", ".flac"}
    OBVIOUS
  <2> QED BY <2>1, <2>2, <2>3 DEF IsAudio
<1> QED BY <1>6, <1>13, <1>14 DEF Plays

\* It is a container if it was, unless moov ran to the end.
LEMMA RebuiltReads ==
  ASSUME NEW top, NEW w, NEW m, NEW after, MoovRebuilt(top, w, m, after), ReadableMP4(top), ~OpenEnded(top)
  PROVE  ReadableMP4(w)
<1>1. PICK n \in Nat : n = Len(top) /\ DOMAIN top = 1 .. n
  BY RebuiltParts
<1>2. LikeTypes(top, w, n) /\ DOMAIN w = 1 .. n /\ Len(w) = n
  BY <1>1, RebuiltParts DEF LikeTypes
<1>3. m \in 1 .. n
  BY <1>1, RebuiltParts
<1>4. \A k \in 1 .. n : k # m => w[k] = top[k]
  BY <1>1, RebuiltParts
<1>5. Find(w, "moov") = m /\ Find(top, "moov") = m /\ m # 0
  BY <1>2, SameFind DEF MoovRebuilt
<1>6. \A i \in 1 .. n : (Sound(top[i]) \/ (top[i].size = 0 /\ i = n)) /\ \A k \in ToSet(top[i].kids) : Well1(k)
  BY <1>1 DEF ReadableMP4, WellFormed, Well1
<1>7. Sound(top[m]) \/ Chains(top[m]) = <<>>
  BY <1>3, <1>5, <1>6 DEF OpenEnded
<1>8. Sound(w[m]) /\ \A k \in ToSet(w[m].kids) : Well1(k)
  BY <1>3, <1>6, <1>7 DEF MoovRebuilt, Rebuilt
<1>9. \A i \in 1 .. n : (Sound(w[i]) \/ (w[i].size = 0 /\ i = n)) /\ \A k \in ToSet(w[i].kids) : Well1(k)
  <2>1. SUFFICES ASSUME NEW i \in 1 .. n
                 PROVE  (Sound(w[i]) \/ (w[i].size = 0 /\ i = n)) /\ \A k \in ToSet(w[i].kids) : Well1(k)
    OBVIOUS
  <2>2. CASE i = m
    BY <1>8, <2>2
  <2>3. CASE i # m
    <3>1. w[i] = top[i]
      BY <1>4, <2>3
    <3> QED BY <1>6, <3>1
  <2> QED BY <2>2, <2>3
<1>10. WellFormed(w)
  BY <1>2, <1>9 DEF WellFormed, Well1
<1> QED BY <1>5, <1>10 DEF ReadableMP4, Has

-----------------------------------------------------------------------------
(* MP3 and FLAC: no moov, no chunks. *)

\* Without moov there is nothing to point anywhere.
LEMMA NoChunks ==
  ASSUME NEW parts, IsList(parts), \A i \in DOMAIN parts : parts[i].typ # "moov"
  PROVE  Chunks(parts) = {}
<1>1. Find(parts, "moov") = 0
  BY FindIs
<1>2. PlacesOf({}, Offset(parts, Find(parts, "mdat"))) = {}
  BY DEF PlacesOf
<1> QED BY <1>1, <1>2, ChunksAre

\* Where the audio of an MP3 is: from a to z.
LEMMA AudioIs ==
  ASSUME NEW parts, IsAudio(".mp3", parts), NEW n \in Nat, n = Len(parts)
  PROVE  \E a \in 1 .. n, z \in 1 .. n :
           a = AudioStart(parts) /\ z = AudioEnd(parts) /\ a <= z /\ MediaOf(parts) \subseteq a .. z
<1>1. IsList(parts) /\ DOMAIN parts = 1 .. n
  BY ListParts DEF IsAudio
<1>2. PICK a : a = AudioStart(parts)
  OBVIOUS
<1>3. PICK z : z = AudioEnd(parts)
  OBVIOUS
<1>4. {"id3v2", "footer", "id3v1"} \subseteq TagBoxes
  BY DEF TagBoxes
<1>5. \A i \in MediaOf(parts) : i \in 1 .. n /\ parts[i].typ \notin {"id3v2", "footer", "id3v1"}
  BY <1>1, <1>4 DEF MediaOf
<1>6. PICK i0 : i0 \in MediaOf(parts)
  BY <1>1 DEF IsAudio, MediaOf
<1>7. a \in 1 .. 3 /\ (a > 1 => parts[1].typ = "id3v2") /\ (a > 2 => parts[2].typ = "footer")
  BY <1>2 DEF AudioStart
<1>8. Last(parts) = parts[n]
  BY DEF Last
<1>9. (z = n \/ z = n - 1) /\ (z # n => parts[n].typ = "id3v1")
  BY <1>3, <1>8 DEF AudioEnd
<1>10. ASSUME NEW i \in MediaOf(parts) PROVE i >= a /\ i <= z /\ i \in 1 .. n
  <2>1. i \in 1 .. n /\ parts[i].typ \notin {"id3v2", "footer", "id3v1"}
    BY <1>5
  <2>2. i = 1 => a = 1
    BY <1>7, <2>1
  <2>3. i = 2 => a < 3
    BY <1>7, <2>1
  <2>4. i >= a
    BY <1>7, <2>1, <2>2, <2>3
  <2>5. i = n => z = n
    BY <1>9, <2>1
  <2>6. i <= z
    BY <1>9, <2>1, <2>5
  <2> QED BY <2>1, <2>4, <2>6
<1>11. i0 >= a /\ i0 <= z /\ i0 \in 1 .. n
  BY <1>6, <1>10
<1>12. a \in 1 .. n /\ z \in 1 .. n /\ a <= z
  BY <1>7, <1>9, <1>11
<1>13. MediaOf(parts) \subseteq a .. z
  BY <1>10, <1>12
<1> QED BY <1>2, <1>3, <1>12, <1>13

\* An MP3 keeps its audio.
LEMMA MP3Keeps ==
  ASSUME NEW parts, IsAudio(".mp3", parts), NEW ts, NEW w, w = WriteMP3(parts, ts)
  PROVE  IsAudio(".mp3", w) /\ Plays(parts, w)
<1>1. PICK n \in Nat : n = Len(parts) /\ DOMAIN parts = 1 .. n
  BY ListParts DEF IsAudio
<1>2. IsList(parts) /\ (\A i \in 1 .. n : parts[i].typ # "moov") /\ \E i \in 1 .. n : parts[i].typ \notin TagBoxes
  BY <1>1 DEF IsAudio
<1>3. PICK a \in 1 .. n, z \in 1 .. n :
        a = AudioStart(parts) /\ z = AudioEnd(parts) /\ a <= z /\ MediaOf(parts) \subseteq a .. z
  BY <1>1, AudioIs
<1>4. PICK tag : tag = Box("id3v2", TagLen(ts), <<>>, <<ts>>)
  OBVIOUS
<1>5. tag.typ = "id3v2" /\ "id3v2" \in TagBoxes /\ "id3v2" # "moov"
  BY <1>4 DEF Box, TagBoxes
<1>6. PICK s : s = SubSeq(parts, a, z)
  OBVIOUS
<1>7. PICK l \in Nat : l = z + 1 - a
  BY <1>3
<1>8. IsList(s) /\ Len(s) = l /\ \A j \in 1 .. l : s[j] = parts[a + j - 1]
  <2>1. a \in Nat \ {0} /\ z \in Nat /\ z <= Len(parts) /\ a <= z + 1
    BY <1>1, <1>3
  <2> QED BY <1>2, <1>6, <1>7, <2>1, ListSub
<1>9. w = <<tag>> \o s
  BY <1>3, <1>4, <1>6 DEF WriteMP3
<1>10. IsList(w) /\ DOMAIN w = 1 .. l + 1 /\ w[1] = tag /\ \A j \in 1 .. l : w[j + 1] = s[j]
  <2>1. l = Len(s) /\ IsList(s)
    BY <1>8
  <2>2. IsList(w) /\ DOMAIN w = 1 .. l + 1
    BY <1>9, <2>1, ListPrepend
  <2>3. w[1] = tag
    BY <1>9, <2>1, ListPrepend
  <2>4. \A j \in 1 .. l : w[j + 1] = s[j]
    BY <1>9, <2>1, ListPrepend
  <2> QED BY <2>2, <2>3, <2>4
<1>11. PICK h : h = [i \in a .. z |-> i - a + 2]
  OBVIOUS
<1>12. ASSUME NEW i \in a .. z PROVE h[i] \in 1 .. l + 1 /\ h[i] = i - a + 2 /\ w[h[i]] = parts[i]
  <2>1. PICK j \in 1 .. l : j = i - a + 1
    BY <1>3, <1>7
  <2>2. h[i] = j + 1 /\ h[i] = i - a + 2 /\ a + j - 1 = i
    BY <1>3, <1>11, <2>1
  <2>3. w[j + 1] = parts[a + j - 1]
    BY <1>8, <1>10
  <2>4. j + 1 \in 1 .. l + 1
    OBVIOUS
  <2> QED BY <2>2, <2>3, <2>4
<1>13. ASSUME NEW q \in 1 .. l + 1, q # 1 PROVE \E i \in a .. z : h[i] = q
  <2>1. q + a - 2 \in a .. z
    BY <1>3, <1>7, <1>13
  <2>2. h[q + a - 2] = q
    BY <1>3, <1>11, <2>1
  <2> QED BY <2>1, <2>2
<1>14. PICK P : P = MediaOf(parts)
  OBVIOUS
<1>15. PICK Q : Q = MediaOf(w)
  OBVIOUS
<1>16. P \subseteq a .. z /\ P \subseteq 1 .. n /\ Q \subseteq 1 .. l + 1
  BY <1>1, <1>3, <1>10, <1>14, <1>15 DEF MediaOf
<1>17. \A i \in P : h[i] \in Q /\ parts[i] = w[h[i]]
  <2>1. SUFFICES ASSUME NEW i \in P PROVE h[i] \in Q /\ parts[i] = w[h[i]]
    OBVIOUS
  <2>2. h[i] \in 1 .. l + 1 /\ w[h[i]] = parts[i]
    BY <1>12, <1>16
  <2>3. parts[i].typ \notin TagBoxes
    BY <1>14 DEF MediaOf
  <2> QED BY <1>10, <1>15, <2>2, <2>3 DEF MediaOf
<1>18. \A i, j \in P : i < j => h[i] < h[j]
  <2>1. SUFFICES ASSUME NEW i \in P, NEW j \in P, i < j PROVE h[i] < h[j]
    OBVIOUS
  <2>2. i \in 1 .. n /\ j \in 1 .. n /\ h[i] = i - a + 2 /\ h[j] = j - a + 2
    BY <1>12, <1>16
  <2> QED BY <1>3, <2>1, <2>2
<1>19. \A q \in Q : \E i \in P : h[i] = q
  <2>1. SUFFICES ASSUME NEW q \in Q PROVE \E i \in P : h[i] = q
    OBVIOUS
  <2>2. q \in 1 .. l + 1 /\ w[q].typ \notin TagBoxes
    BY <1>15, <1>16 DEF MediaOf
  <2>3. q # 1
    BY <1>5, <1>10, <2>2
  <2>4. PICK i \in a .. z : h[i] = q
    BY <1>13, <2>2, <2>3
  <2>5. w[q] = parts[i]
    BY <1>12, <2>4
  <2>6. i \in 1 .. n
    BY <1>3
  <2>7. i \in P
    BY <1>1, <1>14, <2>2, <2>5, <2>6 DEF MediaOf
  <2> QED BY <2>4, <2>7
<1>20. Leads(h, n, P, l + 1, Q)
  <2>1. l + 1 \in Nat
    OBVIOUS
  <2> QED BY <1>16, <1>17, <1>18, <1>19, <2>1 DEF Leads
<1>21. Media(w) = Media(parts)
  <2>1. PICK k \in Nat : k = l + 1
    OBVIOUS
  <2>2. Leads(h, n, MediaOf(parts), k, MediaOf(w))
    BY <1>14, <1>15, <1>20, <2>1
  <2>3. \A i \in MediaOf(parts) : parts[i] = w[h[i]]
    BY <1>14, <1>17
  <2> QED BY <2>2, <2>3, SameMedia
<1>22. \A q \in DOMAIN w : w[q].typ # "moov"
  <2>1. SUFFICES ASSUME NEW q \in 1 .. l + 1 PROVE w[q].typ # "moov"
    BY <1>10
  <2>2. CASE q = 1
    BY <1>5, <1>10, <2>2
  <2>3. CASE q # 1
    <3>1. PICK i \in a .. z : h[i] = q
      BY <1>13, <2>3
    <3>2. i \in 1 .. n /\ w[q] = parts[i]
      BY <1>3, <1>12, <3>1
    <3> QED BY <1>2, <3>2
  <2> QED BY <2>2, <2>3
<1>23. Chunks(w) = Chunks(parts)
  BY <1>1, <1>2, <1>10, <1>22, NoChunks
<1>24. \E q \in DOMAIN w : w[q].typ \notin TagBoxes
  <2>1. PICK i \in 1 .. n : parts[i].typ \notin TagBoxes
    BY <1>2
  <2>2. i \in P
    BY <1>1, <1>14, <2>1 DEF MediaOf
  <2>3. h[i] \in Q
    BY <1>17, <2>2
  <2> QED BY <1>15, <2>3 DEF MediaOf
<1>25. IsAudio(".mp3", w)
  <2>1. ".mp3" # ".flac" /\ ".mp3" # ".m4b"
    OBVIOUS
  <2> QED BY <1>10, <1>22, <1>24, <2>1 DEF IsAudio
<1> QED BY <1>21, <1>23, <1>25 DEF Plays

\* Three elements.
LEMMA Three ==
  ASSUME NEW x, NEW y, NEW z, NEW t, t = <<x, y, z>>
  PROVE  IsList(t) /\ Len(t) = 3 /\ t[1] = x /\ t[2] = y /\ t[3] = z
<1>1. t = [i \in 1 .. 3 |-> t[i]]
  OBVIOUS
<1>2. 3 \in Nat
  OBVIOUS
<1> QED BY <1>1, <1>2, ListOf

Dropped == {"comment", "picture", "padding", "frames"}

\* What is written of a FLAC.
FLACWritten(parts, w, n, K, k) ==
  /\ n = Len(parts) /\ n \in Nat /\ n > 0 /\ DOMAIN parts = 1 .. n
  /\ K = {i \in 1 .. n : parts[i].typ \notin Dropped} /\ k = Cardinality(K)
  /\ k \in Nat /\ IsList(w) /\ DOMAIN w = 1 .. k + 3
  /\ \A i \in 1 .. k : w[i] = parts[Nth(K, i)]
  /\ w[k + 1].typ = "comment" /\ w[k + 2].typ = "padding" /\ w[k + 3] = parts[n]

\* WriteFLAC keeps the blocks that are no comment, picture or padding, and the frames.
LEMMA WriteFLACIs ==
  ASSUME NEW parts, IsAudio(".flac", parts), NEW ts, NEW w, w = WriteFLAC(parts, ts)
  PROVE  \E n, K, k : FLACWritten(parts, w, n, K, k)
<1>1. PICK n \in Nat : n = Len(parts) /\ DOMAIN parts = 1 .. n
  BY ListParts DEF IsAudio
<1>2. n > 0
  BY <1>1, EmptyIs DEF IsAudio
<1>3. PICK K : K = {i \in 1 .. n : parts[i].typ \notin Dropped}
  OBVIOUS
<1>4. PICK k \in Nat : k = Cardinality(K)
  BY <1>3, PositionSets
<1>5. PICK kept : kept = [i \in 1 .. k |-> parts[Nth(K, i)]]
  OBVIOUS
<1>6. IsList(kept) /\ Len(kept) = k
  <2>1. kept = [i \in 1 .. k |-> kept[i]]
    BY <1>5
  <2> QED BY <2>1, ListOf
<1>7. PICK x : x = Box("comment", TagLen(ts), <<>>, <<ts>>)
  OBVIOUS
<1>8. PICK y : y = Box("padding", 1, <<>>, <<>>)
  OBVIOUS
<1>9. PICK z : z = parts[n]
  OBVIOUS
<1>10. PICK t : t = <<x, y, z>>
  OBVIOUS
<1>11. IsList(t) /\ Len(t) = 3 /\ t[1] = x /\ t[2] = y /\ t[3] = z
  BY <1>10, Three
<1>12. w = kept \o t
  <2>1. Last(parts) = z
    BY <1>1, <1>9 DEF Last
  <2>2. Filter(parts, LAMBDA b : b.typ \notin {"comment", "picture", "padding", "frames"}) = kept
    BY <1>1, <1>3, <1>4, <1>5 DEF Filter, Dropped
  <2> QED BY <1>7, <1>8, <1>10, <2>1, <2>2 DEF WriteFLAC
<1>13. PICK c : c = kept \o t /\ c = w
  BY <1>12
<1>14. IsList(kept \o t) /\ Len(kept \o t) = k + 3
  <2>1. IsList(kept) /\ IsList(t)
    BY <1>6, <1>11
  <2>2. IsList(kept \o t) /\ Len(kept \o t) = Len(kept) + Len(t)
    BY <2>1, ListConcat
  <2> QED BY <1>6, <1>11, <2>2
<1>15. \A i \in 1 .. k : (kept \o t)[i] = kept[i]
  BY <1>6, <1>11, ListConcat
<1>16. \A i \in 1 .. 3 : (kept \o t)[k + i] = t[i]
  <2>1. IsList(kept) /\ IsList(t)
    BY <1>6, <1>11
  <2>2. \A i \in 1 .. Len(t) : (kept \o t)[Len(kept) + i] = t[i]
    BY <2>1, ListConcat
  <2> QED BY <1>6, <1>11, <2>2
<1>17. IsList(w) /\ Len(w) = k + 3
  BY <1>12, <1>14
<1>18. DOMAIN w = 1 .. k + 3
  BY <1>17, ListParts
<1>19. \A i \in 1 .. k : w[i] = parts[Nth(K, i)]
  BY <1>5, <1>12, <1>15
<1>20. w[k + 1] = x /\ w[k + 2] = y /\ w[k + 3] = z
  <2>1. 1 \in 1 .. 3 /\ 2 \in 1 .. 3 /\ 3 \in 1 .. 3
    OBVIOUS
  <2> QED BY <1>11, <1>12, <1>16, <2>1
<1>21. x.typ = "comment" /\ y.typ = "padding"
  BY <1>7, <1>8 DEF Box
<1>22. FLACWritten(parts, w, n, K, k)
  BY <1>1, <1>2, <1>3, <1>4, <1>9, <1>17, <1>18, <1>19, <1>20, <1>21 DEF FLACWritten
<1> QED BY <1>22

\* A FLAC keeps its audio.
LEMMA FLACKeeps ==
  ASSUME NEW parts, IsAudio(".flac", parts), NEW ts, NEW w, w = WriteFLAC(parts, ts)
  PROVE  IsAudio(".flac", w) /\ Plays(parts, w)
<1>0. PICK K : \E n, k : FLACWritten(parts, w, n, K, k)
  BY WriteFLACIs
<1>1. PICK n \in Nat, k \in Nat : FLACWritten(parts, w, n, K, k)
  BY <1>0 DEF FLACWritten
<1>2. n \in Nat /\ n > 0 /\ DOMAIN parts = 1 .. n /\ n = Len(parts)
  BY <1>1 DEF FLACWritten
<1>3. k \in Nat /\ IsList(w) /\ DOMAIN w = 1 .. k + 3 /\ k = Cardinality(K)
  BY <1>1 DEF FLACWritten
<1>4. (\A i \in 1 .. k : w[i] = parts[Nth(K, i)]) /\ w[k + 3] = parts[n]
  BY <1>1 DEF FLACWritten
<1>5. w[k + 1].typ = "comment" /\ w[k + 2].typ = "padding"
  BY <1>1 DEF FLACWritten
<1>6. K \in SUBSET (1 .. n) /\ \A i \in 1 .. n : i \in K <=> parts[i].typ \notin Dropped
  BY <1>1 DEF FLACWritten
<1>7. IsList(parts) /\ (\A i \in 1 .. n : parts[i].typ # "moov") /\ \A i \in 1 .. n : parts[i].typ = "frames" <=> i = n
  BY <1>2 DEF IsAudio
<1>8. /\ "frames" \notin TagBoxes /\ "comment" \in TagBoxes /\ "padding" \in TagBoxes
      /\ \A x : x \notin TagBoxes /\ x # "frames" => x \notin Dropped
      /\ "frames" \in Dropped
  BY DEF TagBoxes, Dropped
<1>8a. K \in SUBSET (1 .. n)
  BY <1>6
<1>8b. \A i \in 0 .. n : Count(K, i) \in Nat
  BY <1>8a, CountStep
<1>8c. \A i \in 1 .. n : Count(K, i) = Count(K, i - 1) + (IF i \in K THEN 1 ELSE 0)
  BY <1>8a, CountStep
<1>9. \A i \in 1 .. k : Nth(K, i) \in K /\ Count(K, Nth(K, i)) = i
  BY <1>2, <1>3, <1>6, NthPlace
<1>10. \A i \in K : Count(K, i) \in 1 .. k /\ Nth(K, Count(K, i)) = i
  BY <1>2, <1>3, <1>6, NthPlace
<1>11. n \notin K
  BY <1>2, <1>6, <1>7, <1>8
<1>12. PICK P : P = MediaOf(parts)
  OBVIOUS
<1>13. PICK Q : Q = MediaOf(w)
  OBVIOUS
<1>14. \A i : i \in P <=> i \in 1 .. n /\ parts[i].typ \notin TagBoxes
  BY <1>2, <1>12 DEF MediaOf
<1>15. \A q : q \in Q <=> q \in 1 .. k + 3 /\ w[q].typ \notin TagBoxes
  BY <1>3, <1>13 DEF MediaOf
<1>16. \A i \in P : i # n => i \in K
  BY <1>6, <1>7, <1>8, <1>14
<1>17. PICK h : h = [i \in 1 .. n |-> IF i = n THEN k + 3 ELSE Count(K, i)]
  OBVIOUS
<1>18. h[n] = k + 3 /\ \A i \in K : h[i] = Count(K, i)
  <2>1. n > 0
    BY <1>2
  <2>2. n \in 1 .. n
    BY <2>1
  <2>3. \A i \in K : i \in 1 .. n /\ i # n
    BY <1>6, <1>11
  <2>4. h[n] = k + 3
    BY <1>17, <2>2
  <2>5. \A i \in K : h[i] = Count(K, i)
    BY <1>17, <2>3
  <2> QED BY <2>4, <2>5
<1>19. \A i \in K : h[i] \in 1 .. k /\ w[h[i]] = parts[i]
  BY <1>4, <1>10, <1>18
<1>20. (\A i \in 1 .. k : i \in 1 .. k + 3) /\ k + 3 \in 1 .. k + 3
  BY <1>3
<1>21. \A i \in P : h[i] \in Q /\ parts[i] = w[h[i]]
  <2>1. SUFFICES ASSUME NEW i \in P PROVE h[i] \in Q /\ parts[i] = w[h[i]]
    OBVIOUS
  <2>2. CASE i = n
    BY <1>4, <1>14, <1>15, <1>18, <1>20, <2>2
  <2>3. CASE i # n
    <3>1. i \in K
      BY <1>16, <2>3
    <3>2. h[i] \in 1 .. k + 3 /\ w[h[i]] = parts[i]
      BY <1>19, <1>20, <3>1
    <3> QED BY <1>14, <1>15, <3>2
  <2> QED BY <2>2, <2>3
<1>22. \A i, j \in P : i < j => h[i] < h[j]
  <2>1. SUFFICES ASSUME NEW i \in P, NEW j \in P, i < j PROVE h[i] < h[j]
    OBVIOUS
  <2>2. i \in 1 .. n /\ j \in 1 .. n /\ i # n
    BY <1>2, <1>14, <2>1
  <2>3. i \in K
    BY <1>16, <2>2
  <2>4. h[i] = Count(K, i) /\ Count(K, i) \in 1 .. k
    BY <1>10, <1>18, <2>3
  <2>5. CASE j = n
    BY <1>3, <1>18, <2>4, <2>5
  <2>6. CASE j # n
    <3>1. j \in K
      BY <1>16, <2>6
    <3>2. h[j] = Count(K, j) /\ Count(K, j) \in 1 .. k
      BY <1>10, <1>18, <3>1
    <3>3. Count(K, j) = Count(K, j - 1) + (IF j \in K THEN 1 ELSE 0)
      BY <1>8c, <2>2
    <3>4. Count(K, i) <= Count(K, j - 1)
      <4>1. i \in 0 .. n /\ j - 1 \in 0 .. n /\ i <= j - 1
        BY <2>1, <2>2
      <4> QED BY <1>6, <4>1, CountGrows
    <3>5. PICK p \in Nat : p = Count(K, j - 1)
      <4>1. j - 1 \in 0 .. n
        BY <2>2
      <4> QED BY <1>8b, <4>1
    <3>6. Count(K, j) = p + 1 /\ Count(K, i) <= p
      BY <3>1, <3>3, <3>4, <3>5
    <3> QED BY <2>4, <3>2, <3>5, <3>6
  <2> QED BY <2>5, <2>6
<1>23. \A q \in 1 .. k + 3 : q \in 1 .. k \/ q = k + 1 \/ q = k + 2 \/ q = k + 3
  BY <1>3
<1>24. \A q \in Q : \E i \in P : h[i] = q
  <2>1. SUFFICES ASSUME NEW q \in Q PROVE \E i \in P : h[i] = q
    OBVIOUS
  <2>2. q \in 1 .. k + 3 /\ w[q].typ \notin TagBoxes
    BY <1>15
  <2>3. q \in 1 .. k \/ q = k + 3
    BY <1>5, <1>8, <1>23, <2>2
  <2>4. CASE q = k + 3
    <3>1. n \in P
      <4>1. n \in 1 .. n
        BY <1>2
      <4>2. parts[n].typ = "frames"
        BY <1>7, <4>1
      <4> QED BY <1>8, <1>14, <4>1, <4>2
    <3> QED BY <1>18, <2>4, <3>1
  <2>5. CASE q \in 1 .. k
    <3>1. PICK i \in K : i = Nth(K, q) /\ Count(K, i) = q
      BY <1>9, <2>5
    <3>2. w[q] = parts[i] /\ i \in 1 .. n
      BY <1>4, <1>6, <2>5, <3>1
    <3>3. i \in P
      BY <1>14, <2>2, <3>2
    <3> QED BY <1>18, <3>1, <3>3
  <2> QED BY <2>3, <2>4, <2>5
<1>25. Media(w) = Media(parts)
  <2>1. PICK l \in Nat : l = k + 3
    BY <1>3
  <2>2. P \subseteq 1 .. n /\ Q \subseteq 1 .. l
    BY <1>14, <1>15, <2>1
  <2>3. Leads(h, n, P, l, Q)
    BY <1>2, <1>21, <1>22, <1>24, <2>1, <2>2 DEF Leads
  <2>4. Leads(h, n, MediaOf(parts), l, MediaOf(w)) /\ \A i \in MediaOf(parts) : parts[i] = w[h[i]]
    BY <1>12, <1>13, <1>21, <2>3
  <2> QED BY <2>4, SameMedia
<1>26. ASSUME NEW q \in 1 .. k + 3 PROVE w[q].typ # "moov" /\ (w[q].typ = "frames" <=> q = k + 3)
  <2>1. k + 1 # k + 3 /\ k + 2 # k + 3 /\ (q \in 1 .. k => q # k + 3)
    BY <1>3
  <2>2. CASE q \in 1 .. k
    <3>1. PICK i \in K : w[q] = parts[i]
      BY <1>4, <1>9, <2>2
    <3>2. i \in 1 .. n /\ i # n
      BY <1>6, <1>11
    <3> QED BY <1>7, <2>1, <2>2, <3>1, <3>2
  <2>3. CASE q = k + 3
    <3>1. n \in 1 .. n
      BY <1>2
    <3> QED BY <1>4, <1>7, <2>3, <3>1
  <2>4. CASE q = k + 1 \/ q = k + 2
    BY <1>5, <2>1, <2>4
  <2> QED BY <1>23, <2>2, <2>3, <2>4
<1>27. Chunks(w) = Chunks(parts)
  BY <1>2, <1>3, <1>7, <1>26, NoChunks
<1>28. IsAudio(".flac", w)
  <2>1. ".flac" # ".mp3" /\ ".flac" # ".m4b"
    OBVIOUS
  <2>2. Len(w) = k + 3 /\ w # <<>>
    <3>1. PICK l \in Nat : l = k + 3 /\ l > 0
      BY <1>3
    <3>2. PICK m \in Nat : m = Len(w) /\ DOMAIN w = 1 .. m
      BY <1>3, ListParts
    <3>3. 1 .. m = 1 .. l
      BY <1>3, <3>1, <3>2
    <3>4. m = l
      BY <3>3, SameInterval
    <3> QED BY <1>3, <3>1, <3>2, <3>4, EmptyIs
  <2>3. \A q \in DOMAIN w : w[q].typ # "moov"
    BY <1>3, <1>26
  <2>4. \A q \in DOMAIN w : w[q].typ = "frames" <=> q = Len(w)
    BY <1>3, <1>26, <2>2
  <2> QED BY <1>3, <2>1, <2>2, <2>3, <2>4 DEF IsAudio
<1> QED BY <1>25, <1>27, <1>28 DEF Plays
-----------------------------------------------------------------------------
\* Whatever is written for a file plays as it did, and is as readable.
LEMMA WriteKeeps ==
  ASSUME NEW ext, Writable(ext), NEW parts, IsAudio(ext, parts), NEW ts, TagLen(ts) \in Nat,
         NEW w, w = Write(ext, parts, ts), w # Error
  PROVE  /\ IsAudio(ext, w) /\ Plays(parts, w)
         /\ Readable(ext, parts) /\ ~OpenEnded(parts) => Readable(ext, w)
<1>1. CASE ext = ".mp3"
  <2>1. w = WriteMP3(parts, ts) /\ ext # ".m4b"
    BY <1>1 DEF Write
  <2> QED BY <1>1, <2>1, MP3Keeps DEF Readable
<1>2. CASE ext = ".flac"
  <2>1. w = WriteFLAC(parts, ts) /\ ext # ".m4b"
    BY <1>2 DEF Write
  <2> QED BY <1>2, <2>1, FLACKeeps DEF Readable
<1>3. CASE ext = ".m4b"
  <2>1. w = WriteMP4(parts, ts)
    BY <1>3 DEF Write
  <2>2. PICK m, after : MoovRebuilt(parts, w, m, after)
    BY <1>3, <2>1, WriteMP4Is
  <2>3. Plays(parts, w) /\ IsAudio(".m4b", w)
    BY <2>2, RebuiltPlays
  <2>4. ReadableMP4(parts) /\ ~OpenEnded(parts) => ReadableMP4(w)
    BY <2>2, RebuiltReads
  <2> QED BY <1>3, <2>3, <2>4 DEF Readable
<1> QED BY <1>1, <1>2, <1>3 DEF Writable
=============================================================================
