------------------------------ MODULE FoldProofs ------------------------------
(***************************************************************************)
(* What folds and recursive functions compute, for lists of every length.   *)
(* The operator is a constant here, with a parameter of its own, and an     *)
(* INSTANCE per fold gives it its value.                                    *)
(*                                                                         *)
(* Induction is over sets of numbers: a set that has 0 and the successor of *)
(* each of its elements has every number (NatInd).                          *)
(***************************************************************************)
EXTENDS Integers, WellFoundedInduction, TLAPS

CONSTANT Op(_, _, _)

-----------------------------------------------------------------------------
(* Induction. *)

\* The principle of induction, for sets.
LEMMA NatInd ==
  ASSUME NEW S, 0 \in S, \A n \in Nat : n \in S => n + 1 \in S
  PROVE  Nat \subseteq S
<1> DEFINE T == Nat \ S
<1>1. SUFFICES ASSUME T # {} PROVE FALSE
  OBVIOUS
<1>2. PICK x \in T : \A y \in T : ~ (<<y, x>> \in OpToRel(<, Nat))
  BY <1>1, NatLessThanWellFounded, WFMin
<1>3. x # 0 /\ x \in Nat
  OBVIOUS
<1>4. x - 1 \in Nat /\ <<x - 1, x>> \in OpToRel(<, Nat)
  BY <1>3 DEF OpToRel
<1>5. x - 1 \in S
  BY <1>2, <1>4
<1>6. (x - 1) + 1 \in S
  BY <1>4, <1>5
<1> QED
  BY <1>3, <1>6

\* Induction up to n.
LEMMA UpTo ==
  ASSUME NEW n \in Nat, NEW S, 0 \in S, \A k \in 0 .. n : k < n /\ k \in S => k + 1 \in S
  PROVE  0 .. n \subseteq S
<1> DEFINE T == S \cup {k \in Nat : k > n}
<1>1. \A k \in Nat : k \in T => k + 1 \in T
  OBVIOUS
<1>2. Nat \subseteq T
  <2> HIDE DEF T
  <2>1. 0 \in T BY DEF T
  <2> QED BY <1>1, <2>1, NatInd
<1> QED
  BY <1>2

\* Induction downward from n.
LEMMA DownFrom ==
  ASSUME NEW n \in Nat, NEW S, n \in S, \A k \in 0 .. n : k > 0 /\ k \in S => k - 1 \in S
  PROVE  0 .. n \subseteq S
<1> DEFINE T == {k \in Nat : k > n \/ n - k \in S}
<1>1. \A k \in Nat : k \in T => k + 1 \in T
  OBVIOUS
<1>2. Nat \subseteq T
  <2> HIDE DEF T
  <2>1. 0 \in T BY DEF T
  <2> QED BY <1>1, <2>1, NatInd
<1>3. \A k \in 0 .. n : n - k \in Nat /\ n - k \in T /\ n - (n - k) = k /\ ~ (n - k > n)
  BY <1>2
<1> QED
  BY <1>3

-----------------------------------------------------------------------------
(* Folds. *)

\* What a fold has after each of the n elements.
IsRun(f, p, base, s, n) ==
  DOMAIN f = 0 .. n /\ f[0] = base /\ \A k \in 1 .. n : f[k] = Op(p, f[k - 1], s[k])

\* The function on sets of positions by which FoldLeft is defined.
Pick(T) == CHOOSE x \in T : \A y \in T : x >= y
IsIter(p, base, s, iter) ==
  iter = [T \in SUBSET DOMAIN s |->
            IF T = {} THEN base ELSE Op(p, iter[T \ {Pick(T)}], s[Pick(T)])]

\* FoldLeft of Op(p, _, _), as it is defined.
Fold(p, base, s) == LET iter == CHOOSE iter : IsIter(p, base, s, iter) IN iter[DOMAIN s]

\* The greatest of the first k positions.
LEMMA PickLast ==
  ASSUME NEW k \in Nat, k > 0
  PROVE  Pick(1 .. k) = k /\ (1 .. k) \ {k} = 1 .. (k - 1) /\ 1 .. k # {}
  BY DEF Pick

\* A set of the positions 1 to n has a greatest one.
LEMMA PickIn ==
  ASSUME NEW n \in Nat, NEW T \in SUBSET (1 .. n), T # {}
  PROVE  Pick(T) \in T /\ \A y \in T : Pick(T) >= y
<1> SUFFICES ASSUME ~ (\E x \in T : \A y \in T : x >= y) PROVE FALSE
  BY DEF Pick
<1> DEFINE B == {k \in Nat : \E x \in T : x >= k}
<1>1. 0 \in B
  <2>1. PICK x \in T : TRUE
    OBVIOUS
  <2>2. x >= 0
    OBVIOUS
  <2> QED
    BY <2>2
<1>2. ASSUME NEW k \in Nat, k \in B PROVE k + 1 \in B
  <2>1. PICK x \in T : x >= k
    BY <1>2
  <2>2. PICK y \in T : ~ (x >= y)
    OBVIOUS
  <2>3. y >= k + 1
    BY <2>1, <2>2
  <2> QED
    BY <2>3
<1>3. n + 1 \in B
  <2> HIDE DEF B
  <2> QED BY <1>1, <1>2, NatInd
<1>4. PICK x \in T : x >= n + 1
  BY <1>3
<1> QED
  BY <1>4

\* The function exists: it is built up by the greatest position.
LEMMA IterExists ==
  ASSUME NEW p, NEW base, NEW s, NEW n \in Nat, DOMAIN s = 1 .. n
  PROVE  \E iter : IsIter(p, base, s, iter)
<1> DEFINE Less(T) == T \ {Pick(T)}
           Val(g, T) == IF T = {} THEN base ELSE Op(p, g[Less(T)], s[Pick(T)])
           Partly(k, g) == g = [T \in SUBSET (1 .. k) |-> Val(g, T)]
           K == {k \in Nat : \E g : Partly(k, g)}
<1>1. 0 \in K
  <2> DEFINE g == [T \in SUBSET (1 .. 0) |-> base]
  <2>1. \A T \in SUBSET (1 .. 0) : T = {}
    OBVIOUS
  <2>2. Partly(0, g)
    BY <2>1
  <2> QED
    BY <2>2
<1>2. ASSUME NEW k \in Nat, k \in K PROVE k + 1 \in K
  <2>1. PICK g : Partly(k, g)
    BY <1>2
  <2> DEFINE h == [T \in SUBSET (1 .. k + 1) |-> Val(g, T)]
  <2>2. ASSUME NEW T \in SUBSET (1 .. k + 1), T # {}
        PROVE  Less(T) \in SUBSET (1 .. k)
    <3>1. PICK m \in Nat : m = k + 1
      OBVIOUS
    <3>2. T \in SUBSET (1 .. m)
      BY <3>1
    <3>3. PICK x \in T : x = Pick(T) /\ \A y \in T : x >= y
      BY <2>2, <3>2, PickIn
    <3>4. \A y \in T : y # x => y \in 1 .. k
      <4>1. \A y \in T : y \in 1 .. k + 1
        OBVIOUS
      <4> QED BY <3>3, <4>1
    <3> QED
      BY <3>3, <3>4
  <2>3. \A T \in SUBSET (1 .. k) : T \in SUBSET (1 .. k + 1) /\ h[T] = g[T]
    <3>1. \A T \in SUBSET (1 .. k) : T \in SUBSET (1 .. k + 1)
      OBVIOUS
    <3>2. \A T \in SUBSET (1 .. k) : g[T] = Val(g, T)
      <4> HIDE DEF Val
      <4> QED BY <2>1
    <3>3. \A T \in SUBSET (1 .. k + 1) : h[T] = Val(g, T)
      <4> HIDE DEF Val
      <4> QED OBVIOUS
    <3> HIDE DEF h, Val
    <3> QED
      BY <3>1, <3>2, <3>3
  <2>4. \A T \in SUBSET (1 .. k + 1) : Val(g, T) = Val(h, T)
    <3> HIDE DEF h, Less
    <3> QED BY <2>2, <2>3
  <2>5. Partly(k + 1, h)
    <3> HIDE DEF Val
    <3> QED BY <2>4
  <2>6. \E gg : Partly(k + 1, gg)
    <3> HIDE DEF Partly, h
    <3> QED BY <2>5
  <2> HIDE DEF Partly
  <2> QED
    BY <2>6
<1>3. n \in K
  <2> HIDE DEF K
  <2> QED BY <1>1, <1>2, NatInd
<1>4. PICK g : Partly(n, g)
  BY <1>3
<1>5. g = [T \in SUBSET DOMAIN s |-> Val(g, T)]
  <2> HIDE DEF Val
  <2> QED BY <1>4
<1>6. IsIter(p, base, s, g)
  BY <1>5 DEF IsIter
<1> QED
  BY <1>6

\* FoldLeft runs over a list from the left.
THEOREM FoldSteps ==
  ASSUME NEW p, NEW base, NEW s, NEW n \in Nat, DOMAIN s = 1 .. n
  PROVE  \E f : IsRun(f, p, base, s, n) /\ Fold(p, base, s) = f[n]
<1> DEFINE iter == CHOOSE iter : IsIter(p, base, s, iter)
           Val(T) == IF T = {} THEN base ELSE Op(p, iter[T \ {Pick(T)}], s[Pick(T)])
<1>1. IsIter(p, base, s, iter)
  BY IterExists
<1>2. Fold(p, base, s) = iter[1 .. n]
  BY DEF Fold
<1>3. \A T \in SUBSET (1 .. n) : iter[T] = Val(T)
  <2>1. iter = [T \in SUBSET (1 .. n) |-> Val(T)]
    BY <1>1 DEF IsIter
  <2> HIDE DEF Val, iter
  <2> QED BY <2>1
<1> HIDE DEF iter
<1> DEFINE f == [k \in 0 .. n |-> iter[1 .. k]]
<1>4. f[0] = base
  <2>1. 1 .. 0 = {} /\ 1 .. 0 \in SUBSET (1 .. n)
    OBVIOUS
  <2>2. iter[1 .. 0] = base
    BY <1>3, <2>1
  <2> QED BY <2>2
<1>5. ASSUME NEW k \in 1 .. n PROVE f[k] = Op(p, f[k - 1], s[k])
  <2>1. 1 .. k \in SUBSET (1 .. n)
    OBVIOUS
  <2>2. iter[1 .. k] = Val(1 .. k)
    BY <1>3, <2>1
  <2>3. Pick(1 .. k) = k /\ (1 .. k) \ {k} = 1 .. (k - 1) /\ 1 .. k # {}
    <3>1. k \in Nat /\ k > 0 OBVIOUS
    <3> QED BY <3>1, PickLast
  <2>4. Val(1 .. k) = Op(p, iter[1 .. (k - 1)], s[k])
    BY <2>3
  <2>5. f[k] = iter[1 .. k] /\ f[k - 1] = iter[1 .. (k - 1)]
    OBVIOUS
  <2> QED
    BY <2>2, <2>4, <2>5
<1>6. DOMAIN f = 0 .. n /\ f[n] = iter[1 .. n]
  OBVIOUS
<1> HIDE DEF f
<1>7. IsRun(f, p, base, s, n)
  BY <1>4, <1>5, <1>6 DEF IsRun
<1> QED
  BY <1>2, <1>6, <1>7

-----------------------------------------------------------------------------
(* Recursion. *)

\* What Op(p, f, i) says of f[i] depends on f after i only.
LooksAhead(p, n) ==
  \A f, g : \A i \in 1 .. n : (\A j \in i + 1 .. n : f[j] = g[j]) => Op(p, f, i) = Op(p, g, i)

\* A function that its values after i determine at i.
IsBackward(p, n, f) == f = [i \in 1 .. n |-> Op(p, f, i)]

\* There is such a function: it is built from the end.
THEOREM BackwardExists ==
  ASSUME NEW p, NEW n \in Nat, LooksAhead(p, n)
  PROVE  \E f : IsBackward(p, n, f)
<1> DEFINE Ok(m, f) == \A i \in 1 .. n : i > m => f[i] = Op(p, f, i)
           S == {m \in Nat : \E f : Ok(m, f)}
<1>1. n \in S
  <2>1. Ok(n, <<>>)
    OBVIOUS
  <2>2. \E f : Ok(n, f)
    <3> HIDE DEF Ok
    <3> QED BY <2>1
  <2> HIDE DEF Ok
  <2> QED BY <2>2
<1>2. ASSUME NEW m \in 0 .. n, m > 0, m \in S PROVE m - 1 \in S
  <2>1. PICK f : Ok(m, f)
    <3> HIDE DEF Ok
    <3> QED BY <1>2
  <2> DEFINE g == [i \in 1 .. n |-> IF i = m THEN Op(p, f, m) ELSE f[i]]
  <2>2. \A i \in 1 .. n : i >= m => (\A j \in i + 1 .. n : f[j] = g[j])
    OBVIOUS
  <2>3. \A i \in 1 .. n : i >= m => Op(p, f, i) = Op(p, g, i)
    <3> HIDE DEF g
    <3> QED BY <2>2 DEF LooksAhead
  <2>4. \A i \in 1 .. n : i >= m => g[i] = Op(p, f, i)
    BY <2>1
  <2>5. Ok(m - 1, g)
    <3> HIDE DEF g
    <3> QED BY <2>3, <2>4
  <2>6. \E h : Ok(m - 1, h)
    <3> HIDE DEF Ok
    <3> QED BY <2>5
  <2>7. m - 1 \in Nat
    BY <1>2
  <2> HIDE DEF Ok
  <2> QED BY <2>6, <2>7
<1>3. 0 \in S
  <2>1. 0 .. n \subseteq S
    <3> HIDE DEF S
    <3> QED BY <1>1, <1>2, DownFrom
  <2> HIDE DEF S
  <2> QED BY <2>1
<1>4. PICK f : Ok(0, f)
  <2> HIDE DEF Ok
  <2> QED BY <1>3
<1> DEFINE g == [i \in 1 .. n |-> f[i]]
<1>5. \A i \in 1 .. n : g[i] = Op(p, f, i)
  BY <1>4
<1>6. \A i \in 1 .. n : Op(p, f, i) = Op(p, g, i)
  <2>1. \A i \in 1 .. n : \A j \in i + 1 .. n : f[j] = g[j]
    OBVIOUS
  <2> HIDE DEF g
  <2> QED BY <2>1 DEF LooksAhead
<1>7. IsBackward(p, n, g)
  <2>1. \A i \in 1 .. n : g[i] = Op(p, g, i)
    <3> HIDE DEF g
    <3> QED BY <1>5, <1>6
  <2>2. g = [i \in 1 .. n |-> g[i]]
    OBVIOUS
  <2> HIDE DEF g
  <2> QED BY <2>1, <2>2 DEF IsBackward
<1> QED
  <2> HIDE DEF g
  <2> QED BY <1>7
===============================================================================
