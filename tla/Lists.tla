-------------------------------- MODULE Lists --------------------------------
(***************************************************************************)
(* Filtering and sorting, defined over positions. SelectSeq and SortSeq are *)
(* the same on the lists of this project; these two can be reasoned about.  *)
(***************************************************************************)
EXTENDS Integers, Sequences, FiniteSets, Functions

\* A sequence, of whatever.
IsList(s) == s \in Seq(Range(s))

\* The k-th number of a set.
Nth(places, k) == CHOOSE i \in places : Cardinality({j \in places : j <= i}) = k

\* The elements that pass, in their order.
Filter(s, Test(_)) ==
  LET places == {i \in DOMAIN s : Test(s[i])}
  IN [k \in 1 .. Cardinality(places) |-> s[Nth(places, k)]]

\* A set in order: every element once, and no later one is less than an earlier one. If
\* the comparison is no order it is some arrangement, as with any sort.
InOrder(set, Less(_, _)) ==
  LET all == Bijection(1 .. Cardinality(set), set)
      sorted == {s \in all : \A i, j \in DOMAIN s : i < j => ~Less(s[j], s[i])}
  IN CHOOSE s \in IF sorted = {} THEN all ELSE sorted : TRUE

\* A list in order.
Sort(s, Less(_, _)) ==
  LET places == InOrder(DOMAIN s, LAMBDA i, j : Less(s[i], s[j]))
  IN [k \in DOMAIN s |-> s[places[k]]]
=============================================================================
