------------------------------ MODULE Enumeration ------------------------------
(***************************************************************************)
(* Sequences made of a finite set of numbers or of some of the elements of *)
(* a sequence, each in their order. An element is found by its standing and not*)
(* by recursion, so that theorems can be proved about what is enumerated.  *)
(***************************************************************************)
EXTENDS Integers, Sequences, FiniteSets

(* The members of a finite set of numbers in increasing order.              *)
Standing(i, S) == Cardinality({j \in S : j <= i})
Ordered(S) == [k \in 1..Cardinality(S) |-> CHOOSE i \in S : Standing(i, S) = k]

(* The elements of a sequence that are in a set, in the sequence's order.   *)
Filtered(s, S) ==
  LET kept == Ordered({k \in DOMAIN s : s[k] \in S})
  IN  [k \in DOMAIN kept |-> s[kept[k]]]
=============================================================================
