----------------------------- MODULE Subsequences -----------------------------
(***************************************************************************)
(* What is left of a list when some of its records are unlinked, in their  *)
(* order. It says what SelectSeq of Sequences computes, without recursion. *)
(***************************************************************************)
EXTENDS Integers, Sequences, FiniteSets

\* The position that number i of the set K has in it
Rank(K, i) == Cardinality({j \in K : j <= i})

\* The records of s at the positions of K
Subsequence(s, K) ==
  [k \in 1 .. Cardinality(K) |-> s[CHOOSE i \in K : Rank(K, i) = k]]
===============================================================================
