---------------------------- MODULE Subsequences ----------------------------
(***************************************************************************)
(* A list from which some elements are deleted while it is walked, as      *)
(* SelectSeq makes it, written without recursion so that it can be         *)
(* reasoned about: the n-th element left is the one of rank n among the    *)
(* positions that are kept.                                                *)
(***************************************************************************)
EXTENDS Integers, Sequences, FiniteSets

KeptPositions(s, X) == {i \in 1 .. Len(s) : s[i] \notin X}

Rank(P, i) == Cardinality({p \in P : p <= i})

NthOf(P, n) == CHOOSE i \in P : Rank(P, i) = n

\* The elements of s that are not in X, in the order of s.
Without(s, X) ==
    LET P == KeptPositions(s, X)
    IN  [n \in 1 .. Cardinality(P) |-> s[NthOf(P, n)]]
=============================================================================
