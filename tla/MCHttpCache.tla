------------------------------ MODULE MCHttpCache ------------------------------
(* Small instances of HttpCache for TLC.                                      *)
EXTENDS HttpCacheInv, TLC

CONSTANTS u1, u2, k1, k2

\* Every URL has a key of its own.
OwnKey == (u1 :> k1) @@ (u2 :> k2)

\* Names and requests are interchangeable ...
Symmetry == Permutations(Names) \cup Permutations(Jobs)

\* ... and so are two URLs with keys of their own.
OwnKeySymmetry == Symmetry \cup {(u1 :> u2) @@ (u2 :> u1) @@ (k1 :> k2) @@ (k2 :> k1)}
=============================================================================
