--------------------------- MODULE MCHttpThreadPool ---------------------------
(* Small instances of HttpThreadPool for TLC: requests are model values.    *)
EXTENDS HttpThreadPoolInv, TLC

\* Requests are interchangeable within the two kinds.
Symmetry == Permutations(Requests \ Redirects) \cup Permutations(Redirects)
=============================================================================
