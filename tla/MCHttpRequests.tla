---------------------------- MODULE MCHttpRequests ----------------------------
(* Small instances of HttpRequests for TLC.                                 *)
EXTENDS HttpRequestsContract, HttpRequestsInv, TLC

\* Any request may be for any document, or malformed.
AnyDocument == [r \in Requests |-> URLs]
AnyURL == [r \in Requests |-> URLs \cup {BadURL}]

\* Every request has a document of its own.
OwnDocument ==
    CHOOSE f \in [Requests -> {{u} : u \in URLs}] :
        \A r, q \in Requests : f[r] = f[q] => r = q

\* Workers are interchangeable.
Symmetry == Permutations(Workers)
=============================================================================
