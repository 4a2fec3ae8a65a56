---------------------------- MODULE HttpContract ----------------------------
(***************************************************************************)
(* What the HTTP engine promises to those who ask it for documents         *)
(* (GetURL, PostURL and the stream managers): every request is answered,   *)
(* once, by the DestroyStream of its stream manager; only a request that   *)
(* nobody looks at, a prefetch, may be forgotten instead.  A request whose *)
(* data is handed on as it arrives may be answered once more, but then no  *)
(* further.  One critical section of the engine may settle several.        *)
(***************************************************************************)
EXTENDS Integers

CONSTANTS Users,     \* the requests of GetURL and PostURL
          Silent,    \* those that may be forgotten
          Streamed   \* those that may be answered twice

VARIABLES asked,     \* the requests made
          answers,   \* how often each has been answered
          forgotten  \* the requests given up without an answer

vars == <<asked, answers, forgotten>>

Init ==
    /\ asked = {}
    /\ answers = [u \in Users |-> 0]
    /\ forgotten = {}

Pending == {u \in asked \ forgotten : answers[u] = 0}

Ask ==
    /\ \E u \in Users \ asked : asked' = asked \cup {u}
    /\ UNCHANGED <<answers, forgotten>>

Answerable == Pending \cup {u \in Streamed \ forgotten : answers[u] = 1}

\* The requests in A are answered, those in F forgotten.
Settle(A, F) ==
    /\ A \cup F # {} /\ A \cap F = {}
    /\ answers' = [u \in Users |-> IF u \in A THEN answers[u] + 1 ELSE answers[u]]
    /\ forgotten' = forgotten \cup F
    /\ UNCHANGED asked

SettleSome ==
    \E A \in SUBSET Answerable, F \in SUBSET (Pending \cap Silent) : Settle(A, F)

SettleOne(u) == u \in Pending /\ SettleSome /\ u \notin Pending'

Next == Ask \/ SettleSome

Spec == Init /\ [][Next]_vars
FairSpec == Spec /\ \A u \in Users : WF_vars(SettleOne(u))
=============================================================================
