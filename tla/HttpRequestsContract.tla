------------------------ MODULE HttpRequestsContract ------------------------
(* HttpRequests as an implementation of HttpContract.  A redirect's request *)
(* stands for the user's request it follows.                                *)
EXTENDS HttpRequests

Users == Requests \ Redirects

StandFor(u) == {r \in Requests : info[r].user = u}

Answers(u) ==
    Cardinality({a \in StandFor(u) \X (1 .. 2 * Cardinality(Requests)) :
                     a[2] <= Len(told[a[1]])})

Asked == {u \in Users : info[u].state # "none"}

Forgotten ==
    {u \in Users : Answers(u) = 0 /\ \A r \in StandFor(u) : info[r].state = "deleted"}

Contract == INSTANCE HttpContract WITH
    Silent <- Users \cap Prefetch,
    asked <- Asked,
    Streamed <- Streamed,
    answers <- [u \in Users |-> Answers(u)],
    forgotten <- Forgotten

\* The engine answers each request at most once, and forgets prefetches only
\* (GetURL, GetNextRequest, CloseConnections, StartDownload, DoNotification
\* together, ChHTTP.cpp and ChThread.cpp).  A request whose data is streamed is
\* answered at most twice: ProcessBody takes a stream for one in use that an
\* abort, or a file that cannot be created, has destroyed under it.
AnswersOnce == Contract!Spec

\* The engine answers every request, as often as that.
AnswersAll == Contract!FairSpec
=============================================================================
