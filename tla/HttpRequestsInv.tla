--------------------------- MODULE HttpRequestsInv ---------------------------
(* The inductive invariants behind ListsApart, and behind AnswersOnce.       *)
EXTENDS HttpRequests

\* A request a redirect has created belongs to its worker until it is queued:
\* it is in no list, where an abort would find it.
RedirectsHeld ==
    /\ \A w \in Workers :
           /\ wpc[w] = "requeue" => next[w] # None
           /\ next[w] # None =>
                  wpc[w] = "requeue" /\ info[next[w]].state = "begin"
                  /\ next[w] \notin Queued \cup conns
    /\ \A v, w \in Workers : v # w /\ next[v] # None => next[v] # next[w]

\* A worker that is not in StartDownload has no request.
IdleWorkers == \A w \in Workers : wpc[w] = "next" => job[w] = None

\* What is in the connection list exists.
ConnectionsExist == \A r \in conns : info[r].state \notin {"none", "deleted"}

EngineInv == TypeOK /\ ListsApart /\ IdleWorkers /\ RedirectsHeld /\ ConnectionsExist

-----------------------------------------------------------------------------
(* Answers, without redirects and without 304. *)

\* A stream manager is told once, when its stream is destroyed, and once more
\* if the stream has been taken for one in use; only a prefetch is deleted
\* without.
ToldOnce ==
    \A r \in Requests :
        /\ info[r].user = r
        /\ Len(told[r]) <= (IF info[r].stream = "destroyed" THEN 1 ELSE 0)
                            + (IF r \in Streamed THEN 1 ELSE 0)
        /\ info[r].stream = "destroyed" /\ told[r] = <<>> =>
               r \in Prefetch /\ info[r].state = "deleted"
        /\ info[r].state = "deleted" => info[r].stream = "destroyed"

\* What is queued, waits or is only to be notified has not been answered.
NotYetTold ==
    \A r \in Requests : info[r].state \in {"none", HTTP_NOTIFY} \/ r \in Queued =>
        info[r].stream # "destroyed" /\ told[r] = <<>>

\* A worker that is done with its request has answered it.
EndedTold ==
    \A w \in Workers :
        /\ wpc[w] \notin {"unchanged", "requeue"}
        /\ wpc[w] # "next" => info[job[w]].state # "retry"
        /\ wpc[w] \in {"waiters", "end"} => info[job[w]].stream = "destroyed"

\* Request r, which is i and has been told t, when its worker is at step s: it
\* has been told because it was aborted or its file failed, so that no more data
\* is handed on; what is being handed on has found the stream not told, or told
\* under it.
HandsOn(s, r, i, t) ==
    /\ s \in {"connect", "send", "nosocket", "status"} /\ t # <<>> => i.abort
    /\ s \in {"input", "data"} /\ t # <<>> => i.abort \/ i.state = "error"
    /\ s = "data" => /\ r \in Streamed /\ Len(t) <= 1
                     /\ t # <<>> => i.stream = "destroyed"

LateData ==
    \A w \in Workers :
        wpc[w] # "next" => HandsOn(wpc[w], job[w], info[job[w]], told[job[w]])

AnswerInv == ToldOnce /\ NotYetTold /\ EndedTold /\ LateData
=============================================================================
