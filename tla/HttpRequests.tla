----------------------------- MODULE HttpRequests -----------------------------
(***************************************************************************)
(* The life of a request in the threaded HTTP engine (api/ChHTPriv.cpp,    *)
(* api/ChThread.cpp, api/ChHTTP.cpp, api/ChHTNtfy.cpp): the request queue, *)
(* the connection list, the requests that wait for another one's download, *)
(* redirects, aborts, and what the stream manager of a request is told.    *)
(*                                                                         *)
(* Which worker wakes up when is HttpThreadPool; here a worker that finds  *)
(* a request in the queue goes on.  Every section under LockHTTP is one    *)
(* action, and what a worker does without the lock is cut where the state  *)
(* it has read may have changed when it acts on it.  Main-thread calls are *)
(* not interleaved with each other.                                        *)
(***************************************************************************)
EXTENDS Integers, Sequences, FiniteSets, Subsequences

CONSTANTS
    Requests,        \* identifiers of ChHTTPInfo objects
    Redirects,       \* those a worker creates when it follows a redirect
    Prefetch,        \* those with ChHTTPConn::PrefetchURL
    Posts,           \* those of PostURL
    Streamed,        \* those whose stream manager takes the data as it arrives
    Workers,         \* the worker threads
    Owners,          \* ChHTTPSocketConn objects
    LocalOwners,     \* those with connLocalState
    URLs,
    BadURL,          \* what GetURLParts refuses
    Documents,       \* the URLs each request may be for
    Mirrored,        \* the URLs below old_url ...
    Mirror,          \* ... and the one below new_url they stand for
    None,            \* no request
    Replies,         \* what the servers may reply
    MaxConnections,  \* ChHTTPSocketConn::GetMaxConnections()
    MaxCloses        \* bound: calls that abort requests

ASSUME RequestsAssumption ==
    /\ Redirects \subseteq Requests /\ Prefetch \subseteq Requests
    /\ Posts \subseteq Requests /\ Streamed \subseteq Requests \ Redirects
    /\ LocalOwners \subseteq Owners /\ Owners # {}
    /\ BadURL \notin URLs
    /\ Documents \in [Requests -> SUBSET (URLs \cup {BadURL})]
    /\ Mirrored \subseteq URLs /\ (Mirrored # {} => Mirror \in URLs)
    /\ None \notin Requests
    /\ Replies \subseteq {"document", "raw", "unchanged", "error", "moved"}
    /\ MaxConnections \in Nat \ {0}
    /\ MaxCloses \in Nat
    /\ IsFiniteSet(Requests) /\ IsFiniteSet(Workers)

VARIABLES
    info,            \* the ChHTTPInfo objects
    told,            \* what DestroyStream was told of each, in order
    queue,           \* m_httpRequestQueue
    conns,           \* m_httpConnList
    active,          \* m_iActiveConn
    wpc,             \* where a worker is in HTTPProcessDownload / StartDownload
    job,             \* pJob
    next,            \* the request a redirect has created, not queued yet
    closes           \* calls that aborted requests so far

lists == <<queue, conns, active>>
workers == <<wpc, job, next>>
vars == <<info, told, lists, workers, closes>>

\* ChHTPriv.h gives the two states the same value, 9: a request that waits for
\* another and one that only has to be notified differ by the list they are in.
HTTP_NOTIFY == "notify"
HTTP_WAIT == HTTP_NOTIFY

States == {"none", "begin", "header", "body", "local", "error", "complete",
           "end", "retry", HTTP_NOTIFY, "deleted"}
Errors == {"ok", "error", "abort"}   \* m_iError: 0, a failure, USER_ABORT

InfoType ==
    [state : States, url : URLs \cup {BadURL}, owner : Owners, user : Requests,
     abort : BOOLEAN, err : Errors, completed : BOOLEAN,
     stream : {"closed", "open", "destroyed"}]

TypeOK ==
    /\ info \in [Requests -> InfoType]
    /\ told \in [Requests -> Seq(Errors)]
    /\ queue \in Seq(Requests)
    /\ conns \subseteq Requests
    /\ active \in Nat
    /\ wpc \in [Workers -> {"next", "connect", "send", "nosocket", "failed",
                            "input", "data", "status", "unchanged", "requeue",
                            "after", "complete", "decide", "waiters", "end"}]
    /\ job \in [Workers -> Requests \cup {None}]
    /\ next \in [Workers -> Requests \cup {None}]
    /\ closes \in 0 .. MaxCloses

Init ==
    /\ info = [r \in Requests |->
           [state |-> "none", url |-> BadURL, owner |-> CHOOSE o \in Owners : TRUE,
            user |-> r, abort |-> FALSE, err |-> "ok", completed |-> FALSE,
            stream |-> "closed"]]
    /\ told = [r \in Requests |-> <<>>]
    /\ queue = <<>> /\ conns = {} /\ active = 0
    /\ wpc = [w \in Workers |-> "next"]
    /\ job = [w \in Workers |-> None]
    /\ next = [w \in Workers |-> None]
    /\ closes = 0

-----------------------------------------------------------------------------
(* Operations on one ChHTTPInfo. *)

Queued == {queue[i] : i \in 1 .. Len(queue)}

\* SetState, with the states that set m_bbCompleted.
SetState(i, s) ==
    [i EXCEPT !.state = s,
              !.completed = @ \/ s \in {"complete", "error", "end", "local",
                                        HTTP_NOTIFY, "retry"}]

\* The constructor: a bad URL sets the abort flag and the error.
NewInfo(u, o, user) ==
    [state |-> "begin", url |-> u, owner |-> o, user |-> user,
     abort |-> u = BadURL, err |-> IF u = BadURL THEN "error" ELSE "ok",
     completed |-> FALSE, stream |-> "closed"]

\* Faulty: CloseStream forgets that the stream was destroyed.
CloseToldFaulty(r, i) == Append(told[r], i.err)

\* CloseStream tells the stream manager once, with the error of the moment.
CloseTold(r, i) == IF i.stream = "destroyed" THEN told[r] ELSE Append(told[r], i.err)

Destroy(i) == [i EXCEPT !.stream = "destroyed"]

CloseStream(r, i) ==
    /\ info' = [info EXCEPT ![r] = Destroy(i)]
    /\ told' = [told EXCEPT ![r] = CloseTold(r, i)]

\* StreamURL opens, writes and destroys a stream whatever became of the first.
StreamURL(r) ==
    /\ info' = [info EXCEPT ![r] = Destroy(@)]
    /\ told' = [told EXCEPT ![r] = Append(@, info[r].err)]

\* CloseConnections marks what is downloading or waiting ...
Aborted(i) == [SetState(i, "end") EXCEPT !.abort = TRUE, !.err = "abort"]

\* Faulty: waiting requests are counted off though they were never counted.
ActiveWithoutFaulty(gone) == active - Cardinality(gone)

\* RemoveFromConnList counts only what AddToConnList has counted.
ActiveWithout(gone) == active - Cardinality({c \in gone : info[c].state # HTTP_WAIT})

-----------------------------------------------------------------------------
(* The main thread. *)

\* GetURL: a bad URL, a local file or a document in the cache is only to be
\* notified, with or without an error.  (A prefetch of a local file or of what
\* is in the cache already is dropped and leaves no trace.)
GetURL ==
    \E r \in Requests \ (Redirects \cup Posts), o \in Owners :
        /\ info[r].state = "none"
        /\ \E u \in Documents[r] :
               LET i == NewInfo(u, o, r) IN
               /\ \/ u # BadURL /\ info' = [info EXCEPT ![r] = i]
                  \/ info' = [info EXCEPT ![r] = SetState(i, HTTP_NOTIFY)]
                  \/ /\ u # BadURL
                     /\ info' = [info EXCEPT ![r] =
                            [SetState(i, HTTP_NOTIFY) EXCEPT !.err = "error"]]
        /\ queue' = Append(queue, r)
        /\ UNCHANGED <<told, conns, active, workers, closes>>

PostURL ==
    \E r \in Posts \ Redirects, o \in Owners :
        /\ info[r].state = "none"
        /\ \E u \in Documents[r] :
               LET i == NewInfo(u, o, r) IN
               info' = [info EXCEPT ![r] =
                            IF u = BadURL THEN SetState(i, HTTP_NOTIFY) ELSE i]
        /\ queue' = Append(queue, r)
        /\ UNCHANGED <<told, conns, active, workers, closes>>

\* What CloseConnections and CloseAllConnections do to the requests in hit:
\* those in the queue are removed and deleted, the others are left to their
\* workers.
CloseRequests(hit) ==
    /\ closes < MaxCloses
    /\ closes' = closes + 1
    /\ info' = [r \in Requests |->
           IF r \in hit \cap conns THEN Destroy(Aborted(info[r]))
           ELSE IF r \in hit \cap Queued
                THEN [Destroy(Aborted(info[r])) EXCEPT !.state = "deleted"]
                ELSE info[r]]
    /\ told' = [r \in Requests |->
           IF r \in hit \cap (conns \cup Queued)
           THEN CloseTold(r, Aborted(info[r])) ELSE told[r]]
    /\ queue' = Without(queue, hit)
    /\ UNCHANGED <<conns, active, workers>>

\* AbortRequests of one connection, with or without its prefetches.
CloseConnections ==
    \E o \in Owners, boolAbortPrefetch \in BOOLEAN :
        CloseRequests({r \in Requests : /\ info[r].owner = o
                                        /\ r \in Prefetch => boolAbortPrefetch})

\* "Stop loading": every connection that has no state of its own.
CloseAllConnections ==
    CloseRequests({r \in Requests : info[r].owner \notin LocalOwners})

-----------------------------------------------------------------------------
(* GetNextRequest. *)

IsNotify(r) == info[r].state = HTTP_NOTIFY

\* Faulty: a download that was aborted, but still runs, is not looked at.
IsDuplicateFaulty(r) ==
    ~IsNotify(r) /\ \E c \in conns : info[c].url = info[r].url /\ ~info[c].abort

\* The document is being downloaded for somebody else.
IsDuplicate(r) == ~IsNotify(r) /\ \E c \in conns : info[c].url = info[r].url

\* Faulty: the share of the prefetches is forgotten.
IsDeferredFaulty(r) == r \in Prefetch /\ active > MaxConnections

\* "leave some connections open for critical stuff"
IsDeferred(r) == r \in Prefetch /\ active > MaxConnections \div 2

IsTakable(r) == ~IsNotify(r) /\ ~IsDuplicate(r) /\ ~IsDeferred(r)

\* The scan stops at entry n, the first that can be downloaded; it serves every
\* notification and parks every duplicate before it.  When nothing stops it
\* the last prefetch it passed over is taken after all.
StopsAt(n) ==
    /\ \A i \in 1 .. n - 1 : ~IsTakable(queue[i])
    /\ n <= Len(queue) => IsTakable(queue[n])

PassedOver(n) == {i \in 1 .. n - 1 : ~IsNotify(queue[i]) /\ ~IsDuplicate(queue[i])}

PickAt(n) ==
    IF n <= Len(queue) THEN {queue[n]}
    ELSE {queue[i] : i \in {j \in PassedOver(n) : \A k \in PassedOver(n) : k <= j}}

GetNextRequest(w) ==
    /\ wpc[w] = "next" /\ queue # <<>>
    /\ \E n \in 1 .. Len(queue) + 1 :
       /\ StopsAt(n)
       /\ LET before == {queue[i] : i \in 1 .. n - 1}
              notified == {r \in before : IsNotify(r)}
              parked == {r \in before : IsDuplicate(r)}
              pick == PickAt(n)
          IN
          /\ queue' = Without(queue, notified \cup parked \cup pick)
          /\ conns' = conns \cup parked \cup pick
          /\ active' = active + Cardinality(pick)
          /\ info' = [r \in Requests |->
                 IF r \in notified THEN [Destroy(info[r]) EXCEPT !.state = "deleted"]
                 ELSE IF r \in parked THEN SetState(info[r], HTTP_WAIT)
                 ELSE info[r]]
          /\ told' = [r \in Requests |->
                 IF r \in notified \ Prefetch THEN Append(told[r], info[r].err)
                 ELSE told[r]]
          /\ IF pick = {} THEN UNCHANGED <<wpc, job>>
             ELSE /\ wpc' = [wpc EXCEPT ![w] = "connect"]
                  /\ job' = [job EXCEPT ![w] = CHOOSE r \in pick : TRUE]
    /\ UNCHANGED <<next, closes>>

-----------------------------------------------------------------------------
(* StartDownload, step by step; r is the request worker w downloads. *)

\* Worker w goes from step a to step b.
Goes(w, a, b) == wpc[w] = a /\ wpc' = [wpc EXCEPT ![w] = b] /\ UNCHANGED <<job, next>>

Connected(w) ==
    /\ ~info[job[w]].abort
    /\ Goes(w, "connect", "send")
    /\ UNCHANGED <<info, told, lists, closes>>

\* Faulty: the download itself is taken for one that waits for it.
WaitersOfFaulty(r) == {c \in conns : info[c].url = info[r].url}

\* UpdateWaitRequest: those that wait for r's document wait for u's.
WaitersOf(r) == {c \in conns : info[c].state = HTTP_WAIT /\ info[c].url = info[r].url}

UpdateWaitRequest(r, u) ==
    [c \in Requests |-> IF c \in WaitersOf(r) THEN [info[c] EXCEPT !.url = u] ELSE info[c]]

\* The host cannot be reached, but the document has a mirror: the URL is
\* changed and Connect returns true, so that SendRequest runs on a socket that
\* is not connected.
ConnectMirror(w) ==
    LET r == job[w] IN
    /\ ~info[r].abort /\ info[r].url \in Mirrored
    /\ Goes(w, "connect", "nosocket")
    /\ info' = [UpdateWaitRequest(r, Mirror) EXCEPT ![r] = [info[r] EXCEPT !.url = Mirror]]
    /\ UNCHANGED <<told, lists, closes>>

\* Connect fails or finds the request aborted; SendRequest fails, finds the
\* request aborted, or has no connection.
ConnectFails(w) ==
    LET r == job[w] IN
    /\ Goes(w, wpc[w], "failed")
    /\ wpc[w] \in {"connect", "send", "nosocket"}
    /\ info' = [info EXCEPT ![r] = [SetState(@, "error") EXCEPT !.err = "error"]]
    /\ UNCHANGED <<told, lists, closes>>

\* Faulty: a failed connection is not reported.
CloseFailedFaulty(w) ==
    /\ Goes(w, "failed", "waiters")
    /\ UNCHANGED <<info, told, lists, closes>>

CloseFailed(w) ==
    /\ Goes(w, "failed", "waiters")
    /\ CloseStream(job[w], info[job[w]])
    /\ UNCHANGED <<lists, closes>>

Sent(w) ==
    LET r == job[w] IN
    /\ ~info[r].abort
    /\ Goes(w, "send", "input")
    /\ info' = [info EXCEPT ![r] = SetState(@, "begin")]
    /\ UNCHANGED <<told, lists, closes>>

\* ProcessInput: the read fails because the server or an abort has closed the
\* connection ...
InputEnds(w) ==
    /\ Goes(w, "input", "after")
    /\ UNCHANGED <<info, told, lists, closes>>

\* ... or the first data is there, and ProcessBuffer looks at the state.
StatusLine(w) ==
    /\ ~info[job[w]].abort /\ info[job[w]].state = "begin"
    /\ Goes(w, "input", "status")
    /\ UNCHANGED <<info, told, lists, closes>>

StatusOk(w) ==
    /\ "document" \in Replies
    /\ Goes(w, "status", "input")
    /\ info' = [info EXCEPT ![job[w]] = SetState(@, "header")]
    /\ UNCHANGED <<told, lists, closes>>

\* The body is about to come.  Its length may be unknown, and then what the
\* server sends before it closes the connection is the document.
OpenBody(i, unknownLength) ==
    [SetState(i, "body") EXCEPT !.completed = @ \/ unknownLength,
                                !.stream = IF @ = "closed" THEN "open" ELSE @]

\* ProcessBody finds the request in use and hands data on: worker w is between
\* its look at the abort flag and the stream.
StreamsTo(r) == {"input"} \cup
    IF info[r].user \in Streamed /\ ~info[r].abort THEN {"data"} ELSE {}

\* Data of the body may have come with the header.
BodyFollows(w) ==
    \E unknownLength \in BOOLEAN, b \in StreamsTo(job[w]) :
        /\ \/ "document" \in Replies /\ info[job[w]].state = "header" /\ Goes(w, "input", b)
           \/ "raw" \in Replies /\ unknownLength /\ Goes(w, "status", b)
        /\ info' = [info EXCEPT ![job[w]] = OpenBody(@, unknownLength)]
        /\ UNCHANGED <<told, lists, closes>>

\* More of the body; what is not handed on only goes into the file.
DataArrives(w) ==
    /\ info[job[w]].state = "body" /\ "data" \in StreamsTo(job[w])
    /\ Goes(w, "input", "data")
    /\ UNCHANGED <<info, told, lists, closes>>

\* The stream gets the data without LockStream, and is in use again though it
\* may have been destroyed meanwhile.
StreamData(w) ==
    /\ Goes(w, "data", "input")
    /\ info' = [info EXCEPT ![job[w]].stream = "open"]
    /\ UNCHANGED <<told, lists, closes>>

\* The local file cannot be created.  Behind a header the body is processed all
\* the same.
FileFails(w) ==
    LET r == job[w] IN
    /\ \/ /\ "document" \in Replies /\ info[r].state = "header"
          /\ \E b \in StreamsTo(r) : Goes(w, "input", b)
       \/ "raw" \in Replies /\ Goes(w, "status", "input")
    /\ CloseStream(r, [SetState(info[r], "error") EXCEPT !.err = "error"])
    /\ UNCHANGED <<lists, closes>>

\* 304: the document in the cache is good.  The abort flag is tested, and only
\* then is the document streamed.
StatusUnchanged(w) ==
    LET r == job[w] IN
    /\ "unchanged" \in Replies
    /\ Goes(w, "status", IF info[r].abort THEN "input" ELSE "unchanged")
    /\ info' = [info EXCEPT ![r] = SetState(@, "local")]
    /\ UNCHANGED <<told, lists, closes>>

StreamLocal(w) ==
    /\ Goes(w, "unchanged", "input")
    /\ StreamURL(job[w])
    /\ UNCHANGED <<lists, closes>>

StatusError(w) ==
    LET r == job[w] IN
    /\ "error" \in Replies
    /\ Goes(w, "status", "input")
    /\ CloseStream(r, [SetState(info[r], "error") EXCEPT !.err = "error"])
    /\ UNCHANGED <<lists, closes>>

\* HandleError with a new location, sent by the server or made up from the
\* mirror: a new object takes over, unless its URL is bad.
StatusMoved(w) ==
    LET r == job[w]
        retry == [SetState(info[r], "retry") EXCEPT !.err = "error"]
    IN
    \E d \in Redirects :
        /\ info[d].state = "none" /\ (d \in Prefetch) = (r \in Prefetch)
        /\ \E u \in Documents[d] :
            /\ \/ "moved" \in Replies
               \/ "error" \in Replies /\ r \notin Prefetch
                  /\ info[r].url \in Mirrored /\ u = Mirror
            /\ info' = [UpdateWaitRequest(r, u) EXCEPT
                           ![r] = retry,
                           ![d] = IF u = BadURL THEN @
                                  ELSE NewInfo(u, info[r].owner, info[r].user)]
            /\ next' = [next EXCEPT ![w] = IF u = BadURL THEN None ELSE d]
            /\ wpc' = [wpc EXCEPT ![w] = IF u = BadURL THEN "input" ELSE "requeue"]
        /\ wpc[w] = "status"
        /\ UNCHANGED <<told, lists, job, closes>>

Requeue(w) ==
    /\ wpc[w] = "requeue"
    /\ queue' = Append(queue, next[w])
    /\ next' = [next EXCEPT ![w] = None]
    /\ wpc' = [wpc EXCEPT ![w] = "input"]
    /\ UNCHANGED <<info, told, conns, active, job, closes>>

\* After ProcessInput: OnDataComplete, if the request is whole as far as the
\* state tells.
AfterInput(w) ==
    LET i == info[job[w]] IN
    /\ Goes(w, "after", IF ~i.abort /\ i.state = "body" THEN "complete" ELSE "decide")
    /\ UNCHANGED <<info, told, lists, closes>>

\* OnDataComplete; what was compressed may turn out not to be.
OnDataComplete(w) ==
    /\ Goes(w, "complete", "decide")
    /\ \/ info' = [info EXCEPT ![job[w]] = [SetState(@, "complete") EXCEPT !.err = "ok"]]
       \/ info' = [info EXCEPT ![job[w]] = [SetState(@, "error") EXCEPT !.err = "error"]]
    /\ UNCHANGED <<told, lists, closes>>

\* Faulty: nothing ends the request that another one has replaced.
DecideFaulty(w) ==
    /\ info[job[w]].state # "retry"
    /\ Goes(w, "decide", "waiters")
    /\ CloseStream(job[w], info[job[w]])
    /\ UNCHANGED <<lists, closes>>

Decide(w) ==
    LET r == job[w] IN
    \/ /\ info[r].state # "retry"
       /\ Goes(w, "decide", "waiters")
       /\ CloseStream(r, info[r])
       /\ UNCHANGED <<lists, closes>>
    \/ /\ info[r].state = "retry"
       /\ Goes(w, "decide", "end")
       /\ UNCHANGED <<info, told, lists, closes>>

\* DoNotification: a request that waited for r shares its fate.
Unsuccessful(i) == i.state = "error" \/ ~i.completed \/ i.abort

Shared(i) ==
    IF ~Unsuccessful(i) THEN "ok"
    ELSE IF i.err # "ok" THEN i.err
    ELSE IF i.abort THEN "abort" ELSE "error"

ProcessWaitRequest(w) ==
    LET r == job[w]
        gone == WaitersOf(r)
    IN
    /\ Goes(w, "waiters", "end")
    /\ conns' = conns \ gone
    /\ active' = ActiveWithout(gone)
    /\ info' = [c \in Requests |->
           IF c \in gone THEN [Destroy(info[c]) EXCEPT !.state = "deleted"] ELSE info[c]]
    /\ told' = [c \in Requests |->
           IF c \in gone THEN Append(told[c], Shared(info[r])) ELSE told[c]]
    /\ UNCHANGED <<queue, closes>>

\* SetState( HTTP_END_PROCESS ), RemoveConnection, delete.
EndProcess(w) ==
    LET r == job[w] IN
    /\ wpc[w] = "end"
    /\ wpc' = [wpc EXCEPT ![w] = "next"]
    /\ job' = [job EXCEPT ![w] = None]
    /\ conns' = conns \ {r}
    /\ active' = active - 1
    /\ info' = [info EXCEPT ![r].state = "deleted"]
    /\ UNCHANGED <<told, queue, next, closes>>

-----------------------------------------------------------------------------
Download(w) ==
    /\ job[w] # None
    /\ \/ Connected(w) \/ ConnectMirror(w) \/ ConnectFails(w) \/ CloseFailed(w)
       \/ Sent(w) \/ InputEnds(w) \/ StatusLine(w) \/ StatusOk(w)
       \/ BodyFollows(w) \/ FileFails(w) \/ DataArrives(w) \/ StreamData(w)
       \/ StatusUnchanged(w) \/ StreamLocal(w) \/ StatusError(w) \/ StatusMoved(w) \/ Requeue(w) \/ AfterInput(w)
       \/ OnDataComplete(w) \/ Decide(w) \/ ProcessWaitRequest(w) \/ EndProcess(w)

Next ==
    \/ GetURL \/ PostURL \/ CloseConnections \/ CloseAllConnections
    \/ \E w \in Workers : GetNextRequest(w) \/ Download(w)

Spec == Init /\ [][Next]_vars

\* A worker goes on: sockets answer, fail or are closed, and HttpThreadPool
\* shows that a queued request finds a worker.  No server sends for ever.
Fairness ==
    \A w \in Workers :
        WF_vars(GetNextRequest(w) \/ Download(w)) /\ SF_vars(InputEnds(w))

FairSpec == Spec /\ Fairness
-----------------------------------------------------------------------------
(* Properties. *)

\* The three places a request can be in exclude each other: a request that is
\* queued is in the queue once and in no other list, a download has one worker
\* and is in the connection list until its worker deletes it, and nobody else
\* (ProcessWaitRequest of another worker, an abort, a redirect) removes or
\* deletes it meanwhile.  Since HTTP_WAIT and HTTP_NOTIFY are one value, the
\* lists are all that tells a waiting request from a notification.  And
\* m_iActiveConn, which is never recomputed, is the number of downloads, though
\* requests enter and leave the connection list uncounted while they wait and
\* an abort changes the state that decides whether they count.
ListsApart ==
    /\ \A i, j \in 1 .. Len(queue) : queue[i] = queue[j] => i = j
    /\ Queued \cap conns = {}
    /\ \A r \in Queued : info[r].state \in {"begin", HTTP_NOTIFY}
    /\ \A w \in Workers : wpc[w] # "next" =>
           /\ job[w] \in conns
           /\ info[job[w]].state \notin {"none", HTTP_NOTIFY, "deleted"}
    /\ \A v, w \in Workers : v # w /\ wpc[v] # "next" => job[v] # job[w]
    /\ active = Cardinality({w \in Workers : wpc[w] # "next"})

\* No document is downloaded twice at a time, into one cache file: "Make sure
\* that the new request is not currently being processed" (ChThread.cpp:340),
\* whatever redirects and aborts do to the requests in the connection list.
OneDownloadPerURL ==
    \A v, w \in Workers :
        v # w /\ wpc[v] # "next" /\ wpc[w] # "next" =>
            info[job[v]].url # info[job[w]].url

\* "leave some connections open for critical stuff" (ChThread.cpp:381): when
\* more than half of the connections are busy, a worker turns to a prefetch only
\* if it leaves no request of the user's in the queue.
PrefetchYields ==
    [][\A w \in Workers :
          wpc[w] = "next" /\ wpc'[w] = "connect" /\ job'[w] \in Prefetch
              /\ active > MaxConnections \div 2
          => Queued' \subseteq Prefetch]_vars

\* "A request is put to HTTP_WAIT if the requested URL is currently being
\* downloaded by a pervious request, we wait till the old request is done and
\* then notify the module" (ChHTPriv.h:110): a waiting request has a download
\* of its document to wait for.
WaiterHasDownload ==
    \A r \in conns : info[r].state = HTTP_WAIT =>
        \E w \in Workers : wpc[w] # "next" /\ info[job[w]].url = info[r].url

\* What an abort leaves in the connection list in the state END_PROCESS is
\* taken out by the worker that downloads it: the abort puts all connections to
\* end process state "and delete them all in DeleteConnection"
\* (ChHTPriv.cpp:617).
AbortedAreRemoved ==
    \A r \in conns : info[r].state = "end" =>
        \E w \in Workers : wpc[w] # "next" /\ job[w] = r

\* A request whose server has sent it elsewhere goes on: the request that
\* replaces it is not made to wait for those that waited for it, which were to
\* be updated "to the new URL" (ChThread.cpp:481) to be served by it.
RedirectDownloads ==
    \A d \in conns \cap Redirects : info[d].state = HTTP_WAIT =>
        \E w \in Workers : wpc[w] # "next" /\ info[job[w]].url = info[d].url

\* No request is forgotten in the queue and no download goes on for ever,
\* whatever prefetches, duplicates, redirects and aborts come in between
\* (GetNextRequest, StartDownload): it is deleted or waits for another one.
SettledOrWaits ==
    \A r \in Requests : r \in Queued ~>
        info[r].state = "deleted" \/ (r \in conns /\ info[r].state = HTTP_WAIT)

=============================================================================
