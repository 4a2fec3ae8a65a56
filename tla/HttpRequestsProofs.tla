-------------------------- MODULE HttpRequestsProofs --------------------------
(* Proofs that the lists of HttpRequests stay apart, that no document is      *)
(* downloaded twice at a time and that prefetches yield, for any number of    *)
(* requests, workers and URLs; and that HttpRequests implements HttpContract  *)
(* as long as no server says "unchanged" or redirects: a request is answered  *)
(* at most once, or twice if its data is streamed, and only a prefetch is     *)
(* forgotten.                                                                 *)
EXTENDS HttpRequestsInv, HttpRequestsContract, ListProofs

-----------------------------------------------------------------------------
(* The objects and the queue. *)

\* SetState keeps an object one, and changes nothing but state and flag.
LEMMA SetStateType ==
    ASSUME NEW i \in InfoType, NEW s \in States
    PROVE  /\ SetState(i, s) \in InfoType
           /\ SetState(i, s).state = s /\ SetState(i, s).url = i.url
           /\ SetState(i, s).user = i.user /\ SetState(i, s).owner = i.owner
           /\ SetState(i, s).stream = i.stream /\ SetState(i, s).err = i.err
           /\ SetState(i, s).abort = i.abort
<1> DEFINE c == i.completed \/ s \in {"complete", "error", "end", "local", HTTP_NOTIFY, "retry"}
<1>1. c \in BOOLEAN
    OBVIOUS
<1>2. SetState(i, s) = [i EXCEPT !.state = s, !.completed = c]
    BY DEF SetState, InfoType
<1> HIDE DEF c
<1> QED
    BY <1>1, <1>2 DEF InfoType

\* So does the constructor.
LEMMA NewInfoType ==
    ASSUME NEW u \in URLs \cup {BadURL}, NEW o \in Owners, NEW r \in Requests
    PROVE  NewInfo(u, o, r) \in InfoType /\ NewInfo(u, o, r).state = "begin"
           /\ NewInfo(u, o, r).url = u /\ NewInfo(u, o, r).user = r
           /\ NewInfo(u, o, r).stream = "closed"
    BY DEF NewInfo, InfoType, States, Errors

\* And destroying its stream.
LEMMA DestroyType ==
    ASSUME NEW i \in InfoType
    PROVE  /\ Destroy(i) \in InfoType /\ Destroy(i).state = i.state /\ Destroy(i).url = i.url
           /\ Destroy(i).user = i.user /\ Destroy(i).stream = "destroyed"
    BY DEF Destroy, InfoType

\* What a request with an error is, besides having failed.
LEMMA ErrorType ==
    ASSUME NEW i \in InfoType, NEW e \in Errors
    PROVE  /\ [i EXCEPT !.err = e] \in InfoType
           /\ [i EXCEPT !.err = e].state = i.state /\ [i EXCEPT !.err = e].url = i.url
           /\ [i EXCEPT !.err = e].user = i.user /\ [i EXCEPT !.err = e].stream = i.stream
           /\ [i EXCEPT !.err = e].abort = i.abort
    BY DEF InfoType

\* An abort ends a request.
LEMMA AbortedType ==
    ASSUME NEW i \in InfoType
    PROVE  /\ Aborted(i) \in InfoType /\ Aborted(i).state = "end" /\ Aborted(i).url = i.url
           /\ Aborted(i).user = i.user /\ Aborted(i).stream = i.stream
<1>1. SetState(i, "end") \in InfoType /\ SetState(i, "end").state = "end"
      /\ SetState(i, "end").url = i.url /\ SetState(i, "end").user = i.user
      /\ SetState(i, "end").stream = i.stream
    BY SetStateType DEF States
<1> QED
    BY <1>1 DEF Aborted, InfoType, Errors

\* CloseTold tells at most one thing more.
LEMMA CloseToldType ==
    ASSUME TypeOK, NEW r \in Requests, NEW i \in InfoType
    PROVE  CloseTold(r, i) \in Seq(Errors) /\ Append(told[r], i.err) \in Seq(Errors)
    BY DEF CloseTold, TypeOK, InfoType

\* The queue holds what was appended to it.
LEMMA AppendQueued ==
    ASSUME TypeOK, NEW r \in Requests, queue' = Append(queue, r)
    PROVE  queue' \in Seq(Requests) /\ Queued' = Queued \cup {r}
<1>1. queue \in Seq(Requests) /\ Len(queue) \in Nat
    BY DEF TypeOK
<1>2. queue' \in Seq(Requests) /\ Len(queue') = Len(queue) + 1
      /\ \A i \in 1 .. Len(queue') : queue'[i] = IF i = Len(queue) + 1 THEN r ELSE queue[i]
    BY <1>1
<1>3. ASSUME NEW q \in Queued' PROVE q \in Queued \cup {r}
    BY <1>1, <1>2, <1>3 DEF Queued
<1>4. ASSUME NEW q \in Queued PROVE q \in Queued'
    BY <1>1, <1>2, <1>4 DEF Queued
<1>5. r \in Queued'
    BY <1>1, <1>2 DEF Queued
<1> QED
    BY <1>2, <1>3, <1>4, <1>5

\* It holds what was not deleted from it.
LEMMA WithoutQueued ==
    ASSUME TypeOK, NEW X, queue' = Without(queue, X)
    PROVE  queue' \in Seq(Requests) /\ Queued' = Queued \ X
<1>1. queue \in Seq(Requests)
    BY DEF TypeOK
<1>2. /\ Without(queue, X) \in Seq(Requests)
      /\ {Without(queue, X)[n] : n \in 1 .. Len(Without(queue, X))}
             = {queue[i] : i \in 1 .. Len(queue)} \ X
    BY <1>1, WithoutElements
<1> QED
    BY <1>2 DEF Queued

\* Each request is in it once.
QueuedOnce == \A i, j \in 1 .. Len(queue) : queue[i] = queue[j] => i = j

LEMMA AppendOnce ==
    ASSUME TypeOK, QueuedOnce, NEW r \in Requests \ Queued, queue' = Append(queue, r)
    PROVE  QueuedOnce'
<1>1. queue \in Seq(Requests) /\ Len(queue) \in Nat
    BY DEF TypeOK
<1>2. Len(queue') = Len(queue) + 1
      /\ \A i \in 1 .. Len(queue') : queue'[i] = IF i = Len(queue) + 1 THEN r ELSE queue[i]
    BY <1>1
<1>3. \A i \in 1 .. Len(queue) : queue[i] # r
    BY DEF Queued
<1> QED
    BY <1>1, <1>2, <1>3 DEF QueuedOnce

LEMMA WithoutOnce ==
    ASSUME TypeOK, QueuedOnce, NEW X, queue' = Without(queue, X)
    PROVE  QueuedOnce'
    BY WithoutRepetition DEF TypeOK, QueuedOnce

-----------------------------------------------------------------------------
(* Type correctness, and the parts of the invariant. *)

Locations ==
    /\ Queued \subseteq Requests
    /\ Queued \cap conns = {}
    /\ \A r \in Queued : info[r].state \in {"begin", HTTP_NOTIFY}
    /\ \A w \in Workers : wpc[w] # "next" =>
           /\ job[w] \in conns
           /\ info[job[w]].state \notin {"none", HTTP_NOTIFY, "deleted"}
    /\ \A v, w \in Workers : v # w /\ wpc[v] # "next" => job[v] # job[w]
    /\ IdleWorkers

Busy == {w \in Workers : wpc[w] # "next"}

LEMMA PartsOfTheInvariant ==
    ASSUME EngineInv
    PROVE  /\ TypeOK /\ QueuedOnce /\ Locations /\ active = Cardinality(Busy)
           /\ RedirectsHeld /\ ConnectionsExist
<1>1. Queued \subseteq Requests
    BY DEF EngineInv, TypeOK, Queued
<1> QED
    BY <1>1 DEF EngineInv, ListsApart, QueuedOnce, Locations, Busy, IdleWorkers

LEMMA PartsKept ==
    ASSUME TypeOK', QueuedOnce', Locations', active' = Cardinality(Busy'), RedirectsHeld',
           ConnectionsExist'
    PROVE  EngineInv'
    BY DEF EngineInv, ListsApart, QueuedOnce, Locations, Busy, IdleWorkers

\* The worker w goes on in its download, and only its request's state changes.
LEMMA DownloadKeeps ==
    ASSUME EngineInv, NEW w \in Workers, NEW b, wpc[w] \notin {"next", "requeue"},
           b \notin {"next", "requeue"},
           wpc' = [wpc EXCEPT ![w] = b], TypeOK',
           UNCHANGED <<queue, conns, active, job, next>>,
           \A r \in Requests : r # job[w] => info'[r].state = info[r].state,
           info'[job[w]].state \notin {"none", HTTP_NOTIFY, "deleted"}
    PROVE  EngineInv'
<1>1. TypeOK /\ QueuedOnce /\ Locations /\ active = Cardinality(Busy) /\ RedirectsHeld
      /\ ConnectionsExist
    BY PartsOfTheInvariant
<1>2. \A v \in Workers : (wpc'[v] = "next") = (wpc[v] = "next")
                         /\ (wpc'[v] = "requeue") = (wpc[v] = "requeue")
    BY <1>1 DEF TypeOK
<1>3. Busy' = Busy
    BY <1>2 DEF Busy
<1>4. conns \subseteq Requests /\ \A v \in Workers : next[v] # None => next[v] \in Requests
    BY <1>1 DEF TypeOK
<1>5. job[w] \in conns
    BY <1>1 DEF Locations
<1>6. Locations'
    BY <1>1, <1>2, <1>4, <1>5 DEF Locations, Queued, IdleWorkers
<1>7. RedirectsHeld'
    BY <1>1, <1>2, <1>4, <1>5 DEF RedirectsHeld, Queued
<1>8. ConnectionsExist' /\ QueuedOnce'
    BY <1>1, <1>4 DEF ConnectionsExist, QueuedOnce
<1> QED
    BY <1>1, <1>3, <1>6, <1>7, <1>8, PartsKept

-----------------------------------------------------------------------------
(* Each action keeps the invariant: what a worker does to its own request. *)

Steps == {"next", "connect", "send", "nosocket", "failed", "input", "data", "status", "unchanged",
          "requeue", "after", "complete", "decide", "waiters", "end"}

\* The request of a worker is an object in the connection list.
LEMMA JobExists ==
    ASSUME EngineInv, NEW w \in Workers, wpc[w] # "next"
    PROVE  /\ job[w] \in Requests /\ job[w] \in conns /\ info[job[w]] \in InfoType
           /\ info[job[w]].state \notin {"none", HTTP_NOTIFY, "deleted"}
           /\ told[job[w]] \in Seq(Errors)
<1>1. TypeOK /\ Locations
    BY PartsOfTheInvariant
<1> QED
    BY <1>1 DEF TypeOK, Locations

\* A worker goes on, and its request with it.
LEMMA JobStep ==
    ASSUME EngineInv, NEW w \in Workers, NEW b \in Steps, Goes(w, wpc[w], b),
           wpc[w] \notin {"next", "requeue"}, b \notin {"next", "requeue"},
           NEW i \in InfoType, i.state \notin {"none", HTTP_NOTIFY, "deleted"},
           info' = [info EXCEPT ![job[w]] = i],
           told' \in [Requests -> Seq(Errors)], UNCHANGED <<lists, closes>>
    PROVE  EngineInv'
<1>1. TypeOK /\ job[w] \in Requests
    BY JobExists, PartsOfTheInvariant
<1>2. wpc' = [wpc EXCEPT ![w] = b] /\ UNCHANGED <<job, next, queue, conns, active, closes>>
    BY DEF Goes, lists
<1>3. TypeOK'
    BY <1>1, <1>2 DEF TypeOK, Steps
<1>4. info'[job[w]] = i /\ \A r \in Requests : r # job[w] => info'[r].state = info[r].state
    BY <1>1 DEF TypeOK
<1> QED
    BY <1>2, <1>3, <1>4, DownloadKeeps

\* The same when the request stays as it is ...
LEMMA PlainStep ==
    ASSUME EngineInv, NEW w \in Workers, NEW b \in Steps, Goes(w, wpc[w], b),
           wpc[w] \notin {"next", "requeue"}, b \notin {"next", "requeue"},
           UNCHANGED <<info, told, lists, closes>>
    PROVE  EngineInv'
<1>1. TypeOK /\ job[w] \in Requests /\ info[job[w]] \in InfoType
      /\ info[job[w]].state \notin {"none", HTTP_NOTIFY, "deleted"}
    BY JobExists, PartsOfTheInvariant
<1>2. info' = [info EXCEPT ![job[w]] = info[job[w]]] /\ told' \in [Requests -> Seq(Errors)]
    BY <1>1 DEF TypeOK
<1> QED
    BY <1>1, <1>2, JobStep

\* ... and when its stream is closed.
LEMMA ClosingStep ==
    ASSUME EngineInv, NEW w \in Workers, NEW b \in Steps, Goes(w, wpc[w], b),
           wpc[w] \notin {"next", "requeue"}, b \notin {"next", "requeue"},
           NEW i \in InfoType, i.state \notin {"none", HTTP_NOTIFY, "deleted"},
           CloseStream(job[w], i) \/ (i = info[job[w]] /\ StreamURL(job[w])),
           UNCHANGED <<lists, closes>>
    PROVE  EngineInv'
<1>1. TypeOK /\ job[w] \in Requests /\ info[job[w]] \in InfoType
    BY JobExists, PartsOfTheInvariant
<1>2. Destroy(i) \in InfoType /\ Destroy(i).state = i.state
    BY DestroyType
<1>3. info' = [info EXCEPT ![job[w]] = Destroy(i)]
    BY DEF CloseStream, StreamURL
<1>4. told' \in [Requests -> Seq(Errors)]
    <2>1. CloseTold(job[w], i) \in Seq(Errors) /\ Append(told[job[w]], i.err) \in Seq(Errors)
        BY <1>1, CloseToldType
    <2>2. \/ told' = [told EXCEPT ![job[w]] = CloseTold(job[w], i)]
          \/ told' = [told EXCEPT ![job[w]] = Append(told[job[w]], i.err)]
        BY DEF CloseStream, StreamURL
    <2> QED
        BY <1>1, <2>1, <2>2 DEF TypeOK
<1> QED
    BY <1>2, <1>3, <1>4, JobStep

LEMMA PlainActions ==
    ASSUME EngineInv, NEW w \in Workers,
           \/ Connected(w) \/ InputEnds(w) \/ StatusLine(w) \/ DataArrives(w) \/ AfterInput(w)
    PROVE  EngineInv'
<1>1. PICK b \in Steps \ {"next", "requeue"} :
          Goes(w, wpc[w], b) /\ wpc[w] \notin {"next", "requeue"}
    BY DEF Connected, InputEnds, StatusLine, DataArrives, AfterInput, Goes, Steps
<1>2. UNCHANGED <<info, told, lists, closes>>
    BY DEF Connected, InputEnds, StatusLine, DataArrives, AfterInput
<1> QED
    BY <1>1, <1>2, PlainStep

\* The request goes on as i: for the same document, and no stream of it is
\* opened or destroyed but by CloseStream.
GoesOnAs(r, i) ==
    /\ i.state \notin {"none", HTTP_NOTIFY, "deleted"}
    /\ i.url = info[r].url /\ i.user = info[r].user /\ i.abort = info[r].abort
    /\ (i.stream = "destroyed") = (info[r].stream = "destroyed")

\* What a worker makes of its request when its state advances, or it fails.
LEMMA NextStates ==
    ASSUME EngineInv, NEW w \in Workers, wpc[w] # "next",
           NEW s \in States, s \notin {"none", HTTP_NOTIFY, "deleted"}
    PROVE  LET i == SetState(info[job[w]], s)
           IN  /\ i \in InfoType /\ i.state = s /\ GoesOnAs(job[w], i)
               /\ \A e \in Errors : LET f == [i EXCEPT !.err = e]
                                    IN  f \in InfoType /\ f.state = s /\ GoesOnAs(job[w], f)
<1> DEFINE r == job[w]
           i == SetState(info[r], s)
<1>1. info[r] \in InfoType
    BY JobExists
<1>2. i \in InfoType /\ i.state = s /\ i.url = info[r].url /\ i.user = info[r].user
      /\ i.stream = info[r].stream /\ i.abort = info[r].abort
    BY <1>1, SetStateType
<1> HIDE DEF i
<1>3. \A e \in Errors : LET f == [i EXCEPT !.err = e]
                       IN  f \in InfoType /\ f.state = s /\ f.url = info[r].url
                           /\ f.user = info[r].user /\ f.stream = info[r].stream
                           /\ f.abort = info[r].abort
    BY <1>2, ErrorType
<1> QED
    BY <1>2, <1>3 DEF GoesOnAs, i

LEMMA BodyState ==
    ASSUME EngineInv, NEW w \in Workers, wpc[w] # "next", NEW unknown \in BOOLEAN
    PROVE  LET i == OpenBody(info[job[w]], unknown)
           IN  i \in InfoType /\ i.state = "body" /\ GoesOnAs(job[w], i)
<1> DEFINE r == job[w]
           i == SetState(info[r], "body")
           c == i.completed \/ unknown
           t == IF i.stream = "closed" THEN "open" ELSE i.stream
<1>1. i \in InfoType /\ i.state = "body" /\ GoesOnAs(r, i)
    BY NextStates DEF States, HTTP_NOTIFY
<1> HIDE DEF i
<1>2. c \in BOOLEAN /\ t \in {"closed", "open", "destroyed"}
      /\ (t = "destroyed") = (i.stream = "destroyed")
    BY <1>1 DEF InfoType
<1>3. OpenBody(info[r], unknown) = [i EXCEPT !.completed = c, !.stream = t]
    BY <1>1 DEF OpenBody, i, InfoType
<1> HIDE DEF c, t
<1>4. [i EXCEPT !.completed = c, !.stream = t] \in InfoType
      /\ [i EXCEPT !.completed = c, !.stream = t].state = "body"
    BY <1>1, <1>2 DEF InfoType
<1>5. GoesOnAs(r, [i EXCEPT !.completed = c, !.stream = t])
    BY <1>1, <1>2 DEF GoesOnAs, InfoType
<1> QED
    BY <1>3, <1>4, <1>5

Advances(w) == ConnectFails(w) \/ Sent(w) \/ StatusOk(w) \/ BodyFollows(w) \/ StatusUnchanged(w)
               \/ OnDataComplete(w)

LEMMA AdvanceShape ==
    ASSUME EngineInv, NEW w \in Workers, Advances(w)
    PROVE  /\ \E b \in Steps \ {"next", "requeue"} : Goes(w, wpc[w], b)
           /\ wpc[w] \notin {"next", "requeue"}
           /\ \E i \in InfoType : GoesOnAs(job[w], i) /\ i.state # "retry"
                                /\ info' = [info EXCEPT ![job[w]] = i]
           /\ UNCHANGED <<told, lists, closes>>
<1> DEFINE r == job[w]
<1>1. /\ \E b \in Steps \ {"next", "requeue"} : Goes(w, wpc[w], b)
      /\ wpc[w] \notin {"next", "requeue"}
    BY DEF Advances, ConnectFails, Sent, StatusOk, BodyFollows, StatusUnchanged, OnDataComplete,
           StreamsTo, Goes, Steps
<1>2. UNCHANGED <<told, lists, closes>>
    BY DEF Advances, ConnectFails, Sent, StatusOk, BodyFollows, StatusUnchanged, OnDataComplete
<1>3. \E i \in InfoType : GoesOnAs(r, i) /\ i.state # "retry" /\ info' = [info EXCEPT ![r] = i]
    <2>1. CASE ConnectFails(w)
        BY <1>1, <2>1, NextStates DEF ConnectFails, States, Errors, HTTP_NOTIFY
    <2>2. CASE Sent(w)
        BY <1>1, <2>2, NextStates DEF Sent, States, HTTP_NOTIFY
    <2>3. CASE StatusOk(w)
        BY <1>1, <2>3, NextStates DEF StatusOk, States, HTTP_NOTIFY
    <2>4. CASE BodyFollows(w)
        <3>1. PICK unknown \in BOOLEAN : info' = [info EXCEPT ![r] = OpenBody(info[r], unknown)]
            BY <2>4 DEF BodyFollows
        <3> QED
            BY <1>1, <3>1, BodyState
    <2>5. CASE StatusUnchanged(w)
        BY <1>1, <2>5, NextStates DEF StatusUnchanged, States, HTTP_NOTIFY
    <2>6. CASE OnDataComplete(w)
        <3> DEFINE ok == [SetState(info[r], "complete") EXCEPT !.err = "ok"]
                   failed == [SetState(info[r], "error") EXCEPT !.err = "error"]
        <3>1. ok \in InfoType /\ ok.state # "retry" /\ GoesOnAs(r, ok)
            BY <1>1, NextStates DEF States, Errors, HTTP_NOTIFY
        <3>2. failed \in InfoType /\ failed.state # "retry" /\ GoesOnAs(r, failed)
            BY <1>1, NextStates DEF States, Errors, HTTP_NOTIFY
        <3>3. info' = [info EXCEPT ![r] = ok] \/ info' = [info EXCEPT ![r] = failed]
            BY <2>6 DEF OnDataComplete
        <3> HIDE DEF ok, failed
        <3> QED
            BY <3>1, <3>2, <3>3
    <2> QED
        BY <2>1, <2>2, <2>3, <2>4, <2>5, <2>6 DEF Advances
<1> QED
    BY <1>1, <1>2, <1>3

LEMMA AdvanceKeeps ==
    ASSUME EngineInv, NEW w \in Workers, Advances(w)
    PROVE  EngineInv'
<1>1. PICK b \in Steps \ {"next", "requeue"} :
          Goes(w, wpc[w], b) /\ wpc[w] \notin {"next", "requeue"}
    BY AdvanceShape
<1>2. PICK i \in InfoType : GoesOnAs(job[w], i) /\ info' = [info EXCEPT ![job[w]] = i]
    BY AdvanceShape
<1>3. told' \in [Requests -> Seq(Errors)] /\ UNCHANGED <<lists, closes>>
    BY AdvanceShape, PartsOfTheInvariant DEF TypeOK
<1> QED
    BY <1>1, <1>2, <1>3, JobStep DEF GoesOnAs

\* Data is handed on: only the stream changes.
LEMMA StreamDataShape ==
    ASSUME EngineInv, NEW w \in Workers, StreamData(w)
    PROVE  /\ Goes(w, "data", "input") /\ UNCHANGED <<told, lists, closes>>
           /\ \E i \in InfoType :
                  /\ i.state = info[job[w]].state /\ i.url = info[job[w]].url
                  /\ i.user = info[job[w]].user /\ i.abort = info[job[w]].abort
                  /\ i.stream = "open" /\ info' = [info EXCEPT ![job[w]] = i]
<1> DEFINE i == [info[job[w]] EXCEPT !.stream = "open"]
<1>1. Goes(w, "data", "input") /\ UNCHANGED <<told, lists, closes>> /\ wpc[w] # "next"
    BY DEF StreamData, Goes
<1>2. info[job[w]] \in InfoType /\ info \in [Requests -> InfoType]
    BY <1>1, JobExists, PartsOfTheInvariant DEF TypeOK
<1>3. /\ i \in InfoType /\ i.state = info[job[w]].state /\ i.url = info[job[w]].url
      /\ i.user = info[job[w]].user /\ i.abort = info[job[w]].abort /\ i.stream = "open"
    BY <1>2 DEF InfoType
<1>4. info' = [info EXCEPT ![job[w]] = i]
    BY DEF StreamData
<1> HIDE DEF i
<1> QED
    BY <1>1, <1>3, <1>4

LEMMA StreamDataKeeps ==
    ASSUME EngineInv, NEW w \in Workers, StreamData(w)
    PROVE  EngineInv'
<1>1. Goes(w, wpc[w], "input") /\ wpc[w] = "data" /\ UNCHANGED <<told, lists, closes>>
    BY StreamDataShape DEF Goes
<1>2. info[job[w]].state \notin {"none", HTTP_NOTIFY, "deleted"}
    BY <1>1, JobExists
<1>3. PICK i \in InfoType : i.state = info[job[w]].state /\ info' = [info EXCEPT ![job[w]] = i]
    BY StreamDataShape
<1>4. told' \in [Requests -> Seq(Errors)] /\ "input" \in Steps
    BY <1>1, PartsOfTheInvariant DEF TypeOK, Steps
<1> QED
    BY <1>1, <1>2, <1>3, <1>4, JobStep

\* Its stream manager is told how it ended.
Closes(w) == CloseFailed(w) \/ FileFails(w) \/ StreamLocal(w) \/ StatusError(w) \/ Decide(w)

LEMMA CloseShape ==
    ASSUME EngineInv, NEW w \in Workers, Closes(w)
    PROVE  /\ \E b \in Steps \ {"next", "requeue"} : Goes(w, wpc[w], b)
           /\ wpc[w] \notin {"next", "requeue"}
           /\ \/ \E i \in InfoType : /\ GoesOnAs(job[w], i) /\ CloseStream(job[w], i)
                                     /\ i.state = "retry" => info[job[w]].state = "retry"
              \/ wpc[w] = "unchanged" /\ StreamURL(job[w])
              \/ info[job[w]].state = "retry" /\ UNCHANGED <<info, told>>
           /\ UNCHANGED <<lists, closes>>
<1> DEFINE r == job[w]
           failed == [SetState(info[r], "error") EXCEPT !.err = "error"]
<1>1. /\ \E b \in Steps \ {"next", "requeue"} : Goes(w, wpc[w], b)
      /\ wpc[w] \notin {"next", "requeue"}
    BY DEF Closes, CloseFailed, FileFails, StreamLocal, StatusError, Decide, StreamsTo, Goes, Steps
<1>2. UNCHANGED <<lists, closes>>
    BY DEF Closes, CloseFailed, FileFails, StreamLocal, StatusError, Decide
<1>3. info[r] \in InfoType /\ GoesOnAs(r, info[r])
    BY <1>1, JobExists DEF GoesOnAs
<1>4. failed \in InfoType /\ failed.state # "retry" /\ GoesOnAs(r, failed)
    BY <1>1, NextStates DEF States, Errors, HTTP_NOTIFY
<1>5. CASE FileFails(w) \/ StatusError(w)
    <2>1. CloseStream(r, failed)
        BY <1>5 DEF FileFails, StatusError
    <2> HIDE DEF failed
    <2> QED
        BY <1>1, <1>2, <1>4, <2>1
<1>6. CASE CloseFailed(w) \/ StreamLocal(w) \/ Decide(w)
    BY <1>1, <1>2, <1>3, <1>6 DEF CloseFailed, StreamLocal, Decide, Goes
<1> QED
    BY <1>5, <1>6 DEF Closes

LEMMA CloseKeeps ==
    ASSUME EngineInv, NEW w \in Workers, Closes(w)
    PROVE  EngineInv'
<1>1. PICK b \in Steps \ {"next", "requeue"} :
          Goes(w, wpc[w], b) /\ wpc[w] \notin {"next", "requeue"}
    BY CloseShape
<1>2. UNCHANGED <<lists, closes>>
    BY CloseShape
<1>3. CASE \E i \in InfoType : /\ GoesOnAs(job[w], i) /\ CloseStream(job[w], i)
                               /\ i.state = "retry" => info[job[w]].state = "retry"
    BY <1>1, <1>2, <1>3, ClosingStep DEF GoesOnAs
<1>4. CASE StreamURL(job[w])
    BY <1>1, <1>2, <1>4, ClosingStep, JobExists
<1>5. CASE UNCHANGED <<info, told>>
    BY <1>1, <1>2, <1>5, PlainStep
<1> QED
    BY <1>3, <1>4, <1>5, CloseShape

-----------------------------------------------------------------------------
(* What a worker does to other requests. *)

\* Those that wait for a document are requests, and no worker's.
LEMMA WaitersWait ==
    ASSUME EngineInv, NEW w \in Workers, wpc[w] # "next"
    PROVE  /\ WaitersOf(job[w]) \subseteq conns /\ WaitersOf(job[w]) \subseteq Requests
           /\ \A c \in WaitersOf(job[w]) : info[c].state = HTTP_WAIT
           /\ \A v \in Workers : wpc[v] # "next" => job[v] \notin WaitersOf(job[w])
<1>1. TypeOK /\ Locations
    BY PartsOfTheInvariant
<1> QED
    BY <1>1 DEF TypeOK, Locations, WaitersOf, HTTP_WAIT

\* Their URL may change, which changes nothing else.
LEMMA UpdateType ==
    ASSUME EngineInv, NEW w \in Workers, wpc[w] # "next", NEW u \in URLs \cup {BadURL}
    PROVE  LET f == UpdateWaitRequest(job[w], u)
           IN  /\ f \in [Requests -> InfoType]
               /\ \A r \in Requests : f[r].state = info[r].state /\ f[r].user = info[r].user
                                       /\ f[r].stream = info[r].stream
               /\ \A r \in Requests \ WaitersOf(job[w]) : f[r] = info[r]
<1>1. info \in [Requests -> InfoType]
    BY PartsOfTheInvariant DEF TypeOK
<1>2. \A r \in Requests : LET i == [info[r] EXCEPT !.url = u]
                          IN  i \in InfoType /\ i.state = info[r].state /\ i.user = info[r].user
                              /\ i.stream = info[r].stream
    BY <1>1 DEF InfoType
<1> QED
    BY <1>1, <1>2 DEF UpdateWaitRequest

LEMMA ConnectMirrorKeeps ==
    ASSUME EngineInv, NEW w \in Workers, ConnectMirror(w)
    PROVE  EngineInv'
<1> DEFINE r == job[w]
           f == UpdateWaitRequest(r, Mirror)
           i == [info[r] EXCEPT !.url = Mirror]
<1>1. wpc[w] = "connect" /\ Goes(w, wpc[w], "nosocket")
    BY DEF ConnectMirror, Goes
<1>2. r \in Requests /\ info[r] \in InfoType /\ info[r].state \notin {"none", HTTP_NOTIFY, "deleted"}
    BY <1>1, JobExists
<1>3. Mirror \in URLs
    BY RequestsAssumption DEF ConnectMirror
<1>4. f \in [Requests -> InfoType] /\ \A q \in Requests : f[q].state = info[q].state
    BY <1>1, <1>3, UpdateType
<1>5. i \in InfoType /\ i.state = info[r].state
    BY <1>2, <1>3 DEF InfoType
<1>6. info' = [f EXCEPT ![r] = i] /\ UNCHANGED <<told, lists, closes>>
    BY DEF ConnectMirror
<1> HIDE DEF f, i
<1>7. /\ info' \in [Requests -> InfoType]
      /\ info'[r].state = info[r].state
      /\ \A q \in Requests : q # r => info'[q].state = info[q].state
    BY <1>2, <1>4, <1>5, <1>6
<1>8. TypeOK'
    <2>1. TypeOK /\ wpc' = [wpc EXCEPT ![w] = "nosocket"]
          /\ UNCHANGED <<told, queue, conns, active, job, next, closes>>
        BY <1>1, <1>6, PartsOfTheInvariant DEF Goes, lists
    <2> QED
        BY <1>7, <2>1 DEF TypeOK
<1> QED
    BY <1>1, <1>2, <1>6, <1>7, <1>8, DownloadKeeps DEF Goes, lists

\* A redirect gives its worker a second request.
LEMMA StatusMovedKeeps ==
    ASSUME EngineInv, NEW w \in Workers, StatusMoved(w)
    PROVE  EngineInv'
<1> DEFINE r == job[w]
           failed == [SetState(info[r], "retry") EXCEPT !.err = "error"]
<1>1. /\ wpc[w] = "status" /\ UNCHANGED <<told, lists, job, closes>>
    BY DEF StatusMoved
<1>2. PICK d \in Redirects : info[d].state = "none" /\ \E u \in Documents[d] :
            /\ info' = [UpdateWaitRequest(r, u) EXCEPT
                           ![r] = failed,
                           ![d] = IF u = BadURL THEN @
                                  ELSE NewInfo(u, info[r].owner, info[r].user)]
            /\ next' = [next EXCEPT ![w] = IF u = BadURL THEN None ELSE d]
            /\ wpc' = [wpc EXCEPT ![w] = IF u = BadURL THEN "input" ELSE "requeue"]
    BY DEF StatusMoved
<1>3. PICK u \in Documents[d] :
            /\ info' = [UpdateWaitRequest(r, u) EXCEPT
                           ![r] = failed,
                           ![d] = IF u = BadURL THEN @
                                  ELSE NewInfo(u, info[r].owner, info[r].user)]
            /\ next' = [next EXCEPT ![w] = IF u = BadURL THEN None ELSE d]
            /\ wpc' = [wpc EXCEPT ![w] = IF u = BadURL THEN "input" ELSE "requeue"]
    BY <1>2
<1>4. TypeOK /\ QueuedOnce /\ Locations /\ active = Cardinality(Busy) /\ RedirectsHeld
      /\ ConnectionsExist
    BY PartsOfTheInvariant
<1>5. r \in Requests /\ r \in conns /\ info[r] \in InfoType
      /\ info[r].state \notin {"none", HTTP_NOTIFY, "deleted"}
    BY <1>1, JobExists
<1>6. d \in Requests /\ d # None /\ u \in URLs \cup {BadURL} /\ d # r
    BY <1>2, <1>5, RequestsAssumption
<1> DEFINE f == UpdateWaitRequest(r, u)
           n == NewInfo(u, info[r].owner, info[r].user)
<1>7. f \in [Requests -> InfoType] /\ \A q \in Requests : f[q].state = info[q].state
    BY <1>1, <1>6, UpdateType
<1>8. n \in InfoType /\ n.state = "begin"
    <2>1. info[r].owner \in Owners /\ info[r].user \in Requests
        BY <1>5 DEF InfoType
    <2> QED
        BY <1>6, <2>1, NewInfoType
<1>9. failed \in InfoType /\ failed.state = "retry"
    <2>1. SetState(info[r], "retry") \in InfoType /\ SetState(info[r], "retry").state = "retry"
        BY <1>5, SetStateType DEF States
    <2> QED
        BY <2>1, ErrorType DEF Errors
<1>10. info' = [f EXCEPT ![r] = failed, ![d] = IF u = BadURL THEN @ ELSE n]
    BY <1>3
<1> HIDE DEF f, n, failed
<1>11. /\ info' \in [Requests -> InfoType]
       /\ info'[r].state = "retry"
       /\ info'[d].state = IF u = BadURL THEN "none" ELSE "begin"
       /\ \A q \in Requests : q # r /\ q # d => info'[q].state = info[q].state
    BY <1>2, <1>5, <1>6, <1>7, <1>8, <1>9, <1>10
<1>12. TypeOK'
    BY <1>1, <1>3, <1>4, <1>6, <1>11 DEF TypeOK, lists
<1>13. \A v \in Workers : (wpc'[v] = "next") = (wpc[v] = "next")
                          /\ (v # w => wpc'[v] = wpc[v] /\ next'[v] = next[v])
    BY <1>1, <1>3, <1>4 DEF TypeOK
<1>14. Busy' = Busy /\ UNCHANGED <<queue, conns, active, job>> /\ Queued' = Queued
    <2>1. UNCHANGED <<queue, conns, active, job>>
        BY <1>1 DEF lists
    <2>2. Busy' = Busy
        BY <1>13 DEF Busy
    <2> QED
        BY <2>1, <2>2 DEF Queued
<1>15. d \notin Queued \cup conns /\ \A v \in Workers : next[v] # None => next[v] # d
    <2>1. \A q \in Queued \cup conns : info[q].state # "none"
        BY <1>4 DEF Locations, ConnectionsExist, HTTP_NOTIFY
    <2>2. \A v \in Workers : next[v] # None => info[next[v]].state = "begin"
        BY <1>4 DEF RedirectsHeld
    <2> QED
        BY <1>2, <2>1, <2>2
<1>16. conns \subseteq Requests /\ \A v \in Workers : next[v] # None => next[v] \in Requests
    BY <1>4 DEF TypeOK
<1>17. Locations'
    <2>1. \A q \in Queued : info'[q].state = info[q].state
        BY <1>4, <1>5, <1>11, <1>15 DEF Locations
    <2>2. \A q \in conns : info'[q].state = info[q].state \/ info'[q].state = "retry"
        BY <1>11, <1>15, <1>16
    <2> QED
        BY <1>4, <1>13, <1>14, <2>1, <2>2 DEF Locations, IdleWorkers, HTTP_NOTIFY
<1>18. RedirectsHeld'
    <2>1. next'[w] = (IF u = BadURL THEN None ELSE d)
          /\ wpc'[w] = IF u = BadURL THEN "input" ELSE "requeue"
        BY <1>3, <1>4 DEF TypeOK
    <2>3. ASSUME NEW v \in Workers
          PROVE  /\ wpc'[v] = "requeue" => next'[v] # None
                 /\ next'[v] # None =>
                        wpc'[v] = "requeue" /\ info'[next'[v]].state = "begin"
                        /\ next'[v] \notin Queued' \cup conns'
        <3>1. CASE v = w
            BY <1>6, <1>11, <1>14, <1>15, <2>1, <3>1
        <3>2. CASE v # w
            <4>1. wpc'[v] = wpc[v] /\ next'[v] = next[v]
                BY <1>13, <3>2
            <4>2. next[v] # None =>
                      /\ wpc[v] = "requeue" /\ info[next[v]].state = "begin"
                      /\ next[v] \notin Queued \cup conns /\ next[v] # r /\ next[v] # d
                BY <1>4, <1>5, <1>15 DEF RedirectsHeld
            <4>3. wpc[v] = "requeue" => next[v] # None
                BY <1>4 DEF RedirectsHeld
            <4> QED
                BY <1>11, <1>14, <1>16, <4>1, <4>2, <4>3
        <3> QED
            BY <3>1, <3>2
    <2>4. ASSUME NEW v \in Workers, NEW x \in Workers, v # x, next'[v] # None
          PROVE  next'[v] # next'[x]
        <3>1. next[w] = None
            BY <1>1, <1>4 DEF RedirectsHeld
        <3>2. \A y, z \in Workers : y # z /\ next[y] # None => next[y] # next[z]
            BY <1>4 DEF RedirectsHeld
        <3>3. \A y \in Workers : y # w => next'[y] = next[y]
            BY <1>13
        <3> QED
            BY <1>6, <1>15, <2>1, <2>4, <3>1, <3>2, <3>3
    <2> QED
        BY <2>3, <2>4 DEF RedirectsHeld
<1>19. ConnectionsExist' /\ QueuedOnce'
    BY <1>4, <1>11, <1>14, <1>15, <1>16 DEF ConnectionsExist, QueuedOnce
<1> QED
    BY <1>4, <1>12, <1>14, <1>17, <1>18, <1>19, PartsKept

\* The second request is queued.
LEMMA RequeueKeeps ==
    ASSUME EngineInv, NEW w \in Workers, Requeue(w)
    PROVE  EngineInv'
<1> DEFINE d == next[w]
<1>1. TypeOK /\ QueuedOnce /\ Locations /\ active = Cardinality(Busy) /\ RedirectsHeld
      /\ ConnectionsExist
    BY PartsOfTheInvariant
<1>2. /\ wpc[w] = "requeue" /\ wpc' = [wpc EXCEPT ![w] = "input"]
      /\ next' = [next EXCEPT ![w] = None] /\ queue' = Append(queue, d)
      /\ UNCHANGED <<info, told, conns, active, job, closes>>
    BY DEF Requeue
<1>3. d # None /\ d \in Requests /\ info[d].state = "begin" /\ d \notin Queued \cup conns
    BY <1>1, <1>2 DEF RedirectsHeld, TypeOK
<1>4. queue' \in Seq(Requests) /\ Queued' = Queued \cup {d}
    BY <1>1, <1>2, <1>3, AppendQueued
<1>5. TypeOK'
    BY <1>1, <1>2, <1>4 DEF TypeOK
<1>6. QueuedOnce'
    BY <1>1, <1>2, <1>3, AppendOnce
<1>7. \A v \in Workers : (wpc'[v] = "next") = (wpc[v] = "next")
    BY <1>1, <1>2 DEF TypeOK
<1>8. Busy' = Busy
    BY <1>7 DEF Busy
<1>9. Locations'
    BY <1>1, <1>2, <1>3, <1>4, <1>7 DEF Locations, IdleWorkers
<1>10. RedirectsHeld'
    <2>1. next'[w] = None /\ wpc'[w] = "input"
        BY <1>1, <1>2 DEF TypeOK
    <2>2. \A v \in Workers : v # w => next'[v] = next[v] /\ wpc'[v] = wpc[v]
        BY <1>1, <1>2 DEF TypeOK
    <2>3. \A v \in Workers : v # w /\ next[v] # None => next[v] # d
        BY <1>1, <1>3 DEF RedirectsHeld
    <2> QED
        BY <1>1, <1>2, <1>4, <2>1, <2>2, <2>3 DEF RedirectsHeld
<1>11. ConnectionsExist'
    BY <1>1, <1>2 DEF ConnectionsExist
<1> QED
    BY <1>1, <1>2, <1>5, <1>6, <1>8, <1>9, <1>10, <1>11, PartsKept

\* Those that waited for a download are told and deleted.
LEMMA ProcessWaitRequestKeeps ==
    ASSUME EngineInv, NEW w \in Workers, ProcessWaitRequest(w)
    PROVE  EngineInv'
<1> DEFINE r == job[w]
           gone == WaitersOf(r)
<1>1. TypeOK /\ QueuedOnce /\ Locations /\ active = Cardinality(Busy) /\ RedirectsHeld
      /\ ConnectionsExist
    BY PartsOfTheInvariant
<1>2. /\ wpc[w] = "waiters" /\ wpc' = [wpc EXCEPT ![w] = "end"]
      /\ conns' = conns \ gone /\ active' = ActiveWithout(gone)
      /\ UNCHANGED <<queue, job, next, closes>>
    BY DEF ProcessWaitRequest, Goes
<1>3. /\ gone \subseteq conns /\ gone \subseteq Requests
      /\ \A c \in gone : info[c].state = HTTP_WAIT
      /\ \A v \in Workers : wpc[v] # "next" => job[v] \notin gone
    BY <1>2, WaitersWait
<1>4. active' = active
    <2>1. {c \in gone : info[c].state # HTTP_WAIT} = {}
        BY <1>3
    <2>2. active \in Nat /\ Cardinality({}) = 0
        BY <1>1, FS_EmptySet DEF TypeOK
    <2>3. ActiveWithout(gone) = active - Cardinality({})
        BY <2>1, Zenon DEF ActiveWithout
    <2> HIDE DEF gone
    <2> QED
        BY <1>2, <2>2, <2>3
<1>5. /\ info' \in [Requests -> InfoType]
      /\ \A q \in Requests \ gone : info'[q] = info[q]
    <2>1. \A c \in Requests : [Destroy(info[c]) EXCEPT !.state = "deleted"] \in InfoType
        <3> SUFFICES ASSUME NEW c \in Requests
                     PROVE  [Destroy(info[c]) EXCEPT !.state = "deleted"] \in InfoType
            OBVIOUS
        <3>1. Destroy(info[c]) \in InfoType
            BY <1>1, DestroyType DEF TypeOK
        <3> QED
            BY <3>1 DEF InfoType, States
    <2>2. info' = [c \in Requests |->
               IF c \in gone THEN [Destroy(info[c]) EXCEPT !.state = "deleted"] ELSE info[c]]
        BY DEF ProcessWaitRequest
    <2> HIDE DEF gone
    <2> QED
        BY <1>1, <2>1, <2>2 DEF TypeOK
<1>6. told' \in [Requests -> Seq(Errors)]
    <2>1. Shared(info[r]) \in Errors
        <3>1. info[r] \in InfoType
            BY <1>2, JobExists
        <3> QED
            BY <3>1 DEF Shared, InfoType, Errors
    <2>2. told' = [c \in Requests |->
               IF c \in gone THEN Append(told[c], Shared(info[r])) ELSE told[c]]
        BY DEF ProcessWaitRequest
    <2> HIDE DEF gone
    <2> QED
        BY <1>1, <2>1, <2>2 DEF TypeOK
<1> HIDE DEF gone
<1>7. TypeOK'
    BY <1>1, <1>2, <1>4, <1>5, <1>6 DEF TypeOK
<1>8. \A v \in Workers : (wpc'[v] = "next") = (wpc[v] = "next")
                         /\ (wpc'[v] = "requeue") = (wpc[v] = "requeue")
    BY <1>1, <1>2 DEF TypeOK
<1>9. Busy' = Busy /\ Queued' = Queued
    <2>1. Busy' = Busy
        BY <1>8 DEF Busy
    <2> QED
        BY <1>2, <2>1 DEF Queued
<1>10. conns \subseteq Requests /\ \A v \in Workers : next[v] # None => next[v] \in Requests
    BY <1>1 DEF TypeOK
<1>11. Locations'
    BY <1>1, <1>2, <1>3, <1>5, <1>8, <1>9, <1>10 DEF Locations, IdleWorkers
<1>12. RedirectsHeld'
    BY <1>1, <1>2, <1>3, <1>5, <1>8, <1>9, <1>10 DEF RedirectsHeld
<1>13. ConnectionsExist' /\ QueuedOnce'
    BY <1>1, <1>2, <1>5, <1>10 DEF ConnectionsExist, QueuedOnce
<1> QED
    BY <1>1, <1>4, <1>7, <1>9, <1>11, <1>12, <1>13, PartsKept

\* A request is deleted by its worker.
LEMMA EndProcessKeeps ==
    ASSUME EngineInv, NEW w \in Workers, EndProcess(w)
    PROVE  EngineInv'
<1> DEFINE r == job[w]
           i == [info[r] EXCEPT !.state = "deleted"]
<1>1. TypeOK /\ QueuedOnce /\ Locations /\ active = Cardinality(Busy) /\ RedirectsHeld
      /\ ConnectionsExist
    BY PartsOfTheInvariant
<1>2. /\ wpc[w] = "end" /\ wpc' = [wpc EXCEPT ![w] = "next"]
      /\ job' = [job EXCEPT ![w] = None]
      /\ conns' = conns \ {r} /\ active' = active - 1
      /\ info' = [info EXCEPT ![r].state = "deleted"]
      /\ UNCHANGED <<told, queue, next, closes>>
    BY DEF EndProcess
<1>3. r \in Requests /\ r \in conns /\ i \in InfoType
    BY <1>2, JobExists DEF InfoType, States
<1>4. info' = [info EXCEPT ![r] = i]
    BY <1>2
<1> HIDE DEF i
<1>5. info' \in [Requests -> InfoType] /\ \A q \in Requests : q # r => info'[q] = info[q]
    BY <1>1, <1>3, <1>4 DEF TypeOK
<1>6. active' = Cardinality(Busy') /\ active' \in Nat
    <2>1. IsFiniteSet(Busy)
        <3>1. Busy \in SUBSET Workers
            BY DEF Busy
        <3> QED
            BY <3>1, FS_Subset, RequestsAssumption
    <2>2. w \in Busy /\ Busy' = Busy \ {w}
        BY <1>1, <1>2 DEF Busy, TypeOK
    <2>3. Cardinality(Busy') = Cardinality(Busy) - 1 /\ Cardinality(Busy') \in Nat
        BY <2>1, <2>2, FS_RemoveElement, FS_CardinalityType
    <2> QED
        BY <1>1, <1>2, <2>3
<1>7. TypeOK'
    BY <1>1, <1>2, <1>5, <1>6 DEF TypeOK
<1>8. \A v \in Workers : v # w => wpc'[v] = wpc[v] /\ job'[v] = job[v]
    BY <1>1, <1>2 DEF TypeOK
<1>9. wpc'[w] = "next" /\ Queued' = Queued
    BY <1>1, <1>2 DEF TypeOK, Queued
<1>10. conns \subseteq Requests /\ \A v \in Workers : next[v] # None => next[v] \in Requests
    BY <1>1 DEF TypeOK
<1>11. \A v \in Workers : v # w /\ wpc[v] # "next" => job[v] # r
    BY <1>1, <1>2 DEF Locations
<1>12. Locations'
    <2>1. \A q \in Queued : q # r /\ q \in Requests
        BY <1>1, <1>3 DEF Locations
    <2>2. ASSUME NEW v \in Workers, wpc'[v] # "next"
          PROVE  /\ v # w /\ wpc[v] # "next" /\ job'[v] = job[v] /\ job[v] # r
                 /\ job[v] \in conns /\ info[job[v]].state \notin {"none", HTTP_NOTIFY, "deleted"}
        BY <1>1, <1>8, <1>9, <1>11, <2>2 DEF Locations
    <2>3. \A v \in Workers : wpc'[v] # "next" =>
              job'[v] \in conns' /\ info'[job'[v]].state \notin {"none", HTTP_NOTIFY, "deleted"}
        BY <1>2, <1>5, <1>10, <2>2
    <2>4. \A v, x \in Workers : v # x /\ wpc'[v] # "next" => job'[v] # job'[x]
        <3> SUFFICES ASSUME NEW v \in Workers, NEW x \in Workers, v # x, wpc'[v] # "next"
                     PROVE  job'[v] # job'[x]
            OBVIOUS
        <3>1. job'[w] = None /\ job[v] # None
            BY <1>1, <1>2, <1>10, <2>2, RequestsAssumption DEF TypeOK
        <3> QED
            BY <1>1, <1>8, <2>2, <3>1 DEF Locations
    <2>5. IdleWorkers'
        BY <1>1, <1>2, <1>8 DEF Locations, IdleWorkers, TypeOK
    <2> QED
        BY <1>1, <1>2, <1>5, <1>9, <2>1, <2>3, <2>4, <2>5 DEF Locations, IdleWorkers
<1>13. RedirectsHeld'
    <2>1. \A v \in Workers : next[v] # None => next[v] # r /\ v # w
        BY <1>1, <1>2, <1>3 DEF RedirectsHeld
    <2>2. wpc[w] # "requeue" /\ wpc'[w] # "requeue"
        BY <1>2, <1>9
    <2> QED
        BY <1>1, <1>2, <1>5, <1>8, <1>9, <1>10, <2>1, <2>2 DEF RedirectsHeld
<1>14. ConnectionsExist' /\ QueuedOnce'
    BY <1>1, <1>2, <1>5, <1>10 DEF ConnectionsExist, QueuedOnce
<1> QED
    BY <1>6, <1>7, <1>12, <1>13, <1>14, PartsKept

-----------------------------------------------------------------------------
(* The main thread. *)

\* A new request is queued, of a user.
LEMMA AskShape ==
    ASSUME EngineInv, GetURL \/ PostURL
    PROVE  /\ \E r \in Requests \ Redirects, i \in InfoType :
                 /\ info[r].state = "none" /\ i.state \in {"begin", HTTP_NOTIFY}
                 /\ i.user = r /\ i.stream = "closed"
                 /\ info' = [info EXCEPT ![r] = i]
                 /\ queue' = Append(queue, r)
           /\ UNCHANGED <<told, conns, active, wpc, job, next, closes>>
<1>1. UNCHANGED <<told, conns, active, wpc, job, next, closes>>
    BY DEF GetURL, PostURL, workers
<1>2. \E r \in Requests \ Redirects, i \in InfoType :
          /\ info[r].state = "none" /\ i.state \in {"begin", HTTP_NOTIFY}
          /\ i.user = r /\ i.stream = "closed"
          /\ info' = [info EXCEPT ![r] = i]
          /\ queue' = Append(queue, r)
    <2>1. PICK r \in Requests \ Redirects, o \in Owners, u \in URLs \cup {BadURL} :
            /\ info[r].state = "none" /\ queue' = Append(queue, r)
            /\ LET n == NewInfo(u, o, r)
                   s == SetState(n, HTTP_NOTIFY)
               IN  \/ info' = [info EXCEPT ![r] = n]
                   \/ info' = [info EXCEPT ![r] = s]
                   \/ info' = [info EXCEPT ![r] = [s EXCEPT !.err = "error"]]
        <3>1. \A r \in Requests : Documents[r] \subseteq URLs \cup {BadURL}
            BY RequestsAssumption
        <3>2. Posts \subseteq Requests
            BY RequestsAssumption
        <3>3. CASE GetURL
            BY <3>1, <3>3 DEF GetURL
        <3>4. CASE PostURL
            BY <3>1, <3>2, <3>4 DEF PostURL
        <3> QED
            BY <3>3, <3>4
    <2> DEFINE n == NewInfo(u, o, r)
               s == SetState(n, HTTP_NOTIFY)
               e == [s EXCEPT !.err = "error"]
    <2>2. n \in InfoType /\ n.state = "begin" /\ n.user = r /\ n.stream = "closed"
        BY <2>1, NewInfoType
    <2> HIDE DEF n
    <2>3. s \in InfoType /\ s.state = HTTP_NOTIFY /\ s.user = r /\ s.stream = "closed"
        BY <2>2, SetStateType DEF States
    <2> HIDE DEF s
    <2>4. e \in InfoType /\ e.state = HTTP_NOTIFY /\ e.user = r /\ e.stream = "closed"
        BY <2>3, ErrorType DEF Errors
    <2> HIDE DEF e
    <2>5. \/ info' = [info EXCEPT ![r] = n]
          \/ info' = [info EXCEPT ![r] = s]
          \/ info' = [info EXCEPT ![r] = e]
        BY <2>1 DEF n, s, e
    <2> QED
        BY <2>1, <2>2, <2>3, <2>4, <2>5
<1> QED
    BY <1>1, <1>2

\* A new request is queued, or only to be notified.
LEMMA AskKeeps ==
    ASSUME EngineInv, GetURL \/ PostURL
    PROVE  EngineInv'
<1>1. TypeOK /\ QueuedOnce /\ Locations /\ active = Cardinality(Busy) /\ RedirectsHeld
      /\ ConnectionsExist
    BY PartsOfTheInvariant
<1>2. PICK r \in Requests, i \in InfoType :
          /\ info[r].state = "none" /\ i.state \in {"begin", HTTP_NOTIFY}
          /\ info' = [info EXCEPT ![r] = i]
          /\ queue' = Append(queue, r)
    BY AskShape
<1>3. UNCHANGED <<told, conns, active, wpc, job, next, closes>>
    BY AskShape
<1>4. r \notin Queued \cup conns /\ \A v \in Workers : next[v] # None => next[v] # r
    BY <1>1, <1>2 DEF Locations, ConnectionsExist, RedirectsHeld, HTTP_NOTIFY
<1>5. queue' \in Seq(Requests) /\ Queued' = Queued \cup {r} /\ QueuedOnce'
    BY <1>1, <1>2, <1>4, AppendQueued, AppendOnce
<1>6. info' \in [Requests -> InfoType] /\ info'[r] = i
      /\ \A q \in Requests : q # r => info'[q] = info[q]
    BY <1>1, <1>2 DEF TypeOK
<1>7. TypeOK'
    BY <1>1, <1>3, <1>5, <1>6 DEF TypeOK
<1>8. conns \subseteq Requests /\ \A v \in Workers : next[v] # None => next[v] \in Requests
    BY <1>1 DEF TypeOK
<1>9. Locations'
    BY <1>1, <1>2, <1>3, <1>4, <1>5, <1>6, <1>8 DEF Locations, IdleWorkers
<1>10. RedirectsHeld'
    BY <1>1, <1>3, <1>4, <1>5, <1>6, <1>8 DEF RedirectsHeld
<1>11. ConnectionsExist' /\ Busy' = Busy
    BY <1>1, <1>3, <1>4, <1>6, <1>8 DEF ConnectionsExist, Busy
<1> QED
    BY <1>1, <1>3, <1>5, <1>7, <1>9, <1>10, <1>11, PartsKept

\* An abort ends requests in the connection list and deletes those in the queue.
LEMMA CloseRequestsKeeps ==
    ASSUME EngineInv, NEW hit, CloseRequests(hit)
    PROVE  EngineInv'
<1>1. TypeOK /\ QueuedOnce /\ Locations /\ active = Cardinality(Busy) /\ RedirectsHeld
      /\ ConnectionsExist
    BY PartsOfTheInvariant
<1>2. /\ closes < MaxCloses /\ closes' = closes + 1 /\ queue' = Without(queue, hit)
      /\ UNCHANGED <<conns, active, wpc, job, next>>
    BY DEF CloseRequests, workers
<1>3. \A r \in Requests : /\ Destroy(Aborted(info[r])) \in InfoType
                          /\ Destroy(Aborted(info[r])).state = "end"
                          /\ [Destroy(Aborted(info[r])) EXCEPT !.state = "deleted"] \in InfoType
                          /\ CloseTold(r, Aborted(info[r])) \in Seq(Errors)
    <2> SUFFICES ASSUME NEW r \in Requests
                 PROVE  /\ Destroy(Aborted(info[r])) \in InfoType
                        /\ Destroy(Aborted(info[r])).state = "end"
                        /\ [Destroy(Aborted(info[r])) EXCEPT !.state = "deleted"] \in InfoType
                        /\ CloseTold(r, Aborted(info[r])) \in Seq(Errors)
        OBVIOUS
    <2>1. info[r] \in InfoType
        BY <1>1 DEF TypeOK
    <2>2. Aborted(info[r]) \in InfoType /\ Aborted(info[r]).state = "end"
        BY <2>1, AbortedType
    <2>3. Destroy(Aborted(info[r])) \in InfoType /\ Destroy(Aborted(info[r])).state = "end"
        BY <2>2, DestroyType
    <2>4. [Destroy(Aborted(info[r])) EXCEPT !.state = "deleted"] \in InfoType
        BY <2>3 DEF InfoType, States
    <2> QED
        BY <1>1, <2>2, <2>3, <2>4, CloseToldType
<1>4. info' = [r \in Requests |->
           IF r \in hit \cap conns THEN Destroy(Aborted(info[r]))
           ELSE IF r \in hit \cap Queued
                THEN [Destroy(Aborted(info[r])) EXCEPT !.state = "deleted"]
                ELSE info[r]]
    BY DEF CloseRequests
<1>5. /\ info' \in [Requests -> InfoType]
      /\ \A r \in conns : info'[r].state \in {info[r].state, "end"}
      /\ \A r \in Requests : r \notin hit \/ r \notin Queued \cup conns => info'[r] = info[r]
    BY <1>1, <1>3, <1>4 DEF TypeOK, Locations
<1>6. told' \in [Requests -> Seq(Errors)]
    <2>1. told' = [r \in Requests |->
               IF r \in hit \cap (conns \cup Queued) THEN CloseTold(r, Aborted(info[r])) ELSE told[r]]
        BY DEF CloseRequests
    <2> QED
        BY <1>1, <1>3, <2>1 DEF TypeOK
<1>7. queue' \in Seq(Requests) /\ Queued' = Queued \ hit /\ QueuedOnce'
    BY <1>1, <1>2, WithoutQueued, WithoutOnce
<1>8. closes' \in 0 .. MaxCloses
    BY <1>1, <1>2, RequestsAssumption DEF TypeOK
<1>9. TypeOK'
    BY <1>1, <1>2, <1>5, <1>6, <1>7, <1>8 DEF TypeOK
<1>10. conns \subseteq Requests /\ \A v \in Workers : next[v] # None => next[v] \in Requests
    BY <1>1 DEF TypeOK
<1>11. Locations'
    <2>1. \A r \in Queued' : info'[r] = info[r]
        BY <1>1, <1>5, <1>7 DEF Locations
    <2>2. Queued' \subseteq Requests /\ Queued' \cap conns' = {}
          /\ \A r \in Queued' : info'[r].state \in {"begin", HTTP_NOTIFY}
        BY <1>1, <1>2, <1>7, <2>1 DEF Locations
    <2>3. \A v \in Workers : wpc'[v] # "next" =>
              job'[v] \in conns' /\ info'[job'[v]].state \notin {"none", HTTP_NOTIFY, "deleted"}
        <3> SUFFICES ASSUME NEW v \in Workers, wpc[v] # "next"
                     PROVE  job[v] \in conns
                            /\ info'[job[v]].state \notin {"none", HTTP_NOTIFY, "deleted"}
            BY <1>2
        <3> QED
            BY <1>1, <1>5 DEF Locations, HTTP_NOTIFY
    <2>4. \A v, w \in Workers : v # w /\ wpc'[v] # "next" => job'[v] # job'[w]
        BY <1>1, <1>2 DEF Locations
    <2>5. IdleWorkers'
        BY <1>1, <1>2 DEF Locations, IdleWorkers
    <2> QED
        BY <2>2, <2>3, <2>4, <2>5 DEF Locations
<1>12. RedirectsHeld'
    BY <1>1, <1>2, <1>5, <1>7, <1>10 DEF RedirectsHeld
<1>13. ConnectionsExist' /\ Busy' = Busy
    BY <1>1, <1>2, <1>5, <1>10 DEF ConnectionsExist, Busy
<1> QED
    BY <1>1, <1>2, <1>7, <1>9, <1>11, <1>12, <1>13, PartsKept

-----------------------------------------------------------------------------
(* GetNextRequest. *)

\* The scan takes nothing or one request, which it can download.
LEMMA PickIsOne ==
    ASSUME TypeOK, NEW n \in 1 .. Len(queue) + 1, StopsAt(n)
    PROVE  \/ PickAt(n) = {}
           \/ \E p \in Queued : PickAt(n) = {p} /\ ~IsNotify(p) /\ ~IsDuplicate(p)
<1>0. queue \in Seq(Requests) /\ Len(queue) \in Nat
    BY DEF TypeOK
<1>1. CASE n <= Len(queue)
    <2>1. PickAt(n) = {queue[n]} /\ IsTakable(queue[n])
        BY <1>1 DEF PickAt, StopsAt
    <2> QED
        BY <1>0, <1>1, <2>1 DEF Queued, IsTakable
<1>2. CASE ~(n <= Len(queue))
    <2> DEFINE last == {j \in PassedOver(n) : \A k \in PassedOver(n) : k <= j}
    <2>1. PickAt(n) = {queue[i] : i \in last}
        BY <1>2 DEF PickAt
    <2>2. n = Len(queue) + 1
        BY <1>0, <1>2
    <2>3. \A i \in PassedOver(n) : i \in 1 .. Len(queue) /\ ~IsNotify(queue[i]) /\ ~IsDuplicate(queue[i])
        BY <1>0, <2>2 DEF PassedOver
    <2>4. \A i, j \in last : i = j
        <3> SUFFICES ASSUME NEW i \in last, NEW j \in last PROVE i = j
            OBVIOUS
        <3>1. i <= j /\ j <= i /\ i \in Int /\ j \in Int
            BY <2>3
        <3> QED
            BY <3>1
    <2>5. CASE last = {}
        BY <2>1, <2>5
    <2>6. CASE last # {}
        <3>1. PICK i \in last : TRUE
            BY <2>6
        <3>2. last = {i}
            BY <2>4, <3>1
        <3>3. PickAt(n) = {queue[i]}
            <4> HIDE DEF last
            <4> QED
                BY <2>1, <3>2
        <3>4. i \in 1 .. Len(queue) /\ ~IsNotify(queue[i]) /\ ~IsDuplicate(queue[i])
            BY <2>3, <3>1
        <3> QED
            BY <3>3, <3>4 DEF Queued
    <2> QED
        BY <2>5, <2>6
<1> QED
    BY <1>1, <1>2

\* What the scan that stops at n serves, parks and takes.
Notified(n) == {r \in {queue[i] : i \in 1 .. n - 1} : IsNotify(r)}
Parked(n) == {r \in {queue[i] : i \in 1 .. n - 1} : IsDuplicate(r)}
Moved(n) == Notified(n) \cup Parked(n) \cup PickAt(n)

ScanTo(w, n) ==
    /\ StopsAt(n)
    /\ queue' = Without(queue, Moved(n))
    /\ conns' = conns \cup Parked(n) \cup PickAt(n)
    /\ active' = active + Cardinality(PickAt(n))
    /\ info' = [r \in Requests |->
           IF r \in Notified(n) THEN [Destroy(info[r]) EXCEPT !.state = "deleted"]
           ELSE IF r \in Parked(n) THEN SetState(info[r], HTTP_WAIT)
           ELSE info[r]]
    /\ told' = [r \in Requests |->
           IF r \in Notified(n) \ Prefetch THEN Append(told[r], info[r].err) ELSE told[r]]
    /\ IF PickAt(n) = {} THEN UNCHANGED <<wpc, job>>
       ELSE /\ wpc' = [wpc EXCEPT ![w] = "connect"]
            /\ job' = [job EXCEPT ![w] = CHOOSE r \in PickAt(n) : TRUE]

LEMMA GetNextIsScan ==
    ASSUME NEW w, GetNextRequest(w)
    PROVE  /\ wpc[w] = "next" /\ UNCHANGED <<next, closes>>
           /\ \E n \in 1 .. Len(queue) + 1 : ScanTo(w, n)
    BY DEF GetNextRequest, ScanTo, Notified, Parked, Moved

\* What is served, parked or taken was in the queue, each in one way, and the
\* other requests stay as they are.
LEMMA ScanShape ==
    ASSUME EngineInv, NEW w \in Workers, wpc[w] = "next",
           NEW n \in 1 .. Len(queue) + 1, ScanTo(w, n)
    PROVE  LET notified == Notified(n)
               parked == Parked(n)
               pick == PickAt(n)
           IN  /\ notified \subseteq Queued /\ parked \subseteq Queued /\ pick \subseteq Queued
               /\ notified \cap parked = {}
               /\ pick \cap notified = {} /\ pick \cap parked = {}
               /\ \A p \in pick : info[p].state = "begin" /\ ~IsDuplicate(p) /\ ~IsNotify(p)
               /\ info' \in [Requests -> InfoType]
               /\ \A r \in Requests \ (notified \cup parked) : info'[r] = info[r]
               /\ \A r \in notified : info'[r].state = "deleted" /\ info'[r].stream = "destroyed"
                                      /\ info'[r].user = info[r].user
               /\ \A r \in parked : info'[r].state = HTTP_WAIT /\ info'[r].user = info[r].user
                                    /\ info'[r].stream = info[r].stream
               /\ wpc' \in [Workers -> Steps] /\ job' \in [Workers -> Requests \cup {None}]
               /\ \A v \in Workers : v # w => wpc'[v] = wpc[v] /\ job'[v] = job[v]
               /\ pick # {} => wpc'[w] = "connect" /\ pick = {job'[w]}
               /\ pick = {} => wpc' = wpc /\ job' = job
<1> DEFINE before == {queue[i] : i \in 1 .. n - 1}
           notified == Notified(n)
           parked == Parked(n)
           pick == PickAt(n)
<1>1. TypeOK /\ Locations
    BY PartsOfTheInvariant
<1>4. before \subseteq Queued
    BY <1>1 DEF TypeOK, Queued
<1>5. /\ notified \subseteq Queued /\ parked \subseteq Queued
      /\ \A r \in notified : info[r].state = HTTP_NOTIFY
      /\ \A r \in parked : info[r].state # HTTP_NOTIFY
    BY <1>4 DEF IsNotify, IsDuplicate, Notified, Parked
<1>6. \/ pick = {}
      \/ \E p \in Queued : pick = {p} /\ ~IsNotify(p) /\ ~IsDuplicate(p)
    BY <1>1, PickIsOne DEF ScanTo
<1>7. pick \subseteq Queued /\ pick \cap notified = {} /\ pick \cap parked = {}
      /\ \A p \in pick : info[p].state = "begin" /\ ~IsDuplicate(p) /\ ~IsNotify(p)
    BY <1>1, <1>6 DEF Locations, IsNotify, Notified, Parked
<1>8. /\ info' = [r \in Requests |->
                 IF r \in notified THEN [Destroy(info[r]) EXCEPT !.state = "deleted"]
                 ELSE IF r \in parked THEN SetState(info[r], HTTP_WAIT)
                 ELSE info[r]]
      /\ IF pick = {} THEN UNCHANGED <<wpc, job>>
         ELSE /\ wpc' = [wpc EXCEPT ![w] = "connect"]
              /\ job' = [job EXCEPT ![w] = CHOOSE r \in pick : TRUE]
    BY DEF ScanTo
<1> HIDE DEF notified, parked, pick, before
<1>9. /\ info' \in [Requests -> InfoType]
      /\ \A r \in Requests \ (notified \cup parked) : info'[r] = info[r]
      /\ \A r \in notified : info'[r].state = "deleted" /\ info'[r].stream = "destroyed"
                             /\ info'[r].user = info[r].user
      /\ \A r \in parked : info'[r].state = HTTP_WAIT /\ info'[r].user = info[r].user
                           /\ info'[r].stream = info[r].stream
    <2> DEFINE gone(r) == [Destroy(info[r]) EXCEPT !.state = "deleted"]
               waits(r) == SetState(info[r], HTTP_WAIT)
    <2>1. \A r \in Requests :
              /\ gone(r) \in InfoType /\ gone(r).state = "deleted" /\ gone(r).stream = "destroyed"
              /\ gone(r).user = info[r].user
              /\ waits(r) \in InfoType /\ waits(r).state = HTTP_WAIT
              /\ waits(r).user = info[r].user /\ waits(r).stream = info[r].stream
        <3> SUFFICES ASSUME NEW r \in Requests
                     PROVE  /\ gone(r) \in InfoType /\ gone(r).state = "deleted"
                            /\ gone(r).stream = "destroyed" /\ gone(r).user = info[r].user
                            /\ waits(r) \in InfoType /\ waits(r).state = HTTP_WAIT
                            /\ waits(r).user = info[r].user /\ waits(r).stream = info[r].stream
            OBVIOUS
        <3>1. info[r] \in InfoType
            BY <1>1 DEF TypeOK
        <3>2. Destroy(info[r]) \in InfoType /\ Destroy(info[r]).stream = "destroyed"
              /\ Destroy(info[r]).user = info[r].user
            BY <3>1, DestroyType DEF Destroy, InfoType
        <3>3. gone(r) \in InfoType /\ gone(r).state = "deleted" /\ gone(r).stream = "destroyed"
              /\ gone(r).user = info[r].user
            BY <3>2 DEF InfoType, States
        <3>4. HTTP_WAIT \in States
            BY DEF HTTP_WAIT, States
        <3>5. waits(r) \in InfoType /\ waits(r).state = HTTP_WAIT
              /\ waits(r).user = info[r].user /\ waits(r).stream = info[r].stream
            BY <3>1, <3>4, SetStateType
        <3> QED
            BY <3>3, <3>5
    <2>2. \A r \in parked : r \notin notified /\ r \in Requests
        BY <1>1, <1>5 DEF Locations
    <2>3. \A r \in notified : r \in Requests
        BY <1>1, <1>5 DEF Locations
    <2> HIDE DEF gone, waits
    <2>4. info' = [r \in Requests |-> IF r \in notified THEN gone(r)
                                      ELSE IF r \in parked THEN waits(r) ELSE info[r]]
        BY <1>8 DEF gone, waits
    <2> QED
        BY <1>1, <2>1, <2>2, <2>3, <2>4 DEF TypeOK
<1>13. /\ wpc' \in [Workers -> Steps] /\ job' \in [Workers -> Requests \cup {None}]
       /\ \A v \in Workers : v # w => wpc'[v] = wpc[v] /\ job'[v] = job[v]
       /\ pick # {} => wpc'[w] = "connect" /\ pick = {job'[w]}
       /\ pick = {} => wpc' = wpc /\ job' = job
    <2>1. wpc \in [Workers -> Steps] /\ job \in [Workers -> Requests \cup {None}]
        BY <1>1 DEF TypeOK, Steps
    <2>2. CASE pick = {}
        BY <1>8, <2>1, <2>2
    <2>3. CASE pick # {}
        <3>1. PICK p \in Queued : pick = {p}
            BY <1>6, <2>3
        <3>2. (CHOOSE r \in pick : TRUE) = p /\ p \in Requests
            BY <1>1, <3>1 DEF Locations
        <3>3. wpc' = [wpc EXCEPT ![w] = "connect"] /\ job' = [job EXCEPT ![w] = p]
            BY <1>8, <2>3, <3>2
        <3> QED
            BY <2>1, <2>3, <3>1, <3>2, <3>3 DEF Steps
    <2> QED
        BY <2>2, <2>3
<1> QED
    BY <1>5, <1>7, <1>9, <1>13 DEF notified, parked, pick

\* The scan moves requests from the queue to the connection list, or deletes them.
LEMMA GetNextRequestKeeps ==
    ASSUME EngineInv, NEW w \in Workers, GetNextRequest(w)
    PROVE  EngineInv'
<1>1. TypeOK /\ QueuedOnce /\ Locations /\ active = Cardinality(Busy) /\ RedirectsHeld
      /\ ConnectionsExist
    BY PartsOfTheInvariant
<1>2. PICK n \in 1 .. Len(queue) + 1 : ScanTo(w, n)
    BY GetNextIsScan
<1>3. wpc[w] = "next" /\ UNCHANGED <<next, closes>>
    BY GetNextIsScan
<1> DEFINE notified == Notified(n)
           parked == Parked(n)
           pick == PickAt(n)
           moved == Moved(n)
<1>4. moved = notified \cup parked \cup pick
    BY DEF Moved
<1>5. /\ notified \subseteq Queued /\ parked \subseteq Queued
      /\ pick \subseteq Queued /\ pick \cap notified = {} /\ pick \cap parked = {}
      /\ \A p \in pick : info[p].state = "begin"
    BY <1>2, <1>3, ScanShape
<1>8. /\ queue' = Without(queue, moved)
      /\ conns' = conns \cup parked \cup pick
      /\ active' = active + Cardinality(pick)
      /\ told' = [r \in Requests |->
                 IF r \in notified \ Prefetch THEN Append(told[r], info[r].err)
                 ELSE told[r]]
    BY <1>2 DEF ScanTo
<1>9. /\ info' \in [Requests -> InfoType]
      /\ \A r \in Requests \ (notified \cup parked) : info'[r] = info[r]
      /\ \A r \in parked : info'[r].state = HTTP_WAIT
    BY <1>2, <1>3, ScanShape
<1>13. /\ wpc' \in [Workers -> Steps] /\ job' \in [Workers -> Requests \cup {None}]
       /\ \A v \in Workers : v # w => wpc'[v] = wpc[v] /\ job'[v] = job[v]
       /\ pick # {} => wpc'[w] = "connect" /\ pick = {job'[w]}
       /\ pick = {} => wpc' = wpc /\ job' = job
    BY <1>2, <1>3, ScanShape
<1> HIDE DEF notified, parked, pick, moved
<1>10. told' \in [Requests -> Seq(Errors)]
    <2>1. \A r \in Requests : Append(told[r], info[r].err) \in Seq(Errors)
        BY <1>1, CloseToldType DEF TypeOK
    <2> QED
        BY <1>1, <1>8, <2>1 DEF TypeOK
<1>11. queue' \in Seq(Requests) /\ Queued' = Queued \ moved /\ QueuedOnce'
    BY <1>1, <1>8, WithoutQueued, WithoutOnce
<1>12. Queued \subseteq Requests /\ Queued \cap conns = {} /\ conns \subseteq Requests
    BY <1>1 DEF Locations, TypeOK
<1>14. active' = Cardinality(Busy') /\ active' \in Nat
    <2>1. IsFiniteSet(Busy) /\ active \in Nat
        <3>1. Busy \in SUBSET Workers
            BY DEF Busy
        <3> QED
            BY <1>1, <3>1, FS_Subset, RequestsAssumption DEF TypeOK
    <2>2. CASE pick = {}
        <3>1. Busy' = Busy /\ Cardinality(pick) = 0
            BY <1>13, <2>2, FS_EmptySet DEF Busy
        <3> QED
            BY <1>1, <1>8, <2>1, <3>1
    <2>3. CASE pick # {}
        <3>1. Busy' = Busy \cup {w} /\ w \notin Busy
            BY <1>3, <1>13, <2>3 DEF Busy
        <3>2. Cardinality(pick) = 1
            BY <1>13, <2>3, FS_Singleton
        <3> QED
            <4>1. Cardinality(Busy \cup {w}) = Cardinality(Busy) + 1
                BY <2>1, <3>1, FS_AddElement
            <4> QED
                BY <1>1, <1>8, <2>1, <3>1, <3>2, <4>1
    <2> QED
        BY <2>2, <2>3
<1>15. TypeOK'
    BY <1>1, <1>3, <1>5, <1>8, <1>9, <1>10, <1>11, <1>12, <1>13, <1>14 DEF TypeOK, Steps
<1>16. Locations'
    <2>1. \A r \in Queued' : info'[r] = info[r] /\ r \in Queued
        BY <1>4, <1>9, <1>11, <1>12
    <2>2. Queued' \subseteq Requests /\ Queued' \cap conns' = {}
          /\ \A r \in Queued' : info'[r].state \in {"begin", HTTP_NOTIFY}
        BY <1>1, <1>4, <1>8, <1>11, <1>12, <2>1 DEF Locations
    <2>3. ASSUME NEW v \in Workers, wpc'[v] # "next"
          PROVE  \/ v = w /\ job'[v] \in pick
                 \/ wpc[v] # "next" /\ job'[v] = job[v] /\ job[v] \in conns
        BY <1>1, <1>3, <1>13, <2>3 DEF Locations
    <2>4. \A v \in Workers : wpc'[v] # "next" =>
              job'[v] \in conns' /\ info'[job'[v]].state \notin {"none", HTTP_NOTIFY, "deleted"}
        <3> SUFFICES ASSUME NEW v \in Workers, wpc'[v] # "next"
                     PROVE  job'[v] \in conns'
                            /\ info'[job'[v]].state \notin {"none", HTTP_NOTIFY, "deleted"}
            OBVIOUS
        <3>1. CASE v = w /\ job'[v] \in pick
            BY <1>5, <1>8, <1>9, <1>12, <3>1 DEF HTTP_NOTIFY
        <3>2. CASE wpc[v] # "next" /\ job'[v] = job[v] /\ job[v] \in conns
            <4>1. info'[job[v]] = info[job[v]]
                BY <1>5, <1>9, <1>12, <3>2
            <4> QED
                BY <1>1, <1>8, <3>2, <4>1 DEF Locations
        <3> QED
            BY <2>3, <3>1, <3>2
    <2>5. \A v, x \in Workers : v # x /\ wpc'[v] # "next" => job'[v] # job'[x]
        <3> SUFFICES ASSUME NEW v \in Workers, NEW x \in Workers, v # x, wpc'[v] # "next",
                            wpc'[x] # "next" \/ wpc'[x] = "next"
                     PROVE  job'[v] # job'[x]
            OBVIOUS
        <3>1. CASE v = w
            <4>1. job'[v] \in Queued /\ job'[x] = job[x]
                BY <1>3, <1>5, <1>13, <3>1
            <4>2. job[x] \notin Queued
                BY <1>1, <1>12, RequestsAssumption DEF Locations, IdleWorkers
            <4> QED
                BY <4>1, <4>2
        <3>2. CASE v # w
            BY <1>1, <1>5, <1>12, <1>13, <2>3, <3>2 DEF Locations
        <3> QED
            BY <3>1, <3>2
    <2>6. IdleWorkers'
        BY <1>1, <1>13 DEF Locations, IdleWorkers
    <2> QED
        BY <2>2, <2>4, <2>5, <2>6 DEF Locations, IdleWorkers
<1>17. RedirectsHeld'
    <2>1. \A v \in Workers : next[v] # None => next[v] \in Requests /\ next[v] \notin Queued \cup conns
        BY <1>1 DEF RedirectsHeld, TypeOK
    <2>2. \A v \in Workers : next[v] # None =>
              info'[next[v]] = info[next[v]] /\ next[v] \notin Queued' \cup conns'
        BY <1>5, <1>8, <1>9, <1>11, <2>1
    <2>3. \A v \in Workers : (wpc'[v] = "requeue") = (wpc[v] = "requeue")
        BY <1>3, <1>13
    <2> QED
        BY <1>1, <1>3, <2>2, <2>3 DEF RedirectsHeld
<1>18. ConnectionsExist'
    <2> SUFFICES ASSUME NEW r \in conns' PROVE info'[r].state \notin {"none", "deleted"}
        BY DEF ConnectionsExist
    <2>1. CASE r \in conns
        BY <1>1, <1>5, <1>9, <1>12, <2>1 DEF ConnectionsExist
    <2>2. CASE r \in parked
        BY <1>9, <2>2 DEF HTTP_WAIT, HTTP_NOTIFY
    <2>3. CASE r \in pick
        BY <1>5, <1>9, <1>12, <2>3
    <2> QED
        BY <1>8, <2>1, <2>2, <2>3
<1> QED
    BY <1>11, <1>14, <1>15, <1>16, <1>17, <1>18, PartsKept

-----------------------------------------------------------------------------
(* The specification. *)

LEMMA InitHolds ==
    ASSUME Init
    PROVE  EngineInv
<1>1. (CHOOSE o \in Owners : TRUE) \in Owners
    BY RequestsAssumption
<1>2. \A r \in Requests : info[r] \in InfoType /\ info[r].state = "none"
    BY <1>1 DEF Init, InfoType, States, Errors
<1>3. Cardinality({w \in Workers : wpc[w] # "next"}) = 0
    <2>1. {w \in Workers : wpc[w] # "next"} = {}
        BY DEF Init
    <2> QED
        BY <2>1, FS_EmptySet
<1>4. queue \in Seq(Requests) /\ \A r \in Requests : told[r] \in Seq(Errors)
    BY DEF Init
<1>5. TypeOK
    BY <1>2, <1>4, RequestsAssumption DEF Init, TypeOK
<1>6. Queued = {}
    BY DEF Init, Queued
<1> QED
    BY <1>3, <1>5, <1>6
    DEF Init, EngineInv, ListsApart, IdleWorkers, RedirectsHeld, ConnectionsExist

\* The steps of a download, grouped by what they do.
LEMMA DownloadCases ==
    ASSUME NEW w \in Workers, Download(w)
    PROVE  \/ Connected(w) \/ InputEnds(w) \/ StatusLine(w) \/ DataArrives(w) \/ AfterInput(w)
           \/ Advances(w) \/ StreamData(w) \/ Closes(w)
           \/ ConnectMirror(w) \/ StatusMoved(w) \/ Requeue(w)
           \/ ProcessWaitRequest(w) \/ EndProcess(w)
    BY DEF Download, Advances, Closes

LEMMA NextKeeps ==
    ASSUME EngineInv, [Next]_vars
    PROVE  EngineInv'
<1>1. CASE GetURL \/ PostURL
    BY <1>1, AskKeeps
<1>2. CASE CloseConnections \/ CloseAllConnections
    BY <1>2, CloseRequestsKeeps DEF CloseConnections, CloseAllConnections
<1>3. ASSUME NEW w \in Workers, GetNextRequest(w) PROVE EngineInv'
    BY <1>3, GetNextRequestKeeps
<1>4. ASSUME NEW w \in Workers, Download(w) PROVE EngineInv'
    BY <1>4, DownloadCases, PlainActions, AdvanceKeeps, StreamDataKeeps, CloseKeeps,
       ConnectMirrorKeeps,
       StatusMovedKeeps, RequeueKeeps, ProcessWaitRequestKeeps, EndProcessKeeps
<1>5. CASE UNCHANGED vars
    BY <1>5 DEF vars, lists, workers, EngineInv, TypeOK, ListsApart, IdleWorkers, RedirectsHeld,
                ConnectionsExist, Queued
<1> QED
    BY <1>1, <1>2, <1>3, <1>4, <1>5 DEF Next

\* The lists of the engine are consistent in every reachable state: data of the
\* right types, no request in two places, no request of a redirect in any list
\* before it is queued (GetNextRequest, StartDownload, CloseConnections).
THEOREM EngineInvariant == Spec => []EngineInv
<1>1. Init => EngineInv
    BY InitHolds
<1>2. EngineInv /\ [Next]_vars => EngineInv'
    BY NextKeeps
<1> QED
    BY <1>1, <1>2, PTL DEF Spec

\* The queue, the downloads and the waiting requests never share one, nobody
\* deletes a request that is being downloaded, and m_iActiveConn is the number
\* of downloads (RemoveFromConnList, AddToConnList).
THEOREM ListsStayApart == Spec => []ListsApart
<1>1. EngineInv => ListsApart
    BY DEF EngineInv
<1> QED
    BY <1>1, EngineInvariant, PTL

-----------------------------------------------------------------------------
(* One download per document. *)

\* Downloads that go on keep their URLs, when there are no mirrors.
LEMMA DownloadsKeepURLs ==
    ASSUME EngineInv, Mirrored = {}, NEW w \in Workers, Download(w),
           NEW v \in Workers, wpc'[v] # "next"
    PROVE  wpc[v] # "next" /\ job'[v] = job[v] /\ info'[job[v]].url = info[job[v]].url
<1>1. TypeOK
    BY PartsOfTheInvariant
<1>2. ASSUME NEW b \in Steps, Goes(w, wpc[w], b), wpc[w] # "next" PROVE wpc[v] # "next" /\ job' = job
    BY <1>1, <1>2 DEF Goes, TypeOK
<1>3. ASSUME wpc[v] # "next", job' = job, NEW i \in InfoType, i.url = info[job[w]].url,
             info' = [info EXCEPT ![job[w]] = i]
      PROVE  info'[job[v]].url = info[job[v]].url
    BY <1>1, <1>3, JobExists DEF TypeOK
<1>4. CASE Connected(w) \/ InputEnds(w) \/ StatusLine(w) \/ DataArrives(w) \/ AfterInput(w)
    <2>1. info' = info /\ job' = job
        BY <1>4 DEF Connected, InputEnds, StatusLine, DataArrives, AfterInput, Goes
    <2>2. wpc[v] # "next"
        BY <1>1, <1>4 DEF Connected, InputEnds, StatusLine, DataArrives, AfterInput, Goes, TypeOK
    <2> QED
        BY <2>1, <2>2
<1>5. CASE Advances(w)
    BY <1>2, <1>3, <1>5, AdvanceShape DEF GoesOnAs
<1>6. CASE Closes(w)
    <2>1. wpc[v] # "next" /\ job' = job
        BY <1>2, <1>6, CloseShape
    <2>2. CASE \E i \in InfoType : /\ GoesOnAs(job[w], i) /\ CloseStream(job[w], i)
                                   /\ i.state = "retry" => info[job[w]].state = "retry"
        BY <1>3, <2>1, <2>2, DestroyType DEF GoesOnAs, CloseStream
    <2>3. CASE StreamURL(job[w])
        <3>1. info[job[w]] \in InfoType
            BY <1>6, CloseShape, JobExists
        <3> QED
            BY <1>3, <2>1, <2>3, <3>1, DestroyType DEF StreamURL
    <2>4. CASE UNCHANGED <<info, told>>
        BY <2>1, <2>4
    <2> QED
        BY <1>6, <2>2, <2>3, <2>4, CloseShape
<1>7. CASE ConnectMirror(w)
    BY <1>7 DEF ConnectMirror
<1>8. CASE Requeue(w)
    BY <1>1, <1>8 DEF Requeue, TypeOK
<1>9. CASE StatusMoved(w)
    <2> DEFINE r == job[w]
               failed == [SetState(info[r], "retry") EXCEPT !.err = "error"]
    <2>1. wpc[w] = "status" /\ job' = job
        BY <1>9 DEF StatusMoved
    <2>2. PICK d \in Redirects : info[d].state = "none" /\ \E u \in Documents[d] :
            /\ info' = [UpdateWaitRequest(r, u) EXCEPT
                           ![r] = failed,
                           ![d] = IF u = BadURL THEN @
                                  ELSE NewInfo(u, info[r].owner, info[r].user)]
            /\ wpc' = [wpc EXCEPT ![w] = IF u = BadURL THEN "input" ELSE "requeue"]
        BY <1>9 DEF StatusMoved
    <2>3. PICK u \in Documents[d] :
            /\ info' = [UpdateWaitRequest(r, u) EXCEPT
                           ![r] = failed,
                           ![d] = IF u = BadURL THEN @
                                  ELSE NewInfo(u, info[r].owner, info[r].user)]
            /\ wpc' = [wpc EXCEPT ![w] = IF u = BadURL THEN "input" ELSE "requeue"]
        BY <2>2
    <2>4. wpc[v] # "next"
        BY <1>1, <2>1, <2>3 DEF TypeOK
    <2>5. job[v] \in Requests /\ job[v] # d /\ job[v] \notin WaitersOf(r)
        BY <2>1, <2>2, <2>4, JobExists, WaitersWait
    <2>6. u \in URLs \cup {BadURL} /\ r \in Requests /\ d \in Requests
        BY <2>1, JobExists, RequestsAssumption
    <2>7. UpdateWaitRequest(r, u) \in [Requests -> InfoType]
          /\ UpdateWaitRequest(r, u)[job[v]] = info[job[v]]
        BY <2>1, <2>5, <2>6, UpdateType
    <2>8. failed.url = info[r].url
        BY <2>1, NextStates DEF States, Errors, HTTP_NOTIFY, GoesOnAs
    <2> HIDE DEF failed
    <2>9. info'[job[v]].url = info[job[v]].url
        BY <2>3, <2>5, <2>6, <2>7, <2>8
    <2> QED
        BY <2>1, <2>4, <2>9
<1>10. CASE ProcessWaitRequest(w)
    <2>1. wpc[w] = "waiters" /\ job' = job /\ wpc[v] # "next"
        BY <1>1, <1>10 DEF ProcessWaitRequest, Goes, TypeOK
    <2>2. job[v] \in Requests /\ job[v] \notin WaitersOf(job[w])
        BY <2>1, JobExists, WaitersWait
    <2> QED
        BY <1>10, <2>1, <2>2 DEF ProcessWaitRequest
<1>11. CASE EndProcess(w)
    <2>1. wpc[w] = "end" /\ v # w /\ wpc[v] # "next" /\ job'[v] = job[v]
        BY <1>1, <1>11 DEF EndProcess, TypeOK
    <2>2. job[v] # job[w] /\ job[v] \in Requests
        BY <2>1, JobExists, PartsOfTheInvariant DEF Locations
    <2> QED
        BY <1>1, <1>11, <2>1, <2>2 DEF EndProcess, TypeOK
<1>12. CASE StreamData(w)
    <2>1. wpc[v] # "next" /\ job' = job
        BY <1>1, <1>12, StreamDataShape DEF Goes, TypeOK
    <2> QED
        BY <1>3, <1>12, <2>1, StreamDataShape
<1> QED
    BY <1>4, <1>5, <1>6, <1>7, <1>8, <1>9, <1>10, <1>11, <1>12, DownloadCases

\* What is taken for a download is no duplicate of what is in the connection list.
LEMMA NextOneDownload ==
    ASSUME EngineInv, Mirrored = {}, OneDownloadPerURL, [Next]_vars
    PROVE  OneDownloadPerURL'
<1>0. TypeOK /\ Locations
    BY PartsOfTheInvariant
<1>1. ASSUME \A v \in Workers : wpc'[v] # "next" =>
                 wpc[v] # "next" /\ job'[v] = job[v] /\ info'[job[v]].url = info[job[v]].url
      PROVE  OneDownloadPerURL'
    BY <1>1 DEF OneDownloadPerURL
<1>2. CASE GetURL \/ PostURL
    <2>1. UNCHANGED <<wpc, job>> /\ \E r \in Requests : \E i : info[r].state = "none" /\ info' = [info EXCEPT ![r] = i]
        <3>1. CASE GetURL
            BY <3>1 DEF GetURL, workers
        <3>2. CASE PostURL
            BY <3>2, RequestsAssumption DEF PostURL, workers
        <3> QED
            BY <1>2, <3>1, <3>2
    <2>2. \A v \in Workers : wpc[v] # "next" => info'[job[v]] = info[job[v]]
        BY <1>0, <2>1, JobExists DEF TypeOK
    <2> QED
        BY <1>1, <2>1, <2>2
<1>3. ASSUME NEW hit, CloseRequests(hit) PROVE OneDownloadPerURL'
    <2>1. UNCHANGED <<wpc, job>>
        BY <1>3 DEF CloseRequests, workers
    <2>2. ASSUME NEW v \in Workers, wpc[v] # "next" PROVE info'[job[v]].url = info[job[v]].url
        <3>1. job[v] \in Requests /\ job[v] \in conns /\ info[job[v]] \in InfoType
            BY <2>2, JobExists
        <3>2. Destroy(Aborted(info[job[v]])).url = info[job[v]].url
            BY <3>1, AbortedType, DestroyType
        <3>3. info'[job[v]] \in {info[job[v]], Destroy(Aborted(info[job[v]]))}
            BY <1>0, <1>3, <3>1 DEF CloseRequests, Locations
        <3> QED
            BY <3>2, <3>3
    <2> QED
        BY <1>1, <2>1, <2>2
<1>4. ASSUME NEW w \in Workers, GetNextRequest(w) PROVE OneDownloadPerURL'
    <2>1. wpc[w] = "next" /\ \E n \in 1 .. Len(queue) + 1 : ScanTo(w, n)
        BY <1>4, GetNextIsScan
    <2>2. PICK n \in 1 .. Len(queue) + 1 : ScanTo(w, n)
        BY <2>1
    <2>3. /\ Notified(n) \subseteq Queued /\ Parked(n) \subseteq Queued
          /\ PickAt(n) \subseteq Queued
          /\ PickAt(n) \cap Notified(n) = {} /\ PickAt(n) \cap Parked(n) = {}
          /\ \A p \in PickAt(n) : ~IsDuplicate(p) /\ ~IsNotify(p)
          /\ \A r \in Requests \ (Notified(n) \cup Parked(n)) : info'[r] = info[r]
          /\ \A v \in Workers : v # w => wpc'[v] = wpc[v] /\ job'[v] = job[v]
          /\ PickAt(n) # {} => PickAt(n) = {job'[w]}
          /\ PickAt(n) = {} => wpc' = wpc /\ job' = job
        BY <2>1, <2>2, ScanShape
    <2>4. ASSUME NEW v \in Workers, wpc[v] # "next"
          PROVE  job[v] \in conns /\ wpc'[v] = wpc[v] /\ job'[v] = job[v]
                 /\ info'[job[v]] = info[job[v]]
        BY <1>0, <2>1, <2>3, <2>4, JobExists DEF Locations
    <2>5. CASE PickAt(n) = {}
        BY <1>1, <2>3, <2>4, <2>5
    <2>6. CASE PickAt(n) # {}
        <3>1. /\ job'[w] \in Queued /\ info'[job'[w]] = info[job'[w]]
              /\ \A c \in conns : info[c].url # info[job'[w]].url
            BY <1>0, <2>3, <2>6 DEF Locations, IsDuplicate
        <3>2. \A v \in Workers : v # w /\ wpc'[v] # "next" =>
                  info'[job'[v]].url # info'[job'[w]].url
            BY <2>3, <2>4, <3>1
        <3>3. \A v, x \in Workers : v # x /\ v # w /\ x # w /\ wpc'[v] # "next" /\ wpc'[x] # "next" =>
                  info'[job'[v]].url # info'[job'[x]].url
            BY <2>3, <2>4 DEF OneDownloadPerURL
        <3> QED
            BY <3>2, <3>3 DEF OneDownloadPerURL
    <2> QED
        BY <2>5, <2>6
<1>5. ASSUME NEW w \in Workers, Download(w) PROVE OneDownloadPerURL'
    BY <1>1, <1>5, DownloadsKeepURLs
<1>6. CASE UNCHANGED vars
    BY <1>1, <1>6 DEF vars, workers
<1> QED
    BY <1>2, <1>3, <1>4, <1>5, <1>6 DEF Next, CloseConnections, CloseAllConnections

\* No document is downloaded twice at a time (GetNextRequest), whatever becomes
\* of the requests in the connection list, as long as no mirror is tried: the
\* mirror of a host that cannot be reached changes the URL of a download without
\* a look at the others (ChHTTPConn::Connect).
THEOREM OneDownload == Mirrored = {} => (Spec => []OneDownloadPerURL)
<1> SUFFICES ASSUME Mirrored = {} PROVE Spec => []OneDownloadPerURL
    OBVIOUS
<1>1. Init => OneDownloadPerURL
    BY DEF Init, OneDownloadPerURL
<1>2. EngineInv /\ OneDownloadPerURL /\ [Next]_vars => OneDownloadPerURL'
    BY NextOneDownload
<1> QED
    BY <1>1, <1>2, EngineInvariant, PTL DEF Spec

-----------------------------------------------------------------------------
(* Prefetches give way. *)

\* A step of a download moves its own worker only.
LEMMA DownloadMovesOne ==
    ASSUME EngineInv, NEW w \in Workers, Download(w)
    PROVE  wpc[w] # "next" /\ \A v \in Workers \ {w} : wpc'[v] = wpc[v]
<1>1. TypeOK /\ wpc[w] # "next"
    BY DEF Download, EngineInv, IdleWorkers
<1>2. ASSUME NEW a, NEW b, Goes(w, a, b) PROVE \A v \in Workers \ {w} : wpc'[v] = wpc[v]
    BY <1>1, <1>2 DEF Goes, TypeOK
<1>3. CASE Connected(w) \/ InputEnds(w) \/ StatusLine(w) \/ DataArrives(w) \/ AfterInput(w)
    <2>1. \E a, b : Goes(w, a, b)
        BY <1>3 DEF Connected, InputEnds, StatusLine, DataArrives, AfterInput
    <2> QED
        BY <1>1, <1>2, <2>1
<1>4. CASE Advances(w) \/ StreamData(w) \/ Closes(w)
    BY <1>1, <1>2, <1>4, AdvanceShape, StreamDataShape, CloseShape
<1>5. CASE ConnectMirror(w) \/ ProcessWaitRequest(w)
    <2>1. \E a, b : Goes(w, a, b)
        BY <1>5 DEF ConnectMirror, ProcessWaitRequest
    <2> QED
        BY <1>1, <1>2, <2>1
<1>6. CASE StatusMoved(w) \/ Requeue(w) \/ EndProcess(w)
    <2>1. \E b : wpc' = [wpc EXCEPT ![w] = b]
        BY <1>6 DEF StatusMoved, Requeue, EndProcess
    <2> QED
        BY <1>1, <2>1 DEF TypeOK
<1> QED
    BY <1>1, <1>3, <1>4, <1>5, <1>6, DownloadCases

\* With more than half of the connections busy a worker takes a prefetch only
\* at the end of its scan, which found nothing else in the queue to download.
LEMMA ScanPrefersOthers ==
    ASSUME EngineInv, NEW w \in Workers, wpc[w] = "next",
           NEW n \in 1 .. Len(queue) + 1, ScanTo(w, n),
           PickAt(n) # {}, PickAt(n) \subseteq Prefetch, active > MaxConnections \div 2
    PROVE  Queued' \subseteq Prefetch
<1>1. TypeOK /\ Len(queue) \in Nat
    BY PartsOfTheInvariant DEF TypeOK
<1>2. n = Len(queue) + 1
    <2>1. CASE n <= Len(queue)
        <3>1. PickAt(n) = {queue[n]} /\ IsTakable(queue[n])
            BY <2>1 DEF PickAt, StopsAt, ScanTo
        <3> QED
            BY <3>1 DEF IsTakable, IsDeferred
    <2> QED
        BY <1>1, <2>1
<1>3. \A i \in 1 .. Len(queue) :
          queue[i] \in Notified(n) \/ queue[i] \in Parked(n) \/ queue[i] \in Prefetch
    BY <1>1, <1>2 DEF ScanTo, StopsAt, IsTakable, IsDeferred, Notified, Parked
<1>4. Queued' = Queued \ Moved(n)
    BY <1>1, WithoutQueued DEF ScanTo
<1> QED
    BY <1>3, <1>4 DEF Queued, Moved

\* A worker turns to a prefetch, while more than half of the connections are
\* busy, only if no request of the user's stays behind in the queue
\* (GetNextRequest).
THEOREM PrefetchesYield == Spec => PrefetchYields
<1> DEFINE Yields ==
        \A w \in Workers :
          wpc[w] = "next" /\ wpc'[w] = "connect" /\ job'[w] \in Prefetch
              /\ active > MaxConnections \div 2
          => Queued' \subseteq Prefetch
<1>1. EngineInv /\ [Next]_vars => Yields
    <2> SUFFICES ASSUME EngineInv, [Next]_vars, NEW w \in Workers,
                        wpc[w] = "next", wpc'[w] = "connect", job'[w] \in Prefetch,
                        active > MaxConnections \div 2
                 PROVE  Queued' \subseteq Prefetch
        OBVIOUS
    <2>1. wpc' # wpc
        OBVIOUS
    <2>2. \A v \in Workers : ~Download(v)
        BY DownloadMovesOne
    <2>3. ~UNCHANGED vars
        BY <2>1 DEF vars, workers
    <2>4. ~(GetURL \/ PostURL \/ CloseConnections \/ CloseAllConnections)
        BY <2>1 DEF GetURL, PostURL, CloseConnections, CloseAllConnections, CloseRequests, workers
    <2>5. PICK v \in Workers : GetNextRequest(v)
        BY <2>2, <2>3, <2>4 DEF Next
    <2>6. PICK n \in 1 .. Len(queue) + 1 : ScanTo(v, n)
        BY <2>5, GetNextIsScan
    <2>7. wpc[v] = "next"
        BY <2>5, GetNextIsScan
    <2>8. v = w /\ PickAt(n) = {job'[w]}
        BY <2>6, <2>7, ScanShape
    <2> QED
        BY <2>6, <2>7, <2>8, ScanPrefersOthers
<1>2. Spec => [][Yields]_vars
    BY <1>1, EngineInvariant, PTL DEF Spec
<1> QED
    BY <1>2 DEF PrefetchYields

-----------------------------------------------------------------------------
(* The refinement. *)

\* No redirects, and no 304: StreamURL tells what CloseStream may have told.
Plain == Redirects = {} /\ "unchanged" \notin Replies

-----------------------------------------------------------------------------
(* What a step that is no new request may do to a request. *)

\* It may be told while its stream is not destroyed; a stream may be taken for
\* one in use, of a request that has been told once at most.
SettlesOrKeeps(r) ==
    /\ info'[r].user = info[r].user
    /\ info[r].state \in {"none", "deleted"} => info'[r] = info[r] /\ told'[r] = told[r]
    /\ info[r].state # "none" => info'[r].state # "none"
    /\ \/ /\ told'[r] = told[r]
          /\ (info'[r].stream = "destroyed") = (info[r].stream = "destroyed")
          /\ info'[r].state = "deleted" => info[r].stream = "destroyed"
       \/ /\ told'[r] = told[r] /\ r \in Streamed /\ Len(told[r]) <= 1
          /\ info'[r].stream # "destroyed" /\ info'[r].state # "deleted"
       \/ /\ info[r].stream # "destroyed" /\ info'[r].stream = "destroyed"
          /\ \E e \in Errors : told'[r] = Append(told[r], e)
       \/ /\ info[r].stream # "destroyed" /\ info'[r].stream = "destroyed"
          /\ told'[r] = told[r] /\ r \in Prefetch /\ info'[r].state = "deleted"

\* What stays as it is settles nothing.
LEMMA SameKeeps ==
    ASSUME ToldOnce, NEW r \in Requests, info'[r] = info[r], told'[r] = told[r]
    PROVE  SettlesOrKeeps(r)
    BY DEF SettlesOrKeeps, ToldOnce

\* A request is told once, and a second time only if its data is streamed.
LEMMA OneAnswer ==
    ASSUME TypeOK, ToldOnce, NEW r \in Requests, SettlesOrKeeps(r)
    PROVE  /\ told[r] \in Seq(Errors) /\ told'[r] \in Seq(Errors)
           /\ told'[r] # told[r] =>
                  /\ told[r] = <<>> \/ (r \in Streamed /\ Len(told[r]) = 1)
                  /\ Len(told'[r]) = Len(told[r]) + 1
                  /\ info[r].stream # "destroyed" /\ info'[r].stream = "destroyed"
                  /\ info[r].state \notin {"none", "deleted"}
<1>1. told[r] \in Seq(Errors) /\ Len(told[r]) \in Nat
    BY DEF TypeOK
<1>2. CASE told'[r] = told[r]
    BY <1>1, <1>2
<1>3. CASE told'[r] # told[r]
    <2>1. PICK e \in Errors : told'[r] = Append(told[r], e)
        BY <1>3 DEF SettlesOrKeeps
    <2>2. /\ info[r].stream # "destroyed" /\ info'[r].stream = "destroyed"
          /\ info[r].state \notin {"none", "deleted"}
        BY <1>3 DEF SettlesOrKeeps
    <2>3. told'[r] \in Seq(Errors) /\ Len(told'[r]) = Len(told[r]) + 1
        BY <1>1, <2>1
    <2>4. Len(told[r]) <= 0 + (IF r \in Streamed THEN 1 ELSE 0)
        BY <2>2 DEF ToldOnce
    <2>5. told[r] = <<>> \/ (r \in Streamed /\ Len(told[r]) = 1)
        <3>0. Len(told[r]) = 0 <=> told[r] = <<>>
            BY <1>1
        <3>1. CASE r \in Streamed
            <4> DEFINE l == Len(told[r])
            <4>1. l \in Nat /\ l <= 1
                BY <1>1, <2>4, <3>1
            <4> HIDE DEF l
            <4>2. l = 0 \/ l = 1
                BY <4>1
            <4> QED
                BY <3>0, <3>1, <4>2 DEF l
        <3>2. CASE r \notin Streamed
            BY <1>1, <2>4, <3>2
        <3> QED
            BY <3>1, <3>2
    <2> QED
        BY <1>1, <2>2, <2>3, <2>5
<1> QED
    BY <1>2, <1>3

LEMMA ToldOnceKept ==
    ASSUME TypeOK, ToldOnce, \A r \in Requests : SettlesOrKeeps(r)
    PROVE  ToldOnce'
<1> SUFFICES ASSUME NEW r \in Requests
             PROVE  /\ info'[r].user = r
                    /\ Len(told'[r]) <= (IF info'[r].stream = "destroyed" THEN 1 ELSE 0)
                                         + (IF r \in Streamed THEN 1 ELSE 0)
                    /\ info'[r].stream = "destroyed" /\ told'[r] = <<>> =>
                           r \in Prefetch /\ info'[r].state = "deleted"
                    /\ info'[r].state = "deleted" => info'[r].stream = "destroyed"
    BY DEF ToldOnce
<1>0. SettlesOrKeeps(r) /\ told[r] \in Seq(Errors) /\ Len(told[r]) \in Nat
    BY DEF TypeOK
<1>1. Len(told'[r]) <= (IF info'[r].stream = "destroyed" THEN 1 ELSE 0)
                       + (IF r \in Streamed THEN 1 ELSE 0)
    <2>0. Len(told[r]) <= (IF info[r].stream = "destroyed" THEN 1 ELSE 0)
                          + (IF r \in Streamed THEN 1 ELSE 0)
        BY DEF ToldOnce
    <2>1. CASE told'[r] = told[r]
        BY <1>0, <2>0, <2>1 DEF SettlesOrKeeps
    <2>2. CASE told'[r] # told[r]
        <3>1. Len(told'[r]) = Len(told[r]) + 1
              /\ info[r].stream # "destroyed" /\ info'[r].stream = "destroyed"
            BY <1>0, <2>2, OneAnswer
        <3> QED
            BY <1>0, <2>0, <3>1
    <2> QED
        BY <2>1, <2>2
<1>2. info'[r].stream = "destroyed" /\ told'[r] = <<>> =>
          r \in Prefetch /\ info'[r].state = "deleted"
    <2>1. \A e \in Errors : Append(told[r], e) # <<>>
        BY <1>0
    <2> QED
        BY <1>0, <2>1 DEF SettlesOrKeeps, ToldOnce
<1> QED
    BY <1>0, <1>1, <1>2 DEF SettlesOrKeeps, ToldOnce

-----------------------------------------------------------------------------
(* Steps of the contract. *)

\* Nobody stands for a user's request but itself, and so it is answered as
\* often as its stream manager is told.
AnswersAreTold ==
    \A u \in Users : StandFor(u) = {u} /\ Answers(u) = Len(told[u])

LEMMA UsersStandForThemselves == EngineInv /\ ToldOnce /\ Plain => AnswersAreTold
<1> SUFFICES ASSUME EngineInv, ToldOnce, Plain PROVE AnswersAreTold
    OBVIOUS
<1>1. Users = Requests
    BY DEF Plain, Users
<1> SUFFICES ASSUME NEW u \in Requests
             PROVE  StandFor(u) = {u} /\ Answers(u) = Len(told[u])
    BY <1>1 DEF AnswersAreTold
<1>2. StandFor(u) = {u}
    BY DEF StandFor, ToldOnce
<1>3. IsFiniteSet(Requests) /\ Cardinality(Requests) \in Nat \ {0}
    BY RequestsAssumption, FS_CardinalityType, FS_EmptySet
<1> DEFINE N == 2 * Cardinality(Requests)
           L == Len(told[u])
           pairs == {a \in {u} \X (1 .. N) : a[2] <= Len(told[a[1]])}
<1>4. N \in Nat /\ 2 <= N
    BY <1>3
<1>5. L \in 0 .. 2
    <2>1. L \in Nat
        BY DEF EngineInv, TypeOK
    <2>2. L <= (IF info[u].stream = "destroyed" THEN 1 ELSE 0) + (IF u \in Streamed THEN 1 ELSE 0)
        BY DEF ToldOnce
    <2> HIDE DEF L
    <2> QED
        BY <2>1, <2>2
<1>6. Answers(u) = Cardinality(pairs)
    BY <1>2 DEF Answers
<1> HIDE DEF N
<1>7. pairs = {a \in {u} \X (1 .. N) : a[2] <= L}
    <2>1. \A a \in {u} \X (1 .. N) : told[a[1]] = told[u]
        OBVIOUS
    <2> QED
        BY <2>1
<1> HIDE DEF L, pairs
<1>8. \A n \in 1 .. N : <<u, n>> \in pairs <=> n <= L
    BY <1>7
<1>9. \A a \in pairs : a = <<u, a[2]>> /\ a[2] \in 1 .. N /\ a[2] <= L
    BY <1>7
<1>10. CASE L = 0
    <2>1. pairs = {}
        BY <1>4, <1>9, <1>10
    <2> QED
        BY <1>2, <1>6, <1>10, <2>1, FS_EmptySet DEF L
<1>11. CASE L = 1
    <2>1. <<u, 1>> \in pairs
        BY <1>4, <1>8, <1>11
    <2>2. \A a \in pairs : a = <<u, 1>>
        <3>1. \A a \in pairs : a[2] = 1
            BY <1>4, <1>9, <1>11
        <3> QED
            BY <1>9, <3>1, Zenon
    <2>3. pairs = {<<u, 1>>}
        BY <2>1, <2>2
    <2> QED
        BY <1>2, <1>6, <1>11, <2>3, FS_Singleton DEF L
<1>12. CASE L = 2
    <2>1. <<u, 1>> \in pairs /\ <<u, 2>> \in pairs
        BY <1>4, <1>8, <1>12
    <2>2. \A a \in pairs : a = <<u, 1>> \/ a = <<u, 2>>
        <3>1. \A a \in pairs : a[2] = 1 \/ a[2] = 2
            BY <1>4, <1>9, <1>12
        <3> QED
            BY <1>9, <3>1, Zenon
    <2>3. pairs = {<<u, 1>>} \cup {<<u, 2>>}
        BY <2>1, <2>2
    <2>4. IsFiniteSet({<<u, 1>>}) /\ Cardinality({<<u, 1>>}) = 1 /\ <<u, 2>> \notin {<<u, 1>>}
        <3>1. IsFiniteSet({<<u, 1>>}) /\ Cardinality({<<u, 1>>}) = 1
            BY FS_Singleton
        <3>2. <<u, 2>>[2] = 2 /\ <<u, 1>>[2] = 1
            OBVIOUS
        <3> QED
            BY <3>1, <3>2
    <2>5. Cardinality({<<u, 1>>} \cup {<<u, 2>>}) = 1 + 1
        BY <2>4, FS_AddElement
    <2> QED
        BY <1>2, <1>6, <1>12, <2>3, <2>5 DEF L
<1> QED
    BY <1>5, <1>10, <1>11, <1>12

\* A step that asks for nothing settles some requests, or is none of the contract's.
LEMMA SettlingStep ==
    ASSUME EngineInv, ToldOnce, Plain, EngineInv', ToldOnce',
           \A r \in Requests : SettlesOrKeeps(r)
    PROVE  Contract!SettleSome \/ UNCHANGED Contract!vars
<1> DEFINE A == {u \in Users : told'[u] # told[u]}
           F == Forgotten' \ Forgotten
<1>1. Users = Requests /\ TypeOK
    BY DEF EngineInv, Plain, Users
<1>2. AnswersAreTold /\ AnswersAreTold'
    BY UsersStandForThemselves, PTL DEF Plain
<1>3. \A u \in Users : told[u] \in Seq(Errors) /\ told'[u] \in Seq(Errors)
                        /\ Len(told[u]) \in Nat /\ Len(told'[u]) \in Nat
                        /\ (told[u] = <<>> <=> Len(told[u]) = 0)
                        /\ (told'[u] = <<>> <=> Len(told'[u]) = 0)
    BY <1>1, OneAnswer
<1>4. /\ Forgotten = {u \in Users : Len(told[u]) = 0 /\ info[u].state = "deleted"}
      /\ Forgotten' = {u \in Users : Len(told'[u]) = 0 /\ info'[u].state = "deleted"}
    BY <1>2 DEF Forgotten, AnswersAreTold
<1>5. \A u \in Users :
          /\ Len(told'[u]) = IF u \in A THEN Len(told[u]) + 1 ELSE Len(told[u])
          /\ u \in A => /\ Len(told[u]) = 0 \/ (u \in Streamed /\ Len(told[u]) = 1)
                        /\ info[u].state \notin {"none", "deleted"}
    BY <1>1, <1>3, OneAnswer
<1>6. Asked' = Asked
    <2>1. \A u \in Users : (info'[u].state = "none") = (info[u].state = "none")
        BY <1>1 DEF SettlesOrKeeps
    <2> QED
        BY <2>1 DEF Asked
<1> DEFINE answersOf == [u \in Users |-> Answers(u)]
<1>7. \A u \in Users : answersOf[u] = Len(told[u])
    BY <1>2 DEF AnswersAreTold
<1>8. Contract!Pending = {u \in Asked \ Forgotten : Len(told[u]) = 0}
    BY <1>2 DEF Contract!Pending, AnswersAreTold, Asked
<1>9. Contract!Answerable = Contract!Pending
                            \cup {u \in Streamed \ Forgotten : Len(told[u]) = 1}
    <2>1. Streamed \subseteq Users
        BY RequestsAssumption DEF Users
    <2> QED
        BY <1>7, <2>1 DEF Contract!Answerable
<1> HIDE DEF answersOf
<1>10. Forgotten \subseteq Forgotten'
    BY <1>1, <1>4, <1>5 DEF SettlesOrKeeps
<1>11. A \subseteq Contract!Answerable
    <2> SUFFICES ASSUME NEW u \in A PROVE u \in Contract!Answerable
        OBVIOUS
    <2>1. u \in Users /\ info[u].state \notin {"none", "deleted"}
          /\ (Len(told[u]) = 0 \/ (u \in Streamed /\ Len(told[u]) = 1))
        BY <1>5
    <2>2. u \in Asked /\ u \notin Forgotten
        BY <1>4, <2>1 DEF Asked
    <2> HIDE DEF A
    <2> QED
        BY <1>8, <1>9, <2>1, <2>2
<1>12. F \subseteq Contract!Pending \cap (Users \cap Prefetch)
    <2> SUFFICES ASSUME NEW u \in F PROVE u \in Contract!Pending /\ u \in Users \cap Prefetch
        OBVIOUS
    <2>1. u \in Users /\ Len(told'[u]) = 0 /\ info'[u].state = "deleted" /\ u \notin Forgotten
        BY <1>4
    <2>2. Len(told[u]) = 0 /\ info[u].state # "deleted"
        BY <1>3, <1>4, <1>5, <2>1
    <2>3. info[u].state # "none"
        BY <1>1, <2>1 DEF SettlesOrKeeps
    <2>4. u \in Prefetch
        BY <1>1, <1>3, <2>1 DEF ToldOnce
    <2> QED
        BY <1>8, <2>1, <2>2, <2>3, <2>4 DEF Asked
<1>13. A \cap F = {} /\ Forgotten' = Forgotten \cup F
    <2>1. A \cap F = {}
        BY <1>3, <1>4, <1>5
    <2> QED
        BY <1>10, <2>1
<1>14. [u \in Users |-> Answers(u)]'
           = [u \in Users |-> IF u \in A THEN answersOf[u] + 1 ELSE answersOf[u]]
    <2>1. \A u \in Users : Answers(u)' = IF u \in A THEN answersOf[u] + 1 ELSE answersOf[u]
        BY <1>2, <1>5, <1>7 DEF AnswersAreTold
    <2> HIDE DEF A
    <2> QED
        BY <2>1
<1>15. CASE A \cup F # {}
    <2> HIDE DEF A, F
    <2>1. Contract!Settle(A, F)
        BY <1>6, <1>13, <1>14, <1>15 DEF Contract!Settle, answersOf
    <2> QED
        BY <1>11, <1>12, <2>1 DEF Contract!SettleSome
<1>16. CASE A \cup F = {}
    <2>1. \A u \in Users : u \notin A
        BY <1>16
    <2> HIDE DEF A, F
    <2>2. [u \in Users |-> Answers(u)]' = [u \in Users |-> Answers(u)] /\ Forgotten' = Forgotten
        BY <1>13, <1>14, <1>16, <2>1 DEF answersOf
    <2> QED
        BY <1>6, <2>2 DEF Contract!vars
<1> QED
    BY <1>15, <1>16

\* A new request is asked.
LEMMA AskingStep ==
    ASSUME EngineInv, ToldOnce, Plain, EngineInv', ToldOnce', GetURL \/ PostURL
    PROVE  Contract!Ask
<1>1. Users = Requests /\ TypeOK
    BY DEF EngineInv, Plain, Users
<1>2. AnswersAreTold /\ AnswersAreTold'
    BY UsersStandForThemselves, PTL DEF Plain
<1>3. PICK r \in Users, i \in InfoType :
          /\ info[r].state = "none" /\ i.state \in {"begin", HTTP_NOTIFY}
          /\ info' = [info EXCEPT ![r] = i]
    BY AskShape DEF Users
<1>4. told' = told
    BY AskShape
<1>5. info'[r].state \in {"begin", HTTP_NOTIFY} /\ \A u \in Users : u # r => info'[u] = info[u]
    BY <1>1, <1>3 DEF TypeOK
<1>6. Asked' = Asked \cup {r} /\ r \notin Asked
    BY <1>3, <1>5 DEF Asked, HTTP_NOTIFY
<1>7. [u \in Users |-> Answers(u)]' = [u \in Users |-> Answers(u)]
    <2>1. \A u \in Users : Answers(u)' = Answers(u)
        BY <1>2, <1>4 DEF AnswersAreTold
    <2> QED
        BY <2>1
<1>8. Forgotten' = Forgotten
    <2>1. /\ Forgotten = {u \in Users : Len(told[u]) = 0 /\ info[u].state = "deleted"}
          /\ Forgotten' = {u \in Users : Len(told'[u]) = 0 /\ info'[u].state = "deleted"}
        BY <1>2 DEF Forgotten, AnswersAreTold
    <2> QED
        BY <1>3, <1>4, <1>5, <2>1 DEF HTTP_NOTIFY
<1> QED
    BY <1>6, <1>7, <1>8 DEF Contract!Ask

-----------------------------------------------------------------------------
(* Each action keeps the invariant, and settles or keeps each request. *)

Settles ==
    (\A r \in Requests : SettlesOrKeeps(r)) /\ NotYetTold' /\ EndedTold' /\ LateData'

\* A worker goes on with its request, which becomes i.
LEMMA OwnStep ==
    ASSUME EngineInv, AnswerInv, NEW w \in Workers, NEW b, wpc[w] # "next",
           wpc' = [wpc EXCEPT ![w] = b], UNCHANGED <<queue, job>>,
           NEW i \in InfoType, i.user = info[job[w]].user,
           i.state \notin {"none", HTTP_NOTIFY, "retry"},
           info' = [info EXCEPT ![job[w]] = i],
           \A r \in Requests \ {job[w]} : told'[r] = told[r],
           SettlesOrKeeps(job[w]),
           b \notin {"unchanged", "requeue"},
           b \in {"waiters", "end"} => i.stream = "destroyed",
           HandsOn(b, job[w], i, told'[job[w]])
    PROVE  Settles
<1>1. TypeOK /\ Locations /\ job[w] \in Requests /\ job[w] \in conns
    BY JobExists, PartsOfTheInvariant
<1>2. info'[job[w]] = i /\ \A r \in Requests \ {job[w]} : info'[r] = info[r]
    BY <1>1 DEF TypeOK
<1>3. \A r \in Requests : SettlesOrKeeps(r)
    BY <1>2, SameKeeps DEF AnswerInv
<1>4. NotYetTold'
    BY <1>1, <1>2 DEF AnswerInv, NotYetTold, Locations, Queued
<1>5. EndedTold'
    <2>1. \A v \in Workers \ {w} : wpc'[v] = wpc[v]
        BY <1>1 DEF TypeOK
    <2>2. \A v \in Workers \ {w} : wpc[v] # "next" => info'[job[v]] = info[job[v]]
        BY <1>1, <1>2, JobExists DEF Locations
    <2>3. wpc'[w] = b
        BY <1>1 DEF TypeOK
    <2> QED
        BY <1>2, <2>1, <2>2, <2>3 DEF AnswerInv, EndedTold
<1>6. LateData'
    <2> SUFFICES ASSUME NEW v \in Workers, wpc'[v] # "next"
                 PROVE  HandsOn(wpc'[v], job[v], info'[job[v]], told'[job[v]])
        BY DEF LateData
    <2>1. CASE v = w
        BY <1>1, <1>2, <2>1 DEF TypeOK
    <2>2. CASE v # w
        <3>1. wpc'[v] = wpc[v] /\ job[v] \in Requests \ {job[w]}
            BY <1>1, <2>2, JobExists DEF Locations, TypeOK
        <3> QED
            BY <1>2, <3>1 DEF AnswerInv, LateData
    <2> QED
        BY <2>1, <2>2
<1> QED
    BY <1>3, <1>4, <1>5, <1>6 DEF Settles

\* What is told, and its request, stay as they are.
LEMMA PlainActionsSettle ==
    ASSUME EngineInv, AnswerInv, NEW w \in Workers,
           \/ Connected(w) \/ InputEnds(w) \/ StatusLine(w) \/ DataArrives(w) \/ AfterInput(w)
    PROVE  Settles
<1>1. PICK b : Goes(w, wpc[w], b) /\ wpc[w] # "next" /\ b \notin {"unchanged", "requeue", "waiters", "end"}
    BY DEF Connected, InputEnds, StatusLine, DataArrives, AfterInput, Goes
<1>2. UNCHANGED <<info, told, queue, job>>
    BY DEF Connected, InputEnds, StatusLine, DataArrives, AfterInput, Goes, lists
<1>3. /\ job[w] \in Requests /\ info[job[w]] \in InfoType
      /\ info[job[w]].state \notin {"none", HTTP_NOTIFY, "retry"}
    BY <1>1, JobExists DEF AnswerInv, EndedTold
<1>4. SettlesOrKeeps(job[w]) /\ info' = [info EXCEPT ![job[w]] = info[job[w]]]
    BY <1>2, <1>3, SameKeeps, PartsOfTheInvariant DEF AnswerInv, TypeOK
<1>5. HandsOn(wpc[w], job[w], info[job[w]], told[job[w]]) /\ info[job[w]].user = job[w]
    BY <1>1, <1>3 DEF AnswerInv, LateData, ToldOnce
<1>6. HandsOn(b, job[w], info[job[w]], told[job[w]])
    <2>1. CASE Connected(w)
        BY <1>1, <1>5, <2>1, PartsOfTheInvariant DEF Connected, Goes, TypeOK, HandsOn
    <2>2. CASE StatusLine(w)
        BY <1>1, <1>5, <2>2, PartsOfTheInvariant DEF StatusLine, Goes, TypeOK, HandsOn
    <2>3. CASE InputEnds(w) \/ AfterInput(w)
        <3>1. b \notin {"connect", "send", "nosocket", "status", "input", "data"}
            BY <1>1, <2>3, PartsOfTheInvariant DEF InputEnds, AfterInput, Goes, TypeOK
        <3> QED
            BY <3>1 DEF HandsOn
    <2>4. CASE DataArrives(w)
        <3>1. wpc[w] = "input" /\ b = "data"
            BY <1>1, <2>4, PartsOfTheInvariant DEF DataArrives, Goes, TypeOK
        <3>2. info[job[w]].state = "body" /\ ~info[job[w]].abort /\ job[w] \in Streamed
            BY <1>5, <2>4 DEF DataArrives, StreamsTo
        <3>3. told[job[w]] = <<>>
            BY <1>5, <3>1, <3>2 DEF HandsOn
        <3> QED
            BY <3>1, <3>2, <3>3 DEF HandsOn
    <2> QED
        BY <2>1, <2>2, <2>3, <2>4
<1> QED
    BY <1>1, <1>2, <1>3, <1>4, <1>6, OwnStep DEF Goes

LEMMA AdvanceSettles ==
    ASSUME EngineInv, AnswerInv, Plain, NEW w \in Workers, Advances(w)
    PROVE  Settles
<1>1. PICK b : Goes(w, wpc[w], b) /\ wpc[w] # "next" /\ b \notin {"unchanged", "requeue", "waiters", "end"}
    BY DEF Advances, ConnectFails, Sent, StatusOk, BodyFollows, StatusUnchanged, OnDataComplete,
           StreamsTo, Goes, Plain
<1>2. PICK i \in InfoType : GoesOnAs(job[w], i) /\ i.state # "retry"
                            /\ info' = [info EXCEPT ![job[w]] = i]
    BY AdvanceShape
<1>3. UNCHANGED <<told, queue, job>>
    BY <1>1, AdvanceShape DEF Goes, lists
<1>4. job[w] \in Requests /\ info'[job[w]] = i
      /\ info[job[w]].state \notin {"none", HTTP_NOTIFY, "deleted"}
    BY <1>1, <1>2, JobExists, PartsOfTheInvariant DEF TypeOK
<1>5. SettlesOrKeeps(job[w])
    BY <1>2, <1>3, <1>4 DEF GoesOnAs, SettlesOrKeeps
<1>6. HandsOn(wpc[w], job[w], info[job[w]], told[job[w]]) /\ info[job[w]].user = job[w]
      /\ wpc'[w] = b /\ told'[job[w]] = told[job[w]]
    BY <1>1, <1>3, <1>4, PartsOfTheInvariant DEF AnswerInv, LateData, ToldOnce, Goes, TypeOK
<1>7. HandsOn(b, job[w], i, told'[job[w]])
    <2>1. CASE ConnectFails(w) \/ OnDataComplete(w)
        <3>1. b \notin {"connect", "send", "nosocket", "status", "input", "data"}
            BY <1>1, <1>6, <2>1, PartsOfTheInvariant
            DEF ConnectFails, OnDataComplete, Goes, TypeOK
        <3> QED
            BY <3>1 DEF HandsOn
    <2>2. CASE Sent(w)
        <3>1. b = "input" /\ told[job[w]] = <<>>
            BY <1>6, <2>2, PartsOfTheInvariant DEF Sent, Goes, TypeOK, HandsOn
        <3> QED
            BY <1>6, <3>1 DEF HandsOn
    <2>3. CASE StatusOk(w)
        <3>1. b = "input" /\ wpc[w] = "status"
            BY <1>6, <2>3, PartsOfTheInvariant DEF StatusOk, Goes, TypeOK
        <3> QED
            BY <1>2, <1>6, <3>1 DEF HandsOn, GoesOnAs
    <2>4. CASE BodyFollows(w)
        <3>1. /\ b \in StreamsTo(job[w])
              /\ wpc[w] = "status" \/ (wpc[w] = "input" /\ info[job[w]].state = "header")
            BY <1>6, <2>4, PartsOfTheInvariant DEF BodyFollows, Goes, TypeOK
        <3>2. told[job[w]] # <<>> => info[job[w]].abort
            BY <1>6, <3>1 DEF HandsOn
        <3>3. b = "input" \/ (b = "data" /\ ~info[job[w]].abort /\ job[w] \in Streamed)
            BY <1>6, <3>1 DEF StreamsTo
        <3> QED
            BY <1>2, <1>6, <3>2, <3>3 DEF HandsOn, GoesOnAs
    <2>5. ~StatusUnchanged(w)
        BY DEF StatusUnchanged, Plain
    <2> QED
        BY <2>1, <2>2, <2>3, <2>4, <2>5 DEF Advances
<1> QED
    BY <1>1, <1>2, <1>3, <1>5, <1>7, OwnStep DEF Goes, GoesOnAs

\* Data is handed on to a stream that has been destroyed at most once.
LEMMA StreamDataSettles ==
    ASSUME EngineInv, AnswerInv, NEW w \in Workers, StreamData(w)
    PROVE  Settles
<1>1. /\ wpc[w] = "data" /\ wpc' = [wpc EXCEPT ![w] = "input"]
      /\ UNCHANGED <<told, queue, job>>
    BY StreamDataShape DEF Goes, lists
<1>2. PICK i \in InfoType :
          /\ i.state = info[job[w]].state /\ i.user = info[job[w]].user
          /\ i.abort = info[job[w]].abort /\ i.stream = "open"
          /\ info' = [info EXCEPT ![job[w]] = i]
    BY StreamDataShape
<1>3. /\ job[w] \in Requests /\ info'[job[w]] = i
      /\ info[job[w]].state \notin {"none", HTTP_NOTIFY, "deleted", "retry"}
    BY <1>1, <1>2, JobExists, PartsOfTheInvariant DEF TypeOK, AnswerInv, EndedTold
<1>4. HandsOn("data", job[w], info[job[w]], told[job[w]])
    BY <1>1 DEF AnswerInv, LateData
<1>5. SettlesOrKeeps(job[w])
    BY <1>1, <1>2, <1>3, <1>4 DEF SettlesOrKeeps, HandsOn
<1>6. HandsOn("input", job[w], i, told'[job[w]])
    BY <1>1, <1>2, <1>4 DEF HandsOn
<1>7. /\ wpc[w] # "next" /\ i.state \notin {"none", HTTP_NOTIFY, "retry"}
      /\ \A r \in Requests \ {job[w]} : told'[r] = told[r]
    BY <1>1, <1>2, <1>3
<1>8. PICK b : b = "input"
    OBVIOUS
<1>9. /\ wpc' = [wpc EXCEPT ![w] = b] /\ HandsOn(b, job[w], i, told'[job[w]])
      /\ b \notin {"unchanged", "requeue"} /\ b \notin {"waiters", "end"}
    BY <1>1, <1>6, <1>8
<1> QED
    BY <1>1, <1>2, <1>5, <1>7, <1>9, OwnStep

LEMMA CloseSettles ==
    ASSUME EngineInv, AnswerInv, Plain, NEW w \in Workers, Closes(w)
    PROVE  Settles
<1>1. PICK b : Goes(w, wpc[w], b) /\ wpc[w] # "next" /\ b \notin {"unchanged", "requeue"}
    BY CloseShape DEF Closes, CloseFailed, FileFails, StreamLocal, StatusError, Decide,
                      StreamsTo, Goes
<1>2. info[job[w]].state # "retry" /\ wpc[w] # "unchanged"
    BY <1>1 DEF AnswerInv, EndedTold
<1>3. PICK i \in InfoType : GoesOnAs(job[w], i) /\ CloseStream(job[w], i) /\ i.state # "retry"
    BY <1>2, CloseShape
<1>4. UNCHANGED <<queue, job>>
    BY <1>1, CloseShape DEF Goes, lists
<1> DEFINE d == Destroy(i)
<1>5. /\ d \in InfoType /\ d.state = i.state /\ d.user = i.user /\ d.stream = "destroyed"
    BY DestroyType
<1>6. /\ info' = [info EXCEPT ![job[w]] = d]
      /\ told' = [told EXCEPT ![job[w]] = CloseTold(job[w], i)]
    BY <1>3 DEF CloseStream
<1> HIDE DEF d
<1>7. job[w] \in Requests /\ info[job[w]].state \notin {"none", HTTP_NOTIFY, "deleted"}
    BY <1>1, JobExists
<1>8. /\ info'[job[w]] = d /\ told'[job[w]] = CloseTold(job[w], i)
      /\ \A r \in Requests \ {job[w]} : told'[r] = told[r]
    BY <1>6, <1>7, PartsOfTheInvariant DEF TypeOK
<1>9. SettlesOrKeeps(job[w])
    <2>1. i.err \in Errors
        BY DEF InfoType
    <2> QED
        BY <1>3, <1>5, <1>7, <1>8, <2>1 DEF GoesOnAs, SettlesOrKeeps, CloseTold
<1>10. HandsOn(wpc[w], job[w], info[job[w]], told[job[w]]) /\ info[job[w]].user = job[w]
       /\ wpc'[w] = b
    BY <1>1, <1>7, PartsOfTheInvariant DEF AnswerInv, LateData, ToldOnce, Goes, TypeOK
<1>11. HandsOn(b, job[w], d, told'[job[w]])
    <2>1. CASE CloseFailed(w) \/ Decide(w)
        <3>1. b \notin {"connect", "send", "nosocket", "status", "input", "data"}
            BY <1>10, <2>1, PartsOfTheInvariant DEF CloseFailed, Decide, Goes, TypeOK
        <3> QED
            BY <3>1 DEF HandsOn
    <2>2. CASE FileFails(w) \/ StatusError(w)
        <3> DEFINE failed == [SetState(info[job[w]], "error") EXCEPT !.err = "error"]
        <3>1. CloseStream(job[w], failed)
            BY <2>2 DEF FileFails, StatusError
        <3>2. failed \in InfoType /\ failed.state = "error"
            BY <1>1, NextStates DEF States, Errors, HTTP_NOTIFY
        <3> HIDE DEF failed
        <3>3. Destroy(failed).state = "error" /\ info'[job[w]] = Destroy(failed)
            BY <1>7, <3>1, <3>2, DestroyType, PartsOfTheInvariant DEF CloseStream, TypeOK
        <3>4. d.state = "error"
            BY <1>8, <3>3
        <3>5. CASE b = "input"
            BY <3>4, <3>5 DEF HandsOn
        <3>6. CASE b # "input"
            <4>1. FileFails(w) /\ wpc[w] = "input" /\ info[job[w]].state = "header" /\ b = "data"
                  /\ "data" \in StreamsTo(job[w])
                BY <1>10, <2>2, <3>6, PartsOfTheInvariant
                DEF FileFails, StatusError, StreamsTo, Goes, TypeOK
            <4>2. ~info[job[w]].abort /\ job[w] \in Streamed
                BY <1>10, <4>1 DEF StreamsTo
            <4>3. told[job[w]] = <<>>
                BY <1>10, <4>1, <4>2 DEF HandsOn
            <4>4. Len(told'[job[w]]) <= 1
                BY <1>8, <4>3 DEF CloseTold
            <4> QED
                BY <1>5, <3>4, <4>1, <4>2, <4>4 DEF HandsOn
        <3> QED
            BY <3>5, <3>6
    <2> QED
        BY <1>2, <2>1, <2>2 DEF Closes, StreamLocal, Goes
<1> QED
    BY <1>1, <1>3, <1>4, <1>5, <1>6, <1>8, <1>9, <1>11, OwnStep DEF Goes, GoesOnAs

\* A mirror changes URLs only.
LEMMA ConnectMirrorSettles ==
    ASSUME EngineInv, AnswerInv, NEW w \in Workers, ConnectMirror(w)
    PROVE  Settles
<1> DEFINE r == job[w]
           f == UpdateWaitRequest(r, Mirror)
           i == [info[r] EXCEPT !.url = Mirror]
<1>1. /\ wpc[w] = "connect" /\ wpc' = [wpc EXCEPT ![w] = "nosocket"]
      /\ info' = [f EXCEPT ![r] = i]
      /\ UNCHANGED <<job, told, queue>> /\ info[r].url \in Mirrored
    BY DEF ConnectMirror, Goes, lists
<1>2. TypeOK /\ Locations /\ r \in Requests /\ info[r] \in InfoType
    BY <1>1, JobExists, PartsOfTheInvariant
<1>3. Mirror \in URLs \cup {BadURL}
    BY <1>1, RequestsAssumption
<1>4. /\ f \in [Requests -> InfoType]
      /\ \A q \in Requests : f[q].state = info[q].state /\ f[q].user = info[q].user
                              /\ f[q].stream = info[q].stream
      /\ \A q \in Requests \ WaitersOf(r) : f[q] = info[q]
    BY <1>1, <1>3, UpdateType
<1>5. i.state = info[r].state /\ i.user = info[r].user /\ i.stream = info[r].stream
    BY <1>2 DEF InfoType
<1> HIDE DEF f, i
<1>6. \A q \in Requests : info'[q].state = info[q].state /\ info'[q].user = info[q].user
                          /\ info'[q].stream = info[q].stream
    BY <1>1, <1>2, <1>4, <1>5
<1>7. \A q \in Requests \ (WaitersOf(r) \cup {r}) : info'[q] = info[q]
    BY <1>1, <1>2, <1>4
<1>8. \A q \in WaitersOf(r) \cup {r} : info[q].state \notin {"none", "deleted"}
    BY <1>1, <1>2, JobExists, WaitersWait DEF HTTP_WAIT, HTTP_NOTIFY
<1>9. \A q \in Requests : SettlesOrKeeps(q)
    BY <1>1, <1>6, <1>7, <1>8 DEF SettlesOrKeeps, AnswerInv, ToldOnce
<1>10. NotYetTold'
    BY <1>1, <1>6 DEF AnswerInv, NotYetTold, Queued
<1>11. EndedTold'
    <2>1. \A v \in Workers : wpc[v] # "next" => job[v] \in Requests
        BY JobExists
    <2>2. \A v \in Workers : wpc'[v] = wpc[v] \/ (v = w /\ wpc'[v] = "nosocket")
        BY <1>1, <1>2 DEF TypeOK
    <2> QED
        BY <1>1, <1>6, <2>1, <2>2 DEF AnswerInv, EndedTold
<1>12. LateData'
    <2> SUFFICES ASSUME NEW v \in Workers, wpc'[v] # "next"
                 PROVE  HandsOn(wpc'[v], job[v], info'[job[v]], told[job[v]])
        BY <1>1 DEF LateData
    <2>1. CASE v = w
        <3>1. wpc'[w] = "nosocket" /\ told[r] = <<>>
            BY <1>1, <1>2 DEF AnswerInv, LateData, HandsOn, ConnectMirror, TypeOK
        <3> QED
            BY <2>1, <3>1 DEF HandsOn
    <2>2. CASE v # w
        <3>1. wpc'[v] = wpc[v] /\ wpc[v] # "next"
            BY <1>1, <1>2, <2>2 DEF TypeOK
        <3>2. job[v] \in Requests /\ job[v] # r /\ job[v] \notin WaitersOf(r)
            BY <1>1, <1>2, <2>2, <3>1, JobExists, WaitersWait DEF Locations
        <3> QED
            BY <1>7, <3>1, <3>2 DEF AnswerInv, LateData
    <2> QED
        BY <2>1, <2>2
<1> QED
    BY <1>9, <1>10, <1>11, <1>12 DEF Settles

\* Those that waited are answered and deleted.
LEMMA ProcessWaitRequestSettles ==
    ASSUME EngineInv, AnswerInv, NEW w \in Workers, ProcessWaitRequest(w)
    PROVE  Settles
<1> DEFINE r == job[w]
           gone == WaitersOf(r)
           d(c) == [Destroy(info[c]) EXCEPT !.state = "deleted"]
           e == Shared(info[r])
<1>1. /\ wpc[w] = "waiters" /\ wpc' = [wpc EXCEPT ![w] = "end"]
      /\ UNCHANGED <<queue, job>>
      /\ info' = [c \in Requests |-> IF c \in gone THEN d(c) ELSE info[c]]
      /\ told' = [c \in Requests |-> IF c \in gone THEN Append(told[c], e) ELSE told[c]]
    BY DEF ProcessWaitRequest, Goes
<1>2. TypeOK /\ Locations /\ r \in Requests /\ info[r] \in InfoType
    BY <1>1, JobExists, PartsOfTheInvariant
<1>3. /\ gone \subseteq conns /\ gone \subseteq Requests
      /\ \A c \in gone : info[c].state = HTTP_WAIT
      /\ \A v \in Workers : wpc[v] # "next" => job[v] \notin gone
    BY <1>1, WaitersWait
<1>4. \A c \in Requests : d(c).state = "deleted" /\ d(c).user = info[c].user
                          /\ d(c).stream = "destroyed"
    <2> SUFFICES ASSUME NEW c \in Requests
                 PROVE  d(c).state = "deleted" /\ d(c).user = info[c].user
                        /\ d(c).stream = "destroyed"
        OBVIOUS
    <2>1. info[c] \in InfoType
        BY <1>2 DEF TypeOK
    <2> QED
        BY <2>1, DestroyType DEF InfoType
<1>5. e \in Errors
    BY <1>2 DEF Shared, InfoType, Errors
<1> HIDE DEF gone, d, e
<1>6. \A c \in gone : info[c].stream # "destroyed" /\ info[c].state \notin {"none", "deleted"}
    BY <1>3 DEF AnswerInv, NotYetTold, HTTP_WAIT, HTTP_NOTIFY
<1>7. \A q \in Requests : SettlesOrKeeps(q)
    <2>1. \A q \in Requests \ gone : SettlesOrKeeps(q)
        BY <1>1, SameKeeps DEF AnswerInv
    <2>2. \A q \in gone : SettlesOrKeeps(q)
        BY <1>1, <1>3, <1>4, <1>5, <1>6 DEF SettlesOrKeeps
    <2> QED
        BY <2>1, <2>2
<1>8. NotYetTold'
    <2>1. \A q \in gone : q \notin Queued
        BY <1>2, <1>3 DEF Locations
    <2> QED
        BY <1>1, <1>4, <2>1 DEF AnswerInv, NotYetTold, Queued, HTTP_NOTIFY
<1>9. EndedTold'
    <2>1. \A v \in Workers : wpc[v] # "next" => info'[job[v]] = info[job[v]]
        BY <1>1, <1>3, JobExists
    <2>2. \A v \in Workers : wpc'[v] = wpc[v] \/ (v = w /\ wpc'[v] = "end")
        BY <1>1, <1>2 DEF TypeOK
    <2>3. wpc[w] = "waiters" /\ job' = job /\ EndedTold
        BY <1>1 DEF AnswerInv
    <2> QED
        BY <2>1, <2>2, <2>3 DEF EndedTold
<1>10. LateData'
    <2> SUFFICES ASSUME NEW v \in Workers, wpc'[v] # "next"
                 PROVE  HandsOn(wpc'[v], job[v], info'[job[v]], told'[job[v]])
        BY <1>1 DEF LateData
    <2>1. CASE v = w
        BY <1>1, <1>2, <2>1 DEF HandsOn, TypeOK
    <2>2. CASE v # w
        <3>1. wpc'[v] = wpc[v] /\ wpc[v] # "next"
            BY <1>1, <1>2, <2>2 DEF TypeOK
        <3>2. job[v] \in Requests /\ job[v] \notin gone
            BY <1>3, <3>1, JobExists
        <3> QED
            BY <1>1, <3>1, <3>2 DEF AnswerInv, LateData
    <2> QED
        BY <2>1, <2>2
<1> QED
    BY <1>7, <1>8, <1>9, <1>10 DEF Settles

\* A request is deleted after its stream manager has been told.
LEMMA EndProcessSettles ==
    ASSUME EngineInv, AnswerInv, NEW w \in Workers, EndProcess(w)
    PROVE  Settles
<1> DEFINE r == job[w]
           d == [info[r] EXCEPT !.state = "deleted"]
<1>1. /\ wpc[w] = "end" /\ wpc' = [wpc EXCEPT ![w] = "next"] /\ UNCHANGED <<queue, told>>
      /\ info' = [info EXCEPT ![r] = d] /\ job' = [job EXCEPT ![w] = None]
    BY DEF EndProcess
<1>2. TypeOK /\ Locations /\ r \in Requests /\ info[r] \in InfoType /\ r \in conns
      /\ info[r].state \notin {"none", HTTP_NOTIFY, "deleted"}
    BY <1>1, JobExists, PartsOfTheInvariant
<1>3. d.state = "deleted" /\ d.user = info[r].user /\ d.stream = info[r].stream
    BY <1>2 DEF InfoType
<1> HIDE DEF d
<1>4. info[r].stream = "destroyed"
    BY <1>1 DEF AnswerInv, EndedTold
<1>5. info'[r] = d /\ \A q \in Requests \ {r} : info'[q] = info[q]
    BY <1>1, <1>2 DEF TypeOK
<1>6. \A q \in Requests : SettlesOrKeeps(q)
    <2>1. SettlesOrKeeps(r)
        BY <1>1, <1>2, <1>3, <1>4, <1>5 DEF SettlesOrKeeps
    <2> QED
        BY <1>1, <1>5, <2>1, SameKeeps DEF AnswerInv
<1>7. NotYetTold'
    <2>1. r \notin Queued
        BY <1>2 DEF Locations
    <2> QED
        BY <1>1, <1>3, <1>5, <2>1 DEF AnswerInv, NotYetTold, Queued, HTTP_NOTIFY
<1>8. EndedTold'
    <2>1. \A v \in Workers \ {w} : wpc[v] # "next" => job[v] # r /\ job[v] \in Requests
        BY <1>2, JobExists DEF Locations
    <2>2. wpc'[w] = "next" /\ \A v \in Workers \ {w} : wpc'[v] = wpc[v] /\ job'[v] = job[v]
        BY <1>1, <1>2 DEF TypeOK
    <2> QED
        BY <1>5, <2>1, <2>2 DEF AnswerInv, EndedTold
<1>9. LateData'
    <2> SUFFICES ASSUME NEW v \in Workers, wpc'[v] # "next"
                 PROVE  HandsOn(wpc'[v], job'[v], info'[job'[v]], told'[job'[v]])
        BY DEF LateData
    <2>1. v # w
        BY <1>1, <1>2 DEF TypeOK
    <2>2. wpc'[v] = wpc[v] /\ job'[v] = job[v]
        BY <1>1, <1>2, <2>1 DEF TypeOK
    <2>3. job[v] # r /\ job[v] \in Requests
        BY <1>2, <2>1, <2>2, JobExists DEF Locations
    <2> QED
        BY <1>1, <1>5, <2>2, <2>3 DEF AnswerInv, LateData
<1> QED
    BY <1>6, <1>7, <1>8, <1>9 DEF Settles

\* An abort answers what it finds in the lists.
LEMMA CloseRequestsSettles ==
    ASSUME EngineInv, AnswerInv, NEW hit, CloseRequests(hit)
    PROVE  Settles
<1> DEFINE found == hit \cap (conns \cup Queued)
           a(q) == Destroy(Aborted(info[q]))
           d(q) == [a(q) EXCEPT !.state = "deleted"]
           c(q) == CloseTold(q, Aborted(info[q]))
<1>1. TypeOK /\ Locations /\ ConnectionsExist /\ conns \subseteq Requests
    BY PartsOfTheInvariant DEF TypeOK
<1>2. /\ queue' = Without(queue, hit) /\ UNCHANGED <<wpc, job>>
      /\ info' = [q \in Requests |-> IF q \in hit \cap conns THEN a(q)
                                     ELSE IF q \in hit \cap Queued THEN d(q) ELSE info[q]]
      /\ told' = [q \in Requests |-> IF q \in found THEN c(q) ELSE told[q]]
    BY DEF CloseRequests, workers
<1>3. Queued' = Queued \ hit
    BY <1>1, <1>2, WithoutQueued
<1>4. \A q \in Requests :
          /\ a(q).state = "end" /\ a(q).user = info[q].user /\ a(q).stream = "destroyed"
          /\ a(q).abort
          /\ d(q).state = "deleted" /\ d(q).user = info[q].user /\ d(q).stream = "destroyed"
          /\ c(q) = IF info[q].stream = "destroyed" THEN told[q] ELSE Append(told[q], "abort")
    <2> SUFFICES ASSUME NEW q \in Requests
                 PROVE
          /\ a(q).state = "end" /\ a(q).user = info[q].user /\ a(q).stream = "destroyed"
          /\ a(q).abort
          /\ d(q).state = "deleted" /\ d(q).user = info[q].user /\ d(q).stream = "destroyed"
          /\ c(q) = IF info[q].stream = "destroyed" THEN told[q] ELSE Append(told[q], "abort")
        OBVIOUS
    <2>1. info[q] \in InfoType
        BY <1>1 DEF TypeOK
    <2>2. /\ Aborted(info[q]) \in InfoType /\ Aborted(info[q]).state = "end"
          /\ Aborted(info[q]).user = info[q].user /\ Aborted(info[q]).stream = info[q].stream
        BY <2>1, AbortedType
    <2>3. Aborted(info[q]).err = "abort" /\ Aborted(info[q]).abort
        BY <2>1, SetStateType DEF Aborted, InfoType, States
    <2>4. a(q) \in InfoType /\ a(q).state = "end" /\ a(q).user = info[q].user
          /\ a(q).stream = "destroyed" /\ a(q).abort
        BY <2>2, <2>3, DestroyType DEF Destroy, InfoType
    <2>5. d(q).state = "deleted" /\ d(q).user = info[q].user /\ d(q).stream = "destroyed"
        BY <2>4 DEF InfoType
    <2> QED
        BY <2>2, <2>3, <2>4, <2>5 DEF CloseTold
<1> HIDE DEF a, d, c
<1>5. \A q \in found : q \in Requests /\ info[q].state \notin {"none", "deleted"}
    BY <1>1 DEF Locations, ConnectionsExist, HTTP_NOTIFY
<1>6. \A q \in hit \cap Queued : q \notin conns /\ info[q].stream # "destroyed"
    BY <1>1 DEF Locations, AnswerInv, NotYetTold
<1>7. \A q \in Requests : SettlesOrKeeps(q)
    <2>1. \A q \in Requests \ found : SettlesOrKeeps(q)
        BY <1>2, SameKeeps DEF AnswerInv
    <2>2. \A q \in hit \cap conns : SettlesOrKeeps(q)
        BY <1>2, <1>4, <1>5 DEF SettlesOrKeeps, Errors
    <2>3. \A q \in hit \cap Queued : SettlesOrKeeps(q)
        BY <1>2, <1>4, <1>5, <1>6 DEF SettlesOrKeeps, Errors
    <2> QED
        BY <2>1, <2>2, <2>3
<1>8. NotYetTold'
    BY <1>2, <1>3, <1>4 DEF AnswerInv, NotYetTold, HTTP_NOTIFY
<1>9. EndedTold'
    <2> SUFFICES ASSUME NEW v \in Workers, wpc[v] # "next"
                 PROVE  /\ info'[job[v]].state # "retry"
                        /\ info[job[v]].stream = "destroyed" => info'[job[v]].stream = "destroyed"
        BY <1>2 DEF AnswerInv, EndedTold
    <2>1. job[v] \in conns /\ job[v] \in Requests /\ info[job[v]].state # "retry"
        BY JobExists DEF AnswerInv, EndedTold
    <2>2. info'[job[v]] \in {info[job[v]], a(job[v])}
        BY <1>1, <1>2, <2>1 DEF Locations
    <2> QED
        BY <1>4, <2>1, <2>2
<1>10. LateData'
    <2> SUFFICES ASSUME NEW v \in Workers, wpc[v] # "next"
                 PROVE  HandsOn(wpc[v], job[v], info'[job[v]], told'[job[v]])
        BY <1>2 DEF LateData
    <2>1. job[v] \in conns /\ job[v] \in Requests /\ job[v] \notin Queued
          /\ told[job[v]] \in Seq(Errors)
        BY <1>1, JobExists DEF Locations
    <2>2. HandsOn(wpc[v], job[v], info[job[v]], told[job[v]])
        BY DEF AnswerInv, LateData
    <2>3. CASE job[v] \notin hit
        BY <1>2, <2>1, <2>2, <2>3
    <2>4. CASE job[v] \in hit
        <3>1. info'[job[v]] = a(job[v]) /\ told'[job[v]] = c(job[v])
            BY <1>2, <2>1, <2>4
        <3>2. /\ info'[job[v]].abort /\ info'[job[v]].stream = "destroyed"
              /\ told'[job[v]] = IF info[job[v]].stream = "destroyed" THEN told[job[v]]
                                 ELSE Append(told[job[v]], "abort")
            BY <1>4, <2>1, <3>1
        <3>3. wpc[v] = "data" => job[v] \in Streamed /\ Len(told'[job[v]]) <= 1
            <4> SUFFICES ASSUME wpc[v] = "data"
                         PROVE  job[v] \in Streamed /\ Len(told'[job[v]]) <= 1
                OBVIOUS
            <4>1. /\ job[v] \in Streamed /\ Len(told[job[v]]) <= 1
                  /\ told[job[v]] # <<>> => info[job[v]].stream = "destroyed"
                BY <2>2 DEF HandsOn
            <4>2. CASE info[job[v]].stream = "destroyed"
                BY <3>2, <4>1, <4>2
            <4>3. CASE told[job[v]] = <<>>
                BY <3>2, <4>1, <4>3
            <4> QED
                BY <4>1, <4>2, <4>3
        <3> QED
            BY <3>2, <3>3 DEF HandsOn
    <2> QED
        BY <2>3, <2>4
<1> QED
    BY <1>7, <1>8, <1>9, <1>10 DEF Settles

\* The scan answers the notifications it finds, and forgets those of prefetches.
LEMMA GetNextRequestSettles ==
    ASSUME EngineInv, AnswerInv, NEW w \in Workers, GetNextRequest(w)
    PROVE  Settles
<1>1. TypeOK /\ Locations /\ wpc[w] = "next"
    BY PartsOfTheInvariant, GetNextIsScan
<1>2. PICK n \in 1 .. Len(queue) + 1 : ScanTo(w, n)
    BY GetNextIsScan
<1> DEFINE notified == Notified(n)
           parked == Parked(n)
           pick == PickAt(n)
<1>3. /\ notified \subseteq Queued /\ parked \subseteq Queued /\ pick \subseteq Queued
      /\ notified \cap parked = {}
      /\ pick \cap notified = {} /\ pick \cap parked = {}
      /\ \A p \in pick : info[p].state = "begin"
      /\ \A r \in Requests \ (notified \cup parked) : info'[r] = info[r]
      /\ \A r \in notified : info'[r].state = "deleted" /\ info'[r].stream = "destroyed"
                             /\ info'[r].user = info[r].user
      /\ \A r \in parked : info'[r].state = HTTP_WAIT /\ info'[r].user = info[r].user
                           /\ info'[r].stream = info[r].stream
      /\ \A v \in Workers : v # w => wpc'[v] = wpc[v] /\ job'[v] = job[v]
      /\ pick # {} => wpc'[w] = "connect" /\ pick = {job'[w]}
      /\ pick = {} => wpc' = wpc /\ job' = job
    BY <1>1, <1>2, ScanShape
<1>4. /\ queue' = Without(queue, Moved(n))
      /\ told' = [r \in Requests |->
             IF r \in notified \ Prefetch THEN Append(told[r], info[r].err) ELSE told[r]]
    BY <1>2 DEF ScanTo
<1>5. Queued' = Queued \ (notified \cup parked \cup pick)
    BY <1>1, <1>4, WithoutQueued DEF Moved
<1> HIDE DEF notified, parked, pick
<1>6. \A r \in Queued : r \in Requests /\ info[r].state \notin {"none", "deleted"}
                        /\ info[r].stream # "destroyed" /\ info[r].err \in Errors
    BY <1>1 DEF Locations, TypeOK, InfoType, AnswerInv, NotYetTold, HTTP_NOTIFY
<1>7. \A r \in Requests : SettlesOrKeeps(r)
    <2>1. \A r \in Requests \ (notified \cup parked) : SettlesOrKeeps(r)
        BY <1>3, <1>4, SameKeeps DEF AnswerInv
    <2>2. \A r \in notified : SettlesOrKeeps(r)
        BY <1>3, <1>4, <1>6 DEF SettlesOrKeeps
    <2>3. \A r \in parked : SettlesOrKeeps(r)
        BY <1>3, <1>4, <1>6 DEF SettlesOrKeeps, HTTP_WAIT, HTTP_NOTIFY
    <2> QED
        BY <2>1, <2>2, <2>3
<1>8. NotYetTold'
    <2> SUFFICES ASSUME NEW r \in Requests, info'[r].state \in {"none", HTTP_NOTIFY} \/ r \in Queued'
                 PROVE  info'[r].stream # "destroyed" /\ told'[r] = <<>>
        BY DEF NotYetTold
    <2>0. r \notin notified
        BY <1>3, <1>5 DEF HTTP_NOTIFY
    <2>1. CASE r \in parked
        <3>1. r \in Queued /\ info'[r].stream = info[r].stream /\ told'[r] = told[r]
            BY <1>3, <1>4, <2>0, <2>1
        <3> QED
            BY <3>1 DEF AnswerInv, NotYetTold
    <2>2. CASE r \notin parked
        <3>1. info'[r] = info[r] /\ told'[r] = told[r]
            BY <1>3, <1>4, <2>0, <2>2
        <3> QED
            BY <1>5, <3>1 DEF AnswerInv, NotYetTold
    <2> QED
        BY <2>1, <2>2
<1>9. EndedTold'
    <2>1. \A v \in Workers : wpc[v] # "next" =>
              wpc'[v] = wpc[v] /\ job'[v] = job[v] /\ info'[job[v]] = info[job[v]]
        BY <1>1, <1>3, JobExists DEF Locations
    <2>2. wpc'[w] = "next" \/ (wpc'[w] = "connect" /\ info'[job'[w]].state = "begin")
        BY <1>1, <1>3, <1>6
    <2>3. \A v \in Workers \ {w} : wpc[v] = "next" => wpc'[v] = "next"
        BY <1>3
    <2> QED
        BY <2>1, <2>2, <2>3, <1>1 DEF AnswerInv, EndedTold
<1>10. LateData'
    <2> SUFFICES ASSUME NEW v \in Workers, wpc'[v] # "next"
                 PROVE  HandsOn(wpc'[v], job'[v], info'[job'[v]], told'[job'[v]])
        BY DEF LateData
    <2>1. CASE wpc[v] # "next"
        <3>1. v # w /\ job[v] \in conns /\ job[v] \in Requests /\ job[v] \notin Queued
            BY <1>1, <2>1, JobExists DEF Locations
        <3>2. wpc'[v] = wpc[v] /\ job'[v] = job[v] /\ info'[job[v]] = info[job[v]]
              /\ told'[job[v]] = told[job[v]]
            BY <1>3, <1>4, <3>1
        <3> QED
            BY <2>1, <3>2 DEF AnswerInv, LateData
    <2>2. CASE wpc[v] = "next"
        <3>1. v = w /\ pick # {}
            BY <1>1, <1>3, <2>2
        <3>2. wpc'[w] = "connect" /\ job'[w] \in pick /\ job'[w] \in Queued
            BY <1>3, <3>1
        <3>3. told[job'[w]] = <<>> /\ job'[w] \notin notified /\ job'[w] \in Requests
            BY <1>3, <1>6, <3>2 DEF AnswerInv, NotYetTold
        <3>4. told'[job'[w]] = <<>>
            BY <1>4, <3>3
        <3> QED
            BY <3>1, <3>2, <3>4 DEF HandsOn
    <2> QED
        BY <2>1, <2>2
<1> QED
    BY <1>7, <1>8, <1>9, <1>10 DEF Settles

\* A new request has not been answered.
LEMMA AskKeepsAnswers ==
    ASSUME EngineInv, AnswerInv, GetURL \/ PostURL
    PROVE  AnswerInv'
<1>1. TypeOK /\ Locations /\ ConnectionsExist
    BY PartsOfTheInvariant
<1>2. PICK r \in Requests, i \in InfoType :
          /\ info[r].state = "none" /\ i.state \in {"begin", HTTP_NOTIFY}
          /\ i.user = r /\ i.stream = "closed"
          /\ info' = [info EXCEPT ![r] = i]
          /\ queue' = Append(queue, r)
    BY AskShape
<1>3. UNCHANGED <<told, wpc, job>>
    BY AskShape
<1>4. info'[r] = i /\ \A q \in Requests \ {r} : info'[q] = info[q]
    BY <1>1, <1>2 DEF TypeOK
<1>5. Queued' = Queued \cup {r}
    BY <1>1, <1>2, AppendQueued
<1>6. told[r] = <<>> /\ Len(told[r]) = 0
    BY <1>2 DEF AnswerInv, NotYetTold
<1>7. ToldOnce'
    BY <1>2, <1>3, <1>4, <1>6 DEF AnswerInv, ToldOnce, HTTP_NOTIFY
<1>8. NotYetTold'
    BY <1>2, <1>3, <1>4, <1>5, <1>6 DEF AnswerInv, NotYetTold
<1>9. EndedTold'
    BY <1>2, <1>3, <1>4, JobExists DEF AnswerInv, EndedTold
<1>10. LateData'
    <2>1. \A v \in Workers : wpc[v] # "next" => job[v] \in Requests /\ job[v] # r
        BY <1>2, JobExists
    <2> QED
        BY <1>3, <1>4, <2>1 DEF AnswerInv, LateData
<1> QED
    BY <1>7, <1>8, <1>9, <1>10 DEF AnswerInv

\* Every other step settles or keeps each request.
LEMMA StepSettles ==
    ASSUME EngineInv, AnswerInv, Plain, Next, ~GetURL, ~PostURL
    PROVE  Settles
<1>1. CASE CloseConnections \/ CloseAllConnections
    BY <1>1, CloseRequestsSettles DEF CloseConnections, CloseAllConnections
<1>2. ASSUME NEW w \in Workers, GetNextRequest(w) PROVE Settles
    BY <1>2, GetNextRequestSettles
<1>3. ASSUME NEW w \in Workers, Download(w) PROVE Settles
    <2>1. ~StatusMoved(w)
        BY DEF StatusMoved, Plain
    <2>2. ~Requeue(w)
        BY DEF Requeue, AnswerInv, EndedTold
    <2> QED
        BY <1>3, <2>1, <2>2, DownloadCases, PlainActionsSettle, AdvanceSettles, StreamDataSettles,
           CloseSettles,
           ConnectMirrorSettles, ProcessWaitRequestSettles, EndProcessSettles
<1> QED
    BY <1>1, <1>2, <1>3 DEF Next

LEMMA NextAnswers ==
    ASSUME EngineInv, AnswerInv, Plain, [Next]_vars
    PROVE  AnswerInv' /\ [Contract!Next]_(Contract!vars)
<1>0. EngineInv'
    BY NextKeeps
<1>1. CASE GetURL \/ PostURL
    <2>1. AnswerInv'
        BY <1>1, AskKeepsAnswers
    <2>2. Contract!Ask
        BY <1>0, <1>1, <2>1, AskingStep DEF AnswerInv
    <2> QED
        BY <2>1, <2>2 DEF Contract!Next
<1>2. CASE Next /\ ~GetURL /\ ~PostURL
    <2>1. Settles
        BY <1>2, StepSettles
    <2>2. AnswerInv'
        BY <2>1, ToldOnceKept, PartsOfTheInvariant DEF Settles, AnswerInv
    <2>3. Contract!SettleSome \/ UNCHANGED Contract!vars
        BY <1>0, <2>1, <2>2, SettlingStep DEF Settles, AnswerInv
    <2> QED
        BY <2>2, <2>3 DEF Contract!Next
<1>3. CASE UNCHANGED vars
    <2>1. UNCHANGED <<info, told, queue, wpc, job>>
        BY <1>3 DEF vars, lists, workers
    <2>2. AnswerInv'
        BY <2>1 DEF AnswerInv, ToldOnce, NotYetTold, EndedTold, LateData, Queued
    <2>3. UNCHANGED Contract!vars
        BY <2>1 DEF Contract!vars, Asked, Answers, Forgotten, StandFor
    <2> QED
        BY <2>2, <2>3
<1> QED
    BY <1>1, <1>2, <1>3

-----------------------------------------------------------------------------
(* The specification. *)

LEMMA InitAnswers ==
    ASSUME Init, Plain
    PROVE  AnswerInv /\ Contract!Init
<1>1. AnswerInv
    <2>1. Queued = {}
        BY DEF Init, Queued
    <2> QED
        BY <2>1 DEF Init, AnswerInv, ToldOnce, NotYetTold, EndedTold, LateData, HTTP_NOTIFY
<1>2. AnswersAreTold
    BY <1>1, InitHolds, UsersStandForThemselves DEF AnswerInv
<1>3. Users = Requests
    BY DEF Plain, Users
<1>4. Asked = {} /\ Forgotten = {}
    BY <1>2, <1>3 DEF Init, Asked, Forgotten, AnswersAreTold
<1>5. [u \in Users |-> Answers(u)] = [u \in Users |-> 0]
    BY <1>2, <1>3 DEF Init, AnswersAreTold
<1> QED
    BY <1>1, <1>4, <1>5 DEF Contract!Init

\* The answers of a request are consistent with what has become of it: it is
\* told once, or twice if its data is streamed (ProcessBody), what waits or is
\* queued has not been told, and no data follows what an abort or a file that
\* failed has answered but the buffer that is being handed on.
THEOREM AnswersInvariant == Plain => (Spec => []AnswerInv)
<1> SUFFICES ASSUME Plain PROVE Spec => []AnswerInv
    OBVIOUS
<1>1. Init => AnswerInv
    BY InitAnswers
<1>2. EngineInv /\ AnswerInv /\ [Next]_vars => AnswerInv'
    BY NextAnswers
<1> QED
    BY <1>1, <1>2, EngineInvariant, PTL DEF Spec

\* Without redirects and 304 the engine implements its contract: each request
\* is answered at most once, or twice if its data is streamed, by the
\* DestroyStream of its stream manager, and only prefetches are forgotten, whatever duplicates, failures, mirrors and
\* aborts there are (GetURL, GetNextRequest, CloseConnections, StartDownload,
\* DoNotification).
THEOREM ImplementsContract == Plain => (Spec => AnswersOnce)
<1> SUFFICES ASSUME Plain PROVE Spec => AnswersOnce
    OBVIOUS
<1>1. Init => Contract!Init
    BY InitAnswers
<1>2. EngineInv /\ AnswerInv /\ [Next]_vars => [Contract!Next]_(Contract!vars)
    BY NextAnswers
<1>3. Spec => []AnswerInv
    BY AnswersInvariant
<1> QED
    BY <1>1, <1>2, <1>3, EngineInvariant, PTL DEF Spec, AnswersOnce, Contract!Spec
=============================================================================
