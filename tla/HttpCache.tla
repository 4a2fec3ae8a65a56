------------------------------- MODULE HttpCache -------------------------------
(***************************************************************************)
(* The disk cache of the HTTP engine (api/ChHTPriv.cpp, api/ChHTTP.cpp):   *)
(* the files of the cache directory, the database that maps a URL to a     *)
(* file name, a Last-Modified date and a size, the URLs seen in this       *)
(* session, and the requests that look an entry up when they are created   *)
(* and use what they found much later.  The files and the database outlive *)
(* the program, which may exit (and prune the cache) or crash.             *)
(*                                                                         *)
(* The engine is the threaded one with the default CH_CACHE_VERIFY_PER_    *)
(* SESSION.  How requests wait, are aborted and answered is HttpRequests;  *)
(* here a reply is what it does to the cache, and a stream is written in   *)
(* one step.  Dates are versions: a page has the version of its last       *)
(* change.  Assumed of the file system: GetTempFileName does not hand out  *)
(* a name twice, and a file that is being written has not, by chance, the  *)
(* size its database entry records.                                        *)
(***************************************************************************)
EXTENDS Integers, Sequences, SequencesExt, FiniteSets, Subsequences

CONSTANTS
    URLs,
    Keys,         \* what the database is keyed with ...
    KeyOf,        \* ... and the key of a URL: the URL in lower case
    Names,        \* file names GetTempFileName may return
    Jobs,         \* the ChHTTPInfo objects, each reused once it is deleted
    None,
    Limit,        \* the CacheSize preference
    MaxVersion,   \* bound: versions of a page
    MaxCalls,     \* bound: calls of the engine, in all sessions together
    MaxSessions   \* bound: runs of the program

ASSUME CacheAssumption ==
    /\ KeyOf \in [URLs -> Keys]
    /\ None \notin Names \cup URLs \cup Jobs
    /\ Limit \in Nat
    /\ MaxVersion \in Nat \ {0}
    /\ MaxCalls \in Nat
    /\ MaxSessions \in Nat

VARIABLES
    page,         \* the version of each page on its server
    file,         \* the files of the cache directory
    order,        \* their names by modification time, oldest first
    writer,       \* the request that has a file open to write it
    used,         \* names handed out so far
    db,           \* m_pURLDB
    visited,      \* m_httpVisited
    job,          \* the requests
    calls,        \* GetURL, DeleteCachedURL, ClearCache, CloseConnections so far
    running,      \* the program runs
    sessions,     \* sessions started so far
    got,          \* what the last step delivered to stream managers
    begin,        \* the pages as they were when the session began
    served,       \* names of the files delivered in this session, but for those
                  \* delivered because a connection was dropped (see Drops)
    untouched     \* names that were there at its start and not used since

disk == <<file, order, writer, used, db>>
process == <<visited, running, sessions, calls>>
ghosts == <<begin, served, untouched>>
vars == <<page, disk, job, process, got, ghosts>>

Versions == 1 .. MaxVersion
Lengths == {"part", "cut", "whole"}    \* "cut": the connection was dropped
Size(len) == IF len = "part" THEN 1 ELSE IF len = "cut" THEN 2 ELSE 3
Content == [url : URLs, ver : Versions, len : Lengths]
Entry == [name : Names, date : 0 .. MaxVersion, size : 1 .. 3]

ASSUME NoneAssumption == None \notin Content

Places == {"free", "queued", "notify", "wait", "asked", "local", "body", "closed", "stored", "ended"}
Job == [pc : Places, url : URLs \cup {None}, name : Names \cup {None}, date : 0 .. MaxVersion,
        any : BOOLEAN, abort : BOOLEAN]
Free == [pc |-> "free", url |-> None, name |-> None, date |-> 0,
         any |-> FALSE, abort |-> FALSE]

Exists(n) == n # None /\ file[n] # None
Present == {n \in Names : file[n] # None}
Active(j) == job[j].pc \in {"asked", "local", "body", "closed", "stored", "ended"}

Types ==
    /\ page \in [URLs -> Versions]
    /\ file \in [Names -> Content \cup {None}]
    /\ writer \in [Names -> Jobs \cup {None}]
    /\ used \subseteq Names
    /\ db \in [Keys -> Entry \cup {None}]
    /\ visited \subseteq URLs
    /\ job \in [Jobs -> Job]
    /\ calls \in 0 .. MaxCalls /\ sessions \in 0 .. MaxSessions

TypeOK ==
    /\ Types
    /\ order \in Seq(Names) /\ ToSet(order) = Present
    /\ \A i, k \in 1 .. Len(order) : order[i] = order[k] => i = k
    /\ running \in BOOLEAN /\ begin \in [URLs -> Versions]
    /\ served \subseteq Names /\ untouched \subseteq Names

Init ==
    /\ page = [u \in URLs |-> 1]
    /\ file = [n \in Names |-> None] /\ order = <<>>
    /\ writer = [n \in Names |-> None] /\ used = {}
    /\ db = [k \in Keys |-> None]
    /\ job = [j \in Jobs |-> Free]
    /\ visited = {} /\ running = FALSE /\ sessions = 0 /\ calls = 0
    /\ got = {} /\ begin = page /\ served = {} /\ untouched = {}

-----------------------------------------------------------------------------
(* The file system. *)

\* A file whose modification time becomes the present is the last in order.
Touched(n) == Append(Without(order, {n}), n)
Written(n) == /\ order' = Touched(n) /\ untouched' = untouched \ {n}

\* Faulty: deleted files keep their place.
UnlinkFaulty(ns) ==
    /\ file' = [n \in Names |-> IF n \in ns THEN None ELSE file[n]]
    /\ order' = order

\* DeleteFile succeeds for files nobody has open.
Unlink(ns) ==
    /\ file' = [n \in Names |-> IF n \in ns THEN None ELSE file[n]]
    /\ order' = Without(order, ns)

\* Faulty: the file is opened by whoever asks, whatever its sharing mode.
ReadableFaulty(n) == Exists(n)

\* fstreams are opened with sh_none, so reading waits for no writer: it fails.
Readable(n) == Exists(n) /\ writer[n] = None

\* What reaches the stream managers of the requests rs when n is streamed:
\* whether because the connection was dropped, and whether the entry of the
\* file had a date when the request was made.
Delivery(rs, n, dropped) ==
    IF Readable(n)
    THEN {[url |-> job[r].url, any |-> job[r].any, dropped |-> dropped,
           dated |-> job[r].date # 0, is |-> file[n]] : r \in rs}
    ELSE {}

Deliver(rs, n) ==
    /\ got' = Delivery(rs, n, FALSE)
    /\ served' = IF \E d \in got' : ~d.any THEN served \cup {n} ELSE served

Silent == /\ got' = {} /\ UNCHANGED <<served>>

Step(j, pc) == job' = [job EXCEPT ![j].pc = pc]

-----------------------------------------------------------------------------
(* The operations of ChHTTPSocketConn, called from the main thread. *)

\* HandleScheme: whether what the database says of a URL agrees with its file.
Cached(u) ==
    LET entry == db[KeyOf[u]]
    IN  entry # None /\ Exists(entry.name) /\ Size(file[entry.name].len) = entry.size

\* What a new request remembers of that; an entry without its file still gives
\* the name the file will have.
NewJob(u) ==
    [Free EXCEPT !.url = u,
                 !.name = IF db[KeyOf[u]] = None THEN None ELSE db[KeyOf[u]].name,
                 !.date = IF Cached(u) THEN db[KeyOf[u]].date ELSE 0]

\* Faulty: whatever is cached is served without asking its server.
ServedFromCacheFaulty(u, option) == Cached(u) /\ option # "reload"

\* GetURL: a cached page is asked for once a session, unless told otherwise.
ServedFromCache(u, option) ==
    Cached(u) /\ (option = "returnCache" \/ (option = "normal" /\ u \in visited))

\* With returnCache, and nothing there, the request is told so and is over.
GetURL(j, u, option) ==
    /\ running /\ job[j].pc = "free" /\ calls < MaxCalls
    /\ IF ServedFromCache(u, option)
       THEN job' = [job EXCEPT ![j] = [NewJob(u) EXCEPT !.pc = "notify", !.date = 0,
                                                        !.any = option = "returnCache"]]
       ELSE /\ option # "returnCache"
            /\ job' = [job EXCEPT ![j] = [NewJob(u) EXCEPT !.pc = "queued"]]
    /\ calls' = calls + 1
    /\ Silent /\ UNCHANGED <<page, disk, visited, running, sessions, begin, untouched>>

\* DeleteCachedURL, DeleteCache: only what a new request would find cached.
DeleteCachedURL(u) ==
    /\ running /\ calls < MaxCalls /\ Cached(u)
    /\ db' = [db EXCEPT ![KeyOf[u]] = None]
    /\ Unlink({n \in {db[KeyOf[u]].name} : writer[n] = None})
    /\ calls' = calls + 1
    /\ Silent /\ UNCHANGED <<page, writer, used, job, visited, running, sessions, begin, untouched>>

\* ClearCache deletes the files nobody has open; the database's own are, and
\* opening it anew finds the entries as they were.
ClearCache ==
    /\ running /\ calls < MaxCalls /\ Present # {}
    /\ Unlink({n \in Present : writer[n] = None})
    /\ calls' = calls + 1
    /\ Silent /\ UNCHANGED <<page, writer, used, db, job, visited, running, sessions, begin, untouched>>

\* CloseConnections, one request: pending ones are deleted, the others marked.
Abort(j) ==
    /\ running /\ calls < MaxCalls /\ job[j].pc # "free" /\ ~job[j].abort
    /\ job' = [job EXCEPT ![j] = IF @.pc \in {"queued", "notify"} THEN Free
                                 ELSE [@ EXCEPT !.abort = TRUE]]
    /\ calls' = calls + 1
    /\ Silent /\ UNCHANGED <<page, disk, visited, running, sessions, begin, untouched>>

-----------------------------------------------------------------------------
(* The worker threads. *)

\* GetNextRequest serves a request that only has to be notified.
Notify(j) ==
    /\ job[j].pc = "notify"
    /\ Deliver({j}, job[j].name)
    /\ job' = [job EXCEPT ![j] = Free]
    /\ UNCHANGED <<page, disk, process, begin, untouched>>

\* GetNextRequest: a request for a URL that is being downloaded waits.
Take(j) ==
    /\ job[j].pc = "queued"
    /\ Step(j, IF \E i \in Jobs : (Active(i) \/ job[i].pc = "wait") /\ job[i].url = job[j].url
               THEN "wait" ELSE "asked")
    /\ Silent /\ UNCHANGED <<page, disk, process, begin, untouched>>

Waiters(j) == {i \in Jobs : job[i].pc = "wait" /\ job[i].url = job[j].url}

\* CloseStream, then ProcessWaitRequest: the waiters get the same file.
Finished(j) == [i \in Jobs |-> IF i \in Waiters(j) THEN Free
                               ELSE IF i = j THEN [job[j] EXCEPT !.pc = "ended", !.date = 0]
                               ELSE job[i]]

\* The connection cannot be made, the server reports an error, or the request
\* was aborted before there was a file: its waiters are told so.
Fails(j) ==
    /\ job[j].pc = "asked"
    /\ job' = Finished(j)
    /\ Silent /\ UNCHANGED <<page, disk, process, begin, untouched>>

\* The connection is dropped before the body begins.  No error has been set,
\* so CloseStream streams the file the request would have written, if there is
\* one, as if it had been received; the waiters are told of an abort.
Drops(j) ==
    /\ job[j].pc = "asked" /\ ~job[j].abort
    /\ got' = Delivery({j}, job[j].name, TRUE)
    /\ job' = Finished(j)
    /\ UNCHANGED <<page, disk, process, begin, served, untouched>>

\* Status 304: the page has not changed since the date that was sent.
Unchanged(j) ==
    /\ job[j].pc = "asked" /\ ~job[j].abort
    /\ job[j].date # 0 /\ page[job[j].url] <= job[j].date
    /\ visited' = visited \cup {job[j].url}
    /\ Step(j, "local")
    /\ Silent /\ UNCHANGED <<page, disk, running, sessions, calls, begin, untouched>>

\* Faulty: the file keeps the time of its download.
KeepsFaulty(n) == UNCHANGED <<order, untouched>>

\* SetFileToCurrentTime, for the LRU order; it opens the file to write it.
Keeps(n) == IF Readable(n) THEN Written(n) ELSE UNCHANGED <<order, untouched>>

\* The file is streamed unless the request was aborted, and its waiters get it.
Local(j) ==
    /\ job[j].pc = "local"
    /\ IF job[j].abort
       THEN Silent /\ UNCHANGED <<order, untouched>>
       ELSE Deliver({j} \cup Waiters(j), job[j].name) /\ Keeps(job[j].name)
    /\ job' = Finished(j)
    /\ UNCHANGED <<page, file, writer, used, db, process, begin>>

\* Faulty: the date of the reply is taken for that of the page.
DateFaulty(j) == {MaxVersion}

\* The Last-Modified header; without one the date of the entry stays, and a
\* reply without headers has none.
Date(j) == {page[job[j].url], job[j].date, 0}

\* Faulty: names are made from the clock and may come back.
FreshNamesFaulty == Names

FreshNames == Names \ used

\* The name of the local file: MapURLToLocalName when there is none yet.
LocalName(j) == IF job[j].name = None THEN FreshNames ELSE {job[j].name}

\* Status 200, or no status line: the file is created or emptied, and held open.
Reply(j) ==
    /\ job[j].pc = "asked" /\ ~job[j].abort
    /\ job[j].date = 0 \/ page[job[j].url] > job[j].date
    /\ \E n \in LocalName(j), d \in Date(j) :
           /\ writer[n] = None
           /\ job' = [job EXCEPT ![j].name = n, ![j].date = d, ![j].pc = "body"]
           /\ used' = used \cup {n}
           /\ file' = [file EXCEPT ![n] = [url |-> job[j].url, ver |-> page[job[j].url],
                                          len |-> "part"]]
           /\ writer' = [writer EXCEPT ![n] = j]
           /\ Written(n)
    /\ Silent /\ UNCHANGED <<page, db, process, begin>>

\* CH_HTTP_ERROR_LOCAL_IN_USE: somebody, be it a reader, has the file open.
Refused(j) ==
    /\ job[j].pc = "asked" /\ ~job[j].abort /\ job[j].name # None
    /\ job' = Finished(j)
    /\ Silent /\ UNCHANGED <<page, disk, process, begin, untouched>>

\* OnDataComplete closes the file: the connection has been closed, by the
\* server or not.  The length the server announced is not looked at.
Close(j) ==
    LET n == job[j].name
    IN  /\ job[j].pc = "body" /\ ~job[j].abort
        /\ \E len \in {"cut", "whole"} : file' = [file EXCEPT ![n].len = len]
        /\ writer' = [writer EXCEPT ![n] = None]
        /\ Written(n) /\ Step(j, "closed")
        /\ Silent /\ UNCHANGED <<page, used, db, process, begin>>

\* The length received, counted while the file was written.
Received(n) == IF file[n] = None THEN {Size("cut"), Size("whole")} ELSE {Size(file[n].len)}

\* OnDataComplete enters what was received, under the lock, even if the file
\* has been deleted since it was closed.
Store(j) ==
    LET n == job[j].name
    IN  /\ job[j].pc = "closed"
        /\ \E size \in Received(n) :
               db' = [db EXCEPT ![KeyOf[job[j].url]] =
                          [name |-> n, date |-> job[j].date, size |-> size]]
        /\ visited' = visited \cup {job[j].url}
        /\ Step(j, "stored")
        /\ Silent /\ UNCHANGED <<page, file, order, writer, used, running, sessions, calls, begin,
                              untouched>>

Complete(j) ==
    /\ job[j].pc = "stored"
    /\ IF job[j].abort THEN Silent ELSE Deliver({j} \cup Waiters(j), job[j].name)
    /\ job' = Finished(j)
    /\ UNCHANGED <<page, disk, process, begin, untouched>>

\* An aborted request stops reading and goes on to its waiters.
Stops(j) ==
    /\ job[j].pc = "body" /\ job[j].abort
    /\ job' = Finished(j)
    /\ Silent /\ UNCHANGED <<page, disk, process, begin, untouched>>

\* RemoveConnection deletes the file an aborted request would have, or had; it
\* closes it first, under the same lock.
RemoveConnection(j) ==
    LET n == job[j].name
    IN  /\ job[j].pc = "ended"
        /\ IF job[j].abort /\ Exists(n) /\ writer[n] \in {j, None}
           THEN Unlink({n}) /\ writer' = [writer EXCEPT ![n] = None]
           ELSE UNCHANGED <<file, order, writer>>
        /\ job' = [job EXCEPT ![j] = Free]
        /\ Silent /\ UNCHANGED <<page, used, db, process, begin, untouched>>

-----------------------------------------------------------------------------
(* The program and the servers. *)

TotalSize(ns) == 3 * Cardinality({n \in ns : file[n].len = "whole"})
                 + 2 * Cardinality({n \in ns : file[n].len = "cut"})
                 + Cardinality({n \in ns : file[n].len = "part"})
Oldest(k) == {order[i] : i \in 1 .. k}

\* EnforceCacheLimit deletes the oldest files until the rest fits.
Evicted == {order[k] : k \in {i \in 1 .. Len(order) : TotalSize(Present \ Oldest(i - 1)) > Limit}}

Ends ==
    /\ running' = FALSE /\ visited' = {} /\ served' = {} /\ untouched' = {} /\ got' = {}
    /\ job' = [j \in Jobs |-> Free]

\* ExitInstance, after TermHTTPInfo has waited for the workers: the cache is
\* pruned, and with it the database, when it is too large.
Exit ==
    /\ running /\ \A j \in Jobs : ~Active(j)
    /\ Unlink(Evicted)
    /\ db' = IF Evicted = {} THEN db
             ELSE [k \in Keys |-> IF db[k] # None /\ file'[db[k].name] = None THEN None ELSE db[k]]
    /\ Ends /\ UNCHANGED <<page, writer, used, sessions, calls, begin>>

Crash ==
    /\ running /\ Ends
    /\ writer' = [n \in Names |-> None]
    /\ UNCHANGED <<page, file, order, used, db, sessions, calls, begin>>

Start ==
    /\ ~running /\ sessions < MaxSessions
    /\ running' = TRUE /\ sessions' = sessions + 1
    /\ begin' = page /\ untouched' = Present
    /\ Silent /\ UNCHANGED <<page, disk, visited, calls, job>>

\* Somebody changes a page.
Modify(u) ==
    /\ page[u] < MaxVersion
    /\ page' = [page EXCEPT ![u] = @ + 1]
    /\ Silent /\ UNCHANGED <<disk, job, process, begin, untouched>>

Calls ==
    \/ \E j \in Jobs, u \in URLs, o \in {"normal", "reload", "returnCache"} : GetURL(j, u, o)
    \/ \E u \in URLs : DeleteCachedURL(u)
    \/ ClearCache
    \/ \E j \in Jobs : Abort(j)

Worker(j) ==
    \/ Notify(j) \/ Take(j) \/ Fails(j) \/ Drops(j) \/ Unchanged(j) \/ Local(j) \/ Reply(j)
    \/ Refused(j) \/ Close(j) \/ Store(j) \/ Complete(j) \/ Stops(j) \/ RemoveConnection(j)

Next ==
    \/ Calls
    \/ \E j \in Jobs : Worker(j)
    \/ Exit \/ Crash \/ Start
    \/ \E u \in URLs : Modify(u)

Spec == Init /\ [][Next]_vars

-----------------------------------------------------------------------------
(* What the cache promises. *)

\* What is delivered for a URL is a copy of that page, whatever other requests
\* did to the files since its entry was looked up (HandleScheme, StreamURL).
ServedOwn == \A d \in got : d.is.url = d.url

\* A file still being written, or left half-written by a crash, is never
\* delivered: it is locked, and later its size betrays it.  (It is when the
\* connection is dropped of a request whose entry had no date: see Drops.)
NeverPart == \A d \in got : ~d.dropped \/ d.dated => d.is.len # "part"

\* With CH_CACHE_VERIFY_PER_SESSION, what is delivered was the current version
\* at some time in this session, across restarts, crashes and aborts (GetURL;
\* requests for whatever the cache has are exempt, and those whose connection
\* is dropped get a file nobody has vouched for).
FreshThisSession == \A d \in got : ~d.any /\ ~d.dropped => d.is.ver >= begin[d.url]

\* The database never credits a file with a later version than it holds, else
\* the next If-Modified-Since would keep an old copy for good (OnDataComplete).
DatesAreEarned ==
    \A k \in Keys : db[k] # None /\ Readable(db[k].name) => file[db[k].name].ver >= db[k].date

\* Pruning keeps no file this session did not use while it deletes one that was
\* delivered in it ("deleting file in ascending order", EnforceCacheLimit), but
\* for what dropped connections deliver, which is not dated anew.
EvictsUnusedFirst ==
    [][Exit => \A m \in served, n \in untouched :
                   file[m] # None /\ file'[m] = None => file'[n] = None]_vars
=============================================================================
