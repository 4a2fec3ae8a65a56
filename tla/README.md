# A TLA+ model of the Pueblo client

Pueblo is a Windows client for text worlds (MUDs) with HTML, sound and VRML. This
directory holds a TLA+ development of the parts of it where the order of events decides
whether it works: the threaded HTTP engine with its cache and its cookies, the connection
to a world with its nested message loops, the world's text and the command line, the
command history, and the loading and unloading of modules.

Paths below are under `src/`. Definitions whose comment begins with "Faulty" are variants
with a plausible bug. No specification uses them; put in the place of the definition they
vary, they make a property fail, which shows that the property can fail.

## 1. Inventory

| Component | State it keeps | Operations | Talks to |
|---|---|---|---|
| HTTP thread pool (`api/ChHttpThreadMgr.*`, `api/ChThread.cpp`) | thread objects with four flags and two events each; five manager events | request, idle, worker-die and shutdown handlers; the worker loop | request queue; main thread through events |
| HTTP request engine (`api/ChHTPriv.*`, `api/ChThread.cpp`, `api/ChHTTP.cpp`) | request queue, connection list, number of active connections, a state per request | `GetURL`, `PostURL`, `AbortRequests`, `CloseAllConnections`, `GetNextRequest`, `StartDownload`, redirects | pool, sockets, cache, streams |
| HTTP cache (`api/ChHTPriv.cpp`, `api/ChHTTP.cpp`) | files, database of URLs, URLs of the session | `HandleScheme`, `OnDataComplete`, `DeleteCache`, `ClearCache`, `EnforceCacheLimit` | requests; survives exit and crash |
| HTTP cookies (`api/ChHttpCookie.cpp`) | a list of cookies per domain, a file | set, replace, expire, save, load | requests |
| HTTP streams (`api/ChHTNtfy.cpp`) | stream of a request, progress counters | `InitStream`, `CloseStream`, `StreamURL` | stream managers, under a lock per thread |
| Sockets, lookups, SOCKS (`api/ChSock.cpp`, `api/ChSocksProxy.cpp`) | socket states, listed lookups, waits that dispatch messages | connect, lookup, proxy, cancel, close | window messages |
| World connection (`modules/client/msw/ChWorld/ChWorld.cpp`, `ChWConn.cpp`, `ChTextOutput.cpp`, `ChWorldStream.cpp`) | world, connection, connecting dialog, connect ID; scanner, ANSI and telnet state | open, connect, cancel, receive, disconnect; documents a world asks for | sockets, HTTP engine, text output |
| Command line (`ChWorld/ChTextInput.cpp`) | a visible and a hiding edit control, echo state | keys, send, echo on and off, Tab | history, world |
| Command history (`ChWorld/ChHist.*`) | list, cursor | add, up, down, send from the menu, complete | command line |
| Module manager (`client/msw/ChPbModuleMgr.cpp`, `ChRunTimeInfo.cpp`, `ChClCore.cpp`) | table of use counts | load, unload, `UnloadAll` | the modules, which load each other |
| Dispatcher, hooks, messages (`api/ChDispat.cpp`, `ChHook.cpp`, `ChMsg*.cpp`) | handler tables | register, send | all modules |
| HTML parser, text engine, frames, page history (`api/ChHtml*`, `ChTxt*`) | pages, frames | load, show, go back | HTTP engine |
| TinTin, world lists, containers, sound, plug-ins, DDE and OLE, graphics, preferences, codecs | - | - | section 8 |

What is hard, and where:

* threads: auto-reset events that coalesce, thread objects that do not live as long as
  their threads, a request's state written by the main thread and by a worker, critical
  sections that cut one logical step in two, requests that ride on another's download;
* handlers that nest: the main thread waits for the network inside handlers and dispatches
  messages meanwhile, so a cancellation, a close or another connect runs under the wait of
  a connection, with the dialog, the socket and the lookup each having its own idea of
  what is under way;
* late answers: lookups for a world that has gone, files and scripts of an earlier world;
* a stream cut anywhere: escape sequences, telnet commands and lines end in later packets,
  negotiations of the echo overlap while the user types a password;
* persistence: cache files, their database and the cookie file over crashes and restarts;
* positions and counts that outlive what they refer to: the history's cursor, use counts
  of modules that load each other.

`PROJECT.json` lists the hazards at their lines, with the properties that watch them.

What makes each component correct:

* pool: never more threads than connections; a queued request is always somebody's
  business; a shutdown is acknowledged;
* requests: each is answered once; one download of a document at a time; a waiting
  request has something to wait for; prefetches yield;
* cache: who asks for a page gets a copy of that page, not a half-written one, and one that
  was current in this session; the database credits no file with more than it holds;
* cookies: what the file holds is what a crash must not lose;
* world connection: cancelled means offline; a wait ends, and not after its connection
  is gone; every attempt to connect ends; a world sees its own files;
* text and command line: packets make no difference; tags balance; both sides agree on
  the echo; what is typed hidden stays hidden;
* history: the cursor refers to a line that is there; modules: each is terminated once.

## 2. Modules

| Module | Content |
|---|---|
| `HttpThreadPool` | the pool: manager, workers, main thread |
| `HttpThreadPoolInv`, `HttpThreadPoolProofs` | its inductive invariant `PoolInv` and the proofs |
| `HttpRequests` | the requests: queue, connection list, `StartDownload` step by step |
| `Subsequences` | deletion of elements from a list that is walked |
| `ListProofs` | lemmas: induction over positions, lists built from left to right, what deletion leaves |
| `HttpRequestsInv`, `HttpRequestsProofs` | the inductive invariants of the requests, the proofs about the lists and downloads, and the proof of the refinement |
| `HttpContract`, `HttpRequestsContract` | the abstract specification, every request is answered once, and the refinement mapping |
| `HttpCache` | files, database, requests that use them, prune, exit, crash |
| `HttpCacheInv` | its inductive invariant |
| `HttpCacheProofs` | the proofs: whose copy a file is; and order, owners, wholeness and age of the files |
| `Cookies` | cookies in memory and on disk, with the inductive invariant `CookiesInv` |
| `WorldSession` | lookup, dialog, socket, proxy, nested waits, documents of a world |
| `WorldSessionInv`, `WorldSessionProofs` | its inductive invariant and the proofs: what holds always, and what holds of the nested waits |
| `WorldText` | pure operators: `ProcessOutput` on a packet, ANSI codes, telnet commands, the input field |
| `WorldTerminal` | world, network and user around them |
| `WorldTerminalInv`, `WorldTerminalProofs` | its inductive invariant `TerminalInv` and the proofs |
| `CommandHistory` | history and edit control, with the inductive invariant `HistoryInv` |
| `ClientModules` | the module manager and the modules' loading of each other, with the inductive invariant `ModulesInv` |
| `ClientModulesProofs` | the proofs about it |
| `Client`, `ClientProofs` | history, modules and cookies in one specification; the proofs about history and cookies, and the types of all three |
| `MC*` | instances for TLC |

`WorldTerminal` builds on `WorldText`; `WorldSession` and `WorldTerminal` cut the world
connection between its life and its text. `HttpRequests` takes the pool's service of the
queue as fairness, and `HttpCache` takes from `HttpRequests` what a request may do to the
cache. The proofs rest on chains of EXTENDS: specification, invariant, proofs, so that TLC
checks the very invariant that is proved. `Subsequences` takes the place of the community
modules' `SelectSeq` where a list is proved about: the code deletes from a list while it
walks it (`GetNextRequest`, `DeleteFile` on the directory), and the provers know nothing of
what a recursive operator with an operator for its argument computes.

### HttpThreadPool

A thread object is a number in the order of creation. The manager only appends to its
list, so list order is number order and the list is a set. `idle`, `dead`, `working` and
`critical` are the flags of `ChHttpThread`, `procEv` and `termEv` its events, `pc` the
place of its OS thread in `HTTPProcessDownload`. `SetDead( true )` comes before
`TriggerTerminate()`, and in between the object may be deleted or get a second OS
thread, so `tail` counts OS threads that have marked the object and are still running.
The wait for several events returns the first that is set, hence the guards of `MgrIdle`,
`MgrDie`, `MgrShutdown` and `WakeToEnd`. `ProcessIdleEvent` is cut into three steps,
because workers write the flags and the queue between them. `ProcessShutdownEvent` walks the
list object by object while the threads end, and starts over after each object it deletes
(`scan` is what the walk has before it, `boolThreadsActive` the code's local). `m_boolWorking` is not
initialised by the constructor: `CreateThread` leaves it open. What a worker does with its
request is one step here (`TakeJob` .. `FinishJob`) except for a redirect, which queues a
request and wakes the manager.

### HttpRequests, HttpContract

`info[r]` holds the fields of a `ChHTTPInfo` that decide something: state, URL,
connection, abort flag, error, completed flag and stream state. `told[r]` is the list of
what `DestroyStream` was told. `user` says for which request of the user a redirect's
request stands (`m_userData` is handed on). Every section under `LockHTTP` is one action.
`GetNextRequest` is one such section: its scan is stated by where it stops and what
happens to the entries before (notified, parked as duplicates, passed over as
prefetches). Outside the lock `StartDownload` is cut where it acts on something read
before: after the connect, after the switch on the state in `ProcessBuffer`, in the 304
case, in `ProcessBody` between the look at the abort flag and the stream (`DataArrives`,
`StreamData`), before `OnDataComplete`, between `ProcessWaitRequest` and `RemoveConnection`.
`Streamed` are the requests whose stream manager takes data as it arrives (`streamNormal`);
only these go through the window of `ProcessBody`.

Left out: bytes; progress counters; the filter
of `CloseConnections` by stream manager (an owner is one stream manager of a connection);
the few instructions between the test of the abort flag in `SendRequest` and `SetState`,
which end like an abort before the test since the socket is closed.

In the contract a request is asked once, answered at most once, or at most twice if it is
streamed, and only a prefetch may be forgotten. The second answer is what the code does
(section 5); that there is no third, and that nobody else gets a second one, is the
contract. The fair version answers or forgets every request. The mapping counts what all
objects that stand for a user's request have been told.

### HttpCache

`file`, `order` (by modification time), `writer` and `used` are the directory, `db` is
`m_pURLDB`, `job` the `ChHTTPInfo` objects, `visited` is `m_httpVisited`. A job copies its
name and date from the database when it is created (`NewJob`, from `HandleScheme`) and
acts on them much later (`Unchanged`, `Local`, `Reply`), which is the point of the model.
Sharing modes are modelled: a file that is written can be neither read nor deleted.
`Close` and `Store` are the two halves of `OnDataComplete`; `RemoveConnection` deletes the
file of an aborted request. A connection may be dropped at any point: in the body the file
is complete as far as anybody can tell (`Close`), before it the file of an earlier download
is delivered as a success (`Drops`). `Exit` prunes (`EnforceCacheLimit`) after the workers have
ended; `Crash` may come at any time. Dates are versions of pages. `got` holds what the
last step delivered; `begin`, `served` and `untouched` are history for the properties.

The engine is the threaded one with the default verification once a session. A stream is
written in one step. Assumed of the file system: `GetTempFileName` does not hand out a
name twice, and a file being written has not by chance the size its old entry records.

### Cookies, CommandHistory, ClientModules

`Cookies` keeps one list per domain in the order of `ChHttpCookie`, the flag `m_boolSaved`
and the file; a header may hold several names, which is how one cookie replaces part of
another. `WriteCookieFile` is a sequence of steps: it opens and truncates the file
(`Truncate`, `OpenFails`), writes a line after the other (`WriteLine`), and a crash or a full
disk may come between any two, or leave the last line in part (`Torn`). The HTTP lock is
held meanwhile, so no other cookie is set. `CommandHistory` numbers the lines ever sent, so that a position that outlives
its line is a number up to `dropped`; `place` and `curr` are the state of `ChHistory`, the
rest belongs to the edit control. `ClientModules` holds the calls in progress as a stack,
since a module is destroyed in the middle of whatever call took its count to zero. Its
inputs are every set of installed modules with every order of their ids. `Client` puts the
three side by side: a behaviour is one of a single part, and the others stand still.

### WorldSession

Everything runs on one thread, so the model has a stack of handlers that wait (`stack`,
innermost first): the wait for a proxy's address, for a connection, for a proxy's reply,
and message boxes. `Dispatching` says when another message may be handled, `MustReturn`
when the innermost loop sees its flag and returns. `conn` is `*m_pWorldConn` with the flags
of its socket; a frame keeps the number of the connection it waits for, so that a frame
whose connection was deleted is `Dangling`, and what its loop then reads is a free choice.
`lookups` is `sockasyncinfo::m_reqList`. A lookup's answer and its notification are two
messages. `connectID` is `m_iConnectID`; `requests` are documents worlds asked for, with
the steps of `ChWorldStream` (complete, tested, posted). `features` says what may happen in
a behaviour: a proxy, scripts of a world, links to worlds. It is chosen at the start, so
that one run covers all combinations and properties can say which they need.

### WorldText, WorldTerminal

`ParseText` goes through a packet like `ProcessOutput`: scanner states, the ANSI sequence,
the telnet command, the line handed to the actions, and the output as text and tags. The
characters are the kinds the code tells apart. `WorldTerminal` has the stream the world has
written, how much of it has arrived, and the user. A packet is any part of what is on its
way. The world keeps to the telnet protocol for its echo: it offers and withdraws it and
reads the client's answers in order. The world is one that shows its login on the command
line, one where the user name is known, or one that logs in by two lines. The user types
(`Type`), moves through the history (`Up`, `Down`), completes or transposes (`Rewrite`), sends
a line (`OnSendKey`) or one of the menu (`SendFromMenu`). The last four set the whole text with
`SetWindowText`, of which only the hidden control notifies (`SetWindowText`): it has a single
line, and a multi-line control sends no `EN_UPDATE` for it. `ended` is the text each
control puts aside when the user begins to browse (`m_strEndText`), `checked` says whether
the visible text has been looked at by `CheckForPasswordProtection` since it was set.

## 3. Runs

| Run | Question | Bounds | States |
|---|---|---|---|
| `pool_safety` | inductive invariant, no lost wake-up, pool at its limit | 3 requests + 1 redirect, 2 connections, 4 objects, 1 failed start | 203,181 |
| `pool_live` | life of objects and threads; requests served, shutdown acknowledged, excess ended | 3 requests, 3 connections (one thread is not critical), no redirect | 160,588 |
| `requests_safety` | lists apart, active count; inductive invariant | 2 requests + 1 redirect, mirrored document, 2 owners, 2 workers, 1 abort | 144,576 |
| `requests_settles` | one download per document; nothing stays queued or in a download | 2 requests (one a post) + 1 redirect, 2 documents and a bad URL, 1 abort | 520,993 |
| `requests_prefetch` | prefetches yield | 3 requests + 1 prefetch, 3 workers: two must be busy for one to be passed over | 118,820 |
| `requests_contract` | refinement of the contract, safety | 2 requests (one streamed) + 1 prefetch, 2 documents and a bad URL, 1 abort; no 304, no redirect | 1,491,612 |
| `requests_answered` | refinement of the fair contract | 1 streamed request + 1 prefetch, a document each, 1 abort | 19,890 |
| `requests_stranded` | disagreement 1 | 2 requests, 2 workers | violated |
| `http_cache` | own, whole, fresh copies; dates; eviction; inductive invariant | 2 pages of 2 versions, 2 names, 2 requests at a time, 4 calls, 2 sessions, room for one page | 2,364,202 |
| `world_session` | cancel, nesting, late files, attempts end; inductive invariant | 2 worlds, 2 documents, all 8 sets of features | 200,034 |
| `world_terminal` | packets, tags, echo, secrets; inductive invariant | streams of 7 characters, 4 of the 13 kinds of things to write (newline, a colour code with its reset, offer and withdrawal of the echo), 4 keys, 2 connections, lines cut at 5 | 258,410 |
| `client_parts` | history, modules, cookies | history of 2 lines, 5 lines sent; 5 modules in any order; 2 domains, 3 lists of names, 3 dates | 692,099 |

Why these are enough to mean something. Every hazard of the pool needs at most two threads
beside the manager and one that is not critical. Every hazard of the requests involves one
download, one request that duplicates or follows it, and one call from outside. The cache's
need two requests whose names cross, one eviction and one restart; with room for one page
both pages cannot stay. A second world is what a late answer can be taken for; a third adds
no new relation to the current one, and connections are numbered by their worlds, so
nothing depends on how many there are. Escape sequences, telnet commands and the pair of
newline characters are two to six characters, so seven characters hold one with something
before or after it, cut anywhere; the other kinds are what the theorems are for. Four keys
are a text, Up, Down and Send, so that what was put aside in one connection comes back in
the next. A history of two lines drops a line with the third. The lists of names are not
empty in the run: a torn line without a name would be read back as a cookie that matches
nothing, and lists would grow with every crash; the theorems leave the names open.

Bounds that the code does not have: `MaxThreads`, `MaxFailures`, `MaxCloses`, `MaxVersion`,
`MaxCalls`, `MaxSessions`, `MaxWorlds`, `MaxRequests`, `MaxBytes`, `MaxKeys`, `MaxLines`,
`MaxTime`. `CHECK_DEADLOCK FALSE` is set everywhere because each of these systems may stop:
nothing is asked any more, the bounds are used up, or the program has ended.

The run `client_parts` checks three components that do not meet. Each behaviour belongs to one of
them, so the number of states is a sum and not a product. Symmetry is used only in runs of
safety properties, for interchangeable workers, requests, names and URLs.

## 4. Fairness

* Pool: the workers, the manager and the rest of a main-thread call are weakly fair, since
  they are threads of a preemptive system that wait on nothing else. New requests, the
  shutdown and redirects are not fair.
* Requests: weak fairness of each worker, and strong fairness of the end of its input
  (`InputEnds`): sockets answer, fail or are closed, and no server sends for ever. The fairness of `GetNextRequest` stands for what `HttpThreadPool` shows, that a
  queued request finds a worker. Aborts and new requests are not fair.
* World session: lookups are answered (the lookup runs in a task of the system that
  always posts its message), and waits return: the network's lasts a minute at most, provided that
  some message arrives after it (the limit is tested after a message, `ChSock.cpp:1379`), the
  user closes message boxes. Nothing else is fair: the network need not answer, the user
  need not cancel.
* Terminal: what the world has written arrives and the world reads the answers, as long
  as the connection lasts.
* Cache, cookies, modules, history: safety only.

## 5. Where the code does not do what it says

One disagreement is checked as a violated run:

1. `requests_stranded` (`WaiterHasDownload`). `StartDownload` notifies the waiting requests in
   one critical section and leaves the connection list in another. A request for the same
   URL that `GetNextRequest` sees in between becomes a duplicate of a download that is
   over, and waits for ever.

The following formulas are defined in the modules, state what a comment promises, and fail
when added to a configuration. The counterexamples:

2. `QuitAfterWorkers` (`HttpThreadPool`, configuration `pool_safety`). "all worker threads have terminated, time to quit": a
   worker marks its object dead before its last use of the object and of the manager. The
   manager finds no live thread and acknowledges, the main thread deletes it, the worker
   goes on.
3. `ShutdownCompletes` with redirects (`FairSpec` with one in `Redirects`).
   `ProcessRequestEvent` does not look at `m_boolShutdown`. A redirect followed after
   `ProcessShutdownEvent` starts a thread that nobody tells to end, and `TermHTTPInfo` waits
   for ever.
4. `AbortedAreRemoved` (`HttpRequests`). `CloseConnections` sets a request that waits for
   another's download to `HTTP_END_PROCESS` and leaves it in the connection list; no worker
   has it, so nobody removes it, and every later request for its URL waits for it.
5. `RedirectDownloads` (`HttpRequests`, one redirect with a duplicate). `HandleError` moves
   the waiting requests to the new URL and queues the request for it. `GetNextRequest` then
   finds them in the connection list and takes the new request for their duplicate: each
   waits for the other.
6. `DialogHasWorld` (`WorldSession`). When `Connect` throws, the handler shuts the world down
   but the connecting dialog stays with no world behind it.
7. `LinesAsWritten` (`WorldTerminal`). A packet that ends just before a newline: the newline is
   the first thing of the next packet and does not end the line, so the actions see two
   lines joined.

And these are in the models without a formula, or as an exception of one, since the source promises nothing in so
many words. They are why some runs exclude a reply or a feature:

* the walk of `ProcessShutdownEvent` deletes objects whose threads it has told to end earlier in
  the same walk. When it empties the list that way it sends no acknowledgement
  (`boolThreadsActive`), and if the last thread has announced its end by then, nothing else
  does: `TermHTTPInfo` waits for ever. `ShutdownCompletes` excepts it by name (`DeletedUntold`);
* `ProcessBody` looks at the abort flag and then sets `streamInData` without the stream's
  lock, so an abort in between destroys a stream that `CloseStream` destroys again, although
  "if stream is already destroyed, do nothing" (`ChHTNtfy.cpp:306`). So does a cache file that
  cannot be created: `ProcessHeaders` goes on to `ProcessBody` after `CloseStream`. The
  contract allows streamed requests a second answer for this;
* a connection dropped before the body leaves no error, and `CloseStream` delivers the file
  an earlier download has left, without asking its server and, for an entry without a date,
  even half-written. The requests that wait for it are told of an abort, and the file is not
  dated anew. `NeverPart`, `FreshThisSession` and `EvictsUnusedFirst` except what is
  delivered that way; `ServedOwn` does not;
* the cookie file is truncated and written in place, and a failure to open it is ignored: a
  crash in the middle of the write loses the cookies that were not written yet;
* a line of the history, a completion, a transposition and a line of the menu come into the
  visible field without a look at `CheckForPasswordProtection`. A login sent late in one
  session (kept, since the login was known) can be shown and kept again at the beginning of
  the next. `LoginNotKept` excepts texts that were not looked at (`checked`);
* a secret in the hidden field is put aside when Up begins to browse, and Down sets it again,
  in the hidden control, also in the next session, where a text that does not look like a
  login makes it visible: "Don't add blank lines or passwords to the history" is kept, but the
  secret is on the screen. `SecretsHidden` excepts what was put aside;
* the label of a file (`m_pInfo`) changes with the click on a link, while the last text of the
  old connection is still read: `FileForItsWorld` is about the label;
* a redirect to a URL that cannot be parsed is never reported to the stream manager;
* an abort between the test of the flag and `StreamURL` in the 304 case destroys the
  stream twice; one between a redirect and the end of the redirected request answers the
  same user data twice: `requests_contract` excludes both replies;
* a post for a URL that is being downloaded is parked as a duplicate and answered with the
  other document;
* a connection that drops in the body is stored as a complete page;
* the database is keyed by the URL in lower case: two URLs that differ only in case share an
  entry, and one is served the other's page. `KeysTellURLs` names that condition; the run's
  keys satisfy it and the theorem has it as its hypothesis;
* after a proxy's reply the wait for it goes on until its minute is over, because the flag
  of the lookups is stopped and not that of the socket;
* `CancelBlocking` deletes the lookup of a proxy that is still waited for and read;
* a script of an earlier world is executed in the next one: only files test the connect ID;
* a lookup can be left listed, or waited for and unlisted, once a proxy, a script or a link
  disconnects a world in its lookup phase (`WaitingIsListed` is stated without them);
* `WILL EOR` is answered twice, `DO` and then `DONT`;
* the position of the Tab completion is kept when a line is sent from the menu, and may
  refer to a line that has been removed (`TabDangles`).

## 6. Proofs

`tlapm` checks every proof to its leaves. No theorem uses an assumption other than the
named assumptions on the constants, which TLC evaluates in the runs.

* **Pool** (`PoolAssumption`). `PoolInv` is inductive, and from it come `TypeOK`, `PoolBound`,
  `OneThreadPerObject`, `CriticalKept`, `ObjectsOutliveThreads` and `RequestOwned`. That an idle
  event will free a thread for a queued request is true of the first thread object only:
  it is critical, so nobody ends it, and without failures it is never dead
  (`BeforeShutdown`); whenever it is not marked idle it looks into the queue again or has
  an idle event on the way (`FirstThreadInv`); so a queued request that no event announces
  is one that thread 1 will find (`OwedToFirst`).
* **Lists** (`ListProofs`). What `Without` leaves has the elements that were kept, in
  their order, each as often as before. The positions that are kept are numbered by their
  rank, and that the ranks are exactly 1 .. n follows by counting (`RankIsBijective`). The
  library's induction theorems are about an operator and cannot be instantiated, so
  `InductionUpTo` states induction for a set and is proved from a minimal counterexample
  (`WellFoundedInduction`); `FoldIsDefined` gives the recursive function that goes through a
  list from left to right.
* **Requests** (`HttpRequestsProofs`, `RequestsAssumption`). `EngineInv` is inductive for any
  number of requests, workers, owners, connections and URLs. `ListsApart` alone is not: a
  redirect creates a request that is in no list until its worker queues it, so the
  invariant must say that nobody else has it and that an abort cannot find it
  (`RedirectsHeld`); a worker outside `StartDownload` has no request (`IdleWorkers`); and the
  connection list holds only requests that exist. `OneDownloadPerURL` and `PrefetchYields`
  follow. `OneDownloadPerURL` is proved for `Mirrored = {}`: a mirrored document's download
  changes its URL (`ConnectMirror`) without a look at the other downloads, and TLC finds
  two downloads of one document after seven steps when there is one.
* **Refinement** (also `HttpRequestsProofs`). Without redirects and without 304 replies (`Plain`)
  the engine implements `HttpContract`: initial states map to initial states, and each
  step settles some requests, asks for one, or is a stutter (`AnswersOnce`). The mapping
  needs to know that a stream manager is told once, and a second time only if its data is
  streamed (`ToldOnce`), that what is queued or waits has not been told (`NotYetTold`), that a
  worker that is at the end of its request has told it (`EndedTold`), and, for the bound of
  two, that after an abort or a failed file nothing but the buffer in the window of
  `ProcessBody` is handed on (`LateData`). `Plain` is needed, see
  section 5: after a 304 `StreamURL` tells what an abort has told, and an aborted redirect
  answers twice.
* **World, what holds always** (`WorldSessionProofs`, `WorldBounds`). `BaseInv`: types; no
  connection without a world; a request that carries the current connect ID was made by
  the current world while it was online (`IDsTellWorlds`). It gives `FileForItsWorld` and
  `CanceledStaysOffline` for any number of worlds and documents and all features. The proof
  sums up the actions in three kinds (`Opens`, `Closes`, `GoesOn`; lemma `Moves`), so the
  invariant is proved of three shapes of step and not of twenty-four.
* **World, the nested waits** (also `WorldSessionProofs`). Without a proxy and without scripts,
  `SessionInv` describes the stack: it holds message boxes only (`Resting`), or the wait of
  the current connection at the bottom with nothing above it but boxes that tell of its
  failure (`Connecting`). That alone is not inductive: the end of a lookup begins a wait,
  so the invariant must also say that at most one lookup is listed (`OneLookup`) and that
  nobody waits when its answer can begin a connection (`AnswerFindsNobody`), and that a
  connection that is online has a connected socket. It gives `ConnectionOutlivesWait`, and
  without links `WaitingIsListed`.
* **Cache, whose copy** (`HttpCacheProofs`; `CacheAssumption`, `NoneAssumption`). `ServedOwn`
  follows from a relation that is about more than what is delivered: a name is *claimed* for
  a page by the file's content, by a database entry or by a request that has copied the
  name. `NamesTellURLs` says that all claims on a name are for one page, and that names not
  handed out are not claimed. Files can be deleted, truncated and come back while requests
  keep their names; claims only grow when a request is made (it copies a claim), when a page
  is written under its own or a fresh name, or when it is entered. Storing an entry keeps
  claims apart only if no other URL has the same key, hence `KeysTellURLs`. `Held` (who
  writes a file has it) is needed because `Close` and `Store` act on a file that others try
  to delete.
* **Cache, sessions** (also `HttpCacheProofs`). `CacheInv` is built in layers, each proved
  from those below. The directory is in the order of its times, without repetition
  (`InOrder`). Nothing is left of a session when it ends (`Resting`). No two requests work
  on one page, and a file that is open has its own writer (`OneActive`, `Writers`): with
  `NamesTellURLs` this means that of the requests at work at most one means a given file.
  Then `Wholes`: sizes in the database are not those of halves, and whoever found a file
  there, or has a date to send, cannot meet an abandoned half of it later. It gives
  `NeverPart`. `Dates`: a date never exceeds the version of the file it goes with; it gives
  `DatesAreEarned`. `Verified`: an entry whose page has been asked for in this session, and
  the file of a request past its reply, are no older than the session; a request made
  before its page was visited still has the name of the entry, so a 304 for its file vouches
  for the entry. It gives `FreshThisSession`. `Renewals`: a file that was delivered has been
  dated anew, or some request is about to do so or to delete it; at exit nobody is, and
  pruning takes a prefix of the order because what is left only shrinks (`OldestFirst`), so
  `EvictsUnusedFirst`. What a dropped connection delivers is outside `Verified` and `Renewals`,
  which is why the properties except it; `Wholes` still covers it when the request had a
  date, because then its entry has been checked against the file. The last four need `KeysTellURLs`, as the code does.
* **Terminal** (`WorldTerminalProofs`; `TerminalBounds`, `UnitsAssumption`,
  `MaxLineAssumption`). For streams, packets, lines and answers of any length. `ReadCodes` and
  `ScanPacket` are recursive functions, and everything about a packet is proved of one
  character first (`ParseCharSound`, `ParseCharAgrees`, `ScanIs`) and then carried along the
  packet (`FollowsLater`, `ReadAlike`, `SameBeginning`). `TagsBalanced` needs that a code
  changes an attribute exactly as much as the tags it writes (`Excess`). `SecretsHidden` and
  `LoginNotKept` need `FieldInv`: the field on the screen is the one that takes the keys,
  while the client itself hides a login the hidden one holds a secret only if
  one was put aside (`FieldProper`), and a login in the visible field need not be hidden or
  has not been looked at (`LoginCovered`, `checked`). The idea behind `PacketsDoNotMatter` is `Arrived`: the
  connection agrees, but for lines, newlines and the field, with one that reads the whole
  stream at once, at the place it has got to; two connections that agree still agree after
  the same characters, even when one of them takes a newline as the second of a pair and
  the other does not (`ScanAlike`). `FieldMatchesEcho` also looks ahead: `Negotiated` says that the
  reading of all that the world has written ends outside a sequence, and that of the answers the
  world has not read at most one is about the echo, the one it waits for (`Awaits`). Each kind
  of thing the world writes is followed through the scanner (`TextUnitRead`,
  `TelnetUnitRead`). The last two properties are proved for `NoNulls`: nothing is read of a
  packet after a null character, so with nulls the cuts do matter.
* **Cookies** (`ClientProofs`; no assumption). For all domains, names, paths and dates, and
  crashes, full disks and failures to open at any line of the write.
  `FileIsCurrent` is not inductive: the file is not written when `m_boolSaved` stands and
  the new cookie has no date, and it is current then only because `NothingToSave` holds:
  while the flag stands the file is empty and no cookie in memory has a date. A cookie with
  a date clears the flag for good, so a session cookie that takes its place finds the flag
  cleared and the file is written. In the middle of the write the file is a part of what is to
  be written (`IsPart`), and all of it when the last line is out; a write happens only while
  the flag is cleared (`WritesWhatIsUnsaved`), so a failed one leaves `NothingToSave` alone. `AddCookieKeeps` says that `AddCookie` gives no other
  domain a list and no list a cookie but the new one; `ReadKeeps` carries that through the
  file, for the lists of a start that has set nothing yet.
* **History** (also `ClientProofs`; `HistoryAssumption`). `HistoryInv` is inductive for every length of the history
  and every set of texts. It adds to `NoDeadPosition` that no line is beside its equal
  (`NeighboursDiffer`), which `UpShowsAnother` needs, and what ties an idle cursor to an
  empty or unbrowsed list.
* **Modules** (`ClientModulesProofs`; no assumption). Neither property is inductive: they
  speak of moments at which no call is in progress, or of the end. `ModulesInv` says what
  holds in the middle of every call. `Counted`: the count of a module is the number of its
  users, where a module uses another from the moment its count went up, before
  `CH_MSG_LOAD_COMPLETE` brings the id (`Uses`), until its destructor gives the use back,
  and the core's use of the world is gone when `UnloadAll` has been there; that `UnloadAll`
  takes a use nobody had makes the core's share -1. `CallsApart`: no module has two calls
  in progress about the same other, so a use is given back once. `FreedLast`: what a
  destructor does comes before the library goes, so no library is unloaded under a call of
  its own. At the end every count is 0 or less since each module is loaded by one other at
  most (`OneHolder`), and for the world, of which the core had a use, since its only other
  user, the sound module, has been destroyed by then. `ClientTypes` joins the three parts.

Only model-checked: the liveness properties (`RequestsServed`, `ShutdownCompletes`,
`ExcessReaped`, `SettledOrWaits`, `AnswersAll`, `AttemptSettles`, `OfferAnswered`), since
fairness is about ENABLED. Every other property of the passing runs is proved, for all
values of the constants or for those that the condition named above leaves.

## 7. What remains

In the order of what it would add: the calls a stream manager sees, with the chunk loop of
`StreamURL` and the two locks around the callbacks; the engine without threads
(`httpSocketHandler`, `DeleteConnection`, `ProcessNonThreadedRequest`); a composition of pool
and requests, so that the fairness of `GetNextRequest` is derived; the other verification
preferences of the cache; which cookies a request is sent with; frames and late stream data
of a page that is gone.

## 8. Not modelled

* HTTP streams between opening and closing: what a stream manager may do in its callbacks
  differs from manager to manager.
* Cache database files (`ChNdbm.cpp`, `ChDb.cpp`): hashed pages on disk; used as a map.
* URL parsing and MIME types: string manipulation; the models keep whether a URL is
  accepted.
* Dispatcher, hooks and messages: synchronous calls through a table. `ClientModules` keeps
  that a message runs its handler at once, nested in the sender.
* TinTin: an interpreter of text, with tables that nothing else writes.
* HTML parser, text engine, frames: layout, and a frame tree that is the HTML engine itself.
* Containers: used as sequences and maps. A list position that outlives its node is in
  `CommandHistory`.
* Sound: driven by notifications of the multimedia system whose order only its
  documentation gives.
* Plug-ins, DDE, OLE: glue to programs that are not in this repository.
* Graphics and VRML, image and archive codecs: geometry, rendering and decoders, the bulk
  of the lines and sequential; third-party in part.
* World lists, dialogs, main frame, preferences: user interface.
* Of the modelled components: see the notes in `PROJECT.json`.
