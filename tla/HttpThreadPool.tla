---------------------------- MODULE HttpThreadPool ----------------------------
(***************************************************************************)
(* The worker pool of the threaded HTTP engine (api/ChHttpThreadMgr.cpp,   *)
(* api/ChThread.cpp): one manager thread (HTTPRequestThread) that waits on *)
(* four auto-reset events, the worker threads it creates                   *)
(* (HTTPProcessDownload), each waiting on two auto-reset events of its own *)
(* and the program's main thread, which queues requests (GetURL, PostURL)  *)
(* and in the end shuts the engine down (TermHTTPInfo).                    *)
(*                                                                         *)
(* A request is an identifier here; what becomes of a request a worker has *)
(* taken is the subject of HttpRequests.  A ChHttpThread object is a       *)
(* number: objects are numbered in the order they are created, and because *)
(* the manager only appends to its list (AddTail), list order is the order *)
(* of the numbers and the list is a set.                                   *)
(***************************************************************************)
EXTENDS Integers, FiniteSets

CONSTANTS
    Requests,        \* identifiers of requests
    Redirects,       \* those that only a worker issues, following a redirect
    MaxConnections,  \* ChHTTPSocketConn::GetMaxConnections(), positive
    MaxThreads,      \* bound: thread objects ever created
    MaxFailures      \* bound: failures of AfxBeginThread

maxIdle == 2         \* ChHttpThreadMgr::maxIdle

ASSUME PoolAssumption ==
    /\ Redirects \subseteq Requests
    /\ MaxConnections \in Nat \ {0}
    /\ MaxThreads \in Nat \ {0}
    /\ MaxFailures \in Nat

Threads == 1 .. MaxThreads

VARIABLES
    list,            \* m_httpThreadList
    created,         \* objects created so far: 1 .. created have existed
    idle, dead, working, critical,     \* the four flags of a ChHttpThread
    procEv, termEv,  \* the two events of a ChHttpThread
    pc,              \* where the OS thread of an object is in HTTPProcessDownload
    tail,            \* OS threads past SetDead( true ), before TriggerTerminate()
    queue,           \* ChHTTPInfo::GetRequestQueue()
    fresh,           \* requests not issued yet
    reqEv, idleEv, dieEv, shutEv, ackEv, \* the events of the ChHttpThreadMgr
    boolShutdown,    \* m_boolShutdown
    scan,            \* what the walk of ProcessShutdownEvent has still to visit
    boolThreadsActive, \* its local variable of this name
    mgr,             \* where the manager thread is
    main,            \* where the main thread is
    failures         \* failures of AfxBeginThread so far

flags == <<idle, dead, working, critical>>
events == <<reqEv, idleEv, dieEv, shutEv, ackEv>>
requests == <<queue, fresh>>
walk == <<scan, boolThreadsActive>>
manager == <<list, created, boolShutdown, walk, mgr, failures>>
vars == <<list, created, flags, procEv, termEv, pc, tail, requests, events,
          boolShutdown, walk, mgr, main, failures>>

TypeOK ==
    /\ created \in 0 .. MaxThreads
    /\ list \subseteq 1 .. created
    /\ idle \in [Threads -> BOOLEAN]
    /\ dead \in [Threads -> BOOLEAN]
    /\ working \in [Threads -> BOOLEAN]
    /\ critical \in [Threads -> BOOLEAN]
    /\ procEv \in [Threads -> BOOLEAN]
    /\ termEv \in [Threads -> BOOLEAN]
    /\ pc \in [Threads -> {"none", "start", "next", "job", "retrig",
                           "nojob", "idling", "wait", "dying"}]
    /\ tail \in [Threads -> Nat]
    /\ queue \subseteq Requests
    /\ fresh \subseteq Requests
    /\ <<reqEv, idleEv, dieEv, shutEv, ackEv>> \in
           BOOLEAN \X BOOLEAN \X BOOLEAN \X BOOLEAN \X BOOLEAN
    /\ boolShutdown \in BOOLEAN
    /\ boolThreadsActive \in BOOLEAN
    /\ mgr \in {"wait", "idleRequest", "idleReap", "die", "shutdown", "quit"}
    /\ scan \subseteq Threads
    /\ main \in {"run", "submit", "closed", "waiting", "gone"}
    /\ failures \in 0 .. MaxFailures

Init ==
    /\ list = {} /\ created = 0
    /\ idle = [t \in Threads |-> FALSE]
    /\ dead = [t \in Threads |-> TRUE]
    /\ working = [t \in Threads |-> FALSE]
    /\ critical = [t \in Threads |-> FALSE]
    /\ procEv = [t \in Threads |-> FALSE]
    /\ termEv = [t \in Threads |-> FALSE]
    /\ pc = [t \in Threads |-> "none"]
    /\ tail = [t \in Threads |-> 0]
    /\ queue = {} /\ fresh = Requests
    /\ reqEv = FALSE /\ idleEv = FALSE /\ dieEv = FALSE /\ shutEv = FALSE
    /\ ackEv = FALSE
    /\ boolShutdown = FALSE
    /\ scan = {} /\ boolThreadsActive = FALSE
    /\ mgr = "wait" /\ main = "run"
    /\ failures = 0

-----------------------------------------------------------------------------
(* The main thread. *)

\* GetURL and PostURL add the request to the queue under the HTTP lock ...
Submit ==
    /\ main = "run"
    /\ \E r \in fresh \ Redirects :
           /\ queue' = queue \cup {r}
           /\ fresh' = fresh \ {r}
    /\ main' = "submit"
    /\ UNCHANGED <<manager, flags, procEv, termEv, pc, tail, events>>

\* ... and, with the lock released, wake the manager.
SubmitTrigger ==
    /\ main = "submit"
    /\ reqEv' = TRUE
    /\ main' = "run"
    /\ UNCHANGED <<manager, flags, procEv, termEv, pc, tail, requests,
                   idleEv, dieEv, shutEv, ackEv>>

\* TermHTTPInfo first empties the queue (CloseAllConnections) ...
CloseAllConnections ==
    /\ main = "run"
    /\ queue' = {}
    /\ main' = "closed"
    /\ UNCHANGED <<manager, flags, procEv, termEv, pc, tail, fresh, events>>

\* ... then asks the manager to stop ...
TermShutdown ==
    /\ main = "closed"
    /\ ackEv' = FALSE
    /\ shutEv' = TRUE
    /\ main' = "waiting"
    /\ UNCHANGED <<manager, flags, procEv, termEv, pc, tail, requests,
                   reqEv, idleEv, dieEv>>

\* ... and waits, without a limit, for the acknowledgement, after which it
\* deletes the manager object and the HTTP lock.
TermDone ==
    /\ main = "waiting"
    /\ ackEv
    /\ ackEv' = FALSE
    /\ main' = "gone"
    /\ UNCHANGED <<manager, flags, procEv, termEv, pc, tail, requests,
                   reqEv, idleEv, dieEv, shutEv>>

-----------------------------------------------------------------------------
(* The manager's handlers.  ProcessRequestEvent is used by two of them.     *)

Idles == {t \in list : idle[t]}

IsFirstIdle(t) == t \in Idles /\ \A u \in Idles : t <= u

\* The first idle thread is asleep: it is woken.
WakeThread(t) ==
    /\ IsFirstIdle(t) /\ ~dead[t]
    /\ idle' = [idle EXCEPT ![t] = FALSE]
    /\ procEv' = [procEv EXCEPT ![t] = TRUE]
    /\ UNCHANGED <<list, created, dead, working, critical, pc, failures>>

\* The first idle thread has ended: a new OS thread is started on its object.
RestartThread(t) ==
    /\ IsFirstIdle(t) /\ dead[t]
    /\ \/ /\ dead' = [dead EXCEPT ![t] = FALSE]
          /\ idle' = [idle EXCEPT ![t] = FALSE]
          /\ pc' = [pc EXCEPT ![t] = "start"]
          /\ UNCHANGED failures
       \/ /\ failures < MaxFailures
          /\ failures' = failures + 1
          /\ UNCHANGED <<dead, idle, pc>>
    /\ UNCHANGED <<list, created, working, critical, procEv>>

\* Faulty: off by one.
MayGrowFaulty(n) == n <= MaxConnections

MayGrow(n) == n < MaxConnections

\* No thread is idle and the list may grow.  The constructor leaves
\* m_boolWorking uninitialised: it has either value.
CreateThread ==
    LET t == created + 1 IN
    /\ Idles = {}
    /\ MayGrow(Cardinality(list))
    /\ t \in Threads
    /\ created' = t
    /\ list' = list \cup {t}
    /\ critical' = [critical EXCEPT ![t] = Cardinality(list) < maxIdle]
    /\ \E b \in BOOLEAN : working' = [working EXCEPT ![t] = b]
    /\ \/ /\ dead' = [dead EXCEPT ![t] = FALSE]
          /\ idle' = [idle EXCEPT ![t] = FALSE]
          /\ pc' = [pc EXCEPT ![t] = "start"]
          /\ UNCHANGED failures
       \/ /\ failures < MaxFailures
          /\ failures' = failures + 1
          /\ dead' = [dead EXCEPT ![t] = TRUE]
          /\ idle' = [idle EXCEPT ![t] = TRUE]
          /\ UNCHANGED pc
    /\ UNCHANGED procEv

\* Every connection is busy: the request stays queued.
AllBusy ==
    /\ Idles = {}
    /\ ~MayGrow(Cardinality(list))
    /\ UNCHANGED <<list, created, flags, procEv, pc, failures>>

ProcessRequestEvent ==
    \/ \E t \in list : WakeThread(t) \/ RestartThread(t)
    \/ CreateThread
    \/ AllBusy

MgrRequest ==
    /\ mgr = "wait" /\ reqEv
    /\ reqEv' = FALSE
    /\ ProcessRequestEvent
    /\ UNCHANGED <<termEv, tail, requests, idleEv, dieEv, shutEv, ackEv,
                   boolShutdown, walk, mgr, main>>

\* ProcessIdleEvent, in the three steps between which the queue and the
\* workers' flags may change: mark every thread that is not working ...
MgrIdle ==
    /\ mgr = "wait" /\ ~reqEv /\ idleEv
    /\ idleEv' = FALSE
    /\ idle' = [t \in Threads |-> idle[t] \/ (t \in list /\ ~working[t])]
    /\ mgr' = "idleRequest"
    /\ UNCHANGED <<list, created, dead, working, critical, procEv, termEv, pc,
                   tail, requests, reqEv, dieEv, shutEv, ackEv, boolShutdown, walk,
                   main, failures>>

\* Faulty: an idle event only reaps.
HasPendingFaulty == FALSE

\* ... serve a pending request ...
HasPending == queue # {}

MgrIdleRequest ==
    /\ mgr = "idleRequest"
    /\ mgr' = "idleReap"
    /\ \/ HasPending /\ ProcessRequestEvent
       \/ ~HasPending /\ UNCHANGED <<list, created, flags, procEv, pc, failures>>
    /\ UNCHANGED <<termEv, tail, requests, events, boolShutdown, walk, main>>

\* Faulty: critical threads are ended too.
ReapableFaulty(t) == t \in list /\ idle[t] /\ ~dead[t]

\* ... and tell the idle threads beyond maxIdle to end.
Reapable(t) == t \in list /\ idle[t] /\ ~critical[t] /\ ~dead[t]

\* Faulty: the threads told to end are deleted at once, as a shutdown does
\* with those that have ended.
MgrIdleReapFaulty ==
    /\ mgr = "idleReap"
    /\ mgr' = "wait"
    /\ LET over == Cardinality(list) > maxIdle IN
           /\ termEv' = [t \in Threads |-> termEv[t] \/ (over /\ Reapable(t))]
           /\ list' = {t \in list : ~(over /\ Reapable(t))}
    /\ UNCHANGED <<created, flags, procEv, pc, tail, requests, events,
                   boolShutdown, walk, main, failures>>

MgrIdleReap ==
    /\ mgr = "idleReap"
    /\ mgr' = "wait"
    /\ termEv' = IF Cardinality(list) > maxIdle
                 THEN [t \in Threads |-> termEv[t] \/ Reapable(t)]
                 ELSE termEv
    /\ UNCHANGED <<list, created, flags, procEv, pc, tail, requests, events,
                   boolShutdown, walk, main, failures>>

\* ProcessWorkerDieEvent: only a shutdown removes the threads that ended.
MgrDie ==
    /\ mgr = "wait" /\ ~reqEv /\ ~idleEv /\ dieEv
    /\ dieEv' = FALSE
    /\ mgr' = IF boolShutdown THEN "die" ELSE "wait"
    /\ UNCHANGED <<list, created, flags, procEv, termEv, pc, tail, requests, reqEv,
                   idleEv, shutEv, ackEv, boolShutdown, walk, main, failures>>

\* Its walk starts over after each removal, so what it removes in the end is
\* what was dead when its last pass began: one step stands for that moment.
MgrDieReap ==
    /\ mgr = "die"
    /\ list' = {t \in list : ~dead[t]}
    /\ ackEv' = (ackEv \/ list' = {})
    /\ mgr' = IF list' = {} THEN "quit" ELSE "wait"
    /\ UNCHANGED <<created, flags, procEv, termEv, pc, tail, requests, reqEv,
                   idleEv, dieEv, shutEv, boolShutdown, walk, main, failures>>

\* ProcessShutdownEvent walks the list while the threads it visits end ...
MgrShutdown ==
    /\ mgr = "wait" /\ ~reqEv /\ ~idleEv /\ ~dieEv /\ shutEv
    /\ shutEv' = FALSE
    /\ boolShutdown' = TRUE
    /\ scan' = list /\ boolThreadsActive' = FALSE
    /\ mgr' = "shutdown"
    /\ UNCHANGED <<list, created, flags, procEv, termEv, pc, tail, requests, reqEv,
                   idleEv, dieEv, ackEv, main, failures>>

IsNextInWalk(t) == t \in scan /\ \A u \in scan : t <= u

\* Faulty: an object is deleted as soon as its thread has been told to end.
ShutdownDelete ==
    /\ mgr = "shutdown"
    /\ \E t \in scan :
           /\ IsNextInWalk(t)
           /\ termEv' = [termEv EXCEPT ![t] = TRUE]
           /\ list' = list \ {t}
           /\ scan' = list'
           /\ boolThreadsActive' = (boolThreadsActive \/ ~dead[t])
    /\ UNCHANGED <<created, flags, procEv, pc, tail, requests, events,
                   boolShutdown, mgr, main, failures>>

\* Faulty: only the threads that are idle at that moment are told to end.
ShutdownIdleOnly ==
    /\ mgr = "shutdown"
    /\ \E t \in scan :
           /\ IsNextInWalk(t)
           /\ \/ /\ ~dead[t]
                 /\ termEv' = [termEv EXCEPT ![t] = @ \/ idle[t]]
                 /\ boolThreadsActive' = TRUE
                 /\ scan' = scan \ {t}
                 /\ UNCHANGED list
              \/ /\ dead[t]
                 /\ list' = list \ {t}
                 /\ scan' = list'
                 /\ UNCHANGED <<termEv, boolThreadsActive>>
    /\ UNCHANGED <<created, flags, procEv, pc, tail, requests, events,
                   boolShutdown, mgr, main, failures>>

\* ... telling those that have not ended to end and deleting the others, after
\* each of which it starts over at the head of the list: it may then delete a
\* thread that it has told to end in the same walk ...
ShutdownVisit ==
    /\ mgr = "shutdown"
    /\ \E t \in scan :
           /\ IsNextInWalk(t)
           /\ \/ /\ ~dead[t]
                 /\ termEv' = [termEv EXCEPT ![t] = TRUE]
                 /\ boolThreadsActive' = TRUE
                 /\ scan' = scan \ {t}
                 /\ UNCHANGED list
              \/ /\ dead[t]
                 /\ list' = list \ {t}
                 /\ scan' = list'
                 /\ UNCHANGED <<termEv, boolThreadsActive>>
    /\ UNCHANGED <<created, flags, procEv, pc, tail, requests, events,
                   boolShutdown, mgr, main, failures>>

\* ... and acknowledges at once only when it has met no thread that was alive.
ShutdownEnd ==
    /\ mgr = "shutdown" /\ scan = {}
    /\ ackEv' = (ackEv \/ ~boolThreadsActive)
    /\ mgr' = IF boolThreadsActive THEN "wait" ELSE "quit"
    /\ UNCHANGED <<list, created, flags, procEv, termEv, pc, tail, requests, reqEv,
                   idleEv, dieEv, shutEv, boolShutdown, walk, main, failures>>

-----------------------------------------------------------------------------
(* A worker: the loop of HTTPProcessDownload on object t. *)

SetWorking(t) ==
    /\ pc[t] = "start"
    /\ working' = [working EXCEPT ![t] = TRUE]
    /\ pc' = [pc EXCEPT ![t] = "next"]
    /\ UNCHANGED <<manager, idle, dead, critical, procEv, termEv, tail,
                   requests, events, main>>

\* GetNextRequest, one critical section: it serves in place any number of
\* queued requests (duplicates, cached ones) and then takes one to download;
\* it returns without one only when it has emptied the queue.
TakeJob(t) ==
    /\ pc[t] = "next"
    /\ \E r \in queue, served \in SUBSET queue : queue' = queue \ (served \cup {r})
    /\ pc' = [pc EXCEPT ![t] = "job"]
    /\ UNCHANGED <<manager, flags, procEv, termEv, tail, fresh, events, main>>

\* Faulty: it may also give up when the first request is not for it.
NoJobFaulty(t) ==
    /\ pc[t] = "next"
    /\ queue' \in SUBSET queue
    /\ pc' = [pc EXCEPT ![t] = "nojob"]
    /\ UNCHANGED <<manager, flags, procEv, termEv, tail, fresh, events, main>>

NoJob(t) ==
    /\ pc[t] = "next"
    /\ queue' = {}
    /\ pc' = [pc EXCEPT ![t] = "nojob"]
    /\ UNCHANGED <<manager, flags, procEv, termEv, tail, fresh, events, main>>

\* StartDownload returns.
FinishJob(t) ==
    /\ pc[t] = "job"
    /\ pc' = [pc EXCEPT ![t] = "start"]
    /\ UNCHANGED <<manager, flags, procEv, termEv, tail, requests, events, main>>

\* HandleError follows a redirect: it queues a new request, then wakes the
\* manager, and the download is over.
Redirect(t) ==
    /\ pc[t] = "job"
    /\ \E r \in fresh \cap Redirects :
           /\ queue' = queue \cup {r}
           /\ fresh' = fresh \ {r}
    /\ pc' = [pc EXCEPT ![t] = "retrig"]
    /\ UNCHANGED <<manager, flags, procEv, termEv, tail, events, main>>

RedirectTrigger(t) ==
    /\ pc[t] = "retrig"
    /\ reqEv' = TRUE
    /\ pc' = [pc EXCEPT ![t] = "start"]
    /\ UNCHANGED <<manager, flags, procEv, termEv, tail, requests, idleEv,
                   dieEv, shutEv, ackEv, main>>

\* Faulty: the working flag stays set.
SetIdleFlagFaulty(t) ==
    /\ pc[t] = "nojob"
    /\ pc' = [pc EXCEPT ![t] = "idling"]
    /\ UNCHANGED <<manager, flags, procEv, termEv, tail, requests, events, main>>

SetIdleFlag(t) ==
    /\ pc[t] = "nojob"
    /\ working' = [working EXCEPT ![t] = FALSE]
    /\ pc' = [pc EXCEPT ![t] = "idling"]
    /\ UNCHANGED <<manager, idle, dead, critical, procEv, termEv, tail,
                   requests, events, main>>

\* Faulty: the manager is not told.
TriggerIdleFaulty(t) ==
    /\ pc[t] = "idling"
    /\ pc' = [pc EXCEPT ![t] = "wait"]
    /\ UNCHANGED <<manager, flags, procEv, termEv, tail, requests, events, main>>

TriggerIdle(t) ==
    /\ pc[t] = "idling"
    /\ idleEv' = TRUE
    /\ pc' = [pc EXCEPT ![t] = "wait"]
    /\ UNCHANGED <<manager, flags, procEv, termEv, tail, requests, reqEv,
                   dieEv, shutEv, ackEv, main>>

\* The wait returns the first event that is set: a request before the end.
WakeToWork(t) ==
    /\ pc[t] = "wait" /\ procEv[t]
    /\ procEv' = [procEv EXCEPT ![t] = FALSE]
    /\ pc' = [pc EXCEPT ![t] = "start"]
    /\ UNCHANGED <<manager, flags, termEv, tail, requests, events, main>>

WakeToEnd(t) ==
    /\ pc[t] = "wait" /\ ~procEv[t] /\ termEv[t]
    /\ termEv' = [termEv EXCEPT ![t] = FALSE]
    /\ pc' = [pc EXCEPT ![t] = "dying"]
    /\ UNCHANGED <<manager, flags, procEv, tail, requests, events, main>>

SetDead(t) ==
    /\ pc[t] = "dying"
    /\ dead' = [dead EXCEPT ![t] = TRUE]
    /\ pc' = [pc EXCEPT ![t] = "none"]
    /\ tail' = [tail EXCEPT ![t] = @ + 1]
    /\ UNCHANGED <<manager, idle, working, critical, procEv, termEv, requests,
                   events, main>>

\* Faulty: the end is announced before the thread is marked dead.
TriggerTerminateFaulty(t) ==
    /\ tail[t] > 0 \/ pc[t] = "dying"
    /\ tail' = [tail EXCEPT ![t] = @ - 1]
    /\ dieEv' = TRUE
    /\ UNCHANGED <<manager, flags, procEv, termEv, pc, requests, reqEv, idleEv,
                   shutEv, ackEv, main>>

\* The thread still reads its object to find the manager.  When the manager
\* has deleted the object meanwhile the call may or may not reach the event.
TriggerTerminate(t) ==
    /\ tail[t] > 0
    /\ tail' = [tail EXCEPT ![t] = @ - 1]
    /\ \/ dieEv' = TRUE
       \/ t \notin list /\ UNCHANGED dieEv
    /\ UNCHANGED <<manager, flags, procEv, termEv, pc, requests, reqEv, idleEv,
                   shutEv, ackEv, main>>

-----------------------------------------------------------------------------
MgrNext ==
    \/ MgrRequest \/ MgrIdle \/ MgrIdleRequest \/ MgrIdleReap
    \/ MgrDie \/ MgrDieReap
    \/ MgrShutdown \/ ShutdownVisit \/ ShutdownEnd

WorkerStep(t) ==
    \/ SetWorking(t) \/ TakeJob(t) \/ NoJob(t) \/ FinishJob(t)
    \/ RedirectTrigger(t) \/ SetIdleFlag(t) \/ TriggerIdle(t)
    \/ WakeToWork(t) \/ WakeToEnd(t) \/ SetDead(t)

Next ==
    \/ Submit \/ SubmitTrigger \/ CloseAllConnections \/ TermShutdown \/ TermDone
    \/ MgrNext
    \/ \E t \in Threads : WorkerStep(t) \/ Redirect(t) \/ TriggerTerminate(t)

Spec == Init /\ [][Next]_vars

\* Every thread the system runs is scheduled, a download ends, and the main
\* thread finishes what it began; whether and when the user asks for a
\* document, quits, or a server redirects is left open.
Fairness ==
    /\ WF_vars(SubmitTrigger) /\ WF_vars(TermShutdown) /\ WF_vars(TermDone)
    /\ WF_vars(MgrNext)
    /\ \A t \in Threads : WF_vars(WorkerStep(t)) /\ WF_vars(TriggerTerminate(t))

FairSpec == Spec /\ Fairness
-----------------------------------------------------------------------------
(* Properties. *)

\* The pool never holds more threads than the connections the user allows,
\* whatever mixture of new, dying, restarted and deleted threads the events
\* produce (ProcessRequestEvent, ChHttpThreadMgr.cpp:154).
PoolBound == Cardinality(list) <= MaxConnections

\* The OS threads of the pool are one per object: an object the manager sees
\* as dead, and may hand to a new OS thread or delete, has no OS thread left
\* in its loop (SetDead is the last write of HTTPProcessDownload).
OneThreadPerObject ==
    \A t \in Threads : dead[t] \/ t \notin list => pc[t] = "none"

\* The first maxIdle threads are never ended while the engine is running,
\* whatever the idle events race with: they are what is left to serve the
\* queue after a burst of requests (IsCritical, ChHttpThreadMgr.cpp:210).
CriticalKept ==
    \A t \in list : critical[t] /\ ~boolShutdown =>
        /\ pc[t] # "dying" /\ tail[t] = 0 /\ ~termEv[t]

\* Thread t will look into the queue again without being told anything more.
Looking(t) ==
    \/ pc[t] \in {"start", "next", "job", "retrig", "nojob", "idling"}
    \/ procEv[t]

\* Somebody is still to tell the manager of a queued request.
Announced ==
    \/ reqEv \/ idleEv \/ mgr = "idleRequest" \/ main = "submit"
    \/ \E t \in Threads : pc[t] = "retrig"

\* No lost wake-up: while the engine runs and threads can be started, a queued
\* request always has somebody who will look at it, either an event on its
\* way to the manager or a thread that goes through GetNextRequest again; it
\* is never left to events that all found every thread busy or dying.
RequestOwned ==
    queue # {} /\ ~boolShutdown /\ failures = 0 =>
        Announced \/ \E t \in list : Looking(t)

\* An acknowledged shutdown means that no OS thread of the pool is left.
\* HTTPRequestThread says "all worker threads have terminated, time to quit"
\* (ChThread.cpp:983 and 994) when the handlers return true, after which
\* TermHTTPInfo deletes the manager and the HTTP lock.
QuitAfterWorkers ==
    mgr = "quit" => \A t \in Threads : pc[t] = "none" /\ tail[t] = 0

\* The manager is never asked to signal an event through a thread object it
\* has deleted (ChThread.cpp:1141 runs after SetDead at 1140), unless it is
\* shutting down.
ObjectsOutliveThreads ==
    ~boolShutdown => \A t \in Threads : tail[t] > 0 \/ pc[t] # "none" => t \in list

\* Every request that is queued leaves the queue: a worker takes or serves it,
\* or shutdown aborts it, whatever burst of requests shares one auto-reset
\* event and whatever idle threads are being ended at that moment.
RequestsServed == \A r \in Requests : r \in queue ~> r \notin queue

\* The shutdown has deleted every object, those whose threads it had told to
\* end in the same walk included, and nothing wakes the manager any more: the
\* threads that ended last announced it through objects that were gone.
DeletedUntold ==
    /\ mgr = "wait" /\ boolShutdown /\ list = {} /\ ~dieEv
    /\ \A t \in Threads : tail[t] = 0

\* TermHTTPInfo waits INFINITE for its acknowledgement ("wait till the thread
\* terminates", ChHTPriv.cpp:563) and gets it, whatever the threads do while
\* they are told to end, unless the walk of the shutdown has emptied the list
\* under threads it had just told to end (ChHttpThreadMgr.cpp:284).
ShutdownCompletes == main = "waiting" ~> main = "gone" \/ DeletedUntold

\* "if we have more than maxIdle threads then terminate all the excees
\* threads" (ChHttpThreadMgr.cpp:199): once requests stop coming, or the
\* engine is shut down, no thread but the critical ones stays.
ExcessReaped == <>[](\A t \in Threads : critical[t] \/ pc[t] = "none")

=============================================================================
