--------------------------- MODULE HttpCacheProofs ---------------------------
(* Proofs about the cache of HttpCache: it serves a page only copies of that  *)
(* page, as long as the keys of the database tell the URLs apart; and what    *)
(* the sessions of the program do to it: who works on a page, which files are *)
(* whole, which are of this session, and which go first when it is pruned.    *)
EXTENDS HttpCacheInv, ListProofs

\* What is proved inductive; the order of the files has no part in it.
Inv ==
    /\ Types
    /\ \A j \in Jobs : JobNamed(job[j])
    /\ Held
    /\ KeysTellURLs => NamesTellURLs /\ ServedOwn

-----------------------------------------------------------------------------
(* What ordinary steps do to files, database and requests. *)

FilesKeep ==
    /\ file' \in [Names -> Content \cup {None}]
    /\ \A n \in Names : file'[n] # None => file[n] # None /\ file'[n].url = file[n].url

EntriesKeep ==
    /\ db' \in [Keys -> Entry \cup {None}]
    /\ \A k \in Keys : db'[k] # None => db[k] # None /\ db'[k].name = db[k].name

JobsKeep ==
    /\ job' \in [Jobs -> Job]
    /\ \A j \in Jobs : JobNamed(job'[j])
    /\ \A j \in Jobs : \/ job'[j].name = None
                       \/ job'[j].name = job[j].name /\ job'[j].url = job[j].url
    /\ \A j \in Jobs : job'[j].pc = "body" => job[j].pc = "body" /\ job'[j].name = job[j].name

RestTypes ==
    /\ page' \in [URLs -> Versions]
    /\ writer' \in [Names -> Jobs \cup {None}]
    /\ visited' \subseteq URLs
    /\ calls' \in 0 .. MaxCalls /\ sessions' \in 0 .. MaxSessions

Ordinary == FilesKeep /\ EntriesKeep /\ JobsKeep /\ RestTypes /\ Held' /\ used' = used

\* Deleting leaves every other file as it is.
LEMMA UnlinkKeeps ==
    ASSUME Types, NEW ns, Unlink(ns)
    PROVE  FilesKeep
<1>1. file' = [n \in Names |-> IF n \in ns THEN None ELSE file[n]]
    BY DEF Unlink
<1> QED
    BY <1>1 DEF Types, FilesKeep

\* Nothing changes for who writes when neither files nor locks do.
LEMMA HeldKeeps ==
    ASSUME Held, JobsKeep, file' = file, writer' = writer
    PROVE  Held'
    BY DEF Held, JobsKeep, Exists

\* Who deletes files nobody holds leaves those that are written.
LEMMA UnlinkHeld ==
    ASSUME Types, Held, JobsKeep, NEW ns, Unlink(ns), \A n \in ns \cap Names : writer[n] = None,
           writer' = writer
    PROVE  Held'
<1>1. file' = [n \in Names |-> IF n \in ns THEN None ELSE file[n]]
    BY DEF Unlink
<1> SUFFICES ASSUME NEW j \in Jobs, job'[j].pc = "body"
             PROVE  writer'[job'[j].name] = j /\ job'[j].name # None /\ file'[job'[j].name] # None
    BY DEF Held, Exists
<1> DEFINE n == job[j].name
<1>2. job'[j].name = job[j].name /\ job[j].pc = "body"
    BY DEF JobsKeep
<1>3. writer[n] = j /\ n # None /\ file[n] # None
    BY <1>2 DEF Held, Exists
<1>4. n \in Names /\ n \notin ns
    BY <1>3, CacheAssumption DEF Types, Job
<1> QED
    BY <1>1, <1>2, <1>3, <1>4

\* Ordinary steps claim nothing anew, so they keep the invariant.
LEMMA OrdinaryKeeps ==
    ASSUME Inv, Ordinary, ServedOwn' \/ ~KeysTellURLs
    PROVE  Inv'
<1>1. Types' /\ \A j \in Jobs : JobNamed(job[j])'
    BY DEF Inv, Types, Ordinary, FilesKeep, EntriesKeep, JobsKeep, RestTypes, JobNamed
<1>2. ASSUME KeysTellURLs PROVE NamesTellURLs'
    <2>1. ASSUME NEW n \in Names, NEW u \in URLs, Claimed(n, u)' PROVE Claimed(n, u)
        <3>1. KeyOf[u] \in Keys /\ n # None
            BY CacheAssumption
        <3> QED
            BY <2>1, <3>1 DEF Claimed, Ordinary, FilesKeep, EntriesKeep, JobsKeep
    <2>2. used' = used /\ NamesTellURLs
        BY <1>2 DEF Ordinary, Inv
    <2> QED
        BY <2>1, <2>2 DEF NamesTellURLs
<1> QED
    BY <1>1, <1>2 DEF Inv, Ordinary

-----------------------------------------------------------------------------
(* What is delivered. *)

\* A file is streamed to requests for the page that the request by its name is for.
LEMMA DeliversOwn ==
    ASSUME Inv, KeysTellURLs, NEW j \in Jobs, job[j].pc # "free",
           NEW rs \in SUBSET Jobs, \A r \in rs : job[r].url = job[j].url,
           NEW dropped \in BOOLEAN, got' \subseteq Delivery(rs, job[j].name, dropped)
    PROVE  ServedOwn'
<1> DEFINE n == job[j].name
           u == job[j].url
<1> SUFFICES ASSUME NEW d \in got' PROVE d.is.url = d.url
    BY DEF ServedOwn
<1>1. Readable(n) /\ d.is = file[n] /\ d.url = u
    BY DEF Delivery
<1>2. n \in Names /\ file[n] \in Content /\ u \in URLs
    BY <1>1 DEF Inv, Types, Job, JobNamed, Readable, Exists
<1>3. Claimed(n, u) /\ Claimed(n, file[n].url) /\ file[n].url \in URLs
    BY <1>1, <1>2 DEF Claimed, Readable, Exists, Content
<1> QED
    BY <1>1, <1>2, <1>3 DEF Inv, NamesTellURLs

\* What is not delivered is no foreign page.
LEMMA SilentOwn ==
    ASSUME got' = {}
    PROVE  ServedOwn'
    BY DEF ServedOwn

\* A deleted request is a request, and writes nothing.
LEMMA FreeNamed == Free \in Job /\ JobNamed(Free) /\ Free.name = None /\ Free.pc # "body"
    BY CacheAssumption DEF Free, Job, Places, JobNamed

\* A request goes on to its next place.
LEMMA StepKeeps ==
    ASSUME Types, \A i \in Jobs : JobNamed(job[i]), NEW j \in Jobs, job[j].pc # "free",
           NEW pc \in Places, pc \in {"closed", "stored"} => job[j].name # None, pc # "body",
           Step(j, pc)
    PROVE  JobsKeep
<1>1. [job[j] EXCEPT !.pc = pc] \in Job /\ JobNamed([job[j] EXCEPT !.pc = pc])
    BY DEF Types, Job, JobNamed
<1>2. job' = [job EXCEPT ![j] = [job[j] EXCEPT !.pc = pc]]
    BY DEF Step
<1>3. job' \in [Jobs -> Job]
    BY <1>1, <1>2 DEF Types
<1>4. \A i \in Jobs : JobNamed(job'[i])
    BY <1>1, <1>2 DEF Types
<1>5. [job[j] EXCEPT !.pc = pc].name = job[j].name /\ [job[j] EXCEPT !.pc = pc].url = job[j].url
    BY DEF Types, Job
<1>6. \A i \in Jobs : job'[i].name = job[i].name /\ job'[i].url = job[i].url
    BY <1>2, <1>5 DEF Types
<1>7. [job[j] EXCEPT !.pc = pc].pc # "body"
    BY DEF Types, Job
<1>8. \A i \in Jobs : job'[i].pc = "body" => job'[i] = job[i]
    BY <1>2, <1>7 DEF Types
<1> QED
    BY <1>3, <1>4, <1>6, <1>8 DEF JobsKeep

\* A request ends, and those that waited for it are done.
LEMMA FinishedKeeps ==
    ASSUME Types, \A i \in Jobs : JobNamed(job[i]), NEW j \in Jobs, job[j].pc # "free",
           job' = Finished(j)
    PROVE  JobsKeep
<1> DEFINE e == [job[j] EXCEPT !.pc = "ended", !.date = 0]
<1>1. e \in Job /\ JobNamed(e) /\ e.name = job[j].name /\ e.url = job[j].url /\ e.pc # "body"
    <2>1. job[j] \in Job /\ JobNamed(job[j])
        BY DEF Types
    <2>2. 0 \in 0 .. MaxVersion
        BY CacheAssumption
    <2>3. e \in Job
        BY <2>1, <2>2 DEF Job, Places
    <2>4. e.name = job[j].name /\ e.url = job[j].url /\ e.pc = "ended"
        BY <2>1 DEF Job
    <2> QED
        BY <2>1, <2>3, <2>4 DEF JobNamed
<1>2. \A i \in Jobs : job'[i] = Free \/ job'[i] = job[i] \/ (i = j /\ job'[i] = e)
    BY DEF Finished
<1> HIDE DEF e
<1>3. job' = [i \in Jobs |-> job'[i]]
    BY DEF Finished
<1>4. job' \in [Jobs -> Job]
    BY <1>1, <1>2, <1>3, FreeNamed DEF Types
<1> QED
    BY <1>1, <1>2, <1>4, FreeNamed DEF JobsKeep

\* A request is deleted.
LEMMA FreedKeeps ==
    ASSUME Types, \A i \in Jobs : JobNamed(job[i]), NEW j \in Jobs,
           job' = [job EXCEPT ![j] = Free]
    PROVE  JobsKeep
    BY FreeNamed DEF Types, JobsKeep

\* What does not change is kept.
LEMMA SameKeeps ==
    ASSUME Inv
    PROVE  /\ file' = file => FilesKeep
           /\ db' = db => EntriesKeep
           /\ job' = job => JobsKeep
           /\ UNCHANGED <<page, writer, visited, calls, sessions>> => RestTypes
    BY DEF Inv, Types, FilesKeep, EntriesKeep, JobsKeep, RestTypes

-----------------------------------------------------------------------------
(* Ordinary steps. *)

\* The steps of a worker that leave the files and the database alone.
LEMMA WorkerIsOrdinary ==
    ASSUME Inv, NEW j \in Jobs,
           \/ Notify(j) \/ Take(j) \/ Fails(j) \/ Drops(j) \/ Unchanged(j) \/ Local(j)
           \/ Refused(j) \/ Complete(j) \/ Stops(j)
    PROVE  Ordinary /\ (KeysTellURLs => ServedOwn')
<1> USE DEF disk, process
<1>0. Types /\ Held /\ \A i \in Jobs : JobNamed(job[i])
    BY DEF Inv
<1>1. ASSUME file' = file, db' = db, JobsKeep, UNCHANGED <<page, writer, used, calls, sessions>>,
             visited' \subseteq URLs
      PROVE  Ordinary
    BY <1>0, <1>1, SameKeeps, HeldKeeps DEF Ordinary, RestTypes, Types
<1>2. CASE Notify(j)
    <2>1. job[j].pc # "free" /\ got' \subseteq Delivery({j}, job[j].name, FALSE)
        BY <1>2 DEF Notify, Deliver
    <2>2. JobsKeep
        BY <1>0, <1>2, FreedKeeps DEF Notify
    <2>3. Ordinary
        BY <1>0, <1>1, <1>2, <2>2 DEF Notify, Types
    <2> QED
        BY <2>1, <2>3, DeliversOwn
<1>3. CASE Take(j)
    <2>1. JobsKeep
        <3>1. PICK pc \in {"wait", "asked"} : Step(j, pc)
            BY <1>3 DEF Take
        <3> QED
            BY <1>0, <1>3, <3>1, StepKeeps DEF Take, Places
    <2>2. Ordinary
        BY <1>0, <1>1, <1>3, <2>1 DEF Take, Types
    <2> QED
        BY <1>3, <2>2, SilentOwn DEF Take, Silent
<1>4. CASE Fails(j) \/ Drops(j) \/ Refused(j) \/ Stops(j)
    <2>1. /\ job' = Finished(j) /\ UNCHANGED <<page, disk, process>> /\ job[j].pc # "free"
          /\ got' = {} \/ got' = Delivery({j}, job[j].name, TRUE)
        BY <1>4 DEF Fails, Drops, Refused, Stops, Silent
    <2>2. JobsKeep
        BY <1>0, <2>1, FinishedKeeps
    <2>3. Ordinary
        BY <1>0, <1>1, <2>1, <2>2 DEF Types
    <2> QED
        BY <2>1, <2>3, SilentOwn, DeliversOwn
<1>5. CASE Unchanged(j)
    <2>1. job[j].url \in URLs /\ job[j].pc # "free"
        BY <1>0, <1>5 DEF Unchanged, JobNamed
    <2>2. JobsKeep
        BY <1>0, <1>5, StepKeeps DEF Unchanged, Places
    <2>3. Ordinary
        BY <1>0, <1>1, <1>5, <2>1, <2>2 DEF Unchanged, Types
    <2> QED
        BY <1>5, <2>3, SilentOwn DEF Unchanged, Silent
<1>6. CASE Local(j) \/ Complete(j)
    <2>1. job' = Finished(j) /\ job[j].pc # "free"
        BY <1>6 DEF Local, Complete
    <2>2. file' = file /\ db' = db /\ UNCHANGED <<page, writer, used, calls, sessions, visited>>
        BY <1>6 DEF Local, Complete
    <2>3. JobsKeep
        BY <1>0, <2>1, FinishedKeeps
    <2>4. Ordinary
        BY <1>0, <1>1, <2>2, <2>3 DEF Types
    <2>5. got' = {} \/ got' \subseteq Delivery({j} \cup Waiters(j), job[j].name, FALSE)
        BY <1>6 DEF Local, Complete, Silent, Deliver
    <2>6. {j} \cup Waiters(j) \in SUBSET Jobs /\ \A r \in {j} \cup Waiters(j) : job[r].url = job[j].url
        BY DEF Waiters
    <2> QED
        BY <2>1, <2>4, <2>5, <2>6, DeliversOwn, SilentOwn
<1> QED
    BY <1>2, <1>3, <1>4, <1>5, <1>6

\* The calls that delete files, entries and requests.
LEMMA CallIsOrdinary ==
    ASSUME Inv,
           \/ \E u \in URLs : DeleteCachedURL(u)
           \/ ClearCache
           \/ \E j \in Jobs : Abort(j)
    PROVE  Ordinary /\ ServedOwn'
<1> USE DEF disk, process
<1>0. Types /\ Held /\ \A i \in Jobs : JobNamed(job[i])
    BY DEF Inv
<1>1. ASSUME FilesKeep, EntriesKeep, JobsKeep, Held',
             UNCHANGED <<page, writer, used, sessions, visited>>, calls < MaxCalls, calls' = calls + 1
      PROVE  Ordinary
    BY <1>0, <1>1, CacheAssumption DEF Ordinary, RestTypes, Types
<1>2. ASSUME NEW u \in URLs, DeleteCachedURL(u) PROVE Ordinary /\ ServedOwn'
    <2>1. FilesKeep
        BY <1>0, <1>2, UnlinkKeeps DEF DeleteCachedURL
    <2>2. EntriesKeep
        BY <1>0, <1>2 DEF DeleteCachedURL, EntriesKeep, Types
    <2>3. JobsKeep
        BY <1>2, SameKeeps DEF DeleteCachedURL
    <2>4. Held'
        BY <1>0, <1>2, <2>3, UnlinkHeld DEF DeleteCachedURL
    <2> QED
        BY <1>1, <1>2, <2>1, <2>2, <2>3, <2>4, SilentOwn DEF DeleteCachedURL, Silent
<1>3. ASSUME ClearCache PROVE Ordinary /\ ServedOwn'
    <2>1. FilesKeep
        BY <1>0, <1>3, UnlinkKeeps DEF ClearCache
    <2>2. EntriesKeep /\ JobsKeep
        BY <1>3, SameKeeps DEF ClearCache
    <2>3. Held'
        BY <1>0, <1>3, <2>2, UnlinkHeld DEF ClearCache
    <2> QED
        BY <1>1, <1>3, <2>1, <2>2, <2>3, SilentOwn DEF ClearCache, Silent
<1>4. ASSUME NEW j \in Jobs, Abort(j) PROVE Ordinary /\ ServedOwn'
    <2>1. job[j] \in Job /\ JobNamed(job[j])
        BY <1>0 DEF Types
    <2> DEFINE a == [job[j] EXCEPT !.abort = TRUE]
    <2>2. a \in Job
        BY <2>1 DEF Job
    <2>3. a.name = job[j].name /\ a.url = job[j].url /\ a.pc = job[j].pc
        BY <2>1 DEF Job
    <2>4. JobNamed(a)
        BY <2>1, <2>3 DEF JobNamed
    <2>5. job' = [job EXCEPT ![j] = a] \/ job' = [job EXCEPT ![j] = Free]
        BY <1>4 DEF Abort
    <2> HIDE DEF a
    <2>6. JobsKeep
        BY <1>0, <2>2, <2>3, <2>4, <2>5, FreeNamed DEF JobsKeep, Types
    <2>7. Held'
        BY <1>0, <1>4, <2>6, HeldKeeps DEF Abort
    <2> QED
        BY <1>1, <1>4, <2>6, <2>7, SameKeeps, SilentOwn DEF Abort, Silent
<1> QED
    BY <1>2, <1>3, <1>4

\* The program starts, exits or crashes, and a page changes.
LEMMA ProgramIsOrdinary ==
    ASSUME Inv, Exit \/ Crash \/ Start \/ \E u \in URLs : Modify(u)
    PROVE  Ordinary /\ ServedOwn'
<1> USE DEF disk, process
<1>0. Types /\ Held /\ \A i \in Jobs : JobNamed(job[i])
    BY DEF Inv
<1>1. ASSUME Ends PROVE JobsKeep /\ Held' /\ got' = {} /\ visited' \subseteq URLs
    BY <1>1, FreeNamed DEF Ends, JobsKeep, Held
<1>2. ASSUME Exit PROVE Ordinary /\ ServedOwn'
    <2>1. FilesKeep
        BY <1>0, <1>2, UnlinkKeeps DEF Exit
    <2>2. EntriesKeep
        BY <1>0, <1>2 DEF Exit, EntriesKeep, Types
    <2>3. RestTypes /\ used' = used
        BY <1>0, <1>1, <1>2 DEF Exit, RestTypes, Types
    <2> QED
        BY <1>1, <1>2, <2>1, <2>2, <2>3, SilentOwn DEF Exit, Ordinary
<1>3. ASSUME Crash PROVE Ordinary /\ ServedOwn'
    <2>1. FilesKeep /\ EntriesKeep
        BY <1>3, SameKeeps DEF Crash
    <2>2. RestTypes /\ used' = used
        BY <1>0, <1>1, <1>3 DEF Crash, RestTypes, Types
    <2> QED
        BY <1>1, <1>3, <2>1, <2>2, SilentOwn DEF Crash, Ordinary
<1>4. ASSUME Start PROVE Ordinary /\ ServedOwn'
    <2>1. FilesKeep /\ EntriesKeep /\ JobsKeep /\ Held'
        BY <1>0, <1>4, SameKeeps, HeldKeeps DEF Start
    <2>2. RestTypes /\ used' = used
        BY <1>0, <1>4, CacheAssumption DEF Start, RestTypes, Types
    <2> QED
        BY <1>4, <2>1, <2>2, SilentOwn DEF Start, Silent, Ordinary
<1>5. ASSUME NEW u \in URLs, Modify(u) PROVE Ordinary /\ ServedOwn'
    <2>1. FilesKeep /\ EntriesKeep /\ JobsKeep /\ Held'
        BY <1>0, <1>5, SameKeeps, HeldKeeps DEF Modify
    <2>2. page' \in [URLs -> Versions]
        BY <1>0, <1>5, CacheAssumption DEF Modify, Types, Versions
    <2>3. RestTypes /\ used' = used
        BY <1>0, <1>5, <2>2 DEF Modify, RestTypes, Types
    <2> QED
        BY <1>5, <2>1, <2>3, SilentOwn DEF Modify, Silent, Ordinary
<1> QED
    BY <1>2, <1>3, <1>4, <1>5

\* A download ends, and an aborted one takes its file with it.
LEMMA CloseIsOrdinary ==
    ASSUME Inv, NEW j \in Jobs, Close(j) \/ RemoveConnection(j)
    PROVE  Ordinary /\ ServedOwn'
<1> USE DEF disk, process
<1>0. Types /\ Held /\ \A i \in Jobs : JobNamed(job[i])
    BY DEF Inv
<1>1. CASE Close(j)
    <2> DEFINE n == job[j].name
    <2>1. job[j].pc = "body" /\ n \in Names
        BY <1>0, <1>1 DEF Close, JobNamed, Types, Job
    <2>2. JobsKeep
        BY <1>0, <1>1, <2>1, StepKeeps DEF Close, Places, JobNamed
    <2>3. FilesKeep
        <3>1. PICK len \in {"cut", "whole"} : file' = [file EXCEPT ![n].len = len]
            BY <1>1 DEF Close
        <3>2. file[n] # None
            BY <1>0, <2>1 DEF Held, Exists
        <3>3. [file[n] EXCEPT !.len = len] \in Content /\ [file[n] EXCEPT !.len = len].url = file[n].url
            BY <1>0, <2>1, <3>2 DEF Types, Content, Lengths
        <3> QED
            BY <1>0, <2>1, <3>1, <3>2, <3>3 DEF Types, FilesKeep
    <2>4. RestTypes
        BY <1>0, <1>1 DEF Close, Types, RestTypes
    <2>5. Held'
        <3> SUFFICES ASSUME NEW i \in Jobs, job'[i].pc = "body"
                     PROVE  writer'[job'[i].name] = i /\ job'[i].name # None /\ file'[job'[i].name] # None
            BY DEF Held, Exists
        <3>1. job[i].pc = "body" /\ job'[i].name = job[i].name
            BY <2>2 DEF JobsKeep
        <3>2. writer[job[i].name] = i /\ file[job[i].name] # None /\ job[i].name \in Names
            BY <1>0, <3>1 DEF Held, Exists, Types, Job
        <3>3. i # j
            BY <1>0, <1>1 DEF Close, Step, Types, Job
        <3>4. job[i].name # n
            BY <1>0, <2>1, <3>2, <3>3 DEF Held
        <3>5. writer' = [writer EXCEPT ![n] = None]
            BY <1>1 DEF Close
        <3>6. \E len \in {"cut", "whole"} : file' = [file EXCEPT ![n].len = len]
            BY <1>1 DEF Close
        <3>7. writer'[job[i].name] = writer[job[i].name]
            BY <1>0, <3>2, <3>4, <3>5 DEF Types
        <3>8. file'[job[i].name] = file[job[i].name]
            BY <1>0, <3>2, <3>4, <3>6 DEF Types
        <3> QED
            BY <3>1, <3>2, <3>7, <3>8, CacheAssumption
    <2> QED
        BY <1>1, <2>2, <2>3, <2>4, <2>5, SameKeeps, SilentOwn DEF Close, Silent, Ordinary
<1>2. CASE RemoveConnection(j)
    <2>1. JobsKeep
        BY <1>0, <1>2, FreedKeeps DEF RemoveConnection
    <2>2. FilesKeep
        BY <1>0, <1>2, UnlinkKeeps, SameKeeps DEF RemoveConnection
    <2>3. RestTypes
        BY <1>0, <1>2 DEF RemoveConnection, Types, RestTypes
    <2>4. Held'
        <3> SUFFICES ASSUME NEW i \in Jobs, job'[i].pc = "body"
                     PROVE  writer'[job'[i].name] = i /\ job'[i].name # None /\ file'[job'[i].name] # None
            BY DEF Held, Exists
        <3> DEFINE n == job[j].name
        <3>1. job[i].pc = "body" /\ job'[i].name = job[i].name
            BY <2>1 DEF JobsKeep
        <3>2. writer[job[i].name] = i /\ file[job[i].name] # None /\ job[i].name \in Names
            BY <1>0, <3>1 DEF Held, Exists, Types, Job
        <3>3. i # j
            BY <1>2, <3>1 DEF RemoveConnection
        <3>4. CASE UNCHANGED <<file, writer>>
            BY <3>1, <3>2, <3>4, CacheAssumption
        <3>5. CASE writer[n] \in {j, None} /\ Unlink({n}) /\ writer' = [writer EXCEPT ![n] = None]
            <4>1. job[i].name # n
                BY <3>2, <3>3, <3>5, CacheAssumption
            <4>2. file' = [m \in Names |-> IF m \in {n} THEN None ELSE file[m]]
                BY <3>5 DEF Unlink
            <4> QED
                BY <1>0, <3>1, <3>2, <3>5, <4>1, <4>2, CacheAssumption DEF Types
        <3> QED
            BY <1>2, <3>4, <3>5 DEF RemoveConnection
    <2> QED
        BY <1>2, <2>1, <2>2, <2>3, <2>4, SameKeeps, SilentOwn DEF RemoveConnection, Silent, Ordinary
<1> QED
    BY <1>1, <1>2

-----------------------------------------------------------------------------
(* Steps that make a claim. *)

\* What is left to show of a step that is not ordinary.
LEMMA ClaimsKeep ==
    ASSUME Inv, KeysTellURLs, used \subseteq used', NEW N \in Names, NEW U \in URLs,
           Claimed(N, U) \/ N \notin used, N \in used',
           \A n \in Names, u \in URLs : Claimed(n, u)' => Claimed(n, u) \/ (n = N /\ u = U)
    PROVE  NamesTellURLs'
<1>1. NamesTellURLs
    BY DEF Inv
<1>2. ASSUME NEW n \in Names, NEW u \in URLs, NEW v \in URLs, Claimed(n, u)', Claimed(n, v)'
      PROVE  u = v
    BY <1>1, <1>2 DEF NamesTellURLs
<1>3. ASSUME NEW n \in Names, NEW u \in URLs, Claimed(n, u)' PROVE n \in used'
    BY <1>1, <1>3 DEF NamesTellURLs
<1> QED
    BY <1>2, <1>3 DEF NamesTellURLs

\* A new request remembers the name the database has.
LEMMA GetURLKeeps ==
    ASSUME Inv, NEW j \in Jobs, NEW u \in URLs, NEW option \in {"normal", "reload", "returnCache"},
           GetURL(j, u, option)
    PROVE  Inv'
<1> USE DEF disk, process
<1>0. Types /\ Held /\ \A i \in Jobs : JobNamed(job[i])
    BY DEF Inv
<1> DEFINE e == db[KeyOf[u]]
<1>1. KeyOf[u] \in Keys /\ e \in Entry \cup {None}
    BY <1>0, CacheAssumption DEF Types
<1>2. NewJob(u) \in Job /\ NewJob(u).url = u
      /\ NewJob(u).name = IF e = None THEN None ELSE e.name
    <2>1. Free \in Job
        BY FreeNamed
    <2>2. (IF e = None THEN None ELSE e.name) \in Names \cup {None}
        BY <1>1 DEF Entry
    <2>3. (IF Cached(u) THEN e.date ELSE 0) \in 0 .. MaxVersion
        BY <1>1, CacheAssumption DEF Cached, Entry
    <2> QED
        BY <2>1, <2>2, <2>3 DEF NewJob, Job
<1>3. PICK i \in Job :
          /\ job' = [job EXCEPT ![j] = i]
          /\ i.url = u /\ i.name = NewJob(u).name /\ i.pc \in {"notify", "queued"}
    <2>1. CASE ServedFromCache(u, option)
        <3> DEFINE i == [NewJob(u) EXCEPT !.pc = "notify", !.date = 0, !.any = option = "returnCache"]
        <3>1. i \in Job
            <4>1. 0 \in 0 .. MaxVersion /\ "notify" \in Places
                BY CacheAssumption DEF Places
            <4>2. (option = "returnCache") \in BOOLEAN
                OBVIOUS
            <4> DEFINE b == option = "returnCache"
            <4> HIDE DEF b
            <4>3. b \in BOOLEAN
                BY <4>2 DEF b
            <4>4. [NewJob(u) EXCEPT !.pc = "notify", !.date = 0, !.any = b] \in Job
                BY <1>2, <4>1, <4>3 DEF Job
            <4> QED
                BY <4>4 DEF b
        <3>2. i.url = u /\ i.name = NewJob(u).name /\ i.pc = "notify"
            BY <1>2 DEF Job
        <3>3. job' = [job EXCEPT ![j] = i]
            BY <2>1 DEF GetURL
        <3> QED
            BY <3>1, <3>2, <3>3
    <2>2. CASE ~ServedFromCache(u, option)
        <3> DEFINE i == [NewJob(u) EXCEPT !.pc = "queued"]
        <3>1. i \in Job
            BY <1>2 DEF Job, Places
        <3>2. i.url = u /\ i.name = NewJob(u).name /\ i.pc = "queued"
            BY <1>2 DEF Job
        <3>3. job' = [job EXCEPT ![j] = i]
            BY <2>2 DEF GetURL
        <3> QED
            BY <3>1, <3>2, <3>3
    <2> QED
        BY <2>1, <2>2
<1>4. UNCHANGED <<page, file, writer, used, db, visited, sessions>> /\ calls' = calls + 1 /\ calls < MaxCalls
    BY DEF GetURL
<1>5. Types'
    BY <1>0, <1>3, <1>4, CacheAssumption DEF Types
<1>6. \A k \in Jobs : JobNamed(job[k])'
    BY <1>0, <1>3 DEF Types, JobNamed
<1>7. ServedOwn' /\ Held'
    <2>1. \A k \in Jobs : job'[k].pc = "body" => job'[k] = job[k]
        BY <1>0, <1>3 DEF Types
    <2> QED
        BY <1>0, <1>4, <2>1, SilentOwn DEF GetURL, Silent, Held, Exists
<1>8. ASSUME KeysTellURLs PROVE NamesTellURLs'
    <2>1. ASSUME NEW n \in Names, NEW v \in URLs, Claimed(n, v)' PROVE Claimed(n, v)
        <3>1. n # None
            BY CacheAssumption
        <3>2. CASE job'[j].name = n /\ job'[j].url = v
            <4>1. e # None /\ e.name = n /\ v = u
                BY <1>0, <1>2, <1>3, <3>1, <3>2 DEF Types
            <4> QED
                BY <4>1 DEF Claimed
        <3>3. ASSUME NEW k \in Jobs, k # j, job'[k].name = n, job'[k].url = v PROVE Claimed(n, v)
            BY <1>0, <1>3, <3>3 DEF Claimed, Types
        <3>4. CASE \/ file'[n] # None /\ file'[n].url = v
                   \/ db'[KeyOf[v]] # None /\ db'[KeyOf[v]].name = n
            BY <1>4, <3>4 DEF Claimed
        <3>5. \/ file'[n] # None /\ file'[n].url = v
              \/ db'[KeyOf[v]] # None /\ db'[KeyOf[v]].name = n
              \/ \E k \in Jobs : job'[k].name = n /\ job'[k].url = v
            BY <2>1 DEF Claimed
        <3>6. ASSUME NEW k \in Jobs, job'[k].name = n, job'[k].url = v PROVE Claimed(n, v)
            <4>1. CASE k = j
                BY <3>2, <3>6, <4>1
            <4>2. CASE k # j
                BY <3>3, <3>6, <4>2
            <4> QED
                BY <4>1, <4>2
        <3> QED
            BY <3>4, <3>5, <3>6
    <2>2. used' = used /\ NamesTellURLs
        BY <1>4, <1>8 DEF Inv
    <2> QED
        BY <2>1, <2>2 DEF NamesTellURLs
<1> QED
    BY <1>5, <1>6, <1>7, <1>8 DEF Inv

\* A page is written to the file of its entry, or to one with a new name.
LEMMA ReplyKeeps ==
    ASSUME Inv, NEW j \in Jobs, Reply(j)
    PROVE  Inv'
<1> USE DEF disk, process
<1>0. Types /\ Held /\ \A i \in Jobs : JobNamed(job[i])
    BY DEF Inv
<1> DEFINE u == job[j].url
<1>1. u \in URLs /\ job[j].pc = "asked" /\ job[j] \in Job
    BY <1>0 DEF Reply, JobNamed, Types
<1>2. PICK n \in LocalName(j), d \in Date(j) :
          /\ writer[n] = None
          /\ job' = [job EXCEPT ![j].name = n, ![j].date = d, ![j].pc = "body"]
          /\ used' = used \cup {n}
          /\ file' = [file EXCEPT ![n] = [url |-> u, ver |-> page[u], len |-> "part"]]
          /\ writer' = [writer EXCEPT ![n] = j]
    BY DEF Reply
<1>3. UNCHANGED <<page, db, visited, running, sessions, calls>> /\ got' = {}
    BY DEF Reply, Silent
<1>4. n \in Names /\ n # None
    <2>1. job[j].name \in Names \cup {None}
        BY <1>1 DEF Job
    <2> QED
        BY <2>1, <1>2, CacheAssumption DEF LocalName, FreshNames
<1>5. d \in 0 .. MaxVersion
    <2>1. page[u] \in 0 .. MaxVersion
        BY <1>0, <1>1 DEF Types, Versions
    <2>2. job[j].date \in 0 .. MaxVersion
        BY <1>1 DEF Job
    <2>3. 0 \in 0 .. MaxVersion
        BY CacheAssumption
    <2> QED
        BY <2>1, <2>2, <2>3, <1>2 DEF Date
<1> DEFINE a == [job[j] EXCEPT !.name = n, !.date = d, !.pc = "body"]
           c == [url |-> u, ver |-> page[u], len |-> "part"]
<1>6. a \in Job /\ a.name = n /\ a.url = u /\ a.pc = "body"
    BY <1>1, <1>4, <1>5 DEF Job, Places
<1>7. JobNamed(a)
    BY <1>1, <1>4, <1>6 DEF JobNamed
<1>8. job' = [job EXCEPT ![j] = a]
    BY <1>0, <1>1, <1>2 DEF Types
<1>9. c \in Content /\ c.url = u /\ c # None
    <2>1. c \in Content
        BY <1>0, <1>1 DEF Types, Content, Lengths
    <2>2. c # None
        BY <2>1, NoneAssumption
    <2> QED
        BY <2>1, <2>2
<1>10. file' = [file EXCEPT ![n] = c]
    BY <1>2
<1> HIDE DEF a, c
<1>11. Types'
    <2>1. job' \in [Jobs -> Job] /\ file' \in [Names -> Content \cup {None}]
        BY <1>0, <1>6, <1>8, <1>9, <1>10 DEF Types
    <2>2. writer' \in [Names -> Jobs \cup {None}] /\ used' \subseteq Names
        BY <1>0, <1>2, <1>4 DEF Types
    <2> QED
        BY <1>0, <1>3, <2>1, <2>2 DEF Types
<1>12. \A i \in Jobs : JobNamed(job[i])'
    BY <1>0, <1>7, <1>8 DEF Types, JobNamed
<1>13. Held'
    <2> SUFFICES ASSUME NEW i \in Jobs, job'[i].pc = "body"
                 PROVE  writer'[job'[i].name] = i /\ job'[i].name # None /\ file'[job'[i].name] # None
        BY DEF Held, Exists
    <2>1. CASE i = j
        BY <1>0, <1>2, <1>4, <1>6, <1>8, <1>9, <1>10, <2>1 DEF Types
    <2>2. CASE i # j
        <3>1. job'[i] = job[i]
            BY <1>0, <1>8, <2>2 DEF Types
        <3>2. writer[job[i].name] = i /\ job[i].name # None /\ file[job[i].name] # None
            BY <1>0, <3>1 DEF Held, Exists
        <3>3. job[i].name \in Names /\ job[i].name # n
            BY <1>0, <1>2, <3>2, CacheAssumption DEF Types, Job
        <3> QED
            BY <1>0, <1>2, <1>10, <3>1, <3>2, <3>3 DEF Types
    <2> QED
        BY <2>1, <2>2
<1>14. ASSUME KeysTellURLs PROVE NamesTellURLs'
    <2>1. Claimed(n, u) \/ n \notin used
        BY <1>2, <1>4 DEF LocalName, FreshNames, Claimed
    <2>2. ASSUME NEW m \in Names, NEW v \in URLs, Claimed(m, v)'
          PROVE  Claimed(m, v) \/ (m = n /\ v = u)
        <3>1. CASE file'[m] # None /\ file'[m].url = v
            BY <1>0, <1>4, <1>9, <1>10, <3>1 DEF Types, Claimed
        <3>2. CASE db'[KeyOf[v]] # None /\ db'[KeyOf[v]].name = m
            BY <1>3, <3>2 DEF Claimed
        <3>3. ASSUME NEW k \in Jobs, job'[k].name = m, job'[k].url = v
              PROVE  Claimed(m, v) \/ (m = n /\ v = u)
            <4>1. CASE k = j
                BY <1>0, <1>6, <1>8, <3>3, <4>1 DEF Types
            <4>2. CASE k # j
                <5>1. job'[k] = job[k]
                    BY <1>0, <1>8, <4>2 DEF Types
                <5> QED
                    BY <3>3, <5>1 DEF Claimed
            <4> QED
                BY <4>1, <4>2
        <3>4. \/ file'[m] # None /\ file'[m].url = v
              \/ db'[KeyOf[v]] # None /\ db'[KeyOf[v]].name = m
              \/ \E k \in Jobs : job'[k].name = m /\ job'[k].url = v
            BY <2>2 DEF Claimed
        <3> QED
            BY <3>1, <3>2, <3>3, <3>4
    <2>3. used \subseteq used' /\ n \in used'
        BY <1>2
    <2> QED
        BY <1>1, <1>4, <1>14, <2>1, <2>2, <2>3, ClaimsKeep
<1> QED
    BY <1>3, <1>11, <1>12, <1>13, <1>14, SilentOwn DEF Inv

\* An entry gets the name of the file its page was written to.
LEMMA StoreKeeps ==
    ASSUME Inv, NEW j \in Jobs, Store(j)
    PROVE  Inv'
<1> USE DEF disk, process
<1>0. Types /\ Held /\ \A i \in Jobs : JobNamed(job[i])
    BY DEF Inv
<1> DEFINE u == job[j].url
           n == job[j].name
<1>1. u \in URLs /\ n \in Names /\ job[j].date \in 0 .. MaxVersion /\ KeyOf[u] \in Keys
    BY <1>0, CacheAssumption DEF Store, JobNamed, Types, Job
<1>2. UNCHANGED <<page, file, writer, used, sessions, calls>> /\ got' = {} /\ Step(j, "stored")
      /\ visited' = visited \cup {u}
    BY DEF Store, Silent
<1>3. JobsKeep
    BY <1>0, <1>1, <1>2, StepKeeps, CacheAssumption DEF Store, Places
<1>a. PICK size \in Received(n) :
          db' = [db EXCEPT ![KeyOf[u]] = [name |-> n, date |-> job[j].date, size |-> size]]
    BY DEF Store
<1> DEFINE e == [name |-> n, date |-> job[j].date, size |-> size]
<1>4. db' = [db EXCEPT ![KeyOf[u]] = e]
    BY <1>a
<1>5. e \in Entry /\ e.name = n
    <2>1. size \in 1 .. 3
        BY <1>a DEF Received, Size
    <2> QED
        BY <1>1, <2>1 DEF Entry
<1> HIDE DEF e
<1>6. Types'
    <2>1. db' \in [Keys -> Entry \cup {None}]
        BY <1>0, <1>4, <1>5 DEF Types
    <2>2. visited' \subseteq URLs
        BY <1>0, <1>1, <1>2 DEF Types
    <2> QED
        BY <1>0, <1>2, <1>3, <2>1, <2>2 DEF Types, JobsKeep
<1>7. Held' /\ \A i \in Jobs : JobNamed(job[i])'
    <2>1. Held'
        BY <1>0, <1>2, <1>3, HeldKeeps
    <2>2. \A i \in Jobs : JobNamed(job[i])'
        BY <1>3 DEF JobsKeep, JobNamed
    <2> QED
        BY <2>1, <2>2
<1>8. ASSUME KeysTellURLs PROVE NamesTellURLs'
    <2>1. Claimed(n, u)
        BY DEF Claimed
    <2>2. ASSUME NEW m \in Names, NEW v \in URLs, Claimed(m, v)'
          PROVE  Claimed(m, v) \/ (m = n /\ v = u)
        <3>1. m # None
            BY CacheAssumption
        <3>2. CASE file'[m] # None /\ file'[m].url = v
            BY <1>2, <3>2 DEF Claimed
        <3>3. CASE db'[KeyOf[v]] # None /\ db'[KeyOf[v]].name = m
            <4>1. KeyOf[v] \in Keys
                BY CacheAssumption
            <4>2. CASE KeyOf[v] = KeyOf[u]
                <5>1. v = u
                    BY <1>1, <1>8, <4>2 DEF KeysTellURLs
                <5>2. db'[KeyOf[v]] = e
                    BY <1>0, <1>1, <1>4, <4>2 DEF Types
                <5> QED
                    BY <1>5, <3>3, <5>1, <5>2 DEF Claimed
            <4>3. CASE KeyOf[v] # KeyOf[u]
                <5>1. db'[KeyOf[v]] = db[KeyOf[v]]
                    BY <1>0, <1>4, <4>1, <4>3 DEF Types
                <5> QED
                    BY <3>3, <5>1 DEF Claimed
            <4> QED
                BY <4>2, <4>3
        <3>4. CASE \E k \in Jobs : job'[k].name = m /\ job'[k].url = v
            BY <1>3, <3>1, <3>4 DEF Claimed, JobsKeep
        <3>5. \/ file'[m] # None /\ file'[m].url = v
              \/ db'[KeyOf[v]] # None /\ db'[KeyOf[v]].name = m
              \/ \E k \in Jobs : job'[k].name = m /\ job'[k].url = v
            BY <2>2 DEF Claimed
        <3> QED
            BY <3>2, <3>3, <3>4, <3>5
    <2>3. n \in used'
        BY <1>1, <1>2, <1>8, <2>1 DEF Inv, NamesTellURLs
    <2> QED
        BY <1>1, <1>2, <1>8, <2>1, <2>2, <2>3, ClaimsKeep
<1> QED
    BY <1>2, <1>6, <1>7, <1>8, SilentOwn DEF Inv

-----------------------------------------------------------------------------
(* The specification. *)

\* The invariant holds at the start.
LEMMA InitHolds ==
    ASSUME Init
    PROVE  Inv
<1>1. page \in [URLs -> Versions] /\ 0 \in 0 .. MaxCalls /\ 0 \in 0 .. MaxSessions
    BY CacheAssumption DEF Init, Versions
<1>2. Types
    BY <1>1, FreeNamed DEF Init, Types
<1>3. Held /\ \A i \in Jobs : JobNamed(job[i])
    BY FreeNamed DEF Init, Held
<1>4. \A n \in Names, u \in URLs : ~Claimed(n, u)
    BY FreeNamed, CacheAssumption DEF Init, Claimed
<1> QED
    BY <1>2, <1>3, <1>4 DEF Inv, NamesTellURLs, ServedOwn, Init

\* Every step keeps it.
LEMMA NextKeeps ==
    ASSUME Inv, [Next]_vars
    PROVE  Inv'
<1>1. CASE Calls
    <2>1. CASE \E j \in Jobs, u \in URLs, o \in {"normal", "reload", "returnCache"} : GetURL(j, u, o)
        BY <2>1, GetURLKeeps
    <2>2. CASE \/ \E u \in URLs : DeleteCachedURL(u)
               \/ ClearCache
               \/ \E j \in Jobs : Abort(j)
        BY <2>2, CallIsOrdinary, OrdinaryKeeps
    <2> QED
        BY <1>1, <2>1, <2>2 DEF Calls
<1>2. ASSUME NEW j \in Jobs, Worker(j) PROVE Inv'
    <2>1. CASE \/ Notify(j) \/ Take(j) \/ Fails(j) \/ Drops(j) \/ Unchanged(j) \/ Local(j)
               \/ Refused(j) \/ Complete(j) \/ Stops(j)
        BY <2>1, WorkerIsOrdinary, OrdinaryKeeps
    <2>2. CASE Close(j) \/ RemoveConnection(j)
        BY <2>2, CloseIsOrdinary, OrdinaryKeeps
    <2>3. CASE Reply(j)
        BY <2>3, ReplyKeeps
    <2>4. CASE Store(j)
        BY <2>4, StoreKeeps
    <2> QED
        BY <1>2, <2>1, <2>2, <2>3, <2>4 DEF Worker
<1>3. CASE Exit \/ Crash \/ Start \/ \E u \in URLs : Modify(u)
    BY <1>3, ProgramIsOrdinary, OrdinaryKeeps
<1>4. CASE UNCHANGED vars
    <2>1. FilesKeep /\ EntriesKeep /\ JobsKeep /\ Held'
        BY <1>4, SameKeeps, HeldKeeps DEF Inv, vars, disk
    <2>2. RestTypes /\ used' = used
        BY <1>4, SameKeeps DEF vars, disk, process
    <2>3. KeysTellURLs => ServedOwn'
        BY <1>4 DEF Inv, ServedOwn, vars
    <2> QED
        BY <2>1, <2>2, <2>3, OrdinaryKeeps DEF Ordinary
<1> QED
    BY <1>1, <1>2, <1>3, <1>4 DEF Next

\* The cache's data keep their types, a file is written only by the request
\* that holds it, and no file name is ever shared by two pages (GetURL, Reply
\* and Store keep the claims apart).
THEOREM CacheInvariant == Spec => []Inv
<1>1. Init => Inv
    BY InitHolds
<1>2. Inv /\ [Next]_vars => Inv'
    BY NextKeeps
<1> QED
    BY <1>1, <1>2, PTL DEF Spec

\* What is delivered for a URL is a copy of its page (HandleScheme, StreamURL),
\* whatever is evicted, aborted, stored or lost in a crash meanwhile, provided
\* that no two URLs share a key of the database.
THEOREM CopiesOfThePage == KeysTellURLs => (Spec => []ServedOwn)
<1> SUFFICES ASSUME KeysTellURLs PROVE Spec => []ServedOwn
    OBVIOUS
<1>1. Inv => ServedOwn
    BY DEF Inv
<1> QED
    BY <1>1, CacheInvariant, PTL
-----------------------------------------------------------------------------
(* How the requests go on. *)

\* What becomes of the request a in a step that neither makes one nor names its file.
Moved(a, b) ==
    \/ a.pc \in {"queued", "notify", "wait", "ended"} /\ b = Free
    \/ /\ b.url = a.url /\ b.name = a.name /\ b.any = a.any /\ (a.abort => b.abort)
       /\ \/ b.pc = a.pc /\ b.date = a.date
          \/ a.pc = "queued" /\ b.pc \in {"wait", "asked"} /\ b.date = a.date
          \/ a.pc = "asked" /\ b.pc = "local" /\ b.date = a.date
          \/ a.pc = "body" /\ b.pc = "closed" /\ b.date = a.date
          \/ a.pc = "closed" /\ b.pc = "stored" /\ b.date = a.date
          \/ a.pc \in {"asked", "local", "stored"} /\ b.pc = "ended" /\ b.date = 0
          \/ a.pc = "body" /\ a.abort /\ b.pc = "ended" /\ b.date = 0

JobsMove == \A i \in Jobs : Moved(job[i], job'[i])
JobsGoOn == \A i \in Jobs : job'[i] = Free \/ Moved(job[i], job'[i])

\* One request goes on to its next place.
LEMMA StepMoves ==
    ASSUME Types, NEW j \in Jobs, NEW pc, Step(j, pc),
           \/ job[j].pc = "queued" /\ pc \in {"wait", "asked"}
           \/ job[j].pc = "asked" /\ pc = "local"
           \/ job[j].pc = "body" /\ pc = "closed"
           \/ job[j].pc = "closed" /\ pc = "stored"
    PROVE  /\ JobsMove
           /\ job'[j].pc = pc /\ job'[j].name = job[j].name
           /\ \A i \in Jobs \ {j} : job'[i] = job[i]
<1> DEFINE b == [job[j] EXCEPT !.pc = pc]
<1>1. /\ b.pc = pc /\ b.url = job[j].url /\ b.name = job[j].name /\ b.any = job[j].any
      /\ b.abort = job[j].abort /\ b.date = job[j].date
    BY DEF Types, Job
<1>2. job' = [job EXCEPT ![j] = b]
    BY DEF Step
<1> HIDE DEF b
<1>3. job'[j] = b /\ \A i \in Jobs \ {j} : job'[i] = job[i]
    BY <1>2 DEF Types
<1>4. Moved(job[j], b)
    BY <1>1 DEF Moved
<1> QED
    BY <1>1, <1>3, <1>4 DEF JobsMove, Moved

\* A request ends, and those that waited for it are done.
LEMMA FinishedMoves ==
    ASSUME Types, NEW j \in Jobs, job' = Finished(j),
           \/ job[j].pc \in {"asked", "local", "stored"}
           \/ job[j].pc = "body" /\ job[j].abort
    PROVE  /\ JobsMove
           /\ job'[j].pc = "ended" /\ job'[j].name = job[j].name /\ job'[j].abort = job[j].abort
           /\ \A i \in Jobs \ {j} : job'[i] = job[i] \/ (job[i].pc = "wait" /\ job'[i] = Free)
<1> DEFINE e == [job[j] EXCEPT !.pc = "ended", !.date = 0]
<1>1. /\ e.pc = "ended" /\ e.url = job[j].url /\ e.name = job[j].name /\ e.any = job[j].any
      /\ e.abort = job[j].abort /\ e.date = 0
    BY DEF Types, Job
<1>2. job' = [i \in Jobs |-> IF i \in Waiters(j) THEN Free ELSE IF i = j THEN e ELSE job[i]]
    BY DEF Finished
<1> HIDE DEF e
<1>3. j \notin Waiters(j)
    BY DEF Waiters
<1>4. job'[j] = e
    BY <1>2, <1>3
<1>5. \A i \in Jobs \ {j} : job'[i] = job[i] \/ (job[i].pc = "wait" /\ job'[i] = Free)
    BY <1>2 DEF Waiters
<1>6. Moved(job[j], e)
    BY <1>1 DEF Moved
<1> QED
    BY <1>1, <1>4, <1>5, <1>6 DEF JobsMove, Moved

\* All workers' steps but the one that names a file.
LEMMA WorkerMoves ==
    ASSUME Types, NEW j \in Jobs,
           \/ Notify(j) \/ Take(j) \/ Fails(j) \/ Drops(j) \/ Unchanged(j) \/ Local(j) \/ Refused(j)
           \/ Close(j) \/ Store(j) \/ Complete(j) \/ Stops(j) \/ RemoveConnection(j)
    PROVE  JobsMove
<1>1. CASE Notify(j) \/ RemoveConnection(j)
    <2>1. job' = [job EXCEPT ![j] = Free] /\ job[j].pc \in {"notify", "ended"}
        BY <1>1 DEF Notify, RemoveConnection
    <2>2. job'[j] = Free /\ \A i \in Jobs \ {j} : job'[i] = job[i]
        BY <2>1 DEF Types
    <2> QED
        BY <2>1, <2>2 DEF JobsMove, Moved
<1>2. CASE Take(j)
    BY <1>2, StepMoves DEF Take
<1>3. CASE Unchanged(j)
    BY <1>3, StepMoves DEF Unchanged
<1>4. CASE Close(j)
    BY <1>4, StepMoves DEF Close
<1>5. CASE Store(j)
    BY <1>5, StepMoves DEF Store
<1>6. CASE Fails(j) \/ Drops(j) \/ Refused(j) \/ Local(j) \/ Complete(j) \/ Stops(j)
    BY <1>6, FinishedMoves DEF Fails, Drops, Refused, Local, Complete, Stops
<1> QED
    BY <1>1, <1>2, <1>3, <1>4, <1>5, <1>6

\* A request is aborted, or deleted before a worker had it.
LEMMA AbortMoves ==
    ASSUME Types, NEW j \in Jobs, Abort(j)
    PROVE  /\ JobsMove
           /\ \A i \in Jobs : job'[i].pc = job[i].pc \/ job[i].pc \in {"queued", "notify"}
<1> DEFINE b == [job[j] EXCEPT !.abort = TRUE]
<1>1. /\ b.pc = job[j].pc /\ b.url = job[j].url /\ b.name = job[j].name /\ b.any = job[j].any
      /\ b.abort /\ b.date = job[j].date
    BY DEF Types, Job
<1>2. \/ job[j].pc \in {"queued", "notify"} /\ job' = [job EXCEPT ![j] = Free]
      \/ job' = [job EXCEPT ![j] = b]
    BY DEF Abort
<1> HIDE DEF b
<1>3. /\ \A i \in Jobs \ {j} : job'[i] = job[i]
      /\ (job[j].pc \in {"queued", "notify"} /\ job'[j] = Free) \/ job'[j] = b
    BY <1>2 DEF Types
<1>4. Moved(job[j], b)
    BY <1>1 DEF Moved
<1>5. JobsMove
    BY <1>3, <1>4 DEF JobsMove, Moved
<1>6. \A i \in Jobs : job'[i].pc = job[i].pc \/ job[i].pc \in {"queued", "notify"}
    BY <1>1, <1>3
<1> QED
    BY <1>5, <1>6

\* A new request looks its page up.
LooksUp(j, u, a) ==
    /\ job' = [job EXCEPT ![j] = a] /\ job[j].pc = "free"
    /\ a.url = u /\ a.name = IF db[KeyOf[u]] = None THEN None ELSE db[KeyOf[u]].name
    /\ a.pc \in {"notify", "queued"} /\ a.abort = FALSE
    /\ a.pc = "notify" => Cached(u) /\ (a.any \/ u \in visited)
    /\ a.date # 0 => Cached(u) /\ a.date = db[KeyOf[u]].date

LEMMA NewRequest ==
    ASSUME Types, NEW j \in Jobs, NEW u \in URLs, NEW option, GetURL(j, u, option)
    PROVE  \E a \in Job : LooksUp(j, u, a)
<1> DEFINE N == NewJob(u)
           n == IF db[KeyOf[u]] = None THEN None ELSE db[KeyOf[u]].name
<1>1. /\ N \in Job /\ N.url = u /\ N.name = n /\ N.abort = FALSE
      /\ N.date # 0 => Cached(u) /\ N.date = db[KeyOf[u]].date
    <2> DEFINE d == IF Cached(u) THEN db[KeyOf[u]].date ELSE 0
    <2>1. db[KeyOf[u]] \in Entry \cup {None}
        BY CacheAssumption DEF Types
    <2>2. n \in Names \cup {None} /\ d \in 0 .. MaxVersion
        BY <2>1, CacheAssumption DEF Entry, Cached
    <2>3. N = [Free EXCEPT !.url = u, !.name = n, !.date = d]
        BY DEF NewJob
    <2>4. Free \in Job /\ Free.abort = FALSE
        BY FreeNamed DEF Free
    <2> HIDE DEF n, d
    <2>5. N \in Job /\ N.url = u /\ N.name = n /\ N.abort = FALSE /\ N.date = d
        BY <2>2, <2>3, <2>4 DEF Job
    <2> QED
        BY <2>5 DEF d
<1> HIDE DEF N
<1>2. CASE ServedFromCache(u, option)
    <2> DEFINE b == option = "returnCache"
               a == [N EXCEPT !.pc = "notify", !.date = 0, !.any = b]
    <2>1. b \in BOOLEAN /\ 0 \in 0 .. MaxVersion
        BY CacheAssumption
    <2>2. Cached(u) /\ (b \/ u \in visited)
        BY <1>2 DEF ServedFromCache
    <2>3. job' = [job EXCEPT ![j] = a] /\ job[j].pc = "free"
        BY <1>2 DEF GetURL, N
    <2> HIDE DEF b
    <2>4. /\ a \in Job /\ a.pc = "notify" /\ a.url = N.url /\ a.name = N.name /\ a.abort = N.abort
          /\ a.any = b /\ a.date = 0
        BY <1>1, <2>1 DEF Job, Places
    <2> QED
        BY <1>1, <2>2, <2>3, <2>4 DEF LooksUp
<1>3. CASE ~ServedFromCache(u, option)
    <2> DEFINE a == [N EXCEPT !.pc = "queued"]
    <2>1. job' = [job EXCEPT ![j] = a] /\ job[j].pc = "free"
        BY <1>3 DEF GetURL, N
    <2>2. /\ a \in Job /\ a.pc = "queued" /\ a.url = N.url /\ a.name = N.name /\ a.abort = N.abort
          /\ a.date = N.date
        BY <1>1 DEF Job, Places
    <2> QED
        BY <1>1, <2>1, <2>2 DEF LooksUp
<1> QED
    BY <1>2, <1>3

\* A reply names the file, and empties it for the page as it is now.
NamesFile(j, n, a, c) ==
    /\ job' = [job EXCEPT ![j] = a] /\ file' = [file EXCEPT ![n] = c]
    /\ writer' = [writer EXCEPT ![n] = j] /\ writer[n] = None
    /\ n \in LocalName(j) /\ n # None /\ Written(n)
    /\ a.pc = "body" /\ a.url = job[j].url /\ a.name = n /\ a.date \in Date(j)
    /\ c.url = job[j].url /\ c.ver = page[job[j].url] /\ c.len = "part"

LEMMA NewFile ==
    ASSUME Types, \A i \in Jobs : JobNamed(job[i]), NEW j \in Jobs, Reply(j)
    PROVE  \E n \in Names, a \in Job, c \in Content : NamesFile(j, n, a, c)
<1> DEFINE u == job[j].url
<1>1. u \in URLs /\ job[j] \in Job
    BY DEF Reply, JobNamed, Types
<1>2. PICK n \in LocalName(j), d \in Date(j) :
          /\ writer[n] = None
          /\ job' = [job EXCEPT ![j].name = n, ![j].date = d, ![j].pc = "body"]
          /\ used' = used \cup {n}
          /\ file' = [file EXCEPT ![n] = [url |-> u, ver |-> page[u], len |-> "part"]]
          /\ writer' = [writer EXCEPT ![n] = j]
          /\ Written(n)
    BY DEF Reply
<1>3. n \in Names /\ n # None
    BY <1>1, <1>2, CacheAssumption DEF LocalName, FreshNames, Job
<1>4. d \in 0 .. MaxVersion
    BY <1>1, <1>2, CacheAssumption DEF Date, Types, Versions, Job
<1> DEFINE a == [job[j] EXCEPT !.name = n, !.date = d, !.pc = "body"]
           c == [url |-> u, ver |-> page[u], len |-> "part"]
<1>5. a \in Job /\ a.pc = "body" /\ a.url = u /\ a.name = n /\ a.date = d
    BY <1>1, <1>3, <1>4 DEF Job, Places
<1>6. c \in Content /\ c.url = u /\ c.ver = page[u] /\ c.len = "part"
    BY <1>1 DEF Types, Content, Lengths
<1>7. job' = [job EXCEPT ![j] = a]
    BY <1>2
<1>8. file' = [file EXCEPT ![n] = c]
    BY <1>2
<1> HIDE DEF a, c
<1>9. NamesFile(j, n, a, c)
    BY <1>2, <1>3, <1>5, <1>6, <1>7, <1>8 DEF NamesFile
<1> QED
    BY <1>3, <1>5, <1>6, <1>9

\* What is received is a file of its page, no longer half a one.
LEMMA ClosedFile ==
    ASSUME Types, Held, \A i \in Jobs : JobNamed(job[i]), NEW j \in Jobs, Close(j)
    PROVE  /\ job[j].name \in Names /\ writer[job[j].name] = j /\ file[job[j].name] \in Content
           /\ \E c \in Content :
                  /\ file' = [file EXCEPT ![job[j].name] = c]
                  /\ c.url = file[job[j].name].url /\ c.ver = file[job[j].name].ver
                  /\ c.len \in {"cut", "whole"}
<1> DEFINE n == job[j].name
<1>1. n \in Names /\ writer[n] = j /\ file[n] \in Content
    BY DEF Close, Held, Exists, JobNamed, Types, Job
<1>2. PICK len \in {"cut", "whole"} : file' = [file EXCEPT ![n].len = len]
    BY DEF Close
<1> DEFINE c == [file[n] EXCEPT !.len = len]
<1>3. c \in Content /\ c.url = file[n].url /\ c.ver = file[n].ver /\ c.len = len
    BY <1>1 DEF Content, Lengths
<1>4. file' = [file EXCEPT ![n] = c]
    BY <1>2
<1> HIDE DEF c
<1> QED
    BY <1>1, <1>2, <1>3, <1>4

-----------------------------------------------------------------------------
(* The files in the order of their times. *)

\* The files F, each once, those of U before the others.
Lined(s, F, U) ==
    /\ s \in Seq(Names) /\ {s[i] : i \in 1 .. Len(s)} = F
    /\ \A i, k \in 1 .. Len(s) : s[i] = s[k] => i = k
    /\ \A i, k \in 1 .. Len(s) : s[i] \in U /\ s[k] \notin U => i < k

\* Deleting leaves the others in their order.
LEMMA WithoutLined ==
    ASSUME NEW s, NEW F, NEW U, Lined(s, F, U), NEW X
    PROVE  Lined(Without(s, X), F \ X, U)
<1> DEFINE w == Without(s, X)
           P == KeptPositions(s, X)
           p(n) == NthOf(P, n)
<1>1. s \in Seq(Names)
    BY DEF Lined
<1>2. /\ w \in Seq(Names)
      /\ \A n \in 1 .. Len(w) : p(n) \in P /\ w[n] = s[p(n)]
      /\ \A m, n \in 1 .. Len(w) : m < n => p(m) < p(n)
    BY <1>1, WithoutIsKept
<1>3. \A i \in P : i \in 1 .. Len(s)
    BY DEF KeptPositions
<1>4. {w[n] : n \in 1 .. Len(w)} = F \ X
    BY <1>1, WithoutElements DEF Lined
<1>5. \A m, n \in 1 .. Len(w) : w[m] = w[n] => m = n
    BY <1>1, WithoutRepetition DEF Lined
<1> HIDE DEF w, P, p
<1>6. ASSUME NEW m \in 1 .. Len(w), NEW n \in 1 .. Len(w), w[m] \in U, w[n] \notin U PROVE m < n
    <2>1. p(m) < p(n) /\ p(m) \in Int /\ p(n) \in Int
        BY <1>2, <1>3, <1>6 DEF Lined
    <2>2. m # n /\ ~(n < m)
        BY <1>2, <1>6, <2>1
    <2>3. m \in Int /\ n \in Int
        BY <1>2
    <2> QED
        BY <2>2, <2>3
<1>7. Lined(w, F \ X, U)
    BY <1>2, <1>4, <1>5, <1>6 DEF Lined
<1> QED
    BY <1>7 DEF w

\* A file written becomes the last.
LEMMA AppendLined ==
    ASSUME NEW s, NEW F, NEW U, Lined(s, F, U), NEW n \in Names, n \notin F
    PROVE  Lined(Append(s, n), F \cup {n}, U \ {n})
<1> DEFINE t == Append(s, n)
<1>1. s \in Seq(Names) /\ Len(s) \in Nat
    BY DEF Lined
<1>2. /\ t \in Seq(Names) /\ Len(t) = Len(s) + 1
      /\ \A i \in 1 .. Len(s) : t[i] = s[i] /\ s[i] \in F
      /\ t[Len(s) + 1] = n
    BY <1>1 DEF Lined
<1> HIDE DEF t
<1>3. \A i \in 1 .. Len(t) : i \in 1 .. Len(s) \/ i = Len(s) + 1
    BY <1>1, <1>2
<1>4. {t[i] : i \in 1 .. Len(t)} = F \cup {n}
    <2>1. \A i \in 1 .. Len(t) : t[i] \in F \cup {n}
        BY <1>2, <1>3
    <2>2. \A f \in F : \E i \in 1 .. Len(s) : f = s[i]
        BY DEF Lined
    <2>3. \A i \in 1 .. Len(s) : i \in 1 .. Len(t)
        BY <1>1, <1>2
    <2>4. \A f \in F : \E i \in 1 .. Len(t) : f = t[i]
        BY <1>2, <2>2, <2>3
    <2>5. \E i \in 1 .. Len(t) : n = t[i]
        BY <1>1, <1>2
    <2> QED
        BY <2>1, <2>4, <2>5
<1>5. ASSUME NEW i \in 1 .. Len(t), NEW k \in 1 .. Len(t), t[i] = t[k] PROVE i = k
    BY <1>2, <1>3, <1>5 DEF Lined
<1>6. ASSUME NEW i \in 1 .. Len(t), NEW k \in 1 .. Len(t), t[i] \in U \ {n}, t[k] \notin U \ {n} PROVE i < k
    <2>1. i \in 1 .. Len(s) /\ s[i] \in U
        BY <1>2, <1>3, <1>6
    <2>2. CASE k = Len(s) + 1
        BY <1>1, <2>1, <2>2
    <2>3. CASE k \in 1 .. Len(s)
        <3>1. s[k] \notin U
            BY <1>2, <1>6, <2>3
        <3> QED
            BY <2>1, <2>3, <3>1 DEF Lined
    <2> QED
        BY <1>3, <2>2, <2>3
<1>7. Lined(t, F \cup {n}, U \ {n})
    BY <1>2, <1>4, <1>5, <1>6 DEF Lined
<1> QED
    BY <1>7 DEF t

\* A session ends with no file to compare, and begins with all of them unused.
LEMMA AllOrNoneLined ==
    ASSUME NEW s, NEW F, NEW U, Lined(s, F, U)
    PROVE  Lined(s, F, {}) /\ Lined(s, F, F)
    BY DEF Lined

\* The order of the files is that of their times.
InOrder == Lined(order, Present, untouched)

\* Deleting files.
LEMMA UnlinkOrder ==
    ASSUME Types, InOrder, NEW ns, Unlink(ns)
    PROVE  Lined(order', Present', untouched)
<1>1. file' = [n \in Names |-> IF n \in ns THEN None ELSE file[n]] /\ order' = Without(order, ns)
    BY DEF Unlink
<1>2. Present' = Present \ ns
    BY <1>1 DEF Present
<1> QED
    BY <1>1, <1>2, WithoutLined DEF InOrder

\* Writing a file.
LEMMA WrittenOrder ==
    ASSUME InOrder, NEW n \in Names, Written(n), Present' = Present \cup {n}
    PROVE  InOrder'
<1>1. order' = Append(Without(order, {n}), n) /\ untouched' = untouched \ {n}
    BY DEF Written, Touched
<1>2. Lined(Without(order, {n}), Present \ {n}, untouched)
    BY WithoutLined DEF InOrder
<1>3. Lined(order', (Present \ {n}) \cup {n}, untouched')
    BY <1>1, <1>2, AppendLined
<1>4. (Present \ {n}) \cup {n} = Present'
    OBVIOUS
<1> QED
    BY <1>3, <1>4 DEF InOrder

\* Every step keeps the order.
LEMMA OrderKept ==
    ASSUME Inv, InOrder, [Next]_vars
    PROVE  InOrder'
<1> USE DEF disk, process
<1>0. Types /\ Held /\ \A i \in Jobs : JobNamed(job[i])
    BY DEF Inv
<1>1. ASSUME UNCHANGED <<file, order, untouched>> PROVE InOrder'
    BY <1>1 DEF InOrder, Present
<1>2. ASSUME NEW ns, Unlink(ns), untouched' = untouched PROVE InOrder'
    BY <1>0, <1>2, UnlinkOrder DEF InOrder
<1>3. CASE Calls
    <2>1. CASE \/ \E j \in Jobs, u \in URLs, o \in {"normal", "reload", "returnCache"} : GetURL(j, u, o)
               \/ \E j \in Jobs : Abort(j)
        BY <1>1, <2>1 DEF GetURL, Abort
    <2>2. CASE \E u \in URLs : DeleteCachedURL(u)
        BY <1>2, <2>2 DEF DeleteCachedURL
    <2>3. CASE ClearCache
        BY <1>2, <2>3 DEF ClearCache
    <2> QED
        BY <1>3, <2>1, <2>2, <2>3 DEF Calls
<1>4. ASSUME NEW j \in Jobs, Worker(j) PROVE InOrder'
    <2>1. CASE \/ Notify(j) \/ Take(j) \/ Fails(j) \/ Drops(j) \/ Unchanged(j) \/ Refused(j) \/ Store(j)
               \/ Complete(j) \/ Stops(j)
        BY <1>1, <2>1 DEF Notify, Take, Fails, Drops, Unchanged, Refused, Store, Complete, Stops
    <2>2. CASE Local(j)
        <3> DEFINE n == job[j].name
        <3>1. CASE UNCHANGED <<order, untouched>>
            BY <1>1, <2>2, <3>1 DEF Local
        <3>2. CASE Readable(n) /\ Written(n)
            <4>1. n \in Names /\ n \in Present
                BY <1>0, <3>2 DEF Readable, Exists, Present, Types, Job
            <4>2. Present' = Present \cup {n}
                BY <2>2, <4>1 DEF Local, Present
            <4> QED
                BY <3>2, <4>1, <4>2, WrittenOrder
        <3> QED
            BY <2>2, <3>1, <3>2 DEF Local, Keeps
    <2>3. CASE Reply(j)
        <3>1. PICK n \in Names, a \in Job, c \in Content : NamesFile(j, n, a, c)
            BY <1>0, <2>3, NewFile
        <3>2. Present' = Present \cup {n}
            BY <1>0, <3>1, NoneAssumption DEF NamesFile, Present, Types
        <3> QED
            BY <3>1, <3>2, WrittenOrder DEF NamesFile
    <2>4. CASE Close(j)
        <3> DEFINE n == job[j].name
        <3>1. PICK c \in Content : n \in Names /\ file[n] \in Content /\ file' = [file EXCEPT ![n] = c]
            BY <1>0, <2>4, ClosedFile
        <3>2. Present' = Present \cup {n}
            BY <1>0, <3>1, NoneAssumption DEF Present, Types
        <3>3. Written(n)
            BY <2>4 DEF Close
        <3> QED
            BY <3>1, <3>2, <3>3, WrittenOrder
    <2>5. CASE RemoveConnection(j)
        BY <1>1, <1>2, <2>5 DEF RemoveConnection
    <2> QED
        BY <1>4, <2>1, <2>2, <2>3, <2>4, <2>5 DEF Worker
<1>5. CASE Exit
    <2>1. Lined(order', Present', untouched) /\ untouched' = {}
        BY <1>0, <1>5, UnlinkOrder DEF Exit, Ends
    <2> QED
        BY <2>1, AllOrNoneLined DEF InOrder
<1>6. CASE Crash
    <2>1. UNCHANGED <<file, order>> /\ untouched' = {}
        BY <1>6 DEF Crash, Ends
    <2> QED
        BY <2>1, AllOrNoneLined DEF InOrder, Present
<1>7. CASE Start
    <2>1. UNCHANGED <<file, order>> /\ untouched' = Present
        BY <1>7 DEF Start
    <2> QED
        BY <2>1, AllOrNoneLined DEF InOrder, Present
<1>8. CASE \E u \in URLs : Modify(u)
    BY <1>1, <1>8 DEF Modify
<1>9. CASE UNCHANGED vars
    BY <1>1, <1>9 DEF vars, ghosts
<1> QED
    BY <1>3, <1>4, <1>5, <1>6, <1>7, <1>8, <1>9 DEF Next

\* Sessions begin and end; between them nothing is left of the requests.
Sessions ==
    /\ running \in BOOLEAN /\ begin \in [URLs -> Versions]
    /\ served \subseteq Names /\ untouched \subseteq Names
    /\ Resting

\* Only what a request finds is streamed.
LEMMA DeliverNames ==
    ASSUME Types, NEW j \in Jobs, NEW rs, Deliver(rs, job[j].name), served \subseteq Names
    PROVE  served' \subseteq Names
<1>1. served' = served \/ (Readable(job[j].name) /\ served' = served \cup {job[j].name})
    BY DEF Deliver, Delivery
<1> QED
    BY <1>1 DEF Readable, Exists, Types, Job

\* Every step keeps that.
LEMMA SessionsKept ==
    ASSUME Inv, Sessions, [Next]_vars
    PROVE  Sessions'
<1> USE DEF disk, process
<1>0. Types /\ Held /\ \A i \in Jobs : JobNamed(job[i])
    BY DEF Inv
<1>1. ASSUME running, UNCHANGED <<running, begin>>, served' \subseteq Names, untouched' \subseteq untouched
      PROVE  Sessions'
    BY <1>1 DEF Sessions, Resting
<1>2. CASE Calls
    BY <1>1, <1>2 DEF Calls, GetURL, DeleteCachedURL, ClearCache, Abort, Silent, Sessions
<1>3. ASSUME NEW j \in Jobs, Worker(j) PROVE Sessions'
    <2>1. running
        <3>1. job[j].pc # "free"
            BY <1>3 DEF Worker, Notify, Take, Fails, Drops, Unchanged, Local, Reply, Refused, Close, Store,
                        Complete, Stops, RemoveConnection
        <3> QED
            BY <3>1 DEF Sessions, Resting, Free
    <2>2. UNCHANGED <<running, begin>> /\ untouched' \subseteq untouched
        BY <1>3 DEF Worker, Notify, Take, Fails, Drops, Unchanged, Local, Reply, Refused, Close, Store,
                    Complete, Stops, RemoveConnection, Keeps, Written
    <2>3. CASE served' = served
        BY <1>1, <2>1, <2>2, <2>3 DEF Sessions
    <2>4. CASE \E rs \in SUBSET Jobs : Deliver(rs, job[j].name)
        <3>1. served' \subseteq Names
            BY <1>0, <2>4, DeliverNames DEF Sessions
        <3> QED
            BY <1>1, <2>1, <2>2, <3>1
    <2>5. served' = served \/ \E rs \in SUBSET Jobs : Deliver(rs, job[j].name)
        <3>1. {j} \in SUBSET Jobs /\ {j} \cup Waiters(j) \in SUBSET Jobs
            BY DEF Waiters
        <3> QED
            BY <1>3, <3>1 DEF Worker, Notify, Take, Fails, Drops, Unchanged, Local, Reply, Refused, Close, Store,
                              Complete, Stops, RemoveConnection, Silent
    <2> QED
        BY <2>3, <2>4, <2>5
<1>4. CASE Exit \/ Crash
    BY <1>4 DEF Exit, Crash, Ends, Sessions, Resting
<1>5. CASE Start
    BY <1>0, <1>5 DEF Start, Silent, Sessions, Resting, Present, Types
<1>6. CASE \E u \in URLs : Modify(u)
    BY <1>6 DEF Modify, Silent, Sessions, Resting
<1>7. CASE UNCHANGED vars
    BY <1>7 DEF vars, ghosts, Sessions, Resting
<1> QED
    BY <1>2, <1>3, <1>4, <1>5, <1>6, <1>7 DEF Next

-----------------------------------------------------------------------------
(* Who is at work. *)

Working == OneActive /\ Writers

\* Only a request that is taken up begins to work.
LEMMA MovedActive ==
    ASSUME JobsMove, NEW i \in Jobs, Active(i)'
    PROVE  /\ job'[i].url = job[i].url
           /\ Active(i) \/ (job[i].pc = "queued" /\ job'[i].pc = "asked")
    BY DEF JobsMove, Moved, Active, Free

LEMMA OneActiveKept ==
    ASSUME Inv, OneActive, [Next]_vars
    PROVE  OneActive'
<1> USE DEF disk, process
<1>0. Types /\ \A i \in Jobs : JobNamed(job[i])
    BY DEF Inv
<1>1. ASSUME \A i \in Jobs : Active(i)' => Active(i) /\ job'[i].url = job[i].url PROVE OneActive'
    BY <1>1 DEF OneActive
<1>2. ASSUME job' = job PROVE OneActive'
    BY <1>2 DEF OneActive, Active
<1>3. CASE Calls
    <2>1. ASSUME NEW j \in Jobs, NEW u \in URLs, NEW o, GetURL(j, u, o) PROVE OneActive'
        <3>1. PICK a \in Job : LooksUp(j, u, a)
            BY <1>0, <2>1, NewRequest
        <3>2. \A i \in Jobs : Active(i)' => Active(i) /\ job'[i] = job[i]
            BY <1>0, <3>1 DEF LooksUp, Types, Active
        <3> QED
            BY <1>1, <3>2
    <2>2. ASSUME NEW j \in Jobs, Abort(j) PROVE OneActive'
        <3>1. JobsMove /\ \A i \in Jobs : job'[i].pc = job[i].pc \/ job[i].pc \in {"queued", "notify"}
            BY <1>0, <2>2, AbortMoves
        <3>2. \A i \in Jobs : job'[i] = Free \/ job[i].pc # "queued" \/ job'[i].pc # "asked"
            BY <2>2 DEF Abort, Types
        <3> QED
            BY <1>1, <3>1, <3>2, MovedActive DEF Free
    <2>3. CASE (\E u \in URLs : DeleteCachedURL(u)) \/ ClearCache
        BY <1>2, <2>3 DEF DeleteCachedURL, ClearCache
    <2> QED
        BY <1>3, <2>1, <2>2, <2>3 DEF Calls
<1>4. ASSUME NEW j \in Jobs, Worker(j) PROVE OneActive'
    <2>1. CASE Take(j)
        <3>1. PICK pc \in {"wait", "asked"} :
                  /\ Step(j, pc)
                  /\ pc = "asked" => \A i \in Jobs : ~(Active(i) /\ job[i].url = job[j].url)
            BY <2>1 DEF Take
        <3>2. JobsMove /\ job'[j].pc = pc /\ \A i \in Jobs \ {j} : job'[i] = job[i]
            BY <1>0, <2>1, <3>1, StepMoves DEF Take
        <3>3. \A i \in Jobs : job'[i].url = job[i].url
            BY <1>0, <3>1 DEF Types, Job, Step
        <3>4. \A i \in Jobs \ {j} : Active(i)' => Active(i)
            BY <3>2 DEF Active
        <3>5. ASSUME Active(j)' PROVE \A i \in Jobs \ {j} : Active(i)' => job'[i].url # job'[j].url
            BY <3>1, <3>2, <3>3, <3>4, <3>5 DEF Active
        <3> QED
            BY <3>3, <3>4, <3>5 DEF OneActive
    <2>2. CASE Reply(j)
        <3>1. PICK n \in Names, a \in Job, c \in Content : NamesFile(j, n, a, c)
            BY <1>0, <2>2, NewFile
        <3>2. Active(j)
            BY <2>2 DEF Reply, Active
        <3> QED
            BY <1>0, <1>1, <3>1, <3>2 DEF NamesFile, Types, Active
    <2>3. CASE \/ Notify(j) \/ RemoveConnection(j) \/ Unchanged(j) \/ Close(j) \/ Store(j)
               \/ Fails(j) \/ Drops(j) \/ Refused(j) \/ Local(j) \/ Complete(j) \/ Stops(j)
        <3>1. JobsMove
            BY <1>0, <2>3, WorkerMoves
        <3>2. \A i \in Jobs : job[i].pc = "queued" => job'[i].pc # "asked"
            <4>1. CASE Notify(j) \/ RemoveConnection(j)
                BY <1>0, <4>1 DEF Notify, RemoveConnection, Types, Free
            <4>2. CASE Unchanged(j) \/ Close(j) \/ Store(j)
                <5>1. \A i \in Jobs \ {j} : job'[i] = job[i]
                    BY <1>0, <4>2, StepMoves DEF Unchanged, Close, Store
                <5>2. job[j].pc # "queued"
                    BY <4>2 DEF Unchanged, Close, Store
                <5> QED
                    BY <5>1, <5>2
            <4>3. CASE Fails(j) \/ Drops(j) \/ Refused(j) \/ Local(j) \/ Complete(j) \/ Stops(j)
                <5>1. /\ job'[j].pc = "ended"
                      /\ \A i \in Jobs \ {j} : job'[i] = job[i] \/ job[i].pc = "wait"
                    BY <1>0, <4>3, FinishedMoves DEF Fails, Drops, Refused, Local, Complete, Stops
                <5> QED
                    BY <5>1
            <4> QED
                BY <2>3, <4>1, <4>2, <4>3
        <3> QED
            BY <1>1, <3>1, <3>2, MovedActive
    <2> QED
        BY <1>4, <2>1, <2>2, <2>3 DEF Worker
<1>5. CASE Exit \/ Crash
    BY <1>5 DEF Exit, Crash, Ends, OneActive, Active, Free
<1>6. CASE Start \/ (\E u \in URLs : Modify(u)) \/ UNCHANGED vars
    BY <1>2, <1>6 DEF Start, Modify, vars
<1> QED
    BY <1>3, <1>4, <1>5, <1>6 DEF Next

\* What a step does to the writers when no file is opened or closed.
LEMMA WritersStay ==
    ASSUME Writers, Types, JobsMove, writer' = writer,
           \A n \in Names : writer[n] # None => file'[n] # None,
           \A i \in Jobs : job[i].pc = "ended" => job'[i] # Free,
           \A i \in Jobs : job[i].pc = "body" => job'[i].pc # "closed"
    PROVE  Writers'
<1> SUFFICES ASSUME NEW n \in Names, writer[n] # None
             PROVE  LET w == writer[n]
                    IN  /\ n # None /\ file'[n] # None /\ job'[w].name = n
                        /\ job'[w].pc = "body" \/ (job'[w].pc = "ended" /\ job'[w].abort)
    BY DEF Writers, Exists
<1> DEFINE w == writer[n]
<1>1. /\ w \in Jobs /\ n # None /\ job[w].name = n
      /\ job[w].pc = "body" \/ (job[w].pc = "ended" /\ job[w].abort)
    BY DEF Writers, Exists, Types
<1> HIDE DEF w
<1>2. Moved(job[w], job'[w])
    BY <1>1 DEF JobsMove
<1>3. job'[w] # Free /\ (job[w].pc = "body" => job'[w].pc # "closed")
    <2>1. CASE job[w].pc = "body"
        BY <1>1, <1>2, <2>1 DEF Moved, Free
    <2>2. CASE job[w].pc = "ended"
        BY <1>1, <2>2
    <2> QED
        BY <1>1, <2>1, <2>2
<1>4. job'[w].name = n /\ (job'[w].pc = "body" \/ (job'[w].pc = "ended" /\ job'[w].abort))
    BY <1>1, <1>2, <1>3 DEF Moved
<1> QED
    BY <1>1, <1>4 DEF w

LEMMA WritersKept ==
    ASSUME Inv, Writers, [Next]_vars
    PROVE  Writers'
<1> USE DEF disk, process
<1>0. Types /\ Held /\ \A i \in Jobs : JobNamed(job[i])
    BY DEF Inv
<1>1. ASSUME JobsMove, UNCHANGED <<file, writer>>,
             \A i \in Jobs : job[i].pc = "ended" => job'[i] # Free,
             \A i \in Jobs : job[i].pc = "body" => job'[i].pc # "closed"
      PROVE  Writers'
    <2>1. \A n \in Names : writer[n] # None => file'[n] # None
        BY <1>1 DEF Writers, Exists
    <2> QED
        BY <1>0, <1>1, <2>1, WritersStay
<1>2. ASSUME NEW ns, Unlink(ns), \A n \in ns \cap Names : writer[n] = None, UNCHANGED <<job, writer>>
      PROVE  Writers'
    <2>1. file' = [n \in Names |-> IF n \in ns THEN None ELSE file[n]]
        BY <1>2 DEF Unlink
    <2> QED
        BY <1>2, <2>1 DEF Writers, Exists
<1>3. CASE Calls
    <2>1. ASSUME NEW j \in Jobs, NEW u \in URLs, NEW o, GetURL(j, u, o) PROVE Writers'
        <3>1. PICK a \in Job : LooksUp(j, u, a)
            BY <1>0, <2>1, NewRequest
        <3>2. \A i \in Jobs : job[i].pc \in {"body", "ended"} => job'[i] = job[i]
            BY <1>0, <3>1 DEF LooksUp, Types
        <3>3. UNCHANGED <<file, writer>>
            BY <2>1 DEF GetURL
        <3> QED
            BY <1>0, <3>2, <3>3 DEF Writers, Exists, Types
    <2>2. ASSUME NEW j \in Jobs, Abort(j) PROVE Writers'
        <3>1. JobsMove /\ \A i \in Jobs : job'[i].pc = job[i].pc \/ job[i].pc \in {"queued", "notify"}
            BY <1>0, <2>2, AbortMoves
        <3> QED
            BY <1>1, <2>2, <3>1 DEF Abort, Free
    <2>3. ASSUME NEW u \in URLs, DeleteCachedURL(u) PROVE Writers'
        BY <1>2, <2>3 DEF DeleteCachedURL
    <2>4. CASE ClearCache
        BY <1>2, <2>4 DEF ClearCache
    <2> QED
        BY <1>3, <2>1, <2>2, <2>3, <2>4 DEF Calls
<1>4. ASSUME NEW j \in Jobs, Worker(j) PROVE Writers'
    <2>1. CASE Reply(j)
        <3>1. PICK n \in Names, a \in Job, c \in Content : NamesFile(j, n, a, c)
            BY <1>0, <2>1, NewFile
        <3>2. c # None /\ job[j].pc = "asked"
            BY <2>1, NoneAssumption DEF Reply
        <3> SUFFICES ASSUME NEW m \in Names, writer'[m] # None
                     PROVE  LET w == writer'[m]
                            IN  /\ m # None /\ file'[m] # None /\ job'[w].name = m
                                /\ job'[w].pc = "body" \/ (job'[w].pc = "ended" /\ job'[w].abort)
            BY DEF Writers, Exists
        <3>3. CASE m = n
            BY <1>0, <3>1, <3>2, <3>3 DEF NamesFile, Types
        <3>4. CASE m # n
            <4>1. writer'[m] = writer[m] /\ file'[m] = file[m] /\ writer[m] # j
                BY <1>0, <3>1, <3>2, <3>4 DEF NamesFile, Types, Writers
            <4>2. job'[writer[m]] = job[writer[m]]
                BY <1>0, <3>1, <4>1 DEF NamesFile, Types
            <4> QED
                BY <4>1, <4>2 DEF Writers, Exists
        <3> QED
            BY <3>3, <3>4
    <2>2. CASE Close(j)
        <3> DEFINE n == job[j].name
        <3>1. PICK c \in Content : n \in Names /\ file' = [file EXCEPT ![n] = c]
            BY <1>0, <2>2, ClosedFile
        <3>2. writer' = [writer EXCEPT ![n] = None] /\ \A i \in Jobs \ {j} : job'[i] = job[i]
            BY <1>0, <2>2, StepMoves DEF Close
        <3>3. ASSUME NEW m \in Names, writer'[m] # None
              PROVE  writer'[m] = writer[m] /\ file'[m] = file[m] /\ job'[writer[m]] = job[writer[m]]
            <4>1. m # n /\ writer'[m] = writer[m] /\ file'[m] = file[m]
                BY <1>0, <3>1, <3>2, <3>3 DEF Types
            <4>2. writer[m] \in Jobs /\ writer[m] # j
                BY <1>0, <3>3, <4>1 DEF Types, Writers
            <4> QED
                BY <3>2, <4>1, <4>2
        <3> QED
            BY <3>3 DEF Writers, Exists
    <2>3. CASE RemoveConnection(j)
        <3> DEFINE n == job[j].name
        <3>1. job' = [job EXCEPT ![j] = Free] /\ job[j].pc = "ended"
            BY <2>3 DEF RemoveConnection
        <3>2. ASSUME NEW m \in Names, writer'[m] # None
              PROVE  writer'[m] = writer[m] /\ file'[m] = file[m] /\ writer[m] # j
            <4>1. CASE Unlink({n}) /\ writer' = [writer EXCEPT ![n] = None]
                <5>1. m # n /\ writer'[m] = writer[m] /\ file'[m] = file[m]
                    BY <1>0, <3>2, <4>1 DEF Unlink, Types
                <5> QED
                    BY <3>2, <5>1 DEF Writers
            <4>2. CASE UNCHANGED <<file, writer>> /\ ~(job[j].abort /\ Exists(n) /\ writer[n] \in {j, None})
                BY <3>1, <3>2, <4>2 DEF Writers
            <4> QED
                BY <2>3, <4>1, <4>2 DEF RemoveConnection
        <3>3. \A m \in Names : writer'[m] # None => job'[writer[m]] = job[writer[m]]
            BY <1>0, <3>1, <3>2 DEF Types
        <3> QED
            BY <3>2, <3>3 DEF Writers, Exists
    <2>4. CASE Notify(j) \/ Take(j) \/ Unchanged(j) \/ Store(j)
        <3>1. JobsMove
            BY <1>0, <2>4, WorkerMoves
        <3>2. /\ \A i \in Jobs \ {j} : job'[i] = job[i]
              /\ job[j].pc \notin {"body", "ended"}
            BY <1>0, <2>4, StepMoves DEF Notify, Take, Unchanged, Store, Types
        <3>3. UNCHANGED <<file, writer>>
            BY <2>4 DEF Notify, Take, Unchanged, Store
        <3> QED
            BY <1>1, <3>1, <3>2, <3>3 DEF Free
    <2>5. CASE Fails(j) \/ Drops(j) \/ Refused(j) \/ Local(j) \/ Complete(j) \/ Stops(j)
        <3>1. JobsMove /\ UNCHANGED <<file, writer>>
            BY <1>0, <2>5, FinishedMoves DEF Fails, Drops, Refused, Local, Complete, Stops
        <3>2. /\ job'[j].pc = "ended"
              /\ \A i \in Jobs \ {j} : job'[i] = job[i] \/ job[i].pc = "wait"
            BY <1>0, <2>5, FinishedMoves DEF Fails, Drops, Refused, Local, Complete, Stops
        <3> QED
            BY <1>1, <3>1, <3>2 DEF Free
    <2> QED
        BY <1>4, <2>1, <2>2, <2>3, <2>4, <2>5 DEF Worker
<1>5. CASE Exit
    <2>1. \A n \in Names : writer[n] = None
        BY <1>0, <1>5 DEF Exit, Active, Writers, Types
    <2> QED
        BY <1>5, <2>1 DEF Exit, Writers
<1>6. CASE Crash
    BY <1>6 DEF Crash, Writers
<1>7. CASE Start \/ (\E u \in URLs : Modify(u)) \/ UNCHANGED vars
    BY <1>7 DEF Start, Modify, vars, Writers, Exists
<1> QED
    BY <1>3, <1>4, <1>5, <1>6, <1>7 DEF Next

-----------------------------------------------------------------------------
(* Which files are whole. *)

\* Requests at work have files of their own.
LEMMA SoleName ==
    ASSUME Inv, KeysTellURLs, OneActive, NEW i \in Jobs, NEW j \in Jobs, Active(i), Active(j),
           job[i].name \in Names, job[i].name = job[j].name
    PROVE  i = j
<1>1. job[i].url \in URLs /\ job[j].url \in URLs
    BY DEF Inv, JobNamed, Active
<1>2. Claimed(job[i].name, job[i].url) /\ Claimed(job[i].name, job[j].url)
    BY DEF Claimed
<1>3. job[i].url = job[j].url
    BY <1>1, <1>2 DEF Inv, NamesTellURLs
<1> QED
    BY <1>3 DEF OneActive

\* What is written anew belongs to no other request for a page of its own.
LEMMA ReplyNames ==
    ASSUME Inv, KeysTellURLs, NEW j \in Jobs, job[j].pc # "free", NEW n \in LocalName(j), n \in Names
    PROVE  /\ \A i \in Jobs : job[i].pc # "free" /\ job[i].name = n => job[i].url = job[j].url
           /\ \A u \in URLs : db[KeyOf[u]] # None /\ db[KeyOf[u]].name = n => u = job[j].url
<1>1. n \in used => job[j].name = n
    BY DEF LocalName, FreshNames
<1>2. job[j].url \in URLs /\ NamesTellURLs
    BY DEF Inv, JobNamed
<1>3. ASSUME NEW u \in URLs, Claimed(n, u) PROVE u = job[j].url
    <2>1. job[j].name = n
        BY <1>1, <1>2, <1>3 DEF NamesTellURLs
    <2>2. Claimed(n, job[j].url)
        BY <2>1 DEF Claimed
    <2> QED
        BY <1>2, <1>3, <2>2 DEF NamesTellURLs
<1>4. \A i \in Jobs : job[i].pc # "free" => job[i].url \in URLs
    BY DEF Inv, JobNamed
<1> QED
    BY <1>3, <1>4 DEF Claimed

\* What is lost makes no half file, and nothing is found that was not.
LEMMA WholesStay ==
    ASSUME Wholes, Types, JobsMove,
           \A k \in Keys : db'[k] = None \/ db'[k] = db[k],
           \A n \in Names : Half(n)' => Half(n),
           \A n \in Names : writer[n] = None => writer'[n] = None,
           \A i \in Jobs : job'[i].pc \in {"closed", "stored"} => job'[i].pc = job[i].pc,
           \A i \in Jobs : job'[i].pc = "local" => job[i].pc = "local" \/ job[i].date # 0,
           \A i \in Jobs : job[i].pc = "closed" => job[i].name # None
    PROVE  Wholes'
<1>1. \A k \in Keys : db'[k] # None => db'[k].size # 1
    BY DEF Wholes
<1>2. \A i \in Jobs : job[i].name \in Names \cup {None}
    BY DEF Types, Job
<1>3. ASSUME NEW i \in Jobs, job'[i].pc = "closed" PROVE writer'[job'[i].name] = None
    <2>1. job[i].pc = "closed" /\ job'[i].name = job[i].name
        BY <1>3 DEF JobsMove, Moved, Free
    <2> QED
        BY <1>2, <2>1 DEF Wholes
<1>4. ASSUME NEW i \in Jobs,
             job'[i].pc \in {"notify", "local", "closed", "stored"} \/ job'[i].date # 0
      PROVE  ~Half(job[i].name)'
    <2>1. job'[i] # Free /\ Moved(job[i], job'[i])
        BY <1>4 DEF Free, JobsMove
    <2>2. job'[i].name = job[i].name
        BY <2>1 DEF Moved
    <2>3. job[i].pc \in {"notify", "local", "closed", "stored"} \/ job[i].date # 0
        BY <1>4, <2>1 DEF Moved
    <2>4. ~Half(job[i].name)
        BY <2>3 DEF Wholes
    <2>5. CASE job[i].name = None
        BY <2>2, <2>5 DEF Half, Readable, Exists
    <2>6. CASE job[i].name \in Names
        <3>1. \A n \in Names : Half(n)' => Half(n)
            OBVIOUS
        <3>2. \A n \in Names : ~Half(n) => ~(n # None /\ file'[n] # None /\ writer'[n] = None /\ file'[n].len = "part")
            BY <3>1 DEF Half, Readable, Exists
        <3> QED
            BY <2>2, <2>4, <2>6, <3>2 DEF Half, Readable, Exists
    <2> QED
        BY <1>2, <2>5, <2>6
<1> QED
    BY <1>1, <1>3, <1>4 DEF Wholes

LEMMA WholesKept ==
    ASSUME Inv, Working, KeysTellURLs, Wholes, [Next]_vars
    PROVE  Wholes'
<1> USE DEF disk, process
<1>0. Types /\ Held /\ OneActive /\ Writers /\ \A i \in Jobs : JobNamed(job[i])
    BY DEF Inv, Working
<1>1. \A i \in Jobs : job[i].pc \in {"body", "closed", "stored"} => job[i].name \in Names /\ job[i].name # None
    BY <1>0 DEF JobNamed, Types, Job
<1>2. ASSUME JobsMove, UNCHANGED <<file, writer, db>>,
             \A i \in Jobs : job'[i].pc \in {"closed", "stored"} => job'[i].pc = job[i].pc,
             \A i \in Jobs : job'[i].pc = "local" => job[i].pc = "local" \/ job[i].date # 0
      PROVE  Wholes'
    <2>1. \A n \in Names : Half(n)' => Half(n)
        BY <1>2 DEF Half, Readable, Exists
    <2> QED
        BY <1>0, <1>1, <1>2, <2>1, WholesStay
<1>3. ASSUME UNCHANGED <<file, writer, db, job>> PROVE Wholes'
    BY <1>3 DEF Wholes, Half, Readable, Exists
<1>4. ASSUME NEW ns, Unlink(ns), UNCHANGED <<writer, job>>, \A k \in Keys : db'[k] = None \/ db'[k] = db[k]
      PROVE  Wholes'
    <2>1. \A n \in Names : Half(n)' => Half(n)
        BY <1>4 DEF Unlink, Half, Readable, Exists
    <2>2. JobsMove
        BY <1>4 DEF JobsMove, Moved
    <2> QED
        BY <1>0, <1>1, <1>4, <2>1, <2>2, WholesStay
<1>5. CASE Calls
    <2>1. ASSUME NEW j \in Jobs, NEW u \in URLs, NEW o, GetURL(j, u, o) PROVE Wholes'
        <3>1. PICK a \in Job : LooksUp(j, u, a)
            BY <1>0, <2>1, NewRequest
        <3>2. UNCHANGED <<file, writer, db>>
            BY <2>1 DEF GetURL
        <3>3. job'[j] = a /\ \A i \in Jobs \ {j} : job'[i] = job[i]
            BY <1>0, <3>1 DEF LooksUp, Types
        <3>4. Cached(u) => ~Half(a.name)
            <4>1. KeyOf[u] \in Keys
                BY CacheAssumption
            <4> QED
                BY <3>1, <4>1 DEF LooksUp, Cached, Wholes, Half, Size
        <3>5. \A n : ~Half(n) => ~Half(n)'
            BY <3>2 DEF Half, Readable, Exists
        <3>6. ASSUME NEW i \in Jobs,
                     job'[i].pc \in {"notify", "local", "closed", "stored"} \/ job'[i].date # 0
              PROVE  ~Half(job[i].name)'
            <4>1. ~Half(job'[i].name)
                BY <3>1, <3>3, <3>4, <3>6 DEF LooksUp, Wholes
            <4> QED
                BY <3>2, <4>1 DEF Half, Readable, Exists
        <3>7. \A i \in Jobs : job'[i].pc = "closed" => writer'[job'[i].name] = None
            BY <3>1, <3>2, <3>3 DEF LooksUp, Wholes
        <3> QED
            BY <3>2, <3>6, <3>7 DEF Wholes
    <2>2. ASSUME NEW j \in Jobs, Abort(j) PROVE Wholes'
        <3>1. JobsMove /\ \A i \in Jobs : job'[i].pc = job[i].pc \/ job[i].pc \in {"queued", "notify"}
            BY <1>0, <2>2, AbortMoves
        <3>2. \A i \in Jobs : job[i].pc \in {"queued", "notify"} => job'[i].pc \notin {"closed", "stored", "local"}
            BY <3>1 DEF JobsMove, Moved, Free
        <3> QED
            BY <1>2, <2>2, <3>1, <3>2 DEF Abort
    <2>3. ASSUME NEW u \in URLs, DeleteCachedURL(u) PROVE Wholes'
        <3>1. db' = [db EXCEPT ![KeyOf[u]] = None]
            BY <2>3 DEF DeleteCachedURL
        <3>2. \A k \in Keys : db'[k] = None \/ db'[k] = db[k]
            BY <1>0, <3>1 DEF Types
        <3> QED
            BY <1>4, <2>3, <3>2 DEF DeleteCachedURL
    <2>4. CASE ClearCache
        BY <1>4, <2>4 DEF ClearCache
    <2> QED
        BY <1>5, <2>1, <2>2, <2>3, <2>4 DEF Calls
<1>6. ASSUME NEW j \in Jobs, Worker(j) PROVE Wholes'
    <2>1. CASE Notify(j)
        <3>1. JobsMove
            BY <1>0, <2>1, WorkerMoves
        <3>2. \A i \in Jobs : job'[i] = job[i] \/ job'[i] = Free
            BY <1>0, <2>1 DEF Notify, Types
        <3> QED
            BY <1>2, <2>1, <3>1, <3>2 DEF Notify, Free
    <2>2. CASE Take(j) \/ Unchanged(j)
        <3>1. JobsMove
            BY <1>0, <2>2, WorkerMoves
        <3>2. /\ \A i \in Jobs \ {j} : job'[i] = job[i]
              /\ job'[j].pc \in {"wait", "asked"} \/ (job'[j].pc = "local" /\ job[j].date # 0)
            BY <1>0, <2>2, StepMoves DEF Take, Unchanged
        <3>3. UNCHANGED <<file, writer, db>>
            BY <2>2 DEF Take, Unchanged
        <3> QED
            BY <1>2, <3>1, <3>2, <3>3
    <2>3. CASE Fails(j) \/ Drops(j) \/ Refused(j) \/ Local(j) \/ Complete(j) \/ Stops(j)
        <3>1. /\ JobsMove /\ job'[j].pc = "ended"
              /\ \A i \in Jobs \ {j} : job'[i] = job[i] \/ job'[i] = Free
            BY <1>0, <2>3, FinishedMoves DEF Fails, Drops, Refused, Local, Complete, Stops
        <3>2. UNCHANGED <<file, writer, db>>
            BY <2>3 DEF Fails, Drops, Refused, Local, Complete, Stops
        <3> QED
            BY <1>2, <3>1, <3>2 DEF Free
    <2>4. CASE RemoveConnection(j)
        <3> DEFINE n == job[j].name
        <3>1. JobsMove
            BY <1>0, <2>4, WorkerMoves
        <3>2. \A i \in Jobs : job'[i] = job[i] \/ job'[i] = Free
            BY <1>0, <2>4 DEF RemoveConnection, Types
        <3>3. CASE UNCHANGED <<file, writer>>
            BY <1>2, <2>4, <3>1, <3>2, <3>3 DEF RemoveConnection, Free
        <3>4. CASE Unlink({n}) /\ writer' = [writer EXCEPT ![n] = None]
            <4>1. file' = [m \in Names |-> IF m \in {n} THEN None ELSE file[m]]
                BY <3>4 DEF Unlink
            <4>2. \A m \in Names : Half(m)' => Half(m)
                BY <1>0, <3>4, <4>1 DEF Half, Readable, Exists, Types
            <4>3. \A m \in Names : writer[m] = None => writer'[m] = None
                BY <1>0, <3>4 DEF Types
            <4>4. db' = db
                BY <2>4 DEF RemoveConnection
            <4>5. \A i \in Jobs : job'[i].pc \in {"closed", "stored", "local"} => job'[i].pc = job[i].pc
                BY <3>2 DEF Free
            <4> QED
                BY <1>0, <1>1, <3>1, <4>2, <4>3, <4>4, <4>5, WholesStay
        <3> QED
            BY <2>4, <3>3, <3>4 DEF RemoveConnection
    <2>5. CASE Reply(j)
        <3>1. PICK n \in Names, a \in Job, c \in Content : NamesFile(j, n, a, c)
            BY <1>0, <2>5, NewFile
        <3>2. /\ job'[j] = a /\ \A i \in Jobs \ {j} : job'[i] = job[i]
              /\ writer'[n] = j /\ \A m \in Names \ {n} : writer'[m] = writer[m] /\ file'[m] = file[m]
              /\ j # None /\ Active(j) /\ job[j].pc # "free"
            <4>1. j # None /\ Active(j) /\ job[j].pc # "free"
                BY <2>5, CacheAssumption DEF Reply, Active
            <4>2. /\ job' = [job EXCEPT ![j] = a] /\ file' = [file EXCEPT ![n] = c]
                  /\ writer' = [writer EXCEPT ![n] = j]
                BY <3>1 DEF NamesFile
            <4> QED
                BY <1>0, <4>1, <4>2 DEF Types
        <3>3. \A m \in Names : Half(m)' => Half(m)
            BY <3>2 DEF Half, Readable, Exists
        <3>4. ASSUME NEW i \in Jobs, job'[i].pc = "closed" PROVE writer'[job'[i].name] = None
            <4>1. i # j /\ job'[i] = job[i] /\ job[i].name \in Names /\ writer[job[i].name] = None
                BY <1>1, <3>1, <3>2, <3>4 DEF NamesFile, Wholes
            <4>2. job[i].url # job[j].url
                BY <1>0, <3>2, <3>4, <4>1 DEF OneActive, Active
            <4>3. job[i].name # n
                BY <3>1, <3>2, <3>4, <4>1, <4>2, ReplyNames DEF NamesFile
            <4> QED
                BY <3>2, <4>1, <4>3
        <3>5. ASSUME NEW i \in Jobs,
                     job'[i].pc \in {"notify", "local", "closed", "stored"} \/ job'[i].date # 0
              PROVE  ~Half(job[i].name)'
            <4>1. CASE i = j
                BY <3>1, <3>2, <4>1 DEF NamesFile, Half, Readable
            <4>2. CASE i # j
                <5>1. ~Half(job[i].name) /\ job'[i] = job[i] /\ job[i].name \in Names \cup {None}
                    BY <1>0, <3>2, <3>5, <4>2 DEF Wholes, Types, Job
                <5> QED
                    BY <3>2, <5>1 DEF Half, Readable, Exists
            <4> QED
                BY <4>1, <4>2
        <3>6. db' = db
            BY <2>5 DEF Reply
        <3> QED
            BY <3>4, <3>5, <3>6 DEF Wholes
    <2>6. CASE Close(j)
        <3> DEFINE n == job[j].name
        <3>1. PICK c \in Content : n \in Names /\ file' = [file EXCEPT ![n] = c] /\ c.len \in {"cut", "whole"}
            BY <1>0, <2>6, ClosedFile
        <3>2. /\ job'[j].name = n /\ \A i \in Jobs \ {j} : job'[i] = job[i]
              /\ writer' = [writer EXCEPT ![n] = None] /\ db' = db
            BY <1>0, <2>6, StepMoves DEF Close
        <3>3. ~Half(n)' /\ \A m \in Names : Half(m)' => Half(m)
            BY <1>0, <3>1, <3>2 DEF Half, Readable, Exists, Types
        <3>4. writer'[n] = None /\ \A m \in Names : writer[m] = None => writer'[m] = None
            BY <1>0, <3>1, <3>2 DEF Types
        <3>5. \A i \in Jobs : job'[i].pc = "closed" => writer'[job'[i].name] = None
            BY <1>1, <3>2, <3>4 DEF Wholes
        <3>6. ASSUME NEW i \in Jobs,
                     job'[i].pc \in {"notify", "local", "closed", "stored"} \/ job'[i].date # 0
              PROVE  ~Half(job[i].name)'
            <4>1. CASE i = j
                BY <3>2, <3>3, <4>1 DEF Half, Readable, Exists
            <4>2. CASE i # j
                <5>1. ~Half(job[i].name) /\ job'[i] = job[i] /\ job[i].name \in Names \cup {None}
                    BY <1>0, <3>2, <3>6, <4>2 DEF Wholes, Types, Job
                <5>2. CASE job[i].name = None
                    BY <5>1, <5>2 DEF Half, Readable, Exists
                <5>3. CASE job[i].name \in Names
                    BY <3>3, <5>1, <5>3 DEF Half, Readable, Exists
                <5> QED
                    BY <5>1, <5>2, <5>3
            <4> QED
                BY <4>1, <4>2
        <3> QED
            BY <3>2, <3>5, <3>6 DEF Wholes
    <2>7. CASE Store(j)
        <3> DEFINE n == job[j].name
        <3>1. /\ job'[j].pc = "stored" /\ job'[j].name = n /\ \A i \in Jobs \ {j} : job'[i] = job[i]
              /\ job[j].pc = "closed" /\ UNCHANGED <<file, writer>>
            BY <1>0, <2>7, StepMoves DEF Store
        <3>2. ~Half(n) /\ writer[n] = None /\ n # None
            BY <1>1, <3>1 DEF Wholes
        <3>3. \A k \in Keys : db'[k] # None => db'[k].size # 1
            <4>1. PICK size \in Received(n) :
                      db' = [db EXCEPT ![KeyOf[job[j].url]] =
                                 [name |-> n, date |-> job[j].date, size |-> size]]
                BY <2>7 DEF Store
            <4>2. size # 1
                BY <3>2, <4>1 DEF Received, Half, Readable, Exists, Size
            <4> QED
                BY <1>0, <4>1, <4>2 DEF Wholes, Types
        <3>4. \A i \in Jobs : job'[i].pc = "closed" => writer'[job'[i].name] = None
            BY <3>1 DEF Wholes
        <3>5. ASSUME NEW i \in Jobs,
                     job'[i].pc \in {"notify", "local", "closed", "stored"} \/ job'[i].date # 0
              PROVE  ~Half(job[i].name)'
            <4>1. ~Half(job'[i].name)
                BY <3>1, <3>2, <3>5 DEF Wholes
            <4> QED
                BY <3>1, <4>1 DEF Half, Readable, Exists
        <3> QED
            BY <3>3, <3>4, <3>5 DEF Wholes
    <2> QED
        BY <1>6, <2>1, <2>2, <2>3, <2>4, <2>5, <2>6, <2>7 DEF Worker
<1>7. CASE Exit \/ Crash
    <2>1. \A k \in Keys : db'[k] = None \/ db'[k] = db[k]
        BY <1>0, <1>7 DEF Exit, Crash, Types
    <2>2. \A i \in Jobs : job'[i] = Free
        BY <1>7 DEF Exit, Crash, Ends
    <2> QED
        BY <2>1, <2>2 DEF Wholes, Free
<1>8. CASE Start \/ (\E u \in URLs : Modify(u)) \/ UNCHANGED vars
    BY <1>3, <1>8 DEF Start, Modify, vars
<1> QED
    BY <1>5, <1>6, <1>7, <1>8 DEF Next

-----------------------------------------------------------------------------
(* How old the files are. *)

\* Versions are natural numbers.
LEMMA Ages ==
    ASSUME Types
    PROVE  /\ \A u \in URLs : page[u] \in Nat
           /\ \A n \in Names : file[n] # None => file[n].ver \in Nat
           /\ \A k \in Keys : db[k] # None => db[k].date \in Nat /\ db[k].name \in Names
           /\ \A j \in Jobs : job[j].date \in Nat /\ job[j].name \in Names \cup {None}
           /\ \A u \in URLs : KeyOf[u] \in Keys
    BY CacheAssumption DEF Types, Versions, Content, Entry, Job

\* Files are lost or keep their versions, pages only get newer.
FilesAge ==
    /\ \A n \in Names : file'[n] # None => file[n] # None /\ file'[n].ver = file[n].ver
    /\ \A u \in URLs : page'[u] \in Nat /\ page[u] <= page'[u]

LEMMA DatesStay ==
    ASSUME Types, \A i \in Jobs : JobNamed(job[i]), Dates, JobsGoOn, FilesAge,
           \A k \in Keys : db'[k] = None \/ db'[k] = db[k]
    PROVE  Dates'
<1>1. ASSUME NEW n \in Names, NEW v, NotBefore(n, v) PROVE n # None /\ file'[n] # None => file'[n].ver >= v
    BY <1>1 DEF NotBefore, Exists, FilesAge
<1>2. ASSUME NEW k \in Keys, db'[k] # None
      PROVE  /\ \E u \in URLs : KeyOf[u] = k /\ db'[k].date <= page'[u]
             /\ NotBefore(db[k].name, db[k].date)'
    <2>1. db'[k] = db[k] /\ db[k].date \in Nat /\ db[k].name \in Names
        BY <1>2, Ages
    <2>2. PICK u \in URLs : KeyOf[u] = k /\ db[k].date <= page[u]
        BY <2>1, <1>2 DEF Dates
    <2>3. db'[k].date <= page'[u]
        BY <2>1, <2>2, Ages DEF FilesAge
    <2>4. NotBefore(db[k].name, db[k].date)
        BY <2>1, <1>2 DEF Dates
    <2> QED
        BY <1>1, <2>1, <2>2, <2>3, <2>4 DEF NotBefore, Exists
<1>3. ASSUME NEW i \in Jobs, job'[i].pc # "free"
      PROVE  job'[i].date <= page'[job'[i].url] /\ NotBefore(job[i].name, job[i].date)'
    <2>1. job'[i].name = job[i].name /\ job'[i].url = job[i].url /\ job[i].pc # "free"
          /\ job'[i].date \in {job[i].date, 0}
        BY <1>3 DEF JobsGoOn, Moved, Free
    <2>2. job[i].url \in URLs
        BY <2>1 DEF JobNamed
    <2>3. job'[i].date <= page'[job'[i].url]
        BY <2>1, <2>2, Ages DEF FilesAge, Dates
    <2>4. ASSUME job[i].name \in Names PROVE NotBefore(job[i].name, job[i].date)'
        <3>1. NotBefore(job[i].name, job[i].date)
            BY <2>1 DEF Dates
        <3>2. Exists(job[i].name)' => file'[job[i].name].ver \in Nat /\ file'[job[i].name].ver >= job[i].date
            BY <1>1, <2>1, <2>4, <3>1, Ages DEF Exists, FilesAge
        <3> QED
            BY <2>1, <3>2 DEF NotBefore
    <2> QED
        BY <2>1, <2>3, <2>4, Ages DEF NotBefore, Exists
<1> QED
    BY <1>2, <1>3 DEF Dates

\* What a step leaves of the files, but for those that write one.
LEMMA FilesOnlyAge ==
    ASSUME Inv, [Next]_vars, \A j \in Jobs : ~Reply(j)
    PROVE  FilesAge
<1> USE DEF disk, process
<1>0. Types /\ Held /\ \A i \in Jobs : JobNamed(job[i])
    BY DEF Inv
<1>1. page' = page => \A u \in URLs : page'[u] \in Nat /\ page[u] <= page'[u]
    BY <1>0, Ages
<1>2. ASSUME UNCHANGED <<page, file>> PROVE FilesAge
    BY <1>1, <1>2 DEF FilesAge
<1>3. ASSUME NEW ns, Unlink(ns), page' = page PROVE FilesAge
    BY <1>1, <1>3 DEF FilesAge, Unlink
<1>4. CASE Calls
    BY <1>2, <1>3, <1>4 DEF Calls, GetURL, DeleteCachedURL, ClearCache, Abort
<1>5. ASSUME NEW j \in Jobs, Worker(j) PROVE FilesAge
    <2>1. CASE Close(j)
        <3>1. PICK c \in Content :
                  /\ job[j].name \in Names /\ file[job[j].name] \in Content
                  /\ file' = [file EXCEPT ![job[j].name] = c] /\ c.ver = file[job[j].name].ver
            BY <1>0, <2>1, ClosedFile
        <3>2. page' = page
            BY <2>1 DEF Close
        <3> QED
            BY <1>0, <1>1, <3>1, <3>2, NoneAssumption DEF FilesAge, Types
    <2>2. CASE RemoveConnection(j)
        BY <1>2, <1>3, <2>2 DEF RemoveConnection
    <2>3. CASE \/ Notify(j) \/ Take(j) \/ Fails(j) \/ Drops(j) \/ Unchanged(j) \/ Local(j) \/ Refused(j)
               \/ Store(j) \/ Complete(j) \/ Stops(j)
        BY <1>2, <2>3 DEF Notify, Take, Fails, Drops, Unchanged, Local, Refused, Store, Complete, Stops
    <2> QED
        BY <1>5, <2>1, <2>2, <2>3 DEF Worker
<1>6. CASE Exit
    BY <1>3, <1>6 DEF Exit
<1>7. CASE Crash \/ Start \/ UNCHANGED vars
    BY <1>2, <1>7 DEF Crash, Start, vars
<1>8. ASSUME NEW u \in URLs, Modify(u) PROVE FilesAge
    <2>1. file' = file /\ page' = [page EXCEPT ![u] = page[u] + 1]
        BY <1>8 DEF Modify
    <2>2. \A v \in URLs : page[v] \in Nat /\ page'[v] \in {page[v], page[v] + 1}
        BY <1>0, <2>1, Ages DEF Types
    <2> QED
        BY <2>1, <2>2 DEF FilesAge
<1> QED
    BY <1>4, <1>5, <1>6, <1>7, <1>8 DEF Next

\* What a step leaves of the entries, but for the one that stores one.
LEMMA EntriesOnlyGo ==
    ASSUME Inv, [Next]_vars, \A j \in Jobs : ~Store(j)
    PROVE  \A k \in Keys : db'[k] = None \/ db'[k] = db[k]
<1> USE DEF disk, process
<1>0. Types
    BY DEF Inv
<1>1. CASE Calls
    BY <1>0, <1>1 DEF Calls, GetURL, DeleteCachedURL, ClearCache, Abort, Types
<1>2. ASSUME NEW j \in Jobs, Worker(j) PROVE db' = db
    BY <1>2 DEF Worker, Notify, Take, Fails, Drops, Unchanged, Local, Reply, Refused, Close, Complete, Stops,
                RemoveConnection
<1>3. CASE Exit
    BY <1>0, <1>3 DEF Exit, Types
<1>4. CASE Crash \/ Start \/ (\E u \in URLs : Modify(u)) \/ UNCHANGED vars
    BY <1>4 DEF Crash, Start, Modify, vars
<1> QED
    BY <1>1, <1>2, <1>3, <1>4 DEF Next

\* What a step leaves of the requests while the program runs on, but for new ones and
\* those that get a file.
LEMMA JobsOnlyMove ==
    ASSUME Inv, [Next]_vars, \A j \in Jobs : ~Reply(j),
           \A j \in Jobs, u \in URLs, o \in {"normal", "reload", "returnCache"} : ~GetURL(j, u, o)
    PROVE  JobsMove \/ ((Exit \/ Crash) /\ \A i \in Jobs : job'[i] = Free)
<1> USE DEF disk, process
<1>0. Types
    BY DEF Inv
<1>1. ASSUME job' = job PROVE JobsMove
    BY <1>1 DEF JobsMove, Moved
<1>2. CASE Calls
    BY <1>0, <1>1, <1>2, AbortMoves DEF Calls, DeleteCachedURL, ClearCache
<1>3. ASSUME NEW j \in Jobs, Worker(j) PROVE JobsMove
    BY <1>0, <1>3, WorkerMoves DEF Worker
<1>4. CASE Exit \/ Crash
    BY <1>4 DEF Exit, Crash, Ends
<1>5. CASE Start \/ (\E u \in URLs : Modify(u)) \/ UNCHANGED vars
    BY <1>1, <1>5 DEF Start, Modify, vars
<1> QED
    BY <1>2, <1>3, <1>4, <1>5 DEF Next

LEMMA DatesKept ==
    ASSUME Inv, KeysTellURLs, Dates, [Next]_vars
    PROVE  Dates'
<1> USE DEF disk, process
<1>0. Types /\ Held /\ \A i \in Jobs : JobNamed(job[i])
    BY DEF Inv
<1>1. ASSUME NEW j \in Jobs, NEW u \in URLs, NEW o \in {"normal", "reload", "returnCache"}, GetURL(j, u, o)
      PROVE  Dates'
    <2>1. PICK a \in Job : LooksUp(j, u, a)
        BY <1>0, <1>1, NewRequest
    <2>2. UNCHANGED <<page, file, db>>
        BY <1>1 DEF GetURL
    <2>3. job'[j] = a /\ \A i \in Jobs \ {j} : job'[i] = job[i]
        BY <1>0, <2>1 DEF LooksUp, Types
    <2>4. \A n, v : NotBefore(n, v)' <=> (n # None /\ file[n] # None => file[n].ver >= v)
        BY <2>2 DEF NotBefore, Exists
    <2>5. \A k \in Keys : db'[k] # None =>
              /\ \E v \in URLs : KeyOf[v] = k /\ db'[k].date <= page'[v]
              /\ NotBefore(db[k].name, db[k].date)'
        BY <2>2 DEF Dates, NotBefore, Exists
    <2>6. a.date <= page[u] /\ NotBefore(a.name, a.date)
        <3>1. CASE a.date = 0
            <4>1. a.name \in Names \cup {None}
                BY DEF Job
            <4>2. page[u] >= 0 /\ \A n \in Names : file[n] # None => file[n].ver >= 0
                BY <1>0, Ages
            <4> QED
                BY <3>1, <4>1, <4>2 DEF NotBefore, Exists
        <3>2. CASE a.date # 0
            <4>1. db[KeyOf[u]] # None /\ a.date = db[KeyOf[u]].date /\ a.name = db[KeyOf[u]].name
                BY <2>1, <3>2 DEF LooksUp, Cached
            <4>2. KeyOf[u] \in Keys
                BY <1>0, Ages
            <4>3. PICK v \in URLs : KeyOf[v] = KeyOf[u] /\ db[KeyOf[u]].date <= page[v]
                BY <4>1, <4>2 DEF Dates
            <4>4. v = u
                BY <4>3 DEF KeysTellURLs
            <4> QED
                BY <4>1, <4>2, <4>3, <4>4 DEF Dates
        <3> QED
            BY <3>1, <3>2
    <2>7. ASSUME NEW i \in Jobs, job'[i].pc # "free"
          PROVE  job'[i].date <= page'[job'[i].url] /\ NotBefore(job[i].name, job[i].date)'
        <3>1. CASE i = j
            BY <2>1, <2>2, <2>3, <2>6, <3>1 DEF NotBefore, Exists, LooksUp
        <3>2. CASE i # j
            BY <2>2, <2>3, <2>7, <3>2 DEF Dates, NotBefore, Exists
        <3> QED
            BY <3>1, <3>2
    <2> QED
        BY <2>5, <2>7 DEF Dates
<1>2. ASSUME NEW j \in Jobs, Reply(j) PROVE Dates'
    <2> DEFINE u == job[j].url
    <2>1. PICK n \in Names, a \in Job, c \in Content : NamesFile(j, n, a, c)
        BY <1>0, <1>2, NewFile
    <2>2. /\ job'[j] = a /\ \A i \in Jobs \ {j} : job'[i] = job[i]
          /\ file'[n] = c /\ \A m \in Names \ {n} : file'[m] = file[m]
        BY <1>0, <2>1 DEF NamesFile, Types
    <2>3. UNCHANGED <<page, db>> /\ job[j].pc # "free" /\ u \in URLs
        BY <1>0, <1>2 DEF Reply, JobNamed
    <2>4. c.ver = page[u] /\ page[u] \in Nat
        BY <1>0, <2>1, <2>3, Ages DEF NamesFile
    <2>5. /\ \A i \in Jobs : job[i].pc # "free" /\ job[i].name = n => job[i].url = u
          /\ \A v \in URLs : db[KeyOf[v]] # None /\ db[KeyOf[v]].name = n => v = u
        BY <2>1, <2>3, ReplyNames DEF NamesFile
    <2>6. ASSUME NEW k \in Keys, db'[k] # None
          PROVE  /\ \E v \in URLs : KeyOf[v] = k /\ db'[k].date <= page'[v]
                 /\ NotBefore(db[k].name, db[k].date)'
        <3>1. PICK v \in URLs : KeyOf[v] = k /\ db[k].date <= page[v]
            BY <2>3, <2>6 DEF Dates
        <3>2. db[k].name \in Names /\ NotBefore(db[k].name, db[k].date)
            BY <1>0, <2>3, <2>6, Ages DEF Dates
        <3>3. CASE db[k].name = n
            <4>1. v = u
                BY <2>3, <2>5, <2>6, <3>1, <3>3
            <4>2. db[k].date \in Nat
                BY <1>0, <2>3, <2>6, Ages
            <4> QED
                BY <2>2, <2>3, <2>4, <3>1, <3>3, <4>1, <4>2 DEF NotBefore
        <3>4. CASE db[k].name # n
            BY <2>2, <2>3, <3>1, <3>2, <3>4 DEF NotBefore, Exists
        <3> QED
            BY <3>3, <3>4
    <2>7. ASSUME NEW i \in Jobs, job'[i].pc # "free"
          PROVE  job'[i].date <= page'[job'[i].url] /\ NotBefore(job[i].name, job[i].date)'
        <3>1. CASE i = j
            <4>1. job[j].date \in Nat /\ job[j].date <= page[u]
                BY <1>0, <2>3, Ages DEF Dates
            <4>2. a.date \in Nat /\ a.date <= page[u] /\ a.url = u /\ a.name = n
                BY <2>1, <2>4, <4>1 DEF NamesFile, Date
            <4> QED
                BY <2>2, <2>3, <2>4, <3>1, <4>2 DEF NotBefore
        <3>2. CASE i # j
            <4>1. job'[i] = job[i] /\ job[i].pc # "free" /\ job[i].name \in Names \cup {None}
                BY <1>0, <2>2, <2>7, <3>2, Ages
            <4>2. job[i].date <= page[job[i].url] /\ NotBefore(job[i].name, job[i].date)
                BY <4>1 DEF Dates
            <4>3. CASE job[i].name = n
                <5>1. job[i].url = u
                    BY <2>5, <4>1, <4>3
                <5>2. job[i].date \in Nat
                    BY <1>0, Ages
                <5> QED
                    BY <2>2, <2>3, <2>4, <4>1, <4>2, <4>3, <5>1, <5>2 DEF NotBefore
            <4>4. CASE job[i].name # n
                BY <2>2, <2>3, <4>1, <4>2, <4>4 DEF NotBefore, Exists
            <4> QED
                BY <4>3, <4>4
        <3> QED
            BY <3>1, <3>2
    <2> QED
        BY <2>6, <2>7 DEF Dates
<1>3. ASSUME NEW j \in Jobs, Store(j) PROVE Dates'
    <2> DEFINE u == job[j].url
               n == job[j].name
    <2>1. /\ job'[j].name = n /\ \A i \in Jobs \ {j} : job'[i] = job[i]
          /\ UNCHANGED <<file, page>> /\ job[j].pc # "free" /\ u \in URLs
        BY <1>0, <1>3, StepMoves DEF Store, JobNamed
    <2>2. job'[j].url = u /\ job'[j].date = job[j].date
        BY <1>0, <1>3 DEF Store, Step, Types, Job
    <2>3. job[j].date <= page[u] /\ NotBefore(n, job[j].date)
        BY <2>1 DEF Dates
    <2>4. KeyOf[u] \in Keys
        BY <1>0, <2>1, Ages
    <2>5. ASSUME NEW k \in Keys, db'[k] # None
          PROVE  /\ \E v \in URLs : KeyOf[v] = k /\ db'[k].date <= page'[v]
                 /\ NotBefore(db[k].name, db[k].date)'
        <3>1. CASE db'[k] = db[k]
            BY <2>1, <2>5, <3>1 DEF Dates, NotBefore, Exists
        <3>2. CASE db'[k] # db[k]
            <4>1. k = KeyOf[u] /\ db'[k].name = n /\ db'[k].date = job[j].date
                BY <1>0, <1>3, <2>4, <3>2 DEF Store, Types
            <4> QED
                BY <2>1, <2>3, <4>1 DEF NotBefore, Exists
        <3> QED
            BY <3>1, <3>2
    <2>6. ASSUME NEW i \in Jobs, job'[i].pc # "free"
          PROVE  job'[i].date <= page'[job'[i].url] /\ NotBefore(job[i].name, job[i].date)'
        <3>1. /\ job'[i].date = job[i].date /\ job'[i].url = job[i].url /\ job'[i].name = job[i].name
              /\ job[i].pc # "free"
            BY <2>1, <2>2, <2>6
        <3> QED
            BY <2>1, <3>1 DEF Dates, NotBefore, Exists
    <2> QED
        BY <2>5, <2>6 DEF Dates
<1>4. CASE /\ \A j \in Jobs : ~Reply(j) /\ ~Store(j)
           /\ \A j \in Jobs, u \in URLs, o \in {"normal", "reload", "returnCache"} : ~GetURL(j, u, o)
    <2>1. FilesAge /\ \A k \in Keys : db'[k] = None \/ db'[k] = db[k]
        BY <1>4, FilesOnlyAge, EntriesOnlyGo
    <2>2. JobsGoOn
        BY <1>4, JobsOnlyMove DEF JobsGoOn, JobsMove
    <2> QED
        BY <1>0, <2>1, <2>2, DatesStay
<1> QED
    BY <1>1, <1>2, <1>3, <1>4

-----------------------------------------------------------------------------
(* Which files are of this session. *)

\* What is not older than the page was stays so.
LEMMA AgeStays ==
    ASSUME FilesAge, begin' = begin, NEW n, n \in Names \cup {None}, NEW u,
           NotBefore(n, begin[u])
    PROVE  Exists(n)' => file'[n].ver >= begin'[u]
    BY DEF FilesAge, NotBefore, Exists

LEMMA VerifiedStay ==
    ASSUME Types, Verified, JobsGoOn, FilesAge, begin' = begin, begin \in [URLs -> Versions],
           \A i \in Jobs : JobNamed(job[i]),
           visited' = visited \/ (visited' = {} /\ \A i \in Jobs : job'[i] = Free),
           \A k \in Keys : db'[k] = None \/ db'[k] = db[k],
           \A i \in Jobs : job'[i].pc = "local" => job[i].pc = "local"
    PROVE  Verified'
<1>1. \A u \in URLs : begin'[u] <= page'[u]
    <2>1. \A u \in URLs : begin[u] \in Nat /\ begin[u] <= page[u]
        BY DEF Verified, Versions
    <2> QED
        BY <2>1, Ages DEF FilesAge
<1>2. ASSUME NEW u \in visited', db'[KeyOf[u]] # None PROVE NotBefore(db[KeyOf[u]].name, begin[u])'
    <2>1. u \in visited /\ KeyOf[u] \in Keys
        BY Ages DEF Types
    <2>2. db'[KeyOf[u]] = db[KeyOf[u]] /\ db[KeyOf[u]].name \in Names
        BY <1>2, <2>1, Ages
    <2>3. NotBefore(db[KeyOf[u]].name, begin[u])
        BY <1>2, <2>1, <2>2 DEF Verified
    <2> QED
        BY <2>2, <2>3, AgeStays DEF NotBefore, Exists
<1>3. ASSUME NEW i \in Jobs, Fresh(job'[i]) PROVE NotBefore(job[i].name, begin[job[i].url])'
    <2>1. Moved(job[i], job'[i]) /\ job'[i] # Free
        BY <1>3 DEF JobsGoOn, Fresh, Free
    <2>2. job'[i].name = job[i].name /\ job'[i].url = job[i].url /\ Fresh(job[i])
        BY <1>3, <2>1 DEF Moved, Fresh
    <2>3. NotBefore(job[i].name, begin[job[i].url]) /\ job[i].name \in Names \cup {None}
        BY <2>2, Ages DEF Verified
    <2> QED
        BY <2>2, <2>3, AgeStays DEF NotBefore, Exists
<1>4. ASSUME NEW i \in Jobs, job'[i].pc # "free", job'[i].url \notin visited', db'[KeyOf[job'[i].url]] # None
      PROVE  job'[i].name = db'[KeyOf[job'[i].url]].name
    <2>1. Moved(job[i], job'[i]) /\ job'[i] # Free /\ visited' = visited
        BY <1>4 DEF JobsGoOn, Free
    <2>2. job'[i].name = job[i].name /\ job'[i].url = job[i].url /\ job[i].pc # "free"
        BY <1>4, <2>1 DEF Moved
    <2>3. job[i].url \in URLs /\ KeyOf[job[i].url] \in Keys
        BY <2>2, Ages DEF JobNamed
    <2>4. db'[KeyOf[job[i].url]] = db[KeyOf[job[i].url]]
        BY <1>4, <2>2, <2>3
    <2> QED
        BY <1>4, <2>1, <2>2, <2>4 DEF Verified
<1> QED
    BY <1>1, <1>2, <1>3, <1>4 DEF Verified

LEMMA VerifiedKept ==
    ASSUME Inv, KeysTellURLs, Dates, Sessions, Verified, [Next]_vars
    PROVE  Verified'
<1> USE DEF disk, process
<1>0. Types /\ Held /\ \A i \in Jobs : JobNamed(job[i])
    BY DEF Inv
<1>a. \A u \in URLs : begin[u] \in Nat /\ begin[u] <= page[u] /\ page[u] \in Nat
    BY <1>0, Ages DEF Verified, Sessions, Versions
<1>1. ASSUME NEW j \in Jobs, NEW u \in URLs, NEW o \in {"normal", "reload", "returnCache"}, GetURL(j, u, o)
      PROVE  Verified'
    <2>1. PICK a \in Job : LooksUp(j, u, a)
        BY <1>0, <1>1, NewRequest
    <2>2. UNCHANGED <<page, file, db, visited, begin>>
        BY <1>1 DEF GetURL
    <2>3. job'[j] = a /\ \A i \in Jobs \ {j} : job'[i] = job[i]
        BY <1>0, <2>1 DEF LooksUp, Types
    <2>4. ASSUME NEW v \in visited', db'[KeyOf[v]] # None PROVE NotBefore(db[KeyOf[v]].name, begin[v])'
        BY <2>2, <2>4 DEF Verified, NotBefore, Exists
    <2>5. ASSUME NEW i \in Jobs, Fresh(job'[i]) PROVE NotBefore(job[i].name, begin[job[i].url])'
        <3>1. CASE i = j
            <4>1. a.pc = "notify" /\ u \in visited /\ db[KeyOf[u]] # None
                BY <2>1, <2>3, <2>5, <3>1 DEF LooksUp, Fresh, Cached
            <4>2. a.name = db[KeyOf[u]].name /\ a.url = u
                BY <2>1, <4>1 DEF LooksUp
            <4> QED
                BY <2>2, <2>3, <3>1, <4>1, <4>2 DEF Verified, NotBefore, Exists
        <3>2. CASE i # j
            BY <2>2, <2>3, <2>5, <3>2 DEF Verified, NotBefore, Exists
        <3> QED
            BY <3>1, <3>2
    <2>6. ASSUME NEW i \in Jobs, job'[i].pc # "free", job'[i].url \notin visited', db'[KeyOf[job'[i].url]] # None
          PROVE  job'[i].name = db'[KeyOf[job'[i].url]].name
        <3>1. CASE i = j
            BY <2>1, <2>2, <2>3, <2>6, <3>1 DEF LooksUp
        <3>2. CASE i # j
            BY <2>2, <2>3, <2>6, <3>2 DEF Verified
        <3> QED
            BY <3>1, <3>2
    <2> QED
        BY <2>2, <2>4, <2>5, <2>6 DEF Verified
<1>2. ASSUME NEW j \in Jobs, Reply(j) PROVE Verified'
    <2> DEFINE u == job[j].url
    <2>1. PICK n \in Names, a \in Job, c \in Content : NamesFile(j, n, a, c)
        BY <1>0, <1>2, NewFile
    <2>2. /\ job'[j] = a /\ \A i \in Jobs \ {j} : job'[i] = job[i]
          /\ file'[n] = c /\ \A m \in Names \ {n} : file'[m] = file[m]
        BY <1>0, <2>1 DEF NamesFile, Types
    <2>3. UNCHANGED <<page, db, visited, begin>> /\ job[j].pc # "free" /\ u \in URLs
        BY <1>0, <1>2 DEF Reply, JobNamed
    <2>4. c.ver = page[u] /\ c.ver >= begin[u]
        BY <1>a, <2>1, <2>3 DEF NamesFile
    <2>5. /\ \A i \in Jobs : job[i].pc # "free" /\ job[i].name = n => job[i].url = u
          /\ \A v \in URLs : db[KeyOf[v]] # None /\ db[KeyOf[v]].name = n => v = u
        BY <2>1, <2>3, ReplyNames DEF NamesFile
    <2>6. ASSUME NEW v \in visited', db'[KeyOf[v]] # None PROVE NotBefore(db[KeyOf[v]].name, begin[v])'
        <3>1. v \in URLs /\ v \in visited /\ db[KeyOf[v]].name \in Names
            BY <1>0, <2>3, <2>6, Ages DEF Types
        <3>2. NotBefore(db[KeyOf[v]].name, begin[v])
            BY <2>3, <2>6, <3>1 DEF Verified
        <3>3. CASE db[KeyOf[v]].name = n
            <4>1. v = u
                BY <2>3, <2>5, <2>6, <3>1, <3>3
            <4> QED
                BY <2>2, <2>3, <2>4, <3>3, <4>1 DEF NotBefore
        <3>4. CASE db[KeyOf[v]].name # n
            BY <2>2, <2>3, <3>1, <3>2, <3>4 DEF NotBefore, Exists
        <3> QED
            BY <3>3, <3>4
    <2>7. ASSUME NEW i \in Jobs, Fresh(job'[i]) PROVE NotBefore(job[i].name, begin[job[i].url])'
        <3>1. CASE i = j
            <4>1. a.url = u /\ a.name = n
                BY <2>1 DEF NamesFile
            <4> QED
                BY <2>2, <2>3, <2>4, <3>1, <4>1 DEF NotBefore
        <3>2. CASE i # j
            <4>1. job'[i] = job[i] /\ job[i].pc # "free" /\ job[i].name \in Names \cup {None}
                BY <1>0, <2>2, <2>7, <3>2, Ages DEF Fresh
            <4>2. NotBefore(job[i].name, begin[job[i].url])
                BY <2>7, <4>1 DEF Verified
            <4>3. CASE job[i].name = n
                <5>1. job[i].url = u
                    BY <2>5, <4>1, <4>3
                <5> QED
                    BY <2>2, <2>3, <2>4, <4>1, <4>3, <5>1 DEF NotBefore
            <4>4. CASE job[i].name # n
                BY <2>2, <2>3, <4>1, <4>2, <4>4 DEF NotBefore, Exists
            <4> QED
                BY <4>3, <4>4
        <3> QED
            BY <3>1, <3>2
    <2>8. ASSUME NEW i \in Jobs, job'[i].pc # "free", job'[i].url \notin visited', db'[KeyOf[job'[i].url]] # None
          PROVE  job'[i].name = db'[KeyOf[job'[i].url]].name
        <3>1. CASE i = j
            <4>1. a.url = u /\ a.name = n /\ n \in LocalName(j)
                BY <2>1 DEF NamesFile
            <4>2. job[j].name = db[KeyOf[u]].name
                BY <2>2, <2>3, <2>8, <3>1, <4>1 DEF Verified
            <4>3. db[KeyOf[u]].name # None
                BY <1>0, <2>2, <2>3, <2>8, <3>1, <4>1, Ages, CacheAssumption
            <4>4. n = job[j].name
                BY <4>1, <4>2, <4>3 DEF LocalName
            <4> QED
                BY <2>2, <2>3, <3>1, <4>1, <4>2, <4>4
        <3>2. CASE i # j
            BY <2>2, <2>3, <2>8, <3>2 DEF Verified
        <3> QED
            BY <3>1, <3>2
    <2> QED
        BY <1>a, <2>3, <2>6, <2>7, <2>8 DEF Verified
<1>3. ASSUME NEW j \in Jobs, Unchanged(j) PROVE Verified'
    <2> DEFINE u == job[j].url
               n == job[j].name
    <2>1. /\ job'[j].pc = "local" /\ job'[j].name = n /\ \A i \in Jobs \ {j} : job'[i] = job[i]
          /\ UNCHANGED <<page, file, db, begin>> /\ visited' = visited \cup {u}
          /\ job[j].pc # "free" /\ u \in URLs
        BY <1>0, <1>3, StepMoves DEF Unchanged, JobNamed
    <2>2. job'[j].url = u
        BY <1>0, <1>3 DEF Unchanged, Step, Types, Job
    <2>3. page[u] <= job[j].date /\ NotBefore(n, job[j].date) /\ job[j].date \in Nat
        BY <1>0, <1>3, <2>1, Ages DEF Unchanged, Dates
    <2>4. n \in Names \cup {None}
        BY <1>0, Ages
    <2>5. NotBefore(n, begin[u])
        <3>1. Exists(n) => file[n].ver \in Nat
            BY <1>0, <2>4, Ages DEF Exists
        <3> QED
            BY <1>a, <2>1, <2>3, <3>1 DEF NotBefore
    <2>6. ASSUME NEW v \in visited', db'[KeyOf[v]] # None PROVE NotBefore(db[KeyOf[v]].name, begin[v])'
        <3>1. CASE v \in visited
            BY <2>1, <2>6, <3>1 DEF Verified, NotBefore, Exists
        <3>2. CASE v \notin visited
            <4>1. v = u /\ db[KeyOf[u]].name = n
                BY <2>1, <2>6, <3>2 DEF Verified
            <4> QED
                BY <2>1, <2>5, <4>1 DEF NotBefore, Exists
        <3> QED
            BY <3>1, <3>2
    <2>7. ASSUME NEW i \in Jobs, Fresh(job'[i]) PROVE NotBefore(job[i].name, begin[job[i].url])'
        <3>1. CASE i = j
            BY <2>1, <2>2, <2>5, <3>1 DEF NotBefore, Exists
        <3>2. CASE i # j
            BY <2>1, <2>7, <3>2 DEF Verified, NotBefore, Exists
        <3> QED
            BY <3>1, <3>2
    <2>8. ASSUME NEW i \in Jobs, job'[i].pc # "free", job'[i].url \notin visited', db'[KeyOf[job'[i].url]] # None
          PROVE  job'[i].name = db'[KeyOf[job'[i].url]].name
        BY <2>1, <2>2, <2>8 DEF Verified
    <2> QED
        BY <1>a, <2>1, <2>6, <2>7, <2>8 DEF Verified
<1>4. ASSUME NEW j \in Jobs, Store(j) PROVE Verified'
    <2> DEFINE u == job[j].url
               n == job[j].name
    <2>1. /\ job'[j].name = n /\ \A i \in Jobs \ {j} : job'[i] = job[i]
          /\ UNCHANGED <<page, file, begin>> /\ visited' = visited \cup {u}
          /\ job[j].pc = "closed" /\ u \in URLs
        BY <1>0, <1>4, StepMoves DEF Store, JobNamed
    <2>2. job'[j].url = u
        BY <1>0, <1>4 DEF Store, Step, Types, Job
    <2>3. NotBefore(n, begin[u])
        BY <2>1 DEF Verified, Fresh
    <2>4. KeyOf[u] \in Keys
        BY <1>0, <2>1, Ages
    <2>5. \A v \in URLs : v # u => db'[KeyOf[v]] = db[KeyOf[v]]
        <3>1. \A v \in URLs : v # u => KeyOf[v] # KeyOf[u] /\ KeyOf[v] \in Keys
            BY <1>0, <2>1, Ages DEF KeysTellURLs
        <3> QED
            BY <1>0, <1>4, <3>1 DEF Store, Types
    <2>6. \/ file[n] = None /\ db' = db
          \/ db'[KeyOf[u]].name = n
        BY <1>0, <1>4, <2>4 DEF Store, Types
    <2>7. ASSUME NEW v \in visited', db'[KeyOf[v]] # None PROVE NotBefore(db[KeyOf[v]].name, begin[v])'
        <3>1. CASE v # u
            <4>1. v \in URLs /\ v \in visited
                BY <1>0, <2>1, <3>1 DEF Types
            <4> QED
                BY <2>1, <2>5, <2>7, <3>1, <4>1 DEF Verified, NotBefore, Exists
        <3>2. CASE v = u /\ db'[KeyOf[u]].name = n
            BY <2>1, <2>3, <3>2 DEF NotBefore, Exists
        <3>3. CASE v = u /\ file[n] = None /\ db' = db
            <4>1. CASE u \in visited
                BY <2>1, <2>7, <3>3, <4>1 DEF Verified, NotBefore, Exists
            <4>2. CASE u \notin visited
                <5>1. db[KeyOf[u]].name = n
                    BY <2>1, <2>7, <3>3, <4>2 DEF Verified
                <5> QED
                    BY <2>1, <3>3, <5>1 DEF NotBefore, Exists
            <4> QED
                BY <4>1, <4>2
        <3> QED
            BY <2>6, <3>1, <3>2, <3>3
    <2>8. ASSUME NEW i \in Jobs, Fresh(job'[i]) PROVE NotBefore(job[i].name, begin[job[i].url])'
        <3>1. CASE i = j
            BY <2>1, <2>2, <2>3, <3>1 DEF NotBefore, Exists
        <3>2. CASE i # j
            BY <2>1, <2>8, <3>2 DEF Verified, NotBefore, Exists
        <3> QED
            BY <3>1, <3>2
    <2>9. ASSUME NEW i \in Jobs, job'[i].pc # "free", job'[i].url \notin visited', db'[KeyOf[job'[i].url]] # None
          PROVE  job'[i].name = db'[KeyOf[job'[i].url]].name
        <3>1. i # j /\ job'[i] = job[i] /\ job[i].url # u /\ job[i].url \in URLs
            BY <1>0, <2>1, <2>2, <2>9 DEF JobNamed
        <3>2. db'[KeyOf[job[i].url]] = db[KeyOf[job[i].url]]
            BY <2>5, <3>1
        <3> QED
            BY <2>1, <2>9, <3>1, <3>2 DEF Verified
    <2> QED
        BY <1>a, <2>1, <2>7, <2>8, <2>9 DEF Verified
<1>5. CASE Start
    <2>1. /\ UNCHANGED <<page, job, visited>> /\ begin' = page
          /\ visited = {} /\ \A i \in Jobs : job[i].pc = "free"
        BY <1>5 DEF Start, Sessions, Resting, Free
    <2> QED
        BY <1>a, <2>1 DEF Verified, Fresh
<1>6. CASE /\ \A j \in Jobs : ~Reply(j) /\ ~Store(j) /\ ~Unchanged(j)
           /\ \A j \in Jobs, u \in URLs, o \in {"normal", "reload", "returnCache"} : ~GetURL(j, u, o)
           /\ ~Start
    <2>1. FilesAge /\ \A k \in Keys : db'[k] = None \/ db'[k] = db[k]
        BY <1>6, FilesOnlyAge, EntriesOnlyGo
    <2>2. JobsGoOn
        BY <1>6, JobsOnlyMove DEF JobsGoOn, JobsMove
    <2>3. begin' = begin
        BY <1>6 DEF Next, Calls, DeleteCachedURL, ClearCache, Abort, Worker, Notify, Take, Fails, Drops, Local,
                    Refused, Close, Complete, Stops, RemoveConnection, Exit, Crash, Modify, vars, ghosts
    <2>4. visited' = visited \/ (visited' = {} /\ \A i \in Jobs : job'[i] = Free)
        BY <1>6 DEF Next, Calls, DeleteCachedURL, ClearCache, Abort, Worker, Notify, Take, Fails, Drops, Local,
                    Refused, Close, Complete, Stops, RemoveConnection, Exit, Crash, Ends, Modify, vars
    <2>5. \A i \in Jobs : job'[i].pc = "local" => job[i].pc = "local"
        <3>1. CASE Calls
            <4>1. ASSUME NEW j \in Jobs, Abort(j) PROVE \A i \in Jobs : job'[i].pc = "local" => job[i].pc = "local"
                BY <1>0, <4>1, AbortMoves DEF JobsMove, Moved, Free
            <4> QED
                BY <1>6, <3>1, <4>1 DEF Calls, DeleteCachedURL, ClearCache
        <3>2. ASSUME NEW j \in Jobs, Worker(j) PROVE \A i \in Jobs : job'[i].pc = "local" => job[i].pc = "local"
            <4>1. CASE Notify(j) \/ RemoveConnection(j)
                BY <1>0, <4>1 DEF Notify, RemoveConnection, Types, Free
            <4>2. CASE Take(j)
                BY <1>0, <4>2, StepMoves DEF Take
            <4>3. CASE Close(j)
                BY <1>0, <4>3, StepMoves DEF Close
            <4>4. CASE Fails(j) \/ Drops(j) \/ Refused(j) \/ Local(j) \/ Complete(j) \/ Stops(j)
                <5>1. /\ job' = Finished(j)
                      /\ \/ job[j].pc \in {"asked", "local", "stored"}
                         \/ job[j].pc = "body" /\ job[j].abort
                    BY <4>4 DEF Fails, Drops, Refused, Local, Complete, Stops
                <5> QED
                    BY <1>0, <5>1, FinishedMoves DEF Free
            <4> QED
                BY <1>6, <3>2, <4>1, <4>2, <4>3, <4>4 DEF Worker
        <3>3. CASE Exit \/ Crash
            BY <3>3 DEF Exit, Crash, Ends, Free
        <3>4. CASE (\E u \in URLs : Modify(u)) \/ UNCHANGED vars
            BY <3>4 DEF Modify, vars
        <3> QED
            BY <1>6, <3>1, <3>2, <3>3, <3>4 DEF Next
    <2> QED
        BY <1>0, <2>1, <2>2, <2>3, <2>4, <2>5, VerifiedStay DEF Sessions
<1> QED
    BY <1>1, <1>2, <1>3, <1>4, <1>5, <1>6

-----------------------------------------------------------------------------
(* Which files are used. *)

\* Who reads a file finds nobody writing it.
LEMMA ReadersAlone ==
    ASSUME Inv, Working, KeysTellURLs, NEW j \in Jobs, Active(j), job[j].pc # "body",
           job[j].name \in Names
    PROVE  writer[job[j].name] \in {None, j}
<1> DEFINE n == job[j].name
           w == writer[n]
<1>1. SUFFICES ASSUME w # None PROVE w = j
    OBVIOUS
<1>2. w \in Jobs /\ job[w].name = n /\ Active(w)
    BY <1>1 DEF Inv, Types, Working, Writers, Active
<1> QED
    BY <1>2, SoleName DEF Working

\* A request that is to date its file anew or to delete it goes on to do so.
LEMMA DuesStay ==
    ASSUME Inv, Working, KeysTellURLs, [Next]_vars, ~Exit, ~Crash, ~Start, NEW i \in Jobs, Due(job[i])
    PROVE  \/ Due(job'[i]) /\ job'[i].name = job[i].name
           \/ job[i].name \notin untouched'
           \/ job[i].name = None \/ file'[job[i].name] = None
<1> USE DEF disk, process
<1>0. Types /\ Held /\ Writers /\ \A j \in Jobs : JobNamed(job[j])
    BY DEF Inv, Working
<1>1. job[i].pc \in {"local", "ended"} /\ Active(i) /\ job[i].pc # "body"
    BY DEF Due, Active
<1>2. CASE job'[i] = job[i]
    BY <1>2
<1>3. CASE Calls
    <2>1. ASSUME NEW j \in Jobs, NEW u \in URLs, NEW o \in {"normal", "reload", "returnCache"}, GetURL(j, u, o)
          PROVE  job'[i] = job[i]
        <3>1. PICK a \in Job : LooksUp(j, u, a)
            BY <1>0, <2>1, NewRequest
        <3> QED
            BY <1>0, <1>1, <3>1 DEF LooksUp, Types
    <2>2. ASSUME NEW j \in Jobs, Abort(j) PROVE Due(job'[i]) /\ job'[i].name = job[i].name
        <3>1. JobsMove /\ job'[i].pc = job[i].pc
            BY <1>0, <1>1, <2>2, AbortMoves
        <3> QED
            BY <1>1, <3>1 DEF JobsMove, Moved, Due, Free
    <2>3. CASE ClearCache \/ \E u \in URLs : DeleteCachedURL(u)
        BY <1>2, <2>3 DEF ClearCache, DeleteCachedURL
    <2> QED
        BY <1>2, <1>3, <2>1, <2>2, <2>3 DEF Calls
<1>4. ASSUME NEW j \in Jobs, Worker(j)
      PROVE  \/ Due(job'[i]) /\ job'[i].name = job[i].name
             \/ job[i].name \notin untouched'
             \/ job[i].name = None \/ file'[job[i].name] = None
    <2>1. CASE Notify(j)
        BY <1>0, <1>1, <1>2, <2>1 DEF Notify, Types
    <2>2. CASE Take(j) \/ Unchanged(j) \/ Close(j) \/ Store(j)
        <3>1. job[j].pc \notin {"local", "ended"} /\ \A k \in Jobs \ {j} : job'[k] = job[k]
            BY <1>0, <2>2, StepMoves DEF Take, Unchanged, Close, Store
        <3> QED
            BY <1>1, <1>2, <3>1
    <2>3. CASE Fails(j) \/ Drops(j) \/ Refused(j) \/ Complete(j) \/ Stops(j)
        <3>1. /\ job[j].pc \notin {"local", "ended"}
              /\ \A k \in Jobs \ {j} : job'[k] = job[k] \/ job[k].pc = "wait"
            BY <1>0, <2>3, FinishedMoves DEF Fails, Drops, Refused, Complete, Stops
        <3> QED
            BY <1>1, <1>2, <3>1
    <2>4. CASE Reply(j)
        <3>1. PICK n \in Names, a \in Job, c \in Content : NamesFile(j, n, a, c)
            BY <1>0, <2>4, NewFile
        <3> QED
            BY <1>0, <1>1, <1>2, <2>4, <3>1 DEF NamesFile, Types, Reply
    <2>5. CASE Local(j)
        <3> DEFINE n == job[j].name
        <3>1. /\ job'[j].pc = "ended" /\ job'[j].name = n /\ job'[j].abort = job[j].abort
              /\ \A k \in Jobs \ {j} : job'[k] = job[k] \/ job[k].pc = "wait"
              /\ job[j].pc = "local" /\ file' = file
            BY <1>0, <2>5, FinishedMoves DEF Local
        <3>2. CASE i # j
            BY <1>1, <1>2, <3>1, <3>2
        <3>3. CASE i = j /\ job[j].abort
            BY <3>1, <3>3 DEF Due
        <3>4. CASE i = j /\ ~job[j].abort /\ Exists(n)
            <4>1. n \in Names
                BY <1>0, <3>4 DEF Exists, Types, Job
            <4>2. writer[n] = None
                <5>1. writer[n] \in {None, j}
                    BY <1>1, <3>4, <4>1, ReadersAlone
                <5>2. writer[n] # j
                    BY <1>0, <3>1, <4>1, CacheAssumption DEF Writers
                <5> QED
                    BY <5>1, <5>2
            <4>3. untouched' = untouched \ {n}
                BY <2>5, <3>4, <4>2 DEF Local, Keeps, Readable, Written
            <4> QED
                BY <3>4, <4>3
        <3>5. CASE i = j /\ ~Exists(n)
            BY <3>1, <3>5 DEF Exists
        <3> QED
            BY <3>2, <3>3, <3>4, <3>5
    <2>6. CASE RemoveConnection(j)
        <3> DEFINE n == job[j].name
        <3>1. job' = [job EXCEPT ![j] = Free] /\ job[j].pc = "ended"
            BY <2>6 DEF RemoveConnection
        <3>2. CASE i # j
            BY <1>0, <1>2, <3>1, <3>2 DEF Types
        <3>3. CASE i = j /\ Exists(n)
            <4>1. n \in Names /\ job[j].abort
                BY <1>0, <3>1, <3>3 DEF Exists, Types, Job, Due
            <4>2. writer[n] \in {j, None}
                BY <1>1, <3>3, <4>1, ReadersAlone
            <4>3. Unlink({n})
                BY <2>6, <3>3, <4>1, <4>2 DEF RemoveConnection
            <4>4. file'[n] = None
                BY <4>1, <4>3 DEF Unlink
            <4> QED
                BY <3>3, <4>4 DEF Exists
        <3>4. CASE i = j /\ ~Exists(n)
            BY <2>6, <3>4 DEF RemoveConnection, Exists
        <3> QED
            BY <3>2, <3>3, <3>4
    <2> QED
        BY <1>4, <2>1, <2>2, <2>3, <2>4, <2>5, <2>6 DEF Worker
<1>5. CASE (\E u \in URLs : Modify(u)) \/ UNCHANGED vars
    BY <1>2, <1>5 DEF Modify, vars
<1> QED
    BY <1>3, <1>4, <1>5 DEF Next

\* What is used in a session stays so until it ends.
LEMMA UsedStayUsed ==
    ASSUME [Next]_vars, ~Exit, ~Crash, ~Start
    PROVE  untouched' \subseteq untouched
    BY DEF Next, Calls, GetURL, DeleteCachedURL, ClearCache, Abort, Worker, Notify, Take, Fails, Drops, Unchanged,
           Local, Keeps, Reply, Refused, Close, Store, Complete, Stops, RemoveConnection, Written, Modify,
           vars, ghosts, disk, process

\* So a file stays renewed.
LEMMA RenewedStays ==
    ASSUME Inv, Working, KeysTellURLs, [Next]_vars, ~Exit, ~Crash, ~Start, NEW n \in Names, Renewed(n)
    PROVE  /\ untouched' \subseteq untouched
           /\ n \in untouched' /\ file'[n] # None =>
                  \E j \in Jobs : job'[j].name = n /\ Due(job'[j])
<1> USE DEF disk, process
<1>0. Types /\ \A j \in Jobs : JobNamed(job[j])
    BY DEF Inv
<1>1. untouched' \subseteq untouched
    BY UsedStayUsed
<1>2. ASSUME n \in untouched', file'[n] # None PROVE \E j \in Jobs : job'[j].name = n /\ Due(job'[j])
    <2>1. file[n] # None
        <3>1. CASE \E j \in Jobs : Reply(j)
            <4>1. PICK j \in Jobs : Reply(j)
                BY <3>1
            <4>2. PICK m \in Names, a \in Job, c \in Content : NamesFile(j, m, a, c)
                BY <1>0, <4>1, NewFile
            <4> QED
                BY <1>0, <1>2, <4>2 DEF NamesFile, Types, Written
        <3>2. CASE \A j \in Jobs : ~Reply(j)
            BY <1>2, <3>2, FilesOnlyAge DEF FilesAge
        <3> QED
            BY <3>1, <3>2
    <2>2. PICK j \in Jobs : job[j].name = n /\ Due(job[j])
        BY <1>1, <1>2, <2>1, CacheAssumption DEF Renewed, Exists
    <2>3. Due(job'[j]) /\ job'[j].name = n
        BY <1>2, <2>2, DuesStay, CacheAssumption
    <2> QED
        BY <2>3
<1> QED
    BY <1>1, <1>2

LEMMA RenewalsKept ==
    ASSUME Inv, Working, KeysTellURLs, Sessions, Verified, Renewals, [Next]_vars
    PROVE  Renewals'
<1> USE DEF disk, process
<1>0. Types /\ Held /\ \A i \in Jobs : JobNamed(job[i])
    BY DEF Inv
<1>1. CASE Exit \/ Crash
    BY <1>1 DEF Exit, Crash, Ends, Renewals, Free
<1>2. CASE Start
    BY <1>2 DEF Start, Silent, Sessions, Resting, Renewals, Free
<1> SUFFICES ASSUME ~Exit, ~Crash, ~Start PROVE Renewals'
    BY <1>1, <1>2
<1> DEFINE R(n) == n \in untouched' /\ n # None /\ file'[n] # None =>
                       \E j \in Jobs : job'[j].name = n /\ Due(job'[j])
<1>3. untouched' \subseteq untouched
    BY UsedStayUsed
<1>4. ASSUME NEW n \in Names \cup {None}, Renewed(n) PROVE R(n)
    BY <1>4, RenewedStays
<1> HIDE DEF R
<1>5. ASSUME NEW n \in served' PROVE R(n)
    <2>1. CASE n \in served
        BY <1>4, <2>1 DEF Renewals, Sessions
    <2>2. ASSUME NEW j \in Jobs, Notify(j), n \notin served PROVE R(n)
        <3>1. n = job[j].name /\ ~job[j].any /\ Exists(n) /\ job[j].pc = "notify"
            BY <2>2 DEF Notify, Deliver, Delivery, Readable
        <3>2. n \in Names
            BY <1>0, <3>1 DEF Exists, Types, Job
        <3> QED
            BY <1>4, <3>1, <3>2 DEF Renewals
    <2>3. ASSUME NEW j \in Jobs, Local(j), n \notin served PROVE R(n)
        <3>1. n = job[j].name /\ Readable(n) /\ Written(n)
            BY <2>3 DEF Local, Silent, Deliver, Delivery, Keeps
        <3> QED
            BY <3>1 DEF Written, R
    <2>4. ASSUME NEW j \in Jobs, Complete(j), n \notin served PROVE R(n)
        <3>1. n = job[j].name /\ job[j].pc = "stored"
            BY <2>4 DEF Complete, Silent, Deliver, Delivery
        <3> QED
            BY <1>3, <3>1 DEF Renewals, R
    <2>5. CASE \A j \in Jobs : ~Notify(j) /\ ~Local(j) /\ ~Complete(j)
        <3>1. served' = served
            BY <2>5 DEF Next, Calls, GetURL, DeleteCachedURL, ClearCache, Abort, Worker, Take, Fails, Drops, Unchanged,
                        Reply, Refused, Close, Store, Stops, RemoveConnection, Silent, Modify, vars, ghosts
        <3> QED
            BY <2>1, <3>1
    <2> QED
        BY <2>1, <2>2, <2>3, <2>4, <2>5
<1>6. ASSUME NEW u \in visited', db'[KeyOf[u]] # None PROVE R(db'[KeyOf[u]].name)
    <2>1. ASSUME u \in visited, db'[KeyOf[u]] = db[KeyOf[u]] PROVE R(db'[KeyOf[u]].name)
        <3>1. db[KeyOf[u]].name \in Names
            BY <1>0, <1>6, <2>1, Ages DEF Types
        <3> QED
            BY <1>4, <1>6, <2>1, <3>1 DEF Renewals
    <2>2. ASSUME NEW j \in Jobs, Unchanged(j) PROVE R(db'[KeyOf[u]].name)
        <3>1. /\ job'[j].pc = "local" /\ job'[j].name = job[j].name
              /\ db' = db /\ visited' = visited \cup {job[j].url} /\ job[j].pc # "free"
            BY <1>0, <2>2, StepMoves DEF Unchanged
        <3>2. CASE u \in visited
            BY <2>1, <3>1, <3>2
        <3>3. CASE u \notin visited
            <4>1. db[KeyOf[u]].name = job[j].name
                BY <1>6, <3>1, <3>3 DEF Verified
            <4> QED
                BY <3>1, <4>1 DEF R, Due
        <3> QED
            BY <3>2, <3>3
    <2>3. ASSUME NEW j \in Jobs, Store(j) PROVE R(db'[KeyOf[u]].name)
        <3> DEFINE v == job[j].url
                   n == job[j].name
        <3>1. /\ job[j].pc = "closed" /\ visited' = visited \cup {v} /\ file' = file /\ v \in URLs
              /\ u \in URLs
            BY <1>0, <1>6, <2>3 DEF Store, JobNamed, Types
        <3>2. n \notin untouched'
            BY <1>3, <3>1 DEF Renewals
        <3>3. CASE u # v
            <4>1. KeyOf[u] # KeyOf[v] /\ KeyOf[u] \in Keys
                BY <1>0, <3>1, <3>3, Ages DEF KeysTellURLs
            <4>2. db'[KeyOf[u]] = db[KeyOf[u]]
                BY <1>0, <2>3, <4>1 DEF Store, Types
            <4> QED
                BY <2>1, <3>1, <3>3, <4>2
        <3>4. CASE u = v /\ db'[KeyOf[v]].name = n
            BY <3>2, <3>4 DEF R
        <3>5. CASE u = v /\ db' = db
            <4>1. CASE u \in visited
                BY <2>1, <3>5, <4>1
            <4>2. CASE u \notin visited
                <5>1. db[KeyOf[u]].name = n
                    BY <1>6, <3>1, <3>5, <4>2 DEF Verified
                <5> QED
                    BY <3>2, <3>5, <5>1 DEF R
            <4> QED
                BY <4>1, <4>2
        <3>6. db' = db \/ db'[KeyOf[v]].name = n
            <4>1. KeyOf[v] \in Keys
                BY <1>0, <3>1, Ages
            <4> QED
                BY <1>0, <2>3, <4>1 DEF Store, Types
        <3> QED
            BY <3>3, <3>4, <3>5, <3>6
    <2>4. CASE \A j \in Jobs : ~Unchanged(j) /\ ~Store(j)
        <3>1. visited' = visited
            BY <2>4 DEF Next, Calls, GetURL, DeleteCachedURL, ClearCache, Abort, Worker, Notify, Take, Fails, Drops,
                        Local, Reply, Refused, Close, Complete, Stops, RemoveConnection, Modify, vars
        <3>2. KeyOf[u] \in Keys
            BY <1>0, <3>1, Ages DEF Types
        <3>3. db'[KeyOf[u]] = db[KeyOf[u]]
            BY <1>6, <2>4, <3>2, EntriesOnlyGo
        <3> QED
            BY <2>1, <3>1, <3>3
    <2> QED
        BY <2>2, <2>3, <2>4
<1>7. ASSUME NEW i \in Jobs, job'[i].pc = "notify", ~job'[i].any PROVE R(job'[i].name)
    <2>1. ASSUME job[i].pc = "notify", ~job[i].any, job'[i].name = job[i].name PROVE R(job'[i].name)
        <3>1. job[i].name \in Names \cup {None}
            BY <1>0, Ages
        <3> QED
            BY <1>4, <2>1, <3>1 DEF Renewals
    <2>2. ASSUME NEW j \in Jobs, NEW u \in URLs, NEW o \in {"normal", "reload", "returnCache"}, GetURL(j, u, o)
          PROVE  R(job'[i].name)
        <3>1. PICK a \in Job : LooksUp(j, u, a)
            BY <1>0, <2>2, NewRequest
        <3>2. job'[j] = a /\ \A k \in Jobs \ {j} : job'[k] = job[k]
            BY <1>0, <3>1 DEF LooksUp, Types
        <3>3. CASE i = j
            <4>1. u \in visited /\ db[KeyOf[u]] # None /\ a.name = db[KeyOf[u]].name
                BY <1>7, <3>1, <3>2, <3>3 DEF LooksUp, Cached
            <4>2. a.name \in Names
                BY <1>0, <4>1, Ages
            <4> QED
                BY <1>4, <3>2, <3>3, <4>1, <4>2 DEF Renewals
        <3>4. CASE i # j
            BY <1>7, <2>1, <3>2, <3>4
        <3> QED
            BY <3>3, <3>4
    <2>3. ASSUME NEW j \in Jobs, Reply(j) PROVE R(job'[i].name)
        <3>1. PICK n \in Names, a \in Job, c \in Content : NamesFile(j, n, a, c)
            BY <1>0, <2>3, NewFile
        <3>2. job'[i] = job[i]
            BY <1>0, <1>7, <3>1 DEF NamesFile, Types
        <3> QED
            BY <1>7, <2>1, <3>2
    <2>4. CASE JobsMove
        <3>1. job[i].pc = "notify" /\ ~job[i].any /\ job'[i].name = job[i].name
            BY <1>7, <2>4 DEF JobsMove, Moved, Free
        <3> QED
            BY <2>1, <3>1
    <2> QED
        BY <2>2, <2>3, <2>4, JobsOnlyMove
<1>8. ASSUME NEW i \in Jobs, job'[i].pc \in {"body", "closed", "stored"} PROVE job'[i].name \notin untouched'
    <2>1. ASSUME job[i].pc \in {"body", "closed", "stored"}, job'[i].name = job[i].name
          PROVE  job'[i].name \notin untouched'
        BY <1>3, <2>1 DEF Renewals
    <2>2. ASSUME NEW j \in Jobs, NEW u \in URLs, NEW o \in {"normal", "reload", "returnCache"}, GetURL(j, u, o)
          PROVE  job'[i].name \notin untouched'
        <3>1. PICK a \in Job : LooksUp(j, u, a)
            BY <1>0, <2>2, NewRequest
        <3>2. job'[i] = job[i]
            BY <1>0, <1>8, <3>1 DEF LooksUp, Types
        <3> QED
            BY <1>8, <2>1, <3>2
    <2>3. ASSUME NEW j \in Jobs, Reply(j) PROVE job'[i].name \notin untouched'
        <3>1. PICK n \in Names, a \in Job, c \in Content : NamesFile(j, n, a, c)
            BY <1>0, <2>3, NewFile
        <3>2. CASE i = j
            BY <1>0, <3>1, <3>2 DEF NamesFile, Types, Written
        <3>3. CASE i # j
            <4>1. job'[i] = job[i]
                BY <1>0, <3>1, <3>3 DEF NamesFile, Types
            <4> QED
                BY <1>8, <2>1, <4>1
        <3> QED
            BY <3>2, <3>3
    <2>4. CASE JobsMove
        <3>1. job[i].pc \in {"body", "closed", "stored"} /\ job'[i].name = job[i].name
            BY <1>8, <2>4 DEF JobsMove, Moved, Free
        <3> QED
            BY <2>1, <3>1
    <2> QED
        BY <2>2, <2>3, <2>4, JobsOnlyMove
<1> QED
    BY <1>5, <1>6, <1>7, <1>8 DEF Renewals, Renewed, Exists, R

-----------------------------------------------------------------------------
(* The whole invariant. *)

WholeInv ==
    /\ Inv /\ InOrder /\ Sessions /\ Working
    /\ KeysTellURLs => Wholes /\ Dates /\ Verified /\ Renewals

\* It holds at the start.
LEMMA InitIsWhole ==
    ASSUME Init
    PROVE  WholeInv
<1>1. Inv /\ page \in [URLs -> Versions] /\ \A u \in URLs : page[u] \in Nat
    BY InitHolds DEF Inv, Types, Versions
<1>2. \A i \in Jobs : job[i] = Free
    BY DEF Init
<1>3. InOrder
    BY DEF Init, InOrder, Lined, Present
<1>4. Sessions
    BY <1>1, <1>2 DEF Init, Sessions, Resting
<1>5. Working
    BY <1>2 DEF Init, Working, OneActive, Writers, Active, Free
<1>6. Wholes
    BY <1>2 DEF Init, Wholes, Free
<1>7. Dates
    BY <1>2 DEF Init, Dates, Free
<1>8. Verified
    BY <1>1, <1>2 DEF Init, Verified, Free, Fresh
<1>9. Renewals
    BY <1>2 DEF Init, Renewals, Free
<1> QED
    BY <1>1, <1>3, <1>4, <1>5, <1>6, <1>7, <1>8, <1>9 DEF WholeInv

\* Every step keeps it.
LEMMA WholeKept ==
    ASSUME WholeInv, [Next]_vars
    PROVE  WholeInv'
<1>1. Inv /\ InOrder /\ Sessions /\ Working
    BY DEF WholeInv
<1>2. Inv' /\ InOrder' /\ Sessions'
    BY <1>1, NextKeeps, OrderKept, SessionsKept
<1>3. Working'
    BY <1>1, OneActiveKept, WritersKept DEF Working
<1>4. ASSUME KeysTellURLs PROVE (Wholes /\ Dates /\ Verified /\ Renewals)'
    BY <1>1, <1>4, WholesKept, DatesKept, VerifiedKept, RenewalsKept DEF WholeInv
<1>5. KeysTellURLs' <=> KeysTellURLs
    BY DEF KeysTellURLs
<1> QED
    BY <1>2, <1>3, <1>4, <1>5 DEF WholeInv

LEMMA WholeInvariant == Spec => []WholeInv
<1>1. Init => WholeInv
    BY InitIsWhole
<1>2. WholeInv /\ [Next]_vars => WholeInv'
    BY WholeKept
<1> QED
    BY <1>1, <1>2, PTL DEF Spec

\* The invariant that the run HttpCache_files checks: types, order of the files,
\* who is at work, and, when the database tells the URLs apart, whose copy each
\* file is, that it is whole, and how old.
THEOREM FilesInvariant == Spec => []CacheInv
<1>1. WholeInv => CacheInv
    <2> SUFFICES ASSUME WholeInv PROVE CacheInv
        OBVIOUS
    <2>1. order \in Seq(Names) /\ ToSet(order) = Present
        BY DEF WholeInv, InOrder, Lined, ToSet
    <2>2. \A i, k \in 1 .. Len(order) : order[i] = order[k] => i = k
        BY DEF WholeInv, InOrder, Lined
    <2>3. UnusedFirst
        BY DEF WholeInv, InOrder, Lined, UnusedFirst
    <2>4. TypeOK
        BY <2>1, <2>2 DEF WholeInv, Inv, Sessions, TypeOK
    <2> QED
        BY <2>3, <2>4 DEF WholeInv, Inv, Sessions, Working, CacheInv
<1> QED
    BY <1>1, WholeInvariant, PTL

-----------------------------------------------------------------------------
(* What is delivered. *)

\* A step delivers what a request, and those that wait for it, find in its file.
Delivers(j, rs) ==
    /\ \/ job[j].pc = "notify" /\ rs = {j}
       \/ job[j].pc \in {"local", "stored"} /\ rs = {j} \cup Waiters(j)
    /\ got' = Delivery(rs, job[j].name, FALSE)
    /\ UNCHANGED <<file, begin>>

\* Or what the one request whose connection was dropped has by its name.
DeliversDropped(j) == /\ got' = Delivery({j}, job[j].name, TRUE)
                      /\ UNCHANGED file

LEMMA WhoDelivers ==
    ASSUME [Next]_vars
    PROVE  \/ got' = {}
           \/ UNCHANGED vars
           \/ \E j \in Jobs : \E rs \in SUBSET Jobs : Delivers(j, rs)
           \/ \E j \in Jobs : DeliversDropped(j)
<1> USE DEF disk, process
<1>1. CASE Calls
    BY <1>1 DEF Calls, GetURL, DeleteCachedURL, ClearCache, Abort, Silent
<1>2. ASSUME NEW j \in Jobs, Worker(j)
      PROVE  got' = {} \/ (\E rs \in SUBSET Jobs : Delivers(j, rs)) \/ DeliversDropped(j)
    <2>1. CASE Notify(j)
        <3>1. Delivers(j, {j})
            BY <2>1 DEF Notify, Deliver, Delivers
        <3> QED
            BY <3>1
    <2>2. CASE Local(j) \/ Complete(j)
        <3>1. got' = {} \/ Delivers(j, {j} \cup Waiters(j))
            BY <2>2 DEF Local, Complete, Deliver, Silent, Delivers
        <3>2. {j} \cup Waiters(j) \in SUBSET Jobs
            BY DEF Waiters
        <3> QED
            BY <3>1, <3>2
    <2>3. CASE Drops(j)
        BY <2>3 DEF Drops, DeliversDropped
    <2> QED
        BY <1>2, <2>1, <2>2, <2>3 DEF Worker, Take, Fails, Unchanged, Reply, Refused, Close, Store, Stops,
                                RemoveConnection, Silent
<1>3. CASE Exit \/ Crash \/ Start \/ \E u \in URLs : Modify(u)
    BY <1>3 DEF Exit, Crash, Start, Modify, Ends, Silent
<1> QED
    BY <1>1, <1>2, <1>3 DEF Next

\* Each copy is that of a request for the same page as the one that had it streamed.
LEMMA Delivered ==
    ASSUME NEW j \in Jobs, NEW rs, Delivers(j, rs), NEW d \in got'
    PROVE  /\ Readable(job[j].name) /\ d.is = file[job[j].name] /\ d.url = job[j].url
           /\ job[j].pc = "notify" => d.any = job[j].any
<1>1. /\ Readable(job[j].name)
      /\ d \in {[url |-> job[r].url, any |-> job[r].any, dropped |-> FALSE,
                  dated |-> job[r].date # 0, is |-> file[job[j].name]] : r \in rs}
    BY DEF Delivers, Delivery
<1>2. PICK r \in rs : /\ d.url = job[r].url /\ d.any = job[r].any
                      /\ d.is = file[job[j].name]
    BY <1>1
<1>3. job[r].url = job[j].url /\ (job[j].pc = "notify" => r = j)
    BY DEF Delivers, Waiters
<1> QED
    BY <1>1, <1>2, <1>3

\* A dropped connection delivers the file of its request.
LEMMA DeliveredDropped ==
    ASSUME NEW j \in Jobs, DeliversDropped(j), NEW d \in got'
    PROVE  /\ Readable(job[j].name) /\ d.is = file[job[j].name]
           /\ d.dropped = TRUE /\ d.dated = (job[j].date # 0)
<1>1. /\ Readable(job[j].name)
      /\ d \in {[url |-> job[r].url, any |-> job[r].any, dropped |-> TRUE,
                  dated |-> job[r].date # 0, is |-> file[job[j].name]] : r \in {j}}
    BY DEF DeliversDropped, Delivery
<1> QED
    BY <1>1

\* A file that is half-written is never delivered (fstreams are opened with
\* sh_none; HandleScheme compares the size the database records): every
\* request that streams a file found it whole, and only writers empty files.
THEOREM NoPartIsServed == KeysTellURLs => (Spec => []NeverPart)
<1> SUFFICES ASSUME KeysTellURLs PROVE Spec => []NeverPart
    OBVIOUS
<1>1. Init => NeverPart
    BY DEF Init, NeverPart
<1>2. WholeInv /\ NeverPart /\ [Next]_vars => NeverPart'
    <2> SUFFICES ASSUME WholeInv, NeverPart, [Next]_vars, NEW d \in got',
                        ~d.dropped \/ d.dated
                 PROVE  d.is.len # "part"
        BY DEF NeverPart
    <2>1. CASE \E j \in Jobs : \E rs \in SUBSET Jobs : Delivers(j, rs)
        <3>1. PICK j \in Jobs : \E rs \in SUBSET Jobs : Delivers(j, rs)
            BY <2>1
        <3>2. PICK rs \in SUBSET Jobs : Delivers(j, rs)
            BY <3>1
        <3>3. Readable(job[j].name) /\ d.is = file[job[j].name]
            BY <3>2, Delivered
        <3>4. ~Half(job[j].name)
            BY <3>2 DEF Delivers, WholeInv, Wholes
        <3> QED
            BY <3>3, <3>4 DEF Half
    <2>2. CASE UNCHANGED vars
        BY <2>2 DEF vars, NeverPart
    <2>3. CASE \E j \in Jobs : DeliversDropped(j)
        <3>1. PICK j \in Jobs : DeliversDropped(j)
            BY <2>3
        <3>2. Readable(job[j].name) /\ d.is = file[job[j].name] /\ job[j].date # 0
            BY <3>1, DeliveredDropped
        <3>3. ~Half(job[j].name)
            BY <3>2 DEF WholeInv, Wholes
        <3> QED
            BY <3>2, <3>3 DEF Half
    <2> QED
        BY <2>1, <2>2, <2>3, WhoDelivers
<1> QED
    BY <1>1, <1>2, WholeInvariant, PTL DEF Spec

\* What is delivered was current at some time in this session, unless the
\* request asked for whatever there is (GetURL, CH_CACHE_VERIFY_PER_SESSION).
THEOREM CopiesOfThisSession == KeysTellURLs => (Spec => []FreshThisSession)
<1> SUFFICES ASSUME KeysTellURLs PROVE Spec => []FreshThisSession
    OBVIOUS
<1>1. Init => FreshThisSession
    BY DEF Init, FreshThisSession
<1>2. WholeInv /\ FreshThisSession /\ [Next]_vars => FreshThisSession'
    <2> SUFFICES ASSUME WholeInv, FreshThisSession, [Next]_vars, NEW d \in got', ~d.any, ~d.dropped
                 PROVE  d.is.ver >= begin'[d.url]
        BY DEF FreshThisSession
    <2>1. CASE \E j \in Jobs : \E rs \in SUBSET Jobs : Delivers(j, rs)
        <3>1. PICK j \in Jobs : \E rs \in SUBSET Jobs : Delivers(j, rs)
            BY <2>1
        <3>2. PICK rs \in SUBSET Jobs : Delivers(j, rs)
            BY <3>1
        <3>3. /\ Readable(job[j].name) /\ d.is = file[job[j].name] /\ d.url = job[j].url
              /\ job[j].pc = "notify" => ~job[j].any
            BY <3>2, Delivered
        <3>4. Fresh(job[j]) /\ begin' = begin
            BY <3>2, <3>3 DEF Delivers, Fresh
        <3>5. NotBefore(job[j].name, begin[job[j].url])
            BY <3>4 DEF WholeInv, Verified
        <3> QED
            BY <3>3, <3>4, <3>5 DEF NotBefore, Readable
    <2>2. CASE UNCHANGED vars
        BY <2>2 DEF vars, ghosts, FreshThisSession
    <2>3. CASE \E j \in Jobs : DeliversDropped(j)
        BY <2>3, DeliveredDropped
    <2> QED
        BY <2>1, <2>2, <2>3, WhoDelivers
<1> QED
    BY <1>1, <1>2, WholeInvariant, PTL DEF Spec

\* The database never credits a file with a later date than the version that
\* is in it (OnDataComplete), so no If-Modified-Since keeps an old copy.
THEOREM DatesOfTheFiles == KeysTellURLs => (Spec => []DatesAreEarned)
<1> SUFFICES ASSUME KeysTellURLs PROVE Spec => []DatesAreEarned
    OBVIOUS
<1>1. WholeInv => DatesAreEarned
    BY DEF WholeInv, Dates, NotBefore, DatesAreEarned, Readable
<1> QED
    BY <1>1, WholeInvariant, PTL

-----------------------------------------------------------------------------
(* What is pruned. *)

\* Fewer files are no larger.
LEMMA SizeGrows ==
    ASSUME NEW B, IsFiniteSet(B), NEW A \in SUBSET B
    PROVE  TotalSize(A) \in Nat /\ TotalSize(B) \in Nat /\ TotalSize(A) <= TotalSize(B)
<1> DEFINE Of(S, len) == {n \in S : file[n].len = len}
<1>1. ASSUME NEW len
      PROVE  /\ Cardinality(Of(A, len)) \in Nat /\ Cardinality(Of(B, len)) \in Nat
             /\ Cardinality(Of(A, len)) <= Cardinality(Of(B, len))
    <2>1. Of(B, len) \in SUBSET B /\ Of(A, len) \in SUBSET Of(B, len)
        OBVIOUS
    <2>2. IsFiniteSet(Of(B, len))
        BY <2>1, FS_Subset
    <2>3. IsFiniteSet(Of(A, len)) /\ Cardinality(Of(A, len)) <= Cardinality(Of(B, len))
        BY <2>1, <2>2, FS_Subset
    <2> QED
        BY <2>2, <2>3, FS_CardinalityType
<1>2. /\ TotalSize(A) = 3 * Cardinality(Of(A, "whole")) + 2 * Cardinality(Of(A, "cut")) + Cardinality(Of(A, "part"))
      /\ TotalSize(B) = 3 * Cardinality(Of(B, "whole")) + 2 * Cardinality(Of(B, "cut")) + Cardinality(Of(B, "part"))
    BY DEF TotalSize
<1> HIDE DEF Of
<1> QED
    BY <1>1, <1>2

\* The cache has finitely many files.
LEMMA PresentIsFinite ==
    ASSUME InOrder
    PROVE  IsFiniteSet(Present)
<1> DEFINE f == [i \in 1 .. Len(order) |-> order[i]]
<1>1. Len(order) \in Nat /\ Present = {order[i] : i \in 1 .. Len(order)}
    BY DEF InOrder, Lined
<1>2. f \in Surjection(1 .. Len(order), Present)
    BY <1>1 DEF Surjection
<1>3. IsFiniteSet(1 .. Len(order))
    BY <1>1, FS_Interval
<1> QED
    BY <1>2, <1>3, FS_Surjection

\* When a file is pruned, all older ones are.
LEMMA OldestFirst ==
    ASSUME InOrder, NEW i \in 1 .. Len(order), NEW k \in 1 .. Len(order), i < k, order[k] \in Evicted
    PROVE  order[i] \in Evicted
<1>1. PICK e \in 1 .. Len(order) : order[k] = order[e] /\ TotalSize(Present \ Oldest(e - 1)) > Limit
    BY DEF Evicted
<1>2. e = k
    BY <1>1 DEF InOrder, Lined
<1>3. Oldest(i - 1) \subseteq Oldest(k - 1)
    BY DEF Oldest
<1>4. IsFiniteSet(Present \ Oldest(i - 1))
    BY PresentIsFinite, FS_Subset
<1>5. /\ TotalSize(Present \ Oldest(k - 1)) <= TotalSize(Present \ Oldest(i - 1))
      /\ TotalSize(Present \ Oldest(k - 1)) \in Nat /\ TotalSize(Present \ Oldest(i - 1)) \in Nat
    BY <1>3, <1>4, SizeGrows
<1>6. TotalSize(Present \ Oldest(i - 1)) > Limit
    BY <1>1, <1>2, <1>5, CacheAssumption
<1> QED
    BY <1>6 DEF Evicted

\* Pruning deletes no file that was delivered in this session before all that
\* were there at its start and have not been used (EnforceCacheLimit): when
\* the program exits nobody is about to renew a file, so the delivered ones
\* are the later in the order.
THEOREM UnusedGoFirst == KeysTellURLs => (Spec => EvictsUnusedFirst)
<1> SUFFICES ASSUME KeysTellURLs PROVE Spec => EvictsUnusedFirst
    OBVIOUS
<1> DEFINE Prunes == \A m \in served, n \in untouched : file[m] # None /\ file'[m] = None => file'[n] = None
<1>1. WholeInv /\ Exit => Prunes
    <2> SUFFICES ASSUME WholeInv, Exit, NEW m \in served, NEW n \in untouched,
                        file[m] # None, file'[m] = None, file[n] # None
                 PROVE  file'[n] = None
        <3>1. ASSUME WholeInv, Exit, NEW n \in untouched, file[n] = None PROVE file'[n] = None
            BY <3>1 DEF WholeInv, Sessions, Exit, Unlink
        <3> QED
            BY <3>1
    <2>1. /\ InOrder /\ m \in Names /\ n \in Names /\ None \notin Names
          /\ Renewed(m) /\ \A j \in Jobs : ~Active(j)
        BY CacheAssumption DEF WholeInv, Sessions, Renewals, Exit
    <2>2. m \notin untouched
        BY <2>1 DEF Renewed, Due, Active, Exists
    <2>3. file' = [x \in Names |-> IF x \in Evicted THEN None ELSE file[x]]
        BY DEF Exit, Unlink
    <2>4. m \in Evicted
        BY <2>1, <2>3
    <2>5. PICK i \in 1 .. Len(order) : order[i] = n
        BY <2>1 DEF InOrder, Lined, Present
    <2>6. PICK k \in 1 .. Len(order) : order[k] = m
        BY <2>1 DEF InOrder, Lined, Present
    <2>7. i < k
        BY <2>1, <2>2, <2>5, <2>6 DEF InOrder, Lined
    <2>8. n \in Evicted
        BY <2>1, <2>4, <2>5, <2>6, <2>7, OldestFirst
    <2> QED
        BY <2>1, <2>3, <2>8
<1>2. WholeInv /\ [Next]_vars => [Exit => Prunes]_vars
    BY <1>1
<1> QED
    BY <1>2, WholeInvariant, PTL DEF Spec, EvictsUnusedFirst
=============================================================================
