------------------------- MODULE HttpThreadPoolProofs -------------------------
(* Proofs that the safety properties of HttpThreadPool hold for every number *)
(* of requests, connections and threads.                                    *)
EXTENDS HttpThreadPoolInv, FiniteSetTheorems, TLAPS

LEMMA ListThreads ==
  ASSUME TypeOK
  PROVE  /\ created \in Nat
         /\ \A t \in Threads : t \in Nat /\ t >= 1
         /\ \A t \in list : t \in Threads /\ t \in Nat /\ t <= created
         /\ \A t \in Threads : t > created => t \notin list
  BY PoolAssumption DEF TypeOK, Threads

MainNext == Submit \/ SubmitTrigger \/ CloseAllConnections \/ TermShutdown \/ TermDone

WorkerNext(t) == WorkerStep(t) \/ Redirect(t) \/ TriggerTerminate(t)

LEMMA TypeMain == ASSUME TypeOK, MainNext PROVE TypeOK'
  <1>1. CASE Submit
    BY <1>1 DEF Submit, TypeOK, manager, walk, flags, events
  <1>2. CASE SubmitTrigger
    BY <1>2 DEF SubmitTrigger, TypeOK, manager, walk, flags, requests
  <1>3. CASE CloseAllConnections
    BY <1>3 DEF CloseAllConnections, TypeOK, manager, walk, flags, events
  <1>4. CASE TermShutdown
    BY <1>4 DEF TermShutdown, TypeOK, manager, walk, flags, requests
  <1>5. CASE TermDone
    BY <1>5 DEF TermDone, TypeOK, manager, walk, flags, requests
  <1> QED BY <1>1, <1>2, <1>3, <1>4, <1>5 DEF MainNext

LEMMA TypeWorker == ASSUME TypeOK, NEW t \in Threads, WorkerNext(t) PROVE TypeOK'
  <1> USE DEF TypeOK, manager, walk, flags, requests, events
  <1>1. CASE SetWorking(t)
    BY <1>1 DEF SetWorking
  <1>2. CASE TakeJob(t)
    BY <1>2 DEF TakeJob
  <1>3. CASE NoJob(t)
    BY <1>3 DEF NoJob
  <1>4. CASE FinishJob(t)
    BY <1>4 DEF FinishJob
  <1>5. CASE RedirectTrigger(t)
    BY <1>5 DEF RedirectTrigger
  <1>6. CASE SetIdleFlag(t)
    BY <1>6 DEF SetIdleFlag
  <1>7. CASE TriggerIdle(t)
    BY <1>7 DEF TriggerIdle
  <1>8. CASE WakeToWork(t)
    BY <1>8 DEF WakeToWork
  <1>9. CASE WakeToEnd(t)
    BY <1>9 DEF WakeToEnd
  <1>10. CASE SetDead(t)
    BY <1>10 DEF SetDead
  <1>11. CASE Redirect(t)
    BY <1>11 DEF Redirect
  <1>12. CASE TriggerTerminate(t)
    <2>1. tail' \in [Threads -> Nat]
      BY <1>12 DEF TriggerTerminate
    <2>2. dieEv' \in BOOLEAN
      BY <1>12 DEF TriggerTerminate
    <2> QED BY <1>12, <2>1, <2>2 DEF TriggerTerminate
  <1> QED
    BY <1>1, <1>2, <1>3, <1>4, <1>5, <1>6, <1>7, <1>8, <1>9, <1>10, <1>11,
       <1>12 DEF WorkerNext, WorkerStep

\* The part of TypeOK that ProcessRequestEvent may change.
RequestTypeOK ==
    /\ created \in 0 .. MaxThreads
    /\ list \subseteq 1 .. created
    /\ idle \in [Threads -> BOOLEAN]
    /\ dead \in [Threads -> BOOLEAN]
    /\ working \in [Threads -> BOOLEAN]
    /\ critical \in [Threads -> BOOLEAN]
    /\ procEv \in [Threads -> BOOLEAN]
    /\ pc \in [Threads -> {"none", "start", "next", "job", "retrig",
                           "nojob", "idling", "wait", "dying"}]
    /\ failures \in 0 .. MaxFailures

LEMMA RequestType ==
  ASSUME TypeOK, ProcessRequestEvent PROVE RequestTypeOK'
  <1> USE PoolAssumption DEF TypeOK, RequestTypeOK
  <1>1. ASSUME NEW t \in list, WakeThread(t) PROVE RequestTypeOK'
    <2>1. idle' \in [Threads -> BOOLEAN] /\ procEv' \in [Threads -> BOOLEAN]
      BY <1>1 DEF WakeThread
    <2> QED BY <1>1, <2>1 DEF WakeThread
  <1>2. ASSUME NEW t \in list, RestartThread(t) PROVE RequestTypeOK'
    <2>1. failures' \in 0 .. MaxFailures
      BY <1>2 DEF RestartThread
    <2>2. idle' \in [Threads -> BOOLEAN] /\ dead' \in [Threads -> BOOLEAN]
      BY <1>2 DEF RestartThread
    <2>3. pc' \in [Threads -> {"none", "start", "next", "job", "retrig",
                              "nojob", "idling", "wait", "dying"}]
      BY <1>2 DEF RestartThread
    <2> QED BY <1>2, <2>1, <2>2, <2>3 DEF RestartThread
  <1>3. CASE CreateThread
    <2>1. created' \in 0 .. MaxThreads /\ list' \subseteq 1 .. created'
      BY <1>3 DEF CreateThread, Threads
    <2>2. /\ working' \in [Threads -> BOOLEAN]
          /\ critical' \in [Threads -> BOOLEAN]
      BY <1>3 DEF CreateThread
    <2>3. idle' \in [Threads -> BOOLEAN] /\ dead' \in [Threads -> BOOLEAN]
      BY <1>3 DEF CreateThread
    <2>4. pc' \in [Threads -> {"none", "start", "next", "job", "retrig",
                              "nojob", "idling", "wait", "dying"}]
      BY <1>3 DEF CreateThread
    <2>5. failures' \in 0 .. MaxFailures
      BY <1>3 DEF CreateThread
    <2> QED BY <1>3, <2>1, <2>2, <2>3, <2>4, <2>5 DEF CreateThread
  <1>4. CASE AllBusy
    BY <1>4 DEF AllBusy, flags
  <1> QED BY <1>1, <1>2, <1>3, <1>4 DEF ProcessRequestEvent

LEMMA TypeManager == ASSUME TypeOK, MgrNext PROVE TypeOK'
  <1>1. CASE MgrRequest
    <2>1. RequestTypeOK' BY <1>1, RequestType DEF MgrRequest
    <2> QED BY <1>1, <2>1 DEF MgrRequest, TypeOK, RequestTypeOK, requests, walk
  <1>2. CASE MgrIdle
    BY <1>2 DEF MgrIdle, TypeOK, requests, walk
  <1>3. CASE MgrIdleRequest
    <2>1. RequestTypeOK'
      <3>1. CASE ProcessRequestEvent BY <3>1, RequestType
      <3>2. CASE UNCHANGED <<list, created, flags, procEv, pc, failures>>
        BY <3>2 DEF TypeOK, RequestTypeOK, flags
      <3> QED BY <1>3, <3>1, <3>2 DEF MgrIdleRequest
    <2> QED BY <1>3, <2>1 DEF MgrIdleRequest, TypeOK, RequestTypeOK, requests, events,
       walk
  <1>4. CASE MgrIdleReap
    BY <1>4 DEF MgrIdleReap, TypeOK, requests, events, flags, walk
  <1>5. CASE MgrDie
    BY <1>5 DEF MgrDie, TypeOK, requests, flags, walk
  <1>6. CASE MgrDieReap
    <2>1. list' \subseteq list BY <1>6 DEF MgrDieReap
    <2>2. ackEv' \in BOOLEAN /\ mgr' \in {"wait", "quit"}
      BY <1>6 DEF MgrDieReap, TypeOK
    <2> QED BY <1>6, <2>1, <2>2 DEF MgrDieReap, TypeOK, requests, flags, walk
  <1>7. CASE MgrShutdown
    <2>1. scan' \subseteq Threads BY <1>7, ListThreads DEF MgrShutdown
    <2> QED BY <1>7, <2>1 DEF MgrShutdown, TypeOK, requests, flags
  <1>8. CASE ShutdownVisit
    <2>1. list' \subseteq list BY <1>8 DEF ShutdownVisit
    <2>2. scan' \subseteq Threads
      BY <1>8, <2>1, ListThreads DEF ShutdownVisit, TypeOK
    <2>3. termEv' \in [Threads -> BOOLEAN] /\ boolThreadsActive' \in BOOLEAN
      BY <1>8 DEF ShutdownVisit, TypeOK
    <2> QED BY <1>8, <2>1, <2>2, <2>3 DEF ShutdownVisit, TypeOK, requests, flags, events
  <1>9. CASE ShutdownEnd
    <2>1. ackEv' \in BOOLEAN /\ mgr' \in {"wait", "quit"}
      BY <1>9 DEF ShutdownEnd, TypeOK
    <2> QED BY <1>9, <2>1 DEF ShutdownEnd, TypeOK, requests, flags, walk
  <1> QED BY <1>1, <1>2, <1>3, <1>4, <1>5, <1>6, <1>7, <1>8, <1>9 DEF MgrNext

LEMMA NextCases ==
  Next <=> MainNext \/ MgrNext \/ \E t \in Threads : WorkerNext(t)
  BY DEF Next, MainNext, WorkerNext

LEMMA TypeStep == ASSUME TypeOK, [Next]_vars PROVE TypeOK'
  <1>1. CASE UNCHANGED vars
    BY <1>1 DEF vars, TypeOK, flags, requests, events, walk
  <1> QED BY <1>1, TypeMain, TypeManager, TypeWorker, NextCases

-----------------------------------------------------------------------------
(* The bound on the pool. *)

LEMMA ListFinite ==
  ASSUME TypeOK PROVE IsFiniteSet(list) /\ Cardinality(list) \in Nat
  <1>1. IsFiniteSet(1 .. created) BY FS_Interval DEF TypeOK
  <1>2. IsFiniteSet(list) BY <1>1, FS_Subset DEF TypeOK
  <1> QED BY <1>2, FS_CardinalityType

LEMMA BoundRequest ==
  ASSUME TypeOK, PoolBound, ProcessRequestEvent PROVE PoolBound'
  <1>1. CASE CreateThread
    <2> DEFINE t == created + 1
    <2>1. list' = list \cup {t} /\ Cardinality(list) < MaxConnections
      BY <1>1 DEF CreateThread, MayGrow
    <2>2. Cardinality(list') <= Cardinality(list) + 1
      BY <2>1, ListFinite, FS_AddElement
    <2>3. IsFiniteSet(list') BY <2>1, ListFinite, FS_AddElement
    <2>4. Cardinality(list') \in Nat BY <2>3, FS_CardinalityType
    <2> QED BY <2>1, <2>2, <2>4, ListFinite, PoolAssumption DEF PoolBound
  <1>2. CASE list' = list
    BY <1>2 DEF PoolBound
  <1> QED
    BY <1>1, <1>2 DEF ProcessRequestEvent, WakeThread, RestartThread, AllBusy

LEMMA BoundShrink ==
  ASSUME TypeOK, PoolBound, list' \subseteq list PROVE PoolBound'
  <1>1. IsFiniteSet(list') /\ Cardinality(list') <= Cardinality(list)
    BY ListFinite, FS_Subset
  <1>2. Cardinality(list') \in Nat BY <1>1, FS_CardinalityType
  <1> QED BY <1>1, <1>2, ListFinite, PoolAssumption DEF PoolBound

LEMMA BoundStep == ASSUME TypeOK, PoolBound, [Next]_vars PROVE PoolBound'
  <1>1. CASE MgrRequest BY <1>1, BoundRequest DEF MgrRequest
  <1>2. CASE MgrIdleRequest
    BY <1>2, BoundRequest, BoundShrink DEF MgrIdleRequest
  <1>3. CASE MgrDieReap \/ ShutdownVisit
    BY <1>3, BoundShrink DEF MgrDieReap, ShutdownVisit
  <1>4. CASE MgrDie \/ MgrShutdown \/ ShutdownEnd
    BY <1>4, BoundShrink DEF MgrDie, MgrShutdown, ShutdownEnd
  <1>5. CASE MgrIdle \/ MgrIdleReap
    BY <1>5, BoundShrink DEF MgrIdle, MgrIdleReap
  <1>6. CASE MainNext
    BY <1>6, BoundShrink DEF MainNext, Submit, SubmitTrigger,
       CloseAllConnections, TermShutdown, TermDone, manager
  <1>7. ASSUME NEW t \in Threads, WorkerNext(t) PROVE PoolBound'
    BY <1>7, BoundShrink DEF WorkerNext, WorkerStep, SetWorking, TakeJob, NoJob,
       FinishJob, Redirect, RedirectTrigger, SetIdleFlag, TriggerIdle,
       WakeToWork, WakeToEnd, SetDead, TriggerTerminate, manager
  <1>8. CASE UNCHANGED vars
    BY <1>8, BoundShrink DEF vars
  <1> QED BY <1>1, <1>2, <1>3, <1>4, <1>5, <1>6, <1>7, <1>8, NextCases DEF MgrNext

-----------------------------------------------------------------------------
(* Objects and the OS threads on them. *)

\* What ObjectsInv reads.
objectVars == <<list, created, dead, working, pc, tail, termEv>>

LEMMA ObjectsFrame ==
  ASSUME ObjectsInv, UNCHANGED objectVars PROVE ObjectsInv'
  BY DEF ObjectsInv, objectVars

LEMMA ObjectsRequest ==
  ASSUME TypeOK, ObjectsInv, ProcessRequestEvent, UNCHANGED <<tail, termEv>>
  PROVE  ObjectsInv'
  <1> USE DEF ObjectsInv, TypeOK
  <1>1. ASSUME NEW t \in list, WakeThread(t) PROVE ObjectsInv'
    BY <1>1 DEF WakeThread
  <1>2. ASSUME NEW t \in list, RestartThread(t) PROVE ObjectsInv'
    <2>1. pc[t] = "none" BY <1>2, ListThreads DEF RestartThread
    <2> QED BY <1>2, <2>1, ListThreads DEF RestartThread
  <1>3. CASE CreateThread
    <2> DEFINE t == created + 1
    <2>1. t \in Threads /\ t \notin list /\ created' = t /\ list' = list \cup {t}
      BY <1>3 DEF CreateThread, Threads
    <2>2. pc[t] = "none" BY <2>1
    <2>3. \A u \in Threads \ {t} :
             /\ pc'[u] = pc[u] /\ dead'[u] = dead[u] /\ working'[u] = working[u]
             /\ u \in list' <=> u \in list
      BY <1>3, <2>1 DEF CreateThread
    <2>4. (pc'[t] = "start" /\ dead'[t] = FALSE) \/ (pc'[t] = "none" /\ dead'[t] = TRUE)
      BY <1>3, <2>1, <2>2 DEF CreateThread
    <2>5. \A u \in Threads : u > created' => u > created BY <2>1, PoolAssumption DEF Threads
    <2> QED BY <2>1, <2>2, <2>3, <2>4, <2>5
  <1>4. CASE AllBusy
    BY <1>4 DEF AllBusy, flags
  <1> QED BY <1>1, <1>2, <1>3, <1>4 DEF ProcessRequestEvent

LEMMA ObjectsManager == ASSUME TypeOK, ObjectsInv, WalkInv, MgrNext PROVE ObjectsInv'
  <1>1. CASE MgrRequest
    BY <1>1, ObjectsRequest DEF MgrRequest
  <1>2. CASE MgrIdle
    BY <1>2, ObjectsFrame DEF MgrIdle, objectVars
  <1>3. CASE MgrIdleRequest
    <2>1. CASE ProcessRequestEvent
      BY <1>3, <2>1, ObjectsRequest DEF MgrIdleRequest
    <2>2. CASE UNCHANGED <<list, created, flags, procEv, pc, failures>>
      BY <1>3, <2>2, ObjectsFrame DEF MgrIdleRequest, objectVars, flags
    <2> QED BY <1>3, <2>1, <2>2 DEF MgrIdleRequest
  <1>4. CASE MgrIdleReap
    <2>1. \A t \in Threads : t > created => termEv'[t] = termEv[t]
      BY <1>4, ListThreads DEF MgrIdleReap, Reapable, TypeOK
    <2> QED BY <1>4, <2>1 DEF MgrIdleReap, ObjectsInv, flags
  <1>5. CASE MgrDie \/ MgrShutdown \/ ShutdownEnd
    BY <1>5, ObjectsFrame DEF MgrDie, MgrShutdown, ShutdownEnd, objectVars, flags
  <1>6. CASE MgrDieReap
    <2>1. \A t \in Threads : t \in list /\ ~dead[t] => t \in list'
      BY <1>6 DEF MgrDieReap
    <2>2. list' \subseteq list BY <1>6 DEF MgrDieReap
    <2> QED BY <1>6, <2>1, <2>2 DEF MgrDieReap, ObjectsInv, flags
  <1>7. CASE ShutdownVisit
    <2>1. \A t \in Threads : t \in list /\ ~dead[t] => t \in list'
      BY <1>7 DEF ShutdownVisit
    <2>2. list' \subseteq list BY <1>7 DEF ShutdownVisit
    <2>3. \A t \in Threads : t > created => termEv'[t] = termEv[t]
      BY <1>7, ListThreads DEF ShutdownVisit, WalkInv, TypeOK
    <2> QED BY <1>7, <2>1, <2>2, <2>3 DEF ShutdownVisit, ObjectsInv, flags
  <1> QED BY <1>1, <1>2, <1>3, <1>4, <1>5, <1>6, <1>7 DEF MgrNext

LEMMA ObjectsWorker ==
  ASSUME TypeOK, ObjectsInv, NEW t \in Threads, WorkerNext(t) PROVE ObjectsInv'
  <1> USE DEF ObjectsInv, TypeOK, manager, flags
  <1>1. CASE SetWorking(t) BY <1>1 DEF SetWorking
  <1>2. CASE TakeJob(t) BY <1>2 DEF TakeJob
  <1>3. CASE NoJob(t) BY <1>3 DEF NoJob
  <1>4. CASE FinishJob(t) BY <1>4 DEF FinishJob
  <1>5. CASE Redirect(t) BY <1>5 DEF Redirect
  <1>6. CASE RedirectTrigger(t) BY <1>6 DEF RedirectTrigger
  <1>7. CASE SetIdleFlag(t) BY <1>7 DEF SetIdleFlag
  <1>8. CASE TriggerIdle(t) BY <1>8 DEF TriggerIdle
  <1>9. CASE WakeToWork(t) BY <1>9 DEF WakeToWork
  <1>10. CASE WakeToEnd(t) BY <1>10 DEF WakeToEnd
  <1>11. CASE SetDead(t)
    <2>1. t \in list /\ t <= created BY <1>11, ListThreads DEF SetDead
    <2> QED BY <1>11, <2>1, ListThreads DEF SetDead
  <1>12. CASE TriggerTerminate(t) BY <1>12 DEF TriggerTerminate
  <1> QED
    BY <1>1, <1>2, <1>3, <1>4, <1>5, <1>6, <1>7, <1>8, <1>9, <1>10, <1>11,
       <1>12 DEF WorkerNext, WorkerStep

LEMMA ObjectsStep ==
  ASSUME TypeOK, ObjectsInv, WalkInv, [Next]_vars PROVE ObjectsInv'
  <1>1. CASE MainNext
    BY <1>1, ObjectsFrame DEF MainNext, Submit, SubmitTrigger, CloseAllConnections,
       TermShutdown, TermDone, manager, flags, objectVars
  <1>2. CASE UNCHANGED vars
    BY <1>2, ObjectsFrame DEF vars, flags, objectVars
  <1> QED BY <1>1, <1>2, ObjectsManager, ObjectsWorker, NextCases

-----------------------------------------------------------------------------
(* Critical threads, and objects that outlive their OS threads. *)

criticalVars == <<list, critical, boolShutdown, pc, tail, termEv>>

LEMMA CriticalFrame ==
  ASSUME CriticalKept, ObjectsOutliveThreads, UNCHANGED criticalVars
  PROVE  CriticalKept' /\ ObjectsOutliveThreads'
  BY DEF CriticalKept, ObjectsOutliveThreads, criticalVars

LEMMA CriticalRequest ==
  ASSUME TypeOK, ObjectsInv, CriticalKept, ObjectsOutliveThreads,
         ProcessRequestEvent, UNCHANGED <<tail, termEv, boolShutdown>>
  PROVE  CriticalKept' /\ ObjectsOutliveThreads'
  <1>1. ASSUME NEW t \in list, WakeThread(t)
        PROVE  CriticalKept' /\ ObjectsOutliveThreads'
    BY <1>1 DEF WakeThread, CriticalKept, ObjectsOutliveThreads
  <1>2. ASSUME NEW t \in list, RestartThread(t)
        PROVE  CriticalKept' /\ ObjectsOutliveThreads'
    <2>1. \A u \in Threads : pc'[u] = pc[u] \/ (pc'[u] = "start" /\ u = t)
      BY <1>2 DEF RestartThread, TypeOK
    <2>2. UNCHANGED <<list, critical>> BY <1>2 DEF RestartThread
    <2>3. CriticalKept' BY <2>1, <2>2, ListThreads DEF CriticalKept
    <2>4. ObjectsOutliveThreads' BY <2>1, <2>2 DEF ObjectsOutliveThreads
    <2> QED BY <2>3, <2>4
  <1>3. CASE CreateThread
    <2> DEFINE t == created + 1
    <2>1. /\ t \in Threads /\ list' = list \cup {t}
          /\ \A u \in Threads \ {t} : pc'[u] = pc[u] /\ critical'[u] = critical[u]
      BY <1>3 DEF CreateThread, TypeOK
    <2>2. t > created BY ListThreads
    <2>3. tail[t] = 0 /\ ~termEv[t] BY <2>1, <2>2 DEF ObjectsInv
    <2>4. t \notin list BY <2>1, <2>2, ListThreads
    <2>5. pc[t] = "none" BY <2>1, <2>4 DEF ObjectsInv
    <2>6. pc'[t] \in {"start", "none"}
      BY <1>3, <2>1, <2>5 DEF CreateThread, TypeOK
    <2>7. CriticalKept'
      BY <2>1, <2>3, <2>4, <2>6, ListThreads DEF CriticalKept
    <2>8. ObjectsOutliveThreads'
      BY <2>1, <2>3 DEF ObjectsOutliveThreads
    <2> QED BY <2>7, <2>8
  <1>4. CASE AllBusy
    BY <1>4 DEF AllBusy, flags, CriticalKept, ObjectsOutliveThreads
  <1> QED BY <1>1, <1>2, <1>3, <1>4 DEF ProcessRequestEvent

LEMMA CriticalManager ==
  ASSUME TypeOK, ObjectsInv, WalkInv, CriticalKept, ObjectsOutliveThreads, MgrNext
  PROVE  CriticalKept' /\ ObjectsOutliveThreads'
  <1>1. CASE MgrRequest
    BY <1>1, CriticalRequest DEF MgrRequest
  <1>2. CASE MgrIdle
    BY <1>2, CriticalFrame DEF MgrIdle, criticalVars
  <1>3. CASE MgrIdleRequest
    <2>1. CASE ProcessRequestEvent
      BY <1>3, <2>1, CriticalRequest DEF MgrIdleRequest
    <2>2. CASE UNCHANGED <<list, created, flags, procEv, pc, failures>>
      BY <1>3, <2>2, CriticalFrame DEF MgrIdleRequest, criticalVars, flags
    <2> QED BY <1>3, <2>1, <2>2 DEF MgrIdleRequest
  <1>4. CASE MgrIdleReap
    <2>1. \A t \in list : critical[t] => termEv'[t] = termEv[t]
      BY <1>4, ListThreads DEF MgrIdleReap, Reapable, TypeOK
    <2> QED BY <1>4, <2>1 DEF MgrIdleReap, CriticalKept, ObjectsOutliveThreads, flags
  <1>5. CASE MgrDie \/ ShutdownEnd
    BY <1>5, CriticalFrame DEF MgrDie, ShutdownEnd, criticalVars, flags
  <1>6. CASE MgrShutdown
    BY <1>6 DEF MgrShutdown, CriticalKept, ObjectsOutliveThreads
  <1>7. CASE MgrDieReap \/ ShutdownVisit
    <2>1. boolShutdown' BY <1>7 DEF WalkInv, MgrDieReap, ShutdownVisit
    <2> QED BY <2>1 DEF CriticalKept, ObjectsOutliveThreads
  <1> QED BY <1>1, <1>2, <1>3, <1>4, <1>5, <1>6, <1>7 DEF MgrNext

LEMMA CriticalWorker ==
  ASSUME TypeOK, ObjectsInv, CriticalKept, ObjectsOutliveThreads,
         NEW t \in Threads, WorkerNext(t)
  PROVE  CriticalKept' /\ ObjectsOutliveThreads'
  <1> USE ListThreads DEF CriticalKept, ObjectsOutliveThreads, TypeOK, manager, flags
  <1>1. CASE SetWorking(t) BY <1>1 DEF SetWorking
  <1>2. CASE TakeJob(t) BY <1>2 DEF TakeJob
  <1>3. CASE NoJob(t) BY <1>3 DEF NoJob
  <1>4. CASE FinishJob(t) BY <1>4 DEF FinishJob
  <1>5. CASE Redirect(t) BY <1>5 DEF Redirect
  <1>6. CASE RedirectTrigger(t) BY <1>6 DEF RedirectTrigger
  <1>7. CASE SetIdleFlag(t) BY <1>7 DEF SetIdleFlag
  <1>8. CASE TriggerIdle(t) BY <1>8 DEF TriggerIdle
  <1>9. CASE WakeToWork(t) BY <1>9 DEF WakeToWork
  <1>10. CASE WakeToEnd(t) BY <1>10 DEF WakeToEnd
  <1>11. CASE SetDead(t)
    <2>1. t \in list BY <1>11 DEF SetDead, ObjectsInv
    <2>2. \A u \in Threads \ {t} : tail'[u] = tail[u] /\ pc'[u] = pc[u]
      BY <1>11 DEF SetDead
    <2> QED BY <1>11, <2>1, <2>2 DEF SetDead
  <1>12. CASE TriggerTerminate(t)
    <2>1. \A u \in Threads : tail'[u] = tail[u] \/ (u = t /\ tail[u] > 0)
      BY <1>12 DEF TriggerTerminate
    <2> QED BY <1>12, <2>1 DEF TriggerTerminate
  <1> QED
    BY <1>1, <1>2, <1>3, <1>4, <1>5, <1>6, <1>7, <1>8, <1>9, <1>10, <1>11,
       <1>12 DEF WorkerNext, WorkerStep

LEMMA CriticalStep ==
  ASSUME TypeOK, ObjectsInv, WalkInv, CriticalKept, ObjectsOutliveThreads,
         [Next]_vars
  PROVE  CriticalKept' /\ ObjectsOutliveThreads'
  <1>1. CASE MainNext
    BY <1>1, CriticalFrame DEF MainNext, Submit, SubmitTrigger, CloseAllConnections,
       TermShutdown, TermDone, manager, flags, criticalVars
  <1>2. CASE UNCHANGED vars
    BY <1>2, CriticalFrame DEF vars, flags, criticalVars
  <1> QED BY <1>1, <1>2, CriticalManager, CriticalWorker, NextCases

-----------------------------------------------------------------------------
(* Before shutdown: the list only grows and thread 1 stays. *)

beforeVars == <<list, created, dead, critical, boolShutdown, failures>>

LEMMA BeforeFrame ==
  ASSUME BeforeShutdown, UNCHANGED beforeVars PROVE BeforeShutdown'
  BY DEF BeforeShutdown, beforeVars

LEMMA BeforeRequest ==
  ASSUME TypeOK, BeforeShutdown, ProcessRequestEvent, UNCHANGED boolShutdown
  PROVE  BeforeShutdown'
  <1>1. ASSUME NEW t \in list, WakeThread(t) PROVE BeforeShutdown'
    BY <1>1 DEF WakeThread, BeforeShutdown
  <1>2. ASSUME NEW t \in list, RestartThread(t) PROVE BeforeShutdown'
    <2>1. UNCHANGED <<list, created, critical>> BY <1>2 DEF RestartThread
    <2>2. failures' = 0 => failures = 0 /\ \A u \in Threads : dead'[u] => dead[u]
      BY <1>2, PoolAssumption DEF RestartThread, TypeOK
    <2>3. created > 0 => 1 \in Threads BY PoolAssumption DEF TypeOK, Threads
    <2> QED BY <2>1, <2>2, <2>3 DEF BeforeShutdown
  <1>3. CASE CreateThread
    <2> DEFINE t == created + 1
    <2>1. /\ t \in Threads /\ created' = t /\ list' = list \cup {t}
          /\ Cardinality(list) < 2 => critical'[t] = TRUE
      BY <1>3 DEF CreateThread, TypeOK, maxIdle
    <2>1a. \A u \in Threads \ {t} : dead'[u] = dead[u] /\ critical'[u] = critical[u]
      BY <1>3 DEF CreateThread, TypeOK
    <2>1b. \/ dead'[t] = FALSE /\ failures' = failures
           \/ failures' = failures + 1
      BY <1>3 DEF CreateThread, TypeOK
    <2> SUFFICES ASSUME ~boolShutdown PROVE BeforeShutdown'
      BY DEF BeforeShutdown
    <2>2. list = 1 .. created BY DEF BeforeShutdown
    <2>3. list' = 1 .. created' BY <2>1, <2>2, ListThreads
    <2>4. critical'[1]
      <3>1. CASE created = 0
        <4>1. list = {} BY <2>2, <3>1
        <4>2. Cardinality(list) = 0 BY <4>1, FS_EmptySet
        <4> QED BY <2>1, <3>1, <4>2
      <3>2. CASE created > 0
        <4>1. 1 \in Threads \ {t} BY <2>1, <2>2, <3>2, ListThreads
        <4> QED BY <2>1a, <3>2, <4>1 DEF BeforeShutdown
      <3> QED BY <3>1, <3>2, ListThreads
    <2>5. failures' = 0 => ~dead'[1]
      <3> SUFFICES ASSUME failures' = 0 PROVE ~dead'[1] OBVIOUS
      <3>1. failures = 0 /\ ~dead'[t] BY <2>1b, PoolAssumption DEF TypeOK
      <3>2. CASE created = 0 BY <3>1, <3>2
      <3>3. CASE created > 0
        <4>1. 1 \in Threads \ {t} BY <2>1, <2>2, <3>3, ListThreads
        <4> QED BY <2>1a, <3>1, <3>3, <4>1 DEF BeforeShutdown
      <3> QED BY <3>2, <3>3, ListThreads
    <2> QED BY <2>3, <2>4, <2>5 DEF BeforeShutdown
  <1>4. CASE AllBusy
    BY <1>4 DEF AllBusy, flags, BeforeShutdown
  <1> QED BY <1>1, <1>2, <1>3, <1>4 DEF ProcessRequestEvent

LEMMA BeforeStep ==
  ASSUME TypeOK, ObjectsInv, WalkInv, CriticalKept, BeforeShutdown, [Next]_vars
  PROVE  BeforeShutdown'
  <1>1. CASE MgrRequest
    BY <1>1, BeforeRequest DEF MgrRequest
  <1>2. CASE MgrIdleRequest
    <2>1. CASE ProcessRequestEvent
      BY <1>2, <2>1, BeforeRequest DEF MgrIdleRequest
    <2>2. CASE UNCHANGED <<list, created, flags, procEv, pc, failures>>
      BY <1>2, <2>2, BeforeFrame DEF MgrIdleRequest, beforeVars, flags
    <2> QED BY <1>2, <2>1, <2>2 DEF MgrIdleRequest
  <1>3. CASE MgrIdle \/ MgrIdleReap
    BY <1>3, BeforeFrame DEF MgrIdle, MgrIdleReap, beforeVars, flags
  <1>4. CASE MgrDie \/ ShutdownEnd
    BY <1>4, BeforeFrame DEF MgrDie, ShutdownEnd, beforeVars, flags
  <1>5. CASE MgrShutdown \/ MgrDieReap \/ ShutdownVisit
    <2>1. boolShutdown' BY <1>5 DEF WalkInv, MgrShutdown, MgrDieReap, ShutdownVisit
    <2> QED BY <2>1 DEF BeforeShutdown
  <1>6. CASE MainNext
    BY <1>6, BeforeFrame DEF MainNext, Submit, SubmitTrigger, CloseAllConnections,
       TermShutdown, TermDone, manager, flags, beforeVars
  <1>7. ASSUME NEW t \in Threads, WorkerNext(t) PROVE BeforeShutdown'
    <2>1. CASE SetDead(t)
      <3>1. boolShutdown \/ ~critical[t]
        BY <2>1 DEF SetDead, ObjectsInv, CriticalKept
      <3>2. \A u \in Threads \ {t} : dead'[u] = dead[u]
        BY <2>1 DEF SetDead, TypeOK
      <3>3. created > 0 => 1 \in Threads
        BY PoolAssumption DEF TypeOK, Threads
      <3> QED BY <2>1, <3>1, <3>2, <3>3 DEF SetDead, BeforeShutdown, manager
    <2>2. CASE ~SetDead(t)
      BY <1>7, <2>2, BeforeFrame DEF WorkerNext, WorkerStep, SetWorking, TakeJob,
         NoJob, FinishJob, Redirect, RedirectTrigger, SetIdleFlag, TriggerIdle,
         WakeToWork, WakeToEnd, TriggerTerminate, manager, flags, beforeVars
    <2> QED BY <2>1, <2>2
  <1>8. CASE UNCHANGED vars
    BY <1>8, BeforeFrame DEF vars, flags, beforeVars
  <1> QED BY <1>1, <1>2, <1>3, <1>4, <1>5, <1>6, <1>7, <1>8, NextCases DEF MgrNext

-----------------------------------------------------------------------------
(* No lost wake-up. *)

\* What the two remaining conjuncts assume and preserve.
OwedInv == FirstThreadInv /\ OwedToFirst

LEMMA FirstExists ==
  ASSUME TypeOK, BeforeShutdown, ~boolShutdown, created > 0
  PROVE  1 \in list /\ 1 \in Threads
  BY PoolAssumption DEF TypeOK, BeforeShutdown, Threads

\* A request event that is handled ends up with thread 1: it is woken, it is
\* created, or it was not idle and therefore looks again of its own accord.
LEMMA RequestReachesFirst ==
  ASSUME TypeOK, BeforeShutdown, FirstThreadInv, ProcessRequestEvent,
         ~boolShutdown, failures' = 0
  PROVE  /\ failures = 0
         /\ created' > 0
         /\ Looking(1)' \/ idleEv
  <1>1. ASSUME created > 0, ~idle[1], failures = 0, UNCHANGED created,
               pc'[1] = pc[1], procEv'[1] = procEv[1]
        PROVE  created' > 0 /\ (Looking(1)' \/ idleEv)
    BY <1>1 DEF FirstThreadInv, Looking
  <1>2. ASSUME NEW t \in list, WakeThread(t)
        PROVE  failures = 0 /\ created' > 0 /\ (Looking(1)' \/ idleEv)
    <2>1. failures = 0 /\ created > 0 /\ UNCHANGED created
      BY <1>2, ListThreads DEF WakeThread
    <2>2. CASE t = 1
      <3>1. procEv'[1] BY <1>2, <2>1, <2>2, FirstExists DEF WakeThread, TypeOK
      <3> QED BY <2>1, <3>1 DEF Looking
    <2>3. CASE t # 1
      <3>1. ~idle[1]
        BY <1>2, <2>1, <2>3, FirstExists, ListThreads DEF WakeThread, IsFirstIdle, Idles
      <3>2. pc'[1] = pc[1] /\ procEv'[1] = procEv[1]
        BY <1>2, <2>1, <2>3, FirstExists DEF WakeThread, TypeOK
      <3> QED BY <1>1, <2>1, <3>1, <3>2
    <2> QED BY <2>2, <2>3
  <1>3. ASSUME NEW t \in list, RestartThread(t)
        PROVE  failures = 0 /\ created' > 0 /\ (Looking(1)' \/ idleEv)
    <2>1. failures = 0 /\ created > 0 /\ UNCHANGED <<created, procEv>>
      BY <1>3, ListThreads, PoolAssumption DEF RestartThread, TypeOK
    <2>2. t # 1 BY <1>3, <2>1 DEF RestartThread, BeforeShutdown
    <2>3. ~idle[1]
      BY <1>3, <2>1, <2>2, FirstExists, ListThreads DEF RestartThread, IsFirstIdle, Idles
    <2>4. pc'[1] = pc[1]
      BY <1>3, <2>1, <2>2, FirstExists DEF RestartThread, TypeOK
    <2> QED BY <1>1, <2>1, <2>3, <2>4
  <1>4. CASE CreateThread
    <2> DEFINE t == created + 1
    <2>1. t \in Threads /\ created' = t /\ Idles = {} /\ UNCHANGED procEv
      BY <1>4 DEF CreateThread
    <2>2. failures = 0 /\ pc' = [pc EXCEPT ![t] = "start"]
      BY <1>4, PoolAssumption DEF CreateThread, TypeOK
    <2>3. CASE created = 0
      <3>1. pc'[1] = "start" BY <2>1, <2>2, <2>3 DEF TypeOK
      <3> QED BY <2>1, <2>2, <2>3, <3>1 DEF Looking
    <2>4. CASE created > 0
      <3>1. ~idle[1] BY <2>1, <2>4, FirstExists DEF Idles
      <3>2. pc'[1] = pc[1] BY <2>1, <2>2, <2>4, FirstExists, ListThreads DEF TypeOK
      <3> QED BY <2>1, <2>2, <2>4, <3>1, <3>2, ListThreads DEF FirstThreadInv, Looking
    <2> QED BY <2>3, <2>4, ListThreads, <2>2
  <1>5. CASE AllBusy
    <2>1. failures = 0 /\ Idles = {} /\ UNCHANGED <<created, pc, procEv>>
      BY <1>5 DEF AllBusy
    <2>2. created > 0
      <3> SUFFICES ASSUME created = 0 PROVE FALSE BY ListThreads
      <3>1. list = {} BY DEF TypeOK
      <3>2. Cardinality(list) = 0 BY <3>1, FS_EmptySet
      <3> QED BY <1>5, <3>2, PoolAssumption DEF AllBusy, MayGrow
    <2>3. ~idle[1] BY <2>1, <2>2, FirstExists DEF Idles
    <2> QED BY <1>1, <2>1, <2>2, <2>3
  <1> QED BY <1>2, <1>3, <1>4, <1>5 DEF ProcessRequestEvent

LEMMA OwedRequest ==
  ASSUME TypeOK, BeforeShutdown, OwedInv, ProcessRequestEvent,
         UNCHANGED <<boolShutdown, idleEv>>
  PROVE  OwedInv'
  <1>1. ~boolShutdown /\ failures' = 0 => created' > 0 /\ (Looking(1)' \/ idleEv')
    BY RequestReachesFirst DEF OwedInv
  <1>2. FirstThreadInv' BY <1>1 DEF FirstThreadInv
  <1>3. OwedToFirst' BY <1>1 DEF OwedToFirst, Announced
  <1> QED BY <1>2, <1>3 DEF OwedInv

LEMMA OwedManager ==
  ASSUME TypeOK, ObjectsInv, WalkInv, BeforeShutdown, OwedInv, MgrNext
  PROVE  OwedInv'
  <1>1. CASE MgrRequest
    BY <1>1, OwedRequest DEF MgrRequest
  <1>2. CASE MgrIdle
    <2>1. OwedToFirst'
      BY <1>2 DEF MgrIdle, OwedToFirst, Announced
    <2>2. FirstThreadInv'
      <3> SUFFICES ASSUME ~boolShutdown, failures = 0, created > 0, ~idle'[1]
                   PROVE  Looking(1)'
        BY <1>2 DEF MgrIdle, FirstThreadInv
      <3>1. 1 \in list /\ 1 \in Threads BY FirstExists
      <3>2. working[1] BY <1>2, <3>1 DEF MgrIdle, TypeOK
      <3>3. pc[1] # "none" BY <3>1 DEF ObjectsInv, BeforeShutdown
      <3>4. pc[1] \in {"start", "next", "job", "retrig", "nojob"}
        BY <3>1, <3>2, <3>3 DEF ObjectsInv, TypeOK
      <3> QED BY <1>2, <3>4 DEF MgrIdle, Looking
    <2> QED BY <2>1, <2>2 DEF OwedInv
  <1>3. CASE MgrIdleRequest
    <2>1. CASE ProcessRequestEvent
      BY <1>3, <2>1, OwedRequest DEF MgrIdleRequest, events
    <2>2. CASE ~HasPending /\ UNCHANGED <<list, created, flags, procEv, pc, failures>>
      BY <1>3, <2>2 DEF MgrIdleRequest, HasPending, events, flags, requests,
         OwedInv, FirstThreadInv, OwedToFirst, Looking
    <2> QED BY <1>3, <2>1, <2>2 DEF MgrIdleRequest
  <1>4. CASE MgrIdleReap
    BY <1>4 DEF MgrIdleReap, events, flags, requests, OwedInv, FirstThreadInv,
       OwedToFirst, Looking, Announced
  <1>5. CASE MgrDie \/ ShutdownEnd
    BY <1>5 DEF MgrDie, ShutdownEnd, flags, requests, OwedInv, FirstThreadInv,
       OwedToFirst, Looking, Announced
  <1>6. CASE MgrShutdown \/ MgrDieReap \/ ShutdownVisit
    <2>1. boolShutdown' BY <1>6 DEF WalkInv, MgrShutdown, MgrDieReap, ShutdownVisit
    <2> QED BY <2>1 DEF OwedInv, FirstThreadInv, OwedToFirst
  <1> QED BY <1>1, <1>2, <1>3, <1>4, <1>5, <1>6 DEF MgrNext

LEMMA OwedMain == ASSUME OwedInv, MainNext PROVE OwedInv'
  <1> USE DEF OwedInv, FirstThreadInv, OwedToFirst, Looking, Announced, manager, flags
  <1>1. CASE Submit BY <1>1 DEF Submit, events
  <1>2. CASE SubmitTrigger BY <1>2 DEF SubmitTrigger, requests
  <1>3. CASE CloseAllConnections BY <1>3 DEF CloseAllConnections, events
  <1>4. CASE TermShutdown BY <1>4 DEF TermShutdown, requests
  <1>5. CASE TermDone BY <1>5 DEF TermDone, requests
  <1> QED BY <1>1, <1>2, <1>3, <1>4, <1>5 DEF MainNext

\* A worker's step keeps thread 1 looking, or leaves an announcement.
LEMMA OwedWorker ==
  ASSUME TypeOK, ObjectsInv, CriticalKept, BeforeShutdown, OwedInv,
         NEW t \in Threads, WorkerNext(t)
  PROVE  OwedInv'
  <1> SUFFICES ASSUME ~boolShutdown, failures = 0 PROVE OwedInv'
    BY DEF WorkerNext, WorkerStep, SetWorking, TakeJob, NoJob, FinishJob,
       Redirect, RedirectTrigger, SetIdleFlag, TriggerIdle, WakeToWork,
       WakeToEnd, SetDead, TriggerTerminate, manager,
       OwedInv, FirstThreadInv, OwedToFirst
  <1>1. UNCHANGED <<created, boolShutdown, failures, idle, mgr, main>>
    BY DEF WorkerNext, WorkerStep, SetWorking, TakeJob, NoJob, FinishJob,
       Redirect, RedirectTrigger, SetIdleFlag, TriggerIdle, WakeToWork,
       WakeToEnd, SetDead, TriggerTerminate, manager, flags
  <1>2. (reqEv => reqEv') /\ (idleEv => idleEv')
    BY DEF WorkerNext, WorkerStep, SetWorking, TakeJob, NoJob, FinishJob,
       Redirect, RedirectTrigger, SetIdleFlag, TriggerIdle, WakeToWork,
       WakeToEnd, SetDead, TriggerTerminate, events
  <1>3. created > 0 /\ Looking(1) => Looking(1)' \/ idleEv'
    <2> SUFFICES ASSUME created > 0, Looking(1) PROVE Looking(1)' \/ idleEv'
      OBVIOUS
    <2>1. 1 \in list /\ 1 \in Threads /\ critical[1]
      BY FirstExists DEF BeforeShutdown
    <2>2. pc[1] # "dying" /\ ~termEv[1] BY <2>1 DEF CriticalKept
    <2>3. CASE t = 1
      <3>1. CASE WakeToEnd(t) \/ SetDead(t)
        BY <2>2, <2>3, <3>1 DEF WakeToEnd, SetDead
      <3>2. CASE TriggerTerminate(t)
        BY <3>2 DEF TriggerTerminate, Looking
      <3>3. CASE TriggerIdle(t)
        BY <3>3 DEF TriggerIdle
      <3>4. CASE \/ SetWorking(t) \/ TakeJob(t) \/ NoJob(t) \/ FinishJob(t)
                 \/ RedirectTrigger(t) \/ SetIdleFlag(t) \/ WakeToWork(t)
                 \/ Redirect(t)
        <4>1. pc'[1] \in {"start", "next", "job", "retrig", "nojob", "idling"}
          BY <2>1, <2>3, <3>4 DEF SetWorking, TakeJob, NoJob, FinishJob, Redirect,
             RedirectTrigger, SetIdleFlag, WakeToWork, TypeOK
        <4> QED BY <4>1 DEF Looking
      <3> QED BY <3>1, <3>2, <3>3, <3>4 DEF WorkerNext, WorkerStep
    <2>4. CASE t # 1
      <3>1. pc'[1] = pc[1] /\ procEv'[1] = procEv[1]
        BY <2>1, <2>4 DEF WorkerNext, WorkerStep, SetWorking, TakeJob, NoJob,
           FinishJob, Redirect, RedirectTrigger, SetIdleFlag, TriggerIdle,
           WakeToWork, WakeToEnd, SetDead, TriggerTerminate, TypeOK
      <3> QED BY <3>1 DEF Looking
    <2> QED BY <2>3, <2>4
  <1>4. FirstThreadInv'
    BY <1>1, <1>2, <1>3 DEF OwedInv, FirstThreadInv
  <1>5. OwedToFirst'
    <2>1. CASE RedirectTrigger(t)
      BY <2>1 DEF RedirectTrigger, OwedToFirst, Announced
    <2>2. CASE Redirect(t)
      <3>1. pc'[t] = "retrig" BY <2>2 DEF Redirect, TypeOK
      <3> QED BY <3>1 DEF OwedToFirst, Announced
    <2>3. CASE ~RedirectTrigger(t) /\ ~Redirect(t)
      <3>1. queue' \subseteq queue
        BY <2>3 DEF WorkerNext, WorkerStep, SetWorking, TakeJob, NoJob, FinishJob,
           SetIdleFlag, TriggerIdle, WakeToWork, WakeToEnd, SetDead,
           TriggerTerminate, requests
      <3>2. pc[t] # "retrig" \/ UNCHANGED pc
        BY <2>3 DEF WorkerNext, WorkerStep, SetWorking, TakeJob, NoJob, FinishJob,
           SetIdleFlag, TriggerIdle, WakeToWork, WakeToEnd, SetDead, TriggerTerminate
      <3>3. \A u \in Threads \ {t} : pc'[u] = pc[u]
        BY DEF WorkerNext, WorkerStep, SetWorking, TakeJob, NoJob, FinishJob,
           Redirect, RedirectTrigger, SetIdleFlag, TriggerIdle, WakeToWork,
           WakeToEnd, SetDead, TriggerTerminate, TypeOK
      <3>4. (\E u \in Threads : pc[u] = "retrig") => (\E u \in Threads : pc'[u] = "retrig")
        BY <3>2, <3>3
      <3> QED BY <1>1, <1>2, <1>3, <3>1, <3>4 DEF OwedInv, OwedToFirst, Announced
    <2> QED BY <2>1, <2>2, <2>3
  <1> QED BY <1>4, <1>5 DEF OwedInv

LEMMA OwedStep ==
  ASSUME TypeOK, ObjectsInv, WalkInv, CriticalKept, BeforeShutdown, OwedInv,
         [Next]_vars
  PROVE  OwedInv'
  <1>1. CASE UNCHANGED vars
    BY <1>1 DEF vars, flags, requests, events, OwedInv, FirstThreadInv,
       OwedToFirst, Looking, Announced
  <1> QED BY <1>1, OwedMain, OwedManager, OwedWorker, NextCases

-----------------------------------------------------------------------------
(* The walk of the shutdown. *)

LEMMA WalkStep == ASSUME TypeOK, WalkInv, [Next]_vars PROVE WalkInv'
  <1> USE DEF WalkInv
  <1>1. CASE MgrRequest \/ MgrIdle \/ MgrIdleRequest \/ MgrIdleReap
    <2>1. scan = {} /\ UNCHANGED <<scan, boolShutdown>>
      BY <1>1 DEF MgrRequest, MgrIdle, MgrIdleRequest, MgrIdleReap, walk
    <2>2. mgr' \notin {"die", "shutdown"}
      BY <1>1 DEF MgrRequest, MgrIdle, MgrIdleRequest, MgrIdleReap
    <2> QED BY <2>1, <2>2
  <1>2. CASE MgrDie BY <1>2 DEF MgrDie, walk
  <1>3. CASE MgrDieReap BY <1>3 DEF MgrDieReap, walk
  <1>4. CASE MgrShutdown BY <1>4 DEF MgrShutdown
  <1>5. CASE ShutdownVisit BY <1>5 DEF ShutdownVisit
  <1>6. CASE ShutdownEnd BY <1>6 DEF ShutdownEnd, walk
  <1>7. CASE MainNext
    BY <1>7 DEF MainNext, Submit, SubmitTrigger, CloseAllConnections, TermShutdown,
       TermDone, manager, walk
  <1>8. ASSUME NEW t \in Threads, WorkerNext(t) PROVE WalkInv'
    BY <1>8 DEF WorkerNext, WorkerStep, SetWorking, TakeJob, NoJob, FinishJob,
       Redirect, RedirectTrigger, SetIdleFlag, TriggerIdle, WakeToWork, WakeToEnd,
       SetDead, TriggerTerminate, manager, walk
  <1>9. CASE UNCHANGED vars BY <1>9 DEF vars, walk
  <1> QED BY <1>1, <1>2, <1>3, <1>4, <1>5, <1>6, <1>7, <1>8, <1>9, NextCases DEF MgrNext

-----------------------------------------------------------------------------
LEMMA PoolInvInit == Init => PoolInv
  <1> SUFFICES ASSUME Init PROVE PoolInv OBVIOUS
  <1>1. TypeOK
    <2>1. 0 \in 0 .. MaxThreads /\ 0 \in 0 .. MaxFailures BY PoolAssumption
    <2>2. /\ idle \in [Threads -> BOOLEAN] /\ dead \in [Threads -> BOOLEAN]
          /\ working \in [Threads -> BOOLEAN] /\ critical \in [Threads -> BOOLEAN]
          /\ procEv \in [Threads -> BOOLEAN] /\ termEv \in [Threads -> BOOLEAN]
      BY DEF Init
    <2>3. pc \in [Threads -> {"none", "start", "next", "job", "retrig",
                             "nojob", "idling", "wait", "dying"}]
      BY DEF Init
    <2>4. tail \in [Threads -> Nat] BY DEF Init
    <2> QED BY <2>1, <2>2, <2>3, <2>4 DEF Init, TypeOK
  <1>2. Cardinality(list) = 0 BY FS_EmptySet DEF Init
  <1>3. PoolBound BY <1>2, PoolAssumption DEF PoolBound
  <1>4. ObjectsInv BY DEF Init, ObjectsInv
  <1>5. CriticalKept /\ ObjectsOutliveThreads
    BY DEF Init, CriticalKept, ObjectsOutliveThreads
  <1>6. BeforeShutdown /\ WalkInv BY DEF Init, BeforeShutdown, WalkInv
  <1>7. FirstThreadInv /\ OwedToFirst BY DEF Init, FirstThreadInv, OwedToFirst
  <1> QED BY <1>1, <1>3, <1>4, <1>5, <1>6, <1>7 DEF PoolInv

\* PoolInv holds in every reachable state: the argument for all of the
\* safety properties of the pool.
THEOREM PoolInvariant == Spec => []PoolInv
  <1>1. Init => PoolInv BY PoolInvInit
  <1>2. PoolInv /\ [Next]_vars => PoolInv'
    <2> SUFFICES ASSUME PoolInv, [Next]_vars PROVE PoolInv' OBVIOUS
    <2> USE DEF PoolInv
    <2>1. TypeOK' BY TypeStep
    <2>2. PoolBound' BY BoundStep
    <2>3. ObjectsInv' /\ WalkInv' BY ObjectsStep, WalkStep
    <2>4. CriticalKept' /\ ObjectsOutliveThreads' BY CriticalStep
    <2>5. BeforeShutdown' BY BeforeStep
    <2>6. FirstThreadInv' /\ OwedToFirst' BY OwedStep DEF OwedInv
    <2> QED BY <2>1, <2>2, <2>3, <2>4, <2>5, <2>6
  <1> QED BY <1>1, <1>2, PTL DEF Spec

\* The variables of the pool keep their types (ChHttpThread, ChHttpThreadMgr).
THEOREM TypeCorrect == Spec => []TypeOK
  <1>1. PoolInv => TypeOK BY DEF PoolInv
  <1> QED BY <1>1, PoolInvariant, PTL

\* The pool never outgrows the connections the user allows
\* (ChHttpThreadMgr.cpp:154).
THEOREM PoolBounded == Spec => []PoolBound
  <1>1. PoolInv => PoolBound BY DEF PoolInv
  <1> QED BY <1>1, PoolInvariant, PTL

\* No OS thread is in its loop on an object that is marked dead or deleted, so
\* the manager never starts a second one there (ChThread.cpp:1140).
THEOREM OneThread == Spec => []OneThreadPerObject
  <1>1. PoolInv => OneThreadPerObject BY DEF PoolInv, ObjectsInv, OneThreadPerObject
  <1> QED BY <1>1, PoolInvariant, PTL

\* Critical threads live until shutdown (ChHttpThreadMgr.cpp:210).
THEOREM CriticalThreadsKept == Spec => []CriticalKept
  <1>1. PoolInv => CriticalKept BY DEF PoolInv
  <1> QED BY <1>1, PoolInvariant, PTL

\* Until shutdown no object is deleted under an OS thread that still uses it.
THEOREM ObjectsOutlive == Spec => []ObjectsOutliveThreads
  <1>1. PoolInv => ObjectsOutliveThreads BY DEF PoolInv
  <1> QED BY <1>1, PoolInvariant, PTL

\* No wake-up is lost: a queued request is always announced to the manager or
\* about to be looked for by a thread (ChHttpThreadMgr.cpp:111-219).
THEOREM NoLostWakeup == Spec => []RequestOwned
  <1>1. PoolInv => RequestOwned
    <2> SUFFICES ASSUME PoolInv, queue # {}, ~boolShutdown, failures = 0
                 PROVE  Announced \/ \E t \in list : Looking(t)
      BY DEF RequestOwned
    <2>1. Announced \/ (created > 0 /\ Looking(1)) BY DEF PoolInv, OwedToFirst
    <2>2. created > 0 => 1 \in list BY FirstExists DEF PoolInv
    <2> QED BY <2>1, <2>2
  <1> QED BY <1>1, PoolInvariant, PTL
=============================================================================
