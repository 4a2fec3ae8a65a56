-------------------------- MODULE HttpThreadPoolInv --------------------------
(* The inductive invariant behind the safety properties of HttpThreadPool.  *)
EXTENDS HttpThreadPool

\* An OS thread is in its loop exactly on the objects that are not dead.
ObjectsInv ==
    \A t \in Threads :
        /\ pc[t] # "none" => t \in list /\ ~dead[t]
        /\ t \in list /\ ~dead[t] => pc[t] # "none"
        /\ pc[t] \in {"idling", "wait", "dying"} => ~working[t]
        /\ t > created => tail[t] = 0 /\ ~termEv[t]

\* Objects are walked over and deleted at shutdown only, and what the walk has
\* still to visit has not been deleted.
WalkInv ==
    /\ mgr \in {"die", "shutdown"} => boolShutdown
    /\ mgr # "shutdown" => scan = {}
    /\ scan \subseteq list

\* Before shutdown nothing is deleted, and thread 1, the first object of the
\* list, is critical.
BeforeShutdown ==
    ~boolShutdown =>
        /\ list = 1 .. created
        /\ created > 0 => critical[1]
        /\ failures = 0 /\ created > 0 => ~dead[1]

\* Thread 1 carries the queue: while it is not marked idle it will look into
\* the queue, or an idle event that marks it is on its way.
FirstThreadInv ==
    ~boolShutdown /\ failures = 0 /\ created > 0 /\ ~idle[1] =>
        Looking(1) \/ idleEv

\* RequestOwned with thread 1 as the witness.
OwedToFirst ==
    queue # {} /\ ~boolShutdown /\ failures = 0 =>
        Announced \/ (created > 0 /\ Looking(1))

\* The strengthening TLC checks and TLAPS proves inductive.
PoolInv ==
    /\ TypeOK
    /\ PoolBound
    /\ ObjectsInv
    /\ WalkInv
    /\ CriticalKept
    /\ ObjectsOutliveThreads
    /\ BeforeShutdown
    /\ FirstThreadInv
    /\ OwedToFirst
=============================================================================
