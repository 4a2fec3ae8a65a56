----------------------------- MODULE ClientModules -----------------------------
(***************************************************************************)
(* How the client loads its modules, counts their users and unloads them:  *)
(* ChPuebloModuleManager and ChModuleRunInfo (client/msw/ChPbModuleMgr.cpp *)
(* and ChRunTimeInfo.cpp), with what the modules load when they start and  *)
(* let go of when they are destroyed.  The world and the sound module load *)
(* each other.                                                             *)
(*                                                                         *)
(* Everything is one thread of nested calls: "calls" holds what is still   *)
(* to be done, the innermost first.  A module is destroyed in the middle   *)
(* of whatever call took its use count to 0.  A library whose main handler *)
(* does not know its module's name is not modelled.                        *)
(***************************************************************************)
EXTENDS Subsequences

VARIABLES
    order,      \* the modules installed, by their ids
    table,      \* m_moduleRunTable: the use counts
    alive,      \* modules whose objects exist, with a dispatcher registered
    holds,      \* the ids a module keeps of the modules it has loaded
    calls,      \* the calls in progress
    terms,      \* how often each module got CH_MSG_TERM
    phase,      \* of the client
    at,         \* the next module UnloadAll visits
    enhanced    \* an enhanced world has been seen (m_boolPuebloEnhancedFound)

moduleVars == <<order, table, alive, holds, calls, terms, phase, at, enhanced>>

Modules == {"world", "sound", "pane", "maze", "animator"}
Core == "core"
Phases == {"running", "unloading", "done"}

\* A call "of" a module, or of the core, about a module.
CallSet == [do : {"load", "complete", "unload", "free"}, of : Modules \cup {Core}, what : Modules]

Call(do, of, what) == [do |-> do, of |-> of, what |-> what]
Calls(do, of, them) == [i \in DOMAIN them |-> Call(do, of, them[i])]

Loaded == DOMAIN table

\* What a module loads in its handler of CH_MSG_INIT ...
Initialize(m) ==
    CASE m = "world" -> <<"sound">>
      [] m = "sound" -> <<"world">>
      [] m = "pane" -> <<"maze", "animator">>
      [] OTHER -> <<>>

\* ... and what its destructor lets go of, in order, if it holds it.
Destroy(m) ==
    LET candidates ==
            CASE m = "world" -> <<"sound", "pane">>
              [] m = "sound" -> <<"world">>
              [] m = "pane" -> <<"maze", "animator">>
              [] OTHER -> <<>>
    IN  Without(candidates, Modules \ holds[m])

\* Ids are given in the order of the directory, so any order is possible.
Orders(S) == {s \in [1 .. Cardinality(S) -> S] : \A m \in S : \E i \in DOMAIN s : s[i] = m}

ModulesInit ==
    /\ \E installed \in SUBSET Modules : order \in Orders(installed)
    /\ table = [m \in {} |-> 0]
    /\ alive = {}
    /\ holds = [m \in Modules |-> {}]
    /\ calls = <<Call("load", Core, "world")>>
    /\ terms = [m \in Modules |-> 0]
    /\ phase = "running"
    /\ at = 0
    /\ enhanced = FALSE

Installed == {order[i] : i \in DOMAIN order}

Doing(do) == calls # <<>> /\ calls[1].do = do
Then(more) == calls' = more \o Tail(calls)

With(m, n) == [x \in Loaded \cup {m} |-> IF x = m THEN n ELSE table[x]]

-----------------------------------------------------------------------------
(***************************************************************************)
(* LoadClientModule: a module that is there already gets one more user,    *)
(* else its library is loaded, its object made, its run info entered with  *)
(* a use count of 1 and CH_MSG_INIT dispatched to it, all before whoever   *)
(* asked hears of it.  The core loads the world without asking for news.   *)
(***************************************************************************)
Load ==
    /\ Doing("load")
    /\ LET m == calls[1].what
           news == IF calls[1].of = Core THEN <<>> ELSE <<Call("complete", calls[1].of, m)>>
       IN  \/ /\ m \in Loaded
              /\ table' = With(m, table[m] + 1)
              /\ Then(news)
              /\ UNCHANGED alive
           \/ /\ m \in Installed \ Loaded
              /\ table' = With(m, 1)
              /\ alive' = alive \cup {m}
              /\ Then(Calls("load", m, Initialize(m)) \o news)
           \/ /\ m \notin Installed \cup Loaded
              /\ Then(<<>>)             \* CH_MSG_LOAD_ERROR
              /\ UNCHANGED <<table, alive>>
    /\ UNCHANGED <<order, holds, terms, phase, at, enhanced>>

\* CH_MSG_LOAD_COMPLETE tells a module the id of the one it has loaded.
LoadComplete ==
    /\ Doing("complete")
    /\ LET r == calls[1].of
       IN  holds' = IF r \in alive
                    THEN [holds EXCEPT ![r] = @ \cup {calls[1].what}] ELSE holds
    /\ Then(<<>>)
    /\ UNCHANGED <<order, table, alive, terms, phase, at, enhanced>>

(***************************************************************************)
(* UnloadModule and the Unload of the run info: the last user's call sends *)
(* CH_MSG_TERM, on which the module deletes its object.  Only UnloadAll    *)
(* and the destructors it runs unload modules, so no call deletes an entry *)
(* itself: UnloadAll does so at its end.                                   *)
(***************************************************************************)
\* Faulty: a count below 0 is the last use as well.
IsLastUseFaulty(count) == count <= 0

IsLastUse(count) == count = 0

Unload ==
    /\ Doing("unload")
    /\ LET m == calls[1].what
       IN  IF m \notin Loaded
           THEN Then(<<>>) /\ UNCHANGED <<table, terms>>
           ELSE /\ table' = With(m, table[m] - 1)
                /\ IF IsLastUse(table[m] - 1)
                   THEN /\ terms' = [terms EXCEPT ![m] = @ + 1]
                        /\ Then(Calls("unload", m, Destroy(m)) \o <<Call("free", m, m)>>)
                   ELSE Then(<<>>) /\ UNCHANGED terms
    /\ UNCHANGED <<order, alive, holds, phase, at, enhanced>>

\* The end of the destructor, and FreeLibrary.
Free ==
    /\ Doing("free")
    /\ LET m == calls[1].what
       IN  /\ alive' = alive \ {m}
           /\ holds' = [holds EXCEPT ![m] = {}]
    /\ Then(<<>>)
    /\ UNCHANGED <<order, table, terms, phase, at, enhanced>>

(***************************************************************************)
(* OnPuebloEnhanced: the first enhanced world has the modules loaded that  *)
(* the world module does not hold.                                         *)
(***************************************************************************)
\* Faulty: modules are loaded whether the world holds them or not.
WantedFaulty == <<"sound", "pane">>

Wanted == Without(<<"sound", "pane">>, holds["world"])

OnPuebloEnhanced ==
    /\ calls = <<>> /\ phase = "running" /\ "world" \in alive /\ ~enhanced
    /\ enhanced' = TRUE
    /\ calls' = Calls("load", "world", Wanted)
    /\ UNCHANGED <<order, table, alive, holds, terms, phase, at>>

(***************************************************************************)
(* StartShutdown: UnloadAll takes one user from every module in the table, *)
(* in the order of their ids, then deletes the entries nobody uses.        *)
(***************************************************************************)
StartShutdown ==
    /\ calls = <<>> /\ phase = "running"
    /\ phase' = "unloading"
    /\ at' = 1
    /\ UNCHANGED <<order, table, alive, holds, calls, terms, enhanced>>

Visit ==
    /\ calls = <<>> /\ phase = "unloading" /\ at <= Len(order)
    /\ at' = at + 1
    /\ calls' = IF order[at] \in Loaded THEN <<Call("unload", Core, order[at])>> ELSE <<>>
    /\ UNCHANGED <<order, table, alive, holds, terms, phase, enhanced>>

Deleted(count) == count <= 0

DeleteRunInfo ==
    /\ calls = <<>> /\ phase = "unloading" /\ at > Len(order)
    /\ phase' = "done"
    /\ table' = [m \in {x \in Loaded : ~Deleted(table[x])} |-> table[m]]
    /\ UNCHANGED <<order, alive, holds, calls, terms, at, enhanced>>

ModulesNext ==
    \/ Load
    \/ LoadComplete
    \/ Unload
    \/ Free
    \/ OnPuebloEnhanced
    \/ StartShutdown
    \/ Visit
    \/ DeleteRunInfo

ModulesSpec == ModulesInit /\ [][ModulesNext]_moduleVars

-----------------------------------------------------------------------------
ModulesTypeOK ==
    /\ order \in Seq(Modules)
    /\ table \in [Loaded -> Int] /\ Loaded \subseteq Modules
    /\ alive \subseteq Modules
    /\ holds \in [Modules -> SUBSET Modules]
    /\ calls \in Seq(CallSet)
    /\ terms \in [Modules -> Nat]
    /\ phase \in Phases
    /\ at \in 0 .. Len(order) + 1
    /\ enhanced \in BOOLEAN

(***************************************************************************)
(* While the client runs and nothing is in progress, the use count of a    *)
(* module is the number of those that hold its id, and one for the core's  *)
(* own use of the world, although the sound module asks for the world      *)
(* while the world is still being loaded.                                  *)
(***************************************************************************)
Users(m) == Cardinality({r \in Modules : m \in holds[r]}) + (IF m = "world" THEN 1 ELSE 0)

CountsAreUsers ==
    calls = <<>> /\ phase = "running" => \A m \in Loaded : table[m] = Users(m)

(***************************************************************************)
(* Whatever the order of the ids, a module is told once to terminate and   *)
(* never twice, although UnloadAll takes a use that nobody had and the     *)
(* modules it destroys take theirs as well; its code is not unloaded under *)
(* its own destructor, or any other call of it; and when it is over every  *)
(* module that was loaded has been destroyed and no entry is left.         *)
(***************************************************************************)
TerminatedOnce ==
    /\ \A m \in Modules : terms[m] <= 1
    /\ \A i \in DOMAIN calls : calls[i].of # Core => calls[i].of \in alive
    /\ phase = "done" => Loaded = {} /\ alive = {}
-----------------------------------------------------------------------------
(***************************************************************************)
(* The inductive invariant behind both.                                    *)
(***************************************************************************)
\* The modules a module may ever load.
MayHold(m) ==
    CASE m = "world" -> {"sound", "pane"}
      [] m = "sound" -> {"world"}
      [] m = "pane" -> {"maze", "animator"}
      [] OTHER -> {}

InProgress(c) == \E i \in DOMAIN calls : calls[i] = c
Pending(do, of, what) == InProgress(Call(do, of, what))

\* Who has had m loaded, and has not let go of it.
Uses(r, m) ==
    \/ Pending("complete", r, m)
    \/ m \in holds[r] /\ (terms[r] = 0 \/ Pending("unload", r, m))

UsersOf(m) == {r \in Modules : Uses(r, m)}

\* UnloadAll has been at m.
Taken(m) == (\E i \in DOMAIN order : i < at /\ order[i] = m) /\ ~Pending("unload", Core, m)

CoreUses(m) == (IF m = "world" THEN 1 ELSE 0) - (IF Taken(m) THEN 1 ELSE 0)

\* Every use is counted, at any moment; no use is left of what is not there.
Counted ==
    phase # "done" =>
        \A m \in Modules : IF m \in Loaded THEN table[m] = Cardinality(UsersOf(m)) + CoreUses(m)
                                           ELSE UsersOf(m) = {}

\* No two calls in progress are of the same module about the same module.
CallsApart ==
    \A i, j \in DOMAIN calls :
        calls[i].of = calls[j].of /\ calls[i].what = calls[j].what => i = j

Known ==
    /\ \A i, j \in DOMAIN order : order[i] = order[j] => i = j
    /\ Loaded \subseteq Installed
    /\ phase # "done" => (Loaded # {} => "world" \in Loaded)
    /\ \A r \in Modules : holds[r] \subseteq MayHold(r) /\ (holds[r] # {} => r \in alive)

\* While the client runs, modules are loaded: first the world, by the core.
RunningCall(c) ==
    /\ c.do \in {"load", "complete"}
    /\ IF c.of = Core
       THEN calls = <<Call("load", Core, "world")>> /\ Loaded = {}
       ELSE c.of \in alive /\ c.what \in MayHold(c.of) \ holds[c.of]

Running ==
    phase = "running" =>
        /\ at = 0
        /\ alive = Loaded
        /\ \A m \in Loaded : table[m] > 0
        /\ \A m \in Modules : terms[m] = 0
        /\ \A i \in DOMAIN calls : RunningCall(calls[i])

\* Later they are let go of: by UnloadAll, or by a module that is being destroyed.
UnloadingCall(c) ==
    /\ c.do \in {"unload", "free"}
    /\ c.do = "free" => c.of = c.what
    /\ IF c.of = Core
       THEN c.do = "unload" /\ Len(calls) = 1 /\ at > 1 /\ c.what = order[at - 1]
       ELSE terms[c.of] = 1 /\ (c.do = "unload" => c.what \in holds[c.of])

\* What a module does while it is destroyed is done before it is freed.
FreedLast(s) ==
    \A i \in DOMAIN s :
        s[i].of # Core => \E j \in DOMAIN s : j >= i /\ s[j] = Call("free", s[i].of, s[i].of)

Unloading ==
    phase = "unloading" =>
        /\ at > 0
        /\ alive \subseteq Loaded
        /\ \A m \in Modules : terms[m] = IF m \in Loaded /\ table[m] <= 0 THEN 1 ELSE 0
        /\ \A m \in Loaded : m \in alive <=> terms[m] = 0 \/ Pending("free", m, m)
        /\ \A i \in DOMAIN calls : UnloadingCall(calls[i])
        /\ FreedLast(calls)

Done ==
    /\ phase = "done" => calls = <<>> /\ Loaded = {} /\ alive = {}
    /\ \A m \in Modules : terms[m] <= 1

ModulesInv ==
    ModulesTypeOK /\ Known /\ CallsApart /\ Counted /\ Running /\ Unloading /\ Done
=============================================================================
