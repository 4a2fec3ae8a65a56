------------------------- MODULE ClientModulesProofs -------------------------
(***************************************************************************)
(* Proofs about ClientModules, for every set of installed modules and      *)
(* every order of their ids: the use counts are right, and each module is  *)
(* terminated once, and outlives its own calls.                            *)
(*                                                                         *)
(* "calls" is treated as the set of its elements: no two of them are of    *)
(* one module about the same other, so a step removes the first and adds   *)
(* some, and only what a destructor does before its end needs an order.    *)
(***************************************************************************)
EXTENDS ClientModules, ListProofs

-----------------------------------------------------------------------------
(* Lists of calls. *)

Has(s, c) == \E i \in 1 .. Len(s) : s[i] = c

ApartIn(s) ==
    \A i, j \in 1 .. Len(s) : s[i].of = s[j].of /\ s[i].what = s[j].what => i = j

LEMMA ConcatCalls ==
    ASSUME NEW S, NEW s \in Seq(S), NEW t \in Seq(S)
    PROVE  /\ s \o t \in Seq(S)
           /\ \A c : Has(s \o t, c) <=> Has(s, c) \/ Has(t, c)
           /\ ApartIn(s) /\ ApartIn(t)
              /\ (\A c, d : Has(s, c) /\ Has(t, d) => c.of # d.of \/ c.what # d.what)
                  => ApartIn(s \o t)
           /\ FreedLast(s) /\ FreedLast(t) => FreedLast(s \o t)
<1> DEFINE u == s \o t
<1>1. /\ u \in Seq(S) /\ Len(u) = Len(s) + Len(t) /\ Len(s) \in Nat /\ Len(t) \in Nat
      /\ \A i \in 1 .. Len(s) : u[i] = s[i]
      /\ \A i \in 1 .. Len(t) : u[Len(s) + i] = t[i]
    OBVIOUS
<1> HIDE DEF u
<1>2. \A i \in 1 .. Len(u) : \/ i \in 1 .. Len(s) /\ u[i] = s[i]
                             \/ i - Len(s) \in 1 .. Len(t) /\ u[i] = t[i - Len(s)] /\ i > Len(s)
    <2> TAKE i \in 1 .. Len(u)
    <2>1. CASE i <= Len(s)
        BY <1>1, <2>1
    <2>2. CASE i > Len(s)
        <3>1. i - Len(s) \in 1 .. Len(t) /\ Len(s) + (i - Len(s)) = i
            BY <1>1, <2>2
        <3> QED
            BY <1>1, <2>2, <3>1
    <2> QED
        BY <1>1, <2>1, <2>2
<1>3. ASSUME NEW c PROVE Has(u, c) <=> Has(s, c) \/ Has(t, c)
    <2>1. Has(u, c) => Has(s, c) \/ Has(t, c)
        BY <1>2 DEF Has
    <2>2. Has(s, c) => Has(u, c)
        BY <1>1 DEF Has
    <2>3. Has(t, c) => Has(u, c)
        <3> SUFFICES ASSUME NEW i \in 1 .. Len(t), t[i] = c PROVE Has(u, c)
            BY DEF Has
        <3>1. Len(s) + i \in 1 .. Len(u)
            BY <1>1
        <3> QED
            BY <1>1, <3>1 DEF Has
    <2> QED
        BY <2>1, <2>2, <2>3
<1>4. ASSUME ApartIn(s), ApartIn(t),
             \A c, d : Has(s, c) /\ Has(t, d) => c.of # d.of \/ c.what # d.what
      PROVE  ApartIn(u)
    <2> SUFFICES ASSUME NEW i \in 1 .. Len(u), NEW j \in 1 .. Len(u),
                        u[i].of = u[j].of, u[i].what = u[j].what
                 PROVE  i = j
        BY DEF ApartIn
    <2>1. CASE i \in 1 .. Len(s) /\ u[i] = s[i] /\ j \in 1 .. Len(s) /\ u[j] = s[j]
        BY <1>4, <2>1 DEF ApartIn
    <2>2. CASE i > Len(s) /\ j > Len(s)
        <3>1. /\ i - Len(s) \in 1 .. Len(t) /\ u[i] = t[i - Len(s)]
              /\ j - Len(s) \in 1 .. Len(t) /\ u[j] = t[j - Len(s)]
            BY <1>1, <1>2, <2>2
        <3>2. i - Len(s) = j - Len(s)
            BY <1>4, <3>1 DEF ApartIn
        <3> QED
            BY <1>1, <3>2
    <2>3. CASE (i \in 1 .. Len(s) /\ u[i] = s[i]) /\ j - Len(s) \in 1 .. Len(t) /\ u[j] = t[j - Len(s)]
        <3>1. Has(s, u[i]) /\ Has(t, u[j])
            BY <2>3 DEF Has
        <3> QED
            BY <1>4, <3>1
    <2>4. CASE (j \in 1 .. Len(s) /\ u[j] = s[j]) /\ i - Len(s) \in 1 .. Len(t) /\ u[i] = t[i - Len(s)]
        <3>1. Has(s, u[j]) /\ Has(t, u[i])
            BY <2>4 DEF Has
        <3> QED
            BY <1>4, <3>1
    <2> QED
        BY <1>2, <2>1, <2>2, <2>3, <2>4
<1>5. ASSUME FreedLast(s), FreedLast(t) PROVE FreedLast(u)
    <2> SUFFICES ASSUME NEW i \in 1 .. Len(u), u[i].of # Core
                 PROVE  \E j \in 1 .. Len(u) : j >= i /\ u[j] = Call("free", u[i].of, u[i].of)
        BY DEF FreedLast
    <2>1. CASE i \in 1 .. Len(s) /\ u[i] = s[i]
        <3>1. PICK j \in 1 .. Len(s) : j >= i /\ s[j] = Call("free", u[i].of, u[i].of)
            BY <1>5, <2>1 DEF FreedLast
        <3> QED
            BY <1>1, <3>1
    <2>2. CASE i > Len(s) /\ i - Len(s) \in 1 .. Len(t) /\ u[i] = t[i - Len(s)]
        <3>1. PICK j \in 1 .. Len(t) : j >= i - Len(s) /\ t[j] = Call("free", u[i].of, u[i].of)
            BY <1>5, <2>2 DEF FreedLast
        <3>2. Len(s) + j \in 1 .. Len(u) /\ Len(s) + j >= i /\ u[Len(s) + j] = t[j]
            BY <1>1, <3>1
        <3> QED
            BY <3>1, <3>2
    <2> QED
        BY <1>2, <2>1, <2>2
<1> QED
    BY <1>1, <1>3, <1>4, <1>5 DEF u

LEMMA TailCalls ==
    ASSUME NEW S, NEW s \in Seq(S), s # <<>>, ApartIn(s)
    PROVE  /\ Tail(s) \in Seq(S) /\ Len(s) \in Nat \ {0} /\ Has(s, s[1])
           /\ \A c : Has(Tail(s), c) <=> Has(s, c) /\ c # s[1]
           /\ \A c : Has(Tail(s), c) => c.of # s[1].of \/ c.what # s[1].what
           /\ ApartIn(Tail(s))
           /\ FreedLast(s) => FreedLast(Tail(s))
           /\ Len(s) = 1 => Tail(s) = <<>>
<1> DEFINE t == Tail(s)
<1>1. /\ t \in Seq(S) /\ Len(s) \in Nat \ {0} /\ Len(t) = Len(s) - 1
      /\ \A i \in 1 .. Len(t) : t[i] = s[i + 1]
    OBVIOUS
<1> HIDE DEF t
<1>2. 1 \in 1 .. Len(s) /\ Has(s, s[1])
    BY <1>1 DEF Has
<1>3. ASSUME NEW c PROVE /\ Has(t, c) <=> Has(s, c) /\ c # s[1]
                         /\ Has(t, c) => c.of # s[1].of \/ c.what # s[1].what
    <2>1. ASSUME NEW i \in 1 .. Len(t), t[i] = c
          PROVE  Has(s, c) /\ (c.of # s[1].of \/ c.what # s[1].what)
        <3>1. i + 1 \in 1 .. Len(s) /\ i + 1 # 1 /\ s[i + 1] = c
            BY <1>1, <2>1
        <3> QED
            BY <1>2, <3>1 DEF Has, ApartIn
    <2>2. ASSUME NEW i \in 1 .. Len(s), s[i] = c, c # s[1] PROVE Has(t, c)
        <3>1. i - 1 \in 1 .. Len(t) /\ (i - 1) + 1 = i
            BY <1>1, <2>2
        <3>2. t[i - 1] = c
            BY <1>1, <2>2, <3>1
        <3> QED
            BY <3>1, <3>2 DEF Has
    <2> QED
        BY <2>1, <2>2 DEF Has
<1>4. ApartIn(t)
    <2> SUFFICES ASSUME NEW i \in 1 .. Len(t), NEW j \in 1 .. Len(t),
                        t[i].of = t[j].of, t[i].what = t[j].what
                 PROVE  i = j
        BY DEF ApartIn
    <2>1. i + 1 \in 1 .. Len(s) /\ j + 1 \in 1 .. Len(s) /\ t[i] = s[i + 1] /\ t[j] = s[j + 1]
        BY <1>1
    <2>2. i + 1 = j + 1
        BY <2>1 DEF ApartIn
    <2> QED
        BY <2>2
<1>5. ASSUME FreedLast(s) PROVE FreedLast(t)
    <2> SUFFICES ASSUME NEW i \in 1 .. Len(t), t[i].of # Core
                 PROVE  \E j \in 1 .. Len(t) : j >= i /\ t[j] = Call("free", t[i].of, t[i].of)
        BY DEF FreedLast
    <2>1. i + 1 \in 1 .. Len(s) /\ t[i] = s[i + 1]
        BY <1>1
    <2>2. PICK j \in 1 .. Len(s) : j >= i + 1 /\ s[j] = Call("free", t[i].of, t[i].of)
        BY <1>5, <2>1 DEF FreedLast
    <2>3. j - 1 \in 1 .. Len(t) /\ j - 1 >= i /\ (j - 1) + 1 = j
        BY <1>1, <2>2
    <2>4. t[j - 1] = s[j]
        BY <1>1, <2>3
    <2> QED
        BY <2>2, <2>3, <2>4
<1>6. Len(s) = 1 => t = <<>>
    BY <1>1
<1> QED
    BY <1>1, <1>2, <1>3, <1>4, <1>5, <1>6 DEF t

LEMMA CallFields ==
    \A do, of, what : /\ Call(do, of, what).do = do
                      /\ Call(do, of, what).of = of
                      /\ Call(do, of, what).what = what
BY DEF Call

LEMMA CallIs ==
    ASSUME NEW c \in CallSet
    PROVE  c = Call(c.do, c.of, c.what)
BY DEF Call, CallSet

\* The calls of one module, about a list of modules.
LEMMA CallsOf ==
    ASSUME NEW do \in {"load", "complete", "unload", "free"}, NEW m \in Modules, NEW them \in Seq(Modules),
           \A i, j \in 1 .. Len(them) : them[i] = them[j] => i = j
    PROVE  /\ Calls(do, m, them) \in Seq(CallSet)
           /\ \A c : Has(Calls(do, m, them), c)
                         <=> \E i \in 1 .. Len(them) : c = Call(do, m, them[i])
           /\ ApartIn(Calls(do, m, them))
<1> DEFINE s == Calls(do, m, them)
<1>1. Len(them) \in Nat /\ DOMAIN them = 1 .. Len(them) /\ \A i \in 1 .. Len(them) : them[i] \in Modules
    OBVIOUS
<1>2. s = [i \in 1 .. Len(them) |-> Call(do, m, them[i])]
    BY <1>1 DEF Calls
<1>3. \A i \in 1 .. Len(them) : Call(do, m, them[i]) \in CallSet
    BY <1>1 DEF Call, CallSet
<1> HIDE DEF s
<1>4. s \in Seq(CallSet) /\ Len(s) = Len(them)
      /\ \A i \in 1 .. Len(s) : s[i] = Call(do, m, them[i])
    BY <1>1, <1>2, <1>3
<1>5. ApartIn(s)
    <2>1. \A i \in 1 .. Len(s) : s[i].what = them[i]
        BY <1>4, CallFields
    <2> QED
        BY <1>4, <2>1 DEF ApartIn
<1> QED
    BY <1>4, <1>5 DEF Has, s

-----------------------------------------------------------------------------
(* What a module loads and lets go of. *)

\* A destructor lets go of everything its module holds, each once.
LEMMA DestroyIs ==
    ASSUME NEW m \in Modules, holds[m] \subseteq MayHold(m)
    PROVE  /\ Destroy(m) \in Seq(Modules)
           /\ \A x : (\E i \in 1 .. Len(Destroy(m)) : Destroy(m)[i] = x) <=> x \in holds[m]
           /\ \A i, j \in 1 .. Len(Destroy(m)) : Destroy(m)[i] = Destroy(m)[j] => i = j
<1> DEFINE s == CASE m = "world" -> <<"sound", "pane">>
                  [] m = "sound" -> <<"world">>
                  [] m = "pane" -> <<"maze", "animator">>
                  [] OTHER -> <<>>
           X == Modules \ holds[m]
<1>1. /\ s \in Seq(Modules)
      /\ \A i, j \in 1 .. Len(s) : s[i] = s[j] => i = j
      /\ \A x : (\E i \in 1 .. Len(s) : s[i] = x) <=> x \in MayHold(m)
    <2>1. CASE m = "world"
        BY <2>1 DEF MayHold, Modules
    <2>2. CASE m = "sound"
        BY <2>2 DEF MayHold, Modules
    <2>3. CASE m = "pane"
        BY <2>3 DEF MayHold, Modules
    <2>4. CASE m = "maze" \/ m = "animator"
        BY <2>4 DEF MayHold, Modules
    <2> QED
        BY <2>1, <2>2, <2>3, <2>4 DEF Modules
<1>2. \A x : x \in MayHold(m) => x \in Modules
    BY <1>1
<1>3. Destroy(m) = Without(s, X)
    BY DEF Destroy
<1> HIDE DEF s, X
<1>4. /\ Without(s, X) \in Seq(Modules)
      /\ \A i, j \in 1 .. Len(Without(s, X)) : Without(s, X)[i] = Without(s, X)[j] => i = j
    BY <1>1, WithoutIsKept, WithoutRepetition
<1>5. ASSUME NEW x
      PROVE  (\E i \in 1 .. Len(Without(s, X)) : Without(s, X)[i] = x) <=> x \in holds[m]
    <2>1. (\E i \in 1 .. Len(Without(s, X)) : Without(s, X)[i] = x)
              <=> x \notin X /\ \E i \in 1 .. Len(s) : s[i] = x
        BY <1>1, WithoutHas
    <2>2. (\E i \in 1 .. Len(s) : s[i] = x) <=> x \in MayHold(m)
        BY <1>1
    <2> QED
        BY <1>2, <2>1, <2>2 DEF X
<1> QED
    BY <1>3, <1>4, <1>5

\* An enhanced world loads what the world module may hold and does not.
LEMMA WantedIs ==
    /\ Wanted \in Seq(Modules)
    /\ \A x : (\E i \in 1 .. Len(Wanted) : Wanted[i] = x) <=> x \in MayHold("world") \ holds["world"]
    /\ \A i, j \in 1 .. Len(Wanted) : Wanted[i] = Wanted[j] => i = j
<1> DEFINE s == <<"sound", "pane">>
           X == holds["world"]
<1>1. /\ s \in Seq(Modules)
      /\ \A i, j \in 1 .. Len(s) : s[i] = s[j] => i = j
      /\ \A x : (\E i \in 1 .. Len(s) : s[i] = x) <=> x \in MayHold("world")
    BY DEF MayHold, Modules
<1>2. Wanted = Without(s, X)
    BY DEF Wanted
<1> HIDE DEF s, X
<1>3. /\ Without(s, X) \in Seq(Modules)
      /\ \A i, j \in 1 .. Len(Without(s, X)) : Without(s, X)[i] = Without(s, X)[j] => i = j
    BY <1>1, WithoutIsKept, WithoutRepetition
<1>4. ASSUME NEW x
      PROVE  (\E i \in 1 .. Len(Without(s, X)) : Without(s, X)[i] = x)
                 <=> x \in MayHold("world") \ holds["world"]
    <2>1. (\E i \in 1 .. Len(Without(s, X)) : Without(s, X)[i] = x)
              <=> x \notin X /\ x \in MayHold("world")
        BY <1>1, WithoutHas
    <2> QED
        BY <2>1 DEF X
<1> QED
    BY <1>2, <1>3, <1>4

LEMMA InitializeIs ==
    ASSUME NEW m \in Modules
    PROVE  /\ Initialize(m) \in Seq(Modules)
           /\ \A i \in 1 .. Len(Initialize(m)) : Initialize(m)[i] \in MayHold(m)
           /\ \A i, j \in 1 .. Len(Initialize(m)) : Initialize(m)[i] = Initialize(m)[j] => i = j
<1>1. CASE m = "world"
    BY <1>1 DEF Initialize, MayHold, Modules
<1>2. CASE m = "sound"
    BY <1>2 DEF Initialize, MayHold, Modules
<1>3. CASE m = "pane"
    BY <1>3 DEF Initialize, MayHold, Modules
<1>4. CASE m = "maze" \/ m = "animator"
    BY <1>4 DEF Initialize, MayHold, Modules
<1> QED
    BY <1>1, <1>2, <1>3, <1>4 DEF Modules

\* A module is loaded by one other at most, and never loads itself.
LEMMA OneHolder ==
    ASSUME NEW m \in Modules
    PROVE  /\ MayHold(m) \subseteq Modules /\ m \notin MayHold(m)
           /\ \A r, x \in Modules : m \in MayHold(r) /\ m \in MayHold(x) => r = x
           /\ m = "world" => \A r \in Modules : m \in MayHold(r) => r = "sound"
BY DEF MayHold, Modules

-----------------------------------------------------------------------------
(* The invariant, by the calls that are in progress and not by their places. *)

RunningFacts ==
    /\ at = 0
    /\ alive = Loaded
    /\ \A m \in Loaded : table[m] > 0
    /\ \A m \in Modules : terms[m] = 0
    /\ \A c : Has(calls, c) => RunningCall(c)

UnloadingFacts ==
    /\ at > 0
    /\ alive \subseteq Loaded
    /\ \A m \in Modules : terms[m] = IF m \in Loaded /\ table[m] <= 0 THEN 1 ELSE 0
    /\ \A m \in Loaded : m \in alive <=> terms[m] = 0 \/ Has(calls, Call("free", m, m))
    /\ \A c : Has(calls, c) => UnloadingCall(c)
    /\ FreedLast(calls)

Facts ==
    /\ ModulesTypeOK /\ Known /\ ApartIn(calls) /\ Counted
    /\ phase = "running" => RunningFacts
    /\ phase = "unloading" => UnloadingFacts
    /\ Done

LEMMA CallsAreFinite ==
    calls \in Seq(CallSet) => DOMAIN calls = 1 .. Len(calls) /\ Len(calls) \in Nat
OBVIOUS

LEMMA InProgressIsHas ==
    ModulesTypeOK => \A c : InProgress(c) <=> Has(calls, c)
BY CallsAreFinite DEF ModulesTypeOK, InProgress, Has

LEMMA InvIsFacts == ModulesInv <=> Facts
<1> SUFFICES ASSUME ModulesTypeOK PROVE ModulesInv <=> Facts
    BY DEF ModulesInv, Facts
<1>1. DOMAIN calls = 1 .. Len(calls)
    BY CallsAreFinite DEF ModulesTypeOK
<1>2. CallsApart <=> ApartIn(calls)
    BY <1>1 DEF CallsApart, ApartIn
<1>3. (\A i \in DOMAIN calls : RunningCall(calls[i])) <=> \A c : Has(calls, c) => RunningCall(c)
    BY <1>1 DEF Has
<1>4. (\A i \in DOMAIN calls : UnloadingCall(calls[i])) <=> \A c : Has(calls, c) => UnloadingCall(c)
    BY <1>1 DEF Has
<1>5. \A c : InProgress(c) <=> Has(calls, c)
    BY InProgressIsHas
<1>6. Running <=> (phase = "running" => RunningFacts)
    BY <1>3 DEF Running, RunningFacts
<1>7. Unloading <=> (phase = "unloading" => UnloadingFacts)
    BY <1>4, <1>5 DEF Unloading, UnloadingFacts, Pending
<1> QED
    BY <1>2, <1>6, <1>7 DEF ModulesInv, Facts

\* The next state's.
LEMMA FactsAreInv == Facts' => ModulesInv'
BY InvIsFacts, PTL

LEMMA HasIsInProgress == ModulesTypeOK' => \A c : InProgress(c)' <=> Has(calls', c)
<1> SUFFICES ASSUME ModulesTypeOK' PROVE \A c : InProgress(c)' <=> Has(calls', c)
    OBVIOUS
<1>1. calls' \in Seq(CallSet)
    BY DEF ModulesTypeOK, CallSet
<1>2. DOMAIN calls' = 1 .. Len(calls')
    BY <1>1
<1> QED
    BY <1>2 DEF InProgress, Has

\* Other calls take the place of the innermost one.
LEMMA Popped ==
    ASSUME calls \in Seq(CallSet), ApartIn(calls), calls # <<>>,
           NEW more \in Seq(CallSet), Then(more), ApartIn(more),
           \A c, d : Has(more, c) /\ Has(calls, d) /\ d # calls[1] => c.of # d.of \/ c.what # d.what
    PROVE  /\ calls' \in Seq(CallSet) /\ ApartIn(calls')
           /\ Has(calls, calls[1]) /\ calls[1] \in CallSet
           /\ \A c : Has(calls', c) <=> Has(more, c) \/ (Has(calls, c) /\ c # calls[1])
           /\ FreedLast(calls) /\ FreedLast(more) => FreedLast(calls')
           /\ Len(calls) = 1 => calls' = more
<1>1. /\ Tail(calls) \in Seq(CallSet) /\ Len(calls) \in Nat \ {0} /\ Has(calls, calls[1])
      /\ \A c : Has(Tail(calls), c) <=> Has(calls, c) /\ c # calls[1]
      /\ ApartIn(Tail(calls))
      /\ FreedLast(calls) => FreedLast(Tail(calls))
      /\ Len(calls) = 1 => Tail(calls) = <<>>
    BY TailCalls
<1> DEFINE t == Tail(calls)
<1> HIDE DEF t
<1>2. t \in Seq(CallSet) /\ ApartIn(t) /\ (\A c : Has(t, c) <=> Has(calls, c) /\ c # calls[1])
      /\ (FreedLast(calls) => FreedLast(t)) /\ (Len(calls) = 1 => t = <<>>) /\ calls' = more \o t
    BY <1>1 DEF t, Then
<1>3. \A c, d : Has(more, c) /\ Has(t, d) => c.of # d.of \/ c.what # d.what
    BY <1>2
<1>4. /\ more \o t \in Seq(CallSet)
      /\ \A c : Has(more \o t, c) <=> Has(more, c) \/ Has(t, c)
      /\ ApartIn(more) /\ ApartIn(t)
         /\ (\A c, d : Has(more, c) /\ Has(t, d) => c.of # d.of \/ c.what # d.what)
             => ApartIn(more \o t)
      /\ FreedLast(more) /\ FreedLast(t) => FreedLast(more \o t)
    BY <1>2, ConcatCalls
<1>5. calls[1] \in CallSet
    BY <1>1
<1>6. Len(calls) = 1 => more \o t = more
    BY <1>2
<1> QED
    BY <1>1, <1>2, <1>3, <1>4, <1>5, <1>6

LEMMA NoCalls ==
    /\ <<>> \in Seq(CallSet) /\ ApartIn(<<>>) /\ FreedLast(<<>>)
    /\ \A c : ~Has(<<>>, c)
    /\ \A c : c \in CallSet => /\ <<c>> \in Seq(CallSet) /\ ApartIn(<<c>>)
                              /\ \A d : Has(<<c>>, d) <=> d = c
BY DEF ApartIn, FreedLast, Has

-----------------------------------------------------------------------------
(* The users of a module. *)

LEMMA UsersAreFinite ==
    ASSUME NEW S \in SUBSET Modules
    PROVE  IsFiniteSet(S) /\ Cardinality(S) \in Nat
<1>1. IsFiniteSet(Modules)
    <2>1. IsFiniteSet({"world"}) /\ IsFiniteSet({"sound"}) /\ IsFiniteSet({"pane"})
          /\ IsFiniteSet({"maze"}) /\ IsFiniteSet({"animator"})
        BY FS_Singleton
    <2>2. Modules = ((({"world"} \cup {"sound"}) \cup {"pane"}) \cup {"maze"}) \cup {"animator"}
        BY DEF Modules
    <2> QED
        BY <2>1, <2>2, FS_Union
<1> QED
    BY <1>1, FS_Subset, FS_CardinalityType

LEMMA UsersStay ==
    ASSUME NEW m, \A r \in Modules : Uses(r, m)' <=> Uses(r, m)
    PROVE  UsersOf(m)' = UsersOf(m)
BY DEF UsersOf, Modules

LEMMA UsersGrow ==
    ASSUME NEW m, NEW r \in Modules, ~Uses(r, m),
           \A x \in Modules : Uses(x, m)' <=> Uses(x, m) \/ x = r
    PROVE  Cardinality(UsersOf(m)') = Cardinality(UsersOf(m)) + 1 /\ Cardinality(UsersOf(m)) \in Nat
<1>1. UsersOf(m) \in SUBSET Modules /\ r \notin UsersOf(m)
    BY DEF UsersOf
<1>2. UsersOf(m)' = UsersOf(m) \cup {r}
    BY DEF UsersOf, Modules
<1> QED
    BY <1>1, <1>2, UsersAreFinite, FS_AddElement

LEMMA UsersShrink ==
    ASSUME NEW m, NEW r \in Modules, Uses(r, m),
           \A x \in Modules : Uses(x, m)' <=> Uses(x, m) /\ x # r
    PROVE  Cardinality(UsersOf(m)') = Cardinality(UsersOf(m)) - 1 /\ Cardinality(UsersOf(m)) \in Nat
<1>1. UsersOf(m) \in SUBSET Modules /\ r \in UsersOf(m)
    BY DEF UsersOf
<1>2. UsersOf(m)' = UsersOf(m) \ {r}
    BY DEF UsersOf, Modules
<1> QED
    BY <1>1, <1>2, UsersAreFinite, FS_RemoveElement

-----------------------------------------------------------------------------
(* The initial states. *)

LEMMA OrderIsInjective ==
    ASSUME NEW S \in SUBSET Modules, NEW s \in Orders(S)
    PROVE  /\ s \in Seq(Modules)
           /\ \A i, j \in DOMAIN s : s[i] = s[j] => i = j
<1> DEFINE n == Cardinality(S)
<1>1. n \in Nat /\ IsFiniteSet(S)
    BY UsersAreFinite
<1> HIDE DEF n
<1>2. s \in [1 .. n -> S] /\ \A m \in S : \E i \in DOMAIN s : s[i] = m
    BY DEF Orders, n
<1>3. s \in Surjection(1 .. n, S)
    BY <1>2 DEF Surjection
<1>4. IsFiniteSet(1 .. n) /\ Cardinality(1 .. n) = Cardinality(S)
    BY <1>1, FS_Interval DEF n
<1>5. s \in Injection(1 .. n, S)
    BY <1>3, <1>4, FS_Surjection
<1>6. \A i, j \in DOMAIN s : s[i] = s[j] => i = j
    BY <1>2, <1>5 DEF Injection, IsInjective
<1>7. s \in Seq(Modules)
    BY <1>1, <1>2
<1> QED
    BY <1>6, <1>7

LEMMA ModulesInvInit == ModulesInit => ModulesInv
<1> SUFFICES ASSUME ModulesInit PROVE Facts
    BY InvIsFacts
<1> DEFINE c == Call("load", Core, "world")
<1>1. order \in Seq(Modules) /\ \A i, j \in DOMAIN order : order[i] = order[j] => i = j
    BY OrderIsInjective DEF ModulesInit
<1>2. Loaded = {} /\ table \in [Loaded -> Int]
    BY DEF ModulesInit, Loaded
<1>3. c \in CallSet /\ calls = <<c>>
    BY DEF ModulesInit, Call, CallSet, Modules
<1>4. calls \in Seq(CallSet) /\ ApartIn(calls) /\ \A d : Has(calls, d) <=> d = c
    BY <1>3, NoCalls
<1>5. ModulesTypeOK
    <2>1. at \in 0 .. Len(order) + 1
        BY <1>1 DEF ModulesInit
    <2>2. holds \in [Modules -> SUBSET Modules] /\ terms \in [Modules -> Nat]
        BY DEF ModulesInit
    <2>3. alive \subseteq Modules /\ phase \in Phases /\ enhanced \in BOOLEAN
        BY DEF ModulesInit, Phases
    <2> QED
        BY <1>1, <1>2, <1>4, <2>1, <2>2, <2>3 DEF ModulesTypeOK
<1>6. RunningFacts
    BY <1>2, <1>4 DEF ModulesInit, RunningFacts, RunningCall, Call
<1>7. \A m \in Modules : UsersOf(m) = {}
    <2>1. \A r, m \in Modules : ~Uses(r, m)
        BY <1>4, <1>5, InProgressIsHas DEF Uses, Pending, Call, ModulesInit
    <2> QED
        BY <2>1 DEF UsersOf
<1>8. Counted
    BY <1>2, <1>7 DEF Counted
<1>9. Known /\ Done
    BY <1>1, <1>2 DEF Known, Done, ModulesInit, Installed
<1> QED
    BY <1>4, <1>5, <1>6, <1>8, <1>9 DEF Facts, ModulesInit

-----------------------------------------------------------------------------
(* Loading. *)

\* What is known when a load or a completion is the innermost call.
LEMMA InnerCall ==
    ASSUME Facts, calls # <<>>
    PROVE  /\ calls \in Seq(CallSet) /\ ApartIn(calls) /\ Has(calls, calls[1])
           /\ calls[1] \in CallSet /\ phase \in {"running", "unloading"}
           /\ calls[1].do \in {"load", "complete"} <=> phase = "running"
           /\ calls[1].do \in {"unload", "free"} <=> phase = "unloading"
           /\ \A d : Has(calls, d) /\ d # calls[1] => d.of # calls[1].of \/ d.what # calls[1].what
<1>1. calls \in Seq(CallSet) /\ ApartIn(calls)
    BY DEF Facts, ModulesTypeOK
<1>2. Has(calls, calls[1]) /\ calls[1] \in CallSet
    BY <1>1, TailCalls
<1>3. \A d : Has(calls, d) /\ d # calls[1] => d.of # calls[1].of \/ d.what # calls[1].what
    BY <1>1, TailCalls
<1>4. phase \in {"running", "unloading"}
    BY DEF Facts, ModulesTypeOK, Phases, Done
<1>5. phase = "running" => calls[1].do \in {"load", "complete"}
    BY <1>2 DEF Facts, RunningFacts, RunningCall
<1>6. phase = "unloading" => calls[1].do \in {"unload", "free"}
    BY <1>2 DEF Facts, UnloadingFacts, UnloadingCall
<1> QED
    BY <1>1, <1>2, <1>3, <1>4, <1>5, <1>6

\* The core has taken no use back before the shutdown.
LEMMA CoreWhileRunning ==
    ASSUME Facts, phase = "running", NEW m
    PROVE  CoreUses(m) = IF m = "world" THEN 1 ELSE 0
<1>1. ~Taken(m)
    BY DEF Facts, RunningFacts, Taken, ModulesTypeOK
<1> QED
    BY <1>1 DEF CoreUses

\* The uses while modules are loaded.
LEMMA UsesWhileRunning ==
    ASSUME Facts, RunningFacts, NEW r \in Modules, NEW m \in Modules
    PROVE  Uses(r, m) <=> Has(calls, Call("complete", r, m)) \/ m \in holds[r]
<1>1. \A c : InProgress(c) <=> Has(calls, c)
    BY InProgressIsHas DEF Facts
<1> QED
    BY <1>1 DEF Uses, Pending, RunningFacts

LEMMA UsesWhileRunningNext ==
    ASSUME ModulesTypeOK', NEW r \in Modules, NEW m \in Modules, terms'[r] = 0
    PROVE  Uses(r, m)' <=> Has(calls', Call("complete", r, m)) \/ m \in holds'[r]
<1>1. \A c : InProgress(c)' <=> Has(calls', c)
    BY HasIsInProgress
<1> QED
    BY <1>1 DEF Uses, Pending, Call

\* What has to be shown of a step while the client runs.
LEMMA RunningNext ==
    ASSUME Facts, phase = "running", phase' = "running",
           order' = order, terms' = terms, at' = at, enhanced' \in BOOLEAN,
           calls' \in Seq(CallSet), ApartIn(calls'), \A c : Has(calls', c) => RunningCall(c)',
           table' \in [Loaded' -> Int], Loaded' \subseteq Modules, Loaded' \subseteq Installed,
           alive' = Loaded', \A m \in Loaded' : table'[m] > 0,
           Loaded' # {} => "world" \in Loaded',
           holds' \in [Modules -> SUBSET Modules],
           \A r \in Modules : holds'[r] \subseteq MayHold(r) /\ (holds'[r] # {} => r \in Loaded'),
           \A m \in Modules :
               IF m \in Loaded'
               THEN table'[m] = Cardinality(UsersOf(m)') + (IF m = "world" THEN 1 ELSE 0)
               ELSE \A r \in Modules : ~Uses(r, m)'
    PROVE  Facts'
<1>1. ModulesTypeOK'
    BY DEF Facts, ModulesTypeOK, Loaded
<1>2. Known'
    BY DEF Facts, Known, Installed, Loaded
<1>3. RunningFacts /\ RunningFacts'
    BY DEF Facts, RunningFacts
<1>4. Counted'
    <2>1. \A m \in Modules : CoreUses(m)' = IF m = "world" THEN 1 ELSE 0
        <3>1. at' = 0 /\ DOMAIN order' = DOMAIN order /\ order \in Seq(Modules)
            BY <1>3 DEF Facts, ModulesTypeOK, RunningFacts
        <3>2. \A m \in Modules : ~Taken(m)'
            BY <3>1 DEF Taken
        <3> QED
            BY <3>2 DEF CoreUses
    <2>2. \A m \in Modules : (\A r \in Modules : ~Uses(r, m)') => UsersOf(m)' = {}
        BY DEF UsersOf, Modules
    <2> QED
        BY <2>1, <2>2 DEF Counted
<1>5. Done'
    BY DEF Facts, Done
<1> QED
    BY <1>1, <1>2, <1>3, <1>4, <1>5 DEF Facts

LEMMA LoadStepOf ==
    ASSUME Facts, Load, NEW c, NEW r, NEW m, c = calls[1], r = c.of, m = c.what
    PROVE  Facts'
<1> DEFINE news == IF r = Core THEN <<>> ELSE <<Call("complete", r, m)>>
<1>1. c.do = "load" /\ calls # <<>>
    BY DEF Load, Doing
<1>2. /\ calls \in Seq(CallSet) /\ ApartIn(calls) /\ Has(calls, c) /\ c \in CallSet
      /\ phase = "running"
      /\ \A d : Has(calls, d) /\ d # c => d.of # r \/ d.what # m
    BY <1>1, InnerCall
<1>3. RunningFacts /\ ModulesTypeOK /\ Known /\ Counted
    BY <1>2 DEF Facts
<1>4. r \in Modules \cup {Core} /\ m \in Modules
    BY <1>2 DEF CallSet
<1>5. RunningCall(c)
    BY <1>2, <1>3 DEF RunningFacts
<1>6. /\ order' = order /\ holds' = holds /\ terms' = terms /\ phase' = phase /\ at' = at
      /\ enhanced' = enhanced
    BY DEF Load
<1>7. Core \notin Modules
    BY DEF Core, Modules
<1>8. table \in [Loaded -> Int] /\ Loaded \subseteq Modules
    BY <1>3 DEF ModulesTypeOK
<1>9. \A d : Has(calls, d) => RunningCall(d)
    BY <1>3 DEF RunningFacts
\* The table and the objects.
<1>10. \/ /\ Then(<<>>) /\ m \notin Loaded /\ table' = table /\ alive' = alive
       \/ /\ Loaded' = Loaded \cup {m} /\ table' \in [Loaded' -> Int] /\ alive' = Loaded'
          /\ \A x \in Loaded \ {m} : table'[x] = table[x]
          /\ m \in Installed \cup Loaded
          /\ table'[m] = IF m \in Loaded THEN table[m] + 1 ELSE 1
          /\ Then((IF m \in Loaded THEN <<>> ELSE Calls("load", m, Initialize(m))) \o news)
    <2>0. alive = Loaded
        BY <1>3 DEF RunningFacts
    <2>1. CASE m \in Loaded
        <3>1. table' = With(m, table[m] + 1) /\ alive' = alive /\ Then(news)
            BY <2>1 DEF Load
        <3>2. table' = [x \in Loaded \cup {m} |-> IF x = m THEN table[m] + 1 ELSE table[x]]
            BY <3>1 DEF With
        <3>3. Loaded' = Loaded \cup {m} /\ Loaded' = Loaded
            BY <2>1, <3>2 DEF Loaded
        <3>4. <<>> \o news = news
            BY NoCalls
        <3> QED
            BY <1>8, <2>0, <2>1, <3>1, <3>2, <3>3, <3>4
    <2>2. CASE m \in Installed \ Loaded
        <3>1. table' = With(m, 1) /\ alive' = alive \cup {m} /\ Then(Calls("load", m, Initialize(m)) \o news)
            BY <2>2 DEF Load
        <3>2. table' = [x \in Loaded \cup {m} |-> IF x = m THEN 1 ELSE table[x]]
            BY <3>1 DEF With
        <3>3. Loaded' = Loaded \cup {m}
            BY <3>2 DEF Loaded
        <3> QED
            BY <1>8, <2>0, <2>2, <3>1, <3>2, <3>3
    <2>3. CASE m \notin Installed \cup Loaded
        BY <2>3 DEF Load
    <2> QED
        BY <2>1, <2>2, <2>3
\* The core's call is the first one, and the only one.
<1>11. CASE r = Core
    <2>1. calls = <<c>> /\ Len(calls) = 1 /\ c = Call("load", Core, "world") /\ m = "world" /\ Loaded = {}
        <3>1. calls = <<Call("load", Core, "world")>> /\ Loaded = {}
            BY <1>5, <1>11 DEF RunningCall
        <3>2. c = Call("load", Core, "world")
            BY <3>1
        <3> QED
            BY <3>1, <3>2 DEF Call
    <2>2. news = <<>> /\ \A d : Has(calls, d) <=> d = c
        BY <1>2, <1>11, <2>1, NoCalls
    <2>3. \A x, y \in Modules : ~Uses(x, y)
        <3>1. \A x \in Modules : x \notin Loaded /\ UsersOf(x) = {}
            BY <1>2, <1>3, <2>1 DEF Counted
        <3> QED
            BY <3>1 DEF UsersOf
    <2>4. \A x \in Modules : holds[x] \subseteq MayHold(x) /\ holds[x] = {}
        BY <1>3, <2>1 DEF Known, RunningFacts
    <2>5. CASE Then(<<>>) /\ table' = table /\ alive' = alive
        <3>1. calls' = <<>> /\ Loaded' = {} /\ alive' = {}
            BY <1>3, <2>1, <2>5 DEF Then, Loaded, RunningFacts
        <3>2. calls' \in Seq(CallSet) /\ ApartIn(calls') /\ \A d : ~Has(calls', d)
            BY <3>1, NoCalls
        <3>3. ModulesTypeOK'
            BY <1>3, <1>6, <1>8, <2>1, <2>5, <3>1, <3>2 DEF ModulesTypeOK, Loaded
        <3>4. \A x, y \in Modules : ~Uses(x, y)'
            <4> TAKE x, y \in Modules
            <4>1. Uses(x, y)' <=> Has(calls', Call("complete", x, y)) \/ y \in holds'[x]
                BY <1>3, <1>6, <3>3, UsesWhileRunningNext DEF RunningFacts
            <4> QED
                BY <1>6, <2>4, <3>2, <4>1
        <3> QED
            BY <1>2, <1>3, <1>6, <2>4, <3>1, <3>2, <3>3, <3>4, RunningNext DEF ModulesTypeOK
    <2>6. CASE Loaded' = Loaded \cup {m} /\ table' \in [Loaded' -> Int] /\ alive' = Loaded'
               /\ m \in Installed /\ table'[m] = 1
               /\ Then(Calls("load", m, Initialize(m)) \o news)
        <3>1. /\ Initialize(m) \in Seq(Modules)
              /\ \A i \in 1 .. Len(Initialize(m)) : Initialize(m)[i] \in MayHold(m)
              /\ \A i, j \in 1 .. Len(Initialize(m)) : Initialize(m)[i] = Initialize(m)[j] => i = j
            BY <1>4, InitializeIs
        <3> DEFINE more == Calls("load", m, Initialize(m))
        <3>2. more \in Seq(CallSet) /\ ApartIn(more)
              /\ \A d : Has(more, d) <=> \E i \in 1 .. Len(Initialize(m)) : d = Call("load", m, Initialize(m)[i])
            BY <1>4, <3>1, CallsOf
        <3> HIDE DEF more
        <3>3. calls' = more
            <4>1. more \o <<>> = more
                BY <3>2
            <4>2. Tail(calls) = <<>>
                BY <2>1
            <4>3. calls' = (more \o <<>>) \o <<>>
                BY <2>2, <2>6, <4>2 DEF Then, more
            <4> QED
                BY <4>1, <4>3
        <3>4. calls' \in Seq(CallSet) /\ ApartIn(calls')
            BY <3>2, <3>3
        <3>5. \A d : Has(calls', d) => d.do = "load" /\ d.of = m /\ d.what \in MayHold(m)
            BY <3>1, <3>2, <3>3, CallFields
        <3>6. Loaded' = {m} /\ alive' = {m}
            BY <2>1, <2>6
        <3>7. \A d : Has(calls', d) => RunningCall(d)'
            <4> SUFFICES ASSUME NEW d, Has(calls', d) PROVE RunningCall(d)'
                OBVIOUS
            <4>1. d.do = "load" /\ d.of = m /\ d.what \in MayHold(m) /\ m # Core /\ m \in alive'
                  /\ holds'[m] = {}
                BY <1>4, <1>6, <1>7, <2>4, <3>5, <3>6
            <4> QED
                BY <4>1 DEF RunningCall
        <3>8. ModulesTypeOK'
            BY <1>3, <1>4, <1>6, <2>6, <3>4, <3>6 DEF ModulesTypeOK, Loaded
        <3>9. \A x, y \in Modules : ~Uses(x, y)'
            <4> TAKE x, y \in Modules
            <4>1. Uses(x, y)' <=> Has(calls', Call("complete", x, y)) \/ y \in holds'[x]
                BY <1>3, <1>6, <3>8, UsesWhileRunningNext DEF RunningFacts
            <4>2. ~Has(calls', Call("complete", x, y))
                BY <3>5, CallFields
            <4> QED
                BY <1>6, <2>4, <4>1, <4>2
        <3>10. Cardinality(UsersOf(m)') = 0
            <4>1. UsersOf(m)' = {}
                BY <1>4, <3>9 DEF UsersOf, Modules
            <4> QED
                BY <4>1, FS_EmptySet
        <3>11. holds' \in [Modules -> SUBSET Modules] /\ enhanced' \in BOOLEAN
            BY <3>8 DEF ModulesTypeOK
        <3>12. /\ Loaded' \subseteq Modules /\ Loaded' \subseteq Installed /\ "world" \in Loaded'
               /\ \A x \in Loaded' : table'[x] > 0
               /\ \A x \in Modules : holds'[x] \subseteq MayHold(x) /\ (holds'[x] # {} => x \in Loaded')
            BY <1>4, <1>6, <2>1, <2>4, <2>6, <3>6
        <3>13. \A x \in Modules :
                   IF x \in Loaded'
                   THEN table'[x] = Cardinality(UsersOf(x)') + (IF x = "world" THEN 1 ELSE 0)
                   ELSE \A y \in Modules : ~Uses(y, x)'
            <4> TAKE x \in Modules
            <4>1. CASE x = m
                BY <2>1, <2>6, <3>6, <3>10, <4>1
            <4>2. CASE x # m
                BY <3>6, <3>9, <4>2
            <4> QED
                BY <4>1, <4>2
        <3> QED
            BY <1>2, <1>6, <2>6, <3>4, <3>7, <3>11, <3>12, <3>13, RunningNext
    <2> QED
        BY <1>10, <2>1, <2>5, <2>6
<1>12. CASE r \in Modules
    <2>1. r \in alive /\ r \in Loaded /\ m \in MayHold(r) /\ m \notin holds[r] /\ m # r
          /\ "world" \in Loaded
        <3>1. m \in MayHold(r) => m # r
            BY <1>12, OneHolder
        <3> QED
            BY <1>2, <1>3, <1>5, <1>7, <1>12, <3>1 DEF RunningCall, RunningFacts, Known
    <2>2. \A d : Has(calls, d) => d.of \in Loaded /\ d.what \in MayHold(d.of) \ holds[d.of]
        <3> SUFFICES ASSUME NEW d, Has(calls, d)
                     PROVE  d.of \in Loaded /\ d.what \in MayHold(d.of) \ holds[d.of]
            OBVIOUS
        <3>1. RunningCall(d)
            BY <1>9
        <3> QED
            BY <1>3, <2>1, <3>1 DEF RunningCall, RunningFacts
    <2> DEFINE done == Call("complete", r, m)
    <2>3. done \in CallSet /\ done.do = "complete" /\ done.of = r /\ done.what = m /\ done # c
        <3>1. done \in CallSet
            BY <1>4, <1>12 DEF Call, CallSet
        <3> QED
            BY <1>1, <3>1, CallFields
    <2> HIDE DEF done
    <2>4. news = <<done>> /\ news \in Seq(CallSet) /\ ApartIn(news) /\ \A d : Has(news, d) <=> d = done
        BY <1>7, <1>12, <2>3, NoCalls DEF done
    <2> HIDE DEF news
    <2>5. CASE Then(<<>>) /\ m \notin Loaded /\ table' = table /\ alive' = alive
        <3>1. /\ calls' \in Seq(CallSet) /\ ApartIn(calls')
              /\ \A d : Has(calls', d) <=> Has(calls, d) /\ d # c
            BY <1>1, <1>2, <2>5, Popped, NoCalls
        <3>2. Loaded' = Loaded
            BY <2>5 DEF Loaded
        <3>3. ModulesTypeOK'
            BY <1>3, <1>6, <2>5, <3>1, <3>2 DEF ModulesTypeOK
        <3>4. \A d : Has(calls', d) => RunningCall(d)'
            <4> SUFFICES ASSUME NEW d, Has(calls', d) PROVE RunningCall(d)'
                OBVIOUS
            <4>1. RunningCall(d) /\ d.of # Core /\ Has(calls, d)
                BY <1>7, <1>8, <1>9, <2>2, <3>1
            <4> QED
                BY <1>6, <2>5, <4>1 DEF RunningCall
        <3>5. \A x, y \in Modules : Uses(x, y)' <=> Uses(x, y)
            <4> TAKE x, y \in Modules
            <4>1. Uses(x, y)' <=> Has(calls', Call("complete", x, y)) \/ y \in holds'[x]
                BY <1>3, <1>6, <3>3, UsesWhileRunningNext DEF RunningFacts
            <4>2. Uses(x, y) <=> Has(calls, Call("complete", x, y)) \/ y \in holds[x]
                BY <1>3, UsesWhileRunning
            <4>3. Call("complete", x, y) # c
                BY <1>1, CallFields
            <4> QED
                BY <1>6, <3>1, <4>1, <4>2, <4>3
        <3>6. \A y \in Modules : UsersOf(y)' = UsersOf(y)
            BY <3>5, UsersStay
        <3>7. \A x \in Modules :
                  IF x \in Loaded'
                  THEN table'[x] = Cardinality(UsersOf(x)') + (IF x = "world" THEN 1 ELSE 0)
                  ELSE \A y \in Modules : ~Uses(y, x)'
            <4> TAKE x \in Modules
            <4>1. IF x \in Loaded THEN table[x] = Cardinality(UsersOf(x)) + (IF x = "world" THEN 1 ELSE 0)
                                  ELSE UsersOf(x) = {}
                BY <1>2, <1>3, CoreWhileRunning DEF Counted
            <4>2. UsersOf(x) = {} => \A y \in Modules : ~Uses(y, x)
                BY DEF UsersOf
            <4> QED
                BY <2>5, <3>2, <3>5, <3>6, <4>1, <4>2
        <3>8. /\ holds' \in [Modules -> SUBSET Modules] /\ enhanced' \in BOOLEAN
              /\ alive' = Loaded' /\ \A x \in Loaded' : table'[x] > 0
            BY <1>3, <1>6, <2>5, <3>2, <3>3 DEF ModulesTypeOK, RunningFacts
        <3>9. /\ table' \in [Loaded' -> Int] /\ Loaded' \subseteq Modules /\ Loaded' \subseteq Installed
              /\ "world" \in Loaded'
              /\ \A x \in Modules : holds'[x] \subseteq MayHold(x) /\ (holds'[x] # {} => x \in Loaded')
            BY <1>3, <1>6, <1>8, <2>1, <2>5, <3>2 DEF Known, RunningFacts
        <3> QED
            BY <1>2, <1>6, <3>1, <3>4, <3>7, <3>8, <3>9, RunningNext
    <2>6. CASE /\ Loaded' = Loaded \cup {m} /\ table' \in [Loaded' -> Int] /\ alive' = Loaded'
               /\ \A x \in Loaded \ {m} : table'[x] = table[x]
               /\ m \in Installed \cup Loaded
               /\ table'[m] = IF m \in Loaded THEN table[m] + 1 ELSE 1
               /\ Then((IF m \in Loaded THEN <<>> ELSE Calls("load", m, Initialize(m))) \o news)
        <3> DEFINE first == IF m \in Loaded THEN <<>> ELSE Calls("load", m, Initialize(m))
        <3>1. /\ first \in Seq(CallSet) /\ ApartIn(first)
              /\ \A d : Has(first, d) => d.do = "load" /\ d.of = m /\ d.what \in MayHold(m) /\ m \notin Loaded
            <4>1. CASE m \in Loaded
                BY <4>1, NoCalls
            <4>2. CASE m \notin Loaded
                <5>1. /\ Initialize(m) \in Seq(Modules)
                      /\ \A i \in 1 .. Len(Initialize(m)) : Initialize(m)[i] \in MayHold(m)
                      /\ \A i, j \in 1 .. Len(Initialize(m)) : Initialize(m)[i] = Initialize(m)[j] => i = j
                    BY <1>4, InitializeIs
                <5> DEFINE s == Calls("load", m, Initialize(m))
                <5>2. s \in Seq(CallSet) /\ ApartIn(s)
                      /\ \A d : Has(s, d) <=> \E i \in 1 .. Len(Initialize(m)) : d = Call("load", m, Initialize(m)[i])
                    BY <1>4, <5>1, CallsOf
                <5> HIDE DEF s
                <5>3. \A d : Has(s, d) => d.do = "load" /\ d.of = m /\ d.what \in MayHold(m)
                    BY <5>1, <5>2, CallFields
                <5> QED
                    BY <4>2, <5>2, <5>3 DEF s
            <4> QED
                BY <4>1, <4>2
        <3> HIDE DEF first
        <3> DEFINE more == first \o news
        <3>2. /\ more \in Seq(CallSet) /\ ApartIn(more)
              /\ \A d : Has(more, d) <=> Has(first, d) \/ d = done
            <4>1. \A d, e : Has(first, d) /\ Has(news, e) => d.of # e.of \/ d.what # e.what
                BY <2>1, <2>3, <2>4, <3>1
            <4> QED
                BY <2>4, <3>1, <4>1, ConcatCalls
        <3> HIDE DEF more
        <3>3. Then(more)
            BY <2>6 DEF first, more
        <3>4. \A d, e : Has(more, d) /\ Has(calls, e) /\ e # calls[1] => d.of # e.of \/ d.what # e.what
            <4> SUFFICES ASSUME NEW d, NEW e, Has(more, d), Has(calls, e), e # c
                         PROVE  d.of # e.of \/ d.what # e.what
                OBVIOUS
            <4>1. CASE d = done
                BY <1>2, <2>3, <4>1
            <4>2. CASE Has(first, d)
                BY <2>2, <3>1, <4>2
            <4> QED
                BY <3>2, <4>1, <4>2
        <3>5. /\ calls' \in Seq(CallSet) /\ ApartIn(calls')
              /\ \A d : Has(calls', d) <=> Has(more, d) \/ (Has(calls, d) /\ d # c)
            BY <1>1, <1>2, <3>2, <3>3, <3>4, Popped
        <3>6. \A d : Has(calls', d) => \/ d.do = "load" /\ d.of = m /\ d.what \in MayHold(m) /\ m \notin Loaded
                                       \/ d = done
                                       \/ Has(calls, d)
            BY <3>1, <3>2, <3>5
        <3>7. \A x, y \in Modules : Has(calls', Call("complete", x, y))
                  <=> Has(calls, Call("complete", x, y)) \/ (x = r /\ y = m)
            <4> TAKE x, y \in Modules
            <4> DEFINE d == Call("complete", x, y)
            <4>1. d.do = "complete" /\ (d = done <=> x = r /\ y = m) /\ d # c
                BY <1>1, <2>3, CallFields DEF done
            <4> HIDE DEF d
            <4>2. ~Has(first, d)
                BY <3>1, <4>1
            <4> QED
                BY <3>2, <3>5, <4>1, <4>2 DEF d
        <3>8. ModulesTypeOK'
            BY <1>3, <1>4, <1>6, <1>8, <2>6, <3>5 DEF ModulesTypeOK, Loaded
        <3>9. \A x, y \in Modules : Uses(x, y)' <=> Uses(x, y) \/ (x = r /\ y = m)
            <4> TAKE x, y \in Modules
            <4>1. Uses(x, y)' <=> Has(calls', Call("complete", x, y)) \/ y \in holds'[x]
                BY <1>3, <1>6, <3>8, UsesWhileRunningNext DEF RunningFacts
            <4>2. Uses(x, y) <=> Has(calls, Call("complete", x, y)) \/ y \in holds[x]
                BY <1>3, UsesWhileRunning
            <4> QED
                BY <1>6, <3>7, <4>1, <4>2
        <3>10. ~Uses(r, m)
            <4>1. ~Has(calls, done)
                BY <1>2, <2>3
            <4> QED
                BY <1>3, <1>4, <1>12, <2>1, <4>1, UsesWhileRunning DEF done
        <3>11. \A d : Has(calls', d) => RunningCall(d)'
            <4> SUFFICES ASSUME NEW d, Has(calls', d) PROVE RunningCall(d)'
                OBVIOUS
            <4>1. CASE d.do = "load" /\ d.of = m /\ d.what \in MayHold(m) /\ m \notin Loaded
                <5>1. holds'[m] = {} /\ m # Core /\ m \in alive'
                    BY <1>3, <1>4, <1>6, <1>7, <2>6, <4>1 DEF Known, RunningFacts
                <5> QED
                    BY <4>1, <5>1 DEF RunningCall
            <4>2. CASE d = done
                <5>1. d.do = "complete" /\ d.of = r /\ d.what = m /\ r # Core
                    BY <1>7, <1>12, <2>3, <4>2
                <5>2. r \in alive' /\ holds'[r] = holds[r] /\ m \in MayHold(r) \ holds'[r]
                    BY <1>6, <2>1, <2>6
                <5> QED
                    BY <5>1, <5>2 DEF RunningCall
            <4>3. CASE Has(calls, d)
                <5>1. RunningCall(d) /\ d.of \in Loaded /\ d.of # Core
                    BY <1>7, <1>8, <1>9, <2>2, <4>3
                <5> QED
                    BY <1>6, <2>6, <5>1 DEF RunningCall
            <4> QED
                BY <3>6, <4>1, <4>2, <4>3
        <3>12. \A x \in Modules :
                   IF x \in Loaded'
                   THEN table'[x] = Cardinality(UsersOf(x)') + (IF x = "world" THEN 1 ELSE 0)
                   ELSE \A y \in Modules : ~Uses(y, x)'
            <4> TAKE x \in Modules
            <4>1. IF x \in Loaded THEN table[x] = Cardinality(UsersOf(x)) + (IF x = "world" THEN 1 ELSE 0)
                                  ELSE UsersOf(x) = {}
                BY <1>2, <1>3, CoreWhileRunning DEF Counted
            <4>2. UsersOf(x) = {} => \A y \in Modules : ~Uses(y, x)
                BY DEF UsersOf
            <4>3. CASE x # m
                <5>1. UsersOf(x)' = UsersOf(x)
                    BY <3>9, <4>3, UsersStay
                <5> QED
                    BY <2>6, <3>9, <4>1, <4>2, <4>3, <5>1
            <4>4. CASE x = m
                <5>1. Cardinality(UsersOf(m)') = Cardinality(UsersOf(m)) + 1 /\ Cardinality(UsersOf(m)) \in Nat
                    <6>1. \A y \in Modules : Uses(y, m)' <=> Uses(y, m) \/ y = r
                        BY <1>4, <3>9
                    <6> QED
                        BY <1>12, <3>10, <6>1, UsersGrow
                <5>2. CASE m \in Loaded
                    BY <2>6, <4>1, <4>4, <5>1, <5>2
                <5>3. CASE m \notin Loaded
                    <6>1. Cardinality(UsersOf(m)) = 0 /\ m # "world"
                        BY <2>1, <4>1, <4>4, <5>3, FS_EmptySet
                    <6> QED
                        BY <2>6, <4>4, <5>1, <5>3, <6>1
                <5> QED
                    BY <5>2, <5>3
            <4> QED
                BY <4>3, <4>4
        <3>13. /\ holds' \in [Modules -> SUBSET Modules] /\ enhanced' \in BOOLEAN
               /\ \A x \in Loaded' : table'[x] > 0
            <4>1. \A x \in Loaded : table[x] \in Int /\ table[x] > 0
                BY <1>3, <1>8 DEF RunningFacts
            <4> QED
                BY <2>6, <3>8, <4>1 DEF ModulesTypeOK
        <3>14. /\ Loaded' \subseteq Modules /\ Loaded' \subseteq Installed /\ "world" \in Loaded'
               /\ \A x \in Modules : holds'[x] \subseteq MayHold(x) /\ (holds'[x] # {} => x \in Loaded')
            BY <1>3, <1>4, <1>6, <1>8, <2>1, <2>6 DEF Known, RunningFacts
        <3> QED
            BY <1>2, <1>6, <2>6, <3>5, <3>11, <3>12, <3>13, <3>14, RunningNext
    <2> QED
        BY <1>10, <2>5, <2>6
<1> QED
    BY <1>4, <1>11, <1>12 DEF Core, Modules

LEMMA LoadStep == Facts /\ Load => Facts'
<1> SUFFICES ASSUME Facts, Load PROVE Facts'
    OBVIOUS
<1>1. PICK c : c = calls[1]
    OBVIOUS
<1>2. PICK r : r = c.of
    OBVIOUS
<1>3. PICK m : m = c.what
    OBVIOUS
<1> QED
    BY <1>1, <1>2, <1>3, LoadStepOf

\* The same uses, the same counts.
LEMMA SameUses ==
    ASSUME Facts, phase = "running", table' = table,
           \A x, y \in Modules : Uses(x, y)' <=> Uses(x, y)
    PROVE  \A m \in Modules :
               IF m \in Loaded'
               THEN table'[m] = Cardinality(UsersOf(m)') + (IF m = "world" THEN 1 ELSE 0)
               ELSE \A r \in Modules : ~Uses(r, m)'
<1> TAKE m \in Modules
<1>1. IF m \in Loaded THEN table[m] = Cardinality(UsersOf(m)) + (IF m = "world" THEN 1 ELSE 0)
                      ELSE UsersOf(m) = {}
    BY CoreWhileRunning DEF Facts, Counted
<1>2. UsersOf(m) = {} => \A r \in Modules : ~Uses(r, m)
    BY DEF UsersOf
<1>3. UsersOf(m)' = UsersOf(m) /\ Loaded' = Loaded
    BY UsersStay DEF Loaded
<1> QED
    BY <1>1, <1>2, <1>3

LEMMA LoadCompleteStepOf ==
    ASSUME Facts, LoadComplete, NEW c, NEW r, NEW m, c = calls[1], r = c.of, m = c.what
    PROVE  Facts'
<1>1. c.do = "complete" /\ calls # <<>>
    BY DEF LoadComplete, Doing
<1>2. /\ calls \in Seq(CallSet) /\ ApartIn(calls) /\ Has(calls, c) /\ c \in CallSet
      /\ phase = "running"
      /\ \A d : Has(calls, d) /\ d # c => d.of # r \/ d.what # m
    BY <1>1, InnerCall
<1>3. RunningFacts /\ ModulesTypeOK /\ Known
    BY <1>2 DEF Facts
<1>4. m \in Modules /\ Core \notin Modules /\ c = Call("complete", r, m)
    BY <1>1, <1>2, CallIs DEF CallSet, Core, Modules
<1>5. \A d : Has(calls, d) => RunningCall(d)
    BY <1>3 DEF RunningFacts
\* The core's call is another.
<1>6. \A d : Has(calls, d) => d.of # Core
    <2>1. calls # <<Call("load", Core, "world")>>
        BY <1>1 DEF Call
    <2> QED
        BY <1>5, <2>1 DEF RunningCall
<1>7. r \in Modules /\ r \in alive /\ m \in MayHold(r)
    BY <1>2, <1>3, <1>5, <1>6 DEF RunningCall, ModulesTypeOK
<1>8. /\ order' = order /\ table' = table /\ alive' = alive /\ terms' = terms /\ phase' = phase
      /\ at' = at /\ enhanced' = enhanced /\ Then(<<>>)
      /\ holds' = [holds EXCEPT ![r] = @ \cup {m}]
    BY <1>7 DEF LoadComplete
<1>9. /\ calls' \in Seq(CallSet) /\ ApartIn(calls')
      /\ \A d : Has(calls', d) <=> Has(calls, d) /\ d # c
    BY <1>1, <1>2, <1>8, Popped, NoCalls
<1>10. \A x \in Modules : holds'[x] = IF x = r THEN holds[x] \cup {m} ELSE holds[x]
    BY <1>3, <1>7, <1>8 DEF ModulesTypeOK
<1>11. Loaded' = Loaded
    BY <1>8 DEF Loaded
<1>12. ModulesTypeOK'
    <2>1. holds' \in [Modules -> SUBSET Modules]
        BY <1>3, <1>4, <1>8 DEF ModulesTypeOK
    <2> QED
        BY <1>3, <1>8, <1>9, <1>11, <2>1 DEF ModulesTypeOK
<1>13. \A d : Has(calls', d) => RunningCall(d)'
    <2> SUFFICES ASSUME NEW d, Has(calls', d) PROVE RunningCall(d)'
        OBVIOUS
    <2>1. RunningCall(d) /\ d.of # Core /\ (d.of # r \/ d.what # m)
        BY <1>2, <1>5, <1>6, <1>9
    <2>2. d.of \in alive' /\ d.of \in Modules /\ d.what \in MayHold(d.of) \ holds'[d.of]
        BY <1>3, <1>8, <1>10, <2>1 DEF RunningCall, ModulesTypeOK
    <2> QED
        BY <2>1, <2>2 DEF RunningCall
<1>14. \A x, y \in Modules : Uses(x, y)' <=> Uses(x, y)
    <2> TAKE x, y \in Modules
    <2>1. Uses(x, y)' <=> Has(calls', Call("complete", x, y)) \/ y \in holds'[x]
        BY <1>3, <1>8, <1>12, UsesWhileRunningNext DEF RunningFacts
    <2>2. Uses(x, y) <=> Has(calls, Call("complete", x, y)) \/ y \in holds[x]
        BY <1>3, UsesWhileRunning
    <2>3. Call("complete", x, y) = c <=> x = r /\ y = m
        BY <1>4, CallFields
    <2> QED
        BY <1>2, <1>9, <1>10, <2>1, <2>2, <2>3
<1>15. \A x \in Modules :
           IF x \in Loaded'
           THEN table'[x] = Cardinality(UsersOf(x)') + (IF x = "world" THEN 1 ELSE 0)
           ELSE \A y \in Modules : ~Uses(y, x)'
    BY <1>2, <1>8, <1>14, SameUses
<1>16. /\ table' \in [Loaded' -> Int] /\ Loaded' \subseteq Modules /\ Loaded' \subseteq Installed
       /\ (Loaded' # {} => "world" \in Loaded') /\ alive' = Loaded' /\ enhanced' \in BOOLEAN
       /\ \A x \in Loaded' : table'[x] > 0
    BY <1>2, <1>3, <1>8, <1>11 DEF ModulesTypeOK, Known, RunningFacts
<1>17. /\ holds' \in [Modules -> SUBSET Modules]
       /\ \A x \in Modules : holds'[x] \subseteq MayHold(x) /\ (holds'[x] # {} => x \in Loaded')
    <2>1. holds' \in [Modules -> SUBSET Modules]
        BY <1>12 DEF ModulesTypeOK
    <2>2. \A x \in Modules : holds[x] \subseteq MayHold(x) /\ (holds[x] # {} => x \in Loaded)
        BY <1>3 DEF Known, RunningFacts
    <2>3. r \in Loaded
        BY <1>3, <1>7 DEF RunningFacts
    <2> QED
        BY <1>7, <1>10, <1>11, <2>1, <2>2, <2>3
<1> QED
    BY <1>2, <1>8, <1>9, <1>13, <1>15, <1>16, <1>17, RunningNext

LEMMA LoadCompleteStep == Facts /\ LoadComplete => Facts'
<1> SUFFICES ASSUME Facts, LoadComplete PROVE Facts'
    OBVIOUS
<1>1. PICK c : c = calls[1]
    OBVIOUS
<1>2. PICK r : r = c.of
    OBVIOUS
<1>3. PICK m : m = c.what
    OBVIOUS
<1> QED
    BY <1>1, <1>2, <1>3, LoadCompleteStepOf

LEMMA OnPuebloEnhancedStep == Facts /\ OnPuebloEnhanced => Facts'
<1> SUFFICES ASSUME Facts, OnPuebloEnhanced PROVE Facts'
    OBVIOUS
<1>1. /\ calls = <<>> /\ phase = "running" /\ "world" \in alive /\ enhanced' = TRUE
      /\ calls' = Calls("load", "world", Wanted)
      /\ order' = order /\ table' = table /\ alive' = alive /\ holds' = holds /\ terms' = terms
      /\ phase' = phase /\ at' = at
    BY DEF OnPuebloEnhanced
<1>2. RunningFacts /\ ModulesTypeOK /\ Known
    BY <1>1 DEF Facts
<1>3. \A d : ~Has(calls, d)
    BY <1>1, NoCalls
<1>4. "world" \in Modules /\ "world" # Core
    BY DEF Modules, Core
\* What the world holds, and may, before the step.
<1>5. PICK held : held = holds["world"]
    OBVIOUS
<1>6. PICK them \in Seq(Modules) :
          /\ them = Wanted
          /\ \A x : (\E i \in 1 .. Len(them) : them[i] = x) <=> x \in MayHold("world") \ held
          /\ \A i, j \in 1 .. Len(them) : them[i] = them[j] => i = j
    BY <1>5, WantedIs
<1> DEFINE s == Calls("load", "world", them)
<1>7. s \in Seq(CallSet) /\ ApartIn(s)
      /\ \A d : Has(s, d) <=> \E i \in 1 .. Len(them) : d = Call("load", "world", them[i])
    BY <1>4, <1>6, CallsOf
<1>8. calls' = s
    BY <1>1, <1>6
<1> HIDE DEF s
<1>9. \A d : Has(calls', d) => d.do = "load" /\ d.of = "world" /\ d.what \in MayHold("world") \ held
    BY <1>6, <1>7, <1>8, CallFields
<1>10. calls' \in Seq(CallSet) /\ ApartIn(calls')
    BY <1>7, <1>8
<1>11. Loaded' = Loaded
    BY <1>1 DEF Loaded
<1>12. ModulesTypeOK'
    BY <1>1, <1>2, <1>10, <1>11 DEF ModulesTypeOK
<1>13. \A d : Has(calls', d) => RunningCall(d)'
    <2> SUFFICES ASSUME NEW d, Has(calls', d) PROVE RunningCall(d)'
        OBVIOUS
    <2>1. d.do = "load" /\ d.of = "world" /\ d.of # Core
          /\ d.of \in alive' /\ d.what \in MayHold(d.of) \ holds'[d.of]
        BY <1>1, <1>4, <1>5, <1>9
    <2> QED
        BY <2>1 DEF RunningCall
<1>14. \A x, y \in Modules : Uses(x, y)' <=> Uses(x, y)
    <2> TAKE x, y \in Modules
    <2>1. Uses(x, y)' <=> Has(calls', Call("complete", x, y)) \/ y \in holds'[x]
        BY <1>1, <1>2, <1>12, UsesWhileRunningNext DEF RunningFacts
    <2>2. Uses(x, y) <=> Has(calls, Call("complete", x, y)) \/ y \in holds[x]
        BY <1>2, UsesWhileRunning
    <2>3. ~Has(calls', Call("complete", x, y))
        BY <1>9, CallFields
    <2> QED
        BY <1>1, <1>3, <2>1, <2>2, <2>3
<1>15. \A x \in Modules :
           IF x \in Loaded'
           THEN table'[x] = Cardinality(UsersOf(x)') + (IF x = "world" THEN 1 ELSE 0)
           ELSE \A y \in Modules : ~Uses(y, x)'
    BY <1>1, <1>14, SameUses
<1>16. /\ table' \in [Loaded' -> Int] /\ Loaded' \subseteq Modules /\ Loaded' \subseteq Installed
       /\ (Loaded' # {} => "world" \in Loaded') /\ alive' = Loaded' /\ enhanced' \in BOOLEAN
       /\ \A x \in Loaded' : table'[x] > 0
    BY <1>1, <1>2, <1>11 DEF ModulesTypeOK, Known, RunningFacts
<1>17. /\ holds' \in [Modules -> SUBSET Modules]
       /\ \A x \in Modules : holds'[x] \subseteq MayHold(x) /\ (holds'[x] # {} => x \in Loaded')
    BY <1>1, <1>2, <1>11 DEF ModulesTypeOK, Known, RunningFacts
<1> QED
    BY <1>1, <1>10, <1>13, <1>15, <1>16, <1>17, RunningNext

-----------------------------------------------------------------------------
(* Unloading. *)

LEMMA UsesNext ==
    ASSUME ModulesTypeOK', NEW r \in Modules, NEW m \in Modules
    PROVE  Uses(r, m)' <=> \/ Has(calls', Call("complete", r, m))
                           \/ m \in holds'[r] /\ (terms'[r] = 0 \/ Has(calls', Call("unload", r, m)))
<1>1. \A c : InProgress(c)' <=> Has(calls', c)
    BY HasIsInProgress
<1> QED
    BY <1>1 DEF Uses, Pending, Call

LEMMA TakenNext ==
    ASSUME ModulesTypeOK', NEW m
    PROVE  Taken(m)' <=> /\ \E i \in DOMAIN order' : i < at' /\ order'[i] = m
                         /\ ~Has(calls', Call("unload", Core, m))
<1>1. \A c : InProgress(c)' <=> Has(calls', c)
    BY HasIsInProgress
<1> QED
    BY <1>1 DEF Taken, Pending, Call

\* The uses while modules are unloaded.
LEMMA UsesWhileUnloading ==
    ASSUME Facts, UnloadingFacts, NEW r \in Modules, NEW m \in Modules
    PROVE  Uses(r, m) <=> m \in holds[r] /\ (terms[r] = 0 \/ Has(calls, Call("unload", r, m)))
<1>1. \A c : InProgress(c) <=> Has(calls, c)
    BY InProgressIsHas DEF Facts
<1>2. ~Has(calls, Call("complete", r, m))
    <2>1. \A c : Has(calls, c) => c.do # "complete"
        BY DEF UnloadingFacts, UnloadingCall
    <2> QED
        BY <2>1, CallFields
<1> QED
    BY <1>1, <1>2 DEF Uses, Pending

LEMMA TakenNow ==
    ASSUME ModulesTypeOK, NEW m
    PROVE  Taken(m) <=> /\ \E i \in DOMAIN order : i < at /\ order[i] = m
                        /\ ~Has(calls, Call("unload", Core, m))
BY InProgressIsHas DEF Taken, Pending

LEMMA UsesWhileUnloadingNext ==
    ASSUME ModulesTypeOK', \A c : Has(calls', c) => c.do # "complete",
           NEW r \in Modules, NEW m \in Modules
    PROVE  Uses(r, m)' <=> m \in holds'[r] /\ (terms'[r] = 0 \/ Has(calls', Call("unload", r, m)))
<1>1. ~Has(calls', Call("complete", r, m))
    BY CallFields
<1> QED
    BY <1>1, UsesNext

\* What has to be shown of a step while the client is unloaded.
LEMMA UnloadingNext ==
    ASSUME Facts, phase' = "unloading", order' = order, Loaded' = Loaded, ModulesTypeOK',
           ApartIn(calls'), UnloadingFacts',
           \A r \in Modules : holds'[r] \subseteq MayHold(r) /\ (holds'[r] # {} => r \in alive'),
           Loaded # {} => "world" \in Loaded,
           \A m \in Modules :
               IF m \in Loaded THEN table'[m] = Cardinality(UsersOf(m)') + CoreUses(m)'
                               ELSE \A r \in Modules : ~Uses(r, m)'
    PROVE  Facts'
<1>1. Known'
    <2>1. (\A i, j \in DOMAIN order : order[i] = order[j] => i = j) /\ Loaded \subseteq Installed
        BY DEF Facts, Known
    <2>2. Installed' = Installed
        BY DEF Installed
    <2> QED
        BY <2>1, <2>2 DEF Known
<1>2. Counted'
    <2>1. \A m \in Modules : (\A r \in Modules : ~Uses(r, m)') => UsersOf(m)' = {}
        BY DEF UsersOf, Modules
    <2> QED
        BY <2>1 DEF Counted
<1>3. Done'
    <2>1. \A m \in Modules : terms'[m] <= 1
        BY DEF UnloadingFacts, Modules
    <2> QED
        BY <2>1 DEF Done, Modules
<1> QED
    BY <1>1, <1>2, <1>3 DEF Facts

\* The uses, as they are counted.
LEMMA UnloadingCounts ==
    ASSUME Facts, phase \in {"running", "unloading"}, NEW m \in Modules
    PROVE  IF m \in Loaded THEN table[m] = Cardinality(UsersOf(m)) + CoreUses(m)
                           ELSE \A r \in Modules : ~Uses(r, m)
BY DEF Facts, Counted, UsersOf

LEMMA StartShutdownStep == Facts /\ StartShutdown => Facts'
<1> SUFFICES ASSUME Facts, StartShutdown PROVE Facts'
    OBVIOUS
<1>1. /\ calls = <<>> /\ phase = "running" /\ phase' = "unloading" /\ at' = 1
      /\ order' = order /\ table' = table /\ alive' = alive /\ holds' = holds /\ calls' = calls
      /\ terms' = terms /\ enhanced' = enhanced
    BY DEF StartShutdown
<1>2. RunningFacts /\ ModulesTypeOK /\ Known
    BY <1>1 DEF Facts
<1>3. Loaded' = Loaded
    BY <1>1 DEF Loaded
<1>4. calls' = <<>> /\ calls' \in Seq(CallSet) /\ ApartIn(calls') /\ FreedLast(calls')
      /\ (\A c : ~Has(calls', c)) /\ \A c : ~Has(calls, c)
    BY <1>1, NoCalls
<1>5. order \in Seq(Modules) /\ DOMAIN order = 1 .. Len(order) /\ Len(order) \in Nat
    BY <1>2 DEF ModulesTypeOK
<1>6. ModulesTypeOK'
    BY <1>1, <1>2, <1>3, <1>4, <1>5 DEF ModulesTypeOK, Phases
<1>7. UnloadingFacts'
    <2>1. \A m \in Loaded : m \in Modules /\ table[m] \in Int /\ table[m] > 0
        BY <1>2 DEF ModulesTypeOK, RunningFacts
    <2>2. \A m \in Modules : terms'[m] = IF m \in Loaded' /\ table'[m] <= 0 THEN 1 ELSE 0
        BY <1>1, <1>2, <1>3, <2>1 DEF RunningFacts
    <2>3. alive' \subseteq Loaded' /\ \A m \in Loaded' : m \in alive' /\ terms'[m] = 0
        BY <1>1, <1>2, <1>3, <2>1 DEF RunningFacts
    <2> QED
        BY <1>1, <1>4, <2>2, <2>3 DEF UnloadingFacts, Modules
<1>8. \A r \in Modules : holds'[r] \subseteq MayHold(r) /\ (holds'[r] # {} => r \in alive')
    BY <1>1, <1>2 DEF Known
<1>9. Loaded # {} => "world" \in Loaded
    BY <1>1, <1>2 DEF Known
<1>10. \A x, y \in Modules : Uses(x, y)' <=> Uses(x, y)
    <2> TAKE x, y \in Modules
    <2>1. Uses(x, y)' <=> y \in holds'[x]
        BY <1>1, <1>2, <1>4, <1>6, UsesNext DEF RunningFacts
    <2>2. Uses(x, y) <=> y \in holds[x]
        BY <1>2, <1>4, UsesWhileRunning
    <2> QED
        BY <1>1, <2>1, <2>2
<1>11. \A m \in Modules : CoreUses(m)' = IF m = "world" THEN 1 ELSE 0
    <2>1. \A i \in DOMAIN order' : ~(i < at')
        BY <1>1, <1>5
    <2>2. \A m : ~Taken(m)'
        BY <1>6, <2>1, TakenNext
    <2> QED
        BY <2>2 DEF CoreUses
<1>12. \A m \in Modules :
           IF m \in Loaded THEN table'[m] = Cardinality(UsersOf(m)') + CoreUses(m)'
                           ELSE \A r \in Modules : ~Uses(r, m)'
    BY <1>1, <1>3, <1>10, <1>11, SameUses
<1> QED
    BY <1>1, <1>3, <1>4, <1>6, <1>7, <1>8, <1>9, <1>12, UnloadingNext

LEMMA VisitStepOf ==
    ASSUME Facts, Visit, NEW m, m = order[at]
    PROVE  Facts'
<1>1. /\ calls = <<>> /\ phase = "unloading" /\ at <= Len(order)
      /\ order' = order /\ table' = table /\ alive' = alive /\ holds' = holds /\ terms' = terms
      /\ phase' = phase /\ at' = at + 1 /\ enhanced' = enhanced
    BY DEF Visit
<1>2. UnloadingFacts /\ ModulesTypeOK /\ Known
    BY <1>1 DEF Facts
<1>3. Loaded' = Loaded
    BY <1>1 DEF Loaded
<1>4. /\ order \in Seq(Modules) /\ DOMAIN order = 1 .. Len(order) /\ Len(order) \in Nat
      /\ at \in 1 .. Len(order) /\ m \in Modules /\ at \in DOMAIN order
    BY <1>1, <1>2 DEF ModulesTypeOK, UnloadingFacts
<1> DEFINE c == Call("unload", Core, m)
<1>5. c \in CallSet /\ c.do = "unload" /\ c.of = Core /\ c.what = m
    BY <1>4, CallFields DEF Call, CallSet
<1>6. \/ m \in Loaded /\ calls' = <<c>>
      \/ m \notin Loaded /\ calls' = <<>>
    BY DEF Visit
<1>7. /\ calls' \in Seq(CallSet) /\ ApartIn(calls')
      /\ \A d : Has(calls', d) <=> m \in Loaded /\ d = c
      /\ (\A d : ~Has(calls, d)) /\ (m \in Loaded => calls' = <<c>>)
    BY <1>1, <1>5, <1>6, NoCalls
<1> HIDE DEF c
<1>8. Core \notin Modules
    BY DEF Core, Modules
<1>9. FreedLast(calls')
    <2>1. CASE calls' = <<c>>
        BY <1>5, <2>1 DEF FreedLast
    <2>2. CASE calls' = <<>>
        BY <2>2, NoCalls
    <2> QED
        BY <1>6, <2>1, <2>2
<1>10. ModulesTypeOK'
    <2>1. at' \in 0 .. Len(order') + 1
        BY <1>1, <1>4
    <2> QED
        BY <1>1, <1>2, <1>3, <1>7, <2>1 DEF ModulesTypeOK
<1>11. UnloadingFacts'
    <2>1. \A d : Has(calls', d) => UnloadingCall(d)'
        <3> SUFFICES ASSUME NEW d, Has(calls', d) PROVE UnloadingCall(d)'
            OBVIOUS
        <3>1. d.do = "unload" /\ d.of = Core /\ d.what = m /\ calls' = <<c>>
            BY <1>5, <1>7
        <3>2. Len(calls') = 1 /\ at' > 1 /\ d.what = order'[at' - 1]
            BY <1>1, <1>4, <3>1
        <3> QED
            BY <3>1, <3>2 DEF UnloadingCall
    <2>2. \A x : ~Has(calls', Call("free", x, x)) /\ ~Has(calls, Call("free", x, x))
        BY <1>5, <1>7, CallFields
    <2>3. at' > 0 /\ alive' \subseteq Loaded'
        BY <1>1, <1>2, <1>3, <1>4 DEF UnloadingFacts
    <2>4. \A x \in Modules : terms'[x] = IF x \in Loaded' /\ table'[x] <= 0 THEN 1 ELSE 0
        BY <1>1, <1>2, <1>3 DEF UnloadingFacts
    <2>5. \A x \in Loaded' : x \in alive' <=> terms'[x] = 0
        BY <1>1, <1>2, <1>3, <2>2 DEF UnloadingFacts
    <2> QED
        BY <1>9, <2>1, <2>2, <2>3, <2>4, <2>5 DEF UnloadingFacts, Modules, Call
<1>12. \A r \in Modules : holds'[r] \subseteq MayHold(r) /\ (holds'[r] # {} => r \in alive')
    BY <1>1, <1>2 DEF Known
<1>13. Loaded # {} => "world" \in Loaded
    BY <1>1, <1>2 DEF Known
<1>14. \A x, y \in Modules : Uses(x, y)' <=> Uses(x, y)
    <2> TAKE x, y \in Modules
    <2>1. Uses(x, y)' <=> y \in holds'[x] /\ (terms'[x] = 0 \/ Has(calls', Call("unload", x, y)))
        BY <1>5, <1>7, <1>10, UsesWhileUnloadingNext
    <2>2. Uses(x, y) <=> y \in holds[x] /\ (terms[x] = 0 \/ Has(calls, Call("unload", x, y)))
        BY <1>2, UsesWhileUnloading
    <2>3. ~Has(calls', Call("unload", x, y))
        BY <1>5, <1>7, <1>8, CallFields
    <2> QED
        BY <1>1, <1>7, <2>1, <2>2, <2>3
\* The core's use of the module it visits is not taken back yet.
<1>15. \A x \in Loaded : Taken(x)' <=> Taken(x)
    <2> TAKE x \in Loaded
    <2>1. Taken(x) <=> \E i \in DOMAIN order : i < at /\ order[i] = x
        BY <1>2, <1>7, TakenNow
    <2>2. Taken(x)' <=> (\E i \in DOMAIN order : i < at + 1 /\ order[i] = x)
                        /\ ~Has(calls', Call("unload", Core, x))
        BY <1>1, <1>10, TakenNext
    <2>3. CASE x = m
        <3>1. Has(calls', Call("unload", Core, x))
            BY <1>7, <2>3 DEF c
        <3>2. \A i \in DOMAIN order : order[i] = x => i = at
            BY <1>2, <1>4, <2>3 DEF Known
        <3>3. ~(at < at)
            BY <1>4
        <3> QED
            BY <2>1, <2>2, <3>1, <3>2, <3>3
    <2>4. CASE x # m
        <3>1. ~Has(calls', Call("unload", Core, x))
            BY <1>5, <1>7, <2>4, CallFields
        <3>2. \A i \in DOMAIN order : order[i] = x => (i < at + 1 <=> i < at)
            BY <1>4, <2>4
        <3> QED
            BY <2>1, <2>2, <3>1, <3>2
    <2> QED
        BY <2>3, <2>4
<1>16. \A x \in Modules :
           IF x \in Loaded THEN table'[x] = Cardinality(UsersOf(x)') + CoreUses(x)'
                           ELSE \A r \in Modules : ~Uses(r, x)'
    <2> TAKE x \in Modules
    <2>1. UsersOf(x)' = UsersOf(x)
        BY <1>14, UsersStay
    <2>2. x \in Loaded => CoreUses(x)' = CoreUses(x)
        BY <1>15 DEF CoreUses
    <2> QED
        BY <1>1, <1>14, <2>1, <2>2, UnloadingCounts
<1> QED
    BY <1>1, <1>3, <1>7, <1>10, <1>11, <1>12, <1>13, <1>16, UnloadingNext

LEMMA VisitStep == Facts /\ Visit => Facts'
<1> SUFFICES ASSUME Facts, Visit PROVE Facts'
    OBVIOUS
<1>1. PICK m : m = order[at]
    OBVIOUS
<1> QED
    BY <1>1, VisitStepOf

\* A call of a module comes before the end of its destructor.
LEMMA NothingAfterFree ==
    ASSUME NEW s \in Seq(CallSet), FreedLast(s), ApartIn(s), s # <<>>,
           NEW m \in Modules, s[1] = Call("free", m, m),
           NEW d, Has(s, d), d.of = m
    PROVE  d = s[1]
<1>1. PICK i \in 1 .. Len(s) : s[i] = d
    BY DEF Has
<1>2. DOMAIN s = 1 .. Len(s) /\ Len(s) \in Nat /\ 1 \in 1 .. Len(s)
    OBVIOUS
<1>3. m # Core
    BY DEF Core, Modules
<1>4. PICK j \in 1 .. Len(s) : j >= i /\ s[j] = Call("free", m, m)
    BY <1>1, <1>2, <1>3 DEF FreedLast
<1>5. j = 1
    BY <1>2, <1>4 DEF ApartIn
<1> QED
    BY <1>1, <1>4, <1>5

\* A call while modules are unloaded.
LEMMA UnloadingInner ==
    ASSUME Facts, UnloadingFacts, calls # <<>>, NEW c, c = calls[1]
    PROVE  /\ calls \in Seq(CallSet) /\ ApartIn(calls) /\ Has(calls, c) /\ c \in CallSet
           /\ phase = "unloading"
           /\ \A d : Has(calls, d) => UnloadingCall(d)
           /\ \A d : Has(calls, d) /\ d # c => d.of # c.of \/ d.what # c.what
           /\ \A d : Has(calls, d) /\ d # c => d.of # Core
           /\ c.of # Core => \A d : Has(calls, d) => d.of # Core
<1>1. /\ calls \in Seq(CallSet) /\ ApartIn(calls) /\ Has(calls, c) /\ c \in CallSet
      /\ \A d : Has(calls, d) /\ d # c => d.of # c.of \/ d.what # c.what
    BY InnerCall
<1>2. \A d : Has(calls, d) => UnloadingCall(d)
    BY DEF UnloadingFacts
<1>3. phase = "unloading"
    <2>1. c.do \in {"unload", "free"}
        BY <1>1, <1>2 DEF UnloadingCall
    <2> QED
        BY <2>1, InnerCall
<1>4. \A d : Has(calls, d) /\ d.of = Core => d = c
    <2> SUFFICES ASSUME NEW d, Has(calls, d), d.of = Core PROVE d = c
        OBVIOUS
    <2>1. Len(calls) = 1
        BY <1>2 DEF UnloadingCall
    <2> QED
        BY <2>1 DEF Has
<1> QED
    BY <1>1, <1>2, <1>3, <1>4

LEMMA FreeStepOf ==
    ASSUME Facts, Free, NEW c, NEW m, c = calls[1], m = c.what
    PROVE  Facts'
<1>1. c.do = "free" /\ calls # <<>>
    BY DEF Free, Doing
<1>2. phase = "unloading" /\ UnloadingFacts /\ ModulesTypeOK /\ Known
    BY <1>1, InnerCall DEF Facts
<1>3. /\ calls \in Seq(CallSet) /\ ApartIn(calls) /\ Has(calls, c) /\ c \in CallSet
      /\ \A d : Has(calls, d) => UnloadingCall(d)
      /\ \A d : Has(calls, d) /\ d # c => d.of # c.of \/ d.what # c.what
      /\ (\A d : Has(calls, d) /\ d # c => d.of # Core)
      /\ (c.of # Core => \A d : Has(calls, d) => d.of # Core)
    BY <1>1, <1>2, UnloadingInner
<1>4. Core \notin Modules /\ m \in Modules
    BY <1>3 DEF CallSet, Core, Modules
<1>5. c.of = m /\ c = Call("free", m, m) /\ terms[m] = 1
    <2>1. UnloadingCall(c)
        BY <1>3
    <2>2. c.of = m
        BY <1>1, <2>1 DEF UnloadingCall
    <2> QED
        BY <1>1, <1>3, <1>4, <2>1, <2>2, CallIs DEF UnloadingCall
<1>6. /\ order' = order /\ table' = table /\ terms' = terms /\ phase' = phase /\ at' = at
      /\ enhanced' = enhanced /\ alive' = alive \ {m} /\ holds' = [holds EXCEPT ![m] = {}] /\ Then(<<>>)
    BY DEF Free
<1>7. /\ calls' \in Seq(CallSet) /\ ApartIn(calls')
      /\ \A d : Has(calls', d) <=> Has(calls, d) /\ d # c
      /\ FreedLast(calls')
    <2>1. FreedLast(calls)
        BY <1>2 DEF UnloadingFacts
    <2> QED
        BY <1>1, <1>3, <1>6, <2>1, Popped, NoCalls
<1>8. \A d : Has(calls', d) => d.of # m
    <2>1. FreedLast(calls)
        BY <1>2 DEF UnloadingFacts
    <2> QED
        BY <1>1, <1>3, <1>4, <1>5, <1>7, <2>1, NothingAfterFree
<1>9. \A x \in Modules : holds'[x] = IF x = m THEN {} ELSE holds[x]
    BY <1>2, <1>4, <1>6 DEF ModulesTypeOK
<1>10. Loaded' = Loaded
    BY <1>6 DEF Loaded
<1>11. ModulesTypeOK'
    <2>1. holds' \in [Modules -> SUBSET Modules] /\ alive' \subseteq Modules
        BY <1>2, <1>6 DEF ModulesTypeOK
    <2> QED
        BY <1>2, <1>6, <1>7, <1>10, <2>1 DEF ModulesTypeOK
<1>12. UnloadingFacts'
    <2>1. \A d : Has(calls', d) => UnloadingCall(d)'
        <3> SUFFICES ASSUME NEW d, Has(calls', d) PROVE UnloadingCall(d)'
            OBVIOUS
        <3>1. UnloadingCall(d) /\ d.of # Core /\ d.of # m /\ d.of \in Modules
            <4>1. d \in CallSet
                BY <1>7 DEF Has
            <4> QED
                BY <1>3, <1>4, <1>5, <1>7, <1>8, <4>1 DEF CallSet
        <3> QED
            BY <1>6, <1>9, <3>1 DEF UnloadingCall
    <2>2. \A x \in Loaded : x \in alive' <=> terms'[x] = 0 \/ Has(calls', Call("free", x, x))
        <3> TAKE x \in Loaded
        <3>1. x \in alive <=> terms[x] = 0 \/ Has(calls, Call("free", x, x))
            BY <1>2 DEF UnloadingFacts
        <3>2. CASE x = m
            <4>1. ~Has(calls', Call("free", m, m))
                BY <1>8, CallFields
            <4>2. terms'[x] = 1
                BY <1>5, <1>6, <3>2
            <4>3. x \notin alive'
                BY <1>6, <3>2
            <4> QED
                BY <3>2, <4>1, <4>2, <4>3
        <3>3. CASE x # m
            <4>1. Call("free", x, x) # c
                BY <1>5, <3>3, CallFields
            <4> QED
                BY <1>6, <1>7, <3>1, <3>3, <4>1
        <3> QED
            BY <3>2, <3>3
    <2>3. at' > 0 /\ alive' \subseteq Loaded'
        BY <1>2, <1>6, <1>10 DEF UnloadingFacts
    <2>4. \A x \in Modules : terms'[x] = IF x \in Loaded' /\ table'[x] <= 0 THEN 1 ELSE 0
        BY <1>2, <1>6, <1>10 DEF UnloadingFacts
    <2> QED
        BY <1>7, <1>10, <2>1, <2>2, <2>3, <2>4 DEF UnloadingFacts, Modules, Call
<1>13. \A r \in Modules : holds'[r] \subseteq MayHold(r) /\ (holds'[r] # {} => r \in alive')
    BY <1>2, <1>6, <1>9 DEF Known
<1>14. Loaded # {} => "world" \in Loaded
    BY <1>2 DEF Known
\* What it held it has let go of before.
<1>15. \A x, y \in Modules : Uses(x, y)' <=> Uses(x, y)
    <2> TAKE x, y \in Modules
    <2>1. \A d : Has(calls', d) => d.do # "complete"
        BY <1>3, <1>7 DEF UnloadingCall
    <2>2. Uses(x, y)' <=> y \in holds'[x] /\ (terms'[x] = 0 \/ Has(calls', Call("unload", x, y)))
        BY <1>11, <2>1, UsesWhileUnloadingNext
    <2>3. Uses(x, y) <=> y \in holds[x] /\ (terms[x] = 0 \/ Has(calls, Call("unload", x, y)))
        BY <1>2, UsesWhileUnloading
    <2>4. Call("unload", x, y) # c
        BY <1>1, CallFields
    <2>5. Has(calls', Call("unload", x, y)) <=> Has(calls, Call("unload", x, y))
        BY <1>7, <2>4
    <2>6. CASE x = m
        <3>1. ~Has(calls', Call("unload", x, y))
            BY <1>8, <2>6, CallFields
        <3>2. terms[x] = 1
            BY <1>5, <2>6
        <3>3. holds'[x] = {}
            BY <1>9, <2>6
        <3> QED
            BY <2>2, <2>3, <2>5, <3>1, <3>2, <3>3
    <2>7. CASE x # m
        BY <1>6, <1>9, <2>2, <2>3, <2>5, <2>7
    <2> QED
        BY <2>6, <2>7
<1>16. \A x \in Modules : CoreUses(x)' = CoreUses(x)
    <2> TAKE x \in Modules
    <2>1. Call("unload", Core, x) # c
        BY <1>1, CallFields
    <2>2. Has(calls', Call("unload", Core, x)) <=> Has(calls, Call("unload", Core, x))
        BY <1>7, <2>1
    <2>3. Taken(x)' <=> Taken(x)
        BY <1>2, <1>6, <1>11, <2>2, TakenNow, TakenNext
    <2> QED
        BY <2>3 DEF CoreUses
<1>17. \A x \in Modules :
           IF x \in Loaded THEN table'[x] = Cardinality(UsersOf(x)') + CoreUses(x)'
                           ELSE \A r \in Modules : ~Uses(r, x)'
    <2> TAKE x \in Modules
    <2>1. UsersOf(x)' = UsersOf(x)
        BY <1>15, UsersStay
    <2> QED
        BY <1>2, <1>6, <1>15, <1>16, <2>1, UnloadingCounts
<1> QED
    BY <1>2, <1>6, <1>7, <1>10, <1>11, <1>12, <1>13, <1>14, <1>17, UnloadingNext

LEMMA FreeStep == Facts /\ Free => Facts'
<1> SUFFICES ASSUME Facts, Free PROVE Facts'
    OBVIOUS
<1>1. PICK c : c = calls[1]
    OBVIOUS
<1>2. PICK m : m = c.what
    OBVIOUS
<1> QED
    BY <1>1, <1>2, FreeStepOf

LEMMA DeleteRunInfoStep == Facts /\ DeleteRunInfo => Facts'
<1> SUFFICES ASSUME Facts, DeleteRunInfo PROVE Facts'
    OBVIOUS
<1>1. /\ calls = <<>> /\ phase = "unloading" /\ at > Len(order) /\ phase' = "done"
      /\ table' = [m \in {x \in Loaded : ~Deleted(table[x])} |-> table[m]]
      /\ order' = order /\ alive' = alive /\ holds' = holds /\ calls' = calls /\ terms' = terms
      /\ at' = at /\ enhanced' = enhanced
    BY DEF DeleteRunInfo
<1>2. UnloadingFacts /\ ModulesTypeOK /\ Known
    BY <1>1 DEF Facts
<1>3. \A d : ~Has(calls, d)
    BY <1>1, NoCalls
<1>4. table \in [Loaded -> Int] /\ Loaded \subseteq Modules
    BY <1>2 DEF ModulesTypeOK
\* The core has taken a use of every module ...
<1>5. \A m \in Loaded : CoreUses(m) = (IF m = "world" THEN 1 ELSE 0) - 1
    <2> TAKE m \in Loaded
    <2>1. PICK i \in DOMAIN order : order[i] = m
        BY <1>2 DEF Known, Installed
    <2>2. i < at
        <3>1. DOMAIN order = 1 .. Len(order) /\ Len(order) \in Nat /\ at \in Int
            BY <1>2 DEF ModulesTypeOK
        <3> QED
            BY <1>1, <3>1
    <2>3. Taken(m)
        BY <1>2, <1>3, <2>1, <2>2, TakenNow
    <2> QED
        BY <2>3 DEF CoreUses
\* ... and the one other that may have used it is no user, or the only one.
<1>6. \A m \in Loaded : table[m] = Cardinality(UsersOf(m)) + CoreUses(m)
    BY <1>1, <1>4, UnloadingCounts
<1>7. \A m \in Modules : Cardinality(UsersOf(m)) \in Nat /\ Cardinality(UsersOf(m)) <= 1
    <2> TAKE m \in Modules
    <2>1. \A r \in Modules : Uses(r, m) => m \in MayHold(r)
        BY <1>2, UsesWhileUnloading DEF Known
    <2>2. UsersOf(m) \in SUBSET Modules
        BY DEF UsersOf
    <2>3. CASE UsersOf(m) = {}
        BY <2>3, FS_EmptySet
    <2>4. CASE UsersOf(m) # {}
        <3>1. PICK r \in Modules : r \in UsersOf(m)
            BY <2>2, <2>4
        <3>2. \A x \in Modules : x \in UsersOf(m) => x = r
            BY <2>1, <3>1, OneHolder DEF UsersOf
        <3>3. UsersOf(m) = {r}
            BY <2>2, <3>1, <3>2
        <3> QED
            BY <3>3, FS_Singleton
    <2> QED
        BY <2>3, <2>4
<1>8. \A m \in Loaded : m # "world" => table[m] <= 0
    BY <1>4, <1>5, <1>6, <1>7
<1>9. "world" \in Loaded => table["world"] <= 0
    <2> SUFFICES ASSUME "world" \in Loaded PROVE table["world"] <= 0
        OBVIOUS
    <2>1. \A r \in Modules : ~Uses(r, "world")
        <3> SUFFICES ASSUME NEW r \in Modules, Uses(r, "world") PROVE FALSE
            OBVIOUS
        <3>1. "world" \in Modules
            BY <1>4
        <3>2. "world" \in holds[r] /\ terms[r] = 0
            BY <1>2, <1>3, <3>1, UsesWhileUnloading
        <3>3. r = "sound" /\ r \in alive
            BY <1>2, <3>1, <3>2, OneHolder DEF Known
        <3>4. r \in Loaded /\ table[r] <= 0
            BY <1>2, <1>8, <3>3 DEF UnloadingFacts
        <3>5. terms[r] = 1
            BY <1>2, <3>4 DEF UnloadingFacts
        <3> QED
            BY <3>2, <3>5
    <2>2. Cardinality(UsersOf("world")) = 0
        <3>1. UsersOf("world") = {}
            BY <2>1 DEF UsersOf
        <3> QED
            BY <3>1, FS_EmptySet
    <2> QED
        BY <1>5, <1>6, <2>2
<1>10. \A m \in Loaded : table[m] <= 0
    BY <1>8, <1>9
<1>11. alive' = {}
    <2>1. \A m \in Loaded : terms[m] = 1
        BY <1>2, <1>4, <1>10 DEF UnloadingFacts
    <2>2. \A m \in Loaded : m \notin alive
        BY <1>2, <1>3, <2>1 DEF UnloadingFacts
    <2> QED
        BY <1>1, <1>2, <2>2 DEF UnloadingFacts
<1>12. Loaded' = {} /\ table' \in [Loaded' -> Int]
    <2>1. {x \in Loaded : ~Deleted(table[x])} = {}
        BY <1>10 DEF Deleted
    <2> QED
        BY <1>1, <2>1 DEF Loaded
<1>13. ModulesTypeOK'
    <2>1. calls' \in Seq(CallSet)
        BY <1>1, <1>2 DEF ModulesTypeOK
    <2> QED
        BY <1>1, <1>2, <1>11, <1>12, <2>1 DEF ModulesTypeOK, Phases
<1>14. Known'
    <2>1. \A r \in Modules : holds[r] \subseteq MayHold(r) /\ (holds[r] # {} => r \in alive)
        BY <1>2 DEF Known
    <2>2. \A i, j \in DOMAIN order : order[i] = order[j] => i = j
        BY <1>2 DEF Known
    <2> QED
        BY <1>1, <1>12, <2>1, <2>2 DEF Known
<1>15. Done'
    BY <1>1, <1>11, <1>12 DEF Facts, Done
<1>16. ApartIn(calls') /\ Counted'
    BY <1>1, NoCalls DEF Counted
<1> QED
    BY <1>1, <1>13, <1>14, <1>15, <1>16 DEF Facts

LEMMA UnloadStepOf ==
    ASSUME Facts, Unload, NEW c, NEW r, NEW m, c = calls[1], r = c.of, m = c.what
    PROVE  Facts'
<1>1. c.do = "unload" /\ calls # <<>>
    BY DEF Unload, Doing
<1>2. phase = "unloading" /\ UnloadingFacts /\ ModulesTypeOK /\ Known
    BY <1>1, InnerCall DEF Facts
<1>3. /\ calls \in Seq(CallSet) /\ ApartIn(calls) /\ Has(calls, c) /\ c \in CallSet
      /\ \A d : Has(calls, d) => UnloadingCall(d)
      /\ \A d : Has(calls, d) /\ d # c => d.of # r \/ d.what # m
      /\ (\A d : Has(calls, d) /\ d # c => d.of # Core)
      /\ (r # Core => \A d : Has(calls, d) => d.of # Core)
    BY <1>1, <1>2, UnloadingInner
<1>4. Core \notin Modules /\ m \in Modules /\ r \in Modules \cup {Core} /\ c = Call("unload", r, m)
    BY <1>1, <1>3, CallIs DEF CallSet, Core, Modules
<1>5. UnloadingCall(c)
    BY <1>3
<1>6. /\ order' = order /\ alive' = alive /\ holds' = holds /\ phase' = phase /\ at' = at
      /\ enhanced' = enhanced
    BY DEF Unload
<1>7. table \in [Loaded -> Int] /\ Loaded \subseteq Modules /\ terms \in [Modules -> Nat]
    BY <1>2 DEF ModulesTypeOK
\* A module that unloads another uses it, so that it is there, and stops using it.
<1>8. r \in Modules => /\ terms[r] = 1 /\ m \in holds[r] /\ Uses(r, m) /\ r # m
                       /\ m \in Loaded
    <2> SUFFICES ASSUME r \in Modules
                 PROVE  terms[r] = 1 /\ m \in holds[r] /\ Uses(r, m) /\ r # m /\ m \in Loaded
        OBVIOUS
    <2>1. terms[r] = 1 /\ m \in holds[r]
        BY <1>1, <1>4, <1>5 DEF UnloadingCall
    <2>2. Uses(r, m)
        BY <1>2, <1>3, <1>4, <2>1, UsesWhileUnloading
    <2>3. m \in Loaded
        BY <1>2, <1>4, <2>2, UnloadingCounts
    <2>4. r # m
        BY <1>2, <1>4, <2>1, OneHolder DEF Known
    <2> QED
        BY <2>1, <2>2, <2>3, <2>4
\* The last use sends CH_MSG_TERM.
<1> DEFINE last == m \in Loaded /\ table[m] = 1
<1>9. PICK more \in Seq(CallSet) :
          /\ Then(more) /\ ApartIn(more) /\ FreedLast(more)
          /\ ~last => more = <<>>
          /\ last => \A d : Has(more, d) <=> \/ d = Call("free", m, m)
                                             \/ \E x \in holds[m] : d = Call("unload", m, x)
    <2>1. CASE last
        <3>1. IsLastUse(table[m] - 1)
            BY <2>1 DEF IsLastUse
        <3>2. holds[m] \subseteq MayHold(m)
            BY <1>2, <1>4 DEF Known
        <3>3. PICK them \in Seq(Modules) :
                  /\ them = Destroy(m)
                  /\ \A x : (\E i \in 1 .. Len(them) : them[i] = x) <=> x \in holds[m]
                  /\ \A i, j \in 1 .. Len(them) : them[i] = them[j] => i = j
            BY <1>4, <3>2, DestroyIs
        <3> DEFINE s == Calls("unload", m, them)
                   e == Call("free", m, m)
        <3>4. s \in Seq(CallSet) /\ ApartIn(s)
              /\ \A d : Has(s, d) <=> \E i \in 1 .. Len(them) : d = Call("unload", m, them[i])
            <4>1. /\ m \in Modules /\ them \in Seq(Modules)
                  /\ \A i, j \in 1 .. Len(them) : them[i] = them[j] => i = j
                BY <1>4, <3>3
            <4> QED
                BY <4>1, CallsOf
        <3>5. Then(s \o <<e>>)
            BY <2>1, <3>1, <3>3 DEF Unload
        <3>6. e \in CallSet /\ e.do = "free" /\ e.of = m /\ e.what = m
            BY <1>4, CallFields DEF Call, CallSet
        <3> HIDE DEF s
        <3>7. \A d : Has(s, d) <=> \E x \in holds[m] : d = Call("unload", m, x)
            BY <3>3, <3>4
        <3>8. \A d : Has(s, d) => d.of = m /\ d.what # m
            <4>1. m \notin holds[m]
                BY <1>4, <3>2, OneHolder
            <4> QED
                BY <3>7, <4>1, CallFields
        <3>9. <<e>> \in Seq(CallSet) /\ ApartIn(<<e>>) /\ \A d : Has(<<e>>, d) <=> d = e
            BY <3>6, NoCalls
        <3> DEFINE u == s \o <<e>>
        <3>10. u \in Seq(CallSet) /\ ApartIn(u) /\ \A d : Has(u, d) <=> Has(s, d) \/ d = e
            <4>1. \A d, f : Has(s, d) /\ Has(<<e>>, f) => d.of # f.of \/ d.what # f.what
                BY <3>6, <3>8, <3>9
            <4> HIDE DEF e
            <4> QED
                BY <3>4, <3>9, <4>1, ConcatCalls
        <3>11. Len(u) \in Nat \ {0} /\ u[Len(u)] = e /\ DOMAIN u = 1 .. Len(u)
            BY <3>4, <3>6
        <3> HIDE DEF u, e
        <3>12. FreedLast(u)
            <4>1. \A i \in DOMAIN u : u[i].of = m
                BY <3>6, <3>8, <3>10, <3>11 DEF Has
            <4>2. \A i \in DOMAIN u : Len(u) >= i /\ Len(u) \in DOMAIN u
                BY <3>11
            <4> QED
                BY <3>11, <4>1, <4>2 DEF FreedLast, e
        <3> QED
            BY <2>1, <3>5, <3>7, <3>10, <3>12 DEF u, e
    <2>2. CASE ~last
        <3>1. m \in Loaded => ~IsLastUse(table[m] - 1)
            BY <1>7, <2>2 DEF IsLastUse
        <3>2. Then(<<>>)
            BY <2>2, <3>1 DEF Unload
        <3> QED
            BY <2>2, <3>2, NoCalls
    <2> QED
        BY <2>1, <2>2
<1>10. /\ terms' \in [Modules -> Nat]
       /\ \A x \in Modules : terms'[x] = IF last /\ x = m THEN terms[x] + 1 ELSE terms[x]
    <2>1. CASE last
        <3>1. terms' = [terms EXCEPT ![m] = @ + 1]
            BY <2>1 DEF Unload, IsLastUse
        <3>2. terms' \in [Modules -> Nat]
            <4>1. terms[m] + 1 \in Nat
                BY <1>4, <1>7
            <4> QED
                BY <1>4, <1>7, <3>1, <4>1
        <3>3. \A x \in Modules : terms'[x] = IF x = m THEN terms[x] + 1 ELSE terms[x]
            BY <1>4, <1>7, <3>1
        <3> QED
            BY <2>1, <3>2, <3>3
    <2>2. CASE ~last
        <3>1. m \in Loaded => ~IsLastUse(table[m] - 1)
            BY <1>7, <2>2 DEF IsLastUse
        <3>2. terms' = terms
            BY <2>2, <3>1 DEF Unload
        <3> QED
            BY <1>7, <2>2, <3>2
    <2> QED
        BY <2>1, <2>2
<1>11. /\ Loaded' = Loaded /\ table' \in [Loaded -> Int]
       /\ \A x \in Loaded : table'[x] = IF x = m THEN table[x] - 1 ELSE table[x]
    <2>1. CASE m \in Loaded
        <3>1. table' = [x \in Loaded \cup {m} |-> IF x = m THEN table[m] - 1 ELSE table[x]]
            BY <2>1 DEF Unload, With
        <3> QED
            BY <1>7, <2>1, <3>1 DEF Loaded
    <2>2. CASE m \notin Loaded
        <3>1. table' = table
            BY <2>2 DEF Unload
        <3> QED
            BY <1>7, <2>2, <3>1 DEF Loaded
    <2> QED
        BY <2>1, <2>2
\* Before the last use it was not told to terminate, so no call is its own.
<1>12. last => /\ terms[m] = 0 /\ m \in alive
               /\ \A d : Has(calls, d) => d.of # m
    <2> SUFFICES ASSUME last PROVE terms[m] = 0 /\ m \in alive /\ \A d : Has(calls, d) => d.of # m
        OBVIOUS
    <2>1. terms[m] = 0
        BY <1>2, <1>4 DEF UnloadingFacts
    <2>2. m \in alive
        BY <1>2, <2>1 DEF UnloadingFacts
    <2>3. \A d : Has(calls, d) /\ d.of = m => terms[m] = 1
        BY <1>3, <1>4 DEF UnloadingCall
    <2> QED
        BY <2>1, <2>2, <2>3
<1> HIDE DEF last
<1>13. \A d : Has(more, d) => last /\ d.of = m
    BY <1>9, NoCalls, CallFields
<1>14. /\ calls' \in Seq(CallSet) /\ ApartIn(calls') /\ FreedLast(calls')
       /\ \A d : Has(calls', d) <=> Has(more, d) \/ (Has(calls, d) /\ d # c)
    <2>1. FreedLast(calls)
        BY <1>2 DEF UnloadingFacts
    <2>2. \A d, e : Has(more, d) /\ Has(calls, e) /\ e # calls[1] => d.of # e.of \/ d.what # e.what
        BY <1>12, <1>13
    <2> QED
        BY <1>1, <1>3, <1>9, <2>1, <2>2, Popped
<1>15. ModulesTypeOK'
    BY <1>2, <1>6, <1>7, <1>10, <1>11, <1>14 DEF ModulesTypeOK
<1>16. UnloadingFacts'
    <2>1. \A d : Has(calls', d) => UnloadingCall(d)'
        <3> SUFFICES ASSUME NEW d, Has(calls', d) PROVE UnloadingCall(d)'
            OBVIOUS
        <3>1. CASE Has(more, d)
            <4>1. last /\ d.of = m /\ m # Core /\ terms'[m] = 1
                BY <1>4, <1>10, <1>12, <1>13, <3>1
            <4>2. \/ d.do = "free" /\ d.what = m
                  \/ d.do = "unload" /\ d.what \in holds'[m]
                BY <1>6, <1>9, <3>1, <4>1, CallFields
            <4> QED
                BY <4>1, <4>2 DEF UnloadingCall
        <3>2. CASE Has(calls, d) /\ d # c
            <4>1. UnloadingCall(d) /\ d.of # Core
                BY <1>3, <3>2
            <4>2. d.of \in Modules
                <5>1. d \in CallSet
                    BY <1>3, <3>2 DEF Has
                <5> QED
                    BY <4>1, <5>1 DEF CallSet
            <4>3. terms'[d.of] = terms[d.of]
                BY <1>10, <1>12, <3>2, <4>2
            <4> QED
                BY <1>6, <4>1, <4>3 DEF UnloadingCall
        <3> QED
            BY <1>14, <3>1, <3>2
    <2>2. \A x \in Modules : terms'[x] = IF x \in Loaded' /\ table'[x] <= 0 THEN 1 ELSE 0
        <3> TAKE x \in Modules
        <3>1. terms[x] = IF x \in Loaded /\ table[x] <= 0 THEN 1 ELSE 0
            BY <1>2 DEF UnloadingFacts
        <3>2. CASE x = m /\ m \in Loaded
            <4>1. table'[m] = table[m] - 1 /\ table[m] \in Int /\ (last <=> table[m] = 1)
                BY <1>7, <1>11, <3>2 DEF last
            <4> QED
                BY <1>10, <1>11, <3>1, <3>2, <4>1
        <3>3. CASE x # m \/ m \notin Loaded
            <4>1. terms'[x] = terms[x] /\ (x \in Loaded => table'[x] = table[x])
                BY <1>10, <1>11, <3>3 DEF last
            <4> QED
                BY <1>11, <3>1, <4>1
        <3> QED
            BY <3>2, <3>3
    <2>3. \A x \in Loaded : x \in alive' <=> terms'[x] = 0 \/ Has(calls', Call("free", x, x))
        <3> TAKE x \in Loaded
        <3>1. x \in alive <=> terms[x] = 0 \/ Has(calls, Call("free", x, x))
            BY <1>2 DEF UnloadingFacts
        <3>2. Call("free", x, x) # c
            BY <1>1, CallFields
        <3>3. CASE last /\ x = m
            <4>1. Has(calls', Call("free", x, x))
                BY <1>9, <1>14, <3>3
            <4> QED
                BY <1>6, <1>12, <3>3, <4>1
        <3>4. CASE ~(last /\ x = m)
            <4>1. terms'[x] = terms[x]
                BY <1>7, <1>10, <3>4
            <4>2. ~Has(more, Call("free", x, x))
                BY <1>13, <3>4, CallFields
            <4> QED
                BY <1>6, <1>14, <3>1, <3>2, <4>1, <4>2
        <3> QED
            BY <3>3, <3>4
    <2>4. at' > 0 /\ alive' \subseteq Loaded'
        BY <1>2, <1>6, <1>11 DEF UnloadingFacts
    <2> QED
        BY <1>11, <1>14, <2>1, <2>2, <2>3, <2>4 DEF UnloadingFacts, Modules, Call
<1>17. \A x \in Modules : holds'[x] \subseteq MayHold(x) /\ (holds'[x] # {} => x \in alive')
    BY <1>2, <1>6 DEF Known
<1>18. Loaded # {} => "world" \in Loaded
    BY <1>2 DEF Known
<1>19. \A x, y \in Modules : Uses(x, y)' <=> Uses(x, y) /\ ~(x = r /\ y = m)
    <2> TAKE x, y \in Modules
    <2> DEFINE d == Call("unload", x, y)
    <2>1. \A e : Has(calls', e) => e.do # "complete"
        BY <1>16 DEF UnloadingFacts, UnloadingCall
    <2>2. Uses(x, y)' <=> y \in holds'[x] /\ (terms'[x] = 0 \/ Has(calls', d))
        BY <1>15, <2>1, UsesWhileUnloadingNext
    <2>3. Uses(x, y) <=> y \in holds[x] /\ (terms[x] = 0 \/ Has(calls, d))
        BY <1>2, UsesWhileUnloading
    <2>4. d.do = "unload" /\ d.of = x /\ d.what = y /\ (d = c <=> x = r /\ y = m)
        BY <1>4, CallFields
    <2>5. CASE last /\ x = m
        <3>1. y \in holds[x] => Has(calls', d)
            BY <1>9, <1>14, <2>5
        <3>2. x # r
            BY <1>8, <2>5
        <3> QED
            BY <1>6, <1>12, <2>2, <2>3, <2>5, <3>1, <3>2
    <2>6. CASE ~(last /\ x = m)
        <3>1. ~Has(more, d) /\ terms'[x] = terms[x]
            BY <1>10, <1>13, <2>4, <2>6
        <3>2. Has(calls', d) <=> Has(calls, d) /\ ~(x = r /\ y = m)
            BY <1>14, <2>4, <3>1
        <3>3. x = r => terms[x] # 0
            BY <1>8
        <3> QED
            BY <1>6, <2>2, <2>3, <3>1, <3>2, <3>3
    <2> QED
        BY <2>5, <2>6
\* A use of the core is taken back where no module's is.
<1>20. \A x \in Modules : CoreUses(x)' = IF r = Core /\ x = m THEN CoreUses(x) - 1 ELSE CoreUses(x)
    <2> TAKE x \in Modules
    <2> DEFINE d == Call("unload", Core, x)
    <2>1. Taken(x) <=> (\E i \in DOMAIN order : i < at /\ order[i] = x) /\ ~Has(calls, d)
        BY <1>2, TakenNow
    <2>2. Taken(x)' <=> (\E i \in DOMAIN order : i < at /\ order[i] = x) /\ ~Has(calls', d)
        BY <1>6, <1>15, TakenNext
    <2>3. d = c <=> r = Core /\ x = m
        BY <1>4, CallFields
    <2>4. Has(calls', d) <=> Has(calls, d) /\ d # c
        <3>1. ~Has(more, d)
            BY <1>4, <1>13, CallFields
        <3> QED
            BY <1>14, <3>1
    <2> HIDE DEF d
    <2>5. CASE r = Core /\ x = m
        <3>1. ~Taken(x)
            BY <1>3, <2>1, <2>3, <2>5
        <3>2. Taken(x)'
            <4>1. at > 1 /\ m = order[at - 1]
                BY <1>5, <2>5 DEF UnloadingCall
            <4>2. at - 1 \in DOMAIN order /\ at - 1 < at
                <5>1. DOMAIN order = 1 .. Len(order) /\ Len(order) \in Nat /\ at \in 0 .. Len(order) + 1
                    BY <1>2 DEF ModulesTypeOK
                <5> QED
                    BY <4>1, <5>1
            <4> QED
                BY <2>2, <2>3, <2>4, <2>5, <4>1, <4>2
        <3> QED
            BY <2>5, <3>1, <3>2 DEF CoreUses
    <2>6. CASE ~(r = Core /\ x = m)
        <3>1. Taken(x)' <=> Taken(x)
            BY <2>1, <2>2, <2>3, <2>4, <2>6
        <3> QED
            BY <2>6, <3>1 DEF CoreUses
    <2> QED
        BY <2>5, <2>6
<1>21. \A x \in Modules :
           IF x \in Loaded THEN table'[x] = Cardinality(UsersOf(x)') + CoreUses(x)'
                           ELSE \A y \in Modules : ~Uses(y, x)'
    <2> TAKE x \in Modules
    <2>1. IF x \in Loaded THEN table[x] = Cardinality(UsersOf(x)) + CoreUses(x)
                          ELSE \A y \in Modules : ~Uses(y, x)
        BY <1>2, UnloadingCounts
    <2>2. CoreUses(x) \in Int /\ Cardinality(UsersOf(x)) \in Int
        <3>1. UsersOf(x) \in SUBSET Modules
            BY DEF UsersOf
        <3> QED
            BY <3>1, UsersAreFinite DEF CoreUses
    <2>3. CASE x \notin Loaded
        BY <1>19, <2>1, <2>3
    <2>4. CASE x \in Loaded /\ x # m
        <3>1. UsersOf(x)' = UsersOf(x)
            BY <1>19, <2>4, UsersStay
        <3> QED
            BY <1>11, <1>20, <2>1, <2>4, <3>1
    <2>5. CASE x \in Loaded /\ x = m /\ r = Core
        <3>1. UsersOf(x)' = UsersOf(x)
            <4>1. \A y \in Modules : Uses(y, x)' <=> Uses(y, x)
                BY <1>4, <1>19, <2>5
            <4> QED
                BY <4>1, UsersStay
        <3> QED
            BY <1>11, <1>20, <2>1, <2>2, <2>5, <3>1
    <2>6. CASE x \in Loaded /\ x = m /\ r \in Modules
        <3>1. Cardinality(UsersOf(m)') = Cardinality(UsersOf(m)) - 1
            <4>1. \A y \in Modules : Uses(y, m)' <=> Uses(y, m) /\ y # r
                BY <1>4, <1>19
            <4> QED
                BY <1>8, <2>6, <4>1, UsersShrink
        <3>2. CoreUses(x)' = CoreUses(x)
            BY <1>4, <1>20, <2>6
        <3>3. table'[x] = table[x] - 1 /\ UsersOf(x)' = UsersOf(m)'
            BY <1>11, <2>6
        <3> QED
            BY <2>1, <2>2, <2>6, <3>1, <3>2, <3>3
    <2> QED
        BY <1>4, <2>3, <2>4, <2>5, <2>6
<1> QED
    BY <1>2, <1>6, <1>11, <1>14, <1>15, <1>16, <1>17, <1>18, <1>21, UnloadingNext

LEMMA UnloadStep == Facts /\ Unload => Facts'
<1> SUFFICES ASSUME Facts, Unload PROVE Facts'
    OBVIOUS
<1>1. PICK c : c = calls[1]
    OBVIOUS
<1>2. PICK r : r = c.of
    OBVIOUS
<1>3. PICK m : m = c.what
    OBVIOUS
<1> QED
    BY <1>1, <1>2, <1>3, UnloadStepOf

-----------------------------------------------------------------------------
(* The modules' invariant and what it says. *)

LEMMA FactsStay == Facts /\ UNCHANGED moduleVars => Facts'
<1> SUFFICES ASSUME Facts, UNCHANGED moduleVars PROVE Facts'
    OBVIOUS
<1>1. /\ order' = order /\ table' = table /\ alive' = alive /\ holds' = holds /\ calls' = calls
      /\ terms' = terms /\ phase' = phase /\ at' = at /\ enhanced' = enhanced
    BY DEF moduleVars
<1>2. Loaded' = Loaded
    BY <1>1 DEF Loaded
<1>3. ModulesTypeOK'
    BY <1>1, <1>2 DEF Facts, ModulesTypeOK
<1>4. Known' /\ ApartIn(calls') /\ Done'
    BY <1>1, <1>2 DEF Facts, Known, Done, Installed
<1>5. ASSUME NEW m \in Modules
      PROVE  /\ UsersOf(m)' = UsersOf(m) /\ CoreUses(m)' = CoreUses(m)
    <2>1. \A c : InProgress(c) <=> Has(calls, c)
        BY InProgressIsHas DEF Facts
    <2>2. \A r \in Modules : Uses(r, m)' <=> Uses(r, m)
        BY <1>1, <1>3, <2>1, UsesNext DEF Uses, Pending
    <2>3. Taken(m)' <=> Taken(m)
        BY <1>1, <1>3, TakenNext, TakenNow DEF Facts
    <2> QED
        BY <2>2, <2>3, UsersStay DEF CoreUses
<1>6. Counted'
    BY <1>1, <1>2, <1>5 DEF Facts, Counted
<1>7. phase' = "running" => RunningFacts'
    BY <1>1, <1>2 DEF Facts, RunningFacts, RunningCall, Call
<1>8. phase' = "unloading" => UnloadingFacts'
    BY <1>1, <1>2 DEF Facts, UnloadingFacts, UnloadingCall, Call, Modules
<1> QED
    BY <1>3, <1>4, <1>6, <1>7, <1>8 DEF Facts

LEMMA ModulesInvStep == ModulesInv /\ [ModulesNext]_moduleVars => ModulesInv'
<1> SUFFICES ASSUME Facts, [ModulesNext]_moduleVars PROVE Facts'
    BY InvIsFacts, FactsAreInv
<1>1. CASE Load
    BY <1>1, LoadStep
<1>2. CASE LoadComplete
    BY <1>2, LoadCompleteStep
<1>3. CASE Unload
    BY <1>3, UnloadStep
<1>4. CASE Free
    BY <1>4, FreeStep
<1>5. CASE OnPuebloEnhanced
    BY <1>5, OnPuebloEnhancedStep
<1>6. CASE StartShutdown
    BY <1>6, StartShutdownStep
<1>7. CASE Visit
    BY <1>7, VisitStep
<1>8. CASE DeleteRunInfo
    BY <1>8, DeleteRunInfoStep
<1>9. CASE UNCHANGED moduleVars
    BY <1>9, FactsStay
<1> QED
    BY <1>1, <1>2, <1>3, <1>4, <1>5, <1>6, <1>7, <1>8, <1>9 DEF ModulesNext

\* Whatever modules are installed and in whatever order, each use of a module
\* is counted at every step of loading and unloading (LoadClientModule, Unload).
THEOREM ModulesInvariant == ModulesSpec => []ModulesInv
<1> QED
    BY ModulesInvInit, ModulesInvStep, PTL DEF ModulesSpec

\* While the client runs and no call is in progress, the use count of a module
\* is the number of modules that hold its id, and one for the core's own use of
\* the world (ChModuleRunInfo).
THEOREM CountsRight == ModulesSpec => []CountsAreUsers
<1>1. ModulesInv => CountsAreUsers
    <2> SUFFICES ASSUME Facts, calls = <<>>, phase = "running", NEW m \in Loaded
                 PROVE  table[m] = Users(m)
        BY InvIsFacts DEF CountsAreUsers
    <2>1. RunningFacts /\ m \in Modules
        BY DEF Facts, ModulesTypeOK
    <2>2. \A r \in Modules : Uses(r, m) <=> m \in holds[r]
        BY <2>1, NoCalls, UsesWhileRunning
    <2>3. UsersOf(m) = {r \in Modules : m \in holds[r]}
        BY <2>2 DEF UsersOf
    <2>4. table[m] = Cardinality(UsersOf(m)) + (IF m = "world" THEN 1 ELSE 0)
        BY <2>1, UnloadingCounts, CoreWhileRunning
    <2> QED
        BY <2>3, <2>4 DEF Users
<1> QED
    BY <1>1, ModulesInvariant, PTL

\* CH_MSG_TERM is sent once to a module at most, no module's library is unloaded
\* under a call of its own, and after UnloadAll no module is left and no entry.
THEOREM TerminatesOnce == ModulesSpec => []TerminatedOnce
<1>1. ModulesInv => TerminatedOnce
    <2> SUFFICES ASSUME Facts PROVE TerminatedOnce
        BY InvIsFacts
    <2>1. (\A m \in Modules : terms[m] <= 1) /\ (phase = "done" => Loaded = {} /\ alive = {})
        BY DEF Facts, Done
    <2>2. ASSUME NEW i \in DOMAIN calls, calls[i].of # Core PROVE calls[i].of \in alive
        <3>1. PICK c : c = calls[i]
            OBVIOUS
        <3>2. PICK r : r = c.of
            OBVIOUS
        <3>3. calls \in Seq(CallSet) /\ Has(calls, c) /\ c \in CallSet /\ calls # <<>> /\ r # Core
            BY <2>2, <3>1, <3>2, CallsAreFinite DEF Facts, ModulesTypeOK, Has
        <3>4. r \in Modules
            BY <3>2, <3>3 DEF CallSet
        <3>5. phase \in {"running", "unloading"}
            BY <3>3, InnerCall
        <3>6. CASE phase = "running"
            BY <3>1, <3>2, <3>3, <3>6 DEF Facts, RunningFacts, RunningCall
        <3>7. CASE phase = "unloading"
            <4>1. UnloadingFacts
                BY <3>7 DEF Facts
            <4>2. terms[r] = 1
                BY <3>2, <3>3, <4>1 DEF UnloadingFacts, UnloadingCall
            <4>3. r \in Loaded
                BY <3>4, <4>1, <4>2 DEF UnloadingFacts
            <4>4. Has(calls, Call("free", r, r))
                BY <2>2, <3>1, <3>2, <3>3, <4>1, CallsAreFinite DEF UnloadingFacts, FreedLast, Has
            <4> QED
                BY <3>1, <3>2, <4>1, <4>3, <4>4 DEF UnloadingFacts
        <3> QED
            BY <3>5, <3>6, <3>7
    <2> QED
        BY <2>1, <2>2 DEF TerminatedOnce
<1> QED
    BY <1>1, ModulesInvariant, PTL
=============================================================================
