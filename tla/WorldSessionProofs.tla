------------------------- MODULE WorldSessionProofs -------------------------
(* Proofs about WorldSession: the connect ID keeps the documents of earlier   *)
(* worlds out of the window, and a cancelled connection never goes online;    *)
(* without a proxy and without scripts a connection outlives its wait, and a  *)
(* lookup has its world.                                                      *)
EXTENDS WorldSessionInv, SequenceTheorems, TLAPS

\* What the moves of a session rest on.
SessionOK ==
    /\ conn \in Conns
    /\ opened \in 0 .. MaxWorlds
    /\ stack \in Seq(Frames)
    /\ NoWorldNoConn

LookupsOK ==
    /\ lookups \subseteq Lookups
    /\ proxyInfo \in Answers \cup {"none", "deleted"}

FlagsOK ==
    /\ features \subseteq Features
    /\ dialog \in BOOLEAN /\ waiting \in BOOLEAN /\ blocking \in BOOLEAN
    /\ proxyKnown \in BOOLEAN /\ enhanced \in BOOLEAN /\ crashed \in BOOLEAN

\* A connection of the same world, that may have gone online.
Ours == {c \in Conns :
            /\ c.id = conn.id
            /\ conn.online => c.online
            /\ c.online => conn.online \/ ~conn.canceled}

\* A step opens a world, closes one or leaves the identity of the session alone.
Opens ==
    /\ opened < MaxWorlds /\ opened' = opened + 1
    /\ connectID' = connectID + 1 /\ info' = opened' /\ shown' = shown
    /\ conn' = IF conn.id = 0 THEN [NoConn EXCEPT !.id = opened'] ELSE conn

Closes == Disconnect /\ opened' = opened

GoesOn ==
    /\ UNCHANGED <<opened, connectID, info>>
    /\ conn' \in Ours
    /\ conn.id = 0 => conn' = conn
    /\ \/ shown' \in {0, shown}
       \/ conn.id # 0 /\ \E r \in requests : ~TooLate(r) /\ shown' = r.world

-----------------------------------------------------------------------------
(* The connection. *)

\* What is left of the handlers when the innermost returns.
LEMMA Popped ==
    ASSUME NEW S, NEW s \in Seq(S), s # <<>>
    PROVE  Tail(s) \in Seq(S) /\ Head(s) \in S
    OBVIOUS

\* A handler that waits is put on top.
LEMMA Pushed ==
    ASSUME NEW S, NEW s \in Seq(S), NEW f \in S
    PROVE  <<f>> \o s \in Seq(S)
    OBVIOUS

\* A wait is for the connection of some world.
LEMMA Waits ==
    ASSUME stack \in Seq(Frames), Top.kind \in {"connect", "proxy", "lookup"}
    PROVE  /\ stack # <<>>
           /\ Top \in [kind : {"lookup", "connect", "proxy"}, conn : 1 .. MaxWorlds]
<1>1. stack # <<>>
    BY DEF Top
<1>2. Top \in Frames
    BY <1>1, Popped DEF Top
<1> QED
    BY <1>1, <1>2 DEF Frames

\* As long as nobody deleted its connection, a wait has one.
LEMMA WaitsForOne ==
    ASSUME SessionOK, Top.kind \in {"connect", "proxy", "lookup"}, ~Dangling(Top)
    PROVE  conn.id # 0
    BY Waits, WorldBounds DEF SessionOK, Dangling

\* What the handlers make of a connection is a connection of the same world.
LEMMA Same ==
    ASSUME conn \in Conns
    PROVE  /\ conn \in Ours
           /\ [conn EXCEPT !.sock = "waitConnect", !.blocking = TRUE] \in Ours
           /\ [conn EXCEPT !.sock = "waitProxy", !.blocking = TRUE] \in Ours
           /\ [conn EXCEPT !.sock = "connected", !.blocking = FALSE] \in Ours
           /\ [conn EXCEPT !.blocking = FALSE] \in Ours
           /\ [conn EXCEPT !.sock = "disconnected", !.blocking = FALSE] \in Ours
           /\ ~conn.canceled =>
                  [conn EXCEPT !.sock = "connected", !.blocking = FALSE, !.online = TRUE] \in Ours
           /\ \A granted \in BOOLEAN : [conn EXCEPT !.sock = "connected", !.granted = granted] \in Ours
           /\ [conn EXCEPT !.closed = TRUE] \in Ours
           /\ [conn EXCEPT !.canceled = TRUE, !.blocking = FALSE] \in Ours
    BY DEF Ours, Conns, SocketStates

\* The beginning of a connection, and its exception, are such steps.
LEMMA Begins ==
    ASSUME SessionOK, conn.id # 0, NEW rest, opened' = opened, BeginConnect(rest)
    PROVE  Closes \/ GoesOn
<1>1. CASE conn' = [conn EXCEPT !.sock = "waitConnect", !.blocking = TRUE]
           /\ UNCHANGED <<connectID, info, shown>>
    BY <1>1, Same DEF GoesOn, SessionOK
<1>2. CASE ConnectThrows(rest)
    BY <1>2 DEF ConnectThrows, QuietShutdown, Closes
<1> QED
    BY <1>1, <1>2 DEF BeginConnect

\* Every step opens a world, closes one or goes on.
LEMMA Moves == SessionOK /\ [Next]_vars => Opens \/ Closes \/ GoesOn
<1> SUFFICES ASSUME SessionOK, [Next]_vars PROVE Opens \/ Closes \/ GoesOn
    OBVIOUS
<1> USE DEF Opens, Closes, GoesOn, SessionOK
<1>1. ASSUME NEW answer \in Answers, OpenWorld(answer) PROVE Opens \/ Closes \/ GoesOn
    BY <1>1, Same DEF OpenWorld, OpenID
<1>2. ASSUME NEW l \in lookups, NEW answer \in {"ok", "failed"}, LookupAnswered(l, answer)
      PROVE  Opens \/ Closes \/ GoesOn
    BY <1>2, Same DEF LookupAnswered, session
<1>3. ASSUME NEW l \in lookups, NotifyProxy(l) PROVE Opens \/ Closes \/ GoesOn
    BY <1>3, Same DEF NotifyProxy, session
<1>4. ASSUME NEW l \in lookups, AddressFound(l) PROVE Opens \/ Closes \/ GoesOn
    <2>1. conn.id # 0 /\ opened' = opened
        BY <1>4 DEF AddressFound, NoWorldNoConn
    <2>2. BeginConnect(stack) \/ UNCHANGED session
        BY <1>4 DEF AddressFound, SOCKSconnect
    <2>3. CASE UNCHANGED session
        BY <2>1, <2>3, Same DEF session
    <2> QED
        BY <2>1, <2>2, <2>3, Begins DEF SessionOK
<1>5. ASSUME NEW l \in lookups, AddressMissing(l) PROVE Opens \/ Closes \/ GoesOn
    BY <1>5, Same DEF AddressMissing, session
<1>6. ASSUME NEW l \in lookups, AddressUnwanted(l) PROVE Opens \/ Closes \/ GoesOn
    BY <1>6, Same DEF AddressUnwanted, Crash, session
<1>7. ASSUME ProxyLookupReturns PROVE Opens \/ Closes \/ GoesOn
    <2>1. opened' = opened
        BY <1>7 DEF ProxyLookupReturns, documents
    <2>2. CASE ~Dangling(Top) /\ BeginConnect(Tail(stack))
        <3>1. conn.id # 0
            BY <1>7, <2>2, WaitsForOne DEF ProxyLookupReturns, SessionOK
        <3> QED
            BY <2>1, <2>2, <3>1, Begins DEF SessionOK
    <2>3. CASE ConnectThrows(Tail(stack))
        BY <2>1, <2>3, Same DEF ConnectThrows, QuietShutdown, session
    <2> QED
        BY <1>7, <2>2, <2>3 DEF ProxyLookupReturns
<1>8. ASSUME ConnectReturns PROVE Opens \/ Closes \/ GoesOn
    <2>1. opened' = opened /\ conn.id # 0
        BY <1>8, WaitsForOne DEF ConnectReturns
    <2>2. CASE ConnectThrows(Tail(stack))
        BY <2>1, <2>2, Same DEF ConnectThrows, QuietShutdown
    <2>3. CASE conn' = [conn EXCEPT !.blocking = FALSE] /\ UNCHANGED <<connectID, info, shown>>
        BY <2>1, <2>3, Same
    <2>4. CASE conn' = [conn EXCEPT !.sock = "waitProxy", !.blocking = TRUE]
               /\ UNCHANGED <<connectID, info, shown>>
        BY <2>1, <2>4, Same
    <2> QED
        BY <1>8, <2>2, <2>3, <2>4 DEF ConnectReturns
<1>9. ASSUME ProxyReturns PROVE Opens \/ Closes \/ GoesOn
    <2>1. opened' = opened /\ conn.id # 0
        BY <1>9, WaitsForOne DEF ProxyReturns
    <2>2. CASE ConnectThrows(Tail(stack))
        BY <2>1, <2>2, Same DEF ConnectThrows, QuietShutdown
    <2>3. CASE conn' = [conn EXCEPT !.sock = "connected", !.blocking = FALSE]
               /\ UNCHANGED <<connectID, info, shown>>
        BY <2>1, <2>3, Same
    <2> QED
        BY <1>9, <2>2, <2>3 DEF ProxyReturns
<1>10. ASSUME DanglingReturns PROVE Opens \/ Closes \/ GoesOn
    BY <1>10, Same DEF DanglingReturns, QuietShutdown, session
<1>11. ASSUME BoxCloses PROVE Opens \/ Closes \/ GoesOn
    BY <1>11, Same DEF BoxCloses, QuietShutdown, session
<1>12. ASSUME NEW error \in BOOLEAN, OnConnect(error) PROVE Opens \/ Closes \/ GoesOn
    <2>1. conn.id # 0
        BY <1>12 DEF OnConnect, NoWorldNoConn, NoConn
    <2>2. CASE Refuses(error)
        BY <1>12, <2>1, <2>2, Same DEF OnConnect
    <2>3. CASE ~Refuses(error)
        BY <1>12, <2>1, <2>3, Same DEF OnConnect, Refuses
    <2> QED
        BY <2>2, <2>3
<1>13. ASSUME NEW granted \in BOOLEAN, OnProxyReply(granted) PROVE Opens \/ Closes \/ GoesOn
    <2>1. conn.id # 0
        BY <1>13 DEF OnProxyReply, NoWorldNoConn, NoConn
    <2>2. conn' \in Ours
        BY <1>13, Same DEF OnProxyReply
    <2> QED
        BY <1>13, <2>1, <2>2 DEF OnProxyReply
<1>14. ASSUME OnClose PROVE Opens \/ Closes \/ GoesOn
    <2>1. CASE conn.id # 0 /\ conn' = [conn EXCEPT !.closed = TRUE]
               /\ UNCHANGED <<connectID, info, shown>>
        BY <1>14, <2>1, Same DEF OnClose
    <2>2. CASE QuietShutdown
        BY <1>14, <2>2, Same DEF OnClose, QuietShutdown, session
    <2> QED
        BY <1>14, <2>1, <2>2 DEF OnClose, ShutdownWorld
<1>15. ASSUME UserDisconnects PROVE Opens \/ Closes \/ GoesOn
    BY <1>15, Same DEF UserDisconnects, ShutdownWorld, QuietShutdown
<1>16. ASSUME CancelConnect PROVE Opens \/ Closes \/ GoesOn
    <2>1. conn.id # 0
        BY <1>16 DEF CancelConnect, NoWorldNoConn
    <2>2. CASE conn' = [conn EXCEPT !.canceled = TRUE, !.blocking = FALSE]
               /\ UNCHANGED <<connectID, info, shown>>
        BY <1>16, <2>1, <2>2, Same DEF CancelConnect
    <2>3. CASE Disconnect
        BY <1>16, <2>3 DEF CancelConnect, documents
    <2> QED
        BY <1>16, <2>1, <2>2, <2>3 DEF CancelConnect, QuietShutdown
<1>17. ASSUME CancelNothing PROVE Opens \/ Closes \/ GoesOn
    BY <1>17, Same DEF CancelNothing, Crash, session, documents
<1>18. ASSUME NEW kind \in {"file", "script"}, OnReceive(kind) PROVE Opens \/ Closes \/ GoesOn
    BY <1>18, Same DEF OnReceive, session, documents
<1>19. ASSUME NEW r \in requests, Delivered(r) PROVE Opens \/ Closes \/ GoesOn
    BY <1>19, Same DEF Delivered, session, documents
<1>20. ASSUME NEW r \in requests, Posted(r) PROVE Opens \/ Closes \/ GoesOn
    BY <1>20, Same DEF Posted, session, documents
<1>21. ASSUME NEW r \in requests, OnHTTPLoadComplete(r) PROVE Opens \/ Closes \/ GoesOn
    <2>1. conn' \in Ours /\ UNCHANGED <<opened, connectID, info, conn>>
        BY <1>21, Same DEF OnHTTPLoadComplete
    <2>2. shown' = shown \/ (conn.id # 0 /\ ~TooLate(r) /\ shown' = r.world)
        BY <1>21 DEF OnHTTPLoadComplete
    <2> QED
        BY <2>1, <2>2
<1>22. ASSUME NEW r \in requests, OnExecuteScript(r) PROVE Opens \/ Closes \/ GoesOn
    BY <1>22, Same DEF OnExecuteScript, QuietShutdown, Disconnect, Push, Box, session, documents
<1>23. CASE UNCHANGED vars
    BY <1>23, Same DEF vars, session, documents
<1> QED
    BY <1>1, <1>2, <1>3, <1>4, <1>5, <1>6, <1>7, <1>8, <1>9, <1>10, <1>11, <1>12, <1>13, <1>14,
       <1>15, <1>16, <1>17, <1>18, <1>19, <1>20, <1>21, <1>22, <1>23
    DEF Next, LookupStep, WaitReturns, RequestStep

\* A step of the download of a request, and a request of the current world.
Step(r, q) == q.id = r.id /\ q.world = r.world /\ q.kind = r.kind

ForCurrent(q) ==
    /\ q.id = connectID /\ q.world = info
    /\ conn.online
    /\ q.kind = "script" => "script" \in features
    /\ UNCHANGED <<features, connectID, info, conn>>

\* A request is one that was there, or is made for the current world.
LEMMA RequestsMove ==
    ASSUME requests \subseteq Requests, SessionOK, connectID \in Nat, asked \in 0 .. MaxRequests,
           info \in 0 .. MaxWorlds, [Next]_vars
    PROVE  /\ requests' \subseteq Requests /\ asked' \in 0 .. MaxRequests
           /\ \A q \in requests' :
                  (\E r \in requests : Step(r, q)) \/ ForCurrent(q)
<1> DEFINE Old(q) == \E r \in requests : Step(r, q)
<1>1. ASSUME requests' \subseteq requests, asked' = asked
      PROVE  requests' \subseteq Requests /\ asked' \in 0 .. MaxRequests /\ \A q \in requests' : Old(q)
    BY <1>1 DEF Step
<1>2. ASSUME NEW kind \in {"file", "script"}, OnReceive(kind)
      PROVE  requests' \subseteq Requests /\ asked' \in 0 .. MaxRequests
             /\ \A q \in requests' : Old(q) \/ ForCurrent(q)
    <2>1. info \in 1 .. MaxWorlds
        BY <1>2 DEF OnReceive, SessionOK, NoWorldNoConn, NoConn
    <2>2. asked' \in 1 .. MaxRequests
        BY <1>2, WorldBounds DEF OnReceive
    <2> DEFINE q == [kind |-> kind, world |-> info, id |-> connectID, no |-> asked', step |-> "asked"]
    <2>3. q \in Requests
        BY <2>1, <2>2 DEF Requests
    <2>4. requests' = requests \cup {q} /\ connectID' = connectID /\ info' = info
        BY <1>2 DEF OnReceive, session
    <2>5. ForCurrent(q)
        BY <1>2, <2>4 DEF ForCurrent, OnReceive, session
    <2>6. \A p \in requests : Step(p, p)
        BY DEF Step
    <2> QED
        BY <1>2, <2>2, <2>3, <2>4, <2>5, <2>6
<1>3. ASSUME NEW r \in requests, NEW s \in {"checked", "posted"}, asked' = asked,
             requests' \subseteq (requests \ {r}) \cup {[r EXCEPT !.step = s]}
      PROVE  requests' \subseteq Requests /\ asked' \in 0 .. MaxRequests /\ \A q \in requests' : Old(q)
    <2>1. [r EXCEPT !.step = s] \in Requests /\ Old([r EXCEPT !.step = s])
        BY DEF Requests, Step
    <2>2. \A p \in requests : Step(p, p)
        BY DEF Step
    <2> QED
        BY <1>3, <2>1, <2>2
<1>4. ASSUME NEW r \in requests, RequestStep
      PROVE  \/ requests' \subseteq requests /\ asked' = asked
             \/ \E p \in requests, s \in {"checked", "posted"} :
                    asked' = asked /\ requests' \subseteq (requests \ {p}) \cup {[p EXCEPT !.step = s]}
    BY <1>4 DEF RequestStep, Delivered, Posted, OnHTTPLoadComplete, OnExecuteScript
<1>5. ASSUME [Next]_vars PROVE
         \/ \E kind \in {"file", "script"} : OnReceive(kind)
         \/ RequestStep
         \/ requests' = requests /\ asked' = asked
    BY <1>5
    DEF Next, LookupStep, WaitReturns, vars, documents, OpenWorld, LookupAnswered, NotifyProxy,
        AddressFound, AddressMissing, AddressUnwanted, ProxyLookupReturns, ConnectReturns,
        ProxyReturns, DanglingReturns, BoxCloses, OnConnect, OnProxyReply, OnClose,
        UserDisconnects, CancelConnect, CancelNothing, Crash
<1> QED
    BY <1>1, <1>2, <1>3, <1>4, <1>5 DEF RequestStep

\* A message box is a handler that waits.
LEMMA PushBox ==
    ASSUME stack \in Seq(Frames), NEW then \in {"shutdown", "disconnect", "nothing"}, Push(Box(then))
    PROVE  stack' \in Seq(Frames)
<1>1. Box(then) \in Frames
    BY DEF Box, Frames
<1> QED
    BY <1>1, Pushed DEF Push

\* The stack holds handlers that wait.
LEMMA StackKept == SessionOK /\ [Next]_vars => stack' \in Seq(Frames)
<1> SUFFICES ASSUME SessionOK, [Next]_vars PROVE stack' \in Seq(Frames)
    OBVIOUS
<1> USE DEF SessionOK
<1>1. ASSUME NEW answer \in Answers, OpenWorld(answer) PROVE stack' \in Seq(Frames)
    BY <1>1 DEF OpenWorld, OpenID, session, documents
<1>2. ASSUME NEW l \in lookups, NEW answer \in {"ok", "failed"}, LookupAnswered(l, answer)
      PROVE  stack' \in Seq(Frames)
    BY <1>2 DEF LookupAnswered, session, documents
<1>3. ASSUME NEW l \in lookups, NotifyProxy(l) PROVE stack' \in Seq(Frames)
    BY <1>3 DEF NotifyProxy, session, documents
<1>4. ASSUME NEW l \in lookups, AddressFound(l) PROVE stack' \in Seq(Frames)
    <2>1. conn.id \in 1 .. MaxWorlds
        BY <1>4, WorldBounds DEF AddressFound, SessionOK, NoWorldNoConn, Conns
    <2>2. [kind |-> "lookup", conn |-> conn.id] \in Frames /\ [kind |-> "connect", conn |-> conn.id] \in Frames
        BY <2>1 DEF Frames
    <2>3. /\ <<[kind |-> "lookup", conn |-> conn.id]>> \o stack \in Seq(Frames)
          /\ <<[kind |-> "connect", conn |-> conn.id]>> \o stack \in Seq(Frames)
        BY <2>2, Pushed DEF SessionOK
    <2>4. \/ stack' = <<[kind |-> "lookup", conn |-> conn.id]>> \o stack
          \/ stack' = <<[kind |-> "connect", conn |-> conn.id]>> \o stack
          \/ stack' = stack
        BY <1>4 DEF AddressFound, SOCKSconnect, BeginConnect, ConnectThrows, Push
    <2> QED
        BY <2>3, <2>4 DEF SessionOK
<1>5. ASSUME NEW l \in lookups, AddressMissing(l) PROVE stack' \in Seq(Frames)
    BY <1>5, PushBox DEF AddressMissing, SessionOK
<1>6. ASSUME NEW l \in lookups, AddressUnwanted(l) PROVE stack' \in Seq(Frames)
    BY <1>6 DEF AddressUnwanted, Crash, session, documents
<1>7. ASSUME ProxyLookupReturns PROVE stack' \in Seq(Frames)
    <2>1. stack # <<>> /\ Tail(stack) \in Seq(Frames)
        BY <1>7, Waits, Popped DEF ProxyLookupReturns, SessionOK
    <2>2. ASSUME ~Dangling(Top) PROVE [kind |-> "connect", conn |-> conn.id] \in Frames
        <3>1. conn.id \in 1 .. MaxWorlds
            BY <1>7, <2>2, Waits DEF ProxyLookupReturns, Dangling, SessionOK
        <3> QED
            BY <3>1 DEF Frames
    <2>3. ASSUME ~Dangling(Top)
          PROVE  <<[kind |-> "connect", conn |-> conn.id]>> \o Tail(stack) \in Seq(Frames)
        BY <2>1, <2>2, <2>3, Pushed
    <2>4. \/ ~Dangling(Top) /\ stack' = <<[kind |-> "connect", conn |-> conn.id]>> \o Tail(stack)
          \/ stack' = Tail(stack)
        BY <1>7 DEF ProxyLookupReturns, BeginConnect, ConnectThrows
    <2> QED
        BY <2>1, <2>3, <2>4
<1>8. ASSUME ConnectReturns PROVE stack' \in Seq(Frames)
    <2>1. stack # <<>> /\ Tail(stack) \in Seq(Frames) /\ conn.id \in 1 .. MaxWorlds
        BY <1>8, Waits, Popped DEF ConnectReturns, Dangling, SessionOK
    <2>2. [kind |-> "proxy", conn |-> conn.id] \in Frames
        BY <2>1 DEF Frames
    <2>3. <<[kind |-> "proxy", conn |-> conn.id]>> \o Tail(stack) \in Seq(Frames)
        BY <2>1, <2>2, Pushed
    <2>4. \/ stack' = <<[kind |-> "proxy", conn |-> conn.id]>> \o Tail(stack)
          \/ stack' = Tail(stack)
        BY <1>8 DEF ConnectReturns, ConnectThrows
    <2> QED
        BY <2>1, <2>3, <2>4
<1>9. ASSUME ProxyReturns PROVE stack' \in Seq(Frames)
    <2>1. stack # <<>> /\ Tail(stack) \in Seq(Frames)
        BY <1>9, Waits, Popped DEF ProxyReturns, SessionOK
    <2>2. stack' = Tail(stack)
        BY <1>9 DEF ProxyReturns, ConnectThrows
    <2> QED
        BY <2>1, <2>2
<1>10. ASSUME DanglingReturns PROVE stack' \in Seq(Frames)
    BY <1>10, Waits, Popped DEF DanglingReturns, ConnectThrows, SessionOK
<1>11. ASSUME BoxCloses PROVE stack' \in Seq(Frames)
    BY <1>11, Popped DEF BoxCloses, Top, SessionOK
<1>12. ASSUME NEW error \in BOOLEAN, OnConnect(error) PROVE stack' \in Seq(Frames)
    BY <1>12, PushBox DEF OnConnect, SessionOK
<1>13. ASSUME NEW granted \in BOOLEAN, OnProxyReply(granted) PROVE stack' \in Seq(Frames)
    BY <1>13 DEF OnProxyReply, session, documents
<1>14. ASSUME OnClose PROVE stack' \in Seq(Frames)
    BY <1>14, PushBox DEF OnClose, ShutdownWorld, SessionOK
<1>15. ASSUME UserDisconnects PROVE stack' \in Seq(Frames)
    BY <1>15, PushBox DEF UserDisconnects, ShutdownWorld, SessionOK
<1>16. ASSUME CancelConnect PROVE stack' \in Seq(Frames)
    BY <1>16
    DEF CancelConnect, CancelBlocking, CancelShuts, QuietShutdown, Disconnect, session, documents
<1>17. ASSUME CancelNothing PROVE stack' \in Seq(Frames)
    BY <1>17 DEF CancelNothing, Crash, session, documents
<1>18. ASSUME NEW kind \in {"file", "script"}, OnReceive(kind) PROVE stack' \in Seq(Frames)
    BY <1>18 DEF OnReceive, session, documents
<1>19. ASSUME NEW r \in requests, Delivered(r) PROVE stack' \in Seq(Frames)
    BY <1>19 DEF Delivered, session, documents
<1>20. ASSUME NEW r \in requests, Posted(r) PROVE stack' \in Seq(Frames)
    BY <1>20 DEF Posted, session, documents
<1>21. ASSUME NEW r \in requests, OnHTTPLoadComplete(r) PROVE stack' \in Seq(Frames)
    BY <1>21, PushBox DEF OnHTTPLoadComplete, SessionOK
<1>22. ASSUME NEW r \in requests, OnExecuteScript(r) PROVE stack' \in Seq(Frames)
    BY <1>22, PushBox DEF OnExecuteScript, SessionOK
<1>23. CASE UNCHANGED vars
    BY <1>23 DEF vars, session, documents
<1> QED
    BY <1>1, <1>2, <1>3, <1>4, <1>5, <1>6, <1>7, <1>8, <1>9, <1>10, <1>11, <1>12, <1>13, <1>14,
       <1>15, <1>16, <1>17, <1>18, <1>19, <1>20, <1>21, <1>22, <1>23
    DEF Next, LookupStep, WaitReturns, RequestStep

\* A lookup is for some world.
LEMMA LookupsKept == SessionOK /\ LookupsOK /\ info \in 0 .. MaxWorlds /\ [Next]_vars => LookupsOK'
<1> SUFFICES ASSUME SessionOK, LookupsOK, info \in 0 .. MaxWorlds, [Next]_vars PROVE LookupsOK'
    OBVIOUS
<1> USE DEF LookupsOK, Lookups, Answers
<1>1. ASSUME NEW answer \in Answers, OpenWorld(answer) PROVE LookupsOK'
    <2>1. opened' \in 1 .. MaxWorlds
        BY <1>1, WorldBounds DEF OpenWorld, SessionOK
    <2> QED
        BY <1>1, <2>1 DEF OpenWorld
<1>2. ASSUME NEW l \in lookups, NEW answer \in {"ok", "failed"}, LookupAnswered(l, answer)
      PROVE  LookupsOK'
    <2>1. [l EXCEPT !.answer = answer] \in Lookups
        OBVIOUS
    <2>2. lookups' \subseteq Lookups
        BY <1>2, <2>1 DEF LookupAnswered, Lookups
    <2>3. proxyInfo' \in Answers \cup {"none", "deleted"}
        BY <1>2 DEF LookupAnswered
    <2> QED
        BY <2>2, <2>3
<1>3. ASSUME NEW l \in lookups, NotifyProxy(l) PROVE LookupsOK'
    BY <1>3 DEF NotifyProxy, session, documents
<1>4. ASSUME NEW l \in lookups, AddressFound(l) PROVE LookupsOK'
    <2>1. [for |-> info, kind |-> "proxy", answer |-> "asked"] \in Lookups
        BY <1>4 DEF AddressFound
    <2>2. \/ /\ lookups' = (lookups \ {l}) \cup {[for |-> info, kind |-> "proxy", answer |-> "asked"]}
             /\ proxyInfo' = "asked"
          \/ lookups' = lookups \ {l} /\ proxyInfo' = proxyInfo
        BY <1>4 DEF AddressFound, SOCKSconnect
    <2> QED
        BY <2>1, <2>2
<1>5. ASSUME NEW l \in lookups, AddressMissing(l) PROVE LookupsOK'
    BY <1>5 DEF AddressMissing, Push, Box, session, documents
<1>6. ASSUME NEW l \in lookups, AddressUnwanted(l) PROVE LookupsOK'
    BY <1>6 DEF AddressUnwanted, Crash, session, documents
<1>7. ASSUME ProxyLookupReturns PROVE LookupsOK'
    BY <1>7
    DEF ProxyLookupReturns, BeginConnect, ConnectThrows, QuietShutdown, Disconnect, session,
        documents
<1>8. ASSUME ConnectReturns PROVE LookupsOK'
    BY <1>8 DEF ConnectReturns, ConnectThrows, QuietShutdown, Disconnect, session, documents
<1>9. ASSUME ProxyReturns PROVE LookupsOK'
    BY <1>9 DEF ProxyReturns, ConnectThrows, QuietShutdown, Disconnect, session, documents
<1>10. ASSUME DanglingReturns PROVE LookupsOK'
    BY <1>10 DEF DanglingReturns, QuietShutdown, Disconnect, session, documents
<1>11. ASSUME BoxCloses PROVE LookupsOK'
    BY <1>11 DEF BoxCloses, QuietShutdown, Disconnect, session, documents
<1>12. ASSUME NEW error \in BOOLEAN, OnConnect(error) PROVE LookupsOK'
    BY <1>12 DEF OnConnect, Push, Box, session, documents
<1>13. ASSUME NEW granted \in BOOLEAN, OnProxyReply(granted) PROVE LookupsOK'
    BY <1>13 DEF OnProxyReply, session, documents
<1>14. ASSUME OnClose PROVE LookupsOK'
    BY <1>14 DEF OnClose, ShutdownWorld, QuietShutdown, Disconnect, Push, Box, session, documents
<1>15. ASSUME UserDisconnects PROVE LookupsOK'
    BY <1>15
    DEF UserDisconnects, ShutdownWorld, QuietShutdown, Disconnect, Push, Box, session, documents
<1>16. ASSUME CancelConnect PROVE LookupsOK'
    BY <1>16 DEF CancelConnect, CancelBlocking
<1>17. ASSUME CancelNothing PROVE LookupsOK'
    BY <1>17 DEF CancelNothing, Crash, session, documents
<1>18. ASSUME NEW kind \in {"file", "script"}, OnReceive(kind) PROVE LookupsOK'
    BY <1>18 DEF OnReceive, session, documents
<1>19. ASSUME NEW r \in requests, Delivered(r) PROVE LookupsOK'
    BY <1>19 DEF Delivered, session, documents
<1>20. ASSUME NEW r \in requests, Posted(r) PROVE LookupsOK'
    BY <1>20 DEF Posted, session, documents
<1>21. ASSUME NEW r \in requests, OnHTTPLoadComplete(r) PROVE LookupsOK'
    BY <1>21 DEF OnHTTPLoadComplete, TooLate, Push, Box, session, documents
<1>22. ASSUME NEW r \in requests, OnExecuteScript(r) PROVE LookupsOK'
    BY <1>22 DEF OnExecuteScript, QuietShutdown, Disconnect, Push, Box, session, documents
<1>23. CASE UNCHANGED vars
    BY <1>23 DEF vars, session, documents
<1> QED
    BY <1>1, <1>2, <1>3, <1>4, <1>5, <1>6, <1>7, <1>8, <1>9, <1>10, <1>11, <1>12, <1>13, <1>14,
       <1>15, <1>16, <1>17, <1>18, <1>19, <1>20, <1>21, <1>22, <1>23
    DEF Next, LookupStep, WaitReturns, RequestStep

\* The flags are Booleans.
LEMMA FlagsKept == FlagsOK /\ [Next]_vars => FlagsOK'
<1> SUFFICES ASSUME FlagsOK, [Next]_vars PROVE FlagsOK'
    OBVIOUS
<1> USE DEF FlagsOK, Features
<1>1. ASSUME NEW answer \in Answers, OpenWorld(answer) PROVE FlagsOK'
    BY <1>1 DEF OpenWorld, OpenID, session, documents
<1>2. ASSUME NEW l \in lookups, NEW answer \in {"ok", "failed"}, LookupAnswered(l, answer)
      PROVE  FlagsOK'
    BY <1>2 DEF LookupAnswered, session, documents
<1>3. ASSUME NEW l \in lookups, NotifyProxy(l) PROVE FlagsOK'
    BY <1>3 DEF NotifyProxy, session, documents
<1>4. ASSUME NEW l \in lookups, AddressFound(l) PROVE FlagsOK'
    <2>1. proxyKnown' \in BOOLEAN
        BY <1>4 DEF AddressFound, SOCKSconnect
    <2>2. features' = features /\ dialog' = dialog /\ waiting' = FALSE /\ blocking' \in BOOLEAN
          /\ enhanced' = enhanced /\ crashed' = crashed
        BY <1>4 DEF AddressFound, SOCKSconnect, documents
    <2> QED
        BY <2>1, <2>2
<1>5. ASSUME NEW l \in lookups, AddressMissing(l) PROVE FlagsOK'
    BY <1>5 DEF AddressMissing, Push, Box, session, documents
<1>6. ASSUME NEW l \in lookups, AddressUnwanted(l) PROVE FlagsOK'
    BY <1>6 DEF AddressUnwanted, Crash, session, documents
<1>7. ASSUME ProxyLookupReturns PROVE FlagsOK'
    BY <1>7
    DEF ProxyLookupReturns, BeginConnect, ConnectThrows, QuietShutdown, Disconnect, session,
        documents
<1>8. ASSUME ConnectReturns PROVE FlagsOK'
    BY <1>8 DEF ConnectReturns, ConnectThrows, QuietShutdown, Disconnect, session, documents
<1>9. ASSUME ProxyReturns PROVE FlagsOK'
    BY <1>9 DEF ProxyReturns, ConnectThrows, QuietShutdown, Disconnect, session, documents
<1>10. ASSUME DanglingReturns PROVE FlagsOK'
    BY <1>10 DEF DanglingReturns, QuietShutdown, Disconnect, session, documents
<1>11. ASSUME BoxCloses PROVE FlagsOK'
    BY <1>11 DEF BoxCloses, QuietShutdown, Disconnect, session, documents
<1>12. ASSUME NEW error \in BOOLEAN, OnConnect(error) PROVE FlagsOK'
    BY <1>12 DEF OnConnect, Push, Box, session, documents
<1>13. ASSUME NEW granted \in BOOLEAN, OnProxyReply(granted) PROVE FlagsOK'
    BY <1>13 DEF OnProxyReply, session, documents
<1>14. ASSUME OnClose PROVE FlagsOK'
    BY <1>14 DEF OnClose, ShutdownWorld, QuietShutdown, Disconnect, Push, Box, session, documents
<1>15. ASSUME UserDisconnects PROVE FlagsOK'
    BY <1>15
    DEF UserDisconnects, ShutdownWorld, QuietShutdown, Disconnect, Push, Box, session, documents
<1>16. ASSUME CancelConnect PROVE FlagsOK'
    BY <1>16
    DEF CancelConnect, CancelBlocking, CancelShuts, QuietShutdown, Disconnect, session, documents
<1>17. ASSUME CancelNothing PROVE FlagsOK'
    BY <1>17 DEF CancelNothing, Crash, session, documents
<1>18. ASSUME NEW kind \in {"file", "script"}, OnReceive(kind) PROVE FlagsOK'
    BY <1>18 DEF OnReceive, session, documents
<1>19. ASSUME NEW r \in requests, Delivered(r) PROVE FlagsOK'
    BY <1>19 DEF Delivered, session, documents
<1>20. ASSUME NEW r \in requests, Posted(r) PROVE FlagsOK'
    BY <1>20 DEF Posted, session, documents
<1>21. ASSUME NEW r \in requests, OnHTTPLoadComplete(r) PROVE FlagsOK'
    BY <1>21 DEF OnHTTPLoadComplete, TooLate, Push, Box, session, documents
<1>22. ASSUME NEW r \in requests, OnExecuteScript(r) PROVE FlagsOK'
    BY <1>22 DEF OnExecuteScript, QuietShutdown, Disconnect, Push, Box, session, documents
<1>23. CASE UNCHANGED vars
    BY <1>23 DEF vars, session, documents
<1> QED
    BY <1>1, <1>2, <1>3, <1>4, <1>5, <1>6, <1>7, <1>8, <1>9, <1>10, <1>11, <1>12, <1>13, <1>14,
       <1>15, <1>16, <1>17, <1>18, <1>19, <1>20, <1>21, <1>22, <1>23
    DEF Next, LookupStep, WaitReturns, RequestStep

-----------------------------------------------------------------------------
(* The session. *)

\* What may happen is settled from the start.
LEMMA FeaturesStay == [Next]_vars => features' = features
    BY DEF Next, LookupStep, WaitReturns, RequestStep, vars, Crash, OpenWorld, LookupAnswered,
       NotifyProxy, AddressFound, AddressMissing, AddressUnwanted, ProxyLookupReturns,
       ConnectReturns, ProxyReturns, DanglingReturns, BoxCloses, OnConnect, OnProxyReply, OnClose,
       UserDisconnects, CancelConnect, CancelNothing, OnReceive, Delivered, Posted,
       OnHTTPLoadComplete, OnExecuteScript

\* The connection of a world that is just opened.
LEMMA Fresh ==
    ASSUME NEW i \in 1 .. MaxWorlds
    PROVE  [NoConn EXCEPT !.id = i] \in Conns /\ [NoConn EXCEPT !.id = i].id = i
<1>1. [NoConn EXCEPT !.id = i].id = i
    BY DEF NoConn
<1>2. i \in 0 .. MaxWorlds
    BY WorldBounds
<1>3. [NoConn EXCEPT !.id = i] \in Conns
    BY <1>2 DEF NoConn, Conns, SocketStates
<1> QED
    BY <1>1, <1>3

\* The invariant holds at the start.
LEMMA Init_BaseInv == Init => BaseInv
<1> SUFFICES ASSUME Init PROVE BaseInv
    OBVIOUS
<1>1. NoConn \in Conns
    BY WorldBounds DEF NoConn, Conns, SocketStates
<1>2. TypeOK
    <2>1. stack \in Seq(Frames) /\ features \subseteq Features
        BY DEF Init
    <2>2. opened = 0 /\ info = 0 /\ shown = 0 /\ connectID = 0 /\ asked = 0 /\ conn \in Conns
        BY <1>1 DEF Init
    <2>3. /\ opened \in 0 .. MaxWorlds /\ info \in 0 .. opened /\ shown \in 0 .. opened
          /\ connectID \in Nat /\ asked \in 0 .. MaxRequests
        BY <2>2, WorldBounds
    <2> QED
        BY <2>1, <2>2, <2>3 DEF Init, TypeOK
<1>3. NoWorldNoConn /\ IDsTellWorlds
    BY DEF Init, NoWorldNoConn, IDsTellWorlds, NoConn
<1> QED
    BY <1>2, <1>3 DEF BaseInv

\* Every step keeps it.
LEMMA Next_BaseInv == BaseInv /\ [Next]_vars => BaseInv'
<1> SUFFICES ASSUME BaseInv, [Next]_vars PROVE BaseInv'
    OBVIOUS
<1>1. SessionOK /\ LookupsOK /\ FlagsOK
    BY DEF BaseInv, TypeOK, SessionOK, LookupsOK, FlagsOK
<1>2. requests \subseteq Requests /\ connectID \in Nat /\ asked \in 0 .. MaxRequests
      /\ opened \in 0 .. MaxWorlds /\ info \in 0 .. opened /\ shown \in 0 .. opened
      /\ NoWorldNoConn /\ IDsTellWorlds /\ conn \in Conns
    BY DEF BaseInv, TypeOK
<1>3. info \in 0 .. MaxWorlds
    BY <1>2, WorldBounds
<1>4. stack' \in Seq(Frames) /\ LookupsOK' /\ FlagsOK'
    BY <1>1, <1>3, StackKept, LookupsKept, FlagsKept
<1>5. Opens \/ Closes \/ GoesOn
    BY <1>1, Moves
<1>6. /\ requests' \subseteq Requests /\ asked' \in 0 .. MaxRequests
      /\ \A q \in requests' : (\E r \in requests : Step(r, q)) \/ ForCurrent(q)
    BY <1>1, <1>2, <1>3, RequestsMove
<1>7. /\ opened' \in 0 .. MaxWorlds /\ info' \in 0 .. opened' /\ shown' \in 0 .. opened'
      /\ connectID' \in Nat /\ conn' \in Conns /\ NoWorldNoConn'
    <2>1. CASE Opens
        <3>1. opened' \in 1 .. MaxWorlds
            BY <1>2, <2>1, WorldBounds DEF Opens
        <3>2. [NoConn EXCEPT !.id = opened'] \in Conns /\ [NoConn EXCEPT !.id = opened'].id = opened'
            BY <3>1, Fresh
        <3>3. conn' \in Conns /\ conn'.id # 0 /\ info' # 0
            <4>1. CASE conn.id = 0
                BY <2>1, <3>1, <3>2, <4>1 DEF Opens
            <4>2. CASE conn.id # 0
                BY <1>2, <2>1, <3>1, <4>2 DEF Opens
            <4> QED
                BY <4>1, <4>2
        <3>4. info' \in 0 .. opened' /\ shown' \in 0 .. opened' /\ connectID' \in Nat
            BY <1>2, <2>1, <3>1 DEF Opens
        <3> QED
            BY <3>1, <3>3, <3>4 DEF NoWorldNoConn
    <2>2. CASE Closes
        <3>1. NoConn \in Conns /\ NoConn.id = 0
            BY WorldBounds DEF NoConn, Conns, SocketStates
        <3> QED
            BY <1>2, <2>2, <3>1 DEF Closes, Disconnect, NoWorldNoConn
    <2>3. CASE GoesOn
        <3>1. \A r \in requests : ~TooLate(r) => r.world = info
            BY <1>2 DEF IDsTellWorlds, TooLate, Told
        <3> QED
            BY <1>2, <2>3, <3>1 DEF GoesOn, Ours, NoWorldNoConn
    <2> QED
        BY <1>5, <2>1, <2>2, <2>3
<1>8. IDsTellWorlds'
    <2>1. \A r \in requests : r.id \in Nat
        BY <1>2 DEF Requests
    <2>2. features' = features
        BY FeaturesStay
    <2>3. ASSUME NEW q \in requests' PROVE Told(q)'
        <3>1. CASE ForCurrent(q)
            BY <1>2, <3>1 DEF ForCurrent, Told
        <3>2. ASSUME NEW r \in requests, Step(r, q)
              PROVE  Told(q)'
            <4>1. /\ r.id <= connectID /\ r.id \in Nat
                  /\ r.id = connectID => r.world = info /\ conn.online
                  /\ r.kind = "script" => "script" \in features
                BY <1>2, <2>1 DEF IDsTellWorlds, Told
            <4>2. CASE Opens \/ Closes
                BY <1>2, <2>2, <3>2, <4>1, <4>2 DEF Opens, Closes, Disconnect, Step, Told
            <4>3. CASE GoesOn
                BY <2>2, <3>2, <4>1, <4>3 DEF GoesOn, Ours, Step, Told
            <4> QED
                BY <1>5, <4>2, <4>3
        <3> QED
            BY <1>6, <3>1, <3>2
    <2> QED
        BY <2>3 DEF IDsTellWorlds
<1> QED
    BY <1>4, <1>6, <1>7, <1>8 DEF BaseInv, TypeOK, LookupsOK, FlagsOK

\* The invariant holds in every behaviour, for any number of worlds and documents.
THEOREM BaseInvariant == Spec => []BaseInv
<1> QED
    BY Init_BaseInv, Next_BaseInv, PTL DEF Spec

\* The text window shows only files that its own world asked for.
THEOREM FilesForTheirWorlds == Spec => FileForItsWorld
<1>1. BaseInv /\ [Next]_vars => [shown' \notin {0, shown} => shown' = info]_vars
    <2> SUFFICES ASSUME BaseInv, [Next]_vars, shown' \notin {0, shown} PROVE shown' = info
        OBVIOUS
    <2>1. SessionOK /\ IDsTellWorlds
        BY DEF BaseInv, TypeOK, SessionOK
    <2>2. GoesOn
        BY <2>1, Moves DEF Opens, Closes, Disconnect
    <2> QED
        BY <2>1, <2>2 DEF GoesOn, TooLate, IDsTellWorlds, Told
<1> QED
    BY <1>1, BaseInvariant, PTL DEF Spec, FileForItsWorld

\* A connection that was cancelled is not announced when the network accepts it.
THEOREM CanceledIsOffline == Spec => CanceledStaysOffline
<1>1. BaseInv /\ [Next]_vars => [conn.canceled /\ conn'.online => conn.online]_vars
    <2> SUFFICES ASSUME BaseInv, [Next]_vars, conn.canceled, conn'.online PROVE conn.online
        OBVIOUS
    <2>1. SessionOK
        BY DEF BaseInv, TypeOK, SessionOK
    <2>2. CASE Opens
        <3>1. ~[NoConn EXCEPT !.id = opened'].online
            BY DEF NoConn
        <3> QED
            BY <2>2, <3>1 DEF Opens
    <2>3. CASE Closes
        BY <2>3 DEF Closes, Disconnect, NoConn
    <2>4. CASE GoesOn
        BY <2>4 DEF GoesOn, Ours
    <2> QED
        BY <2>1, <2>2, <2>3, <2>4, Moves
<1> QED
    BY <1>1, BaseInvariant, PTL DEF Spec, CanceledStaysOffline

-----------------------------------------------------------------------------
(* The two shapes of the stack. *)

\* A box on top of boxes.
LEMMA BoxesPush ==
    ASSUME NEW s \in Seq(Frames), NEW f \in Frames, AllBoxes(s), f.kind = "box"
    PROVE  AllBoxes(<<f>> \o s)
    BY DEF AllBoxes

\* The boxes below a box.
LEMMA BoxesPop ==
    ASSUME NEW s \in Seq(Frames), AllBoxes(s), s # <<>>
    PROVE  AllBoxes(Tail(s)) /\ Head(s).kind = "box"
    BY DEF AllBoxes

\* Every box is a handler.
LEMMA BoxFrames == \A then \in {"shutdown", "disconnect", "nothing"} : Box(then) \in Frames
    BY DEF Box, Frames

\* A failure is told of above the wait.
LEMMA WaitPush ==
    ASSUME NEW s \in Seq(Frames), NEW id, OneWait(s, id)
    PROVE  OneWait(<<Box("nothing")>> \o s, id) /\ Len(<<Box("nothing")>> \o s) = Len(s) + 1
<1> DEFINE t == <<Box("nothing")>> \o s
<1>1. Len(t) = Len(s) + 1 /\ t[1] = Box("nothing") /\ \A i \in 1 .. Len(s) : t[i + 1] = s[i]
    OBVIOUS
<1> HIDE DEF t
<1>2. t[Len(t)] = WaitOf(id)
    BY <1>1 DEF OneWait
<1>3. ASSUME NEW i \in 1 .. Len(t) - 1 PROVE t[i] = Box("nothing")
    <2>1. CASE i = 1
        BY <1>1, <2>1
    <2>2. CASE i # 1
        <3>1. i - 1 \in 1 .. Len(s) - 1
            BY <1>1, <2>2
        <3>2. t[(i - 1) + 1] = s[i - 1]
            BY <1>1, <3>1
        <3> QED
            BY <3>1, <3>2 DEF OneWait
    <2> QED
        BY <2>1, <2>2
<1>4. OneWait(t, id) /\ Len(t) = Len(s) + 1
    BY <1>1, <1>2, <1>3 DEF OneWait
<1> QED
    BY <1>4 DEF t

\* The innermost handler of a wait, and what is below it.
LEMMA WaitPop ==
    ASSUME NEW s \in Seq(Frames), NEW id, OneWait(s, id)
    PROVE  /\ Len(s) = 1 => Head(s) = WaitOf(id) /\ Tail(s) = <<>>
           /\ Len(s) > 1 => /\ Head(s) = Box("nothing")
                            /\ OneWait(Tail(s), id) /\ Len(Tail(s)) = Len(s) - 1
<1>1. CASE Len(s) = 1
    <2>1. Len(Tail(s)) = 0 /\ Tail(s) \in Seq(Frames)
        BY <1>1, Popped
    <2>2. Tail(s) = <<>>
        BY <2>1, EmptySeq
    <2>3. Head(s) = WaitOf(id)
        BY <1>1 DEF OneWait
    <2> QED
        BY <1>1, <2>2, <2>3
<1>2. CASE Len(s) > 1
    <2> DEFINE t == Tail(s)
    <2>1. Len(t) = Len(s) - 1 /\ \A i \in 1 .. Len(t) : t[i] = s[i + 1]
        BY <1>2
    <2>2. Head(s) = Box("nothing")
        BY <1>2 DEF OneWait
    <2> HIDE DEF t
    <2>3. OneWait(t, id)
        BY <1>2, <2>1 DEF OneWait
    <2> QED
        BY <1>2, <2>1, <2>2, <2>3 DEF t
<1> QED
    BY <1>1, <1>2 DEF OneWait

\* A wait that has just begun.
LEMMA WaitAlone == \A id : OneWait(<<WaitOf(id)>>, id) /\ Len(<<WaitOf(id)>>) = 1
    BY DEF OneWait

-----------------------------------------------------------------------------
(* Who is on top. *)

\* When nobody waits for a connection, a box may be on top.
LEMMA TopAtRest ==
    ASSUME stack \in Seq(Frames), Resting
    PROVE  \/ stack = <<>> /\ Top.kind = "main"
           \/ stack # <<>> /\ Top.kind = "box"
<1>1. CASE stack = <<>>
    <2>1. Top = [kind |-> "main"]
        BY <1>1 DEF Top
    <2> QED
        BY <1>1, <2>1
<1>2. CASE stack # <<>>
    <2>1. Head(stack).kind = "box"
        BY <1>2, BoxesPop DEF Resting
    <2> QED
        BY <1>2, <2>1 DEF Top
<1> QED
    BY <1>1, <1>2

\* When somebody does, the wait is on top or a box that tells of its failure.
LEMMA TopConnecting ==
    ASSUME stack \in Seq(Frames), Connecting
    PROVE  /\ stack # <<>> /\ Len(stack) \in Nat /\ Len(stack) >= 1
           /\ \/ Len(stack) = 1 /\ Top = WaitOf(conn.id)
              \/ Len(stack) > 1 /\ Top = Box("nothing")
<1>1. stack # <<>> /\ Len(stack) \in Nat /\ Len(stack) >= 1
    BY DEF Connecting, OneWait
<1> QED
    BY <1>1, WaitPop DEF Top, Connecting

\* The user can do something only when nobody waits and no lookup is under way.
LEMMA UserFindsNobody ==
    ASSUME stack \in Seq(Frames), CalmSession, UserActive
    PROVE  Resting /\ stack = <<>> /\ lookups = {}
<1>1. lookups = {}
    BY DEF CalmSession, OneLookup, UserActive
<1>2. ~Connecting
    <2> SUFFICES ASSUME Connecting PROVE FALSE
        OBVIOUS
    <2>1. CASE Top = Box("nothing")
        BY <2>1 DEF UserActive, Box
    <2>2. CASE Len(stack) = 1 /\ Top = WaitOf(conn.id)
        BY <2>2 DEF UserActive, Dispatching, MustReturn, Dangling, WaitOf, Connecting
    <2> QED
        BY <2>1, <2>2, TopConnecting
<1> QED
    BY <1>1, <1>2, TopAtRest DEF CalmSession, UserActive

-----------------------------------------------------------------------------
(* The steps of a session without a proxy and without scripts. *)

\* A step that leaves the session as it is but for a lookup's answer.
Quiet ==
    /\ UNCHANGED <<conn, stack, dialog, waiting>>
    /\ \/ lookups' = lookups
       \/ \E l \in lookups, a \in Answers :
              lookups' = (lookups \ {l}) \cup {[l EXCEPT !.answer = a]}

\* Steps that leave the session alone.
LEMMA QuietIsCalm == CalmSession /\ lookups \subseteq Lookups /\ Quiet => CalmSession'
<1> SUFFICES ASSUME CalmSession, lookups \subseteq Lookups, Quiet PROVE CalmSession'
    OBVIOUS
<1>1. CASE lookups' = lookups
    BY <1>1
    DEF Quiet, CalmSession, Resting, Connecting, OnlineIsConnected, OneLookup, AnswerFindsNobody
<1>2. ASSUME NEW l \in lookups, NEW a \in Answers,
             lookups' = (lookups \ {l}) \cup {[l EXCEPT !.answer = a]}
      PROVE  CalmSession'
    <2>1. lookups = {l} /\ l.kind = "world" /\ dialog /\ l \in Lookups
        BY DEF CalmSession, OneLookup
    <2>2. lookups' = {[l EXCEPT !.answer = a]} /\ [l EXCEPT !.answer = a].kind = "world"
        BY <1>2, <2>1 DEF Lookups
    <2>3. Resting
        BY <2>1 DEF CalmSession, Connecting
    <2>4. OneLookup'
        BY <2>1, <2>2 DEF OneLookup, Quiet
    <2> QED
        BY <2>1, <2>2, <2>3, <2>4
        DEF Quiet, CalmSession, Resting, OnlineIsConnected, AnswerFindsNobody
<1> QED
    BY <1>1, <1>2 DEF Quiet

\* The world is closed while nobody waits, or when the wait is over.
LEMMA ClosedIsCalm ==
    ASSUME conn' = NoConn, AllBoxes(stack)', OneLookup'
    PROVE  CalmSession'
    BY DEF CalmSession, Resting, OnlineIsConnected, AnswerFindsNobody, NoConn

\* A world opens; its lookup begins.
LEMMA OpenIsCalm ==
    ASSUME stack \in Seq(Frames), CalmSession, NoWorldNoConn, NEW answer \in Answers, OpenWorld(answer)
    PROVE  CalmSession'
<1>1. Resting /\ stack = <<>> /\ lookups = {}
    BY UserFindsNobody DEF OpenWorld
<1>2. conn'.sock \in {"unknown", "connected"} /\ (conn'.online => conn'.sock = "connected")
    <2>1. CASE conn.id = 0
        BY <2>1 DEF OpenWorld, NoConn
    <2>2. CASE conn.id # 0
        BY <2>2, <1>1 DEF OpenWorld, CalmSession, OnlineIsConnected, Resting
    <2> QED
        BY <2>1, <2>2
<1>3. stack' = <<>> /\ AllBoxes(stack)'
    BY <1>1 DEF OpenWorld, AllBoxes
<1>4. OneLookup'
    BY <1>1 DEF OpenWorld, OneLookup
<1> QED
    BY <1>2, <1>3, <1>4 DEF CalmSession, Resting, OnlineIsConnected, AnswerFindsNobody

\* What the lemmas on the other steps assume.
CalmNow ==
    /\ SessionOK /\ lookups \subseteq Lookups /\ IDsTellWorlds
    /\ features \subseteq {"link"}
    /\ CalmSession

\* The address is known; the connection begins, or throws.
LEMMA FoundIsCalm ==
    ASSUME CalmNow, NEW l \in lookups, AddressFound(l)
    PROVE  CalmSession'
<1>1. l.kind = "world" /\ lookups = {l} /\ dialog /\ Resting /\ conn.id # 0 /\ info # 0
    BY DEF CalmNow, CalmSession, OneLookup, Connecting, AddressFound, SessionOK, NoWorldNoConn
<1>2. BeginConnect(stack) /\ lookups' = {} /\ ~waiting' /\ dialog' = dialog
    BY <1>1 DEF CalmNow, AddressFound, SOCKSconnect
<1>3. OneLookup'
    BY <1>2 DEF OneLookup
<1>4. CASE ConnectThrows(stack)
    <2>1. conn' = NoConn /\ stack' = stack
        BY <1>1, <1>4 DEF ConnectThrows, QuietShutdown, Disconnect
    <2>2. AllBoxes(stack)'
        BY <1>1, <2>1 DEF Resting, AllBoxes
    <2> QED
        BY <1>3, <2>1, <2>2, ClosedIsCalm
<1>5. CASE /\ conn.sock # "connected"
           /\ conn' = [conn EXCEPT !.sock = "waitConnect", !.blocking = TRUE]
           /\ stack' = <<[kind |-> "connect", conn |-> conn.id]>> \o stack
    <2>1. stack = <<>> /\ ~conn.online
        BY <1>1, <1>5 DEF CalmNow, CalmSession, AnswerFindsNobody, OnlineIsConnected
    <2>2. conn'.sock = "waitConnect" /\ conn'.id = conn.id /\ ~conn'.online
        BY <1>5, <2>1 DEF CalmNow, SessionOK, Conns
    <2>3. stack' = <<WaitOf(conn.id)>>
        BY <1>5, <2>1 DEF WaitOf
    <2>4. OneWait(stack', conn'.id) /\ Len(stack') = 1
        BY <2>2, <2>3, WaitAlone
    <2>5. Connecting'
        BY <1>1, <1>2, <2>2, <2>4 DEF Connecting
    <2> QED
        BY <1>2, <1>3, <2>2, <2>5 DEF CalmSession, OnlineIsConnected, AnswerFindsNobody
<1> QED
    BY <1>2, <1>4, <1>5 DEF BeginConnect

\* A box is shown while nobody waits, and no lookup could begin a connection.
LEMMA BoxIsCalm ==
    ASSUME CalmNow, Resting, NEW then \in {"shutdown", "disconnect", "nothing"}, Push(Box(then)),
           conn'.sock = conn.sock, conn'.online = conn.online, conn'.id = conn.id, OneLookup',
           lookups' = {} \/ conn.sock = "connected" \/ conn.id = 0
    PROVE  CalmSession'
<1>1. AllBoxes(<<Box(then)>> \o stack)
    BY BoxesPush, BoxFrames DEF CalmNow, SessionOK, Resting, Box
<1>2. AllBoxes(stack)'
    BY <1>1 DEF Push, AllBoxes
<1> QED
    BY <1>2 DEF CalmNow, CalmSession, Resting, OnlineIsConnected, AnswerFindsNobody

\* The world has no address.
LEMMA MissingIsCalm ==
    ASSUME CalmNow, NEW l \in lookups, AddressMissing(l)
    PROVE  CalmSession'
<1>1. Resting /\ lookups = {l}
    BY DEF CalmNow, CalmSession, OneLookup, Connecting
<1>2. lookups' = {} /\ OneLookup'
    BY <1>1 DEF AddressMissing, OneLookup
<1> QED
    BY <1>1, <1>2, BoxIsCalm DEF AddressMissing, session

\* The wait of the connection is over.
LEMMA ConnectedIsCalm ==
    ASSUME CalmNow, ConnectReturns
    PROVE  CalmSession'
<1>1. stack # <<>> /\ Top.kind = "connect" /\ conn.id # 0
    BY WaitsForOne, Waits DEF CalmNow, ConnectReturns, SessionOK
<1>2. Connecting
    BY <1>1, TopAtRest DEF CalmNow, CalmSession, SessionOK
<1>3. Len(stack) = 1
    BY <1>1, <1>2, TopConnecting DEF CalmNow, SessionOK, Box
<1>4. Tail(stack) = <<>> /\ lookups = {}
    BY <1>2, <1>3, WaitPop DEF CalmNow, SessionOK, Connecting
<1>5. stack' = <<>> /\ lookups' = {}
    BY <1>4 DEF ConnectReturns, ConnectThrows, CalmNow
<1>6. AllBoxes(stack)' /\ OneLookup'
    BY <1>5 DEF AllBoxes, OneLookup
<1>7. CASE ConnectThrows(Tail(stack))
    BY <1>1, <1>6, <1>7, ClosedIsCalm DEF ConnectThrows, QuietShutdown, Disconnect
<1>8. CASE conn.sock = "connected" /\ conn' = [conn EXCEPT !.blocking = FALSE]
    <2>1. conn'.sock = "connected"
        BY <1>8 DEF CalmNow, SessionOK, Conns
    <2> QED
        BY <1>5, <1>6, <2>1 DEF CalmSession, Resting, OnlineIsConnected, AnswerFindsNobody
<1> QED
    BY <1>7, <1>8 DEF ConnectReturns, CalmNow

\* The user closes a box.
LEMMA BoxClosedIsCalm ==
    ASSUME CalmNow, BoxCloses
    PROVE  CalmSession'
<1>1. stack \in Seq(Frames) /\ stack # <<>> /\ Top.kind = "box" /\ stack' = Tail(stack)
    <2>1. stack \in Seq(Frames)
        BY DEF CalmNow, SessionOK
    <2>2. ASSUME stack = <<>> PROVE FALSE
        <3>1. Top = [kind |-> "main"]
            BY <2>2 DEF Top
        <3> QED
            BY <3>1 DEF BoxCloses
    <2> QED
        BY <2>1, <2>2 DEF BoxCloses
<1>2. OneLookup'
    BY DEF BoxCloses, CalmNow, CalmSession, OneLookup
<1>3. CASE Resting
    <2>1. AllBoxes(stack)'
        <3>1. AllBoxes(Tail(stack))
            BY <1>1, <1>3, BoxesPop DEF Resting
        <3> QED
            BY <1>1, <3>1 DEF AllBoxes
    <2>2. CASE conn' = NoConn
        BY <1>2, <2>1, <2>2, ClosedIsCalm
    <2>3. CASE UNCHANGED session
        BY <1>1, <1>2, <1>3, <2>1, <2>3
        DEF session, BoxCloses, CalmNow, CalmSession, Resting, OnlineIsConnected,
            AnswerFindsNobody
    <2> QED
        BY <2>2, <2>3 DEF BoxCloses, QuietShutdown, Disconnect
<1>4. CASE Connecting
    <2>1. Len(stack) > 1 /\ Top = Box("nothing")
        BY <1>1, <1>4, TopConnecting DEF WaitOf
    <2>2. OneWait(Tail(stack), conn.id) /\ Len(Tail(stack)) = Len(stack) - 1
        BY <1>1, <1>4, <2>1, WaitPop DEF Connecting
    <2>3. UNCHANGED session
        BY <2>1 DEF BoxCloses, Box
    <2>4. Connecting'
        <3>1. OneWait(stack', conn'.id)
            BY <1>1, <2>2, <2>3 DEF session
        <3> QED
            BY <1>1, <1>4, <2>1, <2>2, <2>3, <3>1 DEF Connecting, BoxCloses, session
    <2> QED
        BY <1>2, <1>4, <2>3, <2>4
        DEF session, BoxCloses, CalmNow, CalmSession, OnlineIsConnected, AnswerFindsNobody,
            Connecting
<1> QED
    BY <1>3, <1>4 DEF CalmNow, CalmSession

\* The network accepts the connection, or refuses it.
LEMMA AnsweredIsCalm ==
    ASSUME CalmNow, NEW error \in BOOLEAN, OnConnect(error)
    PROVE  CalmSession'
<1>1. Connecting
    BY DEF OnConnect, CalmNow, CalmSession, Resting
<1>2. stack \in Seq(Frames) /\ Len(stack) = 1
    BY <1>1, TopConnecting DEF CalmNow, SessionOK, OnConnect, Connecting
<1>3. lookups' = {} /\ ~waiting' /\ ~dialog' /\ OneLookup'
    BY <1>1 DEF OnConnect, Connecting, OneLookup
<1>4. OneWait(stack, conn.id)
    BY <1>1 DEF Connecting
<1>5. CASE Refuses(error)
    <2>1. conn' = [conn EXCEPT !.sock = "disconnected", !.blocking = FALSE]
        BY <1>5 DEF OnConnect
    <2>2. conn'.sock = "disconnected" /\ ~conn'.blocking /\ conn'.id = conn.id /\ conn'.online = conn.online
        BY <2>1 DEF CalmNow, SessionOK, Conns
    <2>3. ~conn'.online
        BY <2>2 DEF CalmNow, CalmSession, OnlineIsConnected, OnConnect
    <2>4. OneWait(stack', conn.id) /\ Len(stack') >= 1
        <3>1. CASE stack' = stack
            BY <1>2, <1>4, <3>1
        <3>2. CASE Push(Box("nothing"))
            BY <1>2, <1>4, <3>2, WaitPush DEF Push
        <3> QED
            BY <1>5, <3>1, <3>2 DEF OnConnect
    <2>5. Connecting'
        BY <1>3, <2>2, <2>4 DEF Connecting
    <2> QED
        BY <1>3, <2>3, <2>5 DEF CalmSession, OnlineIsConnected, AnswerFindsNobody
<1>6. CASE ~Refuses(error)
    <2>1. conn' = [conn EXCEPT !.sock = "connected", !.blocking = FALSE, !.online = TRUE] /\ stack' = stack
        BY <1>6 DEF OnConnect
    <2>2. conn'.sock = "connected" /\ ~conn'.blocking /\ conn'.id = conn.id
        BY <2>1 DEF CalmNow, SessionOK, Conns
    <2>3. OneWait(stack', conn'.id) /\ Len(stack') = 1
        BY <1>2, <1>4, <2>1, <2>2
    <2>4. Connecting'
        BY <1>3, <2>2, <2>3 DEF Connecting
    <2> QED
        BY <1>3, <2>2, <2>4 DEF CalmSession, OnlineIsConnected, AnswerFindsNobody
<1> QED
    BY <1>5, <1>6

\* The network or the user closes the world.
LEMMA ShutIsCalm ==
    ASSUME CalmNow, Resting, lookups' = lookups, dialog' = dialog,
           NEW c, c.sock = conn.sock, c.online = conn.online, c.id = conn.id, ShutdownWorld(c),
           lookups = {} \/ conn.sock = "connected"
    PROVE  CalmSession'
<1>1. OneLookup'
    BY DEF CalmNow, CalmSession, OneLookup
<1>2. CASE conn.id # 0 /\ Push(Box("disconnect")) /\ conn' = c
    BY <1>1, <1>2, BoxIsCalm
<1>3. CASE QuietShutdown /\ UNCHANGED stack
    <2>1. AllBoxes(stack)'
        BY <1>3 DEF Resting, AllBoxes
    <2>2. CASE conn' = NoConn
        BY <1>1, <2>1, <2>2, ClosedIsCalm
    <2>3. CASE UNCHANGED session
        BY <1>1, <1>3, <2>1, <2>3
        DEF session, CalmNow, CalmSession, Resting, OnlineIsConnected, AnswerFindsNobody
    <2> QED
        BY <1>3, <2>2, <2>3 DEF QuietShutdown, Disconnect
<1> QED
    BY <1>2, <1>3 DEF ShutdownWorld

\* The network closes the connection.
LEMMA CloseIsCalm ==
    ASSUME CalmNow, OnClose
    PROVE  CalmSession'
<1>1. conn.sock = "connected" /\ stack \in Seq(Frames)
    BY DEF OnClose, CalmNow, CalmSession, Resting, Connecting, SessionOK
<1>2. Resting
    <2> SUFFICES ASSUME Connecting PROVE FALSE
        BY DEF CalmNow, CalmSession
    <2>1. Len(stack) = 1 /\ Top = WaitOf(conn.id)
        BY <1>1, TopConnecting DEF Connecting
    <2> QED
        BY <1>1, <2>1 DEF OnClose, Dispatching, MustReturn, Dangling, WaitOf, Connecting
<1> DEFINE c == [conn EXCEPT !.closed = TRUE]
<1>3. c.sock = conn.sock /\ c.online = conn.online /\ c.id = conn.id
    BY DEF CalmNow, SessionOK, Conns
<1>4. ShutdownWorld(c) /\ lookups' = lookups /\ dialog' = dialog
    BY DEF OnClose
<1> HIDE DEF c
<1> QED
    BY <1>1, <1>2, <1>3, <1>4, ShutIsCalm

\* The user does.
LEMMA DisconnectIsCalm ==
    ASSUME CalmNow, UserDisconnects
    PROVE  CalmSession'
<1>1. Resting /\ lookups = {}
    BY UserFindsNobody DEF CalmNow, SessionOK, UserDisconnects
<1> QED
    BY <1>1, ShutIsCalm DEF UserDisconnects

\* The user cancels the connecting dialog.
LEMMA CancelIsCalm ==
    ASSUME CalmNow, CancelConnect
    PROVE  CalmSession'
<1>1. lookups' = {} /\ stack' = stack /\ ~waiting' /\ ~dialog' /\ conn.id # 0 /\ OneLookup'
    BY DEF CancelConnect, CancelBlocking, OneLookup, CalmNow, SessionOK, NoWorldNoConn
<1>2. CASE CancelShuts
    <2>1. AllBoxes(stack)'
        BY <1>1, <1>2 DEF CancelShuts, CalmNow, CalmSession, Connecting, Resting, AllBoxes
    <2> QED
        BY <1>1, <1>2, <2>1, ClosedIsCalm DEF CancelConnect, QuietShutdown, Disconnect
<1>3. CASE ~CancelShuts
    <2>1. conn' = [conn EXCEPT !.canceled = TRUE, !.blocking = FALSE]
        BY <1>3 DEF CancelConnect
    <2>2. conn'.sock = conn.sock /\ conn'.online = conn.online /\ conn'.id = conn.id /\ ~conn'.blocking
        BY <2>1 DEF CalmNow, SessionOK, Conns
    <2>3. CASE Resting
        BY <1>1, <2>2, <2>3
        DEF CalmNow, CalmSession, Resting, AllBoxes, OnlineIsConnected, AnswerFindsNobody
    <2>4. CASE Connecting
        <3>1. Connecting'
            BY <1>1, <2>2, <2>4 DEF Connecting
        <3> QED
            BY <1>1, <2>2, <3>1 DEF CalmNow, CalmSession, OnlineIsConnected, AnswerFindsNobody
    <2> QED
        BY <2>3, <2>4 DEF CalmNow, CalmSession
<1> QED
    BY <1>2, <1>3

\* A file arrives for a world that is online.
LEMMA LoadedIsCalm ==
    ASSUME CalmNow, NEW r \in requests, OnHTTPLoadComplete(r)
    PROVE  CalmSession'
<1>1. UNCHANGED <<conn, lookups, dialog, waiting>>
    BY DEF OnHTTPLoadComplete
<1>2. CASE stack' = stack
    BY <1>1, <1>2, QuietIsCalm DEF CalmNow, Quiet
<1>3. CASE conn.id # 0 /\ ~TooLate(r) /\ Push(Box("nothing"))
    <2>1. conn.online /\ conn.sock = "connected" /\ stack \in Seq(Frames)
        BY <1>3
        DEF CalmNow, IDsTellWorlds, Told, TooLate, CalmSession, OnlineIsConnected, SessionOK
    <2>2. Resting
        <3> SUFFICES ASSUME Connecting PROVE FALSE
            BY DEF CalmNow, CalmSession
        <3>1. Len(stack) = 1 /\ Top = WaitOf(conn.id)
            BY <2>1, TopConnecting DEF Connecting
        <3> QED
            BY <2>1, <3>1
            DEF OnHTTPLoadComplete, Dispatching, MustReturn, Dangling, WaitOf, Connecting
    <2>3. OneLookup'
        BY <1>1 DEF CalmNow, CalmSession, OneLookup
    <2> QED
        BY <1>1, <1>3, <2>1, <2>2, <2>3, BoxIsCalm
<1> QED
    BY <1>2, <1>3 DEF OnHTTPLoadComplete

\* Every step of a session without a proxy and without scripts.
LEMMA CalmKept ==
    ASSUME CalmNow, [Next]_vars
    PROVE  CalmSession'
<1>1. ASSUME Quiet PROVE CalmSession'
    BY <1>1, QuietIsCalm DEF CalmNow
<1>2. stack \in Seq(Frames) /\ NoWorldNoConn
    BY DEF CalmNow, SessionOK
<1>3. Resting => Top.kind \in {"main", "box"}
    BY <1>2, TopAtRest
<1>4. Connecting => Top = WaitOf(conn.id) \/ Top = Box("nothing")
    BY <1>2, TopConnecting
<1>5. Top.kind \in {"main", "box"} \/ Top = WaitOf(conn.id)
    BY <1>3, <1>4 DEF CalmNow, CalmSession, Box
<1>6. ASSUME NEW answer \in Answers, OpenWorld(answer) PROVE CalmSession'
    BY <1>2, <1>6, OpenIsCalm DEF CalmNow
<1>7. ASSUME NEW l \in lookups, NEW answer \in {"ok", "failed"}, LookupAnswered(l, answer)
      PROVE  CalmSession'
    BY <1>1, <1>7 DEF LookupAnswered, session, Quiet, Answers
<1>8. ASSUME NEW l \in lookups, NotifyProxy(l) PROVE CalmSession'
    BY <1>8 DEF NotifyProxy, CalmNow, CalmSession, OneLookup
<1>9. ASSUME NEW l \in lookups, AddressUnwanted(l) PROVE CalmSession'
    BY <1>1, <1>9 DEF AddressUnwanted, Crash, Quiet, session
<1>10. ASSUME ProxyLookupReturns \/ ProxyReturns \/ DanglingReturns PROVE CalmSession'
    BY <1>5, <1>10 DEF ProxyLookupReturns, ProxyReturns, DanglingReturns, WaitOf, Dangling
<1>11. ASSUME NEW granted \in BOOLEAN, OnProxyReply(granted) PROVE CalmSession'
    BY <1>11 DEF OnProxyReply, CalmNow, CalmSession, Resting, Connecting
<1>12. ASSUME CancelNothing PROVE CalmSession'
    BY <1>1, <1>12 DEF CancelNothing, Crash, Quiet, session
<1>13. ASSUME NEW kind \in {"file", "script"}, OnReceive(kind) PROVE CalmSession'
    BY <1>1, <1>13 DEF OnReceive, Quiet, session
<1>14. ASSUME NEW r \in requests, Delivered(r) \/ Posted(r) PROVE CalmSession'
    BY <1>1, <1>14 DEF Delivered, Posted, Quiet, session
<1>15. ASSUME NEW r \in requests, OnExecuteScript(r) PROVE CalmSession'
    BY <1>15 DEF OnExecuteScript, CalmNow, IDsTellWorlds, Told
<1>16. ASSUME UNCHANGED vars PROVE CalmSession'
    BY <1>1, <1>16 DEF vars, Quiet
<1> QED
    BY <1>6, <1>7, <1>8, <1>9, <1>10, <1>11, <1>12, <1>13, <1>14, <1>15, <1>16, FoundIsCalm,
       MissingIsCalm, ConnectedIsCalm, BoxClosedIsCalm, AnsweredIsCalm, CloseIsCalm,
       DisconnectIsCalm, CancelIsCalm, LoadedIsCalm
    DEF Next, LookupStep, WaitReturns, RequestStep

-----------------------------------------------------------------------------
(* Without links. *)

\* While a lookup is listed and there are no links, no handler waits and the world is there.
LEMMA ListedKept ==
    ASSUME CalmNow, features = {}, ListedSession, [Next]_vars
    PROVE  ListedSession'
<1> DEFINE SameLookups == UNCHANGED <<waiting, lookups>>
<1>1. lookups # {} => /\ Resting /\ stack = <<>> /\ waiting /\ info # 0
                      /\ conn.id # 0 /\ conn.sock = "unknown"
    BY DEF CalmNow, CalmSession, Connecting, AnswerFindsNobody, ListedSession, SessionOK,
       NoWorldNoConn
<1>2. ASSUME lookups = {}, SameLookups PROVE ListedSession'
    BY <1>2 DEF ListedSession
<1>3. ASSUME SameLookups, UNCHANGED <<info, conn>> PROVE ListedSession'
    BY <1>3 DEF ListedSession
<1>4. ASSUME lookups' = {}, ~waiting' PROVE ListedSession'
    BY <1>4 DEF ListedSession
<1>5. Top.kind # "main" => lookups = {}
    BY <1>1, TopAtRest DEF CalmNow, SessionOK
<1>6. ASSUME NEW answer \in Answers, OpenWorld(answer) PROVE ListedSession'
    <2>1. lookups = {} /\ conn.id = 0
        BY <1>6, UserFindsNobody DEF CalmNow, SessionOK, OpenWorld
    <2>2. lookups' = {[for |-> opened', kind |-> "world", answer |-> answer]} /\ waiting' /\ info' = opened'
        BY <1>6, <2>1 DEF OpenWorld
    <2>3. conn' = [NoConn EXCEPT !.id = opened'] /\ opened' \in 1 .. MaxWorlds
        BY <1>6, <2>1, WorldBounds DEF OpenWorld, CalmNow, SessionOK
    <2>4. conn'.id # 0 /\ conn'.sock = "unknown"
        BY <2>3 DEF NoConn
    <2> QED
        BY <2>2, <2>4 DEF ListedSession
<1>7. ASSUME NEW l \in lookups, NEW answer \in {"ok", "failed"}, LookupAnswered(l, answer)
      PROVE  ListedSession'
    <2>1. lookups = {l} /\ lookups \subseteq Lookups
        BY DEF CalmNow, CalmSession, OneLookup
    <2>2. lookups' = {[l EXCEPT !.answer = answer]} /\ [l EXCEPT !.answer = answer].for = l.for
        BY <1>7, <2>1 DEF LookupAnswered, Lookups
    <2>3. UNCHANGED <<waiting, info, conn>>
        BY <1>7 DEF LookupAnswered, session
    <2> QED
        BY <2>1, <2>2, <2>3 DEF ListedSession
<1>8. ASSUME NEW l \in lookups, NotifyProxy(l) PROVE ListedSession'
    BY <1>8 DEF NotifyProxy, CalmNow, CalmSession, OneLookup
<1>9. ASSUME NEW l \in lookups, AddressFound(l) PROVE ListedSession'
    <2>1. lookups = {l}
        BY DEF CalmNow, CalmSession, OneLookup
    <2> QED
        BY <1>4, <1>9, <2>1 DEF AddressFound, SOCKSconnect
<1>10. ASSUME NEW l \in lookups, AddressMissing(l) PROVE ListedSession'
    <2>1. lookups = {l}
        BY DEF CalmNow, CalmSession, OneLookup
    <2> QED
        BY <1>4, <1>10, <2>1 DEF AddressMissing
<1>11. ASSUME NEW l \in lookups, AddressUnwanted(l) PROVE ListedSession'
    BY <1>3, <1>11 DEF AddressUnwanted, Crash, session
<1>12. ASSUME WaitReturns PROVE ListedSession'
    <2>1. Top.kind # "main" /\ SameLookups
        BY <1>12
        DEF WaitReturns, ProxyLookupReturns, ConnectReturns, ProxyReturns, DanglingReturns,
            BoxCloses
    <2> QED
        BY <1>2, <1>5, <2>1
<1>13. ASSUME NEW error \in BOOLEAN, OnConnect(error) PROVE ListedSession'
    BY <1>1, <1>2, <1>13 DEF OnConnect
<1>14. ASSUME NEW granted \in BOOLEAN, OnProxyReply(granted) PROVE ListedSession'
    BY <1>1, <1>2, <1>14 DEF OnProxyReply
<1>15. ASSUME OnClose PROVE ListedSession'
    BY <1>1, <1>2, <1>15 DEF OnClose
<1>16. ASSUME UserDisconnects PROVE ListedSession'
    <2>1. lookups = {}
        BY <1>16, UserFindsNobody DEF CalmNow, SessionOK, UserDisconnects
    <2> QED
        BY <1>2, <1>16, <2>1 DEF UserDisconnects
<1>17. ASSUME CancelConnect PROVE ListedSession'
    BY <1>4, <1>17 DEF CancelConnect, CancelBlocking
<1>18. ASSUME CancelNothing PROVE ListedSession'
    BY <1>3, <1>18 DEF CancelNothing, Crash, session
<1>19. ASSUME NEW kind \in {"file", "script"}, OnReceive(kind) PROVE ListedSession'
    BY <1>3, <1>19 DEF OnReceive, session
<1>20. ASSUME NEW r \in requests, Delivered(r) \/ Posted(r) \/ OnHTTPLoadComplete(r)
       PROVE  ListedSession'
    BY <1>3, <1>20 DEF Delivered, Posted, OnHTTPLoadComplete, session
<1>21. ASSUME NEW r \in requests, OnExecuteScript(r) PROVE ListedSession'
    BY <1>21 DEF OnExecuteScript, CalmNow, IDsTellWorlds, Told
<1>22. ASSUME UNCHANGED vars PROVE ListedSession'
    BY <1>3, <1>22 DEF vars
<1> QED
    BY <1>6, <1>7, <1>8, <1>9, <1>10, <1>11, <1>12, <1>13, <1>14, <1>15, <1>16, <1>17, <1>18,
       <1>19, <1>20, <1>21, <1>22
    DEF Next, LookupStep, RequestStep

-----------------------------------------------------------------------------
(* The theorems. *)

\* The whole invariant, for any number of worlds and documents.
THEOREM SessionInvariant == Spec => []SessionInv
<1>1. Init => SessionInv
    <2> SUFFICES ASSUME Init PROVE SessionInv
        OBVIOUS
    <2>1. lookups = {} /\ stack = <<>> /\ conn = NoConn /\ ~waiting
        BY DEF Init
    <2>2. CalmSession
        BY <2>1
        DEF CalmSession, Resting, AllBoxes, OnlineIsConnected, OneLookup, AnswerFindsNobody,
            NoConn
    <2>3. ListedSession
        BY <2>1 DEF ListedSession
    <2> QED
        BY <2>2, <2>3, Init_BaseInv DEF SessionInv, Calm, Listed
<1>2. SessionInv /\ [Next]_vars => SessionInv'
    <2> SUFFICES ASSUME SessionInv, [Next]_vars PROVE SessionInv'
        OBVIOUS
    <2>1. features' = features /\ BaseInv'
        BY FeaturesStay, Next_BaseInv DEF SessionInv
    <2>2. ASSUME features \subseteq {"link"} PROVE CalmNow
        BY <2>2 DEF SessionInv, BaseInv, TypeOK, Calm, CalmNow, SessionOK
    <2>3. Calm'
        BY <2>1, <2>2, CalmKept DEF Calm
    <2>4. Listed'
        BY <2>1, <2>2, ListedKept DEF Listed, SessionInv
    <2> QED
        BY <2>1, <2>3, <2>4 DEF SessionInv
<1> QED
    BY <1>1, <1>2, PTL DEF Spec

\* Handlers that run inside the wait of a connection leave the connection alone.
THEOREM ConnectionsOutliveWaits == Spec => []ConnectionOutlivesWait
<1>1. SessionInv => ConnectionOutlivesWait
    <2> SUFFICES ASSUME SessionInv, features \subseteq {"link"},
                        NEW i \in 1 .. Len(stack), stack[i].kind = "connect"
                 PROVE  stack[i].conn = conn.id
        BY DEF ConnectionOutlivesWait
    <2>1. stack \in Seq(Frames) /\ CalmSession
        BY DEF SessionInv, BaseInv, TypeOK, Calm
    <2>2. CASE Resting
        BY <2>2 DEF Resting, AllBoxes
    <2>3. CASE Connecting
        <3>1. CASE i = Len(stack)
            BY <2>3, <3>1 DEF Connecting, OneWait, WaitOf
        <3>2. CASE i # Len(stack)
            <4>1. i \in 1 .. Len(stack) - 1
                BY <2>1, <3>2
            <4> QED
                BY <2>3, <4>1 DEF Connecting, OneWait, Box
        <3> QED
            BY <3>1, <3>2
    <2> QED
        BY <2>1, <2>2, <2>3 DEF CalmSession
<1> QED
    BY <1>1, SessionInvariant, PTL

\* A lookup is listed exactly as long as its world is there and waits for it.
THEOREM WaitsAreListed == Spec => []WaitingIsListed
<1>1. SessionInv => WaitingIsListed
    <2> SUFFICES ASSUME SessionInv, features = {}
                 PROVE  /\ \A l \in lookups : l.kind = "world" => waiting /\ l.for = info /\ conn.id # 0
                        /\ waiting => \E l \in lookups : l.kind = "world"
        BY DEF WaitingIsListed
    <2>1. ListedSession /\ OneLookup
        BY DEF SessionInv, Calm, CalmSession, Listed
    <2> QED
        BY <2>1 DEF ListedSession, OneLookup
<1> QED
    BY <1>1, SessionInvariant, PTL
==============================================================================
