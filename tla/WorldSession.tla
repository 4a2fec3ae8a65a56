---------------------------- MODULE WorldSession ----------------------------
(* The connection to a world: the host lookup, the connecting dialog, the     *)
(* socket and its proxy, and the requests a world makes. Everything runs on   *)
(* the main thread, but a wait inside a handler dispatches messages, so that  *)
(* handlers nest: `stack` holds the handlers that wait, the innermost first.  *)
EXTENDS Integers, Sequences, FiniteSets

CONSTANTS
    MaxWorlds,      \* bound on the worlds the user opens
    MaxRequests     \* bound on the documents the worlds ask for

ASSUME WorldBounds == MaxWorlds \in Nat \ {0} /\ MaxRequests \in Nat

VARIABLES
    features,       \* what may happen: "proxy", "script" (of a world), "link" (to a world)
    opened,         \* number of worlds opened so far; worlds are numbered in this order
    connectID,      \* m_iConnectID
    info,           \* m_pWorldInfo: the number of the world, or 0
    conn,           \* *m_pWorldConn, NoConn for a null pointer
    dialog,         \* m_pConnectingDlg exists, and the frame window is disabled
    waiting,        \* m_boolWaitingForHostName
    lookups,        \* sockasyncinfo::m_reqList
    blocking,       \* sockasyncinfo::m_boolBlocking
    proxyInfo,      \* the sockasyncinfo of the proxy's lookup
    proxyKnown,     \* m_boolSocksAddrInited
    stack,          \* handlers that wait for messages, the innermost first
    enhanced,       \* m_boolPuebloEnhancedFound
    requests,       \* documents asked for by worlds
    asked,          \* number of documents asked for so far
    shown,          \* world whose file the text window shows, or 0
    crashed         \* a null pointer was used

vars == <<features, opened, connectID, info, conn, dialog, waiting, lookups, blocking,
          proxyInfo, proxyKnown, stack, enhanced, requests, asked, shown, crashed>>
session == <<connectID, info, conn, shown>>
documents == <<enhanced, requests, asked>>

Features == {"proxy", "script", "link"}
SocketStates == {"unknown", "waitConnect", "waitProxy", "connected", "disconnected"}
Answers == {"asked", "ok", "failed"}
Conns == [id : 0 .. MaxWorlds, sock : SocketStates, canceled : BOOLEAN, blocking : BOOLEAN,
          online : BOOLEAN, granted : BOOLEAN, closed : BOOLEAN]
Lookups == [for : 1 .. MaxWorlds, kind : {"world", "proxy"}, answer : Answers]
Frames == [kind : {"lookup", "connect", "proxy"}, conn : 1 .. MaxWorlds]
          \cup [kind : {"box"}, then : {"shutdown", "disconnect", "nothing"}]
Requests == [kind : {"file", "script"}, world : 1 .. MaxWorlds, id : Nat,
             no : 1 .. MaxRequests, step : {"asked", "checked", "posted"}]

NoConn == [id |-> 0, sock |-> "unknown", canceled |-> FALSE, blocking |-> FALSE,
           online |-> FALSE, granted |-> FALSE, closed |-> FALSE]

Init ==
    /\ features \in SUBSET Features
    /\ opened = 0 /\ connectID = 0 /\ info = 0 /\ shown = 0
    /\ conn = NoConn
    /\ lookups = {} /\ requests = {} /\ asked = 0 /\ stack = <<>>
    /\ proxyInfo = "none"
    /\ dialog = FALSE /\ waiting = FALSE /\ blocking = FALSE /\ enhanced = FALSE
    /\ proxyKnown = FALSE /\ crashed = FALSE

-----------------------------------------------------------------------------
(* Where the thread is. *)

Top == IF stack = <<>> THEN [kind |-> "main"] ELSE Head(stack)
Push(f) == stack' = <<f>> \o stack
Box(then) == [kind |-> "box", then |-> then]

\* The frame's connection was deleted under it.
Dangling(f) == f.conn # conn.id

\* The loop of a wait looks at its flag after each message. The flag of a deleted
\* connection may read as anything.
MustReturn(f) ==
    \/ f.kind = "lookup" /\ ~blocking
    \/ f.kind \in {"connect", "proxy"} /\ ~Dangling(f) /\ ~conn.blocking

Dispatching == ~crashed /\ ~MustReturn(Top)
UserActive == Dispatching /\ ~dialog /\ Top.kind # "box"

-----------------------------------------------------------------------------
(* Closing a world. *)

\* Faulty: the connect ID before this world comes back.
DisconnectFaulty ==
    /\ connectID' = connectID - 1
    /\ conn' = NoConn
    /\ info' = 0
    /\ shown' = 0

\* ChWorldMainInfo::Disconnect
Disconnect ==
    /\ connectID' = connectID + 1
    /\ conn' = NoConn
    /\ info' = 0
    /\ shown' = 0

\* ShutdownWorld( false )
QuietShutdown == IF conn.id # 0 THEN Disconnect ELSE UNCHANGED session

\* ShutdownWorld(): a message box may come before Disconnect. `connLeft` is the connection
\* until then.
ShutdownWorld(connLeft) ==
    \/ QuietShutdown /\ UNCHANGED stack
    \/ /\ conn.id # 0
       /\ Push(Box("disconnect"))
       /\ conn' = connLeft
       /\ UNCHANGED <<connectID, info, shown>>

\* A null pointer to the world's information is used.
Crash ==
    /\ crashed' = TRUE
    /\ UNCHANGED <<features, opened, session, dialog, waiting, lookups, blocking, proxyInfo,
                   proxyKnown, stack, documents>>

-----------------------------------------------------------------------------
(* Opening a world. *)

\* Faulty: opening a world over an open one keeps the connect ID.
OpenIDFaulty == IF conn.id = 0 THEN connectID + 1 ELSE connectID

\* The connect ID of the world that is being opened.
OpenID == connectID + 1

\* ChWorldMainInfo::Connect. A link to a world can be clicked while connected; the
\* connection object is used again then. The host may be an address, or its lookup fail
\* at once: the answer is posted all the same.
OpenWorld(answer) ==
    /\ UserActive
    /\ opened < MaxWorlds
    /\ conn.id = 0 \/ "link" \in features
    /\ opened' = opened + 1
    /\ enhanced' = FALSE
    /\ connectID' = OpenID
    /\ info' = opened'
    /\ conn' = IF conn.id = 0 THEN [NoConn EXCEPT !.id = opened'] ELSE conn
    /\ dialog' = TRUE
    /\ waiting' = TRUE
    /\ lookups' = lookups \cup {[for |-> opened', kind |-> "world", answer |-> answer]}
    /\ UNCHANGED <<features, blocking, proxyInfo, proxyKnown, stack, requests, asked, shown, crashed>>

\* Faulty: the exception of a failed Connect is caught and nothing done.
ConnectThrowsFaulty(rest) == stack' = rest /\ UNCHANGED session

\* The exception of a failed Connect is caught by OnAsyncSocketAddress.
ConnectThrows(rest) == QuietShutdown /\ stack' = rest

\* ChChacoSocket::Connect up to its wait. It may fail at once, and does so on a socket
\* that is connected.
BeginConnect(rest) ==
    \/ /\ conn.sock # "connected"
       /\ conn' = [conn EXCEPT !.sock = "waitConnect", !.blocking = TRUE]
       /\ stack' = <<[kind |-> "connect", conn |-> conn.id]>> \o rest
       /\ UNCHANGED <<connectID, info, shown>>
    \/ ConnectThrows(rest)

\* SOCKSconnect, with a lookup of the proxy by sockinetaddr::AsyncSetAddr unless its
\* address is known or is a number. `left` are the lookups that are still listed.
SOCKSconnect(left) ==
    \/ /\ "proxy" \in features /\ ~proxyKnown
       /\ lookups' = left \cup {[for |-> info, kind |-> "proxy", answer |-> "asked"]}
       /\ proxyInfo' = "asked"
       /\ blocking' = TRUE
       /\ Push([kind |-> "lookup", conn |-> conn.id])
       /\ UNCHANGED <<session, proxyKnown>>
    \/ /\ BeginConnect(stack)
       /\ lookups' = left /\ blocking' = FALSE
       /\ proxyKnown' = IF "proxy" \in features THEN TRUE ELSE proxyKnown
       /\ UNCHANGED proxyInfo

\* SocketsXXWSAproc, CH_MSG_WSA_PACKET_RECEIVED: the answer is kept in the sockasyncinfo
\* and a notification is posted.
LookupAnswered(l, answer) ==
    /\ Dispatching
    /\ l.answer = "asked"
    /\ lookups' = (lookups \ {l}) \cup {[l EXCEPT !.answer = answer]}
    /\ proxyInfo' = IF l.kind = "proxy" /\ proxyInfo = "asked" THEN answer ELSE proxyInfo
    /\ UNCHANGED <<features, opened, session, dialog, waiting, blocking, proxyKnown, stack,
                   documents, crashed>>

\* CH_MSG_WSA_NOTIFY_EVENT for the lookup of a proxy, which has no handler: its wait ends.
NotifyProxy(l) ==
    /\ Dispatching
    /\ l.kind = "proxy" /\ l.answer # "asked"
    /\ lookups' = lookups \ {l}
    /\ blocking' = FALSE
    /\ UNCHANGED <<features, opened, session, dialog, waiting, proxyInfo, proxyKnown, stack,
                   documents, crashed>>

\* CH_MSG_WSA_NOTIFY_EVENT for the lookup of a world, and OnAsyncSocketAddress.
AddressFound(l) ==
    /\ Dispatching
    /\ l.kind = "world" /\ l.answer = "ok" /\ info # 0
    /\ waiting' = FALSE
    /\ SOCKSconnect(lookups \ {l})
    /\ UNCHANGED <<features, opened, dialog, documents, crashed>>

AddressMissing(l) ==
    /\ Dispatching
    /\ l.kind = "world" /\ l.answer = "failed" /\ info # 0
    /\ waiting' = FALSE
    /\ lookups' = lookups \ {l}
    /\ blocking' = FALSE
    /\ dialog' = FALSE
    /\ Push(Box("shutdown"))
    /\ UNCHANGED <<features, opened, session, proxyInfo, proxyKnown, documents, crashed>>

\* The answer finds no world.
AddressUnwanted(l) ==
    /\ Dispatching
    /\ l.kind = "world" /\ l.answer # "asked" /\ info = 0
    /\ Crash

\* AsyncSetAddr after its wait, which ends with any notification, a cancellation or after
\* a minute: only a sockasyncinfo that holds the answer is a success. A cancellation has
\* deleted it, and what is read then may be anything.
ProxyLookupReturns ==
    /\ ~crashed /\ Top.kind = "lookup"
    /\ blocking' = FALSE
    /\ proxyInfo' = "none"
    /\ \/ /\ proxyInfo \in {"ok", "deleted"} /\ ~Dangling(Top)
          /\ proxyKnown' = TRUE
          /\ BeginConnect(Tail(stack))
       \/ /\ proxyInfo # "ok" \/ Dangling(Top)
          /\ ConnectThrows(Tail(stack))
          /\ UNCHANGED proxyKnown
    /\ UNCHANGED <<features, opened, dialog, waiting, lookups, documents, crashed>>

\* Connect after its wait, which lasts a minute at most.
ConnectReturns ==
    /\ ~crashed /\ Top.kind = "connect" /\ ~Dangling(Top)
    /\ IF conn.sock = "connected" /\ ~conn.canceled
       THEN \/ /\ "proxy" \notin features
               /\ conn' = [conn EXCEPT !.blocking = FALSE]
               /\ stack' = Tail(stack)
               /\ UNCHANGED <<connectID, info, shown>>
            \/ /\ "proxy" \in features        \* EstablishSOCKSconnect up to its wait
               /\ conn' = [conn EXCEPT !.sock = "waitProxy", !.blocking = TRUE]
               /\ stack' = <<[kind |-> "proxy", conn |-> conn.id]>> \o Tail(stack)
               /\ UNCHANGED <<connectID, info, shown>>
       ELSE ConnectThrows(Tail(stack))
    /\ UNCHANGED <<features, opened, dialog, waiting, lookups, blocking, proxyInfo, proxyKnown,
                   documents, crashed>>

\* EstablishSOCKSconnect after its wait.
ProxyReturns ==
    /\ ~crashed /\ Top.kind = "proxy" /\ ~Dangling(Top)
    /\ IF conn.granted
       THEN /\ conn' = [conn EXCEPT !.sock = "connected", !.blocking = FALSE]
            /\ stack' = Tail(stack)
            /\ UNCHANGED <<connectID, info, shown>>
       ELSE ConnectThrows(Tail(stack))
    /\ UNCHANGED <<features, opened, dialog, waiting, lookups, blocking, proxyInfo, proxyKnown,
                   documents, crashed>>

\* A wait whose connection was deleted: it may end in success or with the exception,
\* which shuts down whatever world there is by then.
DanglingReturns ==
    /\ ~crashed /\ Top.kind \in {"connect", "proxy"} /\ Dangling(Top)
    /\ stack' = Tail(stack)
    /\ QuietShutdown \/ UNCHANGED session
    /\ UNCHANGED <<features, opened, dialog, waiting, lookups, blocking, proxyInfo, proxyKnown,
                   documents, crashed>>

-----------------------------------------------------------------------------
(* What happens to a connection. *)

\* Faulty: a cancelled connection does not refuse the answer of the network.
RefusesFaulty(error) == error

\* ProcessBlocking takes the answer for a failure.
Refuses(error) == error \/ conn.canceled

\* ChAsyncChacoSocket::OnConnect, ProcessBlocking and OnConnectComplete.
OnConnect(error) ==
    /\ Dispatching
    /\ conn.sock = "waitConnect"
    /\ dialog' = FALSE
    /\ IF Refuses(error)
       THEN /\ conn' = [conn EXCEPT !.sock = "disconnected", !.blocking = FALSE]
            /\ IF error THEN Push(Box("nothing")) ELSE UNCHANGED stack
            /\ UNCHANGED shown
       ELSE /\ conn' = [conn EXCEPT !.sock = "connected", !.blocking = FALSE, !.online = TRUE]
            /\ shown' = 0
            /\ UNCHANGED stack
    /\ UNCHANGED <<features, opened, connectID, info, waiting, lookups, blocking, proxyInfo,
                   proxyKnown, documents, crashed>>

\* ChAsyncChacoSocket::OnReceive while the proxy's answer is due. It stops the wait of
\* the lookups, and the wait for the proxy goes on until its minute is over.
OnProxyReply(granted) ==
    /\ Dispatching
    /\ conn.sock = "waitProxy" /\ ~conn.closed
    /\ conn' = [conn EXCEPT !.sock = "connected", !.granted = granted]
    /\ blocking' = FALSE
    /\ UNCHANGED <<features, opened, connectID, info, shown, dialog, waiting, lookups, proxyInfo,
                   proxyKnown, stack, documents, crashed>>

\* ChAsyncChacoSocket::OnClose and the socket handler's shutdown.
OnClose ==
    /\ Dispatching
    /\ conn.sock \in {"connected", "waitProxy"} /\ ~conn.closed
    /\ ShutdownWorld([conn EXCEPT !.closed = TRUE])
    /\ UNCHANGED <<features, opened, dialog, waiting, lookups, blocking, proxyInfo, proxyKnown,
                   documents, crashed>>

\* The user's disconnect command.
UserDisconnects ==
    /\ UserActive
    /\ conn.id # 0
    /\ ShutdownWorld(conn)
    /\ UNCHANGED <<features, opened, dialog, waiting, lookups, blocking, proxyInfo, proxyKnown,
                   documents, crashed>>

\* Faulty: the lookups are left in the list.
CancelBlockingFaulty ==
    /\ blocking' = FALSE
    /\ UNCHANGED <<lookups, proxyInfo>>

\* sockasyncinfo::CancelBlocking deletes every lookup, the one of a wait too.
CancelBlocking ==
    /\ lookups' = {}
    /\ blocking' = FALSE
    /\ proxyInfo' = IF \E l \in lookups : l.kind = "proxy" /\ proxyInfo # "none"
                    THEN "deleted" ELSE proxyInfo

\* Faulty: the world is shut down under the wait of its connection.
CancelShutsFaulty == TRUE

\* Only in the lookup phase; in the connect phase the wait's exception does it.
CancelShuts == waiting

\* ChConnectingDlg::OnCancel and OnConnectComplete( WSAEDISCON ).
CancelConnect ==
    /\ Dispatching /\ dialog /\ info # 0
    /\ dialog' = FALSE
    /\ waiting' = FALSE
    /\ CancelBlocking
    /\ IF CancelShuts
       THEN QuietShutdown
       ELSE /\ conn' = [conn EXCEPT !.canceled = TRUE, !.blocking = FALSE]
            /\ UNCHANGED <<connectID, info, shown>>
    /\ UNCHANGED <<features, opened, proxyKnown, stack, documents, crashed>>

\* The dialog is still there after its world has gone.
CancelNothing ==
    /\ Dispatching /\ dialog /\ info = 0
    /\ Crash

\* A message box is closed, and the handler that showed it goes on.
BoxCloses ==
    /\ ~crashed /\ Top.kind = "box"
    /\ stack' = Tail(stack)
    /\ \/ Top.then = "shutdown" /\ QuietShutdown
       \/ Top.then = "disconnect" /\ Disconnect
       \/ Top.then = "nothing" /\ UNCHANGED session
    /\ UNCHANGED <<features, opened, dialog, waiting, lookups, blocking, proxyInfo, proxyKnown,
                   documents, crashed>>

-----------------------------------------------------------------------------
(* Documents that worlds ask for. *)

\* "Too late to use the request"
TooLate(r) == r.id # connectID

\* Text of a world opens a file in a pane (DoPaneCommand), or announces an enhanced world,
\* which may answer the report of that (TrackUsage) with a script. The label is m_pInfo: after
\* a link was followed it names the new world while text of the old connection still comes.
OnReceive(kind) ==
    /\ Dispatching
    /\ conn.sock = "connected" /\ conn.online /\ ~conn.closed
    /\ kind = "script" => "script" \in features /\ ~enhanced
    /\ enhanced' = (enhanced \/ kind = "script")
    /\ asked < MaxRequests /\ asked' = asked + 1
    /\ requests' = requests \cup {[kind |-> kind, world |-> info, id |-> connectID,
                                   no |-> asked', step |-> "asked"]}
    /\ UNCHANGED <<features, opened, session, dialog, waiting, lookups, blocking, proxyInfo,
                   proxyKnown, stack, crashed>>

\* ChWorldStreamManager::DestroyStream, in the thread of the download: the test, and the
\* message to the text window.
Delivered(r) ==
    /\ ~crashed
    /\ r.step = "asked"
    /\ requests' = (requests \ {r}) \cup
                   (IF TooLate(r) THEN {} ELSE {[r EXCEPT !.step = "checked"]})
    /\ UNCHANGED <<enhanced, asked, features, opened, session, dialog, waiting, lookups, blocking, proxyInfo,
                   proxyKnown, stack, crashed>>

Posted(r) ==
    /\ ~crashed
    /\ r.step = "checked"
    /\ requests' = (requests \ {r}) \cup {[r EXCEPT !.step = "posted"]}
    /\ UNCHANGED <<enhanced, asked, features, opened, session, dialog, waiting, lookups, blocking, proxyInfo,
                   proxyKnown, stack, crashed>>

\* ChTextOutputWnd::OnHTTPLoadComplete tests again.
OnHTTPLoadComplete(r) ==
    /\ Dispatching
    /\ r.kind = "file" /\ r.step = "posted"
    /\ requests' = requests \ {r}
    /\ IF TooLate(r) \/ conn.id = 0
       THEN UNCHANGED <<shown, stack>>
       ELSE \/ shown' = r.world /\ UNCHANGED stack
            \/ Push(Box("nothing")) /\ UNCHANGED shown
    /\ UNCHANGED <<enhanced, asked, features, opened, connectID, info, conn, dialog, waiting, lookups, blocking,
                   proxyInfo, proxyKnown, crashed>>

\* ChTextOutputWnd::OnExecuteScript does not; the script disconnects the world.
OnExecuteScript(r) ==
    /\ Dispatching
    /\ r.kind = "script" /\ r.step = "posted"
    /\ requests' = requests \ {r}
    /\ \/ conn.id # 0 /\ Push(Box("shutdown")) /\ UNCHANGED session
       \/ QuietShutdown /\ UNCHANGED stack
    /\ UNCHANGED <<enhanced, asked, features, opened, dialog, waiting, lookups, blocking, proxyInfo, proxyKnown,
                   crashed>>

-----------------------------------------------------------------------------

LookupStep ==
    \E l \in lookups :
        \/ \E answer \in {"ok", "failed"} : LookupAnswered(l, answer)
        \/ NotifyProxy(l) \/ AddressFound(l) \/ AddressMissing(l) \/ AddressUnwanted(l)

WaitReturns == ProxyLookupReturns \/ ConnectReturns \/ ProxyReturns \/ DanglingReturns \/ BoxCloses

RequestStep ==
    \E r \in requests :
        Delivered(r) \/ Posted(r) \/ OnHTTPLoadComplete(r) \/ OnExecuteScript(r)

Next ==
    \/ \E answer \in Answers : OpenWorld(answer)
    \/ LookupStep
    \/ WaitReturns
    \/ \E error \in BOOLEAN : OnConnect(error)
    \/ \E granted \in BOOLEAN : OnProxyReply(granted)
    \/ OnClose
    \/ UserDisconnects
    \/ CancelConnect
    \/ CancelNothing
    \/ \E kind \in {"file", "script"} : OnReceive(kind)
    \/ RequestStep

Spec == Init /\ [][Next]_vars

\* Lookups are answered, a wait lasts a minute at most and the user closes message boxes.
FairSpec == Spec /\ WF_vars(LookupStep) /\ WF_vars(WaitReturns)

-----------------------------------------------------------------------------

TypeOK ==
    /\ features \subseteq Features
    /\ opened \in 0 .. MaxWorlds /\ info \in 0 .. opened /\ shown \in 0 .. opened
    /\ connectID \in Nat /\ asked \in 0 .. MaxRequests
    /\ conn \in Conns
    /\ dialog \in BOOLEAN /\ waiting \in BOOLEAN /\ blocking \in BOOLEAN
    /\ proxyKnown \in BOOLEAN /\ enhanced \in BOOLEAN /\ crashed \in BOOLEAN
    /\ lookups \subseteq Lookups
    /\ proxyInfo \in Answers \cup {"none", "deleted"}
    /\ stack \in Seq(Frames)
    /\ requests \subseteq Requests

\* The flag m_boolWaitingForHostName and the list of lookups tell the same story: as long
\* as a world's lookup is listed, its world is there and waits for it, and nobody waits
\* without one. Each of the features can disconnect a world in its lookup phase.
WaitingIsListed ==
    features = {} =>
        /\ \A l \in lookups : l.kind = "world" => waiting /\ l.for = info /\ conn.id # 0
        /\ waiting => \E l \in lookups : l.kind = "world"

\* Handlers that run inside the wait of a connection leave the connection alone, the
\* cancellation too. Scripts do not, and a proxy's wait goes on after the dialog has gone.
ConnectionOutlivesWait ==
    features \subseteq {"link"} =>
        \A i \in 1 .. Len(stack) : stack[i].kind = "connect" => stack[i].conn = conn.id

\* A connection the user has cancelled is never announced as a connected world, though
\* the network may accept it in the meantime.
CanceledStaysOffline == [][conn.canceled /\ conn'.online => conn.online]_vars

\* The text window shows the files of the world it is connected to, not those that an
\* earlier world asked for.
FileForItsWorld == [][shown' \notin {0, shown} => shown' = info]_vars

\* Whatever is nested in whatever, an attempt to connect comes to an end.
AttemptSettles == (info # 0 /\ ~conn.online) ~> (info = 0 \/ conn.online)

\* The connecting dialog is there for a world that is being connected. OnConnectComplete
\* says that Connect "will throw an exception on failure and we will shutdown the world
\* when we catch the exception".
DialogHasWorld == dialog => info # 0

=============================================================================
