--------------------------- MODULE WorldSessionInv ---------------------------
(* The inductive invariant behind the safety properties of WorldSession.      *)
EXTENDS WorldSession

\* Without a world there is nothing left of a connection.
NoWorldNoConn ==
    /\ info = 0 <=> conn.id = 0
    /\ conn.id = 0 => conn = NoConn

\* The connect ID tells the worlds apart: a request that carries the current
\* one was made by the current world, while it was online.
Told(r) ==
    /\ r.id <= connectID
    /\ r.id = connectID => r.world = info /\ conn.online
    /\ r.kind = "script" => "script" \in features
IDsTellWorlds == \A r \in requests : Told(r)

\* The stack without a proxy is a stack of message boxes, or the wait of the connection
\* with nothing above it but boxes that tell of a failure.
AllBoxes(s) == \A i \in 1 .. Len(s) : s[i].kind = "box"
WaitOf(id) == [kind |-> "connect", conn |-> id]
OneWait(s, id) ==
    /\ Len(s) >= 1 /\ s[Len(s)] = WaitOf(id)
    /\ \A i \in 1 .. Len(s) - 1 : s[i] = Box("nothing")

\* Nobody waits for a connection.
Resting ==
    /\ AllBoxes(stack)
    /\ conn.sock \in {"unknown", "connected"}

\* The handler of the lookup waits for the connection, or is about to go on.
Connecting ==
    /\ OneWait(stack, conn.id)
    /\ lookups = {} /\ ~waiting
    /\ conn.sock \in {"waitConnect", "connected", "disconnected"}
    /\ Len(stack) = 1 /\ conn.blocking => dialog /\ conn.sock = "waitConnect"
    /\ Len(stack) > 1 => conn.sock = "disconnected" /\ ~conn.blocking /\ ~dialog

OnlineIsConnected == conn.online => conn.sock = "connected"

\* At most one lookup is under way, behind the dialog.
OneLookup == \A l \in lookups : l.kind = "world" /\ lookups = {l} /\ dialog

\* When the answer of a lookup can begin a connection, nobody waits.
AnswerFindsNobody ==
    lookups # {} /\ conn.id # 0 /\ conn.sock # "connected" => stack = <<>>

\* What holds as long as there is no proxy and no script.
CalmSession == (Resting \/ Connecting) /\ OnlineIsConnected /\ OneLookup /\ AnswerFindsNobody
Calm == features \subseteq {"link"} => CalmSession

\* And without links the world of a lookup is the current one.
ListedSession ==
    /\ waiting <=> lookups # {}
    /\ \A l \in lookups : l.for = info /\ conn.id # 0 /\ conn.sock = "unknown"
Listed == features = {} => ListedSession

BaseInv == TypeOK /\ NoWorldNoConn /\ IDsTellWorlds

SessionInv == BaseInv /\ Calm /\ Listed
=============================================================================
