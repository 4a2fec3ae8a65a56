---------------------------- MODULE WorldTerminal ----------------------------
(* A world, the client's connection to it and the user who types. The world   *)
(* writes into a byte stream that arrives in packets cut anywhere, and        *)
(* negotiates the echo by telnet; ProcessOutput (ChWConn.cpp) parses each     *)
(* packet; the user's line goes out from one of two input fields              *)
(* (ChTextInput.cpp).                                                         *)
EXTENDS WorldText, FiniteSets, Subsequences

CONSTANTS
    Units,          \* kinds of things the world writes
    MaxBytes,       \* bound on what a world writes
    MaxKeys,        \* bound on the keys the user presses
    MaxSessions     \* bound on the connections

ASSUME TerminalBounds ==
    /\ MaxBytes \in Nat /\ MaxKeys \in Nat /\ MaxSessions \in Nat \ {0}

VARIABLES
    world,      \* what is known of the world: "login", "autologin" (a user name), "lines" (unamePwLogin)
    session,    \* number of the connection, 0 before the first
    online,
    stream,     \* everything the world has written to this connection
    got,        \* how much of it has arrived
    conn,       \* *m_pWorldConn
    textSeen,   \* m_boolTextReceived
    heard,      \* how many of the client's answers the world has read
    echoing,    \* the world's side of the echo option
    keys,       \* keys pressed so far
    history,    \* lines in the history of the visible field
    ended,      \* m_strEndText of both fields: what was put aside to browse the history
    checked,    \* CheckForPasswordProtection has seen the text of the visible field
    displayed   \* lines of the user that the text window shows

vars == <<world, session, online, stream, got, conn, textSeen, heard, echoing, keys,
          history, ended, checked, displayed>>
worldSide == <<stream, heard, echoing>>

Worlds == {"login", "autologin", "lines"}
EchoSides == {"off", "offered", "on", "withdrawn"}

\* What the world writes, as characters.
Bytes ==
    [text |-> <<"text">>, newline |-> <<"CR", "LF">>, linefeed |-> <<"LF">>,
     bold |-> <<"ESC", "[", "1", "m">>, color |-> <<"ESC", "[", "0", "sep", "3", "1", "m">>,
     reset |-> <<"ESC", "[", "0", "m">>, prompt |-> <<"IAC", "GA">>,
     null |-> <<"CR", "NUL">>, broken |-> <<"ESC", "[", "CR", "LF">>,
     willEcho |-> <<"IAC", "WILL", "ECHO">>, wontEcho |-> <<"IAC", "WONT", "ECHO">>,
     willEOR |-> <<"IAC", "WILL", "EOR_OPT">>, doOther |-> <<"IAC", "DO", "OTHER">>]

ASSUME UnitsAssumption == Units \subseteq DOMAIN Bytes

NoField == [echo |-> "on", plain |-> "", password |-> "", child |-> "plain",
            loggedIn |-> FALSE]

Init ==
    /\ world \in Worlds
    /\ session = 0 /\ online = FALSE
    /\ stream = <<>> /\ got = 0 /\ heard = 0 /\ echoing = "off"
    /\ conn = NewConn(NoField)
    /\ textSeen = FALSE /\ keys = 0
    /\ history = {} /\ displayed = {}
    /\ ended = [plain |-> "", password |-> ""] /\ checked = TRUE

-----------------------------------------------------------------------------
(* The connection.                                                            *)

\* Faulty: the echo state of the last connection stays.
ConnectFieldFaulty(f) == [SetEcho([f EXCEPT !.loggedIn = FALSE], TRUE, FALSE)
                              EXCEPT !.plain = ""]

\* OnWorldConnect: echo on, the input shown (Show calls Reset) and cleared.
ConnectField(f) ==
    LET echoed == SetEchoState(f, "on", FALSE)
    IN [SetEcho([echoed EXCEPT !.loggedIn = FALSE], TRUE, FALSE) EXCEPT !.plain = ""]

Connect ==
    /\ ~online /\ session < MaxSessions
    /\ session' = session + 1 /\ online' = TRUE
    /\ stream' = <<>> /\ got' = 0 /\ heard' = 0 /\ echoing' = "off"
    /\ conn' = NewConn(ConnectField(conn.field))
    /\ textSeen' = FALSE /\ displayed' = {}
    /\ UNCHANGED <<world, keys, history, ended, checked>>

\* Faulty: the next connection goes on where this one stopped reading.
DisconnectFaulty ==
    /\ online /\ online' = FALSE
    /\ stream' = <<>> /\ heard' = 0 /\ echoing' = "off"
    /\ conn' = NewConn(conn.field) /\ textSeen' = FALSE
    /\ UNCHANGED <<world, session, got, keys, history, ended, checked, displayed>>

\* ShutdownWorld deletes the connection and hides the input.
Disconnect ==
    /\ online /\ online' = FALSE
    /\ stream' = <<>> /\ got' = 0 /\ heard' = 0 /\ echoing' = "off"
    /\ conn' = NewConn(conn.field) /\ textSeen' = FALSE
    /\ UNCHANGED <<world, session, keys, history, ended, checked, displayed>>

\* A packet: everything that has arrived is read and parsed. DoAutoLogin after
\* the first text of a world with a user name.
ProcessOutput(n) ==
    LET packet == SubSeq(stream, got + 1, got + n)
        login == ~textSeen /\ world = "autologin"
    IN /\ online /\ n > 0 /\ got + n <= Len(stream)
       /\ got' = got + n
       /\ \E parsed \in {ParseText(conn, packet)} :
              conn' = IF login THEN [parsed EXCEPT !.field.loggedIn = TRUE] ELSE parsed
       /\ textSeen' = TRUE
       /\ UNCHANGED <<world, session, online, stream, heard, echoing, keys, history, ended,
                      checked, displayed>>

-----------------------------------------------------------------------------
(* The world.                                                                 *)

\* The world offers to echo, or withdraws the offer, only when the last change
\* has been answered.
Write(unit) ==
    /\ online /\ unit \in Units
    /\ Len(stream) + Len(Bytes[unit]) <= MaxBytes
    /\ CASE unit = "willEcho" -> echoing = "off" /\ echoing' = "offered"
         [] unit = "wontEcho" -> echoing = "on" /\ echoing' = "withdrawn"
         [] OTHER -> UNCHANGED echoing
    /\ stream' = stream \o Bytes[unit]
    /\ UNCHANGED <<world, session, online, got, conn, textSeen, heard, keys, history,
                   ended, checked, displayed>>

ReadAnswer ==
    /\ online /\ heard < Len(conn.answers)
    /\ heard' = heard + 1
    /\ LET answer == conn.answers[heard + 1]
       IN echoing' = IF answer = <<"DO", "ECHO">> /\ echoing = "offered" THEN "on"
                     ELSE IF answer = <<"DONT", "ECHO">> THEN "off"
                     ELSE echoing
    /\ UNCHANGED <<world, session, online, stream, got, conn, textSeen, keys, history,
                   ended, checked, displayed>>

-----------------------------------------------------------------------------
(* The user.                                                                  *)

PressKey == online /\ keys < MaxKeys /\ keys' = keys + 1

\* A key changes the text, and the control notifies CheckForPasswordProtection.
\* While the world echoes the user types what is secret.
Type(text) ==
    /\ PressKey
    /\ text \in {""} \cup IF conn.field.echo = "telnet" THEN {"secret"} ELSE {"say", "login"}
    /\ LET f == [conn.field EXCEPT ![EditName(conn.field)] = text]
       IN conn' = [conn EXCEPT !.field = CheckForPasswordProtection(f, world # "lines")]
    /\ checked' = TRUE
    /\ UNCHANGED <<world, session, online, stream, got, textSeen, heard, echoing, history,
                   ended, displayed>>

\* SetWindowText: only the hidden control, of a single line, notifies
\* CheckForPasswordProtection.
SetWindowText(f, text) ==
    IF EditName(f) = "plain" THEN [f EXCEPT !.plain = text]
    ELSE CheckForPasswordProtection([f EXCEPT !.password = text], world # "lines")

\* A key that sets the whole text.
SetHistoryText(text) ==
    /\ conn' = [conn EXCEPT !.field = SetWindowText(@, text)]
    /\ checked' = (checked /\ (EditName(conn.field) = "password" \/ text = conn.field.plain))
    /\ UNCHANGED <<world, session, online, stream, got, textSeen, heard, echoing, history,
                   displayed>>

\* The lines that the keys and the menu offer: the hidden field keeps none.
Lines == IF EditName(conn.field) = "plain" THEN history ELSE {}

\* MoveInHistory(true): the text is put aside if the user begins to browse.
Up(begins) ==
    /\ PressKey
    /\ ended' = IF begins THEN [ended EXCEPT ![EditName(conn.field)] = EditText(conn.field)]
                ELSE ended
    /\ \/ \E line \in Lines : SetHistoryText(line)
       \/ UNCHANGED <<world, session, online, stream, got, conn, textSeen, heard, echoing,
                       history, checked, displayed>>

\* MoveInHistory(false): a line, or what was put aside.
Down ==
    /\ PressKey /\ UNCHANGED ended
    /\ \E line \in Lines \cup {ended[EditName(conn.field)]} : SetHistoryText(line)

\* Tab completes a line of the history; transpose changes a text in place. In the
\* hidden field there is nothing to complete, and transpose is like typing.
Rewrite ==
    /\ PressKey /\ UNCHANGED ended
    /\ EditName(conn.field) = "plain"
    /\ \E line \in history \cup IF conn.field.plain = "" THEN {} ELSE {"say", "login"} :
           SetHistoryText(line)

\* Faulty: only the world's echo makes a password.
RemembersFaulty(f) == EditText(f) # "" /\ f.echo # "telnet"

\* Blank lines and passwords stay out of the history.
Remembers(f) == EditText(f) # "" /\ EditName(f) = "plain"

\* OnSendKey: the line goes to the world and, when echoed, to the text window
\* (SendWorldCommand); a visible line goes into the history.
OnSendKey(clear) ==
    LET f == conn.field
        text == EditText(f)
        logged == IF f.echo = "auto" THEN [f EXCEPT !.loggedIn = TRUE] ELSE f
        erased == IF clear \/ EditName(f) = "password"
                  THEN [logged EXCEPT ![EditName(f)] = ""] ELSE logged
    IN /\ PressKey
       /\ displayed' = IF f.echo = "on" THEN displayed \cup {text} ELSE displayed
       /\ history' = IF Remembers(f) THEN history \cup {text} ELSE history
       /\ conn' = [conn EXCEPT !.field = IF erased.echo = "auto"
                                         THEN SetEchoState(erased, "on", FALSE) ELSE erased]
       /\ UNCHANGED <<world, session, online, stream, got, textSeen, heard, echoing, ended,
                      checked>>

\* OnCommand of the history menu: the line goes into the visible field and out,
\* also when the world took over the echo behind the open menu.
SendFromMenu(text, clear) ==
    /\ PressKey
    /\ text \in history \ {""} /\ conn.field.echo \in {"on", "telnet"}
    /\ displayed' = IF conn.field.echo = "on" THEN displayed \cup {text} ELSE displayed
    /\ conn' = [conn EXCEPT !.field.plain = IF clear THEN "" ELSE text]
    /\ checked' = FALSE
    /\ UNCHANGED <<world, session, online, stream, got, textSeen, heard, echoing, history,
                   ended>>

-----------------------------------------------------------------------------

Next ==
    \/ Connect \/ Disconnect \/ ReadAnswer
    \/ \E n \in 1 .. Len(stream) - got : ProcessOutput(n)
    \/ \E unit \in Units : Write(unit)
    \/ \E text \in Texts : Type(text)
    \/ \E begins \in BOOLEAN : Up(begins)
    \/ Down \/ Rewrite
    \/ \E clear \in BOOLEAN : OnSendKey(clear)
    \/ \E text \in Texts, clear \in BOOLEAN : SendFromMenu(text, clear)

\* Packets arrive, and the world reads what it is sent.
Fairness ==
    /\ WF_vars(ReadAnswer)
    /\ WF_vars(online /\ got < Len(stream) /\ ProcessOutput(Len(stream) - got))

Spec == Init /\ [][Next]_vars
FairSpec == Spec /\ Fairness

-----------------------------------------------------------------------------
(* Properties.                                                                *)

\* The type of the state.
TypeOK ==
    /\ world \in Worlds /\ session \in 0 .. MaxSessions /\ online \in BOOLEAN
    /\ stream \in Seq(Chars) /\ got \in 0 .. Len(stream) /\ Len(stream) <= MaxBytes
    /\ conn \in Conns /\ conn.part = <<>>
    /\ heard \in 0 .. Len(conn.answers) /\ echoing \in EchoSides
    /\ keys \in 0 .. MaxKeys /\ textSeen \in BOOLEAN
    /\ history \subseteq Texts /\ displayed \subseteq Texts
    /\ ended \in [plain : Texts, password : Texts] /\ checked \in BOOLEAN

Visible(out) == Without(out, {"newline"})

\* What has arrived, in one packet.
Whole == ParseText(NewConn(NoField), SubSeq(stream, 1, got))

\* However the stream is cut into packets, within escape sequences and telnet
\* commands too, the text, the tags and the answers are those of the uncut
\* stream (ParseText's m_parseState, m_strAnsiSequence, m_iTelnetCmd). Only a
\* newline cut between its two characters counts twice. And the lines the
\* actions see, with the beginning of the next, are the text of the window:
\* the end of a packet loses nothing and doubles nothing (AddToTextBlock).
PacketsDoNotMatter ==
    /\ Visible(conn.out) = Visible(Whole.out)
    /\ conn.answers = Whole.answers
    /\ conn.mode = Whole.mode /\ conn.ansi = Whole.ansi
    /\ FlattenSeq(conn.lines) \o conn.line = Visible(conn.out)

\* "Process buffer on end-of-line" (ChWConn.cpp:1418): a newline ends a line,
\* wherever the packets end.
LinesAsWritten == conn.lines = Whole.lines

Count(out, item) == Cardinality({i \in DOMAIN out : out[i] = item})

\* Whatever codes come, each tag of the ANSI state that was opened has been
\* closed unless its attribute is on (ChAnsiState): never two of a kind open.
TagsBalanced ==
    \A attr \in Attributes :
        Count(conn.out, attr) - Count(conn.out, Closing[attr]) = IF conn.ansi[attr] THEN 1 ELSE 0

\* When both directions are quiet, the world and the client agree on who
\* echoes, and the input field hides what is typed exactly if it is the world
\* (or the line looks like a login): DoTelnetCmd, SetEchoState, OnWorldConnect.
\* At any time the field on the screen is the one that takes the keys, and it is
\* hidden when it should be (SetEcho, Show and Reset, GetEdit).
FieldMatchesEcho ==
    /\ session > 0 => conn.field.child = EditName(conn.field)
    /\ online /\ got = Len(stream) /\ heard = Len(conn.answers) =>
           /\ echoing \in {"off", "on"}
           /\ (echoing = "on") = (conn.field.echo = "telnet")
           /\ (echoing = "on") = ("ECHO" \notin conn.telnet)

\* What the user can see, or see again.
Seen == history \cup displayed \cup {conn.field.plain, ended.plain}

\* What was typed while the world echoes does not turn up in the visible field,
\* in the window or in the history, whatever the world negotiates meanwhile;
\* except for what was put aside in the hidden field by the Up key, and only when
\* Down brings it back (SetEcho, CheckForPasswordProtection, MoveInHistory).
SecretsHidden == []["secret" \in Seen' \ Seen => ended.password = "secret"]_vars

\* A line that logs in is neither kept nor shown before the client has seen
\* that the user is logged in (CheckForPasswordProtection, OnSendKey), unless it
\* comes from the history, where a line sent later in a session may be a login.
LoginNotKept ==
    [][\A text \in (history' \ history) \cup (displayed' \ displayed) :
           text = "login" => conn.field.loggedIn \/ world = "lines" \/ ~checked']_vars

\* An offer or a withdrawal of the world's echo is answered.
OfferAnswered == echoing \in {"offered", "withdrawn"} ~> echoing \in {"off", "on"} \/ ~online
=============================================================================
