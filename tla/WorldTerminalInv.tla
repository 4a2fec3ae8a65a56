--------------------------- MODULE WorldTerminalInv ---------------------------
(* The inductive invariant behind what WorldTerminal promises of the text, of  *)
(* the echo and of what is typed.                                              *)
EXTENDS WorldTerminal

\* The field on the screen is the one that takes the keys. While the client hides a
\* login, the hidden field holds a secret only if one was put aside there.
FieldProper(f) ==
    /\ f.child = EditName(f)
    /\ f.echo = "auto" /\ f.password = "secret" => ended.password = "secret"

\* A login in the visible field is one that need not be hidden, or comes from the
\* history.
LoginCovered(f) ==
    f.echo = "on" /\ f.plain = "login" /\ checked => f.loggedIn \/ world = "lines"

\* The input field hides what the telnet state says the world echoes.
EchoAgrees(c) == (c.field.echo = "telnet") = ("ECHO" \notin c.telnet)

FieldInv ==
    /\ FieldProper(conn.field) /\ LoginCovered(conn.field)
    /\ online => EchoAgrees(conn)

\* The lines and what is left of the packet are the text of the window.
TextOfLines(c) == FlattenSeq(c.lines) \o c.line \o c.part = Visible(c.out)

\* Tags and attributes.
Balanced(out, ansi) ==
    \A attr \in Attributes :
        Count(out, attr) - Count(out, Closing[attr]) = IF ansi[attr] THEN 1 ELSE 0

-----------------------------------------------------------------------------
(* Without null characters, which end a packet. *)

NoNulls == "null" \notin Units
Clean == \A i \in 1 .. Len(stream) : stream[i] # "NUL"

\* The stream after its first k characters, read as one packet.
Read(k) == TheOne(ScanPacket(NewConn(NoField), stream)[k]).conn

\* Two connections that differ in lines, newlines and fields only.
Agree(c, d) ==
    /\ c.mode = d.mode /\ c.codes = d.codes /\ c.cmd = d.cmd /\ c.telnet = d.telnet
    /\ c.ansi = d.ansi /\ c.answers = d.answers
    /\ Visible(c.out) = Visible(d.out)

Arrived == Agree(conn, Read(got))

\* The answers about the echo that the world has not read, when it has read `h` and
\* the client all that it has written: they answer the world's last change.
EchoAnswers == {<<"DO", "ECHO">>, <<"DONT", "ECHO">>}
Unread(h, answers) == {i \in h + 1 .. Len(answers) : answers[i] \in EchoAnswers}
Awaits(side, h, answers, telnet) ==
    LET unread == Unread(h, answers)
        only(answer) == \E i \in unread : unread = {i} /\ answers[i] = answer
    IN /\ \/ side \in {"off", "on"} /\ unread = {}
          \/ side = "offered" /\ only(<<"DO", "ECHO">>)
          \/ side = "withdrawn" /\ only(<<"DONT", "ECHO">>)
       /\ side \in {"off", "withdrawn"} <=> "ECHO" \in telnet

Negotiated ==
    LET c == Read(Len(stream))
    IN c.mode = "scanning" /\ Awaits(echoing, heard, c.answers, c.telnet)

TerminalInv ==
    /\ TypeOK /\ FieldInv
    /\ Balanced(conn.out, conn.ansi) /\ TextOfLines(conn)
    /\ NoNulls => Clean /\ Arrived /\ Negotiated
=============================================================================
