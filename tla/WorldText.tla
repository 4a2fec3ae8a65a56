------------------------------ MODULE WorldText ------------------------------
(* What ChWorldConn makes of the text of a world (ChWConn.cpp): the scanner   *)
(* that goes through a packet, the ANSI codes it turns into tags, the telnet  *)
(* commands it answers, the lines it hands to the actions; and the input      *)
(* field, which hides what is typed while the world echoes.                   *)
EXTENDS Integers, SequencesExt

CONSTANT
    MaxLine         \* MAX_LINE_LEN: a longer line is processed before its end

ASSUME MaxLineAssumption == MaxLine \in Nat

TheOne(set) == CHOOSE x \in set : TRUE

Numerals == <<"0", "1", "2", "3", "4", "5", "6", "7", "8", "9">>
Digits == ToSet(Numerals)
Value(d) == (CHOOSE i \in DOMAIN Numerals : Numerals[i] = d) - 1
Commands == {"WILL", "WONT", "DO", "DONT"}
Options == {"ECHO", "EOR_OPT", "OTHER"}
\* "text" is printable or a tab, "sep" a semicolon.
Chars == {"text", "CR", "LF", "NUL", "ESC", "[", "sep", "m", "IAC", "GA"}
         \cup Digits \cup Commands \cup Options
ScanStates == {"scanning", "escape", "ansi", "IAC", "cmd"}
EchoStates == {"on", "telnet", "auto"}
Colors == {"def", "black", "white", "red"}
\* A line the user types, one that matches MatchMushLogin, and what is typed
\* because the world hides it.
Texts == {"", "say", "login", "secret"}

\* What goes to the text window: text, what is left of broken sequences, tags.
Attributes == {"bold", "underline", "italic", "color"}
Closing == [bold |-> "/bold", underline |-> "/underline", italic |-> "/italic",
            color |-> "/color"]
Items == {"text", "newline", "escape", "IAC", "body"} \cup Attributes
         \cup {Closing[attr] : attr \in Attributes}

Ansi == [bold : BOOLEAN, underline : BOOLEAN, italic : BOOLEAN, color : BOOLEAN,
         fore : Colors, back : Colors]
NoAnsi == [bold |-> FALSE, underline |-> FALSE, italic |-> FALSE, color |-> FALSE,
           fore |-> "def", back |-> "def"]

-----------------------------------------------------------------------------
(* The input field: two edit controls of which one is shown.                  *)

Fields == [echo : EchoStates, plain : Texts, password : Texts, child : {"plain", "password"},
           loggedIn : BOOLEAN]

\* Faulty: the text is always kept.
SetEchoFaulty(f, echo, preserve) ==
    IF echo THEN [f EXCEPT !.plain = f.password, !.child = "plain"]
            ELSE [f EXCEPT !.password = f.plain, !.child = "password"]

SetEcho(f, echo, preserve) ==
    IF echo THEN [f EXCEPT !.plain = IF preserve THEN f.password ELSE "", !.child = "plain"]
            ELSE [f EXCEPT !.password = IF preserve THEN f.plain ELSE "", !.child = "password"]

SetEchoState(f, new, preserve) ==
    IF f.echo = new THEN f ELSE SetEcho([f EXCEPT !.echo = new], new = "on", preserve)

\* GetEdit: the control that takes the keys.
EditName(f) == IF f.echo = "on" THEN "plain" ELSE "password"
EditText(f) == IF f.echo = "on" THEN f.plain ELSE f.password

MatchMushLogin(t) == t = "login"

\* `asks` is false for a world whose login is two lines, and without a world.
CheckForPasswordProtection(f, asks) ==
    IF ~asks \/ f.loggedIn \/ f.echo = "telnet" THEN f
    ELSE IF f.echo = "auto" /\ ~MatchMushLogin(f.password) THEN SetEchoState(f, "on", TRUE)
    ELSE IF f.echo = "on" /\ MatchMushLogin(f.plain) THEN SetEchoState(f, "auto", TRUE)
    ELSE f

-----------------------------------------------------------------------------
(* A connection: what is left of the packets so far (mode .. line), and what  *)
(* they produced: items for the text window, lines for the actions, answers   *)
(* for the world, and the input field as they leave it.                       *)

Conns ==
    [mode : ScanStates, codes : Seq(Digits \cup {"sep"}), cmd : Commands,
     telnet : SUBSET {"ECHO", "EOR_OPT"}, ansi : Ansi, line : Seq(Items), part : Seq(Items),
     out : Seq(Items), lines : Seq(Seq(Items)), answers : Seq(Commands \X Chars), field : Fields]

NewConn(f) ==
    [mode |-> "scanning", codes |-> <<>>, cmd |-> "DO", telnet |-> {"ECHO"}, ansi |-> NoAnsi,
     line |-> <<>>, part |-> <<>>, out |-> <<>>, lines |-> <<>>, answers |-> <<>>, field |-> f]

Append1(c, item) == [c EXCEPT !.out = Append(@, item), !.part = Append(@, item)]
AppendAll(c, items) == [c EXCEPT !.out = @ \o items, !.part = @ \o items]

\* Faulty: what is left of earlier packets is overwritten.
AddToTextBlockFaulty(c, ends) ==
    LET line == c.part
    IN IF ends \/ Len(line) > MaxLine
       THEN [c EXCEPT !.lines = Append(@, line), !.line = <<>>, !.part = <<>>]
       ELSE [c EXCEPT !.line = line, !.part = <<>>]

\* AddToTextBlock: the part of the line in this packet joins what is left of
\* earlier ones.
AddToTextBlock(c, ends) ==
    LET line == c.line \o c.part
    IN IF ends \/ Len(line) > MaxLine
       THEN [c EXCEPT !.lines = Append(@, line), !.line = <<>>, !.part = <<>>]
       ELSE [c EXCEPT !.line = line, !.part = <<>>]

ParseEndOfLine(c, ends) == IF c.part = <<>> THEN c ELSE AddToTextBlock(c, ends)

Newline(c) == [ParseEndOfLine(c, TRUE) EXCEPT !.out = Append(@, "newline")]

-----------------------------------------------------------------------------
(* ANSI codes: what they do to the state of the attributes, and the tags they *)
(* write (strAnsiHTML).                                                       *)

\* Tags are written when the attribute changes.
Attribute(a, attr, on) ==
    IF a.ansi[attr] = on THEN a
    ELSE [ansi |-> [a.ansi EXCEPT ![attr] = on],
          html |-> Append(a.html, IF on THEN attr ELSE Closing[attr])]

Colored(ansi) == ansi.fore # "def" \/ ansi.back # "def"

\* Faulty: the font of the old colours stays open.
SetColorFaulty(a) ==
    [ansi |-> [a.ansi EXCEPT !.color = Colored(a.ansi)],
     html |-> a.html \o (IF Colored(a.ansi) THEN <<"color">> ELSE <<>>)]

SetColor(a) ==
    [ansi |-> [a.ansi EXCEPT !.color = Colored(a.ansi)],
     html |-> a.html \o (IF a.ansi.color THEN <<"/color">> ELSE <<>>)
                     \o (IF Colored(a.ansi) THEN <<"color">> ELSE <<>>)]

SetForeColor(a, color) == SetColor([a EXCEPT !.ansi.fore = color])
SetBackColor(a, color) == SetColor([a EXCEPT !.ansi.back = color])

\* What is open is closed in a fixed order; the terminal is white on black.
Reset(a) ==
    LET closed(attr) == IF a.ansi[attr] THEN <<Closing[attr]>> ELSE <<>>
    IN [ansi |-> [NoAnsi EXCEPT !.color = TRUE, !.fore = "white", !.back = "black"],
        html |-> a.html \o closed("bold") \o closed("underline") \o closed("italic")
                        \o closed("color") \o <<"body", "color", "/color", "color">>]

\* One colour stands for the eight of each kind that are not black or white.
ProcessAnsiCode(a, code) ==
    CASE code = 0 -> Reset(a)
      [] code = 1 -> Attribute(a, "bold", TRUE)
      [] code = 2 -> Attribute(a, "bold", FALSE)
      [] code = 3 -> Attribute(a, "italic", TRUE)
      [] code = 4 -> Attribute(a, "underline", TRUE)
      [] code \in 31 .. 36 -> SetForeColor(a, "red")
      [] code \in 41 .. 46 -> SetBackColor(a, "red")
      [] code \in {30, 37} -> SetForeColor(a, IF code = 30 THEN "black" ELSE "white")
      [] code \in {40, 47} -> SetBackColor(a, IF code = 40 THEN "black" ELSE "white")
      [] OTHER -> a

\* A code is processed when what follows its digits is read; -1 is no code.
EndCode(s) == IF s.code = -1 THEN s.a ELSE ProcessAnsiCode(s.a, s.code)
ReadCode(s, d) ==
    IF d = "sep" THEN [a |-> EndCode(s), code |-> -1]
    ELSE [s EXCEPT !.code = IF @ = -1 THEN Value(d) ELSE 10 * @ + Value(d)]

\* The sequence after its first i characters: a set with one element, so that
\* each step is evaluated once.
ReadCodes(ansi, codes) ==
    LET read[i \in 0 .. Len(codes)] ==
            IF i = 0 THEN {[a |-> [ansi |-> ansi, html |-> <<>>], code |-> -1]}
            ELSE {ReadCode(s, codes[i]) : s \in read[i - 1]}
    IN read

\* The sequence ends with `term`; "m" is ANSI_MODE, of ANSI_ERASE nothing comes.
ProcessAnsiCodes(c, term) ==
    LET read == TheOne(ReadCodes(c.ansi, c.codes)[Len(c.codes)])
        a == EndCode(read)
    IN IF term = "m" THEN AppendAll([c EXCEPT !.ansi = a.ansi], a.html) ELSE c

-----------------------------------------------------------------------------
(* Telnet commands. `telnet` has "ECHO" while the client echoes, and          *)
(* "EOR_OPT" once it accepted end-of-record marks.                            *)

TelnetSend(c, command, option) == [c EXCEPT !.answers = Append(@, <<command, option>>)]

WillEcho(c) ==
    IF "ECHO" \in c.telnet
    THEN TelnetSend([c EXCEPT !.field = SetEchoState(@, "telnet", FALSE),
                              !.telnet = @ \ {"ECHO"}], "DO", "ECHO")
    ELSE c

\* Faulty: the withdrawal is not acknowledged.
WontEchoFaulty(c) ==
    [c EXCEPT !.field = SetEchoState(@, "on", FALSE), !.telnet = @ \cup {"ECHO"}]

WontEcho(c) ==
    IF "ECHO" \in c.telnet THEN c
    ELSE TelnetSend([c EXCEPT !.field = SetEchoState(@, "on", FALSE),
                              !.telnet = @ \cup {"ECHO"}], "DONT", "ECHO")

\* The case of EOR_OPT falls through into the refusal of everything else.
WillEOR(c) ==
    LET accepted == IF "EOR_OPT" \in c.telnet THEN c
                    ELSE TelnetSend([c EXCEPT !.telnet = @ \cup {"EOR_OPT"}], "DO", "EOR_OPT")
    IN TelnetSend(accepted, "DONT", "EOR_OPT")

WontEOR(c) ==
    IF "EOR_OPT" \in c.telnet
    THEN TelnetSend([c EXCEPT !.telnet = @ \ {"EOR_OPT"}], "DONT", "EOR_OPT")
    ELSE c

DoTelnetCmd(c, option) ==
    CASE c.cmd = "WILL" /\ option = "ECHO" -> WillEcho(c)
      [] c.cmd = "WILL" /\ option = "EOR_OPT" -> WillEOR(c)
      [] c.cmd = "WILL" /\ option \notin {"ECHO", "EOR_OPT"} -> TelnetSend(c, "DONT", option)
      [] c.cmd = "WONT" /\ option = "ECHO" -> WontEcho(c)
      [] c.cmd = "WONT" /\ option = "EOR_OPT" -> WontEOR(c)
      [] c.cmd = "DO" -> TelnetSend(c, "WONT", option)
      [] OTHER -> c

-----------------------------------------------------------------------------
(* The scanner.                                                               *)

Pairs == {<<"LF", "CR">>, <<"CR", "LF">>}

Scanning(c, ch) ==
    CASE ch = "ESC" -> [c EXCEPT !.mode = "escape"]
      [] ch = "IAC" -> [c EXCEPT !.mode = "IAC"]
      [] ch \in {"LF", "CR"} -> Newline(c)
      [] ch \in {"text", "[", "sep", "m"} \cup Digits -> Append1(c, "text")
      [] OTHER -> c         \* not printable

Escape(c, ch) ==
    IF ch = "[" THEN [c EXCEPT !.mode = "ansi"]
    ELSE AppendAll([c EXCEPT !.mode = "scanning"], <<"escape", "text">>)

\* The two states parseStateAnsi and parseStateAnsiTerm: the codes, and the
\* character that ends them, which is scanned again when it is a newline or an
\* escape.
AnsiSequence(c, ch) ==
    LET over == [c EXCEPT !.mode = "scanning", !.codes = <<>>]
    IN IF ch \in Digits \cup {"sep"} THEN [c EXCEPT !.codes = Append(@, ch)]
       ELSE IF ch \in {"LF", "CR", "ESC"} THEN Scanning(over, ch)
       ELSE [ProcessAnsiCodes(c, ch) EXCEPT !.mode = "scanning", !.codes = <<>>]

TelnetIAC(c, ch) ==
    IF ch \in Commands THEN [c EXCEPT !.mode = "cmd", !.cmd = ch]
    ELSE IF ch = "GA" THEN [c EXCEPT !.mode = "scanning"]
    ELSE AppendAll([c EXCEPT !.mode = "scanning"], <<"IAC", "text">>)

ParseChar(c, ch) ==
    CASE c.mode = "scanning" -> Scanning(c, ch)
      [] c.mode = "escape" -> Escape(c, ch)
      [] c.mode = "ansi" -> AnsiSequence(c, ch)
      [] c.mode = "IAC" -> TelnetIAC(c, ch)
      [] c.mode = "cmd" -> [DoTelnetCmd(c, ch) EXCEPT !.mode = "scanning"]

\* Faulty: every packet is scanned from the start of the automaton.
StartPacketFaulty(c) == [c EXCEPT !.part = <<>>, !.mode = "scanning"]

\* The parsed buffer is new, the rest is as the last packet left it.
StartPacket(c) == [c EXCEPT !.part = <<>>]

\* Whether a character is a newline where it stands.
EndsLine(c, ch) == ch \in {"LF", "CR"} /\ c.mode \in {"scanning", "ansi"}

\* A pair of newline characters in one packet is taken together, and nothing is
\* read after a null character: `behind` is the newline just read, or the null.
Scan(s, ch) ==
    IF s.behind = "NUL" \/ ch = "NUL" THEN [s EXCEPT !.behind = "NUL"]
    ELSE IF <<s.behind, ch>> \in Pairs THEN [s EXCEPT !.behind = "none"]
    ELSE [conn |-> ParseChar(s.conn, ch),
          behind |-> IF EndsLine(s.conn, ch) THEN ch ELSE "none"]

\* A packet after its first i characters, as in ReadCodes.
ScanPacket(c, packet) ==
    LET scan[i \in 0 .. Len(packet)] ==
            IF i = 0 THEN {[conn |-> c, behind |-> "none"]}
            ELSE {Scan(s, packet[i]) : s \in scan[i - 1]}
    IN scan

ParseText(c, packet) ==
    ParseEndOfLine(TheOne(ScanPacket(StartPacket(c), packet)[Len(packet)]).conn, FALSE)
=============================================================================
