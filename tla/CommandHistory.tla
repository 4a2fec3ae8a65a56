---------------------------- MODULE CommandHistory ----------------------------
(***************************************************************************)
(* The command line of the client: the lines sent so far (ChHistory, in    *)
(* modules/client/msw/ChWorld/ChHist.cpp) and the edit control that        *)
(* browses them with the arrow keys, completes from them with Tab and      *)
(* sends them again from its menu (ChTextInputEdit, in ChTextInput.cpp).   *)
(*                                                                         *)
(* A position of the list is the number of its line, counting from the     *)
(* first line ever sent; 0 is the null position.  Lines up to "dropped"    *)
(* have been removed from the head and their nodes freed.  The control     *)
(* that hides a password has a history of its own that stays empty, so     *)
(* only the other one is modelled.                                         *)
(***************************************************************************)
EXTENDS Integers, Sequences

CONSTANTS
    Texts,      \* what the edit control may hold
    Blank,      \* the empty one
    Begins,     \* <<t, u>> when u begins with t
    Max,        \* m_sMax, the length of the history
    MaxLines    \* bound: lines sent

ASSUME HistoryAssumption ==
    /\ Blank \in Texts
    /\ Begins \subseteq Texts \X Texts
    /\ Max \in Nat
    /\ MaxLines \in Nat

VARIABLES
    lines,      \* every line added to the history ...
    dropped,    \* ... and how many of them RemoveHead has taken off
    place,      \* m_state of the history ...
    curr,       \* ... and m_curr
    field,      \* the text of the edit control
    endText,    \* m_strEndText
    browsing,   \* m_boolBrowsingHistory
    tab         \* m_tabCompletionMode, m_strTabCompletion, m_posTabCompletion

list == <<lines, dropped>>
cursor == <<place, curr>>
historyVars == <<list, cursor, field, endText, browsing, tab>>

Places == {"empty", "notBrowsing", "atEnd", "atTop", "onlyItem", "inMiddle"}
TabModes == {"reset", "start", "history", "end"}

Count == Len(lines) - dropped
Last == IF Count = 0 THEN 0 ELSE Len(lines)
Live(n) == n \in dropped + 1 .. Len(lines)
After(n) == IF n = Len(lines) THEN 0 ELSE n + 1
Before(n) == IF n = dropped + 1 THEN 0 ELSE n - 1

HistoryInit ==
    /\ lines = <<>> /\ dropped = 0
    /\ place = "empty" /\ curr = 0
    /\ field = Blank /\ endText = Blank
    /\ browsing = FALSE
    /\ tab = [mode |-> "reset", text |-> Blank, pos |-> 0]

(***************************************************************************)
(* GetPrevious and GetNext: where they leave the cursor.  They find a line *)
(* exactly when they leave it on one, "onlyItem" included.                 *)
(***************************************************************************)
Cursor(p, n) == [place |-> p, curr |-> n]

Previous(c) ==
    IF c.place = "notBrowsing"
    THEN Cursor(IF Count > 1 THEN "inMiddle" ELSE "onlyItem", Last)
    ELSE IF c.place = "inMiddle"
    THEN Cursor(IF Before(c.curr) = 0 THEN "atTop" ELSE "inMiddle", Before(c.curr))
    ELSE IF c.place = "atEnd"
    THEN Cursor("inMiddle", Before(Last))
    ELSE c

HasPrevious(c) ==
    \/ c.place \in {"notBrowsing", "atEnd"}
    \/ c.place = "inMiddle" /\ Before(c.curr) # 0

Following(c) ==
    IF c.place = "atTop"
    THEN Cursor("inMiddle", After(dropped + 1))
    ELSE IF c.place = "inMiddle"
    THEN Cursor(IF After(c.curr) = 0 THEN "atEnd" ELSE "inMiddle", After(c.curr))
    ELSE c

HasNext(c) ==
    \/ c.place = "atTop"
    \/ c.place = "inMiddle" /\ After(c.curr) # 0

Here == Cursor(place, curr)
Rest(n) == IF n = 0 THEN "empty" ELSE "notBrowsing"

Moved(c) == place' = c.place /\ curr' = c.curr

\* Faulty: only an empty history changes state.
ResetFaulty(n) ==
    /\ place' = IF n = 0 THEN "empty" ELSE IF place = "empty" THEN "notBrowsing" ELSE place
    /\ curr' = IF n = 0 THEN curr ELSE 0

\* Reset, of a history of n lines; it leaves m_curr alone when there are none.
Reset(n) ==
    /\ place' = Rest(n)
    /\ curr' = IF n = 0 THEN curr ELSE 0

\* Any key but Tab, once it has been processed.
TabReset == tab' = [tab EXCEPT !.mode = "reset"]

-----------------------------------------------------------------------------
(***************************************************************************)
(* The user edits the text, with keys or with the mouse; so does SetEcho   *)
(* when it moves the text to the control that hides it and back.           *)
(***************************************************************************)
Edit(t) ==
    /\ field' = t
    /\ TabReset \/ UNCHANGED tab
    /\ UNCHANGED <<list, cursor, endText, browsing>>

(***************************************************************************)
(* The Up key.  A line the control shows already is passed over.           *)
(***************************************************************************)
Up ==
    LET one == Previous(Here)
        again == HasPrevious(Here) /\ lines[one.curr] = field
        two == IF again THEN Previous(one) ELSE one
        found == IF again THEN HasPrevious(one) ELSE HasPrevious(Here)
    IN  /\ endText' = IF browsing THEN endText ELSE field
        /\ browsing' = TRUE
        /\ Moved(two)
        /\ field' = IF found THEN lines[two.curr] ELSE field
        /\ TabReset
        /\ UNCHANGED list

\* The Down key.  Past the last line the text from before comes back.
Down ==
    /\ IF HasNext(Here)
       THEN /\ Moved(Following(Here))
            /\ field' = lines[Following(Here).curr]
            /\ UNCHANGED browsing
       ELSE /\ field' = endText
            /\ browsing' = FALSE
            /\ IF browsing THEN Reset(Count) ELSE Moved(Following(Here))
    /\ TabReset
    /\ UNCHANGED <<list, endText>>

(***************************************************************************)
(* OnSendKey with the text t: a line equal to the last one is not added    *)
(* again, nor a blank one, and the oldest goes when there are too many.    *)
(* The text stays, selected, unless the preference m_boolClearOnSend says  *)
(* otherwise.                                                              *)
(***************************************************************************)
\* Faulty: a repeated line is added again.
AddedFaulty(t) == TRUE

Added(t) == Count = 0 \/ t # lines[Len(lines)]

Sent(t) ==
    /\ Len(lines) < MaxLines
    /\ IF t # Blank /\ Added(t)
       THEN /\ lines' = Append(lines, t)
            /\ dropped' = IF Count + 1 > Max THEN dropped + 1 ELSE dropped
       ELSE UNCHANGED list
    /\ IF t # Blank \/ browsing THEN Reset(Len(lines') - dropped') ELSE UNCHANGED cursor
    /\ field' \in {Blank, t}
    /\ browsing' = FALSE
    /\ UNCHANGED endText

Send == Sent(field) /\ TabReset

\* A line of the history chosen in the right-button menu.  No key is pressed.
SendFromMenu ==
    /\ \E n \in dropped + 1 .. Len(lines) : Sent(lines[n])
    /\ UNCHANGED tab

(***************************************************************************)
(* The Tab key: GetExpansion looks from a position of the list towards its *)
(* head for a line that begins with the text typed, and leaves the         *)
(* position before the one it finds.  A position of a freed node gives     *)
(* anything.                                                               *)
(***************************************************************************)
Matching(text, from) ==
    {n \in dropped + 1 .. Len(lines) : n <= from /\ <<text, lines[n]>> \in Begins}

Expand(text, from) ==
    LET found == Matching(text, IF from = 0 THEN Last ELSE from)
    IN  IF found = {}
        THEN /\ tab' = [mode |-> "start", text |-> text, pos |-> 0]
             /\ UNCHANGED field
        ELSE \E n \in found :
                /\ \A o \in found : o <= n
                /\ field' = lines[n]
                /\ tab' = [mode |-> IF Before(n) = 0 THEN "end" ELSE "history",
                           text |-> text, pos |-> Before(n)]

Dangling == tab.mode = "history" /\ tab.pos # 0 /\ ~Live(tab.pos)

Tab ==
    /\ \/ tab.mode = "reset" /\ Expand(field, 0)
       \/ tab.mode = "start" /\ Expand(tab.text, 0)
       \/ tab.mode = "history" /\ ~Dangling /\ Expand(tab.text, tab.pos)
       \/ tab.mode = "end" /\ tab' = [tab EXCEPT !.mode = "start"] /\ UNCHANGED field
    /\ UNCHANGED <<list, cursor, endText, browsing>>

TabDangles ==
    /\ Dangling
    /\ field' \in Texts
    /\ \E mode \in {"start", "history", "end"}, pos \in {0, tab.pos} :
            tab' = [tab EXCEPT !.mode = mode, !.pos = pos]
    /\ UNCHANGED <<list, cursor, endText, browsing>>

HistoryNext ==
    \/ \E t \in Texts : Edit(t)
    \/ Up
    \/ Down
    \/ Send
    \/ SendFromMenu
    \/ Tab
    \/ TabDangles

HistorySpec == HistoryInit /\ [][HistoryNext]_historyVars

-----------------------------------------------------------------------------
HistoryTypeOK ==
    /\ lines \in Seq(Texts)
    /\ dropped \in Nat
    /\ place \in Places
    /\ curr \in Nat
    /\ field \in Texts
    /\ endText \in Texts
    /\ browsing \in BOOLEAN
    /\ tab \in [mode : TabModes, text : Texts, pos : Nat]

(***************************************************************************)
(* What GetPrevious, GetNext and the menu dereference next is a node of    *)
(* the list, whatever has been sent, removed and browsed before: m_curr    *)
(* while in the middle, the second node from the top, the one before the   *)
(* tail from the end, and the tail when browsing starts.                   *)
(***************************************************************************)
NoDeadPosition ==
    /\ dropped <= Len(lines)
    /\ place = "inMiddle" => Live(curr)
    /\ place \in {"atTop", "atEnd"} => Count >= 2
    /\ place = "notBrowsing" => Count >= 1

(***************************************************************************)
(* The Up key never leaves the user looking at what he saw: when it stops  *)
(* on a line, the control shows that line and did not show it before.      *)
(* This rests on Add, which never puts a line beside its equal.            *)
(***************************************************************************)
UpShowsAnother ==
    [][Up /\ place' = "inMiddle" => field' = lines[curr'] /\ field' # field]_historyVars

\* A line is never beside its equal.
NeighboursDiffer ==
    \A n \in dropped + 1 .. Len(lines) - 1 : lines[n] # lines[n + 1]

\* The inductive invariant: the cursor also waits at the end when nobody browses.
HistoryInv ==
    /\ HistoryTypeOK
    /\ NoDeadPosition
    /\ NeighboursDiffer
    /\ place = "inMiddle" => Count >= 2
    /\ Count = 0 <=> place = "empty"
    /\ ~browsing => place \in {"empty", "notBrowsing"}
=============================================================================
