------------------------------ MODULE ClientProofs ------------------------------
(***************************************************************************)
(* Proofs about the parts of Client, for every value of their constants:   *)
(* what the arrow keys of the command line dereference is alive and Up     *)
(* shows another line; a crash loses no cookie that has an expiry date and *)
(* brings none back; and, with ClientModulesProofs, the types of all three *)
(* parts, in the invariants the proofs rest on.                            *)
(***************************************************************************)
EXTENDS Client, ClientModulesProofs

-----------------------------------------------------------------------------
(* The command history. *)

\* What a move up gives from a cursor that HistoryInv allows while browsing.
LEMMA PreviousMoves ==
    ASSUME HistoryInv,
           NEW c, c \in [place : Places, curr : Nat],
           c.place \in {"notBrowsing", "atTop", "atEnd"} => Count >= 1,
           c.place \in {"atTop", "atEnd"} => Count >= 2,
           c.place = "inMiddle" => Live(c.curr) /\ Count >= 2
    PROVE  /\ Previous(c) \in [place : Places, curr : Nat]
           /\ HasPrevious(c) => Live(Previous(c).curr)
           /\ Previous(c).place = "inMiddle" => HasPrevious(c) /\ Count >= 2
           /\ Previous(c).place \in {"atTop", "atEnd"} => Count >= 2
           /\ Previous(c).place \notin {"notBrowsing", "atEnd"}
           /\ Previous(c).place = "empty" <=> c.place = "empty"
           /\ c.place = "inMiddle" /\ HasPrevious(c) => Previous(c).curr = c.curr - 1
  <1> dropped \in Nat /\ Len(lines) \in Nat /\ dropped <= Len(lines)
    BY DEF HistoryInv, HistoryTypeOK, NoDeadPosition
  <1>1. CASE c.place = "notBrowsing"
    BY <1>1 DEF Previous, HasPrevious, Cursor, Count, Last, Live, Places
  <1>2. CASE c.place = "inMiddle"
    BY <1>2 DEF Previous, HasPrevious, Cursor, Count, Before, Live, Places
  <1>3. CASE c.place = "atEnd"
    BY <1>3 DEF Previous, HasPrevious, Cursor, Count, Before, Last, Live, Places
  <1>4. CASE c.place \in {"empty", "atTop", "onlyItem"}
    BY <1>4 DEF Previous, HasPrevious, Cursor, Count, Places
  <1> QED  BY <1>1, <1>2, <1>3, <1>4 DEF Places

\* The invariant of a history that is not being browsed.
LEMMA AtRest ==
    ASSUME lines' \in Seq(Texts), dropped' \in Nat, dropped' <= Len(lines'),
           NeighboursDiffer',
           place' = Rest(Len(lines') - dropped'), curr' \in Nat,
           field' \in Texts, endText' \in Texts, browsing' \in BOOLEAN,
           tab' \in [mode : TabModes, text : Texts, pos : Nat]
    PROVE  HistoryInv'
  <1>0. Len(lines') \in Nat
    OBVIOUS
  <1>1. place' \in {"empty", "notBrowsing"}
    BY DEF Rest
  <1>2. HistoryTypeOK'
    BY <1>1 DEF HistoryTypeOK, Places
  <1>3. Count' = Len(lines') - dropped'
    BY DEF Count
  <1>4. NoDeadPosition'
    BY <1>0, <1>1, <1>3 DEF NoDeadPosition, Rest
  <1>5. /\ place' = "inMiddle" => Count' >= 2
        /\ Count' = 0 <=> place' = "empty"
    BY <1>1, <1>3 DEF Rest
  <1> QED  BY <1>1, <1>2, <1>4, <1>5 DEF HistoryInv

\* Sending a line keeps the invariant, whichever way it was sent.
LEMMA SentKeeps ==
    ASSUME HistoryInv,
           NEW t, t \in Texts,
           Sent(t),
           tab' \in [mode : TabModes, text : Texts, pos : Nat]
    PROVE  HistoryInv'
  <1> DEFINE longer == t # Blank /\ Added(t)
  <1>1. /\ lines \in Seq(Texts) /\ Len(lines) \in Nat
        /\ dropped \in Nat /\ dropped <= Len(lines)
    BY DEF HistoryInv, HistoryTypeOK, NoDeadPosition
  <1>4. field' \in Texts /\ endText' \in Texts /\ browsing' \in BOOLEAN
    BY HistoryAssumption DEF Sent, HistoryInv, HistoryTypeOK
  <1>2. CASE longer
    <2>1. /\ lines' = Append(lines, t)
          /\ dropped' \in {dropped, dropped + 1}
      BY <1>2 DEF Sent
    <2>2. /\ lines' \in Seq(Texts)
          /\ Len(lines') = Len(lines) + 1
          /\ \A n \in 1 .. Len(lines) : lines'[n] = lines[n]
          /\ lines'[Len(lines) + 1] = t
      BY <1>1, <2>1
    <2>3. dropped' \in Nat /\ dropped' <= Len(lines')
      BY <1>1, <2>1, <2>2
    <2>4. NeighboursDiffer'
      <3>0. dropped' + 1 .. Len(lines') - 1 \subseteq dropped + 1 .. Len(lines)
        <4>1. Len(lines') - 1 = Len(lines)
          BY <1>1, <2>2
        <4>2. dropped' + 1 .. Len(lines) \subseteq dropped + 1 .. Len(lines)
          BY <1>1, <2>1
        <4> QED  BY <4>1, <4>2
      <3> SUFFICES ASSUME NEW n \in dropped + 1 .. Len(lines)
                   PROVE  lines'[n] # lines'[n + 1]
        BY <3>0 DEF NeighboursDiffer
      <3>1. n \in 1 .. Len(lines)
        BY <1>1
      <3>2. CASE n < Len(lines)
        <4>1. n \in dropped + 1 .. Len(lines) - 1 /\ n + 1 \in 1 .. Len(lines)
          BY <1>1, <3>1, <3>2
        <4> QED  BY <2>2, <3>1, <4>1 DEF HistoryInv, NeighboursDiffer
      <3>3. CASE n = Len(lines)
        <4>1. t # lines[Len(lines)]
          BY <1>1, <1>2, <3>1 DEF Added, Count
        <4> QED  BY <2>2, <3>1, <3>3, <4>1
      <3> QED  BY <1>1, <3>1, <3>2, <3>3
    <2>5. place' = Rest(Len(lines') - dropped') /\ curr' \in Nat
      BY <1>2 DEF Sent, Reset, HistoryInv, HistoryTypeOK
    <2> QED  BY <1>4, <2>2, <2>3, <2>4, <2>5, AtRest
  <1>3. CASE ~longer
    <2>1. lines' = lines /\ dropped' = dropped
      BY <1>3 DEF Sent, list
    <2>2. NeighboursDiffer'
      BY <2>1 DEF HistoryInv, NeighboursDiffer
    <2>3. CASE t # Blank \/ browsing
      <3>1. place' = Rest(Len(lines) - dropped) /\ curr' \in Nat
        BY <2>1, <2>3 DEF Sent, Reset, HistoryInv, HistoryTypeOK
      <3> QED  BY <1>1, <1>4, <2>1, <2>2, <3>1, AtRest
    <2>4. CASE ~(t # Blank \/ browsing)
      <3>1. place' = place /\ curr' = curr /\ ~browsing
        BY <2>4 DEF Sent, cursor
      <3>2. place \in {"empty", "notBrowsing"} /\ curr \in Nat
        BY <3>1 DEF HistoryInv, HistoryTypeOK
      <3>3. place = Rest(Len(lines) - dropped)
        BY <1>1, <3>2 DEF HistoryInv, Count, Rest
      <3>4. place' = Rest(Len(lines') - dropped') /\ curr' \in Nat
        BY <2>1, <3>1, <3>2, <3>3
      <3>5. lines' \in Seq(Texts) /\ dropped' \in Nat /\ dropped' <= Len(lines')
        BY <1>1, <2>1
      <3> QED  BY <1>4, <2>2, <3>4, <3>5, AtRest
    <2> QED  BY <2>3, <2>4
  <1> QED  BY <1>2, <1>3

\* The Up key keeps the invariant, and stops on a line it did not show.
LEMMA UpKeeps ==
    ASSUME HistoryInv, Up
    PROVE  /\ HistoryInv'
           /\ place' = "inMiddle" => field' = lines[curr'] /\ field' # field
  <1> DEFINE one == Previous(Here)
             again == HasPrevious(Here) /\ lines[one.curr] = field
             two == IF again THEN Previous(one) ELSE one
             found == IF again THEN HasPrevious(one) ELSE HasPrevious(Here)
  <1>1. /\ lines \in Seq(Texts) /\ Len(lines) \in Nat
        /\ dropped \in Nat /\ dropped <= Len(lines)
        /\ Here \in [place : Places, curr : Nat]
        /\ Here.place = place /\ Here.curr = curr
    BY DEF HistoryInv, HistoryTypeOK, NoDeadPosition, Here, Cursor
  <1>2. /\ Here.place \in {"notBrowsing", "atTop", "atEnd"} => Count >= 1
        /\ Here.place \in {"atTop", "atEnd"} => Count >= 2
        /\ Here.place = "inMiddle" => Live(Here.curr) /\ Count >= 2
    BY <1>1 DEF HistoryInv, NoDeadPosition, Count
  <1>3. /\ one \in [place : Places, curr : Nat]
        /\ HasPrevious(Here) => Live(one.curr)
        /\ one.place = "inMiddle" => HasPrevious(Here) /\ Count >= 2
        /\ one.place \in {"atTop", "atEnd"} => Count >= 2
        /\ one.place \notin {"notBrowsing", "atEnd"}
        /\ one.place = "empty" <=> Here.place = "empty"
    <2> HIDE DEF one
    <2> QED  BY <1>1, <1>2, PreviousMoves DEF one
  <1>4. again =>
            /\ two \in [place : Places, curr : Nat]
            /\ HasPrevious(one) => Live(two.curr)
            /\ two.place = "inMiddle" => HasPrevious(one) /\ Count >= 2
            /\ two.place \in {"atTop", "atEnd"} => Count >= 2
            /\ two.place # "notBrowsing"
            /\ two.place = "empty" <=> one.place = "empty"
            /\ one.place = "inMiddle" /\ HasPrevious(one) => two.curr = one.curr - 1
    <2> SUFFICES ASSUME again
                 PROVE  /\ Previous(one) \in [place : Places, curr : Nat]
                        /\ HasPrevious(one) => Live(Previous(one).curr)
                        /\ Previous(one).place = "inMiddle" => HasPrevious(one) /\ Count >= 2
                        /\ Previous(one).place \in {"atTop", "atEnd"} => Count >= 2
                        /\ Previous(one).place # "notBrowsing"
                        /\ Previous(one).place = "empty" <=> one.place = "empty"
                        /\ one.place = "inMiddle" /\ HasPrevious(one)
                             => Previous(one).curr = one.curr - 1
      OBVIOUS
    <2>1. /\ one.place \in {"notBrowsing", "atTop", "atEnd"} => Count >= 1
          /\ one.place = "inMiddle" => Live(one.curr) /\ Count >= 2
      <3> HIDE DEF one
      <3> QED  BY <1>1, <1>3 DEF Count
    <2> HIDE DEF one
    <2> QED  BY <1>3, <2>1, PreviousMoves
  <1>5. /\ lines' = lines /\ dropped' = dropped
        /\ place' = two.place /\ curr' = two.curr
        /\ field' = IF found THEN lines[two.curr] ELSE field
        /\ browsing' = TRUE
        /\ endText' \in {endText, field}
        /\ tab' = [tab EXCEPT !.mode = "reset"]
    BY DEF Up, Moved, TabReset, list
  <1>6. /\ two \in [place : Places, curr : Nat]
        /\ found => Live(two.curr)
        /\ two.place = "inMiddle" => found /\ Count >= 2
        /\ two.place \in {"atTop", "atEnd"} => Count >= 2
        /\ two.place # "notBrowsing"
        /\ two.place = "empty" <=> place = "empty"
    <2> HIDE DEF one, two
    <2>1. CASE again
      BY <1>1, <1>3, <1>4, <2>1
    <2>2. CASE ~again
      BY <1>1, <1>3, <2>2 DEF two
    <2> QED  BY <2>1, <2>2
  <1> HIDE DEF one, two, found
  <1>7. HistoryInv'
    <2>1. found => lines[two.curr] \in Texts
      BY <1>1, <1>6 DEF Live
    <2>2. HistoryTypeOK'
      <3>1. field' \in Texts /\ endText' \in Texts
        BY <1>5, <2>1 DEF HistoryInv, HistoryTypeOK
      <3>2. tab' \in [mode : TabModes, text : Texts, pos : Nat]
        BY <1>5 DEF HistoryInv, HistoryTypeOK, TabModes
      <3> QED  BY <1>1, <1>5, <1>6, <3>1, <3>2 DEF HistoryTypeOK
    <2>3. Count' = Count /\ (Live(curr))' = Live(two.curr)
      BY <1>5 DEF Count, Live
    <2>4. NoDeadPosition'
      BY <1>1, <1>5, <1>6, <2>3 DEF NoDeadPosition
    <2>5. NeighboursDiffer'
      BY <1>5 DEF HistoryInv, NeighboursDiffer
    <2>6. Count' = 0 <=> place' = "empty"
      BY <1>5, <1>6, <2>3 DEF HistoryInv
    <2> QED  BY <1>5, <1>6, <2>2, <2>3, <2>4, <2>5, <2>6 DEF HistoryInv
  <1>8. place' = "inMiddle" => field' = lines[curr'] /\ field' # field
    <2> SUFFICES ASSUME two.place = "inMiddle"
                 PROVE  found /\ lines[two.curr] # field
      BY <1>5
    <2>1. CASE again
      <3>1. /\ two.place = Previous(one).place /\ found = HasPrevious(one)
            /\ lines[one.curr] = field /\ HasPrevious(Here)
        BY <2>1 DEF two, found
      <3>2. HasPrevious(one) /\ Live(two.curr) /\ Live(one.curr)
        BY <1>3, <1>4, <2>1, <3>1
      <3>3. one.place = "inMiddle"
        BY <1>3, <3>2 DEF HasPrevious, Places
      <3>4. two.curr = one.curr - 1
        BY <1>4, <2>1, <3>2, <3>3
      <3>5. two.curr \in dropped + 1 .. Len(lines) - 1 /\ one.curr = two.curr + 1
        BY <1>1, <1>3, <3>2, <3>4 DEF Live
      <3>6. lines[two.curr] # lines[one.curr]
        BY <3>5 DEF HistoryInv, NeighboursDiffer
      <3> QED  BY <3>1, <3>2, <3>6
    <2>2. CASE ~again
      BY <1>3, <2>2 DEF two, found
    <2> QED  BY <2>1, <2>2
  <1> QED  BY <1>7, <1>8

\* So does the Down key.
LEMMA DownKeeps ==
    ASSUME HistoryInv, Down
    PROVE  HistoryInv'
  <1> DEFINE next == Following(Here)
  <1>1. /\ lines \in Seq(Texts) /\ Len(lines) \in Nat
        /\ dropped \in Nat /\ dropped <= Len(lines)
        /\ Here = [place |-> place, curr |-> curr]
        /\ place \in Places /\ curr \in Nat
        /\ field \in Texts /\ endText \in Texts /\ browsing \in BOOLEAN
    BY DEF HistoryInv, HistoryTypeOK, NoDeadPosition, Here, Cursor
  <1>2. lines' = lines /\ dropped' = dropped /\ endText' = endText
    BY DEF Down, list
  <1>3. tab' \in [mode : TabModes, text : Texts, pos : Nat]
    BY DEF Down, TabReset, HistoryInv, HistoryTypeOK, TabModes
  <1>4. NeighboursDiffer'
    BY <1>2 DEF HistoryInv, NeighboursDiffer
  <1>5. CASE HasNext(Here)
    <2>1. /\ place \in {"atTop", "inMiddle"}
          /\ Count >= 2
          /\ next.place = "inMiddle"
          /\ next.curr \in Nat /\ Live(next.curr)
      BY <1>1, <1>5
      DEF HasNext, Following, Cursor, After, Live, Count, HistoryInv, NoDeadPosition, Places
    <2> HIDE DEF next
    <2>2. /\ place' = next.place /\ curr' = next.curr
          /\ field' = lines[next.curr] /\ browsing' = browsing
      BY <1>5 DEF Down, Moved, next
    <2>3. browsing
      BY <2>1 DEF HistoryInv
    <2>4. HistoryTypeOK'
      <3>1. field' \in Texts
        BY <1>1, <2>1, <2>2 DEF Live
      <3> QED  BY <1>1, <1>2, <1>3, <2>1, <2>2, <3>1 DEF HistoryTypeOK, Places
    <2>5. Count' = Count /\ (Live(curr))' = Live(next.curr)
      BY <1>2, <2>2 DEF Count, Live
    <2>6. NoDeadPosition'
      BY <1>1, <1>2, <2>1, <2>2, <2>5 DEF NoDeadPosition
    <2>7. ~(Count = 0) /\ place' # "empty"
      BY <1>1, <2>1, <2>2 DEF Count
    <2> QED  BY <1>4, <2>1, <2>2, <2>3, <2>4, <2>5, <2>6, <2>7 DEF HistoryInv
  <1>6. CASE ~HasNext(Here)
    <2>1. field' = endText /\ browsing' = FALSE
      BY <1>6 DEF Down
    <2>2. place' = Rest(Len(lines) - dropped) /\ curr' \in Nat
      <3>1. CASE browsing
        BY <1>1, <1>6, <3>1 DEF Down, Reset, Count
      <3>2. CASE ~browsing
        <4>1. place \in {"empty", "notBrowsing"}
          BY <3>2 DEF HistoryInv
        <4>2. place' = place /\ curr' = curr
          BY <1>1, <1>6, <3>2, <4>1 DEF Down, Moved, Following
        <4>3. place = Rest(Len(lines) - dropped)
          BY <1>1, <4>1 DEF HistoryInv, Count, Rest
        <4> QED  BY <1>1, <4>2, <4>3
      <3> QED  BY <3>1, <3>2
    <2>3. place' = Rest(Len(lines') - dropped')
      BY <1>2, <2>2
    <2>4. lines' \in Seq(Texts) /\ dropped' \in Nat /\ dropped' <= Len(lines')
      BY <1>1, <1>2
    <2>5. field' \in Texts /\ endText' \in Texts /\ browsing' \in BOOLEAN
      BY <1>1, <1>2, <2>1
    <2> QED  BY <1>3, <1>4, <2>2, <2>3, <2>4, <2>5, AtRest
  <1> QED  BY <1>5, <1>6

\* A step that leaves the history and its cursor alone keeps the invariant.
LEMMA AsideKeeps ==
    ASSUME HistoryInv,
           UNCHANGED <<list, cursor, endText, browsing>>,
           field' \in Texts,
           tab' \in [mode : TabModes, text : Texts, pos : Nat]
    PROVE  HistoryInv'
  <1>1. /\ lines' = lines /\ dropped' = dropped /\ place' = place /\ curr' = curr
        /\ endText' = endText /\ browsing' = browsing
    BY DEF list, cursor
  <1>2. HistoryTypeOK'
    BY <1>1 DEF HistoryInv, HistoryTypeOK
  <1>3. Count' = Count /\ (Live(curr))' = Live(curr)
    BY <1>1 DEF Count, Live
  <1>4. NoDeadPosition'
    BY <1>1, <1>3 DEF HistoryInv, NoDeadPosition
  <1>5. NeighboursDiffer'
    BY <1>1 DEF HistoryInv, NeighboursDiffer
  <1> QED  BY <1>1, <1>2, <1>3, <1>4, <1>5 DEF HistoryInv

\* A completion shows a line of the history and leaves a position in range.
LEMMA ExpandTypes ==
    ASSUME HistoryInv,
           NEW text, text \in Texts,
           NEW from, from \in Nat,
           Expand(text, from)
    PROVE  /\ field' \in Texts
           /\ tab' \in [mode : TabModes, text : Texts, pos : Nat]
  <1>1. /\ lines \in Seq(Texts) /\ dropped \in Nat /\ Len(lines) \in Nat
        /\ field \in Texts
    BY DEF HistoryInv, HistoryTypeOK
  <1> DEFINE found == Matching(text, IF from = 0 THEN Last ELSE from)
  <1>2. CASE found = {}
    BY <1>1, <1>2 DEF Expand, TabModes
  <1>3. CASE found # {}
    <2>1. PICK n \in found :
            /\ field' = lines[n]
            /\ tab' = [mode |-> IF Before(n) = 0 THEN "end" ELSE "history",
                       text |-> text, pos |-> Before(n)]
      BY <1>3 DEF Expand
    <2>2. n \in 1 .. Len(lines) /\ n >= dropped + 1
      BY <1>1, <2>1 DEF Matching
    <2>3. Before(n) \in Nat
      BY <1>1, <2>2 DEF Before
    <2> QED  BY <1>1, <2>1, <2>2, <2>3 DEF TabModes
  <1> QED  BY <1>2, <1>3

\* Every step keeps the invariant.
LEMMA StepKeeps ==
    ASSUME HistoryInv, [HistoryNext]_historyVars
    PROVE  HistoryInv'
  <1> USE DEF HistoryInv
  <1>1. /\ lines \in Seq(Texts) /\ dropped \in Nat /\ Len(lines) \in Nat
        /\ field \in Texts
        /\ tab \in [mode : TabModes, text : Texts, pos : Nat]
    BY DEF HistoryTypeOK
  <1> HIDE DEF HistoryInv
  <1>2. ASSUME NEW t \in Texts, Edit(t) PROVE HistoryInv'
    <2>1. tab' \in [mode : TabModes, text : Texts, pos : Nat]
      BY <1>1, <1>2 DEF Edit, TabReset, TabModes
    <2> QED  BY <1>2, <2>1, AsideKeeps DEF Edit
  <1>3. CASE Up
    BY <1>3, UpKeeps
  <1>4. CASE Down
    BY <1>4, DownKeeps
  <1>5. CASE Send
    <2>1. tab' \in [mode : TabModes, text : Texts, pos : Nat]
      BY <1>1, <1>5 DEF Send, TabReset, TabModes
    <2> QED  BY <1>1, <1>5, <2>1, SentKeeps DEF Send
  <1>6. CASE SendFromMenu
    <2>1. PICK n \in dropped + 1 .. Len(lines) : Sent(lines[n])
      BY <1>6 DEF SendFromMenu
    <2>2. lines[n] \in Texts
      BY <1>1
    <2> QED  BY <1>1, <1>6, <2>1, <2>2, SentKeeps DEF SendFromMenu
  <1>7. CASE Tab
    <2>1. CASE tab.mode = "end"
      <3>1. field' = field /\ tab' = [tab EXCEPT !.mode = "start"]
        BY <1>7, <2>1 DEF Tab
      <3>2. tab' \in [mode : TabModes, text : Texts, pos : Nat]
        BY <1>1, <3>1 DEF TabModes
      <3> QED  BY <1>1, <1>7, <3>1, <3>2, AsideKeeps DEF Tab
    <2>2. CASE tab.mode # "end"
      <3>1. PICK text \in Texts, from \in Nat : Expand(text, from)
        BY <1>1, <1>7, <2>2 DEF Tab
      <3> QED  BY <1>7, <3>1, ExpandTypes, AsideKeeps DEF Tab
    <2> QED  BY <2>1, <2>2
  <1>8. CASE TabDangles
    <2>1. tab' \in [mode : TabModes, text : Texts, pos : Nat]
      <3>1. PICK mode \in {"start", "history", "end"}, pos \in {0, tab.pos} :
                tab' = [tab EXCEPT !.mode = mode, !.pos = pos]
        BY <1>8 DEF TabDangles
      <3>2. pos \in Nat /\ mode \in TabModes
        BY <1>1, <3>1 DEF TabModes
      <3> QED  BY <1>1, <3>1, <3>2
    <2> QED  BY <1>8, <2>1, AsideKeeps DEF TabDangles
  <1>9. CASE UNCHANGED historyVars
    <2>1. /\ UNCHANGED <<list, cursor, endText, browsing>>
          /\ field' = field /\ tab' = tab
      BY <1>9 DEF historyVars
    <2> QED  BY <1>1, <2>1, AsideKeeps
  <1> QED  BY <1>2, <1>3, <1>4, <1>5, <1>6, <1>7, <1>8, <1>9 DEF HistoryNext

LEMMA HistoryInvInit == HistoryInit => HistoryInv
  <1> SUFFICES ASSUME HistoryInit PROVE HistoryInv
    OBVIOUS
  <1>1. HistoryTypeOK
    <2>1. lines \in Seq(Texts) /\ dropped \in Nat /\ place \in Places /\ curr \in Nat
      BY DEF HistoryInit, Places
    <2>2. tab \in [mode : TabModes, text : Texts, pos : Nat]
      BY HistoryAssumption DEF HistoryInit, TabModes
    <2> QED  BY HistoryAssumption, <2>1, <2>2 DEF HistoryInit, HistoryTypeOK
  <1>2. Len(lines) = 0 /\ dropped = 0 /\ place = "empty"
    BY DEF HistoryInit
  <1> QED
    BY <1>1, <1>2 DEF HistoryInv, NoDeadPosition, NeighboursDiffer, Count

LEMMA HistoryInvStep == HistoryInv /\ [HistoryNext]_historyVars => HistoryInv'
  BY StepKeeps

(***************************************************************************)
(* The inductive invariant of the history and the control that browses it. *)
(***************************************************************************)
THEOREM HistoryInvariant == HistorySpec => []HistoryInv
  BY HistoryInvInit, HistoryInvStep, PTL DEF HistorySpec

(***************************************************************************)
(* The history, its cursor and the control keep their types.               *)
(***************************************************************************)
THEOREM HistoryTypes == HistorySpec => []HistoryTypeOK
  <1>1. HistoryInv => HistoryTypeOK
    BY DEF HistoryInv
  <1> QED  BY <1>1, HistoryInvariant, PTL

(***************************************************************************)
(* The arrow keys dereference only nodes that are in the list.             *)
(***************************************************************************)
THEOREM PositionsAlive == HistorySpec => []NoDeadPosition
  <1>1. HistoryInv => NoDeadPosition
    BY DEF HistoryInv
  <1> QED  BY <1>1, HistoryInvariant, PTL

(***************************************************************************)
(* The Up key stops only on a line that the control did not show.          *)
(***************************************************************************)
THEOREM UpMoves == HistorySpec => UpShowsAnother
  <1>1. HistoryInv /\ [HistoryNext]_historyVars
          => [Up /\ place' = "inMiddle"
                => field' = lines[curr'] /\ field' # field]_historyVars
    BY UpKeeps
  <1> QED  BY <1>1, HistoryInvariant, PTL DEF HistorySpec, UpShowsAnother

-----------------------------------------------------------------------------
(* One cookie. *)

\* Every list that is not empty has a first position with a given property.
LEMMA FirstPosition ==
    ASSUME NEW N \in Nat, NEW P, P \subseteq 1 .. N, P # {}
    PROVE  \E n \in P : \A k \in P : n <= k
<1> DEFINE R == OpToRel(<, Nat)
<1>1. P \subseteq Nat
    OBVIOUS
<1>2. IsWellFoundedOn(R, Nat)
    BY NatLessThanWellFounded
<1>3. PICK n \in P : \A k \in P : <<k, n>> \notin R
    BY <1>1, <1>2, WFMin
<1>4. ASSUME NEW k \in P PROVE n <= k
    <2>1. <<k, n>> \notin R /\ k \in Nat /\ n \in Nat
        BY <1>1, <1>3
    <2> QED
        BY <2>1 DEF R, OpToRel
<1> QED
    BY <1>3, <1>4

\* A list without one of its elements.
LEMMA RemoveAtKeeps ==
    ASSUME NEW S, NEW s \in Seq(S), NEW i \in 1 .. Len(s), Len(s) # 1
    PROVE  /\ Lists!RemoveAt(s, i) \in Seq(S) \ {<<>>}
           /\ Range(Lists!RemoveAt(s, i)) \subseteq Range(s)
<1> DEFINE t == SubSeq(s, 1, i - 1)
           u == SubSeq(s, i + 1, Len(s))
<1>1. t \in Seq(S) /\ Len(t) = i - 1 /\ \A n \in 1 .. i - 1 : t[n] = s[n]
    OBVIOUS
<1>2. u \in Seq(S) /\ Len(u) = Len(s) - i /\ \A n \in 1 .. Len(s) - i : u[n] = s[n + i]
    OBVIOUS
<1>3. Lists!RemoveAt(s, i) = t \o u
    BY DEF Lists!RemoveAt
<1> HIDE DEF t, u
<1> DEFINE w == t \o u
<1>4. /\ w \in Seq(S) /\ Len(w) = Len(s) - 1
      /\ \A n \in 1 .. Len(w) : w[n] = IF n <= i - 1 THEN t[n] ELSE u[n - (i - 1)]
    <2>1. t \in Seq(S) /\ u \in Seq(S)
        BY <1>1, <1>2
    <2>2. /\ w \in Seq(S) /\ Len(w) = Len(t) + Len(u)
          /\ \A n \in 1 .. Len(w) : w[n] = IF n <= Len(t) THEN t[n] ELSE u[n - Len(t)]
        BY <2>1
    <2> HIDE DEF w
    <2> QED
        BY <1>1, <1>2, <2>2
<1> HIDE DEF w
<1>5. w # <<>>
    BY <1>4
<1>6. ASSUME NEW n \in 1 .. Len(w) PROVE \E k \in 1 .. Len(s) : w[n] = s[k]
    <2>1. CASE n <= i - 1
        BY <1>1, <1>4, <2>1
    <2>2. CASE ~(n <= i - 1)
        <3>1. n - (i - 1) \in 1 .. Len(s) - i /\ (n - (i - 1)) + i \in 1 .. Len(s)
            BY <1>4, <2>2
        <3> QED
            BY <1>2, <1>4, <2>2, <3>1
    <2> QED
        BY <2>1, <2>2
<1>7. DOMAIN w = 1 .. Len(w) /\ DOMAIN s = 1 .. Len(s)
    BY <1>4
<1>8. Range(w) \subseteq Range(s)
    BY <1>6, <1>7 DEF Range
<1> QED
    BY <1>3, <1>4, <1>5, <1>8 DEF w

\* AddCookie gives no other domain a list and no list another cookie.
LEMMA AddCookieKeeps ==
    ASSUME NEW trees, ListsType(trees), NEW domain \in Domains, NEW cookie \in Cookie
    PROVE  LET added == AddCookie(trees, domain, cookie)
           IN  /\ ListsType(added)
               /\ DOMAIN added \subseteq DOMAIN trees \cup {domain}
               /\ \A d \in DOMAIN added :
                    Range(added[d]) \subseteq
                        (IF d \in DOMAIN trees THEN Range(trees[d]) ELSE {})
                            \cup (IF d = domain THEN {cookie} ELSE {})
<1> DEFINE cookies == trees[domain]
           L == Seq(Cookie) \ {<<>>}
           From(d) == IF d \in DOMAIN trees THEN Range(trees[d]) ELSE {}
           New(d) == IF d = domain THEN {cookie} ELSE {}
           Good(t) == /\ ListsType(t)
                      /\ DOMAIN t \subseteq DOMAIN trees \cup {domain}
                      /\ \A d \in DOMAIN t : Range(t[d]) \subseteq From(d) \cup New(d)
<1>1. DOMAIN trees \subseteq Domains /\ trees \in [DOMAIN trees -> L]
    BY DEF ListsType
<1>2. CASE domain \notin DOMAIN trees
    <2> DEFINE t == [d \in DOMAIN trees \cup {domain} |-> IF d = domain THEN <<cookie>> ELSE trees[d]]
    <2>1. AddCookie(trees, domain, cookie) = t
        BY <1>2 DEF AddCookie
    <2>2. <<cookie>> \in L /\ Range(<<cookie>>) = {cookie}
        BY DEF Range
    <2>3. ListsType(t)
        BY <1>1, <2>2 DEF ListsType
    <2>4. \A d \in DOMAIN t : Range(t[d]) \subseteq From(d) \cup New(d)
        BY <1>1, <1>2, <2>2
    <2> QED
        BY <2>1, <2>3, <2>4
<1>3. CASE domain \in DOMAIN trees
    <2> DEFINE found == Matches(cookies, cookie)
               i == CHOOSE n \in found : \A k \in found : n <= k
    <2>1. cookies \in L /\ Len(cookies) \in Nat /\ DOMAIN cookies = 1 .. Len(cookies)
        BY <1>1, <1>3
    <2>2. found # {} => i \in 1 .. Len(cookies)
        <3> SUFFICES ASSUME found # {} PROVE i \in 1 .. Len(cookies)
            OBVIOUS
        <3>1. found \subseteq 1 .. Len(cookies)
            BY <2>1 DEF Matches
        <3> HIDE DEF found
        <3>2. \E n \in found : \A k \in found : n <= k
            BY <2>1, <3>1, FirstPosition
        <3> QED
            BY <3>1, <3>2
    \* A list that is exchanged for one of its cookies and the new one.
    <2>3. ASSUME NEW s \in L, Range(s) \subseteq Range(cookies) \cup {cookie}
          PROVE  Good([trees EXCEPT ![domain] = s])
        <3> DEFINE t == [trees EXCEPT ![domain] = s]
        <3>1. t = [d \in DOMAIN trees |-> IF d = domain THEN s ELSE trees[d]]
            BY <1>1
        <3> HIDE DEF t
        <3>2. ListsType(t)
            BY <1>1, <2>3, <3>1 DEF ListsType
        <3>3. \A d \in DOMAIN t : Range(t[d]) \subseteq From(d) \cup New(d)
            BY <1>3, <2>3, <3>1
        <3> QED
            BY <3>1, <3>2, <3>3 DEF t
    <2>4. Good(trees)
        OBVIOUS
    <2>5. CASE found # {} /\ Expired(cookie)
        <3>1. AddCookie(trees, domain, cookie) = Cut(trees, domain, i)
            BY <1>3, <2>5 DEF AddCookie
        <3>2. CASE Len(cookies) = 1
            <4> DEFINE t == [d \in DOMAIN trees \ {domain} |-> trees[d]]
            <4>1. Cut(trees, domain, i) = t
                BY <3>2 DEF Cut
            <4>2. ListsType(t) /\ \A d \in DOMAIN t : Range(t[d]) \subseteq From(d) \cup New(d)
                BY <1>1 DEF ListsType
            <4> QED
                BY <3>1, <4>1, <4>2
        <3>3. CASE Len(cookies) # 1
            <4>1. Cut(trees, domain, i) = [trees EXCEPT ![domain] = Lists!RemoveAt(cookies, i)]
                BY <3>3 DEF Cut
            <4> HIDE DEF found, i
            <4>2. /\ Lists!RemoveAt(cookies, i) \in L
                  /\ Range(Lists!RemoveAt(cookies, i)) \subseteq Range(cookies)
                BY <2>1, <2>2, <2>5, <3>3, RemoveAtKeeps
            <4>3. Good([trees EXCEPT ![domain] = Lists!RemoveAt(cookies, i)])
                BY <2>3, <4>2
            <4> QED
                BY <3>1, <4>1, <4>3
        <3> QED
            BY <3>2, <3>3
    <2>6. CASE found # {} /\ ~Expired(cookie)
        <3>1. AddCookie(trees, domain, cookie) = [trees EXCEPT ![domain][i] = cookie]
            BY <1>3, <2>6 DEF AddCookie
        <3> HIDE DEF found, i
        <3> DEFINE s == [cookies EXCEPT ![i] = cookie]
        <3>2. s \in Seq(Cookie) /\ Len(s) = Len(cookies) /\ DOMAIN s = DOMAIN cookies
              /\ \A n \in DOMAIN s : s[n] = cookie \/ s[n] = cookies[n]
            BY <2>1, <2>2, <2>6
        <3>3. s # <<>>
            BY <2>1, <3>2
        <3>4. Range(s) \subseteq Range(cookies) \cup {cookie}
            BY <3>2 DEF Range
        <3>5. [trees EXCEPT ![domain][i] = cookie] = [trees EXCEPT ![domain] = s]
            OBVIOUS
        <3> HIDE DEF s
        <3> QED
            BY <2>3, <3>1, <3>2, <3>3, <3>4, <3>5
    <2>7. CASE found = {} /\ Expired(cookie)
        <3>1. AddCookie(trees, domain, cookie) = trees
            BY <1>3, <2>7 DEF AddCookie
        <3> QED
            BY <2>4, <3>1
    <2>8. CASE found = {} /\ ~Expired(cookie)
        <3>1. AddCookie(trees, domain, cookie) = [trees EXCEPT ![domain] = Append(cookies, cookie)]
            BY <1>3, <2>8 DEF AddCookie
        <3> DEFINE s == Append(cookies, cookie)
        <3>2. s \in L /\ Range(s) \subseteq Range(cookies) \cup {cookie}
            <4>1. s \in Seq(Cookie) /\ Len(s) = Len(cookies) + 1
                  /\ \A n \in 1 .. Len(s) : s[n] = cookie \/ (n \in 1 .. Len(cookies) /\ s[n] = cookies[n])
                BY <2>1
            <4> HIDE DEF s
            <4>2. s # <<>> /\ DOMAIN s = 1 .. Len(s)
                BY <2>1, <4>1
            <4>3. Range(s) \subseteq Range(cookies) \cup {cookie}
                BY <2>1, <4>1, <4>2 DEF Range
            <4> QED
                BY <4>1, <4>2, <4>3
        <3>3. Good([trees EXCEPT ![domain] = s])
            <4> HIDE DEF s
            <4> QED
                BY <2>3, <3>2
        <3> QED
            BY <3>1, <3>3
    <2> QED
        BY <2>5, <2>6, <2>7, <2>8
<1> QED
    BY <1>2, <1>3

-----------------------------------------------------------------------------
(* The file. *)

Dated(cookie) == cookie.expires # 0

\* What is written of a list are its cookies that have an expiry date.
LEMMA KeptIsDated ==
    ASSUME NEW cookies \in Seq(Cookie)
    PROVE  /\ Kept(cookies) \in Seq(Cookie)
           /\ Kept(cookies) # <<>> <=> \E c \in Range(cookies) : Dated(c)
<1> DEFINE X == {cookie \in Cookie : cookie.expires = 0}
<1>1. Kept(cookies) = Without(cookies, X)
    BY DEF Kept
<1> HIDE DEF X
<1>2. /\ Without(cookies, X) \in Seq(Cookie)
      /\ Without(cookies, X) # <<>> <=> \E i \in 1 .. Len(cookies) : cookies[i] \notin X
    BY SomethingLeft
<1>3. (\E i \in 1 .. Len(cookies) : cookies[i] \notin X) <=> \E c \in Range(cookies) : Dated(c)
    BY DEF Range, Dated, X
<1> QED
    BY <1>1, <1>2, <1>3

LEMMA WrittenType ==
    ASSUME NEW trees, ListsType(trees)
    PROVE  /\ ListsType(Written(trees))
           /\ (\A d \in DOMAIN trees : \A c \in Range(trees[d]) : ~Dated(c))
                  => Written(trees) = Nothing
<1>1. \A d \in DOMAIN trees : trees[d] \in Seq(Cookie) /\ d \in Domains
    BY DEF ListsType
<1>2. \A d \in DOMAIN trees : Kept(trees[d]) \in Seq(Cookie)
                              /\ (Kept(trees[d]) # <<>> <=> \E c \in Range(trees[d]) : Dated(c))
    BY <1>1, KeptIsDated
<1> DEFINE S == {x \in DOMAIN trees : Kept(trees[x]) # <<>>}
<1>3. Written(trees) = [d \in S |-> Kept(trees[d])]
    BY DEF Written
<1>4. \A d \in S : Kept(trees[d]) \in Seq(Cookie) \ {<<>>} /\ d \in Domains
    BY <1>1, <1>2
<1>5. ListsType(Written(trees))
    <2> HIDE DEF S
    <2> QED
        BY <1>3, <1>4 DEF ListsType
<1>6. ASSUME \A d \in DOMAIN trees : \A c \in Range(trees[d]) : ~Dated(c)
      PROVE  Written(trees) = Nothing
    <2>1. S = {}
        BY <1>2, <1>6
    <2> HIDE DEF S
    <2> QED
        BY <1>3, <2>1 DEF Nothing
<1> QED
    BY <1>5, <1>6

\* What ReadCookieFile makes of the list of a domain: that domain gets a list
\* of cookies in the file, or none.
LEMMA ReadKeeps ==
    ASSUME ListsType(file), NEW d \in DOMAIN file, Read(d) # Nothing
    PROVE  Read(d)[d] \in Seq(Cookie) \ {<<>>} /\ Range(Read(d)[d]) \subseteq Range(file[d])
<1> DEFINE cookies == file[d]
           N == Len(cookies)
           L == Seq(Cookie) \ {<<>>}
           S == {t \in {Nothing} \cup [{d} -> L] :
                     \A x \in DOMAIN t : Range(t[x]) \subseteq Range(cookies)}
           g == [p \in S \X (1 .. N) |-> AddCookie(p[1], d, cookies[p[2]])]
           D(r) == [i \in 0 .. N |-> IF i = 0 THEN Nothing ELSE AddCookie(r[i - 1], d, cookies[i])]
           Q(r) == r = D(r)
<1>1. cookies \in Seq(Cookie) /\ d \in Domains /\ N \in Nat /\ DOMAIN cookies = 1 .. N
    BY DEF ListsType
<1> HIDE DEF cookies
<1>2. Nothing \in S
    BY DEF Nothing
<1>3. ASSUME NEW t \in S, NEW i \in 1 .. N PROVE AddCookie(t, d, cookies[i]) \in S
    <2> DEFINE u == AddCookie(t, d, cookies[i])
    <2>1. cookies[i] \in Cookie /\ cookies[i] \in Range(cookies)
        BY <1>1 DEF Range
    <2>2. ListsType(t) /\ DOMAIN t \subseteq {d}
        <3>1. CASE t = Nothing
            BY <3>1 DEF Nothing, ListsType
        <3>2. CASE t \in [{d} -> L]
            BY <1>1, <3>2 DEF ListsType
        <3> QED
            BY <3>1, <3>2
    <2>3. /\ ListsType(u)
          /\ DOMAIN u \subseteq DOMAIN t \cup {d}
          /\ \A x \in DOMAIN u :
               Range(u[x]) \subseteq (IF x \in DOMAIN t THEN Range(t[x]) ELSE {})
                                         \cup (IF x = d THEN {cookies[i]} ELSE {})
        BY <1>1, <2>1, <2>2, AddCookieKeeps
    <2> HIDE DEF u
    <2>4. \A x \in DOMAIN u : Range(u[x]) \subseteq Range(cookies)
        BY <2>1, <2>3
    <2>5. u = Nothing \/ u \in [{d} -> L]
        <3>1. DOMAIN u = {} \/ DOMAIN u = {d}
            BY <2>2, <2>3
        <3>2. CASE DOMAIN u = {}
            BY <2>3, <3>2 DEF ListsType, Nothing
        <3>3. CASE DOMAIN u = {d}
            BY <2>3, <3>3 DEF ListsType
        <3> QED
            BY <3>1, <3>2, <3>3
    <2> QED
        BY <2>4, <2>5 DEF u
<1> HIDE DEF S
<1>4. g \in [S \X (1 .. N) -> S]
    BY <1>3
<1> HIDE DEF g
<1>5. PICK f \in Foldings(N, S, Nothing, g) : TRUE
    BY <1>1, <1>2, <1>4, FoldIsDefined
<1>6. f \in [0 .. N -> S] /\ f[0] = Nothing /\ \A i \in 1 .. N : f[i] = g[<<f[i - 1], i>>]
    BY <1>5 DEF Foldings
<1>7. Q(f)
    <2>1. ASSUME NEW i \in 1 .. N PROVE f[i] = AddCookie(f[i - 1], d, cookies[i])
        <3>1. <<f[i - 1], i>> \in S \X (1 .. N)
            BY <1>6
        <3> QED
            BY <1>6, <3>1 DEF g
    <2> QED
        BY <1>6, <2>1
<1> DEFINE r == CHOOSE r : Q(r)
<1>8. Q(r)
    <2>1. \E q : Q(q)
        BY <1>7
    <2> HIDE DEF Q
    <2> QED
        BY <2>1
<1>9. Read(d) = r[N]
    BY DEF Read, cookies
<1> HIDE DEF r
<1>10. \A i \in 0 .. N : r[i] \in S
    <2> DEFINE T == {i \in 0 .. N : r[i] \in S}
    <2>1. 0 \in T
        BY <1>1, <1>2, <1>8
    <2>2. ASSUME NEW i \in 1 .. N, i - 1 \in T PROVE i \in T
        <3>1. r[i] = AddCookie(r[i - 1], d, cookies[i]) /\ r[i - 1] \in S /\ i \in 0 .. N
            BY <1>8, <2>2
        <3> QED
            BY <1>3, <3>1
    <2> HIDE DEF T
    <2>3. \A i \in 0 .. N : i \in T
        BY <1>1, <2>1, <2>2, InductionUpTo
    <2> QED
        BY <2>3 DEF T
<1>11. Read(d) \in S
    BY <1>1, <1>9, <1>10
<1> QED
    BY <1>11 DEF S, cookies

-----------------------------------------------------------------------------
(* The invariant. *)

LEMMA CookiesInvInit == CookiesInit => CookiesInv
<1> SUFFICES ASSUME CookiesInit PROVE CookiesInv
    OBVIOUS
<1>1. ListsType(Nothing) /\ DOMAIN Nothing = {}
    BY DEF ListsType, Nothing
<1> QED
    BY <1>1 DEF CookiesInit, CookiesInv, CookiesTypeOK, FileIsCurrent, NothingToSave,
       WritesWhatIsUnsaved

\* While m_boolSaved holds, no cookie in memory has a date.
Undated(trees) == \A d \in DOMAIN trees : \A c \in Range(trees[d]) : ~Dated(c)

LEMMA NothingToSaveIsUndated ==
    ASSUME CookiesInv, open, saved
    PROVE  file = Nothing /\ Undated(lists)
BY DEF CookiesInv, NothingToSave, Undated, Range, Dated

LEMMA SetCookieStep ==
    ASSUME CookiesInv, NEW domain \in Domains, NEW cookie \in Cookie, SetCookie(domain, cookie)
    PROVE  CookiesInv'
<1> DEFINE added == AddCookie(lists, domain, cookie)
<1>1. /\ ListsType(lists) /\ ListsType(file) /\ saved \in BOOLEAN /\ now \in Nat
      /\ failed => ~saved
    BY DEF CookiesInv, CookiesTypeOK, WritesWhatIsUnsaved
<1>2. /\ ListsType(added)
      /\ DOMAIN added \subseteq DOMAIN lists \cup {domain}
      /\ \A d \in DOMAIN added :
           Range(added[d]) \subseteq (IF d \in DOMAIN lists THEN Range(lists[d]) ELSE {})
                                         \cup (IF d = domain THEN {cookie} ELSE {})
    BY <1>1, AddCookieKeeps
<1> HIDE DEF added
<1>3. /\ open /\ open' = open /\ now' = now /\ changed' = TRUE /\ file' = file
      /\ writing = "no" /\ leaving' = leaving /\ failed' = failed
      /\ lists' = added /\ saved' = StaysSaved(cookie)
      /\ writing' = IF StaysSaved(cookie) THEN "no" ELSE "opening"
    BY DEF SetCookie, Saves, added
<1>4. ListsType(lists') /\ ListsType(file')
    BY <1>1, <1>2, <1>3 DEF ListsType
<1>5. CookiesTypeOK'
    BY <1>1, <1>3, <1>4 DEF CookiesInv, CookiesTypeOK, StaysSaved, ListsType
<1>6. WritesWhatIsUnsaved'
    BY <1>1, <1>3 DEF CookiesInv, WritesWhatIsUnsaved, StaysSaved
<1>7. CASE StaysSaved(cookie)
    <2>1. saved /\ ~Dated(cookie) /\ file = Nothing /\ Undated(lists)
        BY <1>3, <1>7, NothingToSaveIsUndated DEF StaysSaved, Dated
    <2>2. Undated(added)
        BY <1>2, <2>1 DEF Undated
    <2>3. Written(added) = Nothing /\ file' = Nothing
        BY <1>2, <1>3, <1>7, <2>1, <2>2, WrittenType DEF Undated
    <2>4. FileIsCurrent'
        BY <1>3, <1>7, <2>3 DEF FileIsCurrent, Written, Kept, Cookie
    <2>5. NothingToSave'
        BY <1>3, <2>2, <2>3 DEF NothingToSave, Undated, Dated, Range, Nothing
    <2> QED
        BY <1>5, <1>6, <2>4, <2>5 DEF CookiesInv
<1>8. CASE ~StaysSaved(cookie)
    <2>1. FileIsCurrent' /\ NothingToSave'
        BY <1>3, <1>8 DEF FileIsCurrent, NothingToSave
    <2> QED
        BY <1>5, <1>6, <2>1 DEF CookiesInv
<1> QED
    BY <1>7, <1>8

\* What is left when the memory is gone is any file of cookies.
LEMMA GoneStep ==
    ASSUME CookiesInv, Gone, ListsType(file)', now' = now
    PROVE  CookiesInv'
<1>1. ListsType(Nothing) /\ now \in Nat
    BY DEF ListsType, Nothing, CookiesInv, CookiesTypeOK
<1>2. CookiesTypeOK'
    BY <1>1 DEF Gone, CookiesTypeOK, ListsType, Nothing
<1> QED
    BY <1>2 DEF Gone, CookiesInv, FileIsCurrent, NothingToSave, WritesWhatIsUnsaved

\* A write that returns leaves a file of cookies, and if it has been told that
\* all went well, those in memory.
LEMMA ReturnStep ==
    ASSUME CookiesInv, writing # "no", NEW ok \in BOOLEAN, Returns(ok), ListsType(file)',
           ok => file' = Written(lists), now' = now
    PROVE  CookiesInv'
<1>1. CASE leaving /\ Gone
    BY <1>1, GoneStep
<1>2. CASE ~leaving /\ writing' = "no" /\ failed' = ~ok /\ UNCHANGED memory
    <2>1. UNCHANGED <<lists, saved, open, leaving, changed>>
        BY <1>2 DEF memory
    <2>2. open /\ ~saved /\ ListsType(lists) /\ now \in Nat
        BY DEF CookiesInv, WritesWhatIsUnsaved, CookiesTypeOK
    <2>3. CookiesTypeOK'
        BY <1>2, <2>1, <2>2 DEF CookiesInv, CookiesTypeOK, ListsType
    <2>4. changed
        BY <1>2 DEF CookiesInv, WritesWhatIsUnsaved
    <2>5. Written(lists)' = Written(lists)
        BY <2>1 DEF Written, Kept, Cookie
    <2>6. FileIsCurrent'
        BY <1>2, <2>1, <2>4, <2>5 DEF FileIsCurrent
    <2>7. NothingToSave' /\ WritesWhatIsUnsaved'
        BY <1>2, <2>1, <2>2 DEF NothingToSave, WritesWhatIsUnsaved, CookiesInv
    <2> QED
        BY <2>3, <2>6, <2>7 DEF CookiesInv
<1> QED
    BY <1>1, <1>2 DEF Returns

LEMMA CloseStep ==
    ASSUME CookiesInv, Close
    PROVE  CookiesInv'
<1>1. CASE saved /\ Gone
    <2>1. ListsType(file)'
        BY DEF Close, CookiesInv, CookiesTypeOK, ListsType
    <2> QED
        BY <1>1, <2>1, GoneStep DEF Close
<1>2. CASE ~saved /\ ~Gone
    <2>1. /\ writing' = "opening" /\ leaving' = TRUE /\ open
          /\ UNCHANGED <<lists, saved, open, changed, failed, file, now>>
        BY <1>2 DEF Close
    <2>2. CookiesTypeOK'
        BY <2>1 DEF CookiesInv, CookiesTypeOK, ListsType
    <2>3. FileIsCurrent'
        BY <2>1 DEF FileIsCurrent
    <2>4. NothingToSave' /\ WritesWhatIsUnsaved'
        BY <1>2, <2>1 DEF CookiesInv, NothingToSave, WritesWhatIsUnsaved
    <2> QED
        BY <2>2, <2>3, <2>4 DEF CookiesInv
<1>3. CASE ~saved /\ Gone
    <2>1. ListsType(file)'
        BY DEF Close, CookiesInv, CookiesTypeOK, ListsType
    <2> QED
        BY <1>3, <2>1, GoneStep DEF Close
<1> QED
    BY <1>1, <1>2, <1>3 DEF Close

LEMMA TruncateStep ==
    ASSUME CookiesInv, Truncate
    PROVE  CookiesInv'
<1>1. /\ writing = "opening" /\ writing' = "lines" /\ file' = Nothing
      /\ UNCHANGED <<lists, saved, open, leaving, changed, now, failed>>
    BY DEF Truncate, memory
<1>2. ListsType(Nothing) /\ DOMAIN Nothing = {}
    BY DEF ListsType, Nothing
<1>3. CookiesTypeOK'
    BY <1>1, <1>2 DEF CookiesInv, CookiesTypeOK, ListsType
<1>4. FileIsCurrent'
    BY <1>1, <1>2 DEF FileIsCurrent, IsPart
<1>5. NothingToSave' /\ WritesWhatIsUnsaved'
    BY <1>1 DEF CookiesInv, NothingToSave, WritesWhatIsUnsaved
<1> QED
    BY <1>3, <1>4, <1>5 DEF CookiesInv

\* A line more in the file, whole or not, leaves a file of cookies.
LEMMA ExtendedType ==
    ASSUME ListsType(file), NEW d \in Domains, NEW cookie \in Cookie
    PROVE  LET e == Extended(d, cookie)
           IN  /\ ListsType(e) /\ DOMAIN e = DOMAIN file \cup {d}
               /\ e[d] = Append(Lines(file, d), cookie)
               /\ Lines(file, d) \in Seq(Cookie)
               /\ \A x \in DOMAIN file \ {d} : e[x] = file[x]
<1> DEFINE e == Extended(d, cookie)
           old == Lines(file, d)
<1>1. old \in Seq(Cookie)
    BY DEF Lines, ListsType
<1> HIDE DEF old
<1>2. Append(old, cookie) \in Seq(Cookie) /\ Append(old, cookie) # <<>>
    <2>1. Append(old, cookie) \in Seq(Cookie)
        BY <1>1
    <2>2. Len(Append(old, cookie)) = Len(old) + 1 /\ Len(old) \in Nat /\ Len(<<>>) = 0
        BY <1>1
    <2> QED
        BY <2>1, <2>2
<1>3. /\ DOMAIN e = DOMAIN file \cup {d}
      /\ \A x \in DOMAIN e : e[x] = IF x = d THEN Append(old, cookie) ELSE file[x]
      /\ e = [x \in DOMAIN e |-> e[x]]
    BY DEF Extended, old
<1> HIDE DEF e
<1>4. ListsType(e)
    BY <1>2, <1>3 DEF ListsType
<1> QED
    BY <1>1, <1>3, <1>4 DEF e, old

LEMMA WriteLineStep ==
    ASSUME CookiesInv, NEW d \in Domains, WriteLine(d)
    PROVE  CookiesInv'
<1>1. PICK cookie \in Cookie : IsNextLine(d, cookie) /\ file' = Extended(d, cookie)
    BY DEF WriteLine
<1>2. UNCHANGED <<lists, saved, open, leaving, changed, now, writing, failed>>
    BY DEF WriteLine, memory
<1>3. ListsType(file) /\ ListsType(lists)
    BY DEF CookiesInv, CookiesTypeOK
<1> DEFINE goal == Written(lists)
           old == Lines(file, d)
<1>4. /\ ListsType(file') /\ DOMAIN file' = DOMAIN file \cup {d}
      /\ file'[d] = Append(old, cookie) /\ old \in Seq(Cookie)
      /\ \A x \in DOMAIN file \ {d} : file'[x] = file[x]
    BY <1>1, <1>3, ExtendedType
<1>5. CookiesTypeOK'
    BY <1>2, <1>4 DEF CookiesInv, CookiesTypeOK, ListsType
<1>6. /\ writing = "lines" /\ d \in DOMAIN goal
      /\ Len(old) < Len(goal[d]) /\ cookie = goal[d][Len(old) + 1]
    BY <1>1 DEF IsNextLine
<1>7. IsPart(file, goal)
    BY <1>6 DEF CookiesInv, FileIsCurrent
<1>8. ListsType(goal)
    BY <1>3, WrittenType
<1>9. Written(lists)' = goal
    BY <1>2 DEF Written, Kept, Cookie
<1> HIDE DEF goal
<1>10. goal[d] \in Seq(Cookie)
    BY <1>6, <1>8 DEF ListsType
<1>11. \A i \in 1 .. Len(old) : old[i] = goal[d][i]
    BY <1>7 DEF IsPart, Lines
<1> HIDE DEF old
<1>12. /\ Len(file'[d]) <= Len(goal[d])
       /\ \A i \in 1 .. Len(file'[d]) : file'[d][i] = goal[d][i]
    <2>1. /\ Len(file'[d]) = Len(old) + 1
          /\ \A i \in 1 .. Len(old) : file'[d][i] = old[i]
          /\ file'[d][Len(old) + 1] = cookie
        BY <1>4
    <2>2. Len(old) \in Nat /\ Len(goal[d]) \in Nat
        BY <1>4, <1>10
    <2> QED
        BY <1>6, <1>11, <2>1, <2>2
<1>13. IsPart(file', goal)
    BY <1>4, <1>6, <1>7, <1>12 DEF IsPart
<1>14. FileIsCurrent'
    BY <1>2, <1>6, <1>9, <1>13 DEF FileIsCurrent, IsPart
<1>15. NothingToSave' /\ WritesWhatIsUnsaved'
    BY <1>2, <1>6 DEF CookiesInv, NothingToSave, WritesWhatIsUnsaved
<1> QED
    BY <1>5, <1>14, <1>15 DEF CookiesInv

\* When every line has been written the file is what was to be written.
LEMMA LastLineStep ==
    ASSUME CookiesInv, LastLine
    PROVE  CookiesInv'
<1> DEFINE goal == Written(lists)
<1>1. /\ writing = "lines" /\ Returns(TRUE) /\ file' = file /\ now' = now
      /\ \A d \in DOMAIN goal : Len(Lines(file, d)) = Len(goal[d])
    BY DEF LastLine
<1>2. IsPart(file, goal)
    BY <1>1 DEF CookiesInv, FileIsCurrent
<1>3. ListsType(file) /\ ListsType(lists)
    BY DEF CookiesInv, CookiesTypeOK
<1>4. ListsType(goal)
    BY <1>3, WrittenType
<1> HIDE DEF goal
<1>5. DOMAIN file = DOMAIN goal
    <2> SUFFICES ASSUME NEW d \in DOMAIN goal, d \notin DOMAIN file PROVE FALSE
        BY <1>2 DEF IsPart
    <2>1. Len(goal[d]) = Len(<<>>)
        BY <1>1 DEF Lines
    <2>2. goal[d] \in Seq(Cookie) /\ goal[d] # <<>>
        BY <1>4 DEF ListsType
    <2> QED
        BY <2>1, <2>2
<1>6. ASSUME NEW d \in DOMAIN goal PROVE file[d] = goal[d]
    <2>1. file[d] \in Seq(Cookie) /\ goal[d] \in Seq(Cookie)
        BY <1>3, <1>4, <1>5 DEF ListsType
    <2>2. Len(file[d]) = Len(goal[d]) /\ \A i \in 1 .. Len(file[d]) : file[d][i] = goal[d][i]
        BY <1>1, <1>2, <1>5 DEF IsPart, Lines
    <2> QED
        BY <2>1, <2>2
<1>7. file = goal
    BY <1>3, <1>4, <1>5, <1>6 DEF ListsType
<1>8. ListsType(file)'
    BY <1>1, <1>3 DEF ListsType
<1> QED
    BY <1>1, <1>7, <1>8, ReturnStep DEF goal

LEMMA TornType ==
    ASSUME ListsType(file), Torn
    PROVE  ListsType(file)'
<1>1. CASE UNCHANGED file
    BY <1>1 DEF ListsType
<1>2. CASE ~UNCHANGED file
    <2>1. PICK d \in Domains, cookie \in Cookie, names \in NameLists :
              file' = Extended(d, [cookie EXCEPT !.names = names])
        BY <1>2 DEF Torn
    <2>2. [cookie EXCEPT !.names = names] \in Cookie
        BY DEF Cookie
    <2> QED
        BY <2>1, <2>2, ExtendedType DEF ListsType
<1> QED
    BY <1>1, <1>2

LEMMA LossStep ==
    ASSUME CookiesInv, OpenFails \/ DiskFull \/ Crash
    PROVE  CookiesInv'
<1>1. ListsType(file)
    BY DEF CookiesInv, CookiesTypeOK
<1>2. CASE OpenFails
    <2>1. ListsType(file)'
        BY <1>1, <1>2 DEF OpenFails, ListsType
    <2> QED
        BY <1>2, <2>1, ReturnStep DEF OpenFails
<1>3. CASE DiskFull
    BY <1>1, <1>3, TornType, ReturnStep DEF DiskFull
<1>4. CASE Crash
    BY <1>1, <1>4, TornType, GoneStep DEF Crash
<1> QED
    BY <1>2, <1>3, <1>4

LEMMA StartStep ==
    ASSUME CookiesInv, Start
    PROVE  CookiesInv'
<1>1. ListsType(file) /\ now \in Nat /\ changed \in BOOLEAN
    BY DEF CookiesInv, CookiesTypeOK
<1> DEFINE S == {x \in DOMAIN file : Read(x) # Nothing}
           new == [d \in S |-> Read(d)[d]]
<1>2. /\ open' = TRUE /\ lists' = new /\ saved' = (file = Nothing)
      /\ UNCHANGED <<file, now, writing, leaving, changed, failed>>
    BY DEF Start
<1>3. \A d \in S : Read(d)[d] \in Seq(Cookie) \ {<<>>} /\ Range(Read(d)[d]) \subseteq Range(file[d])
    BY <1>1, ReadKeeps
<1>4. ListsType(new)
    BY <1>1, <1>3 DEF ListsType
<1> HIDE DEF new
<1>5. DOMAIN new \subseteq DOMAIN file /\ \A d \in DOMAIN new : Range(new[d]) \subseteq Range(file[d])
    BY <1>3 DEF new
<1>6. ~open /\ ~changed /\ writing = "no" /\ leaving \in BOOLEAN /\ failed \in BOOLEAN
    BY DEF Start, CookiesInv, WritesWhatIsUnsaved, CookiesTypeOK
<1>7. CookiesTypeOK'
    BY <1>1, <1>2, <1>4, <1>6 DEF CookiesTypeOK, ListsType
<1>8. FileIsCurrent'
    BY <1>2, <1>5, <1>6 DEF FileIsCurrent, Range
<1>9. NothingToSave'
    <2>1. file = Nothing => DOMAIN new = {}
        BY <1>5 DEF Nothing
    <2> QED
        BY <1>2, <2>1 DEF NothingToSave, Nothing
<1>10. ~failed /\ ~leaving
    BY <1>6 DEF CookiesInv, WritesWhatIsUnsaved
<1>11. WritesWhatIsUnsaved'
    BY <1>2, <1>6, <1>10 DEF WritesWhatIsUnsaved
<1> QED
    BY <1>7, <1>8, <1>9, <1>11 DEF CookiesInv

LEMMA TickStep ==
    ASSUME CookiesInv, UNCHANGED <<memory, file, writing, failed>>, now' \in Nat
    PROVE  CookiesInv'
<1>1. UNCHANGED <<lists, saved, open, leaving, changed, file, writing, failed>>
    BY DEF memory
<1>2. CookiesTypeOK'
    BY <1>1 DEF CookiesInv, CookiesTypeOK, ListsType, Cookie
<1>3. Written(lists)' = Written(lists)
    BY <1>1 DEF Written, Kept, Cookie
<1>4. FileIsCurrent'
    <2>1. CASE writing = "lines"
        BY <1>1, <1>3, <2>1 DEF CookiesInv, FileIsCurrent, IsPart
    <2>2. CASE writing # "lines" /\ changed
        BY <1>1, <1>3, <2>2 DEF CookiesInv, FileIsCurrent
    <2>3. CASE writing # "lines" /\ ~changed
        BY <1>1, <2>3 DEF CookiesInv, FileIsCurrent
    <2> QED
        BY <2>1, <2>2, <2>3
<1>5. NothingToSave' /\ WritesWhatIsUnsaved'
    BY <1>1 DEF CookiesInv, NothingToSave, WritesWhatIsUnsaved, Nothing
<1> QED
    BY <1>2, <1>4, <1>5 DEF CookiesInv

LEMMA CookiesInvStep == CookiesInv /\ [CookiesNext]_cookieVars => CookiesInv'
<1> SUFFICES ASSUME CookiesInv, [CookiesNext]_cookieVars PROVE CookiesInv'
    OBVIOUS
<1>1. CASE \E domain \in Domains, cookie \in Cookie : SetCookie(domain, cookie)
    BY <1>1, SetCookieStep
<1>2. CASE Truncate
    BY <1>2, TruncateStep
<1>3. CASE \E d \in Domains : WriteLine(d)
    BY <1>3, WriteLineStep
<1>4. CASE LastLine
    BY <1>4, LastLineStep
<1>5. CASE OpenFails \/ DiskFull \/ Crash
    BY <1>5, LossStep
<1>6. CASE Close
    BY <1>6, CloseStep
<1>7. CASE Start
    BY <1>7, StartStep
<1>8. now \in Nat
    BY DEF CookiesInv, CookiesTypeOK
<1>9. CASE Tick
    BY <1>8, <1>9, TickStep DEF Tick
<1>10. CASE UNCHANGED cookieVars
    BY <1>8, <1>10, TickStep DEF cookieVars
<1> QED
    BY <1>1, <1>2, <1>3, <1>4, <1>5, <1>6, <1>7, <1>9, <1>10 DEF CookiesNext

-----------------------------------------------------------------------------
(* The results. *)

\* The lists keep their types, and while m_boolSaved holds (AddCookie) nothing
\* in memory or in the file has a date, through crashes and restarts.
THEOREM CookiesInvariant == CookiesSpec => []CookiesInv
<1> QED
    BY CookiesInvInit, CookiesInvStep, PTL DEF CookiesSpec

\* Between two writes, from the first Set-Cookie header on, the file holds
\* exactly the cookies in memory that have an expiry date, also after writes
\* that failed, so a crash then loses none and brings none back; a write that
\* is cut leaves whole lines of what it was to write (WriteCookieFile writes
\* the file anew and ProcessHeaders calls it only if m_boolSaved is not set).
THEOREM FileStaysCurrent == CookiesSpec => []FileIsCurrent
<1>1. CookiesInv => FileIsCurrent
    BY DEF CookiesInv
<1> QED
    BY <1>1, CookiesInvariant, PTL

-----------------------------------------------------------------------------
(* The parts together. *)

\* Every part keeps the types of its variables, in the inductive invariant
\* that its own code keeps, whichever part moves.
THEOREM ClientTypes == Spec => []TypeOK
<1>1. Init => TypeOK
    BY HistoryInvInit, ModulesInvInit, CookiesInvInit DEF Init, TypeOK
<1>2. TypeOK /\ [Next]_vars => TypeOK'
    <2> SUFFICES ASSUME TypeOK, [Next]_vars PROVE TypeOK'
        OBVIOUS
    <2>1. /\ [HistoryNext]_historyVars
          /\ [ModulesNext]_moduleVars
          /\ [CookiesNext]_cookieVars
        BY DEF Next, vars
    <2>2. HistoryInv'
        BY <2>1, HistoryInvStep DEF TypeOK
    <2>3. ModulesInv'
        BY <2>1, ModulesInvStep DEF TypeOK
    <2>4. CookiesInv'
        BY <2>1, CookiesInvStep DEF TypeOK
    <2> QED
        BY <2>2, <2>3, <2>4 DEF TypeOK
<1> QED
    BY <1>1, <1>2, PTL DEF Spec
=============================================================================
