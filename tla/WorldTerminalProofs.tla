------------------------- MODULE WorldTerminalProofs -------------------------
(* Proofs of what WorldTerminal promises of the text, of the echo and of what  *)
(* is typed, for streams of any length, cut into packets anywhere.             *)
EXTENDS WorldTerminalInv, ListProofs

-----------------------------------------------------------------------------
(* Lists. *)

LEMMA CountType ==
    ASSUME NEW S, NEW s \in Seq(S), NEW item
    PROVE  /\ IsFiniteSet({i \in DOMAIN s : s[i] = item})
           /\ Count(s, item) \in Nat
           /\ (\A i \in DOMAIN s : s[i] # item) => Count(s, item) = 0
<1>1. DOMAIN s = 1 .. Len(s) /\ Len(s) \in Nat
    OBVIOUS
<1>2. IsFiniteSet(1 .. Len(s))
    BY <1>1, FS_Interval
<1>3. {i \in DOMAIN s : s[i] = item} \in SUBSET (1 .. Len(s))
    BY <1>1
<1>4. IsFiniteSet({i \in DOMAIN s : s[i] = item})
    BY <1>2, <1>3, FS_Subset
<1>5. (\A i \in DOMAIN s : s[i] # item) => {i \in DOMAIN s : s[i] = item} = {}
    OBVIOUS
<1> QED
    BY <1>4, <1>5, FS_CardinalityType, FS_EmptySet DEF Count

LEMMA CountAppend ==
    ASSUME NEW S, NEW s \in Seq(S), NEW x \in S, NEW item
    PROVE  Count(Append(s, x), item) = Count(s, item) + (IF x = item THEN 1 ELSE 0)
<1> DEFINE t == Append(s, x)
           P == {i \in DOMAIN s : s[i] = item}
           Q == {i \in DOMAIN t : t[i] = item}
           N == Len(s)
<1>1. N \in Nat /\ DOMAIN s = 1 .. N /\ DOMAIN t = 1 .. N + 1 /\ t[N + 1] = x
      /\ \A i \in 1 .. N : t[i] = s[i]
    OBVIOUS
<1>2. IsFiniteSet(P) /\ Cardinality(P) \in Nat
    BY CountType DEF Count
<1>3. CASE x = item
    <2>1. Q = P \cup {N + 1} /\ N + 1 \notin P
        BY <1>1, <1>3
    <2> HIDE DEF P, Q
    <2>2. Cardinality(Q) = Cardinality(P) + 1
        BY <1>2, <2>1, FS_AddElement
    <2> QED
        BY <1>3, <2>2 DEF Count, P, Q
<1>4. CASE x # item
    <2>1. Q = P
        BY <1>1, <1>4
    <2>2. Count(t, item) = Count(s, item)
        BY <2>1 DEF Count
    <2>3. Count(s, item) \in Nat
        BY CountType
    <2> HIDE DEF P, Q
    <2> QED
        BY <1>4, <2>2, <2>3
<1> QED
    BY <1>3, <1>4

LEMMA CountConcat ==
    ASSUME NEW S, NEW s \in Seq(S), NEW item
    PROVE  \A t \in Seq(S) : Count(s \o t, item) = Count(s, item) + Count(t, item)
<1> DEFINE T == {n \in Nat : \A t \in Seq(S) : Len(t) = n =>
                     Count(s \o t, item) = Count(s, item) + Count(t, item)}
<1>1. 0 \in T
    <2> SUFFICES ASSUME NEW t \in Seq(S), Len(t) = 0
                 PROVE  Count(s \o t, item) = Count(s, item) + Count(t, item)
        OBVIOUS
    <2>1. t = <<>> /\ s \o t = s
        OBVIOUS
    <2>2. Count(t, item) = 0
        <3>1. DOMAIN t = {}
            BY <2>1
        <3> QED
            BY <3>1, CountType
    <2>3. Count(s, item) \in Nat
        BY CountType
    <2> QED
        BY <2>1, <2>2, <2>3
<1>2. ASSUME NEW n \in Nat, n \in T PROVE n + 1 \in T
    <2> SUFFICES ASSUME NEW t \in Seq(S), Len(t) = n + 1
                 PROVE  Count(s \o t, item) = Count(s, item) + Count(t, item)
        OBVIOUS
    <2> DEFINE u == SubSeq(t, 1, n)
               x == t[n + 1]
               v == s \o u
    <2>1. u \in Seq(S) /\ Len(u) = n /\ x \in S /\ t = Append(u, x)
        OBVIOUS
    <2> HIDE DEF u, x
    <2>2. v \in Seq(S) /\ s \o t = Append(v, x)
        BY <2>1
    <2>3. Count(v, item) = Count(s, item) + Count(u, item)
        BY <1>2, <2>1
    <2> HIDE DEF v
    <2>4. Count(Append(v, x), item) = Count(v, item) + (IF x = item THEN 1 ELSE 0)
        BY <2>1, <2>2, CountAppend
    <2>5. Count(Append(u, x), item) = Count(u, item) + (IF x = item THEN 1 ELSE 0)
        BY <2>1, CountAppend
    <2>6. Count(s, item) \in Nat /\ Count(u, item) \in Nat
        BY <2>1, CountType
    <2> QED
        BY <2>1, <2>2, <2>3, <2>4, <2>5, <2>6
<1> HIDE DEF T
<1>3. \A n \in Nat : n \in T
    BY <1>1, <1>2, Induction
<1> QED
    BY <1>3 DEF T

\* The lines one after the other.
LEMMA FlattenSteps ==
    ASSUME NEW S, NEW ls \in Seq(Seq(S)), ls # <<>>
    PROVE  \E f \in [1 .. Len(ls) -> Seq(S)] :
               /\ f[1] = ls[1] /\ \A i \in 2 .. Len(ls) : f[i] = f[i - 1] \o ls[i]
               /\ FlattenSeq(ls) = f[Len(ls)]
<1> DEFINE N == Len(ls)
           D(f) == [i \in 1 .. N |-> IF i = 1 THEN ls[i] ELSE f[i - 1] \o ls[i]]
           Q(f) == f = D(f)
           g == [p \in Seq(S) \X (1 .. N) |-> p[1] \o ls[p[2]]]
<1>1. N \in Nat /\ N # 0
    OBVIOUS
<1>2. g \in [Seq(S) \X (1 .. N) -> Seq(S)]
    OBVIOUS
<1>3. PICK h \in [0 .. N -> Seq(S)] : h[0] = <<>> /\ \A i \in 1 .. N : h[i] = g[<<h[i - 1], i>>]
    <2> DEFINE L == Seq(S)
               e == <<>>
    <2>1. e \in L /\ N \in Nat /\ g \in [L \X (1 .. N) -> L]
        BY <1>1, <1>2
    <2> HIDE DEF g, L, e, N
    <2>2. Foldings(N, L, e, g) # {}
        BY <2>1, FoldIsDefined
    <2> QED
        BY <2>2 DEF L, e, Foldings
<1>4. \A i \in 1 .. N : h[i - 1] \in Seq(S) /\ h[i] = h[i - 1] \o ls[i]
    <2> TAKE i \in 1 .. N
    <2>1. i - 1 \in 0 .. N
        OBVIOUS
    <2> QED
        BY <1>3, <2>1
<1> HIDE DEF g
<1> DEFINE k == [i \in 1 .. N |-> h[i]]
<1>5. k \in [1 .. N -> Seq(S)] /\ Q(k)
    <2>1. h[1] = ls[1]
        <3>1. 1 \in 1 .. N /\ 1 - 1 = 0 /\ ls[1] \in Seq(S)
            BY <1>1
        <3>2. h[1] = <<>> \o ls[1]
            BY <1>3, <1>4, <3>1
        <3> QED
            BY <3>1, <3>2
    <2>2. ASSUME NEW i \in 1 .. N PROVE k[i] = D(k)[i]
        <3>1. CASE i = 1
            BY <2>1, <3>1
        <3>2. CASE i # 1
            <4>1. i - 1 \in 1 .. N
                BY <3>2
            <4> QED
                BY <1>4, <3>2, <4>1
        <3> QED
            BY <3>1, <3>2
    <2> QED
        BY <2>2
<1> HIDE DEF k
<1> DEFINE f == CHOOSE f : Q(f)
<1>6. Q(f)
    BY <1>5, Zenon
<1>7. FlattenSeq(ls) = f[N]
    BY <1>1 DEF FlattenSeq
<1> HIDE DEF f
<1>8. \A i \in 1 .. N : f[i] = IF i = 1 THEN ls[i] ELSE f[i - 1] \o ls[i]
    BY <1>6
<1>9. DOMAIN f = 1 .. N /\ f = [i \in 1 .. N |-> f[i]]
    BY <1>6
<1>11. 1 \in 1 .. N /\ \A i \in 2 .. N : i \in 1 .. N /\ i # 1 /\ i - 1 \in 1 .. N
    BY <1>1
<1>12. f[1] = ls[1] /\ \A i \in 2 .. N : f[i] = f[i - 1] \o ls[i]
    BY <1>8, <1>11
<1>10. \A i \in 1 .. N : f[i] \in Seq(S)
    <2> DEFINE T == {i \in Nat : i = 0 \/ f[i] \in Seq(S)}
    <2>1. 0 \in T
        OBVIOUS
    <2>2. ASSUME NEW i \in 1 .. N, i - 1 \in T PROVE i \in T
        <3>1. CASE i = 1
            <4>1. ls[1] \in Seq(S)
                BY <1>1
            <4> QED
                BY <1>12, <3>1, <4>1
        <3>2. CASE i # 1
            <4>1. f[i - 1] \in Seq(S) /\ i \in 2 .. N /\ ls[i] \in Seq(S)
                BY <2>2, <3>2
            <4>2. f[i] = f[i - 1] \o ls[i]
                BY <1>12, <4>1
            <4>3. f[i] \in Seq(S)
                BY <4>1, <4>2
            <4> QED
                BY <4>3
        <3> QED
            BY <3>1, <3>2
    <2> HIDE DEF T
    <2>3. \A i \in 0 .. N : i \in T
        BY <1>1, <2>1, <2>2, InductionUpTo
    <2> QED
        BY <2>3 DEF T
<1> QED
    BY <1>7, <1>9, <1>10, <1>12

LEMMA FlattenAppend ==
    ASSUME NEW S, NEW ls \in Seq(Seq(S)), NEW l \in Seq(S)
    PROVE  /\ FlattenSeq(ls) \in Seq(S)
           /\ FlattenSeq(Append(ls, l)) = FlattenSeq(ls) \o l
<1> DEFINE N == Len(ls)
           ms == Append(ls, l)
<1>1. N \in Nat /\ ms \in Seq(Seq(S)) /\ ms # <<>> /\ Len(ms) = N + 1 /\ ms[N + 1] = l
      /\ \A i \in 1 .. N : ms[i] = ls[i]
    BY AppendProperties
<1> HIDE DEF ms
<1>2. PICK g \in [1 .. N + 1 -> Seq(S)] :
          /\ g[1] = ms[1] /\ \A i \in 2 .. N + 1 : g[i] = g[i - 1] \o ms[i]
          /\ FlattenSeq(ms) = g[N + 1]
    <2>1. PICK g \in [1 .. Len(ms) -> Seq(S)] :
              /\ g[1] = ms[1] /\ \A i \in 2 .. Len(ms) : g[i] = g[i - 1] \o ms[i]
              /\ FlattenSeq(ms) = g[Len(ms)]
        BY <1>1, FlattenSteps
    <2> QED
        BY <1>1, <2>1
<1>3. CASE ls = <<>>
    <2>1. FlattenSeq(ls) = <<>>
        BY <1>3 DEF FlattenSeq
    <2>2. FlattenSeq(ms) = l /\ <<>> \in Seq(S)
        BY <1>1, <1>2, <1>3
    <2> QED
        BY <2>1, <2>2 DEF ms
<1>4. CASE ls # <<>>
    <2>1. PICK f \in [1 .. N -> Seq(S)] :
              /\ f[1] = ls[1] /\ \A i \in 2 .. N : f[i] = f[i - 1] \o ls[i]
              /\ FlattenSeq(ls) = f[N]
        BY <1>4, FlattenSteps
    <2>2. N >= 1
        BY <1>1, <1>4
    <2> DEFINE T == {i \in Nat : i = 0 \/ f[i] = g[i]}
    <2>3. 0 \in T
        OBVIOUS
    <2>4. ASSUME NEW i \in 1 .. N, i - 1 \in T PROVE i \in T
        <3>1. CASE i = 1
            BY <1>1, <1>2, <2>1, <3>1
        <3>2. CASE i # 1
            <4>1. f[i - 1] = g[i - 1] /\ i \in 2 .. N /\ i \in 2 .. N + 1
                BY <2>4, <3>2
            <4>2. f[i] = f[i - 1] \o ls[i] /\ g[i] = g[i - 1] \o ms[i] /\ ms[i] = ls[i]
                BY <1>1, <1>2, <2>1, <4>1
            <4>3. f[i] = g[i]
                BY <4>1, <4>2
            <4> QED
                BY <4>3
        <3> QED
            BY <3>1, <3>2
    <2> HIDE DEF T
    <2>5. \A i \in 0 .. N : i \in T
        BY <1>1, <2>3, <2>4, InductionUpTo
    <2>6. N \in T
        BY <1>1, <2>5
    <2>7. f[N] = g[N]
        BY <2>2, <2>6 DEF T
    <2>8. N + 1 \in 2 .. N + 1 /\ (N + 1) - 1 = N /\ N \in 1 .. N
        BY <1>1, <2>2
    <2>9. g[N + 1] = g[N] \o ms[N + 1]
        BY <1>2, <2>8
    <2>10. FlattenSeq(ls) \in Seq(S) /\ FlattenSeq(ms) = FlattenSeq(ls) \o l
        BY <1>1, <1>2, <2>1, <2>7, <2>8, <2>9
    <2> QED
        BY <2>10 DEF ms
<1> QED
    BY <1>3, <1>4

LEMMA CountOne ==
    ASSUME NEW S, NEW x \in S, NEW item
    PROVE  Count(<<x>>, item) = IF x = item THEN 1 ELSE 0
<1>1. <<>> \in Seq(S) /\ <<x>> = Append(<<>>, x)
    OBVIOUS
<1>2. DOMAIN <<>> = {}
    OBVIOUS
<1> DEFINE e == <<>>
<1> HIDE DEF e
<1>3. e \in Seq(S) /\ <<x>> = Append(e, x) /\ DOMAIN e = {}
    BY <1>1, <1>2 DEF e
<1>4. Count(e, item) = 0
    BY <1>3, CountType
<1>5. Count(Append(e, x), item) = Count(e, item) + (IF x = item THEN 1 ELSE 0)
    BY <1>3, CountAppend
<1> QED
    BY <1>3, <1>4, <1>5

-----------------------------------------------------------------------------
(* ANSI codes. *)

\* What is written with no newline in it.
Shown == Items \ {"newline"}

LEMMA ItemsAre ==
    /\ Attributes \subseteq Shown
    /\ \A attr \in Attributes : Closing[attr] \in Shown /\ Closing[attr] \notin Attributes
    /\ \A a, b \in Attributes : Closing[a] = Closing[b] => a = b
    /\ {"text", "escape", "IAC", "body"} \subseteq Shown
    /\ \A attr \in Attributes : {attr, Closing[attr]} \cap {"text", "escape", "IAC", "body"} = {}
    /\ Shown \subseteq Items /\ "newline" \notin Shown
BY DEF Shown, Items, Attributes, Closing

\* One for an attribute that is on.
On(ansi, attr) == IF ansi[attr] THEN 1 ELSE 0

\* Tags that are open, less the attributes that are on.
Excess(a, attr) == Count(a.html, attr) - Count(a.html, Closing[attr]) - On(a.ansi, attr)

Written == [ansi : Ansi, html : Seq(Shown)]

LEMMA ExcessType ==
    ASSUME NEW a \in Written, NEW attr \in Attributes
    PROVE  Excess(a, attr) \in Int
<1>1. a.html \in Seq(Shown)
    BY DEF Written
<1>2. Count(a.html, attr) \in Nat /\ Count(a.html, Closing[attr]) \in Nat
    BY <1>1, CountType
<1>3. On(a.ansi, attr) \in Int
    BY DEF On
<1> QED
    BY <1>2, <1>3 DEF Excess

LEMMA AttributeKeeps ==
    ASSUME NEW a \in Written, NEW attr \in Attributes, NEW on \in BOOLEAN
    PROVE  LET b == Attribute(a, attr, on)
           IN  b \in Written /\ \A x \in Attributes : Excess(b, x) = Excess(a, x)
<1> DEFINE b == Attribute(a, attr, on)
           tag == IF on THEN attr ELSE Closing[attr]
<1>1. CASE a.ansi[attr] = on
    BY <1>1 DEF Attribute
<1>2. CASE a.ansi[attr] # on
    <2>1. b = [ansi |-> [a.ansi EXCEPT ![attr] = on], html |-> Append(a.html, tag)]
        BY <1>2 DEF Attribute
    <2>2. a.ansi \in Ansi /\ a.html \in Seq(Shown) /\ a.ansi[attr] \in BOOLEAN
        BY DEF Written, Ansi, Attributes
    <2>3. [a.ansi EXCEPT ![attr] = on] \in Ansi
          /\ \A x \in Attributes : [a.ansi EXCEPT ![attr] = on][x] = IF x = attr THEN on ELSE a.ansi[x]
        BY <2>2 DEF Ansi, Attributes
    <2>4. tag \in Shown
        BY ItemsAre
    <2>5. b \in Written
        BY <2>1, <2>2, <2>3, <2>4 DEF Written
    <2>6. \A item : Count(b.html, item) = Count(a.html, item) + (IF tag = item THEN 1 ELSE 0)
        BY <2>1, <2>2, <2>4, CountAppend
    <2>7. ASSUME NEW x \in Attributes PROVE Excess(b, x) = Excess(a, x)
        <3>1. Count(a.html, x) \in Nat /\ Count(a.html, Closing[x]) \in Nat
            BY <2>2, CountType
        <3>2. b.ansi[x] = IF x = attr THEN on ELSE a.ansi[x]
            BY <2>1, <2>3
        <3>3. Count(b.html, x) = Count(a.html, x) + (IF tag = x THEN 1 ELSE 0)
              /\ Count(b.html, Closing[x]) = Count(a.html, Closing[x]) + (IF tag = Closing[x] THEN 1 ELSE 0)
            BY <2>6
        <3>4. (tag = x) = (on /\ x = attr) /\ (tag = Closing[x]) = (~on /\ x = attr)
            BY ItemsAre
        <3> HIDE DEF b, tag
        <3>5. CASE x = attr
            <4>1. a.ansi[x] = ~on /\ b.ansi[x] = on
                BY <1>2, <2>2, <3>2, <3>5
            <4>2. CASE on
                <5>1. Count(b.html, x) = Count(a.html, x) + 1
                      /\ Count(b.html, Closing[x]) = Count(a.html, Closing[x])
                    BY <3>1, <3>3, <3>4, <3>5, <4>2
                <5>2. On(b.ansi, x) = 1 /\ On(a.ansi, x) = 0
                    BY <4>1, <4>2, Zenon DEF On
                <5> QED
                    BY <3>1, <5>1, <5>2 DEF Excess
            <4>3. CASE ~on
                <5>1. Count(b.html, x) = Count(a.html, x)
                      /\ Count(b.html, Closing[x]) = Count(a.html, Closing[x]) + 1
                    BY <3>1, <3>3, <3>4, <3>5, <4>3
                <5>2. On(b.ansi, x) = 0 /\ On(a.ansi, x) = 1
                    BY <4>1, <4>3, Zenon DEF On
                <5> QED
                    BY <3>1, <5>1, <5>2 DEF Excess
            <4> QED
                BY <4>2, <4>3
        <3>6. CASE x # attr
            BY <3>1, <3>2, <3>3, <3>4, <3>6 DEF Excess, On
        <3> QED
            BY <3>5, <3>6
    <2> QED
        BY <2>5, <2>7
<1> QED
    BY <1>1, <1>2

LEMMA SetColorKeeps ==
    ASSUME NEW a \in Written, NEW ansi \in Ansi,
           \A x \in Attributes : ansi[x] = a.ansi[x]
    PROVE  LET b == SetColor([a EXCEPT !.ansi = ansi])
           IN  b \in Written /\ \A x \in Attributes : Excess(b, x) = Excess(a, x)
<1> DEFINE b == SetColor([a EXCEPT !.ansi = ansi])
           new == Colored(ansi)
           off == IF ansi.color THEN <<"/color">> ELSE <<>>
           on == IF new THEN <<"color">> ELSE <<>>
<1>1. a.html \in Seq(Shown) /\ a.ansi \in Ansi
    BY DEF Written
<1>2. off \in Seq(Shown) /\ on \in Seq(Shown) /\ new \in BOOLEAN
    <2>1. "color" \in Shown /\ "/color" \in Shown
        BY DEF Shown, Items, Attributes, Closing
    <2>2. new \in BOOLEAN
        BY DEF Colored
    <2>3. <<"color">> \in Seq(Shown) /\ <<"/color">> \in Seq(Shown) /\ <<>> \in Seq(Shown)
        BY <2>1
    <2> HIDE DEF new
    <2> QED
        BY <2>2, <2>3
<1>3. b = [ansi |-> [ansi EXCEPT !.color = new], html |-> (a.html \o off) \o on]
    BY DEF SetColor, Written
<1>4. [ansi EXCEPT !.color = new] \in Ansi
      /\ \A x \in Attributes : [ansi EXCEPT !.color = new][x] = IF x = "color" THEN new ELSE ansi[x]
    BY <1>2 DEF Ansi, Attributes
<1>5. a.html \o off \in Seq(Shown)
    BY <1>1, <1>2
<1>6. b \in Written
    <2> DEFINE u == a.html \o off
               v == [ansi EXCEPT !.color = new]
    <2>1. u \in Seq(Shown) /\ v \in Ansi /\ b = [ansi |-> v, html |-> u \o on]
        BY <1>3, <1>4, <1>5
    <2> HIDE DEF u, v, on, b
    <2>2. u \o on \in Seq(Shown)
        BY <1>2, <2>1
    <2> QED
        BY <2>1, <2>2 DEF Written
<1>7. ASSUME NEW item
      PROVE  Count(b.html, item)
                 = Count(a.html, item) + (IF ansi.color /\ item = "/color" THEN 1 ELSE 0)
                                       + (IF new /\ item = "color" THEN 1 ELSE 0)
    <2>1. Count(on, item) = IF new /\ item = "color" THEN 1 ELSE 0
        <3>1. "color" \in Shown /\ <<>> \in Seq(Shown) /\ DOMAIN <<>> = {}
            BY DEF Shown, Items, Attributes
        <3>2. Count(<<"color">>, item) = (IF "color" = item THEN 1 ELSE 0) /\ Count(<<>>, item) = 0
            BY <3>1, CountOne, CountType
        <3> QED
            BY <3>2
    <2>2. Count(off, item) = IF ansi.color /\ item = "/color" THEN 1 ELSE 0
        <3>1. "/color" \in Shown /\ <<>> \in Seq(Shown) /\ DOMAIN <<>> = {}
            BY DEF Shown, Items, Attributes, Closing
        <3>2. Count(<<"/color">>, item) = (IF "/color" = item THEN 1 ELSE 0) /\ Count(<<>>, item) = 0
            BY <3>1, CountOne, CountType
        <3> QED
            BY <3>2
    <2> HIDE DEF on, off, new, b
    <2> DEFINE u == a.html \o off
    <2>3. Count(u, item) = Count(a.html, item) + Count(off, item)
        BY <1>1, <1>2, CountConcat
    <2>4. u \in Seq(Shown)
        BY <1>5
    <2> HIDE DEF u
    <2>5. Count(u \o on, item) = Count(u, item) + Count(on, item)
        BY <1>2, <2>4, CountConcat
    <2>6. b.html = u \o on
        BY <1>3 DEF u
    <2> QED
        BY <2>1, <2>2, <2>3, <2>5, <2>6
<1>8. ASSUME NEW x \in Attributes PROVE Excess(b, x) = Excess(a, x)
    <2>1. Count(a.html, x) \in Nat /\ Count(a.html, Closing[x]) \in Nat
        BY <1>1, CountType
    <2>2. b.ansi[x] = IF x = "color" THEN new ELSE a.ansi[x]
        BY <1>3, <1>4
    <2>3. (x = "/color") = FALSE /\ (Closing[x] = "/color") = (x = "color") /\ (Closing[x] = "color") = FALSE
        BY DEF Attributes, Closing
    <2> HIDE DEF b, new
    <2>4. Count(b.html, x) = Count(a.html, x) + (IF new /\ x = "color" THEN 1 ELSE 0)
        BY <1>7, <2>1, <2>3
    <2>5. Count(b.html, Closing[x])
              = Count(a.html, Closing[x]) + (IF ansi.color /\ x = "color" THEN 1 ELSE 0)
        BY <1>7, <2>1, <2>3
    <2>6. CASE x = "color"
        <3>1. ansi.color = a.ansi[x] /\ a.ansi[x] \in BOOLEAN
            BY <1>1, <2>6 DEF Ansi
        <3> QED
            BY <1>2, <2>1, <2>2, <2>4, <2>5, <2>6, <3>1 DEF Excess, On
    <2>7. CASE x # "color"
        BY <2>1, <2>2, <2>4, <2>5, <2>7 DEF Excess, On
    <2> QED
        BY <2>6, <2>7
<1> QED
    BY <1>6, <1>8

LEMMA ClosedCount ==
    ASSUME NEW a \in Written, NEW attr \in Attributes, NEW item
    PROVE  LET closed == IF a.ansi[attr] THEN <<Closing[attr]>> ELSE <<>>
           IN  /\ closed \in Seq(Shown)
               /\ Count(closed, item) = IF a.ansi[attr] /\ Closing[attr] = item THEN 1 ELSE 0
<1>1. Closing[attr] \in Shown
    BY ItemsAre
<1>2. <<Closing[attr]>> \in Seq(Shown) /\ <<>> \in Seq(Shown) /\ DOMAIN <<>> = {}
    BY <1>1
<1>3. Count(<<Closing[attr]>>, item) = IF Closing[attr] = item THEN 1 ELSE 0
    BY <1>1, CountOne
<1>4. Count(<<>>, item) = 0
    BY <1>2, CountType
<1> QED
    BY <1>2, <1>3, <1>4

LEMMA ResetKeeps ==
    ASSUME NEW a \in Written
    PROVE  LET b == Reset(a)
           IN  b \in Written /\ \A x \in Attributes : Excess(b, x) = Excess(a, x)
<1> DEFINE b == Reset(a)
           closed(attr) == IF a.ansi[attr] THEN <<Closing[attr]>> ELSE <<>>
           new == [NoAnsi EXCEPT !.color = TRUE, !.fore = "white", !.back = "black"]
           tags == <<"body", "color", "/color", "color">>
           n(attr, item) == IF a.ansi[attr] /\ Closing[attr] = item THEN 1 ELSE 0
<1>1. b = [ansi |-> new,
           html |-> ((((a.html \o closed("bold")) \o closed("underline")) \o closed("italic"))
                        \o closed("color")) \o tags]
    BY DEF Reset
<1>2. new \in Ansi /\ \A x \in Attributes : new[x] = (x = "color")
    <2>1. NoAnsi \in Ansi
        BY DEF NoAnsi, Ansi, Colors
    <2>2. new \in Ansi
        BY <2>1 DEF Ansi, Colors
    <2>3. new.bold = FALSE /\ new.underline = FALSE /\ new.italic = FALSE /\ new.color = TRUE
        BY DEF NoAnsi
    <2> HIDE DEF new
    <2>4. ASSUME NEW x \in Attributes PROVE new[x] = (x = "color")
        <3>1. x \in {"bold", "underline", "italic", "color"}
            BY DEF Attributes
        <3> QED
            BY <2>3, <3>1
    <2> QED
        BY <2>2, <2>4
<1>3. \A attr \in Attributes : closed(attr) \in Seq(Shown)
          /\ \A item : Count(closed(attr), item) = n(attr, item)
    BY ClosedCount
<1>4. a.html \in Seq(Shown) /\ a.ansi \in Ansi /\ \A x \in Attributes : a.ansi[x] \in BOOLEAN
    BY DEF Written, Ansi, Attributes
<1> DEFINE m(item) == (IF item = "body" THEN 1 ELSE 0) + (IF item = "color" THEN 2 ELSE 0)
                      + (IF item = "/color" THEN 1 ELSE 0)
<1>5. tags \in Seq(Shown) /\ \A item : Count(tags, item) = m(item)
    <2>1. "body" \in Shown /\ "color" \in Shown /\ "/color" \in Shown
        BY DEF Shown, Items, Attributes, Closing
    <2> DEFINE t1 == <<"body">>
               t2 == Append(t1, "color")
               t3 == Append(t2, "/color")
               t4 == Append(t3, "color")
    <2>2. t1 \in Seq(Shown) /\ t2 \in Seq(Shown) /\ t3 \in Seq(Shown) /\ t4 \in Seq(Shown)
        BY <2>1
    <2>3. tags = t4
        OBVIOUS
    <2>4. ASSUME NEW item PROVE Count(tags, item) = m(item)
        <3>1. Count(t1, item) = IF "body" = item THEN 1 ELSE 0
            BY <2>1, CountOne
        <3> HIDE DEF t1
        <3>2. Count(t2, item) = Count(t1, item) + (IF "color" = item THEN 1 ELSE 0)
            BY <2>1, <2>2, CountAppend
        <3> HIDE DEF t2
        <3>3. Count(t3, item) = Count(t2, item) + (IF "/color" = item THEN 1 ELSE 0)
            BY <2>1, <2>2, CountAppend
        <3> HIDE DEF t3
        <3>4. Count(t4, item) = Count(t3, item) + (IF "color" = item THEN 1 ELSE 0)
            BY <2>1, <2>2, CountAppend
        <3> HIDE DEF t4, tags
        <3> QED
            BY <2>3, <3>1, <3>2, <3>3, <3>4
    <2> QED
        BY <2>2, <2>3, <2>4
<1>6. {"bold", "underline", "italic", "color"} \subseteq Attributes
    BY DEF Attributes
<1> HIDE DEF closed, tags
<1> DEFINE h1 == a.html \o closed("bold")
           h2 == h1 \o closed("underline")
           h3 == h2 \o closed("italic")
           h4 == h3 \o closed("color")
           h5 == h4 \o tags
<1>7. h1 \in Seq(Shown) /\ \A item : Count(h1, item) = Count(a.html, item) + n("bold", item)
    BY <1>3, <1>4, <1>6, CountConcat
<1> HIDE DEF h1
<1>8. h2 \in Seq(Shown) /\ \A item : Count(h2, item) = Count(h1, item) + n("underline", item)
    BY <1>3, <1>6, <1>7, CountConcat
<1> HIDE DEF h2
<1>9. h3 \in Seq(Shown) /\ \A item : Count(h3, item) = Count(h2, item) + n("italic", item)
    BY <1>3, <1>6, <1>8, CountConcat
<1> HIDE DEF h3
<1>10. h4 \in Seq(Shown) /\ \A item : Count(h4, item) = Count(h3, item) + n("color", item)
    BY <1>3, <1>6, <1>9, CountConcat
<1> HIDE DEF h4
<1>11. h5 \in Seq(Shown) /\ \A item : Count(h5, item) = Count(h4, item) + m(item)
    BY <1>5, <1>10, CountConcat
<1>12. b.html = h5 /\ b.ansi = new /\ b \in Written
    BY <1>1, <1>2, <1>11 DEF Written, h1, h2, h3, h4
<1> HIDE DEF b, h5, new
<1>13. ASSUME NEW item, Count(a.html, item) \in Nat
       PROVE  Count(b.html, item) = Count(a.html, item) + n("bold", item) + n("underline", item)
                                        + n("italic", item) + n("color", item) + m(item)
    <2>1. /\ n("bold", item) \in Nat /\ n("underline", item) \in Nat
          /\ n("italic", item) \in Nat /\ n("color", item) \in Nat /\ m(item) \in Nat
        OBVIOUS
    <2> HIDE DEF n, m
    <2> QED
        BY <1>7, <1>8, <1>9, <1>10, <1>11, <1>12, <1>13, <2>1
<1>14. ASSUME NEW x \in Attributes PROVE Excess(b, x) = Excess(a, x)
    <2>1. Count(a.html, x) \in Nat /\ Count(a.html, Closing[x]) \in Nat
        BY <1>4, CountType
    <2>2. m(x) = IF x = "color" THEN 2 ELSE 0
        BY DEF Attributes
    <2>3. m(Closing[x]) = IF x = "color" THEN 1 ELSE 0
        BY DEF Attributes, Closing
    <2>4. \A attr \in Attributes : n(attr, x) = 0
        BY ItemsAre
    <2>5. \A attr \in Attributes : n(attr, Closing[x]) = IF attr = x THEN On(a.ansi, x) ELSE 0
        BY ItemsAre DEF On
    <2>6. On(b.ansi, x) = IF x = "color" THEN 1 ELSE 0
        BY <1>2, <1>12 DEF On
    <2>7. On(a.ansi, x) \in Int
        BY DEF On
    <2>8. Count(b.html, x) = Count(a.html, x) + (IF x = "color" THEN 2 ELSE 0)
        <3> HIDE DEF n, m
        <3> QED
            BY <1>6, <1>13, <2>1, <2>2, <2>4
    <2>9. Count(b.html, Closing[x])
              = Count(a.html, Closing[x]) + On(a.ansi, x) + (IF x = "color" THEN 1 ELSE 0)
        <3>1. Count(b.html, Closing[x])
                  = Count(a.html, Closing[x]) + n("bold", Closing[x]) + n("underline", Closing[x])
                        + n("italic", Closing[x]) + n("color", Closing[x]) + m(Closing[x])
            BY <1>13, <2>1
        <3>2. x \in {"bold", "underline", "italic", "color"}
            BY DEF Attributes
        <3> HIDE DEF n, m
        <3> QED
            BY <1>6, <2>1, <2>3, <2>5, <2>7, <3>1, <3>2
    <2> HIDE DEF n, m
    <2> QED
        BY <2>1, <2>6, <2>7, <2>8, <2>9 DEF Excess
<1> QED
    BY <1>12, <1>14 DEF b

LEMMA ProcessAnsiCodeKeeps ==
    ASSUME NEW a \in Written, NEW code \in Int
    PROVE  LET b == ProcessAnsiCode(a, code)
           IN  b \in Written /\ \A x \in Attributes : Excess(b, x) = Excess(a, x)
<1> DEFINE b == ProcessAnsiCode(a, code)
           D == {d \in Written : \A x \in Attributes : Excess(d, x) = Excess(a, x)}
<1>1. a \in D /\ Reset(a) \in D
    BY ResetKeeps
<1>2. ASSUME NEW attr \in Attributes, NEW on \in BOOLEAN PROVE Attribute(a, attr, on) \in D
    BY AttributeKeeps
<1>3. ASSUME NEW color \in Colors PROVE SetForeColor(a, color) \in D /\ SetBackColor(a, color) \in D
    <2> DEFINE fore == [a.ansi EXCEPT !.fore = color]
               back == [a.ansi EXCEPT !.back = color]
    <2>1. fore \in Ansi /\ back \in Ansi
          /\ \A x \in Attributes : fore[x] = a.ansi[x] /\ back[x] = a.ansi[x]
        BY DEF Written, Ansi, Attributes
    <2>2. SetForeColor(a, color) = SetColor([a EXCEPT !.ansi = fore])
          /\ SetBackColor(a, color) = SetColor([a EXCEPT !.ansi = back])
        BY DEF SetForeColor, SetBackColor, Written
    <2> HIDE DEF fore, back
    <2> QED
        BY <2>1, <2>2, SetColorKeeps
<1>4. {"bold", "underline", "italic"} \subseteq Attributes /\ {"red", "black", "white"} \subseteq Colors
    BY DEF Attributes, Colors
<1> HIDE DEF D
<1>5. b \in D
    <2>1. CASE code = 0
        <3>1. b = Reset(a)
            BY <2>1 DEF ProcessAnsiCode
        <3> HIDE DEF b
        <3> QED
            BY <1>1, <1>2, <1>3, <1>4, <3>1
    <2>2. CASE code = 1
        <3>1. b = Attribute(a, "bold", TRUE)
            BY <2>2 DEF ProcessAnsiCode
        <3> HIDE DEF b
        <3> QED
            BY <1>1, <1>2, <1>3, <1>4, <3>1
    <2>3. CASE code = 2
        <3>1. b = Attribute(a, "bold", FALSE)
            BY <2>3 DEF ProcessAnsiCode
        <3> HIDE DEF b
        <3> QED
            BY <1>1, <1>2, <1>3, <1>4, <3>1
    <2>4. CASE code = 3
        <3>1. b = Attribute(a, "italic", TRUE)
            BY <2>4 DEF ProcessAnsiCode
        <3> HIDE DEF b
        <3> QED
            BY <1>1, <1>2, <1>3, <1>4, <3>1
    <2>5. CASE code = 4
        <3>1. b = Attribute(a, "underline", TRUE)
            BY <2>5 DEF ProcessAnsiCode
        <3> HIDE DEF b
        <3> QED
            BY <1>1, <1>2, <1>3, <1>4, <3>1
    <2>6. CASE code \in 31 .. 36
        <3>1. b = SetForeColor(a, "red")
            BY <2>6 DEF ProcessAnsiCode
        <3> HIDE DEF b
        <3> QED
            BY <1>1, <1>2, <1>3, <1>4, <3>1
    <2>7. CASE code = 30
        <3>1. b = SetForeColor(a, "black")
            BY <2>7 DEF ProcessAnsiCode
        <3> HIDE DEF b
        <3> QED
            BY <1>1, <1>2, <1>3, <1>4, <3>1
    <2>8. CASE code = 37
        <3>1. b = SetForeColor(a, "white")
            BY <2>8 DEF ProcessAnsiCode
        <3> HIDE DEF b
        <3> QED
            BY <1>1, <1>2, <1>3, <1>4, <3>1
    <2>9. CASE code \in 41 .. 46
        <3>1. b = SetBackColor(a, "red")
            BY <2>9 DEF ProcessAnsiCode
        <3> HIDE DEF b
        <3> QED
            BY <1>1, <1>2, <1>3, <1>4, <3>1
    <2>10. CASE code = 40
        <3>1. b = SetBackColor(a, "black")
            BY <2>10 DEF ProcessAnsiCode
        <3> HIDE DEF b
        <3> QED
            BY <1>1, <1>2, <1>3, <1>4, <3>1
    <2>11. CASE code = 47
        <3>1. b = SetBackColor(a, "white")
            BY <2>11 DEF ProcessAnsiCode
        <3> HIDE DEF b
        <3> QED
            BY <1>1, <1>2, <1>3, <1>4, <3>1
    <2>12. CASE /\ code \notin 31 .. 36 /\ code \notin 41 .. 46
                /\ code \notin {30, 37} /\ code \notin {40, 47}
                /\ code # 0 /\ code # 1 /\ code # 2 /\ code # 3 /\ code # 4
        <3>1. b = a
            BY <2>12 DEF ProcessAnsiCode
        <3> HIDE DEF b
        <3> QED
            BY <1>1, <3>1
    <2> HIDE DEF b
    <2> QED
        BY <2>1, <2>2, <2>3, <2>4, <2>5, <2>6, <2>7, <2>8, <2>9, <2>10, <2>11, <2>12
<1> QED
    BY <1>5 DEF D

Reads == [a : Written, code : Int]

LEMMA TheOneOf ==
    ASSUME NEW x
    PROVE  TheOne({x}) = x
BY DEF TheOne

LEMMA ReadCodeKeeps ==
    ASSUME NEW s \in Reads, NEW d \in Digits \cup {"sep"}
    PROVE  /\ EndCode(s) \in Written /\ ReadCode(s, d) \in Reads
           /\ \A x \in Attributes : /\ Excess(EndCode(s), x) = Excess(s.a, x)
                                    /\ Excess(ReadCode(s, d).a, x) = Excess(s.a, x)
<1>1. s.a \in Written /\ s.code \in Int
    BY DEF Reads
<1>2. EndCode(s) \in Written /\ \A x \in Attributes : Excess(EndCode(s), x) = Excess(s.a, x)
    BY <1>1, ProcessAnsiCodeKeeps DEF EndCode
<1>3. CASE d = "sep"
    <2>1. ReadCode(s, d) = [a |-> EndCode(s), code |-> -1]
        BY <1>3 DEF ReadCode
    <2> QED
        BY <1>2, <2>1 DEF Reads
<1>4. CASE d # "sep"
    <2>1. Value(d) \in Int
        <3>1. \E i \in DOMAIN Numerals : Numerals[i] = d
            BY <1>4 DEF Digits, ToSet
        <3>2. DOMAIN Numerals \subseteq Int
            BY DEF Numerals
        <3> QED
            BY <3>1, <3>2 DEF Value
    <2> DEFINE new == IF s.code = -1 THEN Value(d) ELSE 10 * s.code + Value(d)
    <2>2. new \in Int
        BY <1>1, <2>1
    <2>3. ReadCode(s, d) = [s EXCEPT !.code = new]
        BY <1>4 DEF ReadCode
    <2> HIDE DEF new
    <2>4. ReadCode(s, d) \in Reads /\ ReadCode(s, d).a = s.a
        BY <2>2, <2>3 DEF Reads
    <2> QED
        BY <1>2, <2>4
<1> QED
    BY <1>2, <1>3, <1>4

LEMMA ReadCodesSteps ==
    ASSUME NEW ansi \in Ansi, NEW codes \in Seq(Digits \cup {"sep"})
    PROVE  \E f \in [0 .. Len(codes) -> Reads] :
               /\ f[0] = [a |-> [ansi |-> ansi, html |-> <<>>], code |-> -1]
               /\ \A i \in 1 .. Len(codes) : f[i] = ReadCode(f[i - 1], codes[i])
               /\ \A i \in 0 .. Len(codes) : ReadCodes(ansi, codes)[i] = {f[i]}
<1> DEFINE N == Len(codes)
           c == [a |-> [ansi |-> ansi, html |-> <<>>], code |-> -1]
           g == [p \in Reads \X (1 .. N) |-> ReadCode(p[1], codes[p[2]])]
           D(r) == [i \in 0 .. N |-> IF i = 0 THEN {c}
                                     ELSE {ReadCode(s, codes[i]) : s \in r[i - 1]}]
           Q(r) == r = D(r)
<1>1. N \in Nat /\ c \in Reads /\ \A i \in 1 .. N : codes[i] \in Digits \cup {"sep"}
    <2>1. <<>> \in Seq(Shown) /\ -1 \in Int
        OBVIOUS
    <2>2. c \in Reads
        BY <2>1 DEF Reads, Written
    <2> QED
        BY <2>2
<1> HIDE DEF c
<1>2. g \in [Reads \X (1 .. N) -> Reads]
    BY <1>1, ReadCodeKeeps
<1> HIDE DEF g
<1>3. PICK f \in Foldings(N, Reads, c, g) : TRUE
    BY <1>1, <1>2, FoldIsDefined
<1>4. f \in [0 .. N -> Reads] /\ f[0] = c /\ \A i \in 1 .. N : f[i] = g[<<f[i - 1], i>>]
    BY <1>3 DEF Foldings
<1>5. \A i \in 1 .. N : f[i] = ReadCode(f[i - 1], codes[i])
    <2> TAKE i \in 1 .. N
    <2>1. <<f[i - 1], i>> \in Reads \X (1 .. N)
        BY <1>4
    <2> QED
        BY <1>4, <2>1 DEF g
<1> DEFINE h == [i \in 0 .. N |-> {f[i]}]
<1>6. Q(h)
    <2>1. ASSUME NEW i \in 0 .. N PROVE h[i] = D(h)[i]
        <3>1. CASE i = 0
            BY <1>4, <3>1
        <3>2. CASE i # 0
            <4>1. i \in 1 .. N /\ i - 1 \in 0 .. N
                BY <3>2
            <4>2. h[i - 1] = {f[i - 1]} /\ h[i] = {ReadCode(f[i - 1], codes[i])}
                BY <1>5, <4>1
            <4>3. D(h)[i] = {ReadCode(s, codes[i]) : s \in h[i - 1]}
                BY <3>2
            <4> HIDE DEF h
            <4> QED
                BY <4>2, <4>3
        <3> QED
            BY <3>1, <3>2
    <2> QED
        BY <2>1
<1> DEFINE r == CHOOSE r : Q(r)
<1>7. Q(r)
    <2> HIDE DEF h
    <2>1. \E q : Q(q)
        BY <1>6
    <2> HIDE DEF Q
    <2> QED
        BY <2>1
<1>8. ReadCodes(ansi, codes) = r
    BY DEF ReadCodes, c
<1> HIDE DEF r
<1>9. \A i \in 0 .. N : r[i] = {f[i]}
    <2> DEFINE T == {i \in 0 .. N : r[i] = {f[i]}}
    <2>1. 0 \in T
        BY <1>1, <1>4, <1>7
    <2>2. ASSUME NEW i \in 1 .. N, i - 1 \in T PROVE i \in T
        <3>1. r[i - 1] = {f[i - 1]} /\ i \in 0 .. N
            BY <2>2
        <3>2. r[i] = {ReadCode(s, codes[i]) : s \in r[i - 1]}
            <4>1. D(r)[i] = {ReadCode(s, codes[i]) : s \in r[i - 1]}
                BY <3>1
            <4>2. r = D(r)
                BY <1>7
            <4> HIDE DEF D
            <4> QED
                BY <4>1, <4>2
        <3>3. r[i] = {ReadCode(f[i - 1], codes[i])}
            BY <3>1, <3>2
        <3>4. r[i] = {f[i]}
            BY <1>5, <3>3
        <3> QED
            BY <3>1, <3>4
    <2> HIDE DEF T
    <2>3. \A i \in 0 .. N : i \in T
        BY <1>1, <2>1, <2>2, InductionUpTo
    <2> QED
        BY <2>3 DEF T
<1> QED
    BY <1>4, <1>5, <1>8, <1>9 DEF c

\* What the codes of a sequence write, and the attributes they leave.
LEMMA ReadCodesKeep ==
    ASSUME NEW ansi \in Ansi, NEW codes \in Seq(Digits \cup {"sep"})
    PROVE  LET a == EndCode(TheOne(ReadCodes(ansi, codes)[Len(codes)]))
           IN  /\ a \in Written
               /\ \A x \in Attributes :
                      Count(a.html, x) - Count(a.html, Closing[x]) = On(a.ansi, x) - On(ansi, x)
<1> DEFINE N == Len(codes)
           start == [ansi |-> ansi, html |-> <<>>]
<1>1. PICK f \in [0 .. N -> Reads] :
          /\ f[0] = [a |-> start, code |-> -1]
          /\ \A i \in 1 .. N : f[i] = ReadCode(f[i - 1], codes[i])
          /\ \A i \in 0 .. N : ReadCodes(ansi, codes)[i] = {f[i]}
    BY ReadCodesSteps
<1>2. N \in Nat /\ \A i \in 1 .. N : codes[i] \in Digits \cup {"sep"}
    OBVIOUS
<1>3. start \in Written /\ \A x \in Attributes : Excess(start, x) = 0 - On(ansi, x)
    <2>1. <<>> \in Seq(Shown) /\ DOMAIN <<>> = {}
        OBVIOUS
    <2>2. \A item : Count(<<>>, item) = 0
        BY <2>1, CountType
    <2>3. \A x : On(ansi, x) \in Int
        BY DEF On
    <2> QED
        BY <2>1, <2>2, <2>3 DEF Written, Excess
<1> HIDE DEF start, N
<1>4. \A i \in 0 .. N : \A x \in Attributes : Excess(f[i].a, x) = 0 - On(ansi, x)
    <2> DEFINE T == {i \in 0 .. N : \A x \in Attributes : Excess(f[i].a, x) = 0 - On(ansi, x)}
    <2>1. 0 \in T
        BY <1>1, <1>2, <1>3
    <2>2. ASSUME NEW i \in 1 .. N, i - 1 \in T PROVE i \in T
        <3>1. f[i - 1] \in Reads /\ i \in 0 .. N
            BY <1>2, <2>2
        <3>2. f[i] = ReadCode(f[i - 1], codes[i]) /\ codes[i] \in Digits \cup {"sep"}
            BY <1>1, <1>2
        <3>3. \A x \in Attributes : Excess(f[i].a, x) = Excess(f[i - 1].a, x)
            BY <3>1, <3>2, ReadCodeKeeps
        <3>4. \A x \in Attributes : Excess(f[i - 1].a, x) = 0 - On(ansi, x)
            BY <2>2
        <3>5. \A x \in Attributes : Excess(f[i].a, x) = 0 - On(ansi, x)
            BY <3>3, <3>4
        <3> QED
            BY <3>1, <3>5
    <2> HIDE DEF T
    <2>3. \A i \in 0 .. N : i \in T
        BY <1>2, <2>1, <2>2, InductionUpTo
    <2> QED
        BY <2>3 DEF T
<1>5. N \in 0 .. N /\ f[N] \in Reads
    BY <1>2
<1>6. TheOne(ReadCodes(ansi, codes)[N]) = f[N]
    BY <1>1, <1>5, TheOneOf
<1> DEFINE a == EndCode(f[N])
<1>7. "sep" \in Digits \cup {"sep"}
    OBVIOUS
<1>8. a \in Written /\ \A x \in Attributes : Excess(a, x) = 0 - On(ansi, x)
    BY <1>4, <1>5, <1>7, ReadCodeKeeps
<1> HIDE DEF a
<1>9. ASSUME NEW x \in Attributes
      PROVE  Count(a.html, x) - Count(a.html, Closing[x]) = On(a.ansi, x) - On(ansi, x)
    <2>1. a.html \in Seq(Shown)
        BY <1>8 DEF Written
    <2>2. Count(a.html, x) \in Nat /\ Count(a.html, Closing[x]) \in Nat
        BY <2>1, CountType
    <2>3. On(a.ansi, x) \in Int /\ On(ansi, x) \in Int
        BY DEF On
    <2>4. Excess(a, x) = 0 - On(ansi, x)
        BY <1>8
    <2> HIDE DEF On
    <2> QED
        BY <2>2, <2>3, <2>4 DEF Excess
<1> QED
    BY <1>6, <1>8, <1>9 DEF a, N

-----------------------------------------------------------------------------
(* The text that goes out, and its lines. *)

\* Text and attributes aside.
SameRest(c, d) ==
    /\ d.mode = c.mode /\ d.codes = c.codes /\ d.cmd = c.cmd /\ d.telnet = c.telnet
    /\ d.answers = c.answers /\ d.field = c.field

TextOK(c) == Balanced(c.out, c.ansi) /\ TextOfLines(c)

LEMMA TextSame ==
    ASSUME NEW c, NEW d, d.out = c.out, d.ansi = c.ansi, d.part = c.part, d.line = c.line,
           d.lines = c.lines, TextOK(c)
    PROVE  TextOK(d)
BY DEF TextOK, Balanced, TextOfLines

LEMMA VisibleText ==
    ASSUME NEW out \in Seq(Items)
    PROVE  /\ Visible(out) \in Seq(Items)
           /\ Visible(Append(out, "newline")) = Visible(out)
           /\ \A h \in Seq(Shown) : Visible(out \o h) = Visible(out) \o h
<1> DEFINE X == {"newline"}
<1>1. "newline" \in Items /\ Shown \subseteq Items /\ Shown \cap X = {} /\ "newline" \in X
    BY DEF Items, Shown
<1>5. \A s : Visible(s) = Without(s, X)
    BY DEF Visible
<1> HIDE DEF X
<1>2. Visible(out) \in Seq(Items)
    BY <1>5, WithoutIsKept
<1>3. Visible(Append(out, "newline")) = Visible(out)
    BY <1>1, <1>5, WithoutAppend
<1>4. ASSUME NEW h \in Seq(Shown) PROVE Visible(out \o h) = Visible(out) \o h
    <2>1. h \in Seq(Items)
        BY <1>1
    <2>2. Without(h, X) = h
        BY <1>1, WithoutNothing
    <2>3. Without(out \o h, X) = Without(out, X) \o Without(h, X)
        BY <2>1, WithoutConcat
    <2> QED
        BY <1>5, <2>2, <2>3
<1> QED
    BY <1>2, <1>3, <1>4

LEMMA AppendAllOf ==
    ASSUME NEW c \in Conns, NEW ansi \in Ansi, NEW h \in Seq(Shown),
           \A x \in Attributes : Count(h, x) - Count(h, Closing[x]) = On(ansi, x) - On(c.ansi, x)
    PROVE  LET d == AppendAll([c EXCEPT !.ansi = ansi], h)
           IN  /\ d \in Conns /\ SameRest(c, d) /\ d.ansi = ansi
               /\ Visible(d.out) = Visible(c.out) \o h
               /\ TextOK(c) => TextOK(d)
<1> DEFINE d == AppendAll([c EXCEPT !.ansi = ansi], h)
<1>1. c.out \in Seq(Items) /\ c.part \in Seq(Items) /\ c.line \in Seq(Items)
      /\ c.lines \in Seq(Seq(Items)) /\ c.ansi \in Ansi /\ h \in Seq(Items)
    <2>1. Shown \subseteq Items
        BY DEF Shown
    <2> QED
        BY <2>1 DEF Conns
<1>2. /\ d.mode = c.mode /\ d.codes = c.codes /\ d.cmd = c.cmd /\ d.telnet = c.telnet
      /\ d.answers = c.answers /\ d.field = c.field /\ d.ansi = ansi
      /\ d.line = c.line /\ d.lines = c.lines
      /\ d.out = c.out \o h /\ d.part = c.part \o h
    BY DEF AppendAll, Conns
<1>3. d \in Conns
    <2> DEFINE out == c.out \o h
               part == c.part \o h
    <2>1. out \in Seq(Items) /\ part \in Seq(Items)
        BY <1>1
    <2>2. d = [[[c EXCEPT !.ansi = ansi] EXCEPT !.out = out] EXCEPT !.part = part]
        BY DEF AppendAll, Conns
    <2> HIDE DEF d, out, part
    <2> QED
        BY <2>1, <2>2 DEF Conns
<1> HIDE DEF d
<1>4. Visible(d.out) = Visible(c.out) \o h /\ Visible(c.out) \in Seq(Items)
    BY <1>1, <1>2, VisibleText
<1>5. ASSUME TextOK(c) PROVE TextOK(d)
    <2>1. TextOfLines(d)
        <3> DEFINE f == FlattenSeq(c.lines)
        <3>1. f \in Seq(Items)
            BY <1>1, FlattenAppend
        <3> HIDE DEF f
        <3> DEFINE g == f \o c.line
        <3>2. g \in Seq(Items) /\ g \o c.part = Visible(c.out)
            BY <1>1, <1>5, <3>1 DEF TextOK, TextOfLines, f
        <3> HIDE DEF g
        <3>3. (g \o c.part) \o h = g \o (c.part \o h)
            <4> DEFINE p == c.part
            <4>1. p \in Seq(Items) /\ g \in Seq(Items) /\ h \in Seq(Items)
                BY <1>1, <3>2
            <4> HIDE DEF p
            <4>2. (g \o p) \o h = g \o (p \o h)
                BY <4>1, ConcatAssociative
            <4> QED
                BY <4>2 DEF p
        <3>4. (f \o c.line) \o d.part = Visible(d.out)
            BY <1>2, <1>4, <3>2, <3>3 DEF g
        <3> QED
            BY <1>2, <3>4 DEF TextOfLines, f
    <2>2. Balanced(d.out, d.ansi)
        <3> SUFFICES ASSUME NEW x \in Attributes
                     PROVE  Count(d.out, x) - Count(d.out, Closing[x]) = On(d.ansi, x)
            BY DEF Balanced, On
        <3>1. Count(c.out, x) - Count(c.out, Closing[x]) = On(c.ansi, x)
            BY <1>5 DEF TextOK, Balanced, On
        <3>2. Count(d.out, x) = Count(c.out, x) + Count(h, x)
              /\ Count(d.out, Closing[x]) = Count(c.out, Closing[x]) + Count(h, Closing[x])
            BY <1>1, <1>2, CountConcat
        <3>3. /\ Count(c.out, x) \in Nat /\ Count(c.out, Closing[x]) \in Nat
              /\ Count(h, x) \in Nat /\ Count(h, Closing[x]) \in Nat
            BY <1>1, CountType
        <3>4. On(d.ansi, x) \in Int /\ On(c.ansi, x) \in Int
            BY DEF On
        <3>5. Count(h, x) - Count(h, Closing[x]) = On(d.ansi, x) - On(c.ansi, x)
            BY <1>2
        <3> DEFINE c1 == Count(c.out, x)
                   c2 == Count(c.out, Closing[x])
                   d1 == Count(d.out, x)
                   d2 == Count(d.out, Closing[x])
                   h1 == Count(h, x)
                   h2 == Count(h, Closing[x])
                   o1 == On(c.ansi, x)
                   o2 == On(d.ansi, x)
        <3>6. /\ c1 - c2 = o1 /\ d1 = c1 + h1 /\ d2 = c2 + h2 /\ h1 - h2 = o2 - o1
              /\ c1 \in Nat /\ c2 \in Nat /\ h1 \in Nat /\ h2 \in Nat /\ o1 \in Int /\ o2 \in Int
            BY <3>1, <3>2, <3>3, <3>4, <3>5
        <3> HIDE DEF c1, c2, d1, d2, h1, h2, o1, o2
        <3>7. d1 - d2 = o2
            BY <3>6
        <3> QED
            BY <3>7 DEF d1, d2, o2
    <2> QED
        BY <2>1, <2>2 DEF TextOK
<1> QED
    BY <1>2, <1>3, <1>4, <1>5 DEF SameRest, d

\* Text without tags.
LEMMA AppendTextOf ==
    ASSUME NEW c \in Conns, NEW h \in Seq({"text", "escape", "IAC", "body"})
    PROVE  LET d == AppendAll(c, h)
           IN  /\ d \in Conns /\ SameRest(c, d) /\ d.ansi = c.ansi
               /\ Visible(d.out) = Visible(c.out) \o h
               /\ TextOK(c) => TextOK(d)
<1>1. h \in Seq(Shown)
    BY ItemsAre
<1>2. \A i \in DOMAIN h : h[i] \in {"text", "escape", "IAC", "body"}
    OBVIOUS
<1>3. ASSUME NEW x \in Attributes
      PROVE  Count(h, x) - Count(h, Closing[x]) = On(c.ansi, x) - On(c.ansi, x)
    <2>1. \A i \in DOMAIN h : h[i] # x /\ h[i] # Closing[x]
        BY <1>2, ItemsAre
    <2>2. Count(h, x) = 0 /\ Count(h, Closing[x]) = 0
        BY <1>1, <2>1, CountType
    <2>3. On(c.ansi, x) \in Int
        BY DEF On
    <2> QED
        BY <2>2, <2>3
<1>4. c.ansi \in Ansi /\ [c EXCEPT !.ansi = c.ansi] = c
    BY DEF Conns
<1> QED
    BY <1>1, <1>3, <1>4, AppendAllOf

LEMMA ParseEndOfLineOf ==
    ASSUME NEW c \in Conns, NEW ends \in BOOLEAN
    PROVE  LET d == ParseEndOfLine(c, ends)
           IN  /\ d \in Conns /\ SameRest(c, d) /\ d.ansi = c.ansi /\ d.out = c.out
               /\ d.part = <<>>
               /\ TextOK(c) => TextOK(d)
<1> DEFINE d == ParseEndOfLine(c, ends)
           line == c.line \o c.part
<1>1. CASE c.part = <<>>
    BY <1>1 DEF ParseEndOfLine, SameRest
<1>2. CASE c.part # <<>>
    <2>1. c.part \in Seq(Items) /\ c.line \in Seq(Items) /\ c.lines \in Seq(Seq(Items))
          /\ line \in Seq(Items) /\ <<>> \in Seq(Items)
        BY DEF Conns
    <2>2. d = AddToTextBlock(c, ends)
        BY <1>2 DEF ParseEndOfLine
    <2> DEFINE f == FlattenSeq(c.lines)
    <2>3. f \in Seq(Items) /\ FlattenSeq(Append(c.lines, line)) = f \o line
        BY <2>1, FlattenAppend
    <2>4. (f \o c.line) \o c.part = f \o line
        <3> DEFINE p == c.part
                   l == c.line
        <3>1. p \in Seq(Items) /\ l \in Seq(Items) /\ f \in Seq(Items)
            BY <2>1, <2>3
        <3> HIDE DEF f, p, l
        <3>2. (f \o l) \o p = f \o (l \o p)
            BY <3>1, ConcatAssociative
        <3> QED
            BY <3>2 DEF p, l
    <2>5. CASE ends \/ Len(line) > MaxLine
        <3>1. d = [c EXCEPT !.lines = Append(c.lines, line), !.line = <<>>, !.part = <<>>]
            BY <2>2, <2>5 DEF AddToTextBlock
        <3> DEFINE ls == Append(c.lines, line)
        <3>2. ls \in Seq(Seq(Items))
            BY <2>1
        <3> HIDE DEF ls, d
        <3>3. d = [c EXCEPT !.lines = ls, !.line = <<>>, !.part = <<>>]
            BY <3>1 DEF ls
        <3>4. d \in Conns /\ SameRest(c, d) /\ d.ansi = c.ansi /\ d.out = c.out /\ d.part = <<>>
              /\ d.lines = ls /\ d.line = <<>>
            BY <2>1, <3>2, <3>3 DEF Conns, SameRest
        <3>5. ASSUME TextOK(c) PROVE TextOK(d)
            <4>1. f \o line = Visible(d.out)
                BY <2>4, <3>4, <3>5 DEF TextOK, TextOfLines
            <4>2. f \o line \in Seq(Items)
                BY <2>1, <2>3
            <4>3. FlattenSeq(d.lines) = f \o line
                BY <2>3, <3>4 DEF ls
            <4> DEFINE g == f \o line
            <4>4. g \in Seq(Items) /\ FlattenSeq(d.lines) = g /\ g = Visible(d.out)
                BY <4>1, <4>2, <4>3
            <4> HIDE DEF g
            <4>5. (g \o <<>>) \o <<>> = g
                BY <4>4
            <4>6. TextOfLines(d)
                BY <3>4, <4>4, <4>5 DEF TextOfLines
            <4> QED
                BY <3>4, <3>5, <4>6 DEF TextOK
        <3> QED
            BY <3>4, <3>5 DEF d
    <2>6. CASE ~(ends \/ Len(line) > MaxLine)
        <3>1. d = [c EXCEPT !.line = line, !.part = <<>>]
            BY <2>2, <2>6 DEF AddToTextBlock
        <3> HIDE DEF d, line
        <3>2. d \in Conns /\ SameRest(c, d) /\ d.ansi = c.ansi /\ d.out = c.out /\ d.part = <<>>
              /\ d.lines = c.lines /\ d.line = line
            BY <2>1, <3>1 DEF Conns, SameRest
        <3>3. ASSUME TextOK(c) PROVE TextOK(d)
            <4>1. f \o line = Visible(d.out)
                BY <2>4, <3>2, <3>3 DEF TextOK, TextOfLines
            <4> DEFINE g == f \o line
            <4>2. g \in Seq(Items) /\ g = Visible(d.out)
                <5>1. line \in Seq(Items) /\ f \in Seq(Items)
                    BY <2>1, <2>3 DEF line
                <5>2. g \in Seq(Items)
                    BY <5>1
                <5> QED
                    BY <4>1, <5>2
            <4> HIDE DEF g
            <4>3. g \o <<>> = g
                BY <4>2
            <4>4. TextOfLines(d)
                BY <3>2, <4>2, <4>3 DEF TextOfLines, g
            <4> QED
                BY <3>2, <3>3, <4>4 DEF TextOK
        <3> QED
            BY <3>2, <3>3 DEF d
    <2> QED
        BY <2>5, <2>6
<1> QED
    BY <1>1, <1>2

LEMMA NewlineOf ==
    ASSUME NEW c \in Conns
    PROVE  LET d == Newline(c)
           IN  /\ d \in Conns /\ SameRest(c, d) /\ d.ansi = c.ansi
               /\ Visible(d.out) = Visible(c.out)
               /\ TextOK(c) => TextOK(d)
<1> DEFINE e == ParseEndOfLine(c, TRUE)
           out == Append(e.out, "newline")
           d == [e EXCEPT !.out = out]
<1>1. /\ e \in Conns /\ SameRest(c, e) /\ e.ansi = c.ansi /\ e.out = c.out /\ e.part = <<>>
      /\ TextOK(c) => TextOK(e)
    BY ParseEndOfLineOf
<1>2. Newline(c) = d
    BY DEF Newline
<1> HIDE DEF e
<1>3. e.out \in Seq(Items) /\ out \in Seq(Items) /\ "newline" \in Items
    <2>1. e.out \in Seq(Items) /\ "newline" \in Items
        BY <1>1 DEF Conns, Items
    <2> QED
        BY <2>1
<1>4. Visible(out) = Visible(e.out)
    BY <1>3, VisibleText
<1>5. \A item : item # "newline" => Count(out, item) = Count(e.out, item)
    <2> SUFFICES ASSUME NEW item, item # "newline" PROVE Count(out, item) = Count(e.out, item)
        OBVIOUS
    <2>1. Count(out, item) = Count(e.out, item) + (IF "newline" = item THEN 1 ELSE 0)
        BY <1>3, CountAppend
    <2>2. Count(e.out, item) \in Nat
        BY <1>3, CountType
    <2> QED
        BY <2>1, <2>2
<1> HIDE DEF out
<1>6. d \in Conns /\ SameRest(c, d) /\ d.ansi = e.ansi /\ d.out = out /\ d.part = e.part
      /\ d.line = e.line /\ d.lines = e.lines
    BY <1>1, <1>3 DEF Conns, SameRest
<1> HIDE DEF d
<1>7. ASSUME TextOK(e) PROVE TextOK(d)
    <2>1. \A x \in Attributes : x # "newline" /\ Closing[x] # "newline"
        BY DEF Attributes, Closing
    <2> QED
        BY <1>4, <1>5, <1>6, <1>7, <2>1 DEF TextOK, Balanced, TextOfLines
<1> QED
    BY <1>1, <1>2, <1>4, <1>6, <1>7

-----------------------------------------------------------------------------
(* What a character does to a connection. *)

\* Where the scanner is aside.
SameTelnet(c, d) ==
    d.cmd = c.cmd /\ d.telnet = c.telnet /\ d.answers = c.answers /\ d.field = c.field

\* A connection again, and its text as it should be.
Sound(c, d) == d \in Conns /\ (TextOK(c) => TextOK(d))

ModeSet(c, mode) == [c EXCEPT !.mode = mode]
SequenceOver(c) == [c EXCEPT !.mode = "scanning", !.codes = <<>>]

LEMMA ModeOf ==
    ASSUME NEW c \in Conns, NEW mode \in ScanStates
    PROVE  LET d == ModeSet(c, mode)
           IN  /\ Sound(c, d) /\ SameTelnet(c, d) /\ d.ansi = c.ansi /\ d.out = c.out
               /\ d.mode = mode /\ d.codes = c.codes
<1> DEFINE d == ModeSet(c, mode)
<1>1. /\ d \in Conns /\ SameTelnet(c, d) /\ d.ansi = c.ansi /\ d.out = c.out
      /\ d.part = c.part /\ d.line = c.line /\ d.lines = c.lines
      /\ d.mode = mode /\ d.codes = c.codes
    BY DEF Conns, SameTelnet, ModeSet
<1> HIDE DEF d
<1>2. TextOK(c) => TextOK(d)
    BY <1>1, TextSame
<1> QED
    BY <1>1, <1>2 DEF d, Sound

LEMMA SequenceOverOf ==
    ASSUME NEW c \in Conns
    PROVE  LET d == SequenceOver(c)
           IN  /\ Sound(c, d) /\ SameTelnet(c, d) /\ d.ansi = c.ansi /\ d.out = c.out
               /\ d.mode = "scanning" /\ d.codes = <<>>
<1> DEFINE d == SequenceOver(c)
<1>1. /\ d \in Conns /\ SameTelnet(c, d) /\ d.ansi = c.ansi /\ d.out = c.out
      /\ d.part = c.part /\ d.line = c.line /\ d.lines = c.lines
      /\ d.mode = "scanning" /\ d.codes = <<>>
    <2>1. "scanning" \in ScanStates /\ <<>> \in Seq(Digits \cup {"sep"})
        BY DEF ScanStates
    <2> QED
        BY <2>1 DEF Conns, SameTelnet, SequenceOver
<1> HIDE DEF d
<1>2. TextOK(c) => TextOK(d)
    BY <1>1, TextSame
<1> QED
    BY <1>1, <1>2 DEF d, Sound

Printed == {"text", "[", "sep", "m"} \cup Digits

LEMMA AppendOneOf ==
    ASSUME NEW c \in Conns
    PROVE  LET d == Append1(c, "text")
           IN  /\ Sound(c, d) /\ SameRest(c, d) /\ d.ansi = c.ansi
               /\ Visible(d.out) = Visible(c.out) \o <<"text">>
<1>1. c.out \in Seq(Items) /\ c.part \in Seq(Items) /\ "text" \in Items
    BY DEF Conns, Items
<1> DEFINE o == c.out
           p == c.part
           x == "text"
<1>2. Append(o, x) = o \o <<x>> /\ Append(p, x) = p \o <<x>>
    <2>1. o \in Seq(Items) /\ p \in Seq(Items) /\ x \in Items
        BY <1>1
    <2> HIDE DEF o, p, x
    <2> QED
        BY <2>1, AppendIsConcat
<1>3. Append1(c, "text") = AppendAll(c, <<"text">>)
    BY <1>2 DEF Append1, AppendAll
<1>4. <<"text">> \in Seq({"text", "escape", "IAC", "body"})
    OBVIOUS
<1> QED
    BY <1>3, <1>4, AppendTextOf DEF Sound

\* What the scanner does outside sequences.
LEMMA ScanningOf ==
    ASSUME NEW c \in Conns, NEW ch \in Chars
    PROVE  LET d == Scanning(c, ch)
           IN  /\ Sound(c, d) /\ SameTelnet(c, d) /\ d.ansi = c.ansi /\ d.codes = c.codes
               /\ d.mode = IF ch = "ESC" THEN "escape" ELSE IF ch = "IAC" THEN "IAC" ELSE c.mode
               /\ Visible(d.out) = IF ch \in Printed THEN Visible(c.out) \o <<"text">>
                                                     ELSE Visible(c.out)
<1> DEFINE d == Scanning(c, ch)
<1>0. "escape" \in ScanStates /\ "IAC" \in ScanStates /\ "ESC" \notin Printed
      /\ "IAC" \notin Printed /\ "LF" \notin Printed /\ "CR" \notin Printed
    BY DEF ScanStates, Printed, Digits, ToSet, Numerals
<1>1. CASE ch = "ESC"
    <2>1. d = ModeSet(c, "escape")
        BY <1>0, <1>1 DEF Scanning, Printed, ModeSet
    <2> QED
        BY <1>0, <1>1, <2>1, ModeOf
<1>2. CASE ch = "IAC"
    <2>1. d = ModeSet(c, "IAC")
        BY <1>0, <1>2 DEF Scanning, Printed, ModeSet
    <2> QED
        BY <1>0, <1>2, <2>1, ModeOf
<1>3. CASE ch \in {"LF", "CR"}
    <2>1. d = Newline(c)
        BY <1>0, <1>3 DEF Scanning, Printed
    <2> QED
        BY <1>0, <1>3, <2>1, NewlineOf DEF SameRest, SameTelnet, Sound
<1>4. CASE ch \in Printed
    <2>1. d = Append1(c, "text")
        BY <1>0, <1>4 DEF Scanning, Printed
    <2> QED
        BY <1>0, <1>4, <2>1, AppendOneOf DEF SameRest, SameTelnet
<1>5. CASE ch \notin Printed /\ ch \notin {"ESC", "IAC", "LF", "CR"}
    <2>1. d = c
        BY <1>5 DEF Scanning, Printed
    <2> QED
        BY <1>5, <2>1 DEF SameTelnet, Sound
<1> QED
    BY <1>1, <1>2, <1>3, <1>4, <1>5

LEMMA EscapeOf ==
    ASSUME NEW c \in Conns, NEW ch \in Chars
    PROVE  LET d == Escape(c, ch)
           IN  /\ Sound(c, d) /\ SameTelnet(c, d) /\ d.ansi = c.ansi /\ d.codes = c.codes
               /\ d.mode = IF ch = "[" THEN "ansi" ELSE "scanning"
               /\ Visible(d.out) = IF ch = "[" THEN Visible(c.out)
                                   ELSE Visible(c.out) \o <<"escape", "text">>
<1> DEFINE d == Escape(c, ch)
<1>0. "ansi" \in ScanStates /\ "scanning" \in ScanStates
    BY DEF ScanStates
<1>1. CASE ch = "["
    <2>1. d = ModeSet(c, "ansi")
        BY <1>1 DEF Escape, ModeSet
    <2> QED
        BY <1>0, <1>1, <2>1, ModeOf
<1>2. CASE ch # "["
    <2> DEFINE e == ModeSet(c, "scanning")
               h == <<"escape", "text">>
    <2>1. d = AppendAll(e, h)
        BY <1>2 DEF Escape, ModeSet
    <2>2. Sound(c, e) /\ SameTelnet(c, e) /\ e.ansi = c.ansi /\ e.out = c.out
          /\ e.mode = "scanning" /\ e.codes = c.codes
        BY <1>0, ModeOf
    <2>3. h \in Seq({"text", "escape", "IAC", "body"})
        OBVIOUS
    <2> HIDE DEF e, h
    <2>4. e \in Conns /\ (TextOK(c) => TextOK(e))
        BY <2>2 DEF Sound
    <2> DEFINE f == AppendAll(e, h)
    <2>5. f \in Conns /\ SameRest(e, f) /\ f.ansi = e.ansi /\ Visible(f.out) = Visible(e.out) \o h
          /\ (TextOK(e) => TextOK(f))
        BY <2>3, <2>4, AppendTextOf
    <2> HIDE DEF f
    <2>6. Sound(c, f) /\ SameTelnet(c, f) /\ f.ansi = c.ansi /\ f.codes = c.codes /\ f.mode = "scanning"
          /\ Visible(f.out) = Visible(c.out) \o h
        BY <2>2, <2>4, <2>5 DEF SameRest, SameTelnet, Sound
    <2> QED
        BY <1>2, <2>1, <2>6 DEF f, h
<1> QED
    BY <1>1, <1>2

LEMMA TelnetIACOf ==
    ASSUME NEW c \in Conns, NEW ch \in Chars
    PROVE  LET d == TelnetIAC(c, ch)
           IN  /\ Sound(c, d) /\ d.telnet = c.telnet /\ d.answers = c.answers /\ d.field = c.field
               /\ d.ansi = c.ansi /\ d.codes = c.codes
               /\ d.cmd = IF ch \in Commands THEN ch ELSE c.cmd
               /\ d.mode = IF ch \in Commands THEN "cmd" ELSE "scanning"
               /\ Visible(d.out) = IF ch \in Commands \cup {"GA"} THEN Visible(c.out)
                                   ELSE Visible(c.out) \o <<"IAC", "text">>
<1> DEFINE d == TelnetIAC(c, ch)
<1>0. "cmd" \in ScanStates /\ "scanning" \in ScanStates
      /\ "GA" \notin Commands
    BY DEF ScanStates, Commands
<1>1. CASE ch \in Commands
    <2>1. d = [c EXCEPT !.mode = "cmd", !.cmd = ch]
        BY <1>1 DEF TelnetIAC
    <2> HIDE DEF d
    <2>2. /\ d \in Conns /\ d.telnet = c.telnet /\ d.answers = c.answers /\ d.field = c.field
          /\ d.ansi = c.ansi /\ d.codes = c.codes /\ d.cmd = ch /\ d.mode = "cmd"
          /\ d.out = c.out /\ d.part = c.part /\ d.line = c.line /\ d.lines = c.lines
        BY <1>0, <1>1, <2>1 DEF Conns
    <2>3. Sound(c, d)
        BY <2>2, TextSame DEF Sound
    <2> QED
        BY <1>1, <2>2, <2>3 DEF d
<1>2. CASE ch = "GA"
    <2>1. d = ModeSet(c, "scanning")
        BY <1>0, <1>2 DEF TelnetIAC, ModeSet
    <2> QED
        BY <1>0, <1>2, <2>1, ModeOf DEF SameTelnet
<1>3. CASE ch \notin Commands \cup {"GA"}
    <2> DEFINE e == ModeSet(c, "scanning")
               h == <<"IAC", "text">>
    <2>1. d = AppendAll(e, h)
        BY <1>3 DEF TelnetIAC, ModeSet
    <2>2. Sound(c, e) /\ SameTelnet(c, e) /\ e.ansi = c.ansi /\ e.out = c.out
          /\ e.mode = "scanning" /\ e.codes = c.codes
        BY <1>0, ModeOf
    <2>3. h \in Seq({"text", "escape", "IAC", "body"})
        OBVIOUS
    <2> HIDE DEF e, h
    <2>4. e \in Conns /\ (TextOK(c) => TextOK(e))
        BY <2>2 DEF Sound
    <2> DEFINE f == AppendAll(e, h)
    <2>5. f \in Conns /\ SameRest(e, f) /\ f.ansi = e.ansi /\ Visible(f.out) = Visible(e.out) \o h
          /\ (TextOK(e) => TextOK(f))
        BY <2>3, <2>4, AppendTextOf
    <2> HIDE DEF f
    <2>6. Sound(c, f) /\ SameTelnet(c, f) /\ f.ansi = c.ansi /\ f.codes = c.codes /\ f.mode = "scanning"
          /\ Visible(f.out) = Visible(c.out) \o h
        BY <2>2, <2>4, <2>5 DEF SameRest, SameTelnet, Sound
    <2> QED
        BY <1>3, <2>1, <2>6 DEF f, h, SameTelnet
<1> QED
    BY <1>1, <1>2, <1>3

\* What a sequence of codes comes to.
Read1(c) == EndCode(TheOne(ReadCodes(c.ansi, c.codes)[Len(c.codes)]))

LEMMA AnsiSequenceOf ==
    ASSUME NEW c \in Conns, c.mode = "ansi", NEW ch \in Chars
    PROVE  LET d == AnsiSequence(c, ch)
           IN  /\ Sound(c, d) /\ SameTelnet(c, d)
               /\ d.mode = IF ch \in Digits \cup {"sep"} THEN "ansi"
                           ELSE IF ch = "ESC" THEN "escape" ELSE "scanning"
               /\ d.codes = IF ch \in Digits \cup {"sep"} THEN Append(c.codes, ch) ELSE <<>>
               /\ d.ansi = IF ch = "m" THEN Read1(c).ansi ELSE c.ansi
               /\ Visible(d.out) = IF ch = "m" THEN Visible(c.out) \o Read1(c).html
                                               ELSE Visible(c.out)
<1> DEFINE d == AnsiSequence(c, ch)
           over == SequenceOver(c)
<1>0. /\ "ansi" \in ScanStates /\ "scanning" \in ScanStates
      /\ "m" \notin Digits \cup {"sep", "LF", "CR", "ESC"}
      /\ {"LF", "CR", "ESC"} \cap Digits = {} /\ {"LF", "CR", "ESC", "IAC"} \cap Printed = {}
    BY DEF ScanStates, Printed, Digits, ToSet, Numerals
<1>1. CASE ch \in Digits \cup {"sep"}
    <2> DEFINE codes == Append(c.codes, ch)
    <2>1. d = [c EXCEPT !.codes = codes]
        BY <1>1 DEF AnsiSequence
    <2>2. codes \in Seq(Digits \cup {"sep"})
        <3>1. c.codes \in Seq(Digits \cup {"sep"})
            BY DEF Conns
        <3> QED
            BY <1>1, <3>1
    <2>3. ch # "m"
        BY <1>0, <1>1
    <2> HIDE DEF codes, d
    <2>4. /\ d \in Conns /\ SameTelnet(c, d) /\ d.ansi = c.ansi /\ d.out = c.out
          /\ d.part = c.part /\ d.line = c.line /\ d.lines = c.lines
          /\ d.mode = c.mode /\ d.codes = codes
        BY <2>1, <2>2 DEF Conns, SameTelnet
    <2>5. Sound(c, d)
        BY <2>4, TextSame DEF Sound
    <2> QED
        BY <1>1, <2>3, <2>4, <2>5 DEF d, codes
<1>2. CASE ch \in {"LF", "CR", "ESC"}
    <2>1. d = Scanning(over, ch)
        BY <1>0, <1>2 DEF AnsiSequence, SequenceOver
    <2>2. Sound(c, over) /\ SameTelnet(c, over) /\ over.ansi = c.ansi /\ over.out = c.out
          /\ over.mode = "scanning" /\ over.codes = <<>>
        BY SequenceOverOf
    <2> HIDE DEF d, over
    <2>3. over \in Conns
        BY <2>2 DEF Sound
    <2>4. /\ Sound(over, d) /\ SameTelnet(over, d) /\ d.ansi = over.ansi /\ d.codes = over.codes
          /\ d.mode = IF ch = "ESC" THEN "escape" ELSE IF ch = "IAC" THEN "IAC" ELSE over.mode
          /\ Visible(d.out) = IF ch \in Printed THEN Visible(over.out) \o <<"text">>
                                                ELSE Visible(over.out)
        BY <2>1, <2>3, ScanningOf
    <2>5. ch \notin Digits \cup {"sep"} /\ ch # "m" /\ ch # "IAC" /\ ch \notin Printed
        BY <1>0, <1>2
    <2>6. /\ Sound(c, d) /\ SameTelnet(c, d) /\ d.ansi = c.ansi /\ d.codes = <<>>
          /\ d.mode = IF ch = "ESC" THEN "escape" ELSE "scanning"
          /\ Visible(d.out) = Visible(c.out)
        BY <2>2, <2>4, <2>5 DEF Sound, SameTelnet
    <2> QED
        BY <2>5, <2>6 DEF d
<1>3. CASE ch \notin Digits \cup {"sep", "LF", "CR", "ESC"}
    <2> DEFINE e == ProcessAnsiCodes(c, ch)
               a == Read1(c)
    <2>1. d = SequenceOver(e)
        BY <1>3 DEF AnsiSequence, SequenceOver
    <2>2. c.ansi \in Ansi /\ c.codes \in Seq(Digits \cup {"sep"})
        BY DEF Conns
    <2>3. a \in Written
          /\ \A x \in Attributes :
                 Count(a.html, x) - Count(a.html, Closing[x]) = On(a.ansi, x) - On(c.ansi, x)
        BY <2>2, ReadCodesKeep DEF Read1
    <2> HIDE DEF a
    <2>4. a.ansi \in Ansi /\ a.html \in Seq(Shown)
        BY <2>3 DEF Written
    <2>5. /\ Sound(c, e) /\ SameRest(c, e)
          /\ e.ansi = IF ch = "m" THEN a.ansi ELSE c.ansi
          /\ Visible(e.out) = IF ch = "m" THEN Visible(c.out) \o a.html ELSE Visible(c.out)
        <3>1. CASE ch = "m"
            <4>1. e = AppendAll([c EXCEPT !.ansi = a.ansi], a.html)
                BY <3>1 DEF ProcessAnsiCodes, a, Read1
            <4> DEFINE n == a.ansi
                       h == a.html
            <4>2. n \in Ansi /\ h \in Seq(Shown) /\ e = AppendAll([c EXCEPT !.ansi = n], h)
                  /\ \A x \in Attributes : Count(h, x) - Count(h, Closing[x]) = On(n, x) - On(c.ansi, x)
                BY <2>3, <2>4, <4>1
            <4> HIDE DEF e, n, h
            <4>3. /\ e \in Conns /\ SameRest(c, e) /\ e.ansi = n
                  /\ Visible(e.out) = Visible(c.out) \o h
                  /\ TextOK(c) => TextOK(e)
                BY <4>2, AppendAllOf
            <4> QED
                BY <3>1, <4>3 DEF n, h, Sound
        <3>2. CASE ch # "m"
            <4>1. e = c
                BY <3>2 DEF ProcessAnsiCodes
            <4> QED
                BY <3>2, <4>1 DEF SameRest, Sound
        <3> QED
            BY <3>1, <3>2
    <2> HIDE DEF e, d
    <2>6. e \in Conns
        BY <2>5 DEF Sound
    <2>7. /\ Sound(e, d) /\ SameTelnet(e, d) /\ d.ansi = e.ansi /\ d.out = e.out
          /\ d.mode = "scanning" /\ d.codes = <<>>
        BY <2>1, <2>6, SequenceOverOf
    <2>8. Sound(c, d) /\ SameTelnet(c, d)
        BY <2>5, <2>7 DEF Sound, SameRest, SameTelnet
    <2>9. ch \notin Digits \cup {"sep"} /\ ch # "ESC"
        BY <1>3
    <2> QED
        BY <2>5, <2>7, <2>8, <2>9 DEF d, a
<1> QED
    BY <1>1, <1>2, <1>3

\* What a telnet command does to the options, to the answers and to the field.
TelnetAfter(cmd, telnet, option) ==
    IF option = "ECHO" /\ cmd = "WILL" THEN telnet \ {"ECHO"}
    ELSE IF option = "ECHO" /\ cmd = "WONT" THEN telnet \cup {"ECHO"}
    ELSE IF option = "EOR_OPT" /\ cmd = "WILL" THEN telnet \cup {"EOR_OPT"}
    ELSE IF option = "EOR_OPT" /\ cmd = "WONT" THEN telnet \ {"EOR_OPT"}
    ELSE telnet

Answer(command, option) == <<<<command, option>>>>

AnswersTo(cmd, telnet, option) ==
    IF option = "ECHO" /\ cmd = "WILL"
        THEN IF "ECHO" \in telnet THEN Answer("DO", option) ELSE <<>>
    ELSE IF option = "ECHO" /\ cmd = "WONT"
        THEN IF "ECHO" \in telnet THEN <<>> ELSE Answer("DONT", option)
    ELSE IF option = "EOR_OPT" /\ cmd = "WILL"
        THEN (IF "EOR_OPT" \in telnet THEN <<>> ELSE Answer("DO", option)) \o Answer("DONT", option)
    ELSE IF option = "EOR_OPT" /\ cmd = "WONT"
        THEN IF "EOR_OPT" \in telnet THEN Answer("DONT", option) ELSE <<>>
    ELSE IF cmd = "WILL" /\ option \notin {"ECHO", "EOR_OPT"} THEN Answer("DONT", option)
    ELSE IF cmd = "DO" THEN Answer("WONT", option)
    ELSE <<>>

FieldAfter(cmd, telnet, field, option) ==
    IF option = "ECHO" /\ cmd = "WILL" /\ "ECHO" \in telnet
        THEN SetEchoState(field, "telnet", FALSE)
    ELSE IF option = "ECHO" /\ cmd = "WONT" /\ "ECHO" \notin telnet
        THEN SetEchoState(field, "on", FALSE)
    ELSE field

\* The text and the place in it aside.
SameText(c, d) ==
    /\ d.mode = c.mode /\ d.codes = c.codes /\ d.cmd = c.cmd /\ d.ansi = c.ansi
    /\ d.out = c.out /\ d.part = c.part /\ d.line = c.line /\ d.lines = c.lines

AnswerType == Commands \X Chars

LEMMA SetEchoStateType ==
    ASSUME NEW f \in Fields, NEW new \in EchoStates, NEW preserve \in BOOLEAN
    PROVE  SetEchoState(f, new, preserve) \in Fields
<1>1. "" \in Texts /\ {"plain", "password"} \subseteq {"plain", "password"}
    BY DEF Texts
<1> DEFINE g == [f EXCEPT !.echo = new]
<1>2. g \in Fields
    BY DEF Fields
<1> HIDE DEF g
<1>3. SetEcho(g, new = "on", preserve) \in Fields
    <2>1. CASE new = "on"
        BY <1>1, <1>2, <2>1 DEF SetEcho, Fields
    <2>2. CASE new # "on"
        BY <1>1, <1>2, <2>2 DEF SetEcho, Fields
    <2> QED
        BY <2>1, <2>2
<1>4. SetEchoState(f, new, preserve) = IF f.echo = new THEN f ELSE SetEcho(g, new = "on", preserve)
    BY DEF SetEchoState, g
<1> QED
    BY <1>3, <1>4

LEMMA TelnetSendOf ==
    ASSUME NEW c \in Conns, NEW command \in Commands, NEW option \in Chars
    PROVE  LET d == TelnetSend(c, command, option)
           IN  /\ d \in Conns /\ SameText(c, d) /\ d.telnet = c.telnet /\ d.field = c.field
               /\ d.answers = c.answers \o Answer(command, option)
<1> DEFINE d == TelnetSend(c, command, option)
           answers == c.answers
           x == <<command, option>>
           new == Append(answers, x)
<1>1. x \in AnswerType /\ answers \in Seq(AnswerType)
    BY DEF AnswerType, Conns
<1>2. d = [c EXCEPT !.answers = new]
    BY DEF TelnetSend, Conns
<1>3. Answer(command, option) = <<x>>
    BY DEF Answer
<1> HIDE DEF d, x, answers
<1>4. new = answers \o <<x>> /\ new \in Seq(AnswerType)
    BY <1>1, AppendIsConcat
<1> HIDE DEF new
<1>5. new \in Seq(Commands \X Chars)
    BY <1>4 DEF AnswerType
<1>6. d \in Conns /\ SameText(c, d) /\ d.telnet = c.telnet /\ d.field = c.field /\ d.answers = new
    BY <1>2, <1>5 DEF Conns, SameText
<1> QED
    BY <1>3, <1>4, <1>6 DEF d, answers

\* Options and field, before the answer.
OptionsSet(c, telnet, field) == [c EXCEPT !.field = field, !.telnet = telnet]

LEMMA OptionsSetOf ==
    ASSUME NEW c \in Conns, NEW telnet \in SUBSET {"ECHO", "EOR_OPT"}, NEW field \in Fields
    PROVE  LET d == OptionsSet(c, telnet, field)
           IN  /\ d \in Conns /\ SameText(c, d) /\ d.telnet = telnet /\ d.field = field
               /\ d.answers = c.answers
BY DEF Conns, SameText, OptionsSet

LEMMA DoTelnetCmdOf ==
    ASSUME NEW c \in Conns, NEW option \in Chars
    PROVE  LET d == DoTelnetCmd(c, option)
           IN  /\ d \in Conns /\ SameText(c, d)
               /\ d.telnet = TelnetAfter(c.cmd, c.telnet, option)
               /\ d.answers = c.answers \o AnswersTo(c.cmd, c.telnet, option)
               /\ d.field = FieldAfter(c.cmd, c.telnet, c.field, option)
<1> DEFINE d == DoTelnetCmd(c, option)
           Same == d = c
<1>0. /\ c.answers \in Seq(AnswerType) /\ c.telnet \in SUBSET {"ECHO", "EOR_OPT"}
      /\ c.field \in Fields /\ c.cmd \in Commands
      /\ {"DO", "DONT", "WILL", "WONT"} = Commands
    BY DEF Conns, AnswerType, Commands
<1>a. SameText(c, c) /\ c.answers \o <<>> = c.answers
    <2> DEFINE a == c.answers
    <2>1. a \in Seq(AnswerType)
        BY <1>0
    <2> HIDE DEF a
    <2>2. a \o <<>> = a
        BY <2>1
    <2> QED
        BY <2>2 DEF SameText, a
<1>1. CASE c.cmd = "WILL" /\ option = "ECHO"
    <2>1. d = WillEcho(c)
        BY <1>1 DEF DoTelnetCmd
    <2>2. CASE "ECHO" \in c.telnet
        <3> DEFINE telnet == c.telnet \ {"ECHO"}
                   field == SetEchoState(c.field, "telnet", FALSE)
                   e == OptionsSet(c, telnet, field)
        <3>1. d = TelnetSend(e, "DO", "ECHO")
            BY <2>1, <2>2 DEF WillEcho, OptionsSet
        <3>2. telnet \in SUBSET {"ECHO", "EOR_OPT"} /\ field \in Fields
            BY <1>0, SetEchoStateType DEF EchoStates
        <3>3. TelnetAfter(c.cmd, c.telnet, option) = telnet
              /\ FieldAfter(c.cmd, c.telnet, c.field, option) = field
              /\ AnswersTo(c.cmd, c.telnet, option) = Answer("DO", "ECHO")
            BY <1>1, <2>2 DEF TelnetAfter, FieldAfter, AnswersTo
        <3> HIDE DEF telnet, field, e, d
        <3>4. e \in Conns /\ SameText(c, e) /\ e.telnet = telnet /\ e.field = field
              /\ e.answers = c.answers
            BY <3>2, OptionsSetOf DEF e
        <3>5. "DO" \in Commands /\ "ECHO" \in Chars
            BY <1>1, <1>0
        <3>6. d \in Conns /\ SameText(e, d) /\ d.telnet = e.telnet /\ d.field = e.field
              /\ d.answers = e.answers \o Answer("DO", "ECHO")
            BY <3>1, <3>4, <3>5, TelnetSendOf
        <3>7. SameText(c, d)
            BY <3>4, <3>6 DEF SameText
        <3> QED
            BY <3>3, <3>4, <3>6, <3>7 DEF d
    <2>3. CASE "ECHO" \notin c.telnet
        <3>1. d = c
            BY <2>1, <2>3 DEF WillEcho
        <3>2. TelnetAfter(c.cmd, c.telnet, option) = c.telnet
              /\ FieldAfter(c.cmd, c.telnet, c.field, option) = c.field
              /\ AnswersTo(c.cmd, c.telnet, option) = <<>>
            BY <1>1, <2>3 DEF TelnetAfter, FieldAfter, AnswersTo
        <3> QED
            BY <1>a, <3>1, <3>2
    <2> QED
        BY <2>2, <2>3
<1>2. CASE c.cmd = "WONT" /\ option = "ECHO"
    <2>1. d = WontEcho(c)
        BY <1>2 DEF DoTelnetCmd
    <2>2. CASE "ECHO" \notin c.telnet
        <3> DEFINE telnet == c.telnet \cup {"ECHO"}
                   field == SetEchoState(c.field, "on", FALSE)
                   e == OptionsSet(c, telnet, field)
        <3>1. d = TelnetSend(e, "DONT", "ECHO")
            BY <2>1, <2>2 DEF WontEcho, OptionsSet
        <3>2. telnet \in SUBSET {"ECHO", "EOR_OPT"} /\ field \in Fields
            BY <1>0, SetEchoStateType DEF EchoStates
        <3>3. TelnetAfter(c.cmd, c.telnet, option) = telnet
              /\ FieldAfter(c.cmd, c.telnet, c.field, option) = field
              /\ AnswersTo(c.cmd, c.telnet, option) = Answer("DONT", "ECHO")
            BY <1>2, <2>2 DEF TelnetAfter, FieldAfter, AnswersTo
        <3> HIDE DEF telnet, field, e, d
        <3>4. e \in Conns /\ SameText(c, e) /\ e.telnet = telnet /\ e.field = field
              /\ e.answers = c.answers
            BY <3>2, OptionsSetOf DEF e
        <3>5. "DONT" \in Commands /\ "ECHO" \in Chars
            BY <1>2, <1>0
        <3>6. d \in Conns /\ SameText(e, d) /\ d.telnet = e.telnet /\ d.field = e.field
              /\ d.answers = e.answers \o Answer("DONT", "ECHO")
            BY <3>1, <3>4, <3>5, TelnetSendOf
        <3>7. SameText(c, d)
            BY <3>4, <3>6 DEF SameText
        <3> QED
            BY <3>3, <3>4, <3>6, <3>7 DEF d
    <2>3. CASE "ECHO" \in c.telnet
        <3>1. d = c
            BY <2>1, <2>3 DEF WontEcho
        <3>2. TelnetAfter(c.cmd, c.telnet, option) = c.telnet
              /\ FieldAfter(c.cmd, c.telnet, c.field, option) = c.field
              /\ AnswersTo(c.cmd, c.telnet, option) = <<>>
            BY <1>2, <2>3 DEF TelnetAfter, FieldAfter, AnswersTo
        <3> QED
            BY <1>a, <3>1, <3>2
    <2> QED
        BY <2>2, <2>3
<1>3. CASE c.cmd = "WILL" /\ option = "EOR_OPT"
    <2>1. d = WillEOR(c)
        BY <1>3 DEF DoTelnetCmd
    <2> DEFINE telnet == c.telnet \cup {"EOR_OPT"}
               e == OptionsSet(c, telnet, c.field)
               f == TelnetSend(e, "DO", "EOR_OPT")
               accepted == IF "EOR_OPT" \in c.telnet THEN c ELSE f
               first == IF "EOR_OPT" \in c.telnet THEN <<>> ELSE Answer("DO", "EOR_OPT")
    <2>2. TelnetAfter(c.cmd, c.telnet, option) = telnet
          /\ FieldAfter(c.cmd, c.telnet, c.field, option) = c.field
          /\ AnswersTo(c.cmd, c.telnet, option) = first \o Answer("DONT", "EOR_OPT")
        BY <1>3 DEF TelnetAfter, FieldAfter, AnswersTo
    <2>3. telnet \in SUBSET {"ECHO", "EOR_OPT"} /\ {"DO", "DONT"} \subseteq Commands /\ "EOR_OPT" \in Chars
        BY <1>0, <1>3
    <2>4. e = [c EXCEPT !.telnet = telnet]
        BY <1>0 DEF OptionsSet, Conns
    <2>5. d = TelnetSend(accepted, "DONT", "EOR_OPT")
        <3>1. CASE "EOR_OPT" \in c.telnet
            BY <2>1, <3>1 DEF WillEOR
        <3>2. CASE "EOR_OPT" \notin c.telnet
            <4>1. d = TelnetSend(TelnetSend([c EXCEPT !.telnet = telnet], "DO", "EOR_OPT"), "DONT", "EOR_OPT")
                BY <2>1, <3>2 DEF WillEOR
            <4> QED
                BY <2>4, <3>2, <4>1
        <3> QED
            BY <3>1, <3>2
    <2> HIDE DEF e, d
    <2>6. e \in Conns /\ SameText(c, e) /\ e.telnet = telnet /\ e.field = c.field
          /\ e.answers = c.answers
        BY <1>0, <2>3, OptionsSetOf DEF e
    <2> HIDE DEF f
    <2>7. f \in Conns /\ SameText(e, f) /\ f.telnet = e.telnet /\ f.field = e.field
          /\ f.answers = e.answers \o Answer("DO", "EOR_OPT")
        BY <2>3, <2>6, TelnetSendOf DEF f
    <2> HIDE DEF telnet
    <2>8. accepted \in Conns /\ SameText(c, accepted) /\ accepted.telnet = telnet
          /\ accepted.field = c.field /\ accepted.answers = c.answers \o first
        <3>1. CASE "EOR_OPT" \in c.telnet
            <4>1. telnet = c.telnet
                BY <3>1 DEF telnet
            <4> QED
                BY <1>a, <3>1, <4>1
        <3>2. CASE "EOR_OPT" \notin c.telnet
            <4>1. SameText(c, f)
                BY <2>6, <2>7 DEF SameText
            <4> QED
                BY <2>6, <2>7, <3>2, <4>1
        <3> QED
            BY <3>1, <3>2
    <2>9. Answer("DO", "EOR_OPT") \in Seq(AnswerType) /\ Answer("DONT", "EOR_OPT") \in Seq(AnswerType)
          /\ first \in Seq(AnswerType)
        BY <2>3 DEF AnswerType, Answer
    <2> HIDE DEF accepted, first
    <2>10. d \in Conns /\ SameText(accepted, d) /\ d.telnet = accepted.telnet
           /\ d.field = accepted.field /\ d.answers = accepted.answers \o Answer("DONT", "EOR_OPT")
        BY <2>3, <2>5, <2>8, TelnetSendOf
    <2>11. SameText(c, d)
        BY <2>8, <2>10 DEF SameText
    <2>12. d.answers = c.answers \o (first \o Answer("DONT", "EOR_OPT"))
        <3> DEFINE a == c.answers
                   b == Answer("DONT", "EOR_OPT")
        <3>1. a \in Seq(AnswerType) /\ b \in Seq(AnswerType)
            BY <1>0, <2>9
        <3> HIDE DEF a, b
        <3>2. (a \o first) \o b = a \o (first \o b)
            BY <2>9, <3>1, ConcatAssociative
        <3> QED
            BY <2>8, <2>10, <3>2 DEF a, b
    <2> QED
        BY <2>2, <2>8, <2>10, <2>11, <2>12 DEF d
<1>4. CASE c.cmd = "WONT" /\ option = "EOR_OPT"
    <2>1. d = WontEOR(c)
        BY <1>4 DEF DoTelnetCmd
    <2>2. CASE "EOR_OPT" \in c.telnet
        <3> DEFINE telnet == c.telnet \ {"EOR_OPT"}
                   e == OptionsSet(c, telnet, c.field)
        <3>1. d = TelnetSend(e, "DONT", "EOR_OPT")
            <4>1. d = TelnetSend([c EXCEPT !.telnet = telnet], "DONT", "EOR_OPT")
                BY <2>1, <2>2 DEF WontEOR
            <4>2. e = [c EXCEPT !.telnet = telnet]
                BY <1>0 DEF OptionsSet, Conns
            <4> QED
                BY <4>1, <4>2
        <3>2. telnet \in SUBSET {"ECHO", "EOR_OPT"}
            BY <1>0
        <3>3. TelnetAfter(c.cmd, c.telnet, option) = telnet
              /\ FieldAfter(c.cmd, c.telnet, c.field, option) = c.field
              /\ AnswersTo(c.cmd, c.telnet, option) = Answer("DONT", "EOR_OPT")
            BY <1>4, <2>2 DEF TelnetAfter, FieldAfter, AnswersTo
        <3> HIDE DEF telnet, e, d
        <3>4. e \in Conns /\ SameText(c, e) /\ e.telnet = telnet /\ e.field = c.field
              /\ e.answers = c.answers
            BY <1>0, <3>2, OptionsSetOf DEF e
        <3>5. "DONT" \in Commands /\ "EOR_OPT" \in Chars
            BY <1>4, <1>0
        <3>6. d \in Conns /\ SameText(e, d) /\ d.telnet = e.telnet /\ d.field = e.field
              /\ d.answers = e.answers \o Answer("DONT", "EOR_OPT")
            BY <3>1, <3>4, <3>5, TelnetSendOf
        <3>7. SameText(c, d)
            BY <3>4, <3>6 DEF SameText
        <3> QED
            BY <3>3, <3>4, <3>6, <3>7 DEF d
    <2>3. CASE "EOR_OPT" \notin c.telnet
        <3>1. d = c
            BY <2>1, <2>3 DEF WontEOR
        <3>2. TelnetAfter(c.cmd, c.telnet, option) = c.telnet
              /\ FieldAfter(c.cmd, c.telnet, c.field, option) = c.field
              /\ AnswersTo(c.cmd, c.telnet, option) = <<>>
            BY <1>4, <2>3 DEF TelnetAfter, FieldAfter, AnswersTo
        <3> QED
            BY <1>a, <3>1, <3>2
    <2> QED
        BY <2>2, <2>3
<1>5. CASE c.cmd = "WILL" /\ option \notin {"ECHO", "EOR_OPT"}
    <2>1. d = TelnetSend(c, "DONT", option)
        BY <1>5 DEF DoTelnetCmd
    <2>2. TelnetAfter(c.cmd, c.telnet, option) = c.telnet
          /\ FieldAfter(c.cmd, c.telnet, c.field, option) = c.field
          /\ AnswersTo(c.cmd, c.telnet, option) = Answer("DONT", option)
        BY <1>5 DEF TelnetAfter, FieldAfter, AnswersTo
    <2> HIDE DEF d
    <2>3. "DONT" \in Commands
        BY <1>0
    <2>4. d \in Conns /\ SameText(c, d) /\ d.telnet = c.telnet /\ d.field = c.field
          /\ d.answers = c.answers \o Answer("DONT", option)
        BY <2>1, <2>3, TelnetSendOf
    <2> QED
        BY <2>2, <2>4 DEF d
<1>6. CASE c.cmd = "DO"
    <2>1. d = TelnetSend(c, "WONT", option)
        BY <1>6 DEF DoTelnetCmd
    <2>2. TelnetAfter(c.cmd, c.telnet, option) = c.telnet
          /\ FieldAfter(c.cmd, c.telnet, c.field, option) = c.field
          /\ AnswersTo(c.cmd, c.telnet, option) = Answer("WONT", option)
        BY <1>6 DEF TelnetAfter, FieldAfter, AnswersTo
    <2> HIDE DEF d
    <2>3. "WONT" \in Commands
        BY <1>0
    <2>4. d \in Conns /\ SameText(c, d) /\ d.telnet = c.telnet /\ d.field = c.field
          /\ d.answers = c.answers \o Answer("WONT", option)
        BY <2>1, <2>3, TelnetSendOf
    <2> QED
        BY <2>2, <2>4 DEF d
<1>7. CASE /\ ~(c.cmd = "WILL" /\ option = "ECHO") /\ ~(c.cmd = "WONT" /\ option = "ECHO")
           /\ ~(c.cmd = "WILL" /\ option = "EOR_OPT") /\ ~(c.cmd = "WONT" /\ option = "EOR_OPT")
           /\ ~(c.cmd = "WILL" /\ option \notin {"ECHO", "EOR_OPT"}) /\ c.cmd # "DO"
    <2>1. d = c
        BY <1>7 DEF DoTelnetCmd
    <2>2. TelnetAfter(c.cmd, c.telnet, option) = c.telnet
          /\ FieldAfter(c.cmd, c.telnet, c.field, option) = c.field
          /\ AnswersTo(c.cmd, c.telnet, option) = <<>>
        BY <1>7 DEF TelnetAfter, FieldAfter, AnswersTo
    <2> QED
        BY <1>a, <2>1, <2>2
<1> QED
    BY <1>1, <1>2, <1>3, <1>4, <1>5, <1>6, <1>7

\* The end of a telnet command.
CommandOver(c, ch) == ModeSet(DoTelnetCmd(c, ch), "scanning")

LEMMA CommandOverOf ==
    ASSUME NEW c \in Conns, NEW ch \in Chars
    PROVE  LET d == CommandOver(c, ch)
           IN  /\ Sound(c, d) /\ d.mode = "scanning" /\ d.codes = c.codes /\ d.cmd = c.cmd
               /\ d.ansi = c.ansi /\ Visible(d.out) = Visible(c.out)
               /\ d.telnet = TelnetAfter(c.cmd, c.telnet, ch)
               /\ d.answers = c.answers \o AnswersTo(c.cmd, c.telnet, ch)
               /\ d.field = FieldAfter(c.cmd, c.telnet, c.field, ch)
<1> DEFINE e == DoTelnetCmd(c, ch)
           d == ModeSet(e, "scanning")
<1>1. /\ e \in Conns /\ SameText(c, e)
      /\ e.telnet = TelnetAfter(c.cmd, c.telnet, ch)
      /\ e.answers = c.answers \o AnswersTo(c.cmd, c.telnet, ch)
      /\ e.field = FieldAfter(c.cmd, c.telnet, c.field, ch)
    BY DoTelnetCmdOf
<1> HIDE DEF e
<1>2. TextOK(c) => TextOK(e)
    BY <1>1, TextSame DEF SameText
<1>3. "scanning" \in ScanStates
    BY DEF ScanStates
<1>4. /\ Sound(e, d) /\ SameTelnet(e, d) /\ d.ansi = e.ansi /\ d.out = e.out
      /\ d.mode = "scanning" /\ d.codes = e.codes
    BY <1>1, <1>3, ModeOf
<1>5. CommandOver(c, ch) = d
    BY DEF CommandOver, e
<1> HIDE DEF d
<1> QED
    BY <1>1, <1>2, <1>4, <1>5 DEF Sound, SameTelnet, SameText

\* The scanner's five states.
LEMMA ParseCharIs ==
    ASSUME NEW c \in Conns, NEW ch \in Chars
    PROVE  /\ c.mode \in ScanStates
           /\ c.mode = "scanning" => ParseChar(c, ch) = Scanning(c, ch)
           /\ c.mode = "escape" => ParseChar(c, ch) = Escape(c, ch)
           /\ c.mode = "ansi" => ParseChar(c, ch) = AnsiSequence(c, ch)
           /\ c.mode = "IAC" => ParseChar(c, ch) = TelnetIAC(c, ch)
           /\ c.mode = "cmd" => ParseChar(c, ch) = CommandOver(c, ch)
<1>1. c.mode \in ScanStates
    BY DEF Conns
<1>2. ASSUME c.mode = "scanning" PROVE ParseChar(c, ch) = Scanning(c, ch)
    BY <1>2 DEF ParseChar
<1>3. ASSUME c.mode = "escape" PROVE ParseChar(c, ch) = Escape(c, ch)
    BY <1>3 DEF ParseChar
<1>4. ASSUME c.mode = "ansi" PROVE ParseChar(c, ch) = AnsiSequence(c, ch)
    BY <1>4 DEF ParseChar
<1>5. ASSUME c.mode = "IAC" PROVE ParseChar(c, ch) = TelnetIAC(c, ch)
    BY <1>5 DEF ParseChar
<1>6. ASSUME c.mode = "cmd" PROVE ParseChar(c, ch) = CommandOver(c, ch)
    BY <1>6 DEF ParseChar, CommandOver, ModeSet
<1> QED
    BY <1>1, <1>2, <1>3, <1>4, <1>5, <1>6

\* A character leaves a connection one; only the end of a command touches the
\* field and the options.
LEMMA ParseCharSound ==
    ASSUME NEW c \in Conns, NEW ch \in Chars
    PROVE  LET d == ParseChar(c, ch)
           IN  /\ Sound(c, d)
               /\ c.mode # "cmd" => /\ d.field = c.field /\ d.telnet = c.telnet
                                    /\ d.answers = c.answers
               /\ c.mode = "cmd" => /\ d.field = FieldAfter(c.cmd, c.telnet, c.field, ch)
                                    /\ d.telnet = TelnetAfter(c.cmd, c.telnet, ch)
                                    /\ d.answers = c.answers \o AnswersTo(c.cmd, c.telnet, ch)
<1> DEFINE d == ParseChar(c, ch)
<1> HIDE DEF d
<1>1. CASE c.mode = "scanning"
    <2>1. d = Scanning(c, ch)
        BY <1>1, ParseCharIs DEF d
    <2>2. Sound(c, d) /\ SameTelnet(c, d)
        BY <2>1, ScanningOf
    <2> QED
        BY <1>1, <2>2 DEF d, SameTelnet
<1>2. CASE c.mode = "escape"
    <2>1. d = Escape(c, ch)
        BY <1>2, ParseCharIs DEF d
    <2>2. Sound(c, d) /\ SameTelnet(c, d)
        BY <2>1, EscapeOf
    <2> QED
        BY <1>2, <2>2 DEF d, SameTelnet
<1>3. CASE c.mode = "ansi"
    <2>1. d = AnsiSequence(c, ch)
        BY <1>3, ParseCharIs DEF d
    <2>2. Sound(c, d) /\ SameTelnet(c, d)
        BY <1>3, <2>1, AnsiSequenceOf
    <2> QED
        BY <1>3, <2>2 DEF d, SameTelnet
<1>4. CASE c.mode = "IAC"
    <2>1. d = TelnetIAC(c, ch)
        BY <1>4, ParseCharIs DEF d
    <2>2. Sound(c, d) /\ d.field = c.field /\ d.telnet = c.telnet /\ d.answers = c.answers
        BY <2>1, TelnetIACOf
    <2> QED
        BY <1>4, <2>2 DEF d
<1>5. CASE c.mode = "cmd"
    <2>1. d = CommandOver(c, ch)
        BY <1>5, ParseCharIs DEF d
    <2>2. /\ Sound(c, d) /\ d.field = FieldAfter(c.cmd, c.telnet, c.field, ch)
          /\ d.telnet = TelnetAfter(c.cmd, c.telnet, ch)
          /\ d.answers = c.answers \o AnswersTo(c.cmd, c.telnet, ch)
        BY <2>1, CommandOverOf
    <2> QED
        BY <1>5, <2>2 DEF d
<1> QED
    BY <1>1, <1>2, <1>3, <1>4, <1>5, ParseCharIs DEF ScanStates

\* Connections that agree agree on the next character.
LEMMA ParseCharAgrees ==
    ASSUME NEW b \in Conns, NEW c \in Conns, Agree(b, c), NEW ch \in Chars
    PROVE  Agree(ParseChar(b, ch), ParseChar(c, ch))
<1> DEFINE d == ParseChar(b, ch)
           e == ParseChar(c, ch)
<1>0. /\ b.mode = c.mode /\ b.codes = c.codes /\ b.cmd = c.cmd /\ b.telnet = c.telnet
      /\ b.ansi = c.ansi /\ b.answers = c.answers /\ Visible(b.out) = Visible(c.out)
    BY DEF Agree
<1> HIDE DEF d, e
<1>1. CASE c.mode = "scanning"
    <2>1. d = Scanning(b, ch) /\ e = Scanning(c, ch)
        BY <1>0, <1>1, ParseCharIs DEF d, e
    <2>2. /\ SameTelnet(b, d) /\ d.ansi = b.ansi /\ d.codes = b.codes
          /\ d.mode = IF ch = "ESC" THEN "escape" ELSE IF ch = "IAC" THEN "IAC" ELSE b.mode
          /\ Visible(d.out) = IF ch \in Printed THEN Visible(b.out) \o <<"text">>
                                                ELSE Visible(b.out)
        BY <2>1, ScanningOf
    <2>3. /\ SameTelnet(c, e) /\ e.ansi = c.ansi /\ e.codes = c.codes
          /\ e.mode = IF ch = "ESC" THEN "escape" ELSE IF ch = "IAC" THEN "IAC" ELSE c.mode
          /\ Visible(e.out) = IF ch \in Printed THEN Visible(c.out) \o <<"text">>
                                                ELSE Visible(c.out)
        BY <2>1, ScanningOf
    <2> QED
        BY <1>0, <2>2, <2>3 DEF Agree, SameTelnet, d, e
<1>2. CASE c.mode = "escape"
    <2>1. d = Escape(b, ch) /\ e = Escape(c, ch)
        BY <1>0, <1>2, ParseCharIs DEF d, e
    <2>2. /\ SameTelnet(b, d) /\ d.ansi = b.ansi /\ d.codes = b.codes
          /\ d.mode = IF ch = "[" THEN "ansi" ELSE "scanning"
          /\ Visible(d.out) = IF ch = "[" THEN Visible(b.out)
                              ELSE Visible(b.out) \o <<"escape", "text">>
        BY <2>1, EscapeOf
    <2>3. /\ SameTelnet(c, e) /\ e.ansi = c.ansi /\ e.codes = c.codes
          /\ e.mode = IF ch = "[" THEN "ansi" ELSE "scanning"
          /\ Visible(e.out) = IF ch = "[" THEN Visible(c.out)
                              ELSE Visible(c.out) \o <<"escape", "text">>
        BY <2>1, EscapeOf
    <2> QED
        BY <1>0, <2>2, <2>3 DEF Agree, SameTelnet, d, e
<1>3. CASE c.mode = "ansi"
    <2>1. d = AnsiSequence(b, ch) /\ e = AnsiSequence(c, ch)
        BY <1>0, <1>3, ParseCharIs DEF d, e
    <2>0. Read1(b) = Read1(c) /\ b.mode = "ansi"
        BY <1>0, <1>3 DEF Read1
    <2>2. /\ SameTelnet(b, d)
          /\ d.mode = IF ch \in Digits \cup {"sep"} THEN "ansi"
                      ELSE IF ch = "ESC" THEN "escape" ELSE "scanning"
          /\ d.codes = IF ch \in Digits \cup {"sep"} THEN Append(b.codes, ch) ELSE <<>>
          /\ d.ansi = IF ch = "m" THEN Read1(b).ansi ELSE b.ansi
          /\ Visible(d.out) = IF ch = "m" THEN Visible(b.out) \o Read1(b).html
                                          ELSE Visible(b.out)
        BY <2>0, <2>1, AnsiSequenceOf
    <2>3. /\ SameTelnet(c, e)
          /\ e.mode = IF ch \in Digits \cup {"sep"} THEN "ansi"
                      ELSE IF ch = "ESC" THEN "escape" ELSE "scanning"
          /\ e.codes = IF ch \in Digits \cup {"sep"} THEN Append(c.codes, ch) ELSE <<>>
          /\ e.ansi = IF ch = "m" THEN Read1(c).ansi ELSE c.ansi
          /\ Visible(e.out) = IF ch = "m" THEN Visible(c.out) \o Read1(c).html
                                          ELSE Visible(c.out)
        BY <1>3, <2>1, AnsiSequenceOf
    <2> QED
        BY <1>0, <2>0, <2>2, <2>3 DEF Agree, SameTelnet, d, e
<1>4. CASE c.mode = "IAC"
    <2>1. d = TelnetIAC(b, ch) /\ e = TelnetIAC(c, ch)
        BY <1>0, <1>4, ParseCharIs DEF d, e
    <2>2. /\ d.telnet = b.telnet /\ d.answers = b.answers /\ d.ansi = b.ansi /\ d.codes = b.codes
          /\ d.cmd = IF ch \in Commands THEN ch ELSE b.cmd
          /\ d.mode = IF ch \in Commands THEN "cmd" ELSE "scanning"
          /\ Visible(d.out) = IF ch \in Commands \cup {"GA"} THEN Visible(b.out)
                              ELSE Visible(b.out) \o <<"IAC", "text">>
        BY <2>1, TelnetIACOf
    <2>3. /\ e.telnet = c.telnet /\ e.answers = c.answers /\ e.ansi = c.ansi /\ e.codes = c.codes
          /\ e.cmd = IF ch \in Commands THEN ch ELSE c.cmd
          /\ e.mode = IF ch \in Commands THEN "cmd" ELSE "scanning"
          /\ Visible(e.out) = IF ch \in Commands \cup {"GA"} THEN Visible(c.out)
                              ELSE Visible(c.out) \o <<"IAC", "text">>
        BY <2>1, TelnetIACOf
    <2> QED
        BY <1>0, <2>2, <2>3 DEF Agree, d, e
<1>5. CASE c.mode = "cmd"
    <2>1. d = CommandOver(b, ch) /\ e = CommandOver(c, ch)
        BY <1>0, <1>5, ParseCharIs DEF d, e
    <2>2. /\ d.mode = "scanning" /\ d.codes = b.codes /\ d.cmd = b.cmd
          /\ d.ansi = b.ansi /\ Visible(d.out) = Visible(b.out)
          /\ d.telnet = TelnetAfter(b.cmd, b.telnet, ch)
          /\ d.answers = b.answers \o AnswersTo(b.cmd, b.telnet, ch)
        BY <2>1, CommandOverOf
    <2>3. /\ e.mode = "scanning" /\ e.codes = c.codes /\ e.cmd = c.cmd
          /\ e.ansi = c.ansi /\ Visible(e.out) = Visible(c.out)
          /\ e.telnet = TelnetAfter(c.cmd, c.telnet, ch)
          /\ e.answers = c.answers \o AnswersTo(c.cmd, c.telnet, ch)
        BY <2>1, CommandOverOf
    <2> QED
        BY <1>0, <2>2, <2>3 DEF Agree, d, e
<1> QED
    BY <1>1, <1>2, <1>3, <1>4, <1>5, ParseCharIs DEF ScanStates, d, e

-----------------------------------------------------------------------------
(* Packets. *)

Scans == [conn : Conns, behind : {"none", "NUL", "CR", "LF"}]

Start(c) == [conn |-> c, behind |-> "none"]

\* After a newline the scanner is outside sequences.
Placed(s) == s.behind \in {"CR", "LF"} => s.conn.mode = "scanning"

LEMMA ScanIs ==
    ASSUME NEW s \in Scans, NEW ch \in Chars
    PROVE  /\ Scan(s, ch) \in Scans
           /\ \/ Scan(s, ch).conn = s.conn
              \/ Scan(s, ch).conn = ParseChar(s.conn, ch)
           /\ Placed(s) => Placed(Scan(s, ch))
<1>0. s.conn \in Conns /\ s.behind \in {"none", "NUL", "CR", "LF"}
    BY DEF Scans
<1>1. CASE s.behind = "NUL" \/ ch = "NUL"
    <2>1. Scan(s, ch) = [s EXCEPT !.behind = "NUL"]
        BY <1>1 DEF Scan
    <2> QED
        BY <2>1 DEF Scans, Placed
<1>2. CASE ~(s.behind = "NUL" \/ ch = "NUL") /\ <<s.behind, ch>> \in Pairs
    <2>1. Scan(s, ch) = [s EXCEPT !.behind = "none"]
        BY <1>2 DEF Scan
    <2> QED
        BY <2>1 DEF Scans, Placed
<1>3. CASE ~(s.behind = "NUL" \/ ch = "NUL") /\ <<s.behind, ch>> \notin Pairs
    <2> DEFINE c == s.conn
               d == ParseChar(c, ch)
               behind == IF EndsLine(c, ch) THEN ch ELSE "none"
    <2>1. Scan(s, ch) = [conn |-> d, behind |-> behind]
        BY <1>3 DEF Scan
    <2>2. d \in Conns
        BY <1>0, ParseCharSound DEF Sound
    <2>3. behind \in {"none", "NUL", "CR", "LF"}
        BY DEF EndsLine
    <2>4. ASSUME EndsLine(c, ch) PROVE d.mode = "scanning"
        <3>1. ch \in {"LF", "CR"} /\ c.mode \in {"scanning", "ansi"} /\ c \in Conns
            BY <1>0, <2>4 DEF EndsLine
        <3>0. ch \notin Digits \cup {"sep"} /\ ch # "ESC" /\ ch # "IAC"
            BY <3>1 DEF Digits, ToSet, Numerals
        <3> HIDE DEF c, d
        <3>2. CASE c.mode = "scanning"
            <4>1. d = Scanning(c, ch)
                BY <3>1, <3>2, ParseCharIs DEF d
            <4>2. d.mode = IF ch = "ESC" THEN "escape" ELSE IF ch = "IAC" THEN "IAC" ELSE c.mode
                BY <3>1, <4>1, ScanningOf
            <4> QED
                BY <3>0, <3>2, <4>2
        <3>3. CASE c.mode = "ansi"
            <4>1. d = AnsiSequence(c, ch)
                BY <3>1, <3>3, ParseCharIs DEF d
            <4>2. d.mode = IF ch \in Digits \cup {"sep"} THEN "ansi"
                           ELSE IF ch = "ESC" THEN "escape" ELSE "scanning"
                BY <3>1, <3>3, <4>1, AnsiSequenceOf
            <4> QED
                BY <3>0, <4>2
        <3> QED
            BY <3>1, <3>2, <3>3
    <2> HIDE DEF c, d
    <2>5. behind \in {"CR", "LF"} => d.mode = "scanning"
        BY <2>4
    <2> HIDE DEF behind
    <2> QED
        BY <2>1, <2>2, <2>3, <2>5 DEF Scans, Placed, c, d
<1> QED
    BY <1>1, <1>2, <1>3

\* The connections and what is behind them: a newline that one of them takes
\* for half of a pair changes nothing for the other.
Alike(s, t) ==
    /\ Agree(s.conn, t.conn) /\ Placed(s) /\ Placed(t)
    /\ s.behind # "NUL" /\ t.behind # "NUL"

LEMMA ScanAlike ==
    ASSUME NEW s \in Scans, NEW t \in Scans, Alike(s, t), NEW ch \in Chars, ch # "NUL"
    PROVE  Alike(Scan(s, ch), Scan(t, ch))
<1>0. /\ s.conn \in Conns /\ t.conn \in Conns /\ Agree(s.conn, t.conn)
      /\ s.behind \in {"none", "CR", "LF"} /\ t.behind \in {"none", "CR", "LF"}
      /\ s.conn.mode = t.conn.mode
    BY DEF Scans, Alike, Agree
<1>1. Placed(Scan(s, ch)) /\ Placed(Scan(t, ch)) /\ Scan(s, ch) \in Scans /\ Scan(t, ch) \in Scans
    BY ScanIs DEF Alike
<1>2. Scan(s, ch).behind # "NUL" /\ Scan(t, ch).behind # "NUL"
    <2>1. ASSUME NEW u \in Scans, u.behind # "NUL" PROVE Scan(u, ch).behind # "NUL"
        <3>1. CASE <<u.behind, ch>> \in Pairs
            <4>1. Scan(u, ch) = [u EXCEPT !.behind = "none"]
                BY <2>1, <3>1 DEF Scan
            <4> QED
                BY <4>1 DEF Scans
        <3>2. CASE <<u.behind, ch>> \notin Pairs
            <4> DEFINE d == ParseChar(u.conn, ch)
            <4> HIDE DEF d
            <4>1. Scan(u, ch) = [conn |-> d, behind |-> IF EndsLine(u.conn, ch) THEN ch ELSE "none"]
                BY <2>1, <3>2 DEF Scan, d
            <4> QED
                BY <4>1
        <3> QED
            BY <3>1, <3>2
    <2> QED
        BY <1>0, <2>1
<1> DEFINE b == s.conn
           c == t.conn
\* A newline outside sequences.
<1>3. ASSUME NEW d \in Conns, d.mode = "scanning", ch \in {"CR", "LF"}
      PROVE  Agree(ParseChar(d, ch), d)
    <2> DEFINE e == ParseChar(d, ch)
    <2>1. e = Scanning(d, ch)
        BY <1>3, ParseCharIs
    <2>2. ch \notin Printed /\ ch # "ESC" /\ ch # "IAC"
        BY <1>3 DEF Printed, Digits, ToSet, Numerals
    <2> HIDE DEF e
    <2>3. /\ SameTelnet(d, e) /\ e.ansi = d.ansi /\ e.codes = d.codes
          /\ e.mode = IF ch = "ESC" THEN "escape" ELSE IF ch = "IAC" THEN "IAC" ELSE d.mode
          /\ Visible(e.out) = IF ch \in Printed THEN Visible(d.out) \o <<"text">>
                                                ELSE Visible(d.out)
        BY <2>1, ScanningOf
    <2> QED
        BY <2>2, <2>3 DEF Agree, SameTelnet, e
<1>4. ASSUME NEW u \in Scans, u.behind # "NUL", <<u.behind, ch>> \in Pairs, Placed(u)
      PROVE  Scan(u, ch).conn = u.conn /\ u.conn.mode = "scanning" /\ ch \in {"CR", "LF"}
    <2>1. Scan(u, ch) = [u EXCEPT !.behind = "none"]
        BY <1>4 DEF Scan
    <2>2. u.behind \in {"CR", "LF"} /\ ch \in {"CR", "LF"}
        BY <1>4 DEF Pairs
    <2> QED
        BY <1>4, <2>1, <2>2 DEF Scans, Placed
<1>5. ASSUME NEW u \in Scans, u.behind # "NUL", <<u.behind, ch>> \notin Pairs
      PROVE  Scan(u, ch).conn = ParseChar(u.conn, ch)
    <2> DEFINE d == ParseChar(u.conn, ch)
    <2> HIDE DEF d
    <2>1. Scan(u, ch) = [conn |-> d, behind |-> IF EndsLine(u.conn, ch) THEN ch ELSE "none"]
        BY <1>5 DEF Scan, d
    <2> QED
        BY <2>1 DEF d
<1>6. \A x, y : Agree(x, y) => Agree(y, x)
    BY DEF Agree
<1>7. \A x, y, z : Agree(x, y) /\ Agree(y, z) => Agree(x, z)
    BY DEF Agree
<1>8. Agree(ParseChar(b, ch), ParseChar(c, ch))
    BY <1>0, ParseCharAgrees
<1> HIDE DEF b, c
<1>9. Agree(Scan(s, ch).conn, Scan(t, ch).conn)
    <2>0. b \in Conns /\ c \in Conns /\ Agree(b, c) /\ b = s.conn /\ c = t.conn
          /\ s.behind # "NUL" /\ t.behind # "NUL" /\ Placed(s) /\ Placed(t) /\ b.mode = c.mode
        BY <1>0 DEF b, c, Alike
    <2>1. CASE <<s.behind, ch>> \in Pairs /\ <<t.behind, ch>> \in Pairs
        BY <1>4, <2>0, <2>1
    <2>2. CASE <<s.behind, ch>> \in Pairs /\ <<t.behind, ch>> \notin Pairs
        <3>1. Scan(s, ch).conn = b /\ b.mode = "scanning" /\ ch \in {"CR", "LF"}
              /\ Scan(t, ch).conn = ParseChar(c, ch)
            BY <1>4, <1>5, <2>0, <2>2
        <3>2. Agree(ParseChar(c, ch), c)
            BY <1>3, <2>0, <3>1
        <3> QED
            BY <1>6, <1>7, <2>0, <3>1, <3>2
    <2>3. CASE <<s.behind, ch>> \notin Pairs /\ <<t.behind, ch>> \in Pairs
        <3>1. Scan(t, ch).conn = c /\ c.mode = "scanning" /\ ch \in {"CR", "LF"}
              /\ Scan(s, ch).conn = ParseChar(b, ch)
            BY <1>4, <1>5, <2>0, <2>3
        <3>2. Agree(ParseChar(b, ch), b)
            BY <1>3, <2>0, <3>1
        <3> QED
            BY <1>7, <2>0, <3>1, <3>2
    <2>4. CASE <<s.behind, ch>> \notin Pairs /\ <<t.behind, ch>> \notin Pairs
        BY <1>5, <1>8, <2>0, <2>4
    <2> QED
        BY <2>1, <2>2, <2>3, <2>4
<1> QED
    BY <1>1, <1>2, <1>9 DEF Alike

-----------------------------------------------------------------------------
(* A packet, character by character.                                          *)

\* The packet `p` after its first i characters.
At(c, p, i) == TheOne(ScanPacket(c, p)[i])

LEMMA ScanPacketSteps ==
    ASSUME NEW c \in Conns, NEW p \in Seq(Chars)
    PROVE  \E f \in [0 .. Len(p) -> Scans] :
               /\ f[0] = Start(c)
               /\ \A i \in 1 .. Len(p) : f[i] = Scan(f[i - 1], p[i])
               /\ \A i \in 0 .. Len(p) : ScanPacket(c, p)[i] = {f[i]}
<1> DEFINE N == Len(p)
           z == [conn |-> c, behind |-> "none"]
           g == [q \in Scans \X (1 .. N) |-> Scan(q[1], p[q[2]])]
           D(r) == [i \in 0 .. N |-> IF i = 0 THEN {z}
                                     ELSE {Scan(s, p[i]) : s \in r[i - 1]}]
           Q(r) == r = D(r)
<1>1. N \in Nat /\ z \in Scans /\ \A i \in 1 .. N : p[i] \in Chars
    <2>1. z \in Scans
        BY DEF Scans
    <2> QED
        BY <2>1
<1>2. g \in [Scans \X (1 .. N) -> Scans]
    BY <1>1, ScanIs
<1> HIDE DEF z, g
<1>3. PICK f \in Foldings(N, Scans, z, g) : TRUE
    BY <1>1, <1>2, FoldIsDefined
<1>4. f \in [0 .. N -> Scans] /\ f[0] = z /\ \A i \in 1 .. N : f[i] = g[<<f[i - 1], i>>]
    BY <1>3 DEF Foldings
<1>5. \A i \in 1 .. N : f[i] = Scan(f[i - 1], p[i])
    <2> TAKE i \in 1 .. N
    <2>1. <<f[i - 1], i>> \in Scans \X (1 .. N)
        BY <1>4
    <2> QED
        BY <1>4, <2>1 DEF g
<1> DEFINE h == [i \in 0 .. N |-> {f[i]}]
<1>6. Q(h)
    <2>1. ASSUME NEW i \in 0 .. N PROVE h[i] = D(h)[i]
        <3>1. CASE i = 0
            BY <1>4, <3>1
        <3>2. CASE i # 0
            <4>1. i \in 1 .. N /\ i - 1 \in 0 .. N
                BY <3>2
            <4>2. h[i - 1] = {f[i - 1]} /\ h[i] = {Scan(f[i - 1], p[i])}
                BY <1>5, <4>1
            <4>3. D(h)[i] = {Scan(s, p[i]) : s \in h[i - 1]}
                BY <3>2
            <4> HIDE DEF h
            <4> QED
                BY <4>2, <4>3
        <3> QED
            BY <3>1, <3>2
    <2> QED
        BY <2>1
<1> DEFINE r == CHOOSE r : Q(r)
<1>7. Q(r)
    <2> HIDE DEF h
    <2>1. \E q : Q(q)
        BY <1>6
    <2> HIDE DEF Q
    <2> QED
        BY <2>1
<1>8. ScanPacket(c, p) = r
    BY DEF ScanPacket, z
<1> HIDE DEF r
<1>9. \A i \in 0 .. N : r[i] = {f[i]}
    <2> DEFINE T == {i \in 0 .. N : r[i] = {f[i]}}
    <2>1. 0 \in T
        BY <1>1, <1>4, <1>7
    <2>2. ASSUME NEW i \in 1 .. N, i - 1 \in T PROVE i \in T
        <3>1. r[i - 1] = {f[i - 1]} /\ i \in 0 .. N
            BY <2>2
        <3>2. r[i] = {Scan(s, p[i]) : s \in r[i - 1]}
            <4>1. D(r)[i] = {Scan(s, p[i]) : s \in r[i - 1]}
                BY <3>1
            <4>2. r = D(r)
                BY <1>7
            <4> HIDE DEF D
            <4> QED
                BY <4>1, <4>2
        <3>3. r[i] = {Scan(f[i - 1], p[i])}
            BY <3>1, <3>2
        <3>4. r[i] = {f[i]}
            BY <1>5, <3>3
        <3> QED
            BY <3>1, <3>4
    <2> HIDE DEF T
    <2>3. \A i \in 0 .. N : i \in T
        BY <1>1, <2>1, <2>2, InductionUpTo
    <2> QED
        BY <2>3 DEF T
<1> QED
    BY <1>4, <1>5, <1>8, <1>9 DEF z, Start

LEMMA AtIs ==
    ASSUME NEW c \in Conns, NEW p \in Seq(Chars)
    PROVE  /\ At(c, p, 0) = Start(c)
           /\ \A i \in 0 .. Len(p) : At(c, p, i) \in Scans
           /\ \A i \in 1 .. Len(p) : At(c, p, i) = Scan(At(c, p, i - 1), p[i])
<1>1. PICK f \in [0 .. Len(p) -> Scans] :
               /\ f[0] = Start(c)
               /\ \A i \in 1 .. Len(p) : f[i] = Scan(f[i - 1], p[i])
               /\ \A i \in 0 .. Len(p) : ScanPacket(c, p)[i] = {f[i]}
    BY ScanPacketSteps
<1>2. \A i \in 0 .. Len(p) : At(c, p, i) = f[i]
    BY <1>1, TheOneOf DEF At
<1>3. Len(p) \in Nat /\ \A i \in 1 .. Len(p) : i \in 0 .. Len(p) /\ i - 1 \in 0 .. Len(p)
    OBVIOUS
<1> QED
    BY <1>1, <1>2, <1>3

\* Two packets that begin alike are scanned alike.
LEMMA SameBeginning ==
    ASSUME NEW c \in Conns, NEW p \in Seq(Chars), NEW q \in Seq(Chars),
           NEW n \in Nat, n <= Len(p), n <= Len(q), \A i \in 1 .. n : p[i] = q[i]
    PROVE  \A i \in 0 .. n : At(c, p, i) = At(c, q, i)
<1> DEFINE T == {i \in 0 .. n : At(c, p, i) = At(c, q, i)}
<1>1. 0 \in T
    BY AtIs
<1>2. ASSUME NEW i \in 1 .. n, i - 1 \in T PROVE i \in T
    <2>1. i \in 1 .. Len(p) /\ i \in 1 .. Len(q) /\ i \in 0 .. n
        OBVIOUS
    <2>2. At(c, p, i) = Scan(At(c, p, i - 1), p[i]) /\ At(c, q, i) = Scan(At(c, q, i - 1), q[i])
        BY <2>1, AtIs
    <2>3. At(c, p, i - 1) = At(c, q, i - 1) /\ p[i] = q[i]
        BY <1>2
    <2> QED
        BY <2>1, <2>2, <2>3
<1> HIDE DEF T
<1>3. \A i \in 0 .. n : i \in T
    BY <1>1, <1>2, InductionUpTo
<1> QED
    BY <1>3 DEF T

\* Read from connections that agree, the same characters leave them so.
LEMMA ReadAlike ==
    ASSUME NEW c \in Conns, NEW d \in Conns, NEW p \in Seq(Chars), NEW q \in Seq(Chars),
           NEW m \in Nat, m + Len(p) <= Len(q),
           \A i \in 1 .. Len(p) : p[i] = q[m + i] /\ p[i] # "NUL",
           Agree(c, At(d, q, m).conn), Placed(At(d, q, m)), At(d, q, m).behind # "NUL"
    PROVE  \A i \in 0 .. Len(p) : Alike(At(c, p, i), At(d, q, m + i))
<1> DEFINE N == Len(p)
           T == {i \in 0 .. N : Alike(At(c, p, i), At(d, q, m + i))}
<1>0. N \in Nat
    OBVIOUS
<1>1. 0 \in T
    <2>1. At(c, p, 0) = [conn |-> c, behind |-> "none"] /\ m + 0 = m
        BY AtIs DEF Start
    <2>2. Alike(At(c, p, 0), At(d, q, m))
        BY <2>1 DEF Alike, Placed
    <2> QED
        BY <1>0, <2>1, <2>2
<1>2. ASSUME NEW i \in 1 .. N, i - 1 \in T PROVE i \in T
    <2> DEFINE k == m + i
    <2>1. i \in 0 .. N /\ i - 1 \in 0 .. N /\ k \in 1 .. Len(q) /\ k - 1 \in 0 .. Len(q)
          /\ k - 1 = m + (i - 1)
        OBVIOUS
    <2>2. p[i] \in Chars /\ p[i] # "NUL" /\ q[k] = p[i]
        BY <2>1
    <2> HIDE DEF k
    <2>3. /\ At(c, p, i) = Scan(At(c, p, i - 1), p[i]) /\ At(c, p, i - 1) \in Scans
          /\ At(d, q, k) = Scan(At(d, q, k - 1), p[i]) /\ At(d, q, k - 1) \in Scans
        BY <2>1, <2>2, AtIs
    <2>4. Alike(At(c, p, i - 1), At(d, q, k - 1))
        BY <1>2, <2>1
    <2>5. Alike(At(c, p, i), At(d, q, k))
        BY <2>2, <2>3, <2>4, ScanAlike
    <2> QED
        BY <2>1, <2>5 DEF k
<1> HIDE DEF T
<1>3. \A i \in 0 .. N : i \in T
    BY <1>0, <1>1, <1>2, InductionUpTo
<1> QED
    BY <1>3 DEF T

-----------------------------------------------------------------------------
(* What the client has answered stays, and the text, the tags and the input   *)
(* field stay as they should be.                                              *)

Begins(s, t) == Len(s) <= Len(t) /\ \A i \in 1 .. Len(s) : t[i] = s[i]

Follows(c, d) ==
    /\ TextOK(c) => TextOK(d)
    /\ FieldProper(c.field) => FieldProper(d.field)
    /\ LoginCovered(c.field) => LoginCovered(d.field)
    /\ d.field.plain \in {c.field.plain, ""}
    /\ EchoAgrees(c) => EchoAgrees(d)
    /\ Begins(c.answers, d.answers)

\* Echo turned on or off by the world empties the field it shows.
LEMMA FieldAfterKeeps ==
    ASSUME NEW cmd \in Commands, NEW telnet \in SUBSET {"ECHO", "EOR_OPT"},
           NEW f \in Fields, NEW option \in Chars
    PROVE  LET g == FieldAfter(cmd, telnet, f, option)
           IN  /\ g \in Fields
               /\ FieldProper(f) => FieldProper(g)
               /\ LoginCovered(f) => LoginCovered(g)
               /\ g.plain \in {f.plain, ""}
               /\ (f.echo = "telnet") = ("ECHO" \notin telnet) =>
                      (g.echo = "telnet") = ("ECHO" \notin TelnetAfter(cmd, telnet, option))
<1> DEFINE g == FieldAfter(cmd, telnet, f, option)
<1>1. CASE option = "ECHO" /\ cmd = "WILL" /\ "ECHO" \in telnet
    <2>1. g = SetEchoState(f, "telnet", FALSE)
        BY <1>1 DEF FieldAfter
    <2>2. g \in Fields
        BY <2>1, SetEchoStateType DEF EchoStates
    <2>3. g.echo = "telnet"
        BY <2>1 DEF SetEchoState, SetEcho, Fields
    <2>4. FieldProper(f) => FieldProper(g)
        BY <2>1 DEF SetEchoState, SetEcho, Fields, FieldProper, EditName
    <2>5. LoginCovered(g)
        BY <2>3 DEF LoginCovered
    <2>6. "ECHO" \notin TelnetAfter(cmd, telnet, option)
        BY <1>1 DEF TelnetAfter
    <2>7. g.plain \in {f.plain, ""}
        BY <2>1 DEF SetEchoState, SetEcho, Fields
    <2> HIDE DEF g
    <2> QED
        BY <2>2, <2>3, <2>4, <2>5, <2>6, <2>7 DEF g
<1>2. CASE option = "ECHO" /\ cmd = "WONT" /\ "ECHO" \notin telnet
    <2>1. g = SetEchoState(f, "on", FALSE)
        BY <1>2 DEF FieldAfter
    <2>2. g \in Fields
        BY <2>1, SetEchoStateType DEF EchoStates
    <2>3. g.echo = "on"
        BY <2>1 DEF SetEchoState, SetEcho, Fields
    <2>4. FieldProper(f) => FieldProper(g)
        BY <2>1 DEF SetEchoState, SetEcho, Fields, FieldProper, EditName
    <2>5. LoginCovered(f) => LoginCovered(g)
        BY <2>1 DEF SetEchoState, SetEcho, Fields, LoginCovered
    <2>6. "ECHO" \in TelnetAfter(cmd, telnet, option)
        BY <1>2 DEF TelnetAfter
    <2>7. g.plain \in {f.plain, ""}
        BY <2>1 DEF SetEchoState, SetEcho, Fields
    <2> HIDE DEF g
    <2> QED
        BY <2>2, <2>3, <2>4, <2>5, <2>6, <2>7 DEF g
<1>3. CASE ~(option = "ECHO" /\ cmd = "WILL" /\ "ECHO" \in telnet)
           /\ ~(option = "ECHO" /\ cmd = "WONT" /\ "ECHO" \notin telnet)
    <2>1. g = f
        BY <1>3 DEF FieldAfter
    <2>2. ("ECHO" \in TelnetAfter(cmd, telnet, option)) = ("ECHO" \in telnet)
        BY <1>3 DEF TelnetAfter
    <2> HIDE DEF g
    <2> QED
        BY <2>1, <2>2 DEF g
<1> QED
    BY <1>1, <1>2, <1>3

LEMMA AnswersType ==
    ASSUME NEW cmd \in Commands, NEW telnet, NEW option \in Chars
    PROVE  AnswersTo(cmd, telnet, option) \in Seq(AnswerType)
<1>1. \A x \in AnswerType : <<x>> \in Seq(AnswerType)
    OBVIOUS
<1>2. \A x, y \in AnswerType : <<x>> \o <<y>> \in Seq(AnswerType)
    OBVIOUS
<1>3. <<>> \in Seq(AnswerType)
    OBVIOUS
<1>4. \A command \in Commands : <<command, option>> \in AnswerType
    BY DEF AnswerType
<1>5. <<>> \o <<<<"DONT", option>>>> = <<<<"DONT", option>>>>
    OBVIOUS
<1>6. "DO" \in Commands /\ "DONT" \in Commands /\ "WONT" \in Commands
    BY DEF Commands
<1> HIDE DEF AnswerType
<1> DEFINE a == <<"DO", option>>
           b == <<"DONT", option>>
           w == <<"WONT", option>>
<1>7. a \in AnswerType /\ b \in AnswerType /\ w \in AnswerType
    BY <1>4, <1>6
<1> HIDE DEF a, b, w
<1>8. <<a>> \in Seq(AnswerType) /\ <<b>> \in Seq(AnswerType) /\ <<w>> \in Seq(AnswerType)
    BY <1>1, <1>7
<1>9. <<a>> \o <<b>> \in Seq(AnswerType)
    BY <1>2, <1>7
<1>10. Answer("DO", option) = <<a>> /\ Answer("DONT", option) = <<b>>
       /\ Answer("WONT", option) = <<w>> /\ <<>> \o <<b>> = <<b>>
    BY <1>5 DEF Answer, a, b, w
<1> DEFINE e == IF "EOR_OPT" \in telnet THEN <<>> ELSE Answer("DO", option)
<1>11. e \o Answer("DONT", option) \in Seq(AnswerType)
    BY <1>8, <1>9, <1>10
<1> HIDE DEF e
<1> QED
    BY <1>3, <1>8, <1>10, <1>11 DEF AnswersTo, e

LEMMA BeginsConcat ==
    ASSUME NEW S, NEW s \in Seq(S), NEW t \in Seq(S)
    PROVE  Begins(s, s \o t)
BY DEF Begins

LEMMA BeginsOf ==
    ASSUME NEW S, NEW s \in Seq(S), NEW t \in Seq(S), NEW u \in Seq(S),
           Begins(s, t), Begins(t, u)
    PROVE  Begins(s, u) /\ Begins(s, s)
BY DEF Begins

LEMMA FollowsParseChar ==
    ASSUME NEW c \in Conns, NEW ch \in Chars
    PROVE  Follows(c, ParseChar(c, ch))
<1> DEFINE d == ParseChar(c, ch)
<1>0. /\ c.cmd \in Commands /\ c.telnet \in SUBSET {"ECHO", "EOR_OPT"} /\ c.field \in Fields
      /\ c.answers \in Seq(AnswerType)
    BY DEF Conns, AnswerType
<1> HIDE DEF d
<1>1. /\ TextOK(c) => TextOK(d)
      /\ c.mode # "cmd" => /\ d.field = c.field /\ d.telnet = c.telnet
                           /\ d.answers = c.answers
      /\ c.mode = "cmd" => /\ d.field = FieldAfter(c.cmd, c.telnet, c.field, ch)
                           /\ d.telnet = TelnetAfter(c.cmd, c.telnet, ch)
                           /\ d.answers = c.answers \o AnswersTo(c.cmd, c.telnet, ch)
    BY ParseCharSound DEF d, Sound
<1>2. ASSUME c.mode # "cmd" PROVE Follows(c, d)
    <2>1. d.field = c.field /\ d.telnet = c.telnet /\ d.answers = c.answers
        BY <1>1, <1>2
    <2>2. Begins(c.answers, d.answers)
        BY <1>0, <2>1 DEF Begins
    <2>3. EchoAgrees(c) => EchoAgrees(d)
        BY <2>1 DEF EchoAgrees
    <2> QED
        BY <1>1, <2>1, <2>2, <2>3 DEF Follows
<1>3. ASSUME c.mode = "cmd" PROVE Follows(c, d)
    <2> DEFINE a == AnswersTo(c.cmd, c.telnet, ch)
               g == FieldAfter(c.cmd, c.telnet, c.field, ch)
               t == TelnetAfter(c.cmd, c.telnet, ch)
    <2>1. a \in Seq(AnswerType)
        BY <1>0, AnswersType
    <2>2. /\ FieldProper(c.field) => FieldProper(g)
          /\ LoginCovered(c.field) => LoginCovered(g)
          /\ g.plain \in {c.field.plain, ""}
          /\ (c.field.echo = "telnet") = ("ECHO" \notin c.telnet) =>
                      (g.echo = "telnet") = ("ECHO" \notin t)
        BY <1>0, FieldAfterKeeps
    <2> HIDE DEF a, g, t
    <2>3. d.field = g /\ d.telnet = t /\ d.answers = c.answers \o a
        BY <1>1, <1>3 DEF a, g, t
    <2>4. Begins(c.answers, d.answers)
        BY <1>0, <2>1, <2>3, BeginsConcat
    <2>5. EchoAgrees(c) => EchoAgrees(d)
        BY <2>2, <2>3 DEF EchoAgrees
    <2> QED
        BY <1>1, <2>2, <2>3, <2>4, <2>5 DEF Follows
<1> QED
    BY <1>2, <1>3 DEF d

\* From any place in a packet to any later one.
LEMMA FollowsLater ==
    ASSUME NEW c \in Conns, NEW p \in Seq(Chars), NEW m \in 0 .. Len(p)
    PROVE  \A i \in 0 .. Len(p) - m : Follows(At(c, p, m).conn, At(c, p, m + i).conn)
<1> DEFINE N == Len(p) - m
           b == At(c, p, m).conn
           T == {i \in 0 .. N : Follows(b, At(c, p, m + i).conn)}
<1>0. N \in Nat /\ m + 0 = m
    OBVIOUS
<1>1. \A k \in 0 .. Len(p) : At(c, p, k).conn \in Conns
    BY AtIs DEF Scans
<1>2. \A d \in Conns : d.answers \in Seq(AnswerType)
    BY DEF Conns, AnswerType
<1>3. 0 \in T
    <2>1. b \in Conns /\ b.answers \in Seq(AnswerType)
        BY <1>1, <1>2
    <2> HIDE DEF b
    <2>2. Begins(b.answers, b.answers)
        BY <2>1 DEF Begins
    <2>3. Follows(b, b)
        BY <2>2 DEF Follows
    <2> QED
        BY <1>0, <2>3 DEF b
<1>4. ASSUME NEW i \in 1 .. N, i - 1 \in T PROVE i \in T
    <2> DEFINE k == m + i
               d == At(c, p, k - 1).conn
               e == At(c, p, k).conn
    <2>1. k \in 1 .. Len(p) /\ k - 1 \in 0 .. Len(p) /\ k \in 0 .. Len(p)
          /\ k - 1 = m + (i - 1) /\ i \in 0 .. N
        OBVIOUS
    <2>2. Follows(b, d)
        BY <1>4, <2>1
    <2> HIDE DEF k, b
    <2>3. At(c, p, k) = Scan(At(c, p, k - 1), p[k]) /\ At(c, p, k - 1) \in Scans /\ p[k] \in Chars
        BY <2>1, AtIs
    <2>4. e = d \/ e = ParseChar(d, p[k])
        BY <2>3, ScanIs
    <2>5. b \in Conns /\ d \in Conns /\ e \in Conns
        BY <1>1, <2>1 DEF b
    <2> HIDE DEF d, e
    <2>6. CASE e = d
        BY <2>1, <2>2, <2>6 DEF e, k
    <2>7. CASE e = ParseChar(d, p[k])
        <3>1. Follows(d, e)
            BY <2>3, <2>5, <2>7, FollowsParseChar
        <3>2. Begins(b.answers, e.answers)
            BY <1>2, <2>2, <2>5, <3>1, BeginsOf DEF Follows
        <3>3. Follows(b, e)
            BY <2>2, <3>1, <3>2 DEF Follows
        <3> QED
            BY <2>1, <3>3 DEF e, k
    <2> QED
        BY <2>4, <2>6, <2>7
<1> HIDE DEF T, N
<1>5. \A i \in 0 .. N : i \in T
    BY <1>0, <1>3, <1>4, InductionUpTo
<1> QED
    BY <1>5 DEF T, N

-----------------------------------------------------------------------------
(* What the world writes, read from where the scanner waits for the next text. *)

NextMode(mode, ch) ==
    IF mode = "scanning" THEN IF ch = "ESC" THEN "escape" ELSE IF ch = "IAC" THEN "IAC" ELSE mode
    ELSE IF mode = "escape" THEN IF ch = "[" THEN "ansi" ELSE "scanning"
    ELSE IF mode = "ansi"
        THEN IF ch \in Digits \cup {"sep"} THEN "ansi"
             ELSE IF ch = "ESC" THEN "escape" ELSE "scanning"
    ELSE IF mode = "IAC" THEN IF ch \in Commands THEN "cmd" ELSE "scanning"
    ELSE "scanning"

Stands(s, mode, telnet, answers) ==
    /\ s \in Scans /\ Placed(s) /\ s.behind # "NUL"
    /\ s.conn.mode = mode /\ s.conn.telnet = telnet /\ s.conn.answers = answers

LEMMA ParseCharMode ==
    ASSUME NEW c \in Conns, NEW ch \in Chars
    PROVE  /\ ParseChar(c, ch).mode = NextMode(c.mode, ch)
           /\ c.mode = "IAC" /\ ch \in Commands => ParseChar(c, ch).cmd = ch
<1> DEFINE d == ParseChar(c, ch)
<1>1. c.mode \in ScanStates
    BY ParseCharIs
<1> HIDE DEF d
<1>2. CASE c.mode = "scanning"
    <2>1. d.mode = IF ch = "ESC" THEN "escape" ELSE IF ch = "IAC" THEN "IAC" ELSE c.mode
        BY <1>2, ParseCharIs, ScanningOf DEF d
    <2> QED
        BY <1>2, <2>1 DEF NextMode, d
<1>3. CASE c.mode = "escape"
    <2>1. d.mode = IF ch = "[" THEN "ansi" ELSE "scanning"
        BY <1>3, ParseCharIs, EscapeOf DEF d
    <2> QED
        BY <1>3, <2>1 DEF NextMode, d
<1>4. CASE c.mode = "ansi"
    <2>1. d.mode = IF ch \in Digits \cup {"sep"} THEN "ansi"
                   ELSE IF ch = "ESC" THEN "escape" ELSE "scanning"
        BY <1>4, ParseCharIs, AnsiSequenceOf DEF d
    <2> QED
        BY <1>4, <2>1 DEF NextMode, d
<1>5. CASE c.mode = "IAC"
    <2>1. /\ d.mode = IF ch \in Commands THEN "cmd" ELSE "scanning"
          /\ d.cmd = IF ch \in Commands THEN ch ELSE c.cmd
        BY <1>5, ParseCharIs, TelnetIACOf DEF d
    <2> QED
        BY <1>5, <2>1 DEF NextMode, d
<1>6. CASE c.mode = "cmd"
    <2>1. d.mode = "scanning"
        BY <1>6, ParseCharIs, CommandOverOf DEF d
    <2> QED
        BY <1>6, <2>1 DEF NextMode, d
<1> QED
    BY <1>1, <1>2, <1>3, <1>4, <1>5, <1>6 DEF ScanStates

LEMMA ScanStep ==
    ASSUME NEW s \in Scans, NEW ch \in Chars, Placed(s), s.behind # "NUL", ch # "NUL"
    PROVE  LET c == s.conn
               d == Scan(s, ch).conn
           IN  /\ Placed(Scan(s, ch)) /\ Scan(s, ch).behind # "NUL" /\ Scan(s, ch) \in Scans
               /\ d.mode = NextMode(c.mode, ch)
               /\ c.mode = "IAC" /\ ch \in Commands => d.cmd = ch
               /\ c.mode # "cmd" => d.telnet = c.telnet /\ d.answers = c.answers
               /\ c.mode = "cmd" => /\ d.telnet = TelnetAfter(c.cmd, c.telnet, ch)
                                    /\ d.answers = c.answers \o AnswersTo(c.cmd, c.telnet, ch)
<1> DEFINE c == s.conn
           e == ParseChar(c, ch)
<1>0. c \in Conns /\ s.behind \in {"none", "CR", "LF"}
    BY DEF Scans
<1>1. Placed(Scan(s, ch)) /\ Scan(s, ch) \in Scans
    BY ScanIs
<1>2. CASE <<s.behind, ch>> \in Pairs
    <2>1. Scan(s, ch) = [s EXCEPT !.behind = "none"]
        BY <1>2 DEF Scan
    <2>2. s.behind \in {"CR", "LF"} /\ ch \in {"CR", "LF"}
        BY <1>2 DEF Pairs
    <2>3. c.mode = "scanning" /\ Scan(s, ch).conn = c /\ Scan(s, ch).behind # "NUL"
        BY <2>1, <2>2 DEF Scans, Placed
    <2>4. NextMode(c.mode, ch) = c.mode
        BY <2>2, <2>3 DEF NextMode
    <2> QED
        BY <1>1, <2>3, <2>4
<1>3. CASE <<s.behind, ch>> \notin Pairs
    <2> HIDE DEF e, c
    <2>1. Scan(s, ch) = [conn |-> e, behind |-> IF EndsLine(c, ch) THEN ch ELSE "none"]
        BY <1>3 DEF Scan, e, c
    <2>2. Scan(s, ch).conn = e /\ Scan(s, ch).behind # "NUL"
        BY <2>1
    <2>3. e.mode = NextMode(c.mode, ch) /\ (c.mode = "IAC" /\ ch \in Commands => e.cmd = ch)
        BY <1>0, ParseCharMode DEF e
    <2>4. /\ c.mode # "cmd" => e.telnet = c.telnet /\ e.answers = c.answers
          /\ c.mode = "cmd" => /\ e.telnet = TelnetAfter(c.cmd, c.telnet, ch)
                               /\ e.answers = c.answers \o AnswersTo(c.cmd, c.telnet, ch)
        BY <1>0, ParseCharSound DEF e
    <2> QED
        BY <1>1, <2>2, <2>3, <2>4 DEF c
<1> QED
    BY <1>2, <1>3

\* A character outside a telnet command.
LEMMA StandsNext ==
    ASSUME NEW s, NEW mode \in ScanStates \ {"cmd"}, NEW telnet, NEW answers,
           Stands(s, mode, telnet, answers), NEW ch \in Chars, ch # "NUL"
    PROVE  /\ Stands(Scan(s, ch), NextMode(mode, ch), telnet, answers)
           /\ mode = "IAC" /\ ch \in Commands => Scan(s, ch).conn.cmd = ch
BY ScanStep DEF Stands

LEMMA StandsAnswer ==
    ASSUME NEW s, NEW telnet, NEW answers, NEW cmd,
           Stands(s, "cmd", telnet, answers), s.conn.cmd = cmd, NEW ch \in Chars, ch # "NUL"
    PROVE  Stands(Scan(s, ch), "scanning", TelnetAfter(cmd, telnet, ch),
                  answers \o AnswersTo(cmd, telnet, ch))
<1>1. NextMode("cmd", ch) = "scanning"
    BY DEF NextMode
<1> QED
    BY <1>1, ScanStep DEF Stands

\* The command and the option that a unit is, if it is one.
Command == [willEcho |-> "WILL", wontEcho |-> "WONT", willEOR |-> "WILL", doOther |-> "DO"]
Option == [willEcho |-> "ECHO", wontEcho |-> "ECHO", willEOR |-> "EOR_OPT",
           doOther |-> "OTHER"]
TelnetUnits == {"willEcho", "wontEcho", "willEOR", "doOther"}
TextUnits == {"text", "newline", "linefeed", "bold", "color", "reset", "prompt", "broken"}

LEMMA UnitsAre ==
    /\ DOMAIN Bytes = TelnetUnits \cup TextUnits \cup {"null"}
    /\ \A unit \in DOMAIN Bytes : Bytes[unit] \in Seq(Chars) /\ Len(Bytes[unit]) > 0
    /\ \A unit \in DOMAIN Bytes \ {"null"} :
           \A i \in 1 .. Len(Bytes[unit]) : Bytes[unit][i] # "NUL"
    /\ \A unit \in TelnetUnits :
           /\ Bytes[unit] = <<"IAC", Command[unit], Option[unit]>>
           /\ Command[unit] \in Commands /\ Option[unit] \in Options
<1>1. {"0", "1", "3", "sep", "m", "ESC", "[", "IAC", "GA", "text", "CR", "LF", "NUL"} \subseteq Chars
      /\ Commands \subseteq Chars /\ Options \subseteq Chars
    BY DEF Chars, Digits, ToSet, Numerals
<1>2. DOMAIN Bytes = TelnetUnits \cup TextUnits \cup {"null"}
    BY DEF Bytes, TelnetUnits, TextUnits
<1>3. \A unit \in TelnetUnits :
           /\ Bytes[unit] = <<"IAC", Command[unit], Option[unit]>>
           /\ Command[unit] \in Commands /\ Option[unit] \in Options
    BY DEF Bytes, TelnetUnits, Command, Option, Commands, Options
<1>4. ASSUME NEW unit \in TelnetUnits
      PROVE  /\ Bytes[unit] \in Seq(Chars) /\ Len(Bytes[unit]) > 0
             /\ \A i \in 1 .. Len(Bytes[unit]) : Bytes[unit][i] # "NUL"
    <2> DEFINE x == Command[unit]
               y == Option[unit]
    <2>1. x \in Chars /\ y \in Chars /\ x # "NUL" /\ y # "NUL" /\ Bytes[unit] = <<"IAC", x, y>>
        BY <1>1, <1>3 DEF Commands, Options
    <2> HIDE DEF x, y
    <2> QED
        BY <1>1, <2>1
<1>5. ASSUME NEW unit \in TextUnits
      PROVE  /\ Bytes[unit] \in Seq(Chars) /\ Len(Bytes[unit]) > 0
             /\ \A i \in 1 .. Len(Bytes[unit]) : Bytes[unit][i] # "NUL"
    <2>1. CASE unit = "text"
        <3>1. Bytes[unit] = <<"text">>
            BY <2>1 DEF Bytes
        <3> QED
            BY <1>1, <3>1
    <2>2. CASE unit = "newline"
        <3>1. Bytes[unit] = <<"CR", "LF">>
            BY <2>2 DEF Bytes
        <3> QED
            BY <1>1, <3>1
    <2>3. CASE unit = "linefeed"
        <3>1. Bytes[unit] = <<"LF">>
            BY <2>3 DEF Bytes
        <3> QED
            BY <1>1, <3>1
    <2>4. CASE unit = "bold"
        <3>1. Bytes[unit] = <<"ESC", "[", "1", "m">>
            BY <2>4 DEF Bytes
        <3> QED
            BY <1>1, <3>1
    <2>5. CASE unit = "color"
        <3>1. Bytes[unit] = <<"ESC", "[", "0", "sep", "3", "1", "m">>
            BY <2>5 DEF Bytes
        <3> QED
            BY <1>1, <3>1
    <2>6. CASE unit = "reset"
        <3>1. Bytes[unit] = <<"ESC", "[", "0", "m">>
            BY <2>6 DEF Bytes
        <3> QED
            BY <1>1, <3>1
    <2>7. CASE unit = "prompt"
        <3>1. Bytes[unit] = <<"IAC", "GA">>
            BY <2>7 DEF Bytes
        <3> QED
            BY <1>1, <3>1
    <2>8. CASE unit = "broken"
        <3>1. Bytes[unit] = <<"ESC", "[", "CR", "LF">>
            BY <2>8 DEF Bytes
        <3> QED
            BY <1>1, <3>1
    <2> QED
        BY <2>1, <2>2, <2>3, <2>4, <2>5, <2>6, <2>7, <2>8 DEF TextUnits
<1>6. Bytes["null"] \in Seq(Chars) /\ Len(Bytes["null"]) > 0
    BY <1>1 DEF Bytes
<1> QED
    BY <1>2, <1>3, <1>4, <1>5, <1>6

\* `p` is in the packet `q` after the first m characters.
HasAt(q, m, p) ==
    m + Len(p) <= Len(q) /\ \A i \in 1 .. Len(p) : q[m + i] = p[i]

\* One more character.
LEMMA StandsAt ==
    ASSUME NEW c \in Conns, NEW q \in Seq(Chars), NEW m \in Nat, NEW p \in Seq(Chars),
           HasAt(q, m, p), NEW k \in 0 .. Len(p) - 1, NEW ch, p[k + 1] = ch, ch # "NUL",
           NEW mode \in ScanStates \ {"cmd"}, NEW telnet, NEW answers,
           Stands(At(c, q, m + k), mode, telnet, answers)
    PROVE  /\ Stands(At(c, q, m + (k + 1)), NextMode(mode, ch), telnet, answers)
           /\ mode = "IAC" /\ ch \in Commands => At(c, q, m + (k + 1)).conn.cmd = ch
<1> DEFINE j == m + (k + 1)
<1>1. j \in 1 .. Len(q) /\ j - 1 = m + k /\ q[j] = ch /\ ch \in Chars
    BY DEF HasAt
<1> HIDE DEF j
<1>2. At(c, q, j) = Scan(At(c, q, m + k), ch)
    BY <1>1, AtIs
<1>3. /\ Stands(At(c, q, j), NextMode(mode, ch), telnet, answers)
      /\ mode = "IAC" /\ ch \in Commands => At(c, q, j).conn.cmd = ch
    BY <1>1, <1>2, StandsNext
<1> QED
    BY <1>3 DEF j

LEMMA TextUnitRead ==
    ASSUME NEW c \in Conns, NEW q \in Seq(Chars), NEW m \in Nat, NEW unit \in TextUnits,
           HasAt(q, m, Bytes[unit]), NEW telnet, NEW answers,
           Stands(At(c, q, m), "scanning", telnet, answers)
    PROVE  Stands(At(c, q, m + Len(Bytes[unit])), "scanning", telnet, answers)
<1> DEFINE p == Bytes[unit]
           J(k, mode) == Stands(At(c, q, m + k), mode, telnet, answers)
<1>1. p \in Seq(Chars)
    BY UnitsAre
<1>2. J(0, "scanning")
    <2>1. m + 0 = m
        OBVIOUS
    <2> QED
        BY <2>1
<1> HIDE DEF p
<1>3. \A k \in 0 .. Len(p) - 1, mode \in ScanStates \ {"cmd"} :
          J(k, mode) /\ p[k + 1] # "NUL" => J(k + 1, NextMode(mode, p[k + 1]))
    BY <1>1, StandsAt DEF p
<1> HIDE DEF J
<1>4. CASE unit = "text"
    <2>0. p = <<"text">>
        BY <1>4 DEF Bytes, p
    <2>1. J(1, "scanning")
        <3>1. NextMode("scanning", "text") = "scanning" /\ "scanning" \in ScanStates \ {"cmd"}
            BY DEF NextMode, ScanStates
        <3>2. J(0, "scanning") /\ p[0 + 1] = "text" /\ 0 \in 0 .. Len(p) - 1
            BY <2>0, <1>2
        <3>3. J(0 + 1, "scanning")
            BY <1>3, <3>1, <3>2
        <3> QED
            BY <3>3
    <2> QED
        BY <2>0, <2>1 DEF J, p
<1>5. CASE unit = "newline"
    <2>0. p = <<"CR", "LF">>
        BY <1>5 DEF Bytes, p
    <2>1. J(1, "scanning")
        <3>1. NextMode("scanning", "CR") = "scanning" /\ "scanning" \in ScanStates \ {"cmd"}
            BY DEF NextMode, ScanStates
        <3>2. J(0, "scanning") /\ p[0 + 1] = "CR" /\ 0 \in 0 .. Len(p) - 1
            BY <2>0, <1>2
        <3>3. J(0 + 1, "scanning")
            BY <1>3, <3>1, <3>2
        <3> QED
            BY <3>3
    <2>2. J(2, "scanning")
        <3>1. NextMode("scanning", "LF") = "scanning" /\ "scanning" \in ScanStates \ {"cmd"}
            BY DEF NextMode, ScanStates
        <3>2. J(1, "scanning") /\ p[1 + 1] = "LF" /\ 1 \in 0 .. Len(p) - 1
            BY <2>0, <2>1
        <3>3. J(1 + 1, "scanning")
            BY <1>3, <3>1, <3>2
        <3> QED
            BY <3>3
    <2> QED
        BY <2>0, <2>2 DEF J, p
<1>6. CASE unit = "linefeed"
    <2>0. p = <<"LF">>
        BY <1>6 DEF Bytes, p
    <2>1. J(1, "scanning")
        <3>1. NextMode("scanning", "LF") = "scanning" /\ "scanning" \in ScanStates \ {"cmd"}
            BY DEF NextMode, ScanStates
        <3>2. J(0, "scanning") /\ p[0 + 1] = "LF" /\ 0 \in 0 .. Len(p) - 1
            BY <2>0, <1>2
        <3>3. J(0 + 1, "scanning")
            BY <1>3, <3>1, <3>2
        <3> QED
            BY <3>3
    <2> QED
        BY <2>0, <2>1 DEF J, p
<1>7. CASE unit = "bold"
    <2>0. p = <<"ESC", "[", "1", "m">>
        BY <1>7 DEF Bytes, p
    <2>1. J(1, "escape")
        <3>1. NextMode("scanning", "ESC") = "escape" /\ "scanning" \in ScanStates \ {"cmd"}
            BY DEF NextMode, ScanStates
        <3>2. J(0, "scanning") /\ p[0 + 1] = "ESC" /\ 0 \in 0 .. Len(p) - 1
            BY <2>0, <1>2
        <3>3. J(0 + 1, "escape")
            BY <1>3, <3>1, <3>2
        <3> QED
            BY <3>3
    <2>2. J(2, "ansi")
        <3>1. NextMode("escape", "[") = "ansi" /\ "escape" \in ScanStates \ {"cmd"}
            BY DEF NextMode, ScanStates
        <3>2. J(1, "escape") /\ p[1 + 1] = "[" /\ 1 \in 0 .. Len(p) - 1
            BY <2>0, <2>1
        <3>3. J(1 + 1, "ansi")
            BY <1>3, <3>1, <3>2
        <3> QED
            BY <3>3
    <2>3. J(3, "ansi")
        <3>1. NextMode("ansi", "1") = "ansi" /\ "ansi" \in ScanStates \ {"cmd"}
            BY DEF NextMode, ScanStates, Digits, ToSet, Numerals
        <3>2. J(2, "ansi") /\ p[2 + 1] = "1" /\ 2 \in 0 .. Len(p) - 1
            BY <2>0, <2>2
        <3>3. J(2 + 1, "ansi")
            BY <1>3, <3>1, <3>2
        <3> QED
            BY <3>3
    <2>4. J(4, "scanning")
        <3>1. NextMode("ansi", "m") = "scanning" /\ "ansi" \in ScanStates \ {"cmd"}
            BY DEF NextMode, ScanStates, Digits, ToSet, Numerals
        <3>2. J(3, "ansi") /\ p[3 + 1] = "m" /\ 3 \in 0 .. Len(p) - 1
            BY <2>0, <2>3
        <3>3. J(3 + 1, "scanning")
            BY <1>3, <3>1, <3>2
        <3> QED
            BY <3>3
    <2> QED
        BY <2>0, <2>4 DEF J, p
<1>8. CASE unit = "color"
    <2>0. p = <<"ESC", "[", "0", "sep", "3", "1", "m">>
        BY <1>8 DEF Bytes, p
    <2>1. J(1, "escape")
        <3>1. NextMode("scanning", "ESC") = "escape" /\ "scanning" \in ScanStates \ {"cmd"}
            BY DEF NextMode, ScanStates
        <3>2. J(0, "scanning") /\ p[0 + 1] = "ESC" /\ 0 \in 0 .. Len(p) - 1
            BY <2>0, <1>2
        <3>3. J(0 + 1, "escape")
            BY <1>3, <3>1, <3>2
        <3> QED
            BY <3>3
    <2>2. J(2, "ansi")
        <3>1. NextMode("escape", "[") = "ansi" /\ "escape" \in ScanStates \ {"cmd"}
            BY DEF NextMode, ScanStates
        <3>2. J(1, "escape") /\ p[1 + 1] = "[" /\ 1 \in 0 .. Len(p) - 1
            BY <2>0, <2>1
        <3>3. J(1 + 1, "ansi")
            BY <1>3, <3>1, <3>2
        <3> QED
            BY <3>3
    <2>3. J(3, "ansi")
        <3>1. NextMode("ansi", "0") = "ansi" /\ "ansi" \in ScanStates \ {"cmd"}
            BY DEF NextMode, ScanStates, Digits, ToSet, Numerals
        <3>2. J(2, "ansi") /\ p[2 + 1] = "0" /\ 2 \in 0 .. Len(p) - 1
            BY <2>0, <2>2
        <3>3. J(2 + 1, "ansi")
            BY <1>3, <3>1, <3>2
        <3> QED
            BY <3>3
    <2>4. J(4, "ansi")
        <3>1. NextMode("ansi", "sep") = "ansi" /\ "ansi" \in ScanStates \ {"cmd"}
            BY DEF NextMode, ScanStates, Digits, ToSet, Numerals
        <3>2. J(3, "ansi") /\ p[3 + 1] = "sep" /\ 3 \in 0 .. Len(p) - 1
            BY <2>0, <2>3
        <3>3. J(3 + 1, "ansi")
            BY <1>3, <3>1, <3>2
        <3> QED
            BY <3>3
    <2>5. J(5, "ansi")
        <3>1. NextMode("ansi", "3") = "ansi" /\ "ansi" \in ScanStates \ {"cmd"}
            BY DEF NextMode, ScanStates, Digits, ToSet, Numerals
        <3>2. J(4, "ansi") /\ p[4 + 1] = "3" /\ 4 \in 0 .. Len(p) - 1
            BY <2>0, <2>4
        <3>3. J(4 + 1, "ansi")
            BY <1>3, <3>1, <3>2
        <3> QED
            BY <3>3
    <2>6. J(6, "ansi")
        <3>1. NextMode("ansi", "1") = "ansi" /\ "ansi" \in ScanStates \ {"cmd"}
            BY DEF NextMode, ScanStates, Digits, ToSet, Numerals
        <3>2. J(5, "ansi") /\ p[5 + 1] = "1" /\ 5 \in 0 .. Len(p) - 1
            BY <2>0, <2>5
        <3>3. J(5 + 1, "ansi")
            BY <1>3, <3>1, <3>2
        <3> QED
            BY <3>3
    <2>7. J(7, "scanning")
        <3>1. NextMode("ansi", "m") = "scanning" /\ "ansi" \in ScanStates \ {"cmd"}
            BY DEF NextMode, ScanStates, Digits, ToSet, Numerals
        <3>2. J(6, "ansi") /\ p[6 + 1] = "m" /\ 6 \in 0 .. Len(p) - 1
            BY <2>0, <2>6
        <3>3. J(6 + 1, "scanning")
            BY <1>3, <3>1, <3>2
        <3> QED
            BY <3>3
    <2> QED
        BY <2>0, <2>7 DEF J, p
<1>9. CASE unit = "reset"
    <2>0. p = <<"ESC", "[", "0", "m">>
        BY <1>9 DEF Bytes, p
    <2>1. J(1, "escape")
        <3>1. NextMode("scanning", "ESC") = "escape" /\ "scanning" \in ScanStates \ {"cmd"}
            BY DEF NextMode, ScanStates
        <3>2. J(0, "scanning") /\ p[0 + 1] = "ESC" /\ 0 \in 0 .. Len(p) - 1
            BY <2>0, <1>2
        <3>3. J(0 + 1, "escape")
            BY <1>3, <3>1, <3>2
        <3> QED
            BY <3>3
    <2>2. J(2, "ansi")
        <3>1. NextMode("escape", "[") = "ansi" /\ "escape" \in ScanStates \ {"cmd"}
            BY DEF NextMode, ScanStates
        <3>2. J(1, "escape") /\ p[1 + 1] = "[" /\ 1 \in 0 .. Len(p) - 1
            BY <2>0, <2>1
        <3>3. J(1 + 1, "ansi")
            BY <1>3, <3>1, <3>2
        <3> QED
            BY <3>3
    <2>3. J(3, "ansi")
        <3>1. NextMode("ansi", "0") = "ansi" /\ "ansi" \in ScanStates \ {"cmd"}
            BY DEF NextMode, ScanStates, Digits, ToSet, Numerals
        <3>2. J(2, "ansi") /\ p[2 + 1] = "0" /\ 2 \in 0 .. Len(p) - 1
            BY <2>0, <2>2
        <3>3. J(2 + 1, "ansi")
            BY <1>3, <3>1, <3>2
        <3> QED
            BY <3>3
    <2>4. J(4, "scanning")
        <3>1. NextMode("ansi", "m") = "scanning" /\ "ansi" \in ScanStates \ {"cmd"}
            BY DEF NextMode, ScanStates, Digits, ToSet, Numerals
        <3>2. J(3, "ansi") /\ p[3 + 1] = "m" /\ 3 \in 0 .. Len(p) - 1
            BY <2>0, <2>3
        <3>3. J(3 + 1, "scanning")
            BY <1>3, <3>1, <3>2
        <3> QED
            BY <3>3
    <2> QED
        BY <2>0, <2>4 DEF J, p
<1>10. CASE unit = "prompt"
    <2>0. p = <<"IAC", "GA">>
        BY <1>10 DEF Bytes, p
    <2>1. J(1, "IAC")
        <3>1. NextMode("scanning", "IAC") = "IAC" /\ "scanning" \in ScanStates \ {"cmd"}
            BY DEF NextMode, ScanStates
        <3>2. J(0, "scanning") /\ p[0 + 1] = "IAC" /\ 0 \in 0 .. Len(p) - 1
            BY <2>0, <1>2
        <3>3. J(0 + 1, "IAC")
            BY <1>3, <3>1, <3>2
        <3> QED
            BY <3>3
    <2>2. J(2, "scanning")
        <3>1. NextMode("IAC", "GA") = "scanning" /\ "IAC" \in ScanStates \ {"cmd"}
            BY DEF NextMode, ScanStates, Commands
        <3>2. J(1, "IAC") /\ p[1 + 1] = "GA" /\ 1 \in 0 .. Len(p) - 1
            BY <2>0, <2>1
        <3>3. J(1 + 1, "scanning")
            BY <1>3, <3>1, <3>2
        <3> QED
            BY <3>3
    <2> QED
        BY <2>0, <2>2 DEF J, p
<1>11. CASE unit = "broken"
    <2>0. p = <<"ESC", "[", "CR", "LF">>
        BY <1>11 DEF Bytes, p
    <2>1. J(1, "escape")
        <3>1. NextMode("scanning", "ESC") = "escape" /\ "scanning" \in ScanStates \ {"cmd"}
            BY DEF NextMode, ScanStates
        <3>2. J(0, "scanning") /\ p[0 + 1] = "ESC" /\ 0 \in 0 .. Len(p) - 1
            BY <2>0, <1>2
        <3>3. J(0 + 1, "escape")
            BY <1>3, <3>1, <3>2
        <3> QED
            BY <3>3
    <2>2. J(2, "ansi")
        <3>1. NextMode("escape", "[") = "ansi" /\ "escape" \in ScanStates \ {"cmd"}
            BY DEF NextMode, ScanStates
        <3>2. J(1, "escape") /\ p[1 + 1] = "[" /\ 1 \in 0 .. Len(p) - 1
            BY <2>0, <2>1
        <3>3. J(1 + 1, "ansi")
            BY <1>3, <3>1, <3>2
        <3> QED
            BY <3>3
    <2>3. J(3, "scanning")
        <3>1. NextMode("ansi", "CR") = "scanning" /\ "ansi" \in ScanStates \ {"cmd"}
            BY DEF NextMode, ScanStates, Digits, ToSet, Numerals
        <3>2. J(2, "ansi") /\ p[2 + 1] = "CR" /\ 2 \in 0 .. Len(p) - 1
            BY <2>0, <2>2
        <3>3. J(2 + 1, "scanning")
            BY <1>3, <3>1, <3>2
        <3> QED
            BY <3>3
    <2>4. J(4, "scanning")
        <3>1. NextMode("scanning", "LF") = "scanning" /\ "scanning" \in ScanStates \ {"cmd"}
            BY DEF NextMode, ScanStates
        <3>2. J(3, "scanning") /\ p[3 + 1] = "LF" /\ 3 \in 0 .. Len(p) - 1
            BY <2>0, <2>3
        <3>3. J(3 + 1, "scanning")
            BY <1>3, <3>1, <3>2
        <3> QED
            BY <3>3
    <2> QED
        BY <2>0, <2>4 DEF J, p
<1> QED
    BY <1>4, <1>5, <1>6, <1>7, <1>8, <1>9, <1>10, <1>11 DEF TextUnits

LEMMA TelnetUnitRead ==
    ASSUME NEW c \in Conns, NEW q \in Seq(Chars), NEW m \in Nat, NEW unit \in TelnetUnits,
           HasAt(q, m, Bytes[unit]), NEW telnet, NEW answers,
           Stands(At(c, q, m), "scanning", telnet, answers)
    PROVE  Stands(At(c, q, m + Len(Bytes[unit])), "scanning",
                  TelnetAfter(Command[unit], telnet, Option[unit]),
                  answers \o AnswersTo(Command[unit], telnet, Option[unit]))
<1> DEFINE x == Command[unit]
           y == Option[unit]
           p == Bytes[unit]
<1>1. p = <<"IAC", x, y>> /\ x \in Commands /\ y \in Options /\ p \in Seq(Chars)
    BY UnitsAre DEF TelnetUnits, TextUnits
<1>2. x \in Chars /\ y \in Chars /\ x # "NUL" /\ y # "NUL" /\ "IAC" \in Chars
    BY <1>1 DEF Chars, Commands, Options
<1> HIDE DEF x, y, p
<1>3. m + 0 = m /\ 0 + 1 = 1 /\ 1 + 1 = 2 /\ 2 + 1 = 3 /\ m + 3 \in 1 .. Len(q) /\ (m + 3) - 1 = m + 2
      /\ q[m + 3] = y /\ Len(p) = 3 /\ p[1] = "IAC" /\ p[2] = x /\ HasAt(q, m, p)
    BY <1>1 DEF HasAt, p
<1>4. NextMode("scanning", "IAC") = "IAC" /\ NextMode("IAC", x) = "cmd"
      /\ {"scanning", "IAC"} \subseteq ScanStates \ {"cmd"}
    BY <1>1 DEF NextMode, ScanStates
<1>5. 0 \in 0 .. Len(p) - 1 /\ 1 \in 0 .. Len(p) - 1
    BY <1>3
<1>6. Stands(At(c, q, m + (0 + 1)), NextMode("scanning", "IAC"), telnet, answers)
    <2>1. Stands(At(c, q, m + 0), "scanning", telnet, answers) /\ p[0 + 1] = "IAC"
        BY <1>3
    <2> QED
        BY <1>1, <1>3, <1>4, <1>5, <2>1, StandsAt
<1>7. Stands(At(c, q, m + 1), "IAC", telnet, answers)
    BY <1>3, <1>4, <1>6
<1>8. /\ Stands(At(c, q, m + 2), "cmd", telnet, answers)
      /\ At(c, q, m + 2).conn.cmd = x
    <2> DEFINE j == m + 2
    <2>1. j \in 1 .. Len(q) /\ j - 1 = m + 1 /\ q[j] = x
        BY <1>3 DEF HasAt
    <2> HIDE DEF j
    <2>2. At(c, q, j) = Scan(At(c, q, m + 1), x)
        BY <2>1, AtIs
    <2>3. "IAC" \in ScanStates \ {"cmd"}
        BY <1>4
    <2>4. /\ Stands(At(c, q, j), NextMode("IAC", x), telnet, answers)
          /\ At(c, q, j).conn.cmd = x
        BY <1>1, <1>2, <1>7, <2>2, <2>3, StandsNext
    <2> QED
        BY <1>4, <2>4 DEF j
<1>10. At(c, q, m + 3) = Scan(At(c, q, m + 2), y)
    <2> DEFINE j == m + 3
    <2>1. j \in 1 .. Len(q) /\ j - 1 = m + 2 /\ q[j] = y
        BY <1>3
    <2> HIDE DEF j
    <2>2. At(c, q, j) = Scan(At(c, q, m + 2), y)
        BY <2>1, AtIs
    <2> QED
        BY <2>2 DEF j
<1>11. Stands(At(c, q, m + 3), "scanning", TelnetAfter(x, telnet, y),
              answers \o AnswersTo(x, telnet, y))
    BY <1>2, <1>8, <1>10, StandsAnswer
<1> QED
    BY <1>3, <1>11 DEF x, y, p

-----------------------------------------------------------------------------
(* The field and the user.                                                    *)

FieldSet(c, f) == [c EXCEPT !.field = f]

LEMMA FieldSetOf ==
    ASSUME NEW c \in Conns, NEW f \in Fields
    PROVE  LET d == FieldSet(c, f)
           IN  /\ d \in Conns /\ SameText(c, d) /\ d.telnet = c.telnet /\ d.field = f
               /\ d.answers = c.answers /\ Agree(c, d)
               /\ TextOK(c) => TextOK(d)
<1> DEFINE d == FieldSet(c, f)
<1>1. d \in Conns /\ SameText(c, d) /\ d.telnet = c.telnet /\ d.field = f /\ d.answers = c.answers
    BY DEF FieldSet, Conns, SameText
<1> HIDE DEF d
<1>2. Agree(c, d)
    BY <1>1 DEF Agree, SameText
<1>3. TextOK(c) => TextOK(d)
    BY <1>1, TextSame DEF SameText
<1> QED
    BY <1>1, <1>2, <1>3 DEF d

\* The text of the control that takes the keys is replaced.
LEMMA EditedField ==
    ASSUME NEW f \in Fields, NEW text \in Texts
    PROVE  LET e == [f EXCEPT ![EditName(f)] = text]
           IN  /\ e \in Fields /\ e.echo = f.echo /\ e.child = f.child /\ e.loggedIn = f.loggedIn
               /\ e.plain = IF f.echo = "on" THEN text ELSE f.plain
               /\ e.password = IF f.echo = "on" THEN f.password ELSE text
BY DEF Fields, EditName

\* A text, checked for a login.
LEMMA CheckedField ==
    ASSUME NEW e \in Fields, FieldProper(e), NEW asks \in BOOLEAN
    PROVE  LET g == CheckForPasswordProtection(e, asks)
           IN  /\ g \in Fields /\ FieldProper(g)
               /\ (g.echo = "telnet") = (e.echo = "telnet")
               /\ g.echo = "on" /\ g.plain = "login" => g.loggedIn \/ ~asks
               /\ g.plain = e.plain \/ (e.echo = "auto" /\ g.plain = e.password)
<1> DEFINE g == CheckForPasswordProtection(e, asks)
<1>1. /\ e.echo \in EchoStates /\ e.plain \in Texts /\ e.password \in Texts
      /\ e.child \in {"plain", "password"} /\ e.loggedIn \in BOOLEAN
    BY DEF Fields
<1>3. CASE ~asks \/ e.loggedIn \/ e.echo = "telnet"
    <2>1. g = e
        BY <1>3 DEF CheckForPasswordProtection
    <2>2. e.loggedIn \/ ~asks \/ e.echo # "on"
        BY <1>3
    <2> HIDE DEF g
    <2> QED
        BY <1>1, <2>1, <2>2 DEF g
<1>4. CASE ~(~asks \/ e.loggedIn \/ e.echo = "telnet") /\ e.echo = "auto" /\ e.password # "login"
    <2>1. g = SetEchoState(e, "on", TRUE)
        BY <1>4 DEF CheckForPasswordProtection, MatchMushLogin
    <2>2. g = [e EXCEPT !.echo = "on", !.plain = e.password, !.child = "plain"]
        BY <1>1, <1>4, <2>1 DEF SetEchoState, SetEcho, Fields
    <2>3. g \in Fields /\ g.echo = "on" /\ g.plain = e.password /\ g.child = "plain"
        BY <1>1, <2>2 DEF Fields, EchoStates
    <2>4. FieldProper(g)
        BY <2>3 DEF FieldProper, EditName
    <2> HIDE DEF g
    <2> QED
        BY <1>1, <1>4, <2>3, <2>4 DEF g
<1>5. CASE ~(~asks \/ e.loggedIn \/ e.echo = "telnet") /\ e.echo = "on" /\ e.plain = "login"
    <2>1. g = SetEchoState(e, "auto", TRUE)
        BY <1>5 DEF CheckForPasswordProtection, MatchMushLogin
    <2>2. g = [e EXCEPT !.echo = "auto", !.password = e.plain, !.child = "password"]
        BY <1>1, <1>5, <2>1 DEF SetEchoState, SetEcho, Fields
    <2>3. g \in Fields /\ g.echo = "auto" /\ g.plain = e.plain /\ g.child = "password"
          /\ g.password = "login"
        BY <1>1, <1>5, <2>2 DEF Fields, EchoStates
    <2>4. FieldProper(g)
        BY <2>3 DEF FieldProper, EditName
    <2> HIDE DEF g
    <2> QED
        BY <1>1, <1>5, <2>3, <2>4 DEF g
<1>6. CASE ~(~asks \/ e.loggedIn \/ e.echo = "telnet")
           /\ ~(e.echo = "auto" /\ e.password # "login") /\ ~(e.echo = "on" /\ e.plain = "login")
    <2>1. g = e
        BY <1>6 DEF CheckForPasswordProtection, MatchMushLogin
    <2> HIDE DEF g
    <2> QED
        BY <1>1, <1>6, <2>1 DEF g
<1> QED
    BY <1>3, <1>4, <1>5, <1>6

\* A key: what is typed, checked for a login.
LEMMA TypedField ==
    ASSUME NEW f \in Fields, FieldProper(f), NEW asks \in BOOLEAN,
           NEW text \in {""} \cup IF f.echo = "telnet" THEN {"secret"} ELSE {"say", "login"}
    PROVE  LET g == CheckForPasswordProtection([f EXCEPT ![EditName(f)] = text], asks)
           IN  /\ g \in Fields /\ FieldProper(g)
               /\ (g.echo = "telnet") = (f.echo = "telnet")
               /\ g.echo = "on" /\ g.plain = "login" => g.loggedIn \/ ~asks
               /\ g.plain = "secret" => f.plain = "secret"
<1> DEFINE e == [f EXCEPT ![EditName(f)] = text]
           g == CheckForPasswordProtection(e, asks)
<1>1. text \in Texts /\ (f.echo # "telnet" => text # "secret")
    BY DEF Texts
<1>2. /\ e \in Fields /\ e.echo = f.echo /\ e.child = f.child
      /\ e.plain = IF f.echo = "on" THEN text ELSE f.plain
      /\ e.password = IF f.echo = "on" THEN f.password ELSE text
    BY <1>1, EditedField
<1> HIDE DEF e
<1>3. FieldProper(e)
    BY <1>1, <1>2 DEF FieldProper, EditName
<1>4. /\ g \in Fields /\ FieldProper(g) /\ (g.echo = "telnet") = (e.echo = "telnet")
      /\ g.echo = "on" /\ g.plain = "login" => g.loggedIn \/ ~asks
      /\ g.plain = e.plain \/ (e.echo = "auto" /\ g.plain = e.password)
    BY <1>2, <1>3, CheckedField
<1> HIDE DEF g
<1>5. g.plain = "secret" => f.plain = "secret"
    BY <1>1, <1>2, <1>4
<1> QED
    BY <1>2, <1>4, <1>5 DEF e, g

\* A text that is set as a whole; in the hidden field it may be one put aside there.
LEMMA SetField ==
    ASSUME NEW f \in Fields, FieldProper(f), LoginCovered(f), NEW text \in Texts,
           f.echo = "auto" /\ text = "secret" => ended.password = "secret"
    PROVE  LET g == SetWindowText(f, text)
           IN  /\ g \in Fields /\ FieldProper(g)
               /\ (g.echo = "telnet") = (f.echo = "telnet")
               /\ g.echo = "on" /\ g.plain = "login"
                      /\ checked /\ (EditName(f) = "password" \/ text = f.plain)
                    => g.loggedIn \/ world = "lines"
               /\ f.echo = "on" => g.plain = text
               /\ g.plain = "secret" => f.plain = "secret" \/ text = "secret"
               /\ f.echo = "telnet" => g.plain = f.plain
<1> DEFINE g == SetWindowText(f, text)
           asks == world # "lines"
<1>0. EditName(f) = IF f.echo = "on" THEN "plain" ELSE "password"
    BY DEF EditName
<1>1. CASE f.echo = "on"
    <2>1. g = [f EXCEPT !.plain = text]
        BY <1>0, <1>1 DEF SetWindowText
    <2>2. /\ g \in Fields /\ g.echo = "on" /\ g.plain = text /\ g.child = f.child
          /\ g.loggedIn = f.loggedIn
        BY <1>1, <2>1 DEF Fields
    <2> HIDE DEF g
    <2>3. FieldProper(g)
        BY <1>1, <2>2 DEF FieldProper, EditName
    <2> QED
        BY <1>0, <1>1, <2>2, <2>3 DEF LoginCovered, g
<1>2. CASE f.echo # "on"
    <2> DEFINE e == [f EXCEPT !.password = text]
    <2>1. g = CheckForPasswordProtection(e, asks)
        BY <1>0, <1>2 DEF SetWindowText
    <2>2. /\ e \in Fields /\ e.echo = f.echo /\ e.child = f.child /\ e.plain = f.plain
          /\ e.password = text
        BY DEF Fields
    <2> HIDE DEF e, g
    <2>3. FieldProper(e)
        BY <1>2, <2>2 DEF FieldProper, EditName
    <2>4. asks \in BOOLEAN
        OBVIOUS
    <2> HIDE DEF asks
    <2>5. /\ g \in Fields /\ FieldProper(g) /\ (g.echo = "telnet") = (e.echo = "telnet")
          /\ g.echo = "on" /\ g.plain = "login" => g.loggedIn \/ ~asks
          /\ g.plain = e.plain \/ (e.echo = "auto" /\ g.plain = e.password)
        BY <2>1, <2>2, <2>3, <2>4, CheckedField
    <2> QED
        BY <1>2, <2>2, <2>5 DEF g, asks
<1> QED
    BY <1>1, <1>2

\* OnSendKey: the line leaves the field.
Sent(f, clear) ==
    LET logged == IF f.echo = "auto" THEN [f EXCEPT !.loggedIn = TRUE] ELSE f
        erased == IF clear \/ EditName(f) = "password"
                  THEN [logged EXCEPT ![EditName(f)] = ""] ELSE logged
    IN IF erased.echo = "auto" THEN SetEchoState(erased, "on", FALSE) ELSE erased

LEMMA SentField ==
    ASSUME NEW f \in Fields, FieldProper(f), NEW clear \in BOOLEAN
    PROVE  LET g == Sent(f, clear)
           IN  /\ g \in Fields /\ FieldProper(g)
               /\ (g.echo = "telnet") = (f.echo = "telnet")
               /\ LoginCovered(f) => LoginCovered(g)
               /\ g.plain \in {f.plain, ""}
<1> DEFINE logged == IF f.echo = "auto" THEN [f EXCEPT !.loggedIn = TRUE] ELSE f
           erased == IF clear \/ EditName(f) = "password"
                     THEN [logged EXCEPT ![EditName(f)] = ""] ELSE logged
           g == Sent(f, clear)
<1>0. /\ f.echo \in EchoStates /\ f.plain \in Texts /\ f.password \in Texts
      /\ f.child \in {"plain", "password"} /\ f.loggedIn \in BOOLEAN /\ "" \in Texts
    BY DEF Fields, Texts
<1>1. g = IF erased.echo = "auto" THEN SetEchoState(erased, "on", FALSE) ELSE erased
    BY DEF Sent
<1>2. /\ logged \in Fields /\ logged.echo = f.echo /\ logged.plain = f.plain
      /\ logged.password = f.password /\ logged.child = f.child
      /\ f.echo # "auto" => logged.loggedIn = f.loggedIn
    BY <1>0 DEF Fields
<1> HIDE DEF logged
<1>3. /\ erased \in Fields /\ erased.echo = f.echo /\ erased.child = f.child
      /\ erased.plain \in {f.plain, ""} /\ erased.password \in {f.password, ""}
      /\ erased.loggedIn = logged.loggedIn
    BY <1>0, <1>2 DEF Fields, EditName
<1> HIDE DEF erased, g
<1>4. f.child = EditName(f)
    BY DEF FieldProper
<1>5. CASE f.echo = "auto"
    <2>1. g = [erased EXCEPT !.echo = "on", !.plain = "", !.child = "plain"]
        BY <1>1, <1>3, <1>5 DEF SetEchoState, SetEcho, Fields
    <2>2. g \in Fields /\ g.echo = "on" /\ g.plain = "" /\ g.child = "plain"
        BY <1>0, <1>3, <2>1 DEF Fields, EchoStates
    <2> QED
        BY <1>5, <2>2 DEF FieldProper, LoginCovered, EditName, g
<1>6. CASE f.echo # "auto"
    <2>1. g = erased
        BY <1>1, <1>3, <1>6
    <2>2. FieldProper(g)
        BY <1>3, <1>4, <1>6, <2>1 DEF FieldProper, EditName
    <2>3. LoginCovered(f) => LoginCovered(g)
        BY <1>2, <1>3, <1>6, <2>1 DEF LoginCovered
    <2> QED
        BY <1>3, <2>1, <2>2, <2>3 DEF g
<1> QED
    BY <1>5, <1>6

\* OnWorldConnect.
LEMMA ConnectedField ==
    ASSUME NEW f \in Fields
    PROVE  LET g == ConnectField(f)
           IN  /\ g \in Fields /\ FieldProper(g) /\ LoginCovered(g) /\ g.echo = "on"
               /\ g.plain = ""
<1> DEFINE e == SetEchoState(f, "on", FALSE)
           d == [e EXCEPT !.loggedIn = FALSE]
           h == SetEcho(d, TRUE, FALSE)
           g == [h EXCEPT !.plain = ""]
<1>0. "" \in Texts /\ "on" \in EchoStates
    BY DEF Texts, EchoStates
<1>1. e \in Fields /\ e.echo = "on"
    BY <1>0, SetEchoStateType DEF SetEchoState, SetEcho, Fields
<1> HIDE DEF e
<1>2. d \in Fields /\ d.echo = "on"
    BY <1>1 DEF Fields
<1> HIDE DEF d
<1>3. h \in Fields /\ h.echo = "on" /\ h.child = "plain"
    BY <1>0, <1>2 DEF Fields, SetEcho
<1> HIDE DEF h
<1>4. g \in Fields /\ g.echo = "on" /\ g.child = "plain" /\ g.plain = ""
    BY <1>0, <1>3 DEF Fields
<1>5. ConnectField(f) = g
    BY DEF ConnectField, h, d, e
<1> HIDE DEF g
<1>6. FieldProper(g) /\ LoginCovered(g)
    BY <1>4 DEF FieldProper, LoginCovered, EditName
<1> QED
    BY <1>4, <1>5, <1>6

-----------------------------------------------------------------------------
(* The negotiation of the echo.                                               *)

LEMMA AwaitsRead ==
    ASSUME NEW answers \in Seq(AnswerType), NEW h \in Nat, h < Len(answers), NEW telnet,
           NEW side \in EchoSides, Awaits(side, h, answers, telnet)
    PROVE  Awaits(IF answers[h + 1] = <<"DO", "ECHO">> /\ side = "offered" THEN "on"
                  ELSE IF answers[h + 1] = <<"DONT", "ECHO">> THEN "off" ELSE side,
                  h + 1, answers, telnet)
<1> DEFINE k == h + 1
           do == <<"DO", "ECHO">>
           dont == <<"DONT", "ECHO">>
           old == Unread(h, answers)
           new == Unread(k, answers)
           next == IF answers[k] = do /\ side = "offered" THEN "on"
                   ELSE IF answers[k] = dont THEN "off" ELSE side
<1>0. do # dont
    OBVIOUS
<1> HIDE DEF do, dont
<1>1. new = old \ {k} /\ (k \in old <=> answers[k] \in {do, dont})
    BY DEF Unread, EchoAnswers, do, dont
<1>2. /\ \/ side \in {"off", "on"} /\ old = {}
         \/ side = "offered" /\ \E i \in old : old = {i} /\ answers[i] = do
         \/ side = "withdrawn" /\ \E i \in old : old = {i} /\ answers[i] = dont
      /\ side \in {"off", "withdrawn"} <=> "ECHO" \in telnet
    BY DEF Awaits, do, dont
<1> HIDE DEF old, new, k
<1>3. CASE k \notin old
    <2>1. new = old /\ next = side
        BY <1>1, <1>3
    <2> HIDE DEF next
    <2> QED
        BY <1>2, <2>1 DEF Awaits, do, dont, next, new, k
<1>4. CASE k \in old
    <2>1. /\ new = {}
          /\ \/ answers[k] = do /\ side = "offered"
             \/ answers[k] = dont /\ side = "withdrawn"
        BY <1>1, <1>2, <1>4
    <2>2. \/ side = "offered" /\ next = "on"
          \/ side = "withdrawn" /\ next = "off"
        BY <1>0, <2>1
    <2> HIDE DEF next
    <2> QED
        BY <1>2, <2>1, <2>2 DEF Awaits, do, dont, next, new, k
<1> QED
    BY <1>3, <1>4

LEMMA UnreadMore ==
    ASSUME NEW answers \in Seq(AnswerType), NEW h \in 0 .. Len(answers),
           NEW more \in Seq(AnswerType)
    PROVE  /\ \A i \in Unread(h, answers) : (answers \o more)[i] = answers[i]
           /\ Unread(h, answers \o more)
                  = Unread(h, answers) \cup {Len(answers) + i : i \in Unread(0, more)}
<1> DEFINE all == answers \o more
           N == Len(answers)
           M == Len(more)
<1>1. /\ N \in Nat /\ M \in Nat /\ Len(all) = N + M
      /\ \A i \in 1 .. N : all[i] = answers[i]
      /\ \A i \in 1 .. M : all[N + i] = more[i]
    OBVIOUS
<1> HIDE DEF all, N, M
<1>2. \A i \in Unread(h, answers) : i \in 1 .. N /\ all[i] = answers[i]
    BY <1>1 DEF Unread, N
<1>3. ASSUME NEW i \in Unread(h, all)
      PROVE  i \in Unread(h, answers) \cup {N + j : j \in Unread(0, more)}
    <2>1. i \in h + 1 .. N + M /\ all[i] \in EchoAnswers
        BY <1>1, <1>3 DEF Unread
    <2>2. CASE i <= N
        BY <1>1, <2>1, <2>2 DEF Unread, N
    <2>3. CASE i > N
        <3> DEFINE j == i - N
        <3>1. j \in 1 .. M /\ i = N + j
            BY <1>1, <2>1, <2>3 DEF N
        <3> HIDE DEF j
        <3>2. j \in Unread(0, more)
            BY <1>1, <2>1, <3>1 DEF Unread, M
        <3> QED
            BY <3>1, <3>2
    <2> QED
        BY <1>1, <2>1, <2>2, <2>3 DEF N
<1>4. Unread(h, answers) \subseteq Unread(h, all)
    BY <1>1, <1>2 DEF Unread, N
<1>5. ASSUME NEW j \in Unread(0, more) PROVE N + j \in Unread(h, all)
    <2>1. j \in 1 .. M /\ more[j] \in EchoAnswers
        BY <1>5 DEF Unread, M
    <2> QED
        BY <1>1, <2>1 DEF Unread, N
<1> QED
    BY <1>2, <1>3, <1>4, <1>5 DEF all, N

\* Answers about something else.
LEMMA AwaitsMore ==
    ASSUME NEW answers \in Seq(AnswerType), NEW h \in 0 .. Len(answers),
           NEW more \in Seq(AnswerType), Unread(0, more) = {}, NEW side, NEW telnet,
           Awaits(side, h, answers, telnet), NEW after, "ECHO" \in after <=> "ECHO" \in telnet
    PROVE  Awaits(side, h, answers \o more, after)
<1> DEFINE all == answers \o more
           old == Unread(h, answers)
<1>1. Unread(h, all) = old /\ \A i \in old : all[i] = answers[i]
    <2> DEFINE added == {Len(answers) + i : i \in Unread(0, more)}
    <2>1. added = {}
        OBVIOUS
    <2>2. Unread(h, all) = old \cup added /\ \A i \in old : all[i] = answers[i]
        BY UnreadMore
    <2> HIDE DEF added, old, all
    <2> QED
        BY <2>1, <2>2
<1> HIDE DEF all
<1> QED
    BY <1>1 DEF Awaits, all

\* The answer to a change of the echo.
LEMMA AwaitsAnswer ==
    ASSUME NEW answers \in Seq(AnswerType), NEW h \in 0 .. Len(answers), NEW telnet,
           NEW side, side \in {"off", "on"}, Awaits(side, h, answers, telnet)
    PROVE  /\ side = "off" => /\ "ECHO" \in telnet
                              /\ Awaits("offered", h, answers \o <<<<"DO", "ECHO">>>>,
                                        telnet \ {"ECHO"})
           /\ side = "on" => /\ "ECHO" \notin telnet
                             /\ Awaits("withdrawn", h, answers \o <<<<"DONT", "ECHO">>>>,
                                       telnet \cup {"ECHO"})
<1>1. Unread(h, answers) = {} /\ (side = "off" <=> "ECHO" \in telnet)
    BY DEF Awaits
<1>2. ASSUME NEW answer \in EchoAnswers
      PROVE  \E i : /\ Unread(h, answers \o <<answer>>) = {i}
                    /\ (answers \o <<answer>>)[i] = answer
    <2> DEFINE more == <<answer>>
               i == Len(answers) + 1
    <2>1. answer \in AnswerType /\ more \in Seq(AnswerType)
        BY <1>2 DEF EchoAnswers, AnswerType, Commands, Chars, Options
    <2>2. Unread(0, more) = {1}
        BY <1>2 DEF Unread
    <2>3. (answers \o more)[i] = answer
        BY <2>1
    <2>4. Unread(h, answers \o more) = {i}
        <3> DEFINE added == {Len(answers) + j : j \in Unread(0, more)}
        <3>1. added = {i}
            BY <2>2
        <3> HIDE DEF i, more
        <3>2. Unread(h, answers \o more) = Unread(h, answers) \cup added
            BY <2>1, UnreadMore
        <3> HIDE DEF added
        <3> QED
            BY <1>1, <3>1, <3>2
    <2> QED
        BY <2>3, <2>4
<1> DEFINE do == <<"DO", "ECHO">>
           dont == <<"DONT", "ECHO">>
<1>3. do \in EchoAnswers /\ dont \in EchoAnswers
    BY DEF EchoAnswers
<1>4. ASSUME side = "off"
      PROVE  "ECHO" \in telnet /\ Awaits("offered", h, answers \o <<do>>, telnet \ {"ECHO"})
    <2> HIDE DEF do
    <2>1. PICK i : Unread(h, answers \o <<do>>) = {i} /\ (answers \o <<do>>)[i] = do
        BY <1>2, <1>3
    <2> DEFINE all == answers \o <<do>>
    <2> HIDE DEF all
    <2> QED
        BY <1>1, <1>4, <2>1 DEF Awaits, do, all
<1>5. ASSUME side = "on"
      PROVE  "ECHO" \notin telnet /\ Awaits("withdrawn", h, answers \o <<dont>>, telnet \cup {"ECHO"})
    <2> HIDE DEF dont
    <2>1. PICK i : Unread(h, answers \o <<dont>>) = {i} /\ (answers \o <<dont>>)[i] = dont
        BY <1>2, <1>3
    <2> DEFINE all == answers \o <<dont>>
    <2> HIDE DEF all
    <2> QED
        BY <1>1, <1>5, <2>1 DEF Awaits, dont, all
<1> QED
    BY <1>4, <1>5

-----------------------------------------------------------------------------
(* The steps.                                                                 *)

New == NewConn(NoField)

\* A new connection has nothing to say.
LEMMA NewConnOf ==
    ASSUME NEW f \in Fields
    PROVE  LET c == NewConn(f)
           IN  /\ c \in Conns /\ TextOK(c) /\ c.part = <<>> /\ c.mode = "scanning"
               /\ c.telnet = {"ECHO"} /\ c.answers = <<>> /\ c.field = f
<1> DEFINE c == NewConn(f)
<1>1. /\ c.mode = "scanning" /\ c.telnet = {"ECHO"} /\ c.answers = <<>> /\ c.field = f
      /\ c.out = <<>> /\ c.lines = <<>> /\ c.line = <<>> /\ c.part = <<>> /\ c.ansi = NoAnsi
    BY DEF NewConn
<1>2. c \in Conns
    <2>1. NoAnsi \in Ansi
        BY DEF NoAnsi, Ansi, Colors
    <2>2. "scanning" \in ScanStates /\ "DO" \in Commands
        BY DEF ScanStates, Commands
    <2> QED
        BY <2>1, <2>2 DEF NewConn, Conns
<1> HIDE DEF c
<1>3. Balanced(c.out, c.ansi)
    <2>1. DOMAIN <<>> = {} /\ <<>> \in Seq(Items)
        OBVIOUS
    <2>2. \A item : Count(<<>>, item) = 0
        BY <2>1, CountType
    <2>3. \A attr \in Attributes : c.ansi[attr] = FALSE
        BY <1>1 DEF NoAnsi, Attributes
    <2> QED
        BY <1>1, <2>2, <2>3 DEF Balanced
<1>4. TextOfLines(c)
    <2>1. FlattenSeq(<<>>) = <<>>
        BY DEF FlattenSeq
    <2>2. Visible(<<>>) = <<>>
        BY WithoutEmpty DEF Visible
    <2>3. FlattenSeq(c.lines) = <<>> /\ Visible(c.out) = <<>> /\ c.line = <<>> /\ c.part = <<>>
        BY <1>1, <2>1, <2>2
    <2> QED
        BY <2>3 DEF TextOfLines
<1> QED
    BY <1>1, <1>2, <1>3, <1>4 DEF TextOK, c

LEMMA NewIs ==
    /\ NoField \in Fields /\ New \in Conns /\ TextOK(New) /\ New.part = <<>>
    /\ New.mode = "scanning" /\ New.telnet = {"ECHO"} /\ New.answers = <<>>
<1>1. NoField \in Fields
    BY DEF NoField, Fields, EchoStates, Texts
<1> QED
    BY <1>1, NewConnOf DEF New

LEMMA AnswersOf ==
    ASSUME NEW c \in Conns
    PROVE  c.answers \in Seq(AnswerType) /\ c.field \in Fields
BY DEF Conns, AnswerType

\* Nothing breaks off where there are no null characters.
LEMMA Unbroken ==
    ASSUME NEW p \in Seq(Chars), \A i \in 1 .. Len(p) : p[i] # "NUL"
    PROVE  \A k \in 0 .. Len(p) : /\ At(New, p, k) \in Scans /\ At(New, p, k).conn \in Conns
                                  /\ Placed(At(New, p, k)) /\ At(New, p, k).behind # "NUL"
<1>1. At(New, p, 0) = [conn |-> New, behind |-> "none"] /\ New \in Conns
    BY NewIs, AtIs DEF Start
<1>2. Agree(New, At(New, p, 0).conn) /\ Placed(At(New, p, 0)) /\ At(New, p, 0).behind # "NUL"
    BY <1>1 DEF Agree, Placed
<1>3. 0 \in Nat /\ 0 + Len(p) <= Len(p) /\ \A i \in 1 .. Len(p) : p[i] = p[0 + i] /\ p[i] # "NUL"
    OBVIOUS
<1>4. \A i \in 0 .. Len(p) : Alike(At(New, p, i), At(New, p, 0 + i))
    BY <1>1, <1>2, <1>3, ReadAlike
<1> QED
    BY <1>1, <1>4, AtIs DEF Alike, Scans

\* A packet.
LEMMA PacketParsed ==
    ASSUME NEW c \in Conns, c.part = <<>>, NEW p \in Seq(Chars)
    PROVE  LET d == ParseText(c, p)
           IN  /\ d \in Conns /\ d.part = <<>> /\ Follows(c, d)
               /\ Agree(At(c, p, Len(p)).conn, d) /\ d.out = At(c, p, Len(p)).conn.out
<1> DEFINE e == At(c, p, Len(p)).conn
           d == ParseEndOfLine(e, FALSE)
<1>1. StartPacket(c) = c
    BY DEF StartPacket, Conns
<1>2. ParseText(c, p) = d
    BY <1>1 DEF ParseText, At
<1>3. At(c, p, Len(p)) \in Scans /\ e \in Conns
    BY AtIs DEF Scans
<1>4. Follows(c, e)
    <2>1. Follows(At(c, p, 0).conn, At(c, p, 0 + Len(p)).conn)
        <3>1. 0 \in 0 .. Len(p) /\ Len(p) \in 0 .. Len(p) - 0
            OBVIOUS
        <3> QED
            BY <3>1, FollowsLater
    <2>2. At(c, p, 0) = [conn |-> c, behind |-> "none"] /\ 0 + Len(p) = Len(p)
        BY AtIs DEF Start
    <2> QED
        BY <2>1, <2>2
<1> HIDE DEF e
<1>5. /\ d \in Conns /\ SameRest(e, d) /\ d.ansi = e.ansi /\ d.out = e.out /\ d.part = <<>>
      /\ TextOK(e) => TextOK(d)
    BY <1>3, ParseEndOfLineOf
<1> HIDE DEF d
<1>6. Agree(e, d)
    BY <1>5 DEF Agree, SameRest
<1>7. Follows(c, d)
    <2>1. /\ TextOK(c) => TextOK(d)
          /\ d.field = e.field /\ d.telnet = e.telnet /\ d.answers = e.answers
        BY <1>4, <1>5 DEF SameRest, Follows
    <2>2. EchoAgrees(e) => EchoAgrees(d)
        BY <2>1 DEF EchoAgrees
    <2> QED
        BY <1>4, <2>1, <2>2 DEF Follows
<1> QED
    BY <1>2, <1>5, <1>6, <1>7 DEF e

LEMMA StreamSame ==
    /\ UNCHANGED stream => Clean = Clean' /\ \A k : Read(k) = Read(k)'
    /\ UNCHANGED <<stream, heard, echoing>> /\ Negotiated => Negotiated'
<1>1. ASSUME UNCHANGED stream PROVE Clean = Clean' /\ \A k : Read(k) = Read(k)'
    BY <1>1 DEF Clean, Read
<1>2. ASSUME UNCHANGED <<stream, heard, echoing>>, Negotiated PROVE Negotiated'
    <2> DEFINE c == Read(Len(stream))
    <2>1. c' = c
        BY <1>1, <1>2
    <2>2. Negotiated <=> c.mode = "scanning" /\ Awaits(echoing, heard, c.answers, c.telnet)
        BY DEF Negotiated
    <2>3. Negotiated' <=> c'.mode = "scanning" /\ Awaits(echoing', heard', c'.answers, c'.telnet)
        BY DEF Negotiated
    <2> HIDE DEF c
    <2> QED
        BY <1>2, <2>1, <2>2, <2>3
<1> QED
    BY <1>1, <1>2

\* The user's steps change the field only.
LEMMA FieldChanges ==
    ASSUME TerminalInv, NEW f \in Fields, conn' = FieldSet(conn, f), f.child = EditName(f),
           f.echo = "auto" /\ f.password = "secret" => ended'.password = "secret",
           f.echo = "on" /\ f.plain = "login" /\ checked' => f.loggedIn \/ world = "lines",
           (f.echo = "telnet") = (conn.field.echo = "telnet"),
           UNCHANGED <<world, session, online, stream, got, textSeen, heard, echoing>>,
           keys' \in 0 .. MaxKeys, history' \subseteq Texts, displayed' \subseteq Texts,
           ended' \in [plain : Texts, password : Texts], checked' \in BOOLEAN
    PROVE  TerminalInv'
<1>1. TypeOK /\ FieldInv /\ TextOK(conn) /\ (NoNulls => Clean /\ Arrived /\ Negotiated)
    BY DEF TerminalInv, TextOK
<1>2. conn \in Conns /\ conn.part = <<>>
    BY <1>1 DEF TypeOK
<1>3. /\ conn' \in Conns /\ SameText(conn, conn') /\ conn'.telnet = conn.telnet /\ conn'.field = f
      /\ conn'.answers = conn.answers /\ Agree(conn, conn') /\ TextOK(conn')
    BY <1>1, <1>2, FieldSetOf
<1>4. TypeOK'
    BY <1>1, <1>3 DEF TypeOK, SameText
<1>5. FieldInv'
    <2>1. LoginCovered(conn.field)'
        BY <1>3 DEF LoginCovered
    <2>2. (online => EchoAgrees(conn))'
        BY <1>1, <1>3 DEF FieldInv, EchoAgrees
    <2>3. FieldProper(conn.field)'
        BY <1>3 DEF FieldProper
    <2> QED
        BY <2>1, <2>2, <2>3 DEF FieldInv
<1>6. ASSUME NoNulls PROVE (Clean /\ Arrived /\ Negotiated)'
    <2>1. Clean' /\ Negotiated' /\ \A k : Read(k)' = Read(k)
        BY <1>1, <1>6, StreamSame
    <2>2. Agree(conn, Read(got))
        BY <1>1, <1>6 DEF Arrived
    <2>3. Agree(conn', Read(got))
        BY <1>3, <2>2 DEF Agree
    <2>4. Read(got)' = Read(got)
        BY <2>1
    <2> QED
        BY <2>1, <2>3, <2>4 DEF Arrived
<1>7. NoNulls' = NoNulls
    BY DEF NoNulls
<1> QED
    BY <1>3, <1>4, <1>5, <1>6, <1>7 DEF TerminalInv, TextOK

\* With nothing written, nothing is awaited.
LEMMA NothingRead ==
    ASSUME NEW p, p = <<>>
    PROVE  /\ p \in Seq(Chars) /\ Len(p) = 0 /\ At(New, p, 0).conn = New
           /\ Awaits("off", 0, <<>>, {"ECHO"})
<1>1. p \in Seq(Chars) /\ Len(p) = 0
    OBVIOUS
<1>2. At(New, p, 0) = [conn |-> New, behind |-> "none"]
    BY <1>1, NewIs, AtIs DEF Start
<1>3. Awaits("off", 0, <<>>, {"ECHO"})
    BY DEF Awaits, Unread
<1> QED
    BY <1>1, <1>2, <1>3

LEMMA InitTerminal == Init => TerminalInv
<1> SUFFICES ASSUME Init PROVE TerminalInv
    OBVIOUS
<1>1. /\ conn = New /\ stream = <<>> /\ got = 0 /\ heard = 0 /\ echoing = "off" /\ online = FALSE
      /\ session = 0 /\ keys = 0 /\ history = {} /\ displayed = {} /\ textSeen = FALSE
      /\ world \in Worlds
    BY DEF Init, New
<1>2. New.field = NoField
    BY NewConnOf, NewIs DEF New
<1>3. TypeOK
    <2>1. stream \in Seq(Chars) /\ Len(stream) = 0
        BY <1>1, NothingRead
    <2>2. conn \in Conns /\ conn.part = <<>> /\ Len(conn.answers) = 0
        BY <1>1, NewIs
    <2>3. got \in 0 .. Len(stream) /\ Len(stream) <= MaxBytes /\ heard \in 0 .. Len(conn.answers)
        BY <1>1, <2>1, <2>2, TerminalBounds
    <2>4. session \in 0 .. MaxSessions /\ keys \in 0 .. MaxKeys
        BY <1>1, TerminalBounds
    <2>5. echoing \in EchoSides /\ online \in BOOLEAN /\ textSeen \in BOOLEAN
          /\ history \subseteq Texts /\ displayed \subseteq Texts /\ world \in Worlds
        BY <1>1 DEF EchoSides
    <2>6. ended \in [plain : Texts, password : Texts] /\ checked \in BOOLEAN
        BY DEF Init, Texts
    <2> QED
        BY <2>1, <2>2, <2>3, <2>4, <2>5, <2>6 DEF TypeOK
<1>4. FieldInv
    <2>1. FieldProper(NoField) /\ LoginCovered(NoField)
        BY DEF FieldProper, LoginCovered, NoField, EditName
    <2> QED
        BY <1>1, <1>2, <2>1 DEF FieldInv
<1>5. Clean /\ Arrived /\ Negotiated
    <2>1. Len(stream) = 0 /\ At(New, stream, 0).conn = New /\ Awaits("off", 0, <<>>, {"ECHO"})
        BY <1>1, NothingRead
    <2>2. Read(0) = New
        BY <2>1 DEF Read, At, New
    <2>3. Clean
        BY <2>1 DEF Clean
    <2>4. Arrived
        BY <1>1, <2>2 DEF Arrived, Agree
    <2>5. Negotiated
        BY <1>1, <2>1, <2>2, NewIs DEF Negotiated
    <2> QED
        BY <2>3, <2>4, <2>5
<1> QED
    BY <1>1, <1>3, <1>4, <1>5, NewIs DEF TerminalInv, TextOK

\* A connection begins, or ends: nothing is written, nothing read.
LEMMA StartsOver ==
    ASSUME TerminalInv, NEW f \in Fields, conn' = NewConn(f), FieldProper(f), LoginCovered(f),
           online' => f.echo = "on", online' \in BOOLEAN, session' \in 0 .. MaxSessions,
           stream' = <<>>, got' = 0, heard' = 0, echoing' = "off", textSeen' = FALSE,
           UNCHANGED <<world, keys, history, ended, checked>>, displayed' \subseteq displayed
    PROVE  TerminalInv'
<1>1. /\ conn' \in Conns /\ TextOK(conn') /\ conn'.part = <<>> /\ conn'.mode = "scanning"
      /\ conn'.telnet = {"ECHO"} /\ conn'.answers = <<>> /\ conn'.field = f
    BY NewConnOf
<1>2. TypeOK /\ FieldInv
    BY DEF TerminalInv
<1>3. TypeOK'
    <2>1. stream' \in Seq(Chars) /\ Len(stream') = 0
        BY NothingRead
    <2>2. Len(conn'.answers) = 0
        BY <1>1
    <2>3. "off" \in EchoSides
        BY DEF EchoSides
    <2>4. (got \in 0 .. Len(stream) /\ Len(stream) <= MaxBytes /\ heard \in 0 .. Len(conn.answers))'
        BY <2>1, <2>2, TerminalBounds
    <2>5. (/\ session \in 0 .. MaxSessions /\ keys \in 0 .. MaxKeys /\ world \in Worlds
           /\ online \in BOOLEAN /\ textSeen \in BOOLEAN /\ history \subseteq Texts
           /\ displayed \subseteq Texts /\ echoing \in EchoSides
           /\ ended \in [plain : Texts, password : Texts] /\ checked \in BOOLEAN)'
        BY <1>2, <2>3 DEF TypeOK
    <2> QED
        BY <1>1, <2>1, <2>2, <2>4, <2>5 DEF TypeOK
<1>4. FieldInv'
    <2>1. LoginCovered(conn.field)'
        BY <1>1 DEF LoginCovered
    <2>2. (online => EchoAgrees(conn))'
        BY <1>1 DEF EchoAgrees
    <2>3. FieldProper(conn.field)'
        BY <1>1 DEF FieldProper
    <2> QED
        BY <2>1, <2>2, <2>3 DEF FieldInv
<1>5. (Clean /\ Arrived /\ Negotiated)'
    <2>1. Len(stream') = 0 /\ At(New, stream', 0).conn = New
        BY NothingRead
    <2>2. Read(0)' = New
        BY <2>1 DEF Read, At, New
    <2>3. Awaits("off", 0, <<>>, {"ECHO"})
        BY NothingRead
    <2>4. Agree(conn', New)
        BY DEF Agree, New, NewConn
    <2>5. Arrived'
        BY <2>2, <2>4 DEF Arrived
    <2>6. Negotiated'
        BY <1>1, <2>1, <2>2, <2>3, NewIs DEF Negotiated
    <2>7. Clean'
        BY <2>1 DEF Clean
    <2> QED
        BY <2>5, <2>6, <2>7
<1> QED
    BY <1>1, <1>3, <1>4, <1>5 DEF TerminalInv, TextOK

LEMMA ConnectTerminal == TerminalInv /\ Connect => TerminalInv'
<1> SUFFICES ASSUME TerminalInv, Connect PROVE TerminalInv'
    OBVIOUS
<1> DEFINE f == ConnectField(conn.field)
<1>1. TypeOK /\ conn.field \in Fields
    BY AnswersOf DEF TerminalInv, TypeOK
<1>2. f \in Fields /\ FieldProper(f) /\ LoginCovered(f) /\ f.echo = "on"
    BY <1>1, ConnectedField
<1>3. conn' = NewConn(f) /\ displayed' = {} /\ online' = TRUE
    BY DEF Connect
<1> HIDE DEF f
<1>4. session' \in 0 .. MaxSessions
    BY <1>1, TerminalBounds DEF Connect, TypeOK
<1> QED
    BY <1>2, <1>3, <1>4, StartsOver DEF Connect

LEMMA DisconnectTerminal == TerminalInv /\ Disconnect => TerminalInv'
<1> SUFFICES ASSUME TerminalInv, Disconnect PROVE TerminalInv'
    OBVIOUS
<1> DEFINE f == conn.field
<1>1. TypeOK /\ f \in Fields /\ FieldProper(f) /\ LoginCovered(f)
    BY AnswersOf DEF TerminalInv, TypeOK, FieldInv
<1>2. conn' = NewConn(f) /\ online' = FALSE
    BY DEF Disconnect
<1> HIDE DEF f
<1>3. session' \in 0 .. MaxSessions
    BY <1>1 DEF Disconnect, TypeOK
<1> QED
    BY <1>1, <1>2, <1>3, StartsOver DEF Disconnect

LEMMA KeyPressed == TypeOK /\ PressKey => keys' \in 0 .. MaxKeys
BY TerminalBounds DEF TypeOK, PressKey

LEMMA TypeTerminal == TerminalInv /\ (\E text \in Texts : Type(text)) => TerminalInv'
<1> SUFFICES ASSUME TerminalInv, NEW text \in Texts, Type(text) PROVE TerminalInv'
    OBVIOUS
<1> DEFINE f == conn.field
           asks == world # "lines"
           g == CheckForPasswordProtection([f EXCEPT ![EditName(f)] = text], asks)
<1>1. TypeOK /\ FieldInv /\ f \in Fields /\ FieldProper(f)
    BY AnswersOf DEF TerminalInv, TypeOK, FieldInv
<1>2. text \in {""} \cup IF f.echo = "telnet" THEN {"secret"} ELSE {"say", "login"}
    BY DEF Type
<1>3. conn' = FieldSet(conn, g)
    BY DEF Type, FieldSet
<1>4. /\ g \in Fields /\ FieldProper(g) /\ (g.echo = "telnet") = (f.echo = "telnet")
      /\ g.echo = "on" /\ g.plain = "login" => g.loggedIn \/ ~asks
    <2>1. asks \in BOOLEAN
        OBVIOUS
    <2> HIDE DEF f, asks
    <2> QED
        BY <1>1, <1>2, <2>1, TypedField
<1> HIDE DEF g
<1>5. /\ keys' \in 0 .. MaxKeys /\ history' \subseteq Texts /\ displayed' \subseteq Texts
      /\ ended' \in [plain : Texts, password : Texts] /\ checked' \in BOOLEAN
    BY <1>1, KeyPressed DEF TypeOK, Type
<1>6. UNCHANGED <<world, session, online, stream, got, textSeen, heard, echoing, ended>>
    BY DEF Type
<1>7. g.child = EditName(g) /\ (g.echo = "auto" /\ g.password = "secret" => ended'.password = "secret")
    BY <1>4, <1>6 DEF FieldProper
<1> QED
    BY <1>3, <1>4, <1>5, <1>6, <1>7, FieldChanges

\* A line of the history, or what was put aside in the hidden field.
LEMMA HistoryTextTerminal ==
    ASSUME TerminalInv, NEW text \in Texts, SetHistoryText(text), PressKey,
           conn.field.echo = "auto" /\ text = "secret" => ended.password = "secret",
           ended' \in [plain : Texts, password : Texts], ended'.password = ended.password
    PROVE  TerminalInv'
<1> DEFINE f == conn.field
           g == SetWindowText(f, text)
<1>1. TypeOK /\ FieldInv /\ f \in Fields /\ FieldProper(f) /\ LoginCovered(f)
    BY AnswersOf DEF TerminalInv, TypeOK, FieldInv
<1>2. conn' = FieldSet(conn, g)
    BY DEF SetHistoryText, FieldSet
<1>3. checked' = (checked /\ (EditName(f) = "password" \/ text = f.plain))
    BY DEF SetHistoryText
<1>4. /\ g \in Fields /\ FieldProper(g) /\ (g.echo = "telnet") = (f.echo = "telnet")
      /\ g.echo = "on" /\ g.plain = "login"
             /\ checked /\ (EditName(f) = "password" \/ text = f.plain)
           => g.loggedIn \/ world = "lines"
    <2>1. f.echo = "auto" /\ text = "secret" => ended.password = "secret"
        OBVIOUS
    <2> HIDE DEF f
    <2> QED
        BY <1>1, <2>1, SetField
<1> HIDE DEF g
<1>5. /\ keys' \in 0 .. MaxKeys /\ history' \subseteq Texts /\ displayed' \subseteq Texts
      /\ checked' \in BOOLEAN
    BY <1>1, <1>3, KeyPressed DEF TypeOK, SetHistoryText
<1>6. UNCHANGED <<world, session, online, stream, got, textSeen, heard, echoing>>
    BY DEF SetHistoryText
<1>7. g.child = EditName(g) /\ (g.echo = "auto" /\ g.password = "secret" => ended'.password = "secret")
    BY <1>4 DEF FieldProper
<1>8. g.echo = "on" /\ g.plain = "login" /\ checked' => g.loggedIn \/ world = "lines"
    BY <1>3, <1>4
<1> QED
    BY <1>2, <1>4, <1>5, <1>6, <1>7, <1>8, FieldChanges

LEMMA UpTerminal == TerminalInv /\ (\E begins \in BOOLEAN : Up(begins)) => TerminalInv'
<1> SUFFICES ASSUME TerminalInv, NEW begins \in BOOLEAN, Up(begins) PROVE TerminalInv'
    OBVIOUS
<1> DEFINE f == conn.field
<1>1. TypeOK /\ FieldInv /\ f \in Fields /\ FieldProper(f) /\ LoginCovered(f) /\ conn \in Conns
    BY AnswersOf DEF TerminalInv, TypeOK, FieldInv
<1>2. /\ PressKey
      /\ ended' = IF begins THEN [ended EXCEPT ![EditName(f)] = EditText(f)] ELSE ended
    BY DEF Up
<1>3. ended \in [plain : Texts, password : Texts] /\ history \subseteq Texts
    BY <1>1 DEF TypeOK
<1>4. /\ ended' \in [plain : Texts, password : Texts]
      /\ f.echo = "on" => ended'.password = ended.password
      /\ ended'.password \in {ended.password, f.password}
    <2>1. f.plain \in Texts /\ f.password \in Texts
        BY <1>1 DEF Fields
    <2> HIDE DEF f
    <2> QED
        BY <1>2, <1>3, <2>1 DEF EditName, EditText
<1>5. CASE \E line \in Lines : SetHistoryText(line)
    <2>1. PICK line \in Lines : SetHistoryText(line)
        BY <1>5
    <2>2. f.echo = "on" /\ line \in Texts
        BY <1>3, <2>1 DEF Lines, EditName
    <2> QED
        BY <1>2, <1>4, <2>1, <2>2, HistoryTextTerminal
<1>6. CASE UNCHANGED <<world, session, online, stream, got, conn, textSeen, heard, echoing,
                       history, checked, displayed>>
    <2>1. conn' = FieldSet(conn, f)
        BY <1>1, <1>6 DEF FieldSet, Conns
    <2>2. f.child = EditName(f) /\ (f.echo = "auto" /\ f.password = "secret" => ended'.password = "secret")
        BY <1>1, <1>4 DEF FieldProper
    <2>3. f.echo = "on" /\ f.plain = "login" /\ checked' => f.loggedIn \/ world = "lines"
        BY <1>1, <1>6 DEF LoginCovered
    <2>4. /\ keys' \in 0 .. MaxKeys /\ history' \subseteq Texts /\ displayed' \subseteq Texts
          /\ checked' \in BOOLEAN
        BY <1>1, <1>2, <1>6, KeyPressed DEF TypeOK
    <2> QED
        BY <1>1, <1>4, <1>6, <2>1, <2>2, <2>3, <2>4, FieldChanges
<1> QED
    BY <1>5, <1>6 DEF Up

LEMMA DownTerminal == TerminalInv /\ Down => TerminalInv'
<1> SUFFICES ASSUME TerminalInv, Down PROVE TerminalInv'
    OBVIOUS
<1>1. TypeOK
    BY DEF TerminalInv
<1>2. PICK line \in Lines \cup {ended[EditName(conn.field)]} : SetHistoryText(line)
    BY DEF Down
<1>3. PressKey /\ ended' = ended
    BY DEF Down
<1>4. /\ ended' \in [plain : Texts, password : Texts] /\ ended'.password = ended.password
      /\ ended.plain \in Texts /\ ended.password \in Texts
    BY <1>1, <1>3 DEF TypeOK
<1>5. /\ line \in Texts
      /\ conn.field.echo = "auto" /\ line = "secret" => ended.password = "secret"
    BY <1>1, <1>2, <1>4 DEF TypeOK, Lines, EditName
<1> QED
    BY <1>2, <1>3, <1>4, <1>5, HistoryTextTerminal

LEMMA RewriteTerminal == TerminalInv /\ Rewrite => TerminalInv'
<1> SUFFICES ASSUME TerminalInv, Rewrite PROVE TerminalInv'
    OBVIOUS
<1>1. TypeOK
    BY DEF TerminalInv
<1>2. PICK line \in history \cup IF conn.field.plain = "" THEN {} ELSE {"say", "login"} :
            SetHistoryText(line)
    BY DEF Rewrite
<1>3. PressKey /\ ended' = ended /\ conn.field.echo = "on"
    BY DEF Rewrite, EditName
<1>4. ended' \in [plain : Texts, password : Texts] /\ ended'.password = ended.password
    BY <1>1, <1>3 DEF TypeOK
<1>5. line \in Texts
    BY <1>1, <1>2 DEF TypeOK, Texts
<1> QED
    BY <1>2, <1>3, <1>4, <1>5, HistoryTextTerminal

LEMMA OnSendKeyTerminal == TerminalInv /\ (\E clear \in BOOLEAN : OnSendKey(clear)) => TerminalInv'
<1> SUFFICES ASSUME TerminalInv, NEW clear \in BOOLEAN, OnSendKey(clear) PROVE TerminalInv'
    OBVIOUS
<1> DEFINE f == conn.field
           g == Sent(f, clear)
<1>1. TypeOK /\ FieldInv /\ f \in Fields /\ FieldProper(f) /\ LoginCovered(f)
    BY AnswersOf DEF TerminalInv, TypeOK, FieldInv
<1>2. conn' = FieldSet(conn, g)
    BY DEF OnSendKey, FieldSet, Sent
<1>3. /\ g \in Fields /\ FieldProper(g) /\ LoginCovered(g)
      /\ (g.echo = "telnet") = (f.echo = "telnet")
    <2> HIDE DEF f
    <2> QED
        BY <1>1, SentField
<1> HIDE DEF g
<1>4. f.plain \in Texts /\ f.password \in Texts
    BY <1>1 DEF Fields
<1>5. history' \subseteq Texts /\ displayed' \subseteq Texts
    <2>1. displayed' = IF f.echo = "on" THEN displayed \cup {EditText(f)} ELSE displayed
        BY DEF OnSendKey
    <2>2. history' = IF Remembers(f) THEN history \cup {EditText(f)} ELSE history
        BY DEF OnSendKey
    <2>3. EditText(f) \in Texts
        BY <1>4 DEF EditText
    <2>4. history \subseteq Texts /\ displayed \subseteq Texts
        BY <1>1 DEF TypeOK
    <2> HIDE DEF f
    <2> QED
        BY <2>1, <2>2, <2>3, <2>4
<1>6. keys' \in 0 .. MaxKeys
    BY <1>1, KeyPressed DEF OnSendKey
<1>7. UNCHANGED <<world, session, online, stream, got, textSeen, heard, echoing, ended, checked>>
    BY DEF OnSendKey
<1>8. ended' \in [plain : Texts, password : Texts] /\ checked' \in BOOLEAN
    BY <1>1, <1>7 DEF TypeOK
<1>9. g.child = EditName(g) /\ (g.echo = "auto" /\ g.password = "secret" => ended'.password = "secret")
    BY <1>3, <1>7 DEF FieldProper
<1>10. g.echo = "on" /\ g.plain = "login" /\ checked' => g.loggedIn \/ world = "lines"
    BY <1>3, <1>7 DEF LoginCovered
<1> QED
    BY <1>2, <1>3, <1>5, <1>6, <1>7, <1>8, <1>9, <1>10, FieldChanges

LEMMA SendFromMenuTerminal ==
    TerminalInv /\ (\E text \in Texts, clear \in BOOLEAN : SendFromMenu(text, clear)) => TerminalInv'
<1> SUFFICES ASSUME TerminalInv, NEW text \in Texts, NEW clear \in BOOLEAN,
                    SendFromMenu(text, clear)
             PROVE  TerminalInv'
    OBVIOUS
<1> DEFINE f == conn.field
           line == IF clear THEN "" ELSE text
           g == [f EXCEPT !.plain = line]
<1>1. TypeOK /\ FieldInv /\ f \in Fields /\ FieldProper(f) /\ conn \in Conns
    BY AnswersOf DEF TerminalInv, TypeOK, FieldInv
<1>2. conn' = FieldSet(conn, g)
    BY <1>1 DEF SendFromMenu, FieldSet, Conns
<1>3. line \in Texts
    BY DEF Texts
<1> HIDE DEF line
<1>4. /\ g \in Fields /\ g.echo = f.echo /\ g.child = f.child /\ g.password = f.password
    BY <1>1, <1>3 DEF Fields
<1>5. UNCHANGED <<world, session, online, stream, got, textSeen, heard, echoing, ended>>
    BY DEF SendFromMenu
<1> HIDE DEF g
<1>6. g.child = EditName(g) /\ (g.echo = "auto" /\ g.password = "secret" => ended'.password = "secret")
    BY <1>1, <1>4, <1>5 DEF FieldProper, EditName
<1>7. /\ keys' \in 0 .. MaxKeys /\ history' \subseteq Texts /\ displayed' \subseteq Texts
      /\ ended' \in [plain : Texts, password : Texts] /\ checked' = FALSE
    BY <1>1, KeyPressed DEF TypeOK, SendFromMenu
<1> QED
    BY <1>2, <1>4, <1>5, <1>6, <1>7, FieldChanges

LEMMA ReadAnswerTerminal == TerminalInv /\ ReadAnswer => TerminalInv'
<1> SUFFICES ASSUME TerminalInv, ReadAnswer PROVE TerminalInv'
    OBVIOUS
<1>1. TypeOK /\ FieldInv /\ TextOK(conn) /\ (NoNulls => Clean /\ Arrived /\ Negotiated)
    BY DEF TerminalInv, TextOK
<1> DEFINE a == conn.answers[heard + 1]
<1>2. /\ heard < Len(conn.answers) /\ heard' = heard + 1
      /\ UNCHANGED <<world, session, online, stream, got, conn, textSeen, keys, history, ended, checked, displayed>>
      /\ echoing' = IF a = <<"DO", "ECHO">> /\ echoing = "offered" THEN "on"
                    ELSE IF a = <<"DONT", "ECHO">> THEN "off" ELSE echoing
    BY DEF ReadAnswer
<1> HIDE DEF a
<1>3. TypeOK'
    BY <1>1, <1>2, AnswersOf DEF TypeOK, EchoSides
<1>4. FieldInv' /\ TextOK(conn')
    BY <1>1, <1>2 DEF FieldInv, FieldProper, LoginCovered
<1>5. ASSUME NoNulls PROVE (Clean /\ Arrived /\ Negotiated)'
    <2> DEFINE L == Len(stream)
               c == Read(L)
    <2>1. Clean' /\ Read(L)' = Read(L) /\ Read(got)' = Read(got) /\ L' = L
        BY <1>1, <1>2, <1>5, StreamSame
    <2>2. Arrived'
        BY <1>1, <1>2, <1>5, <2>1 DEF Arrived
    <2>3. /\ got \in 0 .. L /\ L \in Nat /\ stream \in Seq(Chars) /\ conn \in Conns
          /\ heard \in 0 .. Len(conn.answers) /\ echoing \in EchoSides
        BY <1>1 DEF TypeOK
    <2>4. conn.answers = Read(got).answers
        BY <1>1, <1>5 DEF Arrived, Agree
    <2>5. Begins(Read(got).answers, c.answers) /\ c \in Conns
        <3>1. L - got \in 0 .. L - got /\ got + (L - got) = L /\ L \in 0 .. L
            BY <2>3
        <3>2. Follows(At(New, stream, got).conn, At(New, stream, got + (L - got)).conn)
            BY <2>3, <3>1, NewIs, FollowsLater
        <3>3. At(New, stream, L).conn \in Conns
            BY <2>3, <3>1, NewIs, AtIs DEF Scans
        <3> QED
            BY <3>1, <3>2, <3>3 DEF Follows, Read, At, New
    <2> HIDE DEF c
    <2>6. c.answers \in Seq(AnswerType) /\ conn.answers \in Seq(AnswerType)
        BY <2>3, <2>5, AnswersOf
    <2>7. heard \in Nat /\ heard < Len(c.answers) /\ c.answers[heard + 1] = a
        BY <1>2, <2>3, <2>4, <2>5, <2>6 DEF Begins, a
    <2>8. c.mode = "scanning" /\ Awaits(echoing, heard, c.answers, c.telnet)
        BY <1>1, <1>5 DEF Negotiated, c
    <2>9. Awaits(echoing', heard', c.answers, c.telnet)
        BY <1>2, <2>3, <2>6, <2>7, <2>8, AwaitsRead
    <2>10. Negotiated'
        <3>1. Read(Len(stream))' = c
            BY <2>1 DEF c
        <3> QED
            BY <2>8, <2>9, <3>1 DEF Negotiated
    <2> QED
        BY <2>1, <2>2, <2>10
<1>6. NoNulls' = NoNulls
    BY DEF NoNulls
<1> QED
    BY <1>3, <1>4, <1>5, <1>6 DEF TerminalInv, TextOK

\* A packet: what it does to the connection, and the login that may follow.
LEMMA ProcessOutputTerminal ==
    TerminalInv /\ (\E n \in 1 .. Len(stream) - got : ProcessOutput(n)) => TerminalInv'
<1> SUFFICES ASSUME TerminalInv, NEW n \in 1 .. Len(stream) - got, ProcessOutput(n)
             PROVE  TerminalInv'
    OBVIOUS
<1> DEFINE p == SubSeq(stream, got + 1, got + n)
           d == ParseText(conn, p)
           e == At(conn, p, n).conn
           login == ~textSeen /\ world = "autologin"
           f == IF login THEN [d.field EXCEPT !.loggedIn = TRUE] ELSE d.field
<1>1. TypeOK /\ FieldInv /\ TextOK(conn) /\ (NoNulls => Clean /\ Arrived /\ Negotiated)
    BY DEF TerminalInv, TextOK
<1>2. /\ stream \in Seq(Chars) /\ got \in 0 .. Len(stream) /\ conn \in Conns /\ conn.part = <<>>
      /\ heard \in 0 .. Len(conn.answers) /\ Len(stream) \in Nat /\ got + n <= Len(stream)
    BY <1>1 DEF TypeOK
<1>3. p \in Seq(Chars) /\ Len(p) = n /\ \A i \in 1 .. n : p[i] = stream[got + i]
    BY <1>2
<1>4. /\ online = TRUE /\ got' = got + n /\ textSeen' = TRUE
      /\ UNCHANGED <<world, session, online, stream, heard, echoing, keys, history, ended, checked, displayed>>
      /\ conn' = IF login THEN [d EXCEPT !.field.loggedIn = TRUE] ELSE d
    BY <1>1 DEF ProcessOutput, TypeOK
<1> HIDE DEF p
<1>5. d \in Conns /\ d.part = <<>> /\ Follows(conn, d) /\ Agree(e, d)
    BY <1>2, <1>3, PacketParsed
<1> HIDE DEF d, e, login
<1>6. d.field \in Fields /\ f \in Fields
    BY <1>5, AnswersOf DEF Fields
<1>7. conn' = FieldSet(d, f)
    <2>1. d = [d EXCEPT !.field = d.field]
        BY <1>5 DEF Conns
    <2> QED
        BY <1>4, <2>1 DEF FieldSet
<1>8. /\ f.echo = d.field.echo /\ f.plain = d.field.plain /\ f.password = d.field.password
      /\ f.child = d.field.child /\ (d.field.loggedIn => f.loggedIn)
    BY <1>6 DEF Fields
<1> HIDE DEF f
<1>9. /\ conn' \in Conns /\ SameText(d, conn') /\ conn'.telnet = d.telnet /\ conn'.field = f
      /\ conn'.answers = d.answers /\ Agree(d, conn')
      /\ TextOK(d) => TextOK(conn')
    BY <1>5, <1>6, <1>7, FieldSetOf
<1>10. TextOK(conn') /\ conn'.part = <<>>
    BY <1>1, <1>5, <1>9 DEF Follows, SameText
<1>11. TypeOK'
    <2>0. Begins(conn.answers, conn'.answers)
        BY <1>5, <1>9 DEF Follows
    <2>1. Len(conn.answers) <= Len(conn'.answers) /\ Len(conn'.answers) \in Nat
        BY <1>9, <2>0, AnswersOf DEF Begins
    <2>2. (got \in 0 .. Len(stream) /\ heard \in 0 .. Len(conn.answers))'
        BY <1>2, <1>4, <2>1, AnswersOf
    <2>3. (/\ session \in 0 .. MaxSessions /\ keys \in 0 .. MaxKeys /\ world \in Worlds
           /\ online \in BOOLEAN /\ textSeen \in BOOLEAN /\ history \subseteq Texts
           /\ displayed \subseteq Texts /\ echoing \in EchoSides
           /\ ended \in [plain : Texts, password : Texts] /\ checked \in BOOLEAN
           /\ stream \in Seq(Chars) /\ Len(stream) <= MaxBytes)'
        BY <1>1, <1>4 DEF TypeOK
    <2> QED
        BY <1>9, <1>10, <2>2, <2>3 DEF TypeOK
<1>12. FieldInv'
    <2>1. FieldProper(d.field) /\ LoginCovered(d.field) /\ EchoAgrees(d)
        BY <1>1, <1>4, <1>5 DEF FieldInv, Follows
    <2>2. FieldProper(conn.field)'
        BY <1>4, <1>8, <1>9, <2>1 DEF FieldProper, EditName
    <2>3. LoginCovered(conn.field)'
        BY <1>4, <1>8, <1>9, <2>1 DEF LoginCovered
    <2>4. EchoAgrees(conn)'
        BY <1>8, <1>9, <2>1 DEF EchoAgrees
    <2> QED
        BY <2>2, <2>3, <2>4 DEF FieldInv
<1>13. ASSUME NoNulls PROVE (Clean /\ Arrived /\ Negotiated)'
    <2>0. Clean /\ Arrived /\ Negotiated
        BY <1>1, <1>13
    <2>1. Clean' /\ Negotiated' /\ \A k : Read(k)' = Read(k)
        BY <1>4, <2>0, StreamSame
    <2>2. \A i \in 1 .. Len(stream) : stream[i] # "NUL"
        BY <2>0 DEF Clean
    <2>3. \A i \in 1 .. Len(p) : p[i] = stream[got + i] /\ p[i] # "NUL"
        BY <1>2, <1>3, <2>2
    <2>4. /\ Placed(At(New, stream, got)) /\ At(New, stream, got).behind # "NUL"
          /\ Agree(conn, At(New, stream, got).conn)
        BY <1>2, <2>0, <2>2, Unbroken DEF Arrived, Read, At, New
    <2>5. \A i \in 0 .. Len(p) : Alike(At(conn, p, i), At(New, stream, got + i))
        <3>1. got \in Nat /\ got + Len(p) <= Len(stream) /\ New \in Conns
            BY <1>2, <1>3, NewIs
        <3> QED
            BY <1>2, <1>3, <2>3, <2>4, <3>1, ReadAlike
    <2>6. Agree(e, At(New, stream, got + n).conn)
        BY <1>3, <2>5 DEF Alike, e
    <2>7. Agree(conn', At(New, stream, got + n).conn)
        BY <1>5, <1>9, <2>6 DEF Agree
    <2>8. Read(got)' = At(New, stream', got').conn
        BY DEF Read, At, New
    <2> QED
        BY <1>4, <2>1, <2>7, <2>8 DEF Arrived
<1>14. NoNulls' = NoNulls
    BY DEF NoNulls
<1> QED
    BY <1>10, <1>11, <1>12, <1>13, <1>14 DEF TerminalInv, TextOK

\* What a telnet unit is answered with.
LEMMA TelnetUnitAwaits ==
    ASSUME NEW unit \in TelnetUnits, NEW answers \in Seq(AnswerType),
           NEW h \in 0 .. Len(answers), NEW telnet \in SUBSET {"ECHO", "EOR_OPT"},
           NEW side \in EchoSides, Awaits(side, h, answers, telnet),
           unit = "willEcho" => side = "off", unit = "wontEcho" => side = "on"
    PROVE  Awaits(IF unit = "willEcho" THEN "offered"
                  ELSE IF unit = "wontEcho" THEN "withdrawn" ELSE side,
                  h, answers \o AnswersTo(Command[unit], telnet, Option[unit]),
                  TelnetAfter(Command[unit], telnet, Option[unit]))
<1>1. CASE unit = "willEcho"
    <2>1. Command[unit] = "WILL" /\ Option[unit] = "ECHO"
        BY <1>1 DEF Command, Option
    <2>0. side = "off" /\ side \in {"off", "on"}
        BY <1>1
    <2>2. "ECHO" \in telnet /\ Awaits("offered", h, answers \o <<<<"DO", "ECHO">>>>, telnet \ {"ECHO"})
        BY <2>0, AwaitsAnswer
    <2>3. AnswersTo("WILL", telnet, "ECHO") = <<<<"DO", "ECHO">>>>
          /\ TelnetAfter("WILL", telnet, "ECHO") = telnet \ {"ECHO"}
        BY <2>2 DEF AnswersTo, TelnetAfter, Answer
    <2> QED
        BY <1>1, <2>1, <2>2, <2>3
<1>2. CASE unit = "wontEcho"
    <2>1. Command[unit] = "WONT" /\ Option[unit] = "ECHO"
        BY <1>2 DEF Command, Option
    <2>0. side = "on" /\ side \in {"off", "on"}
        BY <1>2
    <2>2. /\ "ECHO" \notin telnet
          /\ Awaits("withdrawn", h, answers \o <<<<"DONT", "ECHO">>>>, telnet \cup {"ECHO"})
        BY <2>0, AwaitsAnswer
    <2>3. AnswersTo("WONT", telnet, "ECHO") = <<<<"DONT", "ECHO">>>>
          /\ TelnetAfter("WONT", telnet, "ECHO") = telnet \cup {"ECHO"}
        BY <2>2 DEF AnswersTo, TelnetAfter, Answer
    <2> QED
        BY <1>2, <2>1, <2>2, <2>3
<1>3. CASE unit \in {"willEOR", "doOther"}
    <2> DEFINE x == Command[unit]
               y == Option[unit]
               more == AnswersTo(x, telnet, y)
               after == TelnetAfter(x, telnet, y)
    <2>1. x \in {"WILL", "DO"} /\ y \in {"EOR_OPT", "OTHER"} /\ x \in Commands /\ y \in Chars
        BY <1>3 DEF Command, Option, Commands, Options, Chars
    <2> HIDE DEF x, y
    <2>2. more \in Seq(AnswerType)
        BY <2>1, AnswersType
    <2>3. "ECHO" \in after <=> "ECHO" \in telnet
        BY <2>1 DEF TelnetAfter
    <2>4. Unread(0, more) = {}
        <3>1. \A i \in 1 .. Len(more) : more[i][2] = y
            BY <2>1 DEF AnswersTo, Answer
        <3> HIDE DEF more
        <3> QED
            BY <2>1, <3>1 DEF Unread, EchoAnswers
    <2> HIDE DEF more, after
    <2>5. Awaits(side, h, answers \o more, after)
        BY <2>2, <2>3, <2>4, AwaitsMore
    <2> QED
        BY <1>3, <2>5 DEF more, after, x, y
<1> QED
    BY <1>1, <1>2, <1>3 DEF TelnetUnits

\* What the world writes next is read from where the last unit ended.
LEMMA WriteTerminal == TerminalInv /\ (\E unit \in Units : Write(unit)) => TerminalInv'
<1> SUFFICES ASSUME TerminalInv, NEW unit \in Units, Write(unit) PROVE TerminalInv'
    OBVIOUS
<1> DEFINE b == Bytes[unit]
           L == Len(stream)
           M == Len(stream')
<1>1. TypeOK /\ FieldInv /\ TextOK(conn) /\ (NoNulls => Clean /\ Arrived /\ Negotiated)
    BY DEF TerminalInv, TextOK
<1>2. /\ stream \in Seq(Chars) /\ got \in 0 .. L /\ conn \in Conns /\ L \in Nat
      /\ heard \in 0 .. Len(conn.answers) /\ echoing \in EchoSides
    BY <1>1 DEF TypeOK
<1>3. unit \in DOMAIN Bytes /\ b \in Seq(Chars) /\ Len(b) \in Nat /\ L + Len(b) <= MaxBytes
    BY UnitsAssumption, UnitsAre DEF Write
<1>4. /\ stream' = stream \o b
      /\ UNCHANGED <<world, session, online, got, conn, textSeen, heard, keys, history, ended, checked, displayed>>
      /\ echoing' = IF unit = "willEcho" THEN "offered"
                    ELSE IF unit = "wontEcho" THEN "withdrawn" ELSE echoing
      /\ unit = "willEcho" => echoing = "off"
      /\ unit = "wontEcho" => echoing = "on"
    BY DEF Write
<1> HIDE DEF b
<1>5. /\ stream' \in Seq(Chars) /\ M = L + Len(b) /\ M \in Nat
      /\ \A i \in 1 .. L : stream'[i] = stream[i]
      /\ \A i \in 1 .. Len(b) : stream'[L + i] = b[i]
    BY <1>2, <1>3, <1>4
<1>6. TypeOK'
    <2>1. (got \in 0 .. Len(stream) /\ Len(stream) <= MaxBytes /\ stream \in Seq(Chars))'
        BY <1>2, <1>3, <1>4, <1>5
    <2>2. (/\ session \in 0 .. MaxSessions /\ keys \in 0 .. MaxKeys /\ world \in Worlds
           /\ online \in BOOLEAN /\ textSeen \in BOOLEAN /\ history \subseteq Texts
           /\ displayed \subseteq Texts /\ conn \in Conns /\ conn.part = <<>>
           /\ ended \in [plain : Texts, password : Texts] /\ checked \in BOOLEAN
           /\ heard \in 0 .. Len(conn.answers))'
        BY <1>1, <1>4 DEF TypeOK
    <2>3. echoing' \in EchoSides
        BY <1>2, <1>4 DEF EchoSides
    <2> QED
        BY <2>1, <2>2, <2>3 DEF TypeOK
<1>7. FieldInv' /\ TextOK(conn')
    BY <1>1, <1>4 DEF FieldInv, FieldProper, LoginCovered
<1>8. ASSUME NoNulls PROVE (Clean /\ Arrived /\ Negotiated)'
    <2>0. Clean /\ Arrived /\ Negotiated
        BY <1>1, <1>8
    <2>1. unit # "null" /\ \A i \in 1 .. Len(b) : b[i] # "NUL"
        BY <1>3, <1>8, UnitsAre DEF NoNulls, b
    <2>2. Clean'
        <3>1. \A i \in 1 .. M : i \in 1 .. L \/ (i - L \in 1 .. Len(b) /\ i = L + (i - L))
            BY <1>2, <1>3, <1>5
        <3>2. \A i \in 1 .. M : stream'[i] # "NUL"
            BY <1>5, <2>0, <2>1, <3>1 DEF Clean
        <3> QED
            BY <3>2 DEF Clean
    <2>3. \A k \in 0 .. L : At(New, stream, k) = At(New, stream', k)
        <3>1. L <= L /\ L <= M /\ \A i \in 1 .. L : stream[i] = stream'[i]
            BY <1>2, <1>3, <1>5
        <3> QED
            BY <1>2, <1>5, <3>1, NewIs, SameBeginning
    <2>4. Arrived'
        <3>1. Read(got) = At(New, stream, got).conn /\ Read(got)' = At(New, stream', got).conn
            BY <1>4 DEF Read, At, New
        <3> QED
            BY <1>2, <1>4, <2>0, <2>3, <3>1 DEF Arrived
    <2> DEFINE c == Read(L)
               d == Read(Len(stream))'
    <2>5. c = At(New, stream, L).conn /\ d = At(New, stream', M).conn
        BY DEF Read, At, New
    <2>6. c.mode = "scanning" /\ Awaits(echoing, heard, c.answers, c.telnet)
        BY <2>0 DEF Negotiated
    <2>7. /\ c \in Conns /\ c.answers \in Seq(AnswerType) /\ heard \in 0 .. Len(c.answers)
          /\ c.telnet \in SUBSET {"ECHO", "EOR_OPT"}
        <3>1. L - got \in 0 .. L - got /\ got + (L - got) = L /\ L \in 0 .. L
            BY <1>2
        <3>2. Follows(At(New, stream, got).conn, At(New, stream, got + (L - got)).conn)
            BY <1>2, <3>1, NewIs, FollowsLater
        <3>3. c \in Conns
            BY <1>2, <2>5, <3>1, NewIs, AtIs DEF Scans
        <3>4. Read(got) = At(New, stream, got).conn
            BY DEF Read, At, New
        <3>5. conn.answers = Read(got).answers
            BY <2>0 DEF Arrived, Agree
        <3> HIDE DEF c
        <3>6. Len(conn.answers) <= Len(c.answers)
            BY <2>5, <3>1, <3>2, <3>4, <3>5 DEF Follows, Begins
        <3>7. c.answers \in Seq(AnswerType) /\ c.telnet \in SUBSET {"ECHO", "EOR_OPT"}
            BY <3>3, AnswersOf DEF Conns
        <3>8. Len(c.answers) \in Nat /\ Len(conn.answers) \in Nat
            BY <1>2, <3>7, AnswersOf
        <3> QED
            BY <1>2, <3>3, <3>6, <3>7, <3>8
    <2> HIDE DEF c, d
    <2>8. Stands(At(New, stream', L), "scanning", c.telnet, c.answers)
        <3>1. L \in 0 .. L
            BY <1>2
        <3>2. Placed(At(New, stream, L)) /\ At(New, stream, L).behind # "NUL" /\ At(New, stream, L) \in Scans
            BY <1>2, <2>0, <3>1, Unbroken DEF Clean
        <3>3. At(New, stream', L) = At(New, stream, L)
            BY <2>3, <3>1
        <3> QED
            BY <2>5, <2>6, <3>2, <3>3 DEF Stands
    <2>9. HasAt(stream', L, b)
        BY <1>5 DEF HasAt
    <2>10. CASE unit \in TextUnits
        <3>1. Stands(At(New, stream', L + Len(b)), "scanning", c.telnet, c.answers)
            BY <1>2, <1>5, <2>8, <2>9, <2>10, NewIs, TextUnitRead DEF b
        <3>2. d.mode = "scanning" /\ d.telnet = c.telnet /\ d.answers = c.answers
            BY <1>5, <2>5, <3>1 DEF Stands
        <3>3. echoing' = echoing
            BY <1>4, <2>10 DEF TextUnits
        <3> QED
            BY <1>4, <2>2, <2>4, <2>6, <3>2, <3>3 DEF Negotiated, d
    <2>11. CASE unit \in TelnetUnits
        <3> DEFINE after == TelnetAfter(Command[unit], c.telnet, Option[unit])
                   all == c.answers \o AnswersTo(Command[unit], c.telnet, Option[unit])
        <3>1. Stands(At(New, stream', L + Len(b)), "scanning", after, all)
            BY <1>2, <1>5, <2>8, <2>9, <2>11, NewIs, TelnetUnitRead DEF b
        <3>2. Awaits(echoing', heard, all, after)
            BY <1>2, <1>4, <2>6, <2>7, <2>11, TelnetUnitAwaits
        <3> HIDE DEF after, all
        <3>3. d.mode = "scanning" /\ d.telnet = after /\ d.answers = all
            BY <1>5, <2>5, <3>1 DEF Stands
        <3> QED
            BY <1>4, <2>2, <2>4, <3>2, <3>3 DEF Negotiated, d
    <2> QED
        BY <1>3, <2>1, <2>10, <2>11, UnitsAre
<1>9. NoNulls' = NoNulls
    BY DEF NoNulls
<1> QED
    BY <1>6, <1>7, <1>8, <1>9 DEF TerminalInv, TextOK

-----------------------------------------------------------------------------
(* The theorems.                                                              *)

LEMMA TerminalStep == TerminalInv /\ [Next]_vars => TerminalInv'
<1> SUFFICES ASSUME TerminalInv, [Next]_vars PROVE TerminalInv'
    OBVIOUS
<1>1. CASE UNCHANGED vars
    <2>1. /\ UNCHANGED <<world, session, online, stream, got, conn, textSeen, heard, echoing>>
          /\ UNCHANGED <<keys, history, ended, checked, displayed>>
        BY <1>1 DEF vars
    <2>2. TypeOK' /\ FieldInv' /\ NoNulls' = NoNulls
          /\ Balanced(conn.out, conn.ansi)' /\ TextOfLines(conn)'
        BY <2>1 DEF TerminalInv, TypeOK, FieldInv, FieldProper, LoginCovered, NoNulls
    <2>3. ASSUME NoNulls PROVE (Clean /\ Arrived /\ Negotiated)'
        <3>1. Clean /\ Arrived /\ Negotiated
            BY <2>3 DEF TerminalInv
        <3>2. Clean' /\ Negotiated' /\ \A k : Read(k)' = Read(k)
            BY <2>1, <3>1, StreamSame
        <3>3. Read(got)' = Read(got)
            BY <2>1 DEF Read
        <3> QED
            BY <2>1, <3>1, <3>2, <3>3 DEF Arrived
    <2> QED
        BY <2>2, <2>3 DEF TerminalInv
<1> QED
    BY <1>1, ConnectTerminal, DisconnectTerminal, ReadAnswerTerminal, ProcessOutputTerminal,
       WriteTerminal, TypeTerminal, UpTerminal, DownTerminal, RewriteTerminal,
       OnSendKeyTerminal, SendFromMenuTerminal DEF Next

\* Whatever arrives, in whatever packets, and whatever is typed meanwhile, the
\* text, the tags, the input field and the negotiation of the echo stay as
\* TerminalInv describes them (ProcessOutput, OnSendKey, OnWorldConnect).
THEOREM TerminalInvariant == Spec => []TerminalInv
BY InitTerminal, TerminalStep, PTL DEF Spec

\* For every stream of text and codes: each tag of the ANSI state that was
\* opened is closed unless its attribute is on (ChAnsiState, ProcessAnsiCodes).
THEOREM TagsStayBalanced == Spec => []TagsBalanced
<1>1. TerminalInv => TagsBalanced
    BY DEF TerminalInv, Balanced, TagsBalanced
<1> QED
    BY <1>1, TerminalInvariant, PTL

\* What is typed while the world echoes does not turn up in the visible field, in
\* the window or in the history, unless it was put aside in the hidden field before
\* (SetEcho, CheckForPasswordProtection, OnSendKey, MoveInHistory).
THEOREM SecretsStayHidden == Spec => SecretsHidden
<1> DEFINE Hidden == "secret" \in Seen' \ Seen => ended.password = "secret"
           f == conn.field
<1>1. TerminalInv /\ [Next]_vars => [Hidden]_vars
    <2> SUFFICES ASSUME TerminalInv, Next, "secret" \in Seen', "secret" \notin Seen
                 PROVE  ended.password = "secret"
        BY DEF vars
    <2>1. TypeOK /\ FieldInv /\ f \in Fields /\ FieldProper(f) /\ LoginCovered(f) /\ conn \in Conns
        BY AnswersOf DEF TerminalInv, TypeOK, FieldInv
    <2>2. /\ "secret" \notin history /\ "secret" \notin displayed /\ f.plain # "secret"
          /\ ended.plain # "secret"
        BY DEF Seen
    <2>3. \/ "secret" \in history' \/ "secret" \in displayed' \/ conn'.field.plain = "secret"
          \/ ended'.plain = "secret"
        BY DEF Seen
    <2> DEFINE Kept == history' = history /\ displayed' = displayed /\ ended' = ended
    <2>4. CASE Connect
        <3>1. history' = history /\ displayed' = {} /\ ended' = ended
              /\ conn'.field = ConnectField(f)
            BY <2>4, NewConnOf DEF Connect, NewConn
        <3> QED
            BY <2>1, <2>2, <2>3, <3>1, ConnectedField
    <2>5. CASE Disconnect \/ ReadAnswer \/ \E unit \in Units : Write(unit)
        <3>1. Kept /\ conn'.field = f
            BY <2>5 DEF Disconnect, ReadAnswer, Write, NewConn
        <3> QED
            BY <2>2, <2>3, <3>1
    <2>6. CASE \E n \in 1 .. Len(stream) - got : ProcessOutput(n)
        <3>1. PICK n \in 1 .. Len(stream) - got : ProcessOutput(n)
            BY <2>6
        <3> DEFINE p == SubSeq(stream, got + 1, got + n)
                   d == ParseText(conn, p)
        <3>2. Kept /\ (conn' = [d EXCEPT !.field.loggedIn = TRUE] \/ conn' = d)
            BY <3>1 DEF ProcessOutput
        <3>3. p \in Seq(Chars) /\ conn.part = <<>>
            BY <2>1, <3>1 DEF TypeOK
        <3> HIDE DEF p
        <3>4. d \in Conns /\ d.field.plain \in {f.plain, ""}
            BY <2>1, <3>3, PacketParsed DEF Follows
        <3> HIDE DEF d
        <3>5. conn'.field.plain = d.field.plain
            <4>1. d.field \in Fields
                BY <3>4, AnswersOf
            <4>2. conn'.field = [d.field EXCEPT !.loggedIn = TRUE] \/ conn'.field = d.field
                BY <3>2, <3>4 DEF Conns
            <4> QED
                BY <4>1, <4>2 DEF Fields
        <3> QED
            BY <2>2, <2>3, <3>2, <3>4, <3>5
    <2>7. CASE \E text \in Texts : Type(text)
        <3>1. PICK text \in Texts : Type(text)
            BY <2>7
        <3> DEFINE asks == world # "lines"
                   g == CheckForPasswordProtection([f EXCEPT ![EditName(f)] = text], asks)
        <3>2. Kept /\ conn' = FieldSet(conn, g)
              /\ text \in {""} \cup IF f.echo = "telnet" THEN {"secret"} ELSE {"say", "login"}
            BY <3>1 DEF Type, FieldSet
        <3>3. asks \in BOOLEAN
            OBVIOUS
        <3> HIDE DEF asks, f
        <3>4. g \in Fields /\ (g.plain = "secret" => f.plain = "secret")
            BY <2>1, <3>2, <3>3, TypedField
        <3> HIDE DEF g
        <3>5. conn'.field = g
            BY <2>1, <3>2, <3>4, FieldSetOf
        <3> QED
            BY <2>2, <2>3, <3>2, <3>4, <3>5
    <2>8. ASSUME NEW text \in Texts, SetHistoryText(text), conn'.field.plain = "secret"
          PROVE  text = "secret" \/ (f.echo = "auto" /\ ended.password = "secret")
        <3> DEFINE g == SetWindowText(f, text)
        <3>1. conn' = FieldSet(conn, g)
            BY <2>8 DEF SetHistoryText, FieldSet
        <3> SUFFICES ASSUME text # "secret" PROVE FALSE
            OBVIOUS
        <3> HIDE DEF f
        <3>2. g \in Fields /\ (g.plain = "secret" => f.plain = "secret" \/ text = "secret")
            BY <2>1, SetField
        <3> HIDE DEF g
        <3>3. conn'.field = g
            BY <2>1, <3>1, <3>2, FieldSetOf
        <3> QED
            BY <2>2, <2>8, <3>2, <3>3
    <2>9. CASE \E begins \in BOOLEAN : Up(begins)
        <3>1. PICK begins \in BOOLEAN : Up(begins)
            BY <2>9
        <3>2. history' = history /\ displayed' = displayed
            BY <3>1 DEF Up, SetHistoryText
        <3>3. ended'.plain \in {ended.plain, f.plain}
            <4>1. ended' = IF begins THEN [ended EXCEPT ![EditName(f)] = EditText(f)] ELSE ended
                BY <3>1 DEF Up
            <4>2. ended \in [plain : Texts, password : Texts]
                BY <2>1 DEF TypeOK
            <4> HIDE DEF f
            <4> QED
                BY <4>1, <4>2 DEF EditName, EditText
        <3>4. CASE \E line \in Lines : SetHistoryText(line)
            <4>1. PICK line \in Lines : SetHistoryText(line)
                BY <3>4
            <4>2. line \in history /\ line \in Texts /\ line # "secret"
                BY <2>1, <2>2, <4>1 DEF Lines, TypeOK
            <4> QED
                BY <2>2, <2>3, <2>8, <3>2, <3>3, <4>1, <4>2
        <3>5. CASE conn' = conn
            BY <2>2, <2>3, <3>2, <3>3, <3>5
        <3> QED
            BY <3>1, <3>4, <3>5 DEF Up
    <2>10. CASE Down
        <3>1. PICK line \in Lines \cup {ended[EditName(f)]} : SetHistoryText(line)
            BY <2>10 DEF Down
        <3>2. Kept
            BY <2>10 DEF Down, SetHistoryText
        <3>3. line \in history \/ line \in {ended.plain, ended.password}
            BY <3>1 DEF Lines, EditName
        <3>4. line \in Texts
            BY <2>1, <3>3 DEF TypeOK
        <3>5. line = "secret" => ended.password = "secret"
            BY <2>2, <3>3
        <3> QED
            BY <2>2, <2>3, <2>8, <3>1, <3>2, <3>4, <3>5
    <2>11. CASE Rewrite
        <3>1. PICK line \in history \cup IF f.plain = "" THEN {} ELSE {"say", "login"} :
                    SetHistoryText(line)
            BY <2>11 DEF Rewrite
        <3>2. Kept
            BY <2>11 DEF Rewrite, SetHistoryText
        <3>3. line \in Texts /\ line # "secret"
            BY <2>1, <2>2, <3>1 DEF TypeOK, Texts
        <3> QED
            BY <2>2, <2>3, <2>8, <3>1, <3>2, <3>3
    <2>12. CASE \E clear \in BOOLEAN : OnSendKey(clear)
        <3>1. PICK clear \in BOOLEAN : OnSendKey(clear)
            BY <2>12
        <3> DEFINE g == Sent(f, clear)
        <3>2. /\ conn' = FieldSet(conn, g) /\ ended' = ended
              /\ displayed' = IF f.echo = "on" THEN displayed \cup {EditText(f)} ELSE displayed
              /\ history' = IF Remembers(f) THEN history \cup {EditText(f)} ELSE history
            BY <3>1 DEF OnSendKey, FieldSet, Sent
        <3>3. f.echo = "on" \/ Remembers(f) => EditText(f) = f.plain
            BY DEF Remembers, EditText, EditName
        <3> HIDE DEF f
        <3>4. g \in Fields /\ g.plain \in {f.plain, ""}
            BY <2>1, SentField
        <3> HIDE DEF g
        <3>5. conn'.field = g
            BY <2>1, <3>2, <3>4, FieldSetOf
        <3> QED
            BY <2>2, <2>3, <3>2, <3>3, <3>4, <3>5
    <2>13. CASE \E text \in Texts, clear \in BOOLEAN : SendFromMenu(text, clear)
        <3>1. PICK text \in Texts, clear \in BOOLEAN : SendFromMenu(text, clear)
            BY <2>13
        <3>2. /\ text \in history /\ history' = history /\ ended' = ended
              /\ displayed' \subseteq displayed \cup {text}
              /\ conn' = [conn EXCEPT !.field.plain = IF clear THEN "" ELSE text]
            BY <3>1 DEF SendFromMenu
        <3>3. conn'.field.plain \in {"", text}
            BY <2>1, <3>2 DEF Conns, Fields
        <3> QED
            BY <2>2, <2>3, <3>2, <3>3
    <2> QED
        BY <2>4, <2>5, <2>6, <2>7, <2>9, <2>10, <2>11, <2>12, <2>13 DEF Next
<1> QED
    BY <1>1, TerminalInvariant, PTL DEF Spec, SecretsHidden

\* A line that logs in, typed by the user, is neither kept nor shown before the
\* login is known, however lines of the history come and go in between
\* (CheckForPasswordProtection, OnSendKey).
THEOREM LoginsNotKept == Spec => LoginNotKept
<1> DEFINE Kept == \A text \in (history' \ history) \cup (displayed' \ displayed) :
                       text = "login" => conn.field.loggedIn \/ world = "lines" \/ ~checked'
<1>1. TerminalInv /\ [Next]_vars => [Kept]_vars
    <2> SUFFICES ASSUME TerminalInv, Next PROVE Kept
        BY DEF vars
    <2>1. CASE history' \subseteq history /\ displayed' \subseteq displayed
        BY <2>1
    <2>2. CASE \E clear \in BOOLEAN : OnSendKey(clear)
        <3> DEFINE f == conn.field
                   text == EditText(f)
        <3>1. /\ displayed' = IF f.echo = "on" THEN displayed \cup {text} ELSE displayed
              /\ history' = IF Remembers(f) THEN history \cup {text} ELSE history
              /\ checked' = checked
            BY <2>2 DEF OnSendKey
        <3>2. f \in Fields /\ LoginCovered(f)
            BY AnswersOf DEF TerminalInv, TypeOK, FieldInv
        <3>3. f.echo = "on" \/ Remembers(f) => f.echo = "on" /\ text = f.plain
            BY DEF Remembers, EditName, EditText
        <3>4. f.echo = "on" /\ f.plain = "login" /\ checked => f.loggedIn \/ world = "lines"
            BY <3>2 DEF LoginCovered
        <3> HIDE DEF text, f
        <3> QED
            BY <3>1, <3>3, <3>4 DEF f
    <2>3. CASE checked' = FALSE
        BY <2>3
    <2> QED
        BY <2>1, <2>2, <2>3 DEF Next, Connect, Disconnect, ReadAnswer, ProcessOutput, Write, Type,
                               Up, Down, Rewrite, SetHistoryText, SendFromMenu
<1> QED
    BY <1>1, TerminalInvariant, PTL DEF Spec, LoginNotKept

\* Without null characters, the packets a stream arrives in do not change what is
\* read from it, and the lines lose nothing and double nothing of it (ParseText,
\* AddToTextBlock).
THEOREM PacketsNeverMatter == NoNulls => (Spec => []PacketsDoNotMatter)
<1>1. NoNulls /\ TerminalInv => PacketsDoNotMatter
    <2> SUFFICES ASSUME NoNulls, TerminalInv PROVE PacketsDoNotMatter
        OBVIOUS
    <2> DEFINE p == SubSeq(stream, 1, got)
    <2>1. /\ stream \in Seq(Chars) /\ got \in 0 .. Len(stream) /\ conn \in Conns
          /\ conn.part = <<>> /\ TextOfLines(conn) /\ Arrived
        BY DEF TerminalInv, TypeOK
    <2>2. p \in Seq(Chars) /\ Len(p) = got /\ \A i \in 1 .. got : p[i] = stream[i]
        BY <2>1
    <2> HIDE DEF p
    <2>3. At(New, p, got) = At(New, stream, got)
        <3>1. got \in Nat /\ got <= Len(p) /\ got <= Len(stream) /\ got \in 0 .. got
            BY <2>1, <2>2
        <3> QED
            BY <2>1, <2>2, <3>1, NewIs, SameBeginning
    <2>4. Whole = ParseText(New, p)
        BY DEF Whole, New, p
    <2>5. Agree(At(New, p, got).conn, Whole)
        BY <2>2, <2>4, NewIs, PacketParsed
    <2>6. Agree(conn, At(New, stream, got).conn)
        BY <2>1 DEF Arrived, Read, At, New
    <2>7. Agree(conn, Whole)
        BY <2>3, <2>5, <2>6 DEF Agree
    <2>8. FlattenSeq(conn.lines) \o conn.line = Visible(conn.out)
        <3> DEFINE s == FlattenSeq(conn.lines) \o conn.line
        <3>1. conn.lines \in Seq(Seq(Items)) /\ conn.line \in Seq(Items)
            BY <2>1 DEF Conns
        <3>2. s \in Seq(Items)
            BY <3>1, FlattenAppend
        <3>3. s \o conn.part = Visible(conn.out)
            BY <2>1 DEF TextOfLines
        <3> HIDE DEF s
        <3>4. s \o <<>> = s
            BY <3>2
        <3> QED
            BY <2>1, <3>3, <3>4 DEF s
    <2> QED
        BY <2>7, <2>8 DEF PacketsDoNotMatter, Agree
<1>2. NoNulls => [](NoNulls)
    BY DEF NoNulls
<1> QED
    BY <1>1, <1>2, TerminalInvariant, PTL

\* Without null characters, world and client agree on who echoes once both
\* directions are quiet, and the field on the screen hides what is typed just then
\* (DoTelnetCmd, SetEchoState, OnWorldConnect).
THEOREM FieldAlwaysMatches == NoNulls => (Spec => []FieldMatchesEcho)
<1>1. NoNulls /\ TerminalInv => FieldMatchesEcho
    <2> SUFFICES ASSUME NoNulls, TerminalInv PROVE FieldMatchesEcho
        OBVIOUS
    <2>1. conn.field.child = EditName(conn.field)
        BY DEF TerminalInv, FieldInv, FieldProper
    <2>2. ASSUME online, got = Len(stream), heard = Len(conn.answers)
          PROVE  /\ echoing \in {"off", "on"}
                 /\ (echoing = "on") = (conn.field.echo = "telnet")
                 /\ (echoing = "on") = ("ECHO" \notin conn.telnet)
        <3> DEFINE c == Read(Len(stream))
        <3>1. /\ Agree(conn, c) /\ Awaits(echoing, heard, c.answers, c.telnet)
              /\ EchoAgrees(conn) /\ conn \in Conns
            BY <2>2 DEF TerminalInv, Arrived, Negotiated, FieldInv, TypeOK
        <3> HIDE DEF c
        <3>2. c.answers = conn.answers /\ c.telnet = conn.telnet
            BY <3>1 DEF Agree
        <3>3. Unread(heard, c.answers) = {}
            BY <2>2, <3>1, <3>2, AnswersOf DEF Unread
        <3>4. echoing \in {"off", "on"} /\ (echoing \in {"off", "withdrawn"} <=> "ECHO" \in c.telnet)
            BY <3>1, <3>3 DEF Awaits
        <3> QED
            BY <3>1, <3>2, <3>4 DEF EchoAgrees
    <2> QED
        BY <2>1, <2>2 DEF FieldMatchesEcho
<1>2. NoNulls => [](NoNulls)
    BY DEF NoNulls
<1> QED
    BY <1>1, <1>2, TerminalInvariant, PTL
=============================================================================
