----------------------------- MODULE ListProofs -----------------------------
(* Induction over the positions of a list, lists that are built from left to   *)
(* right, and what is left of a list when elements are deleted.                *)
EXTENDS Subsequences, SequenceTheorems, FiniteSetTheorems, WellFoundedInduction, TLAPS

-----------------------------------------------------------------------------
(* Induction. *)

\* Induction over the naturals, about the members of a set.
LEMMA Induction ==
    ASSUME NEW S, 0 \in S, \A n \in Nat : n \in S => n + 1 \in S
    PROVE  \A n \in Nat : n \in S
<1> DEFINE R == OpToRel(<, Nat)
           T == Nat \ S
<1>1. SUFFICES ASSUME T # {} PROVE FALSE
    OBVIOUS
<1>2. IsWellFoundedOn(R, Nat)
    BY NatLessThanWellFounded
<1>3. PICK n \in T : \A m \in T : <<m, n>> \notin R
    BY <1>1, <1>2, WFMin
<1>4. n \in Nat /\ n \notin S
    OBVIOUS
<1> HIDE DEF R
<1>5. n # 0 /\ n - 1 \in Nat /\ n - 1 < n
    BY <1>4
<1>6. <<n - 1, n>> \in R
    BY <1>4, <1>5 DEF R, OpToRel
<1>7. n - 1 \in S
    BY <1>3, <1>5, <1>6
<1>8. (n - 1) + 1 \in S
    BY <1>5, <1>7
<1> QED
    BY <1>4, <1>8

\* Induction up to N.
LEMMA InductionUpTo ==
    ASSUME NEW N \in Nat, NEW S, 0 \in S, \A i \in 1 .. N : i - 1 \in S => i \in S
    PROVE  \A i \in 0 .. N : i \in S
<1> DEFINE T == {n \in Nat : n <= N => n \in S}
<1>1. 0 \in T
    OBVIOUS
<1>2. ASSUME NEW n \in Nat, n \in T PROVE n + 1 \in T
    <2>1. CASE n + 1 <= N
        <3>1. n + 1 \in 1 .. N /\ (n + 1) - 1 = n /\ n \in S
            BY <1>2, <2>1
        <3> QED
            BY <3>1
    <2> QED
        BY <2>1
<1> HIDE DEF T
<1>3. \A n \in Nat : n \in T
    BY <1>1, <1>2, Induction
<1> QED
    BY <1>3 DEF T

\* What has the value c, and then each value from the last one by g.
Foldings(N, S, c, g) ==
    {f \in [0 .. N -> S] : f[0] = c /\ \A i \in 1 .. N : f[i] = g[<<f[i - 1], i>>]}

\* A fold over 1, ..., N is a function.
LEMMA FoldIsDefined ==
    ASSUME NEW N \in Nat, NEW S, NEW c \in S, NEW g \in [S \X (1 .. N) -> S]
    PROVE  Foldings(N, S, c, g) # {}
<1> DEFINE Folds(n) == {f \in [0 .. n -> S] : f[0] = c /\ \A i \in 1 .. n : f[i] = g[<<f[i - 1], i>>]}
           T == {n \in Nat : n <= N => Folds(n) # {}}
<1>1. 0 \in T
    <2>1. [i \in 0 .. 0 |-> c] \in Folds(0)
        OBVIOUS
    <2> QED
        BY <2>1
<1>2. ASSUME NEW n \in Nat, n \in T, n + 1 <= N PROVE n + 1 \in T
    <2>1. PICK f \in [0 .. n -> S] : f[0] = c /\ \A i \in 1 .. n : f[i] = g[<<f[i - 1], i>>]
        BY <1>2
    <2> DEFINE h == [i \in 0 .. n + 1 |-> IF i = n + 1 THEN g[<<f[n], n + 1>>] ELSE f[i]]
    <2>2. f[n] \in S /\ n + 1 \in 1 .. N
        BY <1>2
    <2>3. g[<<f[n], n + 1>>] \in S
        BY <2>2
    <2>4. h \in [0 .. n + 1 -> S]
        BY <2>1, <2>3
    <2>5. h[0] = c
        BY <2>1
    <2>6. ASSUME NEW i \in 1 .. n + 1 PROVE h[i] = g[<<h[i - 1], i>>]
        <3>1. i - 1 \in 0 .. n + 1 /\ i - 1 # n + 1 /\ i \in 0 .. n + 1
            OBVIOUS
        <3>2. h[i - 1] = f[i - 1]
            BY <3>1
        <3>3. CASE i = n + 1
            <4>1. h[n + 1] = g[<<f[n], n + 1>>] /\ (n + 1) - 1 = n
                BY <3>1, <3>3
            <4> QED
                BY <3>2, <3>3, <4>1
        <3>4. CASE i # n + 1
            <4>1. i \in 1 .. n /\ h[i] = f[i]
                BY <3>1, <3>4
            <4> QED
                BY <2>1, <3>2, <4>1
        <3> QED
            BY <3>3, <3>4
    <2> HIDE DEF h
    <2>7. h \in Folds(n + 1)
        BY <2>4, <2>5, <2>6
    <2> QED
        BY <2>7
<1>3. \A n \in Nat : n \in T => n + 1 \in T
    BY <1>2
<1>4. N \in T
    <2> HIDE DEF T
    <2> QED
        BY <1>1, <1>3, Induction
<1> QED
    BY <1>4 DEF Foldings

-----------------------------------------------------------------------------
(* Deleting elements. *)

\* Positions are ranked 1, 2, ... in their order, and every rank is taken.
LEMMA RankIsBijective ==
    ASSUME NEW N \in Nat, NEW P, \A i \in P : i \in 1 .. N
    PROVE  /\ IsFiniteSet(P) /\ Cardinality(P) \in Nat
           /\ \A i \in P : Rank(P, i) \in 1 .. Cardinality(P)
           /\ \A i, j \in P : i < j => Rank(P, i) < Rank(P, j)
           /\ \A n \in 1 .. Cardinality(P) : \E i \in P : Rank(P, i) = n
<1>1. IsFiniteSet(P) /\ Cardinality(P) \in Nat
    <2>1. IsFiniteSet(1 .. N) /\ P \in SUBSET (1 .. N)
        BY FS_Interval
    <2> QED
        BY <2>1, FS_Subset, FS_CardinalityType
<1> DEFINE upTo(i) == {p \in P : p <= i}
<1>2. \A i \in P : IsFiniteSet(upTo(i)) /\ Cardinality(upTo(i)) \in Nat
                   /\ Cardinality(upTo(i)) <= Cardinality(P)
    BY <1>1, FS_Subset, FS_CardinalityType
<1>3. \A i \in P : Rank(P, i) \in 1 .. Cardinality(P)
    <2> SUFFICES ASSUME NEW i \in P PROVE Cardinality(upTo(i)) \in 1 .. Cardinality(P)
        BY DEF Rank
    <2>1. i \in upTo(i)
        OBVIOUS
    <2>2. Cardinality(upTo(i)) # 0
        BY <1>2, <2>1, FS_EmptySet
    <2> QED
        BY <1>1, <1>2, <2>2
<1>4. \A i, j \in P : i < j => Rank(P, i) < Rank(P, j)
    <2> SUFFICES ASSUME NEW i \in P, NEW j \in P, i < j
                 PROVE  Cardinality(upTo(i)) < Cardinality(upTo(j))
        BY DEF Rank
    <2>1. upTo(i) \in SUBSET upTo(j) /\ j \in upTo(j) /\ j \notin upTo(i)
        <3>1. \A p \in P : p \in Int
            OBVIOUS
        <3> QED
            BY <3>1
    <2>2. Cardinality(upTo(i)) <= Cardinality(upTo(j))
          /\ Cardinality(upTo(i)) # Cardinality(upTo(j))
        BY <1>2, <2>1, FS_Subset
    <2> QED
        BY <1>2, <2>2
<1>5. \A n \in 1 .. Cardinality(P) : \E i \in P : Rank(P, i) = n
    <2> DEFINE T == 1 .. Cardinality(P)
               f == [i \in P |-> Rank(P, i)]
    <2>1. f \in Injection(P, T)
        <3>1. f \in [P -> T]
            BY <1>3
        <3>2. \A i, j \in P : f[i] = f[j] => i = j
            BY <1>3, <1>4
        <3> QED
            BY <3>1, <3>2 DEF Injection, IsInjective
    <2>2. IsFiniteSet(T) /\ Cardinality(T) = Cardinality(P)
        BY <1>1, FS_Interval
    <2>3. f \in Surjection(P, T)
        BY <2>1, <2>2, FS_Injection
    <2>4. \A n \in T : \E i \in P : f[i] = n
        BY <2>3 DEF Surjection
    <2> QED
        BY <2>4
<1> QED
    BY <1>1, <1>3, <1>4, <1>5

\* What is left is a list of the elements that are kept: each comes from a
\* position of its own, their order is kept, and none is forgotten.
LEMMA WithoutIsKept ==
    ASSUME NEW S, NEW s \in Seq(S), NEW X
    PROVE  LET w == Without(s, X)
               P == KeptPositions(s, X)
               p(n) == NthOf(P, n)
           IN  /\ w \in Seq(S) /\ Len(w) = Cardinality(P)
               /\ \A n \in 1 .. Len(w) : p(n) \in P /\ w[n] = s[p(n)]
               /\ \A m, n \in 1 .. Len(w) : m < n => p(m) < p(n)
               /\ \A i \in P : \E n \in 1 .. Len(w) : p(n) = i
<1> DEFINE w == Without(s, X)
           P == KeptPositions(s, X)
           p(n) == NthOf(P, n)
<1>1. Len(s) \in Nat /\ \A i \in P : i \in 1 .. Len(s)
    BY DEF KeptPositions
<1> HIDE DEF P
<1>2. /\ Cardinality(P) \in Nat
      /\ \A i \in P : Rank(P, i) \in 1 .. Cardinality(P)
      /\ \A i, j \in P : i < j => Rank(P, i) < Rank(P, j)
      /\ \A n \in 1 .. Cardinality(P) : \E i \in P : Rank(P, i) = n
    BY <1>1, RankIsBijective
<1>3. \A n \in 1 .. Cardinality(P) : p(n) \in P /\ Rank(P, p(n)) = n
    BY <1>2 DEF NthOf
<1>4. w = [n \in 1 .. Cardinality(P) |-> s[p(n)]]
    BY DEF Without, P
<1> HIDE DEF p, w
<1>5. w \in Seq(S) /\ Len(w) = Cardinality(P)
    <2>1. \A n \in 1 .. Cardinality(P) : s[p(n)] \in S
        BY <1>1, <1>3
    <2> QED
        BY <1>2, <1>4, <2>1
<1>6. \A m, n \in 1 .. Len(w) : m < n => p(m) < p(n)
    <2> SUFFICES ASSUME NEW m \in 1 .. Len(w), NEW n \in 1 .. Len(w), m < n
                 PROVE  p(m) < p(n)
        OBVIOUS
    <2>1. p(m) \in Int /\ p(n) \in Int /\ p(m) \in P /\ p(n) \in P
        BY <1>1, <1>3, <1>5
    <2>2. Rank(P, p(m)) = m /\ Rank(P, p(n)) = n
        BY <1>3, <1>5
    <2>3. ~(p(n) < p(m)) /\ p(n) # p(m)
        BY <1>2, <1>5, <2>1, <2>2
    <2> QED
        BY <2>1, <2>3
<1>7. \A i \in P : \E n \in 1 .. Len(w) : p(n) = i
    <2> SUFFICES ASSUME NEW i \in P PROVE p(Rank(P, i)) = i
        BY <1>2, <1>5
    <2> DEFINE k == p(Rank(P, i))
    <2>1. k \in P /\ Rank(P, k) = Rank(P, i)
        BY <1>2, <1>3
    <2>2. k \in Int /\ i \in Int
        BY <1>1, <2>1
    <2>3. ~(k < i) /\ ~(i < k)
        BY <1>2, <2>1
    <2> QED
        BY <2>2, <2>3
<1> QED
    BY <1>3, <1>4, <1>5, <1>6, <1>7 DEF p, w, P

\* Something is left if there is an element to keep.
LEMMA SomethingLeft ==
    ASSUME NEW S, NEW s \in Seq(S), NEW X
    PROVE  /\ Without(s, X) \in Seq(S)
           /\ Without(s, X) # <<>> <=> \E i \in 1 .. Len(s) : s[i] \notin X
<1> DEFINE w == Without(s, X)
           P == KeptPositions(s, X)
           p(n) == NthOf(P, n)
<1>1. /\ w \in Seq(S)
      /\ \A n \in 1 .. Len(w) : p(n) \in P
      /\ \A i \in P : \E n \in 1 .. Len(w) : p(n) = i
    BY WithoutIsKept
<1>2. \A i : i \in P <=> i \in 1 .. Len(s) /\ s[i] \notin X
    BY DEF KeptPositions
<1> HIDE DEF w, P, p
<1>3. CASE w = <<>>
    <2>1. Len(w) = 0
        BY <1>3
    <2> QED
        BY <1>1, <1>2, <1>3, <2>1 DEF w
<1>4. CASE w # <<>>
    <2>1. 1 \in 1 .. Len(w)
        BY <1>1, <1>4
    <2> QED
        BY <1>1, <1>2, <1>4, <2>1 DEF w
<1> QED
    BY <1>3, <1>4

\* An element is left if it was there and is not deleted.
LEMMA WithoutHas ==
    ASSUME NEW S, NEW s \in Seq(S), NEW X, NEW x
    PROVE  (\E n \in 1 .. Len(Without(s, X)) : Without(s, X)[n] = x)
               <=> x \notin X /\ \E i \in 1 .. Len(s) : s[i] = x
<1> DEFINE w == Without(s, X)
           P == KeptPositions(s, X)
           p(n) == NthOf(P, n)
<1>1. /\ w \in Seq(S)
      /\ \A n \in 1 .. Len(w) : p(n) \in P /\ w[n] = s[p(n)]
      /\ \A i \in P : \E n \in 1 .. Len(w) : p(n) = i
    BY WithoutIsKept
<1>2. \A i : i \in P <=> i \in 1 .. Len(s) /\ s[i] \notin X
    BY DEF KeptPositions
<1> HIDE DEF w, P, p
<1>3. (\E n \in 1 .. Len(w) : w[n] = x) <=> x \notin X /\ \E i \in 1 .. Len(s) : s[i] = x
    BY <1>1, <1>2
<1> QED
    BY <1>3 DEF w

\* It holds exactly the elements that are kept.
LEMMA WithoutElements ==
    ASSUME NEW S, NEW s \in Seq(S), NEW X
    PROVE  /\ Without(s, X) \in Seq(S)
           /\ {Without(s, X)[n] : n \in 1 .. Len(Without(s, X))}
                  = {s[i] : i \in 1 .. Len(s)} \ X
<1> DEFINE w == Without(s, X)
           P == KeptPositions(s, X)
           p(n) == NthOf(P, n)
<1>1. /\ w \in Seq(S)
      /\ \A n \in 1 .. Len(w) : p(n) \in P /\ w[n] = s[p(n)]
      /\ \A i \in P : \E n \in 1 .. Len(w) : p(n) = i
    BY WithoutIsKept
<1>2. P = {i \in 1 .. Len(s) : s[i] \notin X}
    BY DEF KeptPositions
<1> HIDE DEF w, P, p
<1>3. ASSUME NEW n \in 1 .. Len(w) PROVE w[n] \in {s[i] : i \in 1 .. Len(s)} \ X
    BY <1>1, <1>2
<1>4. ASSUME NEW i \in 1 .. Len(s), s[i] \notin X PROVE \E n \in 1 .. Len(w) : w[n] = s[i]
    BY <1>1, <1>2, <1>4
<1>5. {w[n] : n \in 1 .. Len(w)} = {s[i] : i \in 1 .. Len(s)} \ X
    BY <1>3, <1>4
<1> QED
    BY <1>1, <1>5 DEF w

\* What is left of a longer list.
LEMMA WithoutAppend ==
    ASSUME NEW S, NEW s \in Seq(S), NEW x \in S, NEW X
    PROVE  Without(Append(s, x), X)
               = IF x \in X THEN Without(s, X) ELSE Append(Without(s, X), x)
<1> DEFINE P == KeptPositions(s, X)
           Q == KeptPositions(Append(s, x), X)
           N == Len(s)
           t == Append(s, x)
<1>1. N \in Nat /\ t \in Seq(S) /\ Len(t) = N + 1 /\ t[N + 1] = x
      /\ \A i \in 1 .. N : t[i] = s[i]
    OBVIOUS
<1>2. \A i \in P : i \in 1 .. N
    BY DEF KeptPositions
<1>3. /\ IsFiniteSet(P) /\ Cardinality(P) \in Nat
      /\ \A i \in P : Rank(P, i) \in 1 .. Cardinality(P)
      /\ \A i, j \in P : i < j => Rank(P, i) < Rank(P, j)
      /\ \A n \in 1 .. Cardinality(P) : \E i \in P : Rank(P, i) = n
    BY <1>1, <1>2, RankIsBijective
<1>4. CASE x \in X
    <2>1. Q = P
        BY <1>1, <1>4 DEF KeptPositions
    <2>2. \A n \in 1 .. Cardinality(P) : NthOf(P, n) \in 1 .. N
        BY <1>2, <1>3 DEF NthOf
    <2>3. \A n \in 1 .. Cardinality(P) : t[NthOf(P, n)] = s[NthOf(P, n)]
        BY <1>1, <2>2
    <2> HIDE DEF P, Q, t
    <2>4. Without(s, X) = [n \in 1 .. Cardinality(P) |-> s[NthOf(P, n)]]
          /\ Without(t, X) = [n \in 1 .. Cardinality(P) |-> t[NthOf(P, n)]]
        BY <2>1 DEF Without, P, Q, t
    <2>5. Without(t, X) = Without(s, X)
        BY <2>3, <2>4
    <2> QED
        BY <1>4, <2>5 DEF t
<1>5. CASE x \notin X
    <2>1. Q = P \cup {N + 1} /\ N + 1 \notin P
        BY <1>1, <1>5 DEF KeptPositions
    <2> HIDE DEF P, Q
    <2>2. Cardinality(Q) = Cardinality(P) + 1
        BY <1>3, <2>1, FS_AddElement
    <2>3. \A i \in P : Rank(Q, i) = Rank(P, i)
        <3>1. \A i \in P : {p \in Q : p <= i} = {p \in P : p <= i}
            BY <1>1, <1>2, <2>1
        <3> QED
            BY <3>1 DEF Rank
    <2>4. Rank(Q, N + 1) = Cardinality(P) + 1
        <3>1. {p \in Q : p <= N + 1} = Q
            BY <1>1, <1>2, <2>1
        <3> QED
            BY <2>2, <3>1 DEF Rank
    <2>5. \A n \in 1 .. Cardinality(P) : NthOf(P, n) \in P /\ NthOf(Q, n) = NthOf(P, n)
        <3> SUFFICES ASSUME NEW n \in 1 .. Cardinality(P)
                     PROVE  NthOf(P, n) \in P /\ NthOf(Q, n) = NthOf(P, n)
            OBVIOUS
        <3>1. NthOf(P, n) \in P /\ Rank(P, NthOf(P, n)) = n
            BY <1>3 DEF NthOf
        <3>2. \E i \in Q : Rank(Q, i) = n
            BY <2>1, <2>3, <3>1
        <3>3. NthOf(Q, n) \in Q /\ Rank(Q, NthOf(Q, n)) = n
            BY <3>2 DEF NthOf
        <3>4. NthOf(Q, n) # N + 1
            BY <1>3, <2>4, <3>3
        <3> DEFINE i == NthOf(P, n)
                   j == NthOf(Q, n)
        <3>5. j \in P /\ Rank(P, j) = n
            BY <2>1, <2>3, <3>3, <3>4
        <3>6. i \in Int /\ j \in Int /\ ~(i < j) /\ ~(j < i)
            BY <1>2, <1>3, <3>1, <3>5
        <3>7. i = j
            <4> HIDE DEF i, j
            <4> QED
                BY <3>6
        <3> QED
            BY <3>1, <3>7
    <2>6. NthOf(Q, Cardinality(P) + 1) = N + 1
        <3> DEFINE n == Cardinality(P) + 1
        <3>1. \E i \in Q : Rank(Q, i) = n
            BY <2>1, <2>4
        <3>2. NthOf(Q, n) \in Q /\ Rank(Q, NthOf(Q, n)) = n
            BY <3>1 DEF NthOf
        <3>3. NthOf(Q, n) \notin P
            BY <1>3, <2>3, <3>2
        <3> QED
            BY <2>1, <3>2, <3>3
    <2>7. Without(s, X) = [n \in 1 .. Cardinality(P) |-> s[NthOf(P, n)]]
          /\ Without(t, X) = [n \in 1 .. Cardinality(Q) |-> t[NthOf(Q, n)]]
        BY DEF Without, P, Q
    <2> HIDE DEF t
    <2>8. Without(s, X) \in Seq(S)
        BY WithoutIsKept
    <2> DEFINE w == Without(s, X)
    <2> HIDE DEF w
    <2>9. w \in Seq(S) /\ w = [n \in 1 .. Cardinality(P) |-> s[NthOf(P, n)]]
          /\ Len(w) = Cardinality(P)
        BY <1>3, <2>7, <2>8 DEF w
    <2>10. Append(w, x) = [n \in 1 .. Cardinality(P) + 1 |->
                               IF n = Cardinality(P) + 1 THEN x ELSE w[n]]
        BY <1>3, <2>9
    <2>11. ASSUME NEW n \in 1 .. Cardinality(P) + 1
           PROVE  t[NthOf(Q, n)] = IF n = Cardinality(P) + 1 THEN x ELSE w[n]
        <3>1. CASE n = Cardinality(P) + 1
            BY <1>1, <2>6, <3>1
        <3>2. CASE n # Cardinality(P) + 1
            <4>1. n \in 1 .. Cardinality(P)
                BY <1>3, <3>2
            <4>2. NthOf(Q, n) = NthOf(P, n) /\ NthOf(P, n) \in 1 .. N
                BY <1>2, <2>5, <4>1
            <4>3. t[NthOf(Q, n)] = s[NthOf(P, n)] /\ w[n] = s[NthOf(P, n)]
                BY <1>1, <2>9, <4>1, <4>2
            <4> QED
                BY <3>2, <4>3
        <3> QED
            BY <3>1, <3>2
    <2>12. Without(t, X) = Append(w, x)
        BY <2>2, <2>7, <2>10, <2>11
    <2> QED
        BY <1>5, <2>12 DEF t, w
<1> QED
    BY <1>4, <1>5

LEMMA WithoutEmpty ==
    ASSUME NEW X
    PROVE  Without(<<>>, X) = <<>>
<1>1. KeptPositions(<<>>, X) = {}
    BY DEF KeptPositions
<1>2. Cardinality({}) = 0
    BY FS_EmptySet
<1> DEFINE w == Without(<<>>, X)
<1>3. w = [n \in 1 .. 0 |-> <<>>[NthOf({}, n)]]
    BY <1>1, <1>2 DEF Without
<1> QED
    BY <1>3

\* What is left of two lists, one after the other.
LEMMA WithoutConcat ==
    ASSUME NEW S, NEW s \in Seq(S), NEW X
    PROVE  \A t \in Seq(S) : Without(s \o t, X) = Without(s, X) \o Without(t, X)
<1> DEFINE T == {n \in Nat : \A t \in Seq(S) : Len(t) = n =>
                     Without(s \o t, X) = Without(s, X) \o Without(t, X)}
<1>1. 0 \in T
    <2> SUFFICES ASSUME NEW t \in Seq(S), Len(t) = 0
                 PROVE  Without(s \o t, X) = Without(s, X) \o Without(t, X)
        OBVIOUS
    <2>1. t = <<>> /\ s \o t = s
        OBVIOUS
    <2>2. Without(s, X) \in Seq(S) /\ Without(t, X) = <<>>
        BY <2>1, WithoutIsKept, WithoutEmpty
    <2> QED
        BY <2>1, <2>2
<1>2. ASSUME NEW n \in Nat, n \in T PROVE n + 1 \in T
    <2> SUFFICES ASSUME NEW t \in Seq(S), Len(t) = n + 1
                 PROVE  Without(s \o t, X) = Without(s, X) \o Without(t, X)
        OBVIOUS
    <2> DEFINE u == SubSeq(t, 1, n)
               x == t[n + 1]
    <2>1. u \in Seq(S) /\ Len(u) = n /\ x \in S /\ t = Append(u, x)
        OBVIOUS
    <2> HIDE DEF u, x
    <2>2. s \o u \in Seq(S) /\ s \o t = Append(s \o u, x)
        BY <2>1
    <2>3. Without(s \o u, X) = Without(s, X) \o Without(u, X)
        BY <1>2, <2>1
    <2>4. Without(s \o t, X) = IF x \in X THEN Without(s \o u, X)
                                          ELSE Append(Without(s \o u, X), x)
        <3> DEFINE v == s \o u
        <3>1. v \in Seq(S) /\ x \in S /\ s \o t = Append(v, x)
            BY <2>1, <2>2
        <3> HIDE DEF v
        <3>2. Without(Append(v, x), X) = IF x \in X THEN Without(v, X)
                                                    ELSE Append(Without(v, X), x)
            BY <3>1, WithoutAppend
        <3> QED
            BY <3>1, <3>2 DEF v
    <2>5. Without(t, X) = IF x \in X THEN Without(u, X) ELSE Append(Without(u, X), x)
        BY <2>1, WithoutAppend
    <2>6. Without(s, X) \in Seq(S) /\ Without(u, X) \in Seq(S)
        BY <2>1, WithoutIsKept
    <2>7. Append(Without(s, X) \o Without(u, X), x) = Without(s, X) \o Append(Without(u, X), x)
        <3> DEFINE v == Without(s, X)
                   w == Without(u, X)
        <3> HIDE DEF v, w
        <3>1. v \in Seq(S) /\ w \in Seq(S) /\ x \in S
            BY <2>1, <2>6 DEF v, w
        <3>2. <<x>> \in Seq(S) /\ v \o w \in Seq(S)
            BY <3>1
        <3>3. Append(v \o w, x) = (v \o w) \o <<x>>
            BY <3>1, <3>2, AppendIsConcat
        <3>4. Append(w, x) = w \o <<x>>
            BY <3>1, AppendIsConcat
        <3>5. (v \o w) \o <<x>> = v \o (w \o <<x>>)
            BY <3>1, <3>2, ConcatAssociative
        <3> QED
            BY <3>3, <3>4, <3>5 DEF v, w
    <2> QED
        BY <2>3, <2>4, <2>5, <2>7
<1> HIDE DEF T
<1>3. \A n \in Nat : n \in T
    BY <1>1, <1>2, Induction
<1> QED
    BY <1>3 DEF T

\* A list with nothing to delete.
LEMMA WithoutNothing ==
    ASSUME NEW S, NEW s \in Seq(S), NEW X, S \cap X = {}
    PROVE  Without(s, X) = s
<1> DEFINE T == {n \in Nat : \A t \in Seq(S) : Len(t) = n => Without(t, X) = t}
<1>1. 0 \in T
    BY WithoutEmpty
<1>2. ASSUME NEW n \in Nat, n \in T PROVE n + 1 \in T
    <2> SUFFICES ASSUME NEW t \in Seq(S), Len(t) = n + 1 PROVE Without(t, X) = t
        OBVIOUS
    <2> DEFINE u == SubSeq(t, 1, n)
               x == t[n + 1]
    <2>1. u \in Seq(S) /\ Len(u) = n /\ x \in S /\ t = Append(u, x)
        OBVIOUS
    <2> HIDE DEF u, x
    <2>2. x \notin X /\ Without(u, X) = u
        BY <1>2, <2>1
    <2> QED
        BY <2>1, <2>2, WithoutAppend
<1> HIDE DEF T
<1>3. \A n \in Nat : n \in T
    BY <1>1, <1>2, Induction
<1> QED
    BY <1>3 DEF T

\* A list without repetitions stays one.
LEMMA WithoutRepetition ==
    ASSUME NEW S, NEW s \in Seq(S), NEW X,
           \A i, j \in 1 .. Len(s) : s[i] = s[j] => i = j
    PROVE  \A m, n \in 1 .. Len(Without(s, X)) : Without(s, X)[m] = Without(s, X)[n] => m = n
<1> DEFINE w == Without(s, X)
           P == KeptPositions(s, X)
           p(n) == NthOf(P, n)
<1>1. /\ w \in Seq(S)
      /\ \A n \in 1 .. Len(w) : p(n) \in P /\ w[n] = s[p(n)]
      /\ \A m, n \in 1 .. Len(w) : m < n => p(m) < p(n)
    BY WithoutIsKept
<1>2. \A i \in P : i \in 1 .. Len(s)
    BY DEF KeptPositions
<1> HIDE DEF P, p
<1> SUFFICES ASSUME NEW m \in 1 .. Len(w), NEW n \in 1 .. Len(w), w[m] = w[n] PROVE m = n
    OBVIOUS
<1> HIDE DEF w
<1>3. p(m) = p(n) /\ p(m) \in Int
    BY <1>1, <1>2
<1>4. Len(w) \in Nat
    BY <1>1
<1>5. ~(m < n) /\ ~(n < m)
    BY <1>1, <1>3
<1> QED
    BY <1>4, <1>5
=============================================================================
