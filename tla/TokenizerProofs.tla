---------------------------- MODULE TokenizerProofs ----------------------------
(***************************************************************************)
(* For every list of added tokens that can be told apart by their first    *)
(* character and every text: the pass with one open candidate cuts out all *)
(* of them.  What makes it right is that the open candidates are exactly   *)
(* the places from which the text read since may still become a token, so  *)
(* none is missed although a token that ends closes every candidate.       *)
(*                                                                         *)
(* For every table in which whatever makes a symbol comes before all that  *)
(* use it and every text: merging all occurrences of a pair at once ends   *)
(* with the word that single merges by rank would have made.               *)
(*                                                                         *)
(* For every such pattern and table and every text: decoding the ids gives *)
(* the text back.  The tokens made, the word being merged and what is not  *)
(* yet matched always spell the bytes of the text, so a token stands for   *)
(* a window of them, and decoding a window gives the characters in it.     *)
(***************************************************************************)
EXTENDS Tokenizer, SequenceTheorems, FiniteSetTheorems, FunctionTheorems,
        WellFoundedInduction, TLAPS

(***************************************************************************)
(* Induction and recursion.  A set of numbers with 0 and all successors is *)
(* Nat, because a number outside it could not be the least; and recursive  *)
(* functions exist because one of their first n values can be extended.    *)
(***************************************************************************)
LEMMA NatLeast ==
    ASSUME NEW T \in SUBSET Nat, T # {}
    PROVE  \E n \in T : \A m \in T : n <= m
<1>1. PICK R : IsWellFoundedOn(R, Nat) /\ \A x, y \in Nat : <<y, x>> \in R <=> y < x
  <2>1. \A x, y \in Nat : <<y, x>> \in OpToRel(<, Nat) <=> y < x  BY DEF OpToRel
  <2> QED  BY <2>1, NatLessThanWellFounded
<1>2. PICK n \in T : \A m \in T : ~(<<m, n>> \in R)  BY <1>1, WFMin
<1>3. ASSUME NEW m \in T PROVE n <= m
  <2>1. m \in Nat /\ n \in Nat  OBVIOUS
  <2>2. ~(m < n)  BY <1>1, <1>2, <2>1
  <2> QED  BY <2>1, <2>2
<1> QED  BY <1>3

LEMMA Induct ==
    ASSUME NEW P, 0 \in P, \A n \in Nat : n \in P => n + 1 \in P
    PROVE  Nat \subseteq P
<1> SUFFICES ASSUME Nat \ P # {} PROVE FALSE
  OBVIOUS
<1>1. PICK n \in Nat \ P : \A m \in Nat \ P : n <= m  BY NatLeast
<1>2. n # 0 /\ n - 1 \in Nat /\ (n - 1) + 1 = n  BY <1>1
<1> QED  BY <1>1, <1>2

\* Induction over sequences, as a statement about a set of them.
LEMMA SeqInduct ==
    ASSUME NEW S, NEW P, << >> \in P, \A s \in Seq(S), e \in S : s \in P => Append(s, e) \in P
    PROVE  Seq(S) \subseteq P
<1> DEFINE Q == {n \in Nat : \A s \in Seq(S) : Len(s) = n => s \in P}
<1>1. 0 \in Q
  <2>1. ASSUME NEW s \in Seq(S), Len(s) = 0 PROVE s = << >>
    BY <2>1, EmptySeq
  <2> QED  BY <2>1
<1>2. ASSUME NEW n \in Nat, n \in Q PROVE n + 1 \in Q
  <2> SUFFICES ASSUME NEW s \in Seq(S), Len(s) = n + 1 PROVE s \in P
    OBVIOUS
  <2>1. s # << >>  BY EmptySeq
  <2>2. PICK t \in Seq(S), e \in S : s = Append(t, e)  BY <2>1, SequenceEmptyOrAppend
  <2>3. Len(t) = n /\ Len(t) \in Nat  BY <2>2, AppendProperties, LenProperties
  <2> QED  BY <1>2, <2>2, <2>3
<1>3. Nat \subseteq Q
  <2> HIDE DEF Q
  <2> QED  BY <1>1, <1>2, Induct
<1>4. ASSUME NEW s \in Seq(S) PROVE s \in P
  <2>1. Len(s) \in Nat  BY LenProperties
  <2> QED  BY <1>3, <2>1
<1> QED  BY <1>4

\* A recursive function that goes up, each value from the one before.
CountsUp(f, N, v, step) == f[0] = v /\ \A i \in 1 .. N : f[i] = step[<<i, f[i - 1]>>]

LEMMA RecursionUp ==
    ASSUME NEW V, NEW v \in V, NEW N \in Nat, NEW step \in [(1 .. N) \X V -> V]
    PROVE  \E f \in [0 .. N -> V] : CountsUp(f, N, v, step)
<1> DEFINE Right(n, f) == f[0] = v /\ \A i \in 1 .. n : f[i] = step[<<i, f[i - 1]>>]
           P == {n \in Nat : n <= N => \E f \in [0 .. n -> V] : Right(n, f)}
<1>1. 0 \in P
  <2>1. [i \in 0 .. 0 |-> v] \in [0 .. 0 -> V] /\ Right(0, [i \in 0 .. 0 |-> v])  OBVIOUS
  <2> QED  BY <2>1
<1>2. ASSUME NEW n \in Nat, n \in P PROVE n + 1 \in P
  <2> SUFFICES ASSUME n + 1 <= N PROVE \E f \in [0 .. n + 1 -> V] : Right(n + 1, f)
    OBVIOUS
  <2>1. PICK f \in [0 .. n -> V] : Right(n, f)  BY <1>2
  <2> DEFINE g == [i \in 0 .. n + 1 |-> IF i <= n THEN f[i] ELSE step[<<n + 1, f[n]>>]]
  <2>2. step[<<n + 1, f[n]>>] \in V
    <3>1. <<n + 1, f[n]>> \in (1 .. N) \X V  OBVIOUS
    <3> QED  BY <3>1
  <2>3. g \in [0 .. n + 1 -> V]  BY <2>2
  <2>4. \A i \in 1 .. n : g[i] = f[i] /\ g[i - 1] = f[i - 1]  OBVIOUS
  <2>5. g[0] = f[0] /\ g[n + 1] = step[<<n + 1, g[n]>>]
    <3>1. 0 \in 0 .. n + 1 /\ n \in 0 .. n + 1 /\ n + 1 \in 0 .. n + 1 /\ 0 <= n /\ ~(n + 1 <= n)
      OBVIOUS
    <3>2. g[0] = f[0] /\ g[n] = f[n] /\ g[n + 1] = step[<<n + 1, f[n]>>]  BY <3>1
    <3> QED  BY <3>2
  <2> HIDE DEF g
  <2>6. ASSUME NEW i \in 1 .. n + 1 PROVE g[i] = step[<<i, g[i - 1]>>]
    <3>1. CASE i \in 1 .. n  BY <2>1, <2>4, <3>1
    <3>2. CASE i = n + 1  BY <2>5, <3>2
    <3> QED  BY <3>1, <3>2
  <2>7. Right(n + 1, g)  BY <2>1, <2>5, <2>6
  <2> QED  BY <2>3, <2>7
<1>3. N \in P
  <2> HIDE DEF P
  <2>1. Nat \subseteq P  BY <1>1, <1>2, Induct
  <2> QED  BY <2>1
<1> QED  BY <1>3 DEF CountsUp

\* One that goes down, each value from all of those behind it; whatever solves
\* its equations, as far as step is defined, has values in V.
CountsDown(f, V, N, step) ==
    \A i \in 1 .. N : (\A k \in i + 1 .. N : f[k] \in V) =>
                          f[i] = step[<<i, [k \in i + 1 .. N |-> f[k]]>>]

StaysIn(V, N, step) == \A i \in 1 .. N : \A g \in [i + 1 .. N -> V] : step[<<i, g>>] \in V

LEMMA RecursionDown ==
    ASSUME NEW V, NEW N \in Nat, NEW step, StaysIn(V, N, step)
    PROVE  /\ \E f \in [1 .. N -> V] : CountsDown(f, V, N, step)
           /\ \A f : CountsDown(f, V, N, step) => \A i \in 1 .. N : f[i] \in V
<1> USE DEF StaysIn
<1> DEFINE Right(n, f) == \A i \in N - n + 1 .. N : f[i] = step[<<i, [k \in i + 1 .. N |-> f[k]]>>]
<1>1. \E f \in [1 .. N -> V] : Right(N, f)
  <2> DEFINE P == {n \in Nat : n <= N => \E f \in [N - n + 1 .. N -> V] : Right(n, f)}
  <2>1. 0 \in P
    <3>1. [i \in N - 0 + 1 .. N |-> i] \in [N - 0 + 1 .. N -> V]
          /\ Right(0, [i \in N - 0 + 1 .. N |-> i])
      OBVIOUS
    <3> QED  BY <3>1
  <2>2. ASSUME NEW n \in Nat, n \in P PROVE n + 1 \in P
    <3> SUFFICES ASSUME n + 1 <= N
                 PROVE \E f \in [N - (n + 1) + 1 .. N -> V] : Right(n + 1, f)
      OBVIOUS
    <3>0. \E f \in [N - n + 1 .. N -> V] : Right(n, f)
      <4>1. n <= N => \E f \in [N - n + 1 .. N -> V] : Right(n, f)
        <5> HIDE DEF Right
        <5> QED  BY <2>2
      <4>2. n <= N  OBVIOUS
      <4> HIDE DEF Right
      <4> QED  BY <4>1, <4>2
    <3>1. PICK f \in [N - n + 1 .. N -> V] : Right(n, f)  BY <3>0
    <3>2. PICK m \in 1 .. N : m = N - n  OBVIOUS
    <3>3. f \in [m + 1 .. N -> V]  BY <3>2
    <3> DEFINE g == [i \in m .. N |-> IF i = m THEN step[<<m, f>>] ELSE f[i]]
    <3>4. step[<<m, f>>] \in V  BY <3>3
    <3>5. g \in [m .. N -> V]  BY <3>3, <3>4
    <3>6. g[m] = step[<<m, f>>] /\ \A i \in m + 1 .. N : g[i] = f[i]  OBVIOUS
    <3> HIDE DEF g
    <3>7. \A i \in m .. N : [k \in i + 1 .. N |-> g[k]] = [k \in i + 1 .. N |-> f[k]]
      BY <3>6
    <3>8. [k \in m + 1 .. N |-> f[k]] = f  BY <3>3
    <3>9. ASSUME NEW i \in m .. N PROVE g[i] = step[<<i, [k \in i + 1 .. N |-> g[k]]>>]
      <4>1. CASE i = m  BY <3>6, <3>7, <3>8, <4>1
      <4>2. CASE i # m
        <5>1. i \in m + 1 .. N /\ i \in N - n + 1 .. N  BY <3>2, <4>2
        <5>2. f[i] = step[<<i, [k \in i + 1 .. N |-> f[k]]>>]  BY <3>1, <5>1
        <5> QED  BY <3>6, <3>7, <5>1, <5>2
      <4> QED  BY <4>1, <4>2
    <3>10. N - (n + 1) + 1 = m  BY <3>2
    <3> QED  BY <3>5, <3>9, <3>10
  <2>3. N \in P
    <3> HIDE DEF P
    <3>1. Nat \subseteq P  BY <2>1, <2>2, Induct
    <3> QED  BY <3>1
  <2>4. N <= N => \E f \in [N - N + 1 .. N -> V] : Right(N, f)
    <3> HIDE DEF Right
    <3> QED  BY <2>3
  <2>5. N <= N /\ N - N + 1 = 1  OBVIOUS
  <2> HIDE DEF Right
  <2> QED  BY <2>4, <2>5
<1>2. ASSUME NEW f, CountsDown(f, V, N, step), NEW j \in 1 .. N PROVE f[j] \in V
  <2> DEFINE P == {n \in Nat : n <= N => \A i \in N - n + 1 .. N : f[i] \in V}
  <2>1. 0 \in P  OBVIOUS
  <2>2. ASSUME NEW n \in Nat, n \in P PROVE n + 1 \in P
    <3> SUFFICES ASSUME n + 1 <= N, NEW i \in N - (n + 1) + 1 .. N PROVE f[i] \in V
      OBVIOUS
    <3>1. \A k \in N - n + 1 .. N : f[k] \in V  BY <2>2
    <3>2. CASE i \in N - n + 1 .. N  BY <3>1, <3>2
    <3>3. CASE i = N - n
      <4>1. i \in 1 .. N /\ \A k \in i + 1 .. N : k \in N - n + 1 .. N  BY <3>3
      <4>2. [k \in i + 1 .. N |-> f[k]] \in [i + 1 .. N -> V]  BY <3>1, <4>1
      <4>3. f[i] = step[<<i, [k \in i + 1 .. N |-> f[k]]>>]
        BY <1>2, <3>1, <4>1 DEF CountsDown
      <4> QED  BY <4>1, <4>2, <4>3
    <3> QED  BY <3>2, <3>3
  <2>3. N \in P
    <3> HIDE DEF P
    <3>1. Nat \subseteq P  BY <2>1, <2>2, Induct
    <3> QED  BY <3>1
  <2>4. N - N + 1 = 1  OBVIOUS
  <2> QED  BY <2>3, <2>4
<1>3. N - N + 1 = 1  OBVIOUS
<1> QED  BY <1>1, <1>2, <1>3 DEF CountsDown

Below(S, before, a) == {b \in S : <<b, a>> \in before}

\* The element of a finite, linearly ordered set that has k before it.
LEMMA Ranking ==
    ASSUME NEW S, IsFiniteSet(S), NEW before,
           \A a \in S : <<a, a>> \notin before,
           \A a, b \in S : a = b \/ <<a, b>> \in before \/ <<b, a>> \in before,
           \A a, b, c \in S : <<a, b>> \in before /\ <<b, c>> \in before => <<a, c>> \in before
    PROVE  /\ Cardinality(S) \in Nat
           /\ \A k \in 0 .. Cardinality(S) - 1 :
                  \E a \in S : Cardinality(Below(S, before, a)) = k
<1> DEFINE n == Cardinality(S)
           rank == [a \in S |-> Cardinality(Below(S, before, a))]
<1>1. n \in Nat  BY FS_CardinalityType
<1>2. ASSUME NEW a \in S
      PROVE  IsFiniteSet(Below(S, before, a)) /\ Cardinality(Below(S, before, a)) \in 0 .. n - 1
  <2>1. Below(S, before, a) \in SUBSET S /\ Below(S, before, a) # S  BY DEF Below
  <2>2. /\ IsFiniteSet(Below(S, before, a)) /\ Cardinality(Below(S, before, a)) <= n
        /\ Cardinality(Below(S, before, a)) # n
    BY <2>1, FS_Subset
  <2>3. Cardinality(Below(S, before, a)) \in Nat  BY <2>2, FS_CardinalityType
  <2> QED  BY <1>1, <2>2, <2>3
<1>3. ASSUME NEW a \in S, NEW b \in S, <<a, b>> \in before
      PROVE  Cardinality(Below(S, before, a)) # Cardinality(Below(S, before, b))
  <2>1. Below(S, before, a) \in SUBSET Below(S, before, b) /\ Below(S, before, a) # Below(S, before, b)
    BY <1>3 DEF Below
  <2>2. IsFiniteSet(Below(S, before, b))  BY <1>2
  <2> QED  BY <2>1, <2>2, FS_Subset
<1>4. rank \in [S -> 0 .. n - 1]  BY <1>2
<1>5. \A a, b \in S : rank[a] = rank[b] => a = b
  <2> QED  BY <1>3
<1> HIDE DEF rank
<1>6. rank \in Injection(S, 0 .. n - 1)  BY <1>4, <1>5, Fun_IsInj
<1>7. IsFiniteSet(0 .. n - 1) /\ Cardinality(0 .. n - 1) = n
  <2> HIDE DEF n
  <2>1. n - 1 \in Int /\ 0 \in Int /\ (0 > n - 1 <=> n = 0) /\ (n - 1) - 0 + 1 = n  BY <1>1
  <2>2. Cardinality(0 .. n - 1) = IF 0 > n - 1 THEN 0 ELSE (n - 1) - 0 + 1  BY <2>1, FS_Interval
  <2> QED  BY <2>1, <2>2, FS_Interval
<1>8. rank \in Surjection(S, 0 .. n - 1)  BY <1>6, <1>7, FS_Injection
<1>9. \A k \in 0 .. n - 1 : \E a \in S : rank[a] = k  BY <1>8 DEF Surjection
<1> QED  BY <1>1, <1>9 DEF rank
-----------------------------------------------------------------------------
LEMMA SliceIs ==
    ASSUME NEW S, NEW s \in Seq(S), NEW i \in Nat, NEW j \in Nat, i <= j, j <= Len(s)
    PROVE  /\ SubSeq(s, i + 1, j) \in Seq(S) /\ Len(SubSeq(s, i + 1, j)) = j - i
           /\ \A k \in 1 .. j - i : SubSeq(s, i + 1, j)[k] = s[i + k]
<1>1. Len(s) \in Nat /\ \A k \in i + 1 .. j : k \in 1 .. Len(s)  BY LenProperties
<1>2. \A k \in i + 1 .. j : s[k] \in S  BY <1>1, ElementOfSeq
<1>3. i + 1 \in Int /\ j \in Int  OBVIOUS
<1> DEFINE r == SubSeq(s, i + 1, j)
<1>4. /\ r \in Seq(S) /\ Len(r) = IF i + 1 <= j THEN j - (i + 1) + 1 ELSE 0
      /\ \A k \in 1 .. j - (i + 1) + 1 : r[k] = s[(i + 1) + k - 1]
  BY <1>2, <1>3, SubSeqProperties
<1> HIDE DEF r
<1>5. Len(r) = j - i  BY <1>4
<1>6. \A k \in 1 .. j - i : r[k] = s[i + k]
  <2> TAKE k \in 1 .. j - i
  <2>1. k \in 1 .. j - (i + 1) + 1 /\ (i + 1) + k - 1 = i + k  OBVIOUS
  <2> QED  BY <1>4, <2>1
<1> QED  BY <1>4, <1>5, <1>6 DEF r

\* Candidate i opens a token with what was read from i to j.
Opens(i, j) == InTrie(Piece(i, j))

Alike(s, path) == Len(path) <= Len(s) /\ \A k \in 1 .. Len(path) : s[k] = path[k]

LEMMA SpecialsAre ==
    ASSUME NEW s \in Specials
    PROVE  s \in Seq(Int) /\ Len(s) \in Nat \ {0}
BY SpecialsAssumption, EmptySeq

LEMMA TrieIs ==
    ASSUME NEW path \in Seq(Int)
    PROVE  InTrie(path) <=> \E s \in Specials : Alike(s, path)
<1>1. ASSUME NEW s \in Specials, Len(path) <= Len(s)
      PROVE  SubSeq(s, 1, Len(path)) = path <=> \A k \in 1 .. Len(path) : s[k] = path[k]
  <2>1. Len(path) \in Nat /\ s \in Seq(Int) /\ Len(s) \in Nat  BY LenProperties, SpecialsAre
  <2>2. /\ SubSeq(s, 1, Len(path)) \in Seq(Int) /\ Len(SubSeq(s, 1, Len(path))) = Len(path)
        /\ \A k \in 1 .. Len(path) : SubSeq(s, 1, Len(path))[k] = s[k]
    BY <1>1, <2>1, SliceIs
  <2> QED  BY <2>1, <2>2, SeqEqual
<1> QED  BY <1>1 DEF InTrie, Alike

\* What was read since i, as characters of the text.
LEMMA ReadSince ==
    ASSUME text \in Seq(Int), NEW i \in Nat, NEW j \in Nat, i <= j, j <= Len(text)
    PROVE  /\ Piece(i, j) \in Seq(Int) /\ Len(Piece(i, j)) = j - i /\ j - i \in Nat
           /\ \A k \in 1 .. j - i : Piece(i, j)[k] = text[i + k]
<1> DEFINE t == text
<1>1. t \in Seq(Int) /\ j <= Len(t)  OBVIOUS
<1> HIDE DEF t
<1>2. /\ SubSeq(t, i + 1, j) \in Seq(Int) /\ Len(SubSeq(t, i + 1, j)) = j - i
      /\ \A k \in 1 .. j - i : SubSeq(t, i + 1, j)[k] = t[i + k]
  BY <1>1, SliceIs
<1> QED  BY <1>2 DEF t, Piece

Begins(i, j) ==
    \E s \in Specials : j - i <= Len(s) /\ \A k \in 1 .. j - i : s[k] = text[i + k]

LEMMA OpensIs ==
    ASSUME text \in Seq(Int), NEW i \in Nat, NEW j \in Nat, i <= j, j <= Len(text)
    PROVE  Opens(i, j) <=> Begins(i, j)
<1> DEFINE p == Piece(i, j)
<1>1. p \in Seq(Int) /\ Len(p) = j - i /\ \A k \in 1 .. j - i : p[k] = text[i + k]
  BY ReadSince
<1> HIDE DEF p
<1>2. InTrie(p) <=> \E s \in Specials : Alike(s, p)  BY <1>1, TrieIs
<1>3. \A s \in Specials : Alike(s, p) <=>
         j - i <= Len(s) /\ \A k \in 1 .. j - i : s[k] = text[i + k]
  BY <1>1 DEF Alike
<1> QED  BY <1>2, <1>3 DEF Opens, Begins, p

LEMMA SpecialOpens ==
    ASSUME text \in Seq(Int), NEW i \in Nat, NEW j \in Nat, i <= j, j <= Len(text),
           Piece(i, j) \in Specials
    PROVE  Opens(i, j)
<1> DEFINE p == Piece(i, j)
<1>1. Len(p) = j - i /\ j - i \in Nat /\ \A k \in 1 .. j - i : p[k] = text[i + k]
  BY ReadSince
<1>2. p \in Specials  OBVIOUS
<1> HIDE DEF p
<1>3. Begins(i, j)  BY <1>1, <1>2 DEF Begins
<1> QED  BY <1>3, OpensIs

\* Two candidates are never open at once: the later one would begin inside a
\* token.
LEMMA OneOpen ==
    ASSUME text \in Seq(Int), NEW i \in Nat, NEW m \in Nat, NEW j \in Nat,
           i < m, m < j, j <= Len(text), Opens(i, j), Opens(m, j)
    PROVE  FALSE
<1>0. Begins(i, j) /\ Begins(m, j)  BY OpensIs
<1>1. PICK s \in Specials : j - i <= Len(s) /\ \A k \in 1 .. j - i : s[k] = text[i + k]
  BY <1>0 DEF Begins
<1>2. PICK t \in Specials : j - m <= Len(t) /\ \A k \in 1 .. j - m : t[k] = text[m + k]
  BY <1>0 DEF Begins
<1> DEFINE k == m - i + 1
<1>3. k \in 1 .. j - i /\ k \in 2 .. Len(s) /\ i + k = m + 1  BY <1>1, SpecialsAre
<1>4. s[k] = text[m + 1]  BY <1>1, <1>3
<1>5. t[1] = text[m + 1]  BY <1>2
<1> HIDE DEF k
<1> QED  BY <1>3, <1>4, <1>5, SpecialsAssumption

LEMMA StaysOpen ==
    ASSUME text \in Seq(Int), NEW i \in Nat, NEW j \in Nat, i < j, j < Len(text),
           Opens(i, j + 1)
    PROVE  Opens(i, j)
<1>1. PICK m \in Nat : m = j + 1 /\ i <= m /\ m <= Len(text)
  <2>1. Len(text) \in Nat  BY LenProperties
  <2> QED  BY <2>1
<1>2. Begins(i, m)  BY <1>1, OpensIs
<1>3. PICK s \in Specials : m - i <= Len(s) /\ \A k \in 1 .. m - i : s[k] = text[i + k]
  BY <1>2 DEF Begins
<1>4. Len(s) \in Nat  BY SpecialsAre
<1>5. j - i <= Len(s) /\ \A k \in 1 .. j - i : s[k] = text[i + k]  BY <1>1, <1>3, <1>4
<1>6. Begins(i, j)  BY <1>5 DEF Begins
<1>7. i <= j /\ j <= Len(text)  BY <1>1
<1> QED  BY <1>6, <1>7, OpensIs

\* A token that ends is no beginning of another.
LEMMA NotLonger ==
    ASSUME text \in Seq(Int), NEW i \in Nat, NEW j \in Nat, i < j, j < Len(text),
           Piece(i, j) \in Specials
    PROVE  ~Opens(i, j + 1)
<1> SUFFICES ASSUME Opens(i, j + 1) PROVE FALSE
  OBVIOUS
<1>0. Begins(i, j + 1)
  <2>1. PICK m \in Nat : m = j + 1 /\ i <= m /\ m <= Len(text)
    <3>1. Len(text) \in Nat  BY LenProperties
    <3> QED  BY <3>1
  <2> QED  BY <2>1, OpensIs
<1>1. PICK s \in Specials :
         j + 1 - i <= Len(s) /\ \A k \in 1 .. j + 1 - i : s[k] = text[i + k]
  BY <1>0 DEF Begins
<1> DEFINE p == Piece(i, j)
<1>2. p \in Seq(Int) /\ Len(p) = j - i /\ \A k \in 1 .. j - i : p[k] = text[i + k]
  BY ReadSince
<1>3. s \in Seq(Int) /\ Len(s) \in Nat  BY SpecialsAre
<1>4. Len(p) < Len(s)  BY <1>1, <1>2, <1>3
<1>5. SubSeq(s, 1, Len(p)) = p
  <2>1. /\ SubSeq(s, 1, Len(p)) \in Seq(Int) /\ Len(SubSeq(s, 1, Len(p))) = Len(p)
        /\ \A k \in 1 .. Len(p) : SubSeq(s, 1, Len(p))[k] = s[k]
    <3>1. 0 \in Nat /\ Len(p) \in Nat /\ 0 <= Len(p) /\ Len(p) <= Len(s) /\ 0 + 1 = 1
      BY <1>2, <1>4
    <3> HIDE DEF p
    <3>2. \A k \in 1 .. Len(p) - 0 : SubSeq(s, 0 + 1, Len(p))[k] = s[0 + k]
          /\ SubSeq(s, 0 + 1, Len(p)) \in Seq(Int) /\ Len(SubSeq(s, 0 + 1, Len(p))) = Len(p) - 0
      BY <1>3, <3>1, SliceIs
    <3> QED  BY <1>3, <3>1, SubSeqProperties
  <2> HIDE DEF p
  <2>2. \A k \in 1 .. Len(p) : SubSeq(s, 1, Len(p))[k] = p[k]  BY <1>1, <1>2, <2>1
  <2> QED  BY <1>2, <2>1, <2>2, SeqEqual
<1>6. p \in Specials  OBVIOUS
<1> HIDE DEF p
<1>7. Len(p) \in Nat /\ Len(s) \in Nat  BY <1>2, <1>3, LenProperties
<1>8. Len(p) <= Len(s)  BY <1>4, <1>7
<1>9. s = p  BY <1>5, <1>6, <1>8, SpecialsAssumption
<1> QED  BY <1>4, <1>7, <1>9
-----------------------------------------------------------------------------
\* The open candidates are the places that may still become a token.
Candidates(j) == {i \in 0 .. j - 1 : Opens(i, j)}

ScanInv ==
    /\ text \in Texts /\ current \in 0 .. Len(text)
    /\ states = Candidates(current)
    /\ offsets = CutBy({p \in Occurrences(current) : p[2] < current})

\* Where a candidate stands and what was read, as numbers.
LEMMA ScanTypes ==
    ASSUME ScanInv
    PROVE  text \in Seq(Int) /\ current \in Nat /\ Len(text) \in Nat /\ current <= Len(text)
<1>1. text \in Seq(Int) /\ current \in Nat  BY TextsAssumption DEF ScanInv
<1> QED  BY <1>1, LenProperties DEF ScanInv

\* What a candidate has read is one character longer after the next.
LEMMA ReadsOn ==
    ASSUME text \in Seq(Int), NEW i \in Nat, NEW j \in Nat, i <= j, j < Len(text)
    PROVE  Append(Piece(i, j), text[j + 1]) = Piece(i, j + 1)
<1>0. PICK m \in Nat : m = j + 1  OBVIOUS
<1> DEFINE p == Piece(i, j)
           q == Piece(i, m)
           c == text[m]
<1>1. /\ Len(text) \in Nat /\ m \in 1 .. Len(text) /\ c \in Int
      /\ j <= Len(text) /\ m <= Len(text) /\ i <= m
  BY <1>0, LenProperties, ElementOfSeq
<1>2. p \in Seq(Int) /\ Len(p) = j - i /\ \A k \in 1 .. j - i : p[k] = text[i + k]
  BY <1>1, ReadSince
<1>3. /\ q \in Seq(Int) /\ Len(q) = m - i
      /\ \A k \in 1 .. m - i : q[k] = text[i + k]
  BY <1>1, ReadSince
<1>4. i + (m - i) = m /\ m - i = j - i + 1 /\ j - i \in Nat  BY <1>0
<1>5. q[m - i] = c  BY <1>3, <1>4
<1> HIDE DEF p, q, c
<1>6. /\ Append(p, c) \in Seq(Int) /\ Len(Append(p, c)) = Len(p) + 1
      /\ \A k \in 1 .. Len(p) : Append(p, c)[k] = p[k]
      /\ Append(p, c)[Len(p) + 1] = c
  <2>1. p \in Seq(Int) /\ c \in Int  BY <1>1, <1>2
  <2> QED  BY <2>1, AppendProperties
<1>7. \A k \in 1 .. j - i : Append(p, c)[k] = q[k]  BY <1>2, <1>3, <1>4, <1>6
<1>8. Append(p, c)[m - i] = q[m - i]  BY <1>2, <1>4, <1>5, <1>6
<1>9. \A k \in 1 .. m - i : k \in 1 .. j - i \/ k = m - i  BY <1>4
<1>10. \A k \in 1 .. Len(q) : Append(p, c)[k] = q[k]  BY <1>3, <1>7, <1>8, <1>9
<1>11. Len(Append(p, c)) = Len(q)  BY <1>2, <1>3, <1>4, <1>6
<1>12. Append(p, c) = q  BY <1>3, <1>6, <1>10, <1>11, SeqEqual
<1> QED  BY <1>0, <1>12 DEF p, q, c

LEMMA CandidatesGrow ==
    ASSUME ScanInv, current < Len(text)
    PROVE  StillOpen(text[current + 1]) = Candidates(current + 1)
<1> DEFINE c == text[current + 1]
<1>1. text \in Seq(Int) /\ current \in Nat /\ Len(text) \in Nat /\ current + 1 <= Len(text)
  BY ScanTypes
<1>2. \A i \in 0 .. current - 1 : Append(Node(i), c) = Piece(i, current + 1)
  BY <1>1, ReadsOn DEF Node, Piece
<1>3. <<c>> = Piece(current, current + 1)
  <2>1. Append(Piece(current, current), c) = Piece(current, current + 1)  BY <1>1, ReadsOn
  <2>2. Piece(current, current) \in Seq(Int) /\ Len(Piece(current, current)) = 0
    <3>1. PICK m \in Nat : m = current  BY <1>1
    <3>2. m <= current /\ current <= Len(text)  BY <1>1, <3>1
    <3>3. Piece(m, current) \in Seq(Int) /\ Len(Piece(m, current)) = current - m
      BY <1>1, <3>2, ReadSince
    <3> QED  BY <1>1, <3>1, <3>3
  <2>3. Piece(current, current) = << >>  BY <2>2, EmptySeq
  <2> QED  BY <2>1, <2>3
<1>4. Opened(c) = {i \in {current} : Opens(i, current + 1)}  BY <1>3 DEF Opened, Opens
<1>5. states = Candidates(current) /\ states \subseteq 0 .. current - 1
  BY DEF ScanInv, Candidates
<1>6. Following(c) = {i \in states : Opens(i, current + 1)}
  BY <1>2, <1>5 DEF Following, Opens
<1>7. \A i \in 0 .. current - 1 : Opens(i, current + 1) => i \in states
  BY <1>1, <1>5, StaysOpen DEF Candidates
<1>8. ASSUME Ended # {}, NEW i \in 0 .. current - 1, Opens(i, current + 1) PROVE FALSE
  <2>1. i \in states /\ Opens(i, current)  BY <1>7, <1>8, <1>5 DEF Candidates
  <2>2. PICK e \in states : Piece(e, current) \in Specials
    BY <1>8 DEF Ended, Node, Piece
  <2>3. e \in 0 .. current - 1 /\ Opens(e, current)  BY <1>5 DEF Candidates
  <2>4. e = i
    <3>1. ~(e < i)  BY <1>1, <2>1, <2>3, OneOpen
    <3>2. ~(i < e)  BY <1>1, <2>1, <2>3, OneOpen
    <3> QED  BY <1>1, <2>3, <3>1, <3>2
  <2> QED  BY <1>1, <1>8, <2>2, <2>4, NotLonger
<1>9. Candidates(current + 1) = {i \in 0 .. current - 1 : Opens(i, current + 1)} \cup Opened(c)
  BY <1>1, <1>4 DEF Candidates
<1>10. Candidates(current + 1) = StillOpen(c)
  <2>1. CASE Ended = {}
    <3>1. Following(c) = {i \in 0 .. current - 1 : Opens(i, current + 1)}
      BY <1>5, <1>6, <1>7
    <3> QED  BY <1>9, <2>1, <3>1 DEF StillOpen
  <2>2. CASE Ended # {}
    <3>1. {i \in 0 .. current - 1 : Opens(i, current + 1)} = {}  BY <1>8, <2>2
    <3> QED  BY <1>9, <2>2, <3>1 DEF StillOpen
  <2> QED  BY <2>1, <2>2
<1> QED  BY <1>10

\* The candidates that end are the tokens that stand before current.
LEMMA CutsMade ==
    ASSUME ScanInv
    PROVE  offsets \cup Cuts = CutBy(Occurrences(current))
<1>1. text \in Seq(Int) /\ current \in Nat /\ Len(text) \in Nat /\ current <= Len(text)
  BY ScanTypes
<1> DEFINE Old == {p \in Occurrences(current) : p[2] < current}
           New == {p \in Occurrences(current) : p[2] = current}
<1>2. Occurrences(current) = Old \cup New
  BY <1>1 DEF Occurrences
<1>3. Ended = {p[1] : p \in New}
  <2>1. ASSUME NEW e \in Ended PROVE e \in {p[1] : p \in New}
    <3>1. e \in 0 .. current - 1 /\ Piece(e, current) \in Specials
      BY DEF Ended, ScanInv, Candidates, Node, Piece
    <3>2. <<e, current>> \in New  BY <1>1, <3>1 DEF Occurrences
    <3>3. <<e, current>>[1] = e  OBVIOUS
    <3> QED  BY <3>2, <3>3
  <2>2. ASSUME NEW p \in New PROVE p[1] \in Ended
    <3>1. p[1] \in 0 .. current - 1 /\ Piece(p[1], current) \in Specials
      BY <1>1 DEF Occurrences
    <3>2. Opens(p[1], current)  BY <1>1, <3>1, SpecialOpens
    <3> QED  BY <3>1, <3>2 DEF Ended, ScanInv, Candidates, Node, Piece
  <2> QED  BY <2>1, <2>2
<1>4. Cuts = UNION {{p[1], p[2]} : p \in New}
  <2>1. ASSUME NEW x \in Cuts PROVE x \in UNION {{p[1], p[2]} : p \in New}
    <3>1. PICK e \in Ended : x \in {e, current}  BY DEF Cuts
    <3>2. PICK p \in New : e = p[1]  BY <1>3
    <3> QED  BY <3>1, <3>2
  <2>2. ASSUME NEW p \in New PROVE {p[1], p[2]} \subseteq Cuts
    BY <1>3 DEF Cuts
  <2> QED  BY <2>1, <2>2
<1>5. offsets = {0} \cup UNION {{p[1], p[2]} : p \in Old}  BY DEF ScanInv, CutBy
<1> HIDE DEF Old, New
<1> QED  BY <1>2, <1>4, <1>5 DEF CutBy

\* One token at most is open.
LEMMA OneCandidate ==
    ASSUME ScanInv
    PROVE  Cardinality(states) <= 1
<1>1. text \in Seq(Int) /\ current \in Nat /\ current <= Len(text)  BY ScanTypes
<1>2. ASSUME NEW i \in states, NEW m \in states PROVE i = m
  <2>1. /\ i \in 0 .. current - 1 /\ m \in 0 .. current - 1
        /\ Opens(i, current) /\ Opens(m, current)
    BY DEF ScanInv, Candidates
  <2>2. ~(i < m) /\ ~(m < i)  BY <1>1, <2>1, OneOpen
  <2> QED  BY <2>1, <2>2
<1>3. CASE states = {}  BY <1>3, FS_EmptySet
<1>4. CASE states # {}
  <2>1. PICK i \in states : states = {i}  BY <1>2, <1>4
  <2>2. Cardinality({i}) = 1  BY FS_Singleton
  <2> QED  BY <2>1, <2>2
<1> QED  BY <1>3, <1>4

LEMMA ScanTyped ==
    ASSUME ScanInv
    PROVE  ScanTypeOK
<1>1. current \in Nat  BY ScanTypes
<1>2. offsets \subseteq 0 .. current
  BY <1>1 DEF ScanInv, CutBy, Occurrences
<1> QED  BY <1>2, OneCandidate DEF ScanInv, ScanTypeOK, Candidates
-----------------------------------------------------------------------------
LEMMA ScanStarts == Init => ScanInv
<1> SUFFICES ASSUME Init PROVE ScanInv
  OBVIOUS
<1>1. text \in Texts /\ text \in Seq(Int) /\ current = 0 /\ states = {} /\ offsets = {0}
  BY TextsAssumption DEF Init, ScanInit
<1>2. current \in 0 .. Len(text)  BY <1>1, LenProperties
<1>3. Candidates(0) = {} /\ Occurrences(0) = {}  BY DEF Candidates, Occurrences
<1> QED  BY <1>1, <1>2, <1>3 DEF ScanInv, CutBy

LEMMA ScanKept == ScanInv /\ [Next]_vars => ScanInv'
<1> SUFFICES ASSUME ScanInv, [Next]_vars PROVE ScanInv'
  OBVIOUS
<1>1. CASE ScanChar
  <2>1. text \in Seq(Int) /\ current \in Nat /\ Len(text) \in Nat /\ current <= Len(text)
    BY ScanTypes
  <2>2. /\ text' = text /\ current' = current + 1 /\ current < Len(text)
        /\ states' = StillOpen(text[current + 1]) /\ offsets' = offsets \cup Cuts
    BY <1>1 DEF ScanChar
  <2>3. text' \in Texts /\ current' \in 0 .. Len(text')  BY <2>1, <2>2 DEF ScanInv
  <2>4. states' = Candidates(current)'
    BY <2>2, CandidatesGrow DEF Candidates, Opens, Piece
  <2>5. Occurrences(current) = {p \in Occurrences(current + 1) : p[2] < current + 1}
    BY <2>1 DEF Occurrences
  <2>6. offsets' = CutBy({p \in Occurrences(current) : p[2] < current})'
    BY <2>2, <2>5, CutsMade DEF CutBy, Occurrences, Piece
  <2> QED  BY <2>3, <2>4, <2>6 DEF ScanInv
<1>2. CASE UNCHANGED scan
  BY <1>2 DEF scan, ScanInv, Candidates, Opens, Piece, CutBy, Occurrences
<1>3. ScanChar \/ UNCHANGED scan
  BY DEF Next, vars, Scan, ScanEnd, TakeSpecial, TakeText, MatchPattern, PieceEnd, Merge,
         MergeEnd, Encoded, DecodeToken, Terminating
<1> QED  BY <1>1, <1>2, <1>3

(***************************************************************************)
(* Every added token that stands in a text is cut out, and nothing else    *)
(* cuts it, at every character of the pass of Trie::split.                 *)
(***************************************************************************)
THEOREM TokensAlwaysCutOut == Spec => []AddedTokensCutOut
<1>1. ScanInv => AddedTokensCutOut  BY CutsMade DEF AddedTokensCutOut
<1> QED  BY <1>1, ScanStarts, ScanKept, PTL DEF Spec

-----------------------------------------------------------------------------
(***************************************************************************)
(* Types of the rest of the tokenizer.  Words and pieces are sequences of  *)
(* whatever the conversions make of a text that may be no text at all, so  *)
(* all that is said of them is that they are sequences.                    *)
(***************************************************************************)
Listed(s) == Len(s) \in Nat /\ s \in Seq({s[i] : i \in 1 .. Len(s)})

LEMMA ListedIs ==
    ASSUME NEW V, NEW s \in Seq(V)
    PROVE  Listed(s)
<1>1. Len(s) \in Nat /\ s \in [1 .. Len(s) -> V]  BY LenProperties
<1>2. s \in [1 .. Len(s) -> {s[i] : i \in 1 .. Len(s)}]  BY <1>1
<1> QED  BY <1>1, <1>2, SeqDef DEF Listed

LEMMA FunctionListed ==
    ASSUME NEW V, NEW n \in Nat, NEW f \in [1 .. n -> V]
    PROVE  f \in Seq(V) /\ Len(f) = n /\ Listed(f)
<1>1. f \in Seq(V)  BY SeqDef
<1>2. Len(f) \in Nat /\ 1 .. Len(f) = 1 .. n  BY <1>1, LenProperties
<1>3. Len(f) = n  BY <1>2
<1> QED  BY <1>1, <1>3, ListedIs

LEMMA ConcatListed ==
    ASSUME NEW s, NEW t, Listed(s), Listed(t)
    PROVE  Listed(s \o t)
<1> DEFINE V == {s[i] : i \in 1 .. Len(s)} \cup {t[i] : i \in 1 .. Len(t)}
<1>1. s \in Seq(V) /\ t \in Seq(V)  BY SeqMonotonic DEF Listed
<1> HIDE DEF V
<1>2. s \o t \in Seq(V)  BY <1>1, ConcatProperties
<1> QED  BY <1>2, ListedIs

LEMMA AppendListed ==
    ASSUME NEW s, NEW x, Listed(s)
    PROVE  Listed(Append(s, x))
<1> DEFINE V == {s[i] : i \in 1 .. Len(s)} \cup {x}
<1>1. s \in Seq(V) /\ x \in V  BY SeqMonotonic DEF Listed
<1> HIDE DEF V
<1>2. Append(s, x) \in Seq(V)  BY <1>1, AppendProperties
<1> QED  BY <1>2, ListedIs

LEMMA CutListed ==
    ASSUME NEW s, Listed(s), NEW i \in Nat, NEW j \in 0 .. Len(s)
    PROVE  Listed(SubSeq(s, i + 1, j))
<1> DEFINE V == {s[k] : k \in 1 .. Len(s)}
<1>1. Len(s) \in Nat /\ \A k \in i + 1 .. j : s[k] \in V  BY DEF Listed
<1>2. i + 1 \in Int /\ j \in Int  BY <1>1
<1> HIDE DEF V
<1>3. SubSeq(s, i + 1, j) \in Seq(V)  BY <1>1, <1>2, SubSeqProperties
<1> QED  BY <1>3, ListedIs

LEMMA MapListed ==
    ASSUME NEW s, Listed(s)
    PROVE  DOMAIN s = 1 .. Len(s) /\ Len(s) \in Nat
BY LenProperties DEF Listed

\* The least and the greatest of some numbers.
LEMMA MinIs ==
    ASSUME NEW T \in SUBSET Nat, T # {}
    PROVE  Min(T) \in T /\ \A m \in T : Min(T) <= m
BY NatLeast DEF Min

LEMMA MaxIs ==
    ASSUME NEW n \in Nat, NEW T \in SUBSET (0 .. n), T # {}
    PROVE  Max(T) \in T /\ \A m \in T : Max(T) >= m
<1> DEFINE U == {n - m : m \in T}
<1>1. U \in SUBSET Nat /\ U # {}
  <2>1. \A m \in T : n - m \in Nat  OBVIOUS
  <2> QED  BY <2>1
<1> HIDE DEF U
<1>2. PICK u \in U : \A v \in U : u <= v  BY <1>1, NatLeast
<1>3. PICK m \in T : u = n - m  BY DEF U
<1>4. \A k \in T : n - k \in U  BY DEF U
<1>5. \A k \in T : m >= k
  <2> TAKE k \in T
  <2>1. n - m <= n - k  BY <1>2, <1>3, <1>4
  <2> QED  BY <2>1
<1> QED  BY <1>5 DEF Max

\* FlattenSeq, one sequence after the other.
Flattens(f, seqs) ==
    f[0] = << >> /\ \A i \in 1 .. Len(seqs) : f[i] = f[i - 1] \o seqs[i]

LEMMA FlattenBySteps ==
    ASSUME NEW S, NEW seqs \in Seq(Seq(S))
    PROVE  \E f \in [0 .. Len(seqs) -> Seq(S)] :
               Flattens(f, seqs) /\ FlattenSeq(seqs) = f[Len(seqs)]
<1> DEFINE N == Len(seqs)
           V == Seq(S)
           none == << >>
           step == [p \in (1 .. N) \X V |-> p[2] \o seqs[p[1]]]
           Equal(f) == f = [i \in 1 .. N |-> IF i = 1 THEN seqs[i] ELSE f[i - 1] \o seqs[i]]
           flatten == CHOOSE f : Equal(f)
<1>1. N \in Nat /\ none \in V /\ \A i \in 1 .. N : seqs[i] \in V
  BY LenProperties, ElementOfSeq, EmptySeq
<1>2. \A i \in 1 .. N : \A v \in V : step[<<i, v>>] = v \o seqs[i] /\ v \o seqs[i] \in V
  BY <1>1, ConcatProperties
<1>3. step \in [(1 .. N) \X V -> V]  BY <1>1, ConcatProperties
<1> HIDE DEF step, V
<1>4. PICK f \in [0 .. N -> V] : CountsUp(f, N, none, step)
  <2> HIDE DEF N, none
  <2> QED  BY <1>1, <1>3, RecursionUp
<1>5. \A i \in 1 .. N : f[i] = f[i - 1] \o seqs[i]
  <2> TAKE i \in 1 .. N
  <2>1. i - 1 \in 0 .. N  BY <1>1
  <2>2. f[i - 1] \in V  BY <1>4, <2>1
  <2>3. f[i] = step[<<i, f[i - 1]>>]  BY <1>4 DEF CountsUp
  <2> QED  BY <1>2, <2>2, <2>3
<1>6. f[0] = << >>  BY <1>4 DEF CountsUp
<1>7. Flattens(f, seqs)  BY <1>5, <1>6 DEF Flattens
<1>8. FlattenSeq(seqs) = f[N]
  <2>1. CASE N = 0
    <3>1. seqs = << >>  BY <2>1, EmptySeq
    <3> QED  BY <1>6, <2>1, <3>1 DEF FlattenSeq
  <2>2. CASE N # 0
    <3>1. FlattenSeq(seqs) = flatten[N]  BY <2>2 DEF FlattenSeq
    <3>2. 1 \in 1 .. N /\ f[1] = seqs[1]
      <4>1. 1 \in 1 .. N  BY <1>1, <2>2
      <4>2. f[1] = << >> \o seqs[1] /\ seqs[1] \in Seq(S)
        <5>1. 1 - 1 = 0  OBVIOUS
        <5> QED  BY <1>1, <1>5, <1>6, <4>1, <5>1 DEF V
      <4> QED  BY <4>1, <4>2, ConcatEmptySeq
    <3>3. Equal([i \in 1 .. N |-> f[i]])
      <4> DEFINE g == [i \in 1 .. N |-> f[i]]
      <4>1. \A i \in 1 .. N : i # 1 => g[i - 1] = f[i - 1]  BY <1>1
      <4>2. \A i \in 1 .. N : g[i] = IF i = 1 THEN seqs[i] ELSE g[i - 1] \o seqs[i]
        BY <1>5, <3>2, <4>1
      <4> QED  BY <4>2
    <3>4. Equal(flatten)  BY <3>3
    <3> HIDE DEF flatten
    <3> DEFINE P == {n \in Nat : n + 1 <= N => flatten[n + 1] = f[n + 1]}
    <3>5. 0 \in P  BY <3>2, <3>4
    <3>6. ASSUME NEW n \in Nat, n \in P PROVE n + 1 \in P
      <4> SUFFICES ASSUME (n + 1) + 1 <= N PROVE flatten[(n + 1) + 1] = f[(n + 1) + 1]
        OBVIOUS
      <4>1. PICK m \in 1 .. N : m = (n + 1) + 1  BY <1>1
      <4>2. m # 1 /\ m - 1 = n + 1 /\ flatten[m - 1] = f[m - 1]  BY <1>1, <3>6, <4>1
      <4>3. flatten[m] = IF m = 1 THEN seqs[m] ELSE flatten[m - 1] \o seqs[m]  BY <3>4
      <4> QED  BY <1>5, <4>1, <4>2, <4>3
    <3>7. N - 1 \in P
      <4> HIDE DEF P
      <4>1. Nat \subseteq P  BY <3>5, <3>6, Induct
      <4> QED  BY <1>1, <2>2, <4>1
    <3> QED  BY <1>1, <2>2, <3>1, <3>7
  <2> QED  BY <2>1, <2>2
<1> QED  BY <1>4, <1>7, <1>8 DEF V

\* Flattened sequences are a sequence.
LEMMA FlattenListed ==
    ASSUME NEW S, NEW seqs \in Seq(Seq(S))
    PROVE  FlattenSeq(seqs) \in Seq(S)
<1>1. Len(seqs) \in Nat  BY LenProperties
<1>2. PICK f \in [0 .. Len(seqs) -> Seq(S)] : FlattenSeq(seqs) = f[Len(seqs)]
  BY FlattenBySteps
<1> QED  BY <1>1, <1>2

\* What is decoded from each byte on.
Decodes(f, bytes) ==
    \A i \in 1 .. Len(bytes) + 1 :
        f[i] = IF i > Len(bytes) THEN << >>
               ELSE IF Announced(bytes[i]) = 0 \/ i + Announced(bytes[i]) > Len(bytes) + 1
                    THEN f[i + 1]
               ELSE <<Assembled(bytes, i, Announced(bytes[i]))>> \o f[i + Announced(bytes[i])]

LEMMA WideBySteps ==
    ASSUME NEW bytes, Listed(bytes)
    PROVE  \E f : Decodes(f, bytes) /\ Utf8ToWide(bytes) = f[1] /\ Listed(f[1])
<1> DEFINE N == Len(bytes) + 1
           n(i) == Announced(bytes[i])
           S == {Assembled(bytes, i, n(i)) : i \in 1 .. Len(bytes)}
           V == Seq(S)
           Value(i, g) == IF i > Len(bytes) THEN << >>
                          ELSE IF n(i) = 0 \/ i + n(i) > Len(bytes) + 1 THEN g[i + 1]
                          ELSE <<Assembled(bytes, i, n(i))>> \o g[i + n(i)]
           step == [p \in (1 .. N) \X UNION {[j .. N -> V] : j \in 1 .. N + 1} |-> Value(p[1], p[2])]
           Equal(f) == f = [i \in 1 .. N |-> Value(i, f)]
           from == CHOOSE f : Equal(f)
<1>1. Len(bytes) \in Nat /\ N \in Nat /\ \A i : n(i) \in 0 .. 4  BY DEF Listed, Announced
<1>2. ASSUME NEW i \in 1 .. N, NEW g \in [i + 1 .. N -> V]
      PROVE  step[<<i, g>>] = Value(i, g) /\ Value(i, g) \in V
  <2>1. i + 1 \in 1 .. N + 1  BY <1>1
  <2>2. step[<<i, g>>] = Value(i, g)  BY <2>1
  <2>3. CASE i > Len(bytes)
    <3>1. Value(i, g) = << >>  BY <2>3
    <3> HIDE DEF Value, S
    <3> QED  BY <2>2, <3>1, EmptySeq
  <2>4. CASE i <= Len(bytes) /\ (n(i) = 0 \/ i + n(i) > Len(bytes) + 1)
    <3>1. i + 1 \in i + 1 .. N /\ ~(i > Len(bytes))  BY <1>1, <2>4
    <3>2. g[i + 1] \in V  BY <3>1
    <3> HIDE DEF V, n
    <3> QED  BY <2>2, <2>4, <3>1, <3>2
  <2>5. CASE i <= Len(bytes) /\ n(i) # 0 /\ i + n(i) <= Len(bytes) + 1
    <3>1. n(i) \in Nat /\ i + n(i) \in i + 1 .. N /\ ~(i > Len(bytes)) /\ i \in 1 .. Len(bytes)
      BY <1>1, <2>5
    <3>2. Assembled(bytes, i, n(i)) \in S  BY <3>1
    <3> HIDE DEF S, n
    <3>3. g[i + n(i)] \in V  BY <3>1
    <3>4. <<Assembled(bytes, i, n(i))>> \in Seq(S)  BY <3>2
    <3>5. <<Assembled(bytes, i, n(i))>> \o g[i + n(i)] \in V  BY <3>3, <3>4, ConcatProperties
    <3>6. ~(i + n(i) > Len(bytes) + 1)  BY <1>1, <2>5, <3>1
    <3> QED  BY <2>2, <2>5, <3>1, <3>5, <3>6
  <2>6. n(i) \in Nat /\ i \in Nat  BY <1>1
  <2> HIDE DEF n, Value, V
  <2> QED  BY <1>1, <2>3, <2>4, <2>5, <2>6
<1> HIDE DEF step
<1>3. StaysIn(V, N, step)
  <2> HIDE DEF Value, V, N
  <2> QED  BY <1>2 DEF StaysIn
<1>4. ASSUME NEW f, NEW i \in 1 .. N
      PROVE  Value(i, [k \in i + 1 .. N |-> f[k]]) = Value(i, f)
  <2>1. CASE i > Len(bytes)  BY <2>1
  <2>2. CASE i <= Len(bytes)
    <3>1. i + 1 \in i + 1 .. N  BY <1>1, <2>2
    <3>2. n(i) # 0 /\ i + n(i) <= Len(bytes) + 1 => i + n(i) \in i + 1 .. N  BY <1>1
    <3>3. n(i) \in Nat  BY <1>1
    <3> HIDE DEF n
    <3> QED  BY <1>1, <2>2, <3>1, <3>2, <3>3
  <2> QED  BY <1>1, <2>1, <2>2
<1>5. Equal(from)
  <2>1. PICK f \in [1 .. N -> V] : CountsDown(f, V, N, step)
    <3> HIDE DEF V, N
    <3> QED  BY <1>1, <1>3, RecursionDown
  <2>2. ASSUME NEW i \in 1 .. N PROVE f[i] = Value(i, f)
    <3>1. [k \in i + 1 .. N |-> f[k]] \in [i + 1 .. N -> V]
      <4>1. \A k \in i + 1 .. N : k \in 1 .. N  BY <1>1
      <4> HIDE DEF V, N
      <4> QED  BY <4>1
    <3>2. f[i] = step[<<i, [k \in i + 1 .. N |-> f[k]]>>]
      <4>1. \A k \in i + 1 .. N : f[k] \in V
        <5>1. \A k \in i + 1 .. N : k \in 1 .. N  BY <1>1
        <5> HIDE DEF V, N
        <5> QED  BY <5>1
      <4> HIDE DEF V, N
      <4> QED  BY <2>1, <4>1 DEF CountsDown
    <3> HIDE DEF Value, V, N
    <3> QED  BY <1>2, <1>4, <3>1, <3>2
  <2>3. Equal(f)
    <3> HIDE DEF Value, V, N
    <3> QED  BY <2>2
  <2> QED  BY <2>3
<1> HIDE DEF from
<1>6. from[1] \in V
  <2>1. ASSUME NEW i \in 1 .. N, \A k \in i + 1 .. N : from[k] \in V
        PROVE  from[i] = step[<<i, [k \in i + 1 .. N |-> from[k]]>>]
    <3>1. [k \in i + 1 .. N |-> from[k]] \in [i + 1 .. N -> V]
      <4> HIDE DEF V, N
      <4> QED  BY <2>1
    <3>2. from[i] = Value(i, from)  BY <1>5
    <3> HIDE DEF Value, V, N
    <3> QED  BY <1>2, <1>4, <3>1, <3>2
  <2>2. CountsDown(from, V, N, step)
    <3> HIDE DEF V, N
    <3> QED  BY <2>1 DEF CountsDown
  <2>3. 1 \in 1 .. N  BY <1>1
  <2> HIDE DEF V, N
  <2> QED  BY <1>1, <1>3, <2>2, <2>3, RecursionDown
<1>7. Utf8ToWide(bytes) = from[1]
  BY DEF Utf8ToWide, from
<1>8. Decodes(from, bytes)
  <2>1. \A i \in 1 .. N : from[i] = Value(i, from)  BY <1>5
  <2> QED  BY <2>1 DEF Decodes
<1> QED  BY <1>6, <1>7, <1>8, ListedIs

\* Both conversions make sequences.
LEMMA WideListed ==
    ASSUME NEW bytes, Listed(bytes)
    PROVE  Listed(Utf8ToWide(bytes))
BY WideBySteps

\* A sweep, from any place on.
Sweeps(from, w, p) ==
    \A i \in 1 .. Len(w) + 2 :
        from[i] = IF i > Len(w) THEN << >>
                  ELSE IF i < Len(w) /\ <<w[i], w[i + 1]>> = p THEN <<p[1] \o p[2]>> \o from[i + 2]
                  ELSE <<w[i]>> \o from[i + 1]

\* A sweep does what its equations say.
LEMMA MergedBySteps ==
    ASSUME NEW w, NEW p, NEW S, w \in Seq(S), p[1] \o p[2] \in S
    PROVE  \E from \in [1 .. Len(w) + 2 -> Seq(S)] : Sweeps(from, w, p) /\ Merged(w, p) = from[1]
<1> DEFINE N == Len(w) + 2
           both == p[1] \o p[2]
           V == Seq(S)
           here(i) == i < Len(w) /\ <<w[i], w[i + 1]>> = p
           Value(i, g) == IF i > Len(w) THEN << >>
                          ELSE IF here(i) THEN <<both>> \o g[i + 2] ELSE <<w[i]>> \o g[i + 1]
           step == [q \in (1 .. N) \X UNION {[j .. N -> V] : j \in 1 .. N + 1} |-> Value(q[1], q[2])]
           Equal(f) == f = [i \in 1 .. N |-> Value(i, f)]
           from == CHOOSE f : Equal(f)
<1>1. Len(w) \in Nat /\ N \in Nat  BY LenProperties
<1>2. ASSUME NEW i \in 1 .. N, NEW g \in [i + 1 .. N -> V]
      PROVE  step[<<i, g>>] = Value(i, g) /\ Value(i, g) \in V
  <2>1. i + 1 \in 1 .. N + 1  BY <1>1
  <2>2. step[<<i, g>>] = Value(i, g)  BY <2>1
  <2>3. CASE i > Len(w)
    <3>1. Value(i, g) = << >>  BY <2>3
    <3> HIDE DEF Value
    <3> QED  BY <2>2, <3>1, EmptySeq
  <2>4. CASE ~(i > Len(w))
    <3>1. i \in 1 .. Len(w) /\ i + 1 \in i + 1 .. N /\ i + 2 \in i + 1 .. N  BY <1>1, <2>4
    <3>2. w[i] \in S /\ both \in S  BY <3>1, ElementOfSeq
    <3>3. g[i + 1] \in V /\ g[i + 2] \in V  BY <3>1
    <3> HIDE DEF both, here
    <3>4. <<w[i]>> \in Seq(S) /\ <<both>> \in Seq(S)  BY <3>2
    <3>5. <<w[i]>> \o g[i + 1] \in V  BY <3>3, <3>4, ConcatProperties
    <3>6. <<both>> \o g[i + 2] \in V  BY <3>3, <3>4, ConcatProperties
    <3> QED  BY <2>2, <2>4, <3>5, <3>6
  <2> HIDE DEF Value, V
  <2> QED  BY <2>3, <2>4
<1> HIDE DEF step
<1>3. StaysIn(V, N, step)
  <2> HIDE DEF Value, V, N
  <2> QED  BY <1>2 DEF StaysIn
<1>4. ASSUME NEW f, NEW i \in 1 .. N
      PROVE  Value(i, [k \in i + 1 .. N |-> f[k]]) = Value(i, f)
  <2>1. CASE i > Len(w)  BY <2>1
  <2>2. CASE ~(i > Len(w))
    <3>1. i + 1 \in i + 1 .. N /\ i + 2 \in i + 1 .. N  BY <1>1, <2>2
    <3> HIDE DEF here, both
    <3> QED  BY <2>2, <3>1
  <2> QED  BY <2>1, <2>2
<1>5. Equal(from)
  <2>1. PICK f \in [1 .. N -> V] : CountsDown(f, V, N, step)
    <3> HIDE DEF V, N
    <3> QED  BY <1>1, <1>3, RecursionDown
  <2>2. ASSUME NEW i \in 1 .. N PROVE f[i] = Value(i, f)
    <3>1. [k \in i + 1 .. N |-> f[k]] \in [i + 1 .. N -> V]
      <4>1. \A k \in i + 1 .. N : k \in 1 .. N  BY <1>1
      <4> HIDE DEF V, N
      <4> QED  BY <4>1
    <3>2. f[i] = step[<<i, [k \in i + 1 .. N |-> f[k]]>>]
      <4>1. \A k \in i + 1 .. N : f[k] \in V
        <5>1. \A k \in i + 1 .. N : k \in 1 .. N  BY <1>1
        <5> HIDE DEF V, N
        <5> QED  BY <5>1
      <4> HIDE DEF V, N
      <4> QED  BY <2>1, <4>1 DEF CountsDown
    <3> HIDE DEF Value, V, N
    <3> QED  BY <1>2, <1>4, <3>1, <3>2
  <2>3. Equal(f)
    <3> HIDE DEF Value, V, N
    <3> QED  BY <2>2
  <2> QED  BY <2>3
<1> HIDE DEF from
<1>6. \A i \in 1 .. N : from[i] \in V
  <2>1. ASSUME NEW i \in 1 .. N, \A k \in i + 1 .. N : from[k] \in V
        PROVE  from[i] = step[<<i, [k \in i + 1 .. N |-> from[k]]>>]
    <3>1. [k \in i + 1 .. N |-> from[k]] \in [i + 1 .. N -> V]
      <4> HIDE DEF V, N
      <4> QED  BY <2>1
    <3>2. from[i] = Value(i, from)  BY <1>5
    <3> HIDE DEF Value, V, N
    <3> QED  BY <1>2, <1>4, <3>1, <3>2
  <2>2. CountsDown(from, V, N, step)
    <3> HIDE DEF V, N
    <3> QED  BY <2>1 DEF CountsDown
  <2> HIDE DEF V, N
  <2> QED  BY <1>1, <1>3, <2>2, RecursionDown
<1>7. Merged(w, p) = from[1]
  BY DEF Merged, from
<1>8. Sweeps(from, w, p)  BY <1>5 DEF Sweeps
<1>9. from \in [1 .. N -> V]
  <2>1. from = [i \in 1 .. N |-> from[i]]  BY <1>5
  <2> HIDE DEF V, N
  <2> QED  BY <1>6, <2>1
<1> QED  BY <1>7, <1>8, <1>9

\* What a sweep of merges makes is a sequence.
LEMMA MergedListed ==
    ASSUME NEW w, NEW p, Listed(w)
    PROVE  Listed(Merged(w, p))
<1> DEFINE S == {w[i] : i \in 1 .. Len(w)} \cup {p[1] \o p[2]}
<1>1. w \in Seq(S) /\ Len(w) \in Nat /\ p[1] \o p[2] \in S  BY SeqMonotonic DEF Listed
<1> HIDE DEF S
<1>2. PICK from \in [1 .. Len(w) + 2 -> Seq(S)] : Merged(w, p) = from[1]
  BY <1>1, MergedBySteps
<1>3. Merged(w, p) \in Seq(S)  BY <1>1, <1>2
<1> QED  BY <1>3, ListedIs

\* The bytes of a text, as visible characters.
LEMMA BytesListed ==
    ASSUME NEW wide, Listed(wide)
    PROVE  Listed(WideToUtf8(wide))
<1> DEFINE n == Len(wide)
           of == [i \in DOMAIN wide |-> BytesOf(wide[i])]
           S == {BytesOf(wide[i])[j] : i \in 1 .. n, j \in 1 .. 4}
<1>1. DOMAIN wide = 1 .. n /\ n \in Nat  BY MapListed
<1>2. ASSUME NEW i \in 1 .. n PROVE BytesOf(wide[i]) \in Seq(S)
  <2> DEFINE b == BytesOf(wide[i])
  <2>1. PICK m \in 0 .. 4 : b \in [1 .. m -> {b[j] : j \in 1 .. m}]
    <3>1. \E c, d, e, f : b \in {<< >>, <<c>>, <<c, d>>, <<c, d, e>>, <<c, d, e, f>>}
      <4>1. CASE wide[i] < 128  BY <4>1 DEF BytesOf
      <4>2. CASE ~(wide[i] < 128) /\ wide[i] < 2048  BY <4>2 DEF BytesOf
      <4>3. CASE ~(wide[i] < 128) /\ ~(wide[i] < 2048) /\ wide[i] < 65536  BY <4>3 DEF BytesOf
      <4>4. CASE ~(wide[i] < 128) /\ ~(wide[i] < 2048) /\ ~(wide[i] < 65536) /\ wide[i] \in CodePoints
        BY <4>4 DEF BytesOf
      <4>5. CASE ~(wide[i] < 128) /\ ~(wide[i] < 2048) /\ ~(wide[i] < 65536) /\ wide[i] \notin CodePoints
        BY <4>5 DEF BytesOf
      <4> QED  BY <4>1, <4>2, <4>3, <4>4, <4>5
    <3> HIDE DEF b
    <3>2. PICK c, d, e, f : b \in {<< >>, <<c>>, <<c, d>>, <<c, d, e>>, <<c, d, e, f>>}
      BY <3>1
    <3>3. CASE b = << >>
      <4>1. b \in [1 .. 0 -> {b[j] : j \in 1 .. 0}]  BY <3>3
      <4> QED  BY <4>1
    <3>4. CASE b = <<c>>
      <4>1. b \in [1 .. 1 -> {b[j] : j \in 1 .. 1}]  BY <3>4
      <4> QED  BY <4>1
    <3>5. CASE b = <<c, d>>
      <4>1. b \in [1 .. 2 -> {b[j] : j \in 1 .. 2}]  BY <3>5
      <4> QED  BY <4>1
    <3>6. CASE b = <<c, d, e>>
      <4>1. b \in [1 .. 3 -> {b[j] : j \in 1 .. 3}]  BY <3>6
      <4> QED  BY <4>1
    <3>7. CASE b = <<c, d, e, f>>
      <4>1. b \in [1 .. 4 -> {b[j] : j \in 1 .. 4}]  BY <3>7
      <4> QED  BY <4>1
    <3> QED  BY <3>2, <3>3, <3>4, <3>5, <3>6, <3>7
  <2>2. {b[j] : j \in 1 .. m} \subseteq S  OBVIOUS
  <2> HIDE DEF b, S
  <2>3. b \in [1 .. m -> S]  BY <2>1, <2>2
  <2> QED  BY <2>3, SeqDef DEF b
<1> HIDE DEF S
<1>3. of \in [1 .. n -> Seq(S)]  BY <1>1, <1>2
<1> HIDE DEF n
<1>4. of \in Seq(Seq(S))  BY <1>1, <1>3, SeqDef
<1> HIDE DEF of
<1>5. FlattenSeq(of) \in Seq(S)  BY <1>4, FlattenListed
<1> QED  BY <1>5, ListedIs DEF WideToUtf8, of

LEMMA PartListed ==
    ASSUME NEW wide, Listed(wide)
    PROVE  Listed(Characters(Visibly(wide)))
<1> DEFINE bytes == WideToUtf8(wide)
           n == Len(bytes)
           v == Visibly(wide)
           c == Characters(v)
<1>1. DOMAIN bytes = 1 .. n /\ n \in Nat
  <2> HIDE DEF bytes
  <2> QED  BY BytesListed, MapListed DEF bytes
<1>2. v = [i \in 1 .. n |-> BytesToUnicode[bytes[i]]]  BY <1>1 DEF Visibly
<1> HIDE DEF v, n
<1>3. DOMAIN v = 1 .. n  BY <1>2
<1>4. c = [i \in 1 .. n |-> <<v[i]>>]  BY <1>3 DEF Characters
<1> HIDE DEF c
<1>5. c \in [1 .. n -> {<<v[i]>> : i \in 1 .. n}]  BY <1>4
<1>6. Listed(c)  BY <1>1, <1>5, FunctionListed
<1> QED  BY <1>6 DEF c, v
-----------------------------------------------------------------------------
\* The pattern never looks past the end of a piece.
LEMMA RunEnds ==
    ASSUME NEW str, Len(str) \in Nat, NEW i \in 0 .. Len(str), NEW class
    PROVE  RunEnd(str, i, class) \in i .. Len(str) /\ RunEndOutside(str, i, class) \in i .. Len(str)
<1> DEFINE T == {j \in i .. Len(str) : ~At(str, j, class)}
           U == {j \in i .. Len(str) : ~Not(str, j, class)}
<1>1. Len(str) \in i .. Len(str) /\ i .. Len(str) \subseteq Nat  OBVIOUS
<1>2. T \in SUBSET Nat /\ Len(str) \in T /\ T \subseteq i .. Len(str)  BY <1>1 DEF At
<1>3. U \in SUBSET Nat /\ Len(str) \in U /\ U \subseteq i .. Len(str)  BY <1>1 DEF Not
<1> HIDE DEF T, U
<1>4. Min(T) \in i .. Len(str) /\ Min(U) \in i .. Len(str)
  <2>1. Min(T) \in T /\ Min(U) \in U  BY <1>2, <1>3, MinIs
  <2> QED  BY <1>2, <1>3, <2>1
<1> QED  BY <1>4 DEF RunEnd, RunEndOutside, T, U

LEMMA MatchEnds ==
    ASSUME NEW str, Len(str) \in Nat, NEW i \in Nat, i < Len(str)
    PROVE  MatchEnd(str, i) \in i .. Len(str)
<1> DEFINE E == i .. Len(str)
<1>1. i \in 0 .. Len(str) /\ i + 1 \in 0 .. Len(str) /\ i \in E /\ i + 1 \in E  OBVIOUS
<1>2. Contraction(str, i) \in E
  <2> DEFINE here == {c \in Contractions : /\ i + Len(c) <= Len(str)
                                           /\ SubSeq(str, i + 1, i + Len(c)) = c}
             T == {0} \cup {Len(c) : c \in here}
  <2>1. PICK n \in Nat : n = Len(str) - i  OBVIOUS
  <2>2. \A c \in here : Len(c) \in 0 .. n
    <3>1. \A c \in here : Len(c) \in Nat /\ i + Len(c) <= Len(str)
      BY ClassesAssumption, LenProperties
    <3> QED  BY <2>1, <3>1
  <2>3. T \in SUBSET (0 .. n) /\ T # {}
    <3> HIDE DEF here
    <3> QED  BY <2>1, <2>2
  <2>4. Contraction(str, i) = i + Max(T)  BY DEF Contraction
  <2> HIDE DEF T
  <2>5. Max(T) \in 0 .. n  BY <2>1, <2>3, MaxIs
  <2> QED  BY <2>1, <2>4, <2>5
<1>3. Word(str, i) \in E  BY <1>1, RunEnds DEF Word
<1>4. Digit(str, i) \in E  BY <1>1 DEF Digit
<1>5. Symbols(str, i) \in E
  <2>1. \A first \in {i, i + 1} :
            RunEndOutside(str, first, Wordlike \cup Spaces) \in first .. Len(str)
    BY <1>1, RunEnds
  <2>2. \A last \in E : RunEnd(str, last, Newlines) \in E
    <3> TAKE last \in E
    <3>1. last \in 0 .. Len(str)  OBVIOUS
    <3>2. RunEnd(str, last, Newlines) \in last .. Len(str)  BY <3>1, RunEnds
    <3> QED  BY <3>1, <3>2
  <2>3. PICK first \in {i, i + 1} : first = IF At(str, i, {Blank}) THEN i + 1 ELSE i
    OBVIOUS
  <2>4. PICK last \in first .. Len(str) :
            last = RunEndOutside(str, first, Wordlike \cup Spaces)
    BY <2>1
  <2>5. Symbols(str, i) = IF last > first THEN RunEnd(str, last, Newlines) ELSE i
    BY <2>3, <2>4 DEF Symbols
  <2>6. last \in E  OBVIOUS
  <2> QED  BY <1>1, <2>2, <2>5, <2>6
<1>6. Space(str, i) \in E  BY <1>1, RunEnds DEF Space
<1>7. Break(str, i) \in E /\ Trailing(str, i) \in E
  <2>1. RunEnd(str, i, Spaces) \in E  BY <1>1, RunEnds
  <2>2. PICK last \in E : last = RunEnd(str, i, Spaces)  BY <2>1
  <2>3. last \in 0 .. Len(str)  OBVIOUS
  <2>4. RunEnd(str, last, Newlines) \in last .. Len(str)  BY <2>3, RunEnds
  <2> QED  BY <1>1, <2>2, <2>3, <2>4 DEF Break, Trailing
<1> DEFINE ends == << Contraction(str, i), Word(str, i), Digit(str, i), Symbols(str, i),
                      Break(str, i), Trailing(str, i), Space(str, i) >>
<1>8. ends \in [1 .. 7 -> E]
  <2> HIDE DEF E
  <2> QED  BY <1>2, <1>3, <1>4, <1>5, <1>6, <1>7
<1> HIDE DEF ends
<1>9. FirstMatch(i, ends) \in E
  <2> DEFINE T == {k \in DOMAIN ends : ends[k] > i}
  <2>1. T \in SUBSET Nat /\ T \subseteq 1 .. 7  BY <1>8
  <2>2. CASE T = {}  BY <1>1, <2>2 DEF FirstMatch
  <2>3. CASE T # {}
    <3>1. FirstMatch(i, ends) = ends[Min(T)]  BY <2>3 DEF FirstMatch
    <3> HIDE DEF T
    <3>2. Min(T) \in 1 .. 7  BY <2>1, <2>3, MinIs
    <3> QED  BY <1>8, <3>1, <3>2
  <2> QED  BY <2>2, <2>3
<1> QED  BY <1>9 DEF MatchEnd, ends

LEMMA IdsInTable ==
    ASSUME NEW token
    PROVE  IdForToken(token) \in 0 .. Len(Vocabulary) - 1
<1> DEFINE I == {i \in 1 .. Len(Vocabulary) : Vocabulary[i] = token}
<1>1. Len(Vocabulary) \in Nat \ {0} /\ DOMAIN Vocabulary = 1 .. Len(Vocabulary)
  BY VocabularyAssumption, EmptySeq, LenProperties
<1>2. CASE token \in Range(Vocabulary)
  <2>1. I # {} /\ I \in SUBSET Nat /\ I \subseteq 1 .. Len(Vocabulary)  BY <1>1, <1>2 DEF Range
  <2>2. SelectInSeq(Vocabulary, LAMBDA t : t = token) = Min(I)
    BY <2>1 DEF SelectInSeq
  <2> HIDE DEF I
  <2>3. Min(I) \in 1 .. Len(Vocabulary)  BY <2>1, MinIs
  <2> QED  BY <1>1, <1>2, <2>2, <2>3 DEF IdForToken
<1>3. CASE token \notin Range(Vocabulary)
  BY <1>1, <1>3 DEF IdForToken
<1> QED  BY <1>2, <1>3

\* The n places where the text is cut, in their order.
CutsAre(n) ==
    /\ \A k \in 1 .. n : CutPlace(k) \in 0 .. Len(text)
    /\ CutPlace(1) = 0 /\ CutPlace(n) = Len(text)
    /\ \A k \in 1 .. n - 1 : CutPlace(k) <= CutPlace(k + 1)

\* The whole text read, the places of the cuts ascend from its start to its end.
LEMMA CutsInOrder ==
    ASSUME ScanInv, current = Len(text)
    PROVE  \E n \in Nat \ {0} : n = Cardinality(FinalOffsets) /\ CutsAre(n)
<1> DEFINE S == FinalOffsets
           n == Cardinality(S)
           before == {p \in S \X S : p[1] < p[2]}
           below(a) == {b \in S : b < a}
<1>1. text \in Seq(Int) /\ current \in Nat /\ Len(text) \in Nat  BY ScanTypes
<1>2. S \subseteq 0 .. Len(text) /\ IsFiniteSet(S) /\ Len(text) \in S /\ 0 \in S
  <2>1. ScanTypeOK  BY ScanTyped
  <2>2. Cuts \subseteq 0 .. Len(text)
    <3>1. Ended \subseteq 0 .. Len(text) /\ current \in 0 .. Len(text)
      <4>1. states \subseteq 0 .. current - 1  BY <2>1 DEF ScanTypeOK
      <4>2. Ended \subseteq states  BY DEF Ended
      <4> HIDE DEF S, before, below
      <4> QED  BY <1>1, <4>1, <4>2
    <3> QED  BY <3>1 DEF Cuts
  <2>3. S \subseteq 0 .. Len(text) /\ Len(text) \in S
    BY <1>1, <2>1, <2>2 DEF FinalOffsets, ScanTypeOK
  <2>4. IsFiniteSet(0 .. Len(text))  BY <1>1, FS_Interval
  <2>5. 0 \in S  BY DEF ScanInv, CutBy, FinalOffsets
  <2> HIDE DEF S
  <2> QED  BY <2>3, <2>4, <2>5, FS_Subset
<1> HIDE DEF S
<1>3. \A a, b \in S : <<a, b>> \in before <=> a < b  OBVIOUS
<1>4. \A a \in S : a \in Int /\ 0 <= a /\ a <= Len(text)  BY <1>1, <1>2
<1> HIDE DEF before
<1>5. n \in Nat /\ \A k \in 0 .. n - 1 :
                     \E a \in S : Cardinality(Below(S, before, a)) = k
  <2>1. /\ \A a \in S : <<a, a>> \notin before
        /\ \A a, b \in S : a = b \/ <<a, b>> \in before \/ <<b, a>> \in before
        /\ \A a, b, c \in S : <<a, b>> \in before /\ <<b, c>> \in before => <<a, c>> \in before
    BY <1>3, <1>4
  <2> QED  BY <1>2, <2>1, Ranking
<1>6. ASSUME NEW k \in 1 .. n
      PROVE  CutPlace(k) \in S /\ Cardinality(below(CutPlace(k))) = k - 1
  <2>1. PICK a \in S : Cardinality(Below(S, before, a)) = k - 1
    <3>1. k - 1 \in 0 .. n - 1  BY <1>5
    <3> HIDE DEF n
    <3> QED  BY <1>5, <3>1
  <2>2. Below(S, before, a) = {b \in S : b < a}  BY <1>3 DEF Below
  <2>3. \E o \in S : Cardinality({b \in S : b < o}) = k - 1  BY <2>1, <2>2
  <2> QED  BY <2>3 DEF CutPlace, S
<1>7. n # 0  BY <1>2, FS_EmptySet
<1> HIDE DEF n
<1>8. \A k \in 1 .. n : CutPlace(k) \in S /\ CutPlace(k) \in 0 .. Len(text)  BY <1>2, <1>6
<1>9. ASSUME NEW a \in S
      PROVE  /\ IsFiniteSet(below(a)) /\ Cardinality(below(a)) \in Nat
             /\ below(a) \in SUBSET (S \ {a}) /\ IsFiniteSet(S \ {a}) /\ Cardinality(S \ {a}) = n - 1
  <2>1. below(a) \in SUBSET (S \ {a}) /\ S \ {a} \in SUBSET S  BY <1>4
  <2>2. IsFiniteSet(S \ {a}) /\ IsFiniteSet(below(a))
    <3>1. IsFiniteSet(S \ {a})  BY <1>2, <2>1, FS_Subset
    <3> HIDE DEF below
    <3> QED  BY <2>1, <3>1, FS_Subset
  <2>3. Cardinality(S \ {a}) = n - 1  BY <1>2, FS_RemoveElement DEF n
  <2>4. Cardinality(below(a)) \in Nat  BY <2>2, FS_CardinalityType
  <2> QED  BY <2>1, <2>2, <2>3, <2>4
<1>10. CutPlace(1) = 0
  <2>1. 1 \in 1 .. n  BY <1>5, <1>7
  <2>2. PICK a \in S : a = CutPlace(1) /\ Cardinality(below(a)) = 0  BY <1>6, <2>1
  <2>3. below(a) = {}  BY <1>9, <2>2, FS_EmptySet
  <2>4. ~(0 < a)  BY <1>2, <2>3
  <2> QED  BY <1>4, <2>2, <2>4
<1>11. CutPlace(n) = Len(text)
  <2>1. n \in 1 .. n  BY <1>5, <1>7
  <2>2. PICK a \in S : a = CutPlace(n) /\ Cardinality(below(a)) = n - 1  BY <1>6, <2>1
  <2>3. below(a) = S \ {a}
    <3> DEFINE T == S \ {a}
               U == below(a)
    <3>1. IsFiniteSet(T) /\ U \in SUBSET T /\ Cardinality(T) = Cardinality(U)  BY <1>9, <2>2
    <3> HIDE DEF T, U
    <3>2. T = U  BY <3>1, FS_Subset
    <3> QED  BY <3>2 DEF T, U
  <2>4. Len(text) # a => Len(text) < a  BY <1>2, <2>3
  <2> QED  BY <1>1, <1>4, <2>2, <2>4
<1>12. ASSUME NEW k \in 1 .. n - 1 PROVE CutPlace(k) <= CutPlace(k + 1)
  <2>1. PICK l \in 1 .. n : l = k + 1  BY <1>5
  <2>2. k \in 1 .. n  BY <1>5
  <2>3. PICK a \in S, b \in S : /\ a = CutPlace(k) /\ Cardinality(below(a)) = k - 1
                                /\ b = CutPlace(l) /\ Cardinality(below(b)) = l - 1
    BY <1>6, <2>1, <2>2
  <2>4. ASSUME b < a PROVE FALSE
    <3>0. \A c \in S : c < b => c < a
      <4>1. \A c \in S : c \in Int /\ a \in Int /\ b \in Int  BY <1>4
      <4> QED  BY <2>4, <4>1
    <3>1. below(b) \in SUBSET below(a) /\ IsFiniteSet(below(a))  BY <1>9, <3>0
    <3> HIDE DEF below
    <3>2. Cardinality(below(b)) <= Cardinality(below(a))  BY <3>1, FS_Subset
    <3>3. l - 1 <= k - 1  BY <2>3, <3>2
    <3> QED  BY <2>1, <3>3
  <2>5. a <= b
    <3>1. a \in Int /\ b \in Int  BY <1>4
    <3> QED  BY <2>4, <3>1
  <2> QED  BY <2>1, <2>3, <2>5
<1>13. n = Cardinality(FinalOffsets)  BY DEF n, S
<1>14. CutsAre(n)  BY <1>8, <1>10, <1>11, <1>12 DEF CutsAre
<1> QED  BY <1>5, <1>7, <1>13, <1>14

\* Between neighbouring cuts there is a piece of the text.
LEMMA PiecesAre ==
    ASSUME ScanInv, current = Len(text)
    PROVE  [k \in 1 .. Cardinality(FinalOffsets) - 1 |-> Piece(CutPlace(k), CutPlace(k + 1))]
                \in Seq(Seq(Int))
<1>1. text \in Seq(Int) /\ Len(text) \in Nat  BY ScanTypes
<1>2. PICK n \in Nat \ {0} : n = Cardinality(FinalOffsets) /\ CutsAre(n)  BY CutsInOrder
<1>3. ASSUME NEW a \in 0 .. Len(text), NEW b \in 0 .. Len(text)
      PROVE  Piece(a, b) \in Seq(Int)
  <2>1. \A i \in a + 1 .. b : text[i] \in Int
    <3>1. \A i \in a + 1 .. b : i \in 1 .. Len(text)  BY <1>1
    <3> QED  BY <1>1, <3>1, ElementOfSeq
  <2>2. a + 1 \in Int /\ b \in Int  OBVIOUS
  <2> QED  BY <2>1, <2>2, SubSeqProperties DEF Piece
<1> DEFINE f == [k \in 1 .. n - 1 |-> Piece(CutPlace(k), CutPlace(k + 1))]
<1>4. \A k \in 1 .. n - 1 : Piece(CutPlace(k), CutPlace(k + 1)) \in Seq(Int)
  <2> TAKE k \in 1 .. n - 1
  <2>1. k \in 1 .. n /\ k + 1 \in 1 .. n  OBVIOUS
  <2>2. CutPlace(k) \in 0 .. Len(text) /\ CutPlace(k + 1) \in 0 .. Len(text)
    BY <1>2, <2>1 DEF CutsAre
  <2> QED  BY <1>3, <2>2
<1>5. f \in [1 .. n - 1 -> Seq(Int)]  BY <1>4
<1>6. n - 1 \in Nat  OBVIOUS
<1> HIDE DEF f
<1>7. f \in Seq(Seq(Int))  BY <1>5, <1>6, FunctionListed
<1> QED  BY <1>2, <1>7 DEF f
-----------------------------------------------------------------------------
TypeInv ==
    /\ ScanInv
    /\ pc \in {"scan", "piece", "match", "merge", "decode"}
    /\ pieces \in Seq(Seq(Int))
    /\ Listed(piece) /\ pos \in 0 .. Len(piece)
    /\ Listed(word) /\ Listed(all)
    /\ ids \in Seq(0 .. Len(Vocabulary) - 1) /\ shown \in 0 .. Len(ids)
    /\ pc # "decode" => shown = 0

LEMMA TypesStart == Init => TypeInv
<1> SUFFICES ASSUME Init PROVE TypeInv
  OBVIOUS
<1>1. Listed(<< >>)  BY EmptySeq, ListedIs
<1> QED  BY <1>1, ScanStarts, EmptySeq DEF Init, TypeInv

LEMMA TypesKept == TypeInv /\ [Next]_vars => TypeInv'
<1> SUFFICES ASSUME TypeInv, [Next]_vars PROVE TypeInv'
  OBVIOUS
<1> USE DEF TypeInv, match, answer
<1>1. ScanInv'  BY ScanKept
<1>2. CASE Scan  BY <1>1, <1>2 DEF Scan
<1>3. CASE ScanEnd
  <2>1. pieces' \in Seq(Seq(Int))  BY <1>3, PiecesAre DEF ScanEnd
  <2> QED  BY <1>1, <1>3, <2>1 DEF ScanEnd
<1>4. CASE TakeSpecial
  <2>1. Listed(all') /\ pieces' \in Seq(Seq(Int))
    BY <1>4, AppendListed, HeadTailProperties DEF TakeSpecial
  <2> QED  BY <1>1, <1>4, <2>1 DEF TakeSpecial
<1>5. CASE TakeText
  <2>1. pieces # << >> /\ Head(pieces) \in Seq(Int) /\ pieces' \in Seq(Seq(Int))
    BY <1>5, HeadTailProperties DEF TakeText
  <2>2. Listed(Head(pieces))  BY <2>1, ListedIs
  <2>3. Listed(piece')  BY <1>5, <2>2, BytesListed, WideListed DEF TakeText
  <2>4. pos' \in 0 .. Len(piece')  BY <1>5, <2>3 DEF TakeText, Listed
  <2> QED  BY <1>1, <1>5, <2>1, <2>3, <2>4 DEF TakeText
<1>6. CASE MatchPattern
  <2>1. Len(piece) \in Nat /\ pos \in Nat /\ pos < Len(piece)
    BY <1>6 DEF MatchPattern, Listed
  <2>2. PICK end \in pos .. Len(piece) : end = MatchEnd(piece, pos)  BY <2>1, MatchEnds
  <2>3. Listed(SubSeq(piece, pos + 1, end))  BY <2>1, <2>2, CutListed
  <2>4. Listed(word')  BY <1>6, <2>2, <2>3, PartListed DEF MatchPattern
  <2>5. pos' \in 0 .. Len(piece)
    <3> DEFINE T == {end, pos + 1}
    <3>1. T \in SUBSET (0 .. Len(piece)) /\ T # {}  BY <2>1, <2>2
    <3>2. pos' = Max(T)  BY <1>6, <2>2 DEF MatchPattern
    <3> HIDE DEF T
    <3>3. Max(T) \in T  BY <2>1, <3>1, MaxIs
    <3> QED  BY <3>1, <3>2, <3>3
  <2> QED  BY <1>1, <1>6, <2>4, <2>5 DEF MatchPattern
<1>7. CASE PieceEnd  BY <1>1, <1>7 DEF PieceEnd
<1>8. CASE Merge
  <2>1. Listed(word')  BY <1>8, MergedListed DEF Merge
  <2> QED  BY <1>1, <1>8, <2>1 DEF Merge
<1>9. CASE MergeEnd
  <2>1. Listed(all') /\ Listed(word')
    <3>1. Listed(<< >>)  BY EmptySeq, ListedIs
    <3> QED  BY <1>9, <3>1, ConcatListed DEF MergeEnd
  <2> QED  BY <1>1, <1>9, <2>1 DEF MergeEnd
<1>10. CASE Encoded
  <2>1. DOMAIN all = 1 .. Len(all) /\ Len(all) \in Nat  BY MapListed
  <2>2. ids' \in [1 .. Len(all) -> 0 .. Len(Vocabulary) - 1]
    BY <1>10, <2>1, IdsInTable DEF Encoded
  <2>3. ids' \in Seq(0 .. Len(Vocabulary) - 1) /\ Len(ids') \in Nat
    BY <2>1, <2>2, FunctionListed DEF Listed
  <2> QED  BY <1>1, <1>10, <2>3 DEF Encoded
<1>11. CASE DecodeToken
  <2>1. Len(ids) \in Nat  BY LenProperties
  <2> QED  BY <1>1, <1>11, <2>1 DEF DecodeToken
<1>12. CASE UNCHANGED vars  BY <1>1, <1>12 DEF vars
<1>13. CASE Terminating  BY <1>12, <1>13 DEF Terminating
<1> QED
  BY <1>2, <1>3, <1>4, <1>5, <1>6, <1>7, <1>8, <1>9, <1>10, <1>11, <1>12, <1>13 DEF Next

(***************************************************************************)
(* For every text, even one with characters that are none, every pattern   *)
(* and every table: the pattern stays inside its piece, ids are of the     *)
(* table, and no more of them are decoded than there are.                  *)
(***************************************************************************)
THEOREM TokenizerTyped == Spec => []TypeOK
<1>1. TypeInv => TypeOK
  <2> SUFFICES ASSUME TypeInv PROVE TypeOK
    OBVIOUS
  <2>1. \A i \in DOMAIN ids : ids[i] \in 0 .. Len(Vocabulary) - 1
    BY LenProperties, ElementOfSeq DEF TypeInv
  <2> QED  BY <2>1, ScanTyped DEF TypeInv, TypeOK
<1> QED  BY <1>1, TypesStart, TypesKept, PTL DEF Spec

-----------------------------------------------------------------------------
(***************************************************************************)
(* Merging.  A sweep merges all occurrences of the best pair at once, the  *)
(* reference one after the other.  What makes them agree is that whatever  *)
(* pair a merged symbol belongs to comes later in the table: until the     *)
(* sweep is over the pair it began with stays the best, and the occurrence *)
(* it meets next is the leftmost one left.                                 *)
(***************************************************************************)

\* The last of the sequences comes last.
LEMMA FlattenAppend ==
    ASSUME NEW S, NEW seqs \in Seq(Seq(S)), NEW x \in Seq(S)
    PROVE  /\ FlattenSeq(Append(seqs, x)) = FlattenSeq(seqs) \o x
           /\ FlattenSeq(seqs) \in Seq(S)
<1> DEFINE N == Len(seqs)
           t == Append(seqs, x)
<1>1. N \in Nat /\ t \in Seq(Seq(S)) /\ Len(t) = N + 1 /\ t[N + 1] = x
      /\ \A i \in 1 .. N : t[i] = seqs[i]
  BY LenProperties, AppendProperties
<1> HIDE DEF N, t
<1>2. PICK f \in [0 .. N -> Seq(S)] : Flattens(f, seqs) /\ FlattenSeq(seqs) = f[N]
  BY FlattenBySteps DEF N
<1>3. PICK g \in [0 .. N + 1 -> Seq(S)] : Flattens(g, t) /\ FlattenSeq(t) = g[N + 1]
  BY <1>1, FlattenBySteps
<1> DEFINE P == {n \in Nat : n <= N => f[n] = g[n]}
<1>4. 0 \in P  BY <1>2, <1>3 DEF Flattens
<1>5. ASSUME NEW n \in Nat, n \in P PROVE n + 1 \in P
  <2> SUFFICES ASSUME n + 1 <= N PROVE f[n + 1] = g[n + 1]
    OBVIOUS
  <2>1. PICK m \in 1 .. N : m = n + 1 /\ m \in 1 .. N + 1  BY <1>1
  <2>2. f[m] = f[m - 1] \o seqs[m]  BY <1>2, <2>1 DEF Flattens, N
  <2>3. g[m] = g[m - 1] \o t[m]  BY <1>1, <1>3, <2>1 DEF Flattens
  <2>4. f[m - 1] = g[m - 1]  BY <1>1, <1>5, <2>1
  <2> QED  BY <1>1, <2>1, <2>2, <2>3, <2>4
<1>6. f[N] = g[N]
  <2> HIDE DEF P
  <2>1. Nat \subseteq P  BY <1>4, <1>5, Induct
  <2>2. N \in P  BY <1>1, <2>1
  <2> QED  BY <1>1, <2>2 DEF P
<1>7. g[N + 1] = g[N] \o x
  <2>1. N + 1 \in 1 .. N + 1 /\ (N + 1) - 1 = N  BY <1>1
  <2> QED  BY <1>1, <1>3, <2>1 DEF Flattens
<1>8. f[N] \in Seq(S)  BY <1>1, <1>2
<1> QED  BY <1>2, <1>3, <1>6, <1>7, <1>8 DEF t

\* Which two of three sequences are put together first does not matter.
Regroups(f, g, h) == (f \o g) \o h = f \o (g \o h)

LEMMA Regroup ==
    ASSUME NEW S, NEW f \in Seq(S), NEW g \in Seq(S), NEW h \in Seq(S)
    PROVE  Regroups(f, g, h)
BY ConcatAssociative DEF Regroups

\* Sequences in two parts are flattened part by part.
LEMMA FlattenConcat ==
    ASSUME NEW S, NEW s \in Seq(Seq(S)), NEW t \in Seq(Seq(S))
    PROVE  FlattenSeq(s \o t) = FlattenSeq(s) \o FlattenSeq(t)
<1> DEFINE P == {u \in Seq(Seq(S)) : FlattenSeq(s \o u) = FlattenSeq(s) \o FlattenSeq(u)}
<1>1. << >> \in P
  <2>1. << >> \in Seq(Seq(S)) /\ Len(<< >>) = 0 /\ s \o << >> = s  BY EmptySeq, ConcatEmptySeq
  <2>2. FlattenSeq(<< >>) = << >>  BY <2>1 DEF FlattenSeq
  <2>3. FlattenSeq(s) \in Seq(S)  BY FlattenListed
  <2> QED  BY <2>1, <2>2, <2>3, ConcatEmptySeq
<1>2. ASSUME NEW u \in Seq(Seq(S)), NEW e \in Seq(S), u \in P PROVE Append(u, e) \in P
  <2>1. s \o Append(u, e) = Append(s \o u, e)
    <3>1. Append(u, e) = u \o <<e>> /\ <<e>> \in Seq(Seq(S))  BY AppendIsConcat
    <3>2. s \o u \in Seq(Seq(S))  BY ConcatProperties
    <3>3. Append(s \o u, e) = (s \o u) \o <<e>>  BY <3>2, AppendIsConcat
    <3>4. Regroups(s, u, <<e>>)  BY <3>1, Regroup
    <3> QED  BY <3>1, <3>3, <3>4 DEF Regroups
  <2>2. s \o u \in Seq(Seq(S))  BY ConcatProperties
  <2>3. FlattenSeq(Append(s \o u, e)) = FlattenSeq(s \o u) \o e  BY <2>2, FlattenAppend
  <2>4. FlattenSeq(Append(u, e)) = FlattenSeq(u) \o e  BY FlattenAppend
  <2>5. FlattenSeq(s) \in Seq(S) /\ FlattenSeq(u) \in Seq(S)  BY FlattenListed
  <2>6. FlattenSeq(s \o u) = FlattenSeq(s) \o FlattenSeq(u)  BY <1>2
  <2>7. FlattenSeq(s \o Append(u, e)) = FlattenSeq(s) \o FlattenSeq(Append(u, e))
    <3>1. Regroups(FlattenSeq(s), FlattenSeq(u), e)  BY <2>5, Regroup
    <3> QED  BY <2>1, <2>3, <2>4, <2>6, <3>1 DEF Regroups
  <2>8. Append(u, e) \in Seq(Seq(S))  BY AppendProperties
  <2> QED  BY <2>7, <2>8
<1>3. Seq(Seq(S)) \subseteq P
  <2> HIDE DEF P
  <2> QED  BY <1>1, <1>2, SeqInduct
<1> QED  BY <1>3

\* None, one and two sequences.
LEMMA FlattenShort ==
    ASSUME NEW S, NEW a \in Seq(S), NEW b \in Seq(S)
    PROVE  FlattenSeq(<< >>) = << >> /\ FlattenSeq(<<a>>) = a /\ FlattenSeq(<<a, b>>) = a \o b
<1>1. << >> \in Seq(Seq(S)) /\ Len(<< >>) = 0  BY EmptySeq
<1>2. FlattenSeq(<< >>) = << >>  BY <1>1 DEF FlattenSeq
<1>3. <<a>> = Append(<< >>, a) /\ <<a, b>> = Append(<<a>>, b)  OBVIOUS
<1>4. <<a>> \in Seq(Seq(S))  OBVIOUS
<1>5. FlattenSeq(<<a>>) = << >> \o a  BY <1>1, <1>2, <1>3, FlattenAppend
<1>6. << >> \o a = a  BY ConcatEmptySeq
<1> QED  BY <1>2, <1>3, <1>4, <1>5, <1>6, FlattenAppend

\* Characters are symbols that spell the text they are of.
LEMMA FlattenCharacters ==
    ASSUME NEW S, NEW t \in Seq(S)
    PROVE  /\ Characters(t) \in Seq(Seq(S) \ {<< >>}) /\ Len(Characters(t)) = Len(t)
           /\ FlattenSeq(Characters(t)) = t
<1> DEFINE Is(u) == /\ Characters(u) \in Seq(Seq(S) \ {<< >>}) /\ Len(Characters(u)) = Len(u)
                    /\ \A i \in 1 .. Len(u) : Characters(u)[i] = <<u[i]>>
<1>1. ASSUME NEW u \in Seq(S) PROVE Is(u)
  <2>1. Len(u) \in Nat /\ DOMAIN u = 1 .. Len(u) /\ \A i \in 1 .. Len(u) : u[i] \in S
    BY LenProperties, ElementOfSeq
  <2>2. \A i \in 1 .. Len(u) : <<u[i]>> \in Seq(S) \ {<< >>}  BY <2>1
  <2>3. Characters(u) \in [1 .. Len(u) -> Seq(S) \ {<< >>}]  BY <2>1, <2>2 DEF Characters
  <2> QED  BY <2>1, <2>3, FunctionListed DEF Characters
<1> DEFINE P == {u \in Seq(S) : FlattenSeq(Characters(u)) = u}
<1>2. << >> \in P
  <2>1. << >> \in Seq(S) /\ Len(<< >>) = 0  BY EmptySeq
  <2>2. Characters(<< >>) = << >>  BY <1>1, <2>1, EmptySeq
  <2> QED  BY <2>1, <2>2 DEF FlattenSeq
<1>3. ASSUME NEW u \in Seq(S), NEW e \in S, u \in P PROVE Append(u, e) \in P
  <2> DEFINE w == Append(u, e)
  <2>1. w \in Seq(S) /\ Len(w) = Len(u) + 1 /\ w[Len(u) + 1] = e /\ Len(u) \in Nat
        /\ \A i \in 1 .. Len(u) : w[i] = u[i]
    BY AppendProperties, LenProperties
  <2> HIDE DEF w
  <2>2. Is(u) /\ Is(w)  BY <1>1, <2>1
  <2>3. Characters(u) \in Seq(Seq(S)) /\ Characters(w) \in Seq(Seq(S)) /\ <<e>> \in Seq(S)
    BY <2>2, SeqMonotonic
  <2>4. Characters(w) = Append(Characters(u), <<e>>)
    <3> DEFINE c == Characters(w)
               d == Append(Characters(u), <<e>>)
    <3>1. /\ d \in Seq(Seq(S)) /\ Len(d) = Len(u) + 1 /\ d[Len(u) + 1] = <<e>>
          /\ \A i \in 1 .. Len(u) : d[i] = <<u[i]>>
      BY <2>2, <2>3, AppendProperties
    <3>2. c \in Seq(Seq(S)) /\ Len(c) = Len(u) + 1 /\ \A i \in 1 .. Len(u) + 1 : c[i] = <<w[i]>>
      BY <2>1, <2>2, <2>3
    <3> HIDE DEF c, d
    <3>3. \A i \in 1 .. Len(u) + 1 : c[i] = d[i]
      <4> TAKE i \in 1 .. Len(u) + 1
      <4>1. CASE i = Len(u) + 1
        BY <2>1, <3>1, <3>2, <4>1
      <4>2. CASE i \in 1 .. Len(u)
        BY <2>1, <3>1, <3>2, <4>2
      <4> QED  BY <2>1, <4>1, <4>2
    <3>4. c = d  BY <3>1, <3>2, <3>3, SeqEqual
    <3> QED  BY <3>4 DEF c, d
  <2>5. FlattenSeq(Characters(w)) = u \o <<e>>  BY <1>3, <2>3, <2>4, FlattenAppend
  <2>6. w = u \o <<e>>  BY AppendIsConcat DEF w
  <2> QED  BY <2>1, <2>5, <2>6 DEF w
<1>4. Seq(S) \subseteq P
  <2> HIDE DEF P
  <2> QED  BY <1>2, <1>3, SeqInduct
<1> QED  BY <1>1, <1>4

\* Words of a text are made of symbols that are not empty.
SymbolsOver(V) == Seq(V) \ {<< >>}

WordsOver(V) == Seq(SymbolsOver(V))

\* Joined symbols are a symbol that is neither of them.
LEMMA SymbolsJoin ==
    ASSUME NEW V, NEW a \in SymbolsOver(V), NEW b \in SymbolsOver(V)
    PROVE  a \o b \in SymbolsOver(V) /\ a \o b # a /\ a \o b # b
<1>1. a \in Seq(V) /\ b \in Seq(V) /\ a # << >> /\ b # << >>  BY DEF SymbolsOver
<1>2. a \o b \in Seq(V)  BY <1>1, ConcatProperties
<1> QED  BY <1>1, <1>2, ConcatEqualIffEmpty DEF SymbolsOver

Put(u, m, y) == u \o m \o y

\* Where the symbols of the parts are.
IsPut(S, s, u, m, y) ==
    /\ s \in Seq(S) /\ Len(s) = Len(u) + Len(m) + Len(y)
    /\ \A i \in 1 .. Len(u) + Len(m) + Len(y) :
          s[i] = IF i <= Len(u) THEN u[i]
                 ELSE IF i <= Len(u) + Len(m) THEN m[i - Len(u)] ELSE y[i - (Len(u) + Len(m))]

\* Parts put together are a sequence with each part in its place.
LEMMA Spliced ==
    ASSUME NEW S, NEW u \in Seq(S), NEW m \in Seq(S), NEW y \in Seq(S)
    PROVE  IsPut(S, Put(u, m, y), u, m, y)
<1> DEFINE t == u \o m
           s == t \o y
<1>1. Len(u) \in Nat /\ Len(m) \in Nat /\ Len(y) \in Nat  BY LenProperties
<1>2. t \in Seq(S) /\ Len(t) = Len(u) + Len(m)
      /\ \A i \in 1 .. Len(u) + Len(m) : t[i] = IF i <= Len(u) THEN u[i] ELSE m[i - Len(u)]
  BY ConcatProperties
<1> HIDE DEF t
<1>3. s \in Seq(S) /\ Len(s) = Len(t) + Len(y)
      /\ \A i \in 1 .. Len(t) + Len(y) : s[i] = IF i <= Len(t) THEN t[i] ELSE y[i - Len(t)]
  <2>1. \A x \in Seq(S) : /\ x \o y \in Seq(S) /\ Len(x \o y) = Len(x) + Len(y)
           /\ \A i \in 1 .. Len(x) + Len(y) :
                  (x \o y)[i] = IF i <= Len(x) THEN x[i] ELSE y[i - Len(x)]
    BY ConcatProperties
  <2> QED  BY <1>2, <2>1
<1>4. Put(u, m, y) = s  BY DEF Put, t
<1> HIDE DEF s
<1>5. \A i \in 1 .. Len(u) + Len(m) + Len(y) :
          s[i] = IF i <= Len(u) THEN u[i] ELSE IF i <= Len(u) + Len(m) THEN m[i - Len(u)]
                 ELSE y[i - (Len(u) + Len(m))]
  <2> TAKE i \in 1 .. Len(u) + Len(m) + Len(y)
  <2>1. i \in 1 .. Len(t) + Len(y)  BY <1>2
  <2>2. CASE i <= Len(u) + Len(m)
    <3>1. i \in 1 .. Len(u) + Len(m) /\ i <= Len(t)  BY <1>1, <1>2, <2>2
    <3> QED  BY <1>1, <1>2, <1>3, <2>1, <3>1
  <2>3. CASE ~(i <= Len(u) + Len(m))
    <3>1. ~(i <= Len(u)) /\ ~(i <= Len(t))  BY <1>1, <1>2, <2>3
    <3> QED  BY <1>2, <1>3, <2>1, <2>3, <3>1
  <2> QED  BY <2>2, <2>3
<1> QED  BY <1>2, <1>3, <1>4, <1>5 DEF IsPut

\* The rank of a pair is its place in the table.
LEMMA RankIs ==
    ASSUME NEW q \in Range(Merges)
    PROVE  RankOfPair(q) \in DOMAIN Merges /\ RankOfPair(q) \in Nat /\ Merges[RankOfPair(q)] = q
<1> DEFINE T == {k \in DOMAIN Merges : Merges[k] = q}
<1>1. Len(Merges) \in Nat /\ DOMAIN Merges = 1 .. Len(Merges)
  BY MergesAssumption, LenProperties
<1>2. T \in SUBSET (0 .. Len(Merges)) /\ T # {}  BY <1>1 DEF Range
<1> HIDE DEF T
<1>3. Max(T) \in T  BY <1>1, <1>2, MaxIs
<1> QED  BY <1>1, <1>3 DEF T, RankOfPair

\* The best pair of a word is in it, and none in it comes before.
LEMMA BestIs ==
    ASSUME NEW w, Ranked(w) # {}
    PROVE  Best(w) \in Ranked(w) /\ \A q \in Ranked(w) : RankOfPair(Best(w)) <= RankOfPair(q)
<1> DEFINE T == {RankOfPair(q) : q \in Ranked(w)}
<1>1. T \in SUBSET Nat /\ T # {}  BY RankIs DEF Ranked
<1>2. Min(T) \in T /\ \A m \in T : Min(T) <= m  BY <1>1, MinIs
<1>3. PICK q \in Ranked(w) : Min(T) = RankOfPair(q)  BY <1>2
<1>4. Best(w) = q  BY <1>3, RankIs DEF Best, Ranked
<1> QED  BY <1>2, <1>3, <1>4

\* Only one pair is best.
LEMMA OnlyBest ==
    ASSUME NEW w, NEW p \in Ranked(w), \A q \in Ranked(w) : RankOfPair(p) <= RankOfPair(q)
    PROVE  Best(w) = p
<1>1. Best(w) \in Ranked(w) /\ RankOfPair(Best(w)) <= RankOfPair(p)  BY BestIs
<1>2. p \in Range(Merges) /\ Best(w) \in Range(Merges)  BY <1>1 DEF Ranked
<1>3. RankOfPair(p) = RankOfPair(Best(w))  BY <1>1, <1>2, RankIs
<1> QED  BY <1>2, <1>3, RankIs

\* A pair that a merge makes possible comes after it.
LEMMA LaterUse ==
    ASSUME NEW p \in Range(Merges), NEW q \in Range(Merges), NEW side \in {1, 2},
           p[1] \o p[2] = q[side]
    PROVE  RankOfPair(p) <= RankOfPair(q)
<1>1. PICK j, k \in DOMAIN Merges :
         /\ j = RankOfPair(p) /\ Merges[j] = p /\ j \in Nat
         /\ k = RankOfPair(q) /\ Merges[k] = q /\ k \in Nat
  BY RankIs
<1>2. Merges[j][1] \o Merges[j][2] = Merges[k][side]  BY <1>1
<1>3. j < k  BY <1>2, MergesAssumption
<1> QED  BY <1>1, <1>3

\* A word with a pair in it, by places and by parts.
HasPair(S, w, u, a, b, y, n, l) ==
    /\ w \in Seq(S) /\ Len(w) = n + 2 + l
    /\ \A k \in 1 .. n + 2 + l :
          w[k] = IF k <= n THEN u[k] ELSE IF k = n + 1 THEN a ELSE IF k = n + 2 THEN b
                 ELSE y[k - (n + 2)]
    /\ SubSeq(w, 1, n) = u /\ SubSeq(w, n + 3, Len(w)) = y

\* A pair put between two parts is behind the first.
LEMMA PutPair ==
    ASSUME NEW S, NEW u \in Seq(S), NEW a \in S, NEW b \in S, NEW y \in Seq(S),
           NEW n \in Nat, n = Len(u), NEW l \in Nat, l = Len(y)
    PROVE  HasPair(S, Put(u, <<a, b>>, y), u, a, b, y, n, l)
<1> DEFINE m == <<a, b>>
           w == Put(u, m, y)
<1>1. m[1] = a /\ m[2] = b /\ Len(m) = 2 /\ m \in Seq(S)  OBVIOUS
<1> HIDE DEF m
<1>3. n \in Nat /\ l \in Nat  OBVIOUS
<1>4. /\ w \in Seq(S) /\ Len(w) = n + 2 + l
      /\ \A k \in 1 .. n + 2 + l :
            w[k] = IF k <= n THEN u[k] ELSE IF k <= n + 2 THEN m[k - n] ELSE y[k - (n + 2)]
  <2>1. IsPut(S, w, u, m, y)  BY <1>1, Spliced
  <2> HIDE DEF w
  <2> QED  BY <1>1, <2>1 DEF IsPut
<1> HIDE DEF w
<1>5. \A k \in 1 .. n + 2 + l :
         w[k] = IF k <= n THEN u[k] ELSE IF k = n + 1 THEN a ELSE IF k = n + 2 THEN b
                ELSE y[k - (n + 2)]
  <2> TAKE k \in 1 .. n + 2 + l
  <2>1. (k = n + 1 => k - n = 1) /\ (k = n + 2 => k - n = 2)  BY <1>3
  <2>2. k <= n + 2 <=> k <= n \/ k = n + 1 \/ k = n + 2  BY <1>3
  <2> QED  BY <1>1, <1>3, <1>4, <2>1, <2>2
<1>6. Len(w) \in Nat  BY <1>3, <1>4
<1>7. SubSeq(w, 1, n) = u
  <2> DEFINE r == SubSeq(w, 1, n)
  <2>1. r \in Seq(S) /\ Len(r) = n /\ \A k \in 1 .. n : r[k] = w[k]
    <3>1. 0 \in Nat /\ 0 <= n /\ n <= Len(w) /\ 0 + 1 = 1 /\ n - 0 = n  BY <1>3, <1>4
    <3>2. /\ SubSeq(w, 0 + 1, n) \in Seq(S) /\ Len(SubSeq(w, 0 + 1, n)) = n - 0
          /\ \A k \in 1 .. n - 0 : SubSeq(w, 0 + 1, n)[k] = w[0 + k]
      BY <1>3, <1>4, <3>1, SliceIs
    <3> QED  BY <1>3, <3>1, <3>2
  <2> HIDE DEF r
  <2>2. \A k \in 1 .. n : w[k] = u[k]  BY <1>3, <1>5
  <2>3. r = u  BY <2>1, <2>2, SeqEqual
  <2> QED  BY <2>3 DEF r
<1>8. SubSeq(w, n + 3, Len(w)) = y
  <2> DEFINE r == SubSeq(w, n + 3, Len(w))
  <2>1. r \in Seq(S) /\ Len(r) = l /\ \A k \in 1 .. l : r[k] = y[k]
    <3>1. PICK i \in Nat : i = n + 2  BY <1>3
    <3>2. i <= Len(w) /\ Len(w) <= Len(w)  BY <1>3, <1>4, <3>1
    <3>3. w \in Seq(S)  BY <1>4
    <3>9. /\ SubSeq(w, i + 1, Len(w)) \in Seq(S)
          /\ Len(SubSeq(w, i + 1, Len(w))) = Len(w) - i
          /\ \A k \in 1 .. Len(w) - i : SubSeq(w, i + 1, Len(w))[k] = w[i + k]
      BY <1>6, <3>2, <3>3, SliceIs
    <3>4. i + 1 = n + 3 /\ Len(w) - i = l  BY <1>3, <1>4, <3>1
    <3>5. \A k \in 1 .. l : w[i + k] = y[k]
      <4> TAKE k \in 1 .. l
      <4>1. PICK j \in 1 .. n + 2 + l : j = i + k  BY <1>3, <3>1
      <4>2. ~(j <= n) /\ j # n + 1 /\ j # n + 2 /\ j - (n + 2) = k  BY <1>3, <3>1, <4>1
      <4> QED  BY <1>5, <4>1, <4>2
    <3> QED  BY <3>9, <3>4, <3>5
  <2> HIDE DEF r
  <2>2. r = y  BY <2>1, SeqEqual
  <2> QED  BY <2>2 DEF r
<1>9. HasPair(S, w, u, a, b, y, n, l)  BY <1>4, <1>5, <1>7, <1>8 DEF HasPair
<1> QED  BY <1>9 DEF w, m

\* No occurrence of a pair begins at one of the first n places.
NoneIn(w, p, n) == \A k \in 1 .. n : <<w[k], w[k + 1]>> # p

\* A word of which the pair to merge first is known, and where.
Leftmost(S, w, u, a, b, y) ==
    /\ u \in Seq(S) /\ y \in Seq(S) /\ a \in S /\ b \in S
    /\ w = Put(u, <<a, b>>, y)
    /\ Ranked(w) # {} /\ Best(w) = <<a, b>> /\ NoneIn(w, <<a, b>>, Len(u))

\* A single merge of such a word replaces the pair by its symbol.
LEMMA MergedThere ==
    ASSUME NEW S, NEW w, NEW u, NEW a, NEW b, NEW y, Leftmost(S, w, u, a, b, y)
    PROVE  MergedOnce(w) = Put(u, <<a \o b>>, y)
<1> USE DEF Leftmost
<1> DEFINE p == <<a, b>>
           T == {k \in 1 .. Len(w) - 1 : <<w[k], w[k + 1]>> = p}
<1>1. PICK n \in Nat, l \in Nat : n = Len(u) /\ l = Len(y)  BY LenProperties
<1>2. /\ Len(w) = n + 2 + l /\ w[n + 1] = a /\ w[n + 2] = b
      /\ SubSeq(w, 1, n) = u /\ SubSeq(w, n + 3, Len(w)) = y
  <2>1. HasPair(S, w, u, a, b, y, n, l)  BY <1>1, PutPair
  <2>2. n + 1 \in 1 .. n + 2 + l /\ n + 2 \in 1 .. n + 2 + l /\ n + 2 # n + 1
        /\ ~(n + 1 <= n) /\ ~(n + 2 <= n)
    OBVIOUS
  <2> QED  BY <2>1, <2>2 DEF HasPair
<1>3. p[1] = a /\ p[2] = b /\ Best(w) = p  OBVIOUS
<1>4. Min(T) = n + 1
  <2>1. n + 1 \in T  BY <1>2
  <2>2. T \in SUBSET Nat  BY <1>2
  <2>3. \A k \in T : n + 1 <= k
    <3>1. \A k \in 1 .. n : <<w[k], w[k + 1]>> # p  BY <1>1 DEF NoneIn
    <3> HIDE DEF p
    <3>2. T = {k \in 1 .. n + 1 + l : <<w[k], w[k + 1]>> = p}  BY <1>2
    <3>3. ASSUME NEW k \in 1 .. n + 1 + l, <<w[k], w[k + 1]>> = p PROVE n + 1 <= k
      <4>1. k \notin 1 .. n  BY <3>1, <3>3
      <4> QED  BY <4>1
    <3> HIDE DEF T
    <3> QED  BY <3>2, <3>3
  <2> HIDE DEF T
  <2>4. T # {}  BY <2>1
  <2>5. Min(T) \in T /\ \A k \in T : Min(T) <= k  BY <2>2, <2>4, MinIs
  <2>6. Min(T) \in Nat /\ n + 1 \in Nat /\ n + 1 <= Min(T) /\ Min(T) <= n + 1
    BY <2>1, <2>2, <2>3, <2>5
  <2> QED  BY <2>6
<1>5. MergedOnce(w) = SubSeq(w, 1, Min(T) - 1) \o <<a \o b>> \o SubSeq(w, Min(T) + 2, Len(w))
  <2> HIDE DEF p
  <2> QED  BY <1>3 DEF MergedOnce
<1>6. (n + 1) - 1 = n /\ (n + 1) + 2 = n + 3  BY <1>2
<1> HIDE DEF T
<1> QED  BY <1>2, <1>4, <1>5, <1>6 DEF Put

\* Any word with a pair to merge is of that form.
OneMerged(S, w) ==
    \E u, y \in Seq(S), a, b \in S :
        w = Put(u, <<a, b>>, y) /\ MergedOnce(w) = Put(u, <<a \o b>>, y)

\* A single merge replaces a pair somewhere in the word.
LEMMA MergedSomewhere ==
    ASSUME NEW S, NEW w \in Seq(S), Ranked(w) # {}
    PROVE  OneMerged(S, w)
<1> DEFINE p == Best(w)
           T == {k \in 1 .. Len(w) - 1 : <<w[k], w[k + 1]>> = p}
<1>1. p \in Ranked(w)  BY BestIs
<1>2. Len(w) \in Nat /\ \A k \in 1 .. Len(w) : w[k] \in S
  BY LenProperties, ElementOfSeq
<1> HIDE DEF p
<1>3. T \in SUBSET Nat /\ T # {}
  <2>1. PICK k \in 1 .. Len(w) - 1 : p = <<w[k], w[k + 1]>>  BY <1>1 DEF Ranked, Pairs
  <2>2. k \in T /\ T \subseteq 1 .. Len(w) - 1  BY <2>1
  <2>3. 1 .. Len(w) - 1 \subseteq Nat  BY <1>2
  <2> QED  BY <2>2, <2>3
<1>4. PICK i \in T : \A k \in T : i <= k
  <2> HIDE DEF T
  <2> QED  BY <1>3, NatLeast
<1> DEFINE u == SubSeq(w, 1, i - 1)
           y == SubSeq(w, i + 2, Len(w))
           a == w[i]
           b == w[i + 1]
<1>5. i \in 1 .. Len(w) - 1 /\ p = <<a, b>>  BY <1>4
<1>6. a \in S /\ b \in S  BY <1>2, <1>5
<1>7. u \in Seq(S) /\ Len(u) = i - 1 /\ \A k \in 1 .. i - 1 : u[k] = w[k]
  <2>1. PICK j \in Nat : j = i - 1  BY <1>5
  <2>2. 0 \in Nat /\ 0 <= j /\ j <= Len(w) /\ 0 + 1 = 1 /\ j - 0 = j  BY <1>2, <1>5, <2>1
  <2>3. /\ SubSeq(w, 0 + 1, j) \in Seq(S) /\ Len(SubSeq(w, 0 + 1, j)) = j - 0
        /\ \A k \in 1 .. j - 0 : SubSeq(w, 0 + 1, j)[k] = w[0 + k]
    BY <2>2, SliceIs
  <2> QED  BY <2>1, <2>2, <2>3
<1>8. /\ y \in Seq(S) /\ Len(y) = Len(w) - i - 1
      /\ \A k \in 1 .. Len(w) - i - 1 : y[k] = w[i + 1 + k]
  <2>1. PICK j \in Nat : j = i + 1  BY <1>5
  <2>2. j <= Len(w) /\ Len(w) <= Len(w)  BY <1>2, <1>5, <2>1
  <2>3. /\ SubSeq(w, j + 1, Len(w)) \in Seq(S) /\ Len(SubSeq(w, j + 1, Len(w))) = Len(w) - j
        /\ \A k \in 1 .. Len(w) - j : SubSeq(w, j + 1, Len(w))[k] = w[j + k]
    BY <1>2, <2>2, SliceIs
  <2>4. j + 1 = i + 2 /\ Len(w) - j = Len(w) - i - 1  BY <1>2, <1>5, <2>1
  <2> QED  BY <2>1, <2>3, <2>4
<1>9. w = Put(u, <<a, b>>, y)
  <2> DEFINE s == Put(u, <<a, b>>, y)
  <2> HIDE DEF u, y, a, b
  <2>1. PICK n \in Nat, l \in Nat : n = Len(u) /\ l = Len(y)  BY <1>7, <1>8, LenProperties
  <2>0. HasPair(S, s, u, a, b, y, n, l)  BY <1>6, <1>7, <1>8, <2>1, PutPair
  <2> HIDE DEF s
  <2>2. /\ s \in Seq(S) /\ Len(s) = n + 2 + l
        /\ \A k \in 1 .. n + 2 + l :
              s[k] = IF k <= n THEN u[k] ELSE IF k = n + 1 THEN a ELSE IF k = n + 2 THEN b
                     ELSE y[k - (n + 2)]
    BY <2>0 DEF HasPair
  <2>3. Len(s) = Len(w)  BY <1>2, <1>5, <1>7, <1>8, <2>1, <2>2
  <2>4. \A k \in 1 .. Len(w) : s[k] = w[k]
    <3> TAKE k \in 1 .. Len(w)
    <3>1. n + 1 = i /\ k \in 1 .. n + 2 + l  BY <1>2, <1>5, <1>7, <2>1, <2>2, <2>3
    <3>2. CASE k \in 1 .. i - 1
      <4>1. k <= n  BY <1>5, <3>1, <3>2
      <4>2. s[k] = u[k]  BY <2>2, <3>1, <4>1
      <4> QED  BY <1>7, <3>2, <4>2
    <3>3. CASE k = i
      <4>1. ~(k <= n) /\ k = n + 1  BY <1>5, <3>1, <3>3
      <4> QED  BY <2>2, <3>1, <3>3, <4>1 DEF a
    <3>4. CASE k = i + 1
      <4>1. ~(k <= n) /\ k = n + 2 /\ k # n + 1  BY <1>5, <3>1, <3>4
      <4> QED  BY <2>2, <3>1, <3>4, <4>1 DEF b
    <3>5. CASE k \in i + 2 .. Len(w)
      <4>1. ~(k <= n) /\ k # n + 1 /\ k # n + 2  BY <1>5, <3>1, <3>5
      <4>2. PICK j \in 1 .. Len(w) - i - 1 : j = k - (n + 2) /\ i + 1 + j = k
        BY <1>2, <1>5, <3>1, <3>5
      <4>3. s[k] = y[j]  BY <2>2, <3>1, <4>1, <4>2
      <4> QED  BY <1>8, <4>2, <4>3
    <3> QED  BY <1>2, <1>5, <3>2, <3>3, <3>4, <3>5
  <2>5. w = s  BY <2>2, <2>3, <2>4, SeqEqual
  <2> QED  BY <2>5 DEF s
<1> HIDE DEF u, y, a, b
<1>10. NoneIn(w, <<a, b>>, Len(u))
  <2> SUFFICES \A k \in 1 .. Len(u) : <<w[k], w[k + 1]>> # <<a, b>>
    BY DEF NoneIn
  <2> TAKE k \in 1 .. Len(u)
  <2>1. k \in 1 .. Len(w) - 1 /\ k < i /\ ~(i <= k)  BY <1>2, <1>5, <1>7
  <2>2. k \notin T
    <3> HIDE DEF T
    <3> QED  BY <1>4, <2>1
  <2> QED  BY <1>5, <2>1, <2>2
<1>11. MergedOnce(w) = Put(u, <<a \o b>>, y)
  <2>1. Best(w) = <<a, b>>  BY <1>5 DEF p
  <2>2. u \in Seq(S) /\ y \in Seq(S)  BY <1>7, <1>8
  <2> HIDE DEF T
  <2>3. Leftmost(S, w, u, a, b, y)  BY <1>6, <1>9, <1>10, <2>1, <2>2 DEF Leftmost
  <2> QED  BY <2>3, MergedThere
<1>12. u \in Seq(S) /\ y \in Seq(S)  BY <1>7, <1>8
<1> HIDE DEF T
<1> QED  BY <1>6, <1>9, <1>11, <1>12 DEF OneMerged

\* A single merge keeps what the word spells and takes a symbol from it.
LEMMA OnceKeepsSpelling ==
    ASSUME NEW V, NEW w \in WordsOver(V), Ranked(w) # {}
    PROVE  /\ MergedOnce(w) \in WordsOver(V) /\ Len(MergedOnce(w)) + 1 = Len(w) /\ Len(w) \in Nat
           /\ FlattenSeq(MergedOnce(w)) = FlattenSeq(w)
<1> DEFINE S == SymbolsOver(V)
<1>0. w \in Seq(S)  BY DEF WordsOver
<1> HIDE DEF S
<1>1. PICK u, y \in Seq(S), a, b \in S :
         w = Put(u, <<a, b>>, y) /\ MergedOnce(w) = Put(u, <<a \o b>>, y)
  <2>1. OneMerged(S, w)  BY <1>0, MergedSomewhere
  <2> QED  BY <2>1 DEF OneMerged
<1>2. a \o b \in S  BY SymbolsJoin DEF S
<1>3. Len(u) \in Nat /\ Len(y) \in Nat  BY LenProperties
<1>4. ASSUME NEW m \in Seq(S)
      PROVE  Put(u, m, y) \in Seq(S) /\ Len(Put(u, m, y)) = Len(u) + Len(m) + Len(y)
  BY Spliced DEF IsPut
<1>5. /\ <<a, b>> \in Seq(S) /\ Len(<<a, b>>) = 2
      /\ <<a \o b>> \in Seq(S) /\ Len(<<a \o b>>) = 1
  BY <1>2
<1>6. MergedOnce(w) \in Seq(S) /\ Len(MergedOnce(w)) = Len(u) + 1 + Len(y)
      /\ Len(w) = Len(u) + 2 + Len(y)
  <2>1. Len(Put(u, <<a, b>>, y)) = Len(u) + Len(<<a, b>>) + Len(y)  BY <1>4, <1>5
  <2>2. /\ Put(u, <<a \o b>>, y) \in Seq(S)
        /\ Len(Put(u, <<a \o b>>, y)) = Len(u) + Len(<<a \o b>>) + Len(y)
    BY <1>4, <1>5
  <2> QED  BY <1>1, <1>5, <2>1, <2>2
<1>7. FlattenSeq(MergedOnce(w)) = FlattenSeq(w)
  <2>1. S \subseteq Seq(V)  BY DEF S, SymbolsOver
  <2>2. u \in Seq(Seq(V)) /\ y \in Seq(Seq(V))  BY <2>1, SeqMonotonic
  <2>3. a \in Seq(V) /\ b \in Seq(V) /\ a \o b \in Seq(V)  BY <1>2, <2>1
  <2>4. <<a, b>> \in Seq(Seq(V)) /\ <<a \o b>> \in Seq(Seq(V))  BY <2>3
  <2>5. FlattenSeq(<<a, b>>) = a \o b /\ FlattenSeq(<<a \o b>>) = a \o b
    BY <2>3, FlattenShort
  <2>6. ASSUME NEW m \in Seq(Seq(V))
        PROVE FlattenSeq(Put(u, m, y)) = FlattenSeq(u) \o FlattenSeq(m) \o FlattenSeq(y)
    <3>1. u \o m \in Seq(Seq(V))  BY <2>2, ConcatProperties
    <3>2. FlattenSeq(u \o m) = FlattenSeq(u) \o FlattenSeq(m)  BY <2>2, FlattenConcat
    <3>3. FlattenSeq((u \o m) \o y) = FlattenSeq(u \o m) \o FlattenSeq(y)
      BY <2>2, <3>1, FlattenConcat
    <3> QED  BY <3>2, <3>3 DEF Put
  <2>7. FlattenSeq(Put(u, <<a, b>>, y)) = FlattenSeq(u) \o (a \o b) \o FlattenSeq(y)
    BY <2>4, <2>5, <2>6
  <2>8. FlattenSeq(Put(u, <<a \o b>>, y)) = FlattenSeq(u) \o (a \o b) \o FlattenSeq(y)
    BY <2>4, <2>5, <2>6
  <2> QED  BY <1>1, <2>7, <2>8
<1> QED  BY <1>3, <1>6, <1>7 DEF S, WordsOver

\* The words single merges make of a token, one after the other.
After(token) ==
    LET after[n \in 0 .. Len(token)] ==
            IF n = 0 THEN Characters(token) ELSE MergedOnce(after[n - 1])
    IN after

\* Each of these words is a single merge of the one before.
LEMMA AfterBySteps ==
    ASSUME NEW V, NEW token \in Seq(V)
    PROVE  /\ After(token)[0] = Characters(token)
           /\ \A n \in 1 .. Len(token) : After(token)[n] = MergedOnce(After(token)[n - 1])
           /\ MergedByRank(token) = After(token)[Len(token)]
<1> DEFINE N == Len(token)
           W == WordsOver(V)
           first == Characters(token)
           step == [p \in (1 .. N) \X W |-> MergedOnce(p[2])]
           Equal(f) == f = [n \in 0 .. N |-> IF n = 0 THEN first ELSE MergedOnce(f[n - 1])]
           after == CHOOSE f : Equal(f)
<1>1. N \in Nat /\ first \in W  BY LenProperties, FlattenCharacters DEF WordsOver, SymbolsOver
<1>2. \A w \in W : MergedOnce(w) \in W
  <2> TAKE w \in W
  <2>1. CASE Ranked(w) = {}  BY <2>1 DEF MergedOnce
  <2>2. CASE Ranked(w) # {}  BY <2>2, OnceKeepsSpelling
  <2> QED  BY <2>1, <2>2
<1> HIDE DEF W, first
<1>3. \A n \in 1 .. N : \A w \in W : step[<<n, w>>] = MergedOnce(w)  OBVIOUS
<1>4. step \in [(1 .. N) \X W -> W]  BY <1>2
<1> HIDE DEF step
<1>5. PICK f \in [0 .. N -> W] : CountsUp(f, N, first, step)
  <2> HIDE DEF N
  <2> QED  BY <1>1, <1>4, RecursionUp
<1>6. Equal(f)
  <2>1. \A n \in 0 .. N : f[n] = IF n = 0 THEN first ELSE MergedOnce(f[n - 1])
    <3> TAKE n \in 0 .. N
    <3>1. CASE n = 0  BY <1>5, <3>1 DEF CountsUp
    <3>2. CASE n # 0
      <4>1. n \in 1 .. N /\ n - 1 \in 0 .. N  BY <1>1, <3>2
      <4>2. f[n] = step[<<n, f[n - 1]>>]  BY <1>5, <4>1 DEF CountsUp
      <4>3. f[n - 1] \in W  BY <1>5, <4>1
      <4> QED  BY <1>3, <3>2, <4>1, <4>2, <4>3
    <3> QED  BY <3>1, <3>2
  <2> QED  BY <2>1
<1>7. Equal(after)
  <2> HIDE DEF Equal
  <2> QED  BY <1>6
<1>8. After(token) = after  BY DEF After, first
<1> HIDE DEF after
<1>9. after[0] = first /\ \A n \in 1 .. N : after[n] = MergedOnce(after[n - 1])
  BY <1>1, <1>7
<1>10. MergedByRank(token) = After(token)[N]  BY DEF MergedByRank, After
<1> QED  BY <1>8, <1>9, <1>10 DEF first

\* Where nothing is left to merge, the words stay the same.
LEMMA AfterStays ==
    ASSUME NEW V, NEW token \in Seq(V), NEW n \in 0 .. Len(token),
           Ranked(After(token)[n]) = {}
    PROVE  MergedByRank(token) = After(token)[n]
<1>1. PICK N \in Nat : N = Len(token)  BY LenProperties
<1> DEFINE P == {k \in Nat : n + k <= N => After(token)[n + k] = After(token)[n]}
<1>2. n \in 0 .. N /\ 0 \in P  BY <1>1
<1>3. ASSUME NEW k \in Nat, k \in P PROVE k + 1 \in P
  <2> SUFFICES ASSUME n + (k + 1) <= N PROVE After(token)[n + (k + 1)] = After(token)[n]
    OBVIOUS
  <2>1. PICK m \in 1 .. N : m = n + (k + 1) /\ m - 1 = n + k  BY <1>2
  <2>2. After(token)[m] = MergedOnce(After(token)[m - 1])  BY <1>1, AfterBySteps
  <2>3. After(token)[m - 1] = After(token)[n]  BY <1>2, <1>3, <2>1
  <2> QED  BY <2>1, <2>2, <2>3 DEF MergedOnce
<1>4. N - n \in P
  <2> HIDE DEF P
  <2>1. Nat \subseteq P  BY <1>2, <1>3, Induct
  <2>2. N - n \in Nat  BY <1>2
  <2> QED  BY <2>1, <2>2
<1>5. n + (N - n) = N  BY <1>2
<1> QED  BY <1>1, <1>4, <1>5, AfterBySteps

\* Single merges of token can give v, as many as it is shorter by.
Reached(token, v) ==
    \E n \in 0 .. Len(token) :
        After(token)[n] = v /\ Len(v) + n = Len(token) /\ FlattenSeq(v) = token

\* The characters are reached, by no merge.
LEMMA ReachedFirst ==
    ASSUME NEW V, NEW token \in Seq(V)
    PROVE  Characters(token) \in WordsOver(V) /\ Reached(token, Characters(token))
<1>1. /\ Characters(token) \in Seq(Seq(V) \ {<< >>}) /\ Len(Characters(token)) = Len(token)
      /\ FlattenSeq(Characters(token)) = token
  BY FlattenCharacters
<1>2. Len(token) \in Nat  BY LenProperties
<1>3. 0 \in 0 .. Len(token) /\ Len(token) + 0 = Len(token)  BY <1>2
<1>4. After(token)[0] = Characters(token)  BY AfterBySteps
<1>5. Reached(token, Characters(token))  BY <1>1, <1>3, <1>4 DEF Reached
<1> QED  BY <1>1, <1>5 DEF WordsOver, SymbolsOver

\* From a word that is reached a single merge reaches the next.
LEMMA ReachedNext ==
    ASSUME NEW V, NEW token \in Seq(V), NEW v \in WordsOver(V), Reached(token, v), Ranked(v) # {}
    PROVE  MergedOnce(v) \in WordsOver(V) /\ Reached(token, MergedOnce(v))
<1>1. PICK n \in 0 .. Len(token) :
         After(token)[n] = v /\ Len(v) + n = Len(token) /\ FlattenSeq(v) = token
  BY DEF Reached
<1> DEFINE x == MergedOnce(v)
<1>2. x \in WordsOver(V) /\ Len(x) + 1 = Len(v) /\ Len(v) \in Nat /\ FlattenSeq(x) = FlattenSeq(v)
  BY OnceKeepsSpelling
<1>3. Len(x) \in Nat /\ Len(token) \in Nat  BY <1>2, LenProperties DEF WordsOver
<1>4. PICK m \in 1 .. Len(token) : m = n + 1 /\ m - 1 = n  BY <1>1, <1>2, <1>3
<1>5. After(token)[m] = x  BY <1>1, <1>4, AfterBySteps
<1> HIDE DEF x
<1>6. Len(x) + m = Len(token) /\ m \in 0 .. Len(token)  BY <1>1, <1>2, <1>3, <1>4
<1>7. Reached(token, x)  BY <1>1, <1>2, <1>5, <1>6 DEF Reached
<1> QED  BY <1>2, <1>7 DEF x

\* No pair in v comes before p.
NoBetter(v, p) == \A q \in Ranked(v) : RankOfPair(p) <= RankOfPair(q)

\* What is left of w from place i on.
Rest(w, i) == SubSeq(w, i, Len(w))

\* The rest is its first symbol and the rest behind that.
LEMMA RestIs ==
    ASSUME NEW S, NEW w \in Seq(S), NEW i \in 1 .. Len(w)
    PROVE  /\ w[i] \in S /\ Rest(w, i + 1) \in Seq(S)
           /\ Rest(w, i) = <<w[i]>> \o Rest(w, i + 1)
           /\ Rest(w, Len(w) + 1) = << >>
<1>1. Len(w) \in Nat /\ w[i] \in S /\ \A k \in 1 .. Len(w) : w[k] \in S
  BY LenProperties, ElementOfSeq
<1>2. Len(w) \in i .. Len(w)  BY <1>1
<1>3. Rest(w, i) = <<w[i]>> \o Rest(w, i + 1)  BY <1>2, SubSeqRecursiveFirst DEF Rest
<1>4. Rest(w, i + 1) \in Seq(S)
  <2>1. \A k \in i + 1 .. Len(w) : w[k] \in S  BY <1>1
  <2>2. i + 1 \in Int /\ Len(w) \in Int  BY <1>1
  <2> QED  BY <2>1, <2>2, SubSeqProperties DEF Rest
<1>5. Rest(w, Len(w) + 1) = << >>
  <2>1. Len(w) + 1 \in Int /\ Len(w) \in Int /\ Len(w) < Len(w) + 1  BY <1>1
  <2> QED  BY <2>1, SubSeqEmpty DEF Rest
<1> QED  BY <1>1, <1>3, <1>4, <1>5

\* What a sweep has written, u, against the word it reads, w, before place i:
\* the written part holds no p, not even with the next symbol, and followed by
\* the rest it is a word that single merges reach.
Written(V, token, w, p, from, i, u) ==
    /\ u \in WordsOver(V) /\ u \o from[i] = from[1]
    /\ NoneIn(u, p, Len(u) - 1)
    /\ i <= Len(w) /\ Len(u) > 0 => <<u[Len(u)], w[i]>> # p
    /\ u \o Rest(w, i) \in WordsOver(V)
    /\ NoBetter(u \o Rest(w, i), p) /\ Reached(token, u \o Rest(w, i))

\* The sweep of a word for its best pair.
Sweep(V, token, w, p, from) ==
    /\ token \in Seq(V) /\ w \in WordsOver(V)
    /\ p \in Ranked(w) /\ NoBetter(w, p) /\ Reached(token, w)
    /\ from \in [1 .. Len(w) + 2 -> WordsOver(V)] /\ Sweeps(from, w, p)

\* The pair in the sweep: its symbols.
LEMMA PairOf ==
    ASSUME NEW S, NEW w \in Seq(S), NEW p \in Ranked(w)
    PROVE  p \in Range(Merges) /\ p[1] \in S /\ p[2] \in S /\ p = <<p[1], p[2]>>
<1>1. PICK i \in 1 .. Len(w) - 1 : p = <<w[i], w[i + 1]>>  BY DEF Ranked, Pairs
<1>2. Len(w) \in Nat /\ i \in 1 .. Len(w) /\ i + 1 \in 1 .. Len(w)  BY LenProperties
<1>3. w[i] \in S /\ w[i + 1] \in S  BY <1>2, ElementOfSeq
<1> QED  BY <1>1, <1>3 DEF Ranked

\* At the start nothing is written.
LEMMA WrittenFirst ==
    ASSUME NEW V, NEW token, NEW w, NEW p, NEW from, Sweep(V, token, w, p, from)
    PROVE  Written(V, token, w, p, from, 1, << >>)
<1> DEFINE S == SymbolsOver(V)
<1>0. w \in Seq(S) /\ from \in [1 .. Len(w) + 2 -> Seq(S)]  BY DEF Sweep, WordsOver
<1> HIDE DEF S
<1>1. << >> \in Seq(S) /\ Len(<< >>) = 0 /\ Len(w) \in Nat  BY <1>0, EmptySeq, LenProperties
<1>2. from[1] \in Seq(S)
  <2>1. 1 \in 1 .. Len(w) + 2  BY <1>1
  <2> QED  BY <1>0, <2>1
<1>3. << >> \o from[1] = from[1]  BY <1>2, ConcatEmptySeq
<1>4. << >> \o Rest(w, 1) = w  BY <1>0, SubSeqFull, ConcatEmptySeq DEF Rest
<1>5. NoneIn(<< >>, p, Len(<< >>) - 1)  BY <1>1 DEF NoneIn
<1>6. << >> \in WordsOver(V)  BY <1>1 DEF WordsOver, S
<1> QED  BY <1>1, <1>3, <1>4, <1>5, <1>6 DEF Written, Sweep

\* A symbol that is not the first of the pair here is copied.
LEMMA WrittenCopied ==
    ASSUME NEW V, NEW token, NEW w, NEW p, NEW from, Sweep(V, token, w, p, from),
           NEW i \in 1 .. Len(w), NEW u, Written(V, token, w, p, from, i, u),
           ~(i < Len(w) /\ <<w[i], w[i + 1]>> = p)
    PROVE  Written(V, token, w, p, from, i + 1, u \o <<w[i]>>)
<1> DEFINE S == SymbolsOver(V)
           e == w[i]
           x == u \o <<e>>
<1>0. w \in Seq(S) /\ u \in Seq(S) /\ from \in [1 .. Len(w) + 2 -> Seq(S)] /\ S = SymbolsOver(V)
  BY DEF Sweep, Written, WordsOver
<1> HIDE DEF S
<1>1. PICK n \in Nat, l \in Nat : n = Len(u) /\ l = Len(w)  BY <1>0, LenProperties
<1>2. e \in S /\ Rest(w, i + 1) \in Seq(S) /\ Rest(w, i) = <<e>> \o Rest(w, i + 1)
  BY <1>0, RestIs
<1> HIDE DEF e
<1>3. <<e>> \in Seq(S) /\ Len(<<e>>) = 1 /\ <<e>>[1] = e  BY <1>2
<1>4. x \in Seq(S) /\ Len(x) = n + 1
      /\ \A k \in 1 .. n + 1 : x[k] = IF k <= n THEN u[k] ELSE e
  <2>1. /\ x \in Seq(S) /\ Len(x) = Len(u) + Len(<<e>>)
        /\ \A k \in 1 .. Len(u) + Len(<<e>>) : x[k] = IF k <= Len(u) THEN u[k] ELSE <<e>>[k - Len(u)]
    BY <1>0, <1>3, ConcatProperties
  <2> HIDE DEF x
  <2>2. ASSUME NEW k \in 1 .. n + 1 PROVE x[k] = IF k <= n THEN u[k] ELSE e
    <3>1. CASE k <= n  BY <1>1, <1>3, <2>1, <3>1
    <3>2. CASE ~(k <= n)
      <4>1. k - n = 1  BY <3>2
      <4> QED  BY <1>1, <1>3, <2>1, <3>2, <4>1
    <3> QED  BY <3>1, <3>2
  <2> QED  BY <1>1, <1>3, <2>1, <2>2
<1>5. ASSUME NEW y \in Seq(S) PROVE x \o y = u \o (<<e>> \o y)
  <2>1. Regroups(u, <<e>>, y)  BY <1>0, <1>3, <1>5, Regroup
  <2> QED  BY <2>1 DEF Regroups
<1>6. x \o Rest(w, i + 1) = u \o Rest(w, i)  BY <1>2, <1>5
<1>7. x \o from[i + 1] = from[1]
  <2>1. i \in 1 .. Len(w) + 2 /\ i + 1 \in 1 .. Len(w) + 2 /\ ~(i > Len(w))  BY <1>1
  <2>2. from[i + 1] \in Seq(S)  BY <1>0, <2>1
  <2>3. from[i] = <<e>> \o from[i + 1]  BY <2>1 DEF Sweep, Sweeps, e
  <2>4. u \o from[i] = from[1]  BY DEF Written
  <2> HIDE DEF x
  <2> QED  BY <1>5, <2>2, <2>3, <2>4
<1> HIDE DEF x
<1>8. NoneIn(x, p, Len(x) - 1)
  <2> SUFFICES ASSUME NEW k \in 1 .. n PROVE <<x[k], x[k + 1]>> # p
    BY <1>1, <1>4 DEF NoneIn
  <2>1. k \in 1 .. n + 1 /\ k + 1 \in 1 .. n + 1 /\ x[k] = u[k]  BY <1>4
  <2>2. CASE k \in 1 .. n - 1
    <3>1. x[k + 1] = u[k + 1]  BY <1>4, <2>1, <2>2
    <3>2. <<u[k], u[k + 1]>> # p  BY <1>1, <2>2 DEF Written, NoneIn
    <3> QED  BY <2>1, <3>1, <3>2
  <2>3. CASE k = n
    <3>1. x[k + 1] = e  BY <1>4, <2>1, <2>3
    <3>2. <<u[n], e>> # p  BY <1>1, <2>3 DEF Written, e
    <3> QED  BY <2>1, <2>3, <3>1, <3>2
  <2> QED  BY <2>2, <2>3
<1>9. i + 1 <= Len(w) => <<x[Len(x)], w[i + 1]>> # p
  <2>1. x[Len(x)] = w[i]  BY <1>4 DEF e
  <2> QED  BY <1>1, <2>1
<1>10. x \in WordsOver(V)  BY <1>0, <1>4 DEF WordsOver
<1>11. Written(V, token, w, p, from, i + 1, x)
  BY <1>6, <1>7, <1>8, <1>9, <1>10 DEF Written
<1> QED  BY <1>11 DEF x, e

\* A merged pair takes no symbol from a pair that comes before it.
LEMMA StillNoBetter ==
    ASSUME NEW S, NEW u \in Seq(S), NEW y \in Seq(S), NEW a \in S, NEW b \in S, a \o b \in S,
           <<a, b>> \in Range(Merges), NoBetter(Put(u, <<a, b>>, y), <<a, b>>)
    PROVE  NoBetter(Put(u, <<a \o b>>, y), <<a, b>>)
<1> DEFINE p == <<a, b>>
           c == a \o b
           m == <<c>>
           v == Put(u, p, y)
           z == Put(u, m, y)
<1>1. PICK n \in Nat, l \in Nat : n = Len(u) /\ l = Len(y)  BY LenProperties
<1>2. Len(v) = n + 2 + l
      /\ \A k \in 1 .. n + 2 + l :
            v[k] = IF k <= n THEN u[k] ELSE IF k = n + 1 THEN a ELSE IF k = n + 2 THEN b
                   ELSE y[k - (n + 2)]
  <2>1. HasPair(S, v, u, a, b, y, n, l)  BY <1>1, PutPair
  <2> HIDE DEF v
  <2> QED  BY <2>1 DEF HasPair
<1>3. m \in Seq(S) /\ Len(m) = 1 /\ m[1] = c  OBVIOUS
<1> HIDE DEF m
<1>4. IsPut(S, z, u, m, y)  BY <1>3, Spliced
<1> HIDE DEF v, z, c
<1>5. Len(z) = n + 1 + l
      /\ \A k \in 1 .. n + 1 + l :
            z[k] = IF k <= n THEN u[k] ELSE IF k = n + 1 THEN c ELSE y[k - (n + 1)]
  <2>1. Len(z) = n + 1 + l
        /\ \A k \in 1 .. n + 1 + l :
              z[k] = IF k <= n THEN u[k] ELSE IF k <= n + 1 THEN m[k - n] ELSE y[k - (n + 1)]
    BY <1>1, <1>3, <1>4 DEF IsPut
  <2>2. ASSUME NEW k \in 1 .. n + 1 + l
        PROVE  z[k] = IF k <= n THEN u[k] ELSE IF k = n + 1 THEN c ELSE y[k - (n + 1)]
    <3>1. k = n + 1 => k - n = 1  OBVIOUS
    <3>2. ~(k <= n) => (k <= n + 1 <=> k = n + 1)  OBVIOUS
    <3> QED  BY <1>3, <2>1, <3>1, <3>2
  <2> QED  BY <2>1, <2>2
<1>6. p[1] \o p[2] = c  BY DEF c
<1>7. ASSUME NEW q \in Ranked(z) PROVE RankOfPair(p) <= RankOfPair(q)
  <2>1. q \in Range(Merges)  BY DEF Ranked
  <2>2. PICK k \in 1 .. n + l : q = <<z[k], z[k + 1]>>
    <3>1. PICK k \in 1 .. Len(z) - 1 : q = <<z[k], z[k + 1]>>  BY DEF Ranked, Pairs
    <3> QED  BY <1>5, <3>1
  <2>3. k \in 1 .. n + 1 + l /\ k + 1 \in 1 .. n + 1 + l  OBVIOUS
  <2>4. ASSUME NEW j \in 1 .. n + 1 + l, q = <<v[j], v[j + 1]>>
        PROVE  RankOfPair(p) <= RankOfPair(q)
    <3>1. j \in 1 .. Len(v) - 1  BY <1>2
    <3>2. q \in Ranked(v)  BY <2>1, <2>4, <3>1 DEF Ranked, Pairs
    <3> QED  BY <3>2 DEF NoBetter, v
  <2>5. CASE k \in 1 .. n - 1
    <3>1. z[k] = u[k] /\ z[k + 1] = u[k + 1]  BY <1>5, <2>3, <2>5
    <3>2. v[k] = u[k] /\ v[k + 1] = u[k + 1]
      <4>1. k \in 1 .. n + 2 + l /\ k + 1 \in 1 .. n + 2 + l /\ k <= n /\ k + 1 <= n  BY <2>5
      <4> QED  BY <1>2, <4>1
    <3> QED  BY <2>2, <2>3, <2>4, <3>1, <3>2
  <2>6. CASE k = n
    <3>1. z[k + 1] = c  BY <1>5, <2>3, <2>6
    <3>2. p[1] \o p[2] = q[2]  BY <1>6, <2>2, <3>1
    <3> HIDE DEF p
    <3> QED  BY <2>1, <3>2, LaterUse DEF p
  <2>7. CASE k = n + 1
    <3>1. z[k] = c  BY <1>5, <2>3, <2>7
    <3>2. p[1] \o p[2] = q[1]  BY <1>6, <2>2, <3>1
    <3> HIDE DEF p
    <3> QED  BY <2>1, <3>2, LaterUse DEF p
  <2>8. CASE k \in n + 2 .. n + l
    <3>1. z[k] = y[k - (n + 1)] /\ z[k + 1] = y[(k + 1) - (n + 1)]
      <4>1. ~(k <= n) /\ k # n + 1 /\ ~(k + 1 <= n) /\ k + 1 # n + 1  BY <2>8
      <4> QED  BY <1>5, <2>3, <4>1
    <3>2. PICK j \in 1 .. n + 2 + l : j = k + 1  BY <2>3
    <3>3. PICK i \in 1 .. n + 2 + l : i = j + 1  BY <2>8, <3>2
    <3>4. v[j] = y[j - (n + 2)] /\ v[i] = y[i - (n + 2)]
      <4>1. ~(j <= n) /\ j # n + 1 /\ j # n + 2 /\ ~(i <= n) /\ i # n + 1 /\ i # n + 2
        BY <2>8, <3>2, <3>3
      <4> QED  BY <1>2, <4>1
    <3>5. j - (n + 2) = k - (n + 1) /\ i - (n + 2) = (k + 1) - (n + 1) /\ j \in 1 .. n + 1 + l
      BY <2>8, <3>2, <3>3
    <3> QED  BY <2>2, <2>4, <3>1, <3>3, <3>4, <3>5
  <2> QED  BY <2>5, <2>6, <2>7, <2>8
<1> QED  BY <1>7 DEF NoBetter, z, m, c

\* A pair that is met is merged, which is the next single merge.
LEMMA WrittenMerged ==
    ASSUME NEW V, NEW token, NEW w, NEW p, NEW from, Sweep(V, token, w, p, from),
           NEW i \in 1 .. Len(w) - 1, NEW u, Written(V, token, w, p, from, i, u),
           <<w[i], w[i + 1]>> = p
    PROVE  Written(V, token, w, p, from, i + 2, u \o <<p[1] \o p[2]>>)
<1> DEFINE S == SymbolsOver(V)
           a == p[1]
           b == p[2]
           c == a \o b
           y == Rest(w, i + 2)
           x == u \o <<c>>
           v == Put(u, <<a, b>>, y)
           z == Put(u, <<c>>, y)
<1>0. w \in Seq(S) /\ u \in Seq(S) /\ from \in [1 .. Len(w) + 2 -> Seq(S)] /\ S = SymbolsOver(V)
      /\ token \in Seq(V)
  BY DEF Sweep, Written, WordsOver
<1>1. a \in S /\ b \in S /\ p = <<a, b>> /\ p \in Range(Merges)
  <2> HIDE DEF S
  <2> QED  BY <1>0, PairOf DEF Sweep
<1>2. c \in S /\ c # a /\ c # b
  <2> HIDE DEF S
  <2>1. \A g, h \in S : g \o h \in S /\ g \o h # g /\ g \o h # h  BY SymbolsJoin DEF S
  <2> QED  BY <1>1, <2>1
<1>3. w[i] = a /\ w[i + 1] = b  BY <1>1
<1> HIDE DEF S, a, b, c
<1>4. PICK n \in Nat, l \in Nat : n = Len(u) /\ l = Len(w)  BY <1>0, LenProperties
<1>5. i \in 1 .. Len(w) /\ i + 1 \in 1 .. Len(w) /\ (i + 1) + 1 = i + 2 /\ ~(i > Len(w))
      /\ i < Len(w)
  BY <1>4
<1>6. y \in Seq(S) /\ Rest(w, i) = <<a>> \o (<<b>> \o y)
  <2>1. Rest(w, i) = <<a>> \o Rest(w, i + 1)  BY <1>0, <1>3, <1>5, RestIs
  <2>2. Rest(w, i + 1) = <<b>> \o Rest(w, (i + 1) + 1) /\ Rest(w, (i + 1) + 1) \in Seq(S)
    BY <1>0, <1>3, <1>5, RestIs
  <2> QED  BY <1>5, <2>1, <2>2
<1> HIDE DEF y
<1>7. <<a>> \in Seq(S) /\ <<b>> \in Seq(S) /\ <<c>> \in Seq(S) /\ <<a, b>> \in Seq(S)
      /\ Len(<<c>>) = 1 /\ <<c>>[1] = c
  BY <1>1, <1>2
<1>8. u \o Rest(w, i) = v
  <2>1. Regroups(<<a>>, <<b>>, y)  BY <1>6, <1>7, Regroup
  <2>2. (<<a>> \o <<b>>) \o y = <<a>> \o (<<b>> \o y)  BY <2>1 DEF Regroups
  <2>3. Regroups(u, <<a, b>>, y)  BY <1>0, <1>6, <1>7, Regroup
  <2>4. <<a>> \o <<b>> = <<a, b>>
    <3>1. Append(<<a>>, b) = <<a>> \o <<b>>  BY <1>1, <1>7, AppendIsConcat
    <3>2. <<a, b>> = Append(<<a>>, b)  OBVIOUS
    <3> QED  BY <3>1, <3>2
  <2> QED  BY <1>6, <2>2, <2>3, <2>4 DEF Put, Regroups
<1>9. v \in WordsOver(V) /\ NoBetter(v, p) /\ Reached(token, v)
  <2> HIDE DEF v
  <2> QED  BY <1>8 DEF Written
<1>10. Ranked(v) # {} /\ Best(v) = <<a, b>> /\ NoneIn(v, <<a, b>>, Len(u))
  <2> HIDE DEF v
  <2>1. PICK m \in Nat : m = Len(y)  BY <1>6, LenProperties
  <2>2. HasPair(S, v, u, a, b, y, n, m)  BY <1>0, <1>1, <1>4, <1>6, <2>1, PutPair DEF v
  <2>3. Len(v) = n + 2 + m
        /\ \A k \in 1 .. n + 2 + m :
              v[k] = IF k <= n THEN u[k] ELSE IF k = n + 1 THEN a ELSE IF k = n + 2 THEN b
                     ELSE y[k - (n + 2)]
    BY <2>2 DEF HasPair
  <2>4. v[n + 1] = a /\ v[n + 2] = b /\ \A k \in 1 .. n : v[k] = u[k]
    <3>1. n + 1 \in 1 .. n + 2 + m /\ ~(n + 1 <= n) /\ n + 2 \in 1 .. n + 2 + m /\ ~(n + 2 <= n)
          /\ n + 2 # n + 1
      OBVIOUS
    <3> QED  BY <2>3, <3>1
  <2>5. p \in Ranked(v)
    <3>1. PICK k \in 1 .. Len(v) - 1 : k = n + 1 /\ k + 1 = n + 2  BY <2>3
    <3>2. <<v[k], v[k + 1]>> = p  BY <1>1, <2>4, <3>1
    <3> QED  BY <1>1, <3>1, <3>2 DEF Ranked, Pairs
  <2>6. Best(v) = p  BY <1>9, <2>5, OnlyBest DEF NoBetter
  <2>7. NoneIn(v, p, n)
    <3> SUFFICES ASSUME NEW k \in 1 .. n PROVE <<v[k], v[k + 1]>> # p
      BY DEF NoneIn
    <3>1. CASE k \in 1 .. n - 1
      <4>1. <<u[k], u[k + 1]>> # p  BY <1>4, <3>1 DEF Written, NoneIn
      <4>2. k + 1 \in 1 .. n  BY <3>1
      <4> QED  BY <2>4, <4>1, <4>2
    <3>2. CASE k = n
      <4>1. <<u[n], a>> # p
        <5>1. i <= Len(w) /\ Len(u) > 0  BY <1>4, <1>5, <3>2
        <5> QED  BY <1>3, <1>4, <5>1 DEF Written
      <4> QED  BY <2>4, <3>2, <4>1
    <3> QED  BY <3>1, <3>2
  <2> QED  BY <1>1, <1>4, <2>5, <2>6, <2>7
<1>11. MergedOnce(v) = z
  <2>1. Leftmost(S, v, u, a, b, y)  BY <1>0, <1>1, <1>6, <1>10 DEF Leftmost
  <2> HIDE DEF v
  <2> QED  BY <2>1, MergedThere DEF c
<1>12. z \in WordsOver(V) /\ Reached(token, z)
  <2> HIDE DEF v, z
  <2> QED  BY <1>0, <1>9, <1>10, <1>11, ReachedNext
<1>13. NoBetter(z, p)
  <2>1. NoBetter(Put(u, <<a, b>>, y), <<a, b>>)  BY <1>1, <1>9
  <2>2. <<a, b>> \in Range(Merges) /\ a \o b \in S  BY <1>1, <1>2 DEF c
  <2>3. NoBetter(Put(u, <<a \o b>>, y), <<a, b>>)
    BY <1>0, <1>1, <1>6, <2>1, <2>2, StillNoBetter
  <2> QED  BY <1>1, <2>3 DEF c
<1>14. x \o Rest(w, i + 2) = z  BY DEF Put, y
<1>15. x \in Seq(S) /\ Len(x) = n + 1
      /\ \A k \in 1 .. n + 1 : x[k] = IF k <= n THEN u[k] ELSE c
  <2>1. /\ x \in Seq(S) /\ Len(x) = Len(u) + Len(<<c>>)
        /\ \A k \in 1 .. Len(u) + Len(<<c>>) : x[k] = IF k <= Len(u) THEN u[k] ELSE <<c>>[k - Len(u)]
    BY <1>0, <1>7, ConcatProperties
  <2> HIDE DEF x
  <2>2. ASSUME NEW k \in 1 .. n + 1 PROVE x[k] = IF k <= n THEN u[k] ELSE c
    <3>1. CASE k <= n  BY <1>4, <1>7, <2>1, <3>1
    <3>2. CASE ~(k <= n)
      <4>1. k - n = 1  BY <3>2
      <4> QED  BY <1>4, <1>7, <2>1, <3>2, <4>1
    <3> QED  BY <3>1, <3>2
  <2> QED  BY <1>4, <1>7, <2>1, <2>2
<1>16. x \o from[i + 2] = from[1]
  <2>1. i \in 1 .. Len(w) + 2 /\ i + 2 \in 1 .. Len(w) + 2  BY <1>4
  <2>2. from[i + 2] \in Seq(S)  BY <1>0, <2>1
  <2>3. from[i] = <<c>> \o from[i + 2]
    <3>1. Sweeps(from, w, p)  BY DEF Sweep
    <3> QED  BY <1>5, <2>1, <3>1 DEF Sweeps, c, a, b
  <2>4. u \o from[i] = from[1]  BY DEF Written
  <2>5. \A f \in Seq(S) : Regroups(u, <<c>>, f)  BY <1>0, <1>7, Regroup
  <2>6. \A f \in Seq(S) : x \o f = u \o (<<c>> \o f)  BY <2>5 DEF Regroups
  <2> HIDE DEF x
  <2> QED  BY <2>2, <2>3, <2>4, <2>6
<1> HIDE DEF x, v, z
<1>17. NoneIn(x, p, Len(x) - 1)
  <2> SUFFICES ASSUME NEW k \in 1 .. n PROVE <<x[k], x[k + 1]>> # p
    BY <1>4, <1>15 DEF NoneIn
  <2>1. k \in 1 .. n + 1 /\ k + 1 \in 1 .. n + 1 /\ x[k] = u[k]  BY <1>15
  <2>2. CASE k \in 1 .. n - 1
    <3>1. x[k + 1] = u[k + 1]  BY <1>15, <2>1, <2>2
    <3>2. <<u[k], u[k + 1]>> # p  BY <1>4, <2>2 DEF Written, NoneIn
    <3> QED  BY <2>1, <3>1, <3>2
  <2>3. CASE k = n
    <3>1. x[k + 1] = c  BY <1>15, <2>1, <2>3
    <3> QED  BY <1>1, <1>2, <3>1
  <2> QED  BY <2>2, <2>3
<1>18. <<x[Len(x)], w[i + 2]>> # p
  <2>1. x[Len(x)] = c  BY <1>15
  <2> QED  BY <1>1, <1>2, <2>1
<1>19. x \in WordsOver(V)  BY <1>0, <1>15 DEF WordsOver
<1>20. Written(V, token, w, p, from, i + 2, x)
  BY <1>12, <1>13, <1>14, <1>16, <1>17, <1>18, <1>19 DEF Written
<1> QED  BY <1>20 DEF x, c, a, b

\* At the end what is written is the merged word.
LEMMA SweepReaches ==
    ASSUME NEW V, NEW token \in Seq(V), NEW w \in WordsOver(V), Reached(token, w), Ranked(w) # {}
    PROVE  Merged(w, Best(w)) \in WordsOver(V) /\ Reached(token, Merged(w, Best(w)))
<1> DEFINE p == Best(w)
           W == WordsOver(V)
<1>1. p \in Ranked(w) /\ NoBetter(w, p)  BY BestIs DEF NoBetter
<1>2. W = Seq(SymbolsOver(V)) /\ w \in W  BY DEF WordsOver
<1> HIDE DEF p, W
<1>3. p[1] \o p[2] \in SymbolsOver(V)  BY <1>1, <1>2, PairOf, SymbolsJoin
<1>4. PICK from \in [1 .. Len(w) + 2 -> W] : Sweeps(from, w, p) /\ Merged(w, p) = from[1]
  BY <1>2, <1>3, MergedBySteps
<1>5. Sweep(V, token, w, p, from)  BY <1>1, <1>4 DEF Sweep, W
<1>6. PICK l \in Nat : l = Len(w)  BY <1>2, LenProperties
<1> DEFINE Here(i) == \E u : Written(V, token, w, p, from, i, u)
           P == {k \in Nat : k <= l => \E i \in k + 1 .. l + 1 : Here(i)}
<1>7. 0 \in P
  <2>1. Here(1)  BY <1>5, WrittenFirst
  <2>2. 1 \in 0 + 1 .. l + 1  BY <1>6
  <2> HIDE DEF Here
  <2> QED  BY <2>1, <2>2
<1>8. ASSUME NEW k \in Nat, k \in P PROVE k + 1 \in P
  <2> SUFFICES ASSUME k + 1 <= l PROVE \E i \in (k + 1) + 1 .. l + 1 : Here(i)
    OBVIOUS
  <2>1. PICK i \in k + 1 .. l + 1 : Here(i)
    <3> HIDE DEF Here
    <3> QED  BY <1>8, <1>6
  <2>2. CASE i # k + 1
    <3>1. i \in (k + 1) + 1 .. l + 1  BY <1>6, <2>2
    <3> HIDE DEF Here
    <3> QED  BY <2>1, <3>1
  <2>3. CASE i = k + 1
    <3>1. PICK u : Written(V, token, w, p, from, i, u)  BY <2>1
    <3>2. i \in 1 .. Len(w)  BY <1>6, <2>3
    <3>3. CASE i < Len(w) /\ <<w[i], w[i + 1]>> = p
      <4>1. i \in 1 .. Len(w) - 1 /\ i + 2 \in (k + 1) + 1 .. l + 1  BY <1>6, <2>3, <3>2, <3>3
      <4>2. Here(i + 2)  BY <1>5, <3>1, <3>3, <4>1, WrittenMerged
      <4> HIDE DEF Here
      <4> QED  BY <4>1, <4>2
    <3>4. CASE ~(i < Len(w) /\ <<w[i], w[i + 1]>> = p)
      <4>1. i + 1 \in (k + 1) + 1 .. l + 1  BY <1>6, <2>3, <3>2
      <4>2. Here(i + 1)  BY <1>5, <3>1, <3>2, <3>4, WrittenCopied
      <4> HIDE DEF Here
      <4> QED  BY <4>1, <4>2
    <3> QED  BY <3>3, <3>4
  <2> QED  BY <2>2, <2>3
<1>9. PICK u : Written(V, token, w, p, from, l + 1, u)
  <2>1. l \in P
    <3> HIDE DEF P
    <3>1. Nat \subseteq P  BY <1>7, <1>8, Induct
    <3> QED  BY <3>1
  <2>2. \E i \in l + 1 .. l + 1 : Here(i)
    <3> HIDE DEF Here
    <3> QED  BY <2>1
  <2> HIDE DEF P
  <2> QED  BY <2>2
<1>10. u \in W /\ u \o from[l + 1] = from[1]  BY <1>9 DEF Written, W
<1>11. from[l + 1] = << >>
  <2>1. l + 1 \in 1 .. Len(w) + 2 /\ l + 1 > Len(w)  BY <1>6
  <2> QED  BY <1>4, <2>1 DEF Sweeps
<1>12. u \o << >> = u  BY <1>2, <1>10, ConcatEmptySeq
<1>13. Rest(w, l + 1) = << >>
  <2>1. l + 1 \in Int /\ l \in Int /\ l < l + 1  OBVIOUS
  <2> QED  BY <1>6, <2>1, SubSeqEmpty DEF Rest
<1>14. Reached(token, u)  BY <1>9, <1>12, <1>13 DEF Written
<1>15. Merged(w, p) = u  BY <1>4, <1>10, <1>11, <1>12
<1> QED  BY <1>10, <1>14, <1>15 DEF p, W

\* The word that is merged is one that single merges reach.
WordReached ==
    pc = "merge" => \E V : \E token \in Seq(V) : word \in WordsOver(V) /\ Reached(token, word)

\* Each round of bpe goes from a word that is reached to another.
LEMMA ReachedKept == TypeInv /\ WordReached /\ [Next]_vars => WordReached'
<1> SUFFICES ASSUME TypeInv, WordReached, [Next]_vars PROVE WordReached'
  OBVIOUS
<1>1. CASE MatchPattern
  <2> DEFINE end == MatchEnd(piece, pos)
             part == SubSeq(piece, pos + 1, end)
             token == Visibly(part)
             bytes == WideToUtf8(part)
  <2>1. Len(piece) \in Nat /\ pos \in Nat /\ pos < Len(piece) /\ Listed(piece)
    BY <1>1 DEF MatchPattern, Listed, TypeInv
  <2>2. end \in pos .. Len(piece)  BY <2>1, MatchEnds
  <2>3. Listed(part)  BY <2>1, <2>2, CutListed
  <2> HIDE DEF part, end
  <2>4. Listed(bytes)  BY <2>3, BytesListed
  <2> HIDE DEF bytes
  <2>5. DOMAIN bytes = 1 .. Len(bytes) /\ Len(bytes) \in Nat  BY <2>4, MapListed
  <2> DEFINE V == {BytesToUnicode[bytes[i]] : i \in 1 .. Len(bytes)}
  <2>6. token = [i \in 1 .. Len(bytes) |-> BytesToUnicode[bytes[i]]]
    BY <2>5 DEF Visibly, bytes
  <2>7. token \in [1 .. Len(bytes) -> V]  BY <2>6
  <2> HIDE DEF token, V
  <2>8. token \in Seq(V)  BY <2>5, <2>7, SeqDef
  <2>9. word' = Characters(token)  BY <1>1 DEF MatchPattern, token, part, end
  <2>10. word' \in WordsOver(V) /\ Reached(token, word')  BY <2>8, <2>9, ReachedFirst
  <2> QED  BY <2>8, <2>10 DEF WordReached
<1>2. CASE Merge
  <2>1. PICK V : \E token \in Seq(V) : word \in WordsOver(V) /\ Reached(token, word)
    BY <1>2 DEF Merge, WordReached
  <2>2. PICK token \in Seq(V) : word \in WordsOver(V) /\ Reached(token, word)  BY <2>1
  <2>3. word' = Merged(word, Best(word)) /\ Ranked(word) # {}  BY <1>2 DEF Merge
  <2>4. word' \in WordsOver(V) /\ Reached(token, word')  BY <2>2, <2>3, SweepReaches
  <2> QED  BY <2>4 DEF WordReached
<1>3. ASSUME pc' # "merge" PROVE WordReached'
  BY <1>3 DEF WordReached
<1>4. CASE UNCHANGED vars
  BY <1>4 DEF vars, WordReached
<1>5. CASE Scan \/ ScanEnd \/ TakeSpecial \/ TakeText \/ PieceEnd \/ MergeEnd \/ Encoded \/ DecodeToken
  <2>1. pc' # "merge"
    BY <1>5 DEF Scan, ScanEnd, TakeSpecial, TakeText, PieceEnd, MergeEnd, Encoded, DecodeToken
  <2> QED  BY <1>3, <2>1
<1>6. CASE Terminating  BY <1>4, <1>6 DEF Terminating
<1> QED  BY <1>1, <1>2, <1>4, <1>5, <1>6 DEF Next

(***************************************************************************)
(* For every text and every such table: when bpe finds no pair to merge,   *)
(* the word is what merging one pair at a time, always the leftmost of the *)
(* lowest rank, makes of the same characters.                              *)
(***************************************************************************)
THEOREM MergesAlwaysByRank == Spec => []MergesByRank
<1>1. Init => WordReached  BY DEF Init, WordReached
<1>2. WordReached => MergesByRank
  <2> SUFFICES ASSUME WordReached, pc = "merge", Ranked(word) = {}
               PROVE  word = MergedByRank(FlattenSeq(word))
    BY DEF MergesByRank
  <2>1. PICK V : \E token \in Seq(V) : word \in WordsOver(V) /\ Reached(token, word)
    BY DEF WordReached
  <2>2. PICK token \in Seq(V) : Reached(token, word)  BY <2>1
  <2>3. PICK n \in 0 .. Len(token) : After(token)[n] = word /\ FlattenSeq(word) = token
    BY <2>2 DEF Reached
  <2>4. MergedByRank(token) = After(token)[n]  BY <2>3, AfterStays
  <2> QED  BY <2>3, <2>4
<1> QED  BY <1>1, <1>2, ReachedKept, TypesStart, TypesKept, PTL DEF Spec

(***************************************************************************)
(* Mapping, slices and flattening.  A slice of a flattened sequence, and a *)
(* function applied to each element, are found element by element.         *)
(***************************************************************************)

\* A function applied to each element.
Mapped(f, s) == [i \in DOMAIN s |-> f[s[i]]]

\* A sequence of the n elements of s, a function applied to each.
IsMap(S, c, f, s, n) ==
    /\ c \in Seq(S) /\ Len(c) = n
    /\ \A i \in 1 .. n : c[i] = f[s[i]]

\* What a function applied to a sequence is, element by element.
LEMMA MappedIs ==
    ASSUME NEW D, NEW S, NEW f \in [D -> S], NEW s \in Seq(D), NEW n \in Nat, n = Len(s)
    PROVE  IsMap(S, Mapped(f, s), f, s, n)
<1>1. DOMAIN s = 1 .. n /\ \A i \in 1 .. n : s[i] \in D
  BY LenProperties, ElementOfSeq
<1>2. Mapped(f, s) \in [1 .. n -> S]  BY <1>1 DEF Mapped
<1>3. \A i \in 1 .. n : Mapped(f, s)[i] = f[s[i]]  BY <1>1 DEF Mapped
<1> QED  BY <1>1, <1>2, <1>3, FunctionListed DEF IsMap

\* Two sequences put together, of n and m elements.
IsJoin(S, c, a, b, n, m) ==
    /\ c \in Seq(S) /\ Len(c) = n + m
    /\ \A i \in 1 .. n + m : c[i] = IF i <= n THEN a[i] ELSE b[i - n]

\* Concatenation joins.
LEMMA Joins ==
    ASSUME NEW S, NEW a \in Seq(S), NEW b \in Seq(S),
           NEW n \in Nat, n = Len(a), NEW m \in Nat, m = Len(b)
    PROVE  IsJoin(S, a \o b, a, b, n, m)
BY ConcatProperties DEF IsJoin

Distributes(f, s, t) == Mapped(f, s \o t) = Mapped(f, s) \o Mapped(f, t)

\* A function applied to each element distributes over concatenation.
LEMMA MappedConcat ==
    ASSUME NEW D, NEW S, NEW f \in [D -> S], NEW s \in Seq(D), NEW t \in Seq(D)
    PROVE  Distributes(f, s, t)
<1> DEFINE st == s \o t
           a == Mapped(f, s)
           b == Mapped(f, t)
           ab == a \o b
           c == Mapped(f, st)
<1>1. PICK n \in Nat, m \in Nat : n = Len(s) /\ m = Len(t)  BY LenProperties
<1>2. IsJoin(D, st, s, t, n, m)  BY <1>1, Joins
<1>3. IsMap(S, a, f, s, n) /\ IsMap(S, b, f, t, m)  BY <1>1, MappedIs
<1>4. st \in Seq(D) /\ Len(st) = n + m /\ n + m \in Nat  BY <1>2 DEF IsJoin
<1> HIDE DEF st, a, b
<1>5. IsJoin(S, ab, a, b, n, m)
  <2>1. a \in Seq(S) /\ Len(a) = n /\ b \in Seq(S) /\ Len(b) = m  BY <1>3 DEF IsMap
  <2> QED  BY <2>1, Joins
<1>6. IsMap(S, c, f, st, n + m)  BY <1>4, MappedIs
<1> HIDE DEF ab, c
<1>7. ASSUME NEW i \in 1 .. n + m PROVE c[i] = ab[i]
  <2>0. c[i] = f[st[i]]  BY <1>6 DEF IsMap
  <2>1. CASE i <= n
    <3>1. i \in 1 .. n  BY <2>1
    <3>2. st[i] = s[i] /\ ab[i] = a[i]  BY <1>2, <1>5, <2>1 DEF IsJoin
    <3>3. a[i] = f[s[i]]  BY <1>3, <3>1 DEF IsMap
    <3> QED  BY <2>0, <3>2, <3>3
  <2>2. CASE ~(i <= n)
    <3>1. PICK j \in 1 .. m : j = i - n  BY <2>2
    <3>2. st[i] = t[j] /\ ab[i] = b[j]  BY <1>2, <1>5, <2>2, <3>1 DEF IsJoin
    <3>3. b[j] = f[t[j]]  BY <1>3, <3>1 DEF IsMap
    <3> QED  BY <2>0, <3>2, <3>3
  <2> QED  BY <2>1, <2>2
<1>8. c = ab
  <2>1. ab \in Seq(S) /\ Len(ab) = n + m  BY <1>5 DEF IsJoin
  <2>2. c \in Seq(S) /\ Len(c) = n + m  BY <1>6 DEF IsMap
  <2> QED  BY <1>7, <2>1, <2>2, SeqEqual
<1> QED  BY <1>8 DEF c, ab, a, b, st, Distributes

\* A slice, in two parts.
Adjoin(s, i, k, n) == SubSeq(s, i + 1, k) \o SubSeq(s, k + 1, n) = SubSeq(s, i + 1, n)

\* Slices that meet concatenate to the slice of both.
LEMMA Adjoins ==
    ASSUME NEW S, NEW s \in Seq(S), NEW i \in Nat, NEW k \in Nat, NEW n \in Nat,
           i <= k, k <= n, n <= Len(s)
    PROVE  Adjoin(s, i, k, n)
<1>1. PICK l \in Nat : l = Len(s)  BY LenProperties
<1>2. PICK m \in 1 .. l + 1 : m = i + 1  BY <1>1
<1>3. m \in 1 .. Len(s) + 1 /\ k \in m - 1 .. Len(s) /\ n \in k .. Len(s)  BY <1>1, <1>2
<1>4. SubSeq(s, m, k) \o SubSeq(s, k + 1, n) = SubSeq(s, m, n)  BY <1>3, ConcatAdjacentSubSeq
<1> QED  BY <1>2, <1>4 DEF Adjoin

\* Where the k-th of the sequences ends when they are put together.
EndOf(seqs, k) == Len(FlattenSeq(SubSeq(seqs, 1, k)))

\* The place of each sequence.
Places(seqs) ==
    /\ EndOf(seqs, 0) = 0 /\ EndOf(seqs, Len(seqs)) = Len(FlattenSeq(seqs))
    /\ \A k \in 0 .. Len(seqs) : EndOf(seqs, k) \in 0 .. Len(FlattenSeq(seqs))
    /\ \A j, k \in 0 .. Len(seqs) : j <= k => EndOf(seqs, j) <= EndOf(seqs, k)
    /\ \A k \in 1 .. Len(seqs) :
          /\ EndOf(seqs, k) = EndOf(seqs, k - 1) + Len(seqs[k])
          /\ \A i \in 1 .. Len(seqs[k]) : FlattenSeq(seqs)[EndOf(seqs, k - 1) + i] = seqs[k][i]

\* Each sequence stands behind those before it.
LEMMA Placed ==
    ASSUME NEW S, NEW seqs \in Seq(Seq(S))
    PROVE  Places(seqs)
<1> DEFINE N == Len(seqs)
           front(k) == SubSeq(seqs, 1, k)
           back(k) == SubSeq(seqs, k + 1, N)
           whole == FlattenSeq(seqs)
<1>1. N \in Nat /\ whole \in Seq(S) /\ Len(whole) \in Nat  BY LenProperties, FlattenListed
<1>2. ASSUME NEW j \in 0 .. N, NEW k \in 0 .. N, j <= k
      PROVE  /\ front(j) \in Seq(Seq(S)) /\ SubSeq(seqs, j + 1, k) \in Seq(Seq(S))
             /\ front(j) \o SubSeq(seqs, j + 1, k) = front(k)
  <2>0. PICK z \in Nat : z = 0  OBVIOUS
  <2>1. Adjoin(seqs, z, j, k)  BY <1>1, <1>2, <2>0, Adjoins
  <2>2. z <= j /\ j <= Len(seqs) /\ k <= Len(seqs) /\ j \in Nat /\ k \in Nat  BY <1>1, <2>0
  <2>3. SubSeq(seqs, z + 1, j) \in Seq(Seq(S)) /\ SubSeq(seqs, j + 1, k) \in Seq(Seq(S))
    BY <1>2, <2>2, SliceIs
  <2> QED  BY <2>0, <2>1, <2>3 DEF Adjoin
<1>3. ASSUME NEW k \in 0 .. N
      PROVE  FlattenSeq(front(k)) \in Seq(S) /\ EndOf(seqs, k) \in Nat
  <2>1. front(k) \in Seq(Seq(S))  BY <1>2
  <2> HIDE DEF front
  <2>2. FlattenSeq(front(k)) \in Seq(S)  BY <2>1, FlattenListed
  <2> QED  BY <2>2, LenProperties DEF EndOf, front
<1>4. EndOf(seqs, N) = Len(whole)
  <2>1. SubSeq(seqs, 1, N) = seqs  BY SubSeqFull
  <2> QED  BY <2>1 DEF EndOf
<1>5. EndOf(seqs, 0) = 0
  <2>1. SubSeq(seqs, 1, 0) = << >>  BY SubSeqEmpty
  <2>2. FlattenSeq(<< >>) = << >> /\ Len(<< >>) = 0
    <3>1. Len(<< >>) = 0  BY EmptySeq
    <3> QED  BY <3>1 DEF FlattenSeq
  <2> QED  BY <2>1, <2>2 DEF EndOf
<1>6. ASSUME NEW j \in 0 .. N, NEW k \in 0 .. N, j <= k PROVE EndOf(seqs, j) <= EndOf(seqs, k)
  <2> DEFINE a == front(j)
             b == SubSeq(seqs, j + 1, k)
             c == front(k)
  <2>1. a \in Seq(Seq(S)) /\ b \in Seq(Seq(S)) /\ a \o b = c  BY <1>2, <1>6
  <2>2. EndOf(seqs, j) = Len(FlattenSeq(a)) /\ EndOf(seqs, k) = Len(FlattenSeq(c))  BY DEF EndOf
  <2> HIDE DEF a, b, c
  <2>3. FlattenSeq(c) = FlattenSeq(a) \o FlattenSeq(b)  BY <2>1, FlattenConcat
  <2>4. FlattenSeq(a) \in Seq(S) /\ FlattenSeq(b) \in Seq(S)  BY <2>1, FlattenListed
  <2>5. /\ Len(FlattenSeq(c)) = Len(FlattenSeq(a)) + Len(FlattenSeq(b))
        /\ Len(FlattenSeq(a)) \in Nat /\ Len(FlattenSeq(b)) \in Nat
    BY <2>3, <2>4, ConcatProperties, LenProperties
  <2> QED  BY <2>2, <2>5
<1>7. ASSUME NEW k \in 1 .. N
      PROVE  /\ EndOf(seqs, k) = EndOf(seqs, k - 1) + Len(seqs[k])
             /\ \A i \in 1 .. Len(seqs[k]) : whole[EndOf(seqs, k - 1) + i] = seqs[k][i]
  <2>0. PICK j \in 0 .. N : j = k - 1 /\ j + 1 = k /\ j <= k /\ k <= N /\ k \in 0 .. N  BY <1>1
  <2> DEFINE a == front(j)
             x == seqs[k]
             c == front(k)
             b == back(k)
  <2>1. a \in Seq(Seq(S)) /\ c \in Seq(Seq(S)) /\ b \in Seq(Seq(S)) /\ x \in Seq(S)
        /\ c = Append(a, x) /\ c \o b = seqs
    <3>1. a \in Seq(Seq(S)) /\ x \in Seq(S)  BY <1>2, <2>0, ElementOfSeq
    <3>2. c = a \o <<x>>
      <4>1. 1 \in 1 .. Len(seqs) /\ k \in 1 .. Len(seqs)  BY <1>1
      <4>2. SubSeq(seqs, 1, k) = SubSeq(seqs, 1, k - 1) \o <<seqs[k]>>
        BY <4>1, SubSeqRecursiveSecond
      <4> QED  BY <2>0, <4>2
    <3>3. Append(a, x) = a \o <<x>>
      <4> HIDE DEF a, x
      <4> QED  BY <3>1, AppendIsConcat
    <3>4. c \in Seq(Seq(S)) /\ b \in Seq(Seq(S)) /\ c \o b = front(N)
      <4>1. N \in 0 .. N  BY <1>1
      <4> QED  BY <1>2, <2>0, <4>1
    <3>5. front(N) = seqs  BY SubSeqFull
    <3> QED  BY <3>1, <3>2, <3>3, <3>4, <3>5
  <2>2. EndOf(seqs, j) = Len(FlattenSeq(a)) /\ EndOf(seqs, k) = Len(FlattenSeq(c))  BY DEF EndOf
  <2> HIDE DEF a, b, c, x
  <2> DEFINE fa == FlattenSeq(a)
             fb == FlattenSeq(b)
             fc == FlattenSeq(c)
  <2>3. fc = fa \o x /\ fa \in Seq(S)  BY <2>1, FlattenAppend
  <2>4. fb \in Seq(S) /\ fc \in Seq(S) /\ whole = fc \o fb  BY <2>1, FlattenListed, FlattenConcat
  <2> HIDE DEF fa, fb, fc, whole
  <2>5. PICK l \in Nat, m \in Nat, r \in Nat : l = Len(fa) /\ m = Len(x) /\ r = Len(fb)
    BY <2>1, <2>3, <2>4, LenProperties
  <2>6. IsJoin(S, fc, fa, x, l, m)  BY <2>1, <2>3, <2>5, Joins
  <2>7. PICK h \in Nat : h = l + m /\ h = Len(fc)  BY <2>6 DEF IsJoin
  <2>11. IsJoin(S, whole, fc, fb, h, r)  BY <2>4, <2>5, <2>7, Joins
  <2>8. ASSUME NEW i \in 1 .. m PROVE whole[l + i] = x[i]
    <3>1. PICK g \in 1 .. l + m : g = l + i  OBVIOUS
    <3>2. ~(g <= l) /\ g - l = i /\ g \in 1 .. h + r /\ g <= h  BY <2>7, <3>1
    <3>3. fc[g] = x[i]  BY <2>6, <3>1, <3>2 DEF IsJoin
    <3>4. whole[g] = fc[g]  BY <2>11, <3>2 DEF IsJoin
    <3> QED  BY <3>1, <3>3, <3>4
  <2>9. EndOf(seqs, j) = l  BY <2>2, <2>5 DEF fa
  <2>10. EndOf(seqs, k) = l + m  BY <2>2, <2>6 DEF fc, IsJoin
  <2> QED  BY <2>0, <2>5, <2>8, <2>9, <2>10 DEF x
<1>8. \A k \in 0 .. N : EndOf(seqs, k) \in 0 .. Len(whole)
  <2> TAKE k \in 0 .. N
  <2>1. N \in 0 .. N /\ k <= N  BY <1>1
  <2> HIDE DEF whole
  <2> QED  BY <1>1, <1>3, <1>4, <1>6, <2>1
<1> HIDE DEF whole
<1> QED  BY <1>4, <1>5, <1>6, <1>7, <1>8 DEF Places, whole

(***************************************************************************)
(* UTF-8.  Decoding bytes taken from anywhere in a text gives the          *)
(* characters that lie completely among them: a byte that begins no        *)
(* character is skipped and an unfinished one at the end is dropped.       *)
(***************************************************************************)

Bytes == 0 .. 255

\* b is what a first byte announces: that byte, and bytes that announce nothing.
IsCode(b, n) ==
    /\ b \in Seq(Bytes) /\ Len(b) = n
    /\ Announced(b[1]) = n /\ \A k \in 2 .. n : Announced(b[k]) = 0

\* The bytes of a character stand at i.
StandsAt(b, n, bytes, i) == \A k \in 1 .. n : bytes[i + (k - 1)] = b[k]

\* b is a character of n bytes, which are assembled to it.
Encodes(b, n, c) ==
    /\ IsCode(b, n)
    /\ \A bytes : \A i \in Int : StandsAt(b, n, bytes, i) => Assembled(bytes, i, n) = c

\* Decoding a character of whatever length gives it back.
LEMMA CodeBytes ==
    ASSUME NEW c \in CodePoints
    PROVE  \E n \in 1 .. 4 : Encodes(BytesOf(c), n, c)
<1> DEFINE b == BytesOf(c)
<1>0. c \in 0 .. LastCode  BY SMT DEF CodePoints
<1>00. LastCode \in Int  BY SMT DEF LastCode
<1>1. c \in Int /\ 0 <= c /\ c <= LastCode  BY <1>0, <1>00, SMT
<1>2. CASE c < 128
  <2>1. b = <<c>>  BY <1>2, SMT DEF BytesOf
  <2> HIDE DEF b
  <2>2. IsCode(b, 1)  BY <1>1, <1>2, <2>1, SMT DEF IsCode, Announced, Bytes
  <2>3. ASSUME NEW i \in Int, NEW bytes, StandsAt(b, 1, bytes, i) PROVE Assembled(bytes, i, 1) = c
    <3>1. bytes[i] = c  BY <2>1, <2>3, SMT DEF StandsAt
    <3> QED  BY <3>1, SMT DEF Assembled
  <2> QED  BY <2>2, <2>3, SMT DEF b, Encodes
<1>3. CASE ~(c < 128) /\ c < 2048
  <2> DEFINE x == c \div 64
             y == c % 64
  <2>1. x \in 2 .. 31 /\ y \in 0 .. 63 /\ c = x * 64 + y  BY <1>1, <1>3, SMT
  <2>2. b = <<192 + x, 128 + y>>  BY <1>3, SMT DEF BytesOf, Tail6
  <2> HIDE DEF x, y, b
  <2>3. IsCode(b, 2)  BY <2>1, <2>2, SMT DEF IsCode, Announced, Bytes
  <2>4. (192 + x) % 32 = x /\ (128 + y) % 64 = y  BY <2>1, SMT
  <2>5. ASSUME NEW i \in Int, NEW bytes, StandsAt(b, 2, bytes, i) PROVE Assembled(bytes, i, 2) = c
    <3>1. bytes[i] = 192 + x /\ bytes[i + 1] = 128 + y
      BY <2>2, <2>5, SMT DEF StandsAt
    <3> QED  BY <2>1, <2>4, <3>1, SMT DEF Assembled
  <2> QED  BY <2>3, <2>5, SMT DEF b, Encodes
<1>4. CASE ~(c < 2048) /\ c < 65536
  <2> DEFINE x == c \div 4096
             y == (c \div 64) % 64
             z == c % 64
  <2>1. x \in 0 .. 15 /\ y \in 0 .. 63 /\ z \in 0 .. 63 /\ c = x * 4096 + y * 64 + z
    BY <1>1, <1>4, SMT
  <2>2. b = <<224 + x, 128 + y, 128 + z>>  BY <1>1, <1>4, SMT DEF BytesOf, Tail6
  <2> HIDE DEF x, y, z, b
  <2>3. IsCode(b, 3)  BY <2>1, <2>2, SMT DEF IsCode, Announced, Bytes
  <2>4. (224 + x) % 16 = x /\ (128 + y) % 64 = y /\ (128 + z) % 64 = z  BY <2>1, SMT
  <2>5. ASSUME NEW i \in Int, NEW bytes, StandsAt(b, 3, bytes, i) PROVE Assembled(bytes, i, 3) = c
    <3>1. bytes[i] = 224 + x /\ bytes[i + 1] = 128 + y /\ bytes[i + 2] = 128 + z
      BY <2>2, <2>5, SMT DEF StandsAt
    <3> QED  BY <2>1, <2>4, <3>1, SMT DEF Assembled
  <2> QED  BY <2>3, <2>5, SMT DEF b, Encodes
<1>5. CASE ~(c < 65536)
  <2> DEFINE w == c \div 262144
             x == (c \div 4096) % 64
             y == (c \div 64) % 64
             z == c % 64
  <2>0. c <= 1114111  BY <1>1, SMT DEF LastCode
  <2>1. w \in 0 .. 4 /\ x \in 0 .. 63 /\ y \in 0 .. 63 /\ z \in 0 .. 63
        /\ c = w * 262144 + x * 4096 + y * 64 + z
    BY <1>1, <1>5, <2>0, SMT
  <2>2. b = <<240 + w, 128 + x, 128 + y, 128 + z>>  BY <1>1, <1>5, SMT DEF BytesOf, Tail6
  <2> HIDE DEF w, x, y, z, b
  <2>3. IsCode(b, 4)  BY <2>1, <2>2, SMT DEF IsCode, Announced, Bytes
  <2>4. (240 + w) % 8 = w /\ (128 + x) % 64 = x /\ (128 + y) % 64 = y /\ (128 + z) % 64 = z
    BY <2>1, SMT
  <2>5. ASSUME NEW i \in Int, NEW bytes, StandsAt(b, 4, bytes, i) PROVE Assembled(bytes, i, 4) = c
    <3>1. bytes[i] = 240 + w /\ bytes[i + 1] = 128 + x /\ bytes[i + 2] = 128 + y
          /\ bytes[i + 3] = 128 + z
      BY <2>2, <2>5, SMT DEF StandsAt
    <3> QED  BY <2>1, <2>4, <3>1, SMT DEF Assembled
  <2> QED  BY <2>3, <2>5, SMT DEF b, Encodes
<1> QED  BY <1>1, <1>2, <1>3, <1>4, <1>5, SMT

CodeTable == [c \in CodePoints |-> BytesOf(c)]

\* Each code point is written as bytes.
LEMMA CodesAreBytes == CodeTable \in [CodePoints -> Seq(Bytes)]
<1> SUFFICES ASSUME NEW c \in CodePoints PROVE BytesOf(c) \in Seq(Bytes)
  BY DEF CodeTable
<1>1. PICK n \in 1 .. 4 : Encodes(BytesOf(c), n, c)  BY CodeBytes
<1> QED  BY <1>1 DEF Encodes, IsCode

\* wideToUtf8 flattens the bytes of the code points.
LEMMA WideMapped ==
    ASSUME NEW s \in Seq(CodePoints)
    PROVE  /\ WideToUtf8(s) = FlattenSeq(Mapped(CodeTable, s))
           /\ Mapped(CodeTable, s) \in Seq(Seq(Bytes))
           /\ WideToUtf8(s) \in Seq(Bytes)
<1> DEFINE m == Mapped(CodeTable, s)
<1>1. DOMAIN s = 1 .. Len(s) /\ \A i \in 1 .. Len(s) : s[i] \in CodePoints
  BY LenProperties, ElementOfSeq
<1>2. m = [i \in DOMAIN s |-> BytesOf(s[i])]  BY <1>1 DEF Mapped, CodeTable
<1>3. WideToUtf8(s) = FlattenSeq(m)  BY <1>2 DEF WideToUtf8
<1>4. m \in Seq(Seq(Bytes))
  <2>1. PICK n \in Nat : n = Len(s)  BY LenProperties
  <2>2. IsMap(Seq(Bytes), m, CodeTable, s, n)  BY <2>1, CodesAreBytes, MappedIs
  <2> QED  BY <2>2 DEF IsMap
<1> HIDE DEF m
<1>5. FlattenSeq(m) \in Seq(Bytes)  BY <1>4, FlattenListed
<1> QED  BY <1>3, <1>4, <1>5 DEF m

\* wideToUtf8 distributes over concatenation.
LEMMA WideConcat ==
    ASSUME NEW s \in Seq(CodePoints), NEW t \in Seq(CodePoints)
    PROVE  WideToUtf8(s \o t) = WideToUtf8(s) \o WideToUtf8(t)
<1> DEFINE a == Mapped(CodeTable, s)
           b == Mapped(CodeTable, t)
           st == s \o t
<1>1. st \in Seq(CodePoints)  BY ConcatProperties
<1>2. Mapped(CodeTable, st) = a \o b
  <2>1. Distributes(CodeTable, s, t)  BY CodesAreBytes, MappedConcat
  <2> QED  BY <2>1 DEF Distributes
<1>3. a \in Seq(Seq(Bytes)) /\ b \in Seq(Seq(Bytes))  BY WideMapped
<1> HIDE DEF a, b
<1>4. FlattenSeq(a \o b) = FlattenSeq(a) \o FlattenSeq(b)  BY <1>3, FlattenConcat
<1> HIDE DEF st
<1>5. WideToUtf8(st) = FlattenSeq(Mapped(CodeTable, st))  BY <1>1, WideMapped
<1>6. WideToUtf8(s) = FlattenSeq(a) /\ WideToUtf8(t) = FlattenSeq(b)  BY WideMapped DEF a, b
<1> QED  BY <1>2, <1>4, <1>5, <1>6 DEF st

\* The first elements of what a function is applied to.
Fronts(f, s, k) == SubSeq(Mapped(f, s), 1, k) = Mapped(f, SubSeq(s, 1, k))

\* A function applied to the first elements gives the first results.
LEMMA MappedFront ==
    ASSUME NEW D, NEW S, NEW f \in [D -> S], NEW s \in Seq(D), NEW k \in 0 .. Len(s)
    PROVE  Fronts(f, s, k)
<1> DEFINE z == 0
           r == SubSeq(s, 1, k)
           m == Mapped(f, s)
           c == Mapped(f, r)
           u == SubSeq(m, 1, k)
<1>1. PICK n \in Nat : n = Len(s)  BY LenProperties
<1>2. IsMap(S, m, f, s, n)  BY <1>1, MappedIs
<1>3. m \in Seq(S) /\ Len(m) = n  BY <1>2 DEF IsMap
<1> HIDE DEF m
<1>4. k \in Nat /\ z \in Nat /\ z <= k /\ k <= Len(s) /\ k <= Len(m) /\ k <= n  BY <1>1, <1>3
<1>5. /\ SubSeq(s, z + 1, k) \in Seq(D) /\ Len(SubSeq(s, z + 1, k)) = k - z
      /\ \A i \in 1 .. k - z : SubSeq(s, z + 1, k)[i] = s[z + i]
  <2> HIDE DEF z
  <2> QED  BY <1>4, SliceIs
<1>6. /\ SubSeq(m, z + 1, k) \in Seq(S) /\ Len(SubSeq(m, z + 1, k)) = k - z
      /\ \A i \in 1 .. k - z : SubSeq(m, z + 1, k)[i] = m[z + i]
  <2> HIDE DEF z
  <2> QED  BY <1>3, <1>4, SliceIs
<1>7. z + 1 = 1 /\ k - z = k /\ \A i \in 1 .. k : z + i = i  BY <1>4
<1>8. r \in Seq(D) /\ Len(r) = k /\ \A i \in 1 .. k : r[i] = s[i]
  <2> HIDE DEF z
  <2> QED  BY <1>5, <1>7
<1>9. u \in Seq(S) /\ Len(u) = k /\ \A i \in 1 .. k : u[i] = m[i]
  <2> HIDE DEF z
  <2> QED  BY <1>6, <1>7
<1> HIDE DEF r, u
<1>10. IsMap(S, c, f, r, k)  BY <1>4, <1>8, MappedIs
<1>11. c \in Seq(S) /\ Len(c) = k  BY <1>10 DEF IsMap
<1> HIDE DEF c
<1>12. ASSUME NEW i \in 1 .. k PROVE u[i] = c[i]
  <2>1. i \in 1 .. n  BY <1>4
  <2>2. m[i] = f[s[i]]  BY <1>2, <2>1 DEF IsMap
  <2>3. c[i] = f[r[i]]  BY <1>10 DEF IsMap
  <2> QED  BY <1>8, <1>9, <2>2, <2>3
<1>13. u = c  BY <1>4, <1>9, <1>11, <1>12, SeqEqual
<1> QED  BY <1>13 DEF u, m, c, r, Fronts

\* Where the k-th character of a text ends in its bytes.
Start(t, k) == Len(WideToUtf8(SubSeq(t, 1, k)))

\* The bytes of character c are those behind a, up to z.
CharacterAt(bytes, a, z, c) ==
    /\ z - a \in 1 .. 4 /\ Announced(bytes[a + 1]) = z - a
    /\ \A q \in a + 2 .. z : Announced(bytes[q]) = 0
    /\ \A n, b : \A i \in Int :
            n = z - a /\ (\A q \in 0 .. n - 1 : b[i + q] = bytes[a + 1 + q])
                => Assembled(b, i, n) = c

\* Where the bytes of a character stand, decoding finds that character.
LEMMA EncodedThere ==
    ASSUME NEW b, NEW n \in 1 .. 4, NEW c, Encodes(b, n, c), NEW bytes, NEW a \in Nat,
           \A i \in 1 .. n : bytes[a + i] = b[i]
    PROVE  CharacterAt(bytes, a, a + n, c)
<1>1. (a + n) - a = n  OBVIOUS
<1>2. Announced(bytes[a + 1]) = n
  <2>1. bytes[a + 1] = b[1]  OBVIOUS
  <2> QED  BY <2>1 DEF Encodes, IsCode
<1>3. ASSUME NEW q \in a + 2 .. a + n PROVE Announced(bytes[q]) = 0
  <2>1. PICK i \in 2 .. n : i = q - a  OBVIOUS
  <2>2. bytes[q] = b[i]  BY <2>1
  <2> QED  BY <2>2 DEF Encodes, IsCode
<1>4. ASSUME NEW d, NEW i \in Int, \A q \in 0 .. n - 1 : d[i + q] = bytes[a + 1 + q]
      PROVE  Assembled(d, i, n) = c
  <2>1. ASSUME NEW k \in 1 .. n PROVE d[i + (k - 1)] = b[k]
    <3>1. PICK q \in 0 .. n - 1 : q = k - 1  OBVIOUS
    <3>2. d[i + q] = bytes[a + 1 + q] /\ a + 1 + q = a + k  BY <1>4, <3>1
    <3> QED  BY <3>1, <3>2
  <2>2. StandsAt(b, n, d, i)  BY <2>1 DEF StandsAt
  <2> QED  BY <2>2 DEF Encodes
<1>5. n \in 1 .. 4  OBVIOUS
<1>6. \A l, d : \A i \in Int :
          l = (a + n) - a /\ (\A q \in 0 .. l - 1 : d[i + q] = bytes[a + 1 + q])
            => Assembled(d, i, l) = c
  <2> HIDE DEF Encodes
  <2> QED  BY <1>1, <1>4
<1> HIDE DEF Encodes
<1> QED  BY <1>1, <1>2, <1>3, <1>5, <1>6 DEF CharacterAt

\* A text of T characters, and the place of each.
TextPlaces(t, T) ==
    /\ WideToUtf8(t) \in Seq(Bytes)
    /\ Start(t, 0) = 0 /\ Start(t, T) = Len(WideToUtf8(t))
    /\ \A k \in 0 .. T : Start(t, k) \in Nat
    /\ \A k \in 1 .. T : CharacterAt(WideToUtf8(t), Start(t, k - 1), Start(t, k), t[k])
    /\ \A j, k \in 0 .. T : j < k => Start(t, j) < Start(t, k)

\* The characters of a text follow each other in its bytes.
LEMMA TextPlaced ==
    ASSUME NEW t \in Seq(CodePoints), NEW T \in Nat, T = Len(t)
    PROVE  TextPlaces(t, T)
<1> DEFINE m == Mapped(CodeTable, t)
           w == WideToUtf8(t)
<1>1. w = FlattenSeq(m) /\ m \in Seq(Seq(Bytes)) /\ w \in Seq(Bytes)  BY WideMapped
<1>2. IsMap(Seq(Bytes), m, CodeTable, t, T)
  BY CodesAreBytes, MappedIs
<1>3. Len(m) = T /\ \A k \in 1 .. T : m[k] = BytesOf(t[k]) /\ t[k] \in CodePoints
  <2>1. \A k \in 1 .. T : t[k] \in CodePoints  BY ElementOfSeq
  <2>2. \A c \in CodePoints : CodeTable[c] = BytesOf(c)  BY DEF CodeTable
  <2> QED  BY <1>2, <2>1, <2>2 DEF IsMap
<1>4. ASSUME NEW k \in 0 .. T PROVE Start(t, k) = EndOf(m, k)
  <2> DEFINE r == SubSeq(t, 1, k)
  <2>0. r \in Seq(CodePoints)
    <3>1. \A i \in 1 .. k : t[i] \in CodePoints  BY <1>3
    <3> QED  BY <3>1, SubSeqProperties
  <2>3. k \in 0 .. Len(t)  OBVIOUS
  <2>4. Fronts(CodeTable, t, k)
    <3> HIDE DEF m, w, r
    <3> QED  BY <2>3, CodesAreBytes, MappedFront
  <2>1. SubSeq(m, 1, k) = Mapped(CodeTable, r)  BY <2>4 DEF Fronts
  <2> HIDE DEF r
  <2>2. WideToUtf8(r) = FlattenSeq(Mapped(CodeTable, r))  BY <2>0, WideMapped
  <2> QED  BY <2>1, <2>2 DEF Start, EndOf, r
<1> HIDE DEF m, w
<1>5. Places(m)
  <2>1. \A s \in Seq(Seq(Bytes)) : Places(s)  BY Placed
  <2> QED  BY <1>1, <2>1
<1>6. /\ EndOf(m, 0) = 0 /\ EndOf(m, T) = Len(w)
      /\ \A k \in 0 .. T : EndOf(m, k) \in 0 .. Len(w)
      /\ \A j, k \in 0 .. T : j <= k => EndOf(m, j) <= EndOf(m, k)
      /\ \A k \in 1 .. T :
          /\ EndOf(m, k) = EndOf(m, k - 1) + Len(m[k])
          /\ \A i \in 1 .. Len(m[k]) : w[EndOf(m, k - 1) + i] = m[k][i]
  BY <1>1, <1>3, <1>5 DEF Places
<1>7. Len(w) \in Nat  BY <1>1, LenProperties
<1>8. \A k \in 0 .. T : Start(t, k) \in Nat  BY <1>4, <1>6, <1>7
<1>9. ASSUME NEW k \in 1 .. T
      PROVE  /\ CharacterAt(w, Start(t, k - 1), Start(t, k), t[k])
             /\ Start(t, k - 1) < Start(t, k)
  <2>1. PICK n \in 1 .. 4 : Encodes(BytesOf(t[k]), n, t[k])  BY <1>3, CodeBytes
  <2>2. Len(m[k]) = n /\ m[k] = BytesOf(t[k])  BY <1>3, <2>1 DEF Encodes, IsCode
  <2>3. k - 1 \in 0 .. T /\ k \in 0 .. T  OBVIOUS
  <2>4. PICK a \in Nat : a = Start(t, k - 1) /\ a = EndOf(m, k - 1)  BY <1>4, <1>8, <2>3
  <2>5. Start(t, k) = a + n  BY <1>4, <1>6, <2>2, <2>3, <2>4
  <2>6. \A i \in 1 .. n : w[a + i] = BytesOf(t[k])[i]  BY <1>6, <2>2, <2>4
  <2>7. CharacterAt(w, a, a + n, t[k])  BY <2>1, <2>6, EncodedThere
  <2>8. a < a + n  OBVIOUS
  <2> QED  BY <2>4, <2>5, <2>7, <2>8
<1>10. ASSUME NEW j \in 0 .. T, NEW k \in 0 .. T, j < k PROVE Start(t, j) < Start(t, k)
  <2>1. k - 1 \in 0 .. T /\ k \in 1 .. T /\ j <= k - 1  BY <1>10
  <2>2. EndOf(m, j) <= EndOf(m, k - 1)  BY <1>6, <2>1
  <2>3. Start(t, k - 1) < Start(t, k)  BY <1>9, <2>1
  <2> QED  BY <1>4, <1>8, <2>1, <2>2, <2>3
<1>11. 0 \in 0 .. T /\ T \in 0 .. T  OBVIOUS
<1> QED  BY <1>1, <1>4, <1>6, <1>8, <1>9, <1>10, <1>11 DEF TextPlaces, w

-----------------------------------------------------------------------------
\* What is decoded from p does not change until p + d.
Same(f, p, d) == \A i \in p .. p + d - 1 : f[i] = f[i + 1]

\* What is skipped adds nothing.
LEMMA Skipped ==
    ASSUME NEW f, NEW p \in Nat, NEW d \in Nat, Same(f, p, d)
    PROVE  f[p] = f[p + d]
<1> DEFINE P == {e \in Nat : e <= d => f[p] = f[p + e]}
<1>1. 0 \in P  OBVIOUS
<1>2. ASSUME NEW e \in Nat, e \in P PROVE e + 1 \in P
  <2> SUFFICES ASSUME e + 1 <= d PROVE f[p] = f[p + (e + 1)]
    OBVIOUS
  <2>1. f[p] = f[p + e]  BY <1>2
  <2>2. PICK i \in p .. p + d - 1 : i = p + e  OBVIOUS
  <2>3. f[i] = f[i + 1] /\ i + 1 = p + (e + 1)  BY <2>2 DEF Same
  <2> QED  BY <2>1, <2>2, <2>3
<1>3. d \in P
  <2> HIDE DEF P
  <2>1. Nat \subseteq P  BY <1>1, <1>2, Induct
  <2> QED  BY <2>1
<1> QED  BY <1>3

\* One character after the other makes a slice of the text.
Gathers(g, t, j, m) == g[m] = << >> /\ \A k \in j + 1 .. m : g[k - 1] = <<t[k]>> \o g[k]

IsSlice(s, t, j, m) == s = SubSeq(t, j + 1, m)

\* Characters put together so are the slice.
LEMMA Gathered ==
    ASSUME NEW S, NEW t \in Seq(S), NEW j \in Nat, NEW m \in Nat, j <= m, m <= Len(t),
           NEW g, Gathers(g, t, j, m)
    PROVE  IsSlice(g[j], t, j, m)
<1> DEFINE P == {d \in Nat : d <= m - j => g[m - d] = SubSeq(t, m - d + 1, m)}
<1>0. PICK T \in Nat : T = Len(t)  BY LenProperties
<1>1. 0 \in P
  <2>1. SubSeq(t, m + 1, m) = << >>  BY SubSeqEmpty
  <2>2. m - 0 = m /\ m - 0 + 1 = m + 1  OBVIOUS
  <2> QED  BY <2>1, <2>2 DEF Gathers
<1>2. ASSUME NEW d \in Nat, d \in P PROVE d + 1 \in P
  <2> SUFFICES ASSUME d + 1 <= m - j PROVE g[m - (d + 1)] = SubSeq(t, m - (d + 1) + 1, m)
    OBVIOUS
  <2>1. PICK k \in j + 1 .. m : k = m - d  OBVIOUS
  <2>2. g[k] = SubSeq(t, k + 1, m)  BY <1>2, <2>1
  <2>3. g[k - 1] = <<t[k]>> \o g[k]  BY <2>1 DEF Gathers
  <2>4. SubSeq(t, k, m) = <<t[k]>> \o SubSeq(t, k + 1, m)
    <3>1. k \in 1 .. Len(t) /\ m \in k .. Len(t)  BY <1>0, <2>1
    <3> HIDE DEF P
    <3>2. \A i \in 1 .. Len(t) : \A l \in i .. Len(t) :
            SubSeq(t, i, l) = <<t[i]>> \o SubSeq(t, i + 1, l)  BY SubSeqRecursiveFirst
    <3> QED  BY <3>1, <3>2
  <2>5. m - (d + 1) = k - 1 /\ m - (d + 1) + 1 = k  BY <2>1
  <2> QED  BY <2>2, <2>3, <2>4, <2>5
<1>3. m - j \in P
  <2> HIDE DEF P
  <2>1. Nat \subseteq P  BY <1>1, <1>2, Induct
  <2>2. m - j \in Nat  OBVIOUS
  <2> QED  BY <2>1, <2>2
<1>4. m - (m - j) = j /\ m - j <= m - j  OBVIOUS
<1> QED  BY <1>3, <1>4 DEF IsSlice

\* b is the N bytes behind place x.
IsWindow(b, N, bytes, x) == b \in Seq(Bytes) /\ Len(b) = N /\ \A i \in 1 .. N : b[i] = bytes[x + i]

\* Characters j + 1 to m of a text of T are those between places x and z of its bytes.
Between(t, T, x, z, j, m) ==
    /\ x <= Start(t, j) /\ (j > 0 => Start(t, j - 1) < x)
    /\ Start(t, m) <= z /\ (m < T => z < Start(t, m + 1))

(***************************************************************************)
(* Decoding bytes from anywhere in a text gives the characters that lie    *)
(* completely among them.                                                  *)
(***************************************************************************)
LEMMA WindowDecoded ==
    ASSUME NEW t, NEW T \in Nat, TextPlaces(t, T), t \in Seq(CodePoints), T = Len(t),
           NEW x \in Nat, NEW N \in Nat, x + N <= Start(t, T),
           NEW b, IsWindow(b, N, WideToUtf8(t), x),
           NEW j \in 0 .. T, NEW m \in 0 .. T, Between(t, T, x, x + N, j, m)
    PROVE  Utf8ToWide(b) = SubSeq(t, j + 1, m)
<1> DEFINE w == WideToUtf8(t)
           n(i) == Announced(b[i])
<1>1. b \in Seq(Bytes) /\ Len(b) = N /\ Listed(b) /\ \A i \in 1 .. N : b[i] = w[x + i]
  BY ListedIs DEF IsWindow
<1>2. PICK f : Decodes(f, b) /\ Utf8ToWide(b) = f[1]  BY <1>1, WideBySteps
<1>3. /\ f[N + 1] = << >>
      /\ \A i \in 1 .. N : n(i) = 0 \/ i + n(i) > N + 1 => f[i] = f[i + 1]
      /\ \A i \in 1 .. N : ~(n(i) = 0 \/ i + n(i) > N + 1)
                                => f[i] = <<Assembled(b, i, n(i))>> \o f[i + n(i)]
  <2>1. N + 1 \in 1 .. N + 1 /\ N + 1 > N /\ \A i \in 1 .. N : i \in 1 .. N + 1 /\ ~(i > N)
    OBVIOUS
  <2> QED  BY <1>1, <1>2, <2>1 DEF Decodes
<1>4. /\ Start(t, 0) = 0 /\ \A k \in 0 .. T : Start(t, k) \in Nat
      /\ \A k \in 1 .. T : CharacterAt(w, Start(t, k - 1), Start(t, k), t[k])
      /\ \A k, l \in 0 .. T : k < l => Start(t, k) < Start(t, l)
  BY DEF TextPlaces
<1>5. /\ x <= Start(t, j) /\ (j > 0 => Start(t, j - 1) < x)
      /\ Start(t, m) <= x + N /\ (m < T => x + N < Start(t, m + 1))
  BY DEF Between
<1> HIDE DEF w
<1>6. ASSUME NEW k \in 1 .. T, NEW q \in Nat, Start(t, k - 1) + 1 < q, q <= Start(t, k)
      PROVE  Announced(w[q]) = 0
  <2>1. k - 1 \in 0 .. T /\ k \in 0 .. T  OBVIOUS
  <2>2. PICK a \in Nat, z \in Nat : a = Start(t, k - 1) /\ z = Start(t, k)  BY <1>4, <2>1
  <2>3. CharacterAt(w, a, z, t[k])  BY <1>4, <2>2
  <2>4. q \in a + 2 .. z
    <3>1. q \in Int /\ a \in Int /\ z \in Int /\ a + 1 < q /\ q <= z  BY <1>6, <2>2
    <3> QED  BY <3>1
  <2> QED  BY <2>3, <2>4 DEF CharacterAt
\* Up to the first character that begins behind x nothing starts.
<1>7. CASE j > m
  <2>1. j = m + 1 /\ j \in 1 .. T
    <3>1. CASE j - 1 > m
      <4>1. m < T /\ j > 0  BY <3>1
      <4>2. PICK k \in 0 .. T, l \in 0 .. T : k = m + 1 /\ l = j - 1 /\ (k = l \/ k < l)  BY <3>1
      <4>3. Start(t, k) <= Start(t, l) /\ Start(t, k) \in Nat /\ Start(t, l) \in Nat
        BY <1>4, <4>2
      <4>4. x + N < Start(t, k) /\ Start(t, l) < x  BY <1>5, <4>1, <4>2
      <4> QED  BY <4>3, <4>4
    <3> QED  BY <1>7, <3>1
  <2>2. PICK a \in Nat, z \in Nat : a = Start(t, j - 1) /\ z = Start(t, j) /\ a < x /\ x + N < z
    <3>1. j - 1 \in 0 .. T /\ j - 1 = m /\ m < T /\ j > 0  BY <2>1
    <3> QED  BY <1>4, <1>5, <2>1, <3>1
  <2>3. ASSUME NEW i \in 1 .. 1 + N - 1 PROVE f[i] = f[i + 1]
    <3>1. PICK q \in Nat : q = x + i /\ a + 1 < q /\ q <= z  BY <2>2
    <3>2. Announced(w[q]) = 0  BY <1>6, <2>1, <2>2, <3>1
    <3>3. i \in 1 .. N  OBVIOUS
    <3> QED  BY <1>1, <1>3, <3>1, <3>2, <3>3
  <2>4. f[1] = f[1 + N]
    <3>1. Same(f, 1, N)  BY <2>3 DEF Same
    <3> QED  BY <3>1, Skipped
  <2>5. SubSeq(t, j + 1, m) = << >>  BY <1>7, SubSeqEmpty
  <2>6. 1 + N = N + 1  OBVIOUS
  <2> QED  BY <1>2, <1>3, <2>4, <2>5, <2>6
<1>8. CASE j <= m
  <2>1. \A k \in j .. m : k \in 0 .. T  OBVIOUS
  <2>2. ASSUME NEW k \in j .. m PROVE Start(t, k) \in x .. x + N
    <3>1. k \in 0 .. T /\ (k = j \/ j < k) /\ (k = m \/ k < m)  BY <1>8
    <3>2. Start(t, j) <= Start(t, k) /\ Start(t, k) <= Start(t, m)  BY <1>4, <3>1
    <3>3. Start(t, j) \in Nat /\ Start(t, k) \in Nat /\ Start(t, m) \in Nat  BY <1>4, <3>1
    <3> QED  BY <1>5, <3>2, <3>3
  <2> DEFINE at(k) == Start(t, k) - x + 1
             g == [k \in j .. m |-> f[at(k)]]
  <2>3. \A k \in j .. m : at(k) \in 1 .. N + 1  BY <2>2
  <2>4. f[1] = g[j]
    <3>1. PICK d \in Nat : d = Start(t, j) - x /\ d <= N  BY <1>8, <2>2
    <3>2. ASSUME NEW i \in 1 .. 1 + d - 1 PROVE f[i] = f[i + 1]
      <4>1. j > 0
        <5>1. CASE j = 0
          <6>1. d <= 0  BY <1>4, <3>1, <5>1
          <6> QED  BY <6>1
        <5> QED  BY <5>1
      <4>2. j \in 1 .. T /\ j - 1 \in 0 .. T /\ i \in 1 .. N /\ j \in 0 .. T  BY <3>1, <4>1
      <4>3. PICK a \in Nat, z \in Nat : a = Start(t, j - 1) /\ z = Start(t, j) /\ a < x
        BY <1>4, <1>5, <4>1, <4>2
      <4> HIDE DEF at, g, n
      <4>6. z = x + d  BY <3>1, <4>3
      <4>7. i <= d /\ i >= 1  BY <3>1
      <4>4. PICK q \in Nat : q = x + i /\ a + 1 < q /\ q <= z  BY <4>3, <4>6, <4>7
      <4>5. Announced(w[q]) = 0  BY <1>6, <4>2, <4>3, <4>4
      <4> USE DEF n
      <4> QED  BY <1>1, <1>3, <4>2, <4>4, <4>5
    <3>3. f[1] = f[1 + d]
      <4>1. Same(f, 1, d)  BY <3>2 DEF Same
      <4> QED  BY <4>1, Skipped
    <3>4. at(j) = 1 + d /\ j \in j .. m  BY <1>8, <3>1
    <3> HIDE DEF at
    <3> QED  BY <3>3, <3>4
  <2>5. ASSUME NEW k \in j + 1 .. m PROVE g[k - 1] = <<t[k]>> \o g[k]
    <3>1. k \in 1 .. T /\ k - 1 \in j .. m /\ k \in j .. m  OBVIOUS
    <3>2. PICK a \in Nat, z \in Nat : a = Start(t, k - 1) /\ z = Start(t, k)
      BY <1>4, <3>1, <2>1
    <3>3. a \in x .. x + N /\ z \in x .. x + N  BY <2>2, <3>1, <3>2
    <3>4. CharacterAt(w, a, z, t[k])  BY <1>4, <3>1, <3>2
    <3>5. PICK h \in 1 .. 4 : h = z - a  BY <3>4 DEF CharacterAt
    <3>6. PICK i \in 1 .. N : i = a - x + 1 /\ i + h = z - x + 1 /\ x + i = a + 1
      BY <3>3, <3>5
    <3>7. n(i) = h  BY <1>1, <3>4, <3>5, <3>6 DEF CharacterAt
    <3>8. \A q \in 0 .. h - 1 : b[i + q] = w[a + 1 + q]
      <4> TAKE q \in 0 .. h - 1
      <4>1. PICK p \in 1 .. N : p = i + q /\ x + p = a + 1 + q  BY <3>3, <3>5, <3>6
      <4> QED  BY <1>1, <4>1
    <3>9. Assembled(b, i, h) = t[k]
      <4>1. i \in Int  OBVIOUS
      <4> HIDE DEF at, g, n
      <4> QED  BY <3>4, <3>5, <3>8, <4>1 DEF CharacterAt
    <3>10. ~(h = 0 \/ i + h > N + 1)  BY <3>3, <3>6
    <3> HIDE DEF n
    <3>11. f[i] = <<t[k]>> \o f[i + h]  BY <1>3, <3>7, <3>9, <3>10
    <3>12. at(k - 1) = i /\ at(k) = i + h  BY <3>2, <3>6
    <3> HIDE DEF at
    <3> QED  BY <3>1, <3>11, <3>12
  \* The last bytes may begin a character.
  <2>6. g[m] = << >>
    <3>0. PICK p \in 1 .. N + 1 : p = at(m)  BY <1>8, <2>3
    <3>1. CASE m = T
      <4>1. p = N + 1
        <5>1. Start(t, m) \in x .. x + N  BY <1>8, <2>2
        <5> QED  BY <3>0, <3>1, <5>1
      <4>2. m \in j .. m  BY <1>8
      <4> HIDE DEF at
      <4> QED  BY <1>3, <3>0, <4>1, <4>2
    <3>2. CASE m < T
      <4> HIDE DEF at, g, n
      <4>1. PICK d \in Nat : p + d = N + 1  OBVIOUS
      <4>2. m + 1 \in 1 .. T /\ (m + 1) - 1 = m /\ m \in j .. m  BY <1>8, <3>2
      <4>3. PICK a \in Nat, z \in Nat : a = Start(t, m) /\ z = Start(t, m + 1) /\ x + N < z
        BY <1>4, <1>5, <3>2, <4>2
      <4>4. p = a - x + 1  BY <3>0, <4>3 DEF at
      <4>5. ASSUME NEW i \in p .. p + d - 1 PROVE f[i] = f[i + 1]
        <5>0. i \in 1 .. N /\ b[i] = w[x + i]  BY <1>1, <4>1
        <5>3. i \in Int /\ a \in Int /\ z \in Int /\ p = a - x + 1 /\ x + N < z /\ i <= N
          BY <4>3, <4>4, <5>0
        <5>1. CASE i = p
          <6>1. CharacterAt(w, a, z, t[m + 1])  BY <1>4, <4>2, <4>3
          <6>2. Announced(w[a + 1]) = z - a  BY <6>1 DEF CharacterAt
          <6>3. x + i = a + 1 /\ i + (z - a) > N + 1  BY <5>1, <5>3
          <6> QED  BY <1>3, <5>0, <6>2, <6>3 DEF n
        <5>2. CASE i # p
          <6>0. i > p /\ i <= N  BY <5>0, <5>2
          <6>1. PICK q \in Nat : q = x + i /\ a + 1 < q /\ q <= z
            BY <5>3, <6>0
          <6>2. Announced(w[q]) = 0  BY <1>6, <4>2, <4>3, <6>1
          <6> QED  BY <1>3, <5>0, <6>1, <6>2 DEF n
        <5> QED  BY <5>1, <5>2
      <4>6. p \in Nat  OBVIOUS
      <4>7. f[p] = f[p + d]
        <5>1. Same(f, p, d)  BY <4>5 DEF Same
        <5> QED  BY <4>6, <5>1, Skipped
      <4>8. g[m] = f[p]  BY <3>0, <4>2 DEF g
      <4> QED  BY <1>3, <4>1, <4>7, <4>8
    <3> QED  BY <3>1, <3>2
  <2> HIDE DEF g
  <2>7. j \in Nat /\ m \in Nat /\ m <= Len(t)  OBVIOUS
  <2>9. Gathers(g, t, j, m)  BY <2>5, <2>6 DEF Gathers
  <2>10. IsSlice(g[j], t, j, m)  BY <1>8, <2>7, <2>9, Gathered
  <2>8. g[j] = SubSeq(t, j + 1, m)  BY <2>10 DEF IsSlice
  <2> QED  BY <1>2, <2>4, <2>8
<1> QED  BY <1>7, <1>8

\* A text survives the conversion to bytes and back.
LEMMA RoundTrip ==
    ASSUME NEW t \in Seq(CodePoints)
    PROVE  Utf8ToWide(WideToUtf8(t)) = t
<1> DEFINE w == WideToUtf8(t)
<1>1. PICK T \in Nat : T = Len(t)  BY LenProperties
<1>2. TextPlaces(t, T)  BY <1>1, TextPlaced
<1>3. w \in Seq(Bytes) /\ Start(t, 0) = 0 /\ Start(t, T) = Len(w)  BY <1>2 DEF TextPlaces
<1>4. PICK N \in Nat, z \in Nat : N = Len(w) /\ z = 0  BY <1>3, LenProperties
<1> HIDE DEF w
<1>5. IsWindow(w, N, w, z)  BY <1>3, <1>4 DEF IsWindow
<1>6. Between(t, T, z, z + N, z, T) /\ z + N <= Start(t, T) /\ z \in 0 .. T /\ T \in 0 .. T
  BY <1>3, <1>4 DEF Between
<1>7. Utf8ToWide(w) = SubSeq(t, z + 1, T)  BY <1>1, <1>2, <1>5, <1>6, WindowDecoded DEF w
<1>8. SubSeq(t, 1, Len(t)) = t  BY SubSeqFull
<1>9. z + 1 = 1  BY <1>4
<1> QED  BY <1>1, <1>7, <1>8, <1>9 DEF w

(***************************************************************************)
(* Visible bytes.  Each byte has a character of its own, so the bytes of a *)
(* token are those its characters stand for, and a token, whose characters *)
(* are a part of the visible text, has a window of the bytes of the text.  *)
(***************************************************************************)

\* The invisible bytes before b.
Earlier(b) == (0 .. b - 1) \ Visible

\* Invisible bytes are told apart by how many come before them.
LEMMA InvisiblesCounted ==
    ASSUME NEW b \in Bytes, b \notin Visible
    PROVE  /\ IsFiniteSet(Earlier(b)) /\ Cardinality(Earlier(b)) \in Nat
           /\ \A c \in Bytes : c \notin Visible /\ c < b => Cardinality(Earlier(c)) # Cardinality(Earlier(b))
<1>1. b \in Int /\ b - 1 \in Int /\ 0 \in Int  BY DEF Bytes
<1>2. IsFiniteSet(0 .. b - 1)  BY <1>1, FS_Interval
<1>3. Earlier(b) \in SUBSET (0 .. b - 1)  BY DEF Earlier
<1>4. IsFiniteSet(Earlier(b))  BY <1>2, <1>3, FS_Subset
<1>5. Cardinality(Earlier(b)) \in Nat  BY <1>4, FS_CardinalityType
<1>6. ASSUME NEW c \in Bytes, c \notin Visible, c < b
      PROVE  Cardinality(Earlier(c)) # Cardinality(Earlier(b))
  <2>0. c \in Int /\ 0 <= c  BY DEF Bytes
  <2>1. Earlier(c) \in SUBSET Earlier(b)
    <3>1. ASSUME NEW d \in 0 .. c - 1 PROVE d \in 0 .. b - 1  BY <1>1, <1>6, <2>0
    <3> QED  BY <3>1 DEF Earlier
  <2>2. c \in Earlier(b) /\ c \notin Earlier(c)
    <3>1. c \in 0 .. b - 1 /\ c \notin 0 .. c - 1  BY <1>1, <1>6, <2>0
    <3> QED  BY <1>6, <3>1 DEF Earlier
  <2> QED  BY <1>4, <2>1, <2>2, FS_Subset
<1> QED  BY <1>4, <1>5, <1>6

\* Each byte has a character.
LEMMA SignOfByte ==
    ASSUME NEW b \in Bytes
    PROVE  /\ b \in Visible => BytesToUnicode[b] = b
           /\ b \notin Visible => BytesToUnicode[b] = 256 + Cardinality(Earlier(b))
           /\ BytesToUnicode[b] \in Nat
           /\ b \notin Visible => BytesToUnicode[b] >= 256
<1>1. BytesToUnicode[b] = IF b \in Visible THEN b ELSE 256 + Cardinality(Earlier(b))
  BY DEF BytesToUnicode, Bytes, Earlier
<1>2. b \in Nat  BY DEF Bytes
<1>3. b \notin Visible => Cardinality(Earlier(b)) \in Nat  BY InvisiblesCounted
<1> QED  BY <1>1, <1>2, <1>3

\* No two bytes have the same visible character.
LEMMA SignsDiffer ==
    ASSUME NEW b \in Bytes, NEW c \in Bytes, BytesToUnicode[b] = BytesToUnicode[c]
    PROVE  b = c
<1>1. b \in Nat /\ c \in Nat /\ b < 256 /\ c < 256  BY DEF Bytes
<1>2. CASE b \in Visible /\ c \in Visible  BY <1>2, SignOfByte
<1>3. CASE b \in Visible /\ c \notin Visible  BY <1>1, <1>3, SignOfByte
<1>4. CASE b \notin Visible /\ c \in Visible  BY <1>1, <1>4, SignOfByte
<1>5. CASE b \notin Visible /\ c \notin Visible
  <2>1. /\ BytesToUnicode[b] = 256 + Cardinality(Earlier(b))
        /\ BytesToUnicode[c] = 256 + Cardinality(Earlier(c))
    BY <1>5, SignOfByte
  <2>2. /\ Cardinality(Earlier(b)) \in Nat /\ Cardinality(Earlier(c)) \in Nat
        /\ c < b => Cardinality(Earlier(c)) # Cardinality(Earlier(b))
        /\ b < c => Cardinality(Earlier(b)) # Cardinality(Earlier(c))
    BY <1>5, InvisiblesCounted
  <2>3. Cardinality(Earlier(b)) = Cardinality(Earlier(c))
    <3>1. PICK m \in Nat, n \in Nat : m = Cardinality(Earlier(b)) /\ n = Cardinality(Earlier(c))
      BY <2>2
    <3>2. 256 + m = 256 + n  BY <2>1, <3>1
    <3>3. m = n  BY <3>2
    <3> QED  BY <3>1, <3>3
  <2> QED  BY <1>1, <2>2, <2>3
<1> QED  BY <1>2, <1>3, <1>4, <1>5

\* unicodeToBytes undoes bytesToUnicode.
LEMMA SignsRead ==
    ASSUME NEW b \in Bytes
    PROVE  /\ BytesToUnicode[b] \in DOMAIN UnicodeToBytes
           /\ UnicodeToBytes[BytesToUnicode[b]] = b
<1> DEFINE y == BytesToUnicode[b]
<1>1. DOMAIN BytesToUnicode = Bytes  BY DEF BytesToUnicode, Bytes
<1>2. y \in Range(BytesToUnicode)  BY <1>1 DEF Range
<1>3. UnicodeToBytes = [v \in Range(BytesToUnicode) |->
                            CHOOSE c \in Bytes : v \in Range(BytesToUnicode) => BytesToUnicode[c] = v]
  BY <1>1 DEF UnicodeToBytes, AntiFunction, Inverse
<1>4. UnicodeToBytes[y] = CHOOSE c \in Bytes : y \in Range(BytesToUnicode) => BytesToUnicode[c] = y
  BY <1>2, <1>3
<1>5. \E c \in Bytes : y \in Range(BytesToUnicode) => BytesToUnicode[c] = y  OBVIOUS
<1>6. UnicodeToBytes[y] \in Bytes /\ BytesToUnicode[UnicodeToBytes[y]] = y
  BY <1>2, <1>4, <1>5
<1>7. UnicodeToBytes[y] = b  BY <1>6, SignsDiffer
<1> QED  BY <1>2, <1>3, <1>7

\* A token of visible characters stands for the bytes they are of.
LEMMA TokenWindow ==
    ASSUME NEW w, NEW x \in Nat, NEW N \in Nat, NEW token,
           DOMAIN token = 1 .. N, \A i \in 1 .. N : w[x + i] \in Bytes /\ token[i] = BytesToUnicode[w[x + i]]
    PROVE  IsWindow(TokenBytes(token), N, w, x)
<1> DEFINE d == [i \in 1 .. N |-> w[x + i]]
<1>1. d \in Seq(Bytes) /\ Len(d) = N  BY FunctionListed
<1>2. \A i \in 1 .. N : /\ token[i] \in DOMAIN UnicodeToBytes
                        /\ UnicodeToBytes[token[i]] = w[x + i]
  BY SignsRead
<1>3. [i \in DOMAIN token |-> IF token[i] \in DOMAIN UnicodeToBytes
                              THEN <<UnicodeToBytes[token[i]]>> ELSE << >>]
        = [i \in 1 .. N |-> <<w[x + i]>>]
  BY <1>2
<1>4. Characters(d) = [i \in 1 .. N |-> <<w[x + i]>>]  BY DEF Characters
<1>5. TokenBytes(token) = FlattenSeq(Characters(d))  BY <1>3, <1>4 DEF TokenBytes
<1>6. \A i \in 1 .. N : d[i] = w[x + i]  OBVIOUS
<1> HIDE DEF d
<1>7. FlattenSeq(Characters(d)) = d  BY <1>1, FlattenCharacters
<1> QED  BY <1>1, <1>5, <1>6, <1>7 DEF IsWindow

-----------------------------------------------------------------------------
\* The visible characters are characters.
LEMMA SignsAre == BytesToUnicode \in [Bytes -> Nat]
<1>1. \A b \in Bytes : BytesToUnicode[b] \in Nat  BY SignOfByte
<1>2. BytesToUnicode = [b \in Bytes |-> BytesToUnicode[b]]  BY DEF BytesToUnicode, Bytes
<1> QED  BY <1>1, <1>2

\* The visible form of a text puts a character in the place of each byte.
LEMMA VisiblyMapped ==
    ASSUME NEW s \in Seq(CodePoints)
    PROVE  /\ Visibly(s) = Mapped(BytesToUnicode, WideToUtf8(s))
           /\ Visibly(s) \in Seq(Nat) /\ Len(Visibly(s)) = Len(WideToUtf8(s))
           /\ \A i \in 1 .. Len(WideToUtf8(s)) : Visibly(s)[i] = BytesToUnicode[WideToUtf8(s)[i]]
<1> DEFINE w == WideToUtf8(s)
           v == Mapped(BytesToUnicode, w)
<1>1. w \in Seq(Bytes)  BY WideMapped
<1>2. Visibly(s) = v  BY DEF Visibly, Mapped
<1> HIDE DEF w
<1>3. PICK n \in Nat : n = Len(w)  BY <1>1, LenProperties
<1>4. IsMap(Nat, v, BytesToUnicode, w, n)  BY <1>1, <1>3, SignsAre, MappedIs
<1> HIDE DEF v
<1>5. v \in Seq(Nat) /\ Len(v) = n /\ \A i \in 1 .. n : v[i] = BytesToUnicode[w[i]]
  BY <1>4 DEF IsMap
<1> QED  BY <1>2, <1>3, <1>5 DEF v, w

\* The visible form distributes over concatenation.
LEMMA VisiblyConcat ==
    ASSUME NEW s \in Seq(CodePoints), NEW t \in Seq(CodePoints)
    PROVE  Visibly(s \o t) = Visibly(s) \o Visibly(t)
<1> DEFINE st == s \o t
           a == WideToUtf8(s)
           b == WideToUtf8(t)
<1>1. st \in Seq(CodePoints)  BY ConcatProperties
<1>2. WideToUtf8(st) = a \o b  BY WideConcat
<1>3. a \in Seq(Bytes) /\ b \in Seq(Bytes)  BY WideMapped
<1> HIDE DEF a, b, st
<1>4. Distributes(BytesToUnicode, a, b)  BY <1>3, SignsAre, MappedConcat
<1>5. Visibly(st) = Mapped(BytesToUnicode, WideToUtf8(st))  BY <1>1, VisiblyMapped
<1>6. Visibly(s) = Mapped(BytesToUnicode, a) /\ Visibly(t) = Mapped(BytesToUnicode, b)
  BY VisiblyMapped DEF a, b
<1> QED  BY <1>2, <1>4, <1>5, <1>6 DEF Distributes, st

\* Visible ASCII stands for itself.
LEMMA VisiblyAscii ==
    ASSUME NEW s \in Seq(33 .. 126)
    PROVE  s \in Seq(CodePoints) /\ Visibly(s) = s
<1>0. 33 .. 126 \subseteq CodePoints
  <2>1. ASSUME NEW c \in 33 .. 126 PROVE c \in 0 .. LastCode
    <3>1. c \in Int /\ 0 <= c /\ c <= 126  OBVIOUS
    <3>2. LastCode \in Int /\ 126 <= LastCode  BY SMT DEF LastCode
    <3> QED  BY <3>1, <3>2
  <2> QED  BY <2>1 DEF CodePoints
<1>1. s \in Seq(CodePoints)  BY <1>0, SeqMonotonic
<1> DEFINE n == Len(s)
           of == [i \in DOMAIN s |-> BytesOf(s[i])]
<1>2. DOMAIN s = 1 .. n /\ \A i \in 1 .. n : s[i] \in 33 .. 126  BY LenProperties, ElementOfSeq
<1> HIDE DEF n
<1>3. \A c \in 33 .. 126 : BytesOf(c) = <<c>> /\ BytesToUnicode[c] = c
  <2> TAKE c \in 33 .. 126
  <2>1. c < 128 /\ c \in Bytes /\ c \in Visible  BY DEF Bytes, Visible
  <2>2. BytesToUnicode[c] = c  BY <2>1, SignOfByte
  <2>3. BytesOf(c) = <<c>>  BY <2>1, SMT DEF BytesOf
  <2> QED  BY <2>2, <2>3
<1>4. of = Characters(s)
  <2>1. of = [i \in DOMAIN s |-> <<s[i]>>]  BY <1>2, <1>3
  <2> QED  BY <2>1 DEF Characters
<1>5. WideToUtf8(s) = s
  <2>1. WideToUtf8(s) = FlattenSeq(of)  BY DEF WideToUtf8
  <2> HIDE DEF of
  <2>2. FlattenSeq(Characters(s)) = s  BY FlattenCharacters
  <2> QED  BY <1>4, <2>1, <2>2
<1>6. Visibly(s) = [i \in DOMAIN s |-> BytesToUnicode[s[i]]]  BY <1>5 DEF Visibly
<1>7. Visibly(s) = [i \in DOMAIN s |-> s[i]]  BY <1>2, <1>3, <1>6
<1>8. s = [i \in DOMAIN s |-> s[i]]
  <2>1. s \in [1 .. Len(s) -> 33 .. 126]  BY LenProperties
  <2> QED  BY <2>1
<1> QED  BY <1>1, <1>7, <1>8

(***************************************************************************)
(* The pattern, the ids and the pieces.  A match is never empty, so the    *)
(* pattern leaves no character out; an id names one token; and the pieces  *)
(* between the cuts are the whole text.                                    *)
(***************************************************************************)

\* A run that has begun goes on.
LEMMA RunGoesOn ==
    ASSUME NEW str, Len(str) \in Nat, NEW i \in 0 .. Len(str), NEW class
    PROVE  /\ At(str, i, class) => RunEnd(str, i, class) > i
           /\ Not(str, i, class) => RunEndOutside(str, i, class) > i
<1> DEFINE T == {j \in i .. Len(str) : ~At(str, j, class)}
           U == {j \in i .. Len(str) : ~Not(str, j, class)}
<1>1. Len(str) \in i .. Len(str) /\ i .. Len(str) \subseteq Nat  OBVIOUS
<1>2. T \in SUBSET Nat /\ T # {} /\ T \subseteq i .. Len(str)  BY <1>1 DEF At
<1>3. U \in SUBSET Nat /\ U # {} /\ U \subseteq i .. Len(str)  BY <1>1 DEF Not
<1>4. (At(str, i, class) => i \notin T) /\ (Not(str, i, class) => i \notin U)  OBVIOUS
<1> HIDE DEF T, U
<1>5. Min(T) \in T /\ Min(U) \in U  BY <1>2, <1>3, MinIs
<1>6. Min(T) \in i .. Len(str) /\ Min(U) \in i .. Len(str)  BY <1>2, <1>3, <1>5
<1>7. At(str, i, class) => Min(T) > i
  <2>1. At(str, i, class) => Min(T) # i  BY <1>4, <1>5
  <2> QED  BY <1>6, <2>1
<1>8. Not(str, i, class) => Min(U) > i
  <2>1. Not(str, i, class) => Min(U) # i  BY <1>4, <1>5
  <2> QED  BY <1>6, <2>1
<1> QED  BY <1>7, <1>8 DEF RunEnd, RunEndOutside, T, U

(***************************************************************************)
(* Before the end of a piece the pattern always matches something, so no   *)
(* character is skipped: a letter is a word, a digit a number, white space *)
(* a run of its own, and everything else a symbol.                         *)
(***************************************************************************)
LEMMA MatchGoesOn ==
    ASSUME NEW str, Len(str) \in Nat, NEW i \in Nat, i < Len(str)
    PROVE  MatchEnd(str, i) > i
<1> DEFINE c == str[i + 1]
           ends == << Contraction(str, i), Word(str, i), Digit(str, i), Symbols(str, i),
                      Break(str, i), Trailing(str, i), Space(str, i) >>
<1>1. i \in 0 .. Len(str) /\ i + 1 > i  OBVIOUS
<1>2. \A class : /\ At(str, i, class) <=> c \in class
                 /\ Not(str, i, class) <=> c \notin class
  BY DEF At, Not
<1>3. \A class : /\ At(str, i, class) => RunEnd(str, i, class) > i
                 /\ Not(str, i, class) => RunEndOutside(str, i, class) > i
  BY <1>1, RunGoesOn
<1> HIDE DEF c
<1>4. \E k \in 1 .. 7 : ends[k] > i
  <2>1. CASE c \in Letters
    <3>1. Word(str, i) = RunEnd(str, i, Letters)
      <4>1. ~Not(str, i, Wordlike \cup Newlines)  BY <1>2, <2>1 DEF Wordlike
      <4>2. At(str, i, Letters)  BY <1>2, <2>1
      <4> QED  BY <4>1, <4>2 DEF Word
    <3>2. Word(str, i) > i  BY <1>2, <1>3, <2>1, <3>1
    <3>3. ends[2] = Word(str, i)  OBVIOUS
    <3> QED  BY <3>2, <3>3
  <2>2. CASE c \in Digits
    <3>1. Digit(str, i) > i  BY <1>1, <1>2, <2>2 DEF Digit
    <3>2. ends[3] = Digit(str, i)  OBVIOUS
    <3> QED  BY <3>1, <3>2
  <2>3. CASE c \in Spaces
    <3>1. Space(str, i) > i  BY <1>2, <1>3, <2>3 DEF Space
    <3>2. ends[7] = Space(str, i)  OBVIOUS
    <3> QED  BY <3>1, <3>2
  <2>4. CASE c \notin Wordlike \cup Spaces
    <3>1. ~At(str, i, {Blank})
      <4>1. Blank \in Spaces  BY ClassesAssumption
      <4> QED  BY <1>2, <2>4, <4>1
    <3>2. PICK last \in i .. Len(str) : last = RunEndOutside(str, i, Wordlike \cup Spaces)
      BY <1>1, RunEnds
    <3>3. last > i  BY <1>2, <1>3, <2>4, <3>2
    <3>4. Symbols(str, i) = RunEnd(str, last, Newlines)  BY <3>1, <3>2, <3>3 DEF Symbols
    <3>5. last \in 0 .. Len(str)  OBVIOUS
    <3>6. RunEnd(str, last, Newlines) \in last .. Len(str)  BY <3>5, RunEnds
    <3>7. Symbols(str, i) > i  BY <3>3, <3>4, <3>6
    <3>8. ends[4] = Symbols(str, i)  OBVIOUS
    <3> QED  BY <3>7, <3>8
  <2> QED  BY <2>1, <2>2, <2>3, <2>4 DEF Wordlike
<1>5. DOMAIN ends = 1 .. 7  OBVIOUS
<1> HIDE DEF ends
<1> DEFINE T == {k \in DOMAIN ends : ends[k] > i}
<1>6. T \in SUBSET Nat /\ T # {}  BY <1>4, <1>5
<1>7. FirstMatch(i, ends) = ends[Min(T)]  BY <1>6 DEF FirstMatch
<1>8. Min(T) \in T
  <2> HIDE DEF T
  <2> QED  BY <1>6, MinIs
<1>9. ends[Min(T)] > i  BY <1>8
<1> QED  BY <1>7, <1>9 DEF MatchEnd, ends

-----------------------------------------------------------------------------
\* The id of a token of the table stands for it.
LEMMA IdRead ==
    ASSUME NEW token \in Range(Vocabulary)
    PROVE  TokenForId(IdForToken(token)) = token
<1> DEFINE I == {i \in 1 .. Len(Vocabulary) : Vocabulary[i] = token}
<1>1. Len(Vocabulary) \in Nat \ {0} /\ DOMAIN Vocabulary = 1 .. Len(Vocabulary)
  BY VocabularyAssumption, EmptySeq, LenProperties
<1>2. I # {} /\ I \in SUBSET Nat /\ I \subseteq 1 .. Len(Vocabulary)  BY <1>1 DEF Range
<1>3. SelectInSeq(Vocabulary, LAMBDA t : t = token) = Min(I)  BY <1>2 DEF SelectInSeq
<1>4. Min(I) \in I
  <2> HIDE DEF I
  <2> QED  BY <1>2, MinIs
<1>5. PICK k \in 1 .. Len(Vocabulary) : k = Min(I) /\ Vocabulary[k] = token  BY <1>4
<1> HIDE DEF I
<1>6. IdForToken(token) = k - 1  BY <1>3, <1>5 DEF IdForToken
<1>7. (k - 1) + 1 = k  OBVIOUS
<1> QED  BY <1>1, <1>5, <1>6, <1>7 DEF TokenForId

\* What the table has for each byte.
LEMMA PartsInTable ==
    ASSUME NEW s \in Seq(CodePoints)
    PROVE  /\ Characters(Visibly(s)) \in Seq(Range(Vocabulary))
           /\ FlattenSeq(Characters(Visibly(s))) = Visibly(s)
<1> DEFINE w == WideToUtf8(s)
           v == Visibly(s)
           V == Range(Vocabulary)
<1>1. w \in Seq(Bytes)  BY WideMapped
<1>2. v \in Seq(Nat) /\ Len(v) = Len(w) /\ \A i \in 1 .. Len(w) : v[i] = BytesToUnicode[w[i]]
  BY VisiblyMapped
<1> HIDE DEF w, v
<1>3. PICK n \in Nat : n = Len(w)  BY <1>1, LenProperties
<1>4. \A i \in 1 .. n : <<v[i]>> \in V
  <2> TAKE i \in 1 .. n
  <2>1. w[i] \in 0 .. 255  BY <1>1, <1>3, ElementOfSeq DEF Bytes
  <2>2. <<BytesToUnicode[w[i]]>> \in V  BY <2>1, TableAssumption
  <2> QED  BY <1>2, <1>3, <2>2
<1>5. DOMAIN v = 1 .. n  BY <1>2, <1>3, LenProperties
<1> HIDE DEF V
<1>6. Characters(v) \in [1 .. n -> V]  BY <1>4, <1>5 DEF Characters
<1>7. Characters(v) \in Seq(V)  BY <1>6, FunctionListed
<1>8. FlattenSeq(Characters(v)) = v  BY <1>2, FlattenCharacters
<1> QED  BY <1>7, <1>8 DEF v, V

CutPieces == [k \in 1 .. Cardinality(FinalOffsets) - 1 |-> Piece(CutPlace(k), CutPlace(k + 1))]

\* The pieces make up the text.
LEMMA PiecesJoin ==
    ASSUME ScanInv, current = Len(text), NEW D, text \in Seq(D)
    PROVE  CutPieces \in Seq(Seq(D)) /\ FlattenSeq(CutPieces) = text
<1> DEFINE P == CutPieces
<1>1. PICK n \in Nat \ {0} : n = Cardinality(FinalOffsets) /\ CutsAre(n)  BY CutsInOrder
<1>2. PICK N \in Nat : N = n - 1  OBVIOUS
<1>3. PICK T \in Nat : T = Len(text)  BY LenProperties
<1> DEFINE at == [k \in 0 .. N |-> CutPlace(k + 1)]
<1>4. /\ \A k \in 0 .. N : at[k] \in 0 .. T
      /\ at[0] = 0 /\ at[N] = T
      /\ \A k \in 1 .. N : at[k - 1] <= at[k]
      /\ P = [k \in 1 .. N |-> SubSeq(text, at[k - 1] + 1, at[k])]
  <2>1. \A k \in 0 .. N : at[k] \in 0 .. T
    <3> TAKE k \in 0 .. N
    <3>1. PICK l \in 1 .. n : l = k + 1  BY <1>2
    <3> QED  BY <1>1, <1>3, <3>1 DEF CutsAre
  <2>2. at[0] = 0 /\ at[N] = T
    <3>1. 0 \in 0 .. N /\ N \in 0 .. N /\ 0 + 1 = 1 /\ N + 1 = n  BY <1>2
    <3>2. at[0] = CutPlace(1) /\ at[N] = CutPlace(n)  BY <3>1
    <3> QED  BY <1>1, <1>3, <3>2 DEF CutsAre
  <2>3. \A k \in 1 .. N : at[k - 1] = CutPlace(k) /\ at[k] = CutPlace(k + 1)
    <3> TAKE k \in 1 .. N
    <3>1. PICK l \in 0 .. N : l = k - 1 /\ l + 1 = k  OBVIOUS
    <3>2. at[l] = CutPlace(k)  BY <3>1
    <3> QED  BY <3>1, <3>2
  <2>4. \A k \in 1 .. N : at[k - 1] <= at[k]
    <3> HIDE DEF at
    <3> QED  BY <1>1, <1>2, <2>3 DEF CutsAre
  <2>5. P = [k \in 1 .. N |-> Piece(CutPlace(k), CutPlace(k + 1))]  BY <1>1, <1>2 DEF CutPieces
  <2>6. \A k \in 1 .. N : Piece(CutPlace(k), CutPlace(k + 1)) = SubSeq(text, at[k - 1] + 1, at[k])
    <3> HIDE DEF at
    <3> QED  BY <2>3 DEF Piece
  <2> HIDE DEF at, P
  <2> QED  BY <2>1, <2>2, <2>4, <2>5, <2>6
<1> HIDE DEF at, P
<1>5. ASSUME NEW k \in 1 .. N
      PROVE  P[k] = SubSeq(text, at[k - 1] + 1, at[k]) /\ P[k] \in Seq(D)
  <2>1. PICK a \in Nat, b \in Nat : a = at[k - 1] /\ b = at[k] /\ a <= b /\ b <= Len(text)
    <3>1. k - 1 \in 0 .. N /\ k \in 0 .. N  OBVIOUS
    <3> QED  BY <1>3, <1>4, <3>1
  <2>2. SubSeq(text, a + 1, b) \in Seq(D)  BY <2>1, SliceIs
  <2>3. P[k] = SubSeq(text, at[k - 1] + 1, at[k])  BY <1>4
  <2> QED  BY <2>1, <2>2, <2>3
<1>6. P \in [1 .. N -> Seq(D)]  BY <1>4, <1>5
<1>7. P \in Seq(Seq(D)) /\ Len(P) = N  BY <1>6, FunctionListed
<1> DEFINE joined(k) == FlattenSeq(SubSeq(P, 1, k))
           Q == {k \in Nat : k <= N => joined(k) = SubSeq(text, 1, at[k])}
<1>8. 0 \in Q
  <2>1. SubSeq(P, 1, 0) = << >> /\ SubSeq(text, 1, 0) = << >>  BY SubSeqEmpty
  <2>2. FlattenSeq(<< >>) = << >>  BY EmptySeq DEF FlattenSeq
  <2> QED  BY <1>4, <2>1, <2>2
<1>9. ASSUME NEW k \in Nat, k \in Q PROVE k + 1 \in Q
  <2> SUFFICES ASSUME k + 1 <= N PROVE joined(k + 1) = SubSeq(text, 1, at[k + 1])
    OBVIOUS
  <2>1. PICK l \in 1 .. N : l = k + 1 /\ l - 1 = k  OBVIOUS
  <2>2. k <= N /\ k \in 0 .. N /\ l \in 0 .. N  BY <2>1
  <2>3. joined(k) = SubSeq(text, 1, at[k])  BY <1>9, <2>2
  <2> HIDE DEF Q
  <2>4. SubSeq(P, 1, l) = SubSeq(P, 1, k) \o <<P[l]>>
    <3>1. 1 \in 1 .. Len(P) /\ l \in 1 .. Len(P)  BY <1>7, <2>1
    <3>2. SubSeq(P, 1, l) = SubSeq(P, 1, l - 1) \o <<P[l]>>  BY <3>1, SubSeqRecursiveSecond
    <3> QED  BY <2>1, <3>2
  <2> DEFINE f == SubSeq(P, 1, k)
             x == P[l]
  <2>5. f \in Seq(Seq(D)) /\ x \in Seq(D)
    <3>1. x \in Seq(D)  BY <1>5
    <3>2. \A i \in 1 .. k : P[i] \in Seq(D)
      <4>1. \A i \in 1 .. k : i \in 1 .. N  BY <2>2
      <4> QED  BY <1>5, <4>1
    <3> HIDE DEF x
    <3>3. 1 \in Int /\ k \in Int  OBVIOUS
    <3>4. SubSeq(P, 1, k) \in Seq(Seq(D))  BY <3>2, <3>3, SubSeqProperties
    <3> QED  BY <3>1, <3>4
  <2> HIDE DEF f, x
  <2>6. Append(f, x) = f \o <<x>>  BY <2>5, AppendIsConcat
  <2>7. FlattenSeq(Append(f, x)) = FlattenSeq(f) \o x  BY <2>5, FlattenAppend
  <2>8. joined(l) = SubSeq(text, 1, at[k]) \o SubSeq(text, at[k] + 1, at[l])
    <3>1. x = SubSeq(text, at[k] + 1, at[l])  BY <1>5, <2>1 DEF x
    <3> QED  BY <2>3, <2>4, <2>6, <2>7, <3>1 DEF f, x
  <2>9. PICK z \in Nat, a \in Nat, b \in Nat :
            z = 0 /\ a = at[k] /\ b = at[l] /\ z <= a /\ a <= b /\ b <= Len(text)
    <3>1. at[k] \in 0 .. T /\ at[l] \in 0 .. T  BY <1>4, <2>2
    <3>2. at[k] <= at[l]  BY <1>4, <2>1
    <3>3. PICK z \in Nat, a \in 0 .. T, b \in 0 .. T : z = 0 /\ a = at[k] /\ b = at[l]  BY <3>1
    <3>4. a \in Nat /\ b \in Nat /\ z <= a /\ a <= b /\ b <= T  BY <3>2, <3>3
    <3>5. b <= Len(text)  BY <1>3, <3>4
    <3> HIDE DEF joined, f, x
    <3> QED  BY <3>3, <3>4, <3>5
  <2>10. Adjoin(text, z, a, b)  BY <2>9, Adjoins
  <2>11. SubSeq(text, 1, a) \o SubSeq(text, a + 1, b) = SubSeq(text, 1, b)
    <3>1. z + 1 = 1  BY <2>9
    <3> QED  BY <2>10, <3>1 DEF Adjoin
  <2> HIDE DEF joined
  <2> QED  BY <2>1, <2>8, <2>9, <2>11
<1>10. N \in Q
  <2> HIDE DEF Q
  <2>1. Nat \subseteq Q  BY <1>8, <1>9, Induct
  <2> QED  BY <2>1
<1>11. joined(N) = SubSeq(text, 1, T)
  <2>1. N <= N => joined(N) = SubSeq(text, 1, at[N])
    <3> HIDE DEF joined
    <3> QED  BY <1>10
  <2>2. N <= N  OBVIOUS
  <2> HIDE DEF joined, Q
  <2> QED  BY <1>4, <2>1, <2>2
<1>12. SubSeq(P, 1, N) = P /\ SubSeq(text, 1, T) = text
  <2>1. \A s \in Seq(D) : SubSeq(s, 1, Len(s)) = s  BY SubSeqFull
  <2>2. \A s \in Seq(Seq(D)) : SubSeq(s, 1, Len(s)) = s  BY SubSeqFull
  <2> QED  BY <1>3, <1>7, <2>1, <2>2
<1> QED  BY <1>7, <1>11, <1>12 DEF P

(***************************************************************************)
(* What is decoded.  The k-th token ends somewhere in the text: decoding it*)
(* gives the characters that end in it and begin in it, and those are what *)
(* Unsplit has there.                                                      *)
(***************************************************************************)

\* What Unsplit puts together.
KeptParts(tokens) ==
    [i \in DOMAIN text |-> IF Boundaries(tokens) \cap (Offset(i - 1) + 1 .. Offset(i) - 1) = {}
                           THEN <<text[i]>> ELSE << >>]

\* The tokens are the visible characters of a text of T characters.
Spelling(tokens, T) ==
    /\ tokens \in Seq(Seq(Int)) /\ text \in Seq(CodePoints) /\ T = Len(text)
    /\ FlattenSeq(tokens) = Visibly(text)

\* Where the tokens and the characters of the text end.
LEMMA EndsMeet ==
    ASSUME NEW tokens, NEW T \in Nat, Spelling(tokens, T), NEW K \in Nat, K = Len(tokens)
    PROVE  /\ TextPlaces(text, T) /\ Places(tokens)
           /\ EndOf(tokens, 0) = 0 /\ EndOf(tokens, K) = Start(text, T)
           /\ \A k \in 0 .. K : EndOf(tokens, k) \in 0 .. Start(text, T)
           /\ \A j, k \in 0 .. K : j <= k => EndOf(tokens, j) <= EndOf(tokens, k)
<1>1. tokens \in Seq(Seq(Int)) /\ text \in Seq(CodePoints) /\ T = Len(text)
      /\ FlattenSeq(tokens) = Visibly(text)
  BY DEF Spelling
<1>2. TextPlaces(text, T)  BY <1>1, TextPlaced
<1>3. Places(tokens)  BY <1>1, Placed
<1>4. Len(FlattenSeq(tokens)) = Start(text, T)
  <2>1. Len(Visibly(text)) = Len(WideToUtf8(text))  BY <1>1, VisiblyMapped
  <2> QED  BY <1>1, <1>2, <2>1 DEF TextPlaces
<1> QED  BY <1>2, <1>3, <1>4 DEF Places

\* The bytes of a token are those of the text at its place.
LEMMA TokenStands ==
    ASSUME NEW tokens, NEW T \in Nat, Spelling(tokens, T), NEW K \in Nat, K = Len(tokens),
           NEW k \in 1 .. K, NEW x \in Nat, x = EndOf(tokens, k - 1)
    PROVE  \E N \in Nat : /\ EndOf(tokens, k) = x + N
                          /\ IsWindow(TokenBytes(tokens[k]), N, WideToUtf8(text), x)
<1> DEFINE token == tokens[k]
           w == WideToUtf8(text)
           v == Visibly(text)
<1>1. tokens \in Seq(Seq(Int)) /\ text \in Seq(CodePoints) /\ FlattenSeq(tokens) = v
  BY DEF Spelling
<1>2. token \in Seq(Int)  BY <1>1, ElementOfSeq
<1>3. w \in Seq(Bytes)  BY <1>1, WideMapped
<1>4. Len(v) = Len(w) /\ \A i \in 1 .. Len(w) : v[i] = BytesToUnicode[w[i]]
  BY <1>1, VisiblyMapped
<1>5. PICK N \in Nat, L \in Nat : N = Len(token) /\ L = Len(w)  BY <1>2, <1>3, LenProperties
<1>6. EndOf(tokens, k) = x + N /\ \A i \in 1 .. N : v[x + i] = token[i]
  <2>1. Places(tokens)  BY EndsMeet
  <2> HIDE DEF v
  <2> QED  BY <1>1, <1>5, <2>1 DEF Places
<1>7. x + N <= L
  <2>1. EndOf(tokens, k) \in 0 .. Start(text, T)  BY EndsMeet
  <2>2. Start(text, T) = L
    <3>1. TextPlaces(text, T)  BY EndsMeet
    <3> QED  BY <1>5, <3>1 DEF TextPlaces
  <2> QED  BY <1>6, <2>1, <2>2
<1>8. DOMAIN token = 1 .. N  BY <1>2, <1>5, LenProperties
<1> HIDE DEF token, w, v
<1>9. ASSUME NEW i \in 1 .. N
      PROVE  w[x + i] \in Bytes /\ token[i] = BytesToUnicode[w[x + i]]
  <2>1. PICK q \in 1 .. L : q = x + i  BY <1>7
  <2>2. w[q] \in Bytes  BY <1>3, <1>5, ElementOfSeq
  <2>3. v[q] = BytesToUnicode[w[q]] /\ v[q] = token[i]  BY <1>4, <1>5, <1>6, <2>1
  <2> QED  BY <2>1, <2>2, <2>3
<1>10. IsWindow(TokenBytes(token), N, w, x)  BY <1>8, <1>9, TokenWindow
<1> QED  BY <1>6, <1>10 DEF token, w

\* Character m is the last that ends by place z.
LastBy(m, T, z) == Start(text, m) <= z /\ (m < T => z < Start(text, m + 1))

\* Up to a later place as many characters end, or more.
LEMMA LastFound ==
    ASSUME NEW T \in Nat, TextPlaces(text, T), NEW x \in Nat, NEW z \in Nat, x <= z,
           NEW l \in 0 .. T, LastBy(l, T, x)
    PROVE  \E m \in l .. T : LastBy(m, T, z)
<1> DEFINE I == {i \in 0 .. T : Start(text, i) <= z}
<1>1. \A i \in 0 .. T : Start(text, i) \in Nat  BY DEF TextPlaces
<1>2. Start(text, l) <= z  BY <1>1 DEF LastBy
<1>3. I \in SUBSET (0 .. T) /\ l \in I /\ I # {}  BY <1>2
<1>4. PICK m \in 0 .. T : m = Max(I) /\ m \in I /\ \A i \in I : m >= i
  <2> HIDE DEF I
  <2> QED  BY <1>3, MaxIs
<1>5. m \in l .. T
  <2>1. m >= l  BY <1>3, <1>4
  <2> HIDE DEF I
  <2> QED  BY <2>1
<1>6. ASSUME m < T PROVE z < Start(text, m + 1)
  <2>1. PICK i \in 0 .. T : i = m + 1  BY <1>6
  <2>2. i \notin I  BY <1>4, <2>1
  <2>3. ~(Start(text, i) <= z)  BY <2>2
  <2>4. z < Start(text, i)
    <3>1. Start(text, i) \in Nat  BY <1>1
    <3> QED  BY <2>3, <3>1
  <2> QED  BY <2>1, <2>4
<1>7. Start(text, m) <= z  BY <1>4
<1>8. LastBy(m, T, z)  BY <1>6, <1>7 DEF LastBy
<1> QED  BY <1>5, <1>8

\* A character is kept if it lies between the ends of one token, and not if it
\* has the end of one inside.
Kept(tokens, i, x, z) ==
    /\ x <= Start(text, i - 1) /\ Start(text, i) <= z => KeptParts(tokens)[i] = <<text[i]>>
    /\ Start(text, i - 1) < x /\ x < Start(text, i) => KeptParts(tokens)[i] = << >>

\* So for the ends of each token.
LEMMA KeptOrNot ==
    ASSUME NEW tokens, NEW T \in Nat, Spelling(tokens, T), NEW K \in Nat, K = Len(tokens),
           NEW k \in 1 .. K, NEW i \in 1 .. T
    PROVE  Kept(tokens, i, EndOf(tokens, k - 1), EndOf(tokens, k))
<1> DEFINE inside == Boundaries(tokens) \cap (Offset(i - 1) + 1 .. Offset(i) - 1)
<1>1. KeptParts(tokens)[i] = IF inside = {} THEN <<text[i]>> ELSE << >>
  <2>1. text \in Seq(CodePoints) /\ T = Len(text)  BY DEF Spelling
  <2>2. i \in DOMAIN text  BY <2>1, LenProperties
  <2> QED  BY <2>2 DEF KeptParts
<1>2. PICK j \in 0 .. K : j = k - 1 /\ j + 1 = k  OBVIOUS
<1>3. k \in 0 .. K  OBVIOUS
<1>4. PICK h \in 0 .. T : h = i - 1  OBVIOUS
<1>5. TextPlaces(text, T) /\ (\A q \in 0 .. K : EndOf(tokens, q) \in 0 .. Start(text, T))
      /\ \A p, q \in 0 .. K : p <= q => EndOf(tokens, p) <= EndOf(tokens, q)
  BY EndsMeet
<1>6. PICK a \in Nat, z \in Nat : a = Start(text, h) /\ z = Start(text, i)
  <2>1. \A q \in 0 .. T : Start(text, q) \in Nat  BY <1>5 DEF TextPlaces
  <2>2. i \in 0 .. T  OBVIOUS
  <2> QED  BY <2>1, <2>2
<1>7. inside = Boundaries(tokens) \cap (a + 1 .. z - 1)  BY <1>4, <1>6 DEF Offset, Start
<1>8. Boundaries(tokens) = {EndOf(tokens, q) : q \in 0 .. K}  BY DEF Boundaries, EndOf
<1> HIDE DEF inside
<1>9. \A q \in 0 .. K : EndOf(tokens, q) \in Int
  <2>1. Start(text, T) \in Nat
    <3>1. T \in 0 .. T  OBVIOUS
    <3> QED  BY <1>5, <3>1 DEF TextPlaces
  <2> QED  BY <1>5, <2>1
<1>10. ASSUME EndOf(tokens, j) <= a, z <= EndOf(tokens, k) PROVE inside = {}
  <2>1. ASSUME NEW q \in 0 .. K PROVE EndOf(tokens, q) \notin a + 1 .. z - 1
    <3>1. EndOf(tokens, q) \in Int /\ EndOf(tokens, j) \in Int /\ EndOf(tokens, k) \in Int
      BY <1>3, <1>9
    <3>2. CASE q <= j
      <4>1. EndOf(tokens, q) <= EndOf(tokens, j)  BY <1>5, <3>2
      <4> QED  BY <1>10, <3>1, <4>1
    <3>3. CASE k <= q
      <4>1. EndOf(tokens, k) <= EndOf(tokens, q)  BY <1>3, <1>5, <3>3
      <4> QED  BY <1>10, <3>1, <4>1
    <3>4. q <= j \/ k <= q  BY <1>2
    <3> QED  BY <3>2, <3>3, <3>4
  <2> QED  BY <1>7, <1>8, <2>1
<1>11. ASSUME a < EndOf(tokens, j), EndOf(tokens, j) < z PROVE inside # {}
  <2>1. EndOf(tokens, j) \in a + 1 .. z - 1
    <3>1. EndOf(tokens, j) \in Int  BY <1>9
    <3> QED  BY <1>11, <3>1
  <2> QED  BY <1>7, <1>8, <2>1
<1>12. EndOf(tokens, k - 1) <= Start(text, i - 1) /\ Start(text, i) <= EndOf(tokens, k)
           => KeptParts(tokens)[i] = <<text[i]>>
  BY <1>1, <1>2, <1>4, <1>6, <1>10
<1>13. Start(text, i - 1) < EndOf(tokens, k - 1) /\ EndOf(tokens, k - 1) < Start(text, i)
           => KeptParts(tokens)[i] = << >>
  BY <1>1, <1>2, <1>4, <1>6, <1>11
<1> QED  BY <1>12, <1>13 DEF Kept

\* The parts of characters l + 1 to m are those characters from j + 1 on.
PartsFrom(parts, t, T, l, m, j) ==
    \A i \in 1 .. T : l < i /\ i <= m => parts[i] = IF j < i THEN <<t[i]>> ELSE << >>

MakeSlice(parts, l, t, j, m) == FlattenSeq(SubSeq(parts, l + 1, m)) = SubSeq(t, j + 1, m)

\* From where such parts begin they make a slice of the text.
LEMMA PartsGathered ==
    ASSUME NEW S, NEW t \in Seq(S), NEW parts \in Seq(Seq(S)), NEW T \in Nat, T = Len(t), T = Len(parts),
           NEW l \in 0 .. T, NEW m \in 0 .. T, NEW j \in 0 .. T, l <= m, j = l \/ j = l + 1,
           PartsFrom(parts, t, T, l, m, j)
    PROVE  MakeSlice(parts, l, t, j, m)
<1>1. CASE j > m
  <2>1. j = l + 1 /\ l = m  BY <1>1
  <2>2. SubSeq(parts, l + 1, m) = << >> /\ SubSeq(t, j + 1, m) = << >>  BY <1>1, <2>1, SubSeqEmpty
  <2>3. FlattenSeq(<< >>) = << >>  BY EmptySeq DEF FlattenSeq
  <2> QED  BY <2>2, <2>3 DEF MakeSlice
<1>2. CASE j <= m
  <2> DEFINE a == SubSeq(parts, l + 1, j)
             b == SubSeq(parts, j + 1, m)
             c == SubSeq(t, j + 1, m)
  <2>1. Adjoin(parts, l, j, m)  BY <1>2, Adjoins
  <2>2. SubSeq(parts, l + 1, m) = a \o b  BY <2>1 DEF Adjoin
  <2>3. /\ a \in Seq(Seq(S)) /\ Len(a) = j - l /\ \A k \in 1 .. j - l : a[k] = parts[l + k]
        /\ b \in Seq(Seq(S)) /\ Len(b) = m - j /\ \A k \in 1 .. m - j : b[k] = parts[j + k]
    <3>1. l \in Nat /\ j \in Nat /\ m \in Nat /\ l <= j /\ j <= m /\ m <= Len(parts) /\ j <= Len(parts)
      BY <1>2
    <3>2. a \in Seq(Seq(S)) /\ Len(a) = j - l /\ \A k \in 1 .. j - l : a[k] = parts[l + k]
      BY <3>1, SliceIs
    <3>3. b \in Seq(Seq(S)) /\ Len(b) = m - j /\ \A k \in 1 .. m - j : b[k] = parts[j + k]
      BY <3>1, SliceIs
    <3> HIDE DEF a, b, c
    <3> QED  BY <3>2, <3>3
  <2>4. c \in Seq(S) /\ Len(c) = m - j /\ \A k \in 1 .. m - j : c[k] = t[j + k]
    <3>1. j \in Nat /\ m \in Nat /\ j <= m /\ m <= Len(t)  BY <1>2
    <3> HIDE DEF a, b, c
    <3>2. SubSeq(t, j + 1, m) \in Seq(S)  BY <3>1, SliceIs
    <3>3. Len(SubSeq(t, j + 1, m)) = m - j  BY <3>1, SliceIs
    <3>4. \A k \in 1 .. m - j : SubSeq(t, j + 1, m)[k] = t[j + k]  BY <3>1, SliceIs
    <3> QED  BY <3>2, <3>3, <3>4 DEF c
  <2> HIDE DEF a, b, c
  <2>5. FlattenSeq(a) = << >>
    <3>1. FlattenSeq(<< >>) = << >>  BY EmptySeq DEF FlattenSeq
    <3>2. CASE j = l
      <4>1. a = << >>  BY <2>3, <3>2, EmptySeq
      <4> QED  BY <3>1, <4>1
    <3>3. CASE j = l + 1
      <4>1. j \in 1 .. T /\ l < j /\ j <= m /\ ~(j < j)  BY <1>2, <3>3
      <4>2. parts[j] = << >>  BY <4>1 DEF PartsFrom
      <4>3. Len(a) = 1 /\ a[1] = parts[j]  BY <2>3, <3>3
      <4>4. << >> \in Seq(S)  BY EmptySeq
      <4>5. a = << << >> >>
        <5>1. << << >> >> \in Seq(Seq(S)) /\ Len(<< << >> >>) = 1 /\ << << >> >>[1] = << >>  BY <4>4
        <5>2. \A i \in 1 .. 1 : a[i] = << << >> >>[i]  BY <4>2, <4>3, <5>1
        <5> QED  BY <2>3, <4>3, <5>1, <5>2, SeqEqual
      <4>6. FlattenSeq(<< << >> >>) = << >>  BY <4>4, FlattenShort
      <4> QED  BY <4>5, <4>6
    <3> QED  BY <3>2, <3>3
  <2>6. b = Characters(c)
    <3>0. PICK n \in Nat : n = m - j  BY <1>2
    <3>1. DOMAIN c = 1 .. n /\ DOMAIN b = 1 .. n /\ b = [k \in 1 .. n |-> b[k]]
      <4>1. b \in [1 .. n -> Seq(S)] /\ c \in [1 .. n -> S]  BY <2>3, <2>4, <3>0, LenProperties
      <4> QED  BY <4>1
    <3>2. ASSUME NEW k \in 1 .. n PROVE b[k] = <<c[k]>>
      <4>1. PICK i \in 1 .. T : i = j + k  BY <3>0
      <4>2. l < i /\ i <= m /\ j < i  BY <3>0, <4>1
      <4>3. parts[i] = <<t[i]>>  BY <4>2 DEF PartsFrom
      <4> QED  BY <2>3, <2>4, <3>0, <4>1, <4>3
    <3>3. Characters(c) = [k \in 1 .. n |-> <<c[k]>>]  BY <3>1 DEF Characters
    <3> QED  BY <3>1, <3>2, <3>3
  <2>7. FlattenSeq(b) = c  BY <2>4, <2>6, FlattenCharacters
  <2>8. FlattenSeq(a \o b) = FlattenSeq(a) \o FlattenSeq(b)  BY <2>3, FlattenConcat
  <2>9. << >> \o c = c  BY <2>4, ConcatEmptySeq
  <2> QED  BY <2>2, <2>5, <2>7, <2>8, <2>9 DEF c, MakeSlice
<1> QED  BY <1>1, <1>2

\* There is a part for each character.
LEMMA PartsAre ==
    ASSUME NEW tokens, text \in Seq(CodePoints), NEW T \in Nat, T = Len(text)
    PROVE  KeptParts(tokens) \in Seq(Seq(CodePoints)) /\ Len(KeptParts(tokens)) = T
<1> DEFINE parts == KeptParts(tokens)
<1>1. DOMAIN text = 1 .. T /\ \A i \in 1 .. T : text[i] \in CodePoints
  BY LenProperties, ElementOfSeq
<1>2. \A i \in 1 .. T : <<text[i]>> \in Seq(CodePoints) /\ << >> \in Seq(CodePoints)
  BY <1>1, EmptySeq
<1>3. parts \in [1 .. T -> Seq(CodePoints)]  BY <1>1, <1>2 DEF KeptParts
<1> HIDE DEF parts
<1>4. parts \in Seq(Seq(CodePoints)) /\ Len(parts) = T  BY <1>3, FunctionListed
<1> QED  BY <1>4 DEF parts

(***************************************************************************)
(* Decoding one token gives the characters kept of those that end in it.   *)
(***************************************************************************)
LEMMA TokenDecoded ==
    ASSUME NEW tokens, NEW T \in Nat, Spelling(tokens, T), NEW K \in Nat, K = Len(tokens),
           NEW k \in 1 .. K, NEW l \in 0 .. T, LastBy(l, T, EndOf(tokens, k - 1))
    PROVE  \E m \in l .. T : /\ LastBy(m, T, EndOf(tokens, k))
                             /\ Utf8ToWide(TokenBytes(tokens[k]))
                                  = FlattenSeq(SubSeq(KeptParts(tokens), l + 1, m))
<1> DEFINE parts == KeptParts(tokens)
<1>1. text \in Seq(CodePoints) /\ T = Len(text) /\ TextPlaces(text, T)
  BY EndsMeet DEF Spelling
<1>2. /\ \A i \in 0 .. T : Start(text, i) \in Nat
      /\ \A h, i \in 0 .. T : h < i => Start(text, h) < Start(text, i)
      /\ Start(text, 0) = 0
  BY <1>1 DEF TextPlaces
<1>3. /\ \A q \in 0 .. K : EndOf(tokens, q) \in 0 .. Start(text, T)
      /\ \A p, q \in 0 .. K : p <= q => EndOf(tokens, p) <= EndOf(tokens, q)
  BY EndsMeet
<1>4. Start(text, T) \in Nat
  <2>1. T \in 0 .. T  OBVIOUS
  <2> QED  BY <1>2, <2>1
<1>5. PICK x \in Nat : x = EndOf(tokens, k - 1) /\ x <= Start(text, T)
  <2>1. k - 1 \in 0 .. K  OBVIOUS
  <2> QED  BY <1>3, <1>4, <2>1
<1>6. PICK N \in Nat : /\ EndOf(tokens, k) = x + N
                       /\ IsWindow(TokenBytes(tokens[k]), N, WideToUtf8(text), x)
  BY <1>5, TokenStands
<1>7. PICK z \in Nat : z = x + N /\ x <= z /\ z = EndOf(tokens, k) /\ z <= Start(text, T)
  <2>1. k \in 0 .. K  OBVIOUS
  <2>2. EndOf(tokens, k) \in 0 .. Start(text, T)  BY <1>3, <2>1
  <2> QED  BY <1>4, <1>6, <2>2
<1>8. LastBy(l, T, x)  BY <1>5
<1>9. PICK m \in l .. T : LastBy(m, T, z)  BY <1>1, <1>7, <1>8, LastFound
<1>10. m \in 0 .. T /\ l <= m  OBVIOUS
<1>11. PICK s \in Nat : s = Start(text, l) /\ s <= x  BY <1>2, <1>8 DEF LastBy
<1>12. PICK j \in 0 .. T : j = IF s = x THEN l ELSE l + 1
  <2>1. CASE s = x  BY <2>1
  <2>2. CASE s # x
    <3>1. l # T
      <4>1. CASE l = T  BY <1>5, <1>11, <2>2, <4>1
      <4> QED  BY <4>1
    <3>2. l + 1 \in 0 .. T  BY <3>1
    <3> QED  BY <2>2, <3>2
  <2> QED  BY <2>1, <2>2
\* j is the first that begins behind x.
<1>13. x <= Start(text, j) /\ (j > 0 => Start(text, j - 1) < x)
  <2>1. CASE s = x
    <3>1. j = l  BY <1>12, <2>1
    <3>2. ASSUME j > 0 PROVE Start(text, j - 1) < x
      <4>1. PICK h \in 0 .. T : h = j - 1 /\ h < j  BY <3>2
      <4> QED  BY <1>2, <1>11, <2>1, <3>1, <4>1
    <3> QED  BY <1>11, <2>1, <3>1, <3>2
  <2>2. CASE s # x
    <3>1. j = l + 1 /\ l < T /\ j - 1 = l  BY <1>12, <2>2
    <3>2. x < Start(text, j)  BY <1>8, <3>1 DEF LastBy
    <3>3. Start(text, j - 1) < x  BY <1>11, <2>2, <3>1
    <3>4. Start(text, j) \in Nat  BY <1>2
    <3> QED  BY <3>2, <3>3, <3>4
  <2> QED  BY <2>1, <2>2
<1>14. Between(text, T, x, x + N, j, m)  BY <1>7, <1>9, <1>13 DEF Between, LastBy
<1>15. Utf8ToWide(TokenBytes(tokens[k])) = SubSeq(text, j + 1, m)
  <2>1. x + N <= Start(text, T)  BY <1>7
  <2> QED  BY <1>1, <1>6, <1>10, <1>14, <2>1, WindowDecoded
<1>16. ASSUME NEW i \in 1 .. T, l < i, i <= m
       PROVE  parts[i] = IF j < i THEN <<text[i]>> ELSE << >>
  <2>0. Kept(tokens, i, x, z)  BY <1>1, <1>5, <1>7, KeptOrNot
  <2>1. PICK h \in 0 .. T : h = i - 1 /\ h < i  OBVIOUS
  <2>2. i \in 0 .. T  OBVIOUS
  <2>3. PICK a \in Nat, e \in Nat : a = Start(text, h) /\ e = Start(text, i)  BY <1>2, <2>2
  <2>4. a = Start(text, i - 1)  BY <2>1, <2>3
  <2>5. CASE j < i
    <3>1. x <= a
      <4>1. h = j \/ j < h  BY <2>1, <2>5
      <4>2. Start(text, j) <= a /\ Start(text, j) \in Nat  BY <1>2, <2>3, <4>1
      <4> QED  BY <1>13, <4>2
    <3>2. e <= z
      <4>1. i = m \/ i < m  BY <1>16
      <4>2. e <= Start(text, m) /\ Start(text, m) \in Nat
        <5>1. Start(text, m) \in Nat  BY <1>2, <1>10
        <5>2. CASE i = m  BY <2>3, <5>1, <5>2
        <5>3. CASE i < m
          <6>1. Start(text, i) < Start(text, m)  BY <1>2, <1>10, <2>2, <5>3
          <6> QED  BY <2>3, <5>1, <6>1
        <5> QED  BY <4>1, <5>1, <5>2, <5>3
      <4>3. Start(text, m) <= z  BY <1>9 DEF LastBy
      <4> QED  BY <4>2, <4>3
    <3>3. KeptParts(tokens)[i] = <<text[i]>>  BY <2>0, <2>3, <2>4, <3>1, <3>2 DEF Kept
    <3> QED  BY <2>5, <3>3
  <2>6. CASE ~(j < i)
    <3>1. s # x /\ j = l + 1 /\ i = l + 1 /\ h = l /\ l < T  BY <1>12, <1>16, <2>1, <2>6
    <3>2. a < x  BY <1>11, <2>3, <3>1
    <3>3. x < e  BY <1>8, <2>3, <3>1 DEF LastBy
    <3>4. KeptParts(tokens)[i] = << >>  BY <2>0, <2>3, <2>4, <3>2, <3>3 DEF Kept
    <3> QED  BY <2>6, <3>4
  <2> QED  BY <2>5, <2>6
<1>17. parts \in Seq(Seq(CodePoints)) /\ Len(parts) = T  BY <1>1, PartsAre
<1> HIDE DEF parts
<1>18. j = l \/ j = l + 1  BY <1>12
<1>19. PartsFrom(parts, text, T, l, m, j)  BY <1>16 DEF PartsFrom
<1>20. MakeSlice(parts, l, text, j, m)  BY <1>1, <1>10, <1>17, <1>18, <1>19, PartsGathered
<1>21. FlattenSeq(SubSeq(parts, l + 1, m)) = SubSeq(text, j + 1, m)  BY <1>20 DEF MakeSlice
<1> QED  BY <1>7, <1>9, <1>15, <1>21 DEF parts

(***************************************************************************)
(* The spelling.  From the cut on, the tokens made, the word being merged  *)
(* and the text not yet matched are together the visible text; decoding has*)
(* given the characters that end in the tokens decoded.                    *)
(***************************************************************************)

\* What is still to be encoded, once the text has been cut.
Unread == SubSeq(piece, pos + 1, Len(piece)) \o FlattenSeq(pieces)

\* The tokens made, the word that is merged and what is left spell the text.
Spelt ==
    pc # "scan" => FlattenSeq(all) \o (FlattenSeq(word) \o Visibly(Unread)) = Visibly(text)

\* The characters up to m have been decoded.
DecodedTo(m) ==
    /\ LastBy(m, Len(text), EndOf(all, shown))
    /\ out = FlattenSeq(SubSeq(KeptParts(all), 1, m))

SpellInv ==
    /\ pieces \in Seq(Seq(CodePoints)) /\ piece \in Seq(CodePoints)
    /\ word \in Seq(Range(Vocabulary)) /\ all \in Seq(Range(Vocabulary))
    /\ pc = "scan" => all = << >> /\ pieces = << >> /\ piece = << >> /\ pos = 0
    /\ pc # "merge" => word = << >>
    /\ pc \in {"piece", "decode"} => pos = Len(piece)
    /\ pc = "decode" => pieces = << >>
    /\ pc = "decode" => ids = [i \in DOMAIN all |-> IdForToken(all[i])]
    /\ pc = "decode" => \E m \in 0 .. Len(text) : DecodedTo(m)
    /\ pc # "decode" => out = << >> /\ shown = 0
    /\ Spelt

\* Symbols are sequences of characters.
LEMMA TableSpells == Range(Vocabulary) \subseteq Seq(Int)
<1>1. Vocabulary \in Seq(Seq(Int))  BY VocabularyAssumption
<1>2. \A i \in DOMAIN Vocabulary : Vocabulary[i] \in Seq(Int)  BY <1>1, LenProperties, ElementOfSeq
<1> QED  BY <1>2 DEF Range

\* The text is Unicode.
LEMMA TextIs ==
    ASSUME ScanInv
    PROVE  text \in Seq(CodePoints)
BY TableAssumption DEF ScanInv

\* What is left before a step, cut after its first n characters.
LEMMA UnreadIs ==
    ASSUME SpellInv, TypeInv
    PROVE  /\ Unread \in Seq(CodePoints) /\ FlattenSeq(pieces) \in Seq(CodePoints)
           /\ pos = Len(piece) => Unread = FlattenSeq(pieces)
<1> DEFINE a == SubSeq(piece, pos + 1, Len(piece))
           b == FlattenSeq(pieces)
<1>1. piece \in Seq(CodePoints) /\ pieces \in Seq(Seq(CodePoints)) /\ pos \in 0 .. Len(piece)
  BY DEF SpellInv, TypeInv
<1>2. b \in Seq(CodePoints)  BY <1>1, FlattenListed
<1>3. PICK n \in Nat, p \in Nat : n = Len(piece) /\ p = pos /\ p <= n /\ n <= Len(piece)
  BY <1>1, LenProperties
<1>4. a \in Seq(CodePoints)
  <2>1. SubSeq(piece, p + 1, n) \in Seq(CodePoints)  BY <1>1, <1>3, SliceIs
  <2> QED  BY <1>3, <2>1
<1>5. pos = Len(piece) => a = << >>  BY <1>3, SubSeqEmpty
<1>6. Unread = a \o b  BY DEF Unread
<1> HIDE DEF a, b
<1>7. a \o b \in Seq(CodePoints)  BY <1>2, <1>4, ConcatProperties
<1>8. << >> \o b = b  BY <1>2, ConcatEmptySeq
<1> QED  BY <1>2, <1>5, <1>6, <1>7, <1>8 DEF b

\* Nothing is cut and nothing made at first.
LEMMA SpellStarts == Init => SpellInv
<1> SUFFICES ASSUME Init PROVE SpellInv
  OBVIOUS
<1>1. \A S : << >> \in Seq(S)  BY EmptySeq
<1> QED  BY <1>1 DEF Init, SpellInv, Spelt

\* Nothing spells nothing.
LEMMA NothingSpells ==
    ASSUME NEW S, NEW s \in Seq(S)
    PROVE  /\ FlattenSeq(<< >>) = << >> /\ << >> \o s = s /\ s \o << >> = s
           /\ FlattenSeq(<< >>) \o s = s
<1>1. FlattenSeq(<< >>) = << >>  BY EmptySeq DEF FlattenSeq
<1>2. << >> \o s = s /\ s \o << >> = s  BY ConcatEmptySeq
<1> QED  BY <1>1, <1>2

\* A flattened sequence begins with the first of its parts.
LEMMA FlattenHead ==
    ASSUME NEW S, NEW seqs \in Seq(Seq(S)), seqs # << >>
    PROVE  /\ Head(seqs) \in Seq(S) /\ Tail(seqs) \in Seq(Seq(S)) /\ FlattenSeq(Tail(seqs)) \in Seq(S)
           /\ FlattenSeq(seqs) = Head(seqs) \o FlattenSeq(Tail(seqs))
<1> DEFINE h == Head(seqs)
           t == Tail(seqs)
<1>1. h \in Seq(S) /\ t \in Seq(Seq(S))  BY HeadTailProperties
<1>2. seqs = <<h>> \o t  BY ConcatProperties, HeadTailProperties
<1>3. <<h>> \in Seq(Seq(S))  BY <1>1
<1> HIDE DEF h, t
<1>4. FlattenSeq(<<h>> \o t) = FlattenSeq(<<h>>) \o FlattenSeq(t)  BY <1>1, <1>3, FlattenConcat
<1>5. FlattenSeq(<<h>>) = h  BY <1>1, FlattenShort
<1>6. FlattenSeq(t) \in Seq(S)  BY <1>1, FlattenListed
<1> QED  BY <1>1, <1>2, <1>4, <1>5, <1>6 DEF h, t

\* What is spelt before an action that encodes.
Spells(a, w, u) == FlattenSeq(a) \o (FlattenSeq(w) \o Visibly(u)) = Visibly(text)

\* A symbol moves from what is left to the end of the tokens.
LEMMA SpellsToken ==
    ASSUME NEW S, NEW a \in Seq(Seq(S)), NEW x \in Seq(S), NEW u \in Seq(CodePoints),
           NEW h \in Seq(CodePoints), Nat \subseteq S, Visibly(h) = x, Spells(a, << >>, h \o u)
    PROVE  Spells(Append(a, x), << >>, u)
<1> DEFINE f == FlattenSeq(a)
           v == Visibly(u)
           hu == h \o u
<1>1. v \in Seq(S)
  <2>1. v \in Seq(Nat)  BY VisiblyMapped
  <2> HIDE DEF v
  <2> QED  BY <2>1, SeqMonotonic
<1>2. FlattenSeq(Append(a, x)) = f \o x /\ f \in Seq(S)  BY FlattenAppend
<1>3. Visibly(hu) = x \o v  BY VisiblyConcat
<1> HIDE DEF f, v, hu
<1>4. x \o v \in Seq(S)  BY <1>1, ConcatProperties
<1>5. FlattenSeq(<< >>) = << >> /\ << >> \o v = v  BY <1>1, NothingSpells
<1>6. << >> \o (x \o v) = x \o v  BY <1>4, ConcatEmptySeq
<1>7. Regroups(f, x, v)  BY <1>1, <1>2, Regroup
<1>8. f \o (FlattenSeq(<< >>) \o Visibly(hu)) = Visibly(text)  BY DEF Spells, f, hu
<1>9. f \o (x \o v) = Visibly(text)  BY <1>3, <1>5, <1>6, <1>8
<1>10. (f \o x) \o v = Visibly(text)  BY <1>7, <1>9 DEF Regroups
<1>11. FlattenSeq(Append(a, x)) \o (FlattenSeq(<< >>) \o v) = Visibly(text)
  BY <1>2, <1>5, <1>10
<1> QED  BY <1>11 DEF Spells, v

\* The first characters of what is left become the word.
LEMMA SpellsWord ==
    ASSUME NEW a, NEW w, NEW u \in Seq(CodePoints), NEW h \in Seq(CodePoints),
           FlattenSeq(w) = Visibly(h), Spells(a, << >>, h \o u)
    PROVE  Spells(a, w, u)
<1> DEFINE hu == h \o u
<1>1. Visibly(hu) = Visibly(h) \o Visibly(u)  BY VisiblyConcat
<1>2. hu \in Seq(CodePoints)  BY ConcatProperties
<1> HIDE DEF hu
<1>3. Visibly(hu) \in Seq(Nat)  BY <1>2, VisiblyMapped
<1>4. FlattenSeq(<< >>) \o Visibly(hu) = Visibly(hu)  BY <1>3, NothingSpells
<1>5. FlattenSeq(a) \o Visibly(hu) = Visibly(text)  BY <1>4 DEF Spells, hu
<1> QED  BY <1>1, <1>5 DEF Spells

\* The word becomes the last of the tokens.
LEMMA SpellsMore ==
    ASSUME NEW S, NEW a \in Seq(Seq(S)), NEW w \in Seq(Seq(S)), NEW u \in Seq(CodePoints),
           Nat \subseteq S, Spells(a, w, u)
    PROVE  Spells(a \o w, << >>, u)
<1> DEFINE f == FlattenSeq(a)
           g == FlattenSeq(w)
           v == Visibly(u)
<1>1. v \in Seq(S)
  <2>1. v \in Seq(Nat)  BY VisiblyMapped
  <2> HIDE DEF v
  <2> QED  BY <2>1, SeqMonotonic
<1>2. f \in Seq(S) /\ g \in Seq(S) /\ FlattenSeq(a \o w) = f \o g  BY FlattenListed, FlattenConcat
<1> HIDE DEF f, g, v
<1>3. FlattenSeq(<< >>) \o v = v  BY <1>1, NothingSpells
<1>4. Regroups(f, g, v)  BY <1>1, <1>2, Regroup
<1>5. f \o (g \o v) = Visibly(text)  BY DEF Spells, f, g, v
<1>6. (f \o g) \o v = Visibly(text)  BY <1>4, <1>5 DEF Regroups
<1>7. FlattenSeq(a \o w) \o (FlattenSeq(<< >>) \o v) = Visibly(text)  BY <1>2, <1>3, <1>6
<1> QED  BY <1>7 DEF Spells, v

\* In the end the tokens spell the text.
LEMMA SpellsAll ==
    ASSUME NEW S, NEW a \in Seq(Seq(S)), Spells(a, << >>, << >>)
    PROVE  FlattenSeq(a) = Visibly(text)
<1>1. FlattenSeq(a) \in Seq(S)  BY FlattenListed
<1>2. Visibly(<< >>) = << >>
  <2>1. << >> \in Seq(33 .. 126)  BY EmptySeq
  <2> QED  BY <2>1, VisiblyAscii
<1>3. FlattenSeq(<< >>) = << >> /\ << >> \o << >> = << >> /\ FlattenSeq(a) \o << >> = FlattenSeq(a)
  <2>1. << >> \in Seq(S)  BY EmptySeq
  <2> QED  BY <1>1, <2>1, NothingSpells
<1> QED  BY <1>2, <1>3 DEF Spells

-----------------------------------------------------------------------------
\* Cutting the text leaves all of it.
LEMMA CutSpelt ==
    ASSUME SpellInv, TypeInv, ScanEnd
    PROVE  SpellInv'
<1> USE DEF match, answer
<1>1. pc = "scan" /\ current = Len(text) /\ pieces' = CutPieces /\ pc' = "piece"
      /\ UNCHANGED <<text, piece, pos, word, all, ids, out, shown>>
  BY DEF ScanEnd, CutPieces, scan
<1>2. text \in Seq(CodePoints) /\ ScanInv  BY TextIs DEF TypeInv
<1>3. pieces' \in Seq(Seq(CodePoints)) /\ FlattenSeq(pieces') = text  BY <1>1, <1>2, PiecesJoin
<1>4. all = << >> /\ piece = << >> /\ pos = 0 /\ word = << >> /\ out = << >> /\ shown = 0
  BY <1>1 DEF SpellInv
<1>5. pos = Len(piece)  BY <1>4, EmptySeq
<1>6. Unread' = text
  <2>1. SubSeq(piece, pos + 1, Len(piece)) = << >>  BY <1>4, <1>5, SubSeqEmpty
  <2>2. << >> \o text = text  BY <1>2, NothingSpells
  <2> QED  BY <1>1, <1>3, <2>1, <2>2 DEF Unread
<1>7. Spelt'
  <2>1. Visibly(text) \in Seq(Nat)  BY <1>2, VisiblyMapped
  <2>2. FlattenSeq(<< >>) \o Visibly(text) = Visibly(text)  BY <2>1, NothingSpells
  <2>3. FlattenSeq(<< >>) \o (FlattenSeq(<< >>) \o Visibly(text)) = Visibly(text)  BY <2>2
  <2> QED  BY <1>1, <1>4, <1>6, <2>3 DEF Spelt
<1> QED  BY <1>1, <1>3, <1>4, <1>5, <1>7 DEF SpellInv

\* The next piece moves to the front of what is left.
LEMMA TakeSpelt ==
    ASSUME SpellInv, TypeInv, TakeSpecial \/ TakeText
    PROVE  SpellInv'
<1> USE DEF match, answer
<1> DEFINE h == Head(pieces)
           t == Tail(pieces)
           r == FlattenSeq(t)
<1>1. pc = "piece" /\ pieces # << >> /\ pieces' = t /\ UNCHANGED <<text, word, ids, out, shown>>
  BY DEF TakeSpecial, TakeText, scan
<1>2. pieces \in Seq(Seq(CodePoints)) /\ piece \in Seq(CodePoints) /\ word = << >> /\ pos = Len(piece)
      /\ all \in Seq(Range(Vocabulary)) /\ out = << >> /\ shown = 0
  BY <1>1 DEF SpellInv
<1>3. h \in Seq(CodePoints) /\ t \in Seq(Seq(CodePoints)) /\ r \in Seq(CodePoints)
      /\ FlattenSeq(pieces) = h \o r
  BY <1>1, <1>2, FlattenHead
<1>4. Unread = h \o r  BY <1>2, <1>3, UnreadIs
<1>5. Spells(all, << >>, h \o r)  BY <1>1, <1>2, <1>4 DEF SpellInv, Spelt, Spells
<1> HIDE DEF h, t, r
<1>6. CASE TakeSpecial
  <2>1. h \in Specials /\ all' = Append(all, h) /\ UNCHANGED <<pc, piece, pos>>
    BY <1>6 DEF TakeSpecial, h
  <2>2. h \in Range(Vocabulary) /\ h \in Seq(33 .. 126)  BY <2>1, TableAssumption
  <2>3. Visibly(h) = h  BY <2>2, VisiblyAscii
  <2>4. all' \in Seq(Range(Vocabulary))  BY <1>2, <2>1, <2>2, AppendProperties
  <2>5. Spells(all', << >>, r)
    <3>1. all \in Seq(Seq(Int)) /\ h \in Seq(Int)  BY <1>2, <2>2, TableSpells, SeqMonotonic
    <3>2. Nat \subseteq Int  OBVIOUS
    <3> QED  BY <1>3, <1>5, <2>1, <2>3, <3>1, <3>2, SpellsToken
  <2>6. Unread' = r
    <3>1. SubSeq(piece, pos + 1, Len(piece)) = << >>
      <4>1. PICK n \in Nat : n = Len(piece)  BY <1>2, LenProperties
      <4> QED  BY <1>2, <4>1, SubSeqEmpty
    <3>2. << >> \o r = r  BY <1>3, NothingSpells
    <3> QED  BY <1>1, <2>1, <3>1, <3>2 DEF Unread, r
  <2>7. Spelt'  BY <1>1, <1>2, <2>5, <2>6 DEF Spelt, Spells
  <2> QED  BY <1>1, <1>2, <1>3, <2>1, <2>4, <2>7 DEF SpellInv
<1>7. CASE TakeText
  <2>1. piece' = Utf8ToWide(WideToUtf8(h)) /\ pos' = 0 /\ pc' = "match" /\ UNCHANGED all
    BY <1>7 DEF TakeText, h
  <2>2. piece' = h  BY <1>3, <2>1, RoundTrip
  <2>3. Unread' = h \o r
    <3>1. SubSeq(h, 0 + 1, Len(h)) = h
      <4>1. SubSeq(h, 1, Len(h)) = h  BY <1>3, SubSeqFull
      <4>2. 0 + 1 = 1  OBVIOUS
      <4> QED  BY <4>1, <4>2
    <3> QED  BY <1>1, <2>1, <2>2, <3>1 DEF Unread, r
  <2>4. Spelt'  BY <1>1, <1>2, <1>5, <2>1, <2>3 DEF Spelt, Spells
  <2> QED  BY <1>1, <1>2, <1>3, <2>1, <2>2, <2>4 DEF SpellInv
<1> QED  BY <1>6, <1>7

\* A match moves characters from the piece into the word; one that could be empty would lose one.
LEMMA MatchSpelt ==
    ASSUME SpellInv, TypeInv, MatchPattern
    PROVE  SpellInv'
<1> USE DEF match, answer
<1> DEFINE part == SubSeq(piece, pos + 1, MatchEnd(piece, pos))
           b == FlattenSeq(pieces)
<1>1. pc = "match" /\ pc' = "merge" /\ UNCHANGED <<text, pieces, piece, all, ids, out, shown>>
      /\ word' = Characters(Visibly(part)) /\ pos' = Max({MatchEnd(piece, pos), pos + 1})
  BY DEF MatchPattern, scan
<1>2. pieces \in Seq(Seq(CodePoints)) /\ piece \in Seq(CodePoints) /\ word = << >>
      /\ all \in Seq(Range(Vocabulary)) /\ out = << >> /\ shown = 0
  BY <1>1 DEF SpellInv
<1>3. PICK n \in Nat : n = Len(piece)  BY <1>2, LenProperties
<1>4. PICK p \in Nat : p = pos /\ p < n  BY <1>3 DEF MatchPattern, TypeInv
<1>5. PICK end \in p + 1 .. n : end = MatchEnd(piece, p)
  <2>1. MatchEnd(piece, p) \in p .. n  BY <1>3, <1>4, MatchEnds
  <2>2. MatchEnd(piece, p) > p  BY <1>3, <1>4, MatchGoesOn
  <2> QED  BY <2>1, <2>2
<1>6. pos' = end
  <2> DEFINE T == {end, p + 1}
  <2>1. T \in SUBSET (0 .. n) /\ T # {}  OBVIOUS
  <2>2. pos' = Max(T)  BY <1>1, <1>4, <1>5
  <2>3. end \in T /\ \A k \in T : k <= end  OBVIOUS
  <2> HIDE DEF T
  <2>4. Max(T) \in T /\ Max(T) >= end  BY <2>1, <2>3, MaxIs
  <2>5. Max(T) \in 0 .. n  BY <2>1, <2>4
  <2>6. Max(T) <= end  BY <2>3, <2>4
  <2> QED  BY <2>2, <2>4, <2>5, <2>6
<1>7. part = SubSeq(piece, p + 1, end)  BY <1>4, <1>5
<1>8. p <= end /\ end \in Nat /\ end <= n /\ p <= n  OBVIOUS
<1>9. part \in Seq(CodePoints)
  <2>1. SubSeq(piece, p + 1, end) \in Seq(CodePoints)  BY <1>2, <1>3, <1>8, SliceIs
  <2> QED  BY <1>7, <2>1
<1> HIDE DEF part
<1>10. word' \in Seq(Range(Vocabulary)) /\ FlattenSeq(word') = Visibly(part)
  BY <1>1, <1>9, PartsInTable
<1> DEFINE c == SubSeq(piece, end + 1, n)
           u == c \o b
<1>11. c \in Seq(CodePoints)  BY <1>2, <1>3, <1>8, SliceIs
<1>12. b \in Seq(CodePoints)  BY <1>2, FlattenListed
<1>13. Unread' = u  BY <1>1, <1>3, <1>6 DEF Unread
<1>14. Unread = part \o u
  <2>1. Adjoin(piece, p, end, n)  BY <1>2, <1>3, <1>8, Adjoins
  <2>2. SubSeq(piece, p + 1, n) = part \o c  BY <1>7, <2>1 DEF Adjoin
  <2>3. Unread = (part \o c) \o b  BY <1>3, <1>4, <2>2 DEF Unread
  <2> HIDE DEF c, b, u
  <2>4. Regroups(part, c, b)  BY <1>9, <1>11, <1>12, Regroup
  <2> QED  BY <2>3, <2>4 DEF Regroups, u
<1> HIDE DEF b, c
<1>15. u \in Seq(CodePoints)  BY <1>11, <1>12, ConcatProperties
<1> HIDE DEF u
<1>16. Spells(all, << >>, part \o u)  BY <1>1, <1>2, <1>14 DEF SpellInv, Spelt, Spells
<1>17. Spells(all, word', u)  BY <1>9, <1>10, <1>15, <1>16, SpellsWord
<1>18. Spelt'  BY <1>1, <1>13, <1>17 DEF Spelt, Spells
<1> QED  BY <1>1, <1>2, <1>10, <1>18 DEF SpellInv

\* A merge leaves what the word spells.
LEMMA MergeSpelt ==
    ASSUME SpellInv, TypeInv, WordReached, Merge
    PROVE  SpellInv'
<1> USE DEF match, answer
<1>1. pc = "merge" /\ pc' = "merge"
      /\ UNCHANGED <<text, pieces, piece, pos, all, ids, out, shown>>
      /\ word' = Merged(word, Best(word)) /\ Ranked(word) # {}
  BY DEF Merge, scan
<1>2. FlattenSeq(word') = FlattenSeq(word)
  <2>1. PICK V : \E token \in Seq(V) : word \in WordsOver(V) /\ Reached(token, word)
    BY <1>1 DEF WordReached
  <2>2. PICK token \in Seq(V) : word \in WordsOver(V) /\ Reached(token, word)  BY <2>1
  <2>3. Reached(token, word')  BY <1>1, <2>2, SweepReaches
  <2> QED  BY <2>2, <2>3 DEF Reached
<1>3. word' \in Seq(Range(Vocabulary))
  <2> DEFINE p == Best(word)
             S == Range(Vocabulary)
  <2>1. p \in Range(Merges)  BY <1>1, BestIs DEF Ranked
  <2>2. PICK k \in DOMAIN Merges : p = Merges[k]  BY <2>1 DEF Range
  <2>3. p[1] \o p[2] \in S  BY <2>2, VocabularyAssumption
  <2>4. word \in Seq(S)  BY DEF SpellInv
  <2> HIDE DEF p, S
  <2>5. PICK from \in [1 .. Len(word) + 2 -> Seq(S)] : Merged(word, p) = from[1]
    BY <2>3, <2>4, MergedBySteps
  <2>6. 1 \in 1 .. Len(word) + 2
    <3>1. Len(word) \in Nat  BY <2>4, LenProperties
    <3> QED  BY <3>1
  <2>7. Merged(word, p) \in Seq(S)  BY <2>5, <2>6
  <2> QED  BY <1>1, <2>7 DEF p, S
<1>4. Unread' = Unread  BY <1>1 DEF Unread
<1>5. Spelt'  BY <1>1, <1>2, <1>4 DEF SpellInv, Spelt
<1> QED  BY <1>1, <1>3, <1>5 DEF SpellInv

\* A merged word becomes tokens.
LEMMA EndSpelt ==
    ASSUME SpellInv, TypeInv, MergeEnd \/ PieceEnd
    PROVE  SpellInv'
<1> USE DEF match, answer
<1>1. pc' # "scan" /\ pc # "scan" /\ pc # "decode" /\ pc' # "decode" /\ pc' # "merge"
      /\ UNCHANGED <<text, pieces, piece, pos, ids, out, shown>>
  BY DEF MergeEnd, PieceEnd, scan
<1>2. Unread' = Unread  BY <1>1 DEF Unread
<1>3. CASE MergeEnd
  <2>1. pc' = "match" /\ all' = all \o word /\ word' = << >>  BY <1>3 DEF MergeEnd
  <2>2. all \in Seq(Range(Vocabulary)) /\ word \in Seq(Range(Vocabulary))  BY DEF SpellInv
  <2>3. all' \in Seq(Range(Vocabulary)) /\ word' \in Seq(Range(Vocabulary))
    BY <2>1, <2>2, ConcatProperties, EmptySeq
  <2>4. Spells(all', << >>, Unread)
    <3>1. all \in Seq(Seq(Int)) /\ word \in Seq(Seq(Int))  BY <2>2, TableSpells, SeqMonotonic
    <3>2. Unread \in Seq(CodePoints) /\ Nat \subseteq Int  BY UnreadIs
    <3>3. Spells(all, word, Unread)  BY <1>1 DEF SpellInv, Spelt, Spells
    <3> QED  BY <2>1, <3>1, <3>2, <3>3, SpellsMore
  <2>5. Spelt'  BY <1>1, <1>2, <2>1, <2>4 DEF Spelt, Spells
  <2> QED  BY <1>1, <2>1, <2>3, <2>5 DEF SpellInv
<1>4. CASE PieceEnd
  <2>1. pc = "match" /\ pc' = "piece" /\ pos >= Len(piece) /\ UNCHANGED <<word, all>>
    BY <1>4 DEF PieceEnd
  <2>2. pos = Len(piece)
    <3>1. piece \in Seq(CodePoints) /\ pos \in 0 .. Len(piece)  BY DEF SpellInv, TypeInv
    <3>2. Len(piece) \in Nat  BY <3>1, LenProperties
    <3> QED  BY <2>1, <3>1, <3>2
  <2>3. Spelt'  BY <1>1, <1>2, <2>1 DEF SpellInv, Spelt
  <2> QED  BY <1>1, <2>1, <2>2, <2>3 DEF SpellInv
<1> QED  BY <1>3, <1>4

\* Once everything is encoded the tokens spell the text.
LEMMA SpellingWhole ==
    ASSUME NEW a, a \in Seq(Range(Vocabulary)), ScanInv, pieces = << >>, piece \in Seq(CodePoints),
           pos = Len(piece), Spells(a, << >>, Unread)
    PROVE  Spelling(a, Len(text))
<1>1. text \in Seq(CodePoints)  BY TextIs
<1>2. a \in Seq(Seq(Int))  BY TableSpells, SeqMonotonic
<1>3. Unread = << >>
  <2>1. PICK n \in Nat : n = Len(piece)  BY LenProperties
  <2>2. SubSeq(piece, pos + 1, Len(piece)) = << >>  BY <2>1, SubSeqEmpty
  <2>3. << >> \in Seq(Int)  BY EmptySeq
  <2>4. FlattenSeq(<< >>) = << >> /\ << >> \o << >> = << >>  BY <2>3, NothingSpells
  <2> QED  BY <2>2, <2>4 DEF Unread
<1>4. FlattenSeq(a) = Visibly(text)  BY <1>2, <1>3, SpellsAll
<1> QED  BY <1>1, <1>2, <1>4 DEF Spelling

\* With nothing left the tokens alone spell the text, and none of it is decoded.
LEMMA EncodedSpelt ==
    ASSUME SpellInv, TypeInv, Encoded
    PROVE  SpellInv'
<1> USE DEF match, answer
<1>1. pc = "piece" /\ pc' = "decode" /\ pieces = << >>
      /\ UNCHANGED <<text, pieces, piece, pos, word, all, out, shown>>
      /\ ids' = [i \in DOMAIN all |-> IdForToken(all[i])]
  BY DEF Encoded, scan
<1>2. out = << >> /\ shown = 0 /\ word = << >> /\ pos = Len(piece) /\ all \in Seq(Range(Vocabulary))
  BY <1>1 DEF SpellInv
<1>3. Unread' = Unread  BY <1>1 DEF Unread
<1>4. Spelt'  BY <1>1, <1>3 DEF SpellInv, Spelt
<1>5. text \in Seq(CodePoints)  BY TextIs DEF TypeInv
<1>6. PICK T \in Nat, z \in Nat : T = Len(text) /\ z = 0 /\ z \in 0 .. T  BY <1>5, LenProperties
<1>7. TextPlaces(text, T)  BY <1>5, <1>6, TextPlaced
<1>8. EndOf(all, z) = 0
  <2>1. PICK K \in Nat : K = Len(all)  BY <1>2, LenProperties
  <2>2. Spells(all, << >>, Unread)  BY <1>1, <1>2 DEF SpellInv, Spelt, Spells
  <2>3. piece \in Seq(CodePoints) /\ ScanInv  BY DEF SpellInv, TypeInv
  <2>4. Spelling(all, T)  BY <1>1, <1>2, <1>6, <2>2, <2>3, SpellingWhole
  <2> QED  BY <1>6, <2>1, <2>4, EndsMeet
<1>9. LastBy(z, T, EndOf(all, z))
  <2>1. Start(text, z) = 0  BY <1>6, <1>7 DEF TextPlaces
  <2>2. ASSUME z < T PROVE 0 < Start(text, z + 1)
    <3>1. PICK i \in 0 .. T : i = z + 1 /\ z < i  BY <1>6, <2>2
    <3>2. Start(text, z) < Start(text, i)  BY <1>6, <1>7, <3>1 DEF TextPlaces
    <3> QED  BY <2>1, <3>1, <3>2
  <2> QED  BY <1>8, <2>1, <2>2 DEF LastBy
<1>10. FlattenSeq(SubSeq(KeptParts(all), 1, z)) = << >>
  <2>1. SubSeq(KeptParts(all), 1, z) = << >>  BY <1>6, SubSeqEmpty
  <2>2. FlattenSeq(<< >>) = << >>  BY EmptySeq DEF FlattenSeq
  <2> QED  BY <2>1, <2>2
<1>11. DecodedTo(z)'
  <2>1. shown' = z /\ out' = << >> /\ all' = all /\ text' = text  BY <1>1, <1>2, <1>6
  <2>2. LastBy(z, Len(text), EndOf(all, z))  BY <1>6, <1>9
  <2> QED  BY <1>10, <2>1, <2>2 DEF DecodedTo, LastBy, KeptParts, Offset
<1>12. \E m \in 0 .. Len(text') : DecodedTo(m)'
  <2>1. z \in 0 .. Len(text')  BY <1>1, <1>6
  <2> QED  BY <1>11, <2>1
<1> QED  BY <1>1, <1>2, <1>4, <1>12 DEF SpellInv

\* Each token gives the kept characters that end in it.
LEMMA DecodeSpelt ==
    ASSUME SpellInv, TypeInv, DecodeToken
    PROVE  SpellInv'
<1> USE DEF match, answer
<1>1. pc = "decode" /\ pc' = "decode" /\ shown < Len(ids) /\ shown' = shown + 1
      /\ UNCHANGED <<text, pieces, piece, pos, word, all, ids>>
      /\ out' = out \o Utf8ToWide(TokenBytes(TokenForId(ids[shown + 1])))
  BY DEF DecodeToken, scan
<1>2. pieces = << >> /\ word = << >> /\ pos = Len(piece) /\ all \in Seq(Range(Vocabulary))
      /\ ids = [i \in DOMAIN all |-> IdForToken(all[i])]
  BY <1>1 DEF SpellInv
<1>3. text \in Seq(CodePoints)  BY TextIs DEF TypeInv
<1>4. PICK T \in Nat, K \in Nat : T = Len(text) /\ K = Len(all)  BY <1>2, <1>3, LenProperties
<1>5. Spelling(all, T)
  <2>1. Spells(all, << >>, Unread)  BY <1>1, <1>2 DEF SpellInv, Spelt, Spells
  <2>2. piece \in Seq(CodePoints) /\ ScanInv  BY DEF SpellInv, TypeInv
  <2> QED  BY <1>2, <1>4, <2>1, <2>2, SpellingWhole
<1>6. Len(ids) = K /\ DOMAIN all = 1 .. K
  <2>1. DOMAIN all = 1 .. K  BY <1>2, <1>4, LenProperties
  <2>2. ids \in Seq(0 .. Len(Vocabulary) - 1)  BY DEF TypeInv
  <2>3. DOMAIN ids = 1 .. Len(ids) /\ Len(ids) \in Nat  BY <2>2, LenProperties
  <2>4. DOMAIN ids = 1 .. K  BY <1>2, <2>1
  <2>5. PICK L \in Nat : L = Len(ids) /\ DOMAIN ids = 1 .. L  BY <2>3
  <2>6. 1 .. L = 1 .. K  BY <2>4, <2>5
  <2>7. L = K  BY <2>6
  <2> QED  BY <2>1, <2>5, <2>7
<1>7. PICK k \in 1 .. K : k = shown + 1 /\ k - 1 = shown
  <2>1. shown \in 0 .. Len(ids)  BY DEF TypeInv
  <2> QED  BY <1>1, <1>6, <2>1
<1>8. TokenForId(ids[k]) = all[k]
  <2>1. ids[k] = IdForToken(all[k])  BY <1>2, <1>6
  <2>2. all[k] \in Range(Vocabulary)  BY <1>2, <1>4, ElementOfSeq
  <2> QED  BY <2>1, <2>2, IdRead
<1>9. PICK l \in 0 .. T : DecodedTo(l)  BY <1>1, <1>4 DEF SpellInv
<1>10. LastBy(l, T, EndOf(all, k - 1))  BY <1>4, <1>7, <1>9 DEF DecodedTo
<1> DEFINE parts == KeptParts(all)
<1>11. PICK m \in l .. T : /\ LastBy(m, T, EndOf(all, k))
                           /\ Utf8ToWide(TokenBytes(all[k])) = FlattenSeq(SubSeq(parts, l + 1, m))
  BY <1>4, <1>5, <1>10, TokenDecoded
<1>12. parts \in Seq(Seq(CodePoints)) /\ Len(parts) = T  BY <1>3, <1>4, PartsAre
<1>13. out' = FlattenSeq(SubSeq(parts, 1, m))
  <2>1. out = FlattenSeq(SubSeq(parts, 1, l))  BY <1>9 DEF DecodedTo
  <2>2. PICK z \in Nat : z = 0 /\ z + 1 = 1 /\ z <= l /\ l <= m /\ m <= Len(parts) /\ l \in Nat /\ m \in Nat
                         /\ l <= Len(parts)
    BY <1>12
  <2> HIDE DEF parts
  <2> DEFINE a == SubSeq(parts, 1, l)
             b == SubSeq(parts, l + 1, m)
  <2>3. Adjoin(parts, z, l, m)  BY <1>12, <2>2, Adjoins
  <2>4. a \o b = SubSeq(parts, 1, m)  BY <2>2, <2>3 DEF Adjoin
  <2>5. a \in Seq(Seq(CodePoints)) /\ b \in Seq(Seq(CodePoints))
    <3>1. SubSeq(parts, z + 1, l) \in Seq(Seq(CodePoints))  BY <1>12, <2>2, SliceIs
    <3>2. SubSeq(parts, l + 1, m) \in Seq(Seq(CodePoints))  BY <1>12, <2>2, SliceIs
    <3> QED  BY <2>2, <3>1, <3>2
  <2> HIDE DEF a, b
  <2>6. FlattenSeq(a \o b) = FlattenSeq(a) \o FlattenSeq(b)  BY <2>5, FlattenConcat
  <2>7. out' = out \o Utf8ToWide(TokenBytes(all[k]))  BY <1>1, <1>7, <1>8
  <2>8. out = FlattenSeq(a) /\ Utf8ToWide(TokenBytes(all[k])) = FlattenSeq(b)
    BY <1>11, <2>1 DEF a, b
  <2> QED  BY <2>4, <2>6, <2>7, <2>8
<1> HIDE DEF parts
<1>14. DecodedTo(m)'
  <2>1. shown' = k /\ all' = all /\ text' = text  BY <1>1, <1>7
  <2>2. LastBy(m, Len(text), EndOf(all, k))  BY <1>4, <1>11
  <2> QED  BY <1>13, <2>1, <2>2 DEF DecodedTo, LastBy, KeptParts, Offset, parts
<1>15. \E i \in 0 .. Len(text') : DecodedTo(i)'
  <2>1. m \in 0 .. Len(text')  BY <1>1, <1>4
  <2> QED  BY <1>14, <2>1
<1>16. Spelt'
  <2>1. Unread' = Unread  BY <1>1 DEF Unread
  <2> QED  BY <1>1, <2>1 DEF SpellInv, Spelt
<1> QED  BY <1>1, <1>15, <1>16 DEF SpellInv

\* Every step keeps the tokens, the word and the rest spelling the text.
LEMMA SpellKept == SpellInv /\ TypeInv /\ WordReached /\ [Next]_vars => SpellInv'
<1> SUFFICES ASSUME SpellInv, TypeInv, WordReached, [Next]_vars PROVE SpellInv'
  OBVIOUS
<1>1. CASE Scan
  <2>1. pc = "scan" /\ pc' = "scan"
        /\ UNCHANGED <<text, pieces, piece, pos, word, all, ids, out, shown>>
    BY <1>1 DEF Scan, ScanChar, match, answer
  <2>2. Spelt'  BY <2>1 DEF Spelt
  <2> QED  BY <2>1, <2>2 DEF SpellInv
<1>2. CASE UNCHANGED vars
  <2>1. UNCHANGED <<text, pc, pieces, piece, pos, word, all, ids, out, shown>>
    BY <1>2 DEF vars, scan
  <2>2. Spelt'
    <3>1. Unread' = Unread  BY <2>1 DEF Unread
    <3> QED  BY <2>1, <3>1 DEF SpellInv, Spelt
  <2>3. pc = "decode" => \E m \in 0 .. Len(text) : DecodedTo(m)'
    BY <2>1 DEF SpellInv, DecodedTo, LastBy, KeptParts, Offset
  <2> QED  BY <2>1, <2>2, <2>3 DEF SpellInv
<1>3. CASE Terminating  BY <1>2, <1>3 DEF Terminating
<1> QED
  BY <1>1, <1>2, <1>3, CutSpelt, TakeSpelt, MatchSpelt, MergeSpelt, EndSpelt, EncodedSpelt, DecodeSpelt
  DEF Next

(***************************************************************************)
(* For every text of Unicode, every pattern and every such table: decoding *)
(* the ids one by one gives the text back, but for the characters whose    *)
(* bytes the merges have divided between two tokens.                       *)
(***************************************************************************)
THEOREM DecodeAlwaysKeepsText == Spec => []DecodeKeepsText
<1>1. SpellInv /\ TypeInv => DecodeKeepsText
  <2> SUFFICES ASSUME SpellInv, TypeInv, pc = "decode", shown = Len(ids) PROVE out = Unsplit(all)
    BY DEF DecodeKeepsText
  <2>1. pieces = << >> /\ word = << >> /\ pos = Len(piece) /\ all \in Seq(Range(Vocabulary))
        /\ ids = [i \in DOMAIN all |-> IdForToken(all[i])]
    BY DEF SpellInv
  <2>2. text \in Seq(CodePoints)  BY TextIs DEF TypeInv
  <2>3. PICK T \in Nat, K \in Nat : T = Len(text) /\ K = Len(all)  BY <2>1, <2>2, LenProperties
  <2>4. Spelling(all, T)
    <3>1. Spells(all, << >>, Unread)  BY <2>1 DEF SpellInv, Spelt, Spells
    <3>2. piece \in Seq(CodePoints) /\ ScanInv  BY DEF SpellInv, TypeInv
    <3> QED  BY <2>1, <2>3, <3>1, <3>2, SpellingWhole
  <2>5. shown = K
    <3>1. DOMAIN all = 1 .. K  BY <2>1, <2>3, LenProperties
    <3>2. ids \in Seq(0 .. Len(Vocabulary) - 1)  BY DEF TypeInv
    <3>3. DOMAIN ids = 1 .. Len(ids) /\ Len(ids) \in Nat  BY <3>2, LenProperties
    <3>4. DOMAIN ids = 1 .. K  BY <2>1, <3>1
    <3>5. PICK L \in Nat : L = Len(ids) /\ DOMAIN ids = 1 .. L  BY <3>3
    <3>6. 1 .. L = 1 .. K  BY <3>4, <3>5
    <3>7. L = K  BY <3>6
    <3> QED  BY <3>5, <3>7
  <2>6. PICK m \in 0 .. T : DecodedTo(m)  BY <2>3 DEF SpellInv
  <2>7. TextPlaces(text, T) /\ EndOf(all, K) = Start(text, T)  BY <2>3, <2>4, EndsMeet
  <2>8. m = T
    <3>1. LastBy(m, T, Start(text, T))  BY <2>3, <2>5, <2>6, <2>7 DEF DecodedTo
    <3>2. ASSUME m < T PROVE FALSE
      <4>1. PICK i \in 0 .. T : i = m + 1 /\ (i = T \/ i < T)  BY <3>2
      <4>2. T \in 0 .. T  OBVIOUS
      <4>3. Start(text, i) <= Start(text, T) /\ Start(text, i) \in Nat /\ Start(text, T) \in Nat
        BY <2>7, <4>1, <4>2 DEF TextPlaces
      <4>4. Start(text, T) < Start(text, i)  BY <3>1, <3>2, <4>1 DEF LastBy
      <4> QED  BY <4>3, <4>4
    <3> QED  BY <3>2
  <2> DEFINE parts == KeptParts(all)
  <2>9. parts \in Seq(Seq(CodePoints)) /\ Len(parts) = T  BY <2>2, <2>3, PartsAre
  <2>10. out = FlattenSeq(SubSeq(parts, 1, T))  BY <2>6, <2>8 DEF DecodedTo
  <2>11. Unsplit(all) = FlattenSeq(parts)  BY DEF Unsplit, KeptParts
  <2> HIDE DEF parts
  <2>12. SubSeq(parts, 1, T) = parts  BY <2>9, SubSeqFull
  <2> QED  BY <2>10, <2>11, <2>12
<1>2. Init => WordReached  BY DEF Init, WordReached
<1> QED  BY <1>1, <1>2, SpellStarts, SpellKept, ReachedKept, TypesStart, TypesKept, PTL DEF Spec
================================================================================
