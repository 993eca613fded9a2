--------------------------- MODULE SpecDecodeProofs ---------------------------
(***************************************************************************)
(* For every target model, prompt, proposal and geometry: the cache and    *)
(* the hidden history are those of the conversation, the counters account  *)
(* for the output, and the decode is a stream of the target's tokens.      *)
(* With a cache-aware draft graph it lives the life DraftCache describes,  *)
(* so what is proved there of the draft window (alignment, what a run      *)
(* attends to, one fill only) holds inside the decode loop.                *)
(***************************************************************************)
EXTENDS SpecDecode, SequenceTheorems, TLAPS

(***************************************************************************)
(* Sequences of tokens.                                                    *)
(***************************************************************************)
LEMMA Cut ==
    ASSUME NEW s \in Seq(Int), NEW n \in 0 .. Len(s)
    PROVE  /\ SubSeq(s, 1, n) \in Seq(Int) /\ Len(SubSeq(s, 1, n)) = n
           /\ \A j \in 1 .. n : SubSeq(s, 1, n)[j] = s[j]
<1>1. \A j \in 1 .. n : s[j] \in Int  BY ElementOfSeq
<1>2. n \in Int /\ 1 \in Int /\ n >= 0  BY LenProperties
<1>3. /\ SubSeq(s, 1, n) \in Seq(Int)
      /\ Len(SubSeq(s, 1, n)) = IF 1 <= n THEN n - 1 + 1 ELSE 0
      /\ \A j \in 1 .. n - 1 + 1 : SubSeq(s, 1, n)[j] = s[1 + j - 1]
  BY <1>1, <1>2, SubSeqProperties
<1>4. Len(SubSeq(s, 1, n)) = n  BY <1>2, <1>3
<1>5. \A j \in 1 .. n : j \in 1 .. n - 1 + 1 /\ 1 + j - 1 = j  BY <1>2
<1>6. \A j \in 1 .. n : SubSeq(s, 1, n)[j] = s[j]  BY <1>3, <1>5
<1> QED  BY <1>3, <1>4, <1>6

LEMMA Regroup ==
    ASSUME NEW s \in Seq(Int), NEW t \in Seq(Int), NEW u \in Seq(Int)
    PROVE  (s \o t) \o u = s \o (t \o u)
BY ConcatAssociative, SMTT(30)

LEMMA CutOfLonger ==
    ASSUME NEW s \in Seq(Int), NEW t \in Seq(Int), NEW n \in 0 .. Len(s)
    PROVE  SubSeq(s \o t, 1, n) = SubSeq(s, 1, n)
<1>1. s \o t \in Seq(Int) /\ Len(s \o t) = Len(s) + Len(t)  BY ConcatProperties
<1>2. \A j \in 1 .. n : (s \o t)[j] = s[j]  BY ConcatProperties
<1>3. n \in 0 .. Len(s \o t)  BY <1>1
<1> QED  BY <1>1, <1>2, <1>3, Cut, SeqEqual

\* The context of a new position: everything before, and the block up to it.
LEMMA CutOfExtended ==
    ASSUME NEW s \in Seq(Int), NEW t \in Seq(Int), NEW n \in 0 .. Len(t),
           NEW m \in 0 .. n
    PROVE  /\ SubSeq(s \o SubSeq(t, 1, n), 1, Len(s) + m) = s \o SubSeq(t, 1, m)
           /\ s \o SubSeq(t, 1, n) \in Seq(Int)
           /\ Len(s \o SubSeq(t, 1, n)) = Len(s) + n
<1> DEFINE u == SubSeq(t, 1, n)
<1> DEFINE v == SubSeq(t, 1, m)
<1>1. u \in Seq(Int) /\ Len(u) = n /\ \A j \in 1 .. n : u[j] = t[j]  BY Cut
<1>2. m \in 0 .. Len(t) /\ Len(t) \in Nat /\ Len(s) \in Nat  BY LenProperties
<1>3. v \in Seq(Int) /\ Len(v) = m /\ \A j \in 1 .. m : v[j] = t[j]  BY Cut, <1>2
<1> HIDE DEF u, v
<1>4. s \o u \in Seq(Int) /\ Len(s \o u) = Len(s) + n  BY <1>1, ConcatProperties
<1>5. s \o v \in Seq(Int) /\ Len(s \o v) = Len(s) + m  BY <1>3, ConcatProperties
<1>6. \A j \in 1 .. Len(s) + m : (s \o u)[j] = (s \o v)[j]
  <2> TAKE j \in 1 .. Len(s) + m
  <2>0. /\ u \in Seq(Int) /\ v \in Seq(Int)
        /\ j \in 1 .. Len(s) + Len(u) /\ j \in 1 .. Len(s) + Len(v)
    BY <1>1, <1>2, <1>3
  <2>1. (s \o u)[j] = IF j <= Len(s) THEN s[j] ELSE u[j - Len(s)]
    BY <2>0, ConcatProperties
  <2>2. (s \o v)[j] = IF j <= Len(s) THEN s[j] ELSE v[j - Len(s)]
    BY <2>0, ConcatProperties
  <2>3. ASSUME j > Len(s)
        PROVE  u[j - Len(s)] = v[j - Len(s)]
    <3>1. j - Len(s) \in 1 .. m /\ j - Len(s) \in 1 .. n  BY <1>2, <2>3
    <3> QED  BY <1>1, <1>3, <3>1
  <2> QED  BY <1>2, <2>1, <2>2, <2>3
<1>7. Len(s) + m \in 0 .. Len(s \o u)  BY <1>2, <1>4
<1>8. SubSeq(s \o u, 1, Len(s) + m) = s \o v
  <2> DEFINE w == SubSeq(s \o u, 1, Len(s) + m)
  <2>1. w \in Seq(Int) /\ Len(w) = Len(s) + m
        /\ \A j \in 1 .. Len(s) + m : w[j] = (s \o u)[j]
    BY <1>4, <1>7, Cut
  <2> HIDE DEF w
  <2>2. w = s \o v  BY <1>5, <1>6, <2>1, SeqEqual
  <2> QED  BY <2>2 DEF w
<1> QED  BY <1>4, <1>8 DEF u, v

\* What one print and then another leave behind.
LEMMA Appended ==
    ASSUME NEW x, NEW y
    PROVE  Append(<< >>, x) = <<x>> /\ Append(<<x>>, y) = <<x, y>>
<1> DEFINE S == {x, y}
<1>1. <<x>> \in Seq(S) /\ <<x, y>> \in Seq(S) /\ y \in S  OBVIOUS
<1>2. /\ Len(<<x>>) = 1 /\ Len(<<x, y>>) = 2
      /\ <<x>>[1] = x /\ <<x, y>>[1] = x /\ <<x, y>>[2] = y
  OBVIOUS
<1>3. /\ Append(<<x>>, y) \in Seq(S) /\ Len(Append(<<x>>, y)) = 2
      /\ Append(<<x>>, y)[1] = x /\ Append(<<x>>, y)[2] = y
  BY <1>1, <1>2, AppendProperties
<1>4. \A i \in 1 .. Len(<<x, y>>) : Append(<<x>>, y)[i] = <<x, y>>[i]  BY <1>2, <1>3
<1>5. Append(<<x>>, y) = <<x, y>>  BY <1>1, <1>2, <1>3, <1>4, SeqEqual
<1>6. Append(<< >>, x) = <<x>>  OBVIOUS
<1> QED  BY <1>5, <1>6

\* Padding a block does not change its tokens.
LEMMA PaddedBlock ==
    ASSUME NEW t \in Seq(Int), NEW len \in Nat, Len(t) <= len
    PROVE  /\ Padded(t, len) \in Seq(Int) /\ Len(Padded(t, len)) = len
           /\ \A n \in 0 .. Len(t) : SubSeq(Padded(t, len), 1, n) = SubSeq(t, 1, n)
<1> DEFINE p == Padded(t, len)
<1>0. Len(t) \in Nat  BY LenProperties
<1>1. p \in [1 .. len -> Int]  BY ElementOfSeq, DecodeAssumption DEF Padded
<1>2. p \in Seq(Int) /\ Len(p) = len  BY <1>1
<1>3. \A j \in 1 .. Len(t) : p[j] = t[j]  BY <1>0 DEF Padded
<1>4. ASSUME NEW n \in 0 .. Len(t)
      PROVE  SubSeq(p, 1, n) = SubSeq(t, 1, n)
  <2>1. n \in 0 .. Len(p)  BY <1>0, <1>2
  <2>2. SubSeq(p, 1, n) \in Seq(Int) /\ Len(SubSeq(p, 1, n)) = n
        /\ \A j \in 1 .. n : SubSeq(p, 1, n)[j] = p[j]
    BY <1>2, <2>1, Cut
  <2>3. SubSeq(t, 1, n) \in Seq(Int) /\ Len(SubSeq(t, 1, n)) = n
        /\ \A j \in 1 .. n : SubSeq(t, 1, n)[j] = t[j]
    BY Cut
  <2>4. \A j \in 1 .. n : SubSeq(p, 1, n)[j] = SubSeq(t, 1, n)[j]
    BY <1>0, <1>3, <2>2, <2>3
  <2> QED  BY <2>2, <2>3, <2>4, SeqEqual
<1> QED  BY <1>2, <1>4

LEMMA ArgMaxInIds ==
    ASSUME NEW row
    PROVE  ArgMax(row) \in Ids /\ ArgMax(row) \in Int
BY VocabAssumption DEF ArgMax, FirstGreatest, Ids

LEMMA Least ==
    ASSUME NEW a \in Int, NEW b \in Int
    PROVE  /\ AtMost(a, b) \in {a, b} /\ AtMost(a, b) <= a /\ AtMost(a, b) <= b
           /\ AtLeast(a, b) \in {a, b} /\ AtLeast(a, b) >= a /\ AtLeast(a, b) >= b
BY DEF AtMost, AtLeast
-----------------------------------------------------------------------------
(***************************************************************************)
(* The inductive invariant: while the prompt is being read nothing has     *)
(* been generated; the block to verify starts with the current token and   *)
(* there is room for it; nothing is printed before the output is complete. *)
(***************************************************************************)
DecInv ==
    /\ TypeOK
    /\ history \in Seq(Seq(Int))
    /\ offset < Len(prompt) => pc \in {"prefill", "failed"}
    /\ pc = "prefill" => generated = << >> /\ round = 0 /\ acceptedDraft = 0
    /\ pc \in {"fill", "draft"} => MoreWanted
    /\ pc = "verify" => MoreWanted /\ drafted # << >> /\ drafted[1] = current
    /\ pc \in {"fill", "draft", "verify"} => round > 0
    /\ pc \notin {"text", "done", "failed"} => printed = << >>
    /\ pc = "text" => ~MoreWanted /\ printed \in {<< >>, <<AsIds>>}
    /\ CacheIsConversation
    /\ HistoryIsConversation
    /\ CountersAccount

LEMMA Lengths ==
    ASSUME DecInv
    PROVE  /\ prompt \in Seq(Int) /\ Len(prompt) \in Nat \ {0}
           /\ prompt \in Prompts
           /\ generated \in Seq(Int) /\ Len(generated) \in Nat
           /\ Committed \in Seq(Int) /\ Len(Committed) = offset + Len(generated)
           /\ pos = offset + Len(generated) /\ offset \in 0 .. Len(prompt)
           /\ Len(prompt) + MaxNew <= ContextLen - VerifySeq
           /\ Len(prompt) <= ContextLen - PrefillSeq
<1>1. prompt \in Prompts /\ generated \in Seq(Int) /\ offset \in 0 .. Len(prompt)
  BY DEF DecInv, TypeOK
<1>2. prompt \in Seq(Int) /\ prompt # << >>  BY <1>1, DecodeAssumption
<1>3. Len(prompt) \in Nat \ {0}  BY <1>2, EmptySeq
<1>4. Len(generated) \in Nat  BY <1>1, LenProperties
<1>5. SubSeq(prompt, 1, offset) \in Seq(Int) /\ Len(SubSeq(prompt, 1, offset)) = offset
  BY <1>1, <1>2, Cut
<1>6. Committed \in Seq(Int) /\ Len(Committed) = offset + Len(generated)
  BY <1>1, <1>5, ConcatProperties DEF Committed
<1>7. pos = Len(Committed)  BY DEF DecInv, CacheIsConversation
<1> QED  BY <1>1, <1>2, <1>3, <1>4, <1>6, <1>7, CapacityAssumption

(***************************************************************************)
(* With a coherent cache every new position is computed from the whole     *)
(* conversation and the block up to itself.                                *)
(***************************************************************************)
LEMMA PassContext ==
    ASSUME DecInv
    PROVE  \A block, i : Seen(block, i) = Committed \o SubSeq(block, 1, i + 1)
<1>1. Committed \in Seq(Int) /\ Len(Committed) = pos /\ pos \in Nat
  BY Lengths DEF DecInv, TypeOK
<1>2. \A c \in 0 .. pos - 1 : kv[c] = SubSeq(Committed, 1, c + 1)
  BY DEF DecInv, CacheIsConversation
<1>3. Past = Committed
  <2>1. CASE pos = 0  BY <1>1, <2>1, EmptySeq DEF Past
  <2>2. CASE pos # 0
    <3>1. kv[pos - 1] = SubSeq(Committed, 1, Len(Committed))  BY <1>1, <1>2, <2>2
    <3>2. SubSeq(Committed, 1, Len(Committed)) = Committed  BY <1>1, SubSeqFull
    <3> QED  BY <2>2, <3>1, <3>2 DEF Past
  <2> QED  BY <2>1, <2>2
<1>4. PastCoherent  BY <1>2, <1>3 DEF PastCoherent
<1> QED  BY <1>3, <1>4 DEF Seen

(***************************************************************************)
(* Committing the first n tokens of a pass to cache and history extends    *)
(* both with the conversation.                                             *)
(***************************************************************************)
LEMMA CommitStep ==
    ASSUME DecInv,
           NEW block \in Seq(Int), NEW n \in 0 .. Len(block),
           pos + n <= ContextLen - VerifySeq,
           kv' = Updated(block, n), history' = WithHidden(block, n), pos' = pos + n,
           Committed' = Committed \o SubSeq(block, 1, n)
    PROVE  /\ CacheIsConversation' /\ HistoryIsConversation'
           /\ history' \in Seq(Seq(Int)) /\ DOMAIN kv' = Columns
<1> DEFINE C == Committed
<1> DEFINE D == Committed'
<1>1. C \in Seq(Int) /\ Len(C) = pos /\ pos \in Nat  BY Lengths DEF DecInv, TypeOK
<1>2. Len(block) \in Nat /\ n \in Nat  BY LenProperties
<1>3. D \in Seq(Int) /\ Len(D) = pos + n
  <2>1. 0 \in 0 .. n  BY <1>2
  <2> QED  BY <1>1, <2>1, CutOfExtended
<1>4. ASSUME NEW i \in 0 .. n - 1
      PROVE  Seen(block, i) = SubSeq(D, 1, pos + i + 1)
  <2>1. i + 1 \in 0 .. n  BY <1>2
  <2>2. SubSeq(C \o SubSeq(block, 1, n), 1, Len(C) + (i + 1)) = C \o SubSeq(block, 1, i + 1)
    BY <1>1, <2>1, CutOfExtended
  <2>3. Len(C) + (i + 1) = pos + i + 1  BY <1>1
  <2> QED  BY <2>2, <2>3, PassContext
<1>5. ASSUME NEW m \in 0 .. pos
      PROVE  SubSeq(D, 1, m) = SubSeq(C, 1, m)
  <2>1. SubSeq(block, 1, n) \in Seq(Int)  BY Cut
  <2> QED  BY <1>1, <2>1, CutOfLonger
<1>6. CacheIsConversation'
  <2>1. ASSUME NEW c \in 0 .. pos + n - 1
        PROVE  kv'[c] = SubSeq(D, 1, c + 1)
    <3>1. c \in Columns  BY <1>1, <1>2, DecodeAssumption DEF Columns
    <3>2. CASE c < pos
      <4>1. kv'[c] = kv[c]  BY <1>1, <1>2, <3>1, <3>2 DEF Updated
      <4>0. c \in 0 .. pos - 1  BY <1>1, <3>2
      <4>2. kv[c] = SubSeq(C, 1, c + 1)  BY <4>0 DEF DecInv, CacheIsConversation
      <4> QED  BY <1>1, <1>2, <1>5, <3>2, <4>1, <4>2
    <3>3. CASE c >= pos
      <4>1. kv'[c] = Seen(block, c - pos)  BY <1>1, <1>2, <3>1, <3>3 DEF Updated
      <4>2. c - pos \in 0 .. n - 1 /\ pos + (c - pos) + 1 = c + 1  BY <1>1, <1>2, <3>3
      <4> QED  BY <1>4, <4>1, <4>2
    <3>4. c < pos \/ c >= pos  BY <1>1, <1>2
    <3> QED  BY <3>2, <3>3, <3>4
  <2> QED  BY <1>1, <1>2, <1>3, <2>1 DEF CacheIsConversation
<1>7. HistoryIsConversation' /\ history' \in Seq(Seq(Int))
  <2> DEFINE new == [i \in 1 .. n |-> Seen(block, i - 1)]
  <2>1. history \in Seq(Seq(Int)) /\ Len(history) = pos
        /\ \A i \in 1 .. pos : history[i] = SubSeq(C, 1, i)
    BY <1>1 DEF DecInv, HistoryIsConversation
  <2>2. \A i \in 1 .. n : new[i] = SubSeq(D, 1, pos + i)
    <3> TAKE i \in 1 .. n
    <3>1. i - 1 \in 0 .. n - 1 /\ pos + (i - 1) + 1 = pos + i  BY <1>1, <1>2
    <3> QED  BY <1>4, <3>1
  <2>3. \A i \in 1 .. n : SubSeq(D, 1, pos + i) \in Seq(Int)
    <3> TAKE i \in 1 .. n
    <3>1. pos + i \in 0 .. Len(D)  BY <1>1, <1>2, <1>3
    <3> QED  BY <1>3, <3>1, Cut
  <2>4. new \in [1 .. n -> Seq(Int)]  BY <2>2, <2>3
  <2>5. new \in Seq(Seq(Int)) /\ Len(new) = n  BY <1>2, <2>4
  <2> HIDE DEF new
  <2>6. history' = history \o new  BY DEF WithHidden, new
  <2>7. history' \in Seq(Seq(Int)) /\ Len(history') = pos + n
        /\ \A i \in 1 .. pos + n : history'[i] = IF i <= pos THEN history[i] ELSE new[i - pos]
    <3>1. /\ history \o new \in Seq(Seq(Int))
          /\ Len(history \o new) = Len(history) + Len(new)
          /\ \A i \in 1 .. Len(history) + Len(new) : (history \o new)[i] =
                IF i <= Len(history) THEN history[i] ELSE new[i - Len(history)]
      BY <2>1, <2>5, ConcatProperties
    <3> QED  BY <2>1, <2>5, <2>6, <3>1
  <2>8. ASSUME NEW i \in 1 .. pos + n
        PROVE  history'[i] = SubSeq(D, 1, i)
    <3>1. CASE i <= pos
      <4>1. i \in 0 .. pos /\ i \in 1 .. pos  BY <1>1, <1>2, <3>1
      <4>2. history'[i] = history[i]  BY <2>7, <3>1
      <4> QED  BY <1>5, <2>1, <4>1, <4>2
    <3>2. CASE i > pos
      <4>1. i - pos \in 1 .. n /\ pos + (i - pos) = i  BY <1>1, <1>2, <3>2
      <4>2. history'[i] = new[i - pos]  BY <1>1, <1>2, <2>7, <3>2
      <4> QED  BY <2>2, <4>1, <4>2
    <3> QED  BY <1>1, <1>2, <3>1, <3>2
  <2> QED  BY <1>3, <2>7, <2>8 DEF HistoryIsConversation
<1>8. DOMAIN kv' = Columns  BY DEF Updated
<1> QED  BY <1>6, <1>7, <1>8

LEMMA DecInit == Init => DecInv
<1> SUFFICES ASSUME Init PROVE DecInv
  OBVIOUS
<1> USE DEF Init
<1>1. prompt \in Prompts /\ prompt \in Seq(Int) /\ prompt # << >>  BY DecodeAssumption
<1>2. Len(prompt) \in Nat \ {0}  BY <1>1, EmptySeq
<1>3. current \in Int  BY <1>1, <1>2, ElementOfSeq
<1>4. << >> \in Seq(Int) /\ << >> \in Seq(Seq(Int)) /\ Len(<< >>) = 0  OBVIOUS
<1>5. Committed = << >>
  <2>1. SubSeq(prompt, 1, 0) = << >>  BY SubSeqEmpty
  <2> QED  BY <1>4, <2>1, ConcatEmptySeq DEF Committed
<1>6. pos \in 0 .. ContextLen - VerifySeq
  <2>1. Len(prompt) + MaxNew <= ContextLen - VerifySeq  BY <1>1, CapacityAssumption
  <2> QED  BY <1>2, <2>1, DecodeAssumption
<1>7. TypeOK
  BY <1>1, <1>2, <1>3, <1>4, <1>6, DecodeAssumption, WindowAssumption DEF TypeOK
<1>8. CacheIsConversation /\ HistoryIsConversation
  BY <1>4, <1>5 DEF CacheIsConversation, HistoryIsConversation
<1>9. CountersAccount  BY <1>4 DEF CountersAccount, Completed
<1> QED  BY <1>2, <1>4, <1>7, <1>8, <1>9 DEF DecInv

\* A row of logits is the target's for the context its position has seen.
LEMMA RowOfPass ==
    ASSUME DecInv, NEW block, NEW rows \in Nat, NEW i \in 0 .. rows - 1
    PROVE  /\ i \in DOMAIN Logits(block, rows)
           /\ Logits(block, rows)[i] = Logit(model, Committed \o SubSeq(block, 1, i + 1))
           /\ ArgMaxAt(Logits(block, rows), i) =
                  ArgMax(Logit(model, Committed \o SubSeq(block, 1, i + 1)))
<1>1. i \in DOMAIN Logits(block, rows)  BY DEF Logits
<1>2. Logits(block, rows)[i] = Logit(model, Seen(block, i))  BY DEF Logits
<1>3. Logits(block, rows)[i] = Logit(model, Committed \o SubSeq(block, 1, i + 1))
  BY <1>2, PassContext
<1> QED  BY <1>1, <1>3 DEF ArgMaxAt

LEMMA PrefillStep ==
    ASSUME DecInv, PrefillChunk
    PROVE  /\ DecInv'
           /\ current' = ArgMax(Logit(model, Committed'))
<1> DEFINE chunk == AtMost(PrefillSeq, Len(prompt) - offset)
<1> DEFINE read == SubSeq(prompt, offset + 1, offset + chunk)
<1> DEFINE block == Padded(read, PrefillSeq)
<1>1. /\ prompt \in Seq(Int) /\ prompt \in Prompts /\ Len(prompt) \in Nat \ {0}
      /\ offset \in 0 .. Len(prompt) /\ offset < Len(prompt)
      /\ Committed \in Seq(Int) /\ Len(Committed) = pos
      /\ Len(prompt) + MaxNew <= ContextLen - VerifySeq
      /\ pos = offset + Len(generated) /\ generated = << >>
      /\ round = 0 /\ acceptedDraft = 0 /\ printed = << >>
  BY Lengths DEF DecInv, PrefillChunk
<1>2. chunk \in 1 .. PrefillSeq /\ offset + chunk \in 1 .. Len(prompt)
  BY <1>1, DecodeAssumption DEF AtMost
<1>3. /\ kv' = Updated(block, chunk) /\ history' = WithHidden(block, chunk)
      /\ current' = ArgMaxAt(Logits(block, PrefillSeq), chunk - 1)
      /\ pos' = pos + chunk /\ offset' = offset + chunk
      /\ UNCHANGED <<model, prompt, pc, generated, drafted, dc, next, round,
                     acceptedDraft, draftTotal, printed>>
      /\ pc = "prefill"
  BY DEF PrefillChunk, input, window, tally
<1> HIDE DEF chunk
<1>4. read \in Seq(Int) /\ Len(read) = chunk
  <2>1. \A i \in offset + 1 .. offset + chunk : prompt[i] \in Int
    BY <1>1, <1>2, ElementOfSeq
  <2>2. ASSUME NEW m \in Int, NEW n \in Int, \A i \in m .. n : prompt[i] \in Int
        PROVE  /\ SubSeq(prompt, m, n) \in Seq(Int)
               /\ Len(SubSeq(prompt, m, n)) = IF m <= n THEN n - m + 1 ELSE 0
    BY <2>2, SubSeqProperties
  <2>3. offset + 1 \in Int /\ offset + chunk \in Int /\ chunk \in Int
        /\ offset + 1 <= offset + chunk
    BY <1>1, <1>2
  <2> QED  BY <1>1, <2>1, <2>2, <2>3
<1>5. /\ block \in Seq(Int) /\ Len(block) = PrefillSeq
      /\ SubSeq(block, 1, chunk) = read
  <2> HIDE DEF read
  <2>1. chunk \in 0 .. Len(read) /\ Len(read) <= PrefillSeq /\ PrefillSeq \in Nat
    BY <1>2, <1>4, DecodeAssumption
  <2>2. SubSeq(read, 1, Len(read)) = read  BY <1>4, SubSeqFull
  <2> QED  BY <1>4, <2>1, <2>2, PaddedBlock
<1> HIDE DEF block
<1>6. Committed' = Committed \o SubSeq(block, 1, chunk)
  <2>1. offset \in 0 .. Len(prompt) /\ offset + chunk \in 0 .. Len(prompt)
    BY <1>1, <1>2
  <2>2. /\ SubSeq(prompt, 1, offset) \in Seq(Int)
        /\ SubSeq(prompt, 1, offset + chunk) \in Seq(Int)
    BY <1>1, <2>1, Cut
  <2>3. Committed = SubSeq(prompt, 1, offset)
    BY <1>1, <2>2, ConcatEmptySeq DEF Committed
  <2>4. Committed' = SubSeq(prompt, 1, offset + chunk)
    BY <1>1, <1>3, <2>2, ConcatEmptySeq DEF Committed
  <2>5. SubSeq(prompt, 1, offset) \o SubSeq(prompt, offset + 1, offset + chunk)
            = SubSeq(prompt, 1, offset + chunk)
    <3>1. 1 \in 1 .. Len(prompt) + 1 /\ offset \in 1 - 1 .. Len(prompt)
          /\ offset + chunk \in offset .. Len(prompt)
      BY <1>1, <1>2
    <3> QED  BY <1>1, <3>1, ConcatAdjacentSubSeq
  <2> QED  BY <1>5, <2>3, <2>4, <2>5
<1>7. chunk \in 0 .. Len(block) /\ pos + chunk <= ContextLen - VerifySeq
      /\ pos + chunk \in 0 .. ContextLen - VerifySeq
  <2>1. pos = offset /\ offset + chunk <= Len(prompt)  BY <1>1, <1>2
  <2> QED  BY <1>1, <1>2, <1>5, <2>1, DecodeAssumption
<1>8. /\ CacheIsConversation' /\ HistoryIsConversation'
      /\ history' \in Seq(Seq(Int)) /\ DOMAIN kv' = Columns
  BY <1>3, <1>5, <1>6, <1>7, CommitStep
<1>9. current' = ArgMax(Logit(model, Committed'))
  <2>1. chunk - 1 \in 0 .. PrefillSeq - 1 /\ (chunk - 1) + 1 = chunk /\ PrefillSeq \in Nat
    BY <1>2, DecodeAssumption
  <2>2. ArgMaxAt(Logits(block, PrefillSeq), chunk - 1) =
            ArgMax(Logit(model, Committed \o SubSeq(block, 1, (chunk - 1) + 1)))
    BY <2>1, RowOfPass
  <2> QED  BY <1>3, <1>6, <2>1, <2>2
<1>10. TypeOK'
  <2>1. current' \in Int  BY <1>9, ArgMaxInIds
  <2>2. offset' \in 0 .. Len(prompt)'  BY <1>2, <1>3
  <2>3. TypeOK /\ printed' = << >>  BY <1>1, <1>3 DEF DecInv
  <2> QED  BY <1>3, <1>7, <1>8, <2>1, <2>2, <2>3 DEF TypeOK, Columns
<1>11. CountersAccount'  BY <1>1, <1>3 DEF CountersAccount, Completed, DecInv
<1> QED  BY <1>1, <1>3, <1>8, <1>9, <1>10, <1>11 DEF DecInv

\* A draft block starts with the current token and fits in a block.
LEMMA DraftedBlock ==
    ASSUME DecInv, NEW d \in Drafts
    PROVE  LET b == <<current>> \o d
           IN  /\ b \in Seq(Int) /\ Len(b) = Block /\ b # << >> /\ b[1] = current
               /\ \A j \in 2 .. Len(b) : b[j] \in DraftTokens
<1> DEFINE b == <<current>> \o d
<1>1. d \in [1 .. Block - 1 -> DraftTokens] /\ Block - 1 \in Nat
  BY WindowAssumption DEF Drafts
<1>2. d \in [1 .. Block - 1 -> Int]  BY <1>1, DecodeAssumption
<1>3. d \in Seq(Int) /\ Len(d) = Block - 1  BY <1>1, <1>2
<1>4. <<current>> \in Seq(Int) /\ Len(<<current>>) = 1 /\ <<current>>[1] = current
  BY DEF DecInv, TypeOK
<1>5. /\ b \in Seq(Int) /\ Len(b) = Len(<<current>>) + Len(d)
      /\ \A j \in 1 .. Len(<<current>>) + Len(d) : b[j] =
            IF j <= Len(<<current>>) THEN <<current>>[j] ELSE d[j - Len(<<current>>)]
  BY <1>3, <1>4, ConcatProperties
<1>6. Len(b) = Block  BY <1>1, <1>3, <1>4, <1>5, WindowAssumption
<1>7. b[1] = current
  <2>1. 1 \in 1 .. Len(<<current>>) + Len(d) /\ 1 <= Len(<<current>>)  BY <1>1, <1>3, <1>4
  <2> QED  BY <1>4, <1>5, <2>1
<1>8. ASSUME NEW j \in 2 .. Len(b)
      PROVE  b[j] \in DraftTokens
  <2>1. j \in 1 .. Len(<<current>>) + Len(d) /\ ~(j <= Len(<<current>>))
        /\ j - Len(<<current>>) \in 1 .. Block - 1
    BY <1>1, <1>3, <1>4, <1>6
  <2> QED  BY <1>1, <1>5, <2>1
<1>9. b # << >>  BY <1>5, <1>6, EmptySeq, WindowAssumption
<1> HIDE DEF b
<1>10. /\ b \in Seq(Int) /\ Len(b) = Block /\ b # << >> /\ b[1] = current
       /\ \A j \in 2 .. Len(b) : b[j] \in DraftTokens
  BY <1>5, <1>6, <1>7, <1>8, <1>9
<1> QED  BY <1>10 DEF b

\* The steps that leave the target alone.
LEMMA QuietKeeps ==
    ASSUME DecInv, UNCHANGED <<input, target>>
    PROVE  /\ CacheIsConversation' /\ HistoryIsConversation'
           /\ history' \in Seq(Seq(Int)) /\ Committed' = Committed
<1>1. Committed' = Committed  BY DEF Committed, input, target
<1> QED  BY <1>1 DEF DecInv, CacheIsConversation, HistoryIsConversation, target

LEMMA DraftStep ==
    ASSUME DecInv, DraftRun \/ StandardRun
    PROVE  DecInv'
<1>1. PICK d \in Drafts : drafted' = <<current>> \o d  BY DEF DraftRun, StandardRun
<1>2. /\ pc \in {"fill", "draft"} /\ pc' = "verify"
      /\ UNCHANGED <<input, target, tally, printed>>
  BY DEF DraftRun, StandardRun
<1>3. drafted' \in Seq(Int) /\ Len(drafted') <= Block /\ drafted' # << >> /\ drafted'[1] = current
  BY <1>1, DraftedBlock, WindowAssumption
<1>4. MoreWanted /\ MoreWanted'  BY <1>2 DEF DecInv, MoreWanted, target
<1>5. TypeOK'  BY <1>2, <1>3 DEF DecInv, TypeOK, input, target, tally
<1>6. CountersAccount'
  BY <1>2 DEF DecInv, CountersAccount, Completed, target, tally
<1>7. current' = current  BY <1>2 DEF target
<1> QED  BY <1>2, <1>3, <1>4, <1>5, <1>6, <1>7, QuietKeeps
         DEF DecInv, input, target, tally

LEMMA QuietStep ==
    ASSUME DecInv,
           \/ PrefillDone \/ StartRound \/ FillChunk \/ StandardDraft \/ SeedOnly
           \/ PrintTokens \/ Finish \/ ExecuteFails \/ PrintFails
    PROVE  DecInv'
<1>1. UNCHANGED <<input, target>>
  BY DEF PrefillDone, StartRound, FillChunk, StandardDraft, SeedOnly, PrintTokens, Finish,
         ExecuteFails, PrintFails
<1>2. /\ prompt' = prompt /\ offset' = offset /\ generated' = generated
      /\ current' = current /\ model' = model /\ pos' = pos /\ kv' = kv
  BY <1>1 DEF input, target
<1>3. MoreWanted' <=> MoreWanted  BY <1>2 DEF MoreWanted
<1>4. round \in Nat /\ current \in Int  BY DEF DecInv, TypeOK
<1>5. CASE SeedOnly
  <2>1. drafted' = <<current>> /\ <<current>> \in Seq(Int) /\ Len(<<current>>) = 1
        /\ <<current>>[1] = current /\ <<current>> # << >>
    BY <1>4, <1>5 DEF SeedOnly
  <2>2. TypeOK'
    BY <1>2, <1>4, <1>5, <2>1, WindowAssumption DEF SeedOnly, DecInv, TypeOK, AsIds, AsText
  <2>3. CountersAccount'
    BY <1>2, <1>4, <1>5 DEF SeedOnly, DecInv, CountersAccount, Completed
  <2> QED  BY <1>2, <1>3, <1>4, <1>5, <2>1, <2>2, <2>3, <1>1, QuietKeeps
           DEF SeedOnly, DecInv
<1>6. CASE PrintTokens \/ Finish
  <2>1. AsIds' = AsIds /\ AsText' = AsText  BY <1>2 DEF AsIds, AsText
  <2>2. \/ /\ pc = "round" /\ pc' = "text" /\ ~MoreWanted
           /\ printed' \in {<< >>, <<AsIds>>}
        \/ /\ pc = "text" /\ pc' = "done"
           /\ printed' \in {<< >>, <<AsIds>>, <<AsText>>, <<AsIds, AsText>>}
    <3>1. CASE PrintTokens
      <4>1. pc = "round" /\ pc' = "text" /\ ~MoreWanted /\ printed = << >>
        BY <3>1 DEF PrintTokens, DecInv
      <4>2. printed' = printed \/ printed' = Append(printed, AsIds)
        BY <3>1 DEF PrintTokens
      <4> QED  BY <4>1, <4>2, Appended
    <3>2. CASE Finish
      <4>1. pc = "text" /\ pc' = "done" /\ printed \in {<< >>, <<AsIds>>}
        BY <3>2 DEF Finish, DecInv
      <4>2. printed' = printed \/ printed' = Append(printed, AsText)
        BY <3>2 DEF Finish
      <4> QED  BY <4>1, <4>2, Appended
    <3> QED  BY <1>6, <3>1, <3>2
  <2>3. UNCHANGED <<drafted, round, acceptedDraft, draftTotal>>
    BY <1>6 DEF PrintTokens, Finish, tally
  <2>4. TypeOK'  BY <1>2, <2>1, <2>2, <2>3 DEF DecInv, TypeOK
  <2>5. CountersAccount'
    BY <1>2, <2>2, <2>3 DEF DecInv, CountersAccount, Completed
  <2> QED  BY <1>2, <1>3, <2>1, <2>2, <2>3, <2>4, <2>5, <1>1, QuietKeeps DEF DecInv
<1>7. CASE StartRound \/ StandardDraft
  <2>1. /\ pc = "round" /\ MoreWanted /\ round' = round + 1 /\ pc' \in {"fill", "draft"}
        /\ UNCHANGED <<drafted, acceptedDraft, draftTotal, printed>>
    BY <1>7 DEF StartRound, StandardDraft
  <2>2. TypeOK'  BY <1>2, <1>4, <2>1 DEF DecInv, TypeOK, AsIds, AsText
  <2>3. CountersAccount'  BY <1>2, <1>4, <2>1 DEF DecInv, CountersAccount, Completed
  <2> QED  BY <1>2, <1>3, <1>4, <2>1, <2>2, <2>3, <1>1, QuietKeeps DEF DecInv
<1>8. CASE PrefillDone \/ FillChunk \/ ExecuteFails \/ PrintFails
  <2>1. /\ \/ pc = "prefill" /\ pc' = "round" /\ offset >= Len(prompt)
           \/ pc = "fill" /\ pc' = "fill"
           \/ pc # "done" /\ pc' = "failed"
        /\ UNCHANGED <<drafted, round, acceptedDraft, draftTotal, printed>>
    BY <1>8 DEF PrefillDone, FillChunk, ExecuteFails, PrintFails, tally
  <2>2. TypeOK'  BY <1>2, <2>1 DEF DecInv, TypeOK, AsIds, AsText
  <2>3. CountersAccount'  BY <1>2, <2>1 DEF DecInv, CountersAccount, Completed
  <2>4. offset \in Int /\ Len(prompt) \in Int  BY Lengths
  <2> QED  BY <1>2, <1>3, <2>1, <2>2, <2>3, <2>4, <1>1, QuietKeeps DEF DecInv
<1> QED  BY <1>5, <1>6, <1>7, <1>8
-----------------------------------------------------------------------------
(***************************************************************************)
(* The verify pass: row i - 1 of its logits is the target's choice after   *)
(* the conversation and the first i tokens of the block.                   *)
(***************************************************************************)
LEMMA VerifyPass ==
    ASSUME DecInv, pc = "verify"
    PROVE  /\ VerifyCount \in 1 .. VerifySeq /\ VerifyCount <= Len(drafted)
           /\ VerifyBlock \in Seq(Int) /\ Len(VerifyBlock) = VerifySeq
           /\ \A n \in 0 .. VerifyCount : SubSeq(VerifyBlock, 1, n) = SubSeq(drafted, 1, n)
           /\ \A i \in 1 .. VerifyCount :
                 /\ i - 1 \in DOMAIN VerifyLogits
                 /\ VerifyLogits[i - 1] = Logit(model, Committed \o SubSeq(drafted, 1, i))
<1> DEFINE read == SubSeq(drafted, 1, VerifyCount)
<1>1. drafted \in Seq(Int) /\ Len(drafted) \in Nat \ {0}
  BY EmptySeq DEF DecInv, TypeOK
<1>2. VerifyCount \in 1 .. VerifySeq /\ VerifyCount \in 0 .. Len(drafted)
  BY <1>1, DecodeAssumption DEF VerifyCount, AtMost
<1>3. read \in Seq(Int) /\ Len(read) = VerifyCount
      /\ \A n \in 0 .. VerifyCount : SubSeq(read, 1, n) = SubSeq(drafted, 1, n)
  <2>1. read \in Seq(Int) /\ Len(read) = VerifyCount
        /\ \A j \in 1 .. VerifyCount : read[j] = drafted[j]
    BY <1>1, <1>2, Cut
  <2>2. ASSUME NEW n \in 0 .. VerifyCount
        PROVE  SubSeq(read, 1, n) = SubSeq(drafted, 1, n)
    <3>1. n \in 0 .. Len(read) /\ n \in 0 .. Len(drafted)  BY <1>1, <1>2, <2>1
    <3>2. /\ SubSeq(read, 1, n) \in Seq(Int) /\ Len(SubSeq(read, 1, n)) = n
          /\ \A j \in 1 .. n : SubSeq(read, 1, n)[j] = read[j]
      BY <2>1, <3>1, Cut
    <3>3. /\ SubSeq(drafted, 1, n) \in Seq(Int) /\ Len(SubSeq(drafted, 1, n)) = n
          /\ \A j \in 1 .. n : SubSeq(drafted, 1, n)[j] = drafted[j]
      BY <1>1, <3>1, Cut
    <3>4. \A j \in 1 .. n : SubSeq(read, 1, n)[j] = SubSeq(drafted, 1, n)[j]
      BY <1>2, <2>1, <3>2, <3>3
    <3> QED  BY <3>2, <3>3, <3>4, SeqEqual
  <2> QED  BY <2>1, <2>2
<1> HIDE DEF read
<1>4. /\ VerifyBlock \in Seq(Int) /\ Len(VerifyBlock) = VerifySeq
      /\ \A n \in 0 .. VerifyCount : SubSeq(VerifyBlock, 1, n) = SubSeq(drafted, 1, n)
  <2>1. VerifySeq \in Nat /\ Len(read) <= VerifySeq  BY <1>2, <1>3, DecodeAssumption
  <2>2. VerifyBlock = Padded(read, VerifySeq)  BY DEF VerifyBlock, read
  <2> QED  BY <1>3, <2>1, <2>2, PaddedBlock
<1>5. \A i \in 1 .. VerifyCount :
         /\ i - 1 \in DOMAIN VerifyLogits
         /\ VerifyLogits[i - 1] = Logit(model, Committed \o SubSeq(drafted, 1, i))
  <2> TAKE i \in 1 .. VerifyCount
  <2>1. i - 1 \in 0 .. VerifySeq - 1 /\ (i - 1) + 1 = i /\ VerifySeq \in Nat
        /\ i \in 0 .. VerifyCount
    BY <1>2, DecodeAssumption
  <2>2. /\ i - 1 \in DOMAIN Logits(VerifyBlock, VerifySeq)
        /\ Logits(VerifyBlock, VerifySeq)[i - 1] =
              Logit(model, Committed \o SubSeq(VerifyBlock, 1, (i - 1) + 1))
    BY <2>1, RowOfPass
  <2>3. SubSeq(VerifyBlock, 1, i) = SubSeq(drafted, 1, i)  BY <1>4, <2>1
  <2>4. SubSeq(VerifyBlock, 1, (i - 1) + 1) = SubSeq(drafted, 1, i)  BY <2>1, <2>3
  <2>5. VerifyLogits = Logits(VerifyBlock, VerifySeq)  BY DEF VerifyLogits
  <2>6. VerifyLogits[i - 1] = Logit(model, Committed \o SubSeq(drafted, 1, i))
    BY <2>2, <2>4, <2>5
  <2> QED  BY <2>2, <2>5, <2>6
<1>6. VerifyCount <= Len(drafted)  BY <1>1, <1>2
<1> HIDE DEF read
<1> QED  BY <1>2, <1>4, <1>5, <1>6

\* How many inputs the accept loop may accept, and how many are committed.
LEMMA AcceptRange ==
    ASSUME DecInv, pc = "verify", NEW a \in 1 .. VerifySeq, AcceptsUpTo(a)
    PROVE  /\ a \in 1 .. VerifyCount
           /\ NewTokens(a) \in 1 .. a
           /\ Len(generated) + NewTokens(a) <= MaxNew
           /\ NewTokens(a) # a => Len(generated) + NewTokens(a) = MaxNew
<1>1. VerifyCount \in 1 .. VerifySeq  BY VerifyPass
<1>2. a \in 1 .. VerifyCount
  <2>1. CASE a = 1  BY <1>1, <2>1
  <2>2. CASE a > 1
    <3>1. a - 1 \in 1 .. a - 1  BY <2>2
    <3>2. Tested(a - 1)  BY <3>1 DEF AcceptsUpTo
    <3> QED  BY <1>1, <2>2, <3>2 DEF Tested
  <2> QED  BY <2>1, <2>2
<1>3. Len(generated) \in Nat /\ Len(generated) < MaxNew /\ MaxNew \in Nat
  BY Lengths, DecodeAssumption DEF DecInv, MoreWanted
<1> QED  BY <1>2, <1>3 DEF NewTokens, AtMost

LEMMA VerifyStep ==
    ASSUME DecInv, NEW a \in 1 .. VerifySeq, VerifyAndCommit(a)
    PROVE  /\ DecInv'
           /\ Committed' = Committed \o SubSeq(drafted, 1, NewTokens(a))
<1> DEFINE n == NewTokens(a)
<1>0. pc = "verify" /\ AcceptsUpTo(a)  BY DEF VerifyAndCommit
<1>1. /\ a \in 1 .. VerifyCount /\ n \in 1 .. a /\ Len(generated) + n <= MaxNew
  BY <1>0, AcceptRange
<1>2. /\ VerifyCount \in 1 .. VerifySeq /\ VerifyCount <= Len(drafted)
      /\ VerifyBlock \in Seq(Int) /\ Len(VerifyBlock) = VerifySeq
      /\ \A m \in 0 .. VerifyCount : SubSeq(VerifyBlock, 1, m) = SubSeq(drafted, 1, m)
  BY <1>0, VerifyPass
<1>3. /\ generated' = generated \o SubSeq(drafted, 1, n)
      /\ current' = NextCurrent(a)
      /\ acceptedDraft' = acceptedDraft + AcceptedNow(a)
      /\ draftTotal' = draftTotal + AtLeast(0, VerifyCount - 1)
      /\ kv' = Updated(VerifyBlock, n) /\ history' = WithHidden(VerifyBlock, n)
      /\ pos' = pos + n /\ drafted' = << >> /\ pc' = "round"
      /\ UNCHANGED <<model, prompt, offset, round, printed>>
  BY DEF VerifyAndCommit, input
<1>4. /\ generated \in Seq(Int) /\ Len(generated) \in Nat /\ prompt \in Seq(Int)
      /\ offset \in 0 .. Len(prompt) /\ Len(prompt) \in Nat
      /\ pos = offset + Len(generated) /\ Committed \in Seq(Int)
      /\ Len(prompt) + MaxNew <= ContextLen - VerifySeq
      /\ drafted \in Seq(Int) /\ Len(drafted) \in Nat
  BY Lengths, LenProperties DEF DecInv, TypeOK
<1> HIDE DEF n
<1>5. n \in 0 .. Len(drafted) /\ n \in 0 .. VerifyCount /\ n \in 0 .. Len(VerifyBlock)
      /\ n \in Nat
  <2>1. n \in Nat /\ n <= VerifyCount /\ VerifyCount \in Nat  BY <1>1, <1>2, DecodeAssumption
  <2>2. VerifySeq \in Nat /\ VerifyCount <= VerifySeq  BY <1>2, DecodeAssumption
  <2>3. Len(drafted) \in Nat /\ VerifyCount <= Len(drafted) /\ Len(VerifyBlock) = VerifySeq
    BY <1>2, <1>4
  <2> QED  BY <2>1, <2>2, <2>3
<1>6. SubSeq(drafted, 1, n) \in Seq(Int) /\ Len(SubSeq(drafted, 1, n)) = n
  BY <1>4, <1>5, Cut
<1>7. generated' \in Seq(Int) /\ Len(generated') = Len(generated) + n
  BY <1>3, <1>4, <1>6, ConcatProperties
<1>8. Committed' = Committed \o SubSeq(drafted, 1, n)
  <2>1. SubSeq(prompt, 1, offset) \in Seq(Int)  BY <1>4, Cut
  <2>2. Committed' = SubSeq(prompt, 1, offset) \o (generated \o SubSeq(drafted, 1, n))
    BY <1>3 DEF Committed
  <2>3. (SubSeq(prompt, 1, offset) \o generated) \o SubSeq(drafted, 1, n)
            = SubSeq(prompt, 1, offset) \o (generated \o SubSeq(drafted, 1, n))
    <3> DEFINE read == SubSeq(prompt, 1, offset)
    <3> DEFINE new == SubSeq(drafted, 1, n)
    <3>1. read \in Seq(Int) /\ generated \in Seq(Int) /\ new \in Seq(Int)
      BY <1>4, <1>6, <2>1
    <3> HIDE DEF read, new
    <3>2. (read \o generated) \o new = read \o (generated \o new)  BY <3>1, Regroup
    <3> QED  BY <3>2 DEF read, new
  <2>4. Committed = SubSeq(prompt, 1, offset) \o generated  BY DEF Committed
  <2> QED  BY <2>2, <2>3, <2>4
<1>9. pos + n <= ContextLen - VerifySeq /\ pos + n \in 0 .. ContextLen - VerifySeq
  <2>1. pos = offset + Len(generated) /\ offset \in 0 .. Len(prompt) /\ Len(prompt) \in Nat
        /\ Len(prompt) + MaxNew <= ContextLen - VerifySeq /\ Len(generated) \in Nat
    BY <1>4
  <2>2. n \in Nat /\ Len(generated) + n <= MaxNew  BY <1>1, <1>5
  <2> QED  BY <2>1, <2>2, DecodeAssumption
<1>10. /\ CacheIsConversation' /\ HistoryIsConversation'
       /\ history' \in Seq(Seq(Int)) /\ DOMAIN kv' = Columns
  <2>1. Committed' = Committed \o SubSeq(VerifyBlock, 1, n)  BY <1>2, <1>5, <1>8
  <2> QED  BY <1>2, <1>3, <1>5, <1>9, <2>1, CommitStep
<1>11. current' \in Int
  <2>1. Rank(a).argmax \in Int
    BY ArgMaxInIds DEF Rank, RankAccept, RankOf, NoRank
  <2>2. ArgMaxAt(VerifyLogits, a - 1) \in Int  BY ArgMaxInIds DEF ArgMaxAt
  <2> QED  BY <1>3, <2>1, <2>2 DEF NextCurrent
<1>12. AcceptedNow(a) = n - 1 /\ AcceptedNow(a) \in Nat
       /\ AtLeast(0, VerifyCount - 1) = VerifyCount - 1 /\ n <= VerifyCount
  BY <1>1, <1>2, <1>5 DEF AcceptedNow, AtLeast, n
<1>13. CountersAccount'
  <2>1. /\ Len(generated) = round - 1 + acceptedDraft /\ acceptedDraft <= draftTotal
        /\ acceptedDraft \in Nat /\ draftTotal \in Nat /\ round \in Nat
    BY <1>0 DEF DecInv, TypeOK, CountersAccount, Completed
  <2>2. Completed' = round  BY <1>3 DEF Completed
  <2>3. VerifyCount \in Int /\ VerifySeq \in Int  BY <1>2, DecodeAssumption
  <2>4. acceptedDraft' = acceptedDraft + (n - 1) /\ draftTotal' = draftTotal + (VerifyCount - 1)
    BY <1>3, <1>12
  <2>5. Len(generated') = Completed' + acceptedDraft'
    BY <1>4, <1>5, <1>7, <2>1, <2>2, <2>4
  <2>6. acceptedDraft' <= draftTotal'  BY <1>5, <1>12, <2>1, <2>3, <2>4
  <2> QED  BY <2>5, <2>6 DEF CountersAccount
<1>14. TypeOK'
  <2>1. << >> \in Seq(Int) /\ Len(<< >>) = 0  OBVIOUS
  <2>2. acceptedDraft' \in Nat /\ draftTotal' \in Nat
    <3>1. acceptedDraft \in Nat /\ draftTotal \in Nat  BY DEF DecInv, TypeOK
    <3>2. VerifyCount - 1 \in Nat  BY <1>2, DecodeAssumption
    <3>3. acceptedDraft' = acceptedDraft + AcceptedNow(a) /\ AcceptedNow(a) \in Nat
      BY <1>3, <1>12
    <3>4. draftTotal' = draftTotal + (VerifyCount - 1)  BY <1>3, <1>12
    <3> HIDE DEF n
    <3>5. acceptedDraft' \in Nat  BY <3>1, <3>3
    <3>6. draftTotal' \in Nat  BY <3>1, <3>2, <3>4
    <3> QED  BY <3>5, <3>6
  <2>3. printed' = << >>  BY <1>0, <1>3 DEF DecInv
  <2> QED  BY <1>1, <1>3, <1>4, <1>7, <1>9, <1>10, <1>11, <2>1, <2>2, <2>3, WindowAssumption
           DEF DecInv, TypeOK, Columns
<1>15. ~(offset' < Len(prompt')) /\ printed' = << >>  BY <1>0, <1>3, <1>4 DEF DecInv
<1> QED  BY <1>3, <1>8, <1>10, <1>13, <1>14, <1>15 DEF DecInv, n

LEMMA DecNext == DecInv /\ [Next]_vars => DecInv'
<1> SUFFICES ASSUME DecInv, [Next]_vars PROVE DecInv'
  OBVIOUS
<1>1. CASE PrefillChunk  BY <1>1, PrefillStep
<1>2. CASE DraftRun \/ StandardRun  BY <1>2, DraftStep
<1>3. ASSUME NEW a \in 1 .. VerifySeq, VerifyAndCommit(a)
      PROVE  DecInv'
  BY <1>3, VerifyStep
<1>4. CASE \/ PrefillDone \/ StartRound \/ FillChunk \/ StandardDraft \/ SeedOnly
           \/ PrintTokens \/ Finish \/ ExecuteFails \/ PrintFails
  BY <1>4, QuietStep
<1>5. CASE UNCHANGED vars
  <2>1. TypeOK' /\ CountersAccount' /\ MoreWanted' = MoreWanted
    BY <1>5 DEF DecInv, TypeOK, AsIds, AsText, CountersAccount, Completed, MoreWanted, vars
  <2>2. UNCHANGED <<input, target>>  BY <1>5 DEF vars, input, target
  <2> QED  BY <1>5, <2>1, <2>2, QuietKeeps DEF DecInv, AsIds, vars
<1> QED  BY <1>1, <1>2, <1>3, <1>4, <1>5 DEF Next, Step, Terminating

(***************************************************************************)
(* runDecodeTyped keeps its variables in range: in particular the output   *)
(* never exceeds max_new and the position never leaves the cache.          *)
(***************************************************************************)
THEOREM DecodeTypeCorrect == Spec => []TypeOK
<1>1. DecInv => TypeOK  BY DEF DecInv
<1> QED  BY <1>1, DecInit, DecNext, PTL DEF Spec

(***************************************************************************)
(* Whatever is proposed and accepted, the columns behind pos are those of  *)
(* the conversation: no rejected proposal is ever attended to.             *)
(***************************************************************************)
THEOREM CacheStaysConversation == Spec => []CacheIsConversation
<1>1. DecInv => CacheIsConversation  BY DEF DecInv
<1> QED  BY <1>1, DecInit, DecNext, PTL DEF Spec

(***************************************************************************)
(* The hidden history handed to the draft model has one row per committed  *)
(* token, of exactly that token.                                           *)
(***************************************************************************)
THEOREM HistoryStaysConversation == Spec => []HistoryIsConversation
<1>1. DecInv => HistoryIsConversation  BY DEF DecInv
<1> QED  BY <1>1, DecInit, DecNext, PTL DEF Spec

\* The counters of the summary account for every token of the output.
THEOREM CountersStayTrue == Spec => []CountersAccount
<1>1. DecInv => CountersAccount  BY DEF DecInv
<1> QED  BY <1>1, DecInit, DecNext, PTL DEF Spec
-----------------------------------------------------------------------------
(***************************************************************************)
(* What the decode promises: the current token is the target's choice,     *)
(* with top-1 acceptance the output is greedy, and every step is a step of *)
(* the token stream.  The draft graph is assumed to propose tokens of the  *)
(* vocabulary and the acceptance rank to be positive: without that the     *)
(* early return of rankAcceptTensorAtRaw would put token 0 into the        *)
(* output.                                                                 *)
(***************************************************************************)
ProperProposals == DraftTokens \subseteq Ids /\ TopK >= 1

Conversing == {"round", "fill", "draft", "verify"}

TopInv ==
    /\ DecInv
    /\ \A j \in 2 .. Len(drafted) : drafted[j] \in DraftTokens
    /\ pc = "prefill" /\ offset >= Len(prompt) =>
            current = ArgMax(Logit(model, Committed))
    /\ CurrentIsTop1

\* When the prompt is in, the conversation is the prompt and the output.
LEMMA WholePrompt ==
    ASSUME DecInv, offset >= Len(prompt)
    PROVE  Committed = prompt \o generated
<1>1. prompt \in Seq(Int) /\ offset = Len(prompt)  BY Lengths
<1>2. SubSeq(prompt, 1, Len(prompt)) = prompt  BY <1>1, SubSeqFull
<1> QED  BY <1>1, <1>2 DEF Committed

LEMMA PromptIn ==
    ASSUME DecInv, pc \in Conversing
    PROVE  offset >= Len(prompt) /\ Committed = prompt \o generated
<1>1. offset >= Len(prompt)  BY Lengths DEF DecInv, Conversing
<1> QED  BY <1>1, WholePrompt

\* An accepted candidate is one of the target's TopK at its place.
LEMMA AcceptedInTopK ==
    ASSUME DecInv, pc = "verify", NEW a \in 1 .. VerifySeq, AcceptsUpTo(a),
           NEW j \in 2 .. a
    PROVE  TokenInTopK(Logit(model, Committed \o SubSeq(drafted, 1, j - 1)), drafted[j], TopK)
<1>1. a \in 1 .. VerifyCount /\ VerifyCount \in 1 .. VerifySeq
  BY AcceptRange, VerifyPass
<1>2. j - 1 \in 1 .. a - 1 /\ j - 1 \in 1 .. VerifyCount /\ (j - 1) + 1 = j
  BY <1>1, DecodeAssumption
<1>3. Rank(j - 1).accepted  BY <1>2 DEF AcceptsUpTo
<1>4. VerifyLogits[(j - 1) - 1] = Logit(model, Committed \o SubSeq(drafted, 1, j - 1))
  BY <1>2, VerifyPass
<1>5. Rank(j - 1) = RankAccept(VerifyLogits, (j - 1) - 1, drafted[j], TopK)
  BY <1>2 DEF Rank
<1> DEFINE row == VerifyLogits[(j - 1) - 1]
<1>6. drafted[j] \in Ids /\ Rank(j - 1) = RankOf(ArgMax(row), GreaterCount(row, drafted[j]), drafted[j], TopK)
  BY <1>3, <1>5 DEF RankAccept, NoRank
<1> HIDE DEF row
<1>7. IF TopK <= 1 THEN ArgMax(row) = drafted[j] ELSE GreaterCount(row, drafted[j]) < TopK
  <2>1. CASE TopK <= 1
    <3>1. Rank(j - 1).accepted = (ArgMax(row) = drafted[j])  BY <1>6, <2>1 DEF RankOf
    <3> QED  BY <1>3, <2>1, <3>1
  <2>2. CASE ~(TopK <= 1)
    <3>1. Rank(j - 1).accepted = (GreaterCount(row, drafted[j]) < TopK)
      BY <1>6, <2>2 DEF RankOf
    <3> QED  BY <1>3, <2>2, <3>1
  <2> QED  BY <2>1, <2>2
<1>8. TokenInTopK(row, drafted[j], TopK)  BY <1>6, <1>7 DEF TokenInTopK
<1> QED  BY <1>4, <1>8 DEF row

\* The token that ends a round is the target's choice after what it commits,
\* unless the budget has cut the round short.
LEMMA CorrectionIsTop1 ==
    ASSUME ProperProposals, TopInv, NEW a \in 1 .. VerifySeq, VerifyAndCommit(a),
           MoreWanted'
    PROVE  current' = Top1After(generated)'
<1>0. DecInv /\ pc = "verify" /\ AcceptsUpTo(a)  BY DEF TopInv, VerifyAndCommit
<1>1. /\ a \in 1 .. VerifyCount /\ VerifyCount \in 1 .. VerifySeq
      /\ VerifyCount <= Len(drafted) /\ Len(drafted) \in Nat
      /\ NewTokens(a) # a => Len(generated) + NewTokens(a) = MaxNew
  BY <1>0, AcceptRange, VerifyPass, LenProperties DEF DecInv, TypeOK
<1>2. /\ a - 1 \in DOMAIN VerifyLogits
      /\ VerifyLogits[a - 1] = Logit(model, Committed \o SubSeq(drafted, 1, a))
  BY <1>0, <1>1, VerifyPass
<1>3. NewTokens(a) = a
  <2>1. generated' = generated \o SubSeq(drafted, 1, NewTokens(a))  BY DEF VerifyAndCommit
  <2>2. NewTokens(a) \in 0 .. Len(drafted)
    BY <1>0, <1>1, AcceptRange, DecodeAssumption
  <2>3. generated \in Seq(Int) /\ drafted \in Seq(Int)  BY <1>0 DEF DecInv, TypeOK
  <2>4. SubSeq(drafted, 1, NewTokens(a)) \in Seq(Int)
        /\ Len(SubSeq(drafted, 1, NewTokens(a))) = NewTokens(a)
    BY <2>2, <2>3, Cut
  <2>5. Len(generated') = Len(generated) + NewTokens(a)
    BY <2>1, <2>3, <2>4, ConcatProperties
  <2>6. Len(generated') < MaxNew /\ MaxNew \in Nat  BY DecodeAssumption DEF MoreWanted
  <2> QED  BY <1>1, <2>5, <2>6
<1>4. current' = ArgMax(VerifyLogits[a - 1])
  <2>1. CASE Tested(a)
    <3>1. a + 1 \in 2 .. Len(drafted)  BY <1>1, <2>1, DecodeAssumption DEF Tested
    <3>2. drafted[a + 1] \in Ids  BY <3>1 DEF TopInv, ProperProposals
    <3>3. Rank(a) = RankOf(ArgMax(VerifyLogits[a - 1]),
                           GreaterCount(VerifyLogits[a - 1], drafted[a + 1]),
                           drafted[a + 1], TopK)
      BY <1>2, <3>2, DecodeAssumption DEF Rank, RankAccept, ProperProposals
    <3>4. Rank(a).argmax = ArgMax(VerifyLogits[a - 1])  BY <3>3 DEF RankOf
    <3> QED  BY <2>1, <3>4 DEF VerifyAndCommit, NextCurrent
  <2>2. CASE ~Tested(a)
    BY <1>2, <2>2 DEF VerifyAndCommit, NextCurrent, ArgMaxAt
  <2> QED  BY <2>1, <2>2
<1>5. Committed' = Committed \o SubSeq(drafted, 1, a)  BY <1>0, <1>3, VerifyStep
<1>6. Committed' = prompt' \o generated'
  <2>1. offset >= Len(prompt) /\ prompt' = prompt /\ offset' = offset
    BY <1>0, PromptIn DEF Conversing, VerifyAndCommit, input
  <2>2. prompt \in Seq(Int) /\ offset = Len(prompt)  BY <1>0, <2>1, Lengths
  <2>3. SubSeq(prompt, 1, offset) = prompt  BY <2>2, SubSeqFull
  <2> QED  BY <2>1, <2>3 DEF Committed
<1>7. model' = model  BY DEF VerifyAndCommit, input
<1> QED  BY <1>2, <1>4, <1>5, <1>6, <1>7 DEF Top1After

LEMMA TopInit == Init => TopInv
<1> SUFFICES ASSUME Init PROVE TopInv
  OBVIOUS
<1>1. DecInv  BY DecInit
<1>2. offset < Len(prompt) /\ pc = "prefill" /\ drafted = << >>
  <2>1. Len(prompt) \in Nat \ {0}  BY <1>1, Lengths
  <2> QED  BY <2>1 DEF Init
<1>3. Len(drafted) = 0  BY <1>2
<1>4. CurrentIsTop1  BY <1>2 DEF CurrentIsTop1
<1>5. offset \in Int /\ Len(prompt) \in Int  BY <1>1, Lengths
<1> QED  BY <1>1, <1>2, <1>3, <1>4, <1>5 DEF TopInv

LEMMA TopNext == ProperProposals /\ TopInv /\ [Next]_vars => TopInv'
<1> SUFFICES ASSUME ProperProposals, TopInv, [Next]_vars PROVE TopInv'
  OBVIOUS
<1>0. DecInv /\ DecInv'  BY DecNext DEF TopInv
<1>1. CASE PrefillChunk
  <2>1. current' = ArgMax(Logit(model', Committed'))
    BY <1>0, <1>1, PrefillStep DEF PrefillChunk, input
  <2>2. drafted' = drafted /\ pc' = "prefill"  BY <1>1 DEF PrefillChunk
  <2>3. CurrentIsTop1'  BY <2>2 DEF CurrentIsTop1
  <2> QED  BY <1>0, <2>1, <2>2, <2>3 DEF TopInv
<1>2. CASE PrefillDone
  <2>1. /\ offset >= Len(prompt) /\ pc = "prefill" /\ pc' = "round" /\ drafted' = drafted
        /\ UNCHANGED <<model, prompt, offset, current, generated>>
    BY <1>2 DEF PrefillDone, input, target
  <2>2. Committed = prompt \o generated  BY <1>0, <2>1, WholePrompt
  <2>3. current = Top1After(generated)  BY <2>1, <2>2 DEF TopInv, Top1After
  <2>4. CurrentIsTop1'  BY <2>1, <2>3 DEF CurrentIsTop1, Top1After
  <2> QED  BY <1>0, <2>1, <2>4 DEF TopInv
<1>3. ASSUME NEW a \in 1 .. VerifySeq, VerifyAndCommit(a)
      PROVE  TopInv'
  <2>1. MoreWanted' => current' = Top1After(generated)'  BY <1>3, CorrectionIsTop1
  <2>2. drafted' = << >> /\ pc' = "round"  BY <1>3 DEF VerifyAndCommit
  <2>3. CurrentIsTop1'  BY <2>1 DEF CurrentIsTop1
  <2>4. Len(drafted') = 0  BY <2>2
  <2> QED  BY <1>0, <2>2, <2>3, <2>4 DEF TopInv
<1>4. CASE DraftRun \/ StandardRun
  <2>1. PICK d \in Drafts : drafted' = <<current>> \o d  BY <1>4 DEF DraftRun, StandardRun
  <2>2. \A j \in 2 .. Len(drafted') : drafted'[j] \in DraftTokens
    BY <1>0, <2>1, DraftedBlock
  <2>3. /\ pc \in Conversing /\ pc' = "verify"
        /\ UNCHANGED <<model, prompt, current, generated>>
    BY <1>4 DEF DraftRun, StandardRun, Conversing, input, target
  <2>4. CurrentIsTop1'
    BY <2>3 DEF TopInv, CurrentIsTop1, Conversing, MoreWanted, Top1After
  <2> QED  BY <1>0, <2>2, <2>3, <2>4 DEF TopInv
<1>5. CASE \/ StartRound \/ FillChunk \/ StandardDraft \/ SeedOnly
           \/ PrintTokens \/ Finish \/ ExecuteFails \/ PrintFails
  <2>1. /\ pc' # "prefill" /\ (pc' \in Conversing => pc \in Conversing)
        /\ UNCHANGED <<model, prompt, current, generated>>
        /\ drafted' = drafted \/ drafted' = <<current>>
    BY <1>5 DEF StartRound, FillChunk, StandardDraft, SeedOnly, PrintTokens, Finish,
                ExecuteFails, PrintFails, Conversing, input, target
  <2>2. CurrentIsTop1'
    BY <2>1 DEF TopInv, CurrentIsTop1, Conversing, MoreWanted, Top1After
  <2>3. Len(<<current>>) = 1  OBVIOUS
  <2>4. \A j \in 2 .. Len(drafted') : drafted'[j] \in DraftTokens
    <3>1. CASE drafted' = drafted  BY <3>1 DEF TopInv
    <3>2. CASE drafted' = <<current>>
      <4>1. Len(drafted') = 1  BY <3>2
      <4> QED  BY <4>1
    <3> QED  BY <2>1, <3>1, <3>2
  <2> QED  BY <1>0, <2>1, <2>2, <2>4 DEF TopInv
<1>6. CASE UNCHANGED vars
  <2>1. CurrentIsTop1'
    BY <1>6 DEF TopInv, CurrentIsTop1, MoreWanted, Top1After, vars
  <2> QED  BY <1>0, <1>6, <2>1 DEF TopInv, Committed, vars
<1> QED  BY <1>1, <1>2, <1>3, <1>4, <1>5, <1>6 DEF Next, Step, Terminating

(***************************************************************************)
(* However the previous round ended (refusal, end of the block, end of the *)
(* budget), the token the next round starts with is the target's own       *)
(* choice after the whole conversation.                                    *)
(***************************************************************************)
THEOREM CurrentStaysTop1 ==
    ASSUME ProperProposals
    PROVE  Spec => []CurrentIsTop1
<1>1. TopInv => CurrentIsTop1  BY DEF TopInv
<1>2. TopInv /\ [Next]_vars => TopInv'  BY TopNext
<1> QED  BY <1>1, <1>2, TopInit, PTL DEF Spec
-----------------------------------------------------------------------------
(***************************************************************************)
(* What one verify pass appends to the output: a run that starts with the  *)
(* current token and whose further tokens stand where the target has seen  *)
(* everything before them.                                                 *)
(***************************************************************************)
LEMMA RunOfPass ==
    ASSUME ProperProposals, TopInv, NEW a \in 1 .. VerifySeq, VerifyAndCommit(a)
    PROVE  LET n   == NewTokens(a)
               run == SubSeq(drafted, 1, n)
           IN  /\ n \in 1 .. MaxNew - Len(generated) /\ n \in 1 .. a
               /\ run \in Seq(Int) /\ Len(run) = n
               /\ generated' = generated \o run
               /\ run[1] = Top1After(generated)
               /\ \A j \in 2 .. n :
                     TokenInTopK(Logit(model, prompt \o (generated \o SubSeq(run, 1, j - 1))),
                                 run[j], TopK)
<1> DEFINE n == NewTokens(a)
<1> DEFINE run == SubSeq(drafted, 1, n)
<1>0. /\ DecInv /\ pc = "verify" /\ AcceptsUpTo(a) /\ MoreWanted
      /\ drafted[1] = current /\ generated' = generated \o run
  BY DEF TopInv, DecInv, VerifyAndCommit
<1>1. /\ a \in 1 .. VerifyCount /\ VerifyCount \in 1 .. VerifySeq
      /\ VerifyCount <= Len(drafted) /\ n \in 1 .. a
      /\ Len(generated) + n <= MaxNew
  BY <1>0, AcceptRange, VerifyPass
<1>2. /\ drafted \in Seq(Int) /\ Len(drafted) \in Nat
      /\ generated \in Seq(Int) /\ Len(generated) \in Nat
      /\ prompt \in Seq(Int) /\ Committed = prompt \o generated
  BY <1>0, Lengths, PromptIn, LenProperties DEF DecInv, TypeOK, Conversing
<1>3. n \in 0 .. Len(drafted) /\ n \in 1 .. MaxNew - Len(generated) /\ n \in Nat
  BY <1>1, <1>2, DecodeAssumption
<1> HIDE DEF n
<1>4. run \in Seq(Int) /\ Len(run) = n /\ \A j \in 1 .. n : run[j] = drafted[j]
  BY <1>2, <1>3, Cut
<1>5. run[1] = Top1After(generated)
  <2>1. run[1] = drafted[1]  BY <1>3, <1>4
  <2>2. current = Top1After(generated)  BY <1>0 DEF TopInv, CurrentIsTop1
  <2> QED  BY <1>0, <2>1, <2>2
<1>6. ASSUME NEW j \in 2 .. n
      PROVE  TokenInTopK(Logit(model, prompt \o (generated \o SubSeq(run, 1, j - 1))),
                         run[j], TopK)
  <2>1. j \in 2 .. a /\ j \in 1 .. n /\ j - 1 \in 0 .. n /\ j - 1 \in 0 .. Len(drafted)
    BY <1>1, <1>3
  <2>2. TokenInTopK(Logit(model, Committed \o SubSeq(drafted, 1, j - 1)), drafted[j], TopK)
    BY <1>0, <2>1, AcceptedInTopK
  <2>3. SubSeq(run, 1, j - 1) = SubSeq(drafted, 1, j - 1)
    <3>1. /\ SubSeq(run, 1, j - 1) \in Seq(Int) /\ Len(SubSeq(run, 1, j - 1)) = j - 1
          /\ \A m \in 1 .. j - 1 : SubSeq(run, 1, j - 1)[m] = run[m]
      BY <1>4, <2>1, Cut
    <3>2. /\ SubSeq(drafted, 1, j - 1) \in Seq(Int) /\ Len(SubSeq(drafted, 1, j - 1)) = j - 1
          /\ \A m \in 1 .. j - 1 : SubSeq(drafted, 1, j - 1)[m] = drafted[m]
      BY <1>2, <2>1, Cut
    <3>3. \A m \in 1 .. j - 1 : SubSeq(run, 1, j - 1)[m] = SubSeq(drafted, 1, j - 1)[m]
      BY <1>3, <1>4, <2>1, <3>1, <3>2
    <3> QED  BY <3>1, <3>2, <3>3, SeqEqual
  <2>4. SubSeq(drafted, 1, j - 1) \in Seq(Int)  BY <1>2, <2>1, Cut
  <2>5. (prompt \o generated) \o SubSeq(drafted, 1, j - 1)
            = prompt \o (generated \o SubSeq(drafted, 1, j - 1))
    BY <1>2, <2>4, Regroup
  <2>6. run[j] = drafted[j]  BY <1>4, <2>1
  <2> HIDE DEF run
  <2> QED  BY <1>2, <2>2, <2>3, <2>5, <2>6
<1> HIDE DEF run
<1>7. /\ n \in 1 .. MaxNew - Len(generated) /\ n \in 1 .. a
      /\ run \in Seq(Int) /\ Len(run) = n
      /\ generated' = generated \o run
      /\ run[1] = Top1After(generated)
      /\ \A j \in 2 .. n :
            TokenInTopK(Logit(model, prompt \o (generated \o SubSeq(run, 1, j - 1))),
                        run[j], TopK)
  BY <1>0, <1>1, <1>3, <1>4, <1>5, <1>6
<1> QED  BY <1>7 DEF n, run

\* Every other step leaves the output alone.
LEMMA OnlyVerifyEmits ==
    ASSUME Next, \A a \in 1 .. VerifySeq : ~VerifyAndCommit(a)
    PROVE  UNCHANGED <<model, prompt, generated>>
BY DEF Next, Step, PrefillChunk, PrefillDone, StartRound, FillChunk, DraftRun, StandardDraft,
       StandardRun, SeedOnly, PrintTokens, Finish, ExecuteFails, PrintFails, Terminating,
       vars, input, target

LEMMA GreedyStep ==
    ASSUME ProperProposals, TopInv, GreedyOutput, NEW a \in 1 .. VerifySeq,
           VerifyAndCommit(a), TopK = 1 \/ Block = 1
    PROVE  GreedyOutput'
<1> DEFINE n == NewTokens(a)
<1> DEFINE run == SubSeq(drafted, 1, n)
<1>1. /\ n \in 1 .. MaxNew - Len(generated) /\ n \in 1 .. a
      /\ run \in Seq(Int) /\ Len(run) = n /\ generated' = generated \o run
      /\ run[1] = Top1After(generated)
      /\ \A j \in 2 .. n :
            TokenInTopK(Logit(model, prompt \o (generated \o SubSeq(run, 1, j - 1))),
                        run[j], TopK)
  BY RunOfPass
<1>2. TopK # 1 => n = 1
  <2>1. a \in 1 .. VerifyCount /\ VerifyCount <= Len(drafted) /\ VerifyCount \in 1 .. VerifySeq
    BY AcceptRange, VerifyPass DEF TopInv, VerifyAndCommit
  <2>2. Len(drafted) <= Block /\ Len(drafted) \in Nat
    BY LenProperties DEF TopInv, DecInv, TypeOK
  <2>3. n \in 1 .. a  BY <1>1
  <2> HIDE DEF n
  <2> QED  BY <2>1, <2>2, <2>3, DecodeAssumption
<1>3. generated \in Seq(Int) /\ Len(generated) \in Nat /\ MaxNew \in Nat
  BY Lengths, DecodeAssumption DEF TopInv
<1> HIDE DEF n, run
<1>4. /\ generated' \in Seq(Int) /\ Len(generated') = Len(generated) + n
      /\ \A i \in 1 .. Len(generated) + n : generated'[i] =
            IF i <= Len(generated) THEN generated[i] ELSE run[i - Len(generated)]
  BY <1>1, <1>3, ConcatProperties
<1>5. model' = model /\ prompt' = prompt  BY DEF VerifyAndCommit, input
<1>6. ASSUME NEW i \in 1 .. Len(generated) + n
      PROVE  generated'[i] = ArgMax(Logit(model, prompt \o SubSeq(generated', 1, i - 1)))
  <2>1. CASE i <= Len(generated)
    <3>1. i - 1 \in 0 .. Len(generated) /\ i \in 1 .. Len(generated)  BY <1>1, <1>3, <2>1
    <3>2. SubSeq(generated', 1, i - 1) = SubSeq(generated, 1, i - 1)
      BY <1>1, <1>3, <3>1, CutOfLonger
    <3>3. generated[i] = Top1After(SubSeq(generated, 1, i - 1))
      BY <3>1 DEF GreedyOutput
    <3> QED  BY <1>4, <2>1, <3>2, <3>3 DEF Top1After
  <2>2. CASE i > Len(generated)
    <3> DEFINE j == i - Len(generated)
    <3>1. j \in 1 .. n /\ j - 1 \in 0 .. n /\ i - 1 = Len(generated) + (j - 1)
      BY <1>1, <1>3, <2>2
    <3>2. generated'[i] = run[j]  BY <1>4, <2>2
    <3>3. SubSeq(generated', 1, i - 1) = generated \o SubSeq(run, 1, j - 1)
      <4>1. SubSeq(run, 1, n) = run  BY <1>1, SubSeqFull
      <4>2. n \in 0 .. Len(run)  BY <1>1, <1>3
      <4>3. SubSeq(generated \o SubSeq(run, 1, n), 1, Len(generated) + (j - 1))
                = generated \o SubSeq(run, 1, j - 1)
        BY <1>1, <1>3, <3>1, <4>2, CutOfExtended
      <4> QED  BY <1>1, <3>1, <4>1, <4>3
    <3> HIDE DEF j
    <3>4. CASE j = 1
      <4>1. SubSeq(run, 1, j - 1) = << >>  BY <3>4, SubSeqEmpty
      <4>2. generated \o << >> = generated  BY <1>3, ConcatEmptySeq
      <4> QED  BY <1>1, <3>2, <3>3, <3>4, <4>1, <4>2 DEF Top1After
    <3>5. CASE j # 1
      <4>1. j \in 2 .. n /\ TopK = 1  BY <1>1, <1>2, <1>3, <3>1, <3>5
      <4>2. ArgMax(Logit(model, prompt \o (generated \o SubSeq(run, 1, j - 1)))) = run[j]
        BY <1>1, <4>1 DEF TokenInTopK
      <4> QED  BY <3>2, <3>3, <4>2
    <3> QED  BY <3>4, <3>5
  <2> QED  BY <1>1, <1>3, <2>1, <2>2
<1> QED  BY <1>4, <1>5, <1>6 DEF GreedyOutput, Top1After

(***************************************************************************)
(* With --accept_topk 1, or with --block 1, speculation changes nothing    *)
(* but speed: the output is the target's greedy continuation of the        *)
(* prompt, whatever the draft graph proposes.                              *)
(***************************************************************************)
THEOREM OutputIsGreedy ==
    ASSUME ProperProposals
    PROVE  Spec => []GreedyOutput
<1>1. Init => GreedyOutput
  <2> SUFFICES ASSUME Init PROVE GreedyOutput
    OBVIOUS
  <2>1. Len(generated) = 0  BY DEF Init
  <2> QED  BY <2>1 DEF GreedyOutput
<1>2. TopInv /\ GreedyOutput /\ [Next]_vars => GreedyOutput'
  <2> SUFFICES ASSUME TopInv, GreedyOutput, [Next]_vars PROVE GreedyOutput'
    OBVIOUS
  <2>1. ASSUME NEW a \in 1 .. VerifySeq, VerifyAndCommit(a)
        PROVE  GreedyOutput'
    BY <2>1, GreedyStep DEF GreedyOutput
  <2>2. CASE UNCHANGED <<model, prompt, generated>>
    BY <2>2 DEF GreedyOutput, Top1After
  <2>3. CASE UNCHANGED vars  BY <2>2, <2>3 DEF vars
  <2> QED  BY <2>1, <2>2, <2>3, OnlyVerifyEmits
<1>3. TopInv /\ [Next]_vars => TopInv'  BY TopNext
<1> QED  BY <1>1, <1>2, <1>3, TopInit, PTL DEF Spec
-----------------------------------------------------------------------------
(***************************************************************************)
(* The decode implements the token stream.                                 *)
(***************************************************************************)
status == IF pc \in {"done", "failed"} THEN pc ELSE "running"

\* The stream samples its rows by the same operators.
LEMMA SameSampler ==
    /\ \A row : Stream!ArgMax(row) = ArgMax(row)
    /\ \A row, token, k : Stream!TokenInTopK(row, token, k) <=> TokenInTopK(row, token, k)
<1>1. Stream!Ids = Ids  BY DEF Ids, Stream!Ids
<1>2. \A row : Stream!ArgMax(row) = ArgMax(row)
  BY DEF ArgMax, Stream!ArgMax, FirstGreatest, Stream!FirstGreatest, Ids, Stream!Ids
<1>3. \A row, token : Stream!GreaterCount(row, token) = GreaterCount(row, token)
  <2> TAKE row, token
  <2> DEFINE above == {t \in Ids : row[t] > row[token]}
  <2>1. Stream!GreaterCount(row, token) = Cardinality(above)
    BY <1>1 DEF Stream!GreaterCount, Stream!Cardinality, Cardinality
  <2>2. GreaterCount(row, token) = Cardinality(above)  BY DEF GreaterCount
  <2> QED  BY <2>1, <2>2
<1>4. \A row, token, k : Stream!TokenInTopK(row, token, k) <=> TokenInTopK(row, token, k)
  BY <1>1, <1>2, <1>3 DEF TokenInTopK, Stream!TokenInTopK
<1> QED  BY <1>2, <1>4

LEMMA VerifyEmits ==
    ASSUME ProperProposals, TopInv, NEW a \in 1 .. VerifySeq, VerifyAndCommit(a)
    PROVE  Stream!Emit(Stream!NewTail)
<1> DEFINE n == NewTokens(a)
<1> DEFINE run == SubSeq(drafted, 1, n)
<1>1. /\ n \in 1 .. MaxNew - Len(generated)
      /\ run \in Seq(Int) /\ Len(run) = n /\ generated' = generated \o run
      /\ run[1] = Top1After(generated)
      /\ \A j \in 2 .. n :
            TokenInTopK(Logit(model, prompt \o (generated \o SubSeq(run, 1, j - 1))),
                        run[j], TopK)
  BY RunOfPass
<1>2. generated \in Seq(Int) /\ Len(generated) \in Nat /\ MaxNew \in Nat
  BY Lengths, DecodeAssumption DEF TopInv
<1> HIDE DEF n, run
<1>3. generated' \in Seq(Int) /\ Len(generated') = Len(generated) + n
  BY <1>1, <1>2, ConcatProperties
<1>4. Stream!NewTail = run
  <2>1. Len(generated) + 1 \in Len(generated) + 1 .. Len(generated) + Len(run)
        /\ Len(generated) + n \in Len(generated) + 1 .. Len(generated) + Len(run)
        /\ (Len(generated) + 1) - Len(generated) = 1
        /\ (Len(generated) + n) - Len(generated) = n
    BY <1>1, <1>2
  <2>2. SubSeq(generated \o run, Len(generated) + 1, Len(generated) + n)
            = SubSeq(run, (Len(generated) + 1) - Len(generated),
                          (Len(generated) + n) - Len(generated))
    BY <1>1, <1>2, <2>1, SubSeqOfConcat2
  <2>3. SubSeq(run, 1, n) = run  BY <1>1, SubSeqFull
  <2> QED  BY <1>1, <1>3, <2>1, <2>2, <2>3 DEF Stream!NewTail
<1>5. run[1] = Stream!ArgMax(Stream!RowAt(run, 1))
  <2>1. SubSeq(run, 1, 1 - 1) = << >>  BY SubSeqEmpty
  <2>2. generated \o << >> = generated  BY <1>2, ConcatEmptySeq
  <2>3. Stream!RowAt(run, 1) = Logit(model, prompt \o (generated \o SubSeq(run, 1, 1 - 1)))
    BY DEF Stream!RowAt, Stream!RowAfter
  <2> QED  BY <1>1, <2>1, <2>2, <2>3, SameSampler DEF Top1After
<1>6. \A j \in 2 .. Len(run) : Stream!TokenInTopK(Stream!RowAt(run, j), run[j], TopK)
  BY <1>1, SameSampler DEF Stream!RowAt, Stream!RowAfter
<1>7. status = "running" /\ status' = "running" /\ UNCHANGED <<model, prompt, printed>>
  BY DEF VerifyAndCommit, input, status
<1>8. Len(run) \in 1 .. MaxNew - Len(generated)  BY <1>1
<1>9. Stream!Emit(run)
  BY <1>1, <1>5, <1>6, <1>7, <1>8 DEF Stream!Emit, status
<1> QED  BY <1>4, <1>9

LEMMA StreamStep == ProperProposals /\ TopInv /\ [Next]_vars => [Stream!Next]_(Stream!stream)
<1> SUFFICES ASSUME ProperProposals, TopInv, [Next]_vars
             PROVE  Stream!Next \/ UNCHANGED Stream!stream
  OBVIOUS
<1> USE DEF Stream!stream
<1>1. ASSUME NEW a \in 1 .. VerifySeq, VerifyAndCommit(a)
      PROVE  Stream!Next
  BY <1>1, VerifyEmits DEF Stream!Next
<1>2. CASE PrintTokens \/ Finish
  <2>1. Stream!Complete
    <3>1. Len(generated) \in Nat /\ Len(generated) <= MaxNew /\ MaxNew \in Nat
      BY Lengths, DecodeAssumption DEF TopInv, DecInv, TypeOK
    <3>2. ~MoreWanted  BY <1>2 DEF PrintTokens, Finish, TopInv, DecInv
    <3> QED  BY <3>1, <3>2 DEF MoreWanted, Stream!Complete
  <2>2. UNCHANGED <<model, prompt, generated>>
    BY <1>2 DEF PrintTokens, Finish, input, target
  <2>3. CASE PrintTokens
    <3>1. status = "running" /\ status' = "running" /\ printed = << >>
      BY <2>3 DEF PrintTokens, TopInv, DecInv, status
    <3>2. printed' = printed \/ printed' = << <<"ids", generated>> >>
      BY <2>3, <3>1 DEF PrintTokens, AsIds
    <3>3. CASE printed' = << <<"ids", generated>> >>
      <4>1. Stream!PrintIds  BY <2>1, <2>2, <3>1, <3>3 DEF Stream!PrintIds, status
      <4> QED  BY <4>1 DEF Stream!Next
    <3>4. CASE printed' = printed  BY <2>2, <3>1, <3>4 DEF status
    <3> QED  BY <3>2, <3>3, <3>4
  <2>4. CASE Finish
    <3>1. status = "running" /\ status' = "done"  BY <2>4 DEF Finish, status
    <3>2. printed' \in {printed, Append(printed, <<"text", generated>>)}
      BY <2>4 DEF Finish, AsText
    <3>3. Stream!Finish  BY <2>1, <2>2, <3>1, <3>2 DEF Stream!Finish, status
    <3> QED  BY <3>3 DEF Stream!Next
  <2> QED  BY <1>2, <2>3, <2>4
<1>3. CASE ExecuteFails \/ PrintFails
  <2>1. status = "running" /\ status' = "failed"
        /\ UNCHANGED <<model, prompt, generated, printed>>
    BY <1>3 DEF ExecuteFails, PrintFails, status, input, target
  <2>2. Stream!Fail  BY <2>1 DEF Stream!Fail, status
  <2> QED  BY <2>2 DEF Stream!Next
<1>4. CASE \/ PrefillChunk \/ PrefillDone \/ StartRound \/ FillChunk \/ DraftRun
           \/ StandardDraft \/ StandardRun \/ SeedOnly
  <2>1. status = "running" /\ status' = "running"
        /\ UNCHANGED <<model, prompt, generated, printed>>
    BY <1>4 DEF PrefillChunk, PrefillDone, StartRound, FillChunk, DraftRun, StandardDraft,
                StandardRun, SeedOnly, status, input, target
  <2> QED  BY <2>1 DEF status
<1>5. CASE UNCHANGED vars  BY <1>5 DEF vars
<1> QED  BY <1>1, <1>2, <1>3, <1>4, <1>5 DEF Next, Step, Terminating

(***************************************************************************)
(* runDecodeTyped is a token stream: the output grows by runs that start   *)
(* with the target's own choice and go on with choices among its TopK, and *)
(* nothing is printed before it is complete: its ids once at most, then    *)
(* its text once at most.  A run that fails earlier prints nothing, one    *)
(* whose text printer fails no text.                                       *)
(***************************************************************************)
THEOREM DecodeIsStream ==
    ASSUME ProperProposals
    PROVE  Spec => ImplementsStream
<1>1. Init => Stream!Init  BY DEF Init, Stream!Init
<1>2. TopInv /\ [Next]_vars => TopInv'  BY TopNext
<1>3. TopInv /\ [Next]_vars => [Stream!Next]_(Stream!stream)  BY StreamStep
<1> QED  BY <1>1, <1>2, <1>3, TopInit, PTL DEF Spec, ImplementsStream, Stream!Spec
-----------------------------------------------------------------------------

\* How the decode looks from the window.
hist   == IF offset < Len(prompt) THEN Len(prompt) ELSE Len(history)
budget == MaxNew - Len(generated)
place  == IF pc \in {"fill", "verify"} \/ (pc = "failed" /\ MoreWanted) THEN pc ELSE "commit"

WindowInv == DecInv /\ pc # "draft"

LEMMA WindowInit == Init => WindowInv
BY DecInit DEF Init, WindowInv

LEMMA WindowNext == CacheAware /\ WindowInv /\ [Next]_vars => WindowInv'
<1> SUFFICES ASSUME CacheAware, WindowInv, [Next]_vars PROVE WindowInv'
  OBVIOUS
<1>1. DecInv'  BY DecNext DEF WindowInv
<1>2. pc' # "draft"
  BY DEF WindowInv, Next, Step, PrefillChunk, PrefillDone, StartRound, FillChunk, DraftRun,
         StandardDraft, StandardRun, SeedOnly, VerifyAndCommit, PrintTokens, Finish,
         ExecuteFails, PrintFails, Terminating, vars
<1> QED  BY <1>1, <1>2 DEF WindowInv

\* DraftCache works on the same windows by the same operators.
LEMMA SameWindow ==
    /\ WindowLife!EmptyWindow = EmptyWindow
    /\ \A w : WindowLife!Newest(w) = Newest(w)
    /\ \A h : WindowLife!PendingTarget(h) = PendingTarget(h)
    /\ \A w, h : WindowLife!Resynced(w, h) = Resynced(w, h)
    /\ \A n, h : WindowLife!ChunkCount(n, h) = ChunkCount(n, h)
    /\ \A w, h : WindowLife!PendingCount(w, h) = PendingCount(w, h)
    /\ \A s, n, h : WindowLife!Present(s, n, h) = Present(s, n, h)
    /\ \A w, p, n : WindowLife!AppendOutputs(w, p, n) = AppendOutputs(w, p, n)
<1> USE DEF AtLeast, AtMost, Slots, ZeroRow, Reset, Newest, CacheDelta,
            WindowLife!AtLeast, WindowLife!AtMost, WindowLife!Slots, WindowLife!ZeroRow,
            WindowLife!Reset, WindowLife!Newest, WindowLife!CacheDelta
<1>1. WindowLife!EmptyWindow = EmptyWindow  BY DEF EmptyWindow, WindowLife!EmptyWindow
<1>2. \A w : WindowLife!Newest(w) = Newest(w)  OBVIOUS
<1>3. \A h : WindowLife!PendingTarget(h) = PendingTarget(h)
  BY DEF PendingTarget, WindowLife!PendingTarget
<1>4. \A w, h : WindowLife!Resynced(w, h) = Resynced(w, h)
  BY DEF PendingTarget, WindowLife!PendingTarget, Resynced, WindowLife!Resynced
<1>5. \A n, h : WindowLife!ChunkCount(n, h) = ChunkCount(n, h)
  BY DEF PendingTarget, WindowLife!PendingTarget, ChunkCount, WindowLife!ChunkCount
<1>6. \A w, h : WindowLife!PendingCount(w, h) = PendingCount(w, h)
  BY DEF PendingCount, WindowLife!PendingCount
<1>7. \A s, n, h : WindowLife!Present(s, n, h) = Present(s, n, h)
  BY DEF Present, Unfed, RopePos, WindowLife!Present, WindowLife!Unfed, WindowLife!RopePos
<1>8. \A w, p, n : WindowLife!AppendOutputs(w, p, n) = AppendOutputs(w, p, n)
  BY DEF AppendOutputs, MakeRoom, DropOldRows, StoreRows, WindowLife!AppendOutputs,
         WindowLife!MakeRoom, WindowLife!DropOldRows, WindowLife!StoreRows
<1> HIDE DEF AtLeast, AtMost, Slots, ZeroRow, Reset, Newest, CacheDelta,
            WindowLife!AtLeast, WindowLife!AtMost, WindowLife!Slots, WindowLife!ZeroRow,
            WindowLife!Reset, WindowLife!Newest, WindowLife!CacheDelta
<1> QED  BY <1>1, <1>2, <1>3, <1>4, <1>5, <1>6, <1>7, <1>8

\* While the window is at work the prompt is in.
LEMMA WindowCounts ==
    ASSUME DecInv, pc \notin {"prefill", "failed"}
    PROVE  /\ ~(offset < Len(prompt)) /\ hist = Len(history)
           /\ MoreWanted <=> budget > 0
           /\ budget \in Int /\ Len(history) = Len(prompt) + Len(generated)
<1>1. ~(offset < Len(prompt)) /\ offset = Len(prompt)  BY Lengths DEF DecInv
<1>2. Len(history) = offset + Len(generated)  BY Lengths DEF DecInv, HistoryIsConversation
<1>3. Len(generated) \in Nat /\ MaxNew \in Nat  BY Lengths, DecodeAssumption
<1> QED  BY <1>1, <1>2, <1>3 DEF hist, budget, MoreWanted

\* A step that only moves within the program leaves the window's view alone.
LEMMA QuietView ==
    ASSUME UNCHANGED <<input, target>>
    PROVE  hist' = hist /\ budget' = budget
BY DEF input, target, hist, budget

LEMMA PrefillView ==
    ASSUME DecInv, PrefillChunk
    PROVE  UNCHANGED <<hist, budget, place, dc, next, round>>
<1>1. /\ offset < Len(prompt) /\ pc = "prefill" /\ generated = << >>
      /\ UNCHANGED <<prompt, pc, generated, dc, next, round>>
  BY DEF PrefillChunk, DecInv, input, window, tally
<1>2. DecInv'  BY PrefillStep
<1>3. /\ Len(history') = Len(Committed') /\ offset' \in 0 .. Len(prompt)
  BY <1>1, <1>2 DEF DecInv, HistoryIsConversation, TypeOK
<1>4. prompt \in Seq(Int) /\ Len(prompt) \in Nat  BY Lengths
<1>5. Committed' = SubSeq(prompt, 1, offset') \o << >>  BY <1>1 DEF Committed
<1>6. SubSeq(prompt, 1, offset') \in Seq(Int) /\ Len(SubSeq(prompt, 1, offset')) = offset'
  BY <1>3, <1>4, Cut
<1>7. Len(history') = offset'  BY <1>3, <1>5, <1>6, ConcatEmptySeq
<1>8. hist' = hist  BY <1>1, <1>3, <1>4, <1>7 DEF hist
<1> QED  BY <1>1, <1>8 DEF budget, place

LEMMA VerifyView ==
    ASSUME DecInv, NEW a \in 1 .. VerifySeq, VerifyAndCommit(a)
    PROVE  /\ NewTokens(a) \in 1 .. Block /\ NewTokens(a) <= budget
           /\ hist' = hist + NewTokens(a) /\ budget' = budget - NewTokens(a)
<1> DEFINE n == NewTokens(a)
<1>1. /\ pc = "verify" /\ AcceptsUpTo(a) /\ pc' = "round" /\ UNCHANGED <<prompt, offset>>
      /\ generated' = generated \o SubSeq(drafted, 1, n)
  BY DEF VerifyAndCommit, input
<1>2. a \in 1 .. VerifyCount /\ n \in 1 .. a /\ Len(generated) + n <= MaxNew
  BY <1>1, AcceptRange
<1>3. VerifyCount \in 1 .. VerifySeq /\ VerifyCount <= Len(drafted)  BY <1>1, VerifyPass
<1>4. drafted \in Seq(Int) /\ Len(drafted) \in Nat /\ Len(drafted) <= Block
  BY LenProperties DEF DecInv, TypeOK
<1> HIDE DEF n
<1>5. n \in 1 .. Block /\ n \in 0 .. Len(drafted) /\ n \in Nat
  BY <1>2, <1>3, <1>4, DecodeAssumption, WindowAssumption
<1>6. SubSeq(drafted, 1, n) \in Seq(Int) /\ Len(SubSeq(drafted, 1, n)) = n
  BY <1>4, <1>5, Cut
<1>7. generated \in Seq(Int) /\ Len(generated) \in Nat /\ Len(prompt) \in Nat
  BY Lengths
<1>8. Len(generated') = Len(generated) + n  BY <1>1, <1>6, <1>7, ConcatProperties
<1>9. ~(offset < Len(prompt)) /\ hist = Len(history)
      /\ Len(history) = Len(prompt) + Len(generated)
  BY <1>1, WindowCounts
<1>10. Len(history') = Len(prompt) + Len(generated')
  <2>1. DecInv' /\ Committed' = Committed \o SubSeq(drafted, 1, n)  BY VerifyStep DEF n
  <2>2. Committed \in Seq(Int) /\ Len(Committed) = offset + Len(generated)
        /\ offset \in 0 .. Len(prompt)
    BY Lengths
  <2>3. Len(Committed \o SubSeq(drafted, 1, n)) = Len(Committed) + n
    <3> DEFINE new == SubSeq(drafted, 1, n)
    <3>1. new \in Seq(Int) /\ Len(new) = n  BY <1>6
    <3>2. Committed \in Seq(Int)  BY <2>2
    <3> HIDE DEF new
    <3>3. Len(Committed \o new) = Len(Committed) + Len(new)
      BY <3>1, <3>2, ConcatProperties
    <3> QED  BY <3>1, <3>3 DEF new
  <2>4. Len(history') = Len(Committed')  BY <2>1 DEF DecInv, HistoryIsConversation
  <2>5. Len(history') = offset + Len(generated) + n  BY <2>1, <2>2, <2>3, <2>4
  <2>6. offset = Len(prompt)  BY <1>7, <1>9, <2>2
  <2> QED  BY <1>5, <1>7, <1>8, <2>5, <2>6
<1>11. hist' = Len(history')  BY <1>1, <1>9 DEF hist
<1>12. hist' = hist + n  BY <1>5, <1>7, <1>8, <1>9, <1>10, <1>11
<1>13. n <= budget /\ budget' = budget - n
  BY <1>2, <1>5, <1>7, <1>8, DecodeAssumption DEF budget
<1> QED  BY <1>5, <1>12, <1>13 DEF n

LEMMA WindowStep ==
    ASSUME CacheAware, Block > 1, WindowInv, [Next]_vars
    PROVE  [WindowLife!Next]_(WindowLife!vars)
<1>0. DecInv /\ pc # "draft"  BY DEF WindowInv
<1>1. ASSUME UNCHANGED <<hist, budget, place, dc, next, round>>
      PROVE  UNCHANGED WindowLife!vars
  BY <1>1 DEF WindowLife!vars, hist, budget, place
<1>2. CASE PrefillChunk  BY <1>0, <1>1, <1>2, PrefillView
<1>3. CASE PrefillDone \/ PrintTokens \/ Finish \/ PrintFails \/ Terminating \/ UNCHANGED vars
  <2>0. UNCHANGED <<input, target, window, round>>
    BY <1>3 DEF PrefillDone, PrintTokens, Finish, PrintFails, Terminating, vars, input, target,
                window, tally
  <2>2. MoreWanted' = MoreWanted  BY <2>0 DEF MoreWanted, target
  <2>3. \/ pc' = pc
        \/ pc \in {"prefill", "round", "text"} /\ pc' \in {"round", "text", "done"}
        \/ pc = "text" /\ pc' = "failed" /\ ~MoreWanted
    BY <1>0, <1>3 DEF PrefillDone, PrintTokens, Finish, PrintFails, Terminating, vars, DecInv
  <2>1. UNCHANGED <<input, target, window, round>> /\ place' = place
    BY <2>0, <2>2, <2>3 DEF place
  <2> QED  BY <1>1, <2>1, QuietView DEF window
<1>4. CASE StartRound
  <2>1. /\ pc = "round" /\ MoreWanted /\ round' = round + 1
        /\ dc' = Resynced(dc, Len(history)) /\ next' = Newest(dc') /\ pc' = "fill"
        /\ UNCHANGED <<input, target>>
    BY <1>4 DEF StartRound
  <2>2. hist = Len(history) /\ budget > 0  BY <1>0, <2>1, WindowCounts
  <2>3. hist' = hist /\ budget' = budget  BY <2>1, QuietView
  <2>4. place = "commit" /\ place' = "fill"  BY <2>1 DEF place
  <2>5. dc' = WindowLife!Resynced(dc, hist) /\ next' = WindowLife!Newest(dc')
    BY <2>1, <2>2, SameWindow
  <2>6. WindowLife!SyncStart
    BY <2>1, <2>2, <2>3, <2>4, <2>5 DEF WindowLife!SyncStart, hist, budget, place
  <2> QED  BY <2>6 DEF WindowLife!Next, WindowLife!Step
<1>5. CASE FillChunk
  <2> DEFINE count == ChunkCount(next, Len(history))
  <2>1. /\ pc = "fill" /\ next < PendingTarget(Len(history)) /\ next' = next + count
        /\ dc' = AppendOutputs(dc, Present(next, count, Len(history)), count)
        /\ pc' = pc /\ UNCHANGED <<input, target, round>>
    BY <1>5 DEF FillChunk, tally
  <2>2. hist = Len(history)  BY <1>0, <2>1, WindowCounts
  <2>3. hist' = hist /\ budget' = budget  BY <2>1, QuietView
  <2>4. place = "fill" /\ place' = place  BY <2>1 DEF place
  <2>5. /\ next < WindowLife!PendingTarget(hist)
        /\ next' = next + WindowLife!ChunkCount(next, hist)
        /\ dc' = WindowLife!AppendOutputs(dc,
                     WindowLife!Present(next, WindowLife!ChunkCount(next, hist), hist),
                     WindowLife!ChunkCount(next, hist))
    BY <2>1, <2>2, SameWindow
  <2>6. WindowLife!FillChunk
    BY <2>1, <2>3, <2>4, <2>5
       DEF WindowLife!FillChunk, WindowLife!Filling, hist, budget, place
  <2> QED  BY <2>6 DEF WindowLife!Next, WindowLife!Step
<1>6. CASE DraftRun
  <2> DEFINE count == PendingCount(dc, Len(history))
  <2>1. /\ pc = "fill" /\ next >= PendingTarget(Len(history)) /\ pc' = "verify"
        /\ dc' = AppendOutputs(dc, Present(Newest(dc), count, Len(history)), count)
        /\ UNCHANGED <<input, target, next, round>>
    BY <1>6 DEF DraftRun, AfterRun, tally
  <2>2. hist = Len(history)  BY <1>0, <2>1, WindowCounts
  <2>3. hist' = hist /\ budget' = budget  BY <2>1, QuietView
  <2>4. place = "fill" /\ place' = "verify"  BY <2>1 DEF place
  <2>5. /\ next >= WindowLife!PendingTarget(hist)
        /\ dc' = WindowLife!AppendOutputs(dc,
                     WindowLife!Present(WindowLife!Newest(dc),
                                        WindowLife!PendingCount(dc, hist), hist),
                     WindowLife!PendingCount(dc, hist))
    BY <2>1, <2>2, SameWindow
  <2>6. WindowLife!DraftRun
    BY <2>1, <2>3, <2>4, <2>5
       DEF WindowLife!DraftRun, WindowLife!AtRun, hist, budget, place
  <2> QED  BY <2>6 DEF WindowLife!Next, WindowLife!Step
<1>7. CASE StandardDraft \/ StandardRun \/ SeedOnly
  BY <1>0, <1>7 DEF StandardDraft, StandardRun, SeedOnly
<1>8. ASSUME NEW a \in 1 .. VerifySeq, VerifyAndCommit(a)
      PROVE  WindowLife!Next
  <2>1. /\ NewTokens(a) \in 1 .. Block /\ NewTokens(a) <= budget
        /\ hist' = hist + NewTokens(a) /\ budget' = budget - NewTokens(a)
    BY <1>0, <1>8, VerifyView
  <2>2. /\ pc = "verify" /\ pc' = "round" /\ UNCHANGED <<dc, next, round>>
    BY <1>8 DEF VerifyAndCommit, window
  <2>3. WindowLife!Verify(NewTokens(a))
    BY <2>1, <2>2 DEF WindowLife!Verify, hist, budget
  <2> QED  BY <2>1, <2>3 DEF WindowLife!Next, WindowLife!Step
<1>9. CASE ExecuteFails
  <2>1. /\ pc \in {"fill", "draft", "verify"} \/ pc = "prefill"
        /\ pc' = "failed" /\ UNCHANGED <<input, target, dc, next, round>>
    BY <1>9 DEF ExecuteFails, window, tally
  <2>2. hist' = hist /\ budget' = budget  BY <2>1, QuietView
  <2>3. place \in {"fill", "verify"} \/ (place = "commit" /\ round = 0)
    BY <1>0, <2>1 DEF place, DecInv
  <2>4. MoreWanted' = MoreWanted  BY <2>1 DEF MoreWanted, target
  <2>5. CASE MoreWanted
    <3>1. place' = "failed"  BY <2>1, <2>4, <2>5 DEF place
    <3>2. WindowLife!ExecuteFails
      BY <2>1, <2>2, <2>3, <3>1 DEF WindowLife!ExecuteFails, hist, budget, place, MoreWanted
    <3> QED  BY <3>2 DEF WindowLife!Next
  <2>6. CASE ~MoreWanted
    <3>1. pc = "prefill"  BY <1>0, <2>1, <2>6 DEF DecInv
    <3>2. place' = place  BY <2>1, <2>4, <2>6, <3>1 DEF place
    <3> QED  BY <1>1, <2>1, <2>2, <3>2
  <2> QED  BY <2>5, <2>6
<1> QED  BY <1>2, <1>3, <1>4, <1>5, <1>6, <1>7, <1>8, <1>9 DEF Next, Step

(***************************************************************************)
(* A decode with a cache-aware draft graph drives the draft window exactly *)
(* as DraftCache describes: it is resynced once a round, filled, run and   *)
(* then told of 1 .. Block new history rows, whatever is proposed and      *)
(* accepted (syncDraftCacheToHistory as runDecodeTyped calls it).          *)
(***************************************************************************)
THEOREM DecodeDrivesWindow ==
    ASSUME CacheAware, Block > 1
    PROVE  Spec => ImplementsWindowLife
<1>1. Init => WindowLife!Init
  <2> SUFFICES ASSUME Init PROVE WindowLife!Init
    OBVIOUS
  <2>1. /\ prompt \in Prompts /\ pc = "prefill" /\ offset = 0 /\ generated = << >>
        /\ dc = EmptyWindow /\ next = 0 /\ round = 0
    BY DEF Init
  <2>2. prompt \in Seq(Int) /\ prompt # << >>  BY <2>1, DecodeAssumption
  <2>3. offset < Len(prompt)  BY <2>1, <2>2, EmptySeq
  <2>4. MaxNew - Len(generated) = MaxNew  BY <2>1, DecodeAssumption
  <2>5. dc = WindowLife!EmptyWindow  BY <2>1, SameWindow
  <2> QED  BY <2>1, <2>3, <2>4, <2>5 DEF WindowLife!Init
<1>2. WindowInv /\ [Next]_vars => WindowInv'  BY WindowNext
<1>3. WindowInv /\ [Next]_vars => [WindowLife!Next]_(WindowLife!vars)  BY WindowStep
<1> QED  BY <1>1, <1>2, <1>3, WindowInit, PTL DEF Spec, ImplementsWindowLife, WindowLife!Spec
=============================================================================
