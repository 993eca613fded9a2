-------------------------- MODULE DraftCacheProofs --------------------------
(***************************************************************************)
(* For every window size, block size, prompt and token budget, the draft   *)
(* window of DraftCache stays aligned with the target's history, and each  *)
(* draft run attends to exactly the recent history.                        *)
(***************************************************************************)
EXTENDS DraftCache, TLAPS

\* Alignment of a window with the history, as a property of the record.
Aligned(w) ==
    \A r \in Slots : w.rows[r] = IF r < w.tokens THEN TokenRow(w.origin + r) ELSE ZeroRow

\* Old rows are given up only when the rest of the history fills the window.
KeepsRecent(w, h) == w.origin = 0 \/ h - w.origin >= CacheContext

DraftInv ==
    /\ TypeOK
    /\ Aligned(dc) /\ Newest(dc) <= hist
    /\ KeepsRecent(dc, hist)
    /\ pc = "commit" /\ round = 0 => dc = EmptyWindow
    /\ pc = "commit" /\ round > 0 => hist <= Newest(dc) + Block
    /\ pc = "fill" => /\ next = Newest(dc)
                      /\ PendingTarget(hist) <= dc.origin + CacheContext
                      /\ round > 0
    /\ pc = "fill" /\ round > 1 => PendingTarget(hist) <= next
    /\ pc = "verify" => Newest(dc) = hist /\ round > 0

USE WindowAssumption DEF CacheDelta

LEMMA WindowShape ==
    ASSUME NEW w \in Window
    PROVE  /\ w.origin \in Nat /\ w.tokens \in Nat /\ w.tokens <= CacheContext
           /\ w.rows \in [Slots -> Row]
           /\ w = [origin |-> w.origin, tokens |-> w.tokens, rows |-> w.rows]
BY DEF Window

LEMMA RowTypes == ZeroRow \in Row /\ \A t \in Int : TokenRow(t) \in Row
BY DEF ZeroRow, TokenRow, Row

LEMMA ResetAligned ==
    ASSUME NEW o \in Nat
    PROVE  /\ Reset(o) \in Window /\ Aligned(Reset(o))
           /\ Reset(o).origin = o /\ Reset(o).tokens = 0 /\ Newest(Reset(o)) = o
<1> DEFINE zeros == [r \in Slots |-> ZeroRow]
<1>1. zeros \in [Slots -> Row]  BY RowTypes
<1>2. Reset(o) = [origin |-> o, tokens |-> 0, rows |-> zeros]  BY DEF Reset
<1>3. Reset(o) \in Window  BY <1>1, <1>2 DEF Window
<1>4. Aligned(Reset(o))  BY <1>2 DEF Aligned, Slots
<1> QED  BY <1>2, <1>3, <1>4 DEF Newest

(***************************************************************************)
(* dropOldRows keeps the window aligned and moves its origin by the rows   *)
(* it dropped.                                                             *)
(***************************************************************************)
LEMMA DropAligned ==
    ASSUME NEW w \in Window, Aligned(w), NEW d \in Nat \ {0}, d <= w.tokens
    PROVE  LET v == DropOldRows(w, d)
           IN  /\ v \in Window /\ Aligned(v)
               /\ v.origin = w.origin + d /\ v.tokens = w.tokens - d
<1> DEFINE remain == w.tokens - d
           moved == [r \in Slots |-> IF r < remain THEN w.rows[r + d] ELSE ZeroRow]
           v == [origin |-> w.origin + d, tokens |-> remain, rows |-> moved]
<1>1. /\ w.origin \in Nat /\ w.tokens \in Nat /\ w.tokens <= CacheContext
      /\ w.rows \in [Slots -> Row]
  BY WindowShape
<1>2. DropOldRows(w, d) = v
  BY <1>1 DEF DropOldRows, AtMost
<1>3. \A r \in Slots : moved[r] = IF r < remain THEN TokenRow((w.origin + d) + r) ELSE ZeroRow
  <2> SUFFICES ASSUME NEW r \in Slots, r < remain
               PROVE  w.rows[r + d] = TokenRow((w.origin + d) + r)
    OBVIOUS
  <2>1. r + d \in Slots /\ r + d < w.tokens  BY <1>1 DEF Slots
  <2>2. w.rows[r + d] = TokenRow(w.origin + (r + d))  BY <2>1 DEF Aligned
  <2>3. w.origin + (r + d) = (w.origin + d) + r  BY <1>1 DEF Slots
  <2> QED  BY <2>2, <2>3
<1>4. moved \in [Slots -> Row]
  <2>1. \A r \in Slots : (w.origin + d) + r \in Int  BY <1>1 DEF Slots
  <2> QED  BY <1>3, <2>1, RowTypes
<1>5. v \in Window  BY <1>1, <1>4 DEF Window
<1> QED  BY <1>2, <1>3, <1>5 DEF Aligned

(***************************************************************************)
(* appendOutputs, given the rows the graph computed for the tokens that    *)
(* follow the window, keeps the window aligned; it drops rows only to end  *)
(* with a full window.                                                     *)
(***************************************************************************)
LEMMA AppendAligned ==
    ASSUME NEW w \in Window, Aligned(w), NEW h \in Nat,
           NEW count \in 0 .. Block, Newest(w) + count <= h
    PROVE  LET v == AppendOutputs(w, Present(Newest(w), count, h), count)
           IN  /\ v \in Window /\ Aligned(v)
               /\ Newest(v) = Newest(w) + count
               /\ w.tokens + count <= CacheContext => v.origin = w.origin
               /\ v.origin = w.origin \/ v.tokens = CacheContext
<1> DEFINE present == Present(Newest(w), count, h)
           v == AppendOutputs(w, present, count)
           kept == MakeRoom(w, count)
<1>1. /\ w.origin \in Nat /\ w.tokens \in Nat /\ w.tokens <= CacheContext
      /\ w.rows \in [Slots -> Row]
  BY WindowShape
<1>2. CASE count = 0
  <2>1. v = w  BY <1>2 DEF AppendOutputs, AtLeast, AtMost
  <2> QED  BY <1>1, <1>2, <2>1 DEF Newest
<1>3. CASE count > 0
  <2>1. count \in Nat /\ count <= CacheContext /\ AtLeast(0, AtMost(count, CacheContext)) = count
    BY <1>3 DEF AtLeast, AtMost
  <2>2. /\ kept \in Window /\ Aligned(kept)
        /\ kept.origin + kept.tokens = Newest(w)
        /\ kept.tokens + count <= CacheContext
        /\ w.tokens + count <= CacheContext => kept = w
        /\ kept = w \/ kept.tokens + count = CacheContext
    <3>1. CASE w.tokens + count > CacheContext
      <4> DEFINE d == w.tokens + count - CacheContext
      <4>1. d \in Nat \ {0} /\ d <= w.tokens  BY <1>1, <2>1, <3>1
      <4>2. kept = DropOldRows(w, d)  BY <3>1 DEF MakeRoom
      <4>3. /\ kept \in Window /\ Aligned(kept)
            /\ kept.origin = w.origin + d /\ kept.tokens = w.tokens - d
        BY <4>1, <4>2, DropAligned
      <4> QED  BY <1>1, <2>1, <3>1, <4>3 DEF Newest
    <3>2. CASE ~(w.tokens + count > CacheContext)
      BY <1>1, <2>1, <3>2 DEF MakeRoom, Newest
    <3> QED  BY <3>1, <3>2
  <2>3. /\ kept.origin \in Nat /\ kept.tokens \in Nat /\ kept.rows \in [Slots -> Row]
        /\ kept = [origin |-> kept.origin, tokens |-> kept.tokens, rows |-> kept.rows]
    BY <2>2, WindowShape
  <2> DEFINE filled == [r \in Slots |->
                          IF r \in kept.tokens .. kept.tokens + count - 1
                          THEN present[r - kept.tokens] ELSE kept.rows[r]]
  <2>4. v = [origin |-> kept.origin, tokens |-> kept.tokens + count, rows |-> filled]
    <3>1. v = StoreRows(kept, present, count)
      <4> HIDE DEF kept, present
      <4> QED  BY <1>3, <2>1 DEF AppendOutputs, kept
    <3> QED  BY <3>1 DEF StoreRows
  <2>5. \A j \in 0 .. count - 1 : present[j] = TokenRow(Newest(w) + j)
    BY <1>1, <2>1 DEF Present, RopePos, AtMost, TokenRow, Newest
  <2>6. \A r \in Slots : filled[r] = IF r < kept.tokens + count
                                     THEN TokenRow(kept.origin + r) ELSE ZeroRow
    <3> SUFFICES ASSUME NEW r \in Slots
                 PROVE  filled[r] = IF r < kept.tokens + count
                                    THEN TokenRow(kept.origin + r) ELSE ZeroRow
      OBVIOUS
    <3> HIDE DEF kept, present
    <3>1. CASE r \in kept.tokens .. kept.tokens + count - 1
      <4>1. r - kept.tokens \in 0 .. count - 1  BY <2>1, <2>3, <3>1 DEF Slots
      <4>2. Newest(w) + (r - kept.tokens) = kept.origin + r  BY <2>2, <2>3 DEF Slots
      <4> QED  BY <2>1, <2>3, <2>5, <3>1, <4>1, <4>2 DEF Slots
    <3>2. CASE r \notin kept.tokens .. kept.tokens + count - 1
      <4>1. kept.rows[r] = IF r < kept.tokens THEN TokenRow(kept.origin + r) ELSE ZeroRow
        BY <2>2 DEF Aligned
      <4>2. filled[r] = kept.rows[r]  BY <3>2
      <4>3. r < kept.tokens + count <=> r < kept.tokens
        BY <2>1, <2>3, <3>2 DEF Slots
      <4> QED  BY <4>1, <4>2, <4>3
    <3> QED  BY <3>1, <3>2
  <2>7. filled \in [Slots -> Row]
    <3>1. \A r \in Slots : kept.origin + r \in Int  BY <2>3 DEF Slots
    <3> HIDE DEF filled, kept
    <3>2. \A r \in Slots : filled[r] \in Row  BY <2>6, <3>1, RowTypes
    <3> QED  BY <3>2 DEF filled
  <2>8. v \in Window
    BY <2>1, <2>2, <2>3, <2>4, <2>7 DEF Window
  <2>9. Aligned(v)
    BY <2>4, <2>6 DEF Aligned
  <2>10. Newest(v) = Newest(w) + count
    BY <1>1, <2>1, <2>2, <2>3, <2>4 DEF Newest
  <2>11. w.tokens + count <= CacheContext => v.origin = w.origin
    BY <2>2, <2>4
  <2>12. v.origin = w.origin \/ v.tokens = CacheContext
    BY <2>2, <2>4
  <2> HIDE DEF kept, v
  <2> QED  BY <2>8, <2>9, <2>10, <2>11, <2>12 DEF v
<1> HIDE DEF v
<1> QED  BY <1>2, <1>3, count = 0 \/ count > 0 DEF v

\* Aligned rows that follow each other make up the history behind the origin.
LEMMA PendingBound ==
    ASSUME DraftInv, AtRun
    PROVE  /\ PendingCount(dc, hist) = hist - Newest(dc)
           /\ PendingCount(dc, hist) \in 0 .. Block
BY DEF DraftInv, TypeOK, Window, AtRun, PendingCount, PendingTarget, AtMost, AtLeast, Newest

LEMMA SyncStartStep == DraftInv /\ SyncStart => DraftInv'
<1> SUFFICES ASSUME DraftInv, SyncStart PROVE DraftInv'
  OBVIOUS
<1>1. /\ TypeOK /\ Aligned(dc) /\ Newest(dc) <= hist /\ KeepsRecent(dc, hist)
      /\ pc = "commit" /\ pc' = "fill" /\ UNCHANGED <<hist, budget>>
      /\ round' = round + 1 /\ dc' = Resynced(dc, hist) /\ next' = Newest(dc')
  BY DEF DraftInv, SyncStart
<1>2. /\ hist \in Nat /\ dc \in Window /\ dc.origin \in Nat /\ dc.tokens \in Nat
      /\ dc.tokens <= CacheContext /\ round \in Nat
  BY <1>1, WindowShape DEF TypeOK
<1>3. /\ PendingTarget(hist) \in Nat
      /\ PendingTarget(hist) <= hist /\ hist <= PendingTarget(hist) + Block
  BY <1>2 DEF PendingTarget, AtLeast
<1>4. ~(hist < Newest(dc))
  BY <1>1, <1>2 DEF Newest
<1>5. CASE PendingTarget(hist) - dc.origin > CacheContext
  <2> DEFINE o == PendingTarget(hist) - CacheContext
  <2>1. o \in Nat /\ AtLeast(0, PendingTarget(hist) - CacheContext) = o
    BY <1>2, <1>3, <1>5 DEF AtLeast
  <2>2. dc' = Reset(o)
    BY <1>1, <1>4, <1>5, <2>1 DEF Resynced
  <2>3. dc' \in Window /\ Aligned(dc') /\ dc'.origin = o /\ Newest(dc') = o
    BY <2>1, <2>2, ResetAligned
  <2>4. round = 0
    <3> SUFFICES ASSUME round > 0 PROVE FALSE
      BY <1>2
    <3>1. hist <= Newest(dc) + Block  BY <1>1 DEF DraftInv
    <3> QED  BY <1>2, <1>3, <1>5, <3>1 DEF Newest, PendingTarget, AtLeast
  <2> QED
    BY <1>1, <1>2, <1>3, <2>1, <2>3, <2>4 DEF DraftInv, TypeOK, KeepsRecent
<1>6. CASE ~(PendingTarget(hist) - dc.origin > CacheContext)
  <2>1. dc' = dc  BY <1>1, <1>4, <1>6 DEF Resynced
  <2>2. round > 0 => PendingTarget(hist) <= Newest(dc)
    <3> SUFFICES ASSUME round > 0 PROVE PendingTarget(hist) <= Newest(dc)
      OBVIOUS
    <3>1. hist <= Newest(dc) + Block  BY <1>1 DEF DraftInv
    <3> QED  BY <1>2, <3>1 DEF Newest, PendingTarget, AtLeast
  <2>3. next' = Newest(dc) /\ next' \in Nat  BY <1>1, <1>2, <2>1 DEF Newest
  <2> QED
    BY <1>1, <1>2, <1>3, <1>6, <2>1, <2>2, <2>3 DEF DraftInv, TypeOK
<1> QED  BY <1>5, <1>6

LEMMA FillChunkStep ==
    DraftInv /\ FillChunk => DraftInv' /\ dc'.origin = dc.origin
<1> SUFFICES ASSUME DraftInv, FillChunk PROVE DraftInv' /\ dc'.origin = dc.origin
  OBVIOUS
<1> DEFINE count == ChunkCount(next, hist)
<1>1. /\ TypeOK /\ Aligned(dc) /\ Newest(dc) <= hist /\ KeepsRecent(dc, hist)
      /\ pc = "fill" /\ next = Newest(dc) /\ next < PendingTarget(hist)
      /\ PendingTarget(hist) <= dc.origin + CacheContext /\ round > 0
      /\ UNCHANGED <<hist, budget, round, pc>> /\ next' = next + count
      /\ dc' = AppendOutputs(dc, Present(next, count, hist), count)
      /\ round > 1 => PendingTarget(hist) <= next
  BY DEF DraftInv, FillChunk, Filling
<1>2. /\ hist \in Nat /\ dc \in Window /\ dc.origin \in Nat /\ dc.tokens \in Nat
      /\ dc.tokens <= CacheContext /\ next \in Nat /\ round \in Nat
  BY <1>1, WindowShape DEF TypeOK
<1>3. PendingTarget(hist) \in Nat /\ PendingTarget(hist) <= hist
  BY <1>2 DEF PendingTarget, AtLeast
<1>4. count \in 0 .. Block /\ next + count <= PendingTarget(hist)
  BY <1>1, <1>2, <1>3 DEF ChunkCount, AtMost
<1>5. Newest(dc) + count <= hist /\ dc.tokens + count <= CacheContext
  BY <1>1, <1>2, <1>3, <1>4 DEF Newest
<1> HIDE DEF count
<1>6. /\ dc' \in Window /\ Aligned(dc') /\ Newest(dc') = Newest(dc) + count
      /\ dc'.origin = dc.origin
  BY <1>1, <1>2, <1>4, <1>5, AppendAligned
<1> QED
  BY <1>1, <1>2, <1>3, <1>4, <1>5, <1>6 DEF DraftInv, TypeOK, KeepsRecent

LEMMA DraftRunStep == DraftInv /\ DraftRun => DraftInv'
<1> SUFFICES ASSUME DraftInv, DraftRun PROVE DraftInv'
  OBVIOUS
<1> DEFINE count == PendingCount(dc, hist)
<1>1. /\ TypeOK /\ Aligned(dc) /\ Newest(dc) <= hist /\ KeepsRecent(dc, hist)
      /\ AtRun /\ pc = "fill" /\ pc' = "verify" /\ round > 0
      /\ UNCHANGED <<hist, budget, next, round>>
      /\ dc' = AppendOutputs(dc, Present(Newest(dc), count, hist), count)
  BY DEF DraftInv, DraftRun, AtRun
<1>2. /\ hist \in Nat /\ dc \in Window /\ dc.origin \in Nat /\ dc.tokens \in Nat
      /\ dc.tokens <= CacheContext
  BY <1>1, WindowShape DEF TypeOK
<1>3. count \in 0 .. Block /\ count = hist - Newest(dc)
  BY <1>1, PendingBound
<1> HIDE DEF count
<1>4. Newest(dc) \in Nat /\ Newest(dc) + count = hist
  BY <1>2, <1>3 DEF Newest
<1>5. /\ dc' \in Window /\ Aligned(dc') /\ Newest(dc') = Newest(dc) + count
      /\ dc'.origin = dc.origin \/ dc'.tokens = CacheContext
  BY <1>1, <1>2, <1>3, <1>4, AppendAligned
<1>6. KeepsRecent(dc', hist)
  <2>1. dc'.origin \in Nat /\ dc'.tokens \in Nat  BY <1>5, WindowShape
  <2> QED  BY <1>1, <1>2, <1>4, <1>5, <2>1 DEF KeepsRecent, Newest
<1> QED
  BY <1>1, <1>2, <1>4, <1>5, <1>6 DEF DraftInv, TypeOK

LEMMA VerifyStep ==
    ASSUME NEW n \in 1 .. Block, DraftInv, Verify(n)
    PROVE  DraftInv'
<1>1. /\ TypeOK /\ pc = "verify" /\ Newest(dc) = hist /\ KeepsRecent(dc, hist)
      /\ Aligned(dc) /\ round > 0 /\ n <= budget
      /\ hist' = hist + n /\ budget' = budget - n /\ pc' = "commit"
      /\ UNCHANGED <<dc, next, round>>
  BY DEF DraftInv, Verify
<1>2. hist \in Nat /\ budget \in 0 .. MaxNew /\ dc.origin \in Nat /\ round \in Nat
  BY <1>1, WindowShape DEF TypeOK
<1>3. TypeOK'
  BY <1>1, <1>2, PromptAssumption DEF TypeOK
<1>4. KeepsRecent(dc, hist)'
  BY <1>1, <1>2 DEF KeepsRecent
<1>5. Newest(dc)' = hist /\ hist' <= hist + Block /\ hist <= hist'
  BY <1>1, <1>2
<1>6. Aligned(dc)'
  BY <1>1 DEF Aligned
<1> QED
  BY <1>1, <1>2, <1>3, <1>4, <1>5, <1>6 DEF DraftInv

LEMMA InitStep == Init => DraftInv
<1> SUFFICES ASSUME Init PROVE DraftInv
  OBVIOUS
<1>1. /\ dc = Reset(0) /\ hist \in Nat /\ budget = MaxNew /\ next = 0 /\ round = 0
      /\ pc = "commit"
  BY PromptAssumption DEF Init, EmptyWindow
<1>2. dc \in Window /\ Aligned(dc) /\ dc.origin = 0 /\ Newest(dc) = 0
  BY <1>1, ResetAligned
<1> QED
  BY <1>1, <1>2, PromptAssumption DEF DraftInv, TypeOK, KeepsRecent, EmptyWindow

LEMMA DraftInvariant == Spec => []DraftInv
<1>1. DraftInv /\ [Next]_vars => DraftInv'
  <2> SUFFICES ASSUME DraftInv, [Next]_vars PROVE DraftInv'
    OBVIOUS
  <2>1. CASE UNCHANGED vars
    BY <2>1 DEF vars, DraftInv, TypeOK, Aligned, KeepsRecent, Newest
  <2>2. CASE ExecuteFails
    BY <2>2 DEF ExecuteFails, DraftInv, TypeOK, Aligned, KeepsRecent, Newest
  <2>3. CASE Terminating
    BY <2>1, <2>3 DEF Terminating
  <2> QED
    BY <2>1, <2>2, <2>3, SyncStartStep, FillChunkStep, DraftRunStep, VerifyStep
    DEF Next, Step
<1> QED  BY <1>1, InitStep, PTL DEF Spec

\* The state of the draft window stays in its declared sets: in particular
\* no append ever needs a row past the window.
THEOREM DraftTypeCorrect == Spec => []TypeOK
<1>1. DraftInv => TypeOK  BY DEF DraftInv
<1> QED  BY <1>1, DraftInvariant, PTL

(***************************************************************************)
(* The cached rows are those of consecutive history tokens from origin on, *)
(* at their own positions, whatever the sequence of chunks, runs and       *)
(* accepted lengths.                                                       *)
(***************************************************************************)
THEOREM WindowStaysAligned == Spec => []WindowAligned
<1>1. DraftInv => WindowAligned  BY DEF DraftInv, Aligned, WindowAligned
<1> QED  BY <1>1, DraftInvariant, PTL

\* Each run leaves the window at the end of the history.
THEOREM RunCatchesUp == Spec => []CaughtUp
<1>1. DraftInv => CaughtUp  BY DEF DraftInv, CaughtUp
<1> QED  BY <1>1, DraftInvariant, PTL

\* Only the first round needs the fill loop.
THEOREM OneFill == Spec => []FillsPromptOnly
<1>1. DraftInv => FillsPromptOnly
  <2> SUFFICES ASSUME DraftInv, round > 1, pc = "fill", next < PendingTarget(hist)
               PROVE  FALSE
    BY DEF FillsPromptOnly, Filling
  <2>1. PendingTarget(hist) <= next /\ next \in Nat /\ hist \in Nat
    BY DEF DraftInv, TypeOK
  <2> QED  BY <2>1 DEF PendingTarget, AtLeast
<1> QED  BY <1>1, DraftInvariant, PTL

\* The fill loop never drops a row: the window has been restarted far enough.
THEOREM FillNeverDrops == Spec => FillKeepsRows
<1>1. DraftInv /\ [Next]_vars => [FillChunk => dc'.origin = dc.origin]_vars
  BY FillChunkStep
<1> QED  BY <1>1, DraftInvariant, PTL DEF Spec, FillKeepsRows

(***************************************************************************)
(* What one run attends to: the cached rows and the pending ones together  *)
(* are the history from the origin on, and the block follows it.           *)
(***************************************************************************)
LEMMA RunAttends ==
    ASSUME DraftInv, AtRun
    PROVE  LET start == Newest(dc)
               count == PendingCount(dc, hist)
           IN  Attended(dc, start, count, hist) = {TokenRow(t) : t \in dc.origin .. hist - 1}
<1> DEFINE start == Newest(dc)
           count == PendingCount(dc, hist)
           past  == {dc.rows[c] : c \in PastColumns(dc.tokens)}
           delta == {Present(start, count, hist)[j] : j \in DeltaColumns(count)}
<1>1. /\ hist \in Nat /\ dc.origin \in Nat /\ dc.tokens \in Nat
      /\ dc.tokens <= CacheContext /\ Aligned(dc) /\ start = dc.origin + dc.tokens
  BY WindowShape DEF DraftInv, TypeOK, Newest
<1>2. count = hist - start /\ count \in 0 .. Block
  BY PendingBound
<1> HIDE DEF start, count
<1>3. past = {TokenRow(t) : t \in dc.origin .. start - 1}
  <2>1. \A c \in PastColumns(dc.tokens) :
          dc.rows[c] = TokenRow(dc.origin + c) /\ dc.origin + c \in dc.origin .. start - 1
    BY <1>1 DEF PastColumns, Aligned, Slots
  <2>2. ASSUME NEW t \in dc.origin .. start - 1
        PROVE  \E c \in PastColumns(dc.tokens) : dc.rows[c] = TokenRow(t)
    <3>1. t - dc.origin \in PastColumns(dc.tokens)
      BY <1>1 DEF PastColumns, Slots
    <3>2. dc.origin + (t - dc.origin) = t  BY <1>1
    <3> QED  BY <2>1, <3>1, <3>2
  <2> QED  BY <2>1, <2>2
<1>4. delta = {TokenRow(t) : t \in start .. hist - 1}
  <2>1. \A j \in DeltaColumns(count) :
          /\ Present(start, count, hist)[j] = TokenRow(start + j)
          /\ start + j \in start .. hist - 1
    BY <1>1, <1>2 DEF DeltaColumns, Present, RopePos, AtMost, TokenRow
  <2>2. ASSUME NEW t \in start .. hist - 1
        PROVE  \E j \in DeltaColumns(count) : Present(start, count, hist)[j] = TokenRow(t)
    <3>1. t - start \in DeltaColumns(count)
      BY <1>1, <1>2 DEF DeltaColumns
    <3>2. start + (t - start) = t  BY <1>1
    <3> QED  BY <2>1, <3>1, <3>2
  <2> QED  BY <2>1, <2>2
<1>5. dc.origin .. hist - 1 = (dc.origin .. start - 1) \cup (start .. hist - 1)
  BY <1>1, <1>2
<1>6. Attended(dc, start, count, hist) = past \cup delta
  BY DEF Attended
<1> QED  BY <1>3, <1>4, <1>5, <1>6 DEF start, count

(***************************************************************************)
(* For every geometry, every draft run attends to the history from some    *)
(* token on, all of it when the window has never been full, at least a     *)
(* window of it otherwise, and places its own tokens right behind it.      *)
(***************************************************************************)
THEOREM RunSeesHistory == Spec => []DraftSeesHistory
<1>1. DraftInv => DraftSeesHistory
  <2> SUFFICES ASSUME DraftInv, AtRun PROVE DraftSeesHistory
    BY DEF DraftSeesHistory
  <2> DEFINE start == Newest(dc)
             count == PendingCount(dc, hist)
  <2>1. hist \in Nat /\ start \in Nat /\ KeepsRecent(dc, hist)
    BY WindowShape DEF DraftInv, TypeOK, Newest
  <2>2. count = hist - start /\ count \in 0 .. Block
    BY PendingBound
  <2>3. Attended(dc, start, count, hist) = {TokenRow(t) : t \in dc.origin .. hist - 1}
    BY RunAttends
  <2> HIDE DEF start, count
  <2>4. NoisePositions(start, count, TRUE) = hist .. hist + Block - 1
    <3>1. \A j \in Block .. Block + Block - 1 : RopePos(start, count, j) = hist + (j - Block)
      BY <2>1, <2>2 DEF RopePos, AtLeast, AtMost
    <3>2. \A p \in hist .. hist + Block - 1 :
            /\ p - hist + Block \in Block .. Block + Block - 1
            /\ hist + ((p - hist + Block) - Block) = p
      BY <2>1
    <3>3. \A j \in Block .. Block + Block - 1 : hist + (j - Block) \in hist .. hist + Block - 1
      BY <2>1
    <3> QED  BY <3>1, <3>2, <3>3 DEF NoisePositions, NoiseColumns
  <2>5. \A j \in 0 .. Block - 1 : QueryPos(start, count, j) = hist + j
    BY <2>1, <2>2 DEF QueryPos
  <2> QED  BY <2>1, <2>3, <2>4, <2>5 DEF DraftSeesHistory, KeepsRecent, start, count
<1> QED  BY <1>1, DraftInvariant, PTL
=============================================================================
