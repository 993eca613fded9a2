----------------------------- MODULE DraftWindow -----------------------------
(***************************************************************************)
(* The draft model's KV window (DraftCacheState and the input builders of  *)
(* src/runtime/dflash_runtime.cpp, the draft part of runtime_io.cpp), as   *)
(* operators on a record.  The window caches, per layer and head, the      *)
(* key/value rows of a run of committed tokens; all layers and heads move  *)
(* together, so one row stands for all of them.  A row remembers which     *)
(* row of the target's hidden history it was computed from (src) and the   *)
(* rotary position it was computed at (pos).                               *)
(***************************************************************************)
EXTENDS Integers

CONSTANTS
    CacheContext,  \* draft_geom.cache_context: rows of the past KV inputs
    CacheArLen,    \* draft_geom.cache_ar_len: columns after the past ones
    Block          \* opt.block, also draft_geom.block and cache_delta

\* The geometry the draft graph is compiled for (128, 32 and 16): the delta
\* and the noise of a block fit behind the past, and a block fits in the past.
ASSUME WindowAssumption ==
    /\ CacheContext \in Nat /\ CacheArLen \in Nat /\ Block \in Nat \ {0}
    /\ Block <= CacheContext
    /\ 2 * Block <= CacheArLen

CacheDelta == Block

AtLeast(a, b) == IF a >= b THEN a ELSE b     \* std::max
AtMost(a, b)  == IF a <= b THEN a ELSE b     \* std::min

Slots == 0 .. CacheContext - 1
Row   == [src : Int, pos : Int]

\* A zeroed row, and what a zero-filled hidden row at position p computes.
ZeroRow      == [src |-> -1, pos |-> -1]
Unfed(p)     == [src |-> -1, pos |-> p]
TokenRow(t)  == [src |-> t, pos |-> t]

Window == [origin : Nat, tokens : 0 .. CacheContext, rows : [Slots -> Row]]

Reset(newOrigin) ==
    [origin |-> newOrigin, tokens |-> 0, rows |-> [r \in Slots |-> ZeroRow]]

EmptyWindow == Reset(0)

Newest(w) == w.origin + w.tokens             \* the next history row to cache

\* Mutant: the rows move up but the window keeps its old origin.
DropKeepsOrigin(w, drop) ==
    LET d == AtMost(drop, w.tokens)
        remain == w.tokens - d
    IN  IF drop <= 0 THEN w
        ELSE [origin |-> w.origin, tokens |-> remain,
              rows |-> [r \in Slots |-> IF r < remain THEN w.rows[r + d] ELSE ZeroRow]]

DropOldRows(w, drop) ==
    LET d == AtMost(drop, w.tokens)
        remain == w.tokens - d
    IN  IF drop <= 0 THEN w
        ELSE [origin |-> w.origin + d, tokens |-> remain,
              rows |-> [r \in Slots |-> IF r < remain THEN w.rows[r + d] ELSE ZeroRow]]

\* Mutant: rows are appended to a full window.
NoRoomMade(w, n) == w

MakeRoom(w, n) ==
    IF w.tokens + n > CacheContext THEN DropOldRows(w, w.tokens + n - CacheContext) ELSE w

StoreRows(w, present, n) ==
    [origin |-> w.origin, tokens |-> w.tokens + n,
     rows |-> [r \in Slots |-> IF r \in w.tokens .. w.tokens + n - 1
                               THEN present[r - w.tokens] ELSE w.rows[r]]]

(***************************************************************************)
(* appendOutputs: room is made first, then the first count rows of the     *)
(* graph's present outputs are stored behind the rows that stayed.         *)
(***************************************************************************)
AppendOutputs(w, present, count) ==
    LET n == AtLeast(0, AtMost(count, CacheContext))
    IN  IF n <= 0 THEN w ELSE StoreRows(MakeRoom(w, n), present, n)

\* buildRopeForCacheCurrent: position of column j behind the past rows; the
\* noise columns follow the delta rows that are really there.
RopePos(base, count, j) ==
    IF j < CacheDelta THEN base + j
    ELSE base + AtLeast(0, AtMost(count, CacheDelta)) + (j - CacheDelta)

\* Mutant: the queries do not skip the pending rows.
QueryAtBase(base, count, j) == base + j

\* buildRopeForPositions as fillDraftRopeInputs calls it: the queries.
QueryPos(base, count, j) == base + count + j

(***************************************************************************)
(* fillDraftTargetHiddenInput and the graph: delta column j carries the    *)
(* hidden row of history token start + j, or zeros behind the last row.    *)
(***************************************************************************)
Present(start, count, hist) ==
    [j \in 0 .. CacheDelta - 1 |->
        IF j < AtMost(count, CacheDelta) /\ start + j < hist
        THEN [src |-> start + j, pos |-> RopePos(start, count, j)]
        ELSE Unfed(RopePos(start, count, j))]

(***************************************************************************)
(* fillDraftCacheMaskScale: the columns every row of the block attends to. *)
(***************************************************************************)
PastColumns(cached)  == {c \in Slots : c < cached}
DeltaColumns(count)  == {j \in 0 .. CacheDelta - 1 : j < count}
NoiseColumns(noise)  == IF noise THEN CacheDelta .. CacheDelta + Block - 1 ELSE {}

\* What one execution of the draft graph attends to, and where its own
\* tokens sit.  w is the window when the inputs are filled.
Attended(w, start, count, hist) ==
    {w.rows[c] : c \in PastColumns(w.tokens)} \cup
    {Present(start, count, hist)[j] : j \in DeltaColumns(count)}

NoisePositions(start, count, noise) ==
    {RopePos(start, count, j) : j \in NoiseColumns(noise)}

(***************************************************************************)
(* syncDraftCacheToHistory, without its loop.                              *)
(***************************************************************************)
\* Mutant: the fill loop leaves nothing for the run.
FillAll(hist) == hist

PendingTarget(hist) == AtLeast(0, hist - CacheDelta)

\* Mutant: the window is never restarted closer to the end of a long prompt.
NeverRestart(w, hist) == w

Resynced(w, hist) ==
    LET v == IF hist < Newest(w) THEN Reset(0) ELSE w
    IN  IF PendingTarget(hist) - v.origin > CacheContext
        THEN Reset(AtLeast(0, PendingTarget(hist) - CacheContext)) ELSE v

\* Mutant: the last token of the fill range is left to a chunk of none.
ChunkShort(next, hist) == AtMost(CacheDelta, PendingTarget(hist) - next - 1)

ChunkCount(next, hist) == AtMost(CacheDelta, PendingTarget(hist) - next)

\* Mutant: one pending row too few.
PendingShort(w, hist) == AtMost(AtLeast(0, hist - Newest(w)), CacheDelta - 1)

PendingCount(w, hist) == AtMost(AtLeast(0, hist - Newest(w)), CacheDelta)
=============================================================================
