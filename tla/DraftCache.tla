------------------------------ MODULE DraftCache ------------------------------
(***************************************************************************)
(* The life of the draft window: before each draft run it is brought up to *)
(* the target's hidden history (syncDraftCacheToHistory), the run itself   *)
(* caches the rows it was fed, and the verify pass that follows appends    *)
(* between one and Block rows to the history.  Any graph execution may     *)
(* fail, which ends the program.  Only the number of history rows matters  *)
(* here; what they contain is the business of SpecDecode, which implements *)
(* this module.                                                            *)
(***************************************************************************)
EXTENDS DraftWindow

CONSTANTS
    Prompts,       \* possible numbers of prompt tokens
    MaxNew         \* opt.max_new

ASSUME PromptAssumption == Prompts \subseteq Nat \ {0} /\ MaxNew \in Nat

VARIABLES
    hist,          \* rows of target_hidden_history
    budget,        \* max_new - generated.size()
    dc,            \* draft_cache: origin, tokens, rows
    next,          \* next_token of the fill loop
    round,         \* rounds
    pc

vars == <<hist, budget, dc, next, round, pc>>

Init ==
    /\ hist \in Prompts
    /\ budget = MaxNew
    /\ dc = EmptyWindow
    /\ next = 0
    /\ round = 0
    /\ pc = "commit"

SyncStart ==
    /\ pc = "commit" /\ budget > 0
    /\ dc' = Resynced(dc, hist)
    /\ next' = Newest(dc')
    /\ round' = round + 1
    /\ pc' = "fill"
    /\ UNCHANGED <<hist, budget>>

Filling == pc = "fill" /\ next < PendingTarget(hist)

\* runDraftCacheFillChunk: no noise, the present rows are kept.
FillChunk ==
    LET count == ChunkCount(next, hist) IN
    /\ Filling
    /\ dc' = AppendOutputs(dc, Present(next, count, hist), count)
    /\ next' = next + count
    /\ UNCHANGED <<hist, budget, round, pc>>

\* The loop has ended: the draft graph sees the window and the pending rows.
AtRun == pc = "fill" /\ next >= PendingTarget(hist)

DraftRun ==
    /\ AtRun
    /\ dc' = AppendOutputs(dc, Present(Newest(dc), PendingCount(dc, hist), hist),
                           PendingCount(dc, hist))
    /\ pc' = "verify"
    /\ UNCHANGED <<hist, budget, next, round>>

Verify(n) ==
    /\ pc = "verify"
    /\ n <= budget
    /\ hist' = hist + n
    /\ budget' = budget - n
    /\ pc' = "commit"
    /\ UNCHANGED <<dc, next, round>>

\* Before the first round it is the prefill that may have failed.
ExecuteFails ==
    /\ pc \in {"fill", "verify"} \/ (pc = "commit" /\ round = 0)
    /\ pc' = "failed"
    /\ UNCHANGED <<hist, budget, dc, next, round>>

Over == pc = "failed" \/ (pc = "commit" /\ budget = 0)

Terminating == Over /\ UNCHANGED vars

Step ==
    \/ SyncStart \/ FillChunk \/ DraftRun
    \/ \E n \in 1 .. Block : Verify(n)

Next == Step \/ ExecuteFails \/ Terminating

Spec == Init /\ [][Next]_vars

\* One thread runs to the end unless an execution fails: it never waits.  A
\* failure is never owed, so fairness is asked of the successful steps only.
FairSpec == Spec /\ WF_vars(Step)
-----------------------------------------------------------------------------
TypeOK ==
    /\ hist \in Nat /\ budget \in 0 .. MaxNew
    /\ dc \in Window
    /\ next \in Nat /\ round \in Nat
    /\ pc \in {"commit", "fill", "verify", "failed"}

(***************************************************************************)
(* Row r of the window belongs to history token origin + r and was rotated *)
(* for that position; behind the cached rows there are only zeros; and the *)
(* window never runs ahead of the history.  dropOldRows and appendOutputs  *)
(* keep three quantities in step (origin, tokens, the moved rows), over    *)
(* any sequence of chunks, runs and accepted lengths.                      *)
(***************************************************************************)
WindowAligned ==
    /\ \A r \in Slots : dc.rows[r] = IF r < dc.tokens THEN TokenRow(dc.origin + r)
                                     ELSE ZeroRow
    /\ Newest(dc) <= hist

(***************************************************************************)
(* When the draft graph runs, it attends to exactly the history from some  *)
(* token on, without a gap or a repeat, each at its own position, and its  *)
(* own block starts at the position after the last one.  If any token is   *)
(* left out, at least CacheContext of them are attended to.                *)
(***************************************************************************)
DraftSeesHistory ==
    AtRun =>
        LET start == Newest(dc)
            count == PendingCount(dc, hist)
        IN  /\ Attended(dc, start, count, hist) = {TokenRow(t) : t \in dc.origin .. hist - 1}
            /\ NoisePositions(start, count, TRUE) = hist .. hist + Block - 1
            /\ \A j \in 0 .. Block - 1 : QueryPos(start, count, j) = hist + j
            /\ dc.origin = 0 \/ hist - dc.origin >= CacheContext

\* After the run every committed token is cached, or was dropped for a newer
\* one: the next sync starts from the rows the verify pass has just added.
CaughtUp == pc = "verify" => Newest(dc) = hist

(***************************************************************************)
(* The fill loop works in the first round only, on the prompt: afterwards  *)
(* a round adds at most a block of history, which the run itself caches.   *)
(* An extra draft execution per round is a loss no output would show.      *)
(***************************************************************************)
FillsPromptOnly == round > 1 => ~Filling

\* Filling never throws a cached row away: the restart has made the room.
FillKeepsRows == [][FillChunk => dc'.origin = dc.origin]_vars

\* The fill loop ends: every sync leads to a verify pass or to a failure.
SyncEnds == (pc = "fill") ~> (pc \in {"verify", "failed"})
=============================================================================
