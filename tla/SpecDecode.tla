------------------------------ MODULE SpecDecode ------------------------------
(***************************************************************************)
(* One run of runDecodeTyped (src/runtime/dflash_runtime.cpp): the prompt  *)
(* is prefilled in chunks; then each round lets the draft graph propose a  *)
(* block of tokens behind the current one, verifies the block with one     *)
(* execution of the target, accepts a prefix of it, and commits that       *)
(* prefix to the output, to the KV cache and to the hidden history.        *)
(*                                                                         *)
(* A cache column or a history row is represented by the token sequence it *)
(* was computed from.  The target graph (external) computes, for each new  *)
(* position, from what the attention mask shows it: the first pos columns  *)
(* and the new tokens up to that position.  The memory layout behind the   *)
(* columns is KvCache, the scans behind RankAccept are LogitScan, and the  *)
(* draft window is DraftWindow, whose life DraftCache describes.           *)
(***************************************************************************)
EXTENDS DraftWindow, LogitSampler, Sequences

CONSTANTS
    Prompts,       \* prompt token sequences
    Models,        \* target models
    Logit(_, _),   \* Logit(model, context): the target's logits after it
    DraftTokens,   \* what the draft graph may return as a token
    MaskToken,     \* opt.mask_token
    MaxNew,        \* opt.max_new
    TopK,          \* opt.accept_topk
    PrefillSeq,    \* opt.prefill_seq
    VerifySeq,     \* opt.verify_seq
    ContextLen,    \* opt.context_len
    CacheAware     \* the draft graph has past-KV inputs

ASSUME DecodeAssumption ==
    /\ Prompts \subseteq Seq(Int) \ {<< >>}
    /\ DraftTokens \subseteq Int /\ MaskToken \in Int
    /\ MaxNew \in Nat /\ TopK \in Int
    /\ PrefillSeq \in Nat \ {0} /\ VerifySeq \in Nat \ {0} /\ ContextLen \in Nat
    /\ CacheAware \in BOOLEAN

\* The runtime does not check that the conversation fits in the context; the
\* exported graphs and the prompts are chosen so that it does.
ASSUME CapacityAssumption ==
    \A p \in Prompts : /\ Len(p) <= ContextLen - PrefillSeq
                       /\ Len(p) + MaxNew <= ContextLen - VerifySeq

Columns == 0 .. ContextLen - VerifySeq - 1

\* A column computed from a past that is not a prefix of one conversation.
Junk == <<-1>>

VARIABLES
    model, prompt,
    pc,
    offset,        \* prompt_offset
    pos,           \* pos: n_past and the first position id of the next pass
    kv,            \* target_cache: what each column was computed from
    history,       \* target_hidden_history: the same for each hidden row
    current,       \* current_token
    generated,
    drafted,       \* seed_and_draft
    dc, next,      \* the draft window and its fill loop
    round,         \* rounds
    acceptedDraft, \* accepted_draft_tokens
    draftTotal,    \* draft_tokens_total
    printed        \* outputs printed so far, in order: as ids or as text

vars == <<model, prompt, pc, offset, pos, kv, history, current, generated, drafted,
          dc, next, round, acceptedDraft, draftTotal, printed>>

input  == <<model, prompt>>
target == <<offset, pos, kv, history, current, generated>>
window == <<dc, next>>
tally  == <<round, acceptedDraft, draftTotal>>

Init ==
    /\ model \in Models /\ prompt \in Prompts
    /\ pc = "prefill"
    /\ offset = 0 /\ pos = 0
    /\ kv = [c \in Columns |-> Junk]
    /\ history = << >>
    /\ current = prompt[Len(prompt)]
    /\ generated = << >> /\ drafted = << >>
    /\ dc = EmptyWindow /\ next = 0
    /\ round = 0 /\ acceptedDraft = 0 /\ draftTotal = 0
    /\ printed = << >>
-----------------------------------------------------------------------------
(***************************************************************************)
(* One execution of a target graph (external).                             *)
(***************************************************************************)
Past == IF pos = 0 THEN << >> ELSE kv[pos - 1]

PastCoherent == \A c \in 0 .. pos - 1 : kv[c] = SubSeq(Past, 1, c + 1)

\* The tokens that new position i of a block was computed from.
Seen(block, i) == IF PastCoherent THEN Past \o SubSeq(block, 1, i + 1) ELSE Junk

Logits(block, rows) == [i \in 0 .. rows - 1 |-> Logit(model, Seen(block, i))]

\* A block shorter than the graph is padded with the mask token.
Padded(tokens, len) ==
    [i \in 1 .. len |-> IF i <= Len(tokens) THEN tokens[i] ELSE MaskToken]

\* Mutant: the column of the last committed token is left to the next round.
UpdateOneShort(block, n) ==
    [c \in Columns |-> IF c \in pos .. pos + n - 2 THEN Seen(block, c - pos) ELSE kv[c]]

\* target_cache.update, after the pass over block.
Updated(block, n) ==
    [c \in Columns |-> IF c \in pos .. pos + n - 1 THEN Seen(block, c - pos) ELSE kv[c]]

\* Mutant: the rows of the whole pass are kept, whatever was accepted.
HiddenWholePass(block, n) == history \o [i \in 1 .. Len(block) |-> Seen(block, i - 1)]

\* appendTargetHidden(session, ar_len, 0, n, ...)
WithHidden(block, n) == history \o [i \in 1 .. n |-> Seen(block, i - 1)]
-----------------------------------------------------------------------------
PrefillChunk ==
    LET chunk == AtMost(PrefillSeq, Len(prompt) - offset)
        block == Padded(SubSeq(prompt, offset + 1, offset + chunk), PrefillSeq)
    IN
    /\ pc = "prefill"
    /\ offset < Len(prompt)
    /\ kv' = Updated(block, chunk)
    /\ history' = WithHidden(block, chunk)
    /\ current' = ArgMaxAt(Logits(block, PrefillSeq), chunk - 1)
    /\ pos' = pos + chunk
    /\ offset' = offset + chunk
    /\ UNCHANGED <<input, pc, generated, drafted, window, tally, printed>>

\* The storage is bound to the verify graph: see KvCache.
PrefillDone ==
    /\ pc = "prefill"
    /\ offset >= Len(prompt)
    /\ pc' = "round"
    /\ UNCHANGED <<input, target, drafted, window, tally, printed>>

MoreWanted == Len(generated) < MaxNew

\* A round with a cache-aware draft: the window is resynced, then filled.
StartRound ==
    /\ pc = "round" /\ MoreWanted
    /\ Block > 1 /\ CacheAware
    /\ round' = round + 1
    /\ dc' = Resynced(dc, Len(history))
    /\ next' = Newest(dc')
    /\ pc' = "fill"
    /\ UNCHANGED <<input, target, drafted, acceptedDraft, draftTotal, printed>>

FillChunk ==
    LET count == ChunkCount(next, Len(history)) IN
    /\ pc = "fill"
    /\ next < PendingTarget(Len(history))
    /\ dc' = AppendOutputs(dc, Present(next, count, Len(history)), count)
    /\ next' = next + count
    /\ UNCHANGED <<input, pc, target, drafted, tally, printed>>

\* Mutant: the run's own rows are not kept.
NotAppended == dc

AfterRun ==
    AppendOutputs(dc, Present(Newest(dc), PendingCount(dc, Len(history)), Len(history)),
                  PendingCount(dc, Len(history)))

\* The proposals are arbitrary: the draft graph is external.
Drafts == [1 .. Block - 1 -> DraftTokens]

DraftRun ==
    /\ pc = "fill"
    /\ next >= PendingTarget(Len(history))
    /\ dc' = AfterRun
    /\ \E d \in Drafts : drafted' = <<current>> \o d
    /\ pc' = "verify"
    /\ UNCHANGED <<input, target, next, tally, printed>>

\* A draft graph without past-KV inputs keeps no window.
StandardDraft ==
    /\ pc = "round" /\ MoreWanted
    /\ Block > 1 /\ ~CacheAware
    /\ round' = round + 1
    /\ pc' = "draft"
    /\ UNCHANGED <<input, target, drafted, window, acceptedDraft, draftTotal, printed>>

StandardRun ==
    /\ pc = "draft"
    /\ \E d \in Drafts : drafted' = <<current>> \o d
    /\ pc' = "verify"
    /\ UNCHANGED <<input, target, window, tally, printed>>

\* With a block of one nothing is drafted.
SeedOnly ==
    /\ pc = "round" /\ MoreWanted
    /\ Block = 1
    /\ round' = round + 1
    /\ drafted' = <<current>>
    /\ pc' = "verify"
    /\ UNCHANGED <<input, target, window, acceptedDraft, draftTotal, printed>>
-----------------------------------------------------------------------------
VerifyCount == AtMost(VerifySeq, Len(drafted))

VerifyBlock == Padded(SubSeq(drafted, 1, VerifyCount), VerifySeq)

VerifyLogits == Logits(VerifyBlock, VerifySeq)

\* Candidate i is looked at as long as the budget is not used up without it.
Tested(i) == i \in 1 .. VerifyCount - 1 /\ Len(generated) + i - 1 < MaxNew

\* Mutant: candidate i is ranked by the row it produced, not the one before.
RankByOwnRow(i) == RankAccept(VerifyLogits, i, drafted[i + 1], TopK)

Rank(i) == RankAccept(VerifyLogits, i - 1, drafted[i + 1], TopK)

\* The accept loop ends with accepted_inputs = a.
AcceptsUpTo(a) ==
    /\ \A i \in 1 .. a - 1 : Tested(i) /\ Rank(i).accepted
    /\ Tested(a) => ~Rank(a).accepted

\* Mutant: the correction is read one row further.
CorrectionPast(a) == ArgMaxAt(VerifyLogits, a)

\* next_current: the argmax the ranking has left behind, or a new scan.
NextCurrent(a) ==
    IF Tested(a) THEN Rank(a).argmax ELSE ArgMaxAt(VerifyLogits, a - 1)

\* Mutant: the budget is not looked at when committing.
AllAccepted(a) == a

NewTokens(a) == AtMost(a, MaxNew - Len(generated))

\* Mutant: accepted proposals that the budget cut off are counted.
CountedUncut(a) == a - 1

AcceptedNow(a) == AtLeast(0, NewTokens(a) - 1)

VerifyAndCommit(a) ==
    /\ pc = "verify"
    /\ AcceptsUpTo(a)
    /\ generated' = generated \o SubSeq(drafted, 1, NewTokens(a))
    /\ current' = NextCurrent(a)
    /\ acceptedDraft' = acceptedDraft + AcceptedNow(a)
    /\ draftTotal' = draftTotal + AtLeast(0, VerifyCount - 1)
    /\ kv' = Updated(VerifyBlock, NewTokens(a))
    /\ history' = WithHidden(VerifyBlock, NewTokens(a))
    /\ pos' = pos + NewTokens(a)
    /\ drafted' = << >>
    /\ pc' = "round"
    /\ UNCHANGED <<input, offset, window, round, printed>>

AsIds  == <<"ids", generated>>
AsText == <<"text", generated>>

\* The loop is left.  DFLASH_PRINT_TOKENS asks for the ids.
PrintTokens ==
    /\ pc = "round" /\ ~MoreWanted
    /\ \E asked \in BOOLEAN :
            printed' = IF asked THEN Append(printed, AsIds) ELSE printed
    /\ pc' = "text"
    /\ UNCHANGED <<input, target, drafted, window, tally>>

\* text_printer, when there is one, and the summary.
Finish ==
    /\ pc = "text"
    /\ \E printer \in BOOLEAN :
            printed' = IF printer THEN Append(printed, AsText) ELSE printed
    /\ pc' = "done"
    /\ UNCHANGED <<input, target, drafted, window, tally>>

\* Any execution may fail: false is returned or an exception thrown, and the
\* process ends with a non-zero status before anything is printed.
ExecuteFails ==
    /\ pc \in {"fill", "draft", "verify"} \/ (pc = "prefill" /\ offset < Len(prompt))
    /\ pc' = "failed"
    /\ UNCHANGED <<input, target, drafted, window, tally, printed>>

\* text_printer loads the tokenizer again and throws when it cannot: the
\* process ends with a non-zero status after the ids are printed.
PrintFails ==
    /\ pc = "text"
    /\ pc' = "failed"
    /\ UNCHANGED <<input, target, drafted, window, tally, printed>>

Terminating == pc \in {"done", "failed"} /\ UNCHANGED vars

Step ==
    \/ PrefillChunk \/ PrefillDone
    \/ StartRound \/ FillChunk \/ DraftRun
    \/ StandardDraft \/ StandardRun \/ SeedOnly
    \/ \E a \in 1 .. VerifySeq : VerifyAndCommit(a)
    \/ PrintTokens \/ Finish

Next == Step \/ ExecuteFails \/ PrintFails \/ Terminating

Spec == Init /\ [][Next]_vars

\* A single thread: it goes on as long as it can.  Failures are never owed.
FairSpec == Spec /\ WF_vars(Step)
-----------------------------------------------------------------------------
\* The conversation committed so far.
Committed == SubSeq(prompt, 1, offset) \o generated

Top1After(tokens) == ArgMax(Logit(model, prompt \o tokens))

TypeOK ==
    /\ model \in Models /\ prompt \in Prompts
    /\ pc \in {"prefill", "round", "fill", "draft", "verify", "text", "done", "failed"}
    /\ offset \in 0 .. Len(prompt) /\ pos \in 0 .. ContextLen - VerifySeq
    /\ DOMAIN kv = Columns
    /\ current \in Int
    /\ generated \in Seq(Int) /\ Len(generated) <= MaxNew
    /\ drafted \in Seq(Int) /\ Len(drafted) <= Block
    /\ round \in Nat /\ acceptedDraft \in Nat /\ draftTotal \in Nat
    /\ printed \in {<< >>, <<AsIds>>, <<AsText>>, <<AsIds, AsText>>}

(***************************************************************************)
(* Every column the next pass attends to was computed from exactly the     *)
(* conversation up to its position.  Rejected proposals leave columns      *)
(* behind; the position counter must never let one of them in.             *)
(***************************************************************************)
CacheIsConversation ==
    /\ pos = Len(Committed)
    /\ \A c \in 0 .. pos - 1 : kv[c] = SubSeq(Committed, 1, c + 1)

\* The hidden rows the draft is conditioned on are those of the same tokens,
\* one per token: none of a rejected proposal, of padding, or twice.
HistoryIsConversation ==
    /\ Len(history) = Len(Committed)
    /\ \A i \in 1 .. Len(history) : history[i] = SubSeq(Committed, 1, i)

(***************************************************************************)
(* Whenever another token is wanted, the current token is the target's own *)
(* choice after the whole conversation (docs/deploy.md: "target output     *)
(* top-1"), whichever way the previous round ended.                        *)
(***************************************************************************)
CurrentIsTop1 ==
    pc \in {"round", "fill", "draft", "verify"} /\ MoreWanted =>
        current = Top1After(generated)

(***************************************************************************)
(* Each round commits its seed and the accepted proposals, so the counters *)
(* printed in the summary account for every token of the output.           *)
(***************************************************************************)
Completed == IF pc \in {"fill", "draft", "verify"} THEN round - 1 ELSE round

CountersAccount ==
    pc # "failed" =>
        /\ Len(generated) = Completed + acceptedDraft
        /\ acceptedDraft <= draftTotal

(***************************************************************************)
(* With --accept_topk 1 speculation changes nothing but speed: the output  *)
(* is what the target alone would have produced greedily.  With --block 1  *)
(* there is nothing to accept, whatever the policy.                        *)
(***************************************************************************)
GreedyOutput ==
    TopK = 1 \/ Block = 1 => \A i \in 1 .. Len(generated) :
                    generated[i] = Top1After(SubSeq(generated, 1, i - 1))

Terminates == <>(pc \in {"done", "failed"})
-----------------------------------------------------------------------------
\* The run seen from outside.
Stream == INSTANCE TokenStream WITH
    status <- IF pc \in {"done", "failed"} THEN pc ELSE "running"

ImplementsStream == Stream!Spec

\* The run seen from the draft window: it starts when the prompt is in, and
\* ends when no more tokens are wanted, whatever becomes of the printing.
WindowLife == INSTANCE DraftCache WITH
    Prompts <- {Len(p) : p \in Prompts},
    hist    <- IF offset < Len(prompt) THEN Len(prompt) ELSE Len(history),
    budget  <- MaxNew - Len(generated),
    pc      <- IF pc \in {"fill", "verify"} \/ (pc = "failed" /\ MoreWanted)
                   THEN pc ELSE "commit"

ImplementsWindowLife == WindowLife!Spec
=============================================================================
