----------------------------- MODULE TokenStream -----------------------------
(***************************************************************************)
(* What a speculative decoder promises, without its caches, blocks and     *)
(* counters.  The output grows by runs.  The first token of a run is the   *)
(* target model's own choice after everything before it; each further one  *)
(* is among the target's TopK choices at its place.  Nothing is printed    *)
(* before the output is complete: then its ids may be, once, and after     *)
(* them its text, once.  A run may fail at any time; one that fails before *)
(* its output is complete has printed nothing, one that fails later has    *)
(* printed no text.                                                        *)
(***************************************************************************)
EXTENDS LogitSampler, Sequences

CONSTANTS
    Prompts,       \* token sequences a prompt file can hold
    Models,        \* target models
    Logit(_, _),   \* Logit(model, context): the row after that context
    TopK,          \* opt.accept_topk
    MaxNew         \* opt.max_new

VARIABLES model, prompt, generated, printed, status

stream == <<model, prompt, generated, printed, status>>

RowAfter(tokens) == Logit(model, prompt \o tokens)

Init ==
    /\ model \in Models /\ prompt \in Prompts
    /\ generated = << >>
    /\ printed = << >>
    /\ status = "running"

\* run[i] stands where the target has seen the prompt, the output and run[1 .. i-1].
RowAt(run, i) == RowAfter(generated \o SubSeq(run, 1, i - 1))

Emit(run) ==
    /\ status = "running"
    /\ Len(run) \in 1 .. MaxNew - Len(generated)
    /\ run[1] = ArgMax(RowAt(run, 1))
    /\ \A i \in 2 .. Len(run) : TokenInTopK(RowAt(run, i), run[i], TopK)
    /\ generated' = generated \o run
    /\ UNCHANGED <<model, prompt, printed, status>>

NewTail == SubSeq(generated', Len(generated) + 1, Len(generated'))

Complete == Len(generated) = MaxNew

PrintIds ==
    /\ status = "running" /\ Complete
    /\ printed = << >>
    /\ printed' = << <<"ids", generated>> >>
    /\ UNCHANGED <<model, prompt, generated, status>>

Finish ==
    /\ status = "running" /\ Complete
    /\ printed' \in {printed, Append(printed, <<"text", generated>>)}
    /\ status' = "done"
    /\ UNCHANGED <<model, prompt, generated>>

Fail ==
    /\ status = "running"
    /\ status' = "failed"
    /\ UNCHANGED <<model, prompt, generated, printed>>

Next == Emit(NewTail) \/ PrintIds \/ Finish \/ Fail

Spec == Init /\ [][Next]_stream
=============================================================================
