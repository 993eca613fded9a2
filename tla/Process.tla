------------------------------- MODULE Process -------------------------------
(***************************************************************************)
(* One run of dflash-runtime, main and runDecodeTyped of                   *)
(* runtime/dflash_runtime.cpp: what it reads, in which order, with which   *)
(* status it ends and what it has printed by then.  The rounds of the      *)
(* decode belong to SpecDecode; here the passes of the target and of the   *)
(* draft move the caches between buffers (TargetBinding, DraftBinding).    *)
(*                                                                         *)
(* A file that is there may still be unreadable, too small or not what it  *)
(* should be, and every call of the driver may fail (QnnRuntime).          *)
(***************************************************************************)
EXTENDS TargetBinding, DraftBinding

CONSTANTS
    Targets,      \* what the target's contexts may hold: two graphs, by side
    Drafts,       \* graphs the draft's context may hold
    MaxChunks,    \* bound: prefill chunks of a prompt
    MaxRounds     \* bound: rounds of the decode

ASSUME ProcessAssumption ==
    /\ MaxChunks \in Nat \ {0} /\ MaxRounds \in Nat
    /\ Targets \subseteq [prefill : TargetGraph, verify : TargetGraph]
    /\ Drafts \subseteq DraftGraph

VARIABLES
    folder,     \* files in the working directory
    options,    \* the command line and the environment
    stage,      \* what main does next
    loads,      \* contexts it has still to load
    target,     \* the graphs of the target's contexts
    left,       \* chunks or rounds left
    printed,    \* what it has printed
    status      \* what it has exited with

process == <<options, stage, loads, target, left, printed, status, binds, drafts>>

\* Commands that parseOptions understands ("complete"), refuses, or answers
\* with its usage.
Options ==
    [arguments : {"complete", "refused", "help"},
     prompt    : {"txt", "ids"},              \* --prompt_file or --tokens
     split     : BOOLEAN,                     \* --target_prefill and --target_verify
     dtype     : {"uint8", "uint16", "other"},
     tokens    : BOOLEAN,                     \* DFLASH_PRINT_TOKENS is 1
     text      : BOOLEAN]                     \* DFLASH_DECODE_TEXT is not 0

NoOptions == [arguments |-> "help", prompt |-> "ids", split |-> FALSE, dtype |-> "other",
              tokens |-> FALSE, text |-> FALSE]

Stages == {"none", "parse", "prompt", "load", "embedding", "dtype", "sessions", "prefill", "prefill run",
           "prefill read", "draft", "verify", "verify run", "verify read", "tokens", "text",
           "summary", "ended"}

ProcessInit ==
    /\ BindsInit /\ DraftNone
    /\ options = NoOptions /\ stage = "none" /\ loads = << >> /\ target = << >>
    /\ left = 0 /\ printed = {} /\ status = 0

Start(given) ==
    /\ stage = "none"
    /\ options' = given /\ stage' = "parse"
    /\ UNCHANGED <<loads, target, left, printed, status, binds, drafts>>

\* What is left of it is up to who has waited for it.
Gone ==
    /\ stage = "ended"
    /\ BindsReset /\ DraftGone
    /\ options' = NoOptions /\ stage' = "none" /\ loads' = << >> /\ target' = << >>
    /\ left' = 0 /\ printed' = {} /\ status' = 0

Return(code) ==
    /\ stage' = "ended" /\ status' = code
    /\ UNCHANGED <<options, loads, target, left, printed, binds, drafts>>

\* An exception reaches main: it tells why and prints the usage.
Throw ==
    /\ stage' = "ended" /\ status' = 2
    /\ printed' = printed \cup {"fatal"}
    /\ UNCHANGED <<options, loads, target, left, binds, drafts>>

Continue(next, lines) ==
    /\ stage' = next /\ printed' = printed \cup lines
    /\ UNCHANGED <<options, status>>

Parse ==
    /\ stage = "parse"
    /\ \/ options.arguments = "help" /\ Return(0)
       \/ options.arguments = "refused" /\ Throw
       \/ /\ options.arguments = "complete"
          /\ Continue("prompt", {})
          /\ UNCHANGED <<loads, target, left, binds, drafts>>

\* A prompt file is tokenized and framed, a token file must hold an id: there
\* is always a token to prefill.
ReadPrompt ==
    /\ stage = "prompt"
    /\ \/ /\ options.prompt = "txt" => "tokenizer.json" \in folder
          /\ loads' = IF options.split THEN <<"target_prefill", "target_verify", "draft">>
                                       ELSE <<"target", "draft">>
          /\ target' \in Targets
          /\ Continue("load", IF options.prompt = "txt" THEN {"tokenized"} ELSE {})
          /\ UNCHANGED <<left, binds, drafts>>
       \/ Throw

\* open needs the libraries, and it or the driver may fail.  The context is
\* read only then, and one that is not there, cannot be read or describes its
\* graphs in no version that is known throws.
LoadRuntime ==
    /\ stage = "load"
    /\ \/ /\ {Head(loads), "libQnn.so"} \subseteq folder
          /\ loads' = Tail(loads)
          /\ Continue(IF Len(loads) = 1 THEN "embedding" ELSE "load", {})
          /\ UNCHANGED <<target, left, binds, drafts>>
       \/ Return(1)
       \/ "libQnn.so" \in folder /\ Throw

LoadEmbedding ==
    /\ stage = "embedding"
    /\ \/ /\ "embedding.fp16.bin" \in folder
          /\ Continue("dtype", {"loaded"})
          /\ UNCHANGED <<loads, target, left, binds, drafts>>
       \/ Throw

CheckDtype ==
    /\ stage = "dtype"
    /\ \/ /\ options.dtype \in {"uint8", "uint16"}
          /\ Continue("sessions", {})
          /\ UNCHANGED <<loads, target, left, binds, drafts>>
       \/ options.dtype = "other" /\ Throw

\* A session throws for a graph that is not there and fails for one without
\* tensors.
OpenTarget(side) ==
    /\ stage = "sessions"
    /\ DOMAIN graphs = IF side = "prefill" THEN {} ELSE {"prefill"}
    /\ \/ /\ SessionInit(side, target[side])
          /\ Continue("sessions", {})
          /\ UNCHANGED <<loads, target, left, drafts>>
       \/ Throw
       \/ Return(1)

OpenDraft ==
    /\ stage = "sessions" /\ DOMAIN graphs = {"prefill", "verify"}
    /\ \/ /\ left' \in 1 .. MaxChunks
          /\ \E graph \in Drafts : DraftInit(graph)
          /\ Continue("prefill", {})
          /\ UNCHANGED <<loads, target, binds>>
       \/ Throw
       \/ Return(1)

PrefillFill ==
    /\ stage = "prefill" /\ left > 0
    /\ FillInputs("prefill")
    /\ Continue("prefill run", {})
    /\ UNCHANGED <<loads, target, left, drafts>>

PrefillRun ==
    /\ stage = "prefill run"
    /\ \/ Execute("prefill") /\ Continue("prefill read", {}) /\ UNCHANGED <<loads, target, left, drafts>>
       \/ Return(1)

PrefillRead ==
    /\ stage = "prefill read"
    /\ ReadOutputs("prefill")
    /\ left' = left - 1
    /\ Continue("prefill", {})
    /\ UNCHANGED <<loads, target, drafts>>

\* The decode ends when max_new tokens are chosen, which takes any number of
\* rounds.
BindVerify ==
    /\ stage = "prefill" /\ left = 0
    /\ Bind
    /\ left' \in 0 .. MaxRounds
    /\ Continue("draft", {})
    /\ UNCHANGED <<loads, target, drafts>>

\* The passes of the draft; one without an output is an error.
Draft ==
    /\ stage = "draft" /\ left > 0
    /\ \/ /\ draft.outputs # << >>
          /\ DraftExecute
          /\ Continue("verify", {}) /\ UNCHANGED <<loads, target, left, binds>>
       \/ Return(1)
       \/ Throw

VerifyFill ==
    /\ stage = "verify"
    /\ FillInputs("verify")
    /\ Continue("verify run", {})
    /\ UNCHANGED <<loads, target, left, drafts>>

VerifyRun ==
    /\ stage = "verify run"
    /\ \/ Execute("verify") /\ Continue("verify read", {}) /\ UNCHANGED <<loads, target, left, drafts>>
       \/ Return(1)

VerifyRead ==
    /\ stage = "verify read"
    /\ ReadOutputs("verify")
    /\ left' = left - 1
    /\ Continue("draft", {})
    /\ UNCHANGED <<loads, target, drafts>>

Decoded ==
    /\ stage = "draft" /\ left = 0
    /\ Continue("tokens", {})
    /\ UNCHANGED <<loads, target, left, binds, drafts>>

PrintTokens ==
    /\ stage = "tokens"
    /\ Continue("text", IF options.tokens THEN {"tokens"} ELSE {})
    /\ UNCHANGED <<loads, target, left, binds, drafts>>

PrintsText == options.prompt = "txt" /\ options.text

\* text_printer loads the tokenizer once more.
PrintText ==
    /\ stage = "text"
    /\ \/ /\ PrintsText => "tokenizer.json" \in folder
          /\ Continue("summary", IF PrintsText THEN {"text"} ELSE {})
          /\ UNCHANGED <<loads, target, left, binds, drafts>>
       \/ PrintsText /\ Throw

PrintSummary ==
    /\ stage = "summary"
    /\ stage' = "ended" /\ status' = 0
    /\ printed' = printed \cup {"summary"}
    /\ UNCHANGED <<options, loads, target, left, binds, drafts>>

ProcessNext ==
    \/ Parse \/ ReadPrompt \/ LoadRuntime \/ LoadEmbedding \/ CheckDtype
    \/ \E side \in {"prefill", "verify"} : OpenTarget(side)
    \/ OpenDraft
    \/ PrefillFill \/ PrefillRun \/ PrefillRead
    \/ BindVerify
    \/ Draft \/ VerifyFill \/ VerifyRun \/ VerifyRead
    \/ Decoded \/ PrintTokens \/ PrintText \/ PrintSummary
-----------------------------------------------------------------------------
ProcessTypeOK ==
    /\ options \in Options
    /\ stage \in Stages
    /\ left \in 0 .. (MaxChunks + MaxRounds)
    /\ printed \subseteq {"tokenized", "loaded", "tokens", "text", "summary", "fatal"}
    /\ status \in {0, 1, 2}
    /\ DOMAIN graphs = DOMAIN binding

(***************************************************************************)
(* Whatever order and names a target's tensors have, provided that all of  *)
(* them have names in both graphs or none has and each stands where the    *)
(* code expects it: when a graph runs, every cache input of a layer holds  *)
(* what that layer, and not another, made in the pass before, through the  *)
(* change of graph and of storage after the prefill; and the hidden        *)
(* history gets the taps and nothing of the cache.  That the index of      *)
(* layer 0 is not found moves every layer to another slot, but to the same *)
(* one everywhere.  And every input of a draft graph gets what it is for,  *)
(* found by its place or by its size alone, a cache input what the same    *)
(* layer and head made before.                                             *)
(***************************************************************************)
LayersPaired ==
    /\ ExportedAlike =>
        /\ stage = "prefill run" => Fed("prefill")
        /\ stage = "verify run" => Fed("verify")
        /\ stage \in {"prefill", "draft"} /\ pass > 0 => \E side \in DOMAIN graphs : HiddenFromTaps(side)
    /\ stage = "verify" /\ Supported(draft) => DraftFedRight
=============================================================================
