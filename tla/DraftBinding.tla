---------------------------- MODULE DraftBinding ----------------------------
(***************************************************************************)
(* Which input of a draft graph gets what, and which output is kept where  *)
(* (buildDraftTensorBinding of src/runtime_io.cpp, fillStandardInputs, the *)
(* cache-aware path of runDecodeTyped and DraftCacheState).  A graph with  *)
(* as many tensors as a cache-aware one has is taken for one, and all its  *)
(* tensors by place; any other is read by the sizes of its inputs.         *)
(***************************************************************************)
EXTENDS Integers, Sequences, FiniteSetsExt, Functions

CONSTANT Geometry    \* DraftTensorGeometry; kv_heads and head_dim are the same

\* With a block of one nothing is drafted, and the graph never runs.
ASSUME GeometryAssumption ==
    /\ DOMAIN Geometry = {"block", "context_len", "target_hidden", "draft_hidden", "num_layers",
                          "num_heads", "head_dim", "cache_ar_len"}
    /\ \A f \in DOMAIN Geometry : Geometry[f] \in Nat \ {0}
    /\ Geometry.block > 1

\* What an input is for; of a cache tensor, its layer and head.
Use(part, layer, head) == [part |-> part, layer |-> layer, head |-> head]

Lone(part) == Use(part, 0, 0)

DraftCacheTensors == Geometry.num_layers * Geometry.num_heads * 2

CacheAware(graph) ==
    Len(graph.inputs) = 8 + DraftCacheTensors /\ Len(graph.outputs) = 1 + DraftCacheTensors

Numel(dims) == FoldFunction(LAMBDA a, b : a * b, 1, dims)

AllPositions == Geometry.context_len + Geometry.block

\* The class of an input, by its type and its dimensions: the first that fits.
Class(input) ==
    LET n == Numel(input.dims) IN
    IF input.int \/ n = AllPositions THEN "position"
    ELSE IF n = Geometry.block * Geometry.draft_hidden THEN "noise"
    ELSE IF n = Geometry.context_len * Geometry.target_hidden THEN "target_hidden"
    ELSE IF input.dims = <<Geometry.cache_ar_len, Geometry.head_dim>> THEN "full_rope"
    ELSE IF input.dims = <<Geometry.block, Geometry.head_dim>> THEN "q_rope"
    ELSE IF input.dims = <<Geometry.block, AllPositions>> \/ Len(input.dims) = 4 THEN "mask_scale"
    ELSE "none"

\* Inputs of a class that holds one have the last, the mask and its scale the
\* first two.
ByClass(graph, class) == {i \in DOMAIN graph.inputs : Class(graph.inputs[i]) = class}

LastOf(places) == IF places = {} THEN {} ELSE {Max(places)}

\* The rope is left out for these graphs: fillDraftRopeInputs returns at once.
StandardFill(graph) ==
    [i \in DOMAIN graph.inputs |->
        IF i \in LastOf(ByClass(graph, "position")) THEN Lone("position")
        ELSE IF i \in LastOf(ByClass(graph, "noise")) THEN Lone("noise")
        ELSE IF i \in LastOf(ByClass(graph, "target_hidden")) THEN Lone("target_hidden")
        ELSE LET before == {j \in ByClass(graph, "mask_scale") : j < i} IN
             IF i \notin ByClass(graph, "mask_scale") \/ Cardinality(before) > 1 THEN Lone("none")
             ELSE IF before = {} THEN Lone("mask") ELSE Lone("scale")]

CacheAwareParts == <<"noise", "target_hidden", "full_sin", "full_cos", "q_sin", "q_cos", "mask", "scale">>

\* DraftCacheState: a cache for every layer and head, keys and values.
DraftSlots == {"key", "value"} \X (0 .. Geometry.num_layers - 1) \X (0 .. Geometry.num_heads - 1)

\* pastKeyInputIndex, pastValueInputIndex, presentKeyOutputIndex and
\* presentValueOutputIndex: those of a slot behind the first tensors.
TensorIndex(first, slot) ==
    first + slot[2] * Geometry.num_heads * 2 + (IF slot[1] = "key" THEN 0 ELSE Geometry.num_heads) + slot[3]

PastInput(slot) == 1 + TensorIndex(8, slot)

\* Mutant: the outputs of all keys before those of the values.
KeysBeforeValues(slot) ==
    2 + (IF slot[1] = "key" THEN 0 ELSE DraftCacheTensors \div 2) + slot[2] * Geometry.num_heads + slot[3]

PresentOutput(slot) == 1 + TensorIndex(1, slot)

CacheAwareFill(graph, slots) ==
    [i \in DOMAIN graph.inputs |->
        IF i <= 8 THEN Lone(CacheAwareParts[i])
        ELSE slots[CHOOSE s \in DraftSlots : PastInput(s) = i]]
-----------------------------------------------------------------------------
VARIABLES
    draft,       \* the draft graph: type, dimensions and use of its inputs, and its outputs
    draftFed,    \* what each input was given
    draftSlots   \* what each slot of DraftCacheState holds

drafts == <<draft, draftFed, draftSlots>>

NoDraft == [inputs |-> << >>, outputs |-> << >>]

DraftNone == draft = NoDraft /\ draftFed = << >> /\ draftSlots = << >>

DraftGone == draft' = NoDraft /\ draftFed' = << >> /\ draftSlots' = << >>

\* DraftGraphSession::init and DraftCacheState::init
DraftInit(graph) ==
    /\ draft' = graph
    /\ draftFed' = [i \in DOMAIN graph.inputs |-> Lone("none")]
    /\ draftSlots' = [s \in DraftSlots |-> Lone("none")]

\* The inputs are filled and the graph runs, with rows to keep.
DraftExecute ==
    /\ draftFed' = IF CacheAware(draft) THEN CacheAwareFill(draft, draftSlots) ELSE StandardFill(draft)
    /\ draftSlots' = IF CacheAware(draft) THEN [s \in DraftSlots |-> draft.outputs[PresentOutput(s)]]
                                          ELSE draftSlots
    /\ UNCHANGED draft
-----------------------------------------------------------------------------
Uses == [part : STRING, layer : Nat, head : Nat]

DraftGraph == [inputs : Seq([dims : Seq(Nat), int : BOOLEAN, use : Uses]), outputs : Seq(Uses)]

\* Cache tensors go layer by layer, the keys of its heads before its values.
CacheUse(k) ==
    Use(IF k % (2 * Geometry.num_heads) < Geometry.num_heads THEN "key" ELSE "value",
        k \div (2 * Geometry.num_heads), k % Geometry.num_heads)

LaidOut(graph) ==
    /\ \A i \in 1 .. 8 : graph.inputs[i].use = Lone(CacheAwareParts[i])
    /\ \A k \in 0 .. DraftCacheTensors - 1 :
            graph.inputs[9 + k].use = CacheUse(k) /\ graph.outputs[2 + k] = CacheUse(k)

\* An input has the size of what it is for; positions may be floats.
Sized(input) ==
    LET n == Numel(input.dims) IN
    \/ input.use = Lone("position") /\ (input.int \/ n = AllPositions)
    \/ input.use = Lone("noise") /\ ~input.int /\ n = Geometry.block * Geometry.draft_hidden
    \/ input.use = Lone("target_hidden") /\ ~input.int
       /\ n = Geometry.context_len * Geometry.target_hidden

SizesDiffer ==
    /\ Geometry.block * Geometry.draft_hidden # Geometry.context_len * Geometry.target_hidden
    /\ AllPositions # Geometry.block * Geometry.draft_hidden
    /\ AllPositions # Geometry.context_len * Geometry.target_hidden

\* Graphs the code is written for: cache-aware, or in any order but without
\* tensors for the rope and the mask.
Supported(graph) ==
    \/ CacheAware(graph) /\ LaidOut(graph)
    \/ /\ ~CacheAware(graph) /\ SizesDiffer
       /\ \A i, j \in DOMAIN graph.inputs : graph.inputs[i].use = graph.inputs[j].use => i = j
       /\ \A i \in DOMAIN graph.inputs : Sized(graph.inputs[i])

\* Each input was given what it is for; the caches hold nothing before the
\* first rows are kept.
DraftFedRight ==
    LET CacheInputs == {i \in DOMAIN draft.inputs : draft.inputs[i].use.part \in {"key", "value"}} IN
    /\ \A i \in DOMAIN draft.inputs \ CacheInputs : draftFed[i] = draft.inputs[i].use
    /\ \/ \A i \in CacheInputs : draftFed[i] = draft.inputs[i].use
       \/ \A i \in CacheInputs : draftFed[i] = Lone("none")
=============================================================================
