---------------------------- MODULE TargetBinding ----------------------------
(***************************************************************************)
(* Which tensor of the target's graphs is what, and the way of the KV      *)
(* cache between the graphs (buildTargetTensorBinding of                   *)
(* src/runtime_io.cpp, the cache transfer of runtime_io.hpp,               *)
(* TargetGraphSession and bindTargetCacheToVerifyBuffers).                 *)
(*                                                                         *)
(* A cache slot is an entry of KvCacheManager::layers; which layer of the  *)
(* model it serves depends on the order the binding finds the tensors in.  *)
(* A value is named by the tensor that should hold it and by the pass of   *)
(* the target that made it; what is in it belongs to KvCache.              *)
(***************************************************************************)
EXTENDS Integers, Sequences, FiniteSets

CONSTANT Layers    \* opt.target_layers

ASSUME LayersAssumption == Layers \in Nat \ {0}

Slots == 1 .. Layers
Kinds == {"key", "value"}

NoTensor == 0

\* A tensor of a graph: its part, its layer, and whether its name says so
\* ("past_key_<layer>", "present_value_<layer>", "input_ids", ...).
Named(tensors, part) == {i \in DOMAIN tensors : tensors[i].part = part /\ tensors[i].named}

FindExact(tensors, part) ==
    LET here == Named(tensors, part) IN
    IF here = {} THEN NoTensor ELSE CHOOSE i \in here : \A j \in here : i <= j

\* The sum starts at -1, so the number found is one less than the one written.
TrailingIndex(tensor) == tensor.layer - 1

\* Tensors without an index go behind the others.
Earlier(tensors, i, j) ==
    LET a == TrailingIndex(tensors[i])
        b == TrailingIndex(tensors[j])
    IN \/ a >= 0 /\ b < 0
       \/ a >= 0 /\ b >= 0 /\ a < b
       \/ (a = b \/ (a < 0 /\ b < 0)) /\ i < j

CollectByPrefix(tensors, part) ==
    LET found == Named(tensors, part) IN
    [k \in 1 .. Cardinality(found) |->
        CHOOSE i \in found : Cardinality({j \in found : Earlier(tensors, j, i)}) = k - 1]

\* Keys then values from a place on, when no key has a name and the graph is
\* long enough.  Values that have names stay in front.
CacheTensors(tensors, first) ==
    LET keys    == CollectByPrefix(tensors, "key")
        values  == CollectByPrefix(tensors, "value")
        byPlace == keys = << >> /\ Len(tensors) >= first + 2 * Layers
    IN [key   |-> IF byPlace THEN [k \in Slots |-> first + k] ELSE keys,
        value |-> IF byPlace THEN values \o [k \in Slots |-> first + Layers + k] ELSE values]

OrPlace(found, tensors, place) ==
    IF found = NoTensor /\ Len(tensors) >= place THEN place ELSE found

BuildTargetTensorBinding(graph) ==
    LET present == CacheTensors(graph.outputs, 1)
        cached  == Len(present.key) + Len(present.value)
    IN [input_ids      |-> OrPlace(FindExact(graph.inputs, "input_ids"), graph.inputs, 1),
        position_ids   |-> OrPlace(FindExact(graph.inputs, "position_ids"), graph.inputs, 2),
        attention_mask |-> OrPlace(FindExact(graph.inputs, "attention_mask"), graph.inputs, 3),
        past           |-> CacheTensors(graph.inputs, 3),
        present        |-> present,
        logits         |-> 1,
        extra          |-> [k \in 1 .. Len(graph.outputs) - 1 - cached |-> 1 + cached + k]]

\* Slots that are transferred: those with a key and a value.
Transferred(cache) == {s \in Slots : s <= Len(cache.key) /\ s <= Len(cache.value)}
-----------------------------------------------------------------------------
VARIABLES
    graphs,    \* graph of each session, by side: "prefill" and "verify"
    binding,   \* its TargetTensorBinding
    mem,       \* values by address: buffers <<side, "in" or "out", place>> and
               \* owned storages <<"past" or "new", kind, slot>>
    pastAt,    \* address of key_in and value_in of every slot
    newAt,     \* address of key_out and value_out
    hidden,    \* what the last pass appended to the hidden history
    pass       \* passes of the target so far

binds == <<graphs, binding, mem, pastAt, newAt, hidden, pass>>

Nothing == [part |-> "none", layer |-> 0, pass |-> 0]

Value(tensor, made) == [part |-> tensor.part, layer |-> tensor.layer, pass |-> made]

With(f, x, y) == [z \in DOMAIN f \cup {x} |-> IF z = x THEN y ELSE f[z]]

\* Memory after a set of writes, pairs of an address and a value.
Written(writes) ==
    [a \in DOMAIN mem \cup {w[1] : w \in writes} |->
        IF \E w \in writes : w[1] = a THEN (CHOOSE w \in writes : w[1] = a)[2] ELSE mem[a]]

Owned(which) == [s \in Slots |-> [k \in Kinds |-> <<which, k, s>>]]

\* KvCacheManager::init
BindsInit ==
    /\ graphs = << >> /\ binding = << >>
    /\ pastAt = Owned("past") /\ newAt = Owned("new")
    /\ mem = [a \in {"past", "new"} \X Kinds \X Slots |-> Nothing]
    /\ hidden = << >> /\ pass = 0

\* They go with the process.
BindsReset ==
    /\ graphs' = << >> /\ binding' = << >>
    /\ pastAt' = Owned("past") /\ newAt' = Owned("new")
    /\ mem' = [a \in {"past", "new"} \X Kinds \X Slots |-> Nothing]
    /\ hidden' = << >> /\ pass' = 0

\* TargetGraphSession::init
SessionInit(side, graph) ==
    /\ graphs'  = With(graphs, side, graph)
    /\ binding' = With(binding, side, BuildTargetTensorBinding(graph))
    /\ mem' = Written({<<<<side, "in", i>>, Nothing>> : i \in DOMAIN graph.inputs}
                        \cup {<<<<side, "out", i>>, Nothing>> : i \in DOMAIN graph.outputs})
    /\ UNCHANGED <<pastAt, newAt, hidden, pass>>

\* Mutant: the value storages stay where they are.
KeysOnly == {"key"}

BoundKinds == Kinds

\* The storages s, k of a slot become buffers of the verify graph.
BoundTo(at, direction, cache) ==
    [s \in Slots |-> [k \in Kinds |->
        IF s \in Transferred(binding["verify"].past) /\ s <= Len(cache[k]) /\ k \in BoundKinds
        THEN <<"verify", direction, cache[k][s]>> ELSE at[s][k]]]

\* bindTargetCacheToVerifyBuffers: the inputs keep what the cache holds.
Bind ==
    /\ pastAt' = BoundTo(pastAt, "in", binding["verify"].past)
    /\ newAt'  = BoundTo(newAt, "out", binding["verify"].present)
    /\ mem' = Written({<<pastAt'[s][k], mem[pastAt[s][k]]>> : s \in Slots, k \in Kinds})
    /\ UNCHANGED <<graphs, binding, hidden, pass>>

\* The storages a transfer between cache and graph copies: a slot whose key is
\* the graph's own buffer is left alone, its value with it.
Copied(cache, at, side, direction) ==
    {p \in Transferred(cache) \X Kinds :
        at[p[1]]["key"] # <<side, direction, cache.key[p[1]]>>}

\* fillCacheInputs, fillBlock and the attention mask.
FillInputs(side) ==
    LET b == binding[side]
        Block(part, place) == <<<<side, "in", place>>, [Nothing EXCEPT !.part = part, !.pass = pass]>>
    IN /\ mem' = Written({<<<<side, "in", b.past[p[2]][p[1]]>>, mem[pastAt[p[1]][p[2]]]>> :
                                p \in Copied(b.past, pastAt, side, "in")}
                          \cup {Block("input_ids", b.input_ids), Block("position_ids", b.position_ids),
                                Block("attention_mask", b.attention_mask)})
       /\ UNCHANGED <<graphs, binding, pastAt, newAt, hidden, pass>>

\* The graph runs: every output is made by this pass.
Execute(side) ==
    LET made == graphs[side].outputs IN
    /\ pass' = pass + 1
    /\ mem' = Written({<<<<side, "out", i>>, Value(made[i], pass + 1)>> : i \in DOMAIN made})
    /\ UNCHANGED <<graphs, binding, pastAt, newAt, hidden>>

\* fillCacheOutputs, update of every slot, appendTargetHidden.
ReadOutputs(side) ==
    LET b == binding[side]
        Read(s, k) == IF <<s, k>> \in Copied(b.present, newAt, side, "out")
                      THEN mem[<<side, "out", b.present[k][s]>>] ELSE mem[newAt[s][k]]
    IN /\ mem' = Written(UNION {{<<newAt[s][k], Read(s, k)>>, <<pastAt[s][k], Read(s, k)>>} :
                                    s \in Slots, k \in Kinds})
       /\ hidden' = [k \in DOMAIN b.extra |-> mem[<<side, "out", b.extra[k]>>]]
       /\ UNCHANGED <<graphs, binding, pastAt, newAt, pass>>
-----------------------------------------------------------------------------
\* A graph of a model with that many layers: an input and an output for each
\* cache, an input for each part of the block, in any order.
Tensors == Seq([part : STRING, layer : Nat, named : BOOLEAN])

TargetGraph == [inputs : Tensors, outputs : Tensors]

BlockParts == {"input_ids", "position_ids", "attention_mask"}

CacheOnce(tensors) ==
    \A kind \in Kinds :
        /\ \A i \in DOMAIN tensors : tensors[i].part = kind => tensors[i].layer < Layers
        /\ \A l \in 0 .. Layers - 1 : \E i \in DOMAIN tensors : \A j \in DOMAIN tensors :
                (tensors[j].part = kind /\ tensors[j].layer = l) <=> j = i

OfModel(graph) ==
    /\ CacheOnce(graph.inputs) /\ CacheOnce(graph.outputs)
    /\ \A i \in DOMAIN graph.inputs : graph.inputs[i].part \in Kinds \cup BlockParts
    /\ \A part \in BlockParts : \E i \in DOMAIN graph.inputs : \A j \in DOMAIN graph.inputs :
            graph.inputs[j].part = part <=> j = i
    /\ graph.outputs # << >> /\ graph.outputs[1].part = "logits"

\* One whose tensors are all named, the caches in any order before the taps,
\* and one with no names at all, everything in the place the code expects.
CacheThenTaps(outputs) ==
    \A i \in DOMAIN outputs : outputs[i].part = "tap" <=> i > 1 + 2 * Layers

AllNamed(graph) ==
    /\ \A i \in DOMAIN graph.inputs : graph.inputs[i].named
    /\ \A i \in DOMAIN graph.outputs : i \in 2 .. 1 + 2 * Layers => graph.outputs[i].named

InPlace(tensors, first) ==
    /\ Len(tensors) >= first + 2 * Layers
    /\ \A k \in Slots :
        /\ tensors[first + k].part = "key" /\ tensors[first + k].layer = k - 1
        /\ tensors[first + Layers + k].part = "value" /\ tensors[first + Layers + k].layer = k - 1

Unnamed(graph) ==
    /\ \A i \in DOMAIN graph.inputs : ~graph.inputs[i].named
    /\ \A i \in DOMAIN graph.outputs : ~graph.outputs[i].named
    /\ graph.inputs[1].part = "input_ids" /\ graph.inputs[2].part = "position_ids"
    /\ graph.inputs[3].part = "attention_mask"
    /\ InPlace(graph.inputs, 3) /\ InPlace(graph.outputs, 1)

ExportedAlike ==
    /\ \A side \in DOMAIN graphs : OfModel(graphs[side]) /\ CacheThenTaps(graphs[side].outputs)
    /\ \/ \A side \in DOMAIN graphs : AllNamed(graphs[side])
       \/ \A side \in DOMAIN graphs : Unnamed(graphs[side])

\* What a graph needs in an input: the block of this pass, or what its layer
\* made in the last pass.
Needed(tensor) ==
    IF tensor.part \in Kinds THEN IF pass = 0 THEN Nothing ELSE Value(tensor, pass)
    ELSE [Nothing EXCEPT !.part = tensor.part, !.pass = pass]

Fed(side) ==
    \A i \in DOMAIN graphs[side].inputs : mem[<<side, "in", i>>] = Needed(graphs[side].inputs[i])

\* The history holds the taps of the last pass, and only them, in their order.
HiddenFromTaps(side) ==
    hidden = [k \in 1 .. Len(graphs[side].outputs) - 1 - 2 * Layers |->
                Value(graphs[side].outputs[1 + 2 * Layers + k], pass)]
=============================================================================
