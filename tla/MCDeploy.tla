------------------------------ MODULE MCDeploy ------------------------------
(***************************************************************************)
(* Targets whose graphs name their tensors or do not, in several orders,   *)
(* alike and different in the two graphs; datasets with nested folders     *)
(* that repeat a base name.                                                *)
(***************************************************************************)
EXTENDS Deploy

T(part, layer, named) == [part |-> part, layer |-> layer, named |-> named]

Heads(named) == <<T("input_ids", 0, named), T("position_ids", 0, named), T("attention_mask", 0, named)>>

KeysThenValues(named) ==
    [i \in 1 .. 2 * Layers |->
        IF i <= Layers THEN T("key", i - 1, named) ELSE T("value", i - 1 - Layers, named)]

LayerByLayer(named) ==
    [i \in 1 .. 2 * Layers |-> T(IF i % 2 = 1 THEN "key" ELSE "value", (i - 1) \div 2, named)]

LastFirst(named) ==
    [i \in 1 .. 2 * Layers |-> T(IF i % 2 = 1 THEN "value" ELSE "key", Layers - 1 - (i - 1) \div 2, named)]

Graph(in, out, named) ==
    [inputs  |-> Heads(named) \o in,
     outputs |-> <<T("logits", 0, named)>> \o out \o <<T("tap", 0, named), T("tap", 1, named)>>]

\* The mask first, the block last.
Turned(in, out) ==
    [inputs  |-> <<Heads(TRUE)[3]>> \o in \o <<Heads(TRUE)[2], Heads(TRUE)[1]>>,
     outputs |-> Graph(in, out, TRUE).outputs]

Both(p, v) == [prefill |-> p, verify |-> v]

Plain == Graph(KeysThenValues(FALSE), KeysThenValues(FALSE), FALSE)
Clear == Graph(LayerByLayer(TRUE), LayerByLayer(TRUE), TRUE)

MCTargets ==
    { Both(Plain, Plain),
      Both(Graph(KeysThenValues(TRUE), LastFirst(TRUE), TRUE), Clear),
      Both(Clear, Turned(LastFirst(TRUE), KeysThenValues(TRUE))),
      Both(Graph(KeysThenValues(TRUE), KeysThenValues(FALSE), TRUE), Clear),
      Both(Plain, Clear),
      Both(Clear, Graph(KeysThenValues(FALSE), LayerByLayer(TRUE), TRUE)) }

I(dims, int, use) == [dims |-> dims, int |-> int, use |-> use]

MCGeometry ==
    [block |-> 2, context_len |-> 5, target_hidden |-> 7, draft_hidden |-> 4, num_layers |-> 2,
     num_heads |-> 2, head_dim |-> 3, cache_ar_len |-> 4]

Position == I(<<7>>, TRUE, Lone("position"))
Noise    == I(<<2, 4>>, FALSE, Lone("noise"))
Hidden   == I(<<5, 7>>, FALSE, Lone("target_hidden"))

\* Layer by layer, the keys of its heads before its values.
DraftCaches ==
    [k \in 1 .. DraftCacheTensors |->
        Use(IF (k - 1) % 4 < 2 THEN "key" ELSE "value", (k - 1) \div 4, (k - 1) % 2)]

CacheAwareGraph ==
    [inputs  |-> [k \in 1 .. 8 |-> I(<<2, k>>, FALSE, Lone(CacheAwareParts[k]))]
                    \o [k \in DOMAIN DraftCaches |-> I(<<3, 3>>, FALSE, DraftCaches[k])],
     outputs |-> <<Lone("tokens")>> \o DraftCaches]

\* One without past inputs: in two orders, positions as numbers, with tensors
\* for the mask, and with nothing it computes.
MCDrafts ==
    { CacheAwareGraph,
      [inputs |-> <<Position, Noise, Hidden>>, outputs |-> <<Lone("tokens")>>],
      [inputs |-> <<Hidden, I(<<7>>, FALSE, Lone("position")), Noise>>, outputs |-> <<Lone("tokens")>>],
      [inputs |-> <<Noise, Hidden, Position, I(<<2, 7>>, FALSE, Lone("mask")),
                    I(<<1, 1, 2, 7>>, FALSE, Lone("scale")), I(<<4, 3>>, FALSE, Lone("full_sin"))>>,
       outputs |-> <<Lone("tokens")>>],
      [inputs |-> <<Noise>>, outputs |-> << >>] }

MCModels == <<"0p6b", "1p7b", "4b">>

Alphabetical == << "dflash-runtime", "draft", "embedding.fp16.bin", "libQnn.so", "prompts",
                   "run_dataset.sh", "run_single.sh", "target", "tokenizer.json" >>

\* The first or the last by name: run_dataset.sh may be the one that is left.
MCUnlinks(files) ==
    {Alphabetical[i] : i \in {k \in DOMAIN Alphabetical :
        /\ Alphabetical[k] \in files
        /\ \/ \A j \in 1 .. k - 1 : Alphabetical[j] \notin files
           \/ \A j \in k + 1 .. Len(Alphabetical) : Alphabetical[j] \notin files}}

Command(prompt, split, dtype, tokens, text) ==
    [arguments |-> "complete", prompt |-> prompt, split |-> split, dtype |-> dtype,
     tokens |-> tokens, text |-> text]

MCHandOptions ==
    { Command("txt", FALSE, "uint16", TRUE, TRUE), Command("txt", TRUE, "uint8", FALSE, FALSE),
      Command("ids", TRUE, "other", FALSE, TRUE),
      [Command("ids", FALSE, "uint8", TRUE, TRUE) EXCEPT !.arguments = "refused"],
      [Command("ids", FALSE, "uint8", TRUE, TRUE) EXCEPT !.arguments = "help"] }

MCHandFiles == {"target_prefill", "target_verify"}

MCEnvironments ==
    { Command("txt", FALSE, "uint8", TRUE, TRUE), Command("txt", FALSE, "uint16", TRUE, FALSE) }

\* A base name twice, ids that are not taken, ids alone, and nothing.
MCDatasets ==
    { [txt |-> <<"a", "b">>, ids |-> <<"a">>], [txt |-> <<"a", "a">>, ids |-> << >>],
      [txt |-> << >>, ids |-> <<"a", "b">>], [txt |-> << >>, ids |-> << >>] }
=============================================================================
