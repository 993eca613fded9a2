# Verification of the DFlash runtime

`runtime/dflash_runtime.cpp` decodes text with a speculative scheme on an NPU:
a small *draft* graph proposes a block of tokens, one execution of the large
*target* graph verifies the block, a prefix of it is accepted, and three stores
are kept in step with what was accepted: the output, the target's KV cache, and
the history of hidden rows the draft graph is conditioned on. This directory
holds TLA+ models of that code, TLC configurations that check them on small
instances, and proofs that TLAPS checks for every value of the constants.

Paths in `PROJECT.json` start with `src/`, the root of the repository; below,
`runtime.cpp` is `runtime/dflash_runtime.cpp` and the other names are in `src/`.

## 1. The system

A script packages binary, graphs and tokenizer; on the device another one runs
a process for each prompt and keeps its log. Each is one process, one thread.
`main` parses options, tokenizes the prompt, opens the
QNN driver, loads the context binaries, runs `runDecodeTyped` once and prints.

| Component | State it keeps | Operations | What makes it correct | Modules |
|---|---|---|---|---|
| Speculative decode loop (`runDecodeTyped`) | position, current token, output, accepted/total counters, hidden history | prefill chunk, draft, verify, accept, commit, print | caches equal to the conversation, the target's own choices in the output, counters that account for it | `SpecDecode`, `TokenStream` |
| Draft KV window (`DraftCacheState`, `syncDraftCacheToHistory`, fill chunks) | origin, token count, rows per layer and head | reset, drop, append, fill, run | row r is token origin + r; the draft sees a gapless suffix of the history | `DraftWindow`, `DraftCache` |
| Target KV cache (`kv_cache.cpp`) | flat key and value buffers, current stride | rearrange, update, bind, copy in and out | no committed position is lost while rows move over one another; every graph reads the past at its own stride | `KvCache` |
| Logit sampling (`runtime_io.cpp`) | none | argmax, rank, top-k acceptance; scalar and NEON loops | every loop computes the same function | `LogitSampler`, `LogitScan` |
| Tensor inputs of the target | input buffers of a pass | token ids, position ids, causal mask | the mask is causal; ids, positions and mask describe one pass | `TargetInputs` |
| QNN runtime (`qnn_runtime.cpp`) | driver handles, libraries, shared allocations, buffers | open, load, make buffers, execute, destroy | everything is released, in order, after a failure at any call; descriptors point to live memory | `QnnRuntime` |
| Graph sessions (`runtime_session.cpp`) | bindings, buffers | init, fill, execute, read | each buffer gets what its tensor is for | `TargetBinding`, `DraftBinding`, `TargetInputs`, `DraftWindow` |
| Tensor binding (`runtime_io.cpp`) | indices of tensors by name, shape or place | bind target, bind draft, move the cache storages | inputs are paired with the outputs of the same layer, through the change of graph | `TargetBinding`, `DraftBinding` |
| Tensor value conversion | none | quantise, fp16 | round trips, saturation | not modelled |
| Tokenizer (`qwen3_tokenizer.cpp`) | vocabulary, merges, trie | encode, decode | added tokens are cut out, merges follow their rank, decode inverts encode | `SpecialTokens`, `PreTokens`, `BytePair`, `Utf8`, `Tokenizer` |
| Process and options (`main`) | options, what has been loaded | parse, load, decode, print, exit status | what is printed tells how it ended | `Process` |
| Packaging and dataset scripts (`package_8gen5.sh`) | package folders, logs | package, run prompts one by one | a package that runs is whole; a failed sample can be told from its log | `Package`, `Deploy` |
| Vendored JSON parser and data | - | - | third-party | not modelled |

How they interact: the loop calls the sessions, the sessions call the input
builders, the cache transfer and the driver; there are no threads, callbacks or
messages. Two stores are shared: after the prefill the KV cache's storage *is*
the verify graph's input buffer (`bindTargetCacheToVerifyBuffers`), and a
`TensorBuffer`'s memory is shared with the driver.

What is hard here is therefore not concurrency but

* several stores that must describe the same conversation although each verify
  pass computes more than is accepted (stale columns behind the position, rows
  of rejected proposals, a budget that cuts off an accepted prefix);
* memory moved in place between two strides, where the order of the rows decides;
* a bounded window whose origin, length and contents move together, over any
  sequence of prompt lengths and accepted lengths;
* failure of any driver call, in the middle of a half-finished step, and of any
  file or script on the way there;
* tensors found by name, by place or by size, with nothing that checks the result;
* one-pass algorithms (the trie, the merges, the pattern) that stand for simple
  definitions;
* boundaries: ties and vector tails in the scans, chunks of the wrong length,
  a full window, a full context.

`PROJECT.json` lists each such place under `hazards` with the property that
watches it, or the reason why none does yet.

## 2. The modules

```
TokenStream <== implements == SpecDecode == implements ==> DraftCache
                              |        \                      |
                        LogitSampler    `---- DraftWindow ----'
                              |
                          LogitScan           KvCache   TargetInputs   QnnRuntime

Deploy --- Package                        Tokenizer --- SpecialTokens
      `--- Process --- TargetBinding              |---- PreTokens
                  `--- DraftBinding               |---- BytePair
                                                  `---- Utf8
```

**LogitSampler** - operators. A row of logits is a function from the vocabulary
to comparable values (the stored type and its monotone dequantisation are left
out); a tensor is a function from its row indices to rows, so that an index
outside the tensor is visible. `RankAccept` is `rankAcceptTensorAtRaw` with its
early return; `TokenInTopK` is `tokenInTopKAtRaw`.

**LogitScan** - the loops behind `RankAccept`, an iteration per step: the one-pass
scalar scan, and the three NEON passes (blocks of `Lanes` values, scalar tail).
Shown to return what `RankAccept` defines.

**KvCache** - one storage, flat, as in memory. A key row is one (head, dim) pair,
a value row one head; both move alike, so one storage of one layer stands for
all. `MoveRow` is one `memmove` of `rearrangeKey`/`rearrangeValue`, `UpdateRow`
one `memcpy` of `updateKey`/`updateValue`, `Bind` is
`bindTargetCacheToVerifyBuffers`, `FillInputs` and `Execute` are the transfer in
`runtime_io.hpp`. A value is the (row, position) it was computed for, so a
property can say whether a read returns the right one. The runtime prefills,
binds, then verifies; the client in this module may alternate between both
graphs, which covers both directions of `rearrange` (the runtime uses one).

**DraftWindow** - operators on the window record `[origin, tokens, rows]`:
`dropOldRows`, `appendOutputs`, the sync's arithmetic, and the rope, mask and
hidden inputs of a draft execution. A row remembers the history row it was
computed from and the rotary position it was computed at.

**DraftCache** - the life of the window: sync, fill chunks, draft run, and a
verify pass that appends 1..Block rows to the history. Only the number of history
rows matters. `SpecDecode` implements this module.

**SpecDecode** - `runDecodeTyped`. A cache column and a hidden row are
represented by the token sequence they were computed from. The target graph is
external: for each new position it computes from what the mask shows it, the
columns before `pos` and the new tokens up to that position; if those columns are
not one conversation the result is `Junk`. That the mask shows exactly this is
`MaskIsCausal` of `TargetInputs`; that the columns are where the graph reads them
is `GraphSeesCache` of `KvCache`. The draft's proposals are arbitrary. One action
per loop body: `PrefillChunk`, `StartRound` (sync), `FillChunk`, `DraftRun`,
`StandardDraft`/`StandardRun` (a draft graph without past inputs), `SeedOnly`
(`--block 1`), `VerifyAndCommit(a)`, `ExecuteFails`; then `PrintTokens`, which
prints the ids if it is asked to, and either `Finish`, with the text if there is
a printer, or `PrintFails`: the printer loads the tokenizer once more and may
throw after the ids are out (`runtime.cpp:902`).

**TokenStream** - the abstract specification: the output grows by runs; the
first token of a run is the target's own choice, each further one is among its
top k. Nothing is printed before the output is complete, then its ids once at
most and after them its text once at most. A run may fail at any time: before the
output is complete it has printed nothing, later it has printed no text.

**TargetInputs** - `fillBlockInputs`, the two attention maps, and
`fillAttentionMaskBuffer`, which builds each row from its parent's.

**QnnRuntime** - the life of the driver object. `held` is what the driver and the
system hold for it, `known` what its members know, so that "leaks" and "released
in order" can be stated; each call has an action for success and one for failure.
Sharing a buffer is four calls (allocate, map, bind, register), each of which may
be the last one.

**TargetBinding** - `buildTargetTensorBinding`, with `trailingIndex` (off by one,
so that layer 0 has no index), `collectByPrefix` with its comparison, and the
places that stand in for names; and the memory between the graphs: buffers of
both sessions, storages of `KvCacheManager`, `Bind`, `FillInputs`, `Execute`,
`ReadOutputs`. A value is named by the tensor that made it and the pass it was
made in; what is inside belongs to `KvCache`.

**DraftBinding** - `buildDraftTensorBinding`: a draft graph is cache-aware by the
number of its tensors, then everything goes by place; otherwise by the type and
the number of elements of each input. `DraftExecute` fills the inputs and keeps
the present rows of every layer and head in its slot (`DraftCacheState`).

**Process** - `main` and, pass by pass, `runDecodeTyped`. An action is what lies
between two points where it can fail: `Parse`, `ReadPrompt`, `LoadRuntime`,
`LoadEmbedding`, `CheckDtype`, `OpenTarget`, `OpenDraft`, the passes, the
printing. A file that is there may still be unreadable. Loading a context fails
in two ways: opening the driver or a call of it returns false, and `main` returns
1; a context that cannot be read or whose metadata is refused throws, and `main`
says so and returns 2 - but only when the libraries are there, because the driver
is opened first. The contents of the
rounds are those of `SpecDecode`; here only the tensors they touch matter, and
the number of rounds is free.

**Package** - `package_8gen5.sh`, a step for each file that is copied or written
and one for each file that `rm -rf` takes away (`PackageRemove`), in the order of
the file system, which is the constant `Unlinks`. A run may end before any of
them, and another one starts over. `torn` is for the property alone: the folders
a run has begun to remove and not made again. A copy or write that is cut off is
one that was not made: a script or a binary is made executable last, and a
truncated data file is refused like one that is absent.

**Deploy** - one of the folders, in whatever state, is pushed (external); there
`run_single.sh` runs one process, or `run_dataset.sh` one after the other, with
`LIMIT`, the fall back to `.ids`, logs by base name, and `tee`. In what is left of
a folder `run_single.sh` or the runtime may be gone; the shell's message goes into
the log of the sample and the loop goes on (`SampleLost`).

**SpecialTokens** - `Trie::split`, a character per step, with its open candidates.
Under `SpecialsAssumption`, which the built-in list meets, at most one candidate
is open and the look-ahead finds nothing, so it is left out.

**PreTokens** - `qwen3TokenizerMatchPattern`, an operator per alternative, each of
which returns where the match ends; and the pattern of `tokenizer.json` beside it.

**BytePair**, **Utf8** - one sweep of `bpe` (recursive functions over a word) and
the reference of one merge at a time; the conversions between characters, bytes
and the visible characters that stand for bytes.

**Tokenizer** - composes the four: a framed text is scanned, cut, matched part by
part, each part merged sweep by sweep, turned into ids, and the ids are decoded
one by one.

`MC*.tla` and the `.cfg` files give the constants values for TLC. Definitions
commented `Mutant:` are faulty variants of the definition after them; they are
not part of the specifications. Each property is known to fail with one of them.

## 3. The runs

| Run | Instance | What it shows |
|---|---|---|
| `logit_scan` | rows of 5 values out of 3, vectors of 2 | both loops return `RankAccept`'s record, for every tie, tail, candidate (also outside the vocabulary) and k from 0 to 3; the loops end |
| `kv_cache` | 3 rows, strides 5 and 7 | no step of a rearrangement, binding or commit loses a committed position, leaves the storage, or gives a graph a wrong past |
| `draft_window` | window 7, block 3, prompts 1..15 | the window stays aligned, the draft sees a gapless suffix, only the first round fills, filling drops nothing, every sync ends |
| `spec_decode` | 2 models, 3 tokens, 3 prompts, block 3, top 2 | caches and history are the conversation, the current token is the target's choice, the counters account for the output, the loop implements `TokenStream` and `DraftCache` and ends |
| `standard_draft` | verify graph of 2 behind blocks of 3, top 1 | without a window and with blocks cut by the verify graph, the output is greedy |
| `plain_decode` | block 1 | with nothing drafted the output is greedy under any policy |
| `target_inputs` | graphs of 1, 3 and 4, context 9 | masks are causal for every past, positions count what is attended to |
| `qnn_runtime` | 2 tensors | whichever call fails, an explicit release returns everything in order; executions see live memory |
| `tokenizer` | 10 characters, prompts up to 3 (5 of them: up to 4), 2 added tokens, 7 merges | added tokens are cut out exactly; sweeps equal single merges by rank; decoding token by token loses the characters divided between tokens and nothing else |
| `deploy` | 3 models, 3 runs of the script, 3 layers, 2 chunks, 2 rounds | a package is of one run, and with `run_dataset.sh` whole unless its removal was interrupted; layers stay paired from the first prefill to the last round, for the target and the draft; logs tell how each sample ended |
| `pretokens` (violation) | the same alphabet, prompts up to 2 | white space at the end of a piece is split differently from the packaged pattern: see section 6 |
| `accept_none` (violation) | top k 0 | `--accept_topk 0`: see section 6 |

Why the bounds are enough. *Logits*: five values and vectors of two give two
whole blocks and a tail; three values give every pattern of ties. *KV cache*: the
two strides differ by less than a row, so moved rows overlap their neighbours in
both directions; the middle row of three has one on each side; the cache can be
filled to its last column. *Window*: 7 is not a multiple of 3, so drops of one
and of two rows, short chunks, restarts and exact fits all occur; prompts reach
past window plus two blocks. *Decode*: the prompts are shorter than a block,
longer than a prefill chunk, and longer than window plus block; outputs are
longer than a block, so a round's budget may cut it anywhere; the two models
have ties and disagree, so proposals are accepted and refused at each place; all
27 blocks of proposals are tried in each round. *Masks*: graphs of one row, of an
odd and of an even number; every past up to touching the new columns. *Driver*:
the second tensor is made after the first has been moved. *Tokenizer*: the
alphabet has a character of each class and each UTF-8 length; the frame puts
added tokens at both ends, and prompts contain beginnings, middles and ends of
others; merges overlap (`ss`, `ssss`), cross a blank, and divide a two-byte
character. *Deploy*: three layers show a rotation that two could hide; two
chunks and two rounds have every change of graph, of storage and of pass; the
targets have named and unnamed tensors in four orders, alike and different in
the two graphs, and two of them pair layers wrongly (see below); three runs of
the script can leave packages of three ages; a dataset repeats a base name.
`MCUnlinks` removes a folder from either end of the alphabet, so that any
neighbours by name may be left, `run_dataset.sh` among them alone, with
`run_single.sh` and without the runtime, or with both and without the rest.
`MaxAll` and `MaxSome` bound the prompts of the tokenizer, `MaxRuns` the runs of
the packaging script, `MaxChunks` and `MaxRounds` the passes of a process,
`MaxCommitted` bounds
the past in `TargetInputs`, `MaxTopK` and `MaxValue` the inputs of `LogitScan`;
no other counter needs a bound, because the programs end.

`LayersPaired` holds under a condition stated in the modules. Both graphs of a
target have an input and an output for each layer's key and value and one input
for each part of a block (`OfModel`), the taps behind the caches; and both name
all of these tensors, or neither names any and all are where the code looks for
them (`ExportedAlike`). A draft graph is cache-aware and lays its caches out
layer by layer, or has no inputs for rope and mask and tells its inputs apart by
their sizes (`Supported`). A target that names the inputs of one graph only
is bound with its layers rotated on one side, and nothing in the runtime notices.

Deadlock is checked in every run; each module has a `Terminating` step for the
states in which the program has ended.

Fairness. The program is one thread that never waits: weak fairness of the
disjunction of the successful steps (`Step`) says that it goes on as long as it
can. Failures of an execution (`ExecuteFails`) may happen and are never owed, so
no liveness property is obtained from a failure. `KvCache`, `TargetInputs`,
`QnnRuntime`, `Tokenizer` and `Deploy` claim no liveness and state no fairness.

## 4. The proofs

All theorems hold for every value of the constants under the `ASSUME`s of the
modules, which TLC evaluates on the instances:

* `VocabAssumption`, `LanesAssumption`, `ValueAssumption`, `TopKAssumption`,
  `InputAssumption`, `PromptAssumption`, `DecodeAssumption`, `TensorsAssumption`,
  `PackageAssumption`, `ProcessAssumption`, `DeployAssumption`, `TextsAssumption`,
  `LayersAssumption`, `GeometryAssumption`: ranges of the parameters (a dataset is
  two lists of base names, the options of a sample never ask for the usage, what a
  context may hold are graphs, of whatever tensors);
* `SpecialsAssumption`: an added token begins with a character that stands nowhere
  else in one, and none begins another, as the built-in list;
  `ClassesAssumption`, `MergesAssumption`, `VocabularyAssumption`: classes of
  characters are apart, whatever makes a symbol comes before every merge that uses
  it, the vocabulary has every merge and no token twice. The packaged
  `tokenizer.json` meets both: its 151387 merges make as many symbols, each before
  its first use;
* `TableAssumption`: a text is Unicode, the vocabulary has the character of every
  byte and the added tokens, and these are visible ASCII. In the packaged file the
  256 characters are among the first tokens, and the 16 built-in added tokens
  among its `added_tokens`;
* `WindowAssumption`: the draft graph's geometry (a block fits in the window, two
  in the columns behind it);
* `LayoutAssumption`: the verify graph is shorter than the prefill graph, so its
  stride is the widest and the storage is large enough;
* `CapacityAssumption`: prompt and output fit in the context.

The runtime checks none of the window, layout and capacity assumptions. They hold for the packaged graphs
(128/32/16, 32 and 16) and for conversations that fit; what happens without them
is listed under hazards.

| Module | Theorems | Invariant and why it is needed |
|---|---|---|
| `LogitScanProofs` | `ScanTypeCorrect`, `ScanReturnsRank`, `ScanAcceptsTopK` | `ScanInv`: in each pass, what `best`, `bestV` and `greater` mean for the part of the row that has been scanned (`LeadsIn(i)`, `Counted`) |
| `DraftCacheProofs` | `DraftTypeCorrect`, `WindowStaysAligned`, `RunSeesHistory`, `RunCatchesUp`, `OneFill`, `FillNeverDrops` | `DraftInv`: adds what holds between the steps of a round: after a run the window has caught up, a verify pass adds at most a block, the restart has made room for the whole fill, and whatever was dropped left at least a window's worth of tokens |
| `KvCacheProofs` | `KvTypeCorrect`, `PastStaysIntact`, `GraphGetsCache`, `AccessStaysInside` | `KvInv`: while rows move, the moved ones are at the new stride and the others at the old; while rows are written, those done hold the new positions as well. The lemmas `RowsApart`, `WiderRows` and `InsideStorage` are the arithmetic of the overlapping moves |
| `TargetInputsProofs` | `InputsTypeCorrect`, `PassIsCausal`, `PositionsCount` | `InputInv`: every row finished so far is causal, and the parent of the next is among them; `FilledInv` adds the positions |
| `SpecDecodeProofs` (the conversation) | `DecodeTypeCorrect`, `CacheStaysConversation`, `HistoryStaysConversation`, `CountersStayTrue` | `DecInv`: while the prompt is read nothing has been generated; the block to be verified begins with the current token; there is budget for one token whenever a round is under way; nothing is printed while tokens are wanted, and the ids before the text |
| `SpecDecodeProofs` (the stream) | `CurrentStaysTop1`, `OutputIsGreedy`, `DecodeIsStream` | `TopInv`: adds that the current token is the target's choice already when the prefill has just ended, and that what was drafted are proposals |
| `SpecDecodeProofs` (the window) | `DecodeDrivesWindow` | `WindowInv`: with a cache-aware draft the standard path is never entered; each step maps to a step of `DraftCache` or stutters |
| `QnnRuntimeProofs` | `QnnTyped`, `TensorsLiveAlways`, `NothingLeaksEver`, `ReleasesInOrder` | `QnnInv`: what is held and not known is the one local handle of the half-finished step (`MembersKnow`); tensors before the current one are served and those behind it untouched (`OneAfterTheOther`, `NotYetListed`); the places of the release already passed are empty (`ReleasedSoFar`) |
| `DeployProofs` | `DeployTyped`, `PackagesAlwaysWhole`, `LogsAlwaysTell` | `PackageInv`: folders before the one being made are whole and of this run, that one holds the steps so far or, before them, what rm has left of an older run, and runs decrease along the list; `ProcessInv`: while it runs the status is 0 and what is printed last is not yet printed; `ShellInv`, `LogsKept`: there is a log of the last finished sample of every base name so far |
| `DeployProofs` (the layers) | `LayersAlwaysPaired` | `PairedInv`, that is `GraphsInv` (a binding is the one built from the graph of its side), `CacheInv` (where the cache lies and what is there, stage by stage) and `DraftInv` (a slot of the draft holds what its layer and head made, or nothing yet) |
| `TokenizerProofs` (pieces and types) | `TokenizerTyped`, `TokensAlwaysCutOut` | `ScanInv`: the open candidates are *all* places from which the text read since may still become a token, and the cuts those of the tokens that ended before; `TypeInv`: pieces, words and tokens are sequences, whatever the conversions made of the text |
| `TokenizerProofs` (the merges) | `MergesAlwaysByRank` | `WordReached`: between two sweeps the word is one of those that single merges make of the characters, and as many merges away from them as it is shorter. A round leads to a later one of these words (`SweepReaches`) by the invariant of its sweep, `Written` |
| `TokenizerProofs` (the text) | `DecodeAlwaysKeepsText` | `SpellInv`: the tokens made, the word being merged and the text not yet matched together spell the bytes of the text; of the tokens decoded, `out` has what `Unsplit` keeps of the characters that end in them (`DecodedTo`). It needs `WordReached`, because a merge must keep what the word spells |

The argument for the decode is: *a verify pass is computed from the conversation*
(`PassContext`: with coherent columns, position i of a block sees the committed
tokens and the block up to i); *committing n tokens extends the conversation by
exactly those* (`CommitStep`, on columns, rows and position at once); *the row
that ranks a proposal, and the row the correction is taken from, are the rows
before it* (`VerifyPass`, `RowOfPass`). `VerifyEmits` then shows that a
committed prefix is a run of `TokenStream`. It assumes `ProperProposals`: the
draft graph's ids are in the vocabulary and `--accept_topk` is at least 1;
without that the statement is false, which is what `accept_none` shows.

`DecodeDrivesWindow` makes the theorems of `DraftCacheProofs` statements about
the decode loop: it is the bridge between the two models of the round.

For the driver the argument is about one step at a time: outside of the step
being made, what the members know is all that is held, so the destructor, which
releases what they know from the outermost resource inwards, leaves nothing.
For the packages it is that a folder is gone before the first file is copied and
gets `run_dataset.sh` last, so that only a removal that was begun and not
finished can take a file away from under it. For the trie it is that a token cannot begin inside
another (`OneOpen`) and none continues another (`NotLonger`), so that closing
every candidate where one ends loses none (`CandidatesGrow`).

For the layers it is that a slot of the cache serves one layer, and the same one
in both graphs, for keys and for values (`BindsByName`, `BindsByPlace`). Named
tensors are found by rank, and the rank of a layer depends on the layers alone
(`CollectsLayers`): layer 0, whose index reads as none, comes last, wherever its
tensor is. Given that, memory need only be described by slots: before a pass each
slot's past holds what its layer made in the last one, in the buffer the graph
reads or in a storage that `FillInputs` copies from (`FillFeeds`), and reading the
outputs makes that true of the pass that has ended (`ReadKeepsLayers`), also when
verify takes over the storages of prefill (`BindMoves`). `StoragesApart` and
`WrittenElsewhere` say that no write meant for one slot reaches another. For the
draft, a place divides into layer, kind and head in one way only (`PlaceOfSlot`,
`SlotOfPlace`), and without a cache the sizes leave one class to each input
(`StandardFeeds`).

The tokenizer recurses over its data. `TokenizerProofs` begins with what such
proofs need and the library only has with an operator as parameter: the least
element of a set of numbers (`NatLeast`, from the well-foundedness of `<`),
induction as a statement about such a set (`Induct`), and that the recursive
functions exist that count up or down (`RecursionUp`, `RecursionDown`). With
them the conversions and a sweep of merges are shown to return sequences.
`Ranking` gives the k-th element of a finite ordered set, which is how the
offsets are sorted.

For the merges the argument is that a sweep is a series of single merges. What
it has written so far, followed by what it has not read, is a word that single
merges reach (`Written`): a symbol that is copied leaves that word as it is
(`WrittenCopied`), and a pair that is met is the one a single merge takes next
(`WrittenMerged`). The latter needs two things of every moment of the sweep. No
occurrence of the pair begins in the written part: a merged symbol is longer than
both of its parts, so it begins and ends no such pair. And no pair comes before
it in the table: a pair that is new to the word contains the merged symbol, and
what makes a symbol comes before what uses it (`StillNoBetter`, from
`MergesAssumption`). A single merge keeps what the word spells and shortens it by
one symbol (`OnceKeepsSpelling`), so the reference, which merges as often as the
text has characters, gets past every word that is reached (`AfterStays`). That
needs `FlattenSeq` over concatenation (`FlattenConcat`), from induction over
sequences (`SeqInduct`).

For the text the argument has three parts. *Nothing is left out while encoding*:
the pieces between the cuts are the text (`PiecesJoin`), a piece survives both
conversions (`RoundTrip`), a match is never empty, so the pattern skips no
character (`MatchGoesOn`: each character is a letter, a digit, white space or
taken by the last alternatives), a round of merges keeps what the word spells,
and an added token spells itself. *Ids and bytes are read back*: a token has one
id (`IdRead`) and each byte has a character of its own (`SignsRead`: those moved
behind 255 are told apart by their rank), so a token stands for a window of the
bytes of the text (`TokenStands`). *Decoding a window gives the characters that
lie wholly in it* (`WindowDecoded`): from within a character each byte announces
nothing and is skipped, then characters are assembled as they were taken apart
(`CodeBytes`, the arithmetic of each length), and what begins and does not end
gives nothing, nor do its bytes. A character lies wholly in the window of one
token exactly if no token ends inside it (`KeptOrNot`), which is the condition
in `Unsplit`. `TokenDecoded` puts this together for one token.

Only model-checked: liveness (`ScanEnds`, `SyncEnds`, `Terminates`), which TLAPS
cannot prove here. Every safety invariant and action property of a passing run is
stated by a theorem.

## 5. What is not modelled

* Of the decode loop: the timing and summary text; which rows of the history the
  standard draft graph is fed (its proposals are arbitrary anyway).
* Of the sessions: `fillStandardRope`, `fillStandardMaskScale` and
  `fillCacheAwareInputs`, which nothing calls; of the draft binding, the tap and
  hidden outputs, which nothing reads.
* Of the tokenizer: how `tokenizer.json` is parsed; the look-ahead of the trie,
  which finds nothing for the built-in added tokens.
* Tensor value conversion (quantisation, half floats): pure functions of one
  value. The other modules take stored values as comparable.
* `build_android.sh`, a call of cmake; pushing to the device, which is external.
* Of the KV cache: `update` with a selection and its own attention mask, which
  nothing calls; `totalBytes`.
* Of the QNN runtime: the copied metadata, the choice of a provider version,
  driver entries other than `logCreate`, `deviceCreate` and `memRegister` being
  absent. One behaviour is visible in the model and exempted in its properties:
  when the metadata of a context binary is null or has an unsupported version,
  `copyGraphsFromBinaryInfo` throws (`qnn_runtime.cpp:70, 84, 95`) past
  `systemContextFree`, and that handle stays.
* Of the inputs of the target: past lengths that disagree between the block and
  the mask. Both callers pass the same `pos`, and `TargetInputs` has one.
* The draft and target networks themselves are external, and so is the vendored
  JSON parser.

## 6. What the checks found

`docs/deploy.md:12` names the policy "target output top-1", and the option
`--accept_topk` has no lower bound. With 0, `rankAcceptTensorAtRaw` returns its
default record (`runtime_io.cpp:927`) whose `argmax` is 0 before looking at the
row; the verify loop takes that as the scanned argmax and makes token 0 the next
token. Run `accept_none` shows the current token differing from the target's top
choice after one round. A draft id outside the vocabulary takes the same path
under the default policy.

`docs/deploy.md:15` says that prompts are consumed "using the packaged
`tokenizer.json`", whose pattern gives white space back: of a run before a word
the last character belongs to what follows, and a run with newlines ends with the
last newline. `qwen3TokenizerMatchPattern` takes every run whole: `iswspace` also
reads newlines (`qwen3_tokenizer.cpp:397`), so its branch for newlines is never
taken, and at line 408 it reads to the end of the run. Run `pretokens` shows it
for a newline and a blank at the end of a piece, before an added token: the
pattern ends a part at the newline, the code takes both. The same holds for two
blanks before a word.

Other differences from `tokenizer.json`, seen in the code and left out of the
alphabet and the tables of the runs: contractions are compared in lower case
only (the pattern has `(?i:`), digits are `iswdigit` and not `\p{N}`, only 16
added tokens are cut out, and the NFC normalizer is not applied.

`DecodeKeepsText` holds in the form that says what is lost: a character whose
bytes the merges divide between two tokens disappears from the printed text
(`qwen3_tokenizer.cpp:473`), because each token is decoded alone.

`MergesByRank` depends on the table, and nothing checks the table when it is
loaded. If a symbol can be made in two ways, one of which comes after a merge that
uses it, sweeps and single merges differ: with the merges `23`, `12`, `34`,
`12 34`, `x 1234`, `1234 x`, `23 4`, `1 234` in this order, `1234x1234` becomes
`1234`, `x1234` by sweeps and `1234x`, `1234` by single merges. The proof
therefore assumes more of the table than that each merge is made of earlier ones;
the packaged table meets it (section 4).

`run_dataset.sh` exits with 0 when samples fail (`package_8gen5.sh:128`);
`LogsTellOutcome` shows that the logs make up for it, and of two prompts with
the same base name only the last one's log is kept.

## 7. Plan

Done: `LogitSampler`/`LogitScan`, `KvCache`, `DraftWindow`/`DraftCache`,
`SpecDecode` over them with `TokenStream`, `TargetInputs`, `QnnRuntime`, the
tokenizer, the bindings, the process and the scripts.

Proved since: the driver, the packages and logs, the pairing of layers, and of
the tokenizer the added tokens, the types, the merges and the text that decoding
gives back.

Left: the hazards without a property listed in `PROJECT.json`, each with the
reason there; and the parts of section 5.
