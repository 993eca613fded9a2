----------------------------- MODULE TargetInputs -----------------------------
(***************************************************************************)
(* What a pass of the target graph is given besides its cache: token ids,  *)
(* position ids and the attention mask (fillBlockInputs, the two attention *)
(* maps and fillAttentionMaskBuffer of src/src/runtime_io.cpp, called by   *)
(* TargetGraphSession).  A row of the mask belongs to a new position; its  *)
(* columns are the slots of the context: the past from the front, the new  *)
(* positions at the back, whatever lies between unused.                    *)
(*                                                                         *)
(* A row copies the row of its parent in the attention map and adds its    *)
(* own column, so the mask is built by a chain of copies, not by a         *)
(* formula.  Row and column are numbers here, a mask cell a Boolean.       *)
(***************************************************************************)
EXTENDS Integers, FiniteSets

CONSTANTS
    ContextLen,    \* columns of the mask: its bytes / 2 / ar_len
    ArLens,        \* sequence lengths of the target graphs
    Tokens,        \* token ids a block may hold
    MaxCommitted   \* bound on n_past

ASSUME InputAssumption ==
    /\ ContextLen \in Nat /\ MaxCommitted \in Nat
    /\ ArLens \subseteq 1 .. ContextLen
    /\ Tokens \subseteq Int

VARIABLES
    arLen,         \* ar_len: rows of the pass
    nPast,         \* n_past and start_pos: both are pos in the caller
    block,         \* the tokens of the pass
    map,           \* the attention map of the pass
    ids,           \* the input_ids buffer
    positions,     \* the position_ids buffer
    mask,          \* the mask under construction
    i,             \* its loop counter
    pc

vars == <<arLen, nPast, block, map, ids, positions, mask, i, pc>>
pass == <<arLen, nPast, block, map>>

NewRows == 0 .. arLen - 1
Columns == 0 .. ContextLen - 1

\* The column of new position j, at the back of the context.
NewColumn(j) == ContextLen - arLen + j

\* makePrefillAttentionMap: row 0 has no parent, row n the row before it.
PrefillMap(len) == [n \in 0 .. len - 1 |-> IF n = 0 THEN -1 ELSE n - 1]

\* makeVerifyAttentionMap: counted up from -1.
VerifyMap(len) == [n \in 0 .. len - 1 |-> n - 1]

\* The runtime keeps the conversation inside the context: see SpecDecode.
Init ==
    /\ arLen \in ArLens
    /\ nPast \in 0 .. MaxCommitted /\ nPast <= ContextLen - arLen
    /\ block \in [0 .. arLen - 1 -> Tokens]
    /\ map \in {PrefillMap(arLen), VerifyMap(arLen)}
    /\ ids = [n \in 0 .. arLen - 1 |-> 0]
    /\ positions = [n \in 0 .. arLen - 1 |-> 0]
    /\ mask = [r \in 0 .. arLen - 1 |-> [c \in Columns |-> FALSE]]
    /\ i = 0
    /\ pc = "block"

\* Mutant: positions start one too late.
PositionPast(n) == nPast + n + 1

PositionOf(n) == nPast + n

FillBlock ==
    /\ pc = "block"
    /\ ids' = block
    /\ positions' = [n \in NewRows |-> PositionOf(n)]
    /\ pc' = "mask"
    /\ UNCHANGED <<pass, mask, i>>

\* Mutant: only the row's own column is set, the past is left out.
OwnOnly == [c \in Columns |-> FALSE]

\* What row i starts from: the past, or a copy of its parent's row.
Inherited == IF map[i] < 0 THEN [c \in Columns |-> c < nPast] ELSE mask[map[i]]

\* Mutant: a row's own column is counted from the end of the past.
OwnAfterPast == nPast + i

OwnColumn == NewColumn(i)

FillRow ==
    /\ pc = "mask" /\ i < arLen
    /\ mask' = [mask EXCEPT ![i] = [c \in Columns |-> c = OwnColumn \/ Inherited[c]]]
    /\ i' = i + 1
    /\ UNCHANGED <<pass, ids, positions, pc>>

MaskFilled ==
    /\ pc = "mask" /\ i >= arLen
    /\ pc' = "execute"
    /\ UNCHANGED <<pass, ids, positions, mask, i>>

Terminating == pc = "execute" /\ UNCHANGED vars

Next == FillBlock \/ FillRow \/ MaskFilled \/ Terminating

Spec == Init /\ [][Next]_vars
-----------------------------------------------------------------------------
TypeOK ==
    /\ arLen \in ArLens /\ nPast \in 0 .. ContextLen - arLen
    /\ block \in [NewRows -> Tokens] /\ map \in [NewRows -> -1 .. arLen - 2]
    /\ ids \in [NewRows -> Tokens \cup {0}]
    /\ positions \in [NewRows -> 0 .. ContextLen - 1]
    /\ mask \in [NewRows -> [Columns -> BOOLEAN]]
    /\ i \in 0 .. arLen
    /\ pc \in {"block", "mask", "execute"}

\* The columns row r should attend to: all of the past, and the new positions
\* up to its own.
Causal(r) == {c \in Columns : c < nPast \/ c \in NewColumn(0) .. NewColumn(r)}

Attends(r) == {c \in Columns : mask[r][c]}

(***************************************************************************)
(* When the graph executes, each new position attends to the whole past    *)
(* and to the new positions up to itself: to no later one, and to no       *)
(* column between, where rejected proposals of earlier rounds may lie.     *)
(* SpecDecode's description of a pass rests on this.                       *)
(***************************************************************************)
MaskIsCausal == pc = "execute" => \A r \in NewRows : Attends(r) = Causal(r)

(***************************************************************************)
(* The position a token is rotated for is the number of tokens before it   *)
(* that it attends to.  Ids, positions and mask are filled by separate     *)
(* calls from separate arguments.                                          *)
(***************************************************************************)
PositionCountsPast ==
    pc = "execute" => \A r \in NewRows : positions[r] = Cardinality(Attends(r)) - 1
=============================================================================
