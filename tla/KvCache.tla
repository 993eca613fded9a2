------------------------------- MODULE KvCache -------------------------------
(***************************************************************************)
(* The target's KV cache in memory (src/src/kv_cache.cpp, the cache        *)
(* transfer of runtime_io.hpp and bindTargetCacheToVerifyBuffers).         *)
(*                                                                         *)
(* A storage is a flat array read as Rows rows of S cells, cell (r, p)     *)
(* being the value of row r for position p.  For keys a row is one         *)
(* (head, dim) pair and a cell one element; for values a row is one head   *)
(* and a cell the head_dim elements of a position: both move the same way, *)
(* so one storage of one layer stands for all.  The stride S is            *)
(* context_len - ar_len of the graph that runs next, so switching between  *)
(* the prefill and the verify graph moves every row, in place, one row at  *)
(* a time.  After the prefill the storage is rebound to the verify graph's *)
(* own input buffer and is no longer copied.                               *)
(*                                                                         *)
(* The runtime prefills, binds and then only verifies.  The client here    *)
(* may alternate between the two graphs, so that both directions of        *)
(* rearrange are covered.                                                  *)
(***************************************************************************)
EXTENDS Integers

CONSTANTS
    Rows,          \* heads * head_dim (keys) or heads (values)
    ContextLen,    \* opt.context_len
    PrefillSeq,    \* opt.prefill_seq
    VerifySeq      \* opt.verify_seq

\* max_cache_len is context_len - verify_seq: the verify stride is the widest.
ASSUME LayoutAssumption ==
    /\ Rows \in Nat \ {0}
    /\ ContextLen \in Nat /\ PrefillSeq \in Nat /\ VerifySeq \in Nat \ {0}
    /\ VerifySeq < PrefillSeq /\ PrefillSeq < ContextLen

MaxCacheLen == ContextLen - VerifySeq
MaxArLen    == PrefillSeq
Size        == Rows * MaxCacheLen
Cells       == 0 .. Size - 1
RowIds      == 0 .. Rows - 1
Columns     == 0 .. MaxArLen - 1
ArLens      == {PrefillSeq, VerifySeq}

Stride(ar)  == ContextLen - ar

Cell(r, p) == [row |-> r, pos |-> p]
Blank      == [row |-> -1, pos |-> -1]
Value      == [row : Int, pos : Int]

VARIABLES
    mem,           \* key_in / value_in
    out,           \* key_out / value_out, by row and new position
    input,         \* the graph's own past-KV input buffer, when it is a copy
    bound,         \* the storage is the verify graph's input buffer
    arLen,         \* cur_ar_len_
    graph,         \* ar_len of the graph whose pass is under way
    done,          \* rows the current row loop has finished
    past,          \* n_past: positions committed to the cache
    count,         \* n_update of the update under way
    pc

vars == <<mem, out, input, bound, arLen, graph, done, past, count, pc>>

Init ==
    /\ mem = [a \in Cells |-> Blank]
    /\ out = [c \in RowIds \X Columns |-> Blank]
    /\ input = mem
    /\ bound = FALSE
    /\ arLen = PrefillSeq /\ graph = PrefillSeq
    /\ done = 0 /\ past = 0 /\ count = 0
    /\ pc = "idle"

\* Mutant: the verify buffer is bound without the contents of the old one.
BoundEmpty == [a \in Cells |-> Blank]

BoundContents == mem

\* bindTargetCacheToVerifyBuffers, at the stride of the last pass.
Bind ==
    /\ pc = "idle" /\ ~bound
    /\ mem' = BoundContents
    /\ bound' = TRUE
    /\ UNCHANGED <<out, input, arLen, graph, done, past, count, pc>>

\* A pass of the graph with sequence length ar begins with rearrange(ar).
Begin(ar) ==
    /\ pc = "idle"
    /\ past < Stride(ar)
    /\ graph' = ar
    /\ done' = 0
    /\ pc' = IF ar = arLen THEN "fill" ELSE "move"
    /\ UNCHANGED <<mem, out, input, bound, arLen, past, count>>

\* Mutant: rows move front to back in both directions.
AlwaysForward == done

\* Mutant: the backward loop starts one row past the end.
OneRowPast == IF Stride(graph) > Stride(arLen) THEN Rows - done ELSE done

\* Widening goes from the last row to the first, narrowing from the first.
RowToMove == IF Stride(graph) > Stride(arLen) THEN Rows - 1 - done ELSE done

From == RowToMove * Stride(arLen)
To   == RowToMove * Stride(graph)

\* The cells of one memmove: the columns that exist at both strides.
Kept == IF Stride(arLen) <= Stride(graph) THEN Stride(arLen) ELSE Stride(graph)

\* One memmove of rearrangeKey or rearrangeValue.
MoveRow ==
    /\ pc = "move" /\ done < Rows
    /\ mem' = [a \in Cells |-> IF a \in To .. To + Kept - 1 THEN mem[From + (a - To)] ELSE mem[a]]
    /\ done' = done + 1
    /\ UNCHANGED <<out, input, bound, arLen, graph, past, count, pc>>

RearrangeDone ==
    /\ pc = "move" /\ done = Rows
    /\ arLen' = graph
    /\ pc' = "fill"
    /\ UNCHANGED <<mem, out, input, bound, graph, done, past, count>>

\* The verify graph reads the storage itself once it is bound.
Aliased == bound /\ graph = VerifySeq

CopiedInput == [a \in Cells |-> IF a < Rows * Stride(graph) THEN mem[a] ELSE Blank]

\* fillTargetCacheInputs: an aliased buffer is skipped, another overwritten.
FillInputs ==
    /\ pc = "fill"
    /\ input' = IF Aliased THEN input ELSE CopiedInput
    /\ pc' = "execute"
    /\ UNCHANGED <<mem, out, bound, arLen, graph, done, past, count>>

\* What the graph reads for row r and position p, at its own stride.
GraphReads(r, p) ==
    LET a == r * Stride(graph) + p IN IF Aliased THEN mem[a] ELSE input[a]

GraphSeesPast == \A r \in RowIds, p \in 0 .. past - 1 : GraphReads(r, p) = Cell(r, p)

(***************************************************************************)
(* The graph (external) returns the rows of its graph new positions, right *)
(* ones only if it was given a right past; fillTargetCacheOutputs hands    *)
(* them over.  The caller then updates with some of them, as many as fit.  *)
(***************************************************************************)
Execute ==
    /\ pc = "execute"
    /\ out' = [c \in RowIds \X Columns |->
                  IF c[2] < graph /\ GraphSeesPast THEN Cell(c[1], past + c[2]) ELSE Blank]
    /\ \E n \in 1 .. graph :
          /\ past + n <= Stride(graph)
          /\ count' = n
    /\ done' = 0
    /\ pc' = "update"
    /\ UNCHANGED <<mem, input, bound, arLen, graph, past>>

\* write_ptr of updateKey and updateValue for row r.
WriteAt(r) == r * Stride(arLen) + past

\* One memcpy of updateKey or updateValue.
UpdateRow ==
    LET w == WriteAt(done) IN
    /\ pc = "update" /\ done < Rows
    /\ mem' = [a \in Cells |-> IF a \in w .. w + count - 1 THEN out[<<done, a - w>>] ELSE mem[a]]
    /\ done' = done + 1
    /\ UNCHANGED <<out, input, bound, arLen, graph, past, count, pc>>

\* Mutant: every position of the pass is committed, not n_update of them.
WholePass == past + graph

NewPast == past + count

UpdateDone ==
    /\ pc = "update" /\ done = Rows
    /\ past' = NewPast
    /\ pc' = "idle"
    /\ UNCHANGED <<mem, out, input, bound, arLen, graph, done, count>>

Full == pc = "idle" /\ bound /\ \A ar \in ArLens : past >= Stride(ar)

Terminating == Full /\ UNCHANGED vars

Next ==
    \/ Bind
    \/ \E ar \in ArLens : Begin(ar)
    \/ MoveRow \/ RearrangeDone
    \/ FillInputs \/ Execute
    \/ UpdateRow \/ UpdateDone
    \/ Terminating

Spec == Init /\ [][Next]_vars
-----------------------------------------------------------------------------
TypeOK ==
    /\ mem \in [Cells -> Value] /\ input \in [Cells -> Value]
    /\ out \in [RowIds \X Columns -> Value]
    /\ bound \in BOOLEAN
    /\ arLen \in ArLens /\ graph \in ArLens
    /\ done \in 0 .. Rows
    /\ past \in 0 .. MaxCacheLen /\ count \in 0 .. MaxArLen
    /\ pc \in {"idle", "move", "fill", "execute", "update"}

\* Where row r lives: a moved row is at the new stride, the others at the old.
HasMoved(r) ==
    pc = "move" /\ IF Stride(graph) > Stride(arLen) THEN r >= Rows - done ELSE r < done

StrideOf(r) == IF HasMoved(r) THEN Stride(graph) ELSE Stride(arLen)

(***************************************************************************)
(* No committed key or value is ever lost or overwritten: at every step of *)
(* every rearrange and update each row still holds its past positions, at  *)
(* the stride it is then read with.  The moves overlap in memory, so a     *)
(* wrong order destroys rows that have not moved yet.                      *)
(***************************************************************************)
PastIntact ==
    \A r \in RowIds, p \in 0 .. past - 1 : mem[r * StrideOf(r) + p] = Cell(r, p)

(***************************************************************************)
(* When a graph executes, its input buffer (the copy, or the storage it is *)
(* bound to) holds every past position where that graph's stride looks for *)
(* it.  Binding replaces the storage between two passes at different       *)
(* strides, and from then on nothing is copied any more.                   *)
(***************************************************************************)
GraphSeesCache == pc = "execute" => GraphSeesPast

(***************************************************************************)
(* Every cell a row loop touches is inside the storage.  memmove and       *)
(* memcpy do not check, and the storage is only as large as the verify     *)
(* stride needs.                                                           *)
(***************************************************************************)
AccessInside ==
    /\ pc = "move" /\ done < Rows =>
         \A c \in 0 .. Kept - 1 : From + c \in Cells /\ To + c \in Cells
    /\ pc = "update" /\ done < Rows =>
         \A j \in 0 .. count - 1 : WriteAt(done) + j \in Cells
=============================================================================
