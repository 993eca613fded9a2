---------------------------- MODULE KvCacheProofs ----------------------------
(***************************************************************************)
(* For every number of rows, context length and pair of graphs, moving the *)
(* rows in place between the two strides and appending to them never       *)
(* loses or misplaces a committed cell.                                    *)
(***************************************************************************)
EXTENDS KvCache, TLAPS

KvTypeOK ==
    /\ mem \in [Cells -> Value] /\ input \in [Cells -> Value]
    /\ out \in [RowIds \X Columns -> Value]
    /\ bound \in BOOLEAN
    /\ arLen \in ArLens /\ graph \in ArLens
    /\ done \in 0 .. Rows
    /\ past \in Nat /\ count \in 0 .. MaxArLen
    /\ pc \in {"idle", "move", "fill", "execute", "update"}

\* The rows the update has already been through hold the new columns too.
NewIntact ==
    \A r \in RowIds, j \in 0 .. count - 1 :
        r < done => mem[r * Stride(arLen) + (past + j)] = Cell(r, past + j)

OutputRight ==
    \A r \in RowIds, j \in 0 .. count - 1 : out[<<r, j>>] = Cell(r, past + j)

KvInv ==
    /\ KvTypeOK
    /\ past <= Stride(arLen)
    /\ pc = "move" => past < Stride(graph) /\ arLen # graph
    /\ pc \in {"fill", "execute", "update"} => arLen = graph /\ past < Stride(graph)
    /\ pc = "update" => /\ past + count <= Stride(graph)
                        /\ OutputRight /\ NewIntact
    /\ PastIntact
    /\ GraphSeesCache

LEMMA Strides ==
    ASSUME NEW ar \in ArLens
    PROVE  /\ Stride(ar) \in Nat /\ Stride(ar) <= MaxCacheLen /\ MaxCacheLen \in Nat
           /\ ar \in 1 .. MaxArLen
BY LayoutAssumption DEF ArLens, Stride, MaxCacheLen, MaxArLen

\* A row ends before the next one begins.
LEMMA RowsApart ==
    ASSUME NEW q \in Nat, NEW r \in Nat, q < r, NEW s \in Nat
    PROVE  q * s + s <= r * s
<1> DEFINE k == r - q - 1
<1>1. k \in Nat /\ r = (q + 1) + k  OBVIOUS
<1>2. r * s = (q + 1) * s + k * s  BY <1>1
<1>3. (q + 1) * s = q * s + s  OBVIOUS
<1>4. k * s \in Nat  BY <1>1
<1> HIDE DEF k
<1> QED  BY <1>2, <1>3, <1>4

LEMMA WiderRows ==
    ASSUME NEW r \in Nat, NEW s \in Nat, NEW t \in Nat, s <= t
    PROVE  r * s <= r * t
<1> DEFINE k == t - s
<1>1. k \in Nat /\ t = s + k  OBVIOUS
<1>2. r * t = r * s + r * k  BY <1>1
<1>3. r * k \in Nat  BY <1>1
<1> HIDE DEF k
<1> QED  BY <1>2, <1>3

\* Every cell of every row is inside the storage at either stride.
LEMMA InsideStorage ==
    ASSUME NEW r \in RowIds, NEW ar \in ArLens, NEW p \in 0 .. Stride(ar) - 1
    PROVE  r * Stride(ar) + p \in Cells
<1> DEFINE s == Stride(ar)
<1>1. s \in Nat /\ s <= MaxCacheLen /\ MaxCacheLen \in Nat  BY Strides
<1>2. r \in Nat /\ Rows \in Nat /\ r < Rows  BY LayoutAssumption DEF RowIds
<1>3. r * s + s <= Rows * s  BY <1>1, <1>2, RowsApart
<1>4. Rows * s <= Rows * MaxCacheLen  BY <1>1, <1>2, WiderRows
<1>5. /\ r * s \in Nat /\ Rows * s \in Nat /\ Rows * MaxCacheLen \in Nat
      /\ p \in Nat /\ p < s
  BY <1>1, <1>2
<1>6. r * s + p \in 0 .. Rows * MaxCacheLen - 1
  <2> HIDE DEF s
  <2> QED  BY <1>1, <1>3, <1>4, <1>5
<1> QED  BY <1>6 DEF Cells, Size

\* Two cells of two rows at one stride are different cells.
LEMMA RowsDisjoint ==
    ASSUME NEW q \in RowIds, NEW r \in RowIds, q # r, NEW ar \in ArLens,
           NEW c \in 0 .. Stride(ar) - 1, NEW d \in 0 .. Stride(ar) - 1
    PROVE  q * Stride(ar) + c # r * Stride(ar) + d
<1> DEFINE s == Stride(ar)
<1>1. s \in Nat /\ q \in Nat /\ r \in Nat  BY Strides DEF RowIds
<1>2. q * s \in Nat /\ r * s \in Nat  BY <1>1
<1>3. CASE q < r
  BY <1>1, <1>2, <1>3, RowsApart
<1>4. CASE r < q
  BY <1>1, <1>2, <1>4, RowsApart
<1> QED  BY <1>1, <1>3, <1>4

(***************************************************************************)
(* One memmove: the row it moves arrives whole, rows moved before and rows *)
(* still to move are left alone.                                           *)
(***************************************************************************)
LEMMA MoveRowKeeps ==
    ASSUME KvInv, MoveRow
    PROVE  PastIntact'
<1> DEFINE s == Stride(arLen)
           t == Stride(graph)
           x == RowToMove
<1>1. /\ KvTypeOK /\ past < t /\ past <= s /\ PastIntact /\ arLen # graph
      /\ pc = "move" /\ pc' = "move" /\ done < Rows /\ done' = done + 1
      /\ UNCHANGED <<arLen, graph, past>>
      /\ mem' = [a \in Cells |-> IF a \in To .. To + Kept - 1 THEN mem[From + (a - To)] ELSE mem[a]]
  BY DEF KvInv, MoveRow
<1>2. s \in Nat /\ t \in Nat /\ past \in Nat /\ done \in Nat /\ Rows \in Nat
      /\ arLen \in ArLens /\ graph \in ArLens
  BY <1>1, Strides, LayoutAssumption DEF KvTypeOK
<1>3. x \in RowIds /\ x \in Nat /\ To = x * t /\ From = x * s
  BY <1>1, <1>2 DEF RowToMove, RowIds, From, To
<1>4. Kept \in Nat /\ Kept <= s /\ Kept <= t /\ past <= Kept
  BY <1>1, <1>2 DEF Kept
<1>5. s # t
  BY <1>1, <1>2, LayoutAssumption DEF Stride, ArLens
<1>6. x * s \in Nat /\ x * t \in Nat
  BY <1>2, <1>3
<1> SUFFICES ASSUME NEW r \in RowIds, NEW p \in 0 .. past - 1
             PROVE  mem'[r * StrideOf(r)' + p] = Cell(r, p)
  BY <1>1 DEF PastIntact
<1>7. r \in Nat /\ r < Rows /\ r * s \in Nat /\ r * t \in Nat /\ p \in Nat /\ p < past
  BY <1>2 DEF RowIds
<1>8. r * s + p \in Cells /\ r * t + p \in Cells
  BY <1>1, <1>2, InsideStorage
<1>9. mem[r * StrideOf(r) + p] = Cell(r, p)
  BY <1>1 DEF PastIntact
<1>10. StrideOf(r)' = IF (t > s /\ r >= x) \/ (~(t > s) /\ r <= x) THEN t ELSE s
  BY <1>1, <1>2, <1>7 DEF StrideOf, HasMoved, RowToMove
<1>11. StrideOf(r) = IF (t > s /\ r > x) \/ (~(t > s) /\ r < x) THEN t ELSE s
  BY <1>1, <1>2, <1>7 DEF StrideOf, HasMoved, RowToMove
<1> HIDE DEF s, t, x
<1>12. CASE r = x
  <2>1. r * t + p \in To .. To + Kept - 1
    <3>1. r * t = x * t  BY <1>12
    <3> QED  BY <1>2, <1>3, <1>4, <1>6, <1>7, <3>1
  <2>2. mem'[r * t + p] = mem[From + ((r * t + p) - To)]
    BY <1>1, <1>8, <2>1
  <2>3. From + ((r * t + p) - To) = r * s + p
    BY <1>3, <1>6, <1>7, <1>12
  <2> QED  BY <1>9, <1>10, <1>11, <1>12, <1>2, <1>3, <2>2, <2>3
<1>13. CASE r # x /\ StrideOf(r) = t
  <2>1. r * t + p \notin To .. To + Kept - 1
    <3>1. CASE r < x
      <4>1. r * t + t <= x * t  BY <1>2, <1>3, <1>7, <3>1, RowsApart
      <4> QED  BY <1>1, <1>2, <1>3, <1>4, <1>6, <1>7, <4>1 DEF t
    <3>2. CASE x < r
      <4>1. x * t + t <= r * t  BY <1>2, <1>3, <1>7, <3>2, RowsApart
      <4> QED  BY <1>2, <1>3, <1>4, <1>6, <1>7, <4>1
    <3> QED  BY <1>3, <1>7, <1>13, <3>1, <3>2
  <2>2. StrideOf(r)' = t
    BY <1>2, <1>3, <1>5, <1>7, <1>10, <1>11, <1>13
  <2> QED  BY <1>1, <1>8, <1>9, <1>13, <2>1, <2>2
<1>14. CASE r # x /\ StrideOf(r) = s
  <2>1. r * s + p \notin To .. To + Kept - 1
    <3>1. CASE t > s
      <4>1. r < x  BY <1>2, <1>3, <1>5, <1>7, <1>11, <1>14, <3>1
      <4>2. r * s + s <= x * s  BY <1>2, <1>3, <1>7, <4>1, RowsApart
      <4>3. x * s <= x * t  BY <1>2, <1>3, <3>1, WiderRows
      <4>4. p < s  BY <1>1, <1>2, <1>7 DEF s
      <4> QED  BY <1>2, <1>3, <1>4, <1>6, <1>7, <4>2, <4>3, <4>4
    <3>2. CASE ~(t > s)
      <4>1. x < r  BY <1>2, <1>3, <1>5, <1>7, <1>11, <1>14, <3>2
      <4>2. x * s + s <= r * s  BY <1>2, <1>3, <1>7, <4>1, RowsApart
      <4>3. x * t <= x * s  BY <1>2, <1>3, <3>2, WiderRows
      <4>4. t < s  BY <1>2, <1>5, <3>2
      <4> QED  BY <1>2, <1>3, <1>4, <1>6, <1>7, <4>2, <4>3, <4>4
    <3> QED  BY <3>1, <3>2
  <2>2. StrideOf(r)' = s
    BY <1>2, <1>3, <1>5, <1>7, <1>10, <1>11, <1>14
  <2> QED  BY <1>1, <1>8, <1>9, <1>14, <2>1, <2>2
<1> QED  BY <1>11, <1>12, <1>13, <1>14

LEMMA MoveRowStep == KvInv /\ MoveRow => KvInv'
<1> SUFFICES ASSUME KvInv, MoveRow PROVE KvInv'
  OBVIOUS
<1>1. /\ KvTypeOK /\ past <= Stride(arLen) /\ past < Stride(graph) /\ arLen # graph
      /\ pc = "move" /\ pc' = "move" /\ done < Rows /\ done' = done + 1
      /\ UNCHANGED <<out, input, bound, arLen, graph, past, count>>
      /\ mem' = [a \in Cells |-> IF a \in To .. To + Kept - 1 THEN mem[From + (a - To)] ELSE mem[a]]
  BY DEF KvInv, MoveRow
<1>2. \A a \in To .. To + Kept - 1 : From + (a - To) \in Cells
  <2> DEFINE s == Stride(arLen)
             x == RowToMove
  <2>1. /\ s \in Nat /\ Stride(graph) \in Nat /\ x \in RowIds /\ x \in Nat
        /\ arLen \in ArLens /\ graph \in ArLens
    BY <1>1, Strides, LayoutAssumption DEF KvTypeOK, RowToMove, RowIds
  <2>2. Kept \in Nat /\ Kept <= s  BY <2>1 DEF Kept
  <2>3. From = x * s /\ To = x * Stride(graph)  BY DEF From, To
  <2>4. x * s \in Nat /\ x * Stride(graph) \in Nat  BY <2>1
  <2> SUFFICES ASSUME NEW a \in To .. To + Kept - 1 PROVE From + (a - To) \in Cells
    OBVIOUS
  <2>5. a - To \in 0 .. s - 1  BY <2>1, <2>2, <2>3, <2>4
  <2>6. x * s + (a - To) \in Cells  BY <2>1, <2>5, InsideStorage
  <2> QED  BY <2>3, <2>6
<1>3. mem' \in [Cells -> Value]
  BY <1>1, <1>2 DEF KvTypeOK
<1>4. KvTypeOK'
  BY <1>1, <1>3, LayoutAssumption DEF KvTypeOK
<1>5. PastIntact'
  BY MoveRowKeeps
<1> QED  BY <1>1, <1>4, <1>5 DEF KvInv, GraphSeesCache

LEMMA BeginStep ==
    ASSUME NEW ar \in ArLens, KvInv, Begin(ar)
    PROVE  KvInv'
<1>1. /\ KvTypeOK /\ past <= Stride(arLen) /\ past < Stride(ar) /\ PastIntact
      /\ pc = "idle" /\ graph' = ar /\ done' = 0
      /\ pc' = (IF ar = arLen THEN "fill" ELSE "move")
      /\ UNCHANGED <<mem, out, input, bound, arLen, past, count>>
  BY DEF KvInv, Begin
<1>2. KvTypeOK'
  BY <1>1, LayoutAssumption DEF KvTypeOK
<1>3. \A r \in RowIds : StrideOf(r)' = Stride(arLen) /\ StrideOf(r) = Stride(arLen)
  BY <1>1, LayoutAssumption DEF StrideOf, HasMoved, RowIds
<1>4. PastIntact'
  BY <1>1, <1>3 DEF PastIntact
<1> QED  BY <1>1, <1>2, <1>4 DEF KvInv, GraphSeesCache

LEMMA RearrangeDoneStep == KvInv /\ RearrangeDone => KvInv'
<1> SUFFICES ASSUME KvInv, RearrangeDone PROVE KvInv'
  OBVIOUS
<1>1. /\ KvTypeOK /\ past < Stride(graph) /\ PastIntact
      /\ pc = "move" /\ done = Rows /\ arLen' = graph /\ pc' = "fill"
      /\ UNCHANGED <<mem, out, input, bound, graph, done, past, count>>
  BY DEF KvInv, RearrangeDone
<1>2. \A r \in RowIds : StrideOf(r)' = Stride(graph) /\ StrideOf(r) = Stride(graph)
  BY <1>1, LayoutAssumption DEF StrideOf, HasMoved, RowIds
<1>3. PastIntact'
  BY <1>1, <1>2 DEF PastIntact
<1>4. KvTypeOK'
  BY <1>1 DEF KvTypeOK
<1>5. past' <= Stride(arLen)'
  BY <1>1, Strides DEF KvTypeOK
<1> QED  BY <1>1, <1>3, <1>4, <1>5 DEF KvInv, GraphSeesCache

LEMMA FillInputsStep == KvInv /\ FillInputs => KvInv'
<1> SUFFICES ASSUME KvInv, FillInputs PROVE KvInv'
  OBVIOUS
<1>1. /\ KvTypeOK /\ past < Stride(graph) /\ past <= Stride(arLen) /\ PastIntact
      /\ arLen = graph /\ pc = "fill" /\ pc' = "execute"
      /\ input' = (IF Aliased THEN input ELSE CopiedInput)
      /\ UNCHANGED <<mem, out, bound, arLen, graph, done, past, count>>
  BY DEF KvInv, FillInputs
<1>2. KvTypeOK'
  <2>1. CopiedInput \in [Cells -> Value]
    BY <1>1 DEF KvTypeOK, CopiedInput, Blank, Value
  <2> QED  BY <1>1, <2>1 DEF KvTypeOK
<1>3. PastIntact'
  BY <1>1 DEF PastIntact, StrideOf, HasMoved
<1>4. GraphSeesPast'
  <2> DEFINE s == Stride(graph)
  <2>1. s \in Nat /\ past \in Nat /\ graph \in ArLens /\ Rows \in Nat
    BY <1>1, Strides, LayoutAssumption DEF KvTypeOK
  <2> SUFFICES ASSUME NEW r \in RowIds, NEW p \in 0 .. past - 1
               PROVE  GraphReads(r, p)' = Cell(r, p)
    BY <1>1 DEF GraphSeesPast
  <2>2. r * s + p \in Cells  BY <1>1, <2>1, InsideStorage
  <2>3. mem[r * s + p] = Cell(r, p)
    BY <1>1 DEF PastIntact, StrideOf, HasMoved
  <2>4. r * s + p < Rows * s
    <3>1. r \in Nat /\ r < Rows  BY LayoutAssumption DEF RowIds
    <3>2. r * s + s <= Rows * s  BY <2>1, <3>1, RowsApart
    <3>3. r * s \in Nat /\ Rows * s \in Nat  BY <2>1, <3>1
    <3>4. p < s /\ p \in Nat  BY <1>1, <2>1
    <3> HIDE DEF s
    <3> QED  BY <2>1, <3>2, <3>3, <3>4
  <2>5. Aliased' = Aliased  BY <1>1 DEF Aliased
  <2>6. ~Aliased => input'[r * s + p] = mem[r * s + p]
    BY <1>1, <2>2, <2>4 DEF CopiedInput
  <2> QED  BY <1>1, <2>3, <2>5, <2>6 DEF GraphReads
<1> QED  BY <1>1, <1>2, <1>3, <1>4 DEF KvInv, GraphSeesCache

LEMMA ExecuteStep == KvInv /\ Execute => KvInv'
<1> SUFFICES ASSUME KvInv, Execute PROVE KvInv'
  OBVIOUS
<1>1. PICK n \in 1 .. graph : past + n <= Stride(graph) /\ count' = n
  BY DEF Execute
<1>2. /\ KvTypeOK /\ past < Stride(graph) /\ past <= Stride(arLen) /\ PastIntact
      /\ arLen = graph /\ pc = "execute" /\ pc' = "update" /\ done' = 0
      /\ out' = [c \in RowIds \X Columns |->
                   IF c[2] < graph /\ GraphSeesPast THEN Cell(c[1], past + c[2]) ELSE Blank]
      /\ GraphSeesPast
      /\ UNCHANGED <<mem, input, bound, arLen, graph, past>>
  BY DEF KvInv, Execute, GraphSeesCache
<1>3. graph \in 1 .. MaxArLen /\ past \in Nat /\ MaxArLen \in Nat
  BY <1>2, Strides, LayoutAssumption DEF KvTypeOK, MaxArLen
<1>4. out' \in [RowIds \X Columns -> Value]
  <2>1. \A c \in RowIds \X Columns : Cell(c[1], past + c[2]) \in Value /\ Blank \in Value
    BY <1>3 DEF RowIds, Columns, Cell, Blank, Value
  <2> QED  BY <1>2, <2>1
<1>5. KvTypeOK'
  BY <1>1, <1>2, <1>3, <1>4, LayoutAssumption DEF KvTypeOK
<1>6. OutputRight'
  <2> SUFFICES ASSUME NEW r \in RowIds, NEW j \in 0 .. n - 1
               PROVE  out'[<<r, j>>] = Cell(r, past + j)
    BY <1>1, <1>2 DEF OutputRight
  <2>1. j \in Columns /\ j < graph  BY <1>1, <1>3 DEF Columns
  <2> QED  BY <1>2, <2>1
<1>7. PastIntact' /\ NewIntact'
  BY <1>2 DEF PastIntact, StrideOf, HasMoved, NewIntact, RowIds
<1> QED  BY <1>1, <1>2, <1>5, <1>6, <1>7 DEF KvInv, GraphSeesCache

(***************************************************************************)
(* One memcpy of an update: the row gains its new columns; nothing else,   *)
(* in this row or another, is written.                                     *)
(***************************************************************************)
LEMMA UpdateRowStep == KvInv /\ UpdateRow => KvInv'
<1> SUFFICES ASSUME KvInv, UpdateRow PROVE KvInv'
  OBVIOUS
<1> DEFINE s == Stride(arLen)
           w == WriteAt(done)
<1>1. /\ KvTypeOK /\ past < s /\ past + count <= s /\ PastIntact
      /\ OutputRight /\ NewIntact /\ arLen = graph
      /\ pc = "update" /\ pc' = "update" /\ done < Rows /\ done' = done + 1
      /\ mem' = [a \in Cells |-> IF a \in w .. w + count - 1 THEN out[<<done, a - w>>] ELSE mem[a]]
      /\ UNCHANGED <<out, input, bound, arLen, graph, past, count>>
  BY DEF KvInv, UpdateRow
<1>2. /\ s \in Nat /\ past \in Nat /\ count \in Nat /\ done \in Nat /\ done \in RowIds
      /\ arLen \in ArLens /\ Rows \in Nat /\ count <= MaxArLen
  BY <1>1, Strides, LayoutAssumption DEF KvTypeOK, RowIds, MaxArLen
<1>3. w = done * s + past /\ done * s \in Nat
  BY <1>2 DEF WriteAt
<1> HIDE DEF s, w
<1>4. mem' \in [Cells -> Value]
  <2>1. \A a \in w .. w + count - 1 : <<done, a - w>> \in RowIds \X Columns
    BY <1>2, <1>3, LayoutAssumption DEF Columns, MaxArLen
  <2> QED  BY <1>1, <2>1 DEF KvTypeOK
<1>5. KvTypeOK'
  BY <1>1, <1>2, <1>4 DEF KvTypeOK
\* A column that is not one of row done's new ones keeps its value.
<1>6. ASSUME NEW r \in RowIds, NEW p \in 0 .. past + count - 1, r # done \/ p < past
      PROVE  mem'[r * s + p] = mem[r * s + p]
  <2>1. r * s + p \in Cells
    BY <1>1, <1>2, InsideStorage DEF s
  <2>2. r * s + p \notin w .. w + count - 1
    <3>1. CASE r = done
      <4>1. r * s = done * s  BY <3>1
      <4> QED  BY <1>2, <1>3, <1>6, <3>1, <4>1
    <3>2. CASE r # done
      <4> SUFFICES ASSUME r * s + p \in w .. w + count - 1 PROVE FALSE
        OBVIOUS
      <4> DEFINE d == (r * s + p) - done * s
      <4>1. r * s \in Nat  BY <1>2 DEF RowIds
      <4>2. d \in 0 .. s - 1  BY <1>1, <1>2, <1>3, <4>1
      <4>3. r * s + p = done * s + d  BY <1>2, <1>3, <4>1
      <4>4. p \in 0 .. s - 1  BY <1>1, <1>2
      <4> HIDE DEF d
      <4> QED  BY <1>2, <3>2, <4>2, <4>3, <4>4, RowsDisjoint DEF s
    <3> QED  BY <3>1, <3>2
  <2> QED  BY <1>1, <2>1, <2>2
\* The new columns of row done are the graph's.
<1>7. ASSUME NEW j \in 0 .. count - 1
      PROVE  mem'[done * s + (past + j)] = Cell(done, past + j)
  <2>1. past + j \in 0 .. s - 1  BY <1>1, <1>2
  <2>2. done * s + (past + j) \in Cells
    BY <1>2, <2>1, InsideStorage DEF s
  <2>3. /\ done * s + (past + j) \in w .. w + count - 1
        /\ (done * s + (past + j)) - w = j
    BY <1>2, <1>3
  <2>4. out[<<done, j>>] = Cell(done, past + j)  BY <1>1, <1>2 DEF OutputRight
  <2> QED  BY <1>1, <2>2, <2>3, <2>4
<1>8. PastIntact'
  <2> SUFFICES ASSUME NEW r \in RowIds, NEW p \in 0 .. past - 1
               PROVE  mem'[r * s + p] = Cell(r, p)
    BY <1>1 DEF PastIntact, StrideOf, HasMoved, s
  <2>1. mem[r * s + p] = Cell(r, p)
    BY <1>1 DEF PastIntact, StrideOf, HasMoved, s
  <2>2. p \in 0 .. past + count - 1 /\ p < past  BY <1>2
  <2> QED  BY <1>6, <2>1, <2>2
<1>9. NewIntact'
  <2> SUFFICES ASSUME NEW r \in RowIds, NEW j \in 0 .. count - 1, r < done + 1
               PROVE  mem'[r * s + (past + j)] = Cell(r, past + j)
    BY <1>1 DEF NewIntact, s
  <2>1. CASE r = done
    BY <1>7, <2>1
  <2>2. CASE r # done
    <3>1. r < done  BY <1>2, <2>2 DEF RowIds
    <3>2. mem[r * s + (past + j)] = Cell(r, past + j)
      BY <1>1, <3>1 DEF NewIntact, s
    <3>3. past + j \in 0 .. past + count - 1  BY <1>2
    <3> QED  BY <1>6, <2>2, <3>2, <3>3
  <2> QED  BY <2>1, <2>2
<1>10. OutputRight'
  BY <1>1 DEF OutputRight
<1> QED  BY <1>1, <1>2, <1>5, <1>8, <1>9, <1>10 DEF KvInv, GraphSeesCache, s

LEMMA UpdateDoneStep == KvInv /\ UpdateDone => KvInv'
<1> SUFFICES ASSUME KvInv, UpdateDone PROVE KvInv'
  OBVIOUS
<1>1. /\ KvTypeOK /\ past + count <= Stride(arLen) /\ PastIntact /\ NewIntact
      /\ pc = "update" /\ done = Rows /\ past' = past + count /\ pc' = "idle"
      /\ UNCHANGED <<mem, out, input, bound, arLen, graph, done, count>>
  BY DEF KvInv, UpdateDone, NewPast
<1>2. past \in Nat /\ count \in Nat /\ Rows \in Nat
  BY <1>1, LayoutAssumption DEF KvTypeOK, MaxArLen
<1>3. KvTypeOK'
  BY <1>1, <1>2 DEF KvTypeOK
<1>4. \A r \in RowIds : StrideOf(r)' = Stride(arLen) /\ StrideOf(r) = Stride(arLen)
  BY <1>1 DEF StrideOf, HasMoved
<1>5. ASSUME NEW r \in RowIds, NEW p \in 0 .. past + count - 1
      PROVE  mem[r * Stride(arLen) + p] = Cell(r, p)
  <2>1. CASE p < past
    BY <1>1, <1>2, <1>4, <2>1 DEF PastIntact
  <2>2. CASE p >= past
    <3>1. p - past \in 0 .. count - 1 /\ past + (p - past) = p  BY <1>2, <2>2
    <3>2. r < done  BY <1>1, <1>2 DEF RowIds
    <3> QED  BY <1>1, <3>1, <3>2 DEF NewIntact
  <2> QED  BY <1>2, <2>1, <2>2
<1>6. PastIntact'
  <2> SUFFICES ASSUME NEW r \in RowIds, NEW p \in 0 .. past' - 1
               PROVE  mem'[r * StrideOf(r)' + p] = Cell(r, p)
    BY DEF PastIntact
  <2>1. past' - 1 = past + count - 1 /\ mem' = mem  BY <1>1, <1>2
  <2> QED  BY <1>4, <1>5, <2>1
<1> QED  BY <1>1, <1>3, <1>6 DEF KvInv, GraphSeesCache

LEMMA BindStep == KvInv /\ Bind => KvInv'
BY DEF KvInv, Bind, BoundContents, KvTypeOK, PastIntact, StrideOf, HasMoved, GraphSeesCache

LEMMA KvInitStep == Init => KvInv
<1> SUFFICES ASSUME Init PROVE KvInv
  OBVIOUS
<1>1. Blank \in Value  BY DEF Blank, Value
<1>2. PrefillSeq \in ArLens  BY DEF ArLens
<1>3. Stride(PrefillSeq) \in Nat  BY <1>2, Strides
<1>4. mem \in [Cells -> Value] /\ input \in [Cells -> Value]
  BY <1>1 DEF Init
<1>5. out \in [RowIds \X Columns -> Value]
  BY <1>1 DEF Init
<1>6. /\ bound = FALSE /\ arLen = PrefillSeq /\ graph = PrefillSeq /\ done = 0
      /\ past = 0 /\ count = 0 /\ pc = "idle"
  BY DEF Init
<1>7. KvTypeOK
  <2>1. 0 \in 0 .. Rows /\ 0 \in Nat /\ 0 \in 0 .. MaxArLen
    BY LayoutAssumption DEF MaxArLen
  <2> QED  BY <1>2, <1>4, <1>5, <1>6, <2>1 DEF KvTypeOK
<1> QED
  BY <1>3, <1>6, <1>7 DEF KvInv, PastIntact, GraphSeesCache

LEMMA KvInvariant == Spec => []KvInv
<1>1. KvInv /\ [Next]_vars => KvInv'
  <2> SUFFICES ASSUME KvInv, [Next]_vars PROVE KvInv'
    OBVIOUS
  <2>1. CASE UNCHANGED vars
    BY <2>1 DEF vars, KvInv, KvTypeOK, PastIntact, StrideOf, HasMoved, GraphSeesCache,
                GraphSeesPast, GraphReads, Aliased, NewIntact, OutputRight
  <2>2. CASE Terminating
    BY <2>1, <2>2 DEF Terminating
  <2> QED
    BY <2>1, <2>2, BindStep, BeginStep, MoveRowStep, RearrangeDoneStep, FillInputsStep,
       ExecuteStep, UpdateRowStep, UpdateDoneStep DEF Next
<1> QED  BY <1>1, KvInitStep, PTL DEF Spec

\* The storage, its counters and the number of committed positions stay in
\* their sets: past never exceeds the columns the storage has.
THEOREM KvTypeCorrect == Spec => []TypeOK
<1>1. KvInv => TypeOK
  <2> SUFFICES ASSUME KvInv PROVE past \in 0 .. MaxCacheLen
    BY DEF KvInv, KvTypeOK, TypeOK
  <2>1. past \in Nat /\ past <= Stride(arLen) /\ arLen \in ArLens
    BY DEF KvInv, KvTypeOK
  <2> QED  BY <2>1, Strides
<1> QED  BY <1>1, KvInvariant, PTL

(***************************************************************************)
(* No row of the cache is ever lost: not by moving rows over one another   *)
(* in place, in either direction, nor by appending columns to them.        *)
(***************************************************************************)
THEOREM PastStaysIntact == Spec => []PastIntact
<1>1. KvInv => PastIntact  BY DEF KvInv
<1> QED  BY <1>1, KvInvariant, PTL

\* Each graph finds the whole past in its input, copied or bound.
THEOREM GraphGetsCache == Spec => []GraphSeesCache
<1>1. KvInv => GraphSeesCache  BY DEF KvInv
<1> QED  BY <1>1, KvInvariant, PTL

\* No memmove and no memcpy of the row loops touches memory outside the
\* storage that init allocated, or that binding replaced it with.
THEOREM AccessStaysInside == Spec => []AccessInside
<1>1. KvInv => AccessInside
  <2> SUFFICES ASSUME KvInv PROVE AccessInside
    OBVIOUS
  <2>1. /\ arLen \in ArLens /\ graph \in ArLens /\ done \in Nat /\ Rows \in Nat
        /\ past \in Nat /\ count \in Nat
        /\ Stride(arLen) \in Nat /\ Stride(graph) \in Nat
    BY Strides, LayoutAssumption DEF KvInv, KvTypeOK, MaxArLen
  <2>2. ASSUME pc = "move", done < Rows, NEW c \in 0 .. Kept - 1
        PROVE  From + c \in Cells /\ To + c \in Cells
    <3>1. RowToMove \in RowIds  BY <2>1, <2>2 DEF RowToMove, RowIds
    <3>2. c \in 0 .. Stride(arLen) - 1 /\ c \in 0 .. Stride(graph) - 1
      BY <2>1 DEF Kept
    <3> QED  BY <2>1, <3>1, <3>2, InsideStorage DEF From, To
  <2>3. ASSUME pc = "update", done < Rows, NEW j \in 0 .. count - 1
        PROVE  WriteAt(done) + j \in Cells
    <3>1. done \in RowIds  BY <2>1, <2>3 DEF RowIds
    <3>2. past + count <= Stride(arLen)  BY <2>3 DEF KvInv
    <3>3. past + j \in 0 .. Stride(arLen) - 1  BY <2>1, <3>2
    <3>4. done * Stride(arLen) + (past + j) \in Cells
      BY <2>1, <3>1, <3>3, InsideStorage
    <3>5. done * Stride(arLen) \in Nat  BY <2>1
    <3>6. WriteAt(done) + j = done * Stride(arLen) + (past + j)
      BY <2>1, <3>5 DEF WriteAt
    <3> QED  BY <3>4, <3>6
  <2> QED  BY <2>2, <2>3 DEF AccessInside
<1> QED  BY <1>1, KvInvariant, PTL
=============================================================================
