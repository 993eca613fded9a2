-------------------------- MODULE TargetInputsProofs --------------------------
(***************************************************************************)
(* The mask of a pass is causal, for every context, graph length and past. *)
(* The argument is an induction on the rows, carried by the loop counter:  *)
(* the rows below i are finished, each one column wider than the last.     *)
(***************************************************************************)
EXTENDS TargetInputs, FiniteSetTheorems, TLAPS

\* The finished row r, as a function.
CausalRow(r) == [c \in Columns |-> c < nPast \/ c \in NewColumn(0) .. NewColumn(r)]

Lengths == arLen \in ArLens /\ nPast \in 0 .. ContextLen - arLen

Chain == map = [n \in NewRows |-> n - 1]

Finished ==
    /\ i \in 0 .. arLen
    /\ mask \in [NewRows -> [Columns -> BOOLEAN]]
    /\ \A r \in NewRows : r < i => mask[r] = CausalRow(r)

InputInv ==
    /\ Lengths
    /\ Chain
    /\ Finished
    /\ pc \in {"block", "mask", "execute"}
    /\ pc = "execute" => i = arLen

\* Both ways the code writes the attention map give the same chain.
LEMMA MapsAgree ==
    ASSUME NEW len \in Nat \ {0}
    PROVE  PrefillMap(len) = VerifyMap(len)
BY DEF PrefillMap, VerifyMap

LEMMA InputInit == Init => InputInv
<1> SUFFICES ASSUME Init PROVE InputInv
    OBVIOUS
<1>1. arLen \in Nat \ {0} /\ nPast \in Nat /\ ContextLen \in Nat
    BY InputAssumption DEF Init
<1>2. Lengths
    BY <1>1 DEF Init, Lengths
<1>3. Chain
    BY <1>1, MapsAgree DEF Init, Chain, VerifyMap, NewRows
<1>4. Finished
    BY <1>1 DEF Init, Finished, NewRows
<1> QED
    BY <1>2, <1>3, <1>4 DEF Init, InputInv

LEMMA RowStep ==
    ASSUME InputInv, FillRow
    PROVE  Finished'
<1>1. /\ arLen \in Nat \ {0} /\ nPast \in Nat /\ ContextLen \in Nat
      /\ nPast <= ContextLen - arLen
      /\ i \in 0 .. arLen - 1 /\ i \in NewRows
    BY InputAssumption DEF InputInv, Lengths, Finished, FillRow, NewRows
<1>2. arLen' = arLen /\ nPast' = nPast /\ i' = i + 1 /\ NewRows' = NewRows
    BY DEF FillRow, pass, NewRows
<1>3. mask' = [mask EXCEPT ![i] = [c \in Columns |-> c = OwnColumn \/ Inherited[c]]]
    BY DEF FillRow
<1>4. [c \in Columns |-> c = OwnColumn \/ Inherited[c]] = CausalRow(i)
  <2>1. CASE i = 0
    <3>1. map[i] < 0
        BY <1>1, <2>1 DEF InputInv, Chain
    <3>2. Inherited = [c \in Columns |-> c < nPast]
        BY <3>1 DEF Inherited
    <3>3. \A c \in Columns : (c = OwnColumn \/ c < nPast)
                             <=> (c < nPast \/ c \in NewColumn(0) .. NewColumn(i))
        BY <1>1, <2>1 DEF OwnColumn, NewColumn, Columns
    <3> QED
        BY <3>2, <3>3 DEF CausalRow
  <2>2. CASE i > 0
    <3>1. map[i] = i - 1 /\ ~(map[i] < 0)
        BY <1>1, <2>2 DEF InputInv, Chain
    <3>2. i - 1 \in NewRows /\ i - 1 < i
        BY <1>1, <2>2 DEF NewRows
    <3>3. Inherited = CausalRow(i - 1)
        BY <3>1, <3>2 DEF Inherited, InputInv, Finished
    <3>4. \A c \in Columns :
             (c = OwnColumn \/ c < nPast \/ c \in NewColumn(0) .. NewColumn(i - 1))
             <=> (c < nPast \/ c \in NewColumn(0) .. NewColumn(i))
        BY <1>1, <2>2 DEF OwnColumn, NewColumn, Columns
    <3> QED
        BY <3>3, <3>4 DEF CausalRow
  <2> QED
    BY <1>1, <2>1, <2>2
<1>5. \A r : CausalRow(r)' = CausalRow(r)
    BY <1>2 DEF CausalRow, NewColumn, Columns
<1>6. mask' \in [NewRows -> [Columns -> BOOLEAN]]
  <2>1. CausalRow(i) \in [Columns -> BOOLEAN]
    BY DEF CausalRow
  <2> QED
    BY <1>1, <1>3, <1>4, <2>1 DEF InputInv, Finished
<1>7. ASSUME NEW r \in NewRows, r < i + 1
      PROVE  mask'[r] = CausalRow(r)
  <2>1. CASE r = i
    BY <1>1, <1>3, <1>4, <2>1 DEF InputInv, Finished
  <2>2. CASE r # i
    <3>1. r < i
        BY <1>1, <1>7, <2>2 DEF NewRows
    <3>2. mask'[r] = mask[r]
        BY <1>1, <1>3, <2>2 DEF InputInv, Finished
    <3> QED
        BY <3>1, <3>2 DEF InputInv, Finished
  <2> QED
    BY <2>1, <2>2
<1> QED
    BY <1>1, <1>2, <1>5, <1>6, <1>7 DEF Finished, Columns

LEMMA InputNext == InputInv /\ [Next]_vars => InputInv'
<1> SUFFICES ASSUME InputInv, [Next]_vars PROVE InputInv'
    OBVIOUS
<1>1. CASE FillBlock
    BY <1>1 DEF FillBlock, InputInv, Lengths, Chain, Finished, CausalRow, NewColumn,
                NewRows, Columns, pass
<1>2. CASE FillRow
  <2>1. Finished'
    BY <1>2, RowStep
  <2>2. (Lengths /\ Chain)'
    BY <1>2 DEF FillRow, InputInv, Lengths, Chain, NewRows, pass
  <2>3. pc' = "mask"
    BY <1>2 DEF FillRow
  <2> QED
    BY <2>1, <2>2, <2>3 DEF InputInv
<1>3. CASE MaskFilled
  <2>1. i = arLen
    BY <1>3, InputAssumption DEF MaskFilled, InputInv, Lengths, Finished
  <2> QED
    BY <1>3, <2>1 DEF MaskFilled, InputInv, Lengths, Chain, Finished, CausalRow, NewColumn,
                      NewRows, Columns, pass
<1>4. CASE Terminating \/ UNCHANGED vars
  <2>1. UNCHANGED <<arLen, nPast, map, mask, i, pc>>
    BY <1>4 DEF Terminating, vars
  <2> QED
    BY <2>1 DEF InputInv, Lengths, Chain, Finished, CausalRow, NewColumn, NewRows, Columns
<1> QED
    BY <1>1, <1>2, <1>3, <1>4 DEF Next

\* At the execution every row attends to the past and to the new positions up
\* to its own, whatever ContextLen, ArLens and the past are.
THEOREM PassIsCausal == Spec => []MaskIsCausal
<1>1. InputInv => MaskIsCausal
  <2> SUFFICES ASSUME InputInv, pc = "execute", NEW r \in NewRows
               PROVE  Attends(r) = Causal(r)
    BY DEF MaskIsCausal
  <2>1. r < i
    BY InputAssumption DEF InputInv, Lengths, NewRows
  <2>2. mask[r] = CausalRow(r)
    BY <2>1 DEF InputInv, Finished
  <2> QED
    BY <2>2 DEF Attends, Causal, CausalRow
<1> QED
    BY <1>1, InputInit, InputNext, PTL DEF Spec
-----------------------------------------------------------------------------
\* What the positions add to the invariant.
Placed == pc # "block" => positions = [n \in NewRows |-> nPast + n]

FilledInv == InputInv /\ TypeOK /\ Placed

LEMMA FilledInit == Init => FilledInv
<1> SUFFICES ASSUME Init PROVE FilledInv
    OBVIOUS
<1>1. arLen \in 1 .. ContextLen /\ nPast \in Nat /\ ContextLen \in Nat
    BY InputAssumption DEF Init
<1>2. TypeOK
    BY <1>1, MapsAgree DEF Init, TypeOK, NewRows, VerifyMap
<1> QED
    BY <1>2, InputInit DEF Init, FilledInv, Placed

LEMMA FilledNext == FilledInv /\ [Next]_vars => FilledInv'
<1> SUFFICES ASSUME FilledInv, [Next]_vars PROVE FilledInv'
    OBVIOUS
<1>1. InputInv'
    BY InputNext DEF FilledInv
<1>2. arLen \in 1 .. ContextLen /\ nPast \in 0 .. ContextLen - arLen /\ ContextLen \in Nat
    BY InputAssumption DEF FilledInv, InputInv, Lengths
<1>3. CASE FillBlock
  <2>1. positions' = [n \in NewRows |-> nPast + n]
    BY <1>3 DEF FillBlock, PositionOf
  <2>2. positions' \in [NewRows -> 0 .. ContextLen - 1]
    BY <1>2, <2>1 DEF NewRows
  <2> QED
    BY <1>1, <1>3, <2>1, <2>2 DEF FillBlock, FilledInv, TypeOK, Placed, NewRows, Columns, pass
<1>4. CASE FillRow
  <2>1. /\ mask' \in [NewRows' -> [Columns -> BOOLEAN]] /\ i' \in 0 .. arLen'
    BY <1>1 DEF InputInv, Finished, Columns
  <2> QED
    BY <1>1, <1>4, <2>1 DEF FillRow, FilledInv, TypeOK, Placed, NewRows, Columns, pass
<1>5. CASE MaskFilled
    BY <1>1, <1>5 DEF MaskFilled, FilledInv, TypeOK, Placed, NewRows, Columns, pass
<1>6. CASE Terminating \/ UNCHANGED vars
    BY <1>1, <1>6 DEF Terminating, vars, FilledInv, TypeOK, Placed, NewRows, Columns
<1> QED
    BY <1>3, <1>4, <1>5, <1>6 DEF Next

\* Whatever is filled in, the input buffers keep their shape and their range.
THEOREM InputsTypeCorrect == Spec => []TypeOK
<1>1. FilledInv => TypeOK
    BY DEF FilledInv
<1> QED
    BY <1>1, FilledInit, FilledNext, PTL DEF Spec

(***************************************************************************)
(* The rotary position of each new token is the number of tokens before it *)
(* that its row of the mask lets it attend to: the past and the rows above *)
(* lie in the context without overlapping, because past and block fit.     *)
(***************************************************************************)
THEOREM PositionsCount == Spec => []PositionCountsPast
<1>1. FilledInv => PositionCountsPast
  <2> SUFFICES ASSUME FilledInv, pc = "execute", NEW r \in NewRows
               PROVE  positions[r] = Cardinality(Attends(r)) - 1
    BY DEF PositionCountsPast
  <2>1. /\ arLen \in 1 .. ContextLen /\ nPast \in 0 .. ContextLen - arLen
        /\ ContextLen \in Nat /\ r \in 0 .. arLen - 1
    BY InputAssumption DEF FilledInv, InputInv, Lengths, NewRows
  <2> DEFINE old == 0 .. nPast - 1
  <2> DEFINE new == NewColumn(0) .. NewColumn(r)
  <2>2. r < i
    BY <2>1 DEF FilledInv, InputInv
  <2>3. Attends(r) = old \cup new
    <3>1. mask[r] = CausalRow(r)
      BY <2>2 DEF FilledInv, InputInv, Finished
    <3>2. Attends(r) = {c \in Columns : c < nPast \/ c \in new}
      BY <3>1 DEF Attends, CausalRow
    <3>3. \A c : c \in Columns /\ (c < nPast \/ c \in new) <=> c \in old \cup new
      BY <2>1 DEF Columns, NewColumn
    <3> QED
      BY <3>2, <3>3
  <2>4. IsFiniteSet(old) /\ Cardinality(old) = nPast
    BY <2>1, FS_Interval
  <2>5. IsFiniteSet(new) /\ Cardinality(new) = r + 1
    <3>1. NewColumn(0) \in Int /\ NewColumn(r) \in Int
          /\ NewColumn(r) = NewColumn(0) + r
      BY <2>1 DEF NewColumn
    <3> QED
      BY <2>1, <3>1, FS_Interval
  <2>6. old \cap new = {}
    BY <2>1 DEF NewColumn
  <2>7. Cardinality(old \cup new) = nPast + (r + 1)
    <3> HIDE DEF old, new
    <3>1. Cardinality(old \cap new) = 0
      BY <2>6, FS_EmptySet
    <3>2. Cardinality(old \cup new) = Cardinality(old) + Cardinality(new) - Cardinality(old \cap new)
      BY <2>4, <2>5, FS_Union
    <3> QED
      BY <2>1, <2>4, <2>5, <3>1, <3>2
  <2>8. positions[r] = nPast + r
    BY DEF FilledInv, Placed
  <2> HIDE DEF old, new
  <2> QED
    BY <2>1, <2>3, <2>7, <2>8
<1> QED
    BY <1>1, FilledInit, FilledNext, PTL DEF Spec
=============================================================================
