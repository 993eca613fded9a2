--------------------------- MODULE LogitScanProofs ---------------------------
(***************************************************************************)
(* For every vocabulary, register width and row, the scans of LogitScan    *)
(* return what RankAccept of LogitSampler says.                            *)
(***************************************************************************)
EXTENDS LogitScan, FiniteSetTheorems, TLAPS

\* The candidates ranked above `token' among the first n values.
AboveIn(n) == {t \in 0 .. n - 1 : row[t] > row[token]}

Counted == greater = Cardinality(AboveIn(i))

\* `best' is the first of the greatest values among the first n.
LeadsIn(n) ==
    /\ bestV = row[best]
    /\ \A u \in 0 .. n - 1 : row[u] < bestV \/ (row[u] = bestV /\ best <= u)

ScanTypeOK ==
    /\ row \in Rows
    /\ token \in Int /\ k \in Int /\ neon \in BOOLEAN
    /\ pc \in {"start", "scan", "max", "find", "count", "done"}
    /\ i \in Nat /\ best \in Ids /\ bestV \in Nat

ScanInv ==
    /\ ScanTypeOK
    /\ pc \in {"scan", "max", "find", "count"} => token \in Ids /\ k > 0
    /\ pc \in {"scan", "max", "find"} => i <= Vocab
    /\ pc = "start" => i = 0 /\ best = 0 /\ greater = 0 /\ result = NoRank
    /\ pc = "scan" => LeadsIn(i) /\ Counted /\ best <= i
    /\ pc \in {"max", "find"} => best = 0 /\ greater = 0
    /\ pc = "max" => \A u \in 0 .. i - 1 : row[u] <= bestV
    /\ pc = "find" =>
         /\ \A u \in Ids : row[u] <= bestV
         /\ \A u \in 0 .. i - 1 : row[u] # bestV
    /\ pc = "count" => LeadsIn(Vocab) /\ Counted /\ i <= Vocab
    /\ ScanIsRank

LEMMA AboveFinite ==
    ASSUME NEW n \in Nat
    PROVE  /\ IsFiniteSet(AboveIn(n))
           /\ Cardinality(AboveIn(n)) \in Nat
<1>1. IsFiniteSet(0 .. n - 1)  BY FS_Interval
<1>2. AboveIn(n) \in SUBSET (0 .. n - 1)  BY DEF AboveIn
<1> QED  BY <1>1, <1>2, FS_Subset, FS_CardinalityType

LEMMA FirstIsArgMax ==
    ASSUME ScanTypeOK, LeadsIn(Vocab)
    PROVE  ArgMax(row) = best
<1>1. \A u \in Ids : row[u] \in Int
  BY ValueAssumption DEF ScanTypeOK, Rows
<1>2. best \in FirstGreatest(row)
  BY <1>1, VocabAssumption DEF ScanTypeOK, LeadsIn, FirstGreatest, Ids
<1>3. \A t \in FirstGreatest(row) : t = best
  BY <1>1, <1>2, VocabAssumption DEF FirstGreatest, Ids
<1> QED  BY <1>2, <1>3 DEF ArgMax

LEMMA AboveAll == AboveIn(Vocab) = {t \in Ids : row[t] > row[token]}
  BY DEF AboveIn, Ids

LEMMA ScanStep == ScanInv /\ Scan => ScanInv'
<1> SUFFICES ASSUME ScanInv, Scan PROVE ScanInv'
  OBVIOUS
<1> USE VocabAssumption, ValueAssumption
<1>1. /\ ScanTypeOK /\ LeadsIn(i) /\ Counted /\ best <= i /\ token \in Ids /\ k > 0
      /\ i \in Nat /\ i < Vocab /\ i' = i + 1 /\ pc = "scan" /\ pc' = "scan"
      /\ row' = row /\ token' = token /\ k' = k /\ neon' = neon
  BY DEF ScanInv, Scan, input, ScanTypeOK
<1>2. \A u \in Ids : row[u] \in Nat
  BY <1>1 DEF ScanTypeOK, Rows
<1>3. i \in Ids  BY <1>1 DEF Ids
<1>4. ScanTypeOK'
  BY <1>1, <1>2, <1>3 DEF ScanTypeOK, Scan
<1>5. LeadsIn(i)'
  <2>1. CASE row[i] > bestV
    BY <1>1, <1>2, <1>3, <2>1 DEF LeadsIn, Scan, Beats, Ids, ScanTypeOK
  <2>2. CASE ~(row[i] > bestV)
    <3>1. best' = best /\ bestV' = bestV  BY <2>2 DEF Scan, Beats
    <3>2. row[i] < bestV \/ (row[i] = bestV /\ best <= i)
      BY <1>1, <1>2, <1>3, <2>2 DEF ScanTypeOK
    <3> QED  BY <1>1, <3>1, <3>2 DEF LeadsIn
  <2> QED  BY <2>1, <2>2
<1>6. Counted'
  <2>1. IsFiniteSet(AboveIn(i)) /\ i \notin AboveIn(i)
    BY <1>1, AboveFinite DEF AboveIn
  <2>2. AboveIn(i + 1) = IF row[i] > row[token] THEN AboveIn(i) \cup {i} ELSE AboveIn(i)
    BY <1>1 DEF AboveIn
  <2>3. Cardinality(AboveIn(i) \cup {i}) = Cardinality(AboveIn(i)) + 1
    BY <2>1, FS_AddElement
  <2>4. AboveIn(i)' = AboveIn(i + 1)
    BY <1>1 DEF AboveIn
  <2> QED  BY <1>1, <2>2, <2>3, <2>4 DEF Counted, Scan
<1>7. i' <= Vocab /\ best' <= i'  BY <1>1 DEF Scan, ScanTypeOK, Ids
<1> QED  BY <1>1, <1>4, <1>5, <1>6, <1>7 DEF ScanInv, ScanIsRank

LEMMA BlockInside ==
    ASSUME ScanInv, i < Vocab
    PROVE  /\ Width \in Nat \ {0} /\ i + Width <= Vocab
           /\ Block \subseteq Ids
BY VocabAssumption, LanesAssumption DEF ScanInv, ScanTypeOK, Width, Block, Ids

LEMMA VectorMaxStep == ScanInv /\ VectorMax => ScanInv'
<1> SUFFICES ASSUME ScanInv, VectorMax PROVE ScanInv'
  OBVIOUS
<1> USE VocabAssumption, ValueAssumption
<1>1. /\ ScanTypeOK /\ token \in Ids /\ k > 0 /\ best = 0 /\ greater = 0
      /\ i < Vocab /\ pc = "max" /\ pc' = "max" /\ i' = i + Width
      /\ UNCHANGED <<row, token, k, neon, best, greater, result>>
      /\ \A u \in 0 .. i - 1 : row[u] <= bestV
  BY DEF ScanInv, VectorMax, input
<1>2. \A u \in Ids : row[u] \in Nat  BY <1>1 DEF ScanTypeOK, Rows
<1>3. Width \in Nat \ {0} /\ i + Width <= Vocab /\ Block \subseteq Ids
  BY <1>1, BlockInside
<1>4. PICK m \in {bestV} \cup {row[j] : j \in Block} :
         /\ \A v \in {bestV} \cup {row[j] : j \in Block} : v <= m
         /\ bestV' = m
  BY DEF VectorMax
<1>5. m \in Nat  BY <1>1, <1>2, <1>3 DEF ScanTypeOK
<1>6. ScanTypeOK'  BY <1>1, <1>3, <1>4, <1>5 DEF ScanTypeOK
<1>7. bestV <= m /\ \A j \in Block : row[j] <= m  BY <1>4
<1>8. \A u \in 0 .. i' - 1 : row'[u] <= bestV'
  <2> SUFFICES ASSUME NEW u \in 0 .. i' - 1 PROVE row[u] <= m
    BY <1>1, <1>4
  <2>1. u \in 0 .. i - 1 \/ u \in Block
    BY <1>1, <1>3 DEF Block, ScanTypeOK
  <2>2. u \in Ids  BY <1>1, <1>3 DEF Ids, ScanTypeOK
  <2> QED  BY <1>1, <1>2, <1>5, <1>7, <2>1, <2>2 DEF ScanTypeOK
<1> QED  BY <1>1, <1>3, <1>6, <1>8 DEF ScanInv, ScanIsRank

LEMMA VectorCountStep == ScanInv /\ VectorCount => ScanInv'
<1> SUFFICES ASSUME ScanInv, VectorCount PROVE ScanInv'
  OBVIOUS
<1> USE VocabAssumption, ValueAssumption
<1>1. /\ ScanTypeOK /\ token \in Ids /\ k > 0 /\ LeadsIn(Vocab) /\ Counted
      /\ i < Vocab /\ pc = "count" /\ pc' = "count" /\ i' = i + Width
      /\ greater' = greater + Cardinality({j \in Block : row[j] > row[token]})
      /\ UNCHANGED <<row, token, k, neon, best, bestV, result>>
  BY DEF ScanInv, VectorCount, input
<1>2. Width \in Nat \ {0} /\ i + Width <= Vocab /\ Block \subseteq Ids
  BY <1>1, BlockInside
<1> DEFINE New == {j \in Block : row[j] > row[token]}
<1>3. i \in Nat  BY <1>1 DEF ScanTypeOK
<1>4. IsFiniteSet(AboveIn(i)) /\ Cardinality(AboveIn(i)) \in Nat
  BY <1>3, AboveFinite
<1>5. IsFiniteSet(New)
  <2>1. IsFiniteSet(Block)  BY <1>2, <1>3, FS_Interval DEF Block
  <2> QED  BY <2>1, FS_Subset, New \in SUBSET Block
<1>6. AboveIn(i) \cap New = {}
  BY <1>2, <1>3 DEF AboveIn, Block
<1>7. AboveIn(i)' = AboveIn(i) \cup New
  BY <1>1, <1>2, <1>3 DEF AboveIn, Block
<1>8. Cardinality(AboveIn(i) \cup New) = Cardinality(AboveIn(i)) + Cardinality(New)
  <2>1. Cardinality(New) \in Nat  BY <1>5, FS_CardinalityType
  <2>2. Cardinality(AboveIn(i) \cap New) = 0  BY <1>6, FS_EmptySet
  <2> QED  BY <1>4, <1>5, <2>1, <2>2, FS_Union
<1>9. Counted'  BY <1>1, <1>7, <1>8 DEF Counted
<1>10. ScanTypeOK' /\ LeadsIn(Vocab)' /\ i' <= Vocab
  BY <1>1, <1>2 DEF ScanTypeOK, LeadsIn
<1> QED  BY <1>1, <1>9, <1>10 DEF ScanInv, ScanIsRank

LEMMA EnterStep == ScanInv /\ Enter => ScanInv'
<1> SUFFICES ASSUME ScanInv, Enter PROVE ScanInv'
  OBVIOUS
<1> USE VocabAssumption, ValueAssumption
<1>1. /\ ScanTypeOK /\ token \in Ids /\ k > 0 /\ i = 0 /\ best = 0 /\ greater = 0
      /\ UNCHANGED <<row, token, k, neon, i, best, greater, result>>
      /\ pc' = (IF neon THEN "max" ELSE "scan") /\ bestV' = (IF neon THEN 0 ELSE row[0])
  BY DEF ScanInv, Enter, input
<1>2. row[0] \in Nat  BY <1>1 DEF ScanTypeOK, Rows, Ids
<1>3. ScanTypeOK'  BY <1>1, <1>2 DEF ScanTypeOK
<1>4. AboveIn(0)' = {}  BY DEF AboveIn
<1>5. Counted'  BY <1>1, <1>4, FS_EmptySet DEF Counted
<1>6. pc' = "scan" => LeadsIn(i)'  BY <1>1 DEF LeadsIn
<1> QED  BY <1>1, <1>3, <1>5, <1>6 DEF ScanInv, ScanIsRank

LEMMA FindStep == ScanInv /\ (MaxKnown \/ FindSkip \/ FindHit) => ScanInv'
<1> SUFFICES ASSUME ScanInv, MaxKnown \/ FindSkip \/ FindHit PROVE ScanInv'
  OBVIOUS
<1> USE VocabAssumption, ValueAssumption
<1>1. ScanTypeOK /\ (pc \in {"max", "find"} => /\ token \in Ids /\ k > 0
                                              /\ best = 0 /\ greater = 0)
  BY DEF ScanInv
<1>2. \A u \in Ids : row[u] \in Nat  BY <1>1 DEF ScanTypeOK, Rows
<1>3. CASE MaxKnown
  <2>1. ScanTypeOK'  BY <1>1, <1>3 DEF ScanTypeOK, MaxKnown, input
  <2>2. \A u \in Ids : row'[u] <= bestV'
    BY <1>3 DEF MaxKnown, input, ScanInv, Ids, ScanTypeOK
  <2> QED  BY <1>1, <1>3, <2>1, <2>2 DEF MaxKnown, input, ScanInv, ScanIsRank
<1>4. CASE FindSkip
  <2>1. ScanTypeOK'  BY <1>1, <1>4 DEF ScanTypeOK, FindSkip, input
  <2>2. \A u \in 0 .. i' - 1 : row'[u] # bestV'
    BY <1>1, <1>4 DEF FindSkip, input, ScanInv, ScanTypeOK
  <2>3. i' <= Vocab  BY <1>1, <1>4 DEF FindSkip, ScanTypeOK
  <2> QED  BY <1>1, <1>4, <2>1, <2>2, <2>3 DEF FindSkip, input, ScanInv, ScanIsRank
<1>5. CASE FindHit
  <2>1. ScanTypeOK'  BY <1>1, <1>5 DEF ScanTypeOK, FindHit, Found, input, Ids
  <2>2. LeadsIn(Vocab)'
    <3> SUFFICES ASSUME NEW u \in 0 .. Vocab - 1
                 PROVE  row[u] < bestV \/ (row[u] = bestV /\ i <= u)
      BY <1>1, <1>5 DEF FindHit, Found, input, LeadsIn, ScanTypeOK
    <3>1. row[u] <= bestV /\ row[u] \in Nat  BY <1>2, <1>5 DEF ScanInv, FindHit, Ids
    <3>2. CASE u < i  BY <1>1, <1>5, <3>1, <3>2 DEF ScanInv, FindHit, ScanTypeOK
    <3>3. CASE i <= u  BY <1>1, <3>1, <3>3 DEF ScanTypeOK
    <3> QED  BY <1>1, <3>2, <3>3 DEF ScanTypeOK
  <2>3. AboveIn(0)' = {}  BY DEF AboveIn
  <2>4. Counted'  BY <1>1, <1>5, <2>3, FS_EmptySet DEF Counted, FindHit
  <2> QED  BY <1>1, <1>5, <2>1, <2>2, <2>4 DEF FindHit, input, ScanInv, ScanIsRank
<1> QED  BY <1>3, <1>4, <1>5

LEMMA ReturnStep == ScanInv /\ Return => ScanInv'
<1> SUFFICES ASSUME ScanInv, Return PROVE ScanInv'
  OBVIOUS
<1>1. /\ ScanTypeOK /\ i = Vocab /\ token \in Ids /\ k > 0 /\ LeadsIn(Vocab) /\ Counted
      /\ UNCHANGED <<row, token, k, neon, i, best, bestV, greater>>
      /\ pc' = "done" /\ result' = RankOf(best, greater, token, k)
  BY VocabAssumption DEF ScanInv, Return, input, ScanTypeOK
<1>2. ArgMax(row) = best  BY <1>1, FirstIsArgMax
<1>3. GreaterCount(row, token) = greater
  BY <1>1, AboveAll DEF GreaterCount, Counted
<1>4. ScanIsRank'
  <2> DEFINE logits == [r \in {0} |-> row]
  <2>1. 0 \in DOMAIN logits /\ logits[0] = row  OBVIOUS
  <2>2. RankAccept(logits, 0, token, k) = RankOf(best, greater, token, k)
    BY <1>1, <1>2, <1>3, <2>1 DEF RankAccept, ScanTypeOK
  <2> QED  BY <1>1, <2>2 DEF ScanIsRank
<1>5. ScanTypeOK'  BY <1>1 DEF ScanTypeOK
<1> QED  BY <1>1, <1>4, <1>5 DEF ScanInv

LEMMA RejectStep == ScanInv /\ Reject => ScanInv'
<1> SUFFICES ASSUME ScanInv, Reject PROVE ScanInv'
  OBVIOUS
<1>1. /\ ScanTypeOK' /\ pc' = "done" /\ (token \notin Ids \/ k <= 0)
      /\ UNCHANGED <<row, token, k, result>>
  BY DEF ScanInv, ScanTypeOK, Reject, input
<1>2. result = NoRank
  BY DEF ScanInv, Reject
<1>3. ScanIsRank'  BY <1>1, <1>2 DEF ScanIsRank, RankAccept
<1> QED  BY <1>1, <1>3 DEF ScanInv

LEMMA ScanInvariant == Spec => []ScanInv
<1>1. Init => ScanInv
  BY VocabAssumption, ValueAssumption
  DEF Init, ScanInv, ScanTypeOK, ScanIsRank, Ids
<1>2. ScanInv /\ [Next]_vars => ScanInv'
  <2> SUFFICES ASSUME ScanInv, [Next]_vars PROVE ScanInv'
    OBVIOUS
  <2>1. CASE UNCHANGED vars
    BY <2>1 DEF vars, ScanInv, ScanTypeOK, LeadsIn, Counted, AboveIn, ScanIsRank
  <2>2. CASE Terminating
    BY <2>1, <2>2 DEF Terminating
  <2> QED
    BY <2>1, <2>2, RejectStep, EnterStep, ScanStep, VectorMaxStep, FindStep,
       VectorCountStep, ReturnStep DEF Next
<1> QED  BY <1>1, <1>2, PTL DEF Spec

(***************************************************************************)
(* Whatever the vocabulary, the block width and the row, the record that   *)
(* the scans of rankAcceptTensorAtRaw return is the one that RankAccept    *)
(* defines.                                                                *)
(***************************************************************************)
THEOREM ScanReturnsRank == Spec => []ScanIsRank
<1>1. ScanInv => ScanIsRank  BY DEF ScanInv
<1> QED  BY <1>1, ScanInvariant, PTL

(***************************************************************************)
(* And for every positive k acceptance is exactly membership in the top k: *)
(* the predicate the verify loop relies on and tokenInTopKAtRaw states.    *)
(***************************************************************************)
THEOREM ScanAcceptsTopK == Spec => []AcceptedIffInTopK
<1>1. ScanInv => AcceptedIffInTopK
  <2> SUFFICES ASSUME ScanInv, pc = "done", k > 0
               PROVE  result.accepted <=> TokenInTopK(row, token, k)
    BY DEF AcceptedIffInTopK
  <2> DEFINE logits == [r \in {0} |-> row]
  <2>1. result = RankAccept(logits, 0, token, k) /\ k \in Int
    BY DEF ScanInv, ScanIsRank, ScanTypeOK
  <2>2. 0 \in DOMAIN logits /\ logits[0] = row  OBVIOUS
  <2>3. CASE token \notin Ids
    BY <2>1, <2>3 DEF RankAccept, NoRank, TokenInTopK
  <2>4. CASE token \in Ids
    <3>1. result = RankOf(ArgMax(row), GreaterCount(row, token), token, k)
      BY <2>1, <2>2, <2>4 DEF RankAccept
    <3> QED  BY <2>4, <3>1 DEF RankOf, TokenInTopK
  <2> QED  BY <2>3, <2>4
<1> QED  BY <1>1, ScanInvariant, PTL
-----------------------------------------------------------------------------
\* Not more values are ranked above the candidate than have been scanned.
LEMMA AboveBounded ==
    ASSUME NEW n \in 0 .. Vocab
    PROVE  Cardinality(AboveIn(n)) \in 0 .. Vocab
<1>1. IsFiniteSet(0 .. n - 1) /\ Cardinality(0 .. n - 1) = n
  BY VocabAssumption, FS_Interval
<1>2. AboveIn(n) \in SUBSET (0 .. n - 1)  BY DEF AboveIn
<1>3. /\ Cardinality(AboveIn(n)) <= Cardinality(0 .. n - 1)
      /\ Cardinality(AboveIn(n)) \in Nat
  BY <1>1, <1>2, FS_Subset, FS_CardinalityType
<1> QED  BY <1>1, <1>3, VocabAssumption

(***************************************************************************)
(* The counters and the record stay in range: the loop counter, which      *)
(* advances by a vector or by one value, never passes the vocabulary, and  *)
(* the argmax is a token.                                                  *)
(***************************************************************************)
THEOREM ScanTypeCorrect == Spec => []TypeOK
<1> USE VocabAssumption, ValueAssumption, TopKAssumption
<1>1. Init => TypeOK
  BY DEF Init, TypeOK, NoRank, Ids, Rows
<1>2. TypeOK /\ ScanInv /\ ScanInv' /\ [Next]_vars => TypeOK'
  <2> SUFFICES ASSUME TypeOK, ScanInv, ScanInv', [Next]_vars PROVE TypeOK'
    OBVIOUS
  <2>1. \A u \in Ids : row[u] \in 0 .. MaxValue
    BY DEF TypeOK, Rows
  <2>2. CASE Reject \/ Terminating \/ UNCHANGED vars
    BY <2>2 DEF TypeOK, Reject, Terminating, vars, input
  <2>3. CASE Enter
    <3>1. 0 \in Ids  BY DEF Ids
    <3> QED  BY <2>1, <2>3, <3>1 DEF TypeOK, Enter, input
  <2>4. CASE Scan
    <3>1. i \in Ids /\ i + 1 \in 0 .. Vocab  BY <2>4 DEF Scan, TypeOK, Ids
    <3>2. greater' \in 0 .. Vocab
      <4>1. pc' = "scan" /\ row' = row /\ token' = token /\ i' = i + 1
        BY <2>4 DEF Scan, input
      <4>2. greater' = Cardinality(AboveIn(i + 1))
        BY <4>1 DEF ScanInv, Counted, AboveIn
      <4> QED  BY <3>1, <4>2, AboveBounded
    <3> QED  BY <2>1, <2>4, <3>1, <3>2 DEF TypeOK, Scan, input
  <2>5. CASE VectorMax
    <3>1. Width \in Nat \ {0} /\ i + Width <= Vocab /\ Block \subseteq Ids
      BY <2>5, BlockInside DEF VectorMax
    <3>2. bestV' \in {bestV} \cup {row[j] : j \in Block}  BY <2>5 DEF VectorMax
    <3>3. bestV' \in 0 .. MaxValue  BY <2>1, <3>1, <3>2 DEF TypeOK
    <3>4. i' \in 0 .. Vocab  BY <2>5, <3>1 DEF TypeOK, VectorMax
    <3> QED  BY <2>5, <3>3, <3>4 DEF TypeOK, VectorMax, input
  <2>6. CASE MaxKnown \/ FindSkip
    BY <2>6 DEF TypeOK, MaxKnown, FindSkip, input
  <2>7. CASE FindHit
    BY <2>7 DEF TypeOK, FindHit, Found, Ids, input
  <2>8. CASE VectorCount
    <3>1. Width \in Nat \ {0} /\ i + Width <= Vocab
      BY <2>8, BlockInside DEF VectorCount
    <3>2. i' \in 0 .. Vocab /\ pc' = "count" /\ row' = row /\ token' = token
      BY <2>8, <3>1 DEF TypeOK, VectorCount, input
    <3>3. greater' = Cardinality(AboveIn(i'))
      BY <3>2 DEF ScanInv, Counted, AboveIn
    <3>4. greater' \in 0 .. Vocab  BY <3>2, <3>3, AboveBounded
    <3> QED  BY <2>8, <3>2, <3>4 DEF TypeOK, VectorCount, input
  <2>9. CASE Return
    <3>1. result' = RankOf(best, greater, token, k)  BY <2>9 DEF Return
    <3>2. best \in Ids /\ greater \in 0 .. Vocab /\ k \in Int /\ token \in Int
      BY DEF TypeOK
    <3>3. result' \in [argmax : Ids, greater : 0 .. Vocab, accepted : BOOLEAN]
      <4> DEFINE accepted == IF k <= 1 THEN best = token ELSE greater < k
      <4>1. accepted \in BOOLEAN
        <5>1. (best = token) \in BOOLEAN /\ (greater < k) \in BOOLEAN
          BY <3>2
        <5>2. CASE k <= 1  BY <5>1, <5>2, Zenon
        <5>3. CASE ~(k <= 1)  BY <5>1, <5>3, Zenon
        <5> QED  BY <5>2, <5>3
      <4>2. result' = [argmax |-> best, greater |-> greater, accepted |-> accepted]
        BY <3>1 DEF RankOf
      <4> HIDE DEF accepted
      <4> QED  BY <3>2, <4>1, <4>2
    <3> QED  BY <2>9, <3>3 DEF TypeOK, Return, input
  <2> QED
    BY <2>2, <2>3, <2>4, <2>5, <2>6, <2>7, <2>8, <2>9 DEF Next
<1> QED  BY <1>1, <1>2, ScanInvariant, PTL DEF Spec
=============================================================================
