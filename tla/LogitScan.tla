------------------------------ MODULE LogitScan ------------------------------
(***************************************************************************)
(* The loops of rankAcceptTensorAtRaw, one iteration per step.  A build    *)
(* for aarch64 scans a 16-bit row with argmaxU16Neon and                   *)
(* countGreaterU16Neon (blocks of Lanes values, then a scalar tail);       *)
(* every other row goes through the one-pass scalar loop.  Both must       *)
(* return what the operator RankAccept of LogitSampler describes, and that *)
(* is the operator the decode loop is modelled with.                       *)
(***************************************************************************)
EXTENDS LogitSampler

CONSTANTS
    Lanes,        \* values per vector register: 8 in the NEON code
    MaxValue,     \* logits are raw unsigned values 0 .. MaxValue
    MaxTopK       \* bound on --accept_topk

ASSUME LanesAssumption == Lanes \in Nat \ {0}
ASSUME ValueAssumption == MaxValue \in Nat
ASSUME TopKAssumption  == MaxTopK \in Nat

VARIABLES
    row,          \* the row of logits, ptr[0 .. vocab-1]
    token,        \* the candidate, possibly outside the vocabulary
    k,            \* top_k
    neon,         \* which of the two implementations the build uses
    pc,
    i,            \* loop counter
    best,         \* index of the greatest value so far
    bestV,        \* the greatest value so far
    greater,      \* values above the candidate's so far
    result        \* RankAcceptResult

vars  == <<row, token, k, neon, pc, i, best, bestV, greater, result>>
input == <<row, token, k, neon>>

Rows == [Ids -> 0 .. MaxValue]

Init ==
    /\ row \in Rows
    /\ token \in -1 .. Vocab
    /\ k \in 0 .. MaxTopK
    /\ neon \in BOOLEAN
    /\ pc = "start"
    /\ i = 0 /\ best = 0 /\ bestV = 0 /\ greater = 0
    /\ result = NoRank

\* The guard at the head of the function: the default result is returned.
Reject ==
    /\ pc = "start"
    /\ token \notin Ids \/ k <= 0
    /\ pc' = "done"
    /\ UNCHANGED <<input, i, best, bestV, greater, result>>

Enter ==
    /\ pc = "start"
    /\ token \in Ids /\ k > 0
    /\ pc' = IF neon THEN "max" ELSE "scan"
    /\ bestV' = IF neon THEN 0 ELSE row[0]
    /\ UNCHANGED <<input, i, best, greater, result>>

\* Mutant: a tie replaces the running maximum.
BeatsOrTies(v, w) == v >= w

Beats(v, w) == v > w

Scan ==
    /\ pc = "scan" /\ i < Vocab
    /\ best'    = IF Beats(row[i], bestV) THEN i ELSE best
    /\ bestV'   = IF Beats(row[i], bestV) THEN row[i] ELSE bestV
    /\ greater' = IF row[i] > row[token] THEN greater + 1 ELSE greater
    /\ i' = i + 1
    /\ UNCHANGED <<input, pc, result>>

\* Mutant: the tail loop forgets to advance.
TailStuck == IF i + Lanes <= Vocab THEN Lanes ELSE 0

\* How many values the next vector step consumes: a block, or one of the tail.
Width == IF i + Lanes <= Vocab THEN Lanes ELSE 1
Block == i .. i + Width - 1

VectorMax ==
    /\ pc = "max" /\ i < Vocab
    /\ \E m \in {bestV} \cup {row[j] : j \in Block} :
          /\ \A v \in {bestV} \cup {row[j] : j \in Block} : v <= m
          /\ bestV' = m
    /\ i' = i + Width
    /\ UNCHANGED <<input, pc, best, greater, result>>

MaxKnown ==
    /\ pc = "max" /\ i >= Vocab
    /\ pc' = "find" /\ i' = 0
    /\ UNCHANGED <<input, best, bestV, greater, result>>

FindSkip ==
    /\ pc = "find" /\ i < Vocab /\ row[i] # bestV
    /\ i' = i + 1
    /\ UNCHANGED <<input, pc, best, bestV, greater, result>>

\* Mutant: the index is taken after the increment.
FoundPast == i + 1

Found == i

FindHit ==
    /\ pc = "find" /\ i < Vocab /\ row[i] = bestV
    /\ best' = Found /\ i' = 0 /\ pc' = "count"
    /\ UNCHANGED <<input, bestV, greater, result>>

VectorCount ==
    /\ pc = "count" /\ i < Vocab
    /\ greater' = greater + Cardinality({j \in Block : row[j] > row[token]})
    /\ i' = i + Width
    /\ UNCHANGED <<input, pc, best, bestV, result>>

Return ==
    /\ pc \in {"scan", "count"} /\ i >= Vocab
    /\ result' = RankOf(best, greater, token, k)
    /\ pc' = "done"
    /\ UNCHANGED <<input, i, best, bestV, greater>>

Terminating == pc = "done" /\ UNCHANGED vars

Next ==
    \/ Reject \/ Enter \/ Scan
    \/ VectorMax \/ MaxKnown \/ FindSkip \/ FindHit \/ VectorCount
    \/ Return \/ Terminating

Spec == Init /\ [][Next]_vars

\* A single thread runs the loop and nothing in it blocks.
FairSpec == Spec /\ WF_vars(Next)
-----------------------------------------------------------------------------
TypeOK ==
    /\ row \in Rows
    /\ token \in -1 .. Vocab /\ k \in 0 .. MaxTopK /\ neon \in BOOLEAN
    /\ pc \in {"start", "scan", "max", "find", "count", "done"}
    /\ i \in 0 .. Vocab /\ best \in Ids /\ bestV \in 0 .. MaxValue
    /\ greater \in 0 .. Vocab
    /\ result \in [argmax : Ids, greater : 0 .. Vocab, accepted : BOOLEAN]

(***************************************************************************)
(* Whichever implementation the build picked, the returned record is the   *)
(* one RankAccept defines: first greatest value, number of strictly        *)
(* greater values, acceptance.  runtime_io.cpp keeps three copies of the   *)
(* loop and a vector version; a tie or a tail of less than a block is      *)
(* where they could part.                                                  *)
(***************************************************************************)
ScanIsRank ==
    pc = "done" => result = RankAccept([r \in {0} |-> row], 0, token, k)

(***************************************************************************)
(* For a positive k acceptance in the verify loop is exactly membership in *)
(* the target's top k (tokenInTopKAtRaw); in particular k = 1 accepts only *)
(* the target's own choice, and a tie with it is no reason to accept.      *)
(***************************************************************************)
AcceptedIffInTopK ==
    (pc = "done" /\ k > 0) => (result.accepted <=> TokenInTopK(row, token, k))

\* Every scan ends: no loop misses its bound when Lanes does not divide Vocab.
ScanEnds == <>(pc = "done")
=============================================================================
