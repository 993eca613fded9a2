---------------------------- MODULE LogitSampler ----------------------------
(***************************************************************************)
(* How the runtime chooses and accepts tokens from one row of logits       *)
(* (src/src/runtime_io.cpp).  A row is a function from the vocabulary to   *)
(* comparable values; the stored type and its dequantisation are monotone  *)
(* and are left out.  A logits tensor is a function from its row indices   *)
(* to rows, so an index outside its domain is a read past the buffer.      *)
(***************************************************************************)
EXTENDS Integers, FiniteSets

CONSTANT Vocab                     \* opt.vocab

ASSUME VocabAssumption == Vocab \in Nat \ {0}

Ids == 0 .. Vocab - 1

(***************************************************************************)
(* The running maximum is replaced only by a strictly greater value, so    *)
(* the winner is the first of the greatest.  `best' starts at 0, which is  *)
(* what is returned when no value compares as greatest (a row of NaN).     *)
(***************************************************************************)
FirstGreatest(row) ==
    {t \in Ids : \A u \in Ids : row[u] < row[t] \/ (row[u] = row[t] /\ t <= u)}

ArgMax(row) ==
    IF FirstGreatest(row) = {} THEN 0 ELSE CHOOSE t \in FirstGreatest(row) : TRUE

ArgMaxAt(logits, i) == IF i \in DOMAIN logits THEN ArgMax(logits[i]) ELSE 0

GreaterCount(row, token) == Cardinality({t \in Ids : row[t] > row[token]})

\* tokenInTopKAtRaw: the acceptance predicate, stated without the argmax.
TokenInTopK(row, token, k) ==
    /\ token \in Ids
    /\ IF k <= 1 THEN ArgMax(row) = token ELSE GreaterCount(row, token) < k

NoRank == [argmax |-> 0, greater |-> 0, accepted |-> FALSE]

\* Mutant: the k+1 best are accepted.
RankOfOnePast(argmax, greater, token, k) ==
    [argmax   |-> argmax,
     greater  |-> greater,
     accepted |-> IF k <= 1 THEN argmax = token ELSE greater <= k]

RankOf(argmax, greater, token, k) ==
    [argmax   |-> argmax,
     greater  |-> greater,
     accepted |-> IF k <= 1 THEN argmax = token ELSE greater < k]

(***************************************************************************)
(* rankAcceptTensorAtRaw: the early returns leave the default result,      *)
(* whose argmax is token 0, whatever the logits are.                       *)
(***************************************************************************)
RankAccept(logits, i, token, k) ==
    IF i \notin DOMAIN logits \/ token \notin Ids \/ k <= 0
    THEN NoRank
    ELSE RankOf(ArgMax(logits[i]), GreaterCount(logits[i], token), token, k)
=============================================================================
