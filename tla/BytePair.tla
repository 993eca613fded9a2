------------------------------ MODULE BytePair ------------------------------
(***************************************************************************)
(* BPE of src/qwen3_tokenizer.cpp: a word of symbols is merged pair by     *)
(* pair, the pair of the lowest rank first and everywhere at once.         *)
(***************************************************************************)
EXTENDS Integers, SequencesExt

CONSTANTS
    Merges,      \* model.merges: pairs of symbols, in the order of their rank
    Vocabulary   \* model.vocab and added_tokens: token of id i at i + 1

\* Whatever makes a symbol comes before all that use it, as in a table made by
\* training.
ASSUME MergesAssumption ==
    /\ Merges \in Seq(Seq(Int) \X Seq(Int))
    /\ \A j, k \in DOMAIN Merges : \A side \in {1, 2} :
            Merges[j][1] \o Merges[j][2] = Merges[k][side] => j < k

\* The table has a token for every character and for every merge, and no
\* token twice.
ASSUME VocabularyAssumption ==
    /\ Vocabulary \in Seq(Seq(Int)) \ {<< >>}
    /\ \A k \in DOMAIN Merges : Merges[k][1] \o Merges[k][2] \in Range(Vocabulary)
    /\ IsInjective(Vocabulary)

Characters(token) == [i \in DOMAIN token |-> <<token[i]>>]

Pairs(word) == {<<word[i], word[i + 1]>> : i \in 1 .. Len(word) - 1}

\* A pair listed twice has its last rank.
RankOfPair(p) == Max({k \in DOMAIN Merges : Merges[k] = p})

Ranked(word) == {p \in Pairs(word) : p \in Range(Merges)}

Best(word) == Merges[Min({RankOfPair(p) : p \in Ranked(word)})]

\* Mutant: the second symbol of a merged pair is looked at again.
MergedOverlapping(word, p) ==
    LET from[i \in 1 .. Len(word) + 1] ==
            IF i > Len(word) THEN << >>
            ELSE IF i < Len(word) /\ <<word[i], word[i + 1]>> = p
                 THEN <<p[1] \o p[2]>> \o from[i + 1]
                 ELSE <<word[i]>> \o from[i + 1]
    IN from[1]

\* All occurrences of p, from the left.
Merged(word, p) ==
    LET from[i \in 1 .. Len(word) + 2] ==
            IF i > Len(word) THEN << >>
            ELSE IF i < Len(word) /\ <<word[i], word[i + 1]>> = p
                 THEN <<p[1] \o p[2]>> \o from[i + 2]
                 ELSE <<word[i]>> \o from[i + 1]
    IN from[1]

\* Mutant: the place in the table taken for the id.
PlaceOfToken(token) ==
    IF token \in Range(Vocabulary) THEN SelectInSeq(Vocabulary, LAMBDA t : t = token) ELSE 0

\* An unknown token has id 0, an unknown id the empty token.
IdForToken(token) ==
    IF token \in Range(Vocabulary) THEN SelectInSeq(Vocabulary, LAMBDA t : t = token) - 1 ELSE 0

TokenForId(id) == IF id + 1 \in DOMAIN Vocabulary THEN Vocabulary[id + 1] ELSE << >>
-----------------------------------------------------------------------------
(***************************************************************************)
(* The reference: one merge at a time, always the leftmost pair of the     *)
(* lowest rank.                                                            *)
(***************************************************************************)
MergedOnce(word) ==
    IF Ranked(word) = {} THEN word
    ELSE LET p == Best(word)
             i == Min({k \in 1 .. Len(word) - 1 : <<word[k], word[k + 1]>> = p})
         IN SubSeq(word, 1, i - 1) \o <<p[1] \o p[2]>> \o SubSeq(word, i + 2, Len(word))

MergedByRank(token) ==
    LET after[n \in 0 .. Len(token)] ==
            IF n = 0 THEN Characters(token) ELSE MergedOnce(after[n - 1])
    IN after[Len(token)]
=============================================================================
