---------------------------- MODULE MCSpecDecode ----------------------------
(***************************************************************************)
(* Two target models over three tokens, with ties, that disagree often     *)
(* enough for proposals to be accepted and rejected at every place; a      *)
(* prompt shorter than a block, one longer than a prefill chunk, and one   *)
(* longer than the draft window and a block together.                      *)
(***************************************************************************)
EXTENDS SpecDecode

RECURSIVE Digest(_)
Digest(tokens) ==
    IF tokens = << >> THEN 0
    ELSE (2 * Digest(Tail(tokens)) + Head(tokens) + 1) % 7

MCLogit(m, context) ==
    [t \in Ids |-> IF (Digest(context) + m * t) % Vocab = 0 THEN 2
                   ELSE (Digest(context) + t) % 2]

MCModels  == {1, 2}
MCPrompts == {<<0>>, <<2, 0, 1, 1>>, <<1, 0, 2, 2, 0, 1, 2>>}
Shorter   == {<<1>>, <<0, 2, 1>>}
=============================================================================
