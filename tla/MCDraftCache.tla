---------------------------- MODULE MCDraftCache ----------------------------
(***************************************************************************)
(* A window of seven rows and blocks of three: prompts from one token to   *)
(* more than the window and a block, so that every boundary (a short last  *)
(* chunk, a restart, a drop of one or two rows, no drop) is crossed.       *)
(***************************************************************************)
EXTENDS DraftCache

PromptLengths == 1 .. 15
=============================================================================
