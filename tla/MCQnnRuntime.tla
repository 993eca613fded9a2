----------------------------- MODULE MCQnnRuntime -----------------------------
(***************************************************************************)
(* Two tensors: each may end up shared or plain, the second after the      *)
(* first has been moved.                                                   *)
(***************************************************************************)
EXTENDS QnnRuntime
=============================================================================
