----------------------------- MODULE MCKvCache -----------------------------
(***************************************************************************)
(* Three rows at strides of five and seven cells (a context of nine,       *)
(* graphs of four and two positions): each row's new place overlaps its    *)
(* neighbours' old ones in both directions, passes commit every number of  *)
(* positions, and the cache can be filled to its last column.              *)
(***************************************************************************)
EXTENDS KvCache
=============================================================================
