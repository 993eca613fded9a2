----------------------------- MODULE MCLogitScan -----------------------------
(***************************************************************************)
(* Every row of five values out of three (so every pattern of ties), every *)
(* candidate in and just outside the vocabulary, blocks of two with a tail *)
(* of one.                                                                 *)
(***************************************************************************)
EXTENDS LogitScan
=============================================================================
