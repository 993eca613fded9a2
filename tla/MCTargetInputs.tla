---------------------------- MODULE MCTargetInputs ----------------------------
(***************************************************************************)
(* Two graph lengths and a pass for each past that fits, up to a past that *)
(* touches the new columns.  What the tokens are makes no difference.      *)
(***************************************************************************)
EXTENDS TargetInputs

MCArLens == {1, 3, 4}
=============================================================================
