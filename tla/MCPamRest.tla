---------------------------- MODULE MCPamRest ----------------------------
(***************************************************************************)
(* Model-checking instance of PamRest: two token model values, symmetric   *)
(* because the code only copies and compares them.                         *)
(***************************************************************************)
EXTENDS PamRest, TLC

CONSTANTS t1, t2

MCTokens == {t1, t2}

MCSymmetry == Permutations(MCTokens)

=============================================================================
