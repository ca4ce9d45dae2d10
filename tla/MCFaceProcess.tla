---------------------------- MODULE MCFaceProcess ----------------------------
(***************************************************************************)
(* The pool's two threads; the constants are in the configurations.         *)
(***************************************************************************)
EXTENDS FaceProcess, TLC

Symmetry == Permutations(Calls)
=============================================================================
