----------------------------- MODULE MCQString -----------------------------
(***************************************************************************)
(* Strings of up to two letters, with an arena that has room for a few.    *)
(***************************************************************************)
EXTENDS QString, TLC

MCLiterals == (11 :> <<1, 2, NUL>>)

\* The proofs about the arena and its strings hold for these sizes.
ASSUME SizesSmall == StringsFit

NameSymmetry == Permutations(Names)
=============================================================================
