------------------------------ MODULE MCArena ------------------------------
(***************************************************************************)
(* Arena with small sizes, for which no sum reaches WORD.                  *)
(***************************************************************************)
EXTENDS Arena
=============================================================================
