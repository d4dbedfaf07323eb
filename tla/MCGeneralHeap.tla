--------------------------- MODULE MCGeneralHeap ---------------------------
(***************************************************************************)
(* GeneralHeap with three sizes of request.  A new block is two pages for  *)
(* the smaller two, with room for two chunks, and three for the largest;   *)
(* 2560 is what 2500, rounded to 2512, and a header take, so that a free   *)
(* chunk of the one is reused whole for the other; a free chunk of the     *)
(* largest is split for either.                                            *)
(***************************************************************************)
EXTENDS GeneralHeap
=============================================================================
