------------------------------- MODULE MCEcs -------------------------------
(***************************************************************************)
(* Ecs with arrays that start with one place and double, so that both grow *)
(* after a few calls.                                                      *)
(***************************************************************************)
EXTENDS Ecs

MCLists == {<<1>>, <<2, 1>>}
=============================================================================
