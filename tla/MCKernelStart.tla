--------------------------- MODULE MCKernelStart ---------------------------
(***************************************************************************)
(* KernelStart on a screen that the start fills more than once and on a    *)
(* machine without one, with exceptions that have a gate and exceptions    *)
(* that have none.                                                         *)
(***************************************************************************)
EXTENDS KernelStart

\* Thirteen lines; rows are longer in memory than on the screen.
Small == [width |-> 432, height |-> 160, pixelsPerScanLine |-> 448, size |-> 160 * 448]
Missing == [width |-> 0, height |-> 0, pixelsPerScanLine |-> 0, size |-> 0]
MCScreens == {Small, Missing}
=============================================================================
