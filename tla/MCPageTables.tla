---------------------------- MODULE MCPageTables ----------------------------
(***************************************************************************)
(* PageTables with four entries to a table: 256 virtual pages.  Memory is  *)
(* pages 0 to 25, the kernel is in pages 1 and 2 and runs at the top, as   *)
(* HHDM_OFFSET has it.  Pools of every size make the set-up run out of     *)
(* memory at each of its steps, and the service at some.                   *)
(***************************************************************************)
EXTENDS PageTables

Boot(f) == [kernelPhys |-> 1, kernelVirt |-> 252, kernelSizeInPages |-> 2,
            memMap |-> <<[base |-> 0, size |-> 3], [base |-> 3, size |-> 23]>>,
            framebuffer |-> [base |-> 29, size |-> 2], lapicBase |-> 39,
            free |-> f]
MCBoots == {Boot(3 .. n) : n \in 2 .. 25}

\* Two pages under one page table, one under another directory, one in a part of
\* the address space that is empty at first.
MCClientPages == {45, 46, 50, 100}

ASSUME BootsApart == \A b \in Boots : Apart(b)
=============================================================================
