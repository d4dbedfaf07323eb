--------------------------- MODULE PieceAllocator ---------------------------
(***************************************************************************)
(* What the general allocator of the kernel promises its callers           *)
(* (MmAllocateGeneralMemory and MmFreeGeneralMemory of                     *)
(* narnify/src/includes/mm/alloc.h): a caller gets a piece of memory at    *)
(* least as large as it asked for, apart from all others; it stays where   *)
(* it is, with its size, whatever happens to other pieces; and giving a    *)
(* piece back takes no other away.  A request may be refused.              *)
(*                                                                         *)
(* Blocks, headers, the list of free chunks and the manager's pages are no *)
(* part of the promise.  GeneralHeap is shown to implement this            *)
(* specification.                                                          *)
(***************************************************************************)
EXTENDS Integers

CONSTANT Requests   \* the sizes callers ask for

VARIABLE pieces     \* by address: the bytes asked for and those that may be used

-----------------------------------------------------------------------------
Init == pieces = <<>>

\* A caller gets a piece, whose address can be told from NULL.
Allocate(a, size, room) ==
    /\ a > 0 /\ a \notin DOMAIN pieces
    /\ size <= room
    /\ \A b \in DOMAIN pieces : a + room <= b \/ b + pieces[b].room <= a
    /\ pieces' = [b \in DOMAIN pieces \cup {a} |->
                    IF b = a THEN [asked |-> size, room |-> room] ELSE pieces[b]]

Free(a) == pieces' = [b \in DOMAIN pieces \ {a} |-> pieces[b]]

\* Where a new piece is, and how large, is up to the allocator.
Next == \/ \E a \in DOMAIN pieces', size \in Requests : Allocate(a, size, pieces'[a].room)
        \/ \E a \in DOMAIN pieces : Free(a)

Spec == Init /\ [][Next]_pieces
=============================================================================
