---------------------------- MODULE MCBitmapPmm ----------------------------
(***************************************************************************)
(* Memory maps for model checking BitmapPmm.  They have no gaps and start  *)
(* at page 0, and a page has 2 bytes, so that a bitmap for 32 pages fills  *)
(* two of them.                                                            *)
(***************************************************************************)
EXTENDS BitmapPmm, TLC

CONSTANTS c1, c2, c3

Entry(base, size, type) == [base |-> base, size |-> size, type |-> type]
USED == "BOOT_MEM_TYPE_USED"
ACPI == "BOOT_MEM_TYPE_ACPI"

\* The bitmap is in the FREE entry, and 25 pages are left.
LowUsed == <<Entry(0, 1, USED), Entry(1, 27, FREE), Entry(28, 4, ACPI)>>
\* The bitmap is at address 0, and the number of pages is no multiple of 8.
LowFree == <<Entry(0, 26, FREE), Entry(26, 3, USED), Entry(29, 1, FREE)>>
\* The bitmap is in a USED entry, in front of the FREE ones.
Split == <<Entry(0, 4, USED), Entry(4, 14, FREE), Entry(18, 12, FREE), Entry(30, 2, ACPI)>>
\* Too few pages for a bitmap, too few for the self-test's longest run, and too
\* few free ones for it.
Tiny == <<Entry(0, 7, FREE)>>
Short == <<Entry(0, 9, FREE)>>
Crowded == <<Entry(0, 8, FREE), Entry(8, 16, USED)>>

RoomyMaps == {LowUsed, LowFree, Split}
AnyMaps == RoomyMaps \cup {Tiny, Short, Crowded}

Symmetry == Permutations(Client)
=============================================================================
