---------------------------- MODULE MCLoaderBoot ----------------------------
(***************************************************************************)
(* LoaderBoot with a few pages: enough for an image of two pages, some     *)
(* tables and pools, and few enough for each of them to run out.  A page   *)
(* has four bytes, and the file rounds sections up to two.                 *)
(***************************************************************************)
EXTENDS LoaderBoot, TLC

\* The pages are interchangeable.
PageSymmetry == Permutations(Page)

\* Eight lines; a panic's message fits.
Small == [width |-> 484, height |-> 100, pixelsPerScanLine |-> 488, size |-> 48800]
MCScreens == {Small}

Sec(name, at, size, raw) ==
    [name |-> name, VirtualAddress |-> at, VirtualSize |-> size, PointerToRawData |-> 2 * at + 2,
     SizeOfRawData |-> raw]
\* In the file a section is longer or shorter than in memory, or not there.
Sizes == {<<1, 2>>, <<4, 2>>, <<2, 0>>}
LdrSizes == {<<3, 4>>, <<4, 0>>}
Other(at) == {Sec("other", at, s[1], s[2]) : s \in Sizes}
Ldr(at) == {Sec(".ldr", at, s[1], s[2]) : s \in LdrSizes}
MCLayouts ==
    {l \in (Other(0) \cup Ldr(0)) \X (Other(4) \cup Ldr(4)) :
        /\ l[1].name = ".ldr" => l[2].name = "other"
        /\ l[1].VirtualSize = 4 <=> l[2].VirtualSize # 4}
OneLayout == {<<Sec("other", 0, 4, 2), Sec(".ldr", 4, 4, 0)>>}

MCTables == {<<"ACPI1">>, <<"ACPI1", "ACPI2">>}
OneTable == {<<"ACPI2">>}
=============================================================================
