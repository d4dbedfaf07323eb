----------------------------- MODULE PageTables -----------------------------
(***************************************************************************)
(* The kernel's page tables (narnify/src/mm/amd64pc/vmm.c): the four-level *)
(* tree, the set-up from the boot information, and mapping and unmapping   *)
(* of single pages, with the translation cache of the CPU that runs on     *)
(* them.                                                                   *)
(*                                                                         *)
(* Addresses are page numbers; the bits above those that name entries are *)
(* left out.  A table's memory is read and written through its physical    *)
(* address: by the loader's identity mapping during the set-up, by the     *)
(* kernel's own after CR3 is loaded.  An entry is None or the page it      *)
(* points to; the flags are the same in every entry.  Pages for tables     *)
(* come from MmAllocateSinglePage, which takes the lowest.                 *)
(***************************************************************************)
EXTENDS Integers, Sequences, FiniteSets

CONSTANTS
    ENTRIES,        \* entries in a table, 512 on amd64
    Boots,          \* the boot information and free pages set-up may find
    ClientPages,    \* virtual pages the kernel maps and unmaps later on
    DeviceFrames    \* physical pages they are mapped to

\* What MmInitVirtualMemoryManager finds: the kernel's place, the entries of the
\* memory map, the framebuffer, the local APIC and the pages that are free.
Stretch == [base : Nat, size : Nat]
Pages(s) == s.base .. (s.base + s.size - 1)
BootData == [kernelPhys : Nat, kernelVirt : Nat, kernelSizeInPages : Nat,
             memMap : Seq(Stretch), framebuffer : Stretch, lapicBase : Nat,
             free : SUBSET (Nat \ {0})]

ASSUME EntriesAssumption == ENTRIES \in Nat \ {0}
ASSUME BootsAssumption == \A b \in Boots : b \in BootData
Addresses == 0 .. (ENTRIES * ENTRIES * ENTRIES * ENTRIES - 1)
ASSUME ClientAssumption == ClientPages \subseteq Addresses /\ DeviceFrames \subseteq Nat

VARIABLES
    phase,      \* the loop MmInitVirtualMemoryManager is in: "init" before the
                \* first; "ready" and "panic" after it has returned
    boot,       \* what it was given
    entry,      \* the entry of the memory map it is at
    page,       \* the pages it has mapped in this loop, or of this entry
    free,       \* the pages MmAllocateSinglePage may return
    pml4,       \* kernPTable.pml4
    tables,     \* the memory of the pages that hold tables
    cr3,        \* the table the CPU walks, None while it is the loader's
    tlb         \* translations the CPU has cached since CR3 was loaded

vars == <<phase, boot, entry, page, free, pml4, tables, cr3, tlb>>

-----------------------------------------------------------------------------
(* Tables and translation *)

NULL == 0
None == -1
EmptyTable == [i \in 0 .. (ENTRIES - 1) |-> None]

\* GET_PML4_ENTRY, GET_PDPT_ENTRY, GET_PD_ENTRY and GET_PT_ENTRY.
Pml4Entry(v) == (v \div (ENTRIES * ENTRIES * ENTRIES)) % ENTRIES
PdptEntry(v) == (v \div (ENTRIES * ENTRIES)) % ENTRIES
PdEntry(v) == (v \div ENTRIES) % ENTRIES

\* Mutant of PtEntry: shifted by one level too many.
PtEntryShifted(v) == (v \div ENTRIES) % ENTRIES

PtEntry(v) == v % ENTRIES

\* PARSE_ENTRY_VALUE of an entry, if there is a table it can be in.
Below(ts, t, i) == IF t = None THEN None ELSE ts[t][i]
PdptOf(ts, v) == Below(ts, pml4, Pml4Entry(v))
PdOf(ts, v) == Below(ts, PdptOf(ts, v), PdptEntry(v))
PtOf(ts, v) == Below(ts, PdOf(ts, v), PdEntry(v))
Translation(ts, v) == Below(ts, PtOf(ts, v), PtEntry(v))

With(f, a, x) == [b \in DOMAIN f \cup {a} |-> IF b = a THEN x ELSE f[b]]
Without(f, a) == [b \in DOMAIN f \ {a} |-> f[b]]

\* MmAllocateSinglePage: the lowest page, NULL when there is none.
Lowest(S) == IF S = {} THEN NULL ELSE CHOOSE f \in S : \A g \in S : f <= g

SetEntry(ts, t, i, x) == [ts EXCEPT ![t] = [@ EXCEPT ![i] = x]]

\* Mutant of GetNextLevel: the page is not cleared, so that what it held before
\* passes for entries.
GetNextLevelUncleared(m, t, i) ==
    LET f == Lowest(m.free)
    IN IF f = NULL THEN m
       ELSE [free |-> m.free \ {f},
             tables |-> With(SetEntry(m.tables, t, i, f), f,
                             [EmptyTable EXCEPT ![0] = f])]

\* Memory m with an empty table hung into entry i of table t.
GetNextLevel(m, t, i) ==
    LET f == Lowest(m.free)
    IN IF f = NULL THEN m
       ELSE [free |-> m.free \ {f},
             tables |-> With(SetEntry(m.tables, t, i, f), f, EmptyTable)]

\* One level of MmMapPage.  When there is no table to look in, the level above
\* has run out of memory and the call has returned.
Descend(m, t, i) == IF t # None /\ Below(m.tables, t, i) = None
                    THEN GetNextLevel(m, t, i) ELSE m

\* What MmMapPage makes of memory m.  It fails when there is no page table in
\* the end; tables it has made by then stay.
MapPage(m, phys, v) ==
    LET m4 == Descend(m, pml4, Pml4Entry(v))
        m3 == Descend(m4, PdptOf(m4.tables, v), PdptEntry(v))
        m2 == Descend(m3, PdOf(m3.tables, v), PdEntry(v))
        pt == PtOf(m2.tables, v)
    IN IF pt = None THEN m2
       ELSE [free |-> m2.free, tables |-> SetEntry(m2.tables, pt, PtEntry(v), phys)]

Memory == [free |-> free, tables |-> tables]
Store(m) == free' = m.free /\ tables' = m.tables
IsMapped(m, v) == PtOf(m.tables, v) # None

-----------------------------------------------------------------------------
(* Set-up: MmInitVirtualMemoryManager *)

Init == /\ phase = "init"
        /\ boot \in Boots
        /\ entry = 1 /\ page = 0
        /\ free = boot.free
        /\ pml4 = NULL
        /\ tables = <<>>
        /\ cr3 = None
        /\ tlb = <<>>

\* The result of the allocation is not looked at: without a page, page 0 is
\* cleared and used.  kernPTable.pml4 is NULL: this is the only call.
CreatePml4 ==
    /\ phase = "init"
    /\ pml4' = Lowest(free)
    /\ free' = free \ {Lowest(free)}
    /\ tables' = With(tables, Lowest(free), EmptyTable)
    /\ phase' = "kernel"
    /\ UNCHANGED <<boot, entry, page, cr3, tlb>>

\* Mutant of Goes: failures in the set-up are ignored.
GoesRegardless(m, v) == TRUE

\* The set-up goes on after a page.
Goes(m, v) == IsMapped(m, v)

\* A page of the kernel or of the memory map: failure to map it is reported, and
\* the kernel panics.
MapOrPanic(phys, v) ==
    LET m == MapPage(Memory, phys, v)
    IN /\ Store(m)
       /\ IF Goes(m, v) THEN page' = page + 1 /\ UNCHANGED phase
                        ELSE phase' = "panic" /\ UNCHANGED page
       /\ UNCHANGED <<boot, entry, pml4, cr3, tlb>>

\* A page of the framebuffer or of the APIC: the result is dropped.
MapAnyway(phys, v) ==
    /\ Store(MapPage(Memory, phys, v))
    /\ page' = page + 1
    /\ UNCHANGED <<phase, boot, entry, pml4, cr3, tlb>>

Enter(loop) == /\ phase' = loop /\ page' = 0
               /\ UNCHANGED <<boot, entry, free, pml4, tables, cr3, tlb>>

KernelLoop ==
    /\ phase = "kernel"
    /\ IF page < boot.kernelSizeInPages
       THEN MapOrPanic(boot.kernelPhys + page, boot.kernelVirt + page)
       ELSE Enter("memMap")

MemMapLoop ==
    /\ phase = "memMap"
    /\ entry <= Len(boot.memMap)
    /\ LET s == boot.memMap[entry]
       IN IF page < s.size
          THEN MapOrPanic(s.base + page, s.base + page)
          ELSE /\ entry' = entry + 1 /\ page' = 0
               /\ UNCHANGED <<phase, boot, free, pml4, tables, cr3, tlb>>
MemMapDone == phase = "memMap" /\ entry > Len(boot.memMap) /\ Enter("framebuffer")

FramebufferLoop ==
    /\ phase = "framebuffer"
    /\ IF page < boot.framebuffer.size
       THEN MapAnyway(boot.framebuffer.base + page, boot.framebuffer.base + page)
       ELSE Enter("lapic")

\* Two pages, to the same frame.
LapicLoop ==
    /\ phase = "lapic"
    /\ page < 2
    /\ MapAnyway(boot.lapicBase, boot.lapicBase + page)

\* Loading CR3 empties the translation cache.
MmUpdateCr3 ==
    /\ phase = "lapic"
    /\ page = 2
    /\ cr3' = pml4
    /\ tlb' = <<>>
    /\ phase' = "ready"
    /\ UNCHANGED <<boot, entry, page, free, pml4, tables>>

-----------------------------------------------------------------------------
(* Service *)

\* MmCheckIfPageIsMapped.
MmCheckIfPageIsMapped(v) == Translation(tables, v) # None

\* The page is mapped, or memory for tables runs out.  Nothing is invalidated.
MmMapPage(phys, v) ==
    /\ phase = "ready"
    /\ Store(MapPage(Memory, phys, v))
    /\ UNCHANGED <<phase, boot, entry, page, pml4, cr3, tlb>>

\* Mutant of MmInvalidatePage: the cached translation stays.
InvalidateNothing(v) == UNCHANGED tlb

MmInvalidatePage(v) == tlb' = Without(tlb, v)

\* STATUS_NOT_MAPPED when a table is missing on the way.
MmUnmapPage(v) ==
    /\ phase = "ready"
    /\ \/ /\ PtOf(tables, v) = None
          /\ UNCHANGED <<tables, tlb>>
       \/ /\ PtOf(tables, v) # None
          /\ tables' = SetEntry(tables, PtOf(tables, v), PtEntry(v), None)
          /\ MmInvalidatePage(v)
    /\ UNCHANGED <<phase, boot, entry, page, free, pml4, cr3>>

\* The CPU uses a page that is mapped and may keep the translation.
CpuCaches(v) ==
    /\ cr3 # None
    /\ v \notin DOMAIN tlb
    /\ Translation(tables, v) # None
    /\ tlb' = With(tlb, v, Translation(tables, v))
    /\ UNCHANGED <<phase, boot, entry, page, free, pml4, tables, cr3>>

\* The rest of the kernel maps pages that are not mapped.
MapUnmapped(phys, v) == MmMapPage(phys, v) /\ ~MmCheckIfPageIsMapped(v)

PanicEnd == phase = "panic" /\ UNCHANGED vars

Next == \/ CreatePml4 \/ KernelLoop \/ MemMapLoop \/ MemMapDone
        \/ FramebufferLoop \/ LapicLoop \/ MmUpdateCr3
        \/ \E v \in ClientPages : \/ \E phys \in DeviceFrames : MapUnmapped(phys, v)
                                  \/ MmUnmapPage(v)
                                  \/ CpuCaches(v)
        \/ PanicEnd

Spec == Init /\ [][Next]_vars

-----------------------------------------------------------------------------
(* Properties *)

\* The variables have their types.
TypeOK ==
    /\ phase \in {"init", "kernel", "memMap", "framebuffer", "lapic", "ready", "panic"}
    /\ boot \in Boots
    /\ entry \in 1 .. (Len(boot.memMap) + 1) /\ page \in Nat
    /\ free \subseteq boot.free
    /\ pml4 \in DOMAIN tables \cup {NULL}
    /\ DOMAIN tables \subseteq boot.free \cup {NULL}
    /\ \A t \in DOMAIN tables : tables[t] \in [0 .. (ENTRIES - 1) -> Nat \cup {None}]
    /\ cr3 \in DOMAIN tables \cup {None}
    /\ DOMAIN tlb \subseteq ClientPages /\ \A v \in DOMAIN tlb : tlb[v] \in Nat

\* The tables of each level below the root.
Children(T) == {tables[t][i] : t \in T, i \in 0 .. (ENTRIES - 1)} \ {None}
Pdpts == Children({pml4})
Pds == Children(Pdpts)
Pts == Children(Pds)

\* The entries that point to a table at the level of T.
Used(t) == {i \in 0 .. (ENTRIES - 1) : tables[t][i] # None}
Pointers(T) == UNION {{<<t, i>> : i \in Used(t)} : t \in T}

\* The tables are a tree: every page taken for a table hangs in exactly one
\* entry, at one level, so that a page is mapped by one path alone; none of
\* them is free, and failed calls lose none.
TablesFormTree ==
    /\ TypeOK
    /\ phase # "init" =>
        /\ DOMAIN tables = {pml4} \cup Pdpts \cup Pds \cup Pts
        /\ Cardinality(DOMAIN tables) =
             1 + Cardinality(Pointers({pml4})) + Cardinality(Pointers(Pdpts))
               + Cardinality(Pointers(Pds))
        /\ free \cap DOMAIN tables = {}
        /\ (free \cup DOMAIN tables) \ {NULL} = boot.free

\* What firmware and loader see to: there is a kernel, linked away from everything
\* that is mapped to itself; the second page at the APIC, which is mapped to the first,
\* is not memory; memory that is free is in the memory map; and the pages of later
\* calls are not among them.
KernelPages(b) == Pages([base |-> b.kernelVirt, size |-> b.kernelSizeInPages])
MemMapPages(b) == UNION {Pages(b.memMap[k]) : k \in DOMAIN b.memMap}
Apart(b) ==
    /\ b.kernelSizeInPages > 0
    /\ b.free \subseteq MemMapPages(b)
    /\ KernelPages(b) \cup MemMapPages(b) \cup Pages(b.framebuffer)
          \cup {b.lapicBase, b.lapicBase + 1} \subseteq Addresses
    /\ KernelPages(b) \cap (MemMapPages(b) \cup Pages(b.framebuffer)) = {}
    /\ KernelPages(b) \cap {b.lapicBase, b.lapicBase + 1} = {}
    /\ b.lapicBase + 1 \notin MemMapPages(b)
    /\ ClientPages \cap (KernelPages(b) \cup MemMapPages(b)) = {}

\* While the CPU runs on the kernel's tables, the kernel and the memory map are
\* mapped where they must be, and the tables themselves can be written through
\* their physical addresses, which is how MmMapPage goes on to use them.
KernelRuns ==
    cr3 # None =>
        /\ cr3 = pml4 /\ cr3 # NULL
        /\ \A i \in 0 .. (boot.kernelSizeInPages - 1) :
              Translation(tables, boot.kernelVirt + i) = boot.kernelPhys + i
        /\ \A k \in DOMAIN boot.memMap : \A p \in Pages(boot.memMap[k]) :
              Translation(tables, p) = p
        /\ \A t \in DOMAIN tables : Translation(tables, t) = t

\* The CPU never uses a translation that the tables no longer hold.
CacheCoherent == \A v \in DOMAIN tlb : Translation(tables, v) = tlb[v]

\* In service, mapping or unmapping a page changes that page's translation and
\* no other one's: new tables never show through elsewhere.
OthersUntouched ==
    [][phase = "ready" =>
          \A v, w \in ClientPages :
              Translation(tables, v) # Translation(tables', v) =>
                  \/ w = v
                  \/ Translation(tables, w) = Translation(tables', w)]_vars
=============================================================================
