----------------------------- MODULE LoaderBoot -----------------------------
(***************************************************************************)
(* The boot loader (nearmonia/src): from LdrEfiEntry through the loader's  *)
(* paging, the memory map and the kernel image to the kernel's entry       *)
(* point, on firmware that owns the memory until ExitBootServices.         *)
(*                                                                         *)
(* The firmware is external.  Its memory map is the set of pages it calls  *)
(* free, with a key that changes whenever the map does.  AllocatePool is   *)
(* served from pages the firmware has set aside for pools, or from a new   *)
(* page, or refused; the firmware's own events allocate as well.           *)
(***************************************************************************)
EXTENDS Screen, FiniteSets

CONSTANTS
    Screens,        \* what the graphics output protocol may report
    Layouts,        \* sequences of sections that the kernel's file may have
    PAGE_SIZE,      \* bytes of a page
    InfoSize,       \* bytes of a BootInfo
    ConfigTables,   \* the firmware's configuration tables, as sequences of GUIDs
    Page,           \* pages of memory that are free when the loader starts
    ImagePages,     \* pages of the kernel's image
    MaxTables,      \* bound: pages for tables in one go
    MaxEvents,      \* bound: allocations by the firmware's events
    FileKinds       \* what may be found in place of the kernel's file

\* "uncounted": nothing was counted of a file that is empty, or that the firmware
\* refuses to read into the NULL that line 56 of sfs.c passes.
Kinds == {"missing", "unreadable", "uncounted", "other", "kernel"}

ASSUME BoundsAssumption == /\ IsFiniteSet(Page) /\ ImagePages \in Nat \ {0}
                           /\ MaxTables \in Nat /\ MaxEvents \in Nat
ASSUME FileAssumption == FileKinds \subseteq Kinds
ASSUME ScreensAssumption == Screens \subseteq Framebuffer

\* A section: where it is in memory and in the file, and its size in each.  The linker
\* puts sections apart, also when the file rounds one up, and .ldr holds a BootInfo.
Section == [name : {".ldr", "other"}, VirtualAddress : Nat, VirtualSize : Nat,
            PointerToRawData : Nat, SizeOfRawData : Nat]
Extent(sec) == Max({sec.VirtualSize, sec.SizeOfRawData})
ASSUME LayoutsAssumption ==
    /\ Layouts \subseteq Seq(Section)
    /\ PAGE_SIZE \in Nat \ {0} /\ InfoSize \in Nat
    /\ \A l \in Layouts : \A i \in DOMAIN l :
         /\ l[i].VirtualAddress + Extent(l[i]) <= ImagePages * PAGE_SIZE
         /\ \A j \in (i + 1) .. Len(l) : l[i].VirtualAddress + Extent(l[i]) <= l[j].VirtualAddress
         /\ l[i].name = ".ldr" => InfoSize <= l[i].VirtualSize

VARIABLES
    pc,         \* the next step of the loader
    site,       \* who called MmRetrieveCurrentMemoryMap: "paging" or "handOver"
    file,       \* what is in place of the kernel's file
    fwFree,     \* the firmware's map: pages that are free
    mapKey,     \* and its key
    events,     \* allocations by the firmware's events so far
    services,   \* boot services are available
    memMap,     \* the loader's copy of the map and of its key
    entries,    \* pages that hold the array of the copy's entries
    pools,      \* pages that hold what else the loader got from pools
    mapPools,   \* those of them that the retrieval of a map under way has taken
    tables,     \* pages that hold the loader's page tables
    image,      \* pages that hold the kernel
    higher,     \* the kernel has been mapped in the higher half
    sections,   \* the sections of the kernel's file, and how many have been loaded
    memory,     \* what is in the pages of the kernel, byte by byte
    bInfo,      \* the BootInfo
    scr         \* the screen

firmware == <<fwFree, mapKey, services>>
loadVars == <<sections, memory, bInfo>>
vars == <<pc, site, file, events, firmware, memMap, entries, pools, mapPools, tables, image,
          higher, loadVars, scr>>

NoMap == [free |-> {}, key |-> -1]

-----------------------------------------------------------------------------
(* The firmware *)

\* AllocatePages takes some pages: AllocateAnyPages.
TakePages(S) == /\ S \subseteq fwFree
                /\ fwFree' = fwFree \ S
                /\ mapKey' = mapKey + Cardinality(S)
                /\ UNCHANGED services

\* AllocatePool succeeds, taking the pages S: none when the pools have room.
TakePool(S) == Cardinality(S) <= 1 /\ TakePages(S)

\* FreePool: of the pages of some pools the firmware calls S free again, and keeps the
\* others for the next pools.
GiveBack(S) == /\ fwFree' = fwFree \cup S
               /\ mapKey' = mapKey + Cardinality(S)
               /\ UNCHANGED services

\* Something the firmware does by itself takes a page.
FirmwareEvent ==
    /\ services
    /\ events < MaxEvents
    /\ events' = events + 1
    /\ \E p \in fwFree : TakePages({p})
    /\ UNCHANGED <<pc, site, file, memMap, entries, pools, mapPools, tables, image, higher,
                   loadVars, scr>>

-----------------------------------------------------------------------------
(* The loader's screen: ldr/term.c and ldr/panic.c; its rectangles and texts are drawn *)
(* as those of the kernel are                                                          *)

LdrTermClear(s) == [(IF s.init THEN Wipe(s, "dark green") ELSE s) EXCEPT !.x = 10, !.y = 10]

\* The terminal is cleared as soon as it is full, not before the next text.
LdrTermPuts(s, newLine, what) ==
    LET drawn == DrawString(s, {Box(what, s.x, s.y, 1, "white")})
        down == [drawn EXCEPT !.x = 10, !.y = @ + 12]
    IN IF ~newLine THEN [drawn EXCEPT !.x = IF s.init THEN @ + 8 * Length(what) ELSE @]
       ELSE IF Full(down) THEN LdrTermClear(down) ELSE down

\* LdrTermPrint: the set of the one screen with some more lines that have a tag.
LdrTermPrint(s, lines) ==
    LET after[i \in 0 .. lines] ==
            IF i = 0 THEN {s}
            ELSE {LdrTermPuts(u, TRUE, T("log")) :
                     u \in {LdrTermPuts(t, FALSE, T("[ ] ")) : t \in after[i - 1]}}
    IN after[lines]

\* Mutant of LdrPanic: the screen is not wiped.
LdrPanicOver(s) ==
    DrawString(s, {Box(T("message"), 10, 10, 2, "white"), Box(T("message"), 10, 50, 1, "white")})

\* LdrPanic shows its message twice, and loops.
LdrPanic(s) ==
    IF ~s.init THEN s
    ELSE DrawString(Wipe(s, "blue"), {Box(T("message"), 10, 10, 2, "white"),
                                      Box(T("message"), 10, 50, 1, "white")})

-----------------------------------------------------------------------------
(* The loader *)

\* A byte: where it comes from, and which one it is there.
Junk == <<"junk", 0>>
Zero == <<"zero", 0>>
NoInfo == [rsdp |-> 0, screen |-> FALSE]

Init == /\ pc = "gop"
        /\ site = "paging"
        /\ file \in FileKinds
        /\ fwFree = Page /\ mapKey = 0 /\ services = TRUE
        /\ events = 0
        /\ memMap = NoMap
        /\ entries = {} /\ pools = {} /\ mapPools = {} /\ tables = {} /\ image = {}
        /\ higher = FALSE
        /\ sections = [of |-> <<>>, loaded |-> 0] /\ bInfo = NoInfo
        /\ memory = [a \in 0 .. (ImagePages * PAGE_SIZE - 1) |-> Junk]
        /\ scr = NoScreen

\* A step that prints some lines, or panics.
At(here, there, lines) ==
    /\ pc = here /\ pc' = there
    /\ scr' \in IF there = "panic" THEN {LdrPanic(scr)} ELSE LdrTermPrint(scr, lines)
    /\ UNCHANGED <<file, events>>

\* Without a graphics output protocol the loader goes on with the serial line.
LdrSetupGOP ==
    /\ pc = "gop" /\ pc' = "mapPool"
    /\ \/ UNCHANGED scr
       \/ \E data \in Screens : scr' = GraphicsSetup(scr, data, "term")
    /\ UNCHANGED <<file, events, site, firmware, memMap, entries, pools, mapPools, tables, image,
                   higher, loadVars>>

\* MmRetrieveCurrentMemoryMap: a pool for the firmware's descriptors and one for
\* the MemoryMap itself,
MapPools ==
    /\ At("mapPool", "getMap", 0)
    /\ \E S \in SUBSET fwFree : /\ TakePages(S) /\ Cardinality(S) <= 2
                             /\ pools' = pools \cup S /\ mapPools' = S
    /\ UNCHANGED <<site, memMap, entries, tables, image, higher, loadVars>>

\* Mutant of GetMemoryMap: the second caller is served the map of the first.
GetMemoryMapCached ==
    /\ At("getMap", "entriesPool", 0)
    /\ memMap' = IF site = "paging" THEN [free |-> fwFree, key |-> mapKey] ELSE memMap
    /\ UNCHANGED <<site, firmware, entries, pools, mapPools, tables, image, higher, loadVars>>

\* then the map,
GetMemoryMap ==
    /\ At("getMap", "entriesPool", 0)
    /\ memMap' = [free |-> fwFree, key |-> mapKey]
    /\ UNCHANGED <<site, firmware, entries, pools, mapPools, tables, image, higher, loadVars>>

\* then a pool for the entries of the copy, of which the map knows nothing.  The
\* entries of an earlier copy are never freed.
EntriesPool ==
    /\ At("entriesPool", site, 0)
    /\ \E S \in SUBSET fwFree : TakePool(S) /\ entries' = S
    /\ pools' = pools \cup entries /\ mapPools' = {}
    /\ UNCHANGED <<site, memMap, tables, image, higher, loadVars>>

\* Any of these calls may fail.  What had been allocated is freed, and the caller gets
\* NULL, which neither of them looks for: both go on.
RetrieveFails ==
    /\ \E here \in {"mapPool", "getMap", "entriesPool"} : At(here, site, 1)
    /\ IF pc = "mapPool"
       THEN \E S \in SUBSET fwFree : TakePool(S)         \* the first of the two pools
       ELSE \E S \in SUBSET mapPools : GiveBack(S)
    /\ pools' = pools \ mapPools /\ mapPools' = {}
    /\ memMap' = NoMap
    /\ UNCHANGED <<site, entries, tables, image, higher, loadVars>>

\* The NULL is followed at vmm.c:79 and at peldr.c:213.  Either address 0 is not mapped,
\* or what is there is taken for a map: the steps MmInitPaging and ExitBootServices.
NullFaults ==
    /\ pc \in {"paging", "exit"} /\ pc' = "fault"
    /\ memMap = NoMap
    /\ UNCHANGED <<site, file, events, firmware, memMap, entries, pools, mapPools, tables, image,
                   higher, loadVars, scr>>

\* GetNextLevel takes pages for tables one by one until it has what it needs or
\* the firmware refuses.
TakeTables == \E S \in SUBSET fwFree : /\ TakePages(S) /\ Cardinality(S) <= MaxTables
                                       /\ tables' = tables \cup S

\* MmInitPaging goes on whatever MmMapSinglePage returns.
MmInitPaging ==
    /\ At("paging", "sfs", 0)
    /\ TakeTables
    /\ UNCHANGED <<site, memMap, entries, pools, mapPools, image, higher, loadVars>>

\* SFsSetupSimpleFilesystem and SFsOpenFile.
OpenKernel ==
    /\ pc = "sfs"
    /\ \/ pc' = "panic" /\ scr' = LdrPanic(scr)       \* no file system, or no volume
       \/ file = "missing" /\ pc' = "panic" /\ scr' = LdrPanic(scr)
       \/ file # "missing" /\ pc' = "read" /\ scr' \in LdrTermPrint(LdrTermClear(scr), 1)
    /\ UNCHANGED <<site, file, events, firmware, memMap, entries, pools, mapPools, tables, image,
                   higher, loadVars>>

\* SFsReadFileContent.  The size it counts starts at 16 and never is 0.  When there is no
\* pool, or the content cannot be read and the pool is freed, the loader panics.
SFsReadFileContent ==
    /\ \/ /\ At("read", "panic", 0)
          /\ \E S \in SUBSET fwFree : TakePool(S)
          /\ UNCHANGED pools
       \/ /\ file # "unreadable"
          /\ At("read", "check", 0)
          /\ \E S \in SUBSET fwFree : TakePool(S) /\ pools' = pools \cup S
    /\ UNCHANGED <<site, memMap, entries, mapPools, tables, image, higher, loadVars>>

\* The signatures of the image.  Of a file of which nothing was counted, bytes in and
\* behind a buffer of 16 that nobody has written are looked at.
CheckSignatures ==
    /\ \/ file \in {"kernel", "uncounted"} /\ At("check", "imagePages", 1)
       \/ file \in {"other", "uncounted"} /\ At("check", "panic", 0)
    /\ UNCHANGED <<site, firmware, memMap, entries, pools, mapPools, tables, image, higher, loadVars>>

\* Mutant of AllocateImage: a refusal goes unnoticed and the pages are used anyway.
AllocateImageUnchecked ==
    /\ At("imagePages", "higherHalf", 0)
    /\ image' \in {S \in SUBSET Page : Cardinality(S) = ImagePages}
    /\ UNCHANGED <<site, firmware, memMap, entries, pools, mapPools, tables, higher, loadVars>>

\* Pages for the image, in which the sections will be loaded.
AllocateImage ==
    \/ /\ At("imagePages", "higherHalf", 0)
       /\ \E S \in SUBSET fwFree : /\ Cardinality(S) = ImagePages
                                   /\ TakePages(S)
                                   /\ image' = S
       /\ UNCHANGED <<site, memMap, entries, pools, mapPools, tables, higher, loadVars>>
    \/ /\ At("imagePages", "panic", 0)
       /\ UNCHANGED <<site, firmware, memMap, entries, pools, mapPools, tables, image, higher,
                      loadVars>>

\* Mutant of MapHigherHalf: the loader goes on without some pages of the kernel.
MapHigherHalfUnchecked ==
    /\ At("higherHalf", "mapPool", 1)
    /\ TakeTables
    /\ higher' \in BOOLEAN
    /\ site' = "handOver"
    /\ UNCHANGED <<memMap, entries, pools, mapPools, image, loadVars>>

\* MmMapHigherHalfMemoryForKernel, whose result is looked at; next is the memory
\* map for the kernel.
MapHigherHalf ==
    /\ \/ At("higherHalf", "mapPool", 1) /\ higher' = TRUE
       \/ At("higherHalf", "panic", 0) /\ higher' = FALSE
    /\ TakeTables
    /\ site' = "handOver"
    /\ UNCHANGED <<memMap, entries, pools, mapPools, image, loadVars>>

\* LdrGetRSDPLocation: the first table with the GUID of ACPI 2.
LdrGetRSDPLocation(guids) ==
    LET found == {i \in DOMAIN guids : guids[i] = "ACPI2"}
    IN IF found = {} THEN 0 ELSE Min(found)

\* The BootInfo is filled in.
FillBootInfo ==
    /\ \E guids \in ConfigTables, l \in Layouts :
         /\ bInfo' = [rsdp |-> LdrGetRSDPLocation(guids), screen |-> scr.init]
         /\ sections' = [of |-> l, loaded |-> 0]
         /\ At("handOver", "sections", IF bInfo'.rsdp = 0 THEN 0 ELSE 1)
    /\ UNCHANGED <<site, firmware, memMap, entries, pools, mapPools, tables, image, higher, memory>>

\* memset and memcpy; a byte of the file is its place there.
Zeroed(mem, at, size) ==
    [a \in DOMAIN mem |-> IF a \in at .. (at + size - 1) THEN Zero ELSE mem[a]]
Copied(mem, at, what, from, size) ==
    [a \in DOMAIN mem |-> IF a \in at .. (at + size - 1) THEN <<what, from + a - at>> ELSE mem[a]]

\* Mutant of SectionLoaded: only what is in the file is cleared.
SectionLoadedRaw(mem, sec) ==
    LET clear == Zeroed(mem, sec.VirtualAddress, sec.SizeOfRawData)
    IN IF sec.name = ".ldr" THEN Copied(clear, sec.VirtualAddress, "info", 0, InfoSize)
       ELSE Copied(clear, sec.VirtualAddress, "file", sec.PointerToRawData, sec.SizeOfRawData)

\* A section is cleared as far as it goes in memory, and what the file has of it is
\* copied; the section .ldr gets the BootInfo instead.
SectionLoaded(mem, sec) ==
    LET clear == Zeroed(mem, sec.VirtualAddress, sec.VirtualSize)
    IN IF sec.name = ".ldr" THEN Copied(clear, sec.VirtualAddress, "info", 0, InfoSize)
       ELSE Copied(clear, sec.VirtualAddress, "file", sec.PointerToRawData, sec.SizeOfRawData)

\* LoadSectionsIntoMemory, section by section.
LoadSection ==
    /\ sections.loaded < Len(sections.of)
    /\ At("sections", "sections", 1)
    /\ memory' = SectionLoaded(memory, sections.of[sections.loaded + 1])
    /\ sections' = [sections EXCEPT !.loaded = @ + 1]
    /\ UNCHANGED <<site, firmware, memMap, entries, pools, mapPools, tables, image, higher, bInfo>>

\* Two lines, and two without a tag.
SayGoodbye ==
    /\ sections.loaded = Len(sections.of)
    /\ pc = "sections" /\ pc' = "exit"
    /\ scr' \in {LdrTermPuts(LdrTermPuts(s, TRUE, T("log")), TRUE, T("log")) :
                    s \in LdrTermPrint(scr, 2)}
    /\ UNCHANGED <<file, events, site, firmware, memMap, entries, pools, mapPools, tables, image,
                   higher, loadVars>>

\* ExitBootServices succeeds when the key is that of the current map; without a map
\* the key is what is found near address 0.  Its status is not looked at.
ExitBootServices ==
    /\ At("exit", "kernel", 0)
    /\ services' \in IF memMap = NoMap THEN BOOLEAN ELSE {memMap.key # mapKey}
    /\ UNCHANGED <<site, fwFree, mapKey, memMap, entries, pools, mapPools, tables, image, higher,
                   loadVars>>

\* LdrPanic loops; what happens in the kernel, or after a fault, is not here.
Stopped == pc \in {"panic", "fault", "kernel"} /\ UNCHANGED vars

Next == \/ FirmwareEvent
        \/ LdrSetupGOP
        \/ MapPools \/ GetMemoryMap \/ EntriesPool \/ RetrieveFails \/ NullFaults
        \/ MmInitPaging
        \/ OpenKernel \/ SFsReadFileContent \/ CheckSignatures
        \/ AllocateImage \/ MapHigherHalf
        \/ FillBootInfo \/ LoadSection \/ SayGoodbye \/ ExitBootServices
        \/ Stopped

Spec == Init /\ [][Next]_vars

-----------------------------------------------------------------------------
(* Properties *)

Steps == {"gop", "mapPool", "getMap", "entriesPool", "paging", "sfs", "read", "check",
          "imagePages", "higherHalf", "handOver", "sections", "exit", "kernel", "panic", "fault"}

\* The variables have their types; what the loader holds it holds once, and the
\* firmware does not call it free.
TypeOK ==
    /\ pc \in Steps
    /\ site \in {"paging", "handOver"}
    /\ file \in FileKinds
    /\ fwFree \subseteq Page /\ mapKey \in Nat /\ services \in BOOLEAN
    /\ events \in 0 .. MaxEvents
    /\ memMap.free \subseteq Page /\ memMap.key \in -1 .. mapKey
    /\ entries \cup pools \cup tables \cup image \subseteq Page \ fwFree
    /\ Cardinality(entries) + Cardinality(pools) + Cardinality(tables) + Cardinality(image)
         = Cardinality(entries \cup pools \cup tables \cup image)
    /\ mapPools \subseteq pools
    /\ higher \in BOOLEAN

\* The memory map is read for the kernel, and the kernel entered, only with the
\* kernel in memory and mapped in full where it runs.
KernelPlaced ==
    site = "handOver" /\ pc # "panic" =>
        /\ file \in {"kernel", "uncounted"}
        /\ Cardinality(image) = ImagePages
        /\ higher

\* Of all that the loader holds when it enters the kernel - the image, the page tables,
\* the boot information and every pool - the map the kernel gets may call free only the
\* array of the map's own entries, which mem.c:50 allocates after the map has been read.
\* That array it does call free whenever the pool for it took a page; all the rest is kept
\* however often the firmware's map has changed meanwhile.
ImageKept ==
    pc = "kernel" =>
        memMap.free \cap (image \cup tables \cup pools \cup entries) \subseteq entries

\* The kernel is entered with every byte of every section as the image describes it:
\* what the file holds, zeros behind it, and the BootInfo in .ldr; loading a section
\* has not disturbed another one.
SectionsPlaced ==
    pc = "kernel" =>
        \A i \in DOMAIN sections.of :
            LET sec == sections.of[i] IN
            \A k \in 0 .. (sec.VirtualSize - 1) :
                memory[sec.VirtualAddress + k] =
                    IF sec.name = ".ldr" THEN (IF k < InfoSize THEN <<"info", k>> ELSE Zero)
                    ELSE IF k < sec.SizeOfRawData THEN <<"file", sec.PointerToRawData + k>>
                    ELSE Zero

\* The loader draws only into the framebuffer, no text over another, and a panic's
\* message can be read in full on a screen that has room for it.
LoaderReadable ==
    /\ scr.reach <= scr.size
    /\ \A a, b \in scr.shown : a # b => Apart(a, b)
    /\ pc = "panic" /\ scr.init /\ scr.height >= 62 /\ scr.width >= 10 + 8 * MessageLength =>
         \E b \in scr.shown : b.what = T("message") /\ Inside(scr, b)

\* The kernel, when it gets a memory map, is entered with boot services ended.
HandOver == pc = "kernel" /\ memMap # NoMap => ~services
=============================================================================
