# Nearlands: a verification project

Nearlands is a small operating system in C: *Nearmonia*, a UEFI boot loader
(`src/nearmonia`), and *Narnify*, a kernel for amd64 (`src/narnify`). This
directory models their core in TLA+, checks it with TLC on small instances and
proves the safety properties that those runs check with TLAPS. `PROJECT.json` lists the components, the runs, the
source lines each definition stands for, the hazards, the findings and the
theorems; this file explains them.

To repeat a run: `tlc -workers 2 -config MCBitmapPmmSingle.cfg MCBitmapPmm`, and
likewise for the others. To repeat the proofs: `tlapm BitmapPmmProofs.tla`, and likewise
for the other modules whose names end in `Proofs`.

## 1. Inventory

The loader runs on the firmware: it reads the firmware's memory map, builds
page tables, loads the kernel (a PE image) into the higher half, ends boot
services and jumps. The kernel sets up its parts in a fixed order on one CPU
and then idles. It turns interrupts off only at `apic.c:79`, near the end; until
then they are as the firmware left them, but every handler panics and none
returns. So there is little concurrency: firmware events during the loader,
exceptions and interrupts that end the kernel at any step, the CPU's
translation cache, and the allocator's spin lock. What makes the system hard is
memory: five allocators are stacked on one another, any of them may refuse,
and callers act on results, counters and lists that were right some calls ago.

| Component | State | Operations | Uses | What makes it correct |
|---|---|---|---|---|
| Physical memory manager (`pmms/bitmap.c`, `pmm.c`) | bitmap, page counts, usage counter | set-up, self-test, allocate and free one page or a run, reallocate | memory map of the loader | a page has one holder; reserved pages and the bitmap's own are never granted; no page is lost; the counter is exact; a request is refused only if nothing fits |
| General allocator (`alloc.c`) | list of blocks, list of free chunks, headers in memory, spin lock | set-up, allocate, free | physical memory manager | what callers hold overlaps nothing; lists lead only to headers that exist; a block goes back when it is idle, never before, and whole |
| Virtual memory manager (`vmm.c`) | four-level tables, CR3 | set-up, map, unmap, check | physical memory manager, boot information | tables form a tree, the kernel and the tables themselves are mapped once CR3 is loaded, no stale translation is used |
| Arena (`arena.c`) | base, size, used | create, push, pop, reset, destroy | general allocator | what is handed out lies apart within memory the arena has |
| Entity component system (`ecs.c`) | component types, archetypes with arrays of entities and lists of free places | create type, create, find, fill, delete entity | pages, arena, general allocator | a handle finds its entity with its data, never another's; a deleted entity is not found |
| Kernel start (`entry.c`, `mm.c`, `ke.c`, `acpi.c`, `apic.c`) | the step, which areas outside of memory the tables map | one step per part | all of the above | the start ends, idle or in a panic that has been printed |
| Panic and status texts (`panic.c`, `nrstatus.c`) | palette | panic | terminal, serial line | a panic shows its whole text with its cause, also one that cut another short |
| Terminal, graphics, splash screen (`term.c`, `graphics.c`, `splash.c`) | cursor, palette, owner of the screen, progress | clear, print, move down, draw a rectangle or a text, advance | framebuffer | nothing is written outside the framebuffer, texts do not lie over one another, the two owners stay apart |
| Formatted output (`term.c`, `nanoprintf.h`) | two buffers on the stack | print | | the text is what C says it is, cut where a buffer ends, and never read or written behind an end |
| Strings (`qstring.c`, `qmem.c`) | buffers in literals, arenas, the heap | wrap, copy, slice, compare | arena, general allocator | a string says what it said when it was made, and its buffer is terminated |
| Exceptions (`idt.c`) | table of gates | install, handle | panic | every exception or interrupt ends in a panic that names it |
| Spin lock (`spinlock.c`) | a flag | acquire, release | | every path releases it: nobody ever waits |
| Boot loader (`nearmonia/src`) | copy of the memory map and its key, page tables, image, boot information | one function per step | firmware | the kernel is entered only when it is placed and mapped, with boot services ended and a map that does not offer the kernel's own memory |
| uACPI glue (`uacpiwrap.c`) | none | allocate, map, log, locks | allocator, tables | each call keeps the allocator usable |
| uACPI (`extern/uACPI`) | its namespace and tables | 19 C files of a third party, built with the kernel | uACPI glue | left out (section 5): the environment that calls the glue |
| Pagemap manager (`pmms/pagemap.c`), legacy allocator (`legacyalloc.c`) | list of free regions | as above | | compiled out (`pmm.h`, `alloc.h`) |
| Segments, ports, serial line | | | | constant tables and single instructions |

Interactions are calls on one CPU. State is shared through memory alone: the
page tables lie in pages of the physical memory manager, the heap's headers lie
in its blocks, an entity's data lies in an arena in the heap. The loader hands the
kernel a memory map, page tables and a boot information structure.

What is hard to test here, and is listed at its line under `hazards`:

- **Partial failure.** Every operation that takes several allocations
  (`EcsCreateEntity`, `MmMapPage`, `MmReallocatePages`, the loader's memory map)
  may lose memory, or worse, when the second is refused.
- **Stale state.** The firmware's map key, cached translations, handles of
  deleted entities, headers in pages that were given back.
- **Long sequences of legal calls.** Carve, split, free, free the block; delete,
  create in the same place, grow; destroy, push.
- **Arithmetic at an edge.** Bits compared in place, header sizes in unsigned
  subtraction, runs that end at the last page, pages computed twice by
  different formulas.
- **Exceptions and locks.** An exception in the middle of a panic, a panic that cannot
  be drawn, a lock kept on an error path.
- **Buffers at their limit.** A format that is cut in the middle of a directive, a
  terminal that is full in the middle of a panic, the byte for a terminator.

## 2. Modules

| Module | Models | Built on |
|---|---|---|
| `PageAllocator` | abstract: what callers may rely on from a physical memory manager | |
| `BitmapPmm`, `MCBitmapPmm`, `BitmapPmmProofs` | the bitmap manager, its self-test and reallocation | implements `PageAllocator` |
| `PieceAllocator` | abstract: what callers may rely on from the general allocator | |
| `GeneralHeap`, `MCGeneralHeap`, `GeneralHeapProofs` | the general allocator | the contract of `PageAllocator`; implements `PieceAllocator` |
| `PageTables`, `MCPageTables`, `PageTablesProofs` | the kernel's page tables and the CPU's translation cache | `MmAllocateSinglePage`, lowest page first |
| `Arena`, `MCArena` | the arena | the contract of `PieceAllocator`; proved about in `LibraryProofs` |
| `QString`, `MCQString` | strings and the memory they lie in | extends `Arena`; the heap's contract; proved about in `LibraryProofs` |
| `EntityStore` | abstract: what clients may rely on from the entity component system | |
| `Ecs`, `MCEcs`, `EcsProofs` | the entity component system | allocations that may be refused; implements `EntityStore` |
| `Screen`, `ScreenProofs` | rectangles and texts on the framebuffer, the terminal, the splash screen, as operators on a record | |
| `LoaderBoot`, `MCLoaderBoot`, `LoaderBootProofs` | the loader from its entry to the kernel's, its screen, the sections of the image | `Screen`; the firmware, external |
| `KernelStart`, `MCKernelStart`, `KernelStartProofs` | the start of the kernel, panics, exceptions, the glue for uACPI and the locks under it | `Screen`; the other parts as steps; uACPI, external |
| `Nanoprintf`, `MCNanoprintf` | what the terminals print | proved about in `LibraryProofs` |
| `LibraryProofs` | (the proofs about `Arena`, `QString` and `Nanoprintf`) | |

A component module declares its constants and what is assumed of them, its
state, its helpers, its actions, which carry the names of the functions they
model, and its properties. Some definitions are marked as the mutant of the
definition that follows them: plausible mistakes in the code, kept to show that
the properties notice them. They are no part of any specification.

### How the models correspond to the code

**BitmapPmm.** `bits` is the bitmap as the set of pages whose bit is SET;
`pageCount`, `usablePageCount` and `pageUsed` are the static counters; `baseline`
and `held` are history: what was SET when the manager went into service, and
which run each client has. Addresses are page numbers. Set-up counts the pages of
the map, places the bitmap in the first large enough entry, sets all bits, clears
the FREE entries, sets the others, and marks the bitmap, in that order. The
self-test is one action with each of its outcomes. A search for more pages than the
map has computes `pageCount - amount` unsigned (`bitmap.c:144`): it wraps around and the
scan runs behind the bitmap. `SearchStrays`, and the self-test with fewer than 11 pages, end
in the phase `astray`, of which nothing more is said. `SeenSet` is
`GET_BIT_IN_BITMAP(k) == SET` as it is computed: the macro leaves the bit in its
place, so the comparison with 1 holds for bit 0 of a byte alone.

**GeneralHeap.** Byte addresses, 48-byte headers and the code's rounding are kept,
because overlap is about bytes. A linked list is a function from each entry to
the entries in front of it: it has the order of the list without a length.
Requests are served as `GetMemoryFromFreeList`, `AllocateFreshMemory` and
`CreateBlock` do: reuse, split, carve, new block, refusal, first fit in list
order. `live` and `owned` are history. `allocSpinLock` is held throughout a
call, so a call is one step; `KernelStart` shows that it is released. `PiecesOf` is what
`PieceAllocator` sees: the chunks that are not free, with the sizes in their headers and
what was asked for.

**PageTables.** Tables of `ENTRIES` entries in pages of memory; virtual pages are
numbers whose digits are the indices of the levels. Each loop of the set-up
(`KernelLoop`, `MemMapLoop`, `FramebufferLoop`, `LapicLoop`) maps one page per step, so
that it runs out of memory wherever it can; the results the code ignores
(framebuffer, APIC) are ignored. The root is taken unchecked, as in the
source. The CPU may cache any valid translation at any time.

**LoaderBoot.** The firmware's map is a set of free pages and a key that changes
with it. A pool request is served from what the firmware has set aside (no
change of the map) or from a new page (a change), or refused; firmware events
allocate in between. Each function of the loader is an action, with its error
path to `LdrPanic`. When the memory map cannot be retrieved, its pools are freed and
the callers get NULL, which they do not look for (`RetrieveFails`). `MmInitPaging` and
`peldr.c:213` follow it: either that faults (`NullFaults`), or what is at address 0 is taken for
a map, and the loader goes on as far as into the kernel. A file kind `uncounted` stands for
what becomes of a file of which `sfs.c:56`, reading to address 0, counted nothing. Sections
are loaded one per step: `memory` holds a byte of the image as a tag and an
offset, so that what comes from the file, from the clearing and from the BootInfo
can be told apart. What the loader prints, and its panic, go through `Screen`.

**Arena.** The five operations on sizes that wrap at `WORD`; `pushed` is history.
`MmDestroyArena` reads the status of `MmFreeGeneralMemory` as the code does.

**QString.** A string is a buffer, an offset and a length in a byte-wise `memory` that
holds literals, the pieces behind the arena and the pieces of the heap. Pushes of
others write into what they get. `text` and `end` are history: what the string said
when it was made, and where its buffer was terminated. Strings are followed as long
as their memory is theirs; a caller that uses one after it popped or freed the
memory is outside the contract.

**Ecs.** Archetypes with an array (`entities` up to its length, `capacity`,
whether it has memory) and the queue of free places. Each allocation of an
operation may fail, with the state the code leaves behind: `CreateLosesArray`
(the array does not grow), `CreateLosesPlace` (no arena or no room in it),
`AtaPanics`. Reading through an array that is gone is `FollowsNull`. `held`, `lost` and
`population` are history. `StoreOf` is what `EntityStore` sees: the entities that
`EcsGetEntity` finds, with their components and data. It does not depend on the history.

**Screen.** The `GraphicsData`, the terminal's cursor and palette and the splash
screen's `dotX`, in pixels. A print is all its calls: the tag, the text, the move to the
next line with the clearing of a full terminal. What is drawn is kept as a set of marks
(a text with its place, width and colour); the glyphs of the fonts are left out.
`reach` is how far the framebuffer has been written. Both kernel and loader use it;
where their code differs the difference is a parameter.

**KernelStart.** `pc` walks `KeSystemStartup` and the functions it calls; each step
passes or fails in the ways its code can. `mapped` has the areas outside of memory that
the tables in use map: the loader's map the framebuffer, and `MmInitVirtualMemoryManager`
reports success whether or not the framebuffer and the APIC could be mapped
(`vmm.c:132`, `:138`), or faults when there was no page for the root (`vmm.c:116`). Where the
framebuffer is not mapped (`Blind`) a print faults (`DrawFaults`), and so does the panic of that
fault, which starts by wiping the screen: the kernel is `Lost`. A panic is a script
that runs call by call on the screen and the serial line; an exception may strike at
any step, also in a panic, through the gate its vector has, and as often as it likes.
While uACPI is being set up any number of calls may come from it, in any order: allocate,
free, its spin lock, print, map. The allocator's lock is taken, held and released in steps of
its own, and waiting for it is a step that changes nothing.

**Nanoprintf.** The state is that of `npf_vpprintf`: the place in the format, the
directive that was read, the arguments taken, the count, the buffer. Reading a
directive, layout and output are operators that follow the header. The reference
is defined from the request (flags, width, precision, length, conversion, value), not
from the format: what ISO C says the text is, for what C defines (`CDigits`, `CPrefix` and
`CField` for numbers). The integer types keep their widths: how many values each has is a
constant, small in the run.

## 3. Runs

| Run | Distinct states | Result | What it shows |
|---|---|---|---|
| `pmm_single` | 233 | holds | requests of one page: `Exclusive`, `NoPageLost`, `ReservedKept`, `UsageMatchesGrants`, and the refinement `KeepsPromise` of `PageAllocator` |
| `pmm_runs` | 108,034 | holds | runs of 3, 11 and more pages than there are: `ByteBoundaryExclusive` (a page at a byte boundary has one holder) and `SearchComplete` (a refusal means that nothing fits) |
| `pmm_overlap` | | violated | runs of 2 and 3 pages are granted over pages in use |
| `heap` | 28,422 | holds | `LiveIntact`, `ChunksTile`, `CountersExact`, `FreeListExact`, `PagesExact`, and the refinement `KeepsPieces` of `PieceAllocator` |
| `page_tables` | 2,882 | holds | `TablesFormTree`, `KernelRuns`, `CacheCoherent`, and that a step touches one page's mapping alone (`OthersUntouched`) |
| `boot` | 220,824 | holds | `KernelPlaced`, `ImageKept` (of what the loader holds, the map calls free only the array of its own entries), `SectionsPlaced` (every byte of every section), `LoaderReadable`, with every failure and firmware events |
| `boot_exit` | | violated | the map key is out of date: the kernel is entered with boot services running |
| `arena` | 235,260 | holds | `PushedApart`, `UsedExact`, and `StringsIntact` for the strings in the arena and beside it |
| `arena_destroy` | | violated | a destroyed arena hands out memory it gave back |
| `ecs` | 737,384 | holds | `LossContained`, `NeverShared`, `DeletedRefused`, `FreePlacesIdle`, and the refinement `KeepsStore` of `EntityStore` |
| `start` | 74,543 | holds | `NeverWaits` (for the allocator's lock), `OnScreen`, `LinesApart`, `SplashKept`, `PanicComplete`, and the liveness property `StartEnds` |
| `print` | 198,956 | holds | `PrintsAsC`, `BufferHolds`, `StaysInside`, and the liveness property `Ends` |

Each passing run checks its module's `TypeOK` too (`pmm_runs` leaves it to `pmm_single`
and to the proof), in `boot` as an invariant of its own and otherwise as the first conjunct of
`UsageMatchesGrants`, `FreeListExact`, `TablesFormTree`, `UsedExact`, `FreePlacesIdle`, `OnScreen`
and `StaysInside`. Where `TypeOK` says more than types it is noted there: no list of the heap
leads to a header that is gone; no entity lies beyond its array, and a list of components has
one archetype; what the loader holds it holds once.

### Bounds

- **pmm.** About 30 pages, so that four bytes of bitmap are in play and runs cross
  byte boundaries; pages of 2 bytes, so that the bitmap itself takes two pages;
  six maps: the bitmap in a FREE entry, at address 0, in a USED entry, too few
  pages for a bitmap, fewer than the longest run of the self-test, too few free ones
  for it. Two or three clients: an overlap
  needs two. Runs of 11 exceed a byte, runs of 3 do not, 40 pages no map has. Clients are
  interchangeable in `pmm_runs` (symmetry).
- **heap.** Six pages hold two blocks at a time; the sizes 2500, 2560 and 5100 make
  blocks of two and three pages, exact reuse, reuse of a chunk larger by a header,
  splitting, and carving of a second chunk.
- **page_tables.** Four entries per table give 256 virtual pages and four true
  levels; free memory of every size from none up makes each step of the set-up
  the one that fails; client pages share a table, a directory, or nothing.
- **boot.** Six interchangeable pages for an image of two, tables and pools: each can
  run out. One firmware event (`MaxEvents`) is enough to change the key between
  any two steps; `MaxTables` bounds the pages one step takes for tables. Pages have
  four bytes and images two sections, one of which fills its page, in the file longer or
  shorter than in memory or not there; `.ldr` comes first, last or is missing. A screen of eight
  lines holds a panic but not all of the loader's output.
- **arena.** Two pieces, arenas of 0 and 6 bytes, pushes of 1, 3 and 7, two names for
  strings and a literal of two letters: an arena holds two strings or one and a
  push of someone else, a copy of a copy of a slice exists, a string that does not
  fit too. The names are interchangeable (symmetry).
- **ecs.** Arrays start with one place and double (15 and times 3 in the code), so
  that growth, and failure to grow, come after a few calls. Two lists of
  components, `MaxEntities` 3, `MaxPlaces` 2.
- **start.** A screen of 13 lines (a panic takes 12) that the start's output fills
  more than once, with rows longer in memory than on the screen, and no screen
  at all; a step prints one or two lines (`MaxLog`). Exceptions and calls of uACPI are not
  bounded: the state does not count them. One thing would grow without end, the
  cursor under the splash screen, and uACPI calls only while it is above row 300
  (`MaxRow`); the terminal's own cursor never gets there. The vectors are 14 (a gate of its own),
  32 (an interrupt) and 255 (no gate).
- **print.** `char` of 2 bits, `short` of 3, `int` and `long` of 5, pointers of 7, so that
  each conversion narrows, wraps and is negative for some of six values; a conversion
  buffer of four bytes, just the size the header demands; formats of up to 9
  characters and a buffer of 7, so that both cut. One directive in each combination
  of up to two flags (in one order), four widths, five precisions and four lengths, and all
  triples of six directives with a literal between.

### Fairness

Two properties need it. `StartEnds` assumes three things:

- weak fairness of the CPU's steps (`Start`, `Glue`, `PanicStep`): the one CPU keeps
  executing the code, and nobody takes it away;
- strong fairness of `Start`: between its calls of the kernel a function of uACPI
  returns, after however many. This is an assumption about code outside of the model, and
  one the kernel does not make easy: loops that uACPI ends by the clock
  (`extern/uACPI/src/interpreter.c:2052`) never do, because the clock always reads 0
  (`uacpiwrap.c:71`);
- strong fairness of `uacpi_kernel_unlock_spinlock`: uACPI releases the spin locks it takes
  (and it takes none that it holds, which is the action's guard).

Waiting for the allocator's lock changes nothing, so it counts as being stuck, and a lock
that an error path kept would violate the property. Exceptions are not fair, they merely
may strike. If they strike for ever no panic gets to its end, so `StartEnds` says what
holds if from some point on there are none. It does not hold for every failure: without
the framebuffer the kernel ends in faults that nobody sees, and the property names that one
case. `Ends` assumes weak fairness of the next step of a print, for the reason given first.

### Findings

- `pmm_overlap`: `bitmap.c:154` notices a page in use only when its number is a
  multiple of 8. Everything that takes runs of several pages (the heap, the arrays
  of the ECS) rests on a promise that is not kept; the runs of those components
  assume it is, and show what they do with it.
- `boot_exit`: `mem.c:50` allocates after the map was read; `peldr.c:213` drops the
  status of `ExitBootServices`.
- `arena_destroy`: `arena.c:54` takes `STATUS_SUCCESS`, which is 0, for failure.

Smaller observations, which no document of the repository contradicts and no run
is about:

- Memory: a search for more pages than there are runs behind the bitmap (`bitmap.c:144`
  wraps around); the self-test gives back eleven pages where it got two (`pmm.c:46`), which
  is harmless only with more than 22 free pages ahead of the first reserved one; the
  bitmap is indexed by page number but sized by page count (`bitmap.c:80`), so a map
  with holes indexes past its end; `MmMapPage` over a mapped page leaves the old
  translation in the CPU (`vmm.c:58`; the kernel never does it).
- ECS: `ecs.c:135` overwrites the array's address before it looks whether there is a
  new one, and the entities of that array are lost (`LossContained` bounds the loss).
- Tables: the kernel's set-up drops the results of mapping the framebuffer and the APIC
  (`vmm.c:132`, `:138`) and clears a root it may not have got (`vmm.c:116`). Without the
  framebuffer the next print faults, and the panic of that fault faults again, without
  end.
- Loader: the memory map calls the array of its own entries free (`mem.c:50`), of what the
  loader holds nothing else; nobody looks whether there is a map, and the kernel may be
  entered without one (`peldr.c:198-213`); `MmInitPaging` always reports success (the loader's
  `vmm.c:83`); its mapping of the framebuffer multiplies a size in bytes by the page size
  (its `vmm.c:86`; the kernel's, `vmm.c:131`, does not); the size of a file is counted from
  16, by reading to address 0 (`sfs.c:52-56`); `typeOfBoot` is always 1, so that the
  splash screen needs another loader.
- Start: vector 255 has no gate (`idt.c:139`); `uacpi_kernel_alloc_zeroed` clears memory
  it may not have got (`uacpiwrap.c:58`); the clock reads 0 (`uacpiwrap.c:71`), so that a
  wait of uACPI that is to time out would not; most calls of the glue that do nothing
  return 0, which is success, but `uacpi_kernel_wait_for_event` returns that it timed out.

## 4. Proofs

Each theorem holds for every value of the constants that the assumptions of its module
allow. Those assumptions say what kind of thing a constant is (sizes are natural
numbers, maps are sequences of entries, pages have addresses other than 0), and six
say more: the loader's memory is finite (`BoundsAssumption`), the sections of an image are
apart, also when the file rounds one up, which is how the linker lays them out
(`LayoutsAssumption`), a framebuffer has room for its rows (`ScreensAssumption`),
literals are terminated (`LiteralsAssumption`), each integer type has an even number of
values, no fewer than the shorter one, and an `int` counts beyond 9 (`ValuesAssumption`), and the
buffer for conversions holds the longest octal number with its leading zero, which the header
demands of whoever configures it (`ConvAssumption`). What is printed is any sequence of
literals and of directives with widths and precisions of one digit or `*`
(`RequestsAssumption` of `Nanoprintf`). TLC evaluates all of them on each run.

| Module | Theorem | Statement |
|---|---|---|
| `BitmapPmmProofs` | `TypeCorrect` | `Spec => []TypeOK`; the counter stays within `0 .. pageCount` |
| | `ByteBoundarySafe` | `Spec => []ByteBoundaryExclusive`, for runs of any length |
| | `SearchIsComplete` | `Spec => []SearchComplete`, for every bitmap and any length |
| | `SinglePagesExclusive`, `SinglePagesConserved`, `SinglePagesCounted` | if `Amounts \subseteq {1}`: `Exclusive`, `NoPageLost`, `UsageMatchesGrants` |
| | `SinglePagesKeepReserved` | if `Amounts \subseteq {1}`: `Spec /\ []RoomForTest => []ReservedKept` |
| | `SinglePagesKeepPromise` | if `Amounts \subseteq {1}`: `Spec => KeepsPromise`, the manager implements `PageAllocator` |
| `GeneralHeapProofs` | `CallersSafe`, `HeapTiled`, `CountersCorrect`, `ListsExact`, `PagesCorrect` | `LiveIntact`, `ChunksTile`, `CountersExact`, `FreeListExact`, `PagesExact` |
| | `HeapKeepsPieces` | `Spec => KeepsPieces`, the heap implements `PieceAllocator` |
| `PageTablesProofs` | `TablesAreTree`, `CacheStaysTrue` | `TablesFormTree`, `CacheCoherent` |
| | `OnlyThePageChanges` | the action property `OthersUntouched` |
| | `KernelStaysMapped` | `KernelRuns`, if boot data is `Apart` |
| `LibraryProofs` | `TypeCorrect` | `TypeOK`, also when sizes wrap |
| | `PushedStacked`, `UsedCounted` | `PushedApart`, `UsedExact`, under `NoWrap` |
| | `StringsStayIntact` | `StringSpec => [](StringsIntact /\ PushedApart /\ UsedExact)`, under `StringsFit` |
| | `PrintedAsC` | `PrintSpec => []PrintsAsC`, for all numbers, flags, widths, precisions and lengths |
| | `TextIsWhole`, `PrintStaysInside` | `BufferHolds`, `StaysInside` |
| `EcsProofs` | `TypeCorrect`, `EntitiesKept`, `HandlesUnique`, `StaleRefused`, `FreeListSound` | `TypeOK`, `LossContained`, `NeverShared`, `DeletedRefused`, `FreePlacesIdle` |
| | `EcsKeepsStore` | `Spec => KeepsStore`, the system implements `EntityStore` |
| `LoaderBootProofs` | `TypeCorrect`, `KernelIsPlaced`, `ImageIsKept`, `SectionsArePlaced`, `LoaderIsReadable` | `TypeOK`, `KernelPlaced`, `ImageKept`, `SectionsPlaced`, `LoaderReadable` |
| `KernelStartProofs` | `NobodyWaits`, `StaysOnScreen`, `LinesStayApart`, `SplashIsKept`, `PanicsAreComplete` | `NeverWaits`, `OnScreen`, `LinesApart`, `SplashKept`, `PanicComplete` |
| `ScreenProofs` | (lemmas) | what each call of the terminal and the splash screen leaves of a screen |

Where a theorem has a hypothesis of its own, it is because the property is false without it:

- `Amounts \subseteq {1}`: runs overlap, as `pmm_overlap` shows. `ByteBoundarySafe` is what is
  left.
- `RoomForTest`: the self-test frees eleven pages where it got two, which does not reach
  a reserved page when the 23 lowest free pages lie in one stretch.
- `NoWrap`, `StringsFit`: `MmPushMemoryFromArena` adds before it compares, so a size near
  2^64 passes. The sizes of the run satisfy them (`SizesSmall`).
- `Apart`: boot data that maps a page twice would have the second mapping replace the
  first. The run's boot data satisfies it (`BootsApart`).

The heap's sums are not taken modulo 2^64: for requests near the word the code's rounding
wraps, and that is outside the model and the theorems.

### Arguments

**BitmapPmm.** `TypeInv` is `TypeOK` and that nobody holds anything before the manager is in
service. `StepShape` turns the operations in service into one shape: a client swaps the
run it holds for another that is `Available`, which is exactly what the search guarantees
(its first page is clear, and so is each page at a byte boundary), or for none.
`ByteBoundaryExclusive` alone is not inductive: that a page is not held twice depends on its
bit being SET while it is held. `ExclusiveOn(S)` states both for the pages of `S`, and is
preserved for the multiples of 8. With requests of one page, `SingleInv` (`ExclusiveOn(Nat)`,
held pages in range and outside the baseline, `NoPageLost`) is inductive and gives the
refinement step by step. `UsageInv` adds that the counter is the number of pairs of a client
and a page it has, `ReservedInv` that reserved pages are SET after the set-up and in the
baseline afterwards. `SearchComplete` needs no history: it is a fact about the search on any
bitmap.

**GeneralHeap.** `HeapInv` is a conjunction of parts that need each other. `Structure`: blocks
are apart, and their chunks are aligned, lie in the carved part, are apart with their
headers, and each ends where the next header begins. `Lists`: the free list has exactly the
free chunks, callers have the others. `Counted`: a block's counter is the number of its
chunks in use. `PagesOwned`: the pages computed from the headers are those the manager
granted. `RowSound`: a list is a row. A chunk from the free list can be handed out because of
the tiling; a block is given back with nothing in use because its counter is exact; and
`IdleTooSmall` is what is needed for the one block that may have no chunk, that of the set-up.
For the refinement, each way to serve a request is shown to give exactly one piece
(`Given`), each way to free to take exactly one (`Taken`), and neither to change the size in
the header of another; that the new piece is apart from the others is `Structure` after
the step.

**PageTables.** `TableInv` says that there is a level for each table (`\E lvl : Tree(tables, lvl)`)
such that entries lead one level down, no two entries to one table, each table but the root
has an entry, and tables and free pages are together what boot data called free.
Uniqueness of the entry is what makes `SetEntry` change one page's translation and no other
(`OthersUntouched`), and with it the cache stays true. `PlacesInv` says what has been mapped
when a loop of the set-up has come to a page; `Kept` that making tables on the way down
changes no translation.

**Arena and strings.** `StackedInv`: each piece ends where the next begins, the last where `used`
is, and the size of the arena is one that arenas are created with, so that a push cannot
wrap. `UsedExact` is about the last piece alone and would not survive a pop. `StringInv` adds
where each string is (`Placed`): in a literal, in a part of the arena that is still pushed, or
in a piece of the heap that is in use and is not the arena's, unless the arena's piece has
been given back; and that nothing is written to a literal. What is pushed or allocated is
then written beside all strings, and what is popped or freed has none.

**Ecs.** `EcsInv`: an array without memory is full (so that it is allocated anew before anybody
is put into it), the queue of free places has each once and only places where nobody is alive, a
client's entity is in its place unless it was lost, every living entity is a client's, and a
place with a lost entity is not in the queue. The last is what keeps handles apart after
a failed growth. With it, what `EcsGetEntity` finds is what clients have and have not lost
(`StoreIs`), so that each step of the store can be read off the history; `Grouped`, that an
entity has the components of its archetype, is what makes the loss of an array the loss of
all entities with one list of components and of no others.

**LoaderBoot.** `LoaderInv`: what the loader holds is held once and not free (`Holding`), and what
has been done before each step (`Ordered`). `LoadedInv`: the sections loaded so far are as the
image describes them, which loading another one keeps because sections are apart. `ReadInv`:
the screen is `Open` (texts above the cursor's line or to its left) until there is a panic.

**KernelStart and Screen.** `LockInv`: the allocator's lock is set only while a call is inside
the allocator (a panic cuts such a call short, and then no other follows); so a call that begins
finds it released. `ShowInv`: the terminal's texts are above the cursor's line or to its left (`Legible`), which is
why the next one lies over none, and the splash screen has the dashes of the steps done.
`PanicInv`: before each step of a panic's script, where the cursor is, which texts are on the
screen and what is on the serial line; it is true again from the start when an exception
begins another panic. `ScreenProofs` has what `KeTermPuts`, `KeTermMoveDown`, `KeTermClear` and a
print of several lines do to these. A print of n lines is a recursive function of n: a
property of all its values is proved from the least number that does not have it
(`LeastNumber`), because the library's induction theorem cannot be used by the provers
installed.

**Nanoprintf.** `PrintInv` says how far the print has come, by the items of the request, not by
the format: `k` items are printed and the next one follows (`Between`), or it has been read
(`Read`), or what the end of the buffer for formats left of it is being copied as it stands
(`Within`). The text so far is what C says of the first `k` items, and the buffer holds what
fits of it. That a directive is read back as it was spelled is proved place by place
(`Places`: where flags, width, precision and length end); that a stump of one is refused, because
none of its proper beginnings ends in a conversion (`StumpRefused`). Digits are compared by
their places: the loop of `npf_utoa_rev` and the number C prints agree in the digit at each
power of the base, which is shown by the least number of digits for which it fails. Then
the field is compared by the side that is filled, with blanks or with zeros. The conversion
buffer holds every number because the octal digits of the largest one are the most there
can be.

Proving changed the models in four places. In `Nanoprintf` the reference definition was one
expression; it is now one operator each for digits, prefix and field, and powers are a
function of their own. `PageTables` and the screens of the loader and
the kernel state what they assume of boot data and of framebuffers. In `QString` a string
was taken to be alive when a piece began where it does: with a push of no bytes in front of it,
that was true after it had been popped. It is now the piece that contains it.

### Model-checked only

- `StartEnds` and `Ends`: liveness under fairness is out of the prover's reach.
- `NoUseAfterFree`, `HandOver` and `Exclusive` for runs of pages do not hold: those runs show it.

## 5. Not modelled

- Glyphs of the fonts, the bytes on the serial line outside of panics, ports, GDT, PIT,
  the APIC's registers, CPU start-up code: constant tables and single instructions
  on hardware.
- uACPI. Its code is in the repository: 19 C files, 23,197 lines, under
  `src/narnify/src/extern/uACPI/src`, built with the kernel (`xmake.lua:7`). It is
  deliberately left out: it is third-party, more than three times as long as the repository's own
  code, and a project of its own. In `KernelStart` it is an environment that makes any calls of
  the glue; that it takes no lock it holds, releases its locks and returns is assumed, not
  shown.
- EFI: what the repository has of it is headers, which declare types and functions of the
  firmware. The firmware is an external party of `LoaderBoot`.
- What a kernel does that has gone astray behind the bitmap, or that was entered without a
  memory map; what reading to address 0 writes over (`sfs.c:56`) and what the zeros of
  `uacpiwrap.c:58` do where address 0 can be written; exceptions before the kernel has a table
  of gates; how much of the screen a panic has wiped when it faults, and the stack that
  endless faults use up.
- Of nanoprintf, the conversion of floating point numbers, which nothing prints, and
  what the configuration compiles out. The loader's copy of the header is the
  kernel's.
- `pagemap.c` and `legacyalloc.c`: compiled out, with no state of the kernel that has
  them.
- The contents of memory, except headers, tables, the bitmap, the image, strings and
  the data of entities. In particular reads through pages that were given back.
- The loader's tables in detail: their structure is that of `PageTables`. Holes in
  them, which an unnoticed failure leaves: `KernelStart` begins with the framebuffer mapped.
- Component sizes and the limit of ten components per entity;
  `EcsGetNewComponentIndex`, `memmove` and other functions that nothing calls.
- More than one CPU: the code starts one.

Some 2,750 lines are mapped, about one in twenty of all the lines under `src/`, and that is
close to what can be without uACPI: of some 49,400 lines of C, headers and assembly some 6,500 are the repository's
own, declarations and data included. The other 42,800 are vendored: uACPI, the headers of EFI,
two copies of nanoprintf (of which one is modelled) and the fonts.

## 6. Plan

The order is by what the rest of the system rests on. Done: 1 to 12.

1. `PageAllocator` and `BitmapPmm`, with the proofs above.
2. `GeneralHeap` on the contract of `PageAllocator`.
3. `PageTables`.
4. `LoaderBoot`.
5. `Arena`.
6. `Ecs`.
7. `KernelStart`.
8. `Screen`, under both the start and the loader, with the splash screen.
9. `Nanoprintf` against ISO C; the loading of sections, byte by byte.
10. `QString` on `Arena`.
11. Proofs: of `Arena`, `QString`, `GeneralHeap`, `PageTables`, `Ecs`, `LoaderBoot`, `Screen`,
    `KernelStart` and `Nanoprintf`, in addition to those of `BitmapPmm`.
12. `PieceAllocator`, which `GeneralHeap` implements, and `EntityStore`, which `Ecs` implements,
    with the proofs of both refinements.
13. Composition: the heap on `BitmapPmm` itself in place of its contract, to show what
    overlapping runs do to the heap.

Runs stay few, one for each question: a run for a composition replaces the run of the
part it contains where it asks the same.
