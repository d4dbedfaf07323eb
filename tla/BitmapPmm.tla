----------------------------- MODULE BitmapPmm -----------------------------
(***************************************************************************)
(* The physical memory manager the kernel is built with                    *)
(* (narnify/src/mm/amd64pc/pmms/bitmap.c), its self-test and the           *)
(* reallocation helper (narnify/src/mm/amd64pc/pmm.c), set up and tested   *)
(* by MmInitSystem (narnify/src/mm/amd64pc/mm.c).                          *)
(*                                                                         *)
(* The bitmap is the set `bits` of the pages whose bit is SET.  Addresses  *)
(* are page numbers: GetPageLocationFromAddress and its inverse only       *)
(* divide and multiply by PAGE_SIZE.  The address of page 0 is NULL.       *)
(***************************************************************************)
EXTENDS Integers, Sequences, FiniteSets, FiniteSetsExt

CONSTANTS
    Client,     \* the kernel's users of pages; each holds at most one run
    MemMaps,    \* memory maps the loader may hand over (BootMemoryMap)
    Amounts,    \* run lengths the clients ask MmAllocateMultiplePages for
    PAGE_SIZE   \* bytes in a page

\* The one type of a memory map entry (bootinfo.h) the manager tells apart.
FREE == "BOOT_MEM_TYPE_FREE"

\* An entry of the map, with its base and size counted in pages.
MemEntry == [base : Nat, size : Nat, type : STRING]

ASSUME MemMapsAssumption == MemMaps \subseteq Seq(MemEntry)
ASSUME AmountsAssumption == Amounts \subseteq Nat \ {0}
ASSUME PageSizeAssumption == PAGE_SIZE \in Nat \ {0}

VARIABLES
    phase,            \* how far MmInitSystem has come
    memMap,           \* the map the loader handed over
    pageCount,        \* pages in the map
    usablePageCount,  \* pages in the FREE entries of the map
    bitmap,           \* first page of the bitmap
    bits,             \* pages whose bit is SET
    pageUsed,         \* pages in use, as MmReturnPageUsed reports them
    baseline,         \* history: `bits` when the self-test has passed
    held              \* history: the run each client has been granted

setupVars == <<memMap, pageCount, usablePageCount, bitmap>>
vars == <<phase, setupVars, bits, pageUsed, baseline, held>>

-----------------------------------------------------------------------------
(* Pages, runs and memory maps *)

NULL == 0
NoRun == [base |-> 0, n |-> 0]
Run == [base : Nat, n : Nat]

Pages(first, n) == first .. (first + n - 1)
PagesOf(run) == Pages(run.base, run.n)

InPages(size) == (size + (PAGE_SIZE - 1)) \div PAGE_SIZE

FreeEntries(map) == {i \in DOMAIN map : map[i].type = FREE}
OtherEntries(map) == DOMAIN map \ FreeEntries(map)

\* Pages of some entries of the map, and how many the nested loops over the
\* entries and over their pages count.
PagesIn(map, entries) == UNION {Pages(map[i].base, map[i].size) : i \in entries}
CountPages(map, entries) ==
    Cardinality(UNION {{i} \X (0 .. (map[i].size - 1)) : i \in entries})

\* Bytes of the bitmap.
BitmapSize(map) == CountPages(map, DOMAIN map) \div 8
BitmapPages == Pages(bitmap, InPages(pageCount \div 8))

-----------------------------------------------------------------------------
(* The bitmap as the operations below change it: [bits, used] *)

Pmm == [bits |-> bits, used |-> pageUsed]

\* Mutant of Take: the page is counted but its bit is not SET.
TakeUnmarked(pmm, first, n) ==
    [bits |-> pmm.bits,
     used |-> IF pmm.used + n <= pageCount THEN pmm.used + n ELSE pageCount]

\* SET_BITMAP for every page of a run, and INCREMENT_PAGE_USAGE for each.
Take(pmm, first, n) ==
    [bits |-> pmm.bits \cup Pages(first, n),
     used |-> IF pmm.used + n <= pageCount THEN pmm.used + n ELSE pageCount]

\* CLEAR_BITMAP for every page of a run, and DECREMENT_PAGE_USAGE for each.
Give(pmm, first, n) ==
    [bits |-> pmm.bits \ Pages(first, n),
     used |-> IF pmm.used >= n THEN pmm.used - n ELSE 0]

TakeUnlessNull(pmm, first, n) == IF first = NULL THEN pmm ELSE Take(pmm, first, n)

\* The least of a set of pages, or NULL when there is none: what a scan of
\* the bitmap from its start returns.
Least(pages) == {i \in pages : \A j \in pages : i <= j}
                  \cup (IF pages = {} THEN {NULL} ELSE {})

SinglePage(pmm) == Least({i \in 1 .. (pageCount - 1) : i \notin pmm.bits})

\* Mutant of SeenSet: the pages after the first are not looked at.
SeenNever(pmm, k) == FALSE

\* GET_BIT_IN_BITMAP(k) is the bit in its place in the byte, so that the
\* comparison of line 154 with SET, which is 1, only sees bit 0 of a byte.
SeenSet(pmm, k) == k % 8 = 0 /\ k \in pmm.bits

\* Mutant of MultiplePages: the inner loop runs one page too far.
MultiplePagesOneMore(pmm, n) ==
    Least({i \in 1 .. (pageCount - n) :
              /\ i \notin pmm.bits
              /\ \A k \in Pages(i, n + 1) : ~SeenSet(pmm, k)})

\* What the scan finds for n <= pageCount; for more, line 144 wraps around (Strays).
MultiplePages(pmm, n) ==
    Least({i \in 1 .. (pageCount - n) :
              /\ i \notin pmm.bits
              /\ \A k \in Pages(i, n) : ~SeenSet(pmm, k)})

\* The bitmap becomes what `pmm` says.
Store(pmm) == bits' = pmm.bits /\ pageUsed' = pmm.used

\* A run of more pages than the map has is looked for: the unsigned difference of
\* line 144 wraps around and the scan reads, and may SET, bytes behind the bitmap.
\* What becomes of the kernel then is up to those bytes and is not followed.
Strays(pmm) == /\ Store(pmm)
               /\ phase' = "astray"
               /\ UNCHANGED <<setupVars, baseline, held>>

-----------------------------------------------------------------------------
(* Setting up: MmInitSystem *)

\* The manager's static variables, and a map handed over by the loader.
Init == /\ phase = "init"
        /\ memMap \in MemMaps
        /\ pageCount = 0 /\ usablePageCount = 0
        /\ bitmap = NULL
        /\ bits = {}
        /\ pageUsed = 0
        /\ baseline = {}
        /\ held = [c \in Client |-> NoRun]

\* The first entry that is long enough, of whatever type, holds the bitmap.
PlaceBitmap(map) ==
    LET fit == {i \in DOMAIN map : map[i].size * PAGE_SIZE >= BitmapSize(map)}
    IN \/ /\ fit = {}
          /\ bitmap' = NULL
       \/ \E i \in fit : /\ \A j \in fit : i <= j
                         /\ bitmap' = map[i].base

\* Mutant of InitialBits: the bitmap's pages are SET before the FREE entries
\* are cleared.
InitialBitsSwapped(map, own) ==
    (((0 .. (8 * BitmapSize(map) - 1)) \cup own) \ PagesIn(map, FreeEntries(map)))
        \cup PagesIn(map, OtherEntries(map))

\* memset to 0xFF, then CLEAR the FREE entries, SET the others, and SET the
\* pages of the bitmap itself.
InitialBits(map, own) ==
    ((0 .. (8 * BitmapSize(map) - 1)) \ PagesIn(map, FreeEntries(map)))
        \cup PagesIn(map, OtherEntries(map)) \cup own

MmInitPhysicalMemoryManager ==
    /\ phase = "init"
    /\ pageCount' = CountPages(memMap, DOMAIN memMap)
    /\ usablePageCount' = CountPages(memMap, FreeEntries(memMap))
    /\ IF BitmapSize(memMap) = 0
       THEN /\ phase' = "panic"                 \* STATUS_NO_VALID_MEMORY
            /\ UNCHANGED <<bitmap, bits>>
       ELSE /\ phase' = "selftest"
            /\ PlaceBitmap(memMap)
            /\ bits' = InitialBits(memMap, BitmapPages')
    /\ UNCHANGED <<memMap, pageUsed, baseline, held>>

\* The self-test ends: MmInitSystem goes on, or reports STATUS_PMM_FAIL,
\* upon which the kernel panics.
TestEnds(pmm, passed) ==
    /\ Store(pmm)
    /\ phase' = IF passed THEN "ready" ELSE "panic"
    /\ baseline' = IF passed THEN pmm.bits ELSE baseline
    /\ UNCHANGED <<setupVars, held>>

\* The stages of the self-test; o, h, p, c and l are the pages its calls return.
\* Last, the short run p is given back and must be granted again as l.
TestShortRun(pmm, c, p) ==
    LET given == Give(pmm, p, 2) IN
    \E l \in MultiplePages(given, 2) :
        IF l = NULL
        THEN TestEnds(given, FALSE)
        ELSE TestEnds(Give(Give(Take(given, l, 2), c, 10), l, 11), l = p)

\* Before, ten pages of the long run h are given back and must be granted again.
TestLongRun(pmm, h, p) ==
    LET given == Give(pmm, h, 10) IN
    \E c \in MultiplePages(given, 10) :
        IF c = NULL THEN TestEnds(given, FALSE)
        ELSE LET taken == Take(given, c, 10) IN
             IF c # h
             THEN TestEnds(Give(Give(taken, p, 2), c, 10), FALSE)
             ELSE TestShortRun(taken, c, p)

\* First, a page and the two runs are granted.
TestGrants(pmm) ==
    \E h \in MultiplePages(pmm, 11) :
    LET one == TakeUnlessNull(pmm, h, 11) IN
    \E p \in MultiplePages(one, 2) :
    LET two == TakeUnlessNull(one, p, 2) IN
        IF h = NULL \/ p = NULL THEN TestEnds(two, FALSE) ELSE TestLongRun(two, h, p)

MmTestPhysicalMemoryManager ==
    /\ phase = "selftest"
    /\ \E o \in SinglePage(Pmm) :
          LET one == Take(Pmm, o, 1) IN
          \/ o = NULL /\ TestEnds(Pmm, FALSE)
          \/ o # NULL /\ pageCount < 11 /\ Strays(one)
          \/ o # NULL /\ pageCount >= 11 /\ TestGrants(one)

-----------------------------------------------------------------------------
(* The operations the kernel's other parts call *)

\* A call that returned page i as the start of a run of n pages, or NULL.
Granted(c, i, n) ==
    held' = [held EXCEPT ![c] = IF i = NULL THEN NoRun ELSE [base |-> i, n |-> n]]

MmAllocateSinglePage(c) ==
    /\ phase = "ready"
    /\ held[c] = NoRun
    /\ \E i \in SinglePage(Pmm) : /\ Store(TakeUnlessNull(Pmm, i, 1))
                                  /\ Granted(c, i, 1)
    /\ UNCHANGED <<phase, setupVars, baseline>>

MmAllocateMultiplePages(c, n) ==
    /\ phase = "ready"
    /\ n <= pageCount
    /\ held[c] = NoRun
    /\ \E i \in MultiplePages(Pmm, n) : /\ Store(TakeUnlessNull(Pmm, i, n))
                                        /\ Granted(c, i, n)
    /\ UNCHANGED <<phase, setupVars, baseline>>

\* Clients give back what they were granted.
MmFreeSinglePage(c) ==
    /\ phase = "ready"
    /\ held[c].n = 1
    /\ Store(Give(Pmm, held[c].base, 1))
    /\ held' = [held EXCEPT ![c] = NoRun]
    /\ UNCHANGED <<phase, setupVars, baseline>>

\* Mutants of MmFreeMultiplePages: the pages are not counted; the loop runs
\* one page too far.
FreeUncounted(c) ==
    /\ phase = "ready"
    /\ held[c] # NoRun
    /\ bits' = bits \ PagesOf(held[c])
    /\ held' = [held EXCEPT ![c] = NoRun]
    /\ UNCHANGED <<phase, setupVars, pageUsed, baseline>>

FreeOneMore(c) ==
    /\ phase = "ready"
    /\ held[c] # NoRun
    /\ Store(Give(Pmm, held[c].base, held[c].n + 1))
    /\ held' = [held EXCEPT ![c] = NoRun]
    /\ UNCHANGED <<phase, setupVars, baseline>>

MmFreeMultiplePages(c) ==
    /\ phase = "ready"
    /\ held[c] # NoRun
    /\ Store(Give(Pmm, held[c].base, held[c].n))
    /\ held' = [held EXCEPT ![c] = NoRun]
    /\ UNCHANGED <<phase, setupVars, baseline>>

\* Mutant of MmReallocatePages: the old run is not given back.
ReallocateLeaks(c, n) ==
    /\ phase = "ready"
    /\ n <= pageCount
    /\ held[c].n <= n
    /\ \E i \in MultiplePages(Pmm, n) :
          IF i = NULL
          THEN UNCHANGED <<bits, pageUsed, held>>
          ELSE Store(Take(Pmm, i, n)) /\ Granted(c, i, n)
    /\ UNCHANGED <<phase, setupVars, baseline>>

\* The callers only ever ask for at least as many pages as they have.  When
\* there is no such run the caller keeps the old one.
MmReallocatePages(c, n) ==
    /\ phase = "ready"
    /\ n <= pageCount
    /\ held[c].n <= n
    /\ \E i \in MultiplePages(Pmm, n) :
          IF i = NULL
          THEN UNCHANGED <<bits, pageUsed, held>>
          ELSE /\ Store(Give(Take(Pmm, i, n), held[c].base, held[c].n))
               /\ Granted(c, i, n)
    /\ UNCHANGED <<phase, setupVars, baseline>>

\* Either of the two with more pages than the map has.
SearchStrays(n) == phase = "ready" /\ n > pageCount /\ Strays(Pmm)

\* KePanic never returns, and nothing more is said of a kernel gone astray.
Over == phase \in {"panic", "astray"} /\ UNCHANGED vars

Next == \/ MmInitPhysicalMemoryManager
        \/ MmTestPhysicalMemoryManager
        \/ \E c \in Client :
              \/ MmAllocateSinglePage(c)
              \/ MmFreeSinglePage(c)
              \/ MmFreeMultiplePages(c)
              \/ \E n \in Amounts : \/ MmAllocateMultiplePages(c, n)
                                    \/ MmReallocatePages(c, n)
        \/ \E n \in Amounts : SearchStrays(n)
        \/ Over

Spec == Init /\ [][Next]_vars

-----------------------------------------------------------------------------
(* Properties *)

TypeOK ==
    /\ phase \in {"init", "selftest", "ready", "panic", "astray"}
    /\ memMap \in MemMaps
    /\ pageCount \in Nat /\ usablePageCount \in Nat
    /\ bitmap \in Nat
    /\ bits \subseteq Nat
    /\ pageUsed \in 0 .. pageCount
    /\ baseline \subseteq Nat
    /\ held \in [Client -> Run]

\* Nobody is granted a page that somebody else holds, or a page that was not
\* free when the manager went into service.  MmAllocateSinglePage and
\* MmAllocateMultiplePages are meant to guarantee it for every request; they
\* do for requests of one page.
Exclusive ==
    /\ \A c, d \in Client : c # d => PagesOf(held[c]) \cap PagesOf(held[d]) = {}
    /\ \A c \in Client : PagesOf(held[c]) \cap baseline = {}

\* The bits that are SET are those of the pages that are held and those that
\* were SET when the manager went into service: no operation loses a page,
\* or lets go of one that is still held.
NoPageLost ==
    phase = "ready" => bits = baseline \cup UNION {PagesOf(held[c]) : c \in Client}

\* What the test of line 154 does guarantee for runs of any length: a page
\* whose number is a multiple of 8 is never granted twice.
ByteBoundaryExclusive ==
    \A c, d \in Client :
        c # d => \A k \in PagesOf(held[c]) \cap PagesOf(held[d]) : k % 8 # 0

\* The pages the memory map reserves, and those of the bitmap itself, stay
\* SET, so that no request is ever granted one of them.
ReservedKept ==
    phase = "ready" => PagesIn(memMap, OtherEntries(memMap)) \cup BitmapPages \subseteq bits

\* What the self-test needs of the map to give back no page that is reserved: it
\* frees eleven pages where it was granted two, behind a page and a run of eleven.
RoomForTest ==
    phase = "selftest" =>
        \E f \in 1 .. (pageCount - 23) : /\ Pages(1, f - 1) \subseteq bits
                                         /\ Pages(f, 23) \cap bits = {}

\* MmReturnPageUsed is the number of pages the clients have: the operations
\* count every page once, and the self-test leaves the counter at zero; before
\* that it stays between zero and the number of pages (TypeOK).
UsageMatchesGrants ==
    /\ TypeOK
    /\ phase = "ready" =>
          pageUsed = Cardinality(UNION {{<<c, k>> : k \in PagesOf(held[c])} : c \in Client})

\* A request is turned down only when the bitmap has no run of clear bits
\* that is long enough.
SearchComplete ==
    phase = "ready" =>
        \A n \in Amounts \cup {1} :
            NULL \in MultiplePages(Pmm, n) \cup (IF n = 1 THEN SinglePage(Pmm) ELSE {})
              => \A i \in 1 .. (pageCount - n) : Pages(i, n) \cap bits # {}

-----------------------------------------------------------------------------
(* The promise of PageAllocator, which single-page requests keep *)

Promise == INSTANCE PageAllocator WITH
    open <- phase = "ready",
    free <- IF phase = "ready" THEN (1 .. (pageCount - 1)) \ bits ELSE {},
    held <- [c \in Client |-> PagesOf(held[c])]

\* Every step of the manager is a step, or no step, of the page allocator the
\* rest of the kernel relies on.
KeepsPromise == Promise!Spec
=============================================================================
