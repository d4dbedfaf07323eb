-------------------------- MODULE BitmapPmmProofs --------------------------
(***************************************************************************)
(* What the bitmap manager guarantees for every set of clients, memory     *)
(* maps, run lengths and page size.                                        *)
(***************************************************************************)
EXTENDS BitmapPmm, FiniteSetTheorems, TLAPS

-----------------------------------------------------------------------------
(* Lemmas on the operators of the model *)

\* The loops of MmInitPhysicalMemoryManager that count pages terminate with a
\* number.
LEMMA CountPagesNat ==
    ASSUME NEW map \in Seq(MemEntry), NEW entries \in SUBSET DOMAIN map
    PROVE  CountPages(map, entries) \in Nat
<1> DEFINE block(i) == {i} \X (0 .. (map[i].size - 1))
           f == [i \in entries |-> block(i)]
           blocks == {block(i) : i \in entries}
<1>1. IsFiniteSet(entries)
  <2>1. IsFiniteSet(1 .. Len(map))
    BY FS_Interval
  <2> QED
    BY <2>1, FS_Subset
<1>2. f \in Surjection(entries, blocks)
  BY DEF Surjection
<1>3. IsFiniteSet(blocks)
  BY <1>1, <1>2, FS_Surjection
<1>4. ASSUME NEW T \in blocks PROVE IsFiniteSet(T)
  <2>1. PICK i \in entries : T = block(i)
    OBVIOUS
  <2>2. i \in 1 .. Len(map)
    OBVIOUS
  <2>3. map[i] \in MemEntry
    BY <2>2
  <2> DEFINE last == map[i].size - 1
  <2>4. last \in Int
    BY <2>3 DEF MemEntry
  <2>5. IsFiniteSet({i})
    BY FS_Singleton
  <2>6. IsFiniteSet(0 .. last)
    <3> HIDE DEF last
    <3> QED
      BY <2>4, FS_Interval
  <2> QED
    BY <2>1, <2>5, <2>6, FS_Product
<1>5. IsFiniteSet(UNION blocks)
  BY <1>3, <1>4, FS_UNION
<1> QED
  BY <1>5, FS_CardinalityType DEF CountPages

PmmType == [bits : SUBSET Nat, used : 0 .. pageCount]

\* Taking and giving back runs keep the counter within 0 .. pageCount.
LEMMA TakeType ==
    ASSUME pageCount \in Nat, NEW pmm \in PmmType, NEW first \in Nat, NEW n \in Nat
    PROVE  /\ Take(pmm, first, n) \in PmmType
           /\ TakeUnlessNull(pmm, first, n) \in PmmType
BY DEF Take, TakeUnlessNull, Pages, PmmType

LEMMA GiveType ==
    ASSUME pageCount \in Nat, NEW pmm \in PmmType, NEW first \in Nat, NEW n \in Nat
    PROVE  Give(pmm, first, n) \in PmmType
BY DEF Give, Pages, PmmType

\* A scan of the bitmap returns NULL or a page that qualifies.
LEMMA SingleResult ==
    ASSUME pageCount \in Nat, NEW pmm, NEW i \in SinglePage(pmm)
    PROVE  /\ i \in Nat
           /\ i # NULL => i \in 1 .. (pageCount - 1) /\ i \notin pmm.bits
BY DEF SinglePage, Least, NULL

LEMMA MultipleResult ==
    ASSUME pageCount \in Nat, NEW pmm, NEW n \in Nat, NEW i \in MultiplePages(pmm, n)
    PROVE  /\ i \in Nat
           /\ i # NULL => /\ i \in 1 .. (pageCount - n)
                          /\ i \notin pmm.bits
                          /\ \A k \in Pages(i, n) : k % 8 = 0 => k \notin pmm.bits
BY DEF MultiplePages, Least, NULL, SeenSet

-----------------------------------------------------------------------------
(* Type correctness *)

LEMMA SelfTestType ==
    ASSUME TypeOK, MmTestPhysicalMemoryManager
    PROVE  /\ bits' \subseteq Nat
           /\ pageUsed' \in 0 .. pageCount
           /\ baseline' \subseteq Nat
           /\ phase' \in {"ready", "panic", "astray"}
           /\ UNCHANGED <<setupVars, held>>
<1> DEFINE Goal == /\ bits' \subseteq Nat
                   /\ pageUsed' \in 0 .. pageCount
                   /\ baseline' \subseteq Nat
                   /\ phase' \in {"ready", "panic", "astray"}
                   /\ UNCHANGED <<setupVars, held>>
<1>0. pageCount \in Nat /\ Pmm \in PmmType
  BY DEF TypeOK, Pmm, PmmType
<1>1. \A pmm \in PmmType : /\ \A passed : TestEnds(pmm, passed) => Goal
                           /\ Strays(pmm) => Goal
  BY DEF TestEnds, Strays, Store, PmmType, TypeOK
<1>2. \A pmm \in PmmType, i \in Nat, n \in Nat :
         /\ Take(pmm, i, n) \in PmmType
         /\ TakeUnlessNull(pmm, i, n) \in PmmType
         /\ Give(pmm, i, n) \in PmmType
  BY <1>0, TakeType, GiveType
<1>3. \A pmm : /\ SinglePage(pmm) \subseteq Nat
               /\ \A n \in Nat : MultiplePages(pmm, n) \subseteq Nat
  BY <1>0, SingleResult, MultipleResult
<1> SUFFICES Goal
  OBVIOUS
<1> HIDE DEF Goal
<1>4. ASSUME NEW pmm \in PmmType, NEW c \in Nat, NEW p \in Nat, TestShortRun(pmm, c, p)
      PROVE  Goal
  BY <1>1, <1>2, <1>3, <1>4 DEF TestShortRun
<1>5. ASSUME NEW pmm \in PmmType, NEW h \in Nat, NEW p \in Nat, TestLongRun(pmm, h, p)
      PROVE  Goal
  BY <1>1, <1>2, <1>3, <1>4, <1>5 DEF TestLongRun
<1>6. ASSUME NEW pmm \in PmmType, TestGrants(pmm)
      PROVE  Goal
  BY <1>1, <1>2, <1>3, <1>5, <1>6 DEF TestGrants
<1> QED
  BY <1>0, <1>1, <1>2, <1>3, <1>6 DEF MmTestPhysicalMemoryManager

\* The bits MmInitPhysicalMemoryManager sets are those of pages.
LEMMA SetupType ==
    ASSUME TypeOK, MmInitPhysicalMemoryManager
    PROVE  /\ pageCount' \in Nat /\ usablePageCount' \in Nat
           /\ bitmap' \in Nat
           /\ bits' \subseteq Nat
<1>1. memMap \in Seq(MemEntry)
  BY MemMapsAssumption DEF TypeOK
<1>2. CountPages(memMap, DOMAIN memMap) \in Nat
  BY <1>1, CountPagesNat
<1>3. CountPages(memMap, FreeEntries(memMap)) \in Nat
  BY <1>1, CountPagesNat DEF FreeEntries
<1>4. pageCount' \in Nat /\ usablePageCount' \in Nat
  BY <1>2, <1>3 DEF MmInitPhysicalMemoryManager
<1>5. \A i \in DOMAIN memMap : memMap[i].base \in Nat /\ memMap[i].size \in Nat
  <2> TAKE i \in DOMAIN memMap
  <2>1. i \in 1 .. Len(memMap)
    BY <1>1
  <2>2. memMap[i] \in MemEntry
    BY <1>1, <2>1
  <2> QED
    BY <2>2 DEF MemEntry
<1>6. bitmap' \in Nat
  BY <1>5 DEF MmInitPhysicalMemoryManager, PlaceBitmap, NULL, TypeOK
<1>7. CASE BitmapSize(memMap) = 0
  BY <1>4, <1>6, <1>7 DEF MmInitPhysicalMemoryManager, TypeOK
<1>8. CASE BitmapSize(memMap) # 0
  <2>1. bits' = InitialBits(memMap, BitmapPages')
    BY <1>8 DEF MmInitPhysicalMemoryManager
  <2>2. BitmapSize(memMap) \in Nat
    BY <1>2 DEF BitmapSize
  <2>3. PagesIn(memMap, OtherEntries(memMap)) \subseteq Nat
    BY <1>5 DEF PagesIn, OtherEntries, Pages
  <2>4. BitmapPages' \subseteq Nat
    <3> DEFINE size == (pageCount' \div 8 + (PAGE_SIZE - 1)) \div PAGE_SIZE
    <3>1. size \in Int
      BY <1>4, PageSizeAssumption
    <3>2. BitmapPages' = bitmap' .. (bitmap' + size - 1)
      BY DEF BitmapPages, Pages, InPages
    <3> HIDE DEF size
    <3>3. ASSUME NEW k \in BitmapPages' PROVE k \in Nat
      BY <1>6, <3>1, <3>2
    <3> QED
      BY <3>3
  <2>5. 0 .. (8 * BitmapSize(memMap) - 1) \subseteq Nat
    BY <2>2
  <2>6. bits' \subseteq Nat
    BY <2>1, <2>3, <2>4, <2>5 DEF InitialBits
  <2> QED
    BY <1>4, <1>6, <2>6
<1> QED
  BY <1>7, <1>8

\* Before the manager is in service nobody holds a page, and the counter has
\* not moved; from the self-test on there are pages.
QuietBoot == /\ phase = "init" => pageUsed = 0
             /\ phase \notin {"ready", "astray"} => held = [c \in Client |-> NoRun]
             /\ phase \in {"selftest", "ready"} => pageCount # 0

TypeInv == TypeOK /\ QuietBoot

LEMMA TypeInvInit == Init => TypeInv
BY DEF Init, TypeInv, TypeOK, QuietBoot, NoRun, Run, NULL

LEMMA TypeInvNext == TypeInv /\ [Next]_vars => TypeInv'
<1> SUFFICES ASSUME TypeInv, [Next]_vars PROVE TypeInv'
  OBVIOUS
<1> USE DEF TypeInv
<1>0. pageCount \in Nat /\ Pmm \in PmmType
  BY DEF TypeOK, Pmm, PmmType
<1>1. CASE MmInitPhysicalMemoryManager
  <2>1. phase' = "selftest" => pageCount' # 0
    BY <1>1 DEF MmInitPhysicalMemoryManager, BitmapSize
  <2> QED
    BY <1>1, <2>1, SetupType DEF MmInitPhysicalMemoryManager, TypeOK, QuietBoot
<1>2. CASE MmTestPhysicalMemoryManager
  <2>1. phase = "selftest"
    BY <1>2 DEF MmTestPhysicalMemoryManager
  <2> QED
    BY <1>2, <2>1, SelfTestType DEF TypeOK, QuietBoot, setupVars
<1>3. ASSUME NEW c \in Client, MmAllocateSinglePage(c) PROVE TypeInv'
  <2>1. PICK i \in SinglePage(Pmm) : Store(TakeUnlessNull(Pmm, i, 1)) /\ Granted(c, i, 1)
    BY <1>3 DEF MmAllocateSinglePage
  <2>2. i \in Nat /\ TakeUnlessNull(Pmm, i, 1) \in PmmType
    BY <1>0, SingleResult, TakeType
  <2> QED
    BY <1>3, <2>1, <2>2 DEF MmAllocateSinglePage, TypeOK, QuietBoot, setupVars, Store,
                            PmmType, Granted, NoRun, Run
<1>4. ASSUME NEW c \in Client, NEW n \in Amounts, MmAllocateMultiplePages(c, n)
      PROVE  TypeInv'
  <2>0. n \in Nat
    BY AmountsAssumption
  <2>1. PICK i \in MultiplePages(Pmm, n) : Store(TakeUnlessNull(Pmm, i, n)) /\ Granted(c, i, n)
    BY <1>4 DEF MmAllocateMultiplePages
  <2>2. i \in Nat /\ TakeUnlessNull(Pmm, i, n) \in PmmType
    BY <1>0, <2>0, MultipleResult, TakeType
  <2> QED
    BY <1>4, <2>0, <2>1, <2>2 DEF MmAllocateMultiplePages, TypeOK, QuietBoot, setupVars,
                                  Store, PmmType, Granted, NoRun, Run
<1>5. ASSUME NEW c \in Client, MmFreeSinglePage(c) \/ MmFreeMultiplePages(c)
      PROVE  TypeInv'
  <2>1. held[c].base \in Nat /\ held[c].n \in Nat
    BY DEF TypeOK, Run
  <2>2. Give(Pmm, held[c].base, held[c].n) \in PmmType
    BY <1>0, <2>1, GiveType
  <2>3. Store(Give(Pmm, held[c].base, held[c].n))
    BY <1>5 DEF MmFreeSinglePage, MmFreeMultiplePages
  <2>4. bits' \subseteq Nat /\ pageUsed' \in 0 .. pageCount
    BY <2>2, <2>3 DEF Store, PmmType
  <2>5. held' \in [Client -> Run]
    BY <1>5 DEF MmFreeSinglePage, MmFreeMultiplePages, TypeOK, NoRun, Run
  <2> QED
    BY <1>5, <2>4, <2>5 DEF MmFreeSinglePage, MmFreeMultiplePages, TypeOK, QuietBoot,
                            setupVars
<1>6. ASSUME NEW c \in Client, NEW n \in Amounts, MmReallocatePages(c, n)
      PROVE  TypeInv'
  <2>0. n \in Nat /\ held[c].base \in Nat /\ held[c].n \in Nat
    BY AmountsAssumption DEF TypeOK, Run
  <2>1. PICK i \in MultiplePages(Pmm, n) :
            IF i = NULL
            THEN UNCHANGED <<bits, pageUsed, held>>
            ELSE /\ Store(Give(Take(Pmm, i, n), held[c].base, held[c].n))
                 /\ Granted(c, i, n)
    BY <1>6 DEF MmReallocatePages
  <2>2. i \in Nat /\ Give(Take(Pmm, i, n), held[c].base, held[c].n) \in PmmType
    BY <1>0, <2>0, MultipleResult, TakeType, GiveType
  <2>3. bits' \subseteq Nat /\ pageUsed' \in 0 .. pageCount
    BY <2>1, <2>2 DEF Store, PmmType, TypeOK
  <2>4. held' \in [Client -> Run]
    BY <2>0, <2>1, <2>2 DEF TypeOK, Granted, NoRun, Run
  <2> QED
    BY <1>6, <2>3, <2>4 DEF MmReallocatePages, TypeOK, QuietBoot, setupVars
<1>7. CASE UNCHANGED vars
  BY <1>7 DEF vars, setupVars, TypeOK, QuietBoot
<1>8. ASSUME NEW n \in Amounts, SearchStrays(n) PROVE TypeInv'
  BY <1>8 DEF SearchStrays, Strays, Store, Pmm, setupVars, TypeOK, QuietBoot
<1> QED
  BY <1>1, <1>2, <1>3, <1>4, <1>5, <1>6, <1>7, <1>8 DEF Next, Over

\* The manager's variables keep their types: in particular the counter of used
\* pages, which saturates at both ends, stays within 0 .. pageCount whatever
\* the clients ask for and whatever the self-test gives back.
THEOREM TypeCorrect == Spec => []TypeOK
<1>1. Spec => []TypeInv
  BY TypeInvInit, TypeInvNext, PTL DEF Spec
<1>2. TypeInv => TypeOK
  BY DEF TypeInv
<1> QED
  BY <1>1, <1>2, PTL

-----------------------------------------------------------------------------
(* The shape of a step *)

\* A run the bitmap can hand out: its first page is clear, and so is every
\* page of it that is a multiple of 8.
Available(run) ==
    /\ run.n \in Amounts \cup {1}
    /\ run.base \in 1 .. (pageCount - run.n)
    /\ run.base \notin bits
    /\ \A k \in PagesOf(run) : k % 8 = 0 => k \notin bits

\* In service, client c swaps the run it has for another; NoRun stands for none.
Swap(c, run) ==
    /\ run = NoRun \/ Available(run)
    /\ held' = [held EXCEPT ![c] = run]
    /\ bits' = (bits \cup PagesOf(run)) \ PagesOf(held[c])

InService == phase = "ready" /\ UNCHANGED <<phase, setupVars, baseline>>

LEMMA NoRunPages == PagesOf(NoRun) = {}
BY DEF PagesOf, Pages, NoRun

Booting == phase \in {"init", "selftest"} /\ UNCHANGED held

\* A request for more pages than there are.
Straying == /\ phase = "ready" /\ phase' = "astray"
            /\ UNCHANGED <<setupVars, bits, pageUsed, baseline, held>>
            /\ \E n \in Amounts : n > pageCount

\* The page size, the maps and the self-test are out of the way: in service
\* every step leaves the bitmap alone or swaps the run of one client.
LEMMA StepShape ==
    ASSUME TypeInv, Next
    PROVE  \/ Booting
           \/ Straying
           \/ UNCHANGED vars
           \/ InService /\ UNCHANGED <<bits, held>>
           \/ InService /\ \E c \in Client, run \in Run : Swap(c, run)
<1> USE DEF TypeInv
<1>0. pageCount \in Nat /\ Pmm \in PmmType /\ Pmm.bits = bits
  BY DEF TypeOK, Pmm, PmmType
<1>1. CASE MmInitPhysicalMemoryManager \/ MmTestPhysicalMemoryManager
  <2>1. CASE MmInitPhysicalMemoryManager
    BY <2>1 DEF MmInitPhysicalMemoryManager, Booting
  <2>2. CASE MmTestPhysicalMemoryManager
    BY <2>2, SelfTestType DEF MmTestPhysicalMemoryManager, Booting
  <2> QED
    BY <1>1, <2>1, <2>2
<1>2. ASSUME NEW c \in Client, MmAllocateSinglePage(c)
      PROVE  \/ InService /\ UNCHANGED <<bits, held>>
             \/ InService /\ \E run \in Run : Swap(c, run)
  <2>1. InService /\ held[c] = NoRun
    BY <1>2 DEF MmAllocateSinglePage, InService
  <2>2. PICK i \in SinglePage(Pmm) : Store(TakeUnlessNull(Pmm, i, 1)) /\ Granted(c, i, 1)
    BY <1>2 DEF MmAllocateSinglePage
  <2>3. CASE i = NULL
    BY <2>1, <2>2, <2>3 DEF TakeUnlessNull, Store, Granted, Pmm, TypeOK
  <2>4. CASE i # NULL
    <3> DEFINE run == [base |-> i, n |-> 1]
    <3>1. i \in 1 .. (pageCount - 1) /\ i \notin bits
      BY <1>0, <2>4, SingleResult
    <3>2. run \in Run /\ PagesOf(run) = {i}
      BY <1>0, <3>1 DEF Run, PagesOf, Pages
    <3>3. bits' = (bits \cup PagesOf(run)) \ PagesOf(held[c])
      BY <2>1, <2>2, <2>4, NoRunPages DEF TakeUnlessNull, Take, Store, Pmm, PagesOf
    <3>4. Available(run)
      BY <3>1, <3>2 DEF Available
    <3> QED
      BY <2>1, <2>2, <2>4, <3>2, <3>3, <3>4 DEF Swap, Granted
  <2> QED
    BY <2>3, <2>4
<1>3. ASSUME NEW c \in Client, NEW n \in Amounts, MmAllocateMultiplePages(c, n)
      PROVE  \/ InService /\ UNCHANGED <<bits, held>>
             \/ InService /\ \E run \in Run : Swap(c, run)
  <2>0. n \in Nat
    BY AmountsAssumption
  <2>1. InService /\ held[c] = NoRun
    BY <1>3 DEF MmAllocateMultiplePages, InService
  <2>2. PICK i \in MultiplePages(Pmm, n) : Store(TakeUnlessNull(Pmm, i, n)) /\ Granted(c, i, n)
    BY <1>3 DEF MmAllocateMultiplePages
  <2>3. CASE i = NULL
    BY <2>1, <2>2, <2>3 DEF TakeUnlessNull, Store, Granted, Pmm, TypeOK
  <2>4. CASE i # NULL
    <3> DEFINE run == [base |-> i, n |-> n]
    <3>1. /\ i \in 1 .. (pageCount - n) /\ i \notin bits
          /\ \A k \in Pages(i, n) : k % 8 = 0 => k \notin bits
      BY <1>0, <2>0, <2>4, MultipleResult
    <3>2. run \in Run /\ Available(run)
      BY <1>0, <2>0, <3>1 DEF Run, Available, PagesOf
    <3>3. bits' = (bits \cup PagesOf(run)) \ PagesOf(held[c])
      BY <2>1, <2>2, <2>4, NoRunPages DEF TakeUnlessNull, Take, Store, Pmm, PagesOf
    <3> QED
      BY <2>1, <2>2, <2>4, <3>2, <3>3 DEF Swap, Granted
  <2> QED
    BY <2>3, <2>4
<1>4. ASSUME NEW c \in Client, MmFreeSinglePage(c) \/ MmFreeMultiplePages(c)
      PROVE  InService /\ \E run \in Run : Swap(c, run)
  <2>1. InService /\ held' = [held EXCEPT ![c] = NoRun]
    BY <1>4 DEF MmFreeSinglePage, MmFreeMultiplePages, InService
  <2>2. bits' = bits \ PagesOf(held[c])
    BY <1>4 DEF MmFreeSinglePage, MmFreeMultiplePages, Store, Give, Pmm, PagesOf
  <2>3. NoRun \in Run /\ Swap(c, NoRun)
    BY <2>1, <2>2, NoRunPages DEF Swap, NoRun, Run
  <2> QED
    BY <2>1, <2>3
<1>5. ASSUME NEW c \in Client, NEW n \in Amounts, MmReallocatePages(c, n)
      PROVE  \/ InService /\ UNCHANGED <<bits, held>>
             \/ InService /\ \E run \in Run : Swap(c, run)
  <2>0. n \in Nat
    BY AmountsAssumption
  <2>1. InService
    BY <1>5 DEF MmReallocatePages, InService
  <2>2. PICK i \in MultiplePages(Pmm, n) :
            IF i = NULL
            THEN UNCHANGED <<bits, pageUsed, held>>
            ELSE /\ Store(Give(Take(Pmm, i, n), held[c].base, held[c].n))
                 /\ Granted(c, i, n)
    BY <1>5 DEF MmReallocatePages
  <2>3. CASE i = NULL
    BY <2>1, <2>2, <2>3
  <2>4. CASE i # NULL
    <3> DEFINE run == [base |-> i, n |-> n]
    <3>1. /\ i \in 1 .. (pageCount - n) /\ i \notin bits
          /\ \A k \in Pages(i, n) : k % 8 = 0 => k \notin bits
      BY <1>0, <2>0, <2>4, MultipleResult
    <3>2. run \in Run /\ Available(run)
      BY <1>0, <2>0, <3>1 DEF Run, Available, PagesOf
    <3>3. bits' = (bits \cup PagesOf(run)) \ PagesOf(held[c])
      BY <2>2, <2>4 DEF Give, Take, Store, Pmm, PagesOf
    <3> QED
      BY <2>1, <2>2, <2>4, <3>2, <3>3 DEF Swap, Granted
  <2> QED
    BY <2>3, <2>4
<1>6. ASSUME NEW n \in Amounts, SearchStrays(n) PROVE Straying
  BY <1>6 DEF SearchStrays, Strays, Store, Pmm, Straying
<1> QED
  BY <1>1, <1>2, <1>3, <1>4, <1>5, <1>6 DEF Next, Over

-----------------------------------------------------------------------------
(* Exclusion, on the pages of a set K *)

\* The bits of the pages of K that are held are SET, and no page of K is held
\* twice.  The first part is what makes the second inductive.
ExclusiveOn(K) ==
    /\ \A c \in Client : PagesOf(held[c]) \cap K \subseteq bits
    /\ \A c, d \in Client : c # d => PagesOf(held[c]) \cap PagesOf(held[d]) \cap K = {}

LEMMA NothingHeld ==
    ASSUME held = [c \in Client |-> NoRun], NEW K
    PROVE  ExclusiveOn(K)
BY NoRunPages DEF ExclusiveOn

\* A swap for a run none of whose pages of K is SET keeps exclusion on K: the
\* run given back is nobody else's, and the new one was nobody's.
LEMMA SwapExclusive ==
    ASSUME NEW K, NEW c \in Client, NEW run, held \in [Client -> Run],
           ExclusiveOn(K), Swap(c, run), PagesOf(run) \cap K \cap bits = {}
    PROVE  ExclusiveOn(K)'
<1>1. held'[c] = run /\ \A d \in Client \ {c} : held'[d] = held[d]
  BY DEF Swap
<1>2. bits' = (bits \cup PagesOf(run)) \ PagesOf(held[c])
  BY DEF Swap
<1>3. ASSUME NEW d \in Client PROVE PagesOf(held'[d]) \cap K \subseteq bits'
  <2>1. CASE d = c
    BY <1>1, <1>2, <2>1 DEF ExclusiveOn
  <2>2. CASE d # c
    BY <1>1, <1>2, <2>2 DEF ExclusiveOn
  <2> QED
    BY <2>1, <2>2
<1>4. ASSUME NEW d \in Client, NEW e \in Client, d # e
      PROVE  PagesOf(held'[d]) \cap PagesOf(held'[e]) \cap K = {}
  <2>1. CASE d = c
    BY <1>1, <1>4, <2>1 DEF ExclusiveOn
  <2>2. CASE e = c
    BY <1>1, <1>4, <2>2 DEF ExclusiveOn
  <2>3. CASE d # c /\ e # c
    BY <1>1, <1>4, <2>3 DEF ExclusiveOn
  <2> QED
    BY <2>1, <2>2, <2>3
<1>5. \A d : PagesOf(held[d])' = PagesOf(held'[d])
  BY DEF PagesOf, Pages
<1> QED
  BY <1>3, <1>4, <1>5 DEF ExclusiveOn

\* Runs of any length: exclusion on the multiples of 8.
Multiples8 == {k \in Nat : k % 8 = 0}

LEMMA ByteNext ==
    ASSUME TypeInv, ExclusiveOn(Multiples8), [Next]_vars
    PROVE  ExclusiveOn(Multiples8)'
<1>1. CASE UNCHANGED vars
  BY <1>1 DEF vars, ExclusiveOn, PagesOf, Pages, Multiples8
<1>2. CASE Next
  <2>1. CASE Booting
    <3>1. held' = [c \in Client |-> NoRun]
      BY <2>1 DEF TypeInv, QuietBoot, Booting
    <3>2. PagesOf(NoRun)' = {}
      BY NoRunPages DEF PagesOf, Pages, NoRun
    <3> QED
      BY <3>1, <3>2, NoRunPages DEF ExclusiveOn, PagesOf, Pages, NoRun
  <2>2. CASE Straying \/ (InService /\ UNCHANGED <<bits, held>>)
    BY <2>2 DEF Straying, ExclusiveOn, PagesOf, Pages, Multiples8
  <2>3. ASSUME NEW c \in Client, NEW run \in Run, Swap(c, run)
        PROVE  ExclusiveOn(Multiples8)'
    <3>1. PagesOf(run) \cap Multiples8 \cap bits = {}
      BY <2>3, NoRunPages DEF Swap, Available, Multiples8
    <3> QED
      BY <2>3, <3>1, SwapExclusive DEF TypeInv, TypeOK
  <2> QED
    BY <1>1, <1>2, <2>1, <2>2, <2>3, StepShape
<1> QED
  BY <1>1, <1>2

\* MmAllocateMultiplePages, MmReallocatePages and the single-page calls, with
\* runs of any length, never grant a page whose number is a multiple of 8 twice.
THEOREM ByteBoundarySafe == Spec => []ByteBoundaryExclusive
<1>1. Init => TypeInv /\ ExclusiveOn(Multiples8)
  BY TypeInvInit, NothingHeld DEF Init
<1>2. TypeInv /\ ExclusiveOn(Multiples8) /\ [Next]_vars
        => TypeInv' /\ ExclusiveOn(Multiples8)'
  BY TypeInvNext, ByteNext
<1>3. TypeInv /\ ExclusiveOn(Multiples8) => ByteBoundaryExclusive
  <2> SUFFICES ASSUME TypeInv, ExclusiveOn(Multiples8),
                      NEW c \in Client, NEW d \in Client, c # d,
                      NEW k \in PagesOf(held[c]) \cap PagesOf(held[d])
               PROVE  k % 8 # 0
    BY DEF ByteBoundaryExclusive
  <2>1. held[c] \in Run
    BY DEF TypeInv, TypeOK
  <2>2. k \in Nat
    BY <2>1 DEF PagesOf, Pages, Run
  <2>3. k \notin Multiples8
    BY DEF ExclusiveOn
  <2> QED
    BY <2>2, <2>3 DEF Multiples8
<1> QED
  BY <1>1, <1>2, <1>3, PTL DEF Spec

-----------------------------------------------------------------------------
(* Requests of a single page *)

SingleInv ==
    /\ TypeInv
    /\ ExclusiveOn(Nat)
    /\ \A c \in Client : /\ PagesOf(held[c]) \subseteq 1 .. (pageCount - 1)
                         /\ PagesOf(held[c]) \cap baseline = {}
    /\ NoPageLost

\* With Amounts \subseteq {1} an available run is one clear page.
LEMMA AvailableSingle ==
    ASSUME Amounts \subseteq {1}, TypeInv, NEW run \in Run, Available(run)
    PROVE  /\ PagesOf(run) = {run.base}
           /\ run.base \in 1 .. (pageCount - 1)
           /\ run.base \notin bits
BY DEF Available, PagesOf, Pages, Run, TypeInv, TypeOK

\* ... and no request is for more pages than there are.
LEMMA NoStraying ==
    ASSUME Amounts \subseteq {1}, TypeInv
    PROVE  ~Straying
BY DEF Straying, TypeInv, TypeOK, QuietBoot

LEMMA SingleInvInit == Init => SingleInv
BY TypeInvInit, NothingHeld, NoRunPages DEF Init, SingleInv, NoPageLost

LEMMA SingleInvNext ==
    ASSUME Amounts \subseteq {1}, SingleInv, [Next]_vars
    PROVE  SingleInv'
<1>1. TypeInv'
  BY TypeInvNext DEF SingleInv
<1>2. \A d : PagesOf(held[d])' = PagesOf(held'[d])
  BY DEF PagesOf, Pages
<1>3. CASE UNCHANGED vars
  BY <1>1, <1>2, <1>3 DEF vars, setupVars, SingleInv, ExclusiveOn, NoPageLost
<1>4. CASE Next /\ Booting
  <2>1. \A d \in Client : PagesOf(held'[d]) = {}
    BY <1>4, NoRunPages DEF SingleInv, TypeInv, QuietBoot, Booting
  <2>2. ExclusiveOn(Nat)'
    BY <1>2, <2>1 DEF ExclusiveOn
  <2>3. NoPageLost'
    <3>1. ASSUME phase' = "ready" PROVE bits' = baseline'
      <4>1. MmTestPhysicalMemoryManager
        BY <1>4, <3>1 DEF Next, MmInitPhysicalMemoryManager, MmAllocateSinglePage,
                          MmFreeSinglePage, MmFreeMultiplePages, MmAllocateMultiplePages,
                          MmReallocatePages, SearchStrays, Over, Booting
      <4>2. ASSUME NEW pmm, NEW passed, TestEnds(pmm, passed) PROVE bits' = baseline'
        BY <3>1, <4>2 DEF TestEnds, Store
      <4>3. ASSUME NEW pmm, NEW c, NEW p, TestShortRun(pmm, c, p) PROVE bits' = baseline'
        BY <4>2, <4>3 DEF TestShortRun
      <4>4. ASSUME NEW pmm, NEW h, NEW p, TestLongRun(pmm, h, p) PROVE bits' = baseline'
        BY <4>2, <4>3, <4>4 DEF TestLongRun
      <4>5. ASSUME NEW pmm, TestGrants(pmm) PROVE bits' = baseline'
        BY <4>2, <4>4, <4>5 DEF TestGrants
      <4> QED
        BY <3>1, <4>1, <4>2, <4>5 DEF MmTestPhysicalMemoryManager, Strays
    <3> QED
      BY <1>2, <2>1, <3>1 DEF NoPageLost
  <2> QED
    BY <1>1, <1>2, <2>1, <2>2, <2>3 DEF SingleInv
<1>5. CASE InService /\ UNCHANGED <<bits, held>>
  BY <1>1, <1>2, <1>5 DEF InService, setupVars, SingleInv, ExclusiveOn, NoPageLost
<1>6. ASSUME InService, NEW c \in Client, NEW run \in Run, Swap(c, run)
      PROVE  SingleInv'
  <2>1. run = NoRun \/ (PagesOf(run) = {run.base} /\ run.base \in 1 .. (pageCount - 1))
    BY <1>6, AvailableSingle DEF SingleInv, Swap
  <2>2. PagesOf(run) \cap bits = {} /\ PagesOf(run) \subseteq 1 .. (pageCount - 1)
    BY <1>6, AvailableSingle, NoRunPages DEF SingleInv, Swap
  <2>3. ExclusiveOn(Nat)'
    BY <1>6, <2>2, SwapExclusive DEF SingleInv, TypeInv, TypeOK
  <2>4. held'[c] = run /\ \A d \in Client \ {c} : held'[d] = held[d]
    BY <1>6 DEF Swap, SingleInv, TypeInv, TypeOK
  <2>5. bits = baseline \cup UNION {PagesOf(held[d]) : d \in Client}
    BY <1>6 DEF SingleInv, NoPageLost, InService
  <2>6. ASSUME NEW d \in Client
        PROVE  /\ PagesOf(held'[d]) \subseteq 1 .. (pageCount - 1)
               /\ PagesOf(held'[d]) \cap baseline = {}
    BY <2>2, <2>4, <2>5 DEF SingleInv
  <2>7. bits' = baseline \cup UNION {PagesOf(held'[d]) : d \in Client}
    <3>1. bits' = (bits \cup PagesOf(run)) \ PagesOf(held[c])
      BY <1>6 DEF Swap
    <3>2. PagesOf(held[c]) \cap baseline = {}
      BY DEF SingleInv
    <3>3. PagesOf(held[c]) \subseteq Nat /\ PagesOf(held[c]) \subseteq bits
      BY <2>5 DEF SingleInv, TypeInv, TypeOK
    <3>4. \A d \in Client \ {c} : PagesOf(held[d]) \cap PagesOf(held[c]) = {}
      BY <3>3 DEF SingleInv, ExclusiveOn
    <3>5. ASSUME NEW k \in bits' PROVE k \in baseline \cup UNION {PagesOf(held'[d]) : d \in Client}
      BY <2>4, <2>5, <3>1
    <3>6. ASSUME NEW k \in baseline PROVE k \in bits'
      BY <2>5, <3>1, <3>2
    <3>7. ASSUME NEW d \in Client, NEW k \in PagesOf(held'[d]) PROVE k \in bits'
      <4>1. CASE d = c
        BY <2>2, <2>4, <3>1, <3>3, <4>1
      <4>2. CASE d # c
        BY <2>4, <2>5, <3>1, <3>4, <4>2
      <4> QED
        BY <4>1, <4>2
    <3> QED
      BY <3>5, <3>6, <3>7
  <2> QED
    BY <1>1, <1>2, <1>6, <2>3, <2>6, <2>7 DEF SingleInv, NoPageLost, InService, setupVars
<1> QED
  BY <1>3, <1>4, <1>5, <1>6, StepShape, NoStraying DEF SingleInv

\* For requests of one page, by MmAllocateSinglePage or by
\* MmAllocateMultiplePages(1), no page is ever held twice, and none that was in
\* use when the manager went into service is granted.
THEOREM SinglePagesExclusive ==
    ASSUME Amounts \subseteq {1}
    PROVE  Spec => []Exclusive
<1>1. SingleInv /\ [Next]_vars => SingleInv'
  BY SingleInvNext
<1>2. SingleInv => Exclusive
  <2> SUFFICES ASSUME SingleInv PROVE Exclusive
    OBVIOUS
  <2>1. \A c \in Client : PagesOf(held[c]) \subseteq Nat
    BY DEF SingleInv
  <2> QED
    BY <2>1 DEF SingleInv, ExclusiveOn, Exclusive
<1> QED
  BY <1>1, <1>2, SingleInvInit, PTL DEF Spec

\* For requests of one page the bitmap is exact: nothing is lost, and nothing
\* that is held is clear.
THEOREM SinglePagesConserved ==
    ASSUME Amounts \subseteq {1}
    PROVE  Spec => []NoPageLost
<1>1. SingleInv /\ [Next]_vars => SingleInv'
  BY SingleInvNext
<1>2. SingleInv => NoPageLost
  BY DEF SingleInv
<1> QED
  BY <1>1, <1>2, SingleInvInit, PTL DEF Spec

-----------------------------------------------------------------------------
(* The promise *)

freePages == IF phase = "ready" THEN (1 .. (pageCount - 1)) \ bits ELSE {}
heldPages == [c \in Client |-> PagesOf(held[c])]

LEMMA PromiseInit == Init => Promise!Init
<1> SUFFICES ASSUME Init PROVE Promise!Init
  OBVIOUS
<1>1. heldPages = [c \in Client |-> {}]
  BY NoRunPages DEF Init, heldPages
<1> QED
  BY <1>1 DEF Init, Promise!Init, heldPages

LEMMA PromiseNext ==
    ASSUME Amounts \subseteq {1}, SingleInv, SingleInv', [Next]_vars
    PROVE  [Promise!Next]_(Promise!pageVars)
<1>0. \A d : PagesOf(held[d])' = PagesOf(held'[d])
  BY DEF PagesOf, Pages
<1>1. heldPages' = [d \in Client |-> PagesOf(held'[d])]
  BY <1>0 DEF heldPages
<1>2. CASE UNCHANGED vars
  <2>1. heldPages' = heldPages /\ freePages' = freePages /\ (phase = "ready")' = (phase = "ready")
    BY <1>2, <1>1 DEF vars, setupVars, freePages, heldPages
  <2> QED
    BY <2>1 DEF Promise!pageVars, freePages, heldPages
<1>3. CASE Booting
  <2>1. heldPages' = heldPages
    BY <1>3, <1>1 DEF heldPages, Booting
  <2>2. CASE phase' = "ready"
    <3>1. freePages' \subseteq Nat
      <4>1. pageCount' \in Nat
        BY DEF SingleInv, TypeInv, TypeOK
      <4> QED
        BY <2>2, <4>1 DEF freePages
    <3>2. Promise!Provision
      BY <1>3, <2>1, <2>2, <3>1 DEF Promise!Provision, freePages, heldPages, Booting
    <3> QED
      BY <3>2 DEF Promise!Next
  <2>3. CASE phase' # "ready"
    <3>1. freePages' = freePages /\ (phase = "ready")' = (phase = "ready")
      BY <1>3, <2>3 DEF freePages, Booting
    <3> QED
      BY <2>1, <3>1 DEF Promise!pageVars, freePages, heldPages
  <2> QED
    BY <2>2, <2>3
<1>4. CASE InService /\ UNCHANGED <<bits, held>>
  <2>1. heldPages' = heldPages /\ freePages' = freePages /\ (phase = "ready")' = (phase = "ready")
    BY <1>4, <1>1 DEF InService, setupVars, freePages, heldPages
  <2> QED
    BY <2>1 DEF Promise!pageVars, freePages, heldPages
<1>5. ASSUME InService, NEW c \in Client, NEW run \in Run, Swap(c, run)
      PROVE  [Promise!Next]_(Promise!pageVars)
  <2> DEFINE old == PagesOf(held[c])
             i == run.base
  <2>1. phase = "ready" /\ phase' = "ready" /\ pageCount' = pageCount
    BY <1>5 DEF InService, setupVars
  <2>2. heldPages' = [heldPages EXCEPT ![c] = PagesOf(run)]
    BY <1>5, <1>1 DEF Swap, heldPages, SingleInv, TypeInv, TypeOK
  <2>3. heldPages[c] = old
    BY DEF heldPages
  <2>4. old \subseteq bits /\ old \subseteq 1 .. (pageCount - 1)
    BY <2>1 DEF SingleInv, NoPageLost
  <2>5. bits' = (bits \cup PagesOf(run)) \ old
    BY <1>5 DEF Swap
  <2>6. freePages = (1 .. (pageCount - 1)) \ bits /\ freePages' = (1 .. (pageCount - 1)) \ bits'
    BY <2>1 DEF freePages
  <2>7. CASE run = NoRun
    <3>1. PagesOf(run) = {}
      BY <2>7, NoRunPages
    <3>2. freePages' = freePages \cup old
      BY <2>4, <2>5, <2>6, <3>1
    <3>3. CASE old = {}
      <4>1. heldPages' = heldPages /\ freePages' = freePages
        BY <2>2, <2>3, <3>1, <3>2, <3>3 DEF heldPages
      <4> QED
        BY <2>1, <4>1 DEF Promise!pageVars, freePages, heldPages
    <3>4. CASE old # {}
      <4>1. Promise!Release(c)
        BY <2>1, <2>2, <2>3, <3>1, <3>2, <3>4 DEF Promise!Release, freePages, heldPages
      <4> QED
        BY <4>1 DEF Promise!Next
    <3> QED
      BY <3>3, <3>4
  <2>8. CASE Available(run)
    <3>1. PagesOf(run) = {i} /\ i \in 1 .. (pageCount - 1) /\ i \notin bits
      BY <2>8, AvailableSingle DEF SingleInv
    <3>2. i \in Nat /\ i .. i = {i} /\ 0 < i /\ i <= i
      BY <3>1 DEF Run
    <3>3. i \in freePages /\ i .. i \subseteq freePages
      BY <2>6, <3>1, <3>2
    <3>4. freePages' = (freePages \ (i .. i)) \cup old
      BY <2>4, <2>5, <2>6, <3>1, <3>2
    <3>5. heldPages' = [heldPages EXCEPT ![c] = i .. i]
      BY <2>2, <3>1, <3>2
    <3>6. Promise!Grantable(i, i)
      BY <3>2, <3>3 DEF Promise!Grantable, freePages
    <3>7. CASE old = {}
      <4>1. freePages' = freePages \ (i .. i)
        BY <3>4, <3>7
      <4>2. Promise!Grant(c, i, i)
        BY <2>1, <2>3, <3>5, <3>6, <3>7, <4>1 DEF Promise!Grant, freePages, heldPages
      <4> QED
        BY <3>3, <4>2 DEF Promise!Next, freePages
    <3>8. CASE old # {}
      <4>1. Promise!Exchange(c, i, i)
        BY <2>1, <2>3, <3>4, <3>5, <3>6, <3>8 DEF Promise!Exchange, freePages, heldPages
      <4> QED
        BY <3>3, <4>1 DEF Promise!Next, freePages
    <3> QED
      BY <3>7, <3>8
  <2> QED
    BY <1>5, <2>7, <2>8 DEF Swap
<1> QED
  BY <1>2, <1>3, <1>4, <1>5, StepShape, NoStraying DEF SingleInv

\* For requests of one page the bitmap manager is a page allocator: its
\* set-up, self-test and every call are steps of PageAllocator, or none.
THEOREM SinglePagesKeepPromise ==
    ASSUME Amounts \subseteq {1}
    PROVE  Spec => KeepsPromise
<1>1. SingleInv /\ [Next]_vars => SingleInv'
  BY SingleInvNext
<1>2. SingleInv /\ SingleInv' /\ [Next]_vars => [Promise!Next]_(Promise!pageVars)
  BY PromiseNext
<1> QED
  BY <1>1, <1>2, SingleInvInit, PromiseInit, PTL DEF Spec, KeepsPromise, Promise!Spec

-----------------------------------------------------------------------------
(* The search *)

\* A request is turned down only when there is no run of clear bits for it, for
\* every bitmap and every length: the scan of MmAllocateMultiplePages misses none.
THEOREM SearchIsComplete == Spec => []SearchComplete
<1>1. TypeInv => SearchComplete
  <2> SUFFICES ASSUME TypeInv, NEW n \in Amounts \cup {1},
                      NULL \in MultiplePages(Pmm, n)
                        \cup (IF n = 1 THEN SinglePage(Pmm) ELSE {}),
                      NEW i \in 1 .. (pageCount - n)
               PROVE  Pages(i, n) \cap bits # {}
    BY DEF SearchComplete
  <2>1. n \in Nat \ {0} /\ pageCount \in Nat /\ Pmm.bits = bits
    BY AmountsAssumption DEF TypeInv, TypeOK, Pmm
  <2>2. i \in Pages(i, n)
    BY <2>1 DEF Pages
  <2>3. CASE NULL \in MultiplePages(Pmm, n)
    <3>1. i \in bits \/ \E k \in Pages(i, n) : SeenSet(Pmm, k)
      BY <2>1, <2>3 DEF MultiplePages, Least, NULL
    <3> QED
      BY <2>1, <2>2, <3>1 DEF SeenSet
  <2>4. CASE n = 1 /\ NULL \in SinglePage(Pmm)
    <3>1. i \in bits
      BY <2>1, <2>4 DEF SinglePage, Least, NULL
    <3> QED
      BY <2>2, <3>1
  <2> QED
    BY <2>3, <2>4
<1>2. Spec => []TypeInv
  BY TypeInvInit, TypeInvNext, PTL DEF Spec
<1> QED
  BY <1>1, <1>2, PTL

-----------------------------------------------------------------------------
(* Reserved pages *)

Reserved == PagesIn(memMap, OtherEntries(memMap)) \cup BitmapPages

ReservedInv == /\ phase = "selftest" => Reserved \subseteq bits
               /\ phase = "ready" => Reserved \subseteq baseline

LEMMA ReservedFixed == ASSUME UNCHANGED setupVars PROVE Reserved' = Reserved
BY DEF setupVars, Reserved, BitmapPages, Pages, InPages, PagesIn, OtherEntries, FreeEntries

\* The first run of clear pages, if it is long enough, is the one a search returns.
LEMMA FirstRun ==
    ASSUME pageCount \in Nat, NEW pmm, NEW n \in Nat \ {0}, NEW g \in 1 .. (pageCount - n),
           Pages(1, g - 1) \subseteq pmm.bits, Pages(g, n) \cap pmm.bits = {},
           NEW i \in MultiplePages(pmm, n)
    PROVE  i = g
<1> DEFINE fit == {j \in 1 .. (pageCount - n) :
                      j \notin pmm.bits /\ \A k \in Pages(j, n) : ~SeenSet(pmm, k)}
<1>1. g \in fit
  BY DEF Pages, SeenSet
<1>2. i \in fit /\ \A j \in fit : i <= j
  BY <1>1 DEF MultiplePages, Least
<1>3. i >= g
  BY <1>2 DEF Pages
<1>4. i <= g
  BY <1>1, <1>2
<1> QED
  BY <1>2, <1>3, <1>4

\* When the self-test passes, all that was SET when its runs had been granted still
\* is, but for ten pages of the long run and eleven from the short one on.
LEMMA TestKeeps ==
    ASSUME NEW pmm, NEW h, NEW p, TestLongRun(pmm, h, p), phase' = "ready"
    PROVE  pmm.bits \ (Pages(h, 10) \cup Pages(p, 2) \cup Pages(p, 11)) \subseteq baseline'
<1>1. ASSUME NEW m, NEW passed, TestEnds(m, passed)
      PROVE  passed /\ baseline' = m.bits
  BY <1>1 DEF TestEnds
<1>2. \A m, i, n : Take(m, i, n).bits = m.bits \cup Pages(i, n)
                   /\ Give(m, i, n).bits = m.bits \ Pages(i, n)
  BY DEF Take, Give
<1>3. ASSUME NEW m, NEW c, NEW q, TestShortRun(m, c, q)
      PROVE  m.bits \ (Pages(c, 10) \cup Pages(q, 2) \cup Pages(q, 11)) \subseteq baseline'
  <2> DEFINE given == Give(m, q, 2)
  <2>1. PICK l : IF l = NULL THEN TestEnds(given, FALSE)
                 ELSE TestEnds(Give(Give(Take(given, l, 2), c, 10), l, 11), l = q)
    BY <1>3 DEF TestShortRun
  <2>2. l = q /\ baseline' = Give(Give(Take(given, l, 2), c, 10), l, 11).bits
    BY <1>1, <2>1
  <2>3. baseline' = (((m.bits \ Pages(q, 2)) \cup Pages(q, 2)) \ Pages(c, 10)) \ Pages(q, 11)
    BY <1>2, <2>2
  <2> QED
    BY <2>3
<1>4. PICK c : LET given == Give(pmm, h, 10) IN
               IF c = NULL THEN TestEnds(given, FALSE)
               ELSE IF c # h THEN TestEnds(Give(Give(Take(given, c, 10), p, 2), c, 10), FALSE)
               ELSE TestShortRun(Take(given, c, 10), c, p)
  BY DEF TestLongRun
<1>5. c = h /\ TestShortRun(Take(Give(pmm, h, 10), h, 10), h, p)
  BY <1>1, <1>4
<1>6. Take(Give(pmm, h, 10), h, 10).bits \ (Pages(h, 10) \cup Pages(p, 2) \cup Pages(p, 11))
        \subseteq baseline'
  BY <1>3, <1>5
<1>7. Take(Give(pmm, h, 10), h, 10).bits = (pmm.bits \ Pages(h, 10)) \cup Pages(h, 10)
  BY <1>2
<1> QED
  BY <1>6, <1>7

LEMMA TestReserved ==
    ASSUME TypeInv, RoomForTest, phase = "selftest", MmTestPhysicalMemoryManager, phase' = "ready"
    PROVE  bits \subseteq baseline'
<1>0. pageCount \in Nat /\ Pmm.bits = bits
  BY DEF TypeInv, TypeOK, Pmm
<1>1. PICK f \in 1 .. (pageCount - 23) : /\ Pages(1, f - 1) \subseteq bits
                                         /\ Pages(f, 23) \cap bits = {}
  BY DEF RoomForTest
<1>2. f \in Nat /\ f >= 1 /\ f <= pageCount - 23
  BY <1>0, <1>1
<1>3. ASSUME NEW m, TestEnds(m, FALSE) PROVE FALSE
  BY <1>3 DEF TestEnds
<1>4. PICK o \in SinglePage(Pmm) : o # NULL /\ TestGrants(Take(Pmm, o, 1))
  BY <1>3 DEF MmTestPhysicalMemoryManager, Strays
<1>5. o = f
  <2>1. /\ o \in 1 .. (pageCount - 1) /\ o \notin bits
        /\ \A j \in 1 .. (pageCount - 1) : j \notin bits => o <= j
    BY <1>0, <1>4 DEF SinglePage, Least, NULL
  <2>2. f \in 1 .. (pageCount - 1) /\ f \notin bits
    BY <1>0, <1>1, <1>2 DEF Pages
  <2>3. o <= f
    BY <2>1, <2>2
  <2>4. ~(o < f)
    BY <1>1, <1>2, <2>1 DEF Pages
  <2> QED
    BY <1>2, <2>1, <2>3, <2>4
<1>6. PICK one : one = Take(Pmm, f, 1)
  OBVIOUS
<1>7. one.bits = bits \cup {f}
  BY <1>0, <1>2, <1>6 DEF Take, Pages
<1>8. PICK h, p :
         LET a == TakeUnlessNull(one, h, 11)
             b == TakeUnlessNull(a, p, 2) IN
         /\ h \in MultiplePages(one, 11) /\ p \in MultiplePages(a, 2)
         /\ IF h = NULL \/ p = NULL THEN TestEnds(b, FALSE) ELSE TestLongRun(b, h, p)
  BY <1>4, <1>5, <1>6 DEF TestGrants
<1>9. h = f + 1
  <2>1. f + 1 \in 1 .. (pageCount - 11) /\ 11 \in Nat \ {0}
    BY <1>0, <1>2
  <2>2. Pages(1, (f + 1) - 1) \subseteq one.bits
    BY <1>1, <1>2, <1>7 DEF Pages
  <2>3. Pages(f + 1, 11) \cap one.bits = {}
    BY <1>1, <1>2, <1>7 DEF Pages
  <2> QED
    BY <1>0, <1>8, <2>1, <2>2, <2>3, FirstRun
<1>10. PICK two : two = TakeUnlessNull(one, h, 11)
  OBVIOUS
<1>11. two.bits = one.bits \cup Pages(f + 1, 11)
  BY <1>2, <1>9, <1>10 DEF TakeUnlessNull, Take, NULL
<1>12. p \in MultiplePages(two, 2)
  BY <1>8, <1>10
<1>13. p = f + 12
  <2>1. f + 12 \in 1 .. (pageCount - 2) /\ 2 \in Nat \ {0}
    BY <1>0, <1>2
  <2>2. Pages(1, (f + 12) - 1) \subseteq two.bits
    BY <1>1, <1>2, <1>7, <1>11 DEF Pages
  <2>3. Pages(f + 12, 2) \cap two.bits = {}
    BY <1>1, <1>2, <1>7, <1>11 DEF Pages
  <2> QED
    BY <1>0, <1>12, <2>1, <2>2, <2>3, FirstRun
<1>14. PICK three : three = TakeUnlessNull(two, p, 2)
  OBVIOUS
<1>15. TestLongRun(three, h, p)
  BY <1>2, <1>3, <1>8, <1>10, <1>14
<1>16. bits \subseteq three.bits
  BY <1>7, <1>11, <1>14 DEF TakeUnlessNull, Take
<1>17. (Pages(h, 10) \cup Pages(p, 2) \cup Pages(p, 11)) \cap bits = {}
  BY <1>1, <1>2, <1>9, <1>13 DEF Pages
<1>18. three.bits \ (Pages(h, 10) \cup Pages(p, 2) \cup Pages(p, 11)) \subseteq baseline'
  BY <1>15, TestKeeps
<1> QED
  BY <1>16, <1>17, <1>18

LEMMA ReservedNext ==
    ASSUME TypeInv, RoomForTest, ReservedInv, [Next]_vars
    PROVE  ReservedInv'
<1>1. CASE MmInitPhysicalMemoryManager
  <2>1. phase' # "ready" /\ memMap' = memMap
    BY <1>1 DEF MmInitPhysicalMemoryManager
  <2>2. ASSUME phase' = "selftest" PROVE Reserved' \subseteq bits'
    <3>1. bits' = InitialBits(memMap, BitmapPages')
      BY <1>1, <2>2 DEF MmInitPhysicalMemoryManager
    <3>2. Reserved' = PagesIn(memMap, OtherEntries(memMap)) \cup BitmapPages'
      BY <2>1 DEF Reserved, PagesIn, OtherEntries, FreeEntries, Pages
    <3> QED
      BY <3>1, <3>2 DEF InitialBits
  <2> QED
    BY <2>1, <2>2 DEF ReservedInv
<1>2. CASE MmTestPhysicalMemoryManager
  <2>1. phase = "selftest" /\ phase' \in {"ready", "panic", "astray"} /\ UNCHANGED setupVars
    BY <1>2, SelfTestType DEF MmTestPhysicalMemoryManager, TypeInv
  <2>2. phase' = "ready" => bits \subseteq baseline'
    BY <1>2, <2>1, TestReserved
  <2> QED
    BY <2>1, <2>2, ReservedFixed DEF ReservedInv
<1>3. CASE UNCHANGED <<phase, setupVars, baseline>> /\ phase \in {"ready", "panic"}
  BY <1>3, ReservedFixed DEF ReservedInv
<1>4. CASE UNCHANGED vars
  BY <1>4, ReservedFixed DEF ReservedInv, vars
<1>5. ASSUME NEW n \in Amounts, SearchStrays(n) PROVE ReservedInv'
  BY <1>5 DEF SearchStrays, Strays, ReservedInv
<1> QED
  BY <1>1, <1>2, <1>3, <1>4, <1>5 DEF Next, Over, MmAllocateSinglePage, MmFreeSinglePage,
     MmFreeMultiplePages, MmAllocateMultiplePages, MmReallocatePages

\* For requests of one page, and on every machine where the self-test finds its runs
\* in one stretch of free memory, no reserved page and no page of the bitmap is ever
\* marked free, so that none is granted.
THEOREM SinglePagesKeepReserved ==
    ASSUME Amounts \subseteq {1}
    PROVE  Spec /\ []RoomForTest => []ReservedKept
<1>1. SingleInv /\ [Next]_vars => SingleInv'
  BY SingleInvNext
<1>2. SingleInv /\ RoomForTest /\ ReservedInv /\ [Next]_vars => ReservedInv'
  BY ReservedNext DEF SingleInv
<1>3. Init => ReservedInv
  BY DEF Init, ReservedInv
<1>4. SingleInv /\ ReservedInv => ReservedKept
  BY DEF SingleInv, NoPageLost, ReservedInv, ReservedKept, Reserved
<1> QED
  BY <1>1, <1>2, <1>3, <1>4, SingleInvInit, PTL DEF Spec

-----------------------------------------------------------------------------
(* The count of used pages *)

Grants(h) == UNION {{<<c, k>> : k \in PagesOf(h[c])} : c \in Client}

UsageInv ==
    /\ \A c \in Client : held[c] = NoRun \/ held[c].n = 1
    /\ phase \in {"init", "selftest"} => pageUsed = 0
    /\ phase = "ready" => pageUsed = Cardinality(Grants(held))

LEMMA InGrants ==
    ASSUME NEW h, NEW x
    PROVE  x \in Grants(h) <=> \E c \in Client : \E k \in PagesOf(h[c]) : x = <<c, k>>
BY DEF Grants

\* Pages that are held once, within the map, are fewer than the map has: the counter
\* never saturates in service.
LEMMA GrantsCounted ==
    ASSUME SingleInv
    PROVE  /\ IsFiniteSet(Grants(held)) /\ Cardinality(Grants(held)) \in Nat
           /\ Grants(held) # {} => Cardinality(Grants(held)) <= pageCount - 1
           /\ Cardinality(Grants(held)) <= pageCount
<1> DEFINE all == Grants(held)
           pages == 1 .. (pageCount - 1)
           f == [x \in all |-> x[2]]
<1>0. pageCount \in Nat
  BY DEF SingleInv, TypeInv, TypeOK
<1>1. ASSUME NEW x \in all
      PROVE  \E c \in Client : x = <<c, x[2]>> /\ x[2] \in PagesOf(held[c]) /\ x[2] \in pages
  <2>1. PICK c, k : c \in Client /\ k \in PagesOf(held[c]) /\ x = <<c, k>>
    BY InGrants
  <2>2. x[2] = k /\ k \in pages
    BY <2>1 DEF SingleInv
  <2> QED
    BY <2>1, <2>2
<1>2. f \in [all -> pages]
  BY <1>1
<1>3. ASSUME NEW x \in all, NEW y \in all, f[x] = f[y] PROVE x = y
  <2>1. PICK c \in Client : x = <<c, x[2]>> /\ x[2] \in PagesOf(held[c]) /\ x[2] \in pages
    BY <1>1
  <2>2. PICK d \in Client : y = <<d, y[2]>> /\ y[2] \in PagesOf(held[d])
    BY <1>1
  <2>3. x[2] = y[2] /\ x[2] \in Nat
    BY <1>0, <1>3, <2>1
  <2>4. c = d
    BY <2>1, <2>2, <2>3 DEF SingleInv, ExclusiveOn
  <2> QED
    BY <2>1, <2>2, <2>3, <2>4
<1>4. f \in Injection(all, pages)
  <2> HIDE DEF f, all, pages
  <2>1. \A x, y \in all : f[x] = f[y] => x = y
    BY <1>3
  <2> QED
    BY <1>2, <2>1 DEF Injection, IsInjective
<1>5. IsFiniteSet(pages) /\ Cardinality(pages) = IF 1 > pageCount - 1 THEN 0 ELSE pageCount - 1
  <2>1. 1 \in Int /\ pageCount - 1 \in Int
    BY <1>0
  <2>2. PICK last : last = pageCount - 1
    OBVIOUS
  <2>3. IsFiniteSet(1 .. last) /\ Cardinality(1 .. last) = IF 1 > last THEN 0 ELSE last - 1 + 1
    BY <2>1, <2>2, FS_Interval
  <2> QED
    BY <2>1, <2>2, <2>3
<1> HIDE DEF f, all, pages
<1>6. IsFiniteSet(all) /\ Cardinality(all) <= Cardinality(pages)
  BY <1>4, <1>5, FS_Injection
<1>7. Cardinality(all) \in Nat
  BY <1>6, FS_CardinalityType
<1>8. ASSUME all # {} PROVE pageCount - 1 >= 1
  <2>1. \E k : k \in pages
    BY <1>1, <1>8
  <2> QED
    BY <1>0, <2>1 DEF pages
<1>9. Cardinality(pages) \in Nat /\ Cardinality(pages) <= pageCount
  BY <1>0, <1>5
<1>10. Cardinality(all) <= pageCount
  BY <1>0, <1>6, <1>7, <1>9
<1>11. all # {} => Cardinality(all) <= pageCount - 1
  BY <1>0, <1>5, <1>6, <1>7, <1>8
<1> QED
  BY <1>6, <1>7, <1>10, <1>11 DEF all

\* What a swap does to the grants.
LEMMA GrantsSwap ==
    ASSUME held \in [Client -> Run], IsFiniteSet(Grants(held)), Cardinality(Grants(held)) \in Nat,
           NEW c \in Client, NEW new, held' = [held EXCEPT ![c] = new]
    PROVE  /\ PagesOf(held[c]) = {} /\ PagesOf(new) = {} => Grants(held') = Grants(held)
           /\ \A i : PagesOf(held[c]) = {} /\ PagesOf(new) = {i} =>
                  Cardinality(Grants(held')) = Cardinality(Grants(held)) + 1
           /\ \A b : PagesOf(held[c]) = {b} /\ PagesOf(new) = {} =>
                  Cardinality(Grants(held')) = Cardinality(Grants(held)) - 1
           /\ \A b, i : PagesOf(held[c]) = {b} /\ PagesOf(new) = {i} =>
                  Cardinality(Grants(held')) = Cardinality(Grants(held))
<1> DEFINE all == Grants(held)
           rest == {x \in all : \A k : x # <<c, k>>}
<1>1. held'[c] = new /\ \A d \in Client : d # c => held'[d] = held[d]
  OBVIOUS
<1>2. \A x : x \in Grants(held') <=> x \in rest \/ \E k \in PagesOf(new) : x = <<c, k>>
  <2> TAKE x
  <2>1. x \in Grants(held') <=> \E d \in Client : \E k \in PagesOf(held'[d]) : x = <<d, k>>
    BY InGrants
  <2>2. x \in all <=> \E d \in Client : \E k \in PagesOf(held[d]) : x = <<d, k>>
    BY InGrants
  <2> QED
    BY <1>1, <2>1, <2>2
<1>3. \A x : x \in all <=> x \in rest \/ \E k \in PagesOf(held[c]) : x = <<c, k>>
  <2> TAKE x
  <2>1. x \in all <=> \E d \in Client : \E k \in PagesOf(held[d]) : x = <<d, k>>
    BY InGrants
  <2> QED
    BY <2>1
<1>4. rest \subseteq all /\ IsFiniteSet(rest)
  BY FS_Subset
<1>5. Cardinality(rest) \in Nat
  BY <1>4, FS_CardinalityType
<1>6. \A k : <<c, k>> \notin rest
  OBVIOUS
<1>7. \A k : Cardinality(rest \cup {<<c, k>>}) = Cardinality(rest) + 1
  BY <1>4, <1>6, FS_AddElement
<1> HIDE DEF all, rest
<1>8. PagesOf(held[c]) = {} => all = rest
  BY <1>3
<1>9. PagesOf(new) = {} => Grants(held') = rest
  BY <1>2
<1>10. \A b : PagesOf(held[c]) = {b} => all = rest \cup {<<c, b>>}
  BY <1>3
<1>11. \A i : PagesOf(new) = {i} => Grants(held') = rest \cup {<<c, i>>}
  BY <1>2
<1>12. \A b : PagesOf(held[c]) = {b} => Cardinality(all) = Cardinality(rest) + 1
  BY <1>7, <1>10
<1>13. \A i : PagesOf(new) = {i} => Cardinality(Grants(held')) = Cardinality(rest) + 1
  BY <1>7, <1>11
<1>14. ASSUME NEW i, PagesOf(held[c]) = {}, PagesOf(new) = {i}
       PROVE  Cardinality(Grants(held')) = Cardinality(all) + 1
  BY <1>8, <1>13, <1>14, Zenon
<1>15. ASSUME NEW b, PagesOf(held[c]) = {b}, PagesOf(new) = {}
       PROVE  Cardinality(Grants(held')) = Cardinality(all) - 1
  <2>1. Cardinality(all) = Cardinality(rest) + 1 /\ Cardinality(Grants(held')) = Cardinality(rest)
    BY <1>9, <1>12, <1>15, Zenon
  <2> QED
    BY <1>5, <2>1
<1>16. ASSUME NEW b, NEW i, PagesOf(held[c]) = {b}, PagesOf(new) = {i}
       PROVE  Cardinality(Grants(held')) = Cardinality(all)
  BY <1>12, <1>13, <1>16, Zenon
<1> QED
  BY <1>8, <1>9, <1>14, <1>15, <1>16, Zenon DEF all

\* How far each call of the self-test moves the counter.
LEMMA TestCalls ==
    ASSUME pageCount \in Nat, NEW m \in PmmType, NEW i \in Nat
    PROVE  /\ m.used <= 0 => Take(m, i, 1) \in PmmType /\ Take(m, i, 1).used <= 1
           /\ m.used <= 1 => /\ TakeUnlessNull(m, i, 11) \in PmmType
                             /\ TakeUnlessNull(m, i, 11).used <= 12
           /\ m.used <= 12 => /\ TakeUnlessNull(m, i, 2) \in PmmType
                              /\ TakeUnlessNull(m, i, 2).used <= 14
                              /\ Take(m, i, 2) \in PmmType /\ Take(m, i, 2).used <= 14
           /\ m.used <= 14 => /\ Give(m, i, 10) \in PmmType /\ Give(m, i, 10).used <= 4
                              /\ Give(m, i, 2) \in PmmType /\ Give(m, i, 2).used <= 12
           /\ m.used <= 4 => /\ Take(m, i, 10) \in PmmType /\ Take(m, i, 10).used <= 14
                             /\ Give(m, i, 11).used = 0
<1>0. m.used \in Nat
  BY DEF PmmType
<1>1. \A n \in Nat : /\ Take(m, i, n) \in PmmType /\ TakeUnlessNull(m, i, n) \in PmmType
                     /\ Give(m, i, n) \in PmmType
  BY TakeType, GiveType
<1>2. /\ Take(m, i, 1) \in PmmType /\ TakeUnlessNull(m, i, 11) \in PmmType
      /\ TakeUnlessNull(m, i, 2) \in PmmType /\ Take(m, i, 2) \in PmmType
      /\ Give(m, i, 10) \in PmmType /\ Give(m, i, 2) \in PmmType /\ Take(m, i, 10) \in PmmType
  BY <1>1
<1>3. /\ m.used <= 0 => Take(m, i, 1).used <= 1
      /\ m.used <= 12 => Take(m, i, 2).used <= 14
      /\ m.used <= 4 => Take(m, i, 10).used <= 14
      /\ m.used <= 1 => Take(m, i, 11).used <= 12
  BY <1>0 DEF Take
<1>4. /\ m.used <= 14 => Give(m, i, 10).used <= 4 /\ Give(m, i, 2).used <= 12
      /\ m.used <= 4 => Give(m, i, 11).used = 0
  BY <1>0 DEF Give
<1>5. /\ m.used <= 12 => TakeUnlessNull(m, i, 2).used <= 14
      /\ m.used <= 1 => TakeUnlessNull(m, i, 11).used <= 12
  BY <1>0, <1>3 DEF TakeUnlessNull
<1> QED
  BY <1>2, <1>3, <1>4, <1>5

\* The self-test takes fourteen pages in all and gives back twenty-one of them in the
\* end, at which the counter stops at zero.
LEMMA TestCount ==
    ASSUME TypeInv, pageUsed = 0, MmTestPhysicalMemoryManager, phase' = "ready"
    PROVE  pageUsed' = 0
<1>0. pageCount \in Nat /\ Pmm \in PmmType /\ Pmm.used = 0
  BY DEF TypeInv, TypeOK, Pmm, PmmType
<1>1. ASSUME NEW m, NEW passed, TestEnds(m, passed) PROVE passed /\ pageUsed' = m.used
  BY <1>1 DEF TestEnds, Store
<1>2. \A m : /\ SinglePage(m) \subseteq Nat
             /\ \A n \in Nat : MultiplePages(m, n) \subseteq Nat
  BY <1>0, SingleResult, MultipleResult
<1>3. ASSUME NEW m \in PmmType, m.used <= 14, NEW c \in Nat, NEW p \in Nat, TestShortRun(m, c, p)
      PROVE  pageUsed' = 0
  <2>1. PICK given : given = Give(m, p, 2)
    OBVIOUS
  <2>2. given \in PmmType /\ given.used <= 12
    BY <1>0, <1>3, <2>1, TestCalls
  <2>3. PICK l \in MultiplePages(given, 2) :
           IF l = NULL THEN TestEnds(given, FALSE)
           ELSE TestEnds(Give(Give(Take(given, l, 2), c, 10), l, 11), l = p)
    BY <1>3, <2>1 DEF TestShortRun
  <2>4. l \in Nat
    BY <1>2
  <2>5. PICK a, b, d : a = Take(given, l, 2) /\ b = Give(a, c, 10) /\ d = Give(b, l, 11)
    OBVIOUS
  <2>6. a \in PmmType /\ a.used <= 14
    BY <1>0, <2>2, <2>4, <2>5, TestCalls
  <2>7. b \in PmmType /\ b.used <= 4
    BY <1>0, <2>5, <2>6, TestCalls
  <2>8. d.used = 0
    BY <1>0, <2>4, <2>5, <2>7, TestCalls
  <2> QED
    BY <1>1, <2>3, <2>5, <2>8
<1>4. ASSUME NEW m \in PmmType, m.used <= 14, NEW h \in Nat, NEW p \in Nat, TestLongRun(m, h, p)
      PROVE  pageUsed' = 0
  <2>1. PICK given : given = Give(m, h, 10)
    OBVIOUS
  <2>2. given \in PmmType /\ given.used <= 4
    BY <1>0, <1>4, <2>1, TestCalls
  <2>3. PICK c \in MultiplePages(given, 10) :
           IF c = NULL THEN TestEnds(given, FALSE)
           ELSE IF c # h THEN TestEnds(Give(Give(Take(given, c, 10), p, 2), c, 10), FALSE)
           ELSE TestShortRun(Take(given, c, 10), c, p)
    BY <1>4, <2>1 DEF TestLongRun
  <2>4. c \in Nat
    BY <1>2
  <2>5. Take(given, c, 10) \in PmmType /\ Take(given, c, 10).used <= 14
    BY <1>0, <2>2, <2>4, TestCalls
  <2> QED
    BY <1>1, <1>3, <2>3, <2>4, <2>5
<1>5. ASSUME NEW m \in PmmType, m.used <= 1, TestGrants(m) PROVE pageUsed' = 0
  <2>1. PICK h, one, p, two :
           /\ h \in MultiplePages(m, 11) /\ one = TakeUnlessNull(m, h, 11) /\ p \in MultiplePages(one, 2)
           /\ two = TakeUnlessNull(one, p, 2)
           /\ IF h = NULL \/ p = NULL THEN TestEnds(two, FALSE) ELSE TestLongRun(two, h, p)
    BY <1>5 DEF TestGrants
  <2>2. h \in Nat /\ p \in Nat
    BY <1>2, <2>1
  <2>3. one \in PmmType /\ one.used <= 12
    BY <1>0, <1>5, <2>1, <2>2, TestCalls
  <2>4. two \in PmmType /\ two.used <= 14
    BY <1>0, <2>1, <2>2, <2>3, TestCalls
  <2> QED
    BY <1>1, <1>4, <2>1, <2>2, <2>4
<1>6. PICK o \in SinglePage(Pmm) : TestEnds(Pmm, FALSE) \/ TestGrants(Take(Pmm, o, 1))
  BY DEF MmTestPhysicalMemoryManager, Strays
<1>7. o \in Nat
  BY <1>2
<1>8. Take(Pmm, o, 1) \in PmmType /\ Take(Pmm, o, 1).used <= 1
  BY <1>0, <1>7, TestCalls
<1> QED
  BY <1>1, <1>5, <1>6, <1>8

\* A call in service, seen from the counter: client c has `new` afterwards.
Counts(c, new) ==
    /\ phase = "ready" /\ phase' = "ready"
    /\ held' = [held EXCEPT ![c] = new]
    /\ new = NoRun \/ (new.n = 1 /\ new.base \in 1 .. (pageCount - 1))
    /\ \/ held[c].n = 0 /\ new = NoRun /\ pageUsed' = pageUsed
       \/ held[c].n = 0 /\ new.n = 1
          /\ pageUsed' = IF pageUsed + 1 <= pageCount THEN pageUsed + 1 ELSE pageCount
       \/ held[c].n = 1 /\ new = NoRun
          /\ pageUsed' = IF pageUsed >= 1 THEN pageUsed - 1 ELSE 0
       \/ held[c].n = 1 /\ new.n = 1
          /\ \E u : /\ u = IF pageUsed + 1 <= pageCount THEN pageUsed + 1 ELSE pageCount
                    /\ pageUsed' = IF u >= 1 THEN u - 1 ELSE 0

LEMMA CountsShape ==
    ASSUME Amounts \subseteq {1}, SingleInv, UsageInv, NEW c \in Client,
           \/ MmAllocateSinglePage(c) \/ MmFreeSinglePage(c) \/ MmFreeMultiplePages(c)
           \/ \E n \in Amounts : MmAllocateMultiplePages(c, n) \/ MmReallocatePages(c, n)
    PROVE  \/ phase' = phase /\ UNCHANGED <<pageUsed, held>>
           \/ \E new : Counts(c, new)
<1>0. /\ pageCount \in Nat /\ pageUsed \in 0 .. pageCount /\ held \in [Client -> Run]
      /\ Pmm.used = pageUsed /\ held[c] \in Run
  BY DEF SingleInv, TypeInv, TypeOK, Pmm
<1>1. held[c].n \in {0, 1} /\ (held[c] = NoRun => held[c].n = 0) /\ NoRun.n = 0
      /\ (held[c] # NoRun => held[c].n = 1)
  BY DEF UsageInv, NoRun
<1>2. \A i : Take(Pmm, i, 1).used = IF pageUsed + 1 <= pageCount THEN pageUsed + 1 ELSE pageCount
  BY <1>0 DEF Take
<1>3. \A m, i : /\ Give(m, i, 1).used = IF m.used >= 1 THEN m.used - 1 ELSE 0
                /\ m.used \in Nat => Give(m, i, 0).used = m.used
  BY DEF Give
<1>4. \A i \in Nat : LET new == [base |-> i, n |-> 1] IN
         new.n = 1 /\ new.base = i /\ new # NoRun
  BY DEF NoRun
<1>5. ASSUME NEW i \in Nat, i # NULL => i \in 1 .. (pageCount - 1), held[c] = NoRun, phase = "ready",
             phase' = phase, Store(TakeUnlessNull(Pmm, i, 1)), Granted(c, i, 1)
      PROVE  \E new : Counts(c, new)
  <2>1. CASE i = NULL
    <3>1. pageUsed' = pageUsed /\ held' = [held EXCEPT ![c] = NoRun]
      BY <1>0, <1>5, <2>1 DEF Store, TakeUnlessNull, Granted
    <3>2. Counts(c, NoRun)
      BY <1>1, <1>5, <3>1 DEF Counts
    <3> QED
      BY <3>2
  <2>2. CASE i # NULL
    <3>1. /\ pageUsed' = IF pageUsed + 1 <= pageCount THEN pageUsed + 1 ELSE pageCount
          /\ held' = [held EXCEPT ![c] = [base |-> i, n |-> 1]]
      BY <1>2, <1>5, <2>2 DEF Store, TakeUnlessNull, Granted
    <3>2. Counts(c, [base |-> i, n |-> 1])
      BY <1>1, <1>4, <1>5, <2>2, <3>1 DEF Counts
    <3> QED
      BY <3>2
  <2> QED
    BY <2>1, <2>2
<1>6. CASE MmAllocateSinglePage(c)
  <2>1. PICK i \in SinglePage(Pmm) : Store(TakeUnlessNull(Pmm, i, 1)) /\ Granted(c, i, 1)
    BY <1>6 DEF MmAllocateSinglePage
  <2>2. i \in Nat /\ (i # NULL => i \in 1 .. (pageCount - 1))
    BY <1>0, SingleResult
  <2> QED
    BY <1>5, <1>6, <2>1, <2>2 DEF MmAllocateSinglePage
<1>7. CASE \E n \in Amounts : MmAllocateMultiplePages(c, n)
  <2>1. MmAllocateMultiplePages(c, 1)
    BY <1>7
  <2>2. PICK i \in MultiplePages(Pmm, 1) : Store(TakeUnlessNull(Pmm, i, 1)) /\ Granted(c, i, 1)
    BY <2>1 DEF MmAllocateMultiplePages
  <2>3. 1 \in Nat
    OBVIOUS
  <2>4. i \in Nat /\ (i # NULL => i \in 1 .. (pageCount - 1))
    BY <1>0, <2>3, MultipleResult
  <2> QED
    BY <1>5, <2>1, <2>2, <2>4 DEF MmAllocateMultiplePages
<1>8. CASE MmFreeSinglePage(c) \/ MmFreeMultiplePages(c)
  <2>1. /\ held[c].n = 1 /\ phase = "ready" /\ phase' = phase
        /\ held' = [held EXCEPT ![c] = NoRun] /\ Store(Give(Pmm, held[c].base, 1))
    BY <1>1, <1>8 DEF MmFreeSinglePage, MmFreeMultiplePages
  <2>2. pageUsed' = IF pageUsed >= 1 THEN pageUsed - 1 ELSE 0
    BY <1>0, <1>3, <2>1 DEF Store
  <2>3. Counts(c, NoRun)
    BY <2>1, <2>2 DEF Counts
  <2> QED
    BY <2>3
<1>9. CASE \E n \in Amounts : MmReallocatePages(c, n)
  <2>1. MmReallocatePages(c, 1)
    BY <1>9
  <2>2. PICK i \in MultiplePages(Pmm, 1) :
           IF i = NULL THEN UNCHANGED <<bits, pageUsed, held>>
           ELSE Store(Give(Take(Pmm, i, 1), held[c].base, held[c].n)) /\ Granted(c, i, 1)
    BY <2>1 DEF MmReallocatePages
  <2>3. phase = "ready" /\ phase' = phase /\ 1 \in Nat
    BY <2>1 DEF MmReallocatePages
  <2>4. i \in Nat /\ (i # NULL => i \in 1 .. (pageCount - 1))
    BY <1>0, <2>3, MultipleResult
  <2>5. CASE i = NULL
    BY <2>2, <2>3, <2>5
  <2>6. CASE i # NULL
    <3>1. held' = [held EXCEPT ![c] = [base |-> i, n |-> 1]]
      BY <2>2, <2>6 DEF Granted
    <3>2. PICK u : u = IF pageUsed + 1 <= pageCount THEN pageUsed + 1 ELSE pageCount
      OBVIOUS
    <3>3. Take(Pmm, i, 1).used = u /\ u \in Nat
      BY <1>0, <1>2, <3>2
    <3>4. pageUsed' = Give(Take(Pmm, i, 1), held[c].base, held[c].n).used
      BY <2>2, <2>6 DEF Store
    <3>5. CASE held[c].n = 0
      <4>1. pageUsed' = u
        BY <1>3, <3>3, <3>4, <3>5
      <4>2. Counts(c, [base |-> i, n |-> 1])
        BY <1>4, <2>3, <2>4, <2>6, <3>1, <3>2, <3>5, <4>1 DEF Counts
      <4> QED
        BY <4>2
    <3>6. CASE held[c].n = 1
      <4>1. pageUsed' = IF u >= 1 THEN u - 1 ELSE 0
        BY <1>3, <3>3, <3>4, <3>6
      <4>2. Counts(c, [base |-> i, n |-> 1])
        BY <1>4, <2>3, <2>4, <2>6, <3>1, <3>2, <3>6, <4>1 DEF Counts
      <4> QED
        BY <4>2
    <3> QED
      BY <1>1, <3>5, <3>6
  <2> QED
    BY <2>5, <2>6
<1> QED
  BY <1>6, <1>7, <1>8, <1>9

LEMMA UsageNext ==
    ASSUME Amounts \subseteq {1}, SingleInv, UsageInv, [Next]_vars
    PROVE  UsageInv'
<1>0. /\ pageCount \in Nat /\ pageUsed \in 0 .. pageCount /\ held \in [Client -> Run]
  BY DEF SingleInv, TypeInv, TypeOK
<1>1. Grants(held)' = Grants(held')
  BY DEF Grants, PagesOf, Pages
<1>2. CASE MmInitPhysicalMemoryManager
  BY <1>2 DEF MmInitPhysicalMemoryManager, UsageInv
<1>3. CASE MmTestPhysicalMemoryManager
  <2>1. phase = "selftest" /\ phase' \in {"ready", "panic", "astray"} /\ UNCHANGED held
    BY <1>3, SelfTestType DEF MmTestPhysicalMemoryManager, SingleInv, TypeInv
  <2>2. phase' = "ready" => pageUsed' = 0
    BY <1>3, <2>1, TestCount DEF UsageInv, SingleInv
  <2>3. Grants(held') = {}
    <3>1. held' = [c \in Client |-> NoRun]
      BY <2>1 DEF SingleInv, TypeInv, QuietBoot
    <3> QED
      BY <3>1, NoRunPages DEF Grants
  <2>4. Cardinality({}) = 0
    BY FS_EmptySet
  <2> QED
    BY <1>1, <2>1, <2>2, <2>3, <2>4 DEF UsageInv
<1>4. CASE phase' = phase /\ UNCHANGED <<pageUsed, held>>
  <2>1. Grants(held') = Grants(held)
    BY <1>4
  <2> QED
    BY <1>1, <1>4, <2>1 DEF UsageInv
<1>5. ASSUME NEW c \in Client, NEW new, Counts(c, new) PROVE UsageInv'
  <2>1. phase = "ready" /\ phase' = "ready" /\ held' = [held EXCEPT ![c] = new]
    BY <1>5 DEF Counts
  <2>2. \A d \in Client : held'[d] = NoRun \/ held'[d].n = 1
    BY <1>0, <1>5 DEF Counts, UsageInv
  <2>3. /\ IsFiniteSet(Grants(held)) /\ Cardinality(Grants(held)) \in Nat
        /\ Grants(held) # {} => Cardinality(Grants(held)) <= pageCount - 1
    BY GrantsCounted
  <2>4. pageUsed = Cardinality(Grants(held))
    BY <2>1 DEF UsageInv
  <2>5. /\ held[c].n = 0 => PagesOf(held[c]) = {}
        /\ held[c].n = 1 => PagesOf(held[c]) = {held[c].base}
    BY <1>0 DEF PagesOf, Pages, Run
  <2>6. /\ new = NoRun => PagesOf(new) = {}
        /\ new.n = 1 /\ new.base \in Nat => PagesOf(new) = {new.base}
    BY NoRunPages DEF PagesOf, Pages
  <2>7. NoRun.n = 0
    BY DEF NoRun
  <2>8. Cardinality({}) = 0
    BY FS_EmptySet
  <2>9. pageUsed' = Cardinality(Grants(held'))
    <3>1. CASE held[c].n = 0 /\ new = NoRun /\ pageUsed' = pageUsed
      <4>1. Grants(held') = Grants(held)
        BY <1>0, <2>1, <2>3, <2>5, <2>6, <3>1, GrantsSwap
      <4> QED
        BY <2>4, <3>1, <4>1
    <3>2. CASE held[c].n = 0 /\ new.n = 1 /\ new # NoRun
               /\ pageUsed' = IF pageUsed + 1 <= pageCount THEN pageUsed + 1 ELSE pageCount
      <4>1. new.base \in 1 .. (pageCount - 1)
        BY <1>5, <3>2 DEF Counts
      <4>2. Cardinality(Grants(held')) = Cardinality(Grants(held)) + 1
        <5>1. new.base \in Nat
          BY <1>0, <4>1
        <5>2. PICK i : i = new.base
          OBVIOUS
        <5>3. PagesOf(new) = {i}
          BY <2>6, <3>2, <5>1, <5>2
        <5> QED
          BY <1>0, <2>1, <2>3, <2>5, <3>2, <5>3, GrantsSwap
      <4>3. pageUsed + 1 <= pageCount
        <5>1. 1 <= pageCount - 1
          BY <1>0, <4>1
        <5>2. CASE Grants(held) = {}
          BY <1>0, <2>4, <2>8, <5>1, <5>2
        <5>3. CASE Grants(held) # {}
          BY <1>0, <2>3, <2>4, <5>3
        <5> QED
          BY <5>2, <5>3
      <4> QED
        BY <2>4, <3>2, <4>2, <4>3
    <3>3. CASE held[c].n = 1 /\ new = NoRun /\ pageUsed' = IF pageUsed >= 1 THEN pageUsed - 1 ELSE 0
      <4>1. Cardinality(Grants(held')) = Cardinality(Grants(held)) - 1
        BY <1>0, <2>1, <2>3, <2>5, <2>6, <3>3, GrantsSwap
      <4>2. pageUsed >= 1
        <5>1. held[c].base \in PagesOf(held[c])
          BY <2>5, <3>3
        <5>2. <<c, held[c].base>> \in Grants(held)
          BY <5>1, InGrants
        <5>3. Cardinality(Grants(held)) # 0
          BY <2>3, <5>2, FS_EmptySet
        <5> QED
          BY <2>3, <2>4, <5>3
      <4> QED
        BY <2>4, <3>3, <4>1, <4>2
    <3>4. CASE held[c].n = 1 /\ new.n = 1 /\ new # NoRun
               /\ \E u : /\ u = IF pageUsed + 1 <= pageCount THEN pageUsed + 1 ELSE pageCount
                         /\ pageUsed' = IF u >= 1 THEN u - 1 ELSE 0
      <4>1. new.base \in 1 .. (pageCount - 1)
        BY <1>5, <3>4 DEF Counts
      <4>2. Cardinality(Grants(held')) = Cardinality(Grants(held))
        <5>1. new.base \in Nat
          BY <1>0, <4>1
        <5>2. PICK i : i = new.base
          OBVIOUS
        <5>3. PagesOf(new) = {i}
          BY <2>6, <3>4, <5>1, <5>2
        <5> QED
          BY <1>0, <2>1, <2>3, <2>5, <3>4, <5>3, GrantsSwap
      <4>3. pageUsed + 1 <= pageCount
        <5>1. 1 <= pageCount - 1
          BY <1>0, <4>1
        <5>2. CASE Grants(held) = {}
          BY <1>0, <2>4, <2>8, <5>1, <5>2
        <5>3. CASE Grants(held) # {}
          BY <1>0, <2>3, <2>4, <5>3
        <5> QED
          BY <5>2, <5>3
      <4>4. pageUsed' = pageUsed
        BY <1>0, <3>4, <4>3
      <4> QED
        BY <2>4, <4>2, <4>4
    <3> QED
      BY <1>5, <2>7, <3>1, <3>2, <3>3, <3>4 DEF Counts
  <2> QED
    BY <1>1, <2>1, <2>2, <2>9 DEF UsageInv
<1>6. CASE UNCHANGED vars
  BY <1>4, <1>6 DEF vars
<1>7. ASSUME NEW n \in Amounts, SearchStrays(n) PROVE UsageInv'
  BY <1>7 DEF SearchStrays, Strays, UsageInv
<1> QED
  BY <1>2, <1>3, <1>4, <1>5, <1>6, <1>7, CountsShape DEF Next, Over

\* For requests of one page the counter behind MmReturnPageUsed is exact: it never
\* saturates in service, and the self-test's surplus frees leave it at zero.
THEOREM SinglePagesCounted ==
    ASSUME Amounts \subseteq {1}
    PROVE  Spec => []UsageMatchesGrants
<1>1. SingleInv /\ [Next]_vars => SingleInv'
  BY SingleInvNext
<1>2. SingleInv /\ UsageInv /\ [Next]_vars => UsageInv'
  BY UsageNext
<1>3. Init => UsageInv
  BY DEF Init, UsageInv
<1>4. UsageInv /\ TypeOK => UsageMatchesGrants
  BY DEF UsageInv, UsageMatchesGrants, Grants
<1> QED
  BY <1>1, <1>2, <1>3, <1>4, SingleInvInit, TypeCorrect, PTL DEF Spec
=============================================================================
