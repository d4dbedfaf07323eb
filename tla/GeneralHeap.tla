---------------------------- MODULE GeneralHeap ----------------------------
(***************************************************************************)
(* The general allocator of the kernel (narnify/src/mm/amd64pc/alloc.c).   *)
(*                                                                         *)
(* Memory comes from the physical memory manager in blocks of whole pages. *)
(* A block starts with a BlockHeader; chunks are carved from the rest,     *)
(* each with an AllocHeader in front of the address the caller gets.  A    *)
(* chunk that is freed goes to the tail of one list for all blocks, which  *)
(* is searched first; a block whose last chunk is freed goes back to the   *)
(* manager.  allocSpinLock is held throughout each call, so that a call is *)
(* one step.                                                               *)
(*                                                                         *)
(* The manager is used by its contract (PageAllocator): it hands out a run *)
(* of pages that the heap does not have, or refuses, which depends on what *)
(* its other callers hold.                                                 *)
(*                                                                         *)
(* A linked list is a function that maps each entry to the set of the      *)
(* entries in front of it.                                                 *)
(***************************************************************************)
EXTENDS Integers, FiniteSets

CONSTANTS
    Frames,         \* the pages the manager may hand out
    Requests        \* the sizes callers ask for

ASSUME FramesAssumption == Frames \subseteq Nat \ {0}
ASSUME RequestsAssumption == Requests \subseteq Nat

VARIABLES
    phase,      \* how far MmInitGeneralAllocator has come
    blocks,     \* the BlockHeader at the start of each block, by first page
    blockList,  \* the list from bHead to bTail
    chunks,     \* the AllocHeader in front of each chunk, by the chunk's address
    freeList,   \* the list from aHead to aTail
    owned,      \* history: the pages the manager has granted to the heap
    live        \* history: what callers hold: address -> size asked for

vars == <<phase, blocks, blockList, chunks, freeList, owned, live>>

-----------------------------------------------------------------------------
(* Sizes and places *)

MEM_SPLIT == 16
PAGE_SIZE == 4096
SplitSafe(x) == ((x + (MEM_SPLIT - 1)) \div MEM_SPLIT) * MEM_SPLIT
HeaderSize == SplitSafe(48)     \* of either header
InPages(size) == (size + (PAGE_SIZE - 1)) \div PAGE_SIZE
Run(page, n) == page .. (page + n - 1)

\* The size is what is left behind the header.  The code subtracts in u64 and
\* reads the difference as i64, so that it is below zero for the first block.
NewBlock(size) == [size |-> size - HeaderSize, used |-> 0, counter |-> 0]
BlockBase(p) == p * PAGE_SIZE + HeaderSize

\* Mutant of BlockPages: the header is left out of the pages to give back.
BlockPagesNoHeader(p, b) == Run(p, InPages(SplitSafe(b.size)))

\* The pages DeleteBlockHeader gives back, from the size it finds in the header.
BlockPages(p, b) == Run(p, InPages(SplitSafe(b.size + HeaderSize)))

-----------------------------------------------------------------------------
(* Functions as tables and as lists *)

With(f, a, x) == [b \in DOMAIN f \cup {a} |-> IF b = a THEN x ELSE f[b]]
Without(f, S) == [b \in DOMAIN f \ S |-> f[b]]

Appended(list, a) == With(list, a, DOMAIN list)
Removed(list, S) == [b \in DOMAIN list \ S |-> list[b] \ S]

-----------------------------------------------------------------------------
(* What a request may be served from *)

\* Mutant of Whole: the header is added on the wrong side.
WholeSwapped(a, size) == chunks[a].size = size \/ chunks[a].size + HeaderSize = size

\* The chunk is reused as it is, or split when both parts have more than a
\* header's worth of memory.
Whole(a, size) == chunks[a].size = size \/ chunks[a].size = size + HeaderSize

Splits(a, size) == /\ ~Whole(a, size)
                   /\ chunks[a].size > size
                   /\ size > HeaderSize
                   /\ chunks[a].size - size > HeaderSize

\* Mutant of RestSize: the rest's header is not taken off.
RestSizeNoHeader(a, size) == SplitSafe(chunks[a].size - size)

\* What is left of a chunk that is split, behind the header of the rest.
RestSize(a, size) == SplitSafe((chunks[a].size - size) - HeaderSize)

\* The first entry of the free list that will do, if there is one.
Fits(a, size) == Whole(a, size) \/ Splits(a, size)
FirstFit(a, size) == /\ a \in DOMAIN freeList
                     /\ Fits(a, size)
                     /\ \A b \in freeList[a] : ~Fits(b, size)
NoFit(size) == \A a \in DOMAIN freeList : ~Fits(a, size)

\* Mutant of Room: what is left is compared as the u64 it is computed in, so
\* that less than nothing counts as plenty.
RoomUnsigned(b, size) == \/ b.size - b.used >= size + HeaderSize
                         \/ b.size - b.used < 0

\* The first block with room for a chunk and its header, if there is one.
Room(b, size) == b.size - b.used >= size + HeaderSize
FirstRoom(p, size) == /\ p \in DOMAIN blockList
                      /\ Room(blocks[p], size)
                      /\ \A q \in blockList[p] : ~Room(blocks[q], size)
NoRoom(size) == \A p \in DOMAIN blockList : ~Room(blocks[p], size)

-----------------------------------------------------------------------------
(* The operations *)

Init == /\ phase = "boot"
        /\ blocks = <<>> /\ blockList = <<>>
        /\ chunks = <<>> /\ freeList = <<>>
        /\ owned = {}
        /\ live = <<>>

\* MmAllocateMultiplePages grants a run the heap does not have.
Grant(page, n) == /\ Run(page, n) \subseteq Frames \ owned
                  /\ owned' = owned \cup Run(page, n)

\* The first block is too small to serve any request.
MmInitGeneralAllocator ==
    /\ phase = "boot"
    /\ LET size == SplitSafe(10) IN
       \/ \E page \in Frames :
            /\ Grant(page, InPages(size))
            /\ blocks' = With(blocks, page, NewBlock(size))
            /\ blockList' = Appended(blockList, page)
            /\ phase' = "ready"
       \/ phase' = "panic" /\ UNCHANGED <<owned, blocks, blockList>>  \* STATUS_GALLOC_FAIL
    /\ UNCHANGED <<chunks, freeList, live>>

\* Mutant of InUseAgain: the block's counter is not raised.
InUseAgainUncounted(a) == UNCHANGED blocks

\* bHeader->allocCounter++ for a chunk from the free list.
InUseAgain(a) == blocks' = [blocks EXCEPT ![chunks[a].block].counter = @ + 1]

\* GetMemoryFromFreeList, when the entry it finds is taken as it is.
ReuseChunk(req) ==
    /\ phase = "ready"
    /\ \E a \in DOMAIN freeList :
         /\ FirstFit(a, SplitSafe(req))
         /\ Whole(a, SplitSafe(req))
         /\ chunks' = [chunks EXCEPT ![a].isFree = FALSE]
         /\ InUseAgain(a)
         /\ freeList' = Removed(freeList, {a})
         /\ live' = With(live, a, req)
    /\ UNCHANGED <<phase, blockList, owned>>

\* GetMemoryFromFreeList, when it splits the entry it finds: the rest gets a
\* header and goes to the tail of the list.
SplitChunk(req) ==
    /\ phase = "ready"
    /\ \E a \in DOMAIN freeList :
         LET size == SplitSafe(req)
             rest == a + size + HeaderSize
         IN /\ FirstFit(a, size)
            /\ Splits(a, size)
            /\ chunks' = With(With(chunks, a, [size |-> size, block |-> chunks[a].block,
                                               isFree |-> FALSE]),
                              rest,
                              [size |-> RestSize(a, size), block |-> chunks[a].block,
                               isFree |-> TRUE])
            /\ InUseAgain(a)
            /\ freeList' = Appended(Removed(freeList, {a}), rest)
            /\ live' = With(live, a, req)
    /\ UNCHANGED <<phase, blockList, owned>>

\* AllocateFreshMemory carves a chunk and its header from a block.
Carve(p, b, req) ==
    LET a == BlockBase(p) + b.used + HeaderSize
        size == SplitSafe(req)
    IN /\ chunks' = With(chunks, a, [size |-> size, block |-> p, isFree |-> FALSE])
       /\ live' = With(live, a, req)
       /\ blocks' = With(blocks, p, [size |-> b.size, used |-> b.used + size + HeaderSize,
                                     counter |-> b.counter + 1])

CarveChunk(req) ==
    /\ phase = "ready"
    /\ NoFit(SplitSafe(req))
    /\ \E p \in DOMAIN blockList :
         /\ FirstRoom(p, SplitSafe(req))
         /\ Carve(p, blocks[p], req)
    /\ UNCHANGED <<phase, blockList, freeList, owned>>

\* MmAllocateGeneralMemory creates a block and tries once more.  Nothing else
\* will do, so the new block serves the request if it has room.
CarveFromNewBlock(req) ==
    /\ phase = "ready"
    /\ NoFit(SplitSafe(req)) /\ NoRoom(SplitSafe(req))
    /\ \E page \in Frames :
         LET size == SplitSafe(req + PAGE_SIZE)
         IN /\ Grant(page, InPages(size))
            /\ blockList' = Appended(blockList, page)
            /\ IF Room(NewBlock(size), SplitSafe(req))
               THEN Carve(page, NewBlock(size), req)
               ELSE /\ blocks' = With(blocks, page, NewBlock(size))
                    /\ UNCHANGED <<chunks, live>>
    /\ UNCHANGED <<phase, freeList>>

\* The manager refuses the pages: MmAllocateGeneralMemory returns NULL.
OutOfMemory(req) ==
    /\ phase = "ready"
    /\ NoFit(SplitSafe(req)) /\ NoRoom(SplitSafe(req))
    /\ UNCHANGED vars

MmAllocateGeneralMemory(req) ==
    \/ ReuseChunk(req) \/ SplitChunk(req) \/ CarveChunk(req)
    \/ CarveFromNewBlock(req) \/ OutOfMemory(req)

ChunksOf(p) == {a \in DOMAIN chunks : chunks[a].block = p}

\* Mutant of DeleteBlock: the block's entries are left on the free list.
DeleteBlockOnly(p) ==
    /\ blocks' = Without(blocks, {p})
    /\ blockList' = Removed(blockList, {p})
    /\ chunks' = Without(chunks, ChunksOf(p))
    /\ owned' = owned \ BlockPages(p, blocks[p])
    /\ UNCHANGED freeList

\* The block's entries leave the free list and its pages go back; with them go
\* the headers of its chunks.
DeleteBlock(p) ==
    /\ freeList' = Removed(freeList, ChunksOf(p))
    /\ blocks' = Without(blocks, {p})
    /\ blockList' = Removed(blockList, {p})
    /\ chunks' = Without(chunks, ChunksOf(p))
    /\ owned' = owned \ BlockPages(p, blocks[p])

\* A chunk is freed.  Its block lives on while it has others in use.
MmFreeGeneralMemory(a) ==
    /\ phase = "ready"
    /\ a \in DOMAIN live
    /\ live' = Without(live, {a})
    /\ LET p == chunks[a].block IN
       \/ /\ blocks[p].counter - 1 <= 0
          /\ DeleteBlock(p)
       \/ /\ blocks[p].counter - 1 > 0
          /\ blocks' = [blocks EXCEPT ![p].counter = @ - 1]
          /\ chunks' = [chunks EXCEPT ![a].isFree = TRUE]
          /\ freeList' = Appended(freeList, a)
          /\ UNCHANGED <<blockList, owned>>
    /\ UNCHANGED phase

\* An address whose header says that it is free is turned down, as is NULL.
MmFreeGeneralMemoryRefused ==
    /\ phase = "ready"
    /\ \E a \in DOMAIN chunks \cup {0} : a # 0 => chunks[a].isFree
    /\ UNCHANGED vars

PanicEnd == phase = "panic" /\ UNCHANGED vars

Next == \/ MmInitGeneralAllocator
        \/ \E req \in Requests : MmAllocateGeneralMemory(req)
        \/ \E a \in DOMAIN live : MmFreeGeneralMemory(a)
        \/ MmFreeGeneralMemoryRefused
        \/ PanicEnd

Spec == Init /\ [][Next]_vars

-----------------------------------------------------------------------------
(* Properties *)

BlockRecord == [size : Int, used : Nat, counter : Int]
ChunkRecord == [size : Nat, block : Frames, isFree : BOOLEAN]

\* The variables have their types, and no list leads to a header that is gone:
\* entries are chunks, the blocks on bHead's list are blocks, a chunk's block
\* pointer is to a block.
TypeOK ==
    /\ phase \in {"boot", "ready", "panic"}
    /\ DOMAIN blocks \subseteq Frames
    /\ \A p \in DOMAIN blocks : blocks[p] \in BlockRecord
    /\ DOMAIN blockList = DOMAIN blocks
    /\ \A p \in DOMAIN blockList : blockList[p] \subseteq DOMAIN blockList
    /\ DOMAIN chunks \subseteq Nat
    /\ \A a \in DOMAIN chunks : chunks[a] \in ChunkRecord /\ chunks[a].block \in DOMAIN blocks
    /\ DOMAIN freeList \subseteq DOMAIN chunks
    /\ \A a \in DOMAIN freeList : freeList[a] \subseteq DOMAIN freeList
    /\ owned \subseteq Frames
    /\ DOMAIN live \subseteq DOMAIN chunks
    /\ \A a \in DOMAIN live : live[a] \in Requests

\* Two stretches of memory, each given by its first byte and its length.
Apart(a, m, b, n) == a + m <= b \/ b + n <= a

\* What the callers hold overlaps neither what others hold nor any header, and
\* lies in pages the heap has: writing what one was given corrupts nothing.
LiveIntact ==
    \A a \in DOMAIN live :
        /\ \A b \in DOMAIN live \ {a} : Apart(a, live[a], b, live[b])
        /\ \A b \in DOMAIN chunks : Apart(a, live[a], b - HeaderSize, HeaderSize)
        /\ \A p \in DOMAIN blocks : Apart(a, live[a], p * PAGE_SIZE, HeaderSize)
        /\ (a \div PAGE_SIZE) .. ((a + live[a] - 1) \div PAGE_SIZE) \subseteq owned

\* The chunks of a block, with their headers, tile the part of it that has been
\* carved: they do not overlap, the first starts at the block's base, and each
\* ends where the next one's header starts or where the carved part ends.
ChunksTile ==
    /\ \A a, b \in DOMAIN chunks :
          a # b => Apart(a - HeaderSize, HeaderSize + chunks[a].size,
                         b - HeaderSize, HeaderSize + chunks[b].size)
    /\ \A a \in DOMAIN chunks :
          LET p == chunks[a].block
              end == a + chunks[a].size
              carved == BlockBase(p) + blocks[p].used
          IN /\ BlockBase(p) + HeaderSize <= a
             /\ end <= carved
             /\ end # carved => /\ (end + HeaderSize) \in DOMAIN chunks
                                /\ chunks[end + HeaderSize].block = p
    /\ \A p \in DOMAIN blocks :
          blocks[p].used # 0 => (BlockBase(p) + HeaderSize) \in DOMAIN chunks

\* A block's counter is the number of its chunks in use, and a block with none
\* is the first one, which can never serve a request: a block is given back as
\* soon as it is idle, and never before.
CountersExact ==
    /\ \A p \in DOMAIN blocks :
          blocks[p].counter = Cardinality({a \in DOMAIN live : chunks[a].block = p})
    /\ \A p \in DOMAIN blocks : blocks[p].counter = 0 => blocks[p].size < 0

\* A list has its entries in a row.
InARow(list) ==
    \A a, b \in DOMAIN list : (a \in list[b]) <=> (a # b /\ b \notin list[a])

\* The free list holds the chunks that are free and no others, in a row, and the
\* callers hold the rest: no chunk is lost, none is both in use and on offer, and
\* neither list leads to a header that went back with its block (TypeOK).
FreeListExact ==
    /\ TypeOK
    /\ DOMAIN freeList = {a \in DOMAIN chunks : chunks[a].isFree}
    /\ DOMAIN live = {a \in DOMAIN chunks : ~chunks[a].isFree}
    /\ InARow(freeList)
    /\ InARow(blockList)

\* The pages computed from the blocks' headers are those the manager granted,
\* so that what goes back is what was taken.
PagesExact ==
    /\ owned = UNION {BlockPages(p, blocks[p]) : p \in DOMAIN blocks}
    /\ \A p, q \in DOMAIN blocks :
          p # q => BlockPages(p, blocks[p]) \cap BlockPages(q, blocks[q]) = {}

-----------------------------------------------------------------------------
(* The promise of PieceAllocator *)

\* The pieces in use, with what was asked for and the sizes that the headers in front of
\* them say.
PiecesOf == [a \in {b \in DOMAIN chunks : ~chunks[b].isFree} |->
               [asked |-> live[a], room |-> chunks[a].size]]

Promise == INSTANCE PieceAllocator WITH pieces <- PiecesOf

\* Every call of the general allocator is a step, or no step, of the allocator its callers
\* rely on: chunks may be split, reused and given back with their blocks meanwhile.
KeepsPieces == Promise!Spec
=============================================================================
