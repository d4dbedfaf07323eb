------------------------- MODULE GeneralHeapProofs -------------------------
(***************************************************************************)
(* What the general allocator guarantees for every set of pages the        *)
(* manager may hand out and all sizes that are asked for.                  *)
(*                                                                         *)
(* The lemmas are about the allocator's structures as values: each says    *)
(* what one of the changes that the operations are made of (a block is     *)
(* added, a chunk carved, split, marked, a block taken out) keeps.         *)
(***************************************************************************)
EXTENDS GeneralHeap, FiniteSetTheorems, TLAPS

-----------------------------------------------------------------------------
(* Rounding *)

Aligned(x) == x % MEM_SPLIT = 0

LEMMA HeaderIs == HeaderSize = 48
  BY DEF HeaderSize, SplitSafe, MEM_SPLIT

\* SPLIT_SAFE rounds up, by less than MEM_SPLIT.
LEMMA SplitSafeRounds ==
    ASSUME NEW x \in Nat
    PROVE  /\ SplitSafe(x) \in Nat /\ Aligned(SplitSafe(x))
           /\ x <= SplitSafe(x) /\ SplitSafe(x) < x + 16
           /\ Aligned(x) => SplitSafe(x) = x
  BY DEF SplitSafe, Aligned, MEM_SPLIT

\* A page more is a page more when rounded.
LEMMA SplitSafePage ==
    ASSUME NEW x \in Nat PROVE SplitSafe(x + PAGE_SIZE) = SplitSafe(x) + PAGE_SIZE
  BY DEF SplitSafe, MEM_SPLIT, PAGE_SIZE

LEMMA InPagesRounds ==
    ASSUME NEW n \in Nat \ {0}
    PROVE  /\ InPages(n) \in Nat \ {0}
           /\ n <= InPages(n) * PAGE_SIZE
  BY DEF InPages, PAGE_SIZE

LEMMA AlignedSum ==
    ASSUME NEW p \in Int, NEW x \in Int, NEW y \in Int, Aligned(x), Aligned(y)
    PROVE  /\ Aligned(x + y + HeaderSize) /\ Aligned(x - y - HeaderSize)
           /\ Aligned(p * PAGE_SIZE + HeaderSize + x + HeaderSize)
  BY HeaderIs DEF Aligned, MEM_SPLIT, PAGE_SIZE

-----------------------------------------------------------------------------
(* The structure: blocks bs and the chunks cs carved from them *)

Pages(b) == InPages(SplitSafe(b.size + HeaderSize))
Carved(p, bs) == BlockBase(p) + bs[p].used

BlockSound(p, b) ==
    /\ p \in Frames /\ b \in BlockRecord
    /\ b.size + HeaderSize > 0
    /\ Aligned(b.size + HeaderSize) /\ Aligned(b.used)
    /\ b.used = 0 \/ b.used <= b.size

ChunkSound(a, c) == /\ a \in Nat /\ Aligned(a)
                    /\ c \in ChunkRecord /\ Aligned(c.size)

\* The chunk lies in the carved part of its block, and another follows it up to the end.
ChunkPlaced(a, bs, cs) ==
    /\ cs[a].block \in DOMAIN bs
    /\ BlockBase(cs[a].block) + HeaderSize <= a
    /\ a + cs[a].size <= Carved(cs[a].block, bs)
    /\ a + cs[a].size # Carved(cs[a].block, bs) =>
          /\ a + cs[a].size + HeaderSize \in DOMAIN cs
          /\ cs[a + cs[a].size + HeaderSize].block = cs[a].block

ChunksApart(cs) ==
    \A a, b \in DOMAIN cs :
        a # b => Apart(a - HeaderSize, HeaderSize + cs[a].size,
                       b - HeaderSize, HeaderSize + cs[b].size)
BlocksApart(bs) ==
    \A p, q \in DOMAIN bs : p # q => p + Pages(bs[p]) <= q \/ q + Pages(bs[q]) <= p

Structure(bs, cs) ==
    /\ \A p \in DOMAIN bs : BlockSound(p, bs[p])
    /\ \A a \in DOMAIN cs : ChunkSound(a, cs[a]) /\ ChunkPlaced(a, bs, cs)
    /\ BlocksApart(bs)
    /\ ChunksApart(cs)
    /\ \A p \in DOMAIN bs : bs[p].used # 0 => BlockBase(p) + HeaderSize \in DOMAIN cs

\* The carved part of a block ends in its pages.
LEMMA CarvedInPages ==
    ASSUME NEW p, NEW b, BlockSound(p, b)
    PROVE  /\ p \in Nat /\ b.used \in Nat /\ b.size \in Int
           /\ Pages(b) \in Nat \ {0}
           /\ p * PAGE_SIZE + b.size + HeaderSize <= (p + Pages(b)) * PAGE_SIZE
           /\ BlockBase(p) + b.used <= (p + Pages(b)) * PAGE_SIZE
<1>1. p \in Nat /\ b.used \in Nat /\ b.size \in Int
  BY FramesAssumption DEF BlockSound, BlockRecord
<1>2. b.size + HeaderSize \in Nat \ {0} /\ SplitSafe(b.size + HeaderSize) = b.size + HeaderSize
  BY <1>1, HeaderIs, SplitSafeRounds DEF BlockSound
<1>3. Pages(b) \in Nat \ {0} /\ b.size + HeaderSize <= Pages(b) * PAGE_SIZE
  BY <1>2, InPagesRounds DEF Pages
<1>4. b.used + HeaderSize <= Pages(b) * PAGE_SIZE
  BY <1>1, <1>3, HeaderIs DEF BlockSound, PAGE_SIZE
<1> QED
  BY <1>1, <1>3, <1>4, HeaderIs DEF BlockBase, PAGE_SIZE

\* A chunk and its header lie behind the header of their block and in its pages.
LEMMA ChunkInPages ==
    ASSUME NEW bs, NEW cs, Structure(bs, cs), NEW a \in DOMAIN cs
    PROVE  /\ a \in Nat /\ cs[a].size \in Nat /\ cs[a].block \in Nat
           /\ cs[a].block \in DOMAIN bs /\ Pages(bs[cs[a].block]) \in Nat \ {0}
           /\ cs[a].block * PAGE_SIZE + HeaderSize <= a - HeaderSize
           /\ a + cs[a].size <= (cs[a].block + Pages(bs[cs[a].block])) * PAGE_SIZE
<1> DEFINE p == cs[a].block
<1>1. BlockSound(p, bs[p]) /\ p \in DOMAIN bs
  BY DEF Structure, ChunkPlaced
<1>2. /\ p \in Nat /\ bs[p].used \in Nat /\ Pages(bs[p]) \in Nat \ {0}
      /\ BlockBase(p) + bs[p].used <= (p + Pages(bs[p])) * PAGE_SIZE
  BY <1>1, CarvedInPages
<1>3. a \in Nat /\ cs[a].size \in Nat
  BY DEF Structure, ChunkSound, ChunkRecord
<1>4. BlockBase(p) + HeaderSize <= a /\ a + cs[a].size <= BlockBase(p) + bs[p].used
  BY DEF Structure, ChunkPlaced, Carved
<1> QED
  BY <1>1, <1>2, <1>3, <1>4, HeaderIs DEF BlockBase, PAGE_SIZE

\* A chunk whose header starts in a block, behind the block's own, is one of that block.
LEMMA ChunkBlock ==
    ASSUME NEW bs, NEW cs, Structure(bs, cs), NEW a \in DOMAIN cs, NEW q \in DOMAIN bs,
           q * PAGE_SIZE + HeaderSize <= a - HeaderSize,
           a - HeaderSize < (q + Pages(bs[q])) * PAGE_SIZE
    PROVE  cs[a].block = q
<1> DEFINE r == cs[a].block
<1>1. /\ a \in Nat /\ cs[a].size \in Nat
      /\ r \in DOMAIN bs /\ r \in Nat /\ Pages(bs[r]) \in Nat \ {0}
      /\ r * PAGE_SIZE + HeaderSize <= a - HeaderSize
      /\ a + cs[a].size <= (r + Pages(bs[r])) * PAGE_SIZE
  BY ChunkInPages
<1>2. q \in Nat /\ Pages(bs[q]) \in Nat \ {0}
  BY CarvedInPages DEF Structure
<1>3. r # q => r + Pages(bs[r]) <= q \/ q + Pages(bs[q]) <= r
  BY <1>1 DEF Structure, BlocksApart
<1> HIDE DEF r
<1>4. CASE r + Pages(bs[r]) <= q
  BY <1>1, <1>2, <1>4, HeaderIs DEF PAGE_SIZE
<1>5. CASE q + Pages(bs[q]) <= r
  BY <1>1, <1>2, <1>5, HeaderIs DEF PAGE_SIZE
<1> QED
  BY <1>3, <1>4, <1>5 DEF r

-----------------------------------------------------------------------------
(* What keeps the structure *)

LEMMA EmptyStructure ==
    ASSUME NEW bs, NEW cs, DOMAIN bs = {}, DOMAIN cs = {} PROVE Structure(bs, cs)
  BY DEF Structure, BlocksApart, ChunksApart

\* Flags and counters do not matter.
LEMMA StructureMarked ==
    ASSUME NEW bs, NEW cs, Structure(bs, cs), NEW bs2, NEW cs2,
           DOMAIN bs2 = DOMAIN bs, DOMAIN cs2 = DOMAIN cs,
           \A p \in DOMAIN bs : /\ bs2[p] \in BlockRecord
                                /\ bs2[p].size = bs[p].size /\ bs2[p].used = bs[p].used,
           \A a \in DOMAIN cs : /\ cs2[a] \in ChunkRecord
                                /\ cs2[a].size = cs[a].size /\ cs2[a].block = cs[a].block
    PROVE  Structure(bs2, cs2)
<1>1. \A p \in DOMAIN bs2 : BlockSound(p, bs2[p]) /\ Pages(bs2[p]) = Pages(bs[p])
  BY DEF Structure, BlockSound, Pages
<1>2. \A a \in DOMAIN cs2 : ChunkSound(a, cs2[a])
  BY DEF Structure, ChunkSound
<1>3. \A a \in DOMAIN cs2 : ChunkPlaced(a, bs2, cs2)
  BY DEF Structure, ChunkPlaced, Carved
<1>4. BlocksApart(bs2)
  BY <1>1 DEF Structure, BlocksApart
<1>5. ChunksApart(cs2)
  BY DEF Structure, ChunksApart
<1> QED
  BY <1>1, <1>2, <1>3, <1>4, <1>5 DEF Structure

\* A block is added.
LEMMA StructureBlockAdded ==
    ASSUME NEW bs, NEW cs, Structure(bs, cs), NEW page, NEW b, page \notin DOMAIN bs,
           BlockSound(page, b), b.used = 0,
           \A q \in DOMAIN bs : page + Pages(b) <= q \/ q + Pages(bs[q]) <= page
    PROVE  Structure(With(bs, page, b), cs)
<1> DEFINE bs2 == With(bs, page, b)
<1>1. /\ DOMAIN bs2 = DOMAIN bs \cup {page} /\ bs2[page] = b
      /\ \A q \in DOMAIN bs : bs2[q] = bs[q]
  BY DEF With
<1> HIDE DEF bs2
<1>2. \A p \in DOMAIN bs2 : BlockSound(p, bs2[p])
  BY <1>1 DEF Structure
<1>3. \A a \in DOMAIN cs : ChunkPlaced(a, bs2, cs)
  BY <1>1 DEF Structure, ChunkPlaced, Carved
<1>4. BlocksApart(bs2)
  BY <1>1 DEF Structure, BlocksApart
<1>5. \A p \in DOMAIN bs2 : bs2[p].used # 0 => BlockBase(p) + HeaderSize \in DOMAIN cs
  BY <1>1 DEF Structure
<1> QED
  BY <1>2, <1>3, <1>4, <1>5 DEF Structure, bs2

\* A block is taken out, with its chunks.
LEMMA StructureBlockRemoved ==
    ASSUME NEW bs, NEW cs, Structure(bs, cs), NEW p, NEW bs2, NEW cs2,
           bs2 = Without(bs, {p}),
           cs2 = Without(cs, {a \in DOMAIN cs : cs[a].block = p})
    PROVE  Structure(bs2, cs2)
<1>1. DOMAIN bs2 = DOMAIN bs \ {p} /\ \A q \in DOMAIN bs2 : bs2[q] = bs[q]
  BY DEF Without
<1>2. /\ DOMAIN cs2 = {a \in DOMAIN cs : cs[a].block # p}
      /\ \A a \in DOMAIN cs2 : cs2[a] = cs[a]
  BY DEF Without
<1>3. ASSUME NEW a \in DOMAIN cs2 PROVE ChunkPlaced(a, bs2, cs2)
  <2>1. ChunkPlaced(a, bs, cs) /\ cs[a].block # p /\ cs2[a] = cs[a]
    BY <1>2 DEF Structure
  <2>2. Carved(cs[a].block, bs2) = Carved(cs[a].block, bs) /\ cs[a].block \in DOMAIN bs2
    BY <1>1, <2>1 DEF Carved, ChunkPlaced
  <2> QED
    BY <1>2, <2>1, <2>2 DEF ChunkPlaced
<1>4. BlocksApart(bs2) /\ ChunksApart(cs2)
  BY <1>1, <1>2 DEF Structure, BlocksApart, ChunksApart
<1>5. \A q \in DOMAIN bs2 : bs2[q].used # 0 => BlockBase(q) + HeaderSize \in DOMAIN cs2
  <2> SUFFICES ASSUME NEW q \in DOMAIN bs2, bs2[q].used # 0
               PROVE  BlockBase(q) + HeaderSize \in DOMAIN cs2
    OBVIOUS
  <2> DEFINE a == BlockBase(q) + HeaderSize
  <2>1. a \in DOMAIN cs
    BY <1>1 DEF Structure
  <2>2. q \in Nat /\ Pages(bs[q]) \in Nat \ {0} /\ q \in DOMAIN bs /\ q # p
    BY <1>1, CarvedInPages DEF Structure
  <2>3. q * PAGE_SIZE + HeaderSize <= a - HeaderSize
        /\ a - HeaderSize < (q + Pages(bs[q])) * PAGE_SIZE
    BY <2>2, HeaderIs DEF BlockBase, PAGE_SIZE
  <2> HIDE DEF a
  <2>4. cs[a].block = q
    BY <2>1, <2>2, <2>3, ChunkBlock
  <2>5. a \in DOMAIN cs2
    BY <1>2, <2>1, <2>2, <2>4
  <2> QED
    BY <2>5 DEF a
<1> QED
  BY <1>1, <1>2, <1>3, <1>4, <1>5 DEF Structure

\* AllocateFreshMemory: a chunk is carved from a block that has room for it.
LEMMA StructureCarved ==
    ASSUME NEW bs, NEW cs, Structure(bs, cs), NEW p \in DOMAIN bs, NEW size \in Nat,
           Aligned(size), Room(bs[p], size), NEW counter \in Int, NEW free \in BOOLEAN,
           NEW a, a = BlockBase(p) + bs[p].used + HeaderSize,
           NEW bs2, bs2 = With(bs, p, [size |-> bs[p].size,
                                       used |-> bs[p].used + size + HeaderSize,
                                       counter |-> counter]),
           NEW cs2, cs2 = With(cs, a, [size |-> size, block |-> p, isFree |-> free])
    PROVE  Structure(bs2, cs2) /\ a \notin DOMAIN cs
<1>1. /\ DOMAIN bs2 = DOMAIN bs /\ \A q \in DOMAIN bs \ {p} : bs2[q] = bs[q]
      /\ bs2[p] = [size |-> bs[p].size, used |-> bs[p].used + size + HeaderSize,
                   counter |-> counter]
  BY DEF With
<1>2. /\ DOMAIN cs2 = DOMAIN cs \cup {a} /\ \A b \in DOMAIN cs \ {a} : cs2[b] = cs[b]
      /\ cs2[a] = [size |-> size, block |-> p, isFree |-> free]
  BY DEF With
<1>3. /\ p \in Nat /\ bs[p].used \in Nat /\ bs[p].size \in Int /\ Pages(bs[p]) \in Nat \ {0}
      /\ p * PAGE_SIZE + bs[p].size + HeaderSize <= (p + Pages(bs[p])) * PAGE_SIZE
      /\ BlockSound(p, bs[p])
  BY CarvedInPages DEF Structure
<1>4. /\ bs[p].used + size + HeaderSize <= bs[p].size
      /\ a = p * PAGE_SIZE + HeaderSize + bs[p].used + HeaderSize /\ a \in Nat
      /\ a + size <= (p + Pages(bs[p])) * PAGE_SIZE
  BY <1>3, HeaderIs DEF Room, BlockBase, PAGE_SIZE
<1>5. a \notin DOMAIN cs
  <2> SUFFICES ASSUME a \in DOMAIN cs PROVE FALSE
    OBVIOUS
  <2>1. cs[a].block = p
    BY <1>3, <1>4, HeaderIs, ChunkBlock DEF PAGE_SIZE
  <2>2. a + cs[a].size <= BlockBase(p) + bs[p].used /\ cs[a].size \in Nat
    BY <2>1 DEF Structure, ChunkPlaced, Carved, ChunkSound, ChunkRecord
  <2> QED
    BY <1>3, <1>4, <2>2, HeaderIs DEF BlockBase, PAGE_SIZE
<1>6. \A q \in DOMAIN bs2 : BlockSound(q, bs2[q]) /\ Pages(bs2[q]) = Pages(bs[q])
  <2>1. Aligned(bs[p].used + size + HeaderSize)
    <3>1. bs[p].used \in Int /\ size \in Int /\ Aligned(bs[p].used)
      BY <1>3 DEF BlockSound
    <3> QED
      BY <3>1, AlignedSum
  <2>2. bs2[p] \in BlockRecord
    BY <1>1, <1>3, HeaderIs DEF BlockRecord
  <2>3. BlockSound(p, bs2[p]) /\ Pages(bs2[p]) = Pages(bs[p])
    BY <1>1, <1>3, <1>4, <2>1, <2>2 DEF BlockSound, Pages
  <2> QED
    BY <1>1, <2>3 DEF Structure
<1>7. \A b \in DOMAIN cs2 : ChunkSound(b, cs2[b])
  <2>1. Aligned(a)
    <3>1. bs[p].used \in Int /\ p \in Int /\ Aligned(bs[p].used)
      BY <1>3 DEF BlockSound
    <3> QED
      BY <1>4, <3>1, AlignedSum
  <2>2. ChunkSound(a, cs2[a])
    BY <1>2, <1>3, <1>4, <2>1 DEF ChunkSound, ChunkRecord, BlockSound
  <2> QED
    BY <1>2, <2>2 DEF Structure
<1>8. Carved(p, bs2) = a + size /\ Carved(p, bs) = a - HeaderSize
  BY <1>1, <1>3, <1>4, HeaderIs DEF Carved, BlockBase, PAGE_SIZE
<1>9. \A b \in DOMAIN cs2 : ChunkPlaced(b, bs2, cs2)
  <2>1. ChunkPlaced(a, bs2, cs2)
    BY <1>1, <1>2, <1>3, <1>4, <1>8, HeaderIs DEF ChunkPlaced, BlockBase, PAGE_SIZE
  <2>2. ASSUME NEW b \in DOMAIN cs PROVE ChunkPlaced(b, bs2, cs2)
    <3>1. ChunkPlaced(b, bs, cs) /\ cs2[b] = cs[b] /\ b \in Nat /\ cs[b].size \in Nat
      BY <1>2, <1>5 DEF Structure, ChunkSound, ChunkRecord
    <3>2. CASE cs[b].block # p
      <4>1. Carved(cs[b].block, bs2) = Carved(cs[b].block, bs)
        BY <1>1, <3>1, <3>2 DEF Carved, ChunkPlaced
      <4> QED
        BY <1>1, <1>2, <1>5, <3>1, <3>2, <4>1 DEF ChunkPlaced
    <3>3. CASE cs[b].block = p
      <4>1. b + cs[b].size = Carved(p, bs) => b + cs[b].size + HeaderSize = a
        BY <1>4, <1>8, <3>1, HeaderIs
      <4>2. b + cs[b].size + HeaderSize \in DOMAIN cs2
            /\ cs2[b + cs[b].size + HeaderSize].block = p
        BY <1>2, <1>5, <3>1, <3>3, <4>1 DEF ChunkPlaced
      <4>3. b + cs[b].size <= Carved(p, bs2)
        BY <1>4, <1>8, <3>1, <3>3, HeaderIs DEF ChunkPlaced
      <4> QED
        BY <1>1, <3>1, <3>3, <4>2, <4>3 DEF ChunkPlaced
    <3> QED
      BY <3>2, <3>3
  <2> QED
    BY <1>2, <2>1, <2>2
<1>10. BlocksApart(bs2)
  BY <1>1, <1>6 DEF Structure, BlocksApart
<1>11. ASSUME NEW b \in DOMAIN cs
       PROVE  b + cs[b].size <= a - HeaderSize \/ a + size <= b - HeaderSize
  <2>1. CASE cs[b].block = p
    BY <1>8, <2>1 DEF Structure, ChunkPlaced
  <2>2. CASE cs[b].block # p
    <3> DEFINE r == cs[b].block
    <3>1. /\ b \in Nat /\ cs[b].size \in Nat /\ r \in DOMAIN bs /\ r \in Nat
          /\ Pages(bs[r]) \in Nat \ {0}
          /\ r * PAGE_SIZE + HeaderSize <= b - HeaderSize
          /\ b + cs[b].size <= (r + Pages(bs[r])) * PAGE_SIZE
      BY ChunkInPages
    <3>2. r + Pages(bs[r]) <= p \/ p + Pages(bs[p]) <= r
      BY <2>2, <3>1 DEF Structure, BlocksApart
    <3> HIDE DEF r
    <3> QED
      BY <1>3, <1>4, <3>1, <3>2, HeaderIs DEF PAGE_SIZE
  <2> QED
    BY <2>1, <2>2
<1>12. ChunksApart(cs2)
  <2> SUFFICES ASSUME NEW x \in DOMAIN cs2, NEW y \in DOMAIN cs2, x # y
               PROVE  Apart(x - HeaderSize, HeaderSize + cs2[x].size,
                            y - HeaderSize, HeaderSize + cs2[y].size)
    BY DEF ChunksApart
  <2>0. \A b \in DOMAIN cs : b \in Nat /\ cs[b].size \in Nat
    BY DEF Structure, ChunkSound, ChunkRecord
  <2>1. CASE x # a /\ y # a
    BY <1>2, <2>1 DEF Structure, ChunksApart
  <2>2. CASE x = a \/ y = a
    BY <1>2, <1>4, <1>11, <2>0, <2>2, HeaderIs DEF Apart
  <2> QED
    BY <2>1, <2>2
<1>13. \A q \in DOMAIN bs2 : bs2[q].used # 0 => BlockBase(q) + HeaderSize \in DOMAIN cs2
  <2>1. CASE bs[p].used = 0
    BY <1>1, <1>2, <1>3, <1>4, <2>1, HeaderIs DEF Structure, BlockBase, PAGE_SIZE
  <2>2. CASE bs[p].used # 0
    BY <1>1, <1>2, <2>2 DEF Structure
  <2> QED
    BY <2>1, <2>2
<1> QED
  BY <1>5, <1>6, <1>7, <1>9, <1>10, <1>12, <1>13 DEF Structure

\* GetMemoryFromFreeList: a chunk is split in two.
LEMMA StructureSplit ==
    ASSUME NEW bs, NEW cs, Structure(bs, cs), NEW a \in DOMAIN cs, NEW size \in Nat,
           Aligned(size), cs[a].size - size > HeaderSize,
           NEW free \in BOOLEAN, NEW free2 \in BOOLEAN,
           NEW rest, rest = a + size + HeaderSize,
           NEW cs2, cs2 = With(With(cs, a, [size |-> size, block |-> cs[a].block,
                                            isFree |-> free]),
                               rest, [size |-> cs[a].size - size - HeaderSize,
                                      block |-> cs[a].block, isFree |-> free2])
    PROVE  Structure(bs, cs2) /\ rest \notin DOMAIN cs
<1>1. \A b \in DOMAIN cs : /\ b \in Nat /\ cs[b] \in ChunkRecord /\ cs[b].size \in Nat
                           /\ Aligned(b) /\ Aligned(cs[b].size) /\ cs[b].block \in DOMAIN bs
  BY DEF Structure, ChunkSound, ChunkRecord, ChunkPlaced
<1>2. rest \in Nat /\ rest # a
  BY <1>1, HeaderIs
<1>3. rest \notin DOMAIN cs
  <2> SUFFICES ASSUME rest \in DOMAIN cs PROVE FALSE
    OBVIOUS
  <2>1. Apart(a - HeaderSize, HeaderSize + cs[a].size,
              rest - HeaderSize, HeaderSize + cs[rest].size)
    BY <1>2 DEF Structure, ChunksApart
  <2> QED
    BY <1>1, <1>2, <2>1, HeaderIs DEF Apart
<1>4. /\ DOMAIN cs2 = DOMAIN cs \cup {rest}
      /\ \A b \in DOMAIN cs \ {a} : cs2[b] = cs[b]
      /\ cs2[a] = [size |-> size, block |-> cs[a].block, isFree |-> free]
      /\ cs2[rest] = [size |-> cs[a].size - size - HeaderSize, block |-> cs[a].block,
                      isFree |-> free2]
  BY <1>2, <1>3 DEF With
<1>5. cs[a].size - size - HeaderSize \in Nat
  BY <1>1, HeaderIs
<1>6. \A b \in DOMAIN cs2 : ChunkSound(b, cs2[b])
  <2>1. /\ a \in Int /\ size \in Int /\ cs[a].size \in Int
        /\ Aligned(a) /\ Aligned(size) /\ Aligned(cs[a].size)
    BY <1>1
  <2>2. Aligned(rest) /\ Aligned(cs[a].size - size - HeaderSize)
    BY <2>1, AlignedSum
  <2>3. ChunkSound(a, cs2[a]) /\ ChunkSound(rest, cs2[rest])
    BY <1>1, <1>2, <1>4, <1>5, <2>1, <2>2 DEF ChunkSound, ChunkRecord
  <2> QED
    BY <1>4, <2>3 DEF Structure
<1>7. \A b \in DOMAIN cs2 : ChunkPlaced(b, bs, cs2)
  <2>1. ChunkPlaced(a, bs, cs) /\ \A b \in DOMAIN cs : cs2[b].block = cs[b].block
    BY <1>4 DEF Structure
  <2>2. Carved(cs[a].block, bs) \in Nat
    BY <1>1, CarvedInPages, HeaderIs DEF Structure, Carved, BlockBase, PAGE_SIZE
  <2>3. BlockBase(cs[a].block) \in Nat
    BY <1>1, CarvedInPages, HeaderIs DEF Structure, BlockBase, PAGE_SIZE
  <2>4. ChunkPlaced(a, bs, cs2)
    BY <1>1, <1>2, <1>4, <2>1, <2>2, <2>3, HeaderIs DEF ChunkPlaced
  <2>5. ChunkPlaced(rest, bs, cs2)
    <3>1. rest + cs2[rest].size = a + cs[a].size
      BY <1>1, <1>4, HeaderIs
    <3> QED
      BY <1>1, <1>2, <1>3, <1>4, <2>1, <2>2, <2>3, <3>1, HeaderIs DEF ChunkPlaced
  <2>6. ASSUME NEW b \in DOMAIN cs, b # a PROVE ChunkPlaced(b, bs, cs2)
    <3>1. ChunkPlaced(b, bs, cs) /\ cs2[b] = cs[b]
      BY <1>4, <2>6 DEF Structure
    <3> QED
      BY <1>4, <2>1, <3>1 DEF ChunkPlaced
  <2> QED
    BY <1>4, <2>4, <2>5, <2>6
<1>8. ChunksApart(cs2)
  <2> SUFFICES ASSUME NEW x \in DOMAIN cs2, NEW y \in DOMAIN cs2, x # y
               PROVE  Apart(x - HeaderSize, HeaderSize + cs2[x].size,
                            y - HeaderSize, HeaderSize + cs2[y].size)
    BY DEF ChunksApart
  <2>1. \A b \in DOMAIN cs \ {a} : b + cs[b].size <= a - HeaderSize
                                  \/ a + cs[a].size <= b - HeaderSize
    BY <1>1, HeaderIs DEF Structure, ChunksApart, Apart
  <2>2. CASE x \notin {a, rest} /\ y \notin {a, rest}
    BY <1>4, <2>2 DEF Structure, ChunksApart
  <2>3. CASE x \in {a, rest} /\ y \in {a, rest}
    BY <1>1, <1>2, <1>4, <2>3, HeaderIs DEF Apart
  <2>4. CASE x \in {a, rest} /\ y \notin {a, rest}
    BY <1>1, <1>2, <1>4, <2>1, <2>4, HeaderIs DEF Apart
  <2>5. CASE x \notin {a, rest} /\ y \in {a, rest}
    BY <1>1, <1>2, <1>4, <2>1, <2>5, HeaderIs DEF Apart
  <2> QED
    BY <2>2, <2>3, <2>4, <2>5
<1>9. \A q \in DOMAIN bs : bs[q].used # 0 => BlockBase(q) + HeaderSize \in DOMAIN cs2
  BY <1>4 DEF Structure
<1> QED
  BY <1>3, <1>6, <1>7, <1>8, <1>9 DEF Structure

-----------------------------------------------------------------------------
(* The lists *)

RowSound(list) == InARow(list) /\ \A a \in DOMAIN list : list[a] \subseteq DOMAIN list

LEMMA RowAppended ==
    ASSUME NEW list, RowSound(list), NEW a, a \notin DOMAIN list
    PROVE  /\ RowSound(Appended(list, a))
           /\ DOMAIN Appended(list, a) = DOMAIN list \cup {a}
<1>1. /\ DOMAIN Appended(list, a) = DOMAIN list \cup {a}
      /\ Appended(list, a)[a] = DOMAIN list
      /\ \A b \in DOMAIN list : Appended(list, a)[b] = list[b]
  BY DEF Appended, With
<1> QED
  BY <1>1 DEF RowSound, InARow

LEMMA RowRemoved ==
    ASSUME NEW list, RowSound(list), NEW S
    PROVE  RowSound(Removed(list, S)) /\ DOMAIN Removed(list, S) = DOMAIN list \ S
<1>1. /\ DOMAIN Removed(list, S) = DOMAIN list \ S
      /\ \A b \in DOMAIN list \ S : Removed(list, S)[b] = list[b] \ S
  BY DEF Removed
<1> QED
  BY <1>1 DEF RowSound, InARow

\* The free list has the chunks that are free, and callers have the others, each as
\* large as was asked for.
Lists(cs, fl, lv) ==
    /\ RowSound(fl)
    /\ DOMAIN fl = {a \in DOMAIN cs : cs[a].isFree}
    /\ DOMAIN lv = {a \in DOMAIN cs : ~cs[a].isFree}
    /\ \A a \in DOMAIN lv : lv[a] \in Requests /\ lv[a] <= cs[a].size

-----------------------------------------------------------------------------
(* The counters *)

Held(p, cs, lv) == {a \in DOMAIN lv : cs[a].block = p}

Counted(bs, cs, lv) ==
    /\ IsFiniteSet(DOMAIN lv)
    /\ \A p \in DOMAIN bs : bs[p].counter = Cardinality(Held(p, cs, lv))

\* Only the block that MmInitGeneralAllocator creates may have no chunk in use.
IdleTooSmall(bs) == \A p \in DOMAIN bs : bs[p].counter = 0 => bs[p].size < 0

\* One more chunk of a block is in use.
LEMMA CountedUp ==
    ASSUME NEW bs, Counted(bs, chunks, live), NEW p \in DOMAIN bs, NEW a, a \notin DOMAIN live,
           DOMAIN live' = DOMAIN live \cup {a}, DOMAIN blocks' = DOMAIN bs,
           chunks'[a].block = p, \A b \in DOMAIN live : chunks'[b].block = chunks[b].block,
           blocks'[p].counter = bs[p].counter + 1,
           \A q \in DOMAIN bs \ {p} : blocks'[q].counter = bs[q].counter
    PROVE  Counted(blocks', chunks', live') /\ blocks'[p].counter > 0
<1>1. IsFiniteSet(DOMAIN live')
  BY FS_AddElement DEF Counted
<1>2. \A q \in DOMAIN bs : /\ IsFiniteSet(Held(q, chunks, live))
                           /\ Cardinality(Held(q, chunks, live)) \in Nat
  BY FS_Subset, FS_CardinalityType DEF Counted, Held
<1>3. /\ Held(p, chunks', live') = Held(p, chunks, live) \cup {a}
      /\ a \notin Held(p, chunks, live)
  BY DEF Held
<1>4. \A q \in DOMAIN bs \ {p} : Held(q, chunks', live') = Held(q, chunks, live)
  BY DEF Held
<1>5. Cardinality(Held(p, chunks', live')) = Cardinality(Held(p, chunks, live)) + 1
  <2>1. IsFiniteSet(Held(p, chunks, live))
    BY <1>2
  <2>2. Cardinality(Held(p, chunks, live) \cup {a}) = Cardinality(Held(p, chunks, live)) + 1
    BY ONLY <1>3, <2>1, FS_AddElement
  <2> QED
    BY <1>3, <2>2
<1> QED
  BY <1>1, <1>2, <1>4, <1>5 DEF Counted

\* One chunk of a block less is in use.
LEMMA CountedDown ==
    ASSUME Counted(blocks, chunks, live), NEW a \in DOMAIN live, NEW p, p = chunks[a].block,
           p \in DOMAIN blocks, DOMAIN live' = DOMAIN live \ {a},
           DOMAIN blocks' = DOMAIN blocks,
           \A b \in DOMAIN live : chunks'[b].block = chunks[b].block,
           blocks'[p].counter = blocks[p].counter - 1,
           \A q \in DOMAIN blocks \ {p} : blocks'[q].counter = blocks[q].counter
    PROVE  Counted(blocks', chunks', live')
<1>1. IsFiniteSet(DOMAIN live')
  BY FS_RemoveElement DEF Counted
<1>2. IsFiniteSet(Held(p, chunks, live))
  BY FS_Subset DEF Counted, Held
<1>3. /\ Held(p, chunks', live') = Held(p, chunks, live) \ {a}
      /\ a \in Held(p, chunks, live)
  BY DEF Held
<1>4. \A q \in DOMAIN blocks \ {p} : Held(q, chunks', live') = Held(q, chunks, live)
  BY DEF Held
<1>5. Cardinality(Held(p, chunks', live')) = Cardinality(Held(p, chunks, live)) - 1
  <2>1. Cardinality(Held(p, chunks, live) \ {a}) = Cardinality(Held(p, chunks, live)) - 1
    BY ONLY <1>2, <1>3, FS_RemoveElement
  <2> QED
    BY <1>3, <2>1
<1> QED
  BY <1>1, <1>4, <1>5 DEF Counted

\* When the counter would fall to 0, the chunk was the last one in use.
LEMMA LastOne ==
    ASSUME NEW bs, NEW cs, NEW lv, Counted(bs, cs, lv), NEW a \in DOMAIN lv,
           cs[a].block \in DOMAIN bs, bs[cs[a].block].counter - 1 <= 0
    PROVE  \A b \in DOMAIN lv : cs[b].block = cs[a].block => b = a
<1> DEFINE H == Held(cs[a].block, cs, lv)
<1>1. IsFiniteSet(H) /\ a \in H
  BY FS_Subset DEF Counted, Held
<1>2. bs[cs[a].block].counter = Cardinality(H)
  BY DEF Counted
<1> HIDE DEF H
<1>3. IsFiniteSet(H \ {a}) /\ Cardinality(H \ {a}) = Cardinality(H) - 1
  BY <1>1, FS_RemoveElement
<1>4. Cardinality(H \ {a}) \in Nat /\ Cardinality(H) \in Nat
  BY <1>1, <1>3, FS_CardinalityType
<1>5. H \ {a} = {}
  BY <1>2, <1>3, <1>4, FS_EmptySet
<1> QED
  BY <1>5 DEF H, Held

-----------------------------------------------------------------------------
(* The pages *)

PagesOwned(bs, ow) ==
    /\ ow \subseteq Frames
    /\ \A f : f \in ow <=> \E p \in DOMAIN bs : f \in Run(p, Pages(bs[p]))

LEMMA RunsApart ==
    ASSUME NEW p \in Nat, NEW q \in Nat, NEW m \in Nat \ {0}, NEW n \in Nat \ {0}
    PROVE  Run(p, m) \cap Run(q, n) = {} <=> p + m <= q \/ q + n <= p
<1>1. ASSUME Run(p, m) \cap Run(q, n) = {} PROVE p + m <= q \/ q + n <= p
  <2>1. p \in Run(p, m) /\ q \in Run(q, n)
    BY DEF Run
  <2>2. p \notin Run(q, n) /\ q \notin Run(p, m)
    BY <1>1, <2>1
  <2> QED
    BY <2>2 DEF Run
<1>2. ASSUME p + m <= q \/ q + n <= p PROVE Run(p, m) \cap Run(q, n) = {}
  BY <1>2 DEF Run
<1> QED
  BY <1>1, <1>2

\* A block of an aligned size has the pages that were granted for it.
LEMMA NewBlockSound ==
    ASSUME NEW page \in Frames, NEW size \in Nat \ {0}, Aligned(size)
    PROVE  /\ BlockSound(page, NewBlock(size)) /\ Pages(NewBlock(size)) = InPages(size)
           /\ NewBlock(size).used = 0 /\ NewBlock(size).counter = 0
           /\ NewBlock(size).size = size - HeaderSize
           /\ InPages(size) \in Nat \ {0}
<1>1. NewBlock(size).size + HeaderSize = size /\ NewBlock(size) \in BlockRecord
  BY HeaderIs DEF NewBlock, BlockRecord
<1>2. Aligned(0)
  BY DEF Aligned, MEM_SPLIT
<1>3. SplitSafe(size) = size /\ InPages(size) \in Nat \ {0}
  BY SplitSafeRounds, InPagesRounds
<1> QED
  BY <1>1, <1>2, <1>3 DEF NewBlock, BlockSound, Pages

\* MmAllocateMultiplePages: a run that is granted is apart from all blocks.
LEMMA GrantApart ==
    ASSUME NEW bs, NEW cs, Structure(bs, cs), PagesOwned(bs, owned),
           NEW page \in Frames, NEW n \in Nat \ {0}, Grant(page, n)
    PROVE  /\ page \notin DOMAIN bs
           /\ \A q \in DOMAIN bs : page + n <= q \/ q + Pages(bs[q]) <= page
<1>1. \A q \in DOMAIN bs : q \in Nat /\ Pages(bs[q]) \in Nat \ {0}
  BY CarvedInPages DEF Structure
<1>2. \A q \in DOMAIN bs : Run(page, n) \cap Run(q, Pages(bs[q])) = {}
  BY DEF Grant, PagesOwned
<1>3. \A q \in DOMAIN bs : page + n <= q \/ q + Pages(bs[q]) <= page
  BY <1>1, <1>2, RunsApart, FramesAssumption
<1>4. ASSUME page \in DOMAIN bs PROVE FALSE
  BY <1>1, <1>3, <1>4
<1> QED
  BY <1>3, <1>4

LEMMA PagesGranted ==
    ASSUME NEW bs, PagesOwned(bs, owned), NEW page \in Frames, NEW b, page \notin DOMAIN bs,
           Grant(page, Pages(b)), NEW bs2, DOMAIN bs2 = DOMAIN bs \cup {page},
           Pages(bs2[page]) = Pages(b), \A q \in DOMAIN bs : Pages(bs2[q]) = Pages(bs[q])
    PROVE  PagesOwned(bs2, owned')
  BY DEF PagesOwned, Grant

\* The pages that go back with a block are its own.
LEMMA PagesReturned ==
    ASSUME NEW bs, NEW cs, Structure(bs, cs), NEW ow, PagesOwned(bs, ow), NEW p \in DOMAIN bs
    PROVE  PagesOwned(Without(bs, {p}), ow \ BlockPages(p, bs[p]))
<1>1. /\ DOMAIN Without(bs, {p}) = DOMAIN bs \ {p}
      /\ \A q \in DOMAIN bs \ {p} : Without(bs, {p})[q] = bs[q]
  BY DEF Without
<1>2. \A q \in DOMAIN bs : q \in Nat /\ Pages(bs[q]) \in Nat \ {0}
  BY CarvedInPages DEF Structure
<1>3. \A q \in DOMAIN bs \ {p} : Run(p, Pages(bs[p])) \cap Run(q, Pages(bs[q])) = {}
  BY <1>2, RunsApart DEF Structure, BlocksApart
<1>4. BlockPages(p, bs[p]) = Run(p, Pages(bs[p]))
  BY DEF BlockPages, Pages
<1> QED
  BY <1>1, <1>3, <1>4 DEF PagesOwned

-----------------------------------------------------------------------------
(* The inductive invariant *)

\* The parts need each other: a chunk from the free list is what the tiling says it is, a
\* new one is new because of it, and a block is given back with nothing in use because
\* its counter is exact.
HeapInv ==
    /\ phase \in {"boot", "ready", "panic"}
    /\ RowSound(blockList) /\ DOMAIN blockList = DOMAIN blocks
    /\ Structure(blocks, chunks)
    /\ Lists(chunks, freeList, live)
    /\ Counted(blocks, chunks, live)
    /\ IdleTooSmall(blocks)
    /\ PagesOwned(blocks, owned)

\* One piece more is in use, or one less, and the others are what they were.
Given(req) ==
    \E a : /\ a \notin DOMAIN live /\ live' = With(live, a, req)
           /\ \A b \in DOMAIN live : chunks'[b].size = chunks[b].size
Taken(a) ==
    /\ live' = Without(live, {a})
    /\ \A b \in DOMAIN live \ {a} : chunks'[b].size = chunks[b].size

LEMMA HeapInit == Init => HeapInv
<1> SUFFICES ASSUME Init PROVE HeapInv
  OBVIOUS
<1>1. /\ DOMAIN blocks = {} /\ DOMAIN blockList = {} /\ DOMAIN chunks = {}
      /\ DOMAIN freeList = {} /\ DOMAIN live = {}
  BY DEF Init
<1>2. Structure(blocks, chunks)
  BY <1>1, EmptyStructure
<1>3. RowSound(blockList) /\ Lists(chunks, freeList, live)
  BY <1>1 DEF RowSound, InARow, Lists
<1>4. Counted(blocks, chunks, live) /\ IdleTooSmall(blocks)
  BY <1>1, FS_EmptySet DEF Counted, IdleTooSmall
<1>5. PagesOwned(blocks, owned)
  BY <1>1 DEF Init, PagesOwned
<1> QED
  BY <1>1, <1>2, <1>3, <1>4, <1>5 DEF Init, HeapInv

\* A block that is added is counted with nothing in use.
LEMMA CountedBlockAdded ==
    ASSUME NEW bs, NEW cs, NEW lv, Structure(bs, cs), Counted(bs, cs, lv),
           DOMAIN lv \subseteq DOMAIN cs, NEW page, NEW b, page \notin DOMAIN bs,
           b.counter = 0
    PROVE  Counted(With(bs, page, b), cs, lv)
<1>1. /\ DOMAIN With(bs, page, b) = DOMAIN bs \cup {page} /\ With(bs, page, b)[page] = b
      /\ \A q \in DOMAIN bs : With(bs, page, b)[q] = bs[q]
  BY DEF With
<1>2. Held(page, cs, lv) = {}
  BY DEF Held, Structure, ChunkPlaced
<1>3. Cardinality({}) = 0
  BY FS_EmptySet
<1> QED
  BY <1>1, <1>2, <1>3 DEF Counted

LEMMA HeapInitAllocator == HeapInv /\ MmInitGeneralAllocator => HeapInv'
<1> SUFFICES ASSUME HeapInv, MmInitGeneralAllocator PROVE HeapInv'
  OBVIOUS
<1> DEFINE size == SplitSafe(10)
<1>0. size = 16 /\ size \in Nat \ {0} /\ Aligned(size)
  BY DEF SplitSafe, MEM_SPLIT, Aligned
<1>1. CASE phase' = "panic" /\ UNCHANGED <<owned, blocks, blockList>>
  BY <1>1 DEF MmInitGeneralAllocator, HeapInv
<1>2. ASSUME NEW page \in Frames, Grant(page, InPages(size)),
             blocks' = With(blocks, page, NewBlock(size)),
             blockList' = Appended(blockList, page), phase' = "ready"
      PROVE  HeapInv'
  <2> HIDE DEF size
  <2>1. /\ BlockSound(page, NewBlock(size)) /\ Pages(NewBlock(size)) = InPages(size)
        /\ NewBlock(size).used = 0 /\ NewBlock(size).counter = 0
        /\ NewBlock(size).size = size - HeaderSize /\ InPages(size) \in Nat \ {0}
    BY <1>0, NewBlockSound
  <2>2. /\ page \notin DOMAIN blocks
        /\ \A q \in DOMAIN blocks : page + InPages(size) <= q \/ q + Pages(blocks[q]) <= page
    BY <1>2, <2>1, GrantApart DEF HeapInv
  <2>3. UNCHANGED <<chunks, freeList, live>>
    BY DEF MmInitGeneralAllocator
  <2>4. /\ DOMAIN blocks' = DOMAIN blocks \cup {page} /\ blocks'[page] = NewBlock(size)
        /\ \A q \in DOMAIN blocks : blocks'[q] = blocks[q]
    BY <1>2, <2>2 DEF With
  <2>5. Structure(blocks', chunks')
    BY <1>2, <2>1, <2>2, <2>3, StructureBlockAdded DEF HeapInv
  <2>6. RowSound(blockList') /\ DOMAIN blockList' = DOMAIN blocks'
    <3>1. RowSound(blockList) /\ page \notin DOMAIN blockList
      BY <2>2 DEF HeapInv
    <3> QED
      BY <1>2, <2>4, <3>1, RowAppended DEF HeapInv
  <2>7. Counted(blocks', chunks', live')
    BY <1>2, <2>1, <2>2, <2>3, CountedBlockAdded DEF HeapInv, Lists
  <2>8. IdleTooSmall(blocks')
    BY <1>0, <2>1, <2>4, HeaderIs DEF HeapInv, IdleTooSmall
  <2>9. PagesOwned(blocks', owned')
    BY <1>2, <2>1, <2>2, <2>4, PagesGranted DEF HeapInv
  <2>10. Lists(chunks', freeList', live')
    BY <2>3 DEF HeapInv
  <2> QED
    BY <1>2, <2>5, <2>6, <2>7, <2>8, <2>9, <2>10 DEF HeapInv
<1> QED
  BY <1>1, <1>2 DEF MmInitGeneralAllocator

\* What InUseAgain does to the blocks.
LEMMA BlocksCountUp ==
    ASSUME HeapInv, NEW p \in DOMAIN blocks, NEW bs2,
           bs2 = [blocks EXCEPT ![p].counter = @ + 1]
    PROVE  /\ DOMAIN bs2 = DOMAIN blocks
           /\ \A q \in DOMAIN blocks : /\ bs2[q] \in BlockRecord
                                       /\ bs2[q].size = blocks[q].size
                                       /\ bs2[q].used = blocks[q].used
                                       /\ Pages(bs2[q]) = Pages(blocks[q])
           /\ bs2[p].counter = blocks[p].counter + 1
           /\ \A q \in DOMAIN blocks \ {p} : bs2[q].counter = blocks[q].counter
<1>1. \A q \in DOMAIN blocks : blocks[q] \in BlockRecord
  BY DEF HeapInv, Structure, BlockSound
<1>2. /\ DOMAIN bs2 = DOMAIN blocks
      /\ \A q \in DOMAIN blocks \ {p} : bs2[q] = blocks[q]
      /\ bs2[p] = [blocks[p] EXCEPT !.counter = blocks[p].counter + 1]
  OBVIOUS
<1>3. /\ bs2[p] \in BlockRecord /\ bs2[p].size = blocks[p].size
      /\ bs2[p].used = blocks[p].used /\ bs2[p].counter = blocks[p].counter + 1
  BY <1>1, <1>2 DEF BlockRecord
<1> QED
  BY <1>1, <1>2, <1>3 DEF Pages

LEMMA HeapReuse == ASSUME NEW req \in Requests, HeapInv, ReuseChunk(req)
                   PROVE  HeapInv' /\ Given(req)
<1> DEFINE size == SplitSafe(req)
<1>0. size \in Nat /\ req <= size /\ req \in Nat
  BY SplitSafeRounds, RequestsAssumption
<1>1. PICK a \in DOMAIN freeList :
         /\ Whole(a, size)
         /\ chunks' = [chunks EXCEPT ![a].isFree = FALSE]
         /\ InUseAgain(a)
         /\ freeList' = Removed(freeList, {a})
         /\ live' = With(live, a, req)
  BY DEF ReuseChunk
<1>2. UNCHANGED <<phase, blockList, owned>>
  BY DEF ReuseChunk
<1> HIDE DEF size
<1>3. /\ a \in DOMAIN chunks /\ a \notin DOMAIN live /\ chunks[a].block \in DOMAIN blocks
      /\ \A b \in DOMAIN chunks : chunks[b] \in ChunkRecord
  BY DEF HeapInv, Lists, Structure, ChunkSound, ChunkPlaced
<1>4. /\ DOMAIN chunks' = DOMAIN chunks
      /\ \A b \in DOMAIN chunks : /\ chunks'[b] \in ChunkRecord
                                  /\ chunks'[b].size = chunks[b].size
                                  /\ chunks'[b].block = chunks[b].block
      /\ chunks'[a].isFree = FALSE
      /\ \A b \in DOMAIN chunks \ {a} : chunks'[b] = chunks[b]
  <2>1. /\ DOMAIN chunks' = DOMAIN chunks
        /\ chunks'[a] = [chunks[a] EXCEPT !.isFree = FALSE]
        /\ \A b \in DOMAIN chunks \ {a} : chunks'[b] = chunks[b]
    BY <1>1, <1>3
  <2> QED
    BY <1>3, <2>1 DEF ChunkRecord
<1>5. /\ DOMAIN blocks' = DOMAIN blocks
      /\ \A q \in DOMAIN blocks : /\ blocks'[q] \in BlockRecord
                                  /\ blocks'[q].size = blocks[q].size
                                  /\ blocks'[q].used = blocks[q].used
                                  /\ Pages(blocks'[q]) = Pages(blocks[q])
      /\ blocks'[chunks[a].block].counter = blocks[chunks[a].block].counter + 1
      /\ \A q \in DOMAIN blocks \ {chunks[a].block} : blocks'[q].counter = blocks[q].counter
  BY <1>1, <1>3, BlocksCountUp DEF InUseAgain
<1>6. /\ DOMAIN live' = DOMAIN live \cup {a} /\ live'[a] = req
      /\ \A b \in DOMAIN live : live'[b] = live[b]
  BY <1>1, <1>3 DEF With
<1>7. Structure(blocks', chunks')
  BY <1>4, <1>5, StructureMarked DEF HeapInv
<1>8. Lists(chunks', freeList', live')
  <2>1. RowSound(freeList') /\ DOMAIN freeList' = DOMAIN freeList \ {a}
    BY <1>1, RowRemoved DEF HeapInv, Lists
  <2>2. req <= chunks'[a].size
    BY <1>0, <1>1, <1>3, <1>4, HeaderIs DEF Whole, ChunkRecord
  <2> QED
    BY <1>3, <1>4, <1>6, <2>1, <2>2 DEF HeapInv, Lists
<1>9. Counted(blocks', chunks', live') /\ blocks'[chunks[a].block].counter > 0
  <2>1. DOMAIN live \subseteq DOMAIN chunks
    BY DEF HeapInv, Lists
  <2>2. /\ chunks[a].block \in DOMAIN blocks /\ chunks'[a].block = chunks[a].block
        /\ \A b \in DOMAIN live : chunks'[b].block = chunks[b].block
        /\ Counted(blocks, chunks, live)
    BY <1>3, <1>4, <2>1 DEF HeapInv
  <2> QED
    BY <1>3, <1>5, <1>6, <2>2, CountedUp
<1>10. IdleTooSmall(blocks')
  BY <1>5, <1>9 DEF HeapInv, IdleTooSmall
<1>11. PagesOwned(blocks', owned')
  BY <1>2, <1>5 DEF HeapInv, PagesOwned
<1>12. Given(req)
  <2>1. DOMAIN live \subseteq DOMAIN chunks
    BY DEF HeapInv, Lists
  <2> QED
    BY <1>1, <1>3, <1>4, <2>1 DEF Given
<1> QED
  BY <1>2, <1>5, <1>7, <1>8, <1>9, <1>10, <1>11, <1>12 DEF HeapInv

LEMMA HeapSplit == ASSUME NEW req \in Requests, HeapInv, SplitChunk(req)
                   PROVE  HeapInv' /\ Given(req)
<1> DEFINE size == SplitSafe(req)
<1>0. size \in Nat /\ req <= size /\ req \in Nat /\ Aligned(size)
  BY SplitSafeRounds, RequestsAssumption
<1>1. PICK a \in DOMAIN freeList :
         /\ Splits(a, size)
         /\ chunks' = With(With(chunks, a, [size |-> size, block |-> chunks[a].block,
                                            isFree |-> FALSE]),
                           a + size + HeaderSize,
                           [size |-> RestSize(a, size), block |-> chunks[a].block,
                            isFree |-> TRUE])
         /\ InUseAgain(a)
         /\ freeList' = Appended(Removed(freeList, {a}), a + size + HeaderSize)
         /\ live' = With(live, a, req)
  BY DEF SplitChunk
<1>2. UNCHANGED <<phase, blockList, owned>>
  BY DEF SplitChunk
<1> HIDE DEF size
<1> DEFINE rest == a + size + HeaderSize
<1> DEFINE p == chunks[a].block
<1>3. /\ a \in DOMAIN chunks /\ a \notin DOMAIN live /\ p \in DOMAIN blocks
      /\ chunks[a].size \in Nat /\ Aligned(chunks[a].size) /\ a \in Nat
      /\ DOMAIN live \subseteq DOMAIN chunks
  BY DEF HeapInv, Lists, Structure, ChunkSound, ChunkPlaced, ChunkRecord
<1>4. chunks[a].size - size > HeaderSize
  BY <1>1 DEF Splits
<1>5. RestSize(a, size) = chunks[a].size - size - HeaderSize
  <2>1. chunks[a].size - size - HeaderSize \in Nat
    BY <1>0, <1>3, <1>4, HeaderIs
  <2>2. Aligned(chunks[a].size - size - HeaderSize)
    BY <1>0, <1>3, AlignedSum
  <2> QED
    BY <2>1, <2>2, SplitSafeRounds DEF RestSize
<1>6. Structure(blocks, chunks') /\ rest \notin DOMAIN chunks /\ rest # a
  <2>1. chunks' = With(With(chunks, a, [size |-> size, block |-> chunks[a].block,
                                        isFree |-> FALSE]),
                       rest, [size |-> chunks[a].size - size - HeaderSize,
                              block |-> chunks[a].block, isFree |-> TRUE])
    BY <1>1, <1>5
  <2>2. Structure(blocks, chunks)
    BY DEF HeapInv
  <2>3. rest # a
    BY <1>0, <1>3, HeaderIs
  <2>4. Structure(blocks, chunks') /\ rest \notin DOMAIN chunks
    <3>1. rest = a + size + HeaderSize
      OBVIOUS
    <3> HIDE DEF rest
    <3> QED
      BY <1>0, <1>3, <1>4, <2>1, <2>2, <3>1, StructureSplit
  <2> QED
    BY <2>3, <2>4
<1>7. /\ DOMAIN chunks' = DOMAIN chunks \cup {rest}
      /\ \A b \in DOMAIN chunks \ {a} : chunks'[b] = chunks[b]
      /\ chunks'[a] = [size |-> size, block |-> p, isFree |-> FALSE]
      /\ chunks'[rest] = [size |-> RestSize(a, size), block |-> p, isFree |-> TRUE]
  BY <1>1, <1>3, <1>6 DEF With
<1>8. /\ DOMAIN blocks' = DOMAIN blocks
      /\ \A q \in DOMAIN blocks : /\ blocks'[q] \in BlockRecord
                                  /\ blocks'[q].size = blocks[q].size
                                  /\ blocks'[q].used = blocks[q].used
                                  /\ Pages(blocks'[q]) = Pages(blocks[q])
      /\ blocks'[p].counter = blocks[p].counter + 1
      /\ \A q \in DOMAIN blocks \ {p} : blocks'[q].counter = blocks[q].counter
  BY <1>1, <1>3, BlocksCountUp DEF InUseAgain
<1> HIDE DEF rest, p
<1>9. /\ DOMAIN live' = DOMAIN live \cup {a} /\ live'[a] = req
      /\ \A b \in DOMAIN live : live'[b] = live[b]
  BY <1>1, <1>3 DEF With
<1>10. Structure(blocks', chunks')
  <2>1. \A b \in DOMAIN chunks' : chunks'[b] \in ChunkRecord
    BY <1>6 DEF Structure, ChunkSound
  <2> QED
    BY <1>6, <1>8, <2>1, StructureMarked
<1>11. Lists(chunks', freeList', live')
  <2>1. RowSound(Removed(freeList, {a})) /\ DOMAIN Removed(freeList, {a}) = DOMAIN freeList \ {a}
    BY RowRemoved DEF HeapInv, Lists
  <2>2. rest \notin DOMAIN Removed(freeList, {a})
    BY <1>6, <2>1 DEF HeapInv, Lists
  <2>3. RowSound(freeList') /\ DOMAIN freeList' = (DOMAIN freeList \ {a}) \cup {rest}
    BY <1>1, <2>1, <2>2, RowAppended DEF rest
  <2> QED
    BY <1>0, <1>3, <1>6, <1>7, <1>9, <2>3 DEF HeapInv, Lists
<1>12. Counted(blocks', chunks', live') /\ blocks'[p].counter > 0
  <2>1. chunks'[a].block = p /\ \A b \in DOMAIN live : chunks'[b].block = chunks[b].block
    BY <1>3, <1>7
  <2> QED
    BY <1>3, <1>8, <1>9, <2>1, CountedUp DEF HeapInv
<1>13. IdleTooSmall(blocks')
  BY <1>8, <1>12 DEF HeapInv, IdleTooSmall
<1>14. PagesOwned(blocks', owned')
  BY <1>2, <1>8 DEF HeapInv, PagesOwned
<1>15. Given(req)
  BY <1>1, <1>3, <1>7 DEF Given
<1> QED
  BY <1>2, <1>8, <1>10, <1>11, <1>12, <1>13, <1>14, <1>15 DEF HeapInv

\* Carve, from a block of bs that has room: the heap's own, or with a new one.
LEMMA HeapCarved ==
    ASSUME NEW req \in Requests, NEW bs, Structure(bs, chunks), Counted(bs, chunks, live),
           Lists(chunks, freeList, live),
           NEW p \in DOMAIN bs, Room(bs[p], SplitSafe(req)), Carve(p, bs[p], req),
           UNCHANGED freeList,
           blocks' = With(bs, p, [size |-> bs[p].size,
                                  used |-> bs[p].used + SplitSafe(req) + HeaderSize,
                                  counter |-> bs[p].counter + 1])
    PROVE  /\ Structure(blocks', chunks')
           /\ Lists(chunks', freeList', live')
           /\ Counted(blocks', chunks', live')
           /\ blocks'[p].counter > 0
           /\ DOMAIN blocks' = DOMAIN bs
           /\ \A q \in DOMAIN bs : Pages(blocks'[q]) = Pages(bs[q])
           /\ \A q \in DOMAIN bs \ {p} : blocks'[q] = bs[q]
           /\ Given(req)
<1> DEFINE size == SplitSafe(req)
<1> DEFINE a == BlockBase(p) + bs[p].used + HeaderSize
<1>0. size \in Nat /\ req <= size /\ req \in Nat /\ Aligned(size)
  BY SplitSafeRounds, RequestsAssumption
<1>1. /\ chunks' = With(chunks, a, [size |-> size, block |-> p, isFree |-> FALSE])
      /\ live' = With(live, a, req)
  BY DEF Carve
<1>2. bs[p].counter \in Int
  BY DEF Structure, BlockSound, BlockRecord
<1>3. Structure(blocks', chunks') /\ a \notin DOMAIN chunks
  <2>1. blocks' = With(bs, p, [size |-> bs[p].size, used |-> bs[p].used + size + HeaderSize,
                               counter |-> bs[p].counter + 1])
    OBVIOUS
  <2>2. bs[p].counter + 1 \in Int /\ FALSE \in BOOLEAN /\ Room(bs[p], size)
    BY <1>2
  <2> HIDE DEF size
  <2> QED
    BY <1>0, <1>1, <2>1, <2>2, StructureCarved
<1> HIDE DEF size, a
<1>4. /\ DOMAIN chunks' = DOMAIN chunks \cup {a}
      /\ \A b \in DOMAIN chunks : chunks'[b] = chunks[b]
      /\ chunks'[a] = [size |-> size, block |-> p, isFree |-> FALSE]
  BY <1>1, <1>3 DEF With
<1>5. /\ DOMAIN blocks' = DOMAIN bs /\ \A q \in DOMAIN bs \ {p} : blocks'[q] = bs[q]
      /\ blocks'[p].counter = bs[p].counter + 1 /\ blocks'[p].size = bs[p].size
  BY DEF With
<1>6. DOMAIN live \subseteq DOMAIN chunks /\ a \notin DOMAIN live
  BY <1>3 DEF Lists
<1>7. /\ DOMAIN live' = DOMAIN live \cup {a} /\ live'[a] = req
      /\ \A b \in DOMAIN live : live'[b] = live[b]
  BY <1>1, <1>6 DEF With
<1>8. Lists(chunks', freeList', live')
  BY <1>0, <1>3, <1>4, <1>6, <1>7 DEF Lists
<1>9. Counted(blocks', chunks', live') /\ blocks'[p].counter > 0
  <2>1. chunks'[a].block = p /\ \A b \in DOMAIN live : chunks'[b].block = chunks[b].block
    BY <1>4, <1>6
  <2> QED
    BY <1>5, <1>6, <1>7, <2>1, CountedUp
<1>10. \A q \in DOMAIN bs : Pages(blocks'[q]) = Pages(bs[q])
  BY <1>5 DEF Pages
<1>11. Given(req)
  BY <1>1, <1>4, <1>6 DEF Given
<1> QED
  BY <1>3, <1>5, <1>8, <1>9, <1>10, <1>11

LEMMA HeapCarve == ASSUME NEW req \in Requests, HeapInv, CarveChunk(req)
                   PROVE  HeapInv' /\ Given(req)
<1>1. PICK p \in DOMAIN blockList : FirstRoom(p, SplitSafe(req)) /\ Carve(p, blocks[p], req)
  BY DEF CarveChunk
<1>2. UNCHANGED <<phase, blockList, freeList, owned>>
  BY DEF CarveChunk
<1>3. p \in DOMAIN blocks /\ Room(blocks[p], SplitSafe(req))
  BY <1>1 DEF HeapInv, FirstRoom
<1>4. blocks' = With(blocks, p, [size |-> blocks[p].size,
                                 used |-> blocks[p].used + SplitSafe(req) + HeaderSize,
                                 counter |-> blocks[p].counter + 1])
  BY <1>1 DEF Carve
<1>5. /\ Structure(blocks', chunks') /\ Lists(chunks', freeList', live')
      /\ Counted(blocks', chunks', live') /\ blocks'[p].counter > 0
      /\ DOMAIN blocks' = DOMAIN blocks
      /\ \A q \in DOMAIN blocks : Pages(blocks'[q]) = Pages(blocks[q])
      /\ \A q \in DOMAIN blocks \ {p} : blocks'[q] = blocks[q]
      /\ Given(req)
  BY <1>1, <1>2, <1>3, <1>4, HeapCarved DEF HeapInv
<1>6. IdleTooSmall(blocks')
  BY <1>5 DEF HeapInv, IdleTooSmall
<1>7. PagesOwned(blocks', owned')
  BY <1>2, <1>5 DEF HeapInv, PagesOwned
<1> QED
  BY <1>2, <1>5, <1>6, <1>7 DEF HeapInv

LEMMA HeapCarveNew ==
    ASSUME NEW req \in Requests, HeapInv, CarveFromNewBlock(req)
    PROVE  HeapInv' /\ Given(req)
<1> DEFINE size == SplitSafe(req + PAGE_SIZE)
<1>0. /\ req \in Nat /\ req + PAGE_SIZE \in Nat /\ SplitSafe(req) \in Nat
      /\ size = SplitSafe(req) + PAGE_SIZE /\ size \in Nat \ {0} /\ Aligned(size)
  <2>1. req \in Nat /\ req + PAGE_SIZE \in Nat
    BY RequestsAssumption DEF PAGE_SIZE
  <2>2. SplitSafe(req) \in Nat /\ size = SplitSafe(req) + PAGE_SIZE /\ Aligned(size)
    BY <2>1, SplitSafeRounds, SplitSafePage
  <2> QED
    BY <2>1, <2>2 DEF PAGE_SIZE
<1>1. PICK page \in Frames :
         /\ Grant(page, InPages(size))
         /\ blockList' = Appended(blockList, page)
         /\ Room(NewBlock(size), SplitSafe(req)) => Carve(page, NewBlock(size), req)
  BY DEF CarveFromNewBlock
<1>2. UNCHANGED <<phase, freeList>>
  BY DEF CarveFromNewBlock
<1> HIDE DEF size
<1> DEFINE b == NewBlock(size)
<1> DEFINE bs == With(blocks, page, b)
<1>3. /\ BlockSound(page, b) /\ Pages(b) = InPages(size)
      /\ b.used = 0 /\ b.counter = 0
      /\ b.size = size - HeaderSize /\ InPages(size) \in Nat \ {0}
  BY <1>0, NewBlockSound
<1> HIDE DEF b
<1>4. Room(b, SplitSafe(req)) /\ Carve(page, b, req)
  <2>1. Room(b, SplitSafe(req))
    BY <1>0, <1>3, HeaderIs DEF Room, PAGE_SIZE
  <2> QED
    BY <1>1, <2>1 DEF b
<1>5. /\ page \notin DOMAIN blocks
      /\ \A q \in DOMAIN blocks : page + InPages(size) <= q \/ q + Pages(blocks[q]) <= page
  BY <1>1, <1>3, GrantApart DEF HeapInv
<1>6. /\ DOMAIN bs = DOMAIN blocks \cup {page} /\ bs[page] = b
      /\ \A q \in DOMAIN blocks : bs[q] = blocks[q]
  BY <1>5 DEF With
<1>7. Structure(bs, chunks)
  BY <1>3, <1>5, StructureBlockAdded DEF HeapInv
<1>8. Counted(bs, chunks, live)
  BY <1>3, <1>5, CountedBlockAdded DEF HeapInv, Lists
<1>9. blocks' = With(bs, page, [size |-> bs[page].size,
                                used |-> bs[page].used + SplitSafe(req) + HeaderSize,
                                counter |-> bs[page].counter + 1])
  BY <1>4, <1>6 DEF Carve, With
<1> HIDE DEF bs
<1>10. /\ Structure(blocks', chunks') /\ Lists(chunks', freeList', live')
       /\ Counted(blocks', chunks', live') /\ blocks'[page].counter > 0
       /\ DOMAIN blocks' = DOMAIN bs
       /\ \A q \in DOMAIN bs : Pages(blocks'[q]) = Pages(bs[q])
       /\ \A q \in DOMAIN bs \ {page} : blocks'[q] = bs[q]
       /\ Given(req)
  <2>1. page \in DOMAIN bs /\ Room(bs[page], SplitSafe(req)) /\ Carve(page, bs[page], req)
    BY <1>4, <1>6
  <2> QED
    BY <1>2, <1>7, <1>8, <1>9, <2>1, HeapCarved DEF HeapInv
<1>11. IdleTooSmall(blocks')
  BY <1>5, <1>6, <1>10 DEF HeapInv, IdleTooSmall
<1>12. PagesOwned(blocks', owned')
  BY <1>1, <1>3, <1>5, <1>6, <1>10, PagesGranted DEF HeapInv
<1>13. RowSound(blockList') /\ DOMAIN blockList' = DOMAIN blocks'
  <2>1. RowSound(blockList) /\ page \notin DOMAIN blockList
    BY <1>5 DEF HeapInv
  <2>2. RowSound(blockList') /\ DOMAIN blockList' = DOMAIN blockList \cup {page}
    BY <1>1, <2>1, RowAppended
  <2>3. DOMAIN blocks' = DOMAIN bs /\ DOMAIN blockList = DOMAIN blocks
    BY <1>10 DEF HeapInv
  <2> QED
    BY <1>6, <2>2, <2>3
<1> QED
  BY <1>2, <1>10, <1>11, <1>12, <1>13 DEF HeapInv

\* MmFreeGeneralMemory of the last chunk in use: the block goes.
LEMMA HeapFreeLast ==
    ASSUME HeapInv, NEW a \in DOMAIN live, live' = Without(live, {a}),
           blocks[chunks[a].block].counter - 1 <= 0, DeleteBlock(chunks[a].block),
           UNCHANGED phase
    PROVE  HeapInv' /\ Taken(a)
<1> DEFINE p == chunks[a].block
<1>1. p \in DOMAIN blocks /\ a \in DOMAIN chunks /\ DOMAIN live \subseteq DOMAIN chunks
  BY DEF HeapInv, Lists, Structure, ChunkPlaced
<1>2. \A b \in DOMAIN live : chunks[b].block = p => b = a
  BY <1>1, LastOne DEF HeapInv
<1> HIDE DEF p
<1>3. /\ freeList' = Removed(freeList, ChunksOf(p))
      /\ blocks' = Without(blocks, {p})
      /\ blockList' = Removed(blockList, {p})
      /\ chunks' = Without(chunks, ChunksOf(p))
      /\ owned' = owned \ BlockPages(p, blocks[p])
  BY DEF DeleteBlock, p
<1>4. Structure(blocks', chunks')
  BY <1>3, StructureBlockRemoved DEF HeapInv, ChunksOf
<1>5. /\ DOMAIN blocks' = DOMAIN blocks \ {p}
      /\ \A q \in DOMAIN blocks' : blocks'[q] = blocks[q]
  BY <1>3 DEF Without
<1>6. /\ DOMAIN chunks' = DOMAIN chunks \ ChunksOf(p)
      /\ \A b \in DOMAIN chunks' : chunks'[b] = chunks[b]
  BY <1>3 DEF Without
<1>7. DOMAIN live' = DOMAIN live \ {a} /\ \A b \in DOMAIN live' : live'[b] = live[b]
  BY DEF Without
<1>8. DOMAIN live' = DOMAIN live \ ChunksOf(p) /\ DOMAIN live' \subseteq DOMAIN chunks'
  BY <1>1, <1>2, <1>6, <1>7 DEF ChunksOf, p
<1>9. Lists(chunks', freeList', live')
  <2>1. RowSound(freeList') /\ DOMAIN freeList' = DOMAIN freeList \ ChunksOf(p)
    BY <1>3, RowRemoved DEF HeapInv, Lists
  <2> QED
    BY <1>6, <1>7, <1>8, <2>1 DEF HeapInv, Lists
<1>10. Counted(blocks', chunks', live')
  <2>1. IsFiniteSet(DOMAIN live')
    BY <1>7, FS_RemoveElement DEF HeapInv, Counted
  <2>2. \A q \in DOMAIN blocks' : Held(q, chunks', live') = Held(q, chunks, live)
    BY <1>5, <1>6, <1>7, <1>8 DEF Held, p
  <2> QED
    BY <1>5, <2>1, <2>2 DEF HeapInv, Counted
<1>11. IdleTooSmall(blocks')
  BY <1>5 DEF HeapInv, IdleTooSmall
<1>12. PagesOwned(blocks', owned')
  BY <1>1, <1>3, PagesReturned DEF HeapInv
<1>13. RowSound(blockList') /\ DOMAIN blockList' = DOMAIN blocks'
  <2>1. RowSound(blockList) /\ DOMAIN blockList = DOMAIN blocks
    BY DEF HeapInv
  <2>2. RowSound(blockList') /\ DOMAIN blockList' = DOMAIN blockList \ {p}
    BY <1>3, <2>1, RowRemoved
  <2> QED
    BY <1>5, <2>1, <2>2
<1>14. Taken(a)
  BY <1>6, <1>7, <1>8 DEF Taken
<1> QED
  BY <1>4, <1>9, <1>10, <1>11, <1>12, <1>13, <1>14 DEF HeapInv

\* MmFreeGeneralMemory of a chunk whose block has others in use.
LEMMA HeapFreeOne ==
    ASSUME HeapInv, NEW a \in DOMAIN live, NEW p, p = chunks[a].block
    PROVE  /\ live' = Without(live, {a})
           /\ blocks[p].counter - 1 > 0
           /\ blocks' = [blocks EXCEPT ![p].counter = @ - 1]
           /\ chunks' = [chunks EXCEPT ![a].isFree = TRUE]
           /\ freeList' = Appended(freeList, a)
           /\ UNCHANGED <<phase, blockList, owned>>
           => HeapInv' /\ Taken(a)
<1>0. SUFFICES ASSUME /\ live' = Without(live, {a})
                      /\ blocks[p].counter - 1 > 0
                      /\ blocks' = [blocks EXCEPT ![p].counter = @ - 1]
                      /\ chunks' = [chunks EXCEPT ![a].isFree = TRUE]
                      /\ freeList' = Appended(freeList, a)
                      /\ UNCHANGED <<phase, blockList, owned>>
               PROVE  HeapInv' /\ Taken(a)
  OBVIOUS
<1>1. /\ p \in DOMAIN blocks /\ a \in DOMAIN chunks /\ DOMAIN live \subseteq DOMAIN chunks
      /\ \A b \in DOMAIN chunks : chunks[b] \in ChunkRecord
      /\ \A q \in DOMAIN blocks : blocks[q] \in BlockRecord
  BY DEF HeapInv, Lists, Structure, ChunkPlaced, ChunkSound, BlockSound
<1>2. /\ DOMAIN chunks' = DOMAIN chunks
      /\ \A b \in DOMAIN chunks : /\ chunks'[b] \in ChunkRecord
                                  /\ chunks'[b].size = chunks[b].size
                                  /\ chunks'[b].block = chunks[b].block
      /\ chunks'[a].isFree = TRUE
      /\ \A b \in DOMAIN chunks \ {a} : chunks'[b] = chunks[b]
  <2>1. /\ DOMAIN chunks' = DOMAIN chunks
        /\ chunks'[a] = [chunks[a] EXCEPT !.isFree = TRUE]
        /\ \A b \in DOMAIN chunks \ {a} : chunks'[b] = chunks[b]
    BY <1>0, <1>1
  <2> QED
    BY <1>1, <2>1 DEF ChunkRecord
<1>3. /\ DOMAIN blocks' = DOMAIN blocks
      /\ \A q \in DOMAIN blocks : /\ blocks'[q] \in BlockRecord
                                  /\ blocks'[q].size = blocks[q].size
                                  /\ blocks'[q].used = blocks[q].used
      /\ blocks'[p].counter = blocks[p].counter - 1
      /\ \A q \in DOMAIN blocks \ {p} : blocks'[q] = blocks[q]
  <2>1. /\ DOMAIN blocks' = DOMAIN blocks
        /\ blocks'[p] = [blocks[p] EXCEPT !.counter = blocks[p].counter - 1]
        /\ \A q \in DOMAIN blocks \ {p} : blocks'[q] = blocks[q]
    BY <1>0, <1>1
  <2> QED
    BY <1>1, <2>1 DEF BlockRecord
<1>4. DOMAIN live' = DOMAIN live \ {a} /\ \A b \in DOMAIN live' : live'[b] = live[b]
  BY <1>0 DEF Without
<1>5. Structure(blocks', chunks')
  <2>1. Structure(blocks, chunks)
    BY DEF HeapInv
  <2> QED
    BY <1>2, <1>3, <2>1, StructureMarked
<1>6. Lists(chunks', freeList', live')
  <2>1. a \notin DOMAIN freeList /\ RowSound(freeList)
    BY DEF HeapInv, Lists
  <2>2. RowSound(freeList') /\ DOMAIN freeList' = DOMAIN freeList \cup {a}
    BY <1>0, <2>1, RowAppended
  <2>3. /\ DOMAIN freeList = {b \in DOMAIN chunks : chunks[b].isFree}
        /\ DOMAIN live = {b \in DOMAIN chunks : ~chunks[b].isFree}
        /\ \A b \in DOMAIN live : live[b] \in Requests /\ live[b] <= chunks[b].size
    BY DEF HeapInv, Lists
  <2>4. DOMAIN freeList' = {b \in DOMAIN chunks' : chunks'[b].isFree}
    BY <1>1, <1>2, <2>2, <2>3
  <2>5. DOMAIN live' = {b \in DOMAIN chunks' : ~chunks'[b].isFree}
    BY <1>1, <1>2, <1>4, <2>3
  <2>6. \A b \in DOMAIN live' : live'[b] \in Requests /\ live'[b] <= chunks'[b].size
    BY <1>1, <1>2, <1>4, <2>3
  <2> QED
    BY <2>2, <2>4, <2>5, <2>6 DEF Lists
<1>7. Counted(blocks', chunks', live')
  <2>1. \A b \in DOMAIN live : chunks'[b].block = chunks[b].block
    BY <1>1, <1>2
  <2> QED
    BY <1>1, <1>3, <1>4, <2>1, CountedDown DEF HeapInv
<1>8. IdleTooSmall(blocks')
  BY <1>0, <1>3 DEF HeapInv, IdleTooSmall
<1>9. PagesOwned(blocks', owned')
  BY <1>0, <1>3 DEF HeapInv, PagesOwned, Pages
<1>10. Taken(a)
  BY <1>0, <1>1, <1>2 DEF Taken
<1> QED
  BY <1>0, <1>3, <1>5, <1>6, <1>7, <1>8, <1>9, <1>10 DEF HeapInv

LEMMA HeapFree ==
    ASSUME NEW a, HeapInv, MmFreeGeneralMemory(a)
    PROVE  HeapInv' /\ Taken(a) /\ a \in DOMAIN live
<1>1. a \in DOMAIN live /\ live' = Without(live, {a}) /\ UNCHANGED phase
  BY DEF MmFreeGeneralMemory
<1>2. CASE blocks[chunks[a].block].counter - 1 <= 0 /\ DeleteBlock(chunks[a].block)
  BY <1>1, <1>2, HeapFreeLast
<1>3. CASE /\ blocks[chunks[a].block].counter - 1 > 0
           /\ blocks' = [blocks EXCEPT ![chunks[a].block].counter = @ - 1]
           /\ chunks' = [chunks EXCEPT ![a].isFree = TRUE]
           /\ freeList' = Appended(freeList, a)
           /\ UNCHANGED <<blockList, owned>>
  BY <1>1, <1>3, HeapFreeOne
<1> QED
  BY <1>1, <1>2, <1>3 DEF MmFreeGeneralMemory

LEMMA HeapNext == HeapInv /\ [Next]_vars => HeapInv'
<1> SUFFICES ASSUME HeapInv, [Next]_vars PROVE HeapInv'
  OBVIOUS
<1>1. CASE UNCHANGED vars
  BY <1>1 DEF HeapInv, vars
<1>2. ASSUME NEW req \in Requests, MmAllocateGeneralMemory(req) PROVE HeapInv'
  BY <1>1, <1>2, HeapReuse, HeapSplit, HeapCarve, HeapCarveNew
     DEF MmAllocateGeneralMemory, OutOfMemory
<1> QED
  BY <1>1, <1>2, HeapInitAllocator, HeapFree
     DEF Next, MmFreeGeneralMemoryRefused, PanicEnd

-----------------------------------------------------------------------------
(* What the invariant says *)

LEMMA ListsAreExact == HeapInv => FreeListExact
<1> SUFFICES ASSUME HeapInv PROVE FreeListExact
  OBVIOUS
<1>1. TypeOK
  <2>1. /\ DOMAIN blocks \subseteq Frames /\ \A p \in DOMAIN blocks : blocks[p] \in BlockRecord
    BY DEF HeapInv, Structure, BlockSound
  <2>2. /\ DOMAIN chunks \subseteq Nat
        /\ \A a \in DOMAIN chunks : chunks[a] \in ChunkRecord /\ chunks[a].block \in DOMAIN blocks
    BY DEF HeapInv, Structure, ChunkSound, ChunkPlaced
  <2> QED
    BY <2>1, <2>2 DEF HeapInv, TypeOK, RowSound, Lists, PagesOwned
<1> QED
  BY <1>1 DEF HeapInv, FreeListExact, Lists, RowSound

LEMMA TilingIsExact == HeapInv => ChunksTile
  BY DEF HeapInv, Structure, ChunksTile, ChunksApart, ChunkPlaced, Carved

LEMMA CountersAreExact == HeapInv => CountersExact
  BY DEF HeapInv, CountersExact, Counted, IdleTooSmall, Held

LEMMA PagesAreExact == HeapInv => PagesExact
<1> SUFFICES ASSUME HeapInv PROVE PagesExact
  OBVIOUS
<1>1. \A p \in DOMAIN blocks : /\ p \in Nat /\ Pages(blocks[p]) \in Nat \ {0}
                               /\ BlockPages(p, blocks[p]) = Run(p, Pages(blocks[p]))
  BY CarvedInPages DEF HeapInv, Structure, BlockPages, Pages
<1>2. \A p, q \in DOMAIN blocks :
          p # q => BlockPages(p, blocks[p]) \cap BlockPages(q, blocks[q]) = {}
  BY <1>1, RunsApart DEF HeapInv, Structure, BlocksApart
<1>3. owned = UNION {BlockPages(p, blocks[p]) : p \in DOMAIN blocks}
  BY <1>1 DEF HeapInv, PagesOwned
<1> QED
  BY <1>2, <1>3 DEF PagesExact

LEMMA CallersAreSafe == HeapInv => LiveIntact
<1> SUFFICES ASSUME HeapInv, NEW a \in DOMAIN live
             PROVE  /\ \A b \in DOMAIN live \ {a} : Apart(a, live[a], b, live[b])
                    /\ \A b \in DOMAIN chunks : Apart(a, live[a], b - HeaderSize, HeaderSize)
                    /\ \A p \in DOMAIN blocks : Apart(a, live[a], p * PAGE_SIZE, HeaderSize)
                    /\ (a \div PAGE_SIZE) .. ((a + live[a] - 1) \div PAGE_SIZE) \subseteq owned
  BY DEF LiveIntact
<1>1. \A b \in DOMAIN live : /\ b \in DOMAIN chunks /\ live[b] \in Nat
                             /\ live[b] <= chunks[b].size
  BY RequestsAssumption DEF HeapInv, Lists
<1>2. \A b \in DOMAIN chunks : b \in Nat /\ chunks[b].size \in Nat
  BY DEF HeapInv, Structure, ChunkSound, ChunkRecord
<1>3. \A b \in DOMAIN chunks \ {a} : b + chunks[b].size <= a - HeaderSize
                                     \/ a + chunks[a].size <= b - HeaderSize
  BY <1>1, <1>2, HeaderIs DEF HeapInv, Structure, ChunksApart, Apart
<1>4. \A b \in DOMAIN live \ {a} : Apart(a, live[a], b, live[b])
  BY <1>1, <1>2, <1>3, HeaderIs DEF Apart
<1>5. \A b \in DOMAIN chunks : Apart(a, live[a], b - HeaderSize, HeaderSize)
  BY <1>1, <1>2, <1>3, HeaderIs DEF Apart
<1> DEFINE r == chunks[a].block
<1> DEFINE n == Pages(blocks[r])
<1>6. /\ r \in DOMAIN blocks /\ r \in Nat /\ n \in Nat \ {0}
      /\ r * PAGE_SIZE + HeaderSize <= a - HeaderSize
      /\ a + chunks[a].size <= (r + n) * PAGE_SIZE
  BY <1>1, ChunkInPages DEF HeapInv
<1>7. ASSUME NEW p \in DOMAIN blocks PROVE Apart(a, live[a], p * PAGE_SIZE, HeaderSize)
  <2>1. p \in Nat /\ Pages(blocks[p]) \in Nat \ {0}
    BY CarvedInPages DEF HeapInv, Structure
  <2>2. p # r => r + n <= p \/ p + Pages(blocks[p]) <= r
    BY <1>6 DEF HeapInv, Structure, BlocksApart
  <2> HIDE DEF r, n
  <2> QED
    BY <1>1, <1>2, <1>6, <2>1, <2>2, HeaderIs DEF Apart, PAGE_SIZE
<1>8. (a \div PAGE_SIZE) .. ((a + live[a] - 1) \div PAGE_SIZE) \subseteq owned
  <2> SUFFICES ASSUME NEW f \in (a \div PAGE_SIZE) .. ((a + live[a] - 1) \div PAGE_SIZE)
               PROVE  f \in Run(r, n)
    BY <1>6 DEF HeapInv, PagesOwned
  <2> HIDE DEF r, n
  <2>1. a \in Nat /\ live[a] \in Nat /\ a + live[a] <= (r + n) * PAGE_SIZE
        /\ r * PAGE_SIZE <= a
    BY <1>1, <1>2, <1>6, HeaderIs DEF PAGE_SIZE
  <2>2. r <= a \div PAGE_SIZE
    BY <1>6, <2>1 DEF PAGE_SIZE
  <2>3. (a + live[a] - 1) \div PAGE_SIZE <= r + n - 1
    BY <1>6, <2>1 DEF PAGE_SIZE
  <2> QED
    BY <1>6, <2>1, <2>2, <2>3 DEF Run, PAGE_SIZE
<1> QED
  BY <1>4, <1>5, <1>7, <1>8

-----------------------------------------------------------------------------
(* The theorems *)

LEMMA HeapInvariant == Spec => []HeapInv
  BY HeapInit, HeapNext, PTL DEF Spec

\* What callers of MmAllocateGeneralMemory hold never overlaps what others hold nor a
\* header of the allocator, and lies in pages the heap has, whatever sizes are asked for
\* and in whatever order chunks are carved, reused, split and freed.
THEOREM CallersSafe == Spec => []LiveIntact
  BY HeapInvariant, CallersAreSafe, PTL

\* The chunks of each block tile what has been carved from it: a split leaves no gap.
THEOREM HeapTiled == Spec => []ChunksTile
  BY HeapInvariant, TilingIsExact, PTL

\* The free list holds exactly the free chunks, callers exactly the others, and no list
\* leads to a header that went back to the manager with its block.
THEOREM ListsExact == Spec => []FreeListExact
  BY HeapInvariant, ListsAreExact, PTL

\* A block's counter is the number of its chunks in use, so that MmFreeGeneralMemory gives
\* a block back exactly when its last chunk is freed.
THEOREM CountersCorrect == Spec => []CountersExact
  BY HeapInvariant, CountersAreExact, PTL

\* The pages computed from the block headers are those the manager granted: what goes back
\* is what was taken.
THEOREM PagesCorrect == Spec => []PagesExact
  BY HeapInvariant, PagesAreExact, PTL

-----------------------------------------------------------------------------
(* The refinement: the pieces that callers have *)

Pieces(cs, lv) == [a \in DOMAIN lv |-> [asked |-> lv[a], room |-> cs[a].size]]

\* The headers in front of the pieces know what callers hold.
LEMMA PiecesAre == HeapInv => PiecesOf = Pieces(chunks, live)
<1> SUFFICES ASSUME HeapInv PROVE PiecesOf = Pieces(chunks, live)
  OBVIOUS
<1>1. DOMAIN live = {b \in DOMAIN chunks : ~chunks[b].isFree}
  BY DEF HeapInv, Lists
<1> QED
  BY <1>1 DEF PiecesOf, Pieces

LEMMA PiecesParts ==
    ASSUME NEW cs, NEW lv
    PROVE  /\ DOMAIN Pieces(cs, lv) = DOMAIN lv
           /\ \A a \in DOMAIN lv : /\ Pieces(cs, lv)[a] = [asked |-> lv[a], room |-> cs[a].size]
                                   /\ Pieces(cs, lv)[a].room = cs[a].size
  BY DEF Pieces

PiecesApart(cs, lv) ==
    \A a \in DOMAIN lv :
        /\ a > 0 /\ lv[a] <= cs[a].size
        /\ \A b \in DOMAIN lv \ {a} : a + cs[a].size <= b \/ b + cs[b].size <= a

LEMMA PiecesLieApart == HeapInv => PiecesApart(chunks, live)
<1> SUFFICES ASSUME HeapInv, NEW a \in DOMAIN live
             PROVE  /\ a > 0 /\ live[a] <= chunks[a].size
                    /\ \A b \in DOMAIN live \ {a} :
                          a + chunks[a].size <= b \/ b + chunks[b].size <= a
  BY DEF PiecesApart
<1>1. \A b \in DOMAIN live : b \in DOMAIN chunks /\ live[b] <= chunks[b].size
  BY DEF HeapInv, Lists
<1>2. \A b \in DOMAIN chunks : b \in Nat /\ chunks[b].size \in Nat
  BY DEF HeapInv, Structure, ChunkSound, ChunkRecord
<1>3. a > 0
  <2>1. chunks[a].block \in Nat /\ chunks[a].block * PAGE_SIZE + HeaderSize <= a - HeaderSize
    BY <1>1, ChunkInPages DEF HeapInv
  <2> QED
    BY <1>1, <1>2, <2>1, HeaderIs DEF PAGE_SIZE
<1>4. \A b \in DOMAIN chunks \ {a} : b + chunks[b].size <= a - HeaderSize
                                     \/ a + chunks[a].size <= b - HeaderSize
  BY <1>1, <1>2, HeaderIs DEF HeapInv, Structure, ChunksApart, Apart
<1> QED
  BY <1>1, <1>2, <1>3, <1>4, HeaderIs

\* What a step does to the pieces.
LEMMA GivenIsAllocate ==
    ASSUME NEW req \in Requests, Given(req), PiecesOf = Pieces(chunks, live),
           PiecesOf' = Pieces(chunks', live'), PiecesApart(chunks', live')
    PROVE  Promise!Next
<1>1. PICK a : /\ a \notin DOMAIN live /\ live' = With(live, a, req)
               /\ \A b \in DOMAIN live : chunks'[b].size = chunks[b].size
  BY DEF Given
<1> DEFINE room == chunks'[a].size
<1>2. /\ DOMAIN live' = DOMAIN live \cup {a} /\ live'[a] = req
      /\ \A b \in DOMAIN live : live'[b] = live[b]
  BY <1>1 DEF With
<1>3. /\ a > 0 /\ req <= room
      /\ \A b \in DOMAIN live : a + room <= b \/ b + chunks[b].size <= a
  BY <1>1, <1>2 DEF PiecesApart
<1>p. /\ DOMAIN Pieces(chunks, live) = DOMAIN live
      /\ \A b \in DOMAIN live :
            /\ Pieces(chunks, live)[b] = [asked |-> live[b], room |-> chunks[b].size]
            /\ Pieces(chunks, live)[b].room = chunks[b].size
  BY ONLY PiecesParts
<1>4. /\ DOMAIN PiecesOf = DOMAIN live
      /\ \A b \in DOMAIN live : /\ PiecesOf[b] = [asked |-> live[b], room |-> chunks[b].size]
                                /\ PiecesOf[b].room = chunks[b].size
  BY <1>p
<1>5. \A b \in DOMAIN live' : [asked |-> live'[b], room |-> chunks'[b].size]
                              = IF b = a THEN [asked |-> req, room |-> room] ELSE PiecesOf[b]
  BY <1>1, <1>2, <1>4
<1>6. PiecesOf' = [b \in DOMAIN PiecesOf \cup {a} |->
                     IF b = a THEN [asked |-> req, room |-> room] ELSE PiecesOf[b]]
  BY <1>2, <1>4, <1>5 DEF Pieces
<1>7. a \in DOMAIN PiecesOf' /\ PiecesOf'[a].room = room
  BY <1>6
<1>8. Promise!Allocate(a, req, room)
  BY <1>1, <1>3, <1>4, <1>6 DEF Promise!Allocate
<1>9. Promise!Allocate(a, req, PiecesOf'[a].room)
  BY <1>7, <1>8
<1> QED
  BY <1>7, <1>9 DEF Promise!Next

LEMMA TakenIsFree ==
    ASSUME NEW a \in DOMAIN live, Taken(a), PiecesOf = Pieces(chunks, live),
           PiecesOf' = Pieces(chunks', live')
    PROVE  Promise!Next
<1>1. /\ DOMAIN live' = DOMAIN live \ {a}
      /\ \A b \in DOMAIN live \ {a} : live'[b] = live[b] /\ chunks'[b].size = chunks[b].size
  BY DEF Taken, Without
<1>2. PiecesOf' = [b \in DOMAIN PiecesOf \ {a} |-> PiecesOf[b]] /\ a \in DOMAIN PiecesOf
  BY <1>1 DEF Pieces
<1>3. Promise!Free(a)
  BY <1>2 DEF Promise!Free
<1> QED
  BY <1>2, <1>3 DEF Promise!Next

LEMMA PiecesNext ==
    ASSUME HeapInv, [Next]_vars,
           PiecesOf = Pieces(chunks, live), PiecesOf' = Pieces(chunks', live'),
           PiecesApart(chunks', live')
    PROVE  Promise!Next \/ PiecesOf' = PiecesOf
<1>1. CASE UNCHANGED vars
  BY <1>1 DEF vars
<1>2. ASSUME NEW req \in Requests, MmAllocateGeneralMemory(req)
      PROVE  Promise!Next \/ UNCHANGED vars
  <2>1. Given(req) \/ UNCHANGED vars
    BY <1>2, HeapReuse, HeapSplit, HeapCarve, HeapCarveNew
       DEF MmAllocateGeneralMemory, OutOfMemory
  <2> QED
    BY <2>1, GivenIsAllocate
<1>3. ASSUME NEW a, MmFreeGeneralMemory(a) PROVE Promise!Next
  BY <1>3, HeapFree, TakenIsFree
<1>4. CASE MmInitGeneralAllocator
  BY <1>4 DEF MmInitGeneralAllocator
<1> QED
  BY <1>1, <1>2, <1>3, <1>4 DEF Next, MmFreeGeneralMemoryRefused, PanicEnd

\* The general allocator hands out pieces as its callers expect: every call is a step of
\* PieceAllocator, or none, for all sizes of request and all pages it may be granted.
THEOREM HeapKeepsPieces == Spec => KeepsPieces
<1>1. Init => Promise!Init
  <2> SUFFICES ASSUME Init PROVE PiecesOf = <<>>
    BY DEF Promise!Init
  <2> QED
    BY DEF Init, PiecesOf
<1>2. HeapInv => PiecesOf = Pieces(chunks, live)
  BY PiecesAre
<1>3. HeapInv' => (PiecesOf = Pieces(chunks, live))'
  BY PiecesAre, PTL
<1>4. HeapInv' => PiecesApart(chunks, live)'
  BY PiecesLieApart, PTL
<1>5. HeapInv /\ HeapInv' /\ [Next]_vars => [Promise!Next]_PiecesOf
  <2> SUFFICES ASSUME HeapInv, HeapInv', [Next]_vars
               PROVE  Promise!Next \/ PiecesOf' = PiecesOf
    OBVIOUS
  <2>1. PiecesOf' = Pieces(chunks', live')
    BY <1>3 DEF Pieces
  <2>2. PiecesApart(chunks', live')
    BY <1>4 DEF PiecesApart
  <2> QED
    BY <1>2, <2>1, <2>2, PiecesNext
<1> QED
  BY <1>1, <1>5, HeapInvariant, PTL DEF Spec, KeepsPieces, Promise!Spec
=============================================================================
