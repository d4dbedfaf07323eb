-------------------------- MODULE PageTablesProofs --------------------------
(***************************************************************************)
(* What the kernel's page tables guarantee for tables of any size, every   *)
(* memory map, any amount of free memory and any pages of later calls.     *)
(***************************************************************************)
EXTENDS PageTables, FiniteSetTheorems, FunctionTheorems, WellFoundedInduction, TLAPS

-----------------------------------------------------------------------------
(* Addresses and their entries *)

LEMMA Divided ==
    ASSUME NEW a \in Nat, NEW b \in Nat, b > 0
    PROVE  a \div b \in Nat /\ (a % b) \in 0 .. (b - 1) /\ a = b * (a \div b) + (a % b)
  BY SMT

LEMMA QuotientUnique ==
    ASSUME NEW a \in Nat, NEW b \in Nat, b > 0, NEW q \in Nat, NEW r \in Nat, r < b, a = b * q + r
    PROVE  a \div b = q
  BY Divided, SMT

LEMMA DividedTwice ==
    ASSUME NEW a \in Nat, NEW b \in Nat, b > 0, NEW c \in Nat, c > 0
    PROVE  a \div (b * c) = (a \div b) \div c
<1> DEFINE q == a \div b
<1> DEFINE r == a % b
<1> DEFINE p == q \div c
<1> DEFINE s == q % c
<1>1. q \in Nat /\ r \in 0 .. (b - 1) /\ a = b * q + r
  BY Divided
<1>2. p \in Nat /\ s \in 0 .. (c - 1) /\ q = c * p + s
  BY <1>1, Divided
<1> HIDE DEF q, r, p, s
<1>3. b * c \in Nat /\ b * c > 0
  BY SMT
<1>4. a = (b * c) * p + (b * s + r)
  BY <1>1, <1>2, SMT
<1>5. b * s + r \in Nat /\ b * s + r < b * c
  BY <1>1, <1>2, SMT
<1>6. a \div (b * c) = p
  BY <1>2, <1>3, <1>4, <1>5, QuotientUnique
<1> QED
  BY <1>6 DEF q, p

LEMMA Powers ==
    /\ ENTRIES \in Nat /\ ENTRIES > 0
    /\ ENTRIES * ENTRIES \in Nat /\ ENTRIES * ENTRIES > 0
    /\ ENTRIES * ENTRIES * ENTRIES \in Nat /\ ENTRIES * ENTRIES * ENTRIES > 0
  BY EntriesAssumption, SMT

Idx == 0 .. (ENTRIES - 1)

LEMMA EntriesInTable ==
    ASSUME NEW v \in Nat
    PROVE  Pml4Entry(v) \in Idx /\ PdptEntry(v) \in Idx /\ PdEntry(v) \in Idx /\ PtEntry(v) \in Idx
  BY Powers, Divided DEF Pml4Entry, PdptEntry, PdEntry, PtEntry, Idx

\* The four entries together name the page.
LEMMA EntriesNamePage ==
    ASSUME NEW v \in Addresses, NEW w \in Addresses,
           Pml4Entry(v) = Pml4Entry(w), PdptEntry(v) = PdptEntry(w),
           PdEntry(v) = PdEntry(w), PtEntry(v) = PtEntry(w)
    PROVE  v = w
<1>0. Addresses = 0 .. (ENTRIES * ENTRIES * ENTRIES * ENTRIES - 1)
  BY DEF Addresses
<1>1. ASSUME NEW x \in Nat, NEW y \in Nat, x % ENTRIES = y % ENTRIES, x \div ENTRIES = y \div ENTRIES
      PROVE  x = y
  BY <1>1, Powers, Divided, SMT
<1> DEFINE A(x) == x \div ENTRIES
<1> DEFINE B(x) == x \div (ENTRIES * ENTRIES)
<1> DEFINE C(x) == x \div (ENTRIES * ENTRIES * ENTRIES)
<1>2. ASSUME NEW x \in Addresses
      PROVE  /\ x \in Nat /\ A(x) \in Nat /\ B(x) \in Nat /\ C(x) \in Idx
             /\ B(x) = A(x) \div ENTRIES /\ C(x) = B(x) \div ENTRIES
  <2>1. x \in Nat /\ A(x) \in Nat /\ B(x) \in Nat /\ C(x) \in Nat
    BY <1>0, Powers, Divided
  <2>2. B(x) = A(x) \div ENTRIES
    BY <2>1, Powers, DividedTwice
  <2>3. C(x) = B(x) \div ENTRIES
    BY <2>1, Powers, DividedTwice
  <2>4. C(x) < ENTRIES
    <3> DEFINE D == ENTRIES * ENTRIES * ENTRIES
    <3> DEFINE r == x % D
    <3>1. x = D * C(x) + r /\ r \in Nat
      BY <2>1, Powers, Divided
    <3>2. x < D * ENTRIES
      BY <1>0, Powers, SMT
    <3>3. D \in Nat /\ D > 0 /\ ENTRIES \in Nat
      BY Powers
    <3> HIDE DEF C, D, r
    <3> QED
      BY <2>1, <3>1, <3>2, <3>3, SMT
  <2> QED
    BY <2>1, <2>2, <2>3, <2>4, Powers DEF Idx
<1>3. C(v) = C(w)
  <2>1. ASSUME NEW c \in Idx PROVE c % ENTRIES = c
    <3>1. c \in Nat /\ c < ENTRIES /\ c = ENTRIES * 0 + c
      BY Powers DEF Idx
    <3>2. c \div ENTRIES = 0
      BY <3>1, Powers, QuotientUnique
    <3>3. c = ENTRIES * (c \div ENTRIES) + (c % ENTRIES) /\ c % ENTRIES \in Nat
      BY <3>1, Powers, Divided
    <3> QED
      BY <3>2, <3>3, Powers
  <2> QED
    BY <1>2, <2>1 DEF Pml4Entry
<1>4. B(v) = B(w)
  <2>1. /\ B(v) \div ENTRIES = B(w) \div ENTRIES /\ B(v) % ENTRIES = B(w) % ENTRIES
        /\ B(v) \in Nat /\ B(w) \in Nat
    BY <1>2, <1>3 DEF PdptEntry
  <2> HIDE DEF B
  <2> QED
    BY <1>1, <2>1
<1>5. A(v) = A(w)
  <2>1. /\ A(v) \div ENTRIES = A(w) \div ENTRIES /\ A(v) % ENTRIES = A(w) % ENTRIES
        /\ A(v) \in Nat /\ A(w) \in Nat
    BY <1>2, <1>4 DEF PdEntry
  <2> HIDE DEF A
  <2> QED
    BY <1>1, <2>1
<1> QED
  <2>1. /\ v \div ENTRIES = w \div ENTRIES /\ v % ENTRIES = w % ENTRIES
        /\ v \in Nat /\ w \in Nat
    BY <1>2, <1>5 DEF PtEntry
  <2> QED
    BY <1>1, <2>1

\* MmAllocateSinglePage returns a page that is free, if there is one.
LEMMA LowestIsFree ==
    ASSUME NEW S, S \subseteq Nat \ {0}, S # {} PROVE Lowest(S) \in S /\ Lowest(S) # NULL
<1> DEFINE R == {p \in Nat \X Nat : p[1] < p[2]}
<1>1. IsWellFoundedOn(R, Nat)
  <2>1. OpToRel(<, Nat) = R
    BY Zenon DEF OpToRel
  <2> QED
    BY <2>1, NatLessThanWellFounded, Zenon
<1>2. \A g, f \in Nat : g < f => <<g, f>> \in R
  OBVIOUS
<1> HIDE DEF R
<1>3. \E f \in S : \A g \in S : f <= g
  <2>1. PICK f \in S : \A g \in S : ~(<<g, f>> \in R)
    BY <1>1, WFMin
  <2>2. ASSUME NEW g \in S PROVE f <= g
    <3>1. f \in Nat /\ g \in Nat
      OBVIOUS
    <3>2. ~(g < f)
      BY <1>2, <2>1, <3>1, Zenon
    <3> QED
      BY <3>1, <3>2
  <2> QED
    BY <2>2
<1> QED
  BY <1>3 DEF Lowest, NULL

-----------------------------------------------------------------------------
(* The tree *)

Table == [Idx -> Nat \cup {None}]

\* Tables ts are a tree, table t being lvl[t] levels below the root.
Tree(ts, lvl) ==
    /\ IsFiniteSet(DOMAIN ts)
    /\ pml4 \in DOMAIN ts
    /\ lvl \in [DOMAIN ts -> 0 .. 3]
    /\ \A t \in DOMAIN ts : t \in Nat /\ ts[t] \in Table
    /\ \A t \in DOMAIN ts : lvl[t] = 0 <=> t = pml4
    /\ \A t \in DOMAIN ts : \A i \in Idx :
          lvl[t] < 3 /\ ts[t][i] # None => ts[t][i] \in DOMAIN ts /\ lvl[ts[t][i]] = lvl[t] + 1
    /\ \A t, u \in DOMAIN ts : \A i, j \in Idx :
          lvl[t] < 3 /\ lvl[u] < 3 /\ ts[t][i] = ts[u][j] /\ ts[t][i] # None => t = u /\ i = j
    /\ \A u \in DOMAIN ts \ {pml4} : \E t \in DOMAIN ts : \E i \in Idx :
          lvl[t] < 3 /\ ts[t][i] = u

LEMMA SetEntryEffect ==
    ASSUME NEW ts, NEW t \in DOMAIN ts, ts[t] \in Table, NEW i \in Idx, NEW x
    PROVE  /\ DOMAIN SetEntry(ts, t, i, x) = DOMAIN ts
           /\ DOMAIN SetEntry(ts, t, i, x)[t] = Idx
           /\ SetEntry(ts, t, i, x)[t][i] = x
           /\ \A j \in Idx \ {i} : SetEntry(ts, t, i, x)[t][j] = ts[t][j]
           /\ \A u \in DOMAIN ts \ {t} : SetEntry(ts, t, i, x)[u] = ts[u]
           /\ x \in Nat \cup {None} => SetEntry(ts, t, i, x)[t] \in Table
  BY DEF SetEntry, Table

\* A walk goes down a level at each step.
LEMMA WalkLevels ==
    ASSUME NEW ts, NEW lvl, Tree(ts, lvl), NEW v \in Nat
    PROVE  /\ PdptOf(ts, v) # None => PdptOf(ts, v) \in DOMAIN ts /\ lvl[PdptOf(ts, v)] = 1
           /\ PdOf(ts, v) # None => PdOf(ts, v) \in DOMAIN ts /\ lvl[PdOf(ts, v)] = 2
           /\ PtOf(ts, v) # None => PtOf(ts, v) \in DOMAIN ts /\ lvl[PtOf(ts, v)] = 3
           /\ Translation(ts, v) \in Nat \cup {None}
<1>0. /\ Pml4Entry(v) \in Idx /\ PdptEntry(v) \in Idx /\ PdEntry(v) \in Idx /\ PtEntry(v) \in Idx
  BY EntriesInTable
<1>1. pml4 # None /\ \A t \in DOMAIN ts : t # None
  BY DEF Tree, None
<1>2. PdptOf(ts, v) # None => PdptOf(ts, v) \in DOMAIN ts /\ lvl[PdptOf(ts, v)] = 1
  BY <1>0, <1>1 DEF Tree, PdptOf, Below
<1>3. PdOf(ts, v) # None => PdOf(ts, v) \in DOMAIN ts /\ lvl[PdOf(ts, v)] = 2
  BY <1>0, <1>1, <1>2 DEF Tree, PdOf, Below
<1>4. PtOf(ts, v) # None => PtOf(ts, v) \in DOMAIN ts /\ lvl[PtOf(ts, v)] = 3
  BY <1>0, <1>1, <1>3 DEF Tree, PtOf, Below
<1>5. Translation(ts, v) \in Nat \cup {None}
  BY <1>0, <1>1, <1>4 DEF Tree, Translation, Below, Table
<1> QED
  BY <1>2, <1>3, <1>4, <1>5

\* Pages with the same page table and the same entry in it are the same.
LEMMA OnePath ==
    ASSUME NEW ts, NEW lvl, Tree(ts, lvl), NEW v \in Addresses, NEW w \in Addresses,
           PtOf(ts, v) # None, PtOf(ts, v) = PtOf(ts, w), PtEntry(v) = PtEntry(w)
    PROVE  v = w
<1>0. v \in Nat /\ w \in Nat
  BY DEF Addresses
<1>1. /\ Pml4Entry(v) \in Idx /\ PdptEntry(v) \in Idx /\ PdEntry(v) \in Idx
      /\ Pml4Entry(w) \in Idx /\ PdptEntry(w) \in Idx /\ PdEntry(w) \in Idx
  BY <1>0, EntriesInTable
<1>2. PdOf(ts, v) # None /\ PdOf(ts, w) # None
  BY DEF PtOf, Below
<1>3. PdptOf(ts, v) # None /\ PdptOf(ts, w) # None
  BY <1>2 DEF PdOf, Below
<1>4. /\ PdOf(ts, v) \in DOMAIN ts /\ lvl[PdOf(ts, v)] = 2
      /\ PdOf(ts, w) \in DOMAIN ts /\ lvl[PdOf(ts, w)] = 2
      /\ PdptOf(ts, v) \in DOMAIN ts /\ lvl[PdptOf(ts, v)] = 1
      /\ PdptOf(ts, w) \in DOMAIN ts /\ lvl[PdptOf(ts, w)] = 1
  BY <1>0, <1>2, <1>3, WalkLevels
<1>5. PdOf(ts, v) = PdOf(ts, w) /\ PdEntry(v) = PdEntry(w)
  BY <1>1, <1>2, <1>4 DEF PtOf, Below, Tree
<1>6. PdptOf(ts, v) = PdptOf(ts, w) /\ PdptEntry(v) = PdptEntry(w)
  BY <1>1, <1>2, <1>3, <1>4, <1>5 DEF PdOf, Below, Tree
<1>7. Pml4Entry(v) = Pml4Entry(w)
  BY <1>1, <1>3, <1>6 DEF PdptOf, Below, Tree
<1> QED
  BY <1>5, <1>6, <1>7, EntriesNamePage

-----------------------------------------------------------------------------
(* Memory m, of tables and free pages *)

Sound(m, lvl) ==
    /\ Tree(m.tables, lvl)
    /\ m.free \cap DOMAIN m.tables = {}
    /\ m.free \cup (DOMAIN m.tables \ {NULL}) = boot.free
    /\ NULL \in DOMAIN m.tables => pml4 = NULL

\* From tables ts to us: no walk ends elsewhere.
Kept(ts, us) ==
    \A v \in Nat :
        /\ Translation(us, v) = Translation(ts, v)
        /\ PdptOf(ts, v) # None => PdptOf(us, v) = PdptOf(ts, v)
        /\ PdOf(ts, v) # None => PdOf(us, v) = PdOf(ts, v)
        /\ PtOf(ts, v) # None => PtOf(us, v) = PtOf(ts, v)

LEMMA KeptTransitive ==
    ASSUME NEW ts, NEW us, NEW xs, Kept(ts, us), Kept(us, xs) PROVE Kept(ts, xs)
  BY DEF Kept

\* An empty table f is hung into an entry that is not used.
LEMMA TableHung ==
    ASSUME NEW ts, NEW lvl, Tree(ts, lvl), NEW t \in DOMAIN ts, lvl[t] < 3, NEW i \in Idx,
           ts[t][i] = None, NEW f \in Nat, f \notin DOMAIN ts,
           NEW us, us = With(SetEntry(ts, t, i, f), f, EmptyTable)
    PROVE  /\ Tree(us, With(lvl, f, lvl[t] + 1))
           /\ DOMAIN us = DOMAIN ts \cup {f}
           /\ Kept(ts, us)
           /\ us[t][i] = f
<1>0. ts[t] \in Table
  BY DEF Tree
<1> DEFINE se == SetEntry(ts, t, i, f)
<1>1. /\ DOMAIN se = DOMAIN ts /\ se[t][i] = f /\ se[t] \in Table
      /\ \A j \in Idx \ {i} : se[t][j] = ts[t][j]
      /\ \A u \in DOMAIN ts \ {t} : se[u] = ts[u]
  BY <1>0, SetEntryEffect
<1>2. us = With(se, f, EmptyTable)
  OBVIOUS
<1> HIDE DEF se
<1>3. /\ DOMAIN us = DOMAIN ts \cup {f} /\ us[f] = EmptyTable
      /\ \A u \in DOMAIN ts : us[u] = se[u]
  BY <1>1, <1>2 DEF With
<1>4. /\ us[t][i] = f /\ us[t] \in Table
      /\ \A j \in Idx \ {i} : us[t][j] = ts[t][j]
      /\ \A u \in DOMAIN ts \ {t} : us[u] = ts[u]
      /\ us[f] \in Table /\ \A j \in Idx : us[f][j] = None
  BY <1>1, <1>3 DEF EmptyTable, Table, Idx
<1> HIDE DEF se
<1> DEFINE l2 == With(lvl, f, lvl[t] + 1)
<1>5. /\ DOMAIN l2 = DOMAIN us /\ l2[f] = lvl[t] + 1
      /\ \A u \in DOMAIN ts : l2[u] = lvl[u]
      /\ l2 = [u \in DOMAIN us |-> l2[u]]
  BY <1>3 DEF With, Tree
<1> HIDE DEF l2
<1>6. /\ lvl[t] \in 0 .. 2 /\ f # None /\ t # f
      /\ \A u \in DOMAIN ts : lvl[u] \in 0 .. 3 /\ u \in Nat /\ u # f
  BY DEF Tree, None
<1>7. Tree(us, l2)
  <2>1. IsFiniteSet(DOMAIN us)
    BY <1>3, FS_AddElement DEF Tree
  <2>2. pml4 \in DOMAIN us /\ l2 \in [DOMAIN us -> 0 .. 3]
    BY <1>3, <1>5, <1>6 DEF Tree
  <2>3. \A u \in DOMAIN us : u \in Nat /\ us[u] \in Table
    BY <1>3, <1>4, <1>6 DEF Tree
  <2>4. \A u \in DOMAIN us : l2[u] = 0 <=> u = pml4
    BY <1>3, <1>5, <1>6 DEF Tree
  <2>5. ASSUME NEW u \in DOMAIN us, NEW j \in Idx, l2[u] < 3, us[u][j] # None
        PROVE  us[u][j] \in DOMAIN us /\ l2[us[u][j]] = l2[u] + 1
    <3>1. u \in DOMAIN ts
      BY <1>3, <1>4, <2>5
    <3>2. CASE u = t /\ j = i
      BY <1>3, <1>4, <1>5, <3>2
    <3>3. CASE ~(u = t /\ j = i)
      <4>1. us[u][j] = ts[u][j]
        BY <1>4, <3>1, <3>3
      <4> QED
        BY <1>3, <1>5, <2>5, <3>1, <4>1 DEF Tree
    <3> QED
      BY <3>2, <3>3
  <2>6. ASSUME NEW u \in DOMAIN us, NEW w \in DOMAIN us, NEW j \in Idx, NEW k \in Idx,
               l2[u] < 3, l2[w] < 3, us[u][j] = us[w][k], us[u][j] # None
        PROVE  u = w /\ j = k
    <3>1. u \in DOMAIN ts /\ w \in DOMAIN ts /\ lvl[u] < 3 /\ lvl[w] < 3
      BY <1>3, <1>4, <1>5, <2>6
    <3>2. \A x \in DOMAIN ts, y \in Idx : lvl[x] < 3 => ts[x][y] # f
      BY <1>6 DEF Tree
    <3>3. CASE us[u][j] = f
      <4>1. u = t /\ j = i
        BY <1>4, <3>1, <3>2, <3>3
      <4>2. us[w][k] = f
        BY <2>6, <3>3
      <4>3. w = t /\ k = i
        BY <1>4, <3>1, <3>2, <4>2
      <4> QED
        BY <4>1, <4>3
    <3>4. CASE us[u][j] # f
      <4>1. us[u][j] = ts[u][j] /\ us[w][k] = ts[w][k]
        BY <1>4, <2>6, <3>1, <3>4
      <4>2. ts[u][j] = ts[w][k] /\ ts[u][j] # None
        BY <2>6, <4>1
      <4>3. \A x, y \in DOMAIN ts : \A p, q \in Idx :
               lvl[x] < 3 /\ lvl[y] < 3 /\ ts[x][p] = ts[y][q] /\ ts[x][p] # None => x = y /\ p = q
        BY DEF Tree
      <4> QED
        BY <3>1, <4>2, <4>3
    <3> QED
      BY <3>3, <3>4
  <2>7. ASSUME NEW u \in DOMAIN us \ {pml4}
        PROVE  \E x \in DOMAIN us : \E j \in Idx : l2[x] < 3 /\ us[x][j] = u
    <3>1. CASE u = f
      BY <1>3, <1>4, <1>5, <3>1
    <3>2. CASE u # f
      <4>1. PICK x \in DOMAIN ts : \E j \in Idx : lvl[x] < 3 /\ ts[x][j] = u
        BY <1>3, <3>2 DEF Tree
      <4>2. PICK j \in Idx : lvl[x] < 3 /\ ts[x][j] = u
        BY <4>1
      <4>3. u # None
        BY <1>3, <1>6, <3>2 DEF None
      <4>4. us[x][j] = u
        BY <1>4, <4>2, <4>3
      <4> QED
        BY <1>3, <1>5, <4>2, <4>4
    <3> QED
      BY <3>1, <3>2
  <2> QED
    BY <2>1, <2>2, <2>3, <2>4, <2>5, <2>6, <2>7 DEF Tree
<1>8. Kept(ts, us)
  <2> SUFFICES ASSUME NEW v \in Nat
               PROVE  /\ Translation(us, v) = Translation(ts, v)
                      /\ PdptOf(ts, v) # None => PdptOf(us, v) = PdptOf(ts, v)
                      /\ PdOf(ts, v) # None => PdOf(us, v) = PdOf(ts, v)
                      /\ PtOf(ts, v) # None => PtOf(us, v) = PtOf(ts, v)
    BY DEF Kept
  <2>0. Pml4Entry(v) \in Idx /\ PdptEntry(v) \in Idx /\ PdEntry(v) \in Idx /\ PtEntry(v) \in Idx
    BY EntriesInTable
  <2>1. ASSUME NEW u \in DOMAIN ts, NEW j \in Idx, ~(u = t /\ j = i)
        PROVE  Below(us, u, j) = Below(ts, u, j)
    BY <1>4, <1>6, <2>1 DEF Below
  <2>2. \A j \in Idx : Below(us, f, j) = None /\ Below(us, None, j) = None /\ Below(ts, None, j) = None
    BY <1>4 DEF Below
  <2>3. Below(us, t, i) = f /\ Below(ts, t, i) = None
    BY <1>4, <1>6 DEF Below, None
  <2>4. /\ PdptOf(ts, v) # None => PdptOf(ts, v) \in DOMAIN ts /\ lvl[PdptOf(ts, v)] = 1
        /\ PdOf(ts, v) # None => PdOf(ts, v) \in DOMAIN ts /\ lvl[PdOf(ts, v)] = 2
        /\ PtOf(ts, v) # None => PtOf(ts, v) \in DOMAIN ts /\ lvl[PtOf(ts, v)] = 3
        /\ pml4 \in DOMAIN ts
    BY WalkLevels DEF Tree
  <2>5. \/ PdptOf(us, v) = PdptOf(ts, v)
        \/ PdptOf(us, v) = f /\ PdptOf(ts, v) = None
    BY <2>0, <2>1, <2>3, <2>4 DEF PdptOf
  <2>6. \/ PdOf(us, v) = PdOf(ts, v)
        \/ PdOf(us, v) = f /\ PdOf(ts, v) = None
    BY <2>0, <2>1, <2>2, <2>3, <2>4, <2>5 DEF PdOf
  <2>7. \/ PtOf(us, v) = PtOf(ts, v)
        \/ PtOf(us, v) = f /\ PtOf(ts, v) = None
    BY <2>0, <2>1, <2>2, <2>3, <2>4, <2>6 DEF PtOf
  <2>8. Translation(us, v) = Translation(ts, v)
    BY <2>0, <2>1, <2>2, <2>4, <2>7 DEF Translation
  <2> QED
    BY <2>5, <2>6, <2>7, <2>8
<1> QED
  BY <1>3, <1>4, <1>7, <1>8 DEF l2

\* One level of MmMapPage at table t: the tables stay a tree, no walk is lost.
LEMMA DescendKeeps ==
    ASSUME boot \in Boots, NEW m, NEW lvl, Sound(m, lvl), NEW t,
           t # None => t \in DOMAIN m.tables /\ lvl[t] < 3, NEW i \in Idx,
           NEW n, n = Descend(m, t, i)
    PROVE  (\E l : Sound(n, l)) /\ Kept(m.tables, n.tables)
<1>1. CASE n = m
  BY <1>1 DEF Kept
<1>2. CASE n # m
  <2>1. /\ t # None /\ Below(m.tables, t, i) = None /\ n = GetNextLevel(m, t, i)
    BY <1>2 DEF Descend
  <2>2. t \in DOMAIN m.tables /\ lvl[t] < 3 /\ m.tables[t][i] = None
    BY <2>1 DEF Below
  <2> DEFINE f == Lowest(m.free)
  <2>3. f # NULL
    BY <1>2, <2>1 DEF GetNextLevel
  <2>4. m.free \subseteq Nat \ {0}
    BY BootsAssumption DEF Sound, BootData
  <2>5. f \in m.free
    BY <2>3, <2>4, LowestIsFree DEF Lowest
  <2>6. f \in Nat /\ f \notin DOMAIN m.tables
    BY <2>4, <2>5 DEF Sound
  <2> DEFINE us == With(SetEntry(m.tables, t, i, f), f, EmptyTable)
  <2>7. n = [free |-> m.free \ {f}, tables |-> us]
    BY <2>1, <2>3 DEF GetNextLevel
  <2>8. us = With(SetEntry(m.tables, t, i, f), f, EmptyTable) /\ Tree(m.tables, lvl)
    BY DEF Sound
  <2>9. n.free = m.free \ {f} /\ n.tables = us
    BY <2>7
  <2> HIDE DEF f, us
  <2>10. /\ Tree(us, With(lvl, f, lvl[t] + 1)) /\ DOMAIN us = DOMAIN m.tables \cup {f}
         /\ Kept(m.tables, us)
    BY <2>2, <2>6, <2>8, TableHung
  <2>11. Sound(n, With(lvl, f, lvl[t] + 1))
    BY <2>3, <2>5, <2>6, <2>9, <2>10 DEF Sound
  <2> QED
    BY <2>9, <2>10, <2>11
<1> QED
  BY <1>1, <1>2

\* An entry of a page table is set: only the walk that ends there does so elsewhere.
LEMMA LeafSet ==
    ASSUME NEW m, NEW lvl, Sound(m, lvl), NEW v \in Nat, PtOf(m.tables, v) # None,
           NEW x \in Nat \cup {None}, NEW us, us = SetEntry(m.tables, PtOf(m.tables, v), PtEntry(v), x),
           NEW n, n.free = m.free, n.tables = us
    PROVE  /\ Sound(n, lvl)
           /\ Translation(us, v) = x
           /\ PtOf(us, v) # None
           /\ DOMAIN us = DOMAIN m.tables
           /\ v \in Addresses => \A w \in Addresses \ {v} :
                                    Translation(us, w) = Translation(m.tables, w)
<1> DEFINE ts == m.tables
<1> DEFINE pt == PtOf(m.tables, v)
<1> DEFINE i == PtEntry(v)
<1>0. Tree(ts, lvl)
  BY DEF Sound
<1>1. pt \in DOMAIN ts /\ lvl[pt] = 3 /\ i \in Idx /\ ts[pt] \in Table
  <2>1. pt \in DOMAIN ts /\ lvl[pt] = 3
    BY <1>0, WalkLevels
  <2>2. i \in Idx
    BY EntriesInTable
  <2> QED
    BY <1>0, <2>1, <2>2 DEF Tree
<1>2. us = SetEntry(ts, pt, i, x)
  OBVIOUS
<1>3. pt # None /\ pt = PtOf(ts, v) /\ i = PtEntry(v) /\ ts = m.tables
  OBVIOUS
<1> HIDE DEF ts, pt, i
<1>4. /\ DOMAIN us = DOMAIN ts /\ us[pt][i] = x /\ us[pt] \in Table
      /\ \A j \in Idx \ {i} : us[pt][j] = ts[pt][j]
      /\ \A u \in DOMAIN ts \ {pt} : us[u] = ts[u]
  BY <1>1, <1>2, SetEntryEffect
<1>5. \A u \in DOMAIN ts : lvl[u] < 3 => us[u] = ts[u]
  BY <1>1, <1>4
<1>6. Tree(us, lvl)
  <2>1. \A u \in DOMAIN us : u \in Nat /\ us[u] \in Table
    BY <1>0, <1>4 DEF Tree
  <2>2. \A u \in DOMAIN us : \A j \in Idx :
          lvl[u] < 3 /\ us[u][j] # None => us[u][j] \in DOMAIN us /\ lvl[us[u][j]] = lvl[u] + 1
    BY <1>0, <1>4, <1>5 DEF Tree
  <2>3. \A u, w \in DOMAIN us : \A j, k \in Idx :
          lvl[u] < 3 /\ lvl[w] < 3 /\ us[u][j] = us[w][k] /\ us[u][j] # None => u = w /\ j = k
    <3>1. \A u, w \in DOMAIN ts : \A j, k \in Idx :
            lvl[u] < 3 /\ lvl[w] < 3 /\ ts[u][j] = ts[w][k] /\ ts[u][j] # None => u = w /\ j = k
      BY <1>0 DEF Tree
    <3> QED
      BY <1>4, <1>5, <3>1
  <2>4. \A u \in DOMAIN us \ {pml4} : \E t \in DOMAIN us : \E j \in Idx :
          lvl[t] < 3 /\ us[t][j] = u
    BY <1>0, <1>4, <1>5 DEF Tree
  <2> QED
    BY <1>0, <1>4, <2>1, <2>2, <2>3, <2>4 DEF Tree
<1>7. Sound(n, lvl)
  BY <1>3, <1>4, <1>6 DEF Sound
<1>8. ASSUME NEW w \in Nat
      PROVE  PdptOf(us, w) = PdptOf(ts, w) /\ PdOf(us, w) = PdOf(ts, w) /\ PtOf(us, w) = PtOf(ts, w)
  <2>1. /\ PdptOf(ts, w) # None => PdptOf(ts, w) \in DOMAIN ts /\ lvl[PdptOf(ts, w)] = 1
        /\ PdOf(ts, w) # None => PdOf(ts, w) \in DOMAIN ts /\ lvl[PdOf(ts, w)] = 2
    BY <1>0, WalkLevels
  <2>2. pml4 \in DOMAIN ts /\ lvl[pml4] = 0
    BY <1>0 DEF Tree
  <2>3. \A u \in DOMAIN ts \cup {None} : \A j : lvl[u] < 3 \/ u = None => Below(us, u, j) = Below(ts, u, j)
    BY <1>5 DEF Below
  <2>4. PdptOf(us, w) = PdptOf(ts, w)
    BY <2>2, <2>3 DEF PdptOf
  <2>5. PdOf(us, w) = PdOf(ts, w)
    BY <2>1, <2>3, <2>4 DEF PdOf
  <2>6. PtOf(us, w) = PtOf(ts, w)
    BY <2>1, <2>3, <2>5 DEF PtOf
  <2> QED
    BY <2>4, <2>5, <2>6
<1>9. Translation(us, v) = x /\ PtOf(us, v) # None
  <2>1. PtOf(us, v) = pt
    BY <1>3, <1>8
  <2> QED
    BY <1>3, <1>4, <2>1 DEF Translation, Below
<1>10. ASSUME v \in Addresses, NEW w \in Addresses \ {v}
       PROVE  Translation(us, w) = Translation(ts, w)
  <2>1. w \in Nat
    BY DEF Addresses
  <2>2. PtOf(us, w) = PtOf(ts, w) /\ PtEntry(w) \in Idx
    BY <1>8, <2>1, EntriesInTable
  <2>3. PtOf(ts, w) # None => PtOf(ts, w) \in DOMAIN ts
    BY <1>0, <2>1, WalkLevels
  <2>4. ~(PtOf(ts, w) = pt /\ PtEntry(w) = i)
    BY <1>0, <1>3, <1>10, OnePath
  <2> QED
    BY <1>4, <2>2, <2>3, <2>4 DEF Translation, Below
<1> QED
  BY <1>3, <1>4, <1>7, <1>9, <1>10

\* MmMapPage: the tables stay a tree, other pages keep their translation; the page has
\* the new one, or memory has run out.
LEMMA MapPageSound ==
    ASSUME boot \in Boots, NEW m, NEW lvl, Sound(m, lvl), NEW phys \in Nat, NEW v \in Nat,
           NEW n, n = MapPage(m, phys, v)
    PROVE  /\ \E l : Sound(n, l)
           /\ IsMapped(n, v) => Translation(n.tables, v) = phys
           /\ ~IsMapped(n, v) => Translation(n.tables, v) = Translation(m.tables, v)
           /\ v \in Addresses => \A w \in Addresses \ {v} :
                                    Translation(n.tables, w) = Translation(m.tables, w)
<1> DEFINE m4 == Descend(m, pml4, Pml4Entry(v))
<1> DEFINE m3 == Descend(m4, PdptOf(m4.tables, v), PdptEntry(v))
<1> DEFINE m2 == Descend(m3, PdOf(m3.tables, v), PdEntry(v))
<1> DEFINE pt == PtOf(m2.tables, v)
<1>0. Pml4Entry(v) \in Idx /\ PdptEntry(v) \in Idx /\ PdEntry(v) \in Idx /\ PtEntry(v) \in Idx
  BY EntriesInTable
<1>1. /\ pt = None => n = m2
      /\ pt # None => n = [free |-> m2.free, tables |-> SetEntry(m2.tables, pt, PtEntry(v), phys)]
      /\ pt = PtOf(m2.tables, v)
  BY DEF MapPage
<1>2. /\ m4 = Descend(m, pml4, Pml4Entry(v))
      /\ m3 = Descend(m4, PdptOf(m4.tables, v), PdptEntry(v))
      /\ m2 = Descend(m3, PdOf(m3.tables, v), PdEntry(v))
  OBVIOUS
<1> HIDE DEF m4, m3, m2, pt
<1>3. (\E l : Sound(m4, l)) /\ Kept(m.tables, m4.tables)
  <2>1. pml4 \in DOMAIN m.tables /\ lvl[pml4] < 3
    BY DEF Sound, Tree
  <2> QED
    BY <1>0, <1>2, <2>1, DescendKeeps
<1>4. PICK l4 : Sound(m4, l4)
  BY <1>3
<1>5. (\E l : Sound(m3, l)) /\ Kept(m4.tables, m3.tables)
  <2>1. PdptOf(m4.tables, v) # None =>
            PdptOf(m4.tables, v) \in DOMAIN m4.tables /\ l4[PdptOf(m4.tables, v)] = 1
    BY <1>4, WalkLevels DEF Sound
  <2> DEFINE t == PdptOf(m4.tables, v)
  <2>2. t # None => t \in DOMAIN m4.tables /\ l4[t] < 3
    BY <2>1
  <2>3. m3 = Descend(m4, t, PdptEntry(v))
    BY <1>2
  <2> HIDE DEF t
  <2> QED
    BY <1>0, <1>4, <2>2, <2>3, DescendKeeps
<1>6. PICK l3 : Sound(m3, l3)
  BY <1>5
<1>7. (\E l : Sound(m2, l)) /\ Kept(m3.tables, m2.tables)
  <2>1. PdOf(m3.tables, v) # None =>
            PdOf(m3.tables, v) \in DOMAIN m3.tables /\ l3[PdOf(m3.tables, v)] = 2
    BY <1>6, WalkLevels DEF Sound
  <2> DEFINE t == PdOf(m3.tables, v)
  <2>2. t # None => t \in DOMAIN m3.tables /\ l3[t] < 3
    BY <2>1
  <2>3. m2 = Descend(m3, t, PdEntry(v))
    BY <1>2
  <2> HIDE DEF t
  <2> QED
    BY <1>0, <1>6, <2>2, <2>3, DescendKeeps
<1>8. PICK l2 : Sound(m2, l2)
  BY <1>7
<1>9. \A w \in Nat : Translation(m2.tables, w) = Translation(m.tables, w)
  BY <1>3, <1>5, <1>7 DEF Kept
<1>10. Addresses \subseteq Nat
  BY DEF Addresses
<1>11. CASE pt = None
  BY <1>1, <1>8, <1>9, <1>10, <1>11 DEF IsMapped
<1>12. CASE pt # None
  <2> DEFINE us == SetEntry(m2.tables, pt, PtEntry(v), phys)
  <2>1. n.free = m2.free /\ n.tables = us
    BY <1>1, <1>12
  <2>2. us = SetEntry(m2.tables, PtOf(m2.tables, v), PtEntry(v), phys) /\ PtOf(m2.tables, v) # None
    BY <1>1, <1>12
  <2> HIDE DEF us
  <2>3. /\ Sound(n, l2) /\ Translation(us, v) = phys /\ PtOf(us, v) # None
        /\ v \in Addresses => \A w \in Addresses \ {v} :
                                  Translation(us, w) = Translation(m2.tables, w)
    BY <1>8, <2>1, <2>2, LeafSet
  <2> QED
    BY <1>9, <1>10, <2>1, <2>3 DEF IsMapped
<1> QED
  BY <1>11, <1>12

-----------------------------------------------------------------------------
(* The inductive invariant *)

Basic ==
    /\ phase \in {"init", "kernel", "memMap", "framebuffer", "lapic", "ready", "panic"}
    /\ boot \in Boots
    /\ entry \in 1 .. (Len(boot.memMap) + 1) /\ page \in Nat
    /\ phase = "init" => tables = <<>> /\ free = boot.free /\ pml4 = NULL
    /\ phase # "init" /\ pml4 = NULL => boot.free = {}
    /\ cr3 = IF phase = "ready" THEN pml4 ELSE None
    /\ phase # "ready" => DOMAIN tlb = {}
    /\ DOMAIN tlb \subseteq ClientPages /\ \A v \in DOMAIN tlb : tlb[v] \in Nat

MemorySound == phase # "init" => \E lvl : Sound(Memory, lvl)

TableInv == Basic /\ MemorySound /\ CacheCoherent

LEMMA BootTypes ==
    ASSUME boot \in Boots
    PROVE  /\ boot.kernelPhys \in Nat /\ boot.kernelVirt \in Nat /\ boot.kernelSizeInPages \in Nat
           /\ boot.memMap \in Seq(Stretch) /\ Len(boot.memMap) \in Nat
           /\ DOMAIN boot.memMap = 1 .. Len(boot.memMap)
           /\ \A k \in DOMAIN boot.memMap :
                 boot.memMap[k].base \in Nat /\ boot.memMap[k].size \in Nat
           /\ boot.framebuffer.base \in Nat /\ boot.framebuffer.size \in Nat
           /\ boot.lapicBase \in Nat
           /\ boot.free \subseteq Nat \ {0}
<1>1. boot \in BootData
  BY BootsAssumption
<1>2. /\ boot.memMap \in Seq(Stretch) /\ Len(boot.memMap) \in Nat
      /\ DOMAIN boot.memMap = 1 .. Len(boot.memMap)
      /\ \A k \in DOMAIN boot.memMap : boot.memMap[k] \in Stretch
  BY <1>1 DEF BootData
<1> QED
  BY <1>1, <1>2 DEF BootData, Stretch

LEMMA InitInv == Init => TableInv
  BY EntriesAssumption, BootTypes DEF Init, TableInv, Basic, MemorySound, CacheCoherent, None

\* The root is created: a tree of one table.
LEMMA CreateInv ==
    ASSUME TableInv, CreatePml4 PROVE TableInv'
<1>0. PICK f : f = Lowest(free)
  OBVIOUS
<1>1. /\ phase = "init" /\ pml4' = f /\ free' = free \ {f} /\ tables' = With(tables, f, EmptyTable)
      /\ phase' = "kernel" /\ UNCHANGED <<boot, entry, page, cr3, tlb>>
  BY <1>0 DEF CreatePml4
<1>2. tables = <<>> /\ free = boot.free /\ free \subseteq Nat \ {0}
  BY <1>1, BootTypes DEF TableInv, Basic
<1>3. f \in Nat /\ (f = NULL => free = {}) /\ (f # NULL => f \in free)
  BY <1>0, <1>2, LowestIsFree DEF Lowest, NULL
<1>4. DOMAIN (tables') = {f} /\ tables'[f] = EmptyTable
  BY <1>1, <1>2 DEF With
<1> DEFINE lvl == [t \in {f} |-> 0]
<1>5. EmptyTable \in Table /\ \A i \in Idx : EmptyTable[i] = None
  BY DEF EmptyTable, Table, Idx
<1>6. Tree(tables, lvl)'
  <2>1. IsFiniteSet(DOMAIN tables')
    BY <1>4, FS_Singleton
  <2>2. /\ lvl \in [{f} -> 0 .. 3] /\ lvl[f] = 0
    OBVIOUS
  <2> DEFINE ts == tables'
  <2> DEFINE root == pml4'
  <2>3. DOMAIN ts = {f} /\ root = f /\ ts[f] \in Table /\ \A i \in Idx : ts[f][i] = None
    BY <1>1, <1>4, <1>5
  <2> HIDE DEF lvl, ts, root
  <2>4. /\ root \in DOMAIN ts
        /\ \A t \in DOMAIN ts : t \in Nat /\ ts[t] \in Table
        /\ \A t \in DOMAIN ts : lvl[t] = 0 <=> t = root
        /\ \A t \in DOMAIN ts : \A i \in Idx : ts[t][i] = None
        /\ DOMAIN ts \ {root} = {}
    BY <1>3, <2>2, <2>3
  <2> QED
    BY <2>1, <2>2, <2>3, <2>4 DEF Tree, ts, root
<1>7. Sound(Memory, lvl)'
  BY <1>1, <1>2, <1>3, <1>4, <1>6 DEF Sound, Memory
<1>8. MemorySound'
  BY <1>7 DEF MemorySound
<1>9. Basic'
  BY <1>1, <1>2, <1>3 DEF TableInv, Basic
<1>10. CacheCoherent'
  BY <1>1 DEF TableInv, Basic, CacheCoherent
<1> QED
  BY <1>8, <1>9, <1>10 DEF TableInv

\* A step that stores what MmMapPage makes of memory.
LEMMA MapStep ==
    ASSUME TableInv, phase # "init", NEW phys \in Nat, NEW v \in Nat,
           NEW n, n = MapPage(Memory, phys, v), Store(n), UNCHANGED <<boot, pml4>>
    PROVE  /\ MemorySound'
           /\ IsMapped(n, v) => Translation(tables, v)' = phys
           /\ ~IsMapped(n, v) => Translation(tables, v)' = Translation(tables, v)
           /\ v \in Addresses => \A w \in Addresses \ {v} :
                                    Translation(tables', w) = Translation(tables, w)
           /\ \A w : Translation(tables, w)' = Translation(tables', w)
<1>1. PICK lvl : Sound(Memory, lvl)
  BY DEF TableInv, MemorySound
<1>2. Memory.tables = tables /\ n.tables = tables' /\ n.free = free' /\ boot \in Boots
  BY DEF Memory, Store, TableInv, Basic
<1>3. /\ \E l : Sound(n, l)
      /\ IsMapped(n, v) => Translation(n.tables, v) = phys
      /\ ~IsMapped(n, v) => Translation(n.tables, v) = Translation(Memory.tables, v)
      /\ v \in Addresses => \A w \in Addresses \ {v} :
                               Translation(n.tables, w) = Translation(Memory.tables, w)
  BY <1>1, <1>2, MapPageSound
<1>4. PICK l : Sound(n, l)
  BY <1>3
<1>5. Sound(Memory, l)'
  BY <1>2, <1>4 DEF Sound, Tree, Memory
<1>6. MemorySound'
  BY <1>5 DEF MemorySound
<1>7. \A w : Translation(tables, w)' = Translation(tables', w)
  BY DEF Translation, PtOf, PdOf, PdptOf
<1> QED
  BY <1>2, <1>3, <1>6, <1>7

\* The set-up maps nothing that the CPU has cached.
LEMMA SetUpInv ==
    ASSUME TableInv, phase \in {"kernel", "memMap", "framebuffer", "lapic"},
           NEW phys \in Nat, NEW v \in Nat,
           MapOrPanic(phys, v) \/ MapAnyway(phys, v)
    PROVE  TableInv'
<1> DEFINE n == MapPage(Memory, phys, v)
<1>1. /\ Store(n) /\ UNCHANGED <<boot, entry, pml4, cr3, tlb>>
      /\ phase' = phase \/ phase' = "panic"
      /\ page' = page \/ page' = page + 1
  BY DEF MapOrPanic, MapAnyway
<1> HIDE DEF n
<1>2. MemorySound'
  BY <1>1, MapStep DEF n
<1>3. Basic'
  BY <1>1 DEF TableInv, Basic
<1>4. CacheCoherent'
  BY <1>1 DEF TableInv, Basic, CacheCoherent
<1> QED
  BY <1>2, <1>3, <1>4 DEF TableInv

LEMMA EnterInv ==
    ASSUME TableInv, NEW loop \in {"memMap", "framebuffer", "lapic"}, Enter(loop),
           phase \in {"kernel", "memMap", "framebuffer"}
    PROVE  TableInv'
<1>1. Basic'
  BY DEF TableInv, Basic, Enter
<1>2. MemorySound'
  BY DEF TableInv, MemorySound, Enter, Sound, Tree, Memory
<1>3. CacheCoherent'
  BY DEF TableInv, Basic, CacheCoherent, Enter
<1> QED
  BY <1>1, <1>2, <1>3 DEF TableInv

LEMMA LoopsInv ==
    ASSUME TableInv, KernelLoop \/ MemMapLoop \/ MemMapDone \/ FramebufferLoop \/ LapicLoop
    PROVE  TableInv'
<1>0. boot \in Boots /\ page \in Nat /\ entry \in 1 .. (Len(boot.memMap) + 1)
  BY DEF TableInv, Basic
<1>1. CASE KernelLoop
  <2>1. CASE page < boot.kernelSizeInPages
    BY <1>0, <1>1, <2>1, BootTypes, SetUpInv DEF KernelLoop
  <2>2. CASE ~(page < boot.kernelSizeInPages)
    BY <1>1, <2>2, EnterInv DEF KernelLoop
  <2> QED
    BY <2>1, <2>2
<1>2. CASE MemMapLoop
  <2>0. entry \in DOMAIN boot.memMap /\ phase = "memMap"
    BY <1>0, <1>2, BootTypes DEF MemMapLoop
  <2>1. CASE page < boot.memMap[entry].size
    <3>1. boot.memMap[entry].base + page \in Nat
      BY <1>0, <2>0, BootTypes
    <3>2. MapOrPanic(boot.memMap[entry].base + page, boot.memMap[entry].base + page)
      BY <1>2, <2>1 DEF MemMapLoop
    <3> QED
      BY <2>0, <3>1, <3>2, SetUpInv
  <2>2. CASE ~(page < boot.memMap[entry].size)
    <3>1. /\ entry' = entry + 1 /\ page' = 0
          /\ UNCHANGED <<phase, boot, free, pml4, tables, cr3, tlb>>
      BY <1>2, <2>2 DEF MemMapLoop
    <3>2. entry' \in 1 .. (Len(boot.memMap) + 1)
      BY <1>0, <2>0, <3>1, BootTypes
    <3>3. Basic'
      BY <2>0, <3>1, <3>2 DEF TableInv, Basic
    <3>4. MemorySound'
      BY <3>1 DEF TableInv, MemorySound, Sound, Tree, Memory
    <3>5. CacheCoherent'
      BY <2>0, <3>1 DEF TableInv, Basic, CacheCoherent
    <3> QED
      BY <3>3, <3>4, <3>5 DEF TableInv
  <2> QED
    BY <2>1, <2>2
<1>3. CASE MemMapDone
  BY <1>3, EnterInv DEF MemMapDone
<1>4. CASE FramebufferLoop
  <2>1. CASE page < boot.framebuffer.size
    BY <1>0, <1>4, <2>1, BootTypes, SetUpInv DEF FramebufferLoop
  <2>2. CASE ~(page < boot.framebuffer.size)
    BY <1>4, <2>2, EnterInv DEF FramebufferLoop
  <2> QED
    BY <2>1, <2>2
<1>5. CASE LapicLoop
  BY <1>0, <1>5, BootTypes, SetUpInv DEF LapicLoop
<1> QED
  BY <1>1, <1>2, <1>3, <1>4, <1>5

LEMMA UpdateCr3Inv ==
    ASSUME TableInv, MmUpdateCr3 PROVE TableInv'
<1>1. Basic'
  BY DEF TableInv, Basic, MmUpdateCr3
<1>2. MemorySound'
  BY DEF TableInv, MemorySound, MmUpdateCr3, Sound, Tree, Memory
<1>3. CacheCoherent'
  BY DEF MmUpdateCr3, CacheCoherent
<1> QED
  BY <1>1, <1>2, <1>3 DEF TableInv

LEMMA ClientTypes == ClientPages \subseteq Addresses /\ ClientPages \subseteq Nat /\ DeviceFrames \subseteq Nat
  BY ClientAssumption DEF Addresses

\* In service, a step changes the translation of the page it is about alone.
Changes(v) == \A w \in Addresses \ {v} : Translation(tables', w) = Translation(tables, w)

LEMMA MapUnmappedStep ==
    ASSUME TableInv, NEW v \in ClientPages, NEW phys \in DeviceFrames, MapUnmapped(phys, v)
    PROVE  TableInv' /\ Changes(v)
<1> DEFINE n == MapPage(Memory, phys, v)
<1>1. /\ phase = "ready" /\ Store(n) /\ UNCHANGED <<phase, boot, entry, page, pml4, cr3, tlb>>
      /\ Translation(tables, v) = None
  BY DEF MapUnmapped, MmMapPage, MmCheckIfPageIsMapped
<1>2. v \in Nat /\ v \in Addresses /\ phys \in Nat
  BY ClientTypes
<1> HIDE DEF n
<1>3. /\ MemorySound' /\ Changes(v) /\ \A w : Translation(tables, w)' = Translation(tables', w)
  BY <1>1, <1>2, MapStep DEF n, Changes
<1>4. Basic'
  BY <1>1 DEF TableInv, Basic
<1>5. CacheCoherent'
  <2> SUFFICES ASSUME NEW w \in DOMAIN tlb PROVE Translation(tables', w) = tlb[w]
    BY <1>1, <1>3 DEF CacheCoherent
  <2>1. tlb[w] \in Nat /\ Translation(tables, w) = tlb[w] /\ w \in Addresses
    BY ClientTypes DEF TableInv, Basic, CacheCoherent
  <2>2. w # v
    BY <1>1, <2>1 DEF None
  <2> QED
    BY <1>3, <2>1, <2>2 DEF Changes
<1> QED
  BY <1>3, <1>4, <1>5 DEF TableInv

LEMMA UnmapStep ==
    ASSUME TableInv, NEW v \in ClientPages, MmUnmapPage(v)
    PROVE  TableInv' /\ Changes(v)
<1>0. /\ phase = "ready" /\ UNCHANGED <<phase, boot, entry, page, free, pml4, cr3>>
      /\ v \in Nat /\ v \in Addresses
  BY ClientTypes DEF MmUnmapPage
<1>1. CASE PtOf(tables, v) = None
  <2>1. UNCHANGED vars
    BY <1>0, <1>1 DEF MmUnmapPage, vars
  <2>2. Basic'
    BY <2>1 DEF vars, TableInv, Basic
  <2>3. MemorySound'
    BY <2>1 DEF vars, TableInv, MemorySound, Sound, Tree, Memory
  <2>4. CacheCoherent'
    BY <2>1 DEF vars, TableInv, CacheCoherent, Translation, PtOf, PdOf, PdptOf
  <2>5. Changes(v)
    BY <2>1 DEF vars, Changes
  <2> QED
    BY <2>2, <2>3, <2>4, <2>5 DEF TableInv
<1>2. CASE PtOf(tables, v) # None
  <2>1. tables' = SetEntry(tables, PtOf(tables, v), PtEntry(v), None) /\ tlb' = Without(tlb, v)
    BY <1>2 DEF MmUnmapPage, MmInvalidatePage
  <2>2. PICK lvl : Sound(Memory, lvl)
    BY <1>0 DEF TableInv, MemorySound
  <2>3. PICK n : n = [free |-> free', tables |-> tables']
    OBVIOUS
  <2>4. n.free = Memory.free /\ n.tables = tables' /\ Memory.tables = tables
    BY <1>0, <2>3 DEF Memory
  <2>5. Sound(n, lvl) /\ Changes(v)
    <3>1. PICK us : us = tables'
      OBVIOUS
    <3>2. PICK m : m = Memory
      OBVIOUS
    <3>3. PICK x \in Nat \cup {None} : x = None
      OBVIOUS
    <3>4. /\ us = SetEntry(m.tables, PtOf(m.tables, v), PtEntry(v), x)
          /\ PtOf(m.tables, v) # None /\ n.tables = us /\ n.free = m.free
          /\ Sound(m, lvl)
      BY <1>2, <2>1, <2>2, <2>4, <3>1, <3>2, <3>3
    <3>5. Sound(n, lvl) /\ \A w \in Addresses \ {v} : Translation(us, w) = Translation(m.tables, w)
      BY <1>0, <3>4, LeafSet
    <3> QED
      BY <2>4, <3>1, <3>2, <3>5 DEF Changes
  <2>6. MemorySound'
    <3>1. Sound(Memory, lvl)'
      BY <1>0, <2>4, <2>5 DEF Sound, Tree, Memory
    <3> QED
      BY <3>1 DEF MemorySound
  <2>7. DOMAIN (tlb') = DOMAIN tlb \ {v} /\ \A w \in DOMAIN (tlb') : tlb'[w] = tlb[w]
    BY <2>1 DEF Without
  <2>8. Basic'
    BY <1>0, <2>7 DEF TableInv, Basic
  <2>9. CacheCoherent'
    <3> SUFFICES ASSUME NEW w \in DOMAIN (tlb') PROVE Translation(tables', w) = tlb'[w]
      BY <1>0 DEF CacheCoherent, Translation, PtOf, PdOf, PdptOf
    <3>1. w \in Addresses \ {v} /\ w \in DOMAIN tlb
      BY <2>7, ClientTypes DEF TableInv, Basic
    <3> QED
      BY <2>5, <2>7, <3>1 DEF TableInv, CacheCoherent, Changes
  <2> QED
    BY <2>5, <2>6, <2>8, <2>9 DEF TableInv
<1> QED
  BY <1>1, <1>2

LEMMA CachesInv ==
    ASSUME TableInv, NEW v \in ClientPages, CpuCaches(v) PROVE TableInv'
<1>0. /\ cr3 # None /\ Translation(tables, v) # None
      /\ tlb' = With(tlb, v, Translation(tables, v))
      /\ UNCHANGED <<phase, boot, entry, page, free, pml4, tables, cr3>>
  BY DEF CpuCaches
<1>1. phase = "ready"
  BY <1>0 DEF TableInv, Basic
<1>2. PICK lvl : Sound(Memory, lvl)
  BY <1>1 DEF TableInv, MemorySound
<1>3. Translation(tables, v) \in Nat
  <2>1. Tree(tables, lvl)
    BY <1>2 DEF Sound, Memory
  <2> QED
    BY <1>0, <2>1, ClientTypes, WalkLevels
<1>4. /\ DOMAIN (tlb') = DOMAIN tlb \cup {v} /\ tlb'[v] = Translation(tables, v)
      /\ \A w \in DOMAIN tlb \ {v} : tlb'[w] = tlb[w]
  BY <1>0 DEF With
<1>5. Basic'
  BY <1>0, <1>1, <1>3, <1>4 DEF TableInv, Basic
<1>6. MemorySound'
  BY <1>0 DEF TableInv, MemorySound, Sound, Tree, Memory
<1>7. CacheCoherent'
  <2>1. \A w : Translation(tables, w)' = Translation(tables, w)
    BY <1>0 DEF Translation, PtOf, PdOf, PdptOf
  <2> QED
    BY <1>4, <2>1 DEF TableInv, CacheCoherent
<1> QED
  BY <1>5, <1>6, <1>7 DEF TableInv

LEMMA StutterInv ==
    ASSUME TableInv, UNCHANGED vars PROVE TableInv'
<1>1. Basic'
  BY DEF vars, TableInv, Basic
<1>2. MemorySound'
  BY DEF vars, TableInv, MemorySound, Sound, Tree, Memory
<1>3. CacheCoherent'
  BY DEF vars, TableInv, CacheCoherent, Translation, PtOf, PdOf, PdptOf
<1> QED
  BY <1>1, <1>2, <1>3 DEF TableInv

LEMMA NextInv == TableInv /\ [Next]_vars => TableInv'
<1> SUFFICES ASSUME TableInv, [Next]_vars PROVE TableInv'
  OBVIOUS
<1>1. CASE CreatePml4
  BY <1>1, CreateInv
<1>2. CASE KernelLoop \/ MemMapLoop \/ MemMapDone \/ FramebufferLoop \/ LapicLoop
  BY <1>2, LoopsInv
<1>3. CASE MmUpdateCr3
  BY <1>3, UpdateCr3Inv
<1>4. ASSUME NEW v \in ClientPages, NEW phys \in DeviceFrames, MapUnmapped(phys, v) PROVE TableInv'
  BY <1>4, MapUnmappedStep
<1>5. ASSUME NEW v \in ClientPages, MmUnmapPage(v) PROVE TableInv'
  BY <1>5, UnmapStep
<1>6. ASSUME NEW v \in ClientPages, CpuCaches(v) PROVE TableInv'
  BY <1>6, CachesInv
<1>7. CASE PanicEnd \/ UNCHANGED vars
  BY <1>7, StutterInv DEF PanicEnd
<1> QED
  BY <1>1, <1>2, <1>3, <1>4, <1>5, <1>6, <1>7 DEF Next

LEMMA SpecInv == Spec => []TableInv
  BY InitInv, NextInv, PTL DEF Spec

-----------------------------------------------------------------------------
(* The theorems that hold for every boot information *)

\* MmInvalidatePage in MmUnmapPage is enough: the CPU never holds a translation that
\* the tables do not, although MmMapPage invalidates nothing.
THEOREM CacheStaysTrue == Spec => []CacheCoherent
<1>1. TableInv => CacheCoherent
  BY DEF TableInv
<1> QED
  BY <1>1, SpecInv, PTL

\* In service, MmMapPage and MmUnmapPage touch the translation of their page and no
\* other one's, also when memory runs out in the middle.
THEOREM OnlyThePageChanges == Spec => OthersUntouched
<1> DEFINE A == phase = "ready" =>
                  \A v, w \in ClientPages :
                      Translation(tables, v) # Translation(tables', v) =>
                          \/ w = v
                          \/ Translation(tables, w) = Translation(tables', w)
<1>1. TableInv /\ [Next]_vars => [A]_vars
  <2> SUFFICES ASSUME TableInv, Next, phase = "ready" PROVE A
    BY DEF A
  <2>1. CASE UNCHANGED tables
    BY <2>1
  <2>2. ASSUME NEW x \in ClientPages, Changes(x) PROVE A
    BY <2>2, ClientTypes DEF Changes
  <2>3. ASSUME NEW x \in ClientPages, NEW phys \in DeviceFrames, MapUnmapped(phys, x) PROVE A
    BY <2>2, <2>3, MapUnmappedStep
  <2>4. ASSUME NEW x \in ClientPages, MmUnmapPage(x) PROVE A
    BY <2>2, <2>4, UnmapStep
  <2>5. ASSUME NEW x \in ClientPages, CpuCaches(x) PROVE A
    BY <2>1, <2>5 DEF CpuCaches
  <2> QED
    BY <2>1, <2>3, <2>4, <2>5 DEF Next, CreatePml4, KernelLoop, MemMapLoop, MemMapDone,
       FramebufferLoop, LapicLoop, MmUpdateCr3, PanicEnd
<1> QED
  BY <1>1, SpecInv, PTL DEF Spec, OthersUntouched

-----------------------------------------------------------------------------
(* The tables, counted *)

Level(lvl, k) == {t \in DOMAIN tables : lvl[t] = k}

\* The tables of one level are the children of the level above, one to an entry.
LEMMA LevelBelow ==
    ASSUME NEW lvl, Tree(tables, lvl), NEW k \in 0 .. 2
    PROVE  /\ Children(Level(lvl, k)) = Level(lvl, k + 1)
           /\ IsFiniteSet(Level(lvl, k + 1))
           /\ Cardinality(Pointers(Level(lvl, k))) = Cardinality(Level(lvl, k + 1))
<1> DEFINE T == Level(lvl, k)
<1> DEFINE U == Level(lvl, k + 1)
<1> DEFINE P == Pointers(T)
<1>0. Idx = 0 .. (ENTRIES - 1)
  BY DEF Idx
<1>1. \A t \in T : \A i \in Idx : tables[t][i] # None => tables[t][i] \in U
  BY DEF Tree, Level
<1>2. ASSUME NEW u \in U PROVE \E t \in T : \E i \in Idx : tables[t][i] = u /\ u # None
  <2>1. u \in DOMAIN tables \ {pml4} /\ u # None
    BY DEF Tree, Level, None
  <2>2. PICK t \in DOMAIN tables : \E i \in Idx : lvl[t] < 3 /\ tables[t][i] = u
    BY <2>1 DEF Tree
  <2>3. PICK i \in Idx : lvl[t] < 3 /\ tables[t][i] = u
    BY <2>2
  <2>4. lvl[u] = lvl[t] + 1 /\ lvl[t] \in 0 .. 3
    BY <2>1, <2>3 DEF Tree
  <2>5. t \in T
    BY <2>4 DEF Level
  <2> QED
    BY <2>1, <2>3, <2>5
<1>3. Children(T) = U
  <2>1. Children(T) \subseteq U
    BY <1>0, <1>1 DEF Children
  <2>2. U \subseteq Children(T)
    BY <1>0, <1>2 DEF Children
  <2> QED
    BY <2>1, <2>2
<1>4. IsFiniteSet(U)
  BY FS_Subset DEF Tree, Level
<1>5. \A q \in P : \E t \in T, i \in Idx : q = <<t, i>> /\ tables[t][i] # None
  BY <1>0 DEF Pointers, Used
<1>6. \A t \in T, i \in Idx : tables[t][i] # None => <<t, i>> \in P
  BY <1>0 DEF Pointers, Used
<1>7. ASSUME NEW t \in T, NEW u \in T, NEW i \in Idx, NEW j \in Idx,
             tables[t][i] = tables[u][j], tables[t][i] # None
      PROVE  t = u /\ i = j
  <2>1. t \in DOMAIN tables /\ u \in DOMAIN tables /\ lvl[t] < 3 /\ lvl[u] < 3
    BY DEF Level
  <2>2. \A x, y \in DOMAIN tables : \A p, q \in Idx :
          lvl[x] < 3 /\ lvl[y] < 3 /\ tables[x][p] = tables[y][q] /\ tables[x][p] # None => x = y /\ p = q
    BY DEF Tree
  <2> QED
    BY <1>7, <2>1, <2>2
<1> HIDE DEF T, U, P
<1> DEFINE F == [q \in P |-> tables[q[1]][q[2]]]
<1>8. ASSUME NEW q \in P
      PROVE  /\ q[1] \in T /\ q[2] \in Idx /\ q = <<q[1], q[2]>>
             /\ F[q] = tables[q[1]][q[2]] /\ F[q] # None
  <2>1. PICK t \in T, i \in Idx : q = <<t, i>> /\ tables[t][i] # None
    BY <1>5
  <2> QED
    BY <2>1
<1>9. F \in [P -> U]
  BY <1>1, <1>8
<1>10. \A a, b \in P : F[a] = F[b] => a = b
  <2> SUFFICES ASSUME NEW a \in P, NEW b \in P, F[a] = F[b] PROVE a = b
    OBVIOUS
  <2>1. a[1] = b[1] /\ a[2] = b[2]
    BY <1>7, <1>8
  <2>2. a = <<a[1], a[2]>> /\ b = <<b[1], b[2]>>
    BY <1>8
  <2> HIDE DEF F
  <2> QED
    BY <2>1, <2>2
<1>11. \A u \in U : \E q \in P : F[q] = u
  <2> SUFFICES ASSUME NEW u \in U PROVE \E q \in P : F[q] = u
    OBVIOUS
  <2>1. PICK t \in T : \E i \in Idx : tables[t][i] = u /\ u # None
    BY <1>2 DEF T, U
  <2>2. PICK i \in Idx : tables[t][i] = u /\ u # None
    BY <2>1
  <2>3. <<t, i>> \in P /\ F[<<t, i>>] = u
    BY <1>6, <2>2
  <2> QED
    BY <2>3
<1> HIDE DEF F
<1>12. F \in Injection(P, U) /\ F \in Surjection(P, U)
  BY <1>9, <1>10, <1>11 DEF Injection, IsInjective, Surjection
<1>13. Cardinality(P) = Cardinality(U)
  BY <1>4, <1>12, FS_Injection
<1> QED
  BY <1>3, <1>4, <1>13 DEF T, U, P

LEMMA DisjointCounted ==
    ASSUME NEW S, NEW T, IsFiniteSet(S), IsFiniteSet(T), S \cap T = {}
    PROVE  IsFiniteSet(S \cup T) /\ Cardinality(S \cup T) = Cardinality(S) + Cardinality(T)
<1>1. IsFiniteSet(S \cup T) /\ Cardinality(S \cup T) = Cardinality(S) + Cardinality(T) - Cardinality({})
  BY FS_Union
<1>2. Cardinality({}) = 0
  BY FS_EmptySet
<1>3. Cardinality(S) \in Nat /\ Cardinality(T) \in Nat
  BY FS_CardinalityType
<1> QED
  BY <1>1, <1>2, <1>3

LEMMA TreeCounted ==
    ASSUME NEW lvl, Tree(tables, lvl)
    PROVE  /\ DOMAIN tables = {pml4} \cup Pdpts \cup Pds \cup Pts
           /\ Cardinality(DOMAIN tables) =
                1 + Cardinality(Pointers({pml4})) + Cardinality(Pointers(Pdpts))
                  + Cardinality(Pointers(Pds))
<1> DEFINE L0 == Level(lvl, 0)
<1> DEFINE L1 == Level(lvl, 1)
<1> DEFINE L2 == Level(lvl, 2)
<1> DEFINE L3 == Level(lvl, 3)
<1>0. L0 = {pml4}
  BY DEF Tree, Level
<1>1. /\ Children(L0) = L1 /\ IsFiniteSet(L1) /\ Cardinality(Pointers(L0)) = Cardinality(L1)
  BY LevelBelow
<1>2. /\ Children(L1) = L2 /\ IsFiniteSet(L2) /\ Cardinality(Pointers(L1)) = Cardinality(L2)
  BY LevelBelow
<1>3. /\ Children(L2) = L3 /\ IsFiniteSet(L3) /\ Cardinality(Pointers(L2)) = Cardinality(L3)
  BY LevelBelow
<1>4. Pdpts = L1 /\ Pds = L2 /\ Pts = L3
  BY <1>0, <1>1, <1>2, <1>3 DEF Pdpts, Pds, Pts
<1>5. \A t \in DOMAIN tables : lvl[t] \in 0 .. 3
  BY DEF Tree
<1>6. DOMAIN tables = ((L0 \cup L1) \cup L2) \cup L3
  BY <1>5 DEF Level
<1>7. L0 \cap L1 = {} /\ (L0 \cup L1) \cap L2 = {} /\ ((L0 \cup L1) \cup L2) \cap L3 = {}
  BY DEF Level
<1>8. IsFiniteSet(L0) /\ Cardinality(L0) = 1
  BY <1>0, FS_Singleton
<1> HIDE DEF L0, L1, L2, L3
<1>9. IsFiniteSet(L0 \cup L1) /\ Cardinality(L0 \cup L1) = 1 + Cardinality(L1)
  BY <1>1, <1>7, <1>8, DisjointCounted
<1>10. /\ IsFiniteSet((L0 \cup L1) \cup L2)
       /\ Cardinality((L0 \cup L1) \cup L2) = 1 + Cardinality(L1) + Cardinality(L2)
  BY <1>2, <1>7, <1>9, DisjointCounted
<1>11. Cardinality(((L0 \cup L1) \cup L2) \cup L3) =
          1 + Cardinality(L1) + Cardinality(L2) + Cardinality(L3)
  BY <1>3, <1>7, <1>10, DisjointCounted
<1> QED
  BY <1>0, <1>1, <1>2, <1>3, <1>4, <1>6, <1>11

\* The tables are a tree whatever the set-up and later calls do, and whenever memory runs
\* out in GetNextLevel: each page taken for a table hangs in exactly one entry.
THEOREM TablesAreTree == Spec => []TablesFormTree
<1>1. TableInv => TablesFormTree
  <2> SUFFICES ASSUME TableInv PROVE TablesFormTree
    OBVIOUS
  <2>0. Basic /\ boot.free \subseteq Nat \ {0}
    BY BootTypes DEF TableInv, Basic
  <2>1. CASE phase = "init"
    BY <2>0, <2>1 DEF Basic, TablesFormTree, TypeOK, None
  <2>2. CASE phase # "init"
    <3>1. PICK lvl : Sound(Memory, lvl)
      BY <2>2 DEF TableInv, MemorySound
    <3>2. /\ Tree(tables, lvl) /\ free \cap DOMAIN tables = {}
          /\ free \cup (DOMAIN tables \ {NULL}) = boot.free
      BY <3>1 DEF Sound, Memory
    <3>3. TypeOK
      BY <2>0, <2>2, <3>2 DEF Basic, TypeOK, Tree, Table, Idx
    <3>4. (free \cup DOMAIN tables) \ {NULL} = boot.free
      BY <2>0, <3>2 DEF NULL
    <3> QED
      BY <3>2, <3>3, <3>4, TreeCounted DEF TablesFormTree
  <2> QED
    BY <2>1, <2>2
<1> QED
  BY <1>1, SpecInv, PTL

-----------------------------------------------------------------------------
(* The kernel and the memory map are in place *)

Later == {"framebuffer", "lapic", "ready"}

\* What has been mapped when the set-up is at `page` of its loop.
Start == /\ phase = "init" => page = 0
         /\ phase \in {"init", "kernel"} => entry = 1
KernelMapped ==
    phase \in {"kernel", "memMap"} \cup Later =>
        \A i \in 0 .. (boot.kernelSizeInPages - 1) :
            (phase = "kernel" => i < page) =>
                Translation(tables, boot.kernelVirt + i) = boot.kernelPhys + i
MemMapMapped ==
    phase \in {"memMap"} \cup Later =>
        \A k \in DOMAIN boot.memMap : \A p \in Pages(boot.memMap[k]) :
            (phase = "memMap" => k < entry \/ (k = entry /\ p < boot.memMap[k].base + page)) =>
                Translation(tables, p) = p

PlacesInv == Start /\ KernelMapped /\ MemMapMapped

\* Mapping another page leaves those of the kernel alone.
LEMMA KernelPagesKept ==
    ASSUME boot \in Boots, Apart(boot), NEW w, Changes(w), w \notin KernelPages(boot)
    PROVE  \A i \in 0 .. (boot.kernelSizeInPages - 1) :
              Translation(tables', boot.kernelVirt + i) = Translation(tables, boot.kernelVirt + i)
<1> SUFFICES ASSUME NEW i \in 0 .. (boot.kernelSizeInPages - 1)
             PROVE  Translation(tables', boot.kernelVirt + i) = Translation(tables, boot.kernelVirt + i)
  OBVIOUS
<1>1. boot.kernelVirt + i \in KernelPages(boot)
  BY BootTypes DEF KernelPages, Pages
<1>2. boot.kernelVirt + i \in Addresses \ {w}
  BY <1>1 DEF Apart
<1> QED
  BY <1>2 DEF Changes

\* A page of the memory map is mapped to itself, whichever way it is mapped again.
LEMMA MemMapPagesKept ==
    ASSUME Apart(boot), NEW w, Changes(w),
           w \in MemMapPages(boot) => Translation(tables', w) \in {Translation(tables, w), w}
    PROVE  \A k \in DOMAIN boot.memMap : \A p \in Pages(boot.memMap[k]) :
              Translation(tables, p) = p => Translation(tables', p) = p
<1> SUFFICES ASSUME NEW k \in DOMAIN boot.memMap, NEW p \in Pages(boot.memMap[k]),
                    Translation(tables, p) = p
             PROVE  Translation(tables', p) = p
  OBVIOUS
<1>1. p \in MemMapPages(boot)
  BY DEF MemMapPages
<1>2. p \in Addresses
  BY <1>1 DEF Apart
<1> QED
  BY <1>1, <1>2 DEF Changes

LEMMA TranslationPrimed ==
    ASSUME UNCHANGED pml4 PROVE \A w : Translation(tables, w)' = Translation(tables', w)
  BY DEF Translation, PtOf, PdOf, PdptOf

\* A loop of the set-up maps page w to phys.
LEMMA SetUpMaps ==
    ASSUME TableInv, phase \in {"kernel", "memMap", "framebuffer", "lapic"},
           NEW phys \in Nat, NEW w \in Addresses, MapOrPanic(phys, w) \/ MapAnyway(phys, w)
    PROVE  /\ Changes(w) /\ UNCHANGED <<boot, entry, pml4>>
           /\ Translation(tables', w) \in {Translation(tables, w), phys}
           /\ MapOrPanic(phys, w) =>
                 \/ phase' = "panic"
                 \/ phase' = phase /\ page' = page + 1 /\ Translation(tables', w) = phys
           /\ MapAnyway(phys, w) => phase' = phase
<1> DEFINE n == MapPage(Memory, phys, w)
<1>1. Store(n) /\ UNCHANGED <<boot, entry, pml4>>
  BY DEF MapOrPanic, MapAnyway
<1>2. w \in Nat /\ phase # "init"
  BY DEF Addresses
<1>3. /\ MapOrPanic(phys, w) =>
            \/ phase' = "panic"
            \/ phase' = phase /\ page' = page + 1 /\ IsMapped(n, w)
      /\ MapAnyway(phys, w) => phase' = phase
  BY DEF MapOrPanic, MapAnyway, Goes
<1>4. n = MapPage(Memory, phys, w)
  OBVIOUS
<1> HIDE DEF n
<1>5. /\ IsMapped(n, w) => Translation(tables, w)' = phys
      /\ ~IsMapped(n, w) => Translation(tables, w)' = Translation(tables, w)
      /\ Changes(w) /\ Translation(tables, w)' = Translation(tables', w)
  BY <1>1, <1>2, <1>4, MapStep DEF Changes
<1> QED
  BY <1>1, <1>3, <1>5

LEMMA KernelLoopPlaces ==
    ASSUME TableInv, PlacesInv, Apart(boot), KernelLoop PROVE PlacesInv'
<1>0. boot \in Boots /\ page \in Nat /\ phase = "kernel" /\ entry = 1
  BY DEF TableInv, Basic, KernelLoop, PlacesInv, Start
<1>1. CASE page < boot.kernelSizeInPages
  <2> DEFINE w == boot.kernelVirt + page
  <2> DEFINE f == boot.kernelPhys + page
  <2>1. MapOrPanic(f, w) /\ f \in Nat /\ w \in KernelPages(boot)
    BY <1>0, <1>1, BootTypes DEF KernelLoop, KernelPages, Pages
  <2>2. w \in Addresses
    BY <2>1 DEF Apart
  <2>3. f = boot.kernelPhys + page /\ w = boot.kernelVirt + page
    OBVIOUS
  <2> HIDE DEF w, f
  <2>4. /\ Changes(w) /\ UNCHANGED <<boot, entry, pml4>>
        /\ \/ phase' = "panic"
           \/ phase' = phase /\ page' = page + 1 /\ Translation(tables', w) = f
    BY <1>0, <2>1, <2>2, SetUpMaps
  <2>5. CASE phase' = "panic"
    BY <2>5 DEF PlacesInv, Start, KernelMapped, MemMapMapped, Later
  <2>6. CASE phase' = phase /\ page' = page + 1 /\ Translation(tables', w) = f
    <3>1. ASSUME NEW i \in 0 .. (boot.kernelSizeInPages - 1), i < page + 1
          PROVE  Translation(tables', boot.kernelVirt + i) = boot.kernelPhys + i
      <4>1. CASE i = page
        BY <2>3, <2>6, <4>1
      <4>2. CASE i # page
        <5>1. i < page
          BY <1>0, <3>1, <4>2
        <5>2. boot.kernelVirt + i \in KernelPages(boot) /\ boot.kernelVirt + i # w
          <6>1. boot.kernelVirt \in Nat /\ boot.kernelSizeInPages \in Nat
            BY <1>0, BootTypes
          <6>2. boot.kernelVirt + i # w
            BY <1>0, <2>3, <4>2, <6>1
          <6> QED
            BY <6>1, <6>2 DEF KernelPages, Pages
        <5>3. boot.kernelVirt + i \in Addresses \ {w}
          BY <5>2 DEF Apart
        <5> QED
          BY <1>0, <2>4, <5>1, <5>3 DEF Changes, PlacesInv, KernelMapped
      <4> QED
        BY <4>1, <4>2
    <3>2. KernelMapped'
      BY <1>0, <2>4, <2>6, <3>1, TranslationPrimed DEF KernelMapped
    <3> QED
      BY <1>0, <2>4, <2>6, <3>2 DEF PlacesInv, Start, MemMapMapped, Later
  <2> QED
    BY <2>4, <2>5, <2>6
<1>2. CASE ~(page < boot.kernelSizeInPages)
  <2>1. /\ phase' = "memMap" /\ page' = 0 /\ UNCHANGED <<boot, entry, pml4, tables>>
    BY <1>2 DEF KernelLoop, Enter
  <2>2. Start'
    BY <2>1 DEF Start
  <2>3. KernelMapped'
    BY <1>0, <1>2, <2>1, BootTypes, TranslationPrimed DEF PlacesInv, KernelMapped
  <2>4. MemMapMapped'
    BY <1>0, <2>1, BootTypes DEF MemMapMapped, Pages, Later
  <2> QED
    BY <2>2, <2>3, <2>4 DEF PlacesInv
<1> QED
  BY <1>1, <1>2

LEMMA MemMapLoopPlaces ==
    ASSUME TableInv, PlacesInv, Apart(boot), MemMapLoop PROVE PlacesInv'
<1>0. boot \in Boots /\ page \in Nat /\ phase = "memMap" /\ entry \in DOMAIN boot.memMap
  <2>1. boot \in Boots /\ page \in Nat /\ phase = "memMap" /\ entry <= Len(boot.memMap)
        /\ entry \in 1 .. (Len(boot.memMap) + 1)
    BY DEF TableInv, Basic, MemMapLoop
  <2> QED
    BY <2>1, BootTypes
<1> DEFINE s == boot.memMap[entry]
<1>1. s.base \in Nat /\ s.size \in Nat
  BY <1>0, BootTypes
<1>2. CASE page < s.size
  <2> DEFINE w == s.base + page
  <2>1. MapOrPanic(w, w) /\ w \in Nat /\ w \in Pages(s)
    BY <1>0, <1>1, <1>2 DEF MemMapLoop, Pages
  <2>2. w \in MemMapPages(boot)
    BY <1>0, <2>1 DEF MemMapPages
  <2>3. w \in Addresses /\ w \notin KernelPages(boot)
    BY <2>2 DEF Apart
  <2>4. w = s.base + page
    OBVIOUS
  <2> HIDE DEF w
  <2>5. /\ Changes(w) /\ UNCHANGED <<boot, entry, pml4>>
        /\ Translation(tables', w) \in {Translation(tables, w), w}
        /\ \/ phase' = "panic"
           \/ phase' = phase /\ page' = page + 1 /\ Translation(tables', w) = w
    BY <1>0, <2>1, <2>3, SetUpMaps
  <2>6. CASE phase' = "panic"
    BY <2>6 DEF PlacesInv, Start, KernelMapped, MemMapMapped, Later
  <2>7. CASE phase' = phase /\ page' = page + 1 /\ Translation(tables', w) = w
    <3>1. KernelMapped'
      BY <1>0, <2>3, <2>5, <2>7, KernelPagesKept, TranslationPrimed DEF PlacesInv, KernelMapped
    <3>2. \A k \in DOMAIN boot.memMap : \A p \in Pages(boot.memMap[k]) :
              Translation(tables, p) = p => Translation(tables', p) = p
      BY <2>5, MemMapPagesKept
    <3>3. ASSUME NEW k \in DOMAIN boot.memMap, NEW p \in Pages(boot.memMap[k]),
                 k < entry \/ (k = entry /\ p < boot.memMap[k].base + (page + 1))
          PROVE  Translation(tables', p) = p
      <4>1. CASE k = entry /\ p = w
        BY <2>7, <4>1
      <4>2. CASE ~(k = entry /\ p = w)
        <5>1. k < entry \/ (k = entry /\ p < boot.memMap[k].base + page)
          <6>1. CASE k < entry
            BY <6>1
          <6>2. CASE k = entry /\ p < s.base + (page + 1)
            <7>1. p \in Int /\ p # w
              BY <1>1, <4>2, <6>2 DEF Pages
            <7> QED
              BY <1>0, <1>1, <2>4, <6>2, <7>1
          <6> QED
            BY <3>3, <6>1, <6>2
        <5> QED
          BY <1>0, <3>2, <5>1 DEF PlacesInv, MemMapMapped
      <4> QED
        BY <4>1, <4>2
    <3>4. MemMapMapped'
      BY <1>0, <2>5, <2>7, <3>3, TranslationPrimed DEF MemMapMapped, Later
    <3> QED
      BY <1>0, <2>5, <2>7, <3>1, <3>4 DEF PlacesInv, Start
  <2> QED
    BY <2>5, <2>6, <2>7
<1>3. CASE ~(page < s.size)
  <2>1. entry' = entry + 1 /\ page' = 0 /\ UNCHANGED <<phase, boot, pml4, tables>>
    BY <1>3 DEF MemMapLoop
  <2>2. KernelMapped'
    BY <1>0, <2>1, TranslationPrimed DEF PlacesInv, KernelMapped
  <2>3. ASSUME NEW k \in DOMAIN boot.memMap, NEW p \in Pages(boot.memMap[k]),
               k < entry + 1 \/ (k = entry + 1 /\ p < boot.memMap[k].base)
        PROVE  Translation(tables, p) = p
    <3>1. k \in Nat /\ entry \in Nat /\ boot.memMap[k].base \in Nat /\ boot.memMap[k].size \in Nat
      BY <1>0, BootTypes
    <3>2. p \in Int /\ boot.memMap[k].base <= p /\ p < boot.memMap[k].base + boot.memMap[k].size
      BY <3>1 DEF Pages
    <3>3. k < entry \/ (k = entry /\ p < boot.memMap[k].base + page)
      BY <1>0, <1>3, <2>3, <3>1, <3>2
    <3> QED
      BY <1>0, <3>3 DEF PlacesInv, MemMapMapped
  <2>4. MemMapMapped'
    <3>1. \A k \in DOMAIN boot.memMap : boot.memMap[k].base + 0 = boot.memMap[k].base
      BY <1>0, BootTypes
    <3> QED
      BY <1>0, <2>1, <2>3, <3>1, TranslationPrimed DEF MemMapMapped, Later
  <2> QED
    BY <1>0, <2>1, <2>2, <2>4 DEF PlacesInv, Start
<1> QED
  BY <1>2, <1>3

\* A step in service, or in a loop that maps a page to itself or one that is no memory.
LEMMA OtherPlaces ==
    ASSUME TableInv, PlacesInv, Apart(boot), phase \in Later, phase' = phase,
           NEW w, Changes(w), UNCHANGED <<boot, entry, pml4>>, w \notin KernelPages(boot),
           w \in MemMapPages(boot) => Translation(tables', w) \in {Translation(tables, w), w}
    PROVE  PlacesInv'
<1>0. boot \in Boots
  BY DEF TableInv, Basic
<1>1. KernelMapped'
  <2>1. \A i \in 0 .. (boot.kernelSizeInPages - 1) :
          Translation(tables', boot.kernelVirt + i) = Translation(tables, boot.kernelVirt + i)
    BY <1>0, KernelPagesKept
  <2>2. \A i \in 0 .. (boot.kernelSizeInPages - 1) :
          Translation(tables, boot.kernelVirt + i) = boot.kernelPhys + i
    BY DEF PlacesInv, KernelMapped, Later
  <2> QED
    BY <2>1, <2>2, TranslationPrimed DEF KernelMapped
<1>2. MemMapMapped'
  <2>1. \A k \in DOMAIN boot.memMap : \A p \in Pages(boot.memMap[k]) :
          Translation(tables, p) = p => Translation(tables', p) = p
    BY MemMapPagesKept
  <2>2. \A k \in DOMAIN boot.memMap : \A p \in Pages(boot.memMap[k]) : Translation(tables, p) = p
    BY DEF PlacesInv, MemMapMapped, Later
  <2> QED
    BY <2>1, <2>2, TranslationPrimed DEF MemMapMapped
<1> QED
  BY <1>1, <1>2 DEF PlacesInv, Start, Later

\* A loop is left and the next one entered; nothing is mapped.
LEMMA UnmappedPlaces ==
    ASSUME TableInv, PlacesInv, phase \in Later, phase' \in Later, UNCHANGED <<boot, tables, pml4>>
    PROVE  PlacesInv'
<1>1. KernelMapped'
  BY TranslationPrimed DEF PlacesInv, KernelMapped, Later
<1>2. MemMapMapped'
  BY TranslationPrimed DEF PlacesInv, MemMapMapped, Later
<1> QED
  BY <1>1, <1>2 DEF PlacesInv, Start, Later

LEMMA PlacesNext ==
    ASSUME TableInv, PlacesInv, Apart(boot), [Next]_vars PROVE PlacesInv'
<1>0. boot \in Boots /\ page \in Nat
  BY DEF TableInv, Basic
<1>1. CASE CreatePml4
  <2>1. phase' = "kernel" /\ page' = 0 /\ entry' = 1
    BY <1>1 DEF CreatePml4, PlacesInv, Start
  <2> QED
    BY <2>1 DEF PlacesInv, Start, KernelMapped, MemMapMapped, Later
<1>2. CASE KernelLoop
  BY <1>2, KernelLoopPlaces
<1>3. CASE MemMapLoop
  BY <1>3, MemMapLoopPlaces
<1>4. CASE MemMapDone
  <2>1. /\ phase = "memMap" /\ phase' = "framebuffer" /\ UNCHANGED <<boot, tables, pml4>>
        /\ \A k \in DOMAIN boot.memMap : k < entry
    BY <1>0, <1>4, BootTypes DEF MemMapDone, Enter, TableInv, Basic
  <2>2. KernelMapped'
    BY <2>1, TranslationPrimed DEF PlacesInv, KernelMapped
  <2>3. MemMapMapped'
    BY <2>1, TranslationPrimed DEF PlacesInv, MemMapMapped
  <2> QED
    BY <2>1, <2>2, <2>3 DEF PlacesInv, Start
<1>5. CASE FramebufferLoop
  <2>0. phase = "framebuffer"
    BY <1>5 DEF FramebufferLoop
  <2>1. CASE page < boot.framebuffer.size
    <3> DEFINE w == boot.framebuffer.base + page
    <3>1. MapAnyway(w, w) /\ w \in Nat /\ w \in Pages(boot.framebuffer)
      <4>1. MapAnyway(w, w)
        BY <1>5, <2>1 DEF FramebufferLoop
      <4>2. w \in Nat /\ w \in Pages(boot.framebuffer)
        <5>1. boot.framebuffer.base \in Nat /\ boot.framebuffer.size \in Nat
          BY <1>0, BootTypes
        <5> QED
          BY <1>0, <2>1, <5>1 DEF Pages
      <4> QED
        BY <4>1, <4>2
    <3>2. w \in Addresses /\ w \notin KernelPages(boot)
      BY <3>1 DEF Apart
    <3> HIDE DEF w
    <3>3. /\ Changes(w) /\ UNCHANGED <<boot, entry, pml4>> /\ phase' = phase
          /\ Translation(tables', w) \in {Translation(tables, w), w}
      BY <2>0, <3>1, <3>2, SetUpMaps
    <3> QED
      BY <2>0, <3>2, <3>3, OtherPlaces DEF Later
  <2>2. CASE ~(page < boot.framebuffer.size)
    BY <1>5, <2>0, <2>2, UnmappedPlaces DEF FramebufferLoop, Enter, Later
  <2> QED
    BY <2>1, <2>2
<1>6. CASE LapicLoop
  <2> DEFINE w == boot.lapicBase + page
  <2>0. phase = "lapic" /\ (page = 0 \/ page = 1) /\ boot.lapicBase \in Nat
    BY <1>0, <1>6, BootTypes DEF LapicLoop
  <2>1. MapAnyway(boot.lapicBase, w) /\ w \in {boot.lapicBase, boot.lapicBase + 1}
    BY <1>6, <2>0 DEF LapicLoop
  <2>2. w \in Addresses /\ w \notin KernelPages(boot)
    BY <2>1 DEF Apart
  <2>3. w \in MemMapPages(boot) => w = boot.lapicBase
    BY <2>1 DEF Apart
  <2> HIDE DEF w
  <2>4. /\ Changes(w) /\ UNCHANGED <<boot, entry, pml4>> /\ phase' = phase
        /\ Translation(tables', w) \in {Translation(tables, w), boot.lapicBase}
    BY <2>0, <2>1, <2>2, SetUpMaps
  <2> QED
    BY <2>0, <2>2, <2>3, <2>4, OtherPlaces DEF Later
<1>7. CASE MmUpdateCr3
  BY <1>7, UnmappedPlaces DEF MmUpdateCr3, Later
<1>8. ASSUME NEW v \in ClientPages PROVE v \notin KernelPages(boot) /\ v \notin MemMapPages(boot)
  BY DEF Apart
<1>9. ASSUME NEW v \in ClientPages, NEW phys \in DeviceFrames, MapUnmapped(phys, v) PROVE PlacesInv'
  <2>1. Changes(v) /\ phase = "ready" /\ phase' = phase /\ UNCHANGED <<boot, entry, pml4>>
    BY <1>9, MapUnmappedStep DEF MapUnmapped, MmMapPage
  <2> QED
    BY <1>8, <2>1, OtherPlaces DEF Later
<1>10. ASSUME NEW v \in ClientPages, MmUnmapPage(v) PROVE PlacesInv'
  <2>1. Changes(v) /\ phase = "ready" /\ phase' = phase /\ UNCHANGED <<boot, entry, pml4>>
    BY <1>10, UnmapStep DEF MmUnmapPage
  <2> QED
    BY <1>8, <2>1, OtherPlaces DEF Later
<1>11. ASSUME NEW v \in ClientPages, CpuCaches(v) PROVE PlacesInv'
  <2>1. phase = "ready" /\ phase' = phase /\ UNCHANGED <<boot, tables, pml4>>
    BY <1>11 DEF CpuCaches, TableInv, Basic
  <2> QED
    BY <2>1, UnmappedPlaces DEF Later
<1>12. CASE PanicEnd \/ UNCHANGED vars
  <2>1. UNCHANGED <<phase, boot, entry, page, tables, pml4>>
    BY <1>12 DEF PanicEnd, vars
  <2>2. KernelMapped'
    BY <2>1, TranslationPrimed DEF PlacesInv, KernelMapped
  <2>3. MemMapMapped'
    BY <2>1, TranslationPrimed DEF PlacesInv, MemMapMapped
  <2> QED
    BY <2>1, <2>2, <2>3 DEF PlacesInv, Start
<1> QED
  BY <1>1, <1>2, <1>3, <1>4, <1>5, <1>6, <1>7, <1>9, <1>10, <1>11, <1>12 DEF Next

\* On the tables that MmInitVirtualMemoryManager has built, however little memory there
\* was, the kernel and all memory are where they must be, and the tables themselves can
\* be written, for every boot information that keeps kernel, memory and devices apart.
THEOREM KernelStaysMapped == (\A b \in Boots : Apart(b)) => (Spec => []KernelRuns)
<1> SUFFICES ASSUME \A b \in Boots : Apart(b) PROVE Spec => []KernelRuns
  OBVIOUS
<1>1. Init => PlacesInv
  BY DEF Init, PlacesInv, Start, KernelMapped, MemMapMapped, Later
<1>2. TableInv => Apart(boot)
  BY DEF TableInv, Basic
<1>3. TableInv /\ PlacesInv /\ [Next]_vars => PlacesInv'
  BY <1>2, PlacesNext
<1>4. TableInv /\ PlacesInv => KernelRuns
  <2> SUFFICES ASSUME TableInv, PlacesInv, cr3 # None PROVE KernelRuns
    BY DEF KernelRuns
  <2>0. phase = "ready" /\ cr3 = pml4 /\ boot \in Boots /\ Apart(boot)
    BY <1>2 DEF TableInv, Basic
  <2>1. \A i \in 0 .. (boot.kernelSizeInPages - 1) :
          Translation(tables, boot.kernelVirt + i) = boot.kernelPhys + i
    BY <2>0 DEF PlacesInv, KernelMapped, Later
  <2>2. \A k \in DOMAIN boot.memMap : \A p \in Pages(boot.memMap[k]) : Translation(tables, p) = p
    BY <2>0 DEF PlacesInv, MemMapMapped, Later
  <2>3. PICK lvl : Sound(Memory, lvl)
    BY <2>0 DEF TableInv, MemorySound
  <2>4. /\ Tree(tables, lvl) /\ free \cup (DOMAIN tables \ {NULL}) = boot.free
        /\ NULL \in DOMAIN tables => pml4 = NULL
    BY <2>3 DEF Sound, Memory
  <2>5. pml4 # NULL
    <3> SUFFICES ASSUME pml4 = NULL PROVE FALSE
      OBVIOUS
    <3>1. DOMAIN tables \subseteq {pml4}
      BY <2>0, <2>4 DEF TableInv, Basic
    <3>2. boot.kernelVirt \in Nat /\ Translation(tables, boot.kernelVirt) \in Nat
      <4>1. boot.kernelVirt + 0 = boot.kernelVirt /\ 0 \in 0 .. (boot.kernelSizeInPages - 1)
        BY <2>0, BootTypes DEF Apart
      <4>2. boot.kernelPhys + 0 \in Nat /\ boot.kernelVirt \in Nat
        BY <2>0, BootTypes
      <4> QED
        BY <2>1, <4>1, <4>2
    <3>3. PtOf(tables, boot.kernelVirt) # None
      BY <3>2 DEF Translation, Below, None
    <3>4. PtOf(tables, boot.kernelVirt) \in DOMAIN tables /\ lvl[PtOf(tables, boot.kernelVirt)] = 3
      BY <2>4, <3>2, <3>3, WalkLevels
    <3> QED
      BY <2>4, <3>1, <3>4 DEF Tree
  <2>6. \A t \in DOMAIN tables : Translation(tables, t) = t
    <3>1. DOMAIN tables \subseteq MemMapPages(boot)
      BY <2>0, <2>4, <2>5 DEF Apart
    <3> QED
      BY <2>2, <3>1 DEF MemMapPages
  <2> QED
    BY <2>0, <2>1, <2>2, <2>5, <2>6 DEF KernelRuns
<1> QED
  BY <1>1, <1>3, <1>4, SpecInv, PTL DEF Spec
=============================================================================
