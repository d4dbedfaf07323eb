----------------------------- MODULE EcsProofs -----------------------------
(***************************************************************************)
(* What the entity component system guarantees for every set of lists of   *)
(* components, all sizes of its arrays and any number of entities.         *)
(***************************************************************************)
EXTENDS Ecs, SequenceTheorems, FiniteSetTheorems, TLAPS

-----------------------------------------------------------------------------
(* Sequences and numbers *)

LEMMA FunctionIsSeq ==
    ASSUME NEW S, NEW n \in Nat, NEW f, DOMAIN f = 1 .. n, \A i \in 1 .. n : f[i] \in S,
           f = [i \in 1 .. n |-> f[i]]
    PROVE  f \in Seq(S) /\ Len(f) = n
  OBVIOUS

\* An array grows by at least one place.
LEMMA GrownIsLarger ==
    ASSUME NEW c \in Nat PROVE Grown(c) \in Nat /\ Grown(c) > c
<1>1. CASE c = 0
  BY <1>1, BoundsAssumption DEF Grown
<1>2. CASE c # 0
  <2>1. GROWTH \in Nat /\ GROWTH >= 2
    BY BoundsAssumption
  <2>2. c * GROWTH \in Nat /\ c * GROWTH > c
    BY <1>2, <2>1, SMT
  <2> QED
    BY <1>2, <2>2 DEF Grown
<1> QED
  BY <1>1, <1>2

-----------------------------------------------------------------------------
(* One archetype *)

ArcheType == [components : Lists, capacity : Nat, memory : BOOLEAN,
              entities : Seq(EntityRecord), freeList : Seq(Nat)]

OnList(a, e) == \E i \in DOMAIN a.freeList : a.freeList[i] = e

\* An array that has no memory is full, so that it is allocated anew before anybody is
\* put in it.
ArcheSound(a) ==
    /\ a \in ArcheType
    /\ Len(a.entities) <= a.capacity
    /\ ~a.memory => Len(a.entities) = a.capacity
    /\ \A i \in DOMAIN a.freeList :
          a.freeList[i] \in DOMAIN a.entities /\ ~a.entities[a.freeList[i]].alive
    /\ \A i, j \in DOMAIN a.freeList : i # j => a.freeList[i] # a.freeList[j]

\* The sequences of an archetype are functions on intervals.
LEMMA ArcheShape ==
    ASSUME NEW a, a \in ArcheType
    PROVE  /\ a.entities \in Seq(EntityRecord) /\ a.freeList \in Seq(Nat)
           /\ a.components \in Lists /\ a.capacity \in Nat /\ a.memory \in BOOLEAN
           /\ Len(a.entities) \in Nat /\ DOMAIN a.entities = 1 .. Len(a.entities)
           /\ \A e \in DOMAIN a.entities : a.entities[e] \in EntityRecord
           /\ Len(a.freeList) \in Nat /\ DOMAIN a.freeList = 1 .. Len(a.freeList)
           /\ \A i \in DOMAIN a.freeList : a.freeList[i] \in Nat
<1>1. /\ a.entities \in Seq(EntityRecord) /\ a.freeList \in Seq(Nat)
      /\ a.components \in Lists /\ a.capacity \in Nat /\ a.memory \in BOOLEAN
  BY DEF ArcheType
<1> QED
  BY <1>1, LenProperties, ElementOfSeq

LEMMA StoringSound ==
    ASSUME NEW a, a \in ArcheType, NEW es \in Seq(EntityRecord), NEW fl \in Seq(Nat)
    PROVE  /\ Storing(a, es, fl) \in ArcheType
           /\ Storing(a, es, fl).components = a.components
           /\ Storing(a, es, fl).capacity = a.capacity
           /\ Storing(a, es, fl).memory = a.memory
           /\ Storing(a, es, fl).entities = es
           /\ Storing(a, es, fl).freeList = fl
  BY ArcheShape DEF Storing, ArcheType

LEMMA StoringParts ==
    ASSUME NEW a, a \in ArcheType, a.memory, NEW es \in Seq(EntityRecord), NEW fl \in Seq(Nat),
           NEW b, b = Storing(a, es, fl)
    PROVE  /\ b \in ArcheType /\ b.components = a.components /\ b.capacity = a.capacity
           /\ b.memory /\ b.freeList = fl /\ b.entities = es
<1>1. /\ b \in ArcheType /\ b.components = a.components /\ b.capacity = a.capacity
      /\ b.freeList = fl /\ b.entities = es
  BY StoringSound
<1>2. b.memory
  BY StoringSound, Zenon
<1> QED
  BY <1>1, <1>2

\* The entities clients are given, and those that are left of them.
LEMMA EntitiesTyped ==
    /\ BlankEntity \in EntityRecord
    /\ \A list \in Lists : NewEntity(list) \in EntityRecord /\ HalfEntity(list) \in EntityRecord
    /\ \A x \in EntityRecord : Buried(x) \in EntityRecord
    /\ \A x \in EntityRecord, value \in Values : \A i : Stored(x, i, value) \in EntityRecord
<1> DEFINE C == 0 .. (MAX_COMPONENT - 1)
<1> DEFINE D == Values \cup {Unset}
<1>0. <<>> \in Seq(C) /\ <<>> \in Seq(D) /\ 0 \in C
  BY EmptySeq, BoundsAssumption
<1>1. BlankEntity \in EntityRecord
  BY <1>0 DEF BlankEntity, EntityRecord
<1>2. ASSUME NEW list \in Lists PROVE NewEntity(list) \in EntityRecord
                                      /\ HalfEntity(list) \in EntityRecord
  <2>1. list \in Seq(1 .. (MAX_COMPONENT - 1))
    BY ListsAssumption
  <2>2. /\ Len(list) \in Nat /\ DOMAIN list = 1 .. Len(list)
        /\ \A i \in 1 .. Len(list) : list[i] \in 1 .. (MAX_COMPONENT - 1)
        /\ list = [i \in 1 .. Len(list) |-> list[i]]
    BY <2>1, LenProperties, ElementOfSeq
  <2>3. list \in Seq(C)
    BY <2>2, FunctionIsSeq, BoundsAssumption
  <2>4. [i \in DOMAIN list |-> Unset] \in Seq(D)
    <3> DEFINE f == [i \in 1 .. Len(list) |-> Unset]
    <3>1. DOMAIN f = 1 .. Len(list) /\ f = [i \in 1 .. Len(list) |-> f[i]]
          /\ \A i \in 1 .. Len(list) : f[i] \in D
      OBVIOUS
    <3> HIDE DEF f
    <3>2. f \in Seq(D)
      BY <2>2, <3>1, FunctionIsSeq
    <3> QED
      BY <2>2, <3>2 DEF f
  <2>5. [i \in DOMAIN list |-> IF i = 1 THEN list[1] ELSE 0] \in Seq(C)
    <3> DEFINE f == [i \in 1 .. Len(list) |-> IF i = 1 THEN list[1] ELSE 0]
    <3>1. DOMAIN f = 1 .. Len(list) /\ f = [i \in 1 .. Len(list) |-> f[i]]
          /\ \A i \in 1 .. Len(list) : f[i] \in C
      BY <2>2, BoundsAssumption
    <3> HIDE DEF f
    <3>2. f \in Seq(C)
      BY <2>2, <3>1, FunctionIsSeq
    <3> QED
      BY <2>2, <3>2 DEF f
  <2> QED
    BY <1>0, <2>3, <2>4, <2>5 DEF NewEntity, HalfEntity, EntityRecord
<1>3. ASSUME NEW x \in EntityRecord PROVE Buried(x) \in EntityRecord
  <2>1. x.components \in Seq(C) /\ x.data \in Seq(D)
    BY DEF EntityRecord
  <2>2. [i \in DOMAIN x.components |-> 0] \in Seq(C)
    <3> DEFINE f == [i \in DOMAIN x.components |-> 0]
    <3>1. Len(x.components) \in Nat /\ DOMAIN x.components = 1 .. Len(x.components)
      BY <2>1, LenProperties
    <3>2. DOMAIN f = 1 .. Len(x.components) /\ f = [i \in 1 .. Len(x.components) |-> f[i]]
          /\ \A i \in 1 .. Len(x.components) : f[i] \in C
      BY <1>0, <3>1
    <3> HIDE DEF f, C
    <3>3. f \in Seq(C)
      BY <3>1, <3>2, FunctionIsSeq
    <3> QED
      BY <3>3 DEF f
  <2> QED
    BY <2>1, <2>2 DEF Buried, EntityRecord
<1>4. ASSUME NEW x \in EntityRecord, NEW i, NEW value \in Values
      PROVE  Stored(x, i, value) \in EntityRecord
  <2>1. x.components \in Seq(C) /\ x.data \in Seq(D) /\ x.alive \in BOOLEAN
    BY DEF EntityRecord
  <2>2. [x.data EXCEPT ![i] = value] \in Seq(D)
    <3> DEFINE f == [x.data EXCEPT ![i] = value]
    <3>1. /\ Len(x.data) \in Nat /\ DOMAIN x.data = 1 .. Len(x.data)
          /\ \A j \in 1 .. Len(x.data) : x.data[j] \in D
      BY <2>1, LenProperties, ElementOfSeq
    <3>2. DOMAIN f = 1 .. Len(x.data) /\ f = [j \in 1 .. Len(x.data) |-> f[j]]
          /\ \A j \in 1 .. Len(x.data) : f[j] \in D
      BY <3>1
    <3> HIDE DEF f, D
    <3>3. f \in Seq(D)
      BY <3>1, <3>2, FunctionIsSeq
    <3> QED
      BY <3>3 DEF f
  <2> QED
    BY <2>1, <2>2 DEF Stored, EntityRecord
<1> QED
  BY <1>1, <1>2, <1>3, <1>4

\* The array has memory for one more; what was in it is still there, if there was memory.
LEMMA WithPlaceSound ==
    ASSUME NEW a, ArcheSound(a), NEW b, b = WithPlace(a)
    PROVE  /\ ArcheSound(b) /\ b.memory /\ Len(b.entities) < b.capacity
           /\ b.components = a.components /\ b.freeList = a.freeList
           /\ DOMAIN b.entities = DOMAIN a.entities
           /\ a.memory => b.entities = a.entities
           /\ ~a.memory => \A e \in DOMAIN b.entities : ~b.entities[e].alive
<1>1. a \in ArcheType
  BY DEF ArcheSound
<1>2. CASE ~NeedsPlace(a)
  <2>1. b = a
    BY <1>2 DEF WithPlace
  <2> QED
    BY <1>1, <1>2, <2>1, ArcheShape DEF ArcheSound, NeedsPlace
<1>3. CASE NeedsPlace(a)
  <2> DEFINE blank == [e \in DOMAIN a.entities |-> BlankEntity]
  <2>1. b = Reallocated(a)
    BY <1>3 DEF WithPlace
  <2>2. /\ b.components = a.components /\ b.freeList = a.freeList /\ b.memory = TRUE
        /\ b.capacity = Grown(a.capacity)
        /\ b.entities = IF a.memory THEN a.entities ELSE blank
    BY <2>1 DEF Reallocated
  <2>3. blank \in Seq(EntityRecord) /\ Len(blank) = Len(a.entities)
    <3>1. /\ Len(a.entities) \in Nat /\ DOMAIN blank = 1 .. Len(a.entities)
          /\ blank = [e \in 1 .. Len(a.entities) |-> blank[e]]
          /\ \A e \in 1 .. Len(a.entities) : blank[e] \in EntityRecord
      BY <1>1, ArcheShape, EntitiesTyped
    <3> HIDE DEF blank
    <3> QED
      BY <3>1, FunctionIsSeq
  <2>4. /\ b.entities \in Seq(EntityRecord) /\ Len(b.entities) = Len(a.entities)
        /\ DOMAIN b.entities = DOMAIN a.entities
    BY <1>1, <2>2, <2>3, ArcheShape
  <2>5. \A e \in DOMAIN a.entities : blank[e].alive = FALSE
    BY DEF BlankEntity
  <2> HIDE DEF blank
  <2>6. Grown(a.capacity) \in Nat /\ Grown(a.capacity) > a.capacity
    BY <1>1, ArcheShape, GrownIsLarger
  <2>7. b \in ArcheType
    BY <1>1, <2>1, <2>2, <2>4, <2>6, ArcheShape DEF Reallocated, ArcheType
  <2>8. Len(b.entities) < b.capacity /\ Len(b.entities) <= b.capacity
    BY <1>1, <2>2, <2>4, <2>6, ArcheShape DEF ArcheSound
  <2>9. \A i \in DOMAIN b.freeList :
            b.freeList[i] \in DOMAIN b.entities /\ ~b.entities[b.freeList[i]].alive
    BY <2>2, <2>4, <2>5 DEF ArcheSound
  <2>10. ArcheSound(b)
    BY <2>2, <2>7, <2>8, <2>9 DEF ArcheSound
  <2> QED
    BY <2>2, <2>4, <2>5, <2>8, <2>10
<1> QED
  BY <1>2, <1>3

\* An entity is put where nobody lives, and its place is not on offer any more.
LEMMA PlacedSound ==
    ASSUME NEW a, ArcheSound(a), a.memory, Len(a.entities) < a.capacity,
           NEW x \in EntityRecord, NEW b, b = Placed(a, x)
    PROVE  /\ ArcheSound(b) /\ b.memory /\ b.components = a.components
           /\ DOMAIN b.entities = DOMAIN a.entities \cup {Place(a)}
           /\ b.entities[Place(a)] = x
           /\ \A e \in DOMAIN a.entities \ {Place(a)} : b.entities[e] = a.entities[e]
           /\ Place(a) \in DOMAIN a.entities => OnList(a, Place(a))
           /\ \A e : OnList(b, e) => OnList(a, e)
<1>0. a \in ArcheType
  BY DEF ArcheSound
<1>1. CASE a.freeList = <<>>
  <2> DEFINE es == Append(a.entities, x)
  <2>1. b = Storing(a, es, a.freeList) /\ Place(a) = Len(a.entities) + 1
    BY <1>1 DEF Placed, Place
  <2>2. /\ es \in Seq(EntityRecord)
        /\ Len(es) = Len(a.entities) + 1
        /\ \A e \in 1 .. Len(a.entities) : es[e] = a.entities[e]
        /\ es[Len(a.entities) + 1] = x
    BY <1>0, ArcheShape, AppendProperties
  <2> HIDE DEF es
  <2>3. /\ b \in ArcheType /\ b.components = a.components /\ b.capacity = a.capacity
        /\ b.memory /\ b.freeList = a.freeList
        /\ b.entities = es
    <3>1. a.freeList \in Seq(Nat)
      BY <1>0, ArcheShape
    <3> QED
      BY <1>0, <2>1, <2>2, <3>1, StoringParts
  <2>4. /\ DOMAIN b.entities = 1 .. Len(a.entities) + 1 /\ Len(b.entities) = Len(a.entities) + 1
        /\ DOMAIN a.entities = 1 .. Len(a.entities) /\ Len(a.entities) \in Nat
        /\ a.capacity \in Nat
    BY <1>0, <2>2, <2>3, ArcheShape
  <2>5. DOMAIN a.freeList = {}
    BY <1>1
  <2>6. ArcheSound(b)
    BY <2>3, <2>4, <2>5 DEF ArcheSound
  <2> QED
    BY <2>1, <2>2, <2>3, <2>4, <2>6 DEF OnList
<1>2. CASE a.freeList # <<>>
  <2> DEFINE e1 == Head(a.freeList)
  <2> DEFINE es == [a.entities EXCEPT ![e1] = x]
  <2> DEFINE fl == Tail(a.freeList)
  <2>1. b = Storing(a, es, fl) /\ Place(a) = e1
    BY <1>2 DEF Placed, Place
  <2>2. /\ a.freeList \in Seq(Nat) /\ Len(a.freeList) \in Nat \ {0}
        /\ DOMAIN a.freeList = 1 .. Len(a.freeList)
    BY <1>0, <1>2, ArcheShape, EmptySeq
  <2>3. /\ fl \in Seq(Nat) /\ Len(fl) = Len(a.freeList) - 1
        /\ DOMAIN fl = 1 .. Len(a.freeList) - 1
        /\ \A i \in 1 .. Len(a.freeList) - 1 : fl[i] = a.freeList[i + 1]
    BY <1>2, <2>2, HeadTailProperties, LenProperties
  <2>4. e1 = a.freeList[1] /\ 1 \in DOMAIN a.freeList
    BY <2>2
  <2>5. e1 \in DOMAIN a.entities /\ OnList(a, e1)
    BY <2>4 DEF ArcheSound, OnList
  <2>6. /\ es \in Seq(EntityRecord) /\ Len(es) = Len(a.entities)
        /\ DOMAIN es = DOMAIN a.entities /\ es[e1] = x
        /\ \A e \in DOMAIN a.entities \ {e1} : es[e] = a.entities[e]
    BY <1>0, <2>5, ArcheShape, ExceptSeq
  <2> HIDE DEF e1, es, fl
  <2>7. /\ b \in ArcheType /\ b.components = a.components /\ b.capacity = a.capacity
        /\ b.memory /\ b.freeList = fl /\ b.entities = es
    BY <1>0, <2>1, <2>3, <2>6, StoringParts
  <2>8. \A i \in DOMAIN b.freeList : /\ i + 1 \in DOMAIN a.freeList
                                     /\ b.freeList[i] = a.freeList[i + 1]
                                     /\ b.freeList[i] # e1
    <3> SUFFICES ASSUME NEW i \in 1 .. Len(a.freeList) - 1
                 PROVE  i + 1 \in DOMAIN a.freeList /\ a.freeList[i + 1] # a.freeList[1]
      BY <2>3, <2>4, <2>7
    <3>1. i + 1 \in DOMAIN a.freeList /\ i + 1 # 1
      BY <2>2
    <3> QED
      BY <2>4, <3>1 DEF ArcheSound
  <2>9. \A i \in DOMAIN b.freeList :
            b.freeList[i] \in DOMAIN b.entities /\ ~b.entities[b.freeList[i]].alive
    BY <2>6, <2>7, <2>8 DEF ArcheSound
  <2>10. \A i, j \in DOMAIN b.freeList : i # j => b.freeList[i] # b.freeList[j]
    <3> SUFFICES ASSUME NEW i \in DOMAIN b.freeList, NEW j \in DOMAIN b.freeList, i # j
                 PROVE  a.freeList[i + 1] # a.freeList[j + 1]
      BY <2>8
    <3>1. i \in Int /\ j \in Int
      BY <2>2, <2>3, <2>7
    <3>2. i + 1 # j + 1
      BY <3>1
    <3> QED
      BY <2>8, <3>2 DEF ArcheSound
  <2>11. ArcheSound(b)
    BY <2>6, <2>7, <2>9, <2>10 DEF ArcheSound
  <2> QED
    BY <2>1, <2>5, <2>6, <2>7, <2>8, <2>11 DEF OnList
<1> QED
  BY <1>1, <1>2

\* An entity is marked as gone; its place goes to the list, or is lost.
LEMMA BuriedSound ==
    ASSUME NEW a, ArcheSound(a), NEW e \in DOMAIN a.entities, a.entities[e].alive,
           NEW fl, fl = Append(a.freeList, e) \/ fl = a.freeList,
           NEW b, b = Storing(a, [a.entities EXCEPT ![e] = Buried(@)], fl)
    PROVE  /\ ArcheSound(b) /\ (b.memory <=> a.memory) /\ b.components = a.components
           /\ DOMAIN b.entities = DOMAIN a.entities /\ ~b.entities[e].alive
           /\ \A d \in DOMAIN a.entities \ {e} : b.entities[d] = a.entities[d]
           /\ \A d : OnList(b, d) => OnList(a, d) \/ d = e
<1> DEFINE es == [a.entities EXCEPT ![e] = Buried(@)]
<1>0. a \in ArcheType
  BY DEF ArcheSound
<1>1. /\ DOMAIN es = DOMAIN a.entities /\ es[e] = Buried(a.entities[e])
      /\ \A d \in DOMAIN a.entities \ {e} : es[d] = a.entities[d]
  OBVIOUS
<1>2. Buried(a.entities[e]) \in EntityRecord /\ ~Buried(a.entities[e]).alive
  BY <1>0, ArcheShape, EntitiesTyped DEF Buried
<1>3. es \in Seq(EntityRecord) /\ Len(es) = Len(a.entities)
  <2>1. es = [a.entities EXCEPT ![e] = Buried(a.entities[e])]
    OBVIOUS
  <2> QED
    BY <1>0, <1>2, <2>1, ArcheShape, ExceptSeq
<1>4. /\ Len(a.freeList) \in Nat /\ DOMAIN a.freeList = 1 .. Len(a.freeList)
      /\ a.freeList \in Seq(Nat) /\ e \in Nat
  BY <1>0, ArcheShape
<1>5. ~OnList(a, e)
  BY DEF ArcheSound, OnList
<1>6. /\ fl \in Seq(Nat)
      /\ \A i \in DOMAIN fl : \/ i \in DOMAIN a.freeList /\ fl[i] = a.freeList[i]
                              \/ i = Len(a.freeList) + 1 /\ fl[i] = e
  <2>1. CASE fl = Append(a.freeList, e)
    <3>1. /\ fl \in Seq(Nat) /\ Len(fl) = Len(a.freeList) + 1
          /\ \A i \in 1 .. Len(a.freeList) : fl[i] = a.freeList[i]
          /\ fl[Len(a.freeList) + 1] = e
      BY <1>4, <2>1, AppendProperties
    <3>2. DOMAIN fl = 1 .. Len(a.freeList) + 1
      BY <3>1, LenProperties
    <3> QED
      BY <1>4, <3>1, <3>2
  <2>2. CASE fl = a.freeList
    BY <1>4, <2>2
  <2> QED
    BY <2>1, <2>2
<1>7. b = Storing(a, es, fl)
  OBVIOUS
<1> HIDE DEF es
<1>8. /\ b \in ArcheType /\ b.components = a.components /\ b.capacity = a.capacity
      /\ b.memory = a.memory /\ b.freeList = fl /\ b.entities = es
  BY <1>0, <1>3, <1>6, <1>7, StoringSound
<1>9. \A i \in DOMAIN b.freeList :
          b.freeList[i] \in DOMAIN b.entities /\ ~b.entities[b.freeList[i]].alive
  <2> SUFFICES ASSUME NEW i \in DOMAIN fl
               PROVE  fl[i] \in DOMAIN es /\ ~es[fl[i]].alive
    BY <1>8
  <2>1. CASE fl[i] = e
    BY <1>1, <1>2, <2>1
  <2>2. CASE i \in DOMAIN a.freeList /\ fl[i] = a.freeList[i] /\ fl[i] # e
    <3>1. a.freeList[i] \in DOMAIN a.entities /\ ~a.entities[a.freeList[i]].alive
      BY <2>2 DEF ArcheSound
    <3> QED
      BY <1>1, <2>2, <3>1
  <2> QED
    BY <1>6, <2>1, <2>2
<1>10. \A i, j \in DOMAIN b.freeList : i # j => b.freeList[i] # b.freeList[j]
  <2> SUFFICES ASSUME NEW i \in DOMAIN fl, NEW j \in DOMAIN fl, i # j PROVE fl[i] # fl[j]
    BY <1>8
  <2>1. \A k \in DOMAIN a.freeList : a.freeList[k] # e
    BY <1>5 DEF OnList
  <2>2. CASE i \in DOMAIN a.freeList /\ j \in DOMAIN a.freeList
    BY <1>4, <1>6, <2>2 DEF ArcheSound
  <2>3. CASE i \in DOMAIN a.freeList /\ j \notin DOMAIN a.freeList
    BY <1>6, <2>1, <2>3
  <2>4. CASE i \notin DOMAIN a.freeList /\ j \in DOMAIN a.freeList
    BY <1>6, <2>1, <2>4
  <2>5. CASE i \notin DOMAIN a.freeList /\ j \notin DOMAIN a.freeList
    BY <1>6, <2>5
  <2> QED
    BY <2>2, <2>3, <2>4, <2>5
<1>11. ArcheSound(b)
  BY <1>3, <1>8, <1>9, <1>10 DEF ArcheSound
<1> QED
  <2>1. b.memory <=> a.memory
    BY <1>8, Zenon
  <2> QED
    BY <1>1, <1>2, <1>6, <1>8, <1>11, <2>1 DEF OnList

\* Data is stored in an entity that is alive.
LEMMA StoredSound ==
    ASSUME NEW a, ArcheSound(a), NEW e \in DOMAIN a.entities,
           NEW x \in EntityRecord, x.alive,
           NEW es, es = [a.entities EXCEPT ![e] = x],
           NEW b, b = Storing(a, es, a.freeList), a.entities[e].alive
    PROVE  /\ ArcheSound(b) /\ (b.memory <=> a.memory) /\ b.components = a.components
           /\ DOMAIN b.entities = DOMAIN a.entities
           /\ b.entities[e] = x
           /\ \A d \in DOMAIN a.entities \ {e} : b.entities[d] = a.entities[d]
           /\ b.freeList = a.freeList
<1>0. a \in ArcheType
  BY DEF ArcheSound
<1>1. x \in EntityRecord /\ x.alive
  OBVIOUS
<1>2. b = Storing(a, es, a.freeList)
  OBVIOUS
<1>3. /\ DOMAIN es = DOMAIN a.entities /\ es[e] = x
      /\ \A d \in DOMAIN a.entities \ {e} : es[d] = a.entities[d]
  OBVIOUS
<1>4. es \in Seq(EntityRecord) /\ Len(es) = Len(a.entities)
  BY <1>0, <1>1, ArcheShape, ExceptSeq
<1>5. /\ b \in ArcheType /\ b.components = a.components /\ b.capacity = a.capacity
      /\ b.memory = a.memory /\ b.freeList = a.freeList /\ b.entities = es
  <2>1. a.freeList \in Seq(Nat)
    BY <1>0, ArcheShape
  <2>2. ASSUME NEW ns \in Seq(EntityRecord)
        PROVE  /\ Storing(a, ns, a.freeList) \in ArcheType
               /\ Storing(a, ns, a.freeList).components = a.components
               /\ Storing(a, ns, a.freeList).capacity = a.capacity
               /\ Storing(a, ns, a.freeList).memory = a.memory
               /\ Storing(a, ns, a.freeList).entities = ns
               /\ Storing(a, ns, a.freeList).freeList = a.freeList
    BY <1>0, <2>1, StoringSound
  <2>3. es \in Seq(EntityRecord)
    BY <1>4
  <2>4. /\ Storing(a, es, a.freeList) \in ArcheType
        /\ Storing(a, es, a.freeList).components = a.components
        /\ Storing(a, es, a.freeList).capacity = a.capacity
        /\ Storing(a, es, a.freeList).memory = a.memory
        /\ Storing(a, es, a.freeList).entities = es
        /\ Storing(a, es, a.freeList).freeList = a.freeList
    BY ONLY <2>2, <2>3
  <2> QED
    BY ONLY <1>2, <2>4, Zenon
<1>6. \A j \in DOMAIN b.freeList :
          b.freeList[j] \in DOMAIN b.entities /\ ~b.entities[b.freeList[j]].alive
  <2> SUFFICES ASSUME NEW j \in DOMAIN a.freeList
               PROVE  a.freeList[j] \in DOMAIN es /\ ~es[a.freeList[j]].alive
    BY <1>5
  <2>1. a.freeList[j] \in DOMAIN a.entities /\ ~a.entities[a.freeList[j]].alive
    BY DEF ArcheSound
  <2>2. CASE a.freeList[j] = e
    BY <1>1, <1>3, <2>1, <2>2, Zenon
  <2>3. CASE a.freeList[j] # e
    BY <1>3, <2>1, <2>3
  <2> QED
    BY <1>3, <2>1, <2>2, <2>3
<1>7. ArcheSound(b)
  <2>1. Len(b.entities) <= b.capacity
    BY <1>4, <1>5 DEF ArcheSound
  <2>2. ~b.memory => Len(b.entities) = b.capacity
    BY <1>4, <1>5, Zenon DEF ArcheSound
  <2>3. \A j, k \in DOMAIN b.freeList : j # k => b.freeList[j] # b.freeList[k]
    BY <1>5 DEF ArcheSound
  <2> QED
    BY <1>5, <1>6, <2>1, <2>2, <2>3, Zenon DEF ArcheSound
<1> QED
  <2>1. b.memory <=> a.memory
    BY <1>5, Zenon
  <2> QED
    BY <1>1, <1>3, <1>5, <1>7, <2>1

-----------------------------------------------------------------------------
(* All archetypes, with the entities hd that clients have, of which ls are lost *)

\* The clients' entities in archetype a at index t.  A place with a lost entity is not on
\* the list: it is never given to another, who would share its handle.
Local(t, a, hd, ls) ==
    /\ \A e : Handle(t, e) \in DOMAIN hd => e \in DOMAIN a.entities
    /\ \A e : Handle(t, e) \in DOMAIN hd \ ls =>
                a.memory /\ a.entities[e].alive /\ a.entities[e] = hd[Handle(t, e)]
    /\ \A e \in DOMAIN a.entities :
          a.memory /\ a.entities[e].alive => Handle(t, e) \in DOMAIN hd \ ls
    /\ \A e : Handle(t, e) \in ls => ~OnList(a, e)

World(ats, hd, ls) ==
    /\ ats \in Seq(ArcheType)
    /\ \A t \in DOMAIN ats : ArcheSound(ats[t]) /\ Local(t, ats[t], hd, ls)
    /\ \A t, u \in DOMAIN ats : ats[t].components = ats[u].components => t = u
    /\ \A h \in DOMAIN hd : \E t \in DOMAIN ats, e \in Nat : h = Handle(t, e)
    /\ ls \subseteq DOMAIN hd

\* What is done in one archetype does not matter to the others.
LEMMA WorldChanged ==
    ASSUME NEW ats, NEW hd, NEW ls, World(ats, hd, ls), NEW t \in DOMAIN ats, NEW b,
           ArcheSound(b), b.components = ats[t].components,
           NEW hd2, NEW ls2, Local(t, b, hd2, ls2), ls2 \subseteq DOMAIN hd2,
           \A h \in DOMAIN hd2 \ DOMAIN hd : \E e \in Nat : h = Handle(t, e),
           \A u \in DOMAIN ats \ {t} : \A e :
              /\ Handle(u, e) \in DOMAIN hd2 <=> Handle(u, e) \in DOMAIN hd
              /\ Handle(u, e) \in DOMAIN hd => hd2[Handle(u, e)] = hd[Handle(u, e)]
              /\ Handle(u, e) \in ls2 <=> Handle(u, e) \in ls
    PROVE  World([ats EXCEPT ![t] = b], hd2, ls2)
<1> DEFINE ats2 == [ats EXCEPT ![t] = b]
<1>1. /\ DOMAIN ats2 = DOMAIN ats /\ ats2[t] = b
      /\ \A u \in DOMAIN ats \ {t} : ats2[u] = ats[u]
  OBVIOUS
<1>2. ats2 \in Seq(ArcheType)
  <2>1. b \in ArcheType /\ ats \in Seq(ArcheType) /\ t \in 1 .. Len(ats)
    BY LenProperties DEF World, ArcheSound
  <2> QED
    BY <2>1, ExceptSeq
<1> HIDE DEF ats2
<1>3. ASSUME NEW u \in DOMAIN ats \ {t} PROVE Local(u, ats2[u], hd2, ls2)
  <2>1. Local(u, ats[u], hd, ls) /\ ats2[u] = ats[u]
    BY <1>1 DEF World
  <2> QED
    BY <2>1 DEF Local
<1>4. \A u \in DOMAIN ats2 : ArcheSound(ats2[u]) /\ Local(u, ats2[u], hd2, ls2)
  BY <1>1, <1>3 DEF World
<1>5. \A u, v \in DOMAIN ats2 : ats2[u].components = ats2[v].components => u = v
  BY <1>1 DEF World
<1>6. \A h \in DOMAIN hd2 : \E u \in DOMAIN ats2, e \in Nat : h = Handle(u, e)
  BY <1>1 DEF World
<1> QED
  BY <1>2, <1>4, <1>5, <1>6 DEF World, ats2

LEMMA HandlesDiffer ==
    ASSUME NEW t, NEW e, NEW u, NEW d
    PROVE  Handle(t, e) = Handle(u, d) <=> t = u /\ e = d
  BY DEF Handle

\* EcsGetArcheType: the archetype of a list is there, or is added at the end.
LEMMA WorldWithArcheType ==
    ASSUME NEW list \in Lists, World(archeTypes, held, lost),
           NEW ats, ats = WithArcheType(list), NEW t, t = ArcheTypeIndex(list)
    PROVE  /\ World(ats, held, lost) /\ t \in DOMAIN ats /\ ats[t].components = list
           /\ Len(ats) \in Nat /\ Len(ats) <= Len(archeTypes) + 1
           /\ \A h \in DOMAIN held : \E u \in DOMAIN archeTypes, e \in Nat : h = Handle(u, e)
<1>0. /\ archeTypes \in Seq(ArcheType) /\ Len(archeTypes) \in Nat
      /\ DOMAIN archeTypes = 1 .. Len(archeTypes)
  BY LenProperties DEF World
<1>1. CASE Known(list) # {}
  <2>1. ats = archeTypes
    BY <1>1 DEF WithArcheType
  <2>2. PICK u \in Known(list) : TRUE
    BY <1>1
  <2>3. u \in DOMAIN archeTypes /\ archeTypes[u].components = list
    BY DEF Known, EcsCompareComponents
  <2>4. \A v \in Known(list) : v = u
    BY <2>3 DEF Known, EcsCompareComponents, World
  <2>5. u <= u
    BY <1>0, <2>3
  <2>6. \E v \in Known(list) : \A w \in Known(list) : v <= w
    BY <2>4, <2>5
  <2>7. t \in Known(list)
    BY <1>1, <2>6 DEF ArcheTypeIndex
  <2>8. t = u
    BY <2>4, <2>7
  <2> QED
    BY <1>0, <2>1, <2>3, <2>8 DEF World
<1>2. CASE Known(list) = {}
  <2> DEFINE n == NewArcheType(list)
  <2>1. ats = Append(archeTypes, n) /\ t = Len(archeTypes) + 1
    BY <1>2 DEF WithArcheType, ArcheTypeIndex
  <2>2. /\ n.components = list /\ n.capacity = 0 /\ n.memory = FALSE /\ n.entities = <<>>
        /\ n.freeList = <<>>
    BY DEF NewArcheType
  <2>3. n \in ArcheType
    BY EmptySeq DEF NewArcheType, ArcheType
  <2>4. ArcheSound(n)
    <3>1. DOMAIN n.freeList = {} /\ Len(n.entities) = n.capacity
      BY <2>2, EmptySeq
    <3>2. Len(n.entities) <= n.capacity
      BY <2>2, <3>1
    <3> HIDE DEF n
    <3> QED
      BY <2>3, <3>1, <3>2 DEF ArcheSound
  <2> HIDE DEF n
  <2>5. /\ ats \in Seq(ArcheType) /\ Len(ats) = Len(archeTypes) + 1
        /\ \A u \in 1 .. Len(archeTypes) : ats[u] = archeTypes[u]
        /\ ats[Len(archeTypes) + 1] = n /\ DOMAIN ats = 1 .. Len(archeTypes) + 1
    <3>1. /\ ats \in Seq(ArcheType) /\ Len(ats) = Len(archeTypes) + 1
          /\ \A u \in 1 .. Len(archeTypes) : ats[u] = archeTypes[u]
          /\ ats[Len(archeTypes) + 1] = n
      BY <1>0, <2>1, <2>3, AppendProperties
    <3> QED
      BY <3>1, LenProperties
  <2>6. t \notin DOMAIN archeTypes /\ DOMAIN ats = DOMAIN archeTypes \cup {t} /\ ats[t] = n
    BY <1>0, <2>1, <2>5
  <2>7. \A e : Handle(t, e) \notin DOMAIN held
    BY <2>6, HandlesDiffer DEF World
  <2>8. Local(t, n, held, lost)
    <3>1. DOMAIN n.entities = {}
      BY <2>2
    <3>2. lost \subseteq DOMAIN held
      BY DEF World
    <3> QED
      BY <2>7, <3>1, <3>2 DEF Local
  <2>9. \A u \in DOMAIN ats : ArcheSound(ats[u]) /\ Local(u, ats[u], held, lost)
    BY <1>0, <2>4, <2>5, <2>6, <2>8 DEF World
  <2>10. \A u \in DOMAIN archeTypes : archeTypes[u].components # list
    BY <1>2 DEF Known, EcsCompareComponents
  <2>11. \A u, v \in DOMAIN ats : ats[u].components = ats[v].components => u = v
    BY <1>0, <2>2, <2>5, <2>6, <2>10 DEF World
  <2>12. \A h \in DOMAIN held : \E u \in DOMAIN archeTypes, e \in Nat : h = Handle(u, e)
    BY DEF World
  <2>13. \A h \in DOMAIN held : \E u \in DOMAIN ats, e \in Nat : h = Handle(u, e)
    BY <2>6, <2>12
  <2>14. World(ats, held, lost)
    BY <2>5, <2>9, <2>11, <2>13 DEF World
  <2> QED
    BY <1>0, <2>2, <2>5, <2>6, <2>12, <2>14
<1> QED
  BY <1>1, <1>2

\* An entity is put in an archetype whose array has, or has been given, memory for it.
\* Its handle is nobody's.
LEMMA WorldPlaced ==
    ASSUME NEW ats, World(ats, held, lost), NEW t \in DOMAIN ats, NEW x \in EntityRecord,
           NEW a, a = WithPlace(ats[t]), NEW b, b = Placed(a, x), NEW h, h = Handle(t, Place(a))
    PROVE  /\ h \notin DOMAIN held
           /\ x.alive => World([ats EXCEPT ![t] = b], With(held, h, x), lost)
           /\ ~x.alive => World([ats EXCEPT ![t] = b], held, lost)
<1>1. ArcheSound(ats[t]) /\ Local(t, ats[t], held, lost) /\ lost \subseteq DOMAIN held
  BY DEF World
<1>2. /\ ArcheSound(a) /\ a.memory /\ Len(a.entities) < a.capacity
      /\ a.components = ats[t].components /\ a.freeList = ats[t].freeList
      /\ DOMAIN a.entities = DOMAIN ats[t].entities
      /\ ats[t].memory => a.entities = ats[t].entities
      /\ ~ats[t].memory => \A e \in DOMAIN a.entities : ~a.entities[e].alive
  BY <1>1, WithPlaceSound
<1>3. Local(t, a, held, lost)
  <2>1. CASE ats[t].memory
    BY <1>1, <1>2, <2>1 DEF Local, OnList
  <2>2. CASE ~ats[t].memory
    BY <1>1, <1>2, <2>2 DEF Local, OnList
  <2> QED
    BY <2>1, <2>2
<1>4. /\ ArcheSound(b) /\ b.memory /\ b.components = a.components
      /\ DOMAIN b.entities = DOMAIN a.entities \cup {Place(a)}
      /\ b.entities[Place(a)] = x
      /\ \A e \in DOMAIN a.entities \ {Place(a)} : b.entities[e] = a.entities[e]
      /\ Place(a) \in DOMAIN a.entities => OnList(a, Place(a))
      /\ \A e : OnList(b, e) => OnList(a, e)
  BY <1>2, PlacedSound
<1>5. h \notin DOMAIN held
  <2> SUFFICES ASSUME h \in DOMAIN held PROVE FALSE
    OBVIOUS
  <2>1. OnList(a, Place(a))
    BY <1>3, <1>4 DEF Local
  <2>2. ~a.entities[Place(a)].alive
    BY <1>2, <2>1 DEF ArcheSound, OnList
  <2> QED
    BY <1>3, <2>1, <2>2 DEF Local
<1>6. Place(a) \in Nat
  <2>1. b \in ArcheType
    BY <1>4 DEF ArcheSound
  <2>2. DOMAIN b.entities = 1 .. Len(b.entities) /\ Len(b.entities) \in Nat
    BY <2>1, ArcheShape
  <2> QED
    BY <1>4, <2>2
<1>7. \A e : OnList(b, e) => OnList(a, e)
  BY <1>4
<1>8. ASSUME x.alive PROVE World([ats EXCEPT ![t] = b], With(held, h, x), lost)
  <2> DEFINE hd == With(held, h, x)
  <2>1. /\ DOMAIN hd = DOMAIN held \cup {h} /\ hd[h] = x
        /\ \A g \in DOMAIN held : hd[g] = held[g]
    BY <1>5 DEF With
  <2>2. \A u, e : u # t => /\ Handle(u, e) \in DOMAIN hd <=> Handle(u, e) \in DOMAIN held
    BY <2>1, HandlesDiffer
  <2>3. \A e : e # Place(a) =>
               /\ Handle(t, e) \in DOMAIN hd <=> Handle(t, e) \in DOMAIN held
               /\ Handle(t, e) \in DOMAIN held => hd[Handle(t, e)] = held[Handle(t, e)]
    BY <2>1, HandlesDiffer
  <2> HIDE DEF hd
  <2>4. h \notin lost
    BY <1>1, <1>5
  <2>5. Local(t, b, hd, lost)
    <3>1. \A e : Handle(t, e) \in DOMAIN hd => e \in DOMAIN b.entities
      BY <1>3, <1>4, <2>3 DEF Local
    <3>2. ASSUME NEW e, Handle(t, e) \in DOMAIN hd \ lost
          PROVE  b.memory /\ b.entities[e].alive /\ b.entities[e] = hd[Handle(t, e)]
      <4>1. CASE e = Place(a)
        BY <1>4, <1>8, <2>1, <4>1
      <4>2. CASE e # Place(a)
        BY <1>3, <1>4, <2>3, <3>2, <4>2 DEF Local
      <4> QED
        BY <4>1, <4>2
    <3>3. ASSUME NEW e \in DOMAIN b.entities, b.entities[e].alive
          PROVE  Handle(t, e) \in DOMAIN hd \ lost
      <4>1. CASE e = Place(a)
        BY <2>1, <2>4, <4>1
      <4>2. CASE e # Place(a)
        BY <1>2, <1>3, <1>4, <2>3, <3>3, <4>2 DEF Local
      <4> QED
        BY <4>1, <4>2
    <3>4. \A e : Handle(t, e) \in lost => ~OnList(b, e)
      BY <1>3, <1>7 DEF Local
    <3> QED
      BY <3>1, <3>2, <3>3, <3>4 DEF Local
  <2>6. \A g \in DOMAIN hd \ DOMAIN held : \E e \in Nat : g = Handle(t, e)
    BY <1>6, <2>1
  <2>7. \A u \in DOMAIN ats \ {t} : \A e :
              /\ Handle(u, e) \in DOMAIN hd <=> Handle(u, e) \in DOMAIN held
              /\ Handle(u, e) \in DOMAIN held => hd[Handle(u, e)] = held[Handle(u, e)]
    BY <2>1, <2>2
  <2>8. lost \subseteq DOMAIN hd /\ b.components = ats[t].components
    BY <1>1, <1>2, <1>4, <2>1
  <2>9. World([ats EXCEPT ![t] = b], hd, lost)
    BY <1>4, <2>5, <2>6, <2>7, <2>8, WorldChanged
  <2> QED
    BY <2>9 DEF hd
<1>9. ASSUME ~x.alive PROVE World([ats EXCEPT ![t] = b], held, lost)
  <2>1. Local(t, b, held, lost)
    <3>1. \A e : Handle(t, e) \in DOMAIN held => e \in DOMAIN b.entities /\ e # Place(a)
      BY <1>3, <1>4, <1>5 DEF Local
    <3>2. ASSUME NEW e, Handle(t, e) \in DOMAIN held \ lost
          PROVE  b.memory /\ b.entities[e].alive /\ b.entities[e] = held[Handle(t, e)]
      BY <1>3, <1>4, <3>1, <3>2 DEF Local
    <3>3. ASSUME NEW e \in DOMAIN b.entities, b.entities[e].alive
          PROVE  Handle(t, e) \in DOMAIN held \ lost
      BY <1>2, <1>3, <1>4, <1>9, <3>3 DEF Local
    <3>4. \A e : Handle(t, e) \in lost => ~OnList(b, e)
      BY <1>3, <1>7 DEF Local
    <3> QED
      BY <3>1, <3>2, <3>3, <3>4 DEF Local
  <2>2. b.components = ats[t].components
    BY <1>2, <1>4
  <2> QED
    BY <1>1, <1>4, <2>1, <2>2, WorldChanged
<1> QED
  BY <1>5, <1>8, <1>9

\* The array of an archetype that is full cannot grow: its entities are lost.
LEMMA WorldLost ==
    ASSUME NEW ats, World(ats, held, lost), NEW t \in DOMAIN ats, NeedsPlace(ats[t]),
           NEW ls, ls = lost \cup {h \in DOMAIN held : h[1] = t}
    PROVE  World([ats EXCEPT ![t].memory = FALSE], held, ls)
<1> DEFINE a == ats[t]
<1> DEFINE b == [a EXCEPT !.memory = FALSE]
<1>1. ArcheSound(a) /\ Local(t, a, held, lost) /\ lost \subseteq DOMAIN held
  BY DEF World
<1>2. a \in ArcheType
  BY <1>1 DEF ArcheSound
<1>3. /\ b \in ArcheType /\ b.components = a.components /\ b.capacity = a.capacity
      /\ b.memory = FALSE /\ b.entities = a.entities /\ b.freeList = a.freeList
  BY <1>2 DEF ArcheType
<1>4. [ats EXCEPT ![t].memory = FALSE] = [ats EXCEPT ![t] = b]
  OBVIOUS
<1>5. Len(a.entities) = a.capacity
  BY <1>1, <1>2, ArcheShape DEF NeedsPlace, ArcheSound
<1> HIDE DEF b
<1>6. ArcheSound(b)
  BY <1>1, <1>3, <1>5 DEF ArcheSound
<1>7. \A e : Handle(t, e) \in ls <=> Handle(t, e) \in DOMAIN held
  BY <1>1 DEF Handle
<1>8. Local(t, b, held, ls)
  <2>1. \A e : Handle(t, e) \in ls => ~OnList(b, e)
    <3> SUFFICES ASSUME NEW e, Handle(t, e) \in DOMAIN held PROVE ~OnList(a, e)
      BY <1>3, <1>7 DEF OnList
    <3>1. CASE Handle(t, e) \in lost
      BY <1>1, <3>1 DEF Local
    <3>2. CASE Handle(t, e) \notin lost
      BY <1>1, <3>2 DEF Local, OnList, ArcheSound
    <3> QED
      BY <3>1, <3>2
  <2> QED
    BY <1>1, <1>3, <1>7, <2>1 DEF Local
<1>9. ls \subseteq DOMAIN held
  BY <1>1
<1>10. \A u \in DOMAIN ats \ {t} : \A e : Handle(u, e) \in ls <=> Handle(u, e) \in lost
  BY DEF Handle
<1>11. b.components = ats[t].components
  BY <1>3
<1> HIDE DEF a
<1>12. World([ats EXCEPT ![t] = b], held, ls)
  BY <1>6, <1>8, <1>9, <1>10, <1>11, WorldChanged
<1> QED
  BY <1>4, <1>12

\* An entity that is found is deleted.
LEMMA WorldBuried ==
    ASSUME World(archeTypes, held, lost), NEW t \in DOMAIN archeTypes, NEW a,
           a = archeTypes[t], NEW e \in DOMAIN a.entities, a.memory, a.entities[e].alive,
           NEW fl, fl = Append(a.freeList, e) \/ fl = a.freeList,
           NEW b, b = Storing(a, [a.entities EXCEPT ![e] = Buried(@)], fl)
    PROVE  /\ Handle(t, e) \in DOMAIN held
           /\ World([archeTypes EXCEPT ![t] = b], Without(held, Handle(t, e)), lost)
<1> DEFINE hd == Without(held, Handle(t, e))
<1>1. ArcheSound(a) /\ Local(t, a, held, lost) /\ lost \subseteq DOMAIN held
  BY DEF World
<1>2. /\ ArcheSound(b) /\ (b.memory <=> a.memory) /\ b.components = a.components
      /\ DOMAIN b.entities = DOMAIN a.entities /\ ~b.entities[e].alive
      /\ \A d \in DOMAIN a.entities \ {e} : b.entities[d] = a.entities[d]
      /\ \A d : OnList(b, d) => OnList(a, d) \/ d = e
  BY <1>1, BuriedSound
<1>3. b.memory
  BY <1>2
<1>4. Handle(t, e) \in DOMAIN held \ lost
  BY <1>1 DEF Local
<1>5. /\ DOMAIN hd = DOMAIN held \ {Handle(t, e)}
      /\ \A g \in DOMAIN hd : hd[g] = held[g]
  BY DEF Without
<1>6. \A d : d # e => /\ Handle(t, d) \in DOMAIN hd <=> Handle(t, d) \in DOMAIN held
                      /\ Handle(t, d) \in DOMAIN held => hd[Handle(t, d)] = held[Handle(t, d)]
  BY <1>5, HandlesDiffer
<1>7. Handle(t, e) \notin DOMAIN hd
  BY <1>5
<1> HIDE DEF hd
<1>8. Local(t, b, hd, lost)
  <2>1. \A d : Handle(t, d) \in DOMAIN hd => d \in DOMAIN b.entities /\ d # e
    BY <1>1, <1>2, <1>5, <1>7 DEF Local
  <2>2. ASSUME NEW d, Handle(t, d) \in DOMAIN hd \ lost
        PROVE  b.memory /\ b.entities[d].alive /\ b.entities[d] = hd[Handle(t, d)]
    BY <1>1, <1>2, <1>3, <1>6, <2>1, <2>2 DEF Local
  <2>3. ASSUME NEW d \in DOMAIN b.entities, b.entities[d].alive
        PROVE  Handle(t, d) \in DOMAIN hd \ lost
    BY <1>1, <1>2, <1>6, <2>3 DEF Local
  <2>4. \A d : Handle(t, d) \in lost => ~OnList(b, d)
    BY <1>1, <1>2, <1>4 DEF Local
  <2> QED
    BY <2>1, <2>2, <2>3, <2>4 DEF Local
<1>9. \A u \in DOMAIN archeTypes \ {t} : \A d :
              /\ Handle(u, d) \in DOMAIN hd <=> Handle(u, d) \in DOMAIN held
              /\ Handle(u, d) \in DOMAIN held => hd[Handle(u, d)] = held[Handle(u, d)]
  BY <1>5, HandlesDiffer
<1>10. lost \subseteq DOMAIN hd /\ DOMAIN hd \ DOMAIN held = {}
  BY <1>1, <1>4, <1>5
<1>11. b.components = archeTypes[t].components
  BY <1>2
<1>12. World([archeTypes EXCEPT ![t] = b], hd, lost)
  BY <1>2, <1>8, <1>9, <1>10, <1>11, WorldChanged
<1> QED
  BY <1>4, <1>12 DEF hd

\* Data is stored in an entity that is found.
LEMMA WorldStored ==
    ASSUME World(archeTypes, held, lost), NEW t \in DOMAIN archeTypes, NEW a,
           a = archeTypes[t], NEW e \in DOMAIN a.entities, a.memory, a.entities[e].alive,
           NEW i, NEW value \in Values, NEW b,
           b = Storing(a, [a.entities EXCEPT ![e] = Stored(@, i, value)], a.freeList)
    PROVE  World([archeTypes EXCEPT ![t] = b],
                 [held EXCEPT ![Handle(t, e)] = Stored(@, i, value)], lost)
<1> DEFINE h == Handle(t, e)
<1> DEFINE hd == [held EXCEPT ![h] = Stored(@, i, value)]
<1>1. ArcheSound(a) /\ Local(t, a, held, lost) /\ lost \subseteq DOMAIN held
  BY DEF World
<1> DEFINE x == Stored(a.entities[e], i, value)
<1> DEFINE es == [a.entities EXCEPT ![e] = x]
<1>0. x \in EntityRecord /\ x.alive
  <2>1. a.entities[e] \in EntityRecord
    BY <1>1, ArcheShape DEF ArcheSound
  <2>2. x \in EntityRecord
    BY <2>1, EntitiesTyped
  <2>3. x.alive = a.entities[e].alive
    BY DEF Stored
  <2> QED
    BY <2>2, <2>3, Zenon
<1>2. /\ ArcheSound(b) /\ (b.memory <=> a.memory) /\ b.components = a.components
      /\ DOMAIN b.entities = DOMAIN a.entities
      /\ b.entities[e] = x
      /\ \A d \in DOMAIN a.entities \ {e} : b.entities[d] = a.entities[d]
      /\ b.freeList = a.freeList
  <2>1. b = Storing(a, es, a.freeList) /\ es = [a.entities EXCEPT ![e] = x]
    OBVIOUS
  <2>2. a.entities[e].alive
    OBVIOUS
  <2> HIDE DEF x, es
  <2> QED
    BY <1>0, <1>1, <2>1, <2>2, StoredSound
<1> HIDE DEF x, es
<1>3. b.memory /\ b.entities[e].alive
  BY <1>0, <1>2
<1>4. h \in DOMAIN held \ lost /\ held[h] = a.entities[e]
  BY <1>1 DEF Local
<1>5. /\ DOMAIN hd = DOMAIN held /\ hd[h] = Stored(held[h], i, value)
      /\ \A g \in DOMAIN held \ {h} : hd[g] = held[g]
  BY <1>4
<1>6. hd[h] = b.entities[e]
  BY <1>2, <1>4, <1>5 DEF x
<1>7. \A d : d # e /\ Handle(t, d) \in DOMAIN held => hd[Handle(t, d)] = held[Handle(t, d)]
  BY <1>5, HandlesDiffer
<1> HIDE DEF hd
<1>8. Local(t, b, hd, lost)
  <2>1. ASSUME NEW d, Handle(t, d) \in DOMAIN hd \ lost
        PROVE  b.memory /\ b.entities[d].alive /\ b.entities[d] = hd[Handle(t, d)]
    <3>1. CASE d = e
      BY <1>3, <1>6, <3>1
    <3>2. CASE d # e
      BY <1>1, <1>2, <1>3, <1>5, <1>7, <2>1, <3>2 DEF Local
    <3> QED
      BY <3>1, <3>2
  <2>2. ASSUME NEW d \in DOMAIN b.entities, b.entities[d].alive
        PROVE  Handle(t, d) \in DOMAIN hd \ lost
    <3>1. CASE d = e
      BY <1>4, <1>5, <3>1
    <3>2. CASE d # e
      BY <1>1, <1>2, <1>5, <2>2, <3>2 DEF Local
    <3> QED
      BY <3>1, <3>2
  <2>3. \A d : Handle(t, d) \in DOMAIN hd => d \in DOMAIN b.entities
    BY <1>1, <1>2, <1>5 DEF Local
  <2>4. \A d : Handle(t, d) \in lost => ~OnList(b, d)
    BY <1>1, <1>2 DEF Local, OnList
  <2> QED
    BY <2>1, <2>2, <2>3, <2>4 DEF Local
<1>9. \A u \in DOMAIN archeTypes \ {t} : \A d :
              /\ Handle(u, d) \in DOMAIN hd <=> Handle(u, d) \in DOMAIN held
              /\ Handle(u, d) \in DOMAIN held => hd[Handle(u, d)] = held[Handle(u, d)]
  BY <1>5, HandlesDiffer
<1>10. lost \subseteq DOMAIN hd /\ DOMAIN hd \ DOMAIN held = {}
  BY <1>1, <1>5
<1>11. b.components = archeTypes[t].components
  BY <1>2
<1>12. World([archeTypes EXCEPT ![t] = b], hd, lost)
  BY <1>2, <1>8, <1>9, <1>10, <1>11, WorldChanged
<1> QED
  BY <1>12 DEF hd

-----------------------------------------------------------------------------
(* The inductive invariant *)

Counted == /\ IsFiniteSet(DOMAIN held)
           /\ population = Cardinality(DOMAIN held)
           /\ population <= MaxEntities

EcsInv ==
    /\ phase \in {"running", "panic", "fault"}
    /\ curComponentIndex \in 1 .. MAX_COMPONENT
    /\ ataCapacity \in Nat
    /\ Len(archeTypes) <= ataCapacity
    /\ World(archeTypes, held, lost)
    /\ Counted

LEMMA InitInv == Init => EcsInv
<1> SUFFICES ASSUME Init PROVE EcsInv
  OBVIOUS
<1>1. archeTypes \in Seq(ArcheType) /\ Len(archeTypes) = 0 /\ DOMAIN archeTypes = {}
  BY EmptySeq DEF Init
<1>2. DOMAIN held = {}
  BY DEF Init
<1>3. World(archeTypes, held, lost)
  BY <1>1, <1>2 DEF World, Init
<1>4. Counted
  BY <1>2, FS_EmptySet, BoundsAssumption DEF Counted, Init
<1> QED
  BY <1>1, <1>3, <1>4, BoundsAssumption DEF EcsInv, Init

\* The array of archetypes has room for one more.
LEMMA AtaRoom ==
    ASSUME EcsInv, AtaReady
    PROVE  ataCapacity' \in Nat /\ Len(archeTypes) \in Nat /\ Len(archeTypes) + 1 <= ataCapacity'
<1>1. Len(archeTypes) \in Nat /\ ataCapacity \in Nat /\ Len(archeTypes) <= ataCapacity
  BY LenProperties DEF EcsInv, World
<1>2. Grown(ataCapacity) \in Nat /\ Grown(ataCapacity) > ataCapacity
  BY <1>1, GrownIsLarger
<1> QED
  BY <1>1, <1>2 DEF AtaReady, ArcheTypesGrow

LEMMA CountedAdd ==
    ASSUME Counted, NEW h, h \notin DOMAIN held, population < MaxEntities, NEW x,
           held' = With(held, h, x), population' = population + 1
    PROVE  Counted'
<1>1. DOMAIN (held') = DOMAIN held \cup {h}
  BY DEF With
<1>2. IsFiniteSet(DOMAIN held \cup {h})
      /\ Cardinality(DOMAIN held \cup {h}) = Cardinality(DOMAIN held) + 1
  BY FS_AddElement DEF Counted
<1>3. Cardinality(DOMAIN held) \in Nat
  BY FS_CardinalityType DEF Counted
<1> QED
  BY <1>1, <1>2, <1>3, BoundsAssumption DEF Counted

LEMMA CountedRemove ==
    ASSUME Counted, NEW h \in DOMAIN held,
           held' = Without(held, h), population' = population - 1
    PROVE  Counted'
<1>1. DOMAIN (held') = DOMAIN held \ {h}
  BY DEF Without
<1>2. IsFiniteSet(DOMAIN held \ {h})
      /\ Cardinality(DOMAIN held \ {h}) = Cardinality(DOMAIN held) - 1
  BY FS_RemoveElement DEF Counted
<1>3. Cardinality(DOMAIN held) \in Nat
  BY FS_CardinalityType DEF Counted
<1> QED
  BY <1>1, <1>2, <1>3, BoundsAssumption DEF Counted

\* An archetype is changed where it is: there are as many as before.
LEMMA ChangedLength ==
    ASSUME NEW ats, ats \in Seq(ArcheType), NEW t, NEW b,
           NEW new, new = [ats EXCEPT ![t] = b], new \in Seq(ArcheType)
    PROVE  Len(new) = Len(ats) /\ Len(ats) \in Nat
<1>1. DOMAIN new = DOMAIN ats
  OBVIOUS
<1> QED
  BY <1>1, LenProperties

LEMMA HandleParts ==
    ASSUME NEW h \in Handles PROVE h = Handle(h[1], h[2])
<1>1. PICK t \in DOMAIN archeTypes, e \in 1 .. MaxPlaces : h = Handle(t, e)
  BY DEF Handles
<1> QED
  BY <1>1 DEF Handle

LEMMA CreateEntityInv ==
    ASSUME EcsInv, NEW list \in Lists, EcsCreateEntity(list) PROVE EcsInv'
<1> DEFINE t == ArcheTypeIndex(list)
<1> DEFINE ats == WithArcheType(list)
<1> DEFINE a == WithPlace(ats[t])
<1> DEFINE h == Handle(t, Place(a))
<1> DEFINE x == NewEntity(list)
<1> DEFINE b == Placed(a, x)
<1>1. /\ archeTypes' = [ats EXCEPT ![t] = b]
      /\ held' = With(held, h, x) /\ population' = population + 1
      /\ UNCHANGED <<phase, curComponentIndex, lost>>
      /\ population < MaxEntities /\ AtaReady
  BY DEF EcsCreateEntity, Creatable
<1>2. x \in EntityRecord /\ x.alive
  <2>1. x \in EntityRecord
    BY EntitiesTyped
  <2>2. x.alive
    BY DEF NewEntity
  <2> QED
    BY <2>1, <2>2
<1>3. /\ World(ats, held, lost) /\ t \in DOMAIN ats
      /\ Len(ats) \in Nat /\ Len(ats) <= Len(archeTypes) + 1
  BY WorldWithArcheType DEF EcsInv
<1> HIDE DEF t, ats, x
<1>4. h \notin DOMAIN held /\ World([ats EXCEPT ![t] = b], With(held, h, x), lost)
  <2>1. a = WithPlace(ats[t]) /\ b = Placed(a, x) /\ h = Handle(t, Place(a))
    OBVIOUS
  <2> HIDE DEF a, b, h
  <2> QED
    BY <1>2, <1>3, <2>1, WorldPlaced
<1> HIDE DEF a, b, h
<1>5. World(archeTypes', held', lost')
  BY <1>1, <1>4
<1>6. Len(archeTypes') <= ataCapacity' /\ ataCapacity' \in Nat
  <2>1. archeTypes' \in Seq(ArcheType) /\ ats \in Seq(ArcheType)
    BY <1>3, <1>5 DEF World
  <2>2. Len(archeTypes') = Len(ats)
    BY <1>1, <2>1, ChangedLength
  <2> QED
    BY <1>1, <1>3, <2>2, AtaRoom
<1>7. Counted'
  BY <1>1, <1>4, CountedAdd DEF EcsInv
<1> QED
  BY <1>1, <1>5, <1>6, <1>7 DEF EcsInv

LEMMA LosesArrayInv ==
    ASSUME EcsInv, NEW list \in Lists, CreateLosesArray(list) PROVE EcsInv'
<1> DEFINE t == ArcheTypeIndex(list)
<1> DEFINE ats == WithArcheType(list)
<1> DEFINE ls == lost \cup {h \in DOMAIN held : h[1] = t}
<1>1. /\ NeedsPlace(ats[t]) /\ archeTypes' = [ats EXCEPT ![t].memory = FALSE]
      /\ lost' = ls /\ AtaReady
      /\ UNCHANGED <<phase, curComponentIndex, held, population>>
  BY DEF CreateLosesArray
<1>2. /\ World(ats, held, lost) /\ t \in DOMAIN ats
      /\ Len(ats) \in Nat /\ Len(ats) <= Len(archeTypes) + 1
  BY WorldWithArcheType DEF EcsInv
<1>3. ls = lost \cup {h \in DOMAIN held : h[1] = t}
  OBVIOUS
<1> HIDE DEF t, ats, ls
<1>4. World([ats EXCEPT ![t].memory = FALSE], held, ls)
  BY <1>1, <1>2, <1>3, WorldLost
<1>5. World(archeTypes', held', lost')
  BY <1>1, <1>4
<1>6. Len(archeTypes') <= ataCapacity' /\ ataCapacity' \in Nat
  <2>1. archeTypes' \in Seq(ArcheType) /\ ats \in Seq(ArcheType)
    BY <1>2, <1>5 DEF World
  <2> DEFINE b == [ats[t] EXCEPT !.memory = FALSE]
  <2>2. archeTypes' = [ats EXCEPT ![t] = b]
    BY <1>1
  <2> HIDE DEF b
  <2>3. Len(archeTypes') = Len(ats)
    BY <2>1, <2>2, ChangedLength
  <2> QED
    BY <1>1, <1>2, <2>3, AtaRoom
<1>7. Counted'
  BY <1>1 DEF EcsInv, Counted
<1> QED
  BY <1>1, <1>5, <1>6, <1>7 DEF EcsInv

LEMMA LosesPlaceInv ==
    ASSUME EcsInv, NEW list \in Lists, CreateLosesPlace(list) PROVE EcsInv'
<1> DEFINE t == ArcheTypeIndex(list)
<1> DEFINE ats == WithArcheType(list)
<1> DEFINE a == WithPlace(ats[t])
<1> DEFINE h == Handle(t, Place(a))
<1> DEFINE x == HalfEntity(list)
<1> DEFINE b == Placed(a, x)
<1>1. /\ archeTypes' = [ats EXCEPT ![t] = b] /\ AtaReady
      /\ UNCHANGED <<phase, curComponentIndex, held, lost, population>>
  BY DEF CreateLosesPlace
<1>2. x \in EntityRecord /\ ~x.alive
  <2>1. x \in EntityRecord
    BY EntitiesTyped
  <2>2. ~x.alive
    BY DEF HalfEntity
  <2> QED
    BY <2>1, <2>2
<1>3. /\ World(ats, held, lost) /\ t \in DOMAIN ats
      /\ Len(ats) \in Nat /\ Len(ats) <= Len(archeTypes) + 1
  BY WorldWithArcheType DEF EcsInv
<1> HIDE DEF t, ats, x
<1>4. World([ats EXCEPT ![t] = b], held, lost)
  <2>1. a = WithPlace(ats[t]) /\ b = Placed(a, x) /\ h = Handle(t, Place(a))
    OBVIOUS
  <2> HIDE DEF a, b, h
  <2> QED
    BY <1>2, <1>3, <2>1, WorldPlaced
<1> HIDE DEF a, b, h
<1>5. World(archeTypes', held', lost')
  BY <1>1, <1>4
<1>6. Len(archeTypes') <= ataCapacity' /\ ataCapacity' \in Nat
  <2>1. archeTypes' \in Seq(ArcheType) /\ ats \in Seq(ArcheType)
    BY <1>3, <1>5 DEF World
  <2>2. Len(archeTypes') = Len(ats)
    BY <1>1, <2>1, ChangedLength
  <2> QED
    BY <1>1, <1>3, <2>2, AtaRoom
<1>7. Counted'
  BY <1>1 DEF EcsInv, Counted
<1> QED
  BY <1>1, <1>5, <1>6, <1>7 DEF EcsInv

LEMMA DeleteInv ==
    ASSUME EcsInv, NEW h \in Handles, EcsDeleteEntity(h) PROVE EcsInv'
<1> DEFINE t == h[1]
<1> DEFINE e == h[2]
<1> DEFINE a == archeTypes[t]
<1> DEFINE es == [a.entities EXCEPT ![e] = Buried(@)]
<1>1. h = Handle(t, e)
  BY HandleParts
<1>2. t \in DOMAIN archeTypes /\ a.memory /\ e \in DOMAIN a.entities /\ a.entities[e].alive
  BY DEF EcsDeleteEntity, EcsGetEntity
<1>3. /\ held' = Without(held, h)
      /\ population' = population - (IF h \in DOMAIN held THEN 1 ELSE 0)
      /\ UNCHANGED <<phase, curComponentIndex, ataCapacity, lost>>
  BY DEF EcsDeleteEntity
<1>4. PICK fl \in {Append(a.freeList, e), a.freeList} :
          archeTypes' = [archeTypes EXCEPT ![t] = Storing(a, es, fl)]
  BY DEF EcsDeleteEntity
<1> DEFINE b == Storing(a, es, fl)
<1>5. /\ a = archeTypes[t] /\ (fl = Append(a.freeList, e) \/ fl = a.freeList)
      /\ b = Storing(a, [a.entities EXCEPT ![e] = Buried(@)], fl)
      /\ World(archeTypes, held, lost)
  BY <1>4 DEF EcsInv
<1>6. archeTypes' = [archeTypes EXCEPT ![t] = b]
  BY <1>4
<1> HIDE DEF t, e, a, b, es
<1>7. /\ Handle(t, e) \in DOMAIN held
      /\ World([archeTypes EXCEPT ![t] = b], Without(held, Handle(t, e)), lost)
  BY <1>2, <1>5, WorldBuried
<1>8. World(archeTypes', held', lost')
  BY <1>1, <1>3, <1>6, <1>7
<1>9. Len(archeTypes') = Len(archeTypes)
  <2>1. archeTypes' \in Seq(ArcheType) /\ archeTypes \in Seq(ArcheType)
    BY <1>5, <1>8 DEF World
  <2> QED
    BY <1>6, <2>1, ChangedLength
<1>10. Counted'
  <2>1. h \in DOMAIN held /\ population' = population - 1
    BY <1>1, <1>3, <1>7
  <2> QED
    BY <1>3, <2>1, CountedRemove DEF EcsInv
<1> QED
  BY <1>3, <1>8, <1>9, <1>10 DEF EcsInv

LEMMA AddDataInv ==
    ASSUME EcsInv, NEW h \in DOMAIN held, NEW c, NEW value \in Values,
           EcsAddComponentDataToEntity(h, c, value)
    PROVE  EcsInv'
<1>0. PICK t \in DOMAIN archeTypes, e \in Nat : h = Handle(t, e)
  BY DEF EcsInv, World
<1> DEFINE a == archeTypes[t]
<1>1. h[1] = t /\ h[2] = e
  BY <1>0 DEF Handle
<1>2. a.memory /\ e \in DOMAIN a.entities /\ a.entities[e].alive
  BY <1>1 DEF EcsAddComponentDataToEntity, EcsGetEntity
<1>3. UNCHANGED <<phase, curComponentIndex, ataCapacity, lost, population>>
  BY DEF EcsAddComponentDataToEntity
<1>4. PICK i \in First(Entity(h).components, c) :
         /\ archeTypes' = [archeTypes EXCEPT ![h[1]] =
               Storing(archeTypes[h[1]],
                       [archeTypes[h[1]].entities EXCEPT ![h[2]] = Stored(@, i, value)],
                       archeTypes[h[1]].freeList)]
         /\ held' = [held EXCEPT ![h] = Stored(@, i, value)]
  BY DEF EcsAddComponentDataToEntity
<1> DEFINE b == Storing(a, [a.entities EXCEPT ![e] = Stored(@, i, value)], a.freeList)
<1>5. /\ a = archeTypes[t] /\ World(archeTypes, held, lost)
      /\ b = Storing(a, [a.entities EXCEPT ![e] = Stored(@, i, value)], a.freeList)
  BY DEF EcsInv
<1>6. archeTypes' = [archeTypes EXCEPT ![t] = b]
  BY <1>1, <1>4
<1>7. held' = [held EXCEPT ![Handle(t, e)] = Stored(@, i, value)]
  BY <1>0, <1>4
<1> HIDE DEF a, b
<1>8. World([archeTypes EXCEPT ![t] = b],
            [held EXCEPT ![Handle(t, e)] = Stored(@, i, value)], lost)
  BY <1>2, <1>5, WorldStored
<1>9. World(archeTypes', held', lost')
  BY <1>3, <1>6, <1>7, <1>8
<1>10. Len(archeTypes') = Len(archeTypes)
  <2>1. archeTypes' \in Seq(ArcheType) /\ archeTypes \in Seq(ArcheType)
    BY <1>5, <1>9 DEF World
  <2> QED
    BY <1>6, <2>1, ChangedLength
<1>11. Counted'
  <2>1. DOMAIN (held') = DOMAIN held
    BY <1>7
  <2> QED
    BY <1>3, <2>1 DEF EcsInv, Counted
<1> QED
  BY <1>3, <1>9, <1>10, <1>11 DEF EcsInv

LEMMA NextInv == EcsInv /\ [Next]_vars => EcsInv'
<1> SUFFICES ASSUME EcsInv, [Next]_vars PROVE EcsInv'
  OBVIOUS
<1>1. CASE EcsCreateNewComponent
  <2>1. curComponentIndex' \in 1 .. MAX_COMPONENT
    BY <1>1, BoundsAssumption DEF EcsInv, EcsCreateNewComponent
  <2> QED
    BY <1>1, <2>1 DEF EcsInv, Counted, EcsCreateNewComponent
<1>2. CASE AtaPanics
  BY <1>2 DEF EcsInv, Counted, AtaPanics
<1>3. ASSUME NEW list \in Lists, EcsCreateEntity(list) PROVE EcsInv'
  BY <1>3, CreateEntityInv
<1>4. ASSUME NEW list \in Lists, CreateLosesArray(list) PROVE EcsInv'
  BY <1>4, LosesArrayInv
<1>5. ASSUME NEW list \in Lists, CreateLosesPlace(list) PROVE EcsInv'
  BY <1>5, LosesPlaceInv
<1>6. ASSUME NEW h \in Handles, EcsDeleteEntity(h) PROVE EcsInv'
  BY <1>6, DeleteInv
<1>7. ASSUME NEW h \in Handles, FollowsNull(h) PROVE EcsInv'
  BY <1>7 DEF EcsInv, Counted, FollowsNull
<1>8. ASSUME NEW h \in DOMAIN held, NEW c \in 1 .. (MAX_COMPONENT - 1), NEW value \in Values,
             EcsAddComponentDataToEntity(h, c, value)
      PROVE  EcsInv'
  BY <1>8, AddDataInv
<1>9. CASE Stopped \/ UNCHANGED vars
  BY <1>9 DEF EcsInv, Counted, Stopped, vars
<1> QED
  BY <1>1, <1>2, <1>3, <1>4, <1>5, <1>6, <1>7, <1>8, <1>9 DEF Next

LEMMA SpecInv == Spec => []EcsInv
  BY InitInv, NextInv, PTL DEF Spec

-----------------------------------------------------------------------------
(* The theorems *)

\* The variables keep their types and no array is used beyond its end: for every
\* initial capacity and factor of growth, whatever fails.
THEOREM TypeCorrect == Spec => []TypeOK
<1>1. EcsInv => TypeOK
  <2> SUFFICES ASSUME EcsInv PROVE TypeOK
    OBVIOUS
  <2>1. /\ phase \in {"running", "panic", "fault"} /\ curComponentIndex \in 1 .. MAX_COMPONENT
        /\ Len(archeTypes) <= ataCapacity /\ lost \subseteq DOMAIN held
    BY DEF EcsInv, World
  <2>2. population \in 0 .. MaxEntities
    BY FS_CardinalityType, BoundsAssumption DEF EcsInv, Counted
  <2>3. ASSUME NEW t \in DOMAIN archeTypes
        PROVE  /\ archeTypes[t].components \in Lists /\ archeTypes[t].memory \in BOOLEAN
               /\ archeTypes[t].entities \in Seq(EntityRecord)
               /\ archeTypes[t].freeList \in Seq(DOMAIN archeTypes[t].entities)
               /\ Len(archeTypes[t].entities) <= archeTypes[t].capacity
               /\ \A u \in DOMAIN archeTypes :
                     archeTypes[u].components = archeTypes[t].components => u = t
    <3> DEFINE a == archeTypes[t]
    <3>1. ArcheSound(a) /\ a \in ArcheType
      BY DEF EcsInv, World, ArcheSound
    <3>2. \A u \in DOMAIN archeTypes : archeTypes[u].components = a.components => u = t
      BY DEF EcsInv, World
    <3> HIDE DEF a
    <3>3. /\ a.components \in Lists /\ a.memory \in BOOLEAN
          /\ a.entities \in Seq(EntityRecord) /\ a.freeList \in Seq(Nat)
          /\ Len(a.freeList) \in Nat /\ DOMAIN a.freeList = 1 .. Len(a.freeList)
      BY <3>1, ArcheShape
    <3>4. Len(a.entities) <= a.capacity
      BY <3>1 DEF ArcheSound
    <3>5. a.freeList \in Seq(DOMAIN a.entities)
      <4>1. a.freeList = [i \in 1 .. Len(a.freeList) |-> a.freeList[i]]
        BY <3>3
      <4>2. \A i \in 1 .. Len(a.freeList) : a.freeList[i] \in DOMAIN a.entities
        BY <3>1, <3>3 DEF ArcheSound
      <4> QED
        BY <3>3, <4>1, <4>2, FunctionIsSeq
    <3> QED
      BY <3>2, <3>3, <3>4, <3>5 DEF a
  <2> QED
    BY <2>1, <2>2, <2>3 DEF TypeOK
<1> QED
  BY <1>1, SpecInv, PTL

\* The theorem about failures of memory in EcsCreateEntity and about growth: entities are
\* found with their data, in any number and any order of calls, except those whose own
\* array was lost.
THEOREM EntitiesKept == Spec => []LossContained
<1>1. EcsInv => LossContained
  <2> SUFFICES ASSUME EcsInv, NEW h \in DOMAIN held \ lost PROVE Found(h)
    BY DEF LossContained
  <2>1. PICK t \in DOMAIN archeTypes, e \in Nat : h = Handle(t, e)
    BY DEF EcsInv, World
  <2>2. Local(t, archeTypes[t], held, lost)
    BY DEF EcsInv, World
  <2>3. /\ archeTypes[t].memory /\ e \in DOMAIN archeTypes[t].entities
        /\ archeTypes[t].entities[e].alive /\ archeTypes[t].entities[e] = held[h]
    BY <2>1, <2>2 DEF Local
  <2>4. h[1] = t /\ h[2] = e
    BY <2>1 DEF Handle
  <2> QED
    BY <2>3, <2>4 DEF Found, EcsGetEntity, Entity
<1> QED
  BY <1>1, SpecInv, PTL

\* EcsCreateEntity returns a handle nobody else has, places that are used again included.
THEOREM HandlesUnique == Spec => []NeverShared
<1>1. EcsInv => NeverShared
  BY DEF EcsInv, Counted, NeverShared
<1> QED
  BY <1>1, SpecInv, PTL

\* EcsGetEntity refuses the handle of a deleted entity until its place is taken again.
THEOREM StaleRefused == Spec => []DeletedRefused
<1>1. EcsInv => DeletedRefused
  <2> SUFFICES ASSUME EcsInv, NEW h \in Handles, EcsGetEntity(h) PROVE h \in DOMAIN held
    BY DEF DeletedRefused
  <2>1. h = Handle(h[1], h[2])
    BY HandleParts
  <2>2. /\ h[1] \in DOMAIN archeTypes /\ archeTypes[h[1]].memory
        /\ h[2] \in DOMAIN archeTypes[h[1]].entities /\ archeTypes[h[1]].entities[h[2]].alive
    BY DEF EcsGetEntity
  <2>3. Local(h[1], archeTypes[h[1]], held, lost)
    BY <2>2 DEF EcsInv, World
  <2> QED
    BY <2>1, <2>2, <2>3 DEF Local
<1> QED
  BY <1>1, SpecInv, PTL

\* The list of free places of EcsDeleteEntity never names a place twice, nor one in use.
THEOREM FreeListSound == Spec => []FreePlacesIdle
<1>1. EcsInv /\ TypeOK => FreePlacesIdle
  <2> SUFFICES ASSUME EcsInv, TypeOK PROVE FreePlacesIdle
    OBVIOUS
  <2>1. \A t \in DOMAIN archeTypes : ArcheSound(archeTypes[t])
    BY DEF EcsInv, World
  <2>2. ASSUME NEW t \in DOMAIN archeTypes
        PROVE  /\ \A i, j \in DOMAIN archeTypes[t].freeList :
                     i # j => archeTypes[t].freeList[i] # archeTypes[t].freeList[j]
               /\ \A i \in DOMAIN archeTypes[t].freeList :
                     ~archeTypes[t].entities[archeTypes[t].freeList[i]].alive
    BY <2>1 DEF ArcheSound
  <2> QED
    BY <2>2 DEF FreePlacesIdle
<1> QED
  BY <1>1, SpecInv, TypeCorrect, PTL

-----------------------------------------------------------------------------
(* The refinement: the store that clients see *)

\* What is found of the entities hd, of which ls are lost.
Public(hd, ls) == [h \in DOMAIN hd \ ls |-> Seen(hd[h])]

\* The entities of an archetype have its components.
GroupedIn(ats, hd) ==
    \A h \in DOMAIN hd : h[1] \in DOMAIN ats /\ hd[h].components = ats[h[1]].components
Grouped == GroupedIn(archeTypes, held)

\* EcsGetEntity finds what clients have and have not lost.
LEMMA StoreIs == EcsInv => StoreOf = Public(held, lost)
<1> SUFFICES ASSUME EcsInv PROVE StoreOf = Public(held, lost)
  OBVIOUS
<1>1. ASSUME NEW h \in Visible PROVE h \in DOMAIN held \ lost
  <2>0. PICK t \in DOMAIN archeTypes : \E d \in DOMAIN archeTypes[t].entities : h = Handle(t, d)
    BY DEF Visible
  <2>1. PICK e \in DOMAIN archeTypes[t].entities : h = Handle(t, e)
    BY <2>0
  <2>2. EcsGetEntity(h) /\ h[1] = t /\ h[2] = e
    BY <2>1 DEF Visible, Handle
  <2>3. archeTypes[t].memory /\ archeTypes[t].entities[e].alive
    BY <2>2 DEF EcsGetEntity
  <2>4. Local(t, archeTypes[t], held, lost)
    BY DEF EcsInv, World
  <2> QED
    BY <2>1, <2>3, <2>4 DEF Local
<1>2. ASSUME NEW h \in DOMAIN held \ lost PROVE h \in Visible /\ Entity(h) = held[h]
  <2>1. PICK t \in DOMAIN archeTypes, e \in Nat : h = Handle(t, e)
    BY DEF EcsInv, World
  <2>2. Local(t, archeTypes[t], held, lost)
    BY DEF EcsInv, World
  <2>3. /\ archeTypes[t].memory /\ e \in DOMAIN archeTypes[t].entities
        /\ archeTypes[t].entities[e].alive /\ archeTypes[t].entities[e] = held[h]
    BY <2>1, <2>2 DEF Local
  <2>4. h[1] = t /\ h[2] = e
    BY <2>1 DEF Handle
  <2>5. EcsGetEntity(h) /\ Entity(h) = held[h]
    BY <2>3, <2>4 DEF EcsGetEntity, Entity
  <2>6. h \in UNION {{Handle(u, d) : d \in DOMAIN archeTypes[u].entities} : u \in DOMAIN archeTypes}
    BY <2>1, <2>3
  <2> QED
    BY <2>5, <2>6 DEF Visible
<1>3. Visible = DOMAIN held \ lost
  BY <1>1, <1>2
<1>4. \A h \in Visible : Seen(Entity(h)) = Seen(held[h])
  BY <1>2, <1>3
<1> QED
  BY <1>3, <1>4 DEF StoreOf, Public

\* Archetypes keep their places and their components.
Continued(ats, new) ==
    \A u \in DOMAIN ats : u \in DOMAIN new /\ new[u].components = ats[u].components

LEMMA ContinuedWithArcheType ==
    ASSUME NEW list, archeTypes \in Seq(ArcheType), NEW ats, ats = WithArcheType(list),
           NEW t \in DOMAIN ats, NEW b, b.components = ats[t].components
    PROVE  /\ Continued(archeTypes, [ats EXCEPT ![t] = b])
           /\ [ats EXCEPT ![t] = b][t].components = ats[t].components
<1>1. \A u \in DOMAIN archeTypes : u \in DOMAIN ats /\ ats[u] = archeTypes[u]
  <2>1. CASE Known(list) # {}
    BY <2>1 DEF WithArcheType
  <2>2. CASE Known(list) = {}
    <3> DEFINE n == NewArcheType(list)
    <3>1. ats = Append(archeTypes, n)
      BY <2>2 DEF WithArcheType
    <3> HIDE DEF n
    <3>2. DOMAIN archeTypes = 1 .. Len(archeTypes) /\ Len(archeTypes) \in Nat
      BY LenProperties
    <3> QED
      BY <3>1, <3>2
  <2> QED
    BY <2>1, <2>2
<1> QED
  BY <1>1 DEF Continued

LEMMA ContinuedChanged ==
    ASSUME NEW ats, NEW t \in DOMAIN ats, NEW b, b.components = ats[t].components
    PROVE  Continued(ats, [ats EXCEPT ![t] = b])
  BY DEF Continued

\* What is created, and where.
LEMMA CreateStep ==
    ASSUME EcsInv, NEW list \in Lists, EcsCreateEntity(list)
    PROVE  \E h : /\ h \notin DOMAIN held /\ held' = With(held, h, NewEntity(list))
                  /\ lost' = lost /\ Continued(archeTypes, archeTypes')
                  /\ h[1] \in DOMAIN archeTypes' /\ archeTypes'[h[1]].components = list
<1> DEFINE t == ArcheTypeIndex(list)
<1> DEFINE ats == WithArcheType(list)
<1> DEFINE a == WithPlace(ats[t])
<1> DEFINE h == Handle(t, Place(a))
<1> DEFINE x == NewEntity(list)
<1> DEFINE b == Placed(a, x)
<1>1. archeTypes' = [ats EXCEPT ![t] = b] /\ held' = With(held, h, x) /\ lost' = lost
  BY DEF EcsCreateEntity
<1>2. x \in EntityRecord
  BY EntitiesTyped
<1>3. /\ World(archeTypes, held, lost) /\ World(ats, held, lost)
      /\ t \in DOMAIN ats /\ ats[t].components = list
  BY WorldWithArcheType DEF EcsInv
<1>4. h[1] = t
  BY DEF Handle
<1>5. ats = WithArcheType(list) /\ a = WithPlace(ats[t]) /\ b = Placed(a, x)
      /\ h = Handle(t, Place(a)) /\ x = NewEntity(list)
  OBVIOUS
<1> HIDE DEF t, ats, a, h, x, b
<1>6. h \notin DOMAIN held
  BY <1>2, <1>3, <1>5, WorldPlaced
<1>7. b.components = ats[t].components
  <2>1. ArcheSound(ats[t])
    BY <1>3 DEF World
  <2>2. ArcheSound(a) /\ a.memory /\ Len(a.entities) < a.capacity
        /\ a.components = ats[t].components
    BY <1>5, <2>1, WithPlaceSound
  <2> QED
    BY <1>2, <1>5, <2>2, PlacedSound
<1>8. archeTypes \in Seq(ArcheType)
  BY <1>3 DEF World
<1>9. /\ Continued(archeTypes, [ats EXCEPT ![t] = b])
      /\ [ats EXCEPT ![t] = b][t].components = ats[t].components
  BY <1>3, <1>5, <1>7, <1>8, ContinuedWithArcheType
<1>10. t \in DOMAIN [ats EXCEPT ![t] = b]
  BY <1>3
<1> QED
  BY <1>1, <1>3, <1>4, <1>5, <1>6, <1>9, <1>10

\* A creation that fails for want of an arena leaves the clients' entities alone.
LEMMA LosesPlaceStep ==
    ASSUME EcsInv, NEW list \in Lists, CreateLosesPlace(list)
    PROVE  held' = held /\ lost' = lost /\ Continued(archeTypes, archeTypes')
<1> DEFINE t == ArcheTypeIndex(list)
<1> DEFINE ats == WithArcheType(list)
<1> DEFINE a == WithPlace(ats[t])
<1> DEFINE x == HalfEntity(list)
<1> DEFINE b == Placed(a, x)
<1>1. archeTypes' = [ats EXCEPT ![t] = b] /\ held' = held /\ lost' = lost
  BY DEF CreateLosesPlace
<1>2. x \in EntityRecord
  BY EntitiesTyped
<1>3. /\ World(archeTypes, held, lost) /\ World(ats, held, lost) /\ t \in DOMAIN ats
  BY WorldWithArcheType DEF EcsInv
<1>4. ats = WithArcheType(list) /\ a = WithPlace(ats[t]) /\ b = Placed(a, x)
  OBVIOUS
<1> HIDE DEF t, ats, a, x, b
<1>5. b.components = ats[t].components
  <2>1. ArcheSound(ats[t])
    BY <1>3 DEF World
  <2>2. ArcheSound(a) /\ a.memory /\ Len(a.entities) < a.capacity
        /\ a.components = ats[t].components
    BY <1>4, <2>1, WithPlaceSound
  <2> QED
    BY <1>2, <1>4, <2>2, PlacedSound
<1>6. archeTypes \in Seq(ArcheType)
  BY <1>3 DEF World
<1>7. Continued(archeTypes, [ats EXCEPT ![t] = b])
  BY <1>3, <1>4, <1>5, <1>6, ContinuedWithArcheType
<1> QED
  BY <1>1, <1>7

\* A creation that fails for want of an array loses the entities of its archetype.
LEMMA LosesArrayStep ==
    ASSUME EcsInv, NEW list \in Lists, CreateLosesArray(list)
    PROVE  \E t : /\ t \in DOMAIN archeTypes' /\ archeTypes'[t].components = list
                  /\ lost' = lost \cup {h \in DOMAIN held : h[1] = t}
                  /\ held' = held /\ Continued(archeTypes, archeTypes')
<1> DEFINE t == ArcheTypeIndex(list)
<1> DEFINE ats == WithArcheType(list)
<1> DEFINE b == [ats[t] EXCEPT !.memory = FALSE]
<1>1. /\ archeTypes' = [ats EXCEPT ![t] = b] /\ held' = held
      /\ lost' = lost \cup {h \in DOMAIN held : h[1] = t}
  BY DEF CreateLosesArray
<1>2. /\ World(archeTypes, held, lost) /\ World(ats, held, lost)
      /\ t \in DOMAIN ats /\ ats[t].components = list
  BY WorldWithArcheType DEF EcsInv
<1>3. ats = WithArcheType(list)
  OBVIOUS
<1>4. b.components = ats[t].components
  <2>1. ats[t] \in ArcheType
    BY <1>2 DEF World, ArcheSound
  <2> HIDE DEF ats, t
  <2> QED
    BY <2>1 DEF ArcheType
<1> HIDE DEF t, ats, b
<1>5. archeTypes \in Seq(ArcheType)
  BY <1>2 DEF World
<1>6. /\ Continued(archeTypes, [ats EXCEPT ![t] = b])
      /\ [ats EXCEPT ![t] = b][t].components = ats[t].components
  BY <1>2, <1>3, <1>4, <1>5, ContinuedWithArcheType
<1>7. t \in DOMAIN [ats EXCEPT ![t] = b]
  BY <1>2
<1> QED
  BY <1>1, <1>2, <1>6, <1>7

\* Only what is found is deleted.
LEMMA DeleteStep ==
    ASSUME EcsInv, NEW h \in Handles, EcsDeleteEntity(h)
    PROVE  /\ h \in DOMAIN held \ lost /\ held' = Without(held, h) /\ lost' = lost
           /\ Continued(archeTypes, archeTypes')
<1> DEFINE t == h[1]
<1> DEFINE e == h[2]
<1> DEFINE a == archeTypes[t]
<1>1. h = Handle(t, e)
  BY HandleParts
<1>2. t \in DOMAIN archeTypes /\ a.memory /\ e \in DOMAIN a.entities /\ a.entities[e].alive
  BY DEF EcsDeleteEntity, EcsGetEntity
<1>3. held' = Without(held, h) /\ lost' = lost
  BY DEF EcsDeleteEntity
<1>4. PICK fl \in {Append(a.freeList, e), a.freeList} :
          archeTypes' = [archeTypes EXCEPT ![t] =
                            Storing(a, [a.entities EXCEPT ![e] = Buried(@)], fl)]
  BY DEF EcsDeleteEntity
<1> DEFINE b == Storing(a, [a.entities EXCEPT ![e] = Buried(@)], fl)
<1>5. b.components = archeTypes[t].components
  BY DEF Storing
<1>6. archeTypes' = [archeTypes EXCEPT ![t] = b]
  BY <1>4
<1>7. Local(t, a, held, lost)
  BY <1>2 DEF EcsInv, World
<1> HIDE DEF t, e, a, b
<1>8. h \in DOMAIN held \ lost
  BY <1>1, <1>2, <1>7 DEF Local
<1>9. Continued(archeTypes, archeTypes')
  BY <1>2, <1>5, <1>6, ContinuedChanged
<1> QED
  BY <1>3, <1>8, <1>9

\* Data is stored in an entity that is found, in the first component of its type.
LEMMA AddDataStep ==
    ASSUME EcsInv, NEW h \in DOMAIN held, NEW c, NEW value \in Values,
           EcsAddComponentDataToEntity(h, c, value)
    PROVE  \E i : /\ h \in DOMAIN held \ lost /\ i \in First(held[h].components, c)
                  /\ held' = [held EXCEPT ![h] = Stored(held[h], i, value)]
                  /\ lost' = lost /\ Continued(archeTypes, archeTypes')
<1>0. PICK t \in DOMAIN archeTypes, e \in Nat : h = Handle(t, e)
  BY DEF EcsInv, World
<1> DEFINE a == archeTypes[t]
<1>1. h[1] = t /\ h[2] = e
  BY <1>0 DEF Handle
<1>2. a.memory /\ e \in DOMAIN a.entities /\ a.entities[e].alive
  BY <1>1 DEF EcsAddComponentDataToEntity, EcsGetEntity
<1>3. lost' = lost
  BY DEF EcsAddComponentDataToEntity
<1>4. PICK i \in First(Entity(h).components, c) :
         /\ archeTypes' = [archeTypes EXCEPT ![h[1]] =
               Storing(archeTypes[h[1]],
                       [archeTypes[h[1]].entities EXCEPT ![h[2]] = Stored(@, i, value)],
                       archeTypes[h[1]].freeList)]
         /\ held' = [held EXCEPT ![h] = Stored(@, i, value)]
  BY DEF EcsAddComponentDataToEntity
<1> DEFINE b == Storing(a, [a.entities EXCEPT ![e] = Stored(@, i, value)], a.freeList)
<1>5. archeTypes' = [archeTypes EXCEPT ![t] = b]
  BY <1>1, <1>4
<1>6. b.components = archeTypes[t].components
  BY DEF Storing
<1>7. Local(t, a, held, lost)
  BY DEF EcsInv, World
<1>8. Entity(h) = a.entities[e]
  BY <1>1 DEF Entity
<1>9. held' = [held EXCEPT ![h] = Stored(held[h], i, value)]
  BY <1>4
<1> HIDE DEF a, b
<1>10. h \in DOMAIN held \ lost /\ a.entities[e] = held[h]
  BY <1>0, <1>2, <1>7 DEF Local
<1>11. Continued(archeTypes, archeTypes')
  BY <1>5, <1>6, ContinuedChanged
<1> QED
  BY <1>3, <1>4, <1>8, <1>9, <1>10, <1>11

-----------------------------------------------------------------------------
(* Entities stay with their archetype *)

LEMMA GroupedKept ==
    ASSUME NEW ats, NEW new, NEW hd, NEW hd2, GroupedIn(ats, hd), Continued(ats, new),
           \A h \in DOMAIN hd2 : \/ h \in DOMAIN hd /\ hd2[h].components = hd[h].components
                                 \/ h[1] \in DOMAIN new
                                    /\ hd2[h].components = new[h[1]].components
    PROVE  GroupedIn(new, hd2)
  BY DEF GroupedIn, Continued

LEMMA GroupedInit == Init => Grouped
<1> SUFFICES ASSUME Init PROVE Grouped
  OBVIOUS
<1>1. DOMAIN held = {}
  BY DEF Init
<1> QED
  BY <1>1 DEF Grouped, GroupedIn

LEMMA GroupedNext == EcsInv /\ Grouped /\ [Next]_vars => Grouped'
<1> SUFFICES ASSUME EcsInv, Grouped, [Next]_vars PROVE GroupedIn(archeTypes', held')
  BY DEF Grouped
<1>0. GroupedIn(archeTypes, held)
  BY DEF Grouped
<1>1. CASE EcsCreateNewComponent \/ AtaPanics \/ Stopped \/ UNCHANGED vars
  <2>1. archeTypes' = archeTypes /\ held' = held
    BY <1>1 DEF EcsCreateNewComponent, AtaPanics, Stopped, vars
  <2> QED
    BY <1>0, <2>1
<1>2. ASSUME NEW list \in Lists, EcsCreateEntity(list) PROVE GroupedIn(archeTypes', held')
  <2>1. PICK h : /\ h \notin DOMAIN held /\ held' = With(held, h, NewEntity(list))
                 /\ lost' = lost /\ Continued(archeTypes, archeTypes')
                 /\ h[1] \in DOMAIN archeTypes' /\ archeTypes'[h[1]].components = list
    BY <1>2, CreateStep
  <2>2. NewEntity(list).components = list
    BY DEF NewEntity
  <2>3. \A g \in DOMAIN held' :
            \/ g \in DOMAIN held /\ held'[g].components = held[g].components
            \/ g[1] \in DOMAIN archeTypes' /\ held'[g].components = archeTypes'[g[1]].components
    BY <2>1, <2>2 DEF With
  <2> QED
    BY <1>0, <2>1, <2>3, GroupedKept
<1>3. ASSUME NEW list \in Lists, CreateLosesArray(list) PROVE GroupedIn(archeTypes', held')
  <2>1. held' = held /\ Continued(archeTypes, archeTypes')
    BY <1>3, LosesArrayStep
  <2> QED
    BY <1>0, <2>1, GroupedKept
<1>4. ASSUME NEW list \in Lists, CreateLosesPlace(list) PROVE GroupedIn(archeTypes', held')
  <2>1. held' = held /\ Continued(archeTypes, archeTypes')
    BY <1>4, LosesPlaceStep
  <2> QED
    BY <1>0, <2>1, GroupedKept
<1>5. ASSUME NEW h \in Handles, EcsDeleteEntity(h) PROVE GroupedIn(archeTypes', held')
  <2>1. held' = Without(held, h) /\ Continued(archeTypes, archeTypes')
    BY <1>5, DeleteStep
  <2>2. \A g \in DOMAIN held' : g \in DOMAIN held /\ held'[g].components = held[g].components
    BY <2>1 DEF Without
  <2> QED
    BY <1>0, <2>1, <2>2, GroupedKept
<1>6. ASSUME NEW h \in Handles, FollowsNull(h) PROVE GroupedIn(archeTypes', held')
  BY <1>0, <1>6 DEF FollowsNull
<1>7. ASSUME NEW h \in DOMAIN held, NEW c \in 1 .. (MAX_COMPONENT - 1), NEW value \in Values,
             EcsAddComponentDataToEntity(h, c, value)
      PROVE  GroupedIn(archeTypes', held')
  <2>1. PICK i : /\ held' = [held EXCEPT ![h] = Stored(held[h], i, value)]
                 /\ Continued(archeTypes, archeTypes')
    BY <1>7, AddDataStep
  <2>2. Stored(held[h], i, value).components = held[h].components
    BY DEF Stored
  <2>3. \A g \in DOMAIN held' : g \in DOMAIN held /\ held'[g].components = held[g].components
    BY <2>1, <2>2
  <2> QED
    BY <1>0, <2>1, <2>3, GroupedKept
<1> QED
  BY <1>1, <1>2, <1>3, <1>4, <1>5, <1>6, <1>7 DEF Next

-----------------------------------------------------------------------------
(* Steps of the store *)

LEMMA StoreInit == Init => Store!Init
<1> SUFFICES ASSUME Init PROVE StoreOf = <<>>
  BY DEF Store!Init
<1>1. StoreOf = Public(held, lost)
  BY InitInv, StoreIs
<1>2. DOMAIN held = {}
  BY DEF Init
<1> QED
  BY <1>1, <1>2 DEF Public

\* What is public of a store with one entity more, one less, one changed, or many lost.
LEMMA PublicSteps ==
    ASSUME NEW hd, NEW ls
    PROVE  /\ DOMAIN Public(hd, ls) = DOMAIN hd \ ls
           /\ \A h \in DOMAIN hd \ ls : /\ Public(hd, ls)[h] = Seen(hd[h])
                                        /\ Public(hd, ls)[h].components = hd[h].components
                                        /\ Public(hd, ls)[h].data = hd[h].data
  BY DEF Public, Seen

LEMMA StoreNext ==
    ASSUME EcsInv, Grouped, [Next]_vars,
           StoreOf = Public(held, lost), StoreOf' = Public(held', lost')
    PROVE  Store!Next \/ StoreOf' = StoreOf
<1>p. /\ DOMAIN Public(held, lost) = DOMAIN held \ lost
      /\ \A h \in DOMAIN held \ lost :
            /\ Public(held, lost)[h] = Seen(held[h])
            /\ Public(held, lost)[h].components = held[h].components
            /\ Public(held, lost)[h].data = held[h].data
  BY ONLY PublicSteps
<1>0. /\ DOMAIN StoreOf = DOMAIN held \ lost
      /\ \A h \in DOMAIN held \ lost : /\ StoreOf[h] = Seen(held[h])
                                       /\ StoreOf[h].components = held[h].components
                                       /\ StoreOf[h].data = held[h].data
  BY <1>p
<1>l. lost \subseteq DOMAIN held
  BY DEF EcsInv, World
<1>1. CASE EcsCreateNewComponent \/ AtaPanics \/ Stopped \/ UNCHANGED vars
  <2>1. lost' = lost /\ held' = held
    BY <1>1 DEF EcsCreateNewComponent, AtaPanics, Stopped, vars
  <2> QED
    BY <2>1
<1>2. ASSUME NEW list \in Lists, EcsCreateEntity(list) PROVE Store!Next
  <2>1. PICK h : /\ h \notin DOMAIN held /\ held' = With(held, h, NewEntity(list))
                 /\ lost' = lost
    BY <1>2, CreateStep
  <2>2. Seen(NewEntity(list)) = [components |-> list, data |-> [i \in DOMAIN list |-> "unset"]]
    BY DEF Seen, NewEntity, Unset
  <2>3. /\ DOMAIN held' = DOMAIN held \cup {h} /\ held'[h] = NewEntity(list)
        /\ \A g \in DOMAIN held : held'[g] = held[g]
    BY <2>1 DEF With
  <2>4. DOMAIN held' \ lost' = DOMAIN StoreOf \cup {h} /\ h \notin DOMAIN StoreOf
    BY <1>0, <1>l, <2>1, <2>3
  <2>5. \A g \in DOMAIN StoreOf \cup {h} :
            Seen(held'[g]) = IF g = h THEN Seen(NewEntity(list)) ELSE StoreOf[g]
    BY <1>0, <2>1, <2>3
  <2>6. StoreOf' = [g \in DOMAIN StoreOf \cup {h} |->
                      IF g = h THEN Seen(NewEntity(list)) ELSE StoreOf[g]]
    BY <2>4, <2>5 DEF Public
  <2>7. Store!Create(h, list)
    BY <2>2, <2>4, <2>6 DEF Store!Create
  <2>8. h \in DOMAIN StoreOf'
    BY <2>6
  <2> QED
    BY <2>7, <2>8 DEF Store!Next
<1>3. ASSUME NEW list \in Lists, CreateLosesArray(list) PROVE Store!Next
  <2>1. PICK t : /\ t \in DOMAIN archeTypes' /\ archeTypes'[t].components = list
                 /\ lost' = lost \cup {h \in DOMAIN held : h[1] = t}
                 /\ held' = held /\ Continued(archeTypes, archeTypes')
    BY <1>3, LosesArrayStep
  <2>2. EcsInv' /\ Grouped'
    BY <1>3, LosesArrayInv, GroupedNext
  <2>3. \A h \in DOMAIN held : held[h].components = list <=> h[1] = t
    <3>1. \A h \in DOMAIN held : /\ h[1] \in DOMAIN archeTypes'
                                 /\ held[h].components = archeTypes'[h[1]].components
      BY <2>1, <2>2 DEF Grouped, GroupedIn
    <3>2. \A u, v \in DOMAIN archeTypes' :
              archeTypes'[u].components = archeTypes'[v].components => u = v
      BY <2>2 DEF EcsInv, World
    <3> QED
      BY <2>1, <3>1, <3>2
  <2>4. DOMAIN held' \ lost' = {f \in DOMAIN StoreOf : StoreOf[f].components # list}
    BY <1>0, <2>1, <2>3
  <2>5. \A g \in DOMAIN held' \ lost' : Seen(held'[g]) = StoreOf[g]
    BY <1>0, <2>1
  <2>6. Store!Lose(list)
    BY <2>4, <2>5 DEF Public, Store!Lose
  <2> QED
    BY <2>6 DEF Store!Next
<1>4. ASSUME NEW list \in Lists, CreateLosesPlace(list) PROVE StoreOf' = StoreOf
  BY <1>4, LosesPlaceStep
<1>5. ASSUME NEW h \in Handles, EcsDeleteEntity(h) PROVE Store!Next
  <2>1. h \in DOMAIN held \ lost /\ held' = Without(held, h) /\ lost' = lost
    BY <1>5, DeleteStep
  <2>2. /\ DOMAIN held' \ lost' = DOMAIN StoreOf \ {h}
        /\ \A g \in DOMAIN StoreOf \ {h} : Seen(held'[g]) = StoreOf[g]
    BY <1>0, <2>1 DEF Without
  <2>3. Store!Delete(h)
    BY <2>2 DEF Public, Store!Delete
  <2>4. h \in DOMAIN StoreOf
    BY <1>0, <2>1
  <2> QED
    BY <2>3, <2>4 DEF Store!Next
<1>6. ASSUME NEW h \in Handles, FollowsNull(h) PROVE StoreOf' = StoreOf
  BY <1>6 DEF FollowsNull
<1>7. ASSUME NEW h \in DOMAIN held, NEW c \in 1 .. (MAX_COMPONENT - 1), NEW value \in Values,
             EcsAddComponentDataToEntity(h, c, value)
      PROVE  Store!Next
  <2>1. PICK i : /\ h \in DOMAIN held \ lost /\ i \in First(held[h].components, c)
                 /\ held' = [held EXCEPT ![h] = Stored(held[h], i, value)]
                 /\ lost' = lost
    BY <1>7, AddDataStep
  <2>2. h \in DOMAIN StoreOf
    BY <1>0, <2>1
  <2>3. /\ i \in DOMAIN StoreOf[h].components
        /\ \A j \in 1 .. (i - 1) : StoreOf[h].components[j] # StoreOf[h].components[i]
    BY <1>0, <2>1 DEF First
  <2>4. StoreOf' = [StoreOf EXCEPT ![h].data[i] = value]
    <3> DEFINE y == [components |-> held[h].components,
                     data |-> [held[h].data EXCEPT ![i] = value]]
    <3>1. Seen(Stored(held[h], i, value)) = y
      BY DEF Seen, Stored
    <3>2. [StoreOf[h] EXCEPT !.data[i] = value] = y
      <4>1. StoreOf[h] = [components |-> held[h].components, data |-> held[h].data]
        BY <1>0, <2>1 DEF Seen
      <4> QED
        BY <4>1
    <3>3. [StoreOf EXCEPT ![h].data[i] = value] = [StoreOf EXCEPT ![h] = y]
      BY <3>2
    <3> HIDE DEF y
    <3>4. /\ DOMAIN held' \ lost' = DOMAIN StoreOf
          /\ \A g \in DOMAIN StoreOf : Seen(held'[g]) = IF g = h THEN y ELSE StoreOf[g]
      BY <1>0, <2>1, <3>1
    <3>5. StoreOf' = [g \in DOMAIN StoreOf |-> IF g = h THEN y ELSE StoreOf[g]]
      BY <3>4 DEF Public
    <3>6. StoreOf = [g \in DOMAIN StoreOf |-> StoreOf[g]]
      BY DEF Public
    <3>7. StoreOf' = [StoreOf EXCEPT ![h] = y]
      BY <2>2, <3>5, <3>6
    <3> QED
      BY <3>3, <3>7
  <2>5. Store!Fill(h, i, value)
    BY <2>3, <2>4 DEF Store!Fill
  <2> QED
    BY <2>2, <2>3, <2>5 DEF Store!Next
<1> QED
  BY <1>1, <1>2, <1>3, <1>4, <1>5, <1>6, <1>7 DEF Next

\* The entity component system is a store of entities: every call of ecs.c, those that run
\* out of memory included, is a step of EntityStore, or none, for all lists and capacities.
THEOREM EcsKeepsStore == Spec => KeepsStore
<1>1. Init => EcsInv /\ Grouped /\ Store!Init
  BY InitInv, GroupedInit, StoreInit
<1>2. EcsInv /\ Grouped /\ [Next]_vars => EcsInv' /\ Grouped'
  BY NextInv, GroupedNext
<1>3. EcsInv' => (StoreOf = Public(held, lost))'
  BY StoreIs, PTL
<1>4. EcsInv /\ EcsInv' /\ Grouped /\ [Next]_vars => [Store!Next]_StoreOf
  <2>1. Public(held, lost)' = Public(held', lost')
    BY DEF Public, Seen
  <2> QED
    BY <1>3, <2>1, StoreIs, StoreNext
<1> QED
  BY <1>1, <1>2, <1>4, PTL DEF Spec, KeepsStore, Store!Spec
=============================================================================
