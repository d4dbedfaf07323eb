-------------------------------- MODULE Ecs --------------------------------
(***************************************************************************)
(* The entity component system of the kernel (narnify/src/ecs/ecs.c).      *)
(*                                                                         *)
(* Entities with the same list of components are kept in the array of one  *)
(* archetype; a handle names the archetype and the place in its array.     *)
(* The place of a deleted entity goes to the tail of the archetype's list  *)
(* and is used again.  Arrays grow by MmReallocatePages, an entity's data  *)
(* is in an arena of its own, an entry of the list is general memory: any  *)
(* of these may be refused.  Nothing runs concurrently with a call.        *)
(*                                                                         *)
(* Places and archetypes are counted from 1.                               *)
(***************************************************************************)
EXTENDS Integers, Sequences, FiniteSets

CONSTANTS
    MAX_COMPONENT,      \* component types, the invalid type 0 included
    INITIAL_CAPACITY,   \* 15: places in an array when it is first allocated
    GROWTH,             \* 3: the factor by which it grows
    Lists,              \* the lists of components entities are created with
    Values,             \* what clients store in components
    MaxEntities,        \* bound: entities alive at a time
    MaxPlaces           \* bound: places ever used in an archetype

ASSUME BoundsAssumption ==
    /\ MAX_COMPONENT \in Nat \ {0} /\ INITIAL_CAPACITY \in Nat \ {0} /\ GROWTH \in Nat \ {0, 1}
    /\ MaxEntities \in Nat /\ MaxPlaces \in Nat
ASSUME ListsAssumption == Lists \subseteq Seq(1 .. (MAX_COMPONENT - 1))

VARIABLES
    phase,              \* "running", "panic" after KePanic, "fault" after an
                        \* array without memory has been looked at
    curComponentIndex,  \* the next component type
    ataCapacity,        \* places in the array of archetypes
    archeTypes,         \* the array of archetypes, up to ataIndex
    held,               \* history: entities clients have, by handle
    lost,               \* history: those whose array could not grow
    population          \* history: how many they have created and not deleted

vars == <<phase, curComponentIndex, ataCapacity, archeTypes, held, lost, population>>

-----------------------------------------------------------------------------
(* Archetypes, entities and handles *)

\* What a component holds before something is stored in it: the arena's memory
\* is not cleared.
Unset == "unset"

\* What memset leaves of an entity, an entity, and one without an arena, for
\* which the first component could not be pushed.
BlankEntity == [alive |-> FALSE, components |-> <<>>, data |-> <<>>]
NewEntity(list) ==
    [alive |-> TRUE, components |-> list, data |-> [i \in DOMAIN list |-> Unset]]
HalfEntity(list) ==
    [alive |-> FALSE, components |-> [i \in DOMAIN list |-> IF i = 1 THEN list[1] ELSE 0],
     data |-> <<>>]

\* An archetype: its array has Len(entities) places in use (index) out of
\* capacity; `memory` is FALSE when the pointer to the array is NULL.
NewArcheType(list) == [components |-> list, capacity |-> 0, memory |-> FALSE,
                       entities |-> <<>>, freeList |-> <<>>]

\* An archetype with other entities and another list.
Storing(a, entities, freeList) ==
    [components |-> a.components, capacity |-> a.capacity, memory |-> a.memory,
     entities |-> entities, freeList |-> freeList]

EcsCompareComponents(list1, list2) == list1 = list2

\* Where EcsGetArcheType finds the archetype of a list, or puts a new one.
Known(list) == {t \in DOMAIN archeTypes : EcsCompareComponents(list, archeTypes[t].components)}
ArcheTypeIndex(list) ==
    IF Known(list) = {} THEN Len(archeTypes) + 1
    ELSE CHOOSE t \in Known(list) : \A u \in Known(list) : t <= u
WithArcheType(list) ==
    IF Known(list) = {} THEN Append(archeTypes, NewArcheType(list)) ELSE archeTypes

Grown(capacity) == IF capacity = 0 THEN INITIAL_CAPACITY ELSE capacity * GROWTH

Handle(t, e) == <<t, e>>

\* Mutant of EcsGetEntity: whether the entity is alive is not looked at.
GetEntityAny(h) ==
    /\ h[1] \in DOMAIN archeTypes
    /\ archeTypes[h[1]].memory
    /\ h[2] \in DOMAIN archeTypes[h[1]].entities

\* EcsGetEntity finds the entity of a handle.  That an array has no memory is
\* not noticed by the code: see FollowsNull.
EcsGetEntity(h) ==
    /\ h[1] \in DOMAIN archeTypes
    /\ archeTypes[h[1]].memory
    /\ h[2] \in DOMAIN archeTypes[h[1]].entities
    /\ archeTypes[h[1]].entities[h[2]].alive

Entity(h) == archeTypes[h[1]].entities[h[2]]

\* The first component of a type in a list.
First(list, c) == {i \in DOMAIN list : list[i] = c /\ \A j \in 1 .. (i - 1) : list[j] # c}

With(f, a, x) == [b \in DOMAIN f \cup {a} |-> IF b = a THEN x ELSE f[b]]
Without(f, a) == [b \in DOMAIN f \ {a} |-> f[b]]

-----------------------------------------------------------------------------
(* The operations *)

Init == /\ phase = "running"
        /\ curComponentIndex = 1
        /\ ataCapacity = 0
        /\ archeTypes = <<>>
        /\ held = <<>>
        /\ lost = {}
        /\ population = 0

\* The type 0 is returned when the table of sizes cannot be allocated, or is full.
EcsCreateNewComponent ==
    /\ phase = "running"
    /\ \/ /\ curComponentIndex < MAX_COMPONENT
          /\ curComponentIndex' = curComponentIndex + 1
       \/ UNCHANGED curComponentIndex
    /\ UNCHANGED <<phase, ataCapacity, archeTypes, held, lost, population>>

\* The array of archetypes grows when it is full, whether or not the archetype
\* is in it; without memory the kernel panics.
ArcheTypesGrow == Len(archeTypes) >= ataCapacity
AtaPanics ==
    /\ phase = "running"
    /\ ArcheTypesGrow
    /\ phase' = "panic"
    /\ UNCHANGED <<curComponentIndex, ataCapacity, archeTypes, held, lost, population>>

AtaReady == ataCapacity' = IF ArcheTypesGrow THEN Grown(ataCapacity) ELSE ataCapacity

\* The array of entities grows when it is full, whether or not a place is free.
NeedsPlace(a) == Len(a.entities) >= a.capacity

\* Mutant of Reallocated: the entities are not copied.
ReallocatedBlank(a) == [a EXCEPT !.capacity = Grown(@), !.memory = TRUE,
                                 !.entities = [e \in DOMAIN @ |-> BlankEntity]]

\* Mutant of Reallocated: what was lost is found again.
ReallocatedStale(a) == [a EXCEPT !.capacity = Grown(@), !.memory = TRUE]

\* MmReallocatePages copies what there is; without an array there is nothing.
Reallocated(a) ==
    [components |-> a.components, capacity |-> Grown(a.capacity), memory |-> TRUE,
     entities |-> IF a.memory THEN a.entities ELSE [e \in DOMAIN a.entities |-> BlankEntity],
     freeList |-> a.freeList]
WithPlace(a) == IF NeedsPlace(a) THEN Reallocated(a) ELSE a

\* Mutant of Placed: the place stays on the list.
PlacedTwice(a, entity) ==
    IF a.freeList # <<>>
    THEN [a EXCEPT !.entities[Head(a.freeList)] = entity]
    ELSE [a EXCEPT !.entities = Append(@, entity)]

\* An entity goes to the place at the head of the list, or to a new one.
Placed(a, entity) ==
    IF a.freeList # <<>>
    THEN Storing(a, [a.entities EXCEPT ![Head(a.freeList)] = entity], Tail(a.freeList))
    ELSE Storing(a, Append(a.entities, entity), a.freeList)
Place(a) == IF a.freeList # <<>> THEN Head(a.freeList) ELSE Len(a.entities) + 1

\* EcsCreateEntity, for types that have been created.
Creatable(list) == /\ phase = "running"
                   /\ \A i \in DOMAIN list : list[i] < curComponentIndex
                   /\ population < MaxEntities

EcsCreateEntity(list) ==
    /\ Creatable(list)
    /\ AtaReady
    /\ LET t == ArcheTypeIndex(list)
           ats == WithArcheType(list)
           a == WithPlace(ats[t])
           h == Handle(t, Place(a))
       IN /\ Place(a) <= MaxPlaces
          /\ archeTypes' = [ats EXCEPT ![t] = Placed(a, NewEntity(list))]
          /\ held' = With(held, h, NewEntity(list))
          /\ population' = population + 1
    /\ UNCHANGED <<phase, curComponentIndex, lost>>

\* The array cannot grow: its pointer is overwritten with NULL.
CreateLosesArray(list) ==
    /\ Creatable(list)
    /\ AtaReady
    /\ LET t == ArcheTypeIndex(list)
           ats == WithArcheType(list)
       IN /\ NeedsPlace(ats[t])
          /\ archeTypes' = [ats EXCEPT ![t].memory = FALSE]
          /\ lost' = lost \cup {h \in DOMAIN held : h[1] = t}
    /\ UNCHANGED <<phase, curComponentIndex, held, population>>

\* There is no memory for the entity's arena: its place is used up, and a list
\* with at least one component fails.
CreateLosesPlace(list) ==
    /\ Creatable(list)
    /\ list # <<>>
    /\ AtaReady
    /\ LET t == ArcheTypeIndex(list)
           ats == WithArcheType(list)
           a == WithPlace(ats[t])
       IN /\ Place(a) <= MaxPlaces
          /\ archeTypes' = [ats EXCEPT ![t] = Placed(a, HalfEntity(list))]
    /\ UNCHANGED <<phase, curComponentIndex, held, lost, population>>

\* Mutant of Buried: the entity is not marked.
BuriedAlive(entity) == entity

Buried(entity) == [alive |-> FALSE, components |-> [i \in DOMAIN entity.components |-> 0],
                   data |-> entity.data]

\* The entity's place goes to the tail of the list, unless there is no memory
\* for the entry: then the place is lost.
EcsDeleteEntity(h) ==
    /\ phase = "running"
    /\ EcsGetEntity(h)
    /\ LET a == archeTypes[h[1]]
           entities == [a.entities EXCEPT ![h[2]] = Buried(@)]
       IN \E freeList \in {Append(a.freeList, h[2]), a.freeList} :
            archeTypes' = [archeTypes EXCEPT ![h[1]] = Storing(a, entities, freeList)]
    /\ held' = Without(held, h)
    /\ population' = population - (IF h \in DOMAIN held THEN 1 ELSE 0)
    /\ UNCHANGED <<phase, curComponentIndex, ataCapacity, lost>>

Stored(entity, i, value) ==
    [alive |-> entity.alive, components |-> entity.components,
     data |-> [entity.data EXCEPT ![i] = value]]

\* STATUS_NOT_FOUND for a type the entity does not have.
EcsAddComponentDataToEntity(h, c, value) ==
    /\ phase = "running"
    /\ EcsGetEntity(h)
    /\ LET a == archeTypes[h[1]] IN
       \E i \in First(Entity(h).components, c) :
         /\ archeTypes' = [archeTypes EXCEPT ![h[1]] =
               Storing(a, [a.entities EXCEPT ![h[2]] = Stored(@, i, value)], a.freeList)]
         /\ held' = [held EXCEPT ![h] = Stored(@, i, value)]
    /\ UNCHANGED <<phase, curComponentIndex, ataCapacity, lost, population>>

\* Any operation on a handle of an archetype whose array has no memory reads, and
\* may write, through NULL; what comes of that is not modelled.
FollowsNull(h) ==
    /\ phase = "running"
    /\ h[1] \in DOMAIN archeTypes
    /\ ~archeTypes[h[1]].memory
    /\ h[2] \in DOMAIN archeTypes[h[1]].entities
    /\ phase' = "fault"
    /\ UNCHANGED <<curComponentIndex, ataCapacity, archeTypes, held, lost, population>>

Stopped == phase # "running" /\ UNCHANGED vars

\* Clients use handles they have had, of entities that may be gone by now.
Handles == {Handle(t, e) : t \in DOMAIN archeTypes, e \in 1 .. MaxPlaces}

Next == \/ EcsCreateNewComponent
        \/ AtaPanics
        \/ \E list \in Lists : \/ EcsCreateEntity(list)
                               \/ CreateLosesArray(list)
                               \/ CreateLosesPlace(list)
        \/ \E h \in Handles : EcsDeleteEntity(h) \/ FollowsNull(h)
        \/ \E h \in DOMAIN held, c \in 1 .. (MAX_COMPONENT - 1), value \in Values :
              EcsAddComponentDataToEntity(h, c, value)
        \/ Stopped

Spec == Init /\ [][Next]_vars

-----------------------------------------------------------------------------
(* Properties *)

EntityRecord == [alive : BOOLEAN, components : Seq(0 .. (MAX_COMPONENT - 1)),
                 data : Seq(Values \cup {Unset})]

\* The variables have their types, no entity lies beyond the end of the array of
\* its archetype, and entities with the same components are in one archetype.
TypeOK ==
    /\ phase \in {"running", "panic", "fault"}
    /\ curComponentIndex \in 1 .. MAX_COMPONENT
    /\ Len(archeTypes) <= ataCapacity
    /\ \A t \in DOMAIN archeTypes :
          LET a == archeTypes[t]
          IN /\ a.components \in Lists /\ a.memory \in BOOLEAN
             /\ a.entities \in Seq(EntityRecord)
             /\ a.freeList \in Seq(DOMAIN a.entities)
             /\ Len(a.entities) <= a.capacity
             /\ \A u \in DOMAIN archeTypes : archeTypes[u].components = a.components => u = t
    /\ lost \subseteq DOMAIN held
    /\ population \in 0 .. MaxEntities

Found(h) == EcsGetEntity(h) /\ Entity(h) = held[h]

\* An entity that has not been deleted is found by its handle, with the components it
\* was created with and the data last stored in them, however the arrays grow and
\* whatever else is created or deleted; only an array that fails to grow takes its own
\* entities with it (EcsCreateEntity), and never those of another.
LossContained == \A h \in DOMAIN held \ lost : Found(h)

\* A handle that is returned is not that of an entity that is still there.
NeverShared == population = Cardinality(DOMAIN held)

\* Entities that are found are those that clients have: a deleted entity is not
\* found again by its handle until its place is taken by another.
DeletedRefused ==
    \A h \in Handles : EcsGetEntity(h) => h \in DOMAIN held

\* The list holds each of its places once, and only places where nobody lives.
FreePlacesIdle ==
    /\ TypeOK
    /\ \A t \in DOMAIN archeTypes :
          LET a == archeTypes[t]
          IN /\ \A i, j \in DOMAIN a.freeList : i # j => a.freeList[i] # a.freeList[j]
             /\ \A i \in DOMAIN a.freeList : ~a.entities[a.freeList[i]].alive

-----------------------------------------------------------------------------
(* The promise of EntityStore *)

\* The entities that EcsGetEntity finds, and what a client can see of them.
Visible ==
    {h \in UNION {{Handle(t, e) : e \in DOMAIN archeTypes[t].entities} : t \in DOMAIN archeTypes} :
        EcsGetEntity(h)}
Seen(entity) == [components |-> entity.components, data |-> entity.data]
StoreOf == [h \in Visible |-> Seen(Entity(h))]

Store == INSTANCE EntityStore WITH store <- StoreOf

\* Every step of the entity component system is a step, or no step, of the store that its
\* clients rely on: also when arrays grow, fail to grow and are allocated anew.
KeepsStore == Store!Spec
=============================================================================
