---------------------------- MODULE EntityStore ----------------------------
(***************************************************************************)
(* What the entity component system of the kernel promises its clients     *)
(* (narnify/src/includes/ecs/ecs.h): a store of entities, each with a list *)
(* of components and their data, which are found by a handle.  A handle    *)
(* that is returned leads to no other entity; what is done with one handle *)
(* changes no other entity; and when memory runs out, the entities with    *)
(* one list of components may be lost, all of them at once, and no others. *)
(* A lost entity does not come back.                                       *)
(*                                                                         *)
(* Arrays, their growth and the places that are used again are no part of  *)
(* the promise.  Ecs is shown to implement this specification.             *)
(***************************************************************************)
EXTENDS Integers, Sequences

CONSTANTS Lists,    \* the lists of components entities are created with
          Values    \* what clients store in components

VARIABLE store      \* the entities that are found, by their handles

-----------------------------------------------------------------------------
Init == store = <<>>

\* A client gets a handle nobody has, and an entity with nothing stored in it.
Create(h, list) ==
    /\ h \notin DOMAIN store
    /\ store' = [g \in DOMAIN store \cup {h} |->
                   IF g = h THEN [components |-> list, data |-> [i \in DOMAIN list |-> "unset"]]
                   ELSE store[g]]

\* Something is stored in the first component of a type.
Fill(h, i, value) ==
    /\ i \in DOMAIN store[h].components
    /\ \A j \in 1 .. (i - 1) : store[h].components[j] # store[h].components[i]
    /\ store' = [store EXCEPT ![h].data[i] = value]

Delete(h) == store' = [g \in DOMAIN store \ {h} |-> store[g]]

\* Memory runs out for the entities with a list of components.
Lose(list) ==
    store' = [g \in {f \in DOMAIN store : store[f].components # list} |-> store[g]]

\* The handle of a new entity is any that the store has afterwards.
Next == \/ \E h \in DOMAIN store', list \in Lists : Create(h, list)
        \/ \E h \in DOMAIN store : \/ Delete(h)
                                   \/ \E i \in DOMAIN store[h].components, value \in Values :
                                        Fill(h, i, value)
        \/ \E list \in Lists : Lose(list)

Spec == Init /\ [][Next]_store
=============================================================================
