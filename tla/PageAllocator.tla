--------------------------- MODULE PageAllocator ---------------------------
(***************************************************************************)
(* What the physical memory manager of the kernel promises its callers     *)
(* (narnify/src/includes/mm/pmm.h): once it has been set up, a caller gets *)
(* a contiguous run of pages nobody else has, keeps it until it gives it   *)
(* back, and what is given back can be granted again.  The page tables,    *)
(* the general allocator and the entity store all rely on this and on      *)
(* nothing else.                                                           *)
(*                                                                         *)
(* BitmapPmm is the manager the kernel is built with; it is shown to       *)
(* implement this specification for requests of a single page.             *)
(***************************************************************************)
EXTENDS Integers

CONSTANT Client      \* the callers; each holds at most one run at a time

VARIABLES open,      \* the manager has been set up and accepts requests
          free,      \* the pages that may be granted
          held       \* held[c] is the run of pages that c has been granted

pageVars == <<open, free, held>>

-----------------------------------------------------------------------------
Init == /\ open = FALSE
        /\ free = {}
        /\ held = [c \in Client |-> {}]

\* The manager is set up, once, with some set of pages to grant.
Provision == /\ ~open
             /\ open' = TRUE
             /\ free' \subseteq Nat
             /\ UNCHANGED held

\* first .. last is a run that can be granted.  Page 0 never is: its address
\* could not be told from NULL.
Grantable(first, last) == /\ 0 < first /\ first <= last
                          /\ first .. last \subseteq free

\* A caller that has nothing gets a run of free pages.
Grant(c, first, last) == /\ open
                         /\ held[c] = {}
                         /\ Grantable(first, last)
                         /\ free' = free \ (first .. last)
                         /\ held' = [held EXCEPT ![c] = first .. last]
                         /\ UNCHANGED open

\* A caller gives its run back.
Release(c) == /\ open
              /\ held[c] # {}
              /\ free' = free \cup held[c]
              /\ held' = [held EXCEPT ![c] = {}]
              /\ UNCHANGED open

\* A caller exchanges its run for one that was free while it had the old one.
Exchange(c, first, last) == /\ open
                            /\ held[c] # {}
                            /\ Grantable(first, last)
                            /\ free' = (free \ (first .. last)) \cup held[c]
                            /\ held' = [held EXCEPT ![c] = first .. last]
                            /\ UNCHANGED open

Next == \/ Provision
        \/ \E c \in Client :
              \/ Release(c)
              \/ \E first, last \in free : \/ Grant(c, first, last)
                                           \/ Exchange(c, first, last)

Spec == Init /\ [][Next]_pageVars
=============================================================================
