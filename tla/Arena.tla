------------------------------- MODULE Arena -------------------------------
(***************************************************************************)
(* The arena of the kernel (narnify/src/mm/amd64pc/arena.c): one piece of  *)
(* memory from the general allocator, handed out from its start upwards    *)
(* and taken back from its end.                                            *)
(*                                                                         *)
(* The general allocator is used by its contract: it gives a piece that is *)
(* not in use, or none, and takes back a piece that is in use; NULL and a  *)
(* piece that is free are refused.  Sizes are unsigned and wrap at WORD.   *)
(***************************************************************************)
EXTENDS Integers, Sequences

CONSTANTS
    WORD,       \* 2^64
    Pieces,     \* addresses the general allocator may give
    ArenaSizes, \* sizes of arenas
    PushSizes   \* sizes of what is pushed and popped

ASSUME WordAssumption == WORD \in Nat \ {0}
ASSUME PiecesAssumption == Pieces \subseteq Nat \ {0}
ASSUME SizesAssumption ==
    /\ ArenaSizes \subseteq 0 .. (WORD - 1)
    /\ PushSizes \subseteq 0 .. (WORD - 1)

\* No request wraps around the word: MmPushMemoryFromArena adds before it compares.
NoWrap == \A size \in ArenaSizes, push \in PushSizes : size + push < WORD

VARIABLES
    arena,      \* the Arena
    inUse,      \* pieces the general allocator has given and not got back
    pushed,     \* history: what has been handed out and not popped, as it lies
    stale       \* history: the arena's piece has been given back

vars == <<arena, inUse, pushed, stale>>

NULL == 0

-----------------------------------------------------------------------------
(* The operations *)

Init == /\ arena = [base |-> NULL, size |-> 0, used |-> 0]
        /\ inUse = {}
        /\ pushed = <<>>
        /\ stale = FALSE

\* Called for an arena that has no piece, or whose piece has been given back.
MmCreateArena(size) ==
    /\ arena.base = NULL \/ stale
    /\ pushed' = <<>>
    /\ stale' = FALSE
    /\ \/ \E p \in Pieces \ inUse :
            /\ inUse' = inUse \cup {p}
            /\ arena' = [base |-> p, size |-> size, used |-> 0]
       \/ /\ arena' = [base |-> NULL, size |-> size, used |-> arena.used]
          /\ UNCHANGED inUse

\* Mutant of Overflows: off by one.
OverflowsLate(size) == (arena.used + size) % WORD > arena.size + 1

Overflows(size) == (arena.used + size) % WORD > arena.size

MmPushMemoryFromArena(size) ==
    \/ /\ arena.base = NULL \/ Overflows(size)
       /\ UNCHANGED <<arena, inUse, pushed, stale>>
    \/ /\ arena.base # NULL /\ ~Overflows(size)
       /\ pushed' = Append(pushed, [base |-> arena.base, at |-> arena.used, size |-> size])
       /\ arena' = [arena EXCEPT !.used = (@ + size) % WORD]
       /\ UNCHANGED <<inUse, stale>>

\* Mutant of Popped: one byte too many.
PoppedTooFar(size) == IF size >= arena.used THEN 0 ELSE arena.used - size - 1

Popped(size) == IF size >= arena.used THEN 0 ELSE arena.used - size

\* Called with the size of the last pushes, or with the whole arena's or more.
MmPopMemoryFromArena(size) ==
    /\ \E n \in 0 .. Len(pushed) :
         /\ \/ n < Len(pushed) /\ size = arena.used - pushed[n + 1].at
            \/ n = 0 /\ size >= arena.used
         /\ pushed' = SubSeq(pushed, 1, n)
    /\ arena' = [arena EXCEPT !.used = Popped(size)]
    /\ UNCHANGED <<inUse, stale>>

MmResetArena ==
    /\ arena' = [arena EXCEPT !.used = 0]
    /\ pushed' = <<>>
    /\ UNCHANGED <<inUse, stale>>

\* The status of MmFreeGeneralMemory, where 0 is success, is read as a boolean:
\* when the piece was given back the arena is left as it is and FALSE returned.
MmDestroyArena ==
    /\ pushed' = <<>>
    /\ stale' = (arena.base \in inUse)
    /\ \/ /\ arena.base \in inUse
          /\ inUse' = inUse \ {arena.base}
          /\ UNCHANGED arena
       \/ /\ arena.base \notin inUse       \* STATUS_INVALID_ADDRESS, STATUS_ACCESS_DENIED
          /\ arena' = [base |-> NULL, size |-> 0, used |-> arena.used]
          /\ UNCHANGED inUse

Next == \/ \E size \in ArenaSizes : MmCreateArena(size)
        \/ \E size \in PushSizes : MmPushMemoryFromArena(size) \/ MmPopMemoryFromArena(size)
        \/ MmResetArena
        \/ MmDestroyArena

Spec == Init /\ [][Next]_vars

-----------------------------------------------------------------------------
(* Properties *)

Pushed == [base : Pieces, at : 0 .. (WORD - 1), size : 0 .. (WORD - 1)]

\* The variables have their types; what is used never wraps below 0.
TypeOK ==
    /\ arena \in [base : Pieces \cup {NULL}, size : 0 .. (WORD - 1), used : 0 .. (WORD - 1)]
    /\ inUse \subseteq Pieces
    /\ stale \in BOOLEAN
    /\ pushed \in Seq(Pushed)

\* What has been pushed lies in the arena, one behind the other: it never
\* overlaps, whatever is popped in between.
PushedApart ==
    /\ \A i \in DOMAIN pushed : pushed[i].at + pushed[i].size <= arena.size
    /\ \A i, j \in DOMAIN pushed : i < j => pushed[i].at + pushed[i].size <= pushed[j].at

\* The arena counts as used exactly what has been pushed: popping it all leaves
\* it empty.
UsedExact ==
    /\ TypeOK
    /\ arena.base # NULL /\ ~stale =>
        arena.used = IF pushed = <<>> THEN 0
                     ELSE pushed[Len(pushed)].at + pushed[Len(pushed)].size

\* What is handed out is memory the arena still has.
NoUseAfterFree == \A i \in DOMAIN pushed : pushed[i].base \in inUse
=============================================================================
