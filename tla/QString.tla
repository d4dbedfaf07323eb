------------------------------ MODULE QString ------------------------------
(***************************************************************************)
(* The strings of the kernel (narnify/src/qol/qstring.c) with the memory   *)
(* they lie in: literals, copies in an arena and copies on the heap.  A    *)
(* QString is a buffer and a length; a slice shares the buffer of its      *)
(* source, a copy has one of its own.                                      *)
(*                                                                         *)
(* A string is not used once its memory has been popped or freed, and what *)
(* is in memory that nobody has is not looked at.  When the arena is used  *)
(* after its piece was given back, the strings are not followed any more.  *)
(* A byte is a number, 0 the terminator.                                   *)
(***************************************************************************)
EXTENDS Arena, FiniteSetsExt

CONSTANTS
    Literals,   \* literals: what lies at some addresses, up to and with a terminator
    Names,      \* the variables that hold strings
    Room        \* bound: bytes of a piece of memory

NUL == 0
Letters == 1 .. 9
Junk == 10      \* what somebody else writes

ASSUME LiteralsAssumption ==
    /\ DOMAIN Literals \subseteq Nat \ (Pieces \cup {NULL})
    /\ \A p \in DOMAIN Literals :
         /\ Literals[p] \in Seq(Letters \cup {NUL}) \ {<<>>}
         /\ Literals[p][Len(Literals[p])] = NUL /\ Len(Literals[p]) <= Room
ASSUME RoomAssumption == Room \in Nat /\ \A size \in ArenaSizes : size <= Room

\* No request wraps around the word, for a string neither.
StringsFit == NoWrap /\ Room < WORD /\ \A size \in ArenaSizes : size + Room < WORD

VARIABLES
    memory,     \* the bytes of every piece and of every literal
    held,       \* the strings that are held, each with what it should say
    misused     \* history: the arena has been used after its piece was given back

stringVars == <<memory, held, misused>>
allVars == <<vars, stringVars>>

\* A QString: its buffer is at an offset of a piece, or of a literal.  end is where the
\* buffer has its terminator, text what the string should say, and own whose memory it is.
NoString == [buffer |-> NULL, at |-> 0, length |-> 0, end |-> 0, text |-> <<>>,
             own |-> "none"]

\* The memory at first.
Memory == [p \in Pieces \cup DOMAIN Literals |->
    IF p \in Pieces THEN [i \in 0 .. (Room - 1) |-> Junk]
    ELSE [i \in 0 .. (Len(Literals[p]) - 1) |-> Literals[p][i + 1]]]

-----------------------------------------------------------------------------
(* Reading and writing *)

\* QolGetStringLength counts up to the terminator; Room when there is none.
QolGetStringLength(p, at) ==
    LET nuls == {i \in at .. (Room - 1) : i \in DOMAIN memory[p] /\ memory[p][i] = NUL}
    IN IF nuls = {} THEN Room ELSE Min(nuls) - at

Text(p, at, length) == [i \in 1 .. length |-> memory[p][at + i - 1]]

\* memcpy, and the terminator behind.
Copied(s, p, at) ==
    [memory EXCEPT ![p] = [i \in DOMAIN @ |->
        IF i \in at .. (at + s.length - 1) THEN memory[s.buffer][s.at + i - at]
        ELSE IF i = at + s.length THEN NUL ELSE @[i]]]

Filled(p, at, size) ==
    [memory EXCEPT ![p] = [i \in DOMAIN @ |-> IF i \in at .. (at + size - 1) THEN Junk ELSE @[i]]]

-----------------------------------------------------------------------------
(* The arena, and those who use it for something else than strings *)

\* The strings, and the bytes, whose memory is still handed out.
StillHeld == [n \in Names |->
    IF \/ held[n].own # "arena"
       \/ \E i \in DOMAIN pushed' : /\ pushed'[i].at <= held[n].at
                                   /\ held[n].end < pushed'[i].at + pushed'[i].size
    THEN held[n] ELSE NoString]
Kept(p, i) == \/ p \in DOMAIN Literals
              \/ p \in inUse' /\ (p = arena'.base /\ ~stale' => i < arena'.used)
Scrubbed == [p \in DOMAIN memory |->
                [i \in DOMAIN memory[p] |-> IF Kept(p, i) THEN memory[p][i] ELSE Junk]]

Forget == /\ misused' = TRUE
          /\ held' = [n \in Names |-> NoString]
          /\ memory' = Memory

Shrinks == \/ \E size \in ArenaSizes : MmCreateArena(size)
           \/ \E size \in PushSizes : MmPopMemoryFromArena(size)
           \/ MmResetArena

Shrink == /\ Shrinks
          /\ held' = StillHeld
          /\ memory' = Scrubbed
          /\ UNCHANGED misused

Destroy == /\ MmDestroyArena
           /\ \/ stale /\ Forget
              \/ ~stale /\ held' = StillHeld /\ memory' = Scrubbed /\ UNCHANGED misused

\* Who pushes something else writes to all of it.
Push(size) ==
    /\ MmPushMemoryFromArena(size)
    /\ \/ pushed' = pushed /\ UNCHANGED stringVars
       \/ pushed' # pushed /\ stale /\ Forget
       \/ /\ pushed' # pushed /\ ~stale
          /\ memory' = Filled(arena.base, arena.used, size)
          /\ UNCHANGED <<held, misused>>

-----------------------------------------------------------------------------
(* The operations on strings *)

QolInitStringEx(p, length, d) ==
    /\ held' = [held EXCEPT ![d] = [buffer |-> p, at |-> 0, length |-> length,
                   end |-> QolGetStringLength(p, 0), text |-> Text(p, 0, length),
                   own |-> "literal"]]
    /\ UNCHANGED <<vars, memory, misused>>

QolInitString(p, d) == QolInitStringEx(p, QolGetStringLength(p, 0), d)

\* QolCopyString and QolDupeString copy the pointer.
QolCopyString(s, d) ==
    /\ held' = [held EXCEPT ![d] = held[s]]
    /\ UNCHANGED <<vars, memory, misused>>

\* A slice longer than its source is the source; of a NULL buffer it is empty.
QolSliceString(s, length, d) ==
    /\ held' = [held EXCEPT ![d] =
                   IF held[s].buffer = NULL THEN NoString
                   ELSE IF length >= held[s].length THEN held[s]
                   ELSE [held[s] EXCEPT !.length = length, !.text = SubSeq(@, 1, length)]]
    /\ UNCHANGED <<vars, memory, misused>>

\* Mutant of Needed: no room for the terminator.
NeededBare(s) == s.length

Needed(s) == s.length + 1

\* When there is no memory, QolCopyString... has set the buffer to NULL and left the
\* length; QolDupeString... returns an empty string.
Refused(d) == held' \in {[held EXCEPT ![d] = NoString],
                         [held EXCEPT ![d] = [NoString EXCEPT !.length = held[d].length]]}

Copy(s, p, at, own) == [buffer |-> p, at |-> at, length |-> s.length, end |-> at + s.length,
                        text |-> s.text, own |-> own]

\* QolCopyStringArena and QolDupeStringArena.
CopyStringArena(s, d) ==
    /\ held[s].buffer # NULL
    /\ MmPushMemoryFromArena(Needed(held[s]))
    /\ \/ /\ pushed' = pushed
          /\ Refused(d)
          /\ UNCHANGED <<memory, misused>>
       \/ pushed' # pushed /\ stale /\ Forget
       \/ /\ pushed' # pushed /\ ~stale
          /\ memory' = Copied(held[s], arena.base, arena.used)
          /\ UNCHANGED misused
          /\ held' = [held EXCEPT ![d] = Copy(held[s], arena.base, arena.used, "arena")]

\* QolCopyStringHeap and QolDupeStringHeap.
CopyStringHeap(s, d) ==
    /\ held[s].buffer # NULL
    /\ \/ /\ Refused(d)
          /\ UNCHANGED <<inUse, memory>>
       \/ \E p \in Pieces \ inUse :
            /\ Needed(held[s]) <= Room
            /\ inUse' = inUse \cup {p}
            /\ memory' = Copied(held[s], p, 0)
            /\ held' = [held EXCEPT ![d] = Copy(held[s], p, 0, "heap")]
    /\ UNCHANGED <<arena, pushed, stale, misused>>

\* Of a NULL buffer there is no copy: QolCopyString... leaves its destination alone.
CopyNull(s, d) ==
    /\ held[s].buffer = NULL
    /\ held' \in {held, [held EXCEPT ![d] = NoString]}
    /\ UNCHANGED <<vars, memory, misused>>

\* The owner of a copy on the heap frees it.
FreeString(s) ==
    /\ held[s].own = "heap"
    /\ inUse' = inUse \ {held[s].buffer}
    /\ held' = [n \in Names |-> IF held[n].own = "heap" /\ held[n].buffer = held[s].buffer
                                THEN NoString ELSE held[n]]
    /\ memory' = [memory EXCEPT ![held[s].buffer] = [i \in DOMAIN @ |-> Junk]]
    /\ UNCHANGED <<arena, pushed, stale, misused>>

StringInit == /\ Init
              /\ memory = Memory
              /\ held = [n \in Names |-> NoString]
              /\ misused = FALSE

StringNext ==
    \/ Shrink \/ Destroy
    \/ \E size \in PushSizes : Push(size)
    \/ /\ ~misused
       /\ \/ \E p \in DOMAIN Literals, d \in Names :
               \/ QolInitString(p, d)
               \/ \E length \in 0 .. (Len(Literals[p]) - 1) : QolInitStringEx(p, length, d)
          \/ \E s, d \in Names :
               \/ QolCopyString(s, d)
               \/ \E length \in 0 .. Room : QolSliceString(s, length, d)
               \/ CopyStringArena(s, d) \/ CopyStringHeap(s, d) \/ CopyNull(s, d)
          \/ \E s \in Names : FreeString(s)

StringSpec == StringInit /\ [][StringNext]_allVars

-----------------------------------------------------------------------------
(* Properties *)

\* A string that is held says what it said when it was made, whatever has been pushed,
\* popped, copied or freed since; and its buffer has its terminator, also when the string
\* is a slice or a copy of one, so that a reader who goes by it does not run on.
StringsIntact ==
    \A n \in Names : held[n].buffer # NULL =>
        LET bytes == memory[held[n].buffer] IN
        /\ \A i \in 1 .. held[n].length : bytes[held[n].at + i - 1] = held[n].text[i]
        /\ held[n].end \in DOMAIN bytes /\ bytes[held[n].end] = NUL
=============================================================================
