--------------------------- MODULE LibraryProofs ---------------------------
(***************************************************************************)
(* What the kernel's library guarantees for all values of the constants:   *)
(* the arena for every word size, every set of pieces and all sizes, the   *)
(* strings for all literals too, and formatted output for every width of   *)
(* the integer types, every size of the buffers and all formats with their *)
(* arguments.                                                              *)
(*                                                                         *)
(* The arena and formatted output share no state: the theorems about       *)
(* Spec and StringSpec rest on the assumptions of Arena and QString        *)
(* alone, the ones about PrintSpec on those of Nanoprintf.  What both need *)
(* is LeastNumber, a set of numbers' least element: the proofs about       *)
(* recursive functions look at the least argument at which they would      *)
(* fail.                                                                   *)
(***************************************************************************)
EXTENDS QString, Nanoprintf, SequenceTheorems, WellFoundedInduction, TLAPS

-----------------------------------------------------------------------------
(* Types *)

\* A push keeps the types, whatever its size.
LEMMA TypePush ==
    ASSUME TypeOK, NEW size \in 0 .. (WORD - 1), MmPushMemoryFromArena(size)
    PROVE  TypeOK'
<1> USE WordAssumption, PiecesAssumption
<1>1. CASE UNCHANGED vars
  BY <1>1 DEF TypeOK, vars
<1>2. CASE arena.base # NULL /\ pushed' # pushed
  <2> DEFINE piece == [base |-> arena.base, at |-> arena.used, size |-> size]
  <2>1. piece \in Pushed
    BY <1>2 DEF TypeOK, NULL, Pushed
  <2>2. pushed' = Append(pushed, piece)
    BY <1>2 DEF MmPushMemoryFromArena
  <2>3. pushed' \in Seq(Pushed)
    <3> HIDE DEF piece
    <3> QED
      BY <2>1, <2>2, AppendProperties DEF TypeOK
  <2>4. (arena.used + size) % WORD \in 0 .. (WORD - 1)
    BY DEF TypeOK
  <2> QED
    BY <1>2, <2>3, <2>4 DEF MmPushMemoryFromArena, TypeOK
<1> QED
  BY <1>1, <1>2 DEF MmPushMemoryFromArena, vars

\* A step keeps the types, also when sizes wrap around the word.
LEMMA TypeNext == TypeOK /\ [Next]_vars => TypeOK'
<1> SUFFICES ASSUME TypeOK, [Next]_vars PROVE TypeOK'
  OBVIOUS
<1> USE WordAssumption, PiecesAssumption, SizesAssumption
<1>0. <<>> \in Seq(Pushed)
  BY EmptySeq
<1>1. ASSUME NEW size \in ArenaSizes, MmCreateArena(size) PROVE TypeOK'
  <2>1. pushed' = <<>> /\ stale' = FALSE
    BY <1>1 DEF MmCreateArena
  <2>2. CASE UNCHANGED inUse /\ arena' = [base |-> NULL, size |-> size, used |-> arena.used]
    BY <1>0, <2>1, <2>2 DEF TypeOK
  <2>3. ASSUME NEW p \in Pieces \ inUse, inUse' = inUse \cup {p},
               arena' = [base |-> p, size |-> size, used |-> 0]
        PROVE  TypeOK'
    <3>1. arena' \in [base : Pieces \cup {NULL}, size : 0 .. (WORD - 1),
                      used : 0 .. (WORD - 1)]
      BY <2>3
    <3>2. inUse' \subseteq Pieces
      BY <2>3 DEF TypeOK
    <3> QED
      BY <1>0, <2>1, <3>1, <3>2 DEF TypeOK
  <2> QED
    BY <1>1, <2>2, <2>3 DEF MmCreateArena
<1>2. ASSUME NEW size \in PushSizes, MmPushMemoryFromArena(size) PROVE TypeOK'
  BY <1>2, TypePush
<1>3. ASSUME NEW size \in PushSizes, MmPopMemoryFromArena(size) PROVE TypeOK'
  <2>1. Popped(size) \in 0 .. (WORD - 1)
    BY DEF Popped, TypeOK
  <2>2. PICK n \in 0 .. Len(pushed) : pushed' = SubSeq(pushed, 1, n)
    BY <1>3 DEF MmPopMemoryFromArena
  <2>3. pushed' \in Seq(Pushed)
    <3>1. pushed \in Seq(Pushed)
      BY DEF TypeOK
    <3>2. \A i \in 1 .. n : pushed[i] \in Pushed
      BY <3>1, ElementOfSeq, LenProperties
    <3> QED
      BY <2>2, <3>1, <3>2, SubSeqProperties
  <2> QED
    BY <1>3, <2>1, <2>3 DEF MmPopMemoryFromArena, TypeOK
<1>4. CASE MmResetArena
  BY <1>4 DEF MmResetArena, TypeOK
<1>5. CASE MmDestroyArena
  <2>1. pushed' = <<>> /\ stale' \in BOOLEAN
    BY <1>5 DEF MmDestroyArena
  <2>2. CASE UNCHANGED arena /\ inUse' = inUse \ {arena.base}
    BY <1>0, <2>1, <2>2 DEF TypeOK
  <2>3. CASE arena' = [base |-> NULL, size |-> 0, used |-> arena.used] /\ UNCHANGED inUse
    BY <1>0, <2>1, <2>3 DEF TypeOK
  <2> QED
    BY <1>5, <2>2, <2>3 DEF MmDestroyArena
<1>6. CASE UNCHANGED vars
  BY <1>6 DEF TypeOK, vars
<1> QED
  BY <1>1, <1>2, <1>3, <1>4, <1>5, <1>6 DEF Next
-----------------------------------------------------------------------------
LEMMA ModSmall == ASSUME NEW w \in Nat \ {0}, NEW a \in 0 .. (w - 1) PROVE a % w = a
  OBVIOUS

(* What is pushed is stacked *)

End(p) == p.at + p.size

\* The inductive invariant.  UsedExact is about the last piece pushed: to pop it again
\* and be exact, each must end where the next begins.  The size of the arena is one of
\* those arenas are created with, which is what keeps a push from wrapping.
StackedInv ==
    /\ TypeOK
    /\ arena.base # NULL => arena.used <= arena.size /\ arena.size \in ArenaSizes
    /\ arena.base # NULL /\ ~stale /\ pushed = <<>> => arena.used = 0
    /\ pushed # <<>> => arena.base # NULL /\ arena.used = End(pushed[Len(pushed)])
    /\ pushed # <<>> /\ ~stale => pushed[1].at = 0
    /\ \A i \in DOMAIN pushed : End(pushed[i]) <= arena.size /\ End(pushed[i]) <= arena.used
    /\ \A i \in DOMAIN pushed : i + 1 \in DOMAIN pushed => pushed[i + 1].at = End(pushed[i])
    /\ \A i, j \in DOMAIN pushed : i < j => End(pushed[i]) <= pushed[j].at

\* With nothing pushed only the used count is left to look at.
LEMMA EmptyStack ==
    ASSUME TypeOK, pushed = <<>>,
           arena.base # NULL => arena.used <= arena.size /\ arena.size \in ArenaSizes,
           arena.base # NULL /\ ~stale => arena.used = 0
    PROVE  StackedInv
<1>1. DOMAIN pushed = {}
  BY EmptySeq
<1> QED
  BY <1>1 DEF StackedInv

\* MmPushMemoryFromArena puts a piece behind the last one.
LEMMA StackedPush ==
    ASSUME StackedInv, TypeOK', NEW size \in 0 .. (WORD - 1),
           \A s \in ArenaSizes : s + size < WORD,
           MmPushMemoryFromArena(size)
    PROVE  StackedInv'
<1> USE WordAssumption, SizesAssumption
<1>1. CASE UNCHANGED <<arena, inUse, pushed, stale>>
  BY <1>1 DEF StackedInv, TypeOK, End
<1>2. CASE arena.base # NULL /\ ~Overflows(size) /\ pushed' # pushed
  <2> DEFINE piece == [base |-> arena.base, at |-> arena.used, size |-> size]
  <2>1. /\ pushed' = Append(pushed, piece)
        /\ arena' = [arena EXCEPT !.used = (@ + size) % WORD]
        /\ UNCHANGED <<inUse, stale>>
    BY <1>2 DEF MmPushMemoryFromArena
  <2>2. arena.used + size < WORD /\ arena.used \in Nat /\ arena.size \in Nat
    BY <1>2 DEF StackedInv, TypeOK
  <2>3. (arena.used + size) % WORD = arena.used + size
    BY <2>2, ModSmall
  <2>4. arena' = [arena EXCEPT !.used = arena.used + size]
    BY <2>1, <2>3
  <2>5. arena.used + size <= arena.size
    BY <1>2, <2>2, <2>3 DEF Overflows
  <2>6. pushed \in Seq(Pushed) /\ piece \in Pushed
    BY <1>2 DEF StackedInv, TypeOK, Pushed
  <2>7. /\ Len(pushed) \in Nat /\ DOMAIN pushed = 1 .. Len(pushed)
        /\ Len(pushed') = Len(pushed) + 1
        /\ DOMAIN pushed' = 1 .. Len(pushed) + 1
        /\ pushed'[Len(pushed) + 1] = piece
        /\ \A i \in 1 .. Len(pushed) : pushed'[i] = pushed[i]
    <3> HIDE DEF piece
    <3> QED
      BY <2>1, <2>6, AppendProperties, LenProperties
  <2>8. \A i \in 1 .. Len(pushed) :
            /\ pushed[i].at \in Nat /\ pushed[i].size \in Nat
            /\ End(pushed'[i]) = End(pushed[i])
    <3>1. \A i \in 1 .. Len(pushed) : pushed[i] \in Pushed
      BY <2>6, <2>7, ElementOfSeq
    <3> QED
      BY <2>7, <3>1 DEF Pushed, End
  <2>9. End(pushed'[Len(pushed) + 1]) = arena.used + size
    BY <2>7 DEF End
  <2>10. arena'.used = arena.used + size /\ arena'.size = arena.size
         /\ arena'.base = arena.base
    BY <2>4 DEF StackedInv, TypeOK
  <2> HIDE DEF piece
  <2>11. \A i \in DOMAIN pushed' : End(pushed'[i]) <= arena'.size /\ End(pushed'[i]) <= arena'.used
    BY <2>2, <2>5, <2>7, <2>8, <2>9, <2>10, SMTT(30) DEF StackedInv, End
  <2>12. \A i \in DOMAIN pushed' :
            i + 1 \in DOMAIN pushed' => pushed'[i + 1].at = End(pushed'[i])
    <3> SUFFICES ASSUME NEW i \in 1 .. Len(pushed) PROVE pushed'[i + 1].at = End(pushed'[i])
      BY <2>7
    <3>0. i \in DOMAIN pushed /\ (i < Len(pushed) => i + 1 \in DOMAIN pushed)
      BY <2>7
    <3>1. CASE i = Len(pushed)
      BY <2>7, <2>8, <3>1 DEF StackedInv, piece
    <3>2. CASE i < Len(pushed)
      BY <2>7, <2>8, <3>0, <3>2 DEF StackedInv
    <3> QED
      BY <2>7, <3>1, <3>2
  <2>13. \A i, j \in DOMAIN pushed' : i < j => End(pushed'[i]) <= pushed'[j].at
    <3> SUFFICES ASSUME NEW i \in 1 .. Len(pushed), NEW j \in 1 .. Len(pushed) + 1, i < j
                 PROVE  End(pushed'[i]) <= pushed'[j].at
      BY <2>7
    <3>1. CASE j = Len(pushed) + 1
      BY <2>7, <2>8, <3>1 DEF StackedInv, piece
    <3>2. CASE j # Len(pushed) + 1
      BY <2>7, <2>8, <3>2 DEF StackedInv
    <3> QED
      BY <3>1, <3>2
  <2>14. pushed' # <<>> /\ arena'.used = End(pushed'[Len(pushed')])
    BY <2>7, <2>9, <2>10, EmptySeq
  <2>15. arena'.used <= arena'.size /\ arena'.size \in ArenaSizes /\ arena'.base # NULL
    BY <1>2, <2>5, <2>10 DEF StackedInv
  <2>16. ~stale' => pushed'[1].at = 0
    <3>1. CASE pushed = <<>>
      BY <1>2, <2>1, <2>7, <3>1, EmptySeq DEF StackedInv, piece
    <3>2. CASE pushed # <<>>
      BY <2>1, <2>6, <2>7, <3>2, EmptySeq DEF StackedInv
    <3> QED
      BY <3>1, <3>2
  <2> QED
    BY <2>11, <2>12, <2>13, <2>14, <2>15, <2>16 DEF StackedInv
<1> QED
  BY <1>1, <1>2 DEF MmPushMemoryFromArena

\* MmPopMemoryFromArena leaves a prefix, and what is used ends with it.
LEMMA StackedPop ==
    ASSUME StackedInv, TypeOK', NEW size \in 0 .. (WORD - 1), MmPopMemoryFromArena(size)
    PROVE  StackedInv'
<1> USE WordAssumption, SizesAssumption
<1>1. PICK n \in 0 .. Len(pushed) :
         /\ \/ n < Len(pushed) /\ size = arena.used - pushed[n + 1].at
            \/ n = 0 /\ size >= arena.used
         /\ pushed' = SubSeq(pushed, 1, n)
  BY DEF MmPopMemoryFromArena
<1>2. /\ arena.used \in Nat /\ arena.size \in Nat
      /\ pushed \in Seq(Pushed) /\ Len(pushed) \in Nat /\ DOMAIN pushed = 1 .. Len(pushed)
  BY LenProperties DEF StackedInv, TypeOK
<1>3. /\ arena'.base = arena.base /\ arena'.size = arena.size /\ arena'.used = Popped(size)
      /\ stale' = stale
  BY DEF MmPopMemoryFromArena, StackedInv, TypeOK
<1>4. \A i \in 1 .. Len(pushed) : pushed[i] \in Pushed
  BY <1>2, ElementOfSeq
<1>5. /\ Len(pushed') = n /\ DOMAIN pushed' = 1 .. n
      /\ \A i \in 1 .. n : pushed'[i] = pushed[i]
  BY <1>1, <1>2, <1>4, SubSeqProperties, LenProperties
<1>6. \A i \in 1 .. n : End(pushed'[i]) = End(pushed[i])
  BY <1>5 DEF End
<1>7. \A i \in 1 .. Len(pushed) : pushed[i].at \in Nat /\ End(pushed[i]) \in Nat
  BY <1>4 DEF Pushed, End
<1>8. Popped(size) <= arena.used
  BY <1>2 DEF Popped
<1>9. n # 0 \/ ~(size >= arena.used) =>
         n + 1 \in 1 .. Len(pushed) /\ Popped(size) = pushed[n + 1].at
  BY <1>1, <1>2, <1>7 DEF Popped
<1>10. CASE n = 0
  <2>1. pushed' = <<>>
    BY <1>5, <1>10, EmptySeq DEF TypeOK
  <2>2. arena.base # NULL /\ ~stale => Popped(size) = 0
    <3>1. CASE size >= arena.used
      BY <3>1 DEF Popped
    <3>2. CASE ~(size >= arena.used)
      BY <1>2, <1>9, <1>10, <3>2, EmptySeq DEF StackedInv
    <3> QED
      BY <3>1, <3>2
  <2>3. arena'.base # NULL => arena'.used <= arena'.size /\ arena'.size \in ArenaSizes
    BY <1>2, <1>3, <1>8 DEF StackedInv, Popped
  <2>4. arena'.base # NULL /\ ~stale' => arena'.used = 0
    BY <1>3, <2>2
  <2>5. DOMAIN pushed' = {}
    BY <2>1, EmptySeq
  <2> QED
    BY <2>1, <2>3, <2>4, <2>5 DEF StackedInv
<1>11. CASE n # 0
  <2>1. pushed # <<>> /\ pushed' # <<>>
    BY <1>1, <1>2, <1>5, <1>11, EmptySeq
  <2>2. End(pushed[n]) = pushed[n + 1].at
    BY <1>2, <1>9, <1>11 DEF StackedInv
  <2>3. arena'.used = End(pushed'[n]) /\ arena'.base # NULL /\ arena'.used <= arena'.size
    BY <1>2, <1>3, <1>6, <1>8, <1>9, <1>11, <2>1, <2>2 DEF StackedInv, Popped
  <2>4. \A i \in DOMAIN pushed' : End(pushed'[i]) <= arena'.size /\ End(pushed'[i]) <= arena'.used
    <3> SUFFICES ASSUME NEW i \in 1 .. n PROVE End(pushed[i]) <= arena.size /\ End(pushed[i]) <= End(pushed[n])
      BY <1>3, <1>5, <1>6, <1>11, <2>3
    <3>1. i \in DOMAIN pushed /\ n + 1 \in DOMAIN pushed /\ i < n + 1
      BY <1>2, <1>9, <1>11
    <3> QED
      BY <3>1, <2>2 DEF StackedInv
  <2>5. \A i \in DOMAIN pushed' :
            i + 1 \in DOMAIN pushed' => pushed'[i + 1].at = End(pushed'[i])
    BY <1>2, <1>5, <1>6 DEF StackedInv
  <2>6. \A i, j \in DOMAIN pushed' : i < j => End(pushed'[i]) <= pushed'[j].at
    BY <1>2, <1>5, <1>6 DEF StackedInv
  <2>7. ~stale' => pushed'[1].at = 0
    BY <1>2, <1>3, <1>5, <1>11, <2>1 DEF StackedInv
  <2>8. arena'.size \in ArenaSizes
    BY <1>3, <2>1 DEF StackedInv
  <2> QED
    BY <1>5, <2>1, <2>3, <2>4, <2>5, <2>6, <2>7, <2>8 DEF StackedInv
<1> QED
  BY <1>10, <1>11

\* MmCreateArena, MmResetArena and MmDestroyArena leave nothing pushed.
LEMMA StackedEmptied ==
    ASSUME StackedInv, TypeOK',
           \/ \E size \in ArenaSizes : MmCreateArena(size)
           \/ MmResetArena
           \/ MmDestroyArena
    PROVE  StackedInv'
<1> USE WordAssumption, SizesAssumption, PiecesAssumption
<1>1. pushed' = <<>> /\ DOMAIN pushed' = {}
  BY EmptySeq DEF MmCreateArena, MmResetArena, MmDestroyArena
<1>2. arena'.base # NULL => arena'.used <= arena'.size /\ arena'.size \in ArenaSizes
  <2>1. CASE \E size \in ArenaSizes : MmCreateArena(size)
    BY <2>1 DEF MmCreateArena, NULL
  <2>2. CASE MmResetArena
    BY <2>2 DEF MmResetArena, StackedInv, TypeOK
  <2>3. CASE MmDestroyArena
    BY <2>3 DEF MmDestroyArena, StackedInv, TypeOK
  <2> QED
    BY <2>1, <2>2, <2>3
<1>3. arena'.base # NULL /\ ~stale' => arena'.used = 0
  <2>1. CASE \E size \in ArenaSizes : MmCreateArena(size)
    BY <2>1 DEF MmCreateArena, NULL
  <2>2. CASE MmResetArena
    BY <2>2 DEF MmResetArena, StackedInv, TypeOK
  <2>3. CASE MmDestroyArena
    <3>1. CASE arena.base \in inUse
      BY <2>3, <3>1, Zenon DEF MmDestroyArena
    <3>2. CASE arena.base \notin inUse
      BY <2>3, <3>2 DEF MmDestroyArena
    <3> QED
      BY <3>1, <3>2
  <2> QED
    BY <2>1, <2>2, <2>3
<1> QED
  BY <1>1, <1>2, <1>3 DEF StackedInv

LEMMA InitStacked == Init => StackedInv
<1> SUFFICES ASSUME Init PROVE StackedInv
  OBVIOUS
<1>1. <<>> \in Seq(Pushed) /\ DOMAIN <<>> = {}
  BY EmptySeq
<1>2. TypeOK
  <2>1. arena \in [base : Pieces \cup {NULL}, size : 0 .. (WORD - 1), used : 0 .. (WORD - 1)]
    BY WordAssumption DEF Init
  <2> QED
    BY <1>1, <2>1 DEF Init, TypeOK
<1>3. arena.base = NULL /\ pushed = <<>>
  BY DEF Init
<1> QED
  BY <1>1, <1>2, <1>3 DEF StackedInv

LEMMA StackedNext == NoWrap /\ StackedInv /\ [Next]_vars => StackedInv'
<1> SUFFICES ASSUME NoWrap, StackedInv, [Next]_vars PROVE StackedInv'
  OBVIOUS
<1>1. TypeOK'
  BY TypeNext DEF StackedInv
<1>2. CASE \E size \in PushSizes : MmPushMemoryFromArena(size)
  BY <1>1, <1>2, StackedPush, SizesAssumption DEF NoWrap
<1>3. CASE \E size \in PushSizes : MmPopMemoryFromArena(size)
  BY <1>1, <1>3, StackedPop, SizesAssumption
<1>4. CASE UNCHANGED vars
  BY <1>4 DEF StackedInv, TypeOK, End, vars
<1> QED
  BY <1>1, <1>2, <1>3, <1>4, StackedEmptied DEF Next

-----------------------------------------------------------------------------
(* The theorems *)

\* The variables of the arena keep their types, whatever is created, pushed, popped,
\* reset or destroyed, also after sizes have wrapped: what is used stays a word.
THEOREM TypeCorrect == Spec => []TypeOK
<1>1. Init => TypeOK
  BY InitStacked DEF StackedInv
<1> QED
  BY <1>1, TypeNext, PTL DEF Spec

LEMMA Stacked == NoWrap => (Spec => []StackedInv)
<1> SUFFICES ASSUME NoWrap PROVE Spec => []StackedInv
  OBVIOUS
<1>1. StackedInv /\ [Next]_vars => StackedInv'
  BY StackedNext
<1> QED
  BY <1>1, InitStacked, PTL DEF Spec

\* As long as no request wraps around the word, what MmPushMemoryFromArena has handed out
\* lies inside the arena and does not overlap, for any number of pushes and pops in any
\* order.
THEOREM PushedStacked == NoWrap => (Spec => []PushedApart)
<1>1. StackedInv => PushedApart
  BY DEF StackedInv, PushedApart, End
<1> QED
  BY <1>1, Stacked, PTL

\* What MmPushMemoryFromArena and MmPopMemoryFromArena count as used is exactly what has
\* been pushed and not popped, as long as no request wraps around the word.
THEOREM UsedCounted == NoWrap => (Spec => []UsedExact)
<1>1. StackedInv => UsedExact
  BY DEF StackedInv, UsedExact, End
<1> QED
  BY <1>1, Stacked, PTL

-----------------------------------------------------------------------------
(* Strings *)

Byte == Letters \cup {NUL}

QStrings == [buffer : Pieces \cup DOMAIN Literals \cup {NULL}, at : Nat, length : Nat,
             end : Nat, text : Seq(Byte), own : {"none", "literal", "arena", "heap"}]

\* Every piece has its bytes, and nothing is ever written to a literal.
Shaped ==
    /\ DOMAIN memory = Pieces \cup DOMAIN Literals
    /\ \A p \in Pieces : DOMAIN memory[p] = 0 .. (Room - 1)
    /\ \A p \in DOMAIN Literals :
         memory[p] = [i \in 0 .. (Len(Literals[p]) - 1) |-> Literals[p][i + 1]]

\* Where the bytes of a string are, its terminator with them: in a literal; in a part of
\* the arena that is still pushed; or in a piece of the heap that is in use, and is not the
\* arena's.
Placed(s) ==
    /\ Len(s.text) = s.length /\ s.length < Room
    /\ \/ /\ s.own = "literal" /\ s.buffer \in DOMAIN Literals
          /\ s.at = 0 /\ s.length < Len(Literals[s.buffer]) /\ s.end < Len(Literals[s.buffer])
       \/ /\ s.own = "arena" /\ s.buffer = arena.base /\ ~stale /\ s.at + s.length <= s.end
          /\ \E i \in DOMAIN pushed : pushed[i].at <= s.at /\ s.end < End(pushed[i])
       \/ /\ s.own = "heap" /\ s.buffer \in inUse /\ s.at = 0 /\ s.length <= s.end
          /\ s.end < Room /\ (stale \/ s.buffer # arena.base)

Says(bytes, s) ==
    /\ \A i \in 1 .. s.length : bytes[s.at + i - 1] = s.text[i]
    /\ s.end \in DOMAIN bytes /\ bytes[s.end] = NUL

Sound(s) == IF s.buffer = NULL THEN s.own = "none"
            ELSE Placed(s) /\ Says(memory[s.buffer], s)

\* The inductive invariant.  That strings say what they should depends on where they lie:
\* what is written is a part of the arena that was not pushed, or a piece that was not in
\* use, and what is popped or freed has no string any more.
StringInv ==
    /\ StackedInv
    /\ arena.base # NULL /\ ~stale => arena.base \in inUse
    /\ Shaped
    /\ held \in [Names -> QStrings]
    /\ misused \in BOOLEAN
    /\ misused => held = [n \in Names |-> NoString]
    /\ \A n \in Names : Sound(held[n])

LEMMA StackedSame ==
    ASSUME StackedInv, TypeOK', UNCHANGED <<arena, pushed, stale>> PROVE StackedInv'
BY DEF StackedInv, End

LEMMA NoStringSound == NoString \in QStrings /\ Sound(NoString) /\ Sound(NoString)'
<1>1. <<>> \in Seq(Byte)
  BY EmptySeq
<1> QED
  BY <1>1 DEF NoString, QStrings, Sound, NULL

\* The library's minimal elements, for the order of the numbers.
LEMMA LeastNumber ==
    ASSUME NEW S, S \subseteq Nat, S # {}
    PROVE  Min(S) \in S /\ \A k \in S : Min(S) <= k
<1> DEFINE R == OpToRel(<, Nat)
<1>1. IsWellFoundedOn(R, Nat)
  BY NatLessThanWellFounded
<1>2. \A a, b \in Nat : a < b => <<a, b>> \in R
  BY DEF OpToRel
<1> HIDE DEF R
<1>3. PICK x \in S : \A y \in S : ~(<<y, x>> \in R)
  BY <1>1, WFMin
<1>4. x \in Nat /\ \A y \in S : y \in Nat /\ ~(y < x)
  BY <1>2, <1>3
<1>5. \E n \in S : \A m \in S : n <= m
  BY <1>4
<1> QED
  BY <1>5 DEF Min

\* The bytes of a string, and its terminator, are bytes of the piece it lies in.
LEMMA BytesInside ==
    ASSUME StringInv, NEW n \in Names, held[n].buffer # NULL, NEW i,
           i \in held[n].at .. (held[n].at + held[n].length - 1) \/ i = held[n].end
    PROVE  i \in Nat /\ i \in DOMAIN memory[held[n].buffer]
<1> DEFINE s == held[n]
<1>1. s \in QStrings /\ Placed(s) /\ Says(memory[s.buffer], s)
  BY DEF StringInv, Sound
<1>2. s.at \in Nat /\ s.length \in Nat /\ s.end \in Nat /\ s.end \in DOMAIN memory[s.buffer]
  BY <1>1 DEF QStrings, Says
<1>3. i \in Nat
  BY <1>2
<1>4. CASE s.own = "literal"
  <2>1. /\ s.buffer \in DOMAIN Literals /\ s.at = 0 /\ s.length < Len(Literals[s.buffer])
        /\ s.end < Len(Literals[s.buffer])
    BY <1>1, <1>4 DEF Placed
  <2>2. /\ DOMAIN memory[s.buffer] = 0 .. (Len(Literals[s.buffer]) - 1)
        /\ Len(Literals[s.buffer]) \in Nat
    BY <2>1, LiteralsAssumption DEF StringInv, Shaped
  <2> HIDE DEF s
  <2> QED
    BY <1>2, <1>3, <2>1, <2>2 DEF s
<1>5. CASE s.own # "literal"
  <2>1. s.buffer \in Pieces
    BY <1>1, <1>5 DEF Placed, StringInv, StackedInv, TypeOK
  <2>2. DOMAIN memory[s.buffer] = 0 .. (Room - 1)
    BY <2>1 DEF StringInv, Shaped
  <2>3. s.at + s.length <= s.end
    BY <1>1, <1>2, <1>5 DEF Placed
  <2> HIDE DEF s
  <2> QED
    BY <1>2, <1>3, <2>2, <2>3, RoomAssumption DEF s
<1> QED
  BY <1>4, <1>5

\* A string says the same when its bytes have not changed.
LEMMA SaysSame ==
    ASSUME NEW s \in QStrings, NEW b, NEW c, Says(b, s), DOMAIN c = DOMAIN b,
           \A i \in Nat : i \in s.at .. (s.at + s.length - 1) \/ i = s.end => c[i] = b[i]
    PROVE  Says(c, s)
<1>1. s.at \in Nat /\ s.length \in Nat /\ s.end \in Nat
  BY DEF QStrings
<1>2. ASSUME NEW i \in 1 .. s.length PROVE c[s.at + i - 1] = s.text[i]
  <2>1. s.at + i - 1 \in Nat /\ s.at + i - 1 \in s.at .. (s.at + s.length - 1)
    BY <1>1
  <2>2. c[s.at + i - 1] = b[s.at + i - 1]
    BY <2>1
  <2> QED
    BY <2>2 DEF Says
<1> QED
  BY <1>1, <1>2 DEF Says

\* A string stays sound when it stays in its place and nothing is written there.
LEMMA StringKept ==
    ASSUME StringInv, NEW n \in Names, held[n].buffer # NULL, held'[n] = held[n],
           Placed(held[n])',
           DOMAIN memory'[held[n].buffer] = DOMAIN memory[held[n].buffer],
           \A i \in Nat : \/ i \in held[n].at .. (held[n].at + held[n].length - 1)
                          \/ i = held[n].end
                => memory'[held[n].buffer][i] = memory[held[n].buffer][i]
    PROVE  Sound(held[n])'
<1>1. held[n] \in QStrings /\ Says(memory[held[n].buffer], held[n])
  BY DEF StringInv, Sound
<1>2. Says(memory'[held[n].buffer], held[n])
  BY <1>1, SaysSame
<1>3. Says(memory[held[n].buffer], held[n])'
  BY <1>2
<1> QED
  BY <1>3 DEF Sound

\* What is written to is a piece, and stays one.
LEMMA ShapedWritten ==
    ASSUME Shaped, NEW p \in Pieces, DOMAIN memory' = DOMAIN memory,
           DOMAIN memory'[p] = DOMAIN memory[p],
           \A q \in DOMAIN memory \ {p} : memory'[q] = memory[q]
    PROVE  Shaped'
<1>1. \A q \in DOMAIN Literals : q # p
  BY LiteralsAssumption
<1> QED
  BY <1>1 DEF Shaped

LEMMA ShapedScrubbed == ASSUME Shaped, memory' = Scrubbed PROVE Shaped'
<1>1. DOMAIN memory' = DOMAIN memory
  BY DEF Scrubbed
<1>2. \A p \in Pieces : DOMAIN memory'[p] = 0 .. (Room - 1)
  BY DEF Scrubbed, Shaped
<1>3. ASSUME NEW p \in DOMAIN Literals PROVE memory'[p] = memory[p]
  <2>1. memory'[p] = [i \in DOMAIN memory[p] |-> memory[p][i]]
    BY DEF Scrubbed, Shaped, Kept
  <2> QED
    BY <2>1 DEF Shaped
<1> QED
  BY <1>1, <1>2, <1>3 DEF Shaped

LEMMA ShapedAtFirst == ASSUME memory = Memory PROVE Shaped
<1>1. \A p \in DOMAIN Literals : p \notin Pieces
  BY LiteralsAssumption
<1> QED
  BY <1>1 DEF Shaped, Memory

\* What creating, popping, resetting and destroying leave to the heap and to the arena.
LEMMA ShrinkLeaves ==
    ASSUME StringInv, Shrinks \/ (MmDestroyArena /\ ~stale)
    PROVE  /\ arena'.base # NULL /\ ~stale' => arena'.base \in inUse'
           /\ pushed' # <<>> => arena'.base = arena.base /\ stale' = stale /\ inUse' = inUse
           /\ \A p \in inUse : stale \/ p # arena.base =>
                p \in inUse' /\ (stale' \/ p # arena'.base)
<1> USE PiecesAssumption
<1>0. /\ inUse \subseteq Pieces /\ (arena.base # NULL /\ ~stale => arena.base \in inUse)
      /\ stale \in BOOLEAN
      /\ arena \in [base : Pieces \cup {NULL}, size : 0 .. (WORD - 1), used : 0 .. (WORD - 1)]
  BY DEF StringInv, StackedInv, TypeOK
<1>1. ASSUME NEW size \in ArenaSizes, MmCreateArena(size)
      PROVE  /\ arena'.base # NULL /\ ~stale' => arena'.base \in inUse'
             /\ pushed' = <<>>
             /\ \A p \in inUse : p \in inUse' /\ p # arena'.base
  <2>1. CASE \E p \in Pieces \ inUse : /\ inUse' = inUse \cup {p}
                                       /\ arena' = [base |-> p, size |-> size, used |-> 0]
    BY <1>1, <2>1 DEF MmCreateArena
  <2>2. CASE /\ arena' = [base |-> NULL, size |-> size, used |-> arena.used]
             /\ UNCHANGED inUse
    BY <1>0, <1>1, <2>2 DEF MmCreateArena, NULL
  <2> QED
    BY <1>1, <2>1, <2>2 DEF MmCreateArena
<1>2. CASE (\E size \in PushSizes : MmPopMemoryFromArena(size)) \/ MmResetArena
  BY <1>0, <1>2 DEF MmPopMemoryFromArena, MmResetArena
<1>3. CASE MmDestroyArena /\ ~stale
  <2>1. CASE arena.base \in inUse
    <3>1. inUse' = inUse \ {arena.base} /\ stale' /\ pushed' = <<>>
      BY <1>3, <2>1 DEF MmDestroyArena
    <3> QED
      BY <1>3, <3>1
  <2>2. CASE arena.base \notin inUse
    <3>1. /\ inUse' = inUse /\ pushed' = <<>>
          /\ arena' = [base |-> NULL, size |-> 0, used |-> arena.used]
      BY <1>3, <2>2 DEF MmDestroyArena
    <3> QED
      BY <1>0, <3>1 DEF NULL
  <2> QED
    BY <2>1, <2>2
<1> QED
  BY <1>1, <1>2, <1>3 DEF Shrinks

LEMMA ShrinkSound ==
    ASSUME StringInv, StackedInv', Shrinks \/ (MmDestroyArena /\ ~stale),
           held' = StillHeld, memory' = Scrubbed, UNCHANGED misused
    PROVE  StringInv'
<1>1. /\ arena'.base # NULL /\ ~stale' => arena'.base \in inUse'
      /\ pushed' # <<>> => arena'.base = arena.base /\ stale' = stale /\ inUse' = inUse
      /\ \A p \in inUse : stale \/ p # arena.base =>
           p \in inUse' /\ (stale' \/ p # arena'.base)
  BY ShrinkLeaves
<1>2. Shaped'
  BY ShapedScrubbed DEF StringInv
<1>3. \A n \in Names : held'[n] = held[n] \/ held'[n] = NoString
  BY DEF StillHeld
<1>4. held' \in [Names -> QStrings]
  <2>1. \A n \in Names : held[n] \in QStrings
    BY DEF StringInv
  <2>2. \A n \in Names : held'[n] \in QStrings
    BY <1>3, <2>1, NoStringSound
  <2> QED
    BY <2>2 DEF StillHeld
<1>5. misused' => held' = [n \in Names |-> NoString]
  <2>1. ASSUME misused, NEW n \in Names PROVE held'[n] = NoString
    BY <1>3, <2>1 DEF StringInv
  <2> QED
    BY <2>1 DEF StillHeld
<1>6. ASSUME NEW n \in Names, held'[n] = held[n], held[n].buffer # NULL PROVE Sound(held[n])'
  <2> DEFINE s == held[n]
  <2>1. s \in QStrings /\ Placed(s)
    BY <1>6 DEF StringInv, Sound
  <2>2. s.at \in Nat /\ s.length \in Nat /\ s.end \in Nat
    BY <2>1 DEF QStrings
  <2>3. /\ Placed(s)'
        /\ \A i \in Nat : i \in s.at .. (s.at + s.length - 1) \/ i = s.end => Kept(s.buffer, i)
    <3>1. CASE s.own = "literal"
      BY <1>6, <2>1, <3>1 DEF Placed, Kept
    <3>2. CASE s.own = "heap"
      BY <1>1, <1>6, <2>1, <3>2 DEF Placed, Kept
    <3>3. CASE s.own = "arena"
      <4>1. /\ s.buffer = arena.base /\ ~stale /\ s.at + s.length <= s.end
            /\ Len(s.text) = s.length /\ s.length < Room
        BY <2>1, <3>3 DEF Placed
      <4>2. PICK i \in DOMAIN pushed' : pushed'[i].at <= s.at /\ s.end < End(pushed'[i])
        BY <1>6, <3>3 DEF StillHeld, End, NoString, NULL
      <4>3. pushed' # <<>>
        BY <4>2, EmptySeq
      <4>4. arena'.base = arena.base /\ ~stale' /\ inUse' = inUse /\ arena.base \in inUse
        BY <1>1, <1>6, <4>1, <4>3 DEF StringInv
      <4>5. /\ End(pushed'[i]) <= arena'.used
            /\ End(pushed'[i]) \in Int /\ arena'.used \in Int
        <5>1. pushed' \in Seq(Pushed) /\ i \in DOMAIN pushed' /\ arena'.used \in Int
          BY <4>2 DEF StackedInv, TypeOK
        <5>2. pushed'[i] \in Pushed
          BY <5>1, ElementOfSeq, LenProperties
        <5> QED
          BY <5>1, <5>2 DEF StackedInv, End, Pushed
      <4>6. ASSUME NEW j \in Nat, j \in s.at .. (s.at + s.length - 1) \/ j = s.end
            PROVE  j < arena'.used
        <5> HIDE DEF s
        <5> QED
          BY <2>2, <4>1, <4>2, <4>5, <4>6
      <4>7. Placed(s)'
        BY <1>6, <3>3, <4>1, <4>2, <4>4 DEF Placed, End
      <4> QED
        BY <4>1, <4>4, <4>6, <4>7 DEF Kept
    <3> QED
      BY <2>1, <3>1, <3>2, <3>3 DEF Placed
  <2>4. s.buffer \in DOMAIN memory
    BY <1>6, <2>1 DEF QStrings, StringInv, Shaped
  <2>5. DOMAIN memory'[s.buffer] = DOMAIN memory[s.buffer]
    BY <2>4 DEF Scrubbed
  <2>6. ASSUME NEW i \in Nat, i \in s.at .. (s.at + s.length - 1) \/ i = s.end
        PROVE  memory'[s.buffer][i] = memory[s.buffer][i]
    <3>1. i \in DOMAIN memory[s.buffer]
      BY <1>6, <2>6, BytesInside
    <3>2. Kept(s.buffer, i)
      BY <2>3, <2>6
    <3> QED
      BY <2>4, <3>1, <3>2 DEF Scrubbed
  <2> QED
    BY <1>6, <2>3, <2>5, <2>6, StringKept
<1>7. \A n \in Names : Sound(held[n])'
  <2> TAKE n \in Names
  <2>1. CASE held'[n] = NoString
    <3>1. Sound(NoString)'
      BY NoStringSound
    <3> QED
      BY <2>1, <3>1 DEF Sound, Placed, Says, NoString
  <2>2. CASE held'[n] = held[n] /\ held[n].buffer = NULL
    BY <2>2 DEF StringInv, Sound
  <2> QED
    BY <1>3, <1>6, <2>1, <2>2
<1> QED
  BY <1>1, <1>2, <1>4, <1>5, <1>7 DEF StringInv

\* Nothing is left of the strings when the arena has been misused.
LEMMA ForgetSound ==
    ASSUME StackedInv', Forget, arena'.base # NULL /\ ~stale' => arena'.base \in inUse'
    PROVE  StringInv'
<1>1. Shaped'
  <2>1. \A p \in DOMAIN Literals : p \notin Pieces
    BY LiteralsAssumption
  <2> QED
    BY <2>1 DEF Forget, Shaped, Memory
<1>2. held' \in [Names -> QStrings]
  BY NoStringSound DEF Forget
<1>3. \A n \in Names : Sound(held[n])'
  BY NoStringSound DEF Forget, Sound, NoString
<1> QED
  BY <1>1, <1>2, <1>3 DEF StringInv, Forget

LEMMA DestroySound ==
    ASSUME StringInv, StackedInv', Destroy
    PROVE  StringInv'
<1>1. CASE stale /\ Forget
  <2>1. arena'.base # NULL /\ ~stale' => arena'.base \in inUse'
    <3>1. CASE arena.base \in inUse
      BY <3>1, Zenon DEF Destroy, MmDestroyArena
    <3>2. CASE arena.base \notin inUse
      BY <3>2 DEF Destroy, MmDestroyArena
    <3> QED
      BY <3>1, <3>2
  <2> QED
    BY <1>1, <2>1, ForgetSound
<1>2. CASE ~stale /\ held' = StillHeld /\ memory' = Scrubbed /\ UNCHANGED misused
  BY <1>2, ShrinkSound DEF Destroy
<1> QED
  BY <1>1, <1>2 DEF Destroy

\* A push that succeeds.
LEMMA PushDone ==
    ASSUME StringInv, NEW size \in 0 .. (WORD - 1), MmPushMemoryFromArena(size),
           pushed' # pushed
    PROVE  /\ arena.base # NULL /\ arena.base \in Pieces /\ ~Overflows(size)
           /\ pushed' = Append(pushed, [base |-> arena.base, at |-> arena.used, size |-> size])
           /\ arena'.base = arena.base /\ inUse' = inUse /\ stale' = stale
           /\ \A i \in DOMAIN pushed : i \in DOMAIN pushed' /\ pushed'[i] = pushed[i]
           /\ Len(pushed') = Len(pushed) + 1 /\ Len(pushed') \in DOMAIN pushed'
           /\ pushed'[Len(pushed')] = [base |-> arena.base, at |-> arena.used, size |-> size]
<1> USE WordAssumption
<1> DEFINE piece == [base |-> arena.base, at |-> arena.used, size |-> size]
<1>1. /\ arena.base # NULL /\ ~Overflows(size)
      /\ pushed' = Append(pushed, piece)
      /\ inUse' = inUse /\ stale' = stale
      /\ arena' = [arena EXCEPT !.used = (@ + size) % WORD]
  BY DEF MmPushMemoryFromArena
<1>2. pushed \in Seq(Pushed) /\ piece \in Pushed /\ arena.base \in Pieces
  BY <1>1 DEF StringInv, StackedInv, TypeOK, Pushed
<1>3. arena'.base = arena.base
  BY <1>1 DEF StringInv, StackedInv, TypeOK
<1> HIDE DEF piece
<1>4. /\ Len(pushed) \in Nat /\ DOMAIN pushed = 1 .. Len(pushed)
      /\ Len(pushed') = Len(pushed) + 1
      /\ DOMAIN pushed' = 1 .. Len(pushed) + 1
      /\ pushed'[Len(pushed) + 1] = piece
      /\ \A i \in 1 .. Len(pushed) : pushed'[i] = pushed[i]
  BY <1>1, <1>2, AppendProperties, LenProperties
<1>5. \A i \in DOMAIN pushed : i \in DOMAIN pushed' /\ pushed'[i] = pushed[i]
  BY <1>4
<1>6. Len(pushed') \in DOMAIN pushed'
  BY <1>4
<1> QED
  BY <1>1, <1>2, <1>3, <1>4, <1>5, <1>6 DEF piece

\* Who has pushed something writes behind the strings that are there.
LEMMA PushKeeps ==
    ASSUME StringInv, NEW size \in 0 .. (WORD - 1), MmPushMemoryFromArena(size),
           pushed' # pushed, ~stale,
           \A q \in DOMAIN memory \ {arena.base} : memory'[q] = memory[q],
           DOMAIN memory'[arena.base] = DOMAIN memory[arena.base],
           \A i \in DOMAIN memory[arena.base] :
               i < arena.used => memory'[arena.base][i] = memory[arena.base][i],
           NEW n \in Names, held'[n] = held[n], held[n].buffer # NULL
    PROVE  Sound(held[n])'
<1> DEFINE s == held[n]
<1>1. s \in QStrings /\ Placed(s)
  BY DEF StringInv, Sound
<1>2. s.at \in Nat /\ s.length \in Nat /\ s.end \in Nat /\ s.buffer \in DOMAIN memory
  BY <1>1 DEF QStrings, StringInv, Shaped
<1>3. /\ arena'.base = arena.base /\ inUse' = inUse /\ stale' = stale
      /\ arena.base \in Pieces
      /\ \A i \in DOMAIN pushed : i \in DOMAIN pushed' /\ pushed'[i] = pushed[i]
  BY PushDone
<1>4. Placed(s)'
  BY <1>1, <1>3 DEF Placed, End
<1>5. CASE s.buffer # arena.base
  BY <1>2, <1>4, <1>5, StringKept
<1>6. CASE s.buffer = arena.base
  <2>1. s.own = "arena"
    BY <1>1, <1>3, <1>6, LiteralsAssumption DEF Placed
  <2>2. PICK i \in DOMAIN pushed : s.end < End(pushed[i]) /\ s.at + s.length <= s.end
    BY <1>1, <2>1 DEF Placed
  <2>3. End(pushed[i]) <= arena.used /\ End(pushed[i]) \in Int /\ arena.used \in Int
    <3>1. pushed \in Seq(Pushed) /\ arena.used \in Int
      BY DEF StringInv, StackedInv, TypeOK
    <3>2. pushed[i] \in Pushed
      BY <3>1, ElementOfSeq, LenProperties
    <3> QED
      BY <3>1, <3>2 DEF StringInv, StackedInv, End, Pushed
  <2>4. ASSUME NEW j \in Nat, j \in s.at .. (s.at + s.length - 1) \/ j = s.end
        PROVE  memory'[s.buffer][j] = memory[s.buffer][j]
    <3>1. j \in DOMAIN memory[s.buffer]
      BY <2>4, BytesInside
    <3>2. j < arena.used
      <4> HIDE DEF s
      <4> QED
        BY <1>2, <2>2, <2>3, <2>4
    <3> QED
      BY <1>6, <3>1, <3>2
  <2> QED
    BY <1>4, <1>6, <2>4, StringKept
<1> QED
  BY <1>5, <1>6

LEMMA PushSound ==
    ASSUME NoWrap, StringInv, NEW size \in PushSizes, Push(size)
    PROVE  StringInv'
<1> USE SizesAssumption
<1>1. TypeOK' /\ StackedInv'
  BY TypePush, StackedPush DEF Push, StringInv, StackedInv, NoWrap
<1>2. CASE pushed' = pushed /\ UNCHANGED stringVars
  <2>1. UNCHANGED <<arena, inUse, stale>>
    <3>1. CASE UNCHANGED <<arena, inUse, pushed, stale>>
      BY <3>1
    <3>2. CASE pushed' = Append(pushed, [base |-> arena.base, at |-> arena.used, size |-> size])
      <4>1. pushed \in Seq(Pushed)
        BY DEF StringInv, StackedInv, TypeOK
      <4> QED
        BY <1>2, <3>2, <4>1
    <3> QED
      BY <3>1, <3>2 DEF Push, MmPushMemoryFromArena
  <2> QED
    BY <1>1, <1>2, <2>1 DEF StringInv, stringVars, Shaped, Sound, Placed, Says
<1>3. CASE pushed' # pushed /\ stale /\ Forget
  <2>1. stale'
    BY <1>3, PushDone DEF Push
  <2> QED
    BY <1>1, <1>3, <2>1, ForgetSound
<1>4. CASE /\ pushed' # pushed /\ ~stale
           /\ memory' = Filled(arena.base, arena.used, size)
           /\ UNCHANGED <<held, misused>>
  <2>1. /\ arena'.base = arena.base /\ inUse' = inUse /\ stale' = stale
        /\ arena.base \in Pieces
    BY <1>4, PushDone DEF Push
  <2>2. arena.base \in DOMAIN memory /\ arena.used \in Nat
    BY <2>1 DEF StringInv, StackedInv, TypeOK, Shaped
  <2>3. /\ DOMAIN memory' = DOMAIN memory
        /\ \A q \in DOMAIN memory \ {arena.base} : memory'[q] = memory[q]
        /\ DOMAIN memory'[arena.base] = DOMAIN memory[arena.base]
    BY <1>4, <2>2 DEF Filled
  <2>4. ASSUME NEW i \in DOMAIN memory[arena.base], i < arena.used
        PROVE  memory'[arena.base][i] = memory[arena.base][i]
    <3>1. i \in Int
      BY <2>1, RoomAssumption DEF StringInv, Shaped
    <3>2. i \notin arena.used .. (arena.used + size - 1)
      BY <2>2, <2>4, <3>1
    <3> QED
      BY <1>4, <2>2, <3>2 DEF Filled
  <2>5. Shaped'
    BY <2>1, <2>3, ShapedWritten DEF StringInv
  <2>6. ASSUME NEW n \in Names PROVE Sound(held[n])'
    <3>1. CASE held[n].buffer = NULL
      BY <1>4, <3>1 DEF StringInv, Sound
    <3>2. CASE held[n].buffer # NULL
      BY <1>4, <2>3, <2>4, <3>2, PushKeeps DEF Push
    <3> QED
      BY <3>1, <3>2
  <2> QED
    BY <1>1, <1>4, <2>1, <2>5, <2>6 DEF StringInv
<1> QED
  BY <1>2, <1>3, <1>4 DEF Push

\* A string changes and nothing else.
LEMMA OneString ==
    ASSUME StringInv, ~misused, UNCHANGED <<vars, memory, misused>>,
           NEW d \in Names, NEW s \in QStrings, Sound(s), held' = [held EXCEPT ![d] = s]
    PROVE  StringInv'
<1>1. held' \in [Names -> QStrings]
  BY DEF StringInv
<1>2. \A n \in Names : held'[n] = IF n = d THEN s ELSE held[n]
  BY DEF StringInv
<1>3. \A n \in Names : Sound(held'[n])
  BY <1>2 DEF StringInv
<1>4. UNCHANGED <<arena, inUse, pushed, stale, memory, misused>>
  BY DEF vars
<1>5. \A n \in Names : Sound(held[n])'
  BY <1>3, <1>4 DEF Sound, Placed, Says
<1>6. StackedInv' /\ Shaped'
  BY <1>4 DEF StringInv, StackedInv, TypeOK, End, Shaped
<1> QED
  BY <1>1, <1>4, <1>5, <1>6 DEF StringInv

\* QolGetStringLength finds the terminator of a literal.
LEMMA LiteralEnds ==
    ASSUME StringInv, NEW p \in DOMAIN Literals
    PROVE  /\ Len(Literals[p]) \in Nat /\ Len(Literals[p]) <= Room
           /\ QolGetStringLength(p, 0) \in 0 .. (Len(Literals[p]) - 1)
           /\ memory[p][QolGetStringLength(p, 0)] = NUL
<1> DEFINE nuls == {i \in 0 .. (Room - 1) : i \in DOMAIN memory[p] /\ memory[p][i] = NUL}
<1>1. /\ Literals[p] \in Seq(Byte) /\ Literals[p] # <<>>
      /\ Literals[p][Len(Literals[p])] = NUL /\ Len(Literals[p]) <= Room
  BY LiteralsAssumption DEF Byte
<1>2. Len(Literals[p]) \in Nat \ {0}
  BY <1>1, LenProperties, EmptySeq
<1>3. memory[p] = [i \in 0 .. (Len(Literals[p]) - 1) |-> Literals[p][i + 1]]
  BY DEF StringInv, Shaped
<1>4. Len(Literals[p]) - 1 \in nuls
  BY <1>1, <1>2, <1>3, RoomAssumption
<1>5. nuls \subseteq Nat
  BY RoomAssumption
<1>6. Min(nuls) \in nuls
  <2> HIDE DEF nuls
  <2> QED
    BY <1>4, <1>5, LeastNumber
<1>7. QolGetStringLength(p, 0) = Min(nuls) - 0
  BY <1>4 DEF QolGetStringLength
<1>8. /\ Min(nuls) \in Nat /\ Min(nuls) \in DOMAIN memory[p]
      /\ memory[p][Min(nuls)] = NUL
  BY <1>5, <1>6
<1> HIDE DEF nuls
<1>9. QolGetStringLength(p, 0) = Min(nuls)
  BY <1>7, <1>8
<1> QED
  BY <1>1, <1>2, <1>3, <1>8, <1>9

LEMMA InitStringSound ==
    ASSUME StringInv, ~misused, NEW p \in DOMAIN Literals, NEW d \in Names,
           NEW length \in 0 .. (Len(Literals[p]) - 1), QolInitStringEx(p, length, d)
    PROVE  StringInv'
<1> DEFINE end == QolGetStringLength(p, 0)
           letters == Text(p, 0, length)
           s == [buffer |-> p, at |-> 0, length |-> length, end |-> end, text |-> letters,
                 own |-> "literal"]
<1>1. /\ Len(Literals[p]) \in Nat /\ Len(Literals[p]) <= Room
      /\ end \in 0 .. (Len(Literals[p]) - 1) /\ memory[p][end] = NUL
  BY LiteralEnds
<1>2. length \in Nat /\ length < Len(Literals[p]) /\ length < Room
  BY <1>1, RoomAssumption
<1>3. memory[p] = [i \in 0 .. (Len(Literals[p]) - 1) |-> Literals[p][i + 1]]
  BY DEF StringInv, Shaped
<1>4. Literals[p] \in Seq(Byte)
  BY LiteralsAssumption DEF Byte
<1>5. letters = [i \in 1 .. length |-> memory[p][0 + i - 1]]
  BY DEF Text
<1>6. ASSUME NEW i \in 1 .. length PROVE letters[i] \in Byte /\ memory[p][0 + i - 1] = letters[i]
  <2>1. i - 1 \in 0 .. (Len(Literals[p]) - 1) /\ i \in 1 .. Len(Literals[p])
    BY <1>1, <1>2
  <2>2. memory[p][i - 1] = Literals[p][i]
    BY <1>3, <2>1
  <2>3. Literals[p][i] \in Byte
    BY <1>4, <2>1, ElementOfSeq
  <2>4. 0 + i - 1 = i - 1
    OBVIOUS
  <2> HIDE DEF letters
  <2> QED
    BY <1>5, <2>2, <2>3, <2>4
<1>7. letters \in Seq(Byte) /\ Len(letters) = length
  <2> HIDE DEF letters
  <2>1. letters = [i \in 1 .. length |-> letters[i]]
    BY <1>5
  <2> QED
    BY <1>2, <1>6, <2>1
<1>8. end \in DOMAIN memory[p] /\ end \in Nat /\ end < Len(Literals[p])
  BY <1>1, <1>3
<1>9. held' = [held EXCEPT ![d] = s] /\ UNCHANGED <<vars, memory, misused>>
  BY DEF QolInitStringEx
<1> HIDE DEF end, letters
<1>10. s \in QStrings
  BY <1>2, <1>7, <1>8 DEF QStrings
<1>11. Says(memory[p], s)
  BY <1>1, <1>6, <1>8 DEF Says
<1>12. Placed(s)
  BY <1>2, <1>7, <1>8 DEF Placed
<1>13. Sound(s)
  BY <1>11, <1>12, LiteralsAssumption DEF Sound
<1> HIDE DEF s
<1> QED
  BY <1>9, <1>10, <1>13, OneString

LEMMA CopyReferenceSound ==
    ASSUME StringInv, ~misused, NEW s \in Names, NEW d \in Names, QolCopyString(s, d)
    PROVE  StringInv'
<1>1. held[s] \in QStrings /\ Sound(held[s])
  BY DEF StringInv
<1> QED
  BY <1>1, OneString DEF QolCopyString

LEMMA SliceSound ==
    ASSUME StringInv, ~misused, NEW s \in Names, NEW d \in Names, NEW length \in 0 .. Room,
           QolSliceString(s, length, d)
    PROVE  StringInv'
<1>1. held[s] \in QStrings /\ Sound(held[s])
  BY DEF StringInv
<1>2. /\ held[s].length \in Nat /\ held[s].text \in Seq(Byte) /\ length \in Nat
      /\ held[s].at \in Nat /\ held[s].end \in Nat
  BY <1>1, RoomAssumption DEF QStrings
<1>3. UNCHANGED <<vars, memory, misused>>
  BY DEF QolSliceString
<1>4. CASE held[s].buffer = NULL
  BY <1>3, <1>4, OneString, NoStringSound DEF QolSliceString
<1>5. CASE held[s].buffer # NULL /\ length >= held[s].length
  BY <1>1, <1>3, <1>5, OneString DEF QolSliceString
<1>6. CASE held[s].buffer # NULL /\ ~(length >= held[s].length)
  <2>1. Placed(held[s]) /\ Says(memory[held[s].buffer], held[s])
    BY <1>1, <1>6 DEF Sound
  <2> DEFINE letters == SubSeq(held[s].text, 1, length)
             t == [held[s] EXCEPT !.length = length, !.text = SubSeq(@, 1, length)]
  <2>2. length < held[s].length /\ Len(held[s].text) = held[s].length
    BY <1>2, <1>6, <2>1 DEF Placed
  <2>3. letters \in Seq(Byte) /\ Len(letters) = length /\ \A i \in 1 .. length : letters[i] = held[s].text[i]
    <3>1. \A i \in 1 .. length : held[s].text[i] \in Byte
      <4>1. \A i \in 1 .. length : i \in 1 .. Len(held[s].text)
        BY <1>2, <2>2
      <4> QED
        BY <1>2, <4>1, ElementOfSeq
    <3> QED
      BY <1>2, <2>2, <3>1, SubSeqProperties
  <2>4. /\ t.buffer = held[s].buffer /\ t.at = held[s].at /\ t.end = held[s].end
        /\ t.own = held[s].own /\ t.length = length /\ t.text = letters
    BY <1>1 DEF QStrings
  <2> HIDE DEF letters
  <2>5. t \in QStrings
    BY <1>1, <1>2, <2>3 DEF QStrings, letters
  <2> HIDE DEF t
  <2>6. Placed(t)
    <3>1. Len(t.text) = t.length /\ t.length < Room
      BY <1>2, <2>1, <2>2, <2>3, <2>4, RoomAssumption DEF Placed
    <3>2. CASE held[s].own = "literal"
      <4>1. held[s].buffer \in DOMAIN Literals /\ length < Len(Literals[held[s].buffer])
        <5>1. held[s].buffer \in DOMAIN Literals /\ held[s].length < Len(Literals[held[s].buffer])
          BY <2>1, <3>2 DEF Placed
        <5>2. Len(Literals[held[s].buffer]) \in Nat
          BY <5>1, LiteralsAssumption, LenProperties
        <5> QED
          BY <1>2, <2>2, <5>1, <5>2
      <4> QED
        BY <2>1, <2>4, <3>1, <3>2, <4>1 DEF Placed
    <3>3. CASE held[s].own # "literal"
      <4>1. held[s].at + length <= held[s].end
        BY <1>2, <2>1, <2>2, <3>3 DEF Placed
      <4> QED
        BY <1>2, <2>1, <2>4, <3>1, <3>3, <4>1 DEF Placed
    <3> QED
      BY <3>2, <3>3
  <2>7. Says(memory[t.buffer], t)
    <3>1. ASSUME NEW i \in 1 .. length
          PROVE  memory[held[s].buffer][held[s].at + i - 1] = letters[i]
      <4>1. i \in 1 .. held[s].length
        BY <1>2, <2>2
      <4> QED
        BY <2>1, <2>3, <4>1 DEF Says
    <3>2. held[s].end \in DOMAIN memory[held[s].buffer] /\ memory[held[s].buffer][held[s].end] = NUL
      BY <2>1 DEF Says
    <3> QED
      BY <2>4, <3>1, <3>2 DEF Says
  <2>8. Sound(t)
    BY <1>6, <2>4, <2>6, <2>7 DEF Sound
  <2>9. held' = [held EXCEPT ![d] = t]
    BY <1>6 DEF QolSliceString, t
  <2> QED
    BY <1>3, <2>5, <2>8, <2>9, OneString
<1> QED
  BY <1>4, <1>5, <1>6

LEMMA RefusedSound ==
    ASSUME StringInv, ~misused, UNCHANGED <<vars, memory, misused>>, NEW d \in Names, Refused(d)
    PROVE  StringInv'
<1> DEFINE s == [NoString EXCEPT !.length = held[d].length]
<1>1. held[d].length \in Nat
  BY DEF StringInv, QStrings
<1>2. s \in QStrings /\ Sound(s)
  <2>1. s = [buffer |-> NULL, at |-> 0, length |-> held[d].length, end |-> 0, text |-> <<>>,
             own |-> "none"]
    BY DEF NoString
  <2>2. <<>> \in Seq(Byte)
    BY EmptySeq
  <2> HIDE DEF s
  <2>3. s \in QStrings
    BY <1>1, <2>1, <2>2 DEF QStrings
  <2>4. s.buffer = NULL /\ s.own = "none"
    BY <2>1
  <2> QED
    BY <2>3, <2>4 DEF Sound
<1>3. CASE held' = [held EXCEPT ![d] = NoString]
  BY <1>3, NoStringSound, OneString
<1>4. CASE held' = [held EXCEPT ![d] = s]
  <2> HIDE DEF s
  <2> QED
    BY <1>2, <1>4, OneString
<1> QED
  BY <1>3, <1>4 DEF Refused

\* What a copy of a string says is what the string says.
LEMMA CopiedSays ==
    ASSUME StringInv, NEW n \in Names, held[n].buffer # NULL, NEW p \in Pieces, NEW at \in Nat,
           at + held[n].length < Room, memory' = Copied(held[n], p, at), NEW own
    PROVE  /\ DOMAIN memory' = DOMAIN memory
           /\ \A q \in DOMAIN memory \ {p} : memory'[q] = memory[q]
           /\ DOMAIN memory'[p] = DOMAIN memory[p]
           /\ \A i \in DOMAIN memory[p] : i < at => memory'[p][i] = memory[p][i]
           /\ Says(memory'[p], Copy(held[n], p, at, own))
<1> DEFINE s == held[n]
           c == Copy(held[n], p, at, own)
<1>1. p \in DOMAIN memory /\ DOMAIN memory[p] = 0 .. (Room - 1)
  BY DEF StringInv, Shaped
<1>2. s.length \in Nat /\ s.at \in Nat /\ Says(memory[s.buffer], s)
  BY DEF StringInv, QStrings, Sound
<1>3. memory'[p] = [i \in DOMAIN memory[p] |->
          IF i \in at .. (at + s.length - 1) THEN memory[s.buffer][s.at + i - at]
          ELSE IF i = at + s.length THEN NUL ELSE memory[p][i]]
  BY <1>1 DEF Copied
<1>4. /\ DOMAIN memory' = DOMAIN memory
      /\ \A q \in DOMAIN memory \ {p} : memory'[q] = memory[q]
  BY <1>1 DEF Copied
<1>5. ASSUME NEW i \in DOMAIN memory[p], i < at PROVE memory'[p][i] = memory[p][i]
  <2>1. i \in Int /\ i \notin at .. (at + s.length - 1) /\ i # at + s.length
    BY <1>1, <1>2, <1>5, RoomAssumption
  <2> QED
    BY <1>3, <2>1
<1>6. c.at = at /\ c.length = s.length /\ c.end = at + s.length /\ c.text = s.text
  BY DEF Copy
<1>7. ASSUME NEW i \in 1 .. s.length PROVE memory'[p][at + i - 1] = s.text[i]
  <2>1. /\ at + i - 1 \in DOMAIN memory[p] /\ at + i - 1 \in at .. (at + s.length - 1)
        /\ s.at + (at + i - 1) - at = s.at + i - 1
    BY <1>1, <1>2, RoomAssumption
  <2>2. memory'[p][at + i - 1] = memory[s.buffer][s.at + (at + i - 1) - at]
    BY <1>3, <2>1
  <2>3. memory[s.buffer][s.at + i - 1] = s.text[i]
    BY <1>2 DEF Says
  <2> QED
    BY <2>1, <2>2, <2>3
<1>8. at + s.length \in DOMAIN memory'[p] /\ memory'[p][at + s.length] = NUL
  <2>1. at + s.length \in DOMAIN memory[p] /\ at + s.length \notin at .. (at + s.length - 1)
    BY <1>1, <1>2, RoomAssumption
  <2> QED
    BY <1>3, <2>1
<1>9. Says(memory'[p], c)
  <2> HIDE DEF c
  <2> QED
    BY <1>6, <1>7, <1>8 DEF Says
<1> QED
  BY <1>3, <1>4, <1>5, <1>9

LEMMA CopyTyped ==
    ASSUME StringInv, NEW n \in Names, NEW p \in Pieces, NEW at \in Nat,
           NEW own \in {"arena", "heap"}
    PROVE  Copy(held[n], p, at, own) \in QStrings
<1>1. held[n] \in QStrings
  BY DEF StringInv
<1>2. held[n].length \in Nat /\ held[n].text \in Seq(Byte) /\ at + held[n].length \in Nat
  BY <1>1 DEF QStrings
<1> QED
  BY <1>2 DEF Copy, QStrings

LEMMA CopyArenaSound ==
    ASSUME StringsFit, StringInv, ~misused, NEW s \in Names, NEW d \in Names,
           CopyStringArena(s, d)
    PROVE  StringInv'
<1> DEFINE size == Needed(held[s])
<1>1. /\ held[s].buffer # NULL /\ held[s].length \in Nat /\ held[s].length < Room
      /\ MmPushMemoryFromArena(size)
  BY DEF CopyStringArena, StringInv, QStrings, Sound, Placed
<1>2. size \in 0 .. (WORD - 1) /\ \A a \in ArenaSizes : a + size < WORD
  <2>1. size = held[s].length + 1
    BY DEF Needed
  <2> HIDE DEF size
  <2>2. \A a \in ArenaSizes : a \in Nat
    BY SizesAssumption
  <2> QED
    BY <1>1, <2>1, <2>2, RoomAssumption, WordAssumption DEF StringsFit
<1>3. size = held[s].length + 1
  BY DEF Needed
<1> HIDE DEF size
<1>4. TypeOK' /\ StackedInv'
  BY <1>1, <1>2, TypePush, StackedPush DEF StringInv, StackedInv
<1>5. CASE pushed' = pushed /\ Refused(d) /\ UNCHANGED <<memory, misused>>
  <2>1. UNCHANGED vars
    <3>1. CASE UNCHANGED <<arena, inUse, pushed, stale>>
      BY <3>1 DEF vars
    <3>2. CASE pushed' = Append(pushed, [base |-> arena.base, at |-> arena.used, size |-> size])
      <4>1. pushed \in Seq(Pushed)
        BY DEF StringInv, StackedInv, TypeOK
      <4> QED
        BY <1>5, <3>2, <4>1
    <3> QED
      BY <1>1, <3>1, <3>2 DEF MmPushMemoryFromArena
  <2> QED
    BY <1>5, <2>1, RefusedSound
<1>6. CASE pushed' # pushed /\ stale /\ Forget
  <2>1. stale'
    BY <1>1, <1>2, <1>6, PushDone
  <2> QED
    BY <1>4, <1>6, <2>1, ForgetSound
<1>7. CASE /\ pushed' # pushed /\ ~stale
           /\ memory' = Copied(held[s], arena.base, arena.used)
           /\ UNCHANGED misused
           /\ held' = [held EXCEPT ![d] = Copy(held[s], arena.base, arena.used, "arena")]
  <2> DEFINE c == Copy(held[s], arena.base, arena.used, "arena")
  <2>1. /\ arena'.base = arena.base /\ inUse' = inUse /\ stale' = stale
        /\ arena.base \in Pieces /\ arena.base # NULL
        /\ Len(pushed') \in DOMAIN pushed'
        /\ pushed'[Len(pushed')] = [base |-> arena.base, at |-> arena.used, size |-> size]
    BY <1>1, <1>2, <1>7, PushDone
  <2>2. /\ arena.used \in Nat /\ arena.used + size <= arena'.size /\ arena'.size <= Room
        /\ arena'.size \in Int
    <3>1. arena'.size \in ArenaSizes /\ arena'.size \in Int /\ arena'.base # NULL
      BY <1>4, <2>1 DEF StackedInv, TypeOK
    <3>2. End(pushed'[Len(pushed')]) <= arena'.size
      BY <1>4, <2>1 DEF StackedInv, End
    <3>3. End(pushed'[Len(pushed')]) = arena.used + size
      BY <2>1 DEF End
    <3> QED
      BY <3>1, <3>2, <3>3, RoomAssumption DEF StringInv, StackedInv, TypeOK
  <2>3. arena.used + held[s].length < Room
    BY <1>1, <1>3, <2>2, RoomAssumption
  <2>4. /\ DOMAIN memory' = DOMAIN memory
        /\ \A q \in DOMAIN memory \ {arena.base} : memory'[q] = memory[q]
        /\ DOMAIN memory'[arena.base] = DOMAIN memory[arena.base]
        /\ \A i \in DOMAIN memory[arena.base] :
              i < arena.used => memory'[arena.base][i] = memory[arena.base][i]
        /\ Says(memory'[arena.base], c)
    BY <1>1, <1>7, <2>1, <2>2, <2>3, CopiedSays
  <2>5. c \in QStrings
    BY <2>1, <2>2, CopyTyped
  <2>6. /\ c.buffer = arena.base /\ c.at = arena.used /\ c.length = held[s].length
        /\ c.end = arena.used + held[s].length /\ c.text = held[s].text /\ c.own = "arena"
    BY DEF Copy
  <2> HIDE DEF c
  <2>7. Shaped'
    BY <2>1, <2>4, ShapedWritten DEF StringInv
  <2>8. /\ held' \in [Names -> QStrings] /\ held'[d] = c
        /\ \A n \in Names : n # d => held'[n] = held[n]
    BY <1>7, <2>5 DEF StringInv, c
  <2>9. Sound(held[d])'
    <3>1. /\ pushed'[Len(pushed')].at <= c.at
          /\ c.end < End(pushed'[Len(pushed')])
      BY <1>1, <1>3, <2>1, <2>2, <2>6 DEF End
    <3>2. Len(c.text) = c.length /\ c.length < Room /\ c.at + c.length <= c.end
      BY <1>1, <2>2, <2>6 DEF StringInv, Sound, Placed
    <3>3. Placed(held[d])'
      BY <1>7, <2>1, <2>6, <2>8, <3>1, <3>2 DEF Placed, End
    <3> QED
      BY <2>4, <2>6, <2>8, <3>3, <2>1 DEF Sound, Says
  <2>10. ASSUME NEW n \in Names, n # d PROVE Sound(held[n])'
    <3>0. held'[n] = held[n]
      BY <2>8, <2>10
    <3>1. CASE held[n].buffer = NULL
      BY <3>0, <3>1 DEF StringInv, Sound
    <3>2. CASE held[n].buffer # NULL
      BY <1>1, <1>2, <1>7, <2>4, <3>0, <3>2, PushKeeps
    <3> QED
      BY <3>1, <3>2
  <2> QED
    BY <1>4, <1>7, <2>1, <2>7, <2>8, <2>9, <2>10 DEF StringInv
<1> QED
  BY <1>5, <1>6, <1>7 DEF CopyStringArena

LEMMA CopyHeapSound ==
    ASSUME StringInv, ~misused, NEW s \in Names, NEW d \in Names, CopyStringHeap(s, d)
    PROVE  StringInv'
<1>1. /\ held[s].buffer # NULL /\ held[s].length \in Nat
      /\ Len(held[s].text) = held[s].length
      /\ UNCHANGED <<arena, pushed, stale, misused>>
  BY DEF CopyStringHeap, StringInv, QStrings, Sound, Placed
<1>2. CASE Refused(d) /\ UNCHANGED <<inUse, memory>>
  BY <1>1, <1>2, RefusedSound DEF vars
<1>3. ASSUME NEW p \in Pieces \ inUse, Needed(held[s]) <= Room,
             inUse' = inUse \cup {p}, memory' = Copied(held[s], p, 0),
             held' = [held EXCEPT ![d] = Copy(held[s], p, 0, "heap")]
      PROVE  StringInv'
  <2>1. /\ inUse \subseteq Pieces /\ p # NULL
        /\ (arena.base # NULL /\ ~stale => arena.base \in inUse)
    BY PiecesAssumption DEF StringInv, StackedInv, TypeOK, NULL
  <2>2. StackedInv'
    <3>1. TypeOK'
      BY <1>1, <1>3, <2>1 DEF StringInv, StackedInv, TypeOK
    <3> QED
      BY <1>1, <3>1, StackedSame DEF StringInv
  <2>3. 0 + held[s].length < Room /\ 0 + held[s].length = held[s].length
    BY <1>1, <1>3, RoomAssumption DEF Needed
  <2>4. PICK at \in Nat : at = 0
    OBVIOUS
  <2> DEFINE c == Copy(held[s], p, at, "heap")
  <2>5. /\ DOMAIN memory' = DOMAIN memory
        /\ \A q \in DOMAIN memory \ {p} : memory'[q] = memory[q]
        /\ DOMAIN memory'[p] = DOMAIN memory[p]
        /\ Says(memory'[p], c)
    <3>1. at + held[s].length < Room /\ memory' = Copied(held[s], p, at)
      BY <1>3, <2>3, <2>4
    <3> QED
      BY <1>1, <3>1, CopiedSays
  <2>6. c \in QStrings
    BY CopyTyped
  <2>7. /\ c.buffer = p /\ c.at = 0 /\ c.length = held[s].length
        /\ c.end = held[s].length /\ c.text = held[s].text /\ c.own = "heap"
    BY <2>3, <2>4 DEF Copy
  <2> HIDE DEF c
  <2>8. Shaped'
    BY <1>3, <2>5, ShapedWritten DEF StringInv
  <2>9. /\ held' \in [Names -> QStrings] /\ held'[d] = c
        /\ \A n \in Names : n # d => held'[n] = held[n]
    BY <1>3, <2>4, <2>6 DEF StringInv, c
  <2>10. Sound(held[d])'
    <3>1. stale' \/ p # arena'.base
      BY <1>1, <1>3, <2>1
    <3>2. Len(c.text) = c.length /\ c.length < Room /\ c.length <= c.end /\ c.end < Room
      BY <1>1, <2>3, <2>7
    <3>3. Placed(held[d])'
      BY <1>3, <2>7, <2>9, <3>1, <3>2 DEF Placed
    <3> QED
      BY <2>1, <2>5, <2>7, <2>9, <3>3 DEF Sound, Says
  <2>11. ASSUME NEW n \in Names, n # d PROVE Sound(held[n])'
    <3>0. held'[n] = held[n]
      BY <2>9, <2>11
    <3>1. CASE held[n].buffer = NULL
      BY <3>0, <3>1 DEF StringInv, Sound
    <3>2. CASE held[n].buffer # NULL
      <4>1. held[n] \in QStrings /\ Placed(held[n])
        BY <3>2 DEF StringInv, Sound
      <4>2. held[n].buffer # p
        BY <1>3, <2>1, <3>2, <4>1, LiteralsAssumption DEF Placed
      <4>3. held[n].buffer \in DOMAIN memory
        BY <3>2, <4>1 DEF QStrings, StringInv, Shaped
      <4>4. Placed(held[n])'
        BY <1>1, <1>3, <3>0, <4>1 DEF Placed, End
      <4> QED
        BY <2>5, <3>0, <3>2, <4>2, <4>3, <4>4, StringKept
    <3> QED
      BY <3>1, <3>2
  <2> QED
    BY <1>1, <1>3, <2>1, <2>2, <2>8, <2>9, <2>10, <2>11 DEF StringInv
<1> QED
  BY <1>2, <1>3 DEF CopyStringHeap

LEMMA CopyNullSound ==
    ASSUME StringInv, ~misused, NEW s \in Names, NEW d \in Names, CopyNull(s, d)
    PROVE  StringInv'
<1>1. UNCHANGED <<vars, memory, misused>>
  BY DEF CopyNull
<1>2. CASE held' = held
  <2>1. held' = [held EXCEPT ![d] = held[d]] /\ held[d] \in QStrings /\ Sound(held[d])
    BY <1>2 DEF StringInv
  <2> QED
    BY <1>1, <2>1, OneString
<1>3. CASE held' = [held EXCEPT ![d] = NoString]
  BY <1>1, <1>3, NoStringSound, OneString
<1> QED
  BY <1>2, <1>3 DEF CopyNull

\* A string that is freed takes with it the others in its piece, and no others.
LEMMA FreeSound ==
    ASSUME StringInv, ~misused, NEW s \in Names, FreeString(s)
    PROVE  StringInv'
<1> DEFINE p == held[s].buffer
<1>1. /\ p \in inUse /\ p \in Pieces /\ (stale \/ p # arena.base)
  <2>1. held[s].own = "heap"
    BY DEF FreeString
  <2>2. held[s].buffer # NULL
    BY <2>1 DEF StringInv, Sound
  <2> QED
    BY <2>1, <2>2 DEF StringInv, StackedInv, TypeOK, Sound, Placed
<1>2. /\ UNCHANGED <<arena, pushed, stale, misused>> /\ inUse' = inUse \ {p}
      /\ held' = [n \in Names |-> IF held[n].own = "heap" /\ held[n].buffer = p
                                  THEN NoString ELSE held[n]]
      /\ memory' = [memory EXCEPT ![p] = [i \in DOMAIN @ |-> Junk]]
  BY DEF FreeString
<1> HIDE DEF p
<1>3. StackedInv'
  <2>1. TypeOK'
    BY <1>2 DEF StringInv, StackedInv, TypeOK
  <2> QED
    BY <1>2, <2>1, StackedSame DEF StringInv
<1>4. arena'.base # NULL /\ ~stale' => arena'.base \in inUse'
  BY <1>1, <1>2 DEF StringInv
<1>5. p \in DOMAIN memory
  BY <1>1 DEF StringInv, Shaped
<1>6. /\ DOMAIN memory' = DOMAIN memory
      /\ \A q \in DOMAIN memory \ {p} : memory'[q] = memory[q]
      /\ DOMAIN memory'[p] = DOMAIN memory[p]
  BY <1>2, <1>5
<1>7. Shaped'
  BY <1>1, <1>6, ShapedWritten DEF StringInv
<1>8. held' \in [Names -> QStrings]
  BY <1>2, NoStringSound DEF StringInv
<1>9. ASSUME NEW n \in Names PROVE Sound(held[n])'
  <2>1. CASE held'[n] = NoString
    BY <2>1, NoStringSound DEF Sound, NoString
  <2>2. CASE held'[n] # NoString
    <3>1. held'[n] = held[n] /\ ~(held[n].own = "heap" /\ held[n].buffer = p)
      BY <1>2, <2>2
    <3>2. CASE held[n].buffer = NULL
      BY <3>1, <3>2 DEF StringInv, Sound
    <3>3. CASE held[n].buffer # NULL
      <4>1. held[n] \in QStrings /\ Placed(held[n])
        BY <3>3 DEF StringInv, Sound
      <4>2. held[n].buffer # p
        BY <1>1, <3>1, <4>1, LiteralsAssumption DEF Placed
      <4>3. held[n].buffer \in DOMAIN memory
        BY <3>3, <4>1 DEF QStrings, StringInv, Shaped
      <4>4. Placed(held[n])'
        BY <1>2, <3>1, <4>1, <4>2 DEF Placed, End
      <4> QED
        BY <1>6, <3>1, <3>3, <4>2, <4>3, <4>4, StringKept
    <3> QED
      BY <3>2, <3>3
  <2> QED
    BY <2>1, <2>2
<1> QED
  BY <1>2, <1>3, <1>4, <1>7, <1>8, <1>9 DEF StringInv

LEMMA InitStrings == StringInit => StringInv
<1> SUFFICES ASSUME StringInit PROVE StringInv
  OBVIOUS
<1>1. StackedInv /\ arena.base = NULL
  BY InitStacked DEF StringInit, Init
<1>2. Shaped
  BY ShapedAtFirst DEF StringInit
<1>3. held \in [Names -> QStrings] /\ \A n \in Names : held[n] = NoString
  BY NoStringSound DEF StringInit
<1> QED
  BY <1>1, <1>2, <1>3, NoStringSound DEF StringInv, StringInit

LEMMA StringsNext == StringsFit /\ StringInv /\ [StringNext]_allVars => StringInv'
<1> SUFFICES ASSUME StringsFit, StringInv, [StringNext]_allVars PROVE StringInv'
  OBVIOUS
<1>0. NoWrap
  BY DEF StringsFit
<1>1. CASE Shrink
  <2>1. Next
    BY <1>1 DEF Shrink, Shrinks, Next
  <2>2. StackedInv'
    BY <1>0, <2>1, StackedNext DEF StringInv
  <2> QED
    BY <1>1, <2>2, ShrinkSound DEF Shrink
<1>2. CASE Destroy
  <2>1. Next
    BY <1>2 DEF Destroy, Next
  <2>2. StackedInv'
    BY <1>0, <2>1, StackedNext DEF StringInv
  <2> QED
    BY <1>2, <2>2, DestroySound
<1>3. CASE \E size \in PushSizes : Push(size)
  BY <1>0, <1>3, PushSound
<1>4. ASSUME ~misused, NEW p \in DOMAIN Literals, NEW d \in Names,
             \/ QolInitString(p, d)
             \/ \E length \in 0 .. (Len(Literals[p]) - 1) : QolInitStringEx(p, length, d)
      PROVE  StringInv'
  <2>1. QolGetStringLength(p, 0) \in 0 .. (Len(Literals[p]) - 1)
    BY LiteralEnds
  <2> QED
    BY <1>4, <2>1, InitStringSound DEF QolInitString
<1>5. ASSUME ~misused, NEW s \in Names, NEW d \in Names,
             \/ QolCopyString(s, d)
             \/ \E length \in 0 .. Room : QolSliceString(s, length, d)
             \/ CopyStringArena(s, d) \/ CopyStringHeap(s, d) \/ CopyNull(s, d)
      PROVE  StringInv'
  BY <1>5, CopyReferenceSound, SliceSound, CopyArenaSound, CopyHeapSound, CopyNullSound
<1>6. ASSUME ~misused, NEW s \in Names, FreeString(s) PROVE StringInv'
  BY <1>6, FreeSound
<1>7. CASE UNCHANGED allVars
  <2>1. UNCHANGED <<arena, inUse, pushed, stale, memory, held, misused>>
    BY <1>7 DEF allVars, vars, stringVars
  <2>2. StackedInv' /\ Shaped'
    BY <2>1 DEF StringInv, StackedInv, TypeOK, End, Shaped
  <2>3. \A n \in Names : Sound(held[n])'
    BY <2>1 DEF StringInv, Sound, Placed, Says
  <2> QED
    BY <2>1, <2>2, <2>3 DEF StringInv
<1> QED
  BY <1>1, <1>2, <1>3, <1>4, <1>5, <1>6, <1>7 DEF StringNext

\* As long as no request wraps around the word, every string that is held says what it said
\* when it was made and has its terminator, for all literals and any number of names, pieces
\* and sizes, whatever is pushed, popped, reset, destroyed, copied, sliced and freed in
\* between; and sharing the arena with strings leaves it as exact as it is alone.
THEOREM StringsStayIntact ==
    StringsFit => (StringSpec => [](StringsIntact /\ PushedApart /\ UsedExact))
<1> SUFFICES ASSUME StringsFit
             PROVE  StringSpec => [](StringsIntact /\ PushedApart /\ UsedExact)
  OBVIOUS
<1>1. StringInv /\ [StringNext]_allVars => StringInv'
  BY StringsNext
<1>2. StringInv => PushedApart /\ UsedExact
  BY DEF StringInv, StackedInv, PushedApart, UsedExact, End
<1>3. StringInv => StringsIntact
  BY DEF StringInv, Sound, Says, StringsIntact
<1> QED
  BY <1>1, <1>2, <1>3, InitStrings, PTL DEF StringSpec

-----------------------------------------------------------------------------
(* Sequences one behind the other *)

\* The first k of some sequences, one behind the other, for every k.
Joins(f, parts, n) == f = [i \in 0 .. n |-> IF i = 0 THEN <<>> ELSE f[i - 1] \o parts[i]]

\* Sequences that are joined one by one: there is such a function, for any number.
LEMMA JoinsThere == ASSUME NEW parts, NEW n \in Nat PROVE \E f : Joins(f, parts, n)
<1> DEFINE Bad == {m \in Nat : ~\E f : Joins(f, parts, m)}
<1> SUFFICES ASSUME Bad # {} PROVE FALSE
  OBVIOUS
<1>1. PICK m \in Nat : m \in Bad /\ \A k \in Bad : m <= k
  BY LeastNumber
<1>2. CASE m = 0
  <2>1. PICK g : g = [i \in 0 .. 0 |-> <<>>]
    OBVIOUS
  <2>2. Joins(g, parts, 0)
    BY <2>1 DEF Joins
  <2> QED
    BY <1>1, <1>2, <2>2
<1>3. CASE m # 0
  <2>1. m - 1 \in Nat /\ m - 1 \notin Bad
    BY <1>1, <1>3
  <2>2. PICK f : Joins(f, parts, m - 1)
    BY <2>1
  <2>3. PICK g : g = [i \in 0 .. m |-> IF i = m THEN f[m - 1] \o parts[m] ELSE f[i]]
    OBVIOUS
  <2>4. \A i \in 0 .. (m - 1) : f[i] = IF i = 0 THEN <<>> ELSE f[i - 1] \o parts[i]
    BY <2>2 DEF Joins
  <2>5. \A i \in 0 .. m : g[i] = IF i = 0 THEN <<>> ELSE g[i - 1] \o parts[i]
    <3> SUFFICES ASSUME NEW i \in 0 .. m
                 PROVE  g[i] = IF i = 0 THEN <<>> ELSE g[i - 1] \o parts[i]
      OBVIOUS
    <3>1. CASE i = m
      <4>1. g[m] = f[m - 1] \o parts[m] /\ g[m - 1] = f[m - 1]
        BY <1>1, <1>3, <2>1, <2>3, SMTT(30)
      <4> QED
        BY <1>3, <3>1, <4>1
    <3>2. CASE i # m /\ i = 0
      <4>1. i \in 0 .. (m - 1)
        BY <1>1, <3>2
      <4>2. g[i] = f[i] /\ f[i] = <<>>
        BY <2>3, <2>4, <3>2, <4>1
      <4> QED
        BY <3>2, <4>2
    <3>3. CASE i # m /\ i # 0
      <4>1. i \in 0 .. (m - 1) /\ i - 1 \in 0 .. (m - 1)
        BY <1>1, <3>3
      <4>2. g[i] = f[i] /\ g[i - 1] = f[i - 1]
        BY <2>3, <4>1
      <4> QED
        BY <2>4, <3>3, <4>1, <4>2
    <3> QED
      BY <3>1, <3>2, <3>3
  <2>6. g = [i \in 0 .. m |-> IF i = 0 THEN <<>> ELSE g[i - 1] \o parts[i]]
    <3>1. g = [i \in 0 .. m |-> g[i]]
      BY <2>3
    <3> QED
      BY <2>5, <3>1
  <2>7. Joins(g, parts, m)
    BY <2>6 DEF Joins
  <2> QED
    BY <1>1, <2>7
<1> QED
  BY <1>2, <1>3

\* Joined is its last value.
LEMMA JoinedIs ==
    ASSUME NEW parts, Len(parts) \in Nat
    PROVE  \E f : Joins(f, parts, Len(parts)) /\ \A k : Joined(parts, k) = f[k]
<1>1. PICK f : f = CHOOSE g : Joins(g, parts, Len(parts))
  OBVIOUS
<1>2. Joins(f, parts, Len(parts))
  BY <1>1, JoinsThere
<1>3. \A k : Joined(parts, k) = f[k]
  BY <1>1 DEF Joined, Joins
<1> QED
  BY <1>2, <1>3

\* Each of the parts follows the ones before it.
LEMMA JoinedNext ==
    ASSUME NEW parts, Len(parts) \in Nat
    PROVE  /\ Joined(parts, 0) = <<>>
           /\ \A k \in 1 .. Len(parts) : Joined(parts, k) = Joined(parts, k - 1) \o parts[k]
<1>1. PICK f : Joins(f, parts, Len(parts)) /\ \A k : Joined(parts, k) = f[k]
  BY JoinedIs
<1>2. \A i \in 0 .. Len(parts) : f[i] = IF i = 0 THEN <<>> ELSE f[i - 1] \o parts[i]
  BY <1>1 DEF Joins
<1>3. f[0] = <<>>
  BY <1>2
<1>4. ASSUME NEW k \in 1 .. Len(parts) PROVE f[k] = f[k - 1] \o parts[k]
  <2>1. k \in 0 .. Len(parts) /\ k # 0
    OBVIOUS
  <2> QED
    BY <1>2, <2>1
<1> QED
  BY <1>1, <1>3, <1>4

\* Sequences over a set join to a sequence over it.
LEMMA JoinedType ==
    ASSUME NEW S, NEW parts \in Seq(Seq(S)), NEW k \in 0 .. Len(parts)
    PROVE  Joined(parts, k) \in Seq(S)
<1> DEFINE Bad == {m \in 0 .. Len(parts) : Joined(parts, m) \notin Seq(S)}
<1> SUFFICES ASSUME Bad # {} PROVE FALSE
  OBVIOUS
<1>0. Len(parts) \in Nat
  BY LenProperties
<1>1. PICK m \in 0 .. Len(parts) : m \in Bad /\ \A j \in Bad : m <= j
  <2>1. Bad \subseteq Nat
    BY <1>0
  <2>2. PICK m \in Bad : \A j \in Bad : m <= j
    <3> HIDE DEF Bad
    <3> QED
      BY <2>1, LeastNumber
  <2> QED
    BY <2>2
<1>2. CASE m = 0
  <2>1. Joined(parts, 0) \in Seq(S)
    BY <1>0, JoinedNext, EmptySeq
  <2> QED
    BY <1>1, <1>2, <2>1
<1>3. CASE m # 0
  <2>1. m - 1 \in 0 .. Len(parts) /\ m - 1 \notin Bad /\ m \in 1 .. Len(parts)
    BY <1>0, <1>1, <1>3
  <2>2. Joined(parts, m - 1) \in Seq(S)
    BY <2>1
  <2>3. parts[m] \in Seq(S)
    BY <2>1, LenProperties
  <2>4. Joined(parts, m) = Joined(parts, m - 1) \o parts[m]
    BY <1>0, <2>1, JoinedNext
  <2>5. Joined(parts, m) \in Seq(S)
    BY <2>2, <2>3, <2>4, ConcatProperties
  <2> QED
    BY <1>1, <2>5
<1> QED
  BY <1>2, <1>3

\* What is joined first stays where it is.
LEMMA JoinedPrefix ==
    ASSUME NEW S, NEW parts \in Seq(Seq(S)), NEW k \in 0 .. Len(parts), NEW m \in k .. Len(parts)
    PROVE  /\ Len(Joined(parts, k)) <= Len(Joined(parts, m))
           /\ \A i \in 1 .. Len(Joined(parts, k)) : Joined(parts, m)[i] = Joined(parts, k)[i]
<1> DEFINE Good(j) == /\ Len(Joined(parts, k)) <= Len(Joined(parts, j))
                      /\ \A i \in 1 .. Len(Joined(parts, k)) : Joined(parts, j)[i] = Joined(parts, k)[i]
           Bad == {j \in k .. Len(parts) : ~Good(j)}
<1> SUFFICES ASSUME Bad # {} PROVE FALSE
  OBVIOUS
<1>0. Len(parts) \in Nat /\ \A j \in 0 .. Len(parts) : Joined(parts, j) \in Seq(S) /\ Len(Joined(parts, j)) \in Nat
  BY LenProperties, JoinedType
<1>1. PICK j \in k .. Len(parts) : ~Good(j) /\ \A l \in Bad : j <= l
  <2>1. Bad \subseteq Nat
    BY <1>0
  <2>2. PICK j \in Bad : \A l \in Bad : j <= l
    <3> HIDE DEF Bad
    <3> QED
      BY <2>1, LeastNumber
  <2> QED
    BY <2>2
<1>2. j # k
  <2>1. Good(k)
    BY <1>0
  <2> QED
    BY <1>1, <2>1
<1>3. j - 1 \in k .. Len(parts) /\ j \in 1 .. Len(parts) /\ j - 1 \in 0 .. Len(parts)
  BY <1>0, <1>1, <1>2
<1>4. Good(j - 1)
  BY <1>1, <1>3
<1>5. Joined(parts, j) = Joined(parts, j - 1) \o parts[j]
  BY <1>0, <1>3, JoinedNext
<1>6. parts[j] \in Seq(S) /\ Len(parts[j]) \in Nat
  BY <1>3, LenProperties
<1>7. PICK a, b, c : a = Joined(parts, j - 1) /\ b = parts[j] /\ c = Joined(parts, k)
  OBVIOUS
<1>8. a \in Seq(S) /\ b \in Seq(S) /\ Len(a) \in Nat /\ Len(b) \in Nat /\ Len(c) \in Nat
  BY <1>0, <1>3, <1>6, <1>7
<1>9. /\ Len(a \o b) = Len(a) + Len(b)
      /\ \A i \in 1 .. Len(a) + Len(b) : (a \o b)[i] = IF i <= Len(a) THEN a[i] ELSE b[i - Len(a)]
  BY <1>8, ConcatProperties
<1>10. Len(c) <= Len(a) /\ \A i \in 1 .. Len(c) : a[i] = c[i]
  BY <1>4, <1>7
<1>11. Len(c) <= Len(a \o b) /\ \A i \in 1 .. Len(c) : (a \o b)[i] = c[i]
  BY <1>8, <1>9, <1>10
<1>12. Good(j)
  BY <1>5, <1>7, <1>11
<1> QED
  BY <1>1, <1>12

\* Where one of the parts lies in the whole.
LEMMA JoinedPart ==
    ASSUME NEW S, NEW parts \in Seq(Seq(S)), NEW k \in 1 .. Len(parts), NEW m \in k .. Len(parts)
    PROVE  /\ Len(Joined(parts, k)) = Len(Joined(parts, k - 1)) + Len(parts[k])
           /\ \A i \in 1 .. Len(parts[k]) :
                Joined(parts, m)[Len(Joined(parts, k - 1)) + i] = parts[k][i]
<1>0. /\ Len(parts) \in Nat /\ k \in 0 .. Len(parts) /\ k - 1 \in 0 .. Len(parts)
  BY LenProperties
<1>1. Joined(parts, k) = Joined(parts, k - 1) \o parts[k]
  BY <1>0, JoinedNext
<1>2. PICK a, b, c : a = Joined(parts, k - 1) /\ b = parts[k] /\ c = Joined(parts, m)
  OBVIOUS
<1>3. a \in Seq(S) /\ b \in Seq(S) /\ Len(a) \in Nat /\ Len(b) \in Nat
  BY <1>0, <1>2, JoinedType, LenProperties
<1>4. /\ Len(a \o b) = Len(a) + Len(b)
      /\ \A i \in 1 .. Len(a) + Len(b) : (a \o b)[i] = IF i <= Len(a) THEN a[i] ELSE b[i - Len(a)]
  BY <1>3, ConcatProperties
<1>5. \A i \in 1 .. Len(Joined(parts, k)) : Joined(parts, m)[i] = Joined(parts, k)[i]
  BY <1>0, JoinedPrefix
<1>6. ASSUME NEW i \in 1 .. Len(b) PROVE c[Len(a) + i] = b[i]
  <2>1. PICK j : j = Len(a) + i
    OBVIOUS
  <2>2. j \in 1 .. Len(a) + Len(b) /\ ~(j <= Len(a)) /\ j - Len(a) = i
    BY <1>3, <2>1
  <2>3. (a \o b)[j] = b[i]
    BY <1>4, <2>2
  <2>4. c[j] = (a \o b)[j]
    BY <1>1, <1>2, <1>4, <1>5, <2>2
  <2> QED
    BY <2>1, <2>3, <2>4
<1> QED
  BY <1>1, <1>2, <1>4, <1>6

-----------------------------------------------------------------------------
(* Reading a format *)

\* Skip stops at the first character that is not among S.
LEMMA SkipStops ==
    ASSUME NEW f, Len(f) \in Nat, NEW S, NEW i \in Nat, NEW j \in i .. (Len(f) + 1),
           \A k \in i .. (j - 1) : At(f, k) \in S, At(f, j) \notin S
    PROVE  Skip(f, i, S) = j
<1> DEFINE Out == {k \in i .. (Len(f) + 1) : At(f, k) \notin S}
<1>1. j \in Out /\ \A k \in Out : j <= k
  BY DEF At
<1>2. Out \subseteq Nat
  OBVIOUS
<1>3. Skip(f, i, S) = Min(Out)
  BY DEF Skip
<1> HIDE DEF Out
<1>4. Min(Out) \in Out /\ \A k \in Out : Min(Out) <= k
  BY <1>1, <1>2, LeastNumber
<1>5. PICK m : m = Min(Out)
  OBVIOUS
<1>6. m \in Nat /\ m <= j /\ j <= m
  BY <1>1, <1>2, <1>4, <1>5
<1> QED
  BY <1>3, <1>5, <1>6

\* Skip stays inside the format, and passes only characters among S.
LEMMA SkipInside ==
    ASSUME NEW f, Len(f) \in Nat, NEW S, Nul \notin S, NEW i \in Nat, i <= Len(f) + 1,
           DOMAIN f = 1 .. Len(f)
    PROVE  /\ Skip(f, i, S) \in i .. (Len(f) + 1)
           /\ \A k \in i .. (Skip(f, i, S) - 1) : At(f, k) \in S
<1> DEFINE Out == {k \in i .. (Len(f) + 1) : At(f, k) \notin S}
<1>1. Len(f) + 1 \in Out
  BY DEF At
<1>2. Out \subseteq Nat
  OBVIOUS
<1>3. Skip(f, i, S) = Min(Out)
  BY DEF Skip
<1>4. Min(Out) \in Out /\ \A k \in Out : Min(Out) <= k
  <2> HIDE DEF Out
  <2> QED
    BY <1>1, <1>2, LeastNumber
<1>5. PICK s : s = Min(Out)
  OBVIOUS
<1>6. s \in Nat /\ s \in i .. (Len(f) + 1)
  BY <1>4, <1>5
<1>7. ASSUME NEW k \in i .. (s - 1) PROVE At(f, k) \in S
  <2>1. k \in i .. (Len(f) + 1) /\ ~(s <= k)
    BY <1>6
  <2>2. k \notin Out
    BY <1>4, <1>5, <2>1
  <2> QED
    BY <2>1, <2>2
<1> QED
  BY <1>3, <1>5, <1>6, <1>7

\* The characters npf_parse_format_spec takes for digits.
LEMMA DigitsAre == DigitChars = {"0", "1", "2", "3", "4", "5", "6", "7", "8", "9"}
<1>1. /\ Lower[1] = "0" /\ Lower[2] = "1" /\ Lower[3] = "2" /\ Lower[4] = "3" /\ Lower[5] = "4"
      /\ Lower[6] = "5" /\ Lower[7] = "6" /\ Lower[8] = "7" /\ Lower[9] = "8" /\ Lower[10] = "9"
  BY DEF Lower
<1>2. \A i \in 1 .. 10 : i = 1 \/ i = 2 \/ i = 3 \/ i = 4 \/ i = 5 \/ i = 6 \/ i = 7 \/ i = 8 \/ i = 9 \/ i = 10
  OBVIOUS
<1>3. \A i \in 1 .. 10 : Lower[i] \in {"0", "1", "2", "3", "4", "5", "6", "7", "8", "9"}
  BY <1>1, <1>2
<1>4. \A c \in {"0", "1", "2", "3", "4", "5", "6", "7", "8", "9"} : \E i \in 1 .. 10 : c = Lower[i]
  BY <1>1
<1> QED
  BY <1>3, <1>4 DEF DigitChars

\* A digit of the format stands for its value, and only "0" for zero.
LEMMA DigitIs ==
    ASSUME NEW v \in 0 .. 9
    PROVE  /\ Lower[v + 1] \in DigitChars /\ Value(Lower[v + 1]) = v
           /\ Lower[v + 1] = "0" <=> v = 0
<1>1. /\ Lower[1] = "0" /\ Lower[2] = "1" /\ Lower[3] = "2" /\ Lower[4] = "3" /\ Lower[5] = "4"
      /\ Lower[6] = "5" /\ Lower[7] = "6" /\ Lower[8] = "7" /\ Lower[9] = "8" /\ Lower[10] = "9"
  BY DEF Lower
<1>2. \A i \in 0 .. 9 : i = 0 \/ i = 1 \/ i = 2 \/ i = 3 \/ i = 4 \/ i = 5 \/ i = 6 \/ i = 7 \/ i = 8 \/ i = 9
  OBVIOUS
<1>3. \A i, j \in 0 .. 9 : Lower[i + 1] = Lower[j + 1] => i = j
  BY <1>1, <1>2
<1>4. Value(Lower[v + 1]) = v
  BY <1>3 DEF Value
<1>5. v + 1 \in 1 .. 10
  OBVIOUS
<1>6. Lower[v + 1] = "0" <=> v = 0
  BY <1>1, <1>2
<1> QED
  BY <1>4, <1>5, <1>6 DEF DigitChars

\* No digits are read as 0.
LEMMA NumberNone == ASSUME NEW f, NEW a \in Nat PROVE Number(f, a, a) = 0
<1> DEFINE Rec(g) == g = [i \in (a - 1) .. (a - 1) |-> IF i < a THEN 0 ELSE g[i - 1] * 10 + Value(f[i])]
           none == [i \in (a - 1) .. (a - 1) |-> 0]
<1>1. Rec(none)
  OBVIOUS
<1>2. PICK g : g = CHOOSE h : Rec(h)
  OBVIOUS
<1>3. Rec(g)
  <2> HIDE DEF Rec, none
  <2> QED
    BY <1>1, <1>2
<1>4. Number(f, a, a) = g[a - 1]
  BY <1>2 DEF Number
<1> QED
  BY <1>3, <1>4

\* One digit is read as its value.
LEMMA NumberOne ==
    ASSUME NEW f, NEW a \in Nat, Value(f[a]) \in Int PROVE Number(f, a, a + 1) = Value(f[a])
<1> DEFINE Rec(g) == g = [i \in (a - 1) .. (a + 1 - 1) |-> IF i < a THEN 0 ELSE g[i - 1] * 10 + Value(f[i])]
           one == [i \in (a - 1) .. (a + 1 - 1) |-> IF i < a THEN 0 ELSE Value(f[a])]
<1>1. Rec(one)
  <2>1. one[a - 1] = 0
    OBVIOUS
  <2>2. \A i \in (a - 1) .. (a + 1 - 1) : i = a - 1 \/ i = a
    OBVIOUS
  <2>3. \A i \in (a - 1) .. (a + 1 - 1) : one[i] = IF i < a THEN 0 ELSE one[i - 1] * 10 + Value(f[i])
    BY <2>1, <2>2
  <2> QED
    BY <2>3
<1>2. PICK g : g = CHOOSE h : Rec(h)
  OBVIOUS
<1>3. Rec(g)
  <2> HIDE DEF Rec, one
  <2> QED
    BY <1>1, <1>2
<1>4. Number(f, a, a + 1) = g[a + 1 - 1]
  BY <1>2 DEF Number
<1>5. a - 1 \in (a - 1) .. (a + 1 - 1) /\ a \in (a - 1) .. (a + 1 - 1) /\ a + 1 - 1 = a
  OBVIOUS
<1>6. g[a - 1] = 0
  BY <1>3, <1>5
<1>7. g[a] = g[a - 1] * 10 + Value(f[a])
  BY <1>3, <1>5
<1> QED
  BY <1>4, <1>5, <1>6, <1>7

-----------------------------------------------------------------------------
(* How a directive is spelled *)

\* u is s and, behind it, t.
Joint(u, s, t) ==
    /\ Len(s) \in Nat /\ Len(t) \in Nat /\ Len(u) = Len(s) + Len(t)
    /\ \A i \in 1 .. Len(s) : u[i] = s[i]
    /\ \A i \in 1 .. Len(t) : u[Len(s) + i] = t[i]

\* Where the parts of a concatenation lie.
LEMMA ConcatAt ==
    ASSUME NEW S, NEW s \in Seq(S), NEW t \in Seq(S), NEW u, u = s \o t
    PROVE  u \in Seq(S) /\ Joint(u, s, t)
<1>0. Len(s) \in Nat /\ Len(t) \in Nat
  BY LenProperties
<1>1. /\ s \o t \in Seq(S) /\ Len(s \o t) = Len(s) + Len(t)
      /\ \A i \in 1 .. Len(s) + Len(t) : (s \o t)[i] = IF i <= Len(s) THEN s[i] ELSE t[i - Len(s)]
  BY ConcatProperties
<1>2. ASSUME NEW i \in 1 .. Len(t) PROVE (s \o t)[Len(s) + i] = t[i]
  <2>1. Len(s) + i \in 1 .. Len(s) + Len(t) /\ ~(Len(s) + i <= Len(s)) /\ Len(s) + i - Len(s) = i
    BY <1>0
  <2> QED
    BY <1>1, <2>1
<1>3. ASSUME NEW i \in 1 .. Len(s) PROVE (s \o t)[i] = s[i]
  <2>1. i \in 1 .. Len(s) + Len(t) /\ i <= Len(s)
    BY <1>0
  <2> QED
    BY <1>1, <2>1
<1> QED
  BY <1>0, <1>1, <1>2, <1>3 DEF Joint

\* The characters of w lie in u from o on.
Lies(u, o, w) == /\ o \in Nat /\ Len(w) \in Nat /\ o + Len(w) <= Len(u)
                 /\ \A i \in 1 .. Len(w) : u[o + i] = w[i]

\* What lies in the first part lies in the whole.
LEMMA LiesOn ==
    ASSUME NEW u, NEW s, NEW t, Joint(u, s, t), NEW o, NEW w, Lies(s, o, w)
    PROVE  Lies(u, o, w)
<1>1. ASSUME NEW i \in 1 .. Len(w) PROVE u[o + i] = w[i]
  <2>1. o + i \in 1 .. Len(s)
    BY DEF Joint, Lies
  <2> QED
    BY <2>1 DEF Joint, Lies
<1> QED
  BY <1>1 DEF Joint, Lies

\* Both parts lie in the whole.
LEMMA LiesBoth ==
    ASSUME NEW u, NEW s, NEW t, Joint(u, s, t)
    PROVE  Lies(u, 0, s) /\ Lies(u, Len(s), t)
<1>1. \A i \in 1 .. Len(s) : 0 + i = i
  BY DEF Joint
<1> QED
  BY <1>1 DEF Joint, Lies

\* A sequence of six parts.
Six(S, s, s1, s2, s3, s4, s5, s6) ==
    /\ s1 \in Seq(S) /\ s2 \in Seq(S) /\ s3 \in Seq(S) /\ s4 \in Seq(S)
    /\ s5 \in Seq(S) /\ s6 \in Seq(S) /\ s = s1 \o s2 \o s3 \o s4 \o s5 \o s6

\* The six parts of a directive lie one behind the other.
LEMMA ConcatSix ==
    ASSUME NEW S, NEW s1, NEW s2, NEW s3, NEW s4, NEW s5, NEW s6, NEW s,
           Six(S, s, s1, s2, s3, s4, s5, s6)
    PROVE  /\ s \in Seq(S)
           /\ Len(s) = Len(s1) + Len(s2) + Len(s3) + Len(s4) + Len(s5) + Len(s6)
           /\ Lies(s, 0, s1) /\ Lies(s, Len(s1), s2) /\ Lies(s, Len(s1) + Len(s2), s3)
           /\ Lies(s, Len(s1) + Len(s2) + Len(s3), s4)
           /\ Lies(s, Len(s1) + Len(s2) + Len(s3) + Len(s4), s5)
           /\ Lies(s, Len(s1) + Len(s2) + Len(s3) + Len(s4) + Len(s5), s6)
<1>0. /\ s1 \in Seq(S) /\ s2 \in Seq(S) /\ s3 \in Seq(S) /\ s4 \in Seq(S)
      /\ s5 \in Seq(S) /\ s6 \in Seq(S) /\ s = s1 \o s2 \o s3 \o s4 \o s5 \o s6
  BY DEF Six
<1>1. PICK t2 : t2 = s1 \o s2
  OBVIOUS
<1>2. t2 \in Seq(S) /\ Joint(t2, s1, s2)
  BY ONLY <1>0, <1>1, ConcatAt
<1>3. PICK t3 : t3 = t2 \o s3
  OBVIOUS
<1>4. t3 \in Seq(S) /\ Joint(t3, t2, s3)
  BY ONLY <1>0, <1>2, <1>3, ConcatAt
<1>5. PICK t4 : t4 = t3 \o s4
  OBVIOUS
<1>6. t4 \in Seq(S) /\ Joint(t4, t3, s4)
  BY ONLY <1>0, <1>4, <1>5, ConcatAt
<1>7. PICK t5 : t5 = t4 \o s5
  OBVIOUS
<1>8. t5 \in Seq(S) /\ Joint(t5, t4, s5)
  BY ONLY <1>0, <1>6, <1>7, ConcatAt
<1>9. s = t5 \o s6
  BY <1>0, <1>1, <1>3, <1>5, <1>7
<1>10. s \in Seq(S) /\ Joint(s, t5, s6)
  BY ONLY <1>0, <1>8, <1>9, ConcatAt
<1>11. /\ Len(t2) = Len(s1) + Len(s2) /\ Len(t3) = Len(s1) + Len(s2) + Len(s3)
       /\ Len(t4) = Len(s1) + Len(s2) + Len(s3) + Len(s4)
       /\ Len(t5) = Len(s1) + Len(s2) + Len(s3) + Len(s4) + Len(s5)
       /\ Len(s) = Len(s1) + Len(s2) + Len(s3) + Len(s4) + Len(s5) + Len(s6)
  BY <1>2, <1>4, <1>6, <1>8, <1>10 DEF Joint
<1>12. Lies(t2, 0, s1) /\ Lies(t2, Len(s1), s2)
  BY <1>2, LiesBoth
<1>13. Lies(t3, 0, s1) /\ Lies(t3, Len(s1), s2) /\ Lies(t3, Len(t2), s3)
  BY <1>4, <1>12, LiesOn, LiesBoth
<1>14. Lies(t4, 0, s1) /\ Lies(t4, Len(s1), s2) /\ Lies(t4, Len(t2), s3) /\ Lies(t4, Len(t3), s4)
  BY <1>6, <1>13, LiesOn, LiesBoth
<1>15. /\ Lies(t5, 0, s1) /\ Lies(t5, Len(s1), s2) /\ Lies(t5, Len(t2), s3) /\ Lies(t5, Len(t3), s4)
       /\ Lies(t5, Len(t4), s5)
  BY <1>8, <1>14, LiesOn, LiesBoth
<1>16. /\ Lies(s, 0, s1) /\ Lies(s, Len(s1), s2) /\ Lies(s, Len(t2), s3) /\ Lies(s, Len(t3), s4)
       /\ Lies(s, Len(t4), s5) /\ Lies(s, Len(t5), s6)
  BY <1>10, <1>15, LiesOn, LiesBoth
<1> QED
  BY <1>10, <1>11, <1>16

\* How a width and a precision are spelled.
WidthOf(item) == Star(item.starWidth, item.width, <<>>)
PrecOf(item) == Star(item.starPrec, item.prec, <<".">>)
\* The character for a width or a precision.
Digit(star, v) == IF star THEN "*" ELSE Lower[v + 1]

\* No width and no precision that is given is taken for none.
LEMMA NoneIs ==
    /\ None \in Nat /\ None > 9 /\ None # 0
    /\ \A star : \A v : star /\ IsCount(star, v) => v \in Int /\ v # None
<1>1. IntValues \in Nat \ {0} /\ IntValues > 9
  BY ValuesAssumption
<1>2. PICK n, lo, hi : n = IntValues /\ lo = 1 - n \div 2 /\ hi = n \div 2 - 1
  OBVIOUS
<1>3. lo \in Int /\ hi \in Int /\ hi < n
  BY ONLY <1>1, <1>2
<1>4. ASSUME NEW star, NEW v, star, IsCount(star, v) PROVE v \in Int /\ v # None
  <2>1. v \in lo .. hi
    BY <1>2, <1>4 DEF IsCount
  <2>2. v \in Int /\ v # n
    BY ONLY <1>1, <1>2, <1>3, <2>1
  <2> QED
    BY <1>2, <2>2 DEF None
<1> QED
  BY <1>1, <1>4 DEF None

\* Digits are characters of a format.
LEMMA LowerChars == \A i \in 1 .. 16 : Lower[i] \in Char
  BY CharAssumption DEF Syntax

\* A sequence of one.
LEMMA CharOne == ASSUME NEW S, NEW c \in S PROVE <<c>> \in Seq(S) /\ Len(<<c>>) = 1 /\ <<c>>[1] = c
  OBVIOUS

\* A width takes no character or one.
LEMMA WidthSpelled ==
    ASSUME NEW item, item.starWidth \in BOOLEAN, IsCount(item.starWidth, item.width)
    PROVE  /\ WidthOf(item) \in Seq(Char)
           /\ item.width = None => Len(WidthOf(item)) = 0
           /\ item.width # None => /\ Len(WidthOf(item)) = 1
                                   /\ WidthOf(item)[1] = Digit(item.starWidth, item.width)
<1>1. CASE item.width = None
  <2>1. WidthOf(item) = <<>>
    BY <1>1 DEF WidthOf, Star
  <2> QED
    BY <1>1, <2>1, EmptySeq
<1>2. CASE item.width # None
  <2>1. PICK c : c = Digit(item.starWidth, item.width)
    OBVIOUS
  <2>2. c \in Char
    <3>1. CASE item.starWidth
      BY <2>1, <3>1, CharAssumption DEF Digit, Syntax
    <3>2. CASE ~item.starWidth
      <4>1. item.width \in 0 .. 9
        BY <1>2, <3>2 DEF IsCount
      <4>2. item.width + 1 \in 1 .. 16
        BY <4>1
      <4> QED
        BY <2>1, <3>2, <4>2, LowerChars DEF Digit
    <3> QED
      BY <3>1, <3>2
  <2>3. WidthOf(item) = <<>> \o <<c>>
    BY <1>2, <2>1 DEF WidthOf, Star, Digit
  <2>4. <<>> \o <<c>> = <<c>>
    BY <2>2, CharOne, ConcatEmptySeq
  <2>5. WidthOf(item) = <<c>>
    BY <2>3, <2>4
  <2> QED
    BY <1>2, <2>1, <2>2, <2>5, CharOne
<1> QED
  BY <1>1, <1>2

\* A precision takes no character or two, the first of them a '.'.
LEMMA PrecSpelled ==
    ASSUME NEW item, item.starPrec \in BOOLEAN, IsCount(item.starPrec, item.prec)
    PROVE  /\ PrecOf(item) \in Seq(Char)
           /\ item.prec = None => Len(PrecOf(item)) = 0
           /\ item.prec # None => /\ Len(PrecOf(item)) = 2 /\ PrecOf(item)[1] = "."
                                  /\ PrecOf(item)[2] = Digit(item.starPrec, item.prec)
<1>1. CASE item.prec = None
  <2>1. PrecOf(item) = <<>>
    BY <1>1 DEF PrecOf, Star
  <2> QED
    BY <1>1, <2>1, EmptySeq
<1>2. CASE item.prec # None
  <2>1. PICK c : c = Digit(item.starPrec, item.prec)
    OBVIOUS
  <2>2. c \in Char
    <3>1. CASE item.starPrec
      BY <2>1, <3>1, CharAssumption DEF Digit, Syntax
    <3>2. CASE ~item.starPrec
      <4>1. item.prec \in 0 .. 9
        BY <1>2, <3>2 DEF IsCount
      <4>2. item.prec + 1 \in 1 .. 16
        BY <4>1
      <4> QED
        BY <2>1, <3>2, <4>2, LowerChars DEF Digit
    <3> QED
      BY <3>1, <3>2
  <2>3. PICK x, y, p : x = <<".">> /\ y = <<c>> /\ p = PrecOf(item)
    OBVIOUS
  <2>4. p = x \o y
    BY <1>2, <2>1, <2>3 DEF PrecOf, Star, Digit
  <2>5. "." \in Char
    BY CharAssumption DEF Syntax
  <2>6. x \in Seq(Char) /\ y \in Seq(Char) /\ Len(x) = 1 /\ Len(y) = 1 /\ x[1] = "." /\ y[1] = c
    BY <2>2, <2>3, <2>5, CharOne
  <2>7. p \in Seq(Char) /\ Joint(p, x, y)
    BY ONLY <2>4, <2>6, ConcatAt
  <2>8. Len(p) = 2 /\ p[1] = "." /\ p[1 + 1] = c
    <3>1. 1 \in 1 .. Len(x) /\ 1 \in 1 .. Len(y)
      BY <2>6
    <3>2. Len(p) = Len(x) + Len(y) /\ p[1] = x[1] /\ p[Len(x) + 1] = y[1]
      BY <2>7, <3>1 DEF Joint
    <3> QED
      BY <2>6, <3>2
  <2> QED
    BY <1>2, <2>1, <2>3, <2>7, <2>8
<1> QED
  BY <1>1, <1>2

\* The places of a directive that starts behind place o.
AfterFlags(o, item) == o + 2 + Len(item.flags)
AfterWidth(o, item) == AfterFlags(o, item) + Len(WidthOf(item))
AfterPrec(o, item) == AfterWidth(o, item) + Len(PrecOf(item))
DirectiveEnd(o, item) == AfterPrec(o, item) + Len(item.mod)

\* The length modifiers the model passes.
Modifiers == {<<>>, <<"h">>, <<"h", "h">>, <<"l">>}

\* The length modifiers, character by character.
LEMMA ModSpelled ==
    ASSUME NEW mod \in Modifiers
    PROVE  /\ mod \in Seq(Char) /\ Len(mod) \in 0 .. 2
           /\ \A i \in 1 .. Len(mod) : mod[i] \in {"h", "l"}
           /\ mod = <<"h">> => Len(mod) = 1 /\ mod[1] = "h"
           /\ mod = <<"l">> => Len(mod) = 1 /\ mod[1] = "l"
           /\ mod = <<"h", "h">> => Len(mod) = 2 /\ mod[1] = "h" /\ mod[2] = "h"
           /\ mod = <<>> => Len(mod) = 0
<1>1. "h" \in Char /\ "l" \in Char
  BY CharAssumption DEF Syntax
<1>2. CASE mod = <<>>
  BY <1>2, EmptySeq
<1>3. CASE mod = <<"h">>
  BY <1>1, <1>3
<1>4. CASE mod = <<"l">>
  BY <1>1, <1>4
<1>5. CASE mod = <<"h", "h">>
  BY <1>1, <1>5
<1> QED
  BY <1>2, <1>3, <1>4, <1>5 DEF Modifiers

\* The parts of a directive are sequences of characters.
LEMMA DirectiveFields ==
    ASSUME NEW item, IsDirective(item)
    PROVE  /\ item.flags \in Seq(FlagChars) /\ item.flags \in Seq(Char) /\ Len(item.flags) \in Nat
           /\ WidthOf(item) \in Seq(Char) /\ PrecOf(item) \in Seq(Char)
           /\ Len(WidthOf(item)) \in Nat /\ Len(PrecOf(item)) \in Nat /\ Len(item.mod) \in Nat
           /\ item.mod \in Modifiers /\ item.mod \in Seq(Char)
           /\ item.conv \in Char /\ item.conv \in Conversions \ Floats
           /\ item.starWidth \in BOOLEAN /\ item.starPrec \in BOOLEAN
           /\ IsCount(item.starWidth, item.width) /\ IsCount(item.starPrec, item.prec)
<1>1. /\ item.flags \in Seq(FlagChars)
      /\ item.starWidth \in BOOLEAN /\ item.starPrec \in BOOLEAN
      /\ IsCount(item.starWidth, item.width) /\ IsCount(item.starPrec, item.prec)
      /\ item.mod \in Modifiers /\ item.conv \in Conversions \ Floats
  BY DEF IsDirective, Modifiers
<1>2. FlagChars \subseteq Char /\ Conversions \subseteq Char
  BY CharAssumption DEF Syntax
<1>3. item.flags \in Seq(Char)
  BY <1>1, <1>2
<1>4. WidthOf(item) \in Seq(Char) /\ PrecOf(item) \in Seq(Char) /\ item.mod \in Seq(Char)
  <2>1. WidthOf(item) \in Seq(Char)
    BY <1>1, WidthSpelled
  <2>2. PrecOf(item) \in Seq(Char)
    BY <1>1, PrecSpelled
  <2>3. item.mod \in Seq(Char)
    BY <1>1, ModSpelled
  <2> QED
    BY <2>1, <2>2, <2>3
<1>5. /\ Len(item.flags) \in Nat /\ Len(WidthOf(item)) \in Nat /\ Len(PrecOf(item)) \in Nat
      /\ Len(item.mod) \in Nat
  BY <1>3, <1>4, LenProperties
<1> QED
  BY <1>1, <1>2, <1>3, <1>4, <1>5

\* A directive is spelled as its '%', flags, width, precision, modifier and conversion.
LEMMA DirectiveSpelled ==
    ASSUME NEW item, ~IsLiteral(item), IsDirective(item), NEW s, s = Spell(item)
    PROVE  /\ s \in Seq(Char)
           /\ Len(s) = DirectiveEnd(0, item)
           /\ Lies(s, 0, <<"%">>)
           /\ Lies(s, 1, item.flags)
           /\ Lies(s, AfterFlags(0, item) - 1, WidthOf(item))
           /\ Lies(s, AfterWidth(0, item) - 1, PrecOf(item))
           /\ Lies(s, AfterPrec(0, item) - 1, item.mod)
           /\ Lies(s, DirectiveEnd(0, item) - 1, <<item.conv>>)
<1>1. PICK s1, s2, s3, s4, s5, s6 :
        /\ s1 = <<"%">> /\ s2 = item.flags /\ s3 = WidthOf(item) /\ s4 = PrecOf(item)
        /\ s5 = item.mod /\ s6 = <<item.conv>>
  OBVIOUS
<1>2. "%" \in Char
  BY CharAssumption DEF Syntax, Conversions
<1>3. /\ s1 \in Seq(Char) /\ s2 \in Seq(Char) /\ s3 \in Seq(Char) /\ s4 \in Seq(Char)
      /\ s5 \in Seq(Char) /\ s6 \in Seq(Char) /\ Len(s1) = 1 /\ Len(s6) = 1
      /\ Len(s2) \in Nat /\ Len(s3) \in Nat /\ Len(s4) \in Nat /\ Len(s5) \in Nat
  BY <1>1, <1>2, DirectiveFields, CharOne
<1>4. s = s1 \o s2 \o s3 \o s4 \o s5 \o s6
  BY <1>1 DEF Spell, WidthOf, PrecOf
<1>5. /\ s \in Seq(Char)
      /\ Len(s) = Len(s1) + Len(s2) + Len(s3) + Len(s4) + Len(s5) + Len(s6)
      /\ Lies(s, 0, s1) /\ Lies(s, Len(s1), s2) /\ Lies(s, Len(s1) + Len(s2), s3)
      /\ Lies(s, Len(s1) + Len(s2) + Len(s3), s4)
      /\ Lies(s, Len(s1) + Len(s2) + Len(s3) + Len(s4), s5)
      /\ Lies(s, Len(s1) + Len(s2) + Len(s3) + Len(s4) + Len(s5), s6)
  <2>1. Six(Char, s, s1, s2, s3, s4, s5, s6)
    BY <1>3, <1>4 DEF Six
  <2> QED
    BY ONLY <2>1, ConcatSix
<1>6. /\ AfterFlags(0, item) - 1 = Len(s1) + Len(s2)
      /\ AfterWidth(0, item) - 1 = Len(s1) + Len(s2) + Len(s3)
      /\ AfterPrec(0, item) - 1 = Len(s1) + Len(s2) + Len(s3) + Len(s4)
      /\ DirectiveEnd(0, item) - 1 = Len(s1) + Len(s2) + Len(s3) + Len(s4) + Len(s5)
      /\ DirectiveEnd(0, item) = Len(s1) + Len(s2) + Len(s3) + Len(s4) + Len(s5) + Len(s6)
  <2>1. /\ Len(item.flags) = Len(s2) /\ Len(WidthOf(item)) = Len(s3) /\ Len(PrecOf(item)) = Len(s4)
        /\ Len(item.mod) = Len(s5)
    BY <1>1
  <2>2. /\ AfterFlags(0, item) = 0 + 2 + Len(s2) /\ AfterWidth(0, item) = 0 + 2 + Len(s2) + Len(s3)
        /\ AfterPrec(0, item) = 0 + 2 + Len(s2) + Len(s3) + Len(s4)
        /\ DirectiveEnd(0, item) = 0 + 2 + Len(s2) + Len(s3) + Len(s4) + Len(s5)
    BY <2>1 DEF AfterFlags, AfterWidth, AfterPrec, DirectiveEnd
  <2> QED
    BY <1>3, <2>2
<1> QED
  BY <1>1, <1>3, <1>5, <1>6

\* A part of a part lies in the whole.
LEMMA LiesIn ==
    ASSUME NEW u, NEW o, NEW s, Lies(u, o, s), NEW p, NEW w, Lies(s, p, w)
    PROVE  Lies(u, o + p, w)
<1>1. ASSUME NEW i \in 1 .. Len(w) PROVE u[o + p + i] = w[i]
  <2>1. p + i \in 1 .. Len(s) /\ o + (p + i) = o + p + i
    BY DEF Lies
  <2>2. u[o + (p + i)] = s[p + i] /\ s[p + i] = w[i]
    BY <2>1 DEF Lies
  <2> QED
    BY <2>1, <2>2
<1> QED
  BY <1>1 DEF Lies

\* A format in which a directive starts behind place o.
Directed(f, o, item) ==
    f \in Seq(Char) /\ ~IsLiteral(item) /\ IsDirective(item) /\ Lies(f, o, Spell(item))

\* The characters of a directive, by their places.
LEMMA DirectivePlaced ==
    ASSUME NEW f, NEW o, NEW item, Directed(f, o, item)
    PROVE  /\ o \in Nat /\ Len(f) \in Nat /\ DOMAIN f = 1 .. Len(f)
           /\ AfterFlags(o, item) \in Nat /\ AfterWidth(o, item) \in Nat
           /\ AfterPrec(o, item) \in Nat /\ DirectiveEnd(o, item) \in Nat
           /\ DirectiveEnd(o, item) = o + Len(Spell(item)) /\ DirectiveEnd(o, item) <= Len(f)
           /\ AfterFlags(o, item) <= AfterWidth(o, item) /\ AfterWidth(o, item) <= AfterPrec(o, item)
           /\ AfterPrec(o, item) <= DirectiveEnd(o, item)
           /\ At(f, o + 1) = "%"
           /\ \A i \in 1 .. Len(item.flags) : f[o + 1 + i] = item.flags[i]
           /\ \A i \in 1 .. Len(WidthOf(item)) : f[AfterFlags(o, item) - 1 + i] = WidthOf(item)[i]
           /\ \A i \in 1 .. Len(PrecOf(item)) : f[AfterWidth(o, item) - 1 + i] = PrecOf(item)[i]
           /\ \A i \in 1 .. Len(item.mod) : f[AfterPrec(o, item) - 1 + i] = item.mod[i]
           /\ At(f, DirectiveEnd(o, item)) = item.conv
<1>1. PICK s : s = Spell(item)
  OBVIOUS
<1>2. /\ s \in Seq(Char)
      /\ Len(s) = DirectiveEnd(0, item)
      /\ Lies(s, 0, <<"%">>)
      /\ Lies(s, 1, item.flags)
      /\ Lies(s, AfterFlags(0, item) - 1, WidthOf(item))
      /\ Lies(s, AfterWidth(0, item) - 1, PrecOf(item))
      /\ Lies(s, AfterPrec(0, item) - 1, item.mod)
      /\ Lies(s, DirectiveEnd(0, item) - 1, <<item.conv>>)
  BY <1>1, DirectiveSpelled DEF Directed
<1>3. Lies(f, o, s) /\ f \in Seq(Char) /\ IsDirective(item)
  BY <1>1 DEF Directed
<1>4. o \in Nat /\ Len(f) \in Nat /\ DOMAIN f = 1 .. Len(f) /\ o + Len(s) <= Len(f) /\ Len(s) \in Nat
  BY <1>3, LenProperties DEF Lies
<1>5. /\ Len(item.flags) \in Nat /\ Len(WidthOf(item)) \in Nat /\ Len(PrecOf(item)) \in Nat
      /\ Len(item.mod) \in Nat
  BY <1>3, DirectiveFields
<1>6. /\ AfterFlags(o, item) \in Nat /\ AfterWidth(o, item) \in Nat
      /\ AfterPrec(o, item) \in Nat /\ DirectiveEnd(o, item) \in Nat
      /\ DirectiveEnd(o, item) = o + Len(s)
      /\ AfterFlags(o, item) <= AfterWidth(o, item) /\ AfterWidth(o, item) <= AfterPrec(o, item)
      /\ AfterPrec(o, item) <= DirectiveEnd(o, item) /\ o + 2 <= AfterFlags(o, item)
      /\ o + (AfterFlags(0, item) - 1) = AfterFlags(o, item) - 1
      /\ o + (AfterWidth(0, item) - 1) = AfterWidth(o, item) - 1
      /\ o + (AfterPrec(0, item) - 1) = AfterPrec(o, item) - 1
      /\ o + (DirectiveEnd(0, item) - 1) = DirectiveEnd(o, item) - 1
  <2>1. PICK fl, wi, pr, mo, al :
          /\ fl = Len(item.flags) /\ wi = Len(WidthOf(item)) /\ pr = Len(PrecOf(item))
          /\ mo = Len(item.mod) /\ al = Len(s)
    OBVIOUS
  <2>2. /\ AfterFlags(o, item) = o + 2 + fl /\ AfterFlags(0, item) = 0 + 2 + fl
        /\ AfterWidth(o, item) = o + 2 + fl + wi /\ AfterWidth(0, item) = 0 + 2 + fl + wi
        /\ AfterPrec(o, item) = o + 2 + fl + wi + pr /\ AfterPrec(0, item) = 0 + 2 + fl + wi + pr
        /\ DirectiveEnd(o, item) = o + 2 + fl + wi + pr + mo /\ DirectiveEnd(0, item) = 0 + 2 + fl + wi + pr + mo
    BY <2>1 DEF AfterFlags, AfterWidth, AfterPrec, DirectiveEnd
  <2>3. al = 0 + 2 + fl + wi + pr + mo
    BY <1>2, <2>1, <2>2
  <2>4. o \in Nat /\ fl \in Nat /\ wi \in Nat /\ pr \in Nat /\ mo \in Nat
    BY <1>4, <1>5, <2>1
  <2>5. /\ AfterFlags(o, item) \in Nat /\ AfterWidth(o, item) \in Nat
        /\ AfterPrec(o, item) \in Nat /\ DirectiveEnd(o, item) \in Nat
        /\ AfterFlags(0, item) \in Nat /\ AfterWidth(0, item) \in Nat
        /\ AfterPrec(0, item) \in Nat /\ DirectiveEnd(0, item) \in Nat
    BY ONLY <2>2, <2>4
  <2>6. DirectiveEnd(o, item) = o + al
    BY ONLY <2>2, <2>3, <2>4
  <2>7. DirectiveEnd(o, item) = o + Len(s)
    BY <2>1, <2>6
  <2>8. /\ AfterFlags(o, item) <= AfterWidth(o, item) /\ AfterWidth(o, item) <= AfterPrec(o, item)
        /\ AfterPrec(o, item) <= DirectiveEnd(o, item) /\ o + 2 <= AfterFlags(o, item)
        /\ o + (AfterFlags(0, item) - 1) = AfterFlags(o, item) - 1
        /\ o + (AfterWidth(0, item) - 1) = AfterWidth(o, item) - 1
        /\ o + (AfterPrec(0, item) - 1) = AfterPrec(o, item) - 1
        /\ o + (DirectiveEnd(0, item) - 1) = DirectiveEnd(o, item) - 1
    BY ONLY <2>2, <2>4, <2>5
  <2> QED
    BY <2>5, <2>7, <2>8
<1>7. /\ Lies(f, o + 0, <<"%">>)
      /\ Lies(f, o + 1, item.flags)
      /\ Lies(f, AfterFlags(o, item) - 1, WidthOf(item))
      /\ Lies(f, AfterWidth(o, item) - 1, PrecOf(item))
      /\ Lies(f, AfterPrec(o, item) - 1, item.mod)
      /\ Lies(f, DirectiveEnd(o, item) - 1, <<item.conv>>)
  <2>1. Lies(f, o + 0, <<"%">>)
    BY ONLY <1>2, <1>3, LiesIn
  <2>2. Lies(f, o + 1, item.flags)
    BY ONLY <1>2, <1>3, LiesIn
  <2>3. Lies(f, o + (AfterFlags(0, item) - 1), WidthOf(item))
    BY ONLY <1>2, <1>3, LiesIn
  <2>4. Lies(f, o + (AfterWidth(0, item) - 1), PrecOf(item))
    BY ONLY <1>2, <1>3, LiesIn
  <2>5. Lies(f, o + (AfterPrec(0, item) - 1), item.mod)
    BY ONLY <1>2, <1>3, LiesIn
  <2>6. Lies(f, o + (DirectiveEnd(0, item) - 1), <<item.conv>>)
    BY ONLY <1>2, <1>3, LiesIn
  <2> QED
    BY <1>6, <2>1, <2>2, <2>3, <2>4, <2>5, <2>6
<1>8. At(f, o + 1) = "%"
  <2>1. PICK w, c : w = <<c>> /\ c = "%"
    OBVIOUS
  <2>2. Lies(f, o + 0, w) /\ Len(w) = 1 /\ w[1] = c /\ 1 \in 1 .. Len(w)
    BY <1>7, <2>1
  <2>3. f[o + 0 + 1] = c
    BY ONLY <2>2 DEF Lies
  <2>4. o + 0 + 1 = o + 1 /\ o + 1 \in 1 .. Len(f)
    BY <1>4, <1>6
  <2> QED
    BY <1>4, <2>1, <2>3, <2>4 DEF At
<1>9. At(f, DirectiveEnd(o, item)) = item.conv
  <2>1. PICK w, c : w = <<c>> /\ c = item.conv
    OBVIOUS
  <2>2. Lies(f, DirectiveEnd(o, item) - 1, w) /\ Len(w) = 1 /\ w[1] = c /\ 1 \in 1 .. Len(w)
    BY <1>7, <2>1
  <2>3. f[DirectiveEnd(o, item) - 1 + 1] = c
    BY ONLY <2>2 DEF Lies
  <2>4. DirectiveEnd(o, item) - 1 + 1 = DirectiveEnd(o, item) /\ DirectiveEnd(o, item) \in 1 .. Len(f)
    BY <1>4, <1>6
  <2> QED
    BY <1>4, <2>1, <2>3, <2>4 DEF At
<1>10. /\ \A i \in 1 .. Len(item.flags) : f[o + 1 + i] = item.flags[i]
       /\ \A i \in 1 .. Len(WidthOf(item)) : f[AfterFlags(o, item) - 1 + i] = WidthOf(item)[i]
       /\ \A i \in 1 .. Len(PrecOf(item)) : f[AfterWidth(o, item) - 1 + i] = PrecOf(item)[i]
       /\ \A i \in 1 .. Len(item.mod) : f[AfterPrec(o, item) - 1 + i] = item.mod[i]
  BY ONLY <1>7 DEF Lies
<1> QED
  BY <1>1, <1>4, <1>6, <1>8, <1>9, <1>10

\* What follows the precision, the width and the flags of a directive.
LEMMA DirectiveFollows ==
    ASSUME NEW f, NEW o, NEW item, Directed(f, o, item)
    PROVE  /\ At(f, AfterPrec(o, item)) \in {"h", "l"} \cup (Conversions \ Floats)
           /\ item.prec = None => AfterPrec(o, item) = AfterWidth(o, item)
           /\ item.prec # None => /\ AfterPrec(o, item) = AfterWidth(o, item) + 2
                                  /\ At(f, AfterWidth(o, item)) = "."
                                  /\ At(f, AfterWidth(o, item) + 1) = Digit(item.starPrec, item.prec)
           /\ item.width = None => AfterWidth(o, item) = AfterFlags(o, item)
           /\ item.width # None => /\ AfterWidth(o, item) = AfterFlags(o, item) + 1
                                   /\ At(f, AfterFlags(o, item)) = Digit(item.starWidth, item.width)
           /\ \A k \in (o + 2) .. (AfterFlags(o, item) - 1) : At(f, k) \in FlagChars
<1>1. /\ o \in Nat /\ Len(f) \in Nat /\ DOMAIN f = 1 .. Len(f)
      /\ AfterFlags(o, item) \in Nat /\ AfterWidth(o, item) \in Nat
      /\ AfterPrec(o, item) \in Nat /\ DirectiveEnd(o, item) \in Nat
      /\ DirectiveEnd(o, item) <= Len(f)
      /\ AfterFlags(o, item) <= AfterWidth(o, item) /\ AfterWidth(o, item) <= AfterPrec(o, item)
      /\ AfterPrec(o, item) <= DirectiveEnd(o, item)
  BY DirectivePlaced
<1>2. /\ \A i \in 1 .. Len(item.flags) : f[o + 1 + i] = item.flags[i]
      /\ \A i \in 1 .. Len(WidthOf(item)) : f[AfterFlags(o, item) - 1 + i] = WidthOf(item)[i]
      /\ \A i \in 1 .. Len(PrecOf(item)) : f[AfterWidth(o, item) - 1 + i] = PrecOf(item)[i]
      /\ \A i \in 1 .. Len(item.mod) : f[AfterPrec(o, item) - 1 + i] = item.mod[i]
      /\ At(f, DirectiveEnd(o, item)) = item.conv
  BY DirectivePlaced
<1>3. /\ item.flags \in Seq(FlagChars) /\ Len(item.flags) \in Nat /\ item.mod \in Modifiers
      /\ item.conv \in Conversions \ Floats
      /\ item.starWidth \in BOOLEAN /\ item.starPrec \in BOOLEAN
      /\ IsCount(item.starWidth, item.width) /\ IsCount(item.starPrec, item.prec)
  BY DirectiveFields DEF Directed
<1>0. PICK fl : fl = Len(item.flags) /\ AfterFlags(o, item) = o + 2 + fl /\ fl \in Nat
  BY <1>3 DEF AfterFlags
<1>6. AfterFlags(o, item) >= 2 /\ AfterFlags(o, item) = o + 2 + fl /\ fl \in Nat
  <2>1. AfterFlags(o, item) = o + 2 + fl /\ fl \in Nat
    BY <1>0
  <2> QED
    BY ONLY <1>1, <2>1
<1>4. At(f, AfterPrec(o, item)) \in {"h", "l"} \cup (Conversions \ Floats)
  <2>0. Len(item.mod) \in 0 .. 2 /\ \A i \in 1 .. Len(item.mod) : item.mod[i] \in {"h", "l"}
    BY <1>3, ModSpelled
  <2>1. CASE Len(item.mod) = 0
    <3>1. DirectiveEnd(o, item) = AfterPrec(o, item)
      BY <1>1, <2>1 DEF DirectiveEnd
    <3> QED
      BY <1>2, <1>3, <3>1
  <2>2. CASE Len(item.mod) # 0
    <3>1. 1 \in 1 .. Len(item.mod) /\ AfterPrec(o, item) - 1 + 1 = AfterPrec(o, item)
      BY <1>1, <2>0, <2>2
    <3>2. f[AfterPrec(o, item)] \in {"h", "l"}
      BY <1>2, <2>0, <3>1
    <3>3. AfterPrec(o, item) \in DOMAIN f
      BY <1>1, <1>6
    <3> QED
      BY <3>2, <3>3 DEF At
  <2> QED
    BY <2>1, <2>2
<1>5. item.prec = None => AfterPrec(o, item) = AfterWidth(o, item)
  BY <1>1, <1>3, PrecSpelled DEF AfterPrec
<1>7. ASSUME item.prec # None
      PROVE  /\ AfterPrec(o, item) = AfterWidth(o, item) + 2
             /\ At(f, AfterWidth(o, item)) = "."
             /\ At(f, AfterWidth(o, item) + 1) = Digit(item.starPrec, item.prec)
  <2>1. Len(PrecOf(item)) = 2 /\ PrecOf(item)[1] = "." /\ PrecOf(item)[2] = Digit(item.starPrec, item.prec)
    BY <1>3, <1>7, PrecSpelled
  <2>2. AfterPrec(o, item) = AfterWidth(o, item) + 2
    BY <2>1 DEF AfterPrec
  <2>3. 1 \in 1 .. Len(PrecOf(item)) /\ 2 \in 1 .. Len(PrecOf(item))
    BY <2>1
  <2>4. AfterWidth(o, item) - 1 + 1 = AfterWidth(o, item) /\ AfterWidth(o, item) - 1 + 2 = AfterWidth(o, item) + 1
    BY <1>1
  <2>5. f[AfterWidth(o, item)] = "." /\ f[AfterWidth(o, item) + 1] = Digit(item.starPrec, item.prec)
    BY <1>2, <2>1, <2>3, <2>4
  <2>6. AfterWidth(o, item) \in DOMAIN f /\ AfterWidth(o, item) + 1 \in DOMAIN f
    BY <1>1, <1>6, <2>2
  <2> QED
    BY <2>2, <2>5, <2>6 DEF At
<1>8. item.width = None => AfterWidth(o, item) = AfterFlags(o, item)
  BY <1>1, <1>3, WidthSpelled DEF AfterWidth
<1>9. ASSUME item.width # None
      PROVE  /\ AfterWidth(o, item) = AfterFlags(o, item) + 1
             /\ At(f, AfterFlags(o, item)) = Digit(item.starWidth, item.width)
  <2>1. Len(WidthOf(item)) = 1 /\ WidthOf(item)[1] = Digit(item.starWidth, item.width)
    BY <1>3, <1>9, WidthSpelled
  <2>2. AfterWidth(o, item) = AfterFlags(o, item) + 1
    BY <2>1 DEF AfterWidth
  <2>3. 1 \in 1 .. Len(WidthOf(item)) /\ AfterFlags(o, item) - 1 + 1 = AfterFlags(o, item)
    BY <1>1, <2>1
  <2>4. f[AfterFlags(o, item)] = Digit(item.starWidth, item.width)
    BY <1>2, <2>1, <2>3
  <2>5. AfterFlags(o, item) \in DOMAIN f
    BY <1>1, <1>6
  <2> QED
    BY <2>2, <2>4, <2>5 DEF At
<1>10. ASSUME NEW k \in (o + 2) .. (AfterFlags(o, item) - 1) PROVE At(f, k) \in FlagChars
  <2>1. PICK i : i = k - o - 1
    OBVIOUS
  <2>2. i \in 1 .. fl /\ o + 1 + i = k /\ k \in 1 .. Len(f)
    BY <1>1, <1>6, <2>1
  <2>3. f[k] = item.flags[i] /\ item.flags[i] \in FlagChars
    BY <1>0, <1>2, <1>3, <2>2
  <2> QED
    BY <1>1, <2>2, <2>3 DEF At
<1> QED
  BY <1>4, <1>5, <1>7, <1>8, <1>9, <1>10

\* The characters that end the flags, a width and a precision.
LEMMA Classes ==
    /\ \A c \in {"h", "l"} \cup (Conversions \ Floats) :
         c \notin FlagChars /\ c \notin DigitChars /\ c # "*" /\ c # "."
    /\ "." \notin FlagChars /\ "." \notin DigitChars /\ "*" \notin FlagChars /\ "*" \notin DigitChars
    /\ \A c \in DigitChars : c # "*" /\ c # "." /\ c # "-" /\ (c # "0" => c \notin FlagChars)
    /\ "0" \in FlagChars
  BY DigitsAre DEF Conversions, Integral, Floats, FlagChars

\* Where the flags end.  A width that is 0 is taken for a flag.
LEMMA ParseFlags ==
    ASSUME NEW f, NEW o, NEW item, Directed(f, o, item), NEW a, a = Skip(f, o + 2, FlagChars)
    PROVE  a = IF item.width = 0 /\ ~item.starWidth THEN AfterWidth(o, item) ELSE AfterFlags(o, item)
<1>1. /\ o \in Nat /\ Len(f) \in Nat
      /\ AfterFlags(o, item) \in Nat /\ AfterWidth(o, item) \in Nat
      /\ AfterPrec(o, item) \in Nat /\ DirectiveEnd(o, item) \in Nat /\ DirectiveEnd(o, item) <= Len(f)
      /\ AfterFlags(o, item) <= AfterWidth(o, item) /\ AfterWidth(o, item) <= AfterPrec(o, item)
      /\ AfterPrec(o, item) <= DirectiveEnd(o, item)
  BY DirectivePlaced
<1>2. /\ At(f, AfterPrec(o, item)) \in {"h", "l"} \cup (Conversions \ Floats)
      /\ item.prec = None => AfterPrec(o, item) = AfterWidth(o, item)
      /\ item.prec # None => At(f, AfterWidth(o, item)) = "."
      /\ item.width = None => AfterWidth(o, item) = AfterFlags(o, item)
      /\ item.width # None => /\ AfterWidth(o, item) = AfterFlags(o, item) + 1
                              /\ At(f, AfterFlags(o, item)) = Digit(item.starWidth, item.width)
      /\ \A k \in (o + 2) .. (AfterFlags(o, item) - 1) : At(f, k) \in FlagChars
  BY DirectiveFollows
<1>3. item.starWidth \in BOOLEAN /\ IsCount(item.starWidth, item.width) /\ Len(item.flags) \in Nat
  BY DirectiveFields DEF Directed
<1>4. o + 2 \in Nat /\ o + 2 <= AfterFlags(o, item)
  <2>1. PICK fl : fl = Len(item.flags)
    OBVIOUS
  <2>2. AfterFlags(o, item) = o + 2 + fl /\ fl \in Nat
    BY <1>3, <2>1 DEF AfterFlags
  <2> QED
    BY ONLY <1>1, <2>2
<1>5. At(f, AfterWidth(o, item)) \notin FlagChars
  BY <1>2, Classes
<1>6. CASE item.width = 0 /\ ~item.starWidth
  <2>1. item.width # None /\ Digit(item.starWidth, item.width) = "0"
    BY <1>6, DigitIs, NoneIs DEF Digit
  <2>2. \A k \in (o + 2) .. (AfterWidth(o, item) - 1) : At(f, k) \in FlagChars
    <3> SUFFICES ASSUME NEW k \in (o + 2) .. (AfterWidth(o, item) - 1) PROVE At(f, k) \in FlagChars
      OBVIOUS
    <3>1. k \in (o + 2) .. (AfterFlags(o, item) - 1) \/ k = AfterFlags(o, item)
      BY <1>1, <1>2, <2>1
    <3> QED
      BY <1>2, <2>1, <3>1, Classes
  <2>3. AfterWidth(o, item) \in (o + 2) .. (Len(f) + 1)
    BY <1>1, <1>4
  <2>4. Skip(f, o + 2, FlagChars) = AfterWidth(o, item)
    BY ONLY <1>1, <1>4, <1>5, <2>2, <2>3, SkipStops
  <2> QED
    BY <1>6, <2>4
<1>7. CASE ~(item.width = 0 /\ ~item.starWidth)
  <2>1. At(f, AfterFlags(o, item)) \notin FlagChars
    <3>1. CASE item.width = None
      BY <1>2, <1>5, <3>1
    <3>2. CASE item.width # None /\ item.starWidth
      BY <1>2, <3>2, Classes DEF Digit
    <3>3. CASE item.width # None /\ ~item.starWidth
      <4>1. item.width \in 0 .. 9 /\ item.width # 0
        BY <1>3, <1>7, <3>3 DEF IsCount
      <4>2. Lower[item.width + 1] \in DigitChars /\ Lower[item.width + 1] # "0"
        BY <4>1, DigitIs
      <4> QED
        BY <1>2, <3>3, <4>2, Classes DEF Digit
    <3> QED
      BY <1>3, <3>1, <3>2, <3>3
  <2>2. AfterFlags(o, item) \in (o + 2) .. (Len(f) + 1)
    BY <1>1, <1>4
  <2>3. Skip(f, o + 2, FlagChars) = AfterFlags(o, item)
    BY ONLY <1>1, <1>2, <1>4, <2>1, <2>2, SkipStops
  <2> QED
    BY <1>7, <2>3
<1> QED
  BY <1>6, <1>7

\* The width: where it ends, and what it is.
LEMMA ParseWidth ==
    ASSUME NEW f, NEW o, NEW item, Directed(f, o, item), NEW a, a = Skip(f, o + 2, FlagChars),
           NEW b, b = IF At(f, a) = "*" THEN a + 1 ELSE Skip(f, a, DigitChars)
    PROVE  /\ b = AfterWidth(o, item)
           /\ At(f, a) = "*" <=> item.starWidth
           /\ ~item.starWidth => Number(f, a, b) = IF item.width = None THEN 0 ELSE item.width
           /\ ~item.starWidth => (b > a <=> item.width \notin {0, None})
<1>1. /\ o \in Nat /\ Len(f) \in Nat /\ DOMAIN f = 1 .. Len(f)
      /\ AfterFlags(o, item) \in Nat /\ AfterWidth(o, item) \in Nat
      /\ AfterPrec(o, item) \in Nat /\ DirectiveEnd(o, item) \in Nat /\ DirectiveEnd(o, item) <= Len(f)
      /\ AfterFlags(o, item) <= AfterWidth(o, item) /\ AfterWidth(o, item) <= AfterPrec(o, item)
      /\ AfterPrec(o, item) <= DirectiveEnd(o, item)
  BY DirectivePlaced
<1>2. /\ At(f, AfterPrec(o, item)) \in {"h", "l"} \cup (Conversions \ Floats)
      /\ item.prec = None => AfterPrec(o, item) = AfterWidth(o, item)
      /\ item.prec # None => At(f, AfterWidth(o, item)) = "."
      /\ item.width = None => AfterWidth(o, item) = AfterFlags(o, item)
      /\ item.width # None => /\ AfterWidth(o, item) = AfterFlags(o, item) + 1
                              /\ At(f, AfterFlags(o, item)) = Digit(item.starWidth, item.width)
  BY DirectiveFollows
<1>3. item.starWidth \in BOOLEAN /\ IsCount(item.starWidth, item.width) /\ Len(item.flags) \in Nat
  BY DirectiveFields DEF Directed
<1>4. a = IF item.width = 0 /\ ~item.starWidth THEN AfterWidth(o, item) ELSE AfterFlags(o, item)
  BY ParseFlags
<1>5. At(f, AfterWidth(o, item)) \notin DigitChars /\ At(f, AfterWidth(o, item)) # "*"
  BY <1>2, Classes
<1>6. CASE item.width = None
  <2>1. a = AfterWidth(o, item) /\ ~item.starWidth
    BY <1>2, <1>3, <1>4, <1>6, NoneIs
  <2>2. Skip(f, a, DigitChars) = a
    <3>1. a \in Nat /\ a \in a .. (Len(f) + 1) /\ \A k \in a .. (a - 1) : At(f, k) \in DigitChars
      BY <1>1, <2>1
    <3>2. At(f, a) \notin DigitChars
      BY <1>5, <2>1
    <3> QED
      BY ONLY <1>1, <3>1, <3>2, SkipStops
  <2>3. b = a
    BY <1>5, <2>1, <2>2
  <2>4. Number(f, a, a) = 0
    BY <1>1, <2>1, NumberNone
  <2> QED
    BY <1>1, <1>5, <1>6, <2>1, <2>3, <2>4
<1>7. CASE item.width # None /\ item.starWidth
  <2>1. a = AfterFlags(o, item) /\ At(f, a) = "*"
    BY <1>2, <1>4, <1>7 DEF Digit
  <2> QED
    BY <1>2, <1>7, <2>1
<1>8. CASE item.width # None /\ ~item.starWidth /\ item.width = 0
  <2>1. a = AfterWidth(o, item)
    BY <1>4, <1>8
  <2>2. Skip(f, a, DigitChars) = a
    <3>1. a \in Nat /\ a \in a .. (Len(f) + 1) /\ \A k \in a .. (a - 1) : At(f, k) \in DigitChars
      BY <1>1, <2>1
    <3>2. At(f, a) \notin DigitChars
      BY <1>5, <2>1
    <3> QED
      BY ONLY <1>1, <3>1, <3>2, SkipStops
  <2>3. b = a
    BY <1>5, <2>1, <2>2
  <2>4. Number(f, a, a) = 0
    BY <1>1, <2>1, NumberNone
  <2> QED
    BY <1>1, <1>5, <1>8, <2>1, <2>3, <2>4
<1>9. CASE item.width # None /\ ~item.starWidth /\ item.width # 0
  <2>1. a = AfterFlags(o, item) /\ AfterWidth(o, item) = a + 1
    BY <1>2, <1>4, <1>9
  <2>2. item.width \in 0 .. 9
    BY <1>3, <1>9 DEF IsCount
  <2>3. At(f, a) = Lower[item.width + 1]
    BY <1>2, <1>9, <2>1 DEF Digit
  <2>4. At(f, a) \in DigitChars /\ Value(At(f, a)) = item.width
    BY <2>2, <2>3, DigitIs
  <2>5. At(f, a) # "*"
    BY <2>4, Classes
  <2>6. Skip(f, a, DigitChars) = a + 1
    <3>1. a \in Nat /\ a + 1 \in a .. (Len(f) + 1)
      BY <1>1, <2>1
    <3>2. \A k \in a .. (a + 1 - 1) : At(f, k) \in DigitChars
      <4>1. \A k \in a .. (a + 1 - 1) : k = a
        BY <3>1
      <4> QED
        BY <2>4, <4>1
    <3>3. PICK j : j = a + 1
      OBVIOUS
    <3>4. j \in a .. (Len(f) + 1) /\ (\A k \in a .. (j - 1) : At(f, k) \in DigitChars)
          /\ At(f, j) \notin DigitChars
      BY <1>5, <2>1, <3>1, <3>2, <3>3
    <3>5. Skip(f, a, DigitChars) = j
      BY ONLY <1>1, <3>1, <3>4, SkipStops
    <3> QED
      BY <3>3, <3>5
  <2>7. b = a + 1
    BY <2>5, <2>6
  <2>8. f[a] = At(f, a)
    <3>1. a \in Nat /\ a <= Len(f) /\ 1 <= a
      <4>1. PICK fl : fl = Len(item.flags)
        OBVIOUS
      <4>2. AfterFlags(o, item) = o + 2 + fl /\ fl \in Nat
        BY <1>3, <4>1 DEF AfterFlags
      <4> QED
        BY ONLY <1>1, <2>1, <4>2
    <3>2. a \in DOMAIN f
      BY <1>1, <3>1
    <3> QED
      BY <3>2 DEF At
  <2>9. Number(f, a, a + 1) = item.width
    <3>1. a \in Nat /\ Value(f[a]) = item.width /\ Value(f[a]) \in Int
      BY <1>1, <2>1, <2>2, <2>4, <2>8
    <3>2. Number(f, a, a + 1) = Value(f[a])
      BY ONLY <3>1, NumberOne
    <3> QED
      BY <3>1, <3>2
  <2>10. b > a
    BY <1>1, <2>1, <2>7
  <2> QED
    BY <1>9, <2>1, <2>5, <2>7, <2>9, <2>10
<1> QED
  BY <1>3, <1>6, <1>7, <1>8, <1>9

\* The precision: where it ends, and what it is.
LEMMA ParsePrec ==
    ASSUME NEW f, NEW o, NEW item, Directed(f, o, item), NEW b, b = AfterWidth(o, item),
           NEW p, p = IF At(f, b) # "." THEN b
                      ELSE IF At(f, b + 1) \in {"*", "-"} THEN b + 2 ELSE b + 1,
           NEW c, c = IF At(f, b) = "." /\ At(f, b + 1) # "*" THEN Skip(f, p, DigitChars) ELSE p
    PROVE  /\ c = AfterPrec(o, item)
           /\ At(f, b) = "." <=> item.prec # None
           /\ (At(f, b) = "." /\ At(f, b + 1) = "*") <=> item.starPrec
           /\ item.prec # None /\ ~item.starPrec => Number(f, p, c) = item.prec /\ At(f, b + 1) # "-"
<1>1. /\ o \in Nat /\ Len(f) \in Nat /\ DOMAIN f = 1 .. Len(f)
      /\ AfterFlags(o, item) \in Nat /\ AfterWidth(o, item) \in Nat
      /\ AfterPrec(o, item) \in Nat /\ DirectiveEnd(o, item) \in Nat /\ DirectiveEnd(o, item) <= Len(f)
      /\ AfterFlags(o, item) <= AfterWidth(o, item) /\ AfterWidth(o, item) <= AfterPrec(o, item)
      /\ AfterPrec(o, item) <= DirectiveEnd(o, item)
  BY DirectivePlaced
<1>2. /\ At(f, AfterPrec(o, item)) \in {"h", "l"} \cup (Conversions \ Floats)
      /\ item.prec = None => AfterPrec(o, item) = AfterWidth(o, item)
      /\ item.prec # None => /\ AfterPrec(o, item) = AfterWidth(o, item) + 2
                             /\ At(f, AfterWidth(o, item)) = "."
                             /\ At(f, AfterWidth(o, item) + 1) = Digit(item.starPrec, item.prec)
  BY DirectiveFollows
<1>3. item.starPrec \in BOOLEAN /\ IsCount(item.starPrec, item.prec)
  BY DirectiveFields DEF Directed
<1>4. CASE item.prec = None
  <2>1. At(f, b) # "." /\ ~item.starPrec
    BY <1>2, <1>3, <1>4, Classes, NoneIs
  <2> QED
    BY <1>2, <1>4, <2>1
<1>5. CASE item.prec # None /\ item.starPrec
  <2>1. At(f, b) = "." /\ At(f, b + 1) = "*"
    BY <1>2, <1>5 DEF Digit
  <2> QED
    BY <1>2, <1>5, <2>1
<1>6. CASE item.prec # None /\ ~item.starPrec
  <2>1. item.prec \in 0 .. 9
    BY <1>3, <1>6 DEF IsCount
  <2>2. At(f, b) = "." /\ At(f, b + 1) = Lower[item.prec + 1] /\ AfterPrec(o, item) = b + 2
    BY <1>2, <1>6 DEF Digit
  <2>3. At(f, b + 1) \in DigitChars /\ Value(At(f, b + 1)) = item.prec
    BY <2>1, <2>2, DigitIs
  <2>4. At(f, b + 1) # "*" /\ At(f, b + 1) # "-"
    BY <2>3, Classes
  <2>5. p = b + 1 /\ b \in Nat /\ p \in Nat /\ p + 1 = b + 2
    BY <1>1, <2>2, <2>4
  <2>6. Skip(f, p, DigitChars) = p + 1
    <3>1. PICK j : j = p + 1
      OBVIOUS
    <3>2. j \in p .. (Len(f) + 1)
      BY <1>1, <2>2, <2>5, <3>1
    <3>3. \A k \in p .. (j - 1) : k = p
      BY <2>5, <3>1
    <3>4. \A k \in p .. (j - 1) : At(f, k) \in DigitChars
      BY <2>3, <2>5, <3>3
    <3>5. At(f, j) \notin DigitChars
      BY <1>2, <2>2, <2>5, <3>1, Classes
    <3>6. Skip(f, p, DigitChars) = j
      BY ONLY <1>1, <2>5, <3>2, <3>4, <3>5, SkipStops
    <3> QED
      BY <3>1, <3>6
  <2>7. c = p + 1 /\ c = AfterPrec(o, item)
    BY <2>2, <2>4, <2>5, <2>6
  <2>8. f[p] = At(f, p)
    <3>1. p \in 1 .. Len(f)
      BY <1>1, <2>2, <2>5
    <3> QED
      BY <1>1, <3>1 DEF At
  <2>9. Number(f, p, p + 1) = item.prec
    <3>1. p \in Nat /\ Value(f[p]) = item.prec /\ Value(f[p]) \in Int
      BY <2>1, <2>3, <2>5, <2>8
    <3>2. Number(f, p, p + 1) = Value(f[p])
      BY ONLY <3>1, NumberOne
    <3> QED
      BY <3>1, <3>2
  <2> QED
    BY <1>6, <2>2, <2>4, <2>7, <2>9
<1> QED
  BY <1>3, <1>4, <1>5, <1>6

\* The length modifier, and the conversion behind it.
LEMMA ParseMod ==
    ASSUME NEW f, NEW o, NEW item, Directed(f, o, item), NEW c, c = AfterPrec(o, item),
           NEW d, d = c + ModLength(f, c)
    PROVE  d = DirectiveEnd(o, item) /\ SubSeq(f, c, d - 1) = item.mod
<1>1. /\ o \in Nat /\ Len(f) \in Nat /\ DOMAIN f = 1 .. Len(f)
      /\ AfterPrec(o, item) \in Nat /\ DirectiveEnd(o, item) \in Nat /\ DirectiveEnd(o, item) <= Len(f)
      /\ AfterPrec(o, item) <= DirectiveEnd(o, item)
      /\ At(f, DirectiveEnd(o, item)) = item.conv
      /\ \A i \in 1 .. Len(item.mod) : f[AfterPrec(o, item) - 1 + i] = item.mod[i]
  BY DirectivePlaced, SMTT(30)
<1>2. item.mod \in Modifiers /\ item.conv \in Conversions \ Floats /\ item.mod \in Seq(Char)
  BY DirectiveFields DEF Directed
<1>3. item.conv \notin {"h", "l", "L"}
  BY <1>2 DEF Conversions, Integral, Floats
<1>4. /\ Len(item.mod) \in 0 .. 2
      /\ item.mod = <<"h">> => Len(item.mod) = 1 /\ item.mod[1] = "h"
      /\ item.mod = <<"l">> => Len(item.mod) = 1 /\ item.mod[1] = "l"
      /\ item.mod = <<"h", "h">> => Len(item.mod) = 2 /\ item.mod[1] = "h" /\ item.mod[2] = "h"
      /\ item.mod = <<>> => Len(item.mod) = 0
  BY <1>2, ModSpelled
<1>5. PICK m : m = Len(item.mod)
  OBVIOUS
<1>6. m \in 0 .. 2 /\ DirectiveEnd(o, item) = c + m /\ c \in Nat /\ c >= 1
  <2>1. DirectiveEnd(o, item) = c + m
    BY <1>5 DEF DirectiveEnd
  <2>2. AfterFlags(o, item) >= 1 /\ AfterFlags(o, item) \in Nat
    <3>1. PICK fl : fl = Len(item.flags)
      OBVIOUS
    <3>2. AfterFlags(o, item) = o + 2 + fl /\ fl \in Nat
      BY <3>1, DirectiveFields DEF AfterFlags, Directed
    <3> QED
      BY ONLY <1>1, <3>2
  <2>3. AfterFlags(o, item) <= AfterPrec(o, item)
    <3>1. /\ AfterFlags(o, item) \in Nat /\ AfterWidth(o, item) \in Nat /\ AfterPrec(o, item) \in Nat
          /\ AfterFlags(o, item) <= AfterWidth(o, item) /\ AfterWidth(o, item) <= AfterPrec(o, item)
      BY DirectivePlaced
    <3> QED
      BY ONLY <3>1
  <2> QED
    BY <1>1, <1>4, <1>5, <2>1, <2>2, <2>3
<1>7. At(f, c + m) = item.conv
  BY <1>1, <1>6
<1>8. ASSUME NEW i \in 1 .. m PROVE At(f, c - 1 + i) = item.mod[i]
  <2>1. c - 1 + i \in DOMAIN f
    BY <1>1, <1>6
  <2>2. f[c - 1 + i] = item.mod[i]
    BY <1>1, <1>5
  <2> QED
    BY <2>1, <2>2 DEF At
<1>9. ModLength(f, c) = m
  <2>1. CASE item.mod = <<>>
    <3>1. m = 0 /\ At(f, c) = item.conv
      BY <1>4, <1>5, <1>6, <1>7, <2>1
    <3> QED
      BY <1>3, <3>1 DEF ModLength
  <2>2. CASE item.mod \in {<<"h">>, <<"l">>}
    <3>1. m = 1 /\ item.mod[1] \in {"h", "l"}
      BY <1>4, <1>5, <2>2
    <3>2. 1 \in 1 .. m /\ c - 1 + 1 = c
      BY <1>6, <3>1
    <3>3. At(f, c) \in {"h", "l"} /\ At(f, c + 1) = item.conv
      BY <1>7, <1>8, <3>1, <3>2
    <3> QED
      BY <1>3, <3>1, <3>3 DEF ModLength
  <2>3. CASE item.mod = <<"h", "h">>
    <3>1. m = 2 /\ item.mod[1] = "h" /\ item.mod[2] = "h"
      BY <1>4, <1>5, <2>3
    <3>2. 1 \in 1 .. m /\ c - 1 + 1 = c /\ 2 \in 1 .. m /\ c - 1 + 2 = c + 1
      BY <1>6, <3>1
    <3>3. At(f, c) = "h" /\ At(f, c + 1) = "h"
      BY <1>8, <3>1, <3>2
    <3> QED
      BY <3>1, <3>3 DEF ModLength
  <2> QED
    BY <1>2, <2>1, <2>2, <2>3 DEF Modifiers
<1>10. d = c + m
  BY <1>9
<1>11. SubSeq(f, c, d - 1) = item.mod
  <2>1. PICK e : e = d - 1
    OBVIOUS
  <2>2. c \in Int /\ e \in Int /\ e - c + 1 = m
    BY <1>6, <1>10, <2>1
  <2>3. ASSUME NEW i \in c .. e PROVE f[i] \in Char
    <3>1. i \in 1 .. Len(f)
      BY <1>1, <1>6, <1>10, <2>1
    <3> QED
      BY <3>1, LenProperties DEF Directed
  <2>4. /\ SubSeq(f, c, e) \in Seq(Char)
        /\ Len(SubSeq(f, c, e)) = IF c <= e THEN e - c + 1 ELSE 0
        /\ \A i \in 1 .. e - c + 1 : SubSeq(f, c, e)[i] = f[c + i - 1]
    BY ONLY <2>2, <2>3, SubSeqProperties
  <2>5. Len(SubSeq(f, c, e)) = m
    BY <1>6, <2>2, <2>4
  <2>6. ASSUME NEW i \in 1 .. m PROVE SubSeq(f, c, e)[i] = item.mod[i]
    <3>1. c + i - 1 = c - 1 + i /\ c + i - 1 \in 1 .. Len(f)
      BY <1>1, <1>6
    <3>2. f[c + i - 1] = item.mod[i]
      BY <1>1, <1>8, <3>1 DEF At
    <3> QED
      BY <2>2, <2>4, <3>2
  <2>7. SubSeq(f, c, e) = item.mod
    BY <1>2, <1>5, <2>4, <2>5, <2>6, SeqEqual
  <2> QED
    BY <2>1, <2>7
<1> QED
  BY <1>6, <1>10, <1>11

\* What is read of a directive.
FlagsOf(item) == {item.flags[i] : i \in 1 .. Len(item.flags)}
                 \cup (IF item.width = 0 /\ ~item.starWidth THEN {"0"} ELSE {})
SpecOf(item) ==
    [flags |-> FlagsOf(item),
     width |-> IF item.starWidth \/ item.width = None THEN 0 ELSE item.width,
     widthOpt |-> IF item.starWidth THEN "star"
                  ELSE IF item.width \notin {0, None} THEN "literal" ELSE "none",
     prec |-> IF item.starPrec \/ item.prec = None THEN 0 ELSE item.prec,
     precOpt |-> IF item.starPrec THEN "star" ELSE IF item.prec # None THEN "literal" ELSE "none",
     mod |-> item.mod,
     conv |-> item.conv]

\* The places at which ParseFormatSpec stops, for a '%' at place i.
Places(f, i, a, b, p, c, d) ==
    /\ a = Skip(f, i + 1, FlagChars)
    /\ b = IF At(f, a) = "*" THEN a + 1 ELSE Skip(f, a, DigitChars)
    /\ p = IF At(f, b) # "." THEN b
           ELSE IF At(f, b + 1) \in {"*", "-"} THEN b + 2 ELSE b + 1
    /\ c = IF At(f, b) = "." /\ At(f, b + 1) # "*" THEN Skip(f, p, DigitChars) ELSE p
    /\ d = c + ModLength(f, c)

\* The flags that are read are the ones that were meant, and a width of 0.
LEMMA ReadFlags ==
    ASSUME NEW f, NEW o, NEW item, Directed(f, o, item), NEW a,
           a = IF item.width = 0 /\ ~item.starWidth THEN AfterWidth(o, item) ELSE AfterFlags(o, item)
    PROVE  {f[k] : k \in (o + 1 + 1) .. (a - 1)} = FlagsOf(item)
<1>1. /\ o \in Nat /\ Len(f) \in Nat /\ DOMAIN f = 1 .. Len(f)
      /\ AfterFlags(o, item) \in Nat /\ AfterWidth(o, item) \in Nat
      /\ AfterPrec(o, item) \in Nat /\ DirectiveEnd(o, item) \in Nat /\ DirectiveEnd(o, item) <= Len(f)
      /\ AfterWidth(o, item) <= AfterPrec(o, item) /\ AfterPrec(o, item) <= DirectiveEnd(o, item)
      /\ \A i \in 1 .. Len(item.flags) : f[o + 1 + i] = item.flags[i]
  BY DirectivePlaced
<1>2. PICK fl : fl = Len(item.flags)
  OBVIOUS
<1>3. AfterFlags(o, item) = o + 2 + fl /\ fl \in Nat
  BY <1>2, DirectiveFields DEF AfterFlags, Directed
<1>4. \A i \in 1 .. fl : f[o + 1 + i] = item.flags[i]
  BY <1>1, <1>2
<1>5. PICK F : F = {item.flags[i] : i \in 1 .. fl}
  OBVIOUS
<1>6. \A k \in (o + 2) .. (AfterFlags(o, item) - 1) : f[k] \in F
  <2> SUFFICES ASSUME NEW k \in (o + 2) .. (AfterFlags(o, item) - 1) PROVE f[k] \in F
    OBVIOUS
  <2>1. PICK i : i = k - o - 1
    OBVIOUS
  <2>2. i \in 1 .. fl /\ o + 1 + i = k
    BY <1>1, <1>3, <2>1
  <2> QED
    BY <1>4, <1>5, <2>2
<1>7. \A x \in F : \E k \in (o + 2) .. (AfterFlags(o, item) - 1) : x = f[k]
  <2> SUFFICES ASSUME NEW i \in 1 .. fl
               PROVE  \E k \in (o + 2) .. (AfterFlags(o, item) - 1) : item.flags[i] = f[k]
    BY <1>5
  <2>1. o + 1 + i \in (o + 2) .. (AfterFlags(o, item) - 1)
    BY <1>1, <1>3
  <2> QED
    BY <1>4, <2>1
<1>8. o + 1 + 1 = o + 2
  BY <1>1
<1>9. CASE ~(item.width = 0 /\ ~item.starWidth)
  <2>1. FlagsOf(item) = F /\ a = AfterFlags(o, item)
    BY <1>2, <1>5, <1>9 DEF FlagsOf
  <2> QED
    BY <1>6, <1>7, <1>8, <2>1
<1>10. CASE item.width = 0 /\ ~item.starWidth
  <2>1. FlagsOf(item) = F \cup {"0"} /\ a = AfterWidth(o, item)
    BY <1>2, <1>5, <1>10 DEF FlagsOf
  <2>2. /\ AfterWidth(o, item) = AfterFlags(o, item) + 1
        /\ At(f, AfterFlags(o, item)) = Digit(item.starWidth, item.width)
    BY <1>10, DirectiveFollows, NoneIs
  <2>3. AfterFlags(o, item) \in 1 .. Len(f)
    BY <1>1, <1>3, <2>2
  <2>4. f[AfterFlags(o, item)] = "0"
    BY <1>1, <1>10, <2>2, <2>3, DigitIs DEF At, Digit
  <2>5. \A k : k \in (o + 2) .. (a - 1)
             <=> (k \in (o + 2) .. (AfterFlags(o, item) - 1) \/ k = AfterFlags(o, item))
    BY <1>1, <1>3, <2>1, <2>2
  <2> QED
    BY <1>6, <1>7, <1>8, <2>1, <2>4, <2>5
<1> QED
  BY <1>9, <1>10

\* A directive that lies in the format as a whole is read as it was meant.
LEMMA ParseIs ==
    ASSUME NEW f, NEW o, NEW item, Directed(f, o, item),
           NEW a, NEW b, NEW p, NEW c, NEW d, Places(f, o + 1, a, b, p, c, d)
    PROVE  /\ d = DirectiveEnd(o, item) /\ At(f, d) = item.conv /\ item.conv \in Conversions
           /\ FormatSpec(f, o + 1, a, b, p, c, d) = SpecOf(item)
<1>1. o \in Nat /\ o + 1 + 1 = o + 2 /\ At(f, DirectiveEnd(o, item)) = item.conv
  BY DirectivePlaced
<1>2. a = Skip(f, o + 2, FlagChars)
  BY <1>1 DEF Places
<1>3. a = IF item.width = 0 /\ ~item.starWidth THEN AfterWidth(o, item) ELSE AfterFlags(o, item)
  BY <1>2, ParseFlags
<1>4. b = IF At(f, a) = "*" THEN a + 1 ELSE Skip(f, a, DigitChars)
  BY DEF Places
<1>5. /\ b = AfterWidth(o, item)
      /\ At(f, a) = "*" <=> item.starWidth
      /\ ~item.starWidth => Number(f, a, b) = IF item.width = None THEN 0 ELSE item.width
      /\ ~item.starWidth => (b > a <=> item.width \notin {0, None})
  BY <1>2, <1>4, ParseWidth
<1>6. /\ c = AfterPrec(o, item)
      /\ At(f, b) = "." <=> item.prec # None
      /\ (At(f, b) = "." /\ At(f, b + 1) = "*") <=> item.starPrec
      /\ item.prec # None /\ ~item.starPrec => Number(f, p, c) = item.prec /\ At(f, b + 1) # "-"
  <2>1. /\ p = IF At(f, b) # "." THEN b
               ELSE IF At(f, b + 1) \in {"*", "-"} THEN b + 2 ELSE b + 1
        /\ c = IF At(f, b) = "." /\ At(f, b + 1) # "*" THEN Skip(f, p, DigitChars) ELSE p
    BY DEF Places
  <2> QED
    BY <1>5, <2>1, ParsePrec
<1>7. d = DirectiveEnd(o, item) /\ SubSeq(f, c, d - 1) = item.mod
  BY <1>6, ParseMod DEF Places
<1>8. item.starWidth \in BOOLEAN /\ item.starPrec \in BOOLEAN /\ item.conv \in Conversions
  BY DirectiveFields DEF Directed
<1>9. {f[k] : k \in (o + 1 + 1) .. (a - 1)} = FlagsOf(item)
  BY <1>3, ReadFlags
<1>10. (IF At(f, a) = "*" THEN 0 ELSE Number(f, a, b))
         = IF item.starWidth \/ item.width = None THEN 0 ELSE item.width
  BY <1>5, <1>8
<1>11. (IF At(f, a) = "*" THEN "star" ELSE IF b > a THEN "literal" ELSE "none")
         = IF item.starWidth THEN "star" ELSE IF item.width \notin {0, None} THEN "literal" ELSE "none"
  BY <1>5, <1>8
<1>12. (IF At(f, b) = "." /\ ~(At(f, b) = "." /\ At(f, b + 1) = "*") THEN Number(f, p, c) ELSE 0)
         = IF item.starPrec \/ item.prec = None THEN 0 ELSE item.prec
  BY <1>6, <1>8
<1>13. (IF At(f, b) = "." /\ At(f, b + 1) = "*" THEN "star"
        ELSE IF At(f, b) = "." /\ At(f, b + 1) # "-" THEN "literal" ELSE "none")
         = IF item.starPrec THEN "star" ELSE IF item.prec # None THEN "literal" ELSE "none"
  BY <1>6, <1>8
<1>14. At(f, d) = item.conv
  BY <1>1, <1>7
<1>15. FormatSpec(f, o + 1, a, b, p, c, d) = SpecOf(item)
  BY <1>7, <1>9, <1>10, <1>11, <1>12, <1>13, <1>14 DEF FormatSpec, SpecOf
<1> QED
  BY <1>7, <1>8, <1>14, <1>15

\* Reading a directive never passes the end of the format.
LEMMA ParseInside ==
    ASSUME NEW f \in Seq(Char), NEW i \in 1 .. Len(f),
           NEW a, NEW b, NEW p, NEW c, NEW d, Places(f, i, a, b, p, c, d)
    PROVE  d \in (i + 1) .. (Len(f) + 1)
<1>0. Len(f) \in Nat /\ DOMAIN f = 1 .. Len(f) /\ i \in Nat
  BY LenProperties
<1>1. Nul \notin FlagChars /\ Nul \notin DigitChars /\ Beyond # Nul
  BY DigitsAre DEF Nul, FlagChars, Beyond
<1>2. \A k \in Nat \ {0} : k <= Len(f) + 1 /\ At(f, k) # Nul => k <= Len(f)
  BY <1>0 DEF At
<1>3. a \in (i + 1) .. (Len(f) + 1)
  <2>1. i + 1 \in Nat /\ i + 1 <= Len(f) + 1
    BY <1>0
  <2> QED
    BY <1>0, <1>1, <2>1, SkipInside DEF Places
<1>4. b \in a .. (Len(f) + 1)
  <2>1. CASE At(f, a) = "*"
    <3>1. a \in Nat \ {0} /\ a <= Len(f) + 1 /\ At(f, a) # Nul
      BY <1>0, <1>3, <2>1 DEF Nul
    <3>2. a <= Len(f) /\ b = a + 1
      BY <1>2, <2>1, <3>1 DEF Places
    <3> QED
      BY <1>0, <3>1, <3>2
  <2>2. CASE At(f, a) # "*"
    <3>1. a \in Nat /\ a <= Len(f) + 1
      BY <1>0, <1>3
    <3> QED
      BY <1>0, <1>1, <2>2, <3>1, SkipInside DEF Places
  <2> QED
    BY <2>1, <2>2
<1>5. b \in Nat \ {0} /\ b <= Len(f) + 1
  BY <1>0, <1>3, <1>4
<1>6. p \in b .. (Len(f) + 1)
  <2>1. CASE At(f, b) # "."
    BY <1>0, <1>5, <2>1 DEF Places
  <2>2. CASE At(f, b) = "." /\ At(f, b + 1) \in {"*", "-"}
    <3>1. b <= Len(f)
      BY <1>2, <1>5, <2>2 DEF Nul
    <3>2. b + 1 \in Nat \ {0} /\ b + 1 <= Len(f) + 1 /\ At(f, b + 1) # Nul
      BY <1>0, <1>5, <2>2, <3>1 DEF Nul
    <3>3. b + 1 <= Len(f)
      BY <1>2, <3>2
    <3>4. p = b + 2
      BY <2>2 DEF Places
    <3> QED
      BY <1>0, <1>5, <3>3, <3>4
  <2>3. CASE At(f, b) = "." /\ At(f, b + 1) \notin {"*", "-"}
    <3>1. b <= Len(f)
      BY <1>2, <1>5, <2>3 DEF Nul
    <3>2. p = b + 1
      BY <2>3 DEF Places
    <3> QED
      BY <1>0, <1>5, <3>1, <3>2
  <2> QED
    BY <2>1, <2>2, <2>3
<1>7. c \in p .. (Len(f) + 1)
  <2>1. p \in Nat /\ p <= Len(f) + 1
    BY <1>0, <1>5, <1>6
  <2>2. Skip(f, p, DigitChars) \in p .. (Len(f) + 1)
    BY <1>0, <1>1, <2>1, SkipInside
  <2> QED
    BY <1>0, <2>1, <2>2 DEF Places
<1>8. c \in Nat \ {0} /\ c <= Len(f) + 1
  BY <1>0, <1>5, <1>6, <1>7
<1>9. d \in c .. (Len(f) + 1)
  <2>1. CASE At(f, c) \notin {"h", "l", "L"}
    BY <1>0, <1>8, <2>1 DEF Places, ModLength
  <2>2. CASE At(f, c) \in {"h", "l", "L"}
    <3>1. c <= Len(f)
      BY <1>2, <1>8, <2>2 DEF Nul
    <3>2. CASE ~(At(f, c) = "h" /\ At(f, c + 1) = "h")
      <4>1. d = c + 1
        BY <2>2, <3>2 DEF Places, ModLength
      <4> QED
        BY <1>0, <1>8, <3>1, <4>1
    <3>3. CASE At(f, c) = "h" /\ At(f, c + 1) = "h"
      <4>1. c + 1 \in Nat \ {0} /\ c + 1 <= Len(f) + 1 /\ At(f, c + 1) # Nul
        BY <1>0, <1>8, <3>1, <3>3 DEF Nul
      <4>2. c + 1 <= Len(f)
        BY <1>2, <4>1
      <4>3. d = c + 2
        BY <3>3 DEF Places, ModLength
      <4> QED
        BY <1>0, <1>8, <4>2, <4>3
    <3> QED
      BY <3>2, <3>3
  <2> QED
    BY <2>1, <2>2
<1> QED
  BY <1>0, <1>3, <1>4, <1>5, <1>6, <1>7, <1>8, <1>9

\* Between its '%' and its conversion a directive has no character that could be one.
LEMMA MiddlePlain ==
    ASSUME NEW item, ~IsLiteral(item), IsDirective(item),
           NEW i \in 2 .. (Len(Spell(item)) - 1)
    PROVE  Spell(item)[i] \notin Conversions
<1>1. PICK s : s = Spell(item)
  OBVIOUS
<1>2. /\ s \in Seq(Char)
      /\ Len(s) = DirectiveEnd(0, item)
      /\ Lies(s, 1, item.flags)
      /\ Lies(s, AfterFlags(0, item) - 1, WidthOf(item))
      /\ Lies(s, AfterWidth(0, item) - 1, PrecOf(item))
      /\ Lies(s, AfterPrec(0, item) - 1, item.mod)
  BY <1>1, DirectiveSpelled
<1>3. /\ item.flags \in Seq(FlagChars) /\ item.mod \in Modifiers
      /\ item.starWidth \in BOOLEAN /\ item.starPrec \in BOOLEAN
      /\ IsCount(item.starWidth, item.width) /\ IsCount(item.starPrec, item.prec)
  BY DirectiveFields
<1>4. PICK fl, wi, pr, mo :
        /\ fl = Len(item.flags) /\ wi = Len(WidthOf(item)) /\ pr = Len(PrecOf(item))
        /\ mo = Len(item.mod)
  OBVIOUS
<1>5. /\ AfterFlags(0, item) = 0 + 2 + fl
      /\ AfterWidth(0, item) = 0 + 2 + fl + wi
      /\ AfterPrec(0, item) = 0 + 2 + fl + wi + pr
      /\ DirectiveEnd(0, item) = 0 + 2 + fl + wi + pr + mo
  BY <1>4 DEF AfterFlags, AfterWidth, AfterPrec, DirectiveEnd
<1>6. fl \in Nat /\ wi \in Nat /\ pr \in Nat /\ mo \in Nat
  BY <1>4, DirectiveFields
<1>7. i \in 2 .. (0 + 2 + fl + wi + pr + mo - 1)
  <2>1. Len(Spell(item)) = 0 + 2 + fl + wi + pr + mo
    BY <1>1, <1>2, <1>5
  <2>2. PICK n : n = Len(Spell(item)) - 1
    OBVIOUS
  <2>3. i \in 2 .. n
    BY <2>2
  <2>4. n = 0 + 2 + fl + wi + pr + mo - 1
    BY <1>6, <2>1, <2>2
  <2> QED
    BY ONLY <2>3, <2>4
<1>8. /\ AfterFlags(0, item) - 1 = 1 + fl /\ AfterWidth(0, item) - 1 = 1 + fl + wi
      /\ AfterPrec(0, item) - 1 = 1 + fl + wi + pr
  BY ONLY <1>5, <1>6
<1>9. /\ Lies(s, 1, item.flags) /\ Lies(s, 1 + fl, WidthOf(item)) /\ Lies(s, 1 + fl + wi, PrecOf(item))
      /\ Lies(s, 1 + fl + wi + pr, item.mod)
  BY <1>2, <1>8
<1>10. /\ \A j \in 1 .. fl : s[1 + j] = item.flags[j]
       /\ \A j \in 1 .. wi : s[1 + fl + j] = WidthOf(item)[j]
       /\ \A j \in 1 .. pr : s[1 + fl + wi + j] = PrecOf(item)[j]
       /\ \A j \in 1 .. mo : s[1 + fl + wi + pr + j] = item.mod[j]
  BY <1>4, <1>9 DEF Lies
<1>11. \A star \in BOOLEAN : \A v : IsCount(star, v) /\ v # None => Digit(star, v) \notin Conversions
  <2> SUFFICES ASSUME NEW star \in BOOLEAN, NEW v, IsCount(star, v), v # None
               PROVE  Digit(star, v) \notin Conversions
    OBVIOUS
  <2>1. CASE star
    BY <2>1 DEF Digit, Conversions, Integral, Floats
  <2>2. CASE ~star
    <3>1. v \in 0 .. 9
      BY <2>2 DEF IsCount
    <3>2. Lower[v + 1] \in DigitChars
      BY <3>1, DigitIs
    <3> QED
      BY <2>2, <3>2, DigitsAre DEF Digit, Conversions, Integral, Floats
  <2> QED
    BY <2>1, <2>2
<1>12. CASE i <= 1 + fl
  <2>1. PICK j : j = i - 1
    OBVIOUS
  <2>2. j \in 1 .. fl /\ 1 + j = i
    BY <1>6, <1>7, <1>12, <2>1
  <2>3. item.flags[j] \in FlagChars
    BY <1>3, <1>4, <2>2
  <2> QED
    BY <1>1, <1>10, <2>2, <2>3 DEF FlagChars, Conversions, Integral, Floats
<1>13. CASE i > 1 + fl /\ i <= 1 + fl + wi
  <2>1. PICK j : j = i - (1 + fl)
    OBVIOUS
  <2>2. j \in 1 .. wi /\ 1 + fl + j = i
    BY <1>6, <1>7, <1>13, <2>1
  <2>3. /\ item.width = None => wi = 0
        /\ item.width # None => wi = 1 /\ WidthOf(item)[1] = Digit(item.starWidth, item.width)
    <3>1. /\ item.width = None => Len(WidthOf(item)) = 0
          /\ item.width # None => /\ Len(WidthOf(item)) = 1
                                  /\ WidthOf(item)[1] = Digit(item.starWidth, item.width)
      BY <1>3, WidthSpelled
    <3> QED
      BY <1>4, <3>1
  <2>4. item.width # None /\ j = 1
    BY <2>2, <2>3
  <2>5. s[i] = Digit(item.starWidth, item.width)
    BY <1>10, <2>2, <2>3, <2>4
  <2> QED
    BY <1>1, <1>3, <1>11, <2>4, <2>5
<1>14. CASE i > 1 + fl + wi /\ i <= 1 + fl + wi + pr
  <2>1. PICK j : j = i - (1 + fl + wi)
    OBVIOUS
  <2>2. j \in 1 .. pr /\ 1 + fl + wi + j = i
    BY <1>6, <1>7, <1>14, <2>1
  <2>3. /\ item.prec = None => pr = 0
        /\ item.prec # None => /\ pr = 2 /\ PrecOf(item)[1] = "."
                               /\ PrecOf(item)[2] = Digit(item.starPrec, item.prec)
    <3>1. /\ item.prec = None => Len(PrecOf(item)) = 0
          /\ item.prec # None => /\ Len(PrecOf(item)) = 2 /\ PrecOf(item)[1] = "."
                                 /\ PrecOf(item)[2] = Digit(item.starPrec, item.prec)
      BY <1>3, PrecSpelled
    <3> QED
      BY <1>4, <3>1
  <2>4. item.prec # None /\ (j = 1 \/ j = 2)
    BY <2>2, <2>3
  <2>5. s[i] = "." \/ s[i] = Digit(item.starPrec, item.prec)
    BY <1>10, <2>2, <2>3, <2>4
  <2>6. "." \notin Conversions
    BY DEF Conversions, Integral, Floats
  <2> QED
    BY <1>1, <1>3, <1>11, <2>4, <2>5, <2>6
<1>15. CASE i > 1 + fl + wi + pr
  <2>1. PICK j : j = i - (1 + fl + wi + pr)
    OBVIOUS
  <2>2. j \in 1 .. mo /\ 1 + fl + wi + pr + j = i
    BY <1>6, <1>7, <1>15, <2>1
  <2>3. item.mod[j] \in {"h", "l"}
    BY <1>3, <1>4, <2>2, ModSpelled
  <2> QED
    BY <1>1, <1>10, <2>2, <2>3 DEF Conversions, Integral, Floats
<1> QED
  BY <1>6, <1>7, <1>12, <1>13, <1>14, <1>15

\* Only the start of a directive lies in the format, which ends behind place o.
Stump(f, o, item) ==
    /\ f \in Seq(Char) /\ ~IsLiteral(item) /\ IsDirective(item)
    /\ o \in Nat /\ o < Len(f) /\ Len(f) < o + Len(Spell(item))
    /\ \A i \in 1 .. (Len(f) - o) : f[o + i] = Spell(item)[i]

\* The rest of a directive that is cut holds no conversion.
LEMMA StumpPlain ==
    ASSUME NEW f, NEW o, NEW item, Stump(f, o, item), NEW j \in (o + 2) .. Len(f)
    PROVE  f[j] \notin Conversions
<1>1. PICK s : s = Spell(item)
  OBVIOUS
<1>2. s \in Seq(Char) /\ Len(s) \in Nat /\ f \in Seq(Char) /\ Len(f) \in Nat
  BY <1>1, DirectiveSpelled, LenProperties DEF Stump
<1>3. PICK i : i = j - o
  OBVIOUS
<1>4. i \in 2 .. (Len(s) - 1) /\ i \in 1 .. (Len(f) - o) /\ o + i = j
  <2>1. o \in Nat /\ o < Len(f) /\ Len(f) < o + Len(s)
    BY <1>1 DEF Stump
  <2>2. PICK n \in Nat, m \in Nat : n = Len(f) /\ m = Len(s)
    BY <1>2
  <2>3. i \in 2 .. (m - 1) /\ i \in 1 .. (n - o) /\ o + i = j
    BY ONLY <1>3, <2>1, <2>2, j \in (o + 2) .. Len(f)
  <2> QED
    BY ONLY <2>2, <2>3
<1>5. f[j] = s[i]
  BY <1>1, <1>4 DEF Stump
<1> QED
  BY <1>1, <1>4, <1>5, MiddlePlain DEF Stump

\* A directive that the limit of the format cuts is not read as one.
LEMMA StumpRefused ==
    ASSUME NEW f, NEW o, NEW item, Stump(f, o, item),
           NEW a, NEW b, NEW p, NEW c, NEW d, Places(f, o + 1, a, b, p, c, d)
    PROVE  At(f, d) \notin Conversions
<1>1. f \in Seq(Char) /\ Len(f) \in Nat /\ DOMAIN f = 1 .. Len(f) /\ o \in Nat /\ o + 1 \in 1 .. Len(f)
  BY LenProperties DEF Stump
<1>2. d \in (o + 1 + 1) .. (Len(f) + 1)
  BY <1>1, ParseInside
<1>3. CASE d = Len(f) + 1
  <2>1. At(f, d) = Nul
    BY <1>1, <1>3 DEF At
  <2> QED
    BY <2>1 DEF Nul, Conversions, Integral, Floats
<1>4. CASE d # Len(f) + 1
  <2>1. d \in (o + 2) .. Len(f) /\ d \in DOMAIN f
    BY <1>1, <1>2, <1>4
  <2>2. f[d] \notin Conversions
    BY <2>1, StumpPlain
  <2> QED
    BY <2>1, <2>2 DEF At
<1> QED
  BY <1>3, <1>4

-----------------------------------------------------------------------------
(* What is asked for *)

\* What a request may pass.
Argument == Int \cup Seq(Char) \cup {NullString}

\* A request is a sequence of literal characters and directives.
LEMMA RequestItems ==
    ASSUME NEW r \in Requests
    PROVE  /\ Len(r) \in Nat /\ DOMAIN r = 1 .. Len(r)
           /\ \A i \in 1 .. Len(r) : IF IsLiteral(r[i]) THEN r[i].lit \in Char \ {"%"}
                                     ELSE IsDirective(r[i])
<1>1. r \in Seq({r[i] : i \in DOMAIN r})
  BY RequestsAssumption
<1>2. Len(r) \in Nat /\ DOMAIN r = 1 .. Len(r)
  BY <1>1, LenProperties
<1> QED
  BY <1>2, RequestsAssumption

\* A literal character stands for itself and takes no argument.
LEMMA LiteralSpelled ==
    ASSUME NEW item, IsLiteral(item), item.lit \in Char
    PROVE  /\ Spell(item) \in Seq(Char) /\ Len(Spell(item)) = 1 /\ Spell(item)[1] = item.lit
           /\ Passes(item) = <<>>
<1>1. PICK c : c = item.lit
  OBVIOUS
<1>2. Spell(item) = <<c>>
  BY <1>1 DEF Spell
<1> QED
  BY <1>1, <1>2, CharOne DEF Passes

\* The arguments of a directive, one behind the other.
LEMMA DirectivePasses ==
    ASSUME NEW item, ~IsLiteral(item), IsDirective(item), NEW s, s = Passes(item),
           NEW w, w = IF item.starWidth THEN 1 ELSE 0, NEW p, p = IF item.starPrec THEN 1 ELSE 0
    PROVE  /\ s \in Seq(Argument)
           /\ Len(s) = w + p + (IF item.conv = "%" THEN 0 ELSE 1)
           /\ item.starWidth => s[1] = item.width
           /\ item.starPrec => s[w + 1] = item.prec
           /\ item.conv \in {"c", "s"} => s[w + p + 1] = item.str
           /\ item.conv \notin {"%", "c", "s"} => s[w + p + 1] = item.val
<1>1. PICK x, y, z : /\ x = IF item.starWidth THEN <<item.width>> ELSE <<>>
                     /\ y = IF item.starPrec THEN <<item.prec>> ELSE <<>>
                     /\ z = IF item.conv = "%" THEN <<>>
                            ELSE IF item.conv \in {"c", "s"} THEN <<item.str>> ELSE <<item.val>>
  OBVIOUS
<1>2. s = x \o y \o z
  BY <1>1 DEF Passes
<1>3. item.starWidth => item.width \in Argument
  BY DEF IsDirective, IsCount, Argument
<1>4. item.starPrec => item.prec \in Argument
  BY DEF IsDirective, IsCount, Argument
<1>5. item.conv \in {"c", "s"} => item.str \in Argument
  BY DEF IsDirective, Argument
<1>6. item.conv \notin {"%", "c", "s"} => item.val \in Argument
  BY DEF IsDirective, Argument
<1>7. item.starWidth \in BOOLEAN /\ item.starPrec \in BOOLEAN
  BY DirectiveFields
<1>8. x \in Seq(Argument) /\ Len(x) = w /\ (item.starWidth => x[1] = item.width)
  <2>1. CASE item.starWidth
    BY <1>1, <1>3, <2>1, CharOne
  <2>2. CASE ~item.starWidth
    BY <1>1, <2>2, EmptySeq
  <2> QED
    BY <1>7, <2>1, <2>2
<1>9. y \in Seq(Argument) /\ Len(y) = p /\ (item.starPrec => y[1] = item.prec)
  <2>1. CASE item.starPrec
    BY <1>1, <1>4, <2>1, CharOne
  <2>2. CASE ~item.starPrec
    BY <1>1, <2>2, EmptySeq
  <2> QED
    BY <1>7, <2>1, <2>2
<1>10. /\ z \in Seq(Argument) /\ Len(z) = IF item.conv = "%" THEN 0 ELSE 1
       /\ item.conv \in {"c", "s"} => z[1] = item.str
       /\ item.conv \notin {"%", "c", "s"} => z[1] = item.val
  <2>1. CASE item.conv = "%"
    BY <1>1, <2>1, EmptySeq
  <2>2. CASE item.conv \in {"c", "s"}
    BY <1>1, <1>5, <2>2, CharOne
  <2>3. CASE item.conv \notin {"%", "c", "s"}
    BY <1>1, <1>6, <2>3, CharOne
  <2> QED
    BY <2>1, <2>2, <2>3
<1>11. PICK xy : xy = x \o y
  OBVIOUS
<1>12. xy \in Seq(Argument) /\ Joint(xy, x, y)
  BY <1>8, <1>9, <1>11, ConcatAt
<1>13. s \in Seq(Argument) /\ Joint(s, xy, z)
  BY <1>2, <1>10, <1>11, <1>12, ConcatAt
<1>14. w \in 0 .. 1 /\ p \in 0 .. 1 /\ Len(xy) = w + p
  BY <1>8, <1>9, <1>12 DEF Joint
<1>15. Len(s) = w + p + (IF item.conv = "%" THEN 0 ELSE 1)
  BY <1>10, <1>13, <1>14 DEF Joint
<1>16. ASSUME item.starWidth PROVE s[1] = item.width
  <2>1. w = 1 /\ 1 \in 1 .. Len(x) /\ 1 \in 1 .. Len(xy)
    BY <1>8, <1>14, <1>16
  <2>2. s[1] = xy[1] /\ xy[1] = x[1]
    BY <1>12, <1>13, <2>1 DEF Joint
  <2> QED
    BY <1>8, <1>16, <2>2
<1>17. ASSUME item.starPrec PROVE s[w + 1] = item.prec
  <2>1. p = 1 /\ 1 \in 1 .. Len(y) /\ w + 1 \in 1 .. Len(xy)
    BY <1>9, <1>14, <1>17
  <2>2. s[w + 1] = xy[w + 1] /\ xy[w + 1] = y[1]
    BY <1>8, <1>12, <1>13, <2>1 DEF Joint
  <2> QED
    BY <1>9, <1>17, <2>2
<1>18. ASSUME item.conv # "%" PROVE s[w + p + 1] = z[1]
  <2>1. 1 \in 1 .. Len(z)
    BY <1>10, <1>18
  <2> QED
    BY <1>13, <1>14, <2>1 DEF Joint
<1> QED
  BY <1>10, <1>13, <1>15, <1>16, <1>17, <1>18

\* The items of a request, spelled, and their arguments.
Spellings(r) == [i \in 1 .. Len(r) |-> Spell(r[i])]
Passings(r) == [i \in 1 .. Len(r) |-> Passes(r[i])]

\* The spellings and the arguments of a request, item by item.
LEMMA PartsTyped ==
    ASSUME NEW r \in Requests
    PROVE  /\ Spellings(r) \in Seq(Seq(Char)) /\ Len(Spellings(r)) = Len(r)
           /\ Passings(r) \in Seq(Seq(Argument)) /\ Len(Passings(r)) = Len(r)
           /\ \A i \in 1 .. Len(r) : Spellings(r)[i] = Spell(r[i]) /\ Passings(r)[i] = Passes(r[i])
           /\ \A k : Spelled(r, k) = Joined(Spellings(r), k) /\ Passed(r, k) = Joined(Passings(r), k)
<1>1. Len(r) \in Nat
  BY RequestItems
<1>2. ASSUME NEW i \in 1 .. Len(r) PROVE Spell(r[i]) \in Seq(Char) /\ Passes(r[i]) \in Seq(Argument)
  <2>1. CASE IsLiteral(r[i])
    <3>1. r[i].lit \in Char
      BY <2>1, RequestItems
    <3> QED
      BY <2>1, <3>1, LiteralSpelled, EmptySeq
  <2>2. CASE ~IsLiteral(r[i])
    <3>1. IsDirective(r[i])
      BY <2>2, RequestItems
    <3> QED
      BY <2>2, <3>1, DirectiveSpelled, DirectivePasses
  <2> QED
    BY <2>1, <2>2
<1>3. Spellings(r) \in Seq(Seq(Char)) /\ Passings(r) \in Seq(Seq(Argument))
  BY <1>1, <1>2 DEF Spellings, Passings
<1>4. Len(Spellings(r)) = Len(r) /\ Len(Passings(r)) = Len(r)
  BY <1>1 DEF Spellings, Passings
<1> QED
  BY <1>3, <1>4 DEF Spellings, Passings, Spelled, Passed

\* They join to a format and to an argument list.
LEMMA SpelledParts ==
    ASSUME NEW r \in Requests
    PROVE  /\ Spelled(r, 0) = <<>> /\ Passed(r, 0) = <<>>
           /\ \A k \in 0 .. Len(r) : /\ Spelled(r, k) \in Seq(Char) /\ Len(Spelled(r, k)) \in Nat
                                     /\ Passed(r, k) \in Seq(Argument) /\ Len(Passed(r, k)) \in Nat
<1>1. /\ Spellings(r) \in Seq(Seq(Char)) /\ Len(Spellings(r)) = Len(r)
      /\ Passings(r) \in Seq(Seq(Argument)) /\ Len(Passings(r)) = Len(r)
      /\ \A k : Spelled(r, k) = Joined(Spellings(r), k) /\ Passed(r, k) = Joined(Passings(r), k)
  BY PartsTyped
<1>2. Len(r) \in Nat
  BY RequestItems
<1>3. Spelled(r, 0) = <<>> /\ Passed(r, 0) = <<>>
  BY <1>1, <1>2, JoinedNext
<1>4. ASSUME NEW k \in 0 .. Len(r) PROVE Spelled(r, k) \in Seq(Char) /\ Passed(r, k) \in Seq(Argument)
  <2>1. Spelled(r, k) \in Seq(Char)
    BY <1>1, JoinedType
  <2>2. Passed(r, k) \in Seq(Argument)
    BY <1>1, JoinedType
  <2> QED
    BY <2>1, <2>2
<1>5. \A k \in 0 .. Len(r) : Len(Spelled(r, k)) \in Nat /\ Len(Passed(r, k)) \in Nat
  BY <1>4, LenProperties
<1> QED
  BY <1>3, <1>4, <1>5

\* An item and its arguments lie behind those before it.
LEMMA ItemLies ==
    ASSUME NEW r \in Requests, NEW k \in 0 .. Len(r), k < Len(r)
    PROVE  /\ Len(Spelled(r, k + 1)) = Len(Spelled(r, k)) + Len(Spell(r[k + 1]))
           /\ Len(Passed(r, k + 1)) = Len(Passed(r, k)) + Len(Passes(r[k + 1]))
           /\ Lies(Spelled(r, Len(r)), Len(Spelled(r, k)), Spell(r[k + 1]))
           /\ Lies(Passed(r, Len(r)), Len(Passed(r, k)), Passes(r[k + 1]))
<1>1. /\ Spellings(r) \in Seq(Seq(Char)) /\ Len(Spellings(r)) = Len(r)
      /\ Passings(r) \in Seq(Seq(Argument)) /\ Len(Passings(r)) = Len(r)
      /\ \A i \in 1 .. Len(r) : Spellings(r)[i] = Spell(r[i]) /\ Passings(r)[i] = Passes(r[i])
      /\ \A i : Spelled(r, i) = Joined(Spellings(r), i) /\ Passed(r, i) = Joined(Passings(r), i)
  BY PartsTyped
<1>2. PICK m, n : m = k + 1 /\ n = Len(r)
  OBVIOUS
<1>3. n \in Nat /\ m \in 1 .. n /\ m - 1 = k /\ n \in m .. n
  BY <1>2, RequestItems
<1>4. /\ Len(Joined(Spellings(r), m)) = Len(Joined(Spellings(r), m - 1)) + Len(Spellings(r)[m])
      /\ \A i \in 1 .. Len(Spellings(r)[m]) :
           Joined(Spellings(r), n)[Len(Joined(Spellings(r), m - 1)) + i] = Spellings(r)[m][i]
      /\ Len(Joined(Spellings(r), m)) <= Len(Joined(Spellings(r), n))
  <2>1. m \in 0 .. Len(Spellings(r)) /\ n \in m .. Len(Spellings(r)) /\ m \in 1 .. Len(Spellings(r))
    BY <1>1, <1>2, <1>3
  <2>2. Len(Joined(Spellings(r), m)) <= Len(Joined(Spellings(r), n))
    BY <1>1, <2>1, JoinedPrefix
  <2> QED
    BY <1>1, <2>1, <2>2, JoinedPart
<1>5. /\ Len(Joined(Passings(r), m)) = Len(Joined(Passings(r), m - 1)) + Len(Passings(r)[m])
      /\ \A i \in 1 .. Len(Passings(r)[m]) :
           Joined(Passings(r), n)[Len(Joined(Passings(r), m - 1)) + i] = Passings(r)[m][i]
      /\ Len(Joined(Passings(r), m)) <= Len(Joined(Passings(r), n))
  <2>1. m \in 0 .. Len(Passings(r)) /\ n \in m .. Len(Passings(r)) /\ m \in 1 .. Len(Passings(r))
    BY <1>1, <1>2, <1>3
  <2>2. Len(Joined(Passings(r), m)) <= Len(Joined(Passings(r), n))
    BY <1>1, <2>1, JoinedPrefix
  <2> QED
    BY <1>1, <2>1, <2>2, JoinedPart
<1>6. Spellings(r)[m] = Spell(r[m]) /\ Passings(r)[m] = Passes(r[m])
  BY <1>1, <1>2, <1>3
<1>7. Len(Spelled(r, k)) \in Nat /\ Len(Passed(r, k)) \in Nat
  BY SpelledParts
<1>8. Len(Spell(r[m])) \in Nat /\ Len(Passes(r[m])) \in Nat
  <2>1. Spell(r[m]) \in Seq(Char) /\ Passes(r[m]) \in Seq(Argument)
    BY <1>1, <1>2, <1>3, <1>6, LenProperties
  <2> QED
    BY <2>1, LenProperties
<1>9. /\ Len(Spelled(r, m)) = Len(Spelled(r, k)) + Len(Spell(r[m]))
      /\ Len(Passed(r, m)) = Len(Passed(r, k)) + Len(Passes(r[m]))
      /\ Len(Spelled(r, m)) <= Len(Spelled(r, n)) /\ Len(Passed(r, m)) <= Len(Passed(r, n))
      /\ \A i \in 1 .. Len(Spell(r[m])) : Spelled(r, n)[Len(Spelled(r, k)) + i] = Spell(r[m])[i]
      /\ \A i \in 1 .. Len(Passes(r[m])) : Passed(r, n)[Len(Passed(r, k)) + i] = Passes(r[m])[i]
  BY <1>1, <1>3, <1>4, <1>5, <1>6
<1>10. Lies(Spelled(r, n), Len(Spelled(r, k)), Spell(r[m]))
  BY <1>7, <1>8, <1>9 DEF Lies
<1>11. Lies(Passed(r, n), Len(Passed(r, k)), Passes(r[m]))
  BY <1>7, <1>8, <1>9 DEF Lies
<1> QED
  BY <1>2, <1>9, <1>10, <1>11

-----------------------------------------------------------------------------
(* Digits *)

\* The bases and the digits that npf_utoa_rev is called with.
Bases == {8, 10, 16}
Glyphs == {Lower, Upper}

\* The digits of a number and of all the smaller ones.
Utoa(f, base, glyphs, n) ==
    f = [v \in 0 .. n |-> IF v < base THEN <<glyphs[v + 1]>>
                          ELSE Append(f[v \div base], glyphs[(v % base) + 1])]

\* A division by one of the bases: the quotient is smaller, the remainder a digit.
LEMMA Divided ==
    ASSUME NEW base \in Bases, NEW v \in Nat
    PROVE  /\ v \div base \in Nat /\ v % base \in 0 .. (base - 1)
           /\ v >= base => v \div base < v /\ v \div base >= 1
<1>1. base \in Nat /\ base >= 8
  BY DEF Bases
<1>2. /\ v \div 8 \in Nat /\ v % 8 \in 0 .. (8 - 1)
      /\ v >= 8 => v \div 8 < v /\ v \div 8 >= 1
  OBVIOUS
<1>3. /\ v \div 10 \in Nat /\ v % 10 \in 0 .. (10 - 1)
      /\ v >= 10 => v \div 10 < v /\ v \div 10 >= 1
  OBVIOUS
<1>4. /\ v \div 16 \in Nat /\ v % 16 \in 0 .. (16 - 1)
      /\ v >= 16 => v \div 16 < v /\ v \div 16 >= 1
  OBVIOUS
<1>5. base = 8 \/ base = 10 \/ base = 16
  BY DEF Bases
<1> QED
  BY <1>2, <1>3, <1>4, <1>5, Zenon

\* A division by the smallest base leaves the most.
LEMMA DividedLess ==
    ASSUME NEW base \in Bases, NEW x \in Nat, NEW y \in Nat, x <= y
    PROVE  x \div base <= y \div 8
<1>1. CASE base = 8
  BY <1>1
<1>2. CASE base = 10
  BY <1>2
<1>3. CASE base = 16
  BY <1>3
<1> QED
  BY <1>1, <1>2, <1>3 DEF Bases

\* The recursion of the digits ends, for every number.
LEMMA UtoaThere ==
    ASSUME NEW base \in Bases, NEW glyphs, NEW n \in Nat PROVE \E f : Utoa(f, base, glyphs, n)
<1> DEFINE Bad == {m \in Nat : ~\E f : Utoa(f, base, glyphs, m)}
<1> SUFFICES ASSUME Bad # {} PROVE FALSE
  OBVIOUS
<1>0. base \in Nat /\ base >= 8
  BY DEF Bases
<1>1. PICK m \in Nat : m \in Bad /\ \A k \in Bad : m <= k
  BY LeastNumber
<1>2. CASE m = 0
  <2>1. PICK g : g = [v \in 0 .. 0 |-> <<glyphs[v + 1]>>]
    OBVIOUS
  <2>2. Utoa(g, base, glyphs, 0)
    BY <1>0, <2>1 DEF Utoa
  <2> QED
    BY <1>1, <1>2, <2>2
<1>3. CASE m # 0
  <2>1. m - 1 \in Nat /\ m - 1 \notin Bad
    BY <1>1, <1>3
  <2>2. PICK f : Utoa(f, base, glyphs, m - 1)
    BY <2>1
  <2> DEFINE Step(h, v) == IF v < base THEN <<glyphs[v + 1]>>
                           ELSE Append(h[v \div base], glyphs[(v % base) + 1])
  <2>3. PICK g : g = [v \in 0 .. m |-> IF v = m THEN Step(f, m) ELSE f[v]]
    OBVIOUS
  <2>4. \A v \in 0 .. (m - 1) : f[v] = Step(f, v)
    BY <2>2 DEF Utoa
  <2>5. ASSUME NEW v \in 0 .. m PROVE g[v] = Step(f, v)
    <3>1. CASE v = m
      BY <2>3, <3>1
    <3>2. CASE v # m
      <4>1. v \in 0 .. (m - 1)
        BY <1>1, <3>2
      <4> QED
        BY <2>3, <2>4, <3>2, <4>1
    <3> QED
      BY <3>1, <3>2
  <2>6. ASSUME NEW v \in 0 .. m PROVE Step(f, v) = Step(g, v)
    <3>1. CASE v < base
      BY <3>1
    <3>2. CASE ~(v < base)
      <4>1. PICK q : q = v \div base
        OBVIOUS
      <4>2. v \in Nat /\ v >= base
        BY <1>0, <1>1, <3>2
      <4>3. q \in Nat /\ q < v
        BY <4>1, <4>2, Divided
      <4>4. q \in 0 .. (m - 1)
        BY ONLY <1>1, <4>2, <4>3, m \in Nat, v \in 0 .. m
      <4>5. g[q] = f[q]
        BY <2>3, <4>4
      <4> QED
        BY <3>2, <4>1, <4>5
    <3> QED
      BY <3>1, <3>2
  <2>7. \A v \in 0 .. m : g[v] = Step(g, v)
    <3> HIDE DEF Step
    <3> QED
      BY <2>5, <2>6
  <2>8. Utoa(g, base, glyphs, m)
    <3>1. g = [v \in 0 .. m |-> g[v]]
      BY <2>3
    <3> QED
      BY <2>7, <3>1 DEF Utoa
  <2> QED
    BY <1>1, <2>8
<1> QED
  BY <1>2, <1>3

\* Digits is what it comes to.
LEMMA DigitsIs ==
    ASSUME NEW base \in Bases, NEW glyphs, NEW n \in Nat
    PROVE  \E f : Utoa(f, base, glyphs, n) /\ Digits(n, base, glyphs) = f[n]
<1>1. PICK f : f = CHOOSE g : Utoa(g, base, glyphs, n)
  OBVIOUS
<1>2. Utoa(f, base, glyphs, n)
  BY <1>1, UtoaThere
<1>3. Digits(n, base, glyphs) = f[n]
  BY <1>1 DEF Digits, Utoa
<1> QED
  BY <1>2, <1>3

\* Digits of every base are characters.
LEMMA GlyphChars == ASSUME NEW glyphs \in Glyphs, NEW i \in 1 .. 16 PROVE glyphs[i] \in Char
  BY CharAssumption DEF Syntax, Glyphs

\* The last digit, and the number that is left for the others.
Last(f, base, glyphs, n, v, q, r) ==
    /\ q \in 0 .. n /\ r \in 0 .. (base - 1)
    /\ q < v /\ q = v \div base /\ r = v % base
    /\ f[v] = Append(f[q], glyphs[r + 1])

\* What a step of the conversion adds.
LEMMA UtoaStep ==
    ASSUME NEW base \in Bases, NEW glyphs, NEW n \in Nat, NEW f, Utoa(f, base, glyphs, n),
           NEW v \in 0 .. n
    PROVE  /\ base \in 8 .. 16 /\ v \in Nat
           /\ v < base => f[v] = <<glyphs[v + 1]>>
           /\ v >= base => \E q, r : Last(f, base, glyphs, n, v, q, r)
<1>1. base \in 8 .. 16 /\ v \in Nat
  BY DEF Bases
<1>2. f[v] = IF v < base THEN <<glyphs[v + 1]>>
             ELSE Append(f[v \div base], glyphs[(v % base) + 1])
  BY DEF Utoa
<1>3. ASSUME v >= base
      PROVE  \E q, r : Last(f, base, glyphs, n, v, q, r)
  <2>1. PICK q, r : q = v \div base /\ r = v % base
    OBVIOUS
  <2>2. q \in Nat /\ r \in 0 .. (base - 1) /\ q < v /\ q >= 1
    BY <1>1, <1>3, <2>1, Divided
  <2>3. q \in 0 .. n
    BY ONLY <1>1, <2>2, n \in Nat, v \in 0 .. n
  <2>4. ~(v < base)
    BY <1>1, <1>3
  <2>5. f[v] = Append(f[q], glyphs[r + 1])
    BY ONLY <1>2, <2>1, <2>4
  <2> QED
    BY <2>1, <2>2, <2>3, <2>5 DEF Last
<1>4. v < base => f[v] = <<glyphs[v + 1]>>
  BY <1>2
<1> QED
  BY <1>1, <1>3, <1>4

\* A number has at least one digit.
LEMMA UtoaTyped ==
    ASSUME NEW base \in Bases, NEW glyphs \in Glyphs, NEW n \in Nat,
           NEW f, Utoa(f, base, glyphs, n), NEW v \in 0 .. n
    PROVE  f[v] \in Seq(Char) /\ Len(f[v]) \in Nat /\ Len(f[v]) >= 1
<1> DEFINE Good(x) == f[x] \in Seq(Char) /\ Len(f[x]) \in Nat /\ Len(f[x]) >= 1
           Bad == {x \in 0 .. n : ~Good(x)}
<1> SUFFICES ASSUME Bad # {} PROVE FALSE
  OBVIOUS
<1>1. PICK m : m \in Bad /\ \A k \in Bad : m <= k
  <2>1. Bad \subseteq Nat
    OBVIOUS
  <2> HIDE DEF Bad
  <2> QED
    BY <2>1, LeastNumber
<1>2. m \in 0 .. n /\ ~Good(m) /\ \A x \in 0 .. n : x < m => Good(x)
  <2>1. m \in 0 .. n /\ ~Good(m)
    BY <1>1
  <2>2. ASSUME NEW x \in 0 .. n, x < m PROVE Good(x)
    <3>1. ~(m <= x)
      BY <2>1, <2>2
    <3> QED
      BY <1>1, <3>1
  <2> QED
    BY <2>1, <2>2
<1> HIDE DEF Good, Bad
<1>3. base \in 8 .. 16 /\ m \in Nat
  BY <1>2, UtoaStep
<1>4. CASE m < base
  <2>1. PICK c : c = glyphs[m + 1]
    OBVIOUS
  <2>2. m + 1 \in 1 .. 16
    BY <1>3, <1>4
  <2>3. c \in Char
    BY <2>1, <2>2, GlyphChars
  <2>4. f[m] = <<c>>
    BY <1>2, <1>4, <2>1, UtoaStep
  <2>5. f[m] \in Seq(Char) /\ Len(f[m]) = 1
    BY <2>3, <2>4, CharOne
  <2> QED
    BY <1>2, <2>5 DEF Good
<1>5. CASE m >= base
  <2>0. PICK q, r : Last(f, base, glyphs, n, m, q, r)
    BY <1>2, <1>5, UtoaStep
  <2>1. q \in 0 .. n /\ r \in 0 .. (base - 1) /\ q < m /\ f[m] = Append(f[q], glyphs[r + 1])
    BY <2>0 DEF Last
  <2>2. r + 1 \in 1 .. 16
    BY <1>3, <2>1
  <2>3. PICK c : c = glyphs[r + 1] /\ c \in Char
    BY <2>2, GlyphChars
  <2>4. f[q] \in Seq(Char) /\ Len(f[q]) \in Nat
    BY <1>2, <2>1 DEF Good
  <2>5. f[m] \in Seq(Char) /\ Len(f[m]) = Len(f[q]) + 1
    BY <2>1, <2>3, <2>4, AppendProperties
  <2> QED
    BY <1>2, <2>4, <2>5 DEF Good
<1> QED
  BY <1>3, <1>4, <1>5

\* The digits before the last one.
LEMMA UtoaLonger ==
    ASSUME NEW base \in Bases, NEW glyphs \in Glyphs, NEW n \in Nat,
           NEW f, Utoa(f, base, glyphs, n), NEW v \in 0 .. n, v >= base
    PROVE  \E q \in 0 .. n : /\ q < v /\ q = v \div base
                             /\ Len(f[q]) \in Nat /\ Len(f[v]) = Len(f[q]) + 1
<1>0. PICK q, r : Last(f, base, glyphs, n, v, q, r)
  BY UtoaStep
<1>1. /\ q \in 0 .. n /\ r \in 0 .. (base - 1)
      /\ q < v /\ q = v \div base /\ f[v] = Append(f[q], glyphs[r + 1])
  BY <1>0 DEF Last
<1>2. base \in 8 .. 16
  BY UtoaStep
<1>3. r + 1 \in 1 .. 16
  BY <1>1, <1>2
<1>4. PICK c : c = glyphs[r + 1] /\ c \in Char
  BY <1>3, GlyphChars
<1>5. f[q] \in Seq(Char) /\ Len(f[q]) \in Nat
  BY <1>1, UtoaTyped
<1>6. Len(f[v]) = Len(f[q]) + 1
  BY <1>1, <1>4, <1>5, AppendProperties
<1> QED
  BY <1>1, <1>5, <1>6

\* A smaller number in a larger base has no more digits.
LEMMA UtoaShorter ==
    ASSUME NEW base \in Bases, NEW glyphs \in Glyphs, NEW n \in Nat,
           NEW f, Utoa(f, base, glyphs, n),
           NEW eight \in Bases, eight = 8, NEW other \in Glyphs, NEW k \in Nat, NEW g, Utoa(g, eight, other, k), n <= k
    PROVE  Len(f[n]) <= Len(g[k])
<1> DEFINE Good(x) == \A y \in 0 .. k : x <= y => Len(f[x]) <= Len(g[y])
           Bad == {x \in 0 .. n : ~Good(x)}
<1>0. SUFFICES ASSUME Bad # {} PROVE FALSE
  <2>1. n \in 0 .. n /\ k \in 0 .. k
    OBVIOUS
  <2>2. Bad = {} => Good(n)
    BY <2>1
  <2>3. Good(n) => Len(f[n]) <= Len(g[k])
    BY <2>1
  <2> QED
    BY <2>2, <2>3
<1>1. PICK x : x \in Bad /\ \A j \in Bad : x <= j
  <2>1. Bad \subseteq Nat
    OBVIOUS
  <2> HIDE DEF Bad
  <2> QED
    BY <1>0, <2>1, LeastNumber
<1>2. x \in 0 .. n /\ ~Good(x) /\ \A s \in 0 .. n : s < x => Good(s)
  <2>1. x \in 0 .. n /\ ~Good(x)
    BY <1>1
  <2>2. ASSUME NEW s \in 0 .. n, s < x PROVE Good(s)
    <3>1. ~(x <= s)
      BY <2>1, <2>2
    <3> QED
      BY <1>1, <3>1
  <2> QED
    BY <2>1, <2>2
<1>3. PICK y \in 0 .. k : x <= y /\ ~(Len(f[x]) <= Len(g[y]))
  BY <1>2
<1> HIDE DEF Bad
<1>4. x \in Nat /\ y \in Nat /\ base \in 8 .. 16
  BY <1>2, UtoaStep
<1>5. Len(g[y]) \in Nat /\ Len(g[y]) >= 1
  BY UtoaTyped
<1>6. CASE x < base
  <2> HIDE DEF Good
  <2>1. PICK c : c = glyphs[x + 1]
    OBVIOUS
  <2>2. f[x] = <<c>>
    BY <1>2, <1>6, <2>1, UtoaStep
  <2>3. Len(f[x]) = 1
    BY <2>2
  <2> QED
    BY <1>3, <1>5, <2>3
<1>7. CASE x >= base
  <2>1. PICK s \in 0 .. n : s < x /\ s = x \div base /\ Len(f[s]) \in Nat /\ Len(f[x]) = Len(f[s]) + 1
    <3> HIDE DEF Good
    <3> QED
      BY <1>2, <1>7, UtoaLonger
  <2>2. y >= eight
    BY <1>3, <1>4, <1>7
  <2>3. PICK t \in 0 .. k : t < y /\ t = y \div eight /\ Len(g[t]) \in Nat /\ Len(g[y]) = Len(g[t]) + 1
    <3> HIDE DEF Good
    <3> QED
      BY ONLY <2>2, UtoaLonger, eight \in Bases, other \in Glyphs, k \in Nat,
              Utoa(g, eight, other, k), y \in 0 .. k
  <2>4. s <= t
    BY <1>3, <1>4, <2>1, <2>3, DividedLess
  <2>5. Len(f[s]) <= Len(g[t])
    <3>1. Good(s)
      BY <1>2, <2>1
    <3> QED
      BY <2>4, <3>1
  <2> HIDE DEF Good
  <2> QED
    BY <1>3, <2>1, <2>3, <2>5
<1> QED
  BY <1>4, <1>6, <1>7

\* The digits of a number are characters, and no more than the conversion buffer holds.
LEMMA DigitsFit ==
    ASSUME NEW base \in Bases, NEW glyphs \in Glyphs, NEW v \in Nat, v < PtrValues
    PROVE  /\ Digits(v, base, glyphs) \in Seq(Char) /\ Len(Digits(v, base, glyphs)) \in Nat
           /\ Len(Digits(v, base, glyphs)) + 1 <= ConvSize
<1>1. PICK f : Utoa(f, base, glyphs, v) /\ Digits(v, base, glyphs) = f[v]
  BY DigitsIs
<1>2. f[v] \in Seq(Char) /\ Len(f[v]) \in Nat
  BY <1>1, UtoaTyped
<1>3. PICK m, eight : m = PtrValues - 1 /\ eight = 8
  OBVIOUS
<1>4. m \in Nat /\ v <= m /\ eight \in Bases /\ Lower \in Glyphs
  <2>1. PtrValues \in Nat \ {0}
    BY ValuesAssumption
  <2> QED
    BY <1>3, <2>1 DEF Bases, Glyphs
<1>5. PICK g : Utoa(g, eight, Lower, m) /\ Digits(m, eight, Lower) = g[m]
  BY <1>4, DigitsIs
<1>6. Len(f[v]) <= Len(g[m])
  BY <1>1, <1>3, <1>4, <1>5, UtoaShorter
<1>7. Len(g[m]) \in Nat
  BY <1>4, <1>5, UtoaTyped
<1>8. ConvSize \in Nat /\ ConvSize >= Len(g[m]) + 1
  BY <1>3, <1>5, ConvAssumption
<1> QED
  BY <1>1, <1>2, <1>6, <1>7, <1>8

-----------------------------------------------------------------------------
(* The arguments of a directive *)

\* Quotient and remainder, of a number that may be negative.
LEMMA Modulo ==
    ASSUME NEW v \in Int, NEW b \in Nat, b > 0, NEW q, q = v \div b, NEW r, r = v % b
    PROVE  q \in Int /\ r \in 0 .. (b - 1) /\ v = b * q + r
<1>1. q \in Int
  BY SMT
<1>2. r \in 0 .. (b - 1)
  BY SMT
<1>3. r = v - b * q
  BY SMT
<1>4. b * q \in Int
  BY ONLY <1>1, b \in Nat
<1>5. v = b * q + r
  BY ONLY <1>2, <1>3, <1>4, v \in Int
<1> QED
  BY ONLY <1>1, <1>2, <1>5

\* The remainder is the only one.
LEMMA ModuloIs == ASSUME NEW a \in Int, NEW b \in Nat, b > 0, NEW q \in Int, NEW r \in Nat, r < b, a = b * q + r
    PROVE  a % b = r
<1>1. PICK p : p = a \div b
  OBVIOUS
<1>2. PICK s : s = a % b
  OBVIOUS
<1>3. p \in Int /\ s \in 0 .. (b - 1) /\ a = b * p + s
  BY <1>1, <1>2, Modulo
<1>4. b * (q - p) = s - r /\ s - r < b /\ r - s < b
  BY <1>3
<1>5. q - p = 0
  <2>1. q - p >= 1 => b * (q - p) >= b
    BY ONLY <1>3, q \in Int, b \in Nat, b > 0
  <2>2. q - p <= -1 => b * (q - p) <= -b
    BY ONLY <1>3, q \in Int, b \in Nat, b > 0
  <2> QED
    BY <1>3, <1>4, <2>1, <2>2
<1>6. s = r
  BY <1>3, <1>4, <1>5
<1> QED
  BY <1>2, <1>6

\* A value that is cut to a signed type fits it, and one that fits is left alone.
LEMMA SignedFits ==
    ASSUME NEW v \in Int, NEW values \in Nat \ {0}, values % 2 = 0
    PROVE  /\ Signed(v, values) \in Int
           /\ Signed(v, values) < values /\ -Signed(v, values) < values
           /\ v \in (1 - values \div 2) .. (values \div 2 - 1) => Signed(v, values) = v
<1>1. PICK u, q, h : u = v % values /\ q = v \div values /\ h = values \div 2
  OBVIOUS
<1>2. q \in Int /\ u \in 0 .. (values - 1) /\ v = values * q + u
  BY <1>1, Modulo
<1>3. h \in Nat /\ values = h + h
  BY ONLY <1>1, values \in Nat \ {0}, values % 2 = 0
<1>4. Signed(v, values) = IF u >= h THEN u - values ELSE u
  BY <1>1 DEF Signed
<1>5. ASSUME v \in (1 - h) .. (h - 1) PROVE Signed(v, values) = v
  <2>1. CASE v >= 0
    <3>1. PICK z, r : z = 0 /\ r = v
      OBVIOUS
    <3>2. z \in Int /\ r \in Nat /\ r < values /\ v = values * z + r
      BY ONLY <1>3, <1>5, <2>1, <3>1, v \in Int
    <3>3. u = v
      BY <1>1, <3>1, <3>2, ModuloIs
    <3> QED
      BY ONLY <1>3, <1>4, <1>5, <2>1, <3>3, v \in Int
  <2>2. CASE v < 0
    <3>1. PICK z, r : z = -1 /\ r = v + values
      OBVIOUS
    <3>2. z \in Int /\ r \in Nat /\ r < values /\ v = values * z + r
      BY ONLY <1>3, <1>5, <2>2, <3>1, v \in Int
    <3>3. u = v + values
      BY <1>1, <3>1, <3>2, ModuloIs
    <3> QED
      BY ONLY <1>3, <1>4, <1>5, <2>2, <3>3, v \in Int
  <2> QED
    BY <2>1, <2>2
<1>6. Signed(v, values) \in Int /\ Signed(v, values) < values /\ -Signed(v, values) < values
  BY ONLY <1>2, <1>3, <1>4, values \in Nat \ {0}
<1> QED
  BY ONLY <1>1, <1>5, <1>6

\* The precision that a directive asks for, if any.
PrecGiven(item) == item.prec # None /\ item.prec >= 0

\* A directive with its arguments for the width and the precision.
FieldOf(item) ==
    [flags |-> (FlagsOf(item) \cup (IF item.width < 0 THEN {"-"} ELSE {}))
               \ (IF PrecGiven(item) /\ item.conv \in Integral THEN {"0"} ELSE {}),
     width |-> IF item.width = None THEN 0 ELSE IF item.width < 0 THEN -item.width ELSE item.width,
     widthOpt |-> IF item.starWidth THEN "star"
                  ELSE IF item.width \notin {0, None} THEN "literal" ELSE "none",
     prec |-> IF PrecGiven(item) THEN item.prec ELSE IF item.conv = "p" THEN PtrDigits ELSE 0,
     precOpt |-> IF ~PrecGiven(item) THEN "none" ELSE IF item.starPrec THEN "star" ELSE "literal",
     mod |-> item.mod,
     conv |-> item.conv]

\* The argument that is converted.
Given(item) == IF item.conv = "%" THEN 0 ELSE IF item.conv \in {"c", "s"} THEN item.str ELSE item.val

\* A width and a precision are ints, whether they are spelled or passed.
LEMMA CountsAre ==
    ASSUME NEW item, IsDirective(item)
    PROVE  /\ item.starWidth \in BOOLEAN /\ item.starPrec \in BOOLEAN
           /\ item.width \in Int /\ item.prec \in Int
           /\ item.starWidth => item.width # None /\ Signed(item.width, IntValues) = item.width
           /\ item.starPrec => item.prec # None /\ Signed(item.prec, IntValues) = item.prec
           /\ ~item.starWidth => item.width \in 0 .. 9 \cup {None}
           /\ ~item.starPrec => item.prec \in 0 .. 9 \cup {None}
<1>1. /\ item.starWidth \in BOOLEAN /\ item.starPrec \in BOOLEAN
      /\ IsCount(item.starWidth, item.width) /\ IsCount(item.starPrec, item.prec)
  BY DirectiveFields
<1>2. IntValues \in Nat \ {0} /\ IntValues % 2 = 0
  BY ValuesAssumption
<1>3. PICK lo, hi : lo = 1 - IntValues \div 2 /\ hi = IntValues \div 2 - 1
  OBVIOUS
<1>4. lo \in Int /\ hi \in Int
  BY ONLY <1>2, <1>3
<1>5. \A star \in BOOLEAN : \A v : IsCount(star, v)
        => IF star THEN v \in lo .. hi /\ v # None ELSE v \in 0 .. 9 \cup {None}
  <2>1. ASSUME NEW star \in BOOLEAN, NEW v, IsCount(star, v)
        PROVE  IF star THEN v \in lo .. hi ELSE v \in 0 .. 9 \cup {None}
    BY <1>3, <2>1 DEF IsCount
  <2> QED
    BY <2>1, NoneIs
<1>6. \A v \in lo .. hi : v \in Int /\ Signed(v, IntValues) = v
  <2> SUFFICES ASSUME NEW v \in lo .. hi PROVE v \in Int /\ Signed(v, IntValues) = v
    OBVIOUS
  <2>1. v \in Int
    BY ONLY <1>4, v \in lo .. hi
  <2>2. v \in (1 - IntValues \div 2) .. (IntValues \div 2 - 1)
    BY ONLY <1>3, v \in lo .. hi, Zenon
  <2> QED
    BY <1>2, <2>1, <2>2, SignedFits
<1>7. \A v \in 0 .. 9 \cup {None} : v \in Int
  BY NoneIs
<1> QED
  BY ONLY <1>1, <1>5, <1>6, <1>7

\* The arguments for '*' give the width and the precision that were meant, a negative one as
\* the flag '-' or as no precision.
LEMMA StarsAre ==
    ASSUME NEW item, ~IsLiteral(item), IsDirective(item), NEW args, NEW k,
           Lies(args, k, Passes(item))
    PROVE  StarArgs(SpecOf(item), args, k) = FieldOf(item)
<1>0. PICK sp : sp = SpecOf(item)
  OBVIOUS
<1>1. PICK w, p : w = (IF item.starWidth THEN 1 ELSE 0) /\ p = (IF item.starPrec THEN 1 ELSE 0)
  OBVIOUS
<1>2. PICK s : s = Passes(item)
  OBVIOUS
<1>3. /\ Len(s) = w + p + (IF item.conv = "%" THEN 0 ELSE 1)
      /\ item.starWidth => s[1] = item.width
      /\ item.starPrec => s[w + 1] = item.prec
  BY ONLY <1>1, <1>2, ~IsLiteral(item), IsDirective(item), DirectivePasses, SMTT(30)
<1>4. /\ item.starWidth \in BOOLEAN /\ item.starPrec \in BOOLEAN
      /\ item.width \in Int /\ item.prec \in Int
      /\ item.starWidth => item.width # None /\ Signed(item.width, IntValues) = item.width
      /\ item.starPrec => item.prec # None /\ Signed(item.prec, IntValues) = item.prec
      /\ ~item.starWidth => item.width \in 0 .. 9 \cup {None}
      /\ ~item.starPrec => item.prec \in 0 .. 9 \cup {None}
  BY CountsAre
<1>5. k \in Nat /\ \A i \in 1 .. Len(s) : args[k + i] = s[i]
  BY <1>2 DEF Lies
<1>6. item.starWidth => args[k + 1] = item.width
  BY <1>1, <1>3, <1>4, <1>5
<1>7. item.starPrec => args[k + w + 1] = item.prec
  <2> SUFFICES ASSUME item.starPrec PROVE args[k + w + 1] = item.prec
    OBVIOUS
  <2>1. w + 1 \in 1 .. Len(s) /\ k + (w + 1) = k + w + 1
    BY <1>1, <1>3, <1>4, <1>5
  <2> QED
    BY <1>3, <1>5, <2>1
<1>8. PICK width, given, precOpt, prec :
        /\ width = (IF w = 1 THEN Signed(args[k + 1], IntValues) ELSE sp.width)
        /\ given = (IF p = 1 THEN Signed(args[k + w + 1], IntValues) ELSE sp.prec)
        /\ precOpt = (IF given < 0 THEN "none" ELSE sp.precOpt)
        /\ prec = (IF given < 0 THEN 0 ELSE given)
  OBVIOUS
<1>9. /\ sp.widthOpt = "star" <=> item.starWidth
      /\ sp.precOpt = "star" <=> item.starPrec
      /\ sp.precOpt = IF item.starPrec THEN "star" ELSE IF item.prec # None THEN "literal" ELSE "none"
      /\ sp.width = IF item.starWidth \/ item.width = None THEN 0 ELSE item.width
      /\ sp.prec = IF item.starPrec \/ item.prec = None THEN 0 ELSE item.prec
      /\ sp.flags = FlagsOf(item) /\ sp.conv = item.conv
  BY <1>0, <1>4 DEF SpecOf
<1>10. width = IF item.width = None THEN 0 ELSE item.width
  BY <1>1, <1>4, <1>6, <1>8, <1>9
<1>11. given = IF item.prec = None THEN 0 ELSE item.prec
  BY <1>1, <1>4, <1>7, <1>8, <1>9
<1>12. None \in Nat /\ None > 9
  BY NoneIs
<1>13. width < 0 <=> item.width < 0
  BY <1>4, <1>10, <1>12
<1>14. /\ precOpt = IF ~PrecGiven(item) THEN "none" ELSE IF item.starPrec THEN "star" ELSE "literal"
       /\ precOpt = "none" <=> ~PrecGiven(item)
       /\ PrecGiven(item) => prec = item.prec
       /\ ~PrecGiven(item) => prec = 0
  BY <1>4, <1>8, <1>9, <1>11, <1>12 DEF PrecGiven
<1>15. (IF width < 0 THEN -width ELSE width)
         = IF item.width = None THEN 0 ELSE IF item.width < 0 THEN -item.width ELSE item.width
  BY <1>10, <1>12, <1>13
<1>16. (IF precOpt = "none" /\ sp.conv = "p" THEN PtrDigits ELSE prec)
         = IF PrecGiven(item) THEN item.prec ELSE IF item.conv = "p" THEN PtrDigits ELSE 0
  BY <1>9, <1>14
<1>17. PICK fl : fl = (sp.flags \cup (IF width < 0 THEN {"-"} ELSE {}))
                      \ (IF precOpt # "none" /\ sp.conv \in Integral THEN {"0"} ELSE {})
  OBVIOUS
<1>18. fl = (FlagsOf(item) \cup (IF item.width < 0 THEN {"-"} ELSE {}))
            \ (IF PrecGiven(item) /\ item.conv \in Integral THEN {"0"} ELSE {})
  BY <1>9, <1>13, <1>14, <1>17
<1>19. StarArgs(sp, args, k)
         = [sp EXCEPT !.width = IF width < 0 THEN -width ELSE width,
                      !.flags = (@ \cup (IF width < 0 THEN {"-"} ELSE {}))
                                \ (IF precOpt # "none" /\ sp.conv \in Integral THEN {"0"} ELSE {}),
                      !.precOpt = precOpt,
                      !.prec = IF precOpt = "none" /\ sp.conv = "p" THEN PtrDigits ELSE prec]
  <2>1. w = (IF sp.widthOpt = "star" THEN 1 ELSE 0) /\ p = (IF sp.precOpt = "star" THEN 1 ELSE 0)
    BY <1>1, <1>4, <1>9
  <2> QED
    BY ONLY <1>8, <2>1 DEF StarArgs
<1>20. PICK wi, pr : /\ wi = (IF width < 0 THEN -width ELSE width)
                     /\ pr = (IF precOpt = "none" /\ sp.conv = "p" THEN PtrDigits ELSE prec)
  OBVIOUS
<1>21. StarArgs(sp, args, k) = [sp EXCEPT !.width = wi, !.flags = fl, !.precOpt = precOpt, !.prec = pr]
  BY ONLY <1>17, <1>19, <1>20
<1>22. PICK a, b, c, d, e, m, v :
         /\ sp = [flags |-> a, width |-> b, widthOpt |-> c, prec |-> d, precOpt |-> e, mod |-> m, conv |-> v]
         /\ m = item.mod /\ v = item.conv
         /\ c = IF item.starWidth THEN "star"
                ELSE IF item.width \notin {0, None} THEN "literal" ELSE "none"
  BY ONLY <1>0, ZenonT(40) DEF SpecOf
<1>23. StarArgs(sp, args, k)
         = [flags |-> fl, width |-> wi, widthOpt |-> c, prec |-> pr, precOpt |-> precOpt, mod |-> m, conv |-> v]
  BY ONLY <1>21, <1>22, ZenonT(40)
<1>24. FieldOf(item)
         = [flags |-> fl, width |-> wi, widthOpt |-> c, prec |-> pr, precOpt |-> precOpt, mod |-> m, conv |-> v]
  BY ONLY <1>14, <1>15, <1>16, <1>18, <1>20, <1>22 DEF FieldOf
<1> QED
  BY ONLY <1>0, <1>23, <1>24

\* The larger of two numbers.
LEMMA MaxTwo == ASSUME NEW a \in Int, NEW b \in Int PROVE Max({a, b}) = IF a >= b THEN a ELSE b
<1>1. PICK m : m = IF a >= b THEN a ELSE b
  OBVIOUS
<1>2. m \in {a, b} /\ \A y \in {a, b} : m >= y
  BY <1>1
<1>3. \A x \in {a, b} : (\A y \in {a, b} : x >= y) => x = m
  BY <1>1
<1> QED
  BY <1>1, <1>2, <1>3 DEF Max

\* A character, some times.
LEMMA RepeatTyped ==
    ASSUME NEW c \in Char, NEW n \in Nat
    PROVE  /\ Repeat(c, n) \in Seq(Char) /\ Len(Repeat(c, n)) = n
           /\ \A i \in 1 .. n : Repeat(c, n)[i] = c
  BY DEF Repeat

\* Texts one behind the other.
LEMMA ConcatTyped == ASSUME NEW s \in Seq(Char), NEW t \in Seq(Char) PROVE s \o t \in Seq(Char)
  BY ConcatProperties

LEMMA TextAssociative ==
    ASSUME NEW s \in Seq(Char), NEW t \in Seq(Char), NEW u \in Seq(Char)
    PROVE  (s \o t) \o u = s \o (t \o u)
  BY ConcatAssociative

\* A sequence of two.
LEMMA CharTwo == ASSUME NEW S, NEW c \in S, NEW d \in S PROVE <<c, d>> \in Seq(S)
  OBVIOUS

\* What is converted has characters, and a precision.
Typed(q) == /\ q.sign \in Seq(Char) /\ q.prefix \in Seq(Char) /\ q.chars \in Seq(Char)
            /\ q.prec \in Nat

\* A field that is laid out is text.
LEMMA LayoutTyped ==
    ASSUME NEW s, NEW q, s.width \in Nat, Typed(q)
    PROVE  Layout(s, q) \in Seq(Char)
<1>1. q.sign \in Seq(Char) /\ q.prefix \in Seq(Char) /\ q.chars \in Seq(Char) /\ q.prec \in Nat
  BY DEF Typed
<1>2. Len(q.sign) \in Nat /\ Len(q.prefix) \in Nat /\ Len(q.chars) \in Nat
  BY <1>1, LenProperties
<1>3. PICK left, padC, precPad, fieldPad, head, sign :
        /\ left = ("-" \in s.flags)
        /\ padC = IF s.widthOpt = "none" THEN Nul
                  ELSE IF "0" \in s.flags /\ ~left /\ ~(s.precOpt # "none" /\ q.prec = 0 /\ q.zero)
                       THEN "0" ELSE " "
        /\ precPad = IF s.conv = "s" THEN 0 ELSE Max({0, q.prec - Len(q.chars)})
        /\ fieldPad = Max({0, s.width - Len(q.chars) - Len(q.sign) - Len(q.prefix) - precPad})
        /\ head = IF left \/ padC = Nul THEN q.prefix
                  ELSE IF padC = "0" THEN q.sign \o q.prefix \o Repeat("0", fieldPad)
                  ELSE Repeat(" ", fieldPad) \o q.prefix
        /\ sign = IF padC = "0" THEN <<>> ELSE q.sign
  OBVIOUS
<1>4. PICK tail : tail = IF left /\ padC # Nul THEN Repeat(padC, fieldPad) ELSE <<>>
  OBVIOUS
<1>5. Layout(s, q) = head \o sign \o Repeat("0", precPad) \o q.chars \o tail
  BY ONLY <1>3, <1>4 DEF Layout
<1>6. precPad \in Nat
  <2>1. PICK x : x = q.prec - Len(q.chars)
    OBVIOUS
  <2>2. x \in Int
    BY <1>1, <1>2, <2>1
  <2>3. Max({0, x}) = IF 0 >= x THEN 0 ELSE x
    BY <2>2, MaxTwo
  <2>4. precPad = IF s.conv = "s" THEN 0 ELSE Max({0, x})
    BY ONLY <1>3, <2>1, Zenon
  <2> QED
    BY ONLY <2>2, <2>3, <2>4
<1>7. fieldPad \in Nat
  <2>1. PICK x : x = s.width - Len(q.chars) - Len(q.sign) - Len(q.prefix) - precPad
    OBVIOUS
  <2>2. x \in Int
    BY <1>2, <1>6, <2>1
  <2>3. Max({0, x}) = IF 0 >= x THEN 0 ELSE x
    BY <2>2, MaxTwo
  <2>4. fieldPad = Max({0, x})
    BY ONLY <1>3, <2>1, Zenon
  <2> QED
    BY ONLY <2>2, <2>3, <2>4
<1>8. "0" \in Char /\ " " \in Char
  BY CharAssumption DEF Syntax, FlagChars
<1>9. /\ Repeat("0", precPad) \in Seq(Char) /\ Repeat("0", fieldPad) \in Seq(Char)
      /\ Repeat(" ", fieldPad) \in Seq(Char) /\ <<>> \in Seq(Char)
  BY <1>6, <1>7, <1>8, RepeatTyped, EmptySeq
<1>10. head \in Seq(Char)
  <2>1. PICK x, y : x = q.sign \o q.prefix /\ y = x \o Repeat("0", fieldPad)
    OBVIOUS
  <2>2. x \in Seq(Char) /\ Repeat(" ", fieldPad) \o q.prefix \in Seq(Char)
    BY <1>1, <1>9, <2>1, ConcatTyped
  <2>3. y \in Seq(Char)
    BY <1>9, <2>1, <2>2, ConcatTyped
  <2> QED
    BY ONLY <1>1, <1>3, <2>1, <2>2, <2>3
<1>11. sign \in Seq(Char)
  BY ONLY <1>1, <1>3, <1>9
<1>12. tail \in Seq(Char)
  <2>1. padC \in {Nul, "0", " "}
    BY ONLY <1>3
  <2> QED
    BY ONLY <1>4, <1>9, <2>1
<1>13. PICK a, b, c : a = head \o sign /\ b = a \o Repeat("0", precPad) /\ c = b \o q.chars
  OBVIOUS
<1>14. a \in Seq(Char)
  BY <1>10, <1>11, <1>13, ConcatTyped
<1>15. b \in Seq(Char)
  BY <1>9, <1>13, <1>14, ConcatTyped
<1>16. c \in Seq(Char)
  BY <1>1, <1>13, <1>15, ConcatTyped
<1>17. c \o tail \in Seq(Char)
  BY <1>12, <1>16, ConcatTyped
<1> QED
  BY ONLY <1>5, <1>13, <1>17

\* No integer type has more values than a pointer.
LEMMA ValuesOf ==
    ASSUME NEW mod \in Modifiers
    PROVE  Values(mod) \in Nat \ {0} /\ Values(mod) % 2 = 0 /\ Values(mod) <= PtrValues
<1>1. PICK e, h, hh, l : e = <<>> /\ h = <<"h">> /\ hh = <<"h", "h">> /\ l = <<"l">>
  OBVIOUS
<1>2. mod \in {e, h, hh, l}
  BY <1>1 DEF Modifiers
<1>3. Values(mod) \in {IntValues, ShortValues, CharValues, LongValues}
  BY ONLY <1>1, <1>2 DEF Values
<1>4. \A v \in {IntValues, ShortValues, CharValues, LongValues} : v \in Nat \ {0} /\ v % 2 = 0
  BY ValuesAssumption
<1>5. \A v \in {IntValues, ShortValues, CharValues, LongValues} : v <= PtrValues
  <2>1. /\ CharValues \in Nat /\ ShortValues \in Nat /\ IntValues \in Nat /\ LongValues \in Nat
        /\ PtrValues \in Nat
    BY ValuesAssumption
  <2>2. CharValues <= ShortValues /\ ShortValues <= IntValues /\ IntValues <= LongValues
        /\ LongValues <= PtrValues
    BY ValuesAssumption
  <2> QED
    BY ONLY <2>1, <2>2
<1> QED
  BY <1>3, <1>4, <1>5

\* The number that is converted fits the widest type.
Converted(s, v) == IF s.conv = "p" THEN v % PtrValues
                 ELSE IF s.conv \in {"d", "i"} THEN Signed(v, Values(s.mod)) ELSE v % Values(s.mod)
\* A number without its sign.
Size(val) == IF val < 0 THEN -val ELSE val

\* What is converted fits the widest type, without its sign.
LEMMA NumberFits ==
    ASSUME NEW s, s.mod \in Modifiers, NEW v \in Int
    PROVE  /\ Converted(s, v) \in Int /\ Size(Converted(s, v)) \in Nat /\ Size(Converted(s, v)) < PtrValues
           /\ s.conv \notin {"d", "i"} => Converted(s, v) >= 0
<1>1. PICK values : values = Values(s.mod)
  OBVIOUS
<1>2. values \in Nat \ {0} /\ values % 2 = 0 /\ values <= PtrValues /\ PtrValues \in Nat \ {0}
  BY <1>1, ValuesOf, ValuesAssumption
<1>3. v % PtrValues \in 0 .. (PtrValues - 1) /\ v % values \in 0 .. (values - 1)
  BY <1>2, Modulo
<1>4. Signed(v, values) \in Int /\ Signed(v, values) < values /\ -Signed(v, values) < values
  BY <1>2, SignedFits
<1>5. PICK a, b, c : a = v % PtrValues /\ b = v % values /\ c = Signed(v, values)
  OBVIOUS
<1>6. a \in 0 .. (PtrValues - 1) /\ b \in 0 .. (values - 1) /\ c \in Int /\ c < values /\ -c < values
  BY ONLY <1>3, <1>4, <1>5
<1>7. Converted(s, v) = IF s.conv = "p" THEN a ELSE IF s.conv \in {"d", "i"} THEN c ELSE b
  BY ONLY <1>1, <1>5 DEF Converted
<1> QED
  BY ONLY <1>2, <1>6, <1>7 DEF Size

\* The digits that are converted, and a leading zero, fit the conversion buffer.
LEMMA ConvertTyped ==
    ASSUME NEW s, s.mod \in Modifiers, s.conv \in Integral \cup {"p"}, s.prec \in Nat,
           NEW v \in Int, NEW q, q = Convert(s, v)
    PROVE  Typed(q) /\ Len(q.chars) \in Nat /\ Len(q.chars) <= ConvSize
<1>1. PICK val : val = Converted(s, v)
  OBVIOUS
<1>2. val \in Int /\ Size(val) \in Nat /\ Size(val) < PtrValues
  BY <1>1, NumberFits
<1>3. PICK base, glyphs : base = Base(s.conv) /\ glyphs = IF s.conv = "X" THEN Upper ELSE Lower
  OBVIOUS
<1>4. base \in Bases /\ glyphs \in Glyphs
  BY <1>3 DEF Bases, Glyphs, Base
<1>5. PICK digits : digits = Digits(Size(val), base, glyphs)
  OBVIOUS
<1>6. digits \in Seq(Char) /\ Len(digits) \in Nat /\ Len(digits) + 1 <= ConvSize /\ ConvSize \in Nat
  BY <1>2, <1>4, <1>5, DigitsFit, ConvAssumption
<1>7. PICK nothing, alt : /\ nothing = (val = 0 /\ s.precOpt # "none" /\ s.prec = 0)
                          /\ alt = ("#" \in s.flags /\ s.conv \notin {"d", "i"})
  OBVIOUS
<1>8. q = [sign |-> IF s.conv \notin {"d", "i"} THEN <<>>
                    ELSE IF val < 0 THEN <<"-">>
                    ELSE IF "+" \in s.flags THEN <<"+">>
                    ELSE IF " " \in s.flags THEN <<" ">> ELSE <<>>,
           prefix |-> IF alt /\ val # 0 /\ Base(s.conv) = 16
                      THEN <<"0", IF s.conv = "X" THEN "X" ELSE "x">> ELSE <<>>,
           chars |-> IF nothing THEN <<>>
                     ELSE IF alt /\ val # 0 /\ s.conv = "o" THEN <<"0">> \o digits ELSE digits,
           prec |-> IF nothing /\ alt /\ s.conv = "o" THEN 1 ELSE s.prec,
           zero |-> val = 0]
  <2>1. val = IF s.conv = "p" THEN v % PtrValues
              ELSE IF Values(s.mod) = 0 THEN 0
              ELSE IF s.conv \in {"d", "i"} THEN Signed(v, Values(s.mod)) ELSE v % Values(s.mod)
    BY <1>1, ValuesOf DEF Converted
  <2>2. digits = Digits(IF val < 0 THEN -val ELSE val, Base(s.conv),
                        IF s.conv = "X" THEN Upper ELSE Lower)
    BY ONLY <1>3, <1>5 DEF Size
  <2> QED
    BY ONLY <1>7, <2>1, <2>2, q = Convert(s, v) DEF Convert
<1>9. PICK e, o, m, p, b, x, X : /\ e = <<>> /\ o = <<"0">> /\ m = <<"-">> /\ p = <<"+">> /\ b = <<" ">>
                                /\ x = <<"0", "x">> /\ X = <<"0", "X">>
  OBVIOUS
<1>10. /\ {"-", "+", " ", "0", "x", "X"} \subseteq Char
  BY CharAssumption DEF Syntax, FlagChars, Conversions, Integral
<1>11. e \in Seq(Char) /\ Len(e) = 0 /\ o \in Seq(Char) /\ Len(o) = 1
  BY ONLY <1>9, <1>10, EmptySeq, CharOne
<1>12. q.sign \in Seq(Char)
  <2>1. q.sign \in {e, m, p, b}
    BY ONLY <1>8, <1>9
  <2>2. "-" \in Char /\ "+" \in Char /\ " " \in Char
    BY <1>10
  <2>3. m \in Seq(Char) /\ p \in Seq(Char) /\ b \in Seq(Char)
    BY ONLY <1>9, <2>2, CharOne
  <2> QED
    BY ONLY <1>11, <2>1, <2>3
<1>13. q.prefix \in Seq(Char)
  <2>1. q.prefix \in {e, x, X}
    BY ONLY <1>8, <1>9
  <2>2. "0" \in Char /\ "x" \in Char /\ "X" \in Char
    BY <1>10
  <2>3. x \in Seq(Char) /\ X \in Seq(Char)
    BY ONLY <1>9, <2>2, CharTwo
  <2> QED
    BY ONLY <1>11, <2>1, <2>3
<1>14. PICK od : od = o \o digits
  OBVIOUS
<1>15. od \in Seq(Char) /\ Len(od) = 1 + Len(digits)
  <2>1. o \in Seq(Char) /\ digits \in Seq(Char)
    BY ONLY <1>6, <1>11
  <2>2. od \in Seq(Char) /\ Joint(od, o, digits)
    BY ONLY <2>1, <1>14, ConcatAt
  <2> QED
    BY ONLY <1>11, <2>2 DEF Joint
<1>16. q.chars \in {e, od, digits}
  BY ONLY <1>8, <1>9, <1>14
<1>17. q.prec \in Nat
  BY ONLY <1>8, s.prec \in Nat
<1>18. q.chars \in Seq(Char) /\ Len(q.chars) \in Nat /\ Len(q.chars) <= ConvSize
  <2>1. /\ e \in Seq(Char) /\ Len(e) \in Nat /\ Len(e) <= ConvSize
        /\ od \in Seq(Char) /\ Len(od) \in Nat /\ Len(od) <= ConvSize
        /\ digits \in Seq(Char) /\ Len(digits) \in Nat /\ Len(digits) <= ConvSize
    BY ONLY <1>6, <1>11, <1>15
  <2> QED
    BY ONLY <1>16, <2>1, Zenon
<1> QED
  BY <1>12, <1>13, <1>17, <1>18 DEF Typed

\* The fields of a directive with its arguments.
LEMMA FieldFields ==
    ASSUME NEW item, IsDirective(item), NEW s, s = FieldOf(item)
    PROVE  /\ s.conv = item.conv /\ s.mod = item.mod /\ s.mod \in Modifiers
           /\ s.width \in Nat /\ s.prec \in Nat
           /\ item.conv \in Conversions \ Floats
<1>1. item.width \in Int /\ item.prec \in Int
  BY CountsAre
<1>2. item.mod \in Modifiers /\ item.conv \in Conversions \ Floats
  BY DirectiveFields
<1>3. PtrDigits \in Nat
  BY ValuesAssumption
<1>4. /\ s.conv = item.conv /\ s.mod = item.mod
      /\ s.width = IF item.width = None THEN 0 ELSE IF item.width < 0 THEN -item.width ELSE item.width
      /\ s.prec = IF PrecGiven(item) THEN item.prec ELSE IF item.conv = "p" THEN PtrDigits ELSE 0
  BY ONLY s = FieldOf(item) DEF FieldOf
<1>5. s.width \in Nat
  BY ONLY <1>1, <1>4
<1>6. s.prec \in Nat
  BY ONLY <1>1, <1>3, <1>4 DEF PrecGiven
<1> QED
  BY <1>2, <1>4, <1>5, <1>6

\* Every argument that is passed for a directive is taken, and no other.
LEMMA ArgumentsTaken ==
    ASSUME NEW item, ~IsLiteral(item), IsDirective(item), NEW args, NEW k,
           Lies(args, k, Passes(item)), NEW s, s = FieldOf(item),
           NEW j, j = k + StarCount(SpecOf(item))
    PROVE  /\ j + Takes(s) = k + Len(Passes(item))
           /\ (IF Takes(s) = 1 THEN args[j + 1] ELSE 0) = Given(item)
<1>1. PICK w, p : w = (IF item.starWidth THEN 1 ELSE 0) /\ p = (IF item.starPrec THEN 1 ELSE 0)
  OBVIOUS
<1>2. PICK t : t = Passes(item)
  OBVIOUS
<1>3. /\ Len(t) = w + p + (IF item.conv = "%" THEN 0 ELSE 1)
      /\ item.conv \in {"c", "s"} => t[w + p + 1] = item.str
      /\ item.conv \notin {"%", "c", "s"} => t[w + p + 1] = item.val
  BY <1>1, <1>2, DirectivePasses
<1>4. s.conv = item.conv /\ s.mod \in Modifiers
  BY FieldFields
<1>5. Takes(s) = IF item.conv = "%" THEN 0 ELSE 1
  BY <1>4, ValuesOf DEF Takes
<1>6. item.starWidth \in BOOLEAN /\ item.starPrec \in BOOLEAN
  BY CountsAre
<1>7. StarCount(SpecOf(item)) = w + p
  <2>1. PICK sp : sp = SpecOf(item)
    OBVIOUS
  <2>2. (sp.widthOpt = "star" <=> item.starWidth) /\ (sp.precOpt = "star" <=> item.starPrec)
    BY ONLY <1>6, <2>1 DEF SpecOf
  <2>3. StarCount(sp) = w + p
    BY ONLY <1>1, <1>6, <2>2 DEF StarCount
  <2> QED
    BY <2>1, <2>3
<1>8. k \in Nat /\ \A i \in 1 .. Len(t) : args[k + i] = t[i]
  BY <1>2 DEF Lies
<1>9. w \in Nat /\ p \in Nat /\ j = k + (w + p)
  BY <1>1, <1>7
<1>10. j + Takes(s) = k + Len(Passes(item))
  BY ONLY <1>2, <1>3, <1>5, <1>8, <1>9
<1>11. CASE item.conv = "%"
  BY <1>5, <1>10, <1>11 DEF Given
<1>12. CASE item.conv # "%"
  <2>1. w + p + 1 \in 1 .. Len(t) /\ k + (w + p + 1) = j + 1
    BY ONLY <1>3, <1>8, <1>9, <1>12
  <2>2. args[j + 1] = t[w + p + 1]
    BY <1>8, <2>1
  <2>3. t[w + p + 1] = Given(item)
    BY ONLY <1>3, <1>12 DEF Given
  <2> QED
    BY <1>5, <1>10, <1>12, <2>2, <2>3
<1> QED
  BY <1>11, <1>12

\* The same for every conversion: only a string may be longer, and it is not copied.
LEMMA PayloadTyped ==
    ASSUME NEW item, ~IsLiteral(item), IsDirective(item), NEW s, s = FieldOf(item),
           NEW q, q = Payload(s, Given(item))
    PROVE  Typed(q) /\ Len(q.chars) \in Nat /\ (item.conv # "s" => Len(q.chars) <= ConvSize)
<1>1. /\ s.conv = item.conv /\ s.mod \in Modifiers /\ s.prec \in Nat
      /\ item.conv \in Conversions \ Floats
  BY FieldFields
<1>2. ASSUME NEW chars, chars \in Seq(Char), q = Plain(chars, s), item.conv # "s" => Len(chars) <= 1
      PROVE  Typed(q) /\ Len(q.chars) \in Nat /\ (item.conv # "s" => Len(q.chars) <= ConvSize)
  <2>1. ConvSize \in Nat /\ ConvSize >= 1
    <3>1. PICK zero, eight : zero = 0 /\ eight = 8
      OBVIOUS
    <3>2. zero \in Nat /\ zero < PtrValues /\ eight \in Bases /\ Lower \in Glyphs
      <4>1. PtrValues \in Nat \ {0}
        BY ValuesAssumption
      <4> QED
        BY <3>1, <4>1 DEF Bases, Glyphs
    <3>3. Len(Digits(zero, eight, Lower)) \in Nat /\ Len(Digits(zero, eight, Lower)) + 1 <= ConvSize
      BY <3>2, DigitsFit
    <3> QED
      BY <3>3, ConvAssumption
  <2>2. q.sign = <<>> /\ q.prefix = <<>> /\ q.chars = chars /\ q.prec = s.prec
    BY <1>2 DEF Plain
  <2>3. Len(chars) \in Nat
    BY <1>2, LenProperties
  <2>4. Typed(q)
    BY <1>1, <1>2, <2>2, EmptySeq DEF Typed
  <2> QED
    BY <1>2, <2>1, <2>2, <2>3, <2>4
<1>3. CASE item.conv = "%"
  <2>1. PICK p : p = <<"%">>
    OBVIOUS
  <2>2. "%" \in Char
    BY CharAssumption DEF Syntax, Conversions
  <2>3. p \in Seq(Char) /\ Len(p) = 1
    BY ONLY <2>1, <2>2, CharOne
  <2>4. q = Plain(p, s)
    BY <1>1, <1>3, <2>1 DEF Payload
  <2>5. p \in Seq(Char) /\ (item.conv # "s" => Len(p) <= 1)
    BY ONLY <2>3
  <2> QED
    BY <1>2, <2>4, <2>5
<1>4. CASE item.conv = "c"
  <2>1. item.str \in Seq(Char) /\ Len(item.str) <= 1
    BY <1>4 DEF IsDirective
  <2>2. q = Plain(item.str, s)
    BY <1>1, <1>4 DEF Payload, Given
  <2> QED
    BY <1>2, <2>1, <2>2
<1>5. CASE item.conv = "s"
  <2>1. item.str \in Seq(Char) \cup {NullString}
    BY <1>5 DEF IsDirective
  <2>2. PICK v : v = item.str
    OBVIOUS
  <2>3. PICK chars : chars = IF v = NullString THEN <<>>
                             ELSE IF s.precOpt = "none" \/ Len(v) <= s.prec THEN v
                             ELSE SubSeq(v, 1, s.prec)
    OBVIOUS
  <2>4. q = Plain(chars, s)
    BY <1>1, <1>5, <2>2, <2>3 DEF Payload, Given
  <2>5. chars \in Seq(Char)
    <3>1. CASE v = NullString
      BY <2>3, <3>1, EmptySeq
    <3>2. CASE v # NullString
      <4>1. v \in Seq(Char) /\ Len(v) \in Nat
        BY <2>1, <2>2, <3>2, LenProperties
      <4>2. ~(Len(v) <= s.prec) => SubSeq(v, 1, s.prec) \in Seq(Char)
        BY <1>1, <4>1
      <4> QED
        BY ONLY <2>3, <3>2, <4>1, <4>2
    <3> QED
      BY <3>1, <3>2
  <2> QED
    BY <1>2, <1>5, <2>4, <2>5
<1>6. CASE item.conv \notin {"%", "c", "s"}
  <2>1. item.conv \in Integral \cup {"p"}
    BY <1>1, <1>6 DEF Conversions, Floats
  <2>2. Given(item) = item.val /\ item.val \in Int
    BY <1>6 DEF Given, IsDirective
  <2>3. q = Convert(s, item.val)
    BY <1>1, <1>6, <2>2 DEF Payload
  <2>4. Typed(q) /\ Len(q.chars) \in Nat /\ Len(q.chars) <= ConvSize
    BY <1>1, <2>1, <2>2, <2>3, ConvertTyped
  <2> QED
    BY <2>4
<1> QED
  BY <1>3, <1>4, <1>5, <1>6

-----------------------------------------------------------------------------
(* The buffer for the text *)

\* A sequence is the first m characters of another.
Starts(u, t, m) == /\ u \in Seq(Char) /\ Len(u) = m /\ m <= Len(t)
                   /\ \A i \in 1 .. m : u[i] = t[i]

\* There is only one such sequence.
LEMMA StartsOnce ==
    ASSUME NEW u, NEW w, NEW t, NEW m \in Nat, Starts(u, t, m), Starts(w, t, m) PROVE u = w
<1>1. u \in Seq(Char) /\ w \in Seq(Char) /\ Len(u) = Len(w) /\ \A i \in 1 .. Len(u) : u[i] = w[i]
  BY DEF Starts
<1> QED
  BY <1>1, SeqEqual

\* SubSeq takes it.
LEMMA PrefixStarts ==
    ASSUME NEW t \in Seq(Char), NEW m \in 0 .. Len(t), NEW u, u = SubSeq(t, 1, m) PROVE Starts(u, t, m)
<1>1. Len(t) \in Nat /\ m \in Int /\ 1 \in Int
  BY LenProperties
<1>2. \A i \in 1 .. m : t[i] \in Char
  BY <1>1, ElementOfSeq
<1>3. /\ u \in Seq(Char) /\ Len(u) = IF 1 <= m THEN m - 1 + 1 ELSE 0
      /\ \A i \in 1 .. m - 1 + 1 : u[i] = t[1 + i - 1]
  BY <1>1, <1>2, SubSeqProperties
<1>4. Len(u) = m /\ m - 1 + 1 = m /\ \A i \in 1 .. m : 1 + i - 1 = i
  BY <1>1, <1>3
<1> QED
  BY <1>1, <1>3, <1>4 DEF Starts

\* The start of a start.
LEMMA StartsLess ==
    ASSUME NEW u, NEW t, NEW m \in Nat, Starts(u, t, m), NEW k \in 0 .. m, NEW w, Starts(w, u, k)
    PROVE  Starts(w, t, k)
<1>1. \A i \in 1 .. k : i \in 1 .. m
  OBVIOUS
<1>2. t = t /\ Len(u) = m /\ m <= Len(t) /\ k <= m
  BY DEF Starts
<1>3. k <= Len(t)
  <2>1. CASE k = m
    BY <1>2, <2>1
  <2> QED
    BY <1>2, SMT
<1> QED
  BY <1>1, <1>3 DEF Starts

\* What fits of a text.
KeptOf(t) == IF Len(t) <= BufferSize THEN t ELSE SubSeq(t, 1, BufferSize)
\* The smaller of two numbers.
Least(a, b) == IF a <= b THEN a ELSE b

\* The smaller of two numbers.
LEMMA MinTwo == ASSUME NEW a \in Int, NEW b \in Int PROVE Min({a, b}) = Least(a, b)
<1>1. PICK m : m = IF a <= b THEN a ELSE b
  OBVIOUS
<1>2. m \in {a, b} /\ \A y \in {a, b} : m <= y
  BY <1>1
<1>3. \A x \in {a, b} : (\A y \in {a, b} : x <= y) => x = m
  BY <1>1
<1> QED
  BY <1>1, <1>2, <1>3 DEF Min, Least

\* What fits is the start of the text.
LEMMA KeptStarts ==
    ASSUME NEW t \in Seq(Char) PROVE Starts(KeptOf(t), t, Least(Len(t), BufferSize))
<1>1. Len(t) \in Nat /\ BufferSize \in Nat
  BY LenProperties, SizeAssumption
<1>2. CASE Len(t) <= BufferSize
  BY <1>1, <1>2 DEF Starts, Least, KeptOf
<1>3. CASE ~(Len(t) <= BufferSize)
  <2>1. BufferSize \in 0 .. Len(t) /\ KeptOf(t) = SubSeq(t, 1, BufferSize)
    BY <1>1, <1>3 DEF KeptOf
  <2>2. Least(Len(t), BufferSize) = BufferSize
    BY <1>3 DEF Least
  <2> QED
    BY <2>1, <2>2, PrefixStarts
<1> QED
  BY <1>2, <1>3

\* What npf_bufputc drops is what does not fit of the whole.
LEMMA KeptPut ==
    ASSUME NEW t \in Seq(Char), NEW chars \in Seq(Char), NEW u, u = t \o chars
    PROVE  Bufputc(KeptOf(t), chars) = KeptOf(u)
<1>1. Len(t) \in Nat /\ Len(chars) \in Nat /\ BufferSize \in Nat
  BY LenProperties, SizeAssumption
<1>2. u \in Seq(Char) /\ Joint(u, t, chars)
  BY ConcatAt
<1>3. PICK w : w = KeptOf(t) \o chars
  OBVIOUS
<1>4. CASE Len(t) <= BufferSize
  BY <1>4 DEF Bufputc, KeptOf
<1>5. CASE ~(Len(t) <= BufferSize)
  <2>1. PICK s : s = KeptOf(t)
    OBVIOUS
  <2>2. s \in Seq(Char) /\ Len(s) = BufferSize /\ \A i \in 1 .. BufferSize : s[i] = t[i]
    BY <1>1, <1>5, <2>1, KeptStarts DEF Starts, Least
  <2>3. w \in Seq(Char) /\ Joint(w, s, chars)
    BY <1>3, <2>1, <2>2, ConcatAt
  <2>4. Len(w) = BufferSize + Len(chars) /\ \A i \in 1 .. BufferSize : w[i] = t[i]
    BY <2>2, <2>3 DEF Joint
  <2>5. Len(u) = Len(t) + Len(chars) /\ \A i \in 1 .. BufferSize : u[i] = t[i]
    <3>1. \A i \in 1 .. BufferSize : i \in 1 .. Len(t)
      BY ONLY <1>1, <1>5
    <3> QED
      BY <1>2, <3>1 DEF Joint
  <2>6. PICK b : b = Bufputc(s, chars)
    OBVIOUS
  <2>7. b = IF Len(w) <= BufferSize THEN w ELSE SubSeq(w, 1, BufferSize)
    BY <1>3, <2>1, <2>6 DEF Bufputc
  <2>8. b = KeptOf(w)
    BY <2>7 DEF KeptOf
  <2>9. Least(Len(w), BufferSize) = BufferSize /\ Least(Len(u), BufferSize) = BufferSize
    BY ONLY <1>1, <1>5, <2>4, <2>5 DEF Least
  <2>10. Starts(b, w, BufferSize) /\ Starts(KeptOf(u), u, BufferSize)
    BY <1>2, <2>3, <2>8, <2>9, KeptStarts
  <2>11. Starts(b, u, BufferSize)
    <3>1. \A i \in 1 .. BufferSize : w[i] = u[i]
      BY <2>4, <2>5
    <3>2. BufferSize <= Len(u)
      BY ONLY <1>1, <1>5, <2>5
    <3> QED
      BY <2>10, <3>1, <3>2 DEF Starts
  <2>12. b = KeptOf(u)
    BY <1>1, <2>10, <2>11, StartsOnce
  <2> QED
    BY <2>1, <2>6, <2>12
<1> QED
  BY <1>4, <1>5

\* The text with the NUL that npf_vsnprintf writes.
Ended(t) == SubSeq(t, 1, Least(Len(t), BufferSize - 1)) \o <<Nul>>

\* The NUL ends the text inside the buffer, and is the only one.
LEMMA EndedText ==
    ASSUME NEW t \in Seq(Char)
    PROVE  /\ SubSeq(KeptOf(t), 1, Least(Len(t), BufferSize - 1)) \o <<Nul>> = Ended(t)
           /\ Len(Ended(t)) \in Nat /\ Len(Ended(t)) <= BufferSize
           /\ Ended(t)[Len(Ended(t))] = Nul /\ Ended(t) # <<>>
           /\ \A i \in 1 .. (Len(Ended(t)) - 1) : Ended(t)[i] # Nul
<1>1. Len(t) \in Nat /\ BufferSize \in Nat \ {0}
  BY LenProperties, SizeAssumption
<1>2. PICK m, n : m = Least(Len(t), BufferSize - 1) /\ n = Least(Len(t), BufferSize)
  OBVIOUS
<1>3. m \in 0 .. n /\ n \in Nat /\ m \in 0 .. Len(t) /\ m + 1 <= BufferSize
  BY ONLY <1>1, <1>2 DEF Least
<1>4. Starts(KeptOf(t), t, n)
  BY <1>2, KeptStarts
<1>5. PICK u, w, k : u = SubSeq(t, 1, m) /\ w = SubSeq(KeptOf(t), 1, m) /\ k = KeptOf(t)
  OBVIOUS
<1>6. Starts(u, t, m)
  BY <1>3, <1>5, PrefixStarts
<1>7. Starts(w, t, m)
  <2>1. k \in Seq(Char) /\ Len(k) = n
    BY <1>4, <1>5 DEF Starts
  <2>2. m \in 0 .. Len(k)
    BY <1>3, <2>1
  <2>3. Starts(w, k, m)
    BY <1>5, <2>1, <2>2, PrefixStarts
  <2> QED
    BY <1>3, <1>4, <1>5, <2>3, StartsLess
<1>8. u = w
  BY <1>3, <1>6, <1>7, StartsOnce
<1>9. PICK e, z : e = u \o z /\ z = <<Nul>>
  OBVIOUS
<1>10. e = Ended(t)
  BY <1>2, <1>5, <1>9 DEF Ended
<1>11. Joint(e, u, z)
  <2>1. u \in Seq(Char)
    BY <1>6 DEF Starts
  <2>2. u \in Seq(Char \cup {Nul})
    BY <2>1, SeqMonotonic
  <2>3. Nul \in Char \cup {Nul}
    OBVIOUS
  <2>4. z \in Seq(Char \cup {Nul})
    BY <1>9, <2>3, CharOne
  <2> QED
    BY <1>9, <2>2, <2>4, ConcatAt
<1>12. Len(z) = 1 /\ z[1] = Nul /\ Len(u) = m
  BY <1>6, <1>9 DEF Starts
<1>13. Len(e) = m + 1 /\ e[m + 1] = Nul /\ \A i \in 1 .. m : e[i] = u[i]
  <2>1. 1 \in 1 .. Len(z)
    BY <1>12
  <2> QED
    BY <1>11, <1>12, <2>1 DEF Joint
<1>14. \A i \in 1 .. m : u[i] # Nul
  BY <1>6, <1>12, CharAssumption, ElementOfSeq DEF Starts
<1>15. e # <<>>
  <2>1. Len(e) # 0
    BY <1>3, <1>13
  <2> QED
    BY <2>1
<1>16. Len(e) \in Nat /\ Len(e) <= BufferSize /\ e[Len(e)] = Nul
  BY <1>1, <1>3, <1>13
<1>17. \A i \in 1 .. (Len(e) - 1) : e[i] # Nul
  <2>1. Len(e) - 1 = m
    BY <1>3, <1>13
  <2> QED
    BY <1>13, <1>14, <2>1
<1>18. SubSeq(KeptOf(t), 1, Least(Len(t), BufferSize - 1)) \o <<Nul>> = e
  BY <1>2, <1>5, <1>8, <1>9
<1> QED
  BY <1>10, <1>15, <1>16, <1>17, <1>18

\* A text that is not ended yet does not end with a NUL.
LEMMA KeptNotEnded ==
    ASSUME NEW t \in Seq(Char), NEW b, b = KeptOf(t)
    PROVE  /\ ~(b # <<>> /\ b[Len(b)] = Nul) /\ Len(b) \in Nat /\ Len(b) <= BufferSize
<1>1. Len(t) \in Nat /\ BufferSize \in Nat
  BY LenProperties, SizeAssumption
<1>2. b \in Seq(Char) /\ Len(b) = Least(Len(t), BufferSize)
  BY KeptStarts DEF Starts
<1>3. Len(b) \in Nat /\ Len(b) <= BufferSize
  BY ONLY <1>1, <1>2 DEF Least
<1>4. ASSUME b # <<>> PROVE b[Len(b)] # Nul
  <2>1. Len(b) \in 1 .. Len(b)
    BY <1>2, <1>4, EmptySeq
  <2>2. b[Len(b)] \in Char
    BY <1>2, <2>1, ElementOfSeq
  <2> QED
    BY <2>2, CharAssumption
<1> QED
  BY <1>3, <1>4

-----------------------------------------------------------------------------
(* What is printed *)

\* What an item prints.
Printed(item) ==
    IF IsLiteral(item) THEN <<item.lit>>
    ELSE Layout(FieldOf(item), Payload(FieldOf(item), Given(item)))
\* What the items of a request print, and the text of the first k of them.
Prints(r) == [i \in 1 .. Len(r) |-> Printed(r[i])]
Outcome(r, k) == Joined(Prints(r), k)

\* What an item prints is text.
LEMMA PrintedTyped ==
    ASSUME NEW r \in Requests, NEW i \in 1 .. Len(r) PROVE Printed(r[i]) \in Seq(Char)
<1>1. PICK item : item = r[i]
  OBVIOUS
<1>2. IF IsLiteral(item) THEN item.lit \in Char \ {"%"} ELSE IsDirective(item)
  BY <1>1, RequestItems
<1>3. CASE IsLiteral(item)
  <2>1. PICK c : c = item.lit
    OBVIOUS
  <2>2. c \in Char
    BY <1>2, <1>3, <2>1
  <2>3. Printed(item) = <<c>>
    BY <1>3, <2>1 DEF Printed
  <2> QED
    BY <1>1, <2>2, <2>3, CharOne
<1>4. CASE ~IsLiteral(item)
  <2>1. IsDirective(item)
    BY <1>2, <1>4
  <2>2. PICK s, q : s = FieldOf(item) /\ q = Payload(s, Given(item))
    OBVIOUS
  <2>3. s.width \in Nat /\ Typed(q)
    BY <1>4, <2>1, <2>2, FieldFields, PayloadTyped
  <2>4. Printed(item) = Layout(s, q)
    BY <1>4, <2>2 DEF Printed
  <2> QED
    BY <1>1, <2>3, <2>4, LayoutTyped
<1> QED
  BY <1>3, <1>4

\* What the items print, one behind the other.
LEMMA OutcomeParts ==
    ASSUME NEW r \in Requests
    PROVE  /\ Outcome(r, 0) = <<>>
           /\ \A k \in 0 .. Len(r) : Outcome(r, k) \in Seq(Char)
           /\ \A k \in 0 .. Len(r) : k < Len(r) =>
                Printed(r[k + 1]) \in Seq(Char) /\ Outcome(r, k + 1) = Outcome(r, k) \o Printed(r[k + 1])
<1>1. PICK parts : parts = Prints(r)
  OBVIOUS
<1>2. Len(r) \in Nat
  BY RequestItems
<1>3. parts \in Seq(Seq(Char)) /\ Len(parts) = Len(r) /\ \A i \in 1 .. Len(r) : parts[i] = Printed(r[i])
  BY <1>1, <1>2, PrintedTyped DEF Prints
<1>4. Joined(parts, 0) = <<>> /\ \A k \in 1 .. Len(parts) : Joined(parts, k) = Joined(parts, k - 1) \o parts[k]
  BY <1>2, <1>3, JoinedNext
<1>5. \A k \in 0 .. Len(r) : Joined(parts, k) \in Seq(Char)
  BY <1>3, JoinedType
<1>6. ASSUME NEW k \in 0 .. Len(r), k < Len(r)
      PROVE  /\ Printed(r[k + 1]) \in Seq(Char)
             /\ Joined(parts, k + 1) = Joined(parts, k) \o Printed(r[k + 1])
  <2>1. PICK m : m = k + 1
    OBVIOUS
  <2>2. m \in 1 .. Len(r) /\ m - 1 = k
    BY <1>2, <1>6, <2>1
  <2>3. Joined(parts, m) = Joined(parts, m - 1) \o parts[m] /\ parts[m] = Printed(r[m])
    BY <1>3, <1>4, <2>2
  <2>4. Printed(r[m]) \in Seq(Char)
    BY <2>2, PrintedTyped
  <2> QED
    BY <2>1, <2>2, <2>3, <2>4
<1> QED
  BY <1>1, <1>4, <1>5, <1>6 DEF Outcome

-----------------------------------------------------------------------------
(* The format *)

\* The format is the start of what was spelled, as far as a format may be long.
LEMMA FormatIs ==
    ASSUME NEW r \in Requests, NEW all, all = Spelled(r, Len(r)), NEW f, f = Cut(all)
    PROVE  /\ f \in Seq(Char) /\ Len(f) \in Nat /\ DOMAIN f = 1 .. Len(f) /\ Len(f) <= FormatMax
           /\ Len(f) <= Len(all) /\ Len(all) \in Nat
           /\ Len(f) < Len(all) => Len(f) = FormatMax
           /\ \A i \in 1 .. Len(f) : f[i] = all[i]
<1>1. Len(r) \in Nat /\ Len(r) \in 0 .. Len(r)
  BY RequestItems
<1>2. all \in Seq(Char) /\ Len(all) \in Nat /\ FormatMax \in Nat
  BY <1>1, SpelledParts, SizeAssumption
<1>3. CASE Len(all) <= FormatMax
  <2>1. f = all
    BY <1>3 DEF Cut
  <2> QED
    BY <1>2, <1>3, <2>1, LenProperties
<1>4. CASE ~(Len(all) <= FormatMax)
  <2>1. f = SubSeq(all, 1, FormatMax) /\ FormatMax \in 0 .. Len(all)
    BY <1>2, <1>4 DEF Cut
  <2>2. Starts(f, all, FormatMax)
    BY <1>2, <2>1, PrefixStarts
  <2>3. f \in Seq(Char) /\ Len(f) = FormatMax /\ FormatMax <= Len(all)
        /\ \A i \in 1 .. FormatMax : f[i] = all[i]
    BY <2>2 DEF Starts
  <2>4. DOMAIN f = 1 .. Len(f)
    BY <2>3, LenProperties
  <2> QED
    BY <1>2, <2>3, <2>4
<1> QED
  BY <1>3, <1>4

\* The next item lies in the format as a whole, or the format ends within it.
LEMMA ItemInFormat ==
    ASSUME NEW r \in Requests, NEW f, f = Cut(Spelled(r, Len(r))),
           NEW k \in 0 .. Len(r), k < Len(r), NEW o, o = Len(Spelled(r, k)), o < Len(f),
           NEW item, item = r[k + 1]
    PROVE  /\ o \in Nat /\ At(f, o + 1) = Spell(item)[1] /\ o + 1 \in 1 .. Len(f)
           /\ IsLiteral(item) => item.lit \in Char \ {"%"} /\ Lies(f, o, Spell(item)) /\ Len(Spell(item)) = 1
                                 /\ At(f, o + 1) = item.lit
           /\ ~IsLiteral(item) => /\ IsDirective(item) /\ At(f, o + 1) = "%"
                                  /\ Directed(f, o, item) \/ Stump(f, o, item)
<1>1. PICK all, s : all = Spelled(r, Len(r)) /\ s = Spell(item)
  OBVIOUS
<1>2. /\ f \in Seq(Char) /\ Len(f) \in Nat /\ DOMAIN f = 1 .. Len(f) /\ Len(f) <= Len(all)
      /\ \A i \in 1 .. Len(f) : f[i] = all[i]
  BY <1>1, FormatIs
<1>3. k + 1 \in 1 .. Len(r)
  BY RequestItems
<1>4. IF IsLiteral(item) THEN item.lit \in Char \ {"%"} ELSE IsDirective(item)
  BY <1>3, RequestItems
<1>5. Lies(all, o, s)
  BY <1>1, ItemLies
<1>6. o \in Nat /\ Len(s) \in Nat /\ \A i \in 1 .. Len(s) : all[o + i] = s[i]
  BY <1>5 DEF Lies
<1>7. Len(s) >= 1
  <2>1. CASE IsLiteral(item)
    BY <1>1, <1>4, <2>1, LiteralSpelled
  <2>2. CASE ~IsLiteral(item)
    <3>1. Len(s) = DirectiveEnd(0, item)
      BY <1>1, <1>4, <2>2, DirectiveSpelled
    <3>2. Len(item.flags) \in Nat /\ Len(WidthOf(item)) \in Nat /\ Len(PrecOf(item)) \in Nat /\ Len(item.mod) \in Nat
      BY <1>4, <2>2, DirectiveFields
    <3>3. PICK a, b, c, d : a = Len(item.flags) /\ b = Len(WidthOf(item)) /\ c = Len(PrecOf(item)) /\ d = Len(item.mod)
      OBVIOUS
    <3>4. DirectiveEnd(0, item) = 0 + 2 + a + b + c + d
      BY <3>3 DEF DirectiveEnd, AfterPrec, AfterWidth, AfterFlags
    <3>5. a \in Nat /\ b \in Nat /\ c \in Nat /\ d \in Nat
      BY ONLY <3>2, <3>3
    <3>6. DirectiveEnd(0, item) >= 1
      BY ONLY <3>4, <3>5
    <3> QED
      BY ONLY <3>1, <3>6
  <2> QED
    BY <2>1, <2>2
<1>8. o + 1 \in 1 .. Len(f) /\ 1 \in 1 .. Len(s)
  BY <1>2, <1>6, <1>7
<1>9. At(f, o + 1) = s[1]
  BY <1>2, <1>6, <1>8 DEF At
<1>10. o + Len(s) <= Len(f) => Lies(f, o, s)
  <2> SUFFICES ASSUME o + Len(s) <= Len(f) PROVE Lies(f, o, s)
    OBVIOUS
  <2>1. ASSUME NEW i \in 1 .. Len(s) PROVE f[o + i] = s[i]
    <3>1. o + i \in 1 .. Len(f)
      BY <1>2, <1>6
    <3> QED
      BY <1>2, <1>6, <3>1
  <2> QED
    BY <1>6, <2>1 DEF Lies
<1>11. CASE IsLiteral(item)
  <2>1. item.lit \in Char \ {"%"}
    BY <1>4, <1>11
  <2>2. Len(s) = 1 /\ s[1] = item.lit
    BY <1>1, <1>11, <2>1, LiteralSpelled
  <2>3. Lies(f, o, s)
    BY <1>2, <1>6, <1>8, <1>10, <2>2
  <2> QED
    BY <1>1, <1>6, <1>8, <1>9, <1>11, <2>1, <2>2, <2>3
<1>12. CASE ~IsLiteral(item)
  <2>1. IsDirective(item)
    BY <1>4, <1>12
  <2>2. s[1] = "%"
    <3>1. Lies(s, 0, <<"%">>)
      BY <1>1, <1>12, <2>1, DirectiveSpelled
    <3>2. PICK p : p = <<"%">>
      OBVIOUS
    <3>3. Len(p) = 1 /\ p[1] = "%"
      BY ONLY <3>2
    <3>4. 1 \in 1 .. Len(p) /\ \A i \in 1 .. Len(p) : s[0 + i] = p[i]
      BY <3>1, <3>2, <3>3 DEF Lies
    <3> QED
      BY <3>3, <3>4
  <2>3. CASE o + Len(s) <= Len(f)
    BY <1>1, <1>2, <1>6, <1>8, <1>9, <1>10, <1>12, <2>1, <2>2, <2>3 DEF Directed
  <2>4. CASE ~(o + Len(s) <= Len(f))
    <3>1. ASSUME NEW i \in 1 .. (Len(f) - o) PROVE f[o + i] = s[i]
      <4>1. o + i \in 1 .. Len(f) /\ i \in 1 .. Len(s)
        BY <1>2, <1>6, <2>4
      <4> QED
        BY <1>2, <1>6, <4>1
    <3>2. Len(f) < o + Len(s)
      BY <1>2, <1>6, <2>4
    <3>3. Stump(f, o, item)
      BY <1>1, <1>2, <1>6, <1>12, <2>1, <3>1, <3>2 DEF Stump
    <3> QED
      BY <1>1, <1>6, <1>8, <1>9, <1>12, <2>1, <2>2, <3>3
  <2> QED
    BY <2>3, <2>4
<1> QED
  BY <1>11, <1>12

-----------------------------------------------------------------------------
(* The inductive invariant *)

\* The first k items are printed and the next one follows; or the part of it that is
\* left of the format is being printed; or it has been read.
Between(k) ==
    /\ fs = NoSpec /\ cur = Len(Spelled(request, k)) + 1
    /\ text = Outcome(request, k)
Within(k) ==
    /\ k < Len(request) /\ fs = NoSpec
    /\ Stump(format, Len(Spelled(request, k)), request[k + 1])
    /\ cur \in (Len(Spelled(request, k)) + 2) .. (Len(format) + 1)
    /\ text = Outcome(request, k) \o SubSeq(format, Len(Spelled(request, k)) + 1, cur - 1)
Read(k) ==
    /\ k < Len(request) /\ ~IsLiteral(request[k + 1])
    /\ fs = SpecOf(request[k + 1])
    /\ cur = Len(Spelled(request, k + 1)) + 1 /\ cur <= Len(format) + 1
    /\ text = Outcome(request, k)
Reached(k) ==
    /\ arg = Len(Passed(request, k)) /\ Len(Spelled(request, k)) <= Len(format)
    /\ Between(k) \/ Within(k) \/ Read(k)

\* The inductive invariant: the buffer holds what fits of the text, with or without its NUL, and
\* the text is what the items read so far print.
PrintInv ==
    /\ request \in Requests /\ format = Cut(Spelled(request, Len(request)))
    /\ text \in Seq(Char) /\ count = Len(text)
    /\ conv \in Nat /\ conv <= ConvSize
    /\ \/ buffer = KeptOf(text)
       \/ buffer = Ended(text) /\ fs = NoSpec /\ cur = Len(format) + 1
    /\ \E k \in 0 .. Len(request) : Reached(k)

\* A buffer that was ended ends with a NUL.
LEMMA EndedIsTerminated ==
    ASSUME text \in Seq(Char), buffer = Ended(text) PROVE Terminated
  BY EndedText DEF Terminated

\* Characters that are put are counted, and what fits of them is kept.
LEMMA PutKeeps ==
    ASSUME text \in Seq(Char), count = Len(text), buffer = KeptOf(text),
           NEW chars \in Seq(Char), Put(chars)
    PROVE  /\ text' = text \o chars /\ text' \in Seq(Char) /\ count' = Len(text')
           /\ buffer' = KeptOf(text')
<1>1. text' = text \o chars /\ buffer' = Bufputc(buffer, chars) /\ count' = count + Len(chars)
  BY DEF Put
<1>2. text' \in Seq(Char) /\ Joint(text', text, chars)
  BY <1>1, ConcatAt
<1>3. count' = Len(text')
  BY <1>1, <1>2 DEF Joint
<1>4. buffer' = KeptOf(text')
  BY <1>1, KeptPut
<1> QED
  BY <1>1, <1>2, <1>3, <1>4

\* A directive that was read is one.
LEMMA SpecIsOne == ASSUME NEW item, IsDirective(item) PROVE SpecOf(item) # NoSpec
<1>1. SpecOf(item).conv = item.conv
  BY DEF SpecOf
<1>2. NoSpec.conv = Nul
  BY DEF NoSpec
<1>3. item.conv \in Conversions
  BY DirectiveFields
<1> QED
  BY <1>1, <1>2, <1>3 DEF Nul, Conversions, Integral, Floats

\* Where the print is, in numbers.
LEMMA PrintPlaces ==
    ASSUME PrintInv, NEW k \in 0 .. Len(request), NEW o, o = Len(Spelled(request, k))
    PROVE  /\ request \in Requests /\ Len(request) \in Nat
           /\ format \in Seq(Char) /\ Len(format) \in Nat /\ DOMAIN format = 1 .. Len(format)
           /\ o \in Nat /\ Outcome(request, k) \in Seq(Char)
           /\ o < Len(format) => k < Len(request)
           /\ k < Len(request) => /\ k + 1 \in 0 .. Len(request)
                                  /\ ~IsLiteral(request[k + 1]) => IsDirective(request[k + 1])
<1>1. request \in Requests /\ format = Cut(Spelled(request, Len(request)))
  BY DEF PrintInv
<1>2. Len(request) \in Nat
  BY <1>1, RequestItems
<1>3. /\ format \in Seq(Char) /\ Len(format) \in Nat /\ DOMAIN format = 1 .. Len(format)
      /\ Len(format) <= Len(Spelled(request, Len(request)))
  BY <1>1, FormatIs
<1>4. o \in Nat /\ Outcome(request, k) \in Seq(Char)
  BY <1>1, SpelledParts, OutcomeParts
<1>5. o < Len(format) => k < Len(request)
  <2> SUFFICES ASSUME o < Len(format), ~(k < Len(request)) PROVE FALSE
    OBVIOUS
  <2>1. k = Len(request)
    BY <1>2
  <2>2. Len(format) <= o
    BY <1>3, <2>1
  <2> QED
    BY <1>3, <1>4, <2>2
<1>6. ASSUME k < Len(request) PROVE k + 1 \in 1 .. Len(request) /\ k + 1 \in 0 .. Len(request)
  BY <1>2, <1>6
<1>7. ASSUME k < Len(request), ~IsLiteral(request[k + 1]) PROVE IsDirective(request[k + 1])
  BY <1>1, <1>6, <1>7, RequestItems
<1> QED
  BY <1>1, <1>2, <1>3, <1>4, <1>5, <1>6, <1>7

\* A call that has just started.
LEMMA InitPrint == PrintInit => PrintInv
<1> SUFFICES ASSUME PrintInit PROVE PrintInv
  OBVIOUS
<1>1. /\ request \in Requests /\ format = Cut(Spelled(request, Len(request)))
      /\ cur = 1 /\ fs = NoSpec /\ arg = 0 /\ count = 0 /\ conv = 0 /\ buffer = <<>> /\ text = <<>>
  BY DEF PrintInit
<1>2. Len(request) \in Nat /\ 0 \in 0 .. Len(request)
  BY <1>1, RequestItems
<1>3. text \in Seq(Char) /\ Len(text) = 0
  BY <1>1, EmptySeq
<1>4. buffer = KeptOf(text)
  BY <1>1, <1>3, SizeAssumption DEF KeptOf
<1>5. Spelled(request, 0) = <<>> /\ Passed(request, 0) = <<>> /\ Outcome(request, 0) = <<>>
  BY <1>1, SpelledParts, OutcomeParts
<1>6. Len(format) \in Nat
  BY <1>1, FormatIs
<1>7. Len(Spelled(request, 0)) = 0 /\ Len(Passed(request, 0)) = 0
  BY <1>5
<1>8. Reached(0)
  BY <1>1, <1>5, <1>6, <1>7 DEF Reached, Between
<1>9. conv \in Nat /\ conv <= ConvSize
  BY <1>1, ConvAssumption
<1>10. count = Len(text)
  BY <1>1, <1>3
<1> QED
  BY <1>1, <1>2, <1>3, <1>4, <1>8, <1>9, <1>10 DEF PrintInv

\* A step that puts characters keeps the invariant when it reaches a next place.
LEMMA PutReaches ==
    ASSUME PrintInv, NEW chars \in Seq(Char), buffer = KeptOf(text), Put(chars),
           UNCHANGED <<request, format>>, conv' \in Nat, conv' <= ConvSize,
           NEW k \in 0 .. Len(request), Reached(k)'
    PROVE  PrintInv'
<1>1. /\ text' \in Seq(Char) /\ count' = Len(text') /\ buffer' = KeptOf(text')
  BY PutKeeps DEF PrintInv
<1> QED
  BY <1>1 DEF PrintInv

\* npf_vpprintf puts a character of the format: a literal one, or one of a directive that is cut.
LEMMA PutCharKeeps == ASSUME PrintInv, PutChar PROVE PrintInv'
<1>1. /\ fs = NoSpec /\ At(format, cur) \notin {Nul, "%"} /\ ~Terminated
      /\ Put(<<At(format, cur)>>) /\ cur' = cur + 1
      /\ UNCHANGED <<request, format, fs, arg, conv>>
  BY DEF PutChar
<1>2. buffer = KeptOf(text)
  BY <1>1, EndedIsTerminated DEF PrintInv
<1>3. PICK k \in 0 .. Len(request) : Reached(k)
  BY DEF PrintInv
<1>4. PICK o, item : o = Len(Spelled(request, k)) /\ item = request[k + 1]
  OBVIOUS
<1>5. /\ request \in Requests /\ Len(request) \in Nat
      /\ format \in Seq(Char) /\ Len(format) \in Nat /\ DOMAIN format = 1 .. Len(format)
      /\ o \in Nat /\ Outcome(request, k) \in Seq(Char)
      /\ o < Len(format) => k < Len(request)
      /\ k < Len(request) => /\ k + 1 \in 0 .. Len(request)
                             /\ ~IsLiteral(item) => IsDirective(item)
  BY <1>4, PrintPlaces
<1>6. ~Read(k)
  BY <1>1, <1>4, <1>5, SpecIsOne DEF Read
<1>7. At(format, cur) # Nul /\ arg = Len(Passed(request, k)) /\ o <= Len(format)
  BY <1>1, <1>3, <1>4 DEF Reached
<1>8. PICK ch : ch = At(format, cur)
  OBVIOUS
<1>9. conv' \in Nat /\ conv' <= ConvSize /\ format = Cut(Spelled(request, Len(request)))
  BY <1>1 DEF PrintInv
<1>10. CASE Between(k)
  <2>1. cur = o + 1 /\ text = Outcome(request, k)
    BY <1>4, <1>10 DEF Between
  <2>2. o < Len(format)
    BY <1>5, <1>7, <2>1 DEF At
  <2>3. k < Len(request)
    BY <1>5, <2>2
  <2>4. /\ At(format, o + 1) = Spell(item)[1]
        /\ IsLiteral(item) => item.lit \in Char \ {"%"} /\ Len(Spell(item)) = 1 /\ At(format, o + 1) = item.lit
        /\ ~IsLiteral(item) => At(format, o + 1) = "%"
    BY <1>4, <1>5, <1>9, <2>2, <2>3, ItemInFormat
  <2>5. IsLiteral(item) /\ ch = item.lit /\ ch \in Char /\ Len(Spell(item)) = 1
    BY <1>1, <1>8, <2>1, <2>4
  <2>6. Put(<<ch>>) /\ <<ch>> \in Seq(Char)
    BY <1>1, <1>8, <2>5, CharOne
  <2>7. text' = text \o <<ch>>
    BY <2>6 DEF Put
  <2>8. PICK m : m = k + 1
    OBVIOUS
  <2>9. m \in 0 .. Len(request)
    BY <1>5, <2>3, <2>8
  <2>10. text' = Outcome(request, m)
    <3>1. Printed(item) = <<ch>>
      BY <2>5 DEF Printed
    <3> QED
      BY <1>4, <1>5, <2>1, <2>3, <2>7, <2>8, <3>1, OutcomeParts
  <2>11. Passes(item) = <<>> /\ Len(Passes(item)) = 0
    BY <2>5 DEF Passes
  <2>12. /\ Len(Spelled(request, m)) = o + Len(Spell(item))
         /\ Len(Passed(request, m)) = Len(Passed(request, k)) + Len(Passes(item))
    BY <1>4, <1>5, <2>3, <2>8, ItemLies
  <2>13. Len(Passed(request, k)) \in Nat
    BY <1>5, SpelledParts
  <2>14. Len(Spelled(request, m)) = o + 1 /\ arg = Len(Passed(request, m))
    BY <1>5, <1>7, <2>5, <2>11, <2>12, <2>13
  <2>15. o + 1 <= Len(format) /\ cur' = o + 1 + 1
    BY <1>1, <1>5, <2>1, <2>2
  <2>16. Reached(m)'
    BY <1>1, <2>10, <2>14, <2>15 DEF Reached, Between
  <2> QED
    BY <1>1, <1>2, <1>9, <2>6, <2>9, <2>16, PutReaches
<1>11. CASE Within(k)
  <2>1. /\ k < Len(request) /\ Stump(format, o, item) /\ cur \in (o + 2) .. (Len(format) + 1)
        /\ text = Outcome(request, k) \o SubSeq(format, o + 1, cur - 1)
    BY <1>4, <1>11 DEF Within
  <2>2. cur \in 1 .. Len(format) /\ cur \in Nat
    <3>1. cur \in (o + 2) .. (Len(format) + 1) /\ Len(format) \in Nat /\ o \in Nat
      BY <1>5, <2>1
    <3>2. cur # Len(format) + 1
      BY <1>5, <1>7 DEF At
    <3> QED
      BY ONLY <3>1, <3>2
  <2>3. ch = format[cur] /\ ch \in Char
    BY <1>5, <1>8, <2>2, ElementOfSeq DEF At
  <2>4. Put(<<ch>>) /\ <<ch>> \in Seq(Char)
    BY <1>1, <1>8, <2>3, CharOne
  <2>5. text' = text \o <<ch>>
    BY <2>4 DEF Put
  <2>6. PICK from, s, t : from = o + 1 /\ s = SubSeq(format, from, cur - 1) /\ t = SubSeq(format, from, cur)
    OBVIOUS
  <2>7. from \in 1 .. Len(format) /\ cur \in from .. Len(format)
    BY <1>5, <2>1, <2>2, <2>6
  <2>8. t = s \o <<ch>>
    BY <1>5, <2>3, <2>6, <2>7, SubSeqRecursiveSecond
  <2>9. s \in Seq(Char)
    <3>1. \A i \in from .. (cur - 1) : format[i] \in Char
      BY <1>5, <2>2, <2>7, ElementOfSeq
    <3>2. from \in Int /\ cur - 1 \in Int
      BY <2>2, <2>7
    <3> QED
      BY <2>6, <3>1, <3>2, SubSeqProperties
  <2>10. text' = Outcome(request, k) \o t
    <3>1. PICK b, c : b = Outcome(request, k) /\ c = <<ch>>
      OBVIOUS
    <3>2. b \in Seq(Char) /\ c \in Seq(Char)
      BY <1>5, <2>4, <3>1
    <3>3. text = b \o s /\ text' = text \o c /\ t = s \o c
      BY <2>1, <2>5, <2>6, <2>8, <3>1
    <3>4. (b \o s) \o c = b \o (s \o c)
      BY ONLY <2>9, <3>2, TextAssociative, SMTT(30)
    <3> QED
      BY ONLY <3>1, <3>3, <3>4
  <2>11. cur' = cur + 1 /\ cur + 1 - 1 = cur /\ cur + 1 \in (o + 2) .. (Len(format) + 1)
    BY <1>1, <1>5, <2>1, <2>2
  <2>12. Within(k)'
    BY <1>1, <1>4, <2>1, <2>6, <2>10, <2>11 DEF Within
  <2>13. Reached(k)'
    BY <1>1, <1>4, <1>7, <2>12 DEF Reached
  <2> QED
    BY <1>1, <1>2, <1>9, <2>4, <2>13, PutReaches
<1> QED
  BY <1>3, <1>6, <1>10, <1>11 DEF Reached

\* npf_parse_format_spec accepts a directive exactly when the format holds all of it.
LEMMA ParseKeeps == ASSUME PrintInv, ParseFormatSpec PROVE PrintInv'
<1>1. /\ fs = NoSpec /\ At(format, cur) = "%" /\ ~Terminated
      /\ UNCHANGED <<request, format, arg, conv>>
  BY DEF ParseFormatSpec
<1>2. PICK a, b, p, c, d :
        /\ Places(format, cur, a, b, p, c, d)
        /\ \/ /\ Accepted(At(format, d))
              /\ fs' = FormatSpec(format, cur, a, b, p, c, d)
              /\ cur' = d + 1
              /\ UNCHANGED <<count, buffer, text>>
           \/ /\ ~Accepted(At(format, d))
              /\ Put(<<"%">>)
              /\ cur' = cur + 1
              /\ UNCHANGED fs
  BY DEF ParseFormatSpec, Places
<1>3. buffer = KeptOf(text)
  BY <1>1, EndedIsTerminated DEF PrintInv
<1>4. PICK k \in 0 .. Len(request) : Reached(k)
  BY DEF PrintInv
<1>5. PICK o, item : o = Len(Spelled(request, k)) /\ item = request[k + 1]
  OBVIOUS
<1>6. /\ request \in Requests /\ Len(request) \in Nat
      /\ format \in Seq(Char) /\ Len(format) \in Nat /\ DOMAIN format = 1 .. Len(format)
      /\ o \in Nat /\ Outcome(request, k) \in Seq(Char)
      /\ o < Len(format) => k < Len(request)
      /\ k < Len(request) => /\ k + 1 \in 0 .. Len(request)
                             /\ ~IsLiteral(item) => IsDirective(item)
  BY <1>5, PrintPlaces
<1>7. ~Read(k)
  BY <1>1, <1>5, <1>6, SpecIsOne DEF Read
<1>8. arg = Len(Passed(request, k)) /\ o <= Len(format)
  BY <1>4, <1>5 DEF Reached
<1>9. conv' \in Nat /\ conv' <= ConvSize /\ format = Cut(Spelled(request, Len(request)))
  BY <1>1 DEF PrintInv
<1>10. ~Within(k)
  <2> SUFFICES ASSUME Within(k) PROVE FALSE
    OBVIOUS
  <2>1. Stump(format, o, item) /\ cur \in (o + 2) .. (Len(format) + 1)
    BY <1>5 DEF Within
  <2>2. cur # Len(format) + 1
    BY <1>1, <1>6 DEF At, Nul
  <2>3. cur \in (o + 2) .. Len(format) /\ cur \in 1 .. Len(format)
    BY ONLY <1>6, <2>1, <2>2
  <2>4. format[cur] \notin Conversions
    BY <2>1, <2>3, StumpPlain
  <2>5. At(format, cur) = format[cur]
    BY <1>6, <2>3 DEF At
  <2> QED
    BY <1>1, <2>4, <2>5 DEF Conversions
<1>11. Between(k)
  BY <1>4, <1>7, <1>10 DEF Reached
<1>12. cur = o + 1 /\ text = Outcome(request, k)
  BY <1>5, <1>11 DEF Between
<1>13. o < Len(format)
  BY <1>1, <1>6, <1>8, <1>12 DEF At, Nul
<1>14. k < Len(request)
  BY <1>6, <1>13
<1>15. /\ IsLiteral(item) => item.lit \in Char \ {"%"} /\ At(format, o + 1) = item.lit
       /\ ~IsLiteral(item) => /\ IsDirective(item)
                              /\ Directed(format, o, item) \/ Stump(format, o, item)
  <2>1. /\ k < Len(request) /\ o < Len(format) /\ request \in Requests
        /\ format = Cut(Spelled(request, Len(request)))
        /\ o = Len(Spelled(request, k)) /\ item = request[k + 1] /\ k \in 0 .. Len(request)
    BY <1>5, <1>6, <1>9, <1>13, <1>14
  <2>2. /\ IsLiteral(item) => item.lit \in Char \ {"%"} /\ Lies(format, o, Spell(item)) /\ Len(Spell(item)) = 1
                              /\ At(format, o + 1) = item.lit
        /\ ~IsLiteral(item) => /\ IsDirective(item) /\ At(format, o + 1) = "%"
                               /\ Directed(format, o, item) \/ Stump(format, o, item)
    BY ONLY <2>1, ItemInFormat
  <2> QED
    BY ONLY <2>2
<1>16. ~IsLiteral(item)
  BY <1>1, <1>12, <1>15
<1>17. Places(format, o + 1, a, b, p, c, d)
  BY <1>2, <1>12
<1>18. CASE Directed(format, o, item)
  <2>1. /\ d = DirectiveEnd(o, item) /\ At(format, d) = item.conv /\ item.conv \in Conversions
        /\ FormatSpec(format, o + 1, a, b, p, c, d) = SpecOf(item)
    BY <1>17, <1>18, ParseIs
  <2>2. fs' = SpecOf(item) /\ cur' = d + 1 /\ UNCHANGED <<count, buffer, text>>
    BY <1>2, <1>12, <2>1 DEF Accepted
  <2>3. DirectiveEnd(o, item) = o + Len(Spell(item)) /\ DirectiveEnd(o, item) <= Len(format) /\ DirectiveEnd(o, item) \in Nat
    BY <1>18, DirectivePlaced
  <2>4. Len(Spelled(request, k + 1)) = o + Len(Spell(item))
    BY <1>5, <1>6, <1>14, ItemLies
  <2>5. d = Len(Spelled(request, k + 1)) /\ d \in Nat /\ d <= Len(format)
    BY <2>1, <2>3, <2>4
  <2>6. d + 1 <= Len(format) + 1
    BY <1>6, <2>5
  <2>7. Read(k)'
    BY <1>1, <1>5, <1>12, <1>14, <1>16, <2>2, <2>5, <2>6 DEF Read
  <2>8. Reached(k)'
    BY <1>1, <1>5, <1>8, <2>7 DEF Reached
  <2> QED
    BY <1>1, <1>3, <1>9, <2>2, <2>8 DEF PrintInv
<1>19. CASE Stump(format, o, item)
  <2>1. ~Accepted(At(format, d))
    BY <1>17, <1>19, StumpRefused DEF Accepted
  <2>2. Put(<<"%">>) /\ cur' = cur + 1 /\ fs' = fs
    BY <1>2, <2>1
  <2>3. PICK one, ch : one = <<ch>> /\ ch = "%"
    OBVIOUS
  <2>4. ch \in Char
    BY <2>3, CharAssumption DEF Syntax, Conversions
  <2>5. one \in Seq(Char) /\ Put(one)
    BY <2>2, <2>3, <2>4, CharOne
  <2>6. text' = text \o one
    BY <2>5 DEF Put
  <2>7. PICK from, s, t : from = o + 1 /\ s = SubSeq(format, from, from - 1) /\ t = SubSeq(format, from, from)
    OBVIOUS
  <2>8. from \in 1 .. Len(format) /\ from \in from .. Len(format)
    BY <1>6, <1>13, <2>7
  <2>9. t = s \o <<format[from]>>
    BY <1>6, <2>7, <2>8, SubSeqRecursiveSecond
  <2>10. s = <<>>
    BY <2>7, <2>8, SubSeqEmpty
  <2>11. format[from] = ch
    BY <1>1, <1>6, <1>12, <2>3, <2>7, <2>8 DEF At
  <2>12. t = one
    BY <2>3, <2>5, <2>9, <2>10, <2>11, ConcatEmptySeq
  <2>13. cur' = o + 2 /\ cur' - 1 = from /\ cur' \in (o + 2) .. (Len(format) + 1)
    BY <1>6, <1>12, <1>13, <2>2, <2>7
  <2>14. text' = Outcome(request, k) \o SubSeq(format, o + 1, cur' - 1)
    BY <1>12, <2>6, <2>7, <2>12, <2>13
  <2>15. Within(k)'
    BY <1>1, <1>5, <1>14, <1>19, <2>2, <2>13, <2>14 DEF Within
  <2>16. Reached(k)'
    BY <1>1, <1>5, <1>8, <2>15 DEF Reached
  <2> QED
    BY <1>1, <1>3, <1>9, <2>5, <2>16, PutReaches
<1> QED
  BY <1>15, <1>16, <1>18, <1>19

\* npf_vpprintf converts a directive, lays its field out and puts it.
LEMMA PutFieldKeeps == ASSUME PrintInv, PutField PROVE PrintInv'
<1>1. fs # NoSpec /\ fs' = NoSpec /\ UNCHANGED <<request, format, cur>>
  BY DEF PutField
<1>2. PICK s, j, q :
        /\ s = StarArgs(fs, Args, arg) /\ j = arg + StarCount(fs)
        /\ q = Payload(s, IF Takes(s) = 1 THEN Args[j + 1] ELSE 0)
        /\ Put(Layout(s, q)) /\ arg' = j + Takes(s)
        /\ conv' = IF s.conv = "s" THEN conv ELSE Max({conv, Len(q.chars)})
  BY DEF PutField
<1>3. buffer = KeptOf(text)
  BY <1>1 DEF PrintInv
<1>4. PICK k \in 0 .. Len(request) : Reached(k)
  BY DEF PrintInv
<1>5. PICK o, item : o = Len(Spelled(request, k)) /\ item = request[k + 1]
  OBVIOUS
<1>6. /\ request \in Requests /\ Len(request) \in Nat /\ Len(format) \in Nat
      /\ o \in Nat /\ Outcome(request, k) \in Seq(Char)
      /\ k < Len(request) => /\ k + 1 \in 0 .. Len(request)
                             /\ ~IsLiteral(item) => IsDirective(item)
  BY <1>5, PrintPlaces
<1>7. Read(k) /\ arg = Len(Passed(request, k))
  BY <1>1, <1>4 DEF Reached, Between, Within
<1>8. /\ k < Len(request) /\ ~IsLiteral(item) /\ fs = SpecOf(item)
      /\ cur = Len(Spelled(request, k + 1)) + 1 /\ cur <= Len(format) + 1
      /\ text = Outcome(request, k)
  BY <1>5, <1>7 DEF Read
<1>9. IsDirective(item) /\ k + 1 \in 0 .. Len(request)
  BY <1>6, <1>8
<1>10. PICK args : args = Args
  OBVIOUS
<1>11. Lies(args, arg, Passes(item))
  BY <1>5, <1>6, <1>7, <1>8, <1>10, ItemLies DEF Args
<1>12. s = FieldOf(item)
  BY <1>2, <1>8, <1>9, <1>10, <1>11, StarsAre
<1>13. /\ j + Takes(s) = arg + Len(Passes(item))
       /\ (IF Takes(s) = 1 THEN args[j + 1] ELSE 0) = Given(item)
  BY <1>2, <1>8, <1>9, <1>11, <1>12, ArgumentsTaken
<1>14. q = Payload(s, Given(item))
  BY <1>2, <1>10, <1>13
<1>15. Typed(q) /\ Len(q.chars) \in Nat /\ (item.conv # "s" => Len(q.chars) <= ConvSize)
  BY <1>8, <1>9, <1>12, <1>14, PayloadTyped
<1>16. s.width \in Nat /\ s.conv = item.conv
  BY <1>9, <1>12, FieldFields
<1>17. PICK chars : chars = Layout(s, q)
  OBVIOUS
<1>18. chars \in Seq(Char) /\ Put(chars) /\ chars = Printed(item)
  BY <1>2, <1>8, <1>12, <1>14, <1>15, <1>16, <1>17, LayoutTyped DEF Printed
<1>19. text' = text \o chars
  BY <1>18 DEF Put
<1>20. conv' \in Nat /\ conv' <= ConvSize
  <2>1. conv \in Nat /\ conv <= ConvSize /\ ConvSize \in Nat
    BY ConvAssumption DEF PrintInv
  <2>2. PICK len : len = Len(q.chars)
    OBVIOUS
  <2>3. len \in Nat /\ (item.conv # "s" => len <= ConvSize)
    BY <1>15, <2>2
  <2>4. Max({conv, len}) = IF conv >= len THEN conv ELSE len
    BY <2>1, <2>3, MaxTwo
  <2>5. conv' = IF item.conv = "s" THEN conv ELSE IF conv >= len THEN conv ELSE len
    BY <1>2, <1>16, <2>2, <2>4
  <2> QED
    BY ONLY <2>1, <2>3, <2>5
<1>21. PICK m : m = k + 1
  OBVIOUS
<1>22. m \in 0 .. Len(request)
  BY <1>9, <1>21
<1>23. text' = Outcome(request, m)
  BY <1>5, <1>6, <1>8, <1>18, <1>19, <1>21, OutcomeParts
<1>24. arg' = Len(Passed(request, m))
  <2>1. Len(Passed(request, m)) = Len(Passed(request, k)) + Len(Passes(item))
    BY <1>5, <1>6, <1>8, <1>21, ItemLies
  <2> QED
    BY <1>2, <1>7, <1>13, <2>1
<1>25. Len(Spelled(request, m)) <= Len(format)
  <2>1. PICK n : n = Len(Spelled(request, m))
    OBVIOUS
  <2>2. n \in Nat
    BY <1>6, <1>22, <2>1, SpelledParts
  <2>3. n + 1 <= Len(format) + 1
    BY <1>8, <1>21, <2>1
  <2> QED
    BY ONLY <1>6, <2>1, <2>2, <2>3
<1>26. Reached(m)'
  BY <1>1, <1>8, <1>21, <1>23, <1>24, <1>25 DEF Reached, Between
<1> QED
  BY <1>1, <1>3, <1>18, <1>20, <1>22, <1>26, PutReaches

\* npf_vsnprintf ends the text.
LEMMA TerminateKeeps == ASSUME PrintInv, Terminate PROVE PrintInv'
<1>1. /\ fs = NoSpec /\ At(format, cur) = Nul /\ ~Terminated
      /\ buffer' = SubSeq(buffer, 1, Min({count, BufferSize - 1})) \o <<Nul>>
      /\ UNCHANGED <<request, format, cur, fs, arg, count, text, conv>>
  BY DEF Terminate
<1>2. text \in Seq(Char) /\ count = Len(text) /\ buffer = KeptOf(text)
  BY <1>1, EndedIsTerminated DEF PrintInv
<1>3. count \in Int /\ BufferSize - 1 \in Int
  BY <1>2, LenProperties, SizeAssumption
<1>4. Min({count, BufferSize - 1}) = Least(Len(text), BufferSize - 1)
  BY <1>2, <1>3, MinTwo
<1>5. buffer' = Ended(text)
  BY <1>1, <1>2, <1>4, EndedText
<1>6. cur = Len(format) + 1
  <2>1. format \in Seq(Char) /\ DOMAIN format = 1 .. Len(format)
    <3>1. request \in Requests /\ format = Cut(Spelled(request, Len(request)))
      BY DEF PrintInv
    <3> QED
      BY <3>1, FormatIs
  <2>2. \A i \in DOMAIN format : format[i] # Nul
    BY <2>1, ElementOfSeq, CharAssumption
  <2> QED
    BY <1>1, <2>2 DEF At, Nul, Beyond
<1>7. PICK k \in 0 .. Len(request) : Reached(k)
  BY DEF PrintInv
<1>8. Reached(k)'
  BY <1>1, <1>7 DEF Reached, Between, Within, Read
<1> QED
  BY <1>1, <1>5, <1>6, <1>8 DEF PrintInv

\* Every step of a print keeps the invariant.
LEMMA PrintNextKeeps == PrintInv /\ [PrintNext]_printVars => PrintInv'
<1> SUFFICES ASSUME PrintInv, [PrintNext]_printVars PROVE PrintInv'
  OBVIOUS
<1>1. CASE UNCHANGED printVars
  <2>1. UNCHANGED <<request, format, cur, fs, arg, count, buffer, text, conv>>
    BY <1>1 DEF printVars
  <2>2. PICK k \in 0 .. Len(request) : Reached(k)
    BY DEF PrintInv
  <2>3. Reached(k)'
    BY <2>1, <2>2 DEF Reached, Between, Within, Read
  <2> QED
    BY <2>1, <2>3 DEF PrintInv
<1> QED
  BY <1>1, PutCharKeeps, ParseKeeps, PutFieldKeeps, TerminateKeeps DEF PrintNext, Returned

\* A print is always at one of the places that the invariant names.
LEMMA Printing == PrintSpec => []PrintInv
<1> QED
  BY InitPrint, PrintNextKeeps, PTL DEF PrintSpec

\* KeTermPrint's buffer holds as much of the text as fits, as npf_bufputc drops the rest, and
\* once npf_vsnprintf has returned its text ends with a NUL: for every format, argument list and
\* buffer size.
THEOREM TextIsWhole == PrintSpec => []BufferHolds
<1>1. PrintInv => BufferHolds
  <2> SUFFICES ASSUME PrintInv, Terminated
               PROVE  /\ buffer = SubSeq(text, 1, Min({count, BufferSize - 1})) \o <<Nul>>
                      /\ \A i \in 1 .. (Len(buffer) - 1) : buffer[i] # Nul
    BY DEF BufferHolds
  <2>1. text \in Seq(Char) /\ count = Len(text)
    BY DEF PrintInv
  <2>2. buffer # KeptOf(text)
    BY <2>1, KeptNotEnded DEF Terminated
  <2>3. buffer = Ended(text)
    BY <2>2 DEF PrintInv
  <2>4. count \in Int /\ BufferSize - 1 \in Int
    BY <2>1, LenProperties, SizeAssumption
  <2>5. Min({count, BufferSize - 1}) = Least(Len(text), BufferSize - 1)
    BY <2>1, <2>4, MinTwo
  <2> QED
    BY <2>1, <2>3, <2>5, EndedText DEF Ended
<1> QED
  BY <1>1, Printing, PTL

\* npf_parse_format_spec never reads past the end of the format, npf_vpprintf never takes more
\* arguments than were passed, npf_utoa_rev never writes past the conversion buffer, and
\* npf_bufputc never past the text's.
THEOREM PrintStaysInside == PrintSpec => []StaysInside
<1>1. PrintInv => StaysInside
  <2> SUFFICES ASSUME PrintInv PROVE StaysInside
    OBVIOUS
  <2>1. /\ request \in Requests /\ format = Cut(Spelled(request, Len(request)))
        /\ text \in Seq(Char) /\ count = Len(text) /\ conv \in Nat /\ conv <= ConvSize
    BY DEF PrintInv
  <2>2. Len(format) \in Nat /\ Len(format) <= FormatMax /\ Len(text) \in Nat
    BY <2>1, FormatIs, LenProperties
  <2>3. PICK k \in 0 .. Len(request) : Reached(k)
    BY DEF PrintInv
  <2>4. PICK o : o = Len(Spelled(request, k))
    OBVIOUS
  <2>5. o \in Nat /\ o <= Len(format) /\ arg = Len(Passed(request, k))
    BY <2>1, <2>3, <2>4, SpelledParts DEF Reached
  <2>6. cur \in Nat /\ cur <= Len(format) + 1
    <3>1. CASE Between(k)
      BY <2>2, <2>4, <2>5, <3>1 DEF Between
    <3>2. CASE Within(k)
      <4>1. cur \in (o + 2) .. (Len(format) + 1)
        BY <2>4, <3>2 DEF Within
      <4> QED
        BY ONLY <2>2, <2>5, <4>1
    <3>3. CASE Read(k)
      <4>1. k + 1 \in 0 .. Len(request)
        BY <2>1, <3>3, RequestItems DEF Read
      <4>2. PICK n : n = Len(Spelled(request, k + 1))
        OBVIOUS
      <4>3. n \in Nat
        BY <2>1, <4>1, <4>2, SpelledParts
      <4>4. cur = n + 1 /\ cur <= Len(format) + 1
        BY <3>3, <4>2 DEF Read
      <4> QED
        BY ONLY <4>3, <4>4
    <3> QED
      BY <2>3, <3>1, <3>2, <3>3 DEF Reached
  <2>7. arg \in Nat /\ arg <= Len(Args)
    <3>1. Passings(request) \in Seq(Seq(Argument)) /\ Len(Passings(request)) = Len(request)
          /\ \A i : Passed(request, i) = Joined(Passings(request), i)
      BY <2>1, PartsTyped
    <3>2. PICK n : n = Len(request)
      OBVIOUS
    <3>3. n \in Nat /\ k \in 0 .. n
      BY <2>1, <3>2, RequestItems
    <3>4. k \in 0 .. Len(Passings(request)) /\ n \in k .. Len(Passings(request))
      BY <3>1, <3>2, <3>3
    <3>5. Len(Joined(Passings(request), k)) <= Len(Joined(Passings(request), n))
      BY <3>1, <3>4, JoinedPrefix
    <3>6. Len(Passed(request, k)) \in Nat
      BY <2>1, SpelledParts
    <3> QED
      BY <2>5, <3>1, <3>2, <3>5, <3>6 DEF Args
  <2>8. Len(buffer) <= BufferSize
    BY <2>1, KeptNotEnded, EndedText DEF PrintInv
  <2> QED
    BY <2>1, <2>2, <2>6, <2>7, <2>8 DEF StaysInside, PrintTypeOK
<1> QED
  BY <1>1, Printing, PTL

-----------------------------------------------------------------------------
(* Digits by their places *)

\* The powers of a base, up to an exponent.
Powers(f, base, n) == f = [i \in 0 .. n |-> IF i = 0 THEN 1 ELSE base * f[i - 1]]

\* The recursion of the powers ends, for every exponent.
LEMMA PowersThere == ASSUME NEW base \in Nat, NEW n \in Nat PROVE \E f : Powers(f, base, n)
<1> DEFINE Bad == {m \in Nat : ~\E f : Powers(f, base, m)}
<1> SUFFICES ASSUME Bad # {} PROVE FALSE
  OBVIOUS
<1>1. PICK m \in Nat : m \in Bad /\ \A k \in Bad : m <= k
  BY LeastNumber
<1>2. CASE m = 0
  <2>1. PICK g : g = [i \in 0 .. 0 |-> 1]
    OBVIOUS
  <2>2. Powers(g, base, 0)
    BY <2>1 DEF Powers
  <2> QED
    BY <1>1, <1>2, <2>2
<1>3. CASE m # 0
  <2>1. m - 1 \in Nat /\ m - 1 \notin Bad
    BY <1>1, <1>3
  <2>2. PICK f : Powers(f, base, m - 1)
    BY <2>1
  <2>3. PICK g : g = [i \in 0 .. m |-> IF i = m THEN base * f[m - 1] ELSE f[i]]
    OBVIOUS
  <2>4. \A i \in 0 .. (m - 1) : f[i] = IF i = 0 THEN 1 ELSE base * f[i - 1]
    BY <2>2 DEF Powers
  <2>5. ASSUME NEW i \in 0 .. m PROVE g[i] = IF i = 0 THEN 1 ELSE base * g[i - 1]
    <3>1. CASE i = m
      <4>1. g[m] = base * f[m - 1] /\ g[m - 1] = f[m - 1]
        BY <1>1, <1>3, <2>1, <2>3
      <4> QED
        BY <1>3, <3>1, <4>1
    <3>2. CASE i # m /\ i = 0
      <4>1. i \in 0 .. (m - 1)
        BY <1>1, <3>2
      <4> QED
        BY <2>3, <2>4, <3>2, <4>1
    <3>3. CASE i # m /\ i # 0
      <4>1. i \in 0 .. (m - 1) /\ i - 1 \in 0 .. (m - 1)
        BY <1>1, <3>3
      <4>2. g[i] = f[i] /\ g[i - 1] = f[i - 1]
        BY <2>3, <4>1
      <4> QED
        BY <2>4, <3>3, <4>1, <4>2
    <3> QED
      BY <3>1, <3>2, <3>3
  <2>6. Powers(g, base, m)
    <3>1. g = [i \in 0 .. m |-> g[i]]
      BY <2>3
    <3> QED
      BY <2>5, <3>1 DEF Powers
  <2> QED
    BY <1>1, <2>6
<1> QED
  BY <1>2, <1>3

\* Powers that are counted up to different numbers agree.
LEMMA PowersAgree ==
    ASSUME NEW base \in Nat, NEW n \in Nat, NEW m \in Nat, n <= m,
           NEW f, Powers(f, base, n), NEW g, Powers(g, base, m)
    PROVE  f[n] = g[n]
<1> DEFINE Bad == {i \in 0 .. n : f[i] # g[i]}
<1> SUFFICES ASSUME Bad # {} PROVE FALSE
  OBVIOUS
<1>1. PICK i : i \in Bad /\ \A k \in Bad : i <= k
  <2>1. Bad \subseteq Nat
    OBVIOUS
  <2> HIDE DEF Bad
  <2> QED
    BY <2>1, LeastNumber
<1>2. i \in 0 .. n /\ i \in 0 .. m /\ f[i] # g[i]
  BY <1>1
<1>3. /\ f[i] = IF i = 0 THEN 1 ELSE base * f[i - 1]
      /\ g[i] = IF i = 0 THEN 1 ELSE base * g[i - 1]
  BY <1>2 DEF Powers
<1>4. CASE i = 0
  BY <1>2, <1>3, <1>4
<1>5. CASE i # 0
  <2>1. i - 1 \in 0 .. n /\ ~(i <= i - 1)
    BY <1>2, <1>5
  <2>2. f[i - 1] = g[i - 1]
    BY <1>1, <2>1
  <2> QED
    BY <1>2, <1>3, <1>5, <2>2
<1> QED
  BY <1>4, <1>5

\* Power is what it comes to.
LEMMA PowerIs ==
    ASSUME NEW base \in Nat, NEW n \in Nat
    PROVE  \E f : Powers(f, base, n) /\ Power(base, n) = f[n]
<1>1. PICK f : f = CHOOSE g : Powers(g, base, n)
  OBVIOUS
<1>2. Powers(f, base, n)
  BY <1>1, PowersThere
<1>3. Power(base, n) = f[n]
  BY <1>1 DEF Power, Powers
<1> QED
  BY <1>2, <1>3

\* The power of the first place.
LEMMA PowerStart == ASSUME NEW base \in Nat PROVE Power(base, 0) = 1
<1>1. PICK z : z = 0
  OBVIOUS
<1>2. PICK f : Powers(f, base, z) /\ Power(base, z) = f[z]
  BY <1>1, PowerIs
<1>3. f[z] = 1
  BY <1>1, <1>2 DEF Powers
<1> QED
  BY <1>1, <1>2, <1>3

\* The power of the next place.
LEMMA PowerNext ==
    ASSUME NEW base \in Nat, NEW n \in Nat, NEW m, m = n + 1
    PROVE  Power(base, m) = base * Power(base, n)
<1>1. m \in Nat /\ n <= m /\ m \in 0 .. m /\ m # 0 /\ m - 1 = n
  OBVIOUS
<1>2. PICK f : Powers(f, base, n) /\ Power(base, n) = f[n]
  BY PowerIs
<1>3. PICK g : Powers(g, base, m) /\ Power(base, m) = g[m]
  BY <1>1, PowerIs
<1>4. g[m] = base * g[m - 1]
  <2>1. g[m] = IF m = 0 THEN 1 ELSE base * g[m - 1]
    BY <1>1, <1>3 DEF Powers
  <2> QED
    BY <1>1, <2>1
<1>5. f[n] = g[n]
  BY <1>1, <1>2, <1>3, PowersAgree
<1> QED
  BY <1>1, <1>2, <1>3, <1>4, <1>5

\* Powers are positive.
LEMMA PowerTyped ==
    ASSUME NEW base \in Nat, base >= 1, NEW n \in Nat PROVE Power(base, n) \in Nat \ {0}
<1> DEFINE Bad == {i \in Nat : Power(base, i) \notin Nat \ {0}}
<1> SUFFICES ASSUME Bad # {} PROVE FALSE
  OBVIOUS
<1>1. PICK i \in Nat : i \in Bad /\ \A k \in Bad : i <= k
  BY LeastNumber
<1>2. CASE i = 0
  BY <1>1, <1>2, PowerStart
<1>3. CASE i # 0
  <2>1. PICK j : j = i - 1
    OBVIOUS
  <2>2. j \in Nat /\ i = j + 1 /\ ~(i <= j)
    BY <1>3, <2>1
  <2>3. PICK p : p = Power(base, j) /\ p \in Nat \ {0}
    BY <1>1, <2>2
  <2>4. Power(base, i) = base * p
    BY <2>2, <2>3, PowerNext
  <2>5. base * p \in Nat \ {0}
    BY <2>3
  <2> QED
    BY <1>1, <2>4, <2>5
<1> QED
  BY <1>2, <1>3

\* Powers grow.
LEMMA PowerGrows ==
    ASSUME NEW base \in Nat, base >= 1, NEW n \in Nat, NEW m \in Nat, n <= m
    PROVE  Power(base, n) <= Power(base, m)
<1> DEFINE Bad == {i \in Nat : n <= i /\ ~(Power(base, n) <= Power(base, i))}
<1> SUFFICES ASSUME Bad # {} PROVE FALSE
  OBVIOUS
<1>1. PICK i \in Nat : i \in Bad /\ \A k \in Bad : i <= k
  BY LeastNumber
<1>2. i \in Nat /\ n <= i /\ ~(Power(base, n) <= Power(base, i))
  BY <1>1
<1>3. Power(base, n) \in Nat
  BY PowerTyped
<1>4. i # n
  BY <1>2, <1>3
<1>5. PICK j : j = i - 1
  OBVIOUS
<1>6. j \in Nat /\ i = j + 1 /\ n <= j /\ ~(i <= j)
  BY ONLY <1>2, <1>4, <1>5, n \in Nat
<1>7. Power(base, n) <= Power(base, j)
  BY <1>1, <1>6
<1>8. PICK p, q : p = Power(base, j) /\ q = Power(base, n)
  OBVIOUS
<1>9. p \in Nat /\ q \in Nat /\ q <= p
  BY <1>3, <1>6, <1>7, <1>8, PowerTyped
<1>10. Power(base, i) = base * p
  BY <1>6, <1>8, PowerNext
<1>11. base * p >= p /\ base * p \in Nat
  BY ONLY <1>9, base \in Nat, base >= 1
<1> QED
  BY <1>2, <1>8, <1>9, <1>10, <1>11

\* The quotient is the only one.
LEMMA QuotientUnique ==
    ASSUME NEW a \in Nat, NEW b \in Nat, b > 0, NEW q \in Nat, NEW r \in Nat, r < b, a = b * q + r
    PROVE  a \div b = q
<1>1. PICK p, s : p = a \div b /\ s = a % b
  OBVIOUS
<1>2. p \in Int /\ s \in 0 .. (b - 1) /\ a = b * p + s
  BY <1>1, Modulo
<1>3. b * (q - p) = s - r /\ s - r < b /\ r - s < b
  BY ONLY <1>2, a \in Nat, b \in Nat, q \in Nat, r \in Nat, r < b, a = b * q + r
<1>4. q - p = 0
  <2>1. q - p >= 1 => b * (q - p) >= b
    BY ONLY <1>2, q \in Nat, b \in Nat, b > 0
  <2>2. q - p <= -1 => b * (q - p) <= -b
    BY ONLY <1>2, q \in Nat, b \in Nat, b > 0
  <2> QED
    BY <1>2, <1>3, <2>1, <2>2
<1> QED
  BY ONLY <1>1, <1>2, <1>4, q \in Nat

\* A division by a product is two divisions.
LEMMA DividedTwice ==
    ASSUME NEW a \in Nat, NEW b \in Nat, b > 0, NEW c \in Nat, c > 0,
           NEW q, q = a \div b, NEW d, d = b * c
    PROVE  a \div d = q \div c
<1>1. PICK r, p, s : r = a % b /\ p = q \div c /\ s = q % c
  OBVIOUS
<1>2. q \in Int /\ r \in 0 .. (b - 1) /\ a = b * q + r
  BY <1>1, Modulo
<1>3. q \in Nat
  <2>1. q <= -1 => b * q <= -b
    BY ONLY <1>2, b \in Nat, b > 0
  <2> QED
    BY ONLY <1>2, <2>1, a \in Nat, b \in Nat
<1>4. p \in Int /\ s \in 0 .. (c - 1) /\ q = c * p + s
  BY <1>1, <1>3, Modulo
<1>5. p \in Nat
  <2>1. p <= -1 => c * p <= -c
    BY ONLY <1>4, c \in Nat, c > 0
  <2> QED
    BY ONLY <1>3, <1>4, <2>1, c \in Nat
<1>6. d \in Nat /\ d > 0
  BY ONLY d = b * c, b \in Nat, c \in Nat, b > 0, c > 0
<1>7. PICK t : t = b * s + r
  OBVIOUS
<1>8. t \in Nat /\ t < d
  <2>1. b * s <= b * (c - 1)
    BY ONLY <1>4, b \in Nat, c \in Nat, c > 0
  <2>2. b * (c - 1) = d - b /\ b * s \in Nat
    BY ONLY <1>4, d = b * c, b \in Nat, c \in Nat, c > 0
  <2> QED
    BY ONLY <1>2, <1>6, <1>7, <2>1, <2>2, b \in Nat
<1>9. a = d * p + t
  BY ONLY <1>2, <1>4, <1>5, <1>7, d = b * c, b \in Nat, c \in Nat
<1>10. a \div d = p
  BY <1>5, <1>6, <1>8, <1>9, QuotientUnique
<1> QED
  BY <1>1, <1>10

\* A digit, from its place.
PlaceOf(v, base, glyphs, j) == glyphs[((v \div Power(base, j)) % base) + 1]

\* The digits of a number lie at their places, and there are no more than it needs.
InPlace(u, v, base, glyphs) ==
    /\ Power(base, Len(u)) > v
    /\ Len(u) > 1 => Power(base, Len(u) - 1) <= v
    /\ \A i \in 1 .. Len(u) : u[i] = PlaceOf(v, base, glyphs, Len(u) - i)

\* The last digit is the remainder.
LEMMA PlaceZero ==
    ASSUME NEW base \in Bases, NEW glyphs, NEW v \in Nat, NEW r, r = v % base, NEW j, j = 0
    PROVE  PlaceOf(v, base, glyphs, j) = glyphs[r + 1]
<1>0. base \in Nat /\ base > 0
  BY DEF Bases
<1>1. PICK one : one = Power(base, 0)
  OBVIOUS
<1>2. one = 1
  BY <1>0, <1>1, PowerStart
<1>3. PICK z : z = 0
  OBVIOUS
<1>4. v = one * v + z /\ one \in Nat /\ one > 0 /\ z \in Nat /\ z < one
  BY <1>2, <1>3
<1>5. v \div one = v
  BY <1>4, QuotientUnique
<1>6. (v \div Power(base, 0)) % base = r
  BY ONLY <1>1, <1>5, r = v % base
<1> QED
  BY ONLY <1>6, j = 0 DEF PlaceOf

\* The others are the digits of the quotient.
LEMMA PlaceNext ==
    ASSUME NEW base \in Bases, NEW glyphs, NEW v \in Nat, NEW q, q = v \div base,
           NEW j \in Nat, NEW k, k = j + 1
    PROVE  PlaceOf(v, base, glyphs, k) = PlaceOf(q, base, glyphs, j)
<1>0. base \in Nat /\ base > 0
  BY DEF Bases
<1>1. PICK p, s : p = Power(base, j) /\ s = Power(base, k)
  OBVIOUS
<1>2. p \in Nat /\ p > 0
  <2>1. Power(base, j) \in Nat \ {0}
    BY <1>0, PowerTyped
  <2> QED
    BY <1>1, <2>1
<1>3. s = base * p
  BY <1>0, <1>1, PowerNext
<1>4. v \div s = q \div p
  BY ONLY <1>0, <1>2, <1>3, DividedTwice, v \in Nat, q = v \div base
<1> QED
  BY ONLY <1>1, <1>4 DEF PlaceOf

\* A step of npf_utoa_rev splits the number into both.
LEMMA LastAdds ==
    ASSUME NEW base \in Bases, NEW glyphs, NEW n \in Nat, NEW f, NEW v \in Nat, NEW q, NEW r,
           Last(f, base, glyphs, n, v, q, r)
    PROVE  v = base * q + r
<1>1. PICK b \in Nat : b = base /\ b > 0
  BY DEF Bases
<1>2. q = v \div b
  BY <1>1 DEF Last
<1>3. r = v % b
  BY <1>1 DEF Last
<1>4. v \in Int
  OBVIOUS
<1>5. v = b * q + r
  <2>1. b > 0
    BY <1>1
  <2> QED
    BY ONLY b \in Nat, <2>1, <1>2, <1>3, <1>4, Modulo
<1> QED
  BY ONLY <1>1, <1>5

\* So the digits that npf_utoa_rev writes lie at their places.
LEMMA UtoaPlaces ==
    ASSUME NEW base \in Bases, NEW glyphs \in Glyphs, NEW n \in Nat,
           NEW f, Utoa(f, base, glyphs, n), NEW v \in 0 .. n
    PROVE  InPlace(f[v], v, base, glyphs)
<1> DEFINE Good(x) == InPlace(f[x], x, base, glyphs)
           Bad == {x \in 0 .. n : ~Good(x)}
<1> SUFFICES ASSUME Bad # {} PROVE FALSE
  OBVIOUS
<1>1. PICK m : m \in Bad /\ \A k \in Bad : m <= k
  <2>1. Bad \subseteq Nat
    OBVIOUS
  <2> HIDE DEF Bad
  <2> QED
    BY <2>1, LeastNumber
<1>2. m \in 0 .. n /\ ~Good(m) /\ \A x \in 0 .. n : x < m => Good(x)
  <2>1. m \in 0 .. n /\ ~Good(m)
    BY <1>1
  <2>2. ASSUME NEW x \in 0 .. n, x < m PROVE Good(x)
    <3>1. ~(m <= x)
      BY <2>1, <2>2
    <3> QED
      BY <1>1, <3>1
  <2> QED
    BY <2>1, <2>2
<1> HIDE DEF Good, Bad
<1>3. base \in 8 .. 16 /\ m \in Nat /\ base \in Nat
  <2>1. base \in 8 .. 16 /\ m \in Nat
    BY <1>2, UtoaStep
  <2> QED
    BY ONLY <2>1
<1>4. PICK u : u = f[m]
  OBVIOUS
<1>5. CASE m < base
  <2>1. PICK c : c = glyphs[m + 1]
    OBVIOUS
  <2>2. u = <<c>>
    BY <1>2, <1>4, <1>5, <2>1, UtoaStep
  <2>3. Len(u) = 1 /\ u[1] = c
    BY ONLY <2>2
  <2>4. Power(base, 1) = base
    <3>1. PICK z, o : z = 0 /\ o = 1
      OBVIOUS
    <3>2. z \in Nat /\ o = z + 1
      BY <3>1
    <3>3. Power(base, o) = base * Power(base, z)
      BY <1>3, <3>2, PowerNext
    <3>4. Power(base, z) = 1
      BY <1>3, <3>1, PowerStart
    <3> QED
      BY ONLY <1>3, <3>1, <3>3, <3>4
  <2>5. m % base = m
    <3>1. PICK z : z = 0
      OBVIOUS
    <3>2. z \in Int /\ m \in Int /\ m = base * z + m /\ base > 0
      BY <1>3, <3>1
    <3> QED
      BY <1>3, <1>5, <3>2, ModuloIs
  <2>6. PICK z : z = 0
    OBVIOUS
  <2>7. PlaceOf(m, base, glyphs, z) = c
    BY <1>3, <2>1, <2>5, <2>6, PlaceZero
  <2>8. InPlace(u, m, base, glyphs)
    <3>1. Power(base, Len(u)) > m /\ ~(Len(u) > 1)
      BY <1>3, <1>5, <2>3, <2>4
    <3>2. \A i \in 1 .. Len(u) : u[i] = PlaceOf(m, base, glyphs, Len(u) - i)
      <4> SUFFICES ASSUME NEW i \in 1 .. Len(u) PROVE u[i] = PlaceOf(m, base, glyphs, Len(u) - i)
        OBVIOUS
      <4>1. i = 1 /\ Len(u) - i = z
        BY <2>3, <2>6
      <4> QED
        BY <2>3, <2>7, <4>1
    <3> QED
      BY <3>1, <3>2 DEF InPlace
  <2> QED
    BY <1>2, <1>4, <2>8 DEF Good
<1>6. CASE m >= base
  <2>0. PICK q, r : Last(f, base, glyphs, n, m, q, r)
    BY <1>2, <1>6, UtoaStep
  <2>1. /\ q \in 0 .. n /\ r \in 0 .. (base - 1) /\ q < m /\ f[m] = Append(f[q], glyphs[r + 1])
        /\ q = m \div base /\ r = m % base
    BY <2>0 DEF Last
  <2>2. r + 1 \in 1 .. 16
    BY <1>3, <2>1
  <2>3. PICK c : c = glyphs[r + 1] /\ c \in Char
    BY <2>2, GlyphChars
  <2>4. PICK w : w = f[q]
    OBVIOUS
  <2>5. w \in Seq(Char) /\ Len(w) \in Nat /\ Len(w) >= 1
    BY <2>1, <2>4, UtoaTyped
  <2>6. PICK k : k = Len(w) /\ k \in Nat /\ k >= 1
    BY <2>5
  <2>7. /\ Len(u) = k + 1 /\ u[k + 1] = c
        /\ \A i \in 1 .. k : u[i] = w[i]
    <3>1. u = Append(w, c)
      BY <1>4, <2>1, <2>3, <2>4
    <3> QED
      BY ONLY <2>3, <2>5, <2>6, <3>1, AppendProperties
  <2>8. /\ Power(base, k) > q
        /\ k > 1 => Power(base, k - 1) <= q
        /\ \A i \in 1 .. k : w[i] = PlaceOf(q, base, glyphs, k - i)
    <3>1. InPlace(w, q, base, glyphs)
      BY <1>2, <2>1, <2>4 DEF Good
    <3> QED
      BY <2>6, <3>1 DEF InPlace
  <2>9. m = base * q + r /\ q \in Nat /\ r \in Nat /\ r < base
    <3>1. m = base * q + r
      BY <1>3, <2>0, LastAdds
    <3> QED
      BY ONLY <1>3, <2>1, <3>1
  <2>10. PICK l, p, s : l = k + 1 /\ p = Power(base, k) /\ s = Power(base, l)
    OBVIOUS
  <2>11. p \in Nat \ {0} /\ s = base * p
    <3>1. base >= 1
      BY <1>3
    <3> QED
      BY <1>3, <2>6, <2>10, <3>1, PowerTyped, PowerNext
  <2>12. s > m
    <3>1. p >= q + 1
      BY ONLY <2>8, <2>9, <2>10, <2>11
    <3>2. base * p >= base * (q + 1)
      BY ONLY <1>3, <2>9, <2>11, <3>1
    <3>3. base * (q + 1) = base * q + base /\ base * q \in Nat /\ base * p \in Nat
      BY ONLY <1>3, <2>9, <2>11
    <3> QED
      BY ONLY <1>3, <2>9, <2>11, <3>2, <3>3
  <2>13. p <= m
    <3>1. PICK j : j = k - 1
      OBVIOUS
    <3>2. j \in Nat /\ k = j + 1
      BY ONLY <2>6, <3>1
    <3>3. PICK t : t = Power(base, j)
      OBVIOUS
    <3>4. p = base * t
      BY <1>3, <2>10, <3>2, <3>3, PowerNext
    <3>5. CASE j = 0
      <4>1. t = 1
        BY <1>3, <3>3, <3>5, PowerStart
      <4> QED
        BY ONLY <1>3, <1>6, <3>4, <4>1
    <3>6. CASE j # 0
      <4>1. k > 1
        BY ONLY <2>6, <3>2, <3>6
      <4>2. t <= q
        BY ONLY <2>8, <3>1, <3>3, <4>1
      <4>3. t \in Nat
        <5>1. base >= 1
          BY <1>3
        <5> QED
          BY <1>3, <3>2, <3>3, <5>1, PowerTyped
      <4>4. base * t <= base * q /\ base * q \in Nat /\ base * t \in Nat
        BY ONLY <1>3, <2>9, <4>2, <4>3
      <4> QED
        BY ONLY <1>3, <2>9, <3>4, <4>4
    <3> QED
      BY <3>5, <3>6
  <2>14. \A i \in 1 .. l : u[i] = PlaceOf(m, base, glyphs, l - i)
    <3> SUFFICES ASSUME NEW i \in 1 .. l PROVE u[i] = PlaceOf(m, base, glyphs, l - i)
      OBVIOUS
    <3>1. CASE i = l
      <4>1. PICK z : z = l - i
        OBVIOUS
      <4>2. z = 0
        BY ONLY <2>6, <2>10, <3>1, <4>1
      <4>3. PlaceOf(m, base, glyphs, z) = c
        BY <1>3, <2>1, <2>3, <4>2, PlaceZero
      <4>4. u[i] = c
        BY ONLY <2>7, <2>10, <3>1
      <4> QED
        BY ONLY <4>1, <4>3, <4>4
    <3>2. CASE i # l
      <4>1. PICK j, h : j = k - i /\ h = l - i
        OBVIOUS
      <4>2. j \in Nat /\ h = j + 1 /\ i \in 1 .. k
        BY ONLY <2>6, <2>10, <3>2, <4>1, i \in 1 .. l
      <4>3. PlaceOf(m, base, glyphs, h) = PlaceOf(q, base, glyphs, j)
        BY <1>3, <2>1, <4>2, PlaceNext
      <4>4. u[i] = PlaceOf(q, base, glyphs, k - i)
        BY ONLY <2>7, <2>8, <4>2
      <4> QED
        BY ONLY <4>1, <4>3, <4>4
    <3> QED
      BY <3>1, <3>2
  <2>15. InPlace(u, m, base, glyphs)
    <3>1. Len(u) = l /\ Len(u) - 1 = k
      BY ONLY <2>6, <2>7, <2>10
    <3> QED
      BY ONLY <2>10, <2>12, <2>13, <2>14, <3>1 DEF InPlace
  <2> QED
    BY <1>2, <1>4, <2>15 DEF Good
<1> QED
  BY <1>3, <1>5, <1>6

\* npf_utoa_rev writes the digits of the number, each at its place.
LEMMA DigitsPositional ==
    ASSUME NEW base \in Bases, NEW glyphs \in Glyphs, NEW v \in Nat, v < PtrValues
    PROVE  Digits(v, base, glyphs) = Positional(v, base, glyphs)
<1>0. PICK f : Utoa(f, base, glyphs, v) /\ Digits(v, base, glyphs) = f[v]
  BY DigitsIs
<1>1. PICK u : u = Digits(v, base, glyphs)
  OBVIOUS
<1>2. v \in 0 .. v
  OBVIOUS
<1>3. InPlace(u, v, base, glyphs)
  BY <1>0, <1>1, <1>2, UtoaPlaces
<1>4. PICK l \in Nat : l = Len(u) /\ l >= 1 /\ l <= ConvSize
  <2>1. Len(f[v]) >= 1
    BY <1>0, <1>2, UtoaTyped
  <2>2. Len(u) \in Nat /\ Len(u) + 1 <= ConvSize
    BY <1>1, DigitsFit
  <2>3. ConvSize \in Nat
    BY ConvAssumption
  <2> QED
    BY <1>0, <1>1, <2>1, <2>2, <2>3
<1>5. u \in Seq(Char)
  BY <1>1, DigitsFit
<1>6. base \in Nat /\ base >= 1
  BY DEF Bases
<1>7. /\ Power(base, l) > v /\ (l > 1 => Power(base, l - 1) <= v)
      /\ \A i \in 1 .. l : u[i] = PlaceOf(v, base, glyphs, l - i)
  BY <1>3, <1>4 DEF InPlace
<1>8. PICK S : S = {k \in 1 .. ConvSize : Power(base, k) > v}
  OBVIOUS
<1>9. Min(S) = l
  <2>1. ConvSize \in Nat
    BY ConvAssumption
  <2>2. S \subseteq Nat /\ l \in S
    BY ONLY <1>4, <1>7, <1>8, <2>1
  <2>3. ASSUME NEW k \in S PROVE l <= k
    <3> SUFFICES ASSUME ~(l <= k) PROVE FALSE
      OBVIOUS
    <3>1. k \in Nat /\ k >= 1 /\ Power(base, k) > v
      BY ONLY <1>8, <2>1, k \in S
    <3>2. PICK j : j = l - 1
      OBVIOUS
    <3>3. j \in Nat /\ k <= j /\ l > 1
      BY ONLY <3>1, <3>2, l \in Nat, ~(l <= k)
    <3>4. Power(base, k) <= Power(base, j)
      BY <1>6, <3>1, <3>3, PowerGrows
    <3>5. Power(base, j) <= v
      BY ONLY <1>7, <3>2, <3>3
    <3>6. PICK x, y : x = Power(base, k) /\ y = Power(base, j)
      OBVIOUS
    <3>7. x \in Nat /\ y \in Nat
      BY <1>6, <3>1, <3>3, <3>6, PowerTyped
    <3>8. x > v /\ x <= y /\ y <= v
      BY ONLY <3>1, <3>4, <3>5, <3>6
    <3> QED
      BY ONLY <3>7, <3>8, v \in Nat
  <2>4. Min(S) \in S /\ \A k \in S : Min(S) <= k
    BY <2>2, LeastNumber
  <2>5. PICK w : w = Min(S)
    OBVIOUS
  <2>6. w \in Nat /\ w <= l /\ l <= w
    BY <2>2, <2>3, <2>4, <2>5
  <2> QED
    BY ONLY <2>5, <2>6, l \in Nat
<1>10. Positional(v, base, glyphs) = [i \in 1 .. l |-> PlaceOf(v, base, glyphs, l - i)]
  BY ONLY <1>8, <1>9 DEF Positional, PlaceOf
<1>11. u = [i \in 1 .. l |-> u[i]]
  BY ONLY <1>4, <1>5
<1> QED
  BY ONLY <1>1, <1>7, <1>10, <1>11

\* Only the first glyph is a zero.
LEMMA NoZero == ASSUME NEW glyphs \in Glyphs, NEW k \in 1 .. 15 PROVE glyphs[k + 1] # "0" /\ glyphs[1] = "0"
  BY DEF Glyphs, Lower, Upper

\* What the digits of a number start with.
LEMMA DigitsLead ==
    ASSUME NEW base \in Bases, NEW glyphs \in Glyphs, NEW v \in Nat, v < PtrValues
    PROVE  /\ Digits(v, base, glyphs) \in Seq(Char)
           /\ Len(Digits(v, base, glyphs)) \in Nat /\ Len(Digits(v, base, glyphs)) >= 1
           /\ v = 0 => Digits(v, base, glyphs) = <<"0">>
           /\ v > 0 => Digits(v, base, glyphs)[1] # "0"
<1>0. PICK f : Utoa(f, base, glyphs, v) /\ Digits(v, base, glyphs) = f[v]
  BY DigitsIs
<1>1. PICK u : u = Digits(v, base, glyphs)
  OBVIOUS
<1>2. v \in 0 .. v
  OBVIOUS
<1>3. InPlace(u, v, base, glyphs)
  BY <1>0, <1>1, <1>2, UtoaPlaces
<1>4. PICK l \in Nat : l = Len(u) /\ l >= 1
  <2>1. Len(f[v]) >= 1 /\ Len(f[v]) \in Nat
    BY <1>0, <1>2, UtoaTyped
  <2> QED
    BY <1>0, <1>1, <2>1
<1>5. u \in Seq(Char)
  BY <1>1, DigitsFit
<1>6. base \in Nat /\ base \in 8 .. 16
  BY DEF Bases
<1>7. glyphs[1] = "0"
  <2>1. PICK k : k \in 1 .. 15
    OBVIOUS
  <2> QED
    BY <2>1, NoZero
<1>8. ASSUME v = 0 PROVE u = <<"0">>
  <2>1. v < base /\ v + 1 = 1
    BY <1>6, <1>8
  <2>2. f[v] = <<glyphs[v + 1]>>
    BY <1>0, <1>2, <2>1, UtoaStep
  <2> QED
    BY ONLY <1>0, <1>1, <1>7, <2>1, <2>2
<1>9. ASSUME v > 0 PROVE u[1] # "0"
  <2>1. PICK j \in Nat : j = l - 1 /\ l = j + 1
    BY ONLY <1>4, l \in Nat
  <2>2. PICK p \in Nat : p = Power(base, j) /\ p > 0
    <3>1. base >= 1
      BY <1>6
    <3>2. Power(base, j) \in Nat \ {0}
      BY <1>6, <3>1, PowerTyped
    <3> QED
      BY ONLY <3>2
  <2>3. Power(base, l) = base * p
    BY <1>6, <2>1, <2>2, PowerNext
  <2>4. base * p > v
    BY ONLY <1>3, <1>4, <2>3 DEF InPlace
  <2>5. p <= v
    <3>1. CASE j = 0
      <4>1. p = 1
        BY <1>6, <2>2, <3>1, PowerStart
      <4> QED
        BY ONLY <1>9, <4>1, v \in Nat
    <3>2. CASE j # 0
      <4>1. l > 1
        BY ONLY <2>1, <3>2, j \in Nat
      <4> QED
        BY ONLY <1>3, <1>4, <2>1, <2>2, <4>1 DEF InPlace
    <3> QED
      BY <3>1, <3>2
  <2>6. PICK q, r : q = v \div p /\ r = v % p
    OBVIOUS
  <2>7. q \in Int /\ r \in 0 .. (p - 1) /\ v = p * q + r
    <3>1. v \in Int /\ p > 0
      BY ONLY <2>2, v \in Nat
    <3> QED
      BY ONLY <2>6, <3>1, p \in Nat, Modulo
  <2>8. q \in 1 .. (base - 1)
    <3>1. q <= 0 => p * q <= 0
      BY ONLY <2>7, p \in Nat
    <3>2. q >= base => p * q >= p * base
      BY ONLY <1>6, <2>7, p \in Nat
    <3>3. p * base = base * p /\ p * q \in Int /\ p * base \in Int
      BY ONLY <1>6, <2>7, p \in Nat
    <3>4. p * q > 0
      BY ONLY <2>5, <2>7, <3>3, p \in Nat, v \in Nat
    <3>5. p * q < p * base
      BY ONLY <2>4, <2>7, <3>3, p \in Nat, v \in Nat
    <3> QED
      BY ONLY <1>6, <2>7, <3>1, <3>2, <3>3, <3>4, <3>5
  <2>9. q % base = q
    <3>1. PICK b \in Nat : b = base
      BY <1>6
    <3>2. PICK z \in Int : z = 0
      OBVIOUS
    <3>3. q \in Nat /\ q < b /\ b > 0
      BY ONLY <1>6, <2>8, <3>1
    <3>4. q = b * z + q
      BY ONLY <3>2, <3>3, b \in Nat
    <3>5. q \in Int
      BY ONLY <3>3
    <3>6. q % b = q
      BY ONLY <3>3, <3>4, <3>5, b \in Nat, z \in Int, ModuloIs
    <3> QED
      BY ONLY <3>1, <3>6
  <2>10. u[1] = glyphs[q + 1]
    <3>1. u[1] = PlaceOf(v, base, glyphs, l - 1)
      BY ONLY <1>3, <1>4, l \in Nat DEF InPlace
    <3> QED
      BY ONLY <2>1, <2>2, <2>6, <2>9, <3>1 DEF PlaceOf
  <2>11. q \in 1 .. 15
    BY ONLY <1>6, <2>8
  <2> QED
    BY <2>10, <2>11, NoZero
<1> QED
  BY ONLY <1>1, <1>4, <1>5, <1>8, <1>9, l \in Nat

-----------------------------------------------------------------------------
(* A field as C lays it out *)

\* A prefix and a body with what fills the width.
Laid(side, pre, body, n) ==
    IF side = "right" THEN pre \o body \o Repeat(" ", n)
    ELSE IF side = "inside" THEN pre \o Repeat("0", n) \o body
    ELSE Repeat(" ", n) \o pre \o body

\* Where npf_vpprintf fills a field.
Side(s, q) ==
    IF "-" \in s.flags THEN "right"
    ELSE IF "0" \in s.flags /\ ~(s.precOpt # "none" /\ q.prec = 0 /\ q.zero) THEN "inside" ELSE "left"

\* Nothing in front and nothing behind.
LEMMA Blank == ASSUME NEW s \in Seq(Char), NEW e, e = <<>> PROVE s \o e = s /\ e \o s = s /\ e \in Seq(Char) /\ Len(e) = 0
  BY ConcatEmptySeq, EmptySeq

\* A character, no times.
LEMMA RepeatNone == ASSUME NEW c, NEW n, n = 0 PROVE Repeat(c, n) = <<>>
<1>1. Repeat(c, n) = [i \in 1 .. n |-> c] /\ 1 .. n = {}
  BY DEF Repeat
<1> QED
  BY <1>1

\* A field that is wide enough is not filled.
LEMMA LaidNone ==
    ASSUME NEW side, NEW pre \in Seq(Char), NEW body \in Seq(Char), NEW n, n = 0
    PROVE  Laid(side, pre, body, n) = pre \o body
<1>1. PICK e : e = <<>>
  OBVIOUS
<1>2. Repeat(" ", n) = e /\ Repeat("0", n) = e
  BY <1>1, RepeatNone
<1>3. pre \o e = pre /\ e \o pre = pre
  BY <1>1, Blank
<1>4. PICK u : u = pre \o body
  OBVIOUS
<1>5. u \in Seq(Char)
  BY <1>4, ConcatTyped
<1>6. u \o e = u
  BY <1>1, <1>5, Blank
<1> QED
  BY ONLY <1>2, <1>3, <1>4, <1>6 DEF Laid

\* A number, or none if it is negative.
LEMMA MaxNat == ASSUME NEW x \in Int PROVE Max({0, x}) \in Nat /\ Max({0, x}) = IF x <= 0 THEN 0 ELSE x
<1>1. PICK z \in Int : z = 0
  OBVIOUS
<1>2. Max({z, x}) = IF z >= x THEN z ELSE x
  BY MaxTwo
<1> QED
  BY <1>1, <1>2

\* Zeros up to the precision.
PrecPad(s, q) == IF s.conv = "s" THEN 0 ELSE Max({0, q.prec - Len(q.chars)})

\* What npf_vpprintf lays out, in terms of the side that it fills.
LEMMA LayoutIs ==
    ASSUME NEW s, NEW q, s.width \in Nat, Typed(q), q.sign = <<>> \/ q.prefix = <<>>,
           s.widthOpt = "none" => s.width = 0,
           NEW pre, pre = q.prefix \o q.sign,
           NEW body, body = Repeat("0", PrecPad(s, q)) \o q.chars,
           NEW n, n = Max({0, s.width - Len(pre) - Len(body)})
    PROVE  /\ pre \in Seq(Char) /\ body \in Seq(Char) /\ n \in Nat
           /\ Layout(s, q) = Laid(Side(s, q), pre, body, n)
<1>1. q.sign \in Seq(Char) /\ q.prefix \in Seq(Char) /\ q.chars \in Seq(Char) /\ q.prec \in Nat
  BY DEF Typed
<1>2. PICK g, p, c, pad, z : /\ g = q.sign /\ p = q.prefix /\ c = q.chars
                             /\ pad = PrecPad(s, q) /\ z = Repeat("0", pad)
  OBVIOUS
<1>3. g \in Seq(Char) /\ p \in Seq(Char) /\ c \in Seq(Char)
  BY <1>1, <1>2
<1>4. Len(g) \in Nat /\ Len(p) \in Nat /\ Len(c) \in Nat
  BY <1>3, LenProperties
<1>5. pad \in Nat
  <2>1. PICK x : x = q.prec - Len(q.chars)
    OBVIOUS
  <2>2. x \in Int
    BY <1>1, <1>2, <1>4, <2>1
  <2>3. Max({0, x}) \in Nat
    BY <2>2, MaxNat
  <2>4. pad = IF s.conv = "s" THEN 0 ELSE Max({0, x})
    BY ONLY <1>2, <2>1 DEF PrecPad
  <2> QED
    BY ONLY <2>3, <2>4
<1>6. "0" \in Char /\ " " \in Char
  BY CharAssumption DEF Syntax, FlagChars
<1>7. z \in Seq(Char) /\ Len(z) = pad
  BY <1>2, <1>5, <1>6, RepeatTyped
<1>8. pre = p \o g /\ body = z \o c
  BY ONLY <1>2, pre = q.prefix \o q.sign, body = Repeat("0", PrecPad(s, q)) \o q.chars
<1>9. /\ pre \in Seq(Char) /\ Len(pre) = Len(p) + Len(g)
      /\ body \in Seq(Char) /\ Len(body) = pad + Len(c)
  <2>1. pre \in Seq(Char) /\ Joint(pre, p, g) /\ body \in Seq(Char) /\ Joint(body, z, c)
    BY <1>3, <1>7, <1>8, ConcatAt
  <2> QED
    BY <1>7, <2>1 DEF Joint
<1>10. PICK x : x = s.width - Len(pre) - Len(body)
  OBVIOUS
<1>11. x \in Int
  BY <1>4, <1>5, <1>9, <1>10
<1>12. n = Max({0, x})
  BY ONLY <1>10, n = Max({0, s.width - Len(pre) - Len(body)})
<1>13. n \in Nat
  BY <1>11, <1>12, MaxNat
<1>14. PICK left, zero, padC :
         /\ left = ("-" \in s.flags)
         /\ zero = ("0" \in s.flags /\ ~(s.precOpt # "none" /\ q.prec = 0 /\ q.zero))
         /\ padC = IF s.widthOpt = "none" THEN Nul
                   ELSE IF "0" \in s.flags /\ ~left /\ ~(s.precOpt # "none" /\ q.prec = 0 /\ q.zero)
                        THEN "0" ELSE " "
  OBVIOUS
<1>14a. PICK side : side = Side(s, q)
  OBVIOUS
<1>14b. side = IF left THEN "right" ELSE IF zero THEN "inside" ELSE "left"
  BY ONLY <1>14, <1>14a DEF Side
<1>15. padC = IF s.widthOpt = "none" THEN Nul ELSE IF zero /\ ~left THEN "0" ELSE " "
  BY ONLY <1>14
<1>16. n = Max({0, s.width - Len(c) - Len(g) - Len(p) - pad})
  <2>1. x = s.width - Len(c) - Len(g) - Len(p) - pad
    BY ONLY <1>4, <1>5, <1>9, <1>10, s.width \in Nat
  <2> QED
    BY ONLY <1>12, <2>1
<1>17. PICK b, o, e : b = Repeat(" ", n) /\ o = Repeat("0", n) /\ e = <<>>
  OBVIOUS
<1>18. b \in Seq(Char) /\ o \in Seq(Char) /\ e \in Seq(Char)
  BY <1>6, <1>13, <1>17, RepeatTyped, EmptySeq
<1>19. PICK head, sign, tail :
         /\ head = IF left \/ padC = Nul THEN p ELSE IF padC = "0" THEN g \o p \o o ELSE b \o p
         /\ sign = IF padC = "0" THEN e ELSE g
         /\ tail = IF left /\ padC # Nul THEN Repeat(padC, n) ELSE e
  OBVIOUS
<1>20. Layout(s, q) = head \o sign \o z \o c \o tail
  BY ONLY <1>2, <1>14, <1>16, <1>17, <1>19 DEF Layout, PrecPad
<1>21. Laid(side, pre, body, n)
         = IF left THEN pre \o body \o b ELSE IF zero THEN pre \o o \o body ELSE b \o pre \o body
  BY ONLY <1>14b, <1>17 DEF Laid
<1>22. \A t \in Seq(Char) : t \o z \o c = t \o body /\ t \o e = t
  <2> SUFFICES ASSUME NEW t \in Seq(Char) PROVE t \o z \o c = t \o body /\ t \o e = t
    OBVIOUS
  <2>1. (t \o z) \o c = t \o (z \o c)
    BY ONLY <1>3, <1>7, t \in Seq(Char), TextAssociative, SMTT(30)
  <2>2. t \o e = t
    BY <1>17, Blank
  <2> QED
    BY ONLY <1>8, <2>1, <2>2
<1>23. g \o p = pre
  <2>1. g = e \/ p = e
    BY <1>2, <1>17
  <2>2. g \o e = g /\ e \o g = g /\ p \o e = p /\ e \o p = p
    BY <1>3, <1>17, Blank
  <2> QED
    BY ONLY <1>8, <2>1, <2>2
<1>24. CASE s.widthOpt = "none"
  <2>1. padC = Nul
    BY ONLY <1>15, <1>24
  <2>2. head = p /\ sign = g /\ tail = e
    BY ONLY <1>19, <2>1 DEF Nul
  <2>3. head \o sign = pre /\ pre \o z \o c = pre \o body
    BY ONLY <1>8, <1>9, <1>22, <2>2
  <2>4. PICK w : w = pre \o body
    OBVIOUS
  <2>5. w \in Seq(Char) /\ w \o e = w
    BY <1>9, <1>22, <2>4, ConcatTyped
  <2>6. Layout(s, q) = w
    BY ONLY <1>20, <2>2, <2>3, <2>4, <2>5
  <2>7. n = 0
    <3>1. s.width = 0
      BY <1>24
    <3>2. x <= 0
      BY ONLY <1>4, <1>5, <1>9, <1>10, <3>1
    <3> QED
      BY <1>11, <1>12, <3>2, MaxNat
  <2>8. Laid(side, pre, body, n) = w
    BY ONLY <1>9, <2>4, <2>7, LaidNone, Zenon
  <2> QED
    BY ONLY <1>9, <1>13, <1>14a, <2>6, <2>8
<1>25. CASE s.widthOpt # "none" /\ left
  <2>1. padC = " "
    BY ONLY <1>15, <1>25
  <2>2. head = p /\ sign = g /\ tail = b
    BY ONLY <1>17, <1>19, <1>25, <2>1 DEF Nul
  <2>3. head \o sign = pre /\ pre \o z \o c = pre \o body
    BY ONLY <1>8, <1>9, <1>22, <2>2
  <2>4. Layout(s, q) = Laid(side, pre, body, n)
    BY ONLY <1>20, <1>21, <1>25, <2>2, <2>3
  <2> QED
    BY ONLY <1>9, <1>13, <1>14a, <2>4
<1>26. CASE s.widthOpt # "none" /\ ~left /\ zero
  <2>1. padC = "0"
    BY ONLY <1>15, <1>26
  <2>2. head = g \o p \o o /\ sign = e /\ tail = e
    BY ONLY <1>17, <1>19, <1>26, <2>1 DEF Nul
  <2>3. PICK h : h = pre \o o
    OBVIOUS
  <2>4. h \in Seq(Char) /\ head = h
    BY <1>9, <1>18, <1>23, <2>2, <2>3, ConcatTyped
  <2>5. h \o e = h /\ h \o z \o c = h \o body
    BY ONLY <1>22, <2>4
  <2>6. PICK w : w = h \o body
    OBVIOUS
  <2>7. w \in Seq(Char) /\ w \o e = w
    BY <1>9, <1>22, <2>4, <2>6, ConcatTyped
  <2>8. Layout(s, q) = w
    BY ONLY <1>20, <2>2, <2>4, <2>5, <2>6, <2>7
  <2>9. Laid(side, pre, body, n) = w
    BY ONLY <1>21, <1>26, <2>3, <2>6
  <2> QED
    BY ONLY <1>9, <1>13, <1>14a, <2>8, <2>9
<1>27. CASE s.widthOpt # "none" /\ ~left /\ ~zero
  <2>1. padC = " "
    BY ONLY <1>15, <1>27
  <2>2. head = b \o p /\ sign = g /\ tail = e
    BY ONLY <1>17, <1>19, <1>27, <2>1 DEF Nul
  <2>3. PICK h : h = b \o pre
    OBVIOUS
  <2>4. h \in Seq(Char) /\ head \o sign = h
    <3>1. (b \o p) \o g = b \o (p \o g)
      BY ONLY <1>3, <1>18, TextAssociative, SMTT(30)
    <3>2. h \in Seq(Char)
      BY <1>9, <1>18, <2>3, ConcatTyped
    <3> QED
      BY ONLY <1>8, <2>2, <2>3, <3>1, <3>2
  <2>5. h \o z \o c = h \o body
    BY ONLY <1>22, <2>4
  <2>6. PICK w : w = h \o body
    OBVIOUS
  <2>7. w \in Seq(Char) /\ w \o e = w
    BY <1>9, <1>22, <2>4, <2>6, ConcatTyped
  <2>8. Layout(s, q) = w
    BY ONLY <1>20, <2>2, <2>4, <2>5, <2>6, <2>7
  <2>9. Laid(side, pre, body, n) = w
    BY ONLY <1>21, <1>27, <2>3, <2>6
  <2> QED
    BY ONLY <1>9, <1>13, <1>14a, <2>8, <2>9
<1> QED
  BY <1>14, <1>24, <1>25, <1>26, <1>27

\* The digits of a number that is converted.
DigitsOf(c, val) == Digits(Size(val), Base(c), IF c = "X" THEN Upper ELSE Lower)

\* They are the digits by their places; only zero starts with a zero.
LEMMA DigitsOfIs ==
    ASSUME NEW c, NEW val \in Int, Size(val) \in Nat, Size(val) < PtrValues,
           NEW d, d = DigitsOf(c, val)
    PROVE  /\ d = Positional(Size(val), Base(c), IF c = "X" THEN Upper ELSE Lower)
           /\ d \in Seq(Char) /\ Len(d) \in Nat /\ Len(d) >= 1
           /\ val = 0 => d = <<"0">>
           /\ val # 0 => d[1] # "0"
<1>1. PICK base, glyphs, v : base = Base(c) /\ glyphs = (IF c = "X" THEN Upper ELSE Lower) /\ v = Size(val)
  OBVIOUS
<1>2. base \in Bases /\ glyphs \in Glyphs
  BY ONLY <1>1 DEF Bases, Glyphs, Base
<1>3. v \in Nat /\ v < PtrValues /\ (val = 0 => v = 0) /\ (val # 0 => v > 0)
  <2>1. v = IF val < 0 THEN -val ELSE val
    BY ONLY <1>1 DEF Size
  <2>2. v \in Nat /\ v < PtrValues
    BY <1>1
  <2> QED
    BY ONLY <2>1, <2>2, val \in Int
<1>4. d = Digits(v, base, glyphs)
  BY ONLY <1>1, d = DigitsOf(c, val) DEF DigitsOf
<1>5. d = Positional(v, base, glyphs)
  BY <1>2, <1>3, <1>4, DigitsPositional
<1>6. /\ d \in Seq(Char) /\ Len(d) \in Nat /\ Len(d) >= 1
      /\ v = 0 => d = <<"0">>
      /\ v > 0 => d[1] # "0"
  BY <1>2, <1>3, <1>4, DigitsLead
<1> QED
  BY ONLY <1>1, <1>3, <1>5, <1>6

\* A zero that has no digits, and the other form of a number.
Nothing(s, val) == val = 0 /\ s.precOpt # "none" /\ s.prec = 0
Alternate(s) == "#" \in s.flags /\ s.conv \notin {"d", "i"}

\* What a number with some digits becomes.
Spelt(q, s, val, digits) ==
    /\ q.sign = IF s.conv \notin {"d", "i"} THEN <<>>
                ELSE IF val < 0 THEN <<"-">>
                ELSE IF "+" \in s.flags THEN <<"+">>
                ELSE IF " " \in s.flags THEN <<" ">> ELSE <<>>
    /\ q.prefix = IF Alternate(s) /\ val # 0 /\ Base(s.conv) = 16
                  THEN <<"0", IF s.conv = "X" THEN "X" ELSE "x">> ELSE <<>>
    /\ q.chars = IF Nothing(s, val) THEN <<>>
                 ELSE IF Alternate(s) /\ val # 0 /\ s.conv = "o" THEN <<"0">> \o digits ELSE digits
    /\ q.prec = IF Nothing(s, val) /\ Alternate(s) /\ s.conv = "o" THEN 1 ELSE s.prec

\* What a number is converted to.
LEMMA ConvertIs ==
    ASSUME NEW s, s.mod \in Modifiers, NEW v \in Int, NEW q, q = Convert(s, v),
           NEW val, val = Converted(s, v), NEW digits, digits = DigitsOf(s.conv, val)
    PROVE  Spelt(q, s, val, digits)
<1>1. val = IF s.conv = "p" THEN v % PtrValues
            ELSE IF Values(s.mod) = 0 THEN 0
            ELSE IF s.conv \in {"d", "i"} THEN Signed(v, Values(s.mod)) ELSE v % Values(s.mod)
  BY ValuesOf DEF Converted
<1>2. digits = Digits(IF val < 0 THEN -val ELSE val, Base(s.conv),
                      IF s.conv = "X" THEN Upper ELSE Lower)
  BY ONLY digits = DigitsOf(s.conv, val) DEF DigitsOf, Size
<1>3. q = [sign |-> IF s.conv \notin {"d", "i"} THEN <<>>
                    ELSE IF val < 0 THEN <<"-">>
                    ELSE IF "+" \in s.flags THEN <<"+">>
                    ELSE IF " " \in s.flags THEN <<" ">> ELSE <<>>,
           prefix |-> IF Alternate(s) /\ val # 0 /\ Base(s.conv) = 16
                      THEN <<"0", IF s.conv = "X" THEN "X" ELSE "x">> ELSE <<>>,
           chars |-> IF Nothing(s, val) THEN <<>>
                     ELSE IF Alternate(s) /\ val # 0 /\ s.conv = "o" THEN <<"0">> \o digits ELSE digits,
           prec |-> IF Nothing(s, val) /\ Alternate(s) /\ s.conv = "o" THEN 1 ELSE s.prec,
           zero |-> val = 0]
  BY ONLY <1>1, <1>2, q = Convert(s, v) DEF Convert, Nothing, Alternate
<1> QED
  BY ONLY <1>3 DEF Spelt

\* Once more.
LEMMA RepeatMore ==
    ASSUME NEW c \in Char, NEW k \in Nat, NEW m, m = k + 1, NEW o, o = <<c>>
    PROVE  Repeat(c, k) \o o = Repeat(c, m)
<1>1. PICK r, u, w : r = Repeat(c, k) /\ u = r \o o /\ w = Repeat(c, m)
  OBVIOUS
<1>2. r \in Seq(Char) /\ Len(r) = k /\ \A i \in 1 .. k : r[i] = c
  BY <1>1, RepeatTyped
<1>3. m \in Nat
  OBVIOUS
<1>4. w \in Seq(Char) /\ Len(w) = m /\ \A i \in 1 .. m : w[i] = c
  BY <1>1, <1>3, RepeatTyped
<1>5. o \in Seq(Char) /\ Len(o) = 1 /\ o[1] = c
  BY CharOne
<1>6. u \in Seq(Char) /\ Joint(u, r, o)
  BY <1>1, <1>2, <1>5, ConcatAt
<1>7. Len(u) = m
  BY ONLY <1>2, <1>5, <1>6, k \in Nat, m = k + 1 DEF Joint
<1>8. ASSUME NEW i \in 1 .. m PROVE u[i] = c
  <2>1. CASE i \in 1 .. k
    BY ONLY <1>2, <1>6, <2>1 DEF Joint
  <2>2. CASE i = k + 1
    BY ONLY <1>2, <1>5, <1>6, <2>2, k \in Nat DEF Joint
  <2> QED
    BY ONLY <2>1, <2>2, k \in Nat, m = k + 1, i \in 1 .. m
<1>9. Len(u) = Len(w) /\ \A i \in 1 .. Len(u) : u[i] = w[i]
  BY ONLY <1>4, <1>7, <1>8
<1>10. u = w
  BY ONLY <1>4, <1>6, <1>9, SeqEqual
<1> QED
  BY ONLY <1>1, <1>10

\* What lacks to a precision with and without a zero that leads.
Lacks(m, k, L, prec) == m = Max({0, prec - (1 + L)}) /\ k = Max({0, prec - L})

\* A number that is not zero, with zeros up to a precision.
Leading(d, L, prec, m, k, o, padded) ==
    /\ d \in Seq(Char) /\ L \in Nat /\ L = Len(d) /\ L >= 1 /\ d[1] # "0"
    /\ prec \in Int /\ Lacks(m, k, L, prec)
    /\ o = <<"0">> /\ padded = Repeat("0", k) \o d

\* The zero that leads takes the place of one of the others, if there are any.
LEMMA ZeroLeads ==
    ASSUME NEW d, NEW L, NEW prec, NEW m, NEW k, NEW o, NEW padded, Leading(d, L, prec, m, k, o, padded)
    PROVE  Repeat("0", m) \o (o \o d) = IF padded = <<>> \/ padded[1] # "0" THEN o \o padded ELSE padded
<1>0. /\ d \in Seq(Char) /\ L \in Nat /\ L = Len(d) /\ L >= 1 /\ d[1] # "0"
      /\ prec \in Int /\ Lacks(m, k, L, prec)
      /\ o = <<"0">> /\ padded = Repeat("0", k) \o d
  BY DEF Leading
<1>1. "0" \in Char
  BY <1>0, CharAssumption DEF Syntax, FlagChars
<1>2. o \in Seq(Char) /\ Len(o) = 1 /\ o[1] = "0"
  BY <1>0, <1>1, CharOne
<1>3. PICK x, y : x = prec - (1 + L) /\ y = prec - L
  OBVIOUS
<1>4. x \in Int /\ y \in Int /\ x = y - 1
  BY ONLY <1>0, <1>3
<1>5. m \in Nat /\ m = (IF x <= 0 THEN 0 ELSE x) /\ k \in Nat /\ k = IF y <= 0 THEN 0 ELSE y
  BY ONLY <1>0, <1>3, <1>4, MaxNat DEF Lacks
<1>6. PICK od : od = o \o d
  OBVIOUS
<1>7. od \in Seq(Char)
  BY <1>0, <1>2, <1>6, ConcatTyped
<1>8. CASE k = 0
  <2>1. m = 0
    BY ONLY <1>0, <1>4, <1>5, <1>8
  <2>2. PICK e : e = <<>>
    OBVIOUS
  <2>3. Repeat("0", k) = e /\ Repeat("0", m) = e
    BY <1>0, <1>8, <2>1, <2>2, RepeatNone
  <2>4. e \o d = d /\ e \o od = od
    BY <1>0, <1>7, <2>2, Blank
  <2>5. padded = d
    BY ONLY <1>0, <2>3, <2>4
  <2> QED
    BY ONLY <1>0, <1>6, <2>3, <2>4, <2>5
<1>9. CASE k # 0
  <2>1. m \in Nat /\ k = m + 1
    BY ONLY <1>0, <1>4, <1>5, <1>9
  <2>2. PICK r, t : r = Repeat("0", m) /\ t = Repeat("0", k)
    OBVIOUS
  <2>3. /\ r \in Seq(Char) /\ t \in Seq(Char) /\ Len(t) = k
        /\ \A i \in 1 .. k : t[i] = "0"
    BY <1>0, <1>1, <1>5, <2>1, <2>2, RepeatTyped
  <2>4. r \o o = t
    BY <1>0, <1>1, <2>1, <2>2, RepeatMore
  <2>5. (r \o o) \o d = r \o (o \o d)
    <3>1. o \in Seq(Char) /\ r \in Seq(Char)
      BY ONLY <1>0, <1>2, <2>3
    <3> QED
      BY ONLY <1>0, <3>1, ConcatAssociative
  <2>6. padded = t \o d
    BY ONLY <1>0, <2>2
  <2>7. padded \in Seq(Char) /\ Joint(padded, t, d)
    BY ONLY <1>0, <2>3, <2>6, ConcatAt
  <2>8. padded[1] = "0" /\ Len(padded) = k + L
    BY ONLY <1>0, <2>1, <2>3, <2>7 DEF Joint
  <2>9. padded # <<>>
    <3>1. Len(padded) # 0
      BY ONLY <1>0, <2>1, <2>8
    <3> QED
      BY ONLY <1>0, <3>1
  <2> QED
    BY ONLY <1>0, <2>2, <2>4, <2>5, <2>6, <2>8, <2>9
<1> QED
  BY <1>0, <1>8, <1>9

\* The steps of the definition of C's digits.
Shortest(d, prec) ==
    IF CValue(d) = 0 /\ prec = 0 THEN <<>>
    ELSE Positional(IF CValue(d) < 0 THEN -CValue(d) ELSE CValue(d), Base(d.conv),
                    IF d.conv = "X" THEN Upper ELSE Lower)
Zeros(prec, u) == IF prec = None THEN 0 ELSE Max({0, prec - Len(u)})
Padded(prec, u) == Repeat("0", Zeros(prec, u)) \o u
Led(d, flags, u) == IF d.conv = "o" /\ "#" \in flags /\ (u = <<>> \/ u[1] # "0") THEN <<"0">> \o u ELSE u

\* The definition is these steps.
LEMMA CDigitsIs ==
    ASSUME NEW d, NEW flags, NEW prec
    PROVE  CDigits(d, flags, prec) = Led(d, flags, Padded(prec, Shortest(d, prec)))
  BY DEF CDigits, Shortest, Zeros, Padded, Led

\* The flags of a directive, and the precision that C takes.
FlagSet(item) == {item.flags[i] : i \in DOMAIN item.flags}
PrecOrNone(item) == IF item.prec < 0 THEN None ELSE item.prec

\* What npf_parse_format_spec and the arguments make of the flags, the width and the precision.
LEMMA FieldFlags ==
    ASSUME NEW item, IsDirective(item), NEW s, s = FieldOf(item)
    PROVE  /\ "-" \in s.flags <=> "-" \in FlagSet(item) \/ item.width < 0
           /\ \A c \in {"#", "+", " "} : c \in s.flags <=> c \in FlagSet(item)
           /\ "0" \in s.flags <=> /\ "0" \in FlagSet(item) \/ (item.width = 0 /\ ~item.starWidth)
                                  /\ ~(PrecGiven(item) /\ item.conv \in Integral)
           /\ s.widthOpt = "none" => s.width = 0
           /\ s.precOpt = "none" <=> ~PrecGiven(item)
           /\ item.conv # "p" => s.prec = IF PrecGiven(item) THEN item.prec ELSE 0
           /\ s.width = IF item.width = None THEN 0 ELSE IF item.width < 0 THEN -item.width ELSE item.width
           /\ item.width = 0 => s.width = 0
           /\ PrecOrNone(item) = None <=> ~PrecGiven(item)
           /\ PrecGiven(item) => PrecOrNone(item) = item.prec
           /\ PrecOrNone(item) = 0 <=> PrecGiven(item) /\ item.prec = 0
<1>1. /\ item.width \in Int /\ item.prec \in Int /\ item.starWidth \in BOOLEAN /\ item.starPrec \in BOOLEAN
      /\ item.starWidth => item.width # None
  BY CountsAre
<1>2. item.flags \in Seq(FlagChars) /\ DOMAIN item.flags = 1 .. Len(item.flags)
  BY DirectiveFields
<1>3. None \in Nat /\ None > 9
  BY NoneIs
<1>4. PICK F : F = FlagSet(item)
  OBVIOUS
<1>5. FlagsOf(item) = F \cup (IF item.width = 0 /\ ~item.starWidth THEN {"0"} ELSE {})
  BY ONLY <1>2, <1>4 DEF FlagsOf, FlagSet
<1>6. /\ s.flags = (FlagsOf(item) \cup (IF item.width < 0 THEN {"-"} ELSE {}))
                   \ (IF PrecGiven(item) /\ item.conv \in Integral THEN {"0"} ELSE {})
      /\ s.width = IF item.width = None THEN 0 ELSE IF item.width < 0 THEN -item.width ELSE item.width
      /\ s.widthOpt = IF item.starWidth THEN "star"
                      ELSE IF item.width \notin {0, None} THEN "literal" ELSE "none"
      /\ s.prec = IF PrecGiven(item) THEN item.prec ELSE IF item.conv = "p" THEN PtrDigits ELSE 0
      /\ s.precOpt = IF ~PrecGiven(item) THEN "none" ELSE IF item.starPrec THEN "star" ELSE "literal"
  BY ONLY s = FieldOf(item) DEF FieldOf
<1>7. /\ "-" \in s.flags <=> "-" \in F \/ item.width < 0
      /\ \A c \in {"#", "+", " "} : c \in s.flags <=> c \in F
      /\ "0" \in s.flags <=> /\ "0" \in F \/ (item.width = 0 /\ ~item.starWidth)
                             /\ ~(PrecGiven(item) /\ item.conv \in Integral)
  BY ONLY <1>5, <1>6
<1>8. s.widthOpt = "none" => s.width = 0
  BY ONLY <1>6
<1>9. s.precOpt = "none" <=> ~PrecGiven(item)
  BY ONLY <1>6
<1>10. item.width = 0 => s.width = 0
  BY ONLY <1>3, <1>6
<1>11. /\ PrecOrNone(item) = None <=> ~PrecGiven(item)
       /\ PrecGiven(item) => PrecOrNone(item) = item.prec
       /\ PrecOrNone(item) = 0 <=> PrecGiven(item) /\ item.prec = 0
  BY ONLY <1>1, <1>3 DEF PrecOrNone, PrecGiven
<1> QED
  BY ONLY <1>4, <1>6, <1>7, <1>8, <1>9, <1>10, <1>11

\* The sign or the 0x of a number is what C asks for.
LEMMA PrefixIsC ==
    ASSUME NEW item, IsDirective(item), item.conv \in Integral, NEW s, s = FieldOf(item),
           NEW q, q = Convert(s, item.val)
    PROVE  /\ q.sign = <<>> \/ q.prefix = <<>>
           /\ q.prefix \o q.sign = CPrefix(item, FlagSet(item))
<1>0. item.val \in Int
  <2>1. item.conv \notin {"c", "s"}
    BY DEF Integral
  <2> QED
    BY <2>1 DEF IsDirective
<1>1. s.conv = item.conv /\ s.mod = item.mod /\ s.mod \in Modifiers /\ s.prec \in Nat
  BY FieldFields
<1>2. PICK val, alt : val = Converted(s, item.val) /\ (alt <=> Alternate(s))
  OBVIOUS
<1>2a. alt <=> "#" \in s.flags /\ s.conv \notin {"d", "i"}
  BY ONLY <1>2 DEF Alternate
<1>3. PICK F : F = FlagSet(item)
  OBVIOUS
<1>4. \A c \in {"#", "+", " "} : c \in s.flags <=> c \in F
  BY <1>3, FieldFlags
<1>5. val = CValue(item)
  <2>1. s.conv # "p"
    BY <1>1 DEF Integral
  <2> QED
    BY ONLY <1>1, <1>2, <2>1 DEF Converted, CValue
<1>6. /\ q.sign = IF s.conv \notin {"d", "i"} THEN <<>>
                  ELSE IF val < 0 THEN <<"-">>
                  ELSE IF "+" \in s.flags THEN <<"+">>
                  ELSE IF " " \in s.flags THEN <<" ">> ELSE <<>>
      /\ q.prefix = IF alt /\ val # 0 /\ Base(s.conv) = 16
                    THEN <<"0", IF s.conv = "X" THEN "X" ELSE "x">> ELSE <<>>
  <2>1. PICK digits : digits = DigitsOf(s.conv, val)
    OBVIOUS
  <2>2. /\ q.sign = IF s.conv \notin {"d", "i"} THEN <<>>
                    ELSE IF val < 0 THEN <<"-">>
                    ELSE IF "+" \in s.flags THEN <<"+">>
                    ELSE IF " " \in s.flags THEN <<" ">> ELSE <<>>
        /\ q.prefix = IF Alternate(s) /\ val # 0 /\ Base(s.conv) = 16
                      THEN <<"0", IF s.conv = "X" THEN "X" ELSE "x">> ELSE <<>>
    <3>1. PICK v : v = item.val
      OBVIOUS
    <3>2. Spelt(q, s, val, digits)
      BY <1>0, <1>1, <1>2, <2>1, <3>1, ConvertIs
    <3> QED
      BY ONLY <3>2 DEF Spelt
  <2> QED
    BY ONLY <1>2, <2>2
<1>7. PICK e : e = <<>>
  OBVIOUS
<1>8. Typed(q)
  BY <1>0, <1>1, ConvertTyped
<1>9. q.sign \in Seq(Char) /\ q.prefix \in Seq(Char)
  BY <1>8 DEF Typed
<1>10. /\ q.prefix \o e = q.prefix
       /\ e \o q.sign = q.sign
  BY <1>7, <1>9, Blank
<1>11. CASE item.conv \in {"d", "i"}
  <2>1. q.prefix = e
    BY ONLY <1>1, <1>2a, <1>6, <1>7, <1>11
  <2>2. q.sign = CPrefix(item, F)
    BY ONLY <1>1, <1>4, <1>5, <1>6, <1>11 DEF CPrefix
  <2> QED
    BY ONLY <1>3, <1>7, <1>10, <2>1, <2>2
<1>12. CASE item.conv \notin {"d", "i"}
  <2>1. q.sign = e
    BY ONLY <1>1, <1>6, <1>7, <1>12
  <2>2. Base(item.conv) = 16 <=> item.conv \in {"x", "X"}
    BY <1>12 DEF Base, Integral
  <2>3. item.conv \in {"x", "X"} => (IF item.conv = "X" THEN "X" ELSE "x") = item.conv
    OBVIOUS
  <2>4. q.prefix = CPrefix(item, F)
    <3>1. CASE item.conv \in {"x", "X"} /\ "#" \in F /\ val # 0
      <4>1. q.prefix = <<"0", IF s.conv = "X" THEN "X" ELSE "x">>
        BY ONLY <1>1, <1>2a, <1>4, <1>6, <1>12, <2>2, <3>1
      <4>2. CPrefix(item, F) = <<"0", item.conv>>
        BY ONLY <1>5, <1>12, <3>1 DEF CPrefix
      <4> QED
        BY ONLY <1>1, <2>3, <3>1, <4>1, <4>2
    <3>2. CASE ~(item.conv \in {"x", "X"} /\ "#" \in F /\ val # 0)
      <4>1. q.prefix = <<>>
        BY ONLY <1>1, <1>2a, <1>4, <1>6, <1>12, <2>2, <3>2
      <4>2. CPrefix(item, F) = <<>>
        BY ONLY <1>5, <1>12, <3>2 DEF CPrefix
      <4> QED
        BY ONLY <4>1, <4>2
    <3> QED
      BY <3>1, <3>2
  <2> QED
    BY ONLY <1>3, <1>7, <1>10, <2>1, <2>4
<1> QED
  BY <1>11, <1>12

\* So are its digits, with zeros up to the precision.
LEMMA DigitsAreC ==
    ASSUME NEW item, IsDirective(item), item.conv \in Integral, NEW s, s = FieldOf(item),
           NEW q, q = Convert(s, item.val)
    PROVE  Repeat("0", PrecPad(s, q)) \o q.chars = CDigits(item, FlagSet(item), PrecOrNone(item))
<1>0. item.val \in Int
  <2>1. item.conv \notin {"c", "s"}
    BY DEF Integral
  <2> QED
    BY <2>1 DEF IsDirective
<1>1. s.conv = item.conv /\ s.mod = item.mod /\ s.mod \in Modifiers /\ s.prec \in Nat
  BY FieldFields
<1>1a. s.conv # "p" /\ s.conv # "s"
  BY <1>1 DEF Integral
<1>2. PICK val, digits, nothing, alt :
        /\ val = Converted(s, item.val) /\ digits = DigitsOf(s.conv, val)
        /\ nothing <=> Nothing(s, val)
        /\ alt <=> Alternate(s)
  OBVIOUS
<1>2a. /\ nothing <=> val = 0 /\ s.precOpt # "none" /\ s.prec = 0
       /\ alt <=> "#" \in s.flags /\ s.conv \notin {"d", "i"}
  BY ONLY <1>2 DEF Nothing, Alternate
<1>3. PICK F, prec : F = FlagSet(item) /\ prec = PrecOrNone(item)
  OBVIOUS
<1>4. /\ "#" \in s.flags <=> "#" \in F
      /\ s.precOpt = "none" <=> prec = None
      /\ prec # None => s.prec = prec
      /\ prec = None => s.prec = 0
      /\ prec = 0 <=> (s.precOpt # "none" /\ s.prec = 0)
  <2>1. item.conv # "p"
    BY <1>1, <1>1a
  <2>2. /\ \A c \in {"#", "+", " "} : c \in s.flags <=> c \in F
        /\ s.precOpt = "none" <=> ~PrecGiven(item)
        /\ s.prec = IF PrecGiven(item) THEN item.prec ELSE 0
        /\ prec = None <=> ~PrecGiven(item)
        /\ PrecGiven(item) => prec = item.prec
        /\ prec = 0 <=> PrecGiven(item) /\ item.prec = 0
    BY <1>3, <2>1, FieldFlags
  <2> QED
    BY ONLY <2>2
<1>5. val = CValue(item) /\ val \in Int /\ Size(val) \in Nat /\ Size(val) < PtrValues
  <2>1. val = CValue(item)
    BY ONLY <1>1, <1>1a, <1>2 DEF Converted, CValue
  <2> QED
    BY <1>0, <1>1, <1>2, <2>1, NumberFits
<1>6. /\ q.chars = IF nothing THEN <<>>
                   ELSE IF alt /\ val # 0 /\ s.conv = "o" THEN <<"0">> \o digits ELSE digits
      /\ q.prec = IF nothing /\ alt /\ s.conv = "o" THEN 1 ELSE s.prec
  <2>1. /\ q.chars = IF Nothing(s, val) THEN <<>>
                     ELSE IF Alternate(s) /\ val # 0 /\ s.conv = "o" THEN <<"0">> \o digits ELSE digits
        /\ q.prec = IF Nothing(s, val) /\ Alternate(s) /\ s.conv = "o" THEN 1 ELSE s.prec
    <3>1. PICK v : v = item.val
      OBVIOUS
    <3>2. Spelt(q, s, val, digits)
      BY <1>0, <1>1, <1>2, <3>1, ConvertIs
    <3> QED
      BY ONLY <3>2 DEF Spelt
  <2> QED
    BY ONLY <1>2, <2>1
<1>7. /\ digits = Positional(Size(val), Base(s.conv), IF s.conv = "X" THEN Upper ELSE Lower)
      /\ digits \in Seq(Char) /\ Len(digits) \in Nat /\ Len(digits) >= 1
      /\ val = 0 => digits = <<"0">>
      /\ val # 0 => digits[1] # "0"
  BY <1>2, <1>5, DigitsOfIs
<1>8. PICK e, o, shortest : /\ e = <<>> /\ o = <<"0">> /\ shortest = IF nothing THEN e ELSE digits
  OBVIOUS
<1>9. "0" \in Char
  BY CharAssumption DEF Syntax, FlagChars
<1>10. /\ e \in Seq(Char) /\ Len(e) = 0 /\ o \in Seq(Char) /\ Len(o) = 1 /\ o[1] = "0"
  BY ONLY <1>8, <1>9, EmptySeq, CharOne
<1>11. shortest \in Seq(Char) /\ Len(shortest) \in Nat
  BY ONLY <1>7, <1>8, <1>10
<1>12. PICK zeros, padded : zeros = (IF prec = None THEN 0 ELSE Max({0, prec - Len(shortest)}))
                            /\ padded = Repeat("0", zeros) \o shortest
  OBVIOUS
<1>13. CDigits(item, F, prec) = IF item.conv = "o" /\ "#" \in F /\ (padded = <<>> \/ padded[1] # "0")
                                THEN o \o padded ELSE padded
  <2>1. nothing <=> CValue(item) = 0 /\ prec = 0
    BY ONLY <1>2a, <1>4, <1>5
  <2>2. shortest = IF CValue(item) = 0 /\ prec = 0 THEN <<>>
                   ELSE Positional(IF CValue(item) < 0 THEN -CValue(item) ELSE CValue(item), Base(item.conv),
                                   IF item.conv = "X" THEN Upper ELSE Lower)
    BY ONLY <1>1, <1>5, <1>7, <1>8, <2>1 DEF Size
  <2> QED
    <3>1. shortest = Shortest(item, prec)
      BY ONLY <2>2 DEF Shortest
    <3>2. zeros = Zeros(prec, shortest)
      BY ONLY <1>12 DEF Zeros
    <3>3. padded = Padded(prec, shortest)
      BY ONLY <1>12, <3>2 DEF Padded
    <3>4. CDigits(item, F, prec) = Led(item, F, padded)
      BY <3>1, <3>3, CDigitsIs
    <3> QED
      BY ONLY <1>8, <3>4 DEF Led
<1>14. PICK pad : pad = PrecPad(s, q) /\ pad = Max({0, q.prec - Len(q.chars)})
  BY <1>1a DEF PrecPad
\* Zeros are counted alike.
<1>15. zeros = Max({0, s.prec - Len(shortest)})
  <2>1. CASE prec = None
    <3>1. PICK x : x = s.prec - Len(shortest)
      OBVIOUS
    <3>2. x \in Int /\ x <= 0
      BY ONLY <1>4, <1>11, <2>1, <3>1
    <3>3. Max({0, x}) = 0
      BY ONLY <3>2, MaxNat
    <3> QED
      BY ONLY <1>12, <2>1, <3>1, <3>3
  <2>2. CASE prec # None
    BY ONLY <1>4, <1>12, <2>2
  <2> QED
    BY <2>1, <2>2
<1>16. CASE ~(item.conv = "o" /\ "#" \in F)
  <2>1. q.chars = shortest /\ q.prec = s.prec
    BY ONLY <1>1, <1>2a, <1>4, <1>6, <1>8, <1>16
  <2>2. pad = zeros
    BY ONLY <1>14, <1>15, <2>1
  <2> QED
    BY ONLY <1>3, <1>12, <1>13, <1>14, <1>16, <2>1, <2>2
<1>17. CASE item.conv = "o" /\ "#" \in F /\ val # 0
  <2>1. alt /\ ~nothing
    BY ONLY <1>1, <1>2a, <1>4, <1>17
  <2>2. q.chars = o \o digits /\ q.prec = s.prec /\ shortest = digits
    BY ONLY <1>1, <1>6, <1>8, <1>17, <2>1
  <2>3. Len(q.chars) = 1 + Len(digits)
    <3>1. PICK od : od = o \o digits
      OBVIOUS
    <3>2. Joint(od, o, digits)
      BY <1>7, <1>10, <3>1, ConcatAt
    <3>3. Len(od) = 1 + Len(digits)
      BY ONLY <1>10, <3>2 DEF Joint
    <3> QED
      BY ONLY <2>2, <3>1, <3>3
  <2>4. PICK L \in Nat : L = Len(digits) /\ L >= 1
    BY <1>7
  <2>5. PICK P \in Int : P = s.prec
    BY <1>1
  <2>6. pad = Max({0, P - (1 + L)}) /\ zeros = Max({0, P - L})
    BY ONLY <1>14, <1>15, <2>2, <2>3, <2>4, <2>5
  <2>7. digits \in Seq(Char) /\ digits[1] # "0"
    BY ONLY <1>7, <1>17
  <2>8. padded = Repeat("0", zeros) \o digits
    BY ONLY <1>12, <2>2
  <2>9. Repeat("0", pad) \o (o \o digits) = IF padded = <<>> \/ padded[1] # "0" THEN o \o padded ELSE padded
    <3>1. o = <<"0">>
      BY ONLY <1>8
    <3>2. Lacks(pad, zeros, L, P)
      BY ONLY <2>6 DEF Lacks
    <3>3. Leading(digits, L, P, pad, zeros, o, padded)
      BY ONLY <2>4, <2>7, <2>8, <3>1, <3>2, L \in Nat, P \in Int DEF Leading
    <3> QED
      BY ONLY <3>3, ZeroLeads, SMTT(30)
  <2> QED
    BY ONLY <1>3, <1>13, <1>14, <1>17, <2>2, <2>9
<1>18. CASE item.conv = "o" /\ "#" \in F /\ val = 0 /\ ~nothing
  <2>1. q.chars = shortest /\ q.prec = s.prec /\ shortest = o
    BY ONLY <1>1, <1>6, <1>7, <1>8, <1>18
  <2>2. pad = zeros
    BY ONLY <1>14, <1>15, <2>1
  <2>3. zeros \in Nat
    <3>1. PICK x : x = s.prec - Len(shortest)
      OBVIOUS
    <3>2. x \in Int
      BY ONLY <1>1, <1>11, <3>1
    <3>3. Max({0, x}) \in Nat
      BY ONLY <3>2, MaxNat
    <3> QED
      BY ONLY <1>15, <3>1, <3>3
  <2>4. PICK t : t = Repeat("0", zeros)
    OBVIOUS
  <2>5. t \in Seq(Char) /\ Len(t) = zeros /\ \A i \in 1 .. zeros : t[i] = "0"
    BY <1>9, <2>3, <2>4, RepeatTyped
  <2>6. padded = t \o o
    BY ONLY <1>12, <2>1, <2>4
  <2>7. Joint(padded, t, o)
    BY ONLY <1>10, <2>5, <2>6, ConcatAt
  <2>8. padded[1] = "0" /\ padded # <<>>
    <3>1. Len(padded) = zeros + 1
      BY ONLY <1>10, <2>5, <2>7 DEF Joint
    <3>2. padded # <<>>
      <4>1. Len(padded) # 0
        BY ONLY <2>3, <3>1
      <4> QED
        BY ONLY <4>1
    <3>3. CASE zeros = 0
      BY ONLY <1>10, <2>5, <2>7, <3>2, <3>3 DEF Joint
    <3>4. CASE zeros # 0
      BY ONLY <2>3, <2>5, <2>7, <3>2, <3>4 DEF Joint
    <3> QED
      BY <3>3, <3>4
  <2> QED
    BY ONLY <1>3, <1>12, <1>13, <1>14, <2>1, <2>2, <2>8
<1>19. CASE item.conv = "o" /\ "#" \in F /\ nothing
  <2>1. q.chars = e /\ q.prec = 1 /\ shortest = e
    BY ONLY <1>1, <1>2a, <1>4, <1>6, <1>8, <1>19
  <2>2. s.prec = 0
    BY ONLY <1>2a, <1>19
  <2>3. zeros = 0
    <3>1. PICK x \in Int : x = 0
      OBVIOUS
    <3>1a. Len(shortest) = 0
      BY ONLY <1>10, <2>1
    <3>2. s.prec - Len(shortest) = x
      BY ONLY <2>2, <3>1, <3>1a
    <3>3. Max({0, x}) = 0
      BY <3>1, MaxNat
    <3> QED
      BY ONLY <1>15, <3>2, <3>3
  <2>4. pad = 1
    <3>1. PICK x \in Int : x = 1
      OBVIOUS
    <3>1a. Len(q.chars) = 0 /\ q.prec = 1
      BY ONLY <1>10, <2>1
    <3>2. q.prec - Len(q.chars) = x
      BY ONLY <3>1, <3>1a
    <3>3. Max({0, x}) = 1
      BY <3>1, MaxNat
    <3> QED
      BY ONLY <1>14, <3>2, <3>3
  <2>5. e \o e = e
    BY <1>8, <1>10, Blank
  <2>6. padded = e
    <3>1. Repeat("0", zeros) = e
      BY <1>8, <2>3, RepeatNone
    <3> QED
      BY ONLY <1>12, <2>1, <2>5, <3>1
  <2>7. Repeat("0", pad) = o
    <3>1. PICK z \in Nat : z = 0 /\ pad = z + 1
      BY ONLY <2>4
    <3>2. Repeat("0", z) \o o = Repeat("0", pad)
      BY <1>8, <1>9, <3>1, RepeatMore
    <3>3. Repeat("0", z) = e
      BY <1>8, <3>1, RepeatNone
    <3>4. e \o o = o
      BY <1>8, <1>10, Blank
    <3> QED
      BY ONLY <3>2, <3>3, <3>4
  <2>8. o \o e = o
    BY <1>8, <1>10, Blank
  <2> QED
    BY ONLY <1>3, <1>8, <1>13, <1>14, <1>19, <2>1, <2>6, <2>7, <2>8
<1> QED
  <2>1. nothing => val = 0
    BY ONLY <1>2a
  <2> QED
    BY ONLY <1>16, <1>17, <1>18, <1>19, <2>1

\* The steps of the definition of C's fields.
BodyOf(d) ==
    IF d.conv = "%" THEN <<"%">>
    ELSE IF d.conv = "c" \/ (d.conv = "s" /\ PrecOrNone(d) = None) THEN d.str
    ELSE IF d.conv = "s" THEN SubSeq(d.str, 1, Min({Len(d.str), PrecOrNone(d)}))
    ELSE CDigits(d, FlagSet(d), PrecOrNone(d))
Wide(d) == IF d.width = None THEN 0 ELSE IF d.width < 0 THEN -d.width ELSE d.width
Fill(width, pre, body) == Max({0, width - Len(pre) - Len(body)})

\* The side that C fills.
CSide(d) ==
    IF "-" \in FlagSet(d) \/ d.width < 0 THEN "right"
    ELSE IF "0" \in FlagSet(d) /\ PrecOrNone(d) = None THEN "inside" ELSE "left"

\* The definition is these steps.
LEMMA CFieldIs ==
    ASSUME NEW d
    PROVE  CField(d) = Laid(CSide(d), CPrefix(d, FlagSet(d)), BodyOf(d),
                              Fill(Wide(d), CPrefix(d, FlagSet(d)), BodyOf(d)))
  BY DEF CField, Laid, CSide, FlagSet, PrecOrNone, BodyOf, Wide, Fill

\* A "%%" has neither flags nor a width nor a precision.
LEMMA PercentBare ==
    ASSUME NEW item, ~IsLiteral(item), IsDirective(item), Spell(item) = <<"%", "%">>
    PROVE  item.width = None /\ item.prec = None /\ Len(item.flags) = 0
<1>1. PICK s : s = Spell(item)
  OBVIOUS
<1>2. Len(s) = 2
  BY <1>1
<1>3. Len(s) = DirectiveEnd(0, item)
  BY <1>1, DirectiveSpelled
<1>4. /\ item.starWidth \in BOOLEAN /\ item.starPrec \in BOOLEAN
      /\ IsCount(item.starWidth, item.width) /\ IsCount(item.starPrec, item.prec)
      /\ Len(item.flags) \in Nat /\ Len(WidthOf(item)) \in Nat /\ Len(PrecOf(item)) \in Nat /\ Len(item.mod) \in Nat
  BY DirectiveFields
<1>5. PICK a, b, c, d : a = Len(item.flags) /\ b = Len(WidthOf(item)) /\ c = Len(PrecOf(item)) /\ d = Len(item.mod)
  OBVIOUS
<1>6. DirectiveEnd(0, item) = 0 + 2 + a + b + c + d
  BY <1>5 DEF DirectiveEnd, AfterPrec, AfterWidth, AfterFlags
<1>7. a \in Nat /\ b \in Nat /\ c \in Nat /\ d \in Nat
  BY ONLY <1>4, <1>5
<1>8. a = 0 /\ b = 0 /\ c = 0
  BY ONLY <1>2, <1>3, <1>6, <1>7
<1>9. item.width = None
  <2>1. item.width # None => Len(WidthOf(item)) = 1
    BY <1>4, WidthSpelled
  <2> QED
    BY ONLY <1>5, <1>8, <2>1
<1>10. item.prec = None
  <2>1. item.prec # None => Len(PrecOf(item)) = 2
    BY <1>4, PrecSpelled
  <2> QED
    BY ONLY <1>5, <1>8, <2>1
<1> QED
  BY ONLY <1>5, <1>8, <1>9, <1>10

\* What is put of a character, a string or a '%'.
LEMMA PlainIsC ==
    ASSUME NEW item, ~IsLiteral(item), IsDirective(item), Defined(item), item.conv \in {"%", "c", "s"},
           NEW s, s = FieldOf(item), NEW q, q = Payload(s, Given(item))
    PROVE  /\ q.sign = <<>> \/ q.prefix = <<>>
           /\ q.prefix \o q.sign = CPrefix(item, FlagSet(item))
           /\ Repeat("0", PrecPad(s, q)) \o q.chars = BodyOf(item)
<1>1. s.conv = item.conv /\ s.prec \in Nat
  BY FieldFields
<1>2. /\ s.precOpt = "none" <=> ~PrecGiven(item)
      /\ item.conv # "p" => s.prec = IF PrecGiven(item) THEN item.prec ELSE 0
      /\ PrecOrNone(item) = None <=> ~PrecGiven(item)
      /\ PrecGiven(item) => PrecOrNone(item) = item.prec
  BY FieldFlags
<1>3. PICK e : e = <<>>
  OBVIOUS
<1>4. e \in Seq(Char) /\ e \o e = e /\ Len(e) = 0
  BY <1>3, Blank, EmptySeq
<1>5. CPrefix(item, FlagSet(item)) = e
  BY ONLY <1>3, item.conv \in {"%", "c", "s"} DEF CPrefix
<1>6. Typed(q)
  BY PayloadTyped
<1>7. q.chars \in Seq(Char) /\ Len(q.chars) \in Nat
  BY <1>6, LenProperties DEF Typed
<1>8. e \o q.chars = q.chars
  BY <1>3, <1>7, Blank
<1>9. ASSUME NEW chars, q = Plain(chars, s), chars = BodyOf(item), PrecPad(s, q) = 0
      PROVE  /\ q.sign = <<>> \/ q.prefix = <<>>
             /\ q.prefix \o q.sign = CPrefix(item, FlagSet(item))
             /\ Repeat("0", PrecPad(s, q)) \o q.chars = BodyOf(item)
  <2>1. q.sign = e /\ q.prefix = e /\ q.chars = chars
    BY ONLY <1>3, <1>9 DEF Plain
  <2>2. Repeat("0", PrecPad(s, q)) = e
    BY <1>3, <1>9, RepeatNone
  <2> QED
    BY ONLY <1>3, <1>4, <1>5, <1>8, <1>9, <2>1, <2>2
<1>10. ASSUME item.conv # "s", s.prec = 0, q.prec = s.prec PROVE PrecPad(s, q) = 0
  <2>1. PICK x : x = q.prec - Len(q.chars)
    OBVIOUS
  <2>2. x \in Int /\ x <= 0
    BY ONLY <1>7, <1>10, <2>1
  <2>3. Max({0, x}) = 0
    BY ONLY <2>2, MaxNat
  <2> QED
    BY ONLY <1>1, <1>10, <2>1, <2>3 DEF PrecPad
<1>11. CASE item.conv = "%"
  <2>1. Spell(item) = <<"%", "%">>
    BY ONLY Defined(item), <1>11 DEF Defined
  <2>2. item.prec = None
    BY <2>1, PercentBare
  <2>3. s.prec = 0
    BY ONLY <1>2, <1>11, <2>2 DEF PrecGiven
  <2>4. PICK chars : chars = <<"%">>
    OBVIOUS
  <2>5. q = Plain(chars, s) /\ q.prec = s.prec
    BY ONLY <1>1, <1>11, <2>4, q = Payload(s, Given(item)) DEF Payload, Plain
  <2>6. chars = BodyOf(item)
    BY ONLY <1>11, <2>4 DEF BodyOf
  <2>7. PrecPad(s, q) = 0
    BY ONLY <1>10, <1>11, <2>3, <2>5
  <2> QED
    BY ONLY <1>9, <2>5, <2>6, <2>7
<1>12. CASE item.conv = "c"
  <2>1. item.prec = None
    BY ONLY Defined(item), <1>12 DEF Defined
  <2>2. s.prec = 0
    BY ONLY <1>2, <1>12, <2>1 DEF PrecGiven
  <2>3. PICK chars : chars = item.str
    OBVIOUS
  <2>4. q = Plain(chars, s) /\ q.prec = s.prec
    BY ONLY <1>1, <1>12, <2>3, q = Payload(s, Given(item)) DEF Payload, Plain, Given
  <2>5. chars = BodyOf(item)
    BY ONLY <1>12, <2>3 DEF BodyOf
  <2>6. PrecPad(s, q) = 0
    BY ONLY <1>10, <1>12, <2>2, <2>4
  <2> QED
    BY ONLY <1>9, <2>4, <2>5, <2>6
<1>13. CASE item.conv = "s"
  <2>1. item.str # NullString
    BY ONLY Defined(item), <1>13 DEF Defined
  <2>2. item.str \in Seq(Char)
    BY <1>13, <2>1 DEF IsDirective
  <2>3. PICK v, P : v = item.str /\ P = PrecOrNone(item)
    OBVIOUS
  <2>4. v \in Seq(Char) /\ Len(v) \in Nat
    BY <2>2, <2>3, LenProperties
  <2>5. PICK chars : chars = IF s.precOpt = "none" \/ Len(v) <= s.prec THEN v ELSE SubSeq(v, 1, s.prec)
    OBVIOUS
  <2>6. q = Plain(chars, s)
    BY ONLY <1>1, <1>13, <2>1, <2>3, <2>5, q = Payload(s, Given(item)) DEF Payload, Given
  <2>7. PrecPad(s, q) = 0
    BY ONLY <1>1, <1>13 DEF PrecPad
  <2>8. BodyOf(item) = IF P = None THEN v ELSE SubSeq(v, 1, Min({Len(v), P}))
    BY ONLY <1>13, <2>3 DEF BodyOf
  <2>9. chars = BodyOf(item)
    <3>1. CASE P = None
      BY ONLY <1>2, <2>3, <2>5, <2>8, <3>1
    <3>2. CASE P # None
      <4>1. s.precOpt # "none" /\ s.prec = P
        BY ONLY <1>2, <1>13, <2>3, <3>2
      <4>2. P \in Nat
        BY ONLY <1>1, <4>1
      <4>3. PICK L \in Nat : L = Len(v)
        BY <2>4
      <4>4. Min({L, P}) = IF L <= P THEN L ELSE P
        <5>1. L \in Int /\ P \in Int
          BY ONLY <4>2, L \in Nat
        <5> QED
          BY <5>1, MinTwo DEF Least
      <4>5. CASE L <= P
        <5>1. SubSeq(v, 1, Len(v)) = v
          BY ONLY <2>4
        <5>2. chars = v
          BY ONLY <2>5, <4>1, <4>3, <4>5
        <5> QED
          BY ONLY <2>8, <3>2, <4>3, <4>4, <4>5, <5>1, <5>2
      <4>6. CASE ~(L <= P)
        <5>1. chars = SubSeq(v, 1, P)
          BY ONLY <2>5, <4>1, <4>3, <4>6
        <5> QED
          BY ONLY <2>8, <3>2, <4>3, <4>4, <4>6, <5>1
      <4> QED
        BY <4>5, <4>6
    <3> QED
      BY <3>1, <3>2
  <2> QED
    BY ONLY <1>9, <2>6, <2>7, <2>9
<1> QED
  BY <1>11, <1>12, <1>13

\* A directive prints what C says.
LEMMA PrintedIsC ==
    ASSUME NEW item, ~IsLiteral(item), IsDirective(item), Defined(item) PROVE Printed(item) = CField(item)
<1>1. PICK s, q : s = FieldOf(item) /\ q = Payload(s, Given(item))
  OBVIOUS
<1>2. Printed(item) = Layout(s, q)
  BY <1>1 DEF Printed
<1>3. s.width \in Nat /\ s.conv = item.conv /\ Typed(q)
  BY <1>1, FieldFields, PayloadTyped
<1>4. PICK F, pre, body : F = FlagSet(item) /\ pre = CPrefix(item, F) /\ body = BodyOf(item)
  OBVIOUS
<1>5. item.conv \in Integral \cup {"s", "c", "%"}
  BY ONLY Defined(item) DEF Defined
<1>6. /\ q.sign = <<>> \/ q.prefix = <<>>
      /\ pre = q.prefix \o q.sign
      /\ body = Repeat("0", PrecPad(s, q)) \o q.chars
  <2>1. CASE item.conv \in {"%", "c", "s"}
    BY <1>1, <1>4, <2>1, PlainIsC
  <2>2. CASE item.conv \in Integral
    <3>1. item.conv \notin {"%", "c", "s"}
      BY <2>2 DEF Integral
    <3>2. q = Convert(s, item.val)
      BY ONLY <1>1, <1>3, <3>1 DEF Payload, Given
    <3>3. /\ q.sign = <<>> \/ q.prefix = <<>>
          /\ q.prefix \o q.sign = CPrefix(item, FlagSet(item))
      BY <1>1, <2>2, <3>2, PrefixIsC
    <3>4. Repeat("0", PrecPad(s, q)) \o q.chars = CDigits(item, FlagSet(item), PrecOrNone(item))
      BY <1>1, <2>2, <3>2, DigitsAreC
    <3>5. body = CDigits(item, FlagSet(item), PrecOrNone(item))
      BY ONLY <1>4, <3>1 DEF BodyOf
    <3> QED
      BY ONLY <1>4, <3>3, <3>4, <3>5
  <2> QED
    BY <1>5, <2>1, <2>2
<1>7. /\ "-" \in s.flags <=> "-" \in F \/ item.width < 0
      /\ "0" \in s.flags <=> /\ "0" \in F \/ (item.width = 0 /\ ~item.starWidth)
                             /\ ~(PrecGiven(item) /\ item.conv \in Integral)
      /\ s.widthOpt = "none" => s.width = 0
      /\ s.precOpt = "none" <=> ~PrecGiven(item)
      /\ s.width = Wide(item)
      /\ item.width = 0 => s.width = 0
      /\ PrecOrNone(item) = None <=> ~PrecGiven(item)
  BY <1>1, <1>4, FieldFlags DEF Wide
<1>8. PICK n : n = Max({0, s.width - Len(pre) - Len(body)}) /\ n = Fill(Wide(item), pre, body)
  BY ONLY <1>7 DEF Fill
<1>9. /\ s.width \in Nat /\ Typed(q) /\ (s.widthOpt = "none" => s.width = 0)
      /\ n = Max({0, s.width - Len(pre) - Len(body)})
  BY ONLY <1>3, <1>7, <1>8
<1>10. /\ pre \in Seq(Char) /\ body \in Seq(Char) /\ n \in Nat
       /\ Layout(s, q) = Laid(Side(s, q), pre, body, n)
  BY ONLY <1>6, <1>9, LayoutIs, ZenonT(40)
<1>11. CField(item) = Laid(CSide(item), pre, body, n)
  BY ONLY <1>4, <1>8, CFieldIs
<1>12. CASE s.width = 0
  <2>1. PICK x, a, b : a = Len(pre) /\ b = Len(body) /\ x = s.width - a - b
    OBVIOUS
  <2>2. a \in Nat /\ b \in Nat
    BY <1>10, <2>1, LenProperties
  <2>3. x \in Int /\ x <= 0
    BY ONLY <1>12, <2>1, <2>2
  <2>4. n = 0
    BY ONLY <1>8, <2>1, <2>3, MaxNat
  <2>5. \A side : Laid(side, pre, body, n) = pre \o body
    BY ONLY <1>10, <2>4, LaidNone
  <2> QED
    BY ONLY <1>2, <1>10, <1>11, <2>5
<1>13. CASE s.width # 0
  <2>1. "-" \in s.flags <=> "-" \in F \/ item.width < 0
    BY ONLY <1>7
  <2>2. ("0" \in s.flags /\ ~(s.precOpt # "none" /\ q.prec = 0 /\ q.zero))
          <=> "0" \in F /\ PrecOrNone(item) = None
    <3>1. CASE PrecGiven(item) /\ item.conv \in Integral
      BY ONLY <1>7, <3>1
    <3>2. CASE ~PrecGiven(item)
      BY ONLY <1>7, <1>13, <3>2
    <3>3. CASE item.conv \notin Integral
      <4>1. "0" \notin F
        <5>1. CASE item.conv \in {"s", "c"}
          <6>1. F \subseteq {"-"}
            BY ONLY Defined(item), <1>4, <5>1 DEF Defined, FlagSet
          <6> QED
            BY ONLY <6>1
        <5>2. CASE item.conv = "%"
          <6>1. Spell(item) = <<"%", "%">>
            BY ONLY Defined(item), <5>2 DEF Defined
          <6>2. item.width = None
            BY <6>1, PercentBare
          <6> QED
            BY ONLY <1>7, <1>13, <6>2 DEF Wide
        <5> QED
          BY <1>5, <3>3, <5>1, <5>2
      <4> QED
        BY ONLY <1>7, <1>13, <4>1
    <3> QED
      BY <3>1, <3>2, <3>3
  <2> QED
    BY ONLY <1>2, <1>4, <1>10, <1>11, <2>1, <2>2 DEF Side, CSide
<1> QED
  BY <1>12, <1>13

-----------------------------------------------------------------------------
(* The whole text *)

\* The spelling of some items grows with each of them.
LEMMA SpelledGrows ==
    ASSUME NEW r \in Requests, NEW k \in 0 .. Len(r), NEW m \in k .. Len(r)
    PROVE  /\ Len(Spelled(r, k)) <= Len(Spelled(r, m))
           /\ k < Len(r) => Len(Spelled(r, k + 1)) = Len(Spelled(r, k)) + Len(Spell(r[k + 1]))
<1>1. PICK parts : parts = Spellings(r)
  OBVIOUS
<1>2. /\ parts \in Seq(Seq(Char)) /\ Len(parts) = Len(r)
      /\ \A i \in 1 .. Len(r) : parts[i] = Spell(r[i])
      /\ \A i : Spelled(r, i) = Joined(parts, i)
  BY <1>1, PartsTyped
<1>3. Len(Joined(parts, k)) <= Len(Joined(parts, m))
  BY <1>2, JoinedPrefix
<1>4. ASSUME k < Len(r) PROVE Len(Spelled(r, k + 1)) = Len(Spelled(r, k)) + Len(Spell(r[k + 1]))
  <2>1. PICK j : j = k + 1
    OBVIOUS
  <2>2. Len(r) \in Nat
    BY RequestItems
  <2>3. j \in 1 .. Len(parts) /\ j - 1 = k /\ j \in j .. Len(parts)
    BY <1>2, <1>4, <2>1, <2>2
  <2>4. Len(Joined(parts, j)) = Len(Joined(parts, j - 1)) + Len(parts[j])
    BY <1>2, <2>3, JoinedPart
  <2> QED
    BY <1>2, <2>1, <2>3, <2>4
<1> QED
  BY <1>2, <1>3, <1>4

\* Every item takes a character of the format.
LEMMA SpellSome ==
    ASSUME NEW r \in Requests, NEW i \in 1 .. Len(r)
    PROVE  Len(Spell(r[i])) \in Nat /\ Len(Spell(r[i])) >= 1
<1>1. PICK item : item = r[i]
  OBVIOUS
<1>2. IF IsLiteral(item) THEN item.lit \in Char \ {"%"} ELSE IsDirective(item)
  BY <1>1, RequestItems
<1>3. CASE IsLiteral(item)
  <2>1. PICK s : s = Spell(item)
    OBVIOUS
  <2>2. s = <<item.lit>>
    BY <1>3, <2>1 DEF Spell
  <2>3. Len(s) = 1
    BY ONLY <2>2
  <2> QED
    BY ONLY <1>1, <2>1, <2>3
<1>4. CASE ~IsLiteral(item)
  <2>1. PICK s : s = Spell(item)
    OBVIOUS
  <2>2. Len(s) = DirectiveEnd(0, item)
    BY <1>2, <1>4, <2>1, DirectiveSpelled
  <2>3. Len(item.flags) \in Nat /\ Len(WidthOf(item)) \in Nat /\ Len(PrecOf(item)) \in Nat /\ Len(item.mod) \in Nat
    BY <1>2, <1>4, DirectiveFields
  <2>4. PICK a, b, c, d : a = Len(item.flags) /\ b = Len(WidthOf(item)) /\ c = Len(PrecOf(item)) /\ d = Len(item.mod)
    OBVIOUS
  <2>5. DirectiveEnd(0, item) = 0 + 2 + a + b + c + d
    BY <2>4 DEF DirectiveEnd, AfterPrec, AfterWidth, AfterFlags
  <2>6. a \in Nat /\ b \in Nat /\ c \in Nat /\ d \in Nat
    BY ONLY <2>3, <2>4
  <2>7. Len(s) \in Nat /\ Len(s) >= 1
    BY ONLY <2>2, <2>5, <2>6
  <2> QED
    BY ONLY <1>1, <2>1, <2>7
<1> QED
  BY <1>3, <1>4

\* The largest of some numbers.
LEMMA MaxIs ==
    ASSUME NEW S, S \subseteq Nat, NEW k \in S, \A j \in S : j <= k
    PROVE  Max(S) = k
<1>1. k \in S /\ \A y \in S : k >= y
  OBVIOUS
<1>2. \A x \in S : (\A y \in S : x >= y) => x = k
  OBVIOUS
<1> QED
  BY <1>1, <1>2 DEF Max

\* The items that lie in the format as a whole.
LEMMA WholeIs ==
    ASSUME request \in Requests, NEW k \in 0 .. Len(request), Len(Spelled(request, k)) <= FormatMax,
           k < Len(request) => Len(Spelled(request, k + 1)) > FormatMax
    PROVE  Whole = k
<1>1. PICK S : S = {j \in 0 .. Len(request) : Len(Spelled(request, j)) <= FormatMax}
  OBVIOUS
<1>2. Len(request) \in Nat /\ FormatMax \in Nat
  BY RequestItems, SizeAssumption
<1>3. S \subseteq Nat /\ k \in S
  BY <1>1, <1>2
<1>4. ASSUME NEW j \in S PROVE j <= k
  <2> SUFFICES ASSUME ~(j <= k) PROVE FALSE
    OBVIOUS
  <2>1. j \in 0 .. Len(request) /\ Len(Spelled(request, j)) <= FormatMax
    BY <1>1
  <2>2. PICK m : m = k + 1
    OBVIOUS
  <2>3. m \in 0 .. Len(request) /\ j \in m .. Len(request) /\ k < Len(request)
    BY <1>2, <2>1, <2>2
  <2>4. Len(Spelled(request, m)) <= Len(Spelled(request, j))
    BY <2>3, SpelledGrows
  <2>5. Len(Spelled(request, m)) > FormatMax
    BY <2>2, <2>3
  <2>6. PICK x, y : x = Len(Spelled(request, m)) /\ y = Len(Spelled(request, j))
    OBVIOUS
  <2>7. x \in Nat /\ y \in Nat
    BY <2>1, <2>3, <2>6, SpelledParts
  <2>8. x > FormatMax /\ x <= y /\ y <= FormatMax
    BY ONLY <2>1, <2>4, <2>5, <2>6
  <2> QED
    BY ONLY <1>2, <2>7, <2>8
<1>5. Max(S) = k
  BY <1>3, <1>4, MaxIs
<1> QED
  BY ONLY <1>1, <1>5 DEF Whole

\* Where C defines every directive, the text is what C says.
LEMMA OutcomeIsC ==
    ASSUME NEW r \in Requests, \A i \in DOMAIN r : IsLiteral(r[i]) \/ Defined(r[i])
    PROVE  Prints(r) = [i \in 1 .. Len(r) |-> CItem(r[i])]
<1>1. ASSUME NEW i \in 1 .. Len(r) PROVE Printed(r[i]) = CItem(r[i])
  <2>1. PICK item : item = r[i]
    OBVIOUS
  <2>2. /\ IF IsLiteral(item) THEN item.lit \in Char \ {"%"} ELSE IsDirective(item)
        /\ IsLiteral(item) \/ Defined(item)
    BY <2>1, RequestItems
  <2>3. CASE IsLiteral(item)
    BY ONLY <2>1, <2>3 DEF Printed, CItem
  <2>4. CASE ~IsLiteral(item)
    <3>1. Printed(item) = CField(item)
      BY <2>2, <2>4, PrintedIsC
    <3> QED
      BY ONLY <2>1, <2>4, <3>1 DEF CItem
  <2> QED
    BY <2>3, <2>4
<1> QED
  BY ONLY <1>1 DEF Prints

\* A print has come to the end of its format: the items that lie in it as a whole have
\* been printed, and the rest as it stands.
LEMMA AllPrinted ==
    ASSUME PrintInv, Terminated
    PROVE  text = Outcome(request, Whole) \o SubSeq(format, Len(Spelled(request, Whole)) + 1, Len(format))
<1>1. /\ request \in Requests /\ format = Cut(Spelled(request, Len(request)))
      /\ text \in Seq(Char)
  BY DEF PrintInv
<1>2. buffer # KeptOf(text)
  BY <1>1, KeptNotEnded DEF Terminated
<1>3. fs = NoSpec /\ cur = Len(format) + 1
  BY <1>2 DEF PrintInv
<1>4. PICK k \in 0 .. Len(request) : Reached(k)
  BY DEF PrintInv
<1>5. PICK o, F : o = Len(Spelled(request, k)) /\ F = Len(format)
  OBVIOUS
<1>6. /\ Len(request) \in Nat /\ format \in Seq(Char) /\ F \in Nat
      /\ o \in Nat /\ Outcome(request, k) \in Seq(Char)
      /\ k < Len(request) => /\ k + 1 \in 0 .. Len(request)
                             /\ ~IsLiteral(request[k + 1]) => IsDirective(request[k + 1])
  BY <1>5, PrintPlaces
<1>7. ~Read(k)
  <2> SUFFICES ASSUME Read(k) PROVE FALSE
    OBVIOUS
  <2>1. k < Len(request) /\ ~IsLiteral(request[k + 1]) /\ fs = SpecOf(request[k + 1])
    BY DEF Read
  <2>2. IsDirective(request[k + 1])
    BY <1>6, <2>1
  <2> QED
    BY <1>3, <2>1, <2>2, SpecIsOne
<1>8. PICK all : all = Spelled(request, Len(request))
  OBVIOUS
<1>9. F <= FormatMax /\ F <= Len(all) /\ Len(all) \in Nat /\ (F < Len(all) => F = FormatMax)
  BY <1>1, <1>5, <1>8, FormatIs
<1>10. FormatMax \in Nat
  BY SizeAssumption
<1>11. ASSUME k < Len(request)
       PROVE  /\ Len(Spelled(request, k + 1)) \in Nat
              /\ Len(Spelled(request, k + 1)) = o + Len(Spell(request[k + 1]))
              /\ Len(Spelled(request, k + 1)) > o /\ Len(Spelled(request, k + 1)) <= Len(all)
  <2>1. PICK m : m = k + 1
    OBVIOUS
  <2>2. m \in 1 .. Len(request) /\ m \in 0 .. Len(request) /\ Len(request) \in m .. Len(request) /\ k \in k .. Len(request)
    BY ONLY <1>6, <1>11, <2>1, k \in 0 .. Len(request)
  <2>3. Len(Spelled(request, m)) = o + Len(Spell(request[m]))
    BY <1>1, <1>5, <1>11, <2>1, <2>2, SpelledGrows
  <2>4. Len(Spell(request[m])) \in Nat /\ Len(Spell(request[m])) >= 1
    BY <1>1, <2>2, SpellSome
  <2>5. Len(Spelled(request, m)) <= Len(all)
    BY <1>1, <1>8, <2>2, SpelledGrows
  <2>6. PICK x, y : x = Len(Spelled(request, m)) /\ y = Len(Spell(request[m]))
    OBVIOUS
  <2>7. x = o + y /\ y \in Nat /\ y >= 1
    BY ONLY <2>3, <2>4, <2>6
  <2>8. x \in Nat /\ x > o
    BY ONLY <1>6, <2>7
  <2> QED
    BY ONLY <2>1, <2>3, <2>5, <2>6, <2>8
<1>12. PICK x : x = Len(Spelled(request, k + 1))
  OBVIOUS
<1>13. o <= F
  BY ONLY <1>4, <1>5 DEF Reached
<1>14. k < Len(request) => x \in Nat /\ x > o /\ x <= Len(all)
  BY ONLY <1>11, <1>12
<1>15. CASE Between(k)
  <2>1. o = F /\ text = Outcome(request, k)
    <3>1. cur = Len(Spelled(request, k)) + 1 /\ text = Outcome(request, k)
      BY <1>15 DEF Between
    <3>2. o + 1 = F + 1
      BY ONLY <1>3, <1>5, <3>1
    <3> QED
      BY ONLY <1>6, <3>1, <3>2
  <2>2. ASSUME k < Len(request) PROVE Len(Spelled(request, k + 1)) > FormatMax
    <3>1. x > FormatMax
      <4>1. PICK a \in Nat : a = Len(all)
        BY <1>9
      <4> QED
        BY ONLY <1>6, <1>9, <1>10, <1>14, <2>1, <2>2, <4>1
    <3> QED
      BY ONLY <1>12, <3>1
  <2>3. Len(Spelled(request, k)) <= FormatMax
    BY ONLY <1>5, <1>6, <1>9, <1>10, <2>1
  <2>4. Whole = k
    BY <1>1, <2>2, <2>3, WholeIs
  <2>5. PICK e : e = SubSeq(format, o + 1, F)
    OBVIOUS
  <2>6. e = <<>>
    <3>1. ~(o + 1 <= F) /\ o + 1 \in Int /\ F \in Int
      BY ONLY <1>6, <2>1
    <3>2. \A i \in (o + 1) .. F : format[i] \in Char
      BY ONLY <3>1
    <3>3. e \in Seq(Char) /\ Len(e) = 0
      BY ONLY <2>5, <3>1, <3>2, SubSeqProperties
    <3> QED
      BY ONLY <3>3, EmptySeq
  <2>7. Outcome(request, k) \o e = Outcome(request, k)
    BY <1>6, <2>6, Blank
  <2> QED
    BY ONLY <1>5, <2>1, <2>4, <2>5, <2>7
<1>16. CASE Within(k)
  <2>1. /\ k < Len(request) /\ Stump(format, o, request[k + 1])
        /\ text = Outcome(request, k) \o SubSeq(format, o + 1, cur - 1)
    BY <1>5, <1>16 DEF Within
  <2>2. F < o + Len(Spell(request[k + 1]))
    BY ONLY <1>5, <2>1 DEF Stump
  <2>3. F < x
    BY ONLY <1>11, <1>12, <2>1, <2>2
  <2>4. Len(Spelled(request, k + 1)) > FormatMax
    <3>1. PICK a \in Nat : a = Len(all)
      BY <1>9
    <3>2. F < a /\ x \in Nat
      BY ONLY <1>6, <1>14, <2>1, <2>3, <3>1
    <3>3. F = FormatMax
      BY ONLY <1>9, <3>1, <3>2
    <3> QED
      BY ONLY <1>12, <2>3, <3>2, <3>3, <1>6
  <2>5. Len(Spelled(request, k)) <= FormatMax
    BY ONLY <1>5, <1>6, <1>9, <1>10, <1>13
  <2>6. Whole = k
    BY <1>1, <2>4, <2>5, WholeIs
  <2>7. cur - 1 = F
    BY ONLY <1>3, <1>5, <1>6
  <2> QED
    BY ONLY <1>5, <2>1, <2>6, <2>7
<1> QED
  BY <1>4, <1>7, <1>15, <1>16 DEF Reached

\* When npf_vsnprintf returns, the text is what C defines for the directives that the format
\* holds as a whole, and behind it the characters that are left of a directive that was cut, for
\* every request whose directives C defines: digits, signs, prefixes, padding and truncation.
THEOREM PrintedAsC == PrintSpec => []PrintsAsC
<1>1. PrintInv => PrintsAsC
  <2> SUFFICES ASSUME PrintInv, Terminated,
                      \A i \in DOMAIN request : IsLiteral(request[i]) \/ Defined(request[i])
               PROVE  text = Expected
    BY DEF PrintsAsC
  <2>1. request \in Requests
    BY DEF PrintInv
  <2>2. Prints(request) = [i \in 1 .. Len(request) |-> CItem(request[i])]
    BY <2>1, OutcomeIsC
  <2>3. text = Outcome(request, Whole) \o SubSeq(format, Len(Spelled(request, Whole)) + 1, Len(format))
    BY AllPrinted
  <2> QED
    BY ONLY <2>2, <2>3 DEF Expected, Outcome
<1> QED
  BY <1>1, Printing, PTL
=============================================================================
