---------------------------- MODULE ScreenProofs ----------------------------
(***************************************************************************)
(* What printing and drawing leave of a screen, whatever its size and      *)
(* wherever the cursor is.                                                 *)
(***************************************************************************)
EXTENDS Screen, WellFoundedInduction, TLAPS

-----------------------------------------------------------------------------
(* Numbers *)

\* The library's minimal elements, for the order of the numbers.
LEMMA LeastNumber ==
    ASSUME NEW S, S \subseteq Nat, S # {}
    PROVE  \E n \in S : \A m \in S : n <= m
<1> DEFINE R == OpToRel(<, Nat)
<1>1. IsWellFoundedOn(R, Nat)
  BY NatLessThanWellFounded
<1>2. \A a, b \in Nat : a < b => <<a, b>> \in R
  BY DEF OpToRel
<1> HIDE DEF R
<1>3. PICK x \in S : \A y \in S : ~(<<y, x>> \in R)
  BY <1>1, WFMin
<1>4. x \in Nat /\ \A y \in S : y \in Nat /\ ~(y < x)
  BY <1>2, <1>3
<1> QED
  BY <1>4

LEMMA MinOfTwo ==
    ASSUME NEW a \in Int, NEW b \in Int
    PROVE  Min({a, b}) \in Int /\ Min({a, b}) <= a /\ Min({a, b}) <= b
BY DEF Min

\* A set of numbers below a bound has a maximum.
LEMMA MaxBounded ==
    ASSUME NEW S, S \subseteq Nat, S # {}, NEW n \in Nat, \A m \in S : m <= n
    PROVE  Max(S) \in S /\ Max(S) \in Nat /\ Max(S) <= n /\ \A m \in S : m <= Max(S)
<1> DEFINE G == {n - m : m \in S}
<1>1. G \subseteq Nat /\ G # {}
  <2>1. \A m \in S : m \in Nat /\ n - m \in Nat
    OBVIOUS
  <2> QED
    BY <2>1
<1> HIDE DEF G
<1>2. PICK g \in G : \A h \in G : g <= h
  BY <1>1, LeastNumber
<1>3. PICK m \in S : g = n - m
  BY DEF G
<1>4. \A k \in S : k <= m
  <2> SUFFICES ASSUME NEW k \in S PROVE k <= m
    OBVIOUS
  <2>1. n - k \in G
    BY DEF G
  <2> QED
    BY <1>2, <1>3, <2>1
<1>5. \E k \in S : \A j \in S : k >= j
  BY <1>4
<1> QED
  BY <1>5 DEF Max

LEMMA ProductGrows ==
    ASSUME NEW a \in Nat, NEW b \in Nat, NEW p \in Nat, a <= b
    PROVE  a * p \in Nat /\ a * p <= b * p
<1>1. b * p = a * p + (b - a) * p
  OBVIOUS
<1>2. (b - a) * p \in Nat
  OBVIOUS
<1> QED
  BY <1>1, <1>2

-----------------------------------------------------------------------------
(* A screen *)

\* The framebuffer holds the rows, and has been written only in between.
Sized(s) ==
    /\ s.init \in BOOLEAN
    /\ s.width \in Nat /\ s.height \in Nat /\ s.pixelsPerScanLine \in Nat /\ s.size \in Nat
    /\ s.width <= s.pixelsPerScanLine
    /\ s.height * s.pixelsPerScanLine <= s.size
    /\ s.x \in Nat /\ s.y \in Nat /\ s.reach \in Nat
    /\ s.reach <= s.size

LEMMA RectInside ==
    ASSUME NEW s, Sized(s), NEW x \in Nat, NEW y \in Nat, NEW w \in Nat, NEW h \in Nat
    PROVE  RectEnd(s, x, y, w, h) \in Nat /\ RectEnd(s, x, y, w, h) <= s.size
<1> DEFINE bottom == Min({y + h, s.height})
           right == Min({x + w, s.width})
           p == s.pixelsPerScanLine
<1>1. p \in Nat /\ s.width \in Nat /\ s.height \in Nat /\ s.size \in Nat
      /\ s.width <= p /\ s.height * p <= s.size
  BY DEF Sized
<1>2. /\ bottom \in Int /\ bottom <= s.height
      /\ right \in Int /\ right <= s.width
  <2>1. y + h \in Int /\ x + w \in Int /\ s.height \in Int /\ s.width \in Int
    BY <1>1
  <2> QED
    BY <2>1, MinOfTwo
<1>3. RectEnd(s, x, y, w, h) = IF y >= bottom \/ x >= right THEN 0 ELSE (bottom - 1) * p + right
  BY DEF RectEnd
<1> HIDE DEF bottom, right, p
<1>4. CASE y >= bottom \/ x >= right
  BY <1>1, <1>3, <1>4
<1>5. CASE ~(y >= bottom \/ x >= right)
  <2>1. bottom \in Nat /\ bottom - 1 \in Nat /\ right \in Nat
    BY <1>2, <1>5
  <2>2. (bottom - 1) * p \in Nat /\ bottom * p <= s.height * p
    BY <1>1, <1>2, <2>1, ProductGrows
  <2>3. bottom * p = (bottom - 1) * p + p
    BY <1>1, <2>1
  <2>4. s.height * p \in Nat /\ bottom * p \in Nat
    BY <1>1, <2>1
  <2> QED
    BY <1>1, <1>2, <1>3, <1>5, <2>1, <2>2, <2>3, <2>4
<1> QED
  BY <1>4, <1>5

\* The fields of the record.
IsScreen(s) ==
    s = [init |-> s.init, width |-> s.width, height |-> s.height,
         pixelsPerScanLine |-> s.pixelsPerScanLine, size |-> s.size, owner |-> s.owner,
         x |-> s.x, y |-> s.y, palette |-> s.palette, dotX |-> s.dotX,
         shown |-> s.shown, back |-> s.back, reach |-> s.reach]

\* Nothing but the marks and the cursor is different.
SameFrame(s, t) ==
    /\ t.init = s.init /\ t.width = s.width /\ t.height = s.height
    /\ t.pixelsPerScanLine = s.pixelsPerScanLine /\ t.size = s.size
    /\ t.owner = s.owner /\ t.palette = s.palette /\ t.dotX = s.dotX

\* A terminal's texts are above the line of the cursor, or to its left.
Legible(s) ==
    /\ \A b \in s.shown : /\ b.x \in Nat /\ b.y \in Nat /\ b.w \in Nat /\ b.h = 12
                          /\ b.y + 12 <= s.y \/ (b.y = s.y /\ b.x + b.w <= s.x)
                          /\ s.height > 10 => b.y < s.height
    /\ \A a, b \in s.shown : a # b => Apart(a, b)
    /\ s.height > 10 => s.y < s.height + 12

ScreenInv(s) == IsScreen(s) /\ Sized(s) /\ s.dotX \in Nat /\ (Owns(s) => Legible(s))

LEMMA LengthNat == \A what : Length(what) \in Nat
BY LengthAssumption DEF Length

\* Drawing some texts.
LEMMA Drawn ==
    ASSUME NEW s, IsScreen(s), Sized(s), s.init, NEW boxes, boxes # {},
           \A b \in boxes : b.x \in Nat /\ b.y \in Nat /\ b.w \in Nat /\ b.h \in Nat,
           NEW t, t = DrawString(s, boxes)
    PROVE  /\ IsScreen(t) /\ Sized(t) /\ SameFrame(s, t)
           /\ t.shown = s.shown \cup boxes
           /\ t.x = s.x /\ t.y = s.y /\ t.back = s.back
<1> DEFINE ends == {s.reach} \cup {RectEnd(s, b.x, b.y, b.w, b.h) : b \in boxes}
<1>1. \A b \in boxes : /\ RectEnd(s, b.x, b.y, b.w, b.h) \in Nat
                       /\ RectEnd(s, b.x, b.y, b.w, b.h) <= s.size
  BY RectInside
<1>2. ends \subseteq Nat /\ ends # {} /\ \A m \in ends : m <= s.size
  BY <1>1 DEF Sized
<1>3. t = [s EXCEPT !.shown = s.shown \cup boxes, !.reach = Max(ends)]
  BY DEF DrawString
<1> HIDE DEF ends
<1>4. Max(ends) \in Nat /\ Max(ends) <= s.size
  BY <1>2, MaxBounded DEF Sized
<1>5. /\ IsScreen(t) /\ SameFrame(s, t)
      /\ t.shown = s.shown \cup boxes /\ t.reach = Max(ends)
      /\ t.x = s.x /\ t.y = s.y /\ t.back = s.back
  BY <1>3 DEF IsScreen, SameFrame
<1> QED
  BY <1>4, <1>5 DEF Sized, SameFrame

LEMMA Wiped ==
    ASSUME NEW s, IsScreen(s), Sized(s), NEW color, NEW t, t = Wipe(s, color)
    PROVE  /\ IsScreen(t) /\ Sized(t) /\ SameFrame(s, t)
           /\ t.shown = {} /\ t.x = s.x /\ t.y = s.y /\ t.back = color
<1> DEFINE ends == {s.reach, RectEnd(s, 0, 0, s.width, s.height)}
<1>1. ends \subseteq Nat /\ ends # {} /\ \A m \in ends : m <= s.size
  <2>1. 0 \in Nat /\ s.width \in Nat /\ s.height \in Nat
    BY DEF Sized
  <2>2. PICK zero \in Nat : zero = 0
    BY <2>1
  <2>3. /\ RectEnd(s, zero, zero, s.width, s.height) \in Nat
        /\ RectEnd(s, zero, zero, s.width, s.height) <= s.size
    BY <2>1, RectInside
  <2> QED
    BY <2>2, <2>3 DEF Sized
<1>2. t = [s EXCEPT !.shown = {}, !.back = color, !.reach = Max(ends)]
  BY DEF Wipe
<1> HIDE DEF ends
<1>3. Max(ends) \in Nat /\ Max(ends) <= s.size
  BY <1>1, MaxBounded DEF Sized
<1>4. /\ IsScreen(t) /\ SameFrame(s, t)
      /\ t.shown = {} /\ t.reach = Max(ends)
      /\ t.x = s.x /\ t.y = s.y /\ t.back = color
  BY <1>2 DEF IsScreen, SameFrame
<1> QED
  BY <1>3, <1>4 DEF Sized, SameFrame

\* The cursor is put somewhere.
CursorAt(s, x, y) == [s EXCEPT !.x = x, !.y = y]

LEMMA Moved ==
    ASSUME NEW s, IsScreen(s), Sized(s), NEW x \in Nat, NEW y \in Nat,
           NEW t, t = CursorAt(s, x, y)
    PROVE  /\ IsScreen(t) /\ Sized(t) /\ SameFrame(s, t)
           /\ t.shown = s.shown /\ t.x = x /\ t.y = y /\ t.back = s.back
<1>1. /\ IsScreen(t) /\ SameFrame(s, t) /\ t.reach = s.reach
      /\ t.shown = s.shown /\ t.x = x /\ t.y = y /\ t.back = s.back
  BY DEF IsScreen, SameFrame, CursorAt
<1> QED
  BY <1>1 DEF Sized, SameFrame

LEMMA Cleared ==
    ASSUME NEW s, IsScreen(s), Sized(s), NEW t, t = KeTermClear(s)
    PROVE  /\ IsScreen(t) /\ Sized(t) /\ SameFrame(s, t) /\ t.x = 10 /\ t.y = 10
           /\ Owns(s) => t.shown = {} /\ t.back = s.palette[BACKGROUND]
           /\ ~Owns(s) => t.shown = s.shown /\ t.back = s.back
<1>1. PICK u : u = IF Owns(s) THEN Wipe(s, s.palette[BACKGROUND]) ELSE s
  OBVIOUS
<1>2. t = CursorAt(u, 10, 10)
  BY <1>1 DEF KeTermClear, CursorAt
<1>3. /\ IsScreen(u) /\ Sized(u) /\ SameFrame(s, u)
      /\ Owns(s) => u.shown = {} /\ u.back = s.palette[BACKGROUND]
      /\ ~Owns(s) => u.shown = s.shown /\ u.back = s.back
  BY <1>1, Wiped DEF SameFrame
<1>4. PICK first \in Nat : first = 10
  OBVIOUS
<1>5. /\ IsScreen(t) /\ Sized(t) /\ SameFrame(u, t)
      /\ t.shown = u.shown /\ t.x = first /\ t.y = first /\ t.back = u.back
  <2>1. t = CursorAt(u, first, first)
    BY <1>2, <1>4
  <2>2. IsScreen(u) /\ Sized(u)
    BY <1>3
  <2> QED
    BY ONLY <2>1, <2>2, first \in Nat, Moved
<1> QED
  BY <1>3, <1>4, <1>5 DEF SameFrame

\* A terminal that is cleared is legible.
LEMMA ClearKeeps ==
    ASSUME NEW s, IsScreen(s), Sized(s), s.dotX \in Nat, NEW t, t = KeTermClear(s)
    PROVE  ScreenInv(t)
<1>1. /\ IsScreen(t) /\ Sized(t) /\ SameFrame(s, t) /\ t.x = 10 /\ t.y = 10
      /\ Owns(s) => t.shown = {}
  BY Cleared
<1>2. Owns(t) <=> Owns(s)
  BY <1>1 DEF Owns, SameFrame
<1>3. t.dotX \in Nat
  BY <1>1 DEF SameFrame
<1>4. ASSUME Owns(s) PROVE Legible(t)
  BY <1>1, <1>4 DEF Legible, Sized
<1> QED
  BY <1>1, <1>2, <1>3, <1>4 DEF ScreenInv

\* A text on the line of the cursor.
LEMMA OneMore ==
    ASSUME NEW u, Sized(u), Legible(u),
           NEW w \in Nat, NEW box, box.x = u.x, box.y = u.y, box.w = w, box.h = 12,
           NEW t, t.shown = u.shown \cup {box}, t.height = u.height,
           u.height > 10 => u.y < u.height,
           \/ t.x = u.x + w /\ t.y = u.y
           \/ t.y = u.y + 12
    PROVE  Legible(t)
<1>1. u.x \in Nat /\ u.y \in Nat /\ u.height \in Nat
  BY DEF Sized
<1>2. ASSUME NEW b \in t.shown
      PROVE  /\ b.x \in Nat /\ b.y \in Nat /\ b.w \in Nat /\ b.h = 12
             /\ b.y + 12 <= t.y \/ (b.y = t.y /\ b.x + b.w <= t.x)
             /\ t.height > 10 => b.y < t.height
  BY <1>1, <1>2 DEF Legible
<1>3. ASSUME NEW b \in u.shown PROVE Apart(b, box) /\ Apart(box, b)
  BY <1>1, <1>3 DEF Legible, Apart
<1>4. ASSUME NEW a \in t.shown, NEW b \in t.shown, a # b PROVE Apart(a, b)
  BY <1>3, <1>4 DEF Legible
<1>5. t.height > 10 => t.y < t.height + 12
  BY <1>1
<1> QED
  BY <1>2, <1>4, <1>5 DEF Legible

LEMMA PutKeeps ==
    ASSUME NEW s, ScreenInv(s), NEW newLine \in BOOLEAN, NEW what, NEW color,
           NEW t, t = KeTermPuts(s, newLine, what, color)
    PROVE  /\ ScreenInv(t) /\ SameFrame(s, t)
           /\ ~Owns(s) => t.shown = s.shown /\ t.back = s.back
<1>1. PICK u : u = IF Owns(s) /\ Full(s) THEN KeTermClear(s) ELSE s
  OBVIOUS
<1>2. PICK v : v = IF Owns(u) THEN DrawString(u, {Box(what, u.x, u.y, 1, color)}) ELSE u
  OBVIOUS
<1>3. PICK x, y : /\ x = IF newLine THEN 10 ELSE IF Owns(v) THEN v.x + 8 * Length(what) ELSE v.x
                  /\ y = IF newLine THEN v.y + 12 ELSE v.y
  OBVIOUS
<1>4. t = CursorAt(v, x, y)
  BY <1>1, <1>2, <1>3 DEF KeTermPuts, CursorAt
<1>5. /\ ScreenInv(u) /\ SameFrame(s, u) /\ (~Owns(s) => u = s)
      /\ Owns(s) /\ u.height > 10 => u.y < u.height
  <2>1. CASE Owns(s) /\ Full(s)
    <3>1. u = KeTermClear(s)
      BY <1>1, <2>1
    <3>2. ScreenInv(u)
      BY <3>1, ClearKeeps DEF ScreenInv
    <3>3. SameFrame(s, u) /\ u.shown = {} /\ u.y = 10
      BY <3>1, <2>1, Cleared DEF ScreenInv
    <3> QED
      BY <2>1, <3>2, <3>3
  <2>2. CASE ~(Owns(s) /\ Full(s))
    <3>1. u = s
      BY <1>1, <2>2
    <3> QED
      BY <2>2, <3>1 DEF SameFrame, Full, ScreenInv, Sized
  <2> QED
    BY <2>1, <2>2
<1>6. Owns(u) <=> Owns(s)
  BY <1>5 DEF SameFrame, Owns
<1>7. PICK box : box = Box(what, u.x, u.y, 1, color)
  OBVIOUS
<1>8. PICK w \in Nat : w = 8 * Length(what)
  <2>1. Length(what) \in Nat
    BY LengthNat
  <2> QED
    BY <2>1
<1>9. box.x = u.x /\ box.y = u.y /\ box.w = w /\ box.h = 12
  <2>1. Length(what) \in Nat
    BY LengthNat
  <2> QED
    BY <1>7, <1>8, <2>1 DEF Box
<1>10. u.x \in Nat /\ u.y \in Nat
  BY <1>5 DEF ScreenInv, Sized
<1>11. CASE Owns(s)
  <2>1. v = DrawString(u, {box})
    BY <1>2, <1>6, <1>7, <1>11
  <2>2. \A b \in {box} : b.x \in Nat /\ b.y \in Nat /\ b.w \in Nat /\ b.h \in Nat
    BY <1>9, <1>10
  <2>3. u.init
    BY <1>6, <1>11 DEF Owns
  <2>4. /\ IsScreen(v) /\ Sized(v) /\ SameFrame(u, v)
        /\ v.shown = u.shown \cup {box} /\ v.x = u.x /\ v.y = u.y
    BY <1>5, <2>1, <2>2, <2>3, Drawn DEF ScreenInv
  <2>5. Owns(v)
    BY <2>4, <1>6, <1>11 DEF Owns, SameFrame
  <2>6. /\ x \in Nat /\ y \in Nat
        /\ (x = u.x + w /\ y = u.y) \/ y = u.y + 12
    BY <1>3, <1>8, <1>10, <2>4, <2>5
  <2>7. /\ IsScreen(t) /\ Sized(t) /\ SameFrame(v, t)
        /\ t.shown = v.shown /\ t.x = x /\ t.y = y
    <3>1. IsScreen(v) /\ Sized(v) /\ x \in Nat /\ y \in Nat
      BY <2>4, <2>6
    <3> QED
      BY ONLY <3>1, <1>4, Moved
  <2>8. SameFrame(s, t)
    BY <1>5, <2>4, <2>7 DEF SameFrame
  <2>9. Legible(t)
    <3>1. Sized(u) /\ Legible(u)
      BY <1>5, <1>6, <1>11 DEF ScreenInv
    <3>2. u.height > 10 => u.y < u.height
      BY <1>5, <1>11
    <3>3. t.shown = u.shown \cup {box} /\ t.height = u.height
      BY <2>4, <2>7 DEF SameFrame
    <3>4. (t.x = u.x + w /\ t.y = u.y) \/ t.y = u.y + 12
      BY <2>6, <2>7
    <3> QED
      BY <1>9, <3>1, <3>2, <3>3, <3>4, OneMore
  <2>10. t.dotX \in Nat
    BY <2>8 DEF SameFrame, ScreenInv
  <2> QED
    BY <1>11, <2>7, <2>8, <2>9, <2>10 DEF ScreenInv
<1>12. CASE ~Owns(s)
  <2>1. u = s /\ v = s
    BY <1>2, <1>5, <1>6, <1>12
  <2>2. x \in Nat /\ y \in Nat
    BY <1>3, <1>12, <2>1 DEF ScreenInv, Sized
  <2>3. /\ IsScreen(t) /\ Sized(t) /\ SameFrame(s, t)
        /\ t.shown = s.shown /\ t.back = s.back
    <3>1. IsScreen(s) /\ Sized(s) /\ t = CursorAt(s, x, y)
      BY <1>4, <2>1 DEF ScreenInv
    <3> QED
      BY ONLY <2>2, <3>1, Moved
  <2>4. ~Owns(t) /\ t.dotX \in Nat
    BY <1>12, <2>3 DEF Owns, SameFrame, ScreenInv
  <2> QED
    BY <2>3, <2>4 DEF ScreenInv
<1> QED
  BY <1>11, <1>12

\* Where there is room, a text goes where the cursor is.
LEMMA PutExact ==
    ASSUME NEW s, IsScreen(s), Sized(s), Owns(s), s.y < s.height,
           NEW newLine \in BOOLEAN, NEW what, NEW color,
           NEW t, t = KeTermPuts(s, newLine, what, color)
    PROVE  /\ t.shown = s.shown \cup {Box(what, s.x, s.y, 1, color)} /\ t.back = s.back
           /\ newLine => t.x = 10 /\ t.y = s.y + 12
           /\ ~newLine => t.x = s.x + 8 * Length(what) /\ t.y = s.y
<1>1. ~Full(s)
  BY DEF Full, Sized
<1>2. PICK v : v = DrawString(s, {Box(what, s.x, s.y, 1, color)})
  OBVIOUS
<1>3. PICK x, y : /\ x = IF newLine THEN 10 ELSE IF Owns(v) THEN v.x + 8 * Length(what) ELSE v.x
                  /\ y = IF newLine THEN v.y + 12 ELSE v.y
  OBVIOUS
<1>4. t = CursorAt(v, x, y)
  BY <1>1, <1>2, <1>3 DEF KeTermPuts, CursorAt
<1>5. PICK box : box = Box(what, s.x, s.y, 1, color)
  OBVIOUS
<1>6. box.x \in Nat /\ box.y \in Nat /\ box.w \in Nat /\ box.h \in Nat
  <2>1. Length(what) \in Nat /\ s.x \in Nat /\ s.y \in Nat
    BY LengthNat DEF Sized
  <2> QED
    BY <1>5, <2>1 DEF Box
<1>7. /\ IsScreen(v) /\ Sized(v) /\ SameFrame(s, v)
      /\ v.shown = s.shown \cup {box} /\ v.x = s.x /\ v.y = s.y /\ v.back = s.back
  <2>1. PICK boxes : boxes = {box}
    OBVIOUS
  <2>2. boxes # {} /\ \A b \in boxes : b.x \in Nat /\ b.y \in Nat /\ b.w \in Nat /\ b.h \in Nat
    BY <1>6, <2>1
  <2>3. v = DrawString(s, boxes) /\ s.init
    BY <1>2, <1>5, <2>1 DEF Owns
  <2>4. /\ IsScreen(v) /\ Sized(v) /\ SameFrame(s, v)
        /\ v.shown = s.shown \cup boxes /\ v.x = s.x /\ v.y = s.y /\ v.back = s.back
    BY ONLY <2>2, <2>3, IsScreen(s), Sized(s), Drawn
  <2> QED
    BY <2>1, <2>4
<1>8. Owns(v)
  BY <1>7 DEF Owns, SameFrame
<1>9. x \in Nat /\ y \in Nat
  BY <1>3, <1>7, <1>8, LengthNat DEF Sized
<1>10. t.shown = v.shown /\ t.x = x /\ t.y = y /\ t.back = v.back
  <2>1. IsScreen(v) /\ Sized(v)
    BY <1>7
  <2> QED
    BY ONLY <1>4, <1>9, <2>1, Moved
<1>11. newLine => t.x = 10 /\ t.y = s.y + 12
  BY <1>3, <1>7, <1>10
<1>12. ~newLine => t.x = s.x + 8 * Length(what) /\ t.y = s.y
  BY <1>3, <1>7, <1>8, <1>10
<1> QED
  BY <1>5, <1>7, <1>10, <1>11, <1>12

-----------------------------------------------------------------------------
(* Printing and moving down *)

\* One more line of the log.
LogLine(t, tag) ==
    LET u == IF tag = 0 THEN t ELSE KeTermPuts(t, FALSE, T("[ ] "), t.palette[tag])
    IN KeTermPuts(u, TRUE, T("log"), u.palette[TEXT])

\* Screens line by line.
Printed(f, s, tag, n) ==
    f = [i \in 0 .. n |-> IF i = 0 THEN {s} ELSE {LogLine(t, tag) : t \in f[i - 1]}]

LEMMA PrintedThere == ASSUME NEW s, NEW tag, NEW n \in Nat PROVE \E f : Printed(f, s, tag, n)
<1> DEFINE Bad == {m \in Nat : ~\E f : Printed(f, s, tag, m)}
<1> SUFFICES ASSUME Bad # {} PROVE FALSE
  OBVIOUS
<1>1. PICK m \in Nat : m \in Bad /\ \A k \in Bad : m <= k
  BY LeastNumber
<1>2. CASE m = 0
  <2>1. PICK g : g = [i \in 0 .. 0 |-> {s}]
    OBVIOUS
  <2>2. Printed(g, s, tag, 0)
    BY <2>1 DEF Printed
  <2> QED
    BY <1>1, <1>2, <2>2
<1>3. CASE m # 0
  <2>1. m - 1 \in Nat /\ m - 1 \notin Bad
    BY <1>1, <1>3
  <2>2. PICK f : Printed(f, s, tag, m - 1)
    BY <2>1
  <2>3. PICK g : g = [i \in 0 .. m |-> IF i = m THEN {LogLine(t, tag) : t \in f[m - 1]} ELSE f[i]]
    OBVIOUS
  <2>4. \A i \in 0 .. (m - 1) : f[i] = IF i = 0 THEN {s} ELSE {LogLine(t, tag) : t \in f[i - 1]}
    BY <2>2 DEF Printed
  <2>5. \A i \in 0 .. m : g[i] = IF i = 0 THEN {s} ELSE {LogLine(t, tag) : t \in g[i - 1]}
    <3> SUFFICES ASSUME NEW i \in 0 .. m
                 PROVE  g[i] = IF i = 0 THEN {s} ELSE {LogLine(t, tag) : t \in g[i - 1]}
      OBVIOUS
    <3>1. CASE i = m
      <4>1. g[m] = {LogLine(t, tag) : t \in f[m - 1]} /\ g[m - 1] = f[m - 1]
        BY <1>1, <1>3, <2>1, <2>3
      <4> QED
        BY <1>3, <3>1, <4>1
    <3>2. CASE i # m /\ i = 0
      <4>1. i \in 0 .. (m - 1)
        BY <1>1, <3>2
      <4>2. g[i] = f[i] /\ f[i] = {s}
        BY <2>3, <2>4, <3>2, <4>1
      <4> QED
        BY <3>2, <4>2
    <3>3. CASE i # m /\ i # 0
      <4>1. i \in 0 .. (m - 1) /\ i - 1 \in 0 .. (m - 1)
        BY <1>1, <3>3
      <4>2. g[i] = f[i] /\ g[i - 1] = f[i - 1]
        BY <2>3, <4>1
      <4> QED
        BY <2>4, <3>3, <4>1, <4>2
    <3> QED
      BY <3>1, <3>2, <3>3
  <2>6. g = [i \in 0 .. m |-> IF i = 0 THEN {s} ELSE {LogLine(t, tag) : t \in g[i - 1]}]
    <3>1. g = [i \in 0 .. m |-> g[i]]
      BY <2>3
    <3> QED
      BY <2>5, <3>1
  <2>7. Printed(g, s, tag, m)
    BY <2>6 DEF Printed
  <2> QED
    BY <1>1, <2>7
<1> QED
  BY <1>2, <1>3

LEMMA PrintIs ==
    ASSUME NEW s, NEW tag, NEW n \in Nat, NEW t \in KeTermPrint(s, tag, n)
    PROVE  \E f : Printed(f, s, tag, n) /\ t \in f[n]
<1>1. PICK f : f = CHOOSE g : Printed(g, s, tag, n)
  OBVIOUS
<1>2. Printed(f, s, tag, n)
  BY <1>1, PrintedThere
<1>3. KeTermPrint(s, tag, n) = f[n]
  <2> DEFINE tagged(v) == IF tag = 0 THEN v ELSE KeTermPuts(v, FALSE, T("[ ] "), v.palette[tag])
             line(v) == {KeTermPuts(u, TRUE, T("log"), u.palette[TEXT]) : u \in {tagged(v)}}
             Rec(g) == g = [i \in 0 .. n |-> IF i = 0 THEN {s} ELSE UNION {line(v) : v \in g[i - 1]}]
  <2>1. KeTermPrint(s, tag, n) = (CHOOSE g : Rec(g))[n]
    BY DEF KeTermPrint
  <2>2. \A v : line(v) = {LogLine(v, tag)}
    BY DEF LogLine
  <2>3. \A X : UNION {line(v) : v \in X} = {LogLine(v, tag) : v \in X}
    <3> HIDE DEF line
    <3> QED
      BY <2>2
  <2>4. \A g : Rec(g) <=> Printed(g, s, tag, n)
    <3> HIDE DEF line
    <3> QED
      BY <2>3 DEF Printed
  <2>5. (CHOOSE g : Rec(g)) = CHOOSE g : Printed(g, s, tag, n)
    <3> HIDE DEF Rec
    <3> QED
      BY <2>4
  <2> QED
    BY <1>1, <2>1, <2>5
<1> QED
  BY <1>2, <1>3

LEMMA LineKeeps ==
    ASSUME NEW s, ScreenInv(s), NEW tag, NEW t, t = LogLine(s, tag)
    PROVE  /\ ScreenInv(t) /\ SameFrame(s, t)
           /\ ~Owns(s) => t.shown = s.shown /\ t.back = s.back
<1>1. PICK u : u = IF tag = 0 THEN s ELSE KeTermPuts(s, FALSE, T("[ ] "), s.palette[tag])
  OBVIOUS
<1>2. t = KeTermPuts(u, TRUE, T("log"), u.palette[TEXT])
  BY <1>1 DEF LogLine
<1>3. /\ ScreenInv(u) /\ SameFrame(s, u)
      /\ ~Owns(s) => u.shown = s.shown /\ u.back = s.back
  <2>1. CASE tag = 0
    BY <1>1, <2>1 DEF SameFrame
  <2>2. CASE tag # 0
    <3>1. PICK newLine \in BOOLEAN : newLine = FALSE
      OBVIOUS
    <3>2. PICK what, color : what = T("[ ] ") /\ color = s.palette[tag]
      OBVIOUS
    <3>3. u = KeTermPuts(s, newLine, what, color)
      BY <1>1, <2>2, <3>1, <3>2
    <3> QED
      BY ONLY <3>3, ScreenInv(s), newLine \in BOOLEAN, PutKeeps
  <2> QED
    BY <2>1, <2>2
<1>4. /\ ScreenInv(t) /\ SameFrame(u, t)
      /\ ~Owns(u) => t.shown = u.shown /\ t.back = u.back
  <2>1. PICK newLine \in BOOLEAN : newLine = TRUE
    OBVIOUS
  <2>2. PICK what, color : what = T("log") /\ color = u.palette[TEXT]
    OBVIOUS
  <2>3. t = KeTermPuts(u, newLine, what, color)
    BY <1>2, <2>1, <2>2
  <2> QED
    BY ONLY <1>3, <2>3, newLine \in BOOLEAN, PutKeeps
<1>5. Owns(u) <=> Owns(s)
  BY <1>3 DEF Owns, SameFrame
<1>6. SameFrame(s, t)
  BY <1>3, <1>4 DEF SameFrame
<1> QED
  BY <1>3, <1>4, <1>5, <1>6

LEMMA PrintKeeps ==
    ASSUME NEW s, ScreenInv(s), NEW tag, NEW n \in Nat, NEW t \in KeTermPrint(s, tag, n)
    PROVE  /\ ScreenInv(t) /\ SameFrame(s, t)
           /\ ~Owns(s) => t.shown = s.shown /\ t.back = s.back
<1> DEFINE Good(u) == /\ ScreenInv(u) /\ SameFrame(s, u)
                      /\ ~Owns(s) => u.shown = s.shown /\ u.back = s.back
<1>1. PICK f : Printed(f, s, tag, n) /\ t \in f[n]
  BY PrintIs
<1>2. \A i \in 0 .. n : f[i] = IF i = 0 THEN {s} ELSE {LogLine(u, tag) : u \in f[i - 1]}
  BY <1>1 DEF Printed
<1>3. Good(s)
  BY DEF SameFrame
<1>4. \A u : Good(u) => Good(LogLine(u, tag))
  <2> SUFFICES ASSUME NEW u, Good(u) PROVE Good(LogLine(u, tag))
    OBVIOUS
  <2>1. PICK v : v = LogLine(u, tag)
    OBVIOUS
  <2>2. ScreenInv(u)
    OBVIOUS
  <2>3. /\ ScreenInv(v) /\ SameFrame(u, v)
        /\ ~Owns(u) => v.shown = u.shown /\ v.back = u.back
    BY ONLY <2>1, <2>2, LineKeeps
  <2>4. (Owns(u) <=> Owns(s)) /\ SameFrame(s, v)
    BY <2>3 DEF Owns, SameFrame
  <2>5. Good(v)
    BY <2>3, <2>4
  <2> QED
    BY <2>1, <2>5
<1> HIDE DEF Good
<1> DEFINE Bad == {i \in 0 .. n : \E u \in f[i] : ~Good(u)}
<1>5. Bad = {}
  <2> SUFFICES ASSUME Bad # {} PROVE FALSE
    OBVIOUS
  <2>0. Bad \subseteq Nat
    OBVIOUS
  <2>1. PICK m \in Bad : \A k \in Bad : m <= k
    <3> HIDE DEF Bad
    <3> QED
      BY <2>0, LeastNumber
  <2>2. PICK u \in f[m] : ~Good(u)
    BY <2>1
  <2>3. CASE m = 0
    <3>1. f[m] = {s}
      BY <1>2, <2>3
    <3> QED
      BY <1>3, <2>2, <3>1
  <2>4. CASE m # 0
    <3>1. m - 1 \in 0 .. n /\ m - 1 \notin Bad /\ m \in 0 .. n
      BY <2>1, <2>4
    <3>2. f[m] = {LogLine(v, tag) : v \in f[m - 1]}
      BY <1>2, <2>4, <3>1
    <3>3. PICK v \in f[m - 1] : u = LogLine(v, tag)
      BY <2>2, <3>2
    <3>4. Good(v)
      BY <3>1, <3>3
    <3> QED
      BY <1>4, <2>2, <3>3, <3>4
  <2> QED
    BY <2>3, <2>4
<1>6. Good(t)
  <2>1. n \in 0 .. n
    OBVIOUS
  <2> QED
    BY <1>1, <1>5, <2>1
<1> QED
  BY <1>6 DEF Good

LEMMA DownTwo == ASSUME NEW s PROVE KeTermMoveDown(s, 2) = MoveDownOne(MoveDownOne(s))
<1> DEFINE Rec(f) == f = [i \in 0 .. 2 |-> IF i = 0 THEN s ELSE MoveDownOne(f[i - 1])]
           two == [i \in 0 .. 2 |-> IF i = 0 THEN s ELSE IF i = 1 THEN MoveDownOne(s)
                                    ELSE MoveDownOne(MoveDownOne(s))]
<1>1. Rec(two)
  OBVIOUS
<1>2. PICK after : after = CHOOSE f : Rec(f)
  OBVIOUS
<1>3. Rec(after)
  <2> HIDE DEF Rec, two
  <2> QED
    BY <1>1, <1>2
<1>4. KeTermMoveDown(s, 2) = after[2]
  BY <1>2 DEF KeTermMoveDown
<1>5. after[2] = MoveDownOne(after[1]) /\ after[1] = MoveDownOne(after[0]) /\ after[0] = s
  BY <1>3
<1> QED
  BY <1>4, <1>5

LEMMA DownKeeps ==
    ASSUME NEW s, ScreenInv(s), NEW t, t = MoveDownOne(s)
    PROVE  /\ ScreenInv(t) /\ SameFrame(s, t)
           /\ ~Owns(s) => t.shown = s.shown /\ t.back = s.back
<1>1. s.y \in Nat /\ s.height \in Nat
  BY DEF ScreenInv, Sized
<1>2. PICK x \in Nat : x = 10
  OBVIOUS
<1>3. PICK y \in Nat : y = s.y + 12
  BY <1>1
<1>4. PICK u : u = CursorAt(s, x, y)
  OBVIOUS
<1>5. t = IF Full(u) THEN KeTermClear(u) ELSE u
  BY <1>2, <1>3, <1>4 DEF MoveDownOne, CursorAt
<1>6. /\ IsScreen(u) /\ Sized(u) /\ SameFrame(s, u)
      /\ u.shown = s.shown /\ u.back = s.back /\ u.y = s.y + 12
  <2>1. IsScreen(s) /\ Sized(s)
    BY DEF ScreenInv
  <2>2. /\ IsScreen(u) /\ Sized(u) /\ SameFrame(s, u)
        /\ u.shown = s.shown /\ u.back = s.back /\ u.y = y
    BY ONLY <1>4, <2>1, x \in Nat, y \in Nat, Moved
  <2> QED
    BY <1>3, <2>2
<1>7. Owns(u) <=> Owns(s)
  BY <1>6 DEF Owns, SameFrame
<1>8. u.dotX \in Nat /\ u.height = s.height
  BY <1>6 DEF SameFrame, ScreenInv
<1>9. CASE Full(u)
  <2>1. t = KeTermClear(u)
    BY <1>5, <1>9
  <2>2. ScreenInv(t)
    BY <1>6, <1>8, <2>1, ClearKeeps
  <2>3. SameFrame(u, t) /\ (~Owns(u) => t.shown = u.shown /\ t.back = u.back)
    BY <1>6, <2>1, Cleared
  <2>4. SameFrame(s, t)
    BY <1>6, <2>3 DEF SameFrame
  <2> QED
    BY <1>6, <1>7, <2>2, <2>3, <2>4
<1>10. CASE ~Full(u)
  <2>1. t = u /\ u.y < u.height
    BY <1>1, <1>5, <1>6, <1>8, <1>10 DEF Full
  <2>2. ASSUME Owns(s) PROVE Legible(u)
    <3>1. Legible(s)
      BY <2>2 DEF ScreenInv
    <3>2. ASSUME NEW b \in u.shown
          PROVE  /\ b.x \in Nat /\ b.y \in Nat /\ b.w \in Nat /\ b.h = 12
                 /\ b.y + 12 <= u.y
                 /\ u.height > 10 => b.y < u.height
      BY <1>1, <1>6, <1>8, <3>1, <3>2 DEF Legible
    <3>3. \A a, b \in u.shown : a # b => Apart(a, b)
      BY <1>6, <3>1 DEF Legible
    <3>4. u.y < u.height + 12
      BY <1>1, <1>6, <1>8, <2>1
    <3> QED
      BY <3>2, <3>3, <3>4 DEF Legible
  <2>3. ScreenInv(u)
    BY <1>6, <1>7, <1>8, <2>2 DEF ScreenInv
  <2> QED
    BY <1>6, <2>1, <2>3
<1> QED
  BY <1>9, <1>10

LEMMA MoveKeeps ==
    ASSUME NEW s, ScreenInv(s), NEW t, t = KeTermMoveDown(s, 2)
    PROVE  ScreenInv(t) /\ SameFrame(s, t)
<1>1. PICK u : u = MoveDownOne(s)
  OBVIOUS
<1>2. t = MoveDownOne(u)
  BY <1>1, DownTwo
<1>3. ScreenInv(u) /\ SameFrame(s, u)
  BY <1>1, DownKeeps
<1>4. ScreenInv(t) /\ SameFrame(u, t)
  BY <1>2, <1>3, DownKeeps
<1> QED
  BY <1>3, <1>4 DEF SameFrame

\* One line down, where there is room.
LEMMA DownExact ==
    ASSUME NEW s, IsScreen(s), Sized(s), s.y + 12 < s.height, NEW t, t = MoveDownOne(s)
    PROVE  /\ IsScreen(t) /\ Sized(t) /\ t.height = s.height
           /\ t.shown = s.shown /\ t.back = s.back /\ t.x = 10 /\ t.y = s.y + 12
<1>1. s.y \in Nat /\ s.height \in Nat
  BY DEF Sized
<1>2. PICK x \in Nat : x = 10
  OBVIOUS
<1>3. PICK y \in Nat : y = s.y + 12
  BY <1>1
<1>4. PICK u : u = CursorAt(s, x, y)
  OBVIOUS
<1>5. t = IF Full(u) THEN KeTermClear(u) ELSE u
  BY <1>2, <1>3, <1>4 DEF MoveDownOne, CursorAt
<1>6. /\ IsScreen(u) /\ Sized(u) /\ SameFrame(s, u)
      /\ u.shown = s.shown /\ u.x = x /\ u.y = y /\ u.back = s.back
  BY ONLY <1>4, IsScreen(s), Sized(s), x \in Nat, y \in Nat, Moved
<1>7. u.height = s.height
  BY <1>6 DEF SameFrame
<1>8. ~Full(u)
  BY <1>1, <1>3, <1>6, <1>7 DEF Full
<1> QED
  BY <1>2, <1>3, <1>5, <1>6, <1>7, <1>8

LEMMA MoveExact ==
    ASSUME NEW s, IsScreen(s), Sized(s), s.y + 24 < s.height, NEW t, t = KeTermMoveDown(s, 2)
    PROVE  t.shown = s.shown /\ t.back = s.back /\ t.x = 10 /\ t.y = s.y + 24
<1>1. PICK u : u = MoveDownOne(s)
  OBVIOUS
<1>2. t = MoveDownOne(u)
  BY <1>1, DownTwo
<1>3. s.y \in Nat /\ s.height \in Nat /\ s.y + 12 < s.height
  BY DEF Sized
<1>4. /\ IsScreen(u) /\ Sized(u) /\ u.height = s.height
      /\ u.shown = s.shown /\ u.back = s.back /\ u.x = 10 /\ u.y = s.y + 12
  BY <1>1, <1>3, DownExact
<1>5. u.y + 12 < u.height
  BY <1>3, <1>4
<1>6. t.shown = u.shown /\ t.back = u.back /\ t.x = 10 /\ t.y = u.y + 12
  BY <1>2, <1>4, <1>5, DownExact
<1> QED
  BY <1>3, <1>4, <1>6

-----------------------------------------------------------------------------
(* The splash screen *)

\* The splash screen with some of its dashes done.
Splash(done) == {Title} \cup {Dash(10 * i, "white") : i \in 1 .. 10}
                        \cup {Dash(10 * i, "cyan") : i \in 1 .. done}

LEMMA BoxNat ==
    ASSUME NEW what, NEW x \in Nat, NEW y \in Nat, NEW size \in Nat, NEW color,
           NEW b, b = Box(what, x, y, size, color)
    PROVE  b.x \in Nat /\ b.y \in Nat /\ b.w \in Nat /\ b.h \in Nat
<1>1. Length(what) \in Nat
  BY LengthNat
<1>2. 8 * size * Length(what) \in Nat /\ 12 * size \in Nat
  BY <1>1
<1> QED
  BY <1>2 DEF Box

LEMMA DashNat ==
    ASSUME NEW x \in Nat, NEW color, NEW b, b = Dash(x, color)
    PROVE  b.x \in Nat /\ b.y \in Nat /\ b.w \in Nat /\ b.h \in Nat
<1>1. PICK y \in Nat : y = 40
  OBVIOUS
<1>2. PICK size \in Nat : size = 3
  OBVIOUS
<1>3. PICK what : what = T("/")
  OBVIOUS
<1>4. b = Box(what, x, y, size, color)
  BY <1>1, <1>2, <1>3 DEF Dash
<1> QED
  BY ONLY <1>4, x \in Nat, y \in Nat, size \in Nat, BoxNat

LEMMA TitleNat == Title.x \in Nat /\ Title.y \in Nat /\ Title.w \in Nat /\ Title.h \in Nat
<1>1. PICK ten \in Nat : ten = 10
  OBVIOUS
<1>2. PICK size \in Nat : size = 2
  OBVIOUS
<1>3. PICK what, color : what = T("Starting Nearlands") /\ color = "white"
  OBVIOUS
<1>4. PICK b : b = Title
  OBVIOUS
<1>5. b = Box(what, ten, ten, size, color)
  BY <1>1, <1>2, <1>3, <1>4 DEF Title
<1>6. b.x \in Nat /\ b.y \in Nat /\ b.w \in Nat /\ b.h \in Nat
  BY ONLY <1>5, ten \in Nat, size \in Nat, BoxNat
<1> QED
  BY <1>4, <1>6

\* A splash screen is begun with all its dashes, none of them done.
LEMMA BeginKeeps ==
    ASSUME NEW s, IsScreen(s), Sized(s), s.init, NEW t, t = KeBeginSplashScreen(s, 10)
    PROVE  /\ IsScreen(t) /\ Sized(t) /\ SameFrame(s, t)
           /\ s.owner = "splash" => t.shown = Splash(0)
<1>1. CASE s.owner # "splash"
  BY <1>1 DEF KeBeginSplashScreen, SameFrame
<1>2. CASE s.owner = "splash"
  <2>1. PICK u : u = Wipe(s, "black")
    OBVIOUS
  <2>2. IsScreen(u) /\ Sized(u) /\ SameFrame(s, u) /\ u.shown = {}
    BY <2>1, Wiped
  <2>3. u.init
    BY <2>2 DEF SameFrame
  <2>4. PICK boxes : boxes = {Title} \cup {Dash(10 * i, "white") : i \in 1 .. 10}
    OBVIOUS
  <2>5. t = DrawString(u, boxes)
    BY <1>2, <2>1, <2>4 DEF KeBeginSplashScreen
  <2>6. boxes # {}
    BY <2>4
  <2>7. \A b \in boxes : b.x \in Nat /\ b.y \in Nat /\ b.w \in Nat /\ b.h \in Nat
    <3> SUFFICES ASSUME NEW b \in boxes
                 PROVE  b.x \in Nat /\ b.y \in Nat /\ b.w \in Nat /\ b.h \in Nat
      OBVIOUS
    <3>1. CASE b = Title
      BY <3>1, TitleNat
    <3>2. ASSUME NEW i \in 1 .. 10, b = Dash(10 * i, "white")
          PROVE  b.x \in Nat /\ b.y \in Nat /\ b.w \in Nat /\ b.h \in Nat
      <4>1. PICK x \in Nat : x = 10 * i
        OBVIOUS
      <4>2. PICK color : color = "white"
        OBVIOUS
      <4>3. b = Dash(x, color)
        BY <3>2, <4>1, <4>2
      <4> QED
        BY ONLY <4>3, x \in Nat, DashNat
    <3> QED
      BY <2>4, <3>1, <3>2
  <2>8. /\ IsScreen(t) /\ Sized(t) /\ SameFrame(u, t)
        /\ t.shown = u.shown \cup boxes
    <3>1. IsScreen(u) /\ Sized(u)
      BY <2>2
    <3> QED
      BY ONLY <3>1, <2>3, <2>5, <2>6, <2>7, Drawn
  <2>9. boxes = Splash(0)
    <3>1. {Dash(10 * i, "cyan") : i \in 1 .. 0} = {}
      OBVIOUS
    <3> QED
      BY <2>4, <3>1 DEF Splash
  <2>10. SameFrame(s, t)
    BY <2>2, <2>8 DEF SameFrame
  <2> QED
    BY <2>2, <2>8, <2>9, <2>10
<1> QED
  BY <1>1, <1>2

\* One more dash is done.
LEMMA AddKeeps ==
    ASSUME NEW s, ScreenInv(s), s.init, s.owner = "splash", NEW t, t = KeAddToBootScreen(s)
    PROVE  /\ ScreenInv(t) /\ t.init = s.init /\ t.owner = s.owner /\ t.palette = s.palette
           /\ t.shown = s.shown \cup {Dash(s.dotX, "cyan")}
           /\ t.dotX = s.dotX + 10
<1>1. PICK u : u = DrawString(s, {Dash(s.dotX, "cyan")})
  OBVIOUS
<1>2. t = [u EXCEPT !.dotX = @ + 10]
  BY <1>1 DEF KeAddToBootScreen
<1>3. s.dotX \in Nat
  BY DEF ScreenInv
<1>4. PICK b : b = Dash(s.dotX, "cyan")
  OBVIOUS
<1>5. \A c \in {b} : c.x \in Nat /\ c.y \in Nat /\ c.w \in Nat /\ c.h \in Nat
  BY <1>3, <1>4, DashNat
<1>6. /\ IsScreen(u) /\ Sized(u) /\ SameFrame(s, u)
      /\ u.shown = s.shown \cup {b}
  <2>1. PICK boxes : boxes = {b}
    OBVIOUS
  <2>2. boxes # {} /\ \A c \in boxes : c.x \in Nat /\ c.y \in Nat /\ c.w \in Nat /\ c.h \in Nat
    BY <1>5, <2>1
  <2>3. u = DrawString(s, boxes)
    BY <1>1, <1>4, <2>1
  <2>4. IsScreen(s) /\ Sized(s)
    BY DEF ScreenInv
  <2>5. IsScreen(u) /\ Sized(u) /\ SameFrame(s, u) /\ u.shown = s.shown \cup boxes
    BY ONLY <2>2, <2>3, <2>4, s.init, Drawn
  <2> QED
    BY <2>1, <2>5
<1>7. u.dotX = s.dotX
  BY <1>6 DEF SameFrame
<1>8. /\ IsScreen(t) /\ t.dotX = u.dotX + 10 /\ t.shown = u.shown
      /\ t.init = u.init /\ t.owner = u.owner /\ t.palette = u.palette
      /\ t.width = u.width /\ t.height = u.height
      /\ t.pixelsPerScanLine = u.pixelsPerScanLine /\ t.size = u.size
      /\ t.x = u.x /\ t.y = u.y /\ t.reach = u.reach
  BY <1>2, <1>6 DEF IsScreen
<1>9. Sized(t)
  BY <1>6, <1>8 DEF Sized
<1>10. t.init = s.init /\ t.owner = s.owner /\ t.palette = s.palette
  BY <1>6, <1>8 DEF SameFrame
<1>11. ~Owns(t)
  BY <1>10 DEF Owns
<1> QED
  BY <1>3, <1>4, <1>6, <1>7, <1>8, <1>9, <1>10, <1>11 DEF ScreenInv

LEMMA SplashGrows ==
    \A n \in Nat : Splash(n) \cup {Dash(10 * (n + 1), "cyan")} = Splash(n + 1)
<1> SUFFICES ASSUME NEW n \in Nat
             PROVE  Splash(n) \cup {Dash(10 * (n + 1), "cyan")} = Splash(n + 1)
  OBVIOUS
<1>1. \A i : i \in 1 .. (n + 1) <=> i \in 1 .. n \/ i = n + 1
  OBVIOUS
<1>2. {Dash(10 * i, "cyan") : i \in 1 .. (n + 1)}
        = {Dash(10 * i, "cyan") : i \in 1 .. n} \cup {Dash(10 * (n + 1), "cyan")}
  BY <1>1
<1> QED
  BY <1>2 DEF Splash
=============================================================================
