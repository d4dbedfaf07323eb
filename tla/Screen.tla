------------------------------- MODULE Screen -------------------------------
(***************************************************************************)
(* The kernel's screen: rectangles and text on the framebuffer             *)
(* (narnify/src/ke/graphics.c), the terminal (ke/term.c) and the splash    *)
(* screen (ke/splash.c), which share it.                                   *)
(*                                                                         *)
(* A screen is a record: the GraphicsData, in pixels, the terminal's       *)
(* cursor (x, y) and palette, the splash screen's dotX, and as history the *)
(* marks that are on the screen since it was last wiped (shown), the       *)
(* colour it was wiped with (back) and how much of the framebuffer has     *)
(* been written (reach).  A mark is a text with its place, its width and   *)
(* its colour; its glyphs are left out.  Coordinates stay far below 2^32.  *)
(***************************************************************************)
EXTENDS Integers, Sequences, FiniteSetsExt

CONSTANTS
    LogLength,      \* characters of a line that is not part of a panic
    MessageLength   \* characters of what a panic is about

ASSUME LengthAssumption == LogLength \in Nat /\ MessageLength \in Nat

\* A text is a record, so that numbers can be part of one.
T(text) == [text |-> text]

\* Characters of the texts that matter; KeTermPrint keeps others below 256.
Length(what) ==
    CASE what = T("PANIC") -> 45 [] what = T("has panicked") -> 23 [] what = T("INFO") -> 21
      [] what = T("Please report") -> 36 [] what = T("Starting Nearlands") -> 18
      [] what = T("[ ] ") -> 4 [] what = T("      ") -> 6 [] what = T("/") -> 1
      [] what = T("log") -> LogLength [] OTHER -> MessageLength

Palette == <<"dark green", "white", "red", "green", "yellow", "light blue", "orange">>
BACKGROUND == 1
TEXT == 2

-----------------------------------------------------------------------------
(* graphics.c *)

\* What may be known of a framebuffer: it holds the rows, or there is no screen and all
\* is zero.
Framebuffer ==
    {g \in [width : Nat, height : Nat, pixelsPerScanLine : Nat, size : Nat] :
        g.width <= g.pixelsPerScanLine /\ g.height * g.pixelsPerScanLine <= g.size}

\* Before the start: globalGraphics is zero.
NoScreen ==
    [init |-> FALSE, width |-> 0, height |-> 0, pixelsPerScanLine |-> 0, size |-> 0,
     owner |-> "term", x |-> 10, y |-> 10, palette |-> Palette, dotX |-> 10,
     shown |-> {}, back |-> "none", reach |-> 0]

\* The screen counts as set up whatever the loader reported.
GraphicsSetup(s, data, owner) ==
    [s EXCEPT !.init = TRUE, !.width = data.width, !.height = data.height,
              !.pixelsPerScanLine = data.pixelsPerScanLine, !.size = data.size, !.owner = owner]

\* Mutant of RectEnd: a row is not cut at the right edge.
RectEndWide(s, x, y, w, h) ==
    LET bottom == Min({y + h, s.height})
    IN IF y >= bottom THEN 0 ELSE (bottom - 1) * s.pixelsPerScanLine + x + w

\* The end of what KeGraphicsDrawRect writes: pixels outside of the width and the
\* height are skipped.
RectEnd(s, x, y, w, h) ==
    LET bottom == Min({y + h, s.height})
        right == Min({x + w, s.width})
    IN IF y >= bottom \/ x >= right THEN 0 ELSE (bottom - 1) * s.pixelsPerScanLine + right

\* KeGraphicsDrawChar draws dots in a box of 8 by 12, KeGraphicsDrawString one
\* character behind the other.
Box(what, x, y, size, color) ==
    [x |-> x, y |-> y, w |-> 8 * size * Length(what), h |-> 12 * size,
     what |-> what, color |-> color]
DrawString(s, boxes) ==
    IF ~s.init THEN s
    ELSE [s EXCEPT !.shown = @ \cup boxes,
                   !.reach = Max({@} \cup {RectEnd(s, b.x, b.y, b.w, b.h) : b \in boxes})]

\* KeGraphicsClear.
Wipe(s, color) ==
    [s EXCEPT !.shown = {}, !.back = color,
              !.reach = Max({@, RectEnd(s, 0, 0, s.width, s.height)})]

-----------------------------------------------------------------------------
(* term.c *)

\* Mutant of Owns: the terminal does not look who owns the screen.
OwnsAlways(s) == s.init
Owns(s) == s.init /\ s.owner = "term"

\* Mutant of KeTermClear: the screen is not wiped.
TermClearUnwiped(s) == [s EXCEPT !.x = 10, !.y = 10]

\* The cursor moves to the first line whoever owns the screen.
KeTermClear(s) ==
    [(IF Owns(s) THEN Wipe(s, s.palette[BACKGROUND]) ELSE s) EXCEPT !.x = 10, !.y = 10]

\* KePanic does not look at the status.
KeTermChangePalette(s, palette) ==
    IF Len(palette) > Len(s.palette) THEN s
    ELSE [s EXCEPT !.palette = palette \o SubSeq(@, Len(palette) + 1, Len(@))]

Full(s) == s.y >= s.height

\* Text is drawn if the terminal owns the screen.
KeTermPuts(s, newLine, what, color) ==
    LET u == IF Owns(s) /\ Full(s) THEN KeTermClear(s) ELSE s
        v == IF Owns(u) THEN DrawString(u, {Box(what, u.x, u.y, 1, color)}) ELSE u
    IN [v EXCEPT !.x = IF newLine THEN 10 ELSE IF Owns(v) THEN @ + 8 * Length(what) ELSE @,
                 !.y = IF newLine THEN @ + 12 ELSE @]

MoveDownOne(s) ==
    LET t == [s EXCEPT !.x = 10, !.y = @ + 12] IN IF Full(t) THEN KeTermClear(t) ELSE t
KeTermMoveDown(s, amount) ==
    LET after[i \in 0 .. amount] == IF i = 0 THEN s ELSE MoveDownOne(after[i - 1])
    IN after[amount]

\* KeTermPrint: the set of the one screen with some more log lines; the colour of a
\* tag is its place in the palette.
KeTermPrint(s, tag, lines) ==
    LET tagged(t) == IF tag = 0 THEN t ELSE KeTermPuts(t, FALSE, T("[ ] "), t.palette[tag])
        line(t) == {KeTermPuts(u, TRUE, T("log"), u.palette[TEXT]) : u \in {tagged(t)}}
        after[i \in 0 .. lines] == IF i = 0 THEN {s} ELSE UNION {line(t) : t \in after[i - 1]}
    IN after[lines]

-----------------------------------------------------------------------------
(* splash.c *)

Dash(x, color) == Box(T("/"), x, 40, 3, color)
Title == Box(T("Starting Nearlands"), 10, 10, 2, "white")

KeAddToBootScreen(s) ==
    IF s.owner # "splash" THEN s
    ELSE [DrawString(s, {Dash(s.dotX, "cyan")}) EXCEPT !.dotX = @ + 10]

KeBeginSplashScreen(s, dashes) ==
    IF s.owner # "splash" THEN s
    ELSE DrawString(Wipe(s, "black"), {Title} \cup {Dash(10 * i, "white") : i \in 1 .. dashes})

-----------------------------------------------------------------------------
(* What is seen of a screen *)

Apart(a, b) == a.x + a.w <= b.x \/ b.x + b.w <= a.x \/ a.y + a.h <= b.y \/ b.y + b.h <= a.y
Inside(s, box) == box.x + box.w <= s.width /\ box.y + box.h <= s.height
=============================================================================
