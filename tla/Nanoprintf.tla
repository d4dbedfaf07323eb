----------------------------- MODULE Nanoprintf -----------------------------
(***************************************************************************)
(* The text of everything the loader and the kernel print: KeTermPrint     *)
(* (narnify/src/ke/term.c) copies the format into a small buffer, and      *)
(* npf_vsnprintf (includes/nanoprintf/nanoprintf.h) formats into another.  *)
(* The loader's LdrTermPrint and its copy of the header are the same.      *)
(*                                                                         *)
(* A format is a sequence of characters that ends with a NUL.  What is     *)
(* asked for is kept beside it as a sequence of items, from which the      *)
(* reference text of ISO C is defined without reading the format.          *)
(* Nobody prints floating point numbers: a directive for one is read, but  *)
(* its conversion is left out.                                             *)
(***************************************************************************)
EXTENDS Integers, Sequences, FiniteSetsExt

CONSTANTS
    Char,       \* the characters, without the NUL
    CharValues, ShortValues, IntValues, LongValues, PtrValues,  \* how many values the
                \* integer types of C have (2^8, 2^16, 2^32, 2^64, 2^64)
    PtrDigits,  \* hexadecimal digits of a pointer
    ConvSize,   \* NANOPRINTF_CONVERSION_BUFFER_SIZE
    FormatMax,  \* characters of a format that KeTermPrint keeps (127)
    BufferSize, \* its buffer for the text (256)
    Requests    \* sequences of items that are printed

ASSUME ValuesAssumption ==
    /\ \A v \in {CharValues, ShortValues, IntValues, LongValues, PtrValues} :
         v \in Nat \ {0} /\ v % 2 = 0
    /\ IntValues > 9
    /\ CharValues <= ShortValues /\ ShortValues <= IntValues
    /\ IntValues <= LongValues /\ LongValues <= PtrValues
    /\ PtrDigits \in Nat
ASSUME SizeAssumption == FormatMax \in Nat /\ BufferSize \in Nat \ {0}

VARIABLES
    request,    \* what is printed
    format,     \* cstr of KeTermPrint
    cur,        \* the character of format that is next
    fs,         \* the directive that has been read, or NoSpec
    arg,        \* how many arguments have been taken
    count,      \* pc_cnt.n, the characters put so far
    buffer,     \* the characters in buffer, with the NUL when it is written
    text,       \* history: all characters put
    conv        \* history: the most bytes of the conversion buffer used

printVars == <<request, format, cur, fs, arg, count, buffer, text, conv>>

Nul == "NUL"
Beyond == "beyond"      \* what is read behind the NUL of a format
NoSpec == [conv |-> Nul]

-----------------------------------------------------------------------------
(* npf_parse_format_spec *)

FlagChars == {"-", "0", "+", " ", "#"}
Lower == <<"0", "1", "2", "3", "4", "5", "6", "7", "8", "9", "a", "b", "c", "d", "e", "f">>
Upper == <<"0", "1", "2", "3", "4", "5", "6", "7", "8", "9", "A", "B", "C", "D", "E", "F">>
DigitChars == {Lower[i] : i \in 1 .. 10}
Value(c) == CHOOSE v \in 0 .. 9 : Lower[v + 1] = c
Floats == {"f", "F", "e", "E", "g", "G", "a", "A"}
Integral == {"d", "i", "o", "u", "x", "X"}
Conversions == {"%", "c", "s", "p"} \cup Integral \cup Floats
Syntax == FlagChars \cup Conversions \cup {"*", ".", "h", "l", "L"}
          \cup {Lower[i] : i \in 1 .. 16} \cup {Upper[i] : i \in 1 .. 16}
ASSUME CharAssumption == Syntax \subseteq Char /\ Nul \notin Char /\ Beyond \notin Char

\* The character at a place of a format.
At(f, i) == IF i \in DOMAIN f THEN f[i] ELSE IF i = Len(f) + 1 THEN Nul ELSE Beyond

\* The first place from i on whose character is not among S.
Skip(f, i, S) == Min({j \in i .. (Len(f) + 1) : At(f, j) \notin S})

\* The number written between two places.
Number(f, from, to) ==
    LET upTo[i \in (from - 1) .. (to - 1)] ==
            IF i < from THEN 0 ELSE upTo[i - 1] * 10 + Value(f[i])
    IN upTo[to - 1]

\* How long the length modifier at a place is.
ModLength(f, i) ==
    IF At(f, i) = "h" /\ At(f, i + 1) = "h" THEN 2
    ELSE IF At(f, i) \in {"h", "l", "L"} THEN 1 ELSE 0

\* The directive whose '%' is at place i, given where its flags end (a), its width
\* (b), its precision, which starts at p and ends at c, and its length (d).
FormatSpec(f, i, a, b, p, c, d) ==
    LET starWidth == At(f, a) = "*"
        dot == At(f, b) = "."
        starPrec == dot /\ At(f, b + 1) = "*"
    IN [flags |-> {f[k] : k \in (i + 1) .. (a - 1)},
        width |-> IF starWidth THEN 0 ELSE Number(f, a, b),
        widthOpt |-> IF starWidth THEN "star" ELSE IF b > a THEN "literal" ELSE "none",
        prec |-> IF dot /\ ~starPrec THEN Number(f, p, c) ELSE 0,
        precOpt |-> IF starPrec THEN "star"
                    ELSE IF dot /\ At(f, b + 1) # "-" THEN "literal" ELSE "none",
        mod |-> SubSeq(f, c, d - 1),
        conv |-> At(f, d)]

-----------------------------------------------------------------------------
(* npf_vpprintf: the arguments of a directive, and their conversion *)

Signed(v, values) ==
    LET u == v % values IN IF u >= values \div 2 THEN u - values ELSE u

\* Widths and precisions given by arguments are taken first; then come the
\* defaults, and '0' gives way to a precision.
StarArgs(s, args, k) ==
    LET w == IF s.widthOpt = "star" THEN 1 ELSE 0
        p == IF s.precOpt = "star" THEN 1 ELSE 0
        width == IF w = 1 THEN Signed(args[k + 1], IntValues) ELSE s.width
        given == IF p = 1 THEN Signed(args[k + w + 1], IntValues) ELSE s.prec
        precOpt == IF given < 0 THEN "none" ELSE s.precOpt
        prec == IF given < 0 THEN 0 ELSE given
    IN [s EXCEPT !.width = IF width < 0 THEN -width ELSE width,
                 !.flags = (@ \cup (IF width < 0 THEN {"-"} ELSE {}))
                           \ (IF precOpt # "none" /\ s.conv \in Integral THEN {"0"} ELSE {}),
                 !.precOpt = precOpt,
                 !.prec = IF precOpt = "none" /\ s.conv = "p" THEN PtrDigits ELSE prec]
StarCount(s) == (IF s.widthOpt = "star" THEN 1 ELSE 0) + (IF s.precOpt = "star" THEN 1 ELSE 0)

\* npf_utoa_rev; the digits are the right way round here.
Digits(val, base, glyphs) ==
    LET utoa[v \in 0 .. val] == IF v < base THEN <<glyphs[v + 1]>>
                           ELSE Append(utoa[v \div base], glyphs[(v % base) + 1])
    IN utoa[val]

\* "The conversion buffer must fit at least UINT64_MAX in octal format with the
\* leading '0'."
ASSUME ConvAssumption == ConvSize \in Nat /\ ConvSize >= Len(Digits(PtrValues - 1, 8, Lower)) + 1

\* NPF_EXTRACT: no length modifier but these takes an integer.
Values(mod) ==
    IF mod = <<>> THEN IntValues
    ELSE IF mod = <<"h">> THEN ShortValues
    ELSE IF mod = <<"h", "h">> THEN CharValues
    ELSE IF mod = <<"l">> THEN LongValues ELSE 0
Takes(s) == IF s.conv = "%" \/ (s.conv \in Integral /\ Values(s.mod) = 0) THEN 0 ELSE 1

Base(c) == IF c = "o" THEN 8 ELSE IF c \in {"d", "i", "u"} THEN 10 ELSE 16

\* What an argument is converted to: its sign, whether it gets a 0x, its
\* characters, and the precision after the special case of a zero in octal.
Convert(s, v) ==
    LET val == IF s.conv = "p" THEN v % PtrValues
               ELSE IF Values(s.mod) = 0 THEN 0
               ELSE IF s.conv \in {"d", "i"} THEN Signed(v, Values(s.mod)) ELSE v % Values(s.mod)
        nothing == val = 0 /\ s.precOpt # "none" /\ s.prec = 0
        alt == "#" \in s.flags /\ s.conv \notin {"d", "i"}
        digits == Digits(IF val < 0 THEN -val ELSE val, Base(s.conv),
                         IF s.conv = "X" THEN Upper ELSE Lower)
    IN [sign |-> IF s.conv \notin {"d", "i"} THEN <<>>
                 ELSE IF val < 0 THEN <<"-">>
                 ELSE IF "+" \in s.flags THEN <<"+">>
                 ELSE IF " " \in s.flags THEN <<" ">> ELSE <<>>,
        prefix |-> IF alt /\ val # 0 /\ Base(s.conv) = 16
                   THEN <<"0", IF s.conv = "X" THEN "X" ELSE "x">> ELSE <<>>,
        chars |-> IF nothing THEN <<>>
                  ELSE IF alt /\ val # 0 /\ s.conv = "o" THEN <<"0">> \o digits ELSE digits,
        prec |-> IF nothing /\ alt /\ s.conv = "o" THEN 1 ELSE s.prec,
        zero |-> val = 0]

Plain(chars, s) ==
    [sign |-> <<>>, prefix |-> <<>>, chars |-> chars, prec |-> s.prec, zero |-> FALSE]

\* A string of C is a sequence of characters, or NULL; so is a character, where
\* the empty sequence stands for the NUL.
NullString == <<"NULL">>
Payload(s, v) ==
    IF s.conv = "%" THEN Plain(<<"%">>, s)
    ELSE IF s.conv = "c" THEN Plain(v, s)
    ELSE IF s.conv = "s" THEN Plain(IF v = NullString THEN <<>>
                                    ELSE IF s.precOpt = "none" \/ Len(v) <= s.prec THEN v
                                    ELSE SubSeq(v, 1, s.prec), s)
    ELSE Convert(s, v)

-----------------------------------------------------------------------------
(* npf_vpprintf: the layout of a field *)

Repeat(c, times) == [i \in 1 .. times |-> c]

\* Mutant of Layout: the sign is not counted in the width.
LayoutWide(s, q) ==
    LET precPad == IF s.conv = "s" THEN 0 ELSE Max({0, q.prec - Len(q.chars)})
        pad == Max({0, s.width - Len(q.chars) - Len(q.prefix) - precPad})
    IN (IF "-" \in s.flags THEN <<>> ELSE Repeat(" ", pad)) \o q.prefix \o q.sign
       \o Repeat("0", precPad) \o q.chars \o (IF "-" \in s.flags THEN Repeat(" ", pad) ELSE <<>>)

\* Zeros go behind the sign and the 0x, blanks before them.
Layout(s, q) ==
    LET left == "-" \in s.flags
        padC == IF s.widthOpt = "none" THEN Nul
                ELSE IF "0" \in s.flags /\ ~left
                        /\ ~(s.precOpt # "none" /\ q.prec = 0 /\ q.zero)
                     THEN "0" ELSE " "
        precPad == IF s.conv = "s" THEN 0 ELSE Max({0, q.prec - Len(q.chars)})
        fieldPad == Max({0, s.width - Len(q.chars) - Len(q.sign) - Len(q.prefix) - precPad})
        head == IF left \/ padC = Nul THEN q.prefix
                ELSE IF padC = "0" THEN q.sign \o q.prefix \o Repeat("0", fieldPad)
                ELSE Repeat(" ", fieldPad) \o q.prefix
        sign == IF padC = "0" THEN <<>> ELSE q.sign
    IN head \o sign \o Repeat("0", precPad) \o q.chars
       \o (IF left /\ padC # Nul THEN Repeat(padC, fieldPad) ELSE <<>>)

-----------------------------------------------------------------------------
(* What is asked for.  A literal is a character that is not '%'; None stands *)
(* for a width or a precision that is not given: no int has that value.      *)

None == IntValues
IsLiteral(item) == "lit" \in DOMAIN item

\* Widths and precisions have one digit where they are written in the format, and are
\* any int that can be negated where they are arguments.
IsCount(star, v) ==
    v \in IF star THEN (1 - IntValues \div 2) .. (IntValues \div 2 - 1) ELSE 0 .. 9 \cup {None}

\* Every directive is one of those that are modelled, with the arguments that C asks for.
IsDirective(item) ==
    /\ item.flags \in Seq(FlagChars)
    /\ {item.starWidth, item.starPrec} \subseteq BOOLEAN
    /\ IsCount(item.starWidth, item.width) /\ IsCount(item.starPrec, item.prec)
    /\ item.mod \in {<<>>, <<"h">>, <<"h", "h">>, <<"l">>}
    /\ item.conv \in Conversions \ Floats
    /\ item.conv = "c" => item.str \in Seq(Char) /\ Len(item.str) <= 1
    /\ item.conv = "s" => item.str \in Seq(Char) \cup {NullString}
    /\ item.conv \notin {"c", "s"} => item.val \in Int

ASSUME RequestsAssumption ==
    \A r \in Requests :
        /\ r \in Seq({r[i] : i \in DOMAIN r})
        /\ \A i \in DOMAIN r : IF IsLiteral(r[i]) THEN r[i].lit \in Char \ {"%"}
                              ELSE IsDirective(r[i])

Star(star, v, lead) ==
    IF v = None THEN <<>> ELSE lead \o (IF star THEN <<"*">> ELSE <<Lower[v + 1]>>)

\* How a format says it, and the arguments that go with it.
Spell(item) ==
    IF IsLiteral(item) THEN <<item.lit>>
    ELSE <<"%">> \o item.flags \o Star(item.starWidth, item.width, <<>>)
         \o Star(item.starPrec, item.prec, <<".">>) \o item.mod \o <<item.conv>>
Passes(item) ==
    IF IsLiteral(item) THEN <<>>
    ELSE (IF item.starWidth THEN <<item.width>> ELSE <<>>)
         \o (IF item.starPrec THEN <<item.prec>> ELSE <<>>)
         \o (IF item.conv = "%" THEN <<>>
             ELSE IF item.conv \in {"c", "s"} THEN <<item.str>> ELSE <<item.val>>)

\* The first k of some sequences, one behind the other.
Joined(parts, k) ==
    LET upTo[i \in 0 .. Len(parts)] == IF i = 0 THEN <<>> ELSE upTo[i - 1] \o parts[i]
    IN upTo[k]
Spelled(r, k) == Joined([i \in 1 .. Len(r) |-> Spell(r[i])], k)
Passed(r, k) == Joined([i \in 1 .. Len(r) |-> Passes(r[i])], k)
Args == Passed(request, Len(request))

-----------------------------------------------------------------------------
(* Actions *)

\* KeTermPrint keeps what fits of the format, and starts npf_vsnprintf.
Cut(str) == IF Len(str) <= FormatMax THEN str ELSE SubSeq(str, 1, FormatMax)

PrintInit ==
    /\ request \in Requests
    /\ format = Cut(Spelled(request, Len(request)))
    /\ cur = 1 /\ fs = NoSpec /\ arg = 0 /\ count = 0 /\ conv = 0
    /\ buffer = <<>> /\ text = <<>>

\* npf_bufputc, for some characters; what does not fit is dropped.
Bufputc(buf, chars) ==
    LET all == buf \o chars IN IF Len(all) <= BufferSize THEN all ELSE SubSeq(all, 1, BufferSize)

\* npf_putc_cnt.
Put(chars) ==
    /\ count' = count + Len(chars)
    /\ buffer' = Bufputc(buffer, chars)
    /\ text' = text \o chars

Terminated == buffer # <<>> /\ buffer[Len(buffer)] = Nul

\* A character that starts no directive is printed as it is.
PutChar ==
    /\ fs = NoSpec /\ At(format, cur) \notin {Nul, "%"} /\ ~Terminated
    /\ Put(<<At(format, cur)>>)
    /\ cur' = cur + 1
    /\ UNCHANGED <<request, format, fs, arg, conv>>

\* Mutant of Accepted: the end of the format is taken for a conversion.
AcceptedEnd(c) == c \in Conversions \cup {Nul}
Accepted(c) == c \in Conversions

\* npf_parse_format_spec; a '%' that starts no directive is printed.
ParseFormatSpec ==
    /\ fs = NoSpec /\ At(format, cur) = "%" /\ ~Terminated
    /\ \E a \in {Skip(format, cur + 1, FlagChars)} :
       \E b \in {IF At(format, a) = "*" THEN a + 1 ELSE Skip(format, a, DigitChars)} :
       \E p \in {IF At(format, b) # "." THEN b
                 ELSE IF At(format, b + 1) \in {"*", "-"} THEN b + 2 ELSE b + 1} :
       \E c \in {IF At(format, b) = "." /\ At(format, b + 1) # "*"
                 THEN Skip(format, p, DigitChars) ELSE p} :
       \E d \in {c + ModLength(format, c)} :
         \/ /\ Accepted(At(format, d))
            /\ fs' = FormatSpec(format, cur, a, b, p, c, d)
            /\ cur' = d + 1
            /\ UNCHANGED <<count, buffer, text>>
         \/ /\ ~Accepted(At(format, d))
            /\ Put(<<"%">>)
            /\ cur' = cur + 1
            /\ UNCHANGED fs
    /\ UNCHANGED <<request, format, arg, conv>>

\* A field is converted and laid out.
PutField ==
    /\ fs # NoSpec
    /\ \E s \in {StarArgs(fs, Args, arg)}, k \in {arg + StarCount(fs)} :
       \E q \in {Payload(s, IF Takes(s) = 1 THEN Args[k + 1] ELSE 0)} :
         /\ Put(Layout(s, q))
         /\ arg' = k + Takes(s)
         /\ conv' = IF s.conv = "s" THEN conv ELSE Max({conv, Len(q.chars)})
    /\ fs' = NoSpec
    /\ UNCHANGED <<request, format, cur>>

\* Mutants of Terminate: the NUL is written at the start of a buffer that is too
\* small, or not at all.
TerminateAtStart ==
    /\ fs = NoSpec /\ At(format, cur) = Nul /\ ~Terminated
    /\ buffer' = (IF count < BufferSize THEN buffer ELSE <<>>) \o <<Nul>>
    /\ UNCHANGED <<request, format, cur, fs, arg, count, text, conv>>
TerminateIfRoom ==
    /\ fs = NoSpec /\ At(format, cur) = Nul /\ ~Terminated
    /\ buffer' = IF count < BufferSize THEN buffer \o <<Nul>> ELSE buffer
    /\ UNCHANGED <<request, format, cur, fs, arg, count, text, conv>>

\* The end of npf_vsnprintf.
Terminate ==
    /\ fs = NoSpec /\ At(format, cur) = Nul /\ ~Terminated
    /\ buffer' = SubSeq(buffer, 1, Min({count, BufferSize - 1})) \o <<Nul>>
    /\ UNCHANGED <<request, format, cur, fs, arg, count, text, conv>>

Returned == Terminated /\ UNCHANGED printVars

PrintNext == PutChar \/ ParseFormatSpec \/ PutField \/ Terminate \/ Returned
PrintSpec == PrintInit /\ [][PrintNext]_printVars /\ WF_printVars(PrintNext)

-----------------------------------------------------------------------------
(* What ISO C says a directive prints *)

\* Directives whose meaning C defines; %p is up to the implementation.
Defined(d) ==
    LET flags == {d.flags[i] : i \in DOMAIN d.flags}
    IN /\ d.conv \in Integral \cup {"s", "c", "%"}
       /\ d.conv \in {"d", "i"} => "#" \notin flags
       /\ d.conv = "u" => flags \subseteq {"-", "0"}
       /\ d.conv \in {"o", "x", "X"} => flags \subseteq {"-", "0", "#"}
       /\ d.conv \in {"s", "c"} => flags \subseteq {"-"} /\ d.mod = <<>>
       /\ d.conv = "s" => d.str # NullString
       /\ d.conv = "c" => d.prec = None /\ d.str # <<>>
       /\ d.conv = "%" => Spell(d) = <<"%", "%">>

\* The digits of a number, each from its place.
Power(base, n) ==
    LET pow[i \in 0 .. n] == IF i = 0 THEN 1 ELSE base * pow[i - 1]
    IN pow[n]
Positional(v, base, glyphs) ==
    LET len == Min({l \in 1 .. ConvSize : Power(base, l) > v})
    IN [i \in 1 .. len |-> glyphs[((v \div Power(base, len - i)) % base) + 1]]

CValue(d) == IF d.conv \in {"d", "i"} THEN Signed(d.val, Values(d.mod)) ELSE d.val % Values(d.mod)

\* The digits of a number: the shortest ones, with zeros up to the precision and, for
\* '#' in octal, one that leads.
CDigits(d, flags, prec) ==
    LET v == CValue(d)
        shortest == IF v = 0 /\ prec = 0 THEN <<>>
                    ELSE Positional(IF v < 0 THEN -v ELSE v, Base(d.conv),
                                    IF d.conv = "X" THEN Upper ELSE Lower)
        zeros == IF prec = None THEN 0 ELSE Max({0, prec - Len(shortest)})
        padded == Repeat("0", zeros) \o shortest
    IN IF d.conv = "o" /\ "#" \in flags /\ (padded = <<>> \/ padded[1] # "0")
       THEN <<"0">> \o padded ELSE padded

\* The sign of a number, or its 0x.
CPrefix(d, flags) ==
    IF d.conv \in {"d", "i"}
    THEN IF CValue(d) < 0 THEN <<"-">>
         ELSE IF "+" \in flags THEN <<"+">> ELSE IF " " \in flags THEN <<" ">> ELSE <<>>
    ELSE IF d.conv \in {"x", "X"} /\ "#" \in flags /\ CValue(d) # 0 THEN <<"0", d.conv>> ELSE <<>>

\* The field of a directive: what is said above, or its characters, and what fills the
\* width on one side or behind the prefix.
CField(d) ==
    LET flags == {d.flags[i] : i \in DOMAIN d.flags}
        prec == IF d.prec < 0 THEN None ELSE d.prec
        body == IF d.conv = "%" THEN <<"%">>
                ELSE IF d.conv = "c" \/ (d.conv = "s" /\ prec = None) THEN d.str
                ELSE IF d.conv = "s" THEN SubSeq(d.str, 1, Min({Len(d.str), prec}))
                ELSE CDigits(d, flags, prec)
        prefix == CPrefix(d, flags)
        width == IF d.width = None THEN 0 ELSE IF d.width < 0 THEN -d.width ELSE d.width
        fill == Max({0, width - Len(prefix) - Len(body)})
    IN IF "-" \in flags \/ d.width < 0 THEN prefix \o body \o Repeat(" ", fill)
       ELSE IF "0" \in flags /\ prec = None THEN prefix \o Repeat("0", fill) \o body
       ELSE Repeat(" ", fill) \o prefix \o body
CItem(item) == IF IsLiteral(item) THEN <<item.lit>> ELSE CField(item)

\* The items that lie in the format as a whole; the rest is printed as it is.
Whole == Max({k \in 0 .. Len(request) : Len(Spelled(request, k)) <= FormatMax})
Expected == Joined([i \in 1 .. Len(request) |-> CItem(request[i])], Whole)
            \o SubSeq(format, Len(Spelled(request, Whole)) + 1, Len(format))

-----------------------------------------------------------------------------
(* Properties *)

\* The variables have their types, and every character is counted.
PrintTypeOK ==
    /\ Len(format) <= FormatMax
    /\ cur \in Nat /\ arg \in Nat /\ count \in Nat /\ conv \in Nat
    /\ Len(text) = count

\* What KeTermPrint prints is what C says, directive by directive; a directive
\* that the limit of the format cuts in two is printed as it stands.
PrintsAsC ==
    Terminated /\ (\A i \in DOMAIN request : IsLiteral(request[i]) \/ Defined(request[i]))
        => text = Expected

\* The buffer holds all of the text that fits and ends with its only NUL, and
\* npf_vsnprintf returns the length of the whole text.
BufferHolds ==
    Terminated =>
        /\ buffer = SubSeq(text, 1, Min({count, BufferSize - 1})) \o <<Nul>>
        /\ \A i \in 1 .. (Len(buffer) - 1) : buffer[i] # Nul

\* Nothing is read behind the NUL of a format, however it was cut, no argument is
\* taken that was not passed, and no buffer is written behind its end.
StaysInside ==
    /\ PrintTypeOK
    /\ cur <= Len(format) + 1
    /\ arg <= Len(Args)
    /\ conv <= ConvSize /\ Len(buffer) <= BufferSize

\* Every print comes to its end.
Ends == <>Terminated
=============================================================================
