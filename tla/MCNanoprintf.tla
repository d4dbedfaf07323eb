---------------------------- MODULE MCNanoprintf ----------------------------
(* Every combination of flags, widths, precisions and lengths on numbers at  *)
(* the edges of their types, and requests that the limits cut.               *)
EXTENDS Nanoprintf

D(flags, width, starWidth, prec, starPrec, mod, conversion, val, str) ==
    [flags |-> flags, width |-> width, starWidth |-> starWidth, prec |-> prec,
     starPrec |-> starPrec, mod |-> mod, conv |-> conversion, val |-> val, str |-> str]

\* Up to two flags, in one order.
AllFlags == <<"-", "0", "+", " ", "#">>
FlagSets == {<<>>} \cup {<<AllFlags[i]>> : i \in 1 .. 5}
            \cup UNION {{<<AllFlags[i], AllFlags[j]>> : i \in 1 .. (j - 1)} : j \in 1 .. 5}
Widths == {<<None, FALSE>>, <<3, FALSE>>, <<5, TRUE>>, <<-4, TRUE>>}
Precs == {<<None, FALSE>>, <<0, FALSE>>, <<2, FALSE>>, <<3, TRUE>>, <<-1, TRUE>>}
Mods == {<<>>, <<"h">>, <<"h", "h">>, <<"l">>}
Edges == {0, 1, CharValues - 1, IntValues \div 2, IntValues - 1, PtrValues - 2}

Numbers == {D(f, w[1], w[2], p[1], p[2], m, c, v, <<>>) : f \in FlagSets, w \in Widths,
               p \in Precs, m \in Mods, c \in {"d", "u", "o", "x", "X"}, v \in Edges}
Others == {D(f, w[1], w[2], p[1], p[2], <<>>, "s", 0, v) : f \in {<<>>, <<"-">>, <<"0">>},
              w \in Widths, p \in Precs, v \in {NullString, <<>>, <<"a">>, <<"a", "b", "c">>}}
    \cup {D(f, w[1], w[2], p[1], p[2], <<>>, "c", 0, v) : f \in {<<>>, <<"-">>, <<"0">>},
              w \in Widths, p \in Precs, v \in {<<>>, <<"a">>}}
    \cup {D(f, w[1], w[2], p[1], p[2], <<>>, c, 5, <<>>) : f \in FlagSets, w \in Widths,
              p \in Precs, c \in {"p", "%"}}

\* Two directives with a literal between them.
Few == {D(<<>>, None, FALSE, None, FALSE, <<>>, "d", IntValues - 1, <<>>),
        D(<<"0">>, 4, FALSE, None, FALSE, <<"l">>, "x", 9, <<>>),
        D(<<"-">>, -3, TRUE, 1, TRUE, <<"h", "h">>, "d", 3, <<>>),
        D(<<>>, None, FALSE, None, FALSE, <<>>, "s", 0, <<"a", "b", "c">>),
        D(<<>>, None, FALSE, None, FALSE, <<>>, "c", 0, <<"a">>),
        D(<<>>, None, FALSE, None, FALSE, <<>>, "%", 0, <<>>)}
Lit(c) == [lit |-> c]
MCRequests == {<<d, Lit("b")>> : d \in Numbers \cup Others}
    \cup {<<d, Lit(c), e, f>> : d, e, f \in Few, c \in {"a", "d", "*"}}
=============================================================================
