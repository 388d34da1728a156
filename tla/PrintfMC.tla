------------------------------ MODULE PrintfMC ------------------------------
(***************************************************************************)
(* Formats for TLC: one directive of every shape between two characters,   *)
(* with an argument of every kind, and calls that fill a small screen.     *)
(***************************************************************************)
EXTENDS Printf

MCChar == Modifiers \cup Conversions \cup Range(Digits(TRUE)) \cup Range(Digits(FALSE))
            \cup {"%", "*", "?", "\n", "\t", "null"}

MCNull == <<"null">>

Numbers == {0, 7, 8, 12, 31}
Strings == {MCNull, <<>>, <<"a">>, <<"a", "b", "c">>}

Value(n, s) == [n |-> n, s |-> s]

(* A number as it is written in a format. *)
Spelt(n) == IF n = -1 THEN <<>> ELSE
            IF n < 10 THEN <<DigitChars[n + 1]>>
            ELSE <<DigitChars[n \div 10 + 1], DigitChars[(n % 10) + 1]>>

Format(flag, w, dot, p, q, c, after) ==
  <<"a", "%">> \o flag \o Spelt(w) \o (IF dot THEN <<".">> ELSE <<>>)
    \o Spelt(p) \o q \o (IF c = "NUL" THEN <<>> ELSE <<c>>) \o after

(* One call with flags, a width, a dot, a precision, a qualifier and a     *)
(* conversion.                                                             *)
One(fl, w, dot, p, q, c, args) ==
  LET flag  == SetToSeq(fl)
      after == IF c = "NUL" THEN <<>> ELSE <<"b">>
  IN  << [fmt   |-> Format(flag, w, dot, p, q, c, after),
          args  |-> args,
          asked |-> [kind |-> "field", before |-> <<"a">>, flags |-> flag, width |-> w,
                     point |-> dot, precision |-> p, qualifier |-> q, conv |-> c,
                     after |-> after]] >>

Shapes == {<<FALSE, -1, <<>>>>, <<FALSE, -1, <<"l">>>>, <<TRUE, -1, <<>>>>, <<TRUE, 2, <<>>>>}
Widths == {-1, 1, 4, 10}

Directives ==
  {One(fl, w, sh[1], sh[2], sh[3], c, <<Value(n, <<>>)>>) :
     fl \in SUBSET Flags, w \in Widths, sh \in Shapes,
     c \in {"d", "u", "o", "x", "X", "p"}, n \in Numbers}
  \cup
  {One(fl, w, sh[1], sh[2], sh[3], "s", <<Value(0, s)>>) :
     fl \in SUBSET {"-", "0", " "}, w \in Widths, sh \in Shapes, s \in Strings}
  \cup
  {One(fl, w, sh[1], sh[2], sh[3], c, <<Value(8, <<"c">>)>>) :
     fl \in SUBSET {"-", "0"}, w \in Widths, sh \in Shapes,
     c \in {"c", "i", "n", "%", "?", "NUL"}}

(* What a text says. *)
Says(s) == [kind |-> "text", before |-> s, flags |-> <<>>, width |-> -1,
            point |-> FALSE, precision |-> -1, qualifier |-> <<>>, conv |-> "NUL",
            after |-> <<>>]

(* A width or a precision from the arguments, or too large for an int.     *)
Starred == {<< [fmt   |-> Format(fl, -1, dot, -1, <<>>, "*", <<"d", "b">>),
                args  |-> <<Value(w, <<>>)>>,
                asked |-> Says(<<>>)] >> :
              fl \in {<<>>, <<"0">>}, dot \in BOOLEAN, w \in {3, 16, 29}}

TooLarge == {<< [fmt   |-> Format(<<>>, w[1], TRUE, w[2], <<>>, c, <<"b">>),
                 args  |-> <<Value(12, <<"a", "b", "c">>)>>,
                 asked |-> Says(<<>>)] >> :
               w \in {<<20, 2>>, <<31, -1>>, <<34, 2>>, <<4, 20>>, <<4, 34>>},
               c \in {"d", "s", "p"}}

(* Calls without a directive, one after the other. *)
Words(s) == [fmt   |-> s, args  |-> <<>>, asked |-> Says(s)]

Texts == {<<"a">>, <<"b", "c">>, <<"\n">>, <<"\t">>, <<"d", "\n">>}

Sequels == {[k \in 1 .. 4 |-> Words(t[k])] : t \in [1 .. 4 -> Texts]}

MCScripts == Directives \cup Starred \cup TooLarge \cup Sequels
=============================================================================
