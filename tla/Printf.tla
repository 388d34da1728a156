------------------------------- MODULE Printf -------------------------------
(***************************************************************************)
(* lib/kstdio.c: kprintf, with the scan of its format step by step, and    *)
(* the output on the screen.  Characters are strings of length one, "NUL"  *)
(* ends a format.  An argument is a number and a string, of which the      *)
(* conversion takes one.  Integers have IntRange values; a negative one is *)
(* its two's complement.                                                   *)
(***************************************************************************)
EXTENDS Screen, Integers, FiniteSetsExt

CONSTANTS IntRange,  \* 2^32
          Char,      \* what strings are made of
          Null,      \* the string argument that is a null pointer
          Scripts    \* sequences of calls: [fmt, args, asked]

ASSUME RangeAssumption == IntRange \in Nat \ {0} /\ IntRange % 2 = 0

DigitChars == <<"0", "1", "2", "3", "4", "5", "6", "7", "8", "9">>
IsDigit(c) == c \in Range(DigitChars)

Digits(small) ==
  DigitChars \o IF small THEN <<"a", "b", "c", "d", "e", "f">>
                ELSE <<"A", "B", "C", "D", "E", "F">>

Flags      == {"-", "+", " ", "#", "0"}
Qualifiers == {"h", "l", "L"}

Base == [o |-> 8, p |-> 16, x |-> 16, X |-> 16, d |-> 10, i |-> 10, u |-> 10]

Conversions == {"c", "s", "n"} \cup DOMAIN Base

(* What may stand between the % of a directive and its conversion, and     *)
(* what stands for itself.                                                 *)
Modifiers == Flags \cup Range(DigitChars) \cup {"."} \cup Qualifiers
Plain     == Char \ {"%"}

(* The characters that kvsprintf knows or writes itself.  Nothing prints   *)
(* the ones that edit a line.                                              *)
ASSUME CharAssumption ==
  /\ Modifiers \cup Conversions \cup {"%", "*"} \subseteq Char
  /\ Range(Digits(TRUE)) \cup Range(Digits(FALSE)) \subseteq Char
  /\ {"NUL", "\r", "BS", "DEL"} \cap Char = {}

(* Where fmt may take an argument: at the conversion of a directive, and   *)
(* at a '*' in it.                                                         *)
Wants(fmt) == {k \in DOMAIN fmt :
                 /\ fmt[k] \in Conversions \cup {"*"}
                 /\ \E j \in 1 .. k - 1 : /\ fmt[j] = "%"
                                          /\ \A i \in j + 1 .. k - 1 : fmt[i] \in Modifiers}

Argument == [n : 0 .. IntRange - 1, s : Seq(Char)]

(* What a call's format may be meant to say: text only, or one directive   *)
(* between two texts, with -1 for a number that is not written and the     *)
(* conversion "NUL" where the format ends before it.  A '*' and a number   *)
(* that does not fit an int mean nothing: the comments have the '*' stand  *)
(* for the next argument, and the code takes it for the conversion.        *)
Asked == [kind : {"text", "field"}, before : Seq(Plain), flags : Seq(Flags),
          width : {-1} \cup 1 .. IntRange \div 2 - 1, point : BOOLEAN,
          precision : {-1} \cup 0 .. IntRange \div 2 - 1,
          qualifier : {<<>>} \cup {<<q>> : q \in Qualifiers},
          conv : (Char \cup {"NUL"}) \ (Modifiers \cup {"*"}), after : Seq(Plain)]

(* The callers pass an argument for each that their format takes. *)
Calls == {call \in [fmt : Seq(Char), args : Seq(Argument), asked : Asked] :
            Cardinality(Wants(call.fmt)) <= Len(call.args)}

ASSUME ScriptsAssumption == /\ Null \in Seq(Char)
                            /\ \A script \in Scripts : script \in Seq(Calls) \ {<<>>}

VARIABLES
  calls,   \* the calls to come; the first is in progress
  part,    \* which part of the format is read next
  pos,     \* fmt
  arg,     \* args: the number of the next argument
  flags, width, precision,
  out,     \* buf up to str
  count,   \* where %n stores
  screen,  \* the screen
  written  \* history: everything given to console_puts

scan == <<pos, arg, flags, width, precision, out, count>>
printfVars == <<calls, part, scan, screen, written>>

Fmt == Head(calls).fmt
Ch(k) == IF k <= Len(Fmt) THEN Fmt[k] ELSE "NUL"
Here  == Ch(pos)
Arg   == Head(calls).args[arg]

Most(a, b) == IF a > b THEN a ELSE b
Pad(n, c)  == [k \in 1 .. Most(n, 0) |-> c]
Signed(n)  == IF n < IntRange \div 2 THEN n ELSE n - IntRange

PrintfInit == /\ calls \in Scripts
              /\ part = "text" /\ pos = 1 /\ arg = 1
              /\ flags = {} /\ width = -1 /\ precision = -1
              /\ out = <<>>
              /\ count = -1
              /\ screen = ClearScreen
              /\ written = <<>>

-----------------------------------------------------------------------------
(* number.                                                                 *)

(* Mutant: do_div with a signed dividend ends at once. *)
TmpSigned(num, base) ==
  LET digits[n \in 0 .. IntRange - 1] ==
        IF Signed(n) < base THEN <<n % base>> ELSE Append(digits[n \div base], n % base)
  IN  digits[num]

(* tmp, turned around: do_div divides without a sign. *)
Tmp(num, base) ==
  LET digits[n \in 0 .. IntRange - 1] ==
        IF n < base THEN <<n>> ELSE Append(digits[n \div base], n % base)
  IN  digits[num]

(* size is counted down by every part but the padding.  It is not wrapped: *)
(* it wraps only next to the ends of int, where no buffer holds the field. *)
Number(num, base, size, prec, type, sgn, small) ==
  LET minus   == sgn /\ Signed(num) < 0
      sign    == CASE minus -> <<"-">>
                   [] ~minus /\ "+" \in type -> <<"+">>
                   [] ~minus /\ "+" \notin type /\ " " \in type -> <<" ">>
                   [] OTHER -> <<>>
      special == CASE "#" \in type /\ base = 16 -> <<"0", IF small THEN "x" ELSE "X">>
                   [] "#" \in type /\ base = 8 -> <<"0">>
                   [] OTHER -> <<>>
      tmp     == Tmp(IF minus THEN IntRange - num ELSE num, base)
      digits  == [k \in DOMAIN tmp |-> Digits(small)[tmp[k] + 1]]
      p       == Most(Len(tmp), prec)
      left    == size - Len(sign) - Len(special) - p
      zeros   == Pad(p - Len(tmp), "0")
  IN  CASE "-" \in type -> sign \o special \o zeros \o digits \o Pad(left, " ")
        [] "-" \notin type /\ "0" \in type ->
             sign \o special \o Pad(left, "0") \o zeros \o digits
        [] OTHER -> Pad(left, " ") \o sign \o special \o zeros \o digits

-----------------------------------------------------------------------------
(* kvsprintf.                                                              *)

Move(here, there) == part = here /\ part' = there

(* skip_atoi at position k: where it stops, and its value, an int that     *)
(* wraps.                                                                  *)
PastDigits(k) == Min({j \in k .. Len(Fmt) + 1 : ~IsDigit(Ch(j))})
DigitValue(c) == SelectInSeq(DigitChars, LAMBDA d : d = c) - 1
NumberAt(k) == FoldLeft(LAMBDA v, c : 10 * v + DigitValue(c), 0,
                       SubSeq(Fmt, k, PastDigits(k) - 1))
Atoi(k)    == Signed(NumberAt(k) % IntRange)

Text == /\ Move("text", "text")
        /\ Here \notin {"%", "NUL"}
        /\ out' = Append(out, Here)
        /\ pos' = pos + 1
        /\ UNCHANGED <<calls, arg, flags, width, precision, count, screen, written>>

Percent == /\ Move("text", "flags")
           /\ Here = "%"
           /\ flags' = {}
           /\ pos' = pos + 1
           /\ UNCHANGED <<calls, arg, width, precision, out, count, screen, written>>

Flag == /\ Move("flags", "flags")
        /\ Here \in Flags
        /\ flags' = flags \cup {Here}
        /\ pos' = pos + 1
        /\ UNCHANGED <<calls, arg, width, precision, out, count, screen, written>>

(* The width is written out, or the next argument; the '*' itself is not   *)
(* skipped.                                                                *)
Width ==
  /\ Move("flags", "precision")
  /\ Here \notin Flags
  /\ \/ /\ IsDigit(Here)
        /\ width' = Atoi(pos)
        /\ pos' = PastDigits(pos)
        /\ UNCHANGED <<arg, flags>>
     \/ /\ Here = "*"
        /\ width' = IF Signed(Arg.n) < 0 THEN Signed(IntRange - Arg.n) ELSE Arg.n
        /\ flags' = IF Signed(Arg.n) < 0 THEN flags \cup {"-"} ELSE flags
        /\ arg' = arg + 1
        /\ UNCHANGED pos
     \/ /\ ~IsDigit(Here) /\ Here # "*"
        /\ width' = -1
        /\ UNCHANGED <<pos, arg, flags>>
  /\ UNCHANGED <<calls, precision, out, count, screen, written>>

Precision ==
  /\ Move("precision", "qualifier")
  /\ \/ /\ Here = "." /\ IsDigit(Ch(pos + 1))
        /\ precision' = Most(Atoi(pos + 1), 0)
        /\ pos' = PastDigits(pos + 1)
        /\ UNCHANGED arg
     \/ /\ Here = "." /\ Ch(pos + 1) = "*"
        /\ precision' = Most(Signed(Arg.n), 0)
        /\ arg' = arg + 1
        /\ pos' = pos + 1
     \/ /\ Here = "." /\ ~IsDigit(Ch(pos + 1)) /\ Ch(pos + 1) # "*"
        /\ precision' = 0
        /\ pos' = pos + 1
        /\ UNCHANGED arg
     \/ /\ Here # "."
        /\ precision' = -1
        /\ UNCHANGED <<pos, arg>>
  /\ UNCHANGED <<calls, flags, width, out, count, screen, written>>

Qualifier == /\ Move("qualifier", "conversion")
             /\ pos' = IF Here \in Qualifiers THEN pos + 1 ELSE pos
             /\ UNCHANGED <<calls, arg, flags, width, precision, out, count,
                            screen, written>>

(* A conversion that puts s into the buffer and takes an argument. *)
Emit(s) == /\ Move("conversion", "text")
           /\ out' = out \o s
           /\ arg' = arg + 1
           /\ pos' = pos + 1
           /\ UNCHANGED <<calls, flags, width, precision, count, screen, written>>

(* The two loops around the characters. *)
Justified(s) == IF "-" \in flags THEN s \o Pad(width - Len(s), " ")
                ELSE Pad(width - Len(s), " ") \o s

ConvChar == Here = "c" /\ Emit(Justified(Arg.s))

(* strlen of a null pointer is zero. *)
ConvString ==
  /\ Here = "s"
  /\ LET s   == IF Arg.s = Null THEN <<>> ELSE Arg.s
         len == IF precision < 0 \/ Len(s) <= precision THEN Len(s) ELSE precision
     IN  Emit(Justified(SubSeq(s, 1, len)))

ConvNumber ==
  /\ Here \in DOMAIN Base
  /\ LET bare == Here = "p" /\ width = -1
     IN  Emit(Number(Arg.n, Base[Here], IF bare THEN 8 ELSE width, precision,
                     IF bare THEN flags \cup {"0"} ELSE flags,
                     Here \in {"d", "i"}, Here = "x"))

ConvCount == /\ Move("conversion", "text")
             /\ Here = "n"
             /\ count' = Len(out)
             /\ arg' = arg + 1
             /\ pos' = pos + 1
             /\ UNCHANGED <<calls, flags, width, precision, out, screen, written>>

(* Mutant: the scan goes on behind the format's end. *)
ConvOtherPast ==
  /\ Move("conversion", "text")
  /\ Here \notin Conversions
  /\ out' = out \o (IF Here # "%" THEN <<"%">> ELSE <<>>)
                \o (IF Here # "NUL" THEN <<Here>> ELSE <<>>)
  /\ pos' = pos + 1
  /\ UNCHANGED <<calls, arg, flags, width, precision, count, screen, written>>

(* No conversion: the characters stand for themselves.  At the format's    *)
(* end fmt is taken back before the loop moves it on.                      *)
ConvOther ==
  /\ Move("conversion", "text")
  /\ Here \notin Conversions
  /\ out' = out \o (IF Here # "%" THEN <<"%">> ELSE <<>>)
                \o (IF Here # "NUL" THEN <<Here>> ELSE <<>>)
  /\ pos' = IF Here # "NUL" THEN pos + 1 ELSE pos
  /\ UNCHANGED <<calls, arg, flags, width, precision, count, screen, written>>

(* kprintf gives the buffer to console_puts. *)
Show == /\ Move("text", "shown")
        /\ Here = "NUL"
        /\ screen' = Puts(screen, out)
        /\ written' = written \o out
        /\ UNCHANGED <<calls, scan>>

Call == /\ Move("shown", "text")
        /\ Len(calls) > 1
        /\ calls' = Tail(calls)
        /\ pos' = 1 /\ arg' = 1
        /\ out' = <<>>
        /\ count' = -1
        /\ flags' = {} /\ width' = -1 /\ precision' = -1
        /\ UNCHANGED <<screen, written>>

PrintfNext == \/ Text \/ Percent \/ Flag \/ Width \/ Precision \/ Qualifier
              \/ ConvChar \/ ConvString \/ ConvNumber \/ ConvCount \/ ConvOther
              \/ Show \/ Call

PrintfSpec == PrintfInit /\ [][PrintfNext]_printfVars

-----------------------------------------------------------------------------
(* Properties.                                                             *)

asked == Head(calls).asked
value == Head(calls).args[1]

(* A number's digits by their places. *)
Power(b) == LET power[k \in Nat] == IF k = 0 THEN 1 ELSE b * power[k - 1] IN power

Numeral(v, b, small) ==
  LET n == CHOOSE k \in 1 .. IntRange :
             v < Power(b)[k] /\ (k > 1 => Power(b)[k - 1] <= v)
  IN  [k \in 1 .. n |-> Digits(small)[((v \div Power(b)[n - k]) % b) + 1]]

(* The format that says what is asked. *)
Decimal(n) == IF n = -1 THEN <<>> ELSE Numeral(n, 10, TRUE)

Spelled(a) ==
  IF a.kind = "text" THEN a.before
  ELSE a.before \o <<"%">> \o a.flags \o Decimal(a.width)
         \o (IF a.point THEN <<".">> ELSE <<>>)
         \o (IF a.point THEN Decimal(a.precision) ELSE <<>>) \o a.qualifier
         \o (IF a.conv = "NUL" THEN <<>> ELSE <<a.conv>> \o a.after)

(* The field a directive asks for: at least width characters, with the     *)
(* padding on the side the flags say, and in it a number of at least       *)
(* precision digits behind its sign and prefix, or at most precision       *)
(* characters of a string.  A dot without a number asks for the precision  *)
(* zero.                                                                   *)
Bare           == asked.conv = "p" /\ asked.width = -1
FieldFlags     == Range(asked.flags) \cup (IF Bare THEN {"0"} ELSE {})
FieldWidth     == IF Bare THEN 8 ELSE asked.width
FieldPrecision == IF asked.point THEN Most(asked.precision, 0) ELSE -1

FieldNumber ==
  LET c      == asked.conv
      n      == IF c \in {"d", "i"} THEN Signed(value.n) ELSE value.n
      sign   == IF n < 0 THEN <<"-">> ELSE IF "+" \in FieldFlags THEN <<"+">>
                ELSE IF " " \in FieldFlags THEN <<" ">> ELSE <<>>
      prefix == IF "#" \notin FieldFlags THEN <<>> ELSE IF Base[c] = 8 THEN <<"0">>
                ELSE IF Base[c] = 16 THEN <<"0", IF c = "x" THEN "x" ELSE "X">> ELSE <<>>
      digits == Numeral(IF n < 0 THEN - n ELSE n, Base[c], c = "x")
      zeros  == Most(FieldPrecision - Len(digits),
                     IF "0" \in FieldFlags /\ "-" \notin FieldFlags
                     THEN FieldWidth - Len(sign \o prefix \o digits) ELSE 0)
  IN  sign \o prefix \o Pad(zeros, "0") \o digits

FieldString ==
  LET s == IF value.s = Null THEN <<>> ELSE value.s
  IN  SubSeq(s, 1, IF FieldPrecision = -1 THEN Len(s) ELSE Min({FieldPrecision, Len(s)}))

Field ==
  LET c    == asked.conv
      body == CASE c \in DOMAIN Base -> FieldNumber
                [] c = "s" -> FieldString
                [] c = "c" -> value.s
                [] c = "n" -> <<>>
                [] c \in {"%", "NUL"} -> <<"%">>
                [] OTHER -> <<"%", c>>
      pad  == IF c \in Conversions \ {"n"} THEN Pad(FieldWidth - Len(body), " ") ELSE <<>>
  IN  IF "-" \in FieldFlags THEN body \o pad ELSE pad \o body

(* kvsprintf writes the text around a directive as it is and the field the *)
(* directive asks for, and %n stores where it is.                          *)
FieldAsAsked ==
  part = "shown" /\ Fmt = Spelled(asked) =>
    IF asked.kind = "text" THEN out = asked.before /\ count = -1
    ELSE /\ out = asked.before \o Field \o (IF asked.conv = "NUL" THEN <<>> ELSE asked.after)
         /\ count = IF asked.conv = "n" THEN Len(asked.before) ELSE -1

(* No character behind the format's end is read, and no argument that was  *)
(* not passed.                                                             *)
WithinFormat == /\ pos \in 1 .. Len(Fmt) + 1
                /\ arg \in 1 .. Len(Head(calls).args) + 1

(* The output on an endless roll of rows, counted in cells: where a        *)
(* character leads that is put at cell n, and where the k-th one is put.   *)
Behind(n, c) == CASE c = "\n" -> (n \div Cols + 1) * Cols
                  [] c = "\t" -> n + TabWidth
                  [] OTHER    -> n + 1

Spot == LET spot[k \in 1 .. Len(written) + 1] ==
              IF k = 1 THEN 0 ELSE Behind(spot[k - 1], written[k - 1])
        IN  spot

(* Between two calls the screen shows the last rows of everything that was *)
(* written, blanks where nothing was, and the cursor behind it: wrapping,  *)
(* newlines, tabs and scrolling lose nothing.                              *)
OutputShown ==
  part = "shown" =>
    LET at  == Spot
        end == at[Len(written) + 1]
        top == Cols * Most(end \div Cols - (Rows - 1), 0)
    IN  /\ screen.x = end % Cols /\ screen.y = (end - top) \div Cols
        /\ \A i \in 1 .. Rows * Cols :
             LET here == {k \in DOMAIN written : /\ written[k] \notin {"\n", "\t"}
                                                 /\ at[k] = top + i - 1}
             IN  screen.cell[i] \in IF here = {} THEN {Blank} ELSE {written[k] : k \in here}
=============================================================================
