----------------------------- MODULE BootShell ------------------------------
(***************************************************************************)
(* The loader's shell, sh/*.c: a line becomes tokens (lexer.c, token.c),   *)
(* the tokens a syntax vector (parser.c), the vector a command (shell.c,   *)
(* commands.h), and the command set an entry of the table of variables     *)
(* (var_table.c).                                                          *)
(*                                                                         *)
(* Lines are typed word by word with a blank between.  A word carries the  *)
(* token a reader takes it for, which the program does not look at; words  *)
(* that are several tokens, as 1x is, are not typed.  The shell keeps one  *)
(* buffer for all lines: behind the '\0' of a line lie the ends of earlier *)
(* ones, and two of the lexer's loops do not stop at '\0'.                 *)
(*                                                                         *)
(* A command's name is one letter here: "s" is set, "w" show, "v" vars.    *)
(* help and the commands that only print change nothing and are like show  *)
(* and vars.  Only lower-case letters are used.                            *)
(***************************************************************************)
EXTENDS Integers, Sequences, FiniteSets, FiniteSetsExt, SequencesExt

CONSTANTS Lines,       \* what may be typed: sequences of words
          BufSize,     \* BUF_SIZE
          MemSize,     \* what may be read, from the buffer on
          VecLen,      \* SYNTAX_VEC_LEN
          TableLen,    \* TABLE_LEN
          StrMax,      \* TOKEN_STR_LEN_MAX
          OctMax, DecMax, HexMax,  \* longest numbers, 10 + 1, 9 and 8
          NumRange,    \* 2^32
          ByteRange    \* 2^8, the values of the byte a bool is read from

VARIABLES
  buf,      \* shell.c: _buf
  pc,       \* where shell_do is
  forward,  \* lexer.c: _.forward
  vec,      \* parser.c: _.syntax_vec, up to vec_idx
  table,    \* var_table.c: _
  line      \* history: the line typed last

vars == <<buf, pc, forward, vec, table, line>>

-----------------------------------------------------------------------------
(* Characters and tokens.                                                  *)

Nul == "\\0"
HexChars == <<"0", "1", "2", "3", "4", "5", "6", "7", "8", "9",
              "a", "b", "c", "d", "e", "f">>
Digits  == ToSet(SubSeq(HexChars, 1, 10))
Hex     == ToSet(HexChars)
Letters == {"a", "b", "c", "d", "e", "f", "s", "v", "w", "x", "_"}
Alnum   == Letters \cup Digits
Sigils  == {"$", "%", "."}
Chars   == Alnum \cup Sigils \cup {"!", " ", "?", Nul}

Token(t, s, n)  == [type |-> t, str |-> s, num |-> n]
Identifier(s)   == Token("identifier", s, 0)
Variable(s)     == Token("variable", s, 0)
LString(s)      == Token("lstring", s, 0)
LUInteger(n)    == Token("luinteger", <<>>, n)
Error           == Token("error", <<>>, 0)
Unknown         == Token("unknown", <<>>, 0)
Eoi             == Token("eoi", <<>>, 0)
(* What a reader makes of a string without its second delimiter. *)
Open            == Token("open", <<>>, 0)

TokenTypes == {"identifier", "variable", "lstring", "luinteger", "error",
               "unknown", "eoi", "open"}
Types  == {"str", "int", "bool"}
Slots  == 0 .. TableLen - 1
Unused == [used |-> FALSE, type |-> "str", name |-> <<>>, str |-> <<>>, num |-> 0]

Number == 0 .. NumRange - 1

TypeOK ==
  /\ buf \in [0 .. BufSize - 1 -> Chars]
  /\ pc \in {"prompt", "lex", "rejected", "run"}
  /\ forward \in 0 .. MemSize
  /\ vec \in Seq([type : TokenTypes, str : Seq(Chars), num : Number])
  /\ Len(vec) <= VecLen
  /\ \A i \in DOMAIN vec : Len(vec[i].str) <= StrMax
  /\ table \in [Slots -> [used : BOOLEAN, type : Types, name : Seq(Chars),
                         str : Seq(Chars), num : Number]]
  /\ \A i \in Slots : Len(table[i].name) < StrMax /\ Len(table[i].str) <= StrMax
  /\ line \in Lines

-----------------------------------------------------------------------------
(* What a reader takes a word for.                                         *)

DigitValue(c) == SelectInSeq(HexChars, LAMBDA d : d = c) - 1

Numeral(base, s) == FoldLeft(LAMBDA n, c : n * base + DigitValue(c), 0, s)

Numbered(base, max, s) ==
  IF s = <<>> \/ Len(s) > max \/ \E i \in DOMAIN s : DigitValue(s[i]) >= base
  THEN Error
  ELSE LUInteger(Numeral(base, s))

Named(type, s) == IF Len(s) > StrMax THEN Error ELSE Token(type, s, 0)

Of(s, C) == ToSet(s) \subseteq C

Reads(s, k) ==
  \/ s[1] \in Letters /\ Of(s, Alnum) /\ k = Named("identifier", s)
  \/ s[1] \in Sigils /\ Of(Tail(s), Alnum) /\ k = Named("variable", s)
  \/ /\ Len(s) > 1 /\ s[1] = "!" /\ s[Len(s)] = "!"
     /\ LET inner == SubSeq(s, 2, Len(s) - 1)
        IN  Of(inner, Chars \ {"!"}) /\ k = Named("lstring", inner)
  \/ s[1] = "!" /\ Of(Tail(s), Chars \ {"!"}) /\ k = Open
  \/ s[1] = "?" /\ k = Error
  \/ /\ s[1] = "0" /\ Len(s) > 1 /\ s[2] = "x"
     /\ LET digits == SubSeq(s, 3, Len(s))
        IN  Of(digits, Hex) /\ k = Numbered(16, HexMax, digits)
  \/ s[1] = "0" /\ Of(s, Hex) /\ k = Numbered(8, OctMax, s)
  \/ s[1] \in Digits \ {"0"} /\ Of(s, Hex) /\ k = Numbered(10, DecMax, s)

(* What is typed are words of characters; an empty line may be. *)
ASSUME LinesAssumption ==
  /\ Lines \subseteq Seq([text  : Seq(Chars \ {Nul}) \ {<<>>},
                         token : [type : TokenTypes, str : Seq(Chars), num : Nat]])
  /\ <<>> \in Lines
ASSUME WordsAssumption ==
  \A l \in Lines : \A i \in DOMAIN l : Reads(l[i].text, l[i].token)

(* The longest numbers fit; an octal one begins with a zero. *)
Power(base, n) == LET p[k \in Nat] == IF k = 0 THEN 1 ELSE base * p[k - 1]
                  IN  p[n]
ASSUME NumbersAssumption ==
  /\ {OctMax, DecMax, HexMax} \subseteq Nat \ {0}
  /\ Power(8, OctMax - 1) <= NumRange
  /\ Power(10, DecMax) <= NumRange
  /\ Power(16, HexMax) <= NumRange

-----------------------------------------------------------------------------
(* A line.                                                                 *)

Text(l) == FlattenSeq([i \in DOMAIN l |-> IF i < Len(l)
                                          THEN Append(l[i].text, " ")
                                          ELSE l[i].text])

ASSUME SizeAssumption ==
  /\ {BufSize, VecLen, TableLen, StrMax, NumRange, ByteRange} \subseteq Nat \ {0}
  /\ MemSize \in Nat /\ MemSize > BufSize

(* No word is so near the end of the buffer that what lies behind could    *)
(* complete a string short enough to be taken.                             *)
ASSUME RoomAssumption == \A l \in Lines : Len(Text(l)) + StrMax + 2 < BufSize

(* console_get_line copies the line, shell_do ends it; parser_do begins. *)
GetLine == /\ pc = "prompt"
           /\ \E l \in Lines :
                /\ line' = l
                /\ buf' = [i \in DOMAIN buf |->
                             IF i < Len(Text(l)) THEN Text(l)[i + 1]
                             ELSE IF i = Len(Text(l)) THEN Nul ELSE buf[i]]
           /\ pc' = "lex"
           /\ forward' = 0
           /\ vec' = <<>>
           /\ UNCHANGED table

-----------------------------------------------------------------------------
(* lexer.c and token.c: one token.                                         *)

(* The first place from p on with a character of C, or the buffer's end. *)
First(p, C) == Min({q \in p .. BufSize - 1 : buf[q] \in C} \cup {BufSize})

(* Where a loop that does not stop at '\0' ends: if the buffer has no      *)
(* character of C, anywhere behind it.  That one lies there before the     *)
(* memory ends, as on the screen, is assumed.                              *)
LoopEnds(p, C) == IF First(p, C) < BufSize THEN {First(p, C)} ELSE BufSize .. MemSize - 1

Begin == First(forward, Chars \ {" "})

(* The next token begins with a character of C. *)
Sees(C) == pc = "lex" /\ buf[Begin] \in C

(* Characters b to e as the string strncpy makes of them. *)
Lexeme(b, e) == LET n == Min({i \in 0 .. e - b : buf[b + i] = Nul} \cup {e - b + 1})
                IN  [i \in 1 .. n |-> buf[b + i - 1]]

SetStrLex(t, b, e) == IF e - b + 1 > StrMax THEN Error
                      ELSE Token(t, Lexeme(b, e), 0)

(* Mutant: every number is taken as a decimal one. *)
SetLUIntegerTen(base, max, b, e) ==
  LET s == Lexeme(b, e)
  IN  IF Len(s) > max \/ \E i \in DOMAIN s : DigitValue(s[i]) >= base THEN Error
      ELSE LUInteger(FoldLeft(LAMBDA n, c : (n * 10 + DigitValue(c)) % NumRange, 0, s))

SetLUInteger(base, max, b, e) ==
  LET s == Lexeme(b, e)
  IN  IF Len(s) > max \/ \E i \in DOMAIN s : DigitValue(s[i]) >= base THEN Error
      ELSE LUInteger(FoldLeft(LAMBDA n, c : (n * base + DigitValue(c)) % NumRange, 0, s))

(* One iteration of parser_do's loop, for the token t that ends before     *)
(* next.                                                                   *)
Accept(t, next) ==
  /\ forward' = next
  /\ IF t.type \in {"error", "unknown"}
     THEN pc' = "rejected" /\ UNCHANGED vec
     ELSE /\ vec' = Append(vec, t)
          /\ pc' = IF t.type = "eoi" THEN "run"
                   ELSE IF Len(vec) + 1 = VecLen THEN "rejected" ELSE "lex"
  /\ UNCHANGED <<buf, table, line>>

ProcessEoi == /\ Sees({Nul})
              /\ Accept(Eoi, Begin)

ProcessIdentifier ==
  /\ Sees(Letters)
  /\ LET next == First(Begin + 1, Chars \ Alnum)
     IN  Accept(SetStrLex("identifier", Begin, next - 1), next)

ProcessVariable ==
  /\ Sees(Sigils)
  /\ LET next == First(Begin + 1, Chars \ Alnum)
     IN  Accept(SetStrLex("variable", Begin, next - 1), next)

(* What is left of a number's characters after the prefix is told by      *)
(* _is_valid16 for every base; the converters complain.                    *)
ProcessLUInteger ==
  /\ Sees(Digits)
  /\ LET hex  == buf[Begin] = "0" /\ buf[Begin + 1] = "x"
         from == IF hex THEN Begin + 2 ELSE Begin
         next == First(from + 1, Chars \ Hex)
     IN  IF hex /\ buf[from] \notin Hex THEN Accept(Error, from)
         ELSE Accept(IF hex THEN SetLUInteger(16, HexMax, from, next - 1)
                     ELSE IF buf[Begin] = "0"
                     THEN SetLUInteger(8, OctMax, from, next - 1)
                     ELSE SetLUInteger(10, DecMax, from, next - 1), next)

(* The loop ends at the next delimiter, be it behind the line's end or     *)
(* behind the buffer.                                                      *)
ProcessString ==
  /\ Sees({"!"})
  /\ \E last \in LoopEnds(Begin + 1, {"!"}) :
       Accept(SetStrLex("lstring", Begin + 1, last - 1), last + 1)

(* The loop ends at the next blank, but the token is refused anyway. *)
ProcessUnknown ==
  /\ Sees(Chars \ (Alnum \cup Sigils \cup {"!", Nul}))
  /\ \E next \in LoopEnds(Begin + 1, {" "}) : Accept(Unknown, next)

Lexer == \/ ProcessEoi \/ ProcessIdentifier \/ ProcessVariable
         \/ ProcessLUInteger \/ ProcessString \/ ProcessUnknown

-----------------------------------------------------------------------------
(* var_table.c                                                             *)

TypeOfSigil(c) == CASE c = "$" -> "str" [] c = "%" -> "int" [] c = "." -> "bool"
LiteralOf(type) == IF type = "str" THEN "lstring" ELSE "luinteger"

(* Mutant: a variable is looked up by its name alone. *)
EntriesByName(type, name) == {i \in Slots : table[i].used /\ table[i].name = name}

Entries(type, name) ==
  {i \in Slots : /\ table[i].used
                 /\ table[i].type = type
                 /\ table[i].name = name}

FreeEntries == {i \in Slots : ~table[i].used}

(* A bool is read from the first byte of the number in the token's union. *)
VarSetEntry(var, val) ==
  LET type  == TypeOfSigil(Head(var.str))
      name  == Tail(var.str)
      found == IF Entries(type, name) # {} THEN Entries(type, name) ELSE FreeEntries
  IN  IF val.type # LiteralOf(type) \/ found = {}
      THEN UNCHANGED table
      ELSE table' = [table EXCEPT ![Min(found)] =
             [used |-> TRUE, type |-> type, name |-> name,
              str |-> val.str,
              num |-> IF type = "bool" /\ val.num % ByteRange # 0 THEN 1
                      ELSE IF type = "bool" THEN 0 ELSE val.num]]

-----------------------------------------------------------------------------
(* shell.c                                                                 *)

Arity == [s |-> 2, w |-> 1, v |-> 0]

(* The line is a call of c with the arguments c takes. *)
Calls(c) == /\ vec[1] = Identifier(<<c>>)
            /\ Len(vec) = Arity[c] + 2

Done == /\ pc' = "prompt"
        /\ UNCHANGED <<buf, forward, vec, line>>

RunSet == /\ pc = "run"
          /\ Calls("s")
          /\ IF vec[2].type = "variable" THEN VarSetEntry(vec[2], vec[3])
             ELSE UNCHANGED table
          /\ Done

(* A blank line, no command, the wrong number of arguments, or a command   *)
(* that prints.                                                            *)
RunOther == /\ pc = "run"
            /\ ~Calls("s")
            /\ Done
            /\ UNCHANGED table

Reject == /\ pc = "rejected"
          /\ Done
          /\ UNCHANGED table

Init == /\ buf = [i \in 0 .. BufSize - 1 |-> Nul]
        /\ pc = "prompt"
        /\ forward = 0
        /\ vec = <<>>
        /\ table = [i \in Slots |-> Unused]
        /\ line = <<>>

Next == GetLine \/ Lexer \/ RunSet \/ RunOther \/ Reject

Spec == Init /\ [][Next]_vars

-----------------------------------------------------------------------------
(* Properties.                                                             *)

(* Every string of the line ends in it. *)
Terminated == \A i \in DOMAIN line : line[i].token # Open

(* Whatever was typed before, a line whose strings are terminated reaches  *)
(* its command as the tokens a reader sees in it, numbers with their       *)
(* values, and is refused only for a word that is no token or for more     *)
(* words than the syntax vector holds.                                     *)
LineUnderstood ==
  Terminated =>
    /\ pc = "run" => vec = Append([i \in DOMAIN line |-> line[i].token], Eoi)
    /\ pc = "rejected" => \/ Len(line) >= VecLen
                          \/ \E i \in DOMAIN line : line[i].token = Error

Store == {[key |-> <<table[i].type, table[i].name>>, str |-> table[i].str,
           num |-> table[i].num] : i \in {j \in Slots : table[j].used}}

(* A set command typed correctly. *)
Typed == /\ Len(line) = 3
         /\ line[1].token = Identifier(<<"s">>)
         /\ line[2].token.type = "variable"
         /\ line[3].token.type =
              LiteralOf(TypeOfSigil(Head(line[2].token.str)))
Key   == <<TypeOfSigil(Head(line[2].token.str)), Tail(line[2].token.str)>>
Value == [key |-> Key, str |-> line[3].token.str,
          num |-> IF Key[1] = "bool" /\ line[3].token.num # 0 THEN 1
                  ELSE line[3].token.num]

(* A boolean takes numbers of one byte. *)
OneByte == Typed /\ Key[1] = "bool" => line[3].token.num < ByteRange

(* From the words typed to the table: a correct set gives its variable the *)
(* value typed and leaves the others as they are, if the variable exists   *)
(* or there is room for it; no other line changes a variable.              *)
StoreAsTyped ==
  [][Terminated /\ OneByte =>
       Store' = IF /\ pc = "run" /\ Typed
                   /\ \/ \E e \in Store : e.key = Key
                      \/ Cardinality(Store) < TableLen
                THEN {e \in Store : e.key # Key} \cup {Value}
                ELSE Store]_vars
=============================================================================
