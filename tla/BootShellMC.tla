---------------------------- MODULE BootShellMC -----------------------------
(***************************************************************************)
(* Words, with what a reader takes them for, and lines made of them.       *)
(***************************************************************************)
EXTENDS BootShell

W(text, token) == [text |-> text, token |-> token]

set   == W(<<"s">>, Identifier(<<"s">>))
show  == W(<<"w">>, Identifier(<<"w">>))
strA  == W(<<"$", "a">>, Variable(<<"$", "a">>))
intA  == W(<<"%", "a">>, Variable(<<"%", "a">>))
boolA == W(<<".", "a">>, Variable(<<".", "a">>))
long  == W(<<"%", "a", "1">>, Error)
text  == W(<<"!", "x", "!">>, LString(<<"x">>))
blank == W(<<"!", " ", "!">>, LString(<<" ">>))
empty == W(<<"!", "!">>, LString(<<>>))
open  == W(<<"!", "x">>, Open)
odd   == W(<<"?", "v">>, Error)
dec   == W(<<"1", "7">>, LUInteger(17))
wide  == W(<<"1", "6">>, LUInteger(16))
one   == W(<<"1">>, LUInteger(1))
oct   == W(<<"0", "1", "7">>, LUInteger(15))
hex   == W(<<"0", "x", "f", "f">>, LUInteger(255))
noHex == W(<<"0", "x">>, Error)
noOct == W(<<"0", "8">>, Error)
noDec == W(<<"1", "a">>, Error)
tooMany == W(<<"1", "0", "0">>, Error)

MCLines == {<<>>, <<show>>, <<show, strA>>, <<strA>>, <<odd>>, <<set, odd>>,
            <<set, intA, noHex>>, <<set, intA, noOct>>, <<set, intA, noDec>>,
            <<set, intA, tooMany>>, <<set, long, one>>,
            <<set, intA, one, empty>>, <<set, open>>, <<set, strA, open>>,
            <<set, strA, text>>, <<set, strA, blank>>, <<set, strA, empty>>,
            <<set, strA, one>>, <<set, intA, dec>>, <<set, intA, oct>>,
            <<set, intA, hex>>, <<set, intA, text>>, <<set, boolA, one>>,
            <<set, boolA, wide>>}
=============================================================================
