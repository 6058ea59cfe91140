---------------------------- MODULE MCArguments ----------------------------
(* The texts and numbers with which TLC checks Arguments.                  *)
EXTENDS Arguments

SomeTexts == {Empty, "x"}

\* No digit, a small number, and one that does not fit into a byte.
SomeNumerals == {<<>>, <<7>>, <<3, 0, 2>>}

=============================================================================
