-------------------------------- MODULE MCEDN -------------------------------
(***************************************************************************)
(* TLC instance of EDN: all texts of a few tokens.                         *)
(***************************************************************************)
EXTENDS EDN

\* What is left out is treated like something that is not: nil, strings and other
\* keywords and numbers like those here, invalid tokens like the symbol x.
McTokens ==
    {Char(c) : c \in {"[", "]", "(", ")", "{", "}"}} \union
    {<<"keyword", "a">>, <<"int", 2>>, <<"symbol", "true">>, <<"symbol", "x">>}
=============================================================================
