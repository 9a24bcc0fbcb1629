---------------------------- MODULE MCSnakeGame ----------------------------
EXTENDS SnakeGame

\* A key of the numeric pad shares a character with one of the top row, as in
\* char_map, and one has a character above 127.
MCKey == {"7", "pad7", "n with tilde"}
\* The game looks at "w".
MCGameKey == {"w", "7"}
MCHighChars == {"n with tilde"}
MCchar_map == [key \in Key |-> IF key = "pad7" THEN "7" ELSE key]

\* what was in the frame before: nothing, or keys by which the snake turns in its
\* own direction, across it and back, from one array or from both
MCGarbage ==
  {<<{}, {}>>, <<{"w"}, {}>>, <<{"a", "s"}, {}>>, <<{"w"}, {"a"}>>, <<{"w", "d"}, {"s"}>>}

\* the two numbers that follow the arrays
MCBehind == <<0, 9>>

=============================================================================
