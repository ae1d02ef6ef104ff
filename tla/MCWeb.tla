-------------------------------- MODULE MCWeb --------------------------------
(***************************************************************************)
(* WebPages for TLC: per page two of whatever can be confused.  What a cfg *)
(* cannot write is defined here.                                           *)
(***************************************************************************)
EXTENDS WebPages

\* The tables a database has.
MCLists == {<<"A", "B">>}

\* Their columns.
MCColumns == [t \in {"A", "B"} |-> IF t = "A" THEN {"id", "name"} ELSE {"id"}]

\* The points of time that each range has figures for.
MCPoints == [r \in {"1h", "6h"} |-> IF r = "1h" THEN {0, 1} ELSE {2}]

\* The runtime guessed for each repository.
MCGuess == [r \in {"a", "b"} |-> IF r = "a" THEN "java" ELSE "unsupported"]

=============================================================================
