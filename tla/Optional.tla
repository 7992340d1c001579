------------------------------- MODULE Optional -------------------------------
(***************************************************************************)
(* None of Python, and what `or` makes of it.                              *)
(***************************************************************************)
EXTENDS TLC

CONSTANT None

\* The first of two objects, or of two texts, that says something.
Or(first, second) == IF first = None THEN second ELSE first

OrElse(first, second) == IF first \in {None, ""} THEN second ELSE first
===============================================================================
