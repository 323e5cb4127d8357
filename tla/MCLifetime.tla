------------------------------ MODULE MCLifetime ------------------------------
EXTENDS Lifetime

CONSTANTS a1, a2, a3

\* Two launches of one login, and one of another.
MCLoginOf == [a \in {a1, a2, a3} |-> IF a = a3 THEN "other" ELSE "one"]
=============================================================================
