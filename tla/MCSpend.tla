------------------------------- MODULE MCSpend -------------------------------
(* Small instances of Spend for TLC.                                          *)
EXTENDS Spend

\* Two handlers in the first process, one in the second.
MCOf == [c \in Caller |-> IF c = "c3" THEN "p2" ELSE "p1"]
=============================================================================
