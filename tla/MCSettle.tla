------------------------------- MODULE MCSettle -------------------------------
(* A small instance of Settle for TLC: a control that holds for one resource, *)
(* a decision that holds for none in particular, and a pairing that prices    *)
(* the category on that one resource only.                                    *)
EXTENDS Settle

MCMapping ==
    [p \in Category \X Resource |-> IF p[2] = "r1" THEN {"decision"} ELSE {}]

MCAppliesTo == [e \in Entry |-> IF e = "control" THEN {"r1"} ELSE {}]
=============================================================================
