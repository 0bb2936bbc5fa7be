------------------------------ MODULE MCWorker ------------------------------
(* Small instances of Worker for TLC.                                         *)
EXTENDS Worker, Scc, TLC

\* A finding as it arrives; the name is written with what pathSafe has to undo.
Arrives(name, time, is, body) ==
    [json |-> TRUE, canonicalName |-> name, eventTime |-> <<time>>, state |-> <<is>>,
     category |-> "c", resourceName |-> "r", findingClass |-> "MISCONFIGURATION",
     body |-> body]

NameA == <<"p", "/", "/", "a", ".", ".", ".", ".", "/", "x", " ">>
NameB == <<"p", "/", "b">>

\* One event delivered twice, the second time with a body that moved; the same
\* finding resolved; one event the corpus prices, delivered again without a field;
\* a vulnerability; a body nothing can be read from.
Arrivals ==
    [fresh |-> Arrives(NameA, "1", "A", "d1"),
     drift |-> Arrives(NameA, "1", "A", "d2"),
     resolved |-> Arrives(NameA, "1", "I", "d3"),
     priced |-> Arrives(NameB, "1", "A", "d4"),
     torn |-> [Arrives(NameB, "1", "A", "d5") EXCEPT !.category = Absent],
     vuln |-> [Arrives(NameB, "2", "A", "d6") EXCEPT !.findingClass = "VULNERABILITY"],
     noise |-> [Arrives(NameB, "2", "I", "d7") EXCEPT !.canonicalName = <<" ">>]]

Bodies == [m \in DOMAIN Arrivals |-> Parsed(Arrivals[m])]
Keys == {Bodies[m].key : m \in Message}

\* TLC evaluates a definition once, and what a .cfg puts for a constant each time
\* it is used: these only name what is evaluated.
MCRaw == Arrivals
MCBody == Bodies
MCKey == Keys

MCMapped == [w \in Worker |-> {"priced"}]

\* Two processes of one image are interchangeable.
MCSymmetry == Permutations(Worker)

\* A rollout: the new image's corpus prices what the old one's does not.
MCRollout == [w \in Worker |-> IF w = "w1" THEN {} ELSE Message]
=============================================================================
