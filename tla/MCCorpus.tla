------------------------------- MODULE MCCorpus -------------------------------
(* A small instance of Corpus for TLC: two headings that share an anchor, one *)
(* of its own, one without any; pairings that resolve, resolve in part, or    *)
(* cite nothing.                                                              *)
EXTENDS Corpus

MCAnchor ==
    [h \in Heading |-> CASE h = "bare" -> Malformed [] h = "other" -> "n2" [] OTHER -> "n1"]

control == [kind |-> "control", name |-> "n1"]
decided == [kind |-> "decision", name |-> "n1"]

MCPairing ==
    {[resource |-> "r1", cite |-> {control}, why |-> TRUE],
     [resource |-> "r1", cite |-> {control, decided}, why |-> TRUE],
     [resource |-> "r1", cite |-> {}, why |-> TRUE]}

MCMaxLines ==
    [k \in {Sources[i] : i \in 1..5} |->
        CASE k = "decision" -> 4 [] k = "threat" -> 3 [] OTHER -> 1]
=============================================================================
