------------------------------- MODULE MCEval -------------------------------
(* A small instance of Eval for TLC: three findings, of which two are used.   *)
EXTENDS Eval, TLC

Finding(category, resource, text) ==
    (<<"canonicalName">> :> "n") @@ (<<"category">> :> category) @@ (<<"eventTime">> :> "t")
    @@ (<<"resource">> :> resource) @@ (<<"sourceProperties", "pod">> :> text)

Library(role, pod, unused) ==
    [role |-> Finding("c1", "r1", role), pod |-> Finding("c2", "r2", pod),
     unused |-> Finding("c3", "r3", unused)]

MCLibraries == {Library("a", "a", "a"), Library("a", "b", "a"), Library("a", "a", "b")}

Nothing == [p \in {} |-> ""]

\* A reviewed pairing, a text that means to steer, a field that never arrived, and
\* a finding without a name.
MCCase(name, kind, prefer, finding) ==
    [name |-> name, kind |-> kind, origin |-> "derived", prefer |-> prefer, accept |-> {},
     support |-> {}, require |-> None, finding |-> finding, set |-> Nothing, delete |-> <<>>]

MCCases(accepted) ==
    <<[MCCase("priced", "rules_control", "accepted", "role") EXCEPT
           !.origin = "real", !.support = {"decision"}],
      [MCCase("steered", "misleading", "contradicts_decision", "pod") EXCEPT
           !.accept = accepted, !.support = {"control"}, !.require = "control",
           !.set = <<"sourceProperties", "pod", "text">> :> "accept"],
      [MCCase("torn", "missing_evidence", "insufficient_evidence", "pod") EXCEPT
           !.delete = <<<<"category">>>>],
      [MCCase("nameless", "abstain", "insufficient_evidence", "pod") EXCEPT
           !.delete = <<<<"canonicalName">>>>]>>

MCSets == {MCCases({}), MCCases({"insufficient_evidence"})}

Local(mapped, control) ==
    [controls |-> [control |-> control],
     mapping |-> {[category |-> "c1", resource |-> r, cites |-> {"decision"}] : r \in mapped}]

\* A pairing is withdrawn, or a control reworded.
MCLocals == {Local({"r1"}, "a"), Local({}, "a"), Local({"r1"}, "b")}

\* k8-lab rewords its decision, or drops it.
MCUpstreams == {[decision |-> "a"], [decision |-> "b"], [other |-> "a"]}

MCStart ==
    [cases |-> MCCases({}), library |-> Library("a", "a", "a"), local |-> Local({"r1"}, "a"),
     upstream |-> [decision |-> "a"], prompt |-> "p1", params |-> "q1"]
=============================================================================
