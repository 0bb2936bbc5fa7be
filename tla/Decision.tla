------------------------------- MODULE Decision -------------------------------
(* What a verdict may be: the promise Decide (internal/worker/worker.go)      *)
(* makes to triage.  Settle.tla shows that the code path by path keeps to it; *)
(* Worker.tla takes its verdicts from here.                                   *)

Verdicts == {"accepted", "contradicts_decision", "new", "insufficient_evidence"}

\* Mutant: whatever the model says stands.
RulingsTrusting(complete, mapped, model) ==
    {r \in [verdict : Verdicts, settledBy : {"rules", "model"}] :
        \/ ~complete /\ r = [verdict |-> "insufficient_evidence", settledBy |-> "rules"]
        \/ complete /\ mapped /\ r = [verdict |-> "accepted", settledBy |-> "rules"]
        \/ complete /\ ~mapped /\ ~model /\ r = [verdict |-> "new", settledBy |-> "rules"]
        \/ complete /\ ~mapped /\ model /\ r.settledBy = "model"}

\* An incomplete finding is refused, a mapped one accepted, and the model, where
\* one is configured, is asked about the rest.  It may be refused before a call
\* (budget or ceiling, settled by the rules) or answer anything but accepted; an
\* answer that does not stand is insufficient evidence too.
Rulings(complete, mapped, model) ==
    {r \in [verdict : Verdicts, settledBy : {"rules", "model"}] :
        \/ /\ ~complete
           /\ r.verdict = "insufficient_evidence" /\ r.settledBy = "rules"
        \/ /\ complete /\ mapped
           /\ r.verdict = "accepted" /\ r.settledBy = "rules"
        \/ /\ complete /\ ~mapped /\ ~model
           /\ r.verdict = "new" /\ r.settledBy = "rules"
        \/ /\ complete /\ ~mapped /\ model
           /\ \/ r.verdict = "insufficient_evidence" /\ r.settledBy = "rules"
              \/ r.verdict # "accepted" /\ r.settledBy = "model"}
=============================================================================
