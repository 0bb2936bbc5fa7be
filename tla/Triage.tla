------------------------------- MODULE Triage -------------------------------
(* What the triage worker promises for one finding, whatever crashes and      *)
(* redeliveries lie between: one verdict, never revised; the owner told of    *)
(* every verdict but accepted; the finding closed only after both.            *)
CONSTANT
    Finding     \* findings, by ledger key

VARIABLES
    verdict,    \* verdict[f]: the verdict on record, "none" before there is one
    told,       \* told[f]: whether the owner was told
    closed      \* closed[f]: whether f is out of the queue for good

vars == <<verdict, told, closed>>

Verdict == {"accepted", "contradicts_decision", "new", "insufficient_evidence"}

Init ==
    /\ verdict = [f \in Finding |-> "none"]
    /\ told = [f \in Finding |-> FALSE]
    /\ closed = [f \in Finding |-> FALSE]

Settle(f) ==
    /\ verdict[f] = "none"
    /\ \E v \in Verdict : verdict' = [verdict EXCEPT ![f] = v]
    /\ UNCHANGED <<told, closed>>

\* Acceptance is the quiet path; every other verdict reaches the owner.
Tell(f) ==
    /\ verdict[f] \in Verdict \ {"accepted"}
    /\ told' = [told EXCEPT ![f] = TRUE]
    /\ UNCHANGED <<verdict, closed>>

Close(f) ==
    /\ verdict[f] = "accepted" \/ told[f]
    /\ closed' = [closed EXCEPT ![f] = TRUE]
    /\ UNCHANGED <<verdict, told>>

Next == \E f \in Finding : Settle(f) \/ Tell(f) \/ Close(f)

Spec == Init /\ [][Next]_vars
=============================================================================
