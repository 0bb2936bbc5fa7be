----------------------------- MODULE SettleProofs -----------------------------
(* What holds of every verdict, whatever corpus is compiled and whatever the  *)
(* model replies.                                                             *)
EXTENDS Settle, TLAPS

\* A record that triage may be given for finding f, and what it rests on.
Sound(f, r) ==
    /\ Validate(r)
    /\ [verdict |-> r.verdict, settledBy |-> r.settledBy]
           \in Rulings(f.complete, Resolve(f) # {}, Model)
    /\ r.verdict = "accepted" => r.citations # {} /\ r.citations \subseteq Resolve(f)
    /\ r.verdict = "contradicts_decision" =>
           \E e \in r.citations : AppliesTo[e] \cap Named(f) # {}

\* The finding is one the model may be asked about.
Unmatched(f) == Model /\ f.complete /\ Resolve(f) = {}

\* Where Decide stands says what has been established so far.
Inv ==
    /\ TypeOK
    /\ asked <= reserved
    /\ pc = "reserved" => asked < reserved
    /\ pc \in {"asking", "reserved", "replied"} => Unmatched(finding)
    /\ pc \in {"reserved", "replied"} => ~finding.long
    /\ pc \in {"ruling", "asking", "reserved"} => ~outcome.called
    /\ pc \in {"checking", "decided"} => Sound(finding, record)
    /\ pc \in {"checking", "decided"} =>
          record.cost = IF outcome.called THEN reply.bill ELSE "none"
    /\ pc \in {"checking", "decided"} /\ outcome.called =>
          /\ reply # None
          /\ reply.over => record.verdict = "insufficient_evidence"
                           /\ outcome.refusal = "budget"

\* What the rules say stands, unless the model is asked.
LEMMA ClassifySound ==
    ASSUME NEW f \in Finding, f.complete
    PROVE  /\ Classify(f) \in Record /\ Classify(f).cost = "none"
           /\ Classify(f).verdict = "new" <=> Resolve(f) = {}
           /\ Classify(f).verdict = "new" \/ Sound(f, Classify(f))
           /\ ~Model => Sound(f, Classify(f))
<1>1. Resolve(f) \subseteq Entry
  BY CorpusAssumption DEF Resolve, Finding
<1>2. CASE Resolve(f) = {}
  BY <1>1, <1>2 DEF Classify, Record, Verdicts, Sound, Validate, Rulings
<1>3. CASE Resolve(f) # {}
  BY <1>1, <1>3 DEF Classify, Record, Verdicts, Sound, Validate, Rulings
<1>4. QED BY <1>2, <1>3

\* A refusal always stands: by the rules on a finding that could not be read, by
\* either half on one the model may be asked about.
LEMMA InsufficientSound ==
    ASSUME NEW f \in Finding, NEW by \in {"rules", "model"},
           NEW cost \in Bills \union {"none"},
           (~f.complete /\ by = "rules") \/ Unmatched(f)
    PROVE  /\ Insufficient(by, cost) \in Record /\ Sound(f, Insufficient(by, cost))
           /\ Insufficient(by, cost).cost = cost
  BY DEF Insufficient, Record, Verdicts, Sound, Validate, Rulings, Unmatched

\* An answer nothing is objected to stands.
LEMMA AnswerSound ==
    ASSUME NEW f \in Finding, Unmatched(f), NEW a \in Answer, Objection(f, a) = None,
           NEW cost \in Bills
    PROVE  /\ Answered(a, cost) \in Record /\ Sound(f, Answered(a, cost))
           /\ Answered(a, cost).cost = cost
<1>1. a.verdict # "accepted" /\ Validate(Answered(a, cost))
  <2>1. a.verdict # "accepted" /\ Validate(Answered(a, "none"))
    BY NoneAssumption DEF Objection, Refusals
  <2>2. QED BY <2>1 DEF Validate, Answered
<1>2. a.verdict = "contradicts_decision" =>
         a.citations \subseteq Entry /\ anchored(a.citations, f)
  BY NoneAssumption DEF Objection, Refusals
<1>3. Answered(a, cost) \in Record
  BY <1>1, <1>2 DEF Answered, Record, Validate, Answer
<1>4. QED
  BY <1>1, <1>2, <1>3 DEF Sound, Answered, Rulings, Unmatched, anchored, Validate, Verdicts

LEMMA InvInit == Init => Inv
  BY SettleAssumption DEF Init, Inv, TypeOK, Steps, Uncalled, Refusals
LEMMA TakeStep ==
    ASSUME Inv, NEW f \in Finding, Take(f)
    PROVE  Inv'
  BY NoneAssumption, SettleAssumption
     DEF Inv, TypeOK, Take, money, Uncalled, Steps, Unmatched

LEMMA RuleStep ==
    ASSUME Inv, Rule
    PROVE  Inv'
<1> USE DEF Inv, TypeOK, Rule, money, Steps
<1>1. finding \in Finding
  BY NoneAssumption
<1>2. CASE ~finding.complete
  <2>1. record' = Insufficient("rules", "none") /\ pc' = "checking"
    BY <1>2
  <2>2. record' \in Record /\ Sound(finding, record') /\ record'.cost = "none"
    BY <1>1, <1>2, <2>1, InsufficientSound
  <2>3. QED BY <2>1, <2>2, NoneAssumption
<1>3. CASE finding.complete
  <2>1. /\ record' = Classify(finding) /\ pc' \in {"asking", "checking"}
        /\ pc' = "asking" <=> Model /\ record'.verdict = "new"
    BY <1>3
  <2>2. /\ record' \in Record /\ record'.cost = "none"
        /\ pc' = "checking" => Sound(finding, record')
    BY <1>1, <1>3, <2>1, ClassifySound
  <2>3. pc' = "asking" => Unmatched(finding)
    BY <1>1, <1>3, <2>1, ClassifySound DEF Unmatched
  <2>4. QED BY <2>1, <2>2, <2>3, NoneAssumption
<1>4. QED BY <1>2, <1>3

\* Refusing is sound wherever the model may be asked.
LEMMA RefuseStep ==
    ASSUME Inv, pc \in {"asking", "replied"}, NEW why \in Refusals,
           NEW called \in BOOLEAN, Refuse(why, called),
           UNCHANGED <<finding, reply, money, counts, turns>>,
           called => pc = "replied" /\ (reply.over => why = "budget")
    PROVE  Inv'
<1> USE DEF Inv, TypeOK, Refuse, money, Steps
<1>1. finding \in Finding /\ Unmatched(finding)
  BY NoneAssumption
<1>2. /\ record' \in Record /\ Sound(finding, record')
      /\ record'.cost = IF called THEN reply.bill ELSE "none"
  <2>1. called => reply.bill \in Bills
    BY NoneAssumption DEF Reply
  <2>2. QED BY <1>1, <2>1, InsufficientSound
<1>3. record'.verdict = "insufficient_evidence"
  BY DEF Insufficient
<1>4. outcome' \in [called : BOOLEAN, refusal : Refusals \union {None}]
  OBVIOUS
<1>5. QED BY <1>1, <1>2, <1>3, <1>4, NoneAssumption

LEMMA ReadStep ==
    ASSUME Inv, Read
    PROVE  Inv'
<1>1. /\ finding \in Finding /\ Unmatched(finding) /\ reply \in Reply /\ pc = "replied"
      /\ UNCHANGED <<finding, reply, money, counts, turns>>
  BY NoneAssumption DEF Inv, TypeOK, Read
<1>2. /\ reply.over => WhyNot(finding, reply) = "budget"
      /\ WhyNot(finding, reply) \in Refusals \union {None}
  BY <1>1 DEF WhyNot, Objection, Refusals
<1>3. CASE WhyNot(finding, reply) # None
  <2>1. Refuse(WhyNot(finding, reply), TRUE)
    BY <1>3 DEF Read
  <2>2. QED BY <1>1, <1>2, <1>3, <2>1, RefuseStep
<1>4. CASE WhyNot(finding, reply) = None
  <2>1. ~reply.over
    BY <1>2, <1>4, NoneAssumption DEF Refusals
  <2>2. reply.answer \in Answer /\ Objection(finding, reply.answer) = None
    BY <1>1, <1>4, <2>1, NoneAssumption DEF WhyNot, Reply, Refusals
  <2>3. /\ pc' = "checking" /\ record' = Answered(reply.answer, reply.bill)
        /\ outcome' = [called |-> TRUE, refusal |-> None]
    BY <1>4 DEF Read
  <2>4. record' \in Record /\ Sound(finding, record') /\ record'.cost = reply.bill
    <3>1. reply.bill \in Bills
      BY <1>1 DEF Reply
    <3>2. QED BY <1>1, <2>2, <2>3, <3>1, AnswerSound
  <2>5. QED
    BY <1>1, <2>1, <2>3, <2>4, NoneAssumption DEF Inv, TypeOK, money, Steps
<1>5. QED BY <1>3, <1>4

LEMMA CallStep ==
    ASSUME Inv, Reserve \/ Abort \/ (\E r \in Reply : Generate(r))
    PROVE  Inv'
<1> USE DEF Inv, TypeOK, money, Steps, Goto
<1>1. CASE Reserve
  BY <1>1 DEF Reserve
<1>2. CASE Abort
  BY <1>2 DEF Abort
<1>3. CASE \E r \in Reply : Generate(r)
  <2>1. PICK r \in Reply : Generate(r)
    BY <1>3
  <2>2. QED BY <2>1, NoneAssumption DEF Generate
<1>4. QED BY <1>1, <1>2, <1>3

\* The record was valid already, so the last check changes nothing.
LEMMA CheckStep ==
    ASSUME Inv, Check
    PROVE  Inv'
<1>1. /\ pc = "checking" /\ pc' = "decided" /\ record' = record
      /\ UNCHANGED <<finding, reply, outcome, money, turns>>
  BY DEF Inv, Sound, Check, Goto
<1>2. counts' \in [{"calls", "errors", "rejected", "budget", "ceiling"} -> Nat]
  <2>1. \A n \in Nat : n + 1 \in Nat
    OBVIOUS
  <2>2. counts \in [{"calls", "errors", "rejected", "budget", "ceiling"} -> Nat]
    BY DEF Inv, TypeOK
  <2>3. counts' = Counted(outcome)
    BY DEF Check
  <2>4. QED BY ONLY <2>1, <2>2, <2>3, Zenon DEF Counted
<1>3. QED BY <1>1, <1>2 DEF Inv, TypeOK, money, Steps

LEMMA InvStep == Inv /\ [Next]_vars => Inv'
<1> SUFFICES ASSUME Inv, [Next]_vars PROVE Inv'
  OBVIOUS
<1>1. CASE \E f \in Finding : Take(f)
  BY <1>1, TakeStep
<1>2. CASE Rule
  BY <1>2, RuleStep
<1>3. CASE RefuseLong
  BY <1>3, RefuseStep DEF RefuseLong, Refusals
<1>4. CASE RefuseCeiling
  BY <1>4, RefuseStep DEF RefuseCeiling, Refusals
<1>5. CASE Reserve \/ Abort \/ (\E r \in Reply : Generate(r))
  BY <1>5, CallStep
<1>6. CASE Read
  BY <1>6, ReadStep
<1>7. CASE Check
  BY <1>7, CheckStep
<1>8. CASE UNCHANGED vars
  BY <1>8 DEF vars, money, Inv, TypeOK
<1>9. QED
  BY <1>1, <1>2, <1>3, <1>4, <1>5, <1>6, <1>7, <1>8 DEF Next

LEMMA Invariant == Spec => []Inv
  BY InvInit, InvStep, PTL DEF Spec

\* The types of settle.go and verdict, at every step of Decide.
THEOREM TypeCorrect == Spec => []TypeOK
<1>1. Inv => TypeOK
  BY DEF Inv
<1>2. QED BY <1>1, Invariant, PTL

\* Every record Decide returns validates and is one Worker.tla reckons with
\* (worker.go:209-239): the refusal of a refusal is never needed.
THEOREM VerdictsStand == Spec => []VerdictStands
<1>1. Inv => VerdictStands
  BY DEF Inv, VerdictStands, Sound
<1>2. QED BY <1>1, Invariant, PTL

\* No reply, whatever it says, takes a finding to the quiet path
\* (record.go:136-145).
THEOREM OnlyMappingQuiets == Spec => []QuietOnlyByMapping
<1>1. Inv => QuietOnlyByMapping
  BY DEF Inv, QuietOnlyByMapping, Sound
<1>2. QED BY <1>1, Invariant, PTL

\* Every contradiction raised rests on a control that applies (settle.go:112-121).
THEOREM ContradictionsAnchored == Spec => []ContradictionAnchored
<1>1. Inv => ContradictionAnchored
  BY DEF Inv, TypeOK, ContradictionAnchored, Sound, Record
<1>2. QED BY <1>1, Invariant, PTL

\* There are never more calls than reservations, and no call for a finding the
\* rules settle or the budget excludes (settle.go:63-83).
THEOREM CallsPaidFor == Spec => []AskedSparingly
<1>1. Inv => AskedSparingly
  BY DEF Inv, AskedSparingly, Unmatched
<1>2. QED BY <1>1, Invariant, PTL

-----------------------------------------------------------------------------
(* The counters.                                                              *)

\* A call is on its way to the counters from the reply to the last check.
Uncounted == pc = "replied" \/ (pc = "checking" /\ outcome.called)

BookInv ==
    /\ IF Uncounted
       THEN asked <= counts.calls + counts.errors + 1 /\ counts.calls + 1 <= asked
       ELSE asked <= counts.calls + counts.errors /\ counts.calls <= asked
    /\ counts.rejected <= counts.calls
    /\ outcome.refusal \in Refusals \ {"budget", "ceiling"} => outcome.called

LEMMA BookInit == Init => BookInv
  BY NoneAssumption DEF Init, BookInv, Uncounted, Uncalled

LEMMA BookStep == Inv /\ BookInv /\ [Next]_vars => BookInv'
<1> SUFFICES ASSUME Inv, BookInv, [Next]_vars PROVE BookInv'
  OBVIOUS
<1> DEFINE Fields == {"calls", "errors", "rejected", "budget", "ceiling"}
<1>1. counts \in [Fields -> Nat] /\ asked \in Nat /\ outcome.called \in BOOLEAN
  BY DEF Inv, TypeOK
<1>2. ASSUME NEW f \in Finding, Take(f) PROVE BookInv'
  BY <1>1, <1>2, NoneAssumption DEF BookInv, Uncounted, Take, money, Uncalled, Inv
<1>3. CASE Rule
  BY <1>1, <1>3 DEF BookInv, Uncounted, Rule, money, Inv
<1>4. CASE RefuseLong \/ RefuseCeiling
  BY <1>1, <1>4 DEF BookInv, Uncounted, RefuseLong, RefuseCeiling, Refuse, money, Refusals
<1>5. CASE Reserve
  BY <1>1, <1>5 DEF BookInv, Uncounted, Reserve, Goto
<1>6. ASSUME NEW r \in Reply, Generate(r) PROVE BookInv'
  BY <1>1, <1>6 DEF BookInv, Uncounted, Generate, Goto
<1>7. CASE Abort
  BY <1>1, <1>7 DEF BookInv, Uncounted, Abort
<1>8. CASE Read
  <2>1. /\ pc = "replied" /\ pc' = "checking" /\ outcome'.called
        /\ UNCHANGED <<money, counts>>
    BY <1>8 DEF Read, Refuse
  <2>2. QED BY <1>1, <2>1 DEF BookInv, Uncounted, money
<1>9. CASE Check
  <2>1. /\ pc = "checking" /\ pc' = "decided" /\ UNCHANGED <<money, outcome>>
        /\ counts' = Counted(outcome)
    BY <1>9 DEF Check, Goto
  <2>2. /\ counts'.calls = IF outcome.called THEN counts.calls + 1 ELSE counts.calls
        /\ counts'.errors = counts.errors
        /\ counts'.rejected = IF outcome.refusal \in Refusals \ {"budget", "ceiling"}
                              THEN counts.rejected + 1 ELSE counts.rejected
    BY <1>1, <2>1 DEF Counted
  <2>3. /\ counts.calls \in Nat /\ counts.errors \in Nat /\ counts.rejected \in Nat
    BY <1>1
  <2>4. outcome.refusal \in Refusals \ {"budget", "ceiling"} => outcome.called
    BY DEF BookInv
  <2>5. counts'.rejected <= counts'.calls
    BY <2>2, <2>3, <2>4 DEF BookInv
  <2>6. asked' <= counts'.calls + counts'.errors /\ counts'.calls <= asked'
    BY <1>1, <2>1, <2>2, <2>3 DEF BookInv, Uncounted, money
  <2>7. QED BY <2>1, <2>4, <2>5, <2>6 DEF BookInv, Uncounted
<1>10. CASE UNCHANGED vars
  BY <1>10 DEF vars, money, BookInv, Uncounted
<1>11. QED
  BY <1>2, <1>3, <1>4, <1>5, <1>6, <1>7, <1>8, <1>9, <1>10 DEF Next

\* No call escapes the counters, and every reply that was not taken is counted
\* as a call (counters.go:21, worker.go:251-263).
THEOREM CallsAccounted == Spec => []CallsCounted
<1>1. BookInv => CallsCounted
  BY DEF BookInv, Uncounted, CallsCounted
<1>2. QED BY <1>1, BookInit, BookStep, Invariant, PTL DEF Spec

-----------------------------------------------------------------------------
\* Whatever was billed for a reply, taken or refused, is in the record it led to,
\* and no record has a cost without one; a reply with too long an input decides
\* nothing (settle.go:86-91, 198-210).
THEOREM OverrunsShow == Spec => []OverrunsOnRecord
<1>1. Inv => OverrunsOnRecord
  BY DEF Inv, OverrunsOnRecord
<1>2. QED BY <1>1, Invariant, PTL
=============================================================================
