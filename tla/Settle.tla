-------------------------------- MODULE Settle --------------------------------
(* How one finding gets its verdict: Decide in internal/worker/worker.go, the *)
(* rules of internal/verdict, and the settler of internal/model that asks the *)
(* model and checks everything it says.  One action per call that leaves the  *)
(* process and per early return; the model may reply anything.                *)
EXTENDS Decision, Integers

CONSTANTS
    Entry,      \* ids in the compiled corpus
    Invented,   \* ids a model may cite that are not in it
    Resource,   \* SCC resource names
    Category,   \* SCC finding categories
    Mapping,    \* Mapping[<<c, r>>]: ids cited by the pairings of c with r
    AppliesTo,  \* AppliesTo[e]: resources under a prefix of e; controls only
    Model,      \* whether a settler is configured
    MaxTurns,   \* bound: findings decided
    None

ASSUME CorpusAssumption ==
    /\ Entry \cap Invented = {}
    /\ Mapping \in [Category \X Resource -> SUBSET Entry]
    /\ AppliesTo \in [Entry -> SUBSET Resource]
ASSUME SettleAssumption == Model \in BOOLEAN /\ MaxTurns \in Nat

Finding == [complete : BOOLEAN,     \* scc.Parse reported nothing missing
            category : Category,
            resource : Resource,
            affected : SUBSET Resource,
            long : BOOLEAN]         \* estimated over the input budget

Answer == [verdict : Verdicts \union {"other"},
           citations : SUBSET (Entry \union Invented),
           missing : BOOLEAN]       \* whether missing_evidence lists anything

Bills == {"within", "beyond"}       \* of the worst case its call was reserved at

Reply == [over : BOOLEAN,           \* more input tokens than MaxInputTokens
          bill : Bills,             \* input, output and thought tokens, by the prices
          tools : 0..1,
          finish : {"STOP", "MAX_TOKENS"},
          answer : Answer \union {None}]    \* None: not the schema's JSON

Refusals == {"budget", "ceiling", "invalid_output", "unresolved_citation",
             "model_accepted", "unanchored_contradiction"}

Record == [verdict : Verdicts,
           citations : SUBSET Entry,
           match : {"matched", "none"},
           missing : BOOLEAN,
           settledBy : {"rules", "model"},
           cost : Bills \union {"none"}]    \* the cost estimate of its provenance

ASSUME NoneAssumption ==
    None \notin Finding \union Reply \union Answer \union Record \union Refusals

VARIABLES
    pc,         \* where Decide stands
    finding,    \* the finding in hand
    reply,      \* what the model said about it
    record,     \* the verdict record
    outcome,    \* what the settler reports: [called, refusal]
    reserved,   \* reservations in the bucket, each the worst case of one call
    asked,      \* calls made
    counts,     \* the model's half of the counters
    turns       \* findings taken, at most MaxTurns

money == <<reserved, asked>>
vars == <<pc, finding, reply, record, outcome, money, counts, turns>>

Steps == {"idle", "ruling", "asking", "reserved", "replied", "checking", "decided"}
Uncalled == [called |-> FALSE, refusal |-> None]

Init ==
    /\ pc = "idle"
    /\ finding = None /\ reply = None /\ record = None
    /\ outcome = Uncalled
    /\ reserved = 0 /\ asked = 0
    /\ counts = [calls |-> 0, errors |-> 0, rejected |-> 0, budget |-> 0, ceiling |-> 0]
    /\ turns = 0

-----------------------------------------------------------------------------
(* internal/corpus and internal/verdict: what the rules know.                 *)

Resolve(f) == Mapping[<<f.category, f.resource>>]
Named(f) == {f.resource} \union f.affected

\* Mutant: any cited control anchors, whatever it is about.
AnchoredAnywhere(citations, f) == \E e \in citations \cap Entry : AppliesTo[e] # {}

anchored(citations, f) == \E e \in citations \cap Entry : AppliesTo[e] \cap Named(f) # {}

Insufficient(by, cost) ==
    [verdict |-> "insufficient_evidence", citations |-> {}, match |-> "none",
     missing |-> TRUE, settledBy |-> by, cost |-> cost]

\* Mutant: a pairing of the category accepts, for whatever resource.
ClassifyByCategory(f) ==
    LET cited == UNION {Mapping[<<f.category, r>>] : r \in Resource}
    IN  [verdict |-> IF cited = {} THEN "new" ELSE "accepted", citations |-> cited,
         match |-> IF cited = {} THEN "none" ELSE "matched",
         missing |-> FALSE, settledBy |-> "rules", cost |-> "none"]

Classify(f) ==
    LET cited == Resolve(f)
    IN  [verdict |-> IF cited = {} THEN "new" ELSE "accepted", citations |-> cited,
         match |-> IF cited = {} THEN "none" ELSE "matched",
         missing |-> FALSE, settledBy |-> "rules", cost |-> "none"]

\* The verdict contract, as far as a record's verdict goes: the fields baseRecord
\* fills are never blank.
Validate(r) ==
    /\ r.verdict \in Verdicts
    /\ r.verdict = "accepted" =>
           r.citations # {} /\ r.match = "matched" /\ r.settledBy # "model"
    /\ r.verdict = "contradicts_decision" => r.citations # {}
    /\ r.verdict = "new" => r.match = "none" /\ r.citations = {}
    /\ r.verdict = "insufficient_evidence" => r.missing

-----------------------------------------------------------------------------
(* Decide, and Settle from its first refusal to its last check.               *)

Goto(from, to) == pc = from /\ pc' = to

Take(f) ==
    /\ pc \in {"idle", "decided"} /\ turns < MaxTurns
    /\ pc' = "ruling"
    /\ finding' = f
    /\ reply' = None /\ record' = None /\ outcome' = Uncalled
    /\ turns' = turns + 1
    /\ UNCHANGED <<money, counts>>

\* Mutant: the model is asked about whatever the rules did not accept.
RuleOut ==
    /\ pc = "ruling"
    /\ record' = IF finding.complete THEN Classify(finding) ELSE Insufficient("rules", "none")
    /\ pc' = IF Model /\ record'.verdict # "accepted" THEN "asking" ELSE "checking"
    /\ UNCHANGED <<finding, reply, outcome, money, counts, turns>>

\* The rules run first; only a complete finding they left unmatched goes on.
Rule ==
    /\ pc = "ruling"
    /\ record' = IF finding.complete THEN Classify(finding) ELSE Insufficient("rules", "none")
    /\ pc' = IF Model /\ finding.complete /\ record'.verdict = "new"
             THEN "asking" ELSE "checking"
    /\ UNCHANGED <<finding, reply, outcome, money, counts, turns>>

\* Mutant: the reply is stamped only once it has passed the checks.
RefuseUnstamped(why, called) ==
    /\ pc' = "checking"
    /\ record' = Insufficient(IF called THEN "model" ELSE "rules", "none")
    /\ outcome' = [called |-> called, refusal |-> why]

\* A refusal, before the call or after it, when it carries what the call cost.
Refuse(why, called) ==
    /\ pc' = "checking"
    /\ record' = IF called THEN Insufficient("model", reply.bill) ELSE Insufficient("rules", "none")
    /\ outcome' = [called |-> called, refusal |-> why]

RefuseLong ==
    /\ pc = "asking" /\ finding.long
    /\ Refuse("budget", FALSE)
    /\ UNCHANGED <<finding, reply, money, counts, turns>>

\* Mutant: the reservation is written only once the model has replied.
ReserveLater ==
    /\ Goto("asking", "reserved")
    /\ ~finding.long
    /\ UNCHANGED <<finding, reply, record, outcome, money, counts, turns>>

Reserve ==
    /\ Goto("asking", "reserved")
    /\ ~finding.long
    /\ reserved' = reserved + 1
    /\ UNCHANGED <<finding, reply, record, outcome, asked, counts, turns>>

\* Spend.tla says when.
RefuseCeiling ==
    /\ pc = "asking" /\ ~finding.long
    /\ Refuse("ceiling", FALSE)
    /\ UNCHANGED <<finding, reply, money, counts, turns>>

Generate(r) ==
    /\ Goto("reserved", "replied")
    /\ reply' = r
    /\ asked' = asked + 1
    /\ UNCHANGED <<finding, record, outcome, reserved, counts, turns>>

\* The ledger cannot be read or written, or the call does not complete: no
\* verdict, and the message goes back.  A reservation may be stored all the same.
Abort ==
    /\ \/ pc = "asking" /\ ~finding.long /\ reserved' \in {reserved, reserved + 1}
          /\ UNCHANGED asked
       \/ pc = "reserved" /\ asked' = asked + 1 /\ UNCHANGED reserved
    /\ pc' = "idle"
    /\ record' = None
    /\ counts' = [counts EXCEPT !.errors = @ + 1]
    /\ UNCHANGED <<finding, reply, outcome, turns>>

\* The record an answer asks for, before it is checked.
Answered(a, cost) ==
    [verdict |-> a.verdict,
     citations |-> IF a.verdict = "contradicts_decision" THEN a.citations ELSE {},
     match |-> "none",
     missing |-> a.verdict = "insufficient_evidence" /\ a.missing,
     settledBy |-> "model",
     cost |-> cost]

\* Why an answer is not taken, None when it is.
Objection(f, a) ==
    CASE a.verdict = "accepted" -> "model_accepted"
      [] a.verdict = "new" /\ a.citations # {} -> "invalid_output"
      [] a.verdict = "contradicts_decision" /\ ~(a.citations \subseteq Entry)
            -> "unresolved_citation"
      [] /\ a.verdict = "contradicts_decision" /\ a.citations \subseteq Entry
         /\ ~anchored(a.citations, f) -> "unanchored_contradiction"
      [] OTHER -> IF Validate(Answered(a, "none")) THEN None ELSE "invalid_output"

\* Of the usage, only the input is held against a limit.
WhyNot(f, r) ==
    IF r.over THEN "budget"
    ELSE IF r.tools > 0 \/ r.finish # "STOP" \/ r.answer = None THEN "invalid_output"
    ELSE Objection(f, r.answer)

Read ==
    LET why == WhyNot(finding, reply)
    IN  /\ pc = "replied"
        /\ \/ why # None /\ Refuse(why, TRUE)
           \/ /\ why = None
              /\ pc' = "checking"
              /\ record' = Answered(reply.answer, reply.bill)
              /\ outcome' = [called |-> TRUE, refusal |-> None]
        /\ UNCHANGED <<finding, reply, money, counts, turns>>

\* Mutant: a rejected reply is not counted as a call.
CountedKept(o) ==
    [counts EXCEPT
        !.calls = IF o.called /\ o.refusal = None THEN @ + 1 ELSE @,
        !.budget = IF o.refusal = "budget" THEN @ + 1 ELSE @,
        !.ceiling = IF o.refusal = "ceiling" THEN @ + 1 ELSE @,
        !.rejected = IF o.refusal \in Refusals \ {"budget", "ceiling"} THEN @ + 1 ELSE @]

Counted(o) ==
    [counts EXCEPT
        !.calls = IF o.called THEN @ + 1 ELSE @,
        !.budget = IF o.refusal = "budget" THEN @ + 1 ELSE @,
        !.ceiling = IF o.refusal = "ceiling" THEN @ + 1 ELSE @,
        !.rejected = IF o.refusal \in Refusals \ {"budget", "ceiling"} THEN @ + 1 ELSE @]

\* A record that does not validate is refused, under the rules and unstamped.
Check ==
    /\ Goto("checking", "decided")
    /\ record' = IF Validate(record) THEN record ELSE Insufficient("rules", "none")
    /\ counts' = Counted(outcome)
    /\ UNCHANGED <<finding, reply, outcome, money, turns>>

Next ==
    \/ \E f \in Finding : Take(f)
    \/ Rule \/ RefuseLong \/ Reserve \/ RefuseCeiling
    \/ \E r \in Reply : Generate(r)
    \/ Abort \/ Read \/ Check

Spec == Init /\ [][Next]_vars

-----------------------------------------------------------------------------
(* Properties.                                                                *)

\* The variables have their types; a record exists from the ruling on.
TypeOK ==
    /\ pc \in Steps
    /\ finding \in Finding \union {None}
    /\ reply \in Reply \union {None}
    /\ record \in Record \union {None}
    /\ outcome \in [called : BOOLEAN, refusal : Refusals \union {None}]
    /\ reserved \in Nat /\ asked \in Nat
    /\ counts \in [{"calls", "errors", "rejected", "budget", "ceiling"} -> Nat]
    /\ turns \in 0..MaxTurns
    /\ pc # "idle" => finding # None
    /\ pc = "replied" => reply # None
    /\ pc \in {"checking", "decided"} => record # None

\* Every finding that gets a verdict gets one triage may act on: it is valid,
\* and it is one Worker.tla takes into account (worker.go:209-239).
VerdictStands ==
    pc = "decided" =>
        /\ Validate(record)
        /\ [verdict |-> record.verdict, settledBy |-> record.settledBy]
               \in Rulings(finding.complete, Resolve(finding) # {}, Model)

\* Accepted is the quiet path, so only the reviewed mapping takes a finding
\* there: a pairing of its category with that very resource, whatever the model
\* replies (record.go:136-145, resolve.go:3-6).
QuietOnlyByMapping ==
    pc = "decided" /\ record.verdict = "accepted" =>
        record.citations # {} /\ record.citations \subseteq Resolve(finding)

\* "A contradiction has to land on something": it stands only on entries that
\* resolve, and on one that applies to a resource the finding names
\* (settle.go:112-121).
ContradictionAnchored ==
    pc = "decided" /\ record.verdict = "contradicts_decision" =>
        /\ record.citations \subseteq Entry
        /\ \E e \in record.citations : AppliesTo[e] \cap Named(finding) # {}

\* The model is asked only about a finding that could be read, that nothing
\* prices and that fits the budget, and only with the money put aside: there
\* are never more calls than reservations (spend.go:27-28).
AskedSparingly ==
    /\ asked <= reserved
    /\ pc \in {"reserved", "replied"} =>
           Model /\ finding.complete /\ Resolve(finding) = {} /\ ~finding.long

\* "A call is money spent; an error is a call that did not complete"
\* (counters.go:21): between two findings no call has escaped the counters, and
\* every reply that was not taken is among the calls.
CallsCounted ==
    pc \in {"idle", "decided"} =>
        /\ asked <= counts.calls + counts.errors
        /\ counts.calls <= asked
        /\ counts.rejected <= counts.calls

\* "Actual spend is at most what is reserved" (spend.go:28-29) only as far as a
\* call is billed within the worst case it was reserved at.  One that is not can
\* be told from the record it led to, taken or refused, and no record claims a
\* cost that was not incurred (settle.go:86, 198-210); an input beyond the budget
\* decides nothing besides (settle.go:89).
OverrunsOnRecord ==
    pc = "decided" =>
        /\ record.cost = IF outcome.called THEN reply.bill ELSE "none"
        /\ outcome.called /\ reply.over =>
               outcome.refusal = "budget" /\ record.verdict = "insufficient_evidence"
=============================================================================
