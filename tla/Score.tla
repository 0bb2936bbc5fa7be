-------------------------------- MODULE Score --------------------------------
(* How internal/eval scores a decision against the answer written for its     *)
(* case, and what it totals.  Latencies, tokens and costs are left out.       *)
EXTENDS Decision, Integers, Sequences, FiniteSets

CONSTANT None

Kinds == {"no_coverage", "rules_control", "ambiguous", "missing_evidence", "abstain",
          "misleading", "near_miss", "contradiction"}

ErrorKinds == {"silenced", "missed_contradiction", "overconfident", "false_contradiction",
               "needless_abstention", "unsupported_citation", "call_failed", "other"}

Right(c, v) == v = c.prefer \/ v \in c.accept

\* The kind of mistake, from the one that matters most.
errorKind(c, got) ==
    IF got = "accepted" THEN "silenced"
    ELSE IF c.prefer = "contradicts_decision" /\ got # c.prefer THEN "missed_contradiction"
    ELSE IF c.prefer = "insufficient_evidence" /\ got # c.prefer THEN "overconfident"
    ELSE IF got = "contradicts_decision" THEN "false_contradiction"
    ELSE IF got = "insufficient_evidence" THEN "needless_abstention"
    ELSE "other"

Unsupported(c, r) == r.citations \ c.support

MissingRequired(c, r) ==
    c.require # None /\ r.citations # {} /\ c.require \notin r.citations

CallFailed ==
    [right |-> FALSE, preferred |-> FALSE, unsupported |-> FALSE, error |-> "call_failed"]

\* Mutant: a right verdict on the wrong evidence is noted, and still right.
JudgeLenient(c, r) ==
    LET right == Right(c, r.verdict)
    IN  IF r.error THEN CallFailed
        ELSE [right |-> right,
              preferred |-> r.verdict = c.prefer,
              unsupported |-> Unsupported(c, r) # {},
              error |-> IF ~right THEN errorKind(c, r.verdict)
                        ELSE IF Unsupported(c, r) # {} \/ MissingRequired(c, r)
                        THEN "unsupported_citation" ELSE None]

\* "A right verdict standing on the wrong evidence is not right" (score.go:74).
Judge(c, r) ==
    LET right == Right(c, r.verdict)
        stands == Unsupported(c, r) = {} /\ ~MissingRequired(c, r)
    IN  IF r.error THEN CallFailed
        ELSE [right |-> right /\ stands,
              preferred |-> r.verdict = c.prefer /\ stands,
              unsupported |-> Unsupported(c, r) # {},
              error |-> IF right /\ stands THEN None
                        ELSE IF right THEN "unsupported_citation"
                        ELSE errorKind(c, r.verdict)]

\* results[i] are the judged runs of case i.
Summarize(cases, results) ==
    LET runs == UNION {{<<i, n>> : n \in DOMAIN results[i]} : i \in DOMAIN results}
        run(x) == results[x[1]][x[2]]
        of(S) == Cardinality({x \in runs : run(x) \in S})
        all == {run(x) : x \in runs}
        mine(k) == {x \in runs : cases[x[1]].kind = k}
        said(i) == {r.verdict : r \in {results[i][n] : n \in DOMAIN results[i]}} \ {None}
    IN  [runs |-> Cardinality(runs),
         right |-> of({r \in all : r.judgement.right}),
         preferred |-> of({r \in all : r.judgement.preferred}),
         unsupported |-> of({r \in all : r.judgement.unsupported}),
         callsFailed |-> of({r \in all : r.error}),
         modelCalls |-> of({r \in all : r.called}),
         errors |-> [e \in ErrorKinds |-> of({r \in all : r.judgement.error = e})],
         byKind |-> [k \in Kinds |->
            [runs |-> Cardinality(mine(k)),
             right |-> Cardinality({x \in mine(k) : run(x).judgement.right})]],
         rightEveryRun |-> Cardinality({i \in DOMAIN results :
            results[i] # <<>> /\ \A n \in DOMAIN results[i] : results[i][n].judgement.right}),
         inconsistent |-> Cardinality({i \in DOMAIN results : Cardinality(said(i)) > 1})]
=============================================================================
