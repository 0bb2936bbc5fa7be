-------------------------------- MODULE Eval --------------------------------
(* The evaluation of cmd/triage-eval and internal/eval: cases are loaded and  *)
(* decided by the rules and with the model, the scored result is committed,   *)
(* and Check compares it with a tree that has moved on since.                 *)
EXTENDS Score, SequencesExt

CONSTANTS
    Sets,       \* what eval/<set>.json may say: sequences of cases
    Libraries,  \* what findings.json may say: bodies by name
    Locals,     \* this repository's corpus: [mapping, controls]
    Upstreams,  \* k8-lab's half: the entry each id has
    Prompts,    \* instruction and schema, compiled in
    Params,     \* model, temperature and output limits
    Repeats,    \* -repeats
    Ceiling,    \* calls that -ceiling-usd pays for at their worst case
    Start,      \* the tree before anything happens
    MaxEdits    \* bound: edits of the tree

Trees == [cases : Sets, library : Libraries, local : Locals, upstream : Upstreams,
          prompt : Prompts, params : Params]

Hollow == "{}"
Fields == {"canonicalName", "category", "resource", "eventTime"}

ASSUME EvalAssumption ==
    /\ Start \in Trees /\ None \notin Trees
    /\ None \notin ErrorKinds \union Verdicts
    /\ \A p \in Prompts, q \in Params \union {None} : <<p, q>> # None   \* no digest is absent
    /\ Repeats \in Nat \ {0} /\ Ceiling \in Nat /\ MaxEdits \in Nat
    /\ \A s \in Sets : Len(s) \in Nat /\ DOMAIN s = 1..Len(s)
    /\ \A s \in Sets : \A i \in DOMAIN s : \A p, q \in DOMAIN s[i].set :
           p # q => ~IsPrefix(p, q)     \* set has no order of its own

VARIABLES
    tree,       \* the repository and the corpus it is built with
    loaded,     \* the tree the evaluation in progress has loaded, or None
    withModel,  \* whether that one asks the model
    results,    \* its judged runs with the model, case by case
    spent,      \* calls it has reserved today
    committed,  \* the committed result, or None
    edits       \* edits so far, at most MaxEdits

evaluation == <<loaded, withModel, results, spent>>
vars == <<tree, evaluation, committed, edits>>

-----------------------------------------------------------------------------
(* A body is a function from dotted paths to what stands there.               *)

\* set replaces what stands at a path, the objects above made where there are none.
Placed(body, set) ==
    LET kept == {q \in DOMAIN body : \A p \in DOMAIN set : ~IsPrefix(p, q) /\ ~IsPrefix(q, p)}
    IN  [q \in kept \union DOMAIN set |-> IF q \in kept THEN body[q] ELSE set[q]]

\* delete leaves an object that held nothing else, empty.
Removed(body, path) ==
    LET kept == {q \in DOMAIN body : ~IsPrefix(path, q)}
        hollow == {p \in {Front(path)} \ {<<>>} : \A q \in kept : ~IsPrefix(p, q)}
    IN  [q \in kept \union hollow |-> IF q \in kept THEN body[q] ELSE Hollow]

\* A path that is not there is an error: deleting it tests nothing.
derive(body, set, del) ==
    FoldLeft(LAMBDA b, p :
                 IF b # None /\ \E q \in DOMAIN b : IsPrefix(p, q) THEN Removed(b, p) ELSE None,
             Placed(body, set), del)

Case(t, i) == t.cases[i]
Base(t, i) == t.library[Case(t, i).finding]
Body(t, i) == derive(Base(t, i), Case(t, i).set, Case(t, i).delete)

-----------------------------------------------------------------------------
(* The corpus and the digests a result carries.                               *)

Entries(t) == DOMAIN t.local.controls \union DOMAIN t.upstream
Shown(t) == [e \in Entries(t) |->
    IF e \in DOMAIN t.local.controls THEN t.local.controls[e] ELSE t.upstream[e]]

\* What the reviewed pairings of its category and resource cite.
Resolve(t, b) ==
    UNION {p.cites : p \in {p \in t.local.mapping :
        p.category = b[<<"category">>] /\ p.resource = b[<<"resource">>]}}

\* Mutant: the digest is of the cases alone, not of the findings they draw on.
SetDigestOfCases(t) == <<t.cases, {}>>

\* Mutant: the digest is of the whole library.
SetDigestOfAll(t) == <<t.cases, t.library>>

\* "The digest covers the cases and the bodies they use" (case.go:110).
SetDigest(t) ==
    <<t.cases, [f \in {Case(t, i).finding : i \in DOMAIN t.cases} |-> t.library[f]]>>

PromptDigest(prompt, params) == <<prompt, params>>

\* Mutant: the digest is of the controls alone.
LocalDigestOfControls(t) == t.local.controls

LocalDigest(t) == t.local
UpstreamDigest(t) == t.upstream

\* What the model is sent about case i.
BuildPrompt(t, i) ==
    LET b == Body(t, i)
    IN  [system |-> t.prompt, corpus |-> Shown(t),
         finding |-> [p \in DOMAIN b \ {<<"canonicalName">>} |-> b[p]]]

\* A corpus that loads, and a set whose cases it can hold against it.
CorpusValid(t) == \A p \in t.local.mapping : p.cites # {} /\ p.cites \subseteq Entries(t)

LoadSet(t) ==
    \A i \in DOMAIN t.cases : Case(t, i).finding \in DOMAIN t.library /\ Body(t, i) # None

Validate(t) ==
    \A i \in DOMAIN t.cases :
        LET c == Case(t, i)
        IN  /\ \A j \in DOMAIN t.cases : Case(t, j).name = c.name => i = j
            /\ c.kind \in Kinds /\ {c.prefer} \union c.accept \subseteq Verdicts
            /\ c.origin = "real" => DOMAIN c.set = {} /\ c.delete = <<>>
            /\ c.prefer \in {"accepted", "contradicts_decision"} => c.support # {}
            /\ c.support \subseteq Entries(t)
            /\ c.require # None => c.require \in c.support

Loadable(t) == CorpusValid(t) /\ LoadSet(t) /\ Validate(t)

-----------------------------------------------------------------------------
(* decideOne: the same Decide the worker calls, vulnerabilities included.     *)

Readable(b) == <<"canonicalName">> \in DOMAIN b
Complete(b) == \A f \in Fields : <<f>> \in DOMAIN b
Matched(t, b) == Complete(b) /\ Resolve(t, b) # {}
Asks(t, b) == Complete(b) /\ ~Matched(t, b)

Failed == [error |-> TRUE, verdict |-> None, citations |-> {}, called |-> FALSE]

Cited(t, b, verdict) ==
    CASE verdict = "accepted" -> {Resolve(t, b)}
      [] verdict = "contradicts_decision" ->
            {s \in SUBSET Entries(t) : s \intersect DOMAIN t.local.controls # {}}
      [] OTHER -> {{}}

\* The runs decideOne may return for a body it can read.
Decided(t, b, model) ==
    UNION {{[error |-> FALSE, verdict |-> r.verdict, citations |-> s,
             called |-> r.settledBy = "model"] : s \in Cited(t, b, r.verdict)} :
        r \in Rulings(Complete(b), Matched(t, b), model)}

Judged(c, r) ==
    [error |-> r.error, verdict |-> r.verdict, called |-> r.called, judgement |-> Judge(c, r)]

RulesRun(t, i) ==
    LET b == Body(t, i) IN IF Readable(b) THEN CHOOSE r \in Decided(t, b, FALSE) : TRUE ELSE Failed

\* decideAll without a settler, once for each case.
Rules(t) == [i \in DOMAIN t.cases |-> <<Judged(Case(t, i), RulesRun(t, i))>>]

-----------------------------------------------------------------------------
Init ==
    /\ tree = Start
    /\ loaded = None /\ withModel = FALSE /\ results = <<>> /\ spent = 0
    /\ committed = None
    /\ edits = 0

\* Somebody edits one part of the tree, whatever is under way.
Edit ==
    /\ edits < MaxEdits /\ edits' = edits + 1
    /\ \/ \E v \in Sets : tree' = [tree EXCEPT !.cases = v]
       \/ \E v \in Libraries : tree' = [tree EXCEPT !.library = v]
       \/ \E v \in Locals : tree' = [tree EXCEPT !.local = v]
       \/ \E v \in Upstreams : tree' = [tree EXCEPT !.upstream = v]
       \/ \E v \in Prompts : tree' = [tree EXCEPT !.prompt = v]
       \/ \E v \in Params : tree' = [tree EXCEPT !.params = v]
    /\ tree' # tree
    /\ UNCHANGED <<evaluation, committed>>

\* Nothing is decided before the corpus, the cases and the answers are valid.  One
\* evaluation is enough: the next would find what the first one did.
Load(model) ==
    /\ loaded = None /\ committed = None /\ Loadable(tree)
    /\ loaded' = tree
    /\ withModel' = model
    /\ results' = [i \in DOMAIN tree.cases |-> <<>>]
    /\ spent' = 0
    /\ UNCHANGED <<tree, committed, edits>>

\* decideAll goes through the cases in order, each Repeats times.
Due(i) ==
    /\ Len(results[i]) < Repeats
    /\ \A j \in 1..i - 1 : Len(results[j]) = Repeats

Append1(i, r) ==
    results' = [results EXCEPT ![i] = Append(@, Judged(Case(loaded, i), r))]

\* A body the worker would refuse is an error, and nothing rules on it.
Unreadable(i) ==
    /\ Due(i) /\ ~Readable(Body(loaded, i))
    /\ Append1(i, Failed)
    /\ UNCHANGED spent

\* The rules settle it, or the settler refuses to ask: the estimate is over the
\* budget, or the ceiling is reached.
Uncalled(i) ==
    LET b == Body(loaded, i)
    IN  /\ Due(i) /\ Readable(b)
        /\ \E r \in Decided(loaded, b, TRUE) : ~r.called /\ Append1(i, r)
        /\ UNCHANGED spent

\* Spend.Reserve over the store in memory: one object for each call.
Reserve == spent < Ceiling /\ spent' = spent + 1

\* The reservation is made, and the call answered or not.
Called(i) ==
    LET b == Body(loaded, i)
    IN  /\ Due(i) /\ Readable(b) /\ Asks(loaded, b)
        /\ Reserve
        /\ \E r \in Decided(loaded, b, TRUE) \union {Failed} :
               (r.called \/ r.error) /\ Append1(i, r)

\* The reservations are counted by UTC day.
Midnight ==
    /\ loaded # None /\ spent > 0
    /\ spent' = 0
    /\ UNCHANGED <<tree, loaded, withModel, results, committed, edits>>

DecideOne ==
    /\ loaded # None /\ withModel
    /\ \E i \in DOMAIN results : Unreadable(i) \/ Uncalled(i) \/ Called(i)
    /\ UNCHANGED <<tree, loaded, withModel, committed, edits>>

\* Without a model the header has no parameters and no prompt digest.
Header(t, model) ==
    [set |-> SetDigest(t), local |-> LocalDigest(t), upstream |-> UpstreamDigest(t),
     params |-> IF model THEN t.params ELSE None,
     prompt |-> IF model THEN PromptDigest(t.prompt, t.params) ELSE None]

\* The result is scored, written and committed; of is the tree it came from.
Finish ==
    /\ loaded # None
    /\ withModel => \A i \in DOMAIN results : Len(results[i]) = Repeats
    /\ committed' = [header |-> Header(loaded, withModel), rules |-> Rules(loaded),
                     model |-> IF withModel THEN results ELSE <<>>, of |-> loaded]
    /\ loaded' = None /\ withModel' = FALSE /\ results' = <<>> /\ spent' = 0
    /\ UNCHANGED <<tree, edits>>

Next == Edit \/ (\E model \in BOOLEAN : Load(model)) \/ DecideOne \/ Midnight \/ Finish

Spec == Init /\ [][Next]_vars

-----------------------------------------------------------------------------
(* Check.                                                                     *)

\* The parts Check finds stale: the prompt is digested with the result's own
\* parameters.
Stale(h, t) ==
    {p \in {"cases", "prompt", "local"} :
        \/ p = "cases" /\ h.set # SetDigest(t)
        \/ p = "prompt" /\ h.prompt # PromptDigest(t.prompt, h.params)
        \/ p = "local" /\ h.local # LocalDigest(t)}

Warns(h, t) == h.upstream # UpstreamDigest(t)

\* The job of CI: the tree loads, and its result is not stale.
Passes(t) == committed # None /\ Loadable(t) /\ Stale(committed.header, t) = {}

-----------------------------------------------------------------------------
(* Properties.                                                                *)

\* A result that is not stale and draws no warning describes this tree: every
\* case would be sent to the model as it was, and scored by the same answer
\* (results.go:15-16).
FreshMeansSameQuestions ==
    Passes(tree) /\ ~Warns(committed.header, tree) =>
        \A i \in DOMAIN tree.cases :
            /\ BuildPrompt(tree, i) = BuildPrompt(committed.of, i)
            /\ \A r \in Decided(tree, Body(tree, i), TRUE) \union {Failed} :
                   Judge(Case(tree, i), r) = Judge(Case(committed.of, i), r)

\* That k8-lab's half only warns costs the rules nothing: their half of a
\* result that is not stale is what CI would score today (results.go:94-96).
RulesReproduced == Passes(tree) => committed.rules = Rules(tree)

\* A finding no case draws on, and k8-lab's half, make nothing stale
\* (case.go:110-111).
OthersStayOut ==
    [][(/\ committed # None /\ committed' = committed
        /\ [tree EXCEPT !.library = {}, !.upstream = {}]
               = [tree' EXCEPT !.library = {}, !.upstream = {}]
        /\ \A i \in DOMAIN tree.cases : Base(tree, i) = Base(tree', i))
           => Stale(committed.header, tree') = Stale(committed.header, tree)]_vars

\* The numbers add up: every run is right or one kind of mistake, and belongs to
\* one kind of case, and none that cites what its case does not support is right.
EveryRunCounted ==
    committed # None => \A runs \in {committed.rules, committed.model} :
        LET s == Summarize(committed.of.cases, runs)
            total(f) == Cardinality(UNION {{k} \X (1..f[k]) : k \in DOMAIN f})
        IN  /\ s.right + total(s.errors) = s.runs
            /\ total([k \in Kinds |-> s.byKind[k].runs]) = s.runs
            /\ total([k \in Kinds |-> s.byKind[k].right]) = s.right
            /\ s.callsFailed = s.errors["call_failed"] /\ s.preferred <= s.right
            /\ s.right + s.unsupported <= s.runs

\* The model silences nothing and unsettles nothing the rules accept: a run with it
\* accepts a case exactly when the rules alone do, whatever the case would have
\* accepted, and then it is the same run, which asked nobody (README.md:16-18).
ModelSilencesNothing ==
    committed # None => \A i \in DOMAIN committed.model : \A n \in DOMAIN committed.model[i] :
        LET run == committed.model[i][n]
            alone == committed.rules[i][1]
        IN  "accepted" \in {run.verdict, alone.verdict} => run = alone /\ ~run.called

\* CI "fails when a committed result is stale: when the instruction, the schema,
\* the parameters, ... moved since it ran" (README.md:168-169).
MovedParametersNoticed ==
    Passes(tree) /\ committed.model # <<>> => tree.params = committed.of.params
=============================================================================
