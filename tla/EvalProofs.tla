----------------------------- MODULE EvalProofs -----------------------------
(* Theorems about Eval, for any cases, corpora, edits and number of repeats:  *)
(* what a result that passes the check says about the tree, and what the      *)
(* model can and cannot change in it.                                         *)
EXTENDS Eval, TLAPS, FiniteSetTheorems, FunctionTheorems

-----------------------------------------------------------------------------
(* What is gathered and committed.                                            *)

\* What decideOne may return on case i of t with a settler: nothing rules on a
\* body it cannot read, and a call fails only where one is made.
Possible(t, i) ==
    LET b == Body(t, i)
    IN  IF Readable(b)
        THEN Decided(t, b, TRUE) \union {r \in {Failed} : Asks(t, b)}
        ELSE {Failed}

Answers(t, i) == {Judged(Case(t, i), r) : r \in Possible(t, i)}

\* Every run gathered is an answer to its case.
Gathered(t, rs) == \A i \in DOMAIN rs : i \in DOMAIN t.cases /\ rs[i] \in Seq(Answers(t, i))

\* A committed result carries the header and the rules' half of its own tree,
\* which was a valid one.
Stamped(c, m) ==
    /\ c.of \in Trees /\ Validate(c.of)
    /\ c.header = Header(c.of, m)
    /\ c.rules = Rules(c.of)
    /\ Gathered(c.of, c.model)
    /\ c.model # <<>> => m

Inv ==
    /\ tree \in Trees
    /\ loaded \in Trees \union {None}
    /\ withModel \in BOOLEAN
    /\ loaded # None => Validate(loaded) /\ Gathered(loaded, results)
    /\ committed # None => \E m \in BOOLEAN : Stamped(committed, m)

LEMMA EditKeepsTree == ASSUME tree \in Trees, Edit PROVE tree' \in Trees
BY DEF Edit, Trees

LEMMA InvInit == Init => Inv
BY EvalAssumption DEF Init, Inv

\* One more run of case i.
LEMMA Appended ==
    ASSUME NEW i \in DOMAIN results, NEW r \in Possible(loaded, i),
           Gathered(loaded, results), Append1(i, r)
    PROVE  Gathered(loaded, results')
<1>1. results[i] \in Seq(Answers(loaded, i)) /\ Judged(Case(loaded, i), r) \in Answers(loaded, i)
  BY DEF Gathered, Answers
<1>2. Append(results[i], Judged(Case(loaded, i), r)) \in Seq(Answers(loaded, i))
  BY <1>1
<1>3. QED BY <1>2 DEF Append1, Gathered

LEMMA Decides == ASSUME Inv, DecideOne PROVE Gathered(loaded', results')
<1>1. PICK i \in DOMAIN results : Unreadable(i) \/ Uncalled(i) \/ Called(i)
  BY DEF DecideOne
<1>2. loaded' = loaded /\ Gathered(loaded, results)
  BY DEF DecideOne, Inv
<1>3. CASE Unreadable(i)
  <2>1. Failed \in Possible(loaded, i)
    BY <1>3 DEF Unreadable, Possible
  <2>2. Append1(i, Failed)
    BY <1>3 DEF Unreadable
  <2>3. QED BY <1>2, <2>1, <2>2, Appended
<1>4. CASE Uncalled(i)
  <2>1. PICK r \in Decided(loaded, Body(loaded, i), TRUE) : Append1(i, r)
    BY <1>4 DEF Uncalled
  <2>2. r \in Possible(loaded, i)
    BY <1>4, <2>1 DEF Uncalled, Possible
  <2>3. QED BY <1>2, <2>1, <2>2, Appended
<1>5. CASE Called(i)
  <2>1. PICK r \in Decided(loaded, Body(loaded, i), TRUE) \union {Failed} : Append1(i, r)
    BY <1>5 DEF Called
  <2>2. r \in Possible(loaded, i)
    BY <1>5, <2>1 DEF Called, Possible
  <2>3. QED BY <1>2, <2>1, <2>2, Appended
<1>6. QED BY <1>1, <1>3, <1>4, <1>5

LEMMA Commits == ASSUME Inv, Finish PROVE \E m \in BOOLEAN : Stamped(committed', m)
<1>1. loaded \in Trees /\ Validate(loaded) /\ Gathered(loaded, results) /\ withModel \in BOOLEAN
  BY DEF Finish, Inv
<1>2. Gathered(loaded, IF withModel THEN results ELSE <<>>)
  BY <1>1 DEF Gathered
<1>3. Stamped(committed', withModel)
  BY <1>1, <1>2 DEF Finish, Stamped
<1>4. QED BY <1>1, <1>3

LEMMA InvNext == Inv /\ [Next]_vars => Inv'
<1> SUFFICES ASSUME Inv, [Next]_vars PROVE Inv'
  OBVIOUS
<1>1. CASE Edit
  BY <1>1, EditKeepsTree DEF Edit, Inv, evaluation
<1>2. ASSUME NEW m \in BOOLEAN, Load(m) PROVE Inv'
  <2>1. results' \in [DOMAIN tree.cases -> {<<>>}]
    BY <1>2 DEF Load
  <2>2. Gathered(loaded', results')
    BY <1>2, <2>1 DEF Load, Gathered
  <2>3. QED BY <1>2, <2>2, EvalAssumption DEF Load, Loadable, Inv
<1>3. CASE DecideOne
  BY <1>3, Decides DEF DecideOne, Inv, Validate, Case, Entries
<1>4. CASE Midnight
  BY <1>4 DEF Midnight, Inv
<1>5. CASE Finish
  BY <1>5, Commits DEF Finish, Inv
<1>6. CASE UNCHANGED vars
  BY <1>6 DEF vars, evaluation, Inv
<1>7. QED BY <1>1, <1>2, <1>3, <1>4, <1>5, <1>6 DEF Next

LEMMA AlwaysInv == Spec => []Inv
BY InvInit, InvNext, PTL DEF Spec

-----------------------------------------------------------------------------
(* Two trees that agree where the digests look.                               *)

\* The digest of a set fixes its cases and every body they are derived from.
LEMMA DigestFixesBodies ==
    ASSUME NEW s, NEW t, SetDigest(s) = SetDigest(t), NEW i \in DOMAIN s.cases
    PROVE  s.cases = t.cases /\ Body(s, i) = Body(t, i)
<1>1. s.cases = t.cases
  BY DEF SetDigest
<1> DEFINE F == {Case(s, j).finding : j \in DOMAIN s.cases}
<1>2. F = {Case(t, j).finding : j \in DOMAIN t.cases}
  BY <1>1 DEF Case
<1>3. [f \in F |-> s.library[f]] = [f \in F |-> t.library[f]]
  BY <1>2 DEF SetDigest
<1>4. Case(s, i).finding \in F
  OBVIOUS
<1>5. s.library[Case(s, i).finding] = t.library[Case(s, i).finding]
  BY <1>3, <1>4
<1>6. QED BY <1>1, <1>5 DEF Body, Base, Case

\* What resolves depends on this repository's half alone.
LEMMA LocalFixesRules ==
    ASSUME NEW s, NEW t, s.local = t.local, NEW b
    PROVE  Decided(s, b, FALSE) = Decided(t, b, FALSE)
<1>1. Resolve(s, b) = Resolve(t, b)
  BY DEF Resolve
<1>2. Matched(s, b) = Matched(t, b)
  BY <1>1 DEF Matched
<1>3. \A r \in Rulings(Complete(b), Matched(s, b), FALSE) :
        Cited(s, b, r.verdict) = Cited(t, b, r.verdict)
  BY <1>1 DEF Rulings, Cited
<1> DEFINE R == Rulings(Complete(b), Matched(s, b), FALSE)
           Runs(u, r) == {[error |-> FALSE, verdict |-> r.verdict, citations |-> c,
                           called |-> r.settledBy = "model"] : c \in Cited(u, b, r.verdict)}
<1>4. \A r \in R : Runs(s, r) = Runs(t, r)
  BY <1>3
<1>5. Decided(s, b, FALSE) = UNION {Runs(s, r) : r \in R}
  BY DEF Decided
<1>6. Decided(t, b, FALSE) = UNION {Runs(t, r) : r \in R}
  BY <1>2 DEF Decided
<1> HIDE DEF R, Runs
<1>7. {Runs(s, r) : r \in R} = {Runs(t, r) : r \in R}
  BY <1>4
<1>8. QED BY <1>5, <1>6, <1>7

LEMMA SameChoice ==
    ASSUME NEW S, NEW T, S = T PROVE (CHOOSE r \in S : TRUE) = (CHOOSE r \in T : TRUE)
OBVIOUS

LEMMA SameRules ==
    ASSUME NEW s, NEW t, SetDigest(s) = SetDigest(t), LocalDigest(s) = LocalDigest(t)
    PROVE  Rules(s) = Rules(t)
<1>1. s.cases = t.cases /\ s.local = t.local
  BY DEF SetDigest, LocalDigest
<1>2. ASSUME NEW i \in DOMAIN s.cases PROVE RulesRun(s, i) = RulesRun(t, i)
  <2>1. Body(s, i) = Body(t, i)
    BY <1>2, DigestFixesBodies
  <2>2. Decided(s, Body(s, i), FALSE) = Decided(t, Body(t, i), FALSE)
    BY <1>1, <2>1, LocalFixesRules
  <2> DEFINE Chosen(u) == CHOOSE r \in Decided(u, Body(u, i), FALSE) : TRUE
  <2>3. /\ RulesRun(s, i) = IF Readable(Body(s, i)) THEN Chosen(s) ELSE Failed
        /\ RulesRun(t, i) = IF Readable(Body(t, i)) THEN Chosen(t) ELSE Failed
    BY DEF RulesRun
  <2>4. Chosen(s) = Chosen(t)
    BY <2>2, SameChoice
  <2> HIDE DEF Chosen
  <2>5. QED BY <2>1, <2>3, <2>4
<1>3. QED BY <1>1, <1>2 DEF Rules, Case

\* The rules' half of a result that is not stale is what they say today, whatever
\* happened to k8-lab's half and to findings no case draws on.
THEOREM RulesHalfStands == Spec => []RulesReproduced
<1>1. Inv => RulesReproduced
  <2> SUFFICES ASSUME Inv, Passes(tree) PROVE committed.rules = Rules(tree)
    BY DEF RulesReproduced
  <2>1. PICK m \in BOOLEAN : Stamped(committed, m)
    BY DEF Inv, Passes
  <2>2. SetDigest(committed.of) = SetDigest(tree) /\ LocalDigest(committed.of) = LocalDigest(tree)
    BY <2>1 DEF Passes, Stale, Stamped, Header
  <2>3. QED BY <2>1, <2>2, SameRules DEF Stamped
<1>2. QED BY <1>1, AlwaysInv, PTL

\* A result that is not stale and draws no warning is of these cases, this corpus
\* and this prompt: what the model was sent is what it would be sent now.
THEOREM FreshStands == Spec => []FreshMeansSameQuestions
<1>1. Inv => FreshMeansSameQuestions
  <2> SUFFICES ASSUME Inv, Passes(tree), ~Warns(committed.header, tree),
                      NEW i \in DOMAIN tree.cases
               PROVE  /\ BuildPrompt(tree, i) = BuildPrompt(committed.of, i)
                      /\ Case(tree, i) = Case(committed.of, i)
    BY DEF FreshMeansSameQuestions
  <2> DEFINE c == committed.of
  <2>1. PICK m \in BOOLEAN : Stamped(committed, m)
    BY DEF Inv, Passes
  <2>2. c \in Trees /\ tree \in Trees
    BY <2>1 DEF Stamped, Inv
  <2>3. /\ SetDigest(c) = SetDigest(tree) /\ LocalDigest(c) = LocalDigest(tree)
        /\ UpstreamDigest(c) = UpstreamDigest(tree)
    BY <2>1 DEF Passes, Stale, Warns, Stamped, Header
  <2>4. c.cases = tree.cases /\ Body(c, i) = Body(tree, i)
    BY <2>3, DigestFixesBodies
  <2>5. Shown(c) = Shown(tree)
    BY <2>3 DEF LocalDigest, UpstreamDigest, Shown, Entries
  <2>6. c.prompt = tree.prompt
    <3>1. Header(c, m).prompt = PromptDigest(tree.prompt, Header(c, m).params)
      BY <2>1 DEF Passes, Stale, Stamped
    <3>2. CASE m
      BY <3>1, <3>2 DEF Header, PromptDigest
    <3>3. CASE ~m
      <4>1. <<tree.prompt, None>> = None
        BY <3>1, <3>3 DEF Header, PromptDigest
      <4>2. QED BY <2>2, <4>1, EvalAssumption DEF Trees
    <3>4. QED BY <3>2, <3>3
  <2>7. QED BY <2>4, <2>5, <2>6 DEF BuildPrompt, Case
<1>2. QED BY <1>1, AlwaysInv, PTL

\* An edit of a finding no case draws on, or of k8-lab's half, leaves what was
\* stale stale and what was not, not.
THEOREM OthersStand == Spec => OthersStayOut
<1>1. ASSUME Inv, Inv', NEW h,
             [tree EXCEPT !.library = {}, !.upstream = {}]
                 = [tree' EXCEPT !.library = {}, !.upstream = {}],
             \A i \in DOMAIN tree.cases : Base(tree, i) = Base(tree', i)
      PROVE  Stale(h, tree') = Stale(h, tree)
  <2>1. /\ tree.cases = tree'.cases /\ tree.local = tree'.local
        /\ tree.prompt = tree'.prompt
    BY <1>1 DEF Inv, Trees
  <2>2. SetDigest(tree) = SetDigest(tree')
    BY <1>1, <2>1 DEF SetDigest, Base, Case
  <2>3. QED BY <2>1, <2>2 DEF Stale, LocalDigest
<1> DEFINE Same == (/\ committed # None /\ committed' = committed
                    /\ [tree EXCEPT !.library = {}, !.upstream = {}]
                           = [tree' EXCEPT !.library = {}, !.upstream = {}]
                    /\ \A i \in DOMAIN tree.cases : Base(tree, i) = Base(tree', i))
                       => Stale(committed.header, tree') = Stale(committed.header, tree)
<1>2. Inv /\ Inv' => Same
  <2> SUFFICES ASSUME Inv, Inv', committed' = committed,
                      [tree EXCEPT !.library = {}, !.upstream = {}]
                          = [tree' EXCEPT !.library = {}, !.upstream = {}],
                      \A i \in DOMAIN tree.cases : Base(tree, i) = Base(tree', i)
               PROVE  Stale(committed.header, tree') = Stale(committed.header, tree)
    OBVIOUS
  <2>1. QED BY <1>1
<1>3. QED BY <1>2, AlwaysInv, PTL DEF OthersStayOut

-----------------------------------------------------------------------------
(* What the model can change.                                                 *)

\* What the rules say of a body they match, with no call and no choice.
AcceptedRun(t, b) ==
    [error |-> FALSE, verdict |-> "accepted", citations |-> Resolve(t, b), called |-> FALSE]

\* Accepted is the rules' answer to a matched body, and nobody else's.
LEMMA AcceptedIsMatched ==
    ASSUME NEW t, NEW b, NEW model \in BOOLEAN, NEW r \in Decided(t, b, model)
    PROVE  /\ r.verdict = "accepted" <=> Matched(t, b)
           /\ r.verdict = "accepted" => r = AcceptedRun(t, b)
<1>1. PICK u \in Rulings(Complete(b), Matched(t, b), model) :
          \E s \in Cited(t, b, u.verdict) :
              r = [error |-> FALSE, verdict |-> u.verdict, citations |-> s,
                   called |-> u.settledBy = "model"]
  BY DEF Decided
<1>2. PICK s \in Cited(t, b, u.verdict) :
          r = [error |-> FALSE, verdict |-> u.verdict, citations |-> s,
               called |-> u.settledBy = "model"]
  BY <1>1
<1>3. /\ u.verdict = "accepted" <=> Matched(t, b)
      /\ u.verdict = "accepted" => u.settledBy = "rules"
  BY DEF Rulings, Verdicts, Matched
<1>4. u.verdict = "accepted" => s = Resolve(t, b)
  BY DEF Cited
<1>5. QED BY <1>2, <1>3, <1>4 DEF AcceptedRun

\* The rules always rule.
LEMMA RulesRule == ASSUME NEW t, NEW b PROVE Decided(t, b, FALSE) # {}
<1> DEFINE r == [verdict |-> IF ~Complete(b) THEN "insufficient_evidence"
                            ELSE IF Matched(t, b) THEN "accepted" ELSE "new",
                 settledBy |-> "rules"]
<1>1. r \in Rulings(Complete(b), Matched(t, b), FALSE)
  BY DEF Rulings, Verdicts, Matched
<1>2. PICK c \in Cited(t, b, r.verdict) : TRUE
  <2>1. r.verdict \in {"insufficient_evidence", "accepted", "new"}
    OBVIOUS
  <2>2. QED BY <2>1 DEF Cited
<1> HIDE DEF r
<1>3. c \in Cited(t, b, r.verdict)
  BY <1>2
<1> DEFINE Runs(x) == {[error |-> FALSE, verdict |-> x.verdict, citations |-> s,
                        called |-> x.settledBy = "model"] : s \in Cited(t, b, x.verdict)}
<1>4. Runs(r) # {}
  BY <1>3
<1>5. Decided(t, b, FALSE) = UNION {Runs(x) : x \in Rulings(Complete(b), Matched(t, b), FALSE)}
  BY DEF Decided
<1> HIDE DEF Runs
<1>6. QED BY <1>1, <1>4, <1>5

\* The rules accept the bodies they match.
LEMMA RulesAccept ==
    ASSUME NEW t, NEW i
    PROVE  /\ RulesRun(t, i).verdict = "accepted"
                  <=> Readable(Body(t, i)) /\ Matched(t, Body(t, i))
           /\ RulesRun(t, i).verdict = "accepted" => RulesRun(t, i) = AcceptedRun(t, Body(t, i))
<1> DEFINE b == Body(t, i)
           r == CHOOSE x \in Decided(t, b, FALSE) : TRUE
<1>1. r \in Decided(t, b, FALSE)
  BY RulesRule
<1>2. /\ r.verdict = "accepted" <=> Matched(t, b)
      /\ r.verdict = "accepted" => r = AcceptedRun(t, b)
  BY <1>1, AcceptedIsMatched
<1>3. RulesRun(t, i) = IF Readable(b) THEN r ELSE Failed
  BY DEF RulesRun
<1> HIDE DEF r
<1>4. CASE Readable(b)
  BY <1>2, <1>3, <1>4
<1>5. CASE ~Readable(b)
  BY <1>3, <1>5, EvalAssumption DEF Failed, Verdicts
<1>6. QED BY <1>4, <1>5

\* With the model too: it is asked only about what they do not match.
LEMMA ModelAccepts ==
    ASSUME NEW t, NEW i, NEW r \in Possible(t, i)
    PROVE  /\ r.verdict = "accepted" <=> Readable(Body(t, i)) /\ Matched(t, Body(t, i))
           /\ r.verdict = "accepted" => r = AcceptedRun(t, Body(t, i))
<1> DEFINE b == Body(t, i)
<1>1. CASE Readable(b) /\ r \in Decided(t, b, TRUE)
  BY <1>1, AcceptedIsMatched
<1>2. CASE r = Failed /\ (Readable(b) => Asks(t, b))
  BY <1>2, EvalAssumption DEF Failed, Asks, Verdicts
<1>3. QED BY <1>1, <1>2 DEF Possible

\* A case is accepted with the model exactly when it is by the rules alone, in every
\* run of it, and those runs are the rules' own.
THEOREM NothingSilenced == Spec => []ModelSilencesNothing
<1>1. Inv => ModelSilencesNothing
  <2> DEFINE t == committed.of
  <2> SUFFICES ASSUME Inv, committed # None, NEW i \in DOMAIN committed.model,
                      NEW n \in DOMAIN committed.model[i],
                      "accepted" \in {committed.model[i][n].verdict,
                                      committed.rules[i][1].verdict}
               PROVE  /\ committed.model[i][n] = committed.rules[i][1]
                      /\ ~committed.model[i][n].called
    BY DEF ModelSilencesNothing
  <2>1. PICK m \in BOOLEAN : Stamped(committed, m)
    BY DEF Inv
  <2>2. i \in DOMAIN t.cases /\ committed.model[i] \in Seq(Answers(t, i))
    BY <2>1 DEF Stamped, Gathered
  <2>3. committed.model[i][n] \in Answers(t, i)
    BY <2>2
  <2>4. PICK r \in Possible(t, i) : committed.model[i][n] = Judged(Case(t, i), r)
    BY <2>3 DEF Answers
  <2>5. committed.rules[i][1] = Judged(Case(t, i), RulesRun(t, i))
    BY <2>1, <2>2 DEF Stamped, Rules
  <2>6. "accepted" \in {r.verdict, RulesRun(t, i).verdict}
    BY <2>4, <2>5 DEF Judged
  <2> HIDE DEF t
  <2>7. r = AcceptedRun(t, Body(t, i)) /\ RulesRun(t, i) = AcceptedRun(t, Body(t, i))
    BY <2>6, RulesAccept, ModelAccepts
  <2>8. ~committed.model[i][n].called
    BY <2>4, <2>7 DEF Judged, AcceptedRun
  <2>9. QED BY <2>4, <2>5, <2>7, <2>8
<1>2. QED BY <1>1, AlwaysInv, PTL

-----------------------------------------------------------------------------
(* The totals.                                                                *)

\* As many as f counts together: what EveryRunCounted adds up.
Total(f) == Cardinality(UNION {{k} \X (1..f[k]) : k \in DOMAIN f})

\* Sets apart, counted one by one, are counted together: the pairs of a set's
\* name and a number up to its size are as many as there are elements.
LEMMA Tally ==
    ASSUME NEW X, IsFiniteSet(X), NEW count, NEW part,
           \A k \in DOMAIN count : part[k] \subseteq X /\ count[k] = Cardinality(part[k]),
           \A x \in X : \E k \in DOMAIN count : x \in part[k],
           \A k, l \in DOMAIN count : k # l => part[k] \intersect part[l] = {}
    PROVE  Total(count) = Cardinality(X)
<1> DEFINE I == DOMAIN count
           D == UNION {{k} \X (1..count[k]) : k \in I}
           G == [k \in I |-> CHOOSE g : g \in Bijection(1..count[k], part[k])]
           F == [p \in D |-> G[p[1]][p[2]]]
<1>1. ASSUME NEW k \in I
      PROVE  /\ G[k] \in [1..count[k] -> part[k]]
             /\ \A a, b \in 1..count[k] : G[k][a] = G[k][b] => a = b
             /\ \A y \in part[k] : \E a \in 1..count[k] : G[k][a] = y
  <2>1. part[k] \subseteq X /\ count[k] = Cardinality(part[k])
    OBVIOUS
  <2>2. IsFiniteSet(part[k])
    BY <2>1, FS_Subset
  <2>3. ExistsBijection(1..count[k], part[k])
    BY <2>1, <2>2, FS_CardinalityType
  <2>4. \E g : g \in Bijection(1..count[k], part[k])
    BY <2>3 DEF ExistsBijection
  <2>5. (CHOOSE g : g \in Bijection(1..count[k], part[k])) \in Bijection(1..count[k], part[k])
    BY <2>4
  <2>6. G[k] = CHOOSE g : g \in Bijection(1..count[k], part[k])
    OBVIOUS
  <2>7. G[k] \in Bijection(1..count[k], part[k])
    BY <2>5, <2>6
  <2>8. G[k] \in [1..count[k] -> part[k]] /\ DOMAIN G[k] = 1..count[k]
    BY <2>7 DEF Bijection, Injection, Surjection
  <2>9. QED BY <2>7, <2>8 DEF Bijection, Injection, Surjection, IsInjective
<1> HIDE DEF G
<1>2. ASSUME NEW p \in D
      PROVE  p[1] \in I /\ p[2] \in 1..count[p[1]] /\ p = <<p[1], p[2]>>
  OBVIOUS
<1>3. ASSUME NEW k \in I, NEW a \in 1..count[k]
      PROVE  <<k, a>> \in D /\ F[<<k, a>>] = G[k][a]
  OBVIOUS
<1>4. \A p \in D : F[p] = G[p[1]][p[2]]
  OBVIOUS
<1>p. ASSUME NEW k \in I, NEW a \in 1..count[k] PROVE G[k][a] \in part[k] /\ G[k][a] \in X
  BY <1>1
<1>5. F \in [D -> X]
  <2>1. ASSUME NEW p \in D PROVE G[p[1]][p[2]] \in X
    <3>1. p[1] \in I /\ p[2] \in 1..count[p[1]]
      BY <1>2
    <3> HIDE DEF D
    <3>2. QED BY <3>1, <1>p
  <2>2. QED BY <2>1
<1>d. DOMAIN F = D
  OBVIOUS
<1> HIDE DEF F
<1>6. ASSUME NEW p \in D, NEW q \in D, F[p] = F[q] PROVE p = q
  <2>0. /\ p[1] \in I /\ p[2] \in 1..count[p[1]] /\ p = <<p[1], p[2]>>
        /\ q[1] \in I /\ q[2] \in 1..count[q[1]] /\ q = <<q[1], q[2]>>
    BY <1>2
  <2>1. F[p] \in part[p[1]] /\ F[q] \in part[q[1]]
    <3> HIDE DEF D
    <3>1. QED BY <2>0, <1>p, <1>4
  <2>2. p[1] = q[1]
    BY <2>0, <2>1, <1>6
  <2>3. p[2] = q[2]
    <3>1. G[p[1]][p[2]] = G[p[1]][q[2]]
      BY <2>2, <1>4, <1>6
    <3>2. p[2] \in 1..count[p[1]] /\ q[2] \in 1..count[p[1]]
      BY <2>0, <2>2
    <3>3. QED BY <2>0, <3>1, <3>2, <1>1
  <2>4. QED BY <2>0, <2>2, <2>3
<1>7. ASSUME NEW x \in X PROVE \E p \in D : F[p] = x
  <2>1. PICK k \in I : x \in part[k]
    OBVIOUS
  <2>2. PICK a \in 1..count[k] : G[k][a] = x
    BY <2>1, <1>1
  <2>3. QED BY <2>2, <1>3
<1> HIDE DEF D
<1>8. F \in Injection(D, X)
  BY <1>5, <1>6, <1>d DEF Injection, IsInjective
<1>9. F \in Surjection(D, X)
  BY <1>5, <1>7 DEF Surjection
<1>10. IsFiniteSet(D)
  BY <1>8, FS_Injection
<1>11. ExistsBijection(D, X)
  BY <1>8, <1>9 DEF ExistsBijection, Bijection
<1>12. Cardinality(X) = Cardinality(D)
  BY <1>10, <1>11, FS_Bijection
<1>13. QED BY <1>12 DEF D, Total

RunsOf(rs) == UNION {{<<i, n>> : n \in DOMAIN rs[i]} : i \in DOMAIN rs}

LEMMA RunsFinite ==
    ASSUME NEW rs, IsFiniteSet(DOMAIN rs), \A i \in DOMAIN rs : IsFiniteSet(DOMAIN rs[i])
    PROVE  IsFiniteSet(RunsOf(rs))
<1> DEFINE mine(i) == {<<i, n>> : n \in DOMAIN rs[i]}
           all == {mine(i) : i \in DOMAIN rs}
           f == [i \in DOMAIN rs |-> mine(i)]
<1>1. ASSUME NEW i \in DOMAIN rs PROVE IsFiniteSet(mine(i))
  <2> DEFINE g == [n \in DOMAIN rs[i] |-> <<i, n>>]
  <2>1. g \in Surjection(DOMAIN rs[i], mine(i))
    BY DEF Surjection
  <2> HIDE DEF g
  <2>2. QED BY <2>1, FS_Surjection
<1>2. f \in Surjection(DOMAIN rs, all)
  BY DEF Surjection
<1> HIDE DEF f
<1>3. IsFiniteSet(all)
  BY <1>2, FS_Surjection
<1>4. \A S \in all : IsFiniteSet(S)
  BY <1>1
<1> HIDE DEF all
<1>5. IsFiniteSet(UNION all)
  BY <1>3, <1>4, FS_UNION
<1>6. RunsOf(rs) = UNION all
  BY DEF RunsOf, all
<1>7. QED BY <1>5, <1>6

\* What a scored run is like.
Scored(y) ==
    /\ y.judgement.right \in BOOLEAN /\ y.judgement.preferred \in BOOLEAN
    /\ y.judgement.unsupported \in BOOLEAN
    /\ y.judgement.preferred => y.judgement.right
    /\ y.judgement.unsupported => ~y.judgement.right
    /\ y.judgement.right <=> y.judgement.error = None
    /\ ~y.judgement.right => y.judgement.error \in ErrorKinds
    /\ y.error <=> y.judgement.error = "call_failed"

LEMMA JudgedScored ==
    ASSUME NEW c, NEW r PROVE Scored(Judged(c, r))
<1> DEFINE j == Judge(c, r)
           right == Right(c, r.verdict)
           stands == Unsupported(c, r) = {} /\ ~MissingRequired(c, r)
           kind == errorKind(c, r.verdict)
<1>1. Judged(c, r).error = r.error /\ Judged(c, r).judgement = j
  BY DEF Judged
<1>2. kind \in ErrorKinds /\ kind # "call_failed"
  BY DEF errorKind, ErrorKinds
<1>3. None \notin ErrorKinds /\ "unsupported_citation" \in ErrorKinds
      /\ "call_failed" \in ErrorKinds
  BY EvalAssumption DEF ErrorKinds
<1>4. right \in BOOLEAN /\ stands \in BOOLEAN /\ (Unsupported(c, r) # {} => ~stands)
  BY DEF Right, MissingRequired
<1>5. (r.verdict = c.prefer) => right
  BY DEF Right
<1>6. j = IF r.error THEN CallFailed
          ELSE [right |-> right /\ stands, preferred |-> r.verdict = c.prefer /\ stands,
                unsupported |-> Unsupported(c, r) # {},
                error |-> IF right /\ stands THEN None
                          ELSE IF right THEN "unsupported_citation" ELSE kind]
  BY DEF Judge
<1> HIDE DEF j, right, stands, kind
<1>7. CASE r.error
  BY <1>1, <1>3, <1>6, <1>7 DEF CallFailed, Scored
<1>8. CASE ~r.error
  <2>1. /\ j.right = (right /\ stands) /\ j.preferred = (r.verdict = c.prefer /\ stands)
        /\ j.unsupported = (Unsupported(c, r) # {})
        /\ j.error = IF right /\ stands THEN None
                     ELSE IF right THEN "unsupported_citation" ELSE kind
    BY <1>6, <1>8
  <2>2. /\ j.right \in BOOLEAN /\ j.preferred \in BOOLEAN /\ j.unsupported \in BOOLEAN
        /\ (j.preferred => j.right) /\ (j.unsupported => ~j.right)
    BY <2>1, <1>4, <1>5
  <2>3. j.right <=> j.error = None
    BY <2>1, <1>2, <1>3, <1>4
  <2>4. ~j.right => j.error \in ErrorKinds
    BY <2>1, <1>2, <1>3, <1>4
  <2>5. j.error # "call_failed"
    BY <2>1, <1>2, <1>3
  <2>6. QED BY <1>1, <1>8, <2>2, <2>3, <2>4, <2>5 DEF Scored
<1>9. QED BY <1>7, <1>8

\* The runs of a result by what they were judged.
At(rs, x) == rs[x[1]][x[2]]
RightOf(rs) == {x \in RunsOf(rs) : At(rs, x).judgement.right}
WrongOf(rs) == {x \in RunsOf(rs) : ~At(rs, x).judgement.right}
PreferredOf(rs) == {x \in RunsOf(rs) : At(rs, x).judgement.preferred}
UnsupportedOf(rs) == {x \in RunsOf(rs) : At(rs, x).judgement.unsupported}
FailedOf(rs) == {x \in RunsOf(rs) : At(rs, x).error}
MistakesOf(rs, e) == {x \in RunsOf(rs) : At(rs, x).judgement.error = e}
KindOf(cases, rs, k) == {x \in RunsOf(rs) : cases[x[1]].kind = k}

\* A summary is how many of each there are.
LEMMA SummaryParts ==
    ASSUME NEW cases, NEW rs
    PROVE  LET s == Summarize(cases, rs)
           IN  /\ s.runs = Cardinality(RunsOf(rs))
               /\ s.right = Cardinality(RightOf(rs))
               /\ s.preferred = Cardinality(PreferredOf(rs))
               /\ s.unsupported = Cardinality(UnsupportedOf(rs))
               /\ s.callsFailed = Cardinality(FailedOf(rs))
               /\ DOMAIN s.errors = ErrorKinds
               /\ \A e \in ErrorKinds : s.errors[e] = Cardinality(MistakesOf(rs, e))
               /\ \A k \in Kinds :
                    /\ s.byKind[k].runs = Cardinality(KindOf(cases, rs, k))
                    /\ s.byKind[k].right =
                         Cardinality(KindOf(cases, rs, k) \intersect RightOf(rs))
<1> DEFINE s == Summarize(cases, rs)
           R == RunsOf(rs)
           all == {At(rs, x) : x \in R}
           of(S) == Cardinality({x \in R : At(rs, x) \in S})
<1>1. /\ s.runs = Cardinality(R)
      /\ s.right = of({r \in all : r.judgement.right})
      /\ s.preferred = of({r \in all : r.judgement.preferred})
      /\ s.unsupported = of({r \in all : r.judgement.unsupported})
      /\ s.callsFailed = of({r \in all : r.error})
      /\ s.errors = [e \in ErrorKinds |-> of({r \in all : r.judgement.error = e})]
      /\ s.byKind = [k \in Kinds |->
            [runs |-> Cardinality({x \in R : cases[x[1]].kind = k}),
             right |-> Cardinality({x \in {x \in R : cases[x[1]].kind = k} :
                                        At(rs, x).judgement.right})]]
  BY DEF Summarize, RunsOf, At
<1> HIDE DEF s
<1>2. {x \in R : At(rs, x) \in {r \in all : r.judgement.right}} = RightOf(rs)
  BY DEF RightOf
<1>3. {x \in R : At(rs, x) \in {r \in all : r.judgement.preferred}} = PreferredOf(rs)
  BY DEF PreferredOf
<1>4. /\ {x \in R : At(rs, x) \in {r \in all : r.error}} = FailedOf(rs)
      /\ {x \in R : At(rs, x) \in {r \in all : r.judgement.unsupported}} = UnsupportedOf(rs)
  BY DEF FailedOf, UnsupportedOf
<1>5. DOMAIN s.errors = ErrorKinds
  BY <1>1
<1>6. ASSUME NEW e \in ErrorKinds PROVE s.errors[e] = Cardinality(MistakesOf(rs, e))
  <2>1. {x \in R : At(rs, x) \in {r \in all : r.judgement.error = e}} = MistakesOf(rs, e)
    BY DEF MistakesOf
  <2>2. s.errors[e] = of({r \in all : r.judgement.error = e})
    BY <1>1
  <2>3. QED BY <2>1, <2>2
<1>7. ASSUME NEW k \in Kinds
      PROVE  /\ s.byKind[k].runs = Cardinality(KindOf(cases, rs, k))
             /\ s.byKind[k].right = Cardinality(KindOf(cases, rs, k) \intersect RightOf(rs))
  <2>1. {x \in {x \in R : cases[x[1]].kind = k} : At(rs, x).judgement.right}
          = KindOf(cases, rs, k) \intersect RightOf(rs)
    BY DEF KindOf, RightOf
  <2>2. QED BY <1>1, <2>1 DEF KindOf
<1>8. /\ s.right = Cardinality(RightOf(rs)) /\ s.preferred = Cardinality(PreferredOf(rs))
      /\ s.callsFailed = Cardinality(FailedOf(rs)) /\ s.runs = Cardinality(RunsOf(rs))
      /\ s.unsupported = Cardinality(UnsupportedOf(rs))
  BY <1>1, <1>2, <1>3, <1>4
<1>9. QED BY <1>5, <1>6, <1>7, <1>8 DEF s

\* Where every run is scored and its case has a kind, the parts of a summary add up.
LEMMA SummaryAdds ==
    ASSUME NEW cases, NEW rs, IsFiniteSet(RunsOf(rs)),
           \A x \in RunsOf(rs) : Scored(At(rs, x)) /\ cases[x[1]].kind \in Kinds
    PROVE  LET s == Summarize(cases, rs)
           IN  /\ s.right + Total(s.errors) = s.runs
               /\ Total([k \in Kinds |-> s.byKind[k].runs]) = s.runs
               /\ Total([k \in Kinds |-> s.byKind[k].right]) = s.right
               /\ s.callsFailed = s.errors["call_failed"] /\ s.preferred <= s.right
               /\ s.right + s.unsupported <= s.runs
<1> DEFINE s == Summarize(cases, rs)
           R == RunsOf(rs)
           Y == RightOf(rs)
           N == WrongOf(rs)
           kind(x) == cases[x[1]].kind
           error(x) == At(rs, x).judgement.error
<1>1. /\ s.runs = Cardinality(R) /\ s.right = Cardinality(Y)
      /\ s.preferred = Cardinality(PreferredOf(rs))
      /\ s.unsupported = Cardinality(UnsupportedOf(rs))
      /\ s.callsFailed = Cardinality(FailedOf(rs))
      /\ DOMAIN s.errors = ErrorKinds
      /\ \A e \in ErrorKinds : s.errors[e] = Cardinality(MistakesOf(rs, e))
      /\ \A k \in Kinds :
            /\ s.byKind[k].runs = Cardinality(KindOf(cases, rs, k))
            /\ s.byKind[k].right = Cardinality(KindOf(cases, rs, k) \intersect Y)
  BY SummaryParts
<1>2. None \notin ErrorKinds /\ "call_failed" \in ErrorKinds
  BY EvalAssumption DEF ErrorKinds
<1>3. /\ Y \subseteq R /\ N = R \ Y
      /\ PreferredOf(rs) \subseteq Y /\ UnsupportedOf(rs) \subseteq N
  BY DEF RightOf, WrongOf, PreferredOf, UnsupportedOf, Scored
<1>4. FailedOf(rs) = MistakesOf(rs, "call_failed")
  BY DEF FailedOf, MistakesOf, Scored
<1>5. ASSUME NEW x \in N PROVE error(x) \in ErrorKinds /\ x \in MistakesOf(rs, error(x))
  BY DEF WrongOf, MistakesOf, Scored
<1>6. ASSUME NEW e \in ErrorKinds
      PROVE  /\ MistakesOf(rs, e) \subseteq N
             /\ \A d \in ErrorKinds : d # e => MistakesOf(rs, e) \intersect MistakesOf(rs, d) = {}
  BY <1>2 DEF WrongOf, MistakesOf, Scored
<1>7. ASSUME NEW x \in R PROVE kind(x) \in Kinds /\ x \in KindOf(cases, rs, kind(x))
  BY DEF KindOf
<1>8. ASSUME NEW k \in Kinds
      PROVE  /\ KindOf(cases, rs, k) \subseteq R
             /\ \A l \in Kinds :
                  l # k => KindOf(cases, rs, k) \intersect KindOf(cases, rs, l) = {}
  BY DEF KindOf
<1>9. IsFiniteSet(R)
  OBVIOUS
<1> HIDE DEF s, R, Y, N, kind, error
<1>10. IsFiniteSet(Y) /\ IsFiniteSet(N)
  BY <1>3, <1>9, FS_Subset
<1>11. Cardinality(Y) + Cardinality(N) = Cardinality(R)
  <2>1. R \intersect Y = Y
    BY <1>3
  <2>2. Cardinality(R \ Y) = Cardinality(R) - Cardinality(R \intersect Y)
    BY ONLY <1>9, FS_Difference
  <2>3. Cardinality(R) \in Nat /\ Cardinality(Y) \in Nat
    BY <1>9, <1>10, FS_CardinalityType
  <2>4. Cardinality(N) = Cardinality(R) - Cardinality(Y)
    BY <2>1, <2>2, <1>3
  <2>5. QED BY <2>3, <2>4
<1>12. Total(s.errors) = Cardinality(N)
  <2> DEFINE part == [e \in ErrorKinds |-> MistakesOf(rs, e)]
             f == s.errors
  <2>1. DOMAIN f = ErrorKinds
    BY <1>1
  <2>2. \A e \in DOMAIN f : part[e] \subseteq N /\ f[e] = Cardinality(part[e])
    BY <2>1, <1>1, <1>6
  <2>3. \A x \in N : \E e \in DOMAIN f : x \in part[e]
    BY <2>1, <1>5
  <2>4. \A k, l \in DOMAIN f : k # l => part[k] \intersect part[l] = {}
    BY <2>1, <1>6
  <2> HIDE DEF f, part
  <2>5. Total(f) = Cardinality(N)
    BY <2>2, <2>3, <2>4, <1>10, Tally
  <2>6. QED BY <2>5 DEF f
<1>13. Total([k \in Kinds |-> s.byKind[k].runs]) = Cardinality(R)
  <2> DEFINE part == [k \in Kinds |-> KindOf(cases, rs, k)]
             f == [k \in Kinds |-> s.byKind[k].runs]
  <2>1. DOMAIN f = Kinds
    OBVIOUS
  <2>2. \A k \in DOMAIN f : part[k] \subseteq R /\ f[k] = Cardinality(part[k])
    BY <1>1, <1>8
  <2>3. \A x \in R : \E k \in DOMAIN f : x \in part[k]
    BY <1>7
  <2>4. \A k, l \in DOMAIN f : k # l => part[k] \intersect part[l] = {}
    BY <1>8
  <2> HIDE DEF f, part
  <2>5. Total(f) = Cardinality(R)
    BY <2>2, <2>3, <2>4, <1>9, Tally
  <2>6. QED BY <2>5 DEF f
<1>14. Total([k \in Kinds |-> s.byKind[k].right]) = Cardinality(Y)
  <2> DEFINE part == [k \in Kinds |-> KindOf(cases, rs, k) \intersect Y]
             f == [k \in Kinds |-> s.byKind[k].right]
  <2>1. DOMAIN f = Kinds
    OBVIOUS
  <2>2. \A k \in DOMAIN f : part[k] \subseteq Y /\ f[k] = Cardinality(part[k])
    BY <1>1
  <2>3. \A x \in Y : \E k \in DOMAIN f : x \in part[k]
    BY <1>3, <1>7
  <2>4. \A k, l \in DOMAIN f : k # l => part[k] \intersect part[l] = {}
    BY <1>8
  <2> HIDE DEF f, part
  <2>5. Total(f) = Cardinality(Y)
    BY <2>2, <2>3, <2>4, <1>10, Tally
  <2>6. QED BY <2>5 DEF f
<1>15. s.preferred <= s.right /\ s.right + s.unsupported <= s.runs
  <2>1. s.preferred <= s.right
    BY <1>1, <1>3, <1>10, FS_Subset
  <2>2. s.unsupported <= Cardinality(N) /\ s.unsupported \in Nat
    BY <1>1, <1>3, <1>10, FS_Subset, FS_CardinalityType
  <2>3. Cardinality(Y) \in Nat /\ Cardinality(N) \in Nat
    BY <1>10, FS_CardinalityType
  <2>4. QED BY <1>1, <1>11, <2>1, <2>2, <2>3
<1>16. QED BY <1>1, <1>2, <1>4, <1>11, <1>12, <1>13, <1>14, <1>15 DEF s

\* Finitely many runs of cases that are there, each scored, add up.
LEMMA ScoredAdds ==
    ASSUME NEW t \in Trees, Validate(t), NEW rs,
           \A i \in DOMAIN rs :
               /\ i \in DOMAIN t.cases
               /\ \E n \in Nat : DOMAIN rs[i] = 1..n
               /\ \A n \in DOMAIN rs[i] : Scored(rs[i][n])
    PROVE  LET s == Summarize(t.cases, rs)
           IN  /\ s.right + Total(s.errors) = s.runs
               /\ Total([k \in Kinds |-> s.byKind[k].runs]) = s.runs
               /\ Total([k \in Kinds |-> s.byKind[k].right]) = s.right
               /\ s.callsFailed = s.errors["call_failed"] /\ s.preferred <= s.right
               /\ s.right + s.unsupported <= s.runs
<1>1. IsFiniteSet(DOMAIN rs)
  <2>1. Len(t.cases) \in Nat /\ DOMAIN rs \subseteq 1..Len(t.cases)
    BY EvalAssumption DEF Trees
  <2>2. IsFiniteSet(1..Len(t.cases))
    BY <2>1, FS_Interval
  <2>3. QED BY <2>1, <2>2, FS_Subset
<1>2. ASSUME NEW i \in DOMAIN rs PROVE IsFiniteSet(DOMAIN rs[i])
  <2>1. PICK n \in Nat : DOMAIN rs[i] = 1..n
    OBVIOUS
  <2>2. QED BY <2>1, FS_Interval
<1>3. IsFiniteSet(RunsOf(rs))
  BY <1>1, <1>2, RunsFinite
<1>4. ASSUME NEW x \in RunsOf(rs)
      PROVE  Scored(At(rs, x)) /\ t.cases[x[1]].kind \in Kinds
  <2>1. x[1] \in DOMAIN rs /\ x[2] \in DOMAIN rs[x[1]]
    BY DEF RunsOf
  <2>2. t.cases[x[1]].kind \in Kinds
    BY <2>1 DEF Validate, Case
  <2>3. QED BY <2>1, <2>2 DEF At
<1>5. QED BY <1>3, <1>4, SummaryAdds

\* Either half of a committed result adds up: every run is right or one kind of
\* mistake, and of one kind of case.
THEOREM RunsAddUp == Spec => []EveryRunCounted
<1>1. Inv => EveryRunCounted
  <2> SUFFICES ASSUME Inv, committed # None,
                      NEW runs \in {committed.rules, committed.model}
               PROVE  LET s == Summarize(committed.of.cases, runs)
                      IN  /\ s.right + Total(s.errors) = s.runs
                          /\ Total([k \in Kinds |-> s.byKind[k].runs]) = s.runs
                          /\ Total([k \in Kinds |-> s.byKind[k].right]) = s.right
                          /\ s.callsFailed = s.errors["call_failed"] /\ s.preferred <= s.right
                          /\ s.right + s.unsupported <= s.runs
    BY DEF EveryRunCounted, Total
  <2> DEFINE t == committed.of
  <2>1. PICK m \in BOOLEAN : Stamped(committed, m)
    BY DEF Inv
  <2>2. t \in Trees /\ Validate(t) /\ committed.rules = Rules(t) /\ Gathered(t, committed.model)
    BY <2>1 DEF Stamped
  <2> HIDE DEF t
  <2>3. CASE runs = committed.rules
    <3>1. runs = [i \in DOMAIN t.cases |-> <<Judged(Case(t, i), RulesRun(t, i))>>]
      BY <2>2, <2>3 DEF Rules
    <3>2. ASSUME NEW i \in DOMAIN runs
          PROVE  /\ i \in DOMAIN t.cases /\ DOMAIN runs[i] = 1..1
                 /\ \A n \in DOMAIN runs[i] : Scored(runs[i][n])
      <4>1. Scored(Judged(Case(t, i), RulesRun(t, i)))
        BY JudgedScored
      <4>2. QED BY <3>1, <4>1
    <3>3. QED BY <2>2, <3>2, ScoredAdds DEF t
  <2>4. CASE runs = committed.model
    <3>1. ASSUME NEW i \in DOMAIN runs
          PROVE  /\ i \in DOMAIN t.cases /\ \E n \in Nat : DOMAIN runs[i] = 1..n
                 /\ \A n \in DOMAIN runs[i] : Scored(runs[i][n])
      <4>1. i \in DOMAIN t.cases /\ runs[i] \in Seq(Answers(t, i))
        BY <2>2, <2>4 DEF Gathered
      <4>2. ASSUME NEW n \in DOMAIN runs[i] PROVE Scored(runs[i][n])
        <5>1. PICK r \in Possible(t, i) : runs[i][n] = Judged(Case(t, i), r)
          BY <4>1 DEF Answers
        <5>2. QED BY <5>1, JudgedScored
      <4>3. QED BY <4>1, <4>2
    <3>2. QED BY <2>2, <3>1, ScoredAdds DEF t
  <2>5. QED BY <2>3, <2>4
<1>2. QED BY <1>1, AlwaysInv, PTL
=============================================================================
