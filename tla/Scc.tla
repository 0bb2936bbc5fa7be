-------------------------------- MODULE Scc --------------------------------
(* The finding parser and the ledger keys of internal/scc.  A finding is a    *)
(* record of the six fields Parse requires and of its whole body, a label; the *)
(* three fields a key is made of are sequences of characters.                 *)
EXTENDS Integers, Sequences, FiniteSets

\* Characters, as pathSafe tells them apart: those it keeps and the others.
Punctuation == {"-", "_", ".", ":", "/"}
Letters == {"a", "b", "p", "s", "x", "A", "I", "1", "2"}

Absent == ""

\* TrimSpace leaves nothing.
Blank(s) == \A i \in DOMAIN s : s[i] = " "

\* The required fields Parse reports, severity having a default of its own.
Missing(f) ==
    {g \in {"canonicalName", "state", "eventTime"} : Blank(f[g])} \union
    {g \in {"category", "resourceName", "findingClass"} : f[g] = Absent}

IsVulnerability(class) == class \in {"VULNERABILITY", "vulnerability"}

InScope(class) == ~IsVulnerability(class)

\* What Parse and the first lines of Handle make of a body: no envelope or no
\* name to key it by, out of scope, short of a required field, or whole.
FormOf(f) ==
    IF ~f.json \/ Blank(f.canonicalName) THEN "unreadable"
    ELSE IF Missing(f) # {} THEN "partial"
    ELSE IF InScope(f.findingClass) THEN "complete" ELSE "vulnerability"

\* The members of s at the positions K, in order.
Keeping(s, K) ==
    LET nth(n) == CHOOSE i \in K : Cardinality({j \in K : j <= i}) = n
    IN  [n \in 1..Cardinality(K) |-> s[nth(n)]]

\* Mutant: one ReplaceAll instead of a loop, so a run of c is halved.
CollapseOnce(c, s) ==
    Keeping(s, {i \in DOMAIN s :
        \/ s[i] # c
        \/ Cardinality({j \in 1..i : \A k \in j..i : s[k] = c}) % 2 = 1})

\* Replacing cc by c until there is none left leaves one c of each run.
Collapse(c, s) == Keeping(s, {i \in DOMAIN s : s[i] # c \/ i = 1 \/ s[i - 1] # c})

\* strings.Trim: the cut set goes at both ends and stays in between.
Trim(s, cut) ==
    LET kept == {i \in DOMAIN s : s[i] \notin cut}
    IN  Keeping(s, {i \in DOMAIN s : \E j, k \in kept : j <= i /\ i <= k})

pathSafe(s) ==
    LET mapped == [i \in DOMAIN s |->
                      IF s[i] \in Letters \union Punctuation THEN s[i] ELSE "_"]
    IN  Trim(Collapse("/", Collapse(".", mapped)), {"/", "_"})

\* Mutant: the state is left out, so a finding that is resolved looks redelivered.
KeyWithoutState(f) ==
    pathSafe(f.canonicalName) \o <<"/">> \o pathSafe(f.eventTime)

\* "Key identifies one event on one finding: the canonical name, its event time
\* and its state" (finding.go:101).
KeyOfFinding(f) ==
    pathSafe(f.canonicalName) \o <<"/">> \o pathSafe(f.eventTime) \o <<"/">> \o pathSafe(f.state)

Event(f) == <<f.canonicalName, f.eventTime, f.state>>

\* The hash of a canonical encoding of the whole body tells bodies apart.
digestOf(f) == f.body

\* What a worker acts on.
Parsed(f) == [key |-> KeyOfFinding(f), digest |-> digestOf(f), form |-> FormOf(f)]
=============================================================================
