-------------------------------- MODULE Corpus --------------------------------
(* The corpus: corpusc compiles five sources into one index at build time     *)
(* (internal/corpus, cmd/corpusc), and the worker reads that index back.  One *)
(* action per line or entry a loader reads; the sources may hold anything.    *)
EXTENDS Naturals, Sequences

CONSTANTS
    Name,       \* what may follow the kind in an id: check and address, finding
                \* number, anchor, slug
    Malformed,  \* a name ParseID refuses: empty, not a number, a colon too many
    Heading,    \* headings of decisions.md
    Anchor,     \* Anchor[h]: the name a heading is linked at
    Text,       \* what an entry says
    Blank,      \* the empty string
    Resource,   \* resource names
    Category,   \* SCC finding categories
    Pairing,    \* what mapping.yaml may list under a category
    MaxLines,   \* bound: MaxLines[k] lines read of source k
    None

Sources == <<"checkov", "threat", "decision", "control", "mapping">>
Kinds == {Sources[i] : i \in 1..4}
ID == [kind : Kinds, name : Name \union {Malformed}]

ASSUME NameAssumption == Malformed \notin Name /\ Blank \notin Text \union Heading
ASSUME AnchorAssumption == Anchor \in [Heading -> Name \union {Malformed}]
ASSUME PairingAssumption ==
    Pairing \subseteq [resource : Resource \union {Blank}, cite : SUBSET ID, why : BOOLEAN]
ASSUME LinesAssumption == MaxLines \in [{Sources[i] : i \in 1..5} -> Nat]

\* A well-formed id; an entry; an index, its two maps with what they define.
WellFormed == [kind : Kinds, name : Name]
Entry == [says : Text, appliesTo : SUBSET Resource]
Index(ids, cs) == [entries : [ids -> Entry], mapping : [cs -> SUBSET Pairing]]
Empty == [x \in {} |-> x]

\* A line of either Markdown file, as far as its loader reads it.
Line ==
    [is : {"section"}, findings : BOOLEAN]
    \union [is : {"row"}, name : Name \union {Malformed}, text : Text \union {Blank}]
    \union [is : {"heading"}, heading : Heading \union {Blank}]
    \union [is : {"decision"}, text : Text \union {Blank}]
    \union [is : {"entry"}]

VARIABLES
    pc,         \* where the build, and then the worker, stands
    step,       \* the source Compile has come to; 6 after the last
    lines,      \* what was read of that source
    inFindings, loaded,     \* LoadThreatModel's locals
    heading, decision,      \* LoadDecisions' locals
    entries, mapping,       \* the index under construction
    skipped,    \* SkippedDecisions
    image,      \* the index written for the image
    served      \* the index the worker resolves with

index == <<entries, mapping, skipped>>
scan == <<lines, inFindings, loaded, heading, decision>>
vars == <<pc, step, scan, index, image, served>>

ASSUME NoneAssumption ==
    \A ids \in SUBSET ID, cs \in SUBSET (Category \union {Blank}) : None \notin Index(ids, cs)

\* The locals of a loader that has read nothing.
Unread ==
    /\ lines' = <<>>
    /\ inFindings' = FALSE /\ loaded' = 0
    /\ heading' = Blank /\ decision' = Blank

Init ==
    /\ pc = "opening" /\ step = 1
    /\ lines = <<>> /\ inFindings = FALSE /\ loaded = 0
    /\ heading = Blank /\ decision = Blank
    /\ entries = Empty /\ mapping = Empty /\ skipped = {}
    /\ image = None /\ served = None

-----------------------------------------------------------------------------
(* Index.Add, Index.Lookup, Index.Validate, Index.Resolve.                    *)

\* Mutant: an id is whatever follows a known kind.
ParseAny(id) == id.kind \in Kinds

ParseID(id) == id.kind \in Kinds /\ id.name \in Name

\* Mutant: an id seen before is written over.
AddableAgain(id, e) == ParseID(id) /\ e.says # Blank

Addable(id, e) == ParseID(id) /\ e.says # Blank /\ id \notin DOMAIN entries

Put(f, x, v) == [y \in DOMAIN f \union {x} |-> IF y = x THEN v ELSE f[y]]

\* Compile returns no index, and corpusc exits.
Abandon ==
    /\ pc' = "failed"
    /\ entries' = Empty /\ mapping' = Empty /\ skipped' = {}
    /\ Unread
    /\ UNCHANGED <<step, image, served>>

Add(id, e) ==
    /\ Addable(id, e)
    /\ entries' = Put(entries, id, e)

\* Mutant: one citation that resolves is enough.
ValidIfAny(ix) ==
    \A c \in DOMAIN ix.mapping : c # Blank /\ \A p \in ix.mapping[c] :
        /\ p.resource # Blank /\ p.why
        /\ \E id \in p.cite : id \in DOMAIN ix.entries

Valid(ix) ==
    \A c \in DOMAIN ix.mapping : c # Blank /\ \A p \in ix.mapping[c] :
        /\ p.resource # Blank /\ p.why
        /\ p.cite # {} /\ p.cite \subseteq DOMAIN ix.entries

Cited(ix, c, r) == UNION {p.cite : p \in {q \in ix.mapping[c] : q.resource = r}}
Resolve(ix, c, r) ==
    IF c \in DOMAIN ix.mapping THEN Cited(ix, c, r) \cap DOMAIN ix.entries ELSE {}

-----------------------------------------------------------------------------
(* The loaders, in the order Compile runs them.                               *)

Open ==
    /\ pc = "opening"
    /\ pc' = "reading"
    /\ Unread
    /\ UNCHANGED <<step, index, image, served>>

\* No path, no file, a body that does not decode, a read that fails half way.
Unreadable ==
    /\ pc \in {"opening", "reading"}
    /\ Abandon

\* The loader of source k takes one more line.
Reading(k) == pc = "reading" /\ Sources[step] = k
Reads(k, line) ==
    /\ Reading(k) /\ Len(lines) < MaxLines[k]
    /\ lines' = Append(lines, line)
    /\ UNCHANGED <<pc, step, image, served>>
Entered(k) == Reads(k, [is |-> "entry"])
Refused(k) == Reading(k) /\ Len(lines) < MaxLines[k] /\ Abandon

\* The loader comes to the end of its file and returns nil.
Finish ==
    /\ pc' = IF step = 5 THEN "validating" ELSE "opening"
    /\ step' = step + 1
    /\ UNCHANGED <<lines, inFindings, loaded, mapping, image, served>>

\* named: a resource and a check id; t: the file the baseline names.
Checkov(n, t, named) ==
    LET id == [kind |-> "checkov", name |-> n]
        e == [says |-> t, appliesTo |-> {}]
    IN  \/ /\ t # Blank /\ named /\ Add(id, e)
           /\ Entered("checkov")
           /\ UNCHANGED <<inFindings, loaded, heading, decision, mapping, skipped>>
        \/ ~(t # Blank /\ named /\ Addable(id, e)) /\ Refused("checkov")

EndCheckov ==
    /\ Reading("checkov")
    /\ Finish
    /\ UNCHANGED <<heading, decision, entries, skipped>>

\* A second level heading opens the findings table or closes it.
Section(findings) ==
    /\ Reads("threat", [is |-> "section", findings |-> findings])
    /\ inFindings' = findings
    /\ UNCHANGED <<loaded, heading, decision, index>>

\* Mutant: a numbered row of any table is a finding.
NumberedAnywhere(n) == n # Malformed

\* A row of the findings table that carries a number.
Numbered(n) == inFindings /\ n # Malformed

\* A row; its text is blank when the finding or its status is.
Row(n, t) ==
    LET id == [kind |-> "threat", name |-> n]
        e == [says |-> t, appliesTo |-> {}]
        row == [is |-> "row", name |-> n, text |-> t]
    IN  \/ /\ ~Numbered(n)
           /\ Reads("threat", row)
           /\ UNCHANGED <<inFindings, loaded, heading, decision, index>>
        \/ /\ Numbered(n) /\ Add(id, e)
           /\ Reads("threat", row)
           /\ loaded' = loaded + 1
           /\ UNCHANGED <<inFindings, heading, decision, mapping, skipped>>
        \/ Numbered(n) /\ ~Addable(id, e) /\ Refused("threat")

\* Mutant: the table is missed only when the whole index is empty.
EndThreatsLate ==
    /\ Reading("threat")
    /\ \/ entries # Empty /\ Finish /\ UNCHANGED <<heading, decision, entries, skipped>>
       \/ entries = Empty /\ Abandon

EndThreats ==
    /\ Reading("threat")
    /\ \/ loaded > 0 /\ Finish /\ UNCHANGED <<heading, decision, entries, skipped>>
       \/ loaded = 0 /\ Abandon

DecisionEntry == [says |-> decision, appliesTo |-> {}]
DecisionID(h) == [kind |-> "decision", name |-> Anchor[h]]

\* flush, when it returns nil, and when the entry cannot be added.
Flush ==
    \/ heading = Blank /\ UNCHANGED <<entries, skipped, decision>>
    \/ /\ heading # Blank /\ decision = Blank
       /\ skipped' = skipped \union {heading}
       /\ UNCHANGED <<entries, decision>>
    \/ /\ heading # Blank /\ decision # Blank
       /\ Add(DecisionID(heading), DecisionEntry)
       /\ decision' = Blank
       /\ UNCHANGED skipped
Unflushable ==
    heading # Blank /\ decision # Blank /\ ~Addable(DecisionID(heading), DecisionEntry)

\* A third level heading; Blank for one without text, or of the second level.
DecisionHeading(h) ==
    \/ /\ Reads("decision", [is |-> "heading", heading |-> h])
       /\ Flush
       /\ heading' = h
       /\ UNCHANGED <<inFindings, loaded, mapping>>
    \/ Unflushable /\ Refused("decision")

\* Mutant: the last Decision line under a heading wins.
DecisionLineLast(t) ==
    /\ Reads("decision", [is |-> "decision", text |-> t])
    /\ decision' = IF heading # Blank THEN t ELSE decision
    /\ UNCHANGED <<inFindings, loaded, heading, index>>

DecisionLine(t) ==
    /\ Reads("decision", [is |-> "decision", text |-> t])
    /\ decision' = IF heading # Blank /\ decision = Blank THEN t ELSE decision
    /\ UNCHANGED <<inFindings, loaded, heading, index>>

EndDecisions ==
    /\ Reading("decision")
    /\ \/ /\ Flush /\ entries' # Empty
          /\ Finish
          /\ heading' = Blank
       \/ /\ Unflushable \/ (entries = Empty /\ (heading = Blank \/ decision = Blank))
          /\ Abandon

\* Mutant: a control need not say what it holds for.
ProvenAnywhere(t, proven, rs) == t # Blank /\ proven

\* proven: a slug, a proof, and full resource names only.
Proven(t, proven, rs) == t # Blank /\ proven /\ rs # {}

Control(n, t, proven, rs) ==
    LET id == [kind |-> "control", name |-> n]
        e == [says |-> t, appliesTo |-> rs]
    IN  \/ /\ Proven(t, proven, rs) /\ Add(id, e)
           /\ Entered("control")
           /\ UNCHANGED <<inFindings, loaded, heading, decision, mapping, skipped>>
        \/ ~(Proven(t, proven, rs) /\ Addable(id, e)) /\ Refused("control")

EndControls ==
    /\ Reading("control")
    /\ \/ lines # <<>> /\ Finish /\ UNCHANGED <<heading, decision, entries, skipped>>
       \/ lines = <<>> /\ Abandon

\* A category and its pairings; YAML refuses a key given twice.
Map(c, ps) ==
    /\ c \notin DOMAIN mapping
    /\ Entered("mapping")
    /\ mapping' = Put(mapping, c, ps)
    /\ UNCHANGED <<inFindings, loaded, heading, decision, entries, skipped>>

EndMapping ==
    /\ Reading("mapping")
    /\ \/ mapping # Empty /\ Finish /\ UNCHANGED <<heading, decision, entries, skipped>>
       \/ mapping = Empty /\ Abandon

-----------------------------------------------------------------------------
(* The end of Compile, corpusc, and the worker's start.                       *)

built == [entries |-> entries, mapping |-> mapping]

Validate ==
    /\ pc = "validating"
    /\ \/ Valid(built) /\ pc' = "compiled" /\ UNCHANGED <<step, scan, index, image, served>>
       \/ ~Valid(built) /\ Abandon

\* The index is written, or corpusc fails and the image with it.
Write ==
    /\ pc = "compiled"
    /\ \/ pc' = "written" /\ image' = built /\ UNCHANGED <<step, scan, index, served>>
       \/ Abandon

\* The file loses an entry between the build and the start of the worker.
Damage(id) ==
    /\ pc = "written"
    /\ id \in DOMAIN image.entries
    /\ image' = [image EXCEPT !.entries = [i \in DOMAIN @ \ {id} |-> @[i]]]
    /\ UNCHANGED <<pc, step, scan, index, served>>

\* Mutant: what was validated at build time is not validated again.
ServeUnchecked ==
    /\ pc = "written"
    /\ pc' = "serving" /\ served' = image
    /\ UNCHANGED <<step, scan, index, image>>

Serve ==
    /\ pc = "written"
    /\ \/ Valid(image) /\ pc' = "serving" /\ served' = image
       \/ ~Valid(image) /\ pc' = "refused" /\ UNCHANGED served
    /\ UNCHANGED <<step, scan, index, image>>

Next ==
    \/ Open \/ Unreadable
    \/ \E n \in Name \union {Malformed}, t \in Text \union {Blank} :
          \/ \E named \in BOOLEAN : Checkov(n, t, named)
          \/ Row(n, t)
          \/ \E proven \in BOOLEAN, rs \in SUBSET Resource : Control(n, t, proven, rs)
    \/ \E findings \in BOOLEAN : Section(findings)
    \/ \E h \in Heading \union {Blank} : DecisionHeading(h)
    \/ \E t \in Text \union {Blank} : DecisionLine(t)
    \/ \E c \in Category \union {Blank}, ps \in SUBSET Pairing : Map(c, ps)
    \/ EndCheckov \/ EndThreats \/ EndDecisions \/ EndControls \/ EndMapping
    \/ Validate \/ Write \/ Serve
    \/ \E id \in WellFormed : Damage(id)

Spec == Init /\ [][Next]_vars

-----------------------------------------------------------------------------
(* Properties.                                                                *)

\* Every variable has its type; only well-formed ids are ever entries.
TypeOK ==
    /\ pc \in {"opening", "reading", "validating", "compiled", "written", "serving",
               "refused", "failed"}
    /\ step \in 1..6 /\ (pc \in {"opening", "reading"} => step < 6)
    /\ lines \in Seq(Line)
    /\ inFindings \in BOOLEAN /\ loaded \in Nat
    /\ heading \in Heading \union {Blank} /\ decision \in Text \union {Blank}
    /\ DOMAIN entries \subseteq WellFormed /\ entries \in [DOMAIN entries -> Entry]
    /\ DOMAIN mapping \subseteq Category \union {Blank}
    /\ mapping \in [DOMAIN mapping -> SUBSET Pairing]
    /\ skipped \subseteq Heading
    /\ \A ix \in {image, served} \ {None} :
          /\ DOMAIN ix.entries \subseteq WellFormed
          /\ DOMAIN ix.mapping \subseteq Category \union {Blank}
          /\ ix \in Index(DOMAIN ix.entries, DOMAIN ix.mapping)

\* Every pairing the worker serves cites something, and resolves to all of it:
\* a finding is accepted on the whole of what was reviewed, and new means that
\* nobody priced it (index.go:65, resolve.go:3, compile.go:56).
PairingsPrice ==
    served # None => \A c \in DOMAIN served.mapping : \A p \in served.mapping[c] :
        p.cite # {} /\ p.cite \subseteq Resolve(served, c, p.resource)

\* Every control that is served applies somewhere and nothing else does, so
\* what can anchor a contradiction is a control, and each control can
\* (index.go:16-18, yaml.go:66-70).
ControlsAnchor ==
    served # None => \A id \in DOMAIN served.entries :
        served.entries[id].appliesTo # {} <=> id.kind = "control"

\* What an id stands for never changes while the index is built: two records
\* under one id fail the build (index.go:51-53).
NeverReplaced ==
    [][pc' # "failed" => \A id \in DOMAIN entries :
          id \in DOMAIN entries' /\ entries'[id] = entries[id]]_vars

\* An index that is written has findings, controls and a mapping: a source
\* whose shape changed fails the build (markdown.go:90, yaml.go:52, yaml.go:95).
SourcesPresent ==
    image # None =>
        /\ \E id \in DOMAIN entries : id.kind = "threat"
        /\ \E id \in DOMAIN entries : id.kind = "control"
        /\ mapping # Empty

Of(kind) == {<<id.name, entries[id].says>> : id \in {i \in DOMAIN entries : i.kind = kind}}

\* Once the threat model is read, its entries are the numbered rows below the
\* last Findings heading before them (markdown.go:43).
FindingsRowsOnly ==
    pc = "opening" /\ step = 3 =>
        Of("threat") =
            {<<lines[i].name, lines[i].text>> : i \in {j \in 1..Len(lines) :
                /\ lines[j].is = "row" /\ lines[j].name # Malformed
                /\ \E k \in 1..(j - 1) :
                      /\ lines[k].is = "section" /\ lines[k].findings
                      /\ \A l \in (k + 1)..(j - 1) : lines[l].is # "section"}}

\* The lines of a heading, up to the next one, that say what was decided.
Says(i) == {j \in (i + 1)..Len(lines) :
    /\ lines[j].is = "decision" /\ lines[j].text # Blank
    /\ \A k \in (i + 1)..j : lines[k].is # "heading"}

\* Once decisions.md is read, a heading with a Decision line is the entry that
\* says what the first of them says, and one without is reported, never dropped
\* (markdown.go:96).
DecisionsAsWritten ==
    pc = "opening" /\ step = 4 =>
        LET headings == {i \in 1..Len(lines) : lines[i].is = "heading" /\ lines[i].heading # Blank}
        IN  /\ Of("decision") =
                   UNION {{<<Anchor[lines[i].heading], lines[j].text>> :
                              j \in {j \in Says(i) : \A k \in Says(i) : j <= k}} :
                          i \in headings}
            /\ skipped = {lines[i].heading : i \in {h \in headings : Says(h) = {}}}

\* "Decisions carries no Decision line, or its shape changed" (markdown.go:149):
\* an index that is written has decisions.
DecisionsPresent ==
    image # None => \E id \in DOMAIN entries : id.kind = "decision"
=============================================================================
