----------------------------- MODULE CorpusProofs -----------------------------
(* Theorems about Corpus, for any sources of any length: what is served, what *)
(* an id stands for, and what a build that succeeds has read.                 *)
EXTENDS Corpus, TLAPS

-----------------------------------------------------------------------------
(* Types.                                                                     *)

\* The entries and the mapping under construction.
EntriesOK ==
    DOMAIN entries \subseteq WellFormed /\ entries \in [DOMAIN entries -> Entry]
MappingOK ==
    /\ DOMAIN mapping \subseteq Category \union {Blank}
    /\ mapping \in [DOMAIN mapping -> SUBSET Pairing]
ScanOK ==
    /\ lines \in Seq(Line)
    /\ inFindings \in BOOLEAN /\ loaded \in Nat
    /\ heading \in Heading \union {Blank} /\ decision \in Text \union {Blank}
IndexOK(ix) ==
    /\ DOMAIN ix.entries \subseteq WellFormed
    /\ DOMAIN ix.mapping \subseteq Category \union {Blank}
    /\ ix \in Index(DOMAIN ix.entries, DOMAIN ix.mapping)

\* A build has an index to write, and the worker one to read, in these phases.
Standing ==
    /\ pc \in {"opening", "reading", "validating", "compiled", "written", "serving",
               "refused", "failed"}
    /\ step \in 1..6
    /\ pc \in {"opening", "reading"} => step < 6
    /\ pc \in {"validating", "compiled", "written", "serving", "refused"} => step = 6
    /\ pc \in {"written", "serving", "refused"} => image # None
    /\ pc \notin {"written", "serving", "refused"} => image = None
    /\ pc # "serving" => served = None

TypeInv ==
    /\ Standing /\ ScanOK /\ EntriesOK /\ MappingOK
    /\ skipped \subseteq Heading
    /\ image # None => IndexOK(image)
    /\ served # None => IndexOK(served)

\* Add stores an entry under an id that parses and was not there.
LEMMA AddFacts ==
    ASSUME EntriesOK,
           NEW id \in ID, NEW e \in [says : Text \union {Blank}, appliesTo : SUBSET Resource],
           Add(id, e)
    PROVE  /\ EntriesOK'
           /\ e \in Entry
           /\ DOMAIN entries' = DOMAIN entries \union {id}
           /\ id \notin DOMAIN entries
           /\ entries'[id] = e
           /\ \A y \in DOMAIN entries : entries'[y] = entries[y]
<1>1. id \in WellFormed BY DEF Add, Addable, ParseID, WellFormed, ID
<1>2. e \in Entry BY DEF Add, Addable, Entry
<1>3. id \notin DOMAIN entries /\ entries' = Put(entries, id, e) BY DEF Add, Addable
<1>4. entries \in [DOMAIN entries -> Entry] BY DEF EntriesOK
<1>5. /\ DOMAIN Put(entries, id, e) = DOMAIN entries \union {id}
      /\ Put(entries, id, e) \in [DOMAIN entries \union {id} -> Entry]
      /\ Put(entries, id, e)[id] = e
      /\ \A y \in DOMAIN entries : y # id => Put(entries, id, e)[y] = entries[y]
  BY ONLY <1>2, <1>4 DEF Put
<1>6. QED BY <1>1, <1>2, <1>3, <1>5 DEF EntriesOK

\* The empty index has its types.
LEMMA EmptyFacts ==
    /\ DOMAIN Empty = {} /\ \A S : Empty \in [DOMAIN Empty -> S]
BY DEF Empty

\* An index that was abandoned, and a loader that has read nothing.
LEMMA AbandonFacts ==
    ASSUME TypeInv, Abandon, pc \in {"opening", "reading", "validating", "compiled"}
    PROVE  TypeInv'
<1>1. EntriesOK' /\ MappingOK'
  BY EmptyFacts DEF Abandon, EntriesOK, MappingOK
<1>2. ScanOK'
  <2>1. <<>> \in Seq(Line) OBVIOUS
  <2>2. QED BY <2>1 DEF Abandon, Unread, ScanOK
<1>3. QED BY <1>1, <1>2 DEF TypeInv, Abandon, Standing

\* A line taken by a loader leaves everything but that loader's state alone.
LEMMA ReadsFacts ==
    ASSUME TypeInv, NEW k, NEW line \in Line, Reads(k, line)
    PROVE  /\ Standing' /\ lines' \in Seq(Line)
           /\ image' = image /\ served' = served /\ pc' = "reading" /\ pc = "reading"
           /\ step' = step
BY DEF Reads, Reading, TypeInv, Standing, ScanOK

\* The lines a loader takes are lines.
LEMMA LineFacts ==
    /\ [is |-> "entry"] \in Line
    /\ \A b \in BOOLEAN : [is |-> "section", findings |-> b] \in Line
    /\ \A n \in Name \union {Malformed}, t \in Text \union {Blank} :
          [is |-> "row", name |-> n, text |-> t] \in Line
    /\ \A h \in Heading \union {Blank} : [is |-> "heading", heading |-> h] \in Line
    /\ \A t \in Text \union {Blank} : [is |-> "decision", text |-> t] \in Line
BY DEF Line

\* The end of a source.
LEMMA FinishFacts ==
    ASSUME TypeInv, Finish, pc = "reading"
    PROVE  Standing' /\ image' = image /\ served' = served
BY DEF TypeInv, Standing, Finish

\* flush leaves a typed index, with whatever it had.
LEMMA FlushFacts ==
    ASSUME TypeInv, Flush
    PROVE  /\ EntriesOK' /\ skipped' \subseteq Heading /\ decision' \in Text \union {Blank}
           /\ DOMAIN entries \subseteq DOMAIN entries'
           /\ \A y \in DOMAIN entries : entries'[y] = entries[y]
           /\ \A y \in DOMAIN entries' \ DOMAIN entries :
                 y.kind = "decision" /\ entries'[y].appliesTo = {}
<1>1. CASE heading = Blank \/ decision = Blank
  BY <1>1 DEF Flush, TypeInv, EntriesOK, ScanOK
<1>2. CASE heading # Blank /\ decision # Blank
  <2>1. DecisionID(heading) \in ID
    BY <1>2, AnchorAssumption DEF DecisionID, ID, TypeInv, ScanOK, Kinds, Sources
  <2>2. DecisionEntry \in [says : Text \union {Blank}, appliesTo : SUBSET Resource]
    BY DEF DecisionEntry, TypeInv, ScanOK
  <2>3. Add(DecisionID(heading), DecisionEntry) /\ decision' = Blank /\ UNCHANGED skipped
    BY <1>2 DEF Flush
  <2>4. EntriesOK BY DEF TypeInv
  <2>5. /\ EntriesOK'
        /\ DOMAIN entries' = DOMAIN entries \union {DecisionID(heading)}
        /\ entries'[DecisionID(heading)] = DecisionEntry
        /\ \A y \in DOMAIN entries : entries'[y] = entries[y]
    BY <2>1, <2>2, <2>3, <2>4, AddFacts
  <2>6. DecisionID(heading).kind = "decision" /\ DecisionEntry.appliesTo = {}
    BY DEF DecisionID, DecisionEntry
  <2>7. QED BY <2>3, <2>5, <2>6 DEF TypeInv
<1>3. QED BY <1>1, <1>2

\* The entry a loader makes of what it read.
LEMMA EntryFacts ==
    ASSUME NEW k \in Kinds, NEW n \in Name \union {Malformed},
           NEW t \in Text \union {Blank}, NEW rs \in SUBSET Resource
    PROVE  /\ [kind |-> k, name |-> n] \in ID
           /\ [says |-> t, appliesTo |-> rs]
                 \in [says : Text \union {Blank}, appliesTo : SUBSET Resource]
BY DEF ID

LEMMA KindFacts ==
    /\ "checkov" \in Kinds /\ "threat" \in Kinds
    /\ "decision" \in Kinds /\ "control" \in Kinds
BY DEF Kinds, Sources

LEMMA TypeInit == Init => TypeInv
<1>1. <<>> \in Seq(Line) OBVIOUS
<1> SUFFICES ASSUME Init PROVE TypeInv
  OBVIOUS
<1>2. ScanOK BY <1>1 DEF Init, ScanOK
<1>3. EntriesOK /\ MappingOK BY EmptyFacts DEF Init, EntriesOK, MappingOK
<1>4. Standing /\ image = None /\ served = None BY DEF Init, Standing
<1>5. skipped \subseteq Heading BY DEF Init
<1>6. QED BY <1>2, <1>3, <1>4, <1>5 DEF TypeInv

LEMMA TypeNext == TypeInv /\ [Next]_vars => TypeInv'
<1> SUFFICES ASSUME TypeInv, [Next]_vars PROVE TypeInv'
  OBVIOUS
<1> USE DEF TypeInv
<1>1. CASE Open \/ Unreadable
  <2>1. CASE Open
    <3>1. <<>> \in Seq(Line) OBVIOUS
    <3>2. ScanOK' BY <2>1, <3>1 DEF Open, Unread, ScanOK
    <3>3. QED BY <2>1, <3>2 DEF Open, Standing, index, EntriesOK, MappingOK
  <2>2. CASE Unreadable BY <2>2, AbandonFacts DEF Unreadable
  <2>3. QED BY <1>1, <2>1, <2>2
<1>2. ASSUME NEW n \in Name \union {Malformed}, NEW t \in Text \union {Blank},
             NEW named \in BOOLEAN, Checkov(n, t, named)
      PROVE  TypeInv'
  <2>1. CASE Refused("checkov") BY <2>1, AbandonFacts DEF Refused, Reading
  <2>2. CASE /\ Add([kind |-> "checkov", name |-> n], [says |-> t, appliesTo |-> {}])
             /\ Entered("checkov")
             /\ UNCHANGED <<inFindings, loaded, heading, decision, mapping, skipped>>
    <3>1. EntriesOK' BY <2>2, AddFacts, EntryFacts, KindFacts
    <3>2. Standing' /\ lines' \in Seq(Line) /\ image' = image /\ served' = served
      BY <2>2, ReadsFacts, LineFacts DEF Entered
    <3>3. QED BY <2>2, <3>1, <3>2 DEF ScanOK, MappingOK
  <2>3. QED BY <1>2, <2>1, <2>2 DEF Checkov
<1>3. ASSUME NEW n \in Name \union {Malformed}, NEW t \in Text \union {Blank}, Row(n, t)
      PROVE  TypeInv'
  <2> DEFINE row == [is |-> "row", name |-> n, text |-> t]
  <2>1. CASE Refused("threat") BY <2>1, AbandonFacts DEF Refused, Reading
  <2>2. CASE /\ Reads("threat", row)
             /\ UNCHANGED <<inFindings, loaded, heading, decision, index>>
    <3>1. Standing' /\ lines' \in Seq(Line) /\ image' = image /\ served' = served
      BY <2>2, ReadsFacts, LineFacts
    <3>2. QED BY <2>2, <3>1 DEF ScanOK, MappingOK, EntriesOK, index
  <2>3. CASE /\ Add([kind |-> "threat", name |-> n], [says |-> t, appliesTo |-> {}])
             /\ Reads("threat", row)
             /\ loaded' = loaded + 1
             /\ UNCHANGED <<inFindings, heading, decision, mapping, skipped>>
    <3>1. EntriesOK' BY <2>3, AddFacts, EntryFacts, KindFacts
    <3>2. Standing' /\ lines' \in Seq(Line) /\ image' = image /\ served' = served
      BY <2>3, ReadsFacts, LineFacts
    <3>3. QED BY <2>3, <3>1, <3>2 DEF ScanOK, MappingOK
  <2>4. QED BY <1>3, <2>1, <2>2, <2>3 DEF Row
<1>4. ASSUME NEW n \in Name \union {Malformed}, NEW t \in Text \union {Blank},
             NEW proven \in BOOLEAN, NEW rs \in SUBSET Resource, Control(n, t, proven, rs)
      PROVE  TypeInv'
  <2>1. CASE Refused("control") BY <2>1, AbandonFacts DEF Refused, Reading
  <2>2. CASE /\ Add([kind |-> "control", name |-> n], [says |-> t, appliesTo |-> rs])
             /\ Entered("control")
             /\ UNCHANGED <<inFindings, loaded, heading, decision, mapping, skipped>>
    <3>1. EntriesOK' BY <2>2, AddFacts, EntryFacts, KindFacts
    <3>2. Standing' /\ lines' \in Seq(Line) /\ image' = image /\ served' = served
      BY <2>2, ReadsFacts, LineFacts DEF Entered
    <3>3. QED BY <2>2, <3>1, <3>2 DEF ScanOK, MappingOK
  <2>3. QED BY <1>4, <2>1, <2>2 DEF Control
<1>5. ASSUME NEW findings \in BOOLEAN, Section(findings) PROVE TypeInv'
  <2>1. Standing' /\ lines' \in Seq(Line) /\ image' = image /\ served' = served
    BY <1>5, ReadsFacts, LineFacts DEF Section
  <2>2. QED BY <1>5, <2>1 DEF Section, ScanOK, MappingOK, EntriesOK, index
<1>6. ASSUME NEW h \in Heading \union {Blank}, DecisionHeading(h) PROVE TypeInv'
  <2>1. CASE Refused("decision") BY <2>1, AbandonFacts DEF Refused, Reading
  <2>2. CASE /\ Reads("decision", [is |-> "heading", heading |-> h])
             /\ Flush
             /\ heading' = h
             /\ UNCHANGED <<inFindings, loaded, mapping>>
    <3>1. Standing' /\ lines' \in Seq(Line) /\ image' = image /\ served' = served
      BY <2>2, ReadsFacts, LineFacts
    <3>2. QED BY <2>2, <3>1, FlushFacts DEF ScanOK, MappingOK
  <2>3. QED BY <1>6, <2>1, <2>2 DEF DecisionHeading
<1>7. ASSUME NEW t \in Text \union {Blank}, DecisionLine(t) PROVE TypeInv'
  <2>1. Standing' /\ lines' \in Seq(Line) /\ image' = image /\ served' = served
    BY <1>7, ReadsFacts, LineFacts DEF DecisionLine
  <2>2. QED BY <1>7, <2>1 DEF DecisionLine, ScanOK, MappingOK, EntriesOK, index
<1>8. ASSUME NEW c \in Category \union {Blank}, NEW ps \in SUBSET Pairing, Map(c, ps)
      PROVE  TypeInv'
  <2>1. Standing' /\ lines' \in Seq(Line) /\ image' = image /\ served' = served
    BY <1>8, ReadsFacts, LineFacts DEF Map, Entered
  <2>2. MappingOK' BY <1>8 DEF Map, MappingOK, Put
  <2>3. QED BY <1>8, <2>1, <2>2 DEF Map, ScanOK, EntriesOK
<1>9. CASE EndCheckov \/ EndThreats \/ EndControls \/ EndMapping
  <2>1. CASE Abandon
    BY <1>9, <2>1, AbandonFacts DEF EndCheckov, EndThreats, EndControls, EndMapping, Reading
  <2>2. CASE Finish /\ UNCHANGED <<heading, decision, entries, skipped>> /\ pc = "reading"
    BY <2>2, FinishFacts DEF Finish, ScanOK, EntriesOK, MappingOK
  <2>3. QED BY <1>9, <2>1, <2>2 DEF EndCheckov, EndThreats, EndControls, EndMapping, Reading
<1>10. CASE EndDecisions
  <2>1. CASE Abandon BY <1>10, <2>1, AbandonFacts DEF EndDecisions, Reading
  <2>2. CASE Flush /\ Finish /\ heading' = Blank /\ pc = "reading"
    BY <2>2, FinishFacts, FlushFacts DEF Finish, ScanOK, MappingOK
  <2>3. QED BY <1>10, <2>1, <2>2 DEF EndDecisions, Reading
<1>11. IndexOK(built)
  BY DEF built, IndexOK, Index, EntriesOK, MappingOK
<1>12. CASE Validate
  <2>1. CASE Abandon BY <1>12, <2>1, AbandonFacts DEF Validate
  <2>2. CASE pc' = "compiled" /\ UNCHANGED <<step, scan, index, image, served>>
    BY <1>12, <2>2
       DEF Validate, Standing, scan, index, ScanOK, EntriesOK, MappingOK
  <2>3. QED BY <1>12, <2>1, <2>2 DEF Validate
<1>13. built # None
  <2>1. DOMAIN entries \in SUBSET ID BY DEF EntriesOK, WellFormed, ID
  <2>2. DOMAIN mapping \in SUBSET (Category \union {Blank}) BY DEF MappingOK
  <2>3. built \in Index(DOMAIN entries, DOMAIN mapping)
    BY <1>11 DEF IndexOK, built
  <2>4. QED BY <2>1, <2>2, <2>3, NoneAssumption
<1>14. CASE Write
  <2>1. CASE Abandon BY <1>14, <2>1, AbandonFacts DEF Write
  <2>2. CASE pc' = "written" /\ image' = built /\ UNCHANGED <<step, scan, index, served>>
    <3>1. image' # None /\ IndexOK(image') BY <2>2, <1>11, <1>13
    <3>2. QED
      BY <1>14, <2>2, <3>1 DEF Write, Standing, scan, index, ScanOK, EntriesOK, MappingOK
  <2>3. QED BY <1>14, <2>1, <2>2 DEF Write
<1>15. CASE Serve
  BY <1>15 DEF Serve, Standing, scan, index, ScanOK, EntriesOK, MappingOK
<1>16. ASSUME NEW id \in WellFormed, Damage(id) PROVE TypeInv'
  <2>1. image # None /\ IndexOK(image) BY <1>16 DEF Damage, Standing
  <2> DEFINE left == [i \in DOMAIN image.entries \ {id} |-> image.entries[i]]
  <2>2. /\ image.entries \in [DOMAIN image.entries -> Entry]
        /\ image.mapping \in [DOMAIN image.mapping -> SUBSET Pairing]
        /\ image = [entries |-> image.entries, mapping |-> image.mapping]
    BY <2>1 DEF IndexOK, Index
  <2>3. image' = [entries |-> left, mapping |-> image.mapping]
    BY <1>16, <2>2 DEF Damage
  <2>4. left \in [DOMAIN left -> Entry] /\ DOMAIN left \subseteq DOMAIN image.entries
    BY <2>2
  <2>5. IndexOK(image')
    BY <2>1, <2>2, <2>3, <2>4 DEF IndexOK, Index
  <2>6. image' # None
    <3>1. DOMAIN left \in SUBSET ID BY <2>1, <2>4 DEF IndexOK, WellFormed, ID
    <3>2. DOMAIN image.mapping \in SUBSET (Category \union {Blank}) BY <2>1 DEF IndexOK
    <3>3. image' \in Index(DOMAIN left, DOMAIN image.mapping)
      BY <2>2, <2>3, <2>4 DEF Index
    <3>4. QED BY <3>1, <3>2, <3>3, NoneAssumption
  <2>7. QED
    BY <1>16, <2>5, <2>6 DEF Damage, Standing, scan, index, ScanOK, EntriesOK, MappingOK
<1>17. CASE UNCHANGED vars
  BY <1>17 DEF vars, scan, index, Standing, ScanOK, EntriesOK, MappingOK
<1>18. QED
  BY <1>1, <1>2, <1>3, <1>4, <1>5, <1>6, <1>7, <1>8, <1>9, <1>10, <1>12, <1>14, <1>15,
     <1>16, <1>17
     DEF Next

\* TypeOK holds in every reachable state, for every instance.
THEOREM TypeCorrect == Spec => []TypeOK
<1>1. TypeInv => TypeOK
  BY DEF TypeInv, TypeOK, Standing, ScanOK, EntriesOK, MappingOK, IndexOK
<1>2. QED BY <1>1, TypeInit, TypeNext, PTL DEF Spec

-----------------------------------------------------------------------------
(* What the entries say, and what a source that was passed has left.          *)

OnlyControls(f) == \A id \in DOMAIN f : f[id].appliesTo # {} <=> id.kind = "control"
Have(kind) == \E id \in DOMAIN entries : id.kind = kind

\* What a build that has not failed has read so far.
Progress ==
    /\ loaded > 0 \/ step > 2 => Have("threat")
    /\ (step = 4 /\ pc = "reading" /\ lines # <<>>) \/ step > 4 => Have("control")
    /\ step > 5 => mapping # Empty

BuildInv ==
    /\ OnlyControls(entries)
    /\ pc # "failed" => Progress
    /\ image # None => OnlyControls(image.entries)
    /\ served # None => OnlyControls(served.entries) /\ Valid(served)

\* Nothing is left to say of a build that was abandoned.
LEMMA AbandonBuild ==
    ASSUME BuildInv, Abandon
    PROVE  BuildInv'
<1>1. entries' = Empty /\ pc' = "failed" /\ image' = image /\ served' = served
  BY DEF Abandon
<1>2. OnlyControls(entries') BY <1>1, EmptyFacts DEF OnlyControls
<1>3. QED BY <1>1, <1>2 DEF BuildInv

\* An entry is added: what was there stays, and controls alone apply.
LEMMA AddBuild ==
    ASSUME TypeInv, BuildInv,
           NEW id \in ID, NEW e \in [says : Text \union {Blank}, appliesTo : SUBSET Resource],
           e.appliesTo # {} <=> id.kind = "control",
           Add(id, e)
    PROVE  /\ OnlyControls(entries')
           /\ Have(id.kind)'
           /\ \A kind : Have(kind) => Have(kind)'
<1>1. EntriesOK BY DEF TypeInv
<1>2. /\ DOMAIN entries' = DOMAIN entries \union {id}
      /\ entries'[id] = e
      /\ \A y \in DOMAIN entries : entries'[y] = entries[y]
  BY <1>1, AddFacts
<1>3. OnlyControls(entries') BY <1>2 DEF OnlyControls, BuildInv
<1>4. QED BY <1>2, <1>3 DEF Have

LEMMA FlushBuild ==
    ASSUME TypeInv, BuildInv, Flush
    PROVE  OnlyControls(entries') /\ \A kind : Have(kind) => Have(kind)'
<1>1. /\ DOMAIN entries \subseteq DOMAIN entries'
      /\ \A y \in DOMAIN entries : entries'[y] = entries[y]
      /\ \A y \in DOMAIN entries' \ DOMAIN entries :
            y.kind = "decision" /\ entries'[y].appliesTo = {}
  BY FlushFacts
<1>2. QED BY <1>1 DEF OnlyControls, Have, BuildInv

LEMMA BuildInit == Init => BuildInv
<1> SUFFICES ASSUME Init PROVE BuildInv
  OBVIOUS
<1>1. OnlyControls(entries) BY EmptyFacts DEF Init, OnlyControls
<1>2. QED BY <1>1 DEF Init, BuildInv, Progress

LEMMA BuildNext == TypeInv /\ BuildInv /\ [Next]_vars => BuildInv'
<1> SUFFICES ASSUME TypeInv, BuildInv, [Next]_vars PROVE BuildInv'
  OBVIOUS
<1>1. CASE Abandon BY <1>1, AbandonBuild
<1>2. CASE Open
  BY <1>2 DEF Open, Unread, index, BuildInv, Progress, Have
<1>3. ASSUME NEW n \in Name \union {Malformed}, NEW t \in Text \union {Blank},
             NEW named \in BOOLEAN, Checkov(n, t, named), ~Abandon
      PROVE  BuildInv'
  <2> DEFINE id == [kind |-> "checkov", name |-> n]
             e == [says |-> t, appliesTo |-> {}]
  <2>1. Add(id, e) /\ Entered("checkov") /\ UNCHANGED <<loaded, mapping>>
    BY <1>3 DEF Checkov, Refused
  <2>2. id \in ID /\ e \in [says : Text \union {Blank}, appliesTo : SUBSET Resource]
    BY EntryFacts, KindFacts
  <2>3. OnlyControls(entries') /\ \A kind : Have(kind) => Have(kind)'
    BY <2>1, <2>2, AddBuild
  <2>4. step = 1 BY <2>1 DEF Entered, Reads, Reading, Sources, TypeInv, Standing
  <2>5. QED
    BY <2>1, <2>3, <2>4 DEF Entered, Reads, BuildInv, Progress, Reading
<1>4. ASSUME NEW n \in Name \union {Malformed}, NEW t \in Text \union {Blank},
             Row(n, t), ~Abandon
      PROVE  BuildInv'
  <2> DEFINE id == [kind |-> "threat", name |-> n]
             e == [says |-> t, appliesTo |-> {}]
             row == [is |-> "row", name |-> n, text |-> t]
  <2>1. step = 2 /\ Reads("threat", row)
    BY <1>4 DEF Row, Refused, Reads, Reading, Sources, TypeInv, Standing
  <2>2. CASE UNCHANGED <<loaded, index>>
    BY <2>1, <2>2 DEF Reads, Reading, index, BuildInv, Progress, Have
  <2>3. CASE Add(id, e) /\ UNCHANGED mapping
    <3>1. id \in ID /\ e \in [says : Text \union {Blank}, appliesTo : SUBSET Resource]
      BY EntryFacts, KindFacts
    <3>2. OnlyControls(entries') /\ Have("threat")' BY <2>3, <3>1, AddBuild
    <3>3. QED BY <2>1, <2>3, <3>2 DEF Reads, Reading, BuildInv, Progress
  <2>4. QED BY <1>4, <2>2, <2>3 DEF Row, Refused
<1>5. ASSUME NEW n \in Name \union {Malformed}, NEW t \in Text \union {Blank},
             NEW proven \in BOOLEAN, NEW rs \in SUBSET Resource,
             Control(n, t, proven, rs), ~Abandon
      PROVE  BuildInv'
  <2> DEFINE id == [kind |-> "control", name |-> n]
             e == [says |-> t, appliesTo |-> rs]
  <2>1. Add(id, e) /\ rs # {} /\ Entered("control") /\ UNCHANGED <<loaded, mapping>>
    BY <1>5 DEF Control, Refused, Proven
  <2>2. id \in ID /\ e \in [says : Text \union {Blank}, appliesTo : SUBSET Resource]
    BY EntryFacts, KindFacts
  <2>3. /\ OnlyControls(entries') /\ Have("control")'
        /\ \A kind : Have(kind) => Have(kind)'
    BY <2>1, <2>2, AddBuild
  <2>4. QED
    BY <2>1, <2>3 DEF Entered, Reads, Reading, BuildInv, Progress
<1>6. ASSUME NEW findings \in BOOLEAN, Section(findings) PROVE BuildInv'
  <2>1. step = 2 BY <1>6 DEF Section, Reads, Reading, Sources, TypeInv, Standing
  <2>2. QED
    BY <1>6, <2>1 DEF Section, Reads, Reading, index, BuildInv, Progress, Have
<1>7. ASSUME NEW h \in Heading \union {Blank}, DecisionHeading(h), ~Abandon PROVE BuildInv'
  <2>1. step = 3 /\ Flush /\ UNCHANGED <<loaded, mapping>>
    BY <1>7 DEF DecisionHeading, Refused, Reads, Reading, Sources, TypeInv, Standing
  <2>2. OnlyControls(entries') /\ \A kind : Have(kind) => Have(kind)'
    BY <2>1, FlushBuild
  <2>3. QED
    BY <1>7, <2>1, <2>2 DEF DecisionHeading, Refused, Reads, Reading, BuildInv, Progress
<1>8. ASSUME NEW t \in Text \union {Blank}, DecisionLine(t) PROVE BuildInv'
  <2>1. step = 3 BY <1>8 DEF DecisionLine, Reads, Reading, Sources, TypeInv, Standing
  <2>2. QED
    BY <1>8, <2>1 DEF DecisionLine, Reads, Reading, index, BuildInv, Progress, Have
<1>9. ASSUME NEW c \in Category \union {Blank}, NEW ps \in SUBSET Pairing, Map(c, ps)
      PROVE  BuildInv'
  <2>1. step = 5 BY <1>9 DEF Map, Entered, Reads, Reading, Sources, TypeInv, Standing
  <2>2. QED
    BY <1>9, <2>1 DEF Map, Entered, Reads, Reading, BuildInv, Progress, Have
<1>10. CASE EndCheckov /\ ~Abandon
  <2>1. step = 1 BY <1>10 DEF EndCheckov, Reading, Sources, TypeInv, Standing
  <2>2. QED BY <1>10, <2>1 DEF EndCheckov, Reading, Finish, BuildInv, Progress, Have
<1>11. CASE EndThreats /\ ~Abandon
  <2>1. step = 2 BY <1>11 DEF EndThreats, Reading, Sources, TypeInv, Standing
  <2>2. QED BY <1>11, <2>1 DEF EndThreats, Reading, Finish, BuildInv, Progress, Have
<1>12. CASE EndDecisions /\ ~Abandon
  <2>1. step = 3 /\ Flush /\ Finish /\ pc = "reading"
    BY <1>12 DEF EndDecisions, Reading, Sources, TypeInv, Standing
  <2>2. OnlyControls(entries') /\ \A kind : Have(kind) => Have(kind)'
    BY <2>1, FlushBuild
  <2>3. QED BY <2>1, <2>2 DEF Finish, BuildInv, Progress
<1>13. CASE EndControls /\ ~Abandon
  <2>1. step = 4 BY <1>13 DEF EndControls, Reading, Sources, TypeInv, Standing
  <2>2. QED BY <1>13, <2>1 DEF EndControls, Reading, Finish, BuildInv, Progress, Have
<1>14. CASE EndMapping /\ ~Abandon
  <2>1. step = 5 BY <1>14 DEF EndMapping, Reading, Sources, TypeInv, Standing
  <2>2. QED BY <1>14, <2>1 DEF EndMapping, Reading, Finish, BuildInv, Progress, Have
<1>15. CASE Validate /\ ~Abandon
  BY <1>15 DEF Validate, scan, index, TypeInv, Standing, BuildInv, Progress, Have
<1>16. CASE Write /\ ~Abandon
  <2>1. image' = built /\ pc' # "failed" /\ pc # "failed" /\ UNCHANGED <<step, scan, index, served>>
    BY <1>16 DEF Write
  <2>2. OnlyControls(image'.entries) BY <2>1 DEF built, BuildInv
  <2>3. step' = 6 BY <1>16, <2>1 DEF Write, TypeInv, Standing
  <2>4. QED BY <2>1, <2>2, <2>3 DEF scan, index, BuildInv, Progress, Have
<1>17. CASE Serve
  <2>1. image # None /\ pc # "failed" /\ pc' # "failed" /\ step' = 6
    BY <1>17 DEF Serve, TypeInv, Standing
  <2>2. QED
    BY <1>17, <2>1 DEF Serve, scan, index, TypeInv, Standing, BuildInv, Progress, Have
<1>18. ASSUME NEW id \in WellFormed, Damage(id) PROVE BuildInv'
  <2>1. image # None /\ step = 6 /\ IndexOK(image)
    BY <1>18 DEF Damage, TypeInv, Standing
  <2>2. image = [entries |-> image.entries, mapping |-> image.mapping]
    BY <2>1 DEF IndexOK, Index
  <2>3. image'.entries = [i \in DOMAIN image.entries \ {id} |-> image.entries[i]]
    BY <1>18, <2>2 DEF Damage
  <2>4. OnlyControls(image'.entries)
    BY <2>1, <2>3 DEF OnlyControls, BuildInv
  <2>5. QED
    BY <1>18, <2>1, <2>4 DEF Damage, scan, index, BuildInv, Progress, Have
<1>19. CASE UNCHANGED vars
  BY <1>19 DEF vars, scan, index, BuildInv, Progress, Have
<1>20. Unreadable => Abandon BY DEF Unreadable
<1>21. QED
  BY <1>1, <1>2, <1>3, <1>4, <1>5, <1>6, <1>7, <1>8, <1>9, <1>10, <1>11, <1>12, <1>13,
     <1>14, <1>15, <1>16, <1>17, <1>18, <1>19, <1>20
     DEF Next

LEMMA BuildCorrect == Spec => [](TypeInv /\ BuildInv)
BY TypeInit, TypeNext, BuildInit, BuildNext, PTL DEF Spec

-----------------------------------------------------------------------------
(* The theorems.                                                              *)

\* Whatever the sources say and whatever the image loses, a pairing the worker
\* serves cites something and resolves to all of it.
THEOREM PairingsResolve == Spec => []PairingsPrice
<1>1. TypeInv /\ BuildInv => PairingsPrice
  <2> SUFFICES ASSUME BuildInv, served # None,
                      NEW c \in DOMAIN served.mapping, NEW p \in served.mapping[c]
               PROVE  p.cite # {} /\ p.cite \subseteq Resolve(served, c, p.resource)
    BY DEF PairingsPrice
  <2>1. p.cite # {} /\ p.cite \subseteq DOMAIN served.entries
    BY DEF BuildInv, Valid
  <2>2. p.cite \in {q.cite : q \in {x \in served.mapping[c] : x.resource = p.resource}}
    OBVIOUS
  <2>3. p.cite \subseteq Cited(served, c, p.resource)
    BY ONLY <2>2 DEF Cited
  <2>4. QED BY <2>1, <2>3 DEF Resolve
<1>2. QED BY <1>1, BuildCorrect, PTL

\* What can anchor a contradiction is a control, and each control can.
THEOREM ControlsApply == Spec => []ControlsAnchor
<1>1. BuildInv => ControlsAnchor BY DEF BuildInv, OnlyControls, ControlsAnchor
<1>2. QED BY <1>1, BuildCorrect, PTL

\* An index that is written has threat model findings, controls and a mapping.
THEOREM SourcesRead == Spec => []SourcesPresent
<1>1. TypeInv /\ BuildInv => SourcesPresent
  BY DEF TypeInv, Standing, BuildInv, Progress, Have, SourcesPresent
<1>2. QED BY <1>1, BuildCorrect, PTL

\* What an id stands for never changes while the index is built.
THEOREM NothingReplaced == Spec => NeverReplaced
<1>1. TypeInv /\ [Next]_vars => [pc' # "failed" => \A id \in DOMAIN entries :
          id \in DOMAIN entries' /\ entries'[id] = entries[id]]_vars
  <2> SUFFICES ASSUME TypeInv, Next, pc' # "failed", NEW id \in DOMAIN entries
               PROVE  id \in DOMAIN entries' /\ entries'[id] = entries[id]
    BY DEF vars
  <2>1. CASE UNCHANGED entries BY <2>1
  <2>2. ASSUME NEW x, NEW e, Add(x, e)
        PROVE  id \in DOMAIN entries' /\ entries'[id] = entries[id]
    BY <2>2 DEF Add, Addable, Put
  <2>3. CASE Flush BY <2>1, <2>2, <2>3 DEF Flush
  <2>4. UNCHANGED entries \/ Flush \/ \E x, e : Add(x, e)
    BY DEF Next, Open, Unreadable, Abandon, Checkov, Refused, Row, Control, Section,
           DecisionHeading, DecisionLine, Map, EndCheckov, EndThreats, EndDecisions,
           EndControls, EndMapping, Finish, Validate, Write, Serve, Damage, index
  <2>5. QED BY <2>1, <2>2, <2>3, <2>4
<1>2. QED BY <1>1, TypeInit, TypeNext, PTL DEF Spec, NeverReplaced

-----------------------------------------------------------------------------
(* What the two Markdown loaders make of the lines they have read so far.     *)

\* The lines before the j-th leave the findings table open; a finding; what the
\* findings are.
InTable(ls, j) ==
    \E k \in 1..(j - 1) :
        /\ ls[k].is = "section" /\ ls[k].findings
        /\ \A l \in (k + 1)..(j - 1) : ls[l].is # "section"
Found(ls) == {j \in 1..Len(ls) : ls[j].is = "row" /\ ls[j].name # Malformed /\ InTable(ls, j)}
Findings(ls) == {<<ls[i].name, ls[i].text>> : i \in Found(ls)}

\* The headings with text, those another heading follows, the last heading of
\* any kind; the Decision lines of a heading and the entry they make of it.
Heads(ls) == {i \in 1..Len(ls) : ls[i].is = "heading" /\ ls[i].heading # Blank}
Over(ls, i) == \E k \in (i + 1)..Len(ls) : ls[k].is = "heading"
Shut(ls) == {i \in Heads(ls) : Over(ls, i)}
SaysIn(ls, i) == {j \in (i + 1)..Len(ls) :
    /\ ls[j].is = "decision" /\ ls[j].text # Blank
    /\ \A k \in (i + 1)..j : ls[k].is # "heading"}
First(S) == {j \in S : \A k \in S : j <= k}
Made(ls, i) == {<<Anchor[ls[i].heading], ls[j].text>> : j \in First(SaysIn(ls, i))}
Written(ls, S) == UNION {Made(ls, i) : i \in S}
Unsaid(ls, S) == {ls[i].heading : i \in {h \in S : SaysIn(ls, h) = {}}}

\* What LoadDecisions holds of the heading it stands under.
Held ==
    \/ heading = Blank /\ decision = Blank /\ Heads(lines) = Shut(lines)
    \/ /\ heading # Blank
       /\ \E i \in Heads(lines) :
             /\ ~Over(lines, i) /\ lines[i].heading = heading
             /\ Heads(lines) = Shut(lines) \union {i}
             /\ \/ decision = Blank /\ SaysIn(lines, i) = {}
                \/ /\ decision # Blank
                   /\ \E j \in First(SaysIn(lines, i)) : lines[j].text = decision

ThreatScan ==
    /\ step = 1 \/ (step = 2 /\ pc = "opening") => ~Have("threat")
    /\ step = 2 /\ pc = "reading" =>
          /\ inFindings <=> InTable(lines, Len(lines) + 1)
          /\ Of("threat") = Findings(lines)
    /\ step = 3 /\ pc = "opening" => Of("threat") = Findings(lines)

DecisionScan ==
    /\ step < 3 \/ (step = 3 /\ pc = "opening") => ~Have("decision") /\ skipped = {}
    /\ step = 3 /\ pc = "reading" =>
          /\ Held
          /\ Of("decision") = Written(lines, Shut(lines))
          /\ skipped = Unsaid(lines, Shut(lines))
    /\ step = 4 /\ pc = "opening" =>
          /\ Of("decision") = Written(lines, Heads(lines))
          /\ skipped = Unsaid(lines, Heads(lines))

LEMMA AppendFacts ==
    ASSUME NEW ls \in Seq(Line), NEW x \in Line
    PROVE  /\ Len(ls) \in Nat /\ Len(Append(ls, x)) = Len(ls) + 1
           /\ \A i \in 1..Len(ls) : Append(ls, x)[i] = ls[i]
           /\ Append(ls, x)[Len(ls) + 1] = x
OBVIOUS

\* One more line of the threat model, and the table and the findings it leaves.
LEMMA TableAppend ==
    ASSUME NEW ls \in Seq(Line), NEW x \in Line
    PROVE  /\ \A j \in 1..(Len(ls) + 1) : InTable(Append(ls, x), j) <=> InTable(ls, j)
           /\ InTable(Append(ls, x), Len(ls) + 2) <=>
                 \/ x.is = "section" /\ x.findings
                 \/ x.is # "section" /\ InTable(ls, Len(ls) + 1)
<1> DEFINE new == Append(ls, x)
           n == Len(ls)
<1>1. /\ n \in Nat /\ Len(new) = n + 1
      /\ \A i \in 1..n : new[i] = ls[i]
      /\ new[n + 1] = x
  BY AppendFacts
<1> HIDE DEF new, n
<1>2. \A j \in 1..(n + 1) : InTable(new, j) <=> InTable(ls, j)
  <2> SUFFICES ASSUME NEW j \in 1..(n + 1) PROVE InTable(new, j) <=> InTable(ls, j)
    OBVIOUS
  <2>1. \A k \in 1..(j - 1) : new[k] = ls[k] BY <1>1
  <2>2. \A k \in 1..(j - 1) : \A l \in (k + 1)..(j - 1) : new[l] = ls[l] BY <1>1
  <2>3. QED BY <2>1, <2>2 DEF InTable
<1>3. InTable(new, n + 2) <=>
          \/ x.is = "section" /\ x.findings
          \/ x.is # "section" /\ InTable(ls, n + 1)
  <2>1. ASSUME InTable(new, n + 2)
        PROVE  \/ x.is = "section" /\ x.findings
               \/ x.is # "section" /\ InTable(ls, n + 1)
    <3>1. PICK k \in 1..(n + 1) :
              /\ new[k].is = "section" /\ new[k].findings
              /\ \A l \in (k + 1)..(n + 1) : new[l].is # "section"
      BY <2>1, <1>1 DEF InTable
    <3>2. CASE k = n + 1 BY <3>1, <3>2, <1>1
    <3>3. CASE k # n + 1
      <4>1. x.is # "section" BY <3>1, <3>3, <1>1
      <4>2. k \in 1..n /\ \A l \in (k + 1)..n : new[l] = ls[l] /\ l \in (k + 1)..(n + 1)
        BY <3>3, <1>1
      <4>3. QED BY <3>1, <4>1, <4>2, <1>1 DEF InTable
    <3>4. QED BY <3>2, <3>3
  <2>2. ASSUME x.is = "section" /\ x.findings PROVE InTable(new, n + 2)
    <3>1. n + 1 \in 1..(n + 2 - 1) /\ \A l \in (n + 2)..(n + 2 - 1) : FALSE BY <1>1
    <3>2. QED BY <2>2, <3>1, <1>1 DEF InTable
  <2>3. ASSUME x.is # "section", InTable(ls, n + 1) PROVE InTable(new, n + 2)
    <3>1. PICK k \in 1..n :
              /\ ls[k].is = "section" /\ ls[k].findings
              /\ \A l \in (k + 1)..n : ls[l].is # "section"
      BY <2>3, <1>1 DEF InTable
    <3>2. \A l \in (k + 1)..(n + 1) : new[l].is # "section" BY <3>1, <2>3, <1>1
    <3>3. QED BY <3>1, <3>2, <1>1 DEF InTable
  <2>4. QED BY <2>1, <2>2, <2>3
<1>4. QED BY <1>2, <1>3 DEF new, n

LEMMA FindingsAppend ==
    ASSUME NEW ls \in Seq(Line), NEW x \in Line
    PROVE  Findings(Append(ls, x)) =
               Findings(ls) \union
                   {y \in {<<x.name, x.text>>} :
                       x.is = "row" /\ x.name # Malformed /\ InTable(ls, Len(ls) + 1)}
<1> DEFINE new == Append(ls, x)
           n == Len(ls)
           more == {j \in {n + 1} : x.is = "row" /\ x.name # Malformed /\ InTable(ls, n + 1)}
<1>1. /\ n \in Nat /\ n = Len(ls) /\ Len(new) = n + 1
      /\ \A i \in 1..n : new[i] = ls[i]
      /\ new[n + 1] = x
  BY AppendFacts
<1>2. \A j \in 1..(n + 1) : InTable(new, j) <=> InTable(ls, j) BY TableAppend
<1> HIDE DEF new, n
<1>3. Found(new) = Found(ls) \union more
  <2>1. \A j \in 1..n : j \in Found(new) <=> j \in Found(ls) BY <1>1, <1>2 DEF Found
  <2>2. n + 1 \in Found(new) <=> n + 1 \in more BY <1>1, <1>2 DEF Found
  <2>3. Found(new) \subseteq 1..n \union {n + 1} /\ Found(ls) \subseteq 1..n
    BY <1>1 DEF Found
  <2>4. more \subseteq {n + 1} /\ n + 1 \notin 1..n BY <1>1
  <2> HIDE DEF more
  <2>5. QED BY <2>1, <2>2, <2>3, <2>4
<1>4. Found(ls) \subseteq 1..n BY <1>1 DEF Found
<1>5. Findings(new) = Findings(ls) \union {<<new[i].name, new[i].text>> : i \in more}
  BY <1>1, <1>3, <1>4 DEF Findings
<1>6. {<<new[i].name, new[i].text>> : i \in more} =
          {y \in {<<x.name, x.text>>} :
              x.is = "row" /\ x.name # Malformed /\ InTable(ls, n + 1)}
  BY <1>1
<1>7. QED BY <1>5, <1>6 DEF new, n

\* No line, no table and no findings; no heading and no entry.
LEMMA NoLines ==
    /\ ~InTable(<<>>, 1) /\ Findings(<<>>) = {}
    /\ Heads(<<>>) = {} /\ Shut(<<>>) = {}
    /\ Written(<<>>, {}) = {} /\ Unsaid(<<>>, {}) = {}
BY DEF InTable, Findings, Found, Heads, Shut, Written, Unsaid

\* What the entries of a kind say after one is added.
LEMMA AddSays ==
    ASSUME EntriesOK,
           NEW id \in ID, NEW e \in [says : Text \union {Blank}, appliesTo : SUBSET Resource],
           Add(id, e)
    PROVE  /\ Of(id.kind)' = Of(id.kind) \union {<<id.name, e.says>>}
           /\ \A kind : kind # id.kind => Of(kind)' = Of(kind)
           /\ \A kind : kind # id.kind => (Have(kind)' <=> Have(kind))
<1>1. /\ DOMAIN entries' = DOMAIN entries \union {id}
      /\ id \notin DOMAIN entries
      /\ entries'[id] = e
      /\ \A y \in DOMAIN entries : entries'[y] = entries[y]
  BY AddFacts
<1>2. \A kind : kind # id.kind =>
          {i \in DOMAIN entries' : i.kind = kind} = {i \in DOMAIN entries : i.kind = kind}
  BY <1>1
<1>3. {i \in DOMAIN entries' : i.kind = id.kind} =
          {i \in DOMAIN entries : i.kind = id.kind} \union {id}
  BY <1>1
<1>4. Of(id.kind)' = Of(id.kind) \union {<<id.name, e.says>>}
  BY <1>1, <1>3 DEF Of
<1>5. \A kind : kind # id.kind => Of(kind)' = Of(kind)
  BY <1>1, <1>2 DEF Of
<1>6. QED BY <1>1, <1>4, <1>5 DEF Have

LEMMA NoneSays ==
    ASSUME NEW kind, ~Have(kind) PROVE Of(kind) = {}
BY DEF Have, Of

\* One more line of decisions.md, and what the headings before it say.
LEMMA SaysAppend ==
    ASSUME NEW ls \in Seq(Line), NEW x \in Line, NEW i \in 1..Len(ls)
    PROVE  SaysIn(Append(ls, x), i) =
               SaysIn(ls, i) \union
                   {j \in {Len(ls) + 1} :
                       x.is = "decision" /\ x.text # Blank /\ ~Over(ls, i)}
<1> DEFINE new == Append(ls, x)
           n == Len(ls)
           more == {j \in {n + 1} : x.is = "decision" /\ x.text # Blank /\ ~Over(ls, i)}
<1>1. /\ n \in Nat /\ n = Len(ls) /\ Len(new) = n + 1
      /\ \A j \in 1..n : new[j] = ls[j]
      /\ new[n + 1] = x
  BY AppendFacts
<1> HIDE DEF new, n
<1>2. \A j \in (i + 1)..n : j \in SaysIn(new, i) <=> j \in SaysIn(ls, i)
  <2> SUFFICES ASSUME NEW j \in (i + 1)..n
               PROVE  j \in SaysIn(new, i) <=> j \in SaysIn(ls, i)
    OBVIOUS
  <2>1. new[j] = ls[j] /\ \A k \in (i + 1)..j : new[k] = ls[k] BY <1>1
  <2>2. j \in (i + 1)..Len(new) /\ j \in (i + 1)..Len(ls) BY <1>1
  <2>3. QED BY <2>1, <2>2 DEF SaysIn
<1>3. n + 1 \in SaysIn(new, i) <=> n + 1 \in more
  <2>1. n + 1 \in (i + 1)..Len(new) BY <1>1
  <2>2. n + 1 \in SaysIn(new, i) <=>
            /\ x.is = "decision" /\ x.text # Blank
            /\ \A k \in (i + 1)..(n + 1) : new[k].is # "heading"
    BY <2>1, <1>1 DEF SaysIn
  <2>3. x.is = "decision" =>
            ((\A k \in (i + 1)..(n + 1) : new[k].is # "heading") <=> ~Over(ls, i))
    <3>1. (i + 1)..(n + 1) = ((i + 1)..n) \union {n + 1} BY <1>1
    <3>2. \A k \in (i + 1)..n : new[k] = ls[k] BY <1>1
    <3>3. QED BY <3>1, <3>2, <1>1 DEF Over
  <2>4. QED BY <2>2, <2>3
<1>4. SaysIn(new, i) \subseteq ((i + 1)..n) \union {n + 1} /\ SaysIn(ls, i) \subseteq (i + 1)..n
  BY <1>1 DEF SaysIn
<1>5. more \subseteq {n + 1} /\ n + 1 \notin (i + 1)..n BY <1>1
<1>6. SaysIn(new, i) = SaysIn(ls, i) \union more
  <2> HIDE DEF more
  <2>1. QED BY <1>2, <1>3, <1>4, <1>5
<1>7. QED BY <1>6 DEF new, n

\* Headings whose lines are untouched make the same entries.
LEMMA WrittenSame ==
    ASSUME NEW ls \in Seq(Line), NEW x \in Line, NEW S \in SUBSET (1..Len(ls)),
           \A i \in S : SaysIn(Append(ls, x), i) = SaysIn(ls, i)
    PROVE  Written(Append(ls, x), S) = Written(ls, S) /\ Unsaid(Append(ls, x), S) = Unsaid(ls, S)
<1> DEFINE new == Append(ls, x)
<1>1. \A j \in 1..Len(ls) : new[j] = ls[j] BY AppendFacts
<1> HIDE DEF new
<1>2. \A i \in S : SaysIn(new, i) = SaysIn(ls, i) /\ new[i] = ls[i] BY <1>1 DEF new
<1>3. \A i \in S : Made(new, i) = Made(ls, i)
  <2> SUFFICES ASSUME NEW i \in S PROVE Made(new, i) = Made(ls, i)
    OBVIOUS
  <2>1. First(SaysIn(ls, i)) \subseteq 1..Len(ls) BY DEF First, SaysIn
  <2>2. QED BY <1>1, <1>2, <2>1 DEF Made
<1>4. Written(new, S) = Written(ls, S) BY <1>3 DEF Written
<1>5. {h \in S : SaysIn(new, h) = {}} = {h \in S : SaysIn(ls, h) = {}} BY <1>2
<1>6. Unsaid(new, S) = Unsaid(ls, S) BY <1>2, <1>5 DEF Unsaid
<1>7. QED BY <1>4, <1>6 DEF new

\* A line that is no heading leaves the headings as they stand.
LEMMA LineAppend ==
    ASSUME NEW ls \in Seq(Line), NEW x \in Line, x.is # "heading"
    PROVE  /\ Heads(Append(ls, x)) = Heads(ls)
           /\ \A i \in 1..Len(ls) : Over(Append(ls, x), i) <=> Over(ls, i)
           /\ Shut(Append(ls, x)) = Shut(ls)
           /\ Written(Append(ls, x), Shut(ls)) = Written(ls, Shut(ls))
           /\ Unsaid(Append(ls, x), Shut(ls)) = Unsaid(ls, Shut(ls))
<1> DEFINE new == Append(ls, x)
           n == Len(ls)
<1>1. /\ n \in Nat /\ n = Len(ls) /\ Len(new) = n + 1
      /\ \A j \in 1..n : new[j] = ls[j]
      /\ new[n + 1] = x
  BY AppendFacts
<1> HIDE DEF new, n
<1>2. Heads(new) = Heads(ls)
  <2>1. \A j \in 1..n : j \in Heads(new) <=> j \in Heads(ls) BY <1>1 DEF Heads
  <2>2. n + 1 \notin Heads(new) BY <1>1 DEF Heads
  <2>3. Heads(new) \subseteq 1..n \union {n + 1} /\ Heads(ls) \subseteq 1..n
    BY <1>1 DEF Heads
  <2>4. QED BY <2>1, <2>2, <2>3
<1>3. \A i \in 1..n : Over(new, i) <=> Over(ls, i)
  <2> SUFFICES ASSUME NEW i \in 1..n PROVE Over(new, i) <=> Over(ls, i)
    OBVIOUS
  <2>1. (i + 1)..(n + 1) = ((i + 1)..n) \union {n + 1} BY <1>1
  <2>2. \A k \in (i + 1)..n : new[k] = ls[k] BY <1>1
  <2>3. QED BY <2>1, <2>2, <1>1 DEF Over
<1>4. Heads(ls) \subseteq 1..n BY <1>1 DEF Heads
<1>5. Shut(new) = Shut(ls) BY <1>2, <1>3, <1>4 DEF Shut
<1>6. Shut(ls) \in SUBSET (1..Len(ls)) BY DEF Shut, Heads
<1>7. \A i \in Shut(ls) : SaysIn(new, i) = SaysIn(ls, i)
  <2> SUFFICES ASSUME NEW i \in Shut(ls) PROVE SaysIn(new, i) = SaysIn(ls, i)
    OBVIOUS
  <2>1. i \in 1..Len(ls) /\ Over(ls, i) BY <1>6 DEF Shut
  <2>2. SaysIn(new, i) =
            SaysIn(ls, i) \union
                {j \in {Len(ls) + 1} :
                    x.is = "decision" /\ x.text # Blank /\ ~Over(ls, i)}
    BY <2>1, SaysAppend DEF new
  <2>3. QED BY <2>1, <2>2
<1>8. Written(new, Shut(ls)) = Written(ls, Shut(ls)) /\ Unsaid(new, Shut(ls)) = Unsaid(ls, Shut(ls))
  BY <1>6, <1>7, WrittenSame DEF new
<1>9. QED BY <1>1, <1>2, <1>3, <1>5, <1>8 DEF new

\* A heading shuts every heading before it.
LEMMA HeadingAppend ==
    ASSUME NEW ls \in Seq(Line), NEW x \in Line, x.is = "heading"
    PROVE  /\ Heads(Append(ls, x)) = Heads(ls) \union {j \in {Len(ls) + 1} : x.heading # Blank}
           /\ Shut(Append(ls, x)) = Heads(ls)
           /\ ~Over(Append(ls, x), Len(ls) + 1)
           /\ SaysIn(Append(ls, x), Len(ls) + 1) = {}
           /\ Written(Append(ls, x), Heads(ls)) = Written(ls, Heads(ls))
           /\ Unsaid(Append(ls, x), Heads(ls)) = Unsaid(ls, Heads(ls))
<1> DEFINE new == Append(ls, x)
           n == Len(ls)
           more == {j \in {n + 1} : x.heading # Blank}
<1>1. /\ n \in Nat /\ n = Len(ls) /\ Len(new) = n + 1
      /\ \A j \in 1..n : new[j] = ls[j]
      /\ new[n + 1] = x
  BY AppendFacts
<1> HIDE DEF new, n
<1>2. Heads(new) = Heads(ls) \union more
  <2>1. \A j \in 1..n : j \in Heads(new) <=> j \in Heads(ls) BY <1>1 DEF Heads
  <2>2. n + 1 \in Heads(new) <=> n + 1 \in more BY <1>1 DEF Heads
  <2>3. Heads(new) \subseteq 1..n \union {n + 1} /\ Heads(ls) \subseteq 1..n
    BY <1>1 DEF Heads
  <2>4. more \subseteq {n + 1} /\ n + 1 \notin 1..n BY <1>1
  <2> HIDE DEF more
  <2>5. QED BY <2>1, <2>2, <2>3, <2>4
<1>3. \A i \in 1..n : Over(new, i)
  <2>1. \A i \in 1..n : n + 1 \in (i + 1)..Len(new) BY <1>1
  <2>2. QED BY <2>1, <1>1 DEF Over
<1>4. ~Over(new, n + 1) /\ SaysIn(new, n + 1) = {}
  <2>1. ((n + 1) + 1)..Len(new) = {} BY <1>1
  <2>2. QED BY <2>1 DEF Over, SaysIn
<1>5. Heads(ls) \subseteq 1..n BY <1>1 DEF Heads
<1>6. Shut(new) = Heads(ls) BY <1>2, <1>3, <1>4, <1>5 DEF Shut
<1>7. Heads(ls) \in SUBSET (1..Len(ls)) BY DEF Heads
<1>8. \A i \in Heads(ls) : SaysIn(new, i) = SaysIn(ls, i)
  <2> SUFFICES ASSUME NEW i \in Heads(ls) PROVE SaysIn(new, i) = SaysIn(ls, i)
    OBVIOUS
  <2>1. i \in 1..Len(ls) /\ x.is # "decision" BY <1>7
  <2>2. SaysIn(new, i) =
            SaysIn(ls, i) \union
                {j \in {Len(ls) + 1} :
                    x.is = "decision" /\ x.text # Blank /\ ~Over(ls, i)}
    BY <2>1, SaysAppend DEF new
  <2>3. QED BY <2>1, <2>2
<1>9. Written(new, Heads(ls)) = Written(ls, Heads(ls)) /\ Unsaid(new, Heads(ls)) = Unsaid(ls, Heads(ls))
  BY <1>7, <1>8, WrittenSame DEF new
<1>10. QED BY <1>2, <1>4, <1>6, <1>9 DEF new, n

\* flush makes the entry of the heading it stands under, or reports it.
LEMMA FlushScan ==
    ASSUME TypeInv, Held, Flush,
           Of("decision") = Written(lines, Shut(lines)),
           skipped = Unsaid(lines, Shut(lines))
    PROVE  /\ decision' = Blank
           /\ Of("decision")' = Written(lines, Heads(lines))
           /\ skipped' = Unsaid(lines, Heads(lines))
<1>1. CASE heading = Blank
  <2>1. decision = Blank /\ Heads(lines) = Shut(lines) BY <1>1 DEF Held
  <2>2. UNCHANGED <<entries, skipped, decision>> BY <1>1 DEF Flush
  <2>3. QED BY <2>1, <2>2 DEF Of
<1>2. CASE heading # Blank
  <2>1. PICK i \in Heads(lines) :
            /\ ~Over(lines, i) /\ lines[i].heading = heading
            /\ Heads(lines) = Shut(lines) \union {i}
            /\ \/ decision = Blank /\ SaysIn(lines, i) = {}
               \/ /\ decision # Blank
                  /\ \E j \in First(SaysIn(lines, i)) : lines[j].text = decision
    BY <1>2 DEF Held
  <2>2. Written(lines, Heads(lines)) = Written(lines, Shut(lines)) \union Made(lines, i)
    BY <2>1 DEF Written
  <2>3. CASE decision = Blank
    <3>1. SaysIn(lines, i) = {} BY <2>1, <2>3
    <3>2. Made(lines, i) = {} BY <3>1 DEF Made, First
    <3>3. Unsaid(lines, Heads(lines)) = Unsaid(lines, Shut(lines)) \union {heading}
      BY <2>1, <3>1 DEF Unsaid
    <3>4. skipped' = skipped \union {heading} /\ UNCHANGED <<entries, decision>>
      BY <1>2, <2>3 DEF Flush
    <3>5. QED BY <2>2, <2>3, <3>2, <3>3, <3>4 DEF Of
  <2>4. CASE decision # Blank
    <3>1. PICK j \in First(SaysIn(lines, i)) : lines[j].text = decision BY <2>1, <2>4
    <3>2. SaysIn(lines, i) \subseteq Nat BY DEF SaysIn, Heads
    <3>3. First(SaysIn(lines, i)) = {j} BY <3>1, <3>2 DEF First
    <3>4. Made(lines, i) = {<<Anchor[heading], decision>>}
      BY <2>1, <3>1, <3>3 DEF Made
    <3>5. SaysIn(lines, i) # {} BY <3>1 DEF First
    <3>6. Unsaid(lines, Heads(lines)) = Unsaid(lines, Shut(lines))
      BY <2>1, <3>5 DEF Unsaid
    <3>7. Add(DecisionID(heading), DecisionEntry) /\ decision' = Blank /\ UNCHANGED skipped
      BY <1>2, <2>4 DEF Flush
    <3>8. /\ DecisionID(heading) \in ID
          /\ DecisionEntry \in [says : Text \union {Blank}, appliesTo : SUBSET Resource]
      BY <1>2, AnchorAssumption
         DEF DecisionID, DecisionEntry, ID, TypeInv, ScanOK, Kinds, Sources
    <3>9. /\ DecisionID(heading).kind = "decision"
          /\ DecisionID(heading).name = Anchor[heading]
          /\ DecisionEntry.says = decision
      BY DEF DecisionID, DecisionEntry
    <3>10. EntriesOK BY DEF TypeInv
    <3>11. Of("decision")' = Of("decision") \union {<<Anchor[heading], decision>>}
      BY <3>7, <3>8, <3>9, <3>10, AddSays
    <3>12. QED BY <2>2, <3>4, <3>6, <3>7, <3>11
  <2>5. QED BY <2>3, <2>4
<1>3. QED BY <1>1, <1>2

\* A Decision line is the entry of its heading when it is the first with text.
LEMMA HeldLine ==
    ASSUME TypeInv, Held, NEW t \in Text \union {Blank}, DecisionLine(t)
    PROVE  Held'
<1> DEFINE x == [is |-> "decision", text |-> t]
           n == Len(lines)
<1>1. lines' = Append(lines, x) /\ UNCHANGED heading
  BY DEF DecisionLine, Reads
<1>2. decision' = IF heading # Blank /\ decision = Blank THEN t ELSE decision
  BY DEF DecisionLine
<1>3. lines \in Seq(Line) /\ x \in Line BY LineFacts DEF TypeInv, ScanOK
<1>4. /\ Heads(lines') = Heads(lines) /\ Shut(lines') = Shut(lines)
      /\ \A i \in 1..n : Over(lines', i) <=> Over(lines, i)
  BY <1>1, <1>3, LineAppend
<1>5. n \in Nat /\ lines'[n + 1] = x /\ \A j \in 1..n : lines'[j] = lines[j]
  BY <1>1, <1>3, AppendFacts
<1>6. CASE heading = Blank
  BY <1>1, <1>2, <1>4, <1>6 DEF Held
<1>7. CASE heading # Blank
  <2>1. PICK i \in Heads(lines) :
            /\ ~Over(lines, i) /\ lines[i].heading = heading
            /\ Heads(lines) = Shut(lines) \union {i}
            /\ \/ decision = Blank /\ SaysIn(lines, i) = {}
               \/ /\ decision # Blank
                  /\ \E j \in First(SaysIn(lines, i)) : lines[j].text = decision
    BY <1>7 DEF Held
  <2>2. i \in 1..n BY DEF Heads
  <2>3. SaysIn(lines', i) = SaysIn(lines, i) \union {j \in {n + 1} : t # Blank}
    <3>1. SaysIn(lines', i) = SaysIn(lines, i) \union
              {j \in {n + 1} : x.is = "decision" /\ x.text # Blank /\ ~Over(lines, i)}
      BY <1>1, <1>3, <2>2, SaysAppend
    <3>2. QED BY <2>1, <3>1
  <2>4. SaysIn(lines, i) \subseteq 1..n BY <2>2, <1>5 DEF SaysIn
  <2>5. \/ decision' = Blank /\ SaysIn(lines', i) = {}
        \/ /\ decision' # Blank
           /\ \E j \in First(SaysIn(lines', i)) : lines'[j].text = decision'
    <3>1. CASE decision = Blank /\ t = Blank BY <1>2, <1>7, <2>1, <2>3, <3>1
    <3>2. CASE decision = Blank /\ t # Blank
      <4>1. decision' = t /\ SaysIn(lines', i) = {n + 1} BY <1>2, <1>7, <2>1, <2>3, <3>2
      <4>2. n + 1 \in First(SaysIn(lines', i)) BY <4>1, <1>5 DEF First
      <4>3. lines'[n + 1].text = t BY <1>5
      <4>4. QED BY <3>2, <4>1, <4>2, <4>3
    <3>3. CASE decision # Blank
      <4>1. PICK j \in First(SaysIn(lines, i)) : lines[j].text = decision BY <2>1, <3>3
      <4>2. j \in 1..n BY <2>4, <4>1 DEF First
      <4>3. j \in First(SaysIn(lines', i)) BY <1>5, <2>3, <4>1, <4>2 DEF First
      <4>4. lines'[j].text = decision /\ decision' = decision BY <1>2, <1>5, <3>3, <4>1, <4>2
      <4>5. QED BY <3>3, <4>3, <4>4
    <3>4. QED BY <3>1, <3>2, <3>3
  <2>6. i \in Heads(lines') /\ ~Over(lines', i) /\ lines'[i].heading = heading'
    BY <1>1, <1>4, <1>5, <2>1, <2>2
  <2>7. Heads(lines') = Shut(lines') \union {i} BY <1>4, <2>1
  <2>8. heading' # Blank BY <1>1, <1>7
  <2>9. QED BY <2>5, <2>6, <2>7, <2>8 DEF Held
<1>8. QED BY <1>6, <1>7

\* A heading is held as it is read.
LEMMA HeldHeading ==
    ASSUME NEW h \in Heading \union {Blank}, lines \in Seq(Line),
           lines' = Append(lines, [is |-> "heading", heading |-> h]),
           heading' = h, decision' = Blank
    PROVE  Held'
<1> DEFINE x == [is |-> "heading", heading |-> h]
           n == Len(lines)
<1>1. x \in Line /\ x.is = "heading" /\ x.heading = h BY LineFacts
<1>2. /\ Heads(lines') = Heads(lines) \union {j \in {n + 1} : h # Blank}
      /\ Shut(lines') = Heads(lines)
      /\ ~Over(lines', n + 1) /\ SaysIn(lines', n + 1) = {}
  BY <1>1, HeadingAppend
<1>3. lines'[n + 1] = x BY <1>1, AppendFacts
<1>4. CASE h = Blank BY <1>2, <1>4 DEF Held
<1>5. CASE h # Blank
  <2>1. n + 1 \in Heads(lines') /\ Heads(lines') = Shut(lines') \union {n + 1}
    BY <1>2, <1>5
  <2>2. lines'[n + 1].heading = heading' BY <1>3
  <2>3. QED BY <1>2, <1>5, <2>1, <2>2 DEF Held
<1>6. QED BY <1>4, <1>5

\* Nothing is left to scan of a build that was abandoned.
LEMMA AbandonScan == Abandon => ThreatScan' /\ DecisionScan'
<1> SUFFICES ASSUME Abandon PROVE ThreatScan' /\ DecisionScan'
  OBVIOUS
<1>1. entries' = Empty /\ skipped' = {} /\ pc' = "failed" BY DEF Abandon
<1>2. ~Have("threat")' /\ ~Have("decision")' BY <1>1, EmptyFacts DEF Have
<1>3. QED BY <1>1, <1>2 DEF ThreatScan, DecisionScan

LEMMA ScanInit == Init => ThreatScan /\ DecisionScan
<1> SUFFICES ASSUME Init PROVE ThreatScan /\ DecisionScan
  OBVIOUS
<1>1. ~Have("threat") /\ ~Have("decision") BY EmptyFacts DEF Init, Have
<1>2. QED BY <1>1 DEF Init, ThreatScan, DecisionScan

\* Where a loader stands when it reads or ends.
LEMMA StepFacts ==
    ASSUME Standing
    PROVE  /\ Reading("checkov") <=> pc = "reading" /\ step = 1
           /\ Reading("threat") <=> pc = "reading" /\ step = 2
           /\ Reading("decision") <=> pc = "reading" /\ step = 3
           /\ Reading("control") <=> pc = "reading" /\ step = 4
           /\ Reading("mapping") <=> pc = "reading" /\ step = 5
<1>1. pc = "reading" => step \in 1..5 BY DEF Standing
<1>2. /\ Sources[1] = "checkov" /\ Sources[2] = "threat" /\ Sources[3] = "decision"
      /\ Sources[4] = "control" /\ Sources[5] = "mapping"
  BY DEF Sources
<1>3. QED BY <1>1, <1>2 DEF Reading

\* Past decisions.md neither scan has anything left to say.
LEMMA LaterScan ==
    ASSUME TypeInv, step' \in 4..6, step' > 4 \/ pc' # "opening"
    PROVE  ThreatScan' /\ DecisionScan'
BY DEF ThreatScan, DecisionScan

LEMMA ScanNext == TypeInv /\ ThreatScan /\ DecisionScan /\ [Next]_vars => ThreatScan' /\ DecisionScan'
<1> SUFFICES ASSUME TypeInv, ThreatScan, DecisionScan, [Next]_vars
             PROVE  ThreatScan' /\ DecisionScan'
  OBVIOUS
<1> USE StepFacts DEF TypeInv
<1>1. CASE Abandon BY <1>1, AbandonScan
<1>2. CASE Open
  <2>1. /\ pc = "opening" /\ pc' = "reading" /\ UNCHANGED <<step, entries, skipped>>
        /\ lines' = <<>> /\ inFindings' = FALSE
        /\ heading' = Blank /\ decision' = Blank
    BY <1>2 DEF Open, Unread, index
  <2>2. Len(lines') + 1 = 1 BY <2>1
  <2>3. ThreatScan'
    <3>1. step = 2 => Of("threat") = {} BY <2>1, NoneSays DEF ThreatScan
    <3>2. QED BY <2>1, <2>2, <3>1, NoLines DEF ThreatScan, Of, Have
  <2>4. DecisionScan'
    <3>1. step = 3 => Of("decision") = {} BY <2>1, NoneSays DEF DecisionScan
    <3>2. Held' BY <2>1, NoLines DEF Held
    <3>3. QED BY <2>1, <3>1, <3>2, NoLines DEF DecisionScan, Of, Have
  <2>5. QED BY <2>3, <2>4
<1>3. ASSUME NEW n \in Name \union {Malformed}, NEW t \in Text \union {Blank},
             NEW named \in BOOLEAN, Checkov(n, t, named), ~Abandon
      PROVE  ThreatScan' /\ DecisionScan'
  <2> DEFINE id == [kind |-> "checkov", name |-> n]
             e == [says |-> t, appliesTo |-> {}]
  <2>1. Add(id, e) /\ Entered("checkov") /\ UNCHANGED skipped
    BY <1>3 DEF Checkov, Refused
  <2>2. id \in ID /\ e \in [says : Text \union {Blank}, appliesTo : SUBSET Resource]
    BY EntryFacts, KindFacts
  <2>3. (Have("threat")' <=> Have("threat")) /\ (Have("decision")' <=> Have("decision"))
    <3>1. id.kind # "threat" /\ id.kind # "decision" OBVIOUS
    <3> HIDE DEF id, e
    <3>2. QED BY <2>1, <2>2, <3>1, AddSays
  <2>4. step = 1 /\ step' = 1 /\ pc' = "reading" BY <2>1 DEF Entered, Reads
  <2>5. QED BY <2>1, <2>3, <2>4 DEF ThreatScan, DecisionScan
<1>4. ASSUME NEW n \in Name \union {Malformed}, NEW t \in Text \union {Blank},
             Row(n, t), ~Abandon
      PROVE  ThreatScan' /\ DecisionScan'
  <2> DEFINE id == [kind |-> "threat", name |-> n]
             e == [says |-> t, appliesTo |-> {}]
             row == [is |-> "row", name |-> n, text |-> t]
             more == {y \in {<<row.name, row.text>>} :
                         row.is = "row" /\ row.name # Malformed /\ InTable(lines, Len(lines) + 1)}
  <2>1. Reads("threat", row) /\ UNCHANGED <<inFindings, skipped>>
    BY <1>4 DEF Row, Refused, index
  <2>2. step = 2 /\ step' = 2 /\ pc = "reading" /\ pc' = "reading" /\ lines' = Append(lines, row)
    BY <2>1 DEF Reads
  <2>3. lines \in Seq(Line) /\ row \in Line BY LineFacts DEF ScanOK
  <2>4. Findings(lines') = Findings(lines) \union more BY <2>2, <2>3, FindingsAppend
  <2>5. inFindings' <=> InTable(lines', Len(lines') + 1)
    <3>1. Len(lines') + 1 = Len(lines) + 2 BY <2>2, <2>3, AppendFacts
    <3>2. InTable(lines', Len(lines) + 2) <=>
              \/ row.is = "section" /\ row.findings
              \/ row.is # "section" /\ InTable(lines, Len(lines) + 1)
      BY <2>2, <2>3, TableAppend
    <3>3. row.is # "section" OBVIOUS
    <3>4. inFindings <=> InTable(lines, Len(lines) + 1) BY <2>2 DEF ThreatScan
    <3>5. QED BY <2>1, <3>1, <3>2, <3>3, <3>4
  <2>6. Of("threat")' = Findings(lines') /\ (Have("decision")' <=> Have("decision"))
    <3>1. Of("threat") = Findings(lines) /\ (inFindings <=> InTable(lines, Len(lines) + 1))
      BY <2>2 DEF ThreatScan
    <3>2. CASE ~Numbered(n) /\ UNCHANGED index
      <4>1. more = {} BY <3>1, <3>2 DEF Numbered
      <4>2. QED BY <2>4, <3>1, <3>2, <4>1 DEF index, Of, Have
    <3>3. CASE Numbered(n) /\ Add(id, e)
      <4>1. more = {<<n, t>>} BY <3>1, <3>3 DEF Numbered
      <4>2. id \in ID /\ e \in [says : Text \union {Blank}, appliesTo : SUBSET Resource]
        BY EntryFacts, KindFacts
      <4>3. id.kind = "threat" /\ id.name = n /\ e.says = t /\ "decision" # id.kind
        OBVIOUS
      <4>4. /\ Of("threat")' = Of("threat") \union {<<n, t>>}
            /\ Have("decision")' <=> Have("decision")
        <5> HIDE DEF id, e
        <5>1. QED BY <3>3, <4>2, <4>3, AddSays
      <4>5. QED BY <2>4, <3>1, <4>1, <4>4
    <3>4. QED BY <1>4, <3>2, <3>3 DEF Row, Refused
  <2>7. QED BY <2>1, <2>2, <2>5, <2>6 DEF ThreatScan, DecisionScan
<1>5. ASSUME NEW n \in Name \union {Malformed}, NEW t \in Text \union {Blank},
             NEW proven \in BOOLEAN, NEW rs \in SUBSET Resource,
             Control(n, t, proven, rs), ~Abandon
      PROVE  ThreatScan' /\ DecisionScan'
  <2>1. Entered("control") BY <1>5 DEF Control, Refused
  <2>2. step' = 4 /\ pc' = "reading" BY <2>1 DEF Entered, Reads
  <2>3. QED BY <2>2, LaterScan
<1>6. ASSUME NEW findings \in BOOLEAN, Section(findings)
      PROVE  ThreatScan' /\ DecisionScan'
  <2> DEFINE x == [is |-> "section", findings |-> findings]
  <2>1. Reads("threat", x) /\ inFindings' = findings /\ UNCHANGED <<entries, skipped>>
    BY <1>6 DEF Section, index
  <2>2. step = 2 /\ step' = 2 /\ pc = "reading" /\ pc' = "reading" /\ lines' = Append(lines, x)
    BY <2>1 DEF Reads
  <2>3. lines \in Seq(Line) /\ x \in Line BY LineFacts DEF ScanOK
  <2>4. Findings(lines') = Findings(lines) \union
            {y \in {<<x.name, x.text>>} :
                x.is = "row" /\ x.name # Malformed /\ InTable(lines, Len(lines) + 1)}
    BY <2>2, <2>3, FindingsAppend
  <2>5. x.is = "section" /\ x.findings = findings OBVIOUS
  <2>6. Findings(lines') = Findings(lines)
    <3>1. x.is # "row" OBVIOUS
    <3> HIDE DEF x
    <3>2. QED BY <2>4, <3>1
  <2>7. inFindings' <=> InTable(lines', Len(lines') + 1)
    <3>1. Len(lines') + 1 = Len(lines) + 2 BY <2>2, <2>3, AppendFacts
    <3>2. InTable(lines', Len(lines) + 2) <=>
              \/ x.is = "section" /\ x.findings
              \/ x.is # "section" /\ InTable(lines, Len(lines) + 1)
      BY <2>2, <2>3, TableAppend
    <3>3. QED BY <2>1, <2>5, <3>1, <3>2
  <2>8. QED BY <2>1, <2>2, <2>6, <2>7 DEF ThreatScan, DecisionScan, Of, Have
<1>7. ASSUME NEW h \in Heading \union {Blank}, DecisionHeading(h), ~Abandon
      PROVE  ThreatScan' /\ DecisionScan'
  <2> DEFINE x == [is |-> "heading", heading |-> h]
  <2>1. Reads("decision", x) /\ Flush /\ heading' = h
    BY <1>7 DEF DecisionHeading, Refused
  <2>2. step = 3 /\ step' = 3 /\ pc = "reading" /\ pc' = "reading" /\ lines' = Append(lines, x)
    BY <2>1 DEF Reads
  <2>3. lines \in Seq(Line) /\ x \in Line /\ x.is = "heading" BY LineFacts DEF ScanOK
  <2>4. /\ Held
        /\ Of("decision") = Written(lines, Shut(lines))
        /\ skipped = Unsaid(lines, Shut(lines))
    BY <2>2 DEF DecisionScan
  <2>5. /\ decision' = Blank
        /\ Of("decision")' = Written(lines, Heads(lines))
        /\ skipped' = Unsaid(lines, Heads(lines))
    BY <2>1, <2>4, FlushScan
  <2>6. Held' BY <2>1, <2>2, <2>3, <2>5, HeldHeading
  <2>7. /\ Shut(lines') = Heads(lines)
        /\ Written(lines', Heads(lines)) = Written(lines, Heads(lines))
        /\ Unsaid(lines', Heads(lines)) = Unsaid(lines, Heads(lines))
    <3> HIDE DEF x
    <3>1. QED BY <2>2, <2>3, HeadingAppend
  <2>8. QED BY <2>2, <2>5, <2>6, <2>7 DEF ThreatScan, DecisionScan
<1>8. ASSUME NEW t \in Text \union {Blank}, DecisionLine(t)
      PROVE  ThreatScan' /\ DecisionScan'
  <2> DEFINE x == [is |-> "decision", text |-> t]
  <2>1. Reads("decision", x) /\ UNCHANGED <<entries, skipped>>
    BY <1>8 DEF DecisionLine, index
  <2>2. step = 3 /\ step' = 3 /\ pc = "reading" /\ pc' = "reading" /\ lines' = Append(lines, x)
    BY <2>1 DEF Reads
  <2>3. lines \in Seq(Line) /\ x \in Line /\ x.is # "heading" BY LineFacts DEF ScanOK
  <2>4. /\ Held
        /\ Of("decision") = Written(lines, Shut(lines))
        /\ skipped = Unsaid(lines, Shut(lines))
    BY <2>2 DEF DecisionScan
  <2>5. Held' BY <1>8, <2>4, HeldLine
  <2>6. /\ Shut(lines') = Shut(lines)
        /\ Written(lines', Shut(lines)) = Written(lines, Shut(lines))
        /\ Unsaid(lines', Shut(lines)) = Unsaid(lines, Shut(lines))
    <3> HIDE DEF x
    <3>1. QED BY <2>2, <2>3, LineAppend
  <2>7. QED BY <2>1, <2>2, <2>4, <2>5, <2>6 DEF ThreatScan, DecisionScan, Of
<1>9. ASSUME NEW c \in Category \union {Blank}, NEW ps \in SUBSET Pairing, Map(c, ps)
      PROVE  ThreatScan' /\ DecisionScan'
  <2>1. step' = 5 /\ pc' = "reading" BY <1>9 DEF Map, Entered, Reads
  <2>2. QED BY <2>1, LaterScan
<1>10. CASE EndCheckov /\ ~Abandon
  <2>1. /\ step = 1 /\ step' = 2 /\ pc' = "opening" /\ UNCHANGED <<entries, skipped>>
    BY <1>10 DEF EndCheckov, Finish
  <2>2. QED BY <2>1 DEF ThreatScan, DecisionScan, Have
<1>11. CASE EndThreats /\ ~Abandon
  <2>1. /\ step = 2 /\ pc = "reading" /\ step' = 3 /\ pc' = "opening"
        /\ UNCHANGED <<lines, entries, skipped>>
    BY <1>11 DEF EndThreats, Finish
  <2>2. QED BY <2>1 DEF ThreatScan, DecisionScan, Have, Of
<1>12. CASE EndDecisions /\ ~Abandon
  <2>1. /\ step = 3 /\ pc = "reading" /\ step' = 4 /\ pc' = "opening"
        /\ UNCHANGED lines /\ Flush
    BY <1>12 DEF EndDecisions, Finish
  <2>2. /\ Held
        /\ Of("decision") = Written(lines, Shut(lines))
        /\ skipped = Unsaid(lines, Shut(lines))
    BY <2>1 DEF DecisionScan
  <2>3. /\ Of("decision")' = Written(lines, Heads(lines))
        /\ skipped' = Unsaid(lines, Heads(lines))
    BY <2>1, <2>2, FlushScan
  <2>4. QED BY <2>1, <2>3 DEF ThreatScan, DecisionScan
<1>13. CASE (EndControls \/ EndMapping) /\ ~Abandon
  <2>1. step' \in 5..6 BY <1>13 DEF EndControls, EndMapping, Finish
  <2>2. QED BY <2>1, LaterScan
<1>14. CASE (Validate \/ Write) /\ ~Abandon
  <2>1. step' = 6 BY <1>14 DEF Validate, Write, Standing
  <2>2. QED BY <2>1, LaterScan
<1>15. CASE Serve
  <2>1. step' = 6 BY <1>15 DEF Serve, Standing
  <2>2. QED BY <2>1, LaterScan
<1>16. ASSUME NEW id \in WellFormed, Damage(id) PROVE ThreatScan' /\ DecisionScan'
  <2>1. step' = 6 BY <1>16 DEF Damage, Standing
  <2>2. QED BY <2>1, LaterScan
<1>17. CASE UNCHANGED vars
  BY <1>17 DEF vars, scan, index, ThreatScan, DecisionScan, Held, Have, Of
<1>18. Unreadable => Abandon BY DEF Unreadable
<1>19. QED
  BY <1>1, <1>2, <1>3, <1>4, <1>5, <1>6, <1>7, <1>8, <1>9, <1>10, <1>11, <1>12, <1>13,
     <1>14, <1>15, <1>16, <1>17, <1>18
     DEF Next

LEMMA ScanCorrect == Spec => [](ThreatScan /\ DecisionScan)
BY TypeInit, TypeNext, ScanInit, ScanNext, PTL DEF Spec

\* However long the threat model is, once it is read its entries are the
\* numbered rows below the last Findings heading before them, and no others.
THEOREM FindingsRead == Spec => []FindingsRowsOnly
<1>1. ThreatScan => FindingsRowsOnly
  BY DEF ThreatScan, FindingsRowsOnly, Findings, Found, InTable
<1>2. QED BY <1>1, ScanCorrect, PTL

\* However many headings decisions.md has, each one with a Decision line is the
\* entry that says what the first of them says, and the rest are reported.
THEOREM DecisionsRead == Spec => []DecisionsAsWritten
<1>1. DecisionScan => DecisionsAsWritten
  <2> SUFFICES ASSUME DecisionScan, pc = "opening", step = 4
               PROVE  DecisionsAsWritten
    BY DEF DecisionsAsWritten
  <2>1. /\ Of("decision") = Written(lines, Heads(lines))
        /\ skipped = Unsaid(lines, Heads(lines))
    BY DEF DecisionScan
  <2>2. \A i : Says(i) = SaysIn(lines, i) BY DEF Says, SaysIn
  <2> DEFINE entry(i) ==
                 {<<Anchor[lines[i].heading], lines[j].text>> :
                     j \in {j \in Says(i) : \A k \in Says(i) : j <= k}}
             headings == {i \in 1..Len(lines) : lines[i].is = "heading" /\ lines[i].heading # Blank}
  <2>3. headings = Heads(lines) BY DEF Heads
  <2>4. \A i : entry(i) = Made(lines, i)
    <3> SUFFICES ASSUME NEW i PROVE entry(i) = Made(lines, i)
      OBVIOUS
    <3>1. {j \in Says(i) : \A k \in Says(i) : j <= k} = First(SaysIn(lines, i))
      BY <2>2 DEF First
    <3>2. QED BY <3>1 DEF Made
  <2>5. UNION {entry(i) : i \in headings} = Written(lines, Heads(lines))
    <3> HIDE DEF entry, headings
    <3>1. QED BY <2>3, <2>4 DEF Written
  <2>6. {lines[i].heading : i \in {h \in headings : Says(h) = {}}} = Unsaid(lines, Heads(lines))
    <3> HIDE DEF headings
    <3>1. QED BY <2>2, <2>3 DEF Unsaid
  <2>7. QED BY <2>1, <2>5, <2>6 DEF DecisionsAsWritten
<1>2. QED BY <1>1, ScanCorrect, PTL
=============================================================================
