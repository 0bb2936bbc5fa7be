--------------------------- MODULE CountersProofs ---------------------------
(* What a sole worker counts: its counters, on top of the triage of findings, *)
(* agree with the ledger.                                                     *)
EXTENDS Counters, SoleProofs, FiniteSetTheorems

-----------------------------------------------------------------------------
(* What a sole worker reports.                                                *)

\* The counts taken leave the triage of findings as it is.
LEMMA CountingNext == [CNext]_cvars => [Next]_vars
BY DEF CNext, Moves, Silent, Report, Vanish, Stop, cvars, Next, Step

CountsOK ==
    /\ counts \in [Worker -> [Counter -> Nat]]
    /\ logged \in [Worker -> [Tracked -> Nat]]
    /\ published \in [Worker -> [Tracked -> Nat]]
    /\ unlogged \in [Worker -> BOOLEAN]
    /\ \A w \in Worker, c \in Tracked : logged[w][c] <= counts[w][c]

\* What is known of the counts stays, or some of it goes with the process, which
\* is then on record.
Kept(w) ==
    /\ \A c \in Tracked : Known(w, c)' <= Known(w, c)
    /\ ~unlogged'[w] => ~unlogged[w] /\ \A c \in Tracked : Known(w, c)' = Known(w, c)

Moved(w, up) ==
    /\ unlogged'[w] = unlogged[w]
    /\ \A c \in Tracked : Known(w, c)' = Known(w, c) + (IF c = up THEN 1 ELSE 0)

LEMMA TrackedCounts == Tracked \subseteq Counter
BY DEF Tracked, Counter

LEMMA KnownNat ==
    ASSUME CountsOK, NEW w \in Worker, NEW c \in Tracked
    PROVE  /\ Known(w, c) \in Nat
           /\ counts[w][c] \in Nat /\ logged[w][c] \in Nat /\ published[w][c] \in Nat
BY TrackedCounts DEF CountsOK, Known

LEMMA AddMoves ==
    ASSUME CountsOK, NEW w \in Worker, NEW moved \in SUBSET Counter, Add(w, moved)
    PROVE  /\ CountsOK'
           /\ unlogged'[w] = unlogged[w]
           /\ \A c \in Tracked : Known(w, c)' = Known(w, c) + (IF c \in moved THEN 1 ELSE 0)
<1>1. /\ counts' = [counts EXCEPT ![w] =
                       [c \in Counter |-> IF c \in moved THEN @[c] + 1 ELSE @[c]]]
      /\ logged' = logged /\ published' = published /\ unlogged' = unlogged
  BY DEF Add, history
<1>2. \A v \in Worker, c \in Counter : counts[v][c] \in Nat
  BY DEF CountsOK
<1>3. counts' \in [Worker -> [Counter -> Nat]]
  BY <1>1, <1>2 DEF CountsOK
<1>4. \A v \in Worker, c \in Tracked :
          counts'[v][c] = counts[v][c] + (IF v = w /\ c \in moved THEN 1 ELSE 0)
  BY <1>1, <1>2, TrackedCounts DEF CountsOK
<1>5. \A v \in Worker, c \in Tracked : logged[v][c] \in Nat /\ published[v][c] \in Nat
  BY DEF CountsOK
<1>6. \A v \in Worker, c \in Tracked : logged'[v][c] <= counts'[v][c]
  BY <1>1, <1>2, <1>4, <1>5, TrackedCounts DEF CountsOK
<1>7. CountsOK'
  BY <1>1, <1>3, <1>6 DEF CountsOK
<1>8. \A c \in Tracked : Known(w, c)' = Known(w, c) + (IF c \in moved THEN 1 ELSE 0)
  <2>1. ASSUME NEW c \in Tracked
        PROVE  Known(w, c)' = Known(w, c) + (IF c \in moved THEN 1 ELSE 0)
    <3>1. counts'[w][c] = counts[w][c] + (IF c \in moved THEN 1 ELSE 0)
      BY <1>4
    <3>2. published'[w][c] = published[w][c]
      BY <1>1
    <3>3. counts[w][c] \in Nat /\ published[w][c] \in Nat
      BY <1>2, <1>5, TrackedCounts
    <3>4. QED BY <3>1, <3>2, <3>3 DEF Known
  <2>2. QED BY <2>1
<1>9. QED BY <1>1, <1>7, <1>8

\* A report adds nothing to what is known, and takes nothing away.
LEMMA ReportKeeps ==
    ASSUME CountsOK, NEW w \in Worker, Report(w) PROVE CountsOK' /\ Kept(w)
<1>1. /\ logged' = [logged EXCEPT ![w] = [c \in Tracked |-> counts[w][c]]]
      /\ counts' = counts /\ published' = published /\ unlogged' = unlogged
  BY DEF Report, history
<1>2. \A v \in Worker, c \in Tracked : counts[v][c] \in Nat /\ published[v][c] \in Nat
  BY TrackedCounts DEF CountsOK
<1>3. logged' \in [Worker -> [Tracked -> Nat]]
  BY <1>1, <1>2 DEF CountsOK
<1>4. \A v \in Worker, c \in Tracked : logged'[v][c] <= counts[v][c]
  BY <1>1, <1>2 DEF CountsOK
<1>5. QED BY <1>1, <1>2, <1>3, <1>4 DEF CountsOK, Kept, Known

\* A process that ends leaves what it logged or, stopped cleanly, all of it.
LEMMA ForgetKeeps ==
    ASSUME CountsOK, NEW w \in Worker, NEW final,
           \A c \in Tracked : final[c] \in Nat /\ final[c] <= counts[w][c],
           Forget(w, final)
    PROVE  CountsOK' /\ Kept(w)
<1>1. /\ counts' = [counts EXCEPT ![w] = [c \in Counter |-> 0]]
      /\ logged' = [logged EXCEPT ![w] = Zero]
      /\ published' = [published EXCEPT ![w] = [c \in Tracked |-> @[c] + final[c]]]
      /\ unlogged' = [unlogged EXCEPT ![w] = @ \/ \E c \in Tracked : final[c] # counts[w][c]]
  BY DEF Forget
<1>2. \A v \in Worker, c \in Tracked :
          counts[v][c] \in Nat /\ logged[v][c] \in Nat /\ published[v][c] \in Nat
  BY TrackedCounts DEF CountsOK
<1>3. counts' \in [Worker -> [Counter -> Nat]]
  BY <1>1 DEF CountsOK
<1>4. logged' \in [Worker -> [Tracked -> Nat]]
  BY <1>1 DEF CountsOK, Zero
<1>5. published' \in [Worker -> [Tracked -> Nat]]
  BY <1>1, <1>2 DEF CountsOK
<1>6. unlogged' \in [Worker -> BOOLEAN]
  BY <1>1 DEF CountsOK
<1>7. \A v \in Worker, c \in Tracked : logged'[v][c] <= counts'[v][c]
  BY <1>1, <1>2, TrackedCounts DEF CountsOK, Zero
<1>8. \A c \in Tracked : Known(w, c)' = published[w][c] + final[c]
  <2>1. \A c \in Tracked : counts'[w][c] = 0 /\ published'[w][c] = published[w][c] + final[c]
    BY <1>1, TrackedCounts DEF CountsOK
  <2>2. QED BY <1>2, <2>1 DEF Known
<1>9. \A c \in Tracked : Known(w, c)' <= Known(w, c)
  BY <1>2, <1>8 DEF Known
<1>10. ~unlogged'[w] => ~unlogged[w] /\ \A c \in Tracked : final[c] = counts[w][c]
  BY <1>1 DEF CountsOK
<1>11. QED BY <1>3, <1>4, <1>5, <1>6, <1>7, <1>8, <1>9, <1>10 DEF CountsOK, Kept, Known

\* w has emitted an entry, or passed over one another handling emitted.
Telling(w) == pc[w] \in {"notified", "acked"} /\ Notifies(record[w])

\* Which step counts what: the verdict with the write of it, the entry with its
\* emission; a step that fails counts neither, and any other writes no verdict.
LEMMA CountsMove ==
    ASSUME Alone, TypeInv, CountsOK, [CNext]_cvars, NEW w \in Worker
    PROVE  /\ CountsOK'
           /\ faults' = faults \/ faults' = faults + 1
           /\ \/ Classify(w) /\ Moved(w, Settled(record[w].settledBy))
              \/ Emit(w) /\ Moved(w, "notifications_sent")
              \/ Fail(w) /\ Kept(w) /\ faults' = faults + 1
              \/ /\ Kept(w)
                 /\ pc[w] = "receipted" => UNCHANGED ledger
                 /\ Telling(w)' => Telling(w) /\ UNCHANGED KeyOf(w)
<1>1. LocalOK
  BY DEF TypeInv
<1>2. \A v \in Worker : v = w
  BY DEF Alone
<1>3. \A c \in Tracked : Known(w, c) \in Nat
  BY KnownNat
<1>4. UNCHANGED <<counts, logged, history>> => CountsOK' /\ Kept(w)
  BY <1>3 DEF CountsOK, Kept, Known, history
<1>5. ASSUME NEW moved \in SUBSET Counter, moved \cap Tracked = {}, Add(w, moved)
      PROVE  CountsOK' /\ Kept(w)
  <2>1. /\ CountsOK' /\ unlogged'[w] = unlogged[w]
        /\ \A c \in Tracked : Known(w, c)' = Known(w, c) + 0
    BY <1>5, AddMoves
  <2>2. QED BY <1>3, <2>1 DEF Kept
<1>6. ASSUME NEW c \in Tracked, Add(w, {c}) PROVE CountsOK' /\ Moved(w, c)
  <2>1. {c} \in SUBSET Counter
    BY TrackedCounts
  <2>2. QED BY <1>6, <2>1, AddMoves DEF Moved
<1>7. CASE Classify(w) /\ Add(w, {Settled(record[w].settledBy)})
  <2>1. Settled(record[w].settledBy) \in Tracked
    BY DEF Settled, Tracked
  <2>2. QED BY <1>6, <1>7, <2>1 DEF Classify
<1>8. CASE Emit(w) /\ Add(w, {"notifications_sent"})
  BY <1>6, <1>8 DEF Emit, Tracked
<1>9. CASE Fail(w) /\ Add(w, {"failed"})
  BY <1>5, <1>9 DEF Fail, Fault, Tracked, Counter
<1>10. CASE \/ (Refuse(w) \/ Skip(w)) /\ Add(w, {Turned(w)})
            \/ Resume(w) /\ Add(w, Seen(w))
            \/ Load(w) /\ Add(w, Loaded(w))
  <2>1. CountsOK' /\ Kept(w)
    BY <1>5, <1>10 DEF Turned, Seen, Loaded, Tracked, Counter
  <2>2. faults' = faults \/ faults' = faults + 1
    BY <1>10 DEF Refuse, Skip, Resume, Load, Ack, Fault
  <2>3. pc'[w] \notin {"notified", "acked"} /\ UNCHANGED ledger
    BY <1>1, <1>10 DEF Refuse, Skip, Resume, Load, Return, Goto, LocalOK
  <2>4. QED BY <2>1, <2>2, <2>3 DEF Telling
<1>11. CASE Silent(w)
  <2>1. CountsOK' /\ Kept(w)
    BY <1>5, <1>11 DEF Silent
  <2>2. faults' = faults \/ faults' = faults + 1
    BY <1>11
       DEF Silent, Drop, Decide, Receive, Attempt, StayQuiet, Acknowledge, Close, Start, Ack, Fault
  <2>3. pc[w] = "receipted" => UNCHANGED ledger
    BY <1>11
       DEF Silent, Drop, Decide, Receive, Attempt, StayQuiet, Acknowledge, Close, Start, Goto
  <2>4. Telling(w)' => Telling(w) /\ UNCHANGED KeyOf(w)
    BY <1>1, <1>11
       DEF Silent, Drop, Decide, Receive, Attempt, StayQuiet, Acknowledge, Close, Start,
           Goto, Return, LocalOK, local, Telling, Notifies, KeyOf
  <2>5. QED BY <2>1, <2>2, <2>3, <2>4
<1>12. CASE Report(w)
  <2>1. UNCHANGED vars
    BY <1>12 DEF Report
  <2>2. QED BY <1>12, <2>1, ReportKeeps DEF vars, local, Telling, Notifies, KeyOf
<1>13. CASE Vanish(w) \/ Stop(w)
  <2>1. \A c \in Tracked : /\ counts[w][c] \in Nat /\ logged[w][c] \in Nat
                           /\ logged[w][c] <= counts[w][c]
    BY KnownNat DEF CountsOK
  <2>2. Forget(w, logged[w]) \/ Forget(w, counts[w])
    BY <1>13 DEF Vanish, Stop
  <2>3. CountsOK' /\ Kept(w)
    BY <2>1, <2>2, ForgetKeeps
  <2>4. Crash(w) \/ Drill(w)
    BY <1>13 DEF Vanish, Stop
  <2>5. /\ UNCHANGED ledger /\ pc'[w] = "down"
        /\ faults' = faults \/ faults' = faults + 1
    BY <1>1, <2>4 DEF Crash, Drill, Fault, Return, LocalOK
  <2>6. QED BY <2>3, <2>5 DEF Telling
<1>14. ASSUME NEW m \in Message, Pull(w, m), Add(w, {"received"})
       PROVE  /\ CountsOK' /\ Kept(w) /\ faults' = faults
              /\ UNCHANGED ledger /\ ~Telling(w)'
  <2>1. CountsOK' /\ Kept(w)
    BY <1>5, <1>14 DEF Tracked, Counter
  <2>2. QED BY <1>1, <1>14, <2>1 DEF Pull, Goto, LocalOK, Telling
<1>15. CASE \/ \E m \in Message : (Expire(m) \/ LoseLease(m)) /\ UNCHANGED <<counts, logged, history>>
            \/ UNCHANGED cvars
  <2>1. /\ UNCHANGED <<counts, logged, history, ledger, pc, local>>
        /\ faults' = faults \/ faults' = faults + 1
    BY <1>15 DEF Expire, LoseLease, Fault, cvars, vars
  <2>2. QED BY <1>4, <2>1 DEF Telling, Notifies, KeyOf, local
<1>16. QED
  BY <1>2, <1>7, <1>8, <1>9, <1>10, <1>11, <1>12, <1>13, <1>14, <1>15 DEF CNext, Moves

OnRecord(by) == {k \in Key : Has(k, Classified) /\ ledger[k][Classified].settledBy = by}

\* The closed findings whose owner had to be told.
ToldClosed == {k \in Key : Closed(k) /\ Notifies(ledger[k][Classified])}

\* The finding in hand will be one more of them.
Pending(w) == IF Telling(w) /\ ~Closed(KeyOf(w)) THEN 1 ELSE 0

SettledAgree(w, by) ==
    /\ IsFiniteSet(OnRecord(by))
    /\ Known(w, Settled(by)) <= Cardinality(OnRecord(by))
    /\ unlogged[w] \/ Cardinality(OnRecord(by)) <= Known(w, Settled(by)) + faults

ToldAgree(w) ==
    /\ IsFiniteSet(ToldClosed)
    /\ unlogged[w] \/ Cardinality(ToldClosed) + Pending(w) <= Known(w, "notifications_sent")

CountedInv ==
    /\ CountsOK
    /\ \A w \in Worker : ToldAgree(w) /\ \A by \in {"rules", "model"} : SettledAgree(w, by)

\* What a sole worker may rely on at each of its steps.
SoleInv == TypeInv /\ OrderInv /\ AloneInv /\ NoMissedNotification

LEMMA CountedInit == CInit => CountedInv
<1> SUFFICES ASSUME CInit PROVE CountedInv
  OBVIOUS
<1>1. \A k \in Key : ~Has(k, Classified) /\ ~Has(k, Acknowledged)
  BY DEF CInit, Init, EmptyLedger, Has, States, Classified, Acknowledged
<1>2. ToldClosed = {} /\ \A by \in {"rules", "model"} : OnRecord(by) = {}
  BY <1>1 DEF CInit, Init, ToldClosed, OnRecord, Closed, Triaged
<1>3. \A w \in Worker : Pending(w) = 0 /\ \A c \in Tracked : Known(w, c) = 0
  BY TrackedCounts DEF CInit, Init, Pending, Telling, Known, Zero
<1>4. CountsOK /\ faults = 0
  BY TrackedCounts DEF CInit, Init, CountsOK, Zero
<1>5. QED
  BY <1>2, <1>3, <1>4, FS_EmptySet
     DEF CountedInv, ToldAgree, SettledAgree, Settled, Tracked

\* A verdict comes on record with the step that counts it or with a fault.
LEMMA OnRecordNext ==
    ASSUME Alone, SoleInv, CountedInv, [CNext]_cvars, NEW w \in Worker,
           NEW by \in {"rules", "model"}
    PROVE  SettledAgree(w, by)'
<1>1. TypeInv /\ OrderInv /\ LocalOK /\ Wider /\ Grows /\ CountsOK
  BY CountingNext, NextWider, StepGrows DEF SoleInv, CountedInv, TypeInv
<1>2. /\ IsFiniteSet(OnRecord(by)) /\ Cardinality(OnRecord(by)) \in Nat
      /\ Known(w, Settled(by)) <= Cardinality(OnRecord(by))
      /\ unlogged[w] \/ Cardinality(OnRecord(by)) <= Known(w, Settled(by)) + faults
  BY FS_CardinalityType DEF CountedInv, SettledAgree
<1>3. /\ Known(w, Settled(by)) \in Nat /\ faults \in Nat /\ Settled(by) \in Tracked
      /\ CountsOK' /\ Known(w, Settled(by))' \in Nat
  <2>1. Settled(by) \in Tracked /\ CountsOK'
    BY <1>1, CountsMove DEF Settled, Tracked
  <2>2. \A c \in Tracked : Known(w, c)' \in Nat
    BY <2>1, TrackedCounts DEF CountsOK, Known
  <2>3. QED BY <1>1, <2>1, <2>2, KnownNat, BoundAssumption DEF TypeInv
<1>4. \A k \in Key : Has(k, Classified) => ledger'[k][Classified] = ledger[k][Classified]
  BY <1>1 DEF Grows, States
<1>5. faults' \in Nat /\ faults <= faults' /\ (Fail(w) => faults' = faults + 1)
  BY <1>1, <1>3, CountsMove DEF Fail, Fault
<1>6. CASE \A k \in Key : Has(k, Classified)' => Has(k, Classified)
  <2>1. OnRecord(by)' = OnRecord(by)
    BY <1>4, <1>6 DEF OnRecord, Has
  <2>2. ~Classify(w)
    <3> SUFFICES ASSUME Classify(w) PROVE FALSE
      OBVIOUS
    <3>1. pc[w] = "receipted" /\ KeyOf(w) \in Key /\ record[w] \in Record
      BY <1>1, InHand, Writes DEF Classify, Goto, TypeInv, Holding
    <3>2. ~Has(KeyOf(w), Classified)
      BY <3>1 DEF SoleInv, AloneInv, Knows
    <3>3. ledger'[KeyOf(w)][Classified] # None
      BY <1>1, <3>1, CreatedFacts DEF Classify, TypeInv, StoreOK, States
    <3>4. QED BY <1>6, <3>1, <3>2, <3>3 DEF Has
  <2>3. /\ Known(w, Settled(by))' <= Known(w, Settled(by))
        /\ ~unlogged'[w] => ~unlogged[w] /\ Known(w, Settled(by))' = Known(w, Settled(by))
    BY <1>1, <1>3, <2>2, CountsMove DEF Moved, Kept, Settled
  <2>4. QED BY <1>2, <1>3, <1>5, <2>1, <2>3 DEF SettledAgree
<1>7. ASSUME NEW k \in Key, Has(k, Classified)', ~Has(k, Classified) PROVE SettledAgree(w, by)'
  <2>1. /\ pc[w] = "receipted" /\ KeyOf(w) = k
        /\ ledger'[k][Classified] = record[w]
    BY <1>1, <1>7, VerdictSource DEF Alone
  <2>2. \A j \in Key : Has(j, Classified)' /\ ~Has(j, Classified) => j = k
    BY <1>1, <2>1, VerdictSource DEF Alone
  <2>3. record[w].settledBy \in {"rules", "model"}
    BY <1>1, <2>1, Writes DEF TypeInv, Holding, Record
  <2>4. /\ k \notin OnRecord(by)
        /\ OnRecord(by)' = IF record[w].settledBy = by THEN OnRecord(by) \union {k} ELSE OnRecord(by)
    BY <1>4, <1>7, <2>1, <2>2 DEF OnRecord, Has
  <2>5. /\ IsFiniteSet(OnRecord(by)')
        /\ Cardinality(OnRecord(by)') =
              Cardinality(OnRecord(by)) + (IF record[w].settledBy = by THEN 1 ELSE 0)
    <3>1. CASE record[w].settledBy = by
      BY <1>2, <2>4, <3>1, FS_AddElement
    <3>2. CASE record[w].settledBy # by
      BY <1>2, <2>4, <3>2
    <3>3. QED BY <3>1, <3>2
  <2>6. ledger' # ledger /\ ~Emit(w)
    BY <1>7, <2>1 DEF Has, Emit, Goto
  <2>7. \/ /\ unlogged'[w] = unlogged[w]
           /\ Known(w, Settled(by))' =
                 Known(w, Settled(by)) + (IF record[w].settledBy = by THEN 1 ELSE 0)
        \/ /\ Known(w, Settled(by))' <= Known(w, Settled(by)) /\ faults' = faults + 1
           /\ ~unlogged'[w] => ~unlogged[w] /\ Known(w, Settled(by))' = Known(w, Settled(by))
    BY <1>1, <1>3, <2>1, <2>3, <2>6, CountsMove DEF Moved, Kept, Settled
  <2>8. QED BY <1>2, <1>3, <1>5, <2>5, <2>7 DEF SettledAgree
<1>8. QED BY <1>6, <1>7

\* A finding that had to be told of was counted as told when it is closed: by
\* the handler that closes it or by one before it.
LEMMA ToldNext ==
    ASSUME Alone, SoleInv, CountedInv, [CNext]_cvars, NEW w \in Worker
    PROVE  ToldAgree(w)'
<1>1. TypeInv /\ OrderInv /\ LocalOK /\ Wider /\ Grows /\ CountsOK /\ CountsOK'
  BY CountingNext, NextWider, StepGrows, CountsMove DEF SoleInv, CountedInv, TypeInv
<1>2. /\ IsFiniteSet(ToldClosed) /\ Cardinality(ToldClosed) \in Nat
      /\ unlogged[w] \/ Cardinality(ToldClosed) + Pending(w) <= Known(w, "notifications_sent")
  BY FS_CardinalityType DEF CountedInv, ToldAgree
<1>3. /\ "notifications_sent" \in Tracked
      /\ Known(w, "notifications_sent") \in Nat /\ Known(w, "notifications_sent")' \in Nat
  <2>1. "notifications_sent" \in Tracked
    BY DEF Tracked
  <2>2. \A c \in Tracked : Known(w, c)' \in Nat
    BY <1>1, TrackedCounts DEF CountsOK, Known
  <2>3. QED BY <1>1, <2>1, <2>2, KnownNat
<1>4. \A k \in Key : Closed(k) => Closed(k)' /\ ledger'[k][Classified] = ledger[k][Classified]
  BY <1>1, ClosedStays DEF SoleInv, NoMissedNotification, Grows, States
<1>5. CASE \A k \in Key : Closed(k)' => Closed(k)
  <2>1. ToldClosed' = ToldClosed
    BY <1>4, <1>5 DEF ToldClosed, Closed, Has, Notifies
  <2>2. Pending(w) \in {0, 1} /\ Pending(w)' \in {0, 1}
    BY DEF Pending
  <2>3. CASE Emit(w) /\ Moved(w, "notifications_sent")
    <3>1. /\ unlogged'[w] = unlogged[w]
          /\ Known(w, "notifications_sent")' = Known(w, "notifications_sent") + 1
      BY <1>3, <2>3 DEF Moved
    <3>2. Pending(w) = 0
      BY <2>3 DEF Emit, Goto, Pending, Telling
    <3>3. QED BY <1>2, <1>3, <2>1, <2>2, <3>1, <3>2 DEF ToldAgree
  <2>4. CASE ~(Emit(w) /\ Moved(w, "notifications_sent"))
    <3>1. ~unlogged'[w] => /\ ~unlogged[w]
                           /\ Known(w, "notifications_sent")' = Known(w, "notifications_sent")
      BY <1>1, <1>3, <2>4, CountsMove DEF Moved, Kept, Settled
    <3>2. Telling(w)' => Telling(w) /\ UNCHANGED KeyOf(w)
      BY <1>1, <2>4, CountsMove DEF Classify, Fail, Return, Goto, LocalOK, Telling
    <3>3. Telling(w) => KeyOf(w) \in Key
      BY <1>1, InHand DEF Telling
    <3>4. Pending(w)' <= Pending(w)
      BY <1>4, <3>2, <3>3 DEF Pending
    <3>5. QED BY <1>2, <1>3, <2>1, <2>2, <3>1, <3>4 DEF ToldAgree
  <2>5. QED BY <2>3, <2>4
<1>6. ASSUME NEW k \in Key, Closed(k)', ~Closed(k) PROVE ToldAgree(w)'
  <2>1. /\ pc[w] \in {"notified", "acked"} /\ KeyOf(w) = k
        /\ Acknowledge(w) \/ Closes(w)
    BY <1>1, <1>6, ClosingSource DEF Alone
  <2>2. \A j \in Key : Closed(j)' /\ ~Closed(j) => j = k
    BY <1>1, <2>1, ClosingSource DEF Alone
  <2>3. record[w] = ledger[k][Classified] /\ Has(k, Classified)
    BY <2>1 DEF SoleInv, AloneInv, Knows, OrderInv, HandlerInv
  <2>4. ledger'[k][Classified] = ledger[k][Classified]
    BY <1>1, <2>3 DEF Grows, States
  <2>5. Pending(w) = IF Notifies(record[w]) THEN 1 ELSE 0
    BY <1>6, <2>1 DEF Pending, Telling
  <2>6. Pending(w)' = 0
    BY <1>1, <1>6, <2>1
       DEF Acknowledge, Closes, Goto, Return, LocalOK, Pending, Telling, KeyOf, local
  <2>7. /\ k \notin ToldClosed
        /\ ToldClosed' = IF Notifies(record[w]) THEN ToldClosed \union {k} ELSE ToldClosed
    BY <1>4, <1>6, <2>2, <2>3, <2>4 DEF ToldClosed, Notifies
  <2>8. /\ IsFiniteSet(ToldClosed')
        /\ Cardinality(ToldClosed') = Cardinality(ToldClosed) + Pending(w)
    <3>1. CASE Notifies(record[w])
      BY <1>2, <2>5, <2>7, <3>1, FS_AddElement
    <3>2. CASE ~Notifies(record[w])
      BY <1>2, <2>5, <2>7, <3>2
    <3>3. QED BY <3>1, <3>2
  <2>9. ~unlogged'[w] => /\ ~unlogged[w]
                         /\ Known(w, "notifications_sent")' = Known(w, "notifications_sent")
    BY <1>1, <1>3, <2>1, CountsMove
       DEF Moved, Kept, Classify, Emit, Fail, Acknowledge, Closes, Goto, Return, LocalOK
  <2>10. QED BY <1>2, <1>3, <2>5, <2>6, <2>8, <2>9 DEF ToldAgree
<1>7. QED BY <1>5, <1>6

LEMMA AlwaysSole == ASSUME Alone PROVE CSpec => []SoleInv
<1>1. CInit => SoleInv
  BY TypeInit, OrderInit, AloneInit, PricedInit DEF CInit, SoleInv, PricedInv
<1>2. SoleInv /\ [CNext]_cvars => SoleInv'
  <2> SUFFICES ASSUME SoleInv, [CNext]_cvars PROVE SoleInv'
    OBVIOUS
  <2>1. TypeInv /\ OrderInv /\ AloneInv /\ TellsInv /\ NoMissedNotification /\ Wider
    BY CountingNext, NextWider, AloneTells DEF SoleInv
  <2>2. QED BY <2>1, TypeNext, OrderNext, AloneNext, NoMissedNext DEF SoleInv
<1>3. QED BY <1>1, <1>2, PTL DEF CSpec

\* What one worker at a time reports can be held against the ledger, for any
\* messages, keys, faults, restarts and moments of a report (counters.go:5).
THEOREM CountsAgree == ASSUME IsFiniteSet(Worker) PROVE CSpec => []CountsMatchLedger
<1>1. CASE Alone /\ Cardinality(Worker) = 1
  <2>1. CSpec => []SoleInv
    BY <1>1, AlwaysSole
  <2>2. SoleInv /\ CountedInv /\ [CNext]_cvars => CountedInv'
    BY <1>1, OnRecordNext, ToldNext, CountsMove, FS_EmptySet DEF CountedInv, SoleInv
  <2>3. ASSUME SoleInv, CountedInv PROVE CountsMatchLedger
    <3>1. ASSUME NEW w \in Worker
          PROVE  unlogged[w] \/ Known(w, "notifications_sent") >= Cardinality(ToldClosed)
      <4>1. /\ "notifications_sent" \in Tracked /\ Pending(w) \in Nat
            /\ Cardinality(ToldClosed) \in Nat
            /\ unlogged[w] \/ Cardinality(ToldClosed) + Pending(w) <= Known(w, "notifications_sent")
        BY <2>3, FS_CardinalityType DEF CountedInv, ToldAgree, Tracked, Pending
      <4>2. Known(w, "notifications_sent") \in Nat
        BY <2>3, <4>1, KnownNat DEF CountedInv
      <4>3. QED BY <4>1, <4>2
    <3>2. ASSUME NEW w \in Worker, NEW by \in {"rules", "model"}
          PROVE  /\ Known(w, Settled(by)) <= Cardinality(OnRecord(by))
                 /\ unlogged[w] \/ Cardinality(OnRecord(by)) <= Known(w, Settled(by)) + faults
      BY <2>3 DEF CountedInv, SettledAgree
    <3>3. QED BY <3>1, <3>2 DEF CountsMatchLedger, OnRecord, ToldClosed
  <2>4. QED BY <2>1, <2>2, <2>3, CountedInit, PTL DEF CSpec
<1>2. CASE Cardinality(Worker) # 1
  <2>1. CountsMatchLedger
    BY <1>2 DEF CountsMatchLedger
  <2>2. QED BY <2>1, PTL
<1>3. Cardinality(Worker) = 1 => Alone
  BY FS_Singleton DEF Alone
<1>4. QED BY <1>1, <1>2, <1>3
=============================================================================
