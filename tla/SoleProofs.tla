----------------------------- MODULE SoleProofs -----------------------------
(* Theorems about a worker that runs alone, as the Deployment's one replica   *)
(* does outside a rollout, for any messages, keys, faults and deliveries.     *)
EXTENDS WorkerProofs

Alone == \A u, v \in Worker : u = v

\* What a sole handler knows beyond HandlerInv: nobody else writes under its key
\* while it is at work, so what resume read stays what is there.
Knows(w) ==
    /\ pc[w] \in {"deciding", "settled", "receipted"} => ~Has(KeyOf(w), Classified)
    /\ pc[w] \in {"recorded", "attempted", "notified", "acked"}
         => record[w] = ledger[KeyOf(w)][Classified]
    /\ pc[w] \notin {"down", "idle", "pulled", "dropping", "acked"}
         => ~Has(KeyOf(w), Acknowledged)
    /\ pc[w] \notin {"down", "idle", "acked"} => status[msg[w]] # "acked"
    /\ pc[w] = "attempted" => Notifies(record[w])
    /\ pc[w] \in {"notified", "acked"} /\ Notifies(record[w])
         => record[w] \in emitted[KeyOf(w)]

AloneInv == EmittedAsRecorded /\ \A w \in Worker : Knows(w)

LEMMA AloneInit == Init => AloneInv
BY NoneAssumption
   DEF Init, AloneInv, EmittedAsRecorded, Knows, EmptyLedger

\* Nothing further is on record than what Furthest returns.
LEMMA FurthestIsLast ==
    ASSUME NEW k \in Key, Furthest(k) # Acknowledged PROVE ~Has(k, Acknowledged)
<1> SUFFICES ASSUME Has(k, Acknowledged) PROVE FALSE
  OBVIOUS
<1>1. Acknowledged \in Present(k)
  BY DEF Present, States
<1>2. \A t \in Present(k) : ~Before(Acknowledged, t)
  BY RankFacts DEF Present, Before, States
<1>3. /\ Furthest(k) \in Present(k)
      /\ \A t \in Present(k) : ~Before(Furthest(k), t)
  BY <1>1, <1>2 DEF Furthest
<1>4. QED BY <1>1, <1>3, RankFacts DEF Before, Present, States

LEMMA EmittedNext ==
    ASSUME TypeInv, OrderInv, AloneInv, Wider PROVE EmittedAsRecorded'
<1> SUFFICES ASSUME NEW k \in Key, NEW r \in emitted'[k] PROVE r = ledger'[k][Classified]
  BY DEF EmittedAsRecorded
<1>1. Grows
  BY StepGrows
<1>2. CASE r \in emitted[k]
  <2>1. Has(k, Classified)
    BY <1>2 DEF OrderInv, AttemptBeforeEmit, LedgerShape
  <2>2. QED BY <1>1, <1>2, <2>1 DEF Grows, States, AloneInv, EmittedAsRecorded
<1>3. CASE r \notin emitted[k]
  <2>1. PICK w \in Worker : /\ pc[w] = "attempted"
                            /\ emitted' = [emitted EXCEPT ![KeyOf(w)] = @ \union {record[w]}]
    BY <1>3, EmissionSource
  <2>2. k = KeyOf(w) /\ r = record[w]
    BY <1>3, <2>1 DEF TypeInv, StoreOK
  <2>3. Has(k, Classified) /\ r = ledger[k][Classified]
    BY <2>1, <2>2 DEF OrderInv, HandlerInv, AloneInv, Knows
  <2>4. QED BY <1>1, <2>3 DEF Grows, States
<1>4. QED BY <1>2, <1>3

\* Requeuing and refusing acknowledge nothing.
LEMMA StatusKept ==
    ASSUME QueueOK, NEW n \in Message, status[n] # "acked"
    PROVE  /\ \A m \in Message : Requeue(m) => status'[n] # "acked"
           /\ UNCHANGED queue => status'[n] # "acked"
BY DEF QueueOK, Requeue, queue

\* A handler that writes to its ledger prefix changes the one object.
LEMMA OthersKept ==
    ASSUME TypeInv, NEW w \in Worker, pc[w] \in Holding, NEW s \in States, NEW t \in States,
           ledger' = Created(KeyOf(w), s, record[w])
    PROVE  /\ s # t => ledger'[KeyOf(w)][t] = ledger[KeyOf(w)][t]
           /\ ledger[KeyOf(w)][s] = None => ledger'[KeyOf(w)][s] = record[w]
<1>1. record[w] \in Record /\ KeyOf(w) \in Key
  BY Writes, InHand DEF TypeInv, Holding
<1>2. QED BY <1>1, CreatedFacts DEF TypeInv, StoreOK

LEMMA KnowsNext ==
    ASSUME Alone, TypeInv, OrderInv, AloneInv, Wider, NEW w \in Worker PROVE Knows(w)'
<1> USE DEF TypeInv
<1>1. Knows(w) /\ HandlerInv(w)
  BY DEF AloneInv, OrderInv
<1>2. CASE pc'[w] \in {"down", "idle"}
  BY <1>2 DEF Knows
<1>3. CASE UNCHANGED <<ledger, emitted, pc, local>> /\ (\/ UNCHANGED queue
                                                        \/ \E m \in Message : Requeue(m))
  <2>1. UNCHANGED KeyOf(w)
    BY <1>3 DEF KeyOf, local
  <2>2. pc[w] \notin {"down", "idle", "acked"} => status'[msg[w]] # "acked"
    BY <1>1, <1>3, InHand, StatusKept DEF Knows
  <2>3. QED BY <1>1, <1>3, <2>1, <2>2 DEF Knows, Has, local
<1>4. ASSUME NEW m \in Message, Pull(w, m) PROVE Knows(w)'
  <2>1. pc'[w] = "pulled" /\ msg'[w] = m /\ status'[m] # "acked"
    BY <1>4 DEF Pull, Goto, LocalOK, QueueOK
  <2>2. QED BY <2>1 DEF Knows
<1>5. CASE Resume(w)
  <2>1. /\ pc'[w] \in {"dropping", "loading", "deciding"}
        /\ pc'[w] = "dropping" \/ Furthest(KeyOf(w)) # Acknowledged
        /\ pc'[w] = "deciding" => Before(Furthest(KeyOf(w)), Classified)
    BY <1>5, RankFacts DEF Resume, Goto, LocalOK, Before
  <2>2. UNCHANGED <<ledger, emitted, status, KeyOf(w), msg>>
    BY <1>5 DEF Resume, queue, KeyOf
  <2>3. KeyOf(w) \in Key
    BY <1>5, InHand DEF Resume
  <2>4. /\ pc'[w] = "deciding" => ~Has(KeyOf(w), Classified)
        /\ pc'[w] # "dropping" => ~Has(KeyOf(w), Acknowledged)
    BY <2>1, <2>3, FurthestFacts, FurthestIsLast
  <2>5. status[msg[w]] # "acked"
    BY <1>1, <1>5 DEF Resume, Knows
  <2>6. QED BY <2>1, <2>2, <2>4, <2>5 DEF Knows, Has
<1>6. CASE Load(w) /\ pc'[w] # "idle"
  <2>1. /\ pc[w] = "loading" /\ pc'[w] = "recorded"
        /\ record'[w] = ledger[KeyOf(w)][Classified]
        /\ UNCHANGED <<ledger, emitted, status, msg>>
    BY <1>6 DEF Load, Return, Goto, LocalOK, queue
  <2>2. QED BY <1>1, <2>1 DEF Knows, Has, KeyOf
<1>7. CASE Decide(w)
  <2>1. /\ pc[w] = "deciding" /\ pc'[w] = "settled"
        /\ UNCHANGED <<ledger, emitted, status, msg>>
    BY <1>7 DEF Decide, Goto, LocalOK, queue
  <2>2. QED BY <1>1, <2>1 DEF Knows, Has, KeyOf
<1>8. CASE Receive(w) \/ Classify(w) \/ Attempt(w) \/ StayQuiet(w) \/ Emit(w)
  <2>1. /\ pc[w] \in {"settled", "receipted", "recorded", "attempted"}
        /\ pc'[w] \in {"receipted", "recorded", "attempted", "notified"}
        /\ UNCHANGED <<status, msg, record, KeyOf(w)>>
    BY <1>8 DEF Receive, Classify, Attempt, StayQuiet, Emit, Goto, LocalOK, queue, local, KeyOf
  <2>2. KeyOf(w) \in Key
    BY <2>1, InHand
  <2>3. CASE Receive(w)
    <3>1. pc[w] = "settled" /\ pc'[w] = "receipted"
      BY <2>3 DEF Receive, Goto, LocalOK
    <3>2. ledger'[KeyOf(w)][Classified] = ledger[KeyOf(w)][Classified]
      BY <2>3, <3>1, OthersKept
         DEF Receive, Holding, States, Received, Classified
    <3>3. ledger'[KeyOf(w)][Acknowledged] = ledger[KeyOf(w)][Acknowledged]
      BY <2>3, <3>1, OthersKept
         DEF Receive, Holding, States, Received, Acknowledged
    <3>4. QED BY <1>1, <2>1, <3>1, <3>2, <3>3 DEF Knows, Has
  <2>4. CASE Classify(w)
    <3>1. pc[w] = "receipted" /\ pc'[w] = "recorded"
      BY <2>4 DEF Classify, Goto, LocalOK
    <3>2. ledger[KeyOf(w)][Classified] = None
      BY <1>1, <3>1 DEF Knows, Has
    <3>3. ledger'[KeyOf(w)][Classified] = record[w]
      BY <2>4, <3>1, <3>2, OthersKept DEF Classify, Holding, States
    <3>4. ledger'[KeyOf(w)][Acknowledged] = ledger[KeyOf(w)][Acknowledged]
      BY <2>4, <3>1, OthersKept
         DEF Classify, Holding, States, Classified, Acknowledged
    <3>5. QED BY <1>1, <2>1, <3>1, <3>3, <3>4 DEF Knows, Has
  <2>5. CASE Attempt(w)
    <3>1. pc[w] = "recorded" /\ pc'[w] = "attempted" /\ Notifies(record[w])
      BY <2>5 DEF Attempt, Goto, LocalOK
    <3>2. ledger'[KeyOf(w)][Classified] = ledger[KeyOf(w)][Classified]
      BY <2>5, <3>1, OthersKept
         DEF Attempt, Holding, States, NotificationAttempted, Classified
    <3>3. ledger'[KeyOf(w)][Acknowledged] = ledger[KeyOf(w)][Acknowledged]
      BY <2>5, <3>1, OthersKept
         DEF Attempt, Holding, States, NotificationAttempted, Acknowledged
    <3>4. QED BY <1>1, <2>1, <3>1, <3>2, <3>3 DEF Knows, Has, Notifies
  <2>6. CASE StayQuiet(w)
    <3>1. pc[w] = "recorded" /\ pc'[w] = "notified" /\ ~Notifies(record[w]) /\ ledger' = ledger
      BY <2>6 DEF StayQuiet, Goto, LocalOK
    <3>2. QED BY <1>1, <2>1, <3>1 DEF Knows, Has, Notifies
  <2>7. CASE Emit(w)
    <3>1. pc[w] = "attempted" /\ pc'[w] = "notified" /\ ledger' = ledger
      BY <2>7 DEF Emit, Goto, LocalOK
    <3>2. record[w] \in emitted'[KeyOf(w)]
      BY <2>2, <2>7 DEF Emit, StoreOK
    <3>3. QED BY <1>1, <2>1, <3>1, <3>2 DEF Knows, Has
  <2>8. QED BY <1>8, <2>3, <2>4, <2>5, <2>6, <2>7
<1>9. CASE Acknowledge(w)
  <2>1. /\ pc[w] = "notified" /\ pc'[w] = "acked"
        /\ UNCHANGED <<ledger, emitted, msg, record>>
    BY <1>9 DEF Acknowledge, Goto, LocalOK, local
  <2>2. QED BY <1>1, <2>1 DEF Knows, KeyOf
<1>10. \A v \in Worker : v = w
  BY DEF Alone
<1>11. CASE Handles(w) /\ pc'[w] \notin {"down", "idle"}
  BY <1>5, <1>6, <1>7, <1>8, <1>9, <1>11
     DEF Handles, Refuse, Skip, Drop, Closes, Drill, Return, LocalOK
<1>12. CASE (Errs(w) \/ Ends(w) \/ Start(w)) /\ pc'[w] \notin {"down", "idle"}
  BY <1>12 DEF Errs, Ends, Start, Return, Goto, LocalOK
<1>13. QED
  BY <1>2, <1>3, <1>4, <1>10, <1>11, <1>12 DEF Wider, Expire, Loses

LEMMA AloneNext == ASSUME Alone PROVE TypeInv /\ OrderInv /\ AloneInv /\ Wider => AloneInv'
BY EmittedNext, KnowsNext DEF AloneInv

LEMMA AlwaysAlone == ASSUME Alone PROVE Spec => [](TypeInv /\ AloneInv)
<1>1. Spec => []TypeInv
  BY TypeInit, NextWider, TypeNext, PTL DEF Spec
<1>2. Spec => []OrderInv
  BY <1>1, NextWider, OrderInit, OrderNext, PTL DEF Spec
<1>3. TypeInv /\ OrderInv /\ AloneInv /\ Wider => AloneInv'
  BY AloneNext
<1>4. QED BY <1>1, <1>2, <1>3, NextWider, AloneInit, PTL DEF Spec

LEMMA AloneTells == AloneInv => TellsInv
BY DEF AloneInv, Knows, TellsInv

-----------------------------------------------------------------------------
(* What the drill finds on record.                                            *)

\* The ledger of k has got as far as s, or nowhere when s is None.
Reached(k, s) ==
    IF s = None THEN \A t \in States : ~Has(k, t)
    ELSE s \in States /\ Has(k, s) /\ \A t \in States : Has(k, t) => ~Before(s, t)

\* What Furthest returns is how far the ledger has got, and nothing else is.
LEMMA FurthestReached ==
    ASSUME NEW k \in Key, NEW s \in States \union {None}
    PROVE  Reached(k, s) <=> Furthest(k) = s
<1>1. Reached(k, Furthest(k))
  <2>1. CASE Furthest(k) = None
    BY <2>1, FurthestFacts DEF Reached
  <2>2. CASE Furthest(k) # None
    <3>1. Furthest(k) \in States /\ Has(k, Furthest(k))
      BY <2>2, FurthestFacts
    <3>2. \E t \in Present(k) : \A u \in Present(k) : ~Before(t, u)
      <4>1. Present(k) # {}
        BY <3>1 DEF Present
      <4>2. \A t, u \in States : Before(t, u) <=> rank(t) < rank(u)
        BY DEF Before
      <4>3. QED BY <4>1, <4>2, RankFacts DEF Present, States
    <3>3. \A t \in Present(k) : ~Before(Furthest(k), t)
      BY <3>1, <3>2 DEF Furthest, Present
    <3>4. QED BY <2>2, <3>1, <3>3 DEF Reached, Present
  <2>3. QED BY <2>1, <2>2
<1>2. \A t \in States \union {None} : Reached(k, s) /\ Reached(k, t) => s = t
  BY NoneAssumption, RankFacts DEF Reached, Before, States
<1>3. QED BY <1>1, <1>2, FurthestFacts

\* From resume to the verdict a sole handler knows how far its finding has got:
\* as far as it was read, and then as far as the handler has taken it.
Resumed(w) ==
    /\ pc[w] \in {"loading", "deciding", "settled"} => Reached(KeyOf(w), state[w])
    /\ pc[w] \in {"deciding", "settled", "receipted"} => Before(state[w], Classified)
    /\ pc[w] = "loading" => ~Before(state[w], Classified)
    /\ pc[w] = "recorded" =>
          Reached(KeyOf(w), IF Before(state[w], Classified) THEN Classified ELSE state[w])

\* Only a verdict that notifies has an attempt on record.
AttemptsNotify ==
    \A k \in Key : Has(k, NotificationAttempted) => Notifies(ledger[k][Classified])

DrillInv == AttemptsNotify /\ \A w \in Worker : Resumed(w)

LEMMA DrillInit == Init => DrillInv
BY DEF Init, DrillInv, AttemptsNotify, Resumed, EmptyLedger, Has, States, NotificationAttempted

\* An attempt is the write of a handler whose record notifies.
LEMMA AttemptSource ==
    ASSUME TypeInv, Wider, NEW k \in Key,
           ~Has(k, NotificationAttempted), Has(k, NotificationAttempted)'
    PROVE  \E w \in Worker : pc[w] = "recorded" /\ KeyOf(w) = k /\ Notifies(record[w])
<1> USE DEF TypeInv
<1>1. ASSUME NEW w \in Worker, pc[w] \in Holding, NEW s \in States,
             ledger' = Created(KeyOf(w), s, record[w])
      PROVE  s = NotificationAttempted /\ KeyOf(w) = k
  <2>1. record[w] \in Record /\ KeyOf(w) \in Key
    BY <1>1, Writes, InHand DEF Holding
  <2>2. QED BY <1>1, <2>1, CreatedFacts DEF Has, StoreOK, States, NotificationAttempted
<1>2. ledger' # ledger
  BY DEF Has
<1>3. PICK w \in Worker : Handles(w) \/ Errs(w)
  BY <1>2 DEF Wider, Pull, Ends, Start, Expire, Loses
<1>4. CASE Receive(w)
  BY <1>1, <1>2, <1>4 DEF Receive, Goto, Holding, States, Received, NotificationAttempted
<1>5. CASE Classify(w)
  BY <1>1, <1>2, <1>5 DEF Classify, Goto, Holding, States, Classified, NotificationAttempted
<1>6. CASE Closes(w)
  BY <1>1, <1>2, <1>6 DEF Closes, Holding, States, Acknowledged, NotificationAttempted
<1>7. CASE Attempt(w)
  BY <1>1, <1>2, <1>7 DEF Attempt, Goto, Holding, States, NotificationAttempted
<1>8. CASE Errs(w)
  <2>1. DoneAnyway(w) /\ Fallible(w)
    BY <1>2, <1>8 DEF Errs
  <2>2. pc[w] = "recorded" /\ ledger' = Created(KeyOf(w), NotificationAttempted, record[w])
    BY <1>1, <1>2, <2>1
       DEF DoneAnyway, Holding, States, Received, Classified, NotificationAttempted
  <2>3. Notifies(record[w])
    BY <2>1, <2>2 DEF Fallible, Unattempted
  <2>4. QED BY <1>1, <2>2, <2>3 DEF Holding, States, NotificationAttempted
<1>9. QED
  BY <1>2, <1>3, <1>4, <1>5, <1>6, <1>7, <1>8
     DEF Handles, Refuse, Skip, Resume, Drop, Load, Decide, StayQuiet, Emit, Acknowledge, Drill

LEMMA AttemptsNext ==
    ASSUME TypeInv, OrderInv, AloneInv, DrillInv, Wider PROVE AttemptsNotify'
<1> SUFFICES ASSUME NEW k \in Key, Has(k, NotificationAttempted)'
             PROVE  Notifies(ledger[k][Classified])'
  BY DEF AttemptsNotify
<1>1. Grows
  BY StepGrows
<1>2. CASE Has(k, NotificationAttempted)
  <2>1. Has(k, Classified) /\ Notifies(ledger[k][Classified])
    BY <1>2 DEF OrderInv, LedgerShape, DrillInv, AttemptsNotify
  <2>2. QED BY <1>1, <2>1 DEF Grows, States, Notifies
<1>3. CASE ~Has(k, NotificationAttempted)
  <2>1. PICK w \in Worker : pc[w] = "recorded" /\ KeyOf(w) = k /\ Notifies(record[w])
    BY <1>3, AttemptSource
  <2>2. Has(k, Classified) /\ record[w] = ledger[k][Classified]
    BY <2>1 DEF OrderInv, HandlerInv, AloneInv, Knows
  <2>3. QED BY <1>1, <2>1, <2>2 DEF Grows, States, Notifies
<1>4. QED BY <1>2, <1>3

LEMMA ResumedNext ==
    ASSUME Alone, TypeInv, OrderInv, AloneInv, DrillInv, Wider, NEW w \in Worker
    PROVE  Resumed(w)'
<1> USE DEF TypeInv
<1>1. Resumed(w) /\ Knows(w) /\ HandlerInv(w)
  BY DEF DrillInv, AloneInv, OrderInv
<1>2. CASE pc'[w] \notin {"loading", "deciding", "settled", "receipted", "recorded"}
  BY <1>2 DEF Resumed
<1>3. CASE UNCHANGED <<ledger, pc, local>>
  BY <1>1, <1>3 DEF Resumed, Reached, Has, KeyOf, local
<1>4. CASE Resume(w)
  <2>1. /\ pc'[w] \in {"dropping", "loading", "deciding"}
        /\ pc'[w] = "loading" => ~Before(Furthest(KeyOf(w)), Classified)
        /\ pc'[w] = "deciding" => Before(Furthest(KeyOf(w)), Classified)
        /\ state'[w] = Furthest(KeyOf(w))
        /\ UNCHANGED <<ledger, KeyOf(w)>>
    BY <1>4 DEF Resume, Goto, LocalOK, KeyOf
  <2>2. Reached(KeyOf(w), Furthest(KeyOf(w)))
    BY <1>4, InHand, FurthestFacts, FurthestReached DEF Resume
  <2>3. QED BY <2>1, <2>2 DEF Resumed, Reached, Has
<1>5. CASE Load(w)
  BY <1>1, <1>5 DEF Load, Return, Goto, LocalOK, Resumed, Reached, Has, KeyOf
<1>6. CASE Decide(w)
  BY <1>1, <1>6 DEF Decide, Goto, LocalOK, Resumed, Reached, Has, KeyOf
<1>7. CASE Receive(w)
  BY <1>1, <1>7 DEF Receive, Goto, LocalOK, Resumed, local
<1>8. CASE Classify(w)
  <2>1. /\ pc[w] = "receipted" /\ pc'[w] = "recorded" /\ Before(state'[w], Classified)
        /\ UNCHANGED KeyOf(w) /\ KeyOf(w) \in Key
        /\ ledger' = Created(KeyOf(w), Classified, record[w]) /\ record[w] \in Record
    BY <1>1, <1>8, Writes, InHand DEF Classify, Goto, LocalOK, Resumed, local, KeyOf, Holding
  <2>2. ~Has(KeyOf(w), NotificationAttempted) /\ ~Has(KeyOf(w), Acknowledged)
    BY <1>1, <2>1 DEF Knows, OrderInv, LedgerShape
  <2>3. Has(KeyOf(w), Classified)'
    BY <2>1, CreatedFacts DEF Has, StoreOK, States
  <2>4. \A t \in {NotificationAttempted, Acknowledged} : ~Has(KeyOf(w), t)'
    BY <2>1, <2>2, CreatedFacts
       DEF Has, Created, StoreOK, Ledgers, States, Classified, NotificationAttempted, Acknowledged
  <2>5. \A t \in States : Has(KeyOf(w), t)' => ~Before(Classified, t)
    BY <2>4, RankFacts
       DEF Before, States, Received, Classified, NotificationAttempted, Acknowledged
  <2>6. Reached(KeyOf(w), Classified)'
    BY <2>3, <2>5, NoneAssumption DEF Reached, States
  <2>7. QED BY <2>1, <2>6 DEF Resumed
<1>9. \A v \in Worker : v = w
  BY DEF Alone
<1>10. CASE Handles(w)
  BY <1>2, <1>4, <1>5, <1>6, <1>7, <1>8, <1>10
     DEF Handles, Refuse, Skip, Drop, Attempt, StayQuiet, Emit, Acknowledge, Closes, Drill,
         Return, Goto, LocalOK
<1>11. CASE Errs(w) \/ Ends(w) \/ Start(w) \/ \E m \in Message : Pull(w, m)
  BY <1>2, <1>11 DEF Errs, Ends, Start, Pull, Return, Goto, LocalOK
<1>12. QED
  BY <1>3, <1>9, <1>10, <1>11 DEF Wider, Expire, Loses

LEMMA DrillNext == ASSUME Alone PROVE TypeInv /\ OrderInv /\ AloneInv /\ DrillInv /\ Wider => DrillInv'
BY AttemptsNext, ResumedNext DEF DrillInv

\* Where the drill stops a sole worker, what is on record, in the log and
\* outstanding is what the handling has done so far and nothing else.
LEMMA DrillFinds ==
    ASSUME TypeInv, OrderInv, AloneInv, DrillInv PROVE DrillBoundaries
<1> SUFFICES ASSUME NEW w \in Worker, AtBoundary(w)
             PROVE  LET k == KeyOf(w)
                        r == record[w]
                    IN  /\ crashAt[w] = Received =>
                              /\ Furthest(k) = state[w] /\ state[w] \in {None, Received}
                              /\ emitted[k] = {}
                        /\ crashAt[w] = NotificationAttempted =>
                              /\ ledger[k][Classified] = r
                              /\ Furthest(k) = IF Before(state[w], Classified) THEN Classified
                                               ELSE state[w]
                              /\ emitted[k] # {} => state[w] = NotificationAttempted
                        /\ crashAt[w] = Acknowledged =>
                              /\ ledger[k][Classified] = r
                              /\ Furthest(k) = IF Notifies(r) THEN NotificationAttempted
                                               ELSE Classified
                              /\ emitted[k] = IF Notifies(r) THEN {r} ELSE {}
                              /\ status[msg[w]] # "acked"
  BY DEF DrillBoundaries
<1> DEFINE k == KeyOf(w)
           r == record[w]
<1>1. Knows(w) /\ HandlerInv(w) /\ Resumed(w) /\ AttemptsNotify /\ LedgerShape /\ AttemptBeforeEmit
  BY DEF AloneInv, OrderInv, DrillInv
<1>2. /\ crashAt[w] = Received => pc[w] = "settled"
      /\ crashAt[w] = NotificationAttempted => pc[w] = "recorded"
      /\ crashAt[w] = Acknowledged => pc[w] = "notified"
  BY DEF AtBoundary, Received, NotificationAttempted, Acknowledged
<1>3. k \in Key /\ state[w] \in States \union {None} /\ emitted[k] \in SUBSET Record
  BY <1>2, InHand DEF TypeInv, LocalOK, StoreOK, AtBoundary
<1>4. ASSUME crashAt[w] = Received
      PROVE  Furthest(k) = state[w] /\ state[w] \in {None, Received} /\ emitted[k] = {}
  <2>1. Reached(k, state[w]) /\ Before(state[w], Classified) /\ ~Has(k, Classified)
    BY <1>1, <1>2, <1>4 DEF Resumed, Knows
  <2>2. state[w] \in {None, Received}
    BY <1>3, <2>1, RankFacts DEF Before, States
  <2>3. emitted[k] = {}
    BY <1>1, <1>3, <2>1 DEF LedgerShape, AttemptBeforeEmit
  <2>4. QED BY <1>3, <2>1, <2>2, <2>3, FurthestReached
<1>5. ASSUME crashAt[w] = NotificationAttempted
      PROVE  /\ ledger[k][Classified] = r
             /\ Furthest(k) = IF Before(state[w], Classified) THEN Classified ELSE state[w]
             /\ emitted[k] # {} => state[w] = NotificationAttempted
  <2> DEFINE s == IF Before(state[w], Classified) THEN Classified ELSE state[w]
  <2>1. Reached(k, s) /\ ledger[k][Classified] = r /\ ~Has(k, Acknowledged)
    BY <1>1, <1>2, <1>5 DEF Resumed, Knows
  <2>2. s \in States \union {None}
    BY <1>3 DEF States
  <2>3. emitted[k] # {} => s = NotificationAttempted
    <3> SUFFICES ASSUME emitted[k] # {} PROVE s = NotificationAttempted
      OBVIOUS
    <3>1. Has(k, NotificationAttempted)
      BY <1>1, <1>3 DEF AttemptBeforeEmit
    <3>2. s \in States /\ Has(k, s) /\ ~Before(s, NotificationAttempted)
      BY <2>1, <3>1 DEF Reached, States
    <3> HIDE DEF s
    <3>3. QED BY <2>1, <3>2, RankFacts DEF Before, States
  <2>4. s = NotificationAttempted => state[w] = NotificationAttempted
    BY DEF Classified, NotificationAttempted
  <2> HIDE DEF s
  <2>5. Furthest(k) = s
    BY <1>3, <2>1, <2>2, FurthestReached
  <2>6. QED BY <2>1, <2>3, <2>4, <2>5 DEF s
<1>6. ASSUME crashAt[w] = Acknowledged
      PROVE  /\ ledger[k][Classified] = r
             /\ Furthest(k) = IF Notifies(r) THEN NotificationAttempted ELSE Classified
             /\ emitted[k] = IF Notifies(r) THEN {r} ELSE {}
             /\ status[msg[w]] # "acked"
  <2>1. /\ ledger[k][Classified] = r /\ Has(k, Classified) /\ ~Has(k, Acknowledged)
        /\ Notifies(r) => r \in emitted[k]
        /\ status[msg[w]] # "acked"
    BY <1>1, <1>2, <1>6 DEF Knows, HandlerInv
  <2>2. \A e \in emitted[k] : e = r
    BY <1>3, <2>1 DEF AloneInv, EmittedAsRecorded
  <2>3. emitted[k] # {} => Has(k, NotificationAttempted)
    BY <1>1, <1>3 DEF AttemptBeforeEmit
  <2>4. Has(k, NotificationAttempted) => Notifies(r)
    BY <1>1, <1>3, <2>1 DEF AttemptsNotify
  <2>5. emitted[k] = IF Notifies(r) THEN {r} ELSE {}
    BY <2>1, <2>2, <2>3, <2>4
  <2>6. Has(k, NotificationAttempted) <=> Notifies(r)
    BY <2>1, <2>3, <2>4
  <2>7. Reached(k, IF Notifies(r) THEN NotificationAttempted ELSE Classified)
    <3> HIDE DEF k, r
    <3>1. \A t \in States : Has(k, t) /\ ~Notifies(r) => t \in {Received, Classified}
      BY <2>1, <2>6 DEF States
    <3>2. \A t \in States : Has(k, t) => t # Acknowledged
      BY <2>1
    <3>3. QED
      BY <2>1, <2>6, <3>1, <3>2, RankFacts, NoneAssumption DEF Reached, Before, States
  <2>8. Furthest(k) = IF Notifies(r) THEN NotificationAttempted ELSE Classified
    BY <1>3, <2>7, FurthestReached DEF States
  <2>9. QED BY <2>1, <2>5, <2>8
<1>7. QED BY <1>4, <1>5, <1>6

-----------------------------------------------------------------------------
(* What a worker that runs alone guarantees.                                  *)

\* Every entry the owner reads is the one verdict on record (ledger.go:67-68).
THEOREM TellsTheRecord == ASSUME Alone PROVE Spec => []EmittedAsRecorded
<1>1. AloneInv => EmittedAsRecorded
  BY DEF AloneInv
<1>2. QED BY <1>1, AlwaysAlone, PTL

\* Where the drill stops a sole worker, the ledger has got exactly as far as this
\* delivery found it and took it, and the log and the message stand as that says
\* (crash.go:38-43; worker.go:111, :127 and :189).
THEOREM DrillsHold == ASSUME Alone PROVE Spec => []DrillBoundaries
<1>1. Spec => []TypeInv /\ []AloneInv
  BY AlwaysAlone, PTL
<1>2. Spec => []OrderInv
  BY <1>1, NextWider, OrderInit, OrderNext, PTL DEF Spec
<1>3. TypeInv /\ OrderInv /\ AloneInv /\ DrillInv /\ Wider => DrillInv'
  BY DrillNext
<1>4. Spec => []DrillInv
  BY <1>1, <1>2, <1>3, NextWider, DrillInit, PTL DEF Spec
<1>5. QED BY <1>1, <1>2, <1>4, DrillFinds, PTL

\* No inference once a verdict is durable, however often the finding is
\* delivered again (worker.go:5-6).
THEOREM InferredOnce == ASSUME Alone PROVE Spec => NoInferenceAfterVerdict
<1>1. AloneInv => [\A w \in Worker :
          pc[w] = "deciding" /\ pc'[w] = "settled" => ~Has(KeyOf(w), Classified)]_vars
  BY DEF AloneInv, Knows
<1>2. QED BY <1>1, AlwaysAlone, PTL DEF NoInferenceAfterVerdict

\* A finding whose acknowledgement is on record is never told of again
\* (worker.go:101-104).
THEOREM ClosedIsQuiet == ASSUME Alone PROVE Spec => ClosedStaysQuiet
<1>1. AloneInv => [\A w \in Worker :
          pc[w] = "attempted" /\ pc'[w] = "notified" => ~Has(KeyOf(w), Acknowledged)]_vars
  BY DEF AloneInv, Knows
<1>2. QED BY <1>1, AlwaysAlone, PTL DEF ClosedStaysQuiet

\* No finding a sole worker closes is unrecorded or untold, whatever its corpus
\* image prices: the verdict it tells of is the one it reads back.
THEOREM NothingMissedAlone == ASSUME Alone PROVE Spec => []NoMissedNotification
<1>1. Spec => [](TypeInv /\ AloneInv)
  BY AlwaysAlone
<1>2. Spec => []OrderInv
  BY <1>1, NextWider, OrderInit, OrderNext, PTL DEF Spec
<1>3. Init => NoMissedNotification
  BY PricedInit DEF PricedInv
<1>4. TypeInv /\ OrderInv /\ AloneInv /\ NoMissedNotification /\ Wider => NoMissedNotification'
  BY AloneTells, NoMissedNext
<1>5. QED BY <1>1, <1>2, <1>3, <1>4, NextWider, PTL DEF Spec

\* A sole worker keeps the promise of Triage without any agreement on prices,
\* such as one finding that arrives complete and then with a field gone.
THEOREM PromiseKeptAlone == ASSUME Alone PROVE Spec => KeepsPromise
<1>1. Spec => [](TypeInv /\ AloneInv)
  BY AlwaysAlone
<1>2. Spec => []OrderInv
  BY <1>1, NextWider, OrderInit, OrderNext, PTL DEF Spec
<1>3. TypeInv /\ OrderInv /\ AloneInv /\ Wider => [Promise!Next]_(Promise!vars)
  BY AloneTells, PromiseNext
<1>4. QED
  BY <1>1, <1>2, <1>3, NextWider, PromiseInit, PTL DEF Spec, KeepsPromise, Promise!Spec
=============================================================================
