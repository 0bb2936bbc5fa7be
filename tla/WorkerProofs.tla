---------------------------- MODULE WorkerProofs ----------------------------
(* Machine-checked theorems about Worker, for every number of workers,        *)
(* messages, keys, faults and deliveries.                                     *)
EXTENDS Worker, FiniteSetTheorems, TLAPS

\* The phases in which triage holds a record.
Holding == {"settled", "receipted", "recorded", "attempted", "notified", "acked"}

Ledgers == [Key -> [States -> Record \union {None}]]

\* What Created returns: a ledger that differs in at most the one object, which
\* is there afterwards and is the new one only where there was none.
LEMMA CreatedFacts ==
    ASSUME ledger \in Ledgers,
           NEW k \in Key, NEW s \in States, NEW r \in Record
    PROVE  /\ Created(k, s, r) \in Ledgers
           /\ Created(k, s, r)[k][s] # None
           /\ ledger[k][s] = None => Created(k, s, r)[k][s] = r
           /\ \A j \in Key, t \in States :
                  (ledger[j][t] # None \/ j # k \/ t # s)
                      => Created(k, s, r)[j][t] = ledger[j][t]
  BY NoneAssumption DEF Created, Has, Ledgers

\* Every outcome of Decide is a verdict record.
LEMMA OutcomesType ==
    ASSUME NEW w \in Worker, NEW m \in Message
    PROVE  Outcomes(w, m) \subseteq Record
  BY DEF Outcomes

LEMMA RankFacts ==
    /\ rank(None) = -1
    /\ rank(Received) = 0
    /\ rank(Classified) = 1
    /\ rank(NotificationAttempted) = 2
    /\ rank(Acknowledged) = 3
  BY NoneAssumption
     DEF rank, States, Received, Classified, NotificationAttempted, Acknowledged

\* Furthest returns a state that is present, unless none is.
LEMMA FurthestFacts ==
    ASSUME NEW k \in Key
    PROVE  /\ Furthest(k) \in States \union {None}
           /\ Furthest(k) # None => Has(k, Furthest(k))
           /\ Furthest(k) = None => \A s \in States : ~Has(k, s)
           /\ Before(Furthest(k), Classified) => ~Has(k, Classified)
<1>1. CASE Present(k) = {}
  BY <1>1, NoneAssumption, RankFacts DEF Furthest, Present, Before, States, Classified
<1>2. CASE Present(k) # {}
  <2>1. \E s \in Present(k) : \A t \in Present(k) : ~Before(s, t)
    <3>1. CASE Acknowledged \in Present(k)
      BY <3>1, RankFacts DEF Present, Before, States, Received, Classified, NotificationAttempted, Acknowledged
    <3>2. CASE NotificationAttempted \in Present(k) /\ Acknowledged \notin Present(k)
      BY <3>2, RankFacts DEF Present, Before, States, Received, Classified, NotificationAttempted, Acknowledged
    <3>3. CASE /\ Classified \in Present(k)
               /\ NotificationAttempted \notin Present(k) /\ Acknowledged \notin Present(k)
      BY <3>3, RankFacts DEF Present, Before, States, Received, Classified, NotificationAttempted, Acknowledged
    <3>4. CASE Present(k) = {Received}
      BY <3>4, RankFacts DEF Present, Before, States, Received, Classified, NotificationAttempted, Acknowledged
    <3>5. QED BY <1>2, <3>1, <3>2, <3>3, <3>4 DEF Present, States
  <2>2. /\ Furthest(k) \in Present(k)
        /\ \A t \in Present(k) : ~Before(Furthest(k), t)
    BY <1>2, <2>1 DEF Furthest
  <2>3. QED BY <2>2, NoneAssumption DEF Present, States
<1>3. QED BY <1>1, <1>2

\* TypeOK made inductive, in parts: the subscription, the handlers' locals
\* (with the record each phase uses) and what is on record.
QueueOK ==
    /\ status \in [Message -> {"live", "acked", "dead"}]
    /\ lease \in [Message -> Worker \union {None}]
    /\ attempts \in [Message -> Nat]

LocalOK ==
    /\ pc \in [Worker -> Phases]
    /\ msg \in [Worker -> Message \union {None}]
    /\ state \in [Worker -> States \union {None}]
    /\ record \in [Worker -> Record \union {None}]
    /\ \A w \in Worker : msg[w] = None <=> pc[w] \in {"down", "idle"}
    /\ \A w \in Worker : pc[w] \in Holding => record[w] # None

StoreOK == ledger \in Ledgers /\ emitted \in [Key -> SUBSET Record]

TypeInv ==
    /\ QueueOK
    /\ LocalOK
    /\ StoreOK
    /\ crashAt \in [Worker -> Boundaries \union {None}]
    /\ faults \in 0..MaxFaults

LEMMA TypeInvImpliesTypeOK == TypeInv => TypeOK
  BY DEF TypeInv, TypeOK, QueueOK, LocalOK, StoreOK, Ledgers

\* What requeuing, refusing and acknowledging do to the subscription.
LEMMA QueueFacts ==
    ASSUME QueueOK, faults \in 0..MaxFaults
    PROVE  /\ \A m \in Message : Requeue(m) => QueueOK'
           /\ \A w \in Worker : msg[w] \in Message /\ Nack(w) => QueueOK'
           /\ \A w \in Worker : msg[w] \in Message /\ Ack(w)
                                   => QueueOK' /\ faults' \in 0..MaxFaults
           /\ Fault => faults' \in 0..MaxFaults
  BY BoundAssumption DEF QueueOK, Requeue, Nack, Ack, Fault, queue

\* Handle returning, and a move between two phases that hold nothing new.
LEMMA LocalFacts ==
    ASSUME LocalOK, NEW w \in Worker
    PROVE  /\ \A b \in {"idle", "down"} : Return(w, b) => LocalOK'
           /\ \A a \in Phases, b \in Phases :
                  /\ Goto(w, a, b)
                  /\ {a, b} \cap {"idle", "down"} = {}
                  /\ b \in Holding => a \in Holding
                  /\ UNCHANGED local
                  => LocalOK'
  <1>1. ASSUME NEW b \in {"idle", "down"}, Return(w, b) PROVE LocalOK'
    BY <1>1, NoneAssumption DEF LocalOK, Return, Phases, Holding
  <1>2. ASSUME NEW a \in Phases, NEW b \in Phases, Goto(w, a, b),
               a \notin {"idle", "down"}, b \notin {"idle", "down"},
               b \in Holding => a \in Holding, UNCHANGED local
        PROVE  LocalOK'
    BY <1>2 DEF LocalOK, Goto, local
  <1>3. QED BY <1>1, <1>2

\* A handler past its return holds a message with a key of the ledger.
LEMMA InHand ==
    ASSUME LocalOK, NEW w \in Worker, pc[w] \notin {"down", "idle"}
    PROVE  msg[w] \in Message /\ KeyOf(w) \in Key
  BY BodyAssumption DEF LocalOK, KeyOf

\* The record a phase holds is one, so what it creates fits the ledger.
LEMMA Writes ==
    ASSUME LocalOK, StoreOK, NEW w \in Worker, pc[w] \in Holding
    PROVE  /\ record[w] \in Record
           /\ \A s \in States : Created(KeyOf(w), s, record[w]) \in Ledgers
           /\ [emitted EXCEPT ![KeyOf(w)] = @ \union {record[w]}] \in [Key -> SUBSET Record]
<1>1. record[w] \in Record BY DEF LocalOK
<1>2. KeyOf(w) \in Key BY InHand DEF Holding
<1>3. QED BY <1>1, <1>2, CreatedFacts DEF StoreOK

LEMMA TypeInit == Init => TypeInv
  BY NoneAssumption, BoundAssumption
     DEF Init, TypeInv, QueueOK, LocalOK, StoreOK, EmptyLedger, Ledgers, Phases, Holding

(* The steps the invariants below survive: those of Next, whether or not a    *)
(* failed call, a crash or a lost lease is counted as a fault.  A process that *)
(* is told to stop takes the same steps (Deployment.tla).                     *)

Errs(w) ==
    /\ Fallible(w)
    /\ UNCHANGED <<ledger, emitted>> \/ DoneAnyway(w)
    /\ Nack(w)
    /\ Return(w, "idle")
    /\ UNCHANGED crashAt

Ends(w) ==
    /\ pc[w] # "down"
    /\ Return(w, "down")
    /\ UNCHANGED <<ledger, emitted, crashAt, queue>>

Closes(w) ==
    /\ pc[w] = "acked"
    /\ Return(w, "idle")
    /\ UNCHANGED ledger \/ ledger' = Created(KeyOf(w), Acknowledged, record[w])
    /\ UNCHANGED <<emitted, crashAt, queue>>

Loses(m) == Requeue(m) /\ UNCHANGED <<ledger, emitted, pc, local, crashAt>>

Handles(w) ==
    \/ Refuse(w) \/ Skip(w) \/ Resume(w) \/ Drop(w) \/ Load(w) \/ Decide(w)
    \/ Receive(w) \/ Classify(w) \/ Attempt(w) \/ StayQuiet(w) \/ Emit(w)
    \/ Acknowledge(w) \/ Closes(w) \/ Drill(w)

Wider ==
    /\ faults' \in 0..MaxFaults
    /\ \/ \E w \in Worker, m \in Message : Pull(w, m)
       \/ \E w \in Worker : Handles(w) \/ Errs(w) \/ Ends(w) \/ Start(w)
       \/ \E m \in Message : Expire(m) \/ Loses(m)
       \/ UNCHANGED <<ledger, emitted, pc, local, crashAt, queue>>

LEMMA NextWider == TypeInv /\ [Next]_vars => Wider
<1> SUFFICES ASSUME TypeInv, [Next]_vars PROVE Wider
  OBVIOUS
<1>1. Fault \/ UNCHANGED faults => faults' \in 0..MaxFaults
  BY QueueFacts DEF TypeInv
<1>2. ASSUME NEW w \in Worker, Step(w) PROVE Wider
  <2>1. CASE Close(w)
    BY <1>1, <2>1 DEF Close, Wider, Handles, Closes
  <2>2. Ack(w) => faults' \in 0..MaxFaults
    BY <1>1 DEF Ack
  <2>3. CASE ~Close(w)
    BY <1>1, <1>2, <2>2, <2>3
       DEF Step, Wider, Handles, Refuse, Skip, Resume, Drop, Load, Decide, Receive, Classify,
           Attempt, StayQuiet, Emit, Acknowledge, Drill
  <2>4. QED BY <2>1, <2>3
<1>3. ASSUME NEW w \in Worker, Fail(w) \/ Crash(w) \/ Start(w) PROVE Wider
  BY <1>1, <1>3 DEF Fail, Crash, Start, Wider, Errs, Ends
<1>4. ASSUME NEW m \in Message, Expire(m) \/ LoseLease(m) PROVE Wider
  BY <1>1, <1>4 DEF Expire, LoseLease, Wider, Loses
<1>5. ASSUME NEW w \in Worker, NEW m \in Message, Pull(w, m) PROVE Wider
  BY <1>1, <1>5 DEF Pull, Wider
<1>6. CASE UNCHANGED vars
  BY <1>1, <1>6 DEF vars, Wider
<1>7. QED BY <1>2, <1>3, <1>4, <1>5, <1>6 DEF Next

LEMMA TypeNext == TypeInv /\ Wider => TypeInv'
<1> SUFFICES ASSUME TypeInv, Wider PROVE TypeInv'
  OBVIOUS
<1> USE DEF TypeInv
<1> faults' \in 0..MaxFaults BY DEF Wider
<1>1. ASSUME NEW w \in Worker, NEW m \in Message, Pull(w, m) PROVE TypeInv'
  <2>1. QueueOK' BY <1>1 DEF Pull, QueueOK
  <2>2. LocalOK' BY <1>1, NoneAssumption DEF Pull, Goto, LocalOK, Phases, Holding
  <2>3. QED BY <1>1, <2>1, <2>2 DEF Pull, StoreOK
<1>2. ASSUME NEW m \in Message, Expire(m) \/ Loses(m) PROVE TypeInv'
  BY <1>2, QueueFacts DEF Expire, Loses, local, LocalOK, StoreOK
<1>3. ASSUME NEW w \in Worker, Handles(w) PROVE TypeInv'
  <2>1. CASE Refuse(w)
    BY <2>1, InHand, QueueFacts, LocalFacts DEF Refuse, StoreOK
  <2>2. CASE Skip(w) \/ Drop(w)
    BY <2>2, InHand, QueueFacts, LocalFacts DEF Skip, Drop, StoreOK
  <2>3. CASE Resume(w)
    <3>1. LocalOK'
      BY <2>3, InHand, FurthestFacts DEF Resume, Goto, LocalOK, Phases, Holding
    <3>2. QED BY <2>3, <3>1 DEF Resume, QueueOK, queue, StoreOK
  <2>4. CASE Load(w)
    <3>1. CASE ledger[KeyOf(w)][Classified] = None
      BY <2>4, <3>1, InHand, QueueFacts, LocalFacts DEF Load, StoreOK
    <3>2. CASE ledger[KeyOf(w)][Classified] # None
      <4>1. ledger[KeyOf(w)][Classified] \in Record
        BY <2>4, <3>2, InHand DEF Load, StoreOK, Ledgers, States
      <4>2. LocalOK'
        BY <2>4, <3>2, <4>1 DEF Load, Goto, LocalOK, Phases, Holding
      <4>3. QED BY <2>4, <3>2, <4>2 DEF Load, QueueOK, queue, StoreOK
    <3>3. QED BY <3>1, <3>2
  <2>5. CASE Decide(w)
    <3>1. PICK r \in Outcomes(w, msg[w]) : record' = [record EXCEPT ![w] = r]
      BY <2>5 DEF Decide
    <3>2. r \in Record BY <3>1 DEF Outcomes
    <3>3. LocalOK'
      BY <2>5, <3>1, <3>2, NoneAssumption DEF Decide, Goto, LocalOK, Phases, Holding
    <3>4. QED BY <2>5, <3>3 DEF Decide, QueueOK, queue, StoreOK
  <2>6. CASE Receive(w)
    <3>1. pc[w] \in Holding BY <2>6 DEF Receive, Goto, Holding
    <3>2. StoreOK' BY <2>6, <3>1, Writes DEF Receive, StoreOK, States, Received
    <3>3. QED
      BY <2>6, <3>2, LocalFacts DEF Receive, Phases, Holding, QueueOK, queue
  <2>7. CASE Classify(w)
    <3>1. pc[w] \in Holding BY <2>7 DEF Classify, Goto, Holding
    <3>2. StoreOK' BY <2>7, <3>1, Writes DEF Classify, StoreOK, States, Classified
    <3>3. QED
      BY <2>7, <3>2, LocalFacts DEF Classify, Phases, Holding, QueueOK, queue
  <2>8. CASE Attempt(w)
    <3>1. pc[w] \in Holding BY <2>8 DEF Attempt, Goto, Holding
    <3>2. StoreOK' BY <2>8, <3>1, Writes DEF Attempt, StoreOK, States, NotificationAttempted
    <3>3. LocalOK'
      BY <2>8 DEF Attempt, Goto, LocalOK, Phases, Holding, States, NotificationAttempted
    <3>4. QED BY <2>8, <3>2, <3>3 DEF Attempt, QueueOK, queue
  <2>9. CASE StayQuiet(w)
    BY <2>9, LocalFacts DEF StayQuiet, Phases, Holding, QueueOK, queue, StoreOK
  <2>10. CASE Emit(w)
    <3>1. pc[w] \in Holding BY <2>10 DEF Emit, Goto, Holding
    <3>2. StoreOK' BY <2>10, <3>1, Writes DEF Emit, StoreOK
    <3>3. QED BY <2>10, <3>2, LocalFacts DEF Emit, Phases, Holding, QueueOK, queue
  <2>11. CASE Acknowledge(w)
    BY <2>11, InHand, LocalFacts, QueueFacts DEF Acknowledge, Goto, Phases, Holding, StoreOK
  <2>12. CASE Closes(w)
    <3>1. pc[w] \in Holding BY <2>12 DEF Closes, Holding
    <3>2. StoreOK' BY <2>12, <3>1, Writes DEF Closes, StoreOK, States, Acknowledged
    <3>3. QED BY <2>12, <3>2, LocalFacts DEF Closes, QueueOK, queue
  <2>13. CASE Drill(w)
    BY <2>13, LocalFacts DEF Drill, QueueOK, queue, StoreOK
  <2>14. QED
    BY <1>3, <2>1, <2>2, <2>3, <2>4, <2>5, <2>6, <2>7, <2>8, <2>9, <2>10, <2>11, <2>12, <2>13
       DEF Handles
<1>4. ASSUME NEW w \in Worker, Errs(w) PROVE TypeInv'
  <2>1. pc[w] \notin {"down", "idle"} BY <1>4 DEF Errs, Fallible
  <2>2. QueueOK' /\ LocalOK'
    BY <1>4, <2>1, InHand, QueueFacts, LocalFacts DEF Errs
  <2>3. StoreOK'
    <3>1. CASE UNCHANGED <<ledger, emitted>> BY <3>1 DEF StoreOK
    <3>2. CASE DoneAnyway(w)
      <4>1. pc[w] \in Holding BY <3>2 DEF DoneAnyway, Holding
      <4>2. QED
        BY <3>2, <4>1, Writes
           DEF DoneAnyway, StoreOK, States, Received, Classified, NotificationAttempted
    <3>3. QED BY <1>4, <3>1, <3>2 DEF Errs
  <2>4. QED BY <1>4, <2>2, <2>3 DEF Errs
<1>5. ASSUME NEW w \in Worker, Ends(w) \/ Start(w) PROVE TypeInv'
  <2>1. CASE Ends(w)
    BY <2>1, QueueFacts, LocalFacts DEF Ends, QueueOK, queue, StoreOK
  <2>2. CASE Start(w)
    <3>1. LocalOK' BY <2>2 DEF Start, Goto, LocalOK, local, Phases, Holding
    <3>2. QED BY <2>2, <3>1, CrashAssumption DEF Start, QueueOK, queue, StoreOK
  <2>3. QED BY <1>5, <2>1, <2>2
<1>6. CASE UNCHANGED <<ledger, emitted, pc, local, crashAt, queue>>
  BY <1>6 DEF local, queue, QueueOK, LocalOK, StoreOK
<1>7. QED BY <1>1, <1>2, <1>3, <1>4, <1>5, <1>6 DEF Wider

\* TypeOK holds in every reachable state, for every instance.
THEOREM TypeCorrect == Spec => []TypeOK
<1>1. Spec => []TypeInv BY TypeInit, NextWider, TypeNext, PTL DEF Spec
<1>2. QED BY <1>1, TypeInvImpliesTypeOK, PTL

-----------------------------------------------------------------------------
(* The order of the records.                                                  *)

Grows == \A k \in Key, s \in States : Has(k, s) => ledger'[k][s] = ledger[k][s]

\* No step overwrites or removes an object.
LEMMA StepGrows == TypeInv /\ Wider => Grows
<1> SUFFICES ASSUME TypeInv, Wider PROVE Grows
  OBVIOUS
<1> USE DEF TypeInv
<1>1. ASSUME NEW w \in Worker, pc[w] \in Holding, NEW s \in States,
             ledger' = Created(KeyOf(w), s, record[w])
      PROVE  Grows
  <2>1. record[w] \in Record /\ KeyOf(w) \in Key
    BY <1>1, Writes, InHand DEF Holding
  <2>2. QED BY <1>1, <2>1, CreatedFacts DEF Grows, Has, StoreOK
<1>2. CASE UNCHANGED ledger BY <1>2 DEF Grows
<1>3. ASSUME NEW w \in Worker, Handles(w) PROVE Grows
  <2>1. CASE UNCHANGED ledger BY <2>1, <1>2
  <2>2. CASE Receive(w) BY <2>2, <1>1, <1>2 DEF Receive, Goto, Holding, States, Received
  <2>3. CASE Classify(w) BY <2>3, <1>1 DEF Classify, Goto, Holding, States, Classified
  <2>4. CASE Attempt(w)
    BY <2>4, <1>1, <1>2 DEF Attempt, Goto, Holding, States, NotificationAttempted
  <2>5. CASE Closes(w) BY <2>5, <1>1, <1>2 DEF Closes, Holding, States, Acknowledged
  <2>6. QED
    BY <1>3, <2>1, <2>2, <2>3, <2>4, <2>5
       DEF Handles, Refuse, Skip, Resume, Drop, Load, Decide, StayQuiet, Emit, Acknowledge, Drill
<1>4. ASSUME NEW w \in Worker, Errs(w) PROVE Grows
  BY <1>4, <1>1, <1>2
     DEF Errs, DoneAnyway, Holding, States, Received, Classified, NotificationAttempted
<1>5. QED BY <1>2, <1>3, <1>4 DEF Wider, Pull, Ends, Start, Expire, Loses

\* What a handler knows of the ledger in each phase.
HandlerInv(w) ==
    /\ pc[w] \notin {"down", "idle", "pulled"} => msg[w] \in Triaged
    /\ state[w] # None => /\ pc[w] \notin {"down", "idle", "pulled"}
                          /\ Has(KeyOf(w), state[w])
    /\ pc[w] \in {"loading", "deciding", "settled", "receipted", "recorded"}
         => state[w] # Acknowledged
    /\ pc[w] = "dropping" => state[w] = Acknowledged
    /\ pc[w] = "receipted" => Has(KeyOf(w), Received)
    /\ pc[w] \in {"recorded", "attempted", "notified", "acked"} => Has(KeyOf(w), Classified)
    /\ pc[w] = "attempted" => Has(KeyOf(w), NotificationAttempted)

OrderInv ==
    /\ LedgerShape
    /\ AttemptBeforeEmit
    /\ \A w \in Worker : HandlerInv(w)

\* A step of one handler leaves the others where they were.
SameLocals(v) ==
    pc'[v] = pc[v] /\ msg'[v] = msg[v] /\ state'[v] = state[v] /\ record'[v] = record[v]

LEMMA OneHandlerMoves ==
    ASSUME LocalOK, NEW w \in Worker, NEW v \in Worker, v # w,
           Handles(w) \/ Errs(w) \/ Ends(w) \/ Start(w) \/ \E m \in Message : Pull(w, m)
    PROVE  SameLocals(v)
<1> USE DEF LocalOK, SameLocals, Goto, Return, local
<1>1. CASE Handles(w)
  <2>1. CASE Refuse(w) \/ Skip(w) \/ Resume(w) \/ Drop(w) \/ Load(w)
    BY <2>1 DEF Refuse, Skip, Resume, Drop, Load
  <2>2. CASE Decide(w) \/ Receive(w) \/ Classify(w) \/ Attempt(w) \/ StayQuiet(w)
    BY <2>2 DEF Decide, Receive, Classify, Attempt, StayQuiet
  <2>3. CASE Emit(w) \/ Acknowledge(w) \/ Closes(w) \/ Drill(w)
    BY <2>3 DEF Emit, Acknowledge, Closes, Drill
  <2>4. QED BY <1>1, <2>1, <2>2, <2>3 DEF Handles
<1>2. CASE Errs(w) \/ Ends(w) \/ Start(w) BY <1>2 DEF Errs, Ends, Start
<1>3. ASSUME NEW m \in Message, Pull(w, m) PROVE SameLocals(v) BY <1>3 DEF Pull
<1>4. QED BY <1>1, <1>2, <1>3

\* A call is made by a handler at work, and moves that one only.
LEMMA StepMoves ==
    ASSUME LocalOK, NEW w \in Worker, Step(w) \/ Fail(w) \/ Crash(w)
    PROVE  /\ Step(w) \/ Fail(w) => pc[w] \notin {"down", "idle"}
           /\ \A v \in Worker : v # w => SameLocals(v)
<1>1. Step(w) => Handles(w)
  BY DEF Step, Handles, Close, Closes
<1>2. Fail(w) => Errs(w)
  BY DEF Fail, Errs
<1>3. Crash(w) => Ends(w)
  BY DEF Crash, Ends
<1>4. \A v \in Worker : v # w => SameLocals(v)
  BY <1>1, <1>2, <1>3, OneHandlerMoves
<1>5. Fail(w) => pc[w] \notin {"down", "idle"}
  BY DEF Fail, Fallible
<1>6. Drill(w) => pc[w] \notin {"down", "idle"}
  BY DEF Drill, AtBoundary
<1>7. Step(w) => pc[w] \notin {"down", "idle"}
  BY <1>6 DEF Step, Refuse, Skip, Resume, Drop, Load, Decide, Receive, Classify, Attempt,
              StayQuiet, Emit, Acknowledge, Close, Goto
<1>8. QED BY <1>4, <1>5, <1>7

\* What a handler knows outlives the steps of others.
LEMMA HandlerInvStable ==
    ASSUME TypeInv, Grows, NEW v \in Worker, SameLocals(v), HandlerInv(v)
    PROVE  HandlerInv(v)'
<1>1. \A k \in Key, s \in States : Has(k, s) => Has(k, s)'
  BY DEF Grows, Has
<1>2. pc[v] \notin {"down", "idle"} => KeyOf(v) \in Key
  BY InHand DEF TypeInv
<1>3. state[v] # None => state[v] \in States
  BY DEF TypeInv, LocalOK
<1>4. KeyOf(v)' = KeyOf(v)
  BY DEF KeyOf, SameLocals
<1>5. \A s \in States : pc[v] \notin {"down", "idle"} /\ Has(KeyOf(v), s)
         => Has(KeyOf(v), s)'
  BY <1>1, <1>2, <1>4
<1>6. QED
  BY <1>3, <1>5
     DEF HandlerInv, SameLocals, States, Received, Classified, NotificationAttempted, Acknowledged

LEMMA ShapeKept ==
    ASSUME StoreOK, LedgerShape, NEW k \in Key, NEW s \in States, NEW r \in Record,
           ledger' = Created(k, s, r),
           s = Classified => Has(k, Received),
           s \in {NotificationAttempted, Acknowledged} => Has(k, Classified)
    PROVE  LedgerShape'
  BY CreatedFacts
     DEF StoreOK, LedgerShape, Has, States, Received, Classified, NotificationAttempted, Acknowledged

\* The attempt stays on record as long as nothing else goes out.
LEMMA AttemptKept ==
    ASSUME Grows, AttemptBeforeEmit, UNCHANGED emitted PROVE AttemptBeforeEmit'
  BY DEF Grows, AttemptBeforeEmit, Has, States, NotificationAttempted

LEMMA OrderInit == Init => OrderInv
  BY NoneAssumption
     DEF Init, OrderInv, LedgerShape, AttemptBeforeEmit, HandlerInv, EmptyLedger, Has,
         States, Received, Classified, NotificationAttempted, Acknowledged

\* The handler that moves still knows what its new phase needs.
LEMMA MoverKnows ==
    ASSUME TypeInv, OrderInv, Grows, NEW w \in Worker,
           Handles(w) \/ Errs(w) \/ Ends(w) \/ Start(w) \/ \E m \in Message : Pull(w, m)
    PROVE  HandlerInv(w)'
<1> USE DEF TypeInv
<1> DEFINE Returned == pc'[w] \in {"down", "idle", "pulled"} /\ state'[w] = None
<1>1. Returned => HandlerInv(w)'
  BY DEF HandlerInv
<1>2. HandlerInv(w) BY DEF OrderInv
<1>3. CASE Refuse(w) \/ Skip(w) \/ Drop(w) \/ Closes(w) \/ Drill(w) \/ Errs(w) \/ Ends(w)
  BY <1>1, <1>3 DEF Refuse, Skip, Drop, Closes, Drill, Errs, Ends, Return, LocalOK
<1>4. CASE Start(w) \/ \E m \in Message : Pull(w, m)
  BY <1>1, <1>2, <1>4 DEF Start, Pull, Goto, HandlerInv, LocalOK, local
<1>5. CASE Resume(w)
  <2>1. KeyOf(w) \in Key BY <1>5, InHand DEF Resume
  <2>2. /\ state'[w] = Furthest(KeyOf(w)) /\ msg' = msg /\ ledger' = ledger
        /\ msg[w] \in Triaged
        /\ pc'[w] \in {"dropping", "loading", "deciding"}
        /\ pc'[w] = "dropping" <=> state'[w] = Acknowledged
    BY <1>5, RankFacts DEF Resume, Goto, LocalOK, Before
  <2>3. QED BY <2>1, <2>2, FurthestFacts DEF HandlerInv, KeyOf, Has
<1>6. CASE Load(w)
  BY <1>1, <1>2, <1>6 DEF Load, Return, Goto, LocalOK, HandlerInv, KeyOf, Has
<1>7. CASE Decide(w) \/ StayQuiet(w) \/ Emit(w) \/ Acknowledge(w)
  BY <1>2, <1>7
     DEF Decide, StayQuiet, Emit, Acknowledge, Goto, LocalOK, HandlerInv, KeyOf, Has, local
<1>8. CASE Receive(w) \/ Classify(w) \/ Attempt(w)
  <2>1. /\ pc[w] \in Holding /\ record[w] \in Record /\ KeyOf(w) \in Key
        /\ msg' = msg /\ KeyOf(w)' = KeyOf(w) /\ state[w] \in States \union {None}
    BY <1>8, Writes, InHand
       DEF Receive, Classify, Attempt, Goto, Holding, KeyOf, local, LocalOK
  <2>2. \A s \in States : Has(KeyOf(w), s) => Has(KeyOf(w), s)'
    BY <2>1 DEF Grows, Has
  <2>3. CASE Receive(w)
    <3>1. Has(KeyOf(w), Received)'
      <4>1. CASE state[w] = None
        BY <2>1, <2>3, <4>1, CreatedFacts DEF Receive, Has, StoreOK, States, Received
      <4>2. CASE state[w] # None
        BY <1>2, <2>1, <2>2, <4>2
           DEF HandlerInv, OrderInv, LedgerShape, States, Received, Classified,
               NotificationAttempted, Acknowledged
      <4>3. QED BY <4>1, <4>2
    <3>2. QED
      BY <1>2, <2>1, <2>2, <2>3, <3>1 DEF Receive, Goto, HandlerInv, LocalOK, local
  <2>4. CASE Classify(w)
    <3>1. Has(KeyOf(w), Classified)'
      BY <2>1, <2>4, CreatedFacts DEF Classify, Has, StoreOK, States, Classified
    <3>2. QED
      BY <1>2, <2>1, <2>2, <2>4, <3>1 DEF Classify, Goto, HandlerInv, LocalOK, local
  <2>5. CASE Attempt(w)
    <3>1. Has(KeyOf(w), NotificationAttempted)'
      <4>1. CASE Unattempted(w)
        BY <2>1, <2>5, <4>1, CreatedFacts
           DEF Attempt, Has, StoreOK, States, NotificationAttempted
      <4>2. CASE ~Unattempted(w)
        <5>1. state[w] = NotificationAttempted
          BY <1>2, <2>1, <2>5, <4>2, RankFacts
             DEF Unattempted, Attempt, Goto, HandlerInv, Before, States
        <5>2. QED
          BY <1>2, <2>2, <5>1, NoneAssumption DEF HandlerInv, States, NotificationAttempted
      <4>3. QED BY <4>1, <4>2
    <3>2. Has(KeyOf(w), Classified)'
      BY <1>2, <2>2, <2>5 DEF HandlerInv, Attempt, Goto, States, Classified
    <3>3. QED
      BY <1>2, <2>1, <2>5, <3>1, <3>2 DEF Attempt, Goto, HandlerInv, LocalOK
  <2>6. QED BY <1>8, <2>3, <2>4, <2>5
<1>9. QED BY <1>3, <1>4, <1>5, <1>6, <1>7, <1>8 DEF Handles

LEMMA OrderNext == TypeInv /\ OrderInv /\ Wider => OrderInv'
<1> SUFFICES ASSUME TypeInv, OrderInv, Wider PROVE OrderInv'
  OBVIOUS
<1> USE DEF TypeInv
<1>1. Grows BY StepGrows
<1>2. \A w \in Worker : HandlerInv(w)'
  <2> SUFFICES ASSUME NEW v \in Worker PROVE HandlerInv(v)'
    OBVIOUS
  <2>1. CASE SameLocals(v) BY <1>1, <2>1, HandlerInvStable DEF OrderInv
  <2>2. CASE ~SameLocals(v)
    <3>1. ~UNCHANGED <<pc, local>> BY <2>2 DEF SameLocals, local
    <3>2. PICK w \in Worker :
             Handles(w) \/ Errs(w) \/ Ends(w) \/ Start(w) \/ \E m \in Message : Pull(w, m)
      BY <3>1 DEF Wider, Expire, Loses, local
    <3>3. v = w BY <2>2, <3>2, OneHandlerMoves
    <3>4. QED BY <1>1, <3>2, <3>3, MoverKnows
  <2>3. QED BY <2>1, <2>2
<1>3. ASSUME NEW w \in Worker, pc[w] \in Holding, NEW s \in States,
             ledger' = Created(KeyOf(w), s, record[w]),
             s = Classified => Has(KeyOf(w), Received),
             s \in {NotificationAttempted, Acknowledged} => Has(KeyOf(w), Classified)
      PROVE  LedgerShape'
  BY <1>3, Writes, InHand, ShapeKept DEF OrderInv, Holding
<1>4. LedgerShape'
  <2>1. CASE UNCHANGED ledger BY <2>1 DEF OrderInv, LedgerShape, Has
  <2>2. ASSUME NEW w \in Worker, Handles(w) PROVE LedgerShape'
    <3>1. HandlerInv(w) BY DEF OrderInv
    <3>2. CASE Receive(w)
      BY <3>2, <1>3, <2>1 DEF Receive, Goto, Holding, States, Received, Classified,
                              NotificationAttempted, Acknowledged
    <3>3. CASE Classify(w)
      BY <3>1, <3>3, <1>3 DEF Classify, Goto, Holding, States, HandlerInv, Classified,
                              NotificationAttempted, Acknowledged
    <3>4. CASE Attempt(w)
      BY <3>1, <3>4, <1>3, <2>1 DEF Attempt, Goto, Holding, States, HandlerInv, Classified,
                              NotificationAttempted
    <3>5. CASE Closes(w)
      BY <3>1, <3>5, <1>3, <2>1 DEF Closes, Holding, States, HandlerInv, Classified, Acknowledged
    <3>6. QED
      BY <2>1, <2>2, <3>2, <3>3, <3>4, <3>5
         DEF Handles, Refuse, Skip, Resume, Drop, Load, Decide, StayQuiet, Emit, Acknowledge, Drill
  <2>3. ASSUME NEW w \in Worker, Errs(w) PROVE LedgerShape'
    <3>1. HandlerInv(w) BY DEF OrderInv
    <3>2. QED
      BY <2>1, <2>3, <3>1, <1>3
         DEF Errs, DoneAnyway, Holding, HandlerInv, States, Received, Classified,
             NotificationAttempted, Acknowledged
  <2>4. QED
    BY <2>1, <2>2, <2>3 DEF Wider, Pull, Ends, Start, Expire, Loses
<1>5. AttemptBeforeEmit'
  <2>1. CASE UNCHANGED emitted BY <1>1, <2>1, AttemptKept DEF OrderInv
  <2>2. ASSUME NEW w \in Worker, pc[w] = "attempted",
               emitted' = [emitted EXCEPT ![KeyOf(w)] = @ \union {record[w]}]
        PROVE  AttemptBeforeEmit'
    <3>1. Has(KeyOf(w), NotificationAttempted) /\ KeyOf(w) \in Key
      BY <2>2, InHand DEF OrderInv, HandlerInv
    <3>2. \A k \in Key : Has(k, NotificationAttempted) => Has(k, NotificationAttempted)'
      BY <1>1 DEF Grows, Has, States, NotificationAttempted
    <3>3. QED BY <2>2, <3>1, <3>2 DEF AttemptBeforeEmit, OrderInv, StoreOK
  <2>3. CASE \E w \in Worker : Emit(w) BY <2>2, <2>3 DEF Emit, Goto
  <2>4. CASE \E w \in Worker : Errs(w) BY <2>1, <2>2, <2>4 DEF Errs, DoneAnyway
  <2>5. QED
    BY <2>1, <2>3, <2>4
       DEF Wider, Handles, Refuse, Skip, Resume, Drop, Load, Decide, Receive, Classify, Attempt,
           StayQuiet, Acknowledge, Closes, Drill, Pull, Ends, Start, Expire, Loses
<1>6. QED BY <1>2, <1>4, <1>5 DEF OrderInv

\* An attempt or an acknowledgement presupposes a verdict on record, and a
\* verdict a receipt, for any number of workers on any messages.
THEOREM LedgerOrdered == Spec => []LedgerShape
<1>1. Spec => []TypeInv BY TypeInit, NextWider, TypeNext, PTL DEF Spec
<1>2. Spec => []OrderInv BY <1>1, NextWider, OrderInit, OrderNext, PTL DEF Spec
<1>3. OrderInv => LedgerShape BY DEF OrderInv
<1>4. QED BY <1>2, <1>3, PTL

\* No entry goes out unless the attempt is on record.
THEOREM AttemptsRecorded == Spec => []AttemptBeforeEmit
<1>1. Spec => []TypeInv BY TypeInit, NextWider, TypeNext, PTL DEF Spec
<1>2. Spec => []OrderInv BY <1>1, NextWider, OrderInit, OrderNext, PTL DEF Spec
<1>3. OrderInv => AttemptBeforeEmit BY DEF OrderInv
<1>4. QED BY <1>2, <1>3, PTL

-----------------------------------------------------------------------------
(* No missed notification, for processes whose images price alike.            *)

\* Whatever is on record, in hand or told is in line with the one pricing of
\* the finding.
PricedInv ==
    /\ \A k \in Key, w \in Worker, m \in Triaged :
           Has(k, Classified) /\ Body[m].key = k
               => (Notifies(ledger[k][Classified]) <=> ~Quiet(w, m))
    /\ \A w \in Worker :
           /\ pc[w] \in Holding => (Notifies(record[w]) <=> ~Quiet(w, msg[w]))
           /\ pc[w] = "attempted" => Notifies(record[w])
           /\ pc[w] \in {"notified", "acked"} /\ Notifies(record[w])
                => emitted[KeyOf(w)] # {}
    /\ NoMissedNotification

\* Decide accepts what the image prices, and nothing else.
LEMMA OutcomesPriced ==
    ASSUME NEW w \in Worker, NEW m \in Triaged, NEW r \in Outcomes(w, m)
    PROVE  Notifies(r) <=> ~Quiet(w, m)
  BY DEF Outcomes, Rulings, Notifies, Quiet

LEMMA PricedInit == Init => PricedInv
  BY NoneAssumption
     DEF Init, PricedInv, NoMissedNotification, Closed, EmptyLedger, Has, Holding, States,
         Triaged, Classified, Acknowledged

\* The verdict on record stays, and a new one is the one its handler held.
LEMMA VerdictSource ==
    ASSUME TypeInv, OrderInv, Wider, NEW k \in Key, ~Has(k, Classified), Has(k, Classified)'
    PROVE  \E w \in Worker : /\ pc[w] = "receipted" /\ KeyOf(w) = k
                             /\ Classify(w) \/ Errs(w)
                             /\ ledger'[k][Classified] = record[w]
<1> USE DEF TypeInv
<1>1. ASSUME NEW w \in Worker, pc[w] \in Holding, NEW s \in States,
             ledger' = Created(KeyOf(w), s, record[w])
      PROVE  /\ s = Classified /\ KeyOf(w) = k
             /\ ledger'[k][Classified] = record[w]
  <2>1. record[w] \in Record /\ KeyOf(w) \in Key
    BY <1>1, Writes, InHand DEF Holding
  <2>2. QED BY <1>1, <2>1, CreatedFacts DEF Has, StoreOK, States, Classified
<1>2. ledger' # ledger BY DEF Has
<1>3. PICK w \in Worker : Handles(w) \/ Errs(w)
  BY <1>2 DEF Wider, Pull, Ends, Start, Expire, Loses
<1>4. CASE Receive(w)
  BY <1>1, <1>2, <1>4 DEF Receive, Goto, Holding, States, Received, Classified
<1>5. CASE Attempt(w)
  BY <1>1, <1>2, <1>5 DEF Attempt, Goto, Holding, States, NotificationAttempted, Classified
<1>6. CASE Closes(w)
  BY <1>1, <1>2, <1>6 DEF Closes, Holding, States, Acknowledged, Classified
<1>7. CASE Classify(w)
  <2>1. KeyOf(w) = k /\ ledger'[k][Classified] = record[w]
    BY <1>1, <1>7 DEF Classify, Goto, Holding, States, Classified
  <2>2. QED BY <1>7, <2>1 DEF Classify, Goto, queue
<1>8. CASE Errs(w)
  <2>1. DoneAnyway(w) BY <1>2, <1>8 DEF Errs
  <2>2. pc[w] = "receipted" /\ ledger' = Created(KeyOf(w), Classified, record[w])
    BY <1>1, <1>2, <2>1
       DEF DoneAnyway, Holding, States, Received, Classified, NotificationAttempted
  <2>3. KeyOf(w) = k /\ ledger'[k][Classified] = record[w]
    BY <1>1, <2>2 DEF Holding, States, Classified
  <2>4. QED BY <1>8, <2>2, <2>3
<1>9. QED
  BY <1>2, <1>3, <1>4, <1>5, <1>6, <1>7, <1>8
     DEF Handles, Refuse, Skip, Resume, Drop, Load, Decide, StayQuiet, Emit, Acknowledge, Drill

\* What goes out is the record of a handler whose attempt is on record.
LEMMA EmissionSource ==
    ASSUME Wider, ~UNCHANGED emitted
    PROVE  \E w \in Worker :
              /\ pc[w] = "attempted"
              /\ emitted' = [emitted EXCEPT ![KeyOf(w)] = @ \union {record[w]}]
BY DEF Wider, Handles, Refuse, Skip, Resume, Drop, Load, Decide, Receive, Classify, Attempt,
       StayQuiet, Emit, Goto, Acknowledge, Closes, Drill, Pull, Errs, DoneAnyway, Ends,
       Start, Expire, Loses

\* A finding is closed by the handler that told its owner, or had nothing to tell.
LEMMA ClosingSource ==
    ASSUME TypeInv, OrderInv, Wider, NEW k \in Key, ~Closed(k), Closed(k)'
    PROVE  \E w \in Worker : /\ pc[w] \in {"notified", "acked"} /\ KeyOf(w) = k
                             /\ Acknowledge(w) \/ Closes(w)
<1> USE DEF TypeInv
<1>1. CASE Has(k, Acknowledged)'
  <2>1. ~Has(k, Acknowledged) BY DEF Closed
  <2>2. ledger' # ledger BY <1>1, <2>1 DEF Has
  <2>3. ASSUME NEW w \in Worker, pc[w] \in Holding, NEW s \in States,
               ledger' = Created(KeyOf(w), s, record[w])
        PROVE  s = Acknowledged /\ KeyOf(w) = k
    <3>1. record[w] \in Record /\ KeyOf(w) \in Key
      BY <2>3, Writes, InHand DEF Holding
    <3>2. QED BY <1>1, <2>1, <2>3, <3>1, CreatedFacts DEF Has, StoreOK, States, Acknowledged
  <2>4. PICK w \in Worker : Handles(w) \/ Errs(w)
    BY <2>2 DEF Wider, Pull, Ends, Start, Expire, Loses
  <2>5. ~Receive(w) /\ ~Classify(w) /\ ~Attempt(w) /\ ~Errs(w)
    BY <2>2, <2>3
       DEF Receive, Classify, Attempt, Errs, DoneAnyway, Goto, Holding, States, Received,
           Classified, NotificationAttempted, Acknowledged
  <2>6. Closes(w)
    BY <2>2, <2>4, <2>5
       DEF Handles, Refuse, Skip, Resume, Drop, Load, Decide, StayQuiet, Emit, Acknowledge, Drill
  <2>7. QED BY <2>2, <2>3, <2>6 DEF Closes, Holding, States, Acknowledged
<1>2. CASE ~Has(k, Acknowledged)'
  <2>1. PICK m \in Triaged : Body[m].key = k /\ status'[m] = "acked" /\ status[m] # "acked"
    BY <1>2 DEF Closed
  <2>2. m \in Message BY DEF Triaged
  <2>3. \A n \in Message : ~Requeue(n)
    BY <2>1, <2>2 DEF Requeue, QueueOK
  <2>4. ASSUME NEW w \in Worker, pc[w] \notin {"down", "idle"}, Ack(w) PROVE msg[w] = m
    BY <2>1, <2>2, <2>4, InHand DEF Ack, QueueOK, queue
  <2>5. PICK w \in Worker : Handles(w)
    BY <2>1, <2>2, <2>3, InHand
       DEF Wider, Pull, Errs, Fallible, Nack, Ends, Start, Expire, Loses, queue
  <2>6. ~Skip(w)
    BY <2>1, <2>4 DEF Skip, Form, Triaged
  <2>7. ~Drop(w)
    BY <2>1, <2>4, NoneAssumption
       DEF Drop, Closed, OrderInv, HandlerInv, KeyOf, States, Acknowledged
  <2>8. Acknowledge(w)
    BY <2>1, <2>2, <2>3, <2>5, <2>6, <2>7, InHand
       DEF Handles, Refuse, Nack, Resume, Load, Decide, Receive, Classify, Attempt, StayQuiet, Emit,
           Closes, Drill, queue
  <2>9. QED BY <2>1, <2>4, <2>8 DEF Acknowledge, Goto, KeyOf
<1>3. QED BY <1>1, <1>2

\* Nothing acknowledged or recorded as such is taken back.
LEMMA ClosedStays == ASSUME TypeInv, Wider, NEW k \in Key, Closed(k) PROVE Closed(k)'
<1>1. \A m \in Message : status[m] = "acked" => status'[m] = "acked"
  <2>1. \A m \in Message : Requeue(m) => \A n \in Message : status[n] = "acked" => status'[n] = "acked"
    BY DEF Requeue, TypeInv, QueueOK
  <2>2. \A w \in Worker : (Ack(w) \/ Nack(w)) /\ msg[w] \in Message
           => \A n \in Message : status[n] = "acked" => status'[n] = "acked"
    BY <2>1 DEF Ack, Nack, TypeInv, QueueOK, queue
  <2>3. CASE \E w \in Worker : Errs(w)
    BY <2>2, <2>3, InHand DEF Errs, Fallible, TypeInv
  <2>4. CASE \E w \in Worker : Handles(w)
    BY <2>2, <2>4, InHand
       DEF Handles, Refuse, Skip, Resume, Drop, Load, Decide, Receive, Classify, Attempt, StayQuiet,
           Emit, Acknowledge, Goto, Closes, Drill, queue, TypeInv
  <2>5. QED
    BY <2>1, <2>3, <2>4 DEF Wider, Pull, Ends, Start, Expire, Loses, queue
<1>2. Has(k, Acknowledged) => Has(k, Acknowledged)'
  BY StepGrows DEF Grows, Has, States
<1>3. QED BY <1>1, <1>2 DEF Closed, Triaged

\* What closing a finding rests on: a handler that tells or has told acts on a
\* verdict that is the one on record as far as telling goes.
TellsInv ==
    \A w \in Worker :
        /\ pc[w] = "attempted" => Notifies(ledger[KeyOf(w)][Classified])
        /\ pc[w] \in {"notified", "acked"} /\ Notifies(ledger[KeyOf(w)][Classified])
             => emitted[KeyOf(w)] # {}

LEMMA PricedTells == TypeInv /\ OrderInv /\ PricedInv => TellsInv
<1> SUFFICES ASSUME TypeInv, OrderInv, PricedInv, NEW w \in Worker,
                    pc[w] \in {"attempted", "notified", "acked"}
             PROVE  /\ pc[w] = "attempted" => Notifies(ledger[KeyOf(w)][Classified])
                    /\ pc[w] \in {"notified", "acked"} /\ Notifies(ledger[KeyOf(w)][Classified])
                         => emitted[KeyOf(w)] # {}
  BY DEF TellsInv
<1>1. KeyOf(w) \in Key /\ msg[w] \in Triaged /\ Has(KeyOf(w), Classified)
  BY InHand DEF TypeInv, OrderInv, HandlerInv
<1>2. Notifies(ledger[KeyOf(w)][Classified]) <=> ~Quiet(w, msg[w])
  BY <1>1 DEF PricedInv, KeyOf
<1>3. Notifies(record[w]) <=> ~Quiet(w, msg[w])
  BY DEF PricedInv, Holding
<1>4. QED BY <1>2, <1>3 DEF PricedInv

\* What was told stays told.
LEMMA ToldStays ==
    ASSUME TypeInv, Wider, NEW k \in Key, emitted[k] # {} PROVE emitted'[k] # {}
<1>1. CASE UNCHANGED emitted
  BY <1>1
<1>2. CASE ~UNCHANGED emitted
  BY <1>2, EmissionSource DEF TypeInv, StoreOK
<1>3. QED BY <1>1, <1>2

LEMMA NoMissedNext ==
    ASSUME TypeInv, OrderInv, TellsInv, NoMissedNotification, Wider
    PROVE  NoMissedNotification'
<1> SUFFICES ASSUME NEW k \in Key, Closed(k)'
             PROVE  /\ Has(k, Classified)'
                    /\ Notifies(ledger'[k][Classified]) => emitted'[k] # {}
  BY DEF NoMissedNotification
<1>1. Has(k, Classified) /\ (Notifies(ledger[k][Classified]) => emitted[k] # {})
  <2>1. CASE Closed(k)
    BY <2>1 DEF NoMissedNotification
  <2>2. CASE ~Closed(k)
    BY <2>2, ClosingSource DEF OrderInv, HandlerInv, TellsInv
  <2>3. QED BY <2>1, <2>2
<1>2. ledger'[k][Classified] = ledger[k][Classified]
  BY <1>1, StepGrows DEF Grows, States
<1>3. QED BY <1>1, <1>2, ToldStays DEF Has

LEMMA PricedNext ==
    ASSUME AgreedPricing
    PROVE  TypeInv /\ OrderInv /\ PricedInv /\ Wider => PricedInv'
<1> SUFFICES ASSUME TypeInv, OrderInv, PricedInv, Wider PROVE PricedInv'
  OBVIOUS
<1> USE DEF TypeInv
<1>1. Grows /\ TypeInv' /\ OrderInv' BY StepGrows, TypeNext, OrderNext
<1>2. \A k \in Key, w \in Worker, m \in Triaged :
         Has(k, Classified)' /\ Body[m].key = k
             => (Notifies(ledger'[k][Classified]) <=> ~Quiet(w, m))
  <2> SUFFICES ASSUME NEW k \in Key, NEW v \in Worker, NEW m \in Triaged,
                      Has(k, Classified)', Body[m].key = k
               PROVE  Notifies(ledger'[k][Classified]) <=> ~Quiet(v, m)
    OBVIOUS
  <2>1. CASE Has(k, Classified)
    BY <1>1, <2>1 DEF PricedInv, Grows, Notifies, States
  <2>2. CASE ~Has(k, Classified)
    <3>1. PICK w \in Worker : /\ pc[w] = "receipted" /\ KeyOf(w) = k
                              /\ ledger'[k][Classified] = record[w]
      BY <2>2, VerdictSource
    <3>2. msg[w] \in Triaged BY <3>1 DEF OrderInv, HandlerInv
    <3>3. Notifies(record[w]) <=> ~Quiet(w, msg[w]) BY <3>1 DEF PricedInv, Holding
    <3>4. Quiet(w, msg[w]) <=> Quiet(v, m)
      BY <3>1, <3>2 DEF AgreedPricing, KeyOf
    <3>5. QED BY <3>1, <3>3, <3>4
  <2>3. QED BY <2>1, <2>2
<1>3. \A k \in Key : emitted[k] # {} => emitted'[k] # {}
  BY ToldStays
<1>4. ASSUME NEW v \in Worker
      PROVE  /\ pc'[v] \in Holding => (Notifies(record'[v]) <=> ~Quiet(v, msg'[v]))
             /\ pc'[v] = "attempted" => Notifies(record'[v])
             /\ pc'[v] \in {"notified", "acked"} /\ Notifies(record'[v])
                  => emitted'[KeyOf(v)'] # {}
  <2> DEFINE Goal == /\ pc'[v] \in Holding => (Notifies(record'[v]) <=> ~Quiet(v, msg'[v]))
                     /\ pc'[v] = "attempted" => Notifies(record'[v])
                     /\ pc'[v] \in {"notified", "acked"} /\ Notifies(record'[v])
                          => emitted'[KeyOf(v)'] # {}
  <2>1. CASE SameLocals(v)
    <3>1. pc[v] \in {"notified", "acked"} => KeyOf(v) \in Key BY InHand
    <3>2. KeyOf(v)' = KeyOf(v) BY <2>1 DEF SameLocals, KeyOf
    <3>3. QED BY <1>3, <2>1, <3>1, <3>2 DEF PricedInv, SameLocals
  <2>2. CASE ~SameLocals(v)
    <3>1. ~UNCHANGED <<pc, local>> BY <2>2 DEF SameLocals, local
    <3>2. PICK w \in Worker :
             Handles(w) \/ Errs(w) \/ Ends(w) \/ Start(w) \/ \E m \in Message : Pull(w, m)
      BY <3>1 DEF Wider, Expire, Loses, local
    <3>3. v = w BY <2>2, <3>2, OneHandlerMoves
    <3>4. CASE pc'[v] \notin Holding BY <3>4 DEF Holding
    <3>5. CASE Decide(v)
      BY <3>5, OutcomesPriced DEF Decide, Goto, LocalOK, OrderInv, HandlerInv
    <3>6. CASE Load(v)
      <4>1. CASE pc'[v] \notin Holding BY <3>4, <4>1
      <4>2. CASE pc'[v] \in Holding
        <5>1. ledger[KeyOf(v)][Classified] # None
          BY <3>6, <4>2 DEF Load, Return, LocalOK, Holding
        <5>2. /\ msg'[v] = msg[v] /\ pc'[v] = "recorded"
              /\ record'[v] = ledger[KeyOf(v)][Classified]
          BY <3>6, <5>1 DEF Load, Goto, LocalOK
        <5>3. KeyOf(v) \in Key /\ msg[v] \in Triaged
          BY <3>6, InHand DEF Load, OrderInv, HandlerInv
        <5>4. QED BY <5>1, <5>2, <5>3 DEF PricedInv, Has, KeyOf
      <4>3. QED BY <4>1, <4>2
    <3>7. CASE Receive(v) \/ Classify(v) \/ Attempt(v) \/ StayQuiet(v)
      BY <3>7 DEF Receive, Classify, Attempt, StayQuiet, Goto, LocalOK, PricedInv, Holding, local
    <3>8. CASE Emit(v)
      <4>1. KeyOf(v) \in Key /\ KeyOf(v)' = KeyOf(v)
        BY <3>8, InHand DEF Emit, Goto, KeyOf, local
      <4>2. emitted'[KeyOf(v)] # {} BY <3>8, <4>1 DEF Emit, StoreOK
      <4>3. QED BY <3>8, <4>1, <4>2 DEF Emit, Goto, LocalOK, PricedInv, Holding, local
    <3>9. CASE Acknowledge(v)
      BY <3>9 DEF Acknowledge, Goto, LocalOK, PricedInv, Holding, KeyOf, local
    <3>10. QED
      BY <3>2, <3>3, <3>4, <3>5, <3>6, <3>7, <3>8, <3>9
         DEF Handles, Refuse, Skip, Resume, Drop, Closes, Drill, Errs, Ends, Start, Pull, Return,
             Goto, LocalOK, Holding
  <2>3. QED BY <2>1, <2>2
<1>5. NoMissedNotification'
  BY PricedTells, NoMissedNext DEF PricedInv
<1>6. QED BY <1>2, <1>4, <1>5 DEF PricedInv

\* For any number of workers and any faults, as long as the images that run
\* price alike: no finding leaves the queue unrecorded, or untold when its
\* verdict notifies.
THEOREM NothingMissed ==
    ASSUME AgreedPricing PROVE Spec => []NoMissedNotification
<1>1. Spec => []TypeInv BY TypeInit, NextWider, TypeNext, PTL DEF Spec
<1>2. Spec => []OrderInv BY <1>1, NextWider, OrderInit, OrderNext, PTL DEF Spec
<1>3. TypeInv /\ OrderInv /\ PricedInv /\ Wider => PricedInv' BY PricedNext
<1>4. Spec => []PricedInv BY <1>1, <1>2, <1>3, NextWider, PricedInit, PTL DEF Spec
<1>5. PricedInv => NoMissedNotification BY DEF PricedInv
<1>6. QED BY <1>4, <1>5, PTL

-----------------------------------------------------------------------------
(* The refinement of Triage.                                                  *)

LEMMA PromiseInit == Init => Promise!Init
<1> SUFFICES ASSUME Init PROVE Promise!Init
  OBVIOUS
<1>1. \A k \in Key : ~Has(k, Classified) /\ ~Has(k, Acknowledged)
  BY DEF Init, EmptyLedger, Has, States, Classified, Acknowledged
<1>2. \A k \in Key : Closed(k) = FALSE
  BY <1>1 DEF Init, Closed, Has, Triaged
<1>3. \A k \in Key : (emitted[k] # {}) = FALSE
  BY DEF Init
<1>4. QED BY <1>1, <1>2, <1>3 DEF Promise!Init

\* The handler that settles, tells or closes a finding is the only one to do so
\* in that step, and closing or telling leave the rest of the promise alone.
LEMMA PromiseNext ==
    ASSUME TypeInv, OrderInv, TellsInv, Wider PROVE [Promise!Next]_(Promise!vars)
<1> USE DEF TypeInv
<1>1. Grows /\ TypeInv' BY StepGrows, TypeNext
<1>2. \A k \in Key : Closed(k) => Closed(k)'
  BY ClosedStays
<1>3. \A k \in Key : Has(k, Classified) => ledger'[k][Classified] = ledger[k][Classified]
  BY <1>1 DEF Grows, States
<1>4. ASSUME NEW u \in Worker, NEW v \in Worker,
             Acknowledge(u) \/ Closes(u) \/ Classify(u) \/ Errs(u),
             Acknowledge(v) \/ Closes(v) \/ Classify(v) \/ Errs(v)
      PROVE  u = v
  <2>1. pc'[v] # pc[v]
    BY <1>4 DEF Acknowledge, Closes, Classify, Errs, Fallible, Goto, Return, LocalOK
  <2>2. QED BY <1>4, <2>1, OneHandlerMoves DEF Handles, SameLocals
<1>5. CASE \E k \in Key : ~Closed(k) /\ Closed(k)'
  <2>1. PICK k \in Key : ~Closed(k) /\ Closed(k)' BY <1>5
  <2>2. PICK w \in Worker : /\ pc[w] \in {"notified", "acked"} /\ KeyOf(w) = k
                            /\ Acknowledge(w) \/ Closes(w)
    BY <2>1, ClosingSource
  <2>3. \A j \in Key : j # k => Closed(j)' = Closed(j)
    <3> SUFFICES ASSUME NEW j \in Key, j # k, ~Closed(j), Closed(j)' PROVE FALSE
      BY <1>2 DEF Closed
    <3>1. PICK v \in Worker : KeyOf(v) = j /\ (Acknowledge(v) \/ Closes(v))
      BY ClosingSource
    <3>2. QED BY <1>4, <2>2, <3>1
  <2>4. \A j \in Key : Has(j, Classified)' => Has(j, Classified)
    <3> SUFFICES ASSUME NEW j \in Key, Has(j, Classified)', ~Has(j, Classified) PROVE FALSE
      OBVIOUS
    <3>1. PICK v \in Worker : pc[v] = "receipted" /\ (Classify(v) \/ Errs(v))
      BY VerdictSource
    <3>2. QED BY <1>4, <2>2, <3>1
  <2>5. UNCHANGED emitted BY <2>2 DEF Acknowledge, Closes
  <2>6. Has(k, Classified) /\ (Notifies(ledger[k][Classified]) => emitted[k] # {})
    <3>1. Has(k, Classified) /\ msg[w] \in Triaged BY <2>2 DEF OrderInv, HandlerInv
    <3>2. QED BY <2>2, <3>1 DEF TellsInv
  <2>7. Promise!Close(k)
    BY <1>3, <2>1, <2>3, <2>4, <2>5, <2>6 DEF Promise!Close, Notifies, Has, Closed
  <2>8. QED BY <2>7 DEF Promise!Next
<1>6. CASE /\ \A k \in Key : Closed(k)' = Closed(k)
           /\ \E k \in Key : ~Has(k, Classified) /\ Has(k, Classified)'
  <2>1. PICK k \in Key : ~Has(k, Classified) /\ Has(k, Classified)' BY <1>6
  <2>2. PICK w \in Worker : /\ pc[w] = "receipted" /\ KeyOf(w) = k
                            /\ Classify(w) \/ Errs(w)
                            /\ ledger'[k][Classified] = record[w]
    BY <2>1, VerdictSource
  <2>3. \A j \in Key : j # k => Has(j, Classified)' = Has(j, Classified)
    <3> SUFFICES ASSUME NEW j \in Key, j # k, Has(j, Classified)', ~Has(j, Classified) PROVE FALSE
      BY <1>3 DEF Has
    <3>1. PICK v \in Worker : KeyOf(v) = j /\ (Classify(v) \/ Errs(v))
      BY VerdictSource
    <3>2. QED BY <1>4, <2>2, <3>1
  <2>4. UNCHANGED emitted BY <2>2 DEF Classify, Errs, DoneAnyway
  <2>5. record[w] \in Record BY <2>2, Writes DEF Holding
  <2>6. Promise!Settle(k)
    <3> DEFINE said == [j \in Key |->
                           IF Has(j, Classified) THEN ledger[j][Classified].verdict ELSE "none"]
    <3>1. Has(k, Classified)' /\ ledger'[k][Classified].verdict \in Promise!Verdict
      BY <2>1, <2>2, <2>5 DEF Promise!Verdict, Record, Verdicts
    <3>2. \A j \in Key : Has(j, Classified) => ledger'[j][Classified] = ledger[j][Classified]
      BY <1>3
    <3>3. said' = [said EXCEPT ![k] = ledger'[k][Classified].verdict]
      BY <2>1, <2>3, <3>1, <3>2
    <3>4. said[k] = "none"
      BY <2>1
    <3>5. UNCHANGED <<[j \in Key |-> emitted[j] # {}], [j \in Key |-> Closed(j)]>>
      BY <1>6, <2>4
    <3>6. QED BY <3>1, <3>3, <3>4, <3>5 DEF Promise!Settle
  <2>7. QED BY <2>6 DEF Promise!Next
<1>7. CASE /\ \A k \in Key : Closed(k)' = Closed(k)
           /\ \A k \in Key : Has(k, Classified)' = Has(k, Classified)
  <2>1. CASE UNCHANGED emitted BY <1>3, <1>7, <2>1 DEF Promise!vars, Has
  <2>2. CASE ~UNCHANGED emitted
    <3>1. PICK w \in Worker :
             /\ pc[w] = "attempted"
             /\ emitted' = [emitted EXCEPT ![KeyOf(w)] = @ \union {record[w]}]
      BY <2>2, EmissionSource
    <3>2. KeyOf(w) \in Key BY <3>1, InHand
    <3>3. Has(KeyOf(w), Classified) /\ msg[w] \in Triaged BY <3>1 DEF OrderInv, HandlerInv
    <3>4. Notifies(ledger[KeyOf(w)][Classified])
      BY <3>1 DEF TellsInv
    <3>5. ledger[KeyOf(w)][Classified] \in Record
      BY <3>2, <3>3 DEF StoreOK, Ledgers, Has, States
    <3>6. \E k \in Key : Promise!Tell(k)
      BY <1>3, <1>7, <3>1, <3>2, <3>3, <3>4, <3>5
         DEF Promise!Tell, Promise!Verdict, Notifies, Record, Verdicts, StoreOK
    <3>7. QED BY <3>6 DEF Promise!Next
  <2>3. QED BY <2>1, <2>2
<1>8. CASE \A k \in Key : ~(~Closed(k) /\ Closed(k)')
  <2>1. \A k \in Key : Closed(k)' = Closed(k) BY <1>2, <1>8 DEF Closed, Has
  <2>2. \A k \in Key : Has(k, Classified) => Has(k, Classified)' BY <1>3 DEF Has
  <2>3. CASE \A k \in Key : ~(~Has(k, Classified) /\ Has(k, Classified)')
    <3>1. \A k \in Key : Has(k, Classified)' = Has(k, Classified) BY <2>2, <2>3 DEF Has
    <3>2. QED BY <1>7, <2>1, <3>1
  <2>4. QED BY <1>6, <2>1, <2>3
<1>9. QED BY <1>5, <1>8

\* Processes that price alike keep the promise of Triage: one verdict for each
\* finding, its owner told unless it was accepted, and only then closed.
THEOREM PromiseKept ==
    ASSUME AgreedPricing PROVE Spec => KeepsPromise
<1>1. Spec => []TypeInv BY TypeInit, NextWider, TypeNext, PTL DEF Spec
<1>2. Spec => []OrderInv BY <1>1, NextWider, OrderInit, OrderNext, PTL DEF Spec
<1>3. TypeInv /\ OrderInv /\ PricedInv /\ Wider => PricedInv' BY PricedNext
<1>4. Spec => []PricedInv BY <1>1, <1>2, <1>3, NextWider, PricedInit, PTL DEF Spec
<1>5. TypeInv /\ OrderInv /\ PricedInv /\ Wider => [Promise!Next]_(Promise!vars)
  BY PricedTells, PromiseNext
<1>6. QED
  BY <1>1, <1>2, <1>4, <1>5, NextWider, PromiseInit, PTL DEF Spec, KeepsPromise, Promise!Spec

-----------------------------------------------------------------------------
(* Deliveries.                                                                *)

\* The handler that has the lease of m still has something to do for it.
InHands(m) == lease[m] # None /\ msg[lease[m]] = m /\ pc[lease[m]] # "acked"

\* A live message nobody works on is delivered again at no further cost.
Due(m) == IF status[m] = "live" /\ ~InHands(m) THEN 1 ELSE 0

\* Deliveries had and due are paid for, and so is the one that the end of each
\* process of S will cost.
PaidFor(S) ==
    /\ IsFiniteSet(S)
    /\ \A m \in Message : Body[m].form # "unreadable" =>
          attempts[m] + Due(m) + Cardinality(S) <= 1 + faults

\* A handler that goes for the verdict on record finds one.
LoadingInv == \A w \in Worker : pc[w] = "loading" => Has(KeyOf(w), Classified)

LEMMA PaidInit == Init => LoadingInv /\ PaidFor({})
<1> SUFFICES ASSUME Init PROVE PaidFor({}) /\ LoadingInv
  OBVIOUS
<1>1. IsFiniteSet({}) /\ Cardinality({}) = 0
  BY FS_EmptySet
<1>2. QED BY <1>1 DEF Init, LoadingInv, PaidFor, Due, InHands

\* A message stays as due as it was when nothing of its own moves and the one
\* handler that moves does not drop it.
LEMMA DueKept ==
    ASSUME TypeInv, NEW w \in Worker, NEW m \in Message,
           \A v \in Worker : v # w => SameLocals(v),
           status'[m] = status[m], lease'[m] = lease[m],
           msg[w] = m /\ pc[w] # "acked" => msg'[w] = m /\ pc'[w] # "acked"
    PROVE  Due(m)' <= Due(m)
<1>1. lease[m] \in Worker \union {None}
  BY DEF TypeInv, QueueOK
<1>2. InHands(m) => InHands(m)'
  BY <1>1 DEF InHands, SameLocals
<1>3. QED BY <1>2 DEF Due

\* What a step may do to what is due: at no cost, nothing; at the cost of a
\* fault or of a drill, one delivery.
Owes(more) ==
    \A m \in Message : Body[m].form # "unreadable" =>
        attempts'[m] + Due(m)' <= attempts[m] + Due(m) + more

LEMMA Balance ==
    ASSUME TypeInv, TypeInv', NEW S, NEW T, PaidFor(S),
           \/ Owes(0) /\ T \subseteq S /\ faults' = faults
           \/ Owes(1) /\ T \subseteq S /\ faults' = faults + 1
           \/ \E w \in S : Owes(1) /\ T \subseteq S \ {w} /\ faults' = faults
           \/ \E w \in Worker : Owes(0) /\ T \subseteq S \union {w} /\ faults' = faults + 1
    PROVE  /\ IsFiniteSet(T)
           /\ \A m \in Message : Body[m].form # "unreadable" =>
                 attempts'[m] + Due(m)' + Cardinality(T) <= 1 + faults'
<1>1. IsFiniteSet(S) /\ Cardinality(S) \in Nat
  BY FS_CardinalityType DEF PaidFor
<1>2. \E more \in {0, 1} :
         /\ Owes(more) /\ IsFiniteSet(T)
         /\ Cardinality(T) + more - faults' <= Cardinality(S) - faults
  <2>1. T \subseteq S => IsFiniteSet(T) /\ Cardinality(T) <= Cardinality(S)
    BY <1>1, FS_Subset
  <2>2. ASSUME NEW w \in S, T \subseteq S \ {w}
        PROVE  IsFiniteSet(T) /\ Cardinality(T) <= Cardinality(S) - 1
    <3>1. IsFiniteSet(S \ {w}) /\ Cardinality(S \ {w}) = Cardinality(S) - 1
      BY <1>1, FS_RemoveElement
    <3>2. QED BY <2>2, <3>1, FS_Subset
  <2>3. ASSUME NEW w \in Worker, T \subseteq S \union {w}
        PROVE  IsFiniteSet(T) /\ Cardinality(T) <= Cardinality(S) + 1
    <3>1. IsFiniteSet(S \union {w}) /\ Cardinality(S \union {w}) <= Cardinality(S) + 1
      BY <1>1, FS_AddElement
    <3>2. IsFiniteSet(T) /\ Cardinality(T) <= Cardinality(S \union {w})
      BY <2>3, <3>1, FS_Subset
    <3>3. Cardinality(T) \in Int /\ Cardinality(S \union {w}) \in Int
      BY <3>1, <3>2, FS_CardinalityType
    <3>4. QED BY <1>1, <3>1, <3>2, <3>3
  <2>4. faults \in Int
    BY DEF TypeInv
  <2>5. IsFiniteSet(T) => Cardinality(T) \in Int
    BY FS_CardinalityType
  <2>6. QED BY <1>1, <2>1, <2>2, <2>3, <2>4, <2>5
<1>3. ASSUME NEW m \in Message, Body[m].form # "unreadable"
      PROVE  attempts'[m] + Due(m)' + Cardinality(T) <= 1 + faults'
  <2>1. attempts[m] + Due(m) + Cardinality(S) <= 1 + faults
    BY <1>3 DEF PaidFor
  <2>2. PICK more \in {0, 1} :
           /\ attempts'[m] + Due(m)' <= attempts[m] + Due(m) + more
           /\ Cardinality(T) + more - faults' <= Cardinality(S) - faults
           /\ IsFiniteSet(T)
    BY <1>2, <1>3 DEF Owes
  <2>3. /\ Due(m) \in Int /\ Due(m)' \in Int /\ faults \in Int /\ faults' \in Int
        /\ attempts[m] \in Int /\ attempts'[m] \in Int
    BY DEF TypeInv, QueueOK, Due
  <2>4. Cardinality(T) \in Int
    BY <2>2, FS_CardinalityType
  <2>5. QED BY <1>1, <2>1, <2>2, <2>3, <2>4
<1>4. QED BY <1>2, <1>3

\* A verdict that resume found listed is there to be read.
LEMMA LoadingNext ==
    ASSUME TypeInv, OrderInv, LoadingInv, Wider, NEW v \in Worker, pc'[v] = "loading"
    PROVE  Has(KeyOf(v), Classified)'
<1>1. Grows /\ LocalOK
  BY StepGrows DEF TypeInv
<1>2. CASE SameLocals(v)
  <2>1. KeyOf(v)' = KeyOf(v) /\ KeyOf(v) \in Key /\ Has(KeyOf(v), Classified)
    BY <1>1, <1>2, InHand DEF SameLocals, KeyOf, LoadingInv
  <2>2. QED BY <1>1, <2>1 DEF Grows, Has, States
<1>3. CASE ~SameLocals(v)
  <2>1. ~UNCHANGED <<pc, local>>
    BY <1>3 DEF SameLocals, local
  <2>2. PICK w \in Worker :
           Handles(w) \/ Errs(w) \/ Ends(w) \/ Start(w) \/ \E m \in Message : Pull(w, m)
    BY <2>1 DEF Wider, Expire, Loses, local
  <2>3. v = w
    BY <1>1, <1>3, <2>2, OneHandlerMoves
  <2>4. Resume(v)
    BY <1>1, <2>2, <2>3
       DEF Handles, Refuse, Skip, Drop, Load, Decide, Receive, Classify, Attempt, StayQuiet, Emit,
           Acknowledge, Closes, Drill, Errs, Ends, Start, Pull, Return, Goto, LocalOK
  <2>5. /\ KeyOf(v) \in Key /\ UNCHANGED <<ledger, KeyOf(v)>>
        /\ ~Before(Furthest(KeyOf(v)), Classified) /\ Furthest(KeyOf(v)) # None
    BY <1>1, <2>4, InHand, RankFacts DEF Resume, Goto, LocalOK, KeyOf, Before
  <2>6. Has(KeyOf(v), Furthest(KeyOf(v))) /\ Furthest(KeyOf(v)) \in States \ {Received}
    BY <2>5, FurthestFacts, RankFacts DEF Before, States
  <2>7. QED
    BY <2>5, <2>6 DEF OrderInv, LedgerShape, States, Has
<1>4. QED BY <1>2, <1>3

\* A handler at work keeps its lease on what it works on, acknowledges it or is
\* stopped by the drill it was started for; the rest is a fault.
LEMMA HandlerOwes ==
    ASSUME TypeInv, TypeInv', LoadingInv, NEW w \in Worker, Step(w)
    PROVE  /\ crashAt' = crashAt
           /\ \/ Owes(0) /\ faults' = faults
              \/ Owes(1) /\ faults' = faults + 1
              \/ Owes(1) /\ faults' = faults /\ Drill(w)
<1>1. LocalOK /\ QueueOK
  BY DEF TypeInv
<1>2. pc[w] \notin {"down", "idle"} /\ msg[w] \in Message
  BY <1>1, StepMoves, InHand
<1>3. \A v \in Worker : v # w => SameLocals(v)
  BY <1>1, StepMoves
<1>4. UNCHANGED <<attempts, crashAt>>
  BY DEF Step, Refuse, Skip, Resume, Drop, Load, Decide, Receive, Classify, Attempt, StayQuiet,
         Emit, Acknowledge, Close, Drill, Ack, Nack, Requeue, queue
<1>5. \A m \in Message : attempts[m] \in Int /\ Due(m) \in {0, 1} /\ Due(m)' \in {0, 1}
  BY <1>1 DEF QueueOK, Due
<1>6. Owes(1)
  BY <1>4, <1>5 DEF Owes
<1>8. CASE Drill(w)
  BY <1>4, <1>6, <1>8 DEF Drill
<1>9. ASSUME UNCHANGED <<status, lease>>, pc[w] # "acked" => UNCHANGED msg /\ pc'[w] # "acked"
      PROVE  Owes(0)
  BY <1>3, <1>4, <1>5, <1>9, DueKept DEF Owes
<1>10. CASE \/ Resume(w) \/ Load(w) \/ Decide(w) \/ Receive(w) \/ Classify(w) \/ Attempt(w)
            \/ StayQuiet(w) \/ Emit(w)
  <2>1. pc[w] # "acked" /\ UNCHANGED <<queue, msg, faults>> /\ pc'[w] # "acked"
    BY <1>1, <1>10
       DEF Resume, Load, Decide, Receive, Classify, Attempt, StayQuiet, Emit, Goto, local, queue,
           LocalOK, LoadingInv, Has
  <2>2. QED BY <1>4, <1>9, <2>1 DEF queue
<1>11. CASE Close(w)
  <2>1. Owes(0)
    BY <1>9, <1>11 DEF Close, queue
  <2>2. faults' = faults \/ faults' = faults + 1
    BY <1>11 DEF Close, Fault
  <2>3. QED BY <1>4, <1>6, <2>1, <2>2
<1>12. CASE Refuse(w)
  <2>1. \A m \in Message : m # msg[w] => status'[m] = status[m] /\ lease'[m] = lease[m]
    BY <1>1, <1>2, <1>12 DEF Refuse, Nack, Requeue, QueueOK, queue
  <2>2. Body[msg[w]].form = "unreadable" /\ faults' = faults
    BY <1>12 DEF Refuse, Form
  <2>3. Owes(0)
    BY <1>3, <1>4, <1>5, <2>1, <2>2, DueKept DEF Owes
  <2>4. QED BY <1>4, <2>2, <2>3
<1>13. CASE Skip(w) \/ Drop(w) \/ Acknowledge(w)
  <2>1. Ack(w)
    BY <1>13 DEF Skip, Drop, Acknowledge
  <2>2. CASE Fault
    BY <1>4, <1>6, <2>2 DEF Fault
  <2>3. CASE ~Fault
    <3>1. /\ status' = [status EXCEPT ![msg[w]] = IF @ = "live" THEN "acked" ELSE @]
          /\ lease' = [lease EXCEPT ![msg[w]] = None] /\ faults' = faults
      BY <2>1, <2>3 DEF Ack
    <3>2. \A m \in Message : m = msg[w] => Due(m)' = 0
      BY <1>1, <1>2, <3>1 DEF Due, QueueOK
    <3>3. \A m \in Message : m # msg[w] => Due(m)' <= Due(m)
      BY <1>1, <1>2, <1>3, <3>1, DueKept DEF QueueOK
    <3>4. Owes(0)
      BY <1>4, <1>5, <3>2, <3>3 DEF Owes
    <3>5. QED BY <1>4, <3>1, <3>4
  <2>4. QED BY <2>2, <2>3
<1>14. QED BY <1>8, <1>10, <1>11, <1>12, <1>13 DEF Step

LEMMA PullOwes ==
    ASSUME TypeInv, TypeInv', NEW w \in Worker, NEW m \in Message, Pull(w, m)
    PROVE  Owes(0) /\ UNCHANGED <<crashAt, faults>>
<1>1. LocalOK /\ QueueOK
  BY DEF TypeInv
<1>2. \A n \in Message : attempts[n] \in Int /\ Due(n) \in {0, 1} /\ Due(n)' \in {0, 1}
  BY <1>1 DEF QueueOK, Due
<1>3. /\ pc[w] = "idle" /\ pc'[w] = "pulled" /\ msg[w] = None /\ msg'[w] = m
      /\ \A v \in Worker : v # w => SameLocals(v)
  BY <1>1, OneHandlerMoves DEF Pull, Goto, LocalOK
<1>4. /\ status[m] = "live" /\ lease[m] = None /\ lease'[m] = w
      /\ attempts'[m] = attempts[m] + 1
      /\ \A n \in Message : n # m => attempts'[n] = attempts[n] /\ lease'[n] = lease[n]
      /\ UNCHANGED <<status, crashAt, faults>>
  BY <1>1 DEF Pull, QueueOK
<1>5. Due(m) = 1 /\ Due(m)' = 0
  BY <1>3, <1>4, NoneAssumption DEF Due, InHands
<1>6. \A n \in Message : n # m => Due(n)' <= Due(n)
  BY <1>1, <1>3, <1>4, NoneAssumption, DueKept
<1>7. QED BY <1>2, <1>4, <1>5, <1>6 DEF Owes

LEMMA ExpireOwes ==
    ASSUME TypeInv, TypeInv', NEW m \in Message, Expire(m)
    PROVE  Owes(0) /\ UNCHANGED <<pc, crashAt, faults>>
<1>1. LocalOK /\ QueueOK
  BY DEF TypeInv
<1>2. \A n \in Message : attempts[n] \in Int /\ Due(n) \in {0, 1} /\ Due(n)' \in {0, 1}
  BY <1>1 DEF QueueOK, Due
<1>3. /\ UNCHANGED <<attempts, pc, msg, crashAt, faults>>
      /\ lease[m] # None /\ msg[lease[m]] # m /\ lease'[m] = None
      /\ status'[m] = "live" => status[m] = "live"
      /\ \A n \in Message : n # m => status'[n] = status[n] /\ lease'[n] = lease[n]
  BY <1>1 DEF Expire, Requeue, QueueOK, local
<1>4. \A n \in Message : Due(n)' <= Due(n)
  BY <1>3 DEF Due, InHands
<1>5. QED BY <1>2, <1>3, <1>4 DEF Owes

\* What delivers nothing makes one delivery due at most ...
LEMMA OneOwed == ASSUME TypeInv, TypeInv', UNCHANGED attempts PROVE Owes(1)
<1>1. \A m \in Message : attempts[m] \in Int /\ Due(m) \in {0, 1} /\ Due(m)' \in {0, 1}
  BY DEF TypeInv, QueueOK, Due
<1>2. QED BY <1>1 DEF Owes

\* ... and none when nothing in hand is dropped.
LEMMA NoneOwed ==
    ASSUME TypeInv, TypeInv', UNCHANGED <<queue, msg>>,
           \A v \in Worker : pc'[v] = "acked" => pc[v] = "acked"
    PROVE  Owes(0)
<1>1. \A m \in Message : attempts[m] \in Int /\ Due(m) \in {0, 1} /\ Due(m)' \in {0, 1}
  BY DEF TypeInv, QueueOK, Due
<1>2. \A m \in Message : InHands(m) => InHands(m)'
  BY DEF InHands, queue, TypeInv, QueueOK
<1>3. \A m \in Message : Due(m)' <= Due(m)
  BY <1>2 DEF Due, queue
<1>4. QED BY <1>1, <1>3 DEF Owes, queue

\* The processes a drill will still stop; the start of each was counted.
Armed == {w \in Worker : crashAt[w] # None /\ pc[w] # "down"}

LEMMA PaidNext ==
    ASSUME TypeInv, TypeInv', LoadingInv, PaidFor(Armed), [Next]_vars
    PROVE  PaidFor(Armed)'
<1>1. LocalOK
  BY DEF TypeInv
<1>2. ASSUME NEW w \in Worker, NEW m \in Message, Pull(w, m)
      PROVE  Owes(0) /\ Armed' \subseteq Armed /\ faults' = faults
  <2>1. Armed' \subseteq Armed
    BY <1>1, <1>2 DEF Pull, Goto, LocalOK, Armed
  <2>2. QED BY <1>2, <2>1, PullOwes
<1>3. ASSUME NEW m \in Message, Expire(m)
      PROVE  Owes(0) /\ Armed' \subseteq Armed /\ faults' = faults
  BY <1>3, ExpireOwes DEF Armed
<1>4. ASSUME NEW m \in Message, LoseLease(m)
      PROVE  Owes(1) /\ Armed' \subseteq Armed /\ faults' = faults + 1
  BY <1>4, OneOwed DEF LoseLease, Requeue, Fault, Armed
<1>5. ASSUME NEW w \in Worker, Fail(w) \/ Crash(w)
      PROVE  Owes(1) /\ Armed' \subseteq Armed /\ faults' = faults + 1
  <2>1. /\ pc[w] # "down" /\ \A v \in Worker : v # w => SameLocals(v)
        /\ UNCHANGED crashAt /\ faults' = faults + 1
    BY <1>1, <1>5, StepMoves DEF Fail, Fallible, Crash, Fault
  <2>2. UNCHANGED attempts
    BY <1>5 DEF Fail, Crash, Nack, Requeue, queue
  <2>3. QED BY <2>1, <2>2, OneOwed DEF Armed, SameLocals
<1>6. ASSUME NEW w \in Worker, Start(w)
      PROVE  \/ Owes(0) /\ Armed' \subseteq Armed /\ faults' = faults
             \/ Owes(0) /\ Armed' \subseteq Armed \union {w} /\ faults' = faults + 1
  <2>1. /\ pc[w] = "down" /\ pc'[w] = "idle" /\ UNCHANGED <<msg, queue>>
        /\ \A v \in Worker : v # w => SameLocals(v) /\ crashAt'[v] = crashAt[v]
        /\ \/ crashAt'[w] = None /\ faults' = faults
           \/ crashAt'[w] # None /\ faults' = faults + 1
    BY <1>1, <1>6, OneHandlerMoves DEF Start, Goto, Fault, LocalOK, TypeInv, local
  <2>2. Owes(0)
    BY <2>1, NoneOwed DEF SameLocals
  <2>3. QED BY <2>1, <2>2 DEF Armed, SameLocals
<1>7. ASSUME NEW w \in Worker, Step(w)
      PROVE  \/ Owes(0) /\ Armed' \subseteq Armed /\ faults' = faults
             \/ Owes(1) /\ Armed' \subseteq Armed /\ faults' = faults + 1
             \/ w \in Armed /\ Owes(1) /\ Armed' \subseteq Armed \ {w} /\ faults' = faults
  <2>1. pc[w] # "down" /\ \A v \in Worker : v # w => SameLocals(v)
    BY <1>1, <1>7, StepMoves
  <2>2. Armed' \subseteq Armed
    BY <1>7, <2>1, HandlerOwes DEF Armed, SameLocals
  <2>3. Drill(w) => pc'[w] = "down" /\ crashAt[w] # None
    BY <1>1, NoneAssumption
       DEF Drill, Return, AtBoundary, LocalOK, States, Received, NotificationAttempted, Acknowledged
  <2>4. QED BY <1>7, <2>1, <2>2, <2>3, HandlerOwes DEF Armed
<1>8. CASE UNCHANGED vars
  BY <1>8 DEF vars, local, queue, PaidFor, Armed, Due, InHands
<1>9. CASE Next
  <2>1. \/ Owes(0) /\ Armed' \subseteq Armed /\ faults' = faults
        \/ Owes(1) /\ Armed' \subseteq Armed /\ faults' = faults + 1
        \/ \E w \in Armed : Owes(1) /\ Armed' \subseteq Armed \ {w} /\ faults' = faults
        \/ \E w \in Worker :
              Owes(0) /\ Armed' \subseteq Armed \union {w} /\ faults' = faults + 1
    BY <1>2, <1>3, <1>4, <1>5, <1>6, <1>7, <1>9 DEF Next
  <2>2. QED BY <2>1, Balance DEF PaidFor
<1>10. QED BY <1>8, <1>9

LEMMA PaidAccounts == ASSUME NEW S, TypeInv, PaidFor(S) PROVE DeliveriesAccounted
<1> SUFFICES ASSUME NEW m \in Message, Body[m].form # "unreadable"
             PROVE  attempts[m] <= 1 + faults
  BY DEF DeliveriesAccounted
<1>1. Cardinality(S) \in Nat /\ Due(m) \in Nat
  BY FS_CardinalityType DEF PaidFor, Due
<1>2. attempts[m] \in Int /\ faults \in Int
  BY DEF TypeInv, QueueOK
<1>3. QED BY <1>1, <1>2 DEF PaidFor

\* For any number of workers, whatever the drills: no message that can be keyed
\* runs out of deliveries but by faults.
THEOREM DeliveriesPaid == Spec => []DeliveriesAccounted
<1>1. Spec => []TypeInv
  BY TypeInit, NextWider, TypeNext, PTL DEF Spec
<1>2. Spec => []OrderInv
  BY <1>1, NextWider, OrderInit, OrderNext, PTL DEF Spec
<1>3. Init => LoadingInv /\ PaidFor(Armed)
  <2>1. Init => Armed = {}
    BY DEF Init, Armed
  <2>2. QED BY <2>1, PaidInit
<1>4. TypeInv /\ OrderInv /\ LoadingInv /\ [Next]_vars => LoadingInv'
  BY NextWider, LoadingNext DEF LoadingInv
<1>5. TypeInv /\ TypeInv' /\ LoadingInv /\ PaidFor(Armed) /\ [Next]_vars => PaidFor(Armed)'
  BY PaidNext
<1>6. TypeInv /\ PaidFor(Armed) => DeliveriesAccounted
  BY PaidAccounts
<1>7. QED BY <1>1, <1>2, <1>3, <1>4, <1>5, <1>6, PTL DEF Spec

=============================================================================
