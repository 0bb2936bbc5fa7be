-------------------------- MODULE DeploymentProofs --------------------------
(* Theorems about the worker in its Pod: what Worker guarantees survives the  *)
(* probes, the kubelet, shutdown and calls that hang, for any instance.       *)
EXTENDS Deployment, SoleProofs, FiniteSetTheorems, FunctionTheorems

(* Every step of the Pod is, to the triage of findings, one of a worker whose *)
(* faults are not counted: a cancelled call is one that fails, a shutdown or  *)
(* a kill a process that ends, and a clock that ticks is no step at all.      *)
LEMMA PodWider == TypeInv /\ [DNext]_dvars => Wider
<1> SUFFICES ASSUME TypeInv, [DNext]_dvars PROVE Wider
  OBVIOUS
<1>1. Fault \/ UNCHANGED faults => faults' \in 0..MaxFaults
  BY QueueFacts DEF TypeInv
<1>2. [Next]_vars => Wider
  BY NextWider
<1>3. ASSUME NEW w \in Worker, NEW m \in Message, Deliver(w, m) PROVE Wider
  BY <1>2, <1>3 DEF Deliver, Next
<1>4. ASSUME NEW w \in Worker, Boot(w) \/ Work(w) \/ Falter(w) PROVE Wider
  BY <1>2, <1>4 DEF Boot, Work, Falter, Next
<1>5. ASSUME NEW w \in Worker, Cancel(w) PROVE Wider
  BY <1>1, <1>5 DEF Cancel, Wider, Errs
<1>6. ASSUME NEW w \in Worker, CloseUnrecorded(w) PROVE Wider
  BY <1>1, <1>6 DEF CloseUnrecorded, Wider, Handles, Closes
<1>7. ASSUME NEW w \in Worker, Exit(w) \/ Kill(w) PROVE Wider
  BY <1>1, <1>7 DEF Exit, Kill, Wider, Ends
<1>8. ASSUME NEW w \in Worker, Hang(w) \/ LoseServer(w) \/ Terminate(w) PROVE Wider
  BY <1>1, <1>8 DEF Hang, LoseServer, Terminate, Wider
<1>9. ASSUME NEW w \in Worker, Open(w) PROVE Wider
  BY <1>2, <1>9 DEF Open
<1>10. ASSUME NEW m \in Message, Expire(m) \/ LoseLease(m) PROVE Wider
  BY <1>2, <1>10 DEF Next
<1>11. CASE Tick \/ UNCHANGED dvars
  BY <1>2, <1>11 DEF Tick, dvars
<1>12. QED
  BY <1>3, <1>4, <1>5, <1>6, <1>7, <1>8, <1>9, <1>10, <1>11 DEF DNext

LEMMA PodOrdered == DSpec => [](TypeInv /\ OrderInv)
<1>1. DInit => TypeInv /\ OrderInv
  BY TypeInit, OrderInit DEF DInit
<1>2. TypeInv /\ OrderInv /\ [DNext]_dvars => (TypeInv /\ OrderInv)'
  BY PodWider, TypeNext, OrderNext
<1>3. QED BY <1>1, <1>2, PTL DEF DSpec

\* No finding leaves the queue unrecorded, or untold when its verdict notifies,
\* through shutdowns, kills and hung calls too.
THEOREM PodMissesNothing ==
    ASSUME AgreedPricing \/ Alone PROVE DSpec => []NoMissedNotification
<1>1. DSpec => []TypeInv /\ []OrderInv
  BY PodOrdered, PTL
<1>2. CASE AgreedPricing
  <2>1. DInit => PricedInv
    BY PricedInit DEF DInit
  <2>2. TypeInv /\ OrderInv /\ PricedInv /\ [DNext]_dvars => PricedInv'
    BY <1>2, PodWider, PricedNext
  <2>3. PricedInv => NoMissedNotification
    BY DEF PricedInv
  <2>4. QED BY <1>1, <2>1, <2>2, <2>3, PTL DEF DSpec
<1>3. CASE Alone
  <2>1. DInit => AloneInv /\ NoMissedNotification
    BY AloneInit, PricedInit DEF DInit, PricedInv
  <2>2. /\ TypeInv /\ OrderInv /\ AloneInv /\ NoMissedNotification /\ [DNext]_dvars
        => (AloneInv /\ NoMissedNotification)'
    BY <1>3, PodWider, AloneNext, AloneTells, NoMissedNext
  <2>3. QED BY <1>1, <2>1, <2>2, PTL DEF DSpec
<1>4. QED BY <1>2, <1>3

\* The Pod keeps the promise of Triage: one verdict for each finding, its owner
\* told unless it was accepted, and only then closed.
THEOREM PodKeepsPromise ==
    ASSUME AgreedPricing \/ Alone PROVE DSpec => KeepsPromise
<1>1. DSpec => []TypeInv /\ []OrderInv
  BY PodOrdered, PTL
<1>2. DInit => Promise!Init
  BY PromiseInit DEF DInit
<1>3. TypeInv /\ OrderInv /\ TellsInv /\ [DNext]_dvars => [Promise!Next]_(Promise!vars)
  BY PodWider, PromiseNext
<1>4. CASE AgreedPricing
  <2>1. DInit => PricedInv
    BY PricedInit DEF DInit
  <2>2. TypeInv /\ OrderInv /\ PricedInv /\ [DNext]_dvars => PricedInv'
    BY <1>4, PodWider, PricedNext
  <2>3. TypeInv /\ OrderInv /\ PricedInv => TellsInv
    BY PricedTells
  <2>4. QED
    BY <1>1, <1>2, <1>3, <2>1, <2>2, <2>3, PTL DEF DSpec, KeepsPromise, Promise!Spec
<1>5. CASE Alone
  <2>1. DInit => AloneInv
    BY AloneInit DEF DInit
  <2>2. TypeInv /\ OrderInv /\ AloneInv /\ [DNext]_dvars => AloneInv'
    BY <1>5, PodWider, AloneNext
  <2>3. AloneInv => TellsInv
    BY AloneTells
  <2>4. QED
    BY <1>1, <1>2, <1>3, <2>1, <2>2, <2>3, PTL DEF DSpec, KeepsPromise, Promise!Spec
<1>6. QED BY <1>4, <1>5

\* What a sole worker guarantees it guarantees in its Pod: it tells what is on
\* record, pays for one inference, and is quiet once a finding is closed, through
\* every hung call, SIGTERM and kill (the Deployment's one replica).
THEOREM PodAlone ==
    ASSUME Alone
    PROVE  DSpec => []EmittedAsRecorded /\ NoInferenceAfterVerdict /\ ClosedStaysQuiet
<1>1. DSpec => []TypeInv /\ []OrderInv
  BY PodOrdered, PTL
<1>2. DInit => AloneInv
  BY AloneInit DEF DInit
<1>3. TypeInv /\ OrderInv /\ AloneInv /\ [DNext]_dvars => AloneInv'
  BY PodWider, AloneNext
<1>4. DSpec => []AloneInv
  BY <1>1, <1>2, <1>3, PTL DEF DSpec
<1>5. AloneInv => EmittedAsRecorded
  BY DEF AloneInv
<1>6. AloneInv => [\A w \in Worker :
          pc[w] = "deciding" /\ pc'[w] = "settled" => ~Has(KeyOf(w), Classified)]_vars
  BY DEF AloneInv, Knows
<1>7. AloneInv => [\A w \in Worker :
          pc[w] = "attempted" /\ pc'[w] = "notified" => ~Has(KeyOf(w), Acknowledged)]_vars
  BY DEF AloneInv, Knows
<1>8. QED
  BY <1>4, <1>5, <1>6, <1>7, PTL DEF NoInferenceAfterVerdict, ClosedStaysQuiet

-----------------------------------------------------------------------------
(* The probe.                                                                 *)

HealthOK ==
    /\ started \in [Worker -> BOOLEAN]
    /\ age \in [Worker -> Nat]
    /\ stuck \in [Worker -> BOOLEAN]

\* A handler that is not stuck was noted when its message came, and the clock
\* has not moved since: what it needs is done well within a tick.
Noted == \A w \in Worker :
    pc[w] \notin {"down", "idle"} /\ ~stuck[w] => started[w] /\ age[w] = 0

HealthInv == HealthOK /\ Noted

LEMMA HealthInit == DInit => HealthInv
BY IdleAssumption DEF DInit, Init, HealthInv, HealthOK, Noted

LEMMA HealthNext == TypeInv /\ HealthInv /\ [DNext]_dvars => HealthInv'
<1> SUFFICES ASSUME TypeInv, HealthInv, [DNext]_dvars PROVE HealthInv'
  OBVIOUS
<1> USE DEF HealthInv, HealthOK, Noted
<1>1. LocalOK
  BY DEF TypeInv
<1>2. ASSUME NEW w \in Worker, NEW m \in Message, Deliver(w, m) PROVE HealthInv'
  BY <1>1, <1>2 DEF Deliver, Ready, Seen, Pull, Goto, process, LocalOK
<1>3. ASSUME NEW w \in Worker, Boot(w) PROVE HealthInv'
  BY <1>1, <1>3 DEF Boot, Start, Goto, health, LocalOK
<1>4. ASSUME NEW w \in Worker, Open(w) PROVE HealthInv'
  BY <1>1, <1>4 DEF Open, Started, process, vars, LocalOK
<1>5. ASSUME NEW w \in Worker, pc'[w] = "down", Gone(w), \A v \in Worker : v # w => pc'[v] = pc[v]
      PROVE  HealthInv'
  BY <1>5, IdleAssumption DEF Gone, New
<1>6. ASSUME NEW w \in Worker, pc[w] \notin {"down", "idle"}, UNCHANGED <<health, process>>,
             \A v \in Worker : v # w => pc'[v] = pc[v]
      PROVE  HealthInv'
  BY <1>6 DEF health, process
<1>7. ASSUME NEW w \in Worker, Work(w) \/ Falter(w) PROVE HealthInv'
  <2>1. Crash(w) => pc'[w] = "down"
    BY <1>1 DEF Crash, Return, LocalOK
  <2>2. QED BY <1>1, <1>5, <1>6, <1>7, <2>1, StepMoves DEF Work, Falter, SameLocals
<1>8. ASSUME NEW w \in Worker, Cancel(w) \/ CloseUnrecorded(w) PROVE HealthInv'
  BY <1>1, <1>6, <1>8 DEF Cancel, CloseUnrecorded, Fallible, Return, LocalOK
<1>9. ASSUME NEW w \in Worker, Exit(w) \/ Kill(w) PROVE HealthInv'
  BY <1>1, <1>5, <1>9 DEF Exit, Kill, Return, LocalOK
<1>10. ASSUME NEW w \in Worker, Hang(w) \/ LoseServer(w) \/ Terminate(w) PROVE HealthInv'
  BY <1>10 DEF Hang, LoseServer, Terminate, health
<1>11. CASE \E m \in Message : (Expire(m) \/ LoseLease(m)) /\ UNCHANGED <<health, process>>
  BY <1>11 DEF Expire, LoseLease, health, process
<1>12. CASE Tick
  BY <1>12, IdleAssumption DEF Tick, vars, process
<1>13. CASE UNCHANGED dvars
  BY <1>13 DEF dvars, vars, health, process
<1>14. QED
  BY <1>2, <1>3, <1>4, <1>7, <1>8, <1>9, <1>10, <1>11, <1>12, <1>13 DEF DNext

\* What ends a process its probe server answers for, when no fault, shutdown or
\* drill does: the check of a loop that waits for messages or hangs.
LEMMA KillNext ==
    ASSUME TypeInv, HealthInv, [DNext]_dvars, NEW w \in Worker,
           pc[w] # "down", pc'[w] = "down", faults' = faults,
           serving[w], ~stopping[w], ~AtBoundary(w)
    PROVE  Ready(w) /\ (pc[w] = "idle" \/ stuck[w])
<1>1. LocalOK /\ faults \in Nat
  BY BoundAssumption DEF TypeInv
<1>2. ~Fault
  BY <1>1 DEF Fault
<1>3. ASSUME NEW v \in Worker, NEW m \in Message PROVE ~Deliver(v, m)
  BY <1>1 DEF Deliver, Pull, Goto, LocalOK
<1>4. ASSUME NEW v \in Worker PROVE ~Boot(v) /\ ~Open(v)
  BY <1>1 DEF Boot, Start, Open, Goto, LocalOK, vars
<1>5. ASSUME NEW v \in Worker, Work(v) PROVE FALSE
  <2>1. v = w
    BY <1>1, <1>5, StepMoves DEF Work, SameLocals
  <2>2. ~Drill(w)
    BY DEF Drill
  <2>3. QED
    BY <1>1, <1>5, <2>1, <2>2
       DEF Work, Step, Refuse, Skip, Resume, Drop, Load, Decide, Receive, Classify, Attempt,
           StayQuiet, Emit, Acknowledge, Close, Goto, Return, LocalOK
<1>6. ASSUME NEW v \in Worker PROVE ~Cancel(v) /\ ~CloseUnrecorded(v) /\ ~Exit(v)
  BY <1>1 DEF Cancel, CloseUnrecorded, Exit, Return, LocalOK
<1>7. ASSUME NEW v \in Worker
      PROVE ~Hang(v) /\ ~LoseServer(v) /\ ~Terminate(v) /\ ~Falter(v)
  BY <1>2 DEF Hang, LoseServer, Terminate, Falter, Fail, Crash
<1>8. ASSUME NEW m \in Message PROVE ~Expire(m) /\ ~LoseLease(m)
  BY DEF Expire, LoseLease
<1>9. ~Tick /\ ~UNCHANGED dvars
  BY DEF Tick, dvars, vars
<1>10. PICK v \in Worker : Kill(v)
  BY <1>3, <1>4, <1>5, <1>6, <1>7, <1>8, <1>9 DEF DNext
<1>11. v = w
  BY <1>1, <1>10 DEF Kill, Return, LocalOK
<1>12. started[w] /\ IdleLimit # 0 /\ ~(age[w] < IdleLimit)
  BY <1>10, <1>11 DEF Kill, Live
<1>13. pc[w] = "idle" \/ stuck[w]
  BY <1>12, IdleAssumption DEF HealthInv, Noted
<1>14. QED BY <1>12, <1>13 DEF Ready

\* The probe ends nobody at work, for any idle limit and any number of workers.
THEOREM ProbeSparesWork == DSpec => KillSparesWork
<1>1. DSpec => []TypeInv
  BY PodOrdered, PTL
<1>2. DSpec => []HealthInv
  BY <1>1, HealthInit, HealthNext, PTL DEF DSpec
<1>3. TypeInv /\ HealthInv /\ [DNext]_dvars =>
        [\A w \in Worker :
            (/\ pc[w] # "down" /\ pc'[w] = "down" /\ faults' = faults
             /\ serving[w] /\ ~stopping[w] /\ ~AtBoundary(w))
                => Ready(w) /\ (pc[w] = "idle" \/ stuck[w])]_dvars
  BY KillNext
<1>4. QED BY <1>1, <1>2, <1>3, PTL DEF DSpec, KillSparesWork

-----------------------------------------------------------------------------
(* What the end of a process costs.                                           *)

\* The processes whose end is counted already: a drill will stop them, they hang,
\* nothing answers their probe, or they are told to stop with a message in hand.
Marked == {w \in Worker :
    /\ pc[w] # "down"
    /\ IF stopping[w] THEN pc[w] # "idle"
       ELSE crashAt[w] # None \/ stuck[w] \/ ~serving[w]}

\* Nothing of a process outlives it.
Clean ==
    /\ stopping \in [Worker -> BOOLEAN]
    /\ serving \in [Worker -> BOOLEAN]
    /\ \A w \in Worker : pc[w] = "down" => ~started[w] /\ ~stuck[w] /\ ~stopping[w]

LEMMA CleanInit == DInit => Clean
BY DEF DInit, Clean

LEMMA CleanNext == TypeInv /\ HealthInv /\ Clean /\ [DNext]_dvars => Clean'
<1> SUFFICES ASSUME TypeInv, HealthInv, Clean, [DNext]_dvars PROVE Clean'
  OBVIOUS
<1> USE DEF Clean, HealthInv, HealthOK
<1>1. LocalOK
  BY DEF TypeInv
<1>2. ASSUME NEW w \in Worker, NEW m \in Message, Deliver(w, m) PROVE Clean'
  BY <1>1, <1>2 DEF Deliver, Seen, Pull, Goto, process, LocalOK
<1>3. ASSUME NEW w \in Worker, Boot(w) PROVE Clean'
  BY <1>1, <1>3 DEF Boot, Start, Goto, health, LocalOK
<1>4. ASSUME NEW w \in Worker, Open(w) PROVE Clean'
  BY <1>1, <1>4 DEF Open, Started, process, vars, LocalOK
<1>5. ASSUME NEW w \in Worker, Gone(w), \A v \in Worker : v # w => pc'[v] = pc[v]
      PROVE  Clean'
  BY <1>5 DEF Gone, New
<1>6. ASSUME NEW w \in Worker, pc'[w] # "down", UNCHANGED <<health, process>>,
             \A v \in Worker : v # w => pc'[v] = pc[v]
      PROVE  Clean'
  BY <1>6 DEF health, process
<1>7. ASSUME NEW w \in Worker, Work(w) \/ Falter(w) PROVE Clean'
  <2>1. Fail(w) => pc'[w] = "idle"
    BY <1>1 DEF Fail, Return, LocalOK
  <2>2. QED BY <1>1, <1>5, <1>6, <1>7, <2>1, StepMoves DEF Work, Falter, SameLocals
<1>8. ASSUME NEW w \in Worker, Cancel(w) \/ CloseUnrecorded(w) PROVE Clean'
  BY <1>1, <1>6, <1>8 DEF Cancel, CloseUnrecorded, Return, LocalOK
<1>9. ASSUME NEW w \in Worker, Exit(w) \/ Kill(w) PROVE Clean'
  BY <1>1, <1>5, <1>9 DEF Exit, Kill, Return, LocalOK
<1>10. ASSUME NEW w \in Worker, Hang(w) \/ LoseServer(w) \/ Terminate(w) PROVE Clean'
  BY <1>10 DEF Hang, LoseServer, Terminate, Ready, health
<1>11. CASE \E m \in Message : (Expire(m) \/ LoseLease(m)) /\ UNCHANGED <<health, process>>
  BY <1>11 DEF Expire, LoseLease, health, process
<1>12. CASE Tick \/ UNCHANGED dvars
  BY <1>12 DEF Tick, dvars, vars, health, process
<1>13. QED
  BY <1>2, <1>3, <1>4, <1>7, <1>8, <1>9, <1>10, <1>11, <1>12 DEF DNext

\* What a step of the Pod costs, and who pays.
Settled ==
    \/ Owes(0) /\ Marked' \subseteq Marked /\ faults' = faults
    \/ Owes(1) /\ Marked' \subseteq Marked /\ faults' = faults + 1
    \/ \E w \in Marked : Owes(1) /\ Marked' \subseteq Marked \ {w} /\ faults' = faults
    \/ \E w \in Worker : Owes(0) /\ Marked' \subseteq Marked \union {w} /\ faults' = faults + 1

LEMMA MarkedNext ==
    ASSUME TypeInv, TypeInv', HealthInv, Clean, LoadingInv, [DNext]_dvars PROVE Settled
<1>1. LocalOK /\ HealthOK
  BY DEF TypeInv, HealthInv
\* A process that ends is not marked any more ...
<1>2. ASSUME NEW w \in Worker, pc'[w] = "down", UNCHANGED crashAt, Gone(w),
             \A v \in Worker : v # w => pc'[v] = pc[v]
      PROVE  Marked' \subseteq Marked \ {w}
  BY <1>1, <1>2 DEF Gone, Marked, HealthOK, Clean
\* ... nor is one that returns while it stops, and nothing else marks one that runs.
<1>3. ASSUME NEW w \in Worker, pc[w] # "down", UNCHANGED <<crashAt, process>>,
             \A v \in Worker : v # w => pc'[v] = pc[v],
             ~stopping[w] \/ pc[w] # "idle"
      PROVE  /\ Marked' \subseteq Marked
             /\ stopping[w] /\ pc'[w] = "idle" => Marked' \subseteq Marked \ {w}
  BY <1>3 DEF Marked, process
<1>4. ASSUME NEW w \in Worker, NEW m \in Message, Deliver(w, m) PROVE Settled
  <2>1. pc[w] = "idle" /\ ~stopping[w] /\ UNCHANGED <<crashAt, process>>
        /\ \A v \in Worker : v # w => pc'[v] = pc[v]
    BY <1>1, <1>4 DEF Deliver, Pull, Goto, LocalOK
  <2>2. Marked' \subseteq Marked
    BY <1>3, <2>1
  <2>3. Owes(0) /\ faults' = faults
    BY <1>4, PullOwes DEF Deliver
  <2>4. QED BY <2>2, <2>3 DEF Settled
<1>5. ASSUME NEW w \in Worker, Boot(w) PROVE Settled
  <2>1. /\ pc[w] = "down" /\ pc'[w] = "idle" /\ UNCHANGED <<msg, queue>>
        /\ \A v \in Worker : v # w => pc'[v] = pc[v] /\ crashAt'[v] = crashAt[v]
        /\ \/ crashAt'[w] = None /\ faults' = faults
           \/ crashAt'[w] # None /\ faults' = faults + 1
    BY <1>1, <1>5 DEF Boot, Start, Goto, Fault, LocalOK, TypeInv, local
  <2>2. Owes(0)
    BY <2>1, NoneOwed
  <2>3. /\ serving'[w] /\ ~stuck'[w] /\ ~stopping'[w]
        /\ \A v \in Worker : v # w =>
              stuck'[v] = stuck[v] /\ serving'[v] = serving[v] /\ stopping'[v] = stopping[v]
    BY <1>5, <2>1 DEF Boot, Clean
  <2>4. QED BY <2>1, <2>2, <2>3 DEF Settled, Marked
<1>6. ASSUME NEW w \in Worker, Work(w) PROVE Settled
  <2>1. pc[w] \notin {"down", "idle"} /\ \A v \in Worker : v # w => pc'[v] = pc[v]
    BY <1>1, <1>6, StepMoves DEF Work, SameLocals
  <2>2. UNCHANGED crashAt
    BY <1>6, HandlerOwes DEF Work
  <2>3. Marked' \subseteq Marked
    BY <1>2, <1>3, <1>6, <2>1, <2>2 DEF Work
  <2>4. ASSUME Drill(w) PROVE w \in Marked /\ Marked' \subseteq Marked \ {w}
    <3>1. pc'[w] = "down" /\ crashAt[w] # None
      BY <1>1, <2>4, NoneAssumption
         DEF Drill, Return, AtBoundary, LocalOK, States, Received, NotificationAttempted, Acknowledged
    <3>2. QED BY <1>2, <1>6, <2>1, <2>2, <3>1 DEF Work, Marked
  <2>5. QED BY <1>6, <2>3, <2>4, HandlerOwes DEF Work, Settled
<1>7. ASSUME NEW w \in Worker, Cancel(w) \/ CloseUnrecorded(w) PROVE Settled
  <2>1. /\ stopping[w] /\ pc[w] \notin {"down", "idle"} /\ pc'[w] = "idle"
        /\ UNCHANGED <<crashAt, faults, process>>
        /\ \A v \in Worker : v # w => pc'[v] = pc[v]
    BY <1>1, <1>7 DEF Cancel, CloseUnrecorded, Fallible, Return, LocalOK
  <2>2. UNCHANGED attempts
    BY <1>7 DEF Cancel, CloseUnrecorded, Nack, Requeue, queue
  <2>3. Owes(1)
    BY <2>2, OneOwed
  <2>4. w \in Marked /\ Marked' \subseteq Marked \ {w}
    BY <1>3, <2>1 DEF Marked
  <2>5. QED BY <2>1, <2>3, <2>4 DEF Settled
<1>8. ASSUME NEW w \in Worker, Exit(w) \/ Kill(w) PROVE Settled
  <2>1. /\ pc[w] # "down" /\ pc'[w] = "down" /\ UNCHANGED <<crashAt, faults, queue>>
        /\ Gone(w) /\ \A v \in Worker : v # w => pc'[v] = pc[v]
    BY <1>1, <1>8 DEF Exit, Kill, Return, LocalOK
  <2>2. Marked' \subseteq Marked \ {w}
    BY <1>2, <2>1
  <2>3. CASE pc[w] = "idle"
    <3>1. UNCHANGED msg
      BY <1>1, <1>8, <2>3 DEF Exit, Kill, Return, LocalOK
    <3>2. Owes(0)
      BY <2>1, <3>1, NoneOwed
    <3>3. QED BY <2>1, <2>2, <3>2 DEF Settled
  <2>4. CASE pc[w] # "idle"
    <3>1. Kill(w)
      BY <1>8, <2>4 DEF Exit
    <3>2. stuck[w] \/ ~serving[w]
      BY <2>1, <2>4, <3>1, IdleAssumption DEF Kill, Live, HealthInv, Noted
    <3>3. w \in Marked
      BY <2>1, <2>4, <3>2 DEF Marked
    <3>4. Owes(1)
      BY <2>1, OneOwed DEF queue
    <3>5. QED BY <2>1, <2>2, <3>3, <3>4 DEF Settled
  <2>5. QED BY <2>3, <2>4
<1>9. ASSUME NEW w \in Worker, Hang(w) \/ LoseServer(w) \/ Terminate(w) PROVE Settled
  <2>1. UNCHANGED <<queue, msg, pc, crashAt>> /\ faults' = faults + 1
    BY <1>9 DEF Hang, LoseServer, Terminate, Fault, local
  <2>2. \A v \in Worker : v # w =>
           stuck'[v] = stuck[v] /\ serving'[v] = serving[v] /\ stopping'[v] = stopping[v]
    BY <1>1, <1>9 DEF Hang, LoseServer, Terminate, HealthOK, Clean
  <2>3. Owes(0)
    BY <2>1, NoneOwed
  <2>4. QED BY <2>1, <2>2, <2>3 DEF Settled, Marked
<1>10. ASSUME NEW w \in Worker, Falter(w) PROVE Settled
  <2>1. /\ pc[w] # "down" /\ \A v \in Worker : v # w => pc'[v] = pc[v]
        /\ UNCHANGED crashAt /\ faults' = faults + 1
    BY <1>1, <1>10, StepMoves DEF Falter, Fail, Fallible, Crash, Fault, SameLocals
  <2>2. UNCHANGED attempts
    BY <1>10 DEF Falter, Fail, Crash, Nack, Requeue, queue
  <2>3. Owes(1)
    BY <2>2, OneOwed
  <2>4. Fail(w) => pc[w] # "idle"
    BY <1>1, StepMoves
  <2>5. Crash(w) => pc'[w] = "down"
    BY <1>1 DEF Crash, Return, LocalOK
  <2>6. Marked' \subseteq Marked
    BY <1>2, <1>3, <1>10, <2>1, <2>4, <2>5 DEF Falter
  <2>7. QED BY <2>1, <2>3, <2>6 DEF Settled
<1>11. ASSUME NEW m \in Message, Expire(m) \/ LoseLease(m), UNCHANGED <<health, process>>
       PROVE  Settled
  <2>1. UNCHANGED <<pc, crashAt>>
    BY <1>11 DEF Expire, LoseLease
  <2>2. Marked' \subseteq Marked
    BY <1>11, <2>1 DEF Marked, process
  <2>3. CASE Expire(m)
    BY <2>2, <2>3, ExpireOwes DEF Settled
  <2>4. CASE LoseLease(m)
    <3>1. UNCHANGED attempts /\ faults' = faults + 1
      BY <2>4 DEF LoseLease, Requeue, Fault
    <3>2. QED BY <2>2, <3>1, OneOwed DEF Settled
  <2>5. QED BY <1>11, <2>3, <2>4
<1>12. CASE UNCHANGED <<vars, process>>
  <2>1. UNCHANGED <<queue, msg, pc, crashAt, faults>>
    BY <1>12 DEF vars, local
  <2>2. Marked' \subseteq Marked
    BY <1>12, <2>1 DEF Marked, process
  <2>3. Owes(0)
    BY <2>1, NoneOwed
  <2>4. QED BY <2>1, <2>2, <2>3 DEF Settled
<1>13. ASSUME Tick \/ UNCHANGED dvars \/ \E w \in Worker : Open(w)
       PROVE  UNCHANGED <<vars, process>>
  BY <1>13 DEF Tick, dvars, Open
<1>14. QED
  BY <1>4, <1>5, <1>6, <1>7, <1>8, <1>9, <1>10, <1>11, <1>12, <1>13 DEF DNext

LEMMA PodLoading == DSpec => [](TypeInv /\ HealthInv /\ Clean /\ LoadingInv)
<1>1. DSpec => []TypeInv /\ []OrderInv
  BY PodOrdered, PTL
<1>2. DInit => HealthInv /\ Clean /\ LoadingInv
  BY HealthInit, CleanInit, PaidInit DEF DInit
<1>3. TypeInv /\ HealthInv /\ Clean /\ [DNext]_dvars => (HealthInv /\ Clean)'
  BY HealthNext, CleanNext
<1>4. TypeInv /\ OrderInv /\ LoadingInv /\ [DNext]_dvars => LoadingInv'
  BY PodWider, LoadingNext DEF LoadingInv
<1>5. QED BY <1>1, <1>2, <1>3, <1>4, PTL DEF DSpec

\* Shutdowns, kills, hung calls and lost probe servers included, no message that
\* can be keyed runs out of deliveries but by faults: a SIGTERM or a hung call
\* costs the one delivery that ends with the process, and the probe costs none.
THEOREM PodDeliveriesPaid == DSpec => []DeliveriesAccounted
<1>1. DSpec => []TypeInv /\ []HealthInv /\ []Clean /\ []LoadingInv
  BY PodLoading, PTL
<1>2. DInit => PaidFor(Marked)
  <2>1. DInit => Marked = {}
    BY DEF DInit, Init, Marked
  <2>2. QED BY <2>1, PaidInit DEF DInit
<1>3. /\ TypeInv /\ TypeInv' /\ HealthInv /\ Clean /\ LoadingInv
      /\ PaidFor(Marked) /\ [DNext]_dvars
      => PaidFor(Marked)'
  BY MarkedNext, Balance DEF Settled, PaidFor
<1>4. TypeInv /\ PaidFor(Marked) => DeliveriesAccounted
  BY PaidAccounts
<1>5. QED BY <1>1, <1>2, <1>3, <1>4, PTL DEF DSpec

-----------------------------------------------------------------------------
(* Whose verdict is on record.                                                *)

\* r was reached for a message with key k.
ReachedFor(k, r) == \E n \in Triaged : Body[n].key = k /\ r.digest = Body[n].digest

\* Every verdict on record or in hand was reached for a message of its own key,
\* and nothing is closed without one.
OriginInv ==
    /\ \A k \in Key : Has(k, Classified) => ReachedFor(k, ledger[k][Classified])
    /\ \A k \in Key : Closed(k) => Has(k, Classified)
    /\ \A w \in Worker : pc[w] \in Holding => ReachedFor(KeyOf(w), record[w])

LEMMA OriginInit == Init => OriginInv
BY DEF Init, OriginInv, EmptyLedger, Has, Closed, Holding, States, Classified, Acknowledged, Triaged

LEMMA OriginNext == TypeInv /\ OrderInv /\ OriginInv /\ Wider => OriginInv'
<1> SUFFICES ASSUME TypeInv, OrderInv, OriginInv, Wider PROVE OriginInv'
  OBVIOUS
<1>1. Grows /\ LocalOK
  BY StepGrows DEF TypeInv
<1>2. ASSUME NEW k \in Key, Has(k, Classified)' PROVE ReachedFor(k, ledger'[k][Classified])
  <2>1. CASE Has(k, Classified)
    BY <1>1, <2>1 DEF Grows, States, OriginInv
  <2>2. CASE ~Has(k, Classified)
    BY <1>2, <2>2, VerdictSource DEF OriginInv, Holding
  <2>3. QED BY <2>1, <2>2
<1>3. ASSUME NEW k \in Key, Closed(k)' PROVE Has(k, Classified)'
  <2>1. Has(k, Classified)
    BY <1>3, ClosingSource DEF OriginInv, OrderInv, HandlerInv
  <2>2. QED BY <1>1, <2>1 DEF Grows, Has, States
<1>4. ASSUME NEW v \in Worker, pc'[v] \in Holding PROVE ReachedFor(KeyOf(v)', record'[v])
  <2>1. CASE SameLocals(v)
    BY <1>4, <2>1 DEF SameLocals, OriginInv, KeyOf
  <2>2. CASE ~SameLocals(v)
    <3>1. ~UNCHANGED <<pc, local>>
      BY <2>2 DEF SameLocals, local
    <3>2. PICK w \in Worker :
             Handles(w) \/ Errs(w) \/ Ends(w) \/ Start(w) \/ \E m \in Message : Pull(w, m)
      BY <3>1 DEF Wider, Expire, Loses, local
    <3>3. v = w
      BY <1>1, <2>2, <3>2, OneHandlerMoves
    <3>4. CASE Decide(v)
      <4>1. msg[v] \in Triaged /\ msg'[v] = msg[v]
        BY <3>4 DEF Decide, Goto, OrderInv, HandlerInv
      <4>2. record'[v].digest = Body[msg[v]].digest
        BY <1>1, <3>4 DEF Decide, Outcomes, LocalOK
      <4>3. QED BY <4>1, <4>2 DEF ReachedFor, KeyOf
    <3>5. CASE Load(v)
      <4>1. pc[v] = "loading" /\ record'[v] = ledger[KeyOf(v)][Classified] /\ msg'[v] = msg[v]
            /\ Has(KeyOf(v), Classified)
        BY <1>1, <1>4, <3>5 DEF Load, Return, Has, LocalOK, Holding
      <4>2. KeyOf(v) \in Key
        BY <1>1, <4>1, InHand
      <4>3. QED BY <4>1, <4>2 DEF OriginInv, KeyOf
    <3>6. CASE Receive(v) \/ Classify(v) \/ Attempt(v) \/ StayQuiet(v) \/ Emit(v) \/ Acknowledge(v)
      <4>1. pc[v] \in Holding /\ record'[v] = record[v] /\ KeyOf(v)' = KeyOf(v)
        BY <3>6 DEF Receive, Classify, Attempt, StayQuiet, Emit, Acknowledge, Goto, local, KeyOf, Holding
      <4>2. QED BY <4>1 DEF OriginInv
    <3>7. QED
      BY <1>1, <1>4, <3>2, <3>3, <3>4, <3>5, <3>6
         DEF Handles, Refuse, Skip, Resume, Drop, Closes, Drill, Errs, Ends, Start, Pull, Return,
             Goto, LocalOK, Holding
  <2>3. QED BY <2>1, <2>2
<1>5. QED BY <1>2, <1>3, <1>4 DEF OriginInv, ReachedFor

\* pathSafe may write two names alike, so this is for the findings that arrive.
KeysTellEvents ==
    \A m, n \in Triaged : Body[m].key = Body[n].key => Event(Raw[m]) = Event(Raw[n])

\* Where the keys tell the events apart, no finding is closed on another event's
\* verdict, whatever redeliveries, restarts and other workers do.
THEOREM EventsApart == ASSUME KeysTellEvents PROVE DSpec => []EventsKeptApart
<1>1. DSpec => []TypeInv /\ []OrderInv
  BY PodOrdered, PTL
<1>2. DInit => OriginInv
  BY OriginInit DEF DInit
<1>3. TypeInv /\ OrderInv /\ OriginInv /\ [DNext]_dvars => OriginInv'
  BY PodWider, OriginNext
<1>4. OriginInv => EventsKeptApart
  <2> SUFFICES ASSUME OriginInv, NEW m \in Triaged, status[m] = "acked"
               PROVE  \E n \in Triaged :
                         /\ Event(Raw[n]) = Event(Raw[m])
                         /\ Has(Body[m].key, Classified)
                         /\ ledger[Body[m].key][Classified].digest = Body[n].digest
    BY DEF EventsKeptApart
  <2>1. Body[m].key \in Key
    BY BodyAssumption DEF Triaged
  <2>2. Has(Body[m].key, Classified)
    BY <2>1 DEF OriginInv, Closed
  <2>3. PICK n \in Triaged : /\ Body[n].key = Body[m].key
                             /\ ledger[Body[m].key][Classified].digest = Body[n].digest
    BY <2>1, <2>2 DEF OriginInv, ReachedFor
  <2>4. QED BY <2>2, <2>3 DEF KeysTellEvents
<1>5. QED BY <1>1, <1>2, <1>3, <1>4, PTL DEF DSpec

-----------------------------------------------------------------------------
(* What an object is called.                                                  *)

\* The n-th position of K.
Nth(K, n) == CHOOSE i \in K : Cardinality({j \in K : j <= i}) = n

\* The positions of a finite sequence that are kept are numbered in order, from
\* the least to the greatest, and there is none between two neighbours.
LEMMA Enumeration ==
    ASSUME NEW N \in Nat, NEW K \in SUBSET (1..N)
    PROVE  /\ Cardinality(K) \in Nat
           /\ \A n \in 1..Cardinality(K) : Nth(K, n) \in K
           /\ \A i \in K : \E n \in 1..Cardinality(K) : Nth(K, n) = i
           /\ \A n, m \in 1..Cardinality(K) : n < m => Nth(K, n) < Nth(K, m)
           /\ \A n \in 1..Cardinality(K) - 1 : \A i \in K :
                 ~(Nth(K, n) < i /\ i < Nth(K, n + 1))
<1> DEFINE below(i) == {j \in K : j <= i}
           c == Cardinality(K)
           place == [i \in K |-> Cardinality(below(i))]
<1>1. IsFiniteSet(K) /\ \A i \in K : i \in Nat
  <2>1. 1 \in Int /\ N \in Int OBVIOUS
  <2>2. IsFiniteSet(1..N) BY ONLY <2>1, FS_Interval
  <2>3. K \subseteq 1..N OBVIOUS
  <2>4. IsFiniteSet(K) BY ONLY <2>2, <2>3, FS_Subset
  <2>5. \A i \in K : i \in Nat BY <2>3
  <2>6. QED BY <2>4, <2>5
<1>2. c \in Nat BY <1>1, FS_CardinalityType
<1>3. \A i \in K : below(i) \subseteq K /\ IsFiniteSet(below(i))
  BY <1>1, FS_Subset
<1>4. \A i \in K : place[i] \in 1..c
  <2> SUFFICES ASSUME NEW i \in K PROVE Cardinality(below(i)) \in 1..c
    OBVIOUS
  <2>1. i \in below(i) BY <1>1
  <2>2. Cardinality(below(i)) \in Nat /\ Cardinality(below(i)) <= c
    BY <1>1, <1>3, FS_CardinalityType, FS_Subset
  <2>3. Cardinality(below(i)) # 0 BY <1>3, <2>1, FS_EmptySet
  <2>4. QED BY <1>2, <2>2, <2>3
<1>5. \A i, j \in K : i < j => place[i] < place[j]
  <2> SUFFICES ASSUME NEW i \in K, NEW j \in K, i < j PROVE place[i] < place[j]
    OBVIOUS
  <2>6. i \in Nat /\ j \in Nat BY <1>1
  <2>7. j \in below(j) /\ j \notin below(i) BY <2>6
  <2>8. \A k \in below(i) : k \in below(j) BY <1>1, <2>6
  <2>1. below(i) \subseteq below(j) /\ j \in below(j) /\ j \notin below(i)
    BY <2>7, <2>8
  <2>2. Cardinality(below(i)) \in Nat /\ Cardinality(below(j)) \in Nat
    BY <1>3, FS_CardinalityType
  <2>3. below(i) # below(j) BY <2>1
  <2> HIDE DEF below
  <2>4. Cardinality(below(i)) < Cardinality(below(j))
    BY <1>3, <2>1, <2>2, <2>3, FS_Subset
  <2>5. QED BY <2>4
<1> HIDE DEF place, c
<1>6. place \in [K -> 1..c] BY <1>4 DEF place
<1>7. \A i, j \in K : place[i] = place[j] => i = j
  <2> SUFFICES ASSUME NEW i \in K, NEW j \in K, place[i] = place[j] PROVE i = j
    OBVIOUS
  <2>1. i \in Nat /\ j \in Nat BY <1>1
  <2>2. place[i] \in Nat /\ place[j] \in Nat BY <1>4
  <2>4. ~(i < j) /\ ~(j < i) BY <1>5, <2>1, <2>2
  <2>3. QED BY <2>1, <2>4
<1>8. place \in Surjection(K, 1..c)
  <2>1. place \in Injection(K, 1..c) BY <1>6, <1>7 DEF Injection, IsInjective
  <2>2. IsFiniteSet(1..c) /\ Cardinality(1..c) = c
    <3>1. 1 \in Int /\ c \in Int BY <1>2
    <3>2. IsFiniteSet(1..c) /\ Cardinality(1..c) = IF 1 > c THEN 0 ELSE c - 1 + 1
      BY ONLY <3>1, FS_Interval
    <3>3. QED BY <1>2, <3>2
  <2>3. QED BY <2>1, <2>2, FS_Injection DEF c
<1>9. \A n \in 1..c : \E i \in K : place[i] = n
  BY <1>8 DEF Surjection
<1>10. \A n \in 1..c : Nth(K, n) \in K /\ place[Nth(K, n)] = n
  <2> SUFFICES ASSUME NEW n \in 1..c PROVE Nth(K, n) \in K /\ place[Nth(K, n)] = n
    OBVIOUS
  <2>1. \E i \in K : Cardinality({j \in K : j <= i}) = n BY <1>9 DEF place
  <2>2. Nth(K, n) \in K /\ Cardinality({j \in K : j <= Nth(K, n)}) = n
    BY <2>1 DEF Nth
  <2>3. QED BY <2>2 DEF place
<1>11. \A i \in K : Nth(K, place[i]) = i
  BY <1>4, <1>7, <1>10
<1>12. \A n, m \in 1..c : n < m => Nth(K, n) < Nth(K, m)
  <2> SUFFICES ASSUME NEW n \in 1..c, NEW m \in 1..c, n < m PROVE Nth(K, n) < Nth(K, m)
    OBVIOUS
  <2>5. n \in Nat /\ m \in Nat BY <1>2
  <2>6. Nth(K, n) \in Nat /\ Nth(K, m) \in Nat BY <1>1, <1>10
  <2>1. Nth(K, n) \in Nat /\ Nth(K, m) \in Nat /\ n \in Nat /\ m \in Nat BY <2>5, <2>6
  <2>2. ~(Nth(K, m) < Nth(K, n)) BY <1>5, <1>10, <2>1
  <2>3. Nth(K, m) # Nth(K, n) BY <1>10, <2>1
  <2>4. QED BY <2>1, <2>2, <2>3
<1>13. \A n \in 1..c - 1 : \A i \in K : ~(Nth(K, n) < i /\ i < Nth(K, n + 1))
  <2> SUFFICES ASSUME NEW n \in 1..c - 1, NEW i \in K, Nth(K, n) < i, i < Nth(K, n + 1)
               PROVE  FALSE
    OBVIOUS
  <2>1. n \in 1..c /\ n + 1 \in 1..c BY <1>2
  <2>2. n < place[i] /\ place[i] < n + 1 BY <1>5, <1>10, <2>1
  <2>3. place[i] \in Nat /\ n \in Nat BY <1>4
  <2>4. QED BY <2>2, <2>3
<1>14. QED BY <1>2, <1>4, <1>10, <1>11, <1>12, <1>13 DEF c

\* No character c stands next to itself in s.
Single(s, c) == \A i \in 1..Len(s) - 1 : ~(s[i] = c /\ s[i + 1] = c)

\* What a string is made of; the provers do not know that a literal is a string.
Character == STRING \union Letters \union Punctuation

\* What is kept of a sequence, position by position.
LEMMA KeepingFacts ==
    ASSUME NEW s \in Seq(Character), NEW K \in SUBSET (1..Len(s))
    PROVE  /\ Keeping(s, K) \in Seq(Character) /\ Len(Keeping(s, K)) = Cardinality(K)
           /\ Cardinality(K) \in Nat
           /\ \A n \in 1..Cardinality(K) : Nth(K, n) \in K /\ Keeping(s, K)[n] = s[Nth(K, n)]
           /\ \A i \in K : \E n \in 1..Cardinality(K) : Nth(K, n) = i
           /\ \A n, m \in 1..Cardinality(K) : n < m => Nth(K, n) < Nth(K, m)
           /\ \A n \in 1..Cardinality(K) - 1 : \A i \in K :
                 ~(Nth(K, n) < i /\ i < Nth(K, n + 1))
<1>1. Len(s) \in Nat OBVIOUS
<1>2. /\ Cardinality(K) \in Nat
      /\ \A n \in 1..Cardinality(K) : Nth(K, n) \in K
  BY <1>1, Enumeration
<1>3. Keeping(s, K) = [n \in 1..Cardinality(K) |-> s[Nth(K, n)]]
  BY DEF Keeping, Nth
<1>4. Keeping(s, K) \in Seq(Character) /\ Len(Keeping(s, K)) = Cardinality(K)
  <2> DEFINE c == Cardinality(K)
             k == Keeping(s, K)
  <2>5. \A i \in 1..Len(s) : s[i] \in Character OBVIOUS
  <2>6. \A n \in 1..c : Nth(K, n) \in 1..Len(s) BY <1>2
  <2>1. \A n \in 1..c : s[Nth(K, n)] \in Character BY <2>5, <2>6
  <2>2. k \in [1..c -> Character] BY <1>3, <2>1
  <2> HIDE DEF c, k
  <2>3. c \in Nat BY <1>2 DEF c
  <2>4. k \in Seq(Character) /\ Len(k) = c BY ONLY <2>2, <2>3
  <2>7. QED BY <2>4 DEF c, k
<1>5. QED BY <1>1, <1>2, <1>3, <1>4, Enumeration

\* Collapse leaves no two c side by side, and brings no other character to
\* stand next to itself that did not; what is not c stays.
LEMMA CollapseFacts ==
    ASSUME NEW s \in Seq(Character), NEW c \in Character
    PROVE  /\ Collapse(c, s) \in Seq(Character)
           /\ Single(Collapse(c, s), c)
           /\ \A d : d # c /\ Single(s, d) => Single(Collapse(c, s), d)
           /\ \A i \in 1..Len(s) : s[i] # c =>
                 \E n \in 1..Len(Collapse(c, s)) : Collapse(c, s)[n] = s[i]
<1> DEFINE K == {i \in DOMAIN s : s[i] # c \/ i = 1 \/ s[i - 1] # c}
           r == Collapse(c, s)
<1>8. DOMAIN s = 1..Len(s) /\ Len(s) \in Nat OBVIOUS
<1>1. r = Keeping(s, K) BY DEF Collapse
<1>2. /\ r \in Seq(Character) /\ Len(r) = Cardinality(K) /\ Cardinality(K) \in Nat
      /\ \A n \in 1..Len(r) : Nth(K, n) \in K /\ r[n] = s[Nth(K, n)]
      /\ \A i \in K : \E n \in 1..Len(r) : Nth(K, n) = i
      /\ \A n, m \in 1..Len(r) : n < m => Nth(K, n) < Nth(K, m)
      /\ \A n \in 1..Len(r) - 1 : \A i \in K : ~(Nth(K, n) < i /\ i < Nth(K, n + 1))
  <2> HIDE DEF r
  <2>1. K \in SUBSET (1..Len(s)) BY <1>8
  <2> HIDE DEF K
  <2>2. QED BY <1>1, <2>1, KeepingFacts
<1> HIDE DEF r
<1>3. ASSUME NEW n \in 1..Len(r) - 1
      PROVE  \E i, j \in K :
                /\ i < j /\ \A l \in K : ~(i < l /\ l < j)
                /\ r[n] = s[i] /\ r[n + 1] = s[j]
  <2>1. n \in 1..Len(r) /\ n + 1 \in 1..Len(r) /\ n < n + 1 BY <1>2
  <2> HIDE DEF K
  <2>2. QED BY <1>2, <2>1
<1>4. Single(r, c)
  <2> SUFFICES ASSUME NEW n \in 1..Len(r) - 1, r[n] = c, r[n + 1] = c PROVE FALSE
    BY DEF Single
  <2>1. PICK i \in K, j \in K :
            /\ i < j /\ \A l \in K : ~(i < l /\ l < j)
            /\ r[n] = s[i] /\ r[n + 1] = s[j]
    BY <1>3
  <2>2. j \in 1..Len(s) /\ i \in 1..Len(s) /\ s[j] = c /\ s[i] = c BY <1>8, <2>1
  <2>3. j # 1 /\ j - 1 \in DOMAIN s BY <1>8, <2>1, <2>2
  <2>4. s[j - 1] # c BY <2>2, <2>3
  <2>5. j - 1 \in K BY <2>3, <2>4
  <2>6. j - 1 # i BY <2>2, <2>4
  <2> HIDE DEF K
  <2>7. i < j - 1 /\ j - 1 < j BY <2>1, <2>2, <2>6
  <2>8. QED BY <2>1, <2>5, <2>7
<1>5. ASSUME NEW d, d # c, Single(s, d) PROVE Single(r, d)
  <2> SUFFICES ASSUME NEW n \in 1..Len(r) - 1, r[n] = d, r[n + 1] = d PROVE FALSE
    BY DEF Single
  <2>1. PICK i \in K, j \in K :
            /\ i < j /\ \A l \in K : ~(i < l /\ l < j)
            /\ r[n] = s[i] /\ r[n + 1] = s[j]
    BY <1>3
  <2>2. i \in 1..Len(s) /\ j \in 1..Len(s) /\ s[i] = d /\ s[j] = d BY <1>8, <2>1
  <2>3. CASE j = i + 1
    <3>1. i \in 1..Len(s) - 1 BY <2>2, <2>3
    <3>2. QED BY <1>5, <2>2, <2>3, <3>1 DEF Single
  <2>4. CASE j # i + 1
    <3>1. i + 1 \in 1..Len(s) /\ i < i + 1 /\ i + 1 < j /\ (i + 1) - 1 = i BY <2>1, <2>2, <2>4
    <3>2. i + 1 \in K BY <1>5, <1>8, <2>2, <3>1
    <3>3. QED BY <2>1, <3>1, <3>2
  <2>5. QED BY <2>3, <2>4
<1>6. ASSUME NEW i \in 1..Len(s), s[i] # c PROVE \E n \in 1..Len(r) : r[n] = s[i]
  <2>1. i \in K BY <1>6, <1>8
  <2> HIDE DEF K
  <2>2. PICK n \in 1..Len(r) : Nth(K, n) = i BY <1>2, <2>1
  <2>3. QED BY <1>2, <2>2
<1>7. QED BY <1>2, <1>4, <1>5, <1>6 DEF r

\* Trim takes the cut set from both ends and brings nothing together.
LEMMA TrimFacts ==
    ASSUME NEW s \in Seq(Character), NEW cut, NEW a \in 1..Len(s), s[a] \notin cut
    PROVE  /\ Trim(s, cut) \in Seq(Character) /\ Len(Trim(s, cut)) > 0
           /\ Trim(s, cut)[1] \notin cut
           /\ Trim(s, cut)[Len(Trim(s, cut))] \notin cut
           /\ \A d : Single(s, d) => Single(Trim(s, cut), d)
<1> DEFINE kept == {i \in DOMAIN s : s[i] \notin cut}
           K == {i \in DOMAIN s : \E j, k \in kept : j <= i /\ i <= k}
           r == Trim(s, cut)
<1>15. DOMAIN s = 1..Len(s) /\ Len(s) \in Nat OBVIOUS
<1>1. r = Keeping(s, K) BY DEF Trim
<1>2. kept \subseteq K /\ a \in K
  <2>1. \A i \in kept : i \in DOMAIN s /\ i <= i BY <1>15
  <2>2. a \in kept BY <1>15
  <2> HIDE DEF kept
  <2>3. QED BY <2>1, <2>2
<1>3. \A i \in K : \E j, k \in kept : j <= i /\ i <= k OBVIOUS
<1>4. \A i \in 1..Len(s) : \A j, k \in K : j <= i /\ i <= k => i \in K
  <2> SUFFICES ASSUME NEW i \in 1..Len(s), NEW j \in K, NEW k \in K, j <= i, i <= k
               PROVE  i \in K
    OBVIOUS
  <2>1. PICK x \in kept, y \in kept : x <= j /\ k <= y BY <1>3
  <2>2. x <= i /\ i <= y BY <1>15, <2>1
  <2>3. QED BY <1>15, <2>1, <2>2
<1>5. K \in SUBSET (1..Len(s)) /\ \A i \in K : i \in Nat BY <1>15
<1>6. \A i \in kept : s[i] \notin cut OBVIOUS
<1> HIDE DEF kept, K, r
<1>7. /\ r \in Seq(Character) /\ Len(r) = Cardinality(K) /\ Cardinality(K) \in Nat
      /\ \A n \in 1..Len(r) : Nth(K, n) \in K /\ r[n] = s[Nth(K, n)]
      /\ \A i \in K : \E n \in 1..Len(r) : Nth(K, n) = i
      /\ \A n, m \in 1..Len(r) : n < m => Nth(K, n) < Nth(K, m)
      /\ \A n \in 1..Len(r) - 1 : \A i \in K : ~(Nth(K, n) < i /\ i < Nth(K, n + 1))
  BY <1>1, <1>5, KeepingFacts
<1>8. Len(r) > 0
  <2>1. \E n \in 1..Len(r) : Nth(K, n) = a BY <1>2, <1>7
  <2>2. QED BY <1>7, <2>1
<1>9. 1 \in 1..Len(r) /\ Len(r) \in 1..Len(r) BY <1>7, <1>8
<1>10. \A i \in K : Nth(K, 1) <= i /\ i <= Nth(K, Len(r))
  <2> SUFFICES ASSUME NEW i \in K PROVE Nth(K, 1) <= i /\ i <= Nth(K, Len(r))
    OBVIOUS
  <2>1. PICK n \in 1..Len(r) : Nth(K, n) = i BY <1>7
  <2>6. Nth(K, 1) \in K /\ Nth(K, Len(r)) \in K BY <1>7, <1>9
  <2>2. Nth(K, 1) \in Nat /\ i \in Nat /\ Nth(K, Len(r)) \in Nat BY <1>5, <2>6
  <2>3. n = 1 \/ Nth(K, 1) < i BY <1>7, <1>9, <2>1
  <2>4. n = Len(r) \/ i < Nth(K, Len(r)) BY <1>7, <1>9, <2>1
  <2>5. QED BY <2>1, <2>2, <2>3, <2>4
<1>11. Nth(K, 1) \in kept /\ Nth(K, Len(r)) \in kept
  <2>1. Nth(K, 1) \in K /\ Nth(K, Len(r)) \in K BY <1>7, <1>9
  <2>2. PICK x \in kept : x <= Nth(K, 1) BY <1>3, <2>1
  <2>3. PICK y \in kept : Nth(K, Len(r)) <= y BY <1>3, <2>1
  <2>4. x \in K /\ y \in K BY <1>2
  <2>7. Nth(K, 1) <= x /\ y <= Nth(K, Len(r)) BY <1>10, <2>4
  <2>8. x \in Nat /\ y \in Nat /\ Nth(K, 1) \in Nat /\ Nth(K, Len(r)) \in Nat
    BY <1>5, <2>1, <2>4
  <2>5. x = Nth(K, 1) /\ y = Nth(K, Len(r)) BY <2>2, <2>3, <2>7, <2>8
  <2>6. QED BY <2>5
<1>12. r[1] \notin cut /\ r[Len(r)] \notin cut
  BY <1>6, <1>7, <1>9, <1>11
<1>13. ASSUME NEW d, Single(s, d) PROVE Single(r, d)
  <2> SUFFICES ASSUME NEW n \in 1..Len(r) - 1, r[n] = d, r[n + 1] = d PROVE FALSE
    BY DEF Single
  <2> DEFINE i == Nth(K, n)
             j == Nth(K, n + 1)
  <2>1. n \in 1..Len(r) /\ n + 1 \in 1..Len(r) /\ n < n + 1 BY <1>7
  <2>2. /\ i \in K /\ j \in K /\ i < j /\ s[i] = d /\ s[j] = d
        /\ \A l \in K : ~(i < l /\ l < j)
    BY <1>7, <2>1
  <2> HIDE DEF i, j
  <2>3. i \in 1..Len(s) /\ j \in 1..Len(s) BY <1>5, <2>2
  <2>4. CASE j = i + 1
    <3>1. i \in 1..Len(s) - 1 BY <2>3, <2>4
    <3>2. QED BY <1>13, <2>2, <2>4, <3>1 DEF Single
  <2>5. CASE j # i + 1
    <3>1. i + 1 \in 1..Len(s) /\ i < i + 1 /\ i + 1 < j BY <2>2, <2>3, <2>5
    <3>2. i + 1 \in K BY <1>4, <2>2, <2>3, <3>1
    <3>3. QED BY <2>2, <3>1, <3>2
  <2>6. QED BY <2>4, <2>5
<1>14. QED BY <1>7, <1>8, <1>12, <1>13 DEF r

\* A part of an object's name: nothing empty, no slash at an end, no character a
\* traversal or an empty segment is made of twice in a row.
Segment(p) ==
    /\ p \in Seq(Character) /\ Len(p) > 0
    /\ p[1] # "/" /\ p[Len(p)] # "/"
    /\ Single(p, ".") /\ Single(p, "/")

\* What pathSafe makes of a string with a letter or a digit in it.
LEMMA PathSafeSegment ==
    ASSUME NEW s \in Seq(Character), \E i \in DOMAIN s : s[i] \in Letters
    PROVE  Segment(pathSafe(s))
<1> DEFINE mapped == [i \in DOMAIN s |->
                         IF s[i] \in Letters \union Punctuation THEN s[i] ELSE "_"]
           undotted == Collapse(".", mapped)
           single == Collapse("/", undotted)
<1>1. PICK i \in 1..Len(s) : s[i] \in Letters OBVIOUS
<1>2. s[i] # "." /\ s[i] # "/" /\ s[i] \notin {"/", "_"}
  BY <1>1 DEF Letters
<1>3. mapped \in Seq(Character) /\ i \in 1..Len(mapped) /\ mapped[i] = s[i]
  <2>1. DOMAIN s = 1..Len(s) /\ Len(s) \in Nat /\ \A j \in 1..Len(s) : s[j] \in Character
    OBVIOUS
  <2>2. mapped \in [1..Len(s) -> Character]
    <3>1. "_" \in Character BY DEF Character, Punctuation
    <3>2. QED BY <2>1, <3>1
  <2>3. mapped[i] = s[i] BY <1>1, <2>1
  <2> HIDE DEF mapped
  <2>4. QED BY <2>1, <2>2, <2>3
<1> HIDE DEF mapped
<1> HIDE DEF single
<1>4. /\ undotted \in Seq(Character) /\ Single(undotted, ".")
      /\ \E n \in 1..Len(undotted) : undotted[n] = s[i]
  <2>1. "." \in Character BY DEF Character, Punctuation
  <2>2. /\ undotted \in Seq(Character) /\ Single(undotted, ".")
        /\ \A j \in 1..Len(mapped) : mapped[j] # "." =>
              \E n \in 1..Len(undotted) : undotted[n] = mapped[j]
    BY <1>3, <2>1, CollapseFacts DEF undotted
  <2> HIDE DEF undotted
  <2>3. mapped[i] # "." BY <1>2, <1>3
  <2>4. PICK n \in 1..Len(undotted) : undotted[n] = mapped[i] BY <1>3, <2>2, <2>3
  <2>5. QED BY <1>3, <2>2, <2>4
<1> HIDE DEF undotted
<1>5. /\ single \in Seq(Character) /\ Single(single, "/")
      /\ \A d : d # "/" /\ Single(undotted, d) => Single(single, d)
      /\ \A n \in 1..Len(undotted) : undotted[n] # "/" =>
            \E m \in 1..Len(single) : single[m] = undotted[n]
  <2>1. "/" \in Character BY DEF Character, Punctuation
  <2>2. QED BY <1>4, <2>1, CollapseFacts DEF single
<1>6. Single(single, ".") /\ \E n \in 1..Len(single) : single[n] = s[i]
  BY <1>2, <1>4, <1>5
<1>7. PICK n \in 1..Len(single) : single[n] \notin {"/", "_"}
  BY <1>2, <1>6
<1>8. pathSafe(s) = Trim(single, {"/", "_"})
  BY DEF pathSafe, mapped, undotted, single
<1>9. /\ pathSafe(s) \in Seq(Character) /\ Len(pathSafe(s)) > 0
      /\ pathSafe(s)[1] \notin {"/", "_"}
      /\ pathSafe(s)[Len(pathSafe(s))] \notin {"/", "_"}
      /\ \A d : Single(single, d) => Single(pathSafe(s), d)
  BY <1>5, <1>7, <1>8, TrimFacts
<1>10. QED BY <1>5, <1>6, <1>9 DEF Segment

\* Two parts joined by a slash are a part.
LEMMA SegmentsJoin ==
    ASSUME NEW p, NEW q, Segment(p), Segment(q)
    PROVE  Segment(p \o <<"/">> \o q)
<1> DEFINE j == p \o <<"/">> \o q
           a == Len(p)
           b == Len(q)
<1>1. p \in Seq(Character) /\ q \in Seq(Character) /\ <<"/">> \in Seq(Character)
  <2>1. "/" \in Character BY DEF Character, Punctuation
  <2>2. <<"/">> \in Seq(Character) BY <2>1
  <2>3. QED BY <2>2 DEF Segment
<1>2. a \in Nat /\ b \in Nat /\ a > 0 /\ b > 0 BY <1>1 DEF Segment
<1>3. /\ j \in Seq(Character) /\ Len(j) = a + 1 + b
      /\ \A i \in 1..a : j[i] = p[i]
      /\ j[a + 1] = "/"
      /\ \A i \in 1..b : j[a + 1 + i] = q[i]
  <2> DEFINE h == p \o <<"/">>
  <2>1. h \in Seq(Character) /\ Len(h) = a + 1 /\ h[a + 1] = "/" /\ \A i \in 1..a : h[i] = p[i]
    BY <1>1, <1>2
  <2> HIDE DEF h
  <2>2. /\ h \o q \in Seq(Character) /\ Len(h \o q) = Len(h) + b
        /\ \A i \in 1..Len(h) : (h \o q)[i] = h[i]
        /\ \A i \in 1..b : (h \o q)[Len(h) + i] = q[i]
    BY <1>1, <2>1
  <2>3. j = h \o q BY DEF h
  <2> HIDE DEF j
  <2>4. QED BY <1>2, <2>1, <2>2, <2>3
<1> HIDE DEF j, a, b
<1>4. j[1] # "/" /\ j[Len(j)] # "/"
  <2>1. 1 \in 1..a /\ b \in 1..b BY <1>2
  <2>2. QED BY <1>3, <2>1 DEF Segment, a, b
<1>5. ASSUME NEW d \in {".", "/"} PROVE Single(j, d)
  <2> SUFFICES ASSUME NEW i \in 1..Len(j) - 1, j[i] = d, j[i + 1] = d PROVE FALSE
    BY DEF Single
  <2>1. CASE i < a
    <3>1. i \in 1..a - 1 /\ i \in 1..a /\ i + 1 \in 1..a BY <1>2, <1>3, <2>1
    <3>2. p[i] = d /\ p[i + 1] = d BY <1>3, <3>1
    <3>3. QED BY <3>1, <3>2 DEF Segment, Single, a
  <2>2. CASE i = a
    <3>1. p[a] = d /\ d = "/" BY <1>2, <1>3, <2>2
    <3>2. QED BY <3>1 DEF Segment, a
  <2>3. CASE i = a + 1
    <3>1. 1 \in 1..b /\ i + 1 = a + 1 + 1 BY <1>2, <2>3
    <3>2. d = "/" /\ q[1] = d BY <1>3, <2>3, <3>1
    <3>3. QED BY <3>2 DEF Segment
  <2>4. CASE i > a + 1
    <3> DEFINE n == i - (a + 1)
    <3>1. /\ n \in 1..b - 1 /\ n \in 1..b /\ n + 1 \in 1..b
          /\ i = a + 1 + n /\ i + 1 = a + 1 + (n + 1)
      BY <1>2, <1>3, <2>4
    <3>2. q[n] = d /\ q[n + 1] = d BY <1>3, <3>1
    <3>3. QED BY <3>1, <3>2 DEF Segment, Single, b
  <2>5. QED BY <1>2, <2>1, <2>2, <2>3, <2>4
<1>6. QED BY <1>2, <1>3, <1>4, <1>5 DEF Segment, j

\* The name, the time and the state of a complete finding each have a letter or
\* a digit: a canonical name starts with "projects/", a time with its year.
FieldsSpelled ==
    \A m \in Triaged : Body[m].form = "complete" =>
        \A s \in {Raw[m].canonicalName, Raw[m].eventTime, Raw[m].state} :
            \E i \in DOMAIN s : s[i] \in Letters

\* However long the fields of a finding are and whatever else they hold, no
\* object of its ledger is called something with a traversal or an empty segment.
THEOREM KeysClean == ASSUME FieldsSpelled PROVE DSpec => []KeysSafe
<1>1. KeysSafe
  <2> SUFFICES ASSUME NEW m \in Triaged, Body[m].form = "complete"
               PROVE  LET k == Body[m].key
                      IN  /\ \A i \in 1..Len(k) - 1 :
                                k[i] = k[i + 1] => k[i] \notin {".", "/"}
                          /\ k[1] # "/" /\ k[Len(k)] # "/"
    BY DEF KeysSafe
  <2> DEFINE name == Raw[m].canonicalName
             time == Raw[m].eventTime
             is == Raw[m].state
  <2>7. m \in Message BY DEF Triaged
  <2>1. \A s \in {name, time, is} : s \in Seq(Character) /\ \E i \in DOMAIN s : s[i] \in Letters
    <3>1. {name, time, is} \subseteq Seq(STRING) BY <2>7, RawAssumption
    <3>2. Seq(STRING) \subseteq Seq(Character) BY DEF Character
    <3>3. \A s \in {name, time, is} : \E i \in DOMAIN s : s[i] \in Letters
      BY DEF FieldsSpelled
    <3>4. QED BY <3>1, <3>2, <3>3
  <2>2. Segment(pathSafe(name)) /\ Segment(pathSafe(time)) /\ Segment(pathSafe(is))
    <3> HIDE DEF name, time, is
    <3>1. QED BY <2>1, PathSafeSegment
  <2>3. Segment((pathSafe(name) \o <<"/">> \o pathSafe(time)) \o <<"/">> \o pathSafe(is))
    <3> HIDE DEF name, time, is
    <3>1. QED BY <2>2, SegmentsJoin
  <2>4. Body[m].key = pathSafe(name) \o <<"/">> \o pathSafe(time) \o <<"/">> \o pathSafe(is)
    <3>1. Body[m] = Parsed(Raw[m]) BY <2>7, RawAssumption
    <3>2. Body[m].key = KeyOfFinding(Raw[m]) BY <3>1 DEF Parsed
    <3>3. QED BY <3>2 DEF KeyOfFinding
  <2>5. Segment(Body[m].key) BY <2>3, <2>4
  <2>6. QED BY <2>5 DEF Segment, Single
<1>2. QED BY <1>1, PTL
=============================================================================
