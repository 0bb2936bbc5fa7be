----------------------------- MODULE Deployment -----------------------------
(* The worker as it runs in its Pod: cmd/triage-worker around Handle, the     *)
(* probes of internal/health, the kubelet that restarts the container on      *)
(* them, and findings as they arrive, before Parse.  A call may hang for      *)
(* ever here; what ends it is the idle deadline.                              *)
EXTENDS Worker, Scc

CONSTANTS
    Raw,        \* Raw[m]: the finding m carries
    IdleLimit   \* -idle-limit in ticks of the idle clock; 0 disables it

ASSUME RawAssumption == \A m \in Message :
    /\ Body[m] = Parsed(Raw[m])
    /\ {Raw[m].canonicalName, Raw[m].eventTime, Raw[m].state} \subseteq Seq(STRING)
ASSUME IdleAssumption == IdleLimit \in Nat

VARIABLES
    started,    \* started[w]: the pull loop runs
    age,        \* age[w]: ticks since lastSeen, no more than IdleLimit
    serving,    \* serving[w]: the probe server answers
    stuck,      \* stuck[w]: a call of the handler or the loop never returns
    stopping    \* stopping[w]: SIGTERM came and cancelled the context

health == <<started, age>>
process == <<serving, stuck, stopping>>
dvars == <<vars, health, process>>

DInit ==
    /\ Init
    /\ started = [w \in Worker |-> FALSE]
    /\ age = [w \in Worker |-> IdleLimit]
    /\ serving = [w \in Worker |-> FALSE]
    /\ stuck = [w \in Worker |-> FALSE]
    /\ stopping = [w \in Worker |-> FALSE]

-----------------------------------------------------------------------------
(* internal/health.                                                           *)

\* lastSeen is the zero time, longer ago than any limit.
New(w) ==
    /\ started' = [started EXCEPT ![w] = FALSE]
    /\ age' = [age EXCEPT ![w] = IdleLimit]

Started(w) ==
    /\ started' = [started EXCEPT ![w] = TRUE]
    /\ age' = [age EXCEPT ![w] = 0]

\* Mutant: the message is noted once it is handled, not when it arrives.
SeenLate(w) == UNCHANGED health

Seen(w) == age' = [age EXCEPT ![w] = 0] /\ UNCHANGED started

Ready(w) == started[w]

\* Mutant: the deadline is never reported.
LiveAlways(w) == TRUE

Live(w) == ~started[w] \/ IdleLimit = 0 \/ age[w] < IdleLimit

-----------------------------------------------------------------------------
(* cmd/triage-worker.                                                         *)

\* Nothing of a process outlives it.
Gone(w) ==
    /\ New(w)
    /\ serving' = [serving EXCEPT ![w] = FALSE]
    /\ stuck' = [stuck EXCEPT ![w] = FALSE]
    /\ stopping' = [stopping EXCEPT ![w] = FALSE]

\* The probe server starts before the corpus is read and the clients open.
Boot(w) ==
    /\ Start(w)
    /\ serving' = [serving EXCEPT ![w] = TRUE]
    /\ UNCHANGED <<health, stuck, stopping>>

\* The clients are open and Receive is called.
Open(w) ==
    /\ pc[w] = "idle" /\ ~started[w] /\ ~stuck[w] /\ ~stopping[w]
    /\ Started(w)
    /\ UNCHANGED <<vars, process>>

\* Every message is noted before it is handled.
Deliver(w, m) ==
    /\ Ready(w) /\ ~stuck[w] /\ ~stopping[w]
    /\ Pull(w, m)
    /\ Seen(w)
    /\ UNCHANGED process

\* The handler makes its next call; a drill takes the process with it.
Work(w) ==
    /\ ~stuck[w]
    /\ Step(w)
    /\ IF pc'[w] = "down" THEN Gone(w) ELSE UNCHANGED <<health, process>>

\* A call that takes the cancelled context returns its error, having done its
\* work or not.  What was under way may still succeed, by Work.
Cancel(w) ==
    /\ stopping[w] /\ ~stuck[w]
    /\ Fallible(w)
    /\ UNCHANGED <<ledger, emitted>> \/ DoneAnyway(w)
    /\ Nack(w)
    /\ Return(w, "idle")
    /\ UNCHANGED <<crashAt, faults, health, process>>

\* The message is acknowledged, and the write that says so was cancelled.
CloseUnrecorded(w) ==
    /\ stopping[w] /\ ~stuck[w]
    /\ pc[w] = "acked"
    /\ Return(w, "idle")
    /\ UNCHANGED <<ledger, emitted, crashAt, queue, faults, health, process>>

\* Receive returns once no handler is out, and so does run.
Exit(w) ==
    /\ stopping[w] /\ ~stuck[w] /\ pc[w] = "idle"
    /\ Return(w, "down")
    /\ Gone(w)
    /\ UNCHANGED <<ledger, emitted, crashAt, queue, faults>>

-----------------------------------------------------------------------------
(* The kubelet, the clock and what goes wrong.                                *)

\* A liveness check that fails or goes unanswered ends the container, as does the
\* end of the grace period when it is stopping.
Kill(w) ==
    /\ pc[w] # "down"
    /\ ~serving[w] \/ ~Live(w)
    /\ Return(w, "down")
    /\ Gone(w)
    /\ UNCHANGED <<ledger, emitted, crashAt, queue, faults>>

\* A tick is long (the limit is a day): a handler that is not stuck is through
\* within one, as is a shutdown.
Tick ==
    /\ \A w \in Worker :
          stuck[w] \/ pc[w] = "down" \/ (pc[w] = "idle" /\ ~stopping[w])
    /\ \E w \in Worker : age[w] < IdleLimit
    /\ age' = [w \in Worker |-> IF age[w] < IdleLimit THEN age[w] + 1 ELSE IdleLimit]
    /\ UNCHANGED <<vars, started, process>>

\* A call of the handler or of the loop that never returns.  One that hangs while
\* the clients open is left out: Live stays TRUE and nothing would ever end it.
Hang(w) ==
    /\ Ready(w) /\ ~stuck[w]
    /\ Fault
    /\ stuck' = [stuck EXCEPT ![w] = TRUE]
    /\ UNCHANGED <<ledger, emitted, pc, local, crashAt, queue, health, serving, stopping>>

\* The probe server stops, which is only logged.
LoseServer(w) ==
    /\ serving[w]
    /\ Fault
    /\ serving' = [serving EXCEPT ![w] = FALSE]
    /\ UNCHANGED <<ledger, emitted, pc, local, crashAt, queue, health, stuck, stopping>>

\* SIGTERM, as in a rollout or a drain: the probe server shuts down at once.
Terminate(w) ==
    /\ pc[w] # "down" /\ ~stopping[w]
    /\ Fault
    /\ stopping' = [stopping EXCEPT ![w] = TRUE]
    /\ serving' = [serving EXCEPT ![w] = FALSE]
    /\ UNCHANGED <<ledger, emitted, pc, local, crashAt, queue, health, stuck>>

\* The faults of Worker.tla; a hung call does not fail, it hangs.
Falter(w) ==
    \/ ~stuck[w] /\ Fail(w) /\ UNCHANGED <<health, process>>
    \/ Crash(w) /\ Gone(w)

DNext ==
    \/ \E w \in Worker, m \in Message : Deliver(w, m)
    \/ \E w \in Worker :
          \/ Boot(w) \/ Open(w) \/ Work(w) \/ Cancel(w) \/ CloseUnrecorded(w) \/ Exit(w)
          \/ Kill(w) \/ Hang(w) \/ LoseServer(w) \/ Terminate(w) \/ Falter(w)
    \/ \E m \in Message :
          (Expire(m) \/ LoseLease(m)) /\ UNCHANGED <<health, process>>
    \/ Tick

\* The kubelet restarts what is down and kills what fails its check, a process
\* opens its clients and makes its next call unless it hangs, time passes, and
\* Pub/Sub expires abandoned leases.  A waiting message is delivered to a worker
\* that is ready again and again: strong, since a restart comes between.
DFairness ==
    /\ \A w \in Worker :
          WF_dvars(Boot(w)) /\ WF_dvars(Open(w)) /\ WF_dvars(Work(w))
          /\ WF_dvars(Exit(w)) /\ WF_dvars(Kill(w))
    /\ \A m \in Message :
          /\ SF_dvars(\E w \in Worker : Deliver(w, m))
          /\ WF_dvars(Expire(m) /\ UNCHANGED <<health, process>>)
    /\ WF_dvars(Tick)

DSpec == DInit /\ [][DNext]_dvars /\ DFairness

-----------------------------------------------------------------------------
(* Properties.                                                                *)

\* The probe ends nobody at work: a process whose probe server answers is killed
\* only when its loop runs and either waits for messages or hangs.  In particular
\* it is not killed while the clients open (health.go:51-53).
KillSparesWork ==
    [][\A w \in Worker :
        (/\ pc[w] # "down" /\ pc'[w] = "down" /\ faults' = faults
         /\ serving[w] /\ ~stopping[w] /\ ~AtBoundary(w))
            => Ready(w) /\ (pc[w] = "idle" \/ stuck[w])]_dvars

\* Every finding acknowledged has a verdict reached for its own event, not for
\* another one that shares its key (finding.go:101-102).
EventsKeptApart ==
    \A m \in Triaged : status[m] = "acked" =>
        \E n \in Triaged :
            /\ Event(Raw[n]) = Event(Raw[m])
            /\ Has(Body[m].key, Classified)
            /\ ledger[Body[m].key][Classified].digest = Body[n].digest

\* No object of a complete finding has a name with a traversal or an empty
\* segment, however its fields are spelled, as long as each has a letter or a
\* digit to keep (finding.go:111-112).
KeysSafe ==
    \A m \in Triaged : Body[m].form = "complete" /\ Present(Body[m].key) # {} =>
        LET k == Body[m].key
        IN  /\ \A i \in 1..Len(k) - 1 :
                  k[i] = k[i + 1] => k[i] \notin {".", "/"}
            /\ k[1] # "/" /\ k[Len(k)] # "/"
=============================================================================
