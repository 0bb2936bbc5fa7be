------------------------------- MODULE Worker -------------------------------
(* The triage worker of internal/worker: what Handle does with a Pub/Sub      *)
(* delivery, one action per call that leaves the process or per early return, *)
(* with the crashes, failed calls and redeliveries between them.              *)
EXTENDS Ledger, Decision

CONSTANTS
    Worker,         \* worker processes (one replica; two overlap in a rollout)
    Message,        \* messages on the subscription
    Body,           \* Body[m]: the key, digest and form of what m carries
    Mapped,         \* Mapped[w]: messages the corpus image of w resolves
    Model,          \* whether a model is configured (worker.go:46)
    CrashFlags,     \* values of -crash-at a start may be given
    MaxFaults,      \* bound: failed calls, crashes, drills, lost acks, lost leases
    MaxDeliveries   \* the dead letter policy of the subscription

Forms == {"unreadable", "vulnerability", "partial", "complete"}
Boundaries == {Received, NotificationAttempted, Acknowledged}
Digest == {Body[m].digest : m \in Message}

Record == [verdict : Verdicts, settledBy : {"rules", "model"}, digest : Digest]

Phases == {"down", "idle", "pulled", "dropping", "loading", "deciding", "settled",
           "receipted", "recorded", "attempted", "notified", "acked"}

ASSUME BodyAssumption ==
    \A m \in Message : Body[m].key \in Key /\ Body[m].form \in Forms
ASSUME NoneAssumption == None \notin Record \union States \union Worker \union Message
ASSUME CrashAssumption == CrashFlags \subseteq Boundaries \union {None}
ASSUME BoundAssumption ==
    Model \in BOOLEAN /\ MaxFaults \in Nat /\ MaxDeliveries \in Nat

VARIABLES
    emitted,    \* emitted[k]: records flushed to the verdict log for key k
    pc,         \* pc[w]: where Handle stands
    msg,        \* msg[w]: the delivery being handled
    state,      \* state[w]: the furthest state resume read; None is !seen
    record,     \* record[w]: the verdict record triage holds
    crashAt,    \* crashAt[w]: the drill boundary this process was started with
    status,     \* status[m]: live, acked or dead (lettered)
    lease,      \* lease[m]: the worker Pub/Sub gave m to, or None
    attempts,   \* attempts[m]: how often m was delivered
    faults      \* faults so far, at most MaxFaults

local == <<msg, state, record>>
queue == <<status, lease, attempts>>
vars == <<ledger, emitted, pc, local, crashAt, queue, faults>>

KeyOf(w) == Body[msg[w]].key
Form(w) == Body[msg[w]].form
Triaged == {m \in Message : Body[m].form \in {"partial", "complete"}}

\* Mutant: a refusal to rule is taken for a quiet verdict.
NotifiesRuled(r) == r.verdict \notin {"accepted", "insufficient_evidence"}

Notifies(r) == r.verdict # "accepted"

Init ==
    /\ ledger = EmptyLedger
    /\ emitted = [k \in Key |-> {}]
    /\ pc = [w \in Worker |-> "down"]
    /\ msg = [w \in Worker |-> None]
    /\ state = [w \in Worker |-> None]
    /\ record = [w \in Worker |-> None]
    /\ crashAt = [w \in Worker |-> None]
    /\ status = [m \in Message |-> "live"]
    /\ lease = [m \in Message |-> None]
    /\ attempts = [m \in Message |-> 0]
    /\ faults = 0

-----------------------------------------------------------------------------
(* The subscription, as internal/worker and cmd/triage-worker use it.         *)

Fault == faults < MaxFaults /\ faults' = faults + 1

\* An undelivered message waits again, or goes to the dead letter topic.
Requeue(m) ==
    /\ status' = [status EXCEPT ![m] =
                    IF @ = "live" /\ attempts[m] >= MaxDeliveries THEN "dead" ELSE @]
    /\ lease' = [lease EXCEPT ![m] = None]
    /\ UNCHANGED attempts

Nack(w) == IF lease[msg[w]] = w THEN Requeue(msg[w]) ELSE UNCHANGED queue

\* Ack reports nothing back (m.Ack() has no result), so a lost one looks like
\* one that arrived.
Ack(w) ==
    \/ /\ status' = [status EXCEPT ![msg[w]] = IF @ = "live" THEN "acked" ELSE @]
       /\ lease' = [lease EXCEPT ![msg[w]] = None]
       /\ UNCHANGED <<attempts, faults>>
    \/ Fault /\ UNCHANGED queue

\* Mutant: the delivery is still in hand when Handle has returned.
ReturnHolding(w, to) ==
    /\ pc' = [pc EXCEPT ![w] = to]
    /\ UNCHANGED local

\* Handle returns; nothing of the delivery outlives it in the process.
Return(w, to) ==
    /\ pc' = [pc EXCEPT ![w] = to]
    /\ msg' = [msg EXCEPT ![w] = None]
    /\ state' = [state EXCEPT ![w] = None]
    /\ record' = [record EXCEPT ![w] = None]

Goto(w, from, to) == pc[w] = from /\ pc' = [pc EXCEPT ![w] = to]

\* MaxOutstandingMessages = 1: an idle worker takes one waiting message.
Pull(w, m) ==
    /\ Goto(w, "idle", "pulled")
    /\ status[m] = "live" /\ lease[m] = None
    /\ msg' = [msg EXCEPT ![w] = m]
    /\ lease' = [lease EXCEPT ![m] = w]
    /\ attempts' = [attempts EXCEPT ![m] = @ + 1]
    /\ UNCHANGED <<ledger, emitted, state, record, crashAt, status, faults>>

\* A lease nobody extends any more runs out: the handler died, or its ack was lost.
Expire(m) ==
    /\ lease[m] # None /\ msg[lease[m]] # m
    /\ Requeue(m)
    /\ UNCHANGED <<ledger, emitted, pc, local, crashAt, faults>>

\* A lease runs out under a handler that is still at work.
LoseLease(m) ==
    /\ lease[m] # None /\ msg[lease[m]] = m
    /\ Fault
    /\ Requeue(m)
    /\ UNCHANGED <<ledger, emitted, pc, local, crashAt>>

-----------------------------------------------------------------------------
(* Handle, triage, resume and recordFor.                                      *)

\* Mutant: an unreadable body is acknowledged, so it is gone.
RefuseByAck(w) ==
    /\ pc[w] = "pulled" /\ Form(w) = "unreadable"
    /\ Ack(w)
    /\ Return(w, "idle")
    /\ UNCHANGED <<ledger, emitted, crashAt>>

\* No envelope or no canonical name: nothing to key a record on.
Refuse(w) ==
    /\ pc[w] = "pulled" /\ Form(w) = "unreadable"
    /\ Nack(w)
    /\ Return(w, "idle")
    /\ UNCHANGED <<ledger, emitted, crashAt, faults>>

\* The vulnerability class is counted and acknowledged, never triaged.
Skip(w) ==
    /\ pc[w] = "pulled" /\ Form(w) = "vulnerability"
    /\ Ack(w)
    /\ Return(w, "idle")
    /\ UNCHANGED <<ledger, emitted, crashAt>>

\* The digest compared with the one on record moves only a counter and a log line.
Resume(w) ==
    LET furthest == Furthest(KeyOf(w))
    IN  /\ pc[w] = "pulled" /\ msg[w] \in Triaged
        /\ \/ furthest = Acknowledged /\ Goto(w, "pulled", "dropping")
           \/ /\ furthest # Acknowledged /\ ~Before(furthest, Classified)
              /\ Goto(w, "pulled", "loading")
           \/ Before(furthest, Classified) /\ Goto(w, "pulled", "deciding")
        /\ state' = [state EXCEPT ![w] = furthest]
        /\ UNCHANGED <<ledger, emitted, msg, record, crashAt, queue, faults>>

\* Mutant: a finding already acknowledged is refused rather than dropped.
DropByNack(w) ==
    /\ pc[w] = "dropping"
    /\ Nack(w)
    /\ Return(w, "idle")
    /\ UNCHANGED <<ledger, emitted, crashAt, faults>>

\* Already acknowledged on an earlier delivery: nothing left to do.
Drop(w) ==
    /\ pc[w] = "dropping"
    /\ Ack(w)
    /\ Return(w, "idle")
    /\ UNCHANGED <<ledger, emitted, crashAt>>

\* The verdict on record is reused; one that is not there is an error.
Load(w) ==
    LET stored == ledger[KeyOf(w)][Classified]
    IN  /\ pc[w] = "loading"
        /\ IF stored = None
           THEN Nack(w) /\ Return(w, "idle")
           ELSE /\ Goto(w, "loading", "recorded")
                /\ record' = [record EXCEPT ![w] = stored]
                /\ UNCHANGED <<msg, state, queue>>
        /\ UNCHANGED <<ledger, emitted, crashAt, faults>>

\* The model is asked only about a complete finding the rules left unmatched.
Asks(w, m) == Model /\ Body[m].form = "complete" /\ m \notin Mapped[w]

\* The records Decide may return for m under the corpus image of w.
Outcomes(w, m) ==
    {r \in Record :
        /\ r.digest = Body[m].digest
        /\ [verdict |-> r.verdict, settledBy |-> r.settledBy]
               \in Rulings(Body[m].form = "complete", m \in Mapped[w], Model)}

Decide(w) ==
    /\ Goto(w, "deciding", "settled")
    /\ \E r \in Outcomes(w, msg[w]) : record' = [record EXCEPT ![w] = r]
    /\ UNCHANGED <<ledger, emitted, msg, state, crashAt, queue, faults>>

\* Mutant: the hook for received sits after the write of the verdict.
AtLateBoundary(w) ==
    \/ crashAt[w] \in {Received, NotificationAttempted} /\ pc[w] = "recorded"
    \/ crashAt[w] = Acknowledged /\ pc[w] = "notified"

\* crashIf: the three places the drill stops a process started with -crash-at.
AtBoundary(w) ==
    \/ crashAt[w] = Received /\ pc[w] = "settled"
    \/ crashAt[w] = NotificationAttempted /\ pc[w] = "recorded"
    \/ crashAt[w] = Acknowledged /\ pc[w] = "notified"

\* Mutant: the test of !seen is inverted.
ReceiveSeen(w) ==
    /\ ~AtBoundary(w)
    /\ Goto(w, "settled", "receipted")
    /\ ledger' = IF state[w] # None THEN Created(KeyOf(w), Received, record[w]) ELSE ledger
    /\ UNCHANGED <<emitted, local, crashAt, queue, faults>>

\* The digest goes on record with the first receipt; ErrExists is no error.
Receive(w) ==
    /\ ~AtBoundary(w)
    /\ Goto(w, "settled", "receipted")
    /\ ledger' = IF state[w] = None THEN Created(KeyOf(w), Received, record[w]) ELSE ledger
    /\ UNCHANGED <<emitted, local, crashAt, queue, faults>>

Classify(w) ==
    /\ Goto(w, "receipted", "recorded")
    /\ ledger' = Created(KeyOf(w), Classified, record[w])
    /\ UNCHANGED <<emitted, local, crashAt, queue, faults>>

\* Mutant: the attempt counts as recorded once the verdict is.
UnattemptedEarly(w) == Notifies(record[w]) /\ Before(state[w], Classified)

\* Whether this handling still has the attempt to record.
Unattempted(w) == Notifies(record[w]) /\ Before(state[w], NotificationAttempted)

\* Mutant: the entry is emitted only by the handling that records the attempt.
AttemptOnce(w) ==
    /\ ~AtBoundary(w)
    /\ Goto(w, "recorded", IF Unattempted(w) THEN "attempted" ELSE "notified")
    /\ Notifies(record[w])
    /\ ledger' = IF Unattempted(w)
                 THEN Created(KeyOf(w), NotificationAttempted, record[w]) ELSE ledger
    /\ UNCHANGED <<emitted, local, crashAt, queue, faults>>

\* An attempt already on record is repeated: one may or may not have gone out.
Attempt(w) ==
    /\ ~AtBoundary(w)
    /\ Goto(w, "recorded", "attempted")
    /\ Notifies(record[w])
    /\ ledger' = IF Unattempted(w)
                 THEN Created(KeyOf(w), NotificationAttempted, record[w]) ELSE ledger
    /\ state' = [state EXCEPT ![w] = NotificationAttempted]
    /\ UNCHANGED <<emitted, msg, record, crashAt, queue, faults>>

\* Accepted is the quiet path.
StayQuiet(w) ==
    /\ ~AtBoundary(w)
    /\ Goto(w, "recorded", "notified")
    /\ ~Notifies(record[w])
    /\ UNCHANGED <<ledger, emitted, local, crashAt, queue, faults>>

Emit(w) ==
    /\ Goto(w, "attempted", "notified")
    /\ emitted' = [emitted EXCEPT ![KeyOf(w)] = @ \union {record[w]}]
    /\ UNCHANGED <<ledger, local, crashAt, queue, faults>>

Acknowledge(w) ==
    /\ ~AtBoundary(w)
    /\ Goto(w, "notified", "acked")
    /\ Ack(w)
    /\ UNCHANGED <<ledger, emitted, local, crashAt>>

\* A failed write is only logged: redelivery cannot retry it any more.
Close(w) ==
    /\ pc[w] = "acked"
    /\ Return(w, "idle")
    /\ \/ ledger' = Created(KeyOf(w), Acknowledged, record[w]) /\ UNCHANGED faults
       \/ Fault /\ UNCHANGED ledger
    /\ UNCHANGED <<emitted, crashAt, queue>>

-----------------------------------------------------------------------------
(* Failures, crashes and restarts.                                            *)

\* The phases whose next call returns an error triage passes on.
Fallible(w) ==
    \/ pc[w] = "pulled" /\ msg[w] \in Triaged                   \* List
    \/ pc[w] \in {"loading", "receipted", "attempted"}          \* Read, Create, Flush
    \/ pc[w] = "deciding" /\ Asks(w, msg[w])                          \* Reserve, Generate
    \/ pc[w] = "settled" /\ ~AtBoundary(w) /\ state[w] = None   \* Create
    \/ pc[w] = "recorded" /\ ~AtBoundary(w) /\ Unattempted(w)   \* Create

\* A create that reports an error may have stored the object all the same, and
\* a flush that reports one may have delivered the entry.
DoneAnyway(w) ==
    \/ /\ pc[w] = "settled"
       /\ ledger' = Created(KeyOf(w), Received, record[w]) /\ UNCHANGED emitted
    \/ /\ pc[w] = "receipted"
       /\ ledger' = Created(KeyOf(w), Classified, record[w]) /\ UNCHANGED emitted
    \/ /\ pc[w] = "recorded"
       /\ ledger' = Created(KeyOf(w), NotificationAttempted, record[w]) /\ UNCHANGED emitted
    \/ /\ pc[w] = "attempted"
       /\ emitted' = [emitted EXCEPT ![KeyOf(w)] = @ \union {record[w]}] /\ UNCHANGED ledger

\* triage returns an error and Handle refuses the delivery.
Fail(w) ==
    /\ Fallible(w)
    /\ Fault
    /\ UNCHANGED <<ledger, emitted>> \/ DoneAnyway(w)
    /\ Nack(w)
    /\ Return(w, "idle")
    /\ UNCHANGED crashAt

\* SIGKILL, an eviction or a lost node.  The lease stays until it expires.
Crash(w) ==
    /\ pc[w] # "down"
    /\ Fault
    /\ Return(w, "down")
    /\ UNCHANGED <<ledger, emitted, crashAt, queue>>

\* os.Exit at the drill boundary: no deferred call, nothing acknowledged.
Drill(w) ==
    /\ AtBoundary(w)
    /\ Return(w, "down")
    /\ UNCHANGED <<ledger, emitted, crashAt, queue, faults>>

\* A restart, under a drill flag or without; the drill is one of the faults.
Start(w) ==
    /\ Goto(w, "down", "idle")
    /\ \E b \in CrashFlags :
          /\ crashAt' = [crashAt EXCEPT ![w] = b]
          /\ (b # None /\ Fault) \/ (b = None /\ UNCHANGED faults)
    /\ UNCHANGED <<ledger, emitted, local, queue>>

-----------------------------------------------------------------------------
\* What Handle does by itself once a message is in hand.
Step(w) ==
    \/ Refuse(w) \/ Skip(w) \/ Resume(w) \/ Drop(w) \/ Load(w) \/ Decide(w)
    \/ Receive(w) \/ Classify(w) \/ Attempt(w) \/ StayQuiet(w) \/ Emit(w)
    \/ Acknowledge(w) \/ Close(w) \/ Drill(w)

Next ==
    \/ \E w \in Worker, m \in Message : Pull(w, m)
    \/ \E w \in Worker : Step(w) \/ Fail(w) \/ Crash(w) \/ Start(w)
    \/ \E m \in Message : Expire(m) \/ LoseLease(m)

Spec == Init /\ [][Next]_vars

-----------------------------------------------------------------------------
(* Properties.                                                                *)

\* A record on the books, in hand or emitted is a verdict record; a handler
\* has a delivery exactly while it handles one, and counters stay in bounds.
TypeOK ==
    /\ ledger \in [Key -> [States -> Record \union {None}]]
    /\ emitted \in [Key -> SUBSET Record]
    /\ pc \in [Worker -> Phases]
    /\ msg \in [Worker -> Message \union {None}]
    /\ state \in [Worker -> States \union {None}]
    /\ record \in [Worker -> Record \union {None}]
    /\ crashAt \in [Worker -> Boundaries \union {None}]
    /\ status \in [Message -> {"live", "acked", "dead"}]
    /\ lease \in [Message -> Worker \union {None}]
    /\ attempts \in [Message -> Nat]
    /\ faults \in 0..MaxFaults
    /\ \A w \in Worker : msg[w] = None <=> pc[w] \in {"down", "idle"}

\* The attempt is on record before anything goes out, so an entry nobody can
\* account for does not exist (worker.go:114-126).
AttemptBeforeEmit == \A k \in Key : emitted[k] # {} => Has(k, NotificationAttempted)

\* A finding is closed once no delivery of it will be triaged again.
Closed(k) ==
    \/ Has(k, Acknowledged)
    \/ \E m \in Triaged : Body[m].key = k /\ status[m] = "acked"

\* "Duplicate email is accepted. A missed notification is not." (worker.go:6)
\* No finding is closed without a verdict on record, nor one whose verdict
\* notifies without an entry for it in the log.
NoMissedNotification ==
    \A k \in Key : Closed(k) =>
        /\ Has(k, Classified)
        /\ Notifies(ledger[k][Classified]) => emitted[k] # {}

\* What the owner is told is what the ledger says, whoever wrote it: every
\* entry for a finding carries the one record classified (ledger.go:67-68).
EmittedAsRecorded ==
    \A k \in Key : \A r \in emitted[k] : r = ledger[k][Classified]

\* Inference is never paid for again once the verdict is durable (worker.go:5-6).
NoInferenceAfterVerdict ==
    [][\A w \in Worker :
        pc[w] = "deciding" /\ pc'[w] = "settled" => ~Has(KeyOf(w), Classified)]_vars

\* Once the acknowledgement is on record, no later delivery of the finding
\* reaches the owner (worker.go:101-104).
ClosedStaysQuiet ==
    [][\A w \in Worker :
        pc[w] = "attempted" /\ pc'[w] = "notified" => ~Has(KeyOf(w), Acknowledged)]_vars

\* What is on record, in the log and outstanding when the drill stops the process,
\* to the state.  Before received is written: what resume read and nothing since,
\* so nothing at all, or a receipt an earlier failure left.  Before the attempt:
\* the verdict in hand, no further than it was read, and no entry unless an attempt
\* was read.  Before the message is acknowledged: the verdict in hand, the attempt
\* and the one entry if it notifies, neither if it does not.  worker.go:189 and :111
\* have less: "nothing is on record yet", "nothing has been notified yet".
DrillBoundaries ==
    \A w \in Worker : AtBoundary(w) =>
        LET k == KeyOf(w)
            r == record[w]
        IN  /\ crashAt[w] = Received =>
                  /\ Furthest(k) = state[w] /\ state[w] \in {None, Received}
                  /\ emitted[k] = {}
            /\ crashAt[w] = NotificationAttempted =>
                  /\ ledger[k][Classified] = r
                  /\ Furthest(k) = IF Before(state[w], Classified) THEN Classified ELSE state[w]
                  /\ emitted[k] # {} => state[w] = NotificationAttempted
            /\ crashAt[w] = Acknowledged =>
                  /\ ledger[k][Classified] = r
                  /\ Furthest(k) = IF Notifies(r) THEN NotificationAttempted ELSE Classified
                  /\ emitted[k] = IF Notifies(r) THEN {r} ELSE {}
                  /\ status[msg[w]] # "acked"

\* A finding that can be keyed is dead lettered by faults only: each delivery
\* of it beyond the first is paid for by a fault, so no message the worker can
\* read runs out of deliveries by itself.
DeliveriesAccounted ==
    \A m \in Message : Body[m].form # "unreadable" => attempts[m] <= 1 + faults

\* With fewer faults than deliveries, every finding in scope is closed at last ...
EveryFindingSettles ==
    \A m \in Triaged : <>(status[m] = "acked" /\ Has(Body[m].key, Classified))

\* ... and a body nothing can be read from ends on the dead letter topic, where
\* it stays readable, rather than being dropped (worker.go:69-76).
UnreadableIsKept ==
    \A m \in Message : Body[m].form = "unreadable" => <>[](status[m] = "dead")

\* "A redelivery whose key matches and whose digest differs is recorded as drift
\* without inference" (worker.go:151).
DriftWithoutInference ==
    [][\A w \in Worker :
        (/\ pc[w] = "deciding" /\ pc'[w] = "settled"
         /\ state[w] # None
         /\ ledger[KeyOf(w)][Received].digest # Body[msg[w]].digest)
            => record'[w].settledBy # "model"]_vars

\* The images that run at one time price each finding alike: every delivery of
\* it is complete and mapped for all of them, or for none.
Quiet(w, m) == Body[m].form = "complete" /\ m \in Mapped[w]
AgreedPricing ==
    \A u, v \in Worker, m, n \in Triaged :
        Body[m].key = Body[n].key => (Quiet(u, m) <=> Quiet(v, n))

\* The verdict, the notification and the closing of each finding, in the terms
\* of Triage.tla.
Promise == INSTANCE Triage WITH
    Finding <- Key,
    verdict <- [k \in Key |->
        IF Has(k, Classified) THEN ledger[k][Classified].verdict ELSE "none"],
    told <- [k \in Key |-> emitted[k] # {}],
    closed <- [k \in Key |-> Closed(k)]

\* The worker keeps the promise: each of its steps is one of Triage or none.
KeepsPromise == Promise!Spec
=============================================================================
