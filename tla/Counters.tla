------------------------------ MODULE Counters ------------------------------
(* The counters a worker reports (internal/worker/counters.go) along what     *)
(* Handle does, and how they leave the process: cmd/triage-worker logs a      *)
(* snapshot every so often and one at a clean stop, and what was not logged   *)
(* dies with the process.  The model's half is in Settle.tla.  Left out: the  *)
(* count by verdict, which moves with the one by settler, and drift.          *)
EXTENDS Worker, FiniteSets

Counter == {"received", "unreadable", "vulnerabilities_skipped", "redelivered",
            "settled_by_rules", "settled_by_model", "notifications_sent", "failed"}

\* The counters the ledger can be held against; these are followed out of the
\* process.
Tracked == {"settled_by_rules", "settled_by_model", "notifications_sent"}

VARIABLES
    counts,     \* counts[w]: the Counters in the memory of w
    logged,     \* logged[w]: the last snapshot this process of w logged

    \* History, which no action reads:
    published,  \* published[w]: the last snapshots of the processes of w that are gone
    unlogged    \* unlogged[w]: one of those had counted more than its last snapshot

history == <<published, unlogged>>
cvars == <<vars, counts, logged, history>>

Zero == [c \in Tracked |-> 0]

CInit ==
    /\ Init
    /\ counts = [w \in Worker |-> [c \in Counter |-> 0]]
    /\ logged = [w \in Worker |-> Zero]
    /\ published = [w \in Worker |-> Zero]
    /\ unlogged = [w \in Worker |-> FALSE]

\* One change under the lock; the counters in moved go up by one.
Add(w, moved) ==
    /\ counts' = [counts EXCEPT ![w] = [c \in Counter |-> IF c \in moved THEN @[c] + 1 ELSE @[c]]]
    /\ UNCHANGED <<logged, history>>

\* What Handle returns early for.
Turned(w) == IF Form(w) = "unreadable" THEN "unreadable" ELSE "vulnerabilities_skipped"

\* resume counts a key it finds something under.
Seen(w) == IF Furthest(KeyOf(w)) = None THEN {} ELSE {"redelivered"}

Settled(by) == IF by = "rules" THEN "settled_by_rules" ELSE "settled_by_model"

\* Mutant: a verdict read back from the ledger is counted as settled again.
LoadedAgain(w) == IF pc'[w] = "idle" THEN {"failed"} ELSE {Settled(record'[w].settledBy)}

\* Only a record that is not there makes a load count: as a failure.
Loaded(w) == IF pc'[w] = "idle" THEN {"failed"} ELSE {}

\* The calls that move a counter ...
Moves(w) ==
    \/ (Refuse(w) \/ Skip(w)) /\ Add(w, {Turned(w)})
    \/ Resume(w) /\ Add(w, Seen(w))
    \/ Load(w) /\ Add(w, Loaded(w))
    \/ Classify(w) /\ Add(w, {Settled(record[w].settledBy)})
    \/ Emit(w) /\ Add(w, {"notifications_sent"})
    \/ Fail(w) /\ Add(w, {"failed"})

\* ... and those that do not.
Silent(w) ==
    /\ \/ Drop(w) \/ Decide(w) \/ Receive(w) \/ Attempt(w) \/ StayQuiet(w)
       \/ Acknowledge(w) \/ Close(w) \/ Start(w)
    /\ Add(w, {})

\* report: a snapshot is logged on a ticker of its own, wherever Handle stands.
Report(w) ==
    /\ pc[w] # "down"
    /\ logged' = [logged EXCEPT ![w] = [c \in Tracked |-> counts[w][c]]]
    /\ UNCHANGED <<vars, counts, history>>

\* The process of w ends with its counters, and final is the last seen of them.
Forget(w, final) ==
    /\ counts' = [counts EXCEPT ![w] = [c \in Counter |-> 0]]
    /\ logged' = [logged EXCEPT ![w] = Zero]
    /\ published' = [published EXCEPT ![w] = [c \in Tracked |-> @[c] + final[c]]]
    /\ unlogged' = [unlogged EXCEPT ![w] = @ \/ \E c \in Tracked : final[c] # counts[w][c]]

\* A kill and the drill log nothing more.
Vanish(w) == (Crash(w) \/ Drill(w)) /\ Forget(w, logged[w])

\* A SIGTERM that finds the worker idle: Receive returns, and run logs what there
\* is.  To the findings it is one more process gone, hence a Crash; one that comes
\* during a delivery is a call that fails, and this.
Stop(w) == Crash(w) /\ pc[w] = "idle" /\ Forget(w, counts[w])

CNext ==
    \/ \E w \in Worker, m \in Message : Pull(w, m) /\ Add(w, {"received"})
    \/ \E w \in Worker : Moves(w) \/ Silent(w) \/ Report(w) \/ Vanish(w) \/ Stop(w)
    \/ \E m \in Message : (Expire(m) \/ LoseLease(m)) /\ UNCHANGED <<counts, logged, history>>

CSpec == CInit /\ [][CNext]_cvars

-----------------------------------------------------------------------------
(* Properties.                                                                *)

\* What w counted that can still be known: logged by the processes that are gone,
\* or in the memory of the one that runs.
Known(w, c) == published[w][c] + counts[w][c]

\* What one worker at a time reports can be held against the ledger, whatever
\* fails and however often it is restarted (counters.go:5).  It never overstates:
\* no verdict on record is counted twice, however often its finding is delivered.
\* And it understates for two reasons only: a write that failed and was done all
\* the same, one verdict for each such fault; and a process that went without
\* logging what it had counted, which takes any number of verdicts with it.
CountsMatchLedger ==
    Cardinality(Worker) = 1 =>
        \A w \in Worker :
            /\ \A by \in {"rules", "model"} :
                  LET onRecord == Cardinality({k \in Key :
                          Has(k, Classified) /\ ledger[k][Classified].settledBy = by})
                  IN  /\ Known(w, Settled(by)) <= onRecord
                      /\ unlogged[w] \/ onRecord <= Known(w, Settled(by)) + faults
            /\ unlogged[w] \/ Known(w, "notifications_sent") >=
                  Cardinality({k \in Key : Closed(k) /\ Notifies(ledger[k][Classified])})
=============================================================================
