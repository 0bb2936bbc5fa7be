-------------------------------- MODULE Spend --------------------------------
(* The daily ceiling of internal/model/spend.go: every model call reserves    *)
(* its worst case in the ledger bucket first.  Handlers of one process share  *)
(* a mutex and a cached total; processes share only the bucket.               *)
EXTENDS Integers

CONSTANTS
    Process,    \* worker processes, one after the other or overlapping
    Caller,     \* handler goroutines that may ask at one time
    Of,         \* Of[c]: the process c runs in
    Day,        \* UTC days
    Price,      \* the worst case of one call, in the smallest unit of money
    Ceiling,    \* -daily-spend-ceiling-usd, in the same unit
    Overlap,    \* whether a process may start while another still runs
    MaxFaults,  \* bound: failed calls and crashes
    None

ASSUME OfAssumption == Of \in [Caller -> Process]
ASSUME DayAssumption == None \notin Day \union Caller
ASSUME AmountAssumption ==
    Price \in Nat /\ Ceiling \in Nat /\ MaxFaults \in Nat /\ Overlap \in BOOLEAN

VARIABLES
    live,       \* the processes running
    mu,         \* mu[p]: the caller holding the mutex of p, or None
    day,        \* day[p]: the day the cached total is of, None ("") before any
    total,      \* total[p]: the cached total
    pc,         \* pc[c]: where Reserve stands for caller c
    now,        \* now[c]: the day c read off the clock under the mutex
    today,      \* the clock
    reserved,   \* reserved[d]: sum of the objects under spend/<d>/
    granted,    \* granted[d]: worst case of the calls Reserve allowed on d
    faults

vars == <<live, mu, day, total, pc, now, today, reserved, granted, faults>>

Steps == {"idle", "waiting", "loading", "checking", "created"}

\* The steps taken under the mutex.
Locked == {"loading", "checking", "created"}

Init ==
    /\ live = {}
    /\ mu = [p \in Process |-> None]
    /\ day = [p \in Process |-> None]
    /\ total = [p \in Process |-> 0]
    /\ pc = [c \in Caller |-> "idle"]
    /\ now = [c \in Caller |-> None]
    /\ today \in Day
    /\ reserved = [d \in Day |-> 0]
    /\ granted = [d \in Day |-> 0]
    /\ faults = 0

Fault == faults < MaxFaults /\ faults' = faults + 1

Goto(c, from, to) == pc[c] = from /\ pc' = [pc EXCEPT ![c] = to]

\* Mutant: an error return leaves the mutex locked.
ReturnLocked(c) ==
    /\ pc' = [pc EXCEPT ![c] = "idle"]
    /\ now' = [now EXCEPT ![c] = None]
    /\ UNCHANGED mu

\* Reserve returns, and the deferred call unlocks.
Return(c) ==
    /\ pc' = [pc EXCEPT ![c] = "idle"]
    /\ now' = [now EXCEPT ![c] = None]
    /\ mu' = [mu EXCEPT ![Of[c]] = None]

-----------------------------------------------------------------------------
\* A process starts with nothing cached.
Start(p) ==
    /\ p \notin live /\ (Overlap \/ live = {})
    /\ live' = live \union {p}
    /\ day' = [day EXCEPT ![p] = None]
    /\ total' = [total EXCEPT ![p] = 0]
    /\ UNCHANGED <<mu, pc, now, today, reserved, granted, faults>>

\* Whatever its handlers were about to do is lost, with the process.
Crash(p) ==
    /\ p \in live
    /\ Fault
    /\ live' = live \ {p}
    /\ mu' = [mu EXCEPT ![p] = None]
    /\ pc' = [c \in Caller |-> IF Of[c] = p THEN "idle" ELSE pc[c]]
    /\ now' = [c \in Caller |-> IF Of[c] = p THEN None ELSE now[c]]
    /\ UNCHANGED <<day, total, today, reserved, granted>>

\* Midnight, or a clock set back or running behind on another node.
Tick ==
    /\ today' \in Day \ {today}
    /\ UNCHANGED <<live, mu, day, total, pc, now, reserved, granted, faults>>

\* A handler has a finding for the model.
Ask(c) ==
    /\ Of[c] \in live
    /\ Goto(c, "idle", "waiting")
    /\ UNCHANGED <<live, mu, day, total, now, today, reserved, granted, faults>>

\* Mutant: the total is loaded once per process rather than once per day.
LockOnce(c) ==
    /\ Goto(c, "waiting", IF day[Of[c]] # None THEN "checking" ELSE "loading")
    /\ mu[Of[c]] = None
    /\ mu' = [mu EXCEPT ![Of[c]] = c]
    /\ now' = [now EXCEPT ![c] = today]
    /\ UNCHANGED <<live, day, total, today, reserved, granted, faults>>

Lock(c) ==
    /\ Goto(c, "waiting", IF day[Of[c]] = today THEN "checking" ELSE "loading")
    /\ mu[Of[c]] = None
    /\ mu' = [mu EXCEPT ![Of[c]] = c]
    /\ now' = [now EXCEPT ![c] = today]
    /\ UNCHANGED <<live, day, total, today, reserved, granted, faults>>

\* Mutant: a new day starts from nothing instead of from what is stored.
LoadNothing(c) ==
    /\ Goto(c, "loading", "checking")
    /\ day' = [day EXCEPT ![Of[c]] = now[c]]
    /\ total' = [total EXCEPT ![Of[c]] = 0]
    /\ UNCHANGED <<live, mu, now, today, reserved, granted, faults>>

\* load: the day and the total change together, once every object is read.
Load(c) ==
    /\ Goto(c, "loading", "checking")
    /\ day' = [day EXCEPT ![Of[c]] = now[c]]
    /\ total' = [total EXCEPT ![Of[c]] = reserved[now[c]]]
    /\ UNCHANGED <<live, mu, now, today, reserved, granted, faults>>

\* Mutant: the ceiling may be passed by the last call of the day.
FitsReached(p) == total[p] <= Ceiling

Fits(p) == total[p] + Price <= Ceiling

Refuse(c) ==
    /\ pc[c] = "checking" /\ ~Fits(Of[c])
    /\ Return(c)
    /\ UNCHANGED <<live, day, total, today, reserved, granted, faults>>

\* Mutant: the reservation is counted but not stored.
CreateNothing(c) ==
    /\ Fits(Of[c])
    /\ Goto(c, "checking", "created")
    /\ UNCHANGED <<live, mu, day, total, now, today, reserved, granted, faults>>

\* The random name never collides, so the create stores one more object.
Create(c) ==
    /\ Fits(Of[c])
    /\ Goto(c, "checking", "created")
    /\ reserved' = [reserved EXCEPT ![now[c]] = @ + Price]
    /\ UNCHANGED <<live, mu, day, total, now, today, granted, faults>>

\* Reserve returns true, and the caller may call the model.
Grant(c) ==
    /\ pc[c] = "created"
    /\ total' = [total EXCEPT ![Of[c]] = @ + Price]
    /\ granted' = [granted EXCEPT ![now[c]] = @ + Price]
    /\ Return(c)
    /\ UNCHANGED <<live, day, today, reserved, faults>>

\* A list, read or create fails: no call is made.  A create that reports an
\* error may have stored its object all the same.
Fail(c) ==
    /\ pc[c] \in {"loading", "checking"}
    /\ Fault
    /\ \/ UNCHANGED reserved
       \/ /\ pc[c] = "checking"
          /\ reserved' = [reserved EXCEPT ![now[c]] = @ + Price]
    /\ pc[c] = "checking" => Fits(Of[c])
    /\ Return(c)
    /\ UNCHANGED <<live, day, total, today, granted>>

Next ==
    \/ \E p \in Process : Start(p) \/ Crash(p)
    \/ Tick
    \/ \E c \in Caller : \/ Ask(c) \/ Lock(c) \/ Load(c) \/ Refuse(c)
                         \/ Create(c) \/ Grant(c) \/ Fail(c)

Spec == Init /\ [][Next]_vars

\* A goroutine that runs goes on; the Go mutex hands over to one that has
\* waited for more than a millisecond, so no waiter starves.
Fairness ==
    \A c \in Caller :
        /\ SF_vars(Lock(c))
        /\ WF_vars(Load(c) \/ Refuse(c) \/ Create(c) \/ Grant(c))

FairSpec == Spec /\ Fairness

-----------------------------------------------------------------------------
\* The mutex of a process is held by the one handler of it that is between Lock
\* and Unlock, so its handlers reserve one at a time; amounts never go negative.
TypeOK ==
    /\ live \in SUBSET Process
    /\ mu \in [Process -> Caller \union {None}]
    /\ day \in [Process -> Day \union {None}]
    /\ total \in [Process -> Nat]
    /\ pc \in [Caller -> Steps]
    /\ now \in [Caller -> Day \union {None}]
    /\ today \in Day
    /\ reserved \in [Day -> Nat]
    /\ granted \in [Day -> Nat]
    /\ faults \in 0..MaxFaults
    /\ \A c \in Caller : pc[c] \in Locked <=> mu[Of[c]] = c
    /\ \A c \in Caller : now[c] # None <=> pc[c] \in Locked
    /\ \A p \in Process : mu[p] # None => Of[mu[p]] = p

\* "So the ceiling holds across restarts and crash loops" (spend.go:27-29):
\* the calls allowed on one UTC day cost at most the ceiling.
CeilingHolds == \A d \in Day : granted[d] <= Ceiling

\* "Every call reserves its worst case in the ledger bucket before it is made"
\* (spend.go:27-28): no call is allowed that the bucket does not account for.
ReservedBeforeCall == \A d \in Day : granted[d] <= reserved[d]

\* A refusal is never the work of a stale total: on the day asked about, what
\* is in the bucket leaves no room for the call.
RefusedOnlyAtCeiling ==
    [][\A c \in Caller :
        pc[c] = "checking" /\ pc'[c] = "idle" /\ faults' = faults
            => reserved[now[c]] + Price > Ceiling]_vars

\* Every caller gets an answer: granted, refused, an error, or the process died.
EveryAskAnswered == \A c \in Caller : pc[c] = "waiting" ~> pc[c] = "idle"
=============================================================================
