------------------------------- MODULE Ledger -------------------------------
(* The verdict ledger of internal/ledger over the bucket of internal/gcp:    *)
(* one object per state under one prefix per key, created and never          *)
(* overwritten or deleted.  The module holds the stored objects and the      *)
(* operations on them; the workers that call them are in Worker.tla.         *)
EXTENDS Integers

CONSTANTS
    Key,    \* what scc.Finding.Key returns
    None    \* no object, no record, no state ("" in the code)

VARIABLE
    ledger  \* ledger[k][s]: the record stored as <k>/<s>.json, or None

Received == "received"
Classified == "classified"
NotificationAttempted == "notification_attempted"
Acknowledged == "acknowledged"

States == {Received, Classified, NotificationAttempted, Acknowledged}

rank(s) ==
    IF s \in States
    THEN [received |-> 0, classified |-> 1, notification_attempted |-> 2,
          acknowledged |-> 3][s]
    ELSE -1

Before(s, t) == rank(s) < rank(t)

EmptyLedger == [k \in Key |-> [s \in States |-> None]]

Has(k, s) == ledger[k][s] # None

\* Bucket.Create under ifGenerationMatch=0: an object that exists stays as it
\* is.  The caller sees ErrExists and, everywhere in the worker, ignores it.
Created(k, s, r) == IF Has(k, s) THEN ledger ELSE [ledger EXCEPT ![k][s] = r]

Present(k) == {s \in States : Has(k, s)}

\* Mutant: the comparison of Furthest is swapped, so the first state wins.
Nearest(k) ==
    IF Present(k) = {} THEN None
    ELSE CHOOSE s \in Present(k) : \A t \in Present(k) : ~Before(t, s)

\* The furthest state listed under a key, None when nothing is.
Furthest(k) ==
    IF Present(k) = {} THEN None
    ELSE CHOOSE s \in Present(k) : \A t \in Present(k) : ~Before(s, t)

\* What each write presupposes: a verdict is on record only after receipt, and
\* an attempt or an acknowledgement only after a verdict (the order of the
\* idempotency decision, ledger.go:31).
LedgerShape ==
    \A k \in Key :
        /\ Has(k, Classified) => Has(k, Received)
        /\ Has(k, NotificationAttempted) => Has(k, Classified)
        /\ Has(k, Acknowledged) => Has(k, Classified)
=============================================================================
