----------------------------- MODULE SpendProofs -----------------------------
(* Machine-checked theorems about Spend, for any number of processes,         *)
(* handlers, days, prices, ceilings and faults.                               *)
EXTENDS Spend, TLAPS

LEMMA TypeInit == Init => TypeOK
  BY DayAssumption, AmountAssumption, OfAssumption DEF Init, TypeOK, Steps, Locked

LEMMA TypeNext == TypeOK /\ [Next]_vars => TypeOK'
<1> SUFFICES ASSUME TypeOK, [Next]_vars PROVE TypeOK'
  OBVIOUS
<1> USE DayAssumption, AmountAssumption, OfAssumption DEF TypeOK, Steps, Locked
<1>1. ASSUME NEW p \in Process, Start(p) PROVE TypeOK'
  BY <1>1 DEF Start
<1>2. ASSUME NEW p \in Process, Crash(p) PROVE TypeOK'
  BY <1>2 DEF Crash, Fault
<1>3. CASE Tick BY <1>3 DEF Tick
<1>4. ASSUME NEW c \in Caller, Ask(c) PROVE TypeOK'
  BY <1>4 DEF Ask, Goto
<1>5. ASSUME NEW c \in Caller, Lock(c) PROVE TypeOK'
  BY <1>5 DEF Lock, Goto
<1>6. ASSUME NEW c \in Caller, Load(c) PROVE TypeOK'
  BY <1>6 DEF Load, Goto
<1>7. ASSUME NEW c \in Caller, Refuse(c) PROVE TypeOK'
  BY <1>7 DEF Refuse, Return
<1>8. ASSUME NEW c \in Caller, Create(c) PROVE TypeOK'
  BY <1>8 DEF Create, Goto
<1>9. ASSUME NEW c \in Caller, Grant(c) PROVE TypeOK'
  BY <1>9 DEF Grant, Return
<1>10. ASSUME NEW c \in Caller, Fail(c) PROVE TypeOK'
  BY <1>10 DEF Fail, Return, Fault
<1>11. CASE UNCHANGED vars BY <1>11 DEF vars
<1>12. QED
  BY <1>1, <1>2, <1>3, <1>4, <1>5, <1>6, <1>7, <1>8, <1>9, <1>10, <1>11 DEF Next

\* TypeOK holds for every instance: no handler loses or leaks the mutex.
THEOREM TypeCorrect == Spec => []TypeOK
BY TypeInit, TypeNext, PTL DEF Spec

-----------------------------------------------------------------------------
\* The cached total never exceeds what is stored, and a handler about to check
\* or past it works on the day it read.
CacheInv ==
    /\ \A p \in live : day[p] # None => total[p] <= reserved[day[p]]
    /\ \A c \in Caller :
        /\ pc[c] # "idle" => Of[c] \in live
        /\ pc[c] \in {"checking", "created"} => day[Of[c]] = now[c]
        /\ pc[c] = "created" => total[Of[c]] + Price <= reserved[now[c]]

LEMMA CacheInit == Init => CacheInv
  BY DEF Init, CacheInv

LEMMA CacheNext == TypeOK /\ CacheInv /\ [Next]_vars => CacheInv'
<1> SUFFICES ASSUME TypeOK, CacheInv, [Next]_vars PROVE CacheInv'
  OBVIOUS
<1> USE DayAssumption, AmountAssumption, OfAssumption DEF TypeOK, CacheInv, Steps, Locked
<1>1. ASSUME NEW p \in Process, Start(p) PROVE CacheInv'
  BY <1>1 DEF Start
<1>2. ASSUME NEW p \in Process, Crash(p) PROVE CacheInv'
  BY <1>2 DEF Crash, Fault
<1>3. CASE Tick BY <1>3 DEF Tick
<1>4. ASSUME NEW c \in Caller, Ask(c) PROVE CacheInv'
  BY <1>4 DEF Ask, Goto
<1>5. ASSUME NEW c \in Caller, Lock(c) PROVE CacheInv'
  BY <1>5 DEF Lock, Goto
<1>6. ASSUME NEW c \in Caller, Load(c) PROVE CacheInv'
  BY <1>6 DEF Load, Goto
<1>7. ASSUME NEW c \in Caller, Refuse(c) PROVE CacheInv'
  BY <1>7 DEF Refuse, Return
<1>8. ASSUME NEW c \in Caller, Create(c) PROVE CacheInv'
  BY <1>8 DEF Create, Goto
<1>9. ASSUME NEW c \in Caller, Grant(c) PROVE CacheInv'
  BY <1>9 DEF Grant, Return
<1>10. ASSUME NEW c \in Caller, Fail(c) PROVE CacheInv'
  BY <1>10 DEF Fail, Return, Fault
<1>11. CASE UNCHANGED vars BY <1>11 DEF vars
<1>12. QED
  BY <1>1, <1>2, <1>3, <1>4, <1>5, <1>6, <1>7, <1>8, <1>9, <1>10, <1>11 DEF Next

\* A refusal is never the work of a stale total, even when processes overlap.
THEOREM RefusalsSound == Spec => RefusedOnlyAtCeiling
<1>1. TypeOK /\ CacheInv /\ [Next]_vars
        => [\A c \in Caller : pc[c] = "checking" /\ pc'[c] = "idle" /\ faults' = faults
                => reserved[now[c]] + Price > Ceiling]_vars
  <2> SUFFICES ASSUME TypeOK, CacheInv, Next, NEW c \in Caller,
                      pc[c] = "checking", pc'[c] = "idle", faults' = faults
               PROVE  reserved[now[c]] + Price > Ceiling
    BY DEF vars
  <2>1. Refuse(c)
    <3> USE DEF TypeOK
    <3>1. ASSUME NEW p \in Process, Start(p) PROVE FALSE
      BY <3>1 DEF Start
    <3>2. ASSUME NEW p \in Process, Crash(p) PROVE FALSE
      BY <3>2 DEF Crash, Fault
    <3>3. CASE Tick
      BY <3>3 DEF Tick
    <3>4. ASSUME NEW d \in Caller, Ask(d) \/ Lock(d) \/ Load(d) \/ Create(d) PROVE FALSE
      BY <3>4 DEF Ask, Lock, Load, Create, Goto
    <3>5. ASSUME NEW d \in Caller, Grant(d) PROVE FALSE
      BY <3>5 DEF Grant, Return
    <3>6. ASSUME NEW d \in Caller, Fail(d) PROVE FALSE
      BY <3>6 DEF Fail, Fault
    <3>7. ASSUME NEW d \in Caller, Refuse(d) PROVE d = c
      BY <3>7 DEF Refuse, Return
    <3>8. QED BY <3>1, <3>2, <3>3, <3>4, <3>5, <3>6, <3>7 DEF Next
  <2>2. ~Fits(Of[c])
    BY <2>1 DEF Refuse
  <2>3. total[Of[c]] <= reserved[now[c]]
    BY OfAssumption DEF TypeOK, CacheInv, Locked
  <2>4. QED
    BY <2>2, <2>3, OfAssumption, AmountAssumption DEF Fits, TypeOK, Locked
<1>2. QED BY <1>1, TypeInit, TypeNext, CacheInit, CacheNext, PTL DEF Spec, RefusedOnlyAtCeiling

-----------------------------------------------------------------------------
\* One process at a time: what was granted on the cached day is in the total,
\* and what is about to be granted still fits.
GrantInv ==
    /\ \A p, q \in live : p = q
    /\ ReservedBeforeCall
    /\ CeilingHolds
    /\ \A p \in live : day[p] # None => granted[day[p]] <= total[p]
    /\ \A c \in Caller : pc[c] = "created" => Fits(Of[c])

LEMMA GrantInit == Init => GrantInv
  BY AmountAssumption DEF Init, GrantInv, ReservedBeforeCall, CeilingHolds

LEMMA GrantNext ==
    ASSUME ~Overlap
    PROVE  TypeOK /\ CacheInv /\ GrantInv /\ [Next]_vars => GrantInv'
<1> SUFFICES ASSUME TypeOK, CacheInv, GrantInv, [Next]_vars PROVE GrantInv'
  OBVIOUS
<1> USE DayAssumption, AmountAssumption, OfAssumption
    DEF TypeOK, CacheInv, GrantInv, ReservedBeforeCall, CeilingHolds, Steps, Locked, Fits
<1>1. ASSUME NEW p \in Process, Start(p) PROVE GrantInv'
  BY <1>1 DEF Start
<1>2. ASSUME NEW p \in Process, Crash(p) PROVE GrantInv'
  BY <1>2 DEF Crash, Fault
<1>3. CASE Tick BY <1>3 DEF Tick
<1>4. ASSUME NEW c \in Caller, Ask(c) PROVE GrantInv'
  BY <1>4 DEF Ask, Goto
<1>5. ASSUME NEW c \in Caller, Lock(c) PROVE GrantInv'
  BY <1>5 DEF Lock, Goto
<1>6. ASSUME NEW c \in Caller, Load(c) PROVE GrantInv'
  BY <1>6 DEF Load, Goto
<1>7. ASSUME NEW c \in Caller, Refuse(c) PROVE GrantInv'
  BY <1>7 DEF Refuse, Return
<1>8. ASSUME NEW c \in Caller, Create(c) PROVE GrantInv'
  BY <1>8 DEF Create, Goto
<1>9. ASSUME NEW c \in Caller, Grant(c) PROVE GrantInv'
  BY <1>9 DEF Grant, Return
<1>10. ASSUME NEW c \in Caller, Fail(c) PROVE GrantInv'
  BY <1>10 DEF Fail, Return, Fault
<1>11. CASE UNCHANGED vars BY <1>11 DEF vars
<1>12. QED
  BY <1>1, <1>2, <1>3, <1>4, <1>5, <1>6, <1>7, <1>8, <1>9, <1>10, <1>11 DEF Next

\* With one process at a time, no sequence of restarts, failed writes, crashes
\* and clock changes lets the calls of one day cost more than the ceiling.
THEOREM CeilingKept == ASSUME ~Overlap PROVE Spec => []CeilingHolds
<1>1. TypeOK /\ CacheInv /\ GrantInv /\ [Next]_vars => GrantInv' BY GrantNext
<1>2. Spec => []GrantInv
  BY <1>1, TypeInit, TypeNext, CacheInit, CacheNext, GrantInit, PTL DEF Spec
<1>3. GrantInv => CeilingHolds BY DEF GrantInv
<1>4. QED BY <1>2, <1>3, PTL

\* Under the same assumption, no call is allowed that is not reserved first.
THEOREM CallsReserved == ASSUME ~Overlap PROVE Spec => []ReservedBeforeCall
<1>1. TypeOK /\ CacheInv /\ GrantInv /\ [Next]_vars => GrantInv' BY GrantNext
<1>2. Spec => []GrantInv
  BY <1>1, TypeInit, TypeNext, CacheInit, CacheNext, GrantInit, PTL DEF Spec
<1>3. GrantInv => ReservedBeforeCall BY DEF GrantInv
<1>4. QED BY <1>2, <1>3, PTL
=============================================================================
