-------------------------- MODULE InventoryProofs --------------------------
(***************************************************************************)
(* The stock invariants of Inventory for any number of callers, any        *)
(* quantities and any stock.                                               *)
(***************************************************************************)
EXTENDS Inventory, TLAPS

\* No call expects, and no success was for, a version the row has not had; a
\* version a call succeeded for is over.  This is what makes the version a lock.
VersionsBehind ==
    \A c \in Callers : expected_version[c] <= version /\ won[c] < version

\* The two unsigned columns bound each other: a statement that fits the one from
\* below fits the other from above.
RowSum == available_stock + reserved_stock = Unsold

IInv ==
    /\ TypeOK
    /\ RowSum
    /\ VersionsBehind
    /\ OneWinnerPerVersion
    /\ CheckStillHolds
    /\ LogExplains

\* The stock that is not sold is a quantity.
LEMMA UnsoldNat == Unsold \in Nat
BY InventoryAssumption DEF Unsold

\* Moving stock that fits keeps the row well typed, its sum and its log
\* (init.sql:269-274, 295-318, 335-340).
LEMMA MoveKeepsRow ==
    ASSUME TypeOK, RowSum, LogExplains,
           NEW change \in Int, MoveFits(change), Move(change)
    PROVE  /\ available_stock' \in 0..Unsold
           /\ reserved_stock' \in 0..Unsold
           /\ logs' \in Seq(LogEntry)
           /\ RowSum'
           /\ LogExplains'
<1> USE InventoryAssumption, UnsoldNat
<1> DEFINE new == available_stock + change
           entry == LogOf(available_stock, new)
<1>1. /\ available_stock \in 0..Unsold
      /\ reserved_stock \in 0..Unsold
      /\ available_stock + reserved_stock = Unsold
      /\ logs \in Seq(LogEntry)
  BY DEF TypeOK, RowSum
<1>2. new >= 0 /\ reserved_stock - change >= 0
  BY DEF MoveFits, Fits
<1>3. /\ available_stock' = new
      /\ reserved_stock' = reserved_stock - change
      /\ logs' = Append(logs, entry)
  BY DEF Move
<1>4. /\ new \in 0..Unsold
      /\ reserved_stock - change \in 0..Unsold
      /\ change \in (-Unsold)..Unsold
      /\ new + (reserved_stock - change) = Unsold
  BY <1>1, <1>2
<1>5. /\ entry.before_stock = available_stock
      /\ entry.after_stock = new
      /\ entry.quantity_change = change
  BY <1>1 DEF LogOf
<1>6. entry \in LogEntry
  <2>1. new - available_stock \in (-Unsold)..Unsold
    BY <1>1, <1>4
  <2>2. (IF new < available_stock THEN 2 ELSE IF new > available_stock THEN 1 ELSE 0)
           \in 0..2
    OBVIOUS
  <2> HIDE DEF new
  <2> QED
    BY <1>1, <1>4, <2>1, <2>2 DEF LogOf, LogEntry
<1>7. logs' \in Seq(LogEntry)
  BY <1>1, <1>3, <1>6
<1>8. RowSum'
  BY <1>3, <1>4 DEF RowSum
<1>9. LogExplains'
  <2> DEFINE n == Len(logs)
  <2>1. n \in Nat /\ Len(logs') = n + 1
    BY <1>1, <1>3, <1>6
  <2>2. \A i \in 1..n : logs'[i] = logs[i]
    BY <1>1, <1>3, <1>6
  <2>3. logs'[n + 1] = entry
    BY <1>1, <1>3, <1>6
  <2>4. available_stock = IF n = 0 THEN Available ELSE logs[n].after_stock
    BY <1>1 DEF LogExplains
  <2>5. ASSUME NEW i \in 1..(n + 1)
        PROVE  /\ logs'[i].before_stock =
                     IF i = 1 THEN Available ELSE logs'[i - 1].after_stock
               /\ logs'[i].after_stock =
                     logs'[i].before_stock + logs'[i].quantity_change
    <3> HIDE DEF n, entry, new
    <3>1. CASE i \in 1..n
      <4>1. i # 1 => i - 1 \in 1..n
        BY <2>1, <3>1
      <4>2. /\ logs[i].before_stock = IF i = 1 THEN Available ELSE logs[i - 1].after_stock
            /\ logs[i].after_stock = logs[i].before_stock + logs[i].quantity_change
        BY <3>1 DEF LogExplains, n
      <4> QED
        BY <2>2, <3>1, <4>1, <4>2
    <3>2. CASE i = n + 1
      <4>1. i # 1 => n \in 1..n /\ n # 0 /\ i - 1 = n
        BY <2>1, <3>2
      <4>2. i = 1 => n = 0
        BY <2>1, <3>2
      <4>3. entry.after_stock = entry.before_stock + entry.quantity_change
        BY <1>5 DEF new
      <4> QED
        BY <1>5, <2>2, <2>3, <2>4, <3>2, <4>1, <4>2, <4>3
    <3> QED
      BY <2>1, <3>1, <3>2
  <2>6. logs' # << >>
    BY <2>1
  <2>7. available_stock' = logs'[Len(logs')].after_stock
    BY <1>3, <1>5, <2>1, <2>3
  <2> HIDE DEF n
  <2> QED
    BY <2>1, <2>5, <2>6, <2>7 DEF LogExplains
<1> HIDE DEF new
<1> QED
  BY <1>3, <1>4, <1>7, <1>8, <1>9

\* The initial row satisfies the invariant (init.sql:51-65).
LEMMA InitInvariant == Init => IInv
<1> USE InventoryAssumption, UnsoldNat
<1> SUFFICES ASSUME Init PROVE IInv
  OBVIOUS
<1>1. TypeOK
  BY DEF Init, TypeOK, Unsold
<1>2. /\ RowSum
      /\ VersionsBehind
      /\ OneWinnerPerVersion
      /\ CheckStillHolds
      /\ LogExplains
  BY DEF Init, RowSum, Unsold, VersionsBehind, OneWinnerPerVersion, CheckStillHolds,
         LogExplains
<1> QED
  BY <1>1, <1>2 DEF IInv

\* A step that leaves the row and the successes alone, and makes no call ready
\* for its UPDATE, keeps what the invariant says beyond the types.
LEMMA RowUntouched ==
    ASSUME IInv, UNCHANGED <<row, won, expected_version>>,
           \A c \in Callers : pc'[c] = "update" => pc[c] = "update"
    PROVE  /\ RowSum'
           /\ VersionsBehind'
           /\ OneWinnerPerVersion'
           /\ CheckStillHolds'
           /\ LogExplains'
<1>1. RowSum' /\ VersionsBehind' /\ OneWinnerPerVersion' /\ LogExplains'
  BY DEF IInv, row, RowSum, VersionsBehind, OneWinnerPerVersion, LogExplains
<1>2. CheckStillHolds'
  BY DEF IInv, row, CheckStillHolds, Matches
<1> QED
  BY <1>1, <1>2

\* Every step of a caller, of the event and of the clock preserves the invariant.
LEMMA NextInvariant == IInv /\ [Next]_vars => IInv'
<1> USE InventoryAssumption, UnsoldNat
<1> SUFFICES ASSUME IInv, [Next]_vars PROVE IInv'
  OBVIOUS
<1>0. TypeOK /\ RowSum /\ LogExplains
  BY DEF IInv
<1>1. ASSUME NEW c \in Callers, ReadVersion(c) PROVE IInv'
  <2>1. TypeOK'
    BY <1>0, <1>1 DEF ReadVersion, TypeOK, row, reservations, event
  <2>2. RowSum' /\ OneWinnerPerVersion' /\ LogExplains'
    BY <1>1 DEF IInv, ReadVersion, row, RowSum, OneWinnerPerVersion, LogExplains
  <2>3. VersionsBehind'
    BY <1>0, <1>1 DEF IInv, TypeOK, ReadVersion, row, VersionsBehind
  <2>4. CheckStillHolds'
    BY <1>0, <1>1 DEF IInv, TypeOK, ReadVersion, row, CheckStillHolds, Matches
  <2> QED
    BY <2>1, <2>2, <2>3, <2>4 DEF IInv
<1>2. ASSUME NEW c \in Callers, CallSelect(c) PROVE IInv'
  <2>1. TypeOK'
    <3>1. /\ UNCHANGED <<available_stock, reserved_stock, version, logs, status,
                         expire_time, updated_at, clock, expected_version, won,
                         phase, last_run>>
          /\ \/ \E result \in {1, 2} : Finish(c, result)
             \/ pc' = [pc EXCEPT ![c] = "update"] /\ UNCHANGED p_result
      BY <1>2 DEF CallSelect, row, reservations, event
    <3>2. pc' \in [Callers -> {"idle", "called", "update", "done", "reserved"}]
      BY <1>0, <3>1 DEF TypeOK, Finish
    <3>3. p_result' \in [Callers -> -1..3]
      <4>1. ASSUME NEW result \in {1, 2}, Finish(c, result)
            PROVE  p_result' \in [Callers -> -1..3]
        BY <1>0, <4>1 DEF TypeOK, Finish
      <4> QED
        BY <1>0, <3>1, <4>1 DEF TypeOK
    <3> QED
      BY <1>0, <3>1, <3>2, <3>3 DEF TypeOK
  <2>2. RowSum' /\ OneWinnerPerVersion' /\ LogExplains' /\ VersionsBehind'
    BY <1>2 DEF IInv, CallSelect, row, RowSum, OneWinnerPerVersion, LogExplains,
                VersionsBehind
  <2>3. CheckStillHolds'
    BY <1>0, <1>2 DEF IInv, TypeOK, CallSelect, Finish, row, CheckStillHolds, Matches
  <2> QED
    BY <2>1, <2>2, <2>3 DEF IInv
<1>3. ASSUME NEW c \in Callers, CallUpdate(c) PROVE IInv'
  <2>1. CASE Matches(c) /\ MoveFits(-Quantity[c])
    <3>1. /\ Move(-Quantity[c])
          /\ version' = version + 1
          /\ won' = [won EXCEPT ![c] = expected_version[c]]
          /\ Finish(c, 0)
          /\ version = expected_version[c]
          /\ UNCHANGED <<status, expire_time, updated_at, clock, expected_version,
                         phase, last_run>>
      BY <1>3, <2>1 DEF CallUpdate, NextVersion, Matches, reservations, event
    <3>2. -Quantity[c] \in Int
      OBVIOUS
    <3>3. /\ available_stock' \in 0..Unsold
          /\ reserved_stock' \in 0..Unsold
          /\ logs' \in Seq(LogEntry)
          /\ RowSum'
          /\ LogExplains'
      BY <1>0, <2>1, <3>1, <3>2, MoveKeepsRow
    <3>4. TypeOK'
      <4>1. pc' \in [Callers -> {"idle", "called", "update", "done", "reserved"}]
        BY <1>0, <3>1 DEF TypeOK, Finish
      <4>2. p_result' \in [Callers -> -1..3]
        BY <1>0, <3>1 DEF TypeOK, Finish
      <4>3. won' \in [Callers -> Nat \cup {-1}]
        BY <1>0, <3>1 DEF TypeOK
      <4> QED
        BY <1>0, <3>1, <3>3, <4>1, <4>2, <4>3 DEF TypeOK
    <3>5. VersionsBehind'
      <4>1. \A d \in Callers : won'[d] = IF d = c THEN version ELSE won[d]
        BY <1>0, <3>1 DEF TypeOK
      <4>2. \A d \in Callers : /\ expected_version[d] \in Nat
                              /\ won[d] \in Int
                              /\ expected_version[d] <= version
                              /\ won[d] < version
        BY <1>0 DEF IInv, TypeOK, VersionsBehind
      <4> QED
        BY <1>0, <3>1, <4>1, <4>2 DEF TypeOK, VersionsBehind
    <3>6. OneWinnerPerVersion'
      <4>1. \A d \in Callers : won'[d] = IF d = c THEN version ELSE won[d]
        BY <1>0, <3>1 DEF TypeOK
      <4>2. \A d \in Callers : won[d] # version
        BY <1>0 DEF IInv, TypeOK, VersionsBehind
      <4>3. OneWinnerPerVersion
        BY DEF IInv
      <4> QED
        BY <4>1, <4>2, <4>3 DEF OneWinnerPerVersion
    <3>7. CheckStillHolds'
      BY <1>0, <3>1 DEF IInv, TypeOK, VersionsBehind, CheckStillHolds, Matches, Finish
    <3> QED
      BY <3>3, <3>4, <3>5, <3>6, <3>7 DEF IInv
  <2>2. CASE ~(Matches(c) /\ MoveFits(-Quantity[c]))
    <3>1. /\ UNCHANGED <<row, won, reservations, clock, expected_version, event>>
          /\ Finish(c, IF Matches(c) THEN -1 ELSE 3)
      BY <1>3, <2>2 DEF CallUpdate, Unmatched
    <3>2. TypeOK'
      BY <1>0, <3>1 DEF TypeOK, Finish, row, reservations, event
    <3>3. \A d \in Callers : pc'[d] = "update" => pc[d] = "update"
      BY <1>0, <3>1 DEF TypeOK, Finish
    <3> QED
      BY <3>1, <3>2, <3>3, RowUntouched DEF IInv
  <2> QED
    BY <2>1, <2>2
<1>4. ASSUME NEW c \in Callers, CallError(c) \/ Retry(c) \/ Reserve(c) PROVE IInv'
  <2>1. TypeOK'
    <3>1. CASE CallError(c)
      BY <1>0, <3>1 DEF CallError, Finish, TypeOK, row, reservations, event
    <3>2. CASE Retry(c)
      BY <1>0, <3>2 DEF Retry, TypeOK, row, reservations, event
    <3>3. CASE Reserve(c)
      BY <1>0, <3>3 DEF Reserve, TypeOK, row, event
    <3> QED
      BY <1>4, <3>1, <3>2, <3>3
  <2>2. \A d \in Callers : pc'[d] = "update" => pc[d] = "update"
    BY <1>0, <1>4 DEF CallError, Retry, Reserve, Finish, TypeOK
  <2>3. UNCHANGED <<row, won, expected_version>>
    BY <1>4 DEF CallError, Retry, Reserve
  <2> QED
    BY <2>1, <2>2, <2>3, RowUntouched DEF IInv
<1>5. ASSUME EventMark \/ Crash \/ Tick PROVE IInv'
  <2>1. TypeOK'
    <3>1. CASE EventMark
      BY <1>0, <3>1 DEF EventMark, TypeOK, row, callvars
    <3>2. CASE Crash
      BY <1>0, <3>2 DEF Crash, TypeOK, row, reservations, callvars
    <3>3. CASE Tick
      BY <1>0, <3>3 DEF Tick, TypeOK, row, reservations, callvars, event
    <3> QED
      BY <1>5, <3>1, <3>2, <3>3
  <2>2. UNCHANGED <<row, won, expected_version, pc>>
    BY <1>5 DEF EventMark, Crash, Tick, callvars
  <2> QED
    BY <2>1, <2>2, RowUntouched DEF IInv
<1>6. ASSUME EventReturn PROVE IInv'
  <2>1. CASE UNCHANGED row
    <3>1. TypeOK'
      BY <1>0, <1>6, <2>1 DEF EventReturn, TypeOK, row, reservations, callvars
    <3>2. UNCHANGED <<row, won, expected_version, pc>>
      BY <1>6, <2>1 DEF EventReturn, callvars
    <3> QED
      BY <3>1, <3>2, RowUntouched DEF IInv
  <2>2. ASSUME NEW c \in Callers, MoveFits(Quantity[c]), Move(Quantity[c]), UNCHANGED version
        PROVE  IInv'
    <3>1. Move(Quantity[c])
      BY <2>2
    <3>2. Quantity[c] \in Int /\ Quantity[c] > 0
      OBVIOUS
    <3>3. /\ available_stock' \in 0..Unsold
          /\ reserved_stock' \in 0..Unsold
          /\ logs' \in Seq(LogEntry)
          /\ RowSum'
          /\ LogExplains'
      BY <1>0, <2>2, <3>1, <3>2, MoveKeepsRow
    <3>4. UNCHANGED <<reservations, clock, callvars, last_run>> /\ phase' = "mark"
      BY <1>6 DEF EventReturn
    <3>5. TypeOK'
      BY <1>0, <2>2, <3>3, <3>4 DEF TypeOK, reservations, callvars
    <3>6. VersionsBehind' /\ OneWinnerPerVersion'
      BY <2>2, <3>4 DEF IInv, VersionsBehind, OneWinnerPerVersion, callvars
    <3>7. available_stock' >= available_stock
      BY <1>0, <3>1, <3>2 DEF Move, TypeOK
    <3>8. CheckStillHolds'
      BY <1>0, <2>2, <3>3, <3>4, <3>7 DEF IInv, TypeOK, CheckStillHolds, Matches, callvars
    <3> QED
      BY <3>3, <3>5, <3>6, <3>8 DEF IInv
  <2> QED
    BY <1>6, <2>1, <2>2 DEF EventReturn, JustExpired
<1>7. CASE UNCHANGED vars
  <2>1. TypeOK'
    BY <1>0, <1>7 DEF TypeOK, vars, row, reservations, callvars, event
  <2> QED
    BY <1>7, <2>1, RowUntouched DEF IInv, vars, callvars
<1> QED
  BY <1>1, <1>2, <1>3, <1>4, <1>5, <1>6, <1>7 DEF Next

\* IInv holds in every reachable state.
THEOREM Invariance == Spec => []IInv
BY InitInvariant, NextInvariant, PTL DEF Spec

\* Every reachable state of the tables is well typed; in particular no unsigned
\* column goes below zero or above the stock that is not sold (init.sql:51-65).
THEOREM TypeCorrect == Spec => []TypeOK
BY Invariance, PTL DEF IInv

\* Optimistic locking lets one call through per version (init.sql:253, 274).
THEOREM VersionIsLock == Spec => []OneWinnerPerVersion
BY Invariance, PTL DEF IInv

\* The check on the snapshot holds for the row the UPDATE finds (init.sql:261-274).
THEOREM CheckIsSound == Spec => []CheckStillHolds
BY Invariance, PTL DEF IInv

\* The log accounts for the available stock (init.sql:295-318).
THEOREM LogIsComplete == Spec => []LogExplains
BY Invariance, PTL DEF IInv
=============================================================================
