----------------------------- MODULE Inventory -----------------------------
(***************************************************************************)
(* The stock of one product as scripts/sql/init.sql keeps it: procedure    *)
(* DecrementInventory (optimistic locking by version), the trigger that    *)
(* logs every update, and the event that every minute expires reservations *)
(* and returns their stock in a second statement.                          *)
(*                                                                         *)
(* InnoDB's default isolation: the SELECT of a call reads a snapshot, its  *)
(* UPDATE the committed row, under a row lock kept to the COMMIT.  The     *)
(* statements of the event commit one by one.  LEAVE root, whose label the *)
(* script does not declare, is read as leaving the procedure.  The columns *)
(* total_stock and sold_stock are used by no statement but the INSERT.     *)
(***************************************************************************)
EXTENDS Integers, Sequences

CONSTANTS
    Callers,           \* orders; each inserts one reservation if it succeeds
    Quantity,          \* the quantity each of them asks for
    Available,         \* available_stock and reserved_stock of the row as it is
    Reserved,          \* inserted: 900 and 50 of 1000 in the script
    Hold,              \* minutes a reservation is held
    MaxTime,           \* bound on the clock, in minutes
    SignedSubtraction  \* sql_mode has NO_UNSIGNED_SUBTRACTION

ASSUME InventoryAssumption ==
    /\ Quantity \in [Callers -> Nat \ {0}]
    /\ Available \in Nat
    /\ Reserved \in Nat
    /\ Hold \in Nat \ {0}
    /\ MaxTime \in Nat
    /\ SignedSubtraction \in BOOLEAN

VARIABLES
    available_stock, reserved_stock, version,
    logs,          \* inventory_logs
    status,        \* of each reservation: -1 before it is inserted, 0, or 3
    expire_time, updated_at,
    clock,
    pc, expected_version, p_result,
    won,           \* history: the version a successful call was made for, or -1
    phase,         \* the statement the event has to execute next
    last_run       \* the minute of its last run

row == <<available_stock, reserved_stock, version, logs>>
reservations == <<status, expire_time, updated_at>>
callvars == <<pc, expected_version, p_result, won>>
event == <<phase, last_run>>
vars == <<row, reservations, clock, callvars, event>>

\* What is not sold: stock moves only between the two columns.
Unsold == Available + Reserved

LogEntry == [operation_type : 0..2, quantity_change : (-Unsold)..Unsold,
             before_stock : 0..Unsold, after_stock : 0..Unsold]

TypeOK ==
    /\ available_stock \in 0..Unsold
    /\ reserved_stock \in 0..Unsold
    /\ version \in Nat
    /\ logs \in Seq(LogEntry)
    /\ status \in [Callers -> {-1, 0, 3}]
    /\ expire_time \in [Callers -> 0..(MaxTime + Hold)]
    /\ updated_at \in [Callers -> 0..MaxTime]
    /\ clock \in 0..MaxTime
    /\ pc \in [Callers -> {"idle", "called", "update", "done", "reserved"}]
    /\ expected_version \in [Callers -> Nat]
    /\ p_result \in [Callers -> -1..3]
    /\ won \in [Callers -> Nat \cup {-1}]
    /\ phase \in {"mark", "return"}
    /\ last_run \in 0..MaxTime

Init ==
    /\ available_stock = Available
    /\ reserved_stock = Reserved
    /\ version = 0
    /\ logs = << >>
    /\ status = [c \in Callers |-> -1]
    /\ expire_time = [c \in Callers |-> 0]
    /\ updated_at = [c \in Callers |-> 0]
    /\ clock = 0
    /\ pc = [c \in Callers |-> "idle"]
    /\ expected_version = [c \in Callers |-> 0]
    /\ p_result = [c \in Callers |-> 0]
    /\ won = [c \in Callers |-> -1]
    /\ phase = "mark"
    /\ last_run = 0

-----------------------------------------------------------------------------
(* Updating the row *)

\* Mutant: a column may go below zero.
Mut_Fits(n) == TRUE
\* The columns are unsigned: a statement with a result below zero fails.
Fits(n) == n >= 0

\* Mutant: OLD and NEW are exchanged.
Mut_LogOf(old, new) == [operation_type |-> 0, quantity_change |-> new - old,
                        before_stock |-> new, after_stock |-> old]
LogOf(old, new) ==
    [operation_type |-> IF new < old THEN 2 ELSE IF new > old THEN 1 ELSE 0,
     quantity_change |-> new - old, before_stock |-> old, after_stock |-> new]

\* tr_inventory_update_log subtracts unsigned columns too.
TriggerFits(change) == SignedSubtraction \/ change >= 0

\* Moves this much from reserved_stock to available_stock, and logs it.
Move(change) ==
    /\ available_stock' = available_stock + change
    /\ reserved_stock' = reserved_stock - change
    /\ logs' = Append(logs, LogOf(available_stock, available_stock + change))

MoveFits(change) ==
    /\ Fits(available_stock + change)
    /\ Fits(reserved_stock - change)
    /\ TriggerFits(change)

-----------------------------------------------------------------------------
(* DecrementInventory *)

Finish(c, result) ==
    /\ pc' = [pc EXCEPT ![c] = "done"]
    /\ p_result' = [p_result EXCEPT ![c] = result]

\* The caller reads the version it will expect (external).
ReadVersion(c) ==
    /\ pc[c] = "idle"
    /\ pc' = [pc EXCEPT ![c] = "called"]
    /\ expected_version' = [expected_version EXCEPT ![c] = version]
    /\ UNCHANGED <<row, reservations, clock, p_result, won, event>>

\* The SELECT and the two checks on what it read.
CallSelect(c) ==
    /\ pc[c] = "called"
    /\ \/ version # expected_version[c] /\ Finish(c, 1)
       \/ /\ version = expected_version[c]
          /\ available_stock < Quantity[c]
          /\ Finish(c, 2)
       \/ /\ version = expected_version[c]
          /\ available_stock >= Quantity[c]
          /\ pc' = [pc EXCEPT ![c] = "update"]
          /\ UNCHANGED p_result
    /\ UNCHANGED <<row, reservations, clock, expected_version, won, event>>

\* Mutant: the UPDATE matches by product alone.
Mut_Matches(c) == TRUE
Matches(c) == version = expected_version[c]

\* Mutant: the UPDATE leaves the version alone.
Mut_NextVersion == version
NextVersion == version + 1

\* Mutant: an UPDATE that changed no row is taken for a success.
Mut_Unmatched == 0
Unmatched == 3

\* The UPDATE, and COMMIT or ROLLBACK after its row count; one that is out of
\* range goes to the exit handler.
CallUpdate(c) ==
    /\ pc[c] = "update"
    /\ IF Matches(c) /\ MoveFits(-Quantity[c])
       THEN /\ Move(-Quantity[c])
            /\ version' = NextVersion
            /\ won' = [won EXCEPT ![c] = expected_version[c]]
            /\ Finish(c, 0)
       ELSE /\ Finish(c, IF Matches(c) THEN -1 ELSE Unmatched)
            /\ UNCHANGED <<row, won>>
    /\ UNCHANGED <<reservations, clock, expected_version, event>>

\* A deadlock, a lock wait timeout or any other SQLEXCEPTION.
CallError(c) ==
    /\ pc[c] \in {"called", "update"}
    /\ Finish(c, -1)
    /\ UNCHANGED <<row, reservations, clock, expected_version, won, event>>

\* The caller tries again, or inserts its reservation (external).
Retry(c) ==
    /\ pc[c] = "done"
    /\ p_result[c] # 0
    /\ pc' = [pc EXCEPT ![c] = "idle"]
    /\ UNCHANGED <<row, reservations, clock, expected_version, p_result, won, event>>

Reserve(c) ==
    /\ pc[c] = "done"
    /\ p_result[c] = 0
    /\ pc' = [pc EXCEPT ![c] = "reserved"]
    /\ status' = [status EXCEPT ![c] = 0]
    /\ expire_time' = [expire_time EXCEPT ![c] = clock + Hold]
    /\ updated_at' = [updated_at EXCEPT ![c] = clock]
    /\ UNCHANGED <<row, clock, expected_version, p_result, won, event>>

-----------------------------------------------------------------------------
(* cleanup_expired_reservations *)

Expired == {c \in Callers : status[c] = 0 /\ expire_time[c] < clock}

EventMark ==
    /\ phase = "mark"
    /\ last_run < clock
    /\ last_run' = clock
    /\ status' = [c \in Callers |-> IF c \in Expired THEN 3 ELSE status[c]]
    /\ updated_at' = [c \in Callers |-> IF c \in Expired THEN clock ELSE updated_at[c]]
    /\ phase' = "return"
    /\ UNCHANGED <<row, expire_time, clock, callvars>>

JustExpired == {c \in Callers : status[c] = 3 /\ updated_at[c] >= clock - 1}

\* However many reservations join with the row, MySQL updates it once, for one of
\* them; a result out of range undoes the statement.  It does not touch version.
EventReturn ==
    /\ phase = "return"
    /\ phase' = "mark"
    /\ \/ JustExpired = {} /\ UNCHANGED row
       \/ \E c \in JustExpired :
             IF MoveFits(Quantity[c]) THEN Move(Quantity[c]) /\ UNCHANGED version
                                      ELSE UNCHANGED row
    /\ UNCHANGED <<reservations, clock, callvars, last_run>>

\* The server goes down between the two statements of the event.
Crash ==
    /\ phase = "return"
    /\ phase' = "mark"
    /\ UNCHANGED <<row, reservations, clock, callvars, last_run>>

Tick ==
    /\ clock < MaxTime
    /\ clock' = clock + 1
    /\ UNCHANGED <<row, reservations, callvars, event>>

Next ==
    \/ \E c \in Callers : ReadVersion(c)
    \/ \E c \in Callers : CallSelect(c)
    \/ \E c \in Callers : CallUpdate(c)
    \/ \E c \in Callers : CallError(c)
    \/ \E c \in Callers : Retry(c)
    \/ \E c \in Callers : Reserve(c)
    \/ EventMark
    \/ EventReturn
    \/ Crash
    \/ Tick

Spec == Init /\ [][Next]_vars

-----------------------------------------------------------------------------
\* Two calls that expected the same version do not both succeed, although both
\* may have passed the checks on their snapshots (init.sql:253, 274).
OneWinnerPerVersion ==
    \A c, d \in Callers : c # d /\ won[c] # -1 => won[c] # won[d]

\* The stock check is made on a snapshot, but whenever the UPDATE still matches
\* there is enough stock: clean-up, which leaves the version alone, only adds
\* (init.sql:261, 269-274, 335-340).
CheckStillHolds ==
    \A c \in Callers :
        pc[c] = "update" /\ Matches(c) => available_stock >= Quantity[c]

\* The log accounts for the stock: it starts at what the row was inserted with,
\* each entry starts where the one before it ended, and the last ends at
\* available_stock (init.sql:295-318).
LogExplains ==
    /\ \A i \in 1..Len(logs) :
          /\ logs[i].before_stock = IF i = 1 THEN Available ELSE logs[i - 1].after_stock
          /\ logs[i].after_stock = logs[i].before_stock + logs[i].quantity_change
    /\ available_stock = IF logs = << >> THEN Available ELSE logs[Len(logs)].after_stock
=============================================================================
