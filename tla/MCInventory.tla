---------------------------- MODULE MCInventory ----------------------------
(***************************************************************************)
(* Inventory with two pieces in stock and three orders, one of them for    *)
(* both pieces.                                                            *)
(***************************************************************************)
EXTENDS Inventory, FiniteSetsExt

CONSTANT Large

MCQuantity == [c \in Callers |-> IF c = Large THEN 2 ELSE 1]

\* The quantities these orders ask for together.
Together(orders) == MapThenSumSet(LAMBDA c : Quantity[c], orders)

\* The orders that were told of a success and have not tried again.
Successful == {c \in Callers : pc[c] \in {"done", "reserved"} /\ p_result[c] = 0}

\* "Protected against overselling" (README.md:14): as long as no reservation has
\* expired, exactly the orders that were told of a success have taken stock, however
\* their snapshots, updates, errors and retries interleave (init.sql:245-286).
SuccessIsTaken ==
    (\A c \in Callers : status[c] # 3) =>
        available_stock = Available - Together(Successful)

\* The quantities of the pending reservations together.
Pending == Together({c \in Callers : status[c] = 0})

\* Reserved stock covers every reservation that is still pending, "accurate
\* stock" (README.md:14).  It fails: the clean-up event returns the stock of one
\* reservation in two runs, at the cost of another (init.sql:335-340).
ReservedBacked == Pending <= reserved_stock
=============================================================================
