----------------------------- MODULE SupplierStock -----------------------------
(***************************************************************************)
(* The rows of one supplier in the goods collection, as createOrUpdate     *)
(* (good.service.ts) writes them.  A write takes its updatedAt when it is  *)
(* launched and reaches MongoDB later, after any other write in flight;    *)
(* it may be rejected.  A good is its stock: the writer whose warehouses   *)
(* it has.  A client's first binding and the cleanup at midnight write the *)
(* same rows.  Time is in ticks, several events of which may be            *)
(* simultaneous.                                                           *)
(***************************************************************************)
EXTENDS Naturals

CONSTANTS
    Code,           \* codes of goods of the supplier
    Absent,         \* no row
    Empty,          \* warehouses = []
    Swept,          \* warehouses = [], by the cleanup at midnight
    Kept,           \* a write that leaves the warehouses alone
    CleanupAge,     \* CLEANUP_DAYS, in ticks
    Horizon         \* bound: the clock stops here

ASSUME StockAssumption ==
    /\ Horizon \in Nat /\ CleanupAge \in Nat
    /\ Absent # Empty /\ Swept \notin {Absent, Empty}

VARIABLES
    now,            \* the clock that updatedAt and startTime are read from
    row,            \* code -> [stock, updatedAt]
    inFlight        \* writes MongoDB has not answered yet

Launched(by, codes, stock) ==
    {[by |-> by, code |-> c, stock |-> stock, at |-> now] : c \in codes}

Launch(by, codes, stock) == inFlight' = inFlight \union Launched(by, codes, stock)

InFlightOf(by) == {w \in inFlight : w.by = by}

\* If the parameters of the good differ from the row's, they are a write of their own.
SetParameters(w) == [w EXCEPT !.stock = Kept, !.at = now]

\* setGood finds the row without ids of clients and saves it with one: the
\* timestamps of the schema renew updatedAt, the warehouses stay.
SaveBinding(by, c) == row[c].stock # Absent /\ Launch(by, {c}, Kept)

\* clearWarehousesForOldGoods, begun at some time t, comes to a row that is still
\* old; the timestamps renew its updatedAt, too.
ClearOldGood(c) ==
    /\ row[c].stock # Absent
    /\ \E t \in 1 .. now :
          /\ row[c].updatedAt + CleanupAge < t
          /\ row' = [row EXCEPT ![c] =
                        [stock |-> IF @.stock = Empty THEN Empty ELSE Swept, updatedAt |-> t]]

\* findOneAndUpdate sets the warehouses and updatedAt.
CreateOrUpdate(w) ==
    /\ row' = [row EXCEPT ![w.code] =
                  [stock |-> IF w.stock = Kept THEN @.stock ELSE w.stock, updatedAt |-> w.at]]
    /\ \/ inFlight' = inFlight \ {w}
       \/ /\ w.stock # Kept
          /\ inFlight' = (inFlight \ {w}) \union {SetParameters(w)}

\* upsertCatalogBatch writes warehouses and parameters at once; of a bulk that
\* fails some writes are rejected.
Upsert(w) ==
    /\ row' = [row EXCEPT ![w.code] = [stock |-> w.stock, updatedAt |-> w.at]]
    /\ inFlight' = inFlight \ {w}

\* Fault: rows as old as the start itself are found too.
RancidOrEqual(startTime) == {c \in Code : row[c].stock # Absent /\ row[c].updatedAt <= startTime}

\* The rows finish() finds: updatedAt { $lt: startTime }.
Rancid(startTime) == {c \in Code : row[c].stock # Absent /\ row[c].updatedAt < startTime}

Tick == now < Horizon /\ now' = now + 1
=============================================================================
