------------------------------ MODULE GoodStore ------------------------------
(***************************************************************************)
(* The stored goods under concurrent calls of GoodService: imports and     *)
(* keys jobs (createOrUpdate, then setParameters), the catalogue           *)
(* (upsertCatalogBatch), clients that bind their own id to a good (setGood)*)
(* and the cleanup at midnight.  Stock itself is in SupplierStock; here a  *)
(* row is stocked or not.  MongoDB updates one document atomically.        *)
(***************************************************************************)
EXTENDS Integers

CONSTANTS
    Good,    \* pairs of supplier and code
    Client,  \* suppliers with supplierCodes, who may bind
    Param,   \* names of parameters
    Value,   \* their values
    None,    \* no value, no row
    Op       \* concurrent calls

Row == [params : [Param -> Value \cup {None}], bound : SUBSET Client,
        stocked : BOOLEAN, old : BOOLEAN]

ASSUME StoreAssumption == None \notin Row

VARIABLES
    row,     \* [Good -> row of the collection, or None]
    op       \* [Op -> the call, Idle before and after it]

storeVars == <<row, op>>

Parameters == [Param -> Value \cup {None}]

Idle == [at |-> "idle"]

StoreInit ==
    /\ row \in [Good -> {None} \cup
                 {[params |-> [p \in Param |-> None], bound |-> b, stocked |-> TRUE, old |-> FALSE]
                     : b \in {{}} \cup {{c} : c \in Client}}]
    /\ op = [o \in Op |-> Idle]

NewRow(stocked) ==
    [params |-> [p \in Param |-> None], bound |-> {}, stocked |-> stocked, old |-> FALSE]

----------------------------------------------------------------------------
\* createOrUpdate is called with a good of a list or an answer, which has no
\* client's ids, or with one that finish() has read to empty it.
Call(o, g, params, bound, stocked) ==
    /\ op[o] = Idle
    /\ op' = [op EXCEPT ![o] = [at |-> "upsert", good |-> g, params |-> params, bound |-> bound,
                                stocked |-> stocked, insert |-> row[g] = None]]
    /\ UNCHANGED row

CallWithNew(o, g) == \E params \in Parameters, stocked \in BOOLEAN : Call(o, g, params, {}, stocked)

CallWithRancid(o, g) ==
    /\ row[g] # None
    /\ Call(o, g, row[g].params, row[g].bound, FALSE)

\* A fault: goodId is not omitted from the update.
UpdatedWithIds(r, call) ==
    [r EXCEPT !.stocked = call.stocked, !.old = FALSE, !.bound = call.bound]

\* The update: all fields but the code, the supplier, the parameters and goodId.
Updated(r, call) == [r EXCEPT !.stocked = call.stocked, !.old = FALSE]

FindOneAndUpdate(o) ==
    /\ op[o].at = "upsert"
    /\ LET call == op[o]
           g == call.good
           new == IF row[g] = None THEN NewRow(call.stocked) ELSE Updated(row[g], call)
       IN  /\ row' = [row EXCEPT ![g] = new]
           /\ op' = [op EXCEPT ![o] = [at |-> "merge", good |-> g, params |-> call.params,
                                       read |-> new.params]]

\* Two calls for a good without a row both insert it: the unique index lets one
\* of them in, the other rejects (or MongoDB tries it again as an update).
DuplicateKey(o) ==
    /\ op[o].at = "upsert" /\ op[o].insert
    /\ row[op[o].good] # None
    /\ op' = [op EXCEPT ![o] = Idle]
    /\ UNCHANGED row

\* setParameters: those given over those that were read, stored if any differs.
Merged(read, given) == [p \in Param |-> IF given[p] = None THEN read[p] ELSE given[p]]

SetParameters(o) ==
    /\ op[o].at = "merge"
    /\ LET merged == Merged(op[o].read, op[o].params)
           g == op[o].good
       IN  row' = IF merged = op[o].read THEN row
                  ELSE [row EXCEPT ![g].params = merged, ![g].old = FALSE]
    /\ op' = [op EXCEPT ![o] = Idle]

----------------------------------------------------------------------------
\* upsertCatalogBatch, one row: a whole snapshot of the source's fields.
CatalogUpsert(g) ==
    /\ \E params \in Parameters, stocked \in BOOLEAN :
          row' = [row EXCEPT ![g] =
                    [params |-> params, bound |-> IF @ = None THEN {} ELSE @.bound,
                     stocked |-> stocked, old |-> FALSE]]
    /\ UNCHANGED op

\* setGood reads the good; without one it returns false.
SetGood(o, g, c) ==
    /\ op[o] = Idle /\ row[g] # None
    /\ op' = [op EXCEPT ![o] = [at |-> "save", good |-> g, client |-> c, read |-> row[g].bound]]
    /\ UNCHANGED row

\* goodId is a Mixed path: only one that was absent is marked modified, and is
\* stored whole.  The call returns true either way.
Save(o) ==
    /\ op[o].at = "save"
    /\ row' = IF op[o].read # {} THEN row
              ELSE [row EXCEPT ![op[o].good].bound = {op[o].client}, ![op[o].good].old = FALSE]
    /\ op' = [op EXCEPT ![o] = Idle]

\* A row has not been written for CLEANUP_DAYS.
Age(g) ==
    /\ row[g] # None /\ ~row[g].old
    /\ row' = [row EXCEPT ![g].old = TRUE]
    /\ UNCHANGED op

\* clearWarehousesForOldGoods; the update renews updatedAt.
ClearOld(g) ==
    /\ row[g] # None /\ row[g].old
    /\ row' = [row EXCEPT ![g].stocked = FALSE, ![g].old = FALSE]
    /\ UNCHANGED op

StoreNext ==
    \/ \E o \in Op, g \in Good : CallWithNew(o, g) \/ CallWithRancid(o, g)
    \/ \E o \in Op, g \in Good, c \in Client : SetGood(o, g, c)
    \/ \E o \in Op : FindOneAndUpdate(o) \/ DuplicateKey(o) \/ SetParameters(o) \/ Save(o)
    \/ \E g \in Good : CatalogUpsert(g) \/ Age(g) \/ ClearOld(g)

StoreSpec == StoreInit /\ [][StoreNext]_storeVars

----------------------------------------------------------------------------
\* A first binding of g is under way: setGood has read that it has none.
BindingFirst(g) == \E o \in Op : op[o].at = "save" /\ op[o].good = g /\ op[o].read = {}

Bound(g) == IF row[g] = None THEN {} ELSE row[g].bound

(***************************************************************************)
(* The ids that clients bound to a good survive every import, cleanup and  *)
(* catalogue: also the rewriting by finish() of a good it read before the  *)
(* binding.  Only two first bindings at once may cost one of them.         *)
(***************************************************************************)
BindingsSurvive ==
    [][\A g \in Good : ~BindingFirst(g) => Bound(g) \subseteq Bound(g)']_storeVars

----------------------------------------------------------------------------
\* What the proof of it rests on: the types, and that a call that has found or
\* made a row keeps finding it.
OpCall ==
    {Idle}
      \cup [at : {"upsert"}, good : Good, params : Parameters, bound : SUBSET Client,
            stocked : BOOLEAN, insert : BOOLEAN]
      \cup [at : {"merge"}, good : Good, params : Parameters, read : Parameters]
      \cup [at : {"save"}, good : Good, client : Client, read : SUBSET Client]

StoreTypeOK ==
    /\ row \in [Good -> {None} \cup Row]
    /\ op \in [Op -> OpCall]

RowsStay == \A o \in Op : op[o].at \in {"merge", "save"} => row[op[o].good] # None

StoreIInv == StoreTypeOK /\ RowsStay
=============================================================================
