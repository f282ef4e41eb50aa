---------------------------- MODULE MCPriceService ----------------------------
(***************************************************************************)
(* elcopro asks under its alias with a table of codes for itself, compel   *)
(* and mars; rct has an alias and no table.  mars and rct have no parser.  *)
(***************************************************************************)
EXTENDS PriceService, TLC

CONSTANTS elcopro, compel, mars, rct, i1, i2, i3

MCKnown == elcopro :> {elcopro, compel, mars} @@ rct :> {}

Spent == <<[quantity |-> -1, multiple |-> 0]>>
Stocked == <<[quantity |-> 0, multiple |-> 1], [quantity |-> 4, multiple |-> 5]>>

MCShelves == {<<>>, Spent, Stocked}

\* One kind of request at a time, and rows for it only.
MCInit ==
    /\ Init
    /\ rows[compel] \in {NoOne, {}, {elcopro, rct}} /\ rows[mars] \in {NoOne, {elcopro}}
    /\ rows[elcopro] \in {NoOne, {rct}} /\ rows[rct] \in {NoOne, {}}
    /\ shelf[i2] \in {Unknown, Stocked} /\ shelf[i3] \in {Unknown, Spent}
    /\ \/ \A s \in Supplier : rows[s] = NoOne
       \/ \A i \in Item : shelf[i] = Unknown

MCSpec == MCInit /\ [][Next]_priceVars /\ WF_priceVars(Work)
=============================================================================
