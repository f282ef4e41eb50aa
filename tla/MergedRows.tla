----------------------------- MODULE MergedRows -----------------------------
(***************************************************************************)
(* The parsers that collect the rows of one code before they make its good *)
(* (src/src/parsers).  What is held is a function from codes to an item,   *)
(* None for a code no row has brought yet; an operator adds a row to it    *)
(* and another one makes the good of an item.                              *)
(***************************************************************************)
EXTENDS PriceBands

CONSTANT None

ASSUME NoneAssumption == None # NaN /\ None \notin Int

(***************************************************************************)
(* fulcrum.parser.ts: prices are in kopecks.  Of the rows of one product   *)
(* and manufacturer the one with the largest quantity is kept.  Wholesale  *)
(* starts at ten pieces or at 1000 roubles, but not below two pieces.      *)
(***************************************************************************)
FulcrumValid(row) == Truthy(row.product) /\ IsPositive(row.quantity) /\ IsPositive(row.price)

FulcrumHeld(held, row) ==
    IF /\ FulcrumValid(row)
       /\ held[row.code] = None \/ More(row.quantity, held[row.code].quantity)
    THEN [held EXCEPT ![row.code] = row]
    ELSE held

\* A fault: a sum just below 1000 roubles is wholesale.
FulcrumOptMinFloor(price) == Larger(2, Smaller(10, 100000 \div price))

FulcrumOptMin(price) == Larger(2, Smaller(10, Ceil(100000, price)))

BuildFulcrumPrices(row) ==
    IF Truthy(row.priceOpt)
    THEN {Band(row.price, 1, FulcrumOptMin(row.price) - 1),
          Band(row.priceOpt, FulcrumOptMin(row.price), 0)}
    ELSE {Band(row.price, 1, 0)}

Fulcrum(code, row) == Good(code, {Warehouse("CENTER", row.quantity, 1, BuildFulcrumPrices(row))})

(***************************************************************************)
(* microem.parser.ts: the first row is left out, and of the rows of one    *)
(* code the one with the largest quantity is kept; prices are in ten-      *)
(* thousandths.                                                            *)
(***************************************************************************)
MicroemValid(index, row) == index > 0 /\ row.quantity # NaN

\* A fault: the last row of a code is kept.
MicroemHeldLast(held, index, row) ==
    IF MicroemValid(index, row) THEN [held EXCEPT ![row.code] = row] ELSE held

MicroemHeld(held, index, row) ==
    IF /\ MicroemValid(index, row)
       /\ held[row.code] = None \/ More(row.quantity, held[row.code].quantity)
    THEN [held EXCEPT ![row.code] = row]
    ELSE held

Microem(code, row) ==
    Good(code, {Warehouse("CENTER", row.quantity, 1, {Band(row.price, 1, 0)})})

----------------------------------------------------------------------------
(***************************************************************************)
(* ecomp.parser.ts: the lots of a code are added up, at the lowest price   *)
(* and the nearest term.  Gold rows bring stock and goods on the way, rows *)
(* of GoldOrder what can be ordered.  Prices are in ten-thousandths.       *)
(***************************************************************************)
\* A fault: a further lot replaces the quantity.
MergeLotReplaced(existing, lot) ==
    IF existing = None THEN lot
    ELSE [lot EXCEPT !.price = Smaller(existing.price, lot.price)]

MergeLot(existing, lot) ==
    IF existing = None THEN lot
    ELSE [quantity |-> existing.quantity + lot.quantity,
          price |-> Smaller(existing.price, lot.price),
          weeks |-> Smaller(existing.weeks, lot.weeks)]

Lot(quantity, price, weeks) == [quantity |-> quantity, price |-> price, weeks |-> weeks]

ToNumber(x) == Or(x, 0)

GetItem(held, row, multiple) ==
    IF held[row.code] # None THEN held[row.code]
    ELSE [multiple |-> multiple, stock |-> None, transit |-> None, order |-> None]

GoldPrice(row) == Or(ToNumber(row.salePrice), ToNumber(row.regularPrice))

GoldHeld(held, row) ==
    LET item == GetItem(held, row, Or(ToNumber(row.pack), 1))
        price == GoldPrice(row)
    IN  IF ~Truthy(row.product) \/ price <= 0 THEN held
        ELSE [held EXCEPT ![row.code] =
                [item EXCEPT
                    !.stock = IF ToNumber(row.stock) > 0
                              THEN MergeLot(item.stock, Lot(row.stock, price, 0)) ELSE @,
                    !.transit = IF ToNumber(row.inWay) > 0
                                THEN MergeLot(item.transit, Lot(row.inWay, price, ToNumber(row.weeks)))
                                ELSE @]]

OrderHeld(held, row) ==
    LET item == GetItem(held, row, 1)
    IN  IF \/ ~Truthy(row.product)
           \/ ToNumber(row.price) <= 0
           \/ ToNumber(row.quantity) <= 0
        THEN held
        ELSE [held EXCEPT ![row.code] =
                [item EXCEPT !.order =
                    MergeLot(item.order, Lot(row.quantity, row.price, ToNumber(row.weeks)))]]

\* helpers/vat.ts: the rate of the year and a price with it, rounded to four
\* digits.
VatRate(year) == IF year < 2019 THEN 18 ELSE IF year < 2026 THEN 20 ELSE 22
WithVat(price, rate) == Round(price * (100 + rate), 100)

LotWarehouse(name, lot, multiple, rate) ==
    Warehouse(name, lot.quantity, multiple, {Band(WithVat(lot.price, rate), 1, 0)})

Ecomp(code, item, rate) ==
    Good(code, UNION {When(item.stock # None, LotWarehouse("CENTER", item.stock, item.multiple, rate)),
                      When(item.transit # None, LotWarehouse("TRANSIT", item.transit, item.multiple, rate)),
                      When(item.order # None, LotWarehouse("PRODUCED", item.order, item.multiple, rate))})

----------------------------------------------------------------------------
\* elco.parser.ts, electronica.parser.ts: every row brings one more band for
\* its code, the first one the quantity.
ElcoHeld(held, row) ==
    LET band == Band(row.price, row.min, row.max)
        price == IF row.isInput THEN band ELSE Ordinary(band)
    IN  [held EXCEPT ![row.code] =
            IF @ = None THEN [quantity |-> row.quantity, prices |-> {price}]
            ELSE [@ EXCEPT !.prices = @ \cup {price}]]

Elco(code, item) == Good(code, {Warehouse("CENTER", item.quantity, 1, item.prices)})
=============================================================================
