------------------------------ MODULE SheetRows ------------------------------
(***************************************************************************)
(* The parsers of price lists that write one good per row                  *)
(* (src/src/parsers/schedule-parsers): an operator gives the goods a row   *)
(* makes, none when the parser skips it.  A row holds the cells the parser *)
(* reads, as the numbers its parseFloat or parseInt gives; header rows are *)
(* left out.  ScheduleImport models how the goods are written.             *)
(***************************************************************************)
EXTENDS PriceBands, FiniteSetsExt, Functions

\* positron.parser.ts: a retail price and two wholesale ones, which start at
\* the quantities of two further columns.
Positron(row) ==
    LET prices == {b \in {Band(row.price1, 1, IF More(row.min2, 1) THEN row.min2 - 1 ELSE 0),
                          Band(row.price2, row.min2,
                               IF More(row.min3, row.min2) THEN row.min3 - 1 ELSE 0),
                          Band(row.price3, row.min3, 0)} :
                     IsPositive(b.value) /\ IsPositive(b.min)}
    IN  When(Truthy(row.code) /\ IsPositive(row.quantity) /\ prices # {},
             Good(row.code, {Warehouse("CENTER", row.quantity, 1, prices)}))

\* unisvs.parser.ts: a price and, from nextCount pieces, the next one.
UniSvs(row) ==
    LET prices == {Band(row.price, 1, IF Truthy(row.nextCount) THEN row.nextCount - 1 ELSE 0)}
                    \cup When(Truthy(row.nextCount), Band(row.nextPrice, row.nextCount, 0))
    IN  When(Truthy(row.code) /\ Truthy(row.quantity),
             Good(row.code, {Warehouse("CENTER", row.quantity, 1, prices)}))

\* esk.parser.ts: five prices, each with its quantity.
Esk(row) ==
    {Good(row.code, {Warehouse("CENTER", row.quantity, 1,
        {Band(row.price[i], row.min[i], IF i = 5 THEN 0 ELSE Minus(row.min[i + 1], 1)) :
            i \in 1..5})})}

(***************************************************************************)
(* rct.parser.ts: three prices with 2% added, in hundredths of the price   *)
(* list's unit.  The second starts at three multiples, the third where a   *)
(* purchase comes to 204, rounded up to a multiple and not before five.    *)
(***************************************************************************)
RctPrice(cell) == 102 * Fallback(cell, 0)

RctNext(multiple, price2, price3) ==
    LET next == Larger(Round(20400, price2), 5 * multiple)
    IN  CASE price2 = 0 -> NaN
          [] price2 # 0 /\ price3 = 0 -> 0
          [] OTHER -> multiple * Ceil(next, multiple)

Rct(row) ==
    LET multiple == Fallback(row.multiple, 1)
        price1 == RctPrice(row.price1)
        price2 == RctPrice(row.price2)
        price3 == RctPrice(row.price3)
        next == RctNext(multiple, price2, price3)
        prices == {b \in {Band(price1, multiple, IF price2 = 0 THEN 0 ELSE 2 * multiple),
                          Band(price2, 3 * multiple,
                               IF next = 0 THEN 0 ELSE Minus(next, multiple)),
                          Band(price3, next, 0)} : b.value # 0}
    IN  When(Truthy(row.code),
             Good(row.code,
                  When(Truthy(row.quantity), Warehouse("CENTER", row.quantity, multiple, prices))
                    \cup When(Truthy(row.transit) /\ row.dated,
                              Warehouse("TRANSIT", row.transit, multiple, prices))))

----------------------------------------------------------------------------
\* The lists with one price per good.
Single(row, min, max) ==
    Good(row.code, {Warehouse("CENTER", row.quantity, 1, {Band(row.price, min, max)})})

\* kulibin.parser.ts: an empty or zero cell is no quantity, "0 pieces" is one.
CleanQuantity(row) == IF row.quantity = 0 /\ ~row.unit THEN NaN ELSE row.quantity

Kulibin(row) ==
    When(row.code # NaN /\ CleanQuantity(row) # NaN /\ row.price # NaN, Single(row, 1, 0))

Diamant(row) ==
    When(Truthy(row.code) /\ row.quantity # NaN /\ Truthy(row.price), Single(row, 1, 0))

Elsin(row) ==
    When(Truthy(row.code) /\ row.quantity # NaN /\ Truthy(row.price),
         Single(row, Or(row.minQty, 1), Or(row.maxQty, 0)))

Trigger(row) ==
    When(/\ Truthy(row.code)
         /\ row.quantity # NaN /\ row.quantity >= 0
         /\ IsPositive(row.price), Single(row, 1, 0))

Beltrix(row) ==
    When(Truthy(row.code) /\ IsPositive(row.quantity) /\ IsPositive(row.price), Single(row, 1, 0))

\* dan.parser.ts: a buying and an ordinary price.
Dan(row) ==
    When(row.code # NaN,
         Good(row.code, {Warehouse("CENTER", row.quantity, 1,
             {Band(row.price, 1, 0), Ordinary(Band(row.ordinaryPrice, 1, 0))})}))

Istochnik(row) ==
    {Good(row.code, {Warehouse("CENTER", row.quantity, row.minSalePack,
                               {Band(row.price, row.minSalePack, 0)})})}

\* triatron.parser.ts: reserves are taken off the stock and off the transit.
Triatron(row) ==
    LET multiple == Fallback(row.multiple, 1)
        prices == {Band(Fallback(row.price, 0), multiple, 0)}
        center == Fallback(row.quantity, 0) - Fallback(row.minus, 0)
        transit == Fallback(row.wayQuantity, 0) - Fallback(row.wayMinus, 0)
    IN  When(Truthy(row.code),
             Good(row.code, When(center > 0, Warehouse("CENTER", center, multiple, prices))
                              \cup When(transit > 0, Warehouse("TRANSIT", transit, multiple, prices))))

(***************************************************************************)
(* mars.parser.ts: stock, transit and packs are counted in pieces or in    *)
(* thousands, and so is the price; it is held in thousandths.  The pack    *)
(* cell is "a" or "a/b", its first part being the multiple.                *)
(***************************************************************************)
Mars(row) ==
    LET piece == IF row.inPieces THEN 1 ELSE 1000
        multiple == IF row.split THEN Times(row.pack, piece) ELSE Or(Times(row.pack, piece), 1)
        prices == {Band((row.price * 1000) \div piece, multiple, 0)}
    IN  When(Truthy(row.code) /\ Truthy(row.price),
             Good(row.code,
                  When(IsPositive(row.quantity),
                       Warehouse("CENTER", Times(row.quantity, piece), multiple, prices))
                    \cup When(IsPositive(row.transit),
                              Warehouse("TRANSIT", Times(row.transit, piece), multiple, prices))))

(***************************************************************************)
(* compel.dbf.parser.ts: up to six of the eight steps of a row.            *)
(***************************************************************************)
CompelPrices(row) ==
    LET kept == {i \in 1..6 : i = 1 \/ row.qty[i] # 0 \/ row.price[i] > row.price[i - 1]}
    IN  {Band(row.price[i], row.qty[i],
              IF i = Cardinality(kept) THEN 0 ELSE Or(row.qty[i + 1] - row.moq, row.moq)) :
            i \in kept}

CompelDbf(row) ==
    {Good(row.code, {Warehouse("CENTER", row.quantity, row.moq, CompelPrices(row))})}

(***************************************************************************)
(* ru.electronics.parser.ts: the stock in packs of several sizes, each its *)
(* own warehouse; packs of one size are added up.  norma is the number of  *)
(* pieces in a pack and quant the number of packs.                         *)
(***************************************************************************)
RuelPacks(packets) ==
    LET valid == {i \in DOMAIN packets : IsPositive(packets[i].norma) /\ IsPositive(packets[i].quant)}
        pieces == [i \in valid |-> packets[i].norma * packets[i].quant]
    IN  {[norma |-> n,
          quantity |-> SumFunctionOnSet(pieces, {i \in valid : packets[i].norma = n})] :
            n \in {packets[i].norma : i \in valid}}

RuelPrices(row, multiple) ==
    {b \in {Ordinary(Band(row.price, multiple, multiple * 3 - 1)),
            Ordinary(Band(row.optprice, multiple * 3, 0)),
            Band(row.vipprice, multiple, 0)} : IsPositive(b.value)}

RuElectronics(row) ==
    LET packs == RuelPacks(row.packets)
        stock == IF packs # {} THEN packs
                 ELSE When(Truthy(row.quant), [norma |-> 1, quantity |-> row.quant])
        smallest(pack) == \A other \in stock : pack.norma <= other.norma
        arrives == Or(row.normaArrives, 1)
        warehouses ==
            {Warehouse(IF smallest(p) THEN <<"CENTER">> ELSE <<"CENTER", p.norma>>,
                       p.quantity, p.norma, RuelPrices(row, p.norma)) : p \in stock}
              \cup When(Truthy(row.arrived),
                        Warehouse(<<"ARRIVED">>, row.arrived, arrives, RuelPrices(row, arrives)))
              \cup When(Truthy(row.arrives),
                        Warehouse(<<"TRANSIT">>, row.arrives, arrives, RuelPrices(row, arrives)))
              \cup When(Truthy(row.industry),
                        Warehouse(<<"PRODUCED">>, row.industry, 1, RuelPrices(row, 1)))
    IN  {Good(row.code, {w \in warehouses : w.prices # {}})}
=============================================================================
