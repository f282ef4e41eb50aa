----------------------------- MODULE PriceLists -----------------------------
(***************************************************************************)
(* A parser reads the rows of one list, or the items of one answer, and    *)
(* makes goods of them.  Rows[list] is the set of rows the list may bring; *)
(* the parsers of SheetRows and ApiItems make the good of a row by itself, *)
(* those of MergedRows collect the rows of a code.  goods is what would be *)
(* written if the list ended here.                                         *)
(***************************************************************************)
EXTENDS SheetRows, ApiItems, MergedRows

CONSTANTS Rows,       \* a record: the rows each list may bring
          Codes,      \* the codes of goods in the merged lists
          MaxRows,    \* a merged list ends after so many rows
          MaxPacks,   \* quantities are checked up to so many multiples
          Year        \* the year of the parse, which sets the VAT

(***************************************************************************)
(* What the lists and answers hold, as far as the properties rest on it: a *)
(* number or nothing where a cell may be empty, and otherwise numbers.     *)
(* The steps of an answer and the five of esk start at positive            *)
(* quantities, compel's dbf at multiples of the minimal order; vendors and *)
(* stocks of an item have different numbers.                               *)
(***************************************************************************)
Steps == Seq([quant : Count, price : Cell])
FiveSteps == [1..5 -> [quant : Count, price : Cell]]
Breaks == Seq([quant : Count, price : Cell, pureprice : Cell])

ASSUME BoundsAssumption == MaxRows \in Nat /\ MaxPacks \in Nat /\ Year \in Int

ASSUME SheetsAssumption ==
    /\ \A row \in Rows.positron : {row.price1, row.min2, row.price2, row.min3, row.price3} \subseteq Cell
    /\ \A row \in Rows.unisvs : {row.price, row.nextCount, row.nextPrice} \subseteq Cell
    /\ \A row \in Rows.esk : row.min \in [1..5 -> Count] /\ row.price \in [1..5 -> Cell]
    /\ \A row \in Rows.rct :
          row.multiple \in Count \cup {NaN} /\ {row.price1, row.price2, row.price3} \subseteq Cell
    /\ \A row \in Rows.compel :
          /\ row.moq \in Count /\ row.qty \in [1..8 -> Nat] /\ row.price \in [1..8 -> Nat]
          /\ \A i \in 1..8 : row.qty[i] % row.moq = 0
    /\ \A row \in Rows.ruelectronics :
          /\ {row.price, row.optprice, row.vipprice} \subseteq Cell
          /\ row.packets \in Seq([norma : Cell, quant : Cell]) /\ row.normaArrives \in Nat \cup {NaN}

ASSUME AnswersAssumption ==
    /\ Scale \in Count
    /\ \A item \in Rows.promelec :
          /\ item.quantUnit \in Cell
          /\ \A v, other \in item.vendors :
                v.mpq \in Cell /\ (v.vendor = other.vendor => v = other)
          /\ \A v \in item.vendors \cup {item} :
                /\ v.pricebreaks \in Breaks /\ v.moq \in Cell /\ v.hasVendors \in BOOLEAN
                /\ v.priceUnit \in Count \cup {NaN} /\ Scale % Fallback(v.priceUnit, 1) = 0
    /\ \A pair \in Rows.platan :
          /\ pair.item.steps \in FiveSteps /\ pair.retail.steps \in FiveSteps
          /\ {pair.item.minSoSkl, pair.item.kratnost} \subseteq Cell
    /\ \A item \in Rows.radiodetalicom : item.steps \in Steps /\ item.pRate \in Cell
    /\ \A item \in Rows.elitan : \A w, other \in item.stock :
          /\ w.steps \in Steps /\ w.pack \in Cell
          /\ w.stockId = other.stockId => w = other

Lots == [quantity : Int, price : Int, weeks : Int]
Items == [multiple : Int, stock : Lots \cup {None}, transit : Lots \cup {None},
          order : Lots \cup {None}]

ASSUME MergedAssumption ==
    /\ \A row \in Rows.fulcrum :
          row.code \in Codes /\ {row.quantity, row.price, row.priceOpt} \subseteq Cell
    /\ \A row \in Rows.microem : row.code \in Codes /\ row.quantity \in Cell
    /\ \A row \in Rows.ecomp :
          /\ row.code \in Codes /\ row.gold \in BOOLEAN
          /\ IF row.gold
             THEN {row.pack, row.stock, row.inWay, row.regularPrice, row.salePrice, row.weeks}
                    \subseteq Cell
             ELSE {row.quantity, row.price, row.weeks} \subseteq Cell
    /\ None \notin Rows.fulcrum \cup Rows.microem \cup Lots \cup Items

VARIABLES list,    \* the list that is read
          read,    \* the rows read so far
          held,    \* what a merging parser holds for each code
          goods,   \* the goods the parser writes
          tariffs  \* what the last row says its good costs: <<warehouse's name, tariff>>

vars == <<list, read, held, goods, tariffs>>

----------------------------------------------------------------------------
(***************************************************************************)
(* The tariffs of the rows, as a reader of the list understands them: the  *)
(* steps for buying, the steps of ordinary prices where the row has any    *)
(* (ru.electronics counts those in packs), the smallest quantity sold, and *)
(* the quantity from which the parser reads no more steps (zero: none).    *)
(***************************************************************************)
Tariff(buying, retail, from) ==
    [buying |-> buying, retail |-> retail, from |-> from, until |-> 0, inPacks |-> FALSE]
Plain(buying) == Tariff(buying, <<>>, 1)

PositronTariff(row) ==
    Plain(<<Step(1, row.price1), Step(row.min2, row.price2), Step(row.min3, row.price3)>>)
UniSvsTariff(row) == Plain(<<Step(1, row.price), Step(row.nextCount, row.nextPrice)>>)
EskTariff(row) == Plain([i \in 1..5 |-> Step(row.min[i], row.price[i])])

\* The third price holds from the first multiple, not before the fifth, that is not
\* less than 204 over the second price, rounded to whole pieces (at most 20400).
RctThird(m, price2) ==
    m * (CHOOSE c \in 5..20405 :
            /\ (2 * c * m + 1) * price2 > 40800
            /\ c = 5 \/ (2 * (c - 1) * m + 1) * price2 <= 40800)
RctTariff(row) ==
    LET m == Fallback(row.multiple, 1)
        step(min, cell) == IF Truthy(cell) THEN Step(min, 102 * cell) ELSE Step(NaN, NaN)
        price2 == RctPrice(row.price2)
    IN  Plain(<<step(m, row.price1), step(3 * m, row.price2),
                step(IF price2 > 0 THEN RctThird(m, price2) ELSE NaN, row.price3)>>)

\* The parser reads six of the eight steps.
CompelDbfTariff(row) ==
    [Plain([i \in 1..8 |-> Step(row.qty[i], row.price[i])]) EXCEPT !.until = row.qty[7]]
Priced(steps, factor) == [i \in DOMAIN steps |-> Step(steps[i].quant, Times(steps[i].price, factor))]

\* Each vendor of an item has a tariff of its own.
PromelecTariff(item) ==
    LET factor == Scale \div Fallback(item.priceUnit, 1)
    IN  Tariff(Priced(item.pricebreaks, factor),
               IF item.hasVendors
               THEN [i \in DOMAIN item.pricebreaks |->
                        Step(item.pricebreaks[i].quant, Times(item.pricebreaks[i].pureprice, factor))]
               ELSE <<>>,
               Larger(Fallback(item.moq, 1), item.pricebreaks[1].quant))
PromelecTariffs(item) ==
    {<<<<"CENTER">>, PromelecTariff(item)>>}
      \cup {<<<<"Vendor", v.vendor>>, PromelecTariff(v)>> : v \in item.vendors}

\* platan.parser.ts bounds the ordinary bands by two answers: they say what a
\* quantity costs when both have the same steps.
PlatanTariff(item, retail) ==
    Tariff(Priced(item.steps, 1),
           IF \A i \in 1..5 : item.steps[i].quant = retail.steps[i].quant
           THEN Priced(retail.steps, 1) ELSE <<>>,
           Larger(Or(item.minSoSkl, 1), item.steps[1].quant))

ElitanTariffs(item) == {<<w.stockId, Plain(Priced(Reverse(w.steps), 1))>> : w \in item.stock}

RuElectronicsTariff(row) ==
    [Tariff(<<Step(1, row.vipprice)>>, <<Step(1, row.price), Step(3, row.optprice)>>, 1)
        EXCEPT !.inPacks = TRUE]

----------------------------------------------------------------------------
Init ==
    /\ list \in DOMAIN Rows
    /\ read = <<>>
    /\ held = [c \in Codes |-> None]
    /\ goods = {}
    /\ tariffs = {}

\* A row that makes its goods by itself.
Make(row, made, meant) ==
    /\ read' = <<row>>
    /\ goods' = made
    /\ tariffs' = meant
    /\ UNCHANGED <<list, held>>

\* A row whose warehouses all have one tariff.
MakePriced(row, made, meant) ==
    Make(row, made, {w.name : w \in UNION {g.warehouses : g \in made}} \X {meant})

SheetRow ==
    /\ read = <<>>
    /\ \/ list = "positron" /\ \E row \in Rows.positron : MakePriced(row, Positron(row), PositronTariff(row))
       \/ list = "unisvs" /\ \E row \in Rows.unisvs : MakePriced(row, UniSvs(row), UniSvsTariff(row))
       \/ list = "esk" /\ \E row \in Rows.esk : MakePriced(row, Esk(row), EskTariff(row))
       \/ list = "rct" /\ \E row \in Rows.rct : MakePriced(row, Rct(row), RctTariff(row))
       \/ list = "kulibin" /\ \E row \in Rows.kulibin : Make(row, Kulibin(row), {})
       \/ list = "diamant" /\ \E row \in Rows.diamant : Make(row, Diamant(row), {})
       \/ list = "elsin" /\ \E row \in Rows.elsin : Make(row, Elsin(row), {})
       \/ list = "trigger" /\ \E row \in Rows.trigger : Make(row, Trigger(row), {})
       \/ list = "beltrix" /\ \E row \in Rows.beltrix : Make(row, Beltrix(row), {})
       \/ list = "dan" /\ \E row \in Rows.dan : Make(row, Dan(row), {})
       \/ list = "istochnik" /\ \E row \in Rows.istochnik : Make(row, Istochnik(row), {})
       \/ list = "triatron" /\ \E row \in Rows.triatron : Make(row, Triatron(row), {})
       \/ list = "mars" /\ \E row \in Rows.mars : Make(row, Mars(row), {})
       \/ list = "compel" /\ \E row \in Rows.compel : MakePriced(row, CompelDbf(row), CompelDbfTariff(row))
       \/ list = "ruelectronics" /\ \E row \in Rows.ruelectronics :
             MakePriced(row, RuElectronics(row), RuElectronicsTariff(row))

ApiItem ==
    /\ read = <<>>
    /\ \/ list = "promelec" /\ \E item \in Rows.promelec :
             Make(item, {Promelec(item)}, PromelecTariffs(item))
       \/ list = "platan" /\ \E pair \in Rows.platan :
             MakePriced(pair, {Platan(pair.item, pair.retail)}, PlatanTariff(pair.item, pair.retail))
       \/ list = "compelapi" /\ \E item \in Rows.compelapi : Make(item, {Compel(item)}, {})
       \/ list = "radiodetalicom" /\ \E item \in Rows.radiodetalicom :
             MakePriced(item, {RadiodetaliCom(item)}, Plain(Priced(item.steps, 1)))
       \/ list = "elitan" /\ \E item \in Rows.elitan :
             Make(item, {Elitan(item)}, ElitanTariffs(item))
       \/ list = "getchips" /\ \E item \in Rows.getchips : Make(item, {Getchips(item)}, {})

\* A row that is added to what is held of its code.
Collect(row, collected) ==
    /\ read' = Append(read, row)
    /\ held' = collected
    /\ UNCHANGED <<list, tariffs>>

Known(collected) == {c \in Codes : collected[c] # None}

FulcrumRow(row) ==
    /\ Collect(row, FulcrumHeld(held, row))
    /\ goods' = {Fulcrum(c, held'[c]) : c \in Known(held')}

MicroemRow(row) ==
    /\ Collect(row, MicroemHeld(held, Len(read), row))
    /\ goods' = {Microem(c, held'[c]) : c \in Known(held')}

EcompRow(row) ==
    /\ Collect(row, IF row.gold THEN GoldHeld(held, row) ELSE OrderHeld(held, row))
    /\ row.gold => \A i \in DOMAIN read : read[i].gold
    /\ goods' = {Ecomp(c, held'[c], VatRate(Year)) : c \in Known(held')}

ElcoRow(row) ==
    /\ Collect(row, ElcoHeld(held, row))
    /\ goods' = {Elco(c, held'[c]) : c \in Known(held')}

MergedRow ==
    /\ Len(read) < MaxRows
    /\ \/ list = "fulcrum" /\ \E row \in Rows.fulcrum : FulcrumRow(row)
       \/ list = "microem" /\ \E row \in Rows.microem : MicroemRow(row)
       \/ list = "ecomp" /\ \E row \in Rows.ecomp : EcompRow(row)
       \/ list = "elcopro" /\ \E row \in Rows.elcopro : ElcoRow(row)

Next == SheetRow \/ ApiItem \/ MergedRow

Spec == Init /\ [][Next]_vars

----------------------------------------------------------------------------
\* The bands charge what the tariff asks for q, if anything, and only one does.
Charges(bands, steps, q) ==
    /\ {b.value : b \in bands} = Asked(steps, q)
    /\ Cardinality(bands) <= 1

SellsBy(w, tariff) ==
    \A k \in 1..MaxPacks :
        LET q == k * w.multiple
            unit == IF tariff.inPacks THEN w.multiple ELSE 1
            ordinary == {b \in w.prices : b.isOrdinary}
            steps == IF ordinary = {} THEN <<>> ELSE tariff.retail
        IN  q >= tariff.from /\ (tariff.until = 0 \/ q < tariff.until) =>
                /\ Spelled(tariff.buying) => Charges(Charged(w.prices, q), tariff.buying, q)
                /\ Spelled(steps) =>
                     Charges({b \in ordinary : Covers(b, q)}, steps, q \div unit)

(***************************************************************************)
(* When a row spells its tariff out, every quantity a warehouse sells is   *)
(* covered by one band for buying, which charges the step the supplier     *)
(* means, and a quantity below the first step by none; the ordinary bands  *)
(* do the same where a warehouse has any.  It is about the max of a band,  *)
(* which each parser computes from the next step of its list: one piece    *)
(* off, and a quantity has two prices or none.  Exempt are quantities from *)
(* the seventh step of a row of compel on: the parser never charges the    *)
(* steps 7 and 8, and leaves the sixth without an upper bound.             *)
(***************************************************************************)
BandsChargeTheTariff ==
    \A good \in goods : \A w \in good.warehouses : \A pair \in tariffs :
        pair[1] = w.name => SellsBy(w, pair[2])

RowsOf(code, Valid(_)) == {i \in DOMAIN read : read[i].code = code /\ Valid(i)}

(***************************************************************************)
(* In fulcrum's and microem's lists a code comes in several rows.  However *)
(* they are ordered, the list writes each code once, with the largest of   *)
(* its quantities and the price of that row: two writes of one new code    *)
(* would race on the unique index.                                         *)
(***************************************************************************)
DuplicatesCollapse ==
    \A code \in Codes :
        LET Valid(i) == IF list = "fulcrum" THEN FulcrumValid(read[i])
                        ELSE MicroemValid(i - 1, read[i])
            rows == RowsOf(code, Valid)
            written == {g \in goods : g.code = code}
            quantities == {read[i].quantity : i \in rows}
        IN  list \in {"fulcrum", "microem"} =>
                /\ Cardinality(written) = Cardinality({code : i \in rows})
                /\ \A g \in written : \A w \in g.warehouses :
                      /\ w.quantity = Max(quantities)
                      /\ \E i \in rows : /\ read[i].quantity = w.quantity
                                         /\ \E b \in w.prices : b.value = read[i].price

\* What a row brings to one of ecomp's warehouses, and at what price.
LotQuantity(name, row) ==
    CASE name = "CENTER" -> IF row.gold THEN ToNumber(row.stock) ELSE 0
      [] name = "TRANSIT" -> IF row.gold THEN ToNumber(row.inWay) ELSE 0
      [] OTHER -> IF row.gold THEN 0 ELSE ToNumber(row.quantity)
LotPrice(row) == IF row.gold THEN GoldPrice(row) ELSE ToNumber(row.price)

\* The row brings a lot of the code to the warehouse.
Brings(name, code, row) ==
    /\ row.code = code /\ Truthy(row.product)
    /\ LotQuantity(name, row) > 0 /\ LotPrice(row) > 0

(***************************************************************************)
(* No piece is lost or counted twice between the rows and the warehouses:  *)
(* ecomp's lots of a code add up over the rows and sheets that bring them, *)
(* at the lowest of their prices with VAT, and the packs of ru.electronics *)
(* add up over the warehouses, each of which sells by its own pack.        *)
(***************************************************************************)
EcompAddsUp ==
    \A g \in goods : \A w \in g.warehouses :
        LET quantity == [i \in DOMAIN read |-> LotQuantity(w.name, read[i])]
            rows == {i \in DOMAIN read : Brings(w.name, g.code, read[i])}
        IN  /\ w.quantity = SumFunctionOnSet(quantity, rows)
            /\ w.prices = {Band(WithVat(Min({LotPrice(read[i]) : i \in rows}), VatRate(Year)), 1, 0)}

RuelAddsUp ==
    \A g \in goods : \A i \in DOMAIN read :
        LET packets == read[i].packets
            valid == {n \in DOMAIN packets :
                        IsPositive(packets[n].norma) /\ IsPositive(packets[n].quant)}
            stock == {w \in g.warehouses : w.name[1] = "CENTER"}
        IN  valid # {} /\ stock # {} =>
                /\ SumFunctionOnSet([w \in stock |-> w.quantity], stock)
                      = SumFunctionOnSet([n \in valid |-> packets[n].norma * packets[n].quant], valid)
                /\ \A w \in stock : w.quantity % w.multiple = 0
                /\ \A w, v \in stock : w.name = v.name => w = v

StockAddsUp ==
    /\ list = "ecomp" => EcompAddsUp
    /\ list = "ruelectronics" => RuelAddsUp

(***************************************************************************)
(* "Wholesale from ten pieces or from a sum of 1000 roubles, whichever is  *)
(* earlier, but not below two pieces" (fulcrum.parser.ts): of the quantity *)
(* q the band says which price it gets, without the threshold the parser   *)
(* computes by division.                                                   *)
(***************************************************************************)
WholesaleFromTheSum ==
    list = "fulcrum" =>
        \A g \in goods : \A w \in g.warehouses : \A q \in 1..MaxPacks :
            LET row == held[g.code]
                wholesale == Truthy(row.priceOpt) /\ q >= 2 /\ (q >= 10 \/ q * row.price >= 100000)
            IN  {b.value : b \in Charged(w.prices, q)}
                    = {IF wholesale THEN row.priceOpt ELSE row.price}
=============================================================================
