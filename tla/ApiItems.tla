------------------------------ MODULE ApiItems ------------------------------
(***************************************************************************)
(* parseResponse of the API parsers (src/src/parsers/api-parsers): an      *)
(* operator gives the good an item of an answer makes.  A step of a price  *)
(* list holds a quantity and a price; the numbers are those parseInt and   *)
(* parseFloat give.  ApiParser models when an answer is asked for.         *)
(***************************************************************************)
EXTENDS PriceBands, SequencesExt

CONSTANT Scale   \* promelec's prices are held in fractions 1/Scale of a unit

\* A fault: a band ends where the next one starts.
RisingOverlapping(steps) ==
    {Band(steps[i].price, steps[i].quant,
          IF i = Len(steps) THEN 0 ELSE steps[i + 1].quant) : i \in DOMAIN steps}

\* The bands of a rising sequence of steps, each up to the next one.
Rising(steps) ==
    {Band(steps[i].price, steps[i].quant,
          IF i = Len(steps) THEN 0 ELSE steps[i + 1].quant - 1) : i \in DOMAIN steps}

(***************************************************************************)
(* promelec.parser.ts: the lower bounds are raised to the minimal order,   *)
(* prices are for priceUnit pieces (held in 1/Scale), one with vendors has *)
(* ordinary prices too, and prices that are not positive are dropped.      *)
(***************************************************************************)
ParsePrices(steps, item) ==
    LET per(price) == Times(price, Scale) \div Fallback(item.priceUnit, 1)
        band(i, price) ==
            Band(per(price),
                 IF More(item.moq, steps[i].quant) THEN item.moq ELSE steps[i].quant,
                 IF i = Len(steps) THEN 0 ELSE steps[i + 1].quant - 1)
        buying == {band(i, steps[i].price) : i \in {n \in DOMAIN steps : IsPositive(steps[n].price)}}
        ordinary == {Ordinary(band(i, steps[i].pureprice)) :
                        i \in {n \in DOMAIN steps : IsPositive(steps[n].pureprice)}}
    IN  buying \cup IF item.hasVendors THEN ordinary ELSE {}

Promelec(item) ==
    Good(item.code,
         {Warehouse(<<"CENTER">>, item.quant, Fallback(item.quantUnit, 1),
                    ParsePrices(item.pricebreaks, item))}
           \cup {Warehouse(<<"Vendor", v.vendor>>, v.quant, Fallback(v.mpq, 1),
                           ParsePrices(v.pricebreaks, v)) : v \in item.vendors})

(***************************************************************************)
(* platan.parser.ts: the wholesale answer gives the buying prices and the  *)
(* lower bounds, the retail answer for the same code the ordinary prices   *)
(* and their upper bounds.                                                 *)
(***************************************************************************)
PlatanPrices(item, retail) ==
    LET least == Or(item.minSoSkl, 1)
        band(source, i) == Band(source.steps[i].price, Larger(least, item.steps[i].quant),
                                IF i = 5 THEN 0 ELSE source.steps[i + 1].quant - 1)
    IN  {band(item, i) : i \in 1..5} \cup {Ordinary(band(retail, i)) : i \in 1..5}

Platan(item, retail) ==
    LET prices == PlatanPrices(item, retail)
        multiple == Or(item.kratnost, 1)
    IN  Good(item.code,
             When(Truthy(item.quanty), Warehouse("CENTER", item.quanty, multiple, prices))
               \cup When(Truthy(item.prihod), Warehouse("TRANSIT", item.prihod, multiple, prices)))

\* compel.parser.ts: the bands come with their bounds; a location without a
\* quantity takes the last of its price records for one, which is no number.
Compel(item) ==
    Good(item.code,
         {Warehouse(l.location,
                    Fallback(l.vendQty, IF l.priceQty # <<>> THEN NaN ELSE 0),
                    l.mpq,
                    {Band(p.price, p.min, p.max) : p \in Range(l.priceQty)}) :
            l \in item.locations})

RadiodetaliCom(item) ==
    Good(item.code,
         {Warehouse("CENTER", item.qty, Fallback(item.pRate, 1), Rising(item.steps))})

\* elitan.parser.ts: the steps come from the largest quantity down.
Elitan(item) ==
    Good(item.code,
         {Warehouse(w.stockId, w.stock, Or(w.pack, 1),
                    {Band(w.steps[i].price, w.steps[i].quant,
                          IF i = 1 THEN 0 ELSE w.steps[i - 1].quant - 1) :
                        i \in DOMAIN w.steps}) : w \in item.stock})

\* getchips.parser.ts: bands that end below the minimal order are dropped,
\* and so are bands of a single quantity.
GetchipsPrices(item) ==
    {b \in {[band EXCEPT !.min = Larger(band.min, item.minq)] : band \in Rising(item.steps)} :
        b.min < b.max \/ b.max = 0}

Getchips(item) ==
    Good(item.code,
         {Warehouse(item.donor, item.quantity, item.foldDivision, GetchipsPrices(item))})
=============================================================================
