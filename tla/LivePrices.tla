------------------------------ MODULE LivePrices ------------------------------
(***************************************************************************)
(* Live stock and offers of one supplier by its codes (PriceService.live,  *)
(* offers and fetchLive): the rows of the codes are read once, then the    *)
(* supplier is asked for each of them, a few at a time.  What one call of  *)
(* parse() does is in ApiParser; here it gives goods or rejects.           *)
(***************************************************************************)
EXTENDS Integers, FiniteSets, Sequences

CONSTANTS
    Item,      \* the supplier's codes
    Numeric,   \* those that are positive numbers
    Shelves,   \* the warehouses a good may have: sequences of [quantity, multiple]
    Parallel,  \* LIVE_PARALLEL
    MaxCodes,  \* LIVE_MAX_CODES
    Unknown    \* no value: null in an answer, undefined in a good

Warehouses == Shelves \cup {<<>>}

LiveGood(source, code, warehouses) == [source |-> source, code |-> code, warehouses |-> warehouses]

LiveGoods ==
    [source : {"api", "db"}, code : Item \cup {Unknown}, warehouses : Warehouses \cup {Unknown}]

LiveStock == [quantity : Int, multiple : Int, source : {"api", "db"}]

Query == [kind : {"live", "offers"}, hasApi : BOOLEAN, byCode : BOOLEAN, items : SUBSET Item]

ASSUME LiveAssumption ==
    Unknown \notin Warehouses \cup Query \cup LiveGoods \cup LiveStock

\* Quantities and multiples are numbers, of which a warehouse may have fewer
\* than none.
ASSUME ShelfAssumption == Shelves \subseteq Seq([quantity : Int, multiple : Int])

VARIABLES
    query,    \* what is asked, Unknown before
    shelf,    \* [Item -> warehouses of the row in the database, or Unknown]
    read,     \* the goods fetchLive goes through: [item, stored, warehouses]
    todo,     \* those of later waves
    wave,     \* the items asked for now
    found,    \* [Item -> warehouses the supplier gave for it to its own call, or Unknown]
    result    \* [Item -> what is answered for the item]

liveVars == <<query, shelf, read, todo, wave, found, result>>

LiveInit ==
    /\ query = Unknown /\ read = {} /\ todo = {} /\ wave = {}
    /\ shelf \in [Item -> Shelves \cup {Unknown}]
    /\ found = [i \in Item |-> Unknown]
    /\ result = [i \in Item |-> Unknown]

(***************************************************************************)
(* The controller takes up to MaxCodes different codes.  Offers of         *)
(* promelec are asked for by code as well where there is no row.  hasApi   *)
(* says whether the supplier has a parser for the kind.                    *)
(* findBySupplierCodes gives documents of Mongoose (stored), the goods for *)
(* codes without a row are made as plain ones.                             *)
(***************************************************************************)
Ask(kind, hasApi, byCode, items) ==
    /\ query = Unknown
    /\ Cardinality(items) <= MaxCodes
    /\ query' = [kind |-> kind, hasApi |-> hasApi, byCode |-> byCode, items |-> items]
    /\ read' = {[item |-> i, stored |-> TRUE, warehouses |-> shelf[i]] :
                    i \in {j \in items : shelf[j] # Unknown}}
                 \cup IF byCode
                      THEN {[item |-> i, stored |-> FALSE, warehouses |-> <<>>] :
                               i \in {j \in items \cap Numeric : shelf[j] = Unknown}}
                      ELSE {}
    /\ todo' = read'
    /\ UNCHANGED <<shelf, wave, found, result>>

\* new GoodDto({...good, source}): a document has the fields of its row behind
\* getters, which the spread leaves behind, so neither code nor warehouses remain.
FromDb(good) ==
    IF good.stored THEN LiveGood("db", Unknown, Unknown)
    ELSE LiveGood("db", good.item, good.warehouses)

\* A fault: only full chunks are taken.
FullChunk == Parallel

Chunk == IF Cardinality(todo) < Parallel THEN Cardinality(todo) ELSE Parallel

\* A chunk of the goods: the next wave starts when the last one has ended.
NextWave ==
    /\ query # Unknown /\ wave = {} /\ todo # {}
    /\ \E part \in SUBSET todo :
          /\ Cardinality(part) = Chunk
          /\ todo' = todo \ part
          /\ IF query.hasApi
             THEN wave' = part /\ UNCHANGED result
             ELSE /\ result' = [i \in Item |-> IF \E g \in part : g.item = i
                                              THEN FromDb(CHOOSE g \in part : g.item = i)
                                              ELSE result[i]]
                  /\ UNCHANGED wave
    /\ UNCHANGED <<query, shelf, read, found>>

\* A fault: the first good of the answer is taken.
ChosenFirst(item, items, warehouses, fromDb) ==
    IF items # {} THEN LiveGood("api", CHOOSE i \in items : TRUE, warehouses) ELSE fromDb

\* The good of this very code that the supplier itself gave, or the row.
Chosen(item, items, warehouses, fromDb) ==
    IF item \in items THEN LiveGood("api", item, warehouses) ELSE fromDb

\* The call for a good answers with goods of some items, of the supplier or of
\* the database.
Answers(good, source, items, warehouses) ==
    /\ good \in wave
    /\ wave' = wave \ {good}
    /\ found' = IF source = "api" /\ good.item \in items
                THEN [found EXCEPT ![good.item] = warehouses] ELSE found
    /\ result' = [result EXCEPT ![good.item] =
                     IF source = "api" THEN Chosen(good.item, items, warehouses, FromDb(good))
                     ELSE FromDb(good)]
    /\ UNCHANGED <<query, shelf, read, todo>>

\* parse() rejects: the catch keeps the row.
Rejects(good) ==
    /\ good \in wave
    /\ wave' = wave \ {good}
    /\ result' = [result EXCEPT ![good.item] = FromDb(good)]
    /\ UNCHANGED <<query, shelf, read, todo, found>>

\* An import or a keys job writes the row while the supplier is asked.
ShelfChanges(i) ==
    /\ query # Unknown /\ wave # {}
    /\ shelf' \in {[shelf EXCEPT ![i] = w] : w \in Shelves}
    /\ shelf' # shelf
    /\ UNCHANGED <<query, read, todo, wave, found, result>>

Done == query # Unknown /\ todo = {} /\ wave = {}

LiveStep ==
    \/ NextWave
    \/ \E good \in wave : Rejects(good)
    \/ \E good \in wave, source \in {"api", "db"}, items \in SUBSET Item, w \in Shelves :
          Answers(good, source, items, w)

----------------------------------------------------------------------------
\* A fault: always the first warehouse.
FirstWarehouse(warehouses) == 1

\* PriceService.stock: the first warehouse with stock, else the first one.
StockedWarehouse(warehouses) ==
    LET stocked == {n \in DOMAIN warehouses : warehouses[n].quantity > 0}
    IN  IF stocked = {} THEN 1 ELSE CHOOSE n \in stocked : \A k \in stocked : n <= k

AtLeast(x, min) == IF x > min THEN x ELSE min

Stock(good) ==
    IF good.warehouses \in {<<>>, Unknown} THEN Unknown
    ELSE LET warehouse == good.warehouses[StockedWarehouse(good.warehouses)]
         IN  [quantity |-> AtLeast(warehouse.quantity, 0),
              multiple |-> AtLeast(warehouse.multiple, 1), source |-> good.source]

(***************************************************************************)
(* Every code that was asked for is answered with its own good, and null   *)
(* says there is no such code.  "api" is said only of the good of this     *)
(* very code that the supplier itself gave to this call, never of another  *)
(* code of its answer or of stored goods.  Every other answer is the "db"  *)
(* one, which names no stock at all and no other code.                     *)
(***************************************************************************)
AnswersAreTheirOwn ==
    Done => \A i \in query.items :
        /\ (result[i] = Unknown) <=> (\A g \in read : g.item # i)
        /\ result[i] # Unknown =>
             IF result[i].source = "api"
             THEN result[i].code = i /\ found[i] # Unknown /\ result[i].warehouses = found[i]
             ELSE /\ found[i] = Unknown
                  /\ result[i].code \in {i, Unknown} /\ result[i].warehouses \in {<<>>, Unknown}

(***************************************************************************)
(* A basket is told of stock just when the supplier, asked by this very    *)
(* query, gave the code some warehouse with stock, whichever of them is    *)
(* named; it is never told of a negative one, and sells by at least one    *)
(* piece.  Stored goods never count, whatever their rows hold.             *)
(***************************************************************************)
StockIsSellable ==
    Done /\ query.kind = "live" => \A i \in query.items :
        result[i] # Unknown =>
          LET stock == Stock(result[i])
          IN  /\ stock # Unknown => stock.quantity >= 0 /\ stock.multiple >= 1
              /\ (stock # Unknown /\ stock.quantity > 0)
                   <=> (found[i] # Unknown
                         /\ \E n \in DOMAIN found[i] : found[i][n].quantity > 0)

(***************************************************************************)
(* Where the supplier gave nothing for a code, the basket is told of the   *)
(* stock of its row, "API не ответил (парсер вернул базу или пусто) —      *)
(* остаток из суточного файла, source=db" (price.service.spec.ts:98).      *)
(***************************************************************************)
FallbackIsDailyStock ==
    Done /\ query.kind = "live" /\ query.hasApi => \A g \in read :
        found[g.item] = Unknown =>
            Stock(result[g.item]) = Stock(LiveGood("db", g.item, g.warehouses))

----------------------------------------------------------------------------
\* What the proof of AnswersAreTheirOwn rests on: the goods read are of different
\* codes, and each is answered for just when it is neither waiting nor asked for.
LiveTypeOK ==
    /\ query \in Query \cup {Unknown}
    /\ shelf \in [Item -> Shelves \cup {Unknown}]
    /\ read \subseteq [item : Item, stored : BOOLEAN, warehouses : Warehouses]
    /\ todo \subseteq read /\ wave \subseteq read
    /\ found \in [Item -> Shelves \cup {Unknown}]
    /\ result \in [Item -> LiveGoods \cup {Unknown}]

OneRead == \A g, h \in read : g.item = h.item => g = h

\* Only codes without a row are asked for as plain goods, and they have no stock.
PlainAreEmpty == \A g \in read : g.stored \/ g.warehouses = <<>>

AnsweredBy(g) ==
    IF result[g.item].source = "api"
    THEN result[g.item].code = g.item /\ found[g.item] # Unknown
           /\ result[g.item].warehouses = found[g.item]
    ELSE found[g.item] = Unknown /\ result[g.item] = FromDb(g)

ReadInv ==
    \A g \in read :
        IF g \in todo \cup wave THEN result[g.item] = Unknown /\ found[g.item] = Unknown
        ELSE result[g.item] # Unknown /\ AnsweredBy(g)

LiveIInv ==
    /\ LiveTypeOK /\ OneRead /\ PlainAreEmpty /\ ReadInv
    /\ todo \cap wave = {}
    /\ query = Unknown => read = {} /\ \A i \in Item : result[i] = Unknown /\ found[i] = Unknown
    /\ \A i \in Item : (\A g \in read : g.item # i) => result[i] = Unknown
=============================================================================
