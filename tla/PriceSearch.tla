----------------------------- MODULE PriceSearch -----------------------------
(***************************************************************************)
(* A search for prices (price.controller.ts, PriceService.getPrices,       *)
(* ParsersService.search): the codes of the caller are mapped to the ids   *)
(* of suppliers, the database and the parsers of the suppliers are asked   *)
(* at once, and the interceptors shape the goods for the caller.  What one *)
(* parser does is in ApiParser; here it answers or rejects.                *)
(*                                                                         *)
(* A supplier has at most one good that the search finds.                  *)
(***************************************************************************)
EXTENDS Integers, FiniteSets

CONSTANTS
    Supplier,    \* the ids of the suppliers in the database
    ApiSupplier, \* the suppliers with a parser (SupplierService.parsers)
    Caller,      \* the suppliers who may ask under their alias
    Known,       \* [Caller -> SUBSET Supplier]: supplierCodes of the caller
    Dealers,     \* the suppliers of the vault's dealers list
    Everyone,    \* request.suppliers is absent
    NoOne        \* no supplierAlias, an unknown one, or no value

VARIABLES
    request,  \* the request, NoOne before it comes
    wanted,   \* the ids it is about, or Everyone
    rows,     \* goods in the database: [Supplier -> bound callers, or NoOne]
    fromDb,   \* what GoodService.search gave, NoOne while it is asked
    parsed,   \* [ApiSupplier -> how parse() of its parser is getting on]
    reply     \* what the controller answers, NoOne before

searchVars == <<request, wanted, rows, fromDb, parsed, reply>>

----------------------------------------------------------------------------
\* The code of supplier s with caller c.  supplierCodes maps ids to codes and
\* codes to ids in one table; a lookup of anything else is undefined.
Code(c, s) == [caller |-> c, supplier |-> s]

CodesOf(c) == {Code(c, s) : s \in Supplier}

Requests ==
    [route : {"price", "trade", "dealers"}, caller : Caller \cup {NoOne}, dbOnly : BOOLEAN,
     codes : {Everyone, Dealers} \cup SUBSET (Supplier \cup UNION {CodesOf(c) : c \in Caller})]

\* Codes are numbers of the caller, ids are ObjectIds.
ASSUME SearchAssumption ==
    /\ ApiSupplier \subseteq Supplier
    /\ NoOne \notin Caller \cup Supplier \cup Requests
    /\ \A c \in Caller :
          /\ Known[c] \subseteq Supplier
          /\ NoOne \notin CodesOf(c) /\ Supplier \cap CodesOf(c) = {}
          /\ \A codes \in SUBSET (Supplier \cup CodesOf(c)) : codes # Everyone

SupplierCodes(c, x) ==
    CASE x \in Known[c] -> Code(c, x)
      [] x \in {Code(c, s) : s \in Known[c]} -> x.supplier
      [] OTHER -> NoOne

HasTable(c) == c # NoOne /\ Known[c] # {}

\* supplier.codes.pipe.ts
Transform(c, codes) ==
    IF codes = Everyone \/ ~HasTable(c) THEN codes
    ELSE {IF SupplierCodes(c, x) = NoOne THEN x ELSE SupplierCodes(c, x) : x \in codes}

\* A good in an answer: goodIds are the callers whose own ids it shows.
Good(s, source, goodIds) == [supplier |-> s, of |-> s, source |-> source, goodIds |-> goodIds]

Stored(s) == IF rows[s] = NoOne THEN {} ELSE {Good(s, "db", rows[s])}

Among(suppliers, w) == IF w = Everyone THEN suppliers ELSE suppliers \cap w

\* A fault: the database is asked for every supplier.
AskedOfDbAll(w, dbOnly) == Among(Supplier, w)

\* GoodService.search: the suppliers whose stored goods it looks at, and
\* ParsersService.search: those whose parsers are started.
AskedOfDb(w, dbOnly) == Among(IF dbOnly THEN Supplier ELSE Supplier \ ApiSupplier, w)
AskedOfApi(w, dbOnly) == IF dbOnly THEN {} ELSE Among(ApiSupplier, w)

----------------------------------------------------------------------------
\* A fault: the ids of every caller are left in.
ApplySupplierUnmapped(good, c) ==
    [good EXCEPT !.supplier = IF HasTable(c) THEN SupplierCodes(c, @) ELSE @]

\* helpers/index.ts: the good with the id and the code that the caller knows it
\* by.
ApplySupplier(good, c) ==
    [good EXCEPT !.goodIds = IF c = NoOne THEN {} ELSE @ \cap {c},
                 !.supplier = IF HasTable(c) THEN SupplierCodes(c, @) ELSE @]

\* good.id.interceptor.ts: goods of a parser have no ids of their own; those of
\* the row are read again.
WithGoodId(good) ==
    IF rows[good.of] \in {NoOne, {}} THEN good ELSE [good EXCEPT !.goodIds = rows[good.of]]

\* trade.interceptor.ts: the caller's own goods, of supplier "0", are known by
\* their codes.
Trade(good, c) ==
    IF c # NoOne /\ good.supplier = Code(c, c) THEN [good EXCEPT !.goodIds = {c}] ELSE good

\* The interceptors of the three routes, the last one named first.
Shape(goods) ==
    CASE request.route = "price" -> {ApplySupplier(g, request.caller) : g \in goods}
      [] request.route = "trade" ->
            {Trade(ApplySupplier(WithGoodId(g), request.caller), request.caller) : g \in goods}
      [] request.route = "dealers" -> goods

----------------------------------------------------------------------------
Off == [state |-> "off", goods |-> {}]
Asked == [state |-> "asked", goods |-> {}]
Gave(goods) == [state |-> "gave", goods |-> goods]
Failed == [state |-> "rejected", goods |-> {}]

SearchInit ==
    /\ request = NoOne /\ wanted = Everyone /\ reply = NoOne /\ fromDb = NoOne
    /\ rows \in [Supplier -> (SUBSET Caller) \cup {NoOne}]
    /\ parsed = [s \in ApiSupplier |-> Off]

Begin(new, w) ==
    /\ request = NoOne
    /\ request' = new
    /\ wanted' = w
    /\ parsed' = [s \in ApiSupplier |-> IF s \in AskedOfApi(w, new.dbOnly) THEN Asked ELSE Off]
    /\ UNCHANGED <<rows, fromDb, reply>>

\* findAll and findForTrade, with codes of the caller or ids of suppliers.
Find(route, c, codes, dbOnly) ==
    Begin([route |-> route, caller |-> c, codes |-> codes, dbOnly |-> dbOnly],
          Transform(c, codes))

\* findForDealers: SupplierService.createDealerPriceRequest.
FindForDealers ==
    Begin([route |-> "dealers", caller |-> NoOne, codes |-> Dealers, dbOnly |-> FALSE], Dealers)

DbAnswers ==
    /\ request # NoOne /\ fromDb = NoOne
    /\ fromDb' = UNION {Stored(s) : s \in AskedOfDb(wanted, request.dbOnly)}
    /\ UNCHANGED <<request, wanted, rows, parsed, reply>>

\* parse() answers with goods of the supplier, of the cache or of the database,
\* or with none.
ParserAnswers(s) ==
    /\ parsed[s] = Asked
    /\ \E goods \in {{}, {Good(s, "api", {})}, {Good(s, "cache", {})}, Stored(s)} :
          parsed' = [parsed EXCEPT ![s] = Gave(goods)]
    /\ UNCHANGED <<request, wanted, rows, fromDb, reply>>

ParserRejects(s) ==
    /\ parsed[s] = Asked
    /\ parsed' = [parsed EXCEPT ![s] = Failed]
    /\ UNCHANGED <<request, wanted, rows, fromDb, reply>>

Rejected == \E s \in ApiSupplier : parsed[s] = Failed

Settled == fromDb # NoOne /\ ~Rejected /\ \A s \in ApiSupplier : parsed[s] # Asked

ParserGoods == UNION {parsed[s].goods : s \in ApiSupplier}

Reply ==
    /\ reply = NoOne /\ request # NoOne
    /\ Settled
    /\ reply' = [ok |-> TRUE, goods |-> Shape(fromDb \cup ParserGoods)]
    /\ UNCHANGED <<request, wanted, rows, fromDb, parsed>>

\* Promise.all rejects with its first rejection, whoever else is still asked.
Reject ==
    /\ reply = NoOne /\ Rejected
    /\ reply' = [ok |-> FALSE, goods |-> {}]
    /\ UNCHANGED <<request, wanted, rows, fromDb, parsed>>

\* GoodService.setGood, or an import that brings a row for the first time.
RowChanges(s) ==
    /\ reply = NoOne /\ request # NoOne
    /\ \E c \in Caller : rows' = [rows EXCEPT ![s] = IF @ = NoOne THEN {} ELSE @ \cup {c}]
    /\ rows' # rows
    /\ UNCHANGED <<request, wanted, fromDb, parsed, reply>>

SearchStep ==
    \/ DbAnswers
    \/ \E s \in ApiSupplier : ParserAnswers(s) \/ ParserRejects(s)
    \/ Reply
    \/ Reject

----------------------------------------------------------------------------
Answer == IF reply = NoOne THEN {} ELSE reply.goods
OfSupplier(s) == {g \in Answer : g.of = s}

(***************************************************************************)
(* A reply has the goods of each supplier it is about once, whoever gave   *)
(* them: the database and the parsers share the suppliers out, though a    *)
(* parser may fall back to the very rows the database is searched for.     *)
(* A supplier is missing only when there is nothing of it, never because   *)
(* its parser was late: one that fails takes the whole reply with it.      *)
(***************************************************************************)
EachSupplierOnce ==
    reply # NoOne /\ reply.ok =>
        \A s \in Supplier :
            /\ Cardinality(OfSupplier(s)) <= 1
            /\ OfSupplier(s) # {} => wanted = Everyone \/ s \in wanted
            /\ OfSupplier(s) = {} =>
                 CASE s \in AskedOfApi(wanted, request.dbOnly) -> parsed[s] = Gave({})
                   [] s \in AskedOfDb(wanted, request.dbOnly) -> Good(s, "db", rows[s]) \notin fromDb
                   [] OTHER -> TRUE

(***************************************************************************)
(* On the routes price and trade a caller gets goods under its own codes   *)
(* and with its own ids, never under another caller's, and a caller that   *)
(* lists codes gets back only suppliers it listed: the pipe and the        *)
(* interceptor go through the table in opposite directions, and an id a    *)
(* parser's good lacks is read from a row that may change while the        *)
(* parsers are asked.  The route dealers has no interceptor: it answers    *)
(* under the ids of the suppliers, and a stored good shows the ids of      *)
(* every client bound to its row (good.dto.ts:28 speaks of the caller's).  *)
(***************************************************************************)
CallersSeeTheirOwn ==
    reply # NoOne => \A g \in Answer :
        IF request.route = "dealers"
        THEN g.supplier = g.of /\ (g.goodIds # {} => g.source = "db")
        ELSE /\ g.goodIds \subseteq {request.caller} \ {NoOne}
             /\ HasTable(request.caller) =>
                  /\ g.of \in Known[request.caller] => g.supplier = Code(request.caller, g.of)
                  /\ request.codes # Everyone /\ g.supplier # NoOne => g.supplier \in request.codes
             /\ request.caller = NoOne => g.supplier = g.of

----------------------------------------------------------------------------
\* What the proofs rest on: who was asked, and one good at most of each of them.
Goods == [supplier : Supplier, of : Supplier, source : {"api", "cache", "db"}, goodIds : SUBSET Caller]

OneEach(goods, suppliers) ==
    /\ goods \subseteq Goods
    /\ \A g \in goods : g.supplier = g.of /\ g.of \in suppliers /\ (g.goodIds # {} => g.source = "db")
    /\ \A g, h \in goods : g.of = h.of => g = h

RequestInv ==
    IF request = NoOne
    THEN fromDb = NoOne /\ reply = NoOne /\ \A s \in ApiSupplier : parsed[s] = Off
    ELSE /\ request.route \in {"price", "trade", "dealers"}
         /\ request.caller \in Caller \cup {NoOne}
         /\ request.route # "dealers" =>
              /\ wanted = Transform(request.caller, request.codes)
              /\ request.codes \in {Everyone, Supplier} \cup SUBSET CodesOf(request.caller)

ParsedInv ==
    \A s \in ApiSupplier :
        /\ parsed[s] \in {Off, Asked, Failed} \/ parsed[s] = Gave(parsed[s].goods)
        /\ OneEach(parsed[s].goods, {s})
        /\ request # NoOne => (parsed[s] = Off <=> s \notin AskedOfApi(wanted, request.dbOnly))

DbInv == fromDb # NoOne => OneEach(fromDb, AskedOfDb(wanted, request.dbOnly))

ReplyInv ==
    \/ reply = NoOne
    \/ reply = [ok |-> FALSE, goods |-> {}]
    \/ Settled /\ reply = [ok |-> TRUE, goods |-> Shape(fromDb \cup ParserGoods)]

SearchIInv ==
    /\ rows \in [Supplier -> (SUBSET Caller) \cup {NoOne}]
    /\ DOMAIN parsed = ApiSupplier
    /\ RequestInv /\ ParsedInv /\ DbInv /\ ReplyInv
=============================================================================
