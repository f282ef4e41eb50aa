----------------------------- MODULE PriceService -----------------------------
(***************************************************************************)
(* A request to the price controller: a search or a query for live prices, *)
(* while the rows it reads may change.                                     *)
(***************************************************************************)
EXTENDS PriceSearch, LivePrices

CONSTANT Changing   \* the suppliers and items whose rows may change meanwhile

priceVars == <<searchVars, liveVars>>

Init == SearchInit /\ LiveInit

\* A request comes in, under codes of its caller or ids of suppliers.
Search(c) ==
    \/ FindForDealers
    \/ \E route \in {"price", "trade"}, dbOnly \in BOOLEAN,
          codes \in {Everyone, Supplier} \cup SUBSET {Code(k, s) : k \in {c} \ {NoOne}, s \in Supplier} :
          Find(route, c, codes, dbOnly)

Live ==
    \E kind \in {"live", "offers"}, hasApi, byCode \in BOOLEAN, items \in SUBSET Item :
        /\ byCode => kind = "offers" /\ hasApi
        /\ Ask(kind, hasApi, byCode, items)

Request ==
    \/ query = Unknown /\ (\E c \in Caller \cup {NoOne} : Search(c)) /\ UNCHANGED liveVars
    \/ request = NoOne /\ Live /\ UNCHANGED searchVars

\* The program's own steps: the database and the parsers answer or reject.
Work ==
    \/ SearchStep /\ UNCHANGED liveVars
    \/ LiveStep /\ UNCHANGED searchVars

RowsChange ==
    \/ (\E s \in Supplier \cap Changing : RowChanges(s)) /\ UNCHANGED liveVars
    \/ (\E i \in Item \cap Changing : ShelfChanges(i)) /\ UNCHANGED searchVars

Next == Request \/ Work \/ RowsChange

Spec == Init /\ [][Next]_priceVars

\* The database answers, and every parse() settles (EveryCallAnswers of
\* SearchSystem) as long as the stores do.
FairSpec == Spec /\ WF_priceVars(Work)

(***************************************************************************)
(* Every request is replied to, whatever its parsers do: a search by one   *)
(* reply or one rejection, a live query by the end of its last wave.       *)
(***************************************************************************)
EveryRequestEnds ==
    /\ request # NoOne ~> reply # NoOne
    /\ query # Unknown ~> Done
=============================================================================
