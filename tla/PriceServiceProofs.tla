-------------------------- MODULE PriceServiceProofs --------------------------
(***************************************************************************)
(* Proofs about live prices and searches, for any suppliers, callers,      *)
(* codes and rows.                                                         *)
(***************************************************************************)
EXTENDS PriceService, FiniteSetTheorems, SequenceTheorems, WellFoundedInduction, TLAPS

----------------------------------------------------------------------------
(* Live prices                                                             *)

LEMMA LiveInitIsSound == LiveInit => LiveIInv
BY DEF LiveInit, LiveIInv, LiveTypeOK, OneRead, PlainAreEmpty, ReadInv

LEMMA AskIsSound ==
    ASSUME LiveIInv, NEW kind \in {"live", "offers"}, NEW hasApi \in BOOLEAN, NEW byCode \in BOOLEAN,
           NEW items \in SUBSET Item, Ask(kind, hasApi, byCode, items)
    PROVE  LiveIInv'
<1>1. /\ query' = [kind |-> kind, hasApi |-> hasApi, byCode |-> byCode, items |-> items]
      /\ read' = {[item |-> i, stored |-> TRUE, warehouses |-> shelf[i]] :
                      i \in {j \in items : shelf[j] # Unknown}}
                   \cup IF byCode
                        THEN {[item |-> i, stored |-> FALSE, warehouses |-> <<>>] :
                                 i \in {j \in items \cap Numeric : shelf[j] = Unknown}}
                        ELSE {}
      /\ todo' = read' /\ query = Unknown
      /\ UNCHANGED <<shelf, wave, found, result>>
  BY DEF Ask
<1>2. query' \in Query
  BY <1>1 DEF Query
<1>3. LiveTypeOK /\ wave = {} /\ \A i \in Item : result[i] = Unknown /\ found[i] = Unknown
  BY <1>1 DEF LiveIInv, LiveTypeOK
<1>4. \A g \in read' : \E i \in items : /\ g.item = i /\ i \in Item
                                        /\ \/ /\ shelf[i] # Unknown
                                              /\ g = [item |-> i, stored |-> TRUE, warehouses |-> shelf[i]]
                                           \/ /\ shelf[i] = Unknown
                                              /\ g = [item |-> i, stored |-> FALSE, warehouses |-> <<>>]
  BY <1>1
<1>5. read' \subseteq [item : Item, stored : BOOLEAN, warehouses : Warehouses]
  <2> SUFFICES ASSUME NEW g \in read'
               PROVE  g \in [item : Item, stored : BOOLEAN, warehouses : Warehouses]
    OBVIOUS
  <2>1. PICK i \in Item : \/ shelf[i] # Unknown /\ g = [item |-> i, stored |-> TRUE, warehouses |-> shelf[i]]
                          \/ g = [item |-> i, stored |-> FALSE, warehouses |-> <<>>]
    BY <1>4
  <2>2. shelf[i] # Unknown => shelf[i] \in Warehouses
    BY <1>3 DEF LiveTypeOK, Warehouses
  <2>3. <<>> \in Warehouses
    BY DEF Warehouses
  <2> DEFINE kept == shelf[i]
  <2>4. /\ kept \in Warehouses => [item |-> i, stored |-> TRUE, warehouses |-> kept]
                                     \in [item : Item, stored : BOOLEAN, warehouses : Warehouses]
        /\ [item |-> i, stored |-> FALSE, warehouses |-> <<>>]
              \in [item : Item, stored : BOOLEAN, warehouses : Warehouses]
    BY <2>3
  <2> QED  BY <2>1, <2>2, <2>4
<1>6. OneRead' /\ PlainAreEmpty'
  <2>1. ASSUME NEW g \in read', NEW h \in read', g.item = h.item
        PROVE  g = h
    <3>1. PICK i \in items : /\ g.item = i
                             /\ \/ /\ shelf[i] # Unknown
                                   /\ g = [item |-> i, stored |-> TRUE, warehouses |-> shelf[i]]
                                \/ /\ shelf[i] = Unknown
                                   /\ g = [item |-> i, stored |-> FALSE, warehouses |-> <<>>]
      BY <1>4
    <3>2. PICK j \in items : /\ h.item = j
                             /\ \/ /\ shelf[j] # Unknown
                                   /\ h = [item |-> j, stored |-> TRUE, warehouses |-> shelf[j]]
                                \/ /\ shelf[j] = Unknown
                                   /\ h = [item |-> j, stored |-> FALSE, warehouses |-> <<>>]
      BY <1>4
    <3> QED  BY <2>1, <3>1, <3>2
  <2>2. \A g \in read' : g.stored \/ g.warehouses = <<>>
    BY <1>4
  <2> QED  BY <2>1, <2>2 DEF OneRead, PlainAreEmpty
<1>7. query' # Unknown
  BY <1>2, LiveAssumption
<1>8. LiveTypeOK'
  BY <1>1, <1>2, <1>3, <1>5 DEF LiveTypeOK
<1>9. ReadInv'
  BY <1>1, <1>3, <1>5 DEF ReadInv
<1> QED  BY <1>1, <1>3, <1>6, <1>7, <1>8, <1>9 DEF LiveIInv

\* What a good becomes that the supplier gave nothing for.
LEMMA FromDbIsTyped ==
    ASSUME LiveTypeOK, NEW good \in read
    PROVE  FromDb(good) \in LiveGoods /\ FromDb(good).source = "db"
BY DEF LiveTypeOK, FromDb, LiveGood, LiveGoods

\* One good is answered for.
LEMMA AnswerIsSound ==
    ASSUME LiveIInv, NEW good \in wave, wave' = wave \ {good},
           NEW answer \in LiveGoods,
           NEW given \in Shelves \cup {Unknown},
           result' = [result EXCEPT ![good.item] = answer],
           found' = [found EXCEPT ![good.item] = given],
           IF answer.source = "api"
           THEN answer.code = good.item /\ given # Unknown /\ answer.warehouses = given
           ELSE given = Unknown /\ answer = FromDb(good),
           UNCHANGED <<query, shelf, read, todo>>
    PROVE  LiveIInv'
<1>1. LiveTypeOK /\ good \in read /\ good.item \in Item /\ good \notin todo /\ answer # Unknown
  BY LiveAssumption DEF LiveIInv, LiveTypeOK
<1>2. LiveTypeOK'
  BY <1>1 DEF LiveTypeOK
<1>3. ASSUME NEW g \in read
      PROVE  IF g \in (todo \cup wave)' THEN result'[g.item] = Unknown /\ found'[g.item] = Unknown
             ELSE result'[g.item] # Unknown /\ AnsweredBy(g)'
  <2>1. g.item \in Item
    BY <1>1 DEF LiveTypeOK
  <2>2. CASE g = good
    BY <1>1, <2>2 DEF AnsweredBy, LiveTypeOK, FromDb, LiveGood
  <2>3. CASE g # good
    <3>1. g.item # good.item
      BY <1>1, <2>3 DEF LiveIInv, OneRead
    <3>2. result'[g.item] = result[g.item] /\ found'[g.item] = found[g.item]
      BY <1>1, <2>1, <3>1 DEF LiveTypeOK
    <3> QED  BY <2>3, <3>2 DEF LiveIInv, ReadInv, AnsweredBy, FromDb, LiveGood
  <2> QED  BY <2>2, <2>3
<1>4. ReadInv'
  BY <1>3 DEF ReadInv
<1>5. \A i \in Item : (\A g \in read : g.item # i) => result'[i] = Unknown
  BY <1>1 DEF LiveIInv, LiveTypeOK
<1> QED  BY <1>1, <1>2, <1>4, <1>5 DEF LiveIInv, OneRead, PlainAreEmpty

LEMMA NextWaveIsSound == ASSUME LiveIInv, NextWave PROVE LiveIInv'
<1>1. PICK part \in SUBSET todo :
        /\ todo' = todo \ part
        /\ IF query.hasApi
           THEN wave' = part /\ UNCHANGED result
           ELSE /\ result' = [i \in Item |-> IF \E g \in part : g.item = i
                                            THEN FromDb(CHOOSE g \in part : g.item = i)
                                            ELSE result[i]]
                /\ UNCHANGED wave
  BY DEF NextWave
<1>2. LiveTypeOK /\ wave = {} /\ query # Unknown /\ UNCHANGED <<query, shelf, read, found>>
  BY DEF NextWave, LiveIInv
<1>3. CASE query.hasApi
  <2>1. LiveTypeOK'
    BY <1>1, <1>2, <1>3 DEF LiveTypeOK
  <2>2. ReadInv'
    <3>1. (todo \cup wave)' = todo \cup wave
      BY <1>1, <1>2, <1>3
    <3>2. UNCHANGED <<read, result, found>>
      BY <1>1, <1>2, <1>3
    <3>3. \A g \in read : AnsweredBy(g)' <=> AnsweredBy(g)
      BY <3>2 DEF AnsweredBy, FromDb, LiveGood
    <3> QED  BY <3>1, <3>2, <3>3 DEF LiveIInv, ReadInv
  <2> QED  BY <1>1, <1>2, <1>3, <2>1, <2>2 DEF LiveIInv, OneRead, PlainAreEmpty
<1>4. CASE ~query.hasApi
  <2>1. ASSUME NEW g \in part
        PROVE  /\ g \in read /\ g.item \in Item
               /\ result'[g.item] = FromDb(g) /\ FromDb(g) \in LiveGoods /\ FromDb(g).source = "db"
    <3>1. g \in read /\ g.item \in Item /\ FromDb(g) \in LiveGoods /\ FromDb(g).source = "db"
      BY <1>2, FromDbIsTyped DEF LiveTypeOK
    <3>2. (CHOOSE h \in part : h.item = g.item) = g
      BY <1>2 DEF LiveIInv, OneRead, LiveTypeOK
    <3> QED  BY <1>1, <1>4, <3>1, <3>2
  <2>2. \A i \in Item : (\A g \in part : g.item # i) => result'[i] = result[i]
    BY <1>1, <1>4
  <2>3. result' \in [Item -> LiveGoods \cup {Unknown}]
    <3>1. \A i \in Item : result'[i] \in LiveGoods \cup {Unknown}
      <4> SUFFICES ASSUME NEW i \in Item
                   PROVE  result'[i] \in LiveGoods \cup {Unknown}
        OBVIOUS
      <4>1. CASE \E g \in part : g.item = i
        BY <2>1, <4>1
      <4>2. CASE \A g \in part : g.item # i
        BY <1>2, <2>2, <4>2 DEF LiveTypeOK
      <4> QED  BY <4>1, <4>2
    <3> QED  BY <1>1, <1>4, <3>1
  <2>4. LiveTypeOK'
    BY <1>1, <1>2, <1>4, <2>3 DEF LiveTypeOK
  <2>5. ReadInv'
    <3> SUFFICES ASSUME NEW g \in read
                 PROVE  IF g \in (todo \cup wave)' THEN result'[g.item] = Unknown /\ found[g.item] = Unknown
                        ELSE result'[g.item] # Unknown /\ AnsweredBy(g)'
      BY <1>2 DEF ReadInv
    <3>1. CASE g \in part
      <4>1. g \in todo /\ g \notin (todo \cup wave)'
        BY <1>1, <1>2, <1>4, <3>1
      <4>2. found[g.item] = Unknown
        BY <4>1 DEF LiveIInv, ReadInv
      <4>3. result'[g.item] # Unknown
        BY <2>1, <3>1, LiveAssumption
      <4>4. result'[g.item] = FromDb(g) /\ result'[g.item].source = "db"
        BY <2>1, <3>1
      <4>5. AnsweredBy(g)'
        BY <1>2, <4>2, <4>4 DEF AnsweredBy, FromDb, LiveGood
      <4> QED  BY <4>1, <4>3, <4>5
    <3>2. CASE g \notin part
      <4>1. \A h \in part : h.item # g.item
        BY <1>2, <3>2 DEF LiveIInv, OneRead, LiveTypeOK
      <4>2. result'[g.item] = result[g.item]
        BY <1>2, <2>2, <4>1 DEF LiveTypeOK
      <4> QED  BY <1>1, <1>2, <1>4, <3>2, <4>2 DEF LiveIInv, ReadInv, AnsweredBy, FromDb, LiveGood
    <3> QED  BY <3>1, <3>2
  <2>6. \A i \in Item : (\A g \in read : g.item # i) => result'[i] = Unknown
    BY <1>2, <2>1, <2>2 DEF LiveIInv
  <2> QED  BY <1>1, <1>2, <1>4, <2>4, <2>5, <2>6 DEF LiveIInv, OneRead, PlainAreEmpty
<1> QED  BY <1>3, <1>4

LEMMA LiveStepIsSound == ASSUME LiveIInv, LiveStep PROVE LiveIInv'
<1>0. LiveTypeOK
  BY DEF LiveIInv
<1>1. ASSUME NEW good \in wave, Rejects(good) PROVE LiveIInv'
  <2>1. /\ good.item \in Item /\ found[good.item] = Unknown
        /\ FromDb(good) \in LiveGoods /\ FromDb(good).source = "db"
    BY <1>0, FromDbIsTyped DEF LiveIInv, LiveTypeOK, ReadInv
  <2>2. found' = [found EXCEPT ![good.item] = Unknown]
    BY <1>0, <1>1, <2>1 DEF Rejects, LiveTypeOK
  <2> QED  BY <1>1, <2>1, <2>2, AnswerIsSound DEF Rejects
<1>2. ASSUME NEW good \in wave, NEW source \in {"api", "db"}, NEW items \in SUBSET Item, NEW w \in Shelves,
             Answers(good, source, items, w)
      PROVE  LiveIInv'
  <2>1. /\ good.item \in Item /\ found[good.item] = Unknown
        /\ FromDb(good) \in LiveGoods /\ FromDb(good).source = "db"
    BY <1>0, FromDbIsTyped DEF LiveIInv, LiveTypeOK, ReadInv
  <2>2. w \in Warehouses
    BY DEF Warehouses
  <2>3. CASE source = "api" /\ good.item \in items
    <3> DEFINE answer == LiveGood("api", good.item, w)
    <3>1. answer \in LiveGoods /\ answer.source = "api" /\ answer.code = good.item /\ answer.warehouses = w
      BY <2>1, <2>2 DEF LiveGood, LiveGoods
    <3>2. w \in Shelves \cup {Unknown} /\ w # Unknown
      BY LiveAssumption DEF Warehouses
    <3>3. found' = [found EXCEPT ![good.item] = w] /\ result' = [result EXCEPT ![good.item] = answer]
      BY <1>2, <2>3 DEF Answers, Chosen
    <3> HIDE DEF answer
    <3> QED  BY <1>2, <3>1, <3>2, <3>3, AnswerIsSound DEF Answers
  <2>4. CASE ~(source = "api" /\ good.item \in items)
    <3>1. found' = [found EXCEPT ![good.item] = Unknown]
      BY <1>0, <1>2, <2>1, <2>4 DEF Answers, LiveTypeOK
    <3>2. result' = [result EXCEPT ![good.item] = FromDb(good)]
      BY <1>2, <2>4 DEF Answers, Chosen
    <3> QED  BY <1>2, <2>1, <3>1, <3>2, AnswerIsSound DEF Answers
  <2> QED  BY <2>3, <2>4
<1> QED  BY <1>1, <1>2, NextWaveIsSound DEF LiveStep

LEMMA LiveNextIsSound == LiveIInv /\ [Next]_priceVars => LiveIInv'
<1> SUFFICES ASSUME LiveIInv, [Next]_priceVars PROVE LiveIInv'
  OBVIOUS
<1>1. CASE UNCHANGED liveVars
  BY <1>1 DEF liveVars, LiveIInv, LiveTypeOK, OneRead, PlainAreEmpty, ReadInv, AnsweredBy, FromDb, LiveGood
<1>2. CASE Live
  BY <1>2, AskIsSound DEF Live
<1>3. CASE LiveStep
  BY <1>3, LiveStepIsSound
<1>4. ASSUME NEW i \in Item, ShelfChanges(i) PROVE LiveIInv'
  BY <1>4 DEF ShelfChanges, LiveIInv, LiveTypeOK, OneRead, PlainAreEmpty, ReadInv, AnsweredBy, FromDb, LiveGood
<1> QED  BY <1>1, <1>2, <1>3, <1>4 DEF Next, Request, Work, RowsChange, priceVars

LEMMA LiveInvariant == Spec => []LiveIInv
<1>1. Init => LiveIInv
  BY LiveInitIsSound DEF Init
<1>2. LiveIInv /\ [Next]_priceVars => LiveIInv'
  BY LiveNextIsSound
<1> QED  BY <1>1, <1>2, PTL DEF Spec

\* How one code is answered in the end.
LEMMA AnsweredInTheEnd ==
    ASSUME LiveIInv, Done, NEW i \in query.items
    PROVE  /\ i \in Item
           /\ \/ (\A g \in read : g.item # i) /\ result[i] = Unknown
              \/ \E g \in read : g.item = i /\ result[i] # Unknown /\ AnsweredBy(g)
<1>1. i \in Item
  BY DEF LiveIInv, LiveTypeOK, Done, Query
<1>2. CASE \A g \in read : g.item # i
  BY <1>1, <1>2 DEF LiveIInv
<1>3. CASE \E g \in read : g.item = i
  BY <1>1, <1>3 DEF LiveIInv, ReadInv, Done
<1> QED  BY <1>1, <1>2, <1>3

\* Every code is answered with its own good; only the good of this code that the
\* supplier gave to this query is said to be of its API, and whatever is answered
\* instead of it has lost its code and its stock.
THEOREM LiveAnswersAreOwn == Spec => []AnswersAreTheirOwn
<1>1. LiveIInv => AnswersAreTheirOwn
  <2> SUFFICES ASSUME LiveIInv, Done, NEW i \in query.items
               PROVE  /\ (result[i] = Unknown) <=> (\A g \in read : g.item # i)
                      /\ result[i] # Unknown =>
                           IF result[i].source = "api"
                           THEN result[i].code = i /\ found[i] # Unknown /\ result[i].warehouses = found[i]
                           ELSE /\ found[i] = Unknown
                                /\ result[i].code \in {i, Unknown}
                                /\ result[i].warehouses \in {<<>>, Unknown}
    BY DEF AnswersAreTheirOwn
  <2>1. CASE (\A g \in read : g.item # i) /\ result[i] = Unknown
    BY <2>1
  <2>2. CASE \E g \in read : g.item = i /\ result[i] # Unknown /\ AnsweredBy(g)
    <3>1. PICK g \in read : g.item = i /\ result[i] # Unknown /\ AnsweredBy(g)
      BY <2>2
    <3>2. g.stored \/ g.warehouses = <<>>
      BY DEF LiveIInv, PlainAreEmpty
    <3>3. CASE result[i].source = "api"
      BY <3>1, <3>3 DEF AnsweredBy
    <3>4. CASE result[i].source # "api"
      <4>1. found[i] = Unknown /\ result[i] = FromDb(g)
        BY <3>1, <3>4 DEF AnsweredBy
      <4>2. FromDb(g).code \in {i, Unknown} /\ FromDb(g).warehouses \in {<<>>, Unknown}
        BY <3>1, <3>2 DEF FromDb, LiveGood
      <4> QED  BY <3>1, <3>4, <4>1, <4>2
    <3> QED  BY <3>3, <3>4
  <2> QED  BY <2>1, <2>2, AnsweredInTheEnd
<1> QED  BY <1>1, LiveInvariant, PTL

\* Of some numbers one is the least: what find() comes to first.
LEMMA LeastNumber ==
    ASSUME NEW S \in SUBSET Nat, S # {}
    PROVE  \E n \in S : \A k \in S : n <= k
<1>1. IsWellFoundedOn(OpToRel(<, Nat), Nat)
  BY NatLessThanWellFounded
<1>2. PICK n \in S : \A k \in S : ~(<<k, n>> \in OpToRel(<, Nat))
  BY <1>1, WFMin
<1>3. \A k \in S : ~(k < n)
  BY <1>2 DEF OpToRel
<1> QED  BY <1>3

(***************************************************************************)
(* stock() takes a warehouse of the good, one with stock if there is any.  *)
(***************************************************************************)
LEMMA StockedIsOfTheGood ==
    ASSUME NEW warehouses \in Warehouses, warehouses # <<>>
    PROVE  LET n == StockedWarehouse(warehouses)
           IN  /\ warehouses[n] \in [quantity : Int, multiple : Int]
               /\ (warehouses[n].quantity > 0)
                    <=> (\E k \in DOMAIN warehouses : warehouses[k].quantity > 0)
<1> DEFINE stocked == {n \in DOMAIN warehouses : warehouses[n].quantity > 0}
<1>1. /\ warehouses \in Seq([quantity : Int, multiple : Int])
      /\ DOMAIN warehouses = 1..Len(warehouses) /\ Len(warehouses) \in Nat \ {0}
      /\ \A n \in DOMAIN warehouses : warehouses[n] \in [quantity : Int, multiple : Int]
  <2>1. warehouses \in Seq([quantity : Int, multiple : Int])
    BY ShelfAssumption DEF Warehouses
  <2> QED  BY <2>1, LenProperties, ElementOfSeq, EmptySeq
<1>2. CASE stocked = {}
  <2>1. StockedWarehouse(warehouses) = 1 /\ 1 \in DOMAIN warehouses
    BY <1>1, <1>2 DEF StockedWarehouse
  <2> QED  BY <1>1, <1>2, <2>1
<1>3. CASE stocked # {}
  <2>1. stocked \in SUBSET Nat
    BY <1>1
  <2>2. \E n \in stocked : \A k \in stocked : n <= k
    BY <1>3, <2>1, LeastNumber
  <2>3. StockedWarehouse(warehouses) = CHOOSE n \in stocked : \A k \in stocked : n <= k
    BY <1>3 DEF StockedWarehouse
  <2>4. StockedWarehouse(warehouses) \in stocked
    BY <2>2, <2>3
  <2> QED  BY <1>1, <2>4
<1> QED  BY <1>2, <1>3

(***************************************************************************)
(* A basket is told of stock just when the supplier gave this query some   *)
(* warehouse with stock, never of less than none, and sells by at least    *)
(* one piece, for any warehouses, rows and answers.                        *)
(***************************************************************************)
THEOREM StockIsAlwaysSellable == Spec => []StockIsSellable
<1>1. LiveIInv => StockIsSellable
  <2> SUFFICES ASSUME LiveIInv, Done, NEW i \in query.items, result[i] # Unknown
               PROVE  /\ Stock(result[i]) # Unknown =>
                           Stock(result[i]).quantity >= 0 /\ Stock(result[i]).multiple >= 1
                      /\ (Stock(result[i]) # Unknown /\ Stock(result[i]).quantity > 0)
                           <=> (found[i] # Unknown
                                 /\ \E n \in DOMAIN found[i] : found[i][n].quantity > 0)
    BY DEF StockIsSellable
  <2>1. PICK g \in read : g.item = i /\ AnsweredBy(g)
    BY AnsweredInTheEnd
  <2>2. i \in Item /\ found[i] \in Shelves \cup {Unknown}
    BY AnsweredInTheEnd DEF LiveIInv, LiveTypeOK
  <2>3. CASE result[i].source # "api"
    <3>1. found[i] = Unknown /\ result[i] = FromDb(g) /\ (g.stored \/ g.warehouses = <<>>)
      BY <2>1, <2>3 DEF AnsweredBy, LiveIInv, PlainAreEmpty
    <3>2. FromDb(g).warehouses \in {<<>>, Unknown}
      BY <3>1 DEF FromDb, LiveGood
    <3>3. Stock(result[i]) = Unknown
      BY <3>1, <3>2 DEF Stock
    <3> QED  BY <3>1, <3>3
  <2>4. CASE result[i].source = "api"
    <3> DEFINE warehouses == result[i].warehouses
               warehouse == warehouses[StockedWarehouse(warehouses)]
    <3>1. found[i] # Unknown /\ warehouses = found[i] /\ warehouses \in Warehouses /\ warehouses # Unknown
      BY <2>1, <2>2, <2>4 DEF AnsweredBy, Warehouses
    <3>2. CASE warehouses = <<>>
      <4>1. Stock(result[i]) = Unknown
        BY <3>2 DEF Stock
      <4>2. DOMAIN warehouses = {}
        BY <3>2
      <4> QED  BY <3>1, <4>1, <4>2
    <3>3. CASE warehouses # <<>>
      <4>1. /\ warehouse.quantity \in Int /\ warehouse.multiple \in Int
            /\ (warehouse.quantity > 0) <=> (\E n \in DOMAIN warehouses : warehouses[n].quantity > 0)
        BY <3>1, <3>3, StockedIsOfTheGood
      <4>2. /\ Stock(result[i]).quantity = AtLeast(warehouse.quantity, 0)
            /\ Stock(result[i]).multiple = AtLeast(warehouse.multiple, 1)
            /\ Stock(result[i]) = [quantity |-> AtLeast(warehouse.quantity, 0),
                                   multiple |-> AtLeast(warehouse.multiple, 1),
                                   source |-> result[i].source]
        BY <3>1, <3>3 DEF Stock
      <4>3. Stock(result[i]).quantity >= 0 /\ Stock(result[i]).multiple >= 1
        BY <4>1, <4>2 DEF AtLeast
      <4>4. (Stock(result[i]).quantity > 0) <=> (\E n \in DOMAIN found[i] : found[i][n].quantity > 0)
        BY <3>1, <4>1, <4>2 DEF AtLeast
      <4>5. Stock(result[i]) # Unknown
        <5>1. result[i].source \in {"api", "db"}
          BY <2>4
        <5>2. AtLeast(warehouse.quantity, 0) \in Int /\ AtLeast(warehouse.multiple, 1) \in Int
          BY <4>1 DEF AtLeast
        <5>3. Stock(result[i]) \in LiveStock
          BY <4>2, <5>1, <5>2 DEF LiveStock
        <5> QED  BY <5>3, LiveAssumption
      <4> QED  BY <3>1, <4>3, <4>4, <4>5
    <3> QED  BY <3>2, <3>3
  <2> QED  BY <2>3, <2>4
<1> QED  BY <1>1, LiveInvariant, PTL

----------------------------------------------------------------------------
(* Searches                                                                *)

LEMMA SearchInitIsSound == SearchInit => SearchIInv
BY DEF SearchInit, SearchIInv, RequestInv, ParsedInv, DbInv, ReplyInv, OneEach, Off

\* What is stored of a supplier is one good at most, its own.
LEMMA StoredIsOne ==
    ASSUME rows \in [Supplier -> (SUBSET Caller) \cup {NoOne}], NEW s \in Supplier
    PROVE  OneEach(Stored(s), {s})
<1>1. CASE rows[s] = NoOne
  BY <1>1 DEF Stored, OneEach
<1>2. CASE rows[s] # NoOne
  <2>1. rows[s] \in SUBSET Caller
    BY <1>2
  <2>2. /\ Good(s, "db", rows[s]) \in Goods /\ Good(s, "db", rows[s]).supplier = s /\ Good(s, "db", rows[s]).of = s
        /\ Good(s, "db", rows[s]).source = "db"
    BY <2>1 DEF Good, Goods
  <2> DEFINE good == Good(s, "db", rows[s])
  <2>3. Stored(s) = {good}
    BY <1>2 DEF Stored
  <2> HIDE DEF good
  <2> QED  BY <2>2, <2>3 DEF OneEach, good
<1> QED  BY <1>1, <1>2

LEMMA BeginIsSound ==
    ASSUME SearchIInv, NEW new, NEW w, Begin(new, w), new # NoOne,
           new.route \in {"price", "trade", "dealers"}, new.caller \in Caller \cup {NoOne},
           new.route # "dealers" => /\ w = Transform(new.caller, new.codes)
                                    /\ new.codes \in {Everyone, Supplier} \cup SUBSET CodesOf(new.caller)
    PROVE  SearchIInv'
<1>1. /\ request' = new /\ wanted' = w
      /\ parsed' = [s \in ApiSupplier |-> IF s \in AskedOfApi(w, new.dbOnly) THEN Asked ELSE Off]
      /\ UNCHANGED <<rows, fromDb, reply>>
      /\ fromDb = NoOne /\ reply = NoOne
  BY DEF Begin, SearchIInv, RequestInv
<1>2. RequestInv'
  BY <1>1 DEF RequestInv
<1>3. ParsedInv'
  BY <1>1 DEF ParsedInv, OneEach, Off, Asked
<1> QED  BY <1>1, <1>2, <1>3 DEF SearchIInv, DbInv, ReplyInv

LEMMA FindIsSound ==
    ASSUME SearchIInv, NEW c \in Caller \cup {NoOne}, Search(c)
    PROVE  SearchIInv'
<1>1. CASE FindForDealers
  <2> DEFINE new == [route |-> "dealers", caller |-> NoOne, codes |-> Dealers, dbOnly |-> FALSE]
  <2>1. new \in Requests
    BY DEF Requests
  <2>2. new # NoOne
    BY <2>1, SearchAssumption
  <2>3. new.route = "dealers" /\ new.caller = NoOne
    OBVIOUS
  <2>4. Begin(new, Dealers)
    BY <1>1 DEF FindForDealers
  <2> HIDE DEF new
  <2> QED  BY <2>2, <2>3, <2>4, BeginIsSound
<1>2. ASSUME NEW route \in {"price", "trade"}, NEW dbOnly \in BOOLEAN,
             NEW codes \in {Everyone, Supplier} \cup SUBSET {Code(k, s) : k \in {c} \ {NoOne}, s \in Supplier},
             Find(route, c, codes, dbOnly)
      PROVE  SearchIInv'
  <2> DEFINE new == [route |-> route, caller |-> c, codes |-> codes, dbOnly |-> dbOnly]
  <2>1. codes \in {Everyone, Supplier} \cup SUBSET CodesOf(c)
    BY DEF CodesOf
  <2>2. codes \in {Everyone, Dealers} \cup SUBSET (Supplier \cup UNION {CodesOf(k) : k \in Caller})
    BY DEF CodesOf
  <2>3. new \in Requests
    BY <2>2 DEF Requests
  <2>4. new # NoOne
    BY <2>3, SearchAssumption
  <2>5. new.route = route /\ new.caller = c /\ new.codes = codes
    OBVIOUS
  <2>6. Begin(new, Transform(c, codes))
    BY <1>2 DEF Find
  <2> HIDE DEF new
  <2> QED  BY <2>1, <2>4, <2>5, <2>6, BeginIsSound
<1> QED  BY <1>1, <1>2 DEF Search

\* A parser that is asked settles.
LEMMA SettlesIsSound ==
    ASSUME SearchIInv, NEW s \in ApiSupplier, parsed[s] = Asked, NEW p,
           p = Failed \/ p = Gave(p.goods), OneEach(p.goods, {s}),
           parsed' = [parsed EXCEPT ![s] = p],
           UNCHANGED <<request, wanted, rows, fromDb, reply>>
    PROVE  SearchIInv'
<1>1. p # Off /\ p # Asked /\ Asked # Off
  BY DEF Off, Asked, Gave, Failed
<1>2. request # NoOne
  BY <1>1 DEF SearchIInv, RequestInv
<1>3. DOMAIN parsed' = ApiSupplier /\ parsed'[s] = p /\ \A t \in ApiSupplier \ {s} : parsed'[t] = parsed[t]
  BY DEF SearchIInv
<1>4. ParsedInv'
  BY <1>1, <1>3 DEF SearchIInv, ParsedInv, OneEach, AskedOfApi
<1>5. RequestInv'
  BY <1>2 DEF SearchIInv, RequestInv
<1>6. DbInv'
  BY DEF SearchIInv, DbInv
<1>7. ReplyInv'
  BY DEF SearchIInv, ReplyInv, Settled
<1> QED  BY <1>3, <1>4, <1>5, <1>6, <1>7 DEF SearchIInv

LEMMA ParserIsSound ==
    ASSUME SearchIInv, NEW s \in ApiSupplier, ParserAnswers(s) \/ ParserRejects(s)
    PROVE  SearchIInv'
<1>1. s \in Supplier
  BY SearchAssumption
<1>2. CASE ParserRejects(s)
  <2>1. OneEach(Failed.goods, {s})
    BY DEF Failed, OneEach
  <2> QED  BY <1>2, <2>1, SettlesIsSound DEF ParserRejects
<1>3. CASE ParserAnswers(s)
  <2>1. PICK goods \in {{}, {Good(s, "api", {})}, {Good(s, "cache", {})}, Stored(s)} :
           parsed' = [parsed EXCEPT ![s] = Gave(goods)]
    BY <1>3 DEF ParserAnswers
  <2>2. \A source \in {"api", "cache"} : OneEach({Good(s, source, {})}, {s})
    BY <1>1 DEF OneEach, Good, Goods
  <2>3. OneEach({}, {s})
    BY DEF OneEach
  <2>4. OneEach(goods, {s})
    BY <1>1, <2>2, <2>3, StoredIsOne DEF SearchIInv
  <2>5. Gave(goods).goods = goods
    BY DEF Gave
  <2> HIDE DEF Gave
  <2> QED  BY <1>3, <2>1, <2>4, <2>5, SettlesIsSound DEF ParserAnswers
<1> QED  BY <1>2, <1>3

LEMMA DbAnswersIsSound == ASSUME SearchIInv, DbAnswers PROVE SearchIInv'
<1>1. /\ request # NoOne /\ fromDb = NoOne
      /\ fromDb' = UNION {Stored(s) : s \in AskedOfDb(wanted, request.dbOnly)}
      /\ UNCHANGED <<request, wanted, rows, parsed, reply>>
  BY DEF DbAnswers
<1>2. AskedOfDb(wanted, request.dbOnly) \subseteq Supplier
  BY DEF AskedOfDb, Among
<1>3. \A s \in AskedOfDb(wanted, request.dbOnly) : OneEach(Stored(s), {s})
  BY <1>2, StoredIsOne DEF SearchIInv
<1>4. OneEach(fromDb', AskedOfDb(wanted, request.dbOnly))
  BY <1>1, <1>3 DEF OneEach
<1>5. DbInv'
  BY <1>1, <1>4 DEF DbInv, AskedOfDb, Among
<1>6. RequestInv'
  BY <1>1 DEF SearchIInv, RequestInv
<1>7. ParsedInv'
  BY <1>1 DEF SearchIInv, ParsedInv
<1>8. ReplyInv'
  BY <1>1 DEF SearchIInv, ReplyInv, Settled
<1> QED  BY <1>1, <1>5, <1>6, <1>7, <1>8 DEF SearchIInv

LEMMA ReplyIsSound == ASSUME SearchIInv, Reply \/ Reject PROVE SearchIInv'
<1>1. UNCHANGED <<request, wanted, rows, fromDb, parsed>>
  BY DEF Reply, Reject
<1>2. request # NoOne
  <2>1. CASE Reject
    BY <2>1 DEF Reject, Rejected, SearchIInv, RequestInv, Off, Failed
  <2> QED  BY <2>1 DEF Reply
<1>3. RequestInv' /\ ParsedInv' /\ DbInv'
  BY <1>1, <1>2 DEF SearchIInv, RequestInv, ParsedInv, DbInv
<1>4. ReplyInv'
  <2>1. CASE Reject
    BY <2>1 DEF Reject, ReplyInv
  <2>2. CASE Reply
    <3>1. Settled' /\ reply' = [ok |-> TRUE, goods |-> Shape(fromDb \cup ParserGoods)]
      BY <1>1, <2>2 DEF Reply, Settled, Rejected
    <3>2. (Shape(fromDb \cup ParserGoods))' = Shape(fromDb \cup ParserGoods)
      BY <1>1 DEF Shape, ParserGoods, WithGoodId, Trade, ApplySupplier
    <3> QED  BY <3>1, <3>2 DEF ReplyInv
  <2> QED  BY <2>1, <2>2
<1> QED  BY <1>1, <1>3, <1>4 DEF SearchIInv

LEMMA RowChangesIsSound == ASSUME SearchIInv, NEW s \in Supplier, RowChanges(s) PROVE SearchIInv'
<1>1. PICK c \in Caller : rows' = [rows EXCEPT ![s] = IF @ = NoOne THEN {} ELSE @ \cup {c}]
  BY DEF RowChanges
<1>2. reply = NoOne /\ request # NoOne /\ UNCHANGED <<request, wanted, fromDb, parsed, reply>>
  BY DEF RowChanges
<1>3. rows' \in [Supplier -> (SUBSET Caller) \cup {NoOne}]
  BY <1>1 DEF SearchIInv
<1>4. RequestInv' /\ ParsedInv' /\ DbInv' /\ ReplyInv'
  BY <1>2 DEF SearchIInv, RequestInv, ParsedInv, DbInv, ReplyInv
<1> QED  BY <1>2, <1>3, <1>4 DEF SearchIInv

LEMMA SearchNextIsSound == SearchIInv /\ [Next]_priceVars => SearchIInv'
<1> SUFFICES ASSUME SearchIInv, [Next]_priceVars PROVE SearchIInv'
  OBVIOUS
<1>1. CASE UNCHANGED searchVars
  <2>1. UNCHANGED <<request, wanted, rows, fromDb, parsed, reply>>
    BY <1>1 DEF searchVars
  <2>2. (Shape(fromDb \cup ParserGoods))' = Shape(fromDb \cup ParserGoods)
    BY <2>1 DEF Shape, ParserGoods, WithGoodId, Trade, ApplySupplier
  <2>3. ReplyInv'
    BY <2>1, <2>2 DEF SearchIInv, ReplyInv, Settled, Rejected
  <2> QED  BY <2>1, <2>3 DEF SearchIInv, RequestInv, ParsedInv, DbInv
<1>2. ASSUME NEW c \in Caller \cup {NoOne}, Search(c) PROVE SearchIInv'
  BY <1>2, FindIsSound
<1>3. CASE SearchStep
  BY <1>3, DbAnswersIsSound, ParserIsSound, ReplyIsSound DEF SearchStep
<1>4. ASSUME NEW s \in Supplier, RowChanges(s) PROVE SearchIInv'
  BY <1>4, RowChangesIsSound
<1> QED  BY <1>1, <1>2, <1>3, <1>4 DEF Next, Request, Work, RowsChange, priceVars

LEMMA SearchInvariant == Spec => []SearchIInv
<1>1. Init => SearchIInv
  BY SearchInitIsSound DEF Init
<1>2. SearchIInv /\ [Next]_priceVars => SearchIInv'
  BY SearchNextIsSound
<1> QED  BY <1>1, <1>2, PTL DEF Spec

\* What a reply is made of, one good at most of each supplier that was asked.
LEMMA GoodsOfReply ==
    ASSUME SearchIInv, reply # NoOne, reply.ok
    PROVE  /\ Settled /\ reply.goods = Shape(fromDb \cup ParserGoods)
           /\ OneEach(fromDb \cup ParserGoods, AskedOfDb(wanted, request.dbOnly)
                                                 \cup AskedOfApi(wanted, request.dbOnly))
           /\ request # NoOne
<1>1. Settled /\ reply.goods = Shape(fromDb \cup ParserGoods) /\ request # NoOne
  BY DEF SearchIInv, ReplyInv, RequestInv
<1>2. OneEach(fromDb, AskedOfDb(wanted, request.dbOnly))
  BY <1>1 DEF SearchIInv, DbInv, Settled
<1>3. \A s \in ApiSupplier : /\ OneEach(parsed[s].goods, {s})
                             /\ parsed[s].goods # {} => s \in AskedOfApi(wanted, request.dbOnly)
  BY <1>1 DEF SearchIInv, ParsedInv, Off
<1>4. AskedOfDb(wanted, request.dbOnly) \cap AskedOfApi(wanted, request.dbOnly) = {}
  BY DEF AskedOfDb, AskedOfApi, Among
<1>5. \A g \in ParserGoods : /\ g.of \in ApiSupplier /\ g \in parsed[g.of].goods
                             /\ g.of \in AskedOfApi(wanted, request.dbOnly)
                             /\ g \in Goods /\ g.supplier = g.of
  BY <1>3 DEF ParserGoods, OneEach
<1>6. OneEach(fromDb \cup ParserGoods, AskedOfDb(wanted, request.dbOnly)
                                         \cup AskedOfApi(wanted, request.dbOnly))
  BY <1>2, <1>3, <1>4, <1>5 DEF OneEach
<1> QED  BY <1>1, <1>6

\* The interceptors leave a good the good of its supplier, under the code and the
\* ids of the caller.
Keeps(a, g, c) ==
    /\ a.of = g.of
    /\ a.goodIds \subseteq {c} \ {NoOne}
    /\ a.supplier = IF HasTable(c) THEN SupplierCodes(c, g.supplier) ELSE g.supplier

LEMMA ApplyKeeps ==
    ASSUME NEW g \in Goods, NEW c \in Caller \cup {NoOne}
    PROVE  Keeps(ApplySupplier(g, c), g, c)
BY SearchAssumption DEF ApplySupplier, Goods, Keeps

LEMMA TradeKeeps ==
    ASSUME NEW g \in Goods, NEW c \in Caller \cup {NoOne}
    PROVE  Keeps(Trade(ApplySupplier(g, c), c), g, c)
BY SearchAssumption DEF Trade, ApplySupplier, Goods, Keeps

LEMMA WithGoodIdKeeps ==
    ASSUME SearchIInv, NEW g \in Goods
    PROVE  WithGoodId(g) \in Goods /\ WithGoodId(g).of = g.of /\ WithGoodId(g).supplier = g.supplier
<1>1. CASE rows[g.of] \in {NoOne, {}}
  BY <1>1 DEF WithGoodId
<1>2. CASE rows[g.of] \notin {NoOne, {}}
  <2>1. rows[g.of] \in SUBSET Caller
    BY <1>2 DEF SearchIInv, Goods
  <2> QED  BY <1>2, <2>1 DEF WithGoodId, Goods
<1> QED  BY <1>1, <1>2

\* A reply holds one good for each good that was found.
LEMMA ShapeIsOneToOne ==
    ASSUME SearchIInv, request # NoOne, NEW goods, goods \subseteq Goods,
           \A g, h \in goods : g.of = h.of => g = h
    PROVE  /\ \A a \in Shape(goods) : \E g \in goods : a.of = g.of
           /\ \A g \in goods : \E a \in Shape(goods) : a.of = g.of
           /\ \A a, b \in Shape(goods) : a.of = b.of => a = b
<1>0. request.caller \in Caller \cup {NoOne} /\ request.route \in {"price", "trade", "dealers"}
  BY DEF SearchIInv, RequestInv
<1>1. CASE request.route = "price"
  <2> DEFINE F(g) == ApplySupplier(g, request.caller)
  <2>1. Shape(goods) = {F(g) : g \in goods}
    BY <1>1 DEF Shape
  <2>2. \A g \in goods : F(g).of = g.of
    BY <1>0, ApplyKeeps DEF Keeps
  <2> HIDE DEF F
  <2> QED  BY <2>1, <2>2
<1>2. CASE request.route = "trade"
  <2> DEFINE F(g) == Trade(ApplySupplier(WithGoodId(g), request.caller), request.caller)
  <2>1. Shape(goods) = {F(g) : g \in goods}
    BY <1>2 DEF Shape
  <2>2. ASSUME NEW g \in goods PROVE F(g).of = g.of
    <3>1. WithGoodId(g) \in Goods /\ WithGoodId(g).of = g.of
      BY WithGoodIdKeeps
    <3> QED  BY <1>0, <3>1, TradeKeeps DEF Keeps
  <2> HIDE DEF F
  <2> QED  BY <2>1, <2>2
<1>3. CASE request.route = "dealers"
  <2>1. Shape(goods) = goods
    BY <1>3 DEF Shape
  <2> QED  BY <2>1
<1> QED  BY <1>0, <1>1, <1>2, <1>3

\* A set with no two different elements has at most one.
LEMMA AtMostOne ==
    ASSUME NEW S, \A x, y \in S : x = y
    PROVE  Cardinality(S) <= 1
<1>1. CASE S = {}
  BY <1>1, FS_EmptySet
<1>2. CASE S # {}
  <2>1. PICK x \in S : S = {x}
    BY <1>2
  <2> QED  BY <2>1, FS_Singleton
<1> QED  BY <1>1, <1>2

\* A reply has the goods of each supplier once, whoever gave them, and lacks only
\* those there are none of.
THEOREM SuppliersAppearOnce == Spec => []EachSupplierOnce
<1> SUFFICES ASSUME SearchIInv, reply # NoOne, reply.ok, NEW s \in Supplier
             PROVE  /\ Cardinality(OfSupplier(s)) <= 1
                    /\ OfSupplier(s) # {} => wanted = Everyone \/ s \in wanted
                    /\ OfSupplier(s) = {} =>
                         CASE s \in AskedOfApi(wanted, request.dbOnly) -> parsed[s] = Gave({})
                           [] s \in AskedOfDb(wanted, request.dbOnly) -> Good(s, "db", rows[s]) \notin fromDb
                           [] OTHER -> TRUE
  <2>1. SearchIInv => EachSupplierOnce
    BY DEF EachSupplierOnce
  <2> QED  BY <2>1, SearchInvariant, PTL
<1> DEFINE all == fromDb \cup ParserGoods
           asked == AskedOfDb(wanted, request.dbOnly) \cup AskedOfApi(wanted, request.dbOnly)
<1>1. Settled /\ Answer = Shape(all) /\ OneEach(all, asked) /\ request # NoOne
  BY GoodsOfReply DEF Answer
<1>2. /\ \A a \in Answer : \E g \in all : a.of = g.of
      /\ \A g \in all : \E a \in Answer : a.of = g.of
      /\ \A a, b \in Answer : a.of = b.of => a = b
  <2>1. all \subseteq Goods /\ \A g, h \in all : g.of = h.of => g = h
    BY <1>1 DEF OneEach
  <2> HIDE DEF all
  <2> QED  BY <1>1, <2>1, ShapeIsOneToOne
<1>3. \A a, b \in OfSupplier(s) : a = b
  BY <1>2 DEF OfSupplier
<1>4. OfSupplier(s) # {} => wanted = Everyone \/ s \in wanted
  <2>1. ASSUME NEW a \in Answer PROVE a.of \in asked
    BY <1>1, <1>2 DEF OneEach
  <2>2. \A t \in asked : wanted = Everyone \/ t \in wanted
    BY DEF AskedOfDb, AskedOfApi, Among
  <2> HIDE DEF asked
  <2> QED  BY <2>1, <2>2 DEF OfSupplier
<1>5. ASSUME OfSupplier(s) = {}
      PROVE  \A g \in all : g.of # s
  BY <1>2, <1>5 DEF OfSupplier
<1>6. ASSUME OfSupplier(s) = {}, s \in AskedOfApi(wanted, request.dbOnly)
      PROVE  parsed[s] = Gave({})
  <2>1. s \in ApiSupplier /\ parsed[s] # Off /\ parsed[s] # Asked /\ parsed[s] # Failed
    BY <1>1, <1>6 DEF AskedOfApi, Among, SearchIInv, ParsedInv, Settled, Rejected
  <2>2. parsed[s] = Gave(parsed[s].goods) /\ OneEach(parsed[s].goods, {s})
    BY <2>1 DEF SearchIInv, ParsedInv
  <2>3. parsed[s].goods = {}
    BY <1>5, <1>6, <2>1, <2>2 DEF OneEach, ParserGoods
  <2> QED  BY <2>2, <2>3
<1>7. ASSUME OfSupplier(s) = {}
      PROVE  Good(s, "db", rows[s]) \notin fromDb
  BY <1>5, <1>7 DEF Good
<1>8. AskedOfDb(wanted, request.dbOnly) \cap AskedOfApi(wanted, request.dbOnly) = {}
  BY DEF AskedOfDb, AskedOfApi, Among
<1> QED  BY <1>3, <1>4, <1>6, <1>7, <1>8, AtMostOne

\* On the routes price and trade a caller gets goods under its own codes and ids, and
\* only suppliers it listed.
LEMMA InterceptedAreOwn ==
    ASSUME SearchIInv, reply # NoOne, request.route # "dealers", NEW a \in Answer
    PROVE  /\ a.goodIds \subseteq {request.caller} \ {NoOne}
           /\ HasTable(request.caller) =>
                /\ a.of \in Known[request.caller] => a.supplier = Code(request.caller, a.of)
                /\ request.codes # Everyone /\ a.supplier # NoOne => a.supplier \in request.codes
           /\ request.caller = NoOne => a.supplier = a.of
<1> DEFINE c == request.caller
           all == fromDb \cup ParserGoods
           asked == AskedOfDb(wanted, request.dbOnly) \cup AskedOfApi(wanted, request.dbOnly)
<1>1. reply.ok
  BY DEF Answer, SearchIInv, ReplyInv
<1>2. Answer = Shape(all) /\ OneEach(all, asked) /\ request # NoOne
  BY <1>1, GoodsOfReply DEF Answer
<1>3. /\ c \in Caller \cup {NoOne} /\ request.route \in {"price", "trade"}
      /\ wanted = Transform(c, request.codes)
      /\ request.codes \in {Everyone, Supplier} \cup SUBSET CodesOf(c)
  BY <1>2 DEF SearchIInv, RequestInv
<1>4. PICK g \in all :
        /\ a.of = g.of
        /\ a.goodIds \subseteq {c} \ {NoOne}
        /\ a.supplier = IF HasTable(c) THEN SupplierCodes(c, g.of) ELSE g.of
  <2>1. \A g \in all : g \in Goods /\ g.supplier = g.of
    BY <1>2 DEF OneEach
  <2>2. CASE request.route = "price"
    <3>1. PICK g \in all : a = ApplySupplier(g, c)
      BY <1>2, <2>2 DEF Shape
    <3>2. Keeps(a, g, c)
      BY <1>3, <2>1, <3>1, ApplyKeeps
    <3> QED  BY <2>1, <3>2 DEF Keeps
  <2>3. CASE request.route = "trade"
    <3>1. PICK g \in all : a = Trade(ApplySupplier(WithGoodId(g), c), c)
      BY <1>2, <2>3 DEF Shape
    <3>2. WithGoodId(g) \in Goods /\ WithGoodId(g).of = g.of /\ WithGoodId(g).supplier = g.of
      BY <2>1, WithGoodIdKeeps
    <3>3. Keeps(a, WithGoodId(g), c)
      BY <1>3, <3>1, <3>2, TradeKeeps
    <3> QED  BY <3>2, <3>3 DEF Keeps
  <2> QED  BY <1>3, <2>2, <2>3
<1>5. g.of \in Supplier /\ g.of \in asked
  BY <1>2 DEF OneEach, Goods
<1>6. ASSUME HasTable(c), g.of \in Known[c]
      PROVE  a.supplier = Code(c, g.of)
  <2>1. SupplierCodes(c, g.of) = Code(c, g.of)
    <3>1. c \in Caller /\ Supplier \cap CodesOf(c) = {} /\ Known[c] \subseteq Supplier
      BY <1>3, <1>6, SearchAssumption DEF HasTable
    <3>2. g.of \notin {Code(c, s) : s \in Known[c]}
      BY <1>5, <3>1 DEF CodesOf
    <3> QED  BY <1>6, <3>2 DEF SupplierCodes
  <2> QED  BY <1>4, <1>6, <2>1
<1>7. ASSUME HasTable(c), request.codes # Everyone, a.supplier # NoOne
      PROVE  a.supplier \in request.codes
  <2>1. c \in Caller /\ Known[c] \subseteq Supplier /\ Supplier \cap CodesOf(c) = {}
    BY <1>3, <1>7, SearchAssumption DEF HasTable
  <2>2. g.of \in Known[c] /\ a.supplier = Code(c, g.of)
    BY <1>4, <1>5, <1>7, <2>1 DEF SupplierCodes, CodesOf
  <2>3. wanted = {IF SupplierCodes(c, x) = NoOne THEN x ELSE SupplierCodes(c, x) : x \in request.codes}
    BY <1>3, <1>7 DEF Transform
  <2>4. wanted \subseteq Supplier \cup CodesOf(c)
    BY <1>3, <1>7, <2>1, <2>3 DEF SupplierCodes, CodesOf, Code
  <2>5. g.of \in wanted
    BY <1>5, <2>1, <2>4, SearchAssumption DEF AskedOfDb, AskedOfApi, Among
  <2>6. PICK x \in request.codes : g.of = IF SupplierCodes(c, x) = NoOne THEN x ELSE SupplierCodes(c, x)
    BY <2>3, <2>5
  <2>7. CASE request.codes = Supplier
    <3>1. x \in Supplier /\ x \notin CodesOf(c)
      BY <2>1, <2>7
    <3>2. CASE x \in Known[c]
      <4>1. SupplierCodes(c, x) = Code(c, x) /\ Code(c, x) \in CodesOf(c) /\ Code(c, x) # NoOne
        BY <2>1, <3>1, <3>2, SearchAssumption DEF SupplierCodes, CodesOf
      <4> QED  BY <1>5, <2>1, <2>6, <4>1
    <3>3. CASE x \notin Known[c]
      <4>1. SupplierCodes(c, x) = NoOne
        BY <2>1, <3>1, <3>3 DEF SupplierCodes, CodesOf
      <4> QED  BY <2>2, <2>6, <3>3, <4>1
    <3> QED  BY <3>2, <3>3
  <2>8. CASE request.codes \subseteq CodesOf(c)
    <3>1. PICK s \in Supplier : x = Code(c, s)
      BY <2>8 DEF CodesOf
    <3>2. x \notin Supplier
      BY <2>1, <2>8
    <3>3. x \in {Code(c, t) : t \in Known[c]}
      BY <1>5, <2>1, <2>6, <3>2 DEF SupplierCodes
    <3>4. SupplierCodes(c, x) = x.supplier /\ x.supplier = s
      BY <2>1, <3>1, <3>2, <3>3 DEF SupplierCodes, Code
    <3>5. g.of = s
      BY <2>6, <3>1, <3>4, SearchAssumption
    <3> QED  BY <2>2, <3>1, <3>5
  <2> QED  BY <1>3, <1>7, <2>7, <2>8
<1>8. c = NoOne => a.supplier = a.of
  BY <1>4 DEF HasTable
<1> QED  BY <1>4, <1>6, <1>7, <1>8

\* The route dealers answers with the goods as they were found.
LEMMA DealersAreAsFound ==
    ASSUME SearchIInv, reply # NoOne, request.route = "dealers", NEW a \in Answer
    PROVE  a.supplier = a.of /\ (a.goodIds # {} => a.source = "db")
<1>1. reply.ok
  BY DEF Answer, SearchIInv, ReplyInv
<1>2. Answer = fromDb \cup ParserGoods
  BY <1>1, GoodsOfReply DEF Answer, Shape
<1> QED  BY <1>1, <1>2, GoodsOfReply DEF OneEach

\* A caller of price or trade gets goods under its own codes and ids, and only
\* suppliers it listed; dealers get stored goods with the ids of every client.
THEOREM CallersGetTheirOwn == Spec => []CallersSeeTheirOwn
<1>1. SearchIInv => CallersSeeTheirOwn
  BY InterceptedAreOwn, DealersAreAsFound DEF CallersSeeTheirOwn
<1> QED  BY <1>1, SearchInvariant, PTL
=============================================================================
