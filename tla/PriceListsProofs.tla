--------------------------- MODULE PriceListsProofs ---------------------------
(***************************************************************************)
(* Proofs about the parsers of price lists, for any rows of the shapes     *)
(* PriceLists assumes and any number of them.                              *)
(***************************************************************************)
EXTENDS PriceLists, FiniteSetTheorems, SequenceTheorems, WellFoundedInduction, TLAPS

----------------------------------------------------------------------------
(***************************************************************************)
(* Of the valid rows of a code the one with the largest quantity is held,  *)
(* and nothing as long as none has come.                                   *)
(***************************************************************************)
FulcrumRows(c) == {i \in DOMAIN read : read[i].code = c /\ FulcrumValid(read[i])}
MicroemRows(c) == {i \in DOMAIN read : read[i].code = c /\ MicroemValid(i - 1, read[i])}

HoldsLargest(kept, s, rows) ==
    IF kept = None THEN rows = {}
    ELSE \E i \in rows : kept = s[i] /\ \A j \in rows : s[j].quantity <= s[i].quantity

FulcrumInv ==
    list = "fulcrum" =>
        /\ read \in Seq(Rows.fulcrum)
        /\ held \in [Codes -> Rows.fulcrum \cup {None}]
        /\ \A c \in Codes : HoldsLargest(held[c], read, FulcrumRows(c))
        /\ goods = {Fulcrum(c, held[c]) : c \in Known(held)}

MicroemInv ==
    list = "microem" =>
        /\ read \in Seq(Rows.microem)
        /\ held \in [Codes -> Rows.microem \cup {None}]
        /\ \A c \in Codes : HoldsLargest(held[c], read, MicroemRows(c))
        /\ goods = {Microem(c, held[c]) : c \in Known(held)}

LEMMA AppendFacts ==
    ASSUME NEW S, NEW s \in Seq(S), NEW e \in S
    PROVE  /\ Append(s, e) \in Seq(S)
           /\ Len(s) \in Nat /\ DOMAIN s = 1..Len(s)
           /\ DOMAIN Append(s, e) = DOMAIN s \cup {Len(s) + 1} /\ Len(s) + 1 \notin DOMAIN s
           /\ Append(s, e)[Len(s) + 1] = e
           /\ \A i \in DOMAIN s : Append(s, e)[i] = s[i] /\ s[i] \in S /\ i \in Nat /\ i > 0
BY AppendProperties, LenProperties

\* A row that is added to the valid ones of its code, and is held if it has more.
LEMMA LargestIsKept ==
    ASSUME NEW S, NEW s \in Seq(S), NEW row \in S, row # None,
           NEW rows \in SUBSET DOMAIN s, NEW kept, HoldsLargest(kept, s, rows),
           row.quantity \in Int, \A i \in rows : s[i].quantity \in Int,
           NEW now, now = IF kept = None \/ row.quantity > kept.quantity THEN row ELSE kept
    PROVE  HoldsLargest(now, Append(s, row), rows \cup {Len(s) + 1})
<1> DEFINE last == Len(s) + 1
           longer == Append(s, row)
<1> SUFFICES HoldsLargest(now, longer, rows \cup {last})
  OBVIOUS
<1>1. longer[last] = row /\ \A i \in rows : longer[i] = s[i] /\ i # last
  BY AppendFacts
<1> HIDE DEF last, longer
<1>2. CASE kept = None
  BY <1>1, <1>2 DEF HoldsLargest
<1>3. CASE kept # None
  <2>1. PICK i \in rows : kept = s[i] /\ \A j \in rows : s[j].quantity <= s[i].quantity
    BY <1>3 DEF HoldsLargest
  <2>2. CASE row.quantity > kept.quantity
    <3>1. now = row
      BY <2>2
    <3>2. \A j \in rows \cup {last} : longer[j].quantity <= longer[last].quantity
      BY <1>1, <2>1, <2>2
    <3> QED  BY <1>1, <3>1, <3>2 DEF HoldsLargest
  <2>3. CASE ~(row.quantity > kept.quantity)
    BY <1>1, <1>3, <2>1, <2>3 DEF HoldsLargest
  <2> QED  BY <2>2, <2>3
<1> QED  BY <1>2, <1>3

\* Rows that are not added to a code's leave what is held of it.
LEMMA LargestStays ==
    ASSUME NEW S, NEW s \in Seq(S), NEW row \in S,
           NEW rows \in SUBSET DOMAIN s, NEW kept, HoldsLargest(kept, s, rows)
    PROVE  HoldsLargest(kept, Append(s, row), rows)
<1>1. \A i \in rows : Append(s, row)[i] = s[i]
  BY AppendFacts
<1> QED  BY <1>1 DEF HoldsLargest

LEMMA FulcrumRowIsSound ==
    ASSUME FulcrumInv, list = "fulcrum", NEW row \in Rows.fulcrum, FulcrumRow(row)
    PROVE  FulcrumInv'
<1> DEFINE last == Len(read) + 1
<1>1. /\ read \in Seq(Rows.fulcrum) /\ held \in [Codes -> Rows.fulcrum \cup {None}]
      /\ read' = Append(read, row) /\ held' = FulcrumHeld(held, row) /\ list' = list
      /\ goods' = {Fulcrum(c, held'[c]) : c \in Known(held')}
  BY DEF FulcrumInv, FulcrumRow, Collect
<1>2. row.code \in Codes /\ row # None
  BY MergedAssumption
<1>3. read' \in Seq(Rows.fulcrum) /\ held' \in [Codes -> Rows.fulcrum \cup {None}]
  BY <1>1, <1>2, AppendFacts DEF FulcrumHeld
<1>4. ASSUME NEW c \in Codes PROVE HoldsLargest(held'[c], read', FulcrumRows(c)')
  <2> DEFINE rows == FulcrumRows(c)
  <2>1. rows \in SUBSET DOMAIN read /\ HoldsLargest(held[c], read, rows)
    BY DEF FulcrumRows, FulcrumInv
  <2>2. \A i \in DOMAIN read : read[i].quantity \in Cell
    BY <1>1, AppendFacts, MergedAssumption
  <2>3. \A i \in rows : read[i].quantity \in Int
    BY <2>2 DEF FulcrumRows, FulcrumValid, IsPositive, Cell
  <2>4. FulcrumRows(c)' = IF row.code = c /\ FulcrumValid(row) THEN rows \cup {last} ELSE rows
    BY <1>1, AppendFacts DEF FulcrumRows
  <2>5. CASE row.code = c /\ FulcrumValid(row)
    <3>1. row.quantity \in Int
      BY <2>5, MergedAssumption DEF FulcrumValid, IsPositive, Cell
    <3>2. held[c] # None => held[c].quantity \in Int
      BY <2>1, <2>3 DEF HoldsLargest
    <3>3. held'[c] = IF held[c] = None \/ row.quantity > held[c].quantity THEN row ELSE held[c]
      BY <1>1, <1>2, <2>5, <3>1, <3>2, NaNAssumption DEF FulcrumHeld, More
    <3> HIDE DEF rows
    <3>4. HoldsLargest(held'[c], Append(read, row), rows \cup {Len(read) + 1})
      BY <1>1, <1>2, <2>1, <2>3, <3>1, <3>3, LargestIsKept
    <3> QED  BY <1>1, <2>4, <2>5, <3>4
  <2>6. CASE ~(row.code = c /\ FulcrumValid(row))
    <3>1. held'[c] = held[c]
      BY <1>1, <2>6 DEF FulcrumHeld
    <3> HIDE DEF rows
    <3>2. HoldsLargest(held[c], Append(read, row), rows)
      BY <1>1, <2>1, LargestStays
    <3> QED  BY <1>1, <2>4, <2>6, <3>1, <3>2
  <2> QED  BY <2>5, <2>6
<1> QED  BY <1>1, <1>3, <1>4 DEF FulcrumInv

LEMMA MicroemRowIsSound ==
    ASSUME MicroemInv, list = "microem", NEW row \in Rows.microem, MicroemRow(row)
    PROVE  MicroemInv'
<1>1. /\ read \in Seq(Rows.microem) /\ held \in [Codes -> Rows.microem \cup {None}]
      /\ read' = Append(read, row) /\ held' = MicroemHeld(held, Len(read), row) /\ list' = list
      /\ goods' = {Microem(c, held'[c]) : c \in Known(held')}
  BY DEF MicroemInv, MicroemRow, Collect
<1>2. row.code \in Codes /\ row # None
  BY MergedAssumption
<1>3. read' \in Seq(Rows.microem) /\ held' \in [Codes -> Rows.microem \cup {None}]
  BY <1>1, <1>2, AppendFacts DEF MicroemHeld
<1>4. ASSUME NEW c \in Codes PROVE HoldsLargest(held'[c], read', MicroemRows(c)')
  <2> DEFINE rows == MicroemRows(c)
             valid == MicroemValid(Len(read), row)
  <2>1. rows \in SUBSET DOMAIN read /\ HoldsLargest(held[c], read, rows)
    BY DEF MicroemRows, MicroemInv
  <2>2. \A i \in DOMAIN read : read[i].quantity \in Cell
    BY <1>1, AppendFacts, MergedAssumption
  <2>3. \A i \in rows : read[i].quantity \in Int
    BY <2>2 DEF MicroemRows, MicroemValid, Cell
  <2>4. MicroemRows(c)' = IF row.code = c /\ valid THEN rows \cup {Len(read) + 1} ELSE rows
    <3>1. Len(read) + 1 - 1 = Len(read)
      BY <1>1, AppendFacts
    <3> QED  BY <1>1, <3>1, AppendFacts DEF MicroemRows
  <2>5. CASE row.code = c /\ valid
    <3>1. row.quantity \in Int
      BY <2>5, MergedAssumption DEF MicroemValid, Cell
    <3>2. held[c] # None => held[c].quantity \in Int
      BY <2>1, <2>3 DEF HoldsLargest
    <3>3. held'[c] = IF held[c] = None \/ row.quantity > held[c].quantity THEN row ELSE held[c]
      BY <1>1, <1>2, <2>5, <3>1, <3>2, NaNAssumption DEF MicroemHeld, More
    <3> HIDE DEF rows
    <3>4. HoldsLargest(held'[c], Append(read, row), rows \cup {Len(read) + 1})
      BY <1>1, <1>2, <2>1, <2>3, <3>1, <3>3, LargestIsKept
    <3> QED  BY <1>1, <2>4, <2>5, <3>4
  <2>6. CASE ~(row.code = c /\ valid)
    <3>1. held'[c] = held[c]
      BY <1>1, <2>6 DEF MicroemHeld
    <3> HIDE DEF rows
    <3>2. HoldsLargest(held[c], Append(read, row), rows)
      BY <1>1, <2>1, LargestStays
    <3> QED  BY <1>1, <2>4, <2>6, <3>1, <3>2
  <2> QED  BY <2>5, <2>6
<1> QED  BY <1>1, <1>3, <1>4 DEF MicroemInv

\* A parser reads one list from beginning to end.
LEMMA ListStays == [Next]_vars => list' = list
BY DEF Next, SheetRow, ApiItem, MergedRow, MakePriced, Make, FulcrumRow, MicroemRow, EcompRow,
       ElcoRow, Collect, vars

LEMMA LargestInvariant == Spec => [](FulcrumInv /\ MicroemInv)
<1>1. Init => FulcrumInv /\ MicroemInv
  <2> SUFFICES ASSUME Init PROVE FulcrumInv /\ MicroemInv
    OBVIOUS
  <2>1. /\ \A c \in Codes : held[c] = None /\ FulcrumRows(c) = {} /\ MicroemRows(c) = {}
        /\ held = [c \in Codes |-> None] /\ read = <<>> /\ goods = {} /\ Known(held) = {}
    BY DEF Init, FulcrumRows, MicroemRows, Known
  <2> QED  BY <2>1, EmptySeq DEF FulcrumInv, MicroemInv, HoldsLargest
<1>2. FulcrumInv /\ MicroemInv /\ [Next]_vars => FulcrumInv' /\ MicroemInv'
  <2> SUFFICES ASSUME FulcrumInv, MicroemInv, [Next]_vars PROVE FulcrumInv' /\ MicroemInv'
    OBVIOUS
  <2>1. CASE list = "fulcrum"
    <3>1. CASE UNCHANGED vars
      BY <3>1 DEF vars, FulcrumInv, MicroemInv, FulcrumRows, MicroemRows, HoldsLargest, Known
    <3>2. CASE Next
      <4>1. PICK row \in Rows.fulcrum : FulcrumRow(row)
        BY <2>1, <3>2 DEF Next, SheetRow, ApiItem, MergedRow
      <4> QED  BY <2>1, <4>1, FulcrumRowIsSound, ListStays DEF MicroemInv
    <3> QED  BY <3>1, <3>2
  <2>2. CASE list = "microem"
    <3>1. CASE UNCHANGED vars
      BY <3>1 DEF vars, FulcrumInv, MicroemInv, FulcrumRows, MicroemRows, HoldsLargest, Known
    <3>2. CASE Next
      <4>1. PICK row \in Rows.microem : MicroemRow(row)
        BY <2>2, <3>2 DEF Next, SheetRow, ApiItem, MergedRow
      <4> QED  BY <2>2, <4>1, MicroemRowIsSound, ListStays DEF FulcrumInv
    <3> QED  BY <3>1, <3>2
  <2>3. CASE list \notin {"fulcrum", "microem"}
    BY <2>3, ListStays DEF FulcrumInv, MicroemInv
  <2> QED  BY <2>1, <2>2, <2>3
<1> QED  BY <1>1, <1>2, PTL DEF Spec

\* The largest of some numbers, when one of them is known to be.
LEMMA MaxIsLargest ==
    ASSUME NEW S \in SUBSET Int, NEW x \in S, \A y \in S : y <= x
    PROVE  Max(S) = x
<1> DEFINE Greatest(z) == z \in S /\ \A y \in S : z >= y
<1>1. Greatest(x)
  OBVIOUS
<1>2. Max(S) = CHOOSE z : Greatest(z)
  BY DEF Max
<1>3. Greatest(Max(S))
  BY <1>1, <1>2
<1>4. Max(S) \in Int /\ Max(S) <= x /\ x <= Max(S)
  BY <1>3
<1> QED  BY <1>4

(***************************************************************************)
(* One good is written for a code with valid rows, with the largest of     *)
(* their quantities and a price of a row that has it.                      *)
(***************************************************************************)
CollapsesTo(code, rows) ==
    LET written == {g \in goods : g.code = code}
        quantities == {read[i].quantity : i \in rows}
    IN  /\ Cardinality(written) = Cardinality({code : i \in rows})
        /\ \A g \in written : \A w \in g.warehouses :
              /\ w.quantity = Max(quantities)
              /\ \E i \in rows : /\ read[i].quantity = w.quantity
                                 /\ \E b \in w.prices : b.value = read[i].price

LEMMA LargestCollapses ==
    ASSUME NEW code \in Codes, NEW rows \in SUBSET DOMAIN read, \A i \in rows : read[i].quantity \in Int,
           HoldsLargest(held[code], read, rows), NEW made, NEW prices,
           {g \in goods : g.code = code} = IF held[code] = None THEN {} ELSE {made},
           held[code] # None =>
               /\ made.warehouses = {Warehouse("CENTER", held[code].quantity, 1, prices)}
               /\ \E b \in prices : b.value = held[code].price
    PROVE  CollapsesTo(code, rows)
<1> DEFINE quantities == {read[i].quantity : i \in rows}
<1>1. CASE held[code] = None
  <2>1. rows = {}
    BY <1>1 DEF HoldsLargest
  <2>2. {g \in goods : g.code = code} = {} /\ {code : i \in rows} = {}
    BY <1>1, <2>1
  <2> QED  BY <2>2 DEF CollapsesTo
<1>2. CASE held[code] # None
  <2>1. PICK i \in rows : held[code] = read[i] /\ \A j \in rows : read[j].quantity <= read[i].quantity
    BY <1>2 DEF HoldsLargest
  <2>2. Max(quantities) = read[i].quantity
    BY <2>1, MaxIsLargest
  <2>3. {g \in goods : g.code = code} = {made} /\ {code : j \in rows} = {code}
    BY <1>2, <2>1
  <2>4. Cardinality({made}) = 1 /\ Cardinality({code}) = 1
    BY FS_Singleton
  <2>5. \A w \in made.warehouses : w.quantity = read[i].quantity /\ w.prices = prices
    BY <1>2, <2>1 DEF Warehouse
  <2>6. \E b \in prices : b.value = read[i].price
    BY <1>2, <2>1
  <2> QED  BY <2>2, <2>3, <2>4, <2>5, <2>6 DEF CollapsesTo
<1> QED  BY <1>1, <1>2

(***************************************************************************)
(* However many rows bring a code and in whatever order, fulcrum and       *)
(* microem write it once, with its largest quantity.                       *)
(***************************************************************************)
THEOREM DuplicatesAlwaysCollapse == Spec => []DuplicatesCollapse
<1>1. FulcrumInv /\ MicroemInv => DuplicatesCollapse
  <2> SUFFICES ASSUME FulcrumInv, MicroemInv, NEW code \in Codes, list \in {"fulcrum", "microem"}
               PROVE  CollapsesTo(code, IF list = "fulcrum" THEN FulcrumRows(code) ELSE MicroemRows(code))
    BY DEF DuplicatesCollapse, CollapsesTo, RowsOf, FulcrumRows, MicroemRows
  <2>1. CASE list = "fulcrum"
    <3> DEFINE rows == FulcrumRows(code)
    <3>1. rows \in SUBSET DOMAIN read /\ HoldsLargest(held[code], read, rows)
      BY <2>1 DEF FulcrumRows, FulcrumInv
    <3>2. \A i \in rows : read[i].quantity \in Int
      BY <2>1, LenProperties, MergedAssumption DEF FulcrumInv, FulcrumRows, FulcrumValid, IsPositive, Cell
    <3>3. {g \in goods : g.code = code}
            = IF held[code] = None THEN {} ELSE {Fulcrum(code, held[code])}
      <4>1. \A c : Fulcrum(c, held[c]).code = c
        BY DEF Fulcrum, Good
      <4> QED  BY <2>1, <4>1 DEF FulcrumInv, Known
    <3>4. /\ Fulcrum(code, held[code]).warehouses
                = {Warehouse("CENTER", held[code].quantity, 1, BuildFulcrumPrices(held[code]))}
          /\ \E b \in BuildFulcrumPrices(held[code]) : b.value = held[code].price
      BY DEF Fulcrum, Good, BuildFulcrumPrices, Band
    <3> HIDE DEF rows
    <3>5. CollapsesTo(code, rows)
      BY <3>1, <3>2, <3>3, <3>4, LargestCollapses
    <3> QED  BY <2>1, <3>5 DEF rows
  <2>2. CASE list = "microem"
    <3> DEFINE rows == MicroemRows(code)
    <3>1. rows \in SUBSET DOMAIN read /\ HoldsLargest(held[code], read, rows)
      BY <2>2 DEF MicroemRows, MicroemInv
    <3>2. \A i \in rows : read[i].quantity \in Int
      BY <2>2, LenProperties, MergedAssumption DEF MicroemInv, MicroemRows, MicroemValid, Cell
    <3>3. {g \in goods : g.code = code}
            = IF held[code] = None THEN {} ELSE {Microem(code, held[code])}
      <4>1. \A c : Microem(c, held[c]).code = c
        BY DEF Microem, Good
      <4> QED  BY <2>2, <4>1 DEF MicroemInv, Known
    <3>4. /\ Microem(code, held[code]).warehouses
                = {Warehouse("CENTER", held[code].quantity, 1, {Band(held[code].price, 1, 0)})}
          /\ \E b \in {Band(held[code].price, 1, 0)} : b.value = held[code].price
      BY DEF Microem, Good, Band
    <3> HIDE DEF rows
    <3>5. CollapsesTo(code, rows)
      BY <3>1, <3>2, <3>3, <3>4, LargestCollapses
    <3> QED  BY <2>2, <3>5 DEF rows
  <2> QED  BY <2>1, <2>2
<1> QED  BY <1>1, LargestInvariant, PTL

----------------------------------------------------------------------------
\* Where wholesale starts, said without the division the parser computes it by.
LEMMA WholesaleStarts ==
    ASSUME NEW price \in Count, NEW q \in Count
    PROVE  /\ FulcrumOptMin(price) \in Int /\ FulcrumOptMin(price) >= 2
           /\ (q >= FulcrumOptMin(price)) <=> (q >= 2 /\ (q >= 10 \/ q * price >= 100000))
<1>1. Ceil(100000, price) \in Int
  BY DEF Ceil, Count
<1>2. (q >= Ceil(100000, price)) <=> (q * price >= 100000)
  BY DEF Ceil, Count
<1> HIDE DEF Ceil
<1> QED  BY <1>1, <1>2 DEF FulcrumOptMin, Larger, Smaller, Count

LEMMA WholesaleBands ==
    ASSUME NEW row, row.price \in Count, row.priceOpt \in Cell, NEW q \in Count
    PROVE  {b.value : b \in Charged(BuildFulcrumPrices(row), q)}
             = {IF Truthy(row.priceOpt) /\ q >= 2 /\ (q >= 10 \/ q * row.price >= 100000)
                THEN row.priceOpt ELSE row.price}
<1> DEFINE least == FulcrumOptMin(row.price)
           single == Band(row.price, 1, 0)
           low == Band(row.price, 1, least - 1)
           high == Band(row.priceOpt, least, 0)
<1>1. /\ least \in Int /\ least >= 2
      /\ (q >= least) <=> (q >= 2 /\ (q >= 10 \/ q * row.price >= 100000))
  BY WholesaleStarts
<1> HIDE DEF least
<1>2. /\ ~single.isOrdinary /\ Covers(single, q) /\ single.value = row.price
      /\ ~low.isOrdinary /\ low.value = row.price /\ (Covers(low, q) <=> q < least)
      /\ ~high.isOrdinary /\ high.value = row.priceOpt /\ (Covers(high, q) <=> q >= least)
  BY <1>1, NaNAssumption DEF Band, Covers, Count
<1> HIDE DEF single, low, high
<1>3. CASE ~Truthy(row.priceOpt)
  <2>1. BuildFulcrumPrices(row) = {single}
    BY <1>3 DEF BuildFulcrumPrices, single
  <2>2. Charged(BuildFulcrumPrices(row), q) = {single}
    BY <1>2, <2>1 DEF Charged
  <2> QED  BY <1>2, <1>3, <2>2
<1>4. CASE Truthy(row.priceOpt)
  <2>1. BuildFulcrumPrices(row) = {low, high}
    BY <1>4 DEF BuildFulcrumPrices, low, high, least
  <2>2. Charged(BuildFulcrumPrices(row), q) = IF q >= least THEN {high} ELSE {low}
    BY <1>1, <1>2, <2>1 DEF Charged, Count
  <2> QED  BY <1>1, <1>2, <1>4, <2>2
<1> QED  BY <1>3, <1>4

(***************************************************************************)
(* fulcrum's bands give each quantity the price its comment promises, for  *)
(* any prices and quantities: wholesale from ten pieces or 1000 roubles,   *)
(* not below two pieces, and one price for every quantity.                 *)
(***************************************************************************)
THEOREM WholesaleIsAlwaysFromTheSum == Spec => []WholesaleFromTheSum
<1>1. FulcrumInv => WholesaleFromTheSum
  <2> SUFFICES ASSUME FulcrumInv, list = "fulcrum", NEW g \in goods, NEW w \in g.warehouses,
                      NEW q \in 1..MaxPacks
               PROVE  LET row == held[g.code]
                          wholesale == /\ Truthy(row.priceOpt) /\ q >= 2
                                       /\ (q >= 10 \/ q * row.price >= 100000)
                      IN  {b.value : b \in Charged(w.prices, q)}
                              = {IF wholesale THEN row.priceOpt ELSE row.price}
    BY DEF WholesaleFromTheSum
  <2>1. PICK c \in Known(held) : g = Fulcrum(c, held[c])
    BY DEF FulcrumInv
  <2>2. g.code = c /\ w.prices = BuildFulcrumPrices(held[c]) /\ c \in Codes /\ held[c] # None
    BY <2>1 DEF Fulcrum, Good, Warehouse, Known
  <2>3. PICK i \in FulcrumRows(c) : held[c] = read[i]
    BY <2>2 DEF FulcrumInv, HoldsLargest
  <2>4. read[i] \in Rows.fulcrum /\ FulcrumValid(read[i])
    BY <2>3, LenProperties DEF FulcrumInv, FulcrumRows
  <2>5. held[c].price \in Count /\ held[c].priceOpt \in Cell
    BY <2>3, <2>4, MergedAssumption DEF FulcrumValid, IsPositive, Cell, Count
  <2>6. q \in Count
    BY BoundsAssumption DEF Count
  <2> QED  BY <2>2, <2>5, <2>6, WholesaleBands
<1> QED  BY <1>1, LargestInvariant, PTL

----------------------------------------------------------------------------
(***************************************************************************)
(* Bands against tariffs.  When the first k steps are filled, the step     *)
(* that holds for q is the one q lies within.                              *)
(***************************************************************************)
TariffOf(n) == [1..n -> [min : Cell, value : Cell]]

SpelledBy(steps, k) ==
    /\ \A i \in DOMAIN steps : IF i <= k THEN Filled(steps[i]) ELSE Empty(steps[i])
    /\ \A i, j \in 1..k : i < j => steps[i].min < steps[j].min

Within(steps, k, q) ==
    {i \in 1..k : steps[i].min <= q /\ (i < k => q < steps[i + 1].min)}

LEMMA AskedWithin ==
    ASSUME NEW n \in Nat, NEW steps \in TariffOf(n), NEW k \in 1..n, SpelledBy(steps, k), NEW q \in Int
    PROVE  Asked(steps, q) = {steps[i].value : i \in Within(steps, k, q)}
<1> DEFINE reached == {i \in DOMAIN steps :
                          /\ Filled(steps[i])
                          /\ steps[i].min <= q
                          /\ \A j \in DOMAIN steps : j > i /\ Filled(steps[j]) => q < steps[j].min}
<1>1. /\ DOMAIN steps = 1..n
      /\ \A i \in 1..n : steps[i].min \in Cell /\ steps[i].value \in Cell
  BY DEF TariffOf
<1>2. \A i \in 1..n : Filled(steps[i]) <=> i <= k
  BY <1>1, NaNAssumption DEF SpelledBy, Filled, Empty, IsPositive, Truthy
<1>3. \A i \in 1..k : i \in 1..n /\ steps[i].min \in Int /\ (i < k => i + 1 \in 1..k)
  BY <1>1, <1>2 DEF Filled, IsPositive, Cell
<1>4. ASSUME NEW i \in 1..k
      PROVE  i \in reached <=> i \in Within(steps, k, q)
  <2>1. i \in reached => i \in Within(steps, k, q)
    BY <1>1, <1>2, <1>3 DEF Within
  <2>2. i \in Within(steps, k, q) => \A j \in 1..k : j > i => q < steps[j].min
    <3> SUFFICES ASSUME i \in Within(steps, k, q), NEW j \in 1..k, j > i PROVE q < steps[j].min
      OBVIOUS
    <3>1. i < k /\ q < steps[i + 1].min /\ i + 1 \in 1..k
      BY DEF Within
    <3>2. j = i + 1 \/ steps[i + 1].min < steps[j].min
      BY <3>1 DEF SpelledBy
    <3> QED  BY <1>3, <3>1, <3>2
  <2> QED  BY <1>1, <1>2, <1>3, <2>1, <2>2 DEF Within
<1>5. reached = Within(steps, k, q)
  BY <1>1, <1>2, <1>4 DEF Within
<1> QED  BY <1>5 DEF Asked

LEMMA WithinOne ==
    ASSUME NEW n \in Nat, NEW steps \in TariffOf(n), NEW k \in 1..n, SpelledBy(steps, k), NEW q \in Int,
           NEW i \in Within(steps, k, q), NEW j \in Within(steps, k, q)
    PROVE  i = j
<1>1. \A m \in 1..k : steps[m].min \in Int
  BY DEF TariffOf, SpelledBy, Filled, IsPositive, Cell
<1>2. ASSUME NEW a \in Within(steps, k, q), NEW b \in Within(steps, k, q), a < b PROVE FALSE
  <2>1. a \in 1..k /\ b \in 1..k /\ a + 1 \in 1..k /\ q < steps[a + 1].min /\ steps[b].min <= q
    BY <1>2 DEF Within
  <2>2. a + 1 = b \/ steps[a + 1].min < steps[b].min
    BY <1>2, <2>1 DEF SpelledBy
  <2> QED  BY <1>1, <2>1, <2>2
<1> QED  BY <1>2 DEF Within

\* Bands that cover a quantity just when it lies within their step charge it.
LEMMA WithinCharges ==
    ASSUME NEW n \in Nat, NEW steps \in TariffOf(n), NEW k \in 1..n, SpelledBy(steps, k), NEW q \in Int,
           NEW band, \A i \in 1..k : band[i].value = steps[i].value,
           NEW bands, bands = {band[i] : i \in Within(steps, k, q)}
    PROVE  Charges(bands, steps, q)
<1>1. {b.value : b \in bands} = Asked(steps, q)
  <2>1. \A i \in Within(steps, k, q) : band[i].value = steps[i].value
    BY DEF Within
  <2> QED  BY <2>1, AskedWithin
<1>2. Cardinality(bands) <= 1
  <2>1. CASE bands = {}
    BY <2>1, FS_EmptySet
  <2>2. CASE bands # {}
    <3>1. PICK b : bands = {b}
      BY <2>2, WithinOne
    <3> QED  BY <3>1, FS_Singleton
  <2> QED  BY <2>1, <2>2
<1> QED  BY <1>1, <1>2 DEF Charges

\* So do bands that end one piece below the next step, when every step starts at
\* a positive quantity; they may start later, at the smallest quantity sold.
Rise(band, steps, n, least) ==
    \A i \in 1..n : /\ steps[i].min \in Count
                    /\ band[i].value = steps[i].value
                    /\ band[i].min = Larger(least, steps[i].min)
                    /\ band[i].max = IF i = n THEN 0 ELSE steps[i + 1].min - 1

Covering(bands, q) == {b \in bands : Covers(b, q)}
BandsOf(band, n) == {band[i] : i \in 1..n}

LEMMA RisingCharges ==
    ASSUME NEW n \in Nat, NEW steps \in TariffOf(n), Spelled(steps),
           NEW least \in Int, NEW q \in Int, q >= least, NEW band, Rise(band, steps, n, least)
    PROVE  Charges(Covering(BandsOf(band, n), q), steps, q)
<1>1. /\ DOMAIN steps = 1..n
      /\ \A i \in 1..n : /\ steps[i].min \in Count
                         /\ band[i].value = steps[i].value
                         /\ band[i].min = Larger(least, steps[i].min)
                         /\ band[i].max = IF i = n THEN 0 ELSE steps[i + 1].min - 1
  BY DEF TariffOf, Rise
<1>2. PICK k \in 1..n : SpelledBy(steps, k)
  BY <1>1 DEF Spelled, SpelledBy
<1>3. k = n
  <2>1. \A i \in 1..n : i <= k
    BY <1>1, <1>2, NaNAssumption DEF SpelledBy, Empty, Truthy, Count
  <2> QED  BY <2>1
<1>4. ASSUME NEW i \in 1..n PROVE Covers(band[i], q) <=> i \in Within(steps, n, q)
  <2>1. /\ steps[i].min \in Count
        /\ i < n => i + 1 \in 1..n
        /\ i < n => steps[i + 1].min \in Count /\ steps[i].min < steps[i + 1].min
    BY <1>1, <1>2, <1>3 DEF SpelledBy
  <2>2. band[i].min \in Int /\ band[i].max \in Int
    BY <1>1, <2>1 DEF Larger, Count
  <2>3. band[i].min <= q <=> steps[i].min <= q
    BY <1>1, <2>1 DEF Larger, Count
  <2>4. (band[i].max = 0 \/ q <= band[i].max) <=> (i < n => q < steps[i + 1].min)
    BY <1>1, <2>1 DEF Count
  <2> QED  BY <2>2, <2>3, <2>4, NaNAssumption DEF Covers, Within
<1>5. Covering(BandsOf(band, n), q) = {band[i] : i \in Within(steps, n, q)}
  BY <1>4 DEF Within, Covering, BandsOf
<1>6. SpelledBy(steps, n) /\ n \in 1..n /\ \A i \in 1..n : band[i].value = steps[i].value
  BY <1>1, <1>2, <1>3
<1> QED  BY <1>5, <1>6, WithinCharges

\* A warehouse whose bands rise with a tariff sells by it.
Buying(w) == {b \in w.prices : ~b.isOrdinary}
Retail(w) == {b \in w.prices : b.isOrdinary}

LEMMA RisingSells ==
    ASSUME NEW w, w.multiple \in Int, NEW least \in Int, NEW from \in Int, from >= least,
           NEW n \in Nat, NEW steps \in TariffOf(n), NEW band, Rise(band, steps, n, least),
           Spelled(steps) => Buying(w) = BandsOf(band, n),
           NEW m \in Nat, NEW retail \in TariffOf(m), NEW other, Rise(other, retail, m, least),
           Spelled(retail) /\ Retail(w) # {} => Retail(w) = BandsOf(other, m)
    PROVE  SellsBy(w, Tariff(steps, retail, from))
<1> DEFINE tariff == Tariff(steps, retail, from)
<1>1. tariff.buying = steps /\ tariff.retail = retail /\ tariff.from = from /\ ~tariff.inPacks
  BY DEF Tariff
<1> HIDE DEF tariff
<1>2. 1..MaxPacks \subseteq Int
  OBVIOUS
<1>3. ASSUME NEW q \in Int, q >= from, Spelled(steps) PROVE Charges(Charged(w.prices, q), steps, q)
  <2>1. Charged(w.prices, q) = Covering(BandsOf(band, n), q)
    BY <1>3 DEF Charged, Covering, Buying
  <2>2. q >= least
    BY <1>3
  <2>3. Charges(Covering(BandsOf(band, n), q), steps, q)
    BY <1>3, <2>2, RisingCharges
  <2> QED  BY <2>1, <2>3
<1>4. ASSUME NEW q \in Int, q >= from, Spelled(retail), Retail(w) # {}
      PROVE  Charges({b \in Retail(w) : Covers(b, q)}, retail, q)
  <2>1. {b \in Retail(w) : Covers(b, q)} = Covering(BandsOf(other, m), q)
    BY <1>4 DEF Covering
  <2>2. q >= least
    BY <1>4
  <2>3. Charges(Covering(BandsOf(other, m), q), retail, q)
    BY <1>4, <2>2, RisingCharges
  <2> QED  BY <2>1, <2>3
<1>5. ~Spelled(<<>>)
  BY DEF Spelled
<1>6. ASSUME NEW k \in 1..MaxPacks, NEW q, q = k * w.multiple, q >= from
      PROVE  /\ Spelled(steps) => Charges(Charged(w.prices, q), steps, q)
             /\ LET spelled == IF Retail(w) = {} THEN <<>> ELSE retail
                IN  Spelled(spelled) => Charges({b \in Retail(w) : Covers(b, q)}, spelled, q \div 1)
  <2>1. q \in Int
    BY <1>2, <1>6
  <2>2. q \div 1 = q
    BY <2>1
  <2>3. Spelled(steps) => Charges(Charged(w.prices, q), steps, q)
    BY <1>3, <1>6, <2>1
  <2>4. CASE Retail(w) = {}
    BY <1>5, <2>3, <2>4
  <2>5. CASE Retail(w) # {}
    BY <1>4, <1>6, <2>1, <2>2, <2>3, <2>5
  <2> QED  BY <2>4, <2>5
<1>7. SellsBy(w, tariff)
  BY <1>1, <1>6 DEF SellsBy, Retail
<1> QED  BY <1>7 DEF tariff

LEMMA UnspelledSells ==
    ASSUME NEW w, NEW steps, NEW retail, NEW from, ~Spelled(steps), ~Spelled(retail)
    PROVE  SellsBy(w, Tariff(steps, retail, from))
<1>1. ~Spelled(<<>>)
  BY DEF Spelled
<1> QED  BY <1>1 DEF SellsBy, Tariff

LEMMA PlainlySells ==
    ASSUME NEW w, w.multiple \in Int, NEW n \in Nat, NEW steps \in TariffOf(n),
           NEW band, Rise(band, steps, n, 1), Buying(w) = BandsOf(band, n)
    PROVE  SellsBy(w, Plain(steps))
<1>1. <<>> \in TariffOf(0) /\ Rise(<<>>, <<>>, 0, 1) /\ ~Spelled(<<>>)
  BY DEF TariffOf, Rise, Spelled
<1>2. SellsBy(w, Tariff(steps, <<>>, 1))
  BY <1>1, RisingSells
<1> QED  BY <1>2 DEF Plain

LEMMA BandFields ==
    ASSUME NEW value, NEW min, NEW max
    PROVE  LET band == Band(value, min, max)
               other == Ordinary(Band(value, min, max))
           IN  /\ band.value = value /\ band.min = min /\ band.max = max /\ ~band.isOrdinary
               /\ other.value = value /\ other.min = min /\ other.max = max /\ other.isOrdinary
BY DEF Band, Ordinary

LEMMA TimesOne == \A x \in Cell : Times(x, 1) = x
BY NaNAssumption DEF Times, Cell

(***************************************************************************)
(* The lists whose bands come from a rising sequence of steps.             *)
(***************************************************************************)
LEMMA RadiodetaliSells ==
    ASSUME NEW item \in Rows.radiodetalicom, NEW w \in RadiodetaliCom(item).warehouses
    PROVE  SellsBy(w, Plain(Priced(item.steps, 1)))
<1> DEFINE n == Len(item.steps)
           steps == Priced(item.steps, 1)
           band == [i \in 1..n |-> Band(item.steps[i].price, item.steps[i].quant,
                                        IF i = n THEN 0 ELSE item.steps[i + 1].quant - 1)]
<1>1. /\ item.steps \in Steps /\ n \in Nat /\ DOMAIN item.steps = 1..n
      /\ \A i \in 1..n : item.steps[i] \in [quant : Count, price : Cell]
  BY AnswersAssumption, LenProperties DEF Steps
<1>2. w = Warehouse("CENTER", item.qty, Fallback(item.pRate, 1), Rising(item.steps))
  BY DEF RadiodetaliCom, Good
<1>3. w.multiple \in Int
  BY <1>2, AnswersAssumption DEF Warehouse, Fallback, Cell
<1>4. /\ steps \in TariffOf(n)
      /\ \A i \in 1..n : steps[i].min = item.steps[i].quant /\ steps[i].value = item.steps[i].price
  BY <1>1, NaNAssumption DEF TariffOf, Priced, Step, Times, Cell, Count
<1>5. Rise(band, steps, n, 1) /\ \A i \in 1..n : ~band[i].isOrdinary
  BY <1>1, <1>4 DEF Rise, Band, Larger, Count
<1>6. w.prices = BandsOf(band, n)
  BY <1>1, <1>2 DEF Rising, BandsOf, Warehouse
<1> HIDE DEF band, steps
<1>7. Buying(w) = BandsOf(band, n)
  BY <1>5, <1>6 DEF Buying, BandsOf
<1>8. SellsBy(w, Plain(steps))
  BY <1>1, <1>3, <1>4, <1>5, <1>7, PlainlySells
<1> QED  BY <1>8 DEF steps

LEMMA EskSells ==
    ASSUME NEW row \in Rows.esk, NEW good \in Esk(row), NEW w \in good.warehouses
    PROVE  SellsBy(w, EskTariff(row))
<1> DEFINE steps == [i \in 1..5 |-> Step(row.min[i], row.price[i])]
           band == [i \in 1..5 |-> Band(row.price[i], row.min[i],
                                        IF i = 5 THEN 0 ELSE Minus(row.min[i + 1], 1))]
<1>1. \A i \in 1..5 : row.min[i] \in Count /\ row.price[i] \in Cell
  BY SheetsAssumption
<1>2. w = Warehouse("CENTER", row.quantity, 1, BandsOf(band, 5))
  BY DEF Esk, Good, BandsOf
<1>3. /\ steps \in TariffOf(5)
      /\ \A i \in 1..5 : steps[i].min = row.min[i] /\ steps[i].value = row.price[i]
  BY <1>1, NaNAssumption DEF TariffOf, Step, Cell, Count
<1>4. Rise(band, steps, 5, 1) /\ \A i \in 1..5 : ~band[i].isOrdinary
  BY <1>1, <1>3, NaNAssumption DEF Rise, Band, Larger, Count, Minus
<1> HIDE DEF band, steps
<1>5. Buying(w) = BandsOf(band, 5) /\ w.multiple = 1
  BY <1>2, <1>4 DEF Buying, BandsOf, Warehouse
<1>6. SellsBy(w, Plain(steps))
  BY <1>3, <1>4, <1>5, PlainlySells
<1> QED  BY <1>6 DEF steps, EskTariff

LEMMA ElitanSells ==
    ASSUME NEW item \in Rows.elitan, NEW w \in Elitan(item).warehouses,
           NEW pair \in ElitanTariffs(item), pair[1] = w.name
    PROVE  SellsBy(w, pair[2])
<1>1. PICK v \in item.stock :
        w = Warehouse(v.stockId, v.stock, Or(v.pack, 1),
                      {Band(v.steps[i].price, v.steps[i].quant,
                            IF i = 1 THEN 0 ELSE v.steps[i - 1].quant - 1) : i \in DOMAIN v.steps})
  BY DEF Elitan, Good
<1>2. PICK u \in item.stock : pair = <<u.stockId, Plain(Priced(Reverse(u.steps), 1))>>
  BY DEF ElitanTariffs
<1>3. u = v
  BY <1>1, <1>2, AnswersAssumption DEF Warehouse
<1> DEFINE n == Len(v.steps)
           steps == Priced(Reverse(v.steps), 1)
           band == [j \in 1..n |-> Band(v.steps[n - j + 1].price, v.steps[n - j + 1].quant,
                                        IF j = n THEN 0 ELSE v.steps[n - j].quant - 1)]
<1>4. /\ n \in Nat /\ DOMAIN v.steps = 1..n
      /\ \A i \in 1..n : v.steps[i] \in [quant : Count, price : Cell]
  <2>1. v.steps \in Steps
    BY AnswersAssumption
  <2> QED  BY <2>1, LenProperties DEF Steps
<1>5. w.multiple \in Int
  BY <1>1, AnswersAssumption DEF Warehouse, Or, Truthy, Cell
<1>6. Reverse(v.steps) = [j \in 1..n |-> v.steps[n - j + 1]]
  BY DEF Reverse
<1>7. /\ steps \in TariffOf(n)
      /\ \A j \in 1..n : steps[j].min = v.steps[n - j + 1].quant /\ steps[j].value = v.steps[n - j + 1].price
  <2>1. \A j \in 1..n : n - j + 1 \in 1..n
    BY <1>4
  <2>2. steps = [j \in 1..n |-> Step(v.steps[n - j + 1].quant, Times(v.steps[n - j + 1].price, 1))]
    BY <1>6 DEF Priced
  <2>3. \A j \in 1..n : /\ Times(v.steps[n - j + 1].price, 1) = v.steps[n - j + 1].price
                        /\ v.steps[n - j + 1].price \in Cell /\ v.steps[n - j + 1].quant \in Cell
    <3>1. \A j \in 1..n : /\ v.steps[n - j + 1].price \in Cell
                          /\ v.steps[n - j + 1].quant \in Count
      BY <1>4, <2>1
    <3>2. \A j \in 1..n : Times(v.steps[n - j + 1].price, 1) = v.steps[n - j + 1].price
      BY <3>1, TimesOne
    <3>3. Count \subseteq Cell
      BY DEF Count, Cell
    <3> QED  BY <3>1, <3>2, <3>3
  <2> HIDE DEF steps
  <2> QED  BY <2>2, <2>3 DEF TariffOf, Step
<1>8. Rise(band, steps, n, 1) /\ \A j \in 1..n : ~band[j].isOrdinary
  <2> HIDE DEF steps
  <2>1. ASSUME NEW j \in 1..n
        PROVE  /\ n - j + 1 \in 1..n /\ steps[j].min \in Count
               /\ j # n => j + 1 \in 1..n /\ steps[j + 1].min = v.steps[n - j].quant
    <3>1. n - j + 1 \in 1..n /\ steps[j].min \in Count
      BY <1>4, <1>7
    <3>2. j # n => j + 1 \in 1..n /\ n - (j + 1) + 1 = n - j
      BY <1>4
    <3> QED  BY <1>7, <3>1, <3>2
  <2>2. \A j \in 1..n : /\ band[j].value = steps[j].value
                        /\ band[j].min = steps[j].min
                        /\ band[j].max = IF j = n THEN 0 ELSE v.steps[n - j].quant - 1
                        /\ ~band[j].isOrdinary
    <3>1. \A j \in 1..n : band[j] = Band(v.steps[n - j + 1].price, v.steps[n - j + 1].quant,
                                         IF j = n THEN 0 ELSE v.steps[n - j].quant - 1)
      OBVIOUS
    <3> HIDE DEF band
    <3> QED  BY <1>7, <3>1, BandFields
  <2> HIDE DEF band
  <2>3. \A x \in Count : Larger(1, x) = x
    BY DEF Larger, Count
  <2> QED  BY <2>1, <2>2, <2>3 DEF Rise
<1>9. w.prices = BandsOf(band, n)
  <2> DEFINE given(i) == Band(v.steps[i].price, v.steps[i].quant,
                              IF i = 1 THEN 0 ELSE v.steps[i - 1].quant - 1)
  <2>1. w.prices = {given(i) : i \in 1..n}
    BY <1>1, <1>4 DEF Warehouse
  <2>2. \A j \in 1..n : n - j + 1 \in 1..n /\ band[j] = given(n - j + 1)
    BY <1>4
  <2>3. \A i \in 1..n : n - i + 1 \in 1..n /\ n - (n - i + 1) + 1 = i
    BY <1>4
  <2> HIDE DEF given, band
  <2> QED  BY <2>1, <2>2, <2>3 DEF BandsOf
<1> HIDE DEF band, steps
<1>10. Buying(w) = BandsOf(band, n)
  BY <1>8, <1>9 DEF Buying, BandsOf
<1>11. SellsBy(w, Plain(steps))
  BY <1>4, <1>5, <1>7, <1>8, <1>10, PlainlySells
<1> QED  BY <1>2, <1>3, <1>11 DEF steps

LEMMA PlatanSells ==
    ASSUME NEW pair \in Rows.platan, NEW w \in Platan(pair.item, pair.retail).warehouses
    PROVE  SellsBy(w, PlatanTariff(pair.item, pair.retail))
<1> DEFINE item == pair.item
           least == Or(item.minSoSkl, 1)
           max(source, i) == IF i = 5 THEN 0 ELSE source.steps[i + 1].quant - 1
           min(i) == Larger(least, item.steps[i].quant)
           band == [i \in 1..5 |-> Band(item.steps[i].price, min(i), max(item, i))]
           other == [i \in 1..5 |-> Ordinary(Band(pair.retail.steps[i].price, min(i), max(pair.retail, i)))]
           same == \A i \in 1..5 : item.steps[i].quant = pair.retail.steps[i].quant
           steps == Priced(item.steps, 1)
           retail == IF same THEN Priced(pair.retail.steps, 1) ELSE <<>>
           m == IF same THEN 5 ELSE 0
           from == Larger(least, item.steps[1].quant)
<1>1. /\ DOMAIN item.steps = 1..5 /\ DOMAIN pair.retail.steps = 1..5
      /\ \A i \in 1..5 : /\ item.steps[i] \in [quant : Count, price : Cell]
                         /\ pair.retail.steps[i] \in [quant : Count, price : Cell]
  BY AnswersAssumption DEF FiveSteps
<1>2. least \in Int /\ w.multiple \in Int /\ w.prices = BandsOf(band, 5) \cup BandsOf(other, 5)
  <2>1. \A x \in Cell : Or(x, 1) \in Int
    BY DEF Or, Truthy, Cell
  <2>2. w.multiple = Or(item.kratnost, 1) /\ w.prices = PlatanPrices(item, pair.retail)
    BY DEF Platan, Good, When, Warehouse
  <2>3. PlatanPrices(item, pair.retail) = BandsOf(band, 5) \cup BandsOf(other, 5)
    BY DEF PlatanPrices, BandsOf
  <2> QED  BY <2>1, <2>2, <2>3, AnswersAssumption
<1>3. from \in Int /\ from >= least
  BY <1>1, <1>2 DEF Larger, Count
<1>4. /\ steps \in TariffOf(5) /\ Rise(band, steps, 5, least)
      /\ \A i \in 1..5 : ~band[i].isOrdinary
  <2>1. steps = [i \in 1..5 |-> Step(item.steps[i].quant, item.steps[i].price)]
    BY <1>1 DEF Priced, Times, Cell
  <2> HIDE DEF steps
  <2> QED  BY <1>1, <2>1 DEF TariffOf, Step, Rise, Band, Cell, Count
<1>5. \A i \in 1..5 : other[i].isOrdinary
  BY DEF Ordinary, Band
<1>6. /\ m \in Nat /\ retail \in TariffOf(m) /\ Rise(other, retail, m, least)
      /\ m = 0 => ~Spelled(retail)
  <2>1. CASE same
    <3>1. retail = [i \in 1..5 |-> Step(item.steps[i].quant, pair.retail.steps[i].price)]
      BY <1>1, <2>1 DEF Priced, Times, Cell
    <3> HIDE DEF retail
    <3> QED  BY <1>1, <2>1, <3>1 DEF TariffOf, Step, Rise, Band, Ordinary, Cell, Count
  <2>2. CASE ~same
    <3>1. retail = <<>> /\ m = 0
      BY <2>2
    <3> HIDE DEF retail, m
    <3> QED  BY <3>1 DEF TariffOf, Rise, Spelled
  <2> QED  BY <2>1, <2>2
<1>7. m \in {0, 5} /\ PlatanTariff(item, pair.retail) = Tariff(steps, retail, from)
  BY DEF PlatanTariff
<1> HIDE DEF band, other, steps, retail, m, from, least
<1>8. Buying(w) = BandsOf(band, 5) /\ Retail(w) = BandsOf(other, 5)
  BY <1>2, <1>4, <1>5 DEF Buying, Retail, BandsOf
<1>9. Spelled(retail) => Retail(w) = BandsOf(other, m)
  BY <1>6, <1>7, <1>8
<1> QED  BY <1>2, <1>3, <1>4, <1>6, <1>7, <1>8, <1>9, RisingSells

\* A price for u pieces, when the prices are held in fractions u divides.
LEMMA ExactDivision ==
    ASSUME NEW u \in Count, NEW s \in Count, s % u = 0, NEW p \in Int
    PROVE  s \div u \in Count /\ (p * s) \div u = p * (s \div u)
<1> DEFINE factor == s \div u
<1>1. factor \in Int /\ s = u * factor
  BY DEF Count
<1> HIDE DEF factor
<1>2. factor > 0
  BY <1>1 DEF Count
<1>3. p * s = (p * factor) * u
  BY <1>1 DEF Count
<1>4. \A x \in Int : (x * u) \div u = x
  BY DEF Count
<1>5. p * factor \in Int
  BY <1>1
<1> QED  BY <1>1, <1>2, <1>3, <1>4, <1>5 DEF factor, Count

LEMMA PromelecSells ==
    ASSUME NEW item \in Rows.promelec, NEW v \in item.vendors \cup {item}, NEW w,
           w.multiple \in Int, w.prices = ParsePrices(v.pricebreaks, v)
    PROVE  SellsBy(w, PromelecTariff(v))
<1> DEFINE breaks == v.pricebreaks
           n == Len(breaks)
           unit == Fallback(v.priceUnit, 1)
           factor == Scale \div unit
           least == Fallback(v.moq, 1)
           from == Larger(least, breaks[1].quant)
           min(i) == IF More(v.moq, breaks[i].quant) THEN v.moq ELSE breaks[i].quant
           max(i) == IF i = n THEN 0 ELSE breaks[i + 1].quant - 1
           per(price) == Times(price, Scale) \div unit
           steps == Priced(breaks, factor)
           pure == [i \in DOMAIN breaks |-> Step(breaks[i].quant, Times(breaks[i].pureprice, factor))]
           retail == IF v.hasVendors THEN pure ELSE <<>>
           m == IF v.hasVendors THEN n ELSE 0
           band == [i \in 1..n |-> Band(Times(breaks[i].price, factor), min(i), max(i))]
           other == [i \in 1..n |-> Ordinary(Band(Times(breaks[i].pureprice, factor), min(i), max(i)))]
<1>1. /\ v.pricebreaks \in Breaks /\ v.moq \in Cell /\ v.hasVendors \in BOOLEAN
      /\ v.priceUnit \in Count \cup {NaN} /\ Scale % unit = 0 /\ Scale \in Count
  BY AnswersAssumption
<1>2. /\ n \in Nat /\ DOMAIN breaks = 1..n
      /\ \A i \in 1..n : /\ breaks[i].quant \in Count
                         /\ breaks[i].price \in Cell /\ breaks[i].pureprice \in Cell
  <2>1. breaks \in Seq([quant : Count, price : Cell, pureprice : Cell])
    BY <1>1 DEF Breaks
  <2>2. n \in Nat /\ DOMAIN breaks = 1..n
    BY <2>1, LenProperties
  <2>3. \A i \in 1..n : breaks[i] \in [quant : Count, price : Cell, pureprice : Cell]
    BY <2>1, <2>2, ElementOfSeq
  <2> QED  BY <2>2, <2>3
<1>3. unit \in Count /\ least \in Int
  BY <1>1 DEF Fallback, Cell, Count
<1>4. factor \in Count /\ \A p \in Int : per(p) = p * factor
  BY <1>1, <1>3, ExactDivision, NaNAssumption DEF Times
<1>5. \A p \in Cell : /\ Times(p, factor) \in Cell
                      /\ IsPositive(Times(p, factor)) => IsPositive(p) /\ per(p) = Times(p, factor)
  <2> HIDE DEF factor, unit
  <2>1. \A p \in Int : Times(p, factor) = p * factor /\ p * factor \in Int
    BY <1>4, NaNAssumption DEF Times, Count
  <2>2. \A p \in Int : p * factor > 0 => p > 0
    BY <1>4 DEF Count
  <2> QED  BY <1>4, <2>1, <2>2, NaNAssumption DEF Times, IsPositive, Cell
<1>6. \A i \in 1..n : min(i) = Larger(least, breaks[i].quant)
  BY <1>1, <1>2, NaNAssumption DEF More, Larger, Fallback, Cell, Count
<1>7. /\ steps \in TariffOf(n)
      /\ \A i \in 1..n : steps[i].min = breaks[i].quant /\ steps[i].value = Times(breaks[i].price, factor)
  <2>1. steps = [i \in 1..n |-> Step(breaks[i].quant, Times(breaks[i].price, factor))]
    BY <1>2 DEF Priced
  <2>2. \A i \in 1..n : Times(breaks[i].price, factor) \in Cell /\ breaks[i].quant \in Cell
    <3>1. Count \subseteq Cell
      BY DEF Cell, Count
    <3> HIDE DEF factor
    <3> QED  BY <1>2, <1>5, <3>1
  <2> HIDE DEF steps, factor
  <2> QED  BY <2>1, <2>2 DEF TariffOf, Step
<1>8. /\ pure \in TariffOf(n)
      /\ \A i \in 1..n : pure[i].min = breaks[i].quant /\ pure[i].value = Times(breaks[i].pureprice, factor)
  <2>1. pure = [i \in 1..n |-> Step(breaks[i].quant, Times(breaks[i].pureprice, factor))]
    BY <1>2
  <2>2. \A i \in 1..n : Times(breaks[i].pureprice, factor) \in Cell /\ breaks[i].quant \in Cell
    <3>1. Count \subseteq Cell
      BY DEF Cell, Count
    <3> HIDE DEF factor
    <3> QED  BY <1>2, <1>5, <3>1
  <2> HIDE DEF pure, factor
  <2> QED  BY <2>1, <2>2 DEF TariffOf, Step
<1>9. /\ Rise(band, steps, n, least) /\ Rise(other, pure, n, least)
      /\ \A i \in 1..n : ~band[i].isOrdinary /\ other[i].isOrdinary
  <2> HIDE DEF steps, pure, factor, least
  <2>1. \A i \in 1..n : /\ band[i] = Band(Times(breaks[i].price, factor), Larger(least, breaks[i].quant), max(i))
                        /\ other[i] = Ordinary(Band(Times(breaks[i].pureprice, factor),
                                                    Larger(least, breaks[i].quant), max(i)))
    BY <1>6
  <2> HIDE DEF band, other
  <2>2. \A i \in 1..n : /\ band[i].value = steps[i].value /\ other[i].value = pure[i].value
                        /\ band[i].min = Larger(least, steps[i].min)
                        /\ other[i].min = Larger(least, pure[i].min)
                        /\ ~band[i].isOrdinary /\ other[i].isOrdinary
    BY <1>7, <1>8, <2>1, BandFields
  <2>3. \A i \in 1..n : /\ band[i].max = max(i) /\ other[i].max = max(i)
    BY <2>1, BandFields
  <2>4. \A i \in 1..n : i # n => i + 1 \in 1..n
    BY <1>2
  <2>5. \A i \in 1..n : /\ max(i) = IF i = n THEN 0 ELSE steps[i + 1].min - 1
                        /\ max(i) = IF i = n THEN 0 ELSE pure[i + 1].min - 1
                        /\ steps[i].min \in Count /\ pure[i].min \in Count
    BY <1>2, <1>7, <1>8, <2>4
  <2> HIDE DEF max
  <2> QED  BY <2>2, <2>3, <2>5 DEF Rise
<1> DEFINE priced == {i \in 1..n : IsPositive(breaks[i].price)}
           retailed == {i \in 1..n : IsPositive(breaks[i].pureprice)}
<1>10. w.prices = {Band(per(breaks[i].price), min(i), max(i)) : i \in priced}
                   \cup IF v.hasVendors
                        THEN {Ordinary(Band(per(breaks[i].pureprice), min(i), max(i))) : i \in retailed}
                        ELSE {}
  BY <1>2 DEF ParsePrices
<1>11. ASSUME NEW tariff \in TariffOf(n), \A i \in 1..n : tariff[i].min \in Count, Spelled(tariff)
       PROVE  n > 0 /\ \A i \in 1..n : IsPositive(tariff[i].value)
  <2>1. DOMAIN tariff = 1..n
    BY DEF TariffOf
  <2>2. PICK k \in 1..n : \A i \in 1..n : IF i <= k THEN Filled(tariff[i]) ELSE Empty(tariff[i])
    BY <1>11, <2>1 DEF Spelled
  <2>3. \A i \in 1..n : ~Empty(tariff[i])
    BY <1>11, NaNAssumption DEF Empty, Truthy, Count
  <2> QED  BY <1>2, <2>2, <2>3 DEF Filled
<1>12. Spelled(steps) => Buying(w) = BandsOf(band, n)
  <2> SUFFICES ASSUME Spelled(steps) PROVE Buying(w) = BandsOf(band, n)
    OBVIOUS
  <2>1. \A i \in 1..n : IsPositive(Times(breaks[i].price, factor))
    <3>1. \A i \in 1..n : steps[i].min \in Count
      BY <1>2, <1>7
    <3>2. \A i \in 1..n : IsPositive(steps[i].value)
      BY <1>7, <1>11, <3>1
    <3> QED  BY <1>7, <3>2
  <2>2. \A i \in 1..n : i \in priced /\ per(breaks[i].price) = Times(breaks[i].price, factor)
    BY <1>2, <1>5, <2>1
  <2>3. \A i \in 1..n : Band(per(breaks[i].price), min(i), max(i)) = band[i]
    BY <2>2
  <2>4. \A i \in retailed : Ordinary(Band(per(breaks[i].pureprice), min(i), max(i))).isOrdinary
    BY DEF Ordinary, Band
  <2> HIDE DEF band, per, min, max, steps, retailed
  <2>5. {Band(per(breaks[i].price), min(i), max(i)) : i \in priced} = BandsOf(band, n)
    BY <2>2, <2>3 DEF BandsOf
  <2>6. \A b \in BandsOf(band, n) : ~b.isOrdinary
    BY <1>9 DEF BandsOf
  <2> QED  BY <1>10, <2>4, <2>5, <2>6 DEF Buying
<1>13. v.hasVendors /\ Spelled(pure) => Retail(w) = BandsOf(other, n)
  <2> SUFFICES ASSUME v.hasVendors, Spelled(pure) PROVE Retail(w) = BandsOf(other, n)
    OBVIOUS
  <2>1. \A i \in 1..n : IsPositive(Times(breaks[i].pureprice, factor))
    <3>1. \A i \in 1..n : pure[i].min \in Count
      BY <1>2, <1>8
    <3>2. \A i \in 1..n : IsPositive(pure[i].value)
      BY <1>8, <1>11, <3>1
    <3> QED  BY <1>8, <3>2
  <2>2. \A i \in 1..n : i \in retailed /\ per(breaks[i].pureprice) = Times(breaks[i].pureprice, factor)
    BY <1>2, <1>5, <2>1
  <2>3. \A i \in 1..n : Ordinary(Band(per(breaks[i].pureprice), min(i), max(i))) = other[i]
    BY <2>2
  <2>4. \A i \in priced : ~Band(per(breaks[i].price), min(i), max(i)).isOrdinary
    BY DEF Band
  <2> HIDE DEF other, per, min, max, pure, priced
  <2>5. {Ordinary(Band(per(breaks[i].pureprice), min(i), max(i))) : i \in retailed} = BandsOf(other, n)
    BY <2>2, <2>3 DEF BandsOf
  <2>6. \A b \in BandsOf(other, n) : b.isOrdinary
    BY <1>9 DEF BandsOf
  <2> QED  BY <1>10, <2>4, <2>5, <2>6 DEF Retail
<1>14. PromelecTariff(v) = Tariff(steps, retail, from)
  BY DEF PromelecTariff
<1>15. CASE n = 0
  <2>1. ~Spelled(steps) /\ ~Spelled(retail)
    <3>1. DOMAIN steps = {} /\ DOMAIN retail = {}
      BY <1>2, <1>7, <1>8, <1>15 DEF TariffOf
    <3> HIDE DEF steps, retail
    <3> QED  BY <3>1 DEF Spelled
  <2> HIDE DEF steps, retail
  <2> QED  BY <1>14, <2>1, UnspelledSells
<1>16. CASE n > 0
  <2>1. from \in Int /\ from >= least
    <3> HIDE DEF least
    <3> QED  BY <1>2, <1>3, <1>16 DEF Larger, Count
  <2>2. /\ m \in Nat /\ retail \in TariffOf(m) /\ Rise(other, retail, m, least)
        /\ Spelled(retail) /\ Retail(w) # {} => Retail(w) = BandsOf(other, m)
    <3>1. CASE v.hasVendors
      <4>1. retail = pure /\ m = n
        BY <3>1
      <4> HIDE DEF retail, m, pure, other, least
      <4> QED  BY <1>2, <1>8, <1>9, <1>13, <3>1, <4>1
    <3>2. CASE ~v.hasVendors
      <4>1. retail = <<>> /\ m = 0
        BY <3>2
      <4> HIDE DEF retail, m
      <4> QED  BY <4>1 DEF TariffOf, Rise, Spelled
    <3> QED  BY <3>1, <3>2
  <2> HIDE DEF steps, retail, from, m, band, other, least
  <2>3. SellsBy(w, Tariff(steps, retail, from))
    BY <1>2, <1>3, <1>7, <1>9, <1>12, <2>1, <2>2, RisingSells
  <2> QED  BY <1>14, <2>3
<1> QED  BY <1>2, <1>15, <1>16

(***************************************************************************)
(* The lists whose bands have a shape of their own.  A band need not end   *)
(* one piece below the next step: it has to cover the multiples that lie   *)
(* within its step.                                                        *)
(***************************************************************************)
LEMMA CoverCharges ==
    ASSUME NEW n \in Nat, NEW steps \in TariffOf(n), NEW k \in 1..n, SpelledBy(steps, k), NEW q \in Int,
           NEW band,
           \A i \in 1..k : /\ band[i].value = steps[i].value
                           /\ Covers(band[i], q) <=> i \in Within(steps, k, q),
           NEW w, Buying(w) = BandsOf(band, k)
    PROVE  Charges(Charged(w.prices, q), steps, q)
<1>1. Charged(w.prices, q) = {band[i] : i \in Within(steps, k, q)}
  BY DEF Buying, Charged, BandsOf, Within
<1> QED  BY <1>1, WithinCharges

LEMMA HeadCharges ==
    ASSUME NEW n \in Nat, NEW steps \in TariffOf(n), NEW k \in 1..n, SpelledBy(steps, k), NEW q \in Int,
           NEW band,
           \A i \in 1..k : /\ band[i].value = steps[i].value
                           /\ band[i].min = steps[i].min
                           /\ band[i].max = IF i = k THEN 0 ELSE steps[i + 1].min - 1,
           NEW w, Buying(w) = BandsOf(band, k)
    PROVE  Charges(Charged(w.prices, q), steps, q)
<1>1. \A i \in 1..k : steps[i].min \in Count
  <2>1. \A i \in 1..k : i \in DOMAIN steps /\ steps[i].min \in Cell
    BY DEF TariffOf
  <2> QED  BY <2>1, NaNAssumption DEF SpelledBy, Filled, IsPositive, Cell, Count
<1>2. ASSUME NEW i \in 1..k PROVE Covers(band[i], q) <=> i \in Within(steps, k, q)
  <2>1. /\ steps[i].min \in Count
        /\ i < k => i + 1 \in 1..k
        /\ i < k => steps[i + 1].min \in Count /\ steps[i].min < steps[i + 1].min
    BY <1>1 DEF SpelledBy
  <2>2. (band[i].max = 0 \/ q <= band[i].max) <=> (i < k => q < steps[i + 1].min)
    BY <2>1 DEF Count
  <2>3. band[i].min \in Int /\ band[i].max \in Int
    BY <2>1 DEF Count
  <2> QED  BY <2>2, <2>3, NaNAssumption DEF Covers, Within
<1> QED  BY <1>2, CoverCharges

\* A warehouse without ordinary bands.
LEMMA OnlyBuying ==
    ASSUME NEW w, Retail(w) = {}, NEW steps,
           \A k \in 1..MaxPacks : k * w.multiple >= 1 /\ Spelled(steps) =>
               Charges(Charged(w.prices, k * w.multiple), steps, k * w.multiple)
    PROVE  SellsBy(w, Plain(steps))
<1>1. ~Spelled(<<>>)
  BY DEF Spelled
<1>2. /\ Plain(steps).buying = steps /\ Plain(steps).from = 1 /\ ~Plain(steps).inPacks
      /\ Plain(steps).retail = <<>>
  BY DEF Plain, Tariff
<1> QED  BY <1>1, <1>2 DEF SellsBy, Retail

LEMMA PiecesSell ==
    ASSUME NEW w, Retail(w) = {}, w.multiple = 1, NEW steps,
           \A q \in Int : Spelled(steps) => Charges(Charged(w.prices, q), steps, q)
    PROVE  SellsBy(w, Plain(steps))
<1>1. \A k \in 1..MaxPacks : k * w.multiple \in Int
  OBVIOUS
<1> QED  BY <1>1, OnlyBuying

LEMMA SpelledHas ==
    ASSUME NEW n \in Nat, NEW steps, DOMAIN steps = 1..n, Spelled(steps)
    PROVE  \E k \in 1..n : SpelledBy(steps, k)
BY DEF Spelled, SpelledBy

LEMMA PositronSells ==
    ASSUME NEW row \in Rows.positron, NEW good \in Positron(row), NEW w \in good.warehouses
    PROVE  SellsBy(w, PositronTariff(row))
<1> DEFINE steps == <<Step(1, row.price1), Step(row.min2, row.price2), Step(row.min3, row.price3)>>
           first == Band(row.price1, 1, IF More(row.min2, 1) THEN row.min2 - 1 ELSE 0)
           second == Band(row.price2, row.min2, IF More(row.min3, row.min2) THEN row.min3 - 1 ELSE 0)
           third == Band(row.price3, row.min3, 0)
           band == <<first, second, third>>
<1>1. row.price1 \in Cell /\ row.min2 \in Cell /\ row.price2 \in Cell /\ row.min3 \in Cell /\ row.price3 \in Cell
  BY SheetsAssumption
<1>2. w.multiple = 1 /\ w.prices = {b \in {first, second, third} : IsPositive(b.value) /\ IsPositive(b.min)}
  BY DEF Positron, When, Good, Warehouse
<1>3. \A b \in {first, second, third} : ~b.isOrdinary
  BY DEF Band
<1>4. steps \in TariffOf(3)
  <2>1. 1 \in Cell
    BY DEF Cell
  <2> QED  BY <1>1, <2>1 DEF TariffOf, Step
<1>5. ASSUME NEW k \in 1..3, SpelledBy(steps, k), NEW q \in Int
      PROVE  Charges(Charged(w.prices, q), steps, q)
  <2>1. \A i \in 1..3 : /\ i <= k => Filled(steps[i])
                        /\ i > k => Empty(steps[i])
    BY <1>5, <1>4 DEF SpelledBy, TariffOf
  <2>2. /\ IsPositive(row.price1)
        /\ k >= 2 => IsPositive(row.min2) /\ IsPositive(row.price2) /\ More(row.min2, 1)
        /\ k = 3 => IsPositive(row.min3) /\ IsPositive(row.price3) /\ More(row.min3, row.min2)
        /\ k < 3 => row.min3 \in {NaN, 0} /\ row.price3 \in {NaN, 0}
        /\ k < 2 => row.min2 \in {NaN, 0} /\ row.price2 \in {NaN, 0}
    <3>1. k >= 2 => steps[1].min < steps[2].min
      BY <1>5 DEF SpelledBy
    <3>2. k = 3 => steps[2].min < steps[3].min
      BY <1>5 DEF SpelledBy
    <3> QED  BY <1>1, <2>1, <3>1, <3>2, NaNAssumption DEF Filled, Empty, Truthy, IsPositive, More, Step, Cell
  <2>3. \A i \in 1..k : /\ band[i].value = steps[i].value
                        /\ band[i].min = steps[i].min
                        /\ band[i].max = IF i = k THEN 0 ELSE steps[i + 1].min - 1
    <3>1. CASE k = 1
      BY <2>2, <3>1, NaNAssumption DEF Band, Step, More
    <3>2. CASE k = 2
      BY <1>1, <2>2, <3>2, NaNAssumption DEF Band, Step, More, IsPositive, Cell
    <3>3. CASE k = 3
      BY <2>2, <3>3 DEF Band, Step
    <3> QED  BY <3>1, <3>2, <3>3
  <2>4. Buying(w) = BandsOf(band, k)
    <3>1. /\ first \in w.prices
          /\ second \in w.prices <=> k >= 2
          /\ third \in w.prices <=> k = 3
      <4>1. /\ first.value = row.price1 /\ first.min = 1
            /\ second.value = row.price2 /\ second.min = row.min2
            /\ third.value = row.price3 /\ third.min = row.min3
        BY DEF Band
      <4> HIDE DEF first, second, third
      <4>2. IsPositive(1) /\ ~IsPositive(NaN) /\ ~IsPositive(0)
        BY NaNAssumption DEF IsPositive
      <4> QED  BY <1>2, <2>2, <4>1, <4>2
    <3> HIDE DEF first, second, third
    <3>2. \A b \in w.prices : ~b.isOrdinary
      BY <1>2, <1>3
    <3>3. BandsOf(band, k) = {first} \cup (IF k >= 2 THEN {second} ELSE {}) \cup (IF k = 3 THEN {third} ELSE {})
      <4>1. CASE k = 1
        BY <4>1 DEF BandsOf
      <4>2. CASE k = 2
        BY <4>2 DEF BandsOf
      <4>3. CASE k = 3
        BY <4>3 DEF BandsOf
      <4> QED  BY <4>1, <4>2, <4>3
    <3> QED  BY <1>2, <3>1, <3>2, <3>3 DEF Buying
  <2> HIDE DEF steps, band
  <2> QED  BY <1>4, <1>5, <2>3, <2>4, HeadCharges
<1>6. Retail(w) = {}
  BY <1>2, <1>3 DEF Retail
<1>7. DOMAIN steps = 1..3
  BY <1>4 DEF TariffOf
<1> HIDE DEF steps, first, second, third
<1>8. \A q \in Int : Spelled(steps) => Charges(Charged(w.prices, q), steps, q)
  BY <1>5, <1>7, SpelledHas
<1>9. SellsBy(w, Plain(steps))
  BY <1>2, <1>6, <1>8, PiecesSell
<1> QED  BY <1>9 DEF steps, PositronTariff

LEMMA UniSvsSells ==
    ASSUME NEW row \in Rows.unisvs, NEW good \in UniSvs(row), NEW w \in good.warehouses
    PROVE  SellsBy(w, UniSvsTariff(row))
<1> DEFINE steps == <<Step(1, row.price), Step(row.nextCount, row.nextPrice)>>
           first == Band(row.price, 1, IF Truthy(row.nextCount) THEN row.nextCount - 1 ELSE 0)
           second == Band(row.nextPrice, row.nextCount, 0)
           band == <<first, second>>
<1>1. row.price \in Cell /\ row.nextCount \in Cell /\ row.nextPrice \in Cell
  BY SheetsAssumption
<1>2. w.multiple = 1 /\ w.prices = {first} \cup When(Truthy(row.nextCount), second)
  BY DEF UniSvs, When, Good, Warehouse
<1>3. ~first.isOrdinary /\ ~second.isOrdinary
  BY DEF Band
<1>4. steps \in TariffOf(2)
  <2>1. 1 \in Cell
    BY DEF Cell
  <2> QED  BY <1>1, <2>1 DEF TariffOf, Step
<1>5. ASSUME NEW k \in 1..2, SpelledBy(steps, k), NEW q \in Int
      PROVE  Charges(Charged(w.prices, q), steps, q)
  <2>1. Truthy(row.nextCount) <=> k = 2
    <3>1. Filled(steps[1]) /\ (k = 2 => Filled(steps[2])) /\ (k = 1 => Empty(steps[2]))
      BY <1>5, <1>4 DEF SpelledBy, TariffOf
    <3> QED  BY <1>1, <3>1, NaNAssumption DEF Filled, Empty, IsPositive, Truthy, Step, Cell
  <2>2. \A i \in 1..k : /\ band[i].value = steps[i].value
                        /\ band[i].min = steps[i].min
                        /\ band[i].max = IF i = k THEN 0 ELSE steps[i + 1].min - 1
    <3>1. CASE k = 1
      BY <2>1, <3>1 DEF Band, Step
    <3>2. CASE k = 2
      BY <2>1, <3>2 DEF Band, Step
    <3> QED  BY <3>1, <3>2
  <2>3. Buying(w) = BandsOf(band, k)
    <3> HIDE DEF first, second
    <3>1. CASE k = 1
      BY <1>2, <1>3, <2>1, <3>1 DEF Buying, BandsOf, When
    <3>2. CASE k = 2
      BY <1>2, <1>3, <2>1, <3>2 DEF Buying, BandsOf, When
    <3> QED  BY <3>1, <3>2
  <2> HIDE DEF steps, band
  <2> QED  BY <1>4, <1>5, <2>2, <2>3, HeadCharges
<1>6. Retail(w) = {}
  BY <1>2, <1>3 DEF Retail, When
<1>7. DOMAIN steps = 1..2
  BY <1>4 DEF TariffOf
<1> HIDE DEF steps, first, second
<1>8. \A q \in Int : Spelled(steps) => Charges(Charged(w.prices, q), steps, q)
  BY <1>5, <1>7, SpelledHas
<1>9. SellsBy(w, Plain(steps))
  BY <1>2, <1>6, <1>8, PiecesSell
<1> QED  BY <1>9 DEF steps, UniSvsTariff

\* What sells in multiples of m reaches the multiple m * c as soon as it exceeds
\* the multiple before it.
LEMMA Multiples ==
    ASSUME NEW m \in Count, NEW j \in Int, NEW c \in Int
    PROVE  /\ j * m \in Int /\ m * c \in Int
           /\ j * m < m * c <=> j < c
           /\ j * m < m * c <=> j * m <= m * c - m
<1>1. \A a, b \in Int : a <= b => m * a <= m * b
  <2> SUFFICES ASSUME NEW a \in Int, NEW b \in Int, a <= b PROVE m * a <= m * b
    OBVIOUS
  <2>1. PICK d \in Nat : b = a + d
    <3>1. b - a \in Nat /\ b = a + (b - a)
      OBVIOUS
    <3> QED  BY <3>1
  <2>2. m * b = m * a + m * d /\ m * d >= 0 /\ m * a \in Int /\ m * b \in Int /\ m * d \in Int
    BY <2>1 DEF Count
  <2> QED  BY <2>2
<1>2. j * m = m * j /\ m * (c - 1) = m * c - m /\ m * j \in Int /\ m * c \in Int
  BY DEF Count
<1>3. j < c => m * j <= m * (c - 1)
  <2>1. c - 1 \in Int /\ (j < c => j <= c - 1)
    OBVIOUS
  <2> QED  BY <1>1, <2>1
<1>4. ~(j < c) => m * c <= m * j
  BY <1>1
<1>5. m > 0 /\ m \in Int
  BY DEF Count
<1> QED  BY <1>2, <1>3, <1>4, <1>5

LEMMA Divides ==
    ASSUME NEW x \in Nat, NEW u \in Count, x % u = 0
    PROVE  \E c \in Int : x = u * c
<1> DEFINE c == x \div u
<1>1. c \in Int /\ x = u * c
  BY DEF Count
<1> HIDE DEF c
<1> QED  BY <1>1

\* Of the eight steps of a row compel's parser reads six.  A tariff with the first
\* six alone asks for the same, where the parser reads all there are.
FirstSix(steps) == [i \in 1..8 |-> IF i <= 6 THEN steps[i] ELSE Step(0, 0)]

LEMMA FirstSixSpelled ==
    ASSUME NEW steps \in TariffOf(8), NEW k \in 1..8, SpelledBy(steps, k)
    PROVE  /\ FirstSix(steps) \in TariffOf(8)
           /\ SpelledBy(FirstSix(steps), Smaller(k, 6))
<1> DEFINE six == FirstSix(steps)
           n == Smaller(k, 6)
<1>1. n \in 1..6 /\ n <= k /\ (n < 6 => n = k)
  BY DEF Smaller
<1>2. \A i \in 1..8 : six[i] = IF i <= 6 THEN steps[i] ELSE Step(0, 0)
  BY DEF FirstSix
<1>3. DOMAIN six = 1..8 /\ DOMAIN steps = 1..8
  BY DEF FirstSix, TariffOf
<1>4. Step(0, 0) \in [min : Cell, value : Cell] /\ Empty(Step(0, 0))
  BY DEF Step, Cell, Empty, Truthy
<1>5. six \in TariffOf(8)
  BY <1>4 DEF FirstSix, TariffOf
<1> HIDE DEF six, n
<1>6. ASSUME NEW i \in 1..8 PROVE IF i <= n THEN Filled(six[i]) ELSE Empty(six[i])
  <2>1. IF i <= k THEN Filled(steps[i]) ELSE Empty(steps[i])
    BY <1>3 DEF SpelledBy
  <2>2. CASE i <= 6
    <3>1. six[i] = steps[i] /\ (i <= n <=> i <= k)
      BY <1>1, <1>2, <2>2
    <3> QED  BY <2>1, <3>1
  <2>3. CASE i > 6
    <3>1. six[i] = Step(0, 0) /\ ~(i <= n)
      BY <1>1, <1>2, <2>3
    <3> QED  BY <1>4, <3>1
  <2> QED  BY <2>2, <2>3
<1>7. ASSUME NEW i \in 1..n, NEW j \in 1..n, i < j PROVE six[i].min < six[j].min
  <2>1. six[i] = steps[i] /\ six[j] = steps[j] /\ i \in 1..k /\ j \in 1..k
    BY <1>1, <1>2
  <2> QED  BY <1>7, <2>1 DEF SpelledBy
<1>8. SpelledBy(six, n)
  BY <1>3, <1>6, <1>7 DEF SpelledBy
<1> QED  BY <1>5, <1>8 DEF six, n

LEMMA FirstSixAsk ==
    ASSUME NEW steps \in TariffOf(8), NEW k \in 1..8, SpelledBy(steps, k), NEW q \in Int,
           steps[7].min = 0 \/ q < steps[7].min
    PROVE  Asked(FirstSix(steps), q) = Asked(steps, q)
<1> DEFINE six == FirstSix(steps)
           n == Smaller(k, 6)
<1>1. n \in 1..6 /\ n <= k /\ (n < 6 => n = k)
  BY DEF Smaller
<1>2. \A i \in 1..6 : six[i] = steps[i]
  BY DEF FirstSix
<1>3. six \in TariffOf(8) /\ SpelledBy(six, n)
  BY FirstSixSpelled
<1> HIDE DEF six, n
<1>4. \A i \in 1..k : steps[i].min \in Int /\ steps[i].min > 0
  BY DEF TariffOf, SpelledBy, Filled, IsPositive, Cell
<1>5. ASSUME NEW i \in 1..8
      PROVE  i \in Within(steps, k, q) <=> i \in Within(six, n, q)
  <2>1. CASE i > n
    <3>1. CASE i > k
      BY <1>1, <3>1 DEF Within
    <3>2. CASE i <= k
      <4>1. k > 6 /\ i >= 7 /\ n = 6
        BY <1>1, <2>1, <3>2
      <4>2. q < steps[7].min
        BY <1>4, <4>1
      <4>3. i = 7 \/ steps[7].min < steps[i].min
        BY <3>2, <4>1 DEF SpelledBy
      <4>4. q < steps[i].min
        BY <1>4, <3>2, <4>1, <4>2, <4>3
      <4> QED  BY <1>4, <3>2, <4>1, <4>4 DEF Within
    <3> QED  BY <3>1, <3>2
  <2>2. CASE i < n
    <3>1. six[i] = steps[i] /\ six[i + 1] = steps[i + 1] /\ i < k
      BY <1>1, <1>2, <2>2
    <3> QED  BY <1>1, <2>2, <3>1 DEF Within
  <2>3. CASE i = n
    <3>1. six[i] = steps[i]
      BY <1>1, <1>2, <2>3
    <3>2. i < k => i + 1 = 7 /\ q < steps[i + 1].min
      BY <1>1, <1>4, <2>3
    <3> QED  BY <1>1, <2>3, <3>1, <3>2 DEF Within
  <2> QED  BY <1>1, <2>1, <2>2, <2>3
<1>6. Within(steps, k, q) = Within(six, n, q)
  <2>1. Within(steps, k, q) \subseteq 1..8 /\ Within(six, n, q) \subseteq 1..8
    BY <1>1 DEF Within
  <2> QED  BY <1>5, <2>1
<1>7. \A i \in Within(six, n, q) : six[i].value = steps[i].value
  BY <1>1, <1>2 DEF Within
<1>8. Asked(steps, q) = {steps[i].value : i \in Within(steps, k, q)}
  BY AskedWithin
<1>9. Asked(six, q) = {six[i].value : i \in Within(six, n, q)}
  <2>1. n \in 1..8
    BY <1>1
  <2> QED  BY <1>3, <2>1, AskedWithin
<1> QED  BY <1>6, <1>7, <1>8, <1>9 DEF six

LEMMA CompelSells ==
    ASSUME NEW row \in Rows.compel, NEW good \in CompelDbf(row), NEW w \in good.warehouses
    PROVE  SellsBy(w, CompelDbfTariff(row))
<1> DEFINE steps == [i \in 1..8 |-> Step(row.qty[i], row.price[i])]
           kept == {i \in 1..6 : i = 1 \/ row.qty[i] # 0 \/ row.price[i] > row.price[i - 1]}
           band == [i \in 1..6 |-> Band(row.price[i], row.qty[i],
                       IF i = Cardinality(kept) THEN 0 ELSE Or(row.qty[i + 1] - row.moq, row.moq))]
<1>1. /\ row.moq \in Count
      /\ \A i \in 1..8 : row.qty[i] \in Nat /\ row.price[i] \in Nat /\ row.qty[i] % row.moq = 0
  BY SheetsAssumption
<1>2. w.multiple = row.moq /\ w.prices = {band[i] : i \in kept}
  <2>1. w.multiple = row.moq /\ w.prices = CompelPrices(row)
    BY DEF CompelDbf, Good, Warehouse
  <2>2. CompelPrices(row) = {band[i] : i \in kept}
    BY DEF CompelPrices
  <2> QED  BY <2>1, <2>2
<1>3. steps \in TariffOf(8) /\ \A i \in 1..8 : steps[i].min = row.qty[i] /\ steps[i].value = row.price[i]
  BY <1>1 DEF TariffOf, Step, Cell
<1>4. \A i \in 1..6 : ~band[i].isOrdinary
  BY DEF Band
<1> HIDE DEF steps
<1> DEFINE six == FirstSix(steps)
<1>5. ASSUME NEW k \in 1..8, SpelledBy(steps, k)
      PROVE  \E n \in 1..6 : SpelledBy(six, n) /\ kept = 1..n /\ Cardinality(kept) = n
  <2> DEFINE n == Smaller(k, 6)
  <2>0. n \in 1..6 /\ n <= k /\ (n < 6 => n = k)
    BY DEF Smaller
  <2>1. \A i \in 1..8 : IF i <= k THEN row.qty[i] > 0 ELSE row.qty[i] = 0 /\ row.price[i] = 0
    <3>1. DOMAIN steps = 1..8
      BY <1>3 DEF TariffOf
    <3> QED  BY <1>1, <1>3, <1>5, <3>1, NaNAssumption DEF SpelledBy, Filled, Empty, IsPositive, Truthy
  <2>2. SpelledBy(six, n)
    BY <1>3, <1>5, FirstSixSpelled
  <2> HIDE DEF n, six
  <2>3. ASSUME NEW i \in 1..6 PROVE i \in kept <=> i <= n
    <3>1. (i <= n <=> i <= k) /\ (i # 1 => i - 1 \in 1..8)
      BY <2>0
    <3> QED  BY <1>1, <2>0, <2>1, <3>1
  <2>4. kept = 1..n
    <3> HIDE DEF kept
    <3>1. kept \subseteq 1..6
      BY DEF kept
    <3>2. \A i : i \in 1..n <=> i \in 1..6 /\ i <= n
      BY <2>0
    <3> QED  BY <2>3, <3>1, <3>2
  <2> HIDE DEF kept
  <2>5. 1 \in Int /\ n \in Int /\ 1 <= n
    BY <2>0
  <2>6. Cardinality(1..n) = n
    <3>1. Cardinality(1..n) = IF 1 > n THEN 0 ELSE n - 1 + 1
      BY <2>5, FS_Interval
    <3> QED  BY <2>5, <3>1
  <2> QED  BY <2>0, <2>2, <2>4, <2>6
<1>6. six \in TariffOf(8) /\ \A i \in 1..6 : six[i].min = row.qty[i] /\ six[i].value = row.price[i]
  <2>1. six \in TariffOf(8)
    <3>1. Step(0, 0) \in [min : Cell, value : Cell]
      BY DEF Step, Cell
    <3> QED  BY <1>3, <3>1 DEF FirstSix, TariffOf
  <2>2. \A i \in 1..6 : six[i] = steps[i]
    BY DEF FirstSix
  <2> QED  BY <1>3, <2>1, <2>2
<1> HIDE DEF six
<1>7. ASSUME NEW k \in 1..6, SpelledBy(six, k), kept = 1..k, Cardinality(kept) = k, NEW j \in Int
      PROVE  Charges(Charged(w.prices, j * row.moq), six, j * row.moq)
  <2> DEFINE q == j * row.moq
  <2>1. q \in Int
    BY <1>1 DEF Count
  <2> HIDE DEF q
  <2>2. k \in 1..6 /\ kept = 1..k /\ Cardinality(kept) = k
    BY <1>7
  <2>3. ASSUME NEW i \in 1..k
        PROVE  band[i].value = six[i].value /\ (Covers(band[i], q) <=> i \in Within(six, k, q))
    <3>0. i \in 1..6 /\ i \in 1..8
      BY <2>2
    <3>1. row.qty[i] > 0 /\ (i < k => i + 1 \in 1..8 /\ row.qty[i] < row.qty[i + 1])
      <4>1. Filled(six[i]) /\ (i < k => i + 1 \in 1..k /\ six[i].min < six[i + 1].min)
        <5>1. i \in DOMAIN six
          BY <1>6, <3>0 DEF TariffOf
        <5> QED  BY <1>7, <5>1 DEF SpelledBy
      <4> QED  BY <1>6, <2>2, <3>0, <4>1 DEF Filled, IsPositive
    <3>2. \A n \in 1..8 : \E c \in Int : row.qty[n] = row.moq * c
      <4> SUFFICES ASSUME NEW n \in 1..8 PROVE \E c \in Int : row.qty[n] = row.moq * c
        OBVIOUS
      <4>1. row.qty[n] \in Nat /\ row.qty[n] % row.moq = 0
        BY <1>1
      <4> QED  BY <1>1, <4>1, Divides
    <3>3. i < k => /\ row.qty[i + 1] - row.moq \in Int /\ row.qty[i + 1] - row.moq > 0
                   /\ q < row.qty[i + 1] <=> q <= row.qty[i + 1] - row.moq
      <4> SUFFICES ASSUME i < k
                   PROVE  /\ row.qty[i + 1] - row.moq \in Int /\ row.qty[i + 1] - row.moq > 0
                          /\ q < row.qty[i + 1] <=> q <= row.qty[i + 1] - row.moq
        OBVIOUS
      <4>1. PICK a \in Int : row.qty[i] = row.moq * a
        BY <3>0, <3>2
      <4>2. PICK c \in Int : row.qty[i + 1] = row.moq * c
        BY <3>1, <3>2
      <4>3. j * row.moq < row.moq * c <=> j * row.moq <= row.moq * c - row.moq
        BY <1>1, Multiples
      <4>4. a * row.moq < row.moq * c <=> a * row.moq <= row.moq * c - row.moq
        BY <1>1, Multiples
      <4>5. a * row.moq = row.moq * a
        BY <1>1 DEF Count
      <4>6. row.moq \in Int /\ row.qty[i] \in Int /\ row.qty[i + 1] \in Int
        BY <1>1, <3>0, <3>1 DEF Count
      <4>7. row.qty[i] <= row.qty[i + 1] - row.moq
        BY <3>1, <4>1, <4>2, <4>4, <4>5
      <4>8. q < row.qty[i + 1] <=> q <= row.qty[i + 1] - row.moq
        BY <4>2, <4>3 DEF q
      <4> QED  BY <3>1, <4>6, <4>7, <4>8
    <3>4. /\ band[i].value = row.price[i] /\ band[i].min = row.qty[i]
          /\ band[i].max = IF i = k THEN 0 ELSE Or(row.qty[i + 1] - row.moq, row.moq)
      <4> HIDE DEF kept
      <4> QED  BY <2>2, <3>0 DEF Band
    <3> HIDE DEF band
    <3>5. band[i].max = IF i = k THEN 0 ELSE row.qty[i + 1] - row.moq
      BY <3>3, <3>4, NaNAssumption DEF Or, Truthy
    <3>6. (band[i].max = 0 \/ q <= band[i].max) <=> (i < k => q < row.qty[i + 1])
      BY <2>2, <3>3, <3>5
    <3>7. band[i].max # NaN /\ row.qty[i] # NaN
      BY <1>1, <2>2, <3>0, <3>3, <3>5, NaNAssumption
    <3>8. i < k => six[i + 1].min = row.qty[i + 1]
      BY <1>6, <3>1
    <3> QED  BY <1>6, <3>0, <3>4, <3>6, <3>7, <3>8 DEF Covers, Within
  <2>4. Buying(w) = BandsOf(band, k)
    <3> HIDE DEF kept, band
    <3> QED  BY <1>2, <1>4, <2>2 DEF Buying, BandsOf
  <2>5. Charges(Charged(w.prices, q), six, q)
    <3> HIDE DEF band, kept
    <3>1. k \in 1..8
      BY <2>2
    <3> QED  BY <1>6, <1>7, <2>1, <2>3, <2>4, <3>1, CoverCharges
  <2> QED  BY <2>5 DEF q
<1>8. Retail(w) = {}
  BY <1>2, <1>4 DEF Retail
<1> HIDE DEF kept, band
<1>9. ASSUME NEW j \in 1..MaxPacks, Spelled(steps), row.qty[7] = 0 \/ j * row.moq < row.qty[7]
      PROVE  Charges(Charged(w.prices, j * row.moq), steps, j * row.moq)
  <2> DEFINE q == j * row.moq
  <2>1. q \in Int
    BY <1>1 DEF Count
  <2>2. DOMAIN steps = 1..8
    BY <1>3 DEF TariffOf
  <2>3. PICK k \in 1..8 : SpelledBy(steps, k)
    BY <1>9, <2>2, SpelledHas
  <2>4. PICK n \in 1..6 : SpelledBy(six, n) /\ kept = 1..n /\ Cardinality(kept) = n
    BY <1>5, <2>3
  <2>5. Charges(Charged(w.prices, q), six, q)
    <3>1. j \in Int
      OBVIOUS
    <3> QED  BY <1>7, <2>4, <3>1
  <2>6. Asked(six, q) = Asked(steps, q)
    <3>1. steps[7].min = 0 \/ q < steps[7].min
      BY <1>3, <1>9
    <3> HIDE DEF q
    <3> QED  BY <1>3, <2>1, <2>3, <3>1, FirstSixAsk DEF six
  <2> QED  BY <2>5, <2>6 DEF Charges
<1>10. SellsBy(w, [Plain(steps) EXCEPT !.until = row.qty[7]])
  <2> DEFINE tariff == [Plain(steps) EXCEPT !.until = row.qty[7]]
  <2>1. /\ tariff.buying = steps /\ tariff.retail = <<>>
        /\ tariff.until = row.qty[7] /\ ~tariff.inPacks
    BY DEF Plain, Tariff
  <2>2. ~Spelled(<<>>)
    BY DEF Spelled
  <2> HIDE DEF tariff
  <2>3. \A j \in 1..MaxPacks :
           /\ tariff.until = 0 \/ j * w.multiple < tariff.until
           /\ Spelled(tariff.buying)
           => Charges(Charged(w.prices, j * w.multiple), tariff.buying, j * w.multiple)
    BY <1>2, <1>9, <2>1
  <2>4. SellsBy(w, tariff)
    BY <1>8, <2>1, <2>2, <2>3 DEF SellsBy, Retail
  <2> QED  BY <2>4 DEF tariff
<1> QED  BY <1>10 DEF steps, CompelDbfTariff

\* The third price of rct starts at five multiples or later.
LEMMA RctNextIsMultiple ==
    ASSUME NEW m \in Count, NEW price2 \in Count, NEW price3 \in Count
    PROVE  \E c \in Int : c >= 5 /\ RctNext(m, price2, price3) = m * c
<1> DEFINE next == Larger(Round(20400, price2), 5 * m)
           c == Ceil(next, m)
<1>1. RctNext(m, price2, price3) = m * c
  BY DEF RctNext, Count
<1>2. next \in Int /\ next >= 5 * m
  <2>1. Round(20400, price2) \in Int /\ 5 * m \in Int
    BY DEF Round, Count
  <2> QED  BY <2>1 DEF Larger
<1> HIDE DEF next
<1>3. c \in Int /\ c >= 5
  <2> DEFINE x == next + m - 1
  <2>1. x \in Int /\ x >= 5 * m
    BY <1>2 DEF Count
  <2>2. c = x \div m
    BY DEF Ceil
  <2> HIDE DEF x, c
  <2>3. c \in Int /\ x < m * (c + 1)
    BY <2>1, <2>2 DEF Count
  <2>4. 5 * m < m * (c + 1)
    BY <1>2, <2>1, <2>3 DEF Count
  <2>5. c + 1 \in Int /\ (5 * m < m * (c + 1) <=> 5 < c + 1)
    BY <2>3, Multiples
  <2> QED  BY <2>3, <2>4, <2>5
<1> QED  BY <1>1, <1>3

\* What bounds a quotient that is rounded down.
LEMMA QuotientBelow ==
    ASSUME NEW x \in Nat, NEW y \in Count, NEW n \in Int
    PROVE  x \div y <= n <=> x < y * (n + 1)
<1> DEFINE r == x \div y
<1>1. y \in Int /\ y > 0 /\ r \in Int /\ y * r <= x /\ x < y * (r + 1)
  BY DEF Count
<1> HIDE DEF r
<1>2. \A a \in Int : /\ y * a \in Int
                     /\ y * a < y * (n + 1) <=> a < n + 1
  <2> SUFFICES ASSUME NEW a \in Int PROVE y * a \in Int /\ (y * a < y * (n + 1) <=> a < n + 1)
    OBVIOUS
  <2>1. n + 1 \in Int /\ a * y = y * a
    BY <1>1
  <2> QED  BY <2>1, Multiples
<1>3. y * (n + 1) \in Int /\ y * (r + 1) = y * r + y
  BY <1>1
<1>4. r <= n => x < y * (n + 1)
  <2>1. r < n => y * (r + 1) < y * (n + 1)
    BY <1>1, <1>2
  <2> QED  BY <1>1, <1>3, <2>1
<1>5. x < y * (n + 1) => r <= n
  BY <1>1, <1>2, <1>3
<1> QED  BY <1>4, <1>5 DEF r

\* The multiple rct's parser rounds up to is the first that is not less than 204 over
\* the second price, rounded, and not before the fifth: c multiples of m.
IsThird(m, price2, c) == /\ (2 * c * m + 1) * price2 > 40800
                         /\ c = 5 \/ (2 * (c - 1) * m + 1) * price2 <= 40800

LEMMA RctNextIsThird ==
    ASSUME NEW m \in Count, NEW price2 \in Count, NEW price3 \in Count
    PROVE  RctNext(m, price2, price3) = RctThird(m, price2)
<1> DEFINE r == Round(20400, price2)
           next == Larger(r, 5 * m)
           c == Ceil(next, m)
<1>1. RctNext(m, price2, price3) = m * c
  BY DEF RctNext, Count
<1>2. m \in Int /\ m > 0 /\ price2 \in Int /\ price2 > 0
  BY DEF Count
<1>3. r \in Int /\ \A n \in Int : r <= n <=> 40800 + price2 < 2 * price2 * (n + 1)
  <2>1. 40800 + price2 \in Nat /\ 2 * price2 \in Count /\ r = (40800 + price2) \div (2 * price2)
    BY <1>2 DEF Round, Count
  <2>2. r \in Int
    BY <1>2, <2>1
  <2> HIDE DEF r
  <2> QED  BY <2>1, <2>2, QuotientBelow
<1> HIDE DEF r
<1>4. ASSUME NEW d \in Int
      PROVE  (2 * d * m + 1) * price2 > 40800 <=> r <= d * m
  <2> DEFINE n == d * m
  <2>1. n \in Int /\ 2 * d * m = 2 * n
    BY <1>2
  <2> HIDE DEF n
  <2>2. r <= n <=> 40800 + price2 < 2 * price2 * (n + 1)
    BY <1>3, <2>1
  <2>3. price2 * n \in Int
    BY <1>2, <2>1
  <2>4. 2 * price2 * (n + 1) = 2 * (price2 * n) + 2 * price2
    BY <1>2, <2>1
  <2>5. (2 * n + 1) * price2 = 2 * (price2 * n) + price2
    BY <1>2, <2>1
  <2>6. (2 * n + 1) * price2 > 40800 <=> r <= n
    BY <1>2, <2>2, <2>3, <2>4, <2>5
  <2> QED  BY <2>1, <2>6 DEF n
<1>5. next \in Int /\ next >= r /\ next >= 5 * m /\ (next = r \/ next = 5 * m)
  BY <1>2, <1>3 DEF Larger
<1> HIDE DEF next
<1>6. c \in Int /\ m * c < next + m /\ next <= m * c
  <2> DEFINE x == next + m - 1
  <2>1. x \in Int /\ x > 0
    BY <1>2, <1>5
  <2>2. c = x \div m
    BY DEF Ceil
  <2> HIDE DEF x, c
  <2>3. c \in Int /\ m * c <= x /\ x < m * (c + 1)
    BY <1>2, <2>1, <2>2
  <2>4. m * (c + 1) = m * c + m /\ m * c \in Int
    BY <1>2, <2>3
  <2> QED  BY <1>2, <1>5, <2>3, <2>4 DEF x
<1> HIDE DEF c
<1> DEFINE at(d) == d * m
           all == 5..20405
           reaches(d) == r <= at(d) /\ (d = 5 \/ at(d - 1) < r)
<1>7. \A a, b \in Int : at(a) \in Int /\ (at(a) < at(b) <=> a < b)
  <2> SUFFICES ASSUME NEW a \in Int, NEW b \in Int
               PROVE  a * m \in Int /\ (a * m < b * m <=> a < b)
    OBVIOUS
  <2>1. b * m = m * b
    BY <1>2
  <2> QED  BY <2>1, Multiples
<1>8. m * c = at(c) /\ at(c - 1) = at(c) - m
  BY <1>2, <1>6
<1>9. 5 * m = at(5) /\ at(20401) >= 20401
  BY <1>2
<1> HIDE DEF all
<1>10. ASSUME NEW d \in all
       PROVE  IsThird(m, price2, d) <=> reaches(d)
  <2>1. d \in Int /\ d - 1 \in Int /\ at(d - 1) \in Int
    BY <1>7 DEF all
  <2>2. (2 * d * m + 1) * price2 > 40800 <=> r <= at(d)
    BY <1>4, <2>1
  <2>3. (2 * (d - 1) * m + 1) * price2 > 40800 <=> r <= at(d - 1)
    BY <1>4, <2>1
  <2>4. (2 * (d - 1) * m + 1) * price2 \in Int
    BY <1>2, <2>1
  <2> HIDE DEF at
  <2>5. (2 * (d - 1) * m + 1) * price2 <= 40800 <=> at(d - 1) < r
    BY <1>3, <2>1, <2>3, <2>4
  <2> QED  BY <2>2, <2>5 DEF IsThird
<1> HIDE DEF at
<1>11. c \in 5..20405 /\ r <= at(c) /\ (c = 5 \/ at(c - 1) < r)
  <2>1. c - 1 \in Int /\ at(c) \in Int /\ at(c - 1) \in Int /\ at(5) \in Int /\ at(20401) \in Int
    BY <1>6, <1>7
  <2>2. ~(at(c) < at(5)) /\ r <= at(c)
    BY <1>2, <1>3, <1>5, <1>6, <1>8, <1>9, <2>1
  <2>3. c >= 5
    BY <1>6, <1>7, <2>2
  <2>4. c # 5 => ~(at(c - 1) < at(5))
    <3>1. c # 5 => ~(c - 1 < 5)
      BY <1>6, <2>3
    <3> QED  BY <1>7, <2>1, <3>1
  <2>5. at(c - 1) < next
    BY <1>2, <1>5, <1>6, <1>8, <2>1
  <2>6. c = 5 \/ at(c - 1) < r
    BY <1>3, <1>5, <1>9, <2>1, <2>4, <2>5
  <2>7. r <= 20400
    BY <1>2, <1>3
  <2>8. c > 20405 => at(20401) < at(c - 1)
    <3>1. c > 20405 => 20401 < c - 1
      BY <1>6
    <3> QED  BY <1>7, <2>1, <3>1
  <2>9. c <= 20405
    BY <1>3, <1>6, <1>9, <2>1, <2>6, <2>7, <2>8
  <2> QED  BY <1>6, <2>2, <2>3, <2>6, <2>9
<1>12. RctThird(m, price2) = m * (CHOOSE d \in all : IsThird(m, price2, d))
  BY DEF RctThird, IsThird, all
<1>13. c \in all /\ all \subseteq Int /\ reaches(c)
  BY <1>11 DEF all
<1>14. \A d \in all : reaches(d) => d = c
  <2>1. r \in Int
    BY <1>3
  <2> SUFFICES ASSUME NEW d \in all, r <= at(d), d = 5 \/ at(d - 1) < r PROVE d = c
    OBVIOUS
  <2>2. d \in Int /\ d - 1 \in Int /\ c - 1 \in Int
    BY <1>6, <1>13
  <2>3. /\ at(d) \in Int /\ at(c) \in Int /\ at(d - 1) \in Int /\ at(c - 1) \in Int
        /\ d < c => ~(at(c - 1) < at(d))
        /\ c < d => ~(at(d - 1) < at(c))
    <3>1. (d < c => ~(c - 1 < d)) /\ (c < d => ~(d - 1 < c))
      BY <1>6, <2>2
    <3> QED  BY <1>6, <1>7, <2>2, <3>1
  <2>4. (d < c => d # 5 \/ c # 5) /\ (d = 5 => ~(c < d)) /\ (c = 5 => ~(d < c))
    <3>1. c \in 5..20405 /\ d \in 5..20405
      BY <1>11 DEF all
    <3> QED  BY <2>2, <3>1
  <2> QED  BY <1>6, <1>11, <2>1, <2>2, <2>3, <2>4
<1> HIDE DEF reaches
<1>15. \A d \in all : IsThird(m, price2, d) <=> reaches(d)
  BY <1>10, Zenon
<1>16. (CHOOSE d \in all : IsThird(m, price2, d)) = c
  BY <1>13, <1>14, <1>15, Zenon
<1> QED  BY <1>1, <1>12, <1>16

LEMMA RctSells ==
    ASSUME NEW row \in Rows.rct, NEW good \in Rct(row), NEW w \in good.warehouses
    PROVE  SellsBy(w, RctTariff(row))
<1> DEFINE m == Fallback(row.multiple, 1)
           p1 == RctPrice(row.price1)
           p2 == RctPrice(row.price2)
           p3 == RctPrice(row.price3)
           next == RctNext(m, p2, p3)
           first == Band(p1, m, IF p2 = 0 THEN 0 ELSE 2 * m)
           second == Band(p2, 3 * m, IF next = 0 THEN 0 ELSE Minus(next, m))
           third == Band(p3, next, 0)
           band == <<first, second, third>>
           at == IF p2 > 0 THEN RctThird(m, p2) ELSE NaN
           step(min, cell) == IF Truthy(cell) THEN Step(min, 102 * cell) ELSE Step(NaN, NaN)
           steps == <<step(m, row.price1), step(3 * m, row.price2), step(at, row.price3)>>
<1>1. m \in Count /\ row.price1 \in Cell /\ row.price2 \in Cell /\ row.price3 \in Cell
  <2>1. row.multiple \in Count \cup {NaN}
    BY SheetsAssumption
  <2>2. m \in Count
    BY <2>1 DEF Fallback, Count
  <2> QED  BY <2>2, SheetsAssumption
<1>2. w.multiple = m /\ w.prices = {b \in {first, second, third} : b.value # 0}
  BY DEF Rct, When, Good, Warehouse
<1>3. ~first.isOrdinary /\ ~second.isOrdinary /\ ~third.isOrdinary
  BY DEF Band
<1>4. \A x \in Cell : IF Truthy(x) THEN RctPrice(x) = 102 * x /\ 102 * x \in Int /\ RctPrice(x) # 0
                                   ELSE RctPrice(x) = 0
  BY NaNAssumption DEF RctPrice, Fallback, Truthy, Cell
<1>5. RctTariff(row) = Plain(steps)
  BY DEF RctTariff
<1>6. /\ DOMAIN steps = 1..3
      /\ \A x \in Cell : \A min : /\ step(min, x).min = IF Truthy(x) THEN min ELSE NaN
                                  /\ step(min, x).value = IF Truthy(x) THEN RctPrice(x) ELSE NaN
  BY <1>4 DEF Step
<1> HIDE DEF m, p1, p2, p3, next, at
<1>7. ASSUME NEW k \in 1..3, SpelledBy(steps, k)
      PROVE  /\ p1 \in Count
             /\ k = 1 => p2 = 0 /\ p3 = 0
             /\ k >= 2 => p2 \in Count
             /\ k = 2 => p3 = 0 /\ next = 0
             /\ k = 3 => p3 \in Count /\ \E c \in Int : c >= 5 /\ next = m * c
             /\ steps[1] = Step(m, p1)
             /\ steps[2] = IF k >= 2 THEN Step(3 * m, p2) ELSE Step(NaN, NaN)
             /\ steps[3] = IF k = 3 THEN Step(next, p3) ELSE Step(NaN, NaN)
  <2> DEFINE one == step(m, row.price1)
             two == step(3 * m, row.price2)
             three == step(at, row.price3)
  <2>1. /\ Filled(one)
        /\ IF k >= 2 THEN Filled(two) ELSE Empty(two)
        /\ IF k = 3 THEN Filled(three) ELSE Empty(three)
    <3>1. \A i \in 1..3 : IF i <= k THEN Filled(steps[i]) ELSE Empty(steps[i])
      BY <1>6, <1>7 DEF SpelledBy
    <3> HIDE DEF step
    <3> QED  BY <3>1
  <2>2. \A x \in Cell : \A min : Filled(step(min, x)) => Truthy(x) /\ RctPrice(x) \in Count
    <3>1. \A x \in Cell : Truthy(x) => RctPrice(x) \in Int
      BY <1>4
    <3> HIDE DEF step
    <3> QED  BY <1>6, <3>1, NaNAssumption DEF Filled, IsPositive, Count
  <2>3. \A x \in Cell : \A min : Empty(step(min, x)) => ~Truthy(x)
    <3>1. \A x \in Cell : Truthy(x) => Truthy(RctPrice(x))
      BY <1>4, NaNAssumption DEF Truthy
    <3> HIDE DEF step
    <3> QED  BY <1>6, <3>1 DEF Empty
  <2>4. /\ Truthy(row.price1) /\ p1 \in Count
        /\ IF k >= 2 THEN Truthy(row.price2) /\ p2 \in Count ELSE ~Truthy(row.price2)
        /\ IF k = 3 THEN Truthy(row.price3) /\ p3 \in Count ELSE ~Truthy(row.price3)
    <3> HIDE DEF step
    <3> QED  BY <1>1, <2>1, <2>2, <2>3 DEF p1, p2, p3
  <2>5. (k < 2 => p2 = 0) /\ (k < 3 => p3 = 0)
    BY <1>1, <1>4, <2>4 DEF p2, p3
  <2>6. k = 2 => next = 0
    BY <2>4, <2>5 DEF next, RctNext, Count
  <2>7. k = 3 => \E c \in Int : c >= 5 /\ next = m * c
    BY <1>1, <2>4, RctNextIsMultiple DEF next
  <2>8. k = 3 => at = next
    <3>1. p2 \in Count => p2 > 0
      BY DEF Count
    <3> QED  BY <1>1, <2>4, <3>1, RctNextIsThird DEF at, next
  <2>9. /\ steps[1] = Step(m, p1)
        /\ steps[2] = IF k >= 2 THEN Step(3 * m, p2) ELSE Step(NaN, NaN)
        /\ steps[3] = IF k = 3 THEN Step(next, p3) ELSE Step(NaN, NaN)
    BY <1>1, <1>4, <2>4, <2>8 DEF p1, p2, p3
  <2> QED  BY <2>4, <2>5, <2>6, <2>7, <2>9
<1>8. Retail(w) = {}
  <2> HIDE DEF first, second, third
  <2> QED  BY <1>2, <1>3 DEF Retail
<1> HIDE DEF step
<1>9. ASSUME NEW k \in 1..3, SpelledBy(steps, k), NEW j \in Int
      PROVE  Charges(Charged(w.prices, j * m), steps, j * m)
  <2> DEFINE q == j * m
  <2>1. /\ p1 \in Count
        /\ k = 1 => p2 = 0 /\ p3 = 0
        /\ k >= 2 => p2 \in Count
        /\ k = 2 => p3 = 0 /\ next = 0
        /\ k = 3 => p3 \in Count /\ \E c \in Int : c >= 5 /\ next = m * c
        /\ steps[1] = Step(m, p1)
        /\ steps[2] = IF k >= 2 THEN Step(3 * m, p2) ELSE Step(NaN, NaN)
        /\ steps[3] = IF k = 3 THEN Step(next, p3) ELSE Step(NaN, NaN)
    BY <1>7, <1>9
  <2>2. q \in Int /\ m \in Int /\ m > 0 /\ (q < 3 * m <=> q <= 2 * m)
    <3>1. j * m < m * 3 <=> j * m <= m * 3 - m
      BY <1>1, Multiples
    <3> QED  BY <1>1, <3>1 DEF Count
  <2>3. k = 3 => /\ next \in Int /\ next - m \in Int /\ next # 0 /\ next - m # 0
                 /\ q < next <=> q <= next - m
    <3> SUFFICES ASSUME k = 3
                 PROVE  /\ next \in Int /\ next - m \in Int /\ next # 0 /\ next - m # 0
                        /\ q < next <=> q <= next - m
      OBVIOUS
    <3>1. PICK c \in Int : c >= 5 /\ next = m * c
      BY <2>1
    <3>2. j * m < m * c <=> j * m <= m * c - m
      BY <1>1, Multiples
    <3>3. 1 * m < m * c <=> 1 < c
      BY <1>1, Multiples
    <3>4. m * c \in Int /\ 1 * m = m
      BY <1>1 DEF Count
    <3> QED  BY <2>2, <3>1, <3>2, <3>3, <3>4
  <2> HIDE DEF q
  <2>4. steps \in TariffOf(3)
    <3>1. /\ Step(NaN, NaN) \in [min : Cell, value : Cell] /\ Step(m, p1) \in [min : Cell, value : Cell]
          /\ k >= 2 => Step(3 * m, p2) \in [min : Cell, value : Cell]
          /\ k = 3 => Step(next, p3) \in [min : Cell, value : Cell]
      BY <2>1, <2>2, <2>3 DEF Step, Cell, Count
    <3>2. \A i \in 1..3 : steps[i] \in [min : Cell, value : Cell]
      <4> HIDE DEF steps
      <4> QED  BY <2>1, <3>1
    <3>3. steps = [i \in 1..3 |-> steps[i]]
      OBVIOUS
    <3> HIDE DEF steps
    <3> QED  BY <3>2, <3>3 DEF TariffOf
  <2>5. /\ first.value = p1 /\ first.min = m /\ first.max = IF k = 1 THEN 0 ELSE 2 * m
        /\ k >= 2 => /\ second.value = p2 /\ second.min = 3 * m
                     /\ second.max = IF k = 2 THEN 0 ELSE next - m
        /\ k = 3 => third.value = p3 /\ third.min = next /\ third.max = 0
    <3>1. k = 3 => Minus(next, m) = next - m
      BY <2>3, NaNAssumption DEF Minus
    <3> QED  BY <2>1, <2>3, <3>1 DEF Band, Count
  <2>6. /\ first \in w.prices
        /\ second \in w.prices <=> k >= 2
        /\ third \in w.prices <=> k = 3
    <3>1. first.value = p1 /\ second.value = p2 /\ third.value = p3
      BY DEF Band
    <3> HIDE DEF first, second, third
    <3> QED  BY <1>2, <2>1, <3>1 DEF Count
  <2> HIDE DEF first, second, third, steps
  <2>7. Buying(w) = BandsOf(band, k)
    <3>1. BandsOf(band, k) = {first} \cup (IF k >= 2 THEN {second} ELSE {}) \cup (IF k = 3 THEN {third} ELSE {})
      <4>1. CASE k = 1
        BY <4>1 DEF BandsOf
      <4>2. CASE k = 2
        BY <4>2 DEF BandsOf
      <4>3. CASE k = 3
        BY <4>3 DEF BandsOf
      <4> QED  BY <4>1, <4>2, <4>3
    <3> QED  BY <1>2, <1>3, <2>6, <3>1 DEF Buying
  <2>8. /\ steps[1].value = p1 /\ steps[1].min = m
        /\ k >= 2 => steps[2].value = p2 /\ steps[2].min = 3 * m
        /\ k = 3 => steps[3].value = p3 /\ steps[3].min = next
    BY <2>1 DEF Step
  <2>9. ASSUME NEW i \in 1..k
        PROVE  band[i].value = steps[i].value /\ (Covers(band[i], q) <=> i \in Within(steps, k, q))
    <3>1. CASE i = 1
      <4>1. (first.max = 0 \/ q <= first.max) <=> (1 < k => q < 3 * m)
        BY <2>2, <2>5
      <4>2. first.max # NaN /\ m # NaN
        BY <2>2, <2>5, NaNAssumption
      <4> QED  BY <2>5, <2>8, <3>1, <4>1, <4>2 DEF Covers, Within
    <3>2. CASE i = 2
      <4>1. (second.max = 0 \/ q <= second.max) <=> (2 < k => q < next)
        BY <2>3, <2>5, <3>2
      <4>2. second.max # NaN /\ 3 * m # NaN
        BY <2>2, <2>3, <2>5, <3>2, NaNAssumption
      <4> QED  BY <2>5, <2>8, <3>2, <4>1, <4>2 DEF Covers, Within
    <3>3. CASE i = 3
      <4>1. k = 3 /\ next # NaN
        BY <2>3, <3>3, NaNAssumption
      <4> QED  BY <2>5, <2>8, <3>3, <4>1, NaNAssumption DEF Covers, Within
    <3> QED  BY <3>1, <3>2, <3>3
  <2>10. Charges(Charged(w.prices, q), steps, q)
    <3> HIDE DEF band
    <3> QED  BY <1>9, <2>2, <2>4, <2>7, <2>9, CoverCharges
  <2> QED  BY <2>10 DEF q
<1> HIDE DEF steps
<1>10. \A j \in 1..MaxPacks : Spelled(steps) => Charges(Charged(w.prices, j * w.multiple), steps, j * w.multiple)
  <2> SUFFICES ASSUME NEW j \in 1..MaxPacks, Spelled(steps)
               PROVE  Charges(Charged(w.prices, j * m), steps, j * m)
    BY <1>2
  <2>1. PICK k \in 1..3 : SpelledBy(steps, k)
    BY <1>6, SpelledHas
  <2> QED  BY <1>9, <2>1
<1>11. SellsBy(w, Plain(steps))
  BY <1>8, <1>10, OnlyBuying
<1> QED  BY <1>5, <1>11

\* ru.electronics counts its ordinary steps in packs.
LEMMA RuelWarehouse ==
    ASSUME NEW row \in Rows.ruelectronics, NEW good \in RuElectronics(row), NEW w \in good.warehouses
    PROVE  w.multiple \in Count /\ w.prices = RuelPrices(row, w.multiple)
<1> DEFINE packs == RuelPacks(row.packets)
           stock == IF packs # {} THEN packs
                    ELSE When(Truthy(row.quant), [norma |-> 1, quantity |-> row.quant])
           arrives == Or(row.normaArrives, 1)
<1>1. /\ row.packets \in Seq([norma : Cell, quant : Cell])
      /\ row.normaArrives \in Nat \cup {NaN}
  BY SheetsAssumption
<1>2. arrives \in Count /\ 1 \in Count
  BY <1>1 DEF Or, Truthy, Count
<1>3. \A p \in stock : p.norma \in Count
  <2>1. \A p \in packs : p.norma \in Count
    <3>1. \A i \in DOMAIN row.packets : row.packets[i].norma \in Cell
      <4>1. \A i \in DOMAIN row.packets : row.packets[i] \in [norma : Cell, quant : Cell]
        BY <1>1, LenProperties, ElementOfSeq
      <4> QED  BY <4>1
    <3>2. \A x \in Cell : IsPositive(x) => x \in Count
      BY NaNAssumption DEF IsPositive, Cell, Count
    <3>3. \A p \in packs : \E i \in DOMAIN row.packets :
             IsPositive(row.packets[i].norma) /\ p.norma = row.packets[i].norma
      <4> DEFINE valid == {i \in DOMAIN row.packets :
                            IsPositive(row.packets[i].norma) /\ IsPositive(row.packets[i].quant)}
                 pieces == [i \in valid |-> row.packets[i].norma * row.packets[i].quant]
                 pack(n) == [norma |-> n,
                             quantity |-> SumFunctionOnSet(pieces, {i \in valid : row.packets[i].norma = n})]
      <4>1. packs = {pack(n) : n \in {row.packets[i].norma : i \in valid}}
        BY DEF RuelPacks
      <4>2. \A n : pack(n).norma = n
        OBVIOUS
      <4> HIDE DEF pack, packs
      <4> QED  BY <4>1, <4>2
    <3> QED  BY <3>1, <3>2, <3>3
  <2> QED  BY <1>2, <2>1 DEF When
<1>4. PICK name, quantity, multiple :
        multiple \in Count /\ w = Warehouse(name, quantity, multiple, RuelPrices(row, multiple))
  <2> DEFINE smallest(pack) == \A otherPack \in stock : pack.norma <= otherPack.norma
             own == {Warehouse(IF smallest(p) THEN <<"CENTER">> ELSE <<"CENTER", p.norma>>,
                               p.quantity, p.norma, RuelPrices(row, p.norma)) : p \in stock}
             arrived == When(Truthy(row.arrived),
                             Warehouse(<<"ARRIVED">>, row.arrived, arrives, RuelPrices(row, arrives)))
             transit == When(Truthy(row.arrives),
                             Warehouse(<<"TRANSIT">>, row.arrives, arrives, RuelPrices(row, arrives)))
             produced == When(Truthy(row.industry),
                              Warehouse(<<"PRODUCED">>, row.industry, 1, RuelPrices(row, 1)))
  <2>1. good = Good(row.code, {x \in own \cup arrived \cup transit \cup produced : x.prices # {}})
    BY DEF RuElectronics
  <2> HIDE DEF own, arrived, transit, produced
  <2>2. w \in own \cup arrived \cup transit \cup produced
    BY <2>1 DEF Good
  <2> HIDE DEF stock, arrives
  <2>3. CASE w \in own
    <3>1. PICK p \in stock : w = Warehouse(IF smallest(p) THEN <<"CENTER">> ELSE <<"CENTER", p.norma>>,
                                           p.quantity, p.norma, RuelPrices(row, p.norma))
      BY <2>3 DEF own
    <3>2. p.norma \in Count
      BY <1>3
    <3> HIDE DEF smallest
    <3> QED  BY <3>1, <3>2
  <2>4. CASE w \in arrived
    <3>1. w = Warehouse(<<"ARRIVED">>, row.arrived, arrives, RuelPrices(row, arrives))
      BY <2>4 DEF arrived, When
    <3> QED  BY <1>2, <3>1
  <2>5. CASE w \in transit
    <3>1. w = Warehouse(<<"TRANSIT">>, row.arrives, arrives, RuelPrices(row, arrives))
      BY <2>5 DEF transit, When
    <3> QED  BY <1>2, <3>1
  <2>6. CASE w \in produced
    <3>1. w = Warehouse(<<"PRODUCED">>, row.industry, 1, RuelPrices(row, 1))
      BY <2>6 DEF produced, When
    <3> QED  BY <1>2, <3>1
  <2> QED  BY <2>2, <2>3, <2>4, <2>5, <2>6
<1>5. \A n, q, m, prices : /\ Warehouse(n, q, m, prices).multiple = m
                           /\ Warehouse(n, q, m, prices).prices = prices
  BY DEF Warehouse
<1> QED  BY <1>4, <1>5

LEMMA RuElectronicsSells ==
    ASSUME NEW row \in Rows.ruelectronics, NEW good \in RuElectronics(row), NEW w \in good.warehouses
    PROVE  SellsBy(w, RuElectronicsTariff(row))
<1> DEFINE m == w.multiple
           tariff == RuElectronicsTariff(row)
           buying == <<Step(1, row.vipprice)>>
           retail == <<Step(1, row.price), Step(3, row.optprice)>>
           first == Ordinary(Band(row.price, m, m * 3 - 1))
           second == Ordinary(Band(row.optprice, m * 3, 0))
           third == Band(row.vipprice, m, 0)
           other == <<first, second>>
<1>1. /\ row.price \in Cell /\ row.optprice \in Cell /\ row.vipprice \in Cell
      /\ m \in Count
      /\ w.prices = {b \in {first, second, third} : IsPositive(b.value)}
  BY SheetsAssumption, RuelWarehouse DEF RuelPrices
<1>2. /\ tariff.buying = buying /\ tariff.retail = retail /\ tariff.from = 1
      /\ tariff.inPacks
  BY DEF RuElectronicsTariff, Tariff
<1>3. /\ first.value = row.price /\ first.min = m /\ first.max = m * 3 - 1 /\ first.isOrdinary
      /\ second.value = row.optprice /\ second.min = m * 3 /\ second.max = 0 /\ second.isOrdinary
      /\ third.value = row.vipprice /\ third.min = m /\ third.max = 0 /\ ~third.isOrdinary
  BY BandFields
<1>4. buying \in TariffOf(1) /\ retail \in TariffOf(2)
  <2>1. 1 \in Cell /\ 3 \in Cell
    BY DEF Cell
  <2> QED  BY <1>1, <2>1 DEF TariffOf, Step
<1>5. /\ buying[1].min = 1 /\ buying[1].value = row.vipprice
      /\ retail[1].min = 1 /\ retail[1].value = row.price
      /\ retail[2].min = 3 /\ retail[2].value = row.optprice
      /\ DOMAIN buying = 1..1 /\ DOMAIN retail = 1..2
  BY DEF Step
<1>6. m \in Int /\ m >= 1 /\ m * 3 \in Int
  BY <1>1 DEF Count
<1> HIDE DEF tariff, buying, retail, first, second, third, m
<1>7. ASSUME NEW j \in Int, j * m >= 1
      PROVE  /\ j >= 1 /\ m <= j * m /\ j * m \in Int
             /\ (j * m) \div m = j
             /\ j * m <= m * 3 - 1 <=> j < 3
             /\ m * 3 <= j * m <=> 3 <= j
  <2>1. /\ j * m \in Int
        /\ j * m < m * 3 <=> j < 3
        /\ j * m < m * 1 <=> j < 1
    BY <1>1, Multiples
  <2>2. j >= 1
    BY <1>6, <1>7, <2>1
  <2>3. m * 1 = m
    BY <1>6
  <2>4. (j * m) \div m = j
    BY <1>6
  <2> QED  BY <1>6, <2>1, <2>2, <2>3, <2>4
<1>8. ASSUME NEW j \in Int, j * m >= 1, Spelled(buying)
      PROVE  Charges(Charged(w.prices, j * m), buying, j * m)
  <2>1. PICK k \in 1..1 : SpelledBy(buying, k)
    BY <1>5, <1>8, SpelledHas
  <2>2. k = 1 /\ IsPositive(row.vipprice)
    BY <1>5, <2>1 DEF SpelledBy, Filled
  <2>3. third \in w.prices
    BY <1>1, <1>3, <2>2
  <2>4. Buying(w) = BandsOf(<<third>>, 1)
    BY <1>1, <1>3, <2>3 DEF Buying, BandsOf
  <2>5. \A i \in 1..1 : /\ <<third>>[i].value = buying[i].value
                        /\ Covers(<<third>>[i], j * m) <=> i \in Within(buying, 1, j * m)
    BY <1>3, <1>5, <1>6, <1>7, <1>8, NaNAssumption DEF Covers, Within
  <2>6. SpelledBy(buying, 1) /\ 1 \in 1..1 /\ j * m \in Int
    BY <1>7, <1>8, <2>1, <2>2
  <2> QED  BY <1>4, <2>4, <2>5, <2>6, CoverCharges
<1>9. ASSUME NEW j \in Int, j * m >= 1, Spelled(retail)
      PROVE  Charges({b \in Retail(w) : Covers(b, j * m)}, retail, (j * m) \div m)
  <2>1. PICK k \in 1..2 : SpelledBy(retail, k)
    BY <1>5, <1>9, SpelledHas
  <2>2. IsPositive(row.price) /\ IsPositive(row.optprice) /\ SpelledBy(retail, 2)
    <3>1. k = 2
      BY <1>5, <2>1, NaNAssumption DEF SpelledBy, Empty, Truthy
    <3> QED  BY <1>5, <2>1, <3>1 DEF SpelledBy, Filled
  <2>3. Retail(w) = {first, second}
    BY <1>1, <1>3, <2>2 DEF Retail
  <2>4. \A i \in 1..2 : /\ other[i].value = retail[i].value
                        /\ Covers(other[i], j * m) <=> i \in Within(retail, 2, j)
    <3>1. Covers(first, j * m) <=> 1 \in Within(retail, 2, j)
      <4>1. m # NaN /\ m * 3 - 1 # NaN /\ m * 3 - 1 # 0
        BY <1>6, NaNAssumption
      <4> QED  BY <1>3, <1>5, <1>6, <1>7, <1>9, <4>1 DEF Covers, Within
    <3>2. Covers(second, j * m) <=> 2 \in Within(retail, 2, j)
      <4>1. m * 3 # NaN /\ 0 # NaN
        BY <1>6, NaNAssumption
      <4> QED  BY <1>3, <1>5, <1>6, <1>7, <1>9, <4>1 DEF Covers, Within
    <3> QED  BY <1>3, <1>5, <3>1, <3>2
  <2>5. {b \in Retail(w) : Covers(b, j * m)} = {other[i] : i \in Within(retail, 2, j)}
    <3>1. \A b : b \in {first, second} <=> \E i \in 1..2 : b = other[i]
      OBVIOUS
    <3> HIDE DEF other
    <3> QED  BY <2>3, <2>4, <3>1 DEF Within
  <2>6. 2 \in 1..2 /\ 2 \in Nat /\ \A i \in 1..2 : other[i].value = retail[i].value
    BY <2>4
  <2> HIDE DEF other
  <2>7. Charges({other[i] : i \in Within(retail, 2, j)}, retail, j)
    BY <1>4, <2>2, <2>6, WithinCharges
  <2>8. (j * m) \div m = j
    BY <1>7, <1>9
  <2> QED  BY <2>5, <2>7, <2>8
<1>10. ~Spelled(<<>>)
  BY DEF Spelled
<1>11. SellsBy(w, tariff)
  <2> SUFFICES ASSUME NEW j \in 1..MaxPacks, j * m >= 1
               PROVE  /\ Spelled(buying) => Charges(Charged(w.prices, j * m), buying, j * m)
                      /\ LET steps == IF Retail(w) = {} THEN <<>> ELSE retail
                         IN  Spelled(steps) =>
                               Charges({b \in Retail(w) : Covers(b, j * m)}, steps, (j * m) \div m)
    BY <1>2 DEF SellsBy, Retail, m
  <2> QED  BY <1>8, <1>9, <1>10
<1> QED  BY <1>11 DEF tariff

----------------------------------------------------------------------------
(***************************************************************************)
(* The merged lists have no tariffs of their own; the other lists set them *)
(* in the step that writes their goods.                                    *)
(***************************************************************************)
MergedLists == {"fulcrum", "microem", "ecomp", "elcopro"}

TariffsInv ==
    /\ list \in MergedLists => tariffs = {}
    /\ BandsChargeTheTariff

LEMMA UntoldIsCharged ==
    ASSUME tariffs' = {}
    PROVE  BandsChargeTheTariff'
BY DEF BandsChargeTheTariff

LEMMA PricedIsCharged ==
    ASSUME NEW made, NEW meant, NEW names, goods' = made, tariffs' = names \X {meant},
           \A good \in made : \A w \in good.warehouses : SellsBy(w, meant)
    PROVE  BandsChargeTheTariff'
BY DEF BandsChargeTheTariff

LEMMA MadeIsCharged ==
    ASSUME NEW good, NEW meant, goods' = {good}, tariffs' = meant,
           \A w \in good.warehouses : \A pair \in meant : pair[1] = w.name => SellsBy(w, pair[2])
    PROVE  BandsChargeTheTariff'
BY DEF BandsChargeTheTariff

LEMMA PromelecIsCharged ==
    ASSUME NEW item \in Rows.promelec, NEW w \in Promelec(item).warehouses,
           NEW pair \in PromelecTariffs(item), pair[1] = w.name
    PROVE  SellsBy(w, pair[2])
<1>1. \A name, quantity, multiple, prices :
         /\ Warehouse(name, quantity, multiple, prices).name = name
         /\ Warehouse(name, quantity, multiple, prices).multiple = multiple
         /\ Warehouse(name, quantity, multiple, prices).prices = prices
  BY DEF Warehouse
<1>2. /\ Scale \in Count
      /\ \A v \in item.vendors : \A other \in item.vendors : v.vendor = other.vendor => v = other
  BY AnswersAssumption
<1>3. \A x \in Cell : Fallback(x, 1) \in Int
  BY DEF Fallback, Cell
<1>4. CASE w = Warehouse(<<"CENTER">>, item.quant, Fallback(item.quantUnit, 1),
                         ParsePrices(item.pricebreaks, item))
  <2>1. w.name = <<"CENTER">> /\ w.multiple \in Int /\ w.prices = ParsePrices(item.pricebreaks, item)
    BY <1>1, <1>3, <1>4, AnswersAssumption
  <2>2. \A v : <<"CENTER">> # <<"Vendor", v>>
    OBVIOUS
  <2>3. pair[2] = PromelecTariff(item)
    BY <2>1, <2>2 DEF PromelecTariffs
  <2> QED  BY <2>1, <2>3, PromelecSells
<1>5. ASSUME NEW v \in item.vendors,
             w = Warehouse(<<"Vendor", v.vendor>>, v.quant, Fallback(v.mpq, 1),
                           ParsePrices(v.pricebreaks, v))
      PROVE  SellsBy(w, pair[2])
  <2>1. w.name = <<"Vendor", v.vendor>> /\ w.multiple \in Int /\ w.prices = ParsePrices(v.pricebreaks, v)
    BY <1>1, <1>3, <1>5, AnswersAssumption
  <2>2. \A u : <<"CENTER">> # <<"Vendor", u>>
    OBVIOUS
  <2>3. PICK other \in item.vendors : pair = <<<<"Vendor", other.vendor>>, PromelecTariff(other)>>
    BY <2>1, <2>2 DEF PromelecTariffs
  <2>4. other = v
    <3>1. other.vendor = v.vendor
      BY <2>1, <2>3
    <3> QED  BY <1>2, <3>1
  <2> QED  BY <2>1, <2>3, <2>4, PromelecSells
<1> QED  BY <1>4, <1>5 DEF Promelec, Good

LEMMA SheetRowIsCharged ==
    ASSUME SheetRow, TariffsInv
    PROVE  TariffsInv'
<1>1. list' = list /\ list \notin MergedLists
  BY DEF SheetRow, MakePriced, Make, MergedLists
<1>2. ASSUME NEW row \in Rows.positron, MakePriced(row, Positron(row), PositronTariff(row))
      PROVE  BandsChargeTheTariff'
  <2>1. \A good \in Positron(row) : \A w \in good.warehouses : SellsBy(w, PositronTariff(row))
    BY PositronSells
  <2> QED  BY <1>2, <2>1, PricedIsCharged DEF MakePriced, Make
<1>3. ASSUME NEW row \in Rows.unisvs, MakePriced(row, UniSvs(row), UniSvsTariff(row))
      PROVE  BandsChargeTheTariff'
  <2>1. \A good \in UniSvs(row) : \A w \in good.warehouses : SellsBy(w, UniSvsTariff(row))
    BY UniSvsSells
  <2> QED  BY <1>3, <2>1, PricedIsCharged DEF MakePriced, Make
<1>4. ASSUME NEW row \in Rows.esk, MakePriced(row, Esk(row), EskTariff(row))
      PROVE  BandsChargeTheTariff'
  <2>1. \A good \in Esk(row) : \A w \in good.warehouses : SellsBy(w, EskTariff(row))
    BY EskSells
  <2> QED  BY <1>4, <2>1, PricedIsCharged DEF MakePriced, Make
<1>5. ASSUME NEW row \in Rows.rct, MakePriced(row, Rct(row), RctTariff(row))
      PROVE  BandsChargeTheTariff'
  <2>1. \A good \in Rct(row) : \A w \in good.warehouses : SellsBy(w, RctTariff(row))
    BY RctSells
  <2> QED  BY <1>5, <2>1, PricedIsCharged DEF MakePriced, Make
<1>6. ASSUME NEW row \in Rows.compel, MakePriced(row, CompelDbf(row), CompelDbfTariff(row))
      PROVE  BandsChargeTheTariff'
  <2>1. \A good \in CompelDbf(row) : \A w \in good.warehouses : SellsBy(w, CompelDbfTariff(row))
    BY CompelSells
  <2> QED  BY <1>6, <2>1, PricedIsCharged DEF MakePriced, Make
<1>7. ASSUME NEW row \in Rows.ruelectronics, MakePriced(row, RuElectronics(row), RuElectronicsTariff(row))
      PROVE  BandsChargeTheTariff'
  <2>1. \A good \in RuElectronics(row) : \A w \in good.warehouses : SellsBy(w, RuElectronicsTariff(row))
    BY RuElectronicsSells
  <2> QED  BY <1>7, <2>1, PricedIsCharged DEF MakePriced, Make
<1>8. ASSUME NEW row, NEW made, Make(row, made, {}) PROVE BandsChargeTheTariff'
  BY <1>8, UntoldIsCharged DEF Make
<1>9. BandsChargeTheTariff'
  BY <1>2, <1>3, <1>4, <1>5, <1>6, <1>7, <1>8 DEF SheetRow, MakePriced, Make
<1> QED  BY <1>1, <1>9 DEF TariffsInv

LEMMA ApiItemIsCharged ==
    ASSUME ApiItem, TariffsInv
    PROVE  TariffsInv'
<1>1. list' = list /\ list \notin MergedLists
  BY DEF ApiItem, MakePriced, Make, MergedLists
<1>2. ASSUME NEW item \in Rows.promelec, Make(item, {Promelec(item)}, PromelecTariffs(item))
      PROVE  BandsChargeTheTariff'
  <2>1. \A w \in Promelec(item).warehouses : \A pair \in PromelecTariffs(item) :
           pair[1] = w.name => SellsBy(w, pair[2])
    BY PromelecIsCharged
  <2> QED  BY <1>2, <2>1, MadeIsCharged DEF Make
<1>3. ASSUME NEW pair \in Rows.platan,
             MakePriced(pair, {Platan(pair.item, pair.retail)}, PlatanTariff(pair.item, pair.retail))
      PROVE  BandsChargeTheTariff'
  <2> DEFINE made == {Platan(pair.item, pair.retail)}
  <2>1. \A good \in made : \A w \in good.warehouses :
           SellsBy(w, PlatanTariff(pair.item, pair.retail))
    BY PlatanSells
  <2> HIDE DEF made
  <2>2. MakePriced(pair, made, PlatanTariff(pair.item, pair.retail))
    BY <1>3 DEF made
  <2> QED  BY <2>1, <2>2, PricedIsCharged DEF MakePriced, Make
<1>4. ASSUME NEW item \in Rows.radiodetalicom,
             MakePriced(item, {RadiodetaliCom(item)}, Plain(Priced(item.steps, 1)))
      PROVE  BandsChargeTheTariff'
  <2> DEFINE made == {RadiodetaliCom(item)}
  <2>1. \A good \in made : \A w \in good.warehouses :
           SellsBy(w, Plain(Priced(item.steps, 1)))
    BY RadiodetaliSells
  <2> HIDE DEF made
  <2>2. MakePriced(item, made, Plain(Priced(item.steps, 1)))
    BY <1>4 DEF made
  <2> QED  BY <2>1, <2>2, PricedIsCharged DEF MakePriced, Make
<1>5. ASSUME NEW item \in Rows.elitan, Make(item, {Elitan(item)}, ElitanTariffs(item))
      PROVE  BandsChargeTheTariff'
  <2>1. \A w \in Elitan(item).warehouses : \A pair \in ElitanTariffs(item) :
           pair[1] = w.name => SellsBy(w, pair[2])
    BY ElitanSells
  <2> QED  BY <1>5, <2>1, MadeIsCharged DEF Make
<1>6. ASSUME NEW item, NEW made, Make(item, made, {}) PROVE BandsChargeTheTariff'
  BY <1>6, UntoldIsCharged DEF Make
<1>7. BandsChargeTheTariff'
  BY <1>2, <1>3, <1>4, <1>5, <1>6 DEF ApiItem, MakePriced, Make
<1> QED  BY <1>1, <1>7 DEF TariffsInv

LEMMA MergedRowIsCharged ==
    ASSUME MergedRow, TariffsInv
    PROVE  TariffsInv'
<1>1. tariffs' = tariffs /\ list' = list /\ list \in MergedLists
  BY DEF MergedRow, MergedLists, FulcrumRow, MicroemRow, EcompRow, ElcoRow, Collect
<1>2. tariffs' = {}
  BY <1>1 DEF TariffsInv
<1> QED  BY <1>1, <1>2, UntoldIsCharged DEF TariffsInv

\* Of every row and every item the bands charge what its tariff asks
\* (BandsChargeTheTariff), for all numbers of steps, vendors and stocks; of a row of
\* compel's dbf up to the seventh of its eight steps.
THEOREM BandsAlwaysChargeTheTariff == Spec => []BandsChargeTheTariff
<1>1. Init => TariffsInv
  BY DEF Init, TariffsInv, BandsChargeTheTariff
<1>2. TariffsInv /\ [Next]_vars => TariffsInv'
  <2>1. TariffsInv /\ UNCHANGED vars => TariffsInv'
    BY DEF vars, TariffsInv, BandsChargeTheTariff
  <2> QED  BY <2>1, SheetRowIsCharged, ApiItemIsCharged, MergedRowIsCharged DEF Next
<1>3. TariffsInv => BandsChargeTheTariff
  BY DEF TariffsInv
<1> QED  BY <1>1, <1>2, <1>3, PTL DEF Spec

----------------------------------------------------------------------------
(***************************************************************************)
(* Sums over finite sets.  SumFunctionOnSet is the value at the set of a   *)
(* recursive function over its subsets; that there is just one such        *)
(* function follows from the least subset on which there is none or two.   *)
(***************************************************************************)
Pick(s) == CHOOSE x \in s : TRUE

IsSum(g, f, S) == g = [s \in SUBSET S |-> IF s = {} THEN 0 ELSE f[Pick(s)] + g[s \ {Pick(s)}]]

LEMMA PickIn == ASSUME NEW s, s # {} PROVE Pick(s) \in s
BY DEF Pick

LEMMA SumIs == ASSUME NEW f, NEW S PROVE SumFunctionOnSet(f, S) = (CHOOSE g : IsSum(g, f, S))[S]
BY DEF SumFunctionOnSet, FoldFunctionOnSet, MapThenFoldSet, IsSum, Pick

\* A set of subsets of a finite set has a least element.
LEMMA LeastSubset ==
    ASSUME NEW S, IsFiniteSet(S), NEW T, T \subseteq SUBSET S, T # {}
    PROVE  \E s \in T : \A t \in T : t \subseteq s => t = s
<1> DEFINE R == StrictSubsetOrdering(S)
<1>1. IsWellFoundedOn(R, SUBSET S)
  BY FS_StrictSubsetOrderingWellFounded, FS_FiniteSubsetsOfFinite
<1> HIDE DEF R
<1>2. PICK s \in T : \A t \in T : ~ (<<t, s>> \in R)
  BY <1>1, WFMin
<1>3. \A t \in T : t \subseteq s => t = s
  BY <1>2 DEF R, StrictSubsetOrdering
<1> QED  BY <1>3

LEMMA OneSum ==
    ASSUME NEW S, IsFiniteSet(S), NEW f, NEW U, NEW g, IsSum(g, f, U), NEW V, NEW h, IsSum(h, f, V),
           S \subseteq U, S \subseteq V
    PROVE  g[S] = h[S]
<1> DEFINE T == {t \in SUBSET S : g[t] # h[t]}
<1>1. SUFFICES ASSUME T # {} PROVE FALSE
  OBVIOUS
<1>2. PICK s \in T : \A t \in T : t \subseteq s => t = s
  <2>1. T \subseteq SUBSET S
    OBVIOUS
  <2> HIDE DEF T
  <2> QED  BY <1>1, <2>1, LeastSubset
<1>3. s \in SUBSET U /\ s \in SUBSET V
  OBVIOUS
<1>4. /\ g[s] = IF s = {} THEN 0 ELSE f[Pick(s)] + g[s \ {Pick(s)}]
      /\ h[s] = IF s = {} THEN 0 ELSE f[Pick(s)] + h[s \ {Pick(s)}]
  BY <1>3 DEF IsSum
<1>5. s # {}
  BY <1>4
<1>6. s \ {Pick(s)} \notin T
  BY <1>2, <1>5, PickIn
<1>7. g[s \ {Pick(s)}] = h[s \ {Pick(s)}]
  BY <1>6
<1> QED  BY <1>2, <1>4, <1>5, <1>7

LEMMA SumExists ==
    ASSUME NEW S, IsFiniteSet(S), NEW f
    PROVE  \E g : IsSum(g, f, S)
<1> DEFINE T == {s \in SUBSET S : ~ \E g : IsSum(g, f, s)}
<1>1. SUFFICES ASSUME T # {} PROVE FALSE
  OBVIOUS
<1>2. PICK s \in T : \A t \in T : t \subseteq s => t = s
  <2>1. T \subseteq SUBSET S
    OBVIOUS
  <2> HIDE DEF T
  <2> QED  BY <1>1, <2>1, LeastSubset
<1> DEFINE G(t) == CHOOSE g : IsSum(g, f, t)
<1>3. \A t \in SUBSET s : t # s => IsSum(G(t), f, t)
  BY <1>2
<1> HIDE DEF T
<1> DEFINE h == [t \in SUBSET s |-> IF t = {} THEN 0
                                    ELSE f[Pick(t)] + G(t \ {Pick(t)})[t \ {Pick(t)}]]
<1> HIDE DEF G
<1>4. ASSUME NEW u \in SUBSET s, u # s PROVE h[u] = G(u)[u]
  <2>1. G(u)[u] = IF u = {} THEN 0 ELSE f[Pick(u)] + G(u)[u \ {Pick(u)}]
    BY <1>3, <1>4 DEF IsSum
  <2>2. CASE u = {}
    BY <2>1, <2>2
  <2>3. CASE u # {}
    <3> DEFINE v == u \ {Pick(u)}
    <3>1. v \in SUBSET s /\ v # s /\ v \subseteq u /\ u \subseteq S
      BY <1>4, <1>2 DEF T
    <3>2. IsSum(G(u), f, u) /\ IsSum(G(v), f, v) /\ IsFiniteSet(v)
      BY <1>3, <1>4, <3>1, FS_Subset
    <3> HIDE DEF v
    <3>3. G(u)[v] = G(v)[v]
      BY <3>1, <3>2, OneSum
    <3>4. h[u] = f[Pick(u)] + G(v)[v]
      BY <2>3 DEF v
    <3> QED  BY <2>1, <2>3, <3>3, <3>4 DEF v
  <2> QED  BY <2>2, <2>3
<1>5. IsSum(h, f, s)
  <2>1. \A t \in SUBSET s : t # {} => h[t \ {Pick(t)}] = G(t \ {Pick(t)})[t \ {Pick(t)}]
    <3> SUFFICES ASSUME NEW t \in SUBSET s, t # {}
                 PROVE  h[t \ {Pick(t)}] = G(t \ {Pick(t)})[t \ {Pick(t)}]
      OBVIOUS
    <3>1. t \ {Pick(t)} \in SUBSET s /\ t \ {Pick(t)} # s
      BY PickIn
    <3> HIDE DEF h
    <3> QED  BY <1>4, <3>1
  <2>2. h = [t \in SUBSET s |-> IF t = {} THEN 0 ELSE f[Pick(t)] + h[t \ {Pick(t)}]]
    BY <2>1
  <2> HIDE DEF h
  <2> QED  BY <2>2 DEF IsSum
<1> QED  BY <1>2, <1>5 DEF T

LEMMA SumStep ==
    ASSUME NEW S, IsFiniteSet(S), NEW f
    PROVE  SumFunctionOnSet(f, S) = IF S = {} THEN 0
                                    ELSE f[Pick(S)] + SumFunctionOnSet(f, S \ {Pick(S)})
<1> DEFINE g == CHOOSE x : IsSum(x, f, S)
           U == S \ {Pick(S)}
           h == CHOOSE x : IsSum(x, f, U)
<1>1. IsFiniteSet(U) /\ U \subseteq S
  BY FS_Subset
<1>2. IsSum(g, f, S) /\ IsSum(h, f, U)
  BY <1>1, SumExists
<1>3. SumFunctionOnSet(f, S) = g[S] /\ SumFunctionOnSet(f, U) = h[U]
  BY SumIs
<1> HIDE DEF g, h
<1>4. g[U] = h[U]
  BY <1>1, <1>2, OneSum
<1>5. g[S] = IF S = {} THEN 0 ELSE f[Pick(S)] + g[U]
  BY <1>2 DEF IsSum
<1> QED  BY <1>3, <1>4, <1>5

LEMMA SumInt ==
    ASSUME NEW S, IsFiniteSet(S), NEW f, \A x \in S : f[x] \in Int
    PROVE  SumFunctionOnSet(f, S) \in Int
<1> DEFINE T == {s \in SUBSET S : SumFunctionOnSet(f, s) \notin Int}
<1>1. SUFFICES ASSUME T # {} PROVE FALSE
  OBVIOUS
<1>2. PICK s \in T : \A t \in T : t \subseteq s => t = s
  <2>1. T \subseteq SUBSET S
    OBVIOUS
  <2> HIDE DEF T
  <2> QED  BY <1>1, <2>1, LeastSubset
<1> DEFINE p == Pick(s)
<1>3. SumFunctionOnSet(f, s) = IF s = {} THEN 0 ELSE f[p] + SumFunctionOnSet(f, s \ {p})
  <2>1. IsFiniteSet(s)
    BY FS_Subset
  <2> QED  BY <2>1, SumStep
<1>4. s # {} /\ p \in s
  <2>1. s # {}
    BY <1>3
  <2> QED  BY <2>1, PickIn
<1>5. SumFunctionOnSet(f, s \ {p}) \in Int
  <2>1. s \ {p} \notin T /\ s \ {p} \in SUBSET S
    BY <1>2, <1>4
  <2> QED  BY <2>1
<1>6. f[p] \in Int
  BY <1>4
<1> QED  BY <1>2, <1>3, <1>4, <1>5, <1>6

\* Any element may be taken out of the sum.
LEMMA SumRemove ==
    ASSUME NEW S, IsFiniteSet(S), NEW f, \A x \in S : f[x] \in Int, NEW e \in S
    PROVE  SumFunctionOnSet(f, S) = f[e] + SumFunctionOnSet(f, S \ {e})
<1> DEFINE Sum(s) == SumFunctionOnSet(f, s)
           T == {s \in SUBSET S : \E x \in s : Sum(s) # f[x] + Sum(s \ {x})}
<1>1. SUFFICES ASSUME T # {} PROVE FALSE
  OBVIOUS
<1>2. PICK s \in T : \A t \in T : t \subseteq s => t = s
  <2>1. T \subseteq SUBSET S
    OBVIOUS
  <2> HIDE DEF T
  <2> QED  BY <1>1, <2>1, LeastSubset
<1>3. PICK x \in s : Sum(s) # f[x] + Sum(s \ {x})
  OBVIOUS
<1>4. s \in SUBSET S
  OBVIOUS
<1>5. \A t \in SUBSET S : /\ IsFiniteSet(t) /\ Sum(t) \in Int
                          /\ t # {} => Sum(t) = f[Pick(t)] + Sum(t \ {Pick(t)})
  <2> SUFFICES ASSUME NEW t \in SUBSET S
               PROVE  /\ IsFiniteSet(t) /\ Sum(t) \in Int
                      /\ t # {} => Sum(t) = f[Pick(t)] + Sum(t \ {Pick(t)})
    OBVIOUS
  <2>1. IsFiniteSet(t)
    BY FS_Subset
  <2> QED  BY <2>1, SumInt, SumStep
<1>6. \A t \in SUBSET s : t # s => \A y \in t : Sum(t) = f[y] + Sum(t \ {y})
  BY <1>2
<1> HIDE DEF T, Sum
<1> DEFINE p == Pick(s)
<1>7. p \in s /\ Sum(s) = f[p] + Sum(s \ {p})
  BY <1>4, <1>5, PickIn
<1>8. p # x
  BY <1>3, <1>7
<1> HIDE DEF p
<1>9. Sum(s \ {p}) = f[x] + Sum((s \ {p}) \ {x})
  <2>1. s \ {p} \in SUBSET s /\ s \ {p} # s /\ x \in s \ {p}
    BY <1>7, <1>8
  <2> QED  BY <1>6, <2>1
<1>10. Sum(s \ {x}) = f[p] + Sum((s \ {x}) \ {p})
  <2>1. s \ {x} \in SUBSET s /\ s \ {x} # s /\ p \in s \ {x}
    BY <1>7, <1>8
  <2> QED  BY <1>6, <2>1
<1>11. (s \ {p}) \ {x} = (s \ {x}) \ {p}
  OBVIOUS
<1>12. /\ f[p] \in Int /\ f[x] \in Int
       /\ Sum(s \ {p}) \in Int /\ Sum(s \ {x}) \in Int /\ Sum((s \ {x}) \ {p}) \in Int
  <2>1. p \in S /\ x \in S /\ s \ {p} \in SUBSET S /\ s \ {x} \in SUBSET S /\ (s \ {x}) \ {p} \in SUBSET S
    BY <1>4, <1>7
  <2> QED  BY <1>5, <2>1
<1>13. Sum(s) = f[x] + Sum(s \ {x})
  <2>1. Sum(s \ {p}) = f[x] + Sum((s \ {x}) \ {p})
    BY <1>9, <1>11
  <2> DEFINE a == Sum(s \ {p})
             b == Sum(s \ {x})
             c == Sum((s \ {x}) \ {p})
  <2>2. a = f[x] + c /\ b = f[p] + c /\ Sum(s) = f[p] + a
    BY <1>7, <1>10, <2>1
  <2>3. a \in Int /\ b \in Int /\ c \in Int /\ f[p] \in Int /\ f[x] \in Int
    BY <1>12
  <2> HIDE DEF a, b, c
  <2>4. Sum(s) = f[x] + b
    BY <2>2, <2>3
  <2> QED  BY <2>4 DEF b
<1> QED  BY <1>3, <1>13

LEMMA SumEmpty == \A f : SumFunctionOnSet(f, {}) = 0
BY FS_EmptySet, SumStep

LEMMA SumAdd ==
    ASSUME NEW S, IsFiniteSet(S), NEW f, NEW e, e \notin S, \A x \in S \cup {e} : f[x] \in Int
    PROVE  SumFunctionOnSet(f, S \cup {e}) = SumFunctionOnSet(f, S) + f[e]
<1> DEFINE U == S \cup {e}
<1>1. IsFiniteSet(U) /\ e \in U /\ U \ {e} = S
  BY FS_AddElement
<1> HIDE DEF U
<1>2. \A x \in U : f[x] \in Int
  BY DEF U
<1>3. SumFunctionOnSet(f, U) = f[e] + SumFunctionOnSet(f, S)
  BY <1>1, <1>2, SumRemove
<1>4. SumFunctionOnSet(f, S) \in Int /\ f[e] \in Int
  BY <1>1, <1>2, SumInt DEF U
<1> QED  BY <1>3, <1>4 DEF U

LEMMA SumAgree ==
    ASSUME NEW S, IsFiniteSet(S), NEW f, NEW g, \A x \in S : f[x] = g[x]
    PROVE  SumFunctionOnSet(f, S) = SumFunctionOnSet(g, S)
<1> DEFINE T == {s \in SUBSET S : SumFunctionOnSet(f, s) # SumFunctionOnSet(g, s)}
<1>1. SUFFICES ASSUME T # {} PROVE FALSE
  OBVIOUS
<1>2. PICK s \in T : \A t \in T : t \subseteq s => t = s
  <2>1. T \subseteq SUBSET S
    OBVIOUS
  <2> HIDE DEF T
  <2> QED  BY <1>1, <2>1, LeastSubset
<1> DEFINE p == Pick(s)
<1>3. \A h : SumFunctionOnSet(h, s) = IF s = {} THEN 0 ELSE h[p] + SumFunctionOnSet(h, s \ {p})
  <2>1. IsFiniteSet(s)
    BY FS_Subset
  <2> QED  BY <2>1, SumStep
<1>4. s # {} /\ p \in s
  <2>1. s # {}
    BY <1>2, <1>3
  <2> QED  BY <2>1, PickIn
<1>5. SumFunctionOnSet(f, s \ {p}) = SumFunctionOnSet(g, s \ {p})
  <2>1. s \ {p} \notin T /\ s \ {p} \in SUBSET S
    BY <1>2, <1>4
  <2> QED  BY <2>1
<1>6. f[p] = g[p]
  BY <1>4
<1> QED  BY <1>2, <1>3, <1>4, <1>5, <1>6

LEMMA SumUnion ==
    ASSUME NEW A, IsFiniteSet(A), NEW B, IsFiniteSet(B), A \cap B = {},
           NEW f, \A x \in A \cup B : f[x] \in Int
    PROVE  SumFunctionOnSet(f, A \cup B) = SumFunctionOnSet(f, A) + SumFunctionOnSet(f, B)
<1> DEFINE Sum(s) == SumFunctionOnSet(f, s)
           T == {s \in SUBSET A : Sum(s \cup B) # Sum(s) + Sum(B)}
<1>1. SUFFICES ASSUME T # {} PROVE FALSE
  OBVIOUS
<1>2. PICK s \in T : \A t \in T : t \subseteq s => t = s
  <2>1. T \subseteq SUBSET A
    OBVIOUS
  <2> HIDE DEF T
  <2> QED  BY <1>1, <2>1, LeastSubset
<1>3. \A t \in SUBSET A : /\ IsFiniteSet(t) /\ IsFiniteSet(t \cup B)
                          /\ Sum(t) \in Int /\ Sum(t \cup B) \in Int
  <2> SUFFICES ASSUME NEW t \in SUBSET A
               PROVE  /\ IsFiniteSet(t) /\ IsFiniteSet(t \cup B)
                      /\ Sum(t) \in Int /\ Sum(t \cup B) \in Int
    OBVIOUS
  <2>1. IsFiniteSet(t) /\ IsFiniteSet(t \cup B)
    BY FS_Subset, FS_Union
  <2> QED  BY <2>1, SumInt
<1>4. Sum(B) \in Int
  BY SumInt
<1>5. s # {}
  <2>1. Sum({}) = 0 /\ {} \cup B = B
    BY SumEmpty
  <2> HIDE DEF Sum
  <2>2. Sum({} \cup B) = Sum({}) + Sum(B)
    BY <1>4, <2>1
  <2>3. {} \notin T
    BY <2>2
  <2> QED  BY <1>2, <2>3
<1> DEFINE p == Pick(s)
           u == s \ {p}
<1>6. p \in s /\ u \in SUBSET A /\ u \notin T /\ s = u \cup {p} /\ p \notin u
  BY <1>2, <1>5, PickIn
<1>7. Sum(u \cup B) = Sum(u) + Sum(B)
  BY <1>6
<1> HIDE DEF u, p
<1>8. Sum(s) = Sum(u) + f[p]
  <2>1. IsFiniteSet(u) /\ \A x \in u \cup {p} : f[x] \in Int
    BY <1>3, <1>6
  <2>2. Sum(u \cup {p}) = Sum(u) + f[p]
    BY <1>6, <2>1, SumAdd
  <2> QED  BY <1>6, <2>2
<1>9. Sum(s \cup B) = Sum(u \cup B) + f[p]
  <2>1. s \cup B = (u \cup B) \cup {p} /\ p \notin u \cup B
    BY <1>6
  <2>2. IsFiniteSet(u \cup B) /\ \A x \in (u \cup B) \cup {p} : f[x] \in Int
    BY <1>3, <1>6
  <2>3. Sum((u \cup B) \cup {p}) = Sum(u \cup B) + f[p]
    BY <2>1, <2>2, SumAdd
  <2> QED  BY <2>1, <2>3
<1>10. f[p] \in Int /\ Sum(u) \in Int /\ Sum(s \cup B) # Sum(s) + Sum(B)
  BY <1>2, <1>3, <1>6
<1> HIDE DEF Sum
<1> QED  BY <1>4, <1>7, <1>8, <1>9, <1>10

\* The sum over the parts of a set is the sum over the set.
LEMMA SumOfParts ==
    ASSUME NEW W, IsFiniteSet(W), NEW part, NEW f,
           \A w \in W : IsFiniteSet(part[w]) /\ \A x \in part[w] : f[x] \in Int,
           \A w, v \in W : w # v => part[w] \cap part[v] = {},
           NEW q, \A w \in W : q[w] = SumFunctionOnSet(f, part[w])
    PROVE  SumFunctionOnSet(q, W) = SumFunctionOnSet(f, UNION {part[w] : w \in W})
<1> DEFINE Of(s) == UNION {part[w] : w \in s}
           T == {s \in SUBSET W : ~ /\ IsFiniteSet(Of(s))
                                    /\ SumFunctionOnSet(q, s) = SumFunctionOnSet(f, Of(s))}
<1>1. SUFFICES ASSUME T # {} PROVE FALSE
  OBVIOUS
<1>2. PICK s \in T : \A t \in T : t \subseteq s => t = s
  <2>1. T \subseteq SUBSET W
    OBVIOUS
  <2> HIDE DEF T
  <2> QED  BY <1>1, <2>1, LeastSubset
<1>3. s # {}
  <2>1. Of({}) = {}
    OBVIOUS
  <2> HIDE DEF Of
  <2>2. {} \notin T
    BY <2>1, SumEmpty, FS_EmptySet
  <2> QED  BY <2>2
<1> DEFINE p == Pick(s)
           u == s \ {p}
<1>4. p \in s /\ p \in W /\ u \in SUBSET W /\ u \notin T /\ s = u \cup {p} /\ p \notin u
  <2>1. s \in SUBSET W
    OBVIOUS
  <2> HIDE DEF T
  <2> QED  BY <1>2, <1>3, <2>1, PickIn
<1>5. IsFiniteSet(Of(u)) /\ SumFunctionOnSet(q, u) = SumFunctionOnSet(f, Of(u))
  BY <1>4
<1> HIDE DEF u, p
<1>6. Of(s) = Of(u) \cup part[p] /\ Of(u) \cap part[p] = {} /\ \A x \in Of(s) : f[x] \in Int
  <2>1. Of(s) = Of(u) \cup part[p]
    BY <1>4
  <2>2. \A w \in u : part[w] \cap part[p] = {}
    BY <1>4
  <2> QED  BY <1>4, <2>1, <2>2
<1> HIDE DEF Of
<1>7. IsFiniteSet(part[p]) /\ IsFiniteSet(Of(s))
  <2>1. IsFiniteSet(part[p])
    BY <1>4
  <2>2. IsFiniteSet(Of(u) \cup part[p])
    BY <1>5, <2>1, FS_Union
  <2> QED  BY <1>6, <2>1, <2>2
<1>8. SumFunctionOnSet(f, Of(s)) = SumFunctionOnSet(f, Of(u)) + SumFunctionOnSet(f, part[p])
  BY <1>5, <1>6, <1>7, SumUnion
<1>9. SumFunctionOnSet(q, s) = SumFunctionOnSet(q, u) + q[p]
  <2>1. IsFiniteSet(u)
    BY <1>4, FS_Subset
  <2>2. \A w \in u \cup {p} : q[w] \in Int
    BY <1>4, SumInt
  <2>3. p \notin u /\ s = u \cup {p}
    BY <1>4
  <2> HIDE DEF T
  <2>4. SumFunctionOnSet(q, u \cup {p}) = SumFunctionOnSet(q, u) + q[p]
    BY <2>1, <2>2, <2>3, SumAdd
  <2> QED  BY <2>3, <2>4
<1>10. q[p] = SumFunctionOnSet(f, part[p])
  BY <1>4
<1> QED  BY <1>2, <1>5, <1>7, <1>8, <1>9, <1>10

\* A sum of multiples is a multiple.
LEMMA SumOfMultiples ==
    ASSUME NEW S, IsFiniteSet(S), NEW m \in Count, NEW f, \A x \in S : \E c \in Int : f[x] = m * c
    PROVE  \E c \in Int : SumFunctionOnSet(f, S) = m * c
<1> DEFINE T == {s \in SUBSET S : ~ \E c \in Int : SumFunctionOnSet(f, s) = m * c}
<1>1. SUFFICES ASSUME T # {} PROVE FALSE
  OBVIOUS
<1>2. PICK s \in T : \A t \in T : t \subseteq s => t = s
  <2>1. T \subseteq SUBSET S
    OBVIOUS
  <2> HIDE DEF T
  <2> QED  BY <1>1, <2>1, LeastSubset
<1>3. s # {}
  <2>1. 0 = m * 0
    BY DEF Count
  <2> QED  BY <2>1, SumEmpty
<1> DEFINE p == Pick(s)
           u == s \ {p}
<1>4. p \in s /\ p \in S /\ u \in SUBSET S /\ u \notin T
  BY <1>2, <1>3, PickIn
<1>5. PICK a \in Int : SumFunctionOnSet(f, u) = m * a
  BY <1>4
<1>6. PICK b \in Int : f[p] = m * b
  BY <1>4
<1>7. SumFunctionOnSet(f, s) = f[p] + SumFunctionOnSet(f, u)
  <2>1. IsFiniteSet(s)
    BY FS_Subset
  <2> QED  BY <1>3, <2>1, SumStep
<1> HIDE DEF u, p
<1>8. SumFunctionOnSet(f, s) = m * (a + b) /\ a + b \in Int
  BY <1>5, <1>6, <1>7 DEF Count
<1> QED  BY <1>2, <1>8
----------------------------------------------------------------------------
(***************************************************************************)
(* Of the rows that bring a lot to a warehouse of ecomp, the lot that is   *)
(* held has the sum of the quantities and the lowest price.                *)
(***************************************************************************)
Places == {"CENTER", "TRANSIT", "PRODUCED"}

LotRows(name, c, s) == {i \in DOMAIN s : Brings(name, c, s[i])}
LotQuantities(name, s) == [i \in DOMAIN s |-> LotQuantity(name, s[i])]

LotSums(lot, name, s, rows) ==
    IF lot = None THEN rows = {}
    ELSE /\ lot.quantity = SumFunctionOnSet(LotQuantities(name, s), rows)
         /\ \E i \in rows : lot.price = LotPrice(s[i])
         /\ \A i \in rows : lot.price <= LotPrice(s[i])

LotHolds(lot, name, c, s) == LotSums(lot, name, s, LotRows(name, c, s))

LotOf(item, name) ==
    IF item = None THEN None
    ELSE CASE name = "CENTER" -> item.stock
           [] name = "TRANSIT" -> item.transit
           [] OTHER -> item.order

LEMMA LotFacts ==
    ASSUME NEW row \in Rows.ecomp
    PROVE  /\ row.code \in Codes /\ row.gold \in BOOLEAN
           /\ LotPrice(row) \in Int /\ \A name \in Places : LotQuantity(name, row) \in Int
           /\ row.gold => {ToNumber(row.stock), ToNumber(row.inWay), ToNumber(row.weeks),
                           Or(ToNumber(row.pack), 1)} \subseteq Int
           /\ ~row.gold => {ToNumber(row.quantity), ToNumber(row.price), ToNumber(row.weeks)} \subseteq Int
<1>1. \A x \in Cell : ToNumber(x) \in Int
  BY DEF ToNumber, Or, Truthy, Cell
<1>2. \A x, y \in Int : Or(x, y) \in Int
  BY DEF Or
<1>3. /\ row.code \in Codes /\ row.gold \in BOOLEAN
      /\ row.gold => {row.pack, row.stock, row.inWay, row.regularPrice, row.salePrice, row.weeks} \subseteq Cell
      /\ ~row.gold => {row.quantity, row.price, row.weeks} \subseteq Cell
  BY MergedAssumption
<1>4. CASE row.gold
  <2>1. /\ ToNumber(row.stock) \in Int /\ ToNumber(row.inWay) \in Int /\ ToNumber(row.weeks) \in Int
        /\ ToNumber(row.pack) \in Int /\ ToNumber(row.salePrice) \in Int /\ ToNumber(row.regularPrice) \in Int
    BY <1>1, <1>3, <1>4
  <2>2. Or(ToNumber(row.pack), 1) \in Int /\ GoldPrice(row) \in Int
    BY <1>2, <2>1 DEF GoldPrice
  <2>3. LotPrice(row) = GoldPrice(row)
    BY <1>4 DEF LotPrice
  <2>4. \A name \in Places : LotQuantity(name, row) \in {ToNumber(row.stock), ToNumber(row.inWay), 0}
    BY <1>4 DEF LotQuantity, Places
  <2> QED  BY <1>3, <1>4, <2>1, <2>2, <2>3, <2>4
<1>5. CASE ~row.gold
  <2>1. /\ ToNumber(row.quantity) \in Int /\ ToNumber(row.price) \in Int /\ ToNumber(row.weeks) \in Int
    BY <1>1, <1>3, <1>5
  <2>2. LotPrice(row) = ToNumber(row.price)
    BY <1>5 DEF LotPrice
  <2>3. \A name \in Places : LotQuantity(name, row) \in {ToNumber(row.quantity), 0}
    BY <1>5 DEF LotQuantity, Places
  <2> QED  BY <1>3, <1>5, <2>1, <2>2, <2>3
<1> QED  BY <1>3, <1>4, <1>5

LEMMA LotGrows ==
    ASSUME NEW s \in Seq(Rows.ecomp), NEW row \in Rows.ecomp, NEW name \in Places, NEW c,
           NEW lot \in Lots \cup {None}, LotHolds(lot, name, c, s), NEW weeks \in Int,
           NEW after, after = IF Brings(name, c, row)
                              THEN MergeLot(lot, Lot(LotQuantity(name, row), LotPrice(row), weeks))
                              ELSE lot
    PROVE  after \in Lots \cup {None} /\ LotHolds(after, name, c, Append(s, row))
<1> DEFINE t == Append(s, row)
           n == Len(s) + 1
           rows == LotRows(name, c, s)
           sum(x) == SumFunctionOnSet(LotQuantities(name, t), x)
<1>1. /\ t \in Seq(Rows.ecomp) /\ DOMAIN t = DOMAIN s \cup {n} /\ n \notin DOMAIN s
      /\ t[n] = row /\ \A i \in DOMAIN s : t[i] = s[i] /\ s[i] \in Rows.ecomp
  BY AppendFacts
<1>2. /\ LotQuantity(name, row) \in Int /\ LotPrice(row) \in Int
      /\ \A i \in DOMAIN s : LotQuantity(name, s[i]) \in Int /\ LotPrice(s[i]) \in Int
  BY <1>1, LotFacts
<1>3. rows \subseteq DOMAIN s /\ IsFiniteSet(rows)
  <2>1. DOMAIN s = 1..Len(s) /\ Len(s) \in Nat
    BY LenProperties
  <2>2. IsFiniteSet(DOMAIN s)
    BY <2>1, FS_Interval
  <2> QED  BY <2>2, FS_Subset DEF LotRows
<1>4. LotRows(name, c, t) = IF Brings(name, c, row) THEN rows \cup {n} ELSE rows
  BY <1>1 DEF LotRows
<1>5. sum(rows) = SumFunctionOnSet(LotQuantities(name, s), rows)
  <2>1. \A i \in rows : LotQuantities(name, t)[i] = LotQuantities(name, s)[i]
    BY <1>1, <1>3 DEF LotQuantities
  <2> HIDE DEF rows, t
  <2> QED  BY <1>3, <2>1, SumAgree
<1>6. /\ LotQuantities(name, t)[n] = LotQuantity(name, row)
      /\ \A i \in rows \cup {n} : LotQuantities(name, t)[i] \in Int
  BY <1>1, <1>2, <1>3 DEF LotQuantities
<1>7. sum(rows \cup {n}) = sum(rows) + LotQuantity(name, row) /\ sum(rows) \in Int
  <2> HIDE DEF rows, t, n
  <2>1. n \notin rows
    BY <1>1, <1>3
  <2> QED  BY <1>3, <1>6, <2>1, SumAdd, SumInt
<1>8. \A i \in rows : t[i] = s[i]
  BY <1>1, <1>3
<1> DEFINE more == rows \cup {n}
<1>9. LotSums(lot, name, s, rows)
  BY DEF LotHolds
<1>10. more = {n} \cup rows /\ n \in more /\ rows \subseteq more
  OBVIOUS
<1>11. /\ sum(more) = sum(rows) + LotQuantity(name, row) /\ sum(rows) \in Int
       /\ LotRows(name, c, t) = IF Brings(name, c, row) THEN more ELSE rows
  BY <1>4, <1>7
<1> HIDE DEF t, rows, n, more
<1>12. CASE ~Brings(name, c, row)
  <2>1. after = lot /\ LotRows(name, c, t) = rows
    BY <1>11, <1>12
  <2>2. LotSums(lot, name, t, rows)
    BY <1>5, <1>8, <1>9 DEF LotSums
  <2> QED  BY <2>1, <2>2 DEF LotHolds, t
<1>13. CASE Brings(name, c, row)
  <2> DEFINE new == Lot(LotQuantity(name, row), LotPrice(row), weeks)
  <2>1. after = MergeLot(lot, new) /\ LotRows(name, c, t) = more
    BY <1>11, <1>13
  <2>2. /\ new \in Lots /\ new.quantity = LotQuantity(name, row) /\ new.price = LotPrice(row)
        /\ None \notin Lots
    BY <1>2, MergedAssumption DEF Lot, Lots
  <2> HIDE DEF new
  <2>3. CASE lot = None
    <3>1. after = new /\ rows = {}
      BY <1>9, <2>1, <2>3 DEF MergeLot, LotSums
    <3>2. sum(more) = LotQuantity(name, row)
      <4>1. sum(rows) = 0
        BY <3>1, SumEmpty
      <4> QED  BY <1>2, <1>11, <4>1
    <3>3. \A i \in more : i = n
      BY <1>10, <3>1
    <3>4. LotSums(after, name, t, more)
      BY <1>1, <1>2, <1>10, <2>2, <3>1, <3>2, <3>3 DEF LotSums
    <3> QED  BY <2>1, <2>2, <3>1, <3>4 DEF LotHolds, t
  <2>4. CASE lot # None
    <3>1. /\ after = [quantity |-> lot.quantity + new.quantity,
                      price |-> Smaller(lot.price, new.price),
                      weeks |-> Smaller(lot.weeks, new.weeks)]
          /\ lot \in Lots
      BY <2>1, <2>4 DEF MergeLot
    <3>2. after \in Lots /\ after # None
      BY <2>2, <3>1 DEF Lots, Smaller
    <3>3. after.quantity = sum(more)
      <4>1. lot.quantity = sum(rows)
        BY <1>5, <1>9, <2>4 DEF LotSums
      <4> QED  BY <1>11, <2>2, <3>1, <4>1
    <3>4. PICK i \in rows : lot.price = LotPrice(s[i])
      BY <1>9, <2>4 DEF LotSums
    <3>5. \A j \in rows : lot.price <= LotPrice(s[j])
      BY <1>9, <2>4 DEF LotSums
    <3>6. after.price = Smaller(lot.price, LotPrice(row)) /\ lot.price \in Int
      BY <2>2, <3>1 DEF Lots
    <3>7. \E j \in more : after.price = LotPrice(t[j])
      BY <1>1, <1>8, <1>10, <3>4, <3>6 DEF Smaller
    <3>8. \A j \in more : after.price <= LotPrice(t[j])
      BY <1>1, <1>2, <1>3, <1>8, <1>10, <3>5, <3>6 DEF Smaller
    <3>9. LotSums(after, name, t, more)
      BY <3>2, <3>3, <3>7, <3>8 DEF LotSums
    <3> QED  BY <2>1, <3>2, <3>9 DEF LotHolds, t
  <2> QED  BY <2>3, <2>4
<1> QED  BY <1>12, <1>13

LEMMA MergeLotType ==
    ASSUME NEW existing \in Lots \cup {None}, NEW lot \in Lots
    PROVE  MergeLot(existing, lot) \in Lots
<1>1. CASE existing = None
  BY <1>1 DEF MergeLot
<1>2. CASE existing # None
  <2>1. existing \in Lots
    BY <1>2
  <2> QED  BY <1>2, <2>1 DEF MergeLot, Lots, Smaller
<1> QED  BY <1>1, <1>2

\* The item a row of a code is added to.
LEMMA ItemFacts ==
    ASSUME NEW h \in [Codes -> Items \cup {None}], NEW row, row.code \in Codes, NEW multiple \in Int,
           NEW item, item = GetItem(h, row, multiple)
    PROVE  /\ item \in Items
           /\ item.stock = LotOf(h[row.code], "CENTER")
           /\ item.transit = LotOf(h[row.code], "TRANSIT")
           /\ item.order = LotOf(h[row.code], "PRODUCED")
           /\ {item.stock, item.transit, item.order} \subseteq Lots \cup {None}
<1>1. CASE h[row.code] = None
  BY <1>1 DEF GetItem, LotOf, Items
<1>2. CASE h[row.code] # None
  <2>1. item = h[row.code] /\ item \in Items
    BY <1>2 DEF GetItem
  <2> QED  BY <1>2, <2>1 DEF LotOf, Items
<1> QED  BY <1>1, <1>2

\* A row adds its lot to each warehouse it brings any to, and leaves the others.
Added(now, h, row) ==
    /\ now \in [Codes -> Items \cup {None}]
    /\ \A c \in Codes : \A name \in Places : \E weeks \in Int :
          LotOf(now[c], name) =
              IF Brings(name, c, row)
              THEN MergeLot(LotOf(h[c], name), Lot(LotQuantity(name, row), LotPrice(row), weeks))
              ELSE LotOf(h[c], name)

LEMMA GoldRowAdds ==
    ASSUME NEW h \in [Codes -> Items \cup {None}], NEW row \in Rows.ecomp, row.gold
    PROVE  Added(GoldHeld(h, row), h, row)
<1> DEFINE multiple == Or(ToNumber(row.pack), 1)
           item == GetItem(h, row, multiple)
           price == GoldPrice(row)
           kept == ~Truthy(row.product) \/ price <= 0
           stock == IF ToNumber(row.stock) > 0
                    THEN MergeLot(item.stock, Lot(row.stock, price, 0)) ELSE item.stock
           transit == IF ToNumber(row.inWay) > 0
                      THEN MergeLot(item.transit, Lot(row.inWay, price, ToNumber(row.weeks)))
                      ELSE item.transit
           new == [item EXCEPT !.stock = stock, !.transit = transit]
           now == GoldHeld(h, row)
<1>1. /\ row.code \in Codes /\ price \in Int /\ multiple \in Int
      /\ ToNumber(row.stock) \in Int /\ ToNumber(row.inWay) \in Int /\ ToNumber(row.weeks) \in Int
      /\ LotPrice(row) = price
  <2>1. LotPrice(row) = price
    BY DEF LotPrice
  <2> QED  BY <2>1, LotFacts
<1>2. now = IF kept THEN h ELSE [h EXCEPT ![row.code] = new]
  BY DEF GoldHeld
<1>3. /\ item \in Items
      /\ item.stock = LotOf(h[row.code], "CENTER") /\ item.stock \in Lots \cup {None}
      /\ item.transit = LotOf(h[row.code], "TRANSIT") /\ item.transit \in Lots \cup {None}
      /\ item.order = LotOf(h[row.code], "PRODUCED") /\ item.order \in Lots \cup {None}
  <2> HIDE DEF item, multiple
  <2> USE DEF item
  <2> QED  BY <1>1, ItemFacts
<1>4. /\ LotQuantity("CENTER", row) = ToNumber(row.stock)
      /\ LotQuantity("TRANSIT", row) = ToNumber(row.inWay)
      /\ LotQuantity("PRODUCED", row) = 0
  BY DEF LotQuantity
<1>5. /\ ToNumber(row.stock) > 0 => row.stock = ToNumber(row.stock)
      /\ ToNumber(row.inWay) > 0 => row.inWay = ToNumber(row.inWay)
  BY DEF ToNumber, Or
<1> HIDE DEF item, price, multiple
<1>6. stock \in Lots \cup {None} /\ transit \in Lots \cup {None}
  <2>1. \A quantity, weeks \in Int : Lot(quantity, price, weeks) \in Lots
    BY <1>1 DEF Lot, Lots
  <2> QED  BY <1>1, <1>3, <1>5, <2>1, MergeLotType
<1> HIDE DEF stock, transit
<1>7. new \in Items /\ new.stock = stock /\ new.transit = transit /\ new.order = item.order
  BY <1>3, <1>6 DEF Items
<1>8. None \notin Items
  BY MergedAssumption
<1> HIDE DEF new
<1>9. \A name \in Places : LotOf(new, name) = CASE name = "CENTER" -> stock
                                                [] name = "TRANSIT" -> transit
                                                [] OTHER -> item.order
  BY <1>7, <1>8 DEF LotOf
<1> HIDE DEF now
<1>10. now \in [Codes -> Items \cup {None}]
  BY <1>2, <1>7
<1>11. ASSUME NEW c \in Codes, NEW name \in Places
       PROVE  \E weeks \in Int :
                LotOf(now[c], name) =
                  IF Brings(name, c, row)
                  THEN MergeLot(LotOf(h[c], name), Lot(LotQuantity(name, row), LotPrice(row), weeks))
                  ELSE LotOf(h[c], name)
  <2>1. Brings(name, c, row) <=> row.code = c /\ ~kept /\ LotQuantity(name, row) > 0
    BY <1>1 DEF Brings
  <2>2. CASE kept \/ row.code # c
    <3>1. now[c] = h[c]
      BY <1>1, <1>2, <2>2
    <3> QED  BY <2>1, <2>2, <3>1
  <2>3. CASE ~kept /\ row.code = c
    <3>1. now[c] = new
      BY <1>1, <1>2, <2>3
    <3>2. CASE name = "CENTER"
      <4>1. LotOf(now[c], name) = IF ToNumber(row.stock) > 0
                                  THEN MergeLot(LotOf(h[c], name), Lot(LotQuantity(name, row), LotPrice(row), 0))
                                  ELSE LotOf(h[c], name)
        BY <1>1, <1>3, <1>4, <1>5, <1>9, <2>3, <3>1, <3>2 DEF stock
      <4>2. Brings(name, c, row) <=> ToNumber(row.stock) > 0
        BY <1>4, <2>1, <2>3, <3>2
      <4>3. 0 \in Int
        OBVIOUS
      <4> QED  BY <4>1, <4>2, <4>3
    <3>3. CASE name = "TRANSIT"
      <4>1. LotOf(now[c], name) = IF ToNumber(row.inWay) > 0
                                  THEN MergeLot(LotOf(h[c], name),
                                                Lot(LotQuantity(name, row), LotPrice(row), ToNumber(row.weeks)))
                                  ELSE LotOf(h[c], name)
        BY <1>1, <1>3, <1>4, <1>5, <1>9, <2>3, <3>1, <3>3 DEF transit
      <4>2. Brings(name, c, row) <=> ToNumber(row.inWay) > 0
        BY <1>4, <2>1, <2>3, <3>3
      <4> QED  BY <1>1, <4>1, <4>2
    <3>4. CASE name = "PRODUCED"
      <4>1. LotOf(now[c], name) = LotOf(h[c], name)
        BY <1>3, <1>9, <2>3, <3>1, <3>4
      <4>2. ~Brings(name, c, row) /\ 0 \in Int
        BY <1>4, <2>1, <3>4
      <4> QED  BY <4>1, <4>2
    <3> QED  BY <3>2, <3>3, <3>4 DEF Places
  <2> QED  BY <2>2, <2>3
<1> QED  BY <1>10, <1>11 DEF Added, now

LEMMA OrderRowAdds ==
    ASSUME NEW h \in [Codes -> Items \cup {None}], NEW row \in Rows.ecomp, ~row.gold
    PROVE  Added(OrderHeld(h, row), h, row)
<1> DEFINE item == GetItem(h, row, 1)
           kept == ~Truthy(row.product) \/ ToNumber(row.price) <= 0 \/ ToNumber(row.quantity) <= 0
           order == MergeLot(item.order, Lot(row.quantity, row.price, ToNumber(row.weeks)))
           new == [item EXCEPT !.order = order]
           now == OrderHeld(h, row)
<1>1. /\ row.code \in Codes
      /\ ToNumber(row.quantity) \in Int /\ ToNumber(row.price) \in Int /\ ToNumber(row.weeks) \in Int
      /\ LotPrice(row) = ToNumber(row.price)
  <2>1. LotPrice(row) = ToNumber(row.price)
    BY DEF LotPrice
  <2> QED  BY <2>1, LotFacts
<1>2. now = IF kept THEN h ELSE [h EXCEPT ![row.code] = new]
  BY DEF OrderHeld
<1>3. /\ item \in Items
      /\ item.stock = LotOf(h[row.code], "CENTER")
      /\ item.transit = LotOf(h[row.code], "TRANSIT")
      /\ item.order = LotOf(h[row.code], "PRODUCED") /\ item.order \in Lots \cup {None}
  <2>1. 1 \in Int
    OBVIOUS
  <2> QED  BY <1>1, <2>1, ItemFacts
<1>4. /\ LotQuantity("CENTER", row) = 0 /\ LotQuantity("TRANSIT", row) = 0
      /\ LotQuantity("PRODUCED", row) = ToNumber(row.quantity)
  BY DEF LotQuantity
<1>5. ~kept => row.quantity = ToNumber(row.quantity) /\ row.price = ToNumber(row.price)
  BY <1>1 DEF ToNumber, Or
<1> HIDE DEF item
<1>6. ~kept => order \in Lots
  <2>1. ~kept => Lot(row.quantity, row.price, ToNumber(row.weeks)) \in Lots
    BY <1>1, <1>5 DEF Lot, Lots
  <2> HIDE DEF kept
  <2> QED  BY <1>3, <2>1, MergeLotType
<1> HIDE DEF order
<1>7. /\ new.stock = item.stock /\ new.transit = item.transit /\ new.order = order
      /\ ~kept => new \in Items
  BY <1>3, <1>6 DEF Items
<1>8. None \notin Items
  BY MergedAssumption
<1> HIDE DEF new, now
<1>9. ~kept => \A name \in Places : LotOf(new, name) = CASE name = "CENTER" -> item.stock
                                                         [] name = "TRANSIT" -> item.transit
                                                         [] OTHER -> order
  <2> HIDE DEF kept
  <2> QED  BY <1>7, <1>8 DEF LotOf
<1>10. now \in [Codes -> Items \cup {None}]
  <2> HIDE DEF kept
  <2> QED  BY <1>2, <1>7
<1>11. ASSUME NEW c \in Codes, NEW name \in Places
       PROVE  \E weeks \in Int :
                LotOf(now[c], name) =
                  IF Brings(name, c, row)
                  THEN MergeLot(LotOf(h[c], name), Lot(LotQuantity(name, row), LotPrice(row), weeks))
                  ELSE LotOf(h[c], name)
  <2>1. /\ Brings(name, c, row) => row.code = c /\ name = "PRODUCED" /\ ~kept
        /\ row.code = c /\ name = "PRODUCED" /\ ~kept => Brings(name, c, row)
    BY <1>1, <1>4 DEF Brings, Places
  <2> HIDE DEF kept
  <2>2. CASE kept \/ row.code # c
    <3>1. now[c] = h[c]
      BY <1>1, <1>2, <2>2
    <3> QED  BY <1>1, <2>1, <2>2, <3>1
  <2>3. CASE ~kept /\ row.code = c
    <3>1. now[c] = new
      BY <1>1, <1>2, <2>3
    <3>2. CASE name = "PRODUCED"
      <4>1. LotOf(now[c], name) = MergeLot(LotOf(h[c], name),
                                           Lot(LotQuantity(name, row), LotPrice(row), ToNumber(row.weeks)))
        BY <1>1, <1>3, <1>4, <1>5, <1>9, <2>3, <3>1, <3>2 DEF order
      <4> QED  BY <1>1, <2>1, <2>3, <3>2, <4>1
    <3>3. CASE name # "PRODUCED"
      <4>1. LotOf(now[c], name) = LotOf(h[c], name)
        BY <1>3, <1>9, <2>3, <3>1, <3>3 DEF Places
      <4> QED  BY <1>1, <2>1, <3>3, <4>1
    <3> QED  BY <3>2, <3>3
  <2> QED  BY <2>2, <2>3
<1> QED  BY <1>10, <1>11 DEF Added, now

EcompInv ==
    list = "ecomp" =>
        /\ read \in Seq(Rows.ecomp)
        /\ held \in [Codes -> Items \cup {None}]
        /\ \A c \in Codes : \A name \in Places :
              /\ LotOf(held[c], name) \in Lots \cup {None}
              /\ LotHolds(LotOf(held[c], name), name, c, read)
        /\ goods = {Ecomp(c, held[c], VatRate(Year)) : c \in Known(held)}

LEMMA EcompRowIsSound ==
    ASSUME EcompInv, list = "ecomp", NEW row \in Rows.ecomp, EcompRow(row)
    PROVE  EcompInv'
<1>1. /\ read \in Seq(Rows.ecomp) /\ held \in [Codes -> Items \cup {None}]
      /\ read' = Append(read, row)
      /\ held' = IF row.gold THEN GoldHeld(held, row) ELSE OrderHeld(held, row)
      /\ goods' = {Ecomp(c, held'[c], VatRate(Year)) : c \in Known(held')}
  BY DEF EcompInv, EcompRow, Collect
<1>2. Added(held', held, row)
  BY <1>1, GoldRowAdds, OrderRowAdds
<1>3. read' \in Seq(Rows.ecomp) /\ held' \in [Codes -> Items \cup {None}]
  BY <1>1, <1>2, AppendFacts DEF Added
<1>4. ASSUME NEW c \in Codes, NEW name \in Places
      PROVE  /\ LotOf(held'[c], name) \in Lots \cup {None}
             /\ LotHolds(LotOf(held'[c], name), name, c, read')
  <2>1. LotOf(held[c], name) \in Lots \cup {None} /\ LotHolds(LotOf(held[c], name), name, c, read)
    BY DEF EcompInv
  <2>2. PICK weeks \in Int :
          LotOf(held'[c], name) =
              IF Brings(name, c, row)
              THEN MergeLot(LotOf(held[c], name), Lot(LotQuantity(name, row), LotPrice(row), weeks))
              ELSE LotOf(held[c], name)
    BY <1>2 DEF Added
  <2>3. /\ LotOf(held'[c], name) \in Lots \cup {None}
        /\ LotHolds(LotOf(held'[c], name), name, c, Append(read, row))
    BY <1>1, <2>1, <2>2, LotGrows
  <2> QED  BY <1>1, <2>3
<1>5. goods' = {Ecomp(c, held'[c], VatRate(Year)) : c \in Known(held)'}
  BY <1>1 DEF Known
<1> QED  BY <1>3, <1>4, <1>5 DEF EcompInv

\* The smallest of some numbers, when one of them is known to be.
LEMMA MinIsLeast ==
    ASSUME NEW S \in SUBSET Int, NEW x \in S, \A y \in S : x <= y
    PROVE  Min(S) = x
<1> DEFINE Least(z) == z \in S /\ \A y \in S : z =< y
<1>1. Least(x)
  OBVIOUS
<1>2. Min(S) = CHOOSE z : Least(z)
  BY DEF Min
<1>3. Least(Min(S))
  BY <1>1, <1>2
<1>4. Min(S) \in Int /\ Min(S) <= x /\ x <= Min(S)
  BY <1>3
<1> QED  BY <1>4

LEMMA LotsAddUp == EcompInv /\ list = "ecomp" => EcompAddsUp
<1> SUFFICES ASSUME EcompInv, list = "ecomp", NEW good \in goods, NEW w \in good.warehouses
             PROVE  LET rows == LotRows(w.name, good.code, read)
                    IN  /\ w.quantity = SumFunctionOnSet(LotQuantities(w.name, read), rows)
                        /\ w.prices = {Band(WithVat(Min({LotPrice(read[i]) : i \in rows}), VatRate(Year)), 1, 0)}
  BY DEF EcompAddsUp, LotRows, LotQuantities
<1>1. PICK c \in Known(held) : good = Ecomp(c, held[c], VatRate(Year))
  BY DEF EcompInv
<1>2. c \in Codes /\ held[c] # None
  BY DEF Known
<1>3. good.code = c
  BY <1>1 DEF Ecomp, Good
<1>4. PICK name \in Places :
        /\ LotOf(held[c], name) # None
        /\ \E multiple : w = LotWarehouse(name, LotOf(held[c], name), multiple, VatRate(Year))
  BY <1>1, <1>2 DEF Ecomp, Good, When, LotOf, Places
<1> DEFINE lot == LotOf(held[c], name)
           rows == LotRows(name, c, read)
           prices == {LotPrice(read[i]) : i \in rows}
<1>5. /\ w.name = name /\ w.quantity = lot.quantity
      /\ w.prices = {Band(WithVat(lot.price, VatRate(Year)), 1, 0)}
  BY <1>4 DEF LotWarehouse, Warehouse
<1>6. LotSums(lot, name, read, rows)
  BY <1>2 DEF EcompInv, LotHolds
<1>7. /\ lot.quantity = SumFunctionOnSet(LotQuantities(name, read), rows)
      /\ \E i \in rows : lot.price = LotPrice(read[i])
      /\ \A i \in rows : lot.price <= LotPrice(read[i])
  <2> HIDE DEF lot, rows
  <2> QED  BY <1>4, <1>6 DEF LotSums, lot
<1>8. \A i \in rows : LotPrice(read[i]) \in Int
  <2>1. \A i \in DOMAIN read : read[i] \in Rows.ecomp
    BY LenProperties, ElementOfSeq DEF EcompInv
  <2> QED  BY <2>1, LotFacts DEF LotRows
<1> HIDE DEF lot, rows
<1>9. Min(prices) = lot.price
  <2>1. prices \in SUBSET Int /\ lot.price \in prices /\ \A y \in prices : lot.price <= y
    BY <1>7, <1>8
  <2> HIDE DEF prices
  <2> QED  BY <2>1, MinIsLeast
<1> QED  BY <1>3, <1>5, <1>7, <1>9 DEF rows

(***************************************************************************)
(* ru.electronics: every size of pack is a warehouse of its own, and the   *)
(* packets of that size are the part of the stock it holds.                *)
(***************************************************************************)
ValidPackets(packets) ==
    {i \in DOMAIN packets : IsPositive(packets[i].norma) /\ IsPositive(packets[i].quant)}
Pieces(packets) == [i \in ValidPackets(packets) |-> packets[i].norma * packets[i].quant]
PacketsOf(packets, norma) == {i \in ValidPackets(packets) : packets[i].norma = norma}
Normas(packets) == {packets[i].norma : i \in ValidPackets(packets)}
CenterOf(warehouses) == {w \in warehouses : w.name[1] = "CENTER"}

LEMMA PacketFacts ==
    ASSUME NEW row \in Rows.ruelectronics, NEW packets, packets = row.packets
    PROVE  /\ IsFiniteSet(ValidPackets(packets))
           /\ \A i \in ValidPackets(packets) :
                 packets[i].norma \in Count /\ packets[i].quant \in Count
           /\ Normas(packets) \subseteq Count
<1>1. packets \in Seq([norma : Cell, quant : Cell])
  BY SheetsAssumption
<1>2. /\ DOMAIN packets = 1..Len(packets) /\ Len(packets) \in Nat
      /\ \A i \in DOMAIN packets : packets[i] \in [norma : Cell, quant : Cell]
  BY <1>1, LenProperties, ElementOfSeq
<1>3. \A x \in Cell : IsPositive(x) => x \in Count
  BY NaNAssumption DEF IsPositive, Cell, Count
<1>4. IsFiniteSet(DOMAIN packets)
  BY <1>2, FS_Interval
<1>5. IsFiniteSet(ValidPackets(packets))
  BY <1>4, FS_Subset DEF ValidPackets
<1>6. \A i \in ValidPackets(packets) : packets[i].norma \in Count /\ packets[i].quant \in Count
  BY <1>2, <1>3 DEF ValidPackets
<1> QED  BY <1>5, <1>6 DEF Normas

\* The warehouses in stock, one per size.
RuelStock(row, smallest, n) ==
    Warehouse(IF smallest[n] THEN <<"CENTER">> ELSE <<"CENTER", n>>,
              SumFunctionOnSet(Pieces(row.packets), PacketsOf(row.packets, n)), n, RuelPrices(row, n))

RuelStocks(row, smallest) == {RuelStock(row, smallest, n) : n \in Normas(row.packets)}
Smallest(smallest, normas) == \A n \in normas : smallest[n] <=> \A m \in normas : n <= m

LEMMA RuelCenter ==
    ASSUME NEW row \in Rows.ruelectronics, NEW good \in RuElectronics(row),
           NEW stock, stock = CenterOf(good.warehouses), stock # {},
           ValidPackets(row.packets) # {}
    PROVE  \E smallest : /\ Smallest(smallest, Normas(row.packets))
                         /\ stock = RuelStocks(row, smallest)
<1> DEFINE packets == row.packets
           normas == Normas(packets)
           pack(n) == [norma |-> n, quantity |-> SumFunctionOnSet(Pieces(packets), PacketsOf(packets, n))]
           packs == RuelPacks(packets)
           all == IF packs # {} THEN packs
                  ELSE When(Truthy(row.quant), [norma |-> 1, quantity |-> row.quant])
           arrives == Or(row.normaArrives, 1)
           least(p) == \A other \in all : p.norma <= other.norma
           named(p) == Warehouse(IF least(p) THEN <<"CENTER">> ELSE <<"CENTER", p.norma>>,
                                 p.quantity, p.norma, RuelPrices(row, p.norma))
           own == {named(p) : p \in all}
           arrived == When(Truthy(row.arrived),
                           Warehouse(<<"ARRIVED">>, row.arrived, arrives, RuelPrices(row, arrives)))
           transit == When(Truthy(row.arrives),
                           Warehouse(<<"TRANSIT">>, row.arrives, arrives, RuelPrices(row, arrives)))
           produced == When(Truthy(row.industry),
                            Warehouse(<<"PRODUCED">>, row.industry, 1, RuelPrices(row, 1)))
           smallest == [n \in normas |-> \A m \in normas : n <= m]
           given(n) == RuelStock(row, smallest, n)
<1>1. packs = {pack(n) : n \in normas}
  BY DEF RuelPacks, Normas, ValidPackets, Pieces, PacketsOf
<1>2. normas # {}
  BY DEF Normas
<1>3. all = packs
  <2>1. packs # {}
    <3> HIDE DEF packs, pack, normas
    <3> QED  BY <1>1, <1>2
  <2> QED  BY <2>1
<1>4. good = Good(row.code, {x \in own \cup arrived \cup transit \cup produced : x.prices # {}})
  BY DEF RuElectronics
<1>5. /\ \A x \in arrived : x.name = <<"ARRIVED">>
      /\ \A x \in transit : x.name = <<"TRANSIT">>
      /\ \A x \in produced : x.name = <<"PRODUCED">>
  BY DEF When, Warehouse
<1>6. \A n : pack(n).norma = n /\ pack(n).quantity = SumFunctionOnSet(Pieces(packets), PacketsOf(packets, n))
  OBVIOUS
<1> HIDE DEF packs, all, arrived, transit, produced, pack
<1>7. \A n \in normas : least(pack(n)) <=> smallest[n]
  <2>1. \A n \in normas : least(pack(n)) <=> \A m \in normas : n <= m
    BY <1>1, <1>3, <1>6
  <2> HIDE DEF least, normas
  <2> QED  BY <2>1
<1> HIDE DEF least
<1>8. \A n \in normas : named(pack(n)) = given(n)
  <2> SUFFICES ASSUME NEW n \in normas PROVE named(pack(n)) = given(n)
    OBVIOUS
  <2> HIDE DEF smallest
  <2>1. (IF least(pack(n)) THEN <<"CENTER">> ELSE <<"CENTER", pack(n).norma>>)
          = IF smallest[n] THEN <<"CENTER">> ELSE <<"CENTER", n>>
    BY <1>6, <1>7
  <2> QED  BY <1>6, <2>1 DEF RuelStock
<1> HIDE DEF named, given
<1>9. own = {given(n) : n \in normas}
  <2> HIDE DEF normas
  <2> QED  BY <1>1, <1>3, <1>8
<1>10. \A n \in normas : /\ given(n).name \in {<<"CENTER">>, <<"CENTER", n>>}
                         /\ given(n).prices = RuelPrices(row, n)
  BY DEF given, RuelStock, Warehouse
<1> HIDE DEF own
<1>11. stock = {x \in own : x.prices # {}}
  <2>1. \A x \in own : x.name[1] = "CENTER"
    <3> HIDE DEF normas
    <3> QED  BY <1>9, <1>10
  <2>2. \A x \in arrived \cup transit \cup produced : x.name[1] # "CENTER"
    BY <1>5
  <2>3. good.warehouses = {x \in own \cup arrived \cup transit \cup produced : x.prices # {}}
    BY <1>4 DEF Good
  <2> QED  BY <2>1, <2>2, <2>3 DEF CenterOf
<1>12. \A n, m : RuelPrices(row, n) # {} => RuelPrices(row, m) # {}
  <2> DEFINE priced == IsPositive(row.price) \/ IsPositive(row.optprice) \/ IsPositive(row.vipprice)
  <2>1. ASSUME NEW n PROVE RuelPrices(row, n) # {} <=> priced
    <3> DEFINE first == Ordinary(Band(row.price, n, n * 3 - 1))
               second == Ordinary(Band(row.optprice, n * 3, 0))
               third == Band(row.vipprice, n, 0)
    <3>1. first.value = row.price /\ second.value = row.optprice /\ third.value = row.vipprice
      BY BandFields
    <3>2. RuelPrices(row, n) = {b \in {first, second, third} : IsPositive(b.value)}
      BY DEF RuelPrices
    <3> HIDE DEF first, second, third
    <3> QED  BY <3>1, <3>2
  <2> QED  BY <2>1
<1>13. stock = own
  <2>1. PICK n \in normas : RuelPrices(row, n) # {}
    <3> HIDE DEF normas
    <3> QED  BY <1>9, <1>10, <1>11
  <2>2. \A x \in own : x.prices # {}
    <3> HIDE DEF normas
    <3> QED  BY <1>9, <1>10, <1>12, <2>1
  <2> QED  BY <1>11, <2>2
<1>14. Smallest(smallest, normas)
  BY DEF Smallest
<1>15. stock = RuelStocks(row, smallest)
  BY <1>9, <1>13 DEF given, RuelStocks
<1> HIDE DEF smallest
<1> QED  BY <1>14, <1>15

LEMMA PacksAddUp ==
    ASSUME NEW row \in Rows.ruelectronics, NEW good \in RuElectronics(row),
           NEW stock, stock = CenterOf(good.warehouses), stock # {},
           ValidPackets(row.packets) # {}
    PROVE  /\ SumFunctionOnSet([w \in stock |-> w.quantity], stock)
                 = SumFunctionOnSet(Pieces(row.packets), ValidPackets(row.packets))
           /\ \A w \in stock : w.quantity % w.multiple = 0
           /\ \A w, v \in stock : w.name = v.name => w = v
<1> DEFINE packets == row.packets
           valid == ValidPackets(packets)
           normas == Normas(packets)
           part == [w \in stock |-> PacketsOf(packets, w.multiple)]
           quantity == [w \in stock |-> w.quantity]
<1>1. PICK smallest : Smallest(smallest, Normas(row.packets)) /\ stock = RuelStocks(row, smallest)
  BY RuelCenter
<1> DEFINE given(n) == RuelStock(row, smallest, n)
<1>2. \A n \in normas : /\ given(n).name = IF smallest[n] THEN <<"CENTER">> ELSE <<"CENTER", n>>
                        /\ given(n).quantity = SumFunctionOnSet(Pieces(packets), PacketsOf(packets, n))
                        /\ given(n).multiple = n
  BY DEF RuelStock, Warehouse
<1>3. /\ IsFiniteSet(valid) /\ normas \subseteq Count
      /\ \A i \in valid : packets[i].norma \in Count /\ packets[i].quant \in Count
  BY PacketFacts
<1>4. stock = {given(n) : n \in normas}
  BY <1>1 DEF RuelStocks
<1> HIDE DEF given
<1>5. \A w \in stock : /\ w.multiple \in normas /\ w = given(w.multiple)
                       /\ w.quantity = SumFunctionOnSet(Pieces(packets), PacketsOf(packets, w.multiple))
  <2> SUFFICES ASSUME NEW w \in stock
               PROVE  /\ w.multiple \in normas /\ w = given(w.multiple)
                      /\ w.quantity = SumFunctionOnSet(Pieces(packets), PacketsOf(packets, w.multiple))
    OBVIOUS
  <2>1. PICK n \in normas : w = given(n)
    <3> HIDE DEF normas
    <3> QED  BY <1>4
  <2>2. w.multiple = n
    BY <1>2, <2>1
  <2> HIDE DEF normas, packets
  <2> QED  BY <1>2, <2>1, <2>2
<1>6. \A n : PacketsOf(packets, n) \subseteq valid /\ IsFiniteSet(PacketsOf(packets, n))
  <2>1. \A n : PacketsOf(packets, n) \subseteq valid
    BY DEF PacketsOf
  <2> HIDE DEF valid
  <2> QED  BY <1>3, <2>1, FS_Subset
<1>7. \A i \in valid : /\ Pieces(packets)[i] = packets[i].norma * packets[i].quant
                       /\ Pieces(packets)[i] \in Int
  <2>1. \A x, y \in Count : x * y \in Int
    BY DEF Count
  <2> QED  BY <1>3, <2>1 DEF Pieces
<1>8. IsFiniteSet(stock)
  <2> DEFINE mk == [i \in valid |-> given(packets[i].norma)]
  <2>1. stock = {mk[i] : i \in valid}
    <3>1. normas = {packets[i].norma : i \in valid}
      BY DEF Normas
    <3> HIDE DEF normas, valid
    <3> QED  BY <1>4, <3>1
  <2>2. mk \in Surjection(valid, stock)
    <3> HIDE DEF valid
    <3> QED  BY <2>1 DEF Surjection
  <2> HIDE DEF mk
  <2> QED  BY <1>3, <2>2, FS_Surjection
<1>9. SumFunctionOnSet(quantity, stock) = SumFunctionOnSet(Pieces(packets), UNION {part[w] : w \in stock})
  <2>1. \A w \in stock : IsFiniteSet(part[w]) /\ \A i \in part[w] : Pieces(packets)[i] \in Int
    BY <1>6, <1>7
  <2>2. \A w, v \in stock : w # v => part[w] \cap part[v] = {}
    <3> SUFFICES ASSUME NEW w \in stock, NEW v \in stock, NEW i, i \in part[w], i \in part[v]
                 PROVE  w = v
      OBVIOUS
    <3>1. packets[i].norma = w.multiple /\ packets[i].norma = v.multiple
      BY DEF PacketsOf
    <3>2. w = given(w.multiple) /\ v = given(v.multiple)
      BY <1>5
    <3> QED  BY <3>1, <3>2
  <2>3. \A w \in stock : quantity[w] = SumFunctionOnSet(Pieces(packets), part[w])
    BY <1>5
  <2> HIDE DEF part, quantity, packets
  <2> QED  BY <1>8, <2>1, <2>2, <2>3, SumOfParts
<1>10. UNION {part[w] : w \in stock} = valid
  <2>1. \A i \in valid : \E w \in stock : i \in part[w]
    <3> SUFFICES ASSUME NEW i \in valid PROVE \E w \in stock : i \in part[w]
      OBVIOUS
    <3> DEFINE n == packets[i].norma
    <3>1. n \in normas /\ i \in PacketsOf(packets, n)
      BY DEF Normas, PacketsOf
    <3> HIDE DEF n, normas
    <3>2. given(n) \in stock /\ given(n).multiple = n
      BY <1>2, <1>4, <3>1
    <3> QED  BY <3>1, <3>2
  <2>2. \A w \in stock : part[w] \subseteq valid
    BY <1>6
  <2> HIDE DEF part, valid
  <2> QED  BY <2>1, <2>2
<1>11. ASSUME NEW w \in stock PROVE w.quantity % w.multiple = 0
  <2> DEFINE n == w.multiple
             some == PacketsOf(packets, n)
  <2>1. n \in Count /\ IsFiniteSet(some)
    BY <1>3, <1>5, <1>6
  <2>2. \A i \in some : \E c \in Int : Pieces(packets)[i] = n * c
    <3> SUFFICES ASSUME NEW i \in some PROVE \E c \in Int : Pieces(packets)[i] = n * c
      OBVIOUS
    <3>1. i \in valid /\ packets[i].norma = n
      BY DEF PacketsOf
    <3>2. Pieces(packets)[i] = n * packets[i].quant /\ packets[i].quant \in Int
      BY <1>3, <1>7, <3>1 DEF Count
    <3> QED  BY <3>2
  <2> HIDE DEF n, some
  <2>3. PICK c \in Int : SumFunctionOnSet(Pieces(packets), some) = n * c
    BY <2>1, <2>2, SumOfMultiples
  <2>4. (n * c) % n = 0
    BY <2>1 DEF Count
  <2>5. w.quantity = n * c
    BY <1>5, <2>3 DEF n, some
  <2> QED  BY <2>4, <2>5 DEF n
<1>12. ASSUME NEW w \in stock, NEW v \in stock, w.name = v.name PROVE w = v
  <2> DEFINE a == w.multiple
             b == v.multiple
  <2>1. a \in normas /\ b \in normas /\ w = given(a) /\ v = given(b)
    BY <1>5
  <2>2. a \in Int /\ b \in Int
    BY <1>3, <2>1 DEF Count
  <2>3. /\ w.name = IF smallest[a] THEN <<"CENTER">> ELSE <<"CENTER", a>>
        /\ v.name = IF smallest[b] THEN <<"CENTER">> ELSE <<"CENTER", b>>
    BY <1>2, <2>1
  <2>4. smallest[a] /\ smallest[b] => a = b
    <3> HIDE DEF a, b, normas
    <3>1. smallest[a] => a <= b
      BY <1>1, <2>1 DEF Smallest, normas
    <3>2. smallest[b] => b <= a
      BY <1>1, <2>1 DEF Smallest, normas
    <3> QED  BY <2>2, <3>1, <3>2
  <2>5. \A x, y : <<"CENTER">> # <<"CENTER", x>> /\ (<<"CENTER", x>> = <<"CENTER", y>> => x = y)
    OBVIOUS
  <2>6. a = b
    <3> HIDE DEF a, b
    <3> QED  BY <1>12, <2>3, <2>4, <2>5
  <2> QED  BY <2>1, <2>6
<1> QED  BY <1>9, <1>10, <1>11, <1>12
RuelInv ==
    list = "ruelectronics" =>
        \/ goods = {}
        \/ \E row \in Rows.ruelectronics : goods = RuElectronics(row) /\ read = <<row>>

LEMMA PacksOfTheRow == RuelInv /\ list = "ruelectronics" => RuelAddsUp
<1> SUFFICES ASSUME RuelInv, list = "ruelectronics", NEW good \in goods, NEW i \in DOMAIN read
             PROVE  LET packets == read[i].packets
                        valid == ValidPackets(packets)
                        stock == CenterOf(good.warehouses)
                    IN  valid # {} /\ stock # {} =>
                            /\ SumFunctionOnSet([w \in stock |-> w.quantity], stock)
                                  = SumFunctionOnSet(Pieces(packets), valid)
                            /\ \A w \in stock : w.quantity % w.multiple = 0
                            /\ \A w, v \in stock : w.name = v.name => w = v
  BY DEF RuelAddsUp, ValidPackets, CenterOf, Pieces
<1>1. PICK row \in Rows.ruelectronics : goods = RuElectronics(row) /\ read = <<row>>
  BY DEF RuelInv
<1>2. good \in RuElectronics(row) /\ read[i] = row
  BY <1>1
<1> QED  BY <1>2, PacksAddUp

LEMMA StockInvariant == Spec => [](EcompInv /\ RuelInv)
<1>1. Init => EcompInv /\ RuelInv
  <2> SUFFICES ASSUME Init PROVE EcompInv /\ RuelInv
    OBVIOUS
  <2>1. held = [c \in Codes |-> None] /\ read = <<>> /\ goods = {} /\ Known(held) = {}
    BY DEF Init, Known
  <2>2. read \in Seq(Rows.ecomp) /\ held \in [Codes -> Items \cup {None}]
    BY <2>1, EmptySeq
  <2>3. \A c \in Codes, name \in Places : LotOf(held[c], name) = None /\ LotRows(name, c, read) = {}
    BY <2>1 DEF LotOf, LotRows
  <2>4. \A c \in Codes, name \in Places : LotHolds(None, name, c, read)
    BY <2>3 DEF LotHolds, LotSums
  <2> QED  BY <2>1, <2>2, <2>3, <2>4 DEF EcompInv, RuelInv
<1>2. EcompInv /\ RuelInv /\ [Next]_vars => EcompInv' /\ RuelInv'
  <2> SUFFICES ASSUME EcompInv, RuelInv, [Next]_vars PROVE EcompInv' /\ RuelInv'
    OBVIOUS
  <2>1. CASE UNCHANGED vars
    BY <2>1 DEF vars, EcompInv, RuelInv, Known, LotHolds, LotSums, LotRows, LotQuantities
  <2>2. CASE Next /\ list = "ecomp"
    <3>1. PICK row \in Rows.ecomp : EcompRow(row)
      BY <2>2 DEF Next, SheetRow, ApiItem, MergedRow
    <3> QED  BY <2>2, <3>1, EcompRowIsSound, ListStays DEF RuelInv
  <2>3. CASE Next /\ list = "ruelectronics"
    <3>1. PICK row \in Rows.ruelectronics : goods' = RuElectronics(row) /\ read' = <<row>>
      BY <2>3 DEF Next, SheetRow, ApiItem, MergedRow, MakePriced, Make
    <3> QED  BY <2>3, <3>1, ListStays DEF EcompInv, RuelInv
  <2>4. CASE list \notin {"ecomp", "ruelectronics"}
    BY <2>4, ListStays DEF EcompInv, RuelInv
  <2> QED  BY <2>1, <2>2, <2>3, <2>4
<1> QED  BY <1>1, <1>2, PTL DEF Spec

(***************************************************************************)
(* Whatever rows ecomp's two sheets bring and in whatever order, a         *)
(* warehouse holds the sum of its lots at the lowest of their prices; and  *)
(* ru.electronics' warehouses hold all the packs of the row, no packet     *)
(* twice, each a whole number of its own packs.                            *)
(***************************************************************************)
THEOREM StockAlwaysAddsUp == Spec => []StockAddsUp
<1>1. EcompInv /\ RuelInv => StockAddsUp
  BY LotsAddUp, PacksOfTheRow DEF StockAddsUp
<1> QED  BY <1>1, StockInvariant, PTL
=============================================================================
