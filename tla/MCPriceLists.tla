---------------------------- MODULE MCPriceLists ----------------------------
EXTENDS PriceLists

CONSTANTS c1, c2

MCCodes == {c1, c2}

\* Cells of a price list, some of them empty.
Cells == {NaN, 0, 2, 5}
Prices == {NaN, 0, 7, 9}

StepsOf(n, quants, prices) ==
    {s \in [1..n -> [quant : quants, price : prices]] :
        \A i, j \in 1..n : i < j => s[i].quant < s[j].quant}

\* n filled steps of a list of columns, the rest zero.
Filling(columns, n, quants) ==
    [i \in 1..columns |-> IF i <= n THEN quants[i] ELSE 0]

MCBreaks ==
    {[i \in DOMAIN s |-> [quant |-> s[i].quant, price |-> s[i].price,
                          pureprice |-> IF s[i].price = NaN THEN NaN ELSE s[i].price + 1]] :
        s \in StepsOf(1, {1, 3}, {NaN, 7}) \cup StepsOf(2, {1, 3, 6}, {0, 7, 9})}

VendorBreaks(second) ==
    <<[quant |-> 2, price |-> 8, pureprice |-> NaN], [quant |-> second, price |-> 7, pureprice |-> NaN]>>

FiveFrom(first, price) == [i \in 1..5 |-> [quant |-> first + 2 * i - 2, price |-> price - i]]

Single3(codes, quantities) == [code : codes, quantity : quantities, price : {NaN, -1, 0, 7}]

MCRows ==
  [positron |-> [code : {NaN, c1}, quantity : {NaN, 0, 4}, price1 : Prices, min2 : Cells,
                 price2 : Prices, min3 : Cells, price3 : Prices],
   unisvs |-> [code : {NaN, c1}, quantity : {0, 4}, price : Prices, nextCount : Cells,
               nextPrice : Prices],
   esk |-> [code : {c1}, quantity : {0, 4}, price : {<<9, 8, 7, 6, 5>>, <<9, 9, 8, 8, 7>>},
            min : {<<1, 2, 3, 4, 5>>, <<1, 5, 6, 9, 12>>, <<2, 3, 5, 8, 9>>}],
   rct |-> [code : {NaN, c1}, quantity : {NaN, 4}, multiple : {NaN, 1, 2, 5},
            price1 : {NaN, 9}, price2 : {NaN, 0, 5, 8, 30}, price3 : {NaN, 3}, transit : {NaN, 2},
            dated : BOOLEAN],
   kulibin |-> [code : {NaN, c1}, quantity : {NaN, 0, 4}, price : {NaN, 0, 7}, unit : BOOLEAN],
   diamant |-> Single3({NaN, c1}, {NaN, 0, 4}),
   elsin |-> [code : {NaN, c1}, quantity : {NaN, 4}, price : {NaN, 7}, minQty : {NaN, 0, 2},
              maxQty : {NaN, 0, 5}],
   trigger |-> Single3({NaN, c1}, {NaN, -1, 0, 4}),
   beltrix |-> Single3({NaN, c1}, {NaN, -1, 0, 4}),
   dan |-> [code : {NaN, c1}, quantity : {0, 4}, price : {NaN, 7}, ordinaryPrice : {NaN, 9}],
   istochnik |-> [code : {c1}, quantity : {0, 4}, minSalePack : {1, 3}, price : {7}],
   triatron |-> [code : {NaN, c1}, multiple : {NaN, 3}, price : {NaN, 7}, quantity : {NaN, 4},
                 minus : {NaN, 1, 4}, wayQuantity : {NaN, 2}, wayMinus : {NaN, 3}],
   mars |-> [code : {NaN, c1}, quantity : {NaN, 4}, transit : {NaN, 2}, price : {NaN, 7},
             pack : {NaN, 2}, split : {FALSE}, inPieces : BOOLEAN]
             \cup [code : {c1}, quantity : {4}, transit : {2}, price : {7}, pack : {2},
                   split : {TRUE}, inPieces : BOOLEAN],
   compel |-> {[code |-> c1, quantity |-> 9, moq |-> moq,
                qty |-> Filling(8, n, [i \in 1..8 |-> moq * (i + i \div 3)]),
                price |-> Filling(8, n, [i \in 1..8 |-> 20 - i])] : n \in 1..8, moq \in {1, 2}},
   ruelectronics |-> [code : {c1}, price : {NaN, 9}, optprice : {NaN, 8}, vipprice : {NaN, 7},
                      packets : [1..3 -> [norma : {NaN, 1, 3}, quant : {0, 2}]], quant : {NaN, 4},
                      normaArrives : {0, 3}, arrived : {0, 3}, arrives : {0, 6}, industry : {0, 5}],
   promelec |-> [code : {c1}, quant : {0, 4}, quantUnit : {NaN, 2}, pricebreaks : MCBreaks,
                 priceUnit : {1, 10}, moq : {NaN, 2, 4}, hasVendors : {FALSE}, vendors : {{}}]
                \cup {[code |-> c1, quant |-> 4, quantUnit |-> 1, pricebreaks |-> breaks,
                       priceUnit |-> 1, moq |-> moq, hasVendors |-> TRUE,
                       vendors |->
                           {[vendor |-> n, quant |-> 3, mpq |-> NaN, pricebreaks |-> own[n],
                             priceUnit |-> 10, moq |-> moq, hasVendors |-> FALSE] : n \in 1..extra}] :
                          breaks \in MCBreaks, moq \in {NaN, 4}, extra \in 0..2,
                          own \in [1..2 -> {VendorBreaks(3), VendorBreaks(6)}]},
   platan |-> [item : [code : {c1}, quanty : {0, 4}, prihod : {0, 3}, minSoSkl : {0, 2, 6},
                       kratnost : {NaN, 2}, steps : {FiveFrom(1, 9), FiveFrom(3, 9)}],
               retail : [steps : {FiveFrom(1, 20), FiveFrom(3, 20)}]],
   compelapi |-> [code : {c1}, locations : SUBSET [location : {"CENTER", "DMS"},
                     vendQty : {NaN, 4}, mpq : {1, 5},
                     priceQty : {<<>>, <<[price |-> 7, min |-> 1, max |-> 4],
                                         [price |-> 6, min |-> 5, max |-> 0]>>}]],
   radiodetalicom |-> [code : {c1}, qty : {0, 4}, pRate : {NaN, 3},
                       steps : StepsOf(1, {1}, {7}) \cup StepsOf(2, {1, 3, 6}, {7, 9})
                               \cup StepsOf(3, {1, 3, 6}, {7, 9})],
   elitan |-> {[code |-> c1,
                stock |-> {[stockId |-> n, stock |-> 4, pack |-> p, steps |-> Reverse(s[n])] : n \in 1..2}] :
                  p \in {NaN, 2},
                  s \in [1..2 -> StepsOf(1, {1}, {7}) \cup StepsOf(3, {1, 3, 6}, {7, 9})]},
   getchips |-> [code : {c1}, donor : {"d"}, quantity : {4}, foldDivision : {1, 2}, minq : {1, 2, 4},
                 steps : StepsOf(3, {1, 2, 6}, {7, 9})],
   fulcrum |-> [code : MCCodes, product : {c1}, quantity : {NaN, 1, 2},
                price : {9000, 12000, 60000, 120000}, priceOpt : {NaN, 5000}]
               \cup [code : {c1}, product : {NaN}, quantity : {3}, price : {NaN, 9000},
                     priceOpt : {NaN}],
   microem |-> [code : MCCodes, quantity : {NaN, 1, 2, 3}, price : {7, 9}],
   ecomp |-> [gold : {TRUE}, code : MCCodes, product : {c1}, pack : {NaN, 5}, stock : {NaN, 2},
              inWay : {0, 3}, regularPrice : {NaN, 200}, salePrice : {0, 100}, weeks : {2}]
             \cup [gold : {FALSE}, code : MCCodes, product : {NaN, c1}, quantity : {0, 4},
                   price : {150, 300}, weeks : {1, 3}],
   elcopro |-> [code : MCCodes, quantity : {4, 5}, isInput : BOOLEAN, price : {7}, min : {1, 5},
                max : {0, 4}]]
=============================================================================
