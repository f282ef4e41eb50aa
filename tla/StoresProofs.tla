----------------------------- MODULE StoresProofs -----------------------------
(***************************************************************************)
(* Proofs about what the program keeps between requests: the ids clients   *)
(* bound to goods survive imports, searches, the catalogue and the         *)
(* cleanup, and a finished update of the rates takes effect, for any       *)
(* goods, clients, currencies, calls, updates and restarts.                *)
(***************************************************************************)
EXTENDS GoodStore, CurrencyRates, TLAPS

----------------------------------------------------------------------------
(* Stored goods                                                            *)

LEMMA StoreInitIsSound == StoreInit => StoreIInv
<1> SUFFICES ASSUME StoreInit PROVE StoreIInv
  OBVIOUS
<1>1. \A b \in {{}} \cup {{c} : c \in Client} :
        [params |-> [p \in Param |-> None], bound |-> b, stocked |-> TRUE, old |-> FALSE] \in Row
  BY DEF Row
<1>2. row \in [Good -> {None} \cup Row]
  BY <1>1 DEF StoreInit
<1> QED  BY <1>2 DEF StoreInit, StoreIInv, StoreTypeOK, OpCall, RowsStay, Idle

\* What a call holds, by the point it has come to.
LEMMA OpFacts ==
    ASSUME StoreTypeOK, NEW o \in Op
    PROVE  /\ op[o].at = "upsert" => op[o] \in
                [at : {"upsert"}, good : Good, params : Parameters, bound : SUBSET Client,
                 stocked : BOOLEAN, insert : BOOLEAN]
           /\ op[o].at = "merge" => op[o] \in
                [at : {"merge"}, good : Good, params : Parameters, read : Parameters]
           /\ op[o].at = "save" => op[o] \in
                [at : {"save"}, good : Good, client : Client, read : SUBSET Client]
BY DEF StoreTypeOK, OpCall, Idle

\* What each action does: it keeps the invariant, and the ids bound to every good
\* unless it saves a first binding.
Keeps == StoreIInv' /\ \A g \in Good : ~BindingFirst(g) => Bound(g) \subseteq Bound(g)'

\* A call goes on without a word to the database.
LEMMA QuietIsSound ==
    ASSUME StoreIInv, row' = row, StoreTypeOK',
           \A o \in Op : \/ op'[o] = op[o]
                         \/ op'[o].at \notin {"merge", "save"}
                         \/ row[op'[o].good] # None
    PROVE  Keeps
BY DEF Keeps, StoreIInv, RowsStay, Bound

\* One row is written.
LEMMA WriteIsSound ==
    ASSUME StoreIInv, NEW g \in Good, NEW new \in Row, row' = [row EXCEPT ![g] = new],
           BindingFirst(g) \/ Bound(g) \subseteq new.bound,
           op' \in [Op -> OpCall],
           \A o \in Op : op'[o] = op[o] \/ op'[o].at = "idle" \/ op'[o].good = g
    PROVE  Keeps
<1>1. row' \in [Good -> {None} \cup Row] /\ row'[g] # None
  BY StoreAssumption DEF StoreIInv, StoreTypeOK
<1>2. \A h \in Good : row[h] # None => row'[h] # None
  BY <1>1 DEF StoreIInv, StoreTypeOK
<1>3. StoreTypeOK'
  BY <1>1 DEF StoreIInv, StoreTypeOK
<1>4. RowsStay'
  <2> SUFFICES ASSUME NEW o \in Op, op'[o].at \in {"merge", "save"} PROVE row'[op'[o].good] # None
    BY DEF RowsStay
  <2>1. CASE op'[o] = op[o]
    BY <1>2, <2>1, OpFacts DEF StoreIInv, RowsStay
  <2>2. CASE op'[o].good = g
    BY <1>1, <2>2
  <2> QED  BY <2>1, <2>2
<1>5. \A h \in Good : ~BindingFirst(h) => Bound(h) \subseteq Bound(h)'
  BY <1>1 DEF Bound, StoreIInv, StoreTypeOK
<1> QED  BY <1>3, <1>4, <1>5 DEF Keeps, StoreIInv

LEMMA CallIsSound ==
    ASSUME StoreIInv, NEW o \in Op, NEW g \in Good,
           CallWithNew(o, g) \/ CallWithRancid(o, g)
    PROVE  Keeps
<1>0. StoreTypeOK
  BY DEF StoreIInv
<1>1. row' = row
  BY DEF CallWithNew, CallWithRancid, Call
<1>2. PICK params \in Parameters, bound \in SUBSET Client, stocked \in BOOLEAN :
        Call(o, g, params, bound, stocked)
  <2>1. CASE CallWithNew(o, g)
    BY <2>1 DEF CallWithNew
  <2>2. CASE CallWithRancid(o, g)
    <3>1. row[g] \in Row
      BY <1>0, <2>2 DEF CallWithRancid, StoreTypeOK
    <3> QED  BY <2>2, <3>1 DEF CallWithRancid, Row, Parameters
  <2> QED  BY <2>1, <2>2
<1>3. StoreTypeOK' /\ \A p \in Op : op'[p] = op[p] \/ op'[p].at = "upsert"
  BY <1>0, <1>1, <1>2 DEF Call, StoreTypeOK, OpCall
<1> QED  BY <1>1, <1>3, QuietIsSound

LEMMA SetGoodIsSound ==
    ASSUME StoreIInv, NEW o \in Op, NEW g \in Good, NEW c \in Client, SetGood(o, g, c)
    PROVE  Keeps
<1>1. row[g] \in Row
  BY DEF SetGood, StoreIInv, StoreTypeOK
<1>2. StoreTypeOK' /\ row' = row
  BY <1>1 DEF SetGood, StoreIInv, StoreTypeOK, OpCall, Row
<1>3. \A p \in Op : op'[p] = op[p] \/ op'[p].good = g
  BY DEF SetGood, StoreIInv, StoreTypeOK
<1> QED  BY <1>2, <1>3, QuietIsSound DEF SetGood

LEMMA UpdateIsSound == ASSUME StoreIInv, NEW o \in Op, FindOneAndUpdate(o) PROVE Keeps
<1> DEFINE g == op[o].good
           new == IF row[g] = None THEN NewRow(op[o].stocked) ELSE Updated(row[g], op[o])
<1>1. op[o] \in [at : {"upsert"}, good : Good, params : Parameters, bound : SUBSET Client,
                 stocked : BOOLEAN, insert : BOOLEAN]
  BY OpFacts DEF FindOneAndUpdate, StoreIInv
<1>2. new \in Row /\ Bound(g) \subseteq new.bound
  <2>1. CASE row[g] = None
    BY <1>1, <2>1 DEF NewRow, Row, Bound
  <2>2. CASE row[g] # None
    <3>1. row[g] \in Row
      BY <1>1, <2>2 DEF StoreIInv, StoreTypeOK
    <3> QED  BY <1>1, <2>2, <3>1 DEF Updated, Row, Bound
  <2> QED  BY <2>1, <2>2
<1>3. /\ row' = [row EXCEPT ![g] = new]
      /\ op' = [op EXCEPT ![o] = [at |-> "merge", good |-> g, params |-> op[o].params,
                                  read |-> new.params]]
  BY DEF FindOneAndUpdate
<1> HIDE DEF new
<1>4. new.params \in Parameters
  BY <1>2 DEF Row, Parameters
<1>5. [at |-> "merge", good |-> g, params |-> op[o].params, read |-> new.params]
        \in OpCall
  BY <1>1, <1>4 DEF OpCall
<1>6. /\ op' \in [Op -> OpCall]
      /\ \A p \in Op : op'[p] = op[p] \/ op'[p].at = "idle" \/ op'[p].good = g
  BY <1>3, <1>5 DEF StoreIInv, StoreTypeOK
<1> QED  BY <1>1, <1>2, <1>3, <1>6, WriteIsSound

\* A call that is over.
LEMMA IdleFacts ==
    ASSUME StoreTypeOK, NEW o \in Op, op' = [op EXCEPT ![o] = Idle]
    PROVE  /\ op' \in [Op -> OpCall]
           /\ \A p \in Op : op'[p] = op[p] \/ op'[p].at = "idle"
           /\ row' = row => StoreTypeOK'
BY DEF StoreTypeOK, OpCall, Idle

LEMMA SetParametersIsSound == ASSUME StoreIInv, NEW o \in Op, SetParameters(o) PROVE Keeps
<1> DEFINE g == op[o].good
           merged == Merged(op[o].read, op[o].params)
           new == [row[g] EXCEPT !.params = merged, !.old = FALSE]
<1>0. StoreTypeOK /\ op' = [op EXCEPT ![o] = Idle]
  BY DEF StoreIInv, SetParameters
<1>1. op[o] \in [at : {"merge"}, good : Good, params : Parameters, read : Parameters]
  BY <1>0, OpFacts DEF SetParameters
<1>2. merged \in Parameters /\ row[g] \in Row
  BY <1>0, <1>1 DEF Merged, Parameters, SetParameters, StoreIInv, StoreTypeOK, RowsStay
<1>3. CASE row' = row
  BY <1>0, <1>3, IdleFacts, QuietIsSound DEF Idle
<1>4. CASE row' # row
  <2>1. row' = [row EXCEPT ![g] = new]
    BY <1>4 DEF SetParameters
  <2>2. new \in Row /\ Bound(g) \subseteq new.bound
    BY <1>2 DEF Row, Parameters, Bound
  <2> HIDE DEF new
  <2> QED  BY <1>0, <1>1, <2>1, <2>2, IdleFacts, WriteIsSound
<1> QED  BY <1>3, <1>4

LEMMA SaveIsSound == ASSUME StoreIInv, NEW o \in Op, Save(o) PROVE Keeps
<1> DEFINE g == op[o].good
           new == [row[g] EXCEPT !.bound = {op[o].client}, !.old = FALSE]
<1>0. StoreTypeOK /\ op' = [op EXCEPT ![o] = Idle]
  BY DEF StoreIInv, Save
<1>1. op[o] \in [at : {"save"}, good : Good, client : Client, read : SUBSET Client]
  BY <1>0, OpFacts DEF Save
<1>2. row[g] \in Row
  BY <1>0, <1>1 DEF Save, StoreIInv, StoreTypeOK, RowsStay
<1>3. CASE row' = row
  BY <1>0, <1>3, IdleFacts, QuietIsSound DEF Idle
<1>4. CASE row' # row
  <2>1. row' = [row EXCEPT ![g] = new] /\ BindingFirst(g)
    BY <1>1, <1>4 DEF Save, BindingFirst, StoreIInv, StoreTypeOK
  <2>2. new \in Row
    BY <1>1, <1>2 DEF Row
  <2> HIDE DEF new
  <2> QED  BY <1>0, <1>1, <2>1, <2>2, IdleFacts, WriteIsSound
<1> QED  BY <1>3, <1>4

LEMMA RowIsSound ==
    ASSUME StoreIInv, NEW g \in Good, CatalogUpsert(g) \/ Age(g) \/ ClearOld(g)
    PROVE  Keeps
<1>0. StoreTypeOK /\ op' = op
  BY DEF StoreIInv, CatalogUpsert, Age, ClearOld
<1>1. op' \in [Op -> OpCall]
  BY <1>0 DEF StoreTypeOK
<1>2. CASE CatalogUpsert(g)
  <2>1. PICK params \in Parameters, stocked \in BOOLEAN :
          row' = [row EXCEPT ![g] = [params |-> params, bound |-> Bound(g),
                                     stocked |-> stocked, old |-> FALSE]]
    BY <1>0, <1>2 DEF CatalogUpsert, Bound, StoreTypeOK
  <2> DEFINE new == [params |-> params, bound |-> Bound(g), stocked |-> stocked, old |-> FALSE]
  <2>2. Bound(g) \in SUBSET Client
    BY <1>0 DEF Bound, StoreTypeOK, Row
  <2>3. new \in Row /\ Bound(g) \subseteq new.bound
    BY <2>2 DEF Row, Parameters
  <2>4. row' = [row EXCEPT ![g] = new]
    BY <2>1
  <2> HIDE DEF new
  <2> QED  BY <1>0, <1>1, <2>3, <2>4, WriteIsSound
<1>3. CASE Age(g) \/ ClearOld(g)
  <2>1. PICK stocked \in BOOLEAN, old \in BOOLEAN :
          row' = [row EXCEPT ![g] = [row[g] EXCEPT !.stocked = stocked, !.old = old]]
    <3>1. row[g] \in Row
      BY <1>0, <1>3 DEF Age, ClearOld, StoreTypeOK
    <3>2. CASE Age(g)
      <4>1. [row[g] EXCEPT !.old = TRUE] = [row[g] EXCEPT !.stocked = row[g].stocked, !.old = TRUE]
        BY <3>1 DEF Row
      <4> QED  BY <3>1, <3>2, <4>1 DEF Age, Row
    <3> QED  BY <1>3, <3>2 DEF ClearOld
  <2> DEFINE new == [row[g] EXCEPT !.stocked = stocked, !.old = old]
  <2>2. row[g] \in Row
    BY <1>0, <1>3 DEF Age, ClearOld, StoreTypeOK
  <2>3. new \in Row /\ Bound(g) \subseteq new.bound
    BY <2>2 DEF Row, Bound
  <2>4. row' = [row EXCEPT ![g] = new]
    BY <2>1
  <2> HIDE DEF new
  <2> QED  BY <1>0, <1>1, <2>3, <2>4, WriteIsSound
<1> QED  BY <1>2, <1>3

LEMMA StoreNextIsSound == ASSUME StoreIInv, StoreNext PROVE Keeps
<1>1. ASSUME NEW o \in Op, DuplicateKey(o) PROVE Keeps
  <2>1. StoreTypeOK /\ op' = [op EXCEPT ![o] = Idle] /\ row' = row
    BY <1>1 DEF DuplicateKey, StoreIInv
  <2> QED  BY <2>1, IdleFacts, QuietIsSound DEF Idle
<1> QED  BY <1>1, CallIsSound, SetGoodIsSound, UpdateIsSound, SetParametersIsSound, SaveIsSound, RowIsSound
         DEF StoreNext

\* No import, search, catalogue or cleanup takes an id that a client has bound.
THEOREM BindingsAreKept == StoreSpec => BindingsSurvive
<1>1. StoreInit => StoreIInv
  BY StoreInitIsSound
<1>2. StoreIInv /\ [StoreNext]_storeVars => StoreIInv'
  <2>1. CASE UNCHANGED storeVars
    BY <2>1 DEF storeVars, StoreIInv, StoreTypeOK, RowsStay
  <2> QED  BY <2>1, StoreNextIsSound DEF Keeps
<1>3. StoreIInv /\ [StoreNext]_storeVars
        => [\A g \in Good : ~BindingFirst(g) => Bound(g) \subseteq Bound(g)']_storeVars
  BY StoreNextIsSound DEF Keeps
<1> QED  BY <1>1, <1>2, <1>3, PTL DEF StoreSpec, BindingsSurvive

----------------------------------------------------------------------------
(* Currency rates                                                          *)

\* What an update holds, by the point it has come to.
LEMMA CallFacts ==
    ASSUME NEW u \in Update, update[u] \in UpdateCall
    PROVE  /\ update[u].at \in {"idle", "fetch", "write", "load", "done", "failed"}
           /\ update[u].at = "fetch" => update[u] \in [at : {"fetch"}, after : SUBSET Update]
           /\ update[u].at = "write" => update[u] \in
                [at : {"write"}, after : SUBSET Update, given : SUBSET Currency, todo : SUBSET Currency]
           /\ update[u].at = "load" => update[u] \in
                [at : {"load"}, after : SUBSET Update, given : SUBSET Currency, found : Rates]
           /\ update[u].at = "done" => update[u] \in
                [at : {"done"}, after : SUBSET Update, given : SUBSET Currency, answer : Rates]
           /\ update[u].at = "idle" <=> update[u] = Waiting
BY DEF UpdateCall, Waiting, Failing

LEMMA RatesInitIsSound == RatesInit => RatesIInv
<1> SUFFICES ASSUME RatesInit PROVE RatesIInv
  OBVIOUS
<1>1. \A u \in Update : update[u] \in UpdateCall /\ UpdateInv(u)
  BY DEF RatesInit, UpdateCall, UpdateInv, Waiting, Fetching
<1> QED  BY <1>1 DEF RatesInit, RatesIInv, RatesTypeOK, Rates

\* One update moves on, and the database stays as it is.
LEMMA MoveIsSound ==
    ASSUME RatesIInv, NEW u \in Update, ~HasEnded(u),
           NEW call \in UpdateCall, update' = [update EXCEPT ![u] = call],
           UpdateInv(u)', stored' = stored, memory' \in Rates, restarts' = restarts
    PROVE  RatesIInv'
<1>1. RatesTypeOK'
  BY DEF RatesIInv, RatesTypeOK
<1>2. ASSUME NEW v \in Update \ {u} PROVE UpdateInv(v)'
  <2>1. update'[v] = update[v]
    BY DEF RatesIInv, RatesTypeOK
  <2>2. \A w \in Update : HasEnded(w) => HasEnded(w)'
    BY DEF RatesIInv, RatesTypeOK, HasEnded
  <2>3. UpdateInv(v)
    BY DEF RatesIInv
  <2> QED  BY <2>1, <2>2, <2>3, CallFacts DEF UpdateInv, Fresh, AsOld, RatesIInv, RatesTypeOK
<1> QED  BY <1>1, <1>2 DEF RatesIInv

LEMMA StepIsSound == ASSUME RatesIInv, NEW u \in Update, StartUpdate(u) \/ UpdateStep(u)
                     PROVE  RatesIInv'
<1> USE DEF HasEnded
<1>0. update[u] \in UpdateCall /\ UpdateInv(u) /\ RatesTypeOK /\ update'= [update EXCEPT ![u] = update'[u]]
  BY DEF RatesIInv, RatesTypeOK, StartUpdate, UpdateStep, RatesCome, WriteRate, FindRates, AssignMaps, UpdateFails
<1>1. CASE StartUpdate(u)
  <2>1. update'[u] = Fetching({v \in Update : HasEnded(v)}) /\ update[u] = Waiting
    BY <1>0, <1>1 DEF StartUpdate, RatesTypeOK
  <2>2. UpdateInv(u)'
    BY <1>0, <1>1, <2>1 DEF StartUpdate, UpdateInv, Fetching, RatesTypeOK, Waiting
  <2> QED  BY <1>0, <1>1, <2>1, <2>2, MoveIsSound DEF StartUpdate, UpdateCall, Fetching, RatesTypeOK, Waiting
<1>2. CASE RatesCome(u)
  <2>1. PICK listed \in SUBSET (Currency \ {RUB}) :
          update'[u] = [at |-> "write", after |-> update[u].after, given |-> listed \cup {RUB},
                        todo |-> listed \cup {RUB}]
    BY <1>0, <1>2 DEF RatesCome, RatesTypeOK
  <2>2. update[u].after \in SUBSET Update /\ update[u].at = "fetch"
    BY <1>0, <1>2, CallFacts DEF RatesCome
  <2>3. UpdateInv(u)'
    BY <1>0, <1>2, <2>1, <2>2 DEF RatesCome, UpdateInv, Fresh, RatesTypeOK
  <2>4. update'[u] \in UpdateCall
    BY <2>1, <2>2, RatesAssumption DEF UpdateCall
  <2> QED  BY <1>0, <1>2, <2>2, <2>3, <2>4, MoveIsSound DEF RatesCome, RatesTypeOK
<1>3. ASSUME NEW c \in Currency, WriteRate(u, c) PROVE RatesIInv'
  <2>1. /\ update[u] \in [at : {"write"}, after : SUBSET Update, given : SUBSET Currency,
                          todo : SUBSET Currency]
        /\ update'[u] = [update[u] EXCEPT !.todo = @ \ {c}]
        /\ stored' = [stored EXCEPT ![c] = u]
    BY <1>0, <1>3, CallFacts DEF WriteRate, RatesTypeOK
  <2>2. RatesTypeOK'
    BY <1>0, <1>3, <2>1 DEF RatesTypeOK, Rates, UpdateCall, WriteRate
  <2>3. ASSUME NEW v \in Update, update[v].at \in {"fetch", "write", "load", "done"}
        PROVE  u \notin update[v].after /\ (\A w \in update[v].after : HasEnded(w)')
    <3>1. /\ \A w \in update[v].after : HasEnded(w)
          /\ update[v].after \subseteq Update
      BY <1>0, <2>3, CallFacts DEF RatesIInv, UpdateInv, RatesTypeOK
    <3>2. \A w \in Update \ {u} : update'[w] = update[w]
      BY <1>0 DEF RatesTypeOK
    <3> QED  BY <2>1, <3>1, <3>2
  <2>4. UpdateInv(u)'
    BY <1>0, <2>1, <2>3 DEF UpdateInv, Fresh, RatesTypeOK, Rates
  <2>5. ASSUME NEW v \in Update \ {u} PROVE UpdateInv(v)'
    <3>1. update'[v] = update[v] /\ UpdateInv(v) /\ update[v] \in UpdateCall
      BY <1>0 DEF RatesIInv, RatesTypeOK
    <3>2. update[v].at = "write" => Fresh(stored, v, update[v].given \ update[v].todo)'
      BY <1>0, <2>1, <2>3, <3>1, CallFacts DEF UpdateInv, Fresh, RatesTypeOK, Rates
    <3>3. \A rates : AsOld(rates) => AsOld(rates)'
      BY <1>0, <2>1, RatesAssumption DEF AsOld, RatesTypeOK, Rates
    <3> QED  BY <2>3, <3>1, <3>2, <3>3 DEF UpdateInv, Fresh, AsOld
  <2> QED  BY <2>2, <2>4, <2>5 DEF RatesIInv
<1>4. CASE FindRates(u)
  <2>1. /\ update[u] \in [at : {"write"}, after : SUBSET Update, given : SUBSET Currency,
                          todo : SUBSET Currency]
        /\ update[u].todo = {}
        /\ update'[u] = [at |-> "load", after |-> update[u].after, given |-> update[u].given,
                         found |-> stored]
    BY <1>0, <1>4, CallFacts DEF FindRates, Loads, RatesTypeOK
  <2>2. UpdateInv(u)'
    BY <1>0, <1>4, <2>1 DEF UpdateInv, Fresh, AsOld, FindRates, RatesTypeOK
  <2> QED  BY <1>0, <1>4, <2>1, <2>2, MoveIsSound DEF FindRates, UpdateCall, RatesTypeOK
<1>5. CASE AssignMaps(u)
  <2>1. /\ update[u] \in [at : {"load"}, after : SUBSET Update, given : SUBSET Currency, found : Rates]
        /\ update'[u] = [at |-> "done", after |-> update[u].after, given |-> update[u].given,
                         answer |-> update[u].found]
    BY <1>0, <1>5, CallFacts DEF AssignMaps, RatesTypeOK
  <2>2. UpdateInv(u)'
    BY <1>0, <1>5, <2>1 DEF UpdateInv, Fresh, AsOld, AssignMaps, RatesTypeOK
  <2> QED  BY <1>0, <1>5, <2>1, <2>2, MoveIsSound DEF AssignMaps, UpdateCall, RatesTypeOK
<1>6. CASE UpdateFails(u)
  <2>1. update'[u] = Failing /\ update[u].at \in {"fetch", "write", "load"}
    BY <1>0, <1>6 DEF UpdateFails, RatesTypeOK
  <2>2. UpdateInv(u)'
    BY <2>1 DEF UpdateInv, Failing
  <2> QED  BY <1>0, <1>6, <2>1, <2>2, MoveIsSound DEF UpdateFails, UpdateCall, RatesTypeOK
<1> QED  BY <1>1, <1>2, <1>3, <1>4, <1>5, <1>6 DEF UpdateStep

LEMMA RestartIsSound == ASSUME RatesIInv, Restart PROVE RatesIInv'
<1> DEFINE ended == {v \in Update : update[v] # Waiting}
           stopped == [v \in Update |-> IF v \in ended /\ ~HasEnded(v) THEN Failing ELSE update[v]]
<1>0. RatesTypeOK /\ stored' = stored /\ memory' = stored /\ restarts' \in Nat
  BY DEF RatesIInv, RatesTypeOK, Restart
<1>1. /\ update' \in [Update -> UpdateCall]
      /\ \A v \in Update : \/ update'[v] = update[v] /\ (HasEnded(v) \/ update[v] = Waiting)
                           \/ update'[v] = Failing /\ ~HasEnded(v)
                           \/ update'[v] = Fetching(ended) /\ update[v] = Waiting
  <2>1. stopped \in [Update -> UpdateCall]
    BY <1>0 DEF RatesTypeOK, UpdateCall
  <2>2. \/ update' = stopped
        \/ \E u \in Update \ ended : update' = [stopped EXCEPT ![u] = Fetching(ended)]
    BY DEF Restart
  <2>3. Fetching(ended) \in UpdateCall
    BY DEF Fetching, UpdateCall
  <2> QED  BY <2>1, <2>2, <2>3
<1>2. ASSUME NEW v \in Update, v \in ended PROVE HasEnded(v)'
  <2>1. \/ update'[v] = update[v] /\ HasEnded(v)
        \/ update'[v] = Failing
    BY <1>1, <1>2
  <2> QED  BY <2>1 DEF HasEnded, Failing
<1>3. ASSUME NEW v \in Update, HasEnded(v) PROVE HasEnded(v)'
  <2>1. update[v] # Waiting
    BY <1>3 DEF HasEnded, Waiting
  <2> QED  BY <1>2, <2>1
<1>4. ASSUME NEW v \in Update PROVE UpdateInv(v)'
  <2>1. CASE update'[v] = update[v] /\ (HasEnded(v) \/ update[v] = Waiting)
    <3>1. UpdateInv(v) /\ update[v] \in UpdateCall
      BY DEF RatesIInv, RatesTypeOK
    <3> QED  BY <1>0, <1>3, <2>1, <3>1, CallFacts DEF UpdateInv, Fresh, AsOld, HasEnded, Waiting
  <2>2. CASE update'[v] = Failing
    BY <2>2 DEF UpdateInv, Failing
  <2>3. CASE update'[v] = Fetching(ended)
    BY <1>2, <2>3 DEF UpdateInv, Fetching
  <2> QED  BY <1>1, <2>1, <2>2, <2>3
<1> QED  BY <1>0, <1>1, <1>4 DEF RatesIInv, RatesTypeOK

LEMMA RatesNextIsSound == RatesIInv /\ [RatesNext]_rateVars => RatesIInv'
<1> SUFFICES ASSUME RatesIInv, [RatesNext]_rateVars PROVE RatesIInv'
  OBVIOUS
<1>1. CASE UNCHANGED rateVars
  BY <1>1 DEF rateVars, RatesIInv, RatesTypeOK, UpdateInv, Fresh, AsOld, HasEnded
<1> QED  BY <1>1, StepIsSound, RestartIsSound DEF RatesNext

\* A finished update answers with its own rates or those of one that overlapped it.
THEOREM UpdatesAreEffective == RatesSpec => []UpdatesTakeEffect
<1>1. RatesInit => RatesIInv
  BY RatesInitIsSound
<1>2. RatesIInv /\ [RatesNext]_rateVars => RatesIInv'
  BY RatesNextIsSound
<1>3. RatesIInv => UpdatesTakeEffect
  <2> SUFFICES ASSUME RatesIInv, NEW u \in Update, update[u].at = "done", NEW c \in Currency
               PROVE  /\ c \in update[u].given => update[u].answer[c] \in Update \ update[u].after
                      /\ stored[c] = Earlier => update[u].answer[c] = Earlier
    BY DEF UpdatesTakeEffect
  <2> QED  BY DEF RatesIInv, UpdateInv, Fresh, AsOld
<1> QED  BY <1>1, <1>2, <1>3, PTL DEF RatesSpec
=============================================================================
