-------------------------- MODULE ScheduleImportProofs --------------------------
(***************************************************************************)
(* An import replaces its supplier's stock by its price list and empties   *)
(* nothing before its list is in, for any imports, keys jobs, bindings,    *)
(* codes and clock, by the inductive invariant IInv.                       *)
(***************************************************************************)
EXTENDS ScheduleImport, TLAPS

LEMMA InitIsSound == Init => IInv
<1> SUFFICES ASSUME Init PROVE IInv
  OBVIOUS
<1> USE DEF Init
<1>1. TypeOK
  BY DEF TypeOK, Phase, Stock, Writer
<1>2. TimeInv /\ AnsweredInv /\ RowsInv /\ ClearInv /\ ClearsComeLast
  BY DEF TimeInv, AnsweredInv, InFlightOf, RowsInv, ClearInv, ClearsComeLast
<1> QED  BY <1>1, <1>2 DEF IInv

\* The stock of an import is none of the markers.
LEMMA StockFacts ==
  /\ Absent # Empty /\ Kept \notin {Absent, Empty}
  /\ \A i \in Import \union Search : i \notin {Absent, Empty, Kept, Swept}
  BY StockAssumption, ImportAssumption

\* A step that launches nothing and leaves the rows alone keeps what each import
\* but the one that moves knows.
LEMMA OtherRows ==
  ASSUME IInv, NEW i \in Import,
         UNCHANGED <<row, inFlight, disturbed, list>>,
         \A j \in Import \ {i} : phase'[j] = phase[j] /\ startTime'[j] = startTime[j] /\ rancid'[j] = rancid[j],
         phase'[i] # "idle" => \A c \in Code \ disturbed[i] : RowInv(i, c)'
  PROVE  RowsInv'
<1> SUFFICES ASSUME NEW j \in Import, j # i, phase'[j] # "idle", NEW c \in Code \ disturbed[j]
             PROVE  RowInv(j, c)'
  BY DEF RowsInv
<1>1. RowInv(j, c)
  BY DEF IInv, RowsInv
<1> QED  BY <1>1 DEF RowInv, OwnWrites, Untouched, Stored, OnRow

\* Writes of one writer leave alone what another import knows of its rows.
LEMMA LaunchKeepsOthers ==
  ASSUME IInv, NEW by \in Writer, NEW codes \in SUBSET Code, NEW stock,
         Launch(by, codes, stock), Disturb(by, codes), UNCHANGED <<now, row, startTime, rancid>>,
         NEW j \in Import, j # by, phase'[j] = phase[j], list'[j] = list[j], phase[j] # "idle",
         NEW c \in Code \ disturbed'[j]
  PROVE  RowInv(j, c)'
<1>1. disturbed'[j] = disturbed[j] \union codes
  BY DEF Disturb
<1>2. RowInv(j, c) /\ c \notin codes
  BY <1>1 DEF IInv, RowsInv
<1>3. OnRow(c)' = OnRow(c)
  BY <1>2 DEF OnRow, Launch, Launched
<1> QED  BY <1>2, <1>3 DEF RowInv, OwnWrites, Untouched, Stored

\* The start of an import.
LEMMA StartIsSound == ASSUME IInv, NEW i \in Import, Start(i) PROVE IInv'
<1> USE DEF IInv, Start
<1>1. TypeOK' /\ TimeInv' /\ AnsweredInv'
  BY DEF TypeOK, Phase, TimeInv, AnsweredInv, InFlightOf
<1>2. RowsInv'
  <2> SUFFICES ASSUME NEW j \in Import, phase'[j] # "idle", NEW c \in Code \ disturbed'[j]
               PROVE  RowInv(j, c)'
    BY DEF RowsInv
  <2>1. CASE j = i
    <3>1. disturbed'[i] = {d \in Code : row[d].updatedAt >= now \/ \E w \in inFlight : w.code = d}
      BY DEF TypeOK
    <3>2. OnRow(c)' = {} /\ row[c].updatedAt < now
      BY <2>1, <3>1 DEF OnRow, TypeOK
    <3>3. phase'[i] = "starting" /\ startTime'[i] = now
      BY DEF TypeOK
    <3> QED  BY <2>1, <3>2, <3>3 DEF RowInv, OwnWrites, Untouched, OnRow
  <2>2. CASE j # i
    <3>1. phase[j] # "idle" /\ c \in Code \ disturbed[j] /\ RowInv(j, c)
      BY <2>2 DEF RowsInv, TypeOK
    <3> QED  BY <2>2, <3>1 DEF RowInv, OwnWrites, Untouched, Stored, OnRow, TypeOK
  <2> QED  BY <2>1, <2>2
<1>3. ClearInv' /\ ClearsComeLast'
  BY DEF TypeOK, ClearInv, ClearsComeLast
<1> QED  BY <1>1, <1>2, <1>3

\* An import moves on without a write.
LEMMA MoveIsSound ==
  ASSUME IInv, NEW i \in Import, Break(i) \/ Find(i) \/ Finish(i) PROVE IInv'
<1> USE DEF IInv
<1>0. UNCHANGED <<now, row, inFlight, startTime, list, stored, disturbed>>
  BY DEF Break, Find, Finish
<1>1. TypeOK' /\ TimeInv' /\ AnsweredInv'
  BY <1>0 DEF Break, Find, Finish, TypeOK, Phase, TimeInv, Rancid, AnsweredInv, InFlightOf
<1>2. RowsInv'
  <2> SUFFICES ASSUME NEW c \in Code \ disturbed[i] PROVE RowInv(i, c)'
    BY <1>0, OtherRows DEF Break, Find, Finish, TypeOK
  <2>0. phase[i] # "idle" /\ RowInv(i, c)
    BY DEF RowsInv, Break, Find, Finish
  <2>1. CASE phase'[i] = "failed"
    BY <1>0, <2>0, <2>1 DEF RowInv, OwnWrites, OnRow
  <2>2. CASE Find(i) /\ phase'[i] # "failed"
    <3>1. phase[i] = "writing" /\ InFlightOf(i) = {} /\ phase'[i] = "found"
          /\ rancid'[i] = Rancid(startTime[i])
      BY <2>2 DEF Find, TypeOK
    <3>2. OnRow(c) = {}
      BY <2>0, <3>1 DEF RowInv, OwnWrites, OnRow, InFlightOf
    <3>3. CASE c \in list[i]
      <4>1. Stored(i, c)
        BY <2>0, <3>1, <3>2, <3>3 DEF RowInv
      <4>2. c \notin rancid'[i]
        BY <3>1, <4>1 DEF Rancid, Stored, TypeOK
      <4> QED  BY <1>0, <2>0, <3>1, <3>2, <3>3, <4>1, <4>2 DEF RowInv, OwnWrites, OnRow, Stored
    <3>4. CASE c \notin list[i]
      <4>1. Untouched(i, c)
        BY <2>0, <3>1, <3>4 DEF RowInv
      <4>2. c \in rancid'[i] \/ row[c].stock = Absent
        BY <3>1, <4>1 DEF Rancid, Untouched
      <4> QED  BY <1>0, <2>0, <3>1, <3>4, <4>1, <4>2 DEF RowInv, OwnWrites, OnRow, Untouched
    <3> QED  BY <3>3, <3>4
  <2>3. CASE Finish(i)
    <3>1. phase[i] = "clearing" /\ InFlightOf(i) = {} /\ phase'[i] = "done"
      BY <2>3 DEF Finish, TypeOK
    <3>2. OnRow(c) = {}
      BY <2>0, <3>1 DEF RowInv, OwnWrites, OnRow, InFlightOf
    <3> QED  BY <1>0, <2>0, <3>1, <3>2 DEF RowInv, OwnWrites, OnRow
  <2> QED  BY <2>1, <2>2, <2>3 DEF Break, TypeOK
<1>3. ClearInv'
  <2>1. \A j \in Import : phase[j] \in {"clearing", "failed"} /\ phase'[j] \notin {"clearing", "failed"}
           => InFlightOf(j) = {}
    BY DEF Break, Find, Finish, TypeOK
  <2> QED  BY <1>0, <2>1 DEF ClearInv, InFlightOf
<1>4. ClearsComeLast'
  BY <1>0 DEF ClearsComeLast
<1> QED  BY <1>1, <1>2, <1>3, <1>4

\* An import writes its list.
LEMMA ParseIsSound == ASSUME IInv, NEW i \in Import, Parse(i) PROVE IInv'
<1> USE DEF IInv
<1>0. /\ phase[i] = "starting" /\ i \in Writer
      /\ UNCHANGED <<now, row, startTime, rancid, stored>>
  BY DEF Parse, Writer
<1>1. PICK codes \in SUBSET Code, broken \in BOOLEAN :
          /\ Launch(i, codes, i)
          /\ Disturb(i, codes)
          /\ list' = [list EXCEPT ![i] = codes]
          /\ phase' = [phase EXCEPT ![i] = IF broken THEN "failed" ELSE "writing"]
  BY DEF Parse
<1>2. /\ disturbed'[i] = disturbed[i] /\ list'[i] = codes
      /\ phase'[i] \in {"writing", "failed"}
      /\ \A j \in Import \ {i} : phase'[j] = phase[j] /\ list'[j] = list[j]
  BY <1>1 DEF Disturb, TypeOK
<1>3. TypeOK' /\ TimeInv' /\ AnsweredInv'
  BY <1>0, <1>1 DEF TypeOK, Phase, TimeInv, AnsweredInv, InFlightOf, Launch, Launched, Disturb, Write, Writer
<1>4. RowsInv'
  <2> SUFFICES ASSUME NEW j \in Import, phase'[j] # "idle", NEW c \in Code \ disturbed'[j]
               PROVE  RowInv(j, c)'
    BY DEF RowsInv
  <2>1. CASE j = i
    <3>1. Untouched(i, c)
      BY <1>0, <1>2, <2>1 DEF RowsInv, RowInv
    <3>2. OnRow(c)' = IF c \in codes THEN {[by |-> i, code |-> c, stock |-> i, at |-> now]} ELSE {}
      BY <1>1, <3>1 DEF Untouched, OnRow, Launch, Launched
    <3>3. startTime[i] <= now /\ startTime'[i] = startTime[i] /\ row' = row
      BY <1>0 DEF TimeInv
    <3>4. CASE c \in codes
      <4>1. \E w \in OnRow(c)' : w.stock = i
        <5> DEFINE v == [by |-> i, code |-> c, stock |-> i, at |-> now]
        <5>1. v \in OnRow(c)' /\ v.stock = i
          BY <3>2, <3>4
        <5> HIDE DEF v
        <5> QED  BY <5>1
      <4>2. OwnWrites(i, c)'
        BY <1>2, <2>1, <3>2, <3>3, <3>4 DEF OwnWrites, TypeOK
      <4> QED  BY <1>2, <2>1, <3>4, <4>1, <4>2 DEF RowInv
    <3>5. CASE c \notin codes
      BY <1>2, <2>1, <3>1, <3>2, <3>3, <3>5 DEF RowInv, OwnWrites, Untouched
    <3> QED  BY <3>4, <3>5
  <2>2. CASE j # i
    BY <1>0, <1>1, <1>2, <2>2, LaunchKeepsOthers
  <2> QED  BY <2>1, <2>2
<1>5. \A w \in inFlight' : w.stock = Empty => w \in inFlight /\ w.by # i
  BY <1>0, <1>1, StockFacts DEF Launch, Launched, ClearInv
<1>6. ClearInv'
  <2> SUFFICES ASSUME NEW w \in inFlight', w.stock = Empty
               PROVE  /\ w.by \in Import /\ phase'[w.by] \in {"clearing", "failed"}
                      /\ \A v \in inFlight' : v.by = w.by => v.stock \in {Empty, Kept}
    BY DEF ClearInv
  <2>1. \A v \in inFlight' : v.by # i => v \in inFlight
    BY <1>1 DEF Launch, Launched
  <2> QED  BY <1>2, <1>5, <2>1 DEF ClearInv
<1>7. ClearsComeLast'
  <2> SUFFICES ASSUME NEW w \in inFlight', w.stock = Empty, NEW c \in list'[w.by] \ disturbed'[w.by]
               PROVE  row'[c].stock = w.by
    BY DEF ClearsComeLast
  <2>1. w \in inFlight /\ w.by \in Import /\ w.by # i
    BY <1>5 DEF ClearInv
  <2>2. list'[w.by] = list[w.by] /\ disturbed[w.by] \subseteq disturbed'[w.by]
    BY <1>1, <1>2, <2>1 DEF Disturb, TypeOK
  <2> QED  BY <1>0, <2>1, <2>2 DEF ClearsComeLast
<1> QED  BY <1>3, <1>4, <1>6, <1>7

\* An import empties the rows it has found.
LEMMA ClearIsSound == ASSUME IInv, NEW i \in Import, Clear(i) PROVE IInv'
<1> USE DEF IInv
<1>0. /\ phase[i] = "found" /\ i \in Writer /\ phase' = [phase EXCEPT ![i] = "clearing"]
      /\ Launch(i, rancid[i], Empty) /\ Disturb(i, rancid[i]) /\ rancid[i] \in SUBSET Code
      /\ UNCHANGED <<now, row, startTime, list, rancid, stored>>
  BY DEF Clear, Writer, TypeOK
<1>1. /\ disturbed'[i] = disturbed[i] /\ phase'[i] = "clearing"
      /\ \A j \in Import \ {i} : phase'[j] = phase[j]
  BY <1>0 DEF Disturb, TypeOK
<1>2. TypeOK' /\ TimeInv' /\ AnsweredInv'
  BY <1>0 DEF TypeOK, Phase, TimeInv, AnsweredInv, InFlightOf, Launch, Launched, Disturb, Write, Writer
<1>3. RowsInv'
  <2> SUFFICES ASSUME NEW j \in Import, phase'[j] # "idle", NEW c \in Code \ disturbed'[j]
               PROVE  RowInv(j, c)'
    BY DEF RowsInv
  <2>1. CASE j = i
    <3>1. RowInv(i, c)
      BY <1>0, <1>1, <2>1 DEF RowsInv
    <3>2. OnRow(c) = {}
      BY <1>0, <3>1 DEF RowInv, Untouched
    <3>3. OnRow(c)' = IF c \in rancid[i] THEN {[by |-> i, code |-> c, stock |-> Empty, at |-> now]} ELSE {}
      BY <1>0, <3>2 DEF OnRow, Launch, Launched
    <3>4. startTime[i] <= now
      BY DEF TimeInv
    <3>5. CASE c \in list[i]
      BY <1>0, <1>1, <2>1, <3>1, <3>3, <3>5 DEF RowInv, OwnWrites, Stored
    <3>6. CASE c \notin list[i] /\ c \in rancid[i]
      <4>1. \E w \in OnRow(c)' : w.stock = Empty
        <5> DEFINE v == [by |-> i, code |-> c, stock |-> Empty, at |-> now]
        <5>1. v \in OnRow(c)' /\ v.stock = Empty
          BY <3>3, <3>6
        <5> HIDE DEF v
        <5> QED  BY <5>1
      <4>2. OwnWrites(i, c)'
        BY <1>0, <3>3, <3>4, <3>6 DEF OwnWrites, TypeOK
      <4> QED  BY <1>0, <1>1, <2>1, <3>6, <4>1, <4>2 DEF RowInv
    <3>7. CASE c \notin list[i] /\ c \notin rancid[i]
      BY <1>0, <1>1, <2>1, <3>1, <3>3, <3>7 DEF RowInv, OwnWrites
    <3> QED  BY <3>5, <3>6, <3>7
  <2>2. CASE j # i
    BY <1>0, <1>1, <2>2, LaunchKeepsOthers
  <2> QED  BY <2>1, <2>2
<1>4. /\ \A w \in inFlight' : w \in inFlight \/ (w.by = i /\ w.stock = Empty)
      /\ InFlightOf(i) = {}
  BY <1>0 DEF Launch, Launched, AnsweredInv
<1>5. ClearInv'
  <2> SUFFICES ASSUME NEW w \in inFlight', w.stock = Empty
               PROVE  /\ w.by \in Import /\ phase'[w.by] \in {"clearing", "failed"}
                      /\ \A v \in inFlight' : v.by = w.by => v.stock \in {Empty, Kept}
    BY DEF ClearInv
  <2>1. CASE w.by = i
    BY <1>1, <1>4, <2>1 DEF InFlightOf
  <2>2. CASE w.by # i
    BY <1>1, <1>4, <2>2 DEF ClearInv
  <2> QED  BY <2>1, <2>2
<1>6. ClearsComeLast'
  <2> SUFFICES ASSUME NEW w \in inFlight', w.stock = Empty, NEW c \in list[w.by] \ disturbed'[w.by]
               PROVE  row[c].stock = w.by
    BY <1>0 DEF ClearsComeLast
  <2>1. CASE w.by = i
    <3>1. c \in Code /\ c \in list[i] /\ RowInv(i, c)
      BY <1>0, <1>1, <2>1 DEF RowsInv, TypeOK
    <3> QED  BY <1>0, <2>1, <3>1 DEF RowInv, Stored
  <2>2. CASE w.by # i
    <3>1. w \in inFlight /\ w.by \in Import
      BY <1>4, <2>2 DEF ClearInv
    <3>2. disturbed[w.by] \subseteq disturbed'[w.by]
      BY <1>0, <3>1 DEF Disturb
    <3> QED  BY <3>1, <3>2 DEF ClearsComeLast
  <2> QED  BY <2>1, <2>2
<1> QED  BY <1>2, <1>3, <1>5, <1>6

\* Another writer launches a write: a keys job stores a good, a client binds one.
LEMMA OtherLaunchIsSound ==
  ASSUME IInv, NEW by \in Writer \ Import, NEW c \in Code, NEW stock, stock # Empty,
         Launch(by, {c}, stock), Disturb(by, {c}), TypeOK',
         UNCHANGED <<now, row, phase, startTime, list, rancid>>
  PROVE  IInv'
<1> USE DEF IInv
<1>1. TimeInv' /\ AnsweredInv'
  BY DEF TimeInv, AnsweredInv, InFlightOf, Launch, Launched
<1>2. RowsInv'
  BY LaunchKeepsOthers DEF RowsInv
<1>3. \A w \in inFlight' : w \in inFlight \/ (w.by = by /\ w.stock = stock)
  BY DEF Launch, Launched
<1>4. ClearInv'
  BY <1>3 DEF ClearInv
<1>5. ClearsComeLast'
  BY <1>3 DEF ClearsComeLast, ClearInv, Disturb
<1> QED  BY <1>1, <1>2, <1>4, <1>5

LEMMA KeysJobIsSound == ASSUME IInv, NEW s \in Search, KeysJob(s) PROVE IInv'
<1>1. s \in Writer \ Import /\ s # Empty
  BY StockFacts, ImportAssumption DEF Writer
<1>2. PICK c \in Code : Launch(s, {c}, s) /\ Disturb(s, {c})
  BY DEF KeysJob
<1>3. UNCHANGED <<now, row, phase, startTime, list, rancid>> /\ stored' = stored \union {s}
  BY DEF KeysJob, importVars
<1>4. TypeOK'
  BY <1>1, <1>2, <1>3 DEF IInv, TypeOK, Launch, Launched, Disturb, Write
<1> QED  BY <1>1, <1>2, <1>3, <1>4, OtherLaunchIsSound

LEMMA SetGoodIsSound == ASSUME IInv, NEW b \in Binding, SetGood(b) PROVE IInv'
<1>1. b \in Writer \ Import /\ Kept # Empty
  BY StockFacts, ImportAssumption DEF Writer
<1>2. PICK c \in Code : Launch(b, {c}, Kept) /\ Disturb(b, {c})
  BY DEF SetGood, SaveBinding
<1>3. UNCHANGED <<now, row, phase, startTime, list, rancid>> /\ stored' = stored \union {b}
  BY DEF SetGood, importVars
<1>4. TypeOK'
  BY <1>1, <1>2, <1>3 DEF IInv, TypeOK, Launch, Launched, Disturb, Write
<1> QED  BY <1>1, <1>2, <1>3, <1>4, OtherLaunchIsSound

\* The cleanup writes one row, which all imports that have started take for disturbed.
LEMMA ClearOldGoodsIsSound == IInv /\ ClearOldGoods => IInv'
<1> SUFFICES ASSUME IInv, ClearOldGoods PROVE IInv'
  OBVIOUS
<1> USE DEF IInv
<1>1. PICK d \in Code : ClearOldGood(d) /\ Disturb(Swept, {d})
  BY DEF ClearOldGoods
<1>2. PICK t \in 1 .. now :
         row' = [row EXCEPT ![d] =
                    [stock |-> IF @.stock = Empty THEN Empty ELSE Swept, updatedAt |-> t]]
  BY <1>1 DEF ClearOldGood
<1>3. UNCHANGED <<now, inFlight, phase, startTime, list, rancid, stored>>
  BY DEF ClearOldGoods, importVars
<1>4. /\ \A c \in Code : c # d => row'[c] = row[c]
      /\ row' \in [Code -> [stock : Stock, updatedAt : Nat]]
  BY <1>2 DEF TypeOK, Stock
<1>5. \A i \in Import : phase[i] # "idle" => disturbed'[i] = disturbed[i] \union {d}
  BY <1>1, ImportAssumption, StockAssumption DEF Disturb
<1>6. TypeOK' /\ TimeInv' /\ AnsweredInv'
  BY <1>1, <1>3, <1>4 DEF TypeOK, TimeInv, AnsweredInv, InFlightOf, Disturb
<1>7. RowsInv'
  <2> SUFFICES ASSUME NEW i \in Import, phase[i] # "idle", NEW c \in Code \ disturbed'[i]
               PROVE  RowInv(i, c)'
    BY <1>3 DEF RowsInv
  <2>1. c # d /\ row'[c] = row[c] /\ RowInv(i, c)
    BY <1>4, <1>5 DEF RowsInv
  <2>2. OnRow(c)' = OnRow(c)
    BY <1>3 DEF OnRow
  <2> QED  BY <1>3, <2>1, <2>2 DEF RowInv, OwnWrites, Untouched, Stored
<1>8. ClearInv'
  BY <1>3 DEF ClearInv
<1>9. ClearsComeLast'
  <2> SUFFICES ASSUME NEW w \in inFlight, w.stock = Empty, NEW c \in list[w.by] \ disturbed'[w.by]
               PROVE  row'[c].stock = w.by
    BY <1>3 DEF ClearsComeLast
  <2>1. w.by \in Import /\ phase[w.by] # "idle"
    BY DEF ClearInv
  <2>2. c # d /\ c \in list[w.by] \ disturbed[w.by] /\ c \in Code
    BY <1>5, <2>1 DEF TypeOK
  <2> QED  BY <1>4, <2>2 DEF ClearsComeLast
<1> QED  BY <1>6, <1>7, <1>8, <1>9

\* MongoDB carries out a write.
LEMMA WrittenIsSound == ASSUME IInv, NEW w \in inFlight, Written(w) PROVE IInv'
<1> USE DEF IInv
<1> DEFINE kept == SetParameters(w)
<1>0. /\ UNCHANGED <<now, phase, startTime, list, rancid, stored, disturbed>>
      /\ w.code \in Code /\ w.by \in Writer /\ w.at \in Nat /\ w.stock \in Import \union Search \union {Empty, Kept}
  BY DEF Written, importVars, TypeOK, Write
<1>1. /\ \A c \in Code \ {w.code} : row'[c] = row[c]
      /\ row'[w.code].updatedAt = w.at
      /\ row'[w.code].stock = IF w.stock = Kept THEN row[w.code].stock ELSE w.stock
  BY <1>0 DEF Written, CreateOrUpdate, TypeOK
<1>2. inFlight' = inFlight \ {w} \/ (w.stock # Kept /\ inFlight' = (inFlight \ {w}) \union {kept})
  BY DEF Written, CreateOrUpdate
<1>3. kept.by = w.by /\ kept.code = w.code /\ kept.stock = Kept /\ kept.at = now
  BY DEF TypeOK, SetParameters
<1>4. TypeOK'
  <2>1. row' \in [Code -> [stock : Stock, updatedAt : Nat]]
    BY <1>0, StockFacts DEF Written, CreateOrUpdate, TypeOK, Stock
  <2>2. inFlight' \subseteq Write
    <3>1. kept \in Write
      BY <1>0 DEF TypeOK, SetParameters, Write
    <3> QED  BY <1>2, <3>1 DEF TypeOK
  <2> QED  BY <1>0, <2>1, <2>2 DEF TypeOK
<1> HIDE DEF kept
<1>5. TimeInv' /\ AnsweredInv'
  BY <1>0, <1>2, <1>3 DEF TimeInv, AnsweredInv, InFlightOf
<1>6. RowsInv'
  <2> SUFFICES ASSUME NEW i \in Import, phase[i] # "idle", NEW c \in Code \ disturbed[i]
               PROVE  RowInv(i, c)'
    BY <1>0 DEF RowsInv
  <2>0. RowInv(i, c)
    BY DEF RowsInv
  <2>1. CASE c # w.code
    <3>1. OnRow(c)' = OnRow(c) /\ row'[c] = row[c]
      BY <1>1, <1>2, <1>3, <2>1 DEF OnRow
    <3> QED  BY <1>0, <2>0, <3>1 DEF RowInv, OwnWrites, Untouched, Stored
  <2>2. CASE c = w.code
    <3>1. /\ w \in OnRow(c) /\ w.by = i /\ w.at >= startTime[i]
          /\ w.stock \in IF c \in list[i] THEN {i, Kept} ELSE {Empty, Kept}
      BY <2>0, <2>2 DEF OnRow, RowInv, OwnWrites
    <3>2. phase[i] \in {"writing", "clearing", "failed"}
      BY <3>1 DEF AnsweredInv, InFlightOf, OnRow, TypeOK, Phase
    <3>3. OwnWrites(i, c)'
      <4>1. \A v \in OnRow(c)' : v \in OnRow(c) \/ v = kept
        BY <1>2 DEF OnRow
      <4> QED  BY <1>0, <1>3, <2>0, <3>1, <4>1 DEF RowInv, OwnWrites, TimeInv, TypeOK
    <3>4. CASE c \in list[i]
      <4>1. w.stock \in {i, Kept} /\ phase[i] # "clearing"
        BY <2>0, <3>1, <3>4 DEF RowInv
      <4>2. phase[i] = "writing" => Stored(i, c)' \/ \E v \in OnRow(c)' : v.stock = i
        <5>1. CASE w.stock = i
          BY <1>0, <1>1, <2>2, <3>1, <5>1, StockFacts DEF Stored
        <5>2. CASE w.stock = Kept
          <6>1. inFlight' = inFlight \ {w} /\ i # Kept
            BY <1>0, <1>2, <3>1, <5>2, StockFacts
          <6>2. CASE Stored(i, c)
            BY <1>0, <1>1, <2>2, <3>1, <5>2, <6>2 DEF Stored
          <6>3. CASE \E v \in OnRow(c) : v.stock = i
            BY <5>2, <6>1, <6>3 DEF OnRow
          <6> QED  BY <2>0, <3>4, <6>2, <6>3 DEF RowInv
        <5> QED  BY <4>1, <5>1, <5>2
      <4> QED  BY <1>0, <3>2, <3>3, <3>4, <4>1, <4>2 DEF RowInv
    <3>5. CASE c \notin list[i]
      <4>1. w.stock \in {Empty, Kept} /\ phase[i] # "writing"
        BY <2>0, <3>1, <3>5 DEF RowInv, Untouched
      <4>2. phase[i] = "clearing" => row'[c].stock \in {Absent, Empty} \/ \E v \in OnRow(c)' : v.stock = Empty
        <5>1. CASE w.stock = Empty
          BY <1>1, <2>2, <5>1, StockFacts
        <5>2. CASE w.stock = Kept
          <6>1. inFlight' = inFlight \ {w} /\ Empty # Kept
            BY <1>2, <5>2, StockFacts
          <6> QED  BY <1>1, <2>0, <2>2, <3>5, <5>2, <6>1 DEF RowInv, OnRow
        <5> QED  BY <4>1, <5>1, <5>2
      <4> QED  BY <1>0, <3>2, <3>3, <3>5, <4>1, <4>2 DEF RowInv
    <3> QED  BY <3>4, <3>5
  <2> QED  BY <2>1, <2>2
<1>7. ClearInv'
  <2>1. \A v \in inFlight' : v \in inFlight \/ (v.by = w.by /\ v.stock = Kept)
    BY <1>2, <1>3
  <2> QED  BY <1>0, <2>1, StockFacts DEF ClearInv
<1>8. ClearsComeLast'
  <2> SUFFICES ASSUME NEW v \in inFlight', v.stock = Empty, NEW c \in list[v.by] \ disturbed[v.by]
               PROVE  row'[c].stock = v.by
    BY <1>0 DEF ClearsComeLast
  <2>1. v \in inFlight /\ v.by \in Import /\ phase[v.by] \in {"clearing", "failed"}
    BY <1>2, <1>3, StockFacts DEF ClearInv
  <2>2. row[c].stock = v.by /\ c \in Code
    BY <2>1 DEF ClearsComeLast, TypeOK
  <2>3. CASE c = w.code
    <3>1. RowInv(v.by, c)
      BY <2>1, <2>2 DEF RowsInv
    <3>2. w.stock \in {v.by, Kept}
      BY <2>3, <3>1 DEF RowInv, OwnWrites, OnRow
    <3> QED  BY <1>1, <2>2, <2>3, <3>2
  <2>4. CASE c # w.code
    BY <1>1, <2>2, <2>4
  <2> QED  BY <2>3, <2>4
<1> QED  BY <1>4, <1>5, <1>6, <1>7, <1>8

\* MongoDB rejects a write.
LEMMA RejectedIsSound == ASSUME IInv, NEW w \in inFlight, Rejected(w) PROVE IInv'
<1> USE DEF IInv
<1>0. /\ UNCHANGED <<now, row, startTime, list, rancid, stored, disturbed>>
      /\ inFlight' = inFlight \ {w}
      /\ phase' = IF w.by \in Import THEN [phase EXCEPT ![w.by] = "failed"] ELSE phase
  BY DEF Rejected
<1>1. \A i \in Import : phase'[i] = IF i = w.by THEN "failed" ELSE phase[i]
  BY <1>0 DEF TypeOK
<1>2. TypeOK' /\ TimeInv' /\ AnsweredInv'
  BY <1>0, <1>1 DEF TypeOK, Phase, TimeInv, AnsweredInv, InFlightOf
<1>3. RowsInv'
  <2> SUFFICES ASSUME NEW i \in Import, phase'[i] # "idle", NEW c \in Code \ disturbed[i]
               PROVE  RowInv(i, c)'
    BY <1>0 DEF RowsInv
  <2>1. CASE phase[i] = "idle" /\ i = w.by
    \* An import that has not started has launched nothing.
    BY <2>1 DEF AnsweredInv, InFlightOf
  <2>2. CASE phase[i] # "idle" /\ i = w.by
    <3>1. RowInv(i, c)
      BY <2>2 DEF RowsInv
    <3> QED  BY <1>0, <1>1, <2>2, <3>1 DEF RowInv, OwnWrites, OnRow
  <2>3. CASE i # w.by
    <3>1. phase'[i] = phase[i] /\ RowInv(i, c)
      BY <1>1, <2>3 DEF RowsInv
    <3>2. OnRow(c)' = OnRow(c)
      BY <1>0, <2>3, <3>1 DEF RowInv, OwnWrites, OnRow
    <3> QED  BY <1>0, <3>1, <3>2 DEF RowInv, OwnWrites, Untouched, Stored
  <2> QED  BY <2>1, <2>2, <2>3
<1>4. ClearInv' /\ ClearsComeLast'
  BY <1>0, <1>1 DEF ClearInv, ClearsComeLast
<1> QED  BY <1>2, <1>3, <1>4

LEMMA NextIsSound == IInv /\ [Next]_vars => IInv'
<1> SUFFICES ASSUME IInv, [Next]_vars PROVE IInv'
  OBVIOUS
<1>1. ASSUME NEW i \in Import, ImportStep(i) PROVE IInv'
  BY <1>1, StartIsSound, MoveIsSound, ParseIsSound, ClearIsSound DEF ImportStep
<1>2. /\ \A s \in Search : KeysJob(s) => IInv'
      /\ \A b \in Binding : SetGood(b) => IInv'
      /\ ClearOldGoods => IInv'
  BY KeysJobIsSound, SetGoodIsSound, ClearOldGoodsIsSound
<1>3. ASSUME NEW w \in inFlight, Written(w) \/ Rejected(w) PROVE IInv'
  BY <1>3, WrittenIsSound, RejectedIsSound
<1>4. CASE Time \/ UNCHANGED vars
  <2>1. /\ UNCHANGED <<row, inFlight, phase, startTime, list, rancid, stored, disturbed>>
        /\ now' \in Nat /\ now' >= now
    BY <1>4 DEF Time, Tick, vars, importVars, IInv, TypeOK
  <2>2. TypeOK' /\ TimeInv' /\ AnsweredInv'
    BY <2>1 DEF IInv, TypeOK, TimeInv, AnsweredInv, InFlightOf
  <2>3. RowsInv'
    <3> SUFFICES ASSUME NEW i \in Import, phase[i] # "idle", NEW c \in Code \ disturbed[i]
                 PROVE  RowInv(i, c)'
      BY <2>1 DEF RowsInv
    <3>1. RowInv(i, c)
      BY DEF IInv, RowsInv
    <3>2. OnRow(c)' = OnRow(c)
      BY <2>1 DEF OnRow
    <3> QED  BY <2>1, <3>1, <3>2 DEF RowInv, OwnWrites, Untouched, Stored
  <2>4. ClearInv' /\ ClearsComeLast'
    BY <2>1 DEF IInv, ClearInv, ClearsComeLast
  <2> QED  BY <2>2, <2>3, <2>4 DEF IInv
<1> QED  BY <1>1, <1>2, <1>3, <1>4 DEF Next, Stopped

\* The invariant holds throughout.
THEOREM ImportInvariant == Spec => []IInv
<1>1. Init => IInv
  BY InitIsSound
<1>2. IInv /\ [Next]_vars => IInv'
  BY NextIsSound
<1> QED  BY <1>1, <1>2, PTL DEF Spec

\* The variables keep their types.
THEOREM TypeCorrect == Spec => []TypeOK
<1>1. IInv => TypeOK
  BY DEF IInv
<1> QED  BY <1>1, ImportInvariant, PTL

\* An import that is done has replaced the stock of its supplier by its list, in all
\* rows that nobody else wrote meanwhile.
THEOREM ImportsReplaceStock == Spec => []ImportReplacesStock
<1>1. IInv => ImportReplacesStock
  BY DEF IInv, RowsInv, RowInv, ImportReplacesStock, ReplacedBy
<1> QED  BY <1>1, ImportInvariant, PTL

\* No import empties a row before the goods of its list are stored.
THEOREM NothingIsClearedEarly == Spec => []ClearsComeLast
<1>1. IInv => ClearsComeLast
  BY DEF IInv
<1> QED  BY <1>1, ImportInvariant, PTL
=============================================================================
