---------------------------- MODULE ScheduleImport ----------------------------
(***************************************************************************)
(* Imports of the price lists of one supplier (schedule.parser.ts and the  *)
(* parsers that extend it, started by cron or by a parseForDb job), beside *)
(* the keys jobs that store what searches of this supplier returned, the   *)
(* clients that bind its goods and the cleanup at midnight.                *)
(*                                                                         *)
(* An import remembers when it started, writes every good of its list and  *)
(* empties the warehouses of the rows that are older than its start.       *)
(***************************************************************************)
EXTENDS SupplierStock

CONSTANTS
    Import,         \* executions, each of a parser object of its own
    Search,         \* goods that keys jobs store
    Binding,        \* calls of setGood that give a good its first id of a client
    Before          \* the stock of earlier imports

ASSUME ImportAssumption ==
    /\ Import \intersect (Search \union Binding) = {}
    /\ (Import \union Search) \intersect {Absent, Empty, Kept, Swept, Before} = {}
    /\ Kept \notin {Absent, Empty}

VARIABLES
    phase,          \* where each import is; "failed" is reported by mail
    startTime,
    list,           \* the codes of the price list the import has read
    rancid,         \* what find() returned to the import
    stored,         \* the searches and bindings whose writes have been launched
    disturbed       \* history: rows other writers wrote since the tick of the start

importVars == <<phase, startTime, list, rancid>>
vars == <<now, row, inFlight, importVars, stored, disturbed>>

Phase == {"idle", "starting", "writing", "found", "clearing", "done", "failed"}
Writer == Import \union Search \union Binding
Stock == Import \union Search \union {Absent, Empty, Swept, Before}
Write == [by : Writer, code : Code, stock : Import \union Search \union {Empty, Kept}, at : Nat]

TypeOK ==
    /\ now \in Nat
    /\ row \in [Code -> [stock : Stock, updatedAt : Nat]]
    /\ inFlight \subseteq Write
    /\ phase \in [Import -> Phase]
    /\ startTime \in [Import -> Nat]
    /\ list \in [Import -> SUBSET Code] /\ rancid \in [Import -> SUBSET Code]
    /\ stored \subseteq Search \union Binding
    /\ disturbed \in [Import -> SUBSET Code]

Init ==
    /\ now = 1
    /\ row \in [Code -> [stock : {Absent, Empty, Before}, updatedAt : {0}]]
    /\ inFlight = {}
    /\ phase = [i \in Import |-> "idle"]
    /\ startTime = [i \in Import |-> 0]
    /\ list = [i \in Import |-> {}]
    /\ rancid = [i \in Import |-> {}]
    /\ stored = {}
    /\ disturbed = [i \in Import |-> {}]

\* Writes of one writer disturb the imports of the others that have started.
Disturb(by, codes) ==
    disturbed' = [j \in Import |->
        IF j # by /\ phase[j] # "idle" THEN disturbed[j] \union codes ELSE disturbed[j]]

-----------------------------------------------------------------------------
\* start() takes the time before it awaits supplier, currency and unit.
Start(i) ==
    /\ phase[i] = "idle"
    /\ phase' = [phase EXCEPT ![i] = "starting"]
    /\ startTime' = [startTime EXCEPT ![i] = now]
    /\ disturbed' = [disturbed EXCEPT ![i] =
                        {c \in Code : row[c].updatedAt >= now \/ \E w \in inFlight : w.code = c}]
    /\ UNCHANGED <<now, row, inFlight, list, rancid, stored>>

\* The services, the vault, the download or the reading of the file fail.
Break(i) ==
    /\ phase[i] = "starting"
    /\ phase' = [phase EXCEPT ![i] = "failed"]
    /\ UNCHANGED <<now, row, inFlight, startTime, list, rancid, stored, disturbed>>

\* parse() launches all its writes at once; a row it cannot read breaks it, and
\* the writes launched before go on.
Parse(i) ==
    /\ phase[i] = "starting"
    /\ \E codes \in SUBSET Code, broken \in BOOLEAN :
          /\ Launch(i, codes, i)
          /\ Disturb(i, codes)
          /\ list' = [list EXCEPT ![i] = codes]
          /\ phase' = [phase EXCEPT ![i] = IF broken THEN "failed" ELSE "writing"]
    /\ UNCHANGED <<now, row, startTime, rancid, stored>>

\* Fault: finish() does not wait for the writes.
FindAtOnce(i) ==
    /\ phase[i] = "writing"
    /\ phase' = [phase EXCEPT ![i] = "found"]
    /\ rancid' = [rancid EXCEPT ![i] = Rancid(startTime[i])]
    /\ UNCHANGED <<now, row, inFlight, startTime, list, stored, disturbed>>

\* finish() reads the rows that are older than the start.
Find(i) ==
    /\ phase[i] = "writing" /\ InFlightOf(i) = {}
    /\ \/ /\ phase' = [phase EXCEPT ![i] = "found"]
          /\ rancid' = [rancid EXCEPT ![i] = Rancid(startTime[i])]
       \/ /\ phase' = [phase EXCEPT ![i] = "failed"]
          /\ UNCHANGED rancid
    /\ UNCHANGED <<now, row, inFlight, startTime, list, stored, disturbed>>

\* ... and empties them, whatever has happened to them since.
Clear(i) ==
    /\ phase[i] = "found"
    /\ Launch(i, rancid[i], Empty)
    /\ Disturb(i, rancid[i])
    /\ phase' = [phase EXCEPT ![i] = "clearing"]
    /\ UNCHANGED <<now, row, startTime, list, rancid, stored>>

Finish(i) ==
    /\ phase[i] = "clearing" /\ InFlightOf(i) = {}
    /\ phase' = [phase EXCEPT ![i] = "done"]
    /\ UNCHANGED <<now, row, inFlight, startTime, list, rancid, stored, disturbed>>

\* A keys job stores a good of this supplier.
KeysJob(s) ==
    /\ s \notin stored
    /\ \E c \in Code : Launch(s, {c}, s) /\ Disturb(s, {c})
    /\ stored' = stored \union {s}
    /\ UNCHANGED <<now, row, importVars>>

\* A client binds a good of this supplier.
SetGood(b) ==
    /\ b \notin stored
    /\ \E c \in Code : SaveBinding(b, c) /\ Disturb(b, {c})
    /\ stored' = stored \union {b}
    /\ UNCHANGED <<now, row, importVars>>

ClearOldGoods ==
    /\ \E c \in Code : ClearOldGood(c) /\ Disturb(Swept, {c})
    /\ UNCHANGED <<now, inFlight, importVars, stored>>

\* MongoDB carries out a write, or rejects it: Promise.all of its import rejects.
Written(w) ==
    /\ CreateOrUpdate(w)
    /\ UNCHANGED <<now, importVars, stored, disturbed>>

Rejected(w) ==
    /\ inFlight' = inFlight \ {w}
    /\ phase' = IF w.by \in Import THEN [phase EXCEPT ![w.by] = "failed"] ELSE phase
    /\ UNCHANGED <<now, row, startTime, list, rancid, stored, disturbed>>

Time == Tick /\ UNCHANGED <<row, inFlight, importVars, stored, disturbed>>

Stopped ==
    /\ inFlight = {} /\ \A i \in Import : phase[i] \in {"done", "failed"}
    /\ UNCHANGED vars

ImportStep(i) == Start(i) \/ Break(i) \/ Parse(i) \/ Find(i) \/ Clear(i) \/ Finish(i)

Next ==
    \/ \E i \in Import : ImportStep(i)
    \/ \E s \in Search : KeysJob(s)
    \/ \E b \in Binding : SetGood(b)
    \/ ClearOldGoods
    \/ \E w \in inFlight : Written(w) \/ Rejected(w)
    \/ Time
    \/ Stopped

Spec == Init /\ [][Next]_vars

-----------------------------------------------------------------------------
\* An import that is done has replaced the supplier's stock by its list: in the
\* rows nobody else wrote meanwhile the goods of the list have its stock, and no
\* other good has any.
ReplacedBy(i) == \A c \in Code \ disturbed[i] :
    IF c \in list[i] THEN row[c].stock = i ELSE row[c].stock \in {Absent, Empty}

ImportReplacesStock == \A i \in Import : phase[i] = "done" => ReplacedBy(i)

\* Stock is emptied only for a list that is in: while an import empties rows, the
\* goods of its list have the stock it gave them.
ClearsComeLast ==
    \A w \in inFlight : w.stock = Empty =>
        \A c \in list[w.by] \ disturbed[w.by] : row[c].stock = w.by

-----------------------------------------------------------------------------
(***************************************************************************)
(* The inductive invariant: what an import that has started knows of a row *)
(* nobody else has written since, and of the writes that are in flight.    *)
(***************************************************************************)
OnRow(c) == {w \in inFlight : w.code = c}

\* Only the import itself writes the row, the stock of its list or none.
OwnWrites(i, c) == \A w \in OnRow(c) :
    /\ w.by = i /\ w.at >= startTime[i]
    /\ w.stock \in IF c \in list[i] THEN {i, Kept} ELSE {Empty, Kept}

Untouched(i, c) == OnRow(c) = {} /\ row[c].updatedAt < startTime[i]
Stored(i, c) == row[c].stock = i /\ row[c].updatedAt >= startTime[i]

RowInv(i, c) ==
    /\ OwnWrites(i, c)
    /\ phase[i] = "starting" => Untouched(i, c)
    /\ phase[i] = "writing" =>
          IF c \in list[i] THEN Stored(i, c) \/ \E w \in OnRow(c) : w.stock = i ELSE Untouched(i, c)
    /\ phase[i] = "found" =>
          IF c \in list[i] THEN OnRow(c) = {} /\ Stored(i, c) /\ c \notin rancid[i]
          ELSE Untouched(i, c) /\ (c \in rancid[i] \/ row[c].stock = Absent)
    /\ phase[i] \in {"clearing", "done"} =>
          IF c \in list[i] THEN OnRow(c) = {} /\ row[c].stock = i
          ELSE \/ row[c].stock \in {Absent, Empty}
               \/ phase[i] = "clearing" /\ \E w \in OnRow(c) : w.stock = Empty

RowsInv == \A i \in Import : phase[i] # "idle" => \A c \in Code \ disturbed[i] : RowInv(i, c)

\* An import that empties rows has no other stock in flight.
ClearInv == \A w \in inFlight : w.stock = Empty =>
    /\ w.by \in Import /\ phase[w.by] \in {"clearing", "failed"}
    /\ \A v \in inFlight : v.by = w.by => v.stock \in {Empty, Kept}

\* An import has writes in flight while it stores its list, while it empties rows,
\* and after it has failed.
AnsweredInv == \A i \in Import :
    phase[i] \in {"idle", "starting", "found", "done"} => InFlightOf(i) = {}

TimeInv == \A i \in Import : startTime[i] <= now

IInv == TypeOK /\ TimeInv /\ AnsweredInv /\ RowsInv /\ ClearInv /\ ClearsComeLast
=============================================================================
