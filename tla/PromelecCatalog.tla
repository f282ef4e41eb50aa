---------------------------- MODULE PromelecCatalog ----------------------------
(***************************************************************************)
(* The nightly import of the whole promelec catalogue                      *)
(* (promelec.catalog.parser.ts): it downloads the catalogue page by page   *)
(* into a temporary file, renames that to the snapshot, validates the      *)
(* snapshot, upserts it in batches, empties the older rows, and keeps a    *)
(* status file the shop reads.  The process may crash at any time; files   *)
(* and rows survive.                                                       *)
(*                                                                         *)
(* An item id is a positive number and the code of its good.               *)
(***************************************************************************)
EXTENDS SupplierStock, Sequences

CONSTANTS
    Run,            \* executions by cron or parseForDb
    Search,         \* goods that keys jobs store
    Binding,        \* calls of setGood that give a good its first id of a client
    Before,         \* the stock of earlier catalogues
    PageSize,       \* the supplier sends at most 100 rows
    MaxPages,       \* 10000
    MinTotal,       \* 100000
    StatusEvery,    \* the status is written every 10 pages ...
    ImportEvery,    \* ... and at multiples of 5000 rows in the database
    BatchSize,      \* 500
    Attempts,       \* 3
    MaxCrashes      \* bound

\* The first status of a download is written before it can be large enough.
ASSUME CatalogAssumption ==
    /\ Code \subseteq Nat \ {0}
    /\ {PageSize, MaxPages, MinTotal, StatusEvery, ImportEvery, BatchSize, Attempts} \subseteq Nat \ {0}
    /\ MaxCrashes \in Nat
    /\ MinTotal > (StatusEvery - 1) * PageSize
    /\ Run \intersect Search = {} /\ (Run \union Search) \intersect Binding = {}
    /\ (Run \union Search) \intersect {Absent, Empty, Kept, Swept, Before} = {}
    /\ Kept \notin {Absent, Empty} /\ Before \notin {Absent, Empty, Swept}

VARIABLES
    running,        \* PromelecCatalogParser.running
    pc,
    startTime,
    attempt, pages, cursor,     \* the loop of the download
    left,           \* rows of the snapshot the import has still to read
    imported,
    rancid,         \* what find() returned
    download,       \* promelec.jsonl.download
    target,         \* promelec.jsonl
    status,         \* promelec-status.json
    stored,         \* the searches and bindings whose writes have been launched
    boundAt,        \* history: when a row was given its first id, 0 before
    since,          \* history: the start of the import that completed the status
    crashes

loopVars == <<attempt, pages, cursor>>
importVars == <<left, imported, rancid>>
fileVars == <<download, target, status>>
historyVars == <<boundAt, since>>
stockVars == <<now, row, inFlight, stored, boundAt>>
vars == <<running, pc, startTime, loopVars, importVars, fileVars, stockVars, since, crashes>>

PC == {"idle", "refused", "starting", "page", "pause", "sleep", "validate", "batch", "bulk",
       "find", "found", "clearing", "done", "failed", "dead"}
Ended == {"refused", "done", "failed", "dead"}
Active(r) == pc[r] \notin Ended \union {"idle"}

StatusPhase == {"none", "downloading", "error", "database", "cleanup", "complete"}
Writer == Run \union Search \union Binding
Stock == Run \union Search \union {Absent, Empty, Swept, Before}
Write == [by : Writer, code : Code, stock : Run \union Search \union {Empty, Kept}, at : Nat]

Ids(file) == {file[k] : k \in 1 .. Len(file)}

TypeOK ==
    /\ running \in BOOLEAN
    /\ pc \in [Run -> PC]
    /\ {startTime, attempt, pages, cursor, imported} \subseteq Nat
    /\ left \in Seq(Code)
    /\ rancid \subseteq Code
    /\ download \in Seq(Code) /\ target \in Seq(Code)
    /\ status \in [completed : BOOLEAN, phase : StatusPhase]
    /\ now \in Nat
    /\ row \in [Code -> [stock : Stock, updatedAt : Nat]]
    /\ inFlight \subseteq Write
    /\ stored \subseteq Search \union Binding
    /\ boundAt \in [Code -> Nat] /\ since \in Nat
    /\ crashes \in Nat

\* The first night, or after a catalogue was imported.
Init ==
    /\ \/ target = <<>> /\ status = [completed |-> FALSE, phase |-> "none"]
       \/ /\ target \in [1 .. MinTotal -> Code] /\ \A k \in 2 .. MinTotal : target[k - 1] < target[k]
          /\ status = [completed |-> TRUE, phase |-> "complete"]
    /\ row = [c \in Code |->
                 [stock |-> IF c \in Ids(target) THEN Before ELSE Absent, updatedAt |-> 0]]
    /\ now = 1
    /\ inFlight = {} /\ stored = {} /\ crashes = 0
    /\ boundAt = [c \in Code |-> 0] /\ since = 1
    /\ running = FALSE
    /\ pc = [r \in Run |-> "idle"]
    /\ startTime = 0 /\ attempt = 0 /\ pages = 0 /\ cursor = 0
    /\ left = <<>> /\ imported = 0 /\ rancid = {}
    /\ download = <<>>

Goto(r, label) == pc' = [pc EXCEPT ![r] = label]

Report(completed, phase) == status' = [completed |-> completed, phase |-> phase]

-----------------------------------------------------------------------------
\* Between executions MongoDB answers the writes of the last one, and no write is
\* launched in the millisecond of a start before it.
Quiet ==
    /\ \A c \in Code : row[c].updatedAt < now
    /\ \A w \in inFlight : w.by \notin Run /\ w.at < now

Execute(r) ==
    /\ pc[r] = "idle" /\ Quiet
    /\ IF running THEN Goto(r, "refused") /\ UNCHANGED <<running, startTime>>
       ELSE /\ running' = TRUE
            /\ startTime' = now
            /\ Goto(r, "starting")
    /\ UNCHANGED <<loopVars, importVars, fileVars, stockVars, since, crashes>>

\* Fault: running is not reset when the execution throws.
FailRunning(r) == Goto(r, "failed") /\ UNCHANGED running

\* execute() of ScheduleParser catches and mails, its finally resets running.
Fail(r) == Goto(r, "failed") /\ running' = FALSE

\* The catch of the download reports the error and throws on.
FailDownload(r) == Fail(r) /\ Report(FALSE, "error") /\ UNCHANGED <<download, target>>

\* Services, vault or the temporary file fail before the try.
Break(r) ==
    /\ pc[r] = "starting"
    /\ Fail(r)
    /\ UNCHANGED <<startTime, loopVars, importVars, fileVars, stockVars, since, crashes>>

Open(r) ==
    /\ pc[r] = "starting"
    /\ Goto(r, "page")
    /\ download' = <<>>
    /\ attempt' = 0 /\ pages' = 0 /\ cursor' = 0
    /\ UNCHANGED <<running, startTime, importVars, target, status, stockVars, since, crashes>>

\* Fault: the attempts are not counted.
RequestRetried(r) ==
    /\ pc[r] = "page"
    /\ Goto(r, "pause")
    /\ UNCHANGED <<running, startTime, loopVars, importVars, fileVars, stockVars, since, crashes>>

\* A request fails or times out; the last attempt breaks the download.
RequestFails(r) ==
    /\ pc[r] = "page"
    /\ \/ /\ attempt + 1 < Attempts
          /\ attempt' = attempt + 1
          /\ Goto(r, "pause")
          /\ UNCHANGED <<running, fileVars>>
       \/ /\ attempt + 1 >= Attempts
          /\ FailDownload(r)
          /\ UNCHANGED attempt
    /\ UNCHANGED <<startTime, pages, cursor, importVars, stockVars, since, crashes>>

Retry(r) ==
    /\ pc[r] = "pause"
    /\ Goto(r, "page")
    /\ UNCHANGED <<running, startTime, loopVars, importVars, fileVars, stockVars, since, crashes>>

\* catalogCursor: every id is greater than the one before it.
Advances(rows, from) == \A k \in 1 .. Len(rows) : rows[k] > (IF k = 1 THEN from ELSE rows[k - 1])

Page == UNION {[1 .. n -> Code] : n \in 1 .. PageSize}

GotPage(r) ==
    /\ pc[r] = "page"
    /\ \E rows \in Page :
          /\ Advances(rows, cursor)
          /\ download' = download \o rows
          /\ cursor' = rows[Len(rows)]
    /\ pages' = pages + 1
    /\ IF pages' % StatusEvery = 0 THEN Report(FALSE, "downloading") ELSE UNCHANGED status
    /\ Goto(r, "sleep")
    /\ UNCHANGED <<running, startTime, attempt, importVars, target, stockVars, since, crashes>>

\* An answer that is no array or whose ids do not advance.
GotGarbage(r) ==
    /\ pc[r] = "page"
    /\ FailDownload(r)
    /\ UNCHANGED <<startTime, loopVars, importVars, stockVars, since, crashes>>

\* After 300 ms comes the next page.
NextPage(r) ==
    /\ pc[r] = "sleep"
    /\ IF pages < MaxPages
       THEN /\ Goto(r, "page")
            /\ attempt' = 0
            /\ UNCHANGED <<running, fileVars>>
       ELSE FailDownload(r) /\ UNCHANGED attempt
    /\ UNCHANGED <<startTime, pages, cursor, importVars, stockVars, since, crashes>>

\* A download takes minutes: writes launched before it have been answered at its end.
Landed == \A w \in inFlight : w.at >= startTime

\* Fault: a small catalogue is accepted.
GotAnyEnd(r) ==
    /\ pc[r] = "page" /\ Landed
    /\ target' = download /\ Goto(r, "batch") /\ left' = download
    /\ UNCHANGED <<running, startTime, loopVars, imported, rancid, download, status, stockVars, since, crashes>>

\* The empty page completes the download.  The temporary file becomes the snapshot.
GotEnd(r) ==
    /\ pc[r] = "page" /\ Landed
    /\ IF Len(download) < MinTotal THEN FailDownload(r)
       ELSE target' = download /\ download' = <<>> /\ Goto(r, "validate") /\ UNCHANGED <<running, status>>
    /\ UNCHANGED <<startTime, loopVars, importVars, stockVars, since, crashes>>

-----------------------------------------------------------------------------
\* The whole snapshot is read once before it is read to be imported.
Validate(r) ==
    /\ pc[r] = "validate"
    /\ \/ /\ Advances(target, 0) /\ Len(target) >= MinTotal
          /\ left' = target /\ imported' = 0
          /\ Goto(r, "batch")
          /\ UNCHANGED running
       \/ Fail(r) /\ UNCHANGED <<left, imported>>
    /\ UNCHANGED <<startTime, loopVars, rancid, fileVars, stockVars, since, crashes>>

\* Fault: a batch that is not full is not flushed.
FullBatch ==
    IF Len(left) >= BatchSize THEN SubSeq(left, 1, BatchSize) ELSE <<>>

\* The next rows that are flushed together.
Batch ==
    IF Len(left) >= BatchSize THEN SubSeq(left, 1, BatchSize) ELSE left

Flush(r) ==
    /\ pc[r] = "batch" /\ Batch # <<>>
    /\ Launch(r, Ids(Batch), r)
    /\ left' = SubSeq(left, Len(Batch) + 1, Len(left))
    /\ imported' = imported + Len(Batch)
    /\ Goto(r, "bulk")
    /\ UNCHANGED <<running, startTime, loopVars, rancid, fileVars, now, row, stored, historyVars, crashes>>

\* parseResponse throws on a row without a name.
UnreadableBatch(r) ==
    /\ pc[r] = "batch" /\ Batch # <<>>
    /\ Fail(r)
    /\ UNCHANGED <<startTime, loopVars, importVars, fileVars, stockVars, since, crashes>>

Flushed(r) ==
    /\ pc[r] = "bulk" /\ {w \in inFlight : w.by = r} = {}
    /\ Goto(r, "batch")
    /\ IF imported % ImportEvery = 0 THEN Report(FALSE, "database") ELSE UNCHANGED status
    /\ UNCHANGED <<running, startTime, loopVars, importVars, download, target, stockVars, since, crashes>>

Cleanup(r) ==
    /\ pc[r] = "batch" /\ Batch = <<>>
    /\ Report(FALSE, "cleanup")
    /\ Goto(r, "find")
    /\ UNCHANGED <<running, startTime, loopVars, importVars, download, target, stockVars, since, crashes>>

-----------------------------------------------------------------------------
\* finish() of ScheduleParser, then the status is completed.
Find(r) ==
    /\ pc[r] = "find"
    /\ \/ /\ rancid' = Rancid(startTime)
          /\ Goto(r, "found")
          /\ UNCHANGED running
       \/ Fail(r) /\ UNCHANGED rancid
    /\ UNCHANGED <<startTime, loopVars, left, imported, fileVars, stockVars, since, crashes>>

Clear(r) ==
    /\ pc[r] = "found"
    /\ Launch(r, rancid, Empty)
    /\ Goto(r, "clearing")
    /\ UNCHANGED <<running, startTime, loopVars, importVars, fileVars, now, row, stored, historyVars, crashes>>

Finish(r) ==
    /\ pc[r] = "clearing" /\ InFlightOf(r) = {}
    /\ Report(TRUE, "complete")
    /\ Goto(r, "done")
    /\ running' = FALSE
    /\ since' = startTime
    /\ UNCHANGED <<startTime, loopVars, importVars, download, target, stockVars, crashes>>

-----------------------------------------------------------------------------
\* A keys job stores a good that a search of promelec returned.
KeysJob(s) ==
    /\ s \notin stored
    /\ \E c \in Code : Launch(s, {c}, s)
    /\ stored' = stored \union {s}
    /\ UNCHANGED <<running, pc, startTime, loopVars, importVars, fileVars, now, row, historyVars, crashes>>

\* A client binds a good of the supplier, whether or not the catalogue still has it.
SetGood(b) ==
    /\ b \notin stored
    /\ \E c \in Code : SaveBinding(b, c)
    /\ stored' = stored \union {b}
    /\ UNCHANGED <<running, pc, startTime, loopVars, importVars, fileVars, now, row, historyVars, crashes>>

ClearOldGoods ==
    /\ \E c \in Code : ClearOldGood(c)
    /\ UNCHANGED <<running, pc, startTime, loopVars, importVars, fileVars, now, inFlight, stored,
                   historyVars, crashes>>

Written(w) ==
    /\ IF w.stock \in Run THEN Upsert(w) ELSE CreateOrUpdate(w)
    /\ boundAt' = IF w.by \in Binding /\ boundAt[w.code] < w.at
                  THEN [boundAt EXCEPT ![w.code] = w.at] ELSE boundAt
    /\ UNCHANGED <<running, pc, startTime, loopVars, importVars, fileVars, now, stored, since, crashes>>

\* A write that is rejected fails the run that awaits it.
Rejected(w) ==
    /\ inFlight' = inFlight \ {w}
    /\ IF w.by \in Run /\ Active(w.by) THEN Fail(w.by) ELSE UNCHANGED <<pc, running>>
    /\ UNCHANGED <<startTime, loopVars, importVars, fileVars, now, row, stored, historyVars, crashes>>

\* The process dies and is started again.
Crash ==
    /\ crashes < MaxCrashes
    /\ crashes' = crashes + 1
    /\ pc' = [r \in Run |-> IF Active(r) THEN "dead" ELSE pc[r]]
    /\ running' = FALSE
    /\ UNCHANGED <<startTime, loopVars, importVars, fileVars, stockVars, since>>

Time ==
    /\ Tick
    /\ UNCHANGED <<running, pc, startTime, loopVars, importVars, fileVars, row, inFlight, stored, historyVars, crashes>>

Stopped ==
    /\ \A r \in Run : pc[r] \in Ended \/ now = Horizon
    /\ \A r \in Run : ~Active(r)
    /\ inFlight = {}
    /\ UNCHANGED vars

DownloadStep(r) ==
    Open(r) \/ RequestFails(r) \/ Retry(r) \/ GotPage(r) \/ GotGarbage(r) \/ NextPage(r) \/ GotEnd(r)
ImportStep(r) ==
    \/ Validate(r) \/ Flush(r) \/ UnreadableBatch(r) \/ Flushed(r) \/ Cleanup(r)
    \/ Find(r) \/ Clear(r) \/ Finish(r)

Next ==
    \/ \E r \in Run : Execute(r) \/ Break(r) \/ DownloadStep(r) \/ ImportStep(r)
    \/ \E s \in Search : KeysJob(s)
    \/ \E b \in Binding : SetGood(b)
    \/ ClearOldGoods
    \/ \E w \in inFlight : Written(w) \/ Rejected(w)
    \/ Crash
    \/ Time
    \/ Stopped

Spec == Init /\ [][Next]_vars

\* A request times out after 60 s, a snapshot ends, MongoDB answers.
FairSpec ==
    /\ Spec
    /\ \A r \in Run : WF_vars(DownloadStep(r)) /\ WF_vars(ImportStep(r))
    /\ WF_vars(\E w \in inFlight : Written(w) \/ Rejected(w))

-----------------------------------------------------------------------------
Given(c) == row[c].stock \notin {Absent, Empty}
OfCatalog(c) == row[c].stock \in Run \union {Before}
Renewed(start) == {c \in Code : boundAt[c] >= start}

\* While the status says completed, the rows mirror the snapshot: each of its goods
\* was given stock, which only the cleanup at midnight may have emptied since, and no
\* other good has stock of a catalogue.  Exempt is a good first bound to a client's
\* since the import began: finish() takes it for a fresh one, and it keeps its stock.
CompletedMirrorsSnapshot ==
    status.completed => \A c \in Code :
        IF c \in Ids(target) THEN Given(c) ELSE OfCatalog(c) => c \in Renewed(since)

\* "A truncated/invalid response must not clear stock" (promelec.catalog.parser.ts:97):
\* rows are only written for a snapshot whose ids advance and that has MinTotal rows,
\* and only emptied when all its goods were given stock and the row is not among them.
TruncatedNeverClears ==
    \A w \in inFlight : w.by \in Run =>
        /\ Advances(target, 0) /\ Len(target) >= MinTotal
        /\ w.stock = Empty =>
              /\ w.code \notin Ids(target)
              /\ \A c \in Ids(target) : Given(c)

\* The flag that refuses executions is set just while one is under way.
RunningIsReleased == running <=> \E r \in Run : Active(r)

\* A download comes to an end, whatever the supplier answers.
EveryDownloadEnds == \A r \in Run : pc[r] = "page" ~> pc[r] \in Ended

-----------------------------------------------------------------------------
(***************************************************************************)
(* The inductive invariant.                                                *)
(***************************************************************************)
AtMostOneRuns == \A r, s \in Run : Active(r) /\ Active(s) => r = s

\* What a write in flight is, by its writer.
WriteInv == \A w \in inFlight :
    /\ w.by \notin Run => w.stock \in Search \union {Kept}
    /\ w.by \in Binding => w.stock = Kept
    /\ w.by \in Run => w.stock \in {w.by, Empty, Kept}

Downloading == {"page", "pause", "sleep"}
Importing == {"batch", "bulk", "find", "found", "clearing"}

\* Until the snapshot is validated no write of a catalogue is in flight; a status
\* left by the execution before can only last while the download is small; later
\* no write is as old as the start.
DownloadInv(r) ==
    /\ pc[r] \notin Importing => \A w \in inFlight : w.by \notin Run
    /\ pc[r] \in Downloading =>
          /\ Len(download) <= pages * PageSize
          /\ status.completed => pages < StatusEvery
    /\ pc[r] \in Importing \union {"validate"} =>
          ~status.completed /\ \A w \in inFlight : w.at >= startTime

\* A row touched since the start, other than by a binding, has stock of a catalogue
\* only if the import gave it.
FreshInv(r) == \A c \in Code :
    /\ OfCatalog(c) /\ c \notin Renewed(startTime)
    /\ row[c].updatedAt >= startTime \/
           \E w \in inFlight : /\ w.code = c /\ w.stock = Kept /\ w.at >= startTime
                              /\ w.by \notin Binding
    => pc[r] \in Importing /\ c \in Ids(target)

\* The rows of the snapshot that have been read are written, or being written.
ImportInv(r) == pc[r] \in Importing =>
    /\ Advances(target, 0) /\ Len(target) >= MinTotal
    /\ \A w \in inFlight : w.by \in Run => w.by = r
    /\ pc[r] \in {"batch", "find", "found"} => InFlightOf(r) = {}
    /\ pc[r] = "bulk" => \A w \in InFlightOf(r) : w.stock = r /\ w.code \in Ids(target)
    /\ pc[r] \in {"find", "found", "clearing"} => left = <<>>
    /\ Ids(left) \subseteq Ids(target)
    /\ \A c \in Ids(target) \ Ids(left) :
          \/ Given(c) /\ row[c].updatedAt >= startTime
          \/ pc[r] = "bulk" /\ \E w \in InFlightOf(r) : w.code = c

\* What is emptied is all the catalogue no longer has.
ClearInv(r) ==
    /\ pc[r] = "found" =>
          /\ rancid \intersect Ids(target) = {}
          /\ \A c \in Code : OfCatalog(c) => c \in Ids(target) \union rancid \union Renewed(startTime)
    /\ pc[r] = "clearing" =>
          /\ \A w \in InFlightOf(r) : w.stock # r
          /\ \A c \in Code : OfCatalog(c) =>
                \/ c \in Ids(target) \union Renewed(startTime)
                \/ \E w \in InFlightOf(r) : w.code = c /\ w.stock = Empty

CompletedInv == status.completed => \A w \in inFlight : w.by \notin Run

IInv ==
    /\ TypeOK /\ startTime <= now
    /\ RunningIsReleased /\ AtMostOneRuns
    /\ WriteInv /\ TruncatedNeverClears
    /\ \A r \in Run : Active(r) => DownloadInv(r) /\ FreshInv(r) /\ ImportInv(r) /\ ClearInv(r)
    /\ CompletedMirrorsSnapshot /\ CompletedInv
=============================================================================
