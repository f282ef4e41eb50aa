------------------------- MODULE PromelecCatalogProofs -------------------------
(***************************************************************************)
(* What the status file says of the rows and when rows are emptied, for    *)
(* any executions, catalogues, searches, sizes and number of crashes, by   *)
(* the inductive invariant IInv.                                           *)
(***************************************************************************)
EXTENDS PromelecCatalog, SequenceTheorems, TLAPS

\* The stock of an execution or a search is none of the markers.
LEMMA StockFacts ==
  /\ Absent # Empty /\ Kept \notin {Absent, Empty} /\ Before \notin {Absent, Empty, Swept}
  /\ Swept \notin {Absent, Empty, Before}
  /\ \A s \in Run \union Search : s \notin {Absent, Empty, Kept, Swept, Before}
  /\ Run \intersect Search = {} /\ (Run \union Search) \intersect Binding = {}
  BY StockAssumption, CatalogAssumption

LEMMA NumberFacts ==
  /\ \A c \in Code : c \in Nat \ {0}
  /\ PageSize \in Nat \ {0} /\ MaxPages \in Nat \ {0} /\ MinTotal \in Nat \ {0}
  /\ StatusEvery \in Nat \ {0} /\ BatchSize \in Nat \ {0} /\ Attempts \in Nat \ {0}
  /\ MinTotal > (StatusEvery - 1) * PageSize
  BY CatalogAssumption

\* A page is a sequence of one to PageSize ids.
LEMMA PageIsSeq ==
  ASSUME NEW rows \in Page
  PROVE  rows \in Seq(Code) /\ Len(rows) \in 1 .. PageSize /\ rows[Len(rows)] \in Code
<1>1. PICK n \in 1 .. PageSize : rows \in [1 .. n -> Code]
  BY DEF Page
<1>2. n \in Nat /\ n >= 1
  BY <1>1, NumberFacts
<1>3. rows \in Seq(Code) /\ Len(rows) = n
  BY <1>1, <1>2
<1> QED  BY <1>1, <1>2, <1>3

\* A batch and the rows after it are the rows left.
LEMMA BatchSplitsLeft ==
  ASSUME left \in Seq(Code)
  PROVE  LET rest == SubSeq(left, Len(Batch) + 1, Len(left))
         IN  /\ Batch \in Seq(Code) /\ rest \in Seq(Code)
             /\ Ids(Batch) \subseteq Code
             /\ Ids(left) = Ids(Batch) \union Ids(rest)
<1> DEFINE rest == SubSeq(left, Len(Batch) + 1, Len(left))
<1>1. Len(left) \in Nat /\ \A k \in 1 .. Len(left) : left[k] \in Code
  BY LenProperties, ElementOfSeq
<1>2. PICK n \in 0 .. Len(left) : /\ Batch \in Seq(Code) /\ Len(Batch) = n
                                  /\ \A k \in 1 .. n : Batch[k] = left[k]
  <2>1. CASE Len(left) >= BatchSize
    <3>1. /\ SubSeq(left, 1, BatchSize) \in Seq(Code)
          /\ Len(SubSeq(left, 1, BatchSize)) = BatchSize
          /\ \A k \in 1 .. BatchSize : SubSeq(left, 1, BatchSize)[k] = left[k]
      BY <1>1, <2>1, NumberFacts, SubSeqProperties
    <3> QED  BY <1>1, <2>1, <3>1, NumberFacts DEF Batch
  <2>2. CASE ~(Len(left) >= BatchSize)
    BY <1>1, <2>2 DEF Batch
  <2> QED  BY <2>1, <2>2
<1>3. /\ rest \in Seq(Code)
      /\ Len(rest) = Len(left) - n
      /\ \A k \in 1 .. Len(left) - n : rest[k] = left[n + k]
  <2>1. \A k \in n + 1 .. Len(left) : left[k] \in Code
    BY <1>1, <1>2
  <2>2. /\ SubSeq(left, n + 1, Len(left)) \in Seq(Code)
        /\ Len(SubSeq(left, n + 1, Len(left)))
              = IF n + 1 <= Len(left) THEN Len(left) - (n + 1) + 1 ELSE 0
        /\ \A k \in 1 .. Len(left) - (n + 1) + 1 : SubSeq(left, n + 1, Len(left))[k] = left[n + 1 + k - 1]
    BY <1>1, <1>2, <2>1, SubSeqProperties
  <2> QED  BY <1>1, <1>2, <2>2
<1>4. Ids(left) \subseteq Ids(Batch) \union Ids(rest)
  <2> SUFFICES ASSUME NEW k \in 1 .. Len(left) PROVE left[k] \in Ids(Batch) \union Ids(rest)
    BY DEF Ids
  <2>1. CASE k <= n
    BY <1>2, <2>1 DEF Ids
  <2>2. CASE k > n
    <3>1. k - n \in 1 .. Len(rest) /\ rest[k - n] = left[k]
      BY <1>1, <1>2, <1>3, <2>2
    <3> QED  BY <3>1 DEF Ids
  <2> QED  BY <1>1, <1>2, <2>1, <2>2
<1>5. Ids(Batch) \subseteq Ids(left)
  BY <1>1, <1>2 DEF Ids
<1>6. Ids(rest) \subseteq Ids(left)
  <2> SUFFICES ASSUME NEW k \in 1 .. Len(rest) PROVE rest[k] \in Ids(left)
    BY DEF Ids
  <2>1. rest[k] = left[n + k] /\ n + k \in 1 .. Len(left)
    BY <1>1, <1>2, <1>3
  <2> QED  BY <2>1 DEF Ids
<1>7. Ids(Batch) \subseteq Code
  BY <1>1, <1>5 DEF Ids
<1> QED  BY <1>2, <1>3, <1>4, <1>5, <1>6, <1>7

LEMMA IdsAreCodes == ASSUME NEW file \in Seq(Code) PROVE Ids(file) \subseteq Code
  BY ElementOfSeq DEF Ids

LEMMA EmptyHasNoIds == Ids(<<>>) = {}
  BY DEF Ids

\* A download of MinTotal rows is past the first page that writes the status.
LEMMA LargeIsReported ==
  ASSUME NEW p \in Nat, NEW len \in Nat, len <= p * PageSize, len >= MinTotal
  PROVE  p >= StatusEvery
<1> SUFFICES ASSUME p <= StatusEvery - 1 PROVE FALSE
  BY NumberFacts
<1>1. \A a, b, k \in Nat : a <= b => a * k <= b * k
  OBVIOUS
<1>2. p * PageSize <= (StatusEvery - 1) * PageSize
  BY <1>1, NumberFacts
<1>3. p * PageSize \in Nat /\ (StatusEvery - 1) * PageSize \in Nat
  BY NumberFacts
<1> QED  BY <1>2, <1>3, NumberFacts

\* The page that is the StatusEvery-th writes the status.
LEMMA StatusIsWritten == \A n \in Nat \ {0} : n % n = 0
  OBVIOUS
-----------------------------------------------------------------------------
(***************************************************************************)
(* Types.                                                                  *)
(***************************************************************************)
LEMMA InitTyped == Init => TypeOK
<1> SUFFICES ASSUME Init PROVE TypeOK
  OBVIOUS
<1>1. status \in [completed : BOOLEAN, phase : StatusPhase]
  <2>1. \/ status = [completed |-> FALSE, phase |-> "none"]
        \/ status = [completed |-> TRUE, phase |-> "complete"]
    BY Zenon DEF Init
  <2>2. /\ [completed |-> FALSE, phase |-> "none"] \in [completed : BOOLEAN, phase : StatusPhase]
        /\ [completed |-> TRUE, phase |-> "complete"] \in [completed : BOOLEAN, phase : StatusPhase]
    BY DEF StatusPhase
  <2> QED  BY <2>1, <2>2, Zenon
<1>3. target \in Seq(Code)
  <2>1. \A n \in Nat : \A s \in [1 .. n -> Code] : s \in Seq(Code)
    OBVIOUS
  <2>2. target = <<>> \/ target \in [1 .. MinTotal -> Code]
    BY DEF Init
  <2>3. CASE target = <<>>
    BY <2>3, EmptySeq
  <2>4. CASE target \in [1 .. MinTotal -> Code]
    BY <2>1, <2>4, NumberFacts
  <2> QED  BY <2>2, <2>3, <2>4
<1>4. pc \in [Run -> PC]
  BY DEF Init, PC
<1>2. row \in [Code -> [stock : Stock, updatedAt : Nat]]
  BY DEF Init, Stock
<1>5. /\ running = FALSE /\ startTime = 0 /\ attempt = 0 /\ pages = 0 /\ cursor = 0 /\ imported = 0
      /\ left = <<>> /\ download = <<>> /\ rancid = {} /\ inFlight = {} /\ stored = {}
      /\ now = 1 /\ crashes = 0 /\ boundAt = [c \in Code |-> 0] /\ since = 1
  BY DEF Init
<1>6. left \in Seq(Code) /\ download \in Seq(Code)
  BY <1>5, EmptySeq
<1>7. running \in BOOLEAN
  BY <1>5, Zenon
<1>9. /\ now \in Nat /\ crashes \in Nat /\ since \in Nat /\ boundAt \in [Code -> Nat]
      /\ {startTime, attempt, pages, cursor, imported} \subseteq Nat
  BY <1>5, SMT
<1>8. rancid \subseteq Code /\ stored \subseteq Search \union Binding /\ inFlight \subseteq Write
  BY <1>5
<1> QED  BY <1>1, <1>2, <1>3, <1>4, <1>6, <1>7, <1>8, <1>9, Zenon DEF TypeOK

\* Each code is launched.
LEMMA LaunchedForEach ==
  ASSUME NEW by, NEW codes, NEW stock
  PROVE  \A c \in codes : \E w \in Launched(by, codes, stock) : w.code = c
<1> SUFFICES ASSUME NEW c \in codes PROVE \E w \in Launched(by, codes, stock) : w.code = c
  OBVIOUS
<1> DEFINE w0 == [by |-> by, code |-> c, stock |-> stock, at |-> now]
<1>1. w0 \in Launched(by, codes, stock)
  BY Zenon DEF Launched
<1>2. w0.code = c
  OBVIOUS
<1> QED  BY <1>1, <1>2, Zenon

\* Launched writes are writes.
LEMMA LaunchTyped ==
  ASSUME TypeOK, NEW by \in Writer, NEW codes \in SUBSET Code,
         NEW stock \in Run \union Search \union {Empty, Kept}, Launch(by, codes, stock)
  PROVE  inFlight' \subseteq Write
  BY DEF TypeOK, Launch, Launched, Write

LEMMA ReportTyped ==
  ASSUME NEW completed \in BOOLEAN, NEW phase \in StatusPhase, Report(completed, phase)
  PROVE  status' \in [completed : BOOLEAN, phase : StatusPhase]
  BY DEF Report

LEMMA GotoTyped ==
  ASSUME TypeOK, NEW r \in Run, NEW label \in PC, Goto(r, label)
  PROVE  pc' \in [Run -> PC]
  BY DEF TypeOK, Goto

LEMMA FailTyped ==
  ASSUME TypeOK, NEW r \in Run, Fail(r)
  PROVE  pc' \in [Run -> PC] /\ running' \in BOOLEAN
  BY DEF TypeOK, Fail, Goto, PC

LEMMA FailDownloadTyped ==
  ASSUME TypeOK, NEW r \in Run, FailDownload(r)
  PROVE  /\ pc' \in [Run -> PC] /\ running' \in BOOLEAN
         /\ status' \in [completed : BOOLEAN, phase : StatusPhase]
         /\ UNCHANGED <<download, target>>
  BY FailTyped, ReportTyped DEF FailDownload, StatusPhase

\* The steps of an execution that write no rows.
LEMMA DownloadTyped ==
  ASSUME TypeOK, NEW r \in Run, Execute(r) \/ Break(r) \/ DownloadStep(r)
  PROVE  TypeOK'
<1> USE DEF TypeOK, loopVars, importVars, fileVars, stockVars, historyVars
<1>1. CASE Execute(r)
  BY <1>1 DEF Execute, Goto, PC
<1>2. CASE Break(r)
  BY <1>2 DEF Break, Fail, Goto, PC
<1>3. CASE Open(r)
  BY <1>3 DEF Open, Goto, PC
<1>4. CASE RequestFails(r)
  <2>1. CASE attempt + 1 < Attempts
    <3>1. Goto(r, "pause") /\ attempt' = attempt + 1 /\ UNCHANGED <<running, fileVars>>
      BY <1>4, <2>1, CatalogAssumption DEF RequestFails
    <3>2. pc' \in [Run -> PC]
      BY <3>1, GotoTyped DEF PC
    <3>3. attempt' \in Nat
      BY <3>1
    <3> QED  BY <1>4, <3>1, <3>2, <3>3 DEF RequestFails
  <2>2. CASE ~(attempt + 1 < Attempts)
    <3>1. FailDownload(r) /\ UNCHANGED attempt
      BY <1>4, <2>2 DEF RequestFails
    <3> QED  BY <1>4, <3>1, FailDownloadTyped DEF RequestFails
  <2> QED  BY <2>1, <2>2
<1>5. CASE Retry(r)
  BY <1>5 DEF Retry, Goto, PC
<1>6. CASE GotPage(r)
  <2>1. PICK rows \in Page : download' = download \o rows /\ cursor' = rows[Len(rows)]
    BY <1>6 DEF GotPage
  <2>2. download' \in Seq(Code) /\ cursor' \in Nat
    BY <2>1, PageIsSeq, NumberFacts, ConcatProperties
  <2>3. pc' \in [Run -> PC]
    BY <1>6, GotoTyped DEF GotPage, PC
  <2>4. status' \in [completed : BOOLEAN, phase : StatusPhase]
    <3>1. Report(FALSE, "downloading") \/ UNCHANGED status
      BY <1>6, Zenon DEF GotPage
    <3> QED  BY <3>1, ReportTyped DEF StatusPhase
  <2>5. pages' \in Nat
    BY <1>6 DEF GotPage
  <2> QED  BY <1>6, <2>2, <2>3, <2>4, <2>5 DEF GotPage
<1>7. CASE GotGarbage(r)
  BY <1>7, FailDownloadTyped DEF GotGarbage
<1>8. CASE NextPage(r)
  <2>1. CASE pages < MaxPages
    <3>1. pc' \in [Run -> PC]
      BY <1>8, <2>1, GotoTyped DEF NextPage, PC
    <3> QED  BY <1>8, <2>1, <3>1 DEF NextPage
  <2>2. CASE ~(pages < MaxPages)
    <3>1. FailDownload(r) /\ UNCHANGED attempt
      BY <1>8, <2>2 DEF NextPage
    <3> QED  BY <1>8, <3>1, FailDownloadTyped DEF NextPage
  <2> QED  BY <2>1, <2>2
<1>9. CASE GotEnd(r)
  <2>1. CASE Len(download) < MinTotal
    BY <1>9, <2>1, FailDownloadTyped DEF GotEnd
  <2>2. CASE ~(Len(download) < MinTotal)
    <3>1. pc' \in [Run -> PC] /\ download' \in Seq(Code)
      BY <1>9, <2>2, GotoTyped DEF GotEnd, PC
    <3> QED  BY <1>9, <2>2, <3>1 DEF GotEnd
  <2> QED  BY <2>1, <2>2
<1> QED  BY <1>1, <1>2, <1>3, <1>4, <1>5, <1>6, <1>7, <1>8, <1>9 DEF DownloadStep

LEMMA ImportTyped ==
  ASSUME TypeOK, NEW r \in Run, ImportStep(r)
  PROVE  TypeOK'
<1> USE DEF TypeOK, loopVars, importVars, fileVars, stockVars, historyVars
<1>1. CASE Validate(r)
  <2>1. CASE Fail(r) /\ UNCHANGED <<left, imported>>
    BY <1>1, <2>1, FailTyped DEF Validate
  <2>2. CASE left' = target /\ imported' = 0 /\ Goto(r, "batch") /\ UNCHANGED running
    BY <1>1, <2>2, GotoTyped DEF Validate, PC
  <2> QED  BY <1>1, <2>1, <2>2 DEF Validate
<1>2. CASE Flush(r)
  <2>1. /\ Batch \in Seq(Code) /\ Ids(Batch) \in SUBSET Code /\ left' \in Seq(Code)
    BY <1>2, BatchSplitsLeft DEF Flush
  <2>2. inFlight' \subseteq Write
    BY <1>2, <2>1, LaunchTyped DEF Flush, Writer
  <2>3. imported' \in Nat
    BY <1>2, <2>1, LenProperties DEF Flush
  <2> QED  BY <1>2, <2>1, <2>2, <2>3 DEF Flush, Goto, PC
<1>3. CASE UnreadableBatch(r)
  BY <1>3 DEF UnreadableBatch, Fail, Goto, PC
<1>4. CASE Flushed(r)
  <2>1. status' \in [completed : BOOLEAN, phase : StatusPhase]
    <3>1. Report(FALSE, "database") \/ UNCHANGED status
      BY <1>4, Zenon DEF Flushed
    <3> QED  BY <3>1, ReportTyped DEF StatusPhase
  <2>2. pc' \in [Run -> PC]
    BY <1>4, GotoTyped DEF Flushed, PC
  <2> QED  BY <1>4, <2>1, <2>2 DEF Flushed
<1>5. CASE Cleanup(r)
  BY <1>5 DEF Cleanup, Report, Goto, PC, StatusPhase
<1>6. CASE Find(r)
  BY <1>6 DEF Find, Rancid, Fail, Goto, PC
<1>7. CASE Clear(r)
  <2>1. inFlight' \subseteq Write
    BY <1>7, LaunchTyped DEF Clear, Writer
  <2> QED  BY <1>7, <2>1 DEF Clear, Goto, PC
<1>8. CASE Finish(r)
  BY <1>8 DEF Finish, Report, Goto, PC, StatusPhase
<1> QED  BY <1>1, <1>2, <1>3, <1>4, <1>5, <1>6, <1>7, <1>8 DEF ImportStep

LEMMA KeysJobTyped == ASSUME TypeOK, NEW s \in Search, KeysJob(s) PROVE TypeOK'
<1>1. PICK c \in Code : Launch(s, {c}, s)
  BY DEF KeysJob
<1>2. inFlight' \subseteq Write
  BY <1>1, LaunchTyped DEF Writer
<1> QED  BY <1>2 DEF KeysJob, TypeOK, loopVars, importVars, fileVars, historyVars

LEMMA SetGoodTyped == ASSUME TypeOK, NEW b \in Binding, SetGood(b) PROVE TypeOK'
<1>1. PICK c \in Code : Launch(b, {c}, Kept)
  BY DEF SetGood, SaveBinding
<1>2. inFlight' \subseteq Write
  BY <1>1, LaunchTyped DEF Writer
<1> QED  BY <1>2 DEF SetGood, TypeOK, loopVars, importVars, fileVars, historyVars

LEMMA ClearOldGoodsTyped == TypeOK /\ ClearOldGoods => TypeOK'
<1> SUFFICES ASSUME TypeOK, ClearOldGoods PROVE TypeOK'
  OBVIOUS
<1>1. PICK c \in Code : ClearOldGood(c)
  BY DEF ClearOldGoods
<1>2. PICK t \in 1 .. now :
         row' = [row EXCEPT ![c] =
                    [stock |-> IF @.stock = Empty THEN Empty ELSE Swept, updatedAt |-> t]]
  BY <1>1 DEF ClearOldGood
<1>3. row' \in [Code -> [stock : Stock, updatedAt : Nat]]
  BY <1>2 DEF TypeOK, Stock
<1> QED  BY <1>3 DEF ClearOldGoods, TypeOK, loopVars, importVars, fileVars, historyVars

LEMMA WrittenTyped == ASSUME TypeOK, NEW w \in inFlight, Written(w) PROVE TypeOK'
<1> USE DEF TypeOK, loopVars, importVars, fileVars
<1>0. /\ w.code \in Code /\ w.at \in Nat /\ w.by \in Writer
      /\ w.stock \in Run \union Search \union {Empty, Kept}
  BY DEF Write
<1>1. boundAt' \in [Code -> Nat]
  BY <1>0 DEF Written
<1>2. CASE Upsert(w) /\ w.stock \in Run
  <2>1. row' \in [Code -> [stock : Stock, updatedAt : Nat]]
    BY <1>0, <1>2 DEF Upsert, Stock
  <2> QED  BY <1>1, <1>2, <2>1 DEF Written, Upsert
<1>3. CASE CreateOrUpdate(w) /\ w.stock \notin Run
  <2>1. SetParameters(w) \in Write
    BY DEF SetParameters, Write
  <2>2. inFlight' \subseteq inFlight \union {SetParameters(w)}
    BY <1>3 DEF CreateOrUpdate
  <2>3. row' \in [Code -> [stock : Stock, updatedAt : Nat]]
    BY <1>0, <1>3 DEF CreateOrUpdate, Stock
  <2> QED  BY <1>1, <2>1, <2>2, <2>3 DEF Written
<1> QED  BY <1>2, <1>3 DEF Written

LEMMA RejectedTyped == ASSUME TypeOK, NEW w \in inFlight, Rejected(w) PROVE TypeOK'
  BY DEF TypeOK, Rejected, Fail, Goto, PC, loopVars, importVars, fileVars, historyVars

LEMMA NextTyped == TypeOK /\ [Next]_vars => TypeOK'
<1> SUFFICES ASSUME TypeOK, [Next]_vars PROVE TypeOK'
  OBVIOUS
<1>1. CASE Crash
  <2>1. crashes' \in Nat /\ running' \in BOOLEAN
    <3>1. crashes' = crashes + 1 /\ running' = FALSE /\ crashes \in Nat
      BY <1>1, Zenon DEF Crash, TypeOK
    <3>2. running' \in BOOLEAN
      BY <3>1, Zenon
    <3>3. crashes' \in Nat
      BY <3>1, SMT
    <3> QED  BY <3>2, <3>3
  <2>2. pc' \in [Run -> PC]
    BY <1>1 DEF Crash, TypeOK, PC
  <2> QED  BY <1>1, <2>1, <2>2 DEF Crash, TypeOK, loopVars, importVars, fileVars, stockVars
<1>2. CASE Time
  BY <1>2 DEF Time, Tick, TypeOK, loopVars, importVars, fileVars, historyVars
<1>3. CASE UNCHANGED vars
  BY <1>3 DEF TypeOK, vars, loopVars, importVars, fileVars, stockVars
<1> QED  BY <1>1, <1>2, <1>3, DownloadTyped, ImportTyped, KeysJobTyped, SetGoodTyped,
         ClearOldGoodsTyped, WrittenTyped, RejectedTyped
         DEF Next, Stopped

\* The state of an execution, its files and the rows it writes keep their types.
THEOREM TypeCorrect == Spec => []TypeOK
  BY InitTyped, NextTyped, PTL DEF Spec
-----------------------------------------------------------------------------
(***************************************************************************)
(* The invariant, step by step.                                            *)
(***************************************************************************)
RunInv(r) == DownloadInv(r) /\ FreshInv(r) /\ ImportInv(r) /\ ClearInv(r)

LEMMA InitIsSound == Init => IInv
<1> SUFFICES ASSUME Init PROVE IInv
  OBVIOUS
<1>1. TypeOK
  BY InitTyped
<1>2. inFlight = {} /\ startTime <= now /\ \A r \in Run : ~Active(r)
  BY DEF Init, Active
<1>3. RunningIsReleased /\ AtMostOneRuns
  BY <1>2 DEF Init, RunningIsReleased, AtMostOneRuns
<1>4. WriteInv /\ TruncatedNeverClears /\ CompletedInv
  BY <1>2 DEF WriteInv, TruncatedNeverClears, CompletedInv
<1>5. CompletedMirrorsSnapshot
  <2> SUFFICES ASSUME NEW c \in Code
               PROVE  IF c \in Ids(target) THEN Given(c) ELSE OfCatalog(c) => c \in Renewed(since)
    BY DEF CompletedMirrorsSnapshot
  <2>1. row[c].stock = IF c \in Ids(target) THEN Before ELSE Absent
    BY DEF Init
  <2> QED  BY <2>1, StockFacts DEF Given, OfCatalog, Renewed
<1> QED  BY <1>1, <1>2, <1>3, <1>4, <1>5 DEF IInv

\* An execution ends, or the process dies: what is written stays, what is in flight
\* may still be written.
LEMMA StopIsSound ==
  ASSUME IInv, TypeOK', ~running', \A r \in Run : ~Active(r)',
         UNCHANGED <<now, row, boundAt, since, startTime, target>>, inFlight' \subseteq inFlight,
         status' = status \/ ~status'.completed
  PROVE  IInv'
<1>1. RunningIsReleased' /\ AtMostOneRuns'
  BY DEF RunningIsReleased, AtMostOneRuns
<1>2. WriteInv' /\ CompletedInv'
  BY DEF IInv, WriteInv, CompletedInv
<1>3. TruncatedNeverClears'
  BY DEF IInv, TruncatedNeverClears, Advances, Ids, Given
<1>4. CompletedMirrorsSnapshot'
  BY DEF IInv, CompletedMirrorsSnapshot, Ids, Given, OfCatalog, Renewed
<1> QED  BY <1>1, <1>2, <1>3, <1>4 DEF IInv

LEMMA FailIsSound ==
  ASSUME IInv, TypeOK', NEW r \in Run, Active(r), Fail(r),
         UNCHANGED <<now, row, boundAt, since, startTime, target>>, inFlight' \subseteq inFlight,
         status' = status \/ ~status'.completed
  PROVE  IInv'
<1>1. \A s \in Run : ~Active(s)'
  BY DEF IInv, TypeOK, AtMostOneRuns, Fail, Goto, Active, Ended
<1>2. ~running'
  BY DEF Fail
<1> QED  BY <1>1, <1>2, StopIsSound

\* The execution under way moves on, writing no row.
LEMMA MoveIsSound ==
  ASSUME IInv, TypeOK', NEW r \in Run, Active(r),
         NEW label \in PC \ (Ended \union {"idle"}), Goto(r, label),
         UNCHANGED <<running, now, row, boundAt, since, inFlight, startTime, target>>,
         status' = status \/ ~status'.completed,
         RunInv(r)'
  PROVE  IInv'
<1>1. Active(r)' /\ \A s \in Run : Active(s)' => s = r
  BY DEF IInv, TypeOK, AtMostOneRuns, Goto, Active
<1>2. RunningIsReleased' /\ AtMostOneRuns'
  BY <1>1 DEF IInv, RunningIsReleased, AtMostOneRuns
<1>3. WriteInv' /\ CompletedInv'
  BY DEF IInv, WriteInv, CompletedInv
<1>4. TruncatedNeverClears'
  BY DEF IInv, TruncatedNeverClears, Advances, Ids, Given
<1>5. CompletedMirrorsSnapshot'
  BY DEF IInv, CompletedMirrorsSnapshot, Ids, Given, OfCatalog, Renewed
<1> QED  BY <1>1, <1>2, <1>3, <1>4, <1>5 DEF IInv, RunInv

\* While nothing is written FreshInv stays, until the snapshot is replaced.
LEMMA FreshStays ==
  ASSUME NEW r \in Run, FreshInv(r), pc[r] \in Importing => pc'[r] \in Importing,
         UNCHANGED <<row, boundAt, inFlight, startTime, target>>
  PROVE  FreshInv(r)'
  BY DEF FreshInv, OfCatalog, Renewed, Ids

\* What is known of an execution stays while nothing it depends on changes.
LEMMA RunInvStays ==
  ASSUME NEW r \in Run, RunInv(r), pc'[r] = pc[r],
         UNCHANGED <<row, boundAt, inFlight, startTime, target, status, download, pages, left, rancid>>, TypeOK
  PROVE  RunInv(r)'
<1>1. DownloadInv(r)'
  BY DEF RunInv, DownloadInv
<1>2. FreshInv(r)'
  BY FreshStays DEF RunInv
<1>3. ImportInv(r)'
  <2>1. InFlightOf(r)' = InFlightOf(r) /\ \A c \in Code : Given(c)' <=> Given(c)
    BY DEF InFlightOf, Given
  <2>2. Ids(target)' = Ids(target) /\ Ids(left)' = Ids(left)
    BY DEF Ids
  <2>3. Ids(target) \subseteq Code
    BY IdsAreCodes DEF TypeOK
  <2>4. Advances(target, 0)' <=> Advances(target, 0)
    BY DEF Advances
  <2> QED  BY <2>1, <2>2, <2>3, <2>4 DEF RunInv, ImportInv
<1>4. ClearInv(r)'
  BY DEF RunInv, ClearInv, OfCatalog, Renewed, Ids, InFlightOf
<1> QED  BY <1>1, <1>2, <1>3, <1>4 DEF RunInv

\* An execution starts: every row and write is older.
LEMMA ExecuteIsSound == ASSUME IInv, NEW r \in Run, Execute(r) PROVE IInv'
<1>1. TypeOK'
  BY DownloadTyped DEF IInv
<1>2. CASE running
  <2>1. pc' = [pc EXCEPT ![r] = "refused"] /\ pc[r] = "idle"
        /\ UNCHANGED <<running, startTime, loopVars, importVars, fileVars, stockVars, since>>
    BY <1>2 DEF Execute, Goto
  <2>2. \A s \in Run : Active(s)' <=> Active(s)
    BY <2>1 DEF IInv, TypeOK, Active, Ended
  <2>3. \A s \in Run : Active(s) => pc'[s] = pc[s]
    BY <2>1 DEF IInv, TypeOK, Active
  <2>4. RunningIsReleased' /\ AtMostOneRuns'
    BY <2>1, <2>2 DEF IInv, RunningIsReleased, AtMostOneRuns
  <2>5. \A s \in Run : Active(s)' => RunInv(s)'
    BY <2>1, <2>2, <2>3, RunInvStays DEF IInv, RunInv, stockVars, fileVars, importVars, loopVars
  <2>6. WriteInv' /\ CompletedInv'
    BY <2>1 DEF IInv, WriteInv, CompletedInv, stockVars, fileVars
  <2>7. TruncatedNeverClears'
    BY <2>1 DEF IInv, TruncatedNeverClears, Advances, Ids, Given, stockVars, fileVars
  <2>8. CompletedMirrorsSnapshot'
    BY <2>1 DEF IInv, CompletedMirrorsSnapshot, Ids, Given, OfCatalog, Renewed, stockVars, fileVars
  <2>9. startTime' <= now'
    BY <2>1 DEF IInv, stockVars
  <2> QED  BY <1>1, <2>4, <2>5, <2>6, <2>7, <2>8, <2>9 DEF IInv, RunInv
<1>3. CASE ~running
  <2>1. /\ pc' = [pc EXCEPT ![r] = "starting"] /\ running' /\ startTime' = now
        /\ UNCHANGED <<fileVars, stockVars, since>>
    BY <1>3 DEF Execute, Goto
  <2>2. Active(r)' /\ \A s \in Run : Active(s)' => s = r
    BY <1>3, <2>1 DEF IInv, TypeOK, RunningIsReleased, Active, Ended
  <2>3. RunningIsReleased' /\ AtMostOneRuns'
    BY <2>1, <2>2 DEF RunningIsReleased, AtMostOneRuns
  <2>4. Quiet /\ pc'[r] = "starting"
    BY <2>1 DEF Execute, IInv, TypeOK
  <2>5. DownloadInv(r)' /\ ImportInv(r)' /\ ClearInv(r)'
    BY <2>1, <2>4 DEF Quiet, DownloadInv, ImportInv, ClearInv, Downloading, Importing, stockVars
  <2>6. FreshInv(r)'
    <3>1. \A c \in Code : ~(row[c].updatedAt >= now)
      BY <2>4 DEF Quiet, IInv, TypeOK
    <3>2. \A w \in inFlight : ~(w.at >= now)
      BY <2>4 DEF Quiet, IInv, TypeOK, Write
    <3> QED  BY <2>1, <3>1, <3>2 DEF FreshInv, stockVars
  <2>7. WriteInv' /\ CompletedInv' /\ startTime' <= now'
    BY <2>1 DEF IInv, TypeOK, WriteInv, CompletedInv, stockVars, fileVars
  <2>8. TruncatedNeverClears'
    BY <2>1 DEF IInv, TruncatedNeverClears, Advances, Ids, Given, stockVars, fileVars
  <2>9. CompletedMirrorsSnapshot'
    BY <2>1 DEF IInv, CompletedMirrorsSnapshot, Ids, Given, OfCatalog, Renewed, stockVars, fileVars
  <2> QED  BY <1>1, <2>2, <2>3, <2>5, <2>6, <2>7, <2>8, <2>9 DEF IInv
<1> QED  BY <1>2, <1>3

\* The download, until its end.
LEMMA DownloadIsSound ==
  ASSUME IInv, NEW r \in Run, Break(r) \/ (DownloadStep(r) /\ ~GotEnd(r)) PROVE IInv'
<1> USE DEF loopVars, importVars, fileVars, stockVars, historyVars
<1>0. TypeOK' /\ TypeOK
  BY DownloadTyped DEF IInv
<1>1. Active(r) /\ RunInv(r)
  BY DEF IInv, RunInv, Active, Ended, DownloadStep, Break, Open, RequestFails, Retry, GotPage, GotGarbage, NextPage
<1>2. CASE Break(r)
  BY <1>0, <1>1, <1>2, FailIsSound DEF Break
<1>3. CASE Open(r)
  <2>1. /\ pc[r] = "starting" /\ pc'[r] = "page" /\ download' = <<>> /\ pages' = 0
        /\ UNCHANGED <<running, now, row, boundAt, since, inFlight, startTime, target, status>>
    BY <1>0, <1>3 DEF Open, Goto, TypeOK
  <2>2. DownloadInv(r)'
    BY <1>1, <2>1, NumberFacts, EmptySeq DEF RunInv, DownloadInv, Downloading, Importing
  <2>3. FreshInv(r)' /\ ImportInv(r)' /\ ClearInv(r)'
    BY <1>1, <2>1, FreshStays DEF RunInv, ImportInv, ClearInv, Importing
  <2>4. Goto(r, "page") /\ "page" \in PC \ (Ended \union {"idle"})
    BY <1>3 DEF Open, PC, Ended
  <2> QED  BY <1>0, <1>1, <2>1, <2>2, <2>3, <2>4, MoveIsSound DEF RunInv
<1>4. CASE RequestFails(r)
  <2>1. CASE attempt + 1 < Attempts
    <3>0. /\ pc[r] = "page" /\ Goto(r, "pause")
          /\ UNCHANGED <<running, now, row, boundAt, since, inFlight, startTime, target, status, download, pages>>
      <4>1. ~(attempt + 1 >= Attempts)
        <5>1. attempt \in Nat /\ Attempts \in Nat
          BY <1>0, NumberFacts DEF TypeOK
        <5> QED  BY <2>1, <5>1
      <4> QED  BY <1>4, <4>1 DEF RequestFails
    <3>1. pc'[r] = "pause" /\ UNCHANGED <<row, boundAt, since, inFlight, startTime, target, status, download, pages>>
      BY <1>0, <3>0 DEF Goto, TypeOK
    <3>2. DownloadInv(r)'
      BY <1>1, <3>0, <3>1 DEF RunInv, DownloadInv, Downloading, Importing
    <3>3. FreshInv(r)' /\ ImportInv(r)' /\ ClearInv(r)'
      BY <1>1, <3>0, <3>1, FreshStays DEF RunInv, ImportInv, ClearInv, Importing
    <3>4. "pause" \in PC \ (Ended \union {"idle"})
      BY DEF PC, Ended
    <3> QED  BY <1>0, <1>1, <3>0, <3>1, <3>2, <3>3, <3>4, MoveIsSound DEF RunInv
  <2>2. CASE ~(attempt + 1 < Attempts)
    <3>1. FailDownload(r) /\ UNCHANGED <<now, row, boundAt, since, startTime, inFlight>>
      BY <1>4, <2>2 DEF RequestFails
    <3>2. Fail(r) /\ UNCHANGED target /\ ~status'.completed
      BY <3>1 DEF FailDownload, Report
    <3> QED  BY <1>0, <1>1, <3>1, <3>2, FailIsSound
  <2> QED  BY <2>1, <2>2
<1>5. CASE Retry(r)
  <2>1. /\ pc[r] = "pause" /\ pc'[r] = "page" /\ Goto(r, "page")
        /\ UNCHANGED <<running, now, row, boundAt, since, inFlight, startTime, target, status, download, pages>>
    BY <1>0, <1>5 DEF Retry, Goto, TypeOK
  <2>2. DownloadInv(r)'
    BY <1>1, <2>1 DEF RunInv, DownloadInv, Downloading, Importing
  <2>3. FreshInv(r)' /\ ImportInv(r)' /\ ClearInv(r)'
    BY <1>1, <2>1, FreshStays DEF RunInv, ImportInv, ClearInv, Importing
  <2>4. "page" \in PC \ (Ended \union {"idle"})
    BY DEF PC, Ended
  <2> QED  BY <1>0, <1>1, <2>1, <2>2, <2>3, <2>4, MoveIsSound DEF RunInv
<1>6. CASE GotPage(r)
  <2>1. PICK rows \in Page : download' = download \o rows
    BY <1>6 DEF GotPage
  <2>2. /\ pc[r] = "page" /\ pc'[r] = "sleep" /\ Goto(r, "sleep") /\ pages' = pages + 1
        /\ UNCHANGED <<running, now, row, boundAt, since, inFlight, startTime, target>>
    BY <1>0, <1>6 DEF GotPage, Goto, TypeOK
  <2>3. IF pages' % StatusEvery = 0 THEN ~status'.completed ELSE status' = status
    BY <1>6 DEF GotPage, Report
  <2>4. Len(download') <= pages' * PageSize
    <3>1. Len(download') = Len(download) + Len(rows) /\ Len(rows) <= PageSize /\ Len(rows) \in Nat
      BY <1>0, <2>1, PageIsSeq, ConcatProperties, NumberFacts DEF TypeOK
    <3>2. Len(download) <= pages * PageSize
      BY <1>1, <2>2 DEF RunInv, DownloadInv, Downloading
    <3>3. pages \in Nat /\ Len(download) \in Nat
      BY <1>0, LenProperties DEF TypeOK
    <3>4. (pages + 1) * PageSize = pages * PageSize + PageSize /\ pages * PageSize \in Nat
      BY <3>3, NumberFacts
    <3> QED  BY <2>2, <3>1, <3>2, <3>3, <3>4, NumberFacts
  <2>5. status'.completed => pages' < StatusEvery
    <3> SUFFICES ASSUME status'.completed PROVE pages' < StatusEvery
      OBVIOUS
    <3>1. status' = status /\ pages' % StatusEvery # 0
      BY <2>3
    <3>2. pages < StatusEvery
      BY <1>1, <2>2, <3>1 DEF RunInv, DownloadInv, Downloading
    <3>3. pages' # StatusEvery
      BY <3>1, StatusIsWritten, NumberFacts
    <3> QED  BY <1>0, <2>2, <3>2, <3>3, NumberFacts DEF TypeOK
  <2>6. DownloadInv(r)'
    BY <1>1, <2>2, <2>4, <2>5 DEF RunInv, DownloadInv, Downloading, Importing
  <2>7. FreshInv(r)' /\ ImportInv(r)' /\ ClearInv(r)'
    BY <1>1, <2>2, FreshStays DEF RunInv, ImportInv, ClearInv, Importing
  <2>8. "sleep" \in PC \ (Ended \union {"idle"})
    BY DEF PC, Ended
  <2>9. status' = status \/ ~status'.completed
    BY <2>3
  <2> QED  BY <1>0, <1>1, <2>2, <2>6, <2>7, <2>8, <2>9, MoveIsSound DEF RunInv
<1>7. CASE GotGarbage(r)
  <2>1. Fail(r) /\ UNCHANGED <<target, now, row, boundAt, since, startTime, inFlight>> /\ ~status'.completed
    BY <1>7 DEF GotGarbage, FailDownload, Report
  <2> QED  BY <1>0, <1>1, <2>1, FailIsSound
<1>8. CASE NextPage(r)
  <2>1. CASE pages < MaxPages
    <3>1. /\ pc[r] = "sleep" /\ pc'[r] = "page" /\ Goto(r, "page")
          /\ UNCHANGED <<running, now, row, boundAt, since, inFlight, startTime, target, status, download, pages>>
      BY <1>0, <1>8, <2>1 DEF NextPage, Goto, TypeOK
    <3>2. DownloadInv(r)'
      BY <1>1, <3>1 DEF RunInv, DownloadInv, Downloading, Importing
    <3>3. FreshInv(r)' /\ ImportInv(r)' /\ ClearInv(r)'
      BY <1>1, <3>1, FreshStays DEF RunInv, ImportInv, ClearInv, Importing
    <3>4. "page" \in PC \ (Ended \union {"idle"})
      BY DEF PC, Ended
    <3> QED  BY <1>0, <1>1, <3>1, <3>2, <3>3, <3>4, MoveIsSound DEF RunInv
  <2>2. CASE ~(pages < MaxPages)
    <3>1. FailDownload(r) /\ UNCHANGED <<now, row, boundAt, since, startTime, inFlight>>
      BY <1>8, <2>2 DEF NextPage
    <3>2. Fail(r) /\ UNCHANGED target /\ ~status'.completed
      BY <3>1 DEF FailDownload, Report
    <3> QED  BY <1>0, <1>1, <3>1, <3>2, FailIsSound
  <2> QED  BY <2>1, <2>2
<1> QED  BY <1>2, <1>3, <1>4, <1>5, <1>6, <1>7, <1>8 DEF DownloadStep

\* The end of a download: no write of a catalogue is in flight when the snapshot is
\* replaced, and the status has been written.
LEMMA GotEndIsSound == ASSUME IInv, NEW r \in Run, GotEnd(r) PROVE IInv'
<1> USE DEF loopVars, importVars, fileVars, stockVars, historyVars
<1>0. TypeOK' /\ TypeOK /\ pc[r] = "page" /\ Active(r) /\ RunInv(r)
  BY DownloadTyped DEF IInv, RunInv, GotEnd, DownloadStep, Active, Ended
<1>1. CASE Len(download) < MinTotal
  <2>1. Fail(r) /\ UNCHANGED <<target, now, row, boundAt, since, startTime, inFlight>> /\ ~status'.completed
    BY <1>1 DEF GotEnd, FailDownload, Report
  <2> QED  BY <1>0, <2>1, FailIsSound
<1>2. CASE ~(Len(download) < MinTotal)
  <2>1. /\ pc' = [pc EXCEPT ![r] = "validate"] /\ pc'[r] = "validate"
        /\ UNCHANGED <<running, status, startTime, now, row, boundAt, since, inFlight>>
    BY <1>0, <1>2 DEF GotEnd, Goto, TypeOK
  <2>2. ~status.completed
    <3>1. Len(download) <= pages * PageSize /\ (status.completed => pages < StatusEvery)
      BY <1>0 DEF RunInv, DownloadInv, Downloading
    <3>2. pages \in Nat /\ Len(download) \in Nat /\ StatusEvery \in Nat /\ MinTotal \in Nat
      BY <1>0, LenProperties, NumberFacts DEF TypeOK
    <3>3. pages >= StatusEvery
      BY <1>2, <3>1, <3>2, LargeIsReported
    <3> QED  BY <3>1, <3>2, <3>3
  <2>3. \A w \in inFlight : w.by \notin Run /\ w.by \notin Run /\ w.at >= startTime
    BY <1>0, StockFacts DEF RunInv, DownloadInv, Importing, GotEnd, Landed
  <2>4. Active(r)' /\ \A s \in Run : Active(s)' => s = r
    BY <1>0, <2>1 DEF IInv, TypeOK, AtMostOneRuns, Active, Ended
  <2>5. RunningIsReleased' /\ AtMostOneRuns'
    BY <1>0, <2>1, <2>4 DEF IInv, RunningIsReleased, AtMostOneRuns
  <2>6. WriteInv' /\ TruncatedNeverClears' /\ CompletedInv' /\ CompletedMirrorsSnapshot'
    BY <2>1, <2>2, <2>3 DEF IInv, WriteInv, TruncatedNeverClears, CompletedInv, CompletedMirrorsSnapshot
  <2>7. DownloadInv(r)' /\ ImportInv(r)' /\ ClearInv(r)'
    BY <2>1, <2>2, <2>3 DEF DownloadInv, ImportInv, ClearInv, Downloading, Importing
  <2>8. FreshInv(r)'
    BY <1>0, <2>1 DEF RunInv, FreshInv, OfCatalog, Renewed, Importing
  <2> QED  BY <1>0, <2>1, <2>4, <2>5, <2>6, <2>7, <2>8 DEF IInv
<1> QED  BY <1>1, <1>2

\* The steps of the import that launch nothing.
LEMMA ImportIsSound ==
  ASSUME IInv, NEW r \in Run,
         Validate(r) \/ UnreadableBatch(r) \/ Flushed(r) \/ Cleanup(r) \/ Find(r)
  PROVE  IInv'
<1> USE DEF loopVars, importVars, fileVars, stockVars, historyVars
<1>0. TypeOK' /\ TypeOK
  BY ImportTyped DEF IInv, ImportStep
<1>1. Active(r) /\ RunInv(r)
  BY DEF IInv, RunInv, Active, Ended, Validate, UnreadableBatch, Flushed, Cleanup, Find
<1>2. UNCHANGED <<now, row, boundAt, since, inFlight, startTime, target, download, pages>>
  BY DEF Validate, UnreadableBatch, Flushed, Cleanup, Find
<1>3. CASE Fail(r)
  <2>1. status' = status \/ ~status'.completed
    BY DEF Validate, UnreadableBatch, Flushed, Cleanup, Find, Report
  <2> QED  BY <1>0, <1>1, <1>2, <1>3, <2>1, FailIsSound
<1>4. CASE Validate(r) /\ ~Fail(r)
  <2>1. /\ pc[r] = "validate" /\ Goto(r, "batch") /\ left' = target
        /\ UNCHANGED <<running, status>>
        /\ Advances(target, 0) /\ Len(target) >= MinTotal
    BY <1>4 DEF Validate
  <2>2. pc'[r] = "batch"
    BY <1>0, <2>1 DEF Goto, TypeOK
  <2>3. \A w \in inFlight : w.by \notin Run
    BY <1>1, <2>1, StockFacts DEF RunInv, DownloadInv, Importing
  <2>4. DownloadInv(r)'
    BY <1>1, <1>2, <2>1, <2>2 DEF RunInv, DownloadInv, Downloading, Importing
  <2>5. ImportInv(r)'
    <3>1. InFlightOf(r)' = {}
      BY <1>2, <2>3 DEF InFlightOf
    <3>2. Ids(left)' = Ids(target)' /\ Advances(target, 0)' /\ Len(target') >= MinTotal
      BY <1>2, <2>1 DEF Ids, Advances
    <3> QED  BY <1>2, <2>2, <2>3, <3>1, <3>2 DEF ImportInv
  <2>6. FreshInv(r)' /\ ClearInv(r)'
    BY <1>1, <1>2, <2>2, FreshStays DEF RunInv, ClearInv, Importing
  <2>7. "batch" \in PC \ (Ended \union {"idle"})
    BY DEF PC, Ended
  <2> QED  BY <1>0, <1>1, <1>2, <2>1, <2>4, <2>5, <2>6, <2>7, MoveIsSound DEF RunInv
<1>5. CASE Flushed(r)
  <2>1. /\ pc[r] = "bulk" /\ Goto(r, "batch") /\ InFlightOf(r) = {}
        /\ UNCHANGED <<running, left>> /\ (status' = status \/ ~status'.completed)
    BY <1>5 DEF Flushed, InFlightOf, Report
  <2>2. pc'[r] = "batch"
    BY <1>0, <2>1 DEF Goto, TypeOK
  <2>3. DownloadInv(r)'
    BY <1>1, <1>2, <2>1, <2>2 DEF RunInv, DownloadInv, Downloading, Importing
  <2>4. ImportInv(r)'
    <3>1. InFlightOf(r)' = {}
      BY <1>2, <2>1 DEF InFlightOf
    <3>2. /\ Advances(target, 0) /\ Len(target) >= MinTotal
          /\ \A w \in inFlight : w.by \in Run => w.by = r
          /\ Ids(left) \subseteq Ids(target)
          /\ \A c \in Ids(target) \ Ids(left) : Given(c) /\ row[c].updatedAt >= startTime
      BY <1>1, <2>1 DEF RunInv, ImportInv, Importing
    <3>3. /\ Advances(target, 0)' /\ Len(target)' >= MinTotal
          /\ Ids(left)' = Ids(left) /\ Ids(target)' = Ids(target)
          /\ \A c : Given(c)' <=> Given(c)
      BY <1>2, <2>1, <3>2 DEF Ids, Advances, Given
    <3> QED  BY <1>2, <2>2, <3>1, <3>2, <3>3 DEF ImportInv
  <2>5. FreshInv(r)' /\ ClearInv(r)'
    BY <1>1, <1>2, <2>2, FreshStays DEF RunInv, ClearInv, Importing
  <2>6. "batch" \in PC \ (Ended \union {"idle"})
    BY DEF PC, Ended
  <2> QED  BY <1>0, <1>1, <1>2, <2>1, <2>3, <2>4, <2>5, <2>6, MoveIsSound DEF RunInv
<1>6. CASE Cleanup(r)
  <2>1. /\ pc[r] = "batch" /\ Goto(r, "find") /\ Batch = <<>>
        /\ UNCHANGED <<running, left>> /\ ~status'.completed
    BY <1>6 DEF Cleanup, Report
  <2>2. pc'[r] = "find"
    BY <1>0, <2>1 DEF Goto, TypeOK
  <2>3. left = <<>>
    <3>1. CASE Len(left) >= BatchSize
      <4>1. \A k \in 1 .. BatchSize : left[k] \in Code
        BY <1>0, <3>1, NumberFacts, LenProperties, ElementOfSeq DEF TypeOK
      <4>2. Len(SubSeq(left, 1, BatchSize)) = BatchSize
        BY <4>1, NumberFacts, SubSeqProperties
      <4> QED  BY <2>1, <3>1, <4>2, NumberFacts, EmptySeq DEF Batch
    <3> QED  BY <2>1, <3>1 DEF Batch
  <2>4. DownloadInv(r)'
    BY <1>1, <1>2, <2>1, <2>2 DEF RunInv, DownloadInv, Downloading, Importing
  <2>5. ImportInv(r)'
    <3>1. /\ Advances(target, 0) /\ Len(target) >= MinTotal
          /\ \A w \in inFlight : w.by \in Run => w.by = r
          /\ InFlightOf(r) = {}
          /\ Ids(left) \subseteq Ids(target)
          /\ \A c \in Ids(target) \ Ids(left) : Given(c) /\ row[c].updatedAt >= startTime
      BY <1>1, <2>1 DEF RunInv, ImportInv, Importing
    <3>2. /\ Advances(target, 0)' /\ Len(target)' >= MinTotal
          /\ Ids(left)' = Ids(left) /\ Ids(target)' = Ids(target) /\ InFlightOf(r)' = {}
          /\ \A c : Given(c)' <=> Given(c)
      BY <1>2, <2>1, <3>1 DEF Ids, Advances, Given, InFlightOf
    <3> QED  BY <1>2, <2>1, <2>2, <2>3, <3>1, <3>2 DEF ImportInv
  <2>6. FreshInv(r)' /\ ClearInv(r)'
    BY <1>1, <1>2, <2>2, FreshStays DEF RunInv, ClearInv, Importing
  <2>7. "find" \in PC \ (Ended \union {"idle"})
    BY DEF PC, Ended
  <2> QED  BY <1>0, <1>1, <1>2, <2>1, <2>4, <2>5, <2>6, <2>7, MoveIsSound DEF RunInv
<1>7. CASE Find(r) /\ ~Fail(r)
  <2>1. /\ pc[r] = "find" /\ Goto(r, "found") /\ rancid' = Rancid(startTime)
        /\ UNCHANGED <<running, left, status>>
    BY <1>7 DEF Find
  <2>2. pc'[r] = "found"
    BY <1>0, <2>1 DEF Goto, TypeOK
  <2>3. DownloadInv(r)'
    BY <1>1, <1>2, <2>1, <2>2 DEF RunInv, DownloadInv, Downloading, Importing
  <2>4. /\ Advances(target, 0) /\ Len(target) >= MinTotal
        /\ \A w \in inFlight : w.by \in Run => w.by = r
        /\ InFlightOf(r) = {} /\ left = <<>>
        /\ \A c \in Ids(target) : Given(c) /\ row[c].updatedAt >= startTime
    BY <1>1, <2>1, EmptyHasNoIds DEF RunInv, ImportInv, Importing
  <2>5. /\ Advances(target, 0)' /\ Len(target)' >= MinTotal
        /\ Ids(left)' = Ids(left) /\ Ids(target)' = Ids(target) /\ InFlightOf(r)' = {}
        /\ \A c : (Given(c)' <=> Given(c)) /\ (OfCatalog(c)' <=> OfCatalog(c))
    BY <1>2, <2>1, <2>4 DEF Ids, Advances, Given, OfCatalog, Renewed, InFlightOf
  <2>6. ImportInv(r)'
    BY <1>2, <2>1, <2>2, <2>4, <2>5, EmptyHasNoIds DEF ImportInv
  <2>7. ClearInv(r)'
    <3>1. rancid' \intersect Ids(target) = {}
      <4> SUFFICES ASSUME NEW c \in Ids(target), c \in rancid' PROVE FALSE
        OBVIOUS
      <4>1. c \in Code /\ row[c].updatedAt < startTime
        BY <2>1 DEF Rancid
      <4>2. row[c].updatedAt \in Nat /\ startTime \in Nat
        BY <1>0, <4>1 DEF TypeOK
      <4> QED  BY <2>4, <4>1, <4>2
    <3>2. ASSUME NEW c \in Code, OfCatalog(c), c \notin rancid'
          PROVE  c \in Ids(target) \union Renewed(startTime)
      <4>1. row[c].stock # Absent
        BY <3>2, StockFacts DEF OfCatalog, Renewed
      <4>2. row[c].updatedAt \in Nat /\ startTime \in Nat
        BY <1>0 DEF TypeOK
      <4>3. row[c].updatedAt >= startTime
        BY <2>1, <3>2, <4>1, <4>2 DEF Rancid
      <4> QED  BY <1>1, <3>2, <4>3 DEF RunInv, FreshInv
    <3>3. Renewed(startTime)' = Renewed(startTime)
      BY <1>2 DEF Renewed
    <3> QED  BY <2>2, <2>5, <3>1, <3>2, <3>3 DEF ClearInv
  <2>8. FreshInv(r)'
    BY <1>1, <1>2, <2>2, FreshStays DEF RunInv, Importing
  <2>9. "found" \in PC \ (Ended \union {"idle"})
    BY DEF PC, Ended
  <2> QED  BY <1>0, <1>1, <1>2, <2>1, <2>3, <2>6, <2>7, <2>8, <2>9, MoveIsSound DEF RunInv
<1> QED  BY <1>3, <1>4, <1>5, <1>6, <1>7 DEF UnreadableBatch
\* A batch is launched: its rows are the next of the snapshot.
LEMMA FlushIsSound == ASSUME IInv, NEW r \in Run, Flush(r) PROVE IInv'
<1> USE DEF loopVars, importVars, fileVars, stockVars, historyVars
<1>0. TypeOK' /\ TypeOK
  BY ImportTyped DEF IInv, ImportStep
<1>1. Active(r) /\ RunInv(r) /\ pc[r] = "batch"
  BY DEF IInv, RunInv, Active, Ended, Flush
<1>2. /\ pc' = [pc EXCEPT ![r] = "bulk"] /\ pc'[r] = "bulk"
      /\ inFlight' = inFlight \union Launched(r, Ids(Batch), r)
      /\ UNCHANGED <<running, startTime, rancid, download, target, status, now, row, boundAt, since, pages>>
  BY <1>0 DEF Flush, Goto, TypeOK, Launch
<1>3. /\ Ids(Batch) \subseteq Code /\ Ids(left) = Ids(Batch) \union Ids(left)'
  <2>1. left' = SubSeq(left, Len(Batch) + 1, Len(left)) /\ left \in Seq(Code)
    BY <1>0 DEF Flush, TypeOK
  <2>2. Ids(left)' = Ids(left')
    BY DEF Ids
  <2> QED  BY <2>1, <2>2, BatchSplitsLeft
<1>4. \A w \in Launched(r, Ids(Batch), r) :
          w.by = r /\ w.stock = r /\ w.code \in Ids(Batch) /\ w.at = now
  BY DEF Launched
<1>5. startTime <= now /\ now >= startTime
  BY <1>0 DEF IInv, TypeOK
<1>6. /\ Advances(target, 0) /\ Len(target) >= MinTotal
      /\ \A w \in inFlight : w.by \in Run => w.by = r
      /\ InFlightOf(r) = {}
      /\ Ids(left) \subseteq Ids(target)
      /\ \A c \in Ids(target) \ Ids(left) : Given(c) /\ row[c].updatedAt >= startTime
  BY <1>1 DEF RunInv, ImportInv, Importing
<1>7. /\ Advances(target, 0)' /\ Len(target)' >= MinTotal /\ Ids(target)' = Ids(target)
      /\ \A c : (Given(c)' <=> Given(c)) /\ (OfCatalog(c)' <=> OfCatalog(c))
      /\ Renewed(startTime)' = Renewed(startTime)
  BY <1>2, <1>6 DEF Ids, Advances, Given, OfCatalog, Renewed
<1>8. Active(r)' /\ \A s \in Run : Active(s)' => s = r
  BY <1>0, <1>1, <1>2 DEF IInv, TypeOK, AtMostOneRuns, Active, Ended
<1>9. RunningIsReleased' /\ AtMostOneRuns'
  BY <1>1, <1>2, <1>8 DEF IInv, RunningIsReleased, AtMostOneRuns
<1>10. ~status.completed /\ \A w \in inFlight : w.at >= startTime
  BY <1>1 DEF RunInv, DownloadInv, Importing
<1>11. WriteInv'
  BY <1>2, <1>4, StockFacts DEF IInv, WriteInv
<1>12. TruncatedNeverClears'
  <2> SUFFICES ASSUME NEW w \in inFlight', w.by \in Run, w.stock = Empty PROVE FALSE
    BY <1>7 DEF TruncatedNeverClears
  <2>1. w \notin Launched(r, Ids(Batch), r)
    BY <1>4, StockFacts
  <2> QED  BY <1>2, <1>6, <2>1 DEF InFlightOf
<1>13. CompletedMirrorsSnapshot' /\ CompletedInv'
  BY <1>2, <1>10 DEF CompletedMirrorsSnapshot, CompletedInv
<1>14. DownloadInv(r)'
  BY <1>2, <1>4, <1>5, <1>10 DEF DownloadInv, Downloading, Importing
<1>15. FreshInv(r)'
  <2>1. \A w \in inFlight' : w.stock = Kept => w \in inFlight
    BY <1>2, <1>4, StockFacts
  <2> QED  BY <1>1, <1>2, <1>7, <2>1 DEF RunInv, FreshInv, Importing
<1>16. ImportInv(r)'
  <2>1. InFlightOf(r)' = Launched(r, Ids(Batch), r)
    BY <1>2, <1>4, <1>6 DEF InFlightOf
  <2>2. \A c \in Ids(Batch) : \E w \in Launched(r, Ids(Batch), r) : w.code = c
    BY LaunchedForEach
  <2>3. \A w \in inFlight' : w.by \in Run => w.by = r
    BY <1>2, <1>4, <1>6
  <2>4. \A c \in Ids(target) \ Ids(left)' :
            \/ Given(c) /\ row[c].updatedAt >= startTime
            \/ \E w \in InFlightOf(r)' : w.code = c
    BY <1>3, <1>6, <2>1, <2>2
  <2>5. Ids(left)' \subseteq Ids(target) /\ \A w \in InFlightOf(r)' : w.stock = r /\ w.code \in Ids(target)
    BY <1>3, <1>4, <1>6, <2>1
  <2> QED  BY <1>2, <1>7, <2>3, <2>4, <2>5 DEF ImportInv
<1>17. ClearInv(r)'
  BY <1>2 DEF ClearInv
<1> QED  BY <1>0, <1>2, <1>5, <1>8, <1>9, <1>11, <1>12, <1>13, <1>14, <1>15, <1>16, <1>17 DEF IInv

\* The older rows are emptied: none is of the snapshot, whose goods all have stock.
LEMMA ClearIsSound == ASSUME IInv, NEW r \in Run, Clear(r) PROVE IInv'
<1> USE DEF loopVars, importVars, fileVars, stockVars, historyVars
<1>0. TypeOK' /\ TypeOK
  BY ImportTyped DEF IInv, ImportStep
<1>1. Active(r) /\ RunInv(r) /\ pc[r] = "found"
  BY DEF IInv, RunInv, Active, Ended, Clear
<1>2. /\ pc' = [pc EXCEPT ![r] = "clearing"] /\ pc'[r] = "clearing"
      /\ inFlight' = inFlight \union Launched(r, rancid, Empty)
      /\ UNCHANGED <<running, startTime, left, rancid, download, target, status, now, row, boundAt, since, pages>>
  BY <1>0 DEF Clear, Goto, TypeOK, Launch
<1>4. \A w \in Launched(r, rancid, Empty) :
          w.by = r /\ w.stock = Empty /\ w.code \in rancid /\ w.at = now
  BY DEF Launched
<1>5. startTime <= now /\ now >= startTime
  BY <1>0 DEF IInv, TypeOK
<1>6. /\ Advances(target, 0) /\ Len(target) >= MinTotal
      /\ \A w \in inFlight : w.by \in Run => w.by = r
      /\ InFlightOf(r) = {} /\ left = <<>>
      /\ \A c \in Ids(target) : Given(c) /\ row[c].updatedAt >= startTime
  BY <1>1, EmptyHasNoIds DEF RunInv, ImportInv, Importing
<1>7. /\ Advances(target, 0)' /\ Len(target)' >= MinTotal
      /\ Ids(target)' = Ids(target) /\ Ids(left)' = Ids(left)
      /\ \A c : (Given(c)' <=> Given(c)) /\ (OfCatalog(c)' <=> OfCatalog(c))
      /\ Renewed(startTime)' = Renewed(startTime)
  BY <1>2, <1>6 DEF Ids, Advances, Given, OfCatalog, Renewed
<1>8. Active(r)' /\ \A s \in Run : Active(s)' => s = r
  BY <1>0, <1>1, <1>2 DEF IInv, TypeOK, AtMostOneRuns, Active, Ended
<1>9. RunningIsReleased' /\ AtMostOneRuns'
  BY <1>1, <1>2, <1>8 DEF IInv, RunningIsReleased, AtMostOneRuns
<1>10. ~status.completed /\ \A w \in inFlight : w.at >= startTime
  BY <1>1 DEF RunInv, DownloadInv, Importing
<1>11. /\ rancid \intersect Ids(target) = {}
       /\ \A c \in Code : OfCatalog(c) => c \in Ids(target) \union rancid \union Renewed(startTime)
  BY <1>1 DEF RunInv, ClearInv
<1>12. WriteInv'
  BY <1>2, <1>4, StockFacts DEF IInv, WriteInv
<1>13. TruncatedNeverClears'
  <2>1. \A w \in inFlight' : w.by \in Run => w.code \notin Ids(target)
    <3> SUFFICES ASSUME NEW w \in inFlight', w.by \in Run PROVE w.code \notin Ids(target)
      OBVIOUS
    <3>1. w \in Launched(r, rancid, Empty)
      BY <1>2, <1>6 DEF InFlightOf
    <3> QED  BY <1>4, <1>11, <3>1
  <2> QED  BY <1>6, <1>7, <2>1 DEF TruncatedNeverClears
<1>14. CompletedMirrorsSnapshot' /\ CompletedInv'
  BY <1>2, <1>10 DEF CompletedMirrorsSnapshot, CompletedInv
<1>15. DownloadInv(r)'
  BY <1>2, <1>4, <1>5, <1>10 DEF DownloadInv, Downloading, Importing
<1>16. FreshInv(r)'
  <2>1. \A w \in inFlight' : w.stock = Kept => w \in inFlight
    BY <1>2, <1>4, StockFacts
  <2> QED  BY <1>1, <1>2, <1>7, <2>1 DEF RunInv, FreshInv, Importing
<1>17. ImportInv(r)'
  <2>1. \A w \in inFlight' : w.by \in Run => w.by = r
    BY <1>2, <1>4, <1>6
  <2>2. Ids(left)' \subseteq Ids(target) /\ left' = <<>>
    BY <1>2, <1>6, <1>7, EmptyHasNoIds
  <2> QED  BY <1>2, <1>6, <1>7, <2>1, <2>2 DEF ImportInv
<1>18. ClearInv(r)'
  <2>1. \A c \in rancid : \E w \in InFlightOf(r)' : w.code = c /\ w.stock = Empty
    BY <1>2, <1>4 DEF InFlightOf, Launched
  <2>2. \A w \in InFlightOf(r)' : w.stock # r
    BY <1>2, <1>4, <1>6, StockFacts DEF InFlightOf
  <2> QED  BY <1>2, <1>7, <1>11, <2>1, <2>2 DEF ClearInv
<1> QED  BY <1>0, <1>2, <1>5, <1>8, <1>9, <1>12, <1>13, <1>14, <1>15, <1>16, <1>17, <1>18 DEF IInv

\* The catalogue is complete: the rows mirror the snapshot.
LEMMA FinishIsSound == ASSUME IInv, NEW r \in Run, Finish(r) PROVE IInv'
<1> USE DEF loopVars, importVars, fileVars, stockVars, historyVars
<1>0. TypeOK' /\ TypeOK
  BY ImportTyped DEF IInv, ImportStep
<1>1. Active(r) /\ RunInv(r) /\ pc[r] = "clearing" /\ InFlightOf(r) = {}
  BY DEF IInv, RunInv, Active, Ended, Finish
<1>2. /\ pc' = [pc EXCEPT ![r] = "done"] /\ ~running' /\ since' = startTime
      /\ UNCHANGED <<startTime, target, now, row, boundAt, inFlight>>
  BY DEF Finish, Goto
<1>3. \A s \in Run : ~Active(s)'
  BY <1>0, <1>1, <1>2 DEF IInv, TypeOK, AtMostOneRuns, Active, Ended
<1>4. RunningIsReleased' /\ AtMostOneRuns'
  BY <1>2, <1>3 DEF RunningIsReleased, AtMostOneRuns
<1>5. /\ \A w \in inFlight : w.by \in Run => w.by = r
      /\ \A c \in Ids(target) : Given(c)
  BY <1>1, EmptyHasNoIds DEF RunInv, ImportInv, Importing
<1>6. \A w \in inFlight : w.by \notin Run
  BY <1>0, <1>1, <1>5 DEF InFlightOf, TypeOK
<1>7. \A c \in Code : OfCatalog(c) => c \in Ids(target) \union Renewed(startTime)
  BY <1>1 DEF RunInv, ClearInv
<1>8. CompletedMirrorsSnapshot' /\ CompletedInv'
  BY <1>2, <1>5, <1>6, <1>7 DEF CompletedMirrorsSnapshot, CompletedInv, Ids, Given, OfCatalog, Renewed
<1>9. WriteInv' /\ TruncatedNeverClears'
  BY <1>2 DEF IInv, WriteInv, TruncatedNeverClears, Advances, Ids, Given
<1> QED  BY <1>0, <1>2, <1>3, <1>4, <1>8, <1>9 DEF IInv
-----------------------------------------------------------------------------
(***************************************************************************)
(* The other writers, MongoDB, crashes and the clock.                      *)
(***************************************************************************)
\* A write is launched beside the execution.
LEMMA LaunchIsSound ==
  ASSUME IInv, TypeOK', NEW w0 \in Write, w0.by \notin Run, w0.stock \in Search \union {Kept},
         w0.by \in Binding \/ w0.stock \in Search, w0.by \in Binding => w0.stock = Kept,
         w0.at = now, inFlight' = inFlight \union {w0},
         UNCHANGED <<running, pc, startTime, loopVars, importVars, fileVars, now, row, historyVars>>
  PROVE  IInv'
<1> USE DEF loopVars, importVars, fileVars, historyVars
<1>0. TypeOK /\ w0.at >= startTime /\ w0.stock # Empty
  BY StockFacts DEF IInv, TypeOK
<1>5. /\ \A c : (Given(c)' <=> Given(c)) /\ (OfCatalog(c)' <=> OfCatalog(c))
      /\ Ids(target)' = Ids(target) /\ Ids(left)' = Ids(left)
      /\ Advances(target, 0)' <=> Advances(target, 0)
      /\ \A r \in Run : (Active(r)' <=> Active(r)) /\ InFlightOf(r)' = InFlightOf(r)
      /\ Renewed(startTime)' = Renewed(startTime) /\ Renewed(since)' = Renewed(since)
  BY DEF Given, OfCatalog, Renewed, Ids, Advances, Active, InFlightOf
<1>6. RunningIsReleased' /\ AtMostOneRuns' /\ startTime' <= now'
  BY <1>5 DEF IInv, RunningIsReleased, AtMostOneRuns
<1>7. WriteInv' /\ CompletedInv' /\ CompletedMirrorsSnapshot'
  <2>1. WriteInv'
    BY DEF IInv, WriteInv
  <2>2. CompletedInv'
    BY DEF IInv, CompletedInv
  <2>3. CompletedMirrorsSnapshot'
    BY <1>5 DEF IInv, CompletedMirrorsSnapshot
  <2> QED  BY <2>1, <2>2, <2>3
<1>8. TruncatedNeverClears'
  BY <1>0, <1>5 DEF IInv, TruncatedNeverClears
<1>9. ASSUME NEW r \in Run, Active(r) PROVE RunInv(r)'
  <2>0. RunInv(r)
    BY <1>9 DEF IInv, RunInv
  <2>1. DownloadInv(r)'
    BY <1>0, <2>0 DEF RunInv, DownloadInv
  <2>2. FreshInv(r)'
    <3>1. \A w \in inFlight' : w.stock = Kept /\ w.by \notin Binding => w \in inFlight
      BY StockFacts
    <3> QED  BY <1>5, <2>0, <3>1 DEF RunInv, FreshInv
  <2>3. ImportInv(r)'
    <3>1. Ids(target) \subseteq Code
      BY <1>0, IdsAreCodes DEF TypeOK
    <3> QED  BY <1>0, <1>5, <2>0, <3>1 DEF RunInv, ImportInv
  <2>4. ClearInv(r)'
    BY <1>5, <2>0 DEF RunInv, ClearInv
  <2> QED  BY <2>1, <2>2, <2>3, <2>4 DEF RunInv
<1> QED  BY <1>0, <1>5, <1>6, <1>7, <1>8, <1>9 DEF IInv, RunInv

\* A launch for one code is one write.
LEMMA LaunchOfOne ==
  ASSUME TypeOK, NEW by \in Writer, NEW d \in Code,
         NEW stock \in Run \union Search \union {Empty, Kept}, Launch(by, {d}, stock)
  PROVE  \E w0 \in Write : /\ w0.by = by /\ w0.stock = stock /\ w0.at = now
                           /\ inFlight' = inFlight \union {w0}
<1> DEFINE w0 == [by |-> by, code |-> d, stock |-> stock, at |-> now]
<1>1. w0 \in Write /\ w0.by = by /\ w0.stock = stock /\ w0.at = now
  BY DEF TypeOK, Write
<1>2. inFlight' = inFlight \union {w0}
  BY DEF Launch, Launched
<1> QED  BY <1>1, <1>2, Zenon

LEMMA KeysJobIsSound == ASSUME IInv, NEW s \in Search, KeysJob(s) PROVE IInv'
<1>0. TypeOK' /\ TypeOK /\ s \notin Run /\ s \notin Binding /\ s \in Writer
  BY KeysJobTyped, StockFacts DEF IInv, Writer
<1>1. PICK d \in Code : Launch(s, {d}, s)
  BY DEF KeysJob
<1>2. PICK w0 \in Write : w0.by = s /\ w0.stock = s /\ w0.at = now /\ inFlight' = inFlight \union {w0}
  BY <1>0, <1>1, LaunchOfOne
<1>3. UNCHANGED <<running, pc, startTime, loopVars, importVars, fileVars, now, row, historyVars>>
  BY DEF KeysJob
<1> QED  BY <1>0, <1>2, <1>3, LaunchIsSound

\* A binding renews a row, whose stock stays.
LEMMA SetGoodIsSound == ASSUME IInv, NEW b \in Binding, SetGood(b) PROVE IInv'
<1>0. TypeOK' /\ TypeOK /\ b \notin Run /\ b \in Writer
  BY SetGoodTyped, StockFacts DEF IInv, Writer
<1>1. PICK d \in Code : Launch(b, {d}, Kept)
  BY DEF SetGood, SaveBinding
<1>2. PICK w0 \in Write : w0.by = b /\ w0.stock = Kept /\ w0.at = now /\ inFlight' = inFlight \union {w0}
  BY <1>0, <1>1, LaunchOfOne
<1>3. UNCHANGED <<running, pc, startTime, loopVars, importVars, fileVars, now, row, historyVars>>
  BY DEF SetGood
<1> QED  BY <1>0, <1>2, <1>3, LaunchIsSound

\* The cleanup empties a row and renews it: the row was given stock, and has none of
\* a catalogue.
LEMMA ClearOldGoodsIsSound == ASSUME IInv, ClearOldGoods PROVE IInv'
<1> USE DEF loopVars, importVars, fileVars, historyVars
<1>0. TypeOK' /\ TypeOK
  BY ClearOldGoodsTyped DEF IInv
<1>1. PICK d \in Code : ClearOldGood(d)
  BY DEF ClearOldGoods
<1>2. PICK t \in 1 .. now :
         /\ row[d].updatedAt + CleanupAge < t
         /\ row' = [row EXCEPT ![d] =
                       [stock |-> IF @.stock = Empty THEN Empty ELSE Swept, updatedAt |-> t]]
  BY <1>1 DEF ClearOldGood
<1>3. /\ \A c \in Code : c # d => row'[c] = row[c]
      /\ row'[d].stock = IF row[d].stock = Empty THEN Empty ELSE Swept
      /\ row'[d].updatedAt = t
  BY <1>0, <1>2 DEF TypeOK
<1>4. /\ row[d].stock # Absent
      /\ \A k \in Nat : row[d].updatedAt >= k => row'[d].updatedAt >= k
  <2>1. row[d].updatedAt \in Nat /\ t \in Nat /\ CleanupAge \in Nat
    BY <1>0, StockAssumption DEF TypeOK
  <2> QED  BY <1>1, <1>2, <1>3, <2>1 DEF ClearOldGood
<1>5. UNCHANGED <<running, pc, startTime, left, rancid, download, target, status, now, inFlight,
                  boundAt, since, pages>>
  BY DEF ClearOldGoods
<1>6. /\ \A c \in Code : Given(c)' <=> Given(c)
      /\ \A c \in Code : OfCatalog(c)' => OfCatalog(c) /\ c # d
  BY <1>3, <1>4, StockFacts DEF Given, OfCatalog
<1>7. /\ Ids(target)' = Ids(target) /\ Ids(left)' = Ids(left) /\ Ids(target) \subseteq Code
      /\ Advances(target, 0)' <=> Advances(target, 0)
      /\ \A r \in Run : (Active(r)' <=> Active(r)) /\ InFlightOf(r)' = InFlightOf(r)
      /\ Renewed(startTime)' = Renewed(startTime) /\ Renewed(since)' = Renewed(since)
  <2>1. Ids(target) \subseteq Code
    BY <1>0, IdsAreCodes DEF TypeOK
  <2> QED  BY <1>5, <2>1 DEF Ids, Advances, Active, InFlightOf, Renewed
<1>8. RunningIsReleased' /\ AtMostOneRuns' /\ startTime' <= now'
  BY <1>5, <1>7 DEF IInv, RunningIsReleased, AtMostOneRuns
<1>9. WriteInv' /\ CompletedInv'
  BY <1>5 DEF IInv, WriteInv, CompletedInv
<1>10. CompletedMirrorsSnapshot'
  BY <1>5, <1>6, <1>7 DEF IInv, CompletedMirrorsSnapshot
<1>11. TruncatedNeverClears'
  BY <1>5, <1>6, <1>7 DEF IInv, TruncatedNeverClears
<1>12. ASSUME NEW r \in Run, Active(r) PROVE RunInv(r)'
  <2>0. RunInv(r) /\ startTime \in Nat
    BY <1>0, <1>12 DEF IInv, RunInv, TypeOK
  <2>1. DownloadInv(r)'
    BY <1>5, <2>0 DEF RunInv, DownloadInv
  <2>2. FreshInv(r)'
    BY <1>3, <1>5, <1>6, <1>7, <2>0 DEF RunInv, FreshInv
  <2>3. ImportInv(r)'
    <3>1. \A c \in Ids(target) : Given(c) /\ row[c].updatedAt >= startTime =>
                                 Given(c)' /\ row'[c].updatedAt >= startTime
      BY <1>3, <1>4, <1>6, <1>7, <2>0
    <3> QED  BY <1>5, <1>7, <2>0, <3>1 DEF RunInv, ImportInv
  <2>4. ClearInv(r)'
    BY <1>5, <1>6, <1>7, <2>0 DEF RunInv, ClearInv
  <2> QED  BY <2>1, <2>2, <2>3, <2>4 DEF RunInv
<1> QED  BY <1>0, <1>7, <1>8, <1>9, <1>10, <1>11, <1>12 DEF IInv, RunInv


\* MongoDB answers a write.
LEMMA WrittenIsSound == ASSUME IInv, NEW w \in inFlight, Written(w) PROVE IInv'
<1> USE DEF loopVars, importVars, fileVars, historyVars
<1>0. TypeOK' /\ TypeOK
  BY WrittenTyped DEF IInv
<1>1. UNCHANGED <<running, pc, startTime, left, rancid, download, target, status, now, pages, since>>
  BY DEF Written
<1>2. /\ w.code \in Code /\ w.at \in Nat /\ w.by \in Writer
      /\ w.stock \in Run \union Search \union {Empty, Kept}
  BY <1>0 DEF TypeOK, Write
<1>16. /\ Renewed(startTime) \subseteq Renewed(startTime)' /\ Renewed(since) \subseteq Renewed(since)'
       /\ w.by \in Binding /\ w.at >= startTime => w.code \in Renewed(startTime)'
  <2>1. boundAt \in [Code -> Nat] /\ startTime \in Nat /\ since \in Nat
    BY <1>0 DEF TypeOK
  <2>2. /\ \A c \in Code : boundAt'[c] >= boundAt[c] /\ boundAt'[c] \in Nat
        /\ w.by \in Binding => boundAt'[w.code] >= w.at
    BY <1>2, <2>1 DEF Written
  <2>3. startTime' = startTime /\ since' = since
    BY <1>1
  <2> QED  BY <1>2, <2>1, <2>2, <2>3 DEF Renewed
<1>3. /\ \A c \in Code : c # w.code => row'[c] = row[c]
      /\ row'[w.code].updatedAt = w.at
      /\ row'[w.code].stock = IF w.stock = Kept THEN row[w.code].stock ELSE w.stock
  BY <1>0, <1>2, StockFacts DEF Written, Upsert, CreateOrUpdate, TypeOK
<1> DEFINE w0 == SetParameters(w)
<1>4. w0.by = w.by /\ w0.code = w.code /\ w0.stock = Kept /\ w0.at = now
  BY <1>0 DEF SetParameters, TypeOK
<1>5. \/ inFlight' = inFlight \ {w}
      \/ w.stock \notin Run \union {Kept} /\ inFlight' = (inFlight \ {w}) \union {w0}
  BY DEF Written, Upsert, CreateOrUpdate
<1> HIDE DEF w0
<1>6. /\ w.by \notin Run => w.stock \in Search \union {Kept}
      /\ w.by \in Binding => w.stock = Kept
      /\ w.by \in Run => w.stock \in {w.by, Empty, Kept}
      /\ w.stock \in Run => w.by = w.stock
      /\ w.stock = Empty => w.by \in Run /\ w.code \notin Ids(target)
  BY <1>2, StockFacts DEF IInv, WriteInv, TruncatedNeverClears
<1>7. /\ Ids(target)' = Ids(target) /\ Ids(left)' = Ids(left) /\ Ids(target) \subseteq Code
      /\ Advances(target, 0)' <=> Advances(target, 0)
      /\ \A r \in Run : Active(r)' <=> Active(r)
  <2>1. Ids(target) \subseteq Code
    BY <1>0, IdsAreCodes DEF TypeOK
  <2> QED  BY <1>1, <2>1 DEF Ids, Advances, Active
<1>8. \A c \in Ids(target) : Given(c) \/ (c = w.code /\ w.stock # Kept) => Given(c)'
  BY <1>2, <1>3, <1>6, <1>7, StockFacts DEF Given
<1>9. \A c \in Code : OfCatalog(c)' =>
          \/ OfCatalog(c) /\ (c # w.code \/ w.stock = Kept)
          \/ c = w.code /\ w.stock \in Run
  BY <1>2, <1>3, StockFacts DEF OfCatalog, Renewed
<1>10. RunningIsReleased' /\ AtMostOneRuns' /\ startTime' <= now' /\ now >= startTime
  BY <1>0, <1>1, <1>7 DEF IInv, RunningIsReleased, AtMostOneRuns, TypeOK
<1>11. WriteInv'
  BY <1>4, <1>5 DEF IInv, WriteInv
<1>12. TruncatedNeverClears'
  BY <1>1, <1>4, <1>5, <1>7, <1>8, StockFacts DEF IInv, TruncatedNeverClears
<1>13. CompletedInv'
  BY <1>1, <1>4, <1>5 DEF IInv, CompletedInv
<1>14. CompletedMirrorsSnapshot'
  <2> SUFFICES ASSUME status.completed, NEW c \in Code
               PROVE  IF c \in Ids(target) THEN Given(c)' ELSE OfCatalog(c)' => c \in Renewed(since)'
    BY <1>1, <1>7 DEF CompletedMirrorsSnapshot
  <2>1. w.stock \notin Run /\ (IF c \in Ids(target) THEN Given(c) ELSE OfCatalog(c) => c \in Renewed(since))
    BY <1>6, StockFacts DEF IInv, CompletedInv, CompletedMirrorsSnapshot
  <2> QED  BY <1>8, <1>9, <1>16, <2>1
<1>15. ASSUME NEW r \in Run, Active(r) PROVE RunInv(r)'
  <2>0. RunInv(r)
    BY <1>15 DEF IInv, RunInv
  <2>1. w.by \in Run => pc[r] \in Importing /\ w.by = r /\ w \in InFlightOf(r)
    BY <2>0, StockFacts DEF RunInv, DownloadInv, ImportInv, InFlightOf
  <2>2. w.stock \in Run => w.by = r /\ w.stock = r /\ pc[r] = "bulk" /\ w.code \in Ids(target)
    <3>1. ASSUME w.stock \in Run PROVE w.by = r /\ w.stock = r /\ w \in InFlightOf(r) /\ pc[r] \in Importing
      BY <1>6, <2>1, <3>1
    <3> QED  BY <2>0, <3>1 DEF RunInv, ImportInv, ClearInv, Importing
  <2>3. DownloadInv(r)'
    BY <1>1, <1>4, <1>5, <1>10, <2>0 DEF RunInv, DownloadInv
  <2>4. FreshInv(r)'
    <3> SUFFICES ASSUME NEW c \in Code, OfCatalog(c)', c \notin Renewed(startTime)',
                        row'[c].updatedAt >= startTime \/
                           \E v \in inFlight' : /\ v.code = c /\ v.stock = Kept /\ v.at >= startTime
                                               /\ v.by \notin Binding
                 PROVE  pc[r] \in Importing /\ c \in Ids(target)
      BY <1>1, <1>7 DEF FreshInv
    <3>1. CASE c = w.code /\ w.stock \in Run
      BY <2>2, <3>1 DEF Importing
    <3>2. CASE ~(c = w.code /\ w.stock \in Run)
      <4>1. OfCatalog(c) /\ (c # w.code \/ w.stock = Kept)
        BY <1>9, <3>2
      <4>2. \A v \in inFlight' : v.code = c => v \in inFlight
        BY <1>4, <1>5, <4>1
      <4>3. row'[c].updatedAt >= startTime =>
               \/ row[c].updatedAt >= startTime
               \/ w.code = c /\ w.stock = Kept /\ w.at >= startTime
        BY <1>3, <4>1
      <4>4. w.code = c /\ w.at >= startTime => w.by \notin Binding
        BY <1>16
      <4> QED  BY <2>0, <1>16, <4>1, <4>2, <4>3, <4>4 DEF RunInv, FreshInv
    <3> QED  BY <3>1, <3>2
  <2>5. ImportInv(r)'
    <3> SUFFICES ASSUME pc[r] \in Importing PROVE ImportInv(r)'
      BY <1>1 DEF ImportInv
    <3>1. \A v \in inFlight' : v.by \in Run => v.by = r
      BY <1>4, <1>5, <2>0, <2>1 DEF RunInv, ImportInv
    <3>2. InFlightOf(r) = {} => InFlightOf(r)' = {}
      BY <1>4, <1>5 DEF InFlightOf
    <3>3. pc[r] = "bulk" => \A v \in InFlightOf(r)' : v.stock = r /\ v.code \in Ids(target)
      <4> SUFFICES ASSUME pc[r] = "bulk", NEW v \in InFlightOf(r)'
                   PROVE  v \in InFlightOf(r)
        BY <2>0 DEF RunInv, ImportInv, Importing
      <4>1. v = w0 => w.stock \in Run
        BY <1>4, <2>0, <2>1 DEF RunInv, ImportInv, Importing, InFlightOf
      <4> QED  BY <1>4, <1>5, <4>1 DEF InFlightOf
    <3>4. \A c \in Ids(target) \ Ids(left) :
             \/ Given(c)' /\ row'[c].updatedAt >= startTime
             \/ pc[r] = "bulk" /\ \E v \in InFlightOf(r)' : v.code = c
      <4> SUFFICES ASSUME NEW c \in Ids(target) \ Ids(left)
                   PROVE  \/ Given(c)' /\ row'[c].updatedAt >= startTime
                          \/ pc[r] = "bulk" /\ \E v \in InFlightOf(r)' : v.code = c
        OBVIOUS
      <4>1. w.at >= startTime
        BY <2>0 DEF RunInv, DownloadInv
      <4>2. CASE Given(c) /\ row[c].updatedAt >= startTime
        BY <1>3, <1>7, <1>8, <4>1, <4>2
      <4>3. CASE pc[r] = "bulk" /\ \E v \in InFlightOf(r) : v.code = c
        <5>1. PICK v \in InFlightOf(r) : v.code = c
          BY <4>3
        <5>2. CASE v = w
          <6>1. w.stock = r /\ c = w.code /\ r # Kept
            BY <2>0, <4>3, <5>1, <5>2, StockFacts DEF RunInv, ImportInv, Importing
          <6> QED  BY <1>3, <1>8, <4>1, <6>1
        <5>3. CASE v # w
          <6>1. v \in InFlightOf(r)'
            BY <1>5, <5>1, <5>3 DEF InFlightOf
          <6> QED  BY <4>3, <5>1, <6>1
        <5> QED  BY <5>2, <5>3
      <4> QED  BY <2>0, <4>2, <4>3 DEF RunInv, ImportInv
    <3> QED  BY <1>1, <1>7, <2>0, <3>1, <3>2, <3>3, <3>4 DEF RunInv, ImportInv
  <2>6. ClearInv(r)'
    <3>1. pc[r] \in {"found", "clearing"} => \A c \in Code : OfCatalog(c)' =>
             OfCatalog(c) /\ (c # w.code \/ w.stock = Kept)
      BY <1>9, <2>2
    <3>2. pc[r] = "found" => ClearInv(r)'
      BY <1>1, <1>7, <2>0, <1>16, <3>1 DEF RunInv, ClearInv
    <3>3. pc[r] = "clearing" => \A v \in InFlightOf(r)' : v.stock # r
      BY <1>4, <1>5, <2>0, StockFacts DEF RunInv, ClearInv, InFlightOf
    <3>4. ASSUME pc[r] = "clearing", NEW c \in Code, OfCatalog(c)', c \notin Ids(target) \union Renewed(startTime)'
          PROVE  \E v \in InFlightOf(r)' : v.code = c /\ v.stock = Empty
      <4>1. PICK v \in InFlightOf(r) : v.code = c /\ v.stock = Empty
        BY <2>0, <1>16, <3>1, <3>4 DEF RunInv, ClearInv
      <4>2. v # w
        BY <3>1, <3>4, <4>1, StockFacts
      <4>3. v \in InFlightOf(r)'
        BY <1>5, <4>1, <4>2 DEF InFlightOf
      <4> QED  BY <4>1, <4>3
    <3> QED  BY <1>1, <1>7, <3>2, <3>3, <3>4 DEF ClearInv
  <2> QED  BY <2>3, <2>4, <2>5, <2>6 DEF RunInv
<1> QED  BY <1>0, <1>7, <1>10, <1>11, <1>12, <1>13, <1>14, <1>15 DEF IInv, RunInv
LEMMA RejectedIsSound == ASSUME IInv, NEW w \in inFlight, Rejected(w) PROVE IInv'
<1> USE DEF loopVars, importVars, fileVars, historyVars
<1>0. TypeOK' /\ TypeOK
  BY RejectedTyped DEF IInv
<1>1. /\ inFlight' = inFlight \ {w}
      /\ UNCHANGED <<startTime, left, rancid, download, target, status, now, row, boundAt, since, pages>>
  BY DEF Rejected
<1>2. CASE w.by \in Run /\ Active(w.by)
  <2>1. Fail(w.by)
    BY <1>2 DEF Rejected
  <2> QED  BY <1>0, <1>1, <1>2, <2>1, FailIsSound
<1>3. CASE ~(w.by \in Run /\ Active(w.by))
  <2>1. UNCHANGED <<pc, running>>
    BY <1>3 DEF Rejected
  <2>2. /\ \A c : (Given(c)' <=> Given(c)) /\ (OfCatalog(c)' <=> OfCatalog(c))
        /\ Ids(target)' = Ids(target) /\ Ids(left)' = Ids(left)
        /\ Advances(target, 0)' <=> Advances(target, 0)
        /\ \A r \in Run : Active(r)' <=> Active(r)
        /\ \A r \in Run : Active(r) => InFlightOf(r)' = InFlightOf(r)
        /\ Renewed(startTime)' = Renewed(startTime) /\ Renewed(since)' = Renewed(since)
    BY <1>1, <1>3, <2>1 DEF Given, OfCatalog, Renewed, Ids, Advances, Active, InFlightOf
  <2>3. RunningIsReleased' /\ AtMostOneRuns' /\ startTime' <= now'
    BY <1>1, <2>1, <2>2 DEF IInv, RunningIsReleased, AtMostOneRuns
  <2>4. WriteInv' /\ CompletedInv' /\ CompletedMirrorsSnapshot'
    BY <1>1, <2>2 DEF IInv, WriteInv, CompletedInv, CompletedMirrorsSnapshot
  <2>5. TruncatedNeverClears'
    BY <1>1, <2>2 DEF IInv, TruncatedNeverClears
  <2>6. ASSUME NEW r \in Run, Active(r) PROVE RunInv(r)'
    <3>0. RunInv(r) /\ InFlightOf(r)' = InFlightOf(r)
      BY <2>2, <2>6 DEF IInv, RunInv
    <3>1. DownloadInv(r)' /\ FreshInv(r)'
      BY <1>1, <2>1, <2>2, <3>0 DEF RunInv, DownloadInv, FreshInv
    <3>2. ImportInv(r)'
      <4>1. Ids(target) \subseteq Code
        BY <1>0, IdsAreCodes DEF TypeOK
      <4> QED  BY <1>1, <2>1, <2>2, <3>0, <4>1 DEF RunInv, ImportInv
    <3>3. ClearInv(r)'
      BY <1>1, <2>1, <2>2, <3>0 DEF RunInv, ClearInv
    <3> QED  BY <3>1, <3>2, <3>3 DEF RunInv
  <2> QED  BY <1>0, <2>2, <2>3, <2>4, <2>5, <2>6 DEF IInv, RunInv
<1> QED  BY <1>2, <1>3

LEMMA CrashIsSound == IInv /\ Crash => IInv'
<1> SUFFICES ASSUME IInv, Crash PROVE IInv'
  OBVIOUS
<1>1. TypeOK'
  BY NextTyped DEF IInv, Next
<1>2. \A r \in Run : ~Active(r)'
  BY DEF Crash, Active, Ended
<1> QED  BY <1>1, <1>2, StopIsSound DEF Crash, fileVars, stockVars

LEMMA TimeIsSound == IInv /\ Time => IInv'
<1> SUFFICES ASSUME IInv, Time PROVE IInv'
  OBVIOUS
<1> USE DEF loopVars, importVars, fileVars, historyVars
<1>1. TypeOK' /\ TypeOK
  BY NextTyped DEF IInv, Next
<1>2. UNCHANGED <<running, pc, startTime, left, rancid, download, target, status, row, boundAt, since, inFlight, pages>>
  BY DEF Time
<1>3. startTime' <= now'
  BY <1>1, <1>2 DEF Time, Tick, IInv, TypeOK
<1>4. \A r \in Run : Active(r)' <=> Active(r)
  BY <1>2 DEF Active
<1>5. \A r \in Run : Active(r)' => RunInv(r)'
  BY <1>1, <1>2, <1>4, RunInvStays DEF IInv, RunInv
<1>6. RunningIsReleased' /\ AtMostOneRuns' /\ WriteInv' /\ CompletedInv'
  BY <1>2, <1>4 DEF IInv, RunningIsReleased, AtMostOneRuns, WriteInv, CompletedInv
<1>7. TruncatedNeverClears' /\ CompletedMirrorsSnapshot'
  BY <1>2 DEF IInv, TruncatedNeverClears, CompletedMirrorsSnapshot, Advances, Ids, Given, OfCatalog, Renewed
<1> QED  BY <1>1, <1>3, <1>5, <1>6, <1>7 DEF IInv, RunInv

LEMMA NextIsSound == IInv /\ [Next]_vars => IInv'
<1> SUFFICES ASSUME IInv, [Next]_vars PROVE IInv'
  OBVIOUS
<1>1. ASSUME NEW r \in Run, Execute(r) \/ Break(r) \/ DownloadStep(r) PROVE IInv'
  BY <1>1, ExecuteIsSound, DownloadIsSound, GotEndIsSound
<1>2. ASSUME NEW r \in Run, ImportStep(r) PROVE IInv'
  BY <1>2, ImportIsSound, FlushIsSound, ClearIsSound, FinishIsSound DEF ImportStep
<1>3. CASE UNCHANGED vars
  <2>1. UNCHANGED <<running, pc, startTime, left, rancid, download, target, status, now, row, boundAt, since, inFlight, pages>>
    BY <1>3 DEF vars, loopVars, importVars, fileVars, stockVars
  <2>2. TypeOK' /\ TypeOK
    BY <1>3, NextTyped DEF IInv
  <2>3. \A r \in Run : Active(r)' <=> Active(r)
    BY <2>1 DEF Active
  <2>4. \A r \in Run : Active(r)' => RunInv(r)'
    BY <2>1, <2>2, <2>3, RunInvStays DEF IInv, RunInv
  <2>5. RunningIsReleased' /\ AtMostOneRuns' /\ WriteInv' /\ CompletedInv' /\ startTime' <= now'
    BY <2>1, <2>3 DEF IInv, RunningIsReleased, AtMostOneRuns, WriteInv, CompletedInv
  <2>6. TruncatedNeverClears' /\ CompletedMirrorsSnapshot'
    BY <2>1 DEF IInv, TruncatedNeverClears, CompletedMirrorsSnapshot, Advances, Ids, Given, OfCatalog, Renewed
  <2> QED  BY <2>2, <2>4, <2>5, <2>6 DEF IInv, RunInv
<1> QED  BY <1>1, <1>2, <1>3, KeysJobIsSound, SetGoodIsSound, ClearOldGoodsIsSound,
         WrittenIsSound, RejectedIsSound, CrashIsSound, TimeIsSound
         DEF Next, Stopped

-----------------------------------------------------------------------------
THEOREM InductiveInvariant == Spec => []IInv
  BY InitIsSound, NextIsSound, PTL DEF Spec

\* While the status file says completed, whatever was rejected or died before, each
\* good of the snapshot has stock and no other good has stock of a catalogue
\* (promelec.catalog.parser.ts: parse, writeStatus).
THEOREM CompletedIsMirrored == Spec => []CompletedMirrorsSnapshot
<1>1. IInv => CompletedMirrorsSnapshot
  BY DEF IInv
<1> QED  BY <1>1, InductiveInvariant, PTL

\* A truncated or invalid answer of the supplier never clears stock
\* (promelec.catalog.parser.ts: download, importCatalog; ScheduleParser.finish).
THEOREM StockIsNeverCleared == Spec => []TruncatedNeverClears
<1>1. IInv => TruncatedNeverClears
  BY DEF IInv
<1> QED  BY <1>1, InductiveInvariant, PTL

\* The flag that refuses executions is set just while one is under way, however it
\* ends (promelec.catalog.parser.ts: execute).
THEOREM RunningIsAlwaysReleased == Spec => []RunningIsReleased
<1>1. IInv => RunningIsReleased
  BY DEF IInv
<1> QED  BY <1>1, InductiveInvariant, PTL
=============================================================================
