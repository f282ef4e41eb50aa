# A verification development of pricing-nest

pricing-nest is a NestJS service that answers price searches. It asks the APIs of suppliers live, keeps what
they answer in Redis and MongoDB, imports price lists of other suppliers on a schedule, and fetches reference
cards of parts from mpn.cc. This directory holds TLA+ models of its concurrent core, the TLC configurations
that check them, and proofs checked by TLAPS. Paths below are those of the repository (`src/...` is its source
directory).

## The system

Everything runs in one Node.js process: code between two `await`s is atomic, and any other request, timer,
queue job or cron task may run at an `await`. Redis (cache and Bull queue) and MongoDB are shared by all of them.

| Component | State it keeps | Operations | Hard part | What makes it correct |
|---|---|---|---|---|
| API parsers (`parsers/api-parsers`, core in `abstract.parser.ts`) | one response per call; error keys, search keys in Redis | `parse()`: error key, cache, race of request and timer, `obtainError`, fallback to MongoDB, statistics, caching | both sides of the race may fail or answer while the other awaits; parsers of one supplier share rows | only API answers are cached; each fallback is recorded; a blocked supplier is not asked; every call answers |
| `ParsersService`, `PriceService` | maps of suppliers and currencies read at start | parallel `parse()` calls; `fetchLive` for baskets and orders, in waves | one rejection rejects a search; rows change while parsers are asked | each supplier appears once; a live answer is of its own code and says truly where it comes from; stock the supplier gives is seen |
| Interceptors and pipes (`decorators`, `pipes`, `helpers`) | - | codes of a client to ids of suppliers and back; ids bound to goods | one two-way table read in opposite directions; rows read again after the answers | on the routes with interceptors (`price`, `trade`) a client sees its own codes and ids only; `dealers` has none |
| `ParserProcessor` (Bull queue `api`) | jobs | `keys`, `apiRequestStats`, mail, `parseForDb` | jobs run in any order, the key of a job may expire or change | cached goods reach the database, statistics are true |
| `ParserSchedule`, `ScheduleParser` and the parsers of price lists | `startTime`; rows of a supplier; files uploaded | cron imports, `checkUpload`, `parseForDb`; `finish()` empties stale goods; each parser makes goods of its rows | overlapping imports and upload checks; bands from incomplete rows, rows that repeat | no row is emptied for a list that is not in; every upload leaves; a band charges what the list asks |
| Promelec catalogue | cursor, snapshot file, status file, static `running` | paged download with retries, validation, batch import, cleanup | crash or short answer between two phases | an incomplete snapshot never clears stock |
| `GoodService` | goods in MongoDB | upserts, parameters, goodId, nightly cleanup, search | read-modify-write without a transaction | bindings of clients survive every import |
| `SupplierService` | - | reports; `errorClear` deletes an error key | clearing races with recording | - |
| `CurrencyService`, `CbrClient` | rates in MongoDB and in two maps | nightly and start-up update | overlap, partial failure, restarts | an update that ends has taken effect |
| `MpnService` | cards and misses in Redis; block key; map of pending flights | `part()`: cache, block, joining or beginning a flight, resolve / acquire / card, storing | clicks with different hints share keys; flights outlive the checks they passed | answers fit the hint; one flight per key; bounded requests |
| `MpnClient` | chain of promises, `lastStartedAt` | throttled requests; translation of 429 and 404 | bursts | starts are spaced |
| Statistics, mail, units, seeds | documents | - | little | - |
| Orders | only the document `ORDERS_ARCHITECTURE.md`, no code | - | - | - |

`PROJECT.json` lists each component with its status, every hazard with its line, and for every definition the
lines it translates.

## Modules

| Module | Models | State |
|---|---|---|
| `ApiParser` | `abstract.parser.ts`: one element of `Search` is one call of `parse()` | `pc` (where the call awaits), `flow` (where its request and its timer await), `data`, `isSuccess`, `isFinished` (the `ApiResponseDto`), `errors` (history: error keys written), `blocked` (error keys), `cached`, `queue`, `db` |
| `ParserProcessor` | `parser.processor.ts`: consumers of the queue | `storing` (keys jobs between their read and their write), `stats` |
| `SearchSystem` | both, sharing cache, queue and database; fairness; properties; the inductive invariant | the union |
| `SupplierBreaker` | abstract specification of the error keys: a circuit breaker per alias | `open`, `admission` |
| `MpnService` | `mpn.service.ts`: one element of `Click` is one call of `part()`; a flight is named after the click that began it | `pc`, `joined`, `answer`; `stage`, `port`, `result`, `cacheable`, `requests` of flights; `pending`, `cached`, `blocked` |
| `RequestLimiter` | abstract specification of the throttle: a line with one exit | `now`, `waiting`, `gone`, `lastLeft` |
| `MpnThrottle` | `MpnClient.throttle()` | `now`, `chain`, `wakeAt`, `lastStartedAt`, `startedAt` |
| `SupplierStock` | the rows of one supplier as `good.service.ts` writes them (imports, searches, first bindings, the cleanup at midnight), shared by the next two | `now`, `row` (stock and `updatedAt`), `inFlight` (writes MongoDB has not answered) |
| `ScheduleImport` | `schedule.parser.ts` and the price list parsers: one element of `Import` is one `execute()` | `phase`, `startTime`, `list`, `rancid`; `stored` (searches, bindings); `disturbed` (history) |
| `PromelecCatalog` | `promelec.catalog.parser.ts`: one element of `Run` is one `execute()` | `running`, `pc`, `startTime`, the loop, the files `download`, `target`, `status`; `crashes`; `boundAt`, `since` (history) |
| `PriceBands` | the goods, warehouses and price bands every parser makes, and what JavaScript does with empty cells | - |
| `SheetRows` | the parsers that write one good per row of a list, an operator each | - |
| `ApiItems` | `parseResponse` of the API parsers that make one good per item | - |
| `MergedRows` | the parsers that collect rows of one code: fulcrum, microem, ecomp, elco | - |
| `PriceLists` | a parser reading a list row by row; the tariffs the rows mean | `list`, `read`, `held`, `goods`, `tariffs` (history) |
| `PriceSearch` | `ParsersService.search`, `getPrices`, the pipe and the interceptors of the three search routes | `request`, `wanted`, `rows`, `fromDb`, `parsed`, `reply` |
| `LivePrices` | `PriceService.live`, `offers`, `fetchLive`, `stock` | `query`, `shelf`, `read`, `todo`, `wave`, `found` (history), `result` |
| `PriceService` | both, as the price controller offers them, while rows change | the union |
| `GoodStore` | concurrent calls of `good.service.ts`: `createOrUpdate`, `upsertCatalogBatch`, `setGood`, the nightly cleanup | `row`, `op` |
| `CurrencyRates` | `currency.service.ts`, `cbr.client.ts` | `stored`, `memory`, `update`, `restarts` |
| `UploadCheck` | `ParserSchedule.checkUpload` | `files`, `mounted`, `outage`, `turn`, `uploads`, `outages` |
| `MCSearchSystem`, `MCMpnService`, `MCScheduleImport`, `MCPromelecCatalog`, `MCPriceLists`, `MCPriceService`, `MCServices` | instances for TLC | - |
| `SearchSystemProofs`, `MpnServiceProofs`, `MpnThrottleProofs`, `ScheduleImportProofs`, `PromelecCatalogProofs`, `PriceServiceProofs`, `StoresProofs`, `PriceListsProofs` | theorems and proofs | - |

### The search

`Start`, `CheckError`, `ReadBlockedFromDb` and `GetFromCache` are the steps of `parse()` up to the race. A call
whose string is too short, whose supplier is blocked or whose key is cached answers there (`AnswerWith`).
`StartRace` starts the request and arms the timer; from there the two flows run on their own. Each of them may
enter `obtainError` (`ObtainError`: the guard on `isFinished`; then `MarkFailed` after the count of today's
errors, `WriteBlock` for the error key, `QueueMail`), and then takes the goods from the database (`FallBack`).
`Resolve` is the end of a flow: the first one answers the call, the other one settles in the background, as a
promise that lost `Promise.race` does. `Settled` clears a timer that is still armed, and cannot stop one that
has fired. `SaveToCache` and `QueueKeys` are the two awaits of `saveToCache`, which reads `isSuccess` when it
runs, not when the race ended. `VaultFails` is the rejection of `getResponse()`, outside the pipes that handle
errors: the call itself rejects.

Goods are abstract: the answer of the supplier to call `s` is the value `s`, the goods the database held before
are `OldGoods`. This is what the properties tell apart: whose answer it is, and where it came from. The constant
functions `KeyOf`, `AliasOf`, `RowOf` say which calls share a cache key, an error key and database rows:
`CompelLiveParser` has an alias and key of its own and the rows of `compel`.

A block and a cache entry may expire at any moment (`BlockExpires`, `CacheExpires`), which covers every length of
`CACHE_ERROR_EXP * coeff` and of the default time to live. `ErrorClear` is DELETE of a supplier's error.

Of the queue, `Keys` reads the cache when the job runs; a key that has expired loses the job, because
`goods.map` throws on null and Bull is not told to retry. `CreateOrUpdate` is a separate step: two jobs may write
in another order than they read.

### The breaker

`SupplierBreaker` says what remains of the error keys without the race: a call is admitted or refused by the
state of its own alias when it is checked, and only an admitted call opens the breaker, at any later time.
`SearchSystem` implements it: `open` is `blocked`, `admission` is computed from `pc`, `flow` and `data`
(`Admission`); `ImplementsBreaker` is checked by TLC and proved by TLAPS.

### The mpn.cc cards

A click reads the plain key, then the key with its hint, then the block, and then joins the flight pending under
its key or begins one, without an await between the read and the write of `pending` (`ReadBlock`). A flight has
its request queued in the client, out, or sleeps before it polls an acquisition (`port`). `Resolved`, `Acquired`,
`GotPart`, `NotFound`, `RequestFails` and `RateLimited` are the answers of mpn.cc; they may say anything: an exact
part of any maker, a similar one, none, with any set of exact candidates. `AskNext` is `assertBudget`: the flight
goes on or ends with 502. `Store` writes the cache before `Finish` settles the promise and drops the entry in
`pending`. A card is the maker it is of and whether the hint picked it; the fields `toDto` copies are left out.
`MpnThrottle` is the part of the client between `queued` and `out`, with a clock. `RequestLimiter` is what it promises the
service: a line of requests that leave from its head, at least `MinInterval` apart. Under the refinement mapping the chain of
promises is the line; that its head sleeps, and on a timer computed before, is hidden.

### The imports of price lists

`Start` takes `startTime` before `start()` awaits supplier, currency and unit. `Break` is every failure up to
the list: services, vault, download, archive or XML; `execute()` catches it and queues a mail. `Parse` is the
common shape of all schedule parsers: a write per row, all launched before the first is answered, then
`Promise.all`; a row that throws fails the import and leaves the launched writes under way. `Find` and `Clear` are
the two halves of `finish()`; between them any write may land. A write (`Launched`) takes its `updatedAt` when it
is launched (mongoose sets it there, `timestamps: true`) and reaches MongoDB later (`Written`), in any order or never
(`Rejected`); `setParameters` may add a second one that leaves the warehouses alone (`Kept`). `KeysJob` is a
search of the same supplier that stores its goods. `SetGood` is the first binding of a good to a client's: `save()` writes
`goodId`, and the timestamps of the schema renew `updatedAt`, so the row counts as fresh; a later binding changes nothing
(`GoodStore`) and is left out. `ClearOldGoods` is `clearWarehousesForOldGoods` coming to one row: the limit may have
been computed at any earlier time, and of `CLEANUP_DAYS` only the order against the clock is kept (`CleanupAge`). What a row tells is whose stock it has; price and quantity are left out.

The clock has few ticks and any number of events fit into one: `updatedAt` and `startTime` may be equal, which
is the boundary of `$lt`. `disturbed[i]` is history: the rows other writers had in flight when import `i`
started, had written in the very tick of its start, or have launched since. For those rows the code promises nothing;
a row that is found and refreshed before it is cleared is indeed emptied, and one that a client binds while the import runs
keeps its stock. Rows a binding or the cleanup touches are among them.

### The promelec catalogue

`Execute` is the check of the static `running`. `Open` truncates the temporary file; `RequestFails`, `Retry`,
`GotPage`, `GotGarbage`, `NextPage`, `GotEnd` are the loop of the download: three attempts, a cursor that every
row must advance (`Advances` is `catalogCursor`), an empty page as the end, at least 100000 rows. Only then is the file renamed; an empty page that
comes early, but after the minimum of rows, is taken for the end, and the rest of the catalogue is emptied. `Validate`
reads it once, `Flush` and `Flushed` write it by batches, `Cleanup` reports, and `Find`, `Clear`, `Finish` are
`finish()`. `Crash` ends every execution that is under way and resets `running`; rows, files and writes in
flight survive. Between executions two things are assumed, because a night or minutes of download lie
between them: MongoDB has answered the writes of the last execution and no write falls into the tick of the
start before it (`Quiet`), and writes launched before the download have landed when it ends (`Landed`). `executeSnapshot`
is called by a test only (`promelec.catalog.parser.spec.ts:22`) and is left out. The first status of a download (`MinTotal` above `StatusEvery` pages)
comes before the catalogue can be large enough, as it does with 10 pages of 100 rows against 100000.

The rows have more writers than the catalogue. A keys job gives a row stock that is not the catalogue's, which
`CompletedMirrorsSnapshot` leaves alone; a first binding (`SetGood`) renews a row that has dropped out of the catalogue,
so that `finish()` passes it by, and it keeps its stock under `completed` until the cleanup comes to it or a later import does;
the cleanup (`ClearOldGoods`) empties rows of an old import under its `completed`. The property says each of this by name: `boundAt` is
when a row was last bound, `since` when the import began that the status is of, and `Swept` the stock of a row emptied at midnight.

### The goods of the parsers

A cell of a row is an integer or `NaN` (empty, or not a number); money is counted in a unit small enough that every
factor of a parser (2% of rct, thousands of mars, ten thousandths of microem, tenths of a `price_unit`) stays whole.
Each operator of `SheetRows`, `ApiItems` and `MergedRows` keeps every guard that skips a row, a warehouse or a band, and
computes quantities, multiples and the bounds and values of bands as the parser does, empty cells included. It
leaves out names, producers and other parameters, currencies, delivery times and options. `PriceLists` reads rows: one
row, or for merging parsers up to `MaxRows` in any order, and `goods` is what would be written if the list ended there.
How these goods are written, and what a failure in the middle leaves, is `ScheduleImport`.

What a row *means* is stated beside that, without the arithmetic of bands: a tariff is a sequence of steps, and a
quantity costs the last step it reaches (`Asked`). Most rows mean one tariff for all their warehouses (`MakePriced`); each
vendor of a promelec item and each stock of an elitan item has a tariff of its own. Rows whose tariff is not spelled out (a step without a price, quantities
that do not rise) mean nothing certain, and the property is silent on them; the parsers still run on them. So it is on
quantities from the seventh step of a row of compel's dbf on (`until`), which its parser does not charge (below).

The operators of the parsers with one price per good (kulibin, diamant, elsin, trigger, beltrix, dan, istochnik, triatron,
mars) and of compel's API and getchips are run on every kind of row, but no property depends on what they keep or skip. The guards
on ecomp's missing code and on fulcrum's short rows are left out: a row has a code, and all its cells.

### Searches and live prices

`Find` and `FindForDealers` are the search routes; `Transform` is the pipe. `Begin` starts the database search and
every parser of a wanted supplier at once; `DbAnswers`, `ParserAnswers` and `ParserRejects` come in any order, and
`Reply` or `Reject` is `Promise.all`. A parser may answer with goods of the API, of the cache or with the stored ones,
which `SearchSystem` models. `Shape` is the chain of interceptors: for `price` only `ApplySupplier`; for `trade`
first the ids of the rows as they are then (`WithGoodId`), then `ApplySupplier`, then `Trade`. A good is the supplier it is
of, where it came from, under what code it is shown and whose ids it shows. The route `dealers` has no interceptor: its
goods stay under the ids of their suppliers, and a stored one shows the ids of every client bound to it, where
`good.dto.ts:30` speaks of the caller's own. `CallersSeeTheirOwn` says just that of it.

`Ask` is `live` or `offers` up to its read of the rows, with the codes of promelec that no row has; `NextWave` takes
the next chunk, `Answers` and `Rejects` end the calls in any order. `found` is history: what the supplier gave for a
code to the call for this very code. `FromDb` is the answer without the supplier: `findBySupplierCodes` gives raw documents
of Mongoose, and the spread `{...good}` takes their internals (`$__`, `_doc`, `$isNew`) and leaves the fields of the row, which are
getters of the prototype, so neither code nor warehouses remain. Only goods made for codes without a row are plain objects. Chunks are any part of what is left, since the order in which MongoDB gives rows is
not fixed. Rows may change at any time (`RowChanges`, `ShelfChanges`).

### Stored goods, rates and uploads

In `GoodStore` one element of `Op` is a call: `createOrUpdate` is the upsert, which returns the document, and then the
write of the merged parameters; `setGood` reads the good and saves it, where Mongoose stores `goodId`, a Mixed path
changed in place, only if it was absent. `CallWithRancid` is the good `finish()` has read to empty it.
`DuplicateKey` is an insert that finds the row there.

In `CurrencyRates` a rate is named by the update that fetched it, so that it can be told whose rate an answer holds.
The loop of writes is one `WriteRate` per currency in any order: the order of the map does not matter to what is
claimed. `after` is the set of updates that had ended when this one began.

In `UploadCheck` a turn is one run of `checkUpload`; the schedule starts one whether or not the previous one ended. The
failing `fs.access` is remembered for an hour and does not end the run, `readdir` does.

## What the runs show

| Run | Instance | Holds |
|---|---|---|
| `search` | two calls on one key (one `withCache`), one too short, and a live request under its own alias on the same row | `TypeOK`, `CacheHoldsApiGoods`, `FallbackIsRecorded`, `SuccessWasReturned`, `StoredGoodsWereReturned`, `LateFailureIsSilent`, `ImplementsBreaker` |
| `search_liveness` | two calls on one key, fairness | `EveryCallAnswers`, `EveryRaceIsCounted`, `CachedGoodsAreStored` |
| `mpn` | one plain click and two with the same hint, two makers, fairness | `TypeOK`, `SingleFlight`, `HintedCardsStayHinted`, `MissesStayApart`, `CacheIsFinal`, `AtMostFiveRequests`, `EveryClickAnswers` |
| `import_stock` | a cron import and a `parseForDb` job on two codes, one search or binding, the cleanup | `ImportReplacesStock`, `ClearsComeLast` |
| `catalog` | two executions or one crash, one search or binding, the cleanup, three items, pages of two, at most three pages, fairness | `CompletedMirrorsSnapshot`, `TruncatedNeverClears`, `RunningIsReleased`, `EveryDownloadEnds` |
| `price_lists` | every parser on rows with empty, zero, negative and ordinary cells; merged lists of two codes and three rows | `BandsChargeTheTariff`, `DuplicatesCollapse`, `StockAddsUp`, `WholesaleFromTheSum` |
| `price_service` | four suppliers, two with parsers; a caller with a table of codes, one without, none; or three codes in waves of two | `EachSupplierOnce`, `CallersSeeTheirOwn`, `AnswersAreTheirOwn`, `StockIsSellable`, `EveryRequestEnds` |
| `services` | one good, two clients, three calls; or three currencies, two updates, a restart; or three files, two turns, an outage; or four requests, interval 3, calls until tick 12 | `BindingsSurvive`, `UpdatesTakeEffect`, `EveryUploadLeaves`, `Spaced`, `FirstCalledFirst`, `ImplementsLimiter`, `EveryRequestGoesOut` |
| `search_late_failure`, `search_timeout`, `mpn_refresh`, `live_fallback` | the smallest instances; for the last the queries of `price_service` | what a comment or a test name says is refuted (below) |

Each property of a passing run has a mutant in `PROJECT.json`: an operator named as a *Fault* beside the
definition it alters, a bug that code might have, under which TLC finds the property violated.

Some properties exempt what the code does not promise, each by name in its formula: `CachedGoodsAreStored` a key that
has expired before its job read it (the goods are lost), `ImportReplacesStock` the rows other writers touched meanwhile,
`CompletedMirrorsSnapshot` the rows first bound since the import began and those the cleanup emptied, `BindingsSurvive` the
step of a first binding beside another pending one, `BandsChargeTheTariff` compel's seventh step and beyond,
`CallersSeeTheirOwn` the ids on the route `dealers`. What is exempt is reached by the runs and listed as a hazard.

### Where the code and its comments part

* `OneErrorPerCall`. `obtainError` skips a response that is finished, «ошибка по этому запросу уже записана»
  (`abstract.parser.ts:94`), but `isFinished` is set only after the race, while the timer's own `obtainError`
  still awaits its statistics, cache and queue. A request that fails in that window writes a second error key
  (and extends the block), and queues a second mail. `LateFailureIsSilent` is the part that is true: after the call has answered
  and no record is under way, nothing is recorded.
* `TimedOutTakesFromDb`. In the same window the supplier's answer may win the race, so the call returns API
  goods while the timeout blocks the supplier; `abstract.parser.ts:136` says the goods come from the database.
* `RefreshIsRemembered`. A refresh with a hint stores a miss, or a card its hint picked, under the hinted key; a
  card under the plain key keeps serving every later click, against «перезаписываем свежим ответом»
  (`mpn.service.ts:88`).
* `FallbackIsDailyStock`. Where the supplier gives nothing for a code, `live` is to answer with the stock of its row,
  «API не ответил (парсер вернул базу или пусто) — остаток из суточного файла, source=db» (`price.service.spec.ts:98`; also
  `price.service.ts:33` and the description of the route, `price.controller.ts:62`). The spread of a document has no warehouses, so a
  basket is told `null`, which is to mean that there is no such code, and `offers` answers with a good that has neither code nor
  warehouses. The tests give the service plain objects. `StockIsSellable` and `AnswersAreTheirOwn` say what is true of the answers.
* Without a run of its own: compel's comments speak of steps 1..8 (`compel.dbf.parser.ts:10`) that go on «пока есть количество
  или цена растёт» (line 16), and `times(7).slice(1)` (line 19) reads six. A row with seven or eight steps charges the sixth
  without an upper bound; `BandsChargeTheTariff` exempts the quantities from the seventh step on, and without this exemption
  TLC finds it violated.

The models reach more that no text of the repository speaks of, and that is therefore no property: flights that
passed the block check go on after another flight's 429; of two concurrent updates of one good one loses its parameters
(`SetParameters`); a second client's binding is not stored though `setGood` answers true (`Save`); a row of rct with
a third price and no second has a band without a lower bound (`RctNext`); a location of compel without `vend_qty` takes a
price record for its quantity (`Compel`); a newer upload is removed unread with the older one of its name (`Rm`).

### Bounds

The properties of the search relate at most two calls: a call and its own flows, two calls on one key (late and
early answer, cached and overwritten), two aliases of one supplier. Two calls on one key with every stage of
both flows, all queue jobs and free expiries, is therefore where they could fail, and the theorems remove the
bound for all safety properties but the violated ones. There is no counter to cap: `errors` is at most two per
call, `requests` at most five per flight, the queue is a set of jobs that are distinct per call. For the cards
three clicks are needed for `SingleFlight` (a flight, a click that joins it, a later flight under the same key)
and for the hints (a plain click after a hinted one and the other way round). In `MpnThrottle` the clock stops
at `Horizon` unless a timer is pending, and four requests over twelve ticks at interval three give bursts, idle
gaps and calls made in the middle of a sleep.

`search` is the union of two instances: a search of two calls, or a search and a live request; `PairOrLive` leaves out
that two calls of one key and the live request are all under way, as the live request shares no key with them, only the row,
which a keys job of either writes. In `mpn` the constraint `TwoFlights` lets two of three clicks begin a flight, so that
there is always one that joins or finds the cache; `EveryClickAnswers` is checked within it. In `catalog`, `OneMoreActor`
lets the search or the binding meet one execution, and the second execution or the crash come without them, the cleanup beside all
of it; `EveryDownloadEnds` is checked within it, too. In `import_stock` a constraint of the same name lets one of the search and the
binding come. Every state outside a constraint is one the theorems (search, cards) still speak of.

For the imports two executions are enough for every overlap the code can have with itself, and two ticks give
a write before, at and after a start; one code would hide an import that empties a row while another of its list is
out. `import_stock` takes codes as symmetric. In the catalogue the constants shrink (100 rows, 10000 pages,
100000 rows, 500 per batch, 3 attempts to 2, 3, 2, 2, 2) so that a page may be full or not, a catalogue may be too small, have one row in its
last batch, or hit the last page; one crash between two executions covers any later one, since nothing but files and
rows remains of it.

`price_lists` enumerates rows: each cell a parser tests is empty, zero and positive in some row, steps rise, fall and
repeat, thresholds lie on both sides of every comparison (the sum of fulcrum at 9 to 12 pieces, two and one; the multiples of
rct with the third price before and after five of them; one to eight steps of compel), and quantities are tried up to twelve
multiples, beyond the last step of every row. Three rows of two codes give a merging parser a repeated code, before and after another one; an item of
promelec has up to two vendors with steps of their own, one of elitan two stocks. In
`price_service` four suppliers are those with and without a parser, known and unknown to the caller; waves of two with three codes
give a full and a last chunk. `services` are four systems that share nothing, so a behaviour runs one of them: two calls
on a good and a third one that meets both, two overlapping updates and the start, two overlapping turns, the throttle.

### Fairness

The program's own steps are weakly fair: its code, timers, the stores it awaits, the queue consumers. The
vault and the supplier are not: `EveryCallAnswers` and `EveryRaceIsCounted` must hold when they stay silent, and
do because of the timer. In `MpnService` the answers are weakly fair, since every request has the timeout of
`REQUEST_TIMEOUT_MS`: it answers or fails. In `MpnThrottle` timers fire in the end, and time passes. Expiry and new
calls are never required. A request of the
catalogue has a timeout of 60 s, so there every step of the download is fair. In `PriceService` the program's steps
(`Work`) are fair, as every `parse()` settles by `EveryCallAnswers` of the search, and its stores answer. In `UploadCheck`
the cron goes on, a run's steps end, the hour of the cached key is over some time, and the directory is mounted again; files
and outages are bounded. Stores that fail are outside the models (see below).

## What is proved

`SearchSystemProofs` proves, for any sets of calls, keys, aliases and rows (`ConstantsAssumption` says only how
the constant functions are typed and that the two markers are not calls):

* `InductiveInvariant`: `Spec => []IInv`. `IInv` is `TypeOK` with a part per actor. The safety properties are not
  inductive: that only API goods are cached needs that a call about to save with `isSuccess` has the goods of the
  API (`CallInv`), which needs that a flow can fall back in an unfinished call only after it has cleared
  `isSuccess` and written the error key (`FlowInv`), which needs that `obtainError` returns early only when the
  call is finished. That a database row is sound needs the chain cache, keys job, row (`CacheInv`, `StoringInv`,
  `DbInv`) and that the goods a call gave never change (`Gave`).
* from it `TypeCorrect`, `CacheIsSound`, `DatabaseIsSound`, `FallbacksAreRecorded`, `SuccessesAreReal`,
  the action property `LateFailuresAreSilent`, and the refinement
  `SearchImplementsBreaker` (initial states map to initial states; every step is a step of the breaker or leaves
  it alone).

`MpnServiceProofs` proves the safety properties of `mpn` for any clicks, MPNs, makers and hints
(`MpnAssumption`): `SingleFlightHolds`, `HintsAreRespected`, `MissesAreApart`, `CachedAnswersAreFinal`,
`RequestsAreBounded`. Its invariant says that a flight only ever answers clicks with its own key (`PhaseInv`), that
`pending` and the stages of flights agree in both directions (`FlightInv`), how many requests each stage may have
used (`RequestInv`), and what a result and a cache entry may be (`ResultInv`, `CacheInv`).

`MpnThrottleProofs` proves `StartsAreSpaced` and `StartsAreInOrder` for every `MinInterval`, any set of requests and
any clock. The invariant is that the chain holds each waiting request once, only its head sleeps, and its timer
is due `MinInterval` after the last start: the value computed before the sleep cannot become stale, because no
other request can start meanwhile. By the same invariant every step is one of the limiter's or leaves it alone:
`ThrottleImplementsLimiter`.

`ScheduleImportProofs` proves `ImportsReplaceStock` and `NothingIsClearedEarly` for any imports, codes, searches, bindings,
cleanups and clock. The invariant says what an import knows of a row nobody else writes (`RowsInv`, by phase: untouched and older
than the start; stored or about to be; emptied or about to be), that nothing of an import is in flight unless it
stores, empties or has failed (`AnsweredInv`), and that an import that empties rows has no other stock in flight
(`ClearInv`). A step of one writer keeps what another import knows of its rows, because it adds the rows it
writes to `disturbed` (`LaunchKeepsOthers`).

`PromelecCatalogProofs` proves `CompletedMirrorsSnapshot`, `TruncatedNeverClears` and `RunningIsReleased` for any executions,
catalogues, searches, bindings, cleanups, sizes and number of crashes. At most one execution is under way (`AtMostOneRuns`), so the shared
variables are its own. Its invariant goes by phase: before the import no write of a catalogue is in flight, and a status left by
the night before lasts only while the download is too small to become the snapshot (`DownloadInv`, from
`MinTotal > (StatusEvery - 1) * PageSize`); no row touched since the start has stock of a catalogue but by this import or is bound since
(`FreshInv`, which is why only older rows have to be emptied); what the import has read is stored or about to be (`ImportInv`); what it
empties is all the snapshot lacks and nothing it has (`ClearInv`). `Quiet` and `Landed` are used here: an execution starts when
the writes of the last one have been answered, and a download outlasts the writes launched before it. Two parts no run could
show to be missing, only the induction: that a validated download has no older write in flight, and that of the writes
that empty rows none is the import's own stock.

`PriceServiceProofs` proves, for any suppliers, callers, tables of codes, items, shelves and sizes of a wave:
`LiveAnswersAreOwn`, `SuppliersAppearOnce` and `CallersGetTheirOwn` (of the route `dealers` only what it does, see above). For live prices the invariant (`LiveIInv`) says that the goods
read are of different codes (`OneRead`), and that each is answered for exactly when it is in no wave, by what its own
call found or by what is left of the row (`ReadInv`, `PlainAreEmpty`). For searches (`SearchIInv`) it says who was asked, that what the database and each
parser gave has one good at most of each of those, under its own name (`OneEach`), and that a reply is the shape of exactly
this. `SearchAssumption` says that codes are no ids and that `NoOne` and `Everyone` are no codes; `LiveAssumption` that
`Unknown` is no value.

`StoresProofs` proves `BindingsAreKept` for any calls, goods, clients and parameters: the typing, and that a call which
has found a row keeps finding it (`RowsStay`), make every step either keep `bound` or be a first binding.
It also proves `UpdatesAreEffective` for any currencies, updates and restarts: who is named in `after` writes no
more, and what an update wrote stays its own or goes to one that overlaps it (`UpdateInv`), so the reload at the end finds
no older rate (`Fresh`).

`PriceServiceProofs` also proves `StockIsAlwaysSellable` for goods of any number of warehouses: that a sequence of warehouses with
stock has a first one with stock, and that what is left of a row names none. `ShelfAssumption` says that the quantity of a warehouse is a number; the one the code can
make that is not (compel's, of a location without a quantity) compares as false everywhere and is never chosen as stock.

`PriceListsProofs` proves what the parsers make of rows with any cells, answers with any number of steps and lists of
any length. The assumptions say what a cell may hold (`Cell`: an integer or `NaN`), and where an answer is a list of
steps, that it is one: `SheetsAssumption` and `AnswersAssumption` let the steps of an answer and the five of esk start at
positive quantities (the band of a step from zero to one piece would end at 0, which means that it has no end), the eight of
compel's dbf be numbers, at multiples of the minimal order; rct's multiple be positive or missing; the vendors and stocks of an item have different numbers; and promelec's unit of price divide the one
prices are counted in (`Scale`). `MergedAssumption` types the rows of the merging parsers.

* `BandsAlwaysChargeTheTariff`: for each parser a lemma says that the bands it makes of a row charge the tariff of the row
  (`RisingSells`, `RctSells` and so on). They meet in `RisingCharges`: bands that run from one step of a rising list to the
  piece before the next charge the last step reached, and only that one. A parser that drops bands without a price, or
  that raises lower bounds to the minimal order, is brought to this case first. Of compel's eight steps the six
  that are read ask for the same up to the seventh (`FirstSixAsk`); that the multiple rct's parser rounds up to is the first one
  at which its rule holds is `RctNextIsThird`. `TariffsInv` then only says
  which lists have no tariff, as each row is read once.
* `WholesaleIsAlwaysFromTheSum`: the threshold fulcrum computes by division and rounding up is below `q` exactly when
  `q` pieces come to the sum.
* `DuplicatesAlwaysCollapse`: the invariant (`HoldsLargest`) is that what a parser holds for a code is one of its valid
  rows read so far, with the largest quantity, and nothing when there is none (microem's first row never counts).
* `StockAlwaysAddsUp`: the invariant for ecomp (`EcompInv`, `LotSums`) is that each lot held is the sum of the quantities
  of the rows that bring one, at the lowest of their prices, whatever sheet they came from. For ru.electronics there is one
  row, and the proof is that the sizes of its packs divide its packets into parts (`PacksAddUp`), each of which
  is a multiple of its size, and that only one size is the smallest, which alone is named plainly.

The sums are those of the community modules, defined by a recursive function on the subsets of a set. That this function
exists and is the only one, that a sum grows by the element added and that the sums of the parts of a set add up
to its own (`SumStep`, `SumAdd`, `SumOfParts`) are proved in the same module. Where they call for an induction, it is
done by looking at a least counterexample, in the well-founded order of the subsets of a finite set.

`TypeCorrect` is proved for the search, the cards, the imports and the catalogue.

Every invariant was checked by TLC on the instances above before it was proved.

## What is only model-checked

The liveness properties (`EveryCallAnswers`, `EveryRaceIsCounted`, `CachedGoodsAreStored`, `EveryClickAnswers`,
`EveryRequestGoesOut`, `EveryDownloadEnds`, `EveryRequestEnds`, `EveryUploadLeaves`): fairness and ENABLED are out of
the prover's reach. Temporal counterexamples of the violated properties are TLC's. Every other property of a
passing run is also a theorem.

## What is not modelled

* Failures of Redis, MongoDB and the queue inside `parse()`; they are listed as a hazard at
  `abstract.parser.ts:143` (a rejection in the timer callback leaves the promise unresolved).
* Durations: the blocked time, times to live and the 20 s budget are choices. That the budget is checked before
  a request waits in the throttle is a hazard.
* Names, producers, descriptive parameters, currencies and delivery times of goods, search strings, mail texts, logs, HTTP,
  XML and archive formats, the mending of malformed JSON (`repair-json.ts`): work on characters that no property is about.
* Reports that only read (`rate`, `blocked`, statistics), plain queries, units, seeds, wiring, mail; orders, of which
  the repository has only a document.
* `executeSnapshot` of the catalogue, which only a test calls.

## Plan

Done: search core, breaker, cards, throttle, imports and uploads, the goods of every parser, searches and live prices, stored
goods, rates, the proofs of all their safety properties. Left, in order of importance:

1. An abstract stock that `ScheduleImport` and `PromelecCatalog` both implement.
2. `MpnSystem`: `MpnService` composed with `RequestLimiter`, for a bound on requests that leave after a block.
3. Fault actions for the stores in `ApiParser` and `ParserProcessor`.
