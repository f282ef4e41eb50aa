------------------------------- MODULE ApiParser -------------------------------
(***************************************************************************)
(* parse() of the supplier parsers (abstract.parser.ts): one element of    *)
(* Search is one call of parse() on one parser object.  A call checks the  *)
(* supplier's error key, then the cache, then races two flows: the request *)
(* to the supplier and the timer.  Either flow may record an error         *)
(* (obtainError) and fall back to the database; the first flow to settle   *)
(* answers the call, the other keeps running in the background.            *)
(*                                                                         *)
(* Each await of the code is a point where other calls and the other flow  *)
(* may run; the code between two awaits is one action.                     *)
(***************************************************************************)
EXTENDS Naturals

CONSTANTS
    Search,     \* the calls of parse()
    Key,        \* cache keys, getCacheKey(): alias and search string
    Alias,      \* parser aliases, getAlias(): compel, compel-live, ...
    Row,        \* the goods of one supplier and alias in the database
    KeyOf,      \* [Search -> Key]
    AliasOf,    \* [Key -> Alias]
    RowOf,      \* [Key -> Row]: compel and compel-live share the supplier's rows
    WithCache,  \* the calls whose request has withCache set
    TooShort,   \* the calls whose search string is below getMinSearchLength()
    OldGoods,   \* goods the database held before any call of Search
    NoGoods     \* no entry under a key

ASSUME ConstantsAssumption ==
    /\ KeyOf \in [Search -> Key]
    /\ AliasOf \in [Key -> Alias]
    /\ RowOf \in [Key -> Row]
    /\ WithCache \subseteq Search
    /\ TooShort \subseteq Search
    /\ OldGoods \notin Search
    /\ NoGoods \notin Search \union {OldGoods}

VARIABLES
    pc,         \* where each call of parse() awaits
    flow,       \* where its request and its timer await
    data,       \* response.data: the goods and the source field they carry
    isSuccess,  \* response.isSuccess
    isFinished, \* response.isFinished
    errors,     \* how many times the call wrote its supplier's error key
    blocked,    \* aliases whose 'error : alias' key is in the cache
    cached,     \* [Key -> goods under the key, or NoGoods]
    queue,      \* jobs in the 'api' Bull queue
    db          \* [Row -> goods in MongoDB]

parserVars == <<pc, flow, data, isSuccess, isFinished, errors>>
sharedVars == <<blocked, cached, queue, db>>
vars == <<parserVars, sharedVars>>

\* The answer the supplier gives to call s is the model value s itself.
Goods == Search \union {OldGoods, NoGoods}
Source == {"none", "api", "db", "cache"}
Data == [source: Source, goods: Goods]
Nothing == [source |-> "none", goods |-> NoGoods]

Flow == {"request", "timer"}
ErrorStep == {"count", "block", "mail"}
FlowState == {"off", "token", "sent", "parsing", "armed", "cleared",
              "fallback", "settled"} \union ErrorStep
PC == {"idle", "checkError", "blockedDb", "getFromCache", "race",
       "saveStat", "saveToCache", "done", "failed"}

StatJob(s, ok) == [name |-> "apiRequestStats", of |-> s, ok |-> ok]
KeysJob(s) == [name |-> "keys", of |-> s, key |-> KeyOf[s]]
MailJob(s, f) == [name |-> "mail", of |-> s, by |-> f]
Job == [name: {"apiRequestStats"}, of: Search, ok: BOOLEAN]
         \union [name: {"keys"}, of: Search, key: Key]
         \union [name: {"mail"}, of: Search, by: Flow]

MyAlias(s) == AliasOf[KeyOf[s]]
FromDb(s) == [source |-> "db", goods |-> db[RowOf[KeyOf[s]]]]
FromApi(s) == [source |-> "api", goods |-> s]
FromCache(s) == [source |-> "cache", goods |-> cached[KeyOf[s]].goods]

Answered(s) == pc[s] \in {"done", "failed"}
-----------------------------------------------------------------------------
Init ==
    /\ pc = [s \in Search |-> "idle"]
    /\ flow = [s \in Search |-> [f \in Flow |-> "off"]]
    /\ data = [s \in Search |-> Nothing]
    /\ isSuccess = [s \in Search |-> TRUE]
    /\ isFinished = [s \in Search |-> FALSE]
    /\ errors = [s \in Search |-> 0]
    /\ blocked = {}
    /\ cached = [k \in Key |-> Nothing]
    /\ queue = {}
    /\ db = [r \in Row |-> OldGoods]

\* The call answers with d without having raced: nothing is recorded.
AnswerWith(s, d) ==
    /\ data' = [data EXCEPT ![s] = d]
    /\ isFinished' = [isFinished EXCEPT ![s] = TRUE]
    /\ pc' = [pc EXCEPT ![s] = "done"]
    /\ UNCHANGED <<flow, isSuccess, errors, sharedVars>>

Goto(s, label) ==
    /\ pc' = [pc EXCEPT ![s] = label]
    /\ UNCHANGED <<flow, data, isSuccess, isFinished, errors, sharedVars>>

\* Fault: the race is started without its timer.
StartRaceUntimed(s) ==
    /\ pc' = [pc EXCEPT ![s] = "race"]
    /\ flow' = [flow EXCEPT ![s]["request"] = "token"]
    /\ UNCHANGED <<data, isSuccess, isFinished, errors, sharedVars>>

\* getFromHttp up to the race: the request is started, then the timer armed.
StartRace(s) ==
    /\ pc' = [pc EXCEPT ![s] = "race"]
    /\ flow' = [flow EXCEPT ![s] = [request |-> "token", timer |-> "armed"]]
    /\ UNCHANGED <<data, isSuccess, isFinished, errors, sharedVars>>

\* prepareSearch: a search string that is too short is answered with no goods.
Start(s) ==
    /\ pc[s] = "idle"
    /\ IF s \in TooShort THEN AnswerWith(s, Nothing) ELSE Goto(s, "checkError")

\* Fault: a call that does not read the cache forgets the error key too.
CheckErrorIfCached(s) ==
    /\ pc[s] = "checkError"
    /\ \/ s \notin WithCache /\ StartRace(s)
       \/ s \in WithCache /\ MyAlias(s) \in blocked /\ Goto(s, "blockedDb")
       \/ s \in WithCache /\ MyAlias(s) \notin blocked /\ Goto(s, "getFromCache")

CheckError(s) ==
    /\ pc[s] = "checkError"
    /\ \/ MyAlias(s) \in blocked /\ Goto(s, "blockedDb")
       \/ MyAlias(s) \notin blocked /\ s \in WithCache /\ Goto(s, "getFromCache")
       \/ MyAlias(s) \notin blocked /\ s \notin WithCache /\ StartRace(s)

ReadBlockedFromDb(s) == pc[s] = "blockedDb" /\ AnswerWith(s, FromDb(s))

GetFromCache(s) ==
    /\ pc[s] = "getFromCache"
    /\ \/ cached[KeyOf[s]] # Nothing /\ AnswerWith(s, FromCache(s))
       \/ cached[KeyOf[s]] = Nothing /\ StartRace(s)
-----------------------------------------------------------------------------
(* The two flows of the race.                                              *)

\* A flow settles: the other one, if it is a timer still armed, is cleared by
\* withTimeout's finally.  A timer that already fired is not stopped by it.
Settled(s, f) ==
    flow' = [flow EXCEPT ![s] =
        [g \in Flow |-> IF g = f THEN "settled"
                        ELSE IF flow[s][g] = "armed" THEN "cleared"
                        ELSE flow[s][g]]]

\* Fault: a flow that loses the race still writes response.data.
ResolveOverwriting(s, f, d) ==
    /\ Settled(s, f)
    /\ data' = [data EXCEPT ![s] = d]
    /\ \/ /\ pc[s] = "race"
          /\ pc' = [pc EXCEPT ![s] = "saveStat"]
          /\ isFinished' = [isFinished EXCEPT ![s] = TRUE]
          /\ queue' = queue \union {StatJob(s, isSuccess[s])}
       \/ pc[s] # "race" /\ UNCHANGED <<pc, isFinished, queue>>
    /\ UNCHANGED <<isSuccess, errors, blocked, cached, db>>

\* Fault: only successes are counted.
ResolveCountingSuccess(s, f, d) ==
    /\ Settled(s, f)
    /\ \/ /\ pc[s] = "race"
          /\ pc' = [pc EXCEPT ![s] = "saveStat"]
          /\ data' = [data EXCEPT ![s] = d]
          /\ isFinished' = [isFinished EXCEPT ![s] = TRUE]
          /\ queue' = queue \union {job \in {StatJob(s, TRUE)} : isSuccess[s]}
       \/ pc[s] # "race" /\ UNCHANGED <<pc, data, isFinished, queue>>
    /\ UNCHANGED <<isSuccess, errors, blocked, cached, db>>

\* Flow f resolves with d.  The first one to do so answers the call: the
\* response is finished and its statistics queued with the isSuccess of now.
Resolve(s, f, d) ==
    /\ Settled(s, f)
    /\ \/ /\ pc[s] = "race"
          /\ pc' = [pc EXCEPT ![s] = "saveStat"]
          /\ data' = [data EXCEPT ![s] = d]
          /\ isFinished' = [isFinished EXCEPT ![s] = TRUE]
          /\ queue' = queue \union {StatJob(s, isSuccess[s])}
       \/ pc[s] # "race" /\ UNCHANGED <<pc, data, isFinished, queue>>
    /\ UNCHANGED <<isSuccess, errors, blocked, cached, db>>

\* Fault: no guard against a finished response.
ObtainErrorUnguarded(s, f) ==
    /\ flow' = [flow EXCEPT ![s][f] = "count"]
    /\ UNCHANGED <<pc, data, isSuccess, isFinished, errors, sharedVars>>

\* Fault: a timeout falls back without recording the error.
ObtainErrorOfRequest(s, f) ==
    /\ flow' = [flow EXCEPT ![s][f] =
                    IF isFinished[s] \/ f = "timer" THEN "fallback" ELSE "count"]
    /\ UNCHANGED <<pc, data, isSuccess, isFinished, errors, sharedVars>>

\* Flow f enters obtainError, which returns at once if the response is finished.
ObtainError(s, f) ==
    /\ flow' = [flow EXCEPT ![s][f] = IF isFinished[s] THEN "fallback" ELSE "count"]
    /\ UNCHANGED <<pc, data, isSuccess, isFinished, errors, sharedVars>>

Advance(s, f, from, to) ==
    /\ flow[s][f] = from
    /\ flow' = [flow EXCEPT ![s][f] = to]

\* getResponse() has the supplier's credentials from the vault and sends the
\* request; if they cannot be had, the request rejects outside the pipe that
\* handles errors, and a call still racing rejects with it.
SendRequest(s) ==
    /\ Advance(s, "request", "token", "sent")
    /\ UNCHANGED <<pc, data, isSuccess, isFinished, errors, sharedVars>>

VaultFails(s) ==
    /\ flow[s]["request"] = "token"
    /\ Settled(s, "request")
    /\ pc' = IF pc[s] = "race" THEN [pc EXCEPT ![s] = "failed"] ELSE pc
    /\ UNCHANGED <<data, isSuccess, isFinished, errors, sharedVars>>

SupplierAnswers(s) ==
    /\ Advance(s, "request", "sent", "parsing")
    /\ UNCHANGED <<pc, data, isSuccess, isFinished, errors, sharedVars>>

RequestFails(s) ==
    /\ flow[s]["request"] \in {"sent", "parsing"}
    /\ ObtainError(s, "request")

Parsed(s) ==
    /\ flow[s]["request"] = "parsing"
    /\ Resolve(s, "request", FromApi(s))

TimerFires(s) ==
    /\ flow[s]["timer"] = "armed"
    /\ ObtainError(s, "timer")

\* Fault: the error leaves isSuccess as it was.
MarkCounted(s, f) ==
    /\ Advance(s, f, "count", "block")
    /\ UNCHANGED <<pc, data, isSuccess, isFinished, errors, sharedVars>>

\* obtainError after todayErrorCount.
MarkFailed(s, f) ==
    /\ Advance(s, f, "count", "block")
    /\ isSuccess' = [isSuccess EXCEPT ![s] = FALSE]
    /\ UNCHANGED <<pc, data, isFinished, errors, sharedVars>>

\* Fault: the error key is made of the cache key.
WriteKeyBlock(s, f) ==
    /\ Advance(s, f, "block", "mail")
    /\ blocked' = blocked \union {KeyOf[s]}
    /\ errors' = [errors EXCEPT ![s] = @ + 1]
    /\ UNCHANGED <<pc, data, isSuccess, isFinished, cached, queue, db>>

\* obtainError's cache.set of the error key, then its queue.add of the mail.
WriteBlock(s, f) ==
    /\ Advance(s, f, "block", "mail")
    /\ blocked' = blocked \union {MyAlias(s)}
    /\ errors' = [errors EXCEPT ![s] = @ + 1]
    /\ UNCHANGED <<pc, data, isSuccess, isFinished, cached, queue, db>>

QueueMail(s, f) ==
    /\ Advance(s, f, "mail", "fallback")
    /\ queue' = queue \union {MailJob(s, f)}
    /\ UNCHANGED <<pc, data, isSuccess, isFinished, errors, blocked, cached, db>>

\* getFromDb after obtainError.
FallBack(s, f) ==
    /\ flow[s][f] = "fallback"
    /\ Resolve(s, f, FromDb(s))
-----------------------------------------------------------------------------
(* getFromHttp after the race.                                             *)

\* Fault: whatever answered the call is cached.
SaveAnyToCache(s) ==
    /\ pc[s] = "saveStat"
    /\ cached' = [cached EXCEPT ![KeyOf[s]] = data[s]]
    /\ pc' = [pc EXCEPT ![s] = "saveToCache"]
    /\ UNCHANGED <<flow, data, isSuccess, isFinished, errors, blocked, queue, db>>

\* saveStat's queue.add returned; saveToCache reads isSuccess only now.
SaveToCache(s) ==
    /\ pc[s] = "saveStat"
    /\ \/ /\ isSuccess[s]
          /\ cached' = [cached EXCEPT ![KeyOf[s]] = data[s]]
          /\ pc' = [pc EXCEPT ![s] = "saveToCache"]
       \/ /\ ~isSuccess[s]
          /\ pc' = [pc EXCEPT ![s] = "done"]
          /\ UNCHANGED cached
    /\ UNCHANGED <<flow, data, isSuccess, isFinished, errors, blocked, queue, db>>

\* Fault: only calls that read the cache queue their keys.
QueueKeysIfCached(s) ==
    /\ pc[s] = "saveToCache"
    /\ queue' = queue \union {job \in {KeysJob(s)} : s \in WithCache}
    /\ pc' = [pc EXCEPT ![s] = "done"]
    /\ UNCHANGED <<flow, data, isSuccess, isFinished, errors, blocked, cached, db>>

QueueKeys(s) ==
    /\ pc[s] = "saveToCache"
    /\ queue' = queue \union {KeysJob(s)}
    /\ pc' = [pc EXCEPT ![s] = "done"]
    /\ UNCHANGED <<flow, data, isSuccess, isFinished, errors, blocked, cached, db>>
-----------------------------------------------------------------------------
(* The cache expires keys; DELETE on the supplier's error clears its block. *)

BlockExpires(a) ==
    /\ a \in blocked
    /\ blocked' = blocked \ {a}
    /\ UNCHANGED <<parserVars, cached, queue, db>>

ErrorClear(a) ==
    /\ blocked' = blocked \ {a}
    /\ UNCHANGED <<parserVars, cached, queue, db>>

CacheExpires(k) ==
    /\ cached[k] # Nothing
    /\ cached' = [cached EXCEPT ![k] = Nothing]
    /\ UNCHANGED <<parserVars, blocked, queue, db>>

\* The steps the program takes by itself once started: its own code, its timer
\* and the stores it awaits.
OwnStep(s) ==
    \/ CheckError(s)
    \/ ReadBlockedFromDb(s)
    \/ GetFromCache(s)
    \/ TimerFires(s)
    \/ \E f \in Flow : MarkFailed(s, f) \/ WriteBlock(s, f)
                         \/ QueueMail(s, f) \/ FallBack(s, f)
    \/ SaveToCache(s)
    \/ QueueKeys(s)

\* What the vault and the supplier do, if they ever do anything.
RequestStep(s) ==
    \/ SendRequest(s)
    \/ VaultFails(s)
    \/ SupplierAnswers(s)
    \/ RequestFails(s)
    \/ Parsed(s)

ParserNext ==
    \/ \E s \in Search : Start(s) \/ OwnStep(s) \/ RequestStep(s)
    \/ \E a \in Alias : BlockExpires(a) \/ ErrorClear(a)
    \/ \E k \in Key : CacheExpires(k)
=============================================================================
