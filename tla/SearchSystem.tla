------------------------------ MODULE SearchSystem ------------------------------
(***************************************************************************)
(* Searches of supplier parsers (ApiParser) running beside the consumers   *)
(* of the jobs they queue (ParserProcessor).  They share the cache, the    *)
(* queue and the database.                                                 *)
(***************************************************************************)
EXTENDS ApiParser

VARIABLES storing, stats

Processor == INSTANCE ParserProcessor

processorVars == <<storing, stats>>
allVars == <<vars, processorVars>>

SystemInit == Init /\ Processor!ProcessorInit

ProcessorNext == Processor!ProcessorStep /\ UNCHANGED <<parserVars, blocked>>

\* Every call has answered and no job is left: the system may stop here.
Quiescent ==
    /\ \A s \in Search : Answered(s)
    /\ queue = {} /\ storing = {}
    /\ UNCHANGED allVars

SystemNext ==
    \/ ParserNext /\ UNCHANGED processorVars
    \/ ProcessorNext
    \/ Quiescent

Spec == SystemInit /\ [][SystemNext]_allVars

\* The program's code, its timers, the stores and the queue make progress.  The
\* vault and the supplier may stay silent for ever, no call has to be made and no
\* key has to expire.
Fairness ==
    /\ \A s \in Search : WF_allVars(OwnStep(s) /\ UNCHANGED processorVars)
    /\ WF_allVars(ProcessorNext)

FairSpec == Spec /\ Fairness
-----------------------------------------------------------------------------
TypeOK ==
    /\ pc \in [Search -> PC]
    /\ flow \in [Search -> [Flow -> FlowState]]
    /\ data \in [Search -> Data]
    /\ isSuccess \in [Search -> BOOLEAN]
    /\ isFinished \in [Search -> BOOLEAN]
    /\ errors \in [Search -> Nat]
    /\ blocked \subseteq Alias
    /\ cached \in [Key -> Data]
    /\ queue \subseteq Job
    /\ db \in [Row -> Goods]
    /\ storing \subseteq [job: Job, goods: Goods]
    /\ stats \subseteq Job

Contacted(s) == flow[s]["request"] # "off"
Returned(s) == pc[s] \in {"saveStat", "saveToCache", "done"}

\* saveToCache runs one await after the race and reads an isSuccess the other
\* flow may still change.  Whatever the order, a cache key only ever holds goods a
\* supplier's API gave for this very key, never a database fallback.
CacheHoldsApiGoods ==
    \A k \in Key : cached[k] # Nothing =>
        \E s \in Search : KeyOf[s] = k /\ cached[k] = FromApi(s)

\* Cache, queue and keys job together never write to a row of the database goods
\* that some call has not itself returned from the API for a key of that row.
StoredGoodsWereReturned ==
    \A r \in Row : db[r] # OldGoods =>
        \E s \in Search : RowOf[KeyOf[s]] = r /\ db[r] = s /\ data[s] = FromApi(s)

\* A call that asked its supplier and answers from the database has written the
\* supplier's error key, and its statistics are never those of a success: no
\* failure of a supplier goes unrecorded, whichever flow answers.
FallbackIsRecorded ==
    \A s \in Search : Returned(s) /\ Contacted(s) /\ data[s].source = "db" =>
        errors[s] > 0 /\ StatJob(s, TRUE) \notin queue \union stats

\* Statistics of a success are only of calls that returned the supplier's goods.
SuccessWasReturned ==
    \A s \in Search : StatJob(s, TRUE) \in queue \union stats =>
        data[s] = FromApi(s)

\* An answer or failure that comes once the call has answered and recorded its
\* error starts no second record of it.
LateFailureIsSilent ==
    [][\A s \in Search :
        isFinished[s] /\ (\A f \in Flow : flow[s][f] \notin ErrorStep) =>
            /\ errors'[s] = errors[s]
            /\ \A f \in Flow : flow'[s][f] \notin ErrorStep]_allVars

-----------------------------------------------------------------------------
\* The inductive invariant behind the safety properties.  A response that is not
\* finished can fall back only after an error has been recorded and isSuccess
\* cleared, and the goods a call has given are never changed afterwards.
BeforeRace == {"idle", "checkError", "blockedDb", "getFromCache"}
Gave(s) == Returned(s) /\ data[s] = FromApi(s)

CallInv(s) ==
    /\ pc[s] \in BeforeRace =>
           /\ data[s] = Nothing /\ isSuccess[s] /\ ~isFinished[s]
           /\ \A f \in Flow : flow[s][f] = "off"
    /\ pc[s] = "race" => ~isFinished[s] /\ Contacted(s)
    /\ \A f \in Flow : flow[s][f] # "off" => Contacted(s)
    /\ s \in TooShort => pc[s] \in {"idle", "done"} /\ ~Contacted(s)
    /\ Returned(s) => isFinished[s]
    /\ pc[s] = "saveStat" /\ isSuccess[s] => data[s] = FromApi(s)
    /\ pc[s] = "saveToCache" => data[s] = FromApi(s)
    /\ Returned(s) /\ Contacted(s) /\ data[s].source = "db" => errors[s] > 0

FlowInv(s, f) ==
    /\ flow[s][f] \in {"block", "mail"} => ~isSuccess[s]
    /\ flow[s][f] = "mail" => errors[s] > 0
    /\ flow[s][f] = "fallback" /\ ~isFinished[s] => ~isSuccess[s] /\ errors[s] > 0

StatInv == \A s \in Search : StatJob(s, TRUE) \in queue \union stats => Gave(s)

CacheInv == \A k \in Key : cached[k] # Nothing =>
    \E s \in Search : KeyOf[s] = k /\ cached[k] = FromApi(s) /\ Gave(s)

StoringInv == \A write \in storing :
    /\ write.job.key \in Key
    /\ \E s \in Search : RowOf[KeyOf[s]] = RowOf[write.job.key] /\ write.goods = s /\ Gave(s)

DbInv == \A r \in Row : db[r] # OldGoods =>
    \E s \in Search : RowOf[KeyOf[s]] = r /\ db[r] = s /\ Gave(s)

IInv ==
    /\ TypeOK
    /\ \A s \in Search : CallInv(s)
    /\ \A s \in Search, f \in Flow : FlowInv(s, f)
    /\ StatInv /\ CacheInv /\ StoringInv /\ DbInv
-----------------------------------------------------------------------------
\* Every call answers, though the vault or the supplier never does.
EveryCallAnswers == \A s \in Search : pc[s] = "checkError" ~> Answered(s)

\* Every race that does not reject is counted in the statistics.
EveryRaceIsCounted ==
    \A s \in Search : pc[s] = "race" ~>
        pc[s] = "failed" \/ \E ok \in BOOLEAN : StatJob(s, ok) \in stats

\* Goods just put in the cache reach the database, unless their key expires or is
\* written again before the keys job reads it.
CachedGoodsAreStored ==
    \A s \in Search :
        pc[s] = "saveToCache" /\ cached[KeyOf[s]] = FromApi(s) ~>
            cached[KeyOf[s]] # FromApi(s) \/ db[RowOf[KeyOf[s]]] = s
-----------------------------------------------------------------------------
\* What the comment on obtainError's guard and the test on late answers say: a
\* call records its error once.  A request that fails while the timer's own
\* obtainError awaits finds isFinished still unset and records a second one.
OneErrorPerCall == \A s \in Search : errors[s] <= 1

\* What the comment on withTimeout says: a call that timed out takes its goods
\* from the database.  The request may still win the race while obtainError awaits.
TimedOutTakesFromDb ==
    \A s \in Search : Returned(s) /\ flow[s]["timer"] \notin {"off", "cleared"} =>
        data[s].source = "db"

\* What was decided of a call when it was checked.
Admission(s) ==
    IF pc[s] \in {"idle", "checkError"} \/ s \in TooShort THEN "new"
    ELSE IF pc[s] = "blockedDb" \/ (~Contacted(s) /\ data[s].source = "db") THEN "refused"
    ELSE "admitted"

Breaker == INSTANCE SupplierBreaker WITH
    AliasOf <- [s \in Search |-> MyAlias(s)],
    open <- blocked,
    admission <- [s \in Search |-> Admission(s)]

\* The search implements the breaker: a blocked supplier is asked by no call that
\* was checked under the block, and only calls let through can block it.
ImplementsBreaker == Breaker!Spec
=============================================================================
