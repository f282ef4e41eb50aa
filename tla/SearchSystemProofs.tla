--------------------------- MODULE SearchSystemProofs ---------------------------
(***************************************************************************)
(* Theorems about SearchSystem, for every set of calls, keys and aliases.  *)
(***************************************************************************)
EXTENDS SearchSystem, TLAPS

\* The state changes of one call's actions, grouped by what they may change.
LEMMA ParserCases ==
    ASSUME ParserNext
    PROVE  \/ \E s \in Search : Start(s)
           \/ \E s \in Search : CheckError(s)
           \/ \E s \in Search : ReadBlockedFromDb(s)
           \/ \E s \in Search : GetFromCache(s)
           \/ \E s \in Search : TimerFires(s)
           \/ \E s \in Search, f \in Flow : MarkFailed(s, f)
           \/ \E s \in Search, f \in Flow : WriteBlock(s, f)
           \/ \E s \in Search, f \in Flow : QueueMail(s, f)
           \/ \E s \in Search, f \in Flow : FallBack(s, f)
           \/ \E s \in Search : SaveToCache(s)
           \/ \E s \in Search : QueueKeys(s)
           \/ \E s \in Search : SendRequest(s)
           \/ \E s \in Search : VaultFails(s)
           \/ \E s \in Search : SupplierAnswers(s)
           \/ \E s \in Search : RequestFails(s)
           \/ \E s \in Search : Parsed(s)
           \/ \E a \in Alias : BlockExpires(a) \/ ErrorClear(a)
           \/ \E k \in Key : CacheExpires(k)
BY DEF ParserNext, OwnStep, RequestStep

\* A job's key, when it is a keys job.
LEMMA KeysJobType ==
    ASSUME NEW job \in Job, job.name = "keys"
    PROVE  job.key \in Key /\ job.of \in Search
BY DEF Job

LEMMA TypeOK_Init == SystemInit => TypeOK
BY ConstantsAssumption
   DEF SystemInit, Init, Processor!ProcessorInit, TypeOK, PC, Flow, FlowState, Data,
       Source, Nothing, Goods

LEMMA TypeOK_Step == TypeOK /\ [SystemNext]_allVars => TypeOK'
<1> SUFFICES ASSUME TypeOK, [SystemNext]_allVars PROVE TypeOK'
  OBVIOUS
<1> USE ConstantsAssumption
<1>1. CASE ParserNext /\ UNCHANGED processorVars
  <2> USE <1>1 DEF TypeOK, processorVars, sharedVars, parserVars
  <2>20. ASSUME NEW s \in Search, NEW d \in Data, AnswerWith(s, d) PROVE TypeOK'
    BY <2>20 DEF AnswerWith, PC
  <2>21. ASSUME NEW s \in Search, StartRace(s) PROVE TypeOK'
    <3>1. flow' \in [Search -> [Flow -> FlowState]]
      BY <2>21 DEF StartRace, Flow, FlowState
    <3> QED BY <2>21, <3>1 DEF StartRace, PC
  <2>1. ASSUME NEW s \in Search, Start(s) PROVE TypeOK'
    <3>1. Nothing \in Data
      BY DEF Nothing, Data, Source, Goods
    <3>2. Goto(s, "checkError") => TypeOK'
      BY DEF Goto, PC
    <3> QED BY <2>1, <2>20, <3>1, <3>2 DEF Start
  <2>2. ASSUME NEW s \in Search, CheckError(s) PROVE TypeOK'
    BY <2>2, <2>21 DEF CheckError, Goto, PC
  <2>3. ASSUME NEW s \in Search, ReadBlockedFromDb(s) PROVE TypeOK'
    <3>1. FromDb(s) \in Data
      BY DEF FromDb, Data, Source
    <3> QED BY <2>3, <2>20, <3>1 DEF ReadBlockedFromDb
  <2>4. ASSUME NEW s \in Search, GetFromCache(s) PROVE TypeOK'
    <3>1. FromCache(s) \in Data
      BY DEF FromCache, Data, Source
    <3> QED BY <2>4, <2>20, <2>21, <3>1 DEF GetFromCache
  <2>5. ASSUME NEW s \in Search, TimerFires(s) PROVE TypeOK'
    BY <2>5 DEF TimerFires, ObtainError, FlowState, ErrorStep, Flow
  <2>6. ASSUME NEW s \in Search, NEW f \in Flow, MarkFailed(s, f) PROVE TypeOK'
    BY <2>6 DEF MarkFailed, Advance, FlowState, ErrorStep
  <2>7. ASSUME NEW s \in Search, NEW f \in Flow, WriteBlock(s, f) PROVE TypeOK'
    BY <2>7 DEF WriteBlock, Advance, MyAlias, FlowState, ErrorStep
  <2>8. ASSUME NEW s \in Search, NEW f \in Flow, QueueMail(s, f) PROVE TypeOK'
    BY <2>8 DEF QueueMail, Advance, MailJob, Job, FlowState, ErrorStep
  <2>9. ASSUME NEW s \in Search, NEW f \in Flow, NEW d \in Data, Resolve(s, f, d) PROVE TypeOK'
    <3>1. flow' \in [Search -> [Flow -> FlowState]]
      BY <2>9 DEF Resolve, Settled, FlowState
    <3>2. queue' \subseteq Job
      BY <2>9 DEF Resolve, StatJob, Job
    <3>3. pc' \in [Search -> PC] /\ isFinished' \in [Search -> BOOLEAN]
      BY <2>9 DEF Resolve, PC
    <3>4. data' \in [Search -> Data]
      BY <2>9 DEF Resolve
    <3> QED BY <2>9, <3>1, <3>2, <3>3, <3>4 DEF Resolve
  <2>10. ASSUME NEW s \in Search, NEW f \in Flow, FallBack(s, f) PROVE TypeOK'
    <3>1. FromDb(s) \in Data
      BY DEF FromDb, Data, Source
    <3> QED BY <2>9, <2>10, <3>1 DEF FallBack
  <2>11. ASSUME NEW s \in Search, SaveToCache(s) PROVE TypeOK'
    BY <2>11 DEF SaveToCache, PC
  <2>12. ASSUME NEW s \in Search, QueueKeys(s) PROVE TypeOK'
    BY <2>12 DEF QueueKeys, KeysJob, Job, PC
  <2>13. ASSUME NEW s \in Search, SendRequest(s) PROVE TypeOK'
    BY <2>13 DEF SendRequest, Advance, FlowState, Flow
  <2>14. ASSUME NEW s \in Search, VaultFails(s) PROVE TypeOK'
    BY <2>14 DEF VaultFails, Settled, FlowState, PC
  <2>15. ASSUME NEW s \in Search, SupplierAnswers(s) PROVE TypeOK'
    BY <2>15 DEF SupplierAnswers, Advance, FlowState, Flow
  <2>16. ASSUME NEW s \in Search, RequestFails(s) PROVE TypeOK'
    BY <2>16 DEF RequestFails, ObtainError, FlowState, ErrorStep, Flow
  <2>17. ASSUME NEW s \in Search, Parsed(s) PROVE TypeOK'
    <3>1. FromApi(s) \in Data /\ "request" \in Flow
      BY DEF FromApi, Data, Source, Goods, Flow
    <3> QED BY <2>9, <2>17, <3>1 DEF Parsed
  <2>18. ASSUME NEW a \in Alias, BlockExpires(a) \/ ErrorClear(a) PROVE TypeOK'
    BY <2>18 DEF BlockExpires, ErrorClear
  <2>19. ASSUME NEW k \in Key, CacheExpires(k) PROVE TypeOK'
    BY <2>19 DEF CacheExpires, Nothing, Data, Source, Goods
  <2> QED
    BY <2>1, <2>2, <2>3, <2>4, <2>5, <2>6, <2>7, <2>8, <2>10, <2>11, <2>12, <2>13,
       <2>14, <2>15, <2>16, <2>17, <2>18, <2>19, ParserCases
<1>2. CASE ProcessorNext
  <2> USE <1>2 DEF TypeOK, parserVars, ProcessorNext
  <2>1. ASSUME NEW job \in queue, Processor!ApiRequestStats(job) PROVE TypeOK'
    BY <2>1 DEF Processor!ApiRequestStats, Processor!Take
  <2>2. ASSUME NEW job \in queue, Processor!ProcessErrorMessage(job) PROVE TypeOK'
    BY <2>2 DEF Processor!ProcessErrorMessage, Processor!Take
  <2>3. ASSUME NEW job \in queue, Processor!Keys(job) PROVE TypeOK'
    <3>1. job.key \in Key
      BY <2>3, KeysJobType DEF Processor!Keys, Processor!Take
    <3>2. cached[job.key].goods \in Goods
      BY <3>1 DEF Data
    <3> QED BY <2>3, <3>1, <3>2 DEF Processor!Keys, Processor!Take
  <2>4. ASSUME NEW write \in storing, Processor!CreateOrUpdate(write) PROVE TypeOK'
    BY <2>4 DEF Processor!CreateOrUpdate
  <2> QED
    BY <2>1, <2>2, <2>3, <2>4 DEF Processor!ProcessorStep
<1>3. CASE Quiescent \/ UNCHANGED allVars
  BY <1>3 DEF Quiescent, allVars, vars, parserVars, sharedVars, processorVars, TypeOK
<1> QED BY <1>1, <1>2, <1>3 DEF SystemNext

\* The state of every variable of SearchSystem has its type.
THEOREM TypeCorrect == Spec => []TypeOK
BY TypeOK_Init, TypeOK_Step, PTL DEF Spec
-----------------------------------------------------------------------------
LEMMA IInv_Init == SystemInit => IInv
<1> SUFFICES ASSUME SystemInit PROVE IInv
  OBVIOUS
<1> USE DEF SystemInit, Init, Processor!ProcessorInit
<1>1. TypeOK
  BY TypeOK_Init
<1>2. \A s \in Search : CallInv(s)
  BY DEF CallInv, BeforeRace, Returned, Contacted, Flow
<1>3. \A s \in Search, f \in Flow : FlowInv(s, f)
  BY DEF FlowInv
<1>4. StatInv /\ CacheInv /\ StoringInv /\ DbInv
  BY DEF StatInv, CacheInv, StoringInv, DbInv
<1> QED BY <1>1, <1>2, <1>3, <1>4 DEF IInv

\* What a call and its flows are known to satisfy is kept by every parser step.
LEMMA CallStep ==
    ASSUME IInv, ParserNext, NEW t \in Search
    PROVE  CallInv(t)' /\ \A g \in Flow : FlowInv(t, g)'
<1> USE DEF Returned, Contacted, BeforeRace
<1>t. /\ TypeOK /\ CallInv(t) /\ \A g \in Flow : FlowInv(t, g)
      /\ "request" \in Flow /\ "timer" \in Flow
  BY DEF IInv, Flow
<1>1. ASSUME NEW s \in Search, NEW d, AnswerWith(s, d), pc[s] \in BeforeRace
      PROVE  CallInv(t)' /\ \A g \in Flow : FlowInv(t, g)'
  BY <1>t, <1>1 DEF AnswerWith, CallInv, FlowInv, TypeOK, sharedVars
<1>2. ASSUME NEW s \in Search, StartRace(s), pc[s] \in BeforeRace \ {"idle"}
      PROVE  CallInv(t)' /\ \A g \in Flow : FlowInv(t, g)'
  BY <1>t, <1>2 DEF StartRace, CallInv, FlowInv, TypeOK, sharedVars, Flow
<1>3. ASSUME NEW s \in Search, NEW label \in BeforeRace, Goto(s, label), pc[s] \in BeforeRace, s \notin TooShort
      PROVE  CallInv(t)' /\ \A g \in Flow : FlowInv(t, g)'
  BY <1>t, <1>3 DEF Goto, CallInv, FlowInv, TypeOK, sharedVars
<1>4. ASSUME NEW s \in Search, Start(s) \/ CheckError(s) \/ ReadBlockedFromDb(s) \/ GetFromCache(s)
      PROVE  CallInv(t)' /\ \A g \in Flow : FlowInv(t, g)'
  <2>1. s \in TooShort => ~CheckError(s)
    BY DEF IInv, CallInv, CheckError
  <2> QED
    BY <1>1, <1>2, <1>3, <1>4, <2>1 DEF Start, CheckError, ReadBlockedFromDb, GetFromCache
<1>5. ASSUME NEW s \in Search, NEW f \in Flow, flow[s][f] \in {"armed", "sent", "parsing"}, ObtainError(s, f)
      PROVE  CallInv(t)' /\ \A g \in Flow : FlowInv(t, g)'
  BY <1>t, <1>5 DEF ObtainError, CallInv, FlowInv, TypeOK, sharedVars
<1>6. ASSUME NEW s \in Search, NEW f \in Flow, MarkFailed(s, f)
      PROVE  CallInv(t)' /\ \A g \in Flow : FlowInv(t, g)'
  BY <1>t, <1>6 DEF MarkFailed, Advance, CallInv, FlowInv, TypeOK, sharedVars
<1>7. ASSUME NEW s \in Search, NEW f \in Flow, WriteBlock(s, f)
      PROVE  CallInv(t)' /\ \A g \in Flow : FlowInv(t, g)'
  BY <1>t, <1>7 DEF WriteBlock, Advance, CallInv, FlowInv, TypeOK, sharedVars
<1>8. ASSUME NEW s \in Search, NEW f \in Flow, QueueMail(s, f)
      PROVE  CallInv(t)' /\ \A g \in Flow : FlowInv(t, g)'
  BY <1>t, <1>8 DEF QueueMail, Advance, CallInv, FlowInv, TypeOK, sharedVars
<1>9. ASSUME NEW s \in Search, NEW f \in Flow, NEW d \in Data, Resolve(s, f, d),
             flow[s][f] # "off",
             pc[s] = "race" => d = FromApi(s) \/ (~isSuccess[s] /\ errors[s] > 0)
      PROVE  CallInv(t)' /\ \A g \in Flow : FlowInv(t, g)'
  <2>1. CallInv(t)'
    BY <1>t, <1>9 DEF Resolve, Settled, CallInv, TypeOK, FromApi
  <2>2. \A g \in Flow : FlowInv(t, g)'
    BY <1>t, <1>9 DEF Resolve, Settled, FlowInv, TypeOK
  <2> QED BY <2>1, <2>2
<1>10. ASSUME NEW s \in Search, NEW f \in Flow, FallBack(s, f)
       PROVE  CallInv(t)' /\ \A g \in Flow : FlowInv(t, g)'
  <2>1. FromDb(s) \in Data
    BY <1>t, ConstantsAssumption DEF TypeOK, FromDb, Data, Source
  <2>2. pc[s] = "race" => ~isSuccess[s] /\ errors[s] > 0
    BY <1>10 DEF IInv, CallInv, FlowInv, FallBack
  <2> QED BY <1>9, <1>10, <2>1, <2>2 DEF FallBack
<1>11. ASSUME NEW s \in Search, Parsed(s)
       PROVE  CallInv(t)' /\ \A g \in Flow : FlowInv(t, g)'
  <2>1. FromApi(s) \in Data
    BY DEF FromApi, Data, Source, Goods
  <2> QED BY <1>t, <1>9, <1>11, <2>1 DEF Parsed
<1>12. ASSUME NEW s \in Search, SaveToCache(s)
       PROVE  CallInv(t)' /\ \A g \in Flow : FlowInv(t, g)'
  BY <1>t, <1>12 DEF SaveToCache, CallInv, FlowInv, TypeOK, FromApi
<1>13. ASSUME NEW s \in Search, QueueKeys(s)
       PROVE  CallInv(t)' /\ \A g \in Flow : FlowInv(t, g)'
  BY <1>t, <1>13 DEF QueueKeys, CallInv, FlowInv, TypeOK, FromApi
<1>14. ASSUME NEW s \in Search, SendRequest(s) \/ SupplierAnswers(s)
       PROVE  CallInv(t)' /\ \A g \in Flow : FlowInv(t, g)'
  BY <1>t, <1>14 DEF SendRequest, SupplierAnswers, Advance, CallInv, FlowInv, TypeOK, sharedVars
<1>15. ASSUME NEW s \in Search, VaultFails(s)
       PROVE  CallInv(t)' /\ \A g \in Flow : FlowInv(t, g)'
  BY <1>t, <1>15 DEF VaultFails, Settled, CallInv, FlowInv, TypeOK, sharedVars
<1>16. ASSUME UNCHANGED parserVars
       PROVE  CallInv(t)' /\ \A g \in Flow : FlowInv(t, g)'
  BY <1>t, <1>16 DEF parserVars, CallInv, FlowInv, FromApi
<1> QED
  BY <1>t, <1>4, <1>5, <1>6, <1>7, <1>8, <1>10, <1>11, <1>12, <1>13, <1>14, <1>15, <1>16, ParserCases
     DEF TimerFires, RequestFails, BlockExpires, ErrorClear, CacheExpires

\* The goods a call has given stay what they are.
LEMMA GaveStable ==
    ASSUME IInv, [SystemNext]_allVars, NEW t \in Search, Gave(t)
    PROVE  Gave(t)'
<1> USE DEF Gave, Returned, FromApi
<1>1. CASE UNCHANGED <<pc, data>>
  BY <1>1
<1>2. CASE ParserNext
  <2> USE DEF IInv, TypeOK
  <2>1. ASSUME NEW s \in Search, NEW d, AnswerWith(s, d), pc[s] \in BeforeRace PROVE Gave(t)'
    BY <2>1 DEF AnswerWith, BeforeRace
  <2>2. ASSUME NEW s \in Search, NEW label, Goto(s, label), pc[s] \in BeforeRace PROVE Gave(t)'
    BY <2>2 DEF Goto, BeforeRace
  <2>3. ASSUME NEW s \in Search, StartRace(s), pc[s] \in BeforeRace PROVE Gave(t)'
    BY <2>3 DEF StartRace, BeforeRace
  <2>4. ASSUME NEW s \in Search, Start(s) \/ CheckError(s) \/ ReadBlockedFromDb(s) \/ GetFromCache(s)
        PROVE  Gave(t)'
    BY <2>1, <2>2, <2>3, <2>4 DEF Start, CheckError, ReadBlockedFromDb, GetFromCache, BeforeRace
  <2>5. ASSUME NEW s \in Search, NEW f \in Flow, NEW d, Resolve(s, f, d) PROVE Gave(t)'
    BY <2>5 DEF Resolve
  <2>6. ASSUME NEW s \in Search, SaveToCache(s) \/ QueueKeys(s) \/ VaultFails(s) PROVE Gave(t)'
    BY <2>6 DEF SaveToCache, QueueKeys, VaultFails
  <2>7. "request" \in Flow
    BY DEF Flow
  <2> QED
    BY <1>1, <1>2, <2>4, <2>5, <2>6, <2>7, ParserCases
       DEF TimerFires, RequestFails, ObtainError, MarkFailed, WriteBlock, QueueMail, FallBack,
           SendRequest, SupplierAnswers, Parsed, BlockExpires, ErrorClear, CacheExpires, parserVars
<1>3. CASE ProcessorNext \/ Quiescent \/ UNCHANGED allVars
  BY <1>1, <1>3 DEF ProcessorNext, Quiescent, allVars, vars, parserVars
<1> QED BY <1>2, <1>3 DEF SystemNext

LEMMA StatStep == IInv /\ [SystemNext]_allVars => StatInv'
<1> SUFFICES ASSUME IInv, [SystemNext]_allVars, NEW t \in Search,
                    StatJob(t, TRUE) \in queue' \union stats'
             PROVE  Gave(t)'
  BY DEF StatInv, StatJob
<1>1. CASE StatJob(t, TRUE) \in queue \union stats
  BY <1>1, GaveStable DEF IInv, StatInv
<1>2. CASE StatJob(t, TRUE) \notin queue \union stats
  <2>1. ASSUME NEW s \in Search, NEW f \in Flow, NEW d, Resolve(s, f, d), UNCHANGED processorVars
        PROVE  s = t /\ pc[t] = "race" /\ isSuccess[t] /\ Returned(t)' /\ data'[t] = d
    <3>1. StatJob(t, TRUE) = StatJob(s, isSuccess[s]) /\ pc[s] = "race"
      BY <1>2, <2>1 DEF Resolve, processorVars
    <3>2. s = t /\ isSuccess[t]
      BY <3>1 DEF StatJob
    <3> QED BY <2>1, <3>1, <3>2 DEF Resolve, IInv, TypeOK, Returned
  <2>2. ASSUME NEW s \in Search, Parsed(s), UNCHANGED processorVars PROVE Gave(t)'
    BY <2>1, <2>2 DEF Parsed, Gave, Flow, FromApi
  <2>3. ASSUME NEW s \in Search, NEW f \in Flow, FallBack(s, f), UNCHANGED processorVars
        PROVE  FALSE
    BY <2>1, <2>3 DEF FallBack, IInv, CallInv, FlowInv
  <2>4. ASSUME NEW s \in Search, NEW f \in Flow, QueueMail(s, f), UNCHANGED processorVars
        PROVE  FALSE
    BY <1>2, <2>4 DEF QueueMail, MailJob, StatJob, processorVars
  <2>5. ASSUME NEW s \in Search, QueueKeys(s), UNCHANGED processorVars PROVE FALSE
    BY <1>2, <2>5 DEF QueueKeys, KeysJob, StatJob, processorVars
  <2>6. ASSUME NEW s \in Search, Start(s) \/ CheckError(s) \/ ReadBlockedFromDb(s) \/ GetFromCache(s)
        PROVE  UNCHANGED queue
    BY <2>6 DEF Start, CheckError, ReadBlockedFromDb, GetFromCache, AnswerWith, Goto, StartRace,
                sharedVars
  <2>7. ParserNext /\ UNCHANGED processorVars => Gave(t)'
    BY <1>2, <2>2, <2>3, <2>4, <2>5, <2>6, ParserCases
       DEF TimerFires, RequestFails, ObtainError, MarkFailed, WriteBlock, VaultFails, SaveToCache,
           SendRequest, SupplierAnswers, BlockExpires, ErrorClear, CacheExpires, sharedVars,
           processorVars
  <2>8. ~ProcessorNext
    BY <1>2 DEF ProcessorNext, Processor!ProcessorStep, Processor!ApiRequestStats, Processor!Take,
                Processor!ProcessErrorMessage, Processor!Keys, Processor!CreateOrUpdate
  <2>9. ~(Quiescent \/ UNCHANGED allVars)
    BY <1>2 DEF Quiescent, allVars, vars, sharedVars, processorVars
  <2> QED BY <2>7, <2>8, <2>9 DEF SystemNext
<1> QED BY <1>1, <1>2

LEMMA CacheStep == IInv /\ [SystemNext]_allVars => CacheInv'
<1> SUFFICES ASSUME IInv, [SystemNext]_allVars, NEW k \in Key, cached'[k] # Nothing
             PROVE  \E s \in Search : KeyOf[s] = k /\ cached'[k] = FromApi(s) /\ Gave(s)'
  BY DEF CacheInv, FromApi
<1>1. CASE cached'[k] = cached[k]
  BY <1>1, GaveStable DEF IInv, CacheInv
<1>2. CASE cached'[k] # cached[k]
  <2>1. ASSUME NEW s \in Search, SaveToCache(s)
        PROVE  KeyOf[s] = k /\ cached'[k] = FromApi(s) /\ Gave(s)'
    BY <1>2, <2>1 DEF SaveToCache, IInv, CallInv, TypeOK, Gave, Returned, FromApi
  <2>2. ASSUME NEW l \in Key, CacheExpires(l) PROVE FALSE
    BY <1>2, <2>2 DEF CacheExpires, IInv, TypeOK
  <2>3. ASSUME NEW s \in Search, Start(s) \/ CheckError(s) \/ ReadBlockedFromDb(s) \/ GetFromCache(s)
        PROVE  UNCHANGED cached
    BY <2>3 DEF Start, CheckError, ReadBlockedFromDb, GetFromCache, AnswerWith, Goto, StartRace,
                sharedVars
  <2>4. ASSUME NEW s \in Search, NEW f \in Flow, FallBack(s, f) \/ Parsed(s) PROVE UNCHANGED cached
    BY <2>4 DEF FallBack, Parsed, Resolve
  <2>5. ParserNext => \E s \in Search : SaveToCache(s)
    BY <1>2, <2>2, <2>3, <2>4, ParserCases
       DEF TimerFires, RequestFails, ObtainError, MarkFailed, WriteBlock, QueueMail, QueueKeys,
           VaultFails, SendRequest, SupplierAnswers, BlockExpires, ErrorClear, sharedVars, Flow
  <2>6. ~ProcessorNext
    BY <1>2 DEF ProcessorNext, Processor!ProcessorStep, Processor!ApiRequestStats,
                Processor!ProcessErrorMessage, Processor!Keys, Processor!CreateOrUpdate
  <2>7. ~(Quiescent \/ UNCHANGED allVars)
    BY <1>2 DEF Quiescent, allVars, vars, sharedVars
  <2> QED BY <2>1, <2>5, <2>6, <2>7 DEF SystemNext
<1> QED BY <1>1, <1>2

LEMMA DbUnchanged ==
    ASSUME ParserNext
    PROVE  UNCHANGED db
<1>1. ASSUME NEW s \in Search, Start(s) \/ CheckError(s) \/ ReadBlockedFromDb(s) \/ GetFromCache(s)
      PROVE  UNCHANGED db
  BY <1>1 DEF Start, CheckError, ReadBlockedFromDb, GetFromCache, AnswerWith, Goto, StartRace,
              sharedVars
<1>2. ASSUME NEW s \in Search, NEW f \in Flow, FallBack(s, f) \/ Parsed(s) PROVE UNCHANGED db
  BY <1>2 DEF FallBack, Parsed, Resolve
<1> QED
  BY <1>1, <1>2, ParserCases
     DEF TimerFires, RequestFails, ObtainError, MarkFailed, WriteBlock, QueueMail, QueueKeys,
         SaveToCache, VaultFails, SendRequest, SupplierAnswers, BlockExpires, ErrorClear,
         CacheExpires, sharedVars, Flow

\* Only the keys jobs read the cache for the database, and only createOrUpdate
\* writes it.
LEMMA StoreStep == IInv /\ [SystemNext]_allVars => StoringInv' /\ DbInv'
<1> SUFFICES ASSUME IInv, [SystemNext]_allVars PROVE StoringInv' /\ DbInv'
  OBVIOUS
<1>1. \A s \in Search : Gave(s) => Gave(s)'
  BY GaveStable
<1>2. CASE UNCHANGED <<storing, db>>
  BY <1>1, <1>2 DEF IInv, StoringInv, DbInv
<1>3. ASSUME NEW job \in queue, Processor!Keys(job) PROVE StoringInv' /\ DbInv'
  <2>1. job.key \in Key
    BY <1>3, KeysJobType DEF Processor!Keys, Processor!Take, IInv, TypeOK
  <2>2. CASE cached[job.key] = Nothing
    BY <1>1, <1>2, <1>3, <2>2 DEF Processor!Keys
  <2>3. CASE cached[job.key] # Nothing
    <3> DEFINE new == [job |-> job, goods |-> cached[job.key].goods]
    <3>1. storing' = storing \union {new} /\ db' = db
      BY <1>3, <2>3 DEF Processor!Keys
    <3>2. PICK s \in Search : KeyOf[s] = job.key /\ cached[job.key] = FromApi(s) /\ Gave(s)
      BY <2>1, <2>3 DEF IInv, CacheInv
    <3>3. new.job.key = job.key /\ new.goods = s
      BY <3>2 DEF FromApi
    <3> HIDE DEF new
    <3> QED BY <1>1, <2>1, <3>1, <3>2, <3>3 DEF IInv, StoringInv, DbInv
  <2> QED BY <2>2, <2>3
<1>4. ASSUME NEW write \in storing, Processor!CreateOrUpdate(write) PROVE StoringInv' /\ DbInv'
  BY <1>1, <1>4 DEF Processor!CreateOrUpdate, IInv, StoringInv, DbInv, TypeOK
<1> QED
  BY <1>2, <1>3, <1>4, DbUnchanged
     DEF SystemNext, ProcessorNext, Processor!ProcessorStep, Processor!ApiRequestStats,
         Processor!ProcessErrorMessage, Quiescent, allVars, vars, sharedVars, processorVars

LEMMA IInv_Step == IInv /\ [SystemNext]_allVars => IInv'
<1> SUFFICES ASSUME IInv, [SystemNext]_allVars PROVE IInv'
  OBVIOUS
<1>1. TypeOK'
  BY TypeOK_Step DEF IInv
<1>2. \A s \in Search : CallInv(s)' /\ \A f \in Flow : FlowInv(s, f)'
  <2>1. CASE ParserNext
    BY <2>1, CallStep
  <2>2. CASE ProcessorNext \/ Quiescent \/ UNCHANGED allVars
    <3>1. UNCHANGED parserVars
      BY <2>2 DEF ProcessorNext, Quiescent, allVars, vars, parserVars
    <3> QED BY <3>1 DEF IInv, parserVars, CallInv, FlowInv, Returned, Contacted, FromApi
  <2> QED BY <2>1, <2>2 DEF SystemNext
<1> QED BY <1>1, <1>2, StatStep, CacheStep, StoreStep DEF IInv

THEOREM InductiveInvariant == Spec => []IInv
BY IInv_Init, IInv_Step, PTL DEF Spec
-----------------------------------------------------------------------------
\* The cache never holds a database fallback, whichever flow won the race.
THEOREM CacheIsSound == Spec => []CacheHoldsApiGoods
<1>1. IInv => CacheHoldsApiGoods
  BY DEF IInv, CacheInv, CacheHoldsApiGoods
<1> QED BY <1>1, InductiveInvariant, PTL

\* What the database holds was returned by a call from its supplier's API.
THEOREM DatabaseIsSound == Spec => []StoredGoodsWereReturned
<1>1. IInv => StoredGoodsWereReturned
  BY DEF IInv, DbInv, Gave, StoredGoodsWereReturned
<1> QED BY <1>1, InductiveInvariant, PTL

\* A fallback has written the error key and is not counted as a success.
THEOREM FallbacksAreRecorded == Spec => []FallbackIsRecorded
<1>1. IInv => FallbackIsRecorded
  <2> SUFFICES ASSUME IInv, NEW s \in Search, Returned(s), Contacted(s), data[s].source = "db"
               PROVE  errors[s] > 0 /\ StatJob(s, TRUE) \notin queue \union stats
    BY DEF FallbackIsRecorded
  <2>1. errors[s] > 0
    BY DEF IInv, CallInv
  <2>2. ~Gave(s)
    BY DEF Gave, FromApi
  <2> QED BY <2>1, <2>2 DEF IInv, StatInv
<1> QED BY <1>1, InductiveInvariant, PTL

\* A success is counted only of a call that returned its supplier's goods.
THEOREM SuccessesAreReal == Spec => []SuccessWasReturned
<1>1. IInv => SuccessWasReturned
  BY DEF IInv, StatInv, Gave, SuccessWasReturned
<1> QED BY <1>1, InductiveInvariant, PTL

\* Once a call has answered and recorded its error, nothing records it again.
THEOREM LateFailuresAreSilent == Spec => LateFailureIsSilent
<1>1. ASSUME IInv, [SystemNext]_allVars, NEW t \in Search,
             isFinished[t], \A g \in Flow : flow[t][g] \notin ErrorStep
      PROVE  errors'[t] = errors[t] /\ \A g \in Flow : flow'[t][g] \notin ErrorStep
  <2> USE <1>1 DEF IInv, TypeOK, ErrorStep
  <2>1. CASE UNCHANGED <<flow, errors>>
    BY <2>1
  <2>2. ASSUME NEW s \in Search, Start(s) \/ CheckError(s) \/ ReadBlockedFromDb(s) \/ GetFromCache(s)
        PROVE  UNCHANGED <<flow, errors>> \/ StartRace(s)
    BY <2>2 DEF Start, CheckError, ReadBlockedFromDb, GetFromCache, AnswerWith, Goto
  <2>3. ASSUME NEW s \in Search, StartRace(s)
        PROVE  errors'[t] = errors[t] /\ \A g \in Flow : flow'[t][g] \notin ErrorStep
    BY <2>3 DEF StartRace, Flow
  <2>4. ASSUME NEW s \in Search, NEW f \in Flow, ObtainError(s, f)
        PROVE  errors'[t] = errors[t] /\ \A g \in Flow : flow'[t][g] \notin ErrorStep
    BY <2>4 DEF ObtainError
  <2>5. ASSUME NEW s \in Search, NEW f \in Flow, MarkFailed(s, f) \/ WriteBlock(s, f) \/ QueueMail(s, f)
        PROVE  errors'[t] = errors[t] /\ \A g \in Flow : flow'[t][g] \notin ErrorStep
    BY <2>5 DEF MarkFailed, WriteBlock, QueueMail, Advance
  <2>6. ASSUME NEW s \in Search, NEW f \in Flow, Settled(s, f), UNCHANGED errors
        PROVE  errors'[t] = errors[t] /\ \A g \in Flow : flow'[t][g] \notin ErrorStep
    BY <2>6 DEF Settled
  <2>7. ASSUME NEW s \in Search, SendRequest(s) \/ SupplierAnswers(s)
        PROVE  errors'[t] = errors[t] /\ \A g \in Flow : flow'[t][g] \notin ErrorStep
    BY <2>7 DEF SendRequest, SupplierAnswers, Advance, Flow
  <2>8. CASE ParserNext
    BY <2>1, <2>2, <2>3, <2>4, <2>5, <2>6, <2>7, <2>8, ParserCases
       DEF TimerFires, RequestFails, FallBack, Parsed, Resolve, VaultFails, SaveToCache, QueueKeys,
           BlockExpires, ErrorClear, CacheExpires, parserVars, Flow
  <2>9. CASE ProcessorNext \/ Quiescent \/ UNCHANGED allVars
    BY <2>1, <2>9 DEF ProcessorNext, Quiescent, allVars, vars, parserVars
  <2> QED BY <2>8, <2>9 DEF SystemNext
<1>2. IInv /\ [SystemNext]_allVars =>
        [\A s \in Search :
            isFinished[s] /\ (\A f \in Flow : flow[s][f] \notin ErrorStep) =>
                /\ errors'[s] = errors[s]
                /\ \A f \in Flow : flow'[s][f] \notin ErrorStep]_allVars
  BY <1>1
<1> QED BY <1>2, InductiveInvariant, PTL DEF Spec, LateFailureIsSilent
-----------------------------------------------------------------------------
(* The refinement: what each step does to the breaker.                     *)

LEMMA BreakerInit == SystemInit => Breaker!Init
BY DEF SystemInit, Init, Breaker!Init, Admission

\* Outside checkError no step changes what was decided of a call.
LEMMA AdmissionStable ==
    ASSUME IInv, [SystemNext]_allVars, NEW t \in Search, ~CheckError(t)
    PROVE  Admission(t)' = Admission(t)
<1> USE DEF IInv, TypeOK, Admission, Contacted
<1>1. CASE UNCHANGED <<pc, flow, data>>
  BY <1>1
<1>2. ASSUME NEW s \in Search, s # t, Start(s) \/ CheckError(s) \/ ReadBlockedFromDb(s) \/ GetFromCache(s)
      PROVE  Admission(t)' = Admission(t)
  BY <1>2 DEF Start, CheckError, ReadBlockedFromDb, GetFromCache, AnswerWith, Goto, StartRace
<1>3. ASSUME Start(t) \/ ReadBlockedFromDb(t)
      PROVE  Admission(t)' = Admission(t)
  BY <1>3 DEF CallInv, Start, ReadBlockedFromDb, AnswerWith, Goto, FromDb, BeforeRace, Flow
<1>4. ASSUME GetFromCache(t)
      PROVE  Admission(t)' = Admission(t)
  BY <1>4 DEF CallInv, GetFromCache, AnswerWith, StartRace, FromCache, Nothing, BeforeRace
<1>5. ASSUME NEW s \in Search, NEW f \in Flow, flow[s][f] # "off", ObtainError(s, f)
      PROVE  Admission(t)' = Admission(t)
  BY <1>5 DEF CallInv, ObtainError
<1>6. ASSUME NEW s \in Search, NEW f \in Flow, MarkFailed(s, f) \/ WriteBlock(s, f) \/ QueueMail(s, f)
      PROVE  Admission(t)' = Admission(t)
  <2>1. PICK to \in {"block", "mail", "fallback"} :
          flow[s][f] # "off" /\ flow' = [flow EXCEPT ![s][f] = to]
    BY <1>6 DEF MarkFailed, WriteBlock, QueueMail, Advance
  <2>3. Contacted(t)' = Contacted(t)
    BY <2>1
  <2>2. UNCHANGED <<pc, data>>
    BY <1>6 DEF MarkFailed, WriteBlock, QueueMail
  <2> QED BY <2>2, <2>3
<1>7. ASSUME NEW s \in Search, NEW f \in Flow, NEW d, Resolve(s, f, d), flow[s][f] # "off"
      PROVE  Admission(t)' = Admission(t)
  <2>1. Contacted(t)' = Contacted(t)
    BY <1>7 DEF CallInv, Resolve, Settled, Flow
  <2>2. CASE pc[s] = "race" /\ s = t
    BY <1>7, <2>1, <2>2 DEF CallInv, Resolve
  <2>3. CASE ~(pc[s] = "race" /\ s = t)
    BY <1>7, <2>1, <2>3 DEF Resolve
  <2> QED BY <2>2, <2>3
<1>8. ASSUME NEW s \in Search, VaultFails(s)
      PROVE  Admission(t)' = Admission(t)
  BY <1>8 DEF VaultFails, Settled, Flow
<1>9. ASSUME NEW s \in Search, SendRequest(s) \/ SupplierAnswers(s)
      PROVE  Admission(t)' = Admission(t)
  BY <1>9 DEF SendRequest, SupplierAnswers, Advance
<1>10. ASSUME NEW s \in Search, SaveToCache(s) \/ QueueKeys(s)
       PROVE  Admission(t)' = Admission(t)
  BY <1>10 DEF SaveToCache, QueueKeys
<1>11. "request" \in Flow /\ "timer" \in Flow
  BY DEF Flow
<1>12. CASE ParserNext
  BY <1>1, <1>2, <1>3, <1>4, <1>5, <1>6, <1>7, <1>8, <1>9, <1>10, <1>11, <1>12, ParserCases
     DEF TimerFires, RequestFails, FallBack, Parsed, BlockExpires, ErrorClear, CacheExpires, parserVars
<1>13. CASE ProcessorNext \/ Quiescent \/ UNCHANGED allVars
  BY <1>1, <1>13 DEF ProcessorNext, Quiescent, allVars, vars, parserVars
<1> QED BY <1>12, <1>13 DEF SystemNext

\* Every step is a breaker step or leaves the breaker alone.
LEMMA BreakerStep ==
    IInv /\ [SystemNext]_allVars => [Breaker!Next]_<<blocked, [s \in Search |-> Admission(s)]>>
<1> SUFFICES ASSUME IInv, [SystemNext]_allVars
             PROVE  [Breaker!Next]_<<blocked, [s \in Search |-> Admission(s)]>>
  OBVIOUS
<1> DEFINE admission == [s \in Search |-> Admission(s)]
           Unchanged == \A t \in Search : Admission(t)' = Admission(t)
<1>1. Unchanged => admission' = admission
  OBVIOUS
<1>2. ASSUME NEW s \in Search, CheckError(s), ParserNext PROVE Breaker!Admit(s) \/ Breaker!Refuse(s)
  <2>1. \A t \in Search : t # s => Admission(t)' = Admission(t)
    BY <1>2 DEF CheckError, Goto, StartRace, Admission, Contacted, IInv, TypeOK
  <2>2. blocked' = blocked /\ Admission(s) = "new"
    BY <1>2 DEF CheckError, Goto, StartRace, Admission, sharedVars
  <2>3. MyAlias(s) \in blocked => Admission(s)' = "refused"
    BY <1>2 DEF CheckError, Goto, Admission, IInv, CallInv, TypeOK
  <2>4. MyAlias(s) \notin blocked => Admission(s)' = "admitted"
    BY <1>2 DEF CheckError, Goto, StartRace, Admission, Contacted, Nothing, BeforeRace, IInv, CallInv, TypeOK
  <2>5. ASSUME NEW value, Admission(s)' = value
        PROVE  admission' = [admission EXCEPT ![s] = value]
    BY <2>1, <2>5
  <2> QED
    BY <2>2, <2>3, <2>4, <2>5 DEF Breaker!Admit, Breaker!Refuse
<1>3. UNCHANGED pc => \A t \in Search : ~CheckError(t)
  BY DEF CheckError, Goto, StartRace, IInv, TypeOK
<1>4. ASSUME NEW s \in Search, NEW f \in Flow, WriteBlock(s, f) PROVE Breaker!Trip(s)
  <2>1. Unchanged
    BY <1>4, <1>3, AdmissionStable DEF WriteBlock
  <2>2. Admission(s) = "admitted"
    BY <1>4 DEF WriteBlock, Advance, Admission, IInv, CallInv, BeforeRace
  <2> QED BY <1>1, <1>4, <2>1, <2>2 DEF WriteBlock, Breaker!Trip
<1>5. ASSUME NEW a \in Alias, BlockExpires(a) \/ ErrorClear(a) PROVE Breaker!Reset(a)
  <2>1. Unchanged
    BY <1>3, <1>5, AdmissionStable DEF BlockExpires, ErrorClear, parserVars
  <2> QED BY <1>1, <1>5, <2>1 DEF BlockExpires, ErrorClear, Breaker!Reset
<1>6. ASSUME UNCHANGED blocked, \A t \in Search : ~CheckError(t)
      PROVE  UNCHANGED <<blocked, admission>>
  BY <1>1, <1>6, AdmissionStable
<1>7. ASSUME NEW s \in Search, Start(s) \/ ReadBlockedFromDb(s) \/ GetFromCache(s)
      PROVE  UNCHANGED blocked
  BY <1>7 DEF Start, ReadBlockedFromDb, GetFromCache, AnswerWith, Goto, StartRace, sharedVars
<1>8. ASSUME NEW s \in Search, NEW f \in Flow, FallBack(s, f) \/ Parsed(s)
      PROVE  UNCHANGED blocked
  BY <1>8 DEF FallBack, Parsed, Resolve
<1>9. ParserNext =>
        \/ UNCHANGED blocked
        \/ \E s \in Search, f \in Flow : WriteBlock(s, f)
        \/ \E s \in Search : CheckError(s)
        \/ \E a \in Alias : BlockExpires(a) \/ ErrorClear(a)
  BY <1>7, <1>8, ParserCases
     DEF TimerFires, RequestFails, ObtainError, MarkFailed, QueueMail, QueueKeys, SaveToCache,
         VaultFails, SendRequest, SupplierAnswers, CacheExpires, sharedVars, Flow
<1>10. ProcessorNext \/ Quiescent \/ UNCHANGED allVars => UNCHANGED <<blocked, pc>>
  BY DEF ProcessorNext, Quiescent, allVars, vars, parserVars, sharedVars
<1>11. CASE \E s \in Search : CheckError(s)
  <2>1. ParserNext
    BY <1>3, <1>10, <1>11 DEF SystemNext
  <2> QED BY <1>2, <1>11, <2>1 DEF Breaker!Next
<1>12. CASE ~\E s \in Search : CheckError(s)
  BY <1>4, <1>5, <1>6, <1>9, <1>10, <1>12 DEF Breaker!Next, SystemNext
<1> QED BY <1>11, <1>12

\* The parsers implement the breaker.
THEOREM SearchImplementsBreaker == Spec => ImplementsBreaker
BY BreakerInit, BreakerStep, InductiveInvariant, PTL DEF Spec, ImplementsBreaker, Breaker!Spec
=============================================================================
