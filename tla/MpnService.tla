------------------------------- MODULE MpnService -------------------------------
(***************************************************************************)
(* MpnService.part() (mpn.service.ts): one element of Click is one call.   *)
(* A click reads the cache, then the block key, then joins the flight      *)
(* pending under its key or begins one.  A flight is named after the click *)
(* that began it; it asks mpn.cc up to five times and stores what it found *)
(* before its waiting clicks are answered.                                 *)
(*                                                                         *)
(* The client's throttle (MpnThrottle) is here only the wait between       *)
(* "queued" and "out"; the 20 s budget is a choice at each assertBudget.   *)
(***************************************************************************)
EXTENDS Naturals

CONSTANTS
    Click, Mpn, Maker,
    MpnOf,      \* [Click -> Mpn]: the normalized query
    HintOf,     \* [Click -> Maker or NoMaker]: the manufacturer slug of the query
    Refresh,    \* the clicks on "refresh"
    NoMaker, Similar, NoFlight

ASSUME MpnAssumption ==
    /\ MpnOf \in [Click -> Mpn]
    /\ HintOf \in [Click -> Maker \union {NoMaker}]
    /\ Refresh \subseteq Click
    /\ NoMaker \notin Maker /\ Similar \notin Maker \union {NoMaker}
    /\ NoFlight \notin Click

VARIABLES
    pc,         \* where each click awaits
    joined,     \* the flight a click waits for
    answer,     \* what a click was answered
    stage,      \* what each flight asks or does
    port,       \* its request: queued in the client, out, or asleep before a poll
    result,     \* its card, once picked, or its miss
    cacheable,  \* whether that may be cached
    requests,   \* how many requests it sent
    pending,    \* key -> flight in progress
    cached,     \* key -> card or miss in the cache
    blocked     \* the key 'error : mpn' is in the cache

clickVars == <<pc, joined, answer>>
flightVars == <<stage, port, result, cacheable, requests>>
vars == <<clickVars, flightVars, pending, cached, blocked>>

\* An answer: its flight, and whether the hint picked the card.
Answer == [kind: {"nothing", "found", "miss", "blocked", "upstream"},
           maker: Maker \union {NoMaker}, viaHint: BOOLEAN, of: Click \union {NoFlight}]
Plain(kind, f) == [kind |-> kind, maker |-> NoMaker, viaHint |-> FALSE, of |-> f]
Nothing == Plain("nothing", NoFlight)
Card(f, maker, viaHint) == [kind |-> "found", maker |-> maker, viaHint |-> viaHint, of |-> f]

Keys == Mpn \X (Maker \union {NoMaker})
FoundKey(c) == <<MpnOf[c], NoMaker>>
MissKey(c) == <<MpnOf[c], HintOf[c]>>

PC == {"idle", "readFound", "readMiss", "readBlock", "waiting", "fromCache", "answered"}
Asking == {"resolve", "acquire", "poll", "resolveAgain", "part"}
Stage == Asking \union {"none", "block", "store", "finish", "settled"}
Port == {"idle", "queued", "out", "asleep"}
-----------------------------------------------------------------------------
Init ==
    /\ pc = [c \in Click |-> "idle"]
    /\ joined = [c \in Click |-> NoFlight]
    /\ answer = [c \in Click |-> Nothing]
    /\ stage = [c \in Click |-> "none"]
    /\ port = [c \in Click |-> "idle"]
    /\ result = [c \in Click |-> Nothing]
    /\ cacheable = [c \in Click |-> TRUE]
    /\ requests = [c \in Click |-> 0]
    /\ pending = [k \in Keys |-> NoFlight]
    /\ cached = [k \in Keys |-> Nothing]
    /\ blocked = FALSE

Goto(c, label) ==
    /\ pc' = [pc EXCEPT ![c] = label]
    /\ UNCHANGED <<joined, answer, flightVars, pending, cached, blocked>>

Reply(c, label, a) ==
    /\ pc' = [pc EXCEPT ![c] = label]
    /\ answer' = [answer EXCEPT ![c] = a]
    /\ UNCHANGED <<joined, flightVars, pending, cached, blocked>>

\* A refresh does not read the cache.
Part(c) ==
    /\ pc[c] = "idle"
    /\ Goto(c, IF c \in Refresh THEN "readBlock" ELSE "readFound")

\* Fault: a miss under the plain key serves a hinted click too.
ServesPlainMiss(c, shared) == shared.kind # "nothing"

\* A card under the plain key serves any hint, a miss there only an unhinted click.
ServesPlain(c, shared) ==
    shared.kind = "found" \/ (shared.kind = "miss" /\ HintOf[c] = NoMaker)

ReadFound(c) ==
    LET shared == cached[FoundKey(c)] IN
    /\ pc[c] = "readFound"
    /\ IF ServesPlain(c, shared) THEN Reply(c, "fromCache", shared) ELSE Goto(c, "readMiss")

ReadMiss(c) ==
    LET own == cached[MissKey(c)] IN
    /\ pc[c] = "readMiss"
    /\ IF own # Nothing THEN Reply(c, "fromCache", own) ELSE Goto(c, "readBlock")

Join(c, f) ==
    /\ pc' = [pc EXCEPT ![c] = "waiting"]
    /\ joined' = [joined EXCEPT ![c] = f]

BeginFlight(c) ==
    /\ Join(c, c)
    /\ pending' = [pending EXCEPT ![MissKey(c)] = c]
    /\ stage' = [stage EXCEPT ![c] = "resolve"]
    /\ port' = [port EXCEPT ![c] = "queued"]
    /\ UNCHANGED <<answer, result, cacheable, requests, cached, blocked>>

\* assertNotBlocked, then pending is read and written without an await between.
ReadBlock(c) ==
    LET flight == pending[MissKey(c)] IN
    /\ pc[c] = "readBlock"
    /\ \/ blocked /\ Reply(c, "answered", Plain("blocked", NoFlight))
       \/ /\ ~blocked /\ flight # NoFlight /\ Join(c, flight)
          /\ UNCHANGED <<answer, flightVars, pending, cached, blocked>>
       \/ ~blocked /\ flight = NoFlight /\ BeginFlight(c)
-----------------------------------------------------------------------------
(* A flight: lookup(), acquire(), fetchAndStore() and translate().          *)

Send(f) ==
    /\ port[f] = "queued"
    /\ port' = [port EXCEPT ![f] = "out"]
    /\ requests' = [requests EXCEPT ![f] = @ + 1]
    /\ UNCHANGED <<clickVars, stage, result, cacheable, pending, cached, blocked>>

\* Fault: finally drops the entry of the plain key.
SettlePlain(f, a) ==
    /\ stage' = [stage EXCEPT ![f] = "settled"]
    /\ port' = [port EXCEPT ![f] = "idle"]
    /\ pending' = [pending EXCEPT ![FoundKey(f)] = NoFlight]
    /\ pc' = [c \in Click |-> IF joined[c] = f THEN "answered" ELSE pc[c]]
    /\ answer' = [c \in Click |-> IF joined[c] = f THEN a ELSE answer[c]]
    /\ UNCHANGED <<joined, cacheable, requests, cached, blocked>>

\* The flight is over: finally drops it from pending and its clicks are answered.
Settle(f, a) ==
    /\ stage' = [stage EXCEPT ![f] = "settled"]
    /\ port' = [port EXCEPT ![f] = "idle"]
    /\ pending' = [pending EXCEPT ![MissKey(f)] = NoFlight]
    /\ pc' = [c \in Click |-> IF joined[c] = f THEN "answered" ELSE pc[c]]
    /\ answer' = [c \in Click |-> IF joined[c] = f THEN a ELSE answer[c]]
    /\ UNCHANGED <<joined, cacheable, requests, cached, blocked>>

\* The flight asks mpn.cc next, if assertBudget lets it.
AskNext(f, next) ==
    \/ /\ stage' = [stage EXCEPT ![f] = next]
       /\ port' = [port EXCEPT ![f] = "queued"]
       /\ UNCHANGED <<clickVars, pending, cached, blocked, cacheable, requests>>
    \/ Settle(f, Plain("upstream", f))

\* The flight has its card or its miss; store() is next.
Conclude(f, a, mayCache) ==
    /\ stage' = [stage EXCEPT ![f] = "store"]
    /\ port' = [port EXCEPT ![f] = "idle"]
    /\ result' = [result EXCEPT ![f] = a]
    /\ cacheable' = [cacheable EXCEPT ![f] = mayCache]
    /\ UNCHANGED <<clickVars, requests, pending, cached, blocked>>

\* Fault: a part that is only similar is taken for exact.
PickAny(f, part, candidates) ==
    IF part # NoMaker /\ HintOf[f] \in {NoMaker, part} THEN Card(f, part, FALSE)
    ELSE IF HintOf[f] \in candidates THEN Card(f, HintOf[f], TRUE)
    ELSE IF part # NoMaker THEN Card(f, part, FALSE)
    ELSE Nothing

\* pickExact: the exact part if the hint allows, else the exact candidate of the
\* hinted maker, else the exact part all the same.
PickExact(f, part, candidates) ==
    IF part \in Maker /\ HintOf[f] \in {NoMaker, part} THEN Card(f, part, FALSE)
    ELSE IF HintOf[f] \in candidates THEN Card(f, HintOf[f], TRUE)
    ELSE IF part \in Maker THEN Card(f, part, FALSE)
    ELSE Nothing

\* lookup() on a resolve that is not followed by an acquisition.
FollowResolve(f, card) ==
    IF card = Nothing THEN Conclude(f, Plain("miss", f), TRUE)
    ELSE /\ AskNext(f, "part")
         /\ result' = [result EXCEPT ![f] = card]

\* resolve() answered: a part (exact or similar) or none, and candidates.
Resolved(f) ==
    /\ port[f] = "out"
    /\ \E part \in Maker \union {NoMaker, Similar}, candidates \in SUBSET (Maker \union {Similar}) :
        \/ /\ stage[f] = "resolve"
           /\ part = NoMaker /\ candidates = {}
           /\ AskNext(f, "acquire") /\ UNCHANGED result
        \/ /\ stage[f] = "resolve" => part # NoMaker \/ candidates # {}
           /\ stage[f] \in {"resolve", "resolveAgain"}
           /\ FollowResolve(f, PickExact(f, part, candidates))

\* Fault: polls go on for as long as the source is checking.
AcquiredOrPolls(f) ==
    /\ port[f] = "out"
    /\ stage[f] \in {"acquire", "poll"}
    /\ \/ AskNext(f, "resolveAgain") /\ UNCHANGED result
       \/ Conclude(f, Plain("miss", f), TRUE)
       \/ Conclude(f, Plain("miss", f), FALSE)
       \/ /\ port' = [port EXCEPT ![f] = "asleep"]
          /\ UNCHANGED <<clickVars, stage, result, cacheable, requests, pending, cached, blocked>>

\* acquire(): one poll of an acquisition that is still checking, if there is time.
Acquired(f) ==
    /\ port[f] = "out"
    /\ stage[f] \in {"acquire", "poll"}
    /\ \/ AskNext(f, "resolveAgain") /\ UNCHANGED result
       \/ Conclude(f, Plain("miss", f), TRUE)
       \/ Conclude(f, Plain("miss", f), FALSE)
       \/ /\ stage[f] = "acquire"
          /\ port' = [port EXCEPT ![f] = "asleep"]
          /\ UNCHANGED <<clickVars, stage, result, cacheable, requests, pending, cached, blocked>>

\* Fault: the loop sleeps again without asking again.
PollAsleep(f) ==
    /\ port[f] = "asleep"
    /\ UNCHANGED vars

Poll(f) ==
    /\ port[f] = "asleep"
    /\ stage' = [stage EXCEPT ![f] = "poll"]
    /\ port' = [port EXCEPT ![f] = "queued"]
    /\ UNCHANGED <<clickVars, result, cacheable, requests, pending, cached, blocked>>

GotPart(f) ==
    /\ port[f] = "out"
    /\ stage[f] = "part"
    /\ Conclude(f, result[f], TRUE)

\* 404 on the card is a miss, on anything else a failure.
NotFound(f) ==
    /\ port[f] = "out"
    /\ IF stage[f] = "part" THEN Conclude(f, Plain("miss", f), TRUE)
       ELSE Settle(f, Plain("upstream", f)) /\ UNCHANGED result

\* A timeout, another status or an answer that cannot be mapped.
RequestFails(f) ==
    /\ port[f] = "out"
    /\ Settle(f, Plain("upstream", f))
    /\ UNCHANGED result

RateLimited(f) ==
    /\ port[f] = "out"
    /\ stage' = [stage EXCEPT ![f] = "block"]
    /\ port' = [port EXCEPT ![f] = "idle"]
    /\ UNCHANGED <<clickVars, result, cacheable, requests, pending, cached, blocked>>

\* translate() of a rate limit error.
WriteBlock(f) ==
    /\ stage[f] = "block"
    /\ blocked' = TRUE
    /\ result' = [result EXCEPT ![f] = Plain("blocked", f)]
    /\ stage' = [stage EXCEPT ![f] = "finish"]
    /\ UNCHANGED <<clickVars, port, cacheable, requests, pending, cached>>

\* Fault: every card goes under the plain key.
StoreKeyOfFound(f) == IF result[f].kind = "found" THEN FoundKey(f) ELSE MissKey(f)

\* A card goes under the plain key unless the hint picked it.
StoreKey(f) ==
    IF result[f].kind = "found" /\ ~result[f].viaHint THEN FoundKey(f) ELSE MissKey(f)

\* Fault: a miss that is only temporary is cached like any other.
StoreAlways(f) ==
    /\ stage[f] = "store"
    /\ cached' = [cached EXCEPT ![StoreKey(f)] = result[f]]
    /\ stage' = [stage EXCEPT ![f] = "finish"]
    /\ UNCHANGED <<clickVars, port, result, cacheable, requests, pending, blocked>>

Store(f) ==
    /\ stage[f] = "store"
    /\ cached' = IF cacheable[f] THEN [cached EXCEPT ![StoreKey(f)] = result[f]] ELSE cached
    /\ stage' = [stage EXCEPT ![f] = "finish"]
    /\ UNCHANGED <<clickVars, port, result, cacheable, requests, pending, blocked>>

Finish(f) ==
    /\ stage[f] = "finish"
    /\ Settle(f, result[f])
    /\ UNCHANGED result
-----------------------------------------------------------------------------
CacheExpires(k) ==
    /\ cached[k] # Nothing
    /\ cached' = [cached EXCEPT ![k] = Nothing]
    /\ UNCHANGED <<clickVars, flightVars, pending, blocked>>

BlockExpires ==
    /\ blocked
    /\ blocked' = FALSE
    /\ UNCHANGED <<clickVars, flightVars, pending, cached>>

ClickStep(c) == ReadFound(c) \/ ReadMiss(c) \/ ReadBlock(c)

\* mpn.cc answers or the client's timeout makes the request fail.
UpstreamStep(f) ==
    Resolved(f) \/ Acquired(f) \/ GotPart(f) \/ NotFound(f) \/ RequestFails(f) \/ RateLimited(f)

FlightStep(f) == Send(f) \/ Poll(f) \/ WriteBlock(f) \/ Store(f) \/ Finish(f)

Done ==
    /\ \A c \in Click : pc[c] \in {"fromCache", "answered"}
    /\ UNCHANGED vars

Next ==
    \/ \E c \in Click : Part(c) \/ ClickStep(c) \/ UpstreamStep(c) \/ FlightStep(c)
    \/ \E k \in Keys : CacheExpires(k)
    \/ BlockExpires
    \/ Done

Spec == Init /\ [][Next]_vars

\* The code runs, and the client's timeout bounds each request it sent.
Fairness == \A c \in Click : WF_vars(ClickStep(c)) /\ WF_vars(UpstreamStep(c)) /\ WF_vars(FlightStep(c))

FairSpec == Spec /\ Fairness
-----------------------------------------------------------------------------
TypeOK ==
    /\ pc \in [Click -> PC]
    /\ joined \in [Click -> Click \union {NoFlight}]
    /\ answer \in [Click -> Answer]
    /\ stage \in [Click -> Stage]
    /\ port \in [Click -> Port]
    /\ result \in [Click -> Answer]
    /\ cacheable \in [Click -> BOOLEAN]
    /\ requests \in [Click -> Nat]
    /\ pending \in [Keys -> Click \union {NoFlight}]
    /\ cached \in [Keys -> Answer]
    /\ blocked \in BOOLEAN

Flying(f) == stage[f] \notin {"none", "settled"}

\* Of the clicks on one MPN with one hint at most one has a flight, and it is the
\* one pending: finally never drops a later flight's entry.
SingleFlight ==
    /\ \A f \in Click : Flying(f) => pending[MissKey(f)] = f
    /\ \A k \in Keys : pending[k] # NoFlight => Flying(pending[k])

\* A card a manufacturer's hint picked never answers a click without that hint,
\* whether it comes from the cache or from a shared flight.
HintedCardsStayHinted ==
    \A c \in Click : answer[c].viaHint => HintOf[c] = answer[c].maker

\* A miss of an unhinted click never silences a hinted one, nor one hint another.
MissesStayApart ==
    \A c \in Click : answer[c].kind = "miss" => HintOf[answer[c].of] = HintOf[c]

\* A miss while the source was still checking is not cached, and neither is a
\* failure: what the cache holds is what a flight concluded for good.
CacheIsFinal ==
    \A k \in Keys : cached[k] # Nothing =>
        /\ cached[k].kind \in {"found", "miss"}
        /\ cacheable[cached[k].of]

\* One call is at most five requests: resolve, acquire, poll, resolve, card.
AtMostFiveRequests == \A f \in Click : requests[f] <= 5

-----------------------------------------------------------------------------
\* The inductive invariant behind them.  stage and pending agree on who flies, a
\* flight only answers clicks with its MPN and hint, and each stage has its share of
\* the five requests.
PhaseInv == \A c \in Click :
    /\ pc[c] \notin {"waiting", "answered"} => joined[c] = NoFlight
    /\ pc[c] = "waiting" => joined[c] \in Click
    /\ joined[c] # NoFlight => MissKey(joined[c]) = MissKey(c)
    /\ stage[c] # "none" => joined[c] = c

FlightInv ==
    /\ \A f \in Click : Flying(f) => pending[MissKey(f)] = f
    /\ \A k \in Keys : pending[k] # NoFlight => Flying(pending[k]) /\ MissKey(pending[k]) = k

Allotted == [none |-> 0, resolve |-> 0, acquire |-> 1, poll |-> 2, resolveAgain |-> 3, part |-> 4]

RequestInv == \A f \in Click :
    /\ requests[f] <= 5
    /\ stage[f] = "none" => port[f] = "idle" /\ requests[f] = 0
    /\ port[f] # "idle" => stage[f] \in Asking
    /\ port[f] = "queued" => requests[f] <= Allotted[stage[f]]
    /\ port[f] # "idle" => requests[f] <= Allotted[stage[f]] + 1
    /\ port[f] = "asleep" => stage[f] = "acquire"

\* A card or miss that flight f may give.
Given(f, a) ==
    /\ a.of = f
    /\ a.kind \in {"found", "miss"}
    /\ a.viaHint => a.kind = "found" /\ a.maker = HintOf[f] /\ a.maker \in Maker

ResultInv == \A f \in Click :
    /\ stage[f] = "part" => Given(f, result[f]) /\ result[f].kind = "found"
    /\ stage[f] = "store" => Given(f, result[f])
    /\ stage[f] = "finish" => Given(f, result[f]) \/ result[f] = Plain("blocked", f)

\* What key k may hold.
CacheInv == \A k \in Keys : cached[k] # Nothing =>
    LET f == cached[k].of IN
    /\ f \in Click
    /\ Given(f, cached[k])
    /\ cacheable[f] /\ stage[f] \in {"finish", "settled"}
    /\ cached[k].kind = "miss" \/ cached[k].viaHint => HintOf[f] = k[2]

AnswerInv == HintedCardsStayHinted /\ MissesStayApart

IInv == TypeOK /\ PhaseInv /\ FlightInv /\ RequestInv /\ ResultInv /\ CacheInv /\ AnswerInv
-----------------------------------------------------------------------------
\* Every click is answered.
EveryClickAnswers == \A c \in Click : pc[c] \in {"readFound", "readBlock"} ~> pc[c] \in {"fromCache", "answered"}
-----------------------------------------------------------------------------
\* What reading the cache for click c gives.
FromCache(c) ==
    IF ServesPlain(c, cached[FoundKey(c)]) THEN cached[FoundKey(c)] ELSE cached[MissKey(c)]

\* The comment on refresh: the cache is overwritten with the fresh answer.  What a
\* hint picked, or a miss, goes under the hinted key, and a card under the plain
\* key still hides it from every later click.
RefreshIsRemembered ==
    [][\A f \in Refresh : stage[f] = "store" /\ stage'[f] = "finish" /\ cacheable[f] =>
        FromCache(f)' = result[f]]_vars
=============================================================================
