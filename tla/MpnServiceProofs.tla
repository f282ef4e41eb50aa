--------------------------- MODULE MpnServiceProofs ---------------------------
(***************************************************************************)
(* The safety properties of the mpn.cc cards for any clicks, MPNs, makers  *)
(* and hints, by the inductive invariant IInv.                             *)
(***************************************************************************)
EXTENDS MpnService, TLAPS

\* The second part of a key is the hint it is for.
LEMMA KeyFacts ==
  /\ \A c \in Click : MissKey(c) \in Keys /\ MissKey(c)[2] = HintOf[c]
  /\ \A c \in Click : FoundKey(c) \in Keys /\ FoundKey(c)[2] = NoMaker
  /\ \A c, d \in Click : MissKey(c) = MissKey(d) => HintOf[c] = HintOf[d]
  BY MpnAssumption DEF MissKey, FoundKey, Keys

\* Answers are well typed.
LEMMA AnswerFacts ==
  /\ Nothing \in Answer /\ Nothing.kind = "nothing" /\ ~Nothing.viaHint
  /\ \A f \in Click \union {NoFlight}, kind \in {"nothing", "found", "miss", "blocked", "upstream"} :
        Plain(kind, f) \in Answer
  /\ \A f \in Click, maker \in Maker, viaHint \in BOOLEAN : Card(f, maker, viaHint) \in Answer
  BY DEF Answer, Nothing, Plain, Card

\* The initial state satisfies the inductive invariant.
LEMMA InitIsSound == Init => IInv
<1> SUFFICES ASSUME Init PROVE IInv
  OBVIOUS
<1>1. TypeOK
  BY AnswerFacts DEF Init, TypeOK, PC, Stage, Port, Asking
<1>2. PhaseInv /\ FlightInv /\ RequestInv
  BY DEF Init, PhaseInv, FlightInv, RequestInv, Flying
<1>3. ResultInv /\ CacheInv
  BY DEF Init, ResultInv, CacheInv
<1>4. AnswerInv
  BY AnswerFacts DEF Init, AnswerInv, HintedCardsStayHinted, MissesStayApart
<1> QED  BY <1>1, <1>2, <1>3, <1>4 DEF IInv

\* A flight that settles with an answer made for its own hint keeps the invariant:
\* every click it answers has its key.
LEMMA SettleIsSound ==
  ASSUME IInv, NEW f \in Click, Flying(f), NEW a \in Answer, NEW r \in Answer,
         a.viaHint => HintOf[f] = a.maker,
         a.kind = "miss" => HintOf[a.of] = HintOf[f],
         Settle(f, a), result' = [result EXCEPT ![f] = r]
  PROVE  IInv'
<1> USE DEF IInv, Settle
<1> USE KeyFacts
<1>1. TypeOK'
  BY DEF TypeOK, PC, Stage, Port
<1>2. PhaseInv'
  BY DEF TypeOK, PhaseInv, Flying
<1>3. FlightInv'
  BY DEF TypeOK, FlightInv, Flying
<1>4. RequestInv'
  BY DEF TypeOK, RequestInv, Flying
<1>5. ResultInv'
  BY DEF TypeOK, ResultInv, Given
<1>6. CacheInv'
  BY DEF TypeOK, CacheInv, Given
<1>7. AnswerInv'
  <2> SUFFICES ASSUME NEW c \in Click
               PROVE  /\ answer'[c].viaHint => HintOf[c] = answer'[c].maker
                      /\ answer'[c].kind = "miss" => HintOf[answer'[c].of] = HintOf[c]
    BY DEF AnswerInv, HintedCardsStayHinted, MissesStayApart
  <2>1. CASE joined[c] = f
    <3>1. answer'[c] = a
      BY <2>1 DEF TypeOK
    <3>2. MissKey(f) = MissKey(c)
      BY <2>1, MpnAssumption DEF PhaseInv
    <3>3. HintOf[c] = HintOf[f]
      BY <3>2
    <3> QED  BY <3>1, <3>3
  <2>2. CASE joined[c] # f
    <3>1. answer'[c] = answer[c]
      BY <2>2
    <3> QED  BY <3>1 DEF AnswerInv, HintedCardsStayHinted, MissesStayApart
  <2> QED  BY <2>1, <2>2
<1> QED  BY <1>1, <1>2, <1>3, <1>4, <1>5, <1>6, <1>7

\* A flight that asks on, with its share of requests left, keeps the invariant.
LEMMA AskNextIsSound ==
  ASSUME IInv, NEW f \in Click, port[f] = "out", NEW next \in Asking, NEW r \in Answer,
         requests[f] <= Allotted[next],
         next = "part" => Given(f, r) /\ r.kind = "found",
         AskNext(f, next), result' = [result EXCEPT ![f] = r]
  PROVE  IInv'
<1>0. Flying(f) /\ stage[f] \in Asking
  BY DEF IInv, RequestInv, TypeOK, Flying, Asking
<1>1. CASE Settle(f, Plain("upstream", f))
  <2>1. /\ Plain("upstream", f) \in Answer
        /\ ~Plain("upstream", f).viaHint /\ Plain("upstream", f).kind # "miss"
    BY AnswerFacts DEF Plain
  <2> QED  BY <1>0, <1>1, <2>1, SettleIsSound
<1>2. CASE /\ stage' = [stage EXCEPT ![f] = next]
           /\ port' = [port EXCEPT ![f] = "queued"]
           /\ UNCHANGED <<clickVars, pending, cached, blocked, cacheable, requests>>
  <2> USE DEF IInv
  <2> USE <1>0, <1>2
  <2>1. TypeOK'
    BY DEF TypeOK, clickVars, Stage, Port
  <2>2. PhaseInv' /\ FlightInv'
    BY DEF TypeOK, clickVars, PhaseInv, FlightInv, Flying, Asking
  <2>3. RequestInv'
    <3>1. next # "none" /\ Allotted[next] \in Nat
      BY DEF Allotted, Asking
    <3> QED  BY <3>1 DEF TypeOK, RequestInv
  <2>4. ResultInv'
    BY DEF TypeOK, ResultInv, Given, Asking
  <2>5. CacheInv'
    BY DEF TypeOK, CacheInv, Given, Asking
  <2>6. AnswerInv'
    BY DEF clickVars, AnswerInv, HintedCardsStayHinted, MissesStayApart
  <2> QED  BY <2>1, <2>2, <2>3, <2>4, <2>5, <2>6
<1> QED  BY <1>1, <1>2 DEF AskNext

\* A flight that concludes with a card or miss of its own keeps the invariant.
LEMMA ConcludeIsSound ==
  ASSUME IInv, NEW f \in Click, port[f] = "out", NEW a \in Answer, NEW mayCache \in BOOLEAN,
         Given(f, a), Conclude(f, a, mayCache)
  PROVE  IInv'
<1> USE DEF IInv, Conclude
<1>0. Flying(f) /\ stage[f] \in Asking
  BY DEF RequestInv, TypeOK, Flying, Asking
<1>1. TypeOK'
  BY DEF TypeOK, clickVars, Stage, Port
<1>2. PhaseInv' /\ FlightInv'
  BY <1>0 DEF TypeOK, clickVars, PhaseInv, FlightInv, Flying, Asking
<1>3. RequestInv'
  BY DEF TypeOK, RequestInv
<1>4. ResultInv'
  BY DEF TypeOK, ResultInv, Given
<1>5. CacheInv'
  BY <1>0 DEF TypeOK, CacheInv, Given, Asking
<1>6. AnswerInv'
  BY DEF clickVars, AnswerInv, HintedCardsStayHinted, MissesStayApart
<1> QED  BY <1>1, <1>2, <1>3, <1>4, <1>5, <1>6

\* A miss is given by its flight.
LEMMA MissIsGiven == \A f \in Click : Plain("miss", f) \in Answer /\ Given(f, Plain("miss", f))
  BY AnswerFacts DEF Given, Plain

\* pickExact gives nothing or a card the flight may give.
LEMMA PickIsGiven ==
  ASSUME NEW f \in Click, NEW part \in Maker \union {NoMaker, Similar},
         NEW candidates \in SUBSET (Maker \union {Similar})
  PROVE  LET card == PickExact(f, part, candidates) IN
         card \in Answer /\ (card # Nothing => Given(f, card) /\ card.kind = "found")
  BY MpnAssumption, AnswerFacts DEF PickExact, Given, Card

\* The answers of mpn.cc keep the invariant.
LEMMA UpstreamIsSound == ASSUME IInv, NEW f \in Click, UpstreamStep(f) PROVE IInv'
<1> USE DEF IInv
<1>0. /\ port[f] = "out" /\ stage[f] \in Asking /\ Flying(f)
      /\ requests[f] <= Allotted[stage[f]] + 1 /\ requests[f] \in Nat
      /\ result[f] \in Answer /\ result = [result EXCEPT ![f] = result[f]]
  BY DEF UpstreamStep, Resolved, Acquired, GotPart, NotFound, RequestFails, RateLimited,
         RequestInv, TypeOK, Flying, Asking
<1>1. CASE Resolved(f)
  <2>1. PICK part \in Maker \union {NoMaker, Similar}, candidates \in SUBSET (Maker \union {Similar}) :
          \/ /\ stage[f] = "resolve"
             /\ part = NoMaker /\ candidates = {}
             /\ AskNext(f, "acquire") /\ UNCHANGED result
          \/ /\ stage[f] \in {"resolve", "resolveAgain"}
             /\ FollowResolve(f, PickExact(f, part, candidates))
    BY <1>1 DEF Resolved
  <2>2. CASE stage[f] = "resolve" /\ AskNext(f, "acquire") /\ UNCHANGED result
    <3>1. "acquire" \in Asking /\ requests[f] <= Allotted["acquire"]
      BY <1>0, <2>2 DEF Asking, Allotted
    <3> QED  BY <1>0, <2>2, <3>1, AskNextIsSound
  <2>3. CASE /\ stage[f] \in {"resolve", "resolveAgain"}
             /\ FollowResolve(f, PickExact(f, part, candidates))
    <3> DEFINE card == PickExact(f, part, candidates)
    <3>1. card \in Answer /\ (card # Nothing => Given(f, card) /\ card.kind = "found")
      BY PickIsGiven
    <3>2. "part" \in Asking /\ requests[f] <= Allotted["part"]
      BY <1>0, <2>3 DEF Asking, Allotted
    <3> HIDE DEF card
    <3>3. CASE card = Nothing
      BY <1>0, <2>3, <3>3, MissIsGiven, ConcludeIsSound DEF FollowResolve, card
    <3>4. CASE card # Nothing
      <4>1. AskNext(f, "part") /\ result' = [result EXCEPT ![f] = card]
        BY <2>3, <3>4 DEF FollowResolve, card
      <4> QED  BY <1>0, <3>1, <3>2, <3>4, <4>1, AskNextIsSound
    <3> QED  BY <3>3, <3>4
  <2> QED  BY <2>1, <2>2, <2>3
<1>2. CASE Acquired(f)
  <2>1. CASE AskNext(f, "resolveAgain") /\ UNCHANGED result
    <3>1. "resolveAgain" \in Asking /\ requests[f] <= Allotted["resolveAgain"]
      BY <1>0, <1>2 DEF Acquired, Asking, Allotted
    <3> QED  BY <1>0, <2>1, <3>1, AskNextIsSound
  <2>2. CASE Conclude(f, Plain("miss", f), TRUE) \/ Conclude(f, Plain("miss", f), FALSE)
    BY <1>0, <2>2, MissIsGiven, ConcludeIsSound
  <2>3. CASE /\ stage[f] = "acquire"
             /\ port' = [port EXCEPT ![f] = "asleep"]
             /\ UNCHANGED <<clickVars, stage, result, cacheable, requests, pending, cached, blocked>>
    <3>1. TypeOK' /\ PhaseInv' /\ FlightInv'
      BY <2>3 DEF TypeOK, clickVars, Port, PhaseInv, FlightInv, Flying
    <3>2. RequestInv'
      BY <1>0, <2>3 DEF TypeOK, RequestInv
    <3>3. ResultInv' /\ CacheInv' /\ AnswerInv'
      BY <2>3 DEF clickVars, ResultInv, CacheInv, Given, AnswerInv, HintedCardsStayHinted, MissesStayApart
    <3> QED  BY <3>1, <3>2, <3>3
  <2> QED  BY <1>2, <2>1, <2>2, <2>3 DEF Acquired
<1>3. CASE GotPart(f)
  <2>1. Given(f, result[f])
    BY <1>3 DEF GotPart, ResultInv
  <2> QED  BY <1>0, <1>3, <2>1, ConcludeIsSound DEF GotPart
<1>4. CASE NotFound(f) \/ RequestFails(f)
  <2>1. CASE Conclude(f, Plain("miss", f), TRUE)
    BY <1>0, <2>1, MissIsGiven, ConcludeIsSound
  <2>2. CASE Settle(f, Plain("upstream", f)) /\ UNCHANGED result
    <3>1. /\ Plain("upstream", f) \in Answer
          /\ ~Plain("upstream", f).viaHint /\ Plain("upstream", f).kind # "miss"
      BY AnswerFacts DEF Plain
    <3> QED  BY <1>0, <2>2, <3>1, SettleIsSound
  <2> QED  BY <1>4, <2>1, <2>2 DEF NotFound, RequestFails
<1>5. CASE RateLimited(f)
  <2> USE DEF RateLimited
  <2>1. TypeOK' /\ PhaseInv' /\ FlightInv'
    BY <1>0, <1>5 DEF TypeOK, clickVars, Stage, Port, PhaseInv, FlightInv, Flying, Asking
  <2>2. RequestInv'
    BY <1>0, <1>5 DEF TypeOK, RequestInv
  <2>3. ResultInv' /\ CacheInv' /\ AnswerInv'
    BY <1>0, <1>5 DEF TypeOK, clickVars, ResultInv, CacheInv, Given, AnswerInv, HintedCardsStayHinted,
                      MissesStayApart, Asking
  <2> QED  BY <2>1, <2>2, <2>3
<1> QED  BY <1>1, <1>2, <1>3, <1>4, <1>5 DEF UpstreamStep

\* The steps of a flight of its own keep the invariant.
LEMMA FlightStepIsSound == ASSUME IInv, NEW f \in Click, FlightStep(f) PROVE IInv'
<1> USE DEF IInv
<1>1. CASE Send(f)
  <2> USE <1>1 DEF Send
  <2>1. TypeOK'
    BY DEF TypeOK, Port, clickVars
  <2>2. PhaseInv' /\ FlightInv'
    BY DEF TypeOK, clickVars, PhaseInv, FlightInv, Flying
  <2>3. RequestInv'
    <3>1. stage[f] \in Asking /\ requests[f] \in Nat /\ requests[f] <= Allotted[stage[f]]
      BY DEF RequestInv, TypeOK
    <3>2. requests[f] + 1 <= 5 /\ stage[f] # "none" /\ Allotted[stage[f]] \in Nat
      BY <3>1 DEF Allotted, Asking
    <3> QED  BY <3>1, <3>2 DEF TypeOK, RequestInv
  <2>4. ResultInv' /\ CacheInv' /\ AnswerInv'
    BY DEF clickVars, ResultInv, CacheInv, Given, AnswerInv, HintedCardsStayHinted, MissesStayApart
  <2> QED  BY <2>1, <2>2, <2>3, <2>4
<1>2. CASE Poll(f)
  <2> USE <1>2 DEF Poll
  <2>0. stage[f] = "acquire" /\ requests[f] <= 2
    BY DEF RequestInv, Allotted
  <2>1. TypeOK'
    BY DEF TypeOK, Port, Stage, Asking, clickVars
  <2>2. PhaseInv' /\ FlightInv'
    BY <2>0 DEF TypeOK, clickVars, PhaseInv, FlightInv, Flying
  <2>3. RequestInv'
    BY <2>0 DEF TypeOK, RequestInv, Allotted, Asking
  <2>4. ResultInv' /\ CacheInv' /\ AnswerInv'
    BY <2>0 DEF TypeOK, clickVars, ResultInv, CacheInv, Given, AnswerInv, HintedCardsStayHinted,
                MissesStayApart
  <2> QED  BY <2>1, <2>2, <2>3, <2>4
<1>3. CASE WriteBlock(f)
  <2> USE <1>3 DEF WriteBlock
  <2>1. TypeOK'
    BY AnswerFacts DEF TypeOK, Stage, clickVars
  <2>2. PhaseInv' /\ FlightInv' /\ RequestInv'
    BY DEF TypeOK, clickVars, PhaseInv, FlightInv, RequestInv, Flying, Asking
  <2>3. ResultInv'
    BY DEF TypeOK, ResultInv, Given
  <2>4. CacheInv' /\ AnswerInv'
    BY DEF TypeOK, clickVars, CacheInv, Given, AnswerInv, HintedCardsStayHinted, MissesStayApart
  <2> QED  BY <2>1, <2>2, <2>3, <2>4
<1>4. CASE Store(f)
  <2> USE <1>4 DEF Store
  <2>0. Given(f, result[f]) /\ StoreKey(f) \in Keys
    BY KeyFacts DEF ResultInv, StoreKey
  <2>1. TypeOK'
    BY <2>0 DEF TypeOK, Stage, clickVars
  <2>2. PhaseInv' /\ FlightInv' /\ RequestInv'
    BY DEF TypeOK, clickVars, PhaseInv, FlightInv, RequestInv, Flying, Asking
  <2>3. ResultInv' /\ AnswerInv'
    BY <2>0 DEF TypeOK, clickVars, ResultInv, Given, AnswerInv, HintedCardsStayHinted, MissesStayApart
  <2>4. CacheInv'
    <3> SUFFICES ASSUME NEW k \in Keys, cached'[k] # Nothing
                 PROVE  LET g == cached'[k].of IN
                        /\ g \in Click
                        /\ Given(g, cached'[k])
                        /\ cacheable'[g] /\ stage'[g] \in {"finish", "settled"}
                        /\ cached'[k].kind = "miss" \/ cached'[k].viaHint => HintOf[g] = k[2]
      BY DEF CacheInv, Given
    <3>1. CASE cacheable[f] /\ k = StoreKey(f)
      <4>1. cached'[k] = result[f] /\ result[f].of = f
        BY <2>0, <3>1 DEF TypeOK, Given
      <4>2. result[f].kind = "miss" \/ result[f].viaHint => k[2] = HintOf[f]
        BY <2>0, <3>1, KeyFacts DEF StoreKey, Given
      <4> QED  BY <2>0, <3>1, <4>1, <4>2 DEF TypeOK
    <3>2. CASE ~(cacheable[f] /\ k = StoreKey(f))
      <4>1. cached'[k] = cached[k]
        BY <3>2 DEF TypeOK
      <4> QED  BY <4>1 DEF TypeOK, CacheInv
    <3> QED  BY <3>1, <3>2
  <2> QED  BY <2>1, <2>2, <2>3, <2>4
<1>5. CASE Finish(f)
  <2>1. result[f].of = f /\ (result[f].viaHint => HintOf[f] = result[f].maker)
    <3>1. CASE result[f] = Plain("blocked", f)
      BY <3>1 DEF Plain
    <3>2. CASE Given(f, result[f])
      BY <3>2 DEF Given
    <3> QED  BY <1>5, <3>1, <3>2 DEF Finish, ResultInv
  <2>2. Flying(f) /\ result[f] \in Answer /\ result = [result EXCEPT ![f] = result[f]]
    BY <1>5 DEF Finish, Flying, TypeOK
  <2> QED  BY <1>5, <2>1, <2>2, SettleIsSound DEF Finish
<1> QED  BY <1>1, <1>2, <1>3, <1>4, <1>5 DEF FlightStep

\* A click that is answered from the cache is answered for its own hint.
LEMMA ReplyIsSound ==
  ASSUME IInv, NEW c \in Click, NEW label \in {"fromCache", "answered"}, NEW a \in Answer,
         joined[c] = NoFlight,
         a.viaHint => HintOf[c] = a.maker,
         a.kind = "miss" => HintOf[a.of] = HintOf[c],
         Reply(c, label, a)
  PROVE  IInv'
<1> USE DEF IInv, Reply
<1>1. TypeOK'
  BY DEF TypeOK, PC, flightVars
<1>2. PhaseInv' /\ FlightInv' /\ RequestInv'
  BY DEF TypeOK, flightVars, PhaseInv, FlightInv, RequestInv, Flying
<1>3. ResultInv' /\ CacheInv'
  BY DEF flightVars, ResultInv, CacheInv, Given
<1>4. AnswerInv'
  BY DEF TypeOK, AnswerInv, HintedCardsStayHinted, MissesStayApart
<1> QED  BY <1>1, <1>2, <1>3, <1>4

\* A click that goes on to its next await keeps the invariant.
LEMMA GotoIsSound ==
  ASSUME IInv, NEW c \in Click, joined[c] = NoFlight,
         NEW label \in {"readFound", "readMiss", "readBlock"}, Goto(c, label)
  PROVE  IInv'
<1> USE DEF IInv, Goto
<1>1. TypeOK' /\ PhaseInv'
  BY DEF TypeOK, PC, PhaseInv, flightVars
<1>2. FlightInv' /\ RequestInv' /\ ResultInv' /\ CacheInv' /\ AnswerInv'
  BY DEF flightVars, FlightInv, RequestInv, ResultInv, CacheInv, Given, Flying, AnswerInv,
         HintedCardsStayHinted, MissesStayApart
<1> QED  BY <1>1, <1>2

\* What the cache answers a click is for its hint.
LEMMA CachedFitsHint ==
  ASSUME IInv, NEW c \in Click, NEW k \in {FoundKey(c), MissKey(c)}, cached[k] # Nothing,
         k = FoundKey(c) => ServesPlain(c, cached[k])
  PROVE  /\ cached[k] \in Answer
         /\ cached[k].viaHint => HintOf[c] = cached[k].maker
         /\ cached[k].kind = "miss" => HintOf[cached[k].of] = HintOf[c]
<1>1. k \in Keys /\ (k[2] = HintOf[c] \/ (k[2] = NoMaker /\ k = FoundKey(c)))
  <2>1. CASE k = FoundKey(c)
    BY <2>1, KeyFacts
  <2>2. CASE k = MissKey(c)
    <3>1. MissKey(c) \in Keys /\ MissKey(c)[2] = HintOf[c]
      BY KeyFacts
    <3> QED  BY <2>2, <3>1
  <2> QED  BY <2>1, <2>2
<1>2. /\ cached[k] \in Answer
      /\ Given(cached[k].of, cached[k])
      /\ cached[k].kind = "miss" \/ cached[k].viaHint => HintOf[cached[k].of] = k[2]
  BY <1>1 DEF IInv, TypeOK, CacheInv
<1>3. cached[k].viaHint => k[2] \in Maker /\ k[2] = cached[k].maker
  BY <1>2 DEF Given
<1>4. CASE k[2] = HintOf[c]
  BY <1>2, <1>3, <1>4
<1>5. CASE k[2] = NoMaker /\ k = FoundKey(c)
  BY <1>2, <1>3, <1>5, MpnAssumption DEF ServesPlain
<1> QED  BY <1>1, <1>4, <1>5

\* The steps of a click keep the invariant.
LEMMA ClickIsSound == ASSUME IInv, NEW c \in Click, Part(c) \/ ClickStep(c) PROVE IInv'
<1>0. joined[c] = NoFlight /\ stage[c] = "none" /\ pc[c] \notin {"waiting", "answered"}
  <2>1. pc[c] \in {"idle", "readFound", "readMiss", "readBlock"}
    BY DEF Part, ClickStep, ReadFound, ReadMiss, ReadBlock
  <2> QED  BY <2>1, MpnAssumption DEF IInv, PhaseInv
<1>1. CASE Part(c)
  BY <1>0, <1>1, GotoIsSound DEF Part
<1>2. CASE ReadFound(c)
  <2>1. CASE ServesPlain(c, cached[FoundKey(c)])
    <3>1. cached[FoundKey(c)] # Nothing
      BY <2>1 DEF ServesPlain, Nothing, Plain
    <3> QED  BY <1>0, <1>2, <2>1, <3>1, CachedFitsHint, ReplyIsSound DEF ReadFound
  <2>2. CASE ~ServesPlain(c, cached[FoundKey(c)])
    BY <1>0, <1>2, <2>2, GotoIsSound DEF ReadFound
  <2> QED  BY <2>1, <2>2
<1>3. CASE ReadMiss(c)
  <2>1. CASE cached[MissKey(c)] # Nothing
    <3>1. MissKey(c) \in Keys /\ MissKey(c)[2] = HintOf[c]
      BY KeyFacts
    <3>2. /\ cached[MissKey(c)] \in Answer
          /\ cached[MissKey(c)].viaHint => HintOf[c] = cached[MissKey(c)].maker
          /\ cached[MissKey(c)].kind = "miss" => HintOf[cached[MissKey(c)].of] = HintOf[c]
      BY <2>1, <3>1 DEF IInv, TypeOK, CacheInv, Given
    <3> QED  BY <1>0, <1>3, <2>1, <3>2, ReplyIsSound DEF ReadMiss
  <2>2. CASE cached[MissKey(c)] = Nothing
    BY <1>0, <1>3, <2>2, GotoIsSound DEF ReadMiss
  <2> QED  BY <2>1, <2>2
<1>4. CASE ReadBlock(c)
  <2>1. CASE blocked /\ Reply(c, "answered", Plain("blocked", NoFlight))
    <3>1. /\ Plain("blocked", NoFlight) \in Answer
          /\ ~Plain("blocked", NoFlight).viaHint /\ Plain("blocked", NoFlight).kind # "miss"
      BY AnswerFacts DEF Plain
    <3> QED  BY <1>0, <2>1, <3>1, ReplyIsSound
  <2>2. CASE /\ pending[MissKey(c)] # NoFlight /\ Join(c, pending[MissKey(c)])
             /\ UNCHANGED <<answer, flightVars, pending, cached, blocked>>
    <3> USE <2>2 DEF IInv, Join
    <3>1. pending[MissKey(c)] \in Click /\ MissKey(pending[MissKey(c)]) = MissKey(c)
      BY KeyFacts DEF FlightInv, TypeOK
    <3>2. TypeOK'
      BY <3>1 DEF TypeOK, PC, flightVars
    <3>3. PhaseInv'
      BY <1>0, <3>1, MpnAssumption DEF TypeOK, PhaseInv, flightVars
    <3>4. FlightInv' /\ RequestInv' /\ ResultInv' /\ CacheInv' /\ AnswerInv'
      BY DEF flightVars, FlightInv, RequestInv, ResultInv, CacheInv, Given, Flying, AnswerInv,
             HintedCardsStayHinted, MissesStayApart
    <3> QED  BY <3>2, <3>3, <3>4
  <2>3. CASE pending[MissKey(c)] = NoFlight /\ BeginFlight(c)
    <3> USE <2>3 DEF IInv, BeginFlight, Join
    <3>0. MissKey(c) \in Keys
      BY KeyFacts
    <3>1. TypeOK'
      BY <3>0 DEF TypeOK, PC, Stage, Port, Asking
    <3>2. PhaseInv'
      BY <1>0 DEF TypeOK, PhaseInv
    <3>3. FlightInv'
      <4>1. \A f \in Click : f # c /\ Flying(f) => MissKey(f) # MissKey(c)
        BY KeyFacts, MpnAssumption DEF FlightInv
      <4>2. \A f \in Click : f # c => Flying(f)' = Flying(f)
        BY DEF Flying, TypeOK
      <4>3. Flying(c)' /\ pending'[MissKey(c)] = c
        BY <3>0 DEF Flying, TypeOK
      <4>4. \A k \in Keys : k # MissKey(c) => pending'[k] = pending[k] /\ pending[k] # c
        BY <1>0, MpnAssumption DEF TypeOK, FlightInv, Flying
      <4>5. (\A f \in Click : Flying(f) => pending[MissKey(f)] = f)'
        BY <4>1, <4>2, <4>3, <4>4, KeyFacts DEF FlightInv
      <4>6. (\A k \in Keys : pending[k] # NoFlight => Flying(pending[k]) /\ MissKey(pending[k]) = k)'
        BY <4>2, <4>3, <4>4 DEF FlightInv, TypeOK
      <4> QED  BY <4>5, <4>6 DEF FlightInv
    <3>4. RequestInv'
      BY <1>0 DEF TypeOK, RequestInv, Allotted, Asking
    <3>5. ResultInv' /\ AnswerInv'
      BY <1>0 DEF TypeOK, ResultInv, Given, AnswerInv, HintedCardsStayHinted, MissesStayApart
    <3>6. CacheInv'
      BY <1>0 DEF TypeOK, CacheInv, Given
    <3> QED  BY <3>1, <3>2, <3>3, <3>4, <3>5, <3>6
  <2> QED  BY <1>4, <2>1, <2>2, <2>3 DEF ReadBlock
<1> QED  BY <1>1, <1>2, <1>3, <1>4 DEF ClickStep

\* Every step keeps the invariant.
LEMMA NextIsSound == IInv /\ [Next]_vars => IInv'
<1> SUFFICES ASSUME IInv, [Next]_vars PROVE IInv'
  OBVIOUS
<1>1. ASSUME NEW c \in Click, Part(c) \/ ClickStep(c) \/ UpstreamStep(c) \/ FlightStep(c)
      PROVE  IInv'
  BY <1>1, ClickIsSound, UpstreamIsSound, FlightStepIsSound
<1>2. ASSUME NEW k \in Keys, CacheExpires(k) PROVE IInv'
  <2> USE <1>2 DEF IInv, CacheExpires
  <2>1. TypeOK'
    BY AnswerFacts DEF TypeOK, clickVars, flightVars
  <2>2. PhaseInv' /\ FlightInv' /\ RequestInv' /\ ResultInv' /\ AnswerInv'
    BY DEF clickVars, flightVars, PhaseInv, FlightInv, RequestInv, ResultInv, Given, Flying, AnswerInv,
           HintedCardsStayHinted, MissesStayApart
  <2>3. CacheInv'
    BY DEF TypeOK, clickVars, flightVars, CacheInv, Given
  <2> QED  BY <2>1, <2>2, <2>3
<1>3. CASE BlockExpires \/ UNCHANGED vars
  <2>1. UNCHANGED <<clickVars, flightVars, pending, cached>> /\ blocked' \in BOOLEAN
    BY <1>3 DEF BlockExpires, vars, IInv, TypeOK
  <2> QED  BY <2>1 DEF clickVars, flightVars, IInv, TypeOK, PhaseInv, FlightInv, RequestInv, ResultInv,
                       CacheInv, Given, Flying, AnswerInv, HintedCardsStayHinted, MissesStayApart
<1> QED  BY <1>1, <1>2, <1>3 DEF Next, Done

\* The invariant holds throughout.
THEOREM FlightsInvariant == Spec => []IInv
<1>1. Init => IInv
  BY InitIsSound
<1>2. IInv /\ [Next]_vars => IInv'
  BY NextIsSound
<1> QED  BY <1>1, <1>2, PTL DEF Spec

\* The variables keep their types.
THEOREM TypeCorrect == Spec => []TypeOK
<1>1. IInv => TypeOK
  BY DEF IInv
<1> QED  BY <1>1, FlightsInvariant, PTL

\* Of the clicks with one MPN and hint one has a flight, and it is the pending one.
THEOREM SingleFlightHolds == Spec => []SingleFlight
<1>1. IInv => SingleFlight
  BY DEF IInv, FlightInv, SingleFlight
<1> QED  BY <1>1, FlightsInvariant, PTL

\* A card a hint picked only answers clicks with this hint.
THEOREM HintsAreRespected == Spec => []HintedCardsStayHinted
<1>1. IInv => HintedCardsStayHinted
  BY DEF IInv, AnswerInv
<1> QED  BY <1>1, FlightsInvariant, PTL

\* A miss only answers clicks with the hint it was looked up for.
THEOREM MissesAreApart == Spec => []MissesStayApart
<1>1. IInv => MissesStayApart
  BY DEF IInv, AnswerInv
<1> QED  BY <1>1, FlightsInvariant, PTL

\* The cache never holds a failure or a miss that was temporary.
THEOREM CachedAnswersAreFinal == Spec => []CacheIsFinal
<1>1. IInv => CacheIsFinal
  BY DEF IInv, CacheInv, Given, CacheIsFinal
<1> QED  BY <1>1, FlightsInvariant, PTL

\* No click makes more than five requests to mpn.cc.
THEOREM RequestsAreBounded == Spec => []AtMostFiveRequests
<1>1. IInv => AtMostFiveRequests
  BY DEF IInv, RequestInv, AtMostFiveRequests
<1> QED  BY <1>1, FlightsInvariant, PTL
=============================================================================
