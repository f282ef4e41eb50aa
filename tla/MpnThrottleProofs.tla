--------------------------- MODULE MpnThrottleProofs ---------------------------
(***************************************************************************)
(* The throttle keeps its interval for every MinInterval, every number of  *)
(* requests and every overlap of the calls.                                *)
(***************************************************************************)
EXTENDS MpnThrottle, SequenceTheorems, TLAPS

\* The initial state satisfies the inductive invariant.
LEMMA InitIsSound == Init => IInv
  BY ThrottleAssumption DEF Init, IInv, TypeOK, ChainInv, StartInv, Spaced, PC, Out, HasTurn

\* A request that goes out while it has the turn, the interval being over, keeps the
\* invariant: the starts before it are no later than lastStartedAt.
LEMMA GoOutIsSound ==
  ASSUME IInv, NEW r \in Request, HasTurn(r), pc[r] # "out",
         lastStartedAt + MinInterval <= now, GoOut(r)
  PROVE  IInv'
<1> USE ThrottleAssumption
<1> USE DEF IInv, TypeOK, Out
<1>1. chain \in Seq(Request) /\ chain # <<>> /\ r = chain[1]
  BY DEF HasTurn
<1>2. /\ chain' \in Seq(Request)
      /\ Len(chain') = Len(chain) - 1
      /\ \A i \in 1 .. Len(chain') : chain'[i] = chain[i + 1] /\ i + 1 \in 1 .. Len(chain)
  BY <1>1 DEF GoOut
<1>3. TypeOK'
  BY <1>2 DEF GoOut, PC
<1>4. ASSUME NEW i \in 1 .. Len(chain') PROVE chain'[i] # r
  <2>1. chain'[i] = chain[i + 1] /\ i + 1 \in 1 .. Len(chain) /\ 1 \in 1 .. Len(chain)
    BY <1>1, <1>2
  <2>2. i + 1 # 1
    OBVIOUS
  <2> QED  BY <1>1, <2>1, <2>2 DEF ChainInv
<1>5. ChainInv'
  <2>1. (\A i \in 1 .. Len(chain) : pc[chain[i]] \in {"queued", "asleep"})'
    BY <1>1, <1>2, <1>4 DEF ChainInv, GoOut
  <2>2. (\A i, j \in 1 .. Len(chain) : chain[i] = chain[j] => i = j)'
    <3> SUFFICES ASSUME NEW i \in 1 .. Len(chain'), NEW j \in 1 .. Len(chain'), chain'[i] = chain'[j]
                 PROVE  i = j
      OBVIOUS
    <3>1. chain[i + 1] = chain[j + 1] /\ i + 1 \in 1 .. Len(chain) /\ j + 1 \in 1 .. Len(chain)
      BY <1>2
    <3>2. i + 1 = j + 1
      BY <3>1 DEF ChainInv
    <3> QED  BY <3>2
  <2>3. \A q \in Request : pc'[q] # "asleep"
    BY DEF GoOut, ChainInv, HasTurn
  <2> QED  BY <2>1, <2>2, <2>3 DEF ChainInv
<1>6. StartInv'
  BY DEF StartInv, GoOut
<1>7. Spaced'
  <2> SUFFICES ASSUME NEW p \in Request, NEW q \in Request, p # q, Out(p)', Out(q)'
               PROVE  \/ startedAt'[p] >= startedAt'[q] + MinInterval
                      \/ startedAt'[q] >= startedAt'[p] + MinInterval
    BY DEF Spaced
  <2>1. CASE p = r
    BY <2>1 DEF StartInv, GoOut
  <2>2. CASE q = r
    BY <2>2 DEF StartInv, GoOut
  <2>3. CASE p # r /\ q # r
    BY <2>3 DEF Spaced, GoOut
  <2> QED  BY <2>1, <2>2, <2>3
<1> QED  BY <1>3, <1>5, <1>6, <1>7

\* Every step preserves the inductive invariant.
LEMMA NextIsSound == IInv /\ [Next]_vars => IInv'
<1> SUFFICES ASSUME IInv, [Next]_vars PROVE IInv'
  OBVIOUS
<1> USE ThrottleAssumption
<1>1. ASSUME NEW r \in Request, Throttle(r) PROVE IInv'
  <2> USE DEF IInv, TypeOK, Throttle
  <2>1. /\ chain' \in Seq(Request)
        /\ Len(chain') = Len(chain) + 1
        /\ chain'[Len(chain) + 1] = r
        /\ \A i \in 1 .. Len(chain) : chain'[i] = chain[i]
    BY <1>1
  <2>2. \A i \in 1 .. Len(chain) : chain[i] # r
    BY <1>1 DEF ChainInv
  <2>3. TypeOK'
    BY <1>1, <2>1 DEF PC
  <2>4. ChainInv'
    <3>1. (\A i \in 1 .. Len(chain) : pc[chain[i]] \in {"queued", "asleep"})'
      BY <1>1, <2>1, <2>2 DEF ChainInv
    <3>2. (\A i, j \in 1 .. Len(chain) : chain[i] = chain[j] => i = j)'
      <4> SUFFICES ASSUME NEW i \in 1 .. Len(chain'), NEW j \in 1 .. Len(chain'), chain'[i] = chain'[j]
                   PROVE  i = j
        OBVIOUS
      <4>1. CASE i \in 1 .. Len(chain) /\ j \in 1 .. Len(chain)
        BY <2>1, <4>1 DEF ChainInv
      <4>2. CASE i = Len(chain) + 1 \/ j = Len(chain) + 1
        BY <2>1, <2>2, <4>2
      <4> QED  BY <2>1, <4>1, <4>2
    <3>3. (\A q \in Request : pc[q] = "asleep" =>
              HasTurn(q) /\ wakeAt = lastStartedAt + MinInterval)'
      <4> SUFFICES ASSUME NEW q \in Request, pc'[q] = "asleep"
                   PROVE  HasTurn(q)' /\ wakeAt' = lastStartedAt' + MinInterval
        OBVIOUS
      <4>1. HasTurn(q) /\ wakeAt = lastStartedAt + MinInterval
        BY <1>1 DEF ChainInv
      <4>2. chain'[1] = chain[1] /\ Len(chain') > 1
        BY <4>1, <2>1 DEF HasTurn
      <4> QED  BY <1>1, <2>1, <4>1, <4>2 DEF HasTurn
    <3> QED  BY <3>1, <3>2, <3>3 DEF ChainInv
  <2>5. StartInv' /\ Spaced'
    BY <1>1 DEF StartInv, Spaced, Out
  <2> QED  BY <2>3, <2>4, <2>5
<1>2. ASSUME NEW r \in Request, BeginTurn(r) PROVE IInv'
  <2>1. CASE lastStartedAt + MinInterval <= now /\ GoOut(r)
    BY <1>2, <2>1, GoOutIsSound DEF BeginTurn
  <2>2. CASE /\ lastStartedAt + MinInterval > now
             /\ pc' = [pc EXCEPT ![r] = "asleep"]
             /\ wakeAt' = lastStartedAt + MinInterval
             /\ UNCHANGED <<now, chain, lastStartedAt, startedAt>>
    <3> USE DEF IInv, TypeOK
    <3>1. TypeOK'
      BY <1>2, <2>2 DEF BeginTurn, PC
    <3>2. ChainInv'
      BY <1>2, <2>2 DEF BeginTurn, ChainInv, HasTurn
    <3>3. StartInv' /\ Spaced'
      BY <1>2, <2>2 DEF BeginTurn, StartInv, Spaced, Out
    <3> QED  BY <3>1, <3>2, <3>3
  <2> QED  BY <1>2, <2>1, <2>2 DEF BeginTurn
<1>3. ASSUME NEW r \in Request, Wake(r) PROVE IInv'
  <2>1. HasTurn(r) /\ pc[r] # "out" /\ lastStartedAt + MinInterval <= now /\ GoOut(r)
    BY <1>3 DEF Wake, IInv, ChainInv
  <2> QED  BY <2>1, GoOutIsSound
<1>4. CASE Tick
  BY <1>4 DEF Tick, IInv, TypeOK, ChainInv, StartInv, Spaced, Out, HasTurn
<1>5. CASE UNCHANGED vars
  BY <1>5 DEF vars, IInv, TypeOK, ChainInv, StartInv, Spaced, Out, HasTurn
<1> QED  BY <1>1, <1>2, <1>3, <1>4, <1>5 DEF Next, Stopped

\* The invariant of the throttle: the chain is in the order of the calls, only its
\* head sleeps, and its timer is due MinInterval after the last start.
THEOREM ThrottleInvariant == Spec => []IInv
<1>1. Init => IInv
  BY InitIsSound
<1>2. IInv /\ [Next]_vars => IInv'
  BY NextIsSound
<1> QED  BY <1>1, <1>2, PTL DEF Spec

\* Two requests to mpn.cc never start within MinInterval of each other.
THEOREM StartsAreSpaced == Spec => []Spaced
<1>1. IInv => Spaced
  BY DEF IInv
<1> QED  BY <1>1, ThrottleInvariant, PTL

\* Requests go out in the order of the calls.
THEOREM StartsAreInOrder == Spec => FirstCalledFirst
<1>1. IInv /\ [Next]_vars =>
        [\A r \in Request : ~Out(r) /\ Out(r)' => chain # <<>> /\ r = Head(chain)]_vars
  <2> SUFFICES ASSUME IInv, Next, NEW r \in Request, ~Out(r), Out(r)'
               PROVE  HasTurn(r)
    BY DEF HasTurn
  <2>1. PICK q \in Request : BeginTurn(q) \/ Wake(q)
    BY DEF Next, Throttle, Tick, Stopped, vars, Out, IInv, TypeOK
  <2>2. q = r
    BY <2>1 DEF BeginTurn, Wake, GoOut, Out, IInv, TypeOK
  <2> QED  BY <2>1, <2>2 DEF BeginTurn, Wake, IInv, ChainInv
<1> QED  BY <1>1, ThrottleInvariant, PTL DEF Spec, FirstCalledFirst
-----------------------------------------------------------------------------
\* Who waits in the line of the limiter is in the chain.
LEMMA WaitsInChain ==
  ASSUME IInv, NEW r \in Request, Limiter!Waits(r)
  PROVE  pc[r] \in {"queued", "asleep"}
  BY DEF Limiter!Waits, IInv, ChainInv

\* A request that goes out with the turn leaves the line at its head.
LEMMA GoingOutLeaves ==
  ASSUME IInv, NEW r \in Request, HasTurn(r), pc[r] # "out",
         lastStartedAt + MinInterval <= now, GoOut(r)
  PROVE  Limiter!Leave
<1>1. chain # <<>> /\ r = Head(chain)
  BY DEF HasTurn
<1>2. {q \in Request : Out(q)}' = {q \in Request : Out(q)} \union {r}
  BY DEF GoOut, Out, IInv, TypeOK
<1>3. now >= lastStartedAt + MinInterval
  BY ThrottleAssumption DEF IInv, TypeOK
<1> QED  BY <1>1, <1>2, <1>3 DEF GoOut, Limiter!Leave

LEMMA LimiterStep ==
  IInv /\ [Next]_vars =>
    [Limiter!Next]_<<now, chain, {r \in Request : Out(r)}, lastStartedAt>>
<1> SUFFICES ASSUME IInv, [Next]_vars
             PROVE  \/ Limiter!Next
                    \/ UNCHANGED <<now, chain, {r \in Request : Out(r)}, lastStartedAt>>
  OBVIOUS
<1>1. ASSUME NEW r \in Request, Throttle(r) PROVE Limiter!Join(r)
  <2>1. pc[r] = "idle"
    BY <1>1 DEF Throttle
  <2>2. ~Out(r) /\ ~Limiter!Waits(r)
    BY <2>1, WaitsInChain DEF Out
  <2>3. {q \in Request : Out(q)}' = {q \in Request : Out(q)}
    BY <1>1, <2>1 DEF Throttle, Out, IInv, TypeOK
  <2> QED  BY <1>1, <2>2, <2>3 DEF Throttle, Limiter!Join
<1>2. ASSUME NEW r \in Request, BeginTurn(r)
      PROVE  Limiter!Leave \/ UNCHANGED <<now, chain, {q \in Request : Out(q)}, lastStartedAt>>
  <2>1. CASE lastStartedAt + MinInterval <= now /\ GoOut(r)
    BY <1>2, <2>1, GoingOutLeaves DEF BeginTurn
  <2>2. CASE /\ pc' = [pc EXCEPT ![r] = "asleep"]
             /\ UNCHANGED <<now, chain, lastStartedAt>>
    <3>1. {q \in Request : Out(q)}' = {q \in Request : Out(q)}
      BY <1>2, <2>2 DEF BeginTurn, Out, IInv, TypeOK
    <3> QED  BY <2>2, <3>1
  <2> QED  BY <1>2, <2>1, <2>2 DEF BeginTurn
<1>3. ASSUME NEW r \in Request, Wake(r) PROVE Limiter!Leave
  <2>1. HasTurn(r) /\ pc[r] # "out" /\ lastStartedAt + MinInterval <= now /\ GoOut(r)
    BY <1>3 DEF Wake, IInv, ChainInv
  <2> QED  BY <2>1, GoingOutLeaves
<1>4. CASE Tick
  <2>1. now' \in Nat /\ now' > now
    BY <1>4 DEF Tick, IInv, TypeOK
  <2> QED  BY <1>4, <2>1 DEF Tick, Out, Limiter!Pass, Limiter!Next
<1>5. CASE UNCHANGED vars
  BY <1>5 DEF vars, Out
<1> QED  BY <1>1, <1>2, <1>3, <1>4, <1>5 DEF Next, Stopped, Limiter!Next

\* For every MinInterval and any overlap of the calls, the chain of promises with
\* its timers is a line that requests leave from its head, an interval apart.
THEOREM ThrottleImplementsLimiter == Spec => ImplementsLimiter
<1>1. Init => Limiter!Init
  BY ThrottleAssumption DEF Init, Out, Limiter!Init
<1> QED  BY <1>1, LimiterStep, ThrottleInvariant, PTL DEF Spec, ImplementsLimiter, Limiter!Spec
=============================================================================
