------------------------------ MODULE MpnThrottle ------------------------------
(***************************************************************************)
(* MpnClient.throttle() (mpn.client.ts): every request to mpn.cc first     *)
(* takes its turn in a chain of promises.  A turn begins when the one      *)
(* before it has ended, sleeps until MinInterval after the last start and  *)
(* then lets its request go out.                                           *)
(*                                                                         *)
(* Date.now() and the timers are one clock that never goes back; a timer   *)
(* may be late but is never early.                                         *)
(***************************************************************************)
EXTENDS Naturals, Sequences

CONSTANTS
    Request,
    MinInterval,    \* MPN_CC_MIN_INTERVAL_MS; 0 turns the throttle off
    Boot,           \* Date.now() when the client is made
    Horizon         \* bound: requests are made, and the clock idles, until then

ASSUME ThrottleAssumption == MinInterval \in Nat /\ Boot \in Nat /\ Horizon \in Nat

VARIABLES
    now,
    pc,             \* where each request is
    chain,          \* the requests whose turns have not ended, in the order of the calls
    wakeAt,         \* when the timer of the turn asleep is due
    lastStartedAt,
    startedAt       \* when each request went out

vars == <<now, pc, chain, wakeAt, lastStartedAt, startedAt>>

PC == {"idle", "queued", "asleep", "out"}
Out(r) == pc[r] = "out"

Init ==
    /\ now = Boot
    /\ pc = [r \in Request |-> "idle"]
    /\ chain = <<>>
    /\ wakeAt = 0
    /\ lastStartedAt = 0
    /\ startedAt = [r \in Request |-> 0]

\* Fault: a call made while another waits is forgotten.
ThrottleDropping(r) ==
    /\ pc[r] = "idle" /\ now < Horizon
    /\ pc' = [pc EXCEPT ![r] = "queued"]
    /\ chain' = IF chain = <<>> THEN <<r>> ELSE chain
    /\ UNCHANGED <<now, wakeAt, lastStartedAt, startedAt>>

\* Fault: a call is chained before those that wait.
ThrottleAhead(r) ==
    /\ pc[r] = "idle" /\ now < Horizon
    /\ pc' = [pc EXCEPT ![r] = "queued"]
    /\ chain' = <<r>> \o chain
    /\ UNCHANGED <<now, wakeAt, lastStartedAt, startedAt>>

\* throttle() chains the turn to those before it.
Throttle(r) ==
    /\ pc[r] = "idle" /\ now < Horizon
    /\ pc' = [pc EXCEPT ![r] = "queued"]
    /\ chain' = Append(chain, r)
    /\ UNCHANGED <<now, wakeAt, lastStartedAt, startedAt>>

\* Fault: the start is not remembered.
GoOutUnmarked(r) ==
    /\ pc' = [pc EXCEPT ![r] = "out"]
    /\ startedAt' = [startedAt EXCEPT ![r] = now]
    /\ chain' = Tail(chain)
    /\ UNCHANGED <<now, wakeAt, lastStartedAt>>

\* The turn ends and its request goes out.
GoOut(r) ==
    /\ pc' = [pc EXCEPT ![r] = "out"]
    /\ startedAt' = [startedAt EXCEPT ![r] = now]
    /\ lastStartedAt' = now
    /\ chain' = Tail(chain)
    /\ UNCHANGED <<now, wakeAt>>

HasTurn(r) == chain # <<>> /\ r = Head(chain)

\* Fault: a turn does not wait for those before it.
TurnAtOnce(r) ==
    /\ pc[r] = "queued"
    /\ \/ lastStartedAt + MinInterval <= now /\ GoOut(r)
       \/ /\ lastStartedAt + MinInterval > now
          /\ pc' = [pc EXCEPT ![r] = "asleep"]
          /\ wakeAt' = lastStartedAt + MinInterval
          /\ UNCHANGED <<now, chain, lastStartedAt, startedAt>>

\* The turn begins: wait is lastStartedAt + minIntervalMs - Date.now().
BeginTurn(r) ==
    /\ HasTurn(r)
    /\ pc[r] = "queued"
    /\ \/ lastStartedAt + MinInterval <= now /\ GoOut(r)
       \/ /\ lastStartedAt + MinInterval > now
          /\ pc' = [pc EXCEPT ![r] = "asleep"]
          /\ wakeAt' = lastStartedAt + MinInterval
          /\ UNCHANGED <<now, chain, lastStartedAt, startedAt>>

Wake(r) ==
    /\ pc[r] = "asleep"
    /\ wakeAt <= now
    /\ GoOut(r)

Tick ==
    /\ now < Horizon \/ (now < wakeAt /\ \E r \in Request : pc[r] = "asleep")
    /\ now' = now + 1
    /\ UNCHANGED <<pc, chain, wakeAt, lastStartedAt, startedAt>>

Stopped ==
    /\ chain = <<>> /\ now >= Horizon
    /\ UNCHANGED vars

Next ==
    \/ \E r \in Request : Throttle(r) \/ BeginTurn(r) \/ Wake(r)
    \/ Tick
    \/ Stopped

Spec == Init /\ [][Next]_vars

\* Promise reactions run, a due timer fires in the end, and time passes.
Fairness ==
    /\ \A r \in Request : WF_vars(BeginTurn(r)) /\ WF_vars(Wake(r))
    /\ WF_vars(Tick)

FairSpec == Spec /\ Fairness
-----------------------------------------------------------------------------
\* The least interval between two starts, on the whole process, however the calls
\* overlap: a burst of clicks on the cards never becomes a burst on mpn.cc.
Spaced ==
    \A r, q \in Request : r # q /\ Out(r) /\ Out(q) =>
        \/ startedAt[r] >= startedAt[q] + MinInterval
        \/ startedAt[q] >= startedAt[r] + MinInterval

\* No request overtakes one called before it, so none waits for ever behind later ones.
FirstCalledFirst ==
    [][\A r \in Request : ~Out(r) /\ Out(r)' => chain # <<>> /\ r = Head(chain)]_vars

Limiter == INSTANCE RequestLimiter WITH
    waiting <- chain,
    gone <- {r \in Request : Out(r)},
    lastLeft <- lastStartedAt

\* The chain of promises is a line with one exit: between a wait that is computed and
\* the timer that ends it no other request leaves, so that what was computed still holds.
ImplementsLimiter == Limiter!Spec

\* Every request goes out.
EveryRequestGoesOut == \A r \in Request : pc[r] = "queued" ~> Out(r)
-----------------------------------------------------------------------------
TypeOK ==
    /\ now \in Nat
    /\ pc \in [Request -> PC]
    /\ chain \in Seq(Request)
    /\ wakeAt \in Nat
    /\ lastStartedAt \in Nat
    /\ startedAt \in [Request -> Nat]

\* The chain holds the requests that wait, each once, and only its head sleeps.
ChainInv ==
    /\ \A i \in 1 .. Len(chain) : pc[chain[i]] \in {"queued", "asleep"}
    /\ \A i, j \in 1 .. Len(chain) : chain[i] = chain[j] => i = j
    /\ \A r \in Request : pc[r] = "asleep" =>
           HasTurn(r) /\ wakeAt = lastStartedAt + MinInterval

\* lastStartedAt is the latest start, and none lies in the future.
StartInv ==
    \A r \in Request : Out(r) => startedAt[r] <= lastStartedAt /\ lastStartedAt <= now

IInv == TypeOK /\ ChainInv /\ StartInv /\ Spaced
=============================================================================
