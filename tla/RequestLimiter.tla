---------------------------- MODULE RequestLimiter ----------------------------
(***************************************************************************)
(* What the throttle of MpnClient promises, without the chain of promises, *)
(* the sleeps and the time they were computed at: requests wait in a line  *)
(* and leave from its head, each at least MinInterval after the one that   *)
(* left before it.  Nothing but leaving takes a request from the line, and *)
(* none joins it twice.                                                    *)
(***************************************************************************)
EXTENDS Naturals, Sequences

CONSTANTS Request, MinInterval

VARIABLES
    now,
    waiting,    \* the line
    gone,       \* the requests that have left
    lastLeft    \* when the last of them did

Waits(r) == \E i \in 1 .. Len(waiting) : waiting[i] = r

Init ==
    /\ now \in Nat
    /\ waiting = <<>>
    /\ gone = {}
    /\ lastLeft \in Nat

Join(r) ==
    /\ r \notin gone /\ ~Waits(r)
    /\ waiting' = Append(waiting, r)
    /\ UNCHANGED <<now, gone, lastLeft>>

Leave ==
    /\ waiting # <<>>
    /\ gone = {} \/ now >= lastLeft + MinInterval
    /\ gone' = gone \union {Head(waiting)}
    /\ waiting' = Tail(waiting)
    /\ lastLeft' = now
    /\ UNCHANGED now

Pass ==
    /\ now' \in Nat /\ now' > now
    /\ UNCHANGED <<waiting, gone, lastLeft>>

Next == (\E r \in Request : Join(r)) \/ Leave \/ Pass

Spec == Init /\ [][Next]_<<now, waiting, gone, lastLeft>>
=============================================================================
