------------------------------ MODULE MCMpnService ------------------------------
(***************************************************************************)
(* Instances of MpnService on one MPN: plain clicks without a hint, hinted *)
(* and again with the hint of maker y; again is a refresh in some runs.    *)
(***************************************************************************)
EXTENDS MpnService, FiniteSets, TLC

CONSTANTS plain, hinted, again, mpn, x, y

PairHintOf == plain :> NoMaker @@ hinted :> y
TrioHintOf == PairHintOf @@ again :> y
AgainHintOf == plain :> NoMaker @@ again :> y
MCMpnOf == [c \in Click |-> mpn]

\* Two of three clicks begin a flight.
TwoFlights == Cardinality({c \in Click : stage[c] # "none"}) <= 2
=============================================================================
