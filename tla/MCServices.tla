------------------------------ MODULE MCServices ------------------------------
(***************************************************************************)
(* Instances of GoodStore, CurrencyRates, UploadCheck and MpnThrottle.     *)
(* They share no state, so a behaviour runs one of them.                   *)
(***************************************************************************)
EXTENDS GoodStore, CurrencyRates, UploadCheck, MpnThrottle

CONSTANTS
    max232, elcopro, compel, pack, usd, eur, cron, post, zip, csv, other,
    r1, r2, r3, r4

VARIABLE runs

MCVars == <<storeVars, rateVars, uploadVars, vars, runs>>

Parts == {"goods", "rates", "uploads", "throttle"}

Still(part) ==
    CASE part = "goods" -> op = [o \in Op |-> Idle] /\ row = [g \in Good |-> None]
      [] part = "rates" -> stored = [c \in Currency |-> Earlier] /\ update = [u \in Update |-> Waiting]
      [] part = "uploads" -> files = {} /\ mounted
      [] part = "throttle" -> Init

MCInit ==
    /\ StoreInit /\ RatesInit /\ UploadInit /\ Init
    /\ runs \in Parts
    /\ \A part \in Parts \ {runs} : Still(part)

GoodsRun == runs = "goods" /\ UNCHANGED <<rateVars, uploadVars, vars, runs>>
RatesRun == runs = "rates" /\ UNCHANGED <<storeVars, uploadVars, vars, runs>>
UploadsRun == runs = "uploads" /\ UNCHANGED <<storeVars, rateVars, vars, runs>>
RequestsRun == runs = "throttle" /\ UNCHANGED <<storeVars, rateVars, uploadVars, runs>>

MCNext ==
    \/ GoodsRun /\ StoreNext
    \/ RatesRun /\ RatesNext
    \/ UploadsRun /\ UploadNext
    \/ RequestsRun /\ Next

\* UploadFairness and Fairness, each of the behaviours that run its part.
MCFairness ==
    /\ \A t \in Turn : WF_MCVars(UploadsRun /\ CheckUpload(t)) /\ WF_MCVars(UploadsRun /\ TurnStep(t))
    /\ WF_MCVars(UploadsRun /\ OutageExpires) /\ WF_MCVars(UploadsRun /\ ComesBack)
    /\ \A r \in Request : WF_MCVars(RequestsRun /\ BeginTurn(r)) /\ WF_MCVars(RequestsRun /\ Wake(r))
    /\ WF_MCVars(RequestsRun /\ Tick)

MCSpec == MCInit /\ [][MCNext]_MCVars /\ MCFairness
=============================================================================
