---------------------------- MODULE CurrencyRates ----------------------------
(***************************************************************************)
(* CurrencyService and CbrClient: the rates in the database and those in   *)
(* the memory of the service, under updates by the schedule, by requests   *)
(* and at the start, which may overlap, fail half-way or be ended by a     *)
(* restart.  A rate is named by the update that fetched it.                *)
(***************************************************************************)
EXTENDS Integers

CONSTANTS
    Currency,    \* alfa3 of the currencies in the database
    RUB,         \* the one whose rate is 1
    Update,      \* calls of updateRates
    NoRate,      \* never updated
    Earlier,     \* a rate of before
    MaxRestarts  \* bound on restarts

ASSUME RatesAssumption == RUB \in Currency /\ Earlier \notin Update /\ MaxRestarts \in Nat

VARIABLES
    stored,    \* [Currency -> rate in the database]
    memory,    \* [Currency -> rate in mapIdCurrencies and mapAlfa3Currencies]
    update,    \* [Update -> the call]
    restarts

rateVars == <<stored, memory, update, restarts>>

Waiting == [at |-> "idle"]
Fetching(after) == [at |-> "fetch", after |-> after]
Failing == [at |-> "failed"]

HasEnded(u) == update[u].at \in {"done", "failed"}

\* onModuleInit: load, and updateRates at once where a rate is missing.
Booted(maps) ==
    \E c \in Currency \ {RUB} : maps[c] = NoRate

RatesInit ==
    /\ stored \in [Currency -> {NoRate, Earlier}]
    /\ memory = stored
    /\ update \in [Update -> {Waiting, Fetching({})}]
    /\ \A u \in Update : update[u] # Waiting => Booted(memory)
    /\ \A u, v \in Update : update[u] # Waiting /\ update[v] # Waiting => u = v
    /\ Booted(memory) => \E u \in Update : update[u] # Waiting
    /\ restarts = 0

----------------------------------------------------------------------------
\* The schedule at 18:00 or POST currency/rates.
StartUpdate(u) ==
    /\ update[u] = Waiting
    /\ update' = [update EXCEPT ![u] = Fetching({v \in Update : HasEnded(v)})]
    /\ UNCHANGED <<stored, memory, restarts>>

\* parseCbrXml takes the currencies with a nominal and a value above zero, and
\* throws if there is none, or no date.  RUB is not in the list.
RatesCome(u) ==
    /\ update[u].at = "fetch"
    /\ \E listed \in SUBSET (Currency \ {RUB}) \ {{}} :
          update' = [update EXCEPT ![u] =
                       [at |-> "write", after |-> @.after, given |-> listed \cup {RUB},
                        todo |-> listed \cup {RUB}]]
    /\ UNCHANGED <<stored, memory, restarts>>

\* One turn of the loop over the map as it was when the loop began; a currency
\* without a rate is only logged.
WriteRate(u, c) ==
    /\ update[u].at = "write" /\ c \in update[u].todo
    /\ stored' = [stored EXCEPT ![c] = u]
    /\ update' = [update EXCEPT ![u].todo = @ \ {c}]
    /\ UNCHANGED <<memory, restarts>>

\* A fault: the maps are read while rates are still being written.
LoadsEarly(u) == update[u].at = "write"

Loads(u) == update[u].at = "write" /\ update[u].todo = {}

\* load: the database is read ...
FindRates(u) ==
    /\ Loads(u)
    /\ update' = [update EXCEPT ![u] =
                    [at |-> "load", after |-> @.after, given |-> @.given, found |-> stored]]
    /\ UNCHANGED <<stored, memory, restarts>>

\* ... and both maps are replaced, and answered, when it has answered.
AssignMaps(u) ==
    /\ update[u].at = "load"
    /\ memory' = update[u].found
    /\ update' = [update EXCEPT ![u] =
                    [at |-> "done", after |-> @.after, given |-> @.given, answer |-> @.found]]
    /\ UNCHANGED <<stored, restarts>>

\* The bank does not answer in 20 s or answers nonsense, or the database rejects.
UpdateFails(u) ==
    /\ update[u].at \in {"fetch", "write", "load"}
    /\ update' = [update EXCEPT ![u] = Failing]
    /\ UNCHANGED <<stored, memory, restarts>>

\* The process starts anew: onModuleInit.
Restart ==
    /\ restarts < MaxRestarts
    /\ restarts' = restarts + 1
    /\ memory' = stored
    /\ LET ended == {v \in Update : update[v] # Waiting}
           stopped == [v \in Update |-> IF v \in ended /\ ~HasEnded(v) THEN Failing ELSE update[v]]
       IN  IF Booted(stored) /\ ended # Update
           THEN \E u \in Update \ ended : update' = [stopped EXCEPT ![u] = Fetching(ended)]
           ELSE update' = stopped
    /\ UNCHANGED stored

UpdateStep(u) ==
    \/ RatesCome(u)
    \/ \E c \in Currency : WriteRate(u, c)
    \/ FindRates(u)
    \/ AssignMaps(u)
    \/ UpdateFails(u)

RatesNext ==
    \/ \E u \in Update : StartUpdate(u) \/ UpdateStep(u)
    \/ Restart

RatesSpec == RatesInit /\ [][RatesNext]_rateVars

----------------------------------------------------------------------------
(***************************************************************************)
(* What a finished update answers is what it fetched, or what an update    *)
(* that overlapped it did, for every currency the bank gave: never a rate  *)
(* of before, though the maps it goes through, the database and the maps   *)
(* it replaces are each read at another time.  A currency the bank did not *)
(* give keeps a rate once it has one.                                      *)
(***************************************************************************)
UpdatesTakeEffect ==
    \A u \in Update : update[u].at = "done" =>
        LET answer == update[u].answer
        IN  \A c \in Currency :
               /\ c \in update[u].given => answer[c] \in Update \ update[u].after
               /\ stored[c] = Earlier => answer[c] = Earlier

----------------------------------------------------------------------------
\* The inductive invariant behind it: whoever is named in after writes no more,
\* and what an update wrote stays its own or goes to one that overlaps it.
Rates == [Currency -> {NoRate, Earlier} \cup Update]

UpdateCall ==
    {Waiting, Failing} \cup [at : {"fetch"}, after : SUBSET Update]
      \cup [at : {"write"}, after : SUBSET Update, given : SUBSET Currency, todo : SUBSET Currency]
      \cup [at : {"load"}, after : SUBSET Update, given : SUBSET Currency, found : Rates]
      \cup [at : {"done"}, after : SUBSET Update, given : SUBSET Currency, answer : Rates]

RatesTypeOK ==
    /\ stored \in Rates /\ memory \in Rates
    /\ update \in [Update -> UpdateCall]
    /\ restarts \in Nat

Fresh(rates, u, currencies) == \A c \in currencies : rates[c] \in Update \ update[u].after
AsOld(rates) == \A c \in Currency : stored[c] = Earlier => rates[c] = Earlier

UpdateInv(u) ==
    /\ update[u].at \in {"fetch", "write", "load", "done"} => \A v \in update[u].after : HasEnded(v)
    /\ update[u].at = "write" => Fresh(stored, u, update[u].given \ update[u].todo)
    /\ update[u].at = "load" => Fresh(update[u].found, u, update[u].given) /\ AsOld(update[u].found)
    /\ update[u].at = "done" => Fresh(update[u].answer, u, update[u].given) /\ AsOld(update[u].answer)

RatesIInv == RatesTypeOK /\ \A u \in Update : UpdateInv(u)
=============================================================================
