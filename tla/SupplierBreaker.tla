---------------------------- MODULE SupplierBreaker ----------------------------
(***************************************************************************)
(* What the error keys promise, without the race that sets them: a circuit *)
(* breaker per alias.  A call is admitted or refused by the state of its   *)
(* breaker when it is checked; only an admitted call opens the breaker,    *)
(* and only that of its own alias.  An admitted call may open it at any    *)
(* later time, even after it has answered.                                 *)
(***************************************************************************)
CONSTANTS Search, Alias, AliasOf

VARIABLES
    open,       \* aliases whose breaker is open
    admission   \* what was decided of each call

Init ==
    /\ open = {}
    /\ admission = [s \in Search |-> "new"]

Admit(s) ==
    /\ admission[s] = "new"
    /\ AliasOf[s] \notin open
    /\ admission' = [admission EXCEPT ![s] = "admitted"]
    /\ UNCHANGED open

Refuse(s) ==
    /\ admission[s] = "new"
    /\ AliasOf[s] \in open
    /\ admission' = [admission EXCEPT ![s] = "refused"]
    /\ UNCHANGED open

Trip(s) ==
    /\ admission[s] = "admitted"
    /\ open' = open \union {AliasOf[s]}
    /\ UNCHANGED admission

Reset(a) ==
    /\ open' = open \ {a}
    /\ UNCHANGED admission

Next ==
    \/ \E s \in Search : Admit(s) \/ Refuse(s) \/ Trip(s)
    \/ \E a \in Alias : Reset(a)

Spec == Init /\ [][Next]_<<open, admission>>
=============================================================================
