--------------------------- MODULE MCPromelecCatalog ---------------------------
(***************************************************************************)
(* Instances of PromelecCatalog: two executions, or one after a crash,     *)
(* over a catalogue of three items that may grow, shrink or break off.     *)
(***************************************************************************)
EXTENDS PromelecCatalog, FiniteSets

CONSTANTS run1, run2, search, bind

\* A search or a binding meets one execution; a second one, or a crash, is without.
OneMoreActor ==
    \/ stored = {}
    \/ Cardinality(stored) = 1 /\ crashes = 0 /\ pc[run2] = "idle"
=============================================================================
