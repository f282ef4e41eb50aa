---------------------------- MODULE MCScheduleImport ----------------------------
(***************************************************************************)
(* Instances of ScheduleImport: the nightly import and a parseForDb job,   *)
(* two codes, the goods of a search and a binding.                         *)
(***************************************************************************)
EXTENDS ScheduleImport, FiniteSets, TLC

CONSTANTS cron, job, search, bind, code1, code2

Codes == Permutations({code1, code2})

\* The imports meet the search or the binding.
OneMoreActor == Cardinality(stored) <= 1
=============================================================================
