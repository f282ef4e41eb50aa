----------------------------- MODULE MCSearchSystem -----------------------------
(***************************************************************************)
(* Instances of SearchSystem.  s1 and s2 search one key, s1 reading the    *)
(* cache; live is a live request for the same goods, under the alias       *)
(* compel-live and the supplier of compel; short has a search string that  *)
(* is too short.                                                           *)
(***************************************************************************)
EXTENDS SearchSystem, TLC

CONSTANTS s1, s2, live, short, compel, compelLive, compelKey, liveKey, compelRow

SoloKeyOf == s1 :> compelKey
PairKeyOf == s1 :> compelKey @@ s2 :> compelKey
PairShortKeyOf == PairKeyOf @@ short :> compelKey
AllKeyOf == PairShortKeyOf @@ live :> liveKey

CompelAliasOf == compelKey :> compel
LiveAliasOf == CompelAliasOf @@ liveKey :> compelLive
CompelRowOf == compelKey :> compelRow
LiveRowOf == CompelRowOf @@ liveKey :> compelRow

\* A live request meets one search, of two searches at a time.
PairOrLive == pc[live] = "idle" \/ (pc[s2] = "idle" /\ pc[short] = "idle")
=============================================================================
