---------------------------- MODULE MCSafePayouts ----------------------------
(* Model values for SafePayouts.  Payouts, keys and API calls are           *)
(* interchangeable in the safety runs.                                      *)
EXTENDS SafePayouts, TLC

Symmetry == Permutations(Ids) \union Permutations(Keys) \union Permutations(Requests)
=============================================================================
