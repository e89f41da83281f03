------------------------ MODULE MCPricePublication ------------------------
(***************************************************************************)
(* PricePublication for TLC; the cfg files give the constants.             *)
(***************************************************************************)
EXTENDS PricePublication

(* A CONFIRMED quote was and stays published, at most one publication is on  *)
(* its way, and no nonce is signed twice (reconcilePublication,              *)
(* processPreUsdPricePublication).                                           *)
PublishedInv ==
  /\ ConfirmedIsPublished
  /\ ConfirmedStaysPublished
  /\ OneLiveTransaction
  /\ NonceNeverReused
=============================================================================
