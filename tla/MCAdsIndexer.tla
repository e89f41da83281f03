--------------------------- MODULE MCAdsIndexer ---------------------------
EXTENDS AdsIndexer, TLC

Symmetry == Permutations(Processes) \cup Permutations(Stakers)

(* Positions, events and configuration are those of the fork that the        *)
(* checkpoint names (commitChunk, saveConfiguration).                        *)
ProjectionInv == TypeOK /\ ProjectionIsOneFork /\ ConfigurationIsOfItsBlock
=============================================================================
