--------------------------- MODULE MCChainHonest ---------------------------
(***************************************************************************)
(* The instance of ChainDatabase in which every block applies on the chain *)
(* it builds on, as the theorems about the block log assume.               *)
(***************************************************************************)
EXTENDS MCChainDatabase

ASSUME HonestAssumption == Honest
=============================================================================
