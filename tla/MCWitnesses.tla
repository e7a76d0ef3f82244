---------------------------- MODULE MCWitnesses ----------------------------
(* A small instance of BlockProduction and of what it extends.             *)
EXTENDS BlockProduction

MCHardforkTime == [v \in Versions |-> v * 12]
=============================================================================
