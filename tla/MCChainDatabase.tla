-------------------------- MODULE MCChainDatabase --------------------------
(***************************************************************************)
(* Instances of ChainDatabase on the tree of MCChainTree.                  *)
(***************************************************************************)
EXTENDS ChainDatabase, MCChainTree
=============================================================================
