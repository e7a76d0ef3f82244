-------------------------- MODULE MCChainLiveness --------------------------
(***************************************************************************)
(* Instances of ChainLiveness on the tree of MCChainTree.                  *)
(***************************************************************************)
EXTENDS ChainLiveness, MCChainTree
=============================================================================
