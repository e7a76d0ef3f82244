------------------------------- MODULE MCSync -------------------------------
(***************************************************************************)
(* A reliable peer, whose third block appears on the way, and one that is  *)
(* not reliable and goes on to offer an invalid block.                     *)
(***************************************************************************)
EXTENDS Sync, TLC

CONSTANTS honest, flaky

MCChain == honest :> <<<<1, 0>>, <<2, 0>>, <<3, 0>>>>
           @@ flaky :> <<<<1, 0>>, <<2, 1>>>>
MCHave == honest :> 2 @@ flaky :> 1
=============================================================================
