--------------------------- MODULE ChainLiveness ---------------------------
(***************************************************************************)
(* A node that stays up, while the network keeps handing over the blocks   *)
(* it does not know.  arrived is the block that was handed over last; it   *)
(* lets fairness speak of the delivery of each block.                      *)
(***************************************************************************)
EXTENDS ChainDatabase

VARIABLE arrived

live_vars == <<vars, arrived>>

\* The network offers b: peers advertise and synchronise until has_item() says
\* that the node knows it.
Offer(b) ==
  /\ status = "open"
  /\ Arrives(b)
  /\ arrived' = b

LiveInit == Init /\ arrived = NoBlock

LiveNext ==
  \/ \E b \in Block : Offer(b) /\ PushBlock(b)
  \/ \E tx \in Tx : PushTransaction(tx) /\ arrived' = NoBlock
  \/ \E b \in Block : GenerateBlock(b) /\ arrived' = NoBlock

\* Every block that the node does not know is handed over again.
LiveSpec ==
  LiveInit /\ [][LiveNext]_live_vars /\ \A b \in Block : WF_arrived(Offer(b))

-----------------------------------------------------------------------------
\* "If the head block from the longest chain does not build off of the current
\* head, we need to switch forks" (database.cpp:613): whatever the order of
\* arrival, the node ends on the longest sound branch.
Converges == <>[](\A b \in Block : Sound(b) => num[b] <= num[head])
=============================================================================
