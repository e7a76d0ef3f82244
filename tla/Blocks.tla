------------------------------- MODULE Blocks -------------------------------
(***************************************************************************)
(* The tree of blocks that the chain modules work on: every block that a   *)
(* witness ever signs, of every fork, good or bad.  A block is a value and *)
(* is its own id.  Genesis stands for the null id that block number 1 has  *)
(* as its previous.                                                        *)
(***************************************************************************)
EXTENDS Integers, Sequences

CONSTANTS Block,     \* the blocks that exist
          Genesis,   \* the null block id
          NoBlock,   \* no block: an empty optional or pointer
          previous,  \* the block each block builds on, or Genesis
          num        \* the number of each block; that of Genesis is 0

ASSUME BlockAssumption ==
  /\ Genesis \notin Block /\ NoBlock \notin Block \cup {Genesis}
  /\ previous \in [Block -> Block \cup {Genesis}]
  /\ num \in [Block \cup {Genesis} -> Nat]
  /\ num[Genesis] = 0
  /\ \A b \in Block : num[b] = num[previous[b]] + 1

BlockOrGenesis == Block \cup {Genesis}

\* The blocks from number 1 up to b.
Path[b \in BlockOrGenesis] ==
  IF b = Genesis THEN <<>> ELSE Append(Path[previous[b]], b)

Larger(a, b) == IF a > b THEN a ELSE b
Smaller(a, b) == IF a < b THEN a ELSE b
=============================================================================
