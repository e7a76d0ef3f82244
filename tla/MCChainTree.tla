---------------------------- MODULE MCChainTree ----------------------------
(***************************************************************************)
(* The tree of blocks of the chain runs: a trunk A1 .. A4, a branch B from *)
(* A2, a branch C from A1, and three blocks that do not apply: X3 on A2,   *)
(* Y4 on B3 and Z3 on C2.  Where Block has them, the blocks T1 .. T5 come  *)
(* before A1 and make the log long enough for all stages of a replay.      *)
(***************************************************************************)
EXTENDS Blocks, TLC

CONSTANTS T1, T2, T3, T4, T5, A1, A2, A3, A4, B3, B4, B5, C2, C3, C4, X3, Y4, Z3, t1, t2, t3

Trunk == <<T1, T2, T3, T4, T5>>
Height == IF T1 \in Block THEN Len(Trunk) ELSE 0

Tree ==
  T1 :> Genesis @@ T2 :> T1 @@ T3 :> T2 @@ T4 :> T3 @@ T5 :> T4
  @@ A1 :> (IF Height = 0 THEN Genesis ELSE T5) @@ A2 :> A1 @@ A3 :> A2 @@ A4 :> A3
  @@ B3 :> A2 @@ B4 :> B3 @@ B5 :> B4
  @@ C2 :> A1 @@ C3 :> C2 @@ C4 :> C3
  @@ X3 :> A2 @@ Y4 :> B3 @@ Z3 :> C2

GoodBlocks == {A1, A2, A3, A4, B3, B4, B5, C2, C3, C4}
AllBlocks == GoodBlocks \cup {X3, Y4, Z3}
LongTree == GoodBlocks \cup {T1, T2, T3, T4, T5}
\* Blocks for which last_irreversible_block_num moves on.
Confirming == A2 :> 1 @@ A3 :> 1 @@ A4 :> 2 @@ B3 :> 1 @@ B4 :> 2 @@ B5 :> 3 @@ C3 :> 1 @@ C4 :> 1 @@ X3 :> 1 @@ Y4 :> 1
Filled == A2 :> <<t1>> @@ A4 :> <<t3>> @@ B3 :> <<t2>> @@ B4 :> <<t3>>
          @@ C3 :> <<t1>>

Chosen(f, b, default) == IF b \in DOMAIN f THEN f[b] ELSE default
MCprevious == [b \in Block |-> Tree[b]]
Numbers ==
  A1 :> 1 @@ A2 :> 2 @@ C2 :> 2
  @@ A3 :> 3 @@ B3 :> 3 @@ C3 :> 3 @@ X3 :> 3 @@ Z3 :> 3
  @@ A4 :> 4 @@ B4 :> 4 @@ C4 :> 4 @@ Y4 :> 4 @@ B5 :> 5
Below == Genesis :> 0 @@ T1 :> 1 @@ T2 :> 2 @@ T3 :> 3 @@ T4 :> 4 @@ T5 :> 5
MCnum == [b \in BlockOrGenesis |->
            IF b \in DOMAIN Below THEN Below[b] ELSE Height + Numbers[b]]
MClib == [b \in BlockOrGenesis |->
            IF b = Genesis THEN 0 ELSE IF b \in DOMAIN Below THEN Below[b] - 1
            ELSE Height + Chosen(Confirming, b, 0)]
MCtransactions == [b \in Block |-> Chosen(Filled, b, <<>>)]

MCTx == {t1, t2, t3}
MCexpiration == t1 :> Height + 4 @@ t2 :> Height + 9 @@ t3 :> Height + 9
MCref_block == t1 :> Genesis @@ t2 :> A2 @@ t3 :> Genesis
MCdepth == [tx \in MCTx |-> 1]
=============================================================================
