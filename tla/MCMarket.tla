------------------------------ MODULE MCMarket ------------------------------
(***************************************************************************)
(* Two traders: one brings MUSE, the other MBD, of different sizes.        *)
(***************************************************************************)
EXTENDS Market, TLC

CONSTANTS a1, a2

MCAccounts == {a1, a2}
MCBalance == (a1 :> [MUSE |-> 3, MBD |-> 1]) @@ (a2 :> [MUSE |-> 1, MBD |-> 3])
MCPrices == {[base |-> b[1], quote |-> b[2]] : b \in {<<1, 1>>, <<1, 2>>, <<2, 3>>, <<3, 2>>}}
MCFeedPrices == {[base |-> 2, quote |-> 3]}

=============================================================================
