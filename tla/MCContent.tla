------------------------------ MODULE MCContent ------------------------------
(***************************************************************************)
(* Two listeners, one of whom also owns the platform and is paid for the   *)
(* content, whose other payee gets a third.                                *)
(***************************************************************************)
EXTENDS Content

CONSTANTS a1, a2, song

MCDistributions == {<<[payee |-> a1, bp |-> 3333], [payee |-> a2, bp |-> 6667]>>}
MCRates == [hf \in BOOLEAN |-> IF hf THEN [content |-> 3, producer |-> 1, vesting |-> 1]
                               ELSE [content |-> 2, producer |-> 1, vesting |-> 1]]
MCFeedPrices == {[base |-> 2, quote |-> 3]}

=============================================================================
