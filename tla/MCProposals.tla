----------------------------- MODULE MCProposals -----------------------------
(***************************************************************************)
(* Three accounts: alice and carol hold keys, bob is acted for by alice.   *)
(* The content song is managed by bob and carol together.                  *)
(***************************************************************************)
EXTENDS Proposals, TLC

CONSTANTS alice, bob, carol, ka, kc, song

MCByName == <<alice, bob, carol>>

Key(k) == [threshold |-> 1, keys |-> {k}, accounts |-> {}]
For(n, S) == [threshold |-> n, keys |-> {}, accounts |-> S]

transfer(who) == [kind |-> "transfer", who |-> who]

MCProposable ==
  {<<transfer(alice), transfer(carol)>>,
   <<[kind |-> "update_owner", who |-> alice, new |-> Key(kc)], transfer(alice), transfer(carol)>>,
   <<[kind |-> "friendship", who |-> bob]>>,
   <<[kind |-> "content_update", who |-> song, new |-> Key(kc)]>>}

MCReviews == {NoReview, 0, 1}

MCDirect ==
  {transfer(alice), [kind |-> "update_active", who |-> bob, new |-> Key(kc)]}

MCWorld ==
  [funds |-> (alice :> 1 @@ bob :> 0 @@ carol :> 0),
   active |-> (alice :> Key(ka) @@ bob :> For(1, {alice}) @@ carol :> Key(kc)),
   owner |-> (alice :> Key(ka) @@ bob :> For(1, {alice, carol}) @@ carol :> Key(kc)),
   manage_master |-> (song :> For(2, {bob, carol})),
   applied |-> [id \in 1 .. MaxProposals |-> 0]]

=============================================================================
