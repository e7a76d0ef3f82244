------------------------------- MODULE Voting -------------------------------
(***************************************************************************)
(* Votes of accounts for witnesses and streaming platforms, and voting     *)
(* proxies (chain/base_evaluator.cpp, muse_evaluator.cpp, database.cpp).   *)
(*                                                                         *)
(* An account votes with its vesting shares.  It either votes itself or    *)
(* names a proxy, which then votes with the shares of both; proxies may    *)
(* have proxies.  The chain never adds votes up: every account keeps, per  *)
(* level, the shares proxied to it (proxied_vsf_votes[d]: those of the     *)
(* accounts d+1 hops below it), every witness and platform keeps its       *)
(* total, and each operation adjusts these by a difference.  The           *)
(* properties compare them with the sums they stand for.                   *)
(*                                                                         *)
(* Left to other parts: the virtual schedule time a witness gets when its  *)
(* votes change, the scores of accounts, and the MUSE paid for shares (the *)
(* number of new shares is an input).                                      *)
(***************************************************************************)
EXTENDS Integers, FiniteSets, FiniteSetsExt, Functions

CONSTANTS Accounts,     \* ids of the accounts
          Witnesses,
          Platforms,    \* streaming platforms
          Self,         \* MUSE_PROXY_TO_SELF_ACCOUNT: no proxy
          MaxDepth,     \* MUSE_MAX_PROXY_RECURSION_DEPTH
          MaxVotes,     \* MUSE_MAX_ACCOUNT_WITNESS_VOTES
          MaxShares     \* bound: total vesting shares handed out

ASSUME VotingAssumption ==
  /\ IsFiniteSet(Accounts) /\ IsFiniteSet(Witnesses) /\ IsFiniteSet(Platforms)
  /\ Self \notin Accounts
  /\ MaxDepth \in Nat \ {0} /\ MaxVotes \in Nat /\ MaxShares \in Nat

VARIABLES book,     \* the numbers: shares and tallies
          ballots   \* who votes for whom, and through whom

vars == <<book, ballots>>

Levels == 0 .. MaxDepth - 1

(* ok: the assertions met so far held.  A handler whose result is not ok   *)
(* has thrown, and leaves no trace.                                        *)
Book == [vesting  : [Accounts -> Nat],
         total    : Nat,                \* total_vesting_shares
         proxied  : [Accounts -> [Levels -> Nat]],
         votes    : [Witnesses -> Nat],
         sp_votes : [Platforms -> Int],
         ok       : {TRUE}]

Ballots == [proxy         : [Accounts -> Accounts \cup {Self}],
            witness_vote  : SUBSET (Accounts \X Witnesses),
            platform_vote : SUBSET (Accounts \X Platforms),
            witnesses_voted_for           : [Accounts -> 0 .. MaxVotes],
            streaming_platforms_voted_for : [Accounts -> 0 .. MaxVotes]]

-----------------------------------------------------------------------------
(* Tallies                                                                 *)

(* The account d proxies above a, Self past the end of the chain.          *)
Ancestor(proxy, a) ==
  LET up[d \in 0 .. MaxDepth] ==
        IF d = 0 THEN a ELSE IF up[d - 1] = Self THEN Self ELSE proxy[up[d - 1]]
  IN  up

witness_vote_weight(b, a) ==
  b.vesting[a] + SumFunction(b.proxied[a])

(* The tally may not exceed all the shares there are, else FC_ASSERT       *)
(* throws.                                                                 *)
adjust_witness_vote(b, w, delta) ==
  [b EXCEPT !.votes[w] = @ + delta,
            !.ok = @ /\ b.votes[w] + delta <= b.total]

adjust_streaming_platform_vote(b, p, delta) ==
  [b EXCEPT !.sp_votes[p] = @ + delta,
            !.ok = @ /\ b.sp_votes[p] + delta <= b.total]

(* The same for all that a votes for, one after the other.                 *)
adjust_witness_votes(b, v, a, delta) ==
  LET voted == {w \in Witnesses : <<a, w>> \in v.witness_vote}
  IN  [b EXCEPT !.votes = [w \in Witnesses |-> IF w \in voted THEN @[w] + delta ELSE @[w]],
                !.ok = @ /\ \A w \in voted : b.votes[w] + delta <= b.total]

adjust_streaming_platform_votes(b, v, a, delta) ==
  LET voted == {p \in Platforms : <<a, p>> \in v.platform_vote}
  IN  [b EXCEPT !.sp_votes = [p \in Platforms |-> IF p \in voted THEN @[p] + delta ELSE @[p]],
                !.ok = @ /\ \A p \in voted : b.sp_votes[p] + delta <= b.total]

(* The walk up the chain of proxies from a.  delta[i] is the change of the *)
(* shares i hops below a: the proxy d+1 hops above a counts them at level  *)
(* i + d, as far as there are levels; the account that has no proxy, r     *)
(* hops up, passes on what reaches it to what it voted for.  Beyond        *)
(* MaxDepth hops the change does not propagate.                            *)
adjust_proxied_witness_votes(b, v, a, delta) ==
  LET up == Ancestor(v.proxy, a)
      gain(x, j) == SumFunction([d \in {d \in 0 .. j : up[d + 1] = x} |-> delta[j - d]])
      passed == [b EXCEPT !.proxied =
                  [x \in Accounts |-> [j \in Levels |-> @[x][j] + gain(x, j)]]]
      ends == {d \in 0 .. MaxDepth : up[d] # Self /\ v.proxy[up[d]] = Self}
      cast(r) == LET total_delta == SumFunctionOnSet(delta, 0 .. MaxDepth - r)
                 IN  adjust_streaming_platform_votes(
                       adjust_witness_votes(passed, v, up[r], total_delta),
                       v, up[r], total_delta)
  IN  IF ends = {} THEN passed ELSE cast(CHOOSE r \in ends : TRUE)

(* The overload for a change of the shares of a itself.                    *)
adjust_proxied_by_shares(b, v, a, delta) ==
  adjust_proxied_witness_votes(b, v, a,
    [i \in 0 .. MaxDepth |-> IF i = 0 THEN delta ELSE 0])

\* Faulty variant of brought: the shares proxied to a are left behind.
brought_own(b, a) ==
  [i \in 0 .. MaxDepth |-> IF i = 0 THEN b.vesting[a] ELSE 0]

(* All that a brings to its proxy: its shares, and those proxied to it.    *)
brought(b, a) ==
  [i \in 0 .. MaxDepth |-> IF i = 0 THEN b.vesting[a] ELSE b.proxied[a][i - 1]]

negated(delta) == [i \in DOMAIN delta |-> - delta[i]]

\* Faulty variant of clear_witness_votes: the vote records stay.
clear_witness_votes_count(v, a) == [v EXCEPT !.witnesses_voted_for[a] = 0]

clear_witness_votes(v, a) ==
  [v EXCEPT !.witness_vote = {r \in @ : r[1] # a},
            !.witnesses_voted_for[a] = 0]

clear_streaming_platform_votes(v, a) ==
  [v EXCEPT !.platform_vote = {r \in @ : r[1] # a},
            !.streaming_platforms_voted_for[a] = 0]

\* Faulty variant of proxy_chain_ok: a itself is not in proxy_chain.
proxy_chain_ok_above(v, a, p) ==
  LET up == Ancestor(v.proxy, p)
      above == {up[d] : d \in 1 .. MaxDepth} \ {Self}
  IN  above # {} => 2 + Cardinality(above) <= MaxDepth

(* The loop over the proxies above a new proxy p of a: it throws when it   *)
(* meets an account again, and when it has seen more than MaxDepth accounts.   *)
(* From its second turn on it reads the chain through a pointer to a       *)
(* destroyed copy; the bytes of a short name are still there, and those of *)
(* a 16-character name are not, which get_account rejects: then the        *)
(* operation throws, as any operation may.                                 *)
proxy_chain_ok(v, a, p) ==
  LET up == Ancestor(v.proxy, p)
      above == {up[d] : d \in 1 .. MaxDepth} \ {Self}
  IN  /\ a \notin above
      /\ \A d, e \in 0 .. MaxDepth : d < e /\ up[e] # Self => up[d] # up[e]
      /\ above # {} => 2 + Cardinality(above) <= MaxDepth

-----------------------------------------------------------------------------
(* Operations                                                              *)

(* An account with a proxy can make the tally of a platform drift downward *)
(* without end; MaxShares bounds it.                                       *)
Accept(b, v) ==
  /\ b.ok
  /\ \A p \in Platforms : b.sp_votes[p] >= - MaxShares         \* bound
  /\ book' = b
  /\ ballots' = v

account_witness_vote(a, w, approve) ==
  LET weight == witness_vote_weight(book, a)
      exists == <<a, w>> \in ballots.witness_vote
  IN  /\ ballots.proxy[a] = Self
      /\ \/ /\ ~exists /\ approve
            /\ ballots.witnesses_voted_for[a] < MaxVotes
            /\ Accept(adjust_witness_vote(book, w, weight),
                      [ballots EXCEPT !.witness_vote = @ \cup {<<a, w>>},
                                      !.witnesses_voted_for[a] = @ + 1])
         \/ /\ exists /\ ~approve
            /\ Accept(adjust_witness_vote(book, w, - weight),
                      [ballots EXCEPT !.witness_vote = @ \ {<<a, w>>},
                                      !.witnesses_voted_for[a] = @ - 1])

(* Unlike a vote for a witness, it does not ask whether a has a proxy.     *)
account_streaming_platform_vote(a, p, approve) ==
  LET weight == witness_vote_weight(book, a)
      exists == <<a, p>> \in ballots.platform_vote
  IN  \/ /\ ~exists /\ approve
         /\ ballots.streaming_platforms_voted_for[a] < MaxVotes
         /\ Accept(adjust_streaming_platform_vote(book, p, weight),
                   [ballots EXCEPT !.platform_vote = @ \cup {<<a, p>>},
                                   !.streaming_platforms_voted_for[a] = @ + 1])
      \/ /\ exists /\ ~approve
         /\ Accept(adjust_streaming_platform_vote(book, p, - weight),
                   [ballots EXCEPT !.platform_vote = @ \ {<<a, p>>},
                                   !.streaming_platforms_voted_for[a] = @ - 1])

(* Set, change or clear the proxy of a: what a brings is taken out along   *)
(* the old chain and put in along the new one.                             *)
account_witness_proxy(a, p) ==
  LET delta == brought(book, a)
      taken == adjust_proxied_witness_votes(book, ballots, a, negated(delta))
      cleared == clear_streaming_platform_votes(clear_witness_votes(ballots, a), a)
      moved == [cleared EXCEPT !.proxy[a] = p]
  IN  /\ ballots.proxy[a] # p /\ p # a
      /\ \/ /\ p # Self
            /\ proxy_chain_ok(ballots, a, p)
            /\ Accept(adjust_proxied_witness_votes(taken, moved, a, delta), moved)
         \/ /\ p = Self
            /\ Accept(taken, [ballots EXCEPT !.proxy[a] = Self])

\* Faulty variant of create_vesting: the proxies of a are not told.
create_vesting_untold(a, n) ==
  /\ book.total + n <= MaxShares
  /\ Accept([book EXCEPT !.vesting[a] = @ + n, !.total = @ + n], ballots)

(* n new shares for a.                                                     *)
create_vesting(a, n) ==
  /\ book.total + n <= MaxShares
  /\ Accept(adjust_proxied_by_shares(
              [book EXCEPT !.vesting[a] = @ + n, !.total = @ + n],
              ballots, a, n),
            ballots)

Init ==
  /\ book = [vesting  |-> [a \in Accounts |-> 0],
             total    |-> 0,
             proxied  |-> [a \in Accounts |-> [d \in Levels |-> 0]],
             votes    |-> [w \in Witnesses |-> 0],
             sp_votes |-> [p \in Platforms |-> 0],
             ok       |-> TRUE]
  /\ ballots = [proxy         |-> [a \in Accounts |-> Self],
                witness_vote  |-> {},
                platform_vote |-> {},
                witnesses_voted_for           |-> [a \in Accounts |-> 0],
                streaming_platforms_voted_for |-> [a \in Accounts |-> 0]]

Next ==
  \/ \E a \in Accounts, w \in Witnesses, approve \in BOOLEAN :
       account_witness_vote(a, w, approve)
  \/ \E a \in Accounts, p \in Platforms, approve \in BOOLEAN :
       account_streaming_platform_vote(a, p, approve)
  \/ \E a \in Accounts, p \in Accounts \cup {Self} : account_witness_proxy(a, p)
  \/ \E a \in Accounts, n \in 1 .. MaxShares : create_vesting(a, n)

Spec == Init /\ [][Next]_vars

-----------------------------------------------------------------------------
(* Properties                                                              *)

(* Type invariant: counters that only move by differences stay in range,   *)
(* but for those of the platforms, which go below zero.                    *)
TypeOK == book \in Book /\ ballots \in Ballots

(* The shares d hops below a, added up from scratch.                       *)
SharesBelow(a, d) ==
  SumFunctionOnSet(book.vesting, {x \in Accounts : Ancestor(ballots.proxy, x)[d] = a})

(* The level counters of proxied_vsf_votes, which operations only ever     *)
(* move by differences along the chain of the moment, are the shares that  *)
(* many hops below, whatever chains were built, cut and rebuilt            *)
(* (database.cpp:1339-1393).                                               *)
ProxiedExact ==
  \A a \in Accounts, d \in Levels : book.proxied[a][d] = SharesBelow(a, d + 1)

(* A witness has the shares of exactly the accounts whose chain ends,      *)
(* within MaxDepth hops, at an account that voted for it: each once, none  *)
(* left behind by an account that changed proxy, shares or vote.           *)
WitnessVotesExact ==
  \A w \in Witnesses :
    book.votes[w] =
      SumFunction([a \in {a \in Accounts : <<a, w>> \in ballots.witness_vote} |->
                     SumFunction([d \in 0 .. MaxDepth |-> SharesBelow(a, d)])])

(* The votes validate_invariants counts: all that an account without proxy *)
(* casts, and what has come up MaxDepth hops to an account that has one.   *)
total_vsf_votes(b, v) ==
  SumFunction([a \in Accounts |-> IF v.proxy[a] = Self THEN witness_vote_weight(b, a)
                                  ELSE b.proxied[a][MaxDepth - 1]])

(* Every vesting share is counted once, as validate_invariants asserts     *)
(* (database.cpp:3310-3391): the total is the sum of the accounts' shares  *)
(* and the sum of the votes.                                               *)
EveryShareCountedOnce ==
  /\ book.total = SumFunction(book.vesting)
  /\ book.total = total_vsf_votes(book, ballots)

(* Chains of proxies have no loop: following them from any account ends.   *)
(* The check in the evaluator only looks upward from the new proxy, and    *)
(* only so far.                                                            *)
NoProxyLoop ==
  \A S \in (SUBSET Accounts) \ {{}} : \E a \in S : ballots.proxy[a] \notin S

(* The counters that limit how many an account votes for agree with the    *)
(* vote records, and an account with a proxy has no vote of its own for a  *)
(* witness.                                                                *)
VoteRecordsConsistent ==
  \A a \in Accounts :
    /\ ballots.witnesses_voted_for[a] =
         Cardinality({r \in ballots.witness_vote : r[1] = a})
    /\ ballots.streaming_platforms_voted_for[a] =
         Cardinality({r \in ballots.platform_vote : r[1] = a})
    /\ ballots.proxy[a] # Self => ~\E r \in ballots.witness_vote : r[1] = a

(* A platform has the weight of the accounts that vote for it: the total   *)
(* is updated "as a result of account VESTS changing" (database.hpp:286).  *)
PlatformVotesExact ==
  \A p \in Platforms :
    book.sp_votes[p] =
      SumFunction([a \in {a \in Accounts : <<a, p>> \in ballots.platform_vote} |->
                     witness_vote_weight(book, a)])
=============================================================================
