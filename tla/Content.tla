------------------------------- MODULE Content -------------------------------
(***************************************************************************)
(* Content, reports of what was played, and the rewards of a block         *)
(* (chain/muse_evaluator.cpp, database.cpp).                               *)
(*                                                                         *)
(* A voted platform reports how long a consumer has listened to a content. *)
(* A day later the report is cashed: a share of the block's reward for     *)
(* content goes to the platform, to the payees of the master side and to   *)
(* those of the composition, or is kept with the content as long as a side *)
(* has no payees.  The reward is created in full first, and what was not   *)
(* paid is taken back from the supply afterwards.                          *)
(*                                                                         *)
(* A block takes one unit of time.  The arithmetic is exact: the products  *)
(* of the program throw when they leave 64 bits.  Conversions are in       *)
(* Market, withdrawals in Vesting; the votes of platforms are in Voting,   *)
(* and any platform may be a voted one here.                               *)
(***************************************************************************)
EXTENDS PriceArithmetic, Sequences, FiniteSets, FiniteSetsExt, SequencesExt, TLC

CONSTANTS Accounts,
          Platforms,      \* accounts that own a streaming platform
          Witnesses,      \* accounts that produce blocks
          Contents,       \* urls
          Distributions,  \* sequences of payees and their base points
          Splits,         \* values of playing_reward and publishers_share
          PlayTimes,      \* lengths of plays that are reported
          FeedPrices,     \* medians the price feed may come to
          Day,            \* how long a report waits
          MaxListening,   \* what one account may have reported at a time: 86400
          MaxCounted,     \* MUSE_MAX_LISTENING_PERIOD
          Rates,          \* of the rewards, before and since hardfork 0.2
          RateBase,
          MinReward,      \* MUSE_MINING_REWARD
          StartBlock,     \* MUSE_START_VESTING_BLOCK, MUSE_START_MINER_VOTING_BLOCK
          InitialFunds,   \* MUSE each account starts with
          MaxReports,     \* bound: reports that wait
          MaxBlocks       \* bound

Full == 10000             \* base points
Sides == {"master", "comp"}

ASSUME ContentAssumption ==
  /\ Platforms \subseteq Accounts /\ Witnesses \subseteq Accounts
  /\ Splits \subseteq 0 .. Full - 1
  /\ PlayTimes \subseteq Nat \ {0}
  /\ FeedPrices \subseteq Price
  /\ {Day, MaxListening, MaxCounted, RateBase} \subseteq Nat \ {0}
  /\ Rates \in [BOOLEAN -> [content : Nat, producer : Nat, vesting : Nat]]
  /\ {MinReward, StartBlock, InitialFunds, MaxReports, MaxBlocks} \subseteq Nat
  /\ \A d \in Distributions : \A i \in DOMAIN d : d[i].payee \in Accounts /\ d[i].bp \in Nat

VARIABLES now,       \* the number and time of the head block
          hardfork,  \* has_hardfork(MUSE_HARDFORK_0_2)
          feed,      \* current_median_history
          content,   \* content_objects by url
          reports,   \* report_objects, by_created
          listened,  \* total_listening_time of each account
          purse,     \* MUSE, MBD and vesting shares of each account
          funds,     \* dynamic_global_properties: supplies and funds
          cashed     \* history: the last block's reward for content and payments

vars == <<now, hardfork, feed, content, reports, listened, purse, funds, cashed>>

Work == [distributions : [Sides -> Distributions \cup {<<>>}],
         accumulated : [Sides -> Nat],
         playing_reward : 0 .. Full - 1,
         publishers_share : 0 .. Full - 1,
         two_sides : BOOLEAN,
         disabled : BOOLEAN,
         times_played_24 : Nat]

Report == [consumer : Accounts, content : Contents, platform : Platforms,
           created : Nat, play_time : PlayTimes]

SumOf(s, f(_)) == FoldSeq(LAMBDA r, n : n + f(r), 0, s)

-----------------------------------------------------------------------------
(* Payments.  A handler works on a record of the variables.                *)

Node == [hardfork |-> hardfork, feed |-> feed, content |-> content,
         reports |-> reports, listened |-> listened, purse |-> purse, funds |-> funds]

adjust_supply_muse(s, delta) ==
  [s EXCEPT !.funds.muse = @ + delta, !.funds.virtual = @ + delta]

adjust_supply_mbd(s, delta) ==
  [s EXCEPT !.funds.mbd = @ + delta,
            !.funds.virtual = in_muse(s.funds.mbd + delta, s.feed) + s.funds.muse]

create_mbd(s, a, muse) ==
  IF s.feed = NoPrice
  THEN [s EXCEPT !.purse[a].muse = @ + muse]
  ELSE LET mbd == in_quote(muse, s.feed)
       IN  [adjust_supply_mbd(adjust_supply_muse(s, - muse), mbd)
              EXCEPT !.purse[a].mbd = @ + mbd]

(* muse * get_vesting_share_price()                                        *)
new_vesting(f, muse) ==
  IF f.vesting_fund = 0 \/ f.vesting_shares = 0 THEN muse * 1000
  ELSE (muse * f.vesting_shares) \div f.vesting_fund

create_vesting(s, a, muse) ==
  LET vests == new_vesting(s.funds, muse)
  IN  [s EXCEPT !.purse[a].vests = @ + vests,
                !.funds.vesting_fund = @ + muse,
                !.funds.vesting_shares = @ + vests]

part(amount, bp) == (amount * bp) \div Full

(* pay_to_content_master and pay_to_content_comp                           *)
to_be_paid(s, c, side, payout) ==
  payout + (IF s.hardfork THEN s.content[c].accumulated[side] ELSE 0)

(* What rounding leaves stays with the content; before the hardfork it is  *)
(* added to what had been accumulated, which is not paid out.              *)
left_over(s, c, side, payout) ==
  (IF s.hardfork THEN 0 ELSE s.content[c].accumulated[side])
  + to_be_paid(s, c, side, payout)
  - SumOf(s.content[c].distributions[side],
          LAMBDA d : part(to_be_paid(s, c, side, payout), d.bp))

pay_to_content_side(s, c, side, payout) ==
  IF s.content[c].distributions[side] = <<>>
  THEN [s EXCEPT !.content[c].accumulated[side] = @ + payout]
  ELSE [FoldLeft(LAMBDA acc, d :
                   create_mbd(acc, d.payee, part(to_be_paid(s, c, side, payout), d.bp)),
                 s, s.content[c].distributions[side])
          EXCEPT !.content[c].accumulated[side] = left_over(s, c, side, payout)]

pay_to_platform(s, p, payout) == create_vesting(s, p, payout)

(* Before the hardfork a tenth was withheld for curators.                  *)
shared_out(s, payout) == IF s.hardfork THEN payout ELSE payout - (payout * 10) \div 100

pay_to_content(s, c, payout, p) ==
  LET platform_reward == part(payout, s.content[c].playing_reward)
      comp_reward == part(payout - platform_reward, s.content[c].publishers_share)
      master_reward == payout - platform_reward - comp_reward
      master_paid == pay_to_content_side(s, c, "master", master_reward)
      sides_paid == pay_to_content_side(master_paid, c, "comp", comp_reward)
  IN  [pay_to_platform(sides_paid, p, platform_reward)
         EXCEPT !.content[c].times_played_24 = @ - 1]

-----------------------------------------------------------------------------
(* Cashout                                                                 *)

Capped(t) == IF t < MaxCounted THEN t ELSE MaxCounted

consumers(s) == {r.consumer : r \in ToSet(s.reports)}

full_time(s) == MapThenSumSet(LAMBDA a : Capped(s.listened[a]), consumers(s))

\* Faulty variant: the time of the consumer is not capped as in full_time.
pay_reserve_uncapped(s, start, total_payout, r) ==
  IF s.hardfork
  THEN ((total_payout * r.play_time * s.listened[r.consumer]) \div full_time(start))
         \div s.listened[r.consumer]
  ELSE ((total_payout * r.play_time) \div Cardinality(consumers(start)))
         \div s.listened[r.consumer]

(* A consumer's part of the reward, by the share of r in what the consumer *)
(* has listened to.                                                        *)
pay_reserve(s, start, total_payout, r) ==
  IF s.hardfork
  THEN ((total_payout * r.play_time * Capped(s.listened[r.consumer])) \div full_time(start))
         \div s.listened[r.consumer]
  ELSE ((total_payout * r.play_time) \div Cardinality(consumers(start)))
         \div s.listened[r.consumer]

(* One turn of the loop over the reports that are a day old.  Before the   *)
(* hardfork each report left the consumer's listening time at once.        *)
cash_report(s, start, total_payout, r) ==
  LET payout == shared_out(s, pay_reserve(s, start, total_payout, r))
      paid == pay_to_content([s EXCEPT !.reports = Tail(@)], r.content, payout, r.platform)
  IN  [paid EXCEPT !.paid = @ + payout,
                   !.listened[r.consumer] = IF s.hardfork THEN @ ELSE @ - r.play_time]

\* Faulty variant: only one report of each consumer leaves the listening time.
forget_listened_once(s, due) ==
  [s EXCEPT !.listened =
     [a \in Accounts |->
        IF s.hardfork /\ \E r \in ToSet(due) : r.consumer = a
        THEN @[a] - (CHOOSE r \in ToSet(due) : r.consumer = a).play_time ELSE @[a]]]

(* Since the hardfork the listening times change after the loop.           *)
forget_listened(s, due) ==
  [s EXCEPT !.listened =
     [a \in Accounts |->
        IF s.hardfork
        THEN @[a] - SumOf(due, LAMBDA r : IF r.consumer = a THEN r.play_time ELSE 0)
        ELSE @[a]]]

percent_reward(rate, supply) == (supply * rate + RateBase \div 2) \div RateBase

AtLeast(min, n) == IF n < min THEN min ELSE n

get_content_reward(s) ==
  AtLeast(MinReward, percent_reward(Rates[s.hardfork].content, s.funds.virtual))

process_content_cashout(s, content_reward, cashing_time) ==
  LET total_payout == IF s.hardfork THEN content_reward ELSE get_content_reward(s)
      due == SelectSeq(s.reports, LAMBDA r : r.created <= cashing_time)
      start == [s EXCEPT !.paid = 0]
  IN  forget_listened(
        FoldLeft(LAMBDA acc, r : cash_report(acc, start, total_payout, r), start, due), due)

-----------------------------------------------------------------------------
(* The end of a block                                                      *)

get_producer_reward(s) ==
  AtLeast(MinReward, percent_reward(Rates[s.hardfork].producer, s.funds.virtual))

pay_producer(s, w, n) ==
  IF n >= StartBlock \/ s.purse[w].vests = 0
  THEN create_vesting(s, w, get_producer_reward(s))
  ELSE [s EXCEPT !.purse[w].muse = @ + get_producer_reward(s)]

get_vesting_reward(s, n) ==
  IF n < StartBlock THEN 0 ELSE percent_reward(Rates[s.hardfork].vesting, s.funds.virtual)

process_funds(s, content_reward, witness_pay, vesting_reward) ==
  [adjust_supply_muse(s, content_reward + witness_pay + vesting_reward)
     EXCEPT !.funds.vesting_fund = @ + vesting_reward,
            !.funds.reward_fund = @ + content_reward]

\* Faulty variant: what is taken back is not remembered for the hardfork.
adjust_funds_forgetful(s, content_reward) ==
  LET delta == (IF s.hardfork THEN content_reward ELSE get_content_reward(s)) - s.paid
  IN  [adjust_supply_muse(s, - delta) EXCEPT !.funds.reward_fund = @ - delta]

(* What was not paid is taken back; before the hardfork another amount,    *)
(* computed anew, and supply_delta keeps the difference.                   *)
adjust_funds(s, content_reward) ==
  LET delta == (IF s.hardfork THEN content_reward ELSE get_content_reward(s)) - s.paid
      true_delta == content_reward - s.paid
  IN  [adjust_supply_muse(s, - delta)
         EXCEPT !.funds.reward_fund = @ - delta,
                !.funds.supply_delta = @ + delta - true_delta]

apply_hardfork(s) ==
  [adjust_supply_muse(s, s.funds.supply_delta)
     EXCEPT !.funds.supply_delta = 0, !.hardfork = TRUE]

Revalue(s) == [s EXCEPT !.funds = update_virtual_supply(@, s.feed)]

(* Everything _apply_block does to the rewards after the transactions.     *)
after_block(s, w, n) ==
  LET valued == Revalue(s)
      content_reward == get_content_reward(valued)
      funded == process_funds(pay_producer(valued, w, n), content_reward,
                              get_producer_reward(valued), get_vesting_reward(valued, n))
      paid == process_content_cashout(funded, content_reward, n - Day)
  IN  Revalue(adjust_funds([paid EXCEPT !.reward = content_reward], content_reward))

Become(s) ==
  /\ hardfork' = s.hardfork
  /\ feed' = s.feed
  /\ content' = s.content
  /\ reports' = s.reports
  /\ listened' = s.listened
  /\ purse' = s.purse
  /\ funds' = s.funds

EndBlock(w, p, upgrade) ==
  /\ now < MaxBlocks
  /\ now' = now + 1
  /\ p = NoPrice => feed = NoPrice
  /\ \E s \in {after_block([feed |-> p, reward |-> 0, paid |-> 0] @@ Node, w, now + 1)} :
       /\ Become(IF upgrade /\ ~hardfork THEN apply_hardfork(s) ELSE s)
       /\ cashed' = [reward |-> s.reward, paid |-> s.paid, capped |-> hardfork]

-----------------------------------------------------------------------------
(* Operations                                                              *)

Sums(d) == SumOf(d, LAMBDA x : x.bp)

content_create(c, master, comp, playing_reward, publishers_share, two_sides) ==
  /\ c \notin DOMAIN content
  /\ Sums(master) \in {0, Full} /\ (two_sides => Sums(comp) \in {0, Full})
  /\ content' = content @@ c :>
       [distributions |-> [master |-> master, comp |-> IF two_sides THEN comp ELSE <<>>],
        accumulated |-> [side \in Sides |-> 0],
        playing_reward |-> IF hardfork THEN playing_reward ELSE 1000,
        publishers_share |-> IF ~hardfork THEN 5000
                             ELSE IF two_sides THEN publishers_share ELSE 0,
        two_sides |-> two_sides,
        disabled |-> FALSE,
        times_played_24 |-> 0]
  /\ UNCHANGED <<now, hardfork, feed, reports, listened, purse, funds, cashed>>

Given(new, old) == IF hardfork /\ new = 0 THEN old ELSE new

content_update(c, side, d, playing_reward, publishers_share) ==
  /\ c \in DOMAIN content
  /\ ~content[c].disabled
  /\ side = "master" \/ content[c].two_sides = hardfork
  /\ d # <<>> => Sums(d) = Full
  /\ LET updated == [Node EXCEPT
           !.content[c].distributions[side] = IF d = <<>> THEN @ ELSE d,
           !.content[c].playing_reward = Given(playing_reward, @),
           !.content[c].publishers_share = Given(publishers_share, @)]
     IN  Become(IF d # <<>> /\ content[c].accumulated[side] > 0
                THEN pay_to_content_side(updated, c, side, 0) ELSE updated)
  /\ UNCHANGED <<now, cashed>>

content_disable(c) ==
  /\ c \in DOMAIN content
  /\ ~content[c].disabled
  /\ content' = [content EXCEPT ![c].disabled = TRUE]
  /\ UNCHANGED <<now, hardfork, feed, reports, listened, purse, funds, cashed>>

streaming_platform_report(p, a, c, t) ==
  /\ t + listened[a] <= MaxListening
  /\ c \in DOMAIN content
  /\ ~content[c].disabled
  /\ Len(reports) < MaxReports
  /\ reports' = Append(reports, [consumer |-> a, content |-> c, platform |-> p,
                                 created |-> now, play_time |-> t])
  /\ listened' = [listened EXCEPT ![a] = @ + t]
  /\ content' = [content EXCEPT ![c].times_played_24 = @ + 1]
  /\ UNCHANGED <<now, hardfork, feed, purse, funds, cashed>>

Init ==
  /\ now = 0
  /\ hardfork = FALSE
  /\ feed = NoPrice
  /\ content = <<>>
  /\ reports = <<>>
  /\ listened = [a \in Accounts |-> 0]
  /\ purse = [a \in Accounts |-> [muse |-> InitialFunds, mbd |-> 0, vests |-> 0]]
  /\ funds = [muse |-> InitialFunds * Cardinality(Accounts), mbd |-> 0,
              virtual |-> InitialFunds * Cardinality(Accounts), vesting_fund |-> 0,
              vesting_shares |-> 0, reward_fund |-> 0, supply_delta |-> 0]
  /\ cashed = [reward |-> 0, paid |-> 0, capped |-> FALSE]

Next ==
  \/ \E c \in Contents, master, comp \in Distributions \cup {<<>>},
        playing_reward, publishers_share \in Splits, two_sides \in BOOLEAN :
       content_create(c, master, comp, playing_reward, publishers_share, two_sides)
  \/ \E c \in Contents, side \in Sides, d \in Distributions \cup {<<>>},
        playing_reward, publishers_share \in Splits :
       content_update(c, side, d, playing_reward, publishers_share)
  \/ \E c \in Contents : content_disable(c)
  \/ \E p \in Platforms, a \in Accounts, c \in Contents, t \in PlayTimes :
       streaming_platform_report(p, a, c, t)
  \/ \E w \in Witnesses, p \in FeedPrices \cup {feed}, upgrade \in BOOLEAN :
       EndBlock(w, p, upgrade)

Spec == Init /\ [][Next]_vars

-----------------------------------------------------------------------------

(* The supply is what exists: after any mixture of reports, cashouts in    *)
(* MUSE or MBD, rounding, changes of payees and the hardfork, the accounts,*)
(* the vesting fund and the contents hold exactly current_supply, once     *)
(* corrected by supply_delta (validate_invariants, database.cpp:3308-3395, *)
(* which looks only since the hardfork).                                   *)
FundsExact ==
  /\ funds.muse + funds.supply_delta
       = MapThenSumSet(LAMBDA a : purse[a].muse, Accounts)
         + MapThenSumSet(LAMBDA c : content[c].accumulated["master"]
                                    + content[c].accumulated["comp"], DOMAIN content)
         + funds.vesting_fund
  /\ funds.mbd = MapThenSumSet(LAMBDA a : purse[a].mbd, Accounts)
  /\ funds.vesting_shares = MapThenSumSet(LAMBDA a : purse[a].vests, Accounts)
  /\ hardfork => funds.supply_delta = 0

(* The listening time of an account is that of its reports that still      *)
(* wait, and a content counts them as plays: otherwise a cashout would     *)
(* divide by zero, or fail the assertion at database.cpp:1651 and with it  *)
(* the block.                                                              *)
ListeningExact ==
  /\ \A a \in Accounts :
       listened[a] = SumOf(reports, LAMBDA r : IF r.consumer = a THEN r.play_time ELSE 0)
  /\ \A c \in DOMAIN content :
       content[c].times_played_24
         = SumOf(reports, LAMBDA r : IF r.content = c THEN 1 ELSE 0)

(* Since the hardfork no block pays more for content than it has created   *)
(* for it, however the due and the waiting reports of the consumers are    *)
(* mixed (process_content_cashout, database.cpp:1624-1682; adjust_funds    *)
(* would otherwise take a negative amount back).                           *)
WithinReward == cashed.capped => cashed.paid <= cashed.reward

=============================================================================
