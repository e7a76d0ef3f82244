------------------------------- MODULE Market -------------------------------
(***************************************************************************)
(* The market between MUSE and MBD, conversions and the supply             *)
(* (chain/base_evaluator.cpp, database.cpp).                               *)
(*                                                                         *)
(* An order sells an amount of one asset at a price, a fraction of amounts *)
(* of both.  What is for sale has left the seller's balance.  A new order  *)
(* is matched with the best standing orders at their prices; amounts are   *)
(* rounded down, and a rest too small to be worth one unit is refunded.    *)
(* MBD can be converted into MUSE at the median price of the feed, which   *)
(* changes the supply of both.                                             *)
(*                                                                         *)
(* Times are left out: any order may expire and any conversion come due    *)
(* at the end of a block.  The interest rate of MBD is 0.                  *)
(***************************************************************************)
EXTENDS PriceArithmetic, Sequences, FiniteSets, FiniteSetsExt, SequencesExt

CONSTANTS Accounts,
          InitialBalance,  \* what each account has of each asset
          Prices,          \* prices of orders
          FeedPrices,      \* medians the price feed may come to
          SellAmounts,     \* amounts put up for sale or converted
          MaxOrders,       \* bound: standing orders
          MaxRequests      \* bound: conversions under way

MUSE == "MUSE"
MBD == "MBD"
Assets == {MUSE, MBD}

ASSUME MarketAssumption ==
  /\ InitialBalance \in [Accounts -> [Assets -> Nat]]
  /\ SellAmounts \subseteq Nat \ {0}
  /\ Prices \subseteq Price /\ FeedPrices \subseteq Price
  /\ MaxOrders \in Nat /\ MaxRequests \in Nat
  /\ IsFiniteSet(Accounts)

VARIABLES balance,    \* per account and asset
          orders,     \* limit_order_objects in the order of their ids
          requests,   \* convert_request_objects
          feed,       \* current_median_history: MBD per MUSE
          supply,     \* current_supply, current_mbd_supply, virtual_supply
          fair        \* history: every fill so far was worth it to both sides

vars == <<balance, orders, requests, feed, supply, fair>>

Other(asset) == IF asset = MUSE THEN MBD ELSE MUSE

(* The base of sell_price is an amount of the asset that is sold.          *)
Order == [seller : Accounts, sells : Assets, for_sale : Nat \ {0}, sell_price : Price]

Request == [owner : Accounts, amount : Nat \ {0}]

amount_to_receive(o) == in_quote(o.for_sale, o.sell_price)

-----------------------------------------------------------------------------
(* Orders                                                                  *)

(* A handler works on a record of the balances, the orders, and whether    *)
(* the fills were fair.  An order that has been removed has nothing for    *)
(* sale; it is dropped when the handler is done.                           *)
adjust_balance(m, a, asset, delta) == [m EXCEPT !.balance[a][asset] = @ + delta]

cancel_order(m, i) ==
  [adjust_balance(m, m.orders[i].seller, m.orders[i].sells, m.orders[i].for_sale)
     EXCEPT !.orders[i].for_sale = 0]

\* Faulty variant: dust stays in the book.
cull_never(m, i) == m

(* What is left is too small to be sold at the sale price.                 *)
cull(m, i) == IF amount_to_receive(m.orders[i]) = 0 THEN cancel_order(m, i) ELSE m

fill_order(m, i, pays, receives) ==
  LET o == m.orders[i]
      paid == [adjust_balance(m, o.seller, Other(o.sells), receives)
                 EXCEPT !.orders[i].for_sale = @ - pays,
                        !.fair = @ /\ receives > 0
                                   /\ receives >= in_quote(pays, o.sell_price)]
  IN  IF pays = o.for_sale THEN paid ELSE cull(paid, i)

(* The amount of the old order's asset that changes hands, and what is     *)
(* paid for it: all of one of the two orders, at the price of the old one. *)
new_order_receives(new, old) ==
  IF new.for_sale <= in_quote(old.for_sale, old.sell_price)
  THEN in_base(new.for_sale, old.sell_price)
  ELSE old.for_sale

old_order_receives(new, old) ==
  IF new.for_sale <= in_quote(old.for_sale, old.sell_price)
  THEN new.for_sale
  ELSE in_quote(old.for_sale, old.sell_price)

(* The standing orders that accept the price of the new one.               *)
Accepts(old, new) ==
  /\ old.sells = Other(new.sells)
  /\ old.sell_price.base * new.sell_price.base
       >= new.sell_price.quote * old.sell_price.quote

(* by_price: the better price first, then the older order.                 *)
Better(p, q) == p.base * q.quote > q.base * p.quote

match(m, n, i) ==
  LET to_new == new_order_receives(m.orders[n], m.orders[i])
      to_old == old_order_receives(m.orders[n], m.orders[i])
      best == \A j \in 1 .. n - 1 :
                m.orders[j].for_sale > 0 /\ m.orders[j].sells = m.orders[i].sells
                  => ~Better(m.orders[j].sell_price, m.orders[i].sell_price)
      filled == fill_order(fill_order(m, n, to_old, to_new), i, to_new, to_old)
  IN  [filled EXCEPT !.fair = @ /\ best]

\* Faulty variant: oldest first whatever the price.
MatchedBefore_age(os, i, j) == i < j

MatchedBefore(os, i, j) ==
  \/ Better(os[i].sell_price, os[j].sell_price)
  \/ ~Better(os[j].sell_price, os[i].sell_price) /\ i < j

Candidates(os, n) == {i \in 1 .. n - 1 : Accepts(os[i], os[n])}

ByPrice(os, ids) ==
  CHOOSE q \in SetToSeqs(ids) :
    \A k, l \in DOMAIN q : k < l => MatchedBefore(os, q[k], q[l])

(* The loop ends when the new order, the last one, is filled.              *)
match_next(m, n, i) == IF m.orders[n].for_sale = 0 THEN m ELSE match(m, n, i)

apply_order(m) ==
  FoldLeft(LAMBDA acc, i : match_next(acc, Len(m.orders), i), m,
           ByPrice(m.orders, Candidates(m.orders, Len(m.orders))))

(* The orders that have something left to sell.                            *)
Keep(os, o) == IF o.for_sale > 0 THEN Append(os, o) ELSE os

Standing(os) == FoldLeft(LAMBDA acc, o : Keep(acc, o), <<>>, os)

Market == [balance |-> balance, orders |-> orders, fair |-> fair]

Become(m) ==
  /\ balance' = m.balance
  /\ orders' = Standing(m.orders)
  /\ fair' = m.fair

Affords(a, asset, amount) == balance[a][asset] >= amount

(* limit_order_create_evaluator and limit_order_create2_evaluator, which   *)
(* take the price from two amounts or as it is.                            *)
limit_order_create(a, asset, amount, p, fill_or_kill) ==
  LET order == [seller |-> a, sells |-> asset, for_sale |-> amount, sell_price |-> p]
      m == adjust_balance([Market EXCEPT !.orders = Append(@, order)], a, asset, - amount)
  IN  /\ amount_to_receive(order) > 0                    \* validate
      /\ Affords(a, asset, amount)
      /\ \E after \in {apply_order(m)} :
           /\ fill_or_kill => after.orders[Len(m.orders)].for_sale = 0
           /\ Len(Standing(after.orders)) <= MaxOrders
           /\ Become(after)
      /\ UNCHANGED <<requests, feed, supply>>

limit_order_cancel(i) ==
  /\ i \in DOMAIN orders
  /\ Become(cancel_order(Market, i))
  /\ UNCHANGED <<requests, feed, supply>>

-----------------------------------------------------------------------------
(* Conversions and the end of a block                                      *)

convert(a, amount) ==
  /\ Affords(a, MBD, amount)
  /\ feed # NoPrice
  /\ Len(requests) < MaxRequests
  /\ balance' = [balance EXCEPT ![a][MBD] = @ - amount]
  /\ requests' = Append(requests, [owner |-> a, amount |-> amount])
  /\ UNCHANGED <<orders, feed, supply, fair>>

clear_expired_orders(m, expired) ==
  FoldLeft(LAMBDA acc, i : cancel_order(acc, i), m, SetToSeq(expired))

converted(due) == SumFunctionOnSet([i \in DOMAIN due |-> due[i].amount], DOMAIN due)

\* Faulty variant of issued: converts the sum instead of summing what was paid.
issued_rounded(due, p) == in_muse(converted(due), p)

issued(due, p) ==
  SumFunctionOnSet([i \in DOMAIN due |-> in_muse(due[i].amount, p)], DOMAIN due)

pay_conversion(m, r, p) == adjust_balance(m, r.owner, MUSE, in_muse(r.amount, p))

pay_conversions(m, due, p) ==
  FoldLeft(LAMBDA acc, r : pay_conversion(acc, r, p), m, due)

process_conversions(s, due, p) ==
  [muse |-> s.muse + issued(due, p),
   mbd |-> s.mbd - converted(due),
   virtual |-> s.virtual + issued(due, p) - in_muse(converted(due), p)]

(* What _apply_block does to the market after the transactions: the orders *)
(* in `expired' have reached their expiration, the feed has come to p, and *)
(* the n oldest conversions are due (all wait equally long).  Without a    *)
(* price no conversion is processed.                                       *)
EndBlock(expired, p, n) ==
  LET due == SubSeq(requests, 1, n)
  IN  /\ p = NoPrice => feed = NoPrice /\ n = 0
      /\ Become(pay_conversions(clear_expired_orders(Market, expired), due, p))
      /\ requests' = SubSeq(requests, n + 1, Len(requests))
      /\ feed' = p
      /\ supply' = update_virtual_supply(
                     process_conversions(update_virtual_supply(supply, p), due, p), p)

InitialSupply(asset) ==
  SumFunctionOnSet([a \in Accounts |-> InitialBalance[a][asset]], Accounts)

Init ==
  /\ balance = InitialBalance
  /\ orders = <<>>
  /\ requests = <<>>
  /\ feed = NoPrice
  /\ supply = [muse |-> InitialSupply(MUSE), mbd |-> InitialSupply(MBD),
               virtual |-> InitialSupply(MUSE)]
  /\ fair = TRUE

Next ==
  \/ \E a \in Accounts, asset \in Assets, amount \in SellAmounts, p \in Prices,
        fill_or_kill \in BOOLEAN :
       limit_order_create(a, asset, amount, p, fill_or_kill)
  \/ \E i \in DOMAIN orders : limit_order_cancel(i)
  \/ \E a \in Accounts, amount \in SellAmounts : convert(a, amount)
  \/ \E expired \in SUBSET DOMAIN orders, p \in FeedPrices \cup {feed},
        n \in 0 .. Len(requests) :
       EndBlock(expired, p, n)

Spec == Init /\ [][Next]_vars

-----------------------------------------------------------------------------

(* The state has its type; in particular no balance is ever negative       *)
(* (adjust_balance does not check, database.cpp:3060).                     *)
TypeOK ==
  /\ balance \in [Accounts -> [Assets -> Nat]]
  /\ orders \in Seq(Order)
  /\ requests \in Seq(Request)
  /\ feed \in FeedPrices \cup {NoPrice}
  /\ supply \in [muse : Nat, mbd : Nat, virtual : Nat]
  /\ fair \in BOOLEAN

(* What the accounts, the orders and the conversions hold of an asset.     *)
Held(asset) ==
  SumFunctionOnSet([a \in Accounts |-> balance[a][asset]], Accounts)
  + SumFunctionOnSet([i \in DOMAIN orders |-> IF orders[i].sells = asset
                                              THEN orders[i].for_sale ELSE 0], DOMAIN orders)
  + (IF asset = MBD THEN converted(requests) ELSE 0)

(* No matching, rounding, refund or conversion creates or destroys a unit  *)
(* of either asset that the supply does not account for                    *)
(* (validate_invariants, database.cpp:3308-3395).                          *)
SupplyExact ==
  /\ supply.muse = Held(MUSE)
  /\ supply.mbd = Held(MBD)
  /\ supply.virtual = supply.muse + in_muse(supply.mbd, feed)

(* After every handler no two standing orders could trade with each other, *)
(* and none is left that would be sold for nothing, although a new order   *)
(* is only matched until it is filled and what rounding leaves of an order *)
(* may be refunded on either side (apply_order, database.cpp:2900-3003).   *)
BookClean ==
  \A i \in DOMAIN orders :
    /\ amount_to_receive(orders[i]) > 0
    /\ \A j \in DOMAIN orders : ~Accepts(orders[i], orders[j])

(* Every fill gave its seller something, no less than the order's own      *)
(* price promised for what was sold, and went to the best of the orders    *)
(* that stood (match and fill_order, database.cpp:2922-3003).              *)
FairFills == fair

=============================================================================
