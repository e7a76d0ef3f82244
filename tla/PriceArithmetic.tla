-------------------------- MODULE PriceArithmetic --------------------------
(***************************************************************************)
(* Prices and the rounding of amounts (chain/protocol/asset.cpp).  A price *)
(* is a fraction of amounts of two assets; the price of the feed has MUSE  *)
(* as its base and MBD as its quote.                                       *)
(***************************************************************************)
EXTENDS Integers

Price == [base : Nat \ {0}, quote : Nat \ {0}]
NoPrice == [base |-> 0, quote |-> 0]

(* asset * price, in either direction                                      *)
in_quote(amount, p) == (amount * p.quote) \div p.base
in_base(amount, p) == (amount * p.base) \div p.quote

(* The worth of an amount of MBD by the feed                               *)
in_muse(amount, p) == IF p = NoPrice THEN 0 ELSE in_base(amount, p)

(* current_supply and what the MBD are worth                               *)
update_virtual_supply(s, p) == [s EXCEPT !.virtual = s.muse + in_muse(s.mbd, p)]
=============================================================================
