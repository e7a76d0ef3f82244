--------------------------- MODULE Market_proofs ---------------------------
(***************************************************************************)
(* Proofs about Market, for any finite set of accounts, any prices and any *)
(* number of orders and conversions.                                       *)
(*                                                                         *)
(* A match exchanges all of one of two orders, no more than either has and *)
(* no less than either asks for (MatchAmounts), so a fill changes no total *)
(* (MatchTrades).  The loop of apply_order goes through the candidates     *)
(* from the best price on, and while the new order has something left all  *)
(* that it has met are empty (UpTo): no better order stands aside, and     *)
(* none that accepts the new price is left when it stays in the book.      *)
(***************************************************************************)
EXTENDS Market, FoldTheorems, SequenceTheorems

-----------------------------------------------------------------------------
(* Loops                                                                   *)

(* The new order n is matched with the orders of q.                        *)
MatchAll(n, s, q) == FoldLeft(LAMBDA a, x : match_next(a, n, x), s, q)

(* The states that matching a new order leads through.                     *)
MatchRun(p, n, s, q, B) ==
  /\ p \in [0 .. Len(q) -> B] /\ p[0] = s
  /\ \A i \in 1 .. Len(q) : p[i] = match_next(p[i - 1], n, q[i])

(* The loop of apply_order.                                                *)
LEMMA MatchFold ==
  ASSUME NEW n, NEW B, NEW s \in B, NEW E, NEW q \in Seq(E),
         \A a \in B, x \in E : match_next(a, n, x) \in B
  PROVE  \E p : MatchRun(p, n, s, q, B)
               /\ p[Len(q)] = MatchAll(n, s, q)
<1> DEFINE N == Len(q)
           D == 1 .. N
           F == [i \in D |-> [a \in B |-> match_next(a, n, q[i])]]
           Folds(g) == g = [t \in SUBSET D |-> IF t = {} THEN s ELSE match_next(g[t \ {Max(t)}], n, q[Max(t)])]
<1>1. N \in Nat /\ DOMAIN q = D /\ \A i \in D : q[i] \in E
  OBVIOUS
<1>2. F \in [D -> [B -> B]]
  BY <1>1
<1> HIDE DEF N
<1>3. PICK g : LeftFold(g, F, s, N, B)
  <2> HIDE DEF F
  <2> QED BY <1>1, <1>2, LeftFoldExists, Zenon
<1>4. g \in [SUBSET D -> B] /\ g[{}] = s
  BY <1>3 DEF LeftFold
<1>5. ASSUME NEW t \in SUBSET D, t # {}
      PROVE  Max(t) \in t /\ g[t] = match_next(g[t \ {Max(t)}], n, q[Max(t)])
  <2>1. Max(t) \in t /\ g[t] = F[Max(t)][g[t \ {Max(t)}]]
    BY <1>3, <1>5 DEF LeftFold
  <2>2. g[t \ {Max(t)}] \in B /\ Max(t) \in D
    BY <1>4, <2>1
  <2> QED
    BY <2>1, <2>2
<1> HIDE DEF F, D
<1> DEFINE h == CHOOSE h : Folds(h)
<1>6. Folds([t \in SUBSET D |-> g[t]])
  BY <1>4, <1>5
<1>7. Folds(h)
  BY <1>6
<1>8. MatchAll(n, s, q) = h[D]
  BY <1>1 DEF MatchAll, FoldLeft, MapThenFoldSet
<1> HIDE DEF h
<1>9. LeftFolds(h, F, s, N, B)
  <2>1. h[{}] = s
    BY <1>7
  <2>2. ASSUME NEW t \in SUBSET D, t # {}, h[t \ {Max(t)}] \in B
        PROVE  h[t] = F[Max(t)][h[t \ {Max(t)}]]
    <3>1. Max(t) \in D
      BY <1>5, <2>2
    <3>2. h[t] = match_next(h[t \ {Max(t)}], n, q[Max(t)])
      BY <1>7, <2>2
    <3> QED
      BY <2>2, <3>1, <3>2 DEF F
  <2> QED
    BY <2>1, <2>2 DEF LeftFolds, D
<1>10. PICK p : Runs(p, F, s, N, B) /\ p[N] = h[1 .. N]
  <2>1. F \in [1 .. N -> [B -> B]] /\ N \in Nat
    BY <1>1, <1>2 DEF D
  <2> HIDE DEF D
  <2> QED BY ONLY <1>9, <2>1, FoldChain, s \in B
<1>11. \A i \in 1 .. N : p[i] = match_next(p[i - 1], n, q[i])
  <2>1. \A i \in 1 .. N : i - 1 \in 0 .. N
    BY <1>1
  <2>2. \A i \in 1 .. N : p[i - 1] \in B
    BY <1>10, <2>1 DEF Runs
  <2> QED
    BY <1>10, <2>2 DEF F, D, Runs
<1>12. MatchRun(p, n, s, q, B) /\ p[N] = h[D]
  BY <1>10, <1>11 DEF D, N, Runs, MatchRun
<1> QED
  BY <1>8, <1>12 DEF N

(* The orders of q that stand, after those of s.                           *)
KeepAll(s, q) == FoldLeft(LAMBDA a, x : Keep(a, x), s, q)

(* The states that dropping the filled orders leads through.               *)
KeepRun(p, s, q, B) ==
  /\ p \in [0 .. Len(q) -> B] /\ p[0] = s
  /\ \A i \in 1 .. Len(q) : p[i] = Keep(p[i - 1], q[i])

(* The orders that are kept.                                               *)
LEMMA KeepFold ==
  ASSUME NEW B, NEW s \in B, NEW E, NEW q \in Seq(E),
         \A a \in B, x \in E : Keep(a, x) \in B
  PROVE  \E p : KeepRun(p, s, q, B)
               /\ p[Len(q)] = KeepAll(s, q)
<1> DEFINE N == Len(q)
           D == 1 .. N
           F == [i \in D |-> [a \in B |-> Keep(a, q[i])]]
           Folds(g) == g = [t \in SUBSET D |-> IF t = {} THEN s ELSE Keep(g[t \ {Max(t)}], q[Max(t)])]
<1>1. N \in Nat /\ DOMAIN q = D /\ \A i \in D : q[i] \in E
  OBVIOUS
<1>2. F \in [D -> [B -> B]]
  BY <1>1
<1> HIDE DEF N
<1>3. PICK g : LeftFold(g, F, s, N, B)
  <2> HIDE DEF F
  <2> QED BY <1>1, <1>2, LeftFoldExists, Zenon
<1>4. g \in [SUBSET D -> B] /\ g[{}] = s
  BY <1>3 DEF LeftFold
<1>5. ASSUME NEW t \in SUBSET D, t # {}
      PROVE  Max(t) \in t /\ g[t] = Keep(g[t \ {Max(t)}], q[Max(t)])
  <2>1. Max(t) \in t /\ g[t] = F[Max(t)][g[t \ {Max(t)}]]
    BY <1>3, <1>5 DEF LeftFold
  <2>2. g[t \ {Max(t)}] \in B /\ Max(t) \in D
    BY <1>4, <2>1
  <2> QED
    BY <2>1, <2>2
<1> HIDE DEF F, D
<1> DEFINE h == CHOOSE h : Folds(h)
<1>6. Folds([t \in SUBSET D |-> g[t]])
  BY <1>4, <1>5
<1>7. Folds(h)
  BY <1>6
<1>8. KeepAll(s, q) = h[D]
  BY <1>1 DEF KeepAll, FoldLeft, MapThenFoldSet
<1> HIDE DEF h
<1>9. LeftFolds(h, F, s, N, B)
  <2>1. h[{}] = s
    BY <1>7
  <2>2. ASSUME NEW t \in SUBSET D, t # {}, h[t \ {Max(t)}] \in B
        PROVE  h[t] = F[Max(t)][h[t \ {Max(t)}]]
    <3>1. Max(t) \in D
      BY <1>5, <2>2
    <3>2. h[t] = Keep(h[t \ {Max(t)}], q[Max(t)])
      BY <1>7, <2>2
    <3> QED
      BY <2>2, <3>1, <3>2 DEF F
  <2> QED
    BY <2>1, <2>2 DEF LeftFolds, D
<1>10. PICK p : Runs(p, F, s, N, B) /\ p[N] = h[1 .. N]
  <2>1. F \in [1 .. N -> [B -> B]] /\ N \in Nat
    BY <1>1, <1>2 DEF D
  <2> HIDE DEF D
  <2> QED BY ONLY <1>9, <2>1, FoldChain, s \in B
<1>11. \A i \in 1 .. N : p[i] = Keep(p[i - 1], q[i])
  <2>1. \A i \in 1 .. N : i - 1 \in 0 .. N
    BY <1>1
  <2>2. \A i \in 1 .. N : p[i - 1] \in B
    BY <1>10, <2>1 DEF Runs
  <2> QED
    BY <1>10, <2>2 DEF F, D, Runs
<1>12. KeepRun(p, s, q, B) /\ p[N] = h[D]
  BY <1>10, <1>11 DEF D, N, Runs, KeepRun
<1> QED
  BY <1>8, <1>12 DEF N

(* The orders of q are cancelled.                                          *)
CancelAll(s, q) == FoldLeft(LAMBDA a, x : cancel_order(a, x), s, q)

(* The states that clearing expired orders leads through.                  *)
CancelRun(p, s, q, B) ==
  /\ p \in [0 .. Len(q) -> B] /\ p[0] = s
  /\ \A i \in 1 .. Len(q) : p[i] = cancel_order(p[i - 1], q[i])

(* The loop of clear_expired_orders.                                       *)
LEMMA CancelFold ==
  ASSUME NEW B, NEW s \in B, NEW E, NEW q \in Seq(E),
         \A a \in B, x \in E : cancel_order(a, x) \in B
  PROVE  \E p : CancelRun(p, s, q, B)
               /\ p[Len(q)] = CancelAll(s, q)
<1> DEFINE N == Len(q)
           D == 1 .. N
           F == [i \in D |-> [a \in B |-> cancel_order(a, q[i])]]
           Folds(g) == g = [t \in SUBSET D |-> IF t = {} THEN s ELSE cancel_order(g[t \ {Max(t)}], q[Max(t)])]
<1>1. N \in Nat /\ DOMAIN q = D /\ \A i \in D : q[i] \in E
  OBVIOUS
<1>2. F \in [D -> [B -> B]]
  BY <1>1
<1> HIDE DEF N
<1>3. PICK g : LeftFold(g, F, s, N, B)
  <2> HIDE DEF F
  <2> QED BY <1>1, <1>2, LeftFoldExists, Zenon
<1>4. g \in [SUBSET D -> B] /\ g[{}] = s
  BY <1>3 DEF LeftFold
<1>5. ASSUME NEW t \in SUBSET D, t # {}
      PROVE  Max(t) \in t /\ g[t] = cancel_order(g[t \ {Max(t)}], q[Max(t)])
  <2>1. Max(t) \in t /\ g[t] = F[Max(t)][g[t \ {Max(t)}]]
    BY <1>3, <1>5 DEF LeftFold
  <2>2. g[t \ {Max(t)}] \in B /\ Max(t) \in D
    BY <1>4, <2>1
  <2> QED
    BY <2>1, <2>2
<1> HIDE DEF F, D
<1> DEFINE h == CHOOSE h : Folds(h)
<1>6. Folds([t \in SUBSET D |-> g[t]])
  BY <1>4, <1>5
<1>7. Folds(h)
  BY <1>6
<1>8. CancelAll(s, q) = h[D]
  BY <1>1 DEF CancelAll, FoldLeft, MapThenFoldSet
<1> HIDE DEF h
<1>9. LeftFolds(h, F, s, N, B)
  <2>1. h[{}] = s
    BY <1>7
  <2>2. ASSUME NEW t \in SUBSET D, t # {}, h[t \ {Max(t)}] \in B
        PROVE  h[t] = F[Max(t)][h[t \ {Max(t)}]]
    <3>1. Max(t) \in D
      BY <1>5, <2>2
    <3>2. h[t] = cancel_order(h[t \ {Max(t)}], q[Max(t)])
      BY <1>7, <2>2
    <3> QED
      BY <2>2, <3>1, <3>2 DEF F
  <2> QED
    BY <2>1, <2>2 DEF LeftFolds, D
<1>10. PICK p : Runs(p, F, s, N, B) /\ p[N] = h[1 .. N]
  <2>1. F \in [1 .. N -> [B -> B]] /\ N \in Nat
    BY <1>1, <1>2 DEF D
  <2> HIDE DEF D
  <2> QED BY ONLY <1>9, <2>1, FoldChain, s \in B
<1>11. \A i \in 1 .. N : p[i] = cancel_order(p[i - 1], q[i])
  <2>1. \A i \in 1 .. N : i - 1 \in 0 .. N
    BY <1>1
  <2>2. \A i \in 1 .. N : p[i - 1] \in B
    BY <1>10, <2>1 DEF Runs
  <2> QED
    BY <1>10, <2>2 DEF F, D, Runs
<1>12. CancelRun(p, s, q, B) /\ p[N] = h[D]
  BY <1>10, <1>11 DEF D, N, Runs, CancelRun
<1> QED
  BY <1>8, <1>12 DEF N

(* The conversions of q are paid at the price c.                           *)
PayAll(c, s, q) == FoldLeft(LAMBDA a, x : pay_conversion(a, x, c), s, q)

(* The states that paying conversions leads through.                       *)
PayRun(p, c, s, q, B) ==
  /\ p \in [0 .. Len(q) -> B] /\ p[0] = s
  /\ \A i \in 1 .. Len(q) : p[i] = pay_conversion(p[i - 1], q[i], c)

(* The loop of process_conversions.                                        *)
LEMMA PayFold ==
  ASSUME NEW c, NEW B, NEW s \in B, NEW E, NEW q \in Seq(E),
         \A a \in B, x \in E : pay_conversion(a, x, c) \in B
  PROVE  \E p : PayRun(p, c, s, q, B)
               /\ p[Len(q)] = PayAll(c, s, q)
<1> DEFINE N == Len(q)
           D == 1 .. N
           F == [i \in D |-> [a \in B |-> pay_conversion(a, q[i], c)]]
           Folds(g) == g = [t \in SUBSET D |-> IF t = {} THEN s ELSE pay_conversion(g[t \ {Max(t)}], q[Max(t)], c)]
<1>1. N \in Nat /\ DOMAIN q = D /\ \A i \in D : q[i] \in E
  OBVIOUS
<1>2. F \in [D -> [B -> B]]
  BY <1>1
<1> HIDE DEF N
<1>3. PICK g : LeftFold(g, F, s, N, B)
  <2> HIDE DEF F
  <2> QED BY <1>1, <1>2, LeftFoldExists, Zenon
<1>4. g \in [SUBSET D -> B] /\ g[{}] = s
  BY <1>3 DEF LeftFold
<1>5. ASSUME NEW t \in SUBSET D, t # {}
      PROVE  Max(t) \in t /\ g[t] = pay_conversion(g[t \ {Max(t)}], q[Max(t)], c)
  <2>1. Max(t) \in t /\ g[t] = F[Max(t)][g[t \ {Max(t)}]]
    BY <1>3, <1>5 DEF LeftFold
  <2>2. g[t \ {Max(t)}] \in B /\ Max(t) \in D
    BY <1>4, <2>1
  <2> QED
    BY <2>1, <2>2
<1> HIDE DEF F, D
<1> DEFINE h == CHOOSE h : Folds(h)
<1>6. Folds([t \in SUBSET D |-> g[t]])
  BY <1>4, <1>5
<1>7. Folds(h)
  BY <1>6
<1>8. PayAll(c, s, q) = h[D]
  BY <1>1 DEF PayAll, FoldLeft, MapThenFoldSet
<1> HIDE DEF h
<1>9. LeftFolds(h, F, s, N, B)
  <2>1. h[{}] = s
    BY <1>7
  <2>2. ASSUME NEW t \in SUBSET D, t # {}, h[t \ {Max(t)}] \in B
        PROVE  h[t] = F[Max(t)][h[t \ {Max(t)}]]
    <3>1. Max(t) \in D
      BY <1>5, <2>2
    <3>2. h[t] = pay_conversion(h[t \ {Max(t)}], q[Max(t)], c)
      BY <1>7, <2>2
    <3> QED
      BY <2>2, <3>1, <3>2 DEF F
  <2> QED
    BY <2>1, <2>2 DEF LeftFolds, D
<1>10. PICK p : Runs(p, F, s, N, B) /\ p[N] = h[1 .. N]
  <2>1. F \in [1 .. N -> [B -> B]] /\ N \in Nat
    BY <1>1, <1>2 DEF D
  <2> HIDE DEF D
  <2> QED BY ONLY <1>9, <2>1, FoldChain, s \in B
<1>11. \A i \in 1 .. N : p[i] = pay_conversion(p[i - 1], q[i], c)
  <2>1. \A i \in 1 .. N : i - 1 \in 0 .. N
    BY <1>1
  <2>2. \A i \in 1 .. N : p[i - 1] \in B
    BY <1>10, <2>1 DEF Runs
  <2> QED
    BY <1>10, <2>2 DEF F, D, Runs
<1>12. PayRun(p, c, s, q, B) /\ p[N] = h[D]
  BY <1>10, <1>11 DEF D, N, Runs, PayRun
<1> QED
  BY <1>8, <1>12 DEF N
-----------------------------------------------------------------------------
(* Prices                                                                  *)

(* What the quotient of two amounts is.                                    *)
LEMMA Quotient ==
  ASSUME NEW a \in Nat, NEW b \in Nat \ {0}
  PROVE  LET d == a \div b IN d \in Nat /\ d * b <= a /\ a < d * b + b
OBVIOUS

(* A product with a larger number is no smaller.                           *)
LEMMA TimesMonotonic ==
  ASSUME NEW v \in Nat, NEW a \in Int, NEW b \in Int, a <= b
  PROVE  a * v <= b * v
OBVIOUS

(* Nor is a factor of a product that is no larger.                         *)
LEMMA TimesCancel ==
  ASSUME NEW v \in Nat \ {0}, NEW a \in Int, NEW b \in Int, a * v <= b * v
  PROVE  a <= b
<1> SUFFICES ASSUME b + 1 <= a PROVE FALSE
  OBVIOUS
<1>1. (b + 1) * v <= a * v
  BY TimesMonotonic
<1>2. (b + 1) * v = b * v + v
  OBVIOUS
<1> DEFINE x == a * v
           y == b * v
           z == (b + 1) * v
<1>3. x \in Int /\ y \in Int /\ z \in Int
  OBVIOUS
<1> HIDE DEF x, y, z
<1> QED
  BY <1>1, <1>2, <1>3 DEF x, y, z

(* A number is at most a quotient if its product is at most the dividend.  *)
LEMMA QuotientAtLeast ==
  ASSUME NEW a \in Nat, NEW b \in Nat \ {0}, NEW n \in Int
  PROVE  n <= a \div b <=> n * b <= a
<1> DEFINE d == a \div b
<1>1. d \in Nat /\ d * b <= a /\ a < d * b + b
  BY Quotient
<1> HIDE DEF d
<1>2. n <= d => n * b <= a
  <2> SUFFICES ASSUME n <= d PROVE n * b <= a
    OBVIOUS
  <2>1. n * b <= d * b
    BY <1>1, TimesMonotonic
  <2>2. n * b \in Int /\ d * b \in Int
    BY <1>1
  <2> QED BY <1>1, <2>1, <2>2
<1>3. ASSUME n * b <= a, d + 1 <= n PROVE FALSE
  <2>1. (d + 1) * b <= n * b
    BY <1>1, <1>3, TimesMonotonic
  <2>2. (d + 1) * b = d * b + b /\ d * b \in Int /\ n * b \in Int
    BY <1>1
  <2> QED BY <1>1, <1>3, <2>1, <2>2
<1>4. ~(d + 1 <= n) => n <= d
  BY <1>1
<1> QED
  BY <1>2, <1>3, <1>4 DEF d

(* A chain of two exchanges: e units of the first asset are worth no more  *)
(* than n of the second, which at a price no worse are worth no more than  *)
(* n of them.                                                              *)
LEMMA Exchange ==
  ASSUME NEW e \in Nat, NEW n \in Nat, NEW ob \in Nat \ {0}, NEW oq \in Nat \ {0},
         NEW wb \in Nat \ {0}, NEW wq \in Nat \ {0},
         wq * oq <= ob * wb, e * wb <= n * wq
  PROVE  e * oq <= n * ob
<1>1. (e * wb) * oq <= (n * wq) * oq
  BY TimesMonotonic
<1>2. (wq * oq) * n <= (ob * wb) * n
  BY TimesMonotonic
<1>3. /\ (e * wb) * oq = (e * oq) * wb /\ (n * wq) * oq = (wq * oq) * n
      /\ (ob * wb) * n = (n * ob) * wb
  OBVIOUS
<1>4. e * oq \in Int /\ n * ob \in Int
  OBVIOUS
<1> DEFINE x == (e * oq) * wb
           y == (wq * oq) * n
           z == (n * ob) * wb
<1>5. x \in Int /\ y \in Int /\ z \in Int
  OBVIOUS
<1>6. x <= y /\ y <= z
  BY <1>1, <1>2, <1>3
<1>7. x <= z
  <2> HIDE DEF x, y, z
  <2> QED BY <1>5, <1>6
<1> QED
  BY <1>4, <1>7, TimesCancel

(* What two orders that accept each other's price exchange: all of one of  *)
(* them, no more than either has, and no less than either asks for.        *)
LEMMA MatchAmounts ==
  ASSUME NEW new, NEW old, new.for_sale \in Nat \ {0}, old.for_sale \in Nat \ {0},
         new.sell_price \in Price, old.sell_price \in Price,
         new.sell_price.quote * old.sell_price.quote
           <= old.sell_price.base * new.sell_price.base,
         in_quote(new.for_sale, new.sell_price) > 0,
         in_quote(old.for_sale, old.sell_price) > 0
  PROVE  LET to_new == new_order_receives(new, old)
             to_old == old_order_receives(new, old)
         IN  /\ to_new \in Nat /\ to_old \in Nat
             /\ to_new <= old.for_sale /\ to_old <= new.for_sale
             /\ to_new = old.for_sale \/ to_old = new.for_sale
             /\ to_new > 0 /\ to_new >= in_quote(to_old, new.sell_price)
             /\ to_old > 0 /\ to_old >= in_quote(to_new, old.sell_price)
<1> DEFINE n == new.for_sale
           s == old.for_sale
           wb == new.sell_price.base
           wq == new.sell_price.quote
           ob == old.sell_price.base
           oq == old.sell_price.quote
           r == (s * oq) \div ob
           d == (n * ob) \div oq
           e == (n * wq) \div wb
           to_new == IF n <= r THEN d ELSE s
           to_old == IF n <= r THEN n ELSE r
<1>0. to_new = new_order_receives(new, old) /\ to_old = old_order_receives(new, old)
  BY DEF new_order_receives, old_order_receives, in_quote, in_base
<1>1. /\ n \in Nat \ {0} /\ s \in Nat \ {0} /\ wb \in Nat \ {0} /\ wq \in Nat \ {0}
      /\ ob \in Nat \ {0} /\ oq \in Nat \ {0} /\ wq * oq <= ob * wb /\ e > 0 /\ r > 0
  BY DEF Price, in_quote
<1> SUFFICES /\ to_new \in Nat /\ to_old \in Nat
             /\ to_new <= s /\ to_old <= n
             /\ to_new = s \/ to_old = n
             /\ to_new > 0 /\ to_new >= (to_old * wq) \div wb
             /\ to_old > 0 /\ to_old >= (to_new * oq) \div ob
  BY <1>0 DEF in_quote
<1> HIDE DEF n, s, wb, wq, ob, oq
<1>2. s * oq \in Nat /\ n * ob \in Nat /\ n * wq \in Nat
  BY <1>1
<1>3. /\ r \in Nat /\ r * ob <= s * oq
      /\ d \in Nat /\ d * oq <= n * ob
      /\ e \in Nat /\ e * wb <= n * wq
  BY <1>1, <1>2, Quotient
<1>4. CASE n <= r
  <2>1. to_new = d /\ to_old = n
    BY <1>4
  <2>2. n * ob <= s * oq
    BY <1>1, <1>2, <1>4, QuotientAtLeast
  <2>3. d <= s
    <3>1. d * oq <= s * oq
      <4>1. d * oq \in Int
        BY <1>1, <1>3
      <4> HIDE DEF d
      <4> QED BY <1>2, <1>3, <2>2, <4>1
    <3> HIDE DEF d
    <3> QED BY <1>1, <1>3, <3>1, TimesCancel
  <2>4. e <= d
    <3>1. e * oq <= n * ob
      <4> HIDE DEF e
      <4> QED BY <1>1, <1>3, Exchange
    <3> HIDE DEF e
    <3> QED BY <1>1, <1>2, <1>3, <3>1, QuotientAtLeast
  <2> DEFINE f == (d * oq) \div ob
  <2>5. f <= n
    <3> HIDE DEF d
    <3>1. d * oq \in Nat
      BY <1>1, <1>3
    <3>2. f \in Nat /\ f * ob <= d * oq
      BY <1>1, <3>1, Quotient
    <3> HIDE DEF f
    <3>3. f * ob <= n * ob
      <4>1. f * ob \in Int
        BY <1>1, <3>2
      <4> QED BY <1>2, <1>3, <3>1, <3>2, <4>1
    <3> QED BY <1>1, <3>2, <3>3, TimesCancel
  <2>6. f \in Int /\ e \in Int /\ d \in Nat
    <3>1. d * oq \in Nat
      BY <1>1, <1>3
    <3> HIDE DEF d, e
    <3> QED BY <1>1, <1>3, <3>1, Quotient
  <2>7. (to_old * wq) \div wb = e /\ (to_new * oq) \div ob = f
    BY <2>1
  <2> HIDE DEF to_new, to_old, d, e, f
  <2> QED BY <1>1, <2>1, <2>3, <2>4, <2>5, <2>6, <2>7
<1>5. CASE ~(n <= r)
  <2>1. to_new = s /\ to_old = r
    BY <1>5
  <2> DEFINE g == (r * wq) \div wb
  <2>2. g \in Nat /\ g <= s
    <3> HIDE DEF r
    <3>1. r * wq \in Nat
      BY <1>1, <1>3
    <3>2. g \in Nat /\ g * wb <= r * wq
      BY <1>1, <3>1, Quotient
    <3> HIDE DEF g
    <3>3. g * oq <= r * ob
      BY <1>1, <1>3, <3>2, Exchange
    <3>4. g * oq <= s * oq
      <4>1. g * oq \in Int /\ r * ob \in Int
        BY <1>1, <1>3, <3>2
      <4> QED BY <1>2, <1>3, <3>3, <4>1
    <3> QED BY <1>1, <3>2, <3>4, TimesCancel
  <2>3. (to_old * wq) \div wb = g /\ (to_new * oq) \div ob = r
    BY <2>1
  <2> HIDE DEF to_new, to_old, r, g
  <2> QED BY <1>1, <1>3, <1>5, <2>1, <2>2, <2>3
<1> QED
  BY <1>4, <1>5

(* A price no worse than a better one is better, and the other way round.  *)
LEMMA BetterTransitive ==
  ASSUME NEW p \in Price, NEW q \in Price, NEW r \in Price
  PROVE  /\ Better(p, q) => ~Better(q, p)
         /\ ~Better(q, p) /\ ~Better(r, q) => ~Better(r, p)
<1> DEFINE pb == p.base
           pq == p.quote
           qb == q.base
           qq == q.quote
           rb == r.base
           rq == r.quote
<1>1. /\ pb \in Nat \ {0} /\ pq \in Nat \ {0} /\ qb \in Nat \ {0} /\ qq \in Nat \ {0}
      /\ rb \in Nat \ {0} /\ rq \in Nat \ {0}
  BY DEF Price
<1>2. /\ pb * qq \in Int /\ qb * pq \in Int /\ rb * qq \in Int /\ qb * rq \in Int
      /\ rb * pq \in Int /\ pb * rq \in Int
  BY <1>1
<1>3. /\ Better(p, q) <=> pb * qq > qb * pq
      /\ Better(q, p) <=> qb * pq > pb * qq
      /\ Better(r, q) <=> rb * qq > qb * rq
      /\ Better(r, p) <=> rb * pq > pb * rq
  BY DEF Better
<1> HIDE DEF pb, pq, qb, qq, rb, rq
<1>4. Better(p, q) => ~Better(q, p)
  <2> DEFINE x == pb * qq
             y == qb * pq
  <2> HIDE DEF x, y
  <2> QED BY <1>2, <1>3 DEF x, y
<1>5. ASSUME qb * pq <= pb * qq, rb * qq <= qb * rq PROVE rb * pq <= pb * rq
  <2>1. (rb * qq) * pq <= (qb * rq) * pq
    BY <1>1, <1>2, <1>5, TimesMonotonic
  <2>2. (qb * pq) * rq <= (pb * qq) * rq
    BY <1>1, <1>2, <1>5, TimesMonotonic
  <2>3. /\ (rb * qq) * pq = (rb * pq) * qq /\ (qb * rq) * pq = (qb * pq) * rq
        /\ (pb * qq) * rq = (pb * rq) * qq
    BY <1>1
  <2> DEFINE x == (rb * pq) * qq
             y == (qb * pq) * rq
             z == (pb * rq) * qq
  <2>4. x \in Int /\ y \in Int /\ z \in Int /\ x <= y /\ y <= z
    BY <1>1, <2>1, <2>2, <2>3
  <2>5. x <= z
    <3> HIDE DEF x, y, z
    <3> QED BY <2>4
  <2> QED BY <1>1, <1>2, <2>5, TimesCancel
<1>6. ~Better(q, p) /\ ~Better(r, q) => qb * pq <= pb * qq /\ rb * qq <= qb * rq
  <2> DEFINE x == qb * pq
             y == pb * qq
             z == rb * qq
             w == qb * rq
  <2> HIDE DEF x, y, z, w
  <2> QED BY <1>2, <1>3 DEF x, y, z, w
<1>7. rb * pq <= pb * rq => ~Better(r, p)
  <2> DEFINE x == rb * pq
             y == pb * rq
  <2> HIDE DEF x, y
  <2> QED BY <1>2, <1>3 DEF x, y
<1> QED
  BY <1>4, <1>5, <1>6, <1>7

-----------------------------------------------------------------------------
(* Balances and orders                                                     *)

(* An order that may have been filled.                                     *)
Entry == [seller : Accounts, sells : Assets, for_sale : Nat, sell_price : Price]

(* What a handler works on.                                                *)
Book == [balance : [Accounts -> [Assets -> Nat]], orders : Seq(Entry), fair : BOOLEAN]

(* What the accounts and what the orders hold of an asset.                 *)
InAccounts(bal, asset) == SumFunctionOnSet([a \in Accounts |-> bal[a][asset]], Accounts)

InOrders(os, asset) ==
  SumFunctionOnSet([i \in DOMAIN os |-> IF os[i].sells = asset THEN os[i].for_sale ELSE 0],
                   DOMAIN os)

Total(m, asset) == InAccounts(m.balance, asset) + InOrders(m.orders, asset)

(* Order i of t has x left to sell, everything else about the orders is as *)
(* in m.                                                                   *)
Leaves(m, i, x, t) ==
  /\ t \in Book /\ DOMAIN t.orders = DOMAIN m.orders /\ Len(t.orders) = Len(m.orders)
  /\ t.orders[i].seller = m.orders[i].seller /\ t.orders[i].sells = m.orders[i].sells
  /\ t.orders[i].sell_price = m.orders[i].sell_price /\ t.orders[i].for_sale = x
  /\ \A j \in DOMAIN m.orders : j # i => t.orders[j] = m.orders[j]

(* The types of a book and of its orders.                                  *)
LEMMA BookTypes ==
  ASSUME NEW m \in Book
  PROVE  /\ m.balance \in [Accounts -> [Assets -> Nat]] /\ m.orders \in Seq(Entry)
         /\ m.fair \in BOOLEAN /\ Len(m.orders) \in Nat
         /\ DOMAIN m.orders = 1 .. Len(m.orders)
         /\ \A i \in DOMAIN m.orders :
              /\ m.orders[i] \in Entry
              /\ m.orders[i].seller \in Accounts /\ m.orders[i].sells \in Assets
              /\ m.orders[i].for_sale \in Nat /\ m.orders[i].sell_price \in Price
<1>1. m.balance \in [Accounts -> [Assets -> Nat]] /\ m.orders \in Seq(Entry) /\ m.fair \in BOOLEAN
  BY DEF Book
<1>2. \A i \in DOMAIN m.orders : m.orders[i] \in Entry
  BY <1>1
<1> QED
  BY <1>1, <1>2 DEF Entry

(* The assets are two.                                                     *)
LEMMA TwoAssets ==
  /\ MUSE \in Assets /\ MBD \in Assets /\ MUSE # MBD
  /\ \A x \in Assets : Other(x) \in Assets /\ Other(x) # x /\ Other(Other(x)) = x
  /\ \A x, y \in Assets : x = y \/ x = Other(y)
BY DEF Assets, MUSE, MBD, Other

(* The sums are sums of numbers.                                           *)
LEMMA Sums ==
  ASSUME NEW asset \in Assets
  PROVE  /\ \A bal \in [Accounts -> [Assets -> Nat]] :
              /\ Numeric([a \in Accounts |-> bal[a][asset]], Accounts)
              /\ InAccounts(bal, asset) \in Nat
         /\ \A os \in Seq(Entry) :
              /\ Numeric([i \in DOMAIN os |-> IF os[i].sells = asset
                                             THEN os[i].for_sale ELSE 0], DOMAIN os)
              /\ InOrders(os, asset) \in Nat
<1>1. ASSUME NEW bal \in [Accounts -> [Assets -> Nat]]
      PROVE  /\ Numeric([a \in Accounts |-> bal[a][asset]], Accounts)
             /\ InAccounts(bal, asset) \in Nat
  <2> DEFINE f == [a \in Accounts |-> bal[a][asset]]
  <2>1. IsFiniteSet(Accounts) /\ \A a \in Accounts : f[a] \in Nat
    BY MarketAssumption
  <2> HIDE DEF f
  <2>2. Numeric(f, Accounts) /\ SumFunctionOnSet(f, Accounts) \in Nat
    BY <2>1, SumNat
  <2> QED BY <2>2 DEF f, InAccounts
<1>2. ASSUME NEW os \in Seq(Entry)
      PROVE  /\ Numeric([i \in DOMAIN os |-> IF os[i].sells = asset
                                            THEN os[i].for_sale ELSE 0], DOMAIN os)
             /\ InOrders(os, asset) \in Nat
  <2> DEFINE f == [i \in DOMAIN os |-> IF os[i].sells = asset THEN os[i].for_sale ELSE 0]
  <2>1. \A i \in DOMAIN os : f[i] \in Nat
    <3>1. \A i \in DOMAIN os : os[i] \in Entry
      OBVIOUS
    <3> QED BY <3>1 DEF Entry
  <2>2. IsFiniteSet(DOMAIN os)
    <3>1. DOMAIN os = 1 .. Len(os) /\ Len(os) \in Nat
      OBVIOUS
    <3> QED BY <3>1, FS_Interval
  <2> HIDE DEF f
  <2>3. Numeric(f, DOMAIN os) /\ SumFunctionOnSet(f, DOMAIN os) \in Nat
    BY <2>1, <2>2, SumNat
  <2> QED BY <2>3 DEF f, InOrders
<1> QED
  BY <1>1, <1>2

(* A change of one balance.                                                *)
LEMMA AdjustBalance ==
  ASSUME NEW m \in Book, NEW a \in Accounts, NEW asset \in Assets, NEW delta \in Int,
         m.balance[a][asset] + delta \in Nat
  PROVE  LET t == adjust_balance(m, a, asset, delta)
         IN  /\ t \in Book /\ t.orders = m.orders /\ t.fair = m.fair
             /\ \A x \in Assets : InAccounts(t.balance, x)
                                    = InAccounts(m.balance, x) + (IF x = asset THEN delta ELSE 0)
<1> DEFINE v == m.balance[a][asset] + delta
           bal == [m.balance EXCEPT ![a] = [@ EXCEPT ![asset] = v]]
           t == adjust_balance(m, a, asset, delta)
<1>1. m.balance \in [Accounts -> [Assets -> Nat]]
  BY BookTypes
<1>2. t = [m EXCEPT !.balance = bal]
  BY <1>1 DEF adjust_balance, Book
<1>3. v \in Nat /\ m.balance[a] \in [Assets -> Nat] /\ v - m.balance[a][asset] = delta
  BY <1>1
<1> HIDE DEF v
<1>4. bal \in [Accounts -> [Assets -> Nat]]
  BY <1>1, <1>3
<1>5. \A c \in Accounts, x \in Assets :
        bal[c][x] = IF c = a /\ x = asset THEN v ELSE m.balance[c][x]
  BY <1>1, <1>3
<1> HIDE DEF bal
<1>6. t \in Book /\ t.orders = m.orders /\ t.fair = m.fair /\ t.balance = bal
  BY <1>2, <1>4 DEF Book
<1>7. ASSUME NEW x \in Assets
      PROVE  InAccounts(bal, x) = InAccounts(m.balance, x) + (IF x = asset THEN delta ELSE 0)
  <2> DEFINE f == [c \in Accounts |-> m.balance[c][x]]
             g == [c \in Accounts |-> bal[c][x]]
  <2>1. Numeric(f, Accounts) /\ Numeric(g, Accounts)
    BY <1>1, <1>4, Sums
  <2>2. \A y \in Accounts \ {a} : g[y] = f[y]
    BY <1>5
  <2>3. g[a] = (IF x = asset THEN v ELSE f[a]) /\ f[a] \in Nat
    BY <1>1, <1>5
  <2>4. g[a] - f[a] = (IF x = asset THEN delta ELSE 0)
    BY <1>3, <2>3
  <2>5. SumFunctionOnSet(f, Accounts) \in Int /\ g[a] \in Int
    BY <1>3, <2>1, <2>3, SumInt
  <2> HIDE DEF f, g
  <2>6. SumFunctionOnSet(g, Accounts) = SumFunctionOnSet(f, Accounts) + g[a] - f[a]
    BY <2>1, <2>2, SumChange
  <2>7. SumFunctionOnSet(g, Accounts)
          = SumFunctionOnSet(f, Accounts) + (IF x = asset THEN delta ELSE 0)
    BY <2>3, <2>4, <2>5, <2>6
  <2> QED BY <2>7 DEF f, g, InAccounts
<1> HIDE DEF t
<1>8. /\ t \in Book /\ t.orders = m.orders /\ t.fair = m.fair
      /\ \A x \in Assets : InAccounts(t.balance, x)
                             = InAccounts(m.balance, x) + (IF x = asset THEN delta ELSE 0)
  BY <1>6, <1>7
<1> QED
  BY <1>8 DEF t

(* A change of what one order has for sale.                                *)
LEMMA SetForSale ==
  ASSUME NEW os \in Seq(Entry), NEW i \in DOMAIN os, NEW v \in Nat
  PROVE  LET us == [os EXCEPT ![i] = [@ EXCEPT !.for_sale = v]]
         IN  /\ us \in Seq(Entry) /\ DOMAIN us = DOMAIN os /\ Len(us) = Len(os)
             /\ us[i].seller = os[i].seller /\ us[i].sells = os[i].sells
             /\ us[i].sell_price = os[i].sell_price /\ us[i].for_sale = v
             /\ \A j \in DOMAIN os : j # i => us[j] = os[j]
             /\ \A x \in Assets :
                  InOrders(us, x) = InOrders(os, x)
                    + (IF x = os[i].sells THEN v - os[i].for_sale ELSE 0)
<1> DEFINE o == [os[i] EXCEPT !.for_sale = v]
           us == [os EXCEPT ![i] = o]
<1>1. os[i] \in Entry /\ DOMAIN os = 1 .. Len(os) /\ Len(os) \in Nat
  OBVIOUS
<1>2. /\ o \in Entry /\ o.seller = os[i].seller /\ o.sells = os[i].sells
      /\ o.sell_price = os[i].sell_price /\ o.for_sale = v
      /\ os[i].for_sale \in Nat /\ os[i].sells \in Assets
  BY <1>1 DEF Entry
<1> HIDE DEF o
<1>3. /\ us \in Seq(Entry) /\ DOMAIN us = DOMAIN os /\ Len(us) = Len(os)
      /\ us[i] = o /\ \A j \in DOMAIN os : j # i => us[j] = os[j]
  BY <1>1, <1>2
<1> HIDE DEF us
<1>4. ASSUME NEW x \in Assets
      PROVE  InOrders(us, x) = InOrders(os, x)
               + (IF x = os[i].sells THEN v - os[i].for_sale ELSE 0)
  <2> DEFINE f == [j \in DOMAIN os |-> IF os[j].sells = x THEN os[j].for_sale ELSE 0]
             g == [j \in DOMAIN us |-> IF us[j].sells = x THEN us[j].for_sale ELSE 0]
  <2>1. Numeric(f, DOMAIN os) /\ Numeric(g, DOMAIN os)
    BY <1>3, Sums
  <2>2. \A y \in DOMAIN os \ {i} : g[y] = f[y]
    BY <1>3
  <2>3. /\ f[i] = (IF os[i].sells = x THEN os[i].for_sale ELSE 0)
        /\ g[i] = (IF os[i].sells = x THEN v ELSE 0)
    BY <1>2, <1>3
  <2>4. SumFunctionOnSet(f, DOMAIN os) \in Int
    BY <2>1, SumInt
  <2> HIDE DEF f, g
  <2>5. SumFunctionOnSet(g, DOMAIN os) = SumFunctionOnSet(f, DOMAIN os) + g[i] - f[i]
    BY <2>1, <2>2, SumChange
  <2>6. SumFunctionOnSet(g, DOMAIN os) = SumFunctionOnSet(f, DOMAIN os)
          + (IF x = os[i].sells THEN v - os[i].for_sale ELSE 0)
    BY <1>2, <2>3, <2>4, <2>5
  <2> QED BY <1>3, <2>6 DEF f, g, InOrders
<1>5. /\ us \in Seq(Entry) /\ DOMAIN us = DOMAIN os /\ Len(us) = Len(os)
      /\ us[i].seller = os[i].seller /\ us[i].sells = os[i].sells
      /\ us[i].sell_price = os[i].sell_price /\ us[i].for_sale = v
      /\ \A j \in DOMAIN os : j # i => us[j] = os[j]
  BY <1>2, <1>3
<1> QED
  BY <1>4, <1>5 DEF us, o

(* Order i of m has v for sale, and the fills were fair if f.              *)
Resold(m, i, v, f, t) ==
  t = [m EXCEPT !.orders = [m.orders EXCEPT ![i] = [m.orders[i] EXCEPT !.for_sale = v]],
                !.fair = f]

(* An order of m after a change of what it has for sale.                   *)
LEMMA Resell ==
  ASSUME NEW m \in Book, NEW i \in DOMAIN m.orders, NEW v \in Nat, NEW f \in BOOLEAN, NEW t,
         Resold(m, i, v, f, t)
  PROVE  /\ Leaves(m, i, v, t) /\ t.balance = m.balance /\ t.fair = f
         /\ \A x \in Assets : Total(t, x) = Total(m, x)
              + (IF x = m.orders[i].sells THEN v - m.orders[i].for_sale ELSE 0)
<1> DEFINE us == [m.orders EXCEPT ![i] = [m.orders[i] EXCEPT !.for_sale = v]]
<1>1. m.orders \in Seq(Entry) /\ m.balance \in [Accounts -> [Assets -> Nat]]
      /\ m.orders[i].for_sale \in Nat
  BY BookTypes
<1>2. /\ us \in Seq(Entry) /\ DOMAIN us = DOMAIN m.orders /\ Len(us) = Len(m.orders)
      /\ us[i].seller = m.orders[i].seller /\ us[i].sells = m.orders[i].sells
      /\ us[i].sell_price = m.orders[i].sell_price /\ us[i].for_sale = v
      /\ \A j \in DOMAIN m.orders : j # i => us[j] = m.orders[j]
      /\ \A x \in Assets :
           InOrders(us, x) = InOrders(m.orders, x)
             + (IF x = m.orders[i].sells THEN v - m.orders[i].for_sale ELSE 0)
  BY <1>1, SetForSale
<1> HIDE DEF us
<1>3. t \in Book /\ t.orders = us /\ t.balance = m.balance /\ t.fair = f
  <2>1. t = [m EXCEPT !.orders = us, !.fair = f]
    BY DEF us, Resold
  <2> QED BY <1>2, <2>1 DEF Book
<1>4. Leaves(m, i, v, t)
  BY <1>2, <1>3 DEF Leaves
<1>5. ASSUME NEW x \in Assets
      PROVE  Total(t, x) = Total(m, x)
               + (IF x = m.orders[i].sells THEN v - m.orders[i].for_sale ELSE 0)
  <2>1. InAccounts(m.balance, x) \in Nat /\ InOrders(m.orders, x) \in Nat
    BY <1>1, Sums
  <2> DEFINE d == IF x = m.orders[i].sells THEN v - m.orders[i].for_sale ELSE 0
  <2>2. d \in Int
    BY <1>1
  <2>3. InOrders(us, x) = InOrders(m.orders, x) + d
    BY <1>2
  <2> HIDE DEF d
  <2>4. InAccounts(m.balance, x) + (InOrders(m.orders, x) + d)
          = InAccounts(m.balance, x) + InOrders(m.orders, x) + d
    BY <2>1, <2>2
  <2>5. Total(t, x) = InAccounts(m.balance, x) + (InOrders(m.orders, x) + d)
    BY <1>3, <2>3 DEF Total
  <2> QED BY <2>4, <2>5 DEF d, Total
<1> QED
  BY <1>3, <1>4, <1>5

(* What an order leaves is all it leaves.                                  *)
LEMMA LeavesAgain ==
  ASSUME NEW m, NEW s, NEW t, NEW i, NEW v, NEW x, Leaves(m, i, v, s), Leaves(s, i, x, t)
  PROVE  Leaves(m, i, x, t)
BY DEF Leaves

(* cancel_order refunds what is for sale.                                  *)
LEMMA CancelOrder ==
  ASSUME NEW m \in Book, NEW i \in DOMAIN m.orders
  PROVE  LET t == cancel_order(m, i)
         IN  /\ Leaves(m, i, 0, t) /\ t.fair = m.fair
             /\ \A x \in Assets : Total(t, x) = Total(m, x)
<1> DEFINE o == m.orders[i]
           s == adjust_balance(m, o.seller, o.sells, o.for_sale)
           t == cancel_order(m, i)
<1>1. /\ o.seller \in Accounts /\ o.sells \in Assets /\ o.for_sale \in Nat
      /\ m.balance \in [Accounts -> [Assets -> Nat]] /\ m.fair \in BOOLEAN
      /\ m.orders \in Seq(Entry)
  BY BookTypes
<1>2. m.balance[o.seller][o.sells] + o.for_sale \in Nat
  BY <1>1
<1>3. /\ s \in Book /\ s.orders = m.orders /\ s.fair = m.fair
      /\ \A x \in Assets : InAccounts(s.balance, x)
                             = InAccounts(m.balance, x) + (IF x = o.sells THEN o.for_sale ELSE 0)
  <2>1. o.for_sale \in Int
    BY <1>1
  <2> HIDE DEF o
  <2> QED BY <1>1, <1>2, <2>1, AdjustBalance
<1>4. Resold(s, i, 0, m.fair, t)
  <2>1. t = [s EXCEPT !.orders[i].for_sale = 0]
    BY DEF cancel_order
  <2> HIDE DEF s, t
  <2> QED BY <1>3, <2>1 DEF Book, Resold
<1> HIDE DEF s, t
<1>5. /\ Leaves(s, i, 0, t) /\ t.fair = m.fair
      /\ \A x \in Assets : Total(t, x) = Total(s, x)
              + (IF x = s.orders[i].sells THEN 0 - s.orders[i].for_sale ELSE 0)
  <2>1. i \in DOMAIN s.orders /\ 0 \in Nat /\ m.fair \in BOOLEAN /\ s \in Book
    BY <1>1, <1>3
  <2> QED BY ONLY <1>4, <2>1, Resell
<1>6. Leaves(m, i, 0, t)
  BY <1>3, <1>5 DEF Leaves
<1>7. ASSUME NEW x \in Assets PROVE Total(t, x) = Total(m, x)
  <2>1. InAccounts(m.balance, x) \in Nat /\ InOrders(m.orders, x) \in Nat
    BY <1>1, Sums
  <2>2. Total(s, x) = InAccounts(m.balance, x) + (IF x = o.sells THEN o.for_sale ELSE 0)
                        + InOrders(m.orders, x)
    BY <1>3 DEF Total
  <2>3. Total(t, x) = Total(s, x) + (IF x = o.sells THEN 0 - o.for_sale ELSE 0)
    BY <1>3, <1>5
  <2> HIDE DEF o
  <2> QED BY <1>1, <2>1, <2>2, <2>3 DEF Total
<1> QED
  BY <1>5, <1>6, <1>7 DEF t

(* Order i of m has paid and received: it keeps what it has not paid, or   *)
(* that has been refunded for being too little.                            *)
Fills(m, i, pays, receives, t) ==
  /\ \E x \in Nat :
       /\ Leaves(m, i, x, t)
       /\ x = 0 \/ in_quote(x, m.orders[i].sell_price) > 0
       /\ pays = m.orders[i].for_sale => x = 0
  /\ \A x \in Assets : Total(t, x) = Total(m, x)
       + (IF x = m.orders[i].sells THEN - pays ELSE receives)
  /\ t.fair \in BOOLEAN
  /\ m.fair /\ receives > 0 /\ receives >= in_quote(pays, m.orders[i].sell_price) => t.fair

(* Amounts at a price are natural numbers.                                 *)
LEMMA PriceNat ==
  ASSUME NEW n \in Nat, NEW p \in Price
  PROVE  in_quote(n, p) \in Nat /\ in_base(n, p) \in Nat
<1>1. p.base \in Nat \ {0} /\ p.quote \in Nat \ {0}
  BY DEF Price
<1>2. n * p.quote \in Nat /\ n * p.base \in Nat
  BY <1>1
<1> QED
  BY <1>1, <1>2, Quotient DEF in_quote, in_base

(* fill_order                                                              *)
LEMMA FillOrder ==
  ASSUME NEW m \in Book, NEW i \in DOMAIN m.orders, NEW pays \in Nat, NEW receives \in Nat,
         pays <= m.orders[i].for_sale
  PROVE  Fills(m, i, pays, receives, fill_order(m, i, pays, receives))
<1> DEFINE o == m.orders[i]
           v == o.for_sale - pays
           f == m.fair /\ receives > 0 /\ receives >= in_quote(pays, o.sell_price)
           s == adjust_balance(m, o.seller, Other(o.sells), receives)
           p == [s EXCEPT !.orders[i].for_sale = @ - pays,
                          !.fair = @ /\ receives > 0 /\ receives >= in_quote(pays, o.sell_price)]
           t == fill_order(m, i, pays, receives)
<1>1. /\ o.seller \in Accounts /\ o.sells \in Assets /\ o.for_sale \in Nat
      /\ o.sell_price \in Price /\ m.orders \in Seq(Entry)
      /\ m.balance \in [Accounts -> [Assets -> Nat]] /\ m.fair \in BOOLEAN
  BY BookTypes
<1>2. t = IF pays = o.for_sale THEN p ELSE cull(p, i)
  BY DEF fill_order
<1>3. v \in Nat /\ f \in BOOLEAN /\ (pays = o.for_sale => v = 0)
  BY <1>1
<1>4. Other(o.sells) \in Assets /\ Other(o.sells) # o.sells
  BY <1>1, TwoAssets
<1>5. \A x \in Assets : x = o.sells \/ x = Other(o.sells)
  BY <1>1, TwoAssets
<1>6. /\ s \in Book /\ s.orders = m.orders /\ s.fair = m.fair
      /\ \A x \in Assets : InAccounts(s.balance, x)
                = InAccounts(m.balance, x) + (IF x = Other(o.sells) THEN receives ELSE 0)
  <2>1. m.balance[o.seller][Other(o.sells)] + receives \in Nat /\ receives \in Int
    BY <1>1, <1>4
  <2> HIDE DEF o
  <2> QED BY <1>1, <1>4, <2>1, AdjustBalance
<1>7. Resold(s, i, v, f, p)
  <2> HIDE DEF s
  <2>1. s.orders[i].for_sale - pays = v
    BY <1>6
  <2>2. (s.fair /\ receives > 0 /\ receives >= in_quote(pays, o.sell_price)) = f
    BY <1>6
  <2> HIDE DEF o, v, f
  <2> QED BY <1>6, <2>1, <2>2 DEF Book, Resold
<1> SUFFICES Fills(m, i, pays, receives, t)
  OBVIOUS
<1> HIDE DEF s, p, t, f
<1>8. /\ Leaves(s, i, v, p) /\ p.fair = f
      /\ \A x \in Assets : Total(p, x) = Total(s, x)
              + (IF x = s.orders[i].sells THEN v - s.orders[i].for_sale ELSE 0)
  <2>1. i \in DOMAIN s.orders
    BY <1>6
  <2> HIDE DEF v
  <2> QED BY ONLY <1>3, <1>6, <1>7, <2>1, Resell
<1>9. Leaves(m, i, v, p)
  BY <1>6, <1>8 DEF Leaves
<1>10. ASSUME NEW x \in Assets
       PROVE  Total(p, x) = Total(m, x) + (IF x = o.sells THEN - pays ELSE receives)
  <2>1. InAccounts(m.balance, x) \in Nat /\ InOrders(m.orders, x) \in Nat
    BY <1>1, Sums
  <2>2. Total(s, x) = InAccounts(m.balance, x) + (IF x = Other(o.sells) THEN receives ELSE 0)
                        + InOrders(m.orders, x)
    BY <1>6 DEF Total
  <2>3. Total(p, x) = Total(s, x) + (IF x = o.sells THEN v - o.for_sale ELSE 0)
    BY <1>6, <1>8
  <2>4. v - o.for_sale = - pays
    BY <1>1
  <2>5. (x = o.sells /\ x # Other(o.sells)) \/ (x # o.sells /\ x = Other(o.sells))
    BY <1>4, <1>5
  <2> HIDE DEF o, v
  <2> QED BY <1>1, <2>1, <2>2, <2>3, <2>4, <2>5 DEF Total
<1>11. p \in Book /\ i \in DOMAIN p.orders /\ p.orders[i].sell_price = o.sell_price
       /\ p.orders[i].for_sale = v
  BY <1>9 DEF Leaves
<1>12. CASE pays = o.for_sale
  <2>1. t = p /\ v = 0
    BY <1>2, <1>3, <1>12
  <2> QED
    BY <1>3, <1>8, <1>9, <1>10, <2>1 DEF Fills, f
<1>13. CASE pays # o.for_sale /\ in_quote(v, o.sell_price) = 0
  <2>1. t = cancel_order(p, i)
    BY <1>2, <1>11, <1>13 DEF cull, amount_to_receive
  <2>2. Leaves(p, i, 0, t) /\ t.fair = p.fair /\ \A x \in Assets : Total(t, x) = Total(p, x)
    BY <1>11, <2>1, CancelOrder
  <2>3. Leaves(m, i, 0, t)
    BY <1>9, <2>2, LeavesAgain
  <2> QED
    BY <1>3, <1>8, <1>10, <2>2, <2>3 DEF Fills, f
<1>14. CASE pays # o.for_sale /\ in_quote(v, o.sell_price) # 0
  <2>1. t = p
    BY <1>2, <1>11, <1>14 DEF cull, amount_to_receive
  <2>2. in_quote(v, o.sell_price) > 0
    <3>1. in_quote(v, o.sell_price) \in Nat
      BY <1>1, <1>3, PriceNat
    <3> QED BY <1>14, <3>1
  <2> QED
    BY <1>3, <1>8, <1>9, <1>10, <1>14, <2>1, <2>2 DEF Fills, f
<1> QED
  BY <1>12, <1>13, <1>14

-----------------------------------------------------------------------------
(* Matching                                                                *)

(* The same orders, whatever they have for sale.                           *)
Same(os, us) ==
  /\ DOMAIN us = DOMAIN os /\ Len(us) = Len(os)
  /\ \A j \in DOMAIN os : /\ us[j].seller = os[j].seller /\ us[j].sells = os[j].sells
                          /\ us[j].sell_price = os[j].sell_price

(* What an order has left is worth something.                              *)
Sound(os) == \A j \in DOMAIN os : os[j].for_sale = 0 \/ amount_to_receive(os[j]) > 0

(* Orders n and i of m have traded with each other.                        *)
Traded(m, n, i, t) ==
  /\ t \in Book /\ Same(m.orders, t.orders)
  /\ Sound(m.orders) => Sound(t.orders)
  /\ \A x \in Assets : Total(t, x) = Total(m, x)
  /\ \A j \in DOMAIN m.orders : j # n /\ j # i => t.orders[j] = m.orders[j]

(* The new order may trade with order i, and no order is better.           *)
BestOf(m, n, i) ==
  \A j \in 1 .. n - 1 :
    m.orders[j].for_sale > 0 /\ m.orders[j].sells = m.orders[i].sells
      => ~Better(m.orders[j].sell_price, m.orders[i].sell_price)

(* One order changes.                                                      *)
LEMMA FillsSame ==
  ASSUME NEW m \in Book, NEW i \in DOMAIN m.orders, NEW a, NEW b, NEW t, Fills(m, i, a, b, t)
  PROVE  /\ t \in Book /\ Same(m.orders, t.orders) /\ (Sound(m.orders) => Sound(t.orders))
         /\ \A j \in DOMAIN m.orders : j # i => t.orders[j] = m.orders[j]
         /\ a = m.orders[i].for_sale => t.orders[i].for_sale = 0
<1>1. PICK x \in Nat :
        /\ Leaves(m, i, x, t)
        /\ x = 0 \/ in_quote(x, m.orders[i].sell_price) > 0
        /\ a = m.orders[i].for_sale => x = 0
  BY DEF Fills
<1>2. /\ t \in Book /\ Same(m.orders, t.orders)
      /\ \A j \in DOMAIN m.orders : j # i => t.orders[j] = m.orders[j]
      /\ a = m.orders[i].for_sale => t.orders[i].for_sale = 0
  BY <1>1 DEF Leaves, Same
<1>3. ASSUME Sound(m.orders) PROVE Sound(t.orders)
  <2> SUFFICES ASSUME NEW j \in DOMAIN t.orders
               PROVE  t.orders[j].for_sale = 0 \/ amount_to_receive(t.orders[j]) > 0
    BY DEF Sound
  <2>1. CASE j = i
    BY <1>1, <2>1 DEF Leaves, amount_to_receive
  <2>2. CASE j # i
    BY <1>1, <1>3, <2>2 DEF Leaves, Sound
  <2> QED BY <2>1, <2>2
<1> QED
  BY <1>2, <1>3

(* match, for amounts that both orders have                                *)
LEMMA MatchTrades ==
  ASSUME NEW m \in Book, NEW n \in DOMAIN m.orders, NEW i \in DOMAIN m.orders, i # n,
         m.orders[i].sells = Other(m.orders[n].sells),
         new_order_receives(m.orders[n], m.orders[i]) \in Nat,
         old_order_receives(m.orders[n], m.orders[i]) \in Nat,
         new_order_receives(m.orders[n], m.orders[i]) <= m.orders[i].for_sale,
         old_order_receives(m.orders[n], m.orders[i]) <= m.orders[n].for_sale
  PROVE  LET to_new == new_order_receives(m.orders[n], m.orders[i])
             to_old == old_order_receives(m.orders[n], m.orders[i])
             t == match(m, n, i)
         IN  /\ Traded(m, n, i, t)
             /\ to_old = m.orders[n].for_sale => t.orders[n].for_sale = 0
             /\ to_new = m.orders[i].for_sale => t.orders[i].for_sale = 0
             /\ /\ m.fair /\ BestOf(m, n, i) /\ to_new > 0 /\ to_old > 0
                /\ to_new >= in_quote(to_old, m.orders[n].sell_price)
                /\ to_old >= in_quote(to_new, m.orders[i].sell_price)
                => t.fair
<1> DEFINE a == new_order_receives(m.orders[n], m.orders[i])
           b == old_order_receives(m.orders[n], m.orders[i])
           s == fill_order(m, n, b, a)
           u == fill_order(s, i, a, b)
           t == match(m, n, i)
<1>1. t = [u EXCEPT !.fair = @ /\ BestOf(m, n, i)]
  BY DEF match, BestOf
<1>2. Fills(m, n, b, a, s)
  BY FillOrder
<1>3. a \in Nat /\ b \in Nat /\ a <= m.orders[i].for_sale /\ b <= m.orders[n].for_sale
  OBVIOUS
<1> SUFFICES /\ Traded(m, n, i, t)
             /\ b = m.orders[n].for_sale => t.orders[n].for_sale = 0
             /\ a = m.orders[i].for_sale => t.orders[i].for_sale = 0
             /\ /\ m.fair /\ BestOf(m, n, i) /\ a > 0 /\ b > 0
                /\ a >= in_quote(b, m.orders[n].sell_price)
                /\ b >= in_quote(a, m.orders[i].sell_price)
                => t.fair
  OBVIOUS
<1>4. /\ s \in Book /\ Same(m.orders, s.orders) /\ (Sound(m.orders) => Sound(s.orders))
      /\ \A j \in DOMAIN m.orders : j # n => s.orders[j] = m.orders[j]
      /\ b = m.orders[n].for_sale => s.orders[n].for_sale = 0
  <2> HIDE DEF s, a, b
  <2> QED BY <1>2, FillsSame
<1>5. s.orders[i] = m.orders[i] /\ i \in DOMAIN s.orders /\ n \in DOMAIN s.orders
  <2> HIDE DEF s
  <2> QED BY <1>4 DEF Same
<1>6. Fills(s, i, a, b, u)
  <2> HIDE DEF s, a, b
  <2> QED BY <1>3, <1>4, <1>5, FillOrder
<1> HIDE DEF s, a, b
<1>7. /\ u \in Book /\ Same(s.orders, u.orders) /\ (Sound(s.orders) => Sound(u.orders))
      /\ \A j \in DOMAIN s.orders : j # i => u.orders[j] = s.orders[j]
      /\ a = m.orders[i].for_sale => u.orders[i].for_sale = 0
  <2> HIDE DEF u
  <2> QED BY <1>4, <1>5, <1>6, FillsSame
<1> HIDE DEF u
<1>8. /\ t \in Book /\ t.balance = u.balance /\ t.orders = u.orders
      /\ t.fair = (u.fair /\ BestOf(m, n, i))
  <2>1. BestOf(m, n, i) \in BOOLEAN
    BY DEF BestOf
  <2> HIDE DEF t
  <2> QED BY <1>1, <1>7, <2>1 DEF Book
<1> HIDE DEF t
<1>9. ASSUME NEW x \in Assets PROVE Total(t, x) = Total(m, x)
  <2>1. Total(s, x) = Total(m, x) + (IF x = m.orders[n].sells THEN - b ELSE a)
    BY <1>2 DEF Fills
  <2>2. Total(u, x) = Total(s, x) + (IF x = m.orders[i].sells THEN - a ELSE b)
    BY <1>5, <1>6 DEF Fills
  <2>3. Total(t, x) = Total(u, x)
    BY <1>8 DEF Total
  <2>4. Total(m, x) \in Nat
    <3>1. InAccounts(m.balance, x) \in Nat /\ InOrders(m.orders, x) \in Nat
      BY BookTypes, Sums
    <3> QED BY <3>1 DEF Total
  <2>5. (x = m.orders[n].sells) <=> (x # m.orders[i].sells)
    <3>1. m.orders[n].sells \in Assets
      BY BookTypes
    <3> QED BY <3>1, TwoAssets
  <2> QED BY <1>3, <2>1, <2>2, <2>3, <2>4, <2>5
<1>10. \A j \in DOMAIN m.orders : j # n /\ j # i => t.orders[j] = m.orders[j]
  BY <1>4, <1>7, <1>8 DEF Same
<1>11. Same(m.orders, t.orders)
  BY <1>4, <1>7, <1>8 DEF Same
<1>12. Traded(m, n, i, t)
  BY <1>4, <1>7, <1>8, <1>9, <1>10, <1>11 DEF Traded
<1>13. /\ b = m.orders[n].for_sale => t.orders[n].for_sale = 0
       /\ a = m.orders[i].for_sale => t.orders[i].for_sale = 0
  BY <1>4, <1>5, <1>7, <1>8
<1>14. ASSUME m.fair, BestOf(m, n, i), a > 0, b > 0,
              a >= in_quote(b, m.orders[n].sell_price),
              b >= in_quote(a, m.orders[i].sell_price)
       PROVE  t.fair
  <2>1. s.fair
    BY <1>2, <1>14 DEF Fills
  <2>2. u.fair
    BY <1>5, <1>6, <1>14, <2>1 DEF Fills
  <2> QED BY <1>8, <1>14, <2>2
<1> QED
  BY <1>12, <1>13, <1>14

(* What the loop works on: the orders os, some of them filled.             *)
Partly(os) == {a \in Book : Same(os, a.orders) /\ Sound(a.orders)}

(* One turn of the loop.                                                   *)
LEMMA MatchNext ==
  ASSUME NEW os \in Seq(Entry), NEW n \in DOMAIN os, NEW a \in Partly(os),
         NEW i \in Candidates(os, n)
  PROVE  LET t == match_next(a, n, i)
         IN  /\ Traded(a, n, i, t) /\ t \in Partly(os)
             /\ a.orders[n].for_sale = 0 => t = a
             /\ a.orders[n].for_sale > 0 /\ a.orders[i].for_sale > 0
                  => t.orders[n].for_sale = 0 \/ t.orders[i].for_sale = 0
             /\ /\ a.orders[n].for_sale > 0 /\ a.orders[i].for_sale > 0
                /\ a.fair /\ BestOf(a, n, i)
                => t.fair
<1> DEFINE t == match_next(a, n, i)
           new == a.orders[n]
           old == a.orders[i]
           to_new == new_order_receives(new, old)
           to_old == old_order_receives(new, old)
<1>1. a \in Book /\ Same(os, a.orders) /\ Sound(a.orders)
  BY DEF Partly
<1>2. /\ n \in Int /\ DOMAIN os = 1 .. Len(os) /\ i \in DOMAIN os /\ i # n
      /\ Accepts(os[i], os[n])
  <2>1. DOMAIN os = 1 .. Len(os) /\ Len(os) \in Nat
    OBVIOUS
  <2> QED BY <2>1 DEF Candidates
<1>3. n \in DOMAIN a.orders /\ i \in DOMAIN a.orders
  BY <1>1, <1>2 DEF Same
<1>4. /\ new.for_sale \in Nat /\ old.for_sale \in Nat
      /\ new.sell_price \in Price /\ old.sell_price \in Price
      /\ new.sells \in Assets
  BY <1>1, <1>3, BookTypes
<1>5. /\ old.sells = Other(new.sells)
      /\ old.sell_price.base * new.sell_price.base >= new.sell_price.quote * old.sell_price.quote
  BY <1>1, <1>2 DEF Same, Accepts
<1>6. new.sell_price.quote * old.sell_price.quote <= old.sell_price.base * new.sell_price.base
  <2>1. /\ new.sell_price.quote \in Nat /\ old.sell_price.quote \in Nat
        /\ new.sell_price.base \in Nat /\ old.sell_price.base \in Nat
    BY <1>4 DEF Price
  <2> DEFINE x == new.sell_price.quote * old.sell_price.quote
             y == old.sell_price.base * new.sell_price.base
  <2>2. x \in Int /\ y \in Int /\ y >= x
    BY <1>5, <2>1
  <2> HIDE DEF x, y
  <2>3. x <= y
    BY <2>2
  <2> QED BY <2>3 DEF x, y
<1> SUFFICES /\ Traded(a, n, i, t)
             /\ new.for_sale = 0 => t = a
             /\ new.for_sale > 0 /\ old.for_sale > 0
                  => t.orders[n].for_sale = 0 \/ t.orders[i].for_sale = 0
             /\ new.for_sale > 0 /\ old.for_sale > 0 /\ a.fair /\ BestOf(a, n, i) => t.fair
  <2> HIDE DEF t
  <2>1. ASSUME Traded(a, n, i, t) PROVE t \in Partly(os)
    BY <1>1, <2>1 DEF Traded, Same, Partly
  <2> QED BY <2>1 DEF t
<1>7. CASE new.for_sale = 0
  <2>1. t = a
    BY <1>7 DEF match_next
  <2>2. Traded(a, n, i, a)
    BY <1>1 DEF Traded, Same
  <2> HIDE DEF t
  <2> QED BY <1>7, <2>1, <2>2
<1>8. CASE new.for_sale # 0 /\ old.for_sale = 0
  <2>1. t = match(a, n, i)
    BY <1>8 DEF match_next
  <2>2. in_quote(0, old.sell_price) = 0
    <3>1. old.sell_price.quote \in Nat /\ old.sell_price.base \in Nat \ {0}
      BY <1>4 DEF Price
    <3> DEFINE d == (0 * old.sell_price.quote) \div old.sell_price.base
    <3>2. 0 * old.sell_price.quote = 0
      BY <3>1
    <3>3. d \in Nat /\ d * old.sell_price.base <= 0
      BY <3>1, <3>2, Quotient
    <3>4. 1 <= d <=> 1 * old.sell_price.base <= 0
      BY <3>1, <3>2, QuotientAtLeast
    <3> HIDE DEF d
    <3>5. d = 0
      BY <3>1, <3>3, <3>4
    <3> QED BY <3>5 DEF in_quote, d
  <2>3. ~(new.for_sale <= 0)
    BY <1>4, <1>8
  <2>4. to_new = 0 /\ to_old = 0
    BY <1>8, <2>2, <2>3 DEF new_order_receives, old_order_receives
  <2>5. /\ to_new \in Nat /\ to_old \in Nat
        /\ to_new <= old.for_sale /\ to_old <= new.for_sale
    BY <1>4, <2>4
  <2>6. Traded(a, n, i, match(a, n, i))
    BY <1>1, <1>2, <1>3, <1>5, <2>5, MatchTrades
  <2>7. ~(old.for_sale > 0)
    BY <1>8
  <2> HIDE DEF t, old
  <2> QED BY <1>8, <2>1, <2>6, <2>7
<1>9. CASE new.for_sale # 0 /\ old.for_sale # 0
  <2>1. t = match(a, n, i)
    BY <1>9 DEF match_next
  <2>2. in_quote(new.for_sale, new.sell_price) > 0 /\ in_quote(old.for_sale, old.sell_price) > 0
    BY <1>1, <1>3, <1>9 DEF Sound, amount_to_receive
  <2>3. /\ to_new \in Nat /\ to_old \in Nat
        /\ to_new <= old.for_sale /\ to_old <= new.for_sale
        /\ to_new = old.for_sale \/ to_old = new.for_sale
        /\ to_new > 0 /\ to_new >= in_quote(to_old, new.sell_price)
        /\ to_old > 0 /\ to_old >= in_quote(to_new, old.sell_price)
    <3> HIDE DEF new, old
    <3> QED BY <1>4, <1>6, <1>9, <2>2, MatchAmounts
  <2>4. /\ Traded(a, n, i, t)
        /\ to_old = new.for_sale => t.orders[n].for_sale = 0
        /\ to_new = old.for_sale => t.orders[i].for_sale = 0
        /\ /\ a.fair /\ BestOf(a, n, i) /\ to_new > 0 /\ to_old > 0
           /\ to_new >= in_quote(to_old, new.sell_price)
           /\ to_old >= in_quote(to_new, old.sell_price)
           => t.fair
    <3>1. /\ a \in Book /\ n \in DOMAIN a.orders /\ i \in DOMAIN a.orders /\ i # n
          /\ a.orders[i].sells = Other(a.orders[n].sells)
          /\ new_order_receives(a.orders[n], a.orders[i]) \in Nat
          /\ old_order_receives(a.orders[n], a.orders[i]) \in Nat
          /\ new_order_receives(a.orders[n], a.orders[i]) <= a.orders[i].for_sale
          /\ old_order_receives(a.orders[n], a.orders[i]) <= a.orders[n].for_sale
      BY <1>1, <1>2, <1>3, <1>5, <2>3
    <3> HIDE DEF t
    <3> QED BY ONLY <2>1, <3>1, MatchTrades
  <2> HIDE DEF t, new, old, to_new, to_old
  <2> QED BY <1>9, <2>3, <2>4
<1> QED
  BY <1>7, <1>8, <1>9

(* q lists the orders in ids, each once, in the order of their matching.   *)
Ranked(os, ids, q) ==
  /\ q \in Seq(ids) /\ Len(q) \in Nat /\ DOMAIN q = 1 .. Len(q)
  /\ \A k \in 1 .. Len(q) : q[k] \in ids
  /\ \A k, l \in 1 .. Len(q) : k # l => q[k] # q[l]
  /\ \A k, l \in 1 .. Len(q) : k < l => MatchedBefore(os, q[k], q[l])
  /\ \A x \in ids : \E k \in 1 .. Len(q) : q[k] = x

(* The index by_price orders any set of orders.                            *)
LEMMA ByPriceRanks ==
  ASSUME NEW os \in Seq(Entry), NEW ids \in SUBSET DOMAIN os
  PROVE  Ranked(os, ids, ByPrice(os, ids))
<1> DEFINE P(x) == os[x].sell_price
           R == {r \in ids \X ids : MatchedBefore(os, r[1], r[2])}
           n == Cardinality(ids)
           s == ByPrice(os, ids)
<1>1. /\ DOMAIN os = 1 .. Len(os) /\ Len(os) \in Nat
      /\ \A x \in ids : x \in Int /\ P(x) \in Price
  <2>1. DOMAIN os = 1 .. Len(os) /\ Len(os) \in Nat
    OBVIOUS
  <2>2. \A x \in ids : os[x] \in Entry
    OBVIOUS
  <2> QED BY <2>1, <2>2 DEF Entry
<1>2. \A x, y \in ids : <<x, y>> \in R <=> MatchedBefore(os, x, y)
  OBVIOUS
<1>3. IsFiniteSet(ids) /\ n \in Nat
  <2>1. IsFiniteSet(DOMAIN os)
    BY <1>1, FS_Interval
  <2>2. IsFiniteSet(ids)
    BY <2>1, FS_Subset
  <2> QED BY <2>2, FS_CardinalityType
<1>4. \A x, y \in ids : /\ Better(P(x), P(y)) => ~Better(P(y), P(x))
                        /\ MatchedBefore(os, x, y) => ~Better(P(y), P(x))
  <2>1. \A x, y \in ids : Better(P(x), P(y)) => ~Better(P(y), P(x))
    BY <1>1, BetterTransitive
  <2> QED BY <2>1 DEF MatchedBefore
<1>5. \A x, y, z \in ids : ~Better(P(y), P(x)) /\ ~Better(P(z), P(y)) => ~Better(P(z), P(x))
  BY <1>1, BetterTransitive
<1>6. \A x, y \in ids : x = y \/ MatchedBefore(os, x, y) \/ MatchedBefore(os, y, x)
  <2>1. \A x, y \in ids : x = y \/ x < y \/ y < x
    BY <1>1
  <2> QED BY <2>1 DEF MatchedBefore
<1>7. ASSUME NEW x \in ids, NEW y \in ids, NEW z \in ids,
             MatchedBefore(os, x, y), MatchedBefore(os, y, z)
      PROVE  MatchedBefore(os, x, z)
  <2>1. ~Better(P(y), P(x)) /\ ~Better(P(z), P(y)) /\ ~Better(P(z), P(x))
    BY <1>4, <1>5, <1>7
  <2>2. CASE Better(P(x), P(z))
    BY <2>2 DEF MatchedBefore
  <2>3. CASE ~Better(P(x), P(z))
    <3>1. ~Better(P(x), P(y)) /\ ~Better(P(y), P(z))
      BY <1>5, <2>1, <2>3
    <3>2. x < y /\ y < z
      BY <1>7, <3>1 DEF MatchedBefore
    <3>3. x < z
      BY <1>1, <3>2
    <3> QED BY <2>1, <3>3 DEF MatchedBefore
  <2> QED BY <2>2, <2>3
<1>8. /\ \A x, y \in ids : x = y \/ <<x, y>> \in R \/ <<y, x>> \in R
      /\ \A x, y, z \in ids : <<x, y>> \in R /\ <<y, z>> \in R => <<x, z>> \in R
  <2> HIDE DEF R
  <2> QED BY <1>2, <1>6, <1>7
<1> HIDE DEF R
<1>9. PICK f \in [1 .. n -> ids] :
        /\ \A i, j \in 1 .. n : i # j => f[i] # f[j]
        /\ \A i, j \in 1 .. n : i < j => <<f[i], f[j]>> \in R
  BY <1>3, <1>8, SortedExists
<1>10. \A i, j \in 1 .. n : i < j => MatchedBefore(os, f[i], f[j])
  BY <1>2, <1>9
<1>11. f \in SetToSeqs(ids) /\ DOMAIN f = 1 .. n
  BY <1>9 DEF SetToSeqs
<1>12. s \in SetToSeqs(ids) /\ \A k, l \in DOMAIN s : k < l => MatchedBefore(os, s[k], s[l])
  <2> HIDE DEF n
  <2>1. \E g \in SetToSeqs(ids) : \A k, l \in DOMAIN g : k < l => MatchedBefore(os, g[k], g[l])
    BY <1>10, <1>11
  <2> QED BY <2>1 DEF ByPrice
<1> HIDE DEF s
<1>13. s \in [1 .. n -> ids] /\ DOMAIN s = 1 .. n /\ \A i, j \in 1 .. n : i # j => s[i] # s[j]
  BY <1>12 DEF SetToSeqs
<1>14. \A x \in ids : \E i \in 1 .. n : s[i] = x
  BY <1>3, <1>13, EnumerationComplete
<1>15. s \in Seq(ids) /\ Len(s) = n /\ \A k \in 1 .. n : s[k] \in ids
  <2> HIDE DEF n
  <2> QED BY <1>3, <1>13
<1> HIDE DEF n
<1> QED
  BY <1>3, <1>12, <1>13, <1>14, <1>15 DEF Ranked, s

(* A standing order that does not accept the new price is no better than   *)
(* one that does.                                                          *)
LEMMA AcceptedIsBetter ==
  ASSUME NEW new, NEW i, NEW j, new.sell_price \in Price, i.sell_price \in Price,
         j.sell_price \in Price, i.sells = j.sells, Accepts(i, new), ~Accepts(j, new)
  PROVE  ~Better(j.sell_price, i.sell_price)
<1> DEFINE b == new.sell_price.base
           c == new.sell_price.quote
           v == [base |-> c, quote |-> b]
           p == i.sell_price
           r == j.sell_price
<1>1. b \in Nat \ {0} /\ c \in Nat \ {0} /\ p.base \in Nat /\ p.quote \in Nat
      /\ r.base \in Nat /\ r.quote \in Nat
  BY DEF Price
<1>2. v \in Price /\ v.base = c /\ v.quote = b
  BY <1>1 DEF Price
<1>3. p.base * b >= c * p.quote /\ ~(r.base * b >= c * r.quote)
  BY DEF Accepts
<1>4. Better(v, p) <=> c * p.quote > p.base * b
  BY <1>2 DEF Better
<1>5. Better(v, r) <=> c * r.quote > r.base * b
  BY <1>2 DEF Better
<1>6. p.base * b \in Int /\ c * p.quote \in Int /\ r.base * b \in Int /\ c * r.quote \in Int
  BY <1>1
<1> HIDE DEF v, b, c
<1>7. ~Better(v, p) /\ Better(v, r)
  <2> DEFINE w == p.base * b
             x == c * p.quote
             y == r.base * b
             z == c * r.quote
  <2> HIDE DEF w, x, y, z, p, r
  <2> QED BY <1>3, <1>4, <1>5, <1>6 DEF w, x, y, z
<1>8. p \in Price /\ r \in Price
  OBVIOUS
<1> HIDE DEF p, r
<1>9. ~Better(r, v)
  BY <1>2, <1>7, <1>8, BetterTransitive
<1>10. ~Better(r, p)
  BY <1>2, <1>7, <1>8, <1>9, BetterTransitive
<1> QED
  BY <1>10 DEF p, r

(* The first of the candidates that are left is the best of all orders.    *)
LEMMA BestCandidate ==
  ASSUME NEW os \in Seq(Entry), NEW n \in DOMAIN os, NEW a \in Partly(os), NEW q,
         Ranked(os, Candidates(os, n), q), NEW k \in 1 .. Len(q),
         \A l \in 1 .. k - 1 : a.orders[q[l]].for_sale = 0
  PROVE  BestOf(a, n, q[k])
<1> DEFINE C == Candidates(os, n)
           i == q[k]
<1>0. /\ Len(q) \in Nat /\ i \in C
      /\ \A u, w \in 1 .. Len(q) : u < w => MatchedBefore(os, q[u], q[w])
      /\ \A x \in C : \E u \in 1 .. Len(q) : q[u] = x
  BY DEF Ranked
<1>1. DOMAIN os = 1 .. Len(os) /\ Len(os) \in Nat /\ n \in 1 .. Len(os)
  OBVIOUS
<1>2. a \in Book /\ Same(os, a.orders)
  BY DEF Partly
<1>3. \A j \in DOMAIN os : os[j] \in Entry /\ os[j].sell_price \in Price
  <2>1. \A j \in DOMAIN os : os[j] \in Entry
    OBVIOUS
  <2> QED BY <2>1 DEF Entry
<1>4. i \in DOMAIN os /\ Accepts(os[i], os[n])
  <2> HIDE DEF i
  <2> QED BY <1>0, <1>1 DEF Candidates
<1> HIDE DEF i
<1> SUFFICES ASSUME NEW j \in 1 .. n - 1, a.orders[j].for_sale > 0,
                    a.orders[j].sells = a.orders[i].sells
             PROVE  ~Better(a.orders[j].sell_price, a.orders[i].sell_price)
  BY DEF BestOf, i
<1>5. j \in DOMAIN os
  BY <1>1
<1>6. /\ a.orders[j].sell_price = os[j].sell_price /\ a.orders[i].sell_price = os[i].sell_price
      /\ os[j].sells = os[i].sells
  BY <1>2, <1>4, <1>5 DEF Same
<1> SUFFICES ~Better(os[j].sell_price, os[i].sell_price)
  BY <1>6
<1>7. CASE j \in C
  <2>1. PICK u \in 1 .. Len(q) : q[u] = j
    BY <1>0, <1>7
  <2>2. ~(u < k)
    <3> SUFFICES ASSUME u < k PROVE FALSE
      OBVIOUS
    <3>1. u \in 1 .. k - 1
      BY <1>0
    <3>2. a.orders[j].for_sale = 0
      BY <2>1, <3>1
    <3> QED BY <3>2
  <2>3. u = k \/ k < u
    BY <1>0, <2>2
  <2>4. CASE u = k
    <3>1. j = i
      BY <2>1, <2>4 DEF i
    <3> QED BY <1>3, <1>4, <3>1, BetterTransitive
  <2>5. CASE k < u
    <3>1. MatchedBefore(os, i, j)
      BY <1>0, <2>1, <2>5 DEF i
    <3>2. Better(os[i].sell_price, os[j].sell_price) => ~Better(os[j].sell_price, os[i].sell_price)
      BY <1>3, <1>4, <1>5, BetterTransitive
    <3> QED BY <3>1, <3>2 DEF MatchedBefore
  <2> QED BY <2>3, <2>4, <2>5
<1>8. CASE j \notin C
  <2>1. ~Accepts(os[j], os[n])
    BY <1>8 DEF Candidates
  <2> QED BY <1>3, <1>4, <1>5, <1>6, <2>1, AcceptedIsBetter
<1> QED
  BY <1>7, <1>8

(* The first k candidates have been matched: while the new order still has *)
(* something for sale, they have nothing left.                             *)
UpTo(m, n, q, k, a) ==
  /\ a \in Partly(m.orders) /\ a.fair
  /\ \A x \in Assets : Total(a, x) = Total(m, x)
  /\ \A j \in DOMAIN m.orders :
       j # n /\ (\A l \in 1 .. k : q[l] # j) => a.orders[j] = m.orders[j]
  /\ a.orders[n].for_sale > 0 => \A l \in 1 .. k : a.orders[q[l]].for_sale = 0

(* One turn of the loop, for the next candidate.                           *)
LEMMA MatchTurn ==
  ASSUME NEW m \in Book, NEW n \in DOMAIN m.orders, NEW q,
         Ranked(m.orders, Candidates(m.orders, n), q),
         \A j \in DOMAIN m.orders : m.orders[j].for_sale > 0,
         NEW k \in 1 .. Len(q), NEW a, UpTo(m, n, q, k - 1, a)
  PROVE  UpTo(m, n, q, k, match_next(a, n, q[k]))
<1> DEFINE os == m.orders
           C == Candidates(os, n)
           i == q[k]
           t == match_next(a, n, i)
<1>0. /\ Len(q) \in Nat /\ i \in C /\ \A l \in 1 .. Len(q) : q[l] \in C
      /\ \A u, w \in 1 .. Len(q) : u # w => q[u] # q[w]
  BY DEF Ranked
<1>1. os \in Seq(Entry)
  BY BookTypes
<1>2. DOMAIN os = 1 .. Len(os) /\ Len(os) \in Nat
  BY <1>1
<1>3. \A x \in C : x \in DOMAIN os /\ x # n
  BY <1>2 DEF Candidates
<1>4. /\ a \in Partly(os) /\ a.fair /\ \A x \in Assets : Total(a, x) = Total(m, x)
      /\ \A j \in DOMAIN os :
           j # n /\ (\A l \in 1 .. k - 1 : q[l] # j) => a.orders[j] = os[j]
      /\ a.orders[n].for_sale > 0 => \A l \in 1 .. k - 1 : a.orders[q[l]].for_sale = 0
  BY DEF UpTo
<1>5. a \in Book /\ DOMAIN a.orders = DOMAIN os /\ a.orders[n].for_sale \in Nat
  <2>1. a \in Book /\ DOMAIN a.orders = DOMAIN os
    BY <1>4 DEF Partly, Same
  <2> QED BY <2>1, BookTypes
<1>6. /\ \A l \in 1 .. k - 1 : l \in 1 .. Len(q) /\ l # k /\ l \in 1 .. k
      /\ \A l \in 1 .. k : l \in 1 .. Len(q) /\ (l = k \/ l \in 1 .. k - 1)
  BY <1>0
<1>7. a.orders[i] = os[i] /\ os[i].for_sale > 0
  BY <1>0, <1>3, <1>4, <1>6
<1>8. /\ Traded(a, n, i, t) /\ t \in Partly(os)
      /\ a.orders[n].for_sale = 0 => t = a
      /\ a.orders[n].for_sale > 0 /\ a.orders[i].for_sale > 0
           => t.orders[n].for_sale = 0 \/ t.orders[i].for_sale = 0
      /\ a.orders[n].for_sale > 0 /\ a.orders[i].for_sale > 0 /\ a.fair /\ BestOf(a, n, i)
           => t.fair
  <2> HIDE DEF i
  <2> QED BY <1>0, <1>1, <1>4, MatchNext
<1>9. a.orders[n].for_sale > 0 => BestOf(a, n, i)
  BY <1>1, <1>4, BestCandidate
<1> SUFFICES UpTo(m, n, q, k, t)
  OBVIOUS
<1> HIDE DEF t
<1>10. t.fair
  BY <1>4, <1>5, <1>7, <1>8, <1>9
<1>11. \A x \in Assets : Total(t, x) = Total(m, x)
  BY <1>4, <1>8 DEF Traded
<1>12. \A j \in DOMAIN os : j # n /\ j # i => t.orders[j] = a.orders[j]
  BY <1>5, <1>8 DEF Traded
<1>13. ASSUME NEW j \in DOMAIN os, j # n, \A l \in 1 .. k : q[l] # j
       PROVE  t.orders[j] = os[j]
  <2>1. k \in 1 .. k
    BY <1>0
  <2>2. j # i /\ \A l \in 1 .. k - 1 : q[l] # j
    BY <1>6, <1>13, <2>1
  <2> QED BY <1>4, <1>12, <1>13, <2>2
<1>14. ASSUME t.orders[n].for_sale > 0, NEW l \in 1 .. k
       PROVE  t.orders[q[l]].for_sale = 0
  <2>1. a.orders[n].for_sale > 0
    <3>1. a.orders[n].for_sale # 0
      BY <1>8, <1>14
    <3> QED BY <1>5, <3>1
  <2>2. t.orders[i].for_sale = 0
    BY <1>7, <1>8, <1>14, <2>1
  <2>3. CASE l = k
    BY <2>2, <2>3
  <2>4. CASE l # k
    <3>1. l \in 1 .. k - 1 /\ l \in 1 .. Len(q)
      BY <1>6, <2>4
    <3>2. a.orders[q[l]].for_sale = 0 /\ q[l] # i /\ q[l] # n /\ q[l] \in DOMAIN os
      BY <1>0, <1>3, <1>4, <2>1, <2>4, <3>1
    <3> QED BY <1>12, <3>2
  <2> QED BY <2>3, <2>4
<1> QED
  BY <1>8, <1>10, <1>11, <1>13, <1>14 DEF UpTo

(* apply_order                                                             *)
LEMMA ApplyOrder ==
  ASSUME NEW m \in Book, NEW n, n = Len(m.orders), n \in DOMAIN m.orders, m.fair,
         Sound(m.orders), \A j \in DOMAIN m.orders : m.orders[j].for_sale > 0
  PROVE  LET t == apply_order(m)
         IN  /\ t \in Partly(m.orders) /\ t.fair
             /\ \A x \in Assets : Total(t, x) = Total(m, x)
             /\ t.orders[n].for_sale > 0
                  => \A j \in 1 .. n - 1 :
                       Accepts(m.orders[j], m.orders[n]) => t.orders[j].for_sale = 0
<1> DEFINE os == m.orders
           C == Candidates(os, n)
           q == ByPrice(os, C)
           N == Len(q)
           B == Partly(os)
           t == apply_order(m)
<1>1. os \in Seq(Entry) /\ m \in B
  BY BookTypes DEF Partly, Same
<1>2. Ranked(os, C, q)
  <2>1. DOMAIN os = 1 .. Len(os) /\ Len(os) \in Nat
    BY <1>1
  <2>2. C \in SUBSET DOMAIN os
    BY <2>1 DEF Candidates
  <2> HIDE DEF C, os
  <2> QED BY <1>1, <2>2, ByPriceRanks
<1>3. t = MatchAll(n, m, q)
  BY DEF apply_order, MatchAll
<1> SUFFICES /\ t \in Partly(os) /\ t.fair
             /\ \A x \in Assets : Total(t, x) = Total(m, x)
             /\ t.orders[n].for_sale > 0
                  => \A j \in 1 .. n - 1 : Accepts(os[j], os[n]) => t.orders[j].for_sale = 0
  OBVIOUS
<1> HIDE DEF q, t
<1>4. /\ q \in Seq(C) /\ N \in Nat /\ \A k \in 1 .. N : q[k] \in C
      /\ \A x \in C : \E k \in 1 .. N : q[k] = x
  BY <1>2 DEF Ranked
<1>5. \A a \in B, x \in C : match_next(a, n, x) \in B
  BY <1>1, MatchNext
<1>6. PICK p : /\ MatchRun(p, n, m, q, B)
               /\ p[Len(q)] = MatchAll(n, m, q)
  <2>1. m \in B /\ q \in Seq(C)
    BY <1>1, <1>4
  <2> HIDE DEF B, C
  <2> QED BY ONLY <1>5, <2>1, MatchFold
<1>7. p[0] = m /\ p[N] = t /\ \A k \in 1 .. N : p[k] = match_next(p[k - 1], n, q[k])
  BY <1>3, <1>6 DEF MatchRun
<1> DEFINE P == {k \in Nat : k <= N => UpTo(m, n, q, k, p[k])}
<1>8. 0 \in P
  <2>1. UpTo(m, n, q, 0, m)
    BY <1>1 DEF UpTo
  <2> QED BY <1>7, <2>1
<1>9. ASSUME NEW k \in Nat, k \in P PROVE k + 1 \in P
  <2> SUFFICES ASSUME k + 1 <= N PROVE UpTo(m, n, q, k + 1, p[k + 1])
    OBVIOUS
  <2> DEFINE l == k + 1
  <2>1. l \in 1 .. N /\ l - 1 = k /\ k <= N
    BY <1>4
  <2>2. UpTo(m, n, q, l - 1, p[l - 1])
    BY <1>9, <2>1
  <2>3. p[l] = match_next(p[l - 1], n, q[l])
    BY <1>7, <2>1
  <2> HIDE DEF l
  <2>4. UpTo(m, n, q, l, match_next(p[l - 1], n, q[l]))
    BY <1>2, <2>1, <2>2, MatchTurn
  <2> QED BY <2>3, <2>4 DEF l
<1>10. UpTo(m, n, q, N, t)
  <2>1. Nat \subseteq P
    <3> HIDE DEF P
    <3> QED BY <1>8, <1>9, NaturalInduction
  <2>2. N \in P
    BY <1>4, <2>1
  <2> QED BY <1>4, <1>7, <2>2
<1>11. ASSUME t.orders[n].for_sale > 0, NEW j \in 1 .. n - 1, Accepts(os[j], os[n])
       PROVE  t.orders[j].for_sale = 0
  <2>1. j \in C
    BY <1>11 DEF Candidates
  <2>2. PICK k \in 1 .. N : q[k] = j
    BY <1>4, <2>1
  <2> QED BY <1>10, <1>11, <2>2 DEF UpTo
<1> QED
  BY <1>10, <1>11 DEF UpTo

(* Two orders accept each other or not at all, and none accepts itself.    *)
LEMMA AcceptsBoth ==
  ASSUME NEW i \in Entry, NEW j \in Entry
  PROVE  (Accepts(i, j) => Accepts(j, i)) /\ ~Accepts(i, i)
<1>1. i.sells \in Assets /\ j.sells \in Assets
  BY DEF Entry
<1>2. /\ i.sell_price.base \in Nat /\ i.sell_price.quote \in Nat
      /\ j.sell_price.base \in Nat /\ j.sell_price.quote \in Nat
  BY DEF Entry, Price
<1>3. /\ i.sell_price.base * j.sell_price.base = j.sell_price.base * i.sell_price.base
      /\ i.sell_price.quote * j.sell_price.quote = j.sell_price.quote * i.sell_price.quote
  BY <1>2
<1>4. i.sells = Other(j.sells) => j.sells = Other(i.sells)
  BY <1>1, TwoAssets
<1>5. i.sells # Other(i.sells)
  BY <1>1, TwoAssets
<1> QED
  BY <1>3, <1>4, <1>5 DEF Accepts

(* No two orders that have something for sale accept each other.           *)
Untradable(os) ==
  \A i, j \in DOMAIN os : os[i].for_sale > 0 /\ os[j].for_sale > 0 => ~Accepts(os[i], os[j])

(* Matching the last order leaves no two that accept each other.           *)
LEMMA ApplyOrderLeaves ==
  ASSUME NEW m \in Book, NEW n, n = Len(m.orders), n \in DOMAIN m.orders, m.fair,
         Sound(m.orders), \A j \in DOMAIN m.orders : m.orders[j].for_sale > 0,
         \A i, j \in 1 .. n - 1 : ~Accepts(m.orders[i], m.orders[j])
  PROVE  LET t == apply_order(m)
         IN  /\ t \in Book /\ t.fair /\ Sound(t.orders) /\ Untradable(t.orders)
             /\ \A x \in Assets : Total(t, x) = Total(m, x)
<1> DEFINE os == m.orders
           t == apply_order(m)
<1>1. /\ t \in Partly(os) /\ t.fair
      /\ \A x \in Assets : Total(t, x) = Total(m, x)
      /\ t.orders[n].for_sale > 0
           => \A j \in 1 .. n - 1 : Accepts(os[j], os[n]) => t.orders[j].for_sale = 0
  BY ApplyOrder
<1> HIDE DEF t
<1>2. t \in Book /\ Same(os, t.orders) /\ Sound(t.orders)
  BY <1>1 DEF Partly
<1>3. DOMAIN os = 1 .. n /\ n \in Nat /\ \A j \in DOMAIN os : os[j] \in Entry
  BY BookTypes
<1>4. ASSUME NEW i \in DOMAIN os, NEW j \in DOMAIN os, t.orders[i].for_sale > 0,
             t.orders[j].for_sale > 0, Accepts(os[i], os[j])
      PROVE  FALSE
  <2>1. \A x \in DOMAIN os : x = n \/ x \in 1 .. n - 1
    BY <1>3
  <2>2. CASE i = n /\ j = n
    BY <1>3, <1>4, <2>2, AcceptsBoth
  <2>3. CASE i = n /\ j \in 1 .. n - 1
    <3>1. Accepts(os[j], os[n])
      BY <1>3, <1>4, <2>3, AcceptsBoth
    <3>2. t.orders[j].for_sale = 0
      BY <1>1, <1>4, <2>3, <3>1
    <3> QED BY <1>4, <3>2
  <2>4. CASE i \in 1 .. n - 1 /\ j = n
    <3>1. t.orders[i].for_sale = 0
      BY <1>1, <1>4, <2>4
    <3> QED BY <1>4, <3>1
  <2>5. CASE i \in 1 .. n - 1 /\ j \in 1 .. n - 1
    BY <1>4, <2>5
  <2> QED BY <2>1, <2>2, <2>3, <2>4, <2>5
<1>5. Untradable(t.orders)
  <2> SUFFICES ASSUME NEW i \in DOMAIN t.orders, NEW j \in DOMAIN t.orders,
                      t.orders[i].for_sale > 0, t.orders[j].for_sale > 0,
                      Accepts(t.orders[i], t.orders[j])
               PROVE  FALSE
    BY DEF Untradable
  <2>1. i \in DOMAIN os /\ j \in DOMAIN os
    BY <1>2 DEF Same
  <2>2. Accepts(os[i], os[j])
    BY <1>2, <2>1 DEF Same, Accepts
  <2> QED BY <1>4, <2>1, <2>2
<1> QED
  BY <1>1, <1>2, <1>5 DEF t

-----------------------------------------------------------------------------
(* Standing orders                                                         *)

(* An order more.                                                          *)
LEMMA AppendOrder ==
  ASSUME NEW os \in Seq(Entry), NEW o \in Entry, NEW asset \in Assets
  PROVE  InOrders(Append(os, o), asset)
           = InOrders(os, asset) + (IF o.sells = asset THEN o.for_sale ELSE 0)
<1> DEFINE n == Len(os)
           us == Append(os, o)
           f == [i \in DOMAIN os |-> IF os[i].sells = asset THEN os[i].for_sale ELSE 0]
           g == [i \in DOMAIN us |-> IF us[i].sells = asset THEN us[i].for_sale ELSE 0]
<1>1. /\ n \in Nat /\ DOMAIN os = 1 .. n /\ us \in Seq(Entry) /\ DOMAIN us = 1 .. n + 1
      /\ us[n + 1] = o /\ \A i \in 1 .. n : us[i] = os[i]
  OBVIOUS
<1>2. Numeric(f, 1 .. n) /\ Numeric(g, 1 .. n + 1)
  BY <1>1, Sums
<1> HIDE DEF us
<1>3. g[n + 1] = (IF o.sells = asset THEN o.for_sale ELSE 0) /\ \A i \in 1 .. n : f[i] = g[i]
  BY <1>1
<1>4. InOrders(os, asset) = SumFunctionOnSet(f, 1 .. n)
      /\ InOrders(us, asset) = SumFunctionOnSet(g, 1 .. n + 1)
  BY <1>1 DEF InOrders
<1> HIDE DEF f, g
<1>5. (1 .. n + 1) \ {n + 1} = 1 .. n /\ n + 1 \in 1 .. n + 1
  BY <1>1
<1>6. SumFunctionOnSet(g, 1 .. n + 1) = g[n + 1] + SumFunctionOnSet(g, 1 .. n)
  <2>1. SumFunctionOnSet(g, 1 .. n + 1) = g[n + 1] + SumFunctionOnSet(g, (1 .. n + 1) \ {n + 1})
    BY <1>2, <1>5, SumRemove
  <2> QED BY <1>5, <2>1
<1>7. SumFunctionOnSet(g, 1 .. n) = SumFunctionOnSet(f, 1 .. n)
  BY <1>2, <1>3, SumEqual
<1>8. SumFunctionOnSet(f, 1 .. n) \in Int /\ g[n + 1] \in Int
  BY <1>2, <1>5, SumInt DEF Numeric
<1>9. InOrders(us, asset) = InOrders(os, asset) + g[n + 1]
  BY <1>4, <1>6, <1>7, <1>8
<1> QED
  BY <1>3, <1>9 DEF us

(* us are those of the first k orders of os that have something for sale.  *)
Filtered(os, k, us) ==
  /\ us \in Seq(Order)
  /\ \A i \in DOMAIN us : \E j \in 1 .. k : us[i] = os[j]
  /\ \A x \in Assets :
       InOrders(us, x)
         = SumFunctionOnSet([i \in DOMAIN os |-> IF os[i].sells = x THEN os[i].for_sale ELSE 0],
                            1 .. k)

(* An order has something for sale.                                        *)
LEMMA OrderEntry ==
  /\ Order \subseteq Entry /\ Seq(Order) \subseteq Seq(Entry)
  /\ \A o \in Entry : o.for_sale > 0 => o \in Order
  /\ \A o \in Order : o.for_sale > 0
<1>1. Order \subseteq Entry
  BY DEF Order, Entry
<1>2. \A o \in Entry : o.for_sale > 0 => o \in Order
  BY DEF Order, Entry
<1>3. \A o \in Order : o.for_sale > 0
  BY DEF Order
<1>4. Seq(Order) \subseteq Seq(Entry)
  BY <1>1
<1> QED
  BY <1>1, <1>2, <1>3, <1>4

(* One order more is looked at.                                            *)
LEMMA KeepFilters ==
  ASSUME NEW os \in Seq(Entry), NEW k \in 1 .. Len(os), NEW us, Filtered(os, k - 1, us)
  PROVE  Filtered(os, k, Keep(us, os[k]))
<1> DEFINE o == os[k]
           ws == Keep(us, o)
           f(x) == [i \in DOMAIN os |-> IF os[i].sells = x THEN os[i].for_sale ELSE 0]
<1>1. /\ us \in Seq(Order) /\ \A i \in DOMAIN us : \E j \in 1 .. k - 1 : us[i] = os[j]
      /\ \A x \in Assets : InOrders(us, x) = SumFunctionOnSet(f(x), 1 .. k - 1)
  BY DEF Filtered
<1>2. Len(os) \in Nat /\ DOMAIN os = 1 .. Len(os) /\ o \in Entry /\ us \in Seq(Entry)
  BY <1>1, OrderEntry
<1>3. o.for_sale \in Nat
  BY <1>2 DEF Entry
<1>4. ASSUME NEW x \in Assets
      PROVE  /\ SumFunctionOnSet(f(x), 1 .. k)
                  = SumFunctionOnSet(f(x), 1 .. k - 1) + (IF o.sells = x THEN o.for_sale ELSE 0)
             /\ SumFunctionOnSet(f(x), 1 .. k - 1) \in Int
  <2> DEFINE g == f(x)
  <2>1. Numeric(g, DOMAIN os)
    BY Sums
  <2>2. g[k] = IF o.sells = x THEN o.for_sale ELSE 0
    BY <1>2
  <2>3. g[k] \in Int
    BY <1>3, <2>2
  <2> HIDE DEF g
  <2>4. Numeric(g, 1 .. k) /\ Numeric(g, 1 .. k - 1)
    <3>1. 1 .. k \subseteq DOMAIN os /\ 1 .. k - 1 \subseteq DOMAIN os
      BY <1>2
    <3> QED BY <2>1, <3>1, FS_Subset DEF Numeric
  <2>5. (1 .. k) \ {k} = 1 .. k - 1 /\ k \in 1 .. k
    BY <1>2
  <2>6. SumFunctionOnSet(g, 1 .. k) = g[k] + SumFunctionOnSet(g, 1 .. k - 1)
    <3>1. SumFunctionOnSet(g, 1 .. k) = g[k] + SumFunctionOnSet(g, (1 .. k) \ {k})
      BY <2>4, <2>5, SumRemove
    <3> QED BY <2>5, <3>1
  <2>7. SumFunctionOnSet(g, 1 .. k - 1) \in Int
    BY <2>4, SumInt
  <2>8. SumFunctionOnSet(g, 1 .. k) = SumFunctionOnSet(g, 1 .. k - 1) + g[k]
    BY <2>3, <2>6, <2>7
  <2> QED BY <2>2, <2>7, <2>8 DEF g
<1> HIDE DEF f
<1>5. 1 .. k - 1 \subseteq 1 .. k /\ k \in 1 .. k
  BY <1>2
<1> SUFFICES /\ ws \in Seq(Order) /\ \A i \in DOMAIN ws : \E j \in 1 .. k : ws[i] = os[j]
             /\ \A x \in Assets : InOrders(ws, x) = SumFunctionOnSet(f(x), 1 .. k)
  BY DEF Filtered, f
<1>6. CASE o.for_sale > 0
  <2>1. ws = Append(us, o) /\ o \in Order
    BY <1>2, <1>6, OrderEntry DEF Keep
  <2> HIDE DEF ws, o
  <2>2. /\ ws \in Seq(Order) /\ DOMAIN ws = 1 .. Len(us) + 1 /\ ws[Len(us) + 1] = o
        /\ Len(us) \in Nat /\ DOMAIN us = 1 .. Len(us) /\ \A i \in 1 .. Len(us) : ws[i] = us[i]
    BY <1>1, <2>1
  <2>3. \A i \in DOMAIN ws : i \in DOMAIN us \/ i = Len(us) + 1
    BY <2>2
  <2>4. ASSUME NEW i \in DOMAIN ws PROVE \E j \in 1 .. k : ws[i] = os[j]
    <3>1. CASE i \in DOMAIN us
      BY <1>1, <1>5, <2>2, <3>1
    <3>2. CASE i = Len(us) + 1
      BY <1>5, <2>2, <3>2 DEF o
    <3> QED BY <2>3, <3>1, <3>2
  <2>5. \A x \in Assets : InOrders(ws, x) = SumFunctionOnSet(f(x), 1 .. k)
    BY <1>1, <1>2, <1>4, <2>1, AppendOrder
  <2> QED BY <2>2, <2>4, <2>5
<1>7. CASE ~(o.for_sale > 0)
  <2>1. ws = us /\ o.for_sale = 0
    BY <1>3, <1>7 DEF Keep
  <2> HIDE DEF ws, o
  <2>2. \A x \in Assets : InOrders(ws, x) = SumFunctionOnSet(f(x), 1 .. k)
    BY <1>1, <1>4, <2>1
  <2>3. \A i \in DOMAIN ws : \E j \in 1 .. k : ws[i] = os[j]
    BY <1>1, <1>5, <2>1
  <2> QED BY <1>1, <2>1, <2>2, <2>3
<1> QED
  BY <1>6, <1>7

(* The standing orders are orders of the book, and hold all that is held.  *)
LEMMA StandingOrders ==
  ASSUME NEW os \in Seq(Entry)
  PROVE  LET us == Standing(os)
         IN  /\ us \in Seq(Order)
             /\ \A i \in DOMAIN us : \E j \in DOMAIN os : us[i] = os[j]
             /\ \A x \in Assets : InOrders(us, x) = InOrders(os, x)
<1> DEFINE us == Standing(os)
           N == Len(os)
           B == Seq(Order)
<1>1. us = KeepAll(<<>>, os)
  BY DEF Standing, KeepAll
<1>2. N \in Nat /\ DOMAIN os = 1 .. N /\ <<>> \in B
  OBVIOUS
<1>3. \A a \in B, o \in Entry : Keep(a, o) \in B
  <2> SUFFICES ASSUME NEW a \in B, NEW o \in Entry PROVE Keep(a, o) \in B
    OBVIOUS
  <2>1. o.for_sale > 0 => o \in Order
    BY OrderEntry
  <2> QED BY <2>1 DEF Keep
<1>4. PICK p : KeepRun(p, <<>>, os, B) /\ p[Len(os)] = KeepAll(<<>>, os)
  <2> HIDE DEF B
  <2> QED BY ONLY os \in Seq(Entry), <1>2, <1>3, KeepFold
<1>5. p[0] = <<>> /\ p[N] = us /\ \A k \in 1 .. N : p[k] = Keep(p[k - 1], os[k])
  BY <1>1, <1>4 DEF KeepRun
<1> DEFINE P == {k \in Nat : k <= N => Filtered(os, k, p[k])}
<1>6. 0 \in P
  <2> DEFINE e == p[0]
             D == DOMAIN e
  <2>1. e \in Seq(Order) /\ D = {} /\ 1 .. 0 = {}
    BY <1>5
  <2>2. ASSUME NEW x \in Assets
        PROVE  InOrders(e, x)
                 = SumFunctionOnSet([i \in DOMAIN os |-> IF os[i].sells = x
                                                         THEN os[i].for_sale ELSE 0], 1 .. 0)
    <3> DEFINE g == [i \in DOMAIN e |-> IF e[i].sells = x THEN e[i].for_sale ELSE 0]
               h == [i \in DOMAIN os |-> IF os[i].sells = x THEN os[i].for_sale ELSE 0]
    <3>1. InOrders(e, x) = SumFunctionOnSet(g, {})
      <4> HIDE DEF e
      <4> QED BY <2>1 DEF InOrders
    <3> HIDE DEF e, g, h
    <3>2. SumFunctionOnSet(g, {}) = 0 /\ SumFunctionOnSet(h, {}) = 0
      BY SumEmpty
    <3> QED BY <2>1, <3>1, <3>2 DEF h
  <2>3. Filtered(os, 0, e)
    <3> HIDE DEF e
    <3> QED BY <2>1, <2>2 DEF Filtered
  <2> QED BY <2>3
<1>7. ASSUME NEW k \in Nat, k \in P PROVE k + 1 \in P
  <2> SUFFICES ASSUME k + 1 <= N PROVE Filtered(os, k + 1, p[k + 1])
    OBVIOUS
  <2> DEFINE l == k + 1
  <2>1. l \in 1 .. N /\ l - 1 = k /\ k <= N
    BY <1>2
  <2>2. Filtered(os, l - 1, p[l - 1]) /\ p[l] = Keep(p[l - 1], os[l])
    BY <1>5, <1>7, <2>1
  <2> HIDE DEF l
  <2>3. Filtered(os, l, Keep(p[l - 1], os[l]))
    BY <2>1, <2>2, KeepFilters
  <2> QED BY <2>2, <2>3 DEF l
<1>8. Filtered(os, N, us)
  <2>1. Nat \subseteq P
    <3> HIDE DEF P
    <3> QED BY <1>6, <1>7, NaturalInduction
  <2>2. N \in P
    BY <1>2, <2>1
  <2> QED BY <1>2, <1>5, <2>2
<1> HIDE DEF us
<1>9. /\ us \in Seq(Order) /\ \A i \in DOMAIN us : \E j \in DOMAIN os : us[i] = os[j]
      /\ \A x \in Assets : InOrders(us, x) = InOrders(os, x)
  BY <1>2, <1>8 DEF Filtered, InOrders
<1> QED
  BY <1>9 DEF us

(* A book whose orders can be kept as they stand.                          *)
Settled(m) == m \in Book /\ Sound(m.orders) /\ Untradable(m.orders)

(* No order of a settled book trades, and none sells for nothing.          *)
LEMMA StandingClean ==
  ASSUME NEW m, Settled(m)
  PROVE  LET us == Standing(m.orders)
         IN  \A i \in DOMAIN us :
               /\ amount_to_receive(us[i]) > 0
               /\ \A j \in DOMAIN us : ~Accepts(us[i], us[j])
<1> DEFINE os == m.orders
           us == Standing(os)
<1>1. os \in Seq(Entry) /\ Sound(os) /\ Untradable(os)
  BY BookTypes DEF Settled
<1>2. us \in Seq(Order) /\ \A i \in DOMAIN us : \E j \in DOMAIN os : us[i] = os[j]
  BY <1>1, StandingOrders
<1>3. \A i \in DOMAIN us : us[i].for_sale > 0 /\ us[i].for_sale # 0
  <2>1. \A i \in DOMAIN us : us[i] \in Order
    BY <1>2
  <2> HIDE DEF us
  <2> QED BY <2>1 DEF Order
<1> HIDE DEF us, os
<1>4. \A i \in DOMAIN us :
        /\ amount_to_receive(us[i]) > 0
        /\ \A j \in DOMAIN us : ~Accepts(us[i], us[j])
  BY <1>1, <1>2, <1>3 DEF Sound, Untradable
<1> QED
  BY <1>4 DEF us, os

-----------------------------------------------------------------------------
(* The end of a block                                                      *)

(* Any finite set can be listed.                                           *)
LEMMA SetToSeqLists ==
  ASSUME NEW S, IsFiniteSet(S)
  PROVE  SetToSeq(S) \in Seq(S)
<1> DEFINE n == Cardinality(S)
           R == S \X S
<1>1. n \in Nat
  BY FS_CardinalityType
<1>2. /\ \A x, y \in S : x = y \/ <<x, y>> \in R \/ <<y, x>> \in R
      /\ \A x, y, z \in S : <<x, y>> \in R /\ <<y, z>> \in R => <<x, z>> \in R
  OBVIOUS
<1> HIDE DEF R
<1>3. PICK f \in [1 .. n -> S] : \A i, j \in 1 .. n : i # j => f[i] # f[j]
  BY <1>2, SortedExists
<1>4. IsInjective(f)
  BY <1>3 DEF IsInjective
<1>5. SetToSeq(S) \in [1 .. n -> S]
  <2> HIDE DEF n
  <2>1. \E g \in [1 .. n -> S] : IsInjective(g)
    BY <1>4
  <2> QED BY <2>1 DEF SetToSeq, n
<1> HIDE DEF n
<1> QED
  BY <1>1, <1>5

(* The book m with some of its orders cancelled.                           *)
Cleared(m) ==
  {a \in Book : /\ DOMAIN a.orders = DOMAIN m.orders /\ Settled(a) /\ a.fair = m.fair
                /\ \A x \in Assets : Total(a, x) = Total(m, x)}

(* Orders that are cancelled leave the book settled.                       *)
LEMMA CancelSettled ==
  ASSUME NEW m, NEW a \in Cleared(m), NEW i \in DOMAIN m.orders
  PROVE  cancel_order(a, i) \in Cleared(m)
<1> DEFINE t == cancel_order(a, i)
<1>1. a \in Book /\ DOMAIN a.orders = DOMAIN m.orders /\ Settled(a) /\ a.fair = m.fair
      /\ \A x \in Assets : Total(a, x) = Total(m, x)
  BY DEF Cleared
<1>2. Leaves(a, i, 0, t) /\ t.fair = a.fair /\ \A x \in Assets : Total(t, x) = Total(a, x)
  BY <1>1, CancelOrder
<1> HIDE DEF t
<1>3. /\ t \in Book /\ DOMAIN t.orders = DOMAIN a.orders /\ t.orders[i].for_sale = 0
      /\ \A j \in DOMAIN a.orders : j # i => t.orders[j] = a.orders[j]
  BY <1>2 DEF Leaves
<1>4. Sound(t.orders)
  BY <1>1, <1>3 DEF Settled, Sound
<1>5. \A j \in DOMAIN t.orders : t.orders[j].for_sale > 0 => t.orders[j] = a.orders[j]
  BY <1>3
<1>6. Untradable(t.orders)
  BY <1>1, <1>3, <1>5 DEF Settled, Untradable
<1> QED
  BY <1>1, <1>2, <1>3, <1>4, <1>6 DEF Cleared, Settled, t

(* clear_expired_orders                                                    *)
LEMMA ClearExpired ==
  ASSUME NEW m, Settled(m), NEW expired \in SUBSET DOMAIN m.orders
  PROVE  clear_expired_orders(m, expired) \in Cleared(m)
<1> DEFINE q == SetToSeq(expired)
           B == Cleared(m)
<1>1. m \in Book /\ m \in B
  BY DEF Settled, Cleared
<1>2. q \in Seq(expired)
  <2>1. IsFiniteSet(DOMAIN m.orders)
    <3>1. DOMAIN m.orders = 1 .. Len(m.orders) /\ Len(m.orders) \in Nat
      BY <1>1, BookTypes
    <3> QED BY <3>1, FS_Interval
  <2>2. IsFiniteSet(expired)
    BY <2>1, FS_Subset
  <2> QED BY <2>2, SetToSeqLists
<1>3. clear_expired_orders(m, expired) = CancelAll(m, q)
  BY DEF clear_expired_orders, CancelAll
<1> HIDE DEF q
<1>4. \A a \in B, x \in expired : cancel_order(a, x) \in B
  BY CancelSettled
<1>5. PICK p : CancelRun(p, m, q, B) /\ p[Len(q)] = CancelAll(m, q)
  <2> HIDE DEF B
  <2> QED BY ONLY <1>1, <1>2, <1>4, CancelFold
<1>6. Len(q) \in 0 .. Len(q)
  BY <1>2
<1>7. p[Len(q)] \in B
  BY <1>5, <1>6 DEF CancelRun
<1> QED
  BY <1>3, <1>5, <1>7

(* What the feed may say an amount of MBD is worth.                        *)
LEMMA Worth ==
  ASSUME NEW n \in Nat, NEW p \in FeedPrices \cup {NoPrice}
  PROVE  in_muse(n, p) \in Nat
<1>1. CASE p = NoPrice
  BY <1>1 DEF in_muse
<1>2. CASE p # NoPrice
  <2>1. p \in Price
    BY <1>2, MarketAssumption
  <2>2. in_base(n, p) \in Nat
    BY <2>1, PriceNat
  <2> QED BY <1>2, <2>2 DEF in_muse
<1> QED
  BY <1>1, <1>2

(* The amounts of conversions, and what is paid for them.                  *)
LEMMA ConversionSums ==
  ASSUME NEW rs \in Seq(Request), NEW p \in FeedPrices \cup {NoPrice}
  PROVE  /\ Len(rs) \in Nat /\ DOMAIN rs = 1 .. Len(rs)
         /\ \A i \in DOMAIN rs : rs[i].owner \in Accounts /\ rs[i].amount \in Nat
         /\ Numeric([i \in DOMAIN rs |-> rs[i].amount], DOMAIN rs) /\ converted(rs) \in Nat
         /\ Numeric([i \in DOMAIN rs |-> in_muse(rs[i].amount, p)], DOMAIN rs)
         /\ issued(rs, p) \in Nat
<1> DEFINE f == [i \in DOMAIN rs |-> rs[i].amount]
           g == [i \in DOMAIN rs |-> in_muse(rs[i].amount, p)]
<1>1. Len(rs) \in Nat /\ DOMAIN rs = 1 .. Len(rs) /\ \A i \in DOMAIN rs : rs[i] \in Request
  OBVIOUS
<1>2. \A i \in DOMAIN rs : rs[i].owner \in Accounts /\ rs[i].amount \in Nat
  BY <1>1 DEF Request
<1>3. IsFiniteSet(DOMAIN rs)
  BY <1>1, FS_Interval
<1>4. \A i \in DOMAIN rs : f[i] \in Nat /\ g[i] \in Nat
  BY <1>2, Worth
<1> HIDE DEF f, g
<1>5. /\ Numeric(f, DOMAIN rs) /\ SumFunctionOnSet(f, DOMAIN rs) \in Nat
      /\ Numeric(g, DOMAIN rs) /\ SumFunctionOnSet(g, DOMAIN rs) \in Nat
  BY <1>3, <1>4, SumNat
<1> QED
  BY <1>1, <1>2, <1>5 DEF f, g, converted, issued

(* A sum over the first numbers, by the last of them.                      *)
LEMMA SumLast ==
  ASSUME NEW f, NEW n \in Nat, Numeric(f, 1 .. n), NEW k \in 1 .. n
  PROVE  /\ SumFunctionOnSet(f, 1 .. k) = SumFunctionOnSet(f, 1 .. k - 1) + f[k]
         /\ SumFunctionOnSet(f, 1 .. k) \in Int /\ SumFunctionOnSet(f, 1 .. k - 1) \in Int
         /\ f[k] \in Int
<1>1. 1 .. k \subseteq 1 .. n /\ 1 .. k - 1 \subseteq 1 .. n /\ k \in 1 .. k
      /\ (1 .. k) \ {k} = 1 .. k - 1
  OBVIOUS
<1>2. Numeric(f, 1 .. k) /\ Numeric(f, 1 .. k - 1)
  BY <1>1, FS_Subset DEF Numeric
<1>3. SumFunctionOnSet(f, 1 .. k) = f[k] + SumFunctionOnSet(f, 1 .. k - 1)
  <2>1. SumFunctionOnSet(f, 1 .. k) = f[k] + SumFunctionOnSet(f, (1 .. k) \ {k})
    BY <1>1, <1>2, SumRemove
  <2> QED BY <1>1, <2>1
<1>4. SumFunctionOnSet(f, 1 .. k) \in Int /\ SumFunctionOnSet(f, 1 .. k - 1) \in Int
      /\ f[k] \in Int
  BY <1>1, <1>2, SumInt DEF Numeric
<1> QED
  BY <1>3, <1>4

(* The first k conversions have been paid.                                 *)
PaidUpTo(m, due, p, k, a) ==
  /\ a \in Book /\ a.orders = m.orders /\ a.fair = m.fair
  /\ \A x \in Assets :
       InAccounts(a.balance, x) = InAccounts(m.balance, x)
         + (IF x = MUSE
            THEN SumFunctionOnSet([i \in DOMAIN due |-> in_muse(due[i].amount, p)], 1 .. k)
            ELSE 0)

(* One conversion is paid.                                                 *)
LEMMA PayOne ==
  ASSUME NEW p \in FeedPrices \cup {NoPrice}, NEW a \in Book, NEW r \in Request
  PROVE  LET t == pay_conversion(a, r, p)
         IN  /\ t \in Book /\ t.orders = a.orders /\ t.fair = a.fair
             /\ \A x \in Assets : InAccounts(t.balance, x)
                  = InAccounts(a.balance, x) + (IF x = MUSE THEN in_muse(r.amount, p) ELSE 0)
<1> DEFINE w == in_muse(r.amount, p)
<1>1. r.owner \in Accounts /\ r.amount \in Nat
  BY DEF Request
<1>2. w \in Nat
  BY <1>1, Worth
<1>3. MUSE \in Assets
  BY TwoAssets
<1> HIDE DEF w
<1>4. a.balance[r.owner][MUSE] + w \in Nat /\ w \in Int
  <2>1. a.balance \in [Accounts -> [Assets -> Nat]]
    BY BookTypes
  <2> QED BY <1>1, <1>2, <1>3, <2>1
<1> DEFINE t == adjust_balance(a, r.owner, MUSE, w)
<1>5. /\ t \in Book /\ t.orders = a.orders /\ t.fair = a.fair
      /\ \A x \in Assets : InAccounts(t.balance, x)
           = InAccounts(a.balance, x) + (IF x = MUSE THEN w ELSE 0)
  BY <1>1, <1>3, <1>4, AdjustBalance
<1>6. t = pay_conversion(a, r, p)
  BY DEF pay_conversion, w
<1> HIDE DEF t
<1> QED
  BY <1>5, <1>6 DEF w

(* pay_conversions                                                         *)
LEMMA PayConversions ==
  ASSUME NEW m \in Book, NEW due \in Seq(Request), NEW p \in FeedPrices \cup {NoPrice}
  PROVE  LET t == pay_conversions(m, due, p)
         IN  /\ t \in Book /\ t.orders = m.orders /\ t.fair = m.fair
             /\ InAccounts(t.balance, MUSE) = InAccounts(m.balance, MUSE) + issued(due, p)
             /\ InAccounts(t.balance, MBD) = InAccounts(m.balance, MBD)
<1> DEFINE t == pay_conversions(m, due, p)
           N == Len(due)
           g == [i \in DOMAIN due |-> in_muse(due[i].amount, p)]
<1>1. /\ N \in Nat /\ DOMAIN due = 1 .. N /\ Numeric(g, DOMAIN due)
      /\ \A i \in 1 .. N : due[i] \in Request
  <2>1. N \in Nat /\ DOMAIN due = 1 .. N /\ Numeric(g, DOMAIN due)
    BY ConversionSums
  <2>2. \A i \in 1 .. Len(due) : due[i] \in Request
    OBVIOUS
  <2> QED BY <2>1, <2>2
<1>2. t = PayAll(p, m, due)
  BY DEF pay_conversions, PayAll
<1>3. \A a \in Book, r \in Request : pay_conversion(a, r, p) \in Book
  BY PayOne
<1>4. PICK run : PayRun(run, p, m, due, Book) /\ run[Len(due)] = PayAll(p, m, due)
  BY <1>3, PayFold
<1>5. /\ run[0] = m /\ run[N] = t
      /\ \A k \in 1 .. N : run[k] = pay_conversion(run[k - 1], due[k], p)
  BY <1>2, <1>4 DEF PayRun
<1> HIDE DEF t
<1> DEFINE P == {k \in Nat : k <= N => PaidUpTo(m, due, p, k, run[k])}
<1>6. 0 \in P
  <2>1. SumFunctionOnSet(g, 1 .. 0) = 0
    <3>1. 1 .. 0 = {}
      OBVIOUS
    <3> HIDE DEF g
    <3> QED BY <3>1, SumEmpty
  <2>2. \A x \in Assets : InAccounts(m.balance, x) \in Nat
    BY BookTypes, Sums
  <2>3. PaidUpTo(m, due, p, 0, m)
    BY <2>1, <2>2 DEF PaidUpTo
  <2> QED BY <1>5, <2>3
<1>7. ASSUME NEW k \in Nat, k \in P PROVE k + 1 \in P
  <2> SUFFICES ASSUME k + 1 <= N PROVE PaidUpTo(m, due, p, k + 1, run[k + 1])
    OBVIOUS
  <2> DEFINE l == k + 1
             a == run[l - 1]
             b == run[l]
  <2>1. l \in 1 .. N /\ l - 1 = k /\ k <= N
    BY <1>1
  <2>2. PaidUpTo(m, due, p, l - 1, a) /\ b = pay_conversion(a, due[l], p)
    BY <1>5, <1>7, <2>1
  <2> HIDE DEF l, a, b
  <2>3. /\ a \in Book /\ a.orders = m.orders /\ a.fair = m.fair
        /\ \A x \in Assets :
             InAccounts(a.balance, x) = InAccounts(m.balance, x)
               + (IF x = MUSE THEN SumFunctionOnSet(g, 1 .. l - 1) ELSE 0)
    BY <2>2 DEF PaidUpTo
  <2>4. due[l] \in Request /\ g[l] = in_muse(due[l].amount, p)
    BY <1>1, <2>1
  <2>5. /\ SumFunctionOnSet(g, 1 .. l) = SumFunctionOnSet(g, 1 .. l - 1) + g[l]
        /\ SumFunctionOnSet(g, 1 .. l - 1) \in Int /\ g[l] \in Int
    <3> HIDE DEF g
    <3> QED BY <1>1, <2>1, SumLast
  <2>6. /\ b \in Book /\ b.orders = a.orders /\ b.fair = a.fair
        /\ \A x \in Assets : InAccounts(b.balance, x)
             = InAccounts(a.balance, x) + (IF x = MUSE THEN g[l] ELSE 0)
    <3> DEFINE r == due[l]
               w == in_muse(r.amount, p)
    <3>1. r \in Request /\ g[l] = w /\ b = pay_conversion(a, r, p)
      BY <2>2, <2>4
    <3> HIDE DEF g, r
    <3>2. /\ b \in Book /\ b.orders = a.orders /\ b.fair = a.fair
          /\ \A x \in Assets : InAccounts(b.balance, x)
               = InAccounts(a.balance, x) + (IF x = MUSE THEN w ELSE 0)
      BY <2>3, <3>1, PayOne
    <3> QED BY <3>1, <3>2
  <2>7. \A x \in Assets : InAccounts(m.balance, x) \in Nat
    BY BookTypes, Sums
  <2> HIDE DEF g
  <2>8. \A x \in Assets :
          InAccounts(b.balance, x) = InAccounts(m.balance, x)
            + (IF x = MUSE THEN SumFunctionOnSet(g, 1 .. l) ELSE 0)
    BY <2>3, <2>5, <2>6, <2>7
  <2>9. PaidUpTo(m, due, p, l, b)
    BY <2>3, <2>6, <2>8 DEF PaidUpTo, g
  <2> QED BY <2>9 DEF l, b
<1>8. PaidUpTo(m, due, p, N, t)
  <2>1. Nat \subseteq P
    <3> HIDE DEF P
    <3> QED BY <1>6, <1>7, NaturalInduction
  <2>2. N \in P
    BY <1>1, <2>1
  <2> QED BY <1>1, <1>5, <2>2
<1>9. issued(due, p) = SumFunctionOnSet(g, 1 .. N)
  BY <1>1 DEF issued
<1>10. InAccounts(m.balance, MBD) \in Nat
  BY BookTypes, Sums, TwoAssets
<1>11. /\ t \in Book /\ t.orders = m.orders /\ t.fair = m.fair
       /\ InAccounts(t.balance, MUSE) = InAccounts(m.balance, MUSE) + issued(due, p)
       /\ InAccounts(t.balance, MBD) = InAccounts(m.balance, MBD)
  BY <1>8, <1>9, <1>10, TwoAssets DEF PaidUpTo
<1> QED
  BY <1>11 DEF t

(* A conversion more.                                                      *)
LEMMA AppendRequest ==
  ASSUME NEW rs \in Seq(Request), NEW r \in Request
  PROVE  Append(rs, r) \in Seq(Request) /\ converted(Append(rs, r)) = converted(rs) + r.amount
<1> DEFINE n == Len(rs)
           us == Append(rs, r)
           f == [i \in DOMAIN rs |-> rs[i].amount]
           g == [i \in DOMAIN us |-> us[i].amount]
<1>1. /\ n \in Nat /\ DOMAIN rs = 1 .. n /\ us \in Seq(Request) /\ DOMAIN us = 1 .. n + 1
      /\ us[n + 1] = r /\ \A i \in 1 .. n : us[i] = rs[i]
  OBVIOUS
<1> HIDE DEF us
<1>2. Numeric(f, 1 .. n) /\ Numeric(g, 1 .. n + 1)
  BY <1>1, ConversionSums
<1>3. g[n + 1] = r.amount /\ \A i \in 1 .. n : f[i] = g[i]
  BY <1>1
<1>4. converted(rs) = SumFunctionOnSet(f, 1 .. n) /\ converted(us) = SumFunctionOnSet(g, 1 .. n + 1)
  BY <1>1 DEF converted
<1> HIDE DEF f, g
<1> DEFINE k == n + 1
<1>5. k \in Nat /\ k \in 1 .. k /\ k - 1 = n
  BY <1>1
<1> HIDE DEF k
<1>6. SumFunctionOnSet(g, 1 .. k) = SumFunctionOnSet(g, 1 .. k - 1) + g[k]
  <2>1. Numeric(g, 1 .. k)
    BY <1>2 DEF k
  <2> QED BY <1>5, <2>1, SumLast
<1>7. SumFunctionOnSet(g, 1 .. n) = SumFunctionOnSet(f, 1 .. n)
  BY <1>2, <1>3, SumEqual
<1> QED
  BY <1>1, <1>3, <1>4, <1>5, <1>6, <1>7 DEF k, us

(* The conversions that are due and those that are not.                    *)
LEMMA SplitRequests ==
  ASSUME NEW rs \in Seq(Request), NEW n \in 0 .. Len(rs)
  PROVE  /\ SubSeq(rs, 1, n) \in Seq(Request)
         /\ SubSeq(rs, n + 1, Len(rs)) \in Seq(Request)
         /\ converted(rs) = converted(SubSeq(rs, 1, n)) + converted(SubSeq(rs, n + 1, Len(rs)))
<1> DEFINE N == Len(rs)
           us == SubSeq(rs, 1, n)
           ws == SubSeq(rs, n + 1, N)
           L == 1 .. n
           U == n + 1 .. N
           K == 1 .. N - n
           f == [i \in DOMAIN rs |-> rs[i].amount]
           g == [i \in DOMAIN us |-> us[i].amount]
           h == [i \in DOMAIN ws |-> ws[i].amount]
<1>1. N \in Nat /\ DOMAIN rs = 1 .. N /\ \A i \in 1 .. N : rs[i] \in Request
  OBVIOUS
<1>2. us \in Seq(Request) /\ Len(us) = n /\ DOMAIN us = L /\ \A i \in L : us[i] = rs[i]
  BY <1>1
<1>3. /\ ws \in Seq(Request) /\ Len(ws) = N - n /\ DOMAIN ws = K
      /\ \A i \in K : ws[i] = rs[n + i]
  <2> DEFINE b == n + 1
  <2>1. b \in 1 .. N + 1 /\ n \in Nat /\ N - b + 1 = N - n
    BY <1>1
  <2> HIDE DEF b
  <2>2. \A i \in b .. N : rs[i] \in Request
    BY <1>1, <2>1
  <2>3. /\ SubSeq(rs, b, N) \in Seq(Request)
        /\ Len(SubSeq(rs, b, N)) = IF b <= N THEN N - b + 1 ELSE 0
    BY <1>1, <2>1, <2>2, SubSeqProperties
  <2>4. Len(SubSeq(rs, b, N)) = N - n
    <3> DEFINE c == Len(SubSeq(rs, b, N))
    <3>1. c = IF b <= N THEN N - b + 1 ELSE 0
      BY <2>3
    <3> HIDE DEF c, N
    <3> QED BY <1>1, <2>1, <3>1 DEF c
  <2>5. DOMAIN SubSeq(rs, b, N) = K
    <3> DEFINE s == SubSeq(rs, b, N)
    <3> HIDE DEF s
    <3>1. DOMAIN s = 1 .. Len(s)
      BY <2>3 DEF s
    <3> QED BY <2>4, <3>1 DEF s
  <2>6. \A i \in K : SubSeq(rs, b, N)[i] = rs[b + i - 1] /\ b + i - 1 = n + i
    BY <1>1, <2>1 DEF b
  <2> QED BY <2>3, <2>4, <2>5, <2>6 DEF b
<1> HIDE DEF us, ws
<1>4. Numeric(f, 1 .. N) /\ Numeric(g, L) /\ Numeric(h, K)
  BY <1>1, <1>2, <1>3, ConversionSums
<1>5. /\ converted(rs) = SumFunctionOnSet(f, 1 .. N) /\ converted(us) = SumFunctionOnSet(g, L)
      /\ converted(ws) = SumFunctionOnSet(h, K)
  BY <1>1, <1>2, <1>3 DEF converted
<1>6. L \cup U = 1 .. N /\ L \cap U = {}
  BY <1>1
<1>7. Numeric(f, L) /\ Numeric(f, U)
  <2>1. L \subseteq 1 .. N /\ U \subseteq 1 .. N
    BY <1>6
  <2> HIDE DEF f, L, U
  <2> QED BY <1>4, <2>1, FS_Subset DEF Numeric
<1>8. \A i \in L : f[i] = g[i]
  BY <1>1, <1>2, <1>6
<1>9. \A k \in K : h[k] = f[n + k]
  BY <1>1, <1>3
<1> HIDE DEF f, g, h
<1>10. SumFunctionOnSet(f, 1 .. N) = SumFunctionOnSet(f, L) + SumFunctionOnSet(f, U)
  <2> HIDE DEF L, U
  <2> QED BY <1>6, <1>7, SumUnion
<1>11. SumFunctionOnSet(g, L) = SumFunctionOnSet(f, L)
  BY <1>7, <1>8, SumEqual
<1>12. SumFunctionOnSet(h, K) = SumFunctionOnSet(f, U)
  <2> DEFINE down == [i \in U |-> i - n]
             up == [k \in K |-> n + k]
  <2>1. \A i \in U : down[i] \in K /\ up[down[i]] = i
    BY <1>1
  <2>2. \A k \in K : up[k] \in U /\ down[up[k]] = k /\ h[k] = f[up[k]]
    BY <1>1, <1>9
  <2>3. IsFiniteSet(K)
    BY <1>4 DEF Numeric
  <2> HIDE DEF down, up, K, U
  <2> QED BY <1>7, <2>1, <2>2, <2>3, SumRename
<1> QED
  BY <1>2, <1>3, <1>5, <1>10, <1>11, <1>12 DEF us, ws

-----------------------------------------------------------------------------
(* The invariant                                                           *)

MarketInv == TypeOK /\ SupplyExact /\ BookClean /\ FairFills

(* What is held, as a sum of the totals of the book and the conversions.   *)
LEMMA HeldTotal ==
  ASSUME NEW asset
  PROVE  Held(asset) = Total(Market, asset) + (IF asset = MBD THEN converted(requests) ELSE 0)
<1>1. Market.balance = balance /\ Market.orders = orders
  BY DEF Market
<1> QED
  BY <1>1 DEF Held, Total, InAccounts, InOrders

(* The market before a handler.                                            *)
LEMMA MarketBook ==
  ASSUME MarketInv
  PROVE  /\ Market \in Book /\ Settled(Market) /\ Market.fair
         /\ Market.balance = balance /\ Market.orders = orders
         /\ \A i \in DOMAIN orders : orders[i].for_sale > 0
         /\ \A x \in Assets : InAccounts(balance, x) \in Nat /\ InOrders(orders, x) \in Nat
         /\ orders \in Seq(Entry) /\ converted(requests) \in Nat
<1>1. Market.balance = balance /\ Market.orders = orders /\ Market.fair = fair
  BY DEF Market
<1>2. balance \in [Accounts -> [Assets -> Nat]] /\ orders \in Seq(Order) /\ fair \in BOOLEAN
      /\ requests \in Seq(Request)
  BY DEF MarketInv, TypeOK
<1>3. orders \in Seq(Entry)
  BY <1>2, OrderEntry
<1>4. \A i \in DOMAIN orders : orders[i].for_sale > 0
  <2>1. \A i \in DOMAIN orders : orders[i] \in Order
    BY <1>2
  <2> QED BY <2>1, OrderEntry
<1>5. Market \in Book
  BY <1>2, <1>3 DEF Market, Book
<1>6. Sound(orders) /\ Untradable(orders)
  BY DEF MarketInv, BookClean, Sound, Untradable
<1>7. \A x \in Assets : InAccounts(balance, x) \in Nat /\ InOrders(orders, x) \in Nat
  BY <1>2, <1>3, Sums
<1>8. converted(requests) \in Nat
  BY <1>2, ConversionSums
<1> QED
  BY <1>1, <1>3, <1>4, <1>5, <1>6, <1>7, <1>8 DEF Settled, MarketInv, FairFills

(* The market after a handler that leaves a settled book.                  *)
LEMMA BecomeSettled ==
  ASSUME NEW m, Settled(m), m.fair, Become(m)
  PROVE  /\ balance' \in [Accounts -> [Assets -> Nat]] /\ orders' \in Seq(Order)
         /\ fair' \in BOOLEAN /\ FairFills' /\ BookClean'
         /\ \A x \in Assets : InAccounts(balance', x) + InOrders(orders', x) = Total(m, x)
<1>1. balance' = m.balance /\ orders' = Standing(m.orders) /\ fair' = m.fair
  BY DEF Become
<1>2. m \in Book
  BY DEF Settled
<1>3. m.balance \in [Accounts -> [Assets -> Nat]] /\ m.fair \in BOOLEAN /\ m.orders \in Seq(Entry)
  BY <1>2, BookTypes
<1>4. orders' \in Seq(Order) /\ \A x \in Assets : InOrders(orders', x) = InOrders(m.orders, x)
  BY <1>1, <1>3, StandingOrders
<1>5. BookClean'
  BY <1>1, StandingClean DEF BookClean
<1> QED
  BY <1>1, <1>3, <1>4, <1>5 DEF Total, FairFills

(* The supply is kept when the totals and the conversions are.             *)
LEMMA SupplyKept ==
  ASSUME MarketInv, NEW m, Settled(m), m.fair, Become(m), UNCHANGED <<requests, feed, supply>>,
         \A x \in Assets : Total(m, x) = Total(Market, x)
  PROVE  MarketInv'
<1>1. /\ balance' \in [Accounts -> [Assets -> Nat]] /\ orders' \in Seq(Order)
      /\ fair' \in BOOLEAN /\ FairFills' /\ BookClean'
      /\ \A x \in Assets : InAccounts(balance', x) + InOrders(orders', x) = Total(m, x)
  BY BecomeSettled
<1>2. requests' = requests /\ feed' = feed /\ supply' = supply
  OBVIOUS
<1>3. TypeOK'
  BY <1>1, <1>2 DEF MarketInv, TypeOK
<1>4. \A x \in Assets : Held(x)' = InAccounts(balance', x) + InOrders(orders', x)
                                    + (IF x = MBD THEN converted(requests') ELSE 0)
  BY DEF Held, InAccounts, InOrders, converted
<1>5. \A x \in Assets : Held(x)' = Held(x)
  BY <1>1, <1>2, <1>4, HeldTotal
<1>6. SupplyExact'
  BY <1>2, <1>5, TwoAssets DEF MarketInv, SupplyExact
<1> QED
  BY <1>1, <1>3, <1>6 DEF MarketInv

(* limit_order_cancel                                                      *)
LEMMA CancelKeeps ==
  ASSUME MarketInv, NEW i \in DOMAIN orders, limit_order_cancel(i)
  PROVE  MarketInv'
<1> DEFINE m == cancel_order(Market, i)
<1>1. Market \in Book /\ Settled(Market) /\ Market.fair /\ Market.orders = orders
  BY MarketBook
<1>2. Market \in Cleared(Market)
  BY <1>1 DEF Cleared
<1>3. m \in Cleared(Market)
  BY <1>1, <1>2, CancelSettled
<1>4. Become(m) /\ UNCHANGED <<requests, feed, supply>>
  BY DEF limit_order_cancel
<1> HIDE DEF m
<1>5. Settled(m) /\ m.fair /\ \A x \in Assets : Total(m, x) = Total(Market, x)
  BY <1>1, <1>3 DEF Cleared
<1> QED
  BY <1>4, <1>5, SupplyKept

(* The book a new order is matched in.                                     *)
Placed(order, a, asset, amount) ==
  adjust_balance([Market EXCEPT !.orders = Append(@, order)], a, asset, - amount)

(* All of the new order is paid for, and only it may trade.                *)
LEMMA PlaceOrder ==
  ASSUME MarketInv, NEW a \in Accounts, NEW asset \in Assets, NEW amount \in Nat \ {0},
         NEW p \in Price, NEW order,
         order = [seller |-> a, sells |-> asset, for_sale |-> amount, sell_price |-> p],
         amount_to_receive(order) > 0, Affords(a, asset, amount)
  PROVE  LET m == Placed(order, a, asset, amount)
             n == Len(m.orders)
         IN  /\ m \in Book /\ m.fair /\ n \in DOMAIN m.orders /\ Sound(m.orders)
             /\ \A j \in DOMAIN m.orders : m.orders[j].for_sale > 0
             /\ \A i, j \in 1 .. n - 1 : ~Accepts(m.orders[i], m.orders[j])
             /\ \A x \in Assets : Total(m, x) = Total(Market, x)
<1> DEFINE os == Append(orders, order)
           s == [Market EXCEPT !.orders = os]
           m == adjust_balance(s, a, asset, - amount)
           k == Len(orders)
<1>1. /\ Market \in Book /\ Market.fair /\ Market.balance = balance /\ Market.orders = orders
      /\ \A i \in DOMAIN orders : orders[i].for_sale > 0
      /\ orders \in Seq(Entry)
      /\ \A x \in Assets : InAccounts(balance, x) \in Nat /\ InOrders(orders, x) \in Nat
  BY MarketBook
<1>2. order \in Entry /\ order.sells = asset /\ order.for_sale = amount
  BY DEF Entry
<1>3. /\ os \in Seq(Entry) /\ k \in Nat /\ Len(os) = k + 1 /\ DOMAIN os = 1 .. k + 1
      /\ DOMAIN orders = 1 .. k /\ os[k + 1] = order /\ \A i \in 1 .. k : os[i] = orders[i]
  BY <1>1, <1>2
<1>4. \A x \in Assets : InOrders(os, x) = InOrders(orders, x) + (IF x = asset THEN amount ELSE 0)
  BY <1>1, <1>2, AppendOrder
<1> HIDE DEF os
<1>5. s \in Book /\ s.orders = os /\ s.balance = balance /\ s.fair = Market.fair
  BY <1>1, <1>3 DEF Book
<1>6. s.balance[a][asset] + (- amount) \in Nat /\ - amount \in Int
  <2>1. balance[a][asset] \in Nat /\ balance[a][asset] >= amount
    <3>1. s.balance \in [Accounts -> [Assets -> Nat]]
      BY <1>5, BookTypes
    <3> QED BY <1>5, <3>1 DEF Affords
  <2> QED BY <1>5, <2>1
<1>7. m = Placed(order, a, asset, amount)
  BY <1>1 DEF os, Placed
<1> HIDE DEF s
<1>8. /\ m \in Book /\ m.orders = os /\ m.fair = Market.fair
      /\ \A x \in Assets : InAccounts(m.balance, x)
           = InAccounts(balance, x) + (IF x = asset THEN - amount ELSE 0)
  <2> DEFINE d == - amount
  <2> HIDE DEF d
  <2>1. s.balance[a][asset] + d \in Nat /\ d \in Int
    BY <1>6 DEF d
  <2> DEFINE t == adjust_balance(s, a, asset, d)
  <2>2. /\ t \in Book /\ t.orders = s.orders /\ t.fair = s.fair
        /\ \A x \in Assets : InAccounts(t.balance, x)
             = InAccounts(s.balance, x) + (IF x = asset THEN d ELSE 0)
    BY <1>5, <2>1, AdjustBalance
  <2>3. t = m
    BY DEF d
  <2> HIDE DEF t, m
  <2> QED BY <1>5, <2>2, <2>3 DEF d
<1> HIDE DEF m
<1>9. ASSUME NEW x \in Assets PROVE Total(m, x) = Total(Market, x)
  <2>1. Total(Market, x) = InAccounts(balance, x) + InOrders(orders, x)
    BY <1>1 DEF Total
  <2>2. Total(m, x) = (InAccounts(balance, x) + (IF x = asset THEN - amount ELSE 0))
                        + (InOrders(orders, x) + (IF x = asset THEN amount ELSE 0))
    BY <1>4, <1>8 DEF Total
  <2> QED BY <1>1, <2>1, <2>2
<1>10. /\ \A j \in DOMAIN os : j \in 1 .. k \/ j = k + 1
       /\ k + 1 \in DOMAIN os /\ (k + 1) - 1 = k /\ amount > 0
  BY <1>3
<1>11. Sound(os)
  BY <1>3, <1>10 DEF MarketInv, BookClean, Sound
<1>12. \A j \in DOMAIN os : os[j].for_sale > 0
  BY <1>1, <1>2, <1>3, <1>10
<1>13. \A i, j \in 1 .. k : ~Accepts(os[i], os[j])
  BY <1>3 DEF MarketInv, BookClean
<1>14. LET n == Len(m.orders)
       IN  /\ m \in Book /\ m.fair /\ n \in DOMAIN m.orders /\ Sound(m.orders)
           /\ \A j \in DOMAIN m.orders : m.orders[j].for_sale > 0
           /\ \A i, j \in 1 .. n - 1 : ~Accepts(m.orders[i], m.orders[j])
           /\ \A x \in Assets : Total(m, x) = Total(Market, x)
  BY <1>1, <1>3, <1>8, <1>9, <1>10, <1>11, <1>12, <1>13
<1> QED
  BY <1>7, <1>14

(* limit_order_create                                                      *)
LEMMA CreateKeeps ==
  ASSUME MarketInv, NEW a \in Accounts, NEW asset \in Assets, NEW amount \in SellAmounts,
         NEW p \in Prices, NEW fill_or_kill \in BOOLEAN,
         limit_order_create(a, asset, amount, p, fill_or_kill)
  PROVE  MarketInv'
<1> DEFINE order == [seller |-> a, sells |-> asset, for_sale |-> amount, sell_price |-> p]
           m == Placed(order, a, asset, amount)
           n == Len(m.orders)
           t == apply_order(m)
<1>1. /\ amount_to_receive(order) > 0 /\ Affords(a, asset, amount)
      /\ Become(t) /\ UNCHANGED <<requests, feed, supply>>
  BY DEF limit_order_create, Placed
<1>2. amount \in Nat \ {0} /\ p \in Price
  BY MarketAssumption
<1>3. /\ m \in Book /\ m.fair /\ n \in DOMAIN m.orders /\ Sound(m.orders)
      /\ \A j \in DOMAIN m.orders : m.orders[j].for_sale > 0
      /\ \A i, j \in 1 .. n - 1 : ~Accepts(m.orders[i], m.orders[j])
      /\ \A x \in Assets : Total(m, x) = Total(Market, x)
  <2> DEFINE o == order
  <2> HIDE DEF o
  <2>1. o = order
    BY DEF o
  <2>2. amount_to_receive(o) > 0
    BY <1>1, <2>1
  <2> QED BY <1>1, <1>2, <2>1, <2>2, PlaceOrder
<1> HIDE DEF m
<1>4. /\ t \in Book /\ t.fair /\ Sound(t.orders) /\ Untradable(t.orders)
      /\ \A x \in Assets : Total(t, x) = Total(m, x)
  BY <1>3, ApplyOrderLeaves
<1> HIDE DEF t
<1>5. Settled(t) /\ t.fair /\ \A x \in Assets : Total(t, x) = Total(Market, x)
  BY <1>3, <1>4 DEF Settled
<1> QED
  BY <1>1, <1>5, SupplyKept

(* convert                                                                 *)
LEMMA ConvertKeeps ==
  ASSUME MarketInv, NEW a \in Accounts, NEW amount \in SellAmounts, convert(a, amount)
  PROVE  MarketInv'
<1> DEFINE r == [owner |-> a, amount |-> amount]
           bal == [balance EXCEPT ![a][MBD] = @ - amount]
           m == adjust_balance(Market, a, MBD, - amount)
<1>1. /\ balance' = bal /\ requests' = Append(requests, r) /\ balance[a][MBD] >= amount
      /\ orders' = orders /\ feed' = feed /\ supply' = supply /\ fair' = fair
  BY DEF convert, Affords
<1>2. amount \in Nat \ {0}
  BY MarketAssumption
<1>3. /\ balance \in [Accounts -> [Assets -> Nat]] /\ requests \in Seq(Request)
      /\ orders \in Seq(Order) /\ feed \in FeedPrices \cup {NoPrice}
      /\ supply \in [muse : Nat, mbd : Nat, virtual : Nat] /\ fair \in BOOLEAN
  BY DEF MarketInv, TypeOK
<1>4. /\ Market \in Book /\ Market.balance = balance
      /\ \A x \in Assets : InAccounts(balance, x) \in Nat /\ InOrders(orders, x) \in Nat
      /\ converted(requests) \in Nat
  BY MarketBook
<1>5. MBD \in Assets /\ MUSE \in Assets /\ MUSE # MBD
  BY TwoAssets
<1>6. r \in Request /\ r.amount = amount
  BY <1>2 DEF Request
<1>7. Append(requests, r) \in Seq(Request)
      /\ converted(Append(requests, r)) = converted(requests) + amount
  BY <1>3, <1>6, AppendRequest
<1>8. balance[a][MBD] \in Nat /\ balance[a][MBD] + (- amount) = balance[a][MBD] - amount
      /\ balance[a][MBD] + (- amount) \in Nat /\ - amount \in Int
  BY <1>1, <1>2, <1>3, <1>5
<1>9. m.balance = bal
  <2>1. Market.balance[a][MBD] + (- amount) = balance[a][MBD] - amount
    BY <1>4, <1>8
  <2> QED BY <1>3, <1>4, <2>1 DEF adjust_balance, Book
<1> HIDE DEF bal, m, r
<1>10. /\ m.balance \in [Accounts -> [Assets -> Nat]]
       /\ \A x \in Assets : InAccounts(m.balance, x)
            = InAccounts(balance, x) + (IF x = MBD THEN - amount ELSE 0)
  <2> DEFINE d == - amount
  <2> HIDE DEF d
  <2>1. Market.balance[a][MBD] + d \in Nat /\ d \in Int
    BY <1>4, <1>8 DEF d
  <2> DEFINE t == adjust_balance(Market, a, MBD, d)
  <2>2. /\ t \in Book
        /\ \A x \in Assets : InAccounts(t.balance, x)
             = InAccounts(Market.balance, x) + (IF x = MBD THEN d ELSE 0)
    BY <1>4, <1>5, <2>1, AdjustBalance
  <2>3. t = m
    BY DEF d, m
  <2> HIDE DEF t
  <2> QED BY <1>4, <2>2, <2>3, BookTypes DEF d
<1>11. TypeOK'
  BY <1>1, <1>3, <1>7, <1>9, <1>10 DEF TypeOK
<1>12. BookClean' /\ FairFills'
  BY <1>1 DEF MarketInv, BookClean, FairFills
<1>13. ASSUME NEW x \in Assets PROVE Held(x)' = Held(x)
  <2>1. Held(x)' = InAccounts(balance', x) + InOrders(orders', x)
                     + (IF x = MBD THEN converted(requests') ELSE 0)
    BY DEF Held, InAccounts, InOrders, converted
  <2>2. Held(x) = InAccounts(balance, x) + InOrders(orders, x)
                    + (IF x = MBD THEN converted(requests) ELSE 0)
    BY DEF Held, InAccounts, InOrders, converted
  <2>3. InAccounts(balance', x) = InAccounts(balance, x) + (IF x = MBD THEN - amount ELSE 0)
    BY <1>1, <1>9, <1>10
  <2>4. converted(requests') = converted(requests) + amount /\ InOrders(orders', x) = InOrders(orders, x)
    BY <1>1, <1>7
  <2> QED BY <1>2, <1>4, <2>1, <2>2, <2>3, <2>4
<1>14. SupplyExact'
  BY <1>1, <1>5, <1>13 DEF MarketInv, SupplyExact
<1> QED
  BY <1>11, <1>12, <1>14 DEF MarketInv

(* What the end of a block makes of the supply.                            *)
LEMMA SupplyAfter ==
  ASSUME NEW s \in [muse : Nat, mbd : Nat, virtual : Nat], NEW due, NEW p, NEW t,
         t = update_virtual_supply(process_conversions(update_virtual_supply(s, p), due, p), p)
  PROVE  /\ t = [muse |-> t.muse, mbd |-> t.mbd, virtual |-> t.virtual]
         /\ t.muse = s.muse + issued(due, p) /\ t.mbd = s.mbd - converted(due)
         /\ t.virtual = t.muse + in_muse(t.mbd, p)
<1> DEFINE u == update_virtual_supply(s, p)
           v == process_conversions(u, due, p)
<1>1. u.muse = s.muse /\ u.mbd = s.mbd
  BY DEF update_virtual_supply
<1> HIDE DEF u
<1>2. /\ v = [muse |-> v.muse, mbd |-> v.mbd, virtual |-> v.virtual]
      /\ v.muse = s.muse + issued(due, p) /\ v.mbd = s.mbd - converted(due)
  BY <1>1 DEF process_conversions
<1>3. t = update_virtual_supply(v, p)
  BY DEF u
<1> HIDE DEF v
<1>4. /\ t.muse = v.muse /\ t.mbd = v.mbd /\ t.virtual = v.muse + in_muse(v.mbd, p)
      /\ t = [muse |-> t.muse, mbd |-> t.mbd, virtual |-> t.virtual]
  BY <1>2, <1>3 DEF update_virtual_supply
<1> QED
  BY <1>2, <1>4

(* EndBlock                                                                *)
LEMMA EndBlockKeeps ==
  ASSUME MarketInv, NEW expired \in SUBSET DOMAIN orders, NEW p \in FeedPrices \cup {feed},
         NEW n \in 0 .. Len(requests), EndBlock(expired, p, n)
  PROVE  MarketInv'
<1> DEFINE due == SubSeq(requests, 1, n)
           rest == SubSeq(requests, n + 1, Len(requests))
           c == clear_expired_orders(Market, expired)
           t == pay_conversions(c, due, p)
<1>1. /\ Become(t) /\ requests' = rest /\ feed' = p
      /\ supply' = update_virtual_supply(
                     process_conversions(update_virtual_supply(supply, p), due, p), p)
  BY DEF EndBlock
<1>2. /\ requests \in Seq(Request) /\ supply \in [muse : Nat, mbd : Nat, virtual : Nat]
      /\ p \in FeedPrices \cup {NoPrice}
  BY DEF MarketInv, TypeOK
<1>3. due \in Seq(Request) /\ rest \in Seq(Request)
      /\ converted(requests) = converted(due) + converted(rest)
  BY <1>2, SplitRequests
<1> HIDE DEF due, rest
<1>4. /\ converted(due) \in Nat /\ converted(rest) \in Nat /\ issued(due, p) \in Nat
  BY <1>2, <1>3, ConversionSums
<1>5. /\ Settled(Market) /\ Market.fair /\ Market.orders = orders
      /\ Market.balance = balance
      /\ \A x \in Assets : InAccounts(balance, x) \in Nat /\ InOrders(orders, x) \in Nat
  BY MarketBook
<1>6. c \in Cleared(Market)
  BY <1>5, ClearExpired
<1> HIDE DEF c
<1>7. /\ c \in Book /\ Settled(c) /\ c.fair
      /\ \A x \in Assets : Total(c, x) = Total(Market, x)
  BY <1>5, <1>6 DEF Cleared
<1>8. /\ t \in Book /\ t.orders = c.orders /\ t.fair = c.fair
      /\ InAccounts(t.balance, MUSE) = InAccounts(c.balance, MUSE) + issued(due, p)
      /\ InAccounts(t.balance, MBD) = InAccounts(c.balance, MBD)
  BY <1>2, <1>3, <1>7, PayConversions
<1> HIDE DEF t
<1>9. Settled(t) /\ t.fair
  BY <1>7, <1>8 DEF Settled
<1>10. /\ balance' \in [Accounts -> [Assets -> Nat]] /\ orders' \in Seq(Order)
       /\ fair' \in BOOLEAN /\ FairFills' /\ BookClean'
       /\ \A x \in Assets : InAccounts(balance', x) + InOrders(orders', x) = Total(t, x)
  BY <1>1, <1>9, BecomeSettled
<1>11. MUSE \in Assets /\ MBD \in Assets /\ MUSE # MBD
  BY TwoAssets
<1>12. /\ InAccounts(c.balance, MUSE) \in Nat /\ InOrders(c.orders, MUSE) \in Nat
       /\ InAccounts(c.balance, MBD) \in Nat /\ InOrders(c.orders, MBD) \in Nat
  BY <1>7, <1>11, BookTypes, Sums
<1>13. Total(t, MUSE) = Total(Market, MUSE) + issued(due, p) /\ Total(t, MBD) = Total(Market, MBD)
  <2>1. /\ Total(c, MUSE) = InAccounts(c.balance, MUSE) + InOrders(c.orders, MUSE)
        /\ Total(t, MUSE) = InAccounts(c.balance, MUSE) + issued(due, p) + InOrders(c.orders, MUSE)
    BY <1>8 DEF Total
  <2>2. Total(t, MBD) = Total(c, MBD)
    BY <1>8 DEF Total
  <2>3. Total(c, MUSE) = Total(Market, MUSE) /\ Total(c, MBD) = Total(Market, MBD)
    BY <1>7, <1>11
  <2> QED BY <1>4, <1>12, <2>1, <2>2, <2>3
<1>14. Held(MUSE) = Total(Market, MUSE) /\ Held(MBD) = Total(Market, MBD) + converted(requests)
  <2>1. Total(Market, MUSE) \in Nat
    BY <1>5, <1>11 DEF Total
  <2> QED BY <1>11, <2>1, HeldTotal
<1>15. Held(MUSE)' = Total(t, MUSE) /\ Held(MBD)' = Total(t, MBD) + converted(rest)
  <2>1. /\ Held(MUSE)' = InAccounts(balance', MUSE) + InOrders(orders', MUSE) + 0
        /\ Held(MBD)' = InAccounts(balance', MBD) + InOrders(orders', MBD) + converted(requests')
    BY <1>11 DEF Held, InAccounts, InOrders, converted
  <2>2. Total(t, MUSE) \in Nat
    BY <1>4, <1>8, <1>12 DEF Total
  <2> QED BY <1>1, <1>10, <1>11, <2>1, <2>2
<1>16. Total(Market, MUSE) \in Nat /\ Total(Market, MBD) \in Nat
  BY <1>5, <1>11 DEF Total
<1>17. /\ supply.muse = Held(MUSE) /\ supply.mbd = Held(MBD)
  BY DEF MarketInv, SupplyExact
<1>18. /\ supply' = [muse |-> supply'.muse, mbd |-> supply'.mbd, virtual |-> supply'.virtual]
       /\ supply'.muse = supply.muse + issued(due, p)
       /\ supply'.mbd = supply.mbd - converted(due)
       /\ supply'.virtual = supply'.muse + in_muse(supply'.mbd, p)
  BY <1>1, <1>2, SupplyAfter
<1>19. supply'.muse = Held(MUSE)' /\ supply'.mbd = Held(MBD)'
  BY <1>3, <1>4, <1>13, <1>14, <1>15, <1>16, <1>17, <1>18
<1>20. SupplyExact'
  BY <1>1, <1>18, <1>19 DEF SupplyExact
<1>21. supply' \in [muse : Nat, mbd : Nat, virtual : Nat]
  <2>1. supply'.muse \in Nat /\ supply'.mbd \in Nat
    BY <1>4, <1>13, <1>15, <1>16, <1>19
  <2>2. in_muse(supply'.mbd, p) \in Nat
    BY <1>2, <2>1, Worth
  <2>3. supply'.virtual \in Nat
    BY <1>18, <2>1, <2>2
  <2> QED BY <1>18, <2>1, <2>3
<1>22. TypeOK'
  BY <1>1, <1>2, <1>3, <1>10, <1>21 DEF TypeOK
<1> QED
  BY <1>10, <1>20, <1>22 DEF MarketInv

(* The genesis: everything is in the accounts.                             *)
LEMMA InitHolds ==
  ASSUME Init
  PROVE  MarketInv
<1>1. /\ balance = InitialBalance /\ orders = <<>> /\ requests = <<>> /\ feed = NoPrice
      /\ supply = [muse |-> InitialSupply(MUSE), mbd |-> InitialSupply(MBD),
                   virtual |-> InitialSupply(MUSE)]
      /\ fair = TRUE
  BY DEF Init
<1>2. MUSE \in Assets /\ MBD \in Assets /\ MUSE # MBD
  BY TwoAssets
<1>3. balance \in [Accounts -> [Assets -> Nat]]
  BY <1>1, MarketAssumption
<1>4. /\ InitialSupply(MUSE) = InAccounts(balance, MUSE) /\ InitialSupply(MBD) = InAccounts(balance, MBD)
      /\ InAccounts(balance, MUSE) \in Nat /\ InAccounts(balance, MBD) \in Nat
  <2>1. \A x : InitialSupply(x) = InAccounts(balance, x)
    BY <1>1 DEF InitialSupply, InAccounts
  <2> QED BY <1>2, <1>3, <2>1, Sums
<1> DEFINE e == orders
           r == requests
<1>5. e \in Seq(Order) /\ DOMAIN e = {} /\ r \in Seq(Request) /\ DOMAIN r = {}
  BY <1>1
<1>6. \A x : InOrders(orders, x) = 0
  <2> TAKE x
  <2> DEFINE g == [i \in DOMAIN orders |-> IF orders[i].sells = x THEN orders[i].for_sale ELSE 0]
  <2>1. InOrders(orders, x) = SumFunctionOnSet(g, {})
    BY <1>5 DEF InOrders
  <2> HIDE DEF g
  <2> QED BY <2>1, SumEmpty
<1>7. converted(requests) = 0
  <2> DEFINE g == [i \in DOMAIN requests |-> requests[i].amount]
  <2>1. converted(requests) = SumFunctionOnSet(g, {})
    BY <1>5 DEF converted
  <2> HIDE DEF g
  <2> QED BY <2>1, SumEmpty
<1>8. \A x \in Assets : Held(x) = InAccounts(balance, x) + InOrders(orders, x)
                                    + (IF x = MBD THEN converted(requests) ELSE 0)
  BY DEF Held, InAccounts, InOrders
<1>9. Held(MUSE) = InAccounts(balance, MUSE) /\ Held(MBD) = InAccounts(balance, MBD)
  BY <1>2, <1>4, <1>6, <1>7, <1>8
<1>10. in_muse(supply.mbd, feed) = 0
  BY <1>1 DEF in_muse
<1>11. SupplyExact
  BY <1>1, <1>4, <1>9, <1>10 DEF SupplyExact
<1>12. TypeOK
  BY <1>1, <1>3, <1>4, <1>5 DEF TypeOK
<1>13. BookClean /\ FairFills
  BY <1>1, <1>5 DEF BookClean, FairFills
<1> QED
  BY <1>11, <1>12, <1>13 DEF MarketInv

(* Every step keeps the invariant.                                         *)
LEMMA StepKeeps ==
  ASSUME MarketInv, [Next]_vars
  PROVE  MarketInv'
<1>1. CASE Next
  <2>1. CASE \E a \in Accounts, asset \in Assets, amount \in SellAmounts, p \in Prices,
                fill_or_kill \in BOOLEAN : limit_order_create(a, asset, amount, p, fill_or_kill)
    BY <2>1, CreateKeeps
  <2>2. CASE \E i \in DOMAIN orders : limit_order_cancel(i)
    BY <2>2, CancelKeeps
  <2>3. CASE \E a \in Accounts, amount \in SellAmounts : convert(a, amount)
    BY <2>3, ConvertKeeps
  <2>4. CASE \E expired \in SUBSET DOMAIN orders, p \in FeedPrices \cup {feed},
                n \in 0 .. Len(requests) : EndBlock(expired, p, n)
    BY <2>4, EndBlockKeeps
  <2> QED BY <1>1, <2>1, <2>2, <2>3, <2>4 DEF Next
<1>2. CASE UNCHANGED vars
  BY <1>2 DEF vars, MarketInv, TypeOK, SupplyExact, Held, converted, BookClean, FairFills
<1> QED
  BY <1>1, <1>2

-----------------------------------------------------------------------------
(* Theorems                                                                *)

(* The invariant holds in every state.                                     *)
THEOREM MarketInvariant == Spec => []MarketInv
<1>1. Init => MarketInv
  BY InitHolds
<1>2. MarketInv /\ [Next]_vars => MarketInv'
  BY StepKeeps
<1> QED
  BY <1>1, <1>2, PTL DEF Spec

(* Type correctness; in particular, no balance is ever negative, although  *)
(* adjust_balance does not check it.                                       *)
THEOREM TypeCorrect == Spec => []TypeOK
<1>1. MarketInv => TypeOK
  BY DEF MarketInv
<1> QED
  BY <1>1, MarketInvariant, PTL

(* The supplies of both assets are exactly what the accounts, the orders   *)
(* and the conversions hold, whatever is matched, refunded, rounded, has   *)
(* expired or is converted (validate_invariants).                          *)
THEOREM SupplyAccounted == Spec => []SupplyExact
<1>1. MarketInv => SupplyExact
  BY DEF MarketInv
<1> QED
  BY <1>1, MarketInvariant, PTL

(* No two standing orders could trade, and none would sell for nothing:    *)
(* apply_order has matched a new order with all that accept it when it     *)
(* leaves something of it in the book.                                     *)
THEOREM BookStaysClean == Spec => []BookClean
<1>1. MarketInv => BookClean
  BY DEF MarketInv
<1> QED
  BY <1>1, MarketInvariant, PTL

(* Every fill of match gave both sellers something, no less than their own *)
(* price, and went to the best order that stood.                           *)
THEOREM FillsAreFair == Spec => []FairFills
<1>1. MarketInv => FairFills
  BY DEF MarketInv
<1> QED
  BY <1>1, MarketInvariant, PTL
=============================================================================
