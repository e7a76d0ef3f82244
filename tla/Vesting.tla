------------------------------- MODULE Vesting -------------------------------
(***************************************************************************)
(* Withdrawing vesting shares (chain/base_evaluator.cpp,                   *)
(* database::process_vesting_withdrawals), beside the votes they carry.    *)
(*                                                                         *)
(* An account asks for a number of its shares; every interval a part of    *)
(* them leaves its shares, either converted to MUSE or sent along routes   *)
(* to other accounts as MUSE or as shares again.  Each part is taken from  *)
(* the votes as it goes.                                                   *)
(*                                                                         *)
(* Time is left out: an account that is withdrawing may come due at any    *)
(* moment.  The accounts due in one block are handled one after the other, *)
(* one action each.  Accounts are those with an id above 0: the loops over *)
(* routes start past account 0, the miners' account of the genesis block.  *)
(***************************************************************************)
EXTENDS Voting

CONSTANTS Intervals,  \* MUSE_VESTING_WITHDRAW_INTERVALS
          Whole,      \* MUSE_100_PERCENT
          MaxRoutes,  \* MUSE_MAX_WITHDRAW_ROUTES
          MinVests,   \* ten times the account creation fee, in shares
          Amounts     \* bound: the amounts accounts ask for

ASSUME VestingAssumption ==
  /\ Intervals \in Nat \ {0} /\ Whole \in Nat \ {0}
  /\ MaxRoutes \in Nat /\ MinVests \in Nat /\ Amounts \subseteq Int

VARIABLES leaving,  \* the withdrawal of every account
          routes    \* withdraw_vesting_route_objects

vestingVars == <<vars, leaving, routes>>

(* due: next_vesting_withdrawal is a time, not time_point_sec::maximum.    *)
Leaving == [rate : Nat, to_withdraw : Nat, withdrawn : Nat, due : BOOLEAN]

Route == [from : Accounts, to : Accounts, percent : 1 .. Whole, auto_vest : BOOLEAN]

Idle == [rate |-> 0, to_withdraw |-> 0, withdrawn |-> 0, due |-> FALSE]

RoutesFrom(a) == {r \in routes : r.from = a}

-----------------------------------------------------------------------------
(* Operations                                                              *)

\* Faulty variant of withdraw_vesting: more may be asked for than there is.
withdraw_vesting_unchecked(a, n) ==
  LET rate == Max({n \div Intervals, 1})
  IN  /\ book.vesting[a] > MinVests
      /\ n > 0 /\ leaving[a].rate # rate
      /\ leaving' = [leaving EXCEPT ![a] =
           [rate |-> rate, to_withdraw |-> n, withdrawn |-> 0, due |-> TRUE]]
      /\ UNCHANGED <<vars, routes>>

(* n < 0 is let through when old blocks are applied, and stops the         *)
(* withdrawal like n = 0.                                                  *)
withdraw_vesting(a, n) ==
  LET rate == Max({n \div Intervals, 1})
  IN  /\ book.vesting[a] >= n
      /\ book.vesting[a] > MinVests
      /\ \/ /\ n <= 0
            /\ n = 0 => leaving[a].rate # 0
            /\ leaving' = [leaving EXCEPT ![a] = Idle]
         \/ /\ n > 0
            /\ leaving[a].rate # rate
            /\ leaving' = [leaving EXCEPT ![a] =
                 [rate |-> rate, to_withdraw |-> n, withdrawn |-> 0, due |-> TRUE]]
      /\ UNCHANGED <<vars, routes>>

set_withdraw_vesting_route(a, to, percent, auto_vest) ==
  LET old == {r \in RoutesFrom(a) : r.to = to}
      new == [from |-> a, to |-> to, percent |-> percent, auto_vest |-> auto_vest]
  IN  /\ \/ /\ old = {}
            /\ percent # 0
            /\ Cardinality(RoutesFrom(a)) < MaxRoutes
            /\ routes' = routes \cup {new}
         \/ /\ old # {} /\ percent = 0
            /\ routes' = routes \ old
         \/ /\ old # {} /\ percent # 0
            /\ routes' = (routes \ old) \cup {new}
      /\ SumFunction([r \in RoutesFrom(a)' |-> r.percent]) <= Whole
      /\ UNCHANGED <<vars, leaving>>

(* What leaves this time: the rate, or the rest when less is left.         *)
to_withdraw(a) ==
  LET l == leaving[a]
  IN  Min({book.vesting[a],
           IF l.to_withdraw - l.withdrawn < l.rate THEN l.to_withdraw % l.rate
           ELSE l.rate})

deposit(a, r) == (to_withdraw(a) * r.percent) \div Whole

(* All that goes along the routes of R.                                    *)
deposits(a, R) == SumFunction([r \in R |-> deposit(a, r)])

(* Shares go to another account, and their votes with them.                *)
deposit_along(a, r, b) ==
  IF deposit(a, r) = 0 THEN b
  ELSE adjust_proxied_by_shares([b EXCEPT !.vesting[r.to] = @ + deposit(a, r)],
                                ballots, r.to, deposit(a, r))

AutoVesting(a) == {r \in RoutesFrom(a) : r.auto_vest}

(* The first pass over the routes, while the shares of a are still whole.  *)
deposit_vests(a) ==
  FoldSet(LAMBDA r, b : deposit_along(a, r, b), book, AutoVesting(a))

deposited_as_vests(a) == deposits(a, AutoVesting(a))

\* Faulty variant of withdrawn_book: the votes stay.
withdrawn_book_voting(a) ==
  [deposit_vests(a) EXCEPT !.vesting[a] = @ - to_withdraw(a),
                           !.total = @ - (to_withdraw(a) - deposited_as_vests(a))]

(* The book after a has been processed: the shares that became MUSE, by a  *)
(* route or for a itself, leave the total, then a loses its shares and its *)
(* votes.                                                                  *)
withdrawn_book(a) ==
  LET n == to_withdraw(a)
      b == [deposit_vests(a) EXCEPT
              !.vesting[a] = @ - n,
              !.total = @ - (n - deposited_as_vests(a)),
              !.ok = @ /\ n >= deposits(a, RoutesFrom(a))]
  IN  IF n = 0 THEN b ELSE adjust_proxied_by_shares(b, ballots, a, - n)

process_vesting_withdrawal(a) ==
  LET b == withdrawn_book(a)
      l == [leaving[a] EXCEPT !.withdrawn = @ + to_withdraw(a)]
      done == l.withdrawn >= l.to_withdraw \/ b.vesting[a] = 0
  IN  /\ leaving[a].due
      /\ Accept(b, ballots)
      /\ leaving' = [leaving EXCEPT
           ![a] = IF done THEN [l EXCEPT !.rate = 0, !.due = FALSE] ELSE l]
      /\ UNCHANGED routes

VestingInit == Init /\ leaving = [a \in Accounts |-> Idle] /\ routes = {}

VestingNext ==
  \/ Next /\ UNCHANGED <<leaving, routes>>
  \/ \E a \in Accounts, n \in Amounts : withdraw_vesting(a, n)
  \/ \E a, to \in Accounts, percent \in 0 .. Whole, auto_vest \in BOOLEAN :
       set_withdraw_vesting_route(a, to, percent, auto_vest)
  \/ \E a \in Accounts : process_vesting_withdrawal(a)

VestingSpec == VestingInit /\ [][VestingNext]_vestingVars

-----------------------------------------------------------------------------
(* Properties                                                              *)

(* Type invariant; shares and the total never go below zero.               *)
VestingTypeOK ==
  /\ TypeOK
  /\ leaving \in [Accounts -> Leaving]
  /\ routes \subseteq Route

(* A withdrawal pays exactly what was asked for: while it runs, the        *)
(* account still has all that is to come, whatever its routes send where   *)
(* (its own account included), and when it ends nothing is left over,      *)
(* although the parts are rounded (database.cpp:1520-1524, 1592-1607).     *)
WithdrawalExact ==
  \A a \in Accounts :
    LET l == leaving[a]
    IN  IF l.due
        THEN /\ l.rate > 0 /\ l.withdrawn < l.to_withdraw
             /\ book.vesting[a] >= l.to_withdraw - l.withdrawn
        ELSE l.withdrawn = l.to_withdraw
=============================================================================
