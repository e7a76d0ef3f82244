--------------------------- MODULE Voting_proofs ---------------------------
(***************************************************************************)
(* Proofs about Voting and Vesting, for any finite sets of accounts,       *)
(* witnesses and platforms, any depth of the chains of proxies and any     *)
(* shares: the tallies are exact, withdrawals pay what was asked for and   *)
(* leave the votes exact.                                                  *)
(***************************************************************************)
EXTENDS Vesting, FoldTheorems

-----------------------------------------------------------------------------
(* Chains of proxies                                                       *)

Proxies == [Accounts -> Accounts \cup {Self}]

(* u is the walk up from a, n proxies far.                                 *)
Walk(u, p, a, n) ==
  u = [d \in 0 .. n |->
         IF d = 0 THEN a ELSE IF u[d - 1] = Self THEN Self ELSE p[u[d - 1]]]

(* There is one.                                                           *)
LEMMA WalkExists ==
  ASSUME NEW p \in Proxies, NEW a \in Accounts, NEW n \in Nat
  PROVE  \E u \in [0 .. n -> Accounts \cup {Self}] : Walk(u, p, a, n)
<1> DEFINE X == Accounts \cup {Self}
           P == {m \in Nat : \E u \in [0 .. m -> X] : Walk(u, p, a, m)}
<1>1. 0 \in P
  <2> DEFINE u == [d \in 0 .. 0 |-> a]
  <2>1. u \in [0 .. 0 -> X] /\ Walk(u, p, a, 0)
    BY DEF Walk
  <2> QED
    BY <2>1
<1>2. ASSUME NEW m \in Nat, m \in P PROVE m + 1 \in P
  <2>1. PICK u \in [0 .. m -> X] : Walk(u, p, a, m)
    BY <1>2
  <2> DEFINE k == m + 1
             next == IF u[m] = Self THEN Self ELSE p[u[m]]
             v == [d \in 0 .. k |-> IF d \in 0 .. m THEN u[d] ELSE next]
  <2>2. next \in X
    BY <2>1 DEF Proxies
  <2>3. k \in Nat /\ k = m + 1
    OBVIOUS
  <2> HIDE DEF next, k
  <2>4. v \in [0 .. k -> X]
    BY <2>2
  <2>5. ASSUME NEW d \in 0 .. k
        PROVE  v[d] = IF d = 0 THEN a ELSE IF v[d - 1] = Self THEN Self ELSE p[v[d - 1]]
    <3>1. CASE d \in 0 .. m
      BY <2>1, <2>3, <3>1 DEF Walk
    <3>2. CASE d = k
      BY <2>3, <3>2 DEF next
    <3> QED
      BY <2>3, <3>1, <3>2
  <2>6. Walk(v, p, a, k)
    BY <2>5 DEF Walk
  <2> HIDE DEF v
  <2> QED
    BY <2>3, <2>4, <2>6
<1>3. Nat \subseteq P
  <2> HIDE DEF P
  <2> QED BY <1>1, <1>2, NaturalInduction
<1> QED
  BY <1>3

(* Ancestor walks up: the steps of adjust_proxied_witness_votes.           *)
LEMMA AncestorWalks ==
  ASSUME NEW p \in Proxies, NEW a \in Accounts
  PROVE  /\ Ancestor(p, a) \in [0 .. MaxDepth -> Accounts \cup {Self}]
         /\ Ancestor(p, a)[0] = a
         /\ \A d \in 1 .. MaxDepth :
              Ancestor(p, a)[d] = IF Ancestor(p, a)[d - 1] = Self THEN Self
                                  ELSE p[Ancestor(p, a)[d - 1]]
<1>1. MaxDepth \in Nat \ {0}
  BY VotingAssumption
<1>2. PICK u \in [0 .. MaxDepth -> Accounts \cup {Self}] : Walk(u, p, a, MaxDepth)
  BY <1>1, WalkExists
<1> DEFINE w == Ancestor(p, a)
<1>3. w = CHOOSE x : Walk(x, p, a, MaxDepth)
  BY Zenon DEF Ancestor, Walk
<1>4. Walk(w, p, a, MaxDepth)
  BY <1>2, <1>3
<1> HIDE DEF w
<1>5. ASSUME NEW d \in 0 .. MaxDepth
      PROVE  w[d] = IF d = 0 THEN a ELSE IF w[d - 1] = Self THEN Self ELSE p[w[d - 1]]
  BY <1>4 DEF Walk
<1>6. \A d \in Nat : d <= MaxDepth => w[d] \in Accounts \cup {Self}
  <2> DEFINE P == {d \in Nat : d <= MaxDepth => w[d] \in Accounts \cup {Self}}
  <2>1. 0 \in P
    BY <1>1, <1>5
  <2>2. ASSUME NEW d \in Nat, d \in P PROVE d + 1 \in P
    <3> SUFFICES ASSUME d + 1 <= MaxDepth PROVE w[d + 1] \in Accounts \cup {Self}
      OBVIOUS
    <3> DEFINE e == d + 1
    <3>1. e \in 0 .. MaxDepth /\ e # 0 /\ e - 1 = d
      BY <1>1
    <3>2. w[d] \in Accounts \cup {Self}
      BY <1>1, <2>2
    <3> HIDE DEF e
    <3>3. w[e] = IF w[d] = Self THEN Self ELSE p[w[d]]
      BY <1>5, <3>1
    <3>4. w[e] \in Accounts \cup {Self}
      BY <3>2, <3>3 DEF Proxies
    <3> QED
      BY <3>4 DEF e
  <2>3. Nat \subseteq P
    <3> HIDE DEF P
    <3> QED BY <2>1, <2>2, NaturalInduction
  <2> QED
    BY <2>3
<1>7. w = [d \in 0 .. MaxDepth |-> w[d]]
  BY <1>4 DEF Walk
<1>8. w \in [0 .. MaxDepth -> Accounts \cup {Self}]
  BY <1>1, <1>6, <1>7
<1>9. w[0] = a
  BY <1>1, <1>5
<1>10. \A d \in 1 .. MaxDepth : w[d] = IF w[d - 1] = Self THEN Self ELSE p[w[d - 1]]
  BY <1>1, <1>5
<1> QED
  BY <1>8, <1>9, <1>10 DEF w

(* A walk from y that comes to a goes on as the walk from a.               *)
LEMMA AncestorThrough ==
  ASSUME NEW p \in Proxies, NEW y \in Accounts, NEW a \in Accounts,
         NEW i \in 0 .. MaxDepth, Ancestor(p, y)[i] = a
  PROVE  \A k \in 0 .. MaxDepth - i : Ancestor(p, y)[i + k] = Ancestor(p, a)[k]
<1> DEFINE u == Ancestor(p, y)
           v == Ancestor(p, a)
           P == {k \in Nat : k <= MaxDepth - i => u[i + k] = v[k]}
<1>0. MaxDepth \in Nat /\ i \in Nat /\ i <= MaxDepth
  BY VotingAssumption
<1>1. v[0] = a /\ u[i] = a
  BY AncestorWalks
<1>2. /\ \A d \in 1 .. MaxDepth : u[d] = IF u[d - 1] = Self THEN Self ELSE p[u[d - 1]]
      /\ \A d \in 1 .. MaxDepth : v[d] = IF v[d - 1] = Self THEN Self ELSE p[v[d - 1]]
  BY AncestorWalks
<1> HIDE DEF u, v
<1>3. 0 \in P
  BY <1>0, <1>1
<1>4. ASSUME NEW k \in Nat, k \in P PROVE k + 1 \in P
  <2> SUFFICES ASSUME k + 1 <= MaxDepth - i PROVE u[i + (k + 1)] = v[k + 1]
    OBVIOUS
  <2> DEFINE e == i + k + 1
             f == k + 1
  <2>1. /\ e \in 1 .. MaxDepth /\ e - 1 = i + k /\ e = i + (k + 1)
        /\ f \in 1 .. MaxDepth /\ f - 1 = k /\ f = k + 1
    BY <1>0
  <2>2. u[i + k] = v[k]
    BY <1>0, <1>4
  <2> HIDE DEF e, f
  <2>3. u[e] = IF u[i + k] = Self THEN Self ELSE p[u[i + k]]
    BY <1>2, <2>1
  <2>4. v[f] = IF v[k] = Self THEN Self ELSE p[v[k]]
    BY <1>2, <2>1
  <2>5. u[e] = v[f]
    BY <2>2, <2>3, <2>4
  <2> QED
    BY <2>1, <2>5
<1>5. Nat \subseteq P
  <2> HIDE DEF P
  <2> QED BY <1>3, <1>4, NaturalInduction
<1> QED
  BY <1>0, <1>5 DEF u, v

(* Past the end of a walk there are no more accounts.                      *)
LEMMA AncestorBefore ==
  ASSUME NEW p \in Proxies, NEW y \in Accounts, NEW j \in 0 .. MaxDepth,
         Ancestor(p, y)[j] # Self
  PROVE  \A i \in 0 .. j : Ancestor(p, y)[i] \in Accounts
<1> DEFINE u == Ancestor(p, y)
           P == {k \in Nat : k <= j => u[j - k] # Self}
<1>0. MaxDepth \in Nat /\ j \in Nat /\ j <= MaxDepth
  BY VotingAssumption
<1>1. /\ \A d \in 1 .. MaxDepth : u[d] = IF u[d - 1] = Self THEN Self ELSE p[u[d - 1]]
      /\ u \in [0 .. MaxDepth -> Accounts \cup {Self}]
  BY AncestorWalks
<1>2. u[j] # Self
  OBVIOUS
<1> HIDE DEF u
<1>3. 0 \in P
  BY <1>0, <1>2
<1>4. ASSUME NEW k \in Nat, k \in P PROVE k + 1 \in P
  <2> SUFFICES ASSUME k + 1 <= j PROVE u[j - (k + 1)] # Self
    OBVIOUS
  <2> DEFINE e == j - k
  <2>1. e \in 1 .. MaxDepth /\ e - 1 = j - (k + 1) /\ k <= j
    BY <1>0
  <2>2. u[e] # Self
    BY <1>4, <2>1
  <2> HIDE DEF e
  <2>3. u[e - 1] # Self
    BY <1>1, <2>1, <2>2
  <2> QED
    BY <2>1, <2>3
<1>5. Nat \subseteq P
  <2> HIDE DEF P
  <2> QED BY <1>3, <1>4, NaturalInduction
<1>6. ASSUME NEW i \in 0 .. j PROVE u[i] \in Accounts
  <2>1. j - i \in Nat /\ j - i <= j /\ j - (j - i) = i /\ i \in 0 .. MaxDepth
    BY <1>0
  <2>2. j - i \in P
    BY <1>5, <2>1
  <2>3. u[i] # Self
    BY <2>1, <2>2
  <2> QED
    BY <1>1, <2>1, <2>3
<1> QED
  BY <1>6 DEF u

(* Without loops no walk comes to an account twice.                        *)
NoLoop(p) == \A S \in (SUBSET Accounts) \ {{}} : \E a \in S : p[a] \notin S

(* The walk up from y is at the same place after i and after j hops only   *)
(* when it has already left the accounts.                                  *)
LEMMA NoRepeat ==
  ASSUME NEW p \in Proxies, NoLoop(p), NEW y \in Accounts,
         NEW i \in 0 .. MaxDepth, NEW j \in 0 .. MaxDepth, i < j,
         Ancestor(p, y)[i] = Ancestor(p, y)[j]
  PROVE  Ancestor(p, y)[i] = Self
<1> DEFINE u == Ancestor(p, y)
           S == {u[k] : k \in i .. j - 1}
<1>0. MaxDepth \in Nat /\ i \in Nat /\ j \in Nat /\ j <= MaxDepth /\ i < j
  BY VotingAssumption
<1> SUFFICES ASSUME u[j] # Self PROVE FALSE
  OBVIOUS
<1>1. \A d \in 1 .. MaxDepth : u[d] = IF u[d - 1] = Self THEN Self ELSE p[u[d - 1]]
  BY AncestorWalks
<1>2. \A k \in 0 .. j : u[k] \in Accounts
  BY AncestorBefore
<1>3. u[i] = u[j]
  OBVIOUS
<1> HIDE DEF u
<1>4. S \in (SUBSET Accounts) \ {{}}
  <2>1. i \in i .. j - 1 /\ \A k \in i .. j - 1 : k \in 0 .. j
    BY <1>0
  <2> QED
    BY <1>2, <2>1
<1>5. ASSUME NEW x \in S PROVE p[x] \in S
  <2>1. PICK k \in i .. j - 1 : x = u[k]
    OBVIOUS
  <2> DEFINE e == k + 1
  <2>2. e \in 1 .. MaxDepth /\ e - 1 = k /\ k \in 0 .. j /\ (e = j \/ e \in i .. j - 1)
        /\ i \in i .. j - 1
    BY <1>0
  <2> HIDE DEF e
  <2>3. u[k] # Self
    BY <1>2, <2>2, VotingAssumption
  <2>4. u[e] = p[u[k]]
    BY <1>1, <2>2, <2>3
  <2>5. u[e] \in S
    BY <1>3, <2>2
  <2> QED
    BY <2>1, <2>4, <2>5
<1> QED
  BY <1>4, <1>5 DEF NoLoop

(* A change of the proxy of a does not matter to a walk that has not come  *)
(* to a.                                                                   *)
LEMMA AncestorSame ==
  ASSUME NEW p \in Proxies, NEW q \in Proxies, NEW a \in Accounts,
         \A x \in Accounts \ {a} : q[x] = p[x],
         NEW y \in Accounts, NEW j \in 0 .. MaxDepth,
         \A i \in 0 .. j - 1 : Ancestor(p, y)[i] # a
  PROVE  \A i \in 0 .. j : Ancestor(q, y)[i] = Ancestor(p, y)[i]
<1> DEFINE u == Ancestor(p, y)
           v == Ancestor(q, y)
           P == {k \in Nat : k <= j => v[k] = u[k]}
<1>0. MaxDepth \in Nat /\ j \in Nat /\ j <= MaxDepth
  BY VotingAssumption
<1>1. /\ u[0] = y /\ v[0] = y
      /\ u \in [0 .. MaxDepth -> Accounts \cup {Self}]
      /\ \A d \in 1 .. MaxDepth : u[d] = IF u[d - 1] = Self THEN Self ELSE p[u[d - 1]]
      /\ \A d \in 1 .. MaxDepth : v[d] = IF v[d - 1] = Self THEN Self ELSE q[v[d - 1]]
  BY AncestorWalks
<1>2. \A i \in 0 .. j - 1 : u[i] # a
  OBVIOUS
<1> HIDE DEF u, v
<1>3. 0 \in P
  BY <1>1
<1>4. ASSUME NEW k \in Nat, k \in P PROVE k + 1 \in P
  <2> SUFFICES ASSUME k + 1 <= j PROVE v[k + 1] = u[k + 1]
    OBVIOUS
  <2> DEFINE e == k + 1
  <2>1. e \in 1 .. MaxDepth /\ e - 1 = k /\ k \in 0 .. j - 1 /\ k \in 0 .. MaxDepth /\ k <= j
    BY <1>0
  <2>2. v[k] = u[k] /\ u[k] # a /\ u[k] \in Accounts \cup {Self}
    BY <1>1, <1>2, <1>4, <2>1
  <2> HIDE DEF e
  <2>3. v[e] = IF v[k] = Self THEN Self ELSE q[v[k]]
    BY <1>1, <2>1
  <2>4. u[e] = IF u[k] = Self THEN Self ELSE p[u[k]]
    BY <1>1, <2>1
  <2>5. v[e] = u[e]
    BY <2>2, <2>3, <2>4
  <2> QED
    BY <2>5 DEF e
<1>5. Nat \subseteq P
  <2> HIDE DEF P
  <2> QED BY <1>3, <1>4, NaturalInduction
<1> QED
  BY <1>0, <1>5 DEF u, v

(* A new proxy that passes the loop of the evaluator closes no loop: the   *)
(* walk up from it ends before the loop gives up, and does not meet a.     *)
LEMMA LinkClosesNoLoop ==
  ASSUME NEW v, v.proxy \in Proxies, NoLoop(v.proxy), NEW a \in Accounts,
         NEW p \in Accounts, p # a, proxy_chain_ok(v, a, p)
  PROVE  NoLoop([v.proxy EXCEPT ![a] = p])
<1> DEFINE old == v.proxy
           new == [old EXCEPT ![a] = p]
           u == Ancestor(old, p)
           above == {u[d] : d \in 1 .. MaxDepth} \ {Self}
<1> SUFFICES ASSUME NEW S \in (SUBSET Accounts) \ {{}}, \A x \in S : new[x] \in S
             PROVE  FALSE
  BY DEF NoLoop
<1>0. MaxDepth \in Nat \ {0} /\ Self \notin Accounts
  BY VotingAssumption
<1>1. /\ a \notin above
      /\ \A d, e \in 0 .. MaxDepth : d < e /\ u[e] # Self => u[d] # u[e]
      /\ above # {} => 2 + Cardinality(above) <= MaxDepth
  BY DEF proxy_chain_ok
<1>2. /\ u[0] = p /\ u \in [0 .. MaxDepth -> Accounts \cup {Self}]
      /\ \A d \in 1 .. MaxDepth : u[d] = IF u[d - 1] = Self THEN Self ELSE old[u[d - 1]]
  BY AncestorWalks
<1>3. /\ new \in Proxies /\ new[a] = p
      /\ \A x \in Accounts \ {a} : new[x] = old[x]
  BY DEF Proxies
<1> HIDE DEF u, new
<1>4. a \in S
  <2> SUFFICES ASSUME a \notin S PROVE FALSE
    OBVIOUS
  <2>1. \A x \in S : old[x] \in S
    BY <1>3
  <2> QED
    BY <2>1 DEF NoLoop
<1>5. p \in S
  BY <1>3, <1>4
<1>6. \A d \in 0 .. MaxDepth : u[d] \in S
  <2> DEFINE P == {d \in Nat : d <= MaxDepth => u[d] \in S}
  <2>1. 0 \in P
    BY <1>2, <1>5
  <2>2. ASSUME NEW d \in Nat, d \in P PROVE d + 1 \in P
    <3> SUFFICES ASSUME d + 1 <= MaxDepth PROVE u[d + 1] \in S
      OBVIOUS
    <3> DEFINE e == d + 1
    <3>1. e \in 1 .. MaxDepth /\ e - 1 = d /\ d <= MaxDepth /\ (d = 0 \/ d \in 1 .. MaxDepth)
      BY <1>0
    <3>2. u[d] \in S
      BY <2>2, <3>1
    <3>3. u[d] # Self /\ u[d] # a /\ u[d] \in Accounts
      BY <1>0, <1>1, <1>2, <3>1, <3>2
    <3> HIDE DEF e
    <3>4. u[e] = old[u[d]]
      BY <1>2, <3>1, <3>3
    <3>5. u[e] \in S
      BY <1>3, <3>2, <3>3, <3>4
    <3> QED
      BY <3>5 DEF e
  <2>3. Nat \subseteq P
    <3> HIDE DEF P
    <3> QED BY <2>1, <2>2, NaturalInduction
  <2> QED
    BY <1>0, <2>3
<1>7. \A d \in 0 .. MaxDepth : u[d] # Self
  BY <1>0, <1>6
<1>8. above # {} /\ above \subseteq Accounts /\ \A d \in 1 .. MaxDepth : u[d] \in above
  <2>1. 1 \in 1 .. MaxDepth /\ \A d \in 1 .. MaxDepth : d \in 0 .. MaxDepth
    BY <1>0
  <2> QED
    BY <1>2, <1>7, <2>1
<1>9. Cardinality(above) >= MaxDepth
  <2> DEFINE T == 1 .. MaxDepth
             f == [d \in T |-> u[d]]
  <2>1. IsFiniteSet(above)
    BY <1>8, VotingAssumption, FS_Subset
  <2>2. f \in [T -> above] /\ \A d, e \in T : f[d] = f[e] => d = e
    <3>1. \A d, e \in T : d # e => u[d] # u[e]
      BY <1>0, <1>1, <1>7
    <3> QED
      BY <1>8, <3>1
  <2>4. IsFiniteSet(T) /\ Cardinality(T) = MaxDepth
    BY <1>0, FS_Interval
  <2> HIDE DEF f, T, above
  <2>3. f \in Injection(T, above)
    BY <2>2 DEF Injection, IsInjective
  <2>5. Cardinality(T) <= Cardinality(above)
    BY <2>1, <2>3, FS_Injection
  <2>6. Cardinality(above) \in Nat
    BY <2>1, FS_CardinalityType
  <2> QED
    BY <1>0, <2>4, <2>5, <2>6
<1>10. Cardinality(above) \in Nat
  BY <1>8, VotingAssumption, FS_Subset, FS_CardinalityType
<1> HIDE DEF above
<1> QED
  BY <1>0, <1>1, <1>8, <1>9, <1>10

(* Nor does an account that no longer has a proxy.                         *)
LEMMA CutClosesNoLoop ==
  ASSUME NEW p \in Proxies, NoLoop(p), NEW a \in Accounts
  PROVE  NoLoop([p EXCEPT ![a] = Self])
<1> DEFINE new == [p EXCEPT ![a] = Self]
<1> SUFFICES ASSUME NEW S \in (SUBSET Accounts) \ {{}}, \A x \in S : new[x] \in S
             PROVE  FALSE
  BY DEF NoLoop
<1>1. new[a] = Self /\ \A x \in Accounts \ {a} : new[x] = p[x]
  BY DEF Proxies
<1>2. a \notin S
  BY <1>1, VotingAssumption
<1>3. \A x \in S : p[x] \in S
  BY <1>1, <1>2
<1> QED
  BY <1>3 DEF NoLoop

-----------------------------------------------------------------------------
(* Shares below an account                                                 *)

(* The accounts d hops below a, and their shares.                          *)
Subs(p, a, d) == {y \in Accounts : Ancestor(p, y)[d] = a}

Below(f, p, a, d) == SumFunctionOnSet(f, Subs(p, a, d))

Holdings(f) == Numeric(f, Accounts)

(* The sum is over integers.                                               *)
LEMMA BelowInt ==
  ASSUME NEW f, Holdings(f), NEW S, S \subseteq Accounts
  PROVE  Numeric(f, S) /\ SumFunctionOnSet(f, S) \in Int
<1>1. Numeric(f, S)
  BY FS_Subset DEF Holdings, Numeric
<1> QED
  BY <1>1, SumInt

(* No hops below a there is a.                                             *)
LEMMA BelowSelf ==
  ASSUME NEW f, Holdings(f), NEW p \in Proxies, NEW a \in Accounts
  PROVE  Below(f, p, a, 0) = f[a]
<1>1. Subs(p, a, 0) = {a}
  BY AncestorWalks DEF Subs
<1>2. f[a] \in Int
  BY DEF Holdings, Numeric
<1> QED
  BY <1>1, <1>2, SumSingle DEF Below

(* Shares of a are counted above a only, at the level of its distance.     *)
LEMMA BelowChange ==
  ASSUME NEW f, NEW g, Holdings(f), Holdings(g), NEW a \in Accounts, NEW n \in Int,
         g[a] = f[a] + n, \A y \in Accounts \ {a} : g[y] = f[y],
         NEW p \in Proxies, NEW x \in Accounts, NEW d \in 0 .. MaxDepth
  PROVE  Below(g, p, x, d)
           = Below(f, p, x, d) + IF Ancestor(p, a)[d] = x THEN n ELSE 0
<1> DEFINE S == Subs(p, x, d)
<1>1. S \subseteq Accounts /\ (a \in S <=> Ancestor(p, a)[d] = x)
  BY DEF Subs
<1> HIDE DEF S
<1>2. /\ Numeric(f, S) /\ SumFunctionOnSet(f, S) \in Int
      /\ Numeric(g, S) /\ SumFunctionOnSet(g, S) \in Int
  BY <1>1, BelowInt
<1>3. f[a] \in Int /\ g[a] \in Int
  BY DEF Holdings, Numeric
<1>4. CASE a \in S
  <2>1. \A y \in S \ {a} : g[y] = f[y]
    BY <1>1
  <2>2. SumFunctionOnSet(g, S) = SumFunctionOnSet(f, S) + g[a] - f[a]
    BY <1>2, <1>4, <2>1, SumChange
  <2> QED
    BY <1>1, <1>2, <1>3, <1>4, <2>2 DEF Below, S
<1>5. CASE a \notin S
  <2>1. \A y \in S : f[y] = g[y]
    BY <1>1, <1>5
  <2>2. SumFunctionOnSet(g, S) = SumFunctionOnSet(f, S)
    BY <1>2, <2>1, SumEqual
  <2> QED
    BY <1>1, <1>2, <1>5, <2>2 DEF Below, S
<1> QED
  BY <1>4, <1>5

(* What adjust_proxied_witness_votes adds to level j of x.                 *)
Hops(p, a, x, j) == {d \in 0 .. j : Ancestor(p, a)[d + 1] = x}

Gain(p, a, delta, x, j) == SumFunction([d \in Hops(p, a, x, j) |-> delta[j - d]])

(* The accounts that are j + 1 hops below x, but not through a.            *)
Rest(p, a, x, j) ==
  {y \in Subs(p, x, j + 1) : \A i \in 0 .. j : Ancestor(p, y)[i] # a}

(* The shares below x are those that come up through a and the rest.       *)
LEMMA BelowSplit ==
  ASSUME NEW f, Holdings(f), NEW p \in Proxies, NoLoop(p), NEW a \in Accounts,
         NEW x \in Accounts, NEW j \in Levels, NEW delta,
         \A i \in 0 .. MaxDepth : delta[i] = Below(f, p, a, i)
  PROVE  /\ Below(f, p, x, j + 1)
              = SumFunctionOnSet(f, Rest(p, a, x, j)) + Gain(p, a, delta, x, j)
         /\ Gain(p, a, delta, x, j) \in Int
<1> DEFINE All == Subs(p, x, j + 1)
           R == Rest(p, a, x, j)
           T == All \ R
           D == Hops(p, a, x, j)
           At(y, d) == Ancestor(p, y)[j - d] = a
           t == [y \in T |-> CHOOSE d \in 0 .. j : At(y, d)]
           g == [d \in D |-> SumFunctionOnSet(f, {y \in T : t[y] = d})]
           h == [d \in D |-> delta[j - d]]
<1>0. MaxDepth \in Nat /\ j \in Nat /\ j + 1 <= MaxDepth /\ j + 1 \in 0 .. MaxDepth
      /\ Self \notin Accounts
  BY VotingAssumption DEF Levels
<1>1. T \subseteq Accounts /\ R \subseteq Accounts /\ R \cup T = All /\ R \cap T = {}
  BY DEF Subs, Rest
<1>2. ASSUME NEW y \in T
      PROVE  /\ t[y] \in 0 .. j /\ At(y, t[y])
             /\ \A d \in 0 .. j : At(y, d) => d = t[y]
             /\ t[y] \in D
  <2>1. PICK i \in 0 .. j : Ancestor(p, y)[i] = a
    BY <1>2 DEF Rest
  <2>2. j - i \in 0 .. j /\ j - (j - i) = i
    BY <1>0
  <2>3. \E d \in 0 .. j : At(y, d)
    BY <2>1, <2>2
  <2>4. t[y] \in 0 .. j /\ At(y, t[y])
    BY <2>3
  <2>5. y \in Accounts /\ Ancestor(p, y)[j + 1] = x
    BY <1>2 DEF Subs
  <2>6. ASSUME NEW d \in 0 .. j, At(y, d), d # t[y] PROVE FALSE
    <3> DEFINE b == j - d
               c == j - t[y]
    <3>1. b \in 0 .. MaxDepth /\ c \in 0 .. MaxDepth /\ (b < c \/ c < b)
      BY <1>0, <2>4, <2>6
    <3>2. Ancestor(p, y)[b] = a /\ Ancestor(p, y)[c] = a
      BY <2>4, <2>6
    <3> HIDE DEF b, c, t
    <3> QED
      BY <1>0, <2>5, <3>1, <3>2, NoRepeat
  <2>7. Ancestor(p, a)[t[y] + 1] = x
    <3> DEFINE c == j - t[y]
               k == t[y] + 1
    <3>1. /\ c \in 0 .. MaxDepth /\ k \in 0 .. MaxDepth - c /\ c + k = j + 1
      BY <1>0, <2>4
    <3>2. Ancestor(p, y)[c] = a
      BY <2>4
    <3> HIDE DEF c, k, t
    <3>3. Ancestor(p, y)[c + k] = Ancestor(p, a)[k]
      BY <2>5, <3>1, <3>2, AncestorThrough
    <3> QED
      BY <2>5, <3>1, <3>3 DEF k
  <2> QED
    BY <2>4, <2>6, <2>7 DEF Hops
<1>3. ASSUME NEW d \in D
      PROVE  {y \in T : t[y] = d} = Subs(p, a, j - d)
  <2>1. d \in 0 .. j /\ j - d \in 0 .. j /\ Ancestor(p, a)[d + 1] = x
    BY <1>0 DEF Hops
  <2>2. ASSUME NEW y \in T, t[y] = d PROVE y \in Subs(p, a, j - d)
    BY <1>1, <1>2, <2>2 DEF Subs
  <2>3. ASSUME NEW y \in Subs(p, a, j - d) PROVE y \in T /\ t[y] = d
    <3>1. y \in Accounts /\ Ancestor(p, y)[j - d] = a
      BY DEF Subs
    <3>2. Ancestor(p, y)[j + 1] = x
      <4> DEFINE c == j - d
                 k == d + 1
      <4>1. /\ c \in 0 .. MaxDepth /\ k \in 0 .. MaxDepth - c /\ c + k = j + 1
        BY <1>0, <2>1
      <4>2. Ancestor(p, y)[c] = a /\ Ancestor(p, a)[k] = x
        BY <2>1, <3>1
      <4> HIDE DEF c, k
      <4>3. Ancestor(p, y)[c + k] = Ancestor(p, a)[k]
        BY <3>1, <4>1, <4>2, AncestorThrough
      <4> QED
        BY <4>1, <4>2, <4>3
    <3>3. y \in T
      BY <2>1, <3>1, <3>2 DEF Subs, Rest
    <3>4. d = t[y]
      BY <1>2, <2>1, <3>1, <3>3
    <3> QED
      BY <3>3, <3>4
  <2> QED
    BY <2>2, <2>3
<1>4. IsFiniteSet(D)
  <2>1. D \subseteq 0 .. j /\ IsFiniteSet(0 .. j)
    BY <1>0, FS_Interval DEF Hops
  <2> QED
    BY <2>1, FS_Subset
<1>5. {y \in T : t[y] \in D} = T
  BY <1>2
<1>6. \A d \in D : g[d] = h[d] /\ g[d] \in Int
  <2> TAKE d \in D
  <2>1. j - d \in 0 .. MaxDepth
    BY <1>0 DEF Hops
  <2>2. g[d] = SumFunctionOnSet(f, Subs(p, a, j - d)) /\ h[d] = delta[j - d]
    BY <1>3
  <2>3. SumFunctionOnSet(f, Subs(p, a, j - d)) \in Int
    <3>1. Subs(p, a, j - d) \subseteq Accounts
      BY DEF Subs
    <3> QED
      BY <3>1, BelowInt
  <2> QED
    BY <2>1, <2>2, <2>3 DEF Below
<1>7. DOMAIN h = D /\ Gain(p, a, delta, x, j) = SumFunctionOnSet(h, D)
  BY DEF Gain, SumFunction
<1> HIDE DEF t, D, R, T, All, h
<1>8. Numeric(f, T) /\ Numeric(f, R) /\ SumFunctionOnSet(f, T) \in Int
      /\ SumFunctionOnSet(f, R) \in Int
  BY <1>1, BelowInt
<1>9. SumFunctionOnSet(g, D) = SumFunctionOnSet(f, {y \in T : t[y] \in D})
  BY <1>4, <1>8, SumPartition
<1> HIDE DEF g
<1>10. Numeric(g, D)
  BY <1>4, <1>6 DEF Numeric
<1>11. SumFunctionOnSet(h, D) = SumFunctionOnSet(g, D)
  BY <1>6, <1>10, SumEqual
<1>12. SumFunctionOnSet(f, R \cup T) = SumFunctionOnSet(f, R) + SumFunctionOnSet(f, T)
  BY <1>1, <1>8, SumUnion
<1>13. SumFunctionOnSet(f, R \cup T) = SumFunctionOnSet(f, All)
  BY <1>1, Zenon
<1>14. SumFunctionOnSet(g, D) = SumFunctionOnSet(f, T)
  BY <1>5, <1>9
<1>15. Gain(p, a, delta, x, j) = SumFunctionOnSet(f, T)
  BY <1>7, <1>11, <1>14
<1> QED
  BY <1>8, <1>12, <1>13, <1>15 DEF Below, All, R

(* Two assignments of proxies that differ in the proxy of a only.          *)
DifferAt(p, q, a) == \A x \in Accounts \ {a} : q[x] = p[x]

(* What is below a, and what is below x but not through a, does not depend *)
(* on the proxy of a.                                                      *)
LEMMA RestSame ==
  ASSUME NEW p \in Proxies, NEW q \in Proxies, NoLoop(p), NoLoop(q),
         NEW a \in Accounts, DifferAt(p, q, a), NEW x \in Accounts
  PROVE  /\ \A j \in Levels : Rest(p, a, x, j) = Rest(q, a, x, j)
         /\ \A i \in 0 .. MaxDepth : Subs(p, a, i) = Subs(q, a, i)
<1>0. MaxDepth \in Nat /\ Self \notin Accounts
  BY VotingAssumption
<1>1. ASSUME NEW r \in Proxies, NEW s \in Proxies, NoLoop(r), DifferAt(r, s, a)
      PROVE  /\ \A j \in Levels : Rest(r, a, x, j) \subseteq Rest(s, a, x, j)
             /\ \A i \in 0 .. MaxDepth : Subs(r, a, i) \subseteq Subs(s, a, i)
  <2>1. ASSUME NEW j \in Levels, NEW y \in Rest(r, a, x, j) PROVE y \in Rest(s, a, x, j)
    <3> DEFINE k == j + 1
    <3>1. k \in 0 .. MaxDepth /\ k - 1 = j /\ \A i \in 0 .. j : i \in 0 .. k
      BY <1>0 DEF Levels
    <3>2. /\ y \in Accounts /\ Ancestor(r, y)[k] = x
          /\ \A i \in 0 .. j : Ancestor(r, y)[i] # a
      BY <2>1 DEF Rest, Subs
    <3> HIDE DEF k
    <3>3. \A i \in 0 .. k - 1 : Ancestor(r, y)[i] # a
      BY <3>1, <3>2
    <3>4. \A i \in 0 .. k : Ancestor(s, y)[i] = Ancestor(r, y)[i]
      BY <1>1, <3>1, <3>2, <3>3, AncestorSame DEF DifferAt
    <3>5. k \in 0 .. k
      BY <3>1
    <3>6. Ancestor(s, y)[k] = x /\ \A i \in 0 .. j : Ancestor(s, y)[i] # a
      BY <3>1, <3>2, <3>4, <3>5
    <3> QED
      BY <3>2, <3>6 DEF Rest, Subs, k
  <2>2. ASSUME NEW i, i \in 0 .. MaxDepth, NEW y, y \in Subs(r, a, i)
        PROVE  y \in Subs(s, a, i)
    <3>1. y \in Accounts /\ Ancestor(r, y)[i] = a
      BY <2>2 DEF Subs
    <3>2. ASSUME NEW k \in 0 .. i - 1, Ancestor(r, y)[k] = a PROVE FALSE
      <4>1. k \in 0 .. MaxDepth /\ i \in 0 .. MaxDepth /\ k < i
        BY <1>0, <2>2
      <4> QED
        BY <1>0, <1>1, <3>1, <3>2, <4>1, NoRepeat
    <3>3. \A k \in 0 .. i - 1 : Ancestor(r, y)[k] # a
      BY <3>2
    <3>4. \A z \in Accounts \ {a} : s[z] = r[z]
      BY <1>1 DEF DifferAt
    <3>5. \A k \in 0 .. i : Ancestor(s, y)[k] = Ancestor(r, y)[k]
      <4>1. y \in Accounts /\ i \in 0 .. MaxDepth
        BY <2>2, <3>1
      <4> QED
        BY <3>3, <3>4, <4>1, AncestorSame
    <3>6. i \in 0 .. i
      BY <1>0, <2>2
    <3> QED
      BY <3>1, <3>5, <3>6 DEF Subs
  <2> QED
    BY <2>1, <2>2
<1>2. DifferAt(q, p, a)
  BY DEF DifferAt
<1>3. /\ \A j \in Levels : Rest(p, a, x, j) \subseteq Rest(q, a, x, j)
      /\ \A i \in 0 .. MaxDepth : Subs(p, a, i) \subseteq Subs(q, a, i)
  BY <1>1
<1>4. /\ \A j \in Levels : Rest(q, a, x, j) \subseteq Rest(p, a, x, j)
      /\ \A i \in 0 .. MaxDepth : Subs(q, a, i) \subseteq Subs(p, a, i)
  BY <1>1, <1>2
<1> QED
  BY <1>3, <1>4

(* What account_witness_proxy does to the level counters: what a brings is *)
(* taken out along the old chain and put in along the new one.             *)
LEMMA BelowMoved ==
  ASSUME NEW f, Holdings(f), NEW p \in Proxies, NEW q \in Proxies,
         NoLoop(p), NoLoop(q), NEW a \in Accounts, DifferAt(p, q, a),
         NEW delta, \A i \in 0 .. MaxDepth : delta[i] = Below(f, p, a, i),
         NEW x \in Accounts, NEW j \in Levels
  PROVE  /\ Below(f, q, x, j + 1)
              = Below(f, p, x, j + 1) - Gain(p, a, delta, x, j) + Gain(q, a, delta, x, j)
         /\ Gain(p, a, delta, x, j) \in Int /\ Gain(q, a, delta, x, j) \in Int
<1>1. /\ Below(f, p, x, j + 1)
           = SumFunctionOnSet(f, Rest(p, a, x, j)) + Gain(p, a, delta, x, j)
      /\ Gain(p, a, delta, x, j) \in Int
  BY BelowSplit
<1>2. \A i \in 0 .. MaxDepth : delta[i] = Below(f, q, a, i)
  BY RestSame DEF Below
<1>3. /\ Below(f, q, x, j + 1)
           = SumFunctionOnSet(f, Rest(q, a, x, j)) + Gain(q, a, delta, x, j)
      /\ Gain(q, a, delta, x, j) \in Int
  BY <1>2, BelowSplit
<1>4. Rest(p, a, x, j) = Rest(q, a, x, j)
  BY RestSame
<1>5. SumFunctionOnSet(f, Rest(p, a, x, j)) \in Int
  <2>1. Rest(p, a, x, j) \subseteq Accounts
    BY DEF Rest, Subs
  <2> QED
    BY <2>1, BelowInt
<1> DEFINE R1 == SumFunctionOnSet(f, Rest(p, a, x, j))
           R2 == SumFunctionOnSet(f, Rest(q, a, x, j))
<1>6. R1 = R2
  BY <1>4
<1> HIDE DEF R1, R2
<1> QED
  BY <1>1, <1>3, <1>5, <1>6 DEF R1, R2

(* All that x gains: the account r hops up counts what is at most          *)
(* MaxDepth - r hops below a.                                              *)
Deltas(delta) == \A i \in 0 .. MaxDepth : delta[i] \in Int

Gains(p, a, delta, x) == [j \in Levels |-> Gain(p, a, delta, x, j)]

(* adjust_proxied_witness_votes( a, delta ) gives the account r hops above *)
(* a the first MaxDepth - r + 1 entries of delta, over all its levels.     *)
LEMMA GainAbove ==
  ASSUME NEW p \in Proxies, NoLoop(p), NEW a \in Accounts, NEW delta, Deltas(delta),
         NEW x \in Accounts, NEW r \in 1 .. MaxDepth, Ancestor(p, a)[r] = x
  PROVE  /\ Numeric(Gains(p, a, delta, x), Levels)
         /\ SumFunctionOnSet(Gains(p, a, delta, x), Levels)
              = SumFunctionOnSet(delta, 0 .. MaxDepth - r)
<1> DEFINE g == Gains(p, a, delta, x)
           J == r - 1 .. MaxDepth - 1
           I == 0 .. MaxDepth - r
           t == [i \in I |-> i + (r - 1)]
           s == [j \in J |-> j - (r - 1)]
<1>0. MaxDepth \in Nat /\ r \in Nat /\ r <= MaxDepth /\ 1 <= r /\ Self \notin Accounts
  BY VotingAssumption
<1>1. ASSUME NEW j \in Levels
      PROVE  /\ j \in J => g[j] = delta[j - (r - 1)] /\ g[j] \in Int
             /\ j \notin J => g[j] = 0
  <2> DEFINE D == Hops(p, a, x, j)
             h == [d \in D |-> delta[j - d]]
  <2>0. j \in Nat /\ j < MaxDepth
    BY <1>0 DEF Levels
  <2>1. \A d \in D : d = r - 1
    <3> SUFFICES ASSUME NEW d \in D, d # r - 1 PROVE FALSE
      OBVIOUS
    <3> DEFINE e == d + 1
    <3>1. e \in 0 .. MaxDepth /\ r \in 0 .. MaxDepth /\ (e < r \/ r < e)
          /\ Ancestor(p, a)[e] = x
      BY <1>0, <2>0 DEF Hops
    <3> HIDE DEF e
    <3> QED
      BY <1>0, <3>1, NoRepeat
  <2>2. g[j] = SumFunctionOnSet(h, D) /\ \A d \in D : h[d] = delta[j - d]
    BY DEF Gains, Gain, SumFunction
  <2>3. CASE j \in J
    <3> DEFINE d == r - 1
    <3>1. d \in 0 .. j /\ d + 1 = r /\ j - d \in 0 .. MaxDepth
      BY <1>0, <2>0, <2>3
    <3>2. d \in D
      BY <3>1 DEF Hops
    <3>3. D = {d}
      BY <2>1, <3>2
    <3> HIDE DEF d, h, D
    <3>4. h[d] = delta[j - d] /\ h[d] \in Int
      BY <2>2, <3>1, <3>2 DEF Deltas
    <3>5. SumFunctionOnSet(h, D) = h[d]
      BY <3>3, <3>4, SumSingle
    <3> QED
      BY <2>2, <2>3, <3>4, <3>5 DEF d
  <2>4. CASE j \notin J
    <3>1. r - 1 \notin 0 .. j
      BY <1>0, <2>0, <2>4
    <3>2. D = {}
      BY <2>1, <3>1 DEF Hops
    <3> QED
      BY <2>2, <2>4, <3>2, SumEmpty
  <2> QED
    BY <2>3, <2>4
<1>2. IsFiniteSet(Levels) /\ IsFiniteSet(I) /\ IsFiniteSet(J) /\ J \subseteq Levels
  BY <1>0, FS_Interval DEF Levels
<1>3. Numeric(g, Levels) /\ \A j \in Levels \ J : g[j] = 0
  <2>1. \A j \in Levels : g[j] \in Int
    BY <1>1
  <2> QED
    BY <1>1, <1>2, <2>1 DEF Numeric
<1>4. SumFunctionOnSet(g, Levels) = SumFunctionOnSet(g, J)
  <2> HIDE DEF g, J
  <2> QED BY <1>2, <1>3, SumSupport
<1>5. /\ \A i \in I : t[i] \in J /\ s[t[i]] = i
      /\ \A j \in J : s[j] \in I /\ t[s[j]] = j
  BY <1>0
<1>6. \A j \in J : g[j] = delta[s[j]]
  BY <1>1, <1>2
<1>7. Numeric(delta, I)
  BY <1>0, <1>2 DEF Numeric, Deltas
<1> HIDE DEF g, I, J, s, t
<1>8. SumFunctionOnSet(g, J) = SumFunctionOnSet(delta, I)
  BY <1>2, <1>5, <1>6, <1>7, SumRename
<1> QED
  BY <1>3, <1>4, <1>8 DEF g, I

(* Others gain nothing.                                                    *)
LEMMA GainElsewhere ==
  ASSUME NEW p \in Proxies, NEW a \in Accounts, NEW delta,
         NEW x \in Accounts, \A r \in 1 .. MaxDepth : Ancestor(p, a)[r] # x
  PROVE  /\ \A j \in Levels : Gain(p, a, delta, x, j) = 0
         /\ Numeric(Gains(p, a, delta, x), Levels)
         /\ SumFunctionOnSet(Gains(p, a, delta, x), Levels) = 0
<1>0. MaxDepth \in Nat
  BY VotingAssumption
<1>1. ASSUME NEW j \in Levels PROVE Gain(p, a, delta, x, j) = 0
  <2> DEFINE h == [d \in Hops(p, a, x, j) |-> delta[j - d]]
  <2>1. \A d \in 0 .. j : d + 1 \in 1 .. MaxDepth
    BY <1>0 DEF Levels
  <2>2. Hops(p, a, x, j) = {}
    BY <2>1 DEF Hops
  <2>3. Gain(p, a, delta, x, j) = SumFunctionOnSet(h, {})
    BY <2>2 DEF Gain, SumFunction
  <2> QED
    BY <2>3, SumEmpty
<1> DEFINE g == Gains(p, a, delta, x)
<1>2. \A j \in Levels : g[j] = 0
  BY <1>1 DEF Gains
<1>3. IsFiniteSet(Levels)
  BY <1>0, FS_Interval DEF Levels
<1> HIDE DEF g
<1>4. Numeric(g, Levels) /\ SumFunctionOnSet(g, Levels) = 0
  BY <1>2, <1>3, SumZero DEF Numeric
<1> QED
  BY <1>1, <1>4 DEF g

-----------------------------------------------------------------------------
(* Books                                                                   *)

(* A book whose numbers may be out of range, as it is halfway through an   *)
(* operation.                                                              *)
IsBook(b) ==
  /\ b = [vesting |-> b.vesting, total |-> b.total, proxied |-> b.proxied,
          votes |-> b.votes, sp_votes |-> b.sp_votes, ok |-> b.ok]
  /\ b.vesting \in [Accounts -> Int] /\ b.total \in Int
  /\ b.proxied \in [Accounts -> [Levels -> Int]]
  /\ b.votes \in [Witnesses -> Int]
  /\ b.sp_votes \in [Platforms -> Int]
  /\ b.ok \in BOOLEAN

(* b and c agree on all but what is voted for.                             *)
SameShares(b, c) == c.vesting = b.vesting /\ c.total = b.total /\ c.proxied = b.proxied

(* Votes of one account.                                                   *)
LEMMA VotesAdjusted ==
  ASSUME NEW b, IsBook(b), NEW v, NEW x, NEW n \in Int
  PROVE  LET c == adjust_witness_votes(b, v, x, n)
         IN  /\ IsBook(c) /\ SameShares(b, c)
             /\ \A w \in Witnesses :
                  c.votes[w] = b.votes[w] + IF <<x, w>> \in v.witness_vote THEN n ELSE 0
<1> DEFINE voted == {w \in Witnesses : <<x, w>> \in v.witness_vote}
           votes == [w \in Witnesses |-> IF w \in voted THEN b.votes[w] + n ELSE b.votes[w]]
           ok == b.ok /\ \A w \in voted : b.votes[w] + n <= b.total
           c == adjust_witness_votes(b, v, x, n)
<1>1. c = [b EXCEPT !.votes = votes, !.ok = ok]
  BY DEF adjust_witness_votes
<1>2. votes \in [Witnesses -> Int]
  BY DEF IsBook
<1>3. \A w \in Witnesses :
        votes[w] = b.votes[w] + IF <<x, w>> \in v.witness_vote THEN n ELSE 0
  BY DEF IsBook
<1>6. ok \in BOOLEAN
  OBVIOUS
<1> HIDE DEF votes, ok, c
<1>4. c = [vesting |-> b.vesting, total |-> b.total, proxied |-> b.proxied,
           votes |-> votes, sp_votes |-> b.sp_votes, ok |-> ok]
  BY <1>1 DEF IsBook
<1>5. IsBook(c) /\ SameShares(b, c)
  BY <1>2, <1>4, <1>6 DEF IsBook, SameShares
<1> QED
  BY <1>3, <1>4, <1>5 DEF c

(* Its votes for platforms.                                                *)
LEMMA PlatformVotesAdjusted ==
  ASSUME NEW b, IsBook(b), NEW v, NEW x, NEW n \in Int
  PROVE  LET c == adjust_streaming_platform_votes(b, v, x, n)
         IN  IsBook(c) /\ SameShares(b, c) /\ c.votes = b.votes
<1> DEFINE voted == {p \in Platforms : <<x, p>> \in v.platform_vote}
           votes == [p \in Platforms |->
                       IF p \in voted THEN b.sp_votes[p] + n ELSE b.sp_votes[p]]
           ok == b.ok /\ \A p \in voted : b.sp_votes[p] + n <= b.total
           c == adjust_streaming_platform_votes(b, v, x, n)
<1>1. c = [b EXCEPT !.sp_votes = votes, !.ok = ok]
  BY DEF adjust_streaming_platform_votes
<1>2. votes \in [Platforms -> Int]
  BY DEF IsBook
<1>5. ok \in BOOLEAN
  OBVIOUS
<1> HIDE DEF votes, ok, c
<1>3. c = [vesting |-> b.vesting, total |-> b.total, proxied |-> b.proxied,
           votes |-> b.votes, sp_votes |-> votes, ok |-> ok]
  BY <1>1 DEF IsBook
<1>4. IsBook(c) /\ SameShares(b, c) /\ c.votes = b.votes
  BY <1>2, <1>3, <1>5 DEF IsBook, SameShares
<1> QED
  BY <1>4 DEF c

(* The account at which the walk up from a ends, r hops up.                *)
Top(p, a, r) ==
  r \in 0 .. MaxDepth /\ Ancestor(p, a)[r] # Self /\ p[Ancestor(p, a)[r]] = Self

(* A walk ends in one place only.                                          *)
LEMMA TopUnique ==
  ASSUME NEW p \in Proxies, NEW a \in Accounts, NEW r, NEW s, Top(p, a, r), Top(p, a, s)
  PROVE  r = s
<1>0. MaxDepth \in Nat /\ r \in 0 .. MaxDepth /\ s \in 0 .. MaxDepth /\ Self \notin Accounts
  BY VotingAssumption DEF Top
<1>1. ASSUME NEW i, NEW k, Top(p, a, i), Top(p, a, k), i < k PROVE FALSE
  <2> DEFINE e == i + 1
  <2>1. i \in 0 .. MaxDepth /\ k \in 0 .. MaxDepth
    BY <1>1 DEF Top
  <2>2. e \in 1 .. MaxDepth /\ e - 1 = i /\ e \in 0 .. k
    BY <1>0, <1>1, <2>1
  <2> HIDE DEF e
  <2>3. Ancestor(p, a)[e] = Self
    BY <1>1, <2>2, AncestorWalks DEF Top
  <2>4. Ancestor(p, a)[k] # Self
    BY <1>1 DEF Top
  <2>5. \A d \in 0 .. k : Ancestor(p, a)[d] \in Accounts
    BY <2>1, <2>4, AncestorBefore
  <2> QED
    BY <1>0, <2>2, <2>3, <2>5
<1> QED
  BY <1>0, <1>1

(* The gains are integers.                                                 *)
LEMMA GainInt ==
  ASSUME NEW p \in Proxies, NoLoop(p), NEW a \in Accounts, NEW delta, Deltas(delta),
         NEW x \in Accounts
  PROVE  Numeric(Gains(p, a, delta, x), Levels)
         /\ \A j \in Levels : Gain(p, a, delta, x, j) \in Int
<1>1. Numeric(Gains(p, a, delta, x), Levels)
  <2>1. CASE \E r \in 1 .. MaxDepth : Ancestor(p, a)[r] = x
    BY <2>1, GainAbove
  <2>2. CASE \A r \in 1 .. MaxDepth : Ancestor(p, a)[r] # x
    BY <2>2, GainElsewhere
  <2> QED
    BY <2>1, <2>2
<1> QED
  BY <1>1 DEF Numeric, Gains

(* What the account r hops up passes on to w.                              *)
PassedOn(v, a, delta, r, w) ==
  IF <<Ancestor(v.proxy, a)[r], w>> \in v.witness_vote
  THEN SumFunctionOnSet(delta, 0 .. MaxDepth - r) ELSE 0

(* The whole of adjust_proxied_witness_votes.                              *)
LEMMA Adjusted ==
  ASSUME NEW b, IsBook(b), NEW v, v.proxy \in Proxies, NoLoop(v.proxy),
         NEW a \in Accounts, NEW delta, Deltas(delta)
  PROVE  LET c == adjust_proxied_witness_votes(b, v, a, delta)
             p == v.proxy
         IN  /\ IsBook(c) /\ c.vesting = b.vesting /\ c.total = b.total
             /\ \A x \in Accounts, j \in Levels :
                  c.proxied[x][j] = b.proxied[x][j] + Gain(p, a, delta, x, j)
             /\ \A r : Top(p, a, r) =>
                  \A w \in Witnesses : c.votes[w] = b.votes[w] + PassedOn(v, a, delta, r, w)
             /\ (\A r : ~Top(p, a, r)) => c.votes = b.votes
<1> DEFINE p == v.proxy
           up == Ancestor(p, a)
           proxied == [x \in Accounts |->
                         [j \in Levels |-> b.proxied[x][j] + Gain(p, a, delta, x, j)]]
           passed == [b EXCEPT !.proxied = proxied]
           ends == {d \in 0 .. MaxDepth : up[d] # Self /\ p[up[d]] = Self}
           r0 == CHOOSE r \in ends : TRUE
           n0 == SumFunctionOnSet(delta, 0 .. MaxDepth - r0)
           c1 == adjust_witness_votes(passed, v, up[r0], n0)
           c2 == adjust_streaming_platform_votes(c1, v, up[r0], n0)
           c == adjust_proxied_witness_votes(b, v, a, delta)
<1>0. MaxDepth \in Nat
  BY VotingAssumption
<1>1. c = IF ends = {} THEN passed ELSE c2
  BY DEF adjust_proxied_witness_votes, Gain, Hops
<1>2. proxied \in [Accounts -> [Levels -> Int]]
  <2>1. \A x \in Accounts, j \in Levels :
          Gain(p, a, delta, x, j) \in Int /\ b.proxied[x][j] \in Int
    BY GainInt DEF IsBook
  <2> QED
    BY <2>1
<1>3. \A x \in Accounts, j \in Levels :
        proxied[x][j] = b.proxied[x][j] + Gain(p, a, delta, x, j)
  OBVIOUS
<1>4. \A r : r \in ends <=> Top(p, a, r)
  BY DEF Top
<1> HIDE DEF proxied
<1>5. passed = [vesting |-> b.vesting, total |-> b.total, proxied |-> proxied,
                votes |-> b.votes, sp_votes |-> b.sp_votes, ok |-> b.ok]
  BY DEF IsBook
<1> HIDE DEF passed
<1>6. /\ IsBook(passed) /\ passed.vesting = b.vesting /\ passed.total = b.total
      /\ passed.proxied = proxied /\ passed.votes = b.votes
  BY <1>2, <1>5 DEF IsBook
<1>7. CASE ends = {}
  <2>1. c = passed
    BY <1>1, <1>7
  <2>2. \A r : ~Top(p, a, r)
    BY <1>4, <1>7
  <2> HIDE DEF c, p
  <2> QED
    BY <1>3, <1>6, <2>1, <2>2 DEF c, p
<1>8. CASE ends # {}
  <2>1. c = c2
    BY <1>1, <1>8
  <2>2. r0 \in ends
    BY <1>8
  <2>3. Top(p, a, r0) /\ r0 \in 0 .. MaxDepth
    BY <1>4, <2>2
  <2> HIDE DEF r0, c1, c2, ends, c
  <2>4. n0 \in Int
    <3> DEFINE I == 0 .. MaxDepth - r0
    <3>1. IsFiniteSet(I) /\ \A i \in I : i \in 0 .. MaxDepth
      BY <1>0, <2>3, FS_Interval
    <3> HIDE DEF I
    <3>2. Numeric(delta, I)
      BY <3>1 DEF Numeric, Deltas
    <3> QED
      BY <3>2, SumInt DEF I
  <2> HIDE DEF n0
  <2>5. /\ IsBook(c1) /\ SameShares(passed, c1)
        /\ \A w \in Witnesses :
             c1.votes[w] = passed.votes[w] + IF <<up[r0], w>> \in v.witness_vote THEN n0 ELSE 0
    BY <1>6, <2>4, VotesAdjusted DEF c1
  <2>6. IsBook(c2) /\ SameShares(c1, c2) /\ c2.votes = c1.votes
    BY <2>4, <2>5, PlatformVotesAdjusted DEF c2
  <2>7. /\ IsBook(c) /\ c.vesting = b.vesting /\ c.total = b.total /\ c.proxied = proxied
        /\ \A w \in Witnesses :
             c.votes[w] = b.votes[w] + IF <<up[r0], w>> \in v.witness_vote THEN n0 ELSE 0
    BY <1>6, <2>1, <2>5, <2>6 DEF SameShares
  <2>8. \A r : Top(p, a, r) => r = r0
    BY <2>3, TopUnique
  <2>9. \A r : Top(p, a, r) =>
          \A w \in Witnesses : c.votes[w] = b.votes[w] + PassedOn(v, a, delta, r, w)
    BY <2>7, <2>8 DEF n0, PassedOn
  <2> QED
    BY <1>3, <2>3, <2>7, <2>9 DEF c
<1> QED
  BY <1>7, <1>8

-----------------------------------------------------------------------------
(* Votes                                                                   *)

Weights(b) == [x \in Accounts |-> witness_vote_weight(b, x)]

VotersFor(v, w) == {x \in Accounts : <<x, w>> \in v.witness_vote}

(* What w should have.                                                     *)
Tally(b, v, w) == SumFunctionOnSet(Weights(b), VotersFor(v, w))

(* Weights are integers, and so are sums of them.                          *)
LEMMA WeightInt ==
  ASSUME NEW b, IsBook(b)
  PROVE  /\ \A x \in Accounts : b.proxied[x] \in [Levels -> Int]
                                /\ Numeric(b.proxied[x], Levels)
                                /\ Weights(b)[x] = b.vesting[x]
                                     + SumFunctionOnSet(b.proxied[x], Levels)
         /\ Holdings(Weights(b))
         /\ \A v, w : Tally(b, v, w) \in Int
<1>1. IsFiniteSet(Levels) /\ IsFiniteSet(Accounts)
  BY VotingAssumption, FS_Interval DEF Levels
<1>2. ASSUME NEW x \in Accounts
      PROVE  /\ b.proxied[x] \in [Levels -> Int] /\ Numeric(b.proxied[x], Levels)
             /\ b.vesting[x] \in Int
             /\ Weights(b)[x] = b.vesting[x] + SumFunctionOnSet(b.proxied[x], Levels)
             /\ Weights(b)[x] \in Int
  <2>1. b.proxied[x] \in [Levels -> Int] /\ b.vesting[x] \in Int
    BY DEF IsBook
  <2>2. Numeric(b.proxied[x], Levels) /\ DOMAIN b.proxied[x] = Levels
    BY <1>1, <2>1 DEF Numeric
  <2>3. Weights(b)[x] = b.vesting[x] + SumFunctionOnSet(b.proxied[x], Levels)
    BY <2>2 DEF Weights, witness_vote_weight, SumFunction
  <2>4. SumFunctionOnSet(b.proxied[x], Levels) \in Int
    BY <2>2, SumInt
  <2> QED
    BY <2>1, <2>2, <2>3, <2>4
<1>3. Holdings(Weights(b))
  BY <1>1, <1>2 DEF Holdings, Numeric
<1>4. ASSUME NEW v, NEW w PROVE Tally(b, v, w) \in Int
  <2>1. VotersFor(v, w) \subseteq Accounts
    BY DEF VotersFor
  <2> QED
    BY <1>3, <2>1, BelowInt DEF Tally
<1> QED
  BY <1>2, <1>3, <1>4

(* An account that votes for a witness has no proxy.                       *)
VotersAtTop(v) ==
  \A x \in Accounts, w \in Witnesses : <<x, w>> \in v.witness_vote => v.proxy[x] = Self

(* The walk up moves the votes of the witnesses by as much as the weights  *)
(* of the accounts that vote for them, but for what comes from a itself.   *)
LEMMA TallyAdjusted ==
  ASSUME NEW b, IsBook(b), NEW v, v.proxy \in Proxies, NoLoop(v.proxy), VotersAtTop(v),
         NEW a \in Accounts, NEW delta, Deltas(delta), NEW w \in Witnesses
  PROVE  LET c == adjust_proxied_witness_votes(b, v, a, delta)
         IN  c.votes[w] - Tally(c, v, w)
               = b.votes[w] - Tally(b, v, w)
                   + IF <<a, w>> \in v.witness_vote
                     THEN SumFunctionOnSet(delta, 0 .. MaxDepth) ELSE 0
<1> DEFINE c == adjust_proxied_witness_votes(b, v, a, delta)
           p == v.proxy
           up == Ancestor(p, a)
           V == VotersFor(v, w)
           G == [x \in Accounts |-> SumFunctionOnSet(Gains(p, a, delta, x), Levels)]
           Sums(r) == SumFunctionOnSet(delta, 0 .. MaxDepth - r)
<1>0. MaxDepth \in Nat \ {0} /\ Self \notin Accounts /\ 0 \in 0 .. MaxDepth
  BY VotingAssumption
<1>1. /\ IsBook(c) /\ c.vesting = b.vesting
      /\ \A x \in Accounts, j \in Levels :
           c.proxied[x][j] = b.proxied[x][j] + Gain(p, a, delta, x, j)
      /\ \A r : Top(p, a, r) =>
           c.votes[w] = b.votes[w] + IF <<up[r], w>> \in v.witness_vote THEN Sums(r) ELSE 0
      /\ (\A r : ~Top(p, a, r)) => c.votes[w] = b.votes[w]
  <2>1. /\ IsBook(c) /\ c.vesting = b.vesting
        /\ \A x \in Accounts, j \in Levels :
             c.proxied[x][j] = b.proxied[x][j] + Gain(p, a, delta, x, j)
        /\ (\A r : ~Top(p, a, r)) => c.votes = b.votes
    BY Adjusted
  <2>2. \A r : Top(p, a, r) =>
          \A x \in Witnesses : c.votes[x] = b.votes[x] + PassedOn(v, a, delta, r, x)
    BY Adjusted
  <2> HIDE DEF c
  <2> QED
    BY <2>1, <2>2 DEF PassedOn
<1>2. /\ up[0] = a /\ up \in [0 .. MaxDepth -> Accounts \cup {Self}]
      /\ \A d \in 1 .. MaxDepth : up[d] = IF up[d - 1] = Self THEN Self ELSE p[up[d - 1]]
  BY AncestorWalks
<1>3. V \subseteq Accounts /\ \A x \in V : p[x] = Self
  BY DEF VotersFor, VotersAtTop
<1>4. \A x \in Accounts : x \in V <=> <<x, w>> \in v.witness_vote
  BY DEF VotersFor
<1>5. b.votes[w] \in Int /\ c.votes[w] \in Int /\ Tally(b, v, w) \in Int
  BY <1>1, WeightInt DEF IsBook
<1> HIDE DEF c, V
<1>6. \A x \in Accounts : G[x] \in Int /\ Weights(c)[x] = Weights(b)[x] + G[x]
  <2> TAKE x \in Accounts
  <2> DEFINE g == Gains(p, a, delta, x)
             f == b.proxied[x]
             h == c.proxied[x]
  <2>1. Numeric(f, Levels) /\ Numeric(g, Levels) /\ \A j \in Levels : h[j] = f[j] + g[j]
    BY <1>1, GainInt, WeightInt DEF Gains
  <2>2. /\ Weights(b)[x] = b.vesting[x] + SumFunctionOnSet(f, Levels)
        /\ Weights(c)[x] = b.vesting[x] + SumFunctionOnSet(h, Levels)
        /\ b.vesting[x] \in Int
    BY <1>1, WeightInt DEF IsBook
  <2>3. G[x] = SumFunctionOnSet(g, Levels)
    OBVIOUS
  <2> HIDE DEF f, g, h, G
  <2>4. SumFunctionOnSet(h, Levels) = SumFunctionOnSet(f, Levels) + SumFunctionOnSet(g, Levels)
    BY <2>1, SumAdd
  <2>5. SumFunctionOnSet(f, Levels) \in Int /\ SumFunctionOnSet(g, Levels) \in Int
    BY <2>1, SumInt
  <2> QED
    BY <2>2, <2>3, <2>4, <2>5
<1>7. ASSUME NEW x \in Accounts, \A r \in 1 .. MaxDepth : up[r] # x PROVE G[x] = 0
  BY <1>7, GainElsewhere
<1>8. ASSUME NEW x \in Accounts, NEW r \in 1 .. MaxDepth, up[r] = x PROVE G[x] = Sums(r)
  BY <1>8, GainAbove
<1>9. ASSUME NEW x \in V, NEW r \in 0 .. MaxDepth, up[r] = x PROVE Top(p, a, r)
  BY <1>0, <1>3, <1>9 DEF Top
<1>10. Numeric(G, V) /\ Numeric(Weights(b), V) /\ SumFunctionOnSet(G, V) \in Int
  <2>1. Holdings(G) /\ Holdings(Weights(b))
    BY <1>6, WeightInt, VotingAssumption DEF Holdings, Numeric
  <2> HIDE DEF G
  <2> QED
    BY <1>3, <2>1, BelowInt
<1> HIDE DEF G, p, up
<1>11. Tally(c, v, w) = Tally(b, v, w) + SumFunctionOnSet(G, V)
  <2>1. \A x \in V : Weights(c)[x] = Weights(b)[x] + G[x]
    BY <1>3, <1>6
  <2>2. SumFunctionOnSet(Weights(c), V)
          = SumFunctionOnSet(Weights(b), V) + SumFunctionOnSet(G, V)
    BY <1>10, <2>1, SumAdd
  <2> QED
    BY <2>2 DEF Tally, V
<1>12. IsFiniteSet(V)
  BY <1>10 DEF Numeric
<1>13. CASE \A r : ~Top(p, a, r)
  <2>1. a \notin V
    BY <1>0, <1>2, <1>9, <1>13
  <2>2. \A r \in 1 .. MaxDepth : r \in 0 .. MaxDepth
    BY <1>0
  <2>3. \A x \in V : G[x] = 0
    BY <1>3, <1>7, <1>9, <1>13, <2>2
  <2>4. SumFunctionOnSet(G, V) = 0
    BY <1>12, <2>3, SumZero
  <2> QED
    BY <1>1, <1>4, <1>5, <1>11, <1>13, <2>1, <2>4 DEF c
<1>14. ASSUME NEW r, Top(p, a, r), r = 0
       PROVE  c.votes[w] - Tally(c, v, w) = b.votes[w] - Tally(b, v, w)
                + IF <<a, w>> \in v.witness_vote
                  THEN SumFunctionOnSet(delta, 0 .. MaxDepth) ELSE 0
  <2>1. ASSUME NEW x \in V, NEW s \in 1 .. MaxDepth, up[s] = x PROVE FALSE
    <3>1. Top(p, a, s)
      <4>1. s \in 0 .. MaxDepth
        BY <1>0
      <4> QED
        BY <1>9, <2>1, <4>1
    <3>2. r = s
      <4>1. p \in Proxies
        BY DEF p
      <4> QED
        BY <1>14, <3>1, <4>1, TopUnique
    <3> QED
      BY <1>0, <1>14, <3>2
  <2>2. \A x \in V : G[x] = 0
    BY <1>3, <1>7, <2>1
  <2>3. SumFunctionOnSet(G, V) = 0
    BY <1>12, <2>2, SumZero
  <2>4. c.votes[w] = b.votes[w] + IF <<up[r], w>> \in v.witness_vote THEN Sums(r) ELSE 0
    BY <1>1, <1>14
  <2>5. up[r] = a /\ Sums(r) = SumFunctionOnSet(delta, 0 .. MaxDepth)
    <3>1. MaxDepth - r = MaxDepth
      BY <1>0, <1>14
    <3> QED
      BY <1>2, <1>14, <3>1
  <2>6. c.votes[w] = b.votes[w] + IF <<a, w>> \in v.witness_vote
                                  THEN SumFunctionOnSet(delta, 0 .. MaxDepth) ELSE 0
    BY <2>4, <2>5
  <2>7. SumFunctionOnSet(delta, 0 .. MaxDepth) \in Int
    <3>1. Numeric(delta, 0 .. MaxDepth)
      BY <1>0, FS_Interval DEF Numeric, Deltas
    <3> QED
      BY <3>1, SumInt
  <2> QED
    BY <1>5, <1>11, <2>3, <2>6, <2>7
<1>15. ASSUME NEW r, Top(p, a, r), r # 0
       PROVE  c.votes[w] - Tally(c, v, w) = b.votes[w] - Tally(b, v, w)
                + IF <<a, w>> \in v.witness_vote
                  THEN SumFunctionOnSet(delta, 0 .. MaxDepth) ELSE 0
  <2>1. r \in 1 .. MaxDepth /\ up[r] \in Accounts
    BY <1>0, <1>2, <1>15 DEF Top, up
  <2>2. ASSUME NEW x \in V, NEW s \in 0 .. MaxDepth, up[s] = x PROVE s = r
    <3>1. p \in Proxies
      BY DEF p
    <3>2. Top(p, a, s)
      BY <1>9, <2>2
    <3> QED
      BY <1>15, <3>1, <3>2, TopUnique
  <2>3. a \notin V
    BY <1>0, <1>2, <1>15, <2>2
  <2>4. \A x \in V : x # up[r] => G[x] = 0
    <3> SUFFICES ASSUME NEW x \in V, x # up[r] PROVE G[x] = 0
      OBVIOUS
    <3>1. \A s \in 1 .. MaxDepth : s \in 0 .. MaxDepth
      BY <1>0
    <3>2. \A s \in 1 .. MaxDepth : up[s] # x
      BY <2>2, <3>1
    <3> QED
      BY <1>3, <1>7, <3>2
  <2>5. G[up[r]] = Sums(r)
    BY <1>8, <2>1
  <2>6. SumFunctionOnSet(G, V) = IF up[r] \in V THEN Sums(r) ELSE 0
    <3> DEFINE z == up[r]
    <3>1. CASE z \in V
      <4>1. {z} \subseteq V /\ \A x \in V \ {z} : G[x] = 0
        BY <2>4, <3>1
      <4> HIDE DEF z
      <4>2. SumFunctionOnSet(G, V) = SumFunctionOnSet(G, {z})
        BY <1>10, <4>1, SumSupport
      <4>3. G[z] \in Int
        BY <1>3, <1>6, <3>1
      <4>4. SumFunctionOnSet(G, {z}) = G[z]
        BY <4>3, SumSingle
      <4> QED
        BY <2>5, <3>1, <4>2, <4>4 DEF z
    <3>2. CASE z \notin V
      <4>1. \A x \in V : G[x] = 0
        BY <2>4, <3>2
      <4>2. SumFunctionOnSet(G, V) = 0
        BY <1>12, <4>1, SumZero
      <4> QED
        BY <3>2, <4>2
    <3> QED
      BY <3>1, <3>2
  <2>7. c.votes[w] = b.votes[w] + IF up[r] \in V THEN Sums(r) ELSE 0
    BY <1>1, <1>4, <1>15, <2>1
  <2>8. c.votes[w] = b.votes[w] + SumFunctionOnSet(G, V)
    BY <2>6, <2>7
  <2> QED
    BY <1>4, <1>5, <1>10, <1>11, <2>3, <2>8
<1> QED
  BY <1>13, <1>14, <1>15 DEF c

-----------------------------------------------------------------------------
(* Vote records                                                            *)

(* The records of an account.                                              *)
RecordsOf(R, a) == {r \in R : r[1] = a}

(* A record more.                                                          *)
LEMMA RecordAdded ==
  ASSUME NEW R, IsFiniteSet(R), NEW a, NEW z, <<a, z>> \notin R, NEW x
  PROVE  /\ Cardinality(RecordsOf(R, x)) \in Nat
         /\ Cardinality(RecordsOf(R \cup {<<a, z>>}, x))
              = Cardinality(RecordsOf(R, x)) + IF x = a THEN 1 ELSE 0
<1> DEFINE A == RecordsOf(R, x)
           e == <<a, z>>
<1>1. A \subseteq R
  BY DEF RecordsOf
<1>2. IsFiniteSet(A) /\ Cardinality(A) \in Nat
  BY <1>1, FS_Subset, FS_CardinalityType
<1>3. CASE x = a
  <2>1. RecordsOf(R \cup {e}, x) = A \cup {e} /\ e \notin A
    BY <1>3 DEF RecordsOf
  <2> HIDE DEF A, e
  <2>2. Cardinality(A \cup {e}) = Cardinality(A) + 1
    BY <1>2, <2>1, FS_AddElement
  <2> QED
    BY <1>2, <1>3, <2>1, <2>2 DEF A, e
<1>4. CASE x # a
  <2>1. RecordsOf(R \cup {e}, x) = A
    BY <1>4 DEF RecordsOf
  <2> QED
    BY <1>2, <1>4, <2>1
<1> QED
  BY <1>3, <1>4

(* A record less.                                                          *)
LEMMA RecordRemoved ==
  ASSUME NEW R, IsFiniteSet(R), NEW a, NEW z, <<a, z>> \in R, NEW x
  PROVE  /\ Cardinality(RecordsOf(R, x)) \in Nat
         /\ Cardinality(RecordsOf(R \ {<<a, z>>}, x))
              = Cardinality(RecordsOf(R, x)) - IF x = a THEN 1 ELSE 0
         /\ x = a => Cardinality(RecordsOf(R, x)) >= 1
<1> DEFINE T == R \ {<<a, z>>}
<1>1. IsFiniteSet(T) /\ <<a, z>> \notin T /\ T \cup {<<a, z>>} = R
  BY FS_Subset
<1> HIDE DEF T
<1>2. /\ Cardinality(RecordsOf(T, x)) \in Nat
      /\ Cardinality(RecordsOf(T \cup {<<a, z>>}, x))
           = Cardinality(RecordsOf(T, x)) + IF x = a THEN 1 ELSE 0
  BY <1>1, RecordAdded
<1>3. Cardinality(RecordsOf(T \cup {<<a, z>>}, x)) = Cardinality(RecordsOf(R, x))
  BY <1>1, Zenon
<1> QED
  BY <1>2, <1>3 DEF T

(* The records of all but a.                                               *)
Without(R, a) == {r \in R : r[1] # a}

(* Clearing the records of a leaves those of the others.                   *)
LEMMA RecordsCleared ==
  ASSUME NEW R, NEW a, NEW Q, Q = Without(R, a), NEW x
  PROVE  /\ x = a => Cardinality(RecordsOf(Q, x)) = 0
         /\ x # a => Cardinality(RecordsOf(Q, x)) = Cardinality(RecordsOf(R, x))
<1>1. ASSUME x = a PROVE Cardinality(RecordsOf(Q, x)) = 0
  <2>1. RecordsOf(Q, x) = {}
    BY <1>1 DEF RecordsOf, Without
  <2> QED
    BY <2>1, FS_EmptySet
<1>2. ASSUME x # a PROVE Cardinality(RecordsOf(Q, x)) = Cardinality(RecordsOf(R, x))
  <2>1. RecordsOf(Q, x) = RecordsOf(R, x)
    BY <1>2 DEF RecordsOf, Without
  <2> QED
    BY <2>1
<1> QED
  BY <1>1, <1>2

(* The counters of the accounts.                                           *)
Counted(v) ==
  \A a \in Accounts :
    /\ v.witnesses_voted_for[a] = Cardinality(RecordsOf(v.witness_vote, a))
    /\ v.streaming_platforms_voted_for[a] = Cardinality(RecordsOf(v.platform_vote, a))

BallotsOK(v) == v \in Ballots /\ NoLoop(v.proxy) /\ VotersAtTop(v) /\ Counted(v)

(* There are finitely many records.                                        *)
LEMMA FiniteRecords ==
  ASSUME NEW v \in Ballots
  PROVE  IsFiniteSet(v.witness_vote) /\ IsFiniteSet(v.platform_vote)
<1>1. IsFiniteSet(Accounts \X Witnesses) /\ IsFiniteSet(Accounts \X Platforms)
  BY VotingAssumption, FS_Product
<1> QED
  BY <1>1, FS_Subset DEF Ballots

(* An account without proxy votes for a witness, or takes the vote back.   *)
LEMMA WitnessBallot ==
  ASSUME NEW v, BallotsOK(v), NEW a \in Accounts, NEW w \in Witnesses, v.proxy[a] = Self
  PROVE  /\ <<a, w>> \notin v.witness_vote /\ v.witnesses_voted_for[a] < MaxVotes =>
              BallotsOK([v EXCEPT !.witness_vote = @ \cup {<<a, w>>},
                                  !.witnesses_voted_for[a] = @ + 1])
         /\ <<a, w>> \in v.witness_vote =>
              BallotsOK([v EXCEPT !.witness_vote = @ \ {<<a, w>>},
                                  !.witnesses_voted_for[a] = @ - 1])
<1> DEFINE R == v.witness_vote
           n == v.witnesses_voted_for
<1>0. /\ v \in Ballots /\ IsFiniteSet(R) /\ MaxVotes \in Nat
      /\ n \in [Accounts -> 0 .. MaxVotes] /\ R \subseteq Accounts \X Witnesses
      /\ \A x \in Accounts : n[x] = Cardinality(RecordsOf(R, x))
  BY FiniteRecords, VotingAssumption DEF BallotsOK, Ballots, Counted
<1>1. ASSUME <<a, w>> \notin R, n[a] < MaxVotes
      PROVE  BallotsOK([v EXCEPT !.witness_vote = @ \cup {<<a, w>>},
                                 !.witnesses_voted_for[a] = @ + 1])
  <2> DEFINE R1 == R \cup {<<a, w>>}
             n1 == [n EXCEPT ![a] = @ + 1]
             u == [v EXCEPT !.witness_vote = R1, !.witnesses_voted_for = n1]
  <2>1. n1 \in [Accounts -> 0 .. MaxVotes]
    BY <1>0, <1>1
  <2>2. R1 \in SUBSET (Accounts \X Witnesses)
    BY <1>0
  <2>3. \A x \in Accounts : n1[x] = Cardinality(RecordsOf(R1, x))
    <3> TAKE x \in Accounts
    <3>1. Cardinality(RecordsOf(R1, x))
            = Cardinality(RecordsOf(R, x)) + IF x = a THEN 1 ELSE 0
      BY <1>0, <1>1, RecordAdded
    <3>2. n[x] \in Int /\ n1[x] = IF x = a THEN n[x] + 1 ELSE n[x]
      BY <1>0
    <3> QED
      BY <1>0, <3>1, <3>2
  <2>4. \A x \in Accounts, z \in Witnesses : <<x, z>> \in R1 => v.proxy[x] = Self
    BY DEF BallotsOK, VotersAtTop
  <2> HIDE DEF R1, n1
  <2>5. /\ u \in Ballots /\ u.proxy = v.proxy /\ u.platform_vote = v.platform_vote
        /\ u.streaming_platforms_voted_for = v.streaming_platforms_voted_for
        /\ u.witness_vote = R1 /\ u.witnesses_voted_for = n1
    BY <1>0, <2>1, <2>2 DEF Ballots
  <2>6. BallotsOK(u)
    <3> HIDE DEF u
    <3> QED
      BY <2>3, <2>4, <2>5 DEF BallotsOK, Counted, VotersAtTop
  <2> QED
    BY <1>0, <2>6 DEF R1, n1, Ballots
<1>2. ASSUME <<a, w>> \in R
      PROVE  BallotsOK([v EXCEPT !.witness_vote = @ \ {<<a, w>>},
                                 !.witnesses_voted_for[a] = @ - 1])
  <2> DEFINE R1 == R \ {<<a, w>>}
             n1 == [n EXCEPT ![a] = @ - 1]
             u == [v EXCEPT !.witness_vote = R1, !.witnesses_voted_for = n1]
  <2>0. n[a] >= 1
    BY <1>0, <1>2, RecordRemoved
  <2>1. n1 \in [Accounts -> 0 .. MaxVotes]
    BY <1>0, <2>0
  <2>2. R1 \in SUBSET (Accounts \X Witnesses)
    BY <1>0
  <2>3. \A x \in Accounts : n1[x] = Cardinality(RecordsOf(R1, x))
    <3> TAKE x \in Accounts
    <3>1. Cardinality(RecordsOf(R1, x))
            = Cardinality(RecordsOf(R, x)) - IF x = a THEN 1 ELSE 0
      BY <1>0, <1>2, RecordRemoved
    <3>2. n[x] \in Int /\ n1[x] = IF x = a THEN n[x] - 1 ELSE n[x]
      BY <1>0
    <3> QED
      BY <1>0, <3>1, <3>2
  <2>4. \A x \in Accounts, z \in Witnesses : <<x, z>> \in R1 => v.proxy[x] = Self
    BY DEF BallotsOK, VotersAtTop
  <2> HIDE DEF R1, n1
  <2>5. /\ u \in Ballots /\ u.proxy = v.proxy /\ u.platform_vote = v.platform_vote
        /\ u.streaming_platforms_voted_for = v.streaming_platforms_voted_for
        /\ u.witness_vote = R1 /\ u.witnesses_voted_for = n1
    BY <1>0, <2>1, <2>2 DEF Ballots
  <2>6. BallotsOK(u)
    <3> HIDE DEF u
    <3> QED
      BY <2>3, <2>4, <2>5 DEF BallotsOK, Counted, VotersAtTop
  <2> QED
    BY <1>0, <2>6 DEF R1, n1, Ballots
<1> QED
  BY <1>1, <1>2

(* The same for a platform.                                                *)
LEMMA PlatformBallot ==
  ASSUME NEW v, BallotsOK(v), NEW a \in Accounts, NEW p \in Platforms
  PROVE  /\ <<a, p>> \notin v.platform_vote /\ v.streaming_platforms_voted_for[a] < MaxVotes =>
              BallotsOK([v EXCEPT !.platform_vote = @ \cup {<<a, p>>},
                                  !.streaming_platforms_voted_for[a] = @ + 1])
         /\ <<a, p>> \in v.platform_vote =>
              BallotsOK([v EXCEPT !.platform_vote = @ \ {<<a, p>>},
                                  !.streaming_platforms_voted_for[a] = @ - 1])
<1> DEFINE R == v.platform_vote
           n == v.streaming_platforms_voted_for
<1>0. /\ v \in Ballots /\ IsFiniteSet(R) /\ MaxVotes \in Nat
      /\ n \in [Accounts -> 0 .. MaxVotes] /\ R \subseteq Accounts \X Platforms
      /\ \A x \in Accounts : n[x] = Cardinality(RecordsOf(R, x))
  BY FiniteRecords, VotingAssumption DEF BallotsOK, Ballots, Counted
<1>1. ASSUME <<a, p>> \notin R, n[a] < MaxVotes
      PROVE  BallotsOK([v EXCEPT !.platform_vote = @ \cup {<<a, p>>},
                                 !.streaming_platforms_voted_for[a] = @ + 1])
  <2> DEFINE R1 == R \cup {<<a, p>>}
             n1 == [n EXCEPT ![a] = @ + 1]
             u == [v EXCEPT !.platform_vote = R1, !.streaming_platforms_voted_for = n1]
  <2>1. n1 \in [Accounts -> 0 .. MaxVotes]
    BY <1>0, <1>1
  <2>2. R1 \in SUBSET (Accounts \X Platforms)
    BY <1>0
  <2>3. \A x \in Accounts : n1[x] = Cardinality(RecordsOf(R1, x))
    <3> TAKE x \in Accounts
    <3>1. Cardinality(RecordsOf(R1, x))
            = Cardinality(RecordsOf(R, x)) + IF x = a THEN 1 ELSE 0
      BY <1>0, <1>1, RecordAdded
    <3>2. n[x] \in Int /\ n1[x] = IF x = a THEN n[x] + 1 ELSE n[x]
      BY <1>0
    <3> QED
      BY <1>0, <3>1, <3>2
  <2> HIDE DEF R1, n1
  <2>5. /\ u \in Ballots /\ u.proxy = v.proxy /\ u.witness_vote = v.witness_vote
        /\ u.witnesses_voted_for = v.witnesses_voted_for
        /\ u.platform_vote = R1 /\ u.streaming_platforms_voted_for = n1
    BY <1>0, <2>1, <2>2 DEF Ballots
  <2>6. BallotsOK(u)
    <3> HIDE DEF u
    <3> QED
      BY <2>3, <2>5 DEF BallotsOK, Counted, VotersAtTop
  <2> QED
    BY <1>0, <2>6 DEF R1, n1, Ballots
<1>2. ASSUME <<a, p>> \in R
      PROVE  BallotsOK([v EXCEPT !.platform_vote = @ \ {<<a, p>>},
                                 !.streaming_platforms_voted_for[a] = @ - 1])
  <2> DEFINE R1 == R \ {<<a, p>>}
             n1 == [n EXCEPT ![a] = @ - 1]
             u == [v EXCEPT !.platform_vote = R1, !.streaming_platforms_voted_for = n1]
  <2>0. n[a] >= 1
    BY <1>0, <1>2, RecordRemoved
  <2>1. n1 \in [Accounts -> 0 .. MaxVotes]
    BY <1>0, <2>0
  <2>2. R1 \in SUBSET (Accounts \X Platforms)
    BY <1>0
  <2>3. \A x \in Accounts : n1[x] = Cardinality(RecordsOf(R1, x))
    <3> TAKE x \in Accounts
    <3>1. Cardinality(RecordsOf(R1, x))
            = Cardinality(RecordsOf(R, x)) - IF x = a THEN 1 ELSE 0
      BY <1>0, <1>2, RecordRemoved
    <3>2. n[x] \in Int /\ n1[x] = IF x = a THEN n[x] - 1 ELSE n[x]
      BY <1>0
    <3> QED
      BY <1>0, <3>1, <3>2
  <2> HIDE DEF R1, n1
  <2>5. /\ u \in Ballots /\ u.proxy = v.proxy /\ u.witness_vote = v.witness_vote
        /\ u.witnesses_voted_for = v.witnesses_voted_for
        /\ u.platform_vote = R1 /\ u.streaming_platforms_voted_for = n1
    BY <1>0, <2>1, <2>2 DEF Ballots
  <2>6. BallotsOK(u)
    <3> HIDE DEF u
    <3> QED
      BY <2>3, <2>5 DEF BallotsOK, Counted, VotersAtTop
  <2> QED
    BY <1>0, <2>6 DEF R1, n1, Ballots
<1> QED
  BY <1>1, <1>2
-----------------------------------------------------------------------------
(* Changes of the shares of an account                                     *)

(* The difference that n new shares make.                                  *)
OwnShares(n) == [i \in 0 .. MaxDepth |-> IF i = 0 THEN n ELSE 0]

(* New shares are counted once on every level above their owner, at the    *)
(* proxy that many hops up.                                                *)
LEMMA GainOfShares ==
  ASSUME NEW n \in Int, NEW p \in Proxies, NEW a \in Accounts
  PROVE  /\ Deltas(OwnShares(n)) /\ SumFunctionOnSet(OwnShares(n), 0 .. MaxDepth) = n
         /\ \A x \in Accounts, j \in Levels :
              Gain(p, a, OwnShares(n), x, j) = IF Ancestor(p, a)[j + 1] = x THEN n ELSE 0
<1> DEFINE delta == OwnShares(n)
           I == 0 .. MaxDepth
<1>0. MaxDepth \in Nat \ {0}
  BY VotingAssumption
<1>1. /\ \A i \in I : delta[i] \in Int
      /\ delta[0] = n /\ \A i \in I \ {0} : delta[i] = 0
  BY <1>0 DEF OwnShares
<1>2. 0 \in I /\ IsFiniteSet(I)
  BY <1>0, FS_Interval
<1> HIDE DEF delta
<1>3. Numeric(delta, I) /\ SumFunctionOnSet(delta, {0}) = n
  BY <1>1, <1>2, SumSingle DEF Numeric
<1>4. SumFunctionOnSet(delta, I) = n
  <2> HIDE DEF I
  <2>1. {0} \subseteq I
    BY <1>2
  <2>2. SumFunctionOnSet(delta, I) = SumFunctionOnSet(delta, {0})
    BY <1>1, <1>3, <2>1, SumSupport
  <2> QED
    BY <1>3, <2>2
<1>5. ASSUME NEW x \in Accounts, NEW j \in Levels
      PROVE  Gain(p, a, delta, x, j) = IF Ancestor(p, a)[j + 1] = x THEN n ELSE 0
  <2> DEFINE D == Hops(p, a, x, j)
             h == [d \in D |-> delta[j - d]]
  <2>1. j \in 0 .. j /\ \A d \in 0 .. j : j - d \in I /\ (d # j => j - d \in I \ {0})
    BY <1>0 DEF Levels
  <2>2. D \subseteq 0 .. j /\ (j \in D <=> Ancestor(p, a)[j + 1] = x)
    BY <2>1 DEF Hops
  <2>3. IsFiniteSet(0 .. j)
    BY <1>0, FS_Interval DEF Levels
  <2>4. \A d \in D : h[d] \in Int /\ (d # j => h[d] = 0) /\ (d = j => h[d] = n)
    <3>1. j - j = 0
      BY <1>0 DEF Levels
    <3> QED
      BY <1>1, <2>1, <2>2, <3>1
  <2>5. Gain(p, a, delta, x, j) = SumFunctionOnSet(h, D)
    BY DEF Gain, SumFunction
  <2>6. Numeric(h, D)
    BY <2>2, <2>3, <2>4, FS_Subset DEF Numeric
  <2> HIDE DEF D, h
  <2>7. CASE j \in D
    <3>1. {j} \subseteq D /\ h[j] = n /\ \A d \in D \ {j} : h[d] = 0
      BY <2>4, <2>7
    <3>2. SumFunctionOnSet(h, D) = SumFunctionOnSet(h, {j})
      BY <2>6, <3>1, SumSupport
    <3>3. SumFunctionOnSet(h, {j}) = n
      BY <3>1, SumSingle
    <3> QED
      BY <2>2, <2>5, <2>7, <3>2, <3>3
  <2>8. CASE j \notin D
    <3>1. \A d \in D : h[d] = 0
      BY <2>4, <2>8
    <3>2. SumFunctionOnSet(h, D) = 0
      BY <2>6, <3>1, SumZero DEF Numeric
    <3> QED
      BY <2>2, <2>5, <2>8, <3>2
  <2> QED
    BY <2>7, <2>8
<1> QED
  BY <1>1, <1>4, <1>5 DEF Deltas, delta, I

(* The level counters are exact, and so are the votes of the witnesses.    *)
Exact(b, p) ==
  \A x \in Accounts, j \in Levels : b.proxied[x][j] = Below(b.vesting, p, x, j + 1)

Balanced(b, v) == \A w \in Witnesses : b.votes[w] = Tally(b, v, w)

Sound(b, v) == IsBook(b) /\ BallotsOK(v) /\ Exact(b, v.proxy) /\ Balanced(b, v)

(* What holds of the parts of a sound state.                               *)
LEMMA SoundParts ==
  ASSUME NEW b, NEW v, Sound(b, v)
  PROVE  /\ v.proxy \in Proxies /\ NoLoop(v.proxy) /\ VotersAtTop(v)
         /\ Holdings(b.vesting) /\ b.vesting \in [Accounts -> Int]
         /\ \A w \in Witnesses : b.votes[w] = Tally(b, v, w)
BY VotingAssumption DEF Sound, BallotsOK, Ballots, Proxies, Holdings, Numeric, IsBook, Balanced

(* b has n shares more for a than the sound book, and nothing else has     *)
(* followed them yet.                                                      *)
MoreShares(b, c, a, n) ==
  /\ IsBook(c) /\ c.vesting = [b.vesting EXCEPT ![a] = @ + n]
  /\ c.proxied = b.proxied /\ c.votes = b.votes

(* Telling the proxies restores the books.                                 *)
LEMMA SharesFollowed ==
  ASSUME NEW b, NEW v, Sound(b, v), NEW a \in Accounts, NEW n \in Int,
         NEW c, MoreShares(b, c, a, n)
  PROVE  LET e == adjust_proxied_by_shares(c, v, a, n)
         IN  /\ Sound(e, v) /\ e.vesting = c.vesting /\ e.total = c.total
<1> DEFINE p == v.proxy
           delta == OwnShares(n)
           e == adjust_proxied_witness_votes(c, v, a, delta)
<1>0. MaxDepth \in Nat \ {0} /\ IsFiniteSet(Accounts)
  BY VotingAssumption
<1>1. adjust_proxied_by_shares(c, v, a, n) = e
  BY DEF adjust_proxied_by_shares, OwnShares
<1>2. /\ p \in Proxies /\ NoLoop(p) /\ VotersAtTop(v) /\ BallotsOK(v)
      /\ Holdings(b.vesting) /\ b.vesting \in [Accounts -> Int] /\ IsBook(b)
      /\ \A w \in Witnesses : b.votes[w] = Tally(b, v, w)
      /\ \A x \in Accounts, j \in Levels : b.proxied[x][j] = Below(b.vesting, p, x, j + 1)
  BY SoundParts DEF Sound, Exact
<1>3. /\ IsBook(c) /\ c.proxied = b.proxied /\ c.votes = b.votes
      /\ c.vesting[a] = b.vesting[a] + n
      /\ \A y \in Accounts \ {a} : c.vesting[y] = b.vesting[y]
      /\ c.vesting \in [Accounts -> Int]
  BY <1>2 DEF MoreShares
<1>4. Holdings(c.vesting)
  BY <1>0, <1>3 DEF Holdings, Numeric
<1>5. /\ Deltas(delta) /\ SumFunctionOnSet(delta, 0 .. MaxDepth) = n
      /\ \A x \in Accounts, j \in Levels :
           Gain(p, a, delta, x, j) = IF Ancestor(p, a)[j + 1] = x THEN n ELSE 0
  BY <1>2, GainOfShares
<1> HIDE DEF delta
<1>6. /\ IsBook(e) /\ e.vesting = c.vesting /\ e.total = c.total
      /\ \A x \in Accounts, j \in Levels :
           e.proxied[x][j] = c.proxied[x][j] + Gain(p, a, delta, x, j)
  BY <1>2, <1>3, <1>5, Adjusted
<1>7. ASSUME NEW w \in Witnesses
      PROVE  e.votes[w] - Tally(e, v, w)
               = c.votes[w] - Tally(c, v, w) + IF <<a, w>> \in v.witness_vote THEN n ELSE 0
  <2>1. e.votes[w] - Tally(e, v, w)
          = c.votes[w] - Tally(c, v, w) + IF <<a, w>> \in v.witness_vote
                     THEN SumFunctionOnSet(delta, 0 .. MaxDepth) ELSE 0
    BY <1>2, <1>3, <1>5, TallyAdjusted
  <2> QED
    BY <1>5, <2>1
<1> HIDE DEF e
<1>8. Exact(e, p)
  <2> SUFFICES ASSUME NEW x \in Accounts, NEW j \in Levels
               PROVE  e.proxied[x][j] = Below(e.vesting, p, x, j + 1)
    BY DEF Exact
  <2> DEFINE d == j + 1
  <2>1. d \in 0 .. MaxDepth
    BY <1>0 DEF Levels
  <2>2. e.proxied[x][j] = Below(b.vesting, p, x, d) + IF Ancestor(p, a)[d] = x THEN n ELSE 0
    BY <1>2, <1>3, <1>5, <1>6
  <2> HIDE DEF d
  <2>3. Below(c.vesting, p, x, d)
          = Below(b.vesting, p, x, d) + IF Ancestor(p, a)[d] = x THEN n ELSE 0
    BY <1>2, <1>3, <1>4, <2>1, BelowChange
  <2> QED
    BY <1>6, <2>2, <2>3 DEF d
<1>9. ASSUME NEW w \in Witnesses
      PROVE  Tally(c, v, w) = Tally(b, v, w) + IF <<a, w>> \in v.witness_vote THEN n ELSE 0
  <2> DEFINE V == VotersFor(v, w)
             f == Weights(b)
             g == Weights(c)
  <2>1. V \subseteq Accounts /\ (a \in V <=> <<a, w>> \in v.witness_vote)
    BY DEF VotersFor
  <2>2. /\ Holdings(f) /\ Holdings(g)
        /\ \A x \in Accounts :
             /\ Numeric(b.proxied[x], Levels)
             /\ f[x] = b.vesting[x] + SumFunctionOnSet(b.proxied[x], Levels)
             /\ g[x] = c.vesting[x] + SumFunctionOnSet(b.proxied[x], Levels)
    BY <1>2, <1>3, WeightInt
  <2>3. \A x \in Accounts : SumFunctionOnSet(b.proxied[x], Levels) \in Int
    BY <2>2, SumInt
  <2>4. /\ g[a] - f[a] = n /\ \A x \in Accounts \ {a} : g[x] = f[x]
        /\ g[a] \in Int /\ f[a] \in Int
    BY <1>2, <1>3, <2>2, <2>3 DEF Holdings, Numeric
  <2> HIDE DEF V, f, g
  <2>5. Numeric(f, V) /\ Numeric(g, V) /\ SumFunctionOnSet(f, V) \in Int
    BY <2>1, <2>2, BelowInt
  <2>6. CASE a \in V
    <3>1. SumFunctionOnSet(g, V) = SumFunctionOnSet(f, V) + g[a] - f[a]
      BY <2>1, <2>4, <2>5, <2>6, SumChange
    <3> QED
      BY <2>1, <2>4, <2>5, <2>6, <3>1 DEF Tally, V, f, g
  <2>7. CASE a \notin V
    <3>1. \A x \in V : f[x] = g[x]
      BY <2>1, <2>4, <2>7
    <3>2. SumFunctionOnSet(g, V) = SumFunctionOnSet(f, V)
      BY <2>5, <3>1, SumEqual
    <3> QED
      BY <2>1, <2>5, <2>7, <3>2 DEF Tally, V, f, g
  <2> QED
    BY <2>6, <2>7
<1>10. Balanced(e, v)
  <2> SUFFICES ASSUME NEW w \in Witnesses PROVE e.votes[w] = Tally(e, v, w)
    BY DEF Balanced
  <2>1. Tally(e, v, w) \in Int /\ Tally(c, v, w) \in Int /\ Tally(b, v, w) \in Int
    BY <1>2, <1>3, <1>6, WeightInt
  <2> DEFINE k == IF <<a, w>> \in v.witness_vote THEN n ELSE 0
             x == e.votes[w]
             y == Tally(e, v, w)
             t == Tally(c, v, w)
             z == Tally(b, v, w)
  <2>2. x \in Int /\ c.votes[w] = z
    BY <1>2, <1>3, <1>6 DEF IsBook
  <2>3. x - y = c.votes[w] - t + k /\ t = z + k /\ k \in Int
    BY <1>7, <1>9
  <2> HIDE DEF k, x, y, z, t
  <2>4. x - y = z - t + k
    BY <2>2, <2>3
  <2>5. y \in Int /\ z \in Int
    BY <2>1 DEF y, z
  <2>6. x = y
    BY <2>2, <2>3, <2>4, <2>5
  <2> QED
    BY <2>6 DEF x, y
<1> QED
  BY <1>1, <1>2, <1>6, <1>8, <1>10 DEF Sound
-----------------------------------------------------------------------------
(* Votes of an account                                                     *)

(* One witness of a book gets n votes more.                                *)
LEMMA VoteAdjusted ==
  ASSUME NEW b, IsBook(b), NEW w \in Witnesses, NEW n \in Int
  PROVE  LET c == adjust_witness_vote(b, w, n)
         IN  /\ IsBook(c) /\ SameShares(b, c) /\ c.votes[w] = b.votes[w] + n
             /\ \A z \in Witnesses \ {w} : c.votes[z] = b.votes[z]
<1> DEFINE votes == [b.votes EXCEPT ![w] = @ + n]
           ok == b.ok /\ b.votes[w] + n <= b.total
           c == adjust_witness_vote(b, w, n)
<1>1. c = [b EXCEPT !.votes = votes, !.ok = ok]
  BY DEF adjust_witness_vote, IsBook
<1>2. /\ votes \in [Witnesses -> Int] /\ votes[w] = b.votes[w] + n
      /\ \A z \in Witnesses \ {w} : votes[z] = b.votes[z]
  BY DEF IsBook
<1>3. ok \in BOOLEAN
  OBVIOUS
<1> HIDE DEF votes, ok, c
<1>4. c = [vesting |-> b.vesting, total |-> b.total, proxied |-> b.proxied,
           votes |-> votes, sp_votes |-> b.sp_votes, ok |-> ok]
  BY <1>1 DEF IsBook
<1>5. IsBook(c) /\ SameShares(b, c) /\ c.votes = votes
  BY <1>2, <1>3, <1>4 DEF IsBook, SameShares
<1> QED
  BY <1>2, <1>5 DEF c

(* One platform of a book does.                                            *)
LEMMA PlatformVoteAdjusted ==
  ASSUME NEW b, IsBook(b), NEW p \in Platforms, NEW n \in Int
  PROVE  LET c == adjust_streaming_platform_vote(b, p, n)
         IN  IsBook(c) /\ SameShares(b, c) /\ c.votes = b.votes
<1> DEFINE votes == [b.sp_votes EXCEPT ![p] = @ + n]
           ok == b.ok /\ b.sp_votes[p] + n <= b.total
           c == adjust_streaming_platform_vote(b, p, n)
<1>1. c = [b EXCEPT !.sp_votes = votes, !.ok = ok]
  BY DEF adjust_streaming_platform_vote, IsBook
<1>2. votes \in [Platforms -> Int]
  BY DEF IsBook
<1>3. ok \in BOOLEAN
  OBVIOUS
<1> HIDE DEF votes, ok, c
<1>4. c = [vesting |-> b.vesting, total |-> b.total, proxied |-> b.proxied,
           votes |-> b.votes, sp_votes |-> votes, ok |-> ok]
  BY <1>1 DEF IsBook
<1>5. IsBook(c) /\ SameShares(b, c) /\ c.votes = b.votes
  BY <1>2, <1>3, <1>4 DEF IsBook, SameShares
<1> QED
  BY <1>5 DEF c

(* Weights and level counters depend on the shares only.                   *)
LEMMA SameSharesSame ==
  ASSUME NEW b, NEW c, SameShares(b, c), NEW p
  PROVE  /\ Weights(c) = Weights(b)
         /\ Exact(b, p) => Exact(c, p)
BY DEF SameShares, Weights, witness_vote_weight, Exact

(* The weight of an account, as a vote uses it.                            *)
LEMMA WeightOf ==
  ASSUME NEW b, IsBook(b), NEW a \in Accounts
  PROVE  /\ witness_vote_weight(b, a) = Weights(b)[a] /\ Weights(b)[a] \in Int
         /\ witness_vote_weight(b, a) \in Int
<1>1. Weights(b)[a] \in Int
  BY WeightInt DEF Holdings, Numeric
<1> QED
  BY <1>1 DEF Weights

(* A vote more, or less, is counted with the weight of the voter.          *)
LEMMA VoteCounted ==
  ASSUME NEW b, NEW v, Sound(b, v), NEW a \in Accounts, NEW w \in Witnesses,
         v.proxy[a] = Self
  PROVE  /\ <<a, w>> \notin v.witness_vote /\ v.witnesses_voted_for[a] < MaxVotes =>
              Sound(adjust_witness_vote(b, w, witness_vote_weight(b, a)),
                    [v EXCEPT !.witness_vote = @ \cup {<<a, w>>},
                              !.witnesses_voted_for[a] = @ + 1])
         /\ <<a, w>> \in v.witness_vote =>
              Sound(adjust_witness_vote(b, w, - witness_vote_weight(b, a)),
                    [v EXCEPT !.witness_vote = @ \ {<<a, w>>},
                              !.witnesses_voted_for[a] = @ - 1])
<1> DEFINE f == Weights(b)
           V(z) == VotersFor(v, z)
<1>1. /\ IsBook(b) /\ BallotsOK(v) /\ v \in Ballots
      /\ Exact(b, v.proxy) /\ \A z \in Witnesses : b.votes[z] = Tally(b, v, z)
  BY DEF Sound, Balanced, BallotsOK
<1>2. /\ witness_vote_weight(b, a) = f[a] /\ f[a] \in Int /\ - f[a] \in Int
      /\ Holdings(f)
  BY <1>1, WeightOf, WeightInt
<1>3. \A z : V(z) \subseteq Accounts /\ (a \in V(z) <=> <<a, z>> \in v.witness_vote)
  BY DEF VotersFor
<1>4. ASSUME <<a, w>> \notin v.witness_vote, v.witnesses_voted_for[a] < MaxVotes
      PROVE  Sound(adjust_witness_vote(b, w, f[a]),
                   [v EXCEPT !.witness_vote = @ \cup {<<a, w>>},
                             !.witnesses_voted_for[a] = @ + 1])
  <2> DEFINE c == adjust_witness_vote(b, w, f[a])
             u == [v EXCEPT !.witness_vote = @ \cup {<<a, w>>},
                            !.witnesses_voted_for[a] = @ + 1]
  <2>1. BallotsOK(u)
    BY <1>1, <1>4, WitnessBallot
  <2>2. u.proxy = v.proxy /\ u.witness_vote = v.witness_vote \cup {<<a, w>>}
    BY <1>1 DEF Ballots
  <2> HIDE DEF f
  <2>3. /\ IsBook(c) /\ SameShares(b, c) /\ c.votes[w] = b.votes[w] + f[a]
        /\ \A z \in Witnesses \ {w} : c.votes[z] = b.votes[z]
    BY <1>1, <1>2, VoteAdjusted
  <2> HIDE DEF c, u
  <2>4. Weights(c) = f /\ Exact(c, u.proxy)
    BY <1>1, <2>2, <2>3, SameSharesSame DEF f
  <2>5. VotersFor(u, w) = V(w) \cup {a} /\ \A z \in Witnesses \ {w} : VotersFor(u, z) = V(z)
    BY <2>2 DEF VotersFor
  <2>6. Tally(c, u, w) = Tally(b, v, w) + f[a]
    <3> DEFINE X == V(w)
               Y == X \cup {a}
    <3>1. Y \subseteq Accounts /\ a \in Y /\ Y \ {a} = X
      BY <1>3, <1>4
    <3>2. Tally(c, u, w) = SumFunctionOnSet(f, Y) /\ Tally(b, v, w) = SumFunctionOnSet(f, X)
      BY <2>4, <2>5, Zenon DEF Tally, f
    <3>3. X \subseteq Accounts
      BY <1>3
    <3> HIDE DEF X, Y
    <3>4. Numeric(f, Y) /\ SumFunctionOnSet(f, X) \in Int
      BY <1>2, <3>1, <3>3, BelowInt
    <3>5. SumFunctionOnSet(f, Y) = f[a] + SumFunctionOnSet(f, X)
      BY <3>1, <3>4, SumRemove
    <3> QED
      BY <1>2, <3>2, <3>4, <3>5
  <2>7. Balanced(c, u)
    <3>1. \A z \in Witnesses \ {w} : Tally(c, u, z) = Tally(b, v, z)
      BY <2>4, <2>5 DEF Tally, f
    <3> QED
      BY <1>1, <2>3, <2>6, <3>1 DEF Balanced
  <2>8. Sound(c, u)
    BY <2>1, <2>3, <2>4, <2>7 DEF Sound
  <2> QED
    BY <2>8 DEF c, u
<1>5. ASSUME <<a, w>> \in v.witness_vote
      PROVE  Sound(adjust_witness_vote(b, w, - f[a]),
                   [v EXCEPT !.witness_vote = @ \ {<<a, w>>},
                             !.witnesses_voted_for[a] = @ - 1])
  <2> DEFINE c == adjust_witness_vote(b, w, - f[a])
             u == [v EXCEPT !.witness_vote = @ \ {<<a, w>>},
                            !.witnesses_voted_for[a] = @ - 1]
  <2>1. BallotsOK(u)
    BY <1>1, <1>5, WitnessBallot
  <2>2. u.proxy = v.proxy /\ u.witness_vote = v.witness_vote \ {<<a, w>>}
    BY <1>1 DEF Ballots
  <2> HIDE DEF f
  <2>3. /\ IsBook(c) /\ SameShares(b, c) /\ c.votes[w] = b.votes[w] + (- f[a])
        /\ \A z \in Witnesses \ {w} : c.votes[z] = b.votes[z]
    BY <1>1, <1>2, VoteAdjusted
  <2> HIDE DEF c, u
  <2>4. Weights(c) = f /\ Exact(c, u.proxy)
    BY <1>1, <2>2, <2>3, SameSharesSame DEF f
  <2>5. VotersFor(u, w) = V(w) \ {a} /\ \A z \in Witnesses \ {w} : VotersFor(u, z) = V(z)
    BY <2>2 DEF VotersFor
  <2>6. Tally(b, v, w) = Tally(c, u, w) + f[a] /\ Tally(c, u, w) \in Int
    <3> DEFINE Y == V(w)
               X == Y \ {a}
    <3>1. Y \subseteq Accounts /\ a \in Y /\ X \subseteq Accounts
      BY <1>3, <1>5
    <3>2. Tally(c, u, w) = SumFunctionOnSet(f, X) /\ Tally(b, v, w) = SumFunctionOnSet(f, Y)
      BY <2>4, <2>5, Zenon DEF Tally, f
    <3> HIDE DEF Y
    <3>4. Numeric(f, Y) /\ SumFunctionOnSet(f, X) \in Int
      BY <1>2, <3>1, BelowInt
    <3>5. SumFunctionOnSet(f, Y) = f[a] + SumFunctionOnSet(f, X)
      BY <3>1, <3>4, SumRemove
    <3> QED
      BY <1>2, <3>2, <3>4, <3>5
  <2>7. Balanced(c, u)
    <3>1. \A z \in Witnesses \ {w} : Tally(c, u, z) = Tally(b, v, z)
      BY <2>4, <2>5 DEF Tally, f
    <3>2. c.votes[w] = Tally(c, u, w)
      BY <1>1, <1>2, <2>3, <2>6
    <3> QED
      BY <1>1, <2>3, <3>1, <3>2 DEF Balanced
  <2>8. Sound(c, u)
    BY <2>1, <2>3, <2>4, <2>7 DEF Sound
  <2> QED
    BY <2>8 DEF c, u
<1> QED
  BY <1>2, <1>4, <1>5

(* Votes for platforms leave those for witnesses alone.                    *)
LEMMA PlatformVoteSound ==
  ASSUME NEW b, NEW v, Sound(b, v), NEW a \in Accounts, NEW p \in Platforms, NEW n \in Int
  PROVE  /\ <<a, p>> \notin v.platform_vote /\ v.streaming_platforms_voted_for[a] < MaxVotes =>
              Sound(adjust_streaming_platform_vote(b, p, n),
                    [v EXCEPT !.platform_vote = @ \cup {<<a, p>>},
                              !.streaming_platforms_voted_for[a] = @ + 1])
         /\ <<a, p>> \in v.platform_vote =>
              Sound(adjust_streaming_platform_vote(b, p, n),
                    [v EXCEPT !.platform_vote = @ \ {<<a, p>>},
                              !.streaming_platforms_voted_for[a] = @ - 1])
<1> DEFINE c == adjust_streaming_platform_vote(b, p, n)
<1>1. /\ IsBook(b) /\ BallotsOK(v) /\ v \in Ballots
      /\ Exact(b, v.proxy) /\ \A z \in Witnesses : b.votes[z] = Tally(b, v, z)
  BY DEF Sound, Balanced, BallotsOK
<1>2. IsBook(c) /\ SameShares(b, c) /\ c.votes = b.votes
  BY <1>1, PlatformVoteAdjusted
<1> HIDE DEF c
<1>3. Weights(c) = Weights(b) /\ Exact(c, v.proxy)
  BY <1>1, <1>2, SameSharesSame
<1>4. ASSUME NEW u, BallotsOK(u), u.proxy = v.proxy, u.witness_vote = v.witness_vote
      PROVE  Sound(c, u)
  <2>1. \A z \in Witnesses : Tally(c, u, z) = Tally(b, v, z)
    BY <1>3, <1>4 DEF Tally, VotersFor
  <2> QED
    BY <1>1, <1>2, <1>3, <1>4, <2>1 DEF Sound, Balanced
<1>5. ASSUME <<a, p>> \notin v.platform_vote, v.streaming_platforms_voted_for[a] < MaxVotes
      PROVE  Sound(c, [v EXCEPT !.platform_vote = @ \cup {<<a, p>>},
                                !.streaming_platforms_voted_for[a] = @ + 1])
  <2> DEFINE u == [v EXCEPT !.platform_vote = @ \cup {<<a, p>>},
                            !.streaming_platforms_voted_for[a] = @ + 1]
  <2>1. BallotsOK(u)
    BY <1>1, <1>5, PlatformBallot
  <2>2. u.proxy = v.proxy /\ u.witness_vote = v.witness_vote
    BY <1>1 DEF Ballots
  <2> HIDE DEF u
  <2>3. Sound(c, u)
    BY <1>4, <2>1, <2>2
  <2> QED
    BY <2>3 DEF u
<1>6. ASSUME <<a, p>> \in v.platform_vote
      PROVE  Sound(c, [v EXCEPT !.platform_vote = @ \ {<<a, p>>},
                                !.streaming_platforms_voted_for[a] = @ - 1])
  <2> DEFINE u == [v EXCEPT !.platform_vote = @ \ {<<a, p>>},
                            !.streaming_platforms_voted_for[a] = @ - 1]
  <2>1. BallotsOK(u)
    BY <1>1, <1>6, PlatformBallot
  <2>2. u.proxy = v.proxy /\ u.witness_vote = v.witness_vote
    BY <1>1 DEF Ballots
  <2> HIDE DEF u
  <2>3. Sound(c, u)
    BY <1>4, <2>1, <2>2
  <2> QED
    BY <2>3 DEF u
<1> QED
  BY <1>5, <1>6 DEF c
-----------------------------------------------------------------------------
(* Changes of proxy                                                        *)

(* What an account brings is what is below it, level by level, and adds up *)
(* to its weight.                                                          *)
LEMMA BroughtIsBelow ==
  ASSUME NEW b, NEW v, Sound(b, v), NEW a \in Accounts
  PROVE  /\ \A i \in 0 .. MaxDepth : brought(b, a)[i] = Below(b.vesting, v.proxy, a, i)
         /\ Deltas(brought(b, a)) /\ DOMAIN brought(b, a) = 0 .. MaxDepth
         /\ SumFunctionOnSet(brought(b, a), 0 .. MaxDepth) = Weights(b)[a]
<1> DEFINE delta == brought(b, a)
           I == 0 .. MaxDepth
           K == 1 .. MaxDepth
           g == b.proxied[a]
           s == [i \in K |-> i - 1]
           t == [j \in Levels |-> j + 1]
<1>0. MaxDepth \in Nat \ {0} /\ 0 \in I /\ IsFiniteSet(I) /\ I \ {0} = K /\ IsFiniteSet(K)
  BY VotingAssumption, FS_Interval
<1>1. /\ IsBook(b) /\ v.proxy \in Proxies /\ Holdings(b.vesting)
      /\ \A j \in Levels : g[j] = Below(b.vesting, v.proxy, a, j + 1)
  BY SoundParts DEF Sound, Exact
<1>2. /\ Numeric(g, Levels) /\ b.vesting[a] \in Int
      /\ \A j \in Levels : g[j] \in Int
      /\ Weights(b)[a] = b.vesting[a] + SumFunctionOnSet(g, Levels)
  BY <1>1, WeightInt DEF Numeric, IsBook
<1>3. delta[0] = b.vesting[a] /\ \A i \in K : delta[i] = g[i - 1]
  BY <1>0 DEF brought
<1>4. /\ \A i \in K : s[i] \in Levels /\ t[s[i]] = i /\ s[i] + 1 = i
      /\ \A j \in Levels : t[j] \in K /\ s[t[j]] = j
  BY <1>0 DEF Levels
<1>5. \A i \in K : delta[i] = g[s[i]]
  BY <1>3
<1>6. DOMAIN delta = I
  BY DEF brought
<1>7. \A i \in I : delta[i] \in Int
  <2> HIDE DEF delta, g, s, I, K
  <2> QED BY <1>0, <1>2, <1>3, <1>4, <1>5
<1>8. \A i \in I : delta[i] = Below(b.vesting, v.proxy, a, i)
  <2>1. delta[0] = Below(b.vesting, v.proxy, a, 0)
    BY <1>1, <1>3, BelowSelf
  <2> HIDE DEF delta, g, s, K
  <2>2. ASSUME NEW i \in K PROVE delta[i] = Below(b.vesting, v.proxy, a, i)
    <3>1. g[s[i]] = Below(b.vesting, v.proxy, a, s[i] + 1)
      BY <1>1, <1>4
    <3>2. s[i] + 1 = i /\ delta[i] = g[s[i]]
      BY <1>4, <1>5
    <3> QED
      BY <3>1, <3>2, Zenon
  <2> QED
    BY <1>0, <2>1, <2>2
<1>9. SumFunctionOnSet(delta, I) = Weights(b)[a]
  <2> HIDE DEF delta, I, K, g, s, t
  <2>1. Numeric(delta, I)
    BY <1>0, <1>7 DEF Numeric
  <2>2. SumFunctionOnSet(delta, I) = delta[0] + SumFunctionOnSet(delta, I \ {0})
    BY <1>0, <2>1, SumRemove
  <2>3. SumFunctionOnSet(delta, K) = SumFunctionOnSet(g, Levels)
    BY <1>0, <1>2, <1>4, <1>5, SumRename
  <2> QED
    BY <1>0, <1>2, <1>3, <2>2, <2>3
<1> QED
  BY <1>6, <1>7, <1>8, <1>9 DEF Deltas

(* Taking out is putting in with the opposite sign.                        *)
LEMMA GainNegated ==
  ASSUME NEW p \in Proxies, NEW a \in Accounts, NEW delta, Deltas(delta),
         DOMAIN delta = 0 .. MaxDepth
  PROVE  /\ Deltas(negated(delta))
         /\ SumFunctionOnSet(negated(delta), 0 .. MaxDepth)
              = - SumFunctionOnSet(delta, 0 .. MaxDepth)
         /\ \A x \in Accounts, j \in Levels :
              Gain(p, a, negated(delta), x, j) = - Gain(p, a, delta, x, j)
<1> DEFINE neg == negated(delta)
           I == 0 .. MaxDepth
<1>0. MaxDepth \in Nat \ {0} /\ IsFiniteSet(I)
  BY VotingAssumption, FS_Interval
<1>1. \A i \in I : delta[i] \in Int /\ neg[i] = - delta[i]
  BY DEF Deltas, negated
<1>2. Deltas(neg) /\ Numeric(delta, I)
  BY <1>0, <1>1 DEF Deltas, Numeric
<1> HIDE DEF neg
<1>3. SumFunctionOnSet(neg, I) = - SumFunctionOnSet(delta, I)
  <2> HIDE DEF I
  <2> QED BY <1>1, <1>2, SumNegate
<1>4. ASSUME NEW x \in Accounts, NEW j \in Levels
      PROVE  Gain(p, a, neg, x, j) = - Gain(p, a, delta, x, j)
  <2> DEFINE D == Hops(p, a, x, j)
             g == [d \in D |-> neg[j - d]]
             h == [d \in D |-> delta[j - d]]
  <2>1. D \subseteq 0 .. j /\ IsFiniteSet(0 .. j) /\ \A d \in 0 .. j : j - d \in I
    BY <1>0, FS_Interval DEF Hops, Levels
  <2>2. IsFiniteSet(D)
    BY <2>1, FS_Subset
  <2>3. \A d \in D : h[d] \in Int /\ g[d] = - h[d]
    BY <1>1, <2>1
  <2>4. Gain(p, a, neg, x, j) = SumFunctionOnSet(g, D)
        /\ Gain(p, a, delta, x, j) = SumFunctionOnSet(h, D)
    BY DEF Gain, SumFunction
  <2> HIDE DEF D, g, h
  <2>5. Numeric(h, D)
    BY <2>2, <2>3 DEF Numeric
  <2> QED
    BY <2>3, <2>4, <2>5, SumNegate
<1> QED
  BY <1>2, <1>3, <1>4 DEF neg, I

(* Without the votes of a itself, the book from which a is taken out is    *)
(* balanced.                                                               *)
LEMMA TakenOut ==
  ASSUME NEW b, NEW v, Sound(b, v), NEW a \in Accounts
  PROVE  LET delta == brought(b, a)
             taken == adjust_proxied_witness_votes(b, v, a, negated(delta))
         IN  /\ IsBook(taken) /\ taken.vesting = b.vesting /\ taken.total = b.total
             /\ \A x \in Accounts, j \in Levels :
                  taken.proxied[x][j]
                    = Below(b.vesting, v.proxy, x, j + 1) - Gain(v.proxy, a, delta, x, j)
             /\ \A w \in Witnesses :
                  taken.votes[w] = SumFunctionOnSet(Weights(taken), VotersFor(v, w) \ {a})
<1> DEFINE p == v.proxy
           delta == brought(b, a)
           neg == negated(delta)
           taken == adjust_proxied_witness_votes(b, v, a, neg)
           S == SumFunctionOnSet(delta, 0 .. MaxDepth)
<1>0. MaxDepth \in Nat \ {0} /\ Self \notin Accounts /\ 0 \in 0 .. MaxDepth
  BY VotingAssumption
<1>1. /\ IsBook(b) /\ p \in Proxies /\ NoLoop(p) /\ VotersAtTop(v)
      /\ \A w \in Witnesses : b.votes[w] = Tally(b, v, w)
      /\ \A x \in Accounts, j \in Levels : b.proxied[x][j] = Below(b.vesting, p, x, j + 1)
  BY SoundParts DEF Sound, Exact
<1>2. Deltas(delta) /\ DOMAIN delta = 0 .. MaxDepth /\ S = Weights(b)[a]
  BY BroughtIsBelow
<1> HIDE DEF delta
<1>3. /\ Deltas(neg) /\ SumFunctionOnSet(neg, 0 .. MaxDepth) = - S
      /\ \A x \in Accounts, j \in Levels :
           Gain(p, a, neg, x, j) = - Gain(p, a, delta, x, j)
  BY <1>1, <1>2, GainNegated
<1> HIDE DEF neg
<1>4. /\ IsBook(taken) /\ taken.vesting = b.vesting /\ taken.total = b.total
      /\ \A x \in Accounts, j \in Levels :
           taken.proxied[x][j] = b.proxied[x][j] + Gain(p, a, neg, x, j)
  BY <1>1, <1>3, Adjusted
<1>5. ASSUME NEW w \in Witnesses
      PROVE  taken.votes[w] - Tally(taken, v, w)
               = b.votes[w] - Tally(b, v, w)
                   + IF <<a, w>> \in v.witness_vote
                     THEN SumFunctionOnSet(neg, 0 .. MaxDepth) ELSE 0
  BY <1>1, <1>3, TallyAdjusted
<1> HIDE DEF taken
<1>6. ASSUME NEW x \in Accounts, NEW j \in Levels
      PROVE  taken.proxied[x][j] = Below(b.vesting, p, x, j + 1) - Gain(p, a, delta, x, j)
  <2>1. b.proxied[x][j] \in Int /\ Gain(p, a, delta, x, j) \in Int
    BY <1>1, <1>2, GainInt DEF IsBook
  <2>2. taken.proxied[x][j] = b.proxied[x][j] + (- Gain(p, a, delta, x, j))
    BY <1>3, <1>4
  <2>3. taken.proxied[x][j] = b.proxied[x][j] - Gain(p, a, delta, x, j)
    BY <2>1, <2>2
  <2> QED
    BY <1>1, <2>3
<1>7. Weights(taken)[a] = Weights(b)[a] /\ Weights(b)[a] \in Int
  <2>1. ASSUME NEW r \in 1 .. MaxDepth PROVE Ancestor(p, a)[r] # a
    <3>1. 0 < r /\ r \in 0 .. MaxDepth /\ Ancestor(p, a)[0] = a
      BY <1>0, <1>1, AncestorWalks
    <3>2. Ancestor(p, a)[0] = Ancestor(p, a)[r] => Ancestor(p, a)[0] = Self
      BY <1>0, <1>1, <3>1, NoRepeat
    <3> QED
      BY <1>0, <3>1, <3>2
  <2>2. \A j \in Levels : Gain(p, a, neg, a, j) = 0
    BY <1>1, <2>1, GainElsewhere
  <2>3. \A j \in Levels : b.proxied[a][j] = taken.proxied[a][j]
    BY <1>1, <1>4, <2>2 DEF IsBook
  <2>4. /\ Numeric(b.proxied[a], Levels)
        /\ Weights(b)[a] = b.vesting[a] + SumFunctionOnSet(b.proxied[a], Levels)
        /\ Weights(taken)[a] = b.vesting[a] + SumFunctionOnSet(taken.proxied[a], Levels)
    BY <1>1, <1>4, WeightInt
  <2>5. SumFunctionOnSet(taken.proxied[a], Levels) = SumFunctionOnSet(b.proxied[a], Levels)
    BY <2>3, <2>4, SumEqual
  <2> QED
    BY <1>1, <2>4, <2>5, WeightOf
<1>8. ASSUME NEW w \in Witnesses
      PROVE  taken.votes[w] = SumFunctionOnSet(Weights(taken), VotersFor(v, w) \ {a})
  <2> DEFINE V == VotersFor(v, w)
             X == V \ {a}
             f == Weights(taken)
             m == taken.votes[w]
             k == SumFunctionOnSet(f, V)
  <2>1. V \subseteq Accounts /\ X \subseteq Accounts /\ (a \in V <=> <<a, w>> \in v.witness_vote)
    BY DEF VotersFor
  <2>2. Holdings(f) /\ m \in Int
    BY <1>4, WeightInt DEF IsBook
  <2>3. Numeric(f, V) /\ k \in Int /\ SumFunctionOnSet(f, X) \in Int
    <3> HIDE DEF V, X, f
    <3> QED BY <2>1, <2>2, BelowInt
  <2>4. b.votes[w] - Tally(b, v, w) = 0
    BY <1>1, WeightInt
  <2>5. m - k = IF a \in V THEN - f[a] ELSE 0
    BY <1>2, <1>3, <1>5, <1>7, <2>1, <2>4 DEF Tally
  <2>6. f[a] \in Int
    BY <1>7
  <2> HIDE DEF m, k, f, V
  <2>7. CASE a \in V
    <3>1. k = f[a] + SumFunctionOnSet(f, X)
      BY <2>3, <2>7, SumRemove DEF k
    <3>2. m = SumFunctionOnSet(f, X)
      BY <2>2, <2>3, <2>5, <2>6, <2>7, <3>1
    <3> QED
      BY <3>2 DEF m, f, V
  <2>8. CASE a \notin V
    <3>1. X = V
      BY <2>8
    <3>2. m = k
      BY <2>2, <2>3, <2>5, <2>8
    <3> QED
      BY <3>1, <3>2 DEF m, k, f, V
  <2> QED
    BY <2>7, <2>8
<1> QED
  BY <1>4, <1>6, <1>8 DEF taken, neg, delta
(* The ballots of an account that takes a proxy: its votes are gone.       *)
Moved(v, a, p) ==
  [clear_streaming_platform_votes(clear_witness_votes(v, a), a) EXCEPT !.proxy[a] = p]

(* They are in order when the new chain has no loop.                       *)
LEMMA BallotsMoved ==
  ASSUME NEW v, BallotsOK(v), NEW a \in Accounts, NEW p \in Accounts,
         NoLoop([v.proxy EXCEPT ![a] = p])
  PROVE  LET u == Moved(v, a, p)
         IN  /\ BallotsOK(u) /\ u.proxy = [v.proxy EXCEPT ![a] = p]
             /\ \A w \in Witnesses : /\ VotersFor(u, w) = VotersFor(v, w) \ {a}
                                     /\ <<a, w>> \notin u.witness_vote
<1> DEFINE R == {r \in v.witness_vote : r[1] # a}
           Q == {r \in v.platform_vote : r[1] # a}
           n == [v.witnesses_voted_for EXCEPT ![a] = 0]
           m == [v.streaming_platforms_voted_for EXCEPT ![a] = 0]
           q == [v.proxy EXCEPT ![a] = p]
           u == Moved(v, a, p)
<1>0. MaxVotes \in Nat
  BY VotingAssumption
<1>1. /\ v \in Ballots /\ VotersAtTop(v)
      /\ \A x \in Accounts :
           /\ v.witnesses_voted_for[x] = Cardinality(RecordsOf(v.witness_vote, x))
           /\ v.streaming_platforms_voted_for[x] = Cardinality(RecordsOf(v.platform_vote, x))
  BY DEF BallotsOK, Counted
<1>2. u = [proxy |-> q, witness_vote |-> R, platform_vote |-> Q,
           witnesses_voted_for |-> n, streaming_platforms_voted_for |-> m]
  <2> DEFINE v1 == clear_witness_votes(v, a)
             v2 == clear_streaming_platform_votes(v1, a)
  <2>1. v1 = [v EXCEPT !.witness_vote = R, !.witnesses_voted_for[a] = 0]
    BY DEF clear_witness_votes
  <2> HIDE DEF R, v1
  <2>2. v1 = [proxy |-> v.proxy, witness_vote |-> R, platform_vote |-> v.platform_vote,
              witnesses_voted_for |-> n,
              streaming_platforms_voted_for |-> v.streaming_platforms_voted_for]
    BY <1>1, <2>1 DEF Ballots
  <2>3. v1.platform_vote = v.platform_vote
    BY <2>2
  <2>4. v2 = [v1 EXCEPT !.platform_vote = Q, !.streaming_platforms_voted_for[a] = 0]
    BY <2>3, Zenon DEF clear_streaming_platform_votes
  <2> HIDE DEF Q, n, v2
  <2>5. v2 = [proxy |-> v.proxy, witness_vote |-> R, platform_vote |-> Q,
              witnesses_voted_for |-> n, streaming_platforms_voted_for |-> m]
    BY <2>2, <2>4
  <2>6. u = [v2 EXCEPT !.proxy[a] = p]
    BY DEF Moved, v1, v2
  <2> HIDE DEF m, u
  <2> QED
    BY <2>5, <2>6
<1>3. /\ q \in [Accounts -> Accounts \cup {Self}] /\ R \subseteq Accounts \X Witnesses
      /\ Q \subseteq Accounts \X Platforms
      /\ n \in [Accounts -> 0 .. MaxVotes] /\ m \in [Accounts -> 0 .. MaxVotes]
  BY <1>0, <1>1 DEF Ballots
<1>4. \A x \in Accounts : n[x] = Cardinality(RecordsOf(R, x))
                          /\ m[x] = Cardinality(RecordsOf(Q, x))
  <2> TAKE x \in Accounts
  <2>1. n[x] = IF x = a THEN 0 ELSE Cardinality(RecordsOf(v.witness_vote, x))
    BY <1>1 DEF Ballots
  <2>2. m[x] = IF x = a THEN 0 ELSE Cardinality(RecordsOf(v.platform_vote, x))
    BY <1>1 DEF Ballots
  <2>3. R = Without(v.witness_vote, a)
    BY DEF Without
  <2>6. Q = Without(v.platform_vote, a)
    BY DEF Without
  <2> HIDE DEF R, Q, n, m
  <2>4. /\ x = a => Cardinality(RecordsOf(R, x)) = 0
        /\ x # a => Cardinality(RecordsOf(R, x)) = Cardinality(RecordsOf(v.witness_vote, x))
    BY <2>3, RecordsCleared
  <2>5. /\ x = a => Cardinality(RecordsOf(Q, x)) = 0
        /\ x # a => Cardinality(RecordsOf(Q, x)) = Cardinality(RecordsOf(v.platform_vote, x))
    BY <2>6, RecordsCleared
  <2> QED
    BY <2>1, <2>2, <2>4, <2>5
<1>5. \A x \in Accounts, w \in Witnesses :
        (<<x, w>> \in R) <=> (<<x, w>> \in v.witness_vote /\ x # a)
  OBVIOUS
<1>6. \A x \in Accounts \ {a} : q[x] = v.proxy[x]
  BY <1>1 DEF Ballots
<1> HIDE DEF R, Q, n, m, q, u
<1>7. u \in Ballots
  BY <1>2, <1>3 DEF Ballots
<1>8. VotersAtTop(u)
  BY <1>1, <1>2, <1>5, <1>6 DEF VotersAtTop
<1>9. Counted(u)
  BY <1>2, <1>4 DEF Counted
<1>10. NoLoop(u.proxy) /\ u.proxy = q
  BY <1>2 DEF q
<1>11. \A w \in Witnesses : VotersFor(u, w) = VotersFor(v, w) \ {a} /\ <<a, w>> \notin u.witness_vote
  BY <1>2, <1>5 DEF VotersFor
<1> QED
  BY <1>7, <1>8, <1>9, <1>10, <1>11 DEF BallotsOK, q, u

(* The ballots of an account that gives up its proxy.                      *)
LEMMA BallotsCut ==
  ASSUME NEW v, BallotsOK(v), NEW a \in Accounts, v.proxy[a] # Self
  PROVE  LET u == [v EXCEPT !.proxy[a] = Self]
         IN  /\ BallotsOK(u) /\ u.proxy = [v.proxy EXCEPT ![a] = Self]
             /\ \A w \in Witnesses : VotersFor(u, w) = VotersFor(v, w) \ {a}
<1> DEFINE q == [v.proxy EXCEPT ![a] = Self]
           u == [v EXCEPT !.proxy[a] = Self]
<1>1. /\ v \in Ballots /\ VotersAtTop(v) /\ NoLoop(v.proxy) /\ Counted(v)
  BY DEF BallotsOK
<1>2. u = [proxy |-> q, witness_vote |-> v.witness_vote, platform_vote |-> v.platform_vote,
           witnesses_voted_for |-> v.witnesses_voted_for,
           streaming_platforms_voted_for |-> v.streaming_platforms_voted_for]
  BY <1>1 DEF Ballots
<1>3. q \in [Accounts -> Accounts \cup {Self}] /\ \A x \in Accounts \ {a} : q[x] = v.proxy[x]
  BY <1>1 DEF Ballots
<1>4. NoLoop(q)
  BY <1>1, CutClosesNoLoop DEF Ballots, Proxies
<1>5. \A w \in Witnesses : <<a, w>> \notin v.witness_vote
  BY <1>1 DEF VotersAtTop
<1> HIDE DEF q, u
<1>6. u \in Ballots
  BY <1>1, <1>2, <1>3 DEF Ballots
<1>7. VotersAtTop(u)
  BY <1>1, <1>2, <1>3, <1>5 DEF VotersAtTop
<1>8. Counted(u)
  BY <1>1, <1>2 DEF Counted
<1>9. \A w \in Witnesses : VotersFor(u, w) = VotersFor(v, w) \ {a}
  BY <1>2, <1>5 DEF VotersFor
<1> QED
  BY <1>2, <1>4, <1>6, <1>7, <1>8, <1>9 DEF BallotsOK, q, u

(* An account changes its proxy, or takes one: what it brings moves along. *)
LEMMA ProxyTaken ==
  ASSUME NEW b, NEW v, Sound(b, v), NEW a \in Accounts, NEW p \in Accounts, p # a,
         proxy_chain_ok(v, a, p)
  PROVE  LET delta == brought(b, a)
             taken == adjust_proxied_witness_votes(b, v, a, negated(delta))
             u == Moved(v, a, p)
             c == adjust_proxied_witness_votes(taken, u, a, delta)
         IN  Sound(c, u) /\ c.vesting = b.vesting /\ c.total = b.total
<1> DEFINE old == v.proxy
           new == [v.proxy EXCEPT ![a] = p]
           delta == brought(b, a)
           taken == adjust_proxied_witness_votes(b, v, a, negated(delta))
           u == Moved(v, a, p)
           c == adjust_proxied_witness_votes(taken, u, a, delta)
<1>1. /\ old \in Proxies /\ NoLoop(old) /\ BallotsOK(v) /\ Holdings(b.vesting)
  BY SoundParts DEF Sound
<1>2. NoLoop(new) /\ new \in Proxies /\ DifferAt(old, new, a)
  BY <1>1, LinkClosesNoLoop DEF Proxies, DifferAt
<1>3. /\ BallotsOK(u) /\ u.proxy = new
      /\ \A w \in Witnesses : VotersFor(u, w) = VotersFor(v, w) \ {a}
                              /\ <<a, w>> \notin u.witness_vote
  BY <1>1, <1>2, BallotsMoved
<1>4. /\ \A i \in 0 .. MaxDepth : delta[i] = Below(b.vesting, old, a, i)
      /\ Deltas(delta)
  BY BroughtIsBelow
<1>5. /\ IsBook(taken) /\ taken.vesting = b.vesting /\ taken.total = b.total
      /\ \A x \in Accounts, j \in Levels :
           taken.proxied[x][j] = Below(b.vesting, old, x, j + 1) - Gain(old, a, delta, x, j)
      /\ \A w \in Witnesses :
           taken.votes[w] = SumFunctionOnSet(Weights(taken), VotersFor(v, w) \ {a})
  BY TakenOut
<1> HIDE DEF old, new, delta, taken, u
<1>6. u.proxy \in Proxies /\ NoLoop(u.proxy) /\ VotersAtTop(u)
  BY <1>2, <1>3 DEF BallotsOK
<1>7. /\ IsBook(c) /\ c.vesting = b.vesting /\ c.total = b.total
      /\ \A x \in Accounts, j \in Levels :
           c.proxied[x][j] = taken.proxied[x][j] + Gain(u.proxy, a, delta, x, j)
  BY <1>4, <1>5, <1>6, Adjusted
<1>8. ASSUME NEW w \in Witnesses
      PROVE  c.votes[w] - Tally(c, u, w)
               = taken.votes[w] - Tally(taken, u, w)
                   + IF <<a, w>> \in u.witness_vote
                     THEN SumFunctionOnSet(delta, 0 .. MaxDepth) ELSE 0
  BY <1>4, <1>5, <1>6, TallyAdjusted
<1> HIDE DEF c
<1>9. Exact(c, u.proxy)
  <2> SUFFICES ASSUME NEW x \in Accounts, NEW j \in Levels
               PROVE  c.proxied[x][j] = Below(c.vesting, u.proxy, x, j + 1)
    BY DEF Exact
  <2>1. /\ Below(b.vesting, new, x, j + 1)
             = Below(b.vesting, old, x, j + 1) - Gain(old, a, delta, x, j)
               + Gain(new, a, delta, x, j)
        /\ Gain(old, a, delta, x, j) \in Int /\ Gain(new, a, delta, x, j) \in Int
    BY <1>1, <1>2, <1>4, BelowMoved
  <2>2. c.proxied[x][j] = Below(b.vesting, old, x, j + 1) - Gain(old, a, delta, x, j)
                          + Gain(new, a, delta, x, j)
    BY <1>3, <1>5, <1>7
  <2> QED
    BY <1>3, <1>7, <2>1, <2>2
<1>10. Balanced(c, u)
  <2> SUFFICES ASSUME NEW w \in Witnesses PROVE c.votes[w] = Tally(c, u, w)
    BY DEF Balanced
  <2>1. taken.votes[w] = Tally(taken, u, w)
    BY <1>3, <1>5 DEF Tally
  <2>2. Tally(taken, u, w) \in Int /\ Tally(c, u, w) \in Int /\ c.votes[w] \in Int
    BY <1>5, <1>7, WeightInt DEF IsBook
  <2> DEFINE x == c.votes[w]
             y == Tally(c, u, w)
             z == Tally(taken, u, w)
  <2>3. x - y = z - z + 0
    BY <1>3, <1>8, <2>1
  <2>4. x \in Int /\ y \in Int /\ z \in Int
    BY <2>2
  <2> HIDE DEF x, y, z
  <2>5. x = y
    BY <2>3, <2>4
  <2> QED
    BY <2>5 DEF x, y
<1> QED
  BY <1>3, <1>7, <1>9, <1>10 DEF Sound, c, u, taken, delta

(* An account gives up its proxy and keeps what it brings.                 *)
LEMMA ProxyCut ==
  ASSUME NEW b, NEW v, Sound(b, v), NEW a \in Accounts, v.proxy[a] # Self
  PROVE  LET taken == adjust_proxied_witness_votes(b, v, a, negated(brought(b, a)))
         IN  /\ Sound(taken, [v EXCEPT !.proxy[a] = Self])
             /\ taken.vesting = b.vesting /\ taken.total = b.total
<1> DEFINE old == v.proxy
           new == [v.proxy EXCEPT ![a] = Self]
           delta == brought(b, a)
           taken == adjust_proxied_witness_votes(b, v, a, negated(delta))
           u == [v EXCEPT !.proxy[a] = Self]
<1>0. MaxDepth \in Nat \ {0} /\ Self \notin Accounts
  BY VotingAssumption
<1>1. /\ old \in Proxies /\ NoLoop(old) /\ BallotsOK(v) /\ Holdings(b.vesting)
  BY SoundParts DEF Sound
<1>2. /\ BallotsOK(u) /\ u.proxy = new
      /\ \A w \in Witnesses : VotersFor(u, w) = VotersFor(v, w) \ {a}
  BY <1>1, BallotsCut
<1>3. NoLoop(new) /\ new \in Proxies /\ DifferAt(old, new, a) /\ new[a] = Self
  BY <1>1, CutClosesNoLoop DEF Proxies, DifferAt
<1>4. /\ \A i \in 0 .. MaxDepth : delta[i] = Below(b.vesting, old, a, i)
  BY BroughtIsBelow
<1>5. /\ IsBook(taken) /\ taken.vesting = b.vesting /\ taken.total = b.total
      /\ \A x \in Accounts, j \in Levels :
           taken.proxied[x][j] = Below(b.vesting, old, x, j + 1) - Gain(old, a, delta, x, j)
      /\ \A w \in Witnesses :
           taken.votes[w] = SumFunctionOnSet(Weights(taken), VotersFor(v, w) \ {a})
  BY TakenOut
<1> HIDE DEF old, new, delta, taken, u
<1>6. ASSUME NEW x \in Accounts, NEW r \in 1 .. MaxDepth PROVE Ancestor(new, a)[r] # x
  <2>1. /\ 1 \in 1 .. MaxDepth /\ r \in 0 .. MaxDepth /\ 1 \in 0 .. r
        /\ Ancestor(new, a)[1] = Self
    BY <1>0, <1>3, AncestorWalks
  <2>2. Ancestor(new, a)[r] # Self => \A i \in 0 .. r : Ancestor(new, a)[i] \in Accounts
    BY <1>3, <2>1, AncestorBefore
  <2> QED
    BY <1>0, <2>1, <2>2
<1>7. Exact(taken, u.proxy)
  <2> SUFFICES ASSUME NEW x \in Accounts, NEW j \in Levels
               PROVE  taken.proxied[x][j] = Below(taken.vesting, u.proxy, x, j + 1)
    BY DEF Exact
  <2>1. /\ Below(b.vesting, new, x, j + 1)
             = Below(b.vesting, old, x, j + 1) - Gain(old, a, delta, x, j)
               + Gain(new, a, delta, x, j)
        /\ Gain(old, a, delta, x, j) \in Int
    BY <1>1, <1>3, <1>4, BelowMoved
  <2>2. Gain(new, a, delta, x, j) = 0
    BY <1>3, <1>6, GainElsewhere
  <2>3. Below(b.vesting, old, x, j + 1) \in Int
    <3>1. Subs(old, x, j + 1) \subseteq Accounts
      BY DEF Subs
    <3> QED
      BY <1>1, <3>1, BelowInt DEF Below
  <2> QED
    BY <1>2, <1>5, <2>1, <2>2, <2>3
<1>8. Balanced(taken, u)
  BY <1>2, <1>5 DEF Balanced, Tally
<1> QED
  BY <1>2, <1>5, <1>7, <1>8 DEF Sound, u, taken, delta
-----------------------------------------------------------------------------
(* The inductive invariant                                                 *)

(* The books are sound, nobody has less than no shares, and the total is   *)
(* the sum of the shares.                                                  *)
Shares(b) == b.vesting \in [Accounts -> Nat] /\ b.total = SumFunction(b.vesting)

VotingInv == Sound(book, ballots) /\ Shares(book) /\ book.ok = TRUE

(* The invariant of the state after a step.                                *)
LEMMA VotingInvOf ==
  ASSUME NEW b, NEW v, Sound(b, v), Shares(b), b.ok = TRUE, book' = b, ballots' = v
  PROVE  VotingInv'
<1>1. Sound(book', ballots') /\ Shares(book') /\ book'.ok = TRUE
  OBVIOUS
<1> QED
  BY <1>1 DEF VotingInv, Sound, IsBook, Exact, Balanced, Tally, Weights,
     witness_vote_weight, Shares, Below, Subs, BallotsOK, VotersAtTop, Counted, VotersFor,
     NoLoop, RecordsOf, Ancestor, Levels, Ballots

(* What an operation makes of sound books is sound.                        *)
LEMMA Accepted ==
  ASSUME NEW c, NEW u, Sound(c, u), Shares(c), Accept(c, u)
  PROVE  VotingInv'
<1>1. book' = c /\ ballots' = u /\ c.ok /\ c.ok \in BOOLEAN
  BY DEF Accept, Sound, IsBook
<1>2. c.ok = TRUE
  BY <1>1
<1> QED
  BY <1>1, <1>2, VotingInvOf

(* The shares are those of b.                                              *)
LEMMA SharesKept ==
  ASSUME NEW b, NEW c, Shares(b), c.vesting = b.vesting, c.total = b.total
  PROVE  Shares(c)
BY DEF Shares

(* Initially nobody has shares, votes or a proxy.                          *)
LEMMA VotingInvInit == Init => VotingInv
<1> SUFFICES ASSUME Init PROVE VotingInv
  OBVIOUS
<1> DEFINE f == book.vesting
           q == ballots.proxy
<1>0. /\ IsFiniteSet(Accounts) /\ MaxVotes \in Nat /\ MaxDepth \in Nat \ {0}
      /\ Self \notin Accounts
  BY VotingAssumption
<1>1. /\ book = [vesting |-> [a \in Accounts |-> 0], total |-> 0,
                 proxied |-> [a \in Accounts |-> [d \in Levels |-> 0]],
                 votes |-> [w \in Witnesses |-> 0],
                 sp_votes |-> [p \in Platforms |-> 0], ok |-> TRUE]
      /\ ballots = [proxy |-> [a \in Accounts |-> Self], witness_vote |-> {},
                    platform_vote |-> {}, witnesses_voted_for |-> [a \in Accounts |-> 0],
                    streaming_platforms_voted_for |-> [a \in Accounts |-> 0]]
  BY DEF Init
<1>2. IsBook(book) /\ book.ok = TRUE
  BY <1>1 DEF IsBook
<1>3. ballots \in Ballots
  BY <1>0, <1>1 DEF Ballots
<1>4. f \in [Accounts -> Nat] /\ \A a \in Accounts : f[a] = 0
  BY <1>1
<1>5. \A S \in SUBSET Accounts : SumFunctionOnSet(f, S) = 0
  <2> SUFFICES ASSUME NEW S \in SUBSET Accounts PROVE SumFunctionOnSet(f, S) = 0
    OBVIOUS
  <2>1. IsFiniteSet(S) /\ \A a \in S : f[a] = 0
    BY <1>0, <1>4, FS_Subset
  <2> HIDE DEF f
  <2> QED BY <2>1, SumZero
<1>6. Shares(book)
  <2>1. DOMAIN f = Accounts /\ SumFunctionOnSet(f, Accounts) = 0
    BY <1>4, <1>5
  <2> QED
    BY <1>1, <1>4, <2>1 DEF Shares, SumFunction
<1>7. Exact(book, q)
  <2>1. \A x \in Accounts, j \in Levels : book.proxied[x][j] = 0
    BY <1>1
  <2>2. \A x, d : Subs(q, x, d) \in SUBSET Accounts
    BY DEF Subs
  <2> QED
    BY <1>5, <2>1, <2>2 DEF Exact, Below
<1>8. Balanced(book, ballots)
  <2>1. \A w \in Witnesses : VotersFor(ballots, w) = {} /\ book.votes[w] = 0
    BY <1>1 DEF VotersFor
  <2> QED
    BY <2>1, SumEmpty DEF Balanced, Tally
<1>9. BallotsOK(ballots)
  <2>1. NoLoop(q)
    BY <1>0, <1>1 DEF NoLoop
  <2>2. VotersAtTop(ballots)
    BY <1>1 DEF VotersAtTop
  <2>3. \A x : RecordsOf({}, x) = {}
    BY DEF RecordsOf
  <2>4. Cardinality({}) = 0
    BY FS_EmptySet
  <2>5. Counted(ballots)
    BY <1>1, <2>3, <2>4 DEF Counted
  <2> QED
    BY <1>3, <2>1, <2>2, <2>5 DEF BallotsOK
<1> QED
  BY <1>2, <1>6, <1>7, <1>8, <1>9 DEF VotingInv, Sound

(* A witness gets or loses a vote.                                         *)
LEMMA WitnessVoteInv ==
  ASSUME VotingInv, NEW a \in Accounts, NEW w \in Witnesses, NEW approve,
         account_witness_vote(a, w, approve)
  PROVE  VotingInv'
<1> DEFINE n == witness_vote_weight(book, a)
<1>1. Sound(book, ballots) /\ Shares(book) /\ IsBook(book) /\ ballots.proxy[a] = Self
  BY DEF VotingInv, Sound, account_witness_vote
<1>2. n \in Int /\ - n \in Int
  BY <1>1, WeightOf
<1>3. \A k \in Int : Shares(adjust_witness_vote(book, w, k))
  BY <1>1, VoteAdjusted, SharesKept DEF SameShares
<1>4. CASE /\ <<a, w>> \notin ballots.witness_vote
           /\ ballots.witnesses_voted_for[a] < MaxVotes
           /\ Accept(adjust_witness_vote(book, w, n),
                     [ballots EXCEPT !.witness_vote = @ \cup {<<a, w>>},
                                     !.witnesses_voted_for[a] = @ + 1])
  BY <1>1, <1>2, <1>3, <1>4, VoteCounted, Accepted
<1>5. CASE /\ <<a, w>> \in ballots.witness_vote
           /\ Accept(adjust_witness_vote(book, w, - n),
                     [ballots EXCEPT !.witness_vote = @ \ {<<a, w>>},
                                     !.witnesses_voted_for[a] = @ - 1])
  BY <1>1, <1>2, <1>3, <1>5, VoteCounted, Accepted
<1> QED
  BY <1>4, <1>5 DEF account_witness_vote

(* A platform does.                                                        *)
LEMMA PlatformVoteInv ==
  ASSUME VotingInv, NEW a \in Accounts, NEW p \in Platforms, NEW approve,
         account_streaming_platform_vote(a, p, approve)
  PROVE  VotingInv'
<1> DEFINE n == witness_vote_weight(book, a)
<1>1. Sound(book, ballots) /\ Shares(book) /\ IsBook(book)
  BY DEF VotingInv, Sound
<1>2. n \in Int /\ - n \in Int
  BY <1>1, WeightOf
<1>3. \A k \in Int : Shares(adjust_streaming_platform_vote(book, p, k))
  BY <1>1, PlatformVoteAdjusted, SharesKept DEF SameShares
<1>4. CASE /\ <<a, p>> \notin ballots.platform_vote
           /\ ballots.streaming_platforms_voted_for[a] < MaxVotes
           /\ Accept(adjust_streaming_platform_vote(book, p, n),
                     [ballots EXCEPT !.platform_vote = @ \cup {<<a, p>>},
                                     !.streaming_platforms_voted_for[a] = @ + 1])
  BY <1>1, <1>2, <1>3, <1>4, PlatformVoteSound, Accepted
<1>5. CASE /\ <<a, p>> \in ballots.platform_vote
           /\ Accept(adjust_streaming_platform_vote(book, p, - n),
                     [ballots EXCEPT !.platform_vote = @ \ {<<a, p>>},
                                     !.streaming_platforms_voted_for[a] = @ - 1])
  BY <1>1, <1>2, <1>3, <1>5, PlatformVoteSound, Accepted
<1> QED
  BY <1>4, <1>5 DEF account_streaming_platform_vote

(* An account sets, changes or clears its proxy.                           *)
LEMMA ProxyInv ==
  ASSUME VotingInv, NEW a \in Accounts, NEW p \in Accounts \cup {Self},
         account_witness_proxy(a, p)
  PROVE  VotingInv'
<1> DEFINE delta == brought(book, a)
           taken == adjust_proxied_witness_votes(book, ballots, a, negated(delta))
           c == adjust_proxied_witness_votes(taken, Moved(ballots, a, p), a, delta)
<1>1. Sound(book, ballots) /\ Shares(book) /\ ballots.proxy[a] # p /\ p # a
  BY DEF VotingInv, account_witness_proxy
<1>2. CASE p # Self /\ proxy_chain_ok(ballots, a, p) /\ Accept(c, Moved(ballots, a, p))
  <2>1. Sound(c, Moved(ballots, a, p)) /\ c.vesting = book.vesting /\ c.total = book.total
    BY <1>1, <1>2, ProxyTaken
  <2> HIDE DEF c
  <2> QED
    BY <1>1, <1>2, <2>1, SharesKept, Accepted
<1>3. CASE p = Self /\ Accept(taken, [ballots EXCEPT !.proxy[a] = Self])
  <2>1. /\ Sound(taken, [ballots EXCEPT !.proxy[a] = Self])
        /\ taken.vesting = book.vesting /\ taken.total = book.total
    BY <1>1, <1>3, ProxyCut
  <2> HIDE DEF taken
  <2> QED
    BY <1>1, <1>3, <2>1, SharesKept, Accepted
<1> QED
  BY <1>2, <1>3 DEF account_witness_proxy, Moved

(* An account with n shares more, and a total that has grown by as much.   *)
LEMMA SharesGrown ==
  ASSUME NEW b, Shares(b), NEW a \in Accounts, NEW n \in Int, b.vesting[a] + n \in Nat,
         NEW c, c.vesting = [b.vesting EXCEPT ![a] = @ + n], c.total = b.total + n
  PROVE  Shares(c)
<1> DEFINE f == b.vesting
           g == c.vesting
<1>1. f \in [Accounts -> Nat] /\ b.total = SumFunctionOnSet(f, Accounts) /\ IsFiniteSet(Accounts)
  BY VotingAssumption DEF Shares, SumFunction
<1>2. /\ g \in [Accounts -> Nat] /\ g[a] = f[a] + n
      /\ \A y \in Accounts \ {a} : g[y] = f[y]
  BY <1>1
<1>3. f[a] \in Nat /\ Numeric(f, Accounts) /\ Numeric(g, Accounts)
  BY <1>1, <1>2 DEF Numeric
<1>4. DOMAIN g = Accounts
  BY <1>2
<1> HIDE DEF f, g
<1>5. SumFunctionOnSet(g, Accounts) = SumFunctionOnSet(f, Accounts) + g[a] - f[a]
  BY <1>2, <1>3, SumChange
<1>6. SumFunctionOnSet(f, Accounts) \in Int
  BY <1>3, SumInt
<1>7. c.total = SumFunctionOnSet(g, Accounts)
  BY <1>1, <1>2, <1>3, <1>5, <1>6
<1> QED
  BY <1>2, <1>4, <1>7 DEF Shares, SumFunction, g

(* New shares for an account.                                              *)
LEMMA VestingInv ==
  ASSUME VotingInv, NEW a \in Accounts, NEW n \in 1 .. MaxShares, create_vesting(a, n)
  PROVE  VotingInv'
<1> DEFINE g == [book.vesting EXCEPT ![a] = @ + n]
           m == book.total + n
           b == [book EXCEPT !.vesting[a] = @ + n, !.total = @ + n]
           c == adjust_proxied_by_shares(b, ballots, a, n)
<1>1. Sound(book, ballots) /\ Shares(book) /\ IsBook(book) /\ Accept(c, ballots)
  BY DEF VotingInv, Sound, create_vesting
<1>2. n \in Int /\ book.vesting[a] + n \in Nat /\ g \in [Accounts -> Int] /\ m \in Int
  BY <1>1, VotingAssumption DEF Shares, IsBook
<1>3. b = [book EXCEPT !.vesting = g, !.total = m]
  BY <1>1 DEF IsBook
<1> HIDE DEF b, g, m
<1>8. b = [vesting |-> g, total |-> m, proxied |-> book.proxied, votes |-> book.votes,
           sp_votes |-> book.sp_votes, ok |-> book.ok]
  BY <1>1, <1>3 DEF IsBook
<1>9. b.vesting = [book.vesting EXCEPT ![a] = @ + n] /\ b.total = book.total + n
  BY <1>8 DEF g, m
<1>10. IsBook(b) /\ b.proxied = book.proxied /\ b.votes = book.votes
  BY <1>1, <1>2, <1>8 DEF IsBook
<1>4. MoreShares(book, b, a, n)
  BY <1>9, <1>10 DEF MoreShares
<1>11. Sound(book, ballots) /\ n \in Int
  BY <1>1, <1>2
<1>5. Sound(c, ballots) /\ c.vesting = b.vesting /\ c.total = b.total
  BY ONLY <1>11, <1>4, a \in Accounts, SharesFollowed
<1> HIDE DEF c
<1>6. Shares(b)
  BY <1>1, <1>2, <1>9, SharesGrown
<1>7. Shares(c)
  BY <1>5, <1>6, SharesKept
<1> QED
  BY <1>1, <1>5, <1>7, Accepted

(* The invariant is preserved by every step.                               *)
LEMMA VotingInvNext ==
  ASSUME VotingInv, [Next]_vars
  PROVE  VotingInv'
<1>1. CASE Next
  BY <1>1, WitnessVoteInv, PlatformVoteInv, ProxyInv, VestingInv DEF Next
<1>2. CASE UNCHANGED vars
  <2>1. book' = book /\ ballots' = ballots
    BY <1>2 DEF vars
  <2> QED
    BY <2>1, VotingInvOf DEF VotingInv
<1> QED
  BY <1>1, <1>2
-----------------------------------------------------------------------------
(* Every share is counted once                                             *)

(* A walk that does not end within MaxDepth hops is then at an account.    *)
LEMMA WalkGoesOn ==
  ASSUME NEW p \in Proxies, NEW y \in Accounts, \A r : ~Top(p, y, r)
  PROVE  Ancestor(p, y)[MaxDepth] \in Accounts /\ p[Ancestor(p, y)[MaxDepth]] # Self
<1> DEFINE u == Ancestor(p, y)
           P == {k \in Nat : k <= MaxDepth => u[k] \in Accounts}
<1>0. MaxDepth \in Nat \ {0} /\ Self \notin Accounts
  BY VotingAssumption
<1>1. /\ u[0] = y /\ \A d \in 0 .. MaxDepth : u[d] \in Accounts \cup {Self}
      /\ \A d \in 1 .. MaxDepth : u[d] = IF u[d - 1] = Self THEN Self ELSE p[u[d - 1]]
  BY AncestorWalks
<1>2. \A d \in 0 .. MaxDepth : u[d] \in Accounts => p[u[d]] # Self
  BY <1>0 DEF Top
<1> HIDE DEF u
<1>3. 0 \in P
  BY <1>1
<1>4. ASSUME NEW k \in Nat, k \in P PROVE k + 1 \in P
  <2> SUFFICES ASSUME k + 1 <= MaxDepth PROVE u[k + 1] \in Accounts
    OBVIOUS
  <2> DEFINE e == k + 1
  <2>1. k \in 0 .. MaxDepth /\ e \in 1 .. MaxDepth /\ e \in 0 .. MaxDepth /\ e - 1 = k
        /\ k <= MaxDepth
    BY <1>0
  <2> HIDE DEF e
  <2>2. u[k] \in Accounts
    BY <1>4, <2>1
  <2>3. u[e] = p[u[k]] /\ u[e] # Self
    BY <1>0, <1>1, <1>2, <2>1, <2>2
  <2>4. u[e] \in Accounts
    BY <1>1, <2>1, <2>3
  <2> QED
    BY <2>4 DEF e
<1> HIDE DEF P
<1>5. Nat \subseteq P
  BY <1>3, <1>4, NaturalInduction
<1>6. u[MaxDepth] \in Accounts
  BY <1>0, <1>5 DEF P
<1> QED
  BY <1>0, <1>2, <1>6 DEF u

(* A walk that ends is at no account after MaxDepth hops, unless it is     *)
(* there that it ends.                                                     *)
LEMMA WalkEnded ==
  ASSUME NEW p \in Proxies, NEW y \in Accounts, NEW r, Top(p, y, r), r # MaxDepth
  PROVE  Ancestor(p, y)[MaxDepth] = Self
<1> DEFINE u == Ancestor(p, y)
           e == r + 1
<1>0. MaxDepth \in Nat \ {0} /\ Self \notin Accounts /\ MaxDepth \in 0 .. MaxDepth
  BY VotingAssumption
<1>1. r \in 0 .. MaxDepth /\ u[r] # Self /\ p[u[r]] = Self
  BY DEF Top
<1>2. e \in 1 .. MaxDepth /\ e \in 0 .. MaxDepth /\ e - 1 = r
  BY <1>0, <1>1
<1> HIDE DEF e
<1>3. u[e] = Self
  BY <1>1, <1>2, AncestorWalks
<1>4. u[MaxDepth] # Self => \A i \in 0 .. MaxDepth : u[i] \in Accounts
  BY <1>0, AncestorBefore
<1> QED
  BY <1>0, <1>2, <1>3, <1>4

(* Where the shares of y are counted: at the end of its chain of proxies,  *)
(* or MaxDepth hops up.                                                    *)
CountedAt(p, y) ==
  Ancestor(p, y)[IF \E r : Top(p, y, r) THEN CHOOSE r : Top(p, y, r) ELSE MaxDepth]

(* What is counted at an account without proxy, and at one with a proxy.   *)
LEMMA CountedWhere ==
  ASSUME NEW p \in Proxies, NEW y \in Accounts
  PROVE  /\ CountedAt(p, y) \in Accounts
         /\ \A k \in Accounts : p[k] # Self =>
              ((CountedAt(p, y) = k) <=> (Ancestor(p, y)[MaxDepth] = k))
         /\ \A k \in Accounts : p[k] = Self =>
              ((CountedAt(p, y) = k) <=> (\E d \in 0 .. MaxDepth : Ancestor(p, y)[d] = k))
         /\ \A k \in Accounts, d, e \in 0 .. MaxDepth : p[k] = Self =>
              (Ancestor(p, y)[d] = k /\ Ancestor(p, y)[e] = k => d = e)
<1> DEFINE u == Ancestor(p, y)
           k0 == CountedAt(p, y)
<1>0. MaxDepth \in Nat \ {0} /\ Self \notin Accounts /\ MaxDepth \in 0 .. MaxDepth
  BY VotingAssumption
<1>1. \A d \in 0 .. MaxDepth : u[d] \in Accounts \cup {Self}
  BY AncestorWalks
<1>2. \A k \in Accounts, d \in 0 .. MaxDepth : u[d] = k /\ p[k] = Self => Top(p, y, d)
  BY <1>0 DEF Top
<1>3. \A k \in Accounts, d, e \in 0 .. MaxDepth : p[k] = Self => (u[d] = k /\ u[e] = k => d = e)
  BY <1>2, TopUnique
<1>4. CASE \E r : Top(p, y, r)
  <2>1. PICK r : Top(p, y, r)
    BY <1>4
  <2>2. \A s : Top(p, y, s) => s = r
    BY <2>1, TopUnique
  <2>3. (CHOOSE s : Top(p, y, s)) = r
    BY <2>1, <2>2
  <2>4. k0 = u[r]
    BY <1>4, <2>3 DEF CountedAt
  <2>5. r \in 0 .. MaxDepth /\ u[r] \in Accounts /\ p[u[r]] = Self
    BY <1>1, <2>1 DEF Top
  <2>6. \A k \in Accounts : p[k] # Self => k0 # k /\ u[MaxDepth] # k
    BY <1>0, <2>1, <2>4, <2>5, WalkEnded
  <2>7. \A k \in Accounts : p[k] = Self => ((k0 = k) <=> (\E d \in 0 .. MaxDepth : u[d] = k))
    BY <1>2, <2>2, <2>4, <2>5
  <2> HIDE DEF k0
  <2>8. k0 \in Accounts
    BY <2>4, <2>5
  <2> QED
    BY <1>3, <2>6, <2>7, <2>8 DEF k0
<1>5. CASE \A r : ~Top(p, y, r)
  <2>1. k0 = u[MaxDepth]
    BY <1>5 DEF CountedAt
  <2>2. u[MaxDepth] \in Accounts /\ p[u[MaxDepth]] # Self
    BY <1>5, WalkGoesOn
  <2>3. \A k \in Accounts : p[k] = Self => k0 # k /\ ~\E d \in 0 .. MaxDepth : u[d] = k
    BY <1>2, <1>5, <2>1, <2>2
  <2> HIDE DEF k0
  <2> QED
    BY <1>3, <2>1, <2>2, <2>3 DEF k0
<1> QED
  BY <1>4, <1>5

(* An account without proxy has the weight of what is counted there.       *)
LEMMA WeightCounted ==
  ASSUME NEW b, NEW v, Sound(b, v), NEW k \in Accounts, v.proxy[k] = Self
  PROVE  Weights(b)[k]
           = SumFunctionOnSet(b.vesting, {y \in Accounts : CountedAt(v.proxy, y) = k})
<1> DEFINE p == v.proxy
           f == b.vesting
           D == 0 .. MaxDepth
           I == {y \in Accounts : CountedAt(p, y) = k}
           t == [y \in I |-> CHOOSE d \in D : Ancestor(p, y)[d] = k]
           g == [d \in D |-> SumFunctionOnSet(f, {y \in I : t[y] = d})]
           delta == brought(b, k)
<1>0. MaxDepth \in Nat \ {0} /\ IsFiniteSet(D)
  BY VotingAssumption, FS_Interval
<1>1. p \in Proxies /\ Holdings(f)
  BY SoundParts
<1>2. /\ \A d \in D : delta[d] = Below(f, p, k, d)
      /\ Weights(b)[k] = SumFunctionOnSet(delta, D) /\ \A d \in D : delta[d] \in Int
  BY BroughtIsBelow DEF Deltas
<1>3. ASSUME NEW y \in I
      PROVE  t[y] \in D /\ Ancestor(p, y)[t[y]] = k
             /\ \A d \in D : Ancestor(p, y)[d] = k => t[y] = d
  <2>1. \E d \in D : Ancestor(p, y)[d] = k
    BY <1>1, CountedWhere
  <2>2. t[y] \in D /\ Ancestor(p, y)[t[y]] = k
    BY <2>1
  <2>3. \A d \in D : Ancestor(p, y)[d] = k => t[y] = d
    <3> HIDE DEF t
    <3> QED BY <1>1, <2>2, CountedWhere
  <2> QED
    BY <2>2, <2>3
<1>4. ASSUME NEW d \in D PROVE {y \in I : t[y] = d} = Subs(p, k, d)
  <2>1. \A y \in Accounts : Ancestor(p, y)[d] = k => y \in I
    BY <1>1, CountedWhere
  <2> HIDE DEF t
  <2>2. \A y : y \in I /\ t[y] = d => y \in Accounts /\ Ancestor(p, y)[d] = k
    BY <1>3
  <2>3. \A y : y \in Accounts /\ Ancestor(p, y)[d] = k => y \in I /\ t[y] = d
    BY <1>3, <2>1
  <2> HIDE DEF I
  <2> QED
    BY <2>2, <2>3 DEF Subs
<1>5. \A d \in D : delta[d] = g[d]
  BY <1>2, <1>4, Zenon DEF Below
<1>6. {y \in I : t[y] \in D} = I
  BY <1>3
<1>7. I \subseteq Accounts
  OBVIOUS
<1> HIDE DEF I, D, t, delta, f
<1>8. Numeric(f, I)
  BY <1>1, <1>7, BelowInt
<1>9. SumFunctionOnSet(g, D) = SumFunctionOnSet(f, {y \in I : t[y] \in D})
  BY <1>0, <1>8, SumPartition
<1>10. SumFunctionOnSet(g, D) = SumFunctionOnSet(f, I)
  BY <1>6, <1>9
<1>11. Numeric(delta, D)
  BY <1>0, <1>2 DEF Numeric
<1> HIDE DEF g
<1>12. SumFunctionOnSet(g, D) = SumFunctionOnSet(delta, D)
  BY <1>5, <1>11, SumEqual
<1>13. Weights(b)[k] = SumFunctionOnSet(f, I)
  BY <1>2, <1>10, <1>12
<1> QED
  BY <1>13 DEF I, f

(* The votes validate_invariants adds up are all the shares.               *)
LEMMA AllCounted ==
  ASSUME NEW b, NEW v, Sound(b, v)
  PROVE  total_vsf_votes(b, v) = SumFunction(b.vesting)
<1> DEFINE p == v.proxy
           f == b.vesting
           t == [y \in Accounts |-> CountedAt(p, y)]
           g == [k \in Accounts |-> SumFunctionOnSet(f, {y \in Accounts : t[y] = k})]
           h == [k \in Accounts |-> IF p[k] = Self THEN witness_vote_weight(b, k)
                                    ELSE b.proxied[k][MaxDepth - 1]]
<1>0. MaxDepth \in Nat \ {0} /\ IsFiniteSet(Accounts)
      /\ MaxDepth - 1 \in Levels /\ (MaxDepth - 1) + 1 = MaxDepth
  BY VotingAssumption DEF Levels
<1>1. /\ p \in Proxies /\ Holdings(f) /\ f \in [Accounts -> Int] /\ IsBook(b)
      /\ \A k \in Accounts, j \in Levels : b.proxied[k][j] = Below(f, p, k, j + 1)
  BY SoundParts DEF Sound, Exact
<1>2. total_vsf_votes(b, v) = SumFunctionOnSet(h, Accounts)
  BY DEF total_vsf_votes, SumFunction
<1>3. SumFunction(f) = SumFunctionOnSet(f, Accounts)
  BY <1>1 DEF SumFunction
<1>4. ASSUME NEW k \in Accounts PROVE g[k] = h[k]
  <2>1. g[k] = SumFunctionOnSet(f, {y \in Accounts : CountedAt(p, y) = k})
    <3>1. {y \in Accounts : t[y] = k} = {y \in Accounts : CountedAt(p, y) = k}
      OBVIOUS
    <3> HIDE DEF t
    <3> QED BY <3>1, Zenon
  <2>2. CASE p[k] = Self
    <3>1. h[k] = Weights(b)[k]
      BY <1>1, <2>2, WeightOf
    <3>2. Weights(b)[k] = SumFunctionOnSet(f, {y \in Accounts : CountedAt(p, y) = k})
      BY <2>2, WeightCounted
    <3> QED
      BY <2>1, <3>1, <3>2
  <2>3. CASE p[k] # Self
    <3>1. h[k] = Below(f, p, k, (MaxDepth - 1) + 1)
      BY <1>0, <1>1, <2>3
    <3>2. {y \in Accounts : CountedAt(p, y) = k} = Subs(p, k, MaxDepth)
      BY <1>1, <2>3, CountedWhere DEF Subs
    <3>3. g[k] = Below(f, p, k, MaxDepth)
      <4> HIDE DEF g
      <4> QED BY <2>1, <3>2, Zenon DEF Below
    <3> QED
      BY <1>0, <3>1, <3>3, Zenon
  <2> QED
    BY <2>2, <2>3
<1>5. \A y \in Accounts : t[y] \in Accounts
  BY <1>1, CountedWhere
<1>6. {y \in Accounts : t[y] \in Accounts} = Accounts
  BY <1>5
<1> HIDE DEF f, t, h
<1>7. Numeric(f, Accounts)
  BY <1>1 DEF Holdings
<1>8. SumFunctionOnSet(g, Accounts) = SumFunctionOnSet(f, {y \in Accounts : t[y] \in Accounts})
  BY <1>0, <1>7, SumPartition
<1>9. SumFunctionOnSet(g, Accounts) = SumFunctionOnSet(f, Accounts)
  BY <1>6, <1>8
<1>10. \A k \in Accounts : g[k] \in Int
  <2>1. \A k : {y \in Accounts : t[y] = k} \subseteq Accounts
    OBVIOUS
  <2> QED
    BY <1>1, <2>1, BelowInt
<1> HIDE DEF g
<1>11. Numeric(g, Accounts)
  BY <1>0, <1>10 DEF Numeric
<1>12. SumFunctionOnSet(h, Accounts) = SumFunctionOnSet(g, Accounts)
  BY <1>4, <1>11, SumEqual
<1> QED
  BY <1>2, <1>3, <1>9, <1>12 DEF f
-----------------------------------------------------------------------------
(* The theorems                                                            *)

(* Counters and votes, which move by differences, are sums of shares and   *)
(* so never below zero.                                                    *)
LEMMA InvTypeOK == VotingInv => TypeOK
<1> SUFFICES ASSUME VotingInv PROVE TypeOK
  OBVIOUS
<1> DEFINE f == book.vesting
           p == ballots.proxy
           g == Weights(book)
<1>0. IsFiniteSet(Accounts) /\ IsFiniteSet(Levels)
  BY VotingAssumption, FS_Interval DEF Levels
<1>1. /\ IsBook(book) /\ Sound(book, ballots) /\ book.ok = TRUE /\ ballots \in Ballots
      /\ f \in [Accounts -> Nat] /\ book.total = SumFunctionOnSet(f, Accounts)
      /\ \A x \in Accounts, j \in Levels : book.proxied[x][j] = Below(f, p, x, j + 1)
      /\ \A w \in Witnesses : book.votes[w] = Tally(book, ballots, w)
  BY DEF VotingInv, Sound, BallotsOK, Exact, Balanced, Shares, SumFunction
<1>2. \A h \in [Accounts -> Nat], S \in SUBSET Accounts : SumFunctionOnSet(h, S) \in Nat
  <2> SUFFICES ASSUME NEW h \in [Accounts -> Nat], NEW S \in SUBSET Accounts
               PROVE  SumFunctionOnSet(h, S) \in Nat
    OBVIOUS
  <2>1. IsFiniteSet(S) /\ \A x \in S : h[x] \in Nat
    BY <1>0, FS_Subset
  <2> QED
    BY <2>1, SumNat
<1>3. book.total \in Nat
  BY <1>1, <1>2
<1>4. \A x \in Accounts, j \in Levels : book.proxied[x][j] \in Nat
  <2>1. \A x, d : Subs(p, x, d) \in SUBSET Accounts
    BY DEF Subs
  <2> QED
    BY <1>1, <1>2, <2>1 DEF Below
<1>5. g \in [Accounts -> Nat]
  <2>1. ASSUME NEW x \in Accounts PROVE g[x] \in Nat
    <3>1. g[x] = f[x] + SumFunctionOnSet(book.proxied[x], Levels)
      BY <1>1, WeightInt
    <3>2. SumFunctionOnSet(book.proxied[x], Levels) \in Nat
      BY <1>0, <1>4, SumNat
    <3> QED
      BY <1>1, <3>1, <3>2
  <2> QED
    BY <2>1 DEF Weights
<1>6. \A w \in Witnesses : book.votes[w] \in Nat
  <2>1. \A w : VotersFor(ballots, w) \in SUBSET Accounts
    BY DEF VotersFor
  <2> HIDE DEF g
  <2>2. \A w : SumFunctionOnSet(g, VotersFor(ballots, w)) \in Nat
    BY <1>2, <1>5, <2>1
  <2> QED
    BY <1>1, <2>2 DEF Tally, g
<1>7. book.proxied \in [Accounts -> [Levels -> Nat]]
  BY <1>1, <1>4 DEF IsBook
<1>8. book.votes \in [Witnesses -> Nat]
  BY <1>1, <1>6 DEF IsBook
<1>9. book \in Book
  BY <1>1, <1>3, <1>7, <1>8 DEF Book, IsBook
<1> QED
  BY <1>1, <1>9 DEF TypeOK

(* The sums of the properties are those of the invariant.                  *)
LEMMA InvTallies == VotingInv => ProxiedExact /\ WitnessVotesExact /\ EveryShareCountedOnce
<1> SUFFICES ASSUME VotingInv
             PROVE  ProxiedExact /\ WitnessVotesExact /\ EveryShareCountedOnce
  OBVIOUS
<1> DEFINE f == book.vesting
           p == ballots.proxy
           g == Weights(book)
           D == 0 .. MaxDepth
<1>0. IsFiniteSet(Accounts) /\ IsFiniteSet(D)
  BY VotingAssumption, FS_Interval
<1>1. /\ Sound(book, ballots) /\ IsBook(book)
      /\ \A x \in Accounts, j \in Levels : book.proxied[x][j] = Below(f, p, x, j + 1)
      /\ \A w \in Witnesses : book.votes[w] = Tally(book, ballots, w)
      /\ book.total = SumFunction(f)
  BY DEF VotingInv, Sound, BallotsOK, Exact, Balanced, Shares
<1>2. ProxiedExact
  BY <1>1 DEF ProxiedExact, SharesBelow, Below, Subs
<1>3. EveryShareCountedOnce
  BY <1>1, AllCounted DEF EveryShareCountedOnce
<1>4. ASSUME NEW a \in Accounts
      PROVE  g[a] = SumFunction([d \in D |-> SharesBelow(a, d)])
  <2> DEFINE delta == brought(book, a)
             h == [d \in D |-> SharesBelow(a, d)]
  <2>1. /\ \A d \in D : delta[d] \in Int /\ h[d] = delta[d]
        /\ g[a] = SumFunctionOnSet(delta, D)
    BY <1>1, BroughtIsBelow DEF Deltas, SharesBelow, Below, Subs
  <2>2. SumFunction(h) = SumFunctionOnSet(h, D)
    BY DEF SumFunction
  <2> HIDE DEF delta, h, D
  <2>3. Numeric(delta, D)
    BY <1>0, <2>1 DEF Numeric
  <2>4. SumFunctionOnSet(h, D) = SumFunctionOnSet(delta, D)
    BY <2>1, <2>3, SumEqual
  <2>5. g[a] = SumFunction(h)
    BY <2>1, <2>2, <2>4
  <2> QED
    BY <2>5 DEF h
<1>5. WitnessVotesExact
  <2> SUFFICES ASSUME NEW w \in Witnesses
               PROVE  book.votes[w] =
                        SumFunction([a \in {a \in Accounts : <<a, w>> \in ballots.witness_vote} |->
                                       SumFunction([d \in 0 .. MaxDepth |-> SharesBelow(a, d)])])
    BY DEF WitnessVotesExact
  <2> DEFINE V == {a \in Accounts : <<a, w>> \in ballots.witness_vote}
             Total(a) == SumFunction([d \in 0 .. MaxDepth |-> SharesBelow(a, d)])
             h == [a \in V |-> Total(a)]
  <2>1. V \subseteq Accounts /\ VotersFor(ballots, w) = V
    BY DEF VotersFor
  <2>2. Holdings(g)
    BY <1>1, WeightInt
  <2>3. \A a \in V : g[a] = Total(a)
    BY <1>4, <2>1
  <2> HIDE DEF g, V, Total
  <2>4. Numeric(g, V)
    BY <2>1, <2>2, BelowInt
  <2>5. \A a \in V : g[a] = h[a]
    BY <2>3
  <2>6. SumFunction(h) = SumFunctionOnSet(h, V)
    BY DEF SumFunction
  <2> HIDE DEF h
  <2>7. SumFunctionOnSet(h, V) = SumFunctionOnSet(g, V)
    BY <2>4, <2>5, SumEqual
  <2>8. book.votes[w] = SumFunctionOnSet(g, V)
    BY <1>1, <2>1 DEF Tally, g
  <2>9. book.votes[w] = SumFunction(h)
    BY <2>6, <2>7, <2>8
  <2> QED
    BY <2>9 DEF h, V, Total
<1> QED
  BY <1>2, <1>3, <1>5

(* Type correctness: no counter goes below zero, no assertion is left      *)
(* violated behind an operation that has been accepted.                    *)
THEOREM VotingTypeCorrect == Spec => []TypeOK
<1>1. Init => VotingInv
  BY VotingInvInit
<1>2. VotingInv /\ [Next]_vars => VotingInv'
  BY VotingInvNext
<1>3. VotingInv => TypeOK
  BY InvTypeOK
<1> QED
  BY <1>1, <1>2, <1>3, PTL DEF Spec

(* The walks up the chains of proxies, by adjust_proxied_witness_votes,    *)
(* keep every level counter equal to the shares that many hops below.      *)
THEOREM ProxiedIsExact == Spec => []ProxiedExact
<1>1. Init => VotingInv
  BY VotingInvInit
<1>2. VotingInv /\ [Next]_vars => VotingInv'
  BY VotingInvNext
<1>3. VotingInv => ProxiedExact
  BY InvTallies
<1> QED
  BY <1>1, <1>2, <1>3, PTL DEF Spec

(* The votes of a witness, never added up by the code, are the shares of   *)
(* the accounts whose chain ends at one that votes for it.                 *)
THEOREM WitnessVotesAreExact == Spec => []WitnessVotesExact
<1>1. Init => VotingInv
  BY VotingInvInit
<1>2. VotingInv /\ [Next]_vars => VotingInv'
  BY VotingInvNext
<1>3. VotingInv => WitnessVotesExact
  BY InvTallies
<1> QED
  BY <1>1, <1>2, <1>3, PTL DEF Spec

(* What validate_invariants asserts of the votes: every share is counted   *)
(* at exactly one account.                                                 *)
THEOREM SharesAreCountedOnce == Spec => []EveryShareCountedOnce
<1>1. Init => VotingInv
  BY VotingInvInit
<1>2. VotingInv /\ [Next]_vars => VotingInv'
  BY VotingInvNext
<1>3. VotingInv => EveryShareCountedOnce
  BY InvTallies
<1> QED
  BY <1>1, <1>2, <1>3, PTL DEF Spec

(* The check of the evaluator, which looks upward from the new proxy for a *)
(* bounded number of hops, admits no loop of any length.                   *)
THEOREM ProxiesNeverLoop == Spec => []NoProxyLoop
<1>1. Init => VotingInv
  BY VotingInvInit
<1>2. VotingInv /\ [Next]_vars => VotingInv'
  BY VotingInvNext
<1>3. VotingInv => NoProxyLoop
  BY DEF VotingInv, Sound, BallotsOK, NoLoop, NoProxyLoop
<1> QED
  BY <1>1, <1>2, <1>3, PTL DEF Spec

(* The counters that limit the votes of an account agree with its vote     *)
(* records, and an account with a proxy has none for a witness.            *)
THEOREM VoteRecordsAreConsistent == Spec => []VoteRecordsConsistent
<1>1. Init => VotingInv
  BY VotingInvInit
<1>2. VotingInv /\ [Next]_vars => VotingInv'
  BY VotingInvNext
<1>3. VotingInv => VoteRecordsConsistent
  <2> SUFFICES ASSUME VotingInv, NEW a \in Accounts
               PROVE  /\ ballots.witnesses_voted_for[a] =
                           Cardinality({r \in ballots.witness_vote : r[1] = a})
                      /\ ballots.streaming_platforms_voted_for[a] =
                           Cardinality({r \in ballots.platform_vote : r[1] = a})
                      /\ ballots.proxy[a] # Self => ~\E r \in ballots.witness_vote : r[1] = a
    BY DEF VoteRecordsConsistent
  <2>1. ballots \in Ballots /\ VotersAtTop(ballots) /\ Counted(ballots)
    BY DEF VotingInv, Sound, BallotsOK
  <2>2. \A r \in ballots.witness_vote : r[2] \in Witnesses /\ r = <<r[1], r[2]>>
    BY <2>1 DEF Ballots
  <2>3. ballots.proxy[a] # Self => ~\E r \in ballots.witness_vote : r[1] = a
    BY <2>1, <2>2 DEF VotersAtTop
  <2> QED
    BY <2>1, <2>3 DEF Counted, RecordsOf
<1> QED
  BY <1>1, <1>2, <1>3, PTL DEF Spec

-----------------------------------------------------------------------------
(* Vesting: arithmetic                                                     *)

(* A product with a larger number is no smaller.                           *)
LEMMA TimesMonotonic ==
  ASSUME NEW v \in Nat, NEW a \in Int, NEW b \in Int, a <= b
  PROVE  a * v <= b * v
OBVIOUS

(* Multiples of m that leave remainders below m are the same.              *)
LEMMA QuotientUnique ==
  ASSUME NEW m \in Nat, NEW j \in Int, NEW k \in Int, NEW x \in 0 .. m - 1,
         NEW y \in 0 .. m - 1, j * m + x = k * m + y
  PROVE  j = k /\ x = y
<1> DEFINE p == j * m
           q == k * m
<1>0. p \in Int /\ q \in Int /\ p + x = q + y /\ (j + 1) * m = p + m /\ (k + 1) * m = q + m
  OBVIOUS
<1>1. j + 1 <= k => p + m <= q
  <2>1. j + 1 <= k => (j + 1) * m <= k * m
    BY TimesMonotonic
  <2> QED
    BY <1>0, <2>1
<1>2. k + 1 <= j => q + m <= p
  <2>1. k + 1 <= j => (k + 1) * m <= j * m
    BY TimesMonotonic
  <2> QED
    BY <1>0, <2>1
<1>3. j = k
  <2> HIDE DEF p, q
  <2> QED BY <1>0, <1>1, <1>2
<1> QED
  BY <1>0, <1>3

(* The last part: what is left after some parts of m is the remainder by   *)
(* m.                                                                      *)
LEMMA LastPart ==
  ASSUME NEW n \in Nat, NEW m \in Nat \ {0}, NEW k \in Nat, NEW w \in Nat, w = k * m,
         n - w \in 0 .. m - 1
  PROVE  n % m = n - w
<1>1. /\ n \div m \in Int /\ n % m \in 0 .. m - 1
      /\ n = (n \div m) * m + (n % m)
  <2>1. n = m * (n \div m) + (n % m)
    OBVIOUS
  <2> QED BY <2>1
<1> DEFINE d == n \div m
           x == n % m
           y == n - w
<1>2. d * m + x = k * m + y
  BY <1>1
<1>3. d \in Int /\ x \in 0 .. m - 1 /\ y \in 0 .. m - 1 /\ m \in Nat /\ k \in Int
  BY <1>1
<1> HIDE DEF d, x, y
<1>4. x = y
  BY ONLY <1>2, <1>3, QuotientUnique
<1> QED
  BY <1>4 DEF x, y
-----------------------------------------------------------------------------
(* Vesting: shares sent along the routes                                   *)

AnyBook == [vesting : [Accounts -> Int], total : Int, proxied : [Accounts -> [Levels -> Int]],
            votes : [Witnesses -> Int], sp_votes : [Platforms -> Int], ok : BOOLEAN]

(* Sound books in which nobody has less than no shares; the total may be   *)
(* behind.                                                                 *)
SoundBooks == {b \in AnyBook : Sound(b, ballots) /\ b.vesting \in [Accounts -> Nat]}

(* Routes along which a sends a natural number of shares.                  *)
Payable(a, R) ==
  IsFiniteSet(R) /\ \A r \in R : r.to \in Accounts /\ deposit(a, r) \in Nat

(* A book is any book.                                                     *)
LEMMA BookIsAny ==
  ASSUME NEW b, IsBook(b)
  PROVE  b \in AnyBook
BY DEF IsBook, AnyBook

(* Shares sent along one route are counted in the books.                   *)
LEMMA DepositedAlong ==
  ASSUME NEW b, b \in SoundBooks, NEW a, NEW r, r.to \in Accounts, deposit(a, r) \in Nat
  PROVE  LET c == deposit_along(a, r, b)
         IN  /\ c \in SoundBooks /\ c.total = b.total
             /\ c.vesting = [b.vesting EXCEPT ![r.to] = @ + deposit(a, r)]
<1> DEFINE n == deposit(a, r)
           x == r.to
           g == [b.vesting EXCEPT ![x] = @ + n]
           d == [b EXCEPT !.vesting[x] = @ + n]
           e == adjust_proxied_by_shares(d, ballots, x, n)
           c == deposit_along(a, r, b)
<1>1. Sound(b, ballots) /\ b.vesting \in [Accounts -> Nat] /\ IsBook(b)
  BY DEF SoundBooks, Sound
<1>2. n \in Int /\ n \in Nat /\ x \in Accounts
  OBVIOUS
<1>3. c = IF n = 0 THEN b ELSE e
  BY DEF deposit_along
<1>4. d = [b EXCEPT !.vesting = g]
  BY <1>1 DEF IsBook
<1> HIDE DEF n, x
<1>5. g \in [Accounts -> Nat] /\ g \in [Accounts -> Int] /\ (n = 0 => g = b.vesting)
  BY <1>1, <1>2
<1> HIDE DEF g, d
<1>6. d = [vesting |-> g, total |-> b.total, proxied |-> b.proxied, votes |-> b.votes,
           sp_votes |-> b.sp_votes, ok |-> b.ok]
  BY <1>1, <1>4 DEF IsBook
<1>7. IsBook(d) /\ d.proxied = b.proxied /\ d.votes = b.votes /\ d.vesting = g
      /\ d.total = b.total
  BY <1>1, <1>5, <1>6 DEF IsBook
<1>8. MoreShares(b, d, x, n)
  BY <1>7 DEF MoreShares, g
<1>9. Sound(e, ballots) /\ e.vesting = d.vesting /\ e.total = d.total
  BY ONLY <1>1, <1>2, <1>8, SharesFollowed
<1> HIDE DEF e, c
<1>10. Sound(c, ballots) /\ c.vesting = g /\ c.total = b.total
  BY <1>1, <1>3, <1>5, <1>7, <1>9
<1>11. c \in AnyBook
  BY <1>10, BookIsAny DEF Sound
<1>12. c \in SoundBooks
  BY <1>5, <1>10, <1>11 DEF SoundBooks
<1> QED
  BY <1>10, <1>12 DEF c, g, n, x

(* g has the books after the routes of each part of S.                     *)
PaysInTurn(g, a, S) ==
  /\ g \in [SUBSET S -> SoundBooks] /\ deposit_vests(a) = g[S] /\ g[{}] = book
  /\ \A t \in SUBSET S : t # {} =>
       g[t] = deposit_along(a, Chosen(t), g[t \ {Chosen(t)}])

(* The fold over the routes pays them one after the other.                 *)
LEMMA DepositsFold ==
  ASSUME NEW a, NEW S, Payable(a, S), AutoVesting(a) = S, book \in SoundBooks
  PROVE  \E g : PaysInTurn(g, a, S)
<1> DEFINE B == SoundBooks
           F == [r \in S |-> [b \in B |-> deposit_along(a, r, b)]]
           c == [s \in SUBSET S |-> Chosen(s)]
           Direct(g) == g = [t \in SUBSET S |-> IF t = {} THEN book
                               ELSE deposit_along(a, Chosen(t), g[t \ {Chosen(t)}])]
<1>1. \A s \in SUBSET S : s # {} => c[s] \in s
  BY DEF Chosen
<1>2. \A r \in S : \A b \in B : deposit_along(a, r, b) \in B
  BY DepositedAlong DEF Payable
<1>3. F \in [S -> [B -> B]]
  BY <1>2
<1>4. PICK g \in [SUBSET S -> B] : FoldEquation(g, F, book, c, S)
  <2>1. IsFiniteSet(S) /\ FoldSteps(F, S, B) /\ FoldPicks(c, S)
    BY <1>1, <1>3 DEF Payable, FoldSteps, FoldPicks
  <2> HIDE DEF F, c, Direct
  <2>2. \E g : IsFold(g, F, book, c, S, B)
    BY <2>1, FoldExists, Zenon
  <2> QED
    BY <2>2 DEF IsFold
<1>5. g[{}] = book
  BY <1>4 DEF FoldEquation
<1>6. ASSUME NEW t \in SUBSET S, t # {}
      PROVE  /\ Chosen(t) \in t /\ t \ {Chosen(t)} \in SUBSET S
             /\ g[t] = deposit_along(a, Chosen(t), g[t \ {Chosen(t)}])
  <2>1. Chosen(t) \in t /\ t \ {Chosen(t)} \in SUBSET S /\ c[t] = Chosen(t)
    BY <1>1, <1>6
  <2>2. g[t] = F[c[t]][g[t \ {c[t]}]]
    BY <1>4, <1>6 DEF FoldEquation
  <2>3. g[t \ {Chosen(t)}] \in B /\ Chosen(t) \in S
    BY <2>1
  <2> HIDE DEF B
  <2> QED
    BY <2>1, <2>2, <2>3
<1> HIDE DEF F, c
<1> DEFINE h == CHOOSE h : Direct(h)
<1>7. Direct([t \in SUBSET S |-> g[t]])
  BY <1>5, <1>6
<1>8. Direct(h)
  BY <1>7
<1>9. deposit_vests(a) = h[S]
  BY DEF deposit_vests, FoldSet, MapThenFoldSet, Chosen
<1> HIDE DEF h
<1>10. h[S] = g[S]
  <2> DEFINE Bad == {t \in SUBSET S : h[t] # g[t]}
  <2>1. SUFFICES ASSUME Bad # {} PROVE FALSE
    OBVIOUS
  <2>2. \A t \in Bad : IsFiniteSet(t)
    BY FS_Subset DEF Payable
  <2>3. PICK t \in Bad : \A y \in Bad : y \subseteq t => y = t
    <3> HIDE DEF Bad
    <3> QED BY <2>1, <2>2, MinimalSet
  <2>4. t # {}
    BY <1>8, <1>5
  <2>5. Chosen(t) \in t /\ g[t] = deposit_along(a, Chosen(t), g[t \ {Chosen(t)}])
    BY <1>6, <2>4
  <2>6. h[t] = deposit_along(a, Chosen(t), h[t \ {Chosen(t)}])
    BY <1>8, <2>4
  <2>7. h[t \ {Chosen(t)}] = g[t \ {Chosen(t)}]
    BY <2>3, <2>5
  <2> QED
    BY <2>5, <2>6, <2>7
<1> QED
  BY <1>4, <1>5, <1>6, <1>9, <1>10 DEF PaysInTurn
(* Deposits along the routes of R, as sums over a fixed function.          *)
LEMMA DepositsAre ==
  ASSUME NEW a, NEW S, Payable(a, S), NEW R \in SUBSET S
  PROVE  /\ Numeric([r \in S |-> deposit(a, r)], R)
         /\ deposits(a, R) = SumFunctionOnSet([r \in S |-> deposit(a, r)], R)
         /\ deposits(a, R) \in Nat
<1> DEFINE D == [r \in S |-> deposit(a, r)]
           E == [r \in R |-> deposit(a, r)]
<1>1. IsFiniteSet(R) /\ \A r \in R : D[r] \in Nat /\ E[r] = D[r]
  BY FS_Subset DEF Payable
<1>2. deposits(a, R) = SumFunctionOnSet(E, R)
  BY DEF deposits, SumFunction
<1> HIDE DEF D, E
<1>3. Numeric(D, R) /\ SumFunctionOnSet(D, R) \in Nat
  BY <1>1, SumNat
<1>4. SumFunctionOnSet(E, R) = SumFunctionOnSet(D, R)
  BY <1>1, <1>3, SumEqual
<1> QED
  BY <1>2, <1>3, <1>4 DEF D

(* What the first pass over the routes makes of the books.                 *)
LEMMA DepositsCounted ==
  ASSUME NEW a, NEW S, Payable(a, S), AutoVesting(a) = S, VotingInv
  PROVE  LET b == deposit_vests(a)
         IN  /\ b \in SoundBooks /\ b.total = book.total
             /\ \A x \in Accounts : b.vesting[x] >= book.vesting[x]
             /\ SumFunctionOnSet(b.vesting, Accounts) = book.total + deposits(a, S)
<1> DEFINE D == [r \in S |-> deposit(a, r)]
           Paid(b, R) == /\ b \in SoundBooks /\ b.total = book.total
                         /\ \A x \in Accounts : b.vesting[x] >= book.vesting[x]
                         /\ SumFunctionOnSet(b.vesting, Accounts)
                              = book.total + SumFunctionOnSet(D, R)
<1>0. /\ IsFiniteSet(Accounts) /\ IsFiniteSet(S)
      /\ \A r \in S : r.to \in Accounts /\ deposit(a, r) \in Nat /\ D[r] = deposit(a, r)
  BY VotingAssumption DEF Payable
<1>1. /\ Sound(book, ballots) /\ book.vesting \in [Accounts -> Nat] /\ IsBook(book)
      /\ book.total = SumFunctionOnSet(book.vesting, Accounts)
  BY DEF VotingInv, Sound, Shares, SumFunction
<1>2. book \in SoundBooks
  BY <1>1, BookIsAny DEF SoundBooks
<1>3. PICK g : PaysInTurn(g, a, S)
  BY <1>2, DepositsFold
<1>4. \A R \in SUBSET S : Numeric(D, R) /\ deposits(a, R) = SumFunctionOnSet(D, R)
  BY DepositsAre
<1> HIDE DEF D
<1>5. Paid(book, {})
  <2>1. SumFunctionOnSet(D, {}) = 0 /\ book.total \in Int
    BY <1>1, SumEmpty DEF IsBook
  <2> QED
    BY <1>1, <1>2, <2>1
<1>6. ASSUME NEW b, NEW t \in SUBSET S, NEW r \in t, Paid(b, t \ {r})
      PROVE  Paid(deposit_along(a, r, b), t)
  <2> DEFINE c == deposit_along(a, r, b)
             n == deposit(a, r)
             f == b.vesting
             h == c.vesting
             x == r.to
  <2>1. r \in S /\ x \in Accounts /\ n \in Nat /\ D[r] = n /\ b \in SoundBooks
        /\ b.total = book.total
    BY <1>0, <1>6
  <2>2. c \in SoundBooks /\ c.total = b.total /\ h = [f EXCEPT ![x] = @ + n]
    BY <2>1, DepositedAlong
  <2>3. f \in [Accounts -> Nat] /\ h \in [Accounts -> Nat]
    BY <2>1, <2>2 DEF SoundBooks
  <2> HIDE DEF c, n, x, f, h
  <2>4. h[x] = f[x] + n /\ \A y \in Accounts \ {x} : h[y] = f[y]
    BY <2>1, <2>2, <2>3
  <2>5. Numeric(f, Accounts) /\ Numeric(h, Accounts) /\ f[x] \in Int /\ x \in Accounts
    BY <1>0, <2>1, <2>3 DEF Numeric
  <2>6. SumFunctionOnSet(h, Accounts) = SumFunctionOnSet(f, Accounts) + h[x] - f[x]
    BY <2>4, <2>5, SumChange
  <2>7. SumFunctionOnSet(f, Accounts) \in Int
    BY <2>5, SumInt
  <2>8. SumFunctionOnSet(D, t) = D[r] + SumFunctionOnSet(D, t \ {r})
    BY <1>4, SumRemove
  <2>9. SumFunctionOnSet(D, t \ {r}) \in Int
    BY <1>4, SumInt
  <2>10. SumFunctionOnSet(f, Accounts) = book.total + SumFunctionOnSet(D, t \ {r})
    BY <1>6 DEF f
  <2>11. book.total \in Int
    BY <1>1 DEF IsBook
  <2>12. SumFunctionOnSet(h, Accounts) = book.total + SumFunctionOnSet(D, t)
    BY <2>1, <2>4, <2>5, <2>6, <2>7, <2>8, <2>9, <2>10, <2>11
  <2>13. \A y \in Accounts : h[y] >= book.vesting[y]
    <3>1. \A y \in Accounts : f[y] >= book.vesting[y]
      BY <1>6 DEF f
    <3>2. \A y \in Accounts : h[y] >= f[y] /\ f[y] \in Int /\ h[y] \in Int
      BY <2>1, <2>3, <2>4
    <3> QED
      BY <1>1, <3>1, <3>2
  <2> QED
    BY <2>1, <2>2, <2>12, <2>13 DEF c, h
<1> HIDE DEF Paid
<1> DEFINE Bad == {t \in SUBSET S : ~Paid(g[t], t)}
<1>7. Bad = {}
  <2> SUFFICES ASSUME Bad # {} PROVE FALSE
    OBVIOUS
  <2>1. \A t \in Bad : IsFiniteSet(t)
    BY <1>0, FS_Subset
  <2>2. PICK t \in Bad : \A y \in Bad : y \subseteq t => y = t
    <3> HIDE DEF Bad
    <3> QED BY <2>1, MinimalSet
  <2>3. t # {}
    BY <1>3, <1>5 DEF PaysInTurn
  <2>4. Chosen(t) \in t
    BY <2>3 DEF Chosen
  <2>5. Paid(g[t \ {Chosen(t)}], t \ {Chosen(t)})
    BY <2>2, <2>4
  <2>6. g[t] = deposit_along(a, Chosen(t), g[t \ {Chosen(t)}])
    BY <1>3, <2>3 DEF PaysInTurn
  <2>7. Paid(g[t], t)
    BY <1>6, <2>4, <2>5, <2>6
  <2> QED
    BY <2>7
<1>8. Paid(g[S], S) /\ deposits(a, S) = SumFunctionOnSet(D, S)
  BY <1>4, <1>7
<1> QED
  BY <1>3, <1>8 DEF Paid, PaysInTurn
-----------------------------------------------------------------------------
(* Vesting: withdrawals                                                    *)

(* The withdrawal l of an account with m shares: parts of the rate have    *)
(* left, and the rest is still there.                                      *)
Running(l, m) ==
  /\ l.rate > 0 /\ l.withdrawn < l.to_withdraw /\ m >= l.to_withdraw - l.withdrawn
  /\ \E k \in Nat : l.withdrawn = k * l.rate

OnCourse(l, m) == IF l.due THEN Running(l, m) ELSE l.withdrawn = l.to_withdraw

WithdrawalsInv == \A a \in Accounts : OnCourse(leaving[a], book.vesting[a])

RoutesInv == routes \subseteq Route /\ IsFiniteSet(routes)

VestingInvariant ==
  VotingInv /\ leaving \in [Accounts -> Leaving] /\ RoutesInv /\ WithdrawalsInv

(* More shares do not disturb a withdrawal.                                *)
LEMMA MoreIsFine ==
  ASSUME NEW l \in Leaving, NEW m \in Nat, NEW n \in Nat, m <= n, OnCourse(l, m)
  PROVE  OnCourse(l, n)
BY DEF OnCourse, Running, Leaving

(* The smaller of two numbers.                                             *)
LEMMA MinOfTwo ==
  ASSUME NEW x \in Int, NEW y \in Int, y <= x
  PROVE  Min({x, y}) = y
<1>1. \A z \in {x, y} : (\A u \in {x, y} : z <= u) => z = y
  OBVIOUS
<1>2. y \in {x, y} /\ \A u \in {x, y} : y <= u
  OBVIOUS
<1> QED
  BY <1>1, <1>2 DEF Min

(* The larger of two numbers.                                              *)
LEMMA MaxOfTwo ==
  ASSUME NEW x \in Int, NEW y \in Int
  PROVE  Max({x, y}) \in Int /\ Max({x, y}) >= y
<1>1. \E z \in {x, y} : \A u \in {x, y} : z >= u
  OBVIOUS
<1> QED
  BY <1>1 DEF Max

(* What leaves is the rate, or what is left when that is less.             *)
LEMMA ToWithdraw ==
  ASSUME VestingInvariant, NEW a \in Accounts, leaving[a].due
  PROVE  LET l == leaving[a]
             n == to_withdraw(a)
         IN  /\ n \in Nat \ {0} /\ n <= book.vesting[a]
             /\ n <= l.to_withdraw - l.withdrawn
             /\ n < l.to_withdraw - l.withdrawn => n = l.rate
<1> DEFINE l == leaving[a]
           m == book.vesting[a]
           rest == l.to_withdraw - l.withdrawn
           part == IF rest < l.rate THEN l.to_withdraw % l.rate ELSE l.rate
<1>1. l \in Leaving /\ m \in Nat /\ Running(l, m)
  BY DEF VestingInvariant, WithdrawalsInv, OnCourse, VotingInv, Shares
<1>2. /\ l.rate \in Nat \ {0} /\ l.to_withdraw \in Nat /\ l.withdrawn \in Nat
      /\ rest \in Nat \ {0} /\ m >= rest /\ \E k \in Nat : l.withdrawn = k * l.rate
  BY <1>1 DEF Running, Leaving
<1>3. rest < l.rate => l.to_withdraw % l.rate = rest
  <2> SUFFICES ASSUME rest < l.rate PROVE l.to_withdraw % l.rate = rest
    OBVIOUS
  <2>1. PICK k \in Nat : l.withdrawn = k * l.rate
    BY <1>2
  <2>2. l.to_withdraw - l.withdrawn \in 0 .. l.rate - 1
    BY <1>2
  <2> QED
    BY <1>2, <2>1, <2>2, LastPart
<1>4. part \in Nat \ {0} /\ part <= rest /\ (part < rest => part = l.rate)
  BY <1>2, <1>3
<1>5. to_withdraw(a) = Min({m, part})
  BY DEF to_withdraw
<1> HIDE DEF part, rest
<1>6. part <= m
  BY <1>1, <1>2, <1>4
<1>7. Min({m, part}) = part
  BY <1>1, <1>4, <1>6, MinOfTwo
<1>8. to_withdraw(a) = part
  BY <1>5, <1>7
<1> QED
  BY <1>4, <1>6, <1>8 DEF rest

(* Every route takes a natural number of shares.                           *)
LEMMA RoutesPayable ==
  ASSUME VestingInvariant, NEW a \in Accounts, leaving[a].due
  PROVE  Payable(a, AutoVesting(a))
<1>1. AutoVesting(a) \subseteq routes /\ routes \subseteq Route /\ IsFiniteSet(routes)
  BY DEF AutoVesting, RoutesFrom, VestingInvariant, RoutesInv
<1>2. ASSUME NEW r \in AutoVesting(a) PROVE r.to \in Accounts /\ deposit(a, r) \in Nat
  <2>1. r.to \in Accounts /\ r.percent \in Nat
    BY <1>1, VestingAssumption DEF Route
  <2>2. to_withdraw(a) \in Nat
    BY ToWithdraw
  <2>3. to_withdraw(a) * r.percent \in Nat
    BY <2>1, <2>2
  <2>4. deposit(a, r) \in Nat
    BY <2>3, VestingAssumption DEF deposit
  <2> QED
    BY <2>1, <2>4
<1> QED
  BY <1>1, <1>2, FS_Subset DEF Payable

(* A part leaves: the books are sound, and the account has lost that part  *)
(* and nothing else.                                                       *)
LEMMA PartLeaves ==
  ASSUME VestingInvariant, NEW a \in Accounts, leaving[a].due
  PROVE  LET e == withdrawn_book(a)
         IN  /\ Sound(e, ballots) /\ Shares(e)
             /\ e.vesting[a] >= book.vesting[a] - to_withdraw(a)
             /\ \A x \in Accounts \ {a} : e.vesting[x] >= book.vesting[x]
<1> DEFINE n == to_withdraw(a)
           S == AutoVesting(a)
           dep == deposits(a, S)
           b == deposit_vests(a)
           ok == b.ok /\ n >= deposits(a, RoutesFrom(a))
           total == b.total - (n - dep)
           c == [b EXCEPT !.vesting[a] = @ - n, !.total = total, !.ok = ok]
           e == adjust_proxied_by_shares(c, ballots, a, - n)
           g == [b.vesting EXCEPT ![a] = @ + (- n)]
<1>0. IsFiniteSet(Accounts)
  BY VotingAssumption
<1>1. n \in Nat \ {0} /\ n <= book.vesting[a] /\ - n \in Int
  BY ToWithdraw
<1>2. VotingInv /\ Payable(a, S)
  BY RoutesPayable DEF VestingInvariant
<1>3. dep \in Nat
  BY <1>2, DepositsAre
<1>4. /\ b \in SoundBooks /\ b.total = book.total
      /\ \A x \in Accounts : b.vesting[x] >= book.vesting[x]
      /\ SumFunctionOnSet(b.vesting, Accounts) = book.total + dep
  BY <1>2, DepositsCounted
<1>5. withdrawn_book(a) = e
  BY <1>1 DEF withdrawn_book, deposited_as_vests
<1> HIDE DEF n, dep, b
<1>6. /\ IsBook(b) /\ Sound(b, ballots) /\ b.vesting \in [Accounts -> Nat]
      /\ book.vesting \in [Accounts -> Nat]
  BY <1>2, <1>4 DEF SoundBooks, Sound, VotingInv, Shares
<1>7. ok \in BOOLEAN
  OBVIOUS
<1>8. b.total \in Int /\ total \in Int
  BY <1>1, <1>3, <1>6 DEF IsBook
<1>9. /\ g \in [Accounts -> Nat] /\ g \in [Accounts -> Int] /\ g[a] = b.vesting[a] - n
      /\ \A x \in Accounts \ {a} : g[x] = b.vesting[x]
      /\ g = [b.vesting EXCEPT ![a] = @ - n]
  BY <1>1, <1>4, <1>6
<1>10. c = [b EXCEPT !.vesting = g, !.total = total, !.ok = ok]
  BY <1>6, <1>9 DEF IsBook
<1>11. SumFunctionOnSet(g, Accounts) = total /\ DOMAIN g = Accounts
  <2> DEFINE f == b.vesting
  <2>1. Numeric(f, Accounts) /\ Numeric(g, Accounts) /\ f[a] \in Int
    BY <1>0, <1>6, <1>9 DEF Numeric
  <2> HIDE DEF g, total
  <2>2. SumFunctionOnSet(g, Accounts) = SumFunctionOnSet(f, Accounts) + g[a] - f[a]
    BY <1>9, <2>1, SumChange
  <2> QED
    BY <1>1, <1>3, <1>4, <1>8, <1>9, <2>1, <2>2 DEF total
<1> HIDE DEF g, total, ok, c
<1>12. c = [vesting |-> g, total |-> total, proxied |-> b.proxied, votes |-> b.votes,
            sp_votes |-> b.sp_votes, ok |-> ok]
  BY <1>6, <1>10 DEF IsBook
<1>13. IsBook(c) /\ c.proxied = b.proxied /\ c.votes = b.votes /\ c.vesting = g
       /\ c.total = total
  BY <1>6, <1>7, <1>8, <1>9, <1>12 DEF IsBook
<1>14. MoreShares(b, c, a, - n)
  BY <1>13 DEF MoreShares, g
<1>15. Sound(e, ballots) /\ e.vesting = c.vesting /\ e.total = c.total
  BY ONLY <1>1, <1>6, <1>14, a \in Accounts, SharesFollowed
<1> HIDE DEF e
<1>16. Shares(e)
  BY <1>9, <1>11, <1>13, <1>15 DEF Shares, SumFunction
<1>17. \A x \in Accounts \ {a} : e.vesting[x] >= book.vesting[x]
  BY <1>4, <1>9, <1>13, <1>15
<1>18. e.vesting[a] >= book.vesting[a] - n
  BY <1>1, <1>4, <1>6, <1>9, <1>13, <1>15
<1> QED
  BY <1>5, <1>15, <1>16, <1>17, <1>18 DEF n
-----------------------------------------------------------------------------
(* Vesting: the invariant is inductive                                     *)

(* Voting and new shares take no shares away.                              *)
LEMMA VotingKeepsShares ==
  ASSUME VotingInv, [Next]_vars
  PROVE  \A x \in Accounts : book'.vesting[x] >= book.vesting[x]
<1>1. /\ Sound(book, ballots) /\ IsBook(book) /\ book.vesting \in [Accounts -> Nat]
  BY DEF VotingInv, Sound, Shares
<1>2. book'.vesting = book.vesting => \A x \in Accounts : book'.vesting[x] >= book.vesting[x]
  BY <1>1
<1>3. ASSUME NEW a \in Accounts, NEW w \in Witnesses, NEW approve,
             account_witness_vote(a, w, approve)
      PROVE  book'.vesting = book.vesting
  <2>1. witness_vote_weight(book, a) \in Int /\ - witness_vote_weight(book, a) \in Int
    BY <1>1, WeightOf
  <2>2. \A k \in Int : adjust_witness_vote(book, w, k).vesting = book.vesting
    BY <1>1, VoteAdjusted DEF SameShares
  <2> QED
    BY <1>3, <2>1, <2>2 DEF account_witness_vote, Accept
<1>4. ASSUME NEW a \in Accounts, NEW p \in Platforms, NEW approve,
             account_streaming_platform_vote(a, p, approve)
      PROVE  book'.vesting = book.vesting
  <2>1. witness_vote_weight(book, a) \in Int /\ - witness_vote_weight(book, a) \in Int
    BY <1>1, WeightOf
  <2>2. \A k \in Int : adjust_streaming_platform_vote(book, p, k).vesting = book.vesting
    BY <1>1, PlatformVoteAdjusted DEF SameShares
  <2> QED
    BY <1>4, <2>1, <2>2 DEF account_streaming_platform_vote, Accept
<1>5. ASSUME NEW a \in Accounts, NEW p \in Accounts \cup {Self}, account_witness_proxy(a, p)
      PROVE  book'.vesting = book.vesting
  <2> DEFINE delta == brought(book, a)
             taken == adjust_proxied_witness_votes(book, ballots, a, negated(delta))
             c == adjust_proxied_witness_votes(taken, Moved(ballots, a, p), a, delta)
  <2>1. \/ p # Self /\ p \in Accounts /\ p # a /\ proxy_chain_ok(ballots, a, p) /\ book' = c
        \/ p = Self /\ ballots.proxy[a] # Self /\ book' = taken
    BY <1>5 DEF account_witness_proxy, Accept, Moved
  <2>2. p \in Accounts /\ p # a /\ proxy_chain_ok(ballots, a, p) => c.vesting = book.vesting
    BY <1>1, ProxyTaken
  <2>3. ballots.proxy[a] # Self => taken.vesting = book.vesting
    BY <1>1, ProxyCut
  <2> HIDE DEF taken, c
  <2> QED
    BY <2>1, <2>2, <2>3
<1>6. ASSUME NEW a \in Accounts, NEW n \in 1 .. MaxShares, create_vesting(a, n)
      PROVE  \A x \in Accounts : book'.vesting[x] >= book.vesting[x]
  <2> DEFINE b == [book EXCEPT !.vesting[a] = @ + n, !.total = @ + n]
             g == [book.vesting EXCEPT ![a] = @ + n]
  <2>0. n \in Nat /\ n \in Int
    BY VotingAssumption
  <2>1. book' = adjust_proxied_by_shares(b, ballots, a, n)
    BY <1>6 DEF create_vesting, Accept
  <2>2. b.vesting = g /\ b.proxied = book.proxied /\ b.votes = book.votes
    BY <1>1 DEF IsBook
  <2>3. g \in [Accounts -> Int] /\ \A x \in Accounts : g[x] >= book.vesting[x]
    BY <1>1, <2>0
  <2>4. IsBook(b)
    <3> DEFINE m == book.total + n
    <3>1. m \in Int
      BY <1>1, <2>0 DEF IsBook
    <3>2. b = [book EXCEPT !.vesting = g, !.total = m]
      BY <1>1 DEF IsBook
    <3> HIDE DEF b, g, m
    <3>3. b = [vesting |-> g, total |-> m, proxied |-> book.proxied, votes |-> book.votes,
               sp_votes |-> book.sp_votes, ok |-> book.ok]
      BY <1>1, <3>2 DEF IsBook
    <3> QED
      BY <1>1, <2>3, <3>1, <3>3 DEF IsBook
  <2>5. MoreShares(book, b, a, n)
    BY <2>2, <2>4 DEF MoreShares
  <2> HIDE DEF b
  <2>6. adjust_proxied_by_shares(b, ballots, a, n).vesting = b.vesting
    BY ONLY <1>1, <2>0, <2>5, a \in Accounts, SharesFollowed
  <2> QED
    BY <2>1, <2>2, <2>3, <2>6
<1>7. CASE UNCHANGED vars
  BY <1>2, <1>7 DEF vars
<1>8. CASE Next
  BY <1>2, <1>3, <1>4, <1>5, <1>6, <1>8 DEF Next
<1> QED
  BY <1>7, <1>8

(* Steps that change no withdrawal.                                        *)
LEMMA WithdrawalsKept ==
  ASSUME VestingInvariant, [Next]_vars, UNCHANGED <<leaving, routes>>
  PROVE  VestingInvariant'
<1>1. VotingInv /\ VotingInv'
  BY VotingInvNext DEF VestingInvariant
<1>2. /\ book.vesting \in [Accounts -> Nat] /\ book'.vesting \in [Accounts -> Nat]
      /\ \A x \in Accounts : book'.vesting[x] >= book.vesting[x]
  BY <1>1, VotingKeepsShares DEF VotingInv, Shares
<1>3. ASSUME NEW a \in Accounts PROVE OnCourse(leaving[a], book'.vesting[a])
  BY <1>2, MoreIsFine DEF VestingInvariant, WithdrawalsInv
<1>4. WithdrawalsInv'
  BY <1>3 DEF WithdrawalsInv, OnCourse, Running
<1> QED
  BY <1>1, <1>4 DEF VestingInvariant, RoutesInv, Route

(* An account asks for shares, or takes its request back.                  *)
LEMMA WithdrawVestingInv ==
  ASSUME VestingInvariant, NEW a \in Accounts, NEW n \in Amounts, withdraw_vesting(a, n)
  PROVE  VestingInvariant'
<1> DEFINE rate == Max({n \div Intervals, 1})
           l == IF n <= 0 THEN Idle
                ELSE [rate |-> rate, to_withdraw |-> n, withdrawn |-> 0, due |-> TRUE]
<1>1. /\ n \in Int /\ book.vesting \in [Accounts -> Nat] /\ book.vesting[a] >= n
      /\ leaving \in [Accounts -> Leaving]
      /\ UNCHANGED <<vars, routes>> /\ leaving' = [leaving EXCEPT ![a] = l]
  BY VestingAssumption DEF withdraw_vesting, VestingInvariant, VotingInv, Shares
<1>2. rate \in Int /\ rate >= 1
  BY <1>1, VestingAssumption, MaxOfTwo
<1> HIDE DEF rate
<1>3. l \in Leaving
  BY <1>1, <1>2 DEF Leaving, Idle
<1>4. OnCourse(l, book.vesting[a])
  <2>1. CASE n <= 0
    BY <2>1 DEF OnCourse, Idle
  <2>2. CASE n > 0
    <3>1. l = [rate |-> rate, to_withdraw |-> n, withdrawn |-> 0, due |-> TRUE]
      BY <1>1, <2>2
    <3>2. 0 \in Nat /\ l.withdrawn = 0 * l.rate
      BY <1>2, <3>1
    <3>3. /\ l.rate > 0 /\ l.withdrawn < l.to_withdraw
          /\ book.vesting[a] >= l.to_withdraw - l.withdrawn /\ l.due
      BY <1>1, <1>2, <2>2, <3>1
    <3> QED
      BY <3>2, <3>3 DEF OnCourse, Running
  <2> QED
    BY <1>1, <2>1, <2>2
<1> HIDE DEF l
<1>5. leaving' \in [Accounts -> Leaving]
  BY <1>1, <1>3
<1>6. book' = book /\ ballots' = ballots /\ routes' = routes
  BY <1>1 DEF vars
<1>7. VotingInv'
  BY <1>6, VotingInvOf DEF VestingInvariant, VotingInv
<1>8. \A x \in Accounts : OnCourse(leaving'[x], book'.vesting[x])
  BY <1>1, <1>4, <1>6 DEF VestingInvariant, WithdrawalsInv
<1>9. WithdrawalsInv'
  BY <1>8 DEF WithdrawalsInv, OnCourse, Running
<1>10. RoutesInv'
  BY <1>6 DEF VestingInvariant, RoutesInv, Route
<1> QED
  BY <1>5, <1>7, <1>9, <1>10 DEF VestingInvariant

(* A route is set, changed or removed.                                     *)
LEMMA SetRouteInv ==
  ASSUME VestingInvariant, NEW a \in Accounts, NEW to \in Accounts,
         NEW percent \in 0 .. Whole, NEW auto_vest \in BOOLEAN,
         set_withdraw_vesting_route(a, to, percent, auto_vest)
  PROVE  VestingInvariant'
<1> DEFINE old == {r \in RoutesFrom(a) : r.to = to}
           new == [from |-> a, to |-> to, percent |-> percent, auto_vest |-> auto_vest]
<1>1. /\ routes \subseteq Route /\ IsFiniteSet(routes)
      /\ \/ percent # 0 /\ routes' = routes \cup {new}
         \/ routes' = routes \ old
         \/ percent # 0 /\ routes' = (routes \ old) \cup {new}
      /\ book' = book /\ ballots' = ballots /\ leaving' = leaving
  BY DEF set_withdraw_vesting_route, VestingInvariant, RoutesInv, vars
<1>2. percent # 0 => new \in Route
  BY VestingAssumption DEF Route
<1> HIDE DEF old, new
<1>3. IsFiniteSet(routes \ old) /\ IsFiniteSet({new})
  BY <1>1, FS_Subset, FS_Singleton
<1>4. IsFiniteSet(routes \cup {new}) /\ IsFiniteSet((routes \ old) \cup {new})
  BY <1>1, <1>3, FS_Union
<1>5. routes' \subseteq Route /\ IsFiniteSet(routes')
  BY <1>1, <1>2, <1>3, <1>4
<1>6. VotingInv'
  BY <1>1, VotingInvOf DEF VestingInvariant, VotingInv
<1> QED
  BY <1>1, <1>5, <1>6 DEF VestingInvariant, RoutesInv, Route, WithdrawalsInv, OnCourse, Running

(* An account is due: a part leaves, and the withdrawal goes on or ends.   *)
LEMMA ProcessInv ==
  ASSUME VestingInvariant, NEW a \in Accounts, process_vesting_withdrawal(a)
  PROVE  VestingInvariant'
<1> DEFINE b == withdrawn_book(a)
           n == to_withdraw(a)
           l == leaving[a]
           l1 == [l EXCEPT !.withdrawn = @ + n]
           done == l1.withdrawn >= l1.to_withdraw \/ b.vesting[a] = 0
           l2 == IF done THEN [l1 EXCEPT !.rate = 0, !.due = FALSE] ELSE l1
           m == book.vesting[a]
<1>1. /\ l.due /\ Accept(b, ballots) /\ leaving' = [leaving EXCEPT ![a] = l2]
      /\ routes' = routes /\ book' = b
  BY DEF process_vesting_withdrawal, Accept
<1>2. /\ Sound(b, ballots) /\ Shares(b) /\ b.vesting[a] >= m - n
      /\ \A x \in Accounts \ {a} : b.vesting[x] >= book.vesting[x]
  BY <1>1, PartLeaves
<1>3. /\ n \in Nat \ {0} /\ n <= m /\ n <= l.to_withdraw - l.withdrawn
      /\ n < l.to_withdraw - l.withdrawn => n = l.rate
  BY <1>1, ToWithdraw
<1>4. /\ l \in Leaving /\ leaving \in [Accounts -> Leaving] /\ Running(l, m)
      /\ book.vesting \in [Accounts -> Nat] /\ m \in Nat
  BY <1>1 DEF VestingInvariant, WithdrawalsInv, OnCourse, VotingInv, Shares
<1>5. b.vesting \in [Accounts -> Nat]
  BY <1>2 DEF Shares
<1> HIDE DEF b, n
<1>6. VotingInv'
  BY <1>1, <1>2, Accepted
<1> DEFINE w == l.withdrawn + n
<1>7. /\ l.rate \in Nat \ {0} /\ l.to_withdraw \in Nat /\ l.withdrawn \in Nat /\ w \in Nat
      /\ w <= l.to_withdraw /\ m >= l.to_withdraw - l.withdrawn
      /\ w < l.to_withdraw => n = l.rate
      /\ \E k \in Nat : l.withdrawn = k * l.rate
  BY <1>3, <1>4 DEF Running, Leaving
<1> DEFINE yes == l.due
           no == FALSE
<1>8. /\ l1 = [rate |-> l.rate, to_withdraw |-> l.to_withdraw, withdrawn |-> w, due |-> yes]
      /\ yes /\ ~no /\ yes \in BOOLEAN /\ no \in BOOLEAN
  <2>1. yes /\ yes \in BOOLEAN
    BY <1>1, <1>4 DEF Leaving
  <2> HIDE DEF yes
  <2>2. l = [rate |-> l.rate, to_withdraw |-> l.to_withdraw, withdrawn |-> l.withdrawn,
             due |-> yes]
    BY <1>4 DEF Leaving, yes
  <2>3. l1 = [l EXCEPT !.withdrawn = w]
    OBVIOUS
  <2> HIDE DEF l1, w, l
  <2>4. l1 = [rate |-> l.rate, to_withdraw |-> l.to_withdraw, withdrawn |-> w, due |-> yes]
    BY <2>2, <2>3
  <2> QED
    BY <2>1, <2>4
<1>9. b.vesting[a] \in Nat /\ b.vesting[a] >= l.to_withdraw - w
  BY <1>2, <1>3, <1>4, <1>5, <1>7
<1>16. l2 = IF done THEN [l1 EXCEPT !.rate = 0, !.due = no] ELSE l1
  OBVIOUS
<1> HIDE DEF w, l1, yes, no
<1>10. done <=> w = l.to_withdraw
  BY <1>7, <1>8, <1>9
<1>11. l2 \in Leaving /\ OnCourse(l2, b.vesting[a])
  <2>1. CASE w = l.to_withdraw
    <3>0. l2 = [l1 EXCEPT !.rate = 0, !.due = no]
      BY <1>10, <1>16, <2>1
    <3> HIDE DEF l2, l
    <3>1. l2 = [rate |-> 0, to_withdraw |-> l.to_withdraw, withdrawn |-> w, due |-> no]
      BY <1>8, <3>0
    <3>2. l2.due = no /\ l2.withdrawn = l2.to_withdraw
      BY <2>1, <3>1
    <3>3. l2 \in Leaving
      BY <1>7, <1>8, <3>1 DEF Leaving
    <3> QED
      BY <1>8, <3>2, <3>3 DEF OnCourse
  <2>2. CASE w # l.to_withdraw
    <3>1. l2 = l1
      BY <1>10, <2>2
    <3>2. PICK k \in Nat : l.withdrawn = k * l.rate
      BY <1>7
    <3>3. n = l.rate /\ w < l.to_withdraw
      <4>1. /\ w \in Nat /\ l.to_withdraw \in Nat /\ w <= l.to_withdraw
            /\ w < l.to_withdraw => n = l.rate
        BY <1>7
      <4> HIDE DEF l
      <4>2. w < l.to_withdraw
        BY ONLY <4>1, <2>2
      <4> QED
        BY ONLY <4>1, <4>2
    <3>4. w = (k + 1) * l.rate /\ k + 1 \in Nat
      BY <1>7, <3>2, <3>3 DEF w
    <3>5. l2 \in Leaving
      BY <1>7, <1>8, <3>1 DEF Leaving
    <3>6. Running(l1, b.vesting[a])
      <4>1. \E i \in Nat : l1.withdrawn = i * l1.rate
        BY <1>8, <3>4
      <4>2. l1.rate > 0 /\ l1.withdrawn < l1.to_withdraw
            /\ b.vesting[a] >= l1.to_withdraw - l1.withdrawn
        BY <1>7, <1>8, <1>9, <3>3
      <4> QED
        BY <4>1, <4>2 DEF Running
    <3> QED
      BY <1>8, <3>1, <3>5, <3>6 DEF OnCourse
  <2> QED
    BY <2>1, <2>2
<1> HIDE DEF l2
<1>12. leaving' \in [Accounts -> Leaving]
  BY <1>1, <1>4, <1>11
<1>13. ASSUME NEW x \in Accounts PROVE OnCourse(leaving'[x], book'.vesting[x])
  <2>1. CASE x = a
    BY <1>1, <1>4, <1>11, <2>1
  <2>2. CASE x # a
    <3>1. leaving'[x] = leaving[x] /\ leaving[x] \in Leaving
      BY <1>1, <1>4, <2>2
    <3>2. book.vesting[x] \in Nat /\ b.vesting[x] \in Nat /\ book.vesting[x] <= b.vesting[x]
      BY <1>2, <1>4, <1>5, <2>2
    <3>3. OnCourse(leaving[x], book.vesting[x])
      BY DEF VestingInvariant, WithdrawalsInv
    <3> QED
      BY <1>1, <3>1, <3>2, <3>3, MoreIsFine
  <2> QED
    BY <2>1, <2>2
<1>14. WithdrawalsInv'
  BY <1>13 DEF WithdrawalsInv, OnCourse, Running
<1>15. RoutesInv'
  BY <1>1 DEF VestingInvariant, RoutesInv, Route
<1> QED
  BY <1>6, <1>12, <1>14, <1>15 DEF VestingInvariant

(* The invariant is preserved by every step.                               *)
LEMMA VestingNextInv ==
  ASSUME VestingInvariant, [VestingNext]_vestingVars
  PROVE  VestingInvariant'
<1>1. CASE UNCHANGED vestingVars
  BY <1>1, WithdrawalsKept DEF vestingVars
<1>2. CASE Next /\ UNCHANGED <<leaving, routes>>
  BY <1>2, WithdrawalsKept
<1>3. CASE \E a \in Accounts, n \in Amounts : withdraw_vesting(a, n)
  BY <1>3, WithdrawVestingInv
<1>4. CASE \E a, to \in Accounts, percent \in 0 .. Whole, auto_vest \in BOOLEAN :
             set_withdraw_vesting_route(a, to, percent, auto_vest)
  BY <1>4, SetRouteInv
<1>5. CASE \E a \in Accounts : process_vesting_withdrawal(a)
  BY <1>5, ProcessInv
<1> QED
  BY <1>1, <1>2, <1>3, <1>4, <1>5 DEF VestingNext

(* Initially nothing is leaving.                                           *)
LEMMA VestingInitInv == VestingInit => VestingInvariant
<1> SUFFICES ASSUME VestingInit PROVE VestingInvariant
  OBVIOUS
<1>1. VotingInv
  BY VotingInvInit DEF VestingInit
<1>2. leaving \in [Accounts -> Leaving] /\ WithdrawalsInv
  BY DEF VestingInit, Leaving, Idle, WithdrawalsInv, OnCourse
<1>3. RoutesInv
  BY FS_EmptySet DEF VestingInit, RoutesInv
<1> QED
  BY <1>1, <1>2, <1>3 DEF VestingInvariant

-----------------------------------------------------------------------------
(* Vesting: the theorems                                                   *)

(* Type correctness: withdrawals take no account and no tally below zero.  *)
THEOREM VestingTypeCorrect == VestingSpec => []VestingTypeOK
<1>1. VestingInit => VestingInvariant
  BY VestingInitInv
<1>2. VestingInvariant /\ [VestingNext]_vestingVars => VestingInvariant'
  BY VestingNextInv
<1>3. VestingInvariant => VestingTypeOK
  BY InvTypeOK DEF VestingInvariant, RoutesInv, VestingTypeOK
<1> QED
  BY <1>1, <1>2, <1>3, PTL DEF VestingSpec

(* process_vesting_withdrawals pays exactly what was asked for, in parts   *)
(* of any rate, whatever the routes and whoever sends shares meanwhile.    *)
THEOREM WithdrawalsAreExact == VestingSpec => []WithdrawalExact
<1>1. VestingInit => VestingInvariant
  BY VestingInitInv
<1>2. VestingInvariant /\ [VestingNext]_vestingVars => VestingInvariant'
  BY VestingNextInv
<1>3. VestingInvariant => WithdrawalExact
  BY DEF VestingInvariant, WithdrawalsInv, OnCourse, Running, WithdrawalExact
<1> QED
  BY <1>1, <1>2, <1>3, PTL DEF VestingSpec

(* Shares that leave, or move along a route, take their votes with them.   *)
THEOREM WithdrawalsKeepVotesExact == VestingSpec => []WitnessVotesExact
<1>1. VestingInit => VestingInvariant
  BY VestingInitInv
<1>2. VestingInvariant /\ [VestingNext]_vestingVars => VestingInvariant'
  BY VestingNextInv
<1>3. VestingInvariant => WitnessVotesExact
  BY InvTallies DEF VestingInvariant
<1> QED
  BY <1>1, <1>2, <1>3, PTL DEF VestingSpec

(* And every share is still counted once, as validate_invariants asserts.  *)
THEOREM WithdrawalsKeepSharesCounted == VestingSpec => []EveryShareCountedOnce
<1>1. VestingInit => VestingInvariant
  BY VestingInitInv
<1>2. VestingInvariant /\ [VestingNext]_vestingVars => VestingInvariant'
  BY VestingNextInv
<1>3. VestingInvariant => EveryShareCountedOnce
  BY InvTallies DEF VestingInvariant
<1> QED
  BY <1>1, <1>2, <1>3, PTL DEF VestingSpec
=============================================================================
