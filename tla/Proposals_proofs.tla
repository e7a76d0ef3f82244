-------------------------- MODULE Proposals_proofs --------------------------
(***************************************************************************)
(* Proofs about proposed transactions, for any accounts, authorities,      *)
(* operations and numbers of proposals.  What authorises an execution is   *)
(* left open: the theorems hold whatever is_authorized_to_execute answers. *)
(***************************************************************************)
EXTENDS Proposals, FoldTheorems, TLAPS

Ids == 1 .. MaxProposals

-----------------------------------------------------------------------------
(* Trying operations                                                       *)

(* The fields of a world.                                                  *)
LEMMA WorldFields ==
  ASSUME NEW w \in World
  PROVE  /\ w.funds \in [Accounts -> 0 .. MaxFunds]
         /\ w.active \in [Accounts -> Authority] /\ w.owner \in [Accounts -> Authority]
         /\ w.manage_master \in [Contents -> Authority]
         /\ w.applied \in [Ids -> Nat]
         /\ w = [funds |-> w.funds, active |-> w.active, owner |-> w.owner,
                 manage_master |-> w.manage_master, applied |-> w.applied]
BY DEF World, Ids

(* And a world made of such fields.                                        *)
LEMMA WorldOf ==
  ASSUME NEW f \in [Accounts -> 0 .. MaxFunds],
         NEW a \in [Accounts -> Authority], NEW o \in [Accounts -> Authority],
         NEW m \in [Contents -> Authority], NEW n \in [Ids -> Nat]
  PROVE  [funds |-> f, active |-> a, owner |-> o, manage_master |-> m, applied |-> n] \in World
BY DEF World, Ids

(* An operation that can be applied leaves a world, and no mark on the     *)
(* proposals.                                                              *)
LEMMA ApplyKeepsWorld ==
  ASSUME NEW w \in World, NEW op \in Operation, CanApply(w, op)
  PROVE  apply_operation(w, op) \in World /\ apply_operation(w, op).applied = w.applied
<1> DEFINE v == apply_operation(w, op)
<1>0. /\ w.funds \in [Accounts -> 0 .. MaxFunds]
      /\ w.active \in [Accounts -> Authority] /\ w.owner \in [Accounts -> Authority]
      /\ w.manage_master \in [Contents -> Authority]
      /\ w.applied \in [Ids -> Nat]
      /\ w = [funds |-> w.funds, active |-> w.active, owner |-> w.owner,
              manage_master |-> w.manage_master, applied |-> w.applied]
  BY WorldFields
<1>1. CASE op.kind = "transfer"
  <2> DEFINE f == [w.funds EXCEPT ![op.who] = @ - 1]
  <2>1. op.who \in Accounts
    BY <1>1 DEF Operation
  <2>2. w.funds[op.who] - 1 \in 0 .. MaxFunds
    BY <1>0, <1>1, <2>1, ProposalAssumption DEF CanApply
  <2>3. f \in [Accounts -> 0 .. MaxFunds]
    BY <1>0, <2>1, <2>2
  <2>4. v = [w EXCEPT !.funds = f]
    BY <1>1 DEF apply_operation
  <2> HIDE DEF f, v
  <2>5. v = [funds |-> f, active |-> w.active, owner |-> w.owner,
             manage_master |-> w.manage_master, applied |-> w.applied]
    BY <1>0, <2>4
  <2> QED
    BY <1>0, <2>3, <2>5, WorldOf DEF v
<1>2. CASE op.kind = "friendship"
  BY <1>2 DEF apply_operation
<1>3. CASE op.kind = "update_active"
  <2> DEFINE f == [w.active EXCEPT ![op.who] = op.new]
  <2>1. op.who \in Accounts /\ op.new \in Authority
    BY <1>3 DEF Operation
  <2>2. f \in [Accounts -> Authority]
    BY <1>0, <2>1
  <2>3. v = [w EXCEPT !.active = f]
    BY <1>3 DEF apply_operation
  <2> HIDE DEF f, v
  <2>4. v = [funds |-> w.funds, active |-> f, owner |-> w.owner,
             manage_master |-> w.manage_master, applied |-> w.applied]
    BY <1>0, <2>3
  <2> QED
    BY <1>0, <2>2, <2>4, WorldOf DEF v
<1>4. CASE op.kind = "update_owner"
  <2> DEFINE f == [w.owner EXCEPT ![op.who] = op.new]
  <2>1. op.who \in Accounts /\ op.new \in Authority
    BY <1>4 DEF Operation
  <2>2. f \in [Accounts -> Authority]
    BY <1>0, <2>1
  <2>3. v = [w EXCEPT !.owner = f]
    BY <1>4 DEF apply_operation
  <2> HIDE DEF f, v
  <2>4. v = [funds |-> w.funds, active |-> w.active, owner |-> f,
             manage_master |-> w.manage_master, applied |-> w.applied]
    BY <1>0, <2>3
  <2> QED
    BY <1>0, <2>2, <2>4, WorldOf DEF v
<1>5. CASE op.kind = "content_update"
  <2> DEFINE f == [w.manage_master EXCEPT ![op.who] = op.new]
  <2>1. op.who \in Contents /\ op.new \in Authority
    BY <1>5 DEF Operation
  <2>2. f \in [Contents -> Authority]
    BY <1>0, <2>1
  <2>3. v = [w EXCEPT !.manage_master = f]
    BY <1>5 DEF apply_operation
  <2> HIDE DEF f, v
  <2>4. v = [funds |-> w.funds, active |-> w.active, owner |-> w.owner,
             manage_master |-> f, applied |-> w.applied]
    BY <1>0, <2>3
  <2> QED
    BY <1>0, <2>2, <2>4, WorldOf DEF v
<1> QED
  BY <1>1, <1>2, <1>3, <1>4, <1>5 DEF Operation

(* v is w after n operations of the proposal.                              *)
Executed(w, id, n, v) ==
  /\ v \in World
  /\ v.applied[id] = w.applied[id] + n
  /\ \A j \in Ids : j # id => v.applied[j] = w.applied[j]

(* What is known after n operations: all of them were applied, or one      *)
(* failed.                                                                 *)
Trial == [ok : BOOLEAN, world : World]
Tried(w, id, n, r) == r \in Trial /\ (r.ok => Executed(w, id, n, r.world))

(* One more operation.                                                     *)
LEMMA TryNextKeeps ==
  ASSUME NEW id \in Ids, NEW r \in Trial, NEW op \in Operation
  PROVE  /\ TryNext(id, r, op) \in Trial
         /\ \A w \in World : \A n \in Nat :
              Tried(w, id, n, r) => Tried(w, id, n + 1, TryNext(id, r, op))
<1> DEFINE v == apply_operation(r.world, op)
           u == [v EXCEPT !.applied[id] = @ + 1]
           t == TryNext(id, r, op)
<1>1. CASE r.ok /\ CanApply(r.world, op)
  <2>1. v \in World /\ v.applied = r.world.applied
    BY <1>1, ApplyKeepsWorld DEF Trial
  <2>2. u \in World /\ u.applied[id] = r.world.applied[id] + 1
        /\ \A j \in Ids : j # id => u.applied[j] = r.world.applied[j]
    <3> DEFINE f == [v.applied EXCEPT ![id] = @ + 1]
    <3>1. f \in [Ids -> Nat] /\ f[id] = r.world.applied[id] + 1
          /\ \A j \in Ids : j # id => f[j] = r.world.applied[j]
      BY <2>1, WorldFields
    <3>2. u = [v EXCEPT !.applied = f]
      OBVIOUS
    <3> HIDE DEF f, u, v
    <3>3. u = [funds |-> v.funds, active |-> v.active, owner |-> v.owner,
               manage_master |-> v.manage_master, applied |-> f]
      BY <2>1, <3>2, WorldFields
    <3> QED
      BY <2>1, <3>1, <3>3, WorldFields, WorldOf
  <2>3. t = [ok |-> TRUE, world |-> u]
    BY <1>1 DEF TryNext
  <2> HIDE DEF u, v
  <2>4. t \in Trial /\ t.ok = TRUE /\ t.world = u
    BY <2>2, <2>3 DEF Trial
  <2>5. ASSUME NEW w \in World, NEW n \in Nat, Tried(w, id, n, r)
        PROVE  Tried(w, id, n + 1, t)
    <3>1. /\ r.world.applied[id] = w.applied[id] + n
          /\ \A j \in Ids : j # id => r.world.applied[j] = w.applied[j]
      BY <1>1, <2>5 DEF Tried, Executed
    <3>2. w.applied[id] \in Nat
      BY DEF World, Ids
    <3>3. u.applied[id] = w.applied[id] + (n + 1)
      BY <2>2, <3>1, <3>2
    <3>4. Executed(w, id, n + 1, u)
      BY <2>2, <3>1, <3>3 DEF Executed
    <3> QED
      BY <2>4, <3>4 DEF Tried
  <2> QED
    BY <2>4, <2>5
<1>2. CASE ~(r.ok /\ CanApply(r.world, op))
  <2> DEFINE no == FALSE
  <2>1. t = [r EXCEPT !.ok = no]
    BY <1>2 DEF TryNext
  <2>2. no \in BOOLEAN /\ ~no
    OBVIOUS
  <2> HIDE DEF no, t
  <2>3. t = [ok |-> no, world |-> r.world] /\ r.world \in World
    BY <2>1 DEF Trial
  <2>4. t \in Trial /\ ~t.ok
    BY <2>2, <2>3 DEF Trial
  <2> QED
    BY <2>4 DEF Tried, t
<1> QED
  BY <1>1, <1>2

(* The trial of a sequence of operations.                                  *)
LEMMA TryResult ==
  ASSUME NEW w \in World, NEW id \in Ids, NEW ops \in Seq(Operation)
  PROVE  Tried(w, id, Len(ops), Try(w, id, ops))
<1> DEFINE N == Len(ops)
           D == 1 .. N
           b == [ok |-> TRUE, world |-> w]
           F == [i \in D |-> [r \in Trial |-> TryNext(id, r, ops[i])]]
           Folds(g) == g = [s \in SUBSET D |-> IF s = {} THEN b
                              ELSE TryNext(id, g[s \ {Max(s)}], ops[Max(s)])]
<1>1. N \in Nat /\ DOMAIN ops = D /\ \A i \in D : ops[i] \in Operation
  OBVIOUS
<1>2. b \in Trial /\ Tried(w, id, 0, b)
  <2> DEFINE yes == TRUE
  <2>1. yes \in BOOLEAN /\ b = [ok |-> yes, world |-> w]
    OBVIOUS
  <2> HIDE DEF yes, b
  <2>2. b \in Trial /\ b.world = w
    BY <2>1 DEF Trial
  <2>3. Executed(w, id, 0, w)
    <3>1. w.applied[id] \in Nat
      BY WorldFields
    <3> QED
      BY <3>1 DEF Executed
  <2> QED
    BY <2>2, <2>3 DEF Tried
<1>3. F \in [D -> [Trial -> Trial]]
  BY <1>1, TryNextKeeps
<1> HIDE DEF N, b
<1>4. PICK g : LeftFold(g, F, b, N, Trial)
  <2> HIDE DEF F
  <2> QED BY <1>1, <1>2, <1>3, LeftFoldExists, Zenon
<1>5. g \in [SUBSET D -> Trial] /\ g[{}] = b
  BY <1>4 DEF LeftFold
<1>6. ASSUME NEW t \in SUBSET D, t # {}
      PROVE  Max(t) \in t /\ g[t] = TryNext(id, g[t \ {Max(t)}], ops[Max(t)])
  <2>1. Max(t) \in t /\ g[t] = F[Max(t)][g[t \ {Max(t)}]]
    BY <1>4, <1>6 DEF LeftFold
  <2>2. g[t \ {Max(t)}] \in Trial /\ Max(t) \in D
    BY <1>5, <2>1
  <2> QED
    BY <2>1, <2>2
<1> HIDE DEF F, D
<1> DEFINE h == CHOOSE h : Folds(h)
<1>7. Folds([t \in SUBSET D |-> g[t]])
  BY <1>5, <1>6
<1>8. Folds(h)
  BY <1>7
<1>9. Try(w, id, ops) = h[D]
  BY <1>1 DEF Try, FoldLeft, MapThenFoldSet, b
<1> HIDE DEF h
<1> DEFINE P == {i \in Nat : i <= N => Tried(w, id, i, h[1 .. i])}
<1>10. 0 \in P
  <2>1. 1 .. 0 = {} /\ {} \in SUBSET D
    OBVIOUS
  <2>2. h[{}] = b
    BY <1>8, <2>1
  <2> QED
    BY <1>2, <2>1, <2>2
<1>11. ASSUME NEW i \in Nat, i \in P PROVE i + 1 \in P
  <2> SUFFICES ASSUME i + 1 <= N PROVE Tried(w, id, i + 1, h[1 .. i + 1])
    OBVIOUS
  <2>1. i <= N /\ i + 1 \in D /\ 1 .. i + 1 \in SUBSET D
    BY <1>1 DEF D
  <2>2. Tried(w, id, i, h[1 .. i])
    BY <1>11, <2>1
  <2>3. Max(1 .. i + 1) = i + 1 /\ (1 .. i + 1) \ {i + 1} = 1 .. i /\ 1 .. i + 1 # {}
    <3>1. Max(1 .. i + 1) = i + 1 /\ (1 .. i + 1) \ {i + 1} = 1 .. (i + 1) - 1
          /\ 1 .. i + 1 # {}
      BY MaxOfPrefix
    <3>2. (i + 1) - 1 = i
      OBVIOUS
    <3> QED
      BY <3>1, <3>2
  <2>4. h[1 .. i + 1] = TryNext(id, h[1 .. i], ops[i + 1])
    BY <1>8, <2>1, <2>3
  <2>5. h[1 .. i] \in Trial
    BY <2>2 DEF Tried
  <2> QED
    BY <1>1, <2>1, <2>2, <2>4, <2>5, TryNextKeeps
<1>12. \A i \in Nat : i \in P
  <2> HIDE DEF P
  <2> QED BY <1>10, <1>11, NaturalInduction
<1>13. Tried(w, id, N, h[1 .. N])
  BY <1>1, <1>12
<1> QED
  BY <1>9, <1>13 DEF D, N

(* push_proposal applies all of the operations or none.                    *)
LEMMA PushResult ==
  ASSUME NEW w \in World, NEW id \in Ids, NEW ops \in Seq(Operation)
  PROVE  LET r == push_proposal(w, id, ops)
         IN  /\ r.world \in World
             /\ r.ok => Executed(w, id, Len(ops), r.world)
             /\ ~r.ok => r.world = w
             /\ Try(w, id, ops).ok => r.ok
<1>1. Tried(w, id, Len(ops), Try(w, id, ops))
  BY TryResult
<1>2. CASE Try(w, id, ops).ok
  BY <1>1, <1>2 DEF push_proposal, Tried, Trial
<1>3. CASE ~Try(w, id, ops).ok
  BY <1>3 DEF push_proposal
<1> QED
  BY <1>2, <1>3

-----------------------------------------------------------------------------
(* Types of proposals                                                      *)

(* The accounts that have keys at the end of an authority are accounts.    *)
LEMMA CollectType ==
  ASSUME NEW w \in World, NEW auth \in Authority
  PROVE  collect(w, auth) \subseteq Accounts
<1> DEFINE M == MaxRecursion
           D == 0 .. M
           Up(S) == UNION {w.active[a].accounts : a \in S}
           Nests(f, m) ==
             f = [d \in 0 .. m |-> IF d = 0 THEN auth.accounts ELSE Up(f[d - 1])]
           P == {m \in Nat : \E f \in [0 .. m -> SUBSET Accounts] : Nests(f, m)}
<1>1. M \in Nat /\ auth.accounts \in SUBSET Accounts
  BY AuthorityAssumption DEF Authority
<1>2. \A S \in SUBSET Accounts : Up(S) \in SUBSET Accounts
  <2>1. w.active \in [Accounts -> Authority]
    BY WorldFields
  <2> QED
    BY <2>1 DEF Authority
<1> HIDE DEF Up
<1>3. 0 \in P
  <2> DEFINE f == [d \in 0 .. 0 |-> auth.accounts]
  <2>1. f \in [0 .. 0 -> SUBSET Accounts]
    BY <1>1
  <2>2. Nests(f, 0)
    OBVIOUS
  <2> QED
    BY <2>1, <2>2
<1>4. ASSUME NEW m \in Nat, m \in P PROVE m + 1 \in P
  <2>1. PICK f \in [0 .. m -> SUBSET Accounts] : Nests(f, m)
    BY <1>4
  <2> DEFINE g == [d \in 0 .. m + 1 |-> IF d = m + 1 THEN Up(f[m]) ELSE f[d]]
  <2>2. f[m] \in SUBSET Accounts
    OBVIOUS
  <2>3. g \in [0 .. m + 1 -> SUBSET Accounts]
    <3>1. \A d \in 0 .. m + 1 : d = m + 1 \/ d \in 0 .. m
      OBVIOUS
    <3> QED
      BY <1>2, <2>2, <3>1
  <2>4. ASSUME NEW d \in 0 .. m + 1
        PROVE  g[d] = IF d = 0 THEN auth.accounts ELSE Up(g[d - 1])
    <3>1. CASE d = 0
      BY <2>1, <3>1
    <3>2. CASE d \in 1 .. m
      <4>1. d \in 0 .. m /\ d # 0 /\ d # m + 1 /\ d - 1 \in 0 .. m + 1 /\ d - 1 # m + 1
        BY <3>2
      <4>2. f[d] = Up(f[d - 1])
        BY <2>1, <4>1
      <4> QED
        BY <4>1, <4>2
    <3>3. CASE d = m + 1
      <4>1. d - 1 = m /\ m \in 0 .. m + 1 /\ m # m + 1 /\ d # 0
        BY <3>3
      <4> QED
        BY <3>3, <4>1
    <3> QED
      BY <3>1, <3>2, <3>3
  <2>5. Nests(g, m + 1)
    <3>1. g = [d \in 0 .. m + 1 |-> g[d]]
      BY <2>3
    <3> HIDE DEF g
    <3> QED
      BY <2>4, <3>1
  <2>6. m + 1 \in Nat
    OBVIOUS
  <2> HIDE DEF g, Nests
  <2> QED
    BY <2>3, <2>5, <2>6
<1>5. M \in P
  <2> HIDE DEF P, M
  <2> QED BY <1>1, <1>3, <1>4, NaturalInduction
<1> DEFINE h == CHOOSE h : Nests(h, M)
<1>6. Nests(h, M)
  BY <1>5
<1>7. collect(w, auth) =
        {a \in UNION {h[d] : d \in D} : w.active[a].keys # {}}
  BY DEF collect, Up
<1> HIDE DEF h
<1> DEFINE Q == {d \in Nat : d <= M => h[d] \in SUBSET Accounts}
<1>8. 0 \in Q
  BY <1>1, <1>6
<1>9. ASSUME NEW d \in Nat, d \in Q PROVE d + 1 \in Q
  <2> SUFFICES ASSUME d + 1 <= M PROVE h[d + 1] \in SUBSET Accounts
    OBVIOUS
  <2>1. d + 1 \in D /\ d + 1 # 0 /\ (d + 1) - 1 = d /\ h[d] \in SUBSET Accounts
    BY <1>1, <1>9
  <2>2. h[d + 1] = Up(h[d])
    BY <1>6, <2>1
  <2> QED
    BY <1>2, <2>1, <2>2
<1>10. \A d \in Nat : d \in Q
  <2> HIDE DEF Q
  <2> QED BY <1>8, <1>9, NaturalInduction
<1>11. \A d \in D : h[d] \in SUBSET Accounts
  BY <1>1, <1>10
<1> QED
  BY <1>7, <1>11

(* The accounts whose authority operations need.                           *)
LEMMA WhoseType ==
  ASSUME NEW ops \in Seq(Operation)
  PROVE  /\ needs_active(ops) \subseteq Accounts /\ needs_owner(ops) \subseteq Accounts
         /\ needs_basic(ops) \subseteq Accounts /\ Whose(ops, {"friendship"}) \subseteq Accounts
         /\ needs_content(ops) \subseteq Contents
<1>1. \A i \in DOMAIN ops : ops[i] \in Operation
  OBVIOUS
<1>2. \A op \in Operation :
        /\ op.kind \in {"transfer", "friendship", "update_active", "update_owner"} =>
             op.who \in Accounts
        /\ op.kind = "content_update" => op.who \in Contents
  BY DEF Operation
<1>3. /\ needs_active(ops) \subseteq Accounts /\ needs_owner(ops) \subseteq Accounts
      /\ Whose(ops, {"friendship"}) \subseteq Accounts
  BY <1>1, <1>2 DEF needs_active, needs_owner, Whose
<1>4. needs_content(ops) \subseteq Contents
  BY <1>1, <1>2 DEF needs_content, Whose
<1> QED
  BY <1>3, <1>4 DEF needs_basic

-----------------------------------------------------------------------------
(* The inductive invariant                                                 *)

Made == [length : Nat,
         authorities : [Accounts -> Authority] \X [Accounts -> Authority]
                         \X [Contents -> Authority]]

(* Proposals are numbered as they are made.                                *)
NumbersInv ==
  /\ proposed \in Seq(Made) /\ Len(proposed) <= MaxProposals
  /\ DOMAIN proposals \subseteq DOMAIN proposed
  /\ proposals \in [DOMAIN proposals -> Proposal]

(* A number that is still to be given is unused, and the length that is    *)
(* remembered is the length of what is proposed.                           *)
TraceInv ==
  /\ \A id \in Ids : id \notin DOMAIN proposed => world.applied[id] = 0
  /\ \A id \in DOMAIN proposals : proposed[id].length = Len(proposals[id].ops)

(* No account has approved a proposal that is under review.                *)
Unapproved(p) == p.active_approvals = {} /\ p.owner_approvals = {}
ReviewInv == \A id \in DOMAIN proposals : InReview(proposals[id]) => Unapproved(proposals[id])

ProposalsInv ==
  /\ world \in World /\ now \in 1 .. MaxTime
  /\ NumbersInv /\ TraceInv /\ ReviewInv /\ AllOrNothing

(* What no step changes of a proposal.                                     *)
SameTerms(p, q) ==
  /\ q.ops = p.ops /\ q.expiration_time = p.expiration_time
  /\ q.review_period_time = p.review_period_time

(* What a step that makes no proposal does.                                *)
Proceeds ==
  /\ world' \in World /\ now' \in 1 .. MaxTime /\ now <= now' /\ proposed' = proposed
  /\ DOMAIN proposals' \subseteq DOMAIN proposals
  /\ proposals' \in [DOMAIN proposals' -> Proposal]
  /\ \A id \in Ids :
       \/ world'.applied[id] = world.applied[id]
       \/ /\ id \in DOMAIN proposals \ DOMAIN proposals'
          /\ world'.applied[id] = world.applied[id] + Len(proposals[id].ops)
  /\ \A id \in DOMAIN proposals' :
       /\ SameTerms(proposals[id], proposals'[id])
       /\ proposals'[id].expiration_time > now'
       /\ \/ proposals'[id] = proposals[id]
          \/ now' = now /\ (InReview(proposals[id]) => Unapproved(proposals'[id]))

(* Such a step keeps the invariant.                                        *)
LEMMA ProceedsInv ==
  ASSUME ProposalsInv, Proceeds
  PROVE  ProposalsInv'
<1>1. DOMAIN proposed = 1 .. Len(proposed) /\ Len(proposed) \in Nat /\ proposed' = proposed
      /\ DOMAIN proposed \subseteq Ids
  BY ProposalAssumption DEF ProposalsInv, NumbersInv, Proceeds, Ids
<1>2. \A id \in Ids : world.applied[id] \in Nat
  BY WorldFields DEF ProposalsInv
<1>3. ASSUME NEW id \in DOMAIN proposals
      PROVE  /\ id \in DOMAIN proposed /\ id \in Ids /\ world.applied[id] = 0
             /\ proposed[id].length = Len(proposals[id].ops)
             /\ Len(proposals[id].ops) \in Nat
             /\ proposals[id] \in Proposal
  <2>1. id \in DOMAIN proposed /\ id \in Ids /\ proposals[id] \in Proposal
    BY <1>1 DEF ProposalsInv, NumbersInv
  <2>2. world.applied[id] = 0 /\ proposed[id].length = Len(proposals[id].ops)
    BY <2>1 DEF ProposalsInv, AllOrNothing, TraceInv
  <2>3. Len(proposals[id].ops) \in Nat
    BY <2>1, ProposalAssumption DEF Proposal
  <2> QED
    BY <2>1, <2>2, <2>3
<1>4. NumbersInv'
  BY <1>1 DEF ProposalsInv, NumbersInv, Proceeds
<1>5. TraceInv'
  <2>1. ASSUME NEW id \in Ids, id \notin DOMAIN proposed PROVE world'.applied[id] = 0
    BY <1>1, <1>3, <2>1 DEF ProposalsInv, TraceInv, Proceeds
  <2>2. ASSUME NEW id \in DOMAIN proposals'
        PROVE  proposed[id].length = Len(proposals'[id].ops)
    BY <1>3, <2>2 DEF Proceeds, SameTerms
  <2> QED
    BY <1>1, <2>1, <2>2 DEF TraceInv
<1>6. ReviewInv'
  <2> SUFFICES ASSUME NEW id \in DOMAIN proposals',
                      proposals'[id].review_period_time # NoReview,
                      now' <= proposals'[id].review_period_time
               PROVE  Unapproved(proposals'[id])
    BY DEF ReviewInv, Unapproved, InReview
  <2> DEFINE q == proposals'[id]
             p == proposals[id]
  <2>1. q.review_period_time # NoReview /\ now' <= q.review_period_time
    OBVIOUS
  <2>2. id \in DOMAIN proposals /\ p.review_period_time = q.review_period_time
        /\ q \in Proposal /\ now \in Nat /\ now' \in Nat /\ now <= now'
    BY DEF Proceeds, SameTerms, ProposalsInv
  <2>3. q.review_period_time \in Nat \cup {NoReview}
    BY <2>2 DEF Proposal
  <2>4. now <= q.review_period_time
    BY <2>1, <2>2, <2>3 DEF NoReview
  <2>5. InReview(p)
    BY <2>1, <2>2, <2>4 DEF InReview
  <2>6. Unapproved(p)
    BY <2>2, <2>5 DEF ProposalsInv, ReviewInv
  <2> QED
    BY <2>5, <2>6 DEF Proceeds
<1>7. AllOrNothing'
  <2> SUFFICES ASSUME NEW id \in DOMAIN proposed
               PROVE  /\ world'.applied[id] \in {0, proposed[id].length}
                      /\ id \in DOMAIN proposals' =>
                           world'.applied[id] = 0 /\ proposals'[id].expiration_time > now'
    BY <1>1 DEF AllOrNothing
  <2>1. id \in Ids /\ world.applied[id] \in {0, proposed[id].length}
    BY <1>1 DEF ProposalsInv, AllOrNothing
  <2>2. CASE world'.applied[id] = world.applied[id]
    BY <1>3, <2>1, <2>2 DEF Proceeds
  <2>3. CASE /\ id \in DOMAIN proposals \ DOMAIN proposals'
             /\ world'.applied[id] = world.applied[id] + Len(proposals[id].ops)
    BY <1>3, <2>3
  <2> QED
    BY <2>1, <2>2, <2>3 DEF Proceeds
<1> QED
  BY <1>4, <1>5, <1>6, <1>7 DEF ProposalsInv, Proceeds
-----------------------------------------------------------------------------
(* The steps, one by one                                                   *)

(* A proposal that stays has its number, its trace and its terms.          *)
LEMMA ProposalFacts ==
  ASSUME ProposalsInv, NEW id \in DOMAIN proposals
  PROVE  /\ id \in DOMAIN proposed /\ id \in Ids /\ world.applied[id] = 0
         /\ proposed[id].length = Len(proposals[id].ops)
         /\ proposals[id].expiration_time > now
         /\ proposals[id] \in Proposal /\ proposals[id].ops \in Seq(Operation)
         /\ Len(proposals[id].ops) \in Nat
         /\ InReview(proposals[id]) => Unapproved(proposals[id])
<1>1. id \in DOMAIN proposed /\ proposals[id] \in Proposal
  BY DEF ProposalsInv, NumbersInv
<1>2. id \in Ids
  BY <1>1, ProposalAssumption DEF ProposalsInv, NumbersInv, Ids
<1>3. /\ world.applied[id] = 0 /\ proposals[id].expiration_time > now
      /\ proposed[id].length = Len(proposals[id].ops)
      /\ InReview(proposals[id]) => Unapproved(proposals[id])
  BY <1>1 DEF ProposalsInv, AllOrNothing, TraceInv, ReviewInv
<1>4. proposals[id].ops \in Seq(Operation)
  BY <1>1, ProposalAssumption DEF Proposal
<1> QED
  BY <1>1, <1>2, <1>3, <1>4

(* proposal_create                                                         *)
LEMMA CreateInv ==
  ASSUME ProposalsInv, NEW ops \in Proposable, NEW lifetime \in Lifetimes,
         NEW review \in ReviewPeriods, proposal_create(ops, lifetime, review)
  PROVE  ProposalsInv'
<1> DEFINE contents == UNION {collect(world, world.manage_master[c]) : c \in needs_content(ops)}
           due == IF review = NoReview THEN NoReview ELSE now + review
           A == (needs_active(ops) \cup contents) \ needs_owner(ops)
           V == needs_active(ops) \cup needs_owner(ops) \cup Whose(ops, {"friendship"})
           p == [ops |-> ops, expiration_time |-> now + lifetime,
                 review_period_time |-> due,
                 required_active |-> A, required_owner |-> needs_owner(ops),
                 required_basic |-> needs_basic(ops), can_veto |-> V,
                 active_approvals |-> {}, owner_approvals |-> {}, key_approvals |-> {}]
           id == Len(proposed) + 1
           made == [length |-> Len(ops), authorities |-> Authorities]
<1>1. /\ Len(proposed) < MaxProposals /\ lifetime > 0
      /\ proposals' = [i \in DOMAIN proposals \cup {id} |-> IF i = id THEN p ELSE proposals[i]]
      /\ proposed' = Append(proposed, made)
      /\ world' = world /\ now' = now
  BY DEF proposal_create
<1>2. ops \in Seq(Operation) /\ Len(ops) \in Nat /\ lifetime \in Nat
      /\ review \in Nat \cup {NoReview} /\ now \in Nat
  <2>1. Proposable \subseteq Seq(Operation) /\ Lifetimes \subseteq Nat
        /\ ReviewPeriods \subseteq Nat \cup {NoReview} /\ MaxTime \in Nat
    BY ProposalAssumption
  <2>2. ops \in Seq(Operation)
    BY <2>1
  <2>3. now \in Nat
    BY <2>1 DEF ProposalsInv
  <2>4. Len(ops) \in Nat
    BY <2>2
  <2> QED
    BY <2>1, <2>2, <2>3, <2>4
<1>3. world \in World /\ now \in 1 .. MaxTime
  BY DEF ProposalsInv
<1>4. contents \subseteq Accounts
  <2>1. \A c \in needs_content(ops) : world.manage_master[c] \in Authority
    BY <1>2, <1>3, WhoseType, WorldFields
  <2>2. \A c \in needs_content(ops) : collect(world, world.manage_master[c]) \subseteq Accounts
    BY <1>3, <2>1, CollectType
  <2> QED
    BY <2>2
<1>5. A \subseteq Accounts /\ V \subseteq Accounts
      /\ needs_owner(ops) \subseteq Accounts /\ needs_basic(ops) \subseteq Accounts
  BY <1>2, <1>4, WhoseType
<1>6. due \in Nat \cup {NoReview} /\ now + lifetime \in Nat /\ now + lifetime > now
  BY <1>1, <1>2
<1> HIDE DEF contents, A, V, due
<1>7. p \in Proposal
  BY <1>5, <1>6 DEF Proposal
<1>8. made \in Made /\ made.length = Len(ops)
  <2>1. Authorities \in [Accounts -> Authority] \X [Accounts -> Authority]
                          \X [Contents -> Authority]
    BY <1>3, WorldFields DEF Authorities
  <2> HIDE DEF Authorities
  <2> QED
    BY <1>2, <2>1 DEF Made
<1>9. p.ops = ops /\ p.expiration_time = now + lifetime /\ Unapproved(p)
  BY DEF Unapproved
<1> HIDE DEF p, made
<1>10. proposed \in Seq(Made) /\ Len(proposed) \in Nat /\ DOMAIN proposed = 1 .. Len(proposed)
       /\ DOMAIN proposals \subseteq DOMAIN proposed
       /\ proposals \in [DOMAIN proposals -> Proposal]
  BY DEF ProposalsInv, NumbersInv
<1>11. id \in Ids /\ id \notin DOMAIN proposed /\ id \notin DOMAIN proposals
  BY <1>1, <1>10, ProposalAssumption DEF Ids
<1>12. /\ proposed' \in Seq(Made) /\ Len(proposed') = id
       /\ DOMAIN proposed' = DOMAIN proposed \cup {id}
       /\ proposed'[id] = made
       /\ \A i \in DOMAIN proposed : proposed'[i] = proposed[i]
  BY <1>1, <1>8, <1>10
<1>13. /\ DOMAIN proposals' = DOMAIN proposals \cup {id}
       /\ proposals'[id] = p
       /\ \A i \in DOMAIN proposals : proposals'[i] = proposals[i]
  BY <1>1, <1>11
<1>14. \A i \in DOMAIN proposals' : proposals'[i] \in Proposal
  BY <1>7, <1>10, <1>13
<1>15. proposals' \in [DOMAIN proposals' -> Proposal]
  BY <1>1, <1>13, <1>14
<1>16. world.applied[id] = 0
  BY <1>11 DEF ProposalsInv, TraceInv
<1> HIDE DEF id
<1>17. NumbersInv'
  <2>1. Len(proposed') <= MaxProposals
    BY <1>1, <1>10, <1>12, ProposalAssumption DEF id
  <2> QED
    BY <1>10, <1>12, <1>13, <1>15, <2>1 DEF NumbersInv
<1>18. TraceInv'
  <2>1. \A i \in Ids : i \notin DOMAIN proposed' => world'.applied[i] = 0
    BY <1>1, <1>12 DEF ProposalsInv, TraceInv
  <2>2. proposed'[id].length = Len(proposals'[id].ops)
    BY <1>8, <1>9, <1>12, <1>13
  <2>3. \A i \in DOMAIN proposals : proposed'[i].length = Len(proposals'[i].ops)
    BY <1>10, <1>12, <1>13 DEF ProposalsInv, TraceInv
  <2> QED
    BY <1>13, <2>1, <2>2, <2>3 DEF TraceInv
<1>19. ReviewInv'
  BY <1>1, <1>9, <1>13 DEF ProposalsInv, ReviewInv, InReview, Unapproved
<1>20. AllOrNothing'
  <2> SUFFICES ASSUME NEW i \in DOMAIN proposed'
               PROVE  /\ world.applied[i] \in {0, proposed'[i].length}
                      /\ i \in DOMAIN proposals' =>
                           world.applied[i] = 0 /\ proposals'[i].expiration_time > now
    BY <1>1 DEF AllOrNothing
  <2>1. CASE i = id
    BY <1>6, <1>9, <1>13, <1>16, <2>1
  <2>2. CASE i \in DOMAIN proposed /\ i # id
    <3>1. /\ world.applied[i] \in {0, proposed[i].length}
          /\ i \in DOMAIN proposals =>
               world.applied[i] = 0 /\ proposals[i].expiration_time > now
      BY <2>2 DEF ProposalsInv, AllOrNothing
    <3> QED
      BY <1>12, <1>13, <2>2, <3>1
  <2> QED
    BY <1>12, <2>1, <2>2
<1> QED
  BY <1>1, <1>3, <1>17, <1>18, <1>19, <1>20 DEF ProposalsInv

(* What is left without one of the proposals.                              *)
LEMMA WithoutOne ==
  ASSUME NEW ps, NEW id, NEW S, ps \in [DOMAIN ps -> S]
  PROVE  /\ DOMAIN Without(ps, id) = DOMAIN ps \ {id}
         /\ Without(ps, id) \in [DOMAIN ps \ {id} -> S]
         /\ \A i \in DOMAIN ps \ {id} : Without(ps, id)[i] = ps[i]
BY DEF Without

(* A proposal that no step touches.                                        *)
LEMMA SameTermsSelf == \A p : SameTerms(p, p)
BY DEF SameTerms

(* proposal_delete                                                         *)
LEMMA DeleteProceeds ==
  ASSUME ProposalsInv, NEW id \in DOMAIN proposals, NEW vetoer \in Accounts,
         proposal_delete(id, vetoer)
  PROVE  Proceeds
<1>1. /\ proposals' = Without(proposals, id)
      /\ world' = world /\ now' = now /\ proposed' = proposed
  BY DEF proposal_delete
<1>2. proposals \in [DOMAIN proposals -> Proposal]
  BY DEF ProposalsInv, NumbersInv
<1>3. /\ DOMAIN proposals' = DOMAIN proposals \ {id}
      /\ proposals' \in [DOMAIN proposals \ {id} -> Proposal]
      /\ \A i \in DOMAIN proposals \ {id} : proposals'[i] = proposals[i]
  BY <1>1, <1>2, WithoutOne
<1>4. \A i \in DOMAIN proposals : proposals[i].expiration_time > now
  BY ProposalFacts
<1>5. world \in World /\ now \in 1 .. MaxTime /\ now <= now
  BY DEF ProposalsInv
<1> QED
  BY <1>1, <1>3, <1>4, <1>5, SameTermsSelf DEF Proceeds

(* An operation or a payment leaves the proposals alone.                   *)
LEMMA WorldProceeds ==
  ASSUME ProposalsInv, world' \in World, world'.applied = world.applied,
         UNCHANGED <<proposals, now, proposed>>
  PROVE  Proceeds
<1>1. proposals \in [DOMAIN proposals -> Proposal] /\ now \in 1 .. MaxTime /\ now <= now
  BY DEF ProposalsInv, NumbersInv
<1>2. \A i \in DOMAIN proposals : proposals[i].expiration_time > now
  BY ProposalFacts
<1> QED
  BY <1>1, <1>2, SameTermsSelf DEF Proceeds

(* Transact                                                                *)
LEMMA TransactProceeds ==
  ASSUME ProposalsInv, NEW op \in Direct, Transact(op)
  PROVE  Proceeds
<1>1. op \in Operation /\ world \in World
  BY ProposalAssumption DEF ProposalsInv
<1>2. world' \in World /\ world'.applied = world.applied
  BY <1>1, ApplyKeepsWorld DEF Transact
<1> QED
  BY <1>2, WorldProceeds DEF Transact

(* Deposit                                                                 *)
LEMMA DepositProceeds ==
  ASSUME ProposalsInv, NEW a \in Accounts, Deposit(a)
  PROVE  Proceeds
<1> DEFINE f == [world.funds EXCEPT ![a] = @ + 1]
<1>1. world \in World
  BY DEF ProposalsInv
<1>2. f \in [Accounts -> 0 .. MaxFunds]
  BY <1>1, WorldFields, ProposalAssumption DEF Deposit
<1>3. world' = [world EXCEPT !.funds = f]
  BY DEF Deposit
<1> HIDE DEF f
<1>4. world' = [funds |-> f, active |-> world.active, owner |-> world.owner,
                manage_master |-> world.manage_master, applied |-> world.applied]
  BY <1>1, <1>3, WorldFields
<1>5. world' \in World /\ world'.applied = world.applied
  BY <1>1, <1>2, <1>4, WorldFields, WorldOf
<1> QED
  BY <1>5, WorldProceeds DEF Deposit
(* The keys of an update are keys.                                         *)
LEMMA UpdateKeys ==
  ASSUME NEW u \in Updates
  PROVE  u.key_to_add \subseteq Keys
<1> DEFINE OfAccount(a) ==
             {[NoChange EXCEPT !.active_to_add = {a}], [NoChange EXCEPT !.active_to_remove = {a}],
              [NoChange EXCEPT !.owner_to_add = {a}], [NoChange EXCEPT !.owner_to_remove = {a}],
              [NoChange EXCEPT !.owner_to_add = {a}, !.active_to_remove = {a}],
              [NoChange EXCEPT !.active_to_add = {a}, !.owner_to_remove = {a}]}
           OfKey(k) == {[NoChange EXCEPT !.key_to_add = {k}], [NoChange EXCEPT !.key_to_remove = {k}]}
<1>1. u \in (UNION {OfAccount(a) : a \in Accounts}) \cup (UNION {OfKey(k) : k \in Keys})
  BY DEF Updates
<1>2. ASSUME NEW a, u \in OfAccount(a) PROVE u.key_to_add = {}
  BY <1>2 DEF NoChange
<1>3. ASSUME NEW k, u \in OfKey(k) PROVE u.key_to_add \subseteq {k}
  BY <1>3 DEF NoChange
<1> HIDE DEF OfAccount, OfKey
<1>4. CASE \E a \in Accounts : u \in OfAccount(a)
  <2>1. u.key_to_add = {}
    BY <1>2, <1>4
  <2> QED
    BY <2>1
<1>5. CASE \E k \in Keys : u \in OfKey(k)
  <2>1. PICK k \in Keys : u \in OfKey(k)
    BY <1>5
  <2> QED
    BY <1>3, <2>1
<1>6. (\E a \in Accounts : u \in OfAccount(a)) \/ (\E k \in Keys : u \in OfKey(k))
  BY <1>1
<1> QED
  BY <1>4, <1>5, <1>6

(* An update changes the approvals of a proposal only, and gives no        *)
(* account's approval during the review.                                   *)
LEMMA UpdatedKeeps ==
  ASSUME NEW p \in Proposal, NEW u \in Updates, MayUpdate(p, u)
  PROVE  /\ updated(p, u) \in Proposal /\ SameTerms(p, updated(p, u))
         /\ InReview(p) /\ Unapproved(p) => Unapproved(updated(p, u))
<1> DEFINE a == (p.active_approvals \cup u.active_to_add) \ u.active_to_remove
           o == (p.owner_approvals \cup u.owner_to_add) \ u.owner_to_remove
           k == (p.key_approvals \cup u.key_to_add) \ u.key_to_remove
           q == updated(p, u)
<1>1. /\ p.active_approvals \subseteq Accounts /\ p.owner_approvals \subseteq Accounts
      /\ p.key_approvals \subseteq Keys /\ p.required_active \subseteq Accounts
      /\ p.required_owner \subseteq Accounts /\ p.required_basic \subseteq Accounts
  BY DEF Proposal
<1>2. a \subseteq Accounts /\ o \subseteq Accounts
  BY <1>1 DEF MayUpdate
<1>3. k \subseteq Keys
  BY <1>1, UpdateKeys
<1>4. InReview(p) /\ Unapproved(p) => a = {} /\ o = {}
  BY DEF MayUpdate, Unapproved
<1>5. q = [p EXCEPT !.active_approvals = a, !.owner_approvals = o, !.key_approvals = k]
  BY DEF updated
<1> HIDE DEF a, o, k, q
<1>6. /\ q \in Proposal /\ q.ops = p.ops /\ q.expiration_time = p.expiration_time
      /\ q.review_period_time = p.review_period_time
      /\ q.active_approvals = a /\ q.owner_approvals = o
  BY <1>2, <1>3, <1>5 DEF Proposal
<1> QED
  BY <1>4, <1>6 DEF SameTerms, Unapproved, q

(* An update that leaves the proposal there.                               *)
LEMMA AmendedProceeds ==
  ASSUME ProposalsInv, NEW id \in DOMAIN proposals, NEW p \in Proposal,
         SameTerms(proposals[id], p), InReview(proposals[id]) => Unapproved(p),
         world' = world, now' = now, proposed' = proposed,
         proposals' = [proposals EXCEPT ![id] = p]
  PROVE  Proceeds
<1>1. proposals \in [DOMAIN proposals -> Proposal] /\ now \in 1 .. MaxTime /\ now <= now
      /\ world \in World
  BY DEF ProposalsInv, NumbersInv
<1>2. /\ DOMAIN proposals' = DOMAIN proposals /\ proposals'[id] = p
      /\ proposals' \in [DOMAIN proposals -> Proposal]
      /\ \A i \in DOMAIN proposals : i # id => proposals'[i] = proposals[i]
  BY <1>1
<1>3. \A i \in DOMAIN proposals : proposals[i].expiration_time > now
  BY ProposalFacts
<1>4. p.expiration_time > now
  BY <1>3 DEF SameTerms
<1>5. ASSUME NEW i \in DOMAIN proposals'
      PROVE  /\ SameTerms(proposals[i], proposals'[i])
             /\ proposals'[i].expiration_time > now'
             /\ \/ proposals'[i] = proposals[i]
                \/ now' = now /\ (InReview(proposals[i]) => Unapproved(proposals'[i]))
  <2>1. CASE i = id
    BY <1>2, <1>4, <2>1
  <2>2. CASE i # id
    BY <1>2, <1>3, <2>2, SameTermsSelf
  <2> QED
    BY <2>1, <2>2
<1> QED
  BY <1>1, <1>2, <1>5 DEF Proceeds

(* proposal_update                                                         *)
LEMMA UpdateProceeds ==
  ASSUME ProposalsInv, NEW id \in DOMAIN proposals, NEW u \in Updates, proposal_update(id, u)
  PROVE  Proceeds
<1> DEFINE p == updated(proposals[id], u)
           tried == push_proposal(world, id, p.ops)
<1>1. MayUpdate(proposals[id], u) /\ now' = now /\ proposed' = proposed
  BY DEF proposal_update
<1>2. /\ id \in Ids /\ proposals[id] \in Proposal /\ proposals[id].ops \in Seq(Operation)
      /\ InReview(proposals[id]) => Unapproved(proposals[id])
  BY ProposalFacts
<1>3. /\ p \in Proposal /\ SameTerms(proposals[id], p)
      /\ InReview(proposals[id]) => Unapproved(p)
  BY <1>1, <1>2, UpdatedKeeps
<1>4. p.ops = proposals[id].ops
  BY <1>3 DEF SameTerms
<1>5. world \in World
  BY DEF ProposalsInv
<1>6. /\ tried.world \in World
      /\ tried.ok => Executed(world, id, Len(proposals[id].ops), tried.world)
      /\ ~tried.ok => tried.world = world
  BY <1>2, <1>4, <1>5, PushResult
<1>7. \/ tried.ok /\ world' = tried.world /\ proposals' = Without(proposals, id)
      \/ ~tried.ok /\ world' = tried.world /\ proposals' = [proposals EXCEPT ![id] = p]
      \/ world' = world /\ proposals' = [proposals EXCEPT ![id] = p]
  BY DEF proposal_update
<1> HIDE DEF p, tried
<1>8. CASE world' = world /\ proposals' = [proposals EXCEPT ![id] = p]
  BY <1>1, <1>3, <1>8, AmendedProceeds
<1>9. CASE tried.ok /\ world' = tried.world /\ proposals' = Without(proposals, id)
  <2>1. proposals \in [DOMAIN proposals -> Proposal]
    BY DEF ProposalsInv, NumbersInv
  <2>2. /\ DOMAIN proposals' = DOMAIN proposals \ {id}
        /\ proposals' \in [DOMAIN proposals \ {id} -> Proposal]
        /\ \A i \in DOMAIN proposals \ {id} : proposals'[i] = proposals[i]
    BY <1>9, <2>1, WithoutOne
  <2>3. \A i \in DOMAIN proposals : proposals[i].expiration_time > now
    BY ProposalFacts
  <2>4. now \in 1 .. MaxTime /\ now <= now
    BY DEF ProposalsInv
  <2>5. \A i \in Ids :
          \/ world'.applied[i] = world.applied[i]
          \/ /\ i \in DOMAIN proposals \ DOMAIN proposals'
             /\ world'.applied[i] = world.applied[i] + Len(proposals[i].ops)
    BY <1>6, <1>9, <2>2 DEF Executed
  <2> QED
    BY <1>1, <1>6, <1>9, <2>2, <2>3, <2>4, <2>5, SameTermsSelf DEF Proceeds
<1> QED
  BY <1>6, <1>7, <1>8, <1>9
-----------------------------------------------------------------------------
(* Expiration                                                              *)

(* s lists the ids of E, each once, the sooner ones first.                 *)
Lists(s, E) ==
  /\ s \in [1 .. Cardinality(E) -> E] /\ Cardinality(E) \in Nat
  /\ \A i, j \in 1 .. Cardinality(E) : i # j => s[i] # s[j]
  /\ \A i, j \in 1 .. Cardinality(E) : i < j => Sooner(s[i], s[j])
  /\ \A x \in E : \E i \in 1 .. Cardinality(E) : s[i] = x

(* by_expiration is such a list.                                           *)
LEMMA ByExpirationLists ==
  ASSUME ProposalsInv, NEW E \in SUBSET DOMAIN proposals
  PROVE  Lists(ByExpiration(E), E)
<1> DEFINE R == {q \in Ids \X Ids : Sooner(q[1], q[2])}
           n == Cardinality(E)
           s == ByExpiration(E)
<1>1. \A x \in E : x \in Ids /\ x \in Int /\ proposals[x].expiration_time \in Nat
  <2>1. \A x \in E : x \in Ids /\ proposals[x] \in Proposal
    BY ProposalFacts
  <2> QED
    BY <2>1 DEF Proposal, Ids
<1>2. \A x, y \in Ids : <<x, y>> \in R <=> Sooner(x, y)
  OBVIOUS
<1>3. IsFiniteSet(E) /\ n \in Nat
  <2>1. IsFiniteSet(Ids) /\ E \subseteq Ids
    BY <1>1, ProposalAssumption, FS_Interval DEF Ids
  <2>2. IsFiniteSet(E)
    BY <2>1, FS_Subset
  <2> QED
    BY <2>2, FS_CardinalityType
<1>4. \A x, y \in E : x = y \/ Sooner(x, y) \/ Sooner(y, x)
  BY <1>1 DEF Sooner
<1>5. \A x, y, z \in E : Sooner(x, y) /\ Sooner(y, z) => Sooner(x, z)
  BY <1>1 DEF Sooner
<1>6. /\ \A x, y \in E : x = y \/ <<x, y>> \in R \/ <<y, x>> \in R
      /\ \A x, y, z \in E : <<x, y>> \in R /\ <<y, z>> \in R => <<x, z>> \in R
  <2> HIDE DEF R
  <2> QED BY <1>1, <1>2, <1>4, <1>5
<1> HIDE DEF R
<1>7. PICK f \in [1 .. n -> E] :
        /\ \A i, j \in 1 .. n : i # j => f[i] # f[j]
        /\ \A i, j \in 1 .. n : i < j => <<f[i], f[j]>> \in R
  BY <1>3, <1>6, SortedExists
<1>8. \A i, j \in 1 .. n : i < j => Sooner(f[i], f[j])
  <2> SUFFICES ASSUME NEW i \in 1 .. n, NEW j \in 1 .. n, i < j PROVE Sooner(f[i], f[j])
    OBVIOUS
  <2>1. f[i] \in Ids /\ f[j] \in Ids /\ <<f[i], f[j]>> \in R
    BY <1>1, <1>7
  <2> QED
    BY <1>2, <2>1
<1>9. f \in SetToSeqs(E) /\ DOMAIN f = 1 .. n
  BY <1>7 DEF SetToSeqs
<1>10. s \in SetToSeqs(E) /\ \A i, j \in DOMAIN s : i < j => Sooner(s[i], s[j])
  <2> HIDE DEF n
  <2>1. \E g \in SetToSeqs(E) : \A i, j \in DOMAIN g : i < j => Sooner(g[i], g[j])
    BY <1>8, <1>9
  <2> QED
    BY <2>1 DEF ByExpiration
<1> HIDE DEF s
<1>11. s \in [1 .. n -> E] /\ DOMAIN s = 1 .. n /\ \A i, j \in 1 .. n : i # j => s[i] # s[j]
  BY <1>10 DEF SetToSeqs
<1>12. \A x \in E : \E i \in 1 .. n : s[i] = x
  BY <1>3, <1>11, EnumerationComplete
<1> QED
  BY <1>3, <1>10, <1>11, <1>12 DEF Lists, s

(* The proposals without those of a set.                                   *)
Remaining(T) == [i \in DOMAIN proposals \ T |-> proposals[i]]

LoopState == [world : World, proposals : {Remaining(T) : T \in SUBSET DOMAIN proposals}]

(* One turn of the loop.                                                   *)
LEMMA ExpireOne ==
  ASSUME ProposalsInv, NEW T \in SUBSET DOMAIN proposals, NEW id \in DOMAIN proposals \ T,
         NEW w \in World
  PROVE  LET t == expire([world |-> w, proposals |-> Remaining(T)], id)
         IN  /\ t = [world |-> t.world, proposals |-> Remaining(T \cup {id})]
             /\ t.world \in World
             /\ t.world = w \/ Executed(w, id, Len(proposals[id].ops), t.world)
             /\ is_authorized_to_execute(w, proposals[id]) /\ Try(w, id, proposals[id].ops).ok
                  => Executed(w, id, Len(proposals[id].ops), t.world)
<1> DEFINE s == [world |-> w, proposals |-> Remaining(T)]
           r == push_proposal(w, id, proposals[id].ops)
           v == IF is_authorized_to_execute(w, proposals[id]) THEN r.world ELSE w
           t == expire(s, id)
<1>1. id \in Ids /\ proposals[id].ops \in Seq(Operation)
  BY ProposalFacts
<1>2. /\ r.world \in World
      /\ r.ok => Executed(w, id, Len(proposals[id].ops), r.world)
      /\ ~r.ok => r.world = w
      /\ Try(w, id, proposals[id].ops).ok => r.ok
  BY <1>1, PushResult
<1>3. s.world = w /\ s.proposals = Remaining(T) /\ s.proposals[id] = proposals[id]
  BY DEF Remaining
<1>4. Without(Remaining(T), id) = Remaining(T \cup {id})
  <2>1. DOMAIN Remaining(T) = DOMAIN proposals \ T
    BY DEF Remaining
  <2>2. (DOMAIN proposals \ T) \ {id} = DOMAIN proposals \ (T \cup {id})
    OBVIOUS
  <2>3. \A i \in DOMAIN proposals \ T : Remaining(T)[i] = proposals[i]
    BY DEF Remaining
  <2>4. Without(Remaining(T), id)
          = [i \in DOMAIN proposals \ (T \cup {id}) |-> Remaining(T)[i]]
    BY <2>1, <2>2 DEF Without
  <2> QED
    BY <2>3, <2>4 DEF Remaining
<1>5. t = [world |-> v, proposals |-> Remaining(T \cup {id})]
  <2> HIDE DEF s
  <2> QED BY <1>3, <1>4 DEF expire
<1> HIDE DEF r, s
<1>6. v \in World /\ (v = w \/ Executed(w, id, Len(proposals[id].ops), v))
      /\ (is_authorized_to_execute(w, proposals[id]) /\ Try(w, id, proposals[id].ops).ok
            => Executed(w, id, Len(proposals[id].ops), v))
  BY <1>2
<1> HIDE DEF v, t
<1>7. t.world = v
  BY <1>5
<1> QED
  BY <1>5, <1>6, <1>7 DEF s, t
(* The ids with these numbers in the list.                                 *)
Listed(s, t) == {s[i] : i \in t}

(* The domain of what remains says which ones do.                          *)
LEMMA RemainingDomain ==
  ASSUME NEW T \in SUBSET DOMAIN proposals
  PROVE  DOMAIN Remaining(T) = DOMAIN proposals \ T
BY DEF Remaining

(* The loop over a list is a fold.                                         *)
LEMMA ExpireAllFolds ==
  ASSUME ProposalsInv, NEW E \in SUBSET DOMAIN proposals, NEW s, Lists(s, E)
  PROVE  \E h :
           /\ h[{}] = [world |-> world, proposals |-> proposals]
           /\ \A t \in SUBSET (1 .. Cardinality(E)) : t # {} =>
                h[t] = expire(h[t \ {Max(t)}], s[Max(t)])
           /\ ExpireAll(s) = h[1 .. Cardinality(E)]
<1> DEFINE n == Cardinality(E)
           D == 1 .. n
           b == [world |-> world, proposals |-> proposals]
           F == [i \in D |-> [st \in LoopState |->
                   IF s[i] \in DOMAIN st.proposals THEN expire(st, s[i]) ELSE st]]
           Folds(g) == g = [t \in SUBSET D |-> IF t = {} THEN b
                              ELSE expire(g[t \ {Max(t)}], s[Max(t)])]
<1>1. n \in Nat /\ s \in [D -> E] /\ DOMAIN s = D
      /\ \A i, j \in D : i # j => s[i] # s[j]
  BY DEF Lists
<1>2. world \in World /\ Remaining({}) = proposals
  BY DEF ProposalsInv, NumbersInv, Remaining
<1>3. b \in LoopState /\ b.proposals = Remaining({})
  <2>1. {} \in SUBSET DOMAIN proposals
    OBVIOUS
  <2> QED
    BY <1>2, <2>1 DEF LoopState
<1>4. ASSUME NEW st \in LoopState
      PROVE  \E T \in SUBSET DOMAIN proposals : \E w \in World :
               st = [world |-> w, proposals |-> Remaining(T)]
  <2>1. st.world \in World /\ \E T \in SUBSET DOMAIN proposals : st.proposals = Remaining(T)
    BY DEF LoopState
  <2>2. st = [world |-> st.world, proposals |-> st.proposals]
    BY DEF LoopState
  <2> QED
    BY <2>1, <2>2
<1>5. ASSUME NEW T \in SUBSET DOMAIN proposals, NEW id \in DOMAIN proposals \ T, NEW st \in LoopState,
             st.proposals = Remaining(T)
      PROVE  /\ expire(st, id) \in LoopState
             /\ expire(st, id).proposals = Remaining(T \cup {id})
  <2> DEFINE w == st.world
             t == expire([world |-> w, proposals |-> Remaining(T)], id)
  <2>1. w \in World /\ st = [world |-> w, proposals |-> Remaining(T)]
    BY <1>5 DEF LoopState
  <2>2. t = [world |-> t.world, proposals |-> Remaining(T \cup {id})] /\ t.world \in World
    BY <2>1, ExpireOne
  <2>3. T \cup {id} \in SUBSET DOMAIN proposals
    OBVIOUS
  <2>4. t = expire(st, id)
    BY <2>1
  <2> HIDE DEF t
  <2> QED
    BY <2>2, <2>3, <2>4 DEF LoopState
<1>6. F \in [D -> [LoopState -> LoopState]]
  <2> SUFFICES ASSUME NEW i \in D, NEW st \in LoopState, s[i] \in DOMAIN st.proposals
               PROVE  expire(st, s[i]) \in LoopState
    OBVIOUS
  <2>1. PICK T \in SUBSET DOMAIN proposals : \E w \in World :
               st = [world |-> w, proposals |-> Remaining(T)]
    BY <1>4
  <2>2. st.proposals = Remaining(T)
    BY <2>1
  <2>3. s[i] \in DOMAIN proposals \ T
    BY <2>2, RemainingDomain
  <2> QED
    BY <1>5, <2>2, <2>3
<1> HIDE DEF b, n
<1>7. PICK g : LeftFold(g, F, b, n, LoopState)
  <2> HIDE DEF F
  <2> QED BY <1>1, <1>3, <1>6, LeftFoldExists, Zenon
<1>8. g \in [SUBSET D -> LoopState] /\ g[{}] = b
  BY <1>7 DEF LeftFold
<1>9. ASSUME NEW t \in SUBSET D, t # {}
      PROVE  /\ Max(t) \in t /\ Max(t) \in D /\ t \ {Max(t)} \in SUBSET D
             /\ g[t] = F[Max(t)][g[t \ {Max(t)}]]
  BY <1>7, <1>9 DEF LeftFold
<1>10. ASSUME NEW t \in SUBSET D, t # {},
              g[t \ {Max(t)}].proposals = Remaining(Listed(s, t \ {Max(t)}))
       PROVE  /\ g[t] = expire(g[t \ {Max(t)}], s[Max(t)])
              /\ g[t].proposals = Remaining(Listed(s, t))
  <2> DEFINE m == Max(t)
             u == t \ {m}
             T == Listed(s, u)
             st == g[u]
  <2>1. m \in t /\ m \in D /\ u \in SUBSET D /\ g[t] = F[m][st] /\ st \in LoopState
    BY <1>8, <1>9, <1>10
  <2>2. T \in SUBSET DOMAIN proposals /\ s[m] \in DOMAIN proposals
    BY <1>1, <2>1 DEF Listed
  <2>3. s[m] \notin T
    BY <1>1, <2>1 DEF Listed
  <2>4. st.proposals = Remaining(T)
    BY <1>10
  <2>5. Listed(s, t) = T \cup {s[m]}
    BY <2>1 DEF Listed
  <2> HIDE DEF m, u, T, st
  <2>6. s[m] \in DOMAIN st.proposals
    BY <2>2, <2>3, <2>4, RemainingDomain
  <2>7. g[t] = expire(st, s[m])
    BY <2>1, <2>6
  <2>8. g[t].proposals = Remaining(T \cup {s[m]})
    BY <1>5, <2>1, <2>2, <2>3, <2>4, <2>7
  <2> QED
    BY <2>5, <2>7, <2>8 DEF m, u, st
<1> HIDE DEF F
<1> DEFINE Bad == {t \in SUBSET D : g[t].proposals # Remaining(Listed(s, t))}
<1>11. Bad = {}
  <2> SUFFICES ASSUME Bad # {} PROVE FALSE
    OBVIOUS
  <2>1. \A t \in Bad : IsFiniteSet(t)
    <3>1. IsFiniteSet(D)
      BY <1>1, FS_Interval
    <3> QED
      BY <3>1, FS_Subset
  <2>2. PICK t \in Bad : \A y \in Bad : y \subseteq t => y = t
    <3> HIDE DEF Bad
    <3> QED BY <2>1, MinimalSet
  <2>3. t # {}
    <3>1. Listed(s, {}) = {}
      BY DEF Listed
    <3> QED
      BY <1>3, <1>8, <2>2, <3>1
  <2>4. Max(t) \in t /\ t \ {Max(t)} \in SUBSET D /\ t \ {Max(t)} # t
    BY <1>9, <2>3
  <2>5. g[t \ {Max(t)}].proposals = Remaining(Listed(s, t \ {Max(t)}))
    BY <2>2, <2>4
  <2> QED
    BY <1>10, <2>2, <2>3, <2>5
<1>12. ASSUME NEW t \in SUBSET D, t # {}
       PROVE  g[t] = expire(g[t \ {Max(t)}], s[Max(t)])
  <2>1. t \ {Max(t)} \in SUBSET D
    OBVIOUS
  <2>2. g[t \ {Max(t)}].proposals = Remaining(Listed(s, t \ {Max(t)}))
    BY <1>11, <2>1
  <2> QED
    BY <1>10, <1>12, <2>2
<1> HIDE DEF D, Bad
<1> DEFINE h == CHOOSE h : Folds(h)
<1>13. Folds([t \in SUBSET D |-> g[t]])
  BY <1>8, <1>12
<1>14. Folds(h)
  BY <1>13
<1>15. ExpireAll(s) = h[D]
  BY <1>1 DEF ExpireAll, FoldLeft, MapThenFoldSet, b
<1> HIDE DEF h
<1>16. /\ h[{}] = b
       /\ \A t \in SUBSET D : t # {} => h[t] = expire(h[t \ {Max(t)}], s[Max(t)])
  BY <1>14
<1> QED
  BY <1>15, <1>16 DEF b, D, n

(* The state after n turns.                                                *)
Cleared(s, n, r) ==
  /\ r.world \in World /\ (n = 0 => r.world = world)
  /\ r = [world |-> r.world, proposals |-> Remaining(Listed(s, 1 .. n))]
  /\ \A id \in Ids :
       \/ r.world.applied[id] = world.applied[id]
       \/ /\ id \in Listed(s, 1 .. n)
          /\ r.world.applied[id] = world.applied[id] + Len(proposals[id].ops)
  /\ /\ n > 0
     /\ is_authorized_to_execute(world, proposals[s[1]])
     /\ Try(world, s[1], proposals[s[1]].ops).ok
     => r.world.applied[s[1]] = world.applied[s[1]] + Len(proposals[s[1]].ops)
(* One more turn.                                                          *)
LEMMA ClearedStep ==
  ASSUME ProposalsInv, NEW E \in SUBSET DOMAIN proposals, NEW s, Lists(s, E),
         NEW n \in Nat, n < Cardinality(E), NEW r, Cleared(s, n, r)
  PROVE  Cleared(s, n + 1, expire(r, s[n + 1]))
<1> DEFINE id == s[n + 1]
           T == Listed(s, 1 .. n)
           w == r.world
           t == expire([world |-> w, proposals |-> Remaining(T)], id)
           k == Len(proposals[id].ops)
<1>1. /\ s \in [1 .. Cardinality(E) -> E] /\ Cardinality(E) \in Nat
      /\ \A i, j \in 1 .. Cardinality(E) : i # j => s[i] # s[j]
  BY DEF Lists
<1>2. n + 1 \in 1 .. Cardinality(E) /\ 1 .. n \in SUBSET (1 .. Cardinality(E))
      /\ n + 1 \notin 1 .. n /\ 1 .. n + 1 = (1 .. n) \cup {n + 1}
  BY <1>1
<1>3. T \in SUBSET DOMAIN proposals /\ id \in DOMAIN proposals /\ id \notin T
  BY <1>1, <1>2 DEF Listed
<1>4. Listed(s, 1 .. n + 1) = T \cup {id}
  BY <1>2 DEF Listed
<1>5. w \in World /\ r = [world |-> w, proposals |-> Remaining(T)]
  BY DEF Cleared
<1>6. /\ t = [world |-> t.world, proposals |-> Remaining(T \cup {id})]
      /\ t.world \in World
      /\ t.world = w \/ Executed(w, id, k, t.world)
      /\ is_authorized_to_execute(w, proposals[id]) /\ Try(w, id, proposals[id].ops).ok
           => Executed(w, id, k, t.world)
  BY <1>3, <1>5, ExpireOne
<1>7. t = expire(r, s[n + 1])
  BY <1>5
<1>8. id \in Ids /\ k \in Nat
  BY <1>3, ProposalFacts
<1>9. /\ \A x \in Ids :
           \/ w.applied[x] = world.applied[x]
           \/ x \in T /\ w.applied[x] = world.applied[x] + Len(proposals[x].ops)
      /\ /\ n > 0
         /\ is_authorized_to_execute(world, proposals[s[1]])
         /\ Try(world, s[1], proposals[s[1]].ops).ok
         => w.applied[s[1]] = world.applied[s[1]] + Len(proposals[s[1]].ops)
  BY DEF Cleared
<1> HIDE DEF t, T, w
<1>10. ASSUME NEW x \in Ids
       PROVE  \/ t.world.applied[x] = world.applied[x]
              \/ /\ x \in T \cup {id}
                 /\ t.world.applied[x] = world.applied[x] + Len(proposals[x].ops)
  <2>1. CASE x = id
    <3>1. w.applied[x] = world.applied[x]
      BY <1>3, <1>9, <2>1
    <3>2. t.world.applied[x] = w.applied[x] \/ t.world.applied[x] = w.applied[x] + k
      BY <1>6, <2>1 DEF Executed
    <3> QED
      BY <2>1, <3>1, <3>2
  <2>2. CASE x # id
    <3>1. t.world.applied[x] = w.applied[x]
      BY <1>6, <2>2 DEF Executed
    <3> QED
      BY <1>9, <3>1
  <2> QED
    BY <2>1, <2>2
<1>11. ASSUME is_authorized_to_execute(world, proposals[s[1]]),
              Try(world, s[1], proposals[s[1]].ops).ok
       PROVE  t.world.applied[s[1]] = world.applied[s[1]] + Len(proposals[s[1]].ops)
  <2>1. CASE n = 0
    <3>1. id = s[1]
      BY <2>1
    <3>2. w = world
      BY <2>1 DEF Cleared, w
    <3> QED
      BY <1>6, <1>11, <3>1, <3>2 DEF Executed
  <2>2. CASE n > 0
    <3>1. 1 \in 1 .. Cardinality(E) /\ 1 # n + 1
      BY <1>2, <2>2
    <3>2. s[1] # id /\ s[1] \in Ids
      <4>1. s[1] # id /\ s[1] \in DOMAIN proposals
        BY <1>1, <1>2, <3>1
      <4> QED
        BY <4>1, ProposalFacts
    <3>3. t.world.applied[s[1]] = w.applied[s[1]]
      BY <1>6, <3>2 DEF Executed
    <3> QED
      BY <1>9, <1>11, <2>2, <3>3
  <2> QED
    BY <2>1, <2>2
<1>12. Cleared(s, n + 1, t)
  <2>1. n + 1 # 0
    OBVIOUS
  <2> HIDE DEF id, k
  <2>2. t = [world |-> t.world, proposals |-> Remaining(Listed(s, 1 .. n + 1))]
    BY <1>4, <1>6
  <2>3. \A x \in Ids :
          \/ t.world.applied[x] = world.applied[x]
          \/ /\ x \in Listed(s, 1 .. n + 1)
             /\ t.world.applied[x] = world.applied[x] + Len(proposals[x].ops)
    BY <1>4, <1>10
  <2> QED
    BY <1>6, <1>11, <2>1, <2>2, <2>3 DEF Cleared
<1> QED
  BY <1>7, <1>12

(* The whole loop.                                                         *)
LEMMA ExpireAllClears ==
  ASSUME ProposalsInv, NEW E \in SUBSET DOMAIN proposals, NEW s, Lists(s, E)
  PROVE  Cleared(s, Cardinality(E), ExpireAll(s))
<1> DEFINE N == Cardinality(E)
           b == [world |-> world, proposals |-> proposals]
<1>1. PICK h :
        /\ h[{}] = b
        /\ \A t \in SUBSET (1 .. N) : t # {} => h[t] = expire(h[t \ {Max(t)}], s[Max(t)])
        /\ ExpireAll(s) = h[1 .. N]
  BY ExpireAllFolds
<1>2. N \in Nat
  BY DEF Lists
<1>3. Cleared(s, 0, b)
  <2>1. world \in World /\ Remaining({}) = proposals
    BY DEF ProposalsInv, NumbersInv, Remaining
  <2>2. Listed(s, 1 .. 0) = {}
    BY DEF Listed
  <2> QED
    BY <2>1, <2>2 DEF Cleared
<1> HIDE DEF N, b
<1> DEFINE P == {i \in Nat : i <= N => Cleared(s, i, h[1 .. i])}
<1>4. 0 \in P
  <2>1. 1 .. 0 = {}
    OBVIOUS
  <2> QED
    BY <1>1, <1>3, <2>1
<1>5. ASSUME NEW i \in Nat, i \in P PROVE i + 1 \in P
  <2> SUFFICES ASSUME i + 1 <= N PROVE Cleared(s, i + 1, h[1 .. i + 1])
    OBVIOUS
  <2>1. i <= N /\ i < N /\ 1 .. i + 1 \in SUBSET (1 .. N)
    BY <1>2
  <2>2. Cleared(s, i, h[1 .. i])
    BY <1>5, <2>1
  <2>3. Max(1 .. i + 1) = i + 1 /\ (1 .. i + 1) \ {i + 1} = 1 .. i /\ 1 .. i + 1 # {}
    <3>1. Max(1 .. i + 1) = i + 1 /\ (1 .. i + 1) \ {i + 1} = 1 .. (i + 1) - 1
          /\ 1 .. i + 1 # {}
      BY MaxOfPrefix
    <3>2. (i + 1) - 1 = i
      OBVIOUS
    <3> QED
      BY <3>1, <3>2
  <2>4. h[1 .. i + 1] = expire(h[1 .. i], s[i + 1])
    BY <1>1, <2>1, <2>3
  <2>5. Cleared(s, i + 1, expire(h[1 .. i], s[i + 1]))
    BY <2>1, <2>2, ClearedStep DEF N
  <2> QED
    BY <2>4, <2>5
<1>6. \A i \in Nat : i \in P
  <2> HIDE DEF P
  <2> QED BY <1>4, <1>5, NaturalInduction
<1>7. Cleared(s, N, h[1 .. N])
  BY <1>2, <1>6
<1> QED
  BY <1>1, <1>7 DEF N

(* What clear_expired_proposals leaves.                                    *)
LEMMA ClearFacts ==
  ASSUME ProposalsInv, clear_expired_proposals
  PROVE  LET E == Expired(now + 1)
         IN  /\ Lists(ByExpiration(E), E) /\ E \subseteq DOMAIN proposals
             /\ world' \in World /\ proposals' = Remaining(E)
             /\ \A id \in Ids :
                  \/ world'.applied[id] = world.applied[id]
                  \/ /\ id \in E
                     /\ world'.applied[id] = world.applied[id] + Len(proposals[id].ops)
             /\ \A id \in E :
                  /\ id = ByExpiration(E)[1]
                  /\ is_authorized_to_execute(world, proposals[id])
                  /\ Try(world, id, proposals[id].ops).ok
                  => world'.applied[id] = world.applied[id] + Len(proposals[id].ops)
<1> DEFINE E == Expired(now + 1)
           s == ByExpiration(E)
           N == Cardinality(E)
           r == ExpireAll(s)
<1>1. world' = r.world /\ proposals' = r.proposals
  BY DEF clear_expired_proposals
<1>2. E \in SUBSET DOMAIN proposals
  BY DEF Expired
<1> HIDE DEF E, r
<1>3. Lists(s, E)
  BY <1>2, ByExpirationLists
<1> HIDE DEF s
<1>4. Cleared(s, N, r)
  BY <1>2, <1>3, ExpireAllClears DEF r
<1>5. Listed(s, 1 .. N) = E
  <2>1. s \in [1 .. N -> E] /\ \A x \in E : \E i \in 1 .. N : s[i] = x
    BY <1>3 DEF Lists
  <2> QED
    BY <2>1 DEF Listed
<1>6. proposals' = Remaining(E) /\ world' \in World
  BY <1>1, <1>4, <1>5 DEF Cleared
<1>7. \A id \in Ids :
        \/ world'.applied[id] = world.applied[id]
        \/ /\ id \in E
           /\ world'.applied[id] = world.applied[id] + Len(proposals[id].ops)
  BY <1>1, <1>4, <1>5 DEF Cleared
<1>8. E # {} => N > 0
  <2>1. N \in Nat /\ \A x \in E : \E i \in 1 .. N : s[i] = x
    BY <1>3 DEF Lists
  <2> QED
    BY <2>1
<1>9. ASSUME NEW id \in E, id = s[1], is_authorized_to_execute(world, proposals[id]),
             Try(world, id, proposals[id].ops).ok
      PROVE  world'.applied[id] = world.applied[id] + Len(proposals[id].ops)
  BY <1>1, <1>4, <1>8, <1>9 DEF Cleared
<1> QED
  BY <1>2, <1>3, <1>6, <1>7, <1>9 DEF E, s

(* clear_expired_proposals                                                 *)
LEMMA ClearProceeds ==
  ASSUME ProposalsInv, clear_expired_proposals
  PROVE  Proceeds
<1> DEFINE E == Expired(now + 1)
<1>1. now \in 1 .. MaxTime /\ now < MaxTime /\ now' = now + 1 /\ proposed' = proposed
  BY DEF clear_expired_proposals, ProposalsInv
<1>2. now' \in 1 .. MaxTime /\ now <= now'
  BY <1>1, ProposalAssumption
<1>3. /\ E \subseteq DOMAIN proposals /\ world' \in World /\ proposals' = Remaining(E)
      /\ \A id \in Ids :
           \/ world'.applied[id] = world.applied[id]
           \/ /\ id \in E
              /\ world'.applied[id] = world.applied[id] + Len(proposals[id].ops)
  BY ClearFacts
<1>4. \A id \in DOMAIN proposals \ E : proposals[id].expiration_time > now'
  <2> SUFFICES ASSUME NEW id \in DOMAIN proposals, id \notin E
               PROVE  proposals[id].expiration_time > now'
    OBVIOUS
  <2>1. proposals[id].expiration_time \in Nat
    BY ProposalFacts DEF Proposal
  <2>2. ~(proposals[id].expiration_time <= now + 1)
    BY DEF Expired
  <2> QED
    BY <1>1, <2>1, <2>2
<1> HIDE DEF E
<1>5. /\ DOMAIN proposals' = DOMAIN proposals \ E
      /\ \A id \in DOMAIN proposals \ E : proposals'[id] = proposals[id]
      /\ proposals' \in [DOMAIN proposals \ E -> Proposal]
  BY <1>3 DEF Remaining, ProposalsInv, NumbersInv
<1> QED
  BY <1>1, <1>2, <1>3, <1>4, <1>5, SameTermsSelf DEF Proceeds
-----------------------------------------------------------------------------
(* The theorems                                                            *)

(* Genesis                                                                 *)
LEMMA InitProposalsInv == Init => ProposalsInv
<1> SUFFICES ASSUME Init PROVE ProposalsInv
  OBVIOUS
<1>1. world \in World /\ now \in 1 .. MaxTime /\ \A id \in Ids : world.applied[id] = 0
  BY ProposalAssumption DEF Init, Ids
<1>2. proposed = <<>> /\ proposals = <<>> /\ DOMAIN proposed = {} /\ DOMAIN proposals = {}
      /\ Len(proposed) = 0 /\ proposed \in Seq(Made)
  BY DEF Init
<1>3. NumbersInv
  BY <1>2, ProposalAssumption DEF NumbersInv
<1>4. TraceInv /\ ReviewInv /\ AllOrNothing
  BY <1>1, <1>2 DEF TraceInv, ReviewInv, AllOrNothing
<1> QED
  BY <1>1, <1>3, <1>4 DEF ProposalsInv

(* What a step does, whichever it is.                                      *)
LEMMA NextProposalsInv == ProposalsInv /\ [Next]_vars => ProposalsInv'
<1> SUFFICES ASSUME ProposalsInv, [Next]_vars PROVE ProposalsInv'
  OBVIOUS
<1>1. ASSUME NEW ops \in Proposable, NEW lifetime \in Lifetimes, NEW review \in ReviewPeriods,
             proposal_create(ops, lifetime, review)
      PROVE  ProposalsInv'
  BY <1>1, CreateInv
<1>2. ASSUME NEW id \in DOMAIN proposals, NEW u \in Updates, proposal_update(id, u)
      PROVE  ProposalsInv'
  BY <1>2, UpdateProceeds, ProceedsInv
<1>3. ASSUME NEW id \in DOMAIN proposals, NEW vetoer \in Accounts, proposal_delete(id, vetoer)
      PROVE  ProposalsInv'
  BY <1>3, DeleteProceeds, ProceedsInv
<1>4. CASE clear_expired_proposals
  BY <1>4, ClearProceeds, ProceedsInv
<1>5. ASSUME NEW op \in Direct, Transact(op) PROVE ProposalsInv'
  BY <1>5, TransactProceeds, ProceedsInv
<1>6. ASSUME NEW a \in Accounts, Deposit(a) PROVE ProposalsInv'
  BY <1>6, DepositProceeds, ProceedsInv
<1>7. CASE UNCHANGED vars
  BY <1>7 DEF vars, ProposalsInv, NumbersInv, TraceInv, ReviewInv, AllOrNothing, InReview,
              Unapproved
<1> QED
  BY <1>1, <1>2, <1>3, <1>4, <1>5, <1>6, <1>7 DEF Next

(* The inductive invariant holds in every reachable state.                 *)
THEOREM ProposalsInvariant == Spec => []ProposalsInv
<1>1. Init => ProposalsInv
  BY InitProposalsInv
<1>2. ProposalsInv /\ [Next]_vars => ProposalsInv'
  BY NextProposalsInv
<1> QED
  BY <1>1, <1>2, PTL DEF Spec

(* The state keeps its types: in particular funds never go below zero,     *)
(* whatever a proposal tries, and only accounts are asked for approval.    *)
THEOREM ProposalsTypeCorrect == Spec => []TypeOK
<1>1. ProposalsInv => TypeOK
  BY DEF ProposalsInv, NumbersInv, TypeOK
<1> QED
  BY <1>1, ProposalsInvariant, PTL

(* For any operations, authorities and number of proposals, a proposal is  *)
(* applied whole or not at all, at most once, and none outlives its        *)
(* expiration (database.cpp:2813-2835, 3034-3054).                         *)
THEOREM ProposalsAreAllOrNothing == Spec => []AllOrNothing
<1>1. ProposalsInv => AllOrNothing
  BY DEF ProposalsInv
<1> QED
  BY <1>1, ProposalsInvariant, PTL

(* Which steps apply the operations of a proposal: an update of a proposal *)
(* without a review, or the block of its expiration.                       *)
LEMMA AppliedWhen ==
  ASSUME ProposalsInv, Next, NEW id \in DOMAIN proposals,
         proposals[id].review_period_time # NoReview,
         world'.applied[id] # world.applied[id]
  PROVE  now' = proposals[id].expiration_time
<1>0. id \in Ids /\ world \in World /\ proposals[id].expiration_time > now
      /\ proposals[id] \in Proposal
  BY ProposalFacts DEF ProposalsInv
<1>1. ASSUME NEW ops \in Proposable, NEW lifetime \in Lifetimes, NEW review \in ReviewPeriods,
             proposal_create(ops, lifetime, review)
      PROVE  FALSE
  BY <1>1 DEF proposal_create
<1>2. ASSUME NEW x \in DOMAIN proposals, NEW u \in Updates, proposal_update(x, u)
      PROVE  FALSE
  <2> DEFINE p == updated(proposals[x], u)
             tried == push_proposal(world, x, p.ops)
  <2>1. x \in Ids /\ proposals[x] \in Proposal /\ proposals[x].ops \in Seq(Operation)
    BY ProposalFacts
  <2>2. p \in Proposal /\ SameTerms(proposals[x], p)
    BY <1>2, <2>1, UpdatedKeeps DEF proposal_update
  <2>3. p.ops = proposals[x].ops /\ p.review_period_time = proposals[x].review_period_time
    BY <2>2 DEF SameTerms
  <2>4. /\ tried.ok => Executed(world, x, Len(proposals[x].ops), tried.world)
        /\ ~tried.ok => tried.world = world
    BY <1>0, <2>1, <2>3, PushResult
  <2>5. TriedNow(world, p) /\ world' = tried.world
    BY <1>2 DEF proposal_update
  <2>6. x # id
    BY <2>3, <2>5 DEF TriedNow
  <2> QED
    BY <1>0, <2>4, <2>5, <2>6 DEF Executed
<1>3. ASSUME NEW x \in DOMAIN proposals, NEW vetoer \in Accounts, proposal_delete(x, vetoer)
      PROVE  FALSE
  BY <1>3 DEF proposal_delete
<1>4. CASE clear_expired_proposals
  <2>1. id \in Expired(now + 1)
    BY <1>0, <1>4, ClearFacts
  <2>2. proposals[id].expiration_time <= now + 1 /\ now' = now + 1
    BY <1>4, <2>1 DEF Expired, clear_expired_proposals
  <2>3. proposals[id].expiration_time \in Nat /\ now \in Nat
    BY <1>0, ProposalAssumption DEF Proposal, ProposalsInv
  <2> QED
    BY <1>0, <2>2, <2>3
<1>5. ASSUME NEW op \in Direct, Transact(op) PROVE FALSE
  <2>1. op \in Operation
    BY ProposalAssumption
  <2> QED
    BY <1>0, <1>5, <2>1, ApplyKeepsWorld DEF Transact
<1>6. ASSUME NEW a \in Accounts, Deposit(a) PROVE FALSE
  <2>1. world'.applied = world.applied
    BY <1>0, <1>6 DEF Deposit, World
  <2> QED
    BY <2>1
<1> QED
  BY <1>1, <1>2, <1>3, <1>4, <1>5, <1>6 DEF Next

(* What ReviewRespected says of a step.                                    *)
ReviewedStep ==
  \A id \in DOMAIN proposals :
    LET p == proposals[id]
    IN  p.review_period_time # NoReview =>
          /\ world'.applied[id] # world.applied[id] => now' = p.expiration_time
          /\ InReview(p) => p.active_approvals \cup p.owner_approvals = {}

(* A proposal with a review period is executed at its expiration only, and *)
(* no account approves it during the review                                *)
(* (proposal_evaluator.cpp:176-178, 233-241).                              *)
THEOREM ReviewsAreRespected == Spec => ReviewRespected
<1>1. ProposalsInv /\ [Next]_vars => ReviewedStep
  <2> SUFFICES ASSUME ProposalsInv, [Next]_vars, NEW id \in DOMAIN proposals,
                      proposals[id].review_period_time # NoReview
               PROVE  /\ world'.applied[id] # world.applied[id] =>
                           now' = proposals[id].expiration_time
                      /\ InReview(proposals[id]) =>
                           proposals[id].active_approvals \cup proposals[id].owner_approvals = {}
    BY DEF ReviewedStep
  <2>1. InReview(proposals[id]) =>
          proposals[id].active_approvals \cup proposals[id].owner_approvals = {}
    BY DEF ProposalsInv, ReviewInv, Unapproved
  <2>2. CASE Next
    BY <2>1, <2>2, AppliedWhen
  <2>3. CASE UNCHANGED vars
    BY <2>1, <2>3 DEF vars
  <2> QED
    BY <2>2, <2>3
<1> QED
  BY <1>1, ProposalsInvariant, PTL DEF Spec, ReviewRespected, ReviewedStep

(* What EndsForAReason says of a step.                                     *)
ReasonedStep ==
  \A id \in DOMAIN proposals \ DOMAIN proposals' :
    \/ world'.applied[id] = Len(proposals[id].ops)
    \/ \E a \in proposals[id].can_veto : proposal_delete(id, a)
    \/ /\ now' = proposals[id].expiration_time
       /\ \/ ~is_authorized_to_execute(world, proposals[id])
          \/ ~Try(world, id, proposals[id].ops).ok
          \/ \E other \in Expired(now') : other < id

(* The first in the list of expired proposals, all of which expire now, is *)
(* the one with the smallest id.                                           *)
LEMMA FirstExpired ==
  ASSUME ProposalsInv, NEW id \in Expired(now + 1), \A x \in Expired(now + 1) : ~(x < id),
         Lists(ByExpiration(Expired(now + 1)), Expired(now + 1))
  PROVE  id = ByExpiration(Expired(now + 1))[1]
<1> DEFINE E == Expired(now + 1)
           s == ByExpiration(E)
           N == Cardinality(E)
<1>1. ASSUME NEW x \in E PROVE x \in Int /\ proposals[x].expiration_time = now + 1
  <2>1. x \in DOMAIN proposals /\ proposals[x].expiration_time <= now + 1
    BY DEF Expired
  <2>2. x \in Ids /\ proposals[x].expiration_time > now /\ proposals[x] \in Proposal
    BY <2>1, ProposalFacts
  <2>3. proposals[x].expiration_time \in Nat /\ now \in Nat /\ x \in Int
    BY <2>2, ProposalAssumption DEF Proposal, ProposalsInv, Ids
  <2> QED
    BY <2>1, <2>2, <2>3
<1>2. /\ s \in [1 .. N -> E] /\ N \in Nat
      /\ \A i, j \in 1 .. N : i < j => Sooner(s[i], s[j])
      /\ \E i \in 1 .. N : s[i] = id
  BY DEF Lists
<1>3. \A x \in E : ~(x < id)
  OBVIOUS
<1> HIDE DEF E, s, N
<1>4. PICK i \in 1 .. N : s[i] = id
  BY <1>2
<1>5. 1 \in 1 .. N
  BY <1>2
<1>6. ASSUME i # 1 PROVE FALSE
  <2>1. 1 < i
    BY <1>2, <1>6
  <2>2. Sooner(s[1], s[i]) /\ s[1] \in E /\ s[i] \in E
    BY <1>2, <1>5, <2>1
  <2>3. s[1] < s[i]
    <3>1. proposals[s[1]].expiration_time = proposals[s[i]].expiration_time
          /\ proposals[s[1]].expiration_time = now + 1 /\ now \in Nat
      BY <1>1, <2>2, ProposalAssumption DEF ProposalsInv
    <3> QED
      BY <2>2, <3>1 DEF Sooner
  <2> QED
    BY <1>3, <1>4, <2>2, <2>3
<1> QED
  BY <1>4, <1>6 DEF E, s

(* A proposal that is gone was executed, vetoed, or expired without the    *)
(* approvals or with operations that fail                                  *)
(* (proposal_evaluator.cpp:233-258, database.cpp:3034-3054).               *)
THEOREM ProposalsEndForAReason == Spec => EndsForAReason
<1>1. ProposalsInv /\ [Next]_vars => ReasonedStep
  <2> SUFFICES ASSUME ProposalsInv, [Next]_vars,
                      NEW id \in DOMAIN proposals \ DOMAIN proposals'
               PROVE  \/ world'.applied[id] = Len(proposals[id].ops)
                      \/ \E a \in proposals[id].can_veto : proposal_delete(id, a)
                      \/ /\ now' = proposals[id].expiration_time
                         /\ \/ ~is_authorized_to_execute(world, proposals[id])
                            \/ ~Try(world, id, proposals[id].ops).ok
                            \/ \E other \in Expired(now') : other < id
    BY DEF ReasonedStep
  <2>0. /\ id \in DOMAIN proposals /\ id \in Ids /\ world \in World /\ world.applied[id] = 0
        /\ proposals[id].expiration_time > now /\ Len(proposals[id].ops) \in Nat
        /\ proposals[id] \in Proposal
    BY ProposalFacts DEF ProposalsInv
  <2>1. ASSUME NEW ops \in Proposable, NEW lifetime \in Lifetimes, NEW review \in ReviewPeriods,
               proposal_create(ops, lifetime, review)
        PROVE  FALSE
    BY <2>1 DEF proposal_create
  <2>2. ASSUME NEW x \in DOMAIN proposals, NEW u \in Updates, proposal_update(x, u)
        PROVE  world'.applied[id] = Len(proposals[id].ops)
    <3> DEFINE p == updated(proposals[x], u)
               tried == push_proposal(world, x, p.ops)
    <3>1. x \in Ids /\ proposals[x] \in Proposal /\ proposals[x].ops \in Seq(Operation)
      BY ProposalFacts
    <3>2. p \in Proposal /\ SameTerms(proposals[x], p)
      BY <2>2, <3>1, UpdatedKeeps DEF proposal_update
    <3>3. p.ops = proposals[x].ops
      BY <3>2 DEF SameTerms
    <3>4. tried.ok => Executed(world, x, Len(proposals[x].ops), tried.world)
      BY <2>0, <3>1, <3>3, PushResult
    <3>5. \/ tried.ok /\ world' = tried.world /\ proposals' = Without(proposals, x)
          \/ proposals' = [proposals EXCEPT ![x] = p]
      BY <2>2 DEF proposal_update
    <3> HIDE DEF p, tried
    <3>6. tried.ok /\ world' = tried.world /\ x = id
      BY <3>5 DEF Without
    <3>7. world'.applied[id] = world.applied[id] + Len(proposals[id].ops)
      BY <3>4, <3>6 DEF Executed
    <3> QED
      BY <2>0, <3>7
  <2>3. ASSUME NEW x \in DOMAIN proposals, NEW vetoer \in Accounts, proposal_delete(x, vetoer)
        PROVE  \E a \in proposals[id].can_veto : proposal_delete(id, a)
    <3>1. x = id
      BY <2>3 DEF proposal_delete, Without
    <3>2. vetoer \in proposals[id].can_veto
      BY <2>3, <3>1 DEF proposal_delete
    <3> QED
      BY <2>3, <3>1, <3>2
  <2>4. ASSUME clear_expired_proposals, is_authorized_to_execute(world, proposals[id]),
               Try(world, id, proposals[id].ops).ok, \A x \in Expired(now') : ~(x < id)
        PROVE  world'.applied[id] = Len(proposals[id].ops)
    <3>1. now' = now + 1
      BY <2>4 DEF clear_expired_proposals
    <3>2. id \in Expired(now + 1)
      BY <2>0, <2>4, ClearFacts DEF Remaining
    <3>3. id = ByExpiration(Expired(now + 1))[1]
      BY <2>4, <3>1, <3>2, ClearFacts, FirstExpired
    <3>4. world'.applied[id] = world.applied[id] + Len(proposals[id].ops)
      BY <2>4, <3>2, <3>3, ClearFacts
    <3> QED
      BY <2>0, <3>4
  <2>5. ASSUME clear_expired_proposals PROVE now' = proposals[id].expiration_time
    <3>1. id \in Expired(now + 1)
      BY <2>0, <2>5, ClearFacts DEF Remaining
    <3>2. proposals[id].expiration_time <= now + 1 /\ now' = now + 1
      BY <2>5, <3>1 DEF Expired, clear_expired_proposals
    <3>3. proposals[id].expiration_time \in Nat /\ now \in Nat
      BY <2>0, ProposalAssumption DEF Proposal, ProposalsInv
    <3> QED
      BY <2>0, <3>2, <3>3
  <2>6. ASSUME proposals' = proposals PROVE FALSE
    BY <2>6
  <2>7. CASE clear_expired_proposals
    BY <2>4, <2>5, <2>7
  <2>8. CASE Next
    BY <2>1, <2>2, <2>3, <2>6, <2>7, <2>8 DEF Next, Transact, Deposit
  <2> QED
    BY <2>6, <2>8 DEF vars
<1> QED
  BY <1>1, ProposalsInvariant, PTL DEF Spec, EndsForAReason, ReasonedStep
=============================================================================
