------------------------------ MODULE Proposals ------------------------------
(***************************************************************************)
(* Proposed transactions (chain/proposal_evaluator.cpp, proposal_object.cpp, *)
(* database.cpp), from hardfork 0.3 on.                                    *)
(*                                                                         *)
(* A proposal waits for the approval of the accounts whose authority its   *)
(* operations need.  It is tried when an update leaves it with enough      *)
(* approvals, and a last time when it expires; with a review period it is  *)
(* tried only then, and may not be approved during the review.  A trial    *)
(* that fails is undone.                                                   *)
(*                                                                         *)
(* The operations that are proposed are one of each kind of authority.     *)
(* They can also be made directly, by a transaction with the signatures    *)
(* they need; the funds of an account change in other ways as well.        *)
(***************************************************************************)
EXTENDS Authorities

CONSTANTS Contents,
          Proposable,      \* sequences of operations that are proposed
          Direct,          \* operations that are made directly
          InitialWorld,
          MaxProposals,    \* bound: proposals made in all
          MaxFunds,        \* bound: funds of an account
          MaxTime,         \* bound: head_block_time
          Lifetimes,       \* time to expiration
          ReviewPeriods    \* review_period_seconds, or NoReview

VARIABLES world,      \* the objects the operations read and change
          proposals,  \* proposal_objects by id
          now,        \* head_block_time
          proposed    \* history: what there was when each proposal was made

vars == <<world, proposals, now, proposed>>

NoAccount == "none"
NoReview == -1

Operation ==
  [kind : {"transfer", "friendship"}, who : Accounts]
  \cup [kind : {"update_active", "update_owner"}, who : Accounts, new : Authority]
  \cup [kind : {"content_update"}, who : Contents, new : Authority]

(* applied counts the operations of a proposal that have been applied.     *)
World ==
  [funds : [Accounts -> 0 .. MaxFunds],
   active : [Accounts -> Authority], owner : [Accounts -> Authority],
   manage_master : [Contents -> Authority],
   applied : [1 .. MaxProposals -> Nat]]

Proposal ==
  [ops : Proposable, expiration_time : Nat, review_period_time : Nat \cup {NoReview},
   required_active : SUBSET Accounts, required_owner : SUBSET Accounts,
   required_basic : SUBSET Accounts, can_veto : SUBSET Accounts,
   active_approvals : SUBSET Accounts, owner_approvals : SUBSET Accounts,
   key_approvals : SUBSET Keys]

ASSUME ProposalAssumption ==
  /\ InitialWorld \in World
  /\ \A id \in 1 .. MaxProposals : InitialWorld.applied[id] = 0
  /\ Proposable \subseteq Seq(Operation) /\ Direct \subseteq Operation
  /\ MaxProposals \in Nat /\ MaxFunds \in Nat /\ MaxTime \in Nat \ {0}
  /\ Lifetimes \subseteq Nat /\ ReviewPeriods \subseteq Nat \cup {NoReview}

-----------------------------------------------------------------------------
(* Operations and the authority they need                                  *)

Whose(ops, kinds) == {ops[i].who : i \in {j \in DOMAIN ops : ops[j].kind \in kinds}}

needs_active(ops) == Whose(ops, {"transfer", "update_active"})
needs_owner(ops) == Whose(ops, {"update_owner"})
needs_content(ops) == Whose(ops, {"content_update"})

(* Active or owner authority also covers basic authority.                  *)
needs_basic(ops) == Whose(ops, {"friendship"}) \ (needs_active(ops) \cup needs_owner(ops))

Combinable(ops) ==
  needs_basic(ops) # {} => needs_active(ops) \cup needs_owner(ops) \cup needs_content(ops) = {}

CanApply(w, op) == op.kind = "transfer" => w.funds[op.who] > 0

apply_operation(w, op) ==
  CASE op.kind = "transfer" -> [w EXCEPT !.funds[op.who] = @ - 1]
    [] op.kind = "friendship" -> w
    [] op.kind = "update_active" -> [w EXCEPT !.active[op.who] = op.new]
    [] op.kind = "update_owner" -> [w EXCEPT !.owner[op.who] = op.new]
    [] op.kind = "content_update" -> [w EXCEPT !.manage_master[op.who] = op.new]

(* verify_authority_v2 of the proposed operations, with the approvals: the *)
(* basic authority itself is not among the ones that are checked.          *)
is_authorized_to_execute(w, p) ==
  LET account(a, auths) == [met |-> FALSE, account |-> a, auths |-> auths]
      demands ==
        [i \in DOMAIN InOrder(needs_basic(p.ops)) |->
           LET a == InOrder(needs_basic(p.ops))[i]
           IN  account(a, <<w.active[a], w.active[a], w.owner[a]>>)]
        \o [i \in DOMAIN InOrder(needs_active(p.ops)) |->
              LET a == InOrder(needs_active(p.ops))[i]
              IN  account(a, <<w.active[a], w.owner[a]>>)]
        \o [i \in DOMAIN SetToSeq(needs_content(p.ops)) |->
              account(NoAccount, <<w.manage_master[SetToSeq(needs_content(p.ops))[i]]>>)]
        \o [i \in DOMAIN InOrder(needs_owner(p.ops)) |->
              LET a == InOrder(needs_owner(p.ops))[i]
              IN  [account(NoAccount, <<w.owner[a]>>) EXCEPT !.met = a \in p.owner_approvals]]
      start == [ok |-> TRUE, approved_by |-> p.active_approvals \cup p.owner_approvals]
  IN  /\ Combinable(p.ops)
      /\ FoldLeft(LAMBDA s, d : meet(w.active, p.key_approvals, s, d), start, demands).ok

-----------------------------------------------------------------------------
(* Trying a proposal                                                       *)

(* One operation, unless one before it has failed.                         *)
TryNext(id, r, op) ==
  IF r.ok /\ CanApply(r.world, op)
  THEN [ok |-> TRUE,
        world |-> [apply_operation(r.world, op) EXCEPT !.applied[id] = @ + 1]]
  ELSE [r EXCEPT !.ok = FALSE]

Try(w, id, ops) ==
  FoldLeft(LAMBDA r, op : TryNext(id, r, op), [ok |-> TRUE, world |-> w], ops)

\* Faulty variant of push_proposal: no undo session around the operations.
push_proposal_bare(w, id, ops) == Try(w, id, ops)

push_proposal(w, id, ops) ==
  IF Try(w, id, ops).ok THEN Try(w, id, ops) ELSE [ok |-> FALSE, world |-> w]

Without(ps, id) == [i \in DOMAIN ps \ {id} |-> ps[i]]

(* The accounts with keys that a content's authority leads to.             *)
collect(w, auth) ==
  LET nested[depth \in 0 .. MaxRecursion] ==
        IF depth = 0 THEN auth.accounts
        ELSE UNION {w.active[a].accounts : a \in nested[depth - 1]}
  IN  {a \in UNION {nested[d] : d \in 0 .. MaxRecursion} : w.active[a].keys # {}}

-----------------------------------------------------------------------------
(* Actions                                                                 *)

Authorities == <<world.active, world.owner, world.manage_master>>

proposal_create(ops, lifetime, review) ==
  LET contents == UNION {collect(world, world.manage_master[c]) : c \in needs_content(ops)}
      p == [ops |-> ops, expiration_time |-> now + lifetime,
            review_period_time |-> IF review = NoReview THEN NoReview ELSE now + review,
            required_active |-> (needs_active(ops) \cup contents) \ needs_owner(ops),
            required_owner |-> needs_owner(ops),
            required_basic |-> needs_basic(ops),
            can_veto |-> needs_active(ops) \cup needs_owner(ops) \cup Whose(ops, {"friendship"}),
            active_approvals |-> {}, owner_approvals |-> {}, key_approvals |-> {}]
      id == Len(proposed) + 1
  IN  /\ Len(proposed) < MaxProposals
      /\ lifetime > 0
      /\ review < lifetime
      /\ Combinable(ops)
      /\ proposals' = [i \in DOMAIN proposals \cup {id} |-> IF i = id THEN p ELSE proposals[i]]
      /\ proposed' = Append(proposed, [length |-> Len(ops), authorities |-> Authorities])
      /\ UNCHANGED <<world, now>>

Update ==
  [active_to_add : SUBSET Accounts, active_to_remove : SUBSET Accounts,
   owner_to_add : SUBSET Accounts, owner_to_remove : SUBSET Accounts,
   key_to_add : SUBSET Keys, key_to_remove : SUBSET Keys]

(* validate, and the assertions of the evaluator                           *)
InReview(p) == p.review_period_time # NoReview /\ now <= p.review_period_time

MayUpdate(p, u) ==
  /\ u.active_to_add \cap u.active_to_remove = {}
  /\ u.owner_to_add \cap u.owner_to_remove = {}
  /\ u.key_to_add \cap u.key_to_remove = {}
  /\ InReview(p) => u.active_to_add = {} /\ u.owner_to_add = {}
  /\ u.active_to_remove \subseteq p.active_approvals
  /\ u.owner_to_remove \subseteq p.owner_approvals
  /\ u.active_to_add \subseteq (p.required_active \cup p.required_basic) \ p.active_approvals
  /\ u.owner_to_add \subseteq
       (p.required_owner \cup p.required_active \cup p.required_basic) \ p.owner_approvals

updated(p, u) ==
  [p EXCEPT !.active_approvals = (@ \cup u.active_to_add) \ u.active_to_remove,
            !.owner_approvals = (@ \cup u.owner_to_add) \ u.owner_to_remove,
            !.key_approvals = (@ \cup u.key_to_add) \ u.key_to_remove]

\* Faulty variant of TriedNow: the review period is forgotten once it is over.
TriedNow_after_review(w, p) == ~InReview(p) /\ is_authorized_to_execute(w, p)

TriedNow(w, p) == p.review_period_time = NoReview /\ is_authorized_to_execute(w, p)

proposal_update(id, u) ==
  LET p == updated(proposals[id], u)
      tried == push_proposal(world, id, p.ops)
  IN  /\ MayUpdate(proposals[id], u)
      /\ \/ /\ TriedNow(world, p) /\ tried.ok
            /\ world' = tried.world
            /\ proposals' = Without(proposals, id)
         \/ /\ TriedNow(world, p) /\ ~tried.ok
            /\ world' = tried.world
            /\ proposals' = [proposals EXCEPT ![id] = p]
         \/ /\ ~TriedNow(world, p)
            /\ UNCHANGED world
            /\ proposals' = [proposals EXCEPT ![id] = p]
      /\ UNCHANGED <<now, proposed>>

proposal_delete(id, vetoer) ==
  /\ vetoer \in proposals[id].can_veto
  /\ proposals' = Without(proposals, id)
  /\ UNCHANGED <<world, now, proposed>>

\* Faulty variant of expire: there is no last trial.
expire_untried(s, id) == [s EXCEPT !.proposals = Without(s.proposals, id)]

(* One turn of clear_expired_proposals.  Executed, failed or without the   *)
(* approvals, the proposal is removed.                                     *)
expire(s, id) ==
  [world |-> IF is_authorized_to_execute(s.world, s.proposals[id])
             THEN push_proposal(s.world, id, s.proposals[id].ops).world
             ELSE s.world,
   proposals |-> Without(s.proposals, id)]

Expired(time) == {id \in DOMAIN proposals : proposals[id].expiration_time <= time}

(* by_expiration: by time, then by id                                      *)
Sooner(i, j) ==
  \/ proposals[i].expiration_time < proposals[j].expiration_time
  \/ proposals[i].expiration_time = proposals[j].expiration_time /\ i < j

ByExpiration(ids) ==
  CHOOSE s \in SetToSeqs(ids) : \A i, j \in DOMAIN s : i < j => Sooner(s[i], s[j])

ExpireAll(ids) ==
  FoldLeft(LAMBDA s, id : expire(s, id), [world |-> world, proposals |-> proposals], ids)

clear_expired_proposals ==
  /\ now < MaxTime
  /\ now' = now + 1
  /\ \E s \in {ExpireAll(ByExpiration(Expired(now + 1)))} :
       world' = s.world /\ proposals' = s.proposals
  /\ UNCHANGED proposed

(* An operation in a transaction of its own, with its signatures.          *)
Transact(op) ==
  /\ CanApply(world, op)
  /\ world' = apply_operation(world, op)
  /\ UNCHANGED <<proposals, now, proposed>>

Deposit(a) ==
  /\ world.funds[a] < MaxFunds
  /\ world' = [world EXCEPT !.funds[a] = @ + 1]
  /\ UNCHANGED <<proposals, now, proposed>>

Init ==
  /\ world = InitialWorld
  /\ proposals = <<>>
  /\ now = 1
  /\ proposed = <<>>

(* Bound: an update gives or withdraws one approval, or moves an account's *)
(* from one kind to the other.                                             *)
NoChange == [active_to_add |-> {}, active_to_remove |-> {}, owner_to_add |-> {},
             owner_to_remove |-> {}, key_to_add |-> {}, key_to_remove |-> {}]
Updates ==
  (UNION {{[NoChange EXCEPT !.active_to_add = {a}], [NoChange EXCEPT !.active_to_remove = {a}],
           [NoChange EXCEPT !.owner_to_add = {a}], [NoChange EXCEPT !.owner_to_remove = {a}],
           [NoChange EXCEPT !.owner_to_add = {a}, !.active_to_remove = {a}],
           [NoChange EXCEPT !.active_to_add = {a}, !.owner_to_remove = {a}]} : a \in Accounts})
  \cup (UNION {{[NoChange EXCEPT !.key_to_add = {k}], [NoChange EXCEPT !.key_to_remove = {k}]}
                : k \in Keys})

Next ==
  \/ \E ops \in Proposable, lifetime \in Lifetimes, review \in ReviewPeriods :
       proposal_create(ops, lifetime, review)
  \/ \E id \in DOMAIN proposals, u \in Updates : proposal_update(id, u)
  \/ \E id \in DOMAIN proposals, vetoer \in Accounts : proposal_delete(id, vetoer)
  \/ clear_expired_proposals
  \/ \E op \in Direct : Transact(op)
  \/ \E a \in Accounts : Deposit(a)

Spec == Init /\ [][Next]_vars

-----------------------------------------------------------------------------

TypeOK ==
  /\ world \in World
  /\ \A id \in DOMAIN proposals : proposals[id] \in Proposal
  /\ now \in 1 .. MaxTime
  /\ DOMAIN proposals \subseteq DOMAIN proposed

(* However often a proposal is tried, its operations are applied together  *)
(* or not at all, and only once: one that is still there has left no trace *)
(* (push_proposal, database.cpp:2813-2835), and none outlives its          *)
(* expiration, failed or not (clear_expired_proposals, 3035-3055).         *)
AllOrNothing ==
  \A id \in DOMAIN proposed :
    /\ world.applied[id] \in {0, proposed[id].length}
    /\ id \in DOMAIN proposals
         => world.applied[id] = 0 /\ proposals[id].expiration_time > now

(* The accounts a content's authority needs can meet it without keys.      *)
ByAccounts(auth) == Cardinality(auth.accounts) >= auth.threshold

(* The approvals that a proposal asks for are enough to execute it, unless *)
(* an authority has changed since or a content's authority asks for keys;  *)
(* the author was "not yet 100% sure [they] are sufficient"                *)
(* (proposal_evaluator.cpp:219-221).                                       *)
RequiredSuffice ==
  \A id \in DOMAIN proposals :
    LET p == proposals[id]
    IN  /\ p.required_active \cup p.required_basic \subseteq p.active_approvals \cup p.owner_approvals
        /\ p.required_owner \subseteq p.owner_approvals
        /\ proposed[id].authorities = Authorities
        /\ \A c \in needs_content(p.ops) : ByAccounts(world.manage_master[c])
        => is_authorized_to_execute(world, p)

(* "Proposals with a review period may never be executed except at their   *)
(* expiration" (proposal_evaluator.cpp:241), and no account's approval     *)
(* that executes one was there when its review ended.                      *)
ReviewRespected ==
  [][\A id \in DOMAIN proposals :
       LET p == proposals[id]
       IN  p.review_period_time # NoReview =>
             /\ world'.applied[id] # world.applied[id] => now' = p.expiration_time
             /\ InReview(p) => p.active_approvals \cup p.owner_approvals = {}]_vars

(* A proposal ends by being executed, by the veto of an account it needs,  *)
(* or at its expiration; and then, if it is the first of the block, only   *)
(* when the approvals do not suffice or its operations fail: no update     *)
(* that removes or adds approvals loses it.                                *)
EndsForAReason ==
  [][\A id \in DOMAIN proposals \ DOMAIN proposals' :
       \/ world'.applied[id] = Len(proposals[id].ops)
       \/ \E a \in proposals[id].can_veto : proposal_delete(id, a)
       \/ /\ now' = proposals[id].expiration_time
          /\ \/ ~is_authorized_to_execute(world, proposals[id])
             \/ ~Try(world, id, proposals[id].ops).ok
             \/ \E other \in Expired(now') : other < id]_vars

=============================================================================
