---------------------------- MODULE Sync_proofs -----------------------------
(***************************************************************************)
(* Proofs about the synchronisation of a node with its peers, for any      *)
(* number of peers, any chains of theirs and any limits of the node.       *)
(*                                                                         *)
(* Two facts carry the argument.  Requests: a block that is asked for is   *)
(* owed by one peer at most.  Order: a valid block reaches the queue of    *)
(* the chain database only when its predecessor is in the chain or ahead   *)
(* of it in the queue, so that only invalid blocks are ever refused.       *)
(***************************************************************************)
EXTENDS Sync, FoldTheorems, TLAPS

Ids == Nat \X Nat

-----------------------------------------------------------------------------
(* The inductive invariant.                                                *)

(* The queue of the chain database: the blocks handed to it, how many of   *)
(* them it has answered for, and the head of its chain.                    *)
Queue == [blocks : Seq(Ids), done : Nat, head : Nat]
queue == [blocks |-> handling, done |-> Len(results), head |-> head]

(* b waits in the queue.                                                   *)
Pending(q, b) == \E j \in q.done + 1 .. Len(q.blocks) : q.blocks[j] = b

(* A valid block is in the chain, or on its way to it.                     *)
Handed(q, b) == is_valid(b) => block_num(b) <= q.head \/ Pending(q, b)

(* A valid block may follow: its predecessor is in the chain, or on its    *)
(* way to it.                                                              *)
Ready(q, b) ==
  is_valid(b) => block_num(b) <= q.head + 1 \/ Pending(q, <<block_num(b) - 1, 0>>)

(* No valid block waits ahead of its predecessor.                          *)
InOrder(q) ==
  \A j \in q.done + 1 .. Len(q.blocks) :
    is_valid(q.blocks[j]) =>
      \/ block_num(q.blocks[j]) <= q.head + 1
      \/ \E i \in q.done + 1 .. j - 1 : q.blocks[i] = <<block_num(q.blocks[j]) - 1, 0>>

(* The chain database has accepted exactly the valid blocks.               *)
Answered(q) ==
  /\ Len(results) <= Len(q.blocks)
  /\ \A j \in 1 .. Len(results) :
       /\ results[j] <=> is_valid(q.blocks[j])
       /\ is_valid(q.blocks[j]) => block_num(q.blocks[j]) <= q.head

(* s is a part of the first m blocks of p, without gaps.                   *)
Listed(p, m, s) ==
  \E k \in Nat : k + Len(s) <= m /\ \A i \in 1 .. Len(s) : s[i] = Chain[p][k + i]

(* A synopsis s that was sent when the list was longer at its front: it    *)
(* names the last block of the list, and beyond that only blocks we have.  *)
SynopsisInv(q, ids, s) ==
  /\ \A b \in s : Handed(q, b) \/ b \in ToSet(ids)
  /\ ids # <<>> =>
       /\ ids[Len(ids)] \in s
       /\ \A b \in s : \/ block_num(b) < block_num(ids[Len(ids)])
                       \/ b = ids[Len(ids)]
                       \/ is_valid(b) /\ block_num(b) <= q.head

(* The list of a peer starts where the queue and the chain end.            *)
PeerInv(q, m, p, r) ==
  /\ Listed(p, m, r.ids)
  /\ r.ids # <<>> => Ready(q, r.ids[1])
  /\ r.seen <= q.head
  /\ \A s \in r.asked : SynopsisInv(q, r.ids, s)
  /\ r.processing \subseteq ToSet(Chain[p])
  /\ p \in Reliable => ~r.inhibit

RequestsInv ==
  /\ RequestsOwed
  /\ \A p \in Peers : conn[p] = "off" => peer[p].requested = {}

OrderInv ==
  /\ InOrder(queue) /\ Answered(queue)
  /\ \A p \in Peers : PeerInv(queue, have[p], p, peer[p])
  /\ \A b \in accepted : is_valid(b) /\ block_num(b) <= head
  /\ ReliableNotBlamed

SyncInv == TypeOK /\ RequestsInv /\ OrderInv

-----------------------------------------------------------------------------
(* Blocks and chains.                                                      *)

(* A block is a pair of naturals.                                          *)
LEMMA BlockPair ==
  ASSUME NEW b \in Ids
  PROVE  block_num(b) \in Nat /\ (is_valid(b) => b = <<block_num(b), 0>>)
BY DEF Ids, block_num, is_valid

(* <<n, 0>> is the valid block number n.                                   *)
LEMMA ValidBlock ==
  ASSUME NEW n \in Nat
  PROVE  <<n, 0>> \in Ids /\ block_num(<<n, 0>>) = n /\ is_valid(<<n, 0>>)
BY DEF Ids, block_num, is_valid

(* The blocks of a peer are numbered from 1, and only valid ones precede a *)
(* valid one.                                                              *)
LEMMA ChainBlocks ==
  ASSUME NEW p \in Peers
  PROVE  /\ Len(Chain[p]) \in Nat
         /\ \A n \in 1 .. Len(Chain[p]) :
              /\ Chain[p][n] \in Ids /\ Chain[p][n] \in ToSet(Chain[p])
              /\ block_num(Chain[p][n]) = n
              /\ p \in Reliable => is_valid(Chain[p][n])
         /\ \A n \in 1 .. Len(Chain[p]) - 1 : is_valid(Chain[p][n + 1]) => is_valid(Chain[p][n])
<1>1. Chain[p] \in Seq(Nat \X Nat)
  BY SyncAssumption
<1>2. Len(Chain[p]) \in Nat /\ DOMAIN Chain[p] = 1 .. Len(Chain[p])
  BY <1>1
<1>3. \A n \in 1 .. Len(Chain[p]) : Chain[p][n] \in Nat \X Nat
  BY <1>1
<1>4. \A n \in 1 .. Len(Chain[p]) : Chain[p][n] \in ToSet(Chain[p])
  BY <1>2 DEF ToSet
<1>5. \A n \in 1 .. Len(Chain[p]) :
        block_num(Chain[p][n]) = n /\ (p \in Reliable => is_valid(Chain[p][n]))
  BY SyncAssumption DEF block_num, is_valid
<1>6. \A n \in 1 .. Len(Chain[p]) - 1 : is_valid(Chain[p][n + 1]) => is_valid(Chain[p][n])
  <2>1. ASSUME NEW n \in 1 .. Len(Chain[p]) - 1, is_valid(Chain[p][n + 1])
        PROVE  is_valid(Chain[p][n])
    <3>1. n + 1 \in 1 .. Len(Chain[p]) /\ n \in 1 .. n + 1
      BY <1>2
    <3> QED
      BY <2>1, <3>1, SyncAssumption DEF is_valid
  <2> QED
    BY <2>1
<1> QED
  BY <1>2, <1>3, <1>4, <1>5, <1>6 DEF Ids

(* What is listed of a peer, and how its blocks are numbered.              *)
LEMMA ListedBlocks ==
  ASSUME NEW p \in Peers, NEW m \in Nat, m <= Len(Chain[p]), NEW s \in Seq(Ids), Listed(p, m, s)
  PROVE  \E k \in Nat : /\ k + Len(s) <= m
                        /\ \A i \in 1 .. Len(s) :
                             /\ s[i] = Chain[p][k + i] /\ s[i] \in Ids
                             /\ block_num(s[i]) = k + i /\ s[i] \in ToSet(Chain[p])
<1>1. PICK k \in Nat : k + Len(s) <= m /\ \A i \in 1 .. Len(s) : s[i] = Chain[p][k + i]
  BY DEF Listed
<1>2. Len(s) \in Nat /\ \A i \in 1 .. Len(s) : s[i] \in Ids /\ k + i \in 1 .. Len(Chain[p])
  BY <1>1, ChainBlocks
<1> QED
  BY <1>1, <1>2, ChainBlocks

-----------------------------------------------------------------------------
(* Synopses.                                                               *)

(* The next number of a synopsis up to high.                               *)
NextHalf(high, low) == low + ((high - low + 2) \div 2)

HalvesFrom(high, f) ==
  f = [low \in 1 .. high |->
         {low} \cup (IF NextHalf(high, low) <= high THEN f[NextHalf(high, low)] ELSE {})]

(* The equation of Halves has a solution: the numbers that lie in every    *)
(* set closed under the step.                                              *)
LEMMA HalvesExist ==
  ASSUME NEW high \in Nat
  PROVE  \E f : HalvesFrom(high, f)
<1> DEFINE S == 1 .. high
           N(x) == NextHalf(high, x)
           Closed(C) == \A z \in C : N(z) <= high => N(z) \in C
           R(x) == {y \in S : \A C \in SUBSET S : x \in C /\ Closed(C) => y \in C}
           f == [x \in S |-> R(x)]
<1>1. \A x \in S : N(x) \in Nat /\ x < N(x) /\ (x < high => N(x) <= high)
  BY DEF NextHalf
<1> HIDE DEF N
<1>2. ASSUME NEW x \in S
      PROVE  R(x) \subseteq S /\ x \in R(x) /\ Closed(R(x))
  <2>1. ASSUME NEW z \in R(x), N(z) <= high PROVE N(z) \in R(x)
    BY <1>1, <2>1
  <2> QED
    BY <2>1
<1>3. ASSUME NEW x \in S
      PROVE  R(x) = {x} \cup (IF N(x) <= high THEN R(N(x)) ELSE {})
  <2>1. CASE N(x) <= high
    <3>1. N(x) \in S
      BY <1>1, <2>1
    <3>2. R(N(x)) \subseteq R(x)
      BY <3>1, <2>1
    <3> DEFINE C == {x} \cup R(N(x))
    <3>3. C \in SUBSET S /\ x \in C /\ Closed(C)
      BY <3>1, <1>2
    <3>4. R(x) \subseteq C
      BY <3>3
    <3> QED
      BY <2>1, <1>2, <3>2, <3>4
  <2>2. CASE ~(N(x) <= high)
    <3> DEFINE C == {x}
    <3>1. C \in SUBSET S /\ x \in C /\ Closed(C)
      BY <2>2
    <3>2. R(x) \subseteq C
      BY <3>1
    <3> QED
      BY <2>2, <3>2, <1>2
  <2> QED
    BY <2>1, <2>2
<1>4. ASSUME NEW x \in S
      PROVE  f[x] = {x} \cup (IF N(x) <= high THEN f[N(x)] ELSE {})
  <2>1. CASE N(x) <= high
    <3>1. N(x) \in S
      BY <1>1, <2>1
    <3> HIDE DEF R
    <3> QED
      BY <1>3, <2>1, <3>1
  <2>2. CASE ~(N(x) <= high)
    <3> HIDE DEF R
    <3> QED
      BY <1>3, <2>2
  <2> QED
    BY <2>1, <2>2
<1> HIDE DEF R
<1>5. f = [x \in S |-> {x} \cup (IF N(x) <= high THEN f[N(x)] ELSE {})]
  <2>1. f = [x \in S |-> f[x]]
    OBVIOUS
  <2> HIDE DEF f
  <2> QED
    BY <1>4, <2>1
<1> QED
  BY <1>5 DEF HalvesFrom, N

(* A synopsis up to high names numbers up to high, and high itself.        *)
LEMMA HalvesReach ==
  ASSUME NEW high \in Nat
  PROVE  Halves(high) \subseteq 1 .. high /\ (high # 0 => high \in Halves(high))
<1> DEFINE h == CHOOSE f : HalvesFrom(high, f)
           N(x) == NextHalf(high, x)
<1>1. HalvesFrom(high, h)
  BY HalvesExist
<1>2. Halves(high) = IF high = 0 THEN {} ELSE h[1]
  BY DEF Halves, HalvesFrom, NextHalf
<1> HIDE DEF h
<1>3. \A x \in 1 .. high : h[x] = {x} \cup (IF N(x) <= high THEN h[N(x)] ELSE {})
  BY <1>1 DEF HalvesFrom
<1>4. \A x \in 1 .. high : N(x) \in Nat /\ x < N(x) /\ (x < high => N(x) <= high)
  BY DEF NextHalf
<1> HIDE DEF N
<1> DEFINE Good(x) == h[x] \subseteq 1 .. high /\ high \in h[x]
           T == {n \in Nat : \E x \in 1 .. high : high - x = n /\ ~Good(x)}
<1>5. T = {}
  <2> SUFFICES ASSUME T # {} PROVE FALSE
    OBVIOUS
  <2>1. PICK n \in T : \A i \in T : n <= i
    BY LeastNatural
  <2>2. PICK x \in 1 .. high : high - x = n /\ ~Good(x)
    BY <2>1
  <2>3. CASE N(x) <= high
    <3>1. N(x) \in 1 .. high /\ high - N(x) \in Nat /\ high - N(x) < n
      BY <1>4, <2>2, <2>3
    <3>2. Good(N(x))
      BY <2>1, <3>1
    <3> QED
      BY <1>3, <2>2, <2>3, <3>2
  <2>4. CASE ~(N(x) <= high)
    <3>1. x = high
      BY <1>4, <2>2, <2>4
    <3> QED
      BY <1>3, <2>2, <2>4, <3>1
  <2> QED
    BY <2>3, <2>4
<1>6. ASSUME NEW x \in 1 .. high PROVE Good(x)
  <2>1. high - x \in Nat
    OBVIOUS
  <2> HIDE DEF Good
  <2> QED
    BY <1>5, <2>1
<1> QED
  BY <1>2, <1>6
(* What a peer is asked about: blocks we have, and blocks it has listed,   *)
(* the last of them included.                                              *)
LEMMA SynopsisOf ==
  ASSUME NEW q \in Queue, NEW p \in Peers, NEW m \in Nat, m <= Len(Chain[p]),
         NEW r \in PeerRecord, Listed(p, m, r.ids), r.seen <= q.head
  PROVE  /\ create_blockchain_synopsis_for_peer(r, q.head) \in SUBSET Ids
         /\ SynopsisInv(q, r.ids, create_blockchain_synopsis_for_peer(r, q.head))
<1> DEFINE ids == r.ids
           seen == r.seen
           hd == q.head
           high == IF seen = 0 THEN hd ELSE seen
           own == IF high = 0 THEN {} ELSE Halves(high + Len(ids)) \cap 1 .. high
           first == IF ids = <<>> THEN 1 ELSE block_num(ids[1])
           listed == {n \in Halves(first + Len(ids) - 1) : n >= first /\ ids # <<>>}
           A == {<<n, 0>> : n \in own}
           B == {ids[n - first + 1] : n \in listed}
           s == A \cup B
<1>0. create_blockchain_synopsis_for_peer(r, q.head) = s
  BY DEF create_blockchain_synopsis_for_peer
<1>1. ids \in Seq(Ids) /\ seen \in Nat /\ hd \in Nat /\ Listed(p, m, ids) /\ seen <= hd
  BY DEF PeerRecord, Queue, Ids
<1> HIDE DEF ids, seen, hd
<1>2. high \in Nat /\ high <= hd
  BY <1>1
<1>3. own \subseteq 1 .. high
  OBVIOUS
<1> HIDE DEF high, own
<1>4. \A b \in A : b \in Ids /\ is_valid(b) /\ block_num(b) <= hd
  BY <1>1, <1>2, <1>3, ValidBlock
<1>5. ASSUME ids = <<>> PROVE B = {}
  BY <1>5
<1>6. ASSUME ids # <<>>
      PROVE  /\ B \subseteq Ids /\ B \subseteq ToSet(ids) /\ ids[Len(ids)] \in B
             /\ \A b \in B : \/ block_num(b) < block_num(ids[Len(ids)])
                             \/ b = ids[Len(ids)]
  <2>1. PICK k \in Nat : /\ k + Len(ids) <= m
                        /\ \A i \in 1 .. Len(ids) :
                             /\ ids[i] = Chain[p][k + i] /\ ids[i] \in Ids
                             /\ block_num(ids[i]) = k + i /\ ids[i] \in ToSet(Chain[p])
    BY <1>1, ListedBlocks
  <2>2. Len(ids) \in Nat \ {0} /\ DOMAIN ids = 1 .. Len(ids)
    BY <1>1, <1>6
  <2>3. first = k + 1
    BY <1>6, <2>1, <2>2
  <2> HIDE DEF first
  <2> DEFINE top == first + Len(ids) - 1
  <2>4. top = k + Len(ids) /\ top \in Nat \ {0}
    BY <2>2, <2>3
  <2>5. Halves(top) \subseteq 1 .. top /\ top \in Halves(top)
    BY <2>4, HalvesReach
  <2>6. listed = {n \in Halves(top) : n >= first}
    BY <1>6
  <2> HIDE DEF top, listed
  <2>7. \A n \in listed : n \in Nat /\ first <= n /\ n <= top
    BY <2>4, <2>5, <2>6
  <2>8. \A n \in listed : n - first + 1 \in 1 .. Len(ids)
    BY <2>2, <2>3, <2>4, <2>7
  <2>9. top \in listed /\ top - first + 1 = Len(ids)
    BY <2>2, <2>3, <2>4, <2>5, <2>6
  <2>10. B \subseteq Ids /\ B \subseteq ToSet(ids)
    BY <2>1, <2>2, <2>8 DEF ToSet
  <2>11. ids[Len(ids)] \in B
    BY <2>9
  <2>12. ASSUME NEW n \in listed
         PROVE  \/ block_num(ids[n - first + 1]) < block_num(ids[Len(ids)])
                \/ ids[n - first + 1] = ids[Len(ids)]
    <3> DEFINE i == n - first + 1
    <3>1. i \in 1 .. Len(ids)
      BY <2>8
    <3> HIDE DEF i
    <3>2. block_num(ids[i]) = k + i /\ block_num(ids[Len(ids)]) = k + Len(ids)
      BY <2>1, <2>2, <3>1
    <3>3. i = Len(ids) \/ k + i < k + Len(ids)
      <4>1. ASSUME NEW l \in Nat, i \in 1 .. l PROVE i = l \/ k + i < k + l
        BY ONLY <4>1, k \in Nat
      <4> QED
        BY ONLY <4>1, <2>2, <3>1
    <3> QED
      BY <3>2, <3>3 DEF i
  <2> QED
    BY <2>10, <2>11, <2>12
<1>7. s \in SUBSET Ids
  BY <1>4, <1>5, <1>6
<1>8. \A b \in s : Handed(q, b) \/ b \in ToSet(ids)
  BY <1>4, <1>5, <1>6 DEF Handed, hd
<1>9. ids # <<>> =>
       /\ ids[Len(ids)] \in s
       /\ \A b \in s : \/ block_num(b) < block_num(ids[Len(ids)])
                       \/ b = ids[Len(ids)]
                       \/ is_valid(b) /\ block_num(b) <= hd
  BY <1>4, <1>6
<1> HIDE DEF s
<1> QED
  BY <1>0, <1>7, <1>8, <1>9 DEF SynopsisInv, ids, hd

(* Without a list, a peer is asked about blocks we have.                   *)
LEMMA NoList ==
  ASSUME NEW p \in Peers, NEW m \in Nat
  PROVE  Listed(p, m, <<>>)
<1>1. 0 \in Nat /\ Len(<<>>) = 0 /\ 0 + 0 <= m /\ (1 .. 0) = {}
  OBVIOUS
<1> QED
  BY <1>1 DEF Listed

(* Asking the peer for ids keeps its invariant.                            *)
LEMMA FetchIds ==
  ASSUME NEW q \in Queue, NEW p \in Peers, NEW m \in Nat, m <= Len(Chain[p]),
         NEW r \in PeerRecord, PeerInv(q, m, p, [r EXCEPT !.asked = {}])
  PROVE  /\ fetch_next_batch_of_item_ids(r, q.head) \in PeerRecord
         /\ PeerInv(q, m, p, fetch_next_batch_of_item_ids(r, q.head))
         /\ fetch_next_batch_of_item_ids(r, q.head).requested = r.requested
<1> DEFINE s == create_blockchain_synopsis_for_peer(r, q.head)
           t == [r EXCEPT !.asked = {s}]
<1>1. t = fetch_next_batch_of_item_ids(r, q.head)
  BY DEF fetch_next_batch_of_item_ids
<1>2. Listed(p, m, r.ids) /\ r.seen <= q.head
  BY DEF PeerInv, PeerRecord
<1>3. s \in SUBSET Ids /\ SynopsisInv(q, r.ids, s)
  BY <1>2, SynopsisOf
<1> HIDE DEF s
<1>4. t \in PeerRecord /\ t.requested = r.requested
  BY <1>3 DEF PeerRecord, Ids
<1>5. /\ t.ids = r.ids /\ t.seen = r.seen /\ t.asked = {s} /\ t.processing = r.processing
      /\ t.inhibit = r.inhibit
  BY DEF PeerRecord
<1> HIDE DEF t
<1>6. /\ r.ids # <<>> => Ready(q, r.ids[1])
      /\ r.processing \subseteq ToSet(Chain[p]) /\ (p \in Reliable => ~r.inhibit)
  BY DEF PeerInv, PeerRecord
<1>7. PeerInv(q, m, p, t)
  BY <1>2, <1>3, <1>5, <1>6 DEF PeerInv
<1> QED
  BY <1>1, <1>4, <1>7
(* A peer from which the synchronisation starts over.                      *)
LEMMA StartSync ==
  ASSUME NEW q \in Queue, NEW p \in Peers, NEW m \in Nat, m <= Len(Chain[p]),
         NEW r \in PeerRecord, r.processing \subseteq ToSet(Chain[p])
  PROVE  /\ start_synchronizing_with_peer(r, q.head) \in PeerRecord
         /\ PeerInv(q, m, p, start_synchronizing_with_peer(r, q.head))
         /\ start_synchronizing_with_peer(r, q.head).requested = r.requested
<1> DEFINE t == [r EXCEPT !.ids = <<>>, !.unfetched = 0, !.need = TRUE, !.seen = 0,
                          !.inhibit = FALSE]
           u == [t EXCEPT !.asked = {}]
<1>1. start_synchronizing_with_peer(r, q.head) = fetch_next_batch_of_item_ids(t, q.head)
  BY DEF start_synchronizing_with_peer
<1>2. t \in PeerRecord /\ t.requested = r.requested
  <2> DEFINE yes == TRUE
             no == FALSE
             none == <<>>
  <2>1. yes \in BOOLEAN /\ no \in BOOLEAN /\ none \in Seq(Nat \X Nat)
    OBVIOUS
  <2>2. t = [r EXCEPT !.ids = none, !.unfetched = 0, !.need = yes, !.seen = 0, !.inhibit = no]
    OBVIOUS
  <2> HIDE DEF yes, no, none, t
  <2>3. t = [need |-> yes, ids |-> none, unfetched |-> 0, processing |-> r.processing,
             asked |-> r.asked, requested |-> r.requested, inhibit |-> no,
             needs_us |-> r.needs_us, seen |-> 0]
    BY <2>2 DEF PeerRecord
  <2> QED
    BY <2>1, <2>3 DEF PeerRecord
<1>3. /\ u.ids = <<>> /\ u.seen = 0 /\ u.asked = {} /\ u.processing = r.processing
      /\ ~u.inhibit
  BY DEF PeerRecord
<1>4. Listed(p, m, <<>>) /\ 0 <= q.head
  BY NoList DEF Queue
<1> HIDE DEF t
<1>5. PeerInv(q, m, p, u)
  <2> HIDE DEF u
  <2> QED
    BY <1>3, <1>4 DEF PeerInv
<1> QED
  BY <1>1, <1>2, <1>5, FetchIds

(* Only the list, the block seen last, the questions, the blocks in        *)
(* processing and the inhibition matter.                                   *)
LEMMA SamePeer ==
  ASSUME NEW q, NEW m, NEW p, NEW r, NEW t, PeerInv(q, m, p, r),
         t.ids = r.ids, t.seen = r.seen, t.asked \subseteq r.asked,
         t.processing \subseteq r.processing, p \in Reliable => ~t.inhibit
  PROVE  PeerInv(q, m, p, t)
BY DEF PeerInv

-----------------------------------------------------------------------------
(* The queue.                                                              *)

(* Whatever was handed over or ready stays so.                             *)
Leads(q, t) ==
  /\ q.head <= t.head
  /\ \A b \in Ids : /\ Handed(q, b) => Handed(t, b)
                    /\ Ready(q, b) => Ready(t, b)

(* The invariant of a peer survives what the queue and its chain do.       *)
LEMMA PeerInvKept ==
  ASSUME NEW q \in Queue, NEW t \in Queue, Leads(q, t), NEW p \in Peers,
         NEW m \in Nat, NEW n \in Nat, m <= n, NEW r \in PeerRecord, PeerInv(q, m, p, r)
  PROVE  PeerInv(t, n, p, r)
<1>1. /\ r.ids \in Seq(Ids) /\ r.asked \in SUBSET SUBSET Ids /\ r.seen \in Nat
      /\ q.head \in Nat /\ t.head \in Nat /\ q.head <= t.head
  BY DEF PeerRecord, Queue, Ids, Leads
<1>2. Listed(p, n, r.ids)
  <2>1. PICK k \in Nat : /\ k + Len(r.ids) <= m
                         /\ \A i \in 1 .. Len(r.ids) : r.ids[i] = Chain[p][k + i]
    BY DEF PeerInv, Listed
  <2>2. k + Len(r.ids) <= n
    BY <1>1, <2>1
  <2> QED
    BY <2>1, <2>2 DEF Listed
<1>3. r.ids # <<>> => Ready(t, r.ids[1])
  <2>1. r.ids # <<>> => r.ids[1] \in Ids
    BY <1>1
  <2> QED
    BY <2>1 DEF PeerInv, Leads
<1>4. r.seen <= t.head
  BY <1>1 DEF PeerInv
<1>5. ASSUME NEW s \in r.asked PROVE SynopsisInv(t, r.ids, s)
  <2>1. SynopsisInv(q, r.ids, s) /\ s \subseteq Ids
    BY <1>1 DEF PeerInv
  <2>2. \A b \in s : Handed(t, b) \/ b \in ToSet(r.ids)
    BY <2>1 DEF SynopsisInv, Leads
  <2>3. \A b \in s : block_num(b) \in Nat
    BY <2>1, BlockPair
  <2>4. \A b \in s : block_num(b) <= q.head => block_num(b) <= t.head
    BY <1>1, <2>3
  <2> QED
    BY <2>1, <2>2, <2>4 DEF SynopsisInv
<1> QED
  BY <1>2, <1>3, <1>4, <1>5 DEF PeerInv

(* A block on its way may follow what is there.                            *)
LEMMA HandedReady ==
  ASSUME NEW q \in Queue, InOrder(q), NEW b \in Ids, Handed(q, b)
  PROVE  Ready(q, b)
<1> SUFFICES ASSUME is_valid(b)
             PROVE  block_num(b) <= q.head + 1 \/ Pending(q, <<block_num(b) - 1, 0>>)
  BY DEF Ready
<1>1. q.head \in Nat /\ q.done \in Nat /\ Len(q.blocks) \in Nat /\ block_num(b) \in Nat
  BY BlockPair DEF Queue
<1>2. CASE block_num(b) <= q.head
  BY <1>1, <1>2
<1>3. CASE Pending(q, b)
  <2>1. PICK j \in q.done + 1 .. Len(q.blocks) : q.blocks[j] = b
    BY <1>3 DEF Pending
  <2>2. CASE block_num(b) <= q.head + 1
    BY <2>2
  <2>3. CASE \E i \in q.done + 1 .. j - 1 : q.blocks[i] = <<block_num(b) - 1, 0>>
    <3>1. \A i \in q.done + 1 .. j - 1 : i \in q.done + 1 .. Len(q.blocks)
      BY <1>1, <2>1
    <3> QED
      BY <2>3, <3>1 DEF Pending
  <2> QED
    BY <2>1, <2>2, <2>3 DEF InOrder
<1> QED
  BY <1>2, <1>3 DEF Handed

(* When a block is on its way, the next one of the chain may follow.       *)
LEMMA NextReady ==
  ASSUME NEW q \in Queue, NEW p \in Peers, NEW n \in 1 .. Len(Chain[p]) - 1,
         Handed(q, Chain[p][n])
  PROVE  Ready(q, Chain[p][n + 1])
<1>1. Len(Chain[p]) \in Nat
  BY ChainBlocks
<1>2. n \in 1 .. Len(Chain[p]) /\ n + 1 \in 1 .. Len(Chain[p]) /\ (n + 1) - 1 = n
  BY <1>1
<1>3. /\ block_num(Chain[p][n]) = n /\ block_num(Chain[p][n + 1]) = n + 1
      /\ Chain[p][n] \in Ids /\ (is_valid(Chain[p][n + 1]) => is_valid(Chain[p][n]))
  BY <1>2, ChainBlocks
<1>4. ASSUME is_valid(Chain[p][n + 1])
      PROVE  n + 1 <= q.head + 1 \/ Pending(q, <<n, 0>>)
  <2>1. Chain[p][n] = <<n, 0>>
    BY <1>3, <1>4, BlockPair
  <2>2. n <= q.head \/ Pending(q, <<n, 0>>)
    BY <1>3, <1>4, <2>1 DEF Handed
  <2>3. q.head \in Nat /\ n \in Nat
    BY <1>1 DEF Queue
  <2> QED
    BY <2>2, <2>3
<1> QED
  BY <1>2, <1>3, <1>4 DEF Ready
(* The queue t has the blocks of q that wait, and perhaps more; what it    *)
(* lacks is in its chain.                                                  *)
Covers(q, t) ==
  /\ q.head <= t.head
  /\ \A b \in Ids : Pending(q, b) =>
       Pending(t, b) \/ (is_valid(b) => block_num(b) <= t.head)

(* Then it leads on from q.                                                *)
LEMMA CoversLeads ==
  ASSUME NEW q \in Queue, NEW t \in Queue, Covers(q, t)
  PROVE  Leads(q, t)
<1>1. q.head \in Nat /\ t.head \in Nat /\ q.head <= t.head
  BY DEF Queue, Covers
<1>2. ASSUME NEW b \in Ids, Handed(q, b) PROVE Handed(t, b)
  <2>1. block_num(b) \in Nat
    BY BlockPair
  <2>2. block_num(b) <= q.head => block_num(b) <= t.head
    BY <1>1, <2>1
  <2> QED
    BY <1>2, <2>2 DEF Handed, Covers
<1>3. ASSUME NEW b \in Ids, Ready(q, b) PROVE Ready(t, b)
  <2> SUFFICES ASSUME is_valid(b)
               PROVE  block_num(b) <= t.head + 1 \/ Pending(t, <<block_num(b) - 1, 0>>)
    BY DEF Ready
  <2>1. block_num(b) \in Nat
    BY BlockPair
  <2>2. CASE block_num(b) <= q.head + 1
    BY <1>1, <2>1, <2>2
  <2>3. CASE ~(block_num(b) <= q.head + 1)
    <3> DEFINE n == block_num(b) - 1
    <3>1. n \in Nat /\ n + 1 = block_num(b)
      BY <1>1, <2>1, <2>3
    <3> HIDE DEF n
    <3>2. <<n, 0>> \in Ids /\ block_num(<<n, 0>>) = n /\ is_valid(<<n, 0>>)
      BY <3>1, ValidBlock
    <3>3. Pending(q, <<n, 0>>)
      BY <1>3, <2>3 DEF Ready, n
    <3>4. Pending(t, <<n, 0>>) \/ n <= t.head
      BY <3>2, <3>3 DEF Covers
    <3>5. n <= t.head => block_num(b) <= t.head + 1
      BY <1>1, <3>1
    <3> QED
      BY <3>4, <3>5 DEF n
  <2> QED
    BY <2>2, <2>3
<1> QED
  BY <1>1, <1>2, <1>3 DEF Leads

(* t is the queue q with b at its end.                                     *)
Appended(q, b, t) ==
  t = [blocks |-> Append(q.blocks, b), done |-> q.done, head |-> q.head]

(* Handing a block over that may follow.                                   *)
LEMMA QueueAppend ==
  ASSUME NEW q \in Queue, InOrder(q), q.done <= Len(q.blocks), NEW b \in Ids, Ready(q, b),
         NEW t, Appended(q, b, t)
  PROVE  /\ t \in Queue /\ InOrder(t) /\ Leads(q, t) /\ Handed(t, b)
         /\ t.done = q.done /\ t.head = q.head
         /\ t.done <= Len(t.blocks)
         /\ Len(q.blocks) <= Len(t.blocks)
         /\ \A j \in 1 .. Len(q.blocks) : t.blocks[j] = q.blocks[j]
<1> DEFINE l == Len(q.blocks)
           h == q.blocks
           g == Append(q.blocks, b)
<1>1. h \in Seq(Ids) /\ l \in Nat /\ q.done \in Nat /\ q.head \in Nat /\ q.done <= l
  BY DEF Queue
<1>2. /\ g \in Seq(Ids) /\ Len(g) = l + 1 /\ g[l + 1] = b
      /\ \A j \in 1 .. l : g[j] = h[j]
  BY <1>1
<1>3. t \in Queue /\ t.done = q.done /\ t.head = q.head /\ t.blocks = g
  BY <1>1, <1>2 DEF Queue, Appended
<1> HIDE DEF g, h, l
<1>4. \A x : Pending(q, x) => Pending(t, x)
  <2>1. \A j \in q.done + 1 .. l : j \in 1 .. l /\ j \in q.done + 1 .. l + 1
    BY <1>1
  <2> QED
    BY <1>2, <1>3, <2>1 DEF Pending, l, h
<1>5. Pending(t, b)
  <2>1. l + 1 \in q.done + 1 .. l + 1
    BY <1>1
  <2> QED
    BY <1>2, <1>3, <2>1 DEF Pending
<1>6. Leads(q, t)
  <2>1. q.head <= t.head
    BY <1>1, <1>3
  <2> QED
    BY <1>3, <1>4, <2>1, CoversLeads DEF Covers
<1>7. ASSUME NEW j \in t.done + 1 .. Len(t.blocks), is_valid(t.blocks[j])
      PROVE  \/ block_num(t.blocks[j]) <= t.head + 1
             \/ \E i \in t.done + 1 .. j - 1 : t.blocks[i] = <<block_num(t.blocks[j]) - 1, 0>>
  <2>1. j \in q.done + 1 .. l + 1 /\ j \in Int
    BY <1>1, <1>2, <1>3
  <2>2. CASE j = l + 1
    <3>1. t.blocks[j] = b
      BY <1>2, <1>3, <2>2
    <3>2. block_num(b) <= q.head + 1 \/ Pending(q, <<block_num(b) - 1, 0>>)
      BY <1>7, <3>1 DEF Ready
    <3>3. \A i \in q.done + 1 .. l : i \in 1 .. l /\ i \in t.done + 1 .. j - 1
      BY <1>1, <1>3, <2>2
    <3> QED
      BY <1>2, <1>3, <3>1, <3>2, <3>3 DEF Pending, l, h
  <2>3. CASE j # l + 1
    <3>1. j \in q.done + 1 .. l /\ j \in 1 .. l /\ \A i \in q.done + 1 .. j - 1 : i \in 1 .. l
      BY <1>1, <2>1, <2>3
    <3>2. t.blocks[j] = h[j] /\ \A i \in q.done + 1 .. j - 1 : t.blocks[i] = h[i]
      BY <1>2, <1>3, <3>1
    <3>3. \/ block_num(h[j]) <= q.head + 1
          \/ \E i \in q.done + 1 .. j - 1 : h[i] = <<block_num(h[j]) - 1, 0>>
      BY <1>7, <3>1, <3>2 DEF InOrder, l, h
    <3> QED
      BY <1>3, <3>2, <3>3
  <2> QED
    BY <2>2, <2>3
<1>8. InOrder(t)
  BY <1>7 DEF InOrder
<1>9. Handed(t, b)
  BY <1>5 DEF Handed
<1>10. t.done <= l + 1 /\ l <= l + 1 /\ l + 1 = Len(t.blocks)
  BY <1>1, <1>2, <1>3
<1> QED
  BY <1>1, <1>2, <1>3, <1>6, <1>8, <1>9, <1>10 DEF l, h

(* The chain database answers for the first block that waits: a valid one  *)
(* is accepted.                                                            *)
LEMMA QueueAnswer ==
  ASSUME NEW q \in Queue, InOrder(q), q.done < Len(q.blocks), NEW b, b = q.blocks[q.done + 1],
         NEW hd \in Nat, NEW t, t = [blocks |-> q.blocks, done |-> q.done + 1, head |-> hd],
         q.head <= hd, is_valid(b) /\ block_num(b) <= q.head + 1 => block_num(b) <= hd
  PROVE  /\ t \in Queue /\ InOrder(t) /\ Leads(q, t)
         /\ is_valid(b) => block_num(b) <= q.head + 1
<1> DEFINE l == Len(q.blocks)
           h == q.blocks
           d == q.done
<1>1. h \in Seq(Ids) /\ l \in Nat /\ d \in Nat /\ q.head \in Nat /\ d < l /\ d + 1 \in Nat
  BY DEF Queue
<1>2. t \in Queue /\ t.done = d + 1 /\ t.head = hd /\ t.blocks = h
  BY <1>1 DEF Queue
<1> HIDE DEF l, h, d
<1>3. b = h[d + 1] /\ b \in Ids /\ d + 1 \in d + 1 .. l /\ block_num(b) \in Nat
  BY <1>1, BlockPair DEF h, d, l
<1>4. \A j \in d + 1 .. l : is_valid(h[j]) =>
        \/ block_num(h[j]) <= q.head + 1
        \/ \E i \in d + 1 .. j - 1 : h[i] = <<block_num(h[j]) - 1, 0>>
  BY DEF InOrder, h, d, l
<1>5. is_valid(b) => block_num(b) <= q.head + 1
  <2>1. \A i : i \notin d + 1 .. (d + 1) - 1
    BY <1>1
  <2> QED
    BY <1>3, <1>4, <2>1
<1>6. Leads(q, t)
  <2>1. ASSUME NEW x \in Ids, Pending(q, x)
        PROVE  Pending(t, x) \/ (is_valid(x) => block_num(x) <= t.head)
    <3>1. PICK j \in d + 1 .. l : h[j] = x
      BY <2>1 DEF Pending, d, h, l
    <3>2. CASE j = d + 1
      BY <1>2, <1>3, <1>5, <3>1, <3>2
    <3>3. CASE j # d + 1
      <4>1. j \in t.done + 1 .. Len(t.blocks)
        BY <1>1, <1>2, <3>1, <3>3 DEF h, l
      <4> QED
        BY <1>2, <3>1, <4>1 DEF Pending
    <3> QED
      BY <3>2, <3>3
  <2> QED
    BY <1>2, <2>1, CoversLeads DEF Covers
<1>7. ASSUME NEW j \in t.done + 1 .. Len(t.blocks), is_valid(t.blocks[j])
      PROVE  \/ block_num(t.blocks[j]) <= t.head + 1
             \/ \E i \in t.done + 1 .. j - 1 : t.blocks[i] = <<block_num(t.blocks[j]) - 1, 0>>
  <2>1. j \in d + 1 .. l /\ j \in d + 2 .. l /\ t.blocks[j] = h[j] /\ Len(t.blocks) = l
    BY <1>1, <1>2 DEF h, l
  <2>2. h[j] \in Ids /\ block_num(h[j]) \in Nat
    <3>1. j \in 1 .. l
      BY <1>1, <2>1
    <3>2. h[j] \in Ids
      BY <1>1, <3>1 DEF l, h
    <3> QED
      BY <3>2, BlockPair
  <2>3. CASE block_num(h[j]) <= q.head + 1
    <3>1. block_num(h[j]) <= hd + 1
      BY <1>1, <2>2, <2>3
    <3> QED
      BY <1>2, <2>1, <3>1
  <2>4. CASE \E i \in d + 1 .. j - 1 : h[i] = <<block_num(h[j]) - 1, 0>>
    <3>1. PICK i \in d + 1 .. j - 1 : h[i] = <<block_num(h[j]) - 1, 0>>
      BY <2>4
    <3>2. CASE i = d + 1
      <4>1. block_num(b) = block_num(h[j]) - 1 /\ is_valid(b)
        BY <1>3, <3>1, <3>2 DEF block_num, is_valid
      <4>2. block_num(b) <= hd
        BY <1>5, <4>1
      <4>3. block_num(h[j]) <= hd + 1
        BY <1>3, <2>2, <4>1, <4>2
      <4> QED
        BY <1>2, <2>1, <4>3
    <3>3. CASE i # d + 1
      <4>1. i \in t.done + 1 .. j - 1
        BY <1>1, <1>2, <2>1, <3>1, <3>3
      <4> QED
        BY <1>2, <2>1, <3>1, <4>1
    <3> QED
      BY <3>2, <3>3
  <2> QED
    BY <1>4, <1>7, <2>1, <2>3, <2>4
<1> QED
  BY <1>2, <1>5, <1>6, <1>7 DEF InOrder
(* The first block of the queue, which was answered for, leaves it.        *)
LEMMA QueueShift ==
  ASSUME NEW q \in Queue, InOrder(q), q.done # 0, q.done <= Len(q.blocks),
         NEW t, t = [blocks |-> Tail(q.blocks), done |-> q.done - 1, head |-> q.head]
  PROVE  /\ t \in Queue /\ InOrder(t) /\ Leads(q, t)
         /\ Len(t.blocks) = Len(q.blocks) - 1
         /\ \A j \in 1 .. Len(q.blocks) - 1 : t.blocks[j] = q.blocks[j + 1]
<1> DEFINE l == Len(q.blocks)
           h == q.blocks
           g == Tail(q.blocks)
           d == q.done
<1>1. h \in Seq(Ids) /\ l \in Nat /\ d \in Nat \ {0} /\ q.head \in Nat /\ d <= l
  BY DEF Queue
<1>2. g \in Seq(Ids) /\ Len(g) = l - 1 /\ \A j \in 1 .. l - 1 : g[j] = h[j + 1]
  BY <1>1
<1>3. t \in Queue /\ t.done = d - 1 /\ t.head = q.head /\ t.blocks = g
  BY <1>1, <1>2 DEF Queue
<1> HIDE DEF l, h, g, d
<1>4. Leads(q, t)
  <2>1. ASSUME NEW x \in Ids, Pending(q, x) PROVE Pending(t, x)
    <3>1. PICK j \in d + 1 .. l : h[j] = x
      BY <2>1 DEF Pending, d, h, l
    <3>2. j - 1 \in 1 .. l - 1 /\ (j - 1) + 1 = j /\ j - 1 \in (d - 1) + 1 .. l - 1
      BY <1>1, <3>1
    <3>3. g[j - 1] = x
      BY <1>2, <3>1, <3>2
    <3> QED
      BY <1>2, <1>3, <3>2, <3>3 DEF Pending
  <2>2. q.head <= t.head
    BY <1>1, <1>3
  <2> QED
    BY <1>3, <2>1, <2>2, CoversLeads DEF Covers
<1>5. ASSUME NEW j \in t.done + 1 .. Len(t.blocks), is_valid(t.blocks[j])
      PROVE  \/ block_num(t.blocks[j]) <= t.head + 1
             \/ \E i \in t.done + 1 .. j - 1 : t.blocks[i] = <<block_num(t.blocks[j]) - 1, 0>>
  <2>0. j \in (d - 1) + 1 .. l - 1
    BY <1>2, <1>3
  <2>1. j \in 1 .. l - 1 /\ j + 1 \in d + 1 .. l /\ (j + 1) - 1 = j /\ j \in Int
    <3>1. l \in Nat /\ d \in Nat \ {0}
      BY <1>1
    <3> QED
      BY ONLY <2>0, <3>1
  <2>2. t.blocks[j] = h[j + 1]
    BY <1>2, <1>3, <2>1
  <2>3. \/ block_num(h[j + 1]) <= q.head + 1
        \/ \E i \in d + 1 .. j : h[i] = <<block_num(h[j + 1]) - 1, 0>>
    BY <1>5, <2>1, <2>2 DEF InOrder, d, h, l
  <2>4. ASSUME NEW i \in d + 1 .. j
        PROVE  i - 1 \in t.done + 1 .. j - 1 /\ t.blocks[i - 1] = h[i]
    <3>1. i - 1 \in 1 .. l - 1 /\ (i - 1) + 1 = i /\ i - 1 \in (d - 1) + 1 .. j - 1
      BY <1>1, <2>1, <2>4
    <3> QED
      BY <1>2, <1>3, <3>1
  <2> QED
    BY <1>3, <2>2, <2>3, <2>4
<1> QED
  BY <1>2, <1>3, <1>4, <1>5 DEF InOrder, l, h

(* The chain grows by itself.                                              *)
LEMMA QueueRaise ==
  ASSUME NEW q \in Queue, InOrder(q), NEW hd \in Nat, q.head <= hd,
         NEW t, t = [blocks |-> q.blocks, done |-> q.done, head |-> hd]
  PROVE  t \in Queue /\ InOrder(t) /\ Leads(q, t)
<1>1. /\ t \in Queue /\ t.done = q.done /\ t.head = hd /\ t.blocks = q.blocks
      /\ q.head \in Nat /\ q.blocks \in Seq(Ids) /\ q.done \in Nat
  BY DEF Queue
<1>2. Leads(q, t)
  BY <1>1, CoversLeads DEF Covers, Pending
<1>3. ASSUME NEW j \in q.done + 1 .. Len(q.blocks)
      PROVE  block_num(q.blocks[j]) <= q.head + 1 => block_num(q.blocks[j]) <= hd + 1
  <2>1. j \in 1 .. Len(q.blocks)
    BY <1>1
  <2>2. q.blocks[j] \in Ids
    BY <1>1, <2>1
  <2>3. block_num(q.blocks[j]) \in Nat
    BY <2>2, BlockPair
  <2> QED
    BY <1>1, <2>3
<1> HIDE DEF Queue
<1> QED
  BY <1>1, <1>2, <1>3 DEF InOrder

-----------------------------------------------------------------------------
(* Lists of ids.                                                           *)

(* An answer to a synopsis: it starts with a block that the synopsis       *)
(* names, the last one of the peer's that it names.                        *)
AnswerTo(p, m, s, list) ==
  /\ list \in Seq(Ids) /\ Listed(p, m, list)
  /\ list # <<>> =>
       IF s = {} THEN block_num(list[1]) = 1
       ELSE /\ list[1] \in s
            /\ \A n \in 1 .. m : Chain[p][n] \in s => n <= block_num(list[1])

(* get_block_ids gives such an answer.                                     *)
LEMMA AnswersFit ==
  ASSUME TypeOK, NEW p \in Peers, NEW s
  PROVE  AnswerTo(p, have[p], s, get_block_ids(ChainOf(p), s))
<1> DEFINE m == have[p]
           c == ChainOf(p)
           last == LastKnown(c, s)
           from == IF last = 0 THEN 1 ELSE last
           to == IF m < from + MaxIds - 1 THEN m ELSE from + MaxIds - 1
           known == {n \in 1 .. Len(c) : c[n] \in s}
<1>1. m \in Nat /\ m <= Len(Chain[p]) /\ Len(Chain[p]) \in Nat /\ Chain[p] \in Seq(Ids)
  BY SyncAssumption DEF TypeOK, Ids
<1>2. c \in Seq(Ids) /\ Len(c) = m /\ \A n \in 1 .. m : c[n] = Chain[p][n]
  BY <1>1 DEF ChainOf
<1>3. MaxIds \in Nat /\ MaxIds >= 2
  BY SyncAssumption
<1> HIDE DEF c, m
<1>4. last = IF known = {} THEN 0 ELSE CHOOSE n \in known : \A i \in known : i <= n
  BY DEF LastKnown
<1>13. known = {n \in 1 .. m : Chain[p][n] \in s}
  BY <1>2
<1>5. known # {} => last \in known /\ \A i \in known : i <= last
  <2>1. ASSUME known # {} PROVE \E n \in known : \A i \in known : i <= n
    <3>1. IsFiniteSet(1 .. m) /\ known \subseteq 1 .. m /\ known \subseteq Int
      BY <1>1, <1>2, FS_Interval
    <3>2. IsFiniteSet(known)
      BY <3>1, FS_Subset
    <3> HIDE DEF known
    <3> QED
      BY <2>1, <3>1, <3>2, FiniteMaximum
  <2> HIDE DEF last, known
  <2> QED
    BY <1>4, <2>1
<1>6. last \in 0 .. m /\ (last = 0 <=> known = {})
  <2>1. known = {} => last = 0
    BY <1>4
  <2> HIDE DEF last
  <2>2. known # {} => last \in 1 .. m
    BY <1>5, <1>13
  <2> QED
    BY <1>1, <2>1, <2>2
<1> HIDE DEF last
<1>7. from \in Nat \ {0} /\ to \in Int /\ to <= m /\ from <= m + 1 /\ from - 1 \in Nat
  BY <1>1, <1>3, <1>6
<1> DEFINE full == SubSeq(c, from, to)
           list == IF last = 0 /\ s # {} THEN <<>> ELSE full
<1>8. get_block_ids(c, s) = list
  BY <1>2 DEF get_block_ids, last
<1> HIDE DEF from, to
<1>9. /\ full \in Seq(Ids) /\ Len(full) = (IF from <= to THEN to - from + 1 ELSE 0)
      /\ \A i \in 1 .. Len(full) : full[i] = Chain[p][from - 1 + i]
  <2>1. \A i \in from .. to : c[i] \in Ids
    BY <1>2, <1>7
  <2>2. full \in Seq(Ids) /\ Len(full) = (IF from <= to THEN to - from + 1 ELSE 0)
    BY <1>2, <1>7, <2>1
  <2>3. \A i \in 1 .. Len(full) : full[i] = c[from - 1 + i] /\ from - 1 + i \in 1 .. m
    BY <1>2, <1>7, <2>1, <2>2
  <2> QED
    BY <1>2, <2>2, <2>3
<1> HIDE DEF full
<1>10. Listed(p, m, full) /\ Listed(p, m, <<>>)
  <2>1. from - 1 + Len(full) <= m
    BY <1>1, <1>7, <1>9
  <2> QED
    BY <1>1, <1>7, <1>9, <2>1, NoList DEF Listed
<1>11. ASSUME list # <<>>
       PROVE  /\ s = {} => block_num(list[1]) = 1
              /\ s # {} => /\ list[1] \in s
                           /\ \A n \in 1 .. m : Chain[p][n] \in s => n <= block_num(list[1])
  <2>1. list = full /\ 1 \in 1 .. Len(full) /\ from <= to
    BY <1>9, <1>11
  <2>2. full[1] = Chain[p][from] /\ from \in 1 .. m /\ from \in 1 .. Len(Chain[p])
    BY <1>1, <1>7, <1>9, <2>1
  <2>3. block_num(full[1]) = from
    BY <2>2, ChainBlocks
  <2>4. s = {} => from = 1
    BY <1>6, <1>13 DEF from
  <2>5. s # {} => from = last /\ last \in known
    BY <1>5, <1>6, <1>11, <2>1 DEF from
  <2> QED
    BY <1>5, <1>13, <2>1, <2>2, <2>3, <2>4, <2>5
<1>12. list \in Seq(Ids) /\ Listed(p, m, list)
  BY <1>9, <1>10
<1> HIDE DEF list
<1> QED
  BY <1>8, <1>11, <1>12 DEF AnswerTo, c, m
(* The ids that are left of an answer: what was dropped in front of them   *)
(* ends with a block we have.                                              *)
LEMMA UnseenSuffix ==
  ASSUME NEW p \in Peers, NEW list \in Seq(Ids), list # <<>>
  PROVE  \E d \in 0 .. Len(list) :
           /\ Unseen(p, list) \in Seq(Ids) /\ Len(Unseen(p, list)) = Len(list) - d
           /\ \A i \in 1 .. Len(list) - d : Unseen(p, list)[i] = list[d + i]
           /\ d # 0 => has_item(list[d])
<1> DEFINE other == \E o \in ActiveIn(conn) \ {p} :
                       peer[o].ids # <<>> /\ peer[o].ids[1] = list[1]
           kept == {n \in 1 .. Len(list) : other \/ ~has_item(list[n])}
           k == CHOOSE n \in kept : \A m \in kept : n <= m
<1>1. Unseen(p, list) = IF kept = {} THEN <<>> ELSE SubSeq(list, k, Len(list))
  BY DEF Unseen
<1>2. Len(list) \in Nat \ {0} /\ \A i \in 1 .. Len(list) : list[i] \in Ids
  OBVIOUS
<1>3. kept \subseteq 1 .. Len(list) /\ \A n \in 1 .. Len(list) : n \notin kept => has_item(list[n])
  OBVIOUS
<1>4. CASE kept = {}
  <2> DEFINE d == Len(list)
  <2>1. d \in 0 .. Len(list) /\ has_item(list[d]) /\ Len(list) - d = 0
    BY <1>2, <1>3, <1>4
  <2>2. Unseen(p, list) = <<>>
    BY <1>1, <1>4
  <2> QED
    BY <2>1, <2>2
<1>5. CASE kept # {}
  <2>1. k \in kept /\ \A m \in kept : k <= m
    <3>1. kept \subseteq Nat
      BY <1>2, <1>3
    <3> HIDE DEF kept
    <3>2. \E n \in kept : \A m \in kept : n <= m
      BY <1>5, <3>1, LeastNatural
    <3> QED
      BY <3>2
  <2> HIDE DEF kept, k
  <2>2. k \in 1 .. Len(list)
    BY <1>3, <2>1
  <2> DEFINE d == k - 1
  <2>3. d \in 0 .. Len(list) /\ Len(list) - d = Len(list) - k + 1
    BY <1>2, <2>2
  <2>4. d # 0 => has_item(list[d])
    <3>1. d # 0 => d \in 1 .. Len(list) /\ d < k
      BY <1>2, <2>2
    <3> QED
      BY <1>3, <2>1, <2>2, <3>1
  <2>5. Unseen(p, list) = SubSeq(list, k, Len(list))
    BY <1>1, <1>5
  <2>6. SubSeq(list, k, Len(list)) \in Seq(Ids)
    BY <1>2, <2>2
  <2>7. Len(SubSeq(list, k, Len(list))) = Len(list) - k + 1
    BY <1>2, <2>2
  <2>8. \A i \in 1 .. Len(list) - k + 1 : SubSeq(list, k, Len(list))[i] = list[k - 1 + i]
    BY <1>2, <2>2
  <2> QED
    BY <2>3, <2>4, <2>5, <2>6, <2>7, <2>8
<1> QED
  BY <1>4, <1>5

(* The record t is r with the list x, which may follow, and a last block   *)
(* seen that we have.                                                      *)
Continues(q, m, p, r, t) ==
  \E x \in Seq(Ids), y \in Nat :
    /\ t = [r EXCEPT !.ids = x, !.seen = y]
    /\ Listed(p, m, x) /\ (x # <<>> => Ready(q, x[1])) /\ y <= q.head

(* The question was answered, n blocks are left over.                      *)
Settled(t, n, u) == u = [t EXCEPT !.asked = {}, !.unfetched = n]

(* Such a record may be asked on.                                          *)
LEMMA ContinuesInv ==
  ASSUME NEW q, NEW m, NEW p, NEW r \in PeerRecord, PeerInv(q, m, p, r),
         NEW t, Continues(q, m, p, r, t), NEW n \in Nat, NEW u, Settled(t, n, u)
  PROVE  u \in PeerRecord /\ PeerInv(q, m, p, u) /\ u.requested = r.requested /\ u.asked = {}
<1>1. PICK x \in Seq(Ids), y \in Nat :
        /\ t = [r EXCEPT !.ids = x, !.seen = y]
        /\ Listed(p, m, x) /\ (x # <<>> => Ready(q, x[1])) /\ y <= q.head
  BY DEF Continues
<1>2. u = [need |-> r.need, ids |-> x, unfetched |-> n, processing |-> r.processing,
           asked |-> {}, requested |-> r.requested, inhibit |-> r.inhibit,
           needs_us |-> r.needs_us, seen |-> y]
  BY <1>1 DEF PeerRecord, Settled
<1>3. u \in PeerRecord
  BY <1>2 DEF PeerRecord, Ids
<1>4. PeerInv(q, m, p, u)
  BY <1>1, <1>2 DEF PeerInv
<1>5. u.requested = r.requested /\ u.asked = {}
  BY ONLY <1>2
<1> QED
  BY <1>3, <1>4, <1>5

(* x is list without its first d blocks.                                   *)
Suffix(x, list, d) ==
  /\ x \in Seq(Ids) /\ Len(x) = Len(list) - d
  /\ \A i \in 1 .. Len(list) - d : x[i] = list[d + i]

(* c comes right after b in the chain of p.                                *)
Follows(p, b, c) == \E n \in 1 .. Len(Chain[p]) - 1 : b = Chain[p][n] /\ c = Chain[p][n + 1]

(* A part of a list that starts after d of its blocks is a list, too.      *)
LEMMA ListedSuffix ==
  ASSUME NEW p \in Peers, NEW m \in Nat, m <= Len(Chain[p]), NEW list \in Seq(Ids),
         Listed(p, m, list), NEW d \in 0 .. Len(list), NEW x, Suffix(x, list, d)
  PROVE  Listed(p, m, x) /\ (d # 0 /\ x # <<>> => Follows(p, list[d], x[1]))
<1>0. /\ x \in Seq(Ids) /\ Len(x) = Len(list) - d
      /\ \A i \in 1 .. Len(list) - d : x[i] = list[d + i]
  BY DEF Suffix
<1>1. PICK k \in Nat : /\ k + Len(list) <= m
                       /\ \A i \in 1 .. Len(list) :
                            /\ list[i] = Chain[p][k + i] /\ list[i] \in Ids
                            /\ block_num(list[i]) = k + i /\ list[i] \in ToSet(Chain[p])
  BY ListedBlocks
<1>2. Len(list) \in Nat /\ Len(x) \in Nat /\ Len(Chain[p]) \in Nat
  BY <1>0, ChainBlocks
<1>3. Listed(p, m, x)
  <2>1. k + d \in Nat /\ (k + d) + Len(x) <= m
    BY <1>0, <1>1, <1>2
  <2>2. \A i \in 1 .. Len(x) : x[i] = Chain[p][(k + d) + i]
    <3>1. \A i \in 1 .. Len(x) : d + i \in 1 .. Len(list) /\ k + (d + i) = (k + d) + i
      BY <1>0, <1>2
    <3> QED
      BY <1>0, <1>1, <3>1
  <2> QED
    BY <2>1, <2>2 DEF Listed
<1>4. ASSUME d # 0, x # <<>>
      PROVE  /\ k + d \in 1 .. Len(Chain[p]) - 1 /\ list[d] = Chain[p][k + d]
             /\ x[1] = Chain[p][(k + d) + 1]
  <2>1. Len(x) # 0 /\ d \in 1 .. Len(list) /\ d + 1 \in 1 .. Len(list) /\ 1 \in 1 .. Len(list) - d
    BY <1>0, <1>2, <1>4
  <2>2. k + d \in 1 .. Len(Chain[p]) - 1 /\ k + (d + 1) = (k + d) + 1
    <3>1. /\ d \in Nat \ {0} /\ d + 1 <= Len(list) /\ k + Len(list) <= m
          /\ Len(list) \in Nat /\ Len(Chain[p]) \in Nat
      BY <1>1, <1>2, <2>1
    <3> QED
      BY ONLY <3>1, k \in Nat, m \in Nat, m <= Len(Chain[p])
  <2>3. x[1] = list[d + 1] /\ list[d + 1] = Chain[p][k + (d + 1)]
    BY <1>0, <1>1, <2>1
  <2> QED
    BY <1>1, <2>1, <2>2, <2>3
<1> QED
  BY <1>3, <1>4 DEF Follows
(* append_ids: whatever the answer, the list goes on from what is there.   *)
LEMMA AppendedIds ==
  ASSUME TypeOK, NEW q \in Queue, InOrder(q), q.head = head, NEW p \in Peers,
         PeerInv(q, have[p], p, peer[p]), NEW s \in peer[p].asked, NEW list,
         AnswerTo(p, have[p], s, list)
  PROVE  Continues(q, have[p], p, peer[p], append_ids(p, list))
<1> DEFINE r == peer[p]
           m == have[p]
           ids == r.ids
           joint == {n \in 1 .. Len(ids) : list # <<>> /\ ids[n] = list[1]}
           rest == Unseen(p, list)
           dropped == Len(list) - Len(rest)
           t == append_ids(p, list)
<1>1. /\ m \in Nat /\ m <= Len(Chain[p]) /\ r \in PeerRecord /\ ids \in Seq(Ids)
      /\ r.seen \in Nat /\ s \in SUBSET Ids /\ q.head \in Nat /\ Len(Chain[p]) \in Nat
  BY ChainBlocks DEF TypeOK, PeerRecord, Ids, Queue
<1>2. /\ Listed(p, m, ids) /\ (ids # <<>> => Ready(q, ids[1])) /\ r.seen <= q.head
      /\ SynopsisInv(q, ids, s)
  BY DEF PeerInv
<1>3. list \in Seq(Ids) /\ Listed(p, m, list)
  BY DEF AnswerTo
<1>4. t = CASE list = <<>> -> r
            [] list # <<>> /\ ids = <<>> ->
                 [r EXCEPT !.ids = rest,
                           !.seen = IF dropped = 0 THEN @ ELSE block_num(list[dropped])]
            [] ids # <<>> /\ joint # {} ->
                 [r EXCEPT !.ids = SubSeq(@, 1, (CHOOSE n \in joint : TRUE) - 1) \o list]
            [] OTHER ->
                 [r EXCEPT !.ids = Tail(list), !.seen = block_num(list[1])]
  BY DEF append_ids
<1>5. CASE list = <<>>
  <2>1. t = r
    BY <1>4, <1>5
  <2>2. r = [r EXCEPT !.ids = ids, !.seen = r.seen]
    BY <1>1 DEF PeerRecord
  <2> QED
    BY <1>1, <1>2, <2>1, <2>2 DEF Continues
<1>6. CASE list # <<>> /\ ids = <<>>
  <2>1. PICK d \in 0 .. Len(list) :
           /\ rest \in Seq(Ids) /\ Len(rest) = Len(list) - d
           /\ \A i \in 1 .. Len(list) - d : rest[i] = list[d + i]
           /\ d # 0 => has_item(list[d])
    BY <1>3, <1>6, UnseenSuffix
  <2> DEFINE y == IF d = 0 THEN r.seen ELSE block_num(list[d])
  <2>2. dropped = d
    BY <1>3, <2>1
  <2>3. t = [r EXCEPT !.ids = rest, !.seen = y]
    <3>1. t = [r EXCEPT !.ids = rest,
                        !.seen = IF dropped = 0 THEN r.seen ELSE block_num(list[dropped])]
      BY <1>4, <1>6
    <3> HIDE DEF t, rest
    <3> QED
      BY <2>2, <3>1
  <2>4. y \in Nat /\ y <= q.head
    <3>1. d # 0 => list[d] \in Ids
      BY <1>3, <2>1
    <3> QED
      BY <1>1, <1>2, <2>1, <3>1, BlockPair DEF has_item
  <2> HIDE DEF rest, y, dropped, r, m, t
  <2>5. Listed(p, m, rest) /\ (d # 0 /\ rest # <<>> => Follows(p, list[d], rest[1]))
    <3>1. Suffix(rest, list, d)
      BY <2>1 DEF Suffix
    <3> QED
      BY <1>1, <1>3, <3>1, ListedSuffix
  <2>6. d # 0 /\ rest # <<>> => Ready(q, rest[1])
    <3>1. d # 0 => Handed(q, list[d])
      BY <2>1 DEF has_item, Handed
    <3> QED
      BY <2>5, <3>1, NextReady DEF Follows
  <2>7. d = 0 /\ rest # <<>> => Ready(q, rest[1])
    <3> SUFFICES ASSUME d = 0, rest # <<>> PROVE Ready(q, list[1])
      BY <1>3, <1>6, <2>1
    <3>1. list[1] \in Ids
      BY <1>3, <1>6
    <3>2. CASE s = {}
      <4>1. block_num(list[1]) = 1
        BY <1>6, <3>2 DEF AnswerTo
      <4> QED
        BY <1>1, <4>1 DEF Ready
    <3>3. CASE s # {}
      <4>1. list[1] \in s
        BY <1>6, <3>3 DEF AnswerTo
      <4>2. Handed(q, list[1])
        BY <1>2, <1>6, <4>1 DEF SynopsisInv, ToSet
      <4> QED
        BY <3>1, <4>2, HandedReady
    <3> QED
      BY <3>2, <3>3
  <2> QED
    BY <2>1, <2>3, <2>4, <2>5, <2>6, <2>7 DEF Continues, r, m, t
<1>7. CASE list # <<>> /\ ids # <<>> /\ joint # {}
  <2> DEFINE n == CHOOSE n \in joint : TRUE
             x == SubSeq(ids, 1, n - 1) \o list
  <2>1. n \in 1 .. Len(ids) /\ ids[n] = list[1]
    BY <1>7
  <2>2. t = [r EXCEPT !.ids = x]
    BY <1>4, <1>7
  <2> HIDE DEF n
  <2>3. PICK k \in Nat : /\ k + Len(ids) <= m
                         /\ \A i \in 1 .. Len(ids) :
                              /\ ids[i] = Chain[p][k + i] /\ ids[i] \in Ids
                              /\ block_num(ids[i]) = k + i /\ ids[i] \in ToSet(Chain[p])
    BY <1>1, <1>2, ListedBlocks
  <2>4. PICK l \in Nat : /\ l + Len(list) <= m
                         /\ \A i \in 1 .. Len(list) :
                              /\ list[i] = Chain[p][l + i] /\ list[i] \in Ids
                              /\ block_num(list[i]) = l + i /\ list[i] \in ToSet(Chain[p])
    BY <1>1, <1>3, ListedBlocks
  <2>5. Len(ids) \in Nat /\ Len(list) \in Nat \ {0} /\ 1 \in 1 .. Len(list)
    BY <1>1, <1>3, <1>7
  <2>6. k + n = l + 1
    BY <2>1, <2>3, <2>4, <2>5
  <2> DEFINE f == SubSeq(ids, 1, n - 1)
  <2>7. f \in Seq(Ids) /\ Len(f) = n - 1 /\ \A i \in 1 .. n - 1 : f[i] = ids[i]
    BY <1>1, <2>1, <2>5
  <2> HIDE DEF f
  <2>8. /\ f \o list \in Seq(Ids) /\ Len(f \o list) = n - 1 + Len(list)
        /\ \A i \in 1 .. n - 1 + Len(list) :
             (f \o list)[i] = IF i <= n - 1 THEN f[i] ELSE list[i - (n - 1)]
    <3> DEFINE a == n - 1
    <3>1. a \in Nat /\ Len(f) = a
      BY <2>1, <2>7
    <3> HIDE DEF a
    <3>2. f \o list \in Seq(Ids) /\ Len(f \o list) = a + Len(list)
      BY <1>3, <2>7, <3>1
    <3>3. \A i \in 1 .. a + Len(list) :
            (f \o list)[i] = IF i <= a THEN f[i] ELSE list[i - a]
      BY <1>3, <2>5, <2>7, <3>1
    <3> QED
      BY <3>2, <3>3 DEF a
  <2>9. x \in Seq(Ids) /\ Len(x) = n - 1 + Len(list)
    BY <2>8 DEF f
  <2>10. ASSUME NEW i \in 1 .. Len(x) PROVE x[i] = Chain[p][k + i]
    <3>1. x[i] = IF i <= n - 1 THEN f[i] ELSE list[i - (n - 1)]
      BY <2>8, <2>9, <2>10 DEF f
    <3>2. CASE i <= n - 1
      <4>1. i \in 1 .. n - 1 /\ i \in 1 .. Len(ids)
        BY <2>1, <2>5, <2>9, <3>2
      <4> QED
        BY <2>3, <2>7, <3>1, <3>2, <4>1
    <3>3. CASE ~(i <= n - 1)
      <4>1. i - (n - 1) \in 1 .. Len(list) /\ l + (i - (n - 1)) = k + i
        <5>1. n \in Int /\ i \in Int /\ i <= n - 1 + Len(list) /\ Len(list) \in Int
          BY <2>1, <2>5, <2>9, <2>10
        <5> DEFINE d == n - 1
                   e == Len(list)
        <5>2. /\ d \in Int /\ e \in Int /\ i \in Int /\ k \in Int /\ l \in Int
              /\ i <= d + e /\ ~(i <= d) /\ k + d = l
          BY ONLY <2>6, <3>3, <5>1, k \in Nat, l \in Nat
        <5> HIDE DEF d, e
        <5>3. i - d \in 1 .. e
          BY ONLY <5>2
        <5>4. l + (i - d) = k + i
          BY ONLY <5>2
        <5> QED
          BY ONLY <5>3, <5>4 DEF d, e
      <4> QED
        BY <2>4, <3>1, <3>3, <4>1
    <3> QED
      BY <3>2, <3>3
  <2> HIDE DEF x
  <2>11. Listed(p, m, x)
    <3>1. k + Len(x) <= m
      BY <2>4, <2>5, <2>6, <2>9, <2>1, <1>1
    <3> QED
      BY <2>10, <3>1 DEF Listed
  <2>12. Ready(q, x[1])
    <3>1. 1 \in 1 .. Len(x) /\ 1 \in 1 .. Len(ids)
      BY <2>1, <2>5, <2>9
    <3>2. x[1] = ids[1]
      BY <2>3, <2>10, <3>1
    <3> QED
      BY <1>2, <1>7, <3>2
  <2>13. t = [r EXCEPT !.ids = x, !.seen = r.seen]
    <3> HIDE DEF t
    <3> QED
      BY <1>1, <2>2 DEF PeerRecord
  <2> QED
    BY <1>1, <1>2, <2>9, <2>11, <2>12, <2>13 DEF Continues
<1>8. CASE list # <<>> /\ ids # <<>> /\ joint = {}
  <2> DEFINE x == Tail(list)
             e == Len(ids)
             n == block_num(list[1])
  <2>1. t = [r EXCEPT !.ids = x, !.seen = n]
    BY <1>4, <1>8
  <2>2. PICK k \in Nat : /\ k + Len(ids) <= m
                         /\ \A i \in 1 .. Len(ids) :
                              /\ ids[i] = Chain[p][k + i] /\ ids[i] \in Ids
                              /\ block_num(ids[i]) = k + i /\ ids[i] \in ToSet(Chain[p])
    BY <1>1, <1>2, ListedBlocks
  <2>3. e \in Nat \ {0} /\ e \in 1 .. Len(ids) /\ k + e \in 1 .. m
    BY <1>1, <1>8, <2>2
  <2>4. ids[e] \in s /\ Chain[p][k + e] = ids[e] /\ block_num(ids[e]) = k + e
    BY <1>2, <1>8, <2>2, <2>3 DEF SynopsisInv
  <2>5. list[1] \in s /\ k + e <= n
    BY <1>8, <2>3, <2>4 DEF AnswerTo
  <2>6. list[1] # ids[e]
    BY <1>8, <2>3
  <2>7. list[1] \in Ids /\ n \in Nat
    BY <1>1, <2>5, BlockPair
  <2>8. is_valid(list[1]) /\ n <= q.head
    <3>1. ~(n < block_num(ids[e]))
      BY <2>3, <2>4, <2>5, <2>7
    <3> QED
      BY <1>2, <1>8, <2>5, <2>6, <3>1 DEF SynopsisInv
  <2>9. Handed(q, list[1])
    BY <2>8 DEF Handed
  <2>10. /\ x \in Seq(Ids) /\ Len(x) = Len(list) - 1
         /\ \A i \in 1 .. Len(list) - 1 : x[i] = list[1 + i]
         /\ 1 \in 0 .. Len(list)
    BY <1>3, <1>8
  <2> HIDE DEF x, n, e, ids, r, m, t
  <2>11. Listed(p, m, x) /\ (x # <<>> => Follows(p, list[1], x[1]))
    <3>1. Suffix(x, list, 1) /\ 1 # 0
      BY <2>10 DEF Suffix
    <3> QED
      BY <1>1, <1>3, <2>10, <3>1, ListedSuffix
  <2>12. x # <<>> => Ready(q, x[1])
    BY <2>9, <2>11, NextReady DEF Follows
  <2> QED
    BY <2>1, <2>7, <2>8, <2>10, <2>11, <2>12 DEF Continues, m, r, t
<1> QED
  BY <1>5, <1>6, <1>7, <1>8
-----------------------------------------------------------------------------
(* The steps that leave the queue alone.                                   *)

(* The queue is one.                                                       *)
LEMMA QueueType ==
  ASSUME TypeOK
  PROVE  /\ queue \in Queue /\ queue.blocks = handling /\ queue.done = Len(results)
         /\ queue.head = head
BY DEF TypeOK, queue, Queue, Ids

(* Requests that nothing touches are still owed.                           *)
LEMMA RequestsKept ==
  ASSUME RequestsInv, active_sync_requests' = active_sync_requests, missed' = missed,
         \A x \in Peers : peer'[x].requested = peer[x].requested,
         \A x \in Peers : conn'[x] = "off" => conn[x] = "off"
  PROVE  RequestsInv'
<1>1. UNION {peer'[x].requested : x \in Peers} = UNION {peer[x].requested : x \in Peers}
  OBVIOUS
<1> QED
  BY <1>1 DEF RequestsInv, RequestsOwed

(* The order of the blocks is kept when the queue is.                      *)
LEMMA OrderKept ==
  ASSUME OrderInv, handling' = handling, results' = results, head' = head,
         accepted' = accepted,
         \A x \in Peers : PeerInv(queue, have'[x], x, peer'[x]),
         \A x \in Peers : x \in Reliable => conn'[x] # "closing"
  PROVE  OrderInv'
<1>1. queue' = queue
  BY DEF queue
<1>2. ReliableNotBlamed'
  BY SyncAssumption DEF ReliableNotBlamed
<1>3. Answered(queue)' /\ InOrder(queue)'
  BY <1>1 DEF OrderInv, Answered, InOrder
<1>4. \A x \in Peers : PeerInv(queue, have[x], x, peer[x])'
  BY <1>1
<1>5. \A b \in accepted' : is_valid(b) /\ block_num(b) <= head'
  BY DEF OrderInv
<1> QED
  BY <1>2, <1>3, <1>4, <1>5 DEF OrderInv

(* Peers that change on their own terms.                                   *)
LEMMA PeersStep ==
  ASSUME SyncInv, handling' = handling, results' = results, head' = head,
         accepted' = accepted,
         active_sync_requests' = active_sync_requests, missed' = missed,
         \A x \in Peers : /\ PeerInv(queue, have'[x], x, peer'[x])
                          /\ peer'[x].requested = peer[x].requested
                          /\ conn'[x] = "off" => conn[x] = "off"
                          /\ x \in Reliable => conn'[x] # "closing"
  PROVE  RequestsInv' /\ OrderInv'
BY RequestsKept, OrderKept DEF SyncInv

(* What SyncInv says of a peer.                                            *)
LEMMA PeerFacts ==
  ASSUME SyncInv, NEW p \in Peers
  PROVE  /\ queue \in Queue /\ queue.head = head /\ InOrder(queue)
         /\ peer[p] \in PeerRecord /\ PeerInv(queue, have[p], p, peer[p])
         /\ have[p] \in Nat /\ have[p] <= Len(Chain[p])
         /\ p \in Reliable => conn[p] # "closing"
BY QueueType DEF SyncInv, OrderInv, TypeOK, ReliableNotBlamed

(* A new connection owes nothing.                                          *)
LEMMA NewPeerType == NewPeer \in PeerRecord /\ NewPeer.processing = {} /\ NewPeer.requested = {}
<1> DEFINE yes == TRUE
           no == FALSE
           none == <<>>
<1>1. yes \in BOOLEAN /\ no \in BOOLEAN /\ none \in Seq(Nat \X Nat)
  OBVIOUS
<1>2. NewPeer = [need |-> yes, ids |-> none, unfetched |-> 0, processing |-> {}, asked |-> {},
                 requested |-> {}, inhibit |-> no, needs_us |-> yes, seen |-> 0]
  BY DEF NewPeer
<1> HIDE DEF yes, no, none
<1> QED
  BY <1>1, <1>2 DEF PeerRecord

(* The record of one peer changes, but not what it owes.                   *)
LEMMA OnePeer ==
  ASSUME SyncInv, NEW p \in Peers, NEW t \in PeerRecord, PeerInv(queue, have[p], p, t),
         t.requested = peer[p].requested, peer' = [peer EXCEPT ![p] = t],
         handling' = handling, results' = results, head' = head, accepted' = accepted,
         active_sync_requests' = active_sync_requests, missed' = missed, have' = have,
         \A x \in Peers : /\ conn'[x] = "off" => conn[x] = "off"
                          /\ x \in Reliable => conn'[x] # "closing"
  PROVE  RequestsInv' /\ OrderInv' /\ peer' \in [Peers -> PeerRecord]
<1>1. peer \in [Peers -> PeerRecord]
  BY DEF SyncInv, TypeOK
<1>2. \A x \in Peers : PeerInv(queue, have[x], x, peer[x])
  BY DEF SyncInv, OrderInv
<1>3. \A x \in Peers : PeerInv(queue, have'[x], x, peer'[x])
  BY <1>1, <1>2
<1>4. \A x \in Peers : peer'[x].requested = peer[x].requested
  BY <1>1
<1>5. RequestsInv' /\ OrderInv'
  BY <1>3, <1>4, PeersStep
<1> QED
  BY <1>1, <1>5

(* A peer connects.                                                        *)
LEMMA AddedInv ==
  ASSUME SyncInv, NEW p \in Peers, new_peer_just_added(p)
  PROVE  SyncInv'
<1> DEFINE t == start_synchronizing_with_peer(NewPeer, head)
<1>1. /\ conn[p] = "off" /\ conn' = [conn EXCEPT ![p] = "active"]
      /\ connects' = (IF p \in Reliable THEN connects ELSE [connects EXCEPT ![p] = @ + 1])
      /\ peer' = [peer EXCEPT ![p] = t] /\ UNCHANGED <<node_state, have, missed>>
  BY DEF new_peer_just_added
<1>2. t \in PeerRecord /\ PeerInv(queue, have[p], p, t) /\ t.requested = {}
  <2>1. NewPeer.processing \subseteq ToSet(Chain[p])
    BY NewPeerType
  <2> QED
    BY <2>1, PeerFacts, NewPeerType, StartSync
<1>3. peer[p].requested = {}
  BY <1>1 DEF SyncInv, RequestsInv
<1> HIDE DEF t
<1>4. conn \in [Peers -> {"off", "active", "closing", "terminating"}]
  BY DEF SyncInv, TypeOK
<1>5. /\ handling' = handling /\ results' = results /\ head' = head /\ accepted' = accepted
      /\ active_sync_requests' = active_sync_requests /\ missed' = missed /\ have' = have
  BY <1>1 DEF node_state
<1>6. \A x \in Peers : /\ conn'[x] = "off" => conn[x] = "off"
                       /\ x \in Reliable => conn'[x] # "closing"
  BY <1>1, <1>4 DEF SyncInv, OrderInv, ReliableNotBlamed
<1>7. RequestsInv' /\ OrderInv' /\ peer' \in [Peers -> PeerRecord]
  BY <1>1, <1>2, <1>3, <1>5, <1>6, OnePeer
<1>8. connects' \in [Peers -> Nat] /\ conn' \in [Peers -> {"off", "active", "closing", "terminating"}]
  BY <1>1, <1>4 DEF SyncInv, TypeOK
<1>9. TypeOK'
  BY <1>1, <1>7, <1>8 DEF SyncInv, TypeOK, node_state
<1> QED
  BY <1>7, <1>9 DEF SyncInv

(* The connection of a peer that is to go changes its state.               *)
LEMMA ConnInv ==
  ASSUME SyncInv, NEW p \in Peers, InvalidAnswer(p) \/ terminate_inactive(p)
  PROVE  SyncInv'
<1>1. /\ \/ conn' = [conn EXCEPT ![p] = "closing"] /\ p \notin Reliable
         \/ conn' = [conn EXCEPT ![p] = "terminating"]
      /\ UNCHANGED <<connects, peer, node_state, have, missed>>
  BY DEF InvalidAnswer, terminate_inactive
<1>2. conn \in [Peers -> {"off", "active", "closing", "terminating"}]
  BY DEF SyncInv, TypeOK
<1>3. \A x \in Peers : /\ conn'[x] = "off" => conn[x] = "off"
                       /\ x \in Reliable => conn'[x] # "closing"
  BY <1>1, <1>2 DEF SyncInv, OrderInv, ReliableNotBlamed
<1>4. conn' \in [Peers -> {"off", "active", "closing", "terminating"}]
  BY <1>1, <1>2
<1>5. RequestsInv' /\ OrderInv'
  <2>1. \A x \in Peers : PeerInv(queue, have'[x], x, peer'[x])
    BY <1>1 DEF SyncInv, OrderInv
  <2> QED
    BY <1>1, <1>3, <2>1, PeersStep DEF node_state
<1>6. TypeOK'
  BY <1>1, <1>4 DEF SyncInv, TypeOK, node_state
<1> QED
  BY <1>5, <1>6 DEF SyncInv

(* A peer gets another block.                                              *)
LEMMA ExtendsInv ==
  ASSUME SyncInv, NEW p \in Peers, PeerExtends(p)
  PROVE  SyncInv'
<1>1. /\ have[p] < Len(Chain[p]) /\ have' = [have EXCEPT ![p] = @ + 1]
      /\ UNCHANGED <<conn, connects, peer, node_state, missed>>
  BY DEF PeerExtends
<1>2. have \in [Peers -> Nat] /\ \A x \in Peers : have[x] <= Len(Chain[x])
  BY DEF SyncInv, TypeOK
<1>3. /\ have' \in [Peers -> Nat]
      /\ \A x \in Peers : have[x] <= have'[x] /\ have'[x] <= Len(Chain[x])
  BY <1>1, <1>2, ChainBlocks
<1>4. ASSUME NEW x \in Peers PROVE PeerInv(queue, have'[x], x, peer'[x])
  <2>1. Leads(queue, queue)
    BY QueueType DEF Leads, SyncInv, Queue
  <2>2. queue \in Queue /\ peer[x] \in PeerRecord /\ PeerInv(queue, have[x], x, peer[x])
    BY PeerFacts
  <2>3. have[x] \in Nat /\ have'[x] \in Nat /\ have[x] <= have'[x] /\ peer'[x] = peer[x]
    BY <1>1, <1>2, <1>3
  <2> QED
    BY <2>1, <2>2, <2>3, PeerInvKept
<1>5. \A x \in Peers : x \in Reliable => conn'[x] # "closing"
  BY <1>1 DEF SyncInv, OrderInv, ReliableNotBlamed
<1>6. RequestsInv' /\ OrderInv'
  BY <1>1, <1>4, <1>5, PeersStep DEF node_state
<1>7. TypeOK'
  BY <1>1, <1>3 DEF SyncInv, TypeOK, node_state
<1> QED
  BY <1>6, <1>7 DEF SyncInv
(* A connection ends: what the peer owes is free again.                    *)
LEMMA ClosedInv ==
  ASSUME SyncInv, NEW p \in Peers, on_connection_closed(p)
  PROVE  SyncInv'
<1> DEFINE gone == peer[p].requested
<1>1. /\ conn' = [conn EXCEPT ![p] = "off"] /\ peer' = [peer EXCEPT ![p] = NewPeer]
      /\ active_sync_requests' = active_sync_requests \ gone
      /\ fetch_due' = (fetch_due \/ gone # {})
      /\ UNCHANGED <<connects, received, handling, results, head, accepted, suspended,
                     backlog, have, missed>>
  BY DEF on_connection_closed, RescheduledFrom
<1>2. /\ conn \in [Peers -> {"off", "active", "closing", "terminating"}]
      /\ peer \in [Peers -> PeerRecord]
  BY DEF SyncInv, TypeOK
<1>3. /\ conn' \in [Peers -> {"off", "active", "closing", "terminating"}]
      /\ peer' \in [Peers -> PeerRecord]
  BY <1>1, <1>2, NewPeerType
<1>4. /\ \A x \in Peers : peer'[x].requested = IF x = p THEN {} ELSE peer[x].requested
      /\ \A x \in Peers : x # p => conn'[x] = conn[x]
  BY <1>1, <1>2, NewPeerType
<1>5. RequestsInv'
  <2>1. /\ \A x, y \in Peers : x # y => peer[x].requested \cap peer[y].requested = {}
        /\ UNION {peer[x].requested : x \in Peers} \subseteq active_sync_requests
        /\ active_sync_requests \subseteq missed \cup (UNION {peer[x].requested : x \in Peers})
    BY DEF SyncInv, RequestsInv, RequestsOwed
  <2>2. \A x, y \in Peers : x # y => peer'[x].requested \cap peer'[y].requested = {}
    BY <1>4, <2>1
  <2>3. UNION {peer'[x].requested : x \in Peers} \subseteq active_sync_requests'
    BY <1>1, <1>4, <2>1
  <2>4. active_sync_requests' \subseteq missed' \cup (UNION {peer'[x].requested : x \in Peers})
    BY <1>1, <1>4, <2>1
  <2>5. \A x \in Peers : conn'[x] = "off" => peer'[x].requested = {}
    BY <1>4 DEF SyncInv, RequestsInv
  <2> QED
    BY <2>2, <2>3, <2>4, <2>5 DEF RequestsInv, RequestsOwed
<1>6. PeerInv(queue, have[p], p, NewPeer)
  <2>1. /\ NewPeer.ids = <<>> /\ NewPeer.seen = 0 /\ NewPeer.asked = {}
        /\ NewPeer.processing = {} /\ ~NewPeer.inhibit
    BY DEF NewPeer
  <2>2. Listed(p, have[p], <<>>) /\ 0 <= queue.head
    BY PeerFacts, NoList DEF Queue
  <2> QED
    BY <2>1, <2>2 DEF PeerInv
<1>7. OrderInv'
  <2>1. \A x \in Peers : PeerInv(queue, have'[x], x, peer'[x])
    BY <1>1, <1>2, <1>6 DEF SyncInv, OrderInv
  <2>2. \A x \in Peers : x \in Reliable => conn'[x] # "closing"
    BY <1>1, <1>2 DEF SyncInv, OrderInv, ReliableNotBlamed
  <2> QED
    BY <1>1, <2>1, <2>2, OrderKept DEF SyncInv
<1>8. TypeOK'
  BY <1>1, <1>3 DEF SyncInv, TypeOK
<1> QED
  BY <1>5, <1>7, <1>8 DEF SyncInv

(* The number of blocks that an answer leaves over is a natural.           *)
LEMMA Remaining ==
  ASSUME TypeOK, NEW p \in Peers, NEW list \in Seq(Ids), Listed(p, have[p], list)
  PROVE  RemainingAfter(ChainOf(p), list) \in Nat
<1>1. have[p] \in Nat /\ have[p] <= Len(Chain[p]) /\ Chain[p] \in Seq(Ids)
  BY SyncAssumption DEF TypeOK, Ids
<1>2. Len(ChainOf(p)) = have[p]
  BY <1>1 DEF ChainOf
<1>3. ASSUME list # <<>> PROVE block_num(list[Len(list)]) \in Nat /\ block_num(list[Len(list)]) <= have[p]
  <2>1. PICK k \in Nat : /\ k + Len(list) <= have[p]
                         /\ \A i \in 1 .. Len(list) :
                              /\ list[i] = Chain[p][k + i] /\ list[i] \in Ids
                              /\ block_num(list[i]) = k + i /\ list[i] \in ToSet(Chain[p])
    BY <1>1, ListedBlocks
  <2>2. Len(list) \in 1 .. Len(list) /\ Len(list) \in Nat
    BY <1>3
  <2> QED
    BY <2>1, <2>2
<1> QED
  BY <1>1, <1>2, <1>3 DEF RemainingAfter

(* What happens to an answer.                                              *)
InventoryStep(p, list) ==
  \E remaining \in {RemainingAfter(ChainOf(p), list)} :
    \/ /\ says_up_to_date(peer[p], list, remaining)
       /\ peer' = [peer EXCEPT ![p].asked = {}, ![p].need = FALSE]
       /\ UNCHANGED fetch_due
    \/ /\ ~says_up_to_date(peer[p], list, remaining)
       /\ \E r \in {[append_ids(p, list) EXCEPT !.asked = {}, !.unfetched = remaining]} :
            /\ peer' = [peer EXCEPT ![p] =
                 IF asks_for_more(r) THEN fetch_next_batch_of_item_ids(r, head) ELSE r]
            /\ fetch_due' = (fetch_due \/ ~asks_for_more(r))

(* A peer answers with a list of ids.                                      *)
LEMMA InventoryInv ==
  ASSUME SyncInv, NEW p \in Peers, on_blockchain_item_ids_inventory(p)
  PROVE  SyncInv'
<1>1. PICK list \in {get_block_ids(ChainOf(p), synopsis) : synopsis \in peer[p].asked} :
        InventoryStep(p, list)
  BY DEF on_blockchain_item_ids_inventory, InventoryStep
<1>2. PICK s \in peer[p].asked : list = get_block_ids(ChainOf(p), s)
  BY <1>1
<1> DEFINE remaining == RemainingAfter(ChainOf(p), list)
<1>3. UNCHANGED <<conn, connects, active_sync_requests, received, handling, results,
                  head, accepted, suspended, backlog, have, missed>>
  BY DEF on_blockchain_item_ids_inventory
<1>4. TypeOK /\ peer \in [Peers -> PeerRecord] /\ fetch_due \in BOOLEAN
  BY DEF SyncInv, TypeOK
<1>5. AnswerTo(p, have[p], s, list)
  BY <1>2, <1>4, AnswersFit
<1>6. remaining \in Nat
  BY <1>2, <1>4, <1>5, Remaining DEF AnswerTo
<1>7. \E t \in PeerRecord : /\ PeerInv(queue, have[p], p, t) /\ t.requested = peer[p].requested
                            /\ peer' = [peer EXCEPT ![p] = t] /\ fetch_due' \in BOOLEAN
  <2>1. CASE /\ peer' = [peer EXCEPT ![p].asked = {}, ![p].need = FALSE]
             /\ UNCHANGED fetch_due
    <3> DEFINE no == FALSE
               r == peer[p]
               t == [r EXCEPT !.asked = {}, !.need = no]
    <3>1. peer' = [peer EXCEPT ![p] = t]
      BY <2>1, <1>4
    <3>2. no \in BOOLEAN /\ r \in PeerRecord
      BY <1>4
    <3>8. t = [r EXCEPT !.asked = {}, !.need = no]
      OBVIOUS
    <3> HIDE DEF no, r, t
    <3>3. t = [need |-> no, ids |-> r.ids, unfetched |-> r.unfetched, processing |-> r.processing,
               asked |-> {}, requested |-> r.requested, inhibit |-> r.inhibit,
               needs_us |-> r.needs_us, seen |-> r.seen]
      BY <3>2, <3>8 DEF PeerRecord
    <3>4. t \in PeerRecord /\ t.requested = r.requested
      BY <3>2, <3>3 DEF PeerRecord
    <3>5. /\ t.ids = r.ids /\ t.seen = r.seen /\ t.asked \subseteq r.asked
          /\ t.processing \subseteq r.processing /\ (p \in Reliable => ~t.inhibit)
      BY <3>3, PeerFacts DEF PeerInv, r
    <3>6. PeerInv(queue, have[p], p, r)
      BY PeerFacts DEF r
    <3>7. PeerInv(queue, have[p], p, t)
      BY <3>5, <3>6, SamePeer
    <3> QED
      BY <1>4, <2>1, <3>1, <3>4, <3>7 DEF r
  <2>2. CASE \E r \in {[append_ids(p, list) EXCEPT !.asked = {}, !.unfetched = remaining]} :
               /\ peer' = [peer EXCEPT ![p] =
                    IF asks_for_more(r) THEN fetch_next_batch_of_item_ids(r, head) ELSE r]
               /\ fetch_due' = (fetch_due \/ ~asks_for_more(r))
    <3>1. PICK r : /\ r = [append_ids(p, list) EXCEPT !.asked = {}, !.unfetched = remaining]
                   /\ peer' = [peer EXCEPT ![p] =
                        IF asks_for_more(r) THEN fetch_next_batch_of_item_ids(r, head) ELSE r]
                   /\ fetch_due' = (fetch_due \/ ~asks_for_more(r))
      BY <2>2
    <3>2. Continues(queue, have[p], p, peer[p], append_ids(p, list))
      BY <1>4, <1>5, PeerFacts, AppendedIds
    <3>3. r \in PeerRecord /\ PeerInv(queue, have[p], p, r) /\ r.requested = peer[p].requested
          /\ r.asked = {}
      <4>1. peer[p] \in PeerRecord /\ PeerInv(queue, have[p], p, peer[p])
        BY PeerFacts
      <4>2. Settled(append_ids(p, list), remaining, r)
        BY <3>1 DEF Settled
      <4> QED
        BY <1>6, <3>2, <4>1, <4>2, ContinuesInv
    <3> DEFINE t == fetch_next_batch_of_item_ids(r, head)
    <3>4. t \in PeerRecord /\ PeerInv(queue, have[p], p, t) /\ t.requested = r.requested
      <4>1. r = [r EXCEPT !.asked = {}]
        BY <3>3 DEF PeerRecord
      <4> QED
        BY <3>3, <4>1, PeerFacts, FetchIds
    <3> HIDE DEF t
    <3>5. fetch_due' \in BOOLEAN
      BY <3>1
    <3>6. peer' = [peer EXCEPT ![p] = IF asks_for_more(r) THEN t ELSE r]
      BY <3>1 DEF t
    <3>7. CASE asks_for_more(r)
      BY <3>3, <3>4, <3>5, <3>6, <3>7
    <3>8. CASE ~asks_for_more(r)
      BY <3>3, <3>5, <3>6, <3>8
    <3> QED
      BY <3>7, <3>8
  <2> QED
    BY <1>1, <2>1, <2>2 DEF InventoryStep
<1>8. PICK t \in PeerRecord : /\ PeerInv(queue, have[p], p, t) /\ t.requested = peer[p].requested
                              /\ peer' = [peer EXCEPT ![p] = t] /\ fetch_due' \in BOOLEAN
  BY <1>7
<1>9. \A x \in Peers : /\ conn'[x] = "off" => conn[x] = "off"
                       /\ x \in Reliable => conn'[x] # "closing"
  BY <1>3 DEF SyncInv, OrderInv, ReliableNotBlamed
<1>10. RequestsInv' /\ OrderInv' /\ peer' \in [Peers -> PeerRecord]
  BY <1>3, <1>8, <1>9, OnePeer
<1>11. TypeOK'
  BY <1>3, <1>8, <1>10 DEF SyncInv, TypeOK
<1> QED
  BY <1>10, <1>11 DEF SyncInv
(* What a peer is thought to need from us matters to no other part.        *)
LEMMA NeedsUs ==
  ASSUME NEW q, NEW m, NEW p, NEW r \in PeerRecord, PeerInv(q, m, p, r), NEW v \in BOOLEAN
  PROVE  /\ [r EXCEPT !.needs_us = v] \in PeerRecord
         /\ PeerInv(q, m, p, [r EXCEPT !.needs_us = v])
         /\ [r EXCEPT !.needs_us = v].requested = r.requested
<1> DEFINE t == [r EXCEPT !.needs_us = v]
<1>1. t = [need |-> r.need, ids |-> r.ids, unfetched |-> r.unfetched,
           processing |-> r.processing, asked |-> r.asked, requested |-> r.requested,
           inhibit |-> r.inhibit, needs_us |-> v, seen |-> r.seen]
  BY DEF PeerRecord
<1> HIDE DEF t
<1>2. t \in PeerRecord /\ t.requested = r.requested
  BY <1>1 DEF PeerRecord
<1>3. /\ t.ids = r.ids /\ t.seen = r.seen /\ t.asked \subseteq r.asked
      /\ t.processing \subseteq r.processing /\ t.inhibit = r.inhibit
  BY <1>1
<1>4. PeerInv(q, m, p, t)
  BY <1>3, SamePeer DEF PeerInv
<1> QED
  BY <1>2, <1>4 DEF t

(* A peer asks for our ids.                                                *)
LEMMA AskedInv ==
  ASSUME SyncInv, NEW p \in Peers, on_fetch_blockchain_item_ids(p)
  PROVE  SyncInv'
<1> DEFINE c == ChainOf(p)
           synopsis == {c[n] : n \in Halves(Len(c))}
           reply == get_block_ids([n \in 1 .. head |-> <<n, 0>>], synopsis)
           same == synopsis # {} /\ Len(reply) = 1 /\ reply[1] \in synopsis
           v == reply # <<>> /\ ~same
           r == [peer[p] EXCEPT !.needs_us = v]
           again == ~r.need /\ c # <<>> /\ ~has_item(c[Len(c)])
           t == start_synchronizing_with_peer(r, head)
<1>1. /\ peer' = [peer EXCEPT ![p] = IF again THEN t ELSE r]
      /\ conn[p] = "active"
      /\ conn' = [conn EXCEPT ![p] = IF same /\ peer[p].inhibit THEN "closing" ELSE @]
      /\ UNCHANGED <<connects, node_state, have, missed>>
  BY DEF on_fetch_blockchain_item_ids
<1>2. v \in BOOLEAN
  OBVIOUS
<1> HIDE DEF v, same
<1>3. /\ r \in PeerRecord /\ PeerInv(queue, have[p], p, r)
      /\ r.requested = peer[p].requested
  BY <1>2, PeerFacts, NeedsUs
<1> HIDE DEF r
<1>4. /\ t \in PeerRecord /\ PeerInv(queue, have[p], p, t)
      /\ t.requested = peer[p].requested
  <2>1. r.processing \subseteq ToSet(Chain[p])
    BY <1>3 DEF PeerInv
  <2> QED
    BY <1>3, <2>1, PeerFacts, StartSync
<1> HIDE DEF t, again
<1>5. conn \in [Peers -> {"off", "active", "closing", "terminating"}]
  BY DEF SyncInv, TypeOK
<1>6. p \in Reliable => ~peer[p].inhibit
  BY PeerFacts DEF PeerInv
<1>7. \A x \in Peers : /\ conn'[x] = "off" => conn[x] = "off"
                       /\ x \in Reliable => conn'[x] # "closing"
  BY <1>1, <1>5, <1>6 DEF SyncInv, OrderInv, ReliableNotBlamed
<1>8. conn' \in [Peers -> {"off", "active", "closing", "terminating"}]
  BY <1>1, <1>5
<1>9. /\ handling' = handling /\ results' = results /\ head' = head /\ accepted' = accepted
      /\ active_sync_requests' = active_sync_requests /\ missed' = missed /\ have' = have
  BY <1>1 DEF node_state
<1>10. RequestsInv' /\ OrderInv' /\ peer' \in [Peers -> PeerRecord]
  <2>1. CASE again
    <3>1. peer' = [peer EXCEPT ![p] = t]
      BY <1>1, <2>1
    <3> QED
      BY <1>4, <1>7, <1>9, <3>1, OnePeer
  <2>2. CASE ~again
    <3>1. peer' = [peer EXCEPT ![p] = r]
      BY <1>1, <2>2
    <3> QED
      BY <1>3, <1>7, <1>9, <3>1, OnePeer
  <2> QED
    BY <2>1, <2>2
<1>11. TypeOK'
  BY <1>1, <1>8, <1>10 DEF SyncInv, TypeOK, node_state
<1> QED
  BY <1>10, <1>11 DEF SyncInv

(* One request of a peer is settled.                                       *)
LEMMA OneLess ==
  ASSUME RequestsInv, NEW p \in Peers, NEW b \in peer[p].requested,
         peer'[p].requested = peer[p].requested \ {b},
         \A x \in Peers \ {p} : peer'[x].requested = peer[x].requested,
         \A x \in Peers : conn'[x] = "off" => conn[x] = "off",
         \/ active_sync_requests' = active_sync_requests \ {b} /\ missed' = missed
         \/ active_sync_requests' = active_sync_requests /\ missed' = missed \cup {b}
  PROVE  RequestsInv'
<1>1. /\ \A x, y \in Peers : x # y => peer[x].requested \cap peer[y].requested = {}
      /\ UNION {peer[x].requested : x \in Peers} \subseteq active_sync_requests
      /\ active_sync_requests \subseteq missed \cup (UNION {peer[x].requested : x \in Peers})
  BY DEF RequestsInv, RequestsOwed
<1>2. \A x \in Peers : peer'[x].requested = peer[x].requested \ {b}
  BY <1>1
<1>3. \A x, y \in Peers : x # y => peer'[x].requested \cap peer'[y].requested = {}
  BY <1>1, <1>2
<1>4. UNION {peer'[x].requested : x \in Peers} \subseteq active_sync_requests'
  BY <1>1, <1>2
<1>5. active_sync_requests' \subseteq missed' \cup (UNION {peer'[x].requested : x \in Peers})
  BY <1>1, <1>2
<1>6. \A x \in Peers : conn'[x] = "off" => peer'[x].requested = {}
  BY <1>2 DEF RequestsInv
<1> QED
  BY <1>3, <1>4, <1>5, <1>6 DEF RequestsInv, RequestsOwed

(* A peer that owes blocks owes one that comes next.                       *)
LEMMA NextOwed ==
  ASSUME TypeOK, NEW p \in Peers, peer[p].requested # {}
  PROVE  NextRequested(p) \in peer[p].requested /\ NextRequested(p) \in Ids
<1> DEFINE R == peer[p].requested
           N == {block_num(b) : b \in R}
<1>1. R \subseteq Ids
  BY DEF TypeOK, PeerRecord, Ids
<1>2. N \subseteq Nat /\ N # {}
  BY <1>1, BlockPair
<1>3. PICK n \in N : \A m \in N : n <= m
  <2> HIDE DEF N
  <2> QED
    BY <1>2, LeastNatural
<1>4. \E b \in R : \A d \in R : block_num(b) <= block_num(d)
  BY <1>3
<1> QED
  BY <1>1, <1>4 DEF NextRequested
(* A block arrives.                                                        *)
LEMMA BlockInv ==
  ASSUME SyncInv, NEW p \in Peers, process_block_message(p)
  PROVE  SyncInv'
<1> DEFINE b == NextRequested(p)
           w == peer[p]
           r == [w EXCEPT !.requested = @ \ {b}]
           t == fetch_next_batch_of_item_ids(r, head)
<1>1. /\ w.requested # {}
      /\ active_sync_requests' = active_sync_requests \ {b}
      /\ received' = received \cup {b}
      /\ peer' = [peer EXCEPT ![p] = IF runs_short(r) THEN t ELSE r]
      /\ fetch_due' = (fetch_due \/ (idle(r) /\ ~runs_short(r)))
      /\ backlog' = (IF backlog = "idle" THEN "due" ELSE backlog)
      /\ UNCHANGED <<conn, connects, handling, results, head, accepted, suspended, have, missed>>
  BY DEF process_block_message, trigger_process_backlog
<1>2. b \in w.requested /\ b \in Ids
  BY <1>1, NextOwed DEF SyncInv
<1> HIDE DEF b
<1>3. /\ w \in PeerRecord /\ PeerInv(queue, have[p], p, w) /\ peer \in [Peers -> PeerRecord]
      /\ queue \in Queue /\ queue.head = head /\ have[p] \in Nat /\ have[p] <= Len(Chain[p])
  BY PeerFacts DEF SyncInv, TypeOK
<1> HIDE DEF w
<1>4. r \in PeerRecord /\ r.requested = w.requested \ {b}
  BY <1>3 DEF PeerRecord
<1>5. /\ r.ids = w.ids /\ r.seen = w.seen /\ r.asked \subseteq w.asked
      /\ r.processing \subseteq w.processing /\ r.inhibit = w.inhibit
  BY <1>3 DEF PeerRecord
<1> HIDE DEF r
<1>6. PeerInv(queue, have[p], p, r)
  BY <1>3, <1>5, SamePeer DEF PeerInv
<1>7. ASSUME runs_short(r)
      PROVE  t \in PeerRecord /\ PeerInv(queue, have[p], p, t) /\ t.requested = r.requested
  <2>1. r = [r EXCEPT !.asked = {}]
    BY <1>4, <1>7 DEF PeerRecord, runs_short, idle
  <2> QED
    BY <1>3, <1>4, <1>6, <2>1, FetchIds
<1> HIDE DEF t
<1> DEFINE u == IF runs_short(r) THEN t ELSE r
<1>8. /\ u \in PeerRecord /\ PeerInv(queue, have[p], p, u)
      /\ u.requested = w.requested \ {b}
  BY <1>4, <1>6, <1>7
<1>9. peer' = [peer EXCEPT ![p] = u]
  BY <1>1
<1> HIDE DEF u
<1>10. RequestsInv'
  <2>1. /\ peer'[p].requested = peer[p].requested \ {b}
        /\ \A x \in Peers \ {p} : peer'[x].requested = peer[x].requested
    BY <1>3, <1>8, <1>9 DEF w
  <2> QED
    BY <1>1, <1>2, <2>1, OneLess DEF SyncInv, w
<1>11. OrderInv'
  <2>1. \A x \in Peers : PeerInv(queue, have'[x], x, peer'[x])
    BY <1>1, <1>3, <1>8, <1>9 DEF SyncInv, OrderInv
  <2>2. \A x \in Peers : x \in Reliable => conn'[x] # "closing"
    BY <1>1 DEF SyncInv, OrderInv, ReliableNotBlamed
  <2> QED
    BY <1>1, <2>1, <2>2, OrderKept DEF SyncInv
<1>12. TypeOK'
  <2>1. received' \subseteq Nat \X Nat /\ IsFiniteSet(received')
    BY <1>1, <1>2, FS_AddElement DEF SyncInv, TypeOK, Ids
  <2>2. peer' \in [Peers -> PeerRecord]
    BY <1>3, <1>8, <1>9
  <2>3. backlog' \in {"idle", "due", "asking"} /\ active_sync_requests' \subseteq Nat \X Nat
    BY <1>1 DEF SyncInv, TypeOK
  <2>4. fetch_due' \in BOOLEAN
    BY <1>1
  <2> QED
    BY <1>1, <2>1, <2>2, <2>3, <2>4 DEF SyncInv, TypeOK
<1> QED
  BY <1>10, <1>11, <1>12 DEF SyncInv

(* A peer turns out not to have what it listed.                            *)
LEMMA NotAvailableInv ==
  ASSUME SyncInv, NEW p \in Peers, on_item_not_available(p)
  PROVE  SyncInv'
<1> DEFINE b == NextRequested(p)
           w == peer[p]
           v == w.inhibit \/ w.needs_us
           rest == w.requested \ {b}
           r == [w EXCEPT !.requested = rest, !.inhibit = v]
<1>3. /\ w \in PeerRecord /\ PeerInv(queue, have[p], p, w) /\ peer \in [Peers -> PeerRecord]
      /\ conn \in [Peers -> {"off", "active", "closing", "terminating"}]
  BY PeerFacts DEF SyncInv, TypeOK
<1>1. /\ w.requested # {} /\ p \notin Reliable /\ Reads(p)
      /\ peer' = [peer EXCEPT ![p] = r]
      /\ missed' = missed \cup {b}
      /\ conn' = [conn EXCEPT ![p] = IF w.needs_us THEN @ ELSE "closing"]
      /\ fetch_due' = TRUE
      /\ UNCHANGED <<connects, active_sync_requests, received, handling, results, head,
                     accepted, suspended, backlog, have>>
  BY <1>3 DEF on_item_not_available
<1>2. b \in w.requested /\ b \in Ids
  BY <1>1, NextOwed DEF SyncInv
<1>4. v \in BOOLEAN
  BY <1>3 DEF PeerRecord
<1>5. r = [w EXCEPT !.requested = rest, !.inhibit = v]
  OBVIOUS
<1> HIDE DEF b, v, w, rest, r
<1>6. r = [need |-> w.need, ids |-> w.ids, unfetched |-> w.unfetched,
           processing |-> w.processing, asked |-> w.asked, requested |-> rest,
           inhibit |-> v, needs_us |-> w.needs_us, seen |-> w.seen]
  BY <1>3, <1>5 DEF PeerRecord
<1>7. rest \in SUBSET Ids
  BY <1>3 DEF PeerRecord, Ids, rest
<1>8. r \in PeerRecord /\ r.requested = rest
  BY <1>3, <1>4, <1>6, <1>7 DEF PeerRecord, Ids
<1>9. PeerInv(queue, have[p], p, r)
  <2>1. /\ r.ids = w.ids /\ r.seen = w.seen /\ r.asked \subseteq w.asked
        /\ r.processing \subseteq w.processing
    BY <1>6
  <2> QED
    BY <1>1, <1>3, <2>1, SamePeer
<1>10. /\ conn' \in [Peers -> {"off", "active", "closing", "terminating"}]
       /\ \A x \in Peers : /\ conn'[x] = "off" => conn[x] = "off"
                           /\ x \in Reliable => conn'[x] # "closing"
  BY <1>1, <1>3 DEF SyncInv, OrderInv, ReliableNotBlamed
<1>11. RequestsInv'
  <2>1. /\ peer'[p].requested = peer[p].requested \ {b}
        /\ \A x \in Peers \ {p} : peer'[x].requested = peer[x].requested
    BY <1>1, <1>3, <1>8 DEF w, rest
  <2> QED
    BY <1>1, <1>2, <1>10, <2>1, OneLess DEF SyncInv, w
<1>12. OrderInv'
  <2>1. \A x \in Peers : PeerInv(queue, have'[x], x, peer'[x])
    BY <1>1, <1>3, <1>9 DEF SyncInv, OrderInv
  <2> QED
    BY <1>1, <1>10, <2>1, OrderKept DEF SyncInv
<1>13. TypeOK'
  <2>1. peer' \in [Peers -> PeerRecord] /\ missed' \subseteq Nat \X Nat
    BY <1>1, <1>2, <1>3, <1>8 DEF SyncInv, TypeOK, Ids
  <2>2. fetch_due' \in BOOLEAN
    BY <1>1
  <2> QED
    BY <1>1, <1>10, <2>1, <2>2 DEF SyncInv, TypeOK
<1> QED
  BY <1>11, <1>12, <1>13 DEF SyncInv

(* The loop of the backlog goes on after its question.                     *)
LEMMA HasAskedInv ==
  ASSUME SyncInv, backlog_has_asked
  PROVE  SyncInv'
<1>1. /\ backlog' = "idle" /\ fetch_due' = (fetch_due \/ ~suspended)
      /\ UNCHANGED <<conn, connects, peer, active_sync_requests, received, handling,
                     results, head, accepted, suspended, have, missed>>
  BY DEF backlog_has_asked
<1>2. \A x \in Peers : PeerInv(queue, have'[x], x, peer'[x])
  BY <1>1 DEF SyncInv, OrderInv
<1>3. \A x \in Peers : x \in Reliable => conn'[x] # "closing"
  BY <1>1 DEF SyncInv, OrderInv, ReliableNotBlamed
<1>4. RequestsInv' /\ OrderInv'
  BY <1>1, <1>2, <1>3, PeersStep
<1>5. fetch_due' \in BOOLEAN
  BY <1>1
<1>6. TypeOK'
  BY <1>1, <1>5 DEF SyncInv, TypeOK
<1> QED
  BY <1>4, <1>6 DEF SyncInv

-----------------------------------------------------------------------------
(* The steps of the queue.                                                 *)

(* The order of the blocks is kept when the queue leads on.                *)
LEMMA OrderMoved ==
  ASSUME InOrder(queue'), Answered(queue)',
         \A x \in Peers : PeerInv(queue', have'[x], x, peer'[x]),
         \A b \in accepted' : is_valid(b) /\ block_num(b) <= head',
         \A x \in Peers : x \in Reliable => conn'[x] # "closing"
  PROVE  OrderInv'
<1>1. ReliableNotBlamed'
  BY SyncAssumption DEF ReliableNotBlamed
<1> QED
  BY <1>1 DEF OrderInv

(* What was accepted stays in the chain.                                   *)
LEMMA AcceptedStay ==
  ASSUME SyncInv, NEW hd \in Nat, head <= hd
  PROVE  \A b \in accepted : b \in Ids /\ is_valid(b) /\ block_num(b) <= hd
<1>1. \A b \in accepted : b \in Ids /\ is_valid(b) /\ block_num(b) <= head
  BY DEF SyncInv, OrderInv, TypeOK, Ids
<1>2. head \in Nat
  BY DEF SyncInv, TypeOK
<1>3. \A b \in accepted : block_num(b) \in Nat
  BY <1>1, BlockPair
<1> QED
  BY <1>1, <1>2, <1>3

(* The chain database answers for a block.                                 *)
LEMMA HandledInv ==
  ASSUME SyncInv, handle_block
  PROVE  SyncInv'
<1> DEFINE l == Len(results)
           b == handling[l + 1]
           ok == is_valid(b) /\ block_num(b) <= head + 1
           hd == IF ok /\ block_num(b) > head THEN block_num(b) ELSE head
<1>1. /\ l < Len(handling) /\ results' = Append(results, ok) /\ head' = hd
      /\ UNCHANGED <<conn, connects, peer, active_sync_requests, received, handling,
                     accepted, suspended, fetch_due, backlog, have, missed>>
  BY DEF handle_block
<1>2. /\ queue \in Queue /\ queue.blocks = handling /\ queue.done = l /\ queue.head = head
      /\ InOrder(queue) /\ head \in Nat /\ handling \in Seq(Ids) /\ results \in Seq(BOOLEAN)
      /\ l \in Nat
  BY QueueType DEF SyncInv, OrderInv, TypeOK, Ids
<1>3. l + 1 \in 1 .. Len(handling)
  BY <1>1, <1>2
<1>4. b \in Ids /\ block_num(b) \in Nat
  BY <1>2, <1>3, BlockPair
<1>5. ok \in BOOLEAN
  BY DEF is_valid
<1> HIDE DEF b
<1>6. hd \in Nat /\ head <= hd /\ (ok => block_num(b) <= hd)
  BY <1>2, <1>4
<1>7. /\ results' \in Seq(BOOLEAN) /\ Len(results') = l + 1 /\ results'[l + 1] = ok
      /\ \A j \in 1 .. l : results'[j] = results[j]
  <2> HIDE DEF ok
  <2> QED
    BY <1>1, <1>2, <1>5
<1> DEFINE t == [blocks |-> queue.blocks, done |-> queue.done + 1, head |-> hd]
<1>8. queue' = t
  <2> HIDE DEF hd, ok
  <2> QED
    BY <1>1, <1>2, <1>7 DEF queue
<1>9. /\ t \in Queue /\ InOrder(t) /\ Leads(queue, t)
      /\ is_valid(b) => block_num(b) <= queue.head + 1
  <2>1. is_valid(b) /\ block_num(b) <= queue.head + 1 => block_num(b) <= hd
    BY <1>2, <1>6
  <2>2. b = queue.blocks[queue.done + 1] /\ queue.done < Len(queue.blocks) /\ queue.head <= hd
    BY <1>1, <1>2, <1>6 DEF b
  <2>3. t = [blocks |-> queue.blocks, done |-> queue.done + 1, head |-> hd]
    OBVIOUS
  <2> HIDE DEF t, hd
  <2> QED
    BY <1>2, <1>6, <2>1, <2>2, <2>3, QueueAnswer
<1> HIDE DEF t
<1>10. \A x \in Peers : PeerInv(queue', have'[x], x, peer'[x])
  <2> TAKE x \in Peers
  <2>1. /\ peer[x] \in PeerRecord /\ PeerInv(queue, have[x], x, peer[x]) /\ have[x] \in Nat
        /\ have[x] <= have[x]
    BY PeerFacts
  <2>2. PeerInv(t, have[x], x, peer[x])
    BY <1>2, <1>9, <2>1, PeerInvKept
  <2> QED
    BY <1>1, <1>8, <2>2
<1>11. Answered(queue)'
  <2>1. queue'.blocks = handling /\ queue'.head = hd
    BY <1>2, <1>8 DEF t
  <2>2. \A j \in 1 .. l : /\ results[j] <=> is_valid(handling[j])
                          /\ is_valid(handling[j]) => block_num(handling[j]) <= head
    BY <1>2 DEF SyncInv, OrderInv, Answered
  <2>3. ASSUME NEW j \in 1 .. l + 1
        PROVE  /\ results'[j] <=> is_valid(handling[j])
               /\ is_valid(handling[j]) => block_num(handling[j]) <= hd
    <3>1. CASE j = l + 1
      <4>1. results'[j] = ok /\ handling[j] = b
        BY <1>7, <3>1 DEF b
      <4>2. ok <=> is_valid(b)
        BY <1>2, <1>9
      <4> HIDE DEF hd, l
      <4> QED
        BY <1>6, <4>1, <4>2
    <3>2. CASE j # l + 1
      <4>1. j \in 1 .. l /\ j \in 1 .. Len(handling)
        BY <1>2, <1>3, <3>2
      <4>2. handling[j] \in Ids
        BY <1>2, <4>1
      <4>3. block_num(handling[j]) \in Nat
        BY <4>2, BlockPair
      <4>4. block_num(handling[j]) <= head => block_num(handling[j]) <= hd
        BY <1>2, <1>6, <4>3
      <4>5. results'[j] = results[j]
        BY <1>7, <4>1
      <4> QED
        BY <2>2, <4>1, <4>4, <4>5
    <3> QED
      BY <3>1, <3>2
  <2>4. l + 1 <= Len(handling)
    BY <1>3
  <2> HIDE DEF hd, l
  <2> QED
    BY <1>7, <2>1, <2>3, <2>4 DEF Answered
<1>12. \A x \in Peers : x \in Reliable => conn'[x] # "closing"
  BY <1>1 DEF SyncInv, OrderInv, ReliableNotBlamed
<1>13. \A x \in accepted' : is_valid(x) /\ block_num(x) <= head'
  <2> HIDE DEF hd
  <2> QED
    BY <1>1, <1>6, AcceptedStay
<1>14. OrderInv'
  BY <1>8, <1>9, <1>10, <1>11, <1>12, <1>13, OrderMoved
<1>15. RequestsInv'
  BY <1>1, RequestsKept DEF SyncInv
<1>16. TypeOK'
  <2> HIDE DEF hd
  <2> QED
    BY <1>1, <1>6, <1>7 DEF SyncInv, TypeOK
<1> QED
  BY <1>14, <1>15, <1>16 DEF SyncInv

(* A peer may be asked for ids at any time.                                *)
LEMMA AskAgain ==
  ASSUME NEW q \in Queue, NEW p \in Peers, NEW m \in Nat, m <= Len(Chain[p]),
         NEW r \in PeerRecord, PeerInv(q, m, p, r)
  PROVE  /\ fetch_next_batch_of_item_ids(r, q.head) \in PeerRecord
         /\ PeerInv(q, m, p, fetch_next_batch_of_item_ids(r, q.head))
         /\ fetch_next_batch_of_item_ids(r, q.head).requested = r.requested
<1> DEFINE u == [r EXCEPT !.asked = {}]
<1>1. /\ u.ids = r.ids /\ u.seen = r.seen /\ u.asked = {} /\ u.processing = r.processing
      /\ u.inhibit = r.inhibit
  BY DEF PeerRecord
<1> HIDE DEF u
<1>2. PeerInv(q, m, p, u)
  BY <1>1, SamePeer DEF PeerInv
<1> QED
  BY <1>2, FetchIds DEF u

(* Block n was seen, the blocks of S are left to process.                  *)
Advanced(r, n, S, t) == t = [r EXCEPT !.seen = n, !.processing = S]

(* A block that we have was processed.                                     *)
LEMMA ProcessedInv ==
  ASSUME NEW q, NEW m, NEW p, NEW r \in PeerRecord, PeerInv(q, m, p, r),
         NEW n \in Nat, n <= q.head, NEW S, S \subseteq r.processing, NEW t,
         Advanced(r, n, S, t)
  PROVE  t \in PeerRecord /\ PeerInv(q, m, p, t) /\ t.requested = r.requested
<1>1. t = [need |-> r.need, ids |-> r.ids, unfetched |-> r.unfetched,
           processing |-> S, asked |-> r.asked, requested |-> r.requested,
           inhibit |-> r.inhibit, needs_us |-> r.needs_us, seen |-> n]
  BY DEF PeerRecord, Advanced
<1>2. t \in PeerRecord
  <2>1. S \in SUBSET (Nat \X Nat)
    BY DEF PeerRecord
  <2> QED
    BY <1>1, <2>1 DEF PeerRecord
<1>3. /\ t.ids = r.ids /\ t.seen = n /\ t.asked = r.asked /\ t.processing = S
      /\ t.inhibit = r.inhibit /\ t.requested = r.requested
  BY <1>1
<1>4. PeerInv(q, m, p, t)
  BY <1>3 DEF PeerInv
<1> QED
  BY <1>2, <1>3, <1>4

(* A block of the queue was accepted: what a peer is asked then.           *)
LEMMA AfterAccepted ==
  ASSUME NEW q \in Queue, q.head = head, NEW p \in Peers, NEW m \in Nat, m <= Len(Chain[p]),
         NEW r \in PeerRecord, PeerInv(q, m, p, r), NEW b \in Ids, block_num(b) <= q.head
  PROVE  /\ after_accepted(r, b) \in PeerRecord /\ PeerInv(q, m, p, after_accepted(r, b))
         /\ after_accepted(r, b).requested = r.requested
<1> DEFINE n == block_num(b)
           S == r.processing \ {b}
           done == [r EXCEPT !.seen = n, !.processing = S]
           t == start_synchronizing_with_peer(r, head)
           u == fetch_next_batch_of_item_ids(done, head)
           v == after_accepted(r, b)
<1>1. v = IF r.ids = <<>> /\ r.processing = {}
          THEN IF ~r.needs_us /\ ~r.need THEN t ELSE r
          ELSE IF b \notin r.processing THEN r ELSE IF NewlyEmpty(done) THEN u ELSE done
  BY DEF after_accepted
<1>2. t \in PeerRecord /\ PeerInv(q, m, p, t) /\ t.requested = r.requested
  <2>1. r.processing \subseteq ToSet(Chain[p])
    BY DEF PeerInv
  <2> QED
    BY <2>1, StartSync
<1>3. n \in Nat /\ n <= q.head /\ S \subseteq r.processing
  BY BlockPair
<1>4. Advanced(r, n, S, done)
  BY DEF Advanced
<1> HIDE DEF n, S, done
<1>5. done \in PeerRecord /\ PeerInv(q, m, p, done) /\ done.requested = r.requested
  BY <1>3, <1>4, ProcessedInv
<1>6. u \in PeerRecord /\ PeerInv(q, m, p, u) /\ u.requested = done.requested
  BY <1>5, AskAgain
<1> HIDE DEF t, u, v
<1>7. v = t \/ v = r \/ v = u \/ v = done
  BY <1>1
<1>8. v \in PeerRecord /\ PeerInv(q, m, p, v) /\ v.requested = r.requested
  BY <1>2, <1>5, <1>6, <1>7
<1> QED
  BY <1>8 DEF v

(* The answer of the chain database reaches the node.                      *)
LEMMA DeliveredInv ==
  ASSUME SyncInv, send_sync_block_to_node_delegate
  PROVE  SyncInv'
<1> DEFINE b == Head(handling)
           l == Len(results)
           t == [blocks |-> Tail(queue.blocks), done |-> queue.done - 1, head |-> queue.head]
<1>1. /\ results # <<>>
      /\ \/ /\ Head(results) /\ accepted' = accepted \cup {b}
            /\ peer' = [p \in Peers |->
                 IF conn[p] = "active" THEN after_accepted(peer[p], b) ELSE peer[p]]
            /\ UNCHANGED conn
         \/ /\ ~Head(results)
            /\ conn' = [p \in Peers |-> IF conn[p] = "active" /\ b \in peer[p].processing
                                        THEN "closing" ELSE conn[p]]
            /\ UNCHANGED <<accepted, peer>>
      /\ handling' = Tail(handling) /\ results' = Tail(results)
      /\ backlog' = (IF backlog = "idle" THEN "due" ELSE backlog)
      /\ UNCHANGED <<connects, active_sync_requests, received, head, suspended, fetch_due,
                     have, missed>>
  BY DEF send_sync_block_to_node_delegate, trigger_process_backlog
<1>2. /\ queue \in Queue /\ queue.blocks = handling /\ queue.done = l /\ queue.head = head
      /\ InOrder(queue) /\ head \in Nat /\ handling \in Seq(Ids) /\ results \in Seq(BOOLEAN)
  BY QueueType DEF SyncInv, OrderInv, TypeOK, Ids
<1>3. /\ l <= Len(handling)
      /\ \A j \in 1 .. l : /\ results[j] <=> is_valid(handling[j])
                           /\ is_valid(handling[j]) => block_num(handling[j]) <= head
  BY <1>2 DEF SyncInv, OrderInv, Answered
<1>0. /\ results # <<>> /\ handling' = Tail(handling) /\ results' = Tail(results)
      /\ head' = head
  BY <1>1
<1>19. /\ results \in Seq(BOOLEAN) /\ handling \in Seq(Ids) /\ l <= Len(handling)
       /\ head \in Nat
  BY <1>2, <1>3
<1>4. l \in Nat \ {0} /\ Len(handling) \in Nat \ {0} /\ 1 \in 1 .. l
  BY ONLY <1>0, <1>19
<1>5. b = handling[1] /\ b \in Ids /\ Head(results) = results[1]
  BY ONLY <1>0, <1>19, <1>4
<1>6. (Head(results) <=> is_valid(b)) /\ (is_valid(b) => block_num(b) <= head)
  BY <1>3, <1>4, <1>5
<1>7. /\ results' \in Seq(BOOLEAN) /\ Len(results') = l - 1
      /\ \A j \in 1 .. l - 1 : results'[j] = results[j + 1]
      /\ handling' \in Seq(Ids) /\ Len(handling') = Len(handling) - 1
      /\ \A j \in 1 .. Len(handling) - 1 : handling'[j] = handling[j + 1]
  <2>1. /\ Tail(results) \in Seq(BOOLEAN) /\ Len(Tail(results)) = l - 1
        /\ \A j \in 1 .. l - 1 : Tail(results)[j] = results[j + 1]
    BY ONLY <1>19, <1>4
  <2>2. /\ Tail(handling) \in Seq(Ids) /\ Len(Tail(handling)) = Len(handling) - 1
        /\ \A j \in 1 .. Len(handling) - 1 : Tail(handling)[j] = handling[j + 1]
    BY ONLY <1>19, <1>4
  <2> QED
    BY ONLY <1>0, <2>1, <2>2
<1> HIDE DEF b
<1>8. queue' = t
  BY <1>1, <1>2, <1>7 DEF queue
<1>9. t \in Queue /\ InOrder(t) /\ Leads(queue, t)
  <2>1. queue.done # 0 /\ queue.done <= Len(queue.blocks)
    BY <1>2, <1>3, <1>4
  <2>2. t = [blocks |-> Tail(queue.blocks), done |-> queue.done - 1, head |-> queue.head]
    OBVIOUS
  <2> HIDE DEF t
  <2> QED
    BY <1>2, <2>1, <2>2, QueueShift
<1>10. t.blocks = handling' /\ t.head = head
  BY <1>1, <1>2
<1> HIDE DEF t
<1>11. Answered(queue)'
  <2>1. queue'.blocks = handling' /\ queue'.head = head
    BY <1>8, <1>10
  <2>2. ASSUME NEW j \in 1 .. l - 1
        PROVE  /\ results'[j] <=> is_valid(handling'[j])
               /\ is_valid(handling'[j]) => block_num(handling'[j]) <= head
    <3>1. j + 1 \in 1 .. l /\ j \in 1 .. Len(handling) - 1
      BY <1>3, <1>4
    <3>2. results'[j] = results[j + 1] /\ handling'[j] = handling[j + 1]
      BY <1>7, <3>1
    <3> QED
      BY <1>3, <3>1, <3>2
  <2>3. l - 1 <= Len(handling')
    BY <1>3, <1>4, <1>7
  <2> HIDE DEF l
  <2> QED
    BY <1>7, <2>1, <2>2, <2>3 DEF Answered
<1>12. ASSUME NEW x \in Peers
       PROVE  /\ peer[x] \in PeerRecord /\ PeerInv(t, have[x], x, peer[x])
              /\ have[x] \in Nat /\ have[x] <= Len(Chain[x])
  <2>1. /\ peer[x] \in PeerRecord /\ PeerInv(queue, have[x], x, peer[x]) /\ have[x] \in Nat
        /\ have[x] <= Len(Chain[x]) /\ have[x] <= have[x]
    BY PeerFacts
  <2>2. PeerInv(t, have[x], x, peer[x])
    BY <1>2, <1>9, <2>1, PeerInvKept
  <2> QED
    BY <2>1, <2>2
<1>13. /\ peer' \in [Peers -> PeerRecord]
       /\ \A x \in Peers : /\ PeerInv(t, have[x], x, peer'[x])
                           /\ peer'[x].requested = peer[x].requested
  <2>1. CASE Head(results)
    <3>1. block_num(b) <= t.head /\ t.head = head
      BY <1>6, <1>10, <2>1
    <3>2. \A x \in Peers : /\ after_accepted(peer[x], b) \in PeerRecord
                           /\ PeerInv(t, have[x], x, after_accepted(peer[x], b))
                           /\ after_accepted(peer[x], b).requested = peer[x].requested
      BY <1>5, <1>9, <1>12, <3>1, AfterAccepted
    <3>3. peer' = [p \in Peers |->
                 IF conn[p] = "active" THEN after_accepted(peer[p], b) ELSE peer[p]]
      BY <1>1, <2>1
    <3> QED
      BY <1>12, <3>2, <3>3
  <2>2. CASE ~Head(results)
    <3>1. peer' = peer
      BY <1>1, <2>2
    <3>2. peer \in [Peers -> PeerRecord]
      BY DEF SyncInv, TypeOK
    <3> QED
      BY <1>12, <3>1, <3>2
  <2> QED
    BY <2>1, <2>2
<1>14. /\ conn' \in [Peers -> {"off", "active", "closing", "terminating"}]
       /\ \A x \in Peers : /\ conn'[x] = "off" => conn[x] = "off"
                           /\ x \in Reliable => conn'[x] # "closing"
  <2>1. /\ conn \in [Peers -> {"off", "active", "closing", "terminating"}]
        /\ \A x \in Peers : x \in Reliable => conn[x] # "closing"
    BY PeerFacts DEF SyncInv, TypeOK
  <2>2. CASE Head(results)
    BY <1>1, <2>1, <2>2
  <2>3. CASE ~Head(results)
    <3>1. conn' = [p \in Peers |-> IF conn[p] = "active" /\ b \in peer[p].processing
                                   THEN "closing" ELSE conn[p]]
      BY <1>1, <2>3
    <3>2. ~is_valid(b)
      BY <1>6, <2>3
    <3>3. ASSUME NEW x \in Peers, x \in Reliable PROVE b \notin peer[x].processing
      <4>1. peer[x].processing \subseteq ToSet(Chain[x])
        BY <1>12 DEF PeerInv
      <4>2. Chain[x] \in Seq(Ids)
        BY SyncAssumption DEF Ids
      <4>3. \A c \in ToSet(Chain[x]) : \E n \in 1 .. Len(Chain[x]) : c = Chain[x][n]
        BY <4>2 DEF ToSet
      <4>4. \A c \in ToSet(Chain[x]) : is_valid(c)
        BY <3>3, <4>3, ChainBlocks
      <4> QED
        BY <3>2, <4>1, <4>4
    <3> QED
      BY <2>1, <3>1, <3>3
  <2> QED
    BY <2>2, <2>3
<1>15. /\ \A x \in accepted' : is_valid(x) /\ block_num(x) <= head'
       /\ accepted' \subseteq Ids
  <2>1. head \in Nat /\ head <= head /\ head' = head
    BY ONLY <1>0, <1>19
  <2>2. \A x \in accepted : x \in Ids /\ is_valid(x) /\ block_num(x) <= head
    BY <2>1, AcceptedStay
  <2>3. accepted' = accepted \/ (accepted' = accepted \cup {b} /\ Head(results))
    BY <1>1
  <2> QED
    BY <1>5, <1>6, <2>1, <2>2, <2>3
<1>16. OrderInv'
  <2>1. \A x \in Peers : PeerInv(queue', have'[x], x, peer'[x])
    BY <1>1, <1>8, <1>13
  <2> QED
    BY <1>8, <1>9, <1>11, <1>14, <1>15, <2>1, OrderMoved
<1>17. RequestsInv'
  BY <1>1, <1>13, <1>14, RequestsKept DEF SyncInv
<1>18. TypeOK'
  <2>1. backlog' \in {"idle", "due", "asking"}
    BY <1>1 DEF SyncInv, TypeOK
  <2> QED
    BY <1>1, <1>7, <1>13, <1>14, <1>15, <2>1 DEF SyncInv, TypeOK, Ids
<1> QED
  BY <1>16, <1>17, <1>18 DEF SyncInv

(* A reliable peer lists valid blocks only.                                *)
LEMMA ReliableLists ==
  ASSUME NEW p \in Peers, p \in Reliable, NEW m \in Nat, m <= Len(Chain[p]),
         NEW s \in Seq(Ids), Listed(p, m, s), s # <<>>
  PROVE  is_valid(s[1])
<1>1. PICK k \in Nat : k + Len(s) <= m /\ \A i \in 1 .. Len(s) : s[i] = Chain[p][k + i]
  BY DEF Listed
<1>2. Len(s) \in Nat \ {0} /\ Len(Chain[p]) \in Nat
  BY ChainBlocks
<1>3. 1 \in 1 .. Len(s) /\ k + 1 \in 1 .. Len(Chain[p])
  BY <1>1, <1>2
<1>4. s[1] = Chain[p][k + 1]
  BY <1>1, <1>3
<1> QED
  BY <1>3, <1>4, ChainBlocks

(* A peer sends its next block as an ordinary item.                        *)
LEMMA OrdinaryInv ==
  ASSUME SyncInv, NEW p \in Peers, process_block_during_normal_operation(p)
  PROVE  SyncInv'
<1> DEFINE b == Chain[p][have[p] + 1]
           n == block_num(b)
           known == b \in accepted
           unlinkable == ~known /\ n > head + 1
           ok == known \/ (~unlinkable /\ is_valid(b))
           hd == IF n > head THEN n ELSE head
           Accepts == /\ accepted' = accepted \cup {b} /\ head' = hd
                      /\ peer' = [peer EXCEPT ![p].seen = n]
                      /\ UNCHANGED conn
           Resyncs == /\ peer' = [peer EXCEPT ![p] = start_synchronizing_with_peer(@, head)]
                      /\ UNCHANGED <<conn, accepted, head>>
           Blames == /\ conn' = [x \in Peers |->
                          IF x = p \/ StartsWith(peer, x, b) THEN "closing" ELSE conn[x]]
                     /\ UNCHANGED <<peer, accepted, head>>
<1>1. /\ have[p] < Len(Chain[p])
      /\ have' = [have EXCEPT ![p] = @ + 1]
      /\ UNCHANGED <<connects, active_sync_requests, received, handling, results,
                     suspended, fetch_due, backlog, missed>>
  BY DEF process_block_during_normal_operation
<1>2. (ok /\ Accepts) \/ (unlinkable /\ Resyncs) \/ (~ok /\ ~unlinkable /\ Blames)
  BY DEF process_block_during_normal_operation
<1>3. have \in [Peers -> Nat] /\ \A x \in Peers : have[x] <= Len(Chain[x])
  BY DEF SyncInv, TypeOK
<1>4. /\ have' \in [Peers -> Nat]
      /\ \A x \in Peers : have[x] <= have'[x] /\ have'[x] <= Len(Chain[x])
  BY <1>1, <1>3, ChainBlocks
<1>5. b \in Ids /\ n \in Nat /\ (p \in Reliable => is_valid(b))
  <2>1. have[p] + 1 \in 1 .. Len(Chain[p])
    BY <1>1, <1>3, ChainBlocks
  <2> QED
    BY <2>1, ChainBlocks, BlockPair
<1>6. /\ queue \in Queue /\ queue.blocks = handling /\ queue.done = Len(results)
      /\ queue.head = head /\ InOrder(queue) /\ head \in Nat
      /\ peer \in [Peers -> PeerRecord]
      /\ conn \in [Peers -> {"off", "active", "closing", "terminating"}]
  BY QueueType DEF SyncInv, OrderInv, TypeOK
<1> HIDE DEF b, n
<1>7. ASSUME NEW t \in Queue, Leads(queue, t), NEW x \in Peers
      PROVE  peer[x] \in PeerRecord /\ PeerInv(t, have'[x], x, peer[x])
  <2>1. peer[x] \in PeerRecord /\ PeerInv(queue, have[x], x, peer[x])
    BY PeerFacts
  <2>2. have[x] \in Nat /\ have'[x] \in Nat /\ have[x] <= have'[x]
    BY <1>3, <1>4
  <2> QED
    BY <1>6, <1>7, <2>1, <2>2, PeerInvKept
<1>8. Leads(queue, queue)
  BY <1>6 DEF Leads, Queue
<1>9. CASE ok /\ Accepts
  <2>1. is_valid(b) /\ hd \in Nat /\ head <= hd /\ n <= hd
    <3>1. known => is_valid(b)
      BY DEF SyncInv, OrderInv
    <3>2. is_valid(b)
      BY <1>9, <3>1
    <3> QED
      BY <1>5, <1>6, <3>2
  <2>2. accepted' = accepted \cup {b} /\ head' = hd /\ conn' = conn
        /\ peer' = [peer EXCEPT ![p].seen = n]
    BY <1>9
  <2> HIDE DEF hd, ok, Accepts, Resyncs, Blames
  <2> DEFINE t == [blocks |-> queue.blocks, done |-> queue.done, head |-> hd]
  <2>3. queue' = t
    BY <1>1, <1>6, <2>2 DEF queue
  <2>4. t.blocks = handling /\ t.head = hd /\ t = [blocks |-> queue.blocks, done |-> queue.done, head |-> hd]
    BY <1>6
  <2> HIDE DEF t
  <2>5. t \in Queue /\ InOrder(t) /\ Leads(queue, t)
    <3>1. queue.head <= hd
      BY <1>6, <2>1
    <3> QED
      BY <1>6, <2>1, <2>4, <3>1, QueueRaise
  <2>6. peer'[p] \in PeerRecord /\ PeerInv(t, have'[p], p, peer'[p])
        /\ peer'[p].requested = peer[p].requested
    <3> DEFINE r == peer[p]
               S == r.processing
    <3>1. r \in PeerRecord /\ PeerInv(t, have'[p], p, r)
      BY <1>7, <2>5
    <3>2. peer'[p] = [r EXCEPT !.seen = n]
      BY <1>6, <2>2
    <3> HIDE DEF r
    <3>3. Advanced(r, n, S, peer'[p])
      BY <3>1, <3>2 DEF Advanced, PeerRecord
    <3>4. n <= t.head
      BY <2>1, <2>4
    <3> HIDE DEF S
    <3>5. S \subseteq r.processing
      BY DEF S
    <3> QED
      BY <1>5, <3>1, <3>3, <3>4, <3>5, ProcessedInv DEF r
  <2>7. \A x \in Peers : /\ PeerInv(t, have'[x], x, peer'[x])
                         /\ peer'[x].requested = peer[x].requested
    <3>1. \A x \in Peers : x # p => peer'[x] = peer[x]
      BY <1>6, <2>2
    <3> QED
      BY <1>7, <2>5, <2>6, <3>1
  <2>8. peer' \in [Peers -> PeerRecord]
    <3>1. peer' = [peer EXCEPT ![p] = peer'[p]]
      BY <1>6, <2>2
    <3> QED
      BY <1>6, <2>6, <3>1
  <2>9. Answered(queue)'
    <3>1. queue'.blocks = handling /\ queue'.head = hd /\ results' = results
      BY <1>1, <2>3, <2>4
    <3>2. /\ Len(results) <= Len(handling)
          /\ \A j \in 1 .. Len(results) :
               /\ results[j] <=> is_valid(handling[j])
               /\ is_valid(handling[j]) => block_num(handling[j]) <= head
      BY <1>6 DEF SyncInv, OrderInv, Answered
    <3>3. ASSUME NEW j \in 1 .. Len(results), block_num(handling[j]) <= head
          PROVE  block_num(handling[j]) <= hd
      <4>1. handling \in Seq(Ids) /\ j \in 1 .. Len(handling)
        BY <3>2 DEF SyncInv, TypeOK, Ids
      <4>2. handling[j] \in Ids
        BY <4>1
      <4>3. block_num(handling[j]) \in Nat
        BY <4>2, BlockPair
      <4> QED
        BY <1>6, <2>1, <3>3, <4>3
    <3> QED
      BY <3>1, <3>2, <3>3 DEF Answered
  <2>10. accepted' \subseteq Ids /\ \A x \in accepted' : is_valid(x) /\ block_num(x) <= head'
    <3>1. \A x \in accepted : x \in Ids /\ is_valid(x) /\ block_num(x) <= hd
      BY <2>1, AcceptedStay
    <3> QED
      BY <1>5, <2>1, <2>2, <3>1 DEF n
  <2>11. \A x \in Peers : x \in Reliable => conn'[x] # "closing"
    BY <2>2, PeerFacts
  <2>12. OrderInv'
    <3>1. \A x \in Peers : PeerInv(queue', have'[x], x, peer'[x])
      BY <2>3, <2>7
    <3> QED
      BY <2>3, <2>5, <2>9, <2>10, <2>11, <3>1, OrderMoved
  <2>13. RequestsInv'
    BY <1>1, <2>2, <2>7, RequestsKept DEF SyncInv
  <2>14. TypeOK'
    BY <1>1, <1>4, <2>1, <2>2, <2>8, <2>10 DEF SyncInv, TypeOK, Ids
  <2> QED
    BY <2>12, <2>13, <2>14 DEF SyncInv
<1>10. CASE unlinkable /\ Resyncs
  <2> DEFINE t == start_synchronizing_with_peer(peer[p], head)
  <2>1. peer' = [peer EXCEPT ![p] = t] /\ conn' = conn /\ accepted' = accepted /\ head' = head
    BY <1>10
  <2>2. t \in PeerRecord /\ PeerInv(queue, have'[p], p, t) /\ t.requested = peer[p].requested
    <3>1. peer[p].processing \subseteq ToSet(Chain[p]) /\ peer[p] \in PeerRecord
      BY PeerFacts DEF PeerInv
    <3>2. have'[p] \in Nat /\ have'[p] <= Len(Chain[p])
      BY <1>4
    <3> QED
      BY <1>6, <3>1, <3>2, StartSync
  <2> HIDE DEF t, ok, Accepts, Resyncs, Blames
  <2>3. \A x \in Peers : /\ PeerInv(queue, have'[x], x, peer'[x])
                         /\ peer'[x].requested = peer[x].requested
    BY <1>6, <1>7, <1>8, <2>1, <2>2
  <2>4. \A x \in Peers : x \in Reliable => conn'[x] # "closing"
    BY <2>1, PeerFacts
  <2>5. RequestsInv' /\ OrderInv'
    BY <1>1, <2>1, <2>3, <2>4, PeersStep
  <2>6. peer' \in [Peers -> PeerRecord]
    BY <1>6, <2>1, <2>2
  <2>7. TypeOK'
    BY <1>1, <1>4, <2>1, <2>6 DEF SyncInv, TypeOK
  <2> QED
    BY <2>5, <2>7 DEF SyncInv
<1>11. CASE ~ok /\ ~unlinkable /\ Blames
  <2>1. /\ conn' = [x \in Peers |->
             IF x = p \/ StartsWith(peer, x, b) THEN "closing" ELSE conn[x]]
        /\ peer' = peer /\ accepted' = accepted /\ head' = head
    BY <1>11
  <2>2. ~is_valid(b)
    BY <1>11
  <2>3. ASSUME NEW x \in Peers, x \in Reliable PROVE ~(x = p \/ StartsWith(peer, x, b))
    <3>1. /\ peer[x].ids \in Seq(Ids) /\ Listed(x, have[x], peer[x].ids) /\ have[x] \in Nat
          /\ have[x] <= Len(Chain[x])
      BY PeerFacts DEF PeerInv, PeerRecord, Ids
    <3>2. peer[x].ids # <<>> => is_valid(peer[x].ids[1])
      BY <2>3, <3>1, ReliableLists
    <3> QED
      BY <1>5, <2>2, <2>3, <3>2 DEF StartsWith
  <2> HIDE DEF ok, Accepts, Resyncs, Blames
  <2>4. /\ conn' \in [Peers -> {"off", "active", "closing", "terminating"}]
        /\ \A x \in Peers : /\ conn'[x] = "off" => conn[x] = "off"
                            /\ x \in Reliable => conn'[x] # "closing"
    <3>1. \A x \in Peers : x \in Reliable => conn[x] # "closing"
      BY PeerFacts
    <3> QED
      BY <1>6, <2>1, <2>3, <3>1
  <2>5. \A x \in Peers : /\ PeerInv(queue, have'[x], x, peer'[x])
                         /\ peer'[x].requested = peer[x].requested
    BY <1>6, <1>7, <1>8, <2>1
  <2>6. RequestsInv' /\ OrderInv'
    BY <1>1, <2>1, <2>4, <2>5, PeersStep
  <2>7. TypeOK'
    BY <1>1, <1>4, <2>1, <2>4 DEF SyncInv, TypeOK
  <2> QED
    BY <2>6, <2>7 DEF SyncInv
<1> QED
  BY <1>2, <1>9, <1>10, <1>11

-----------------------------------------------------------------------------
(* The two loops.                                                          *)

(* What one pass may ask of the peers: no block of two of them, none that  *)
(* is asked for already, and nothing of a peer that is not active.         *)
Shares ==
  {f \in [Peers -> SUBSET Ids] :
     /\ \A x, y \in Peers : x # y => f[x] \cap f[y] = {}
     /\ \A x \in Peers : f[x] \cap active_sync_requests = {}
     /\ \A x \in Peers : conn[x] # "active" => f[x] = {}}

(* Asking one more peer keeps to that.                                     *)
LEMMA AskNextShares ==
  ASSUME TypeOK, NEW f \in Shares, NEW p \in ActiveIn(conn)
  PROVE  AskNext(f, p) \in Shares
<1> DEFINE taken == active_sync_requests \cup UNION {f[q] : q \in Peers}
           A == Batch(p, taken)
           g == [f EXCEPT ![p] = A]
<1>1. AskNext(f, p) = g
  BY DEF AskNext
<1>2. p \in Peers /\ conn[p] = "active" /\ peer[p].ids \in Seq(Ids)
  BY DEF ActiveIn, TypeOK, PeerRecord, Ids
<1>3. A \subseteq Ids /\ A \cap taken = {}
  <2>1. \A n \in 1 .. Len(peer[p].ids) : peer[p].ids[n] \in Ids
    BY <1>2
  <2> HIDE DEF taken
  <2> QED
    BY <2>1 DEF Batch
<1> HIDE DEF A
<1>4. /\ f \in [Peers -> SUBSET Ids]
      /\ \A x, y \in Peers : x # y => f[x] \cap f[y] = {}
      /\ \A x \in Peers : f[x] \cap active_sync_requests = {}
      /\ \A x \in Peers : conn[x] # "active" => f[x] = {}
  BY DEF Shares
<1>5. g \in [Peers -> SUBSET Ids] /\ g[p] = A /\ \A x \in Peers : x # p => g[x] = f[x]
  BY <1>2, <1>3, <1>4
<1> HIDE DEF g
<1>6. \A x \in Peers : A \cap f[x] = {}
  BY <1>3
<1>7. \A x, y \in Peers : x # y => g[x] \cap g[y] = {}
  BY <1>4, <1>5, <1>6
<1>8. \A x \in Peers : g[x] \cap active_sync_requests = {}
  BY <1>3, <1>4, <1>5
<1>9. \A x \in Peers : conn[x] # "active" => g[x] = {}
  BY <1>2, <1>4, <1>5
<1> QED
  BY <1>1, <1>5, <1>7, <1>8, <1>9 DEF Shares

(* What the whole pass asks of the peers, in whatever order.               *)
LEMMA AskedShares ==
  ASSUME TypeOK, NEW order \in SetToSeqs(ActiveIn(conn))
  PROVE  AskInTurn(order) \in Shares
<1> DEFINE N == Cardinality(ActiveIn(conn))
           D == 1 .. N
           b == [p \in Peers |-> {}]
           F == [i \in D |-> [f \in Shares |-> AskNext(f, order[i])]]
           c == [s \in SUBSET D |-> Max(s)]
           Direct(g) == g = [s \in SUBSET D |-> IF s = {} THEN b
                               ELSE AskNext(g[s \ {Max(s)}], order[Max(s)])]
<1>1. N \in Nat /\ IsFiniteSet(D)
  <2>1. IsFiniteSet(ActiveIn(conn))
    BY SyncAssumption, FS_Subset DEF ActiveIn
  <2> QED
    BY <2>1, FS_CardinalityType, FS_Interval
<1>2. order \in [D -> ActiveIn(conn)] /\ DOMAIN order = D
  BY DEF SetToSeqs
<1>3. b \in Shares
  BY DEF Shares
<1>4. \A s \in SUBSET D : s # {} => c[s] \in s
  BY <1>1, MaxOfPart
<1>5. \A i \in D : \A f \in Shares : AskNext(f, order[i]) \in Shares
  BY <1>2, AskNextShares
<1>6. F \in [D -> [Shares -> Shares]]
  BY <1>5
<1> HIDE DEF D, b
<1>7. PICK g \in [SUBSET D -> Shares] : FoldEquation(g, F, b, c, D)
  <2>1. FoldSteps(F, D, Shares) /\ FoldPicks(c, D)
    BY <1>4, <1>6 DEF FoldSteps, FoldPicks
  <2> HIDE DEF F, c, Direct
  <2>2. \E g : IsFold(g, F, b, c, D, Shares)
    BY <1>1, <1>3, <2>1, FoldExists, Zenon
  <2> QED
    BY <2>2 DEF IsFold
<1>8. g[{}] = b
  BY <1>7 DEF FoldEquation
<1>9. ASSUME NEW t \in SUBSET D, t # {}
      PROVE  Max(t) \in t /\ g[t] = AskNext(g[t \ {Max(t)}], order[Max(t)])
  <2>1. Max(t) \in t /\ t \ {Max(t)} \in SUBSET D /\ c[t] = Max(t)
    BY <1>4, <1>9
  <2>2. g[t] = F[c[t]][g[t \ {c[t]}]]
    BY <1>7, <1>9 DEF FoldEquation
  <2>3. g[t \ {Max(t)}] \in Shares /\ Max(t) \in D
    BY <2>1
  <2> QED
    BY <2>1, <2>2, <2>3
<1> HIDE DEF F, c
<1> DEFINE h == CHOOSE h : Direct(h)
<1>10. Direct([t \in SUBSET D |-> g[t]])
  BY <1>8, <1>9
<1>11. Direct(h)
  BY <1>10
<1>12. AskInTurn(order) = h[D]
  BY <1>2 DEF AskInTurn, FoldLeft, MapThenFoldSet, b
<1> HIDE DEF h
<1> DEFINE Bad == {t \in SUBSET D : h[t] \notin Shares}
<1>13. Bad = {}
  <2> SUFFICES ASSUME Bad # {} PROVE FALSE
    OBVIOUS
  <2>1. \A t \in Bad : IsFiniteSet(t)
    BY <1>1, FS_Subset
  <2>2. PICK t \in Bad : \A y \in Bad : y \subseteq t => y = t
    <3> HIDE DEF Bad
    <3> QED BY <2>1, MinimalSet
  <2>3. t # {}
    BY <1>3, <1>11
  <2>4. Max(t) \in t /\ Max(t) \in D
    BY <1>9, <2>3
  <2>5. h[t] = AskNext(h[t \ {Max(t)}], order[Max(t)])
    BY <1>11, <2>3
  <2>6. h[t \ {Max(t)}] \in Shares
    BY <2>2, <2>4
  <2> QED
    BY <1>5, <2>4, <2>5, <2>6
<1> QED
  BY <1>12, <1>13

(* f says what is asked of whom.                                           *)
Asks(f) ==
  /\ peer' = [x \in Peers |-> [peer[x] EXCEPT !.requested = @ \cup f[x]]]
  /\ active_sync_requests' = active_sync_requests \cup UNION {f[x] : x \in Peers}

(* The loop that asks for blocks.                                          *)
LEMMA LoopInv ==
  ASSUME SyncInv, fetch_sync_items_loop
  PROVE  SyncInv'
<1>1. /\ fetch_due' = FALSE
      /\ UNCHANGED <<conn, connects, received, handling, results, head, accepted,
                     suspended, backlog, have, missed>>
  BY DEF fetch_sync_items_loop
<1>2. \E f \in Shares : Asks(f)
  <2>1. CASE suspended /\ UNCHANGED <<peer, active_sync_requests>>
    <3> DEFINE f == [x \in Peers |-> {}]
    <3>1. f \in Shares /\ UNION {f[x] : x \in Peers} = {}
      BY DEF Shares
    <3>2. ASSUME NEW x \in Peers PROVE [peer[x] EXCEPT !.requested = @ \cup f[x]] = peer[x]
      BY DEF SyncInv, TypeOK, PeerRecord
    <3>3. peer = [x \in Peers |-> peer[x]]
      BY DEF SyncInv, TypeOK
    <3>4. peer = [x \in Peers |-> [peer[x] EXCEPT !.requested = @ \cup f[x]]]
      BY <3>2, <3>3
    <3>5. Asks(f)
      <4> HIDE DEF f
      <4> QED
        BY <2>1, <3>1, <3>4 DEF Asks
    <3> HIDE DEF f
    <3> QED
      BY <3>1, <3>5
  <2>2. CASE \E order \in SetToSeqs(ActiveIn(conn)) :
             \E asked \in {AskInTurn(order)} :
               /\ peer' = [p \in Peers |-> [peer[p] EXCEPT !.requested = @ \cup asked[p]]]
               /\ active_sync_requests' =
                    active_sync_requests \cup UNION {asked[p] : p \in Peers}
    <3>1. PICK order \in SetToSeqs(ActiveIn(conn)) :
             \E asked \in {AskInTurn(order)} :
               /\ peer' = [p \in Peers |-> [peer[p] EXCEPT !.requested = @ \cup asked[p]]]
               /\ active_sync_requests' =
                    active_sync_requests \cup UNION {asked[p] : p \in Peers}
      BY <2>2
    <3>2. AskInTurn(order) \in Shares
      BY AskedShares DEF SyncInv
    <3>3. Asks(AskInTurn(order))
      BY <3>1 DEF Asks
    <3> QED
      BY <3>2, <3>3
  <2> QED
    BY <2>1, <2>2 DEF fetch_sync_items_loop
<1>3. PICK f \in Shares :
         /\ peer' = [x \in Peers |-> [peer[x] EXCEPT !.requested = @ \cup f[x]]]
         /\ active_sync_requests' = active_sync_requests \cup UNION {f[x] : x \in Peers}
  BY <1>2 DEF Asks
<1>4. /\ f \in [Peers -> SUBSET Ids]
      /\ \A x, y \in Peers : x # y => f[x] \cap f[y] = {}
      /\ \A x \in Peers : f[x] \cap active_sync_requests = {}
      /\ \A x \in Peers : conn[x] # "active" => f[x] = {}
  BY DEF Shares
<1>5. ASSUME NEW x \in Peers
      PROVE  /\ peer'[x] \in PeerRecord /\ PeerInv(queue, have[x], x, peer'[x])
             /\ peer'[x].requested = peer[x].requested \cup f[x]
  <2> DEFINE r == peer[x]
             S == r.requested \cup f[x]
             t == [r EXCEPT !.requested = S]
  <2>1. r \in PeerRecord /\ PeerInv(queue, have[x], x, r)
    BY PeerFacts
  <2>2. peer'[x] = t
    BY <1>3
  <2> HIDE DEF r
  <2>3. S \in SUBSET Ids
    BY <1>4, <2>1 DEF PeerRecord, Ids
  <2> HIDE DEF S
  <2>4. t \in PeerRecord /\ t.requested = S
    BY <2>1, <2>3 DEF PeerRecord, Ids
  <2>5. /\ t.ids = r.ids /\ t.seen = r.seen /\ t.asked \subseteq r.asked
        /\ t.processing \subseteq r.processing /\ t.inhibit = r.inhibit
    BY <2>1 DEF PeerRecord
  <2> HIDE DEF t
  <2>6. PeerInv(queue, have[x], x, t)
    BY <2>1, <2>5, SamePeer DEF PeerInv
  <2> QED
    BY <2>2, <2>4, <2>6 DEF S, r
<1>6. peer' \in [Peers -> PeerRecord]
  <2>1. peer' = [x \in Peers |-> peer'[x]]
    BY <1>3
  <2> QED
    BY <1>5, <2>1
<1>7. RequestsInv'
  <2>1. /\ \A x, y \in Peers : x # y => peer[x].requested \cap peer[y].requested = {}
        /\ UNION {peer[x].requested : x \in Peers} \subseteq active_sync_requests
        /\ active_sync_requests \subseteq missed \cup (UNION {peer[x].requested : x \in Peers})
    BY DEF SyncInv, RequestsInv, RequestsOwed
  <2>2. \A x \in Peers : peer'[x].requested = peer[x].requested \cup f[x]
    BY <1>5
  <2>3. \A x, y \in Peers : x # y => peer'[x].requested \cap peer'[y].requested = {}
    <3>1. \A x, y \in Peers : peer[x].requested \cap f[y] = {}
      BY <1>4, <2>1
    <3> QED
      BY <1>4, <2>1, <2>2, <3>1
  <2>4. UNION {peer'[x].requested : x \in Peers} \subseteq active_sync_requests'
    BY <1>3, <2>1, <2>2
  <2>5. active_sync_requests' \subseteq missed' \cup (UNION {peer'[x].requested : x \in Peers})
    BY <1>1, <1>3, <2>1, <2>2
  <2>6. \A x \in Peers : conn'[x] = "off" => peer'[x].requested = {}
    <3>1. \A x \in Peers : conn[x] = "off" => peer[x].requested = {}
      BY DEF SyncInv, RequestsInv
    <3>2. \A x \in Peers : conn[x] = "off" => f[x] = {}
      BY <1>4
    <3> QED
      BY <1>1, <2>2, <3>1, <3>2
  <2> QED
    BY <2>3, <2>4, <2>5, <2>6 DEF RequestsInv, RequestsOwed
<1>8. OrderInv'
  <2>1. \A x \in Peers : PeerInv(queue, have'[x], x, peer'[x])
    BY <1>1, <1>5
  <2>2. \A x \in Peers : x \in Reliable => conn'[x] # "closing"
    BY <1>1, PeerFacts
  <2> QED
    BY <1>1, <2>1, <2>2, OrderKept DEF SyncInv
<1>9. TypeOK'
  <2>1. active_sync_requests' \subseteq Nat \X Nat
    BY <1>3, <1>4 DEF SyncInv, TypeOK, Ids
  <2>2. fetch_due' \in BOOLEAN
    BY <1>1
  <2> QED
    BY <1>1, <1>6, <2>1, <2>2 DEF SyncInv, TypeOK
<1> QED
  BY <1>7, <1>8, <1>9 DEF SyncInv

(* The first block of a peer's list was taken: b waits in the queue, or is *)
(* in the chain already.                                                   *)
Popped(r, b, t) == t = [r EXCEPT !.ids = Tail(r.ids), !.processing = r.processing \cup {b}]

(* The list still starts where the queue and the chain end.                *)
LEMMA PoppedInv ==
  ASSUME NEW q \in Queue, NEW p \in Peers, NEW m \in Nat, m <= Len(Chain[p]),
         NEW r \in PeerRecord, PeerInv(q, m, p, r), NEW b \in Ids, Handed(q, b),
         r.ids # <<>>, r.ids[1] = b, NEW t, Popped(r, b, t)
  PROVE  t \in PeerRecord /\ PeerInv(q, m, p, t) /\ t.requested = r.requested
<1> DEFINE ids == r.ids
           x == Tail(r.ids)
           S == r.processing \cup {b}
<1>1. ids \in Seq(Ids) /\ Listed(p, m, ids) /\ r.asked \in SUBSET SUBSET Ids
  BY DEF PeerInv, PeerRecord, Ids
<1>2. Len(ids) \in Nat \ {0} /\ 1 \in 0 .. Len(ids) /\ 1 \in 1 .. Len(ids)
  BY <1>1
<1>3. /\ x \in Seq(Ids) /\ Len(x) = Len(ids) - 1
      /\ \A i \in 1 .. Len(ids) - 1 : x[i] = ids[1 + i]
  BY <1>1, <1>2
<1>4. S \in SUBSET Ids
  BY DEF PeerRecord, Ids
<1>5. t = [r EXCEPT !.ids = x, !.processing = S]
  BY DEF Popped
<1>6. ids[1] = b
  OBVIOUS
<1> HIDE DEF ids, x, S
<1>7. t = [need |-> r.need, ids |-> x, unfetched |-> r.unfetched,
           processing |-> S, asked |-> r.asked, requested |-> r.requested,
           inhibit |-> r.inhibit, needs_us |-> r.needs_us, seen |-> r.seen]
  BY <1>5 DEF PeerRecord
<1>8. t \in PeerRecord
  BY <1>3, <1>4, <1>7 DEF PeerRecord, Ids
<1>9. /\ t.ids = x /\ t.seen = r.seen /\ t.asked = r.asked /\ t.processing = S
      /\ t.inhibit = r.inhibit /\ t.requested = r.requested
  BY <1>7
<1>10. Listed(p, m, x) /\ (x # <<>> => Follows(p, b, x[1]))
  <2>1. Suffix(x, ids, 1) /\ 1 # 0
    BY <1>3 DEF Suffix
  <2> QED
    BY <1>1, <1>2, <1>6, <2>1, ListedSuffix
<1>11. x # <<>> => Ready(q, x[1])
  BY <1>10, NextReady DEF Follows
<1>12. S \subseteq ToSet(Chain[p])
  <2>1. b \in ToSet(Chain[p])
    BY <1>1, <1>2, <1>6, ListedBlocks
  <2> QED
    BY <2>1 DEF PeerInv, S
<1>13. ASSUME NEW s \in r.asked PROVE SynopsisInv(q, x, s)
  <2>1. SynopsisInv(q, ids, s)
    BY <1>13 DEF PeerInv, ids
  <2>2. ToSet(ids) \subseteq {b} \cup ToSet(x)
    <3>1. ASSUME NEW i \in 1 .. Len(ids) PROVE ids[i] = b \/ ids[i] \in ToSet(x)
      <4>1. CASE i = 1
        BY <1>6, <4>1
      <4>2. CASE i # 1
        <5>1. i - 1 \in 1 .. Len(ids) - 1 /\ 1 + (i - 1) = i /\ i - 1 \in 1 .. Len(x)
          BY <1>2, <1>3, <4>2
        <5>2. ids[i] = x[i - 1]
          BY <1>3, <5>1
        <5>3. DOMAIN x = 1 .. Len(x)
          BY <1>3
        <5> QED
          BY <5>1, <5>2, <5>3 DEF ToSet
      <4> QED
        BY <4>1, <4>2
    <3>2. DOMAIN ids = 1 .. Len(ids)
      BY <1>1
    <3> QED
      BY <3>1, <3>2 DEF ToSet
  <2>3. \A c \in s : Handed(q, c) \/ c \in ToSet(x)
    BY <2>1, <2>2 DEF SynopsisInv
  <2>4. ASSUME x # <<>> PROVE ids # <<>> /\ x[Len(x)] = ids[Len(ids)]
    <3>1. Len(x) \in 1 .. Len(ids) - 1 /\ 1 + Len(x) = Len(ids)
      BY <1>2, <1>3, <2>4
    <3>2. ids # <<>>
      BY <1>2
    <3> QED
      BY <1>3, <3>1, <3>2
  <2> QED
    BY <2>1, <2>3, <2>4 DEF SynopsisInv
<1>14. PeerInv(q, m, p, t)
  <2>1. r.seen <= q.head /\ (p \in Reliable => ~r.inhibit)
    BY DEF PeerInv
  <2> QED
    BY <1>9, <1>10, <1>11, <1>12, <1>13, <2>1 DEF PeerInv
<1> QED
  BY <1>8, <1>9, <1>14

(* The queue with the blocks h.                                            *)
QueueOf(h) == [blocks |-> h, done |-> Len(results), head |-> head]

(* A pass of the backlog, at whatever point of it.                         *)
PassRecord ==
  [peer : [Peers -> PeerRecord], received : SUBSET Ids, handling : Seq(Ids),
   goes_on : BOOLEAN, asking : BOOLEAN]

(* The peers of a pass fit to the queue q.                                 *)
PeersFit(q, P) ==
  \A x \in Peers : PeerInv(q, have[x], x, P[x]) /\ P[x].requested = peer[x].requested

Fits(s) ==
  /\ IsFiniteSet(s.received)
  /\ InOrder(QueueOf(s.handling)) /\ Answered(QueueOf(s.handling))
  /\ PeersFit(QueueOf(s.handling), s.peer)

Fitting == {s \in PassRecord : Fits(s)}

(* The queue of a pass is one.                                             *)
LEMMA QueueOfType ==
  ASSUME SyncInv, NEW h \in Seq(Ids)
  PROVE  /\ QueueOf(h) \in Queue /\ QueueOf(h).blocks = h /\ QueueOf(h).done = Len(results)
         /\ QueueOf(h).head = head
BY DEF SyncInv, TypeOK, QueueOf, Queue

(* Only the peers change.                                                  *)
LEMMA PopShape ==
  ASSUME NEW s \in PassRecord, NEW b
  PROVE  Pop(s, b) = [peer |-> Pop(s, b).peer, received |-> s.received,
                      handling |-> s.handling, goes_on |-> s.goes_on, asking |-> s.asking]
<1> DEFINE P == [p \in Peers |->
                   IF StartsWith(s.peer, p, b)
                   THEN [s.peer[p] EXCEPT !.ids = Tail(@), !.processing = @ \cup {b}]
                   ELSE s.peer[p]]
           z == Pop(s, b)
<1>1. z = [s EXCEPT !.peer = P]
  BY DEF Pop
<1> HIDE DEF P, z
<1>2. z = [peer |-> P, received |-> s.received, handling |-> s.handling,
           goes_on |-> s.goes_on, asking |-> s.asking]
  BY <1>1 DEF PassRecord
<1>3. z.peer = P
  BY <1>2
<1>4. z = [peer |-> z.peer, received |-> s.received, handling |-> s.handling,
           goes_on |-> s.goes_on, asking |-> s.asking]
  BY ONLY <1>2, <1>3
<1> QED
  BY <1>4 DEF z

(* A block that is next for some peers leaves their lists.                 *)
LEMMA PopFits ==
  ASSUME SyncInv, NEW s \in PassRecord, NEW q \in Queue, PeersFit(q, s.peer), NEW b \in Ids,
         Handed(q, b)
  PROVE  Pop(s, b).peer \in [Peers -> PeerRecord] /\ PeersFit(q, Pop(s, b).peer)
<1> DEFINE P == Pop(s, b).peer
           T(x) == [s.peer[x] EXCEPT !.ids = Tail(@), !.processing = @ \cup {b}]
<1>1. P = [x \in Peers |-> IF StartsWith(s.peer, x, b) THEN T(x) ELSE s.peer[x]]
  BY DEF Pop, PassRecord
<1>2. ASSUME NEW x \in Peers
      PROVE  /\ P[x] \in PeerRecord /\ PeerInv(q, have[x], x, P[x])
             /\ P[x].requested = peer[x].requested
  <2> DEFINE r == s.peer[x]
  <2>1. /\ r \in PeerRecord /\ PeerInv(q, have[x], x, r) /\ r.requested = peer[x].requested
        /\ have[x] \in Nat /\ have[x] <= Len(Chain[x])
    BY PeerFacts DEF PassRecord, PeersFit
  <2>2. CASE StartsWith(s.peer, x, b)
    <3>1. r.ids # <<>> /\ r.ids[1] = b
      BY <2>2 DEF StartsWith
    <3>2. P[x] = T(x)
      BY <1>1, <2>2
    <3>3. Popped(r, b, P[x])
      BY <3>2 DEF Popped
    <3> HIDE DEF P, r
    <3> QED
      BY <2>1, <3>1, <3>3, PoppedInv
  <2>3. CASE ~StartsWith(s.peer, x, b)
    <3>1. P[x] = r
      BY <1>1, <2>3
    <3> QED
      BY <2>1, <3>1
  <2> QED
    BY <2>2, <2>3
<1>3. P = [x \in Peers |-> P[x]]
  BY <1>1
<1> HIDE DEF P
<1> QED
  BY <1>2, <1>3 DEF PeersFit, P

(* A block is handed over.                                                 *)
LEMMA HandOverFits ==
  ASSUME SyncInv, NEW s \in Fitting, NEW b \in s.received,
         NEW p \in Peers, StartsWith(s.peer, p, b)
  PROVE  HandOver(Pop(s, b), b) \in Fitting
<1> DEFINE h == s.handling
           g == Append(s.handling, b)
           q == QueueOf(h)
           t == QueueOf(g)
           P == Pop(s, b).peer
           R == s.received \ {b}
           v == Len(s.handling) + 1 < MaxHandled
           u == HandOver(Pop(s, b), b)
<1>1. /\ s \in PassRecord /\ h \in Seq(Ids) /\ s.received \in SUBSET Ids /\ b \in Ids
      /\ s.asking \in BOOLEAN /\ s.peer \in [Peers -> PeerRecord]
  BY DEF Fitting, PassRecord
<1>2. /\ IsFiniteSet(s.received) /\ InOrder(q) /\ Answered(q) /\ PeersFit(q, s.peer)
  BY DEF Fitting, Fits
<1>17. Pop(s, b) = [peer |-> P, received |-> s.received, handling |-> h,
                    goes_on |-> s.goes_on, asking |-> s.asking]
  BY <1>1, PopShape
<1> HIDE DEF P
<1>3. u = [peer |-> P, received |-> R, handling |-> g, goes_on |-> v, asking |-> s.asking]
  <2> DEFINE z == Pop(s, b)
  <2>1. z.received = s.received /\ z.handling = h
    BY <1>17
  <2>2. u = [z EXCEPT !.received = z.received \ {b}, !.handling = Append(z.handling, b),
                      !.goes_on = Len(z.handling) + 1 < MaxHandled]
    BY DEF HandOver
  <2> HIDE DEF z, u, h
  <2>3. u = [z EXCEPT !.received = R, !.handling = g, !.goes_on = v]
    BY <2>1, <2>2 DEF h
  <2>4. z = [peer |-> P, received |-> s.received, handling |-> h,
             goes_on |-> s.goes_on, asking |-> s.asking]
    BY <1>17 DEF z
  <2> HIDE DEF R, g, v
  <2> QED
    BY <2>3, <2>4
<1>4. v \in BOOLEAN /\ g \in Seq(Ids)
  BY <1>1
<1> HIDE DEF v, u
<1>5. /\ q \in Queue /\ q.blocks = h /\ q.done = Len(results) /\ q.head = head
      /\ t \in Queue /\ t.blocks = g /\ t.done = Len(results) /\ t.head = head
  BY <1>1, <1>4, QueueOfType
<1>6. q.done <= Len(q.blocks)
  BY <1>2, <1>5 DEF Answered
<1>7. Ready(q, b)
  <2>1. PeerInv(q, have[p], p, s.peer[p])
    BY <1>2 DEF PeersFit
  <2> QED
    BY <2>1 DEF PeerInv, StartsWith
<1>8. Appended(q, b, t)
  BY DEF QueueOf, Appended
<1> HIDE DEF q, t
<1>9. /\ InOrder(t) /\ Leads(q, t) /\ Handed(t, b)
      /\ Len(q.blocks) <= Len(t.blocks)
      /\ \A j \in 1 .. Len(q.blocks) : t.blocks[j] = q.blocks[j]
  BY <1>1, <1>2, <1>5, <1>6, <1>7, <1>8, QueueAppend
<1>10. Answered(t)
  <2>1. Len(results) \in Nat /\ Len(q.blocks) \in Nat /\ Len(t.blocks) \in Nat
    BY <1>5 DEF Queue, SyncInv, TypeOK
  <2>2. Len(results) <= Len(t.blocks) /\ \A j \in 1 .. Len(results) : j \in 1 .. Len(q.blocks)
    BY <1>5, <1>6, <1>9, <2>1
  <2>3. \A j \in 1 .. Len(results) : t.blocks[j] = q.blocks[j]
    BY <1>9, <2>2
  <2> QED
    BY <1>2, <1>5, <2>2, <2>3 DEF Answered
<1>11. PeersFit(t, s.peer)
  <2> SUFFICES ASSUME NEW x \in Peers
               PROVE  PeerInv(t, have[x], x, s.peer[x]) /\ s.peer[x].requested = peer[x].requested
    BY DEF PeersFit
  <2>1. PeerInv(q, have[x], x, s.peer[x]) /\ s.peer[x].requested = peer[x].requested
    BY <1>2 DEF PeersFit
  <2>2. s.peer[x] \in PeerRecord /\ have[x] \in Nat /\ have[x] <= have[x]
    BY <1>1, PeerFacts
  <2> QED
    BY <1>5, <1>9, <2>1, <2>2, PeerInvKept
<1>12. P \in [Peers -> PeerRecord] /\ PeersFit(t, P)
  BY <1>1, <1>5, <1>9, <1>11, PopFits DEF P
<1>13. IsFiniteSet(R) /\ R \in SUBSET Ids
  BY <1>1, <1>2, FS_Subset
<1> HIDE DEF R, g
<1>14. u \in PassRecord
  BY <1>1, <1>3, <1>4, <1>12, <1>13 DEF PassRecord
<1>15. u.received = R /\ u.handling = g /\ u.peer = P
  BY <1>3
<1>16. Fits(u)
  BY <1>9, <1>10, <1>12, <1>13, <1>15 DEF Fits, t
<1> QED
  BY <1>14, <1>16 DEF Fitting, u

(* A block that was accepted before is treated as accepted.                *)
LEMMA TreatFits ==
  ASSUME SyncInv, NEW s \in Fitting, NEW b \in s.received, b \in accepted
  PROVE  TreatAsAccepted(Pop(s, b), b) \in Fitting
<1> DEFINE z == Pop(s, b)
           q == QueueOf(s.handling)
           asks(x) == /\ conn[x] = "active" /\ b \in z.peer[x].processing
                      /\ NewlyEmpty(Processed(z.peer[x], b))
           Q == [x \in Peers |->
                   IF conn[x] # "active" THEN z.peer[x]
                   ELSE IF asks(x) THEN fetch_next_batch_of_item_ids(Processed(z.peer[x], b), head)
                   ELSE Processed(z.peer[x], b)]
           no == FALSE
           v == \E x \in Peers : asks(x)
           u == TreatAsAccepted(z, b)
<1>1. /\ s \in PassRecord /\ s.handling \in Seq(Ids) /\ s.received \in SUBSET Ids /\ b \in Ids
      /\ s.peer \in [Peers -> PeerRecord]
  BY DEF Fitting, PassRecord
<1>2. /\ IsFiniteSet(s.received) /\ InOrder(q) /\ Answered(q) /\ PeersFit(q, s.peer)
  BY DEF Fitting, Fits
<1>3. u = [z EXCEPT !.goes_on = no, !.asking = v, !.peer = Q]
  BY DEF TreatAsAccepted
<1>4. no \in BOOLEAN /\ v \in BOOLEAN
  OBVIOUS
<1>5. q \in Queue /\ q.head = head /\ Handed(q, b)
  BY <1>1, QueueOfType DEF Handed, SyncInv, OrderInv
<1>6. z.peer \in [Peers -> PeerRecord] /\ PeersFit(q, z.peer)
  <2> HIDE DEF q
  <2> QED
    BY <1>1, <1>2, <1>5, PopFits
<1>7. z = [peer |-> z.peer, received |-> s.received, handling |-> s.handling,
           goes_on |-> s.goes_on, asking |-> s.asking]
  BY <1>1, PopShape
<1> HIDE DEF z, q, no, v, u
<1>8. u = [peer |-> Q, received |-> s.received, handling |-> s.handling,
           goes_on |-> no, asking |-> v]
  <2> DEFINE P == z.peer
  <2>1. z = [peer |-> P, received |-> s.received, handling |-> s.handling,
             goes_on |-> s.goes_on, asking |-> s.asking]
    BY <1>7
  <2> HIDE DEF Q, P
  <2> QED
    BY <1>3, <2>1
<1>9. ASSUME NEW x \in Peers
      PROVE  /\ Q[x] \in PeerRecord /\ PeerInv(q, have[x], x, Q[x])
             /\ Q[x].requested = peer[x].requested
  <2> DEFINE r == z.peer[x]
             w == Processed(r, b)
             S == r.processing \ {b}
             y == fetch_next_batch_of_item_ids(w, head)
  <2>1. /\ r \in PeerRecord /\ PeerInv(q, have[x], x, r) /\ r.requested = peer[x].requested
        /\ have[x] \in Nat /\ have[x] <= Len(Chain[x])
    BY <1>6, PeerFacts DEF PeersFit
  <2>2. Q[x] = r \/ Q[x] = y \/ Q[x] = w
    BY DEF asks
  <2> HIDE DEF Q, r
  <2>3. Advanced(r, r.seen, S, w)
    BY <2>1 DEF Advanced, Processed, PeerRecord
  <2>4. r.seen \in Nat /\ r.seen <= q.head /\ S \subseteq r.processing
    BY <2>1 DEF PeerInv, PeerRecord
  <2> HIDE DEF w, S
  <2>5. w \in PeerRecord /\ PeerInv(q, have[x], x, w) /\ w.requested = r.requested
    BY <2>1, <2>3, <2>4, ProcessedInv
  <2>6. y \in PeerRecord /\ PeerInv(q, have[x], x, y) /\ y.requested = w.requested
    BY <1>5, <2>1, <2>5, AskAgain
  <2> HIDE DEF y
  <2> QED
    BY <2>1, <2>2, <2>5, <2>6
<1>10. Q \in [Peers -> PeerRecord] /\ PeersFit(q, Q)
  <2>1. Q = [x \in Peers |-> Q[x]]
    OBVIOUS
  <2> HIDE DEF Q
  <2> QED
    BY <1>9, <2>1 DEF PeersFit
<1> HIDE DEF Q
<1>11. u \in PassRecord
  BY <1>1, <1>4, <1>8, <1>10 DEF PassRecord
<1>12. u.received = s.received /\ u.handling = s.handling /\ u.peer = Q
  BY <1>8
<1>13. Fits(u)
  BY <1>2, <1>10, <1>12 DEF Fits, q
<1> QED
  BY <1>11, <1>13 DEF Fitting, u, z

(* One round of the pass.                                                  *)
LEMMA IterateFits ==
  ASSUME SyncInv, NEW s \in Fitting
  PROVE  Iterate(s) \subseteq Fitting
<1> DEFINE next == {b \in s.received : \E p \in Peers : StartsWith(s.peer, p, b)}
           no == FALSE
           u == [s EXCEPT !.goes_on = no]
<1>1. Iterate(s) = IF ~s.goes_on \/ next = {} THEN {u}
                   ELSE {HandOver(Pop(s, b), b) : b \in next \ accepted}
                          \cup {TreatAsAccepted(Pop(s, b), b) : b \in next \cap accepted}
  BY DEF Iterate
<1>2. u \in Fitting
  <2>1. no \in BOOLEAN
    OBVIOUS
  <2> HIDE DEF no
  <2>2. s \in PassRecord /\ Fits(s)
    BY DEF Fitting
  <2>3. /\ u \in PassRecord /\ u.received = s.received /\ u.handling = s.handling
        /\ u.peer = s.peer
    BY <2>1, <2>2 DEF PassRecord
  <2>4. Fits(u)
    BY <2>2, <2>3 DEF Fits
  <2> QED
    BY <2>3, <2>4 DEF Fitting
<1>3. \A b \in next : HandOver(Pop(s, b), b) \in Fitting
  BY HandOverFits
<1>4. \A b \in next \cap accepted : TreatAsAccepted(Pop(s, b), b) \in Fitting
  BY TreatFits
<1> HIDE DEF next, u
<1> QED
  BY <1>1, <1>2, <1>3, <1>4

(* Every end of a pass.                                                    *)
LEMMA PassesFit ==
  ASSUME SyncInv
  PROVE  Passes \subseteq Fitting
<1> DEFINE N == Cardinality(received) + 1
           D == 1 .. N
           B == SUBSET Fitting
           start == [peer |-> peer, received |-> received, handling |-> handling,
                     goes_on |-> TRUE, asking |-> FALSE]
           b == {start}
           All(S) == UNION {Iterate(s) : s \in S}
           F == [i \in D |-> [S \in B |-> All(S)]]
           c == [s \in SUBSET D |-> Max(s)]
           Direct(g) == g = [s \in SUBSET D |-> IF s = {} THEN b ELSE All(g[s \ {Max(s)}])]
<1>1. N \in Nat /\ IsFiniteSet(D)
  <2>1. IsFiniteSet(received)
    BY DEF SyncInv, TypeOK
  <2>2. Cardinality(received) \in Nat
    BY <2>1, FS_CardinalityType
  <2> QED
    BY <2>2, FS_Interval
<1>2. b \in B
  <2> DEFINE yes == TRUE
             no == FALSE
  <2>1. yes \in BOOLEAN /\ no \in BOOLEAN
    OBVIOUS
  <2>2. start = [peer |-> peer, received |-> received, handling |-> handling,
                 goes_on |-> yes, asking |-> no]
    OBVIOUS
  <2> HIDE DEF yes, no, start
  <2>3. start \in PassRecord
    BY <2>1, <2>2 DEF PassRecord, SyncInv, TypeOK, Ids
  <2>4. start.peer = peer /\ start.received = received /\ start.handling = handling
    BY <2>2
  <2>5. QueueOf(handling) = queue
    BY DEF QueueOf, queue
  <2>6. PeersFit(queue, peer)
    BY DEF SyncInv, OrderInv, PeersFit
  <2>7. Fits(start)
    BY <2>4, <2>5, <2>6 DEF Fits, SyncInv, TypeOK, OrderInv
  <2> QED
    BY <2>3, <2>7 DEF Fitting
<1>3. \A s \in SUBSET D : s # {} => c[s] \in s
  BY <1>1, MaxOfPart
<1>4. \A S \in B : All(S) \in B
  BY IterateFits
<1>14. DOMAIN [n \in 1 .. Cardinality(received) + 1 |-> n] = D
  OBVIOUS
<1> HIDE DEF D, b, All, B
<1>5. F \in [D -> [B -> B]]
  BY <1>4
<1>6. PICK g \in [SUBSET D -> B] : FoldEquation(g, F, b, c, D)
  <2>1. FoldSteps(F, D, B) /\ FoldPicks(c, D)
    BY <1>3, <1>5 DEF FoldSteps, FoldPicks
  <2> HIDE DEF F, c, Direct
  <2>2. \E g : IsFold(g, F, b, c, D, B)
    BY <1>1, <1>2, <2>1, FoldExists, Zenon
  <2> QED
    BY <2>2 DEF IsFold
<1>7. g[{}] = b
  BY <1>6 DEF FoldEquation
<1>8. ASSUME NEW t \in SUBSET D, t # {}
      PROVE  Max(t) \in t /\ g[t] = All(g[t \ {Max(t)}])
  <2>1. Max(t) \in t /\ t \ {Max(t)} \in SUBSET D /\ c[t] = Max(t)
    BY <1>3, <1>8
  <2>2. g[t] = F[c[t]][g[t \ {c[t]}]]
    BY <1>6, <1>8 DEF FoldEquation
  <2>3. g[t \ {Max(t)}] \in B /\ Max(t) \in D
    BY <2>1
  <2> QED
    BY <2>1, <2>2, <2>3
<1> HIDE DEF F, c
<1> DEFINE h == CHOOSE h : Direct(h)
<1>9. Direct([t \in SUBSET D |-> g[t]])
  BY <1>7, <1>8
<1>10. Direct(h)
  BY <1>9
<1>11. Passes = h[D]
  BY <1>14 DEF Passes, FoldLeft, MapThenFoldSet, b, All
<1> HIDE DEF h
<1> DEFINE Bad == {t \in SUBSET D : h[t] \notin B}
<1>12. Bad = {}
  <2> SUFFICES ASSUME Bad # {} PROVE FALSE
    OBVIOUS
  <2>1. \A t \in Bad : IsFiniteSet(t)
    BY <1>1, FS_Subset
  <2>2. PICK t \in Bad : \A y \in Bad : y \subseteq t => y = t
    <3> HIDE DEF Bad
    <3> QED BY <2>1, MinimalSet
  <2>3. t # {}
    BY <1>2, <1>10
  <2>4. Max(t) \in t /\ Max(t) \in D
    BY <1>8, <2>3
  <2>5. h[t] = All(h[t \ {Max(t)}])
    BY <1>10, <2>3
  <2>6. h[t \ {Max(t)}] \in B
    BY <2>2, <2>4
  <2> QED
    BY <1>4, <2>5, <2>6
<1>13. h[D] \in B
  BY <1>12
<1> QED
  BY <1>11, <1>13 DEF B

(* The backlog is processed.                                               *)
LEMMA BacklogInv ==
  ASSUME SyncInv, process_backlog_of_sync_blocks
  PROVE  SyncInv'
<1>1. UNCHANGED <<conn, connects, active_sync_requests, results, head, accepted, have, missed>>
  BY DEF process_backlog_of_sync_blocks
<1>2. \A x \in Peers : x \in Reliable => conn'[x] # "closing"
  BY <1>1, PeerFacts
<1>3. CASE /\ backlog' = "idle"
           /\ UNCHANGED <<peer, received, handling, suspended, fetch_due>>
  <2>1. \A x \in Peers : PeerInv(queue, have'[x], x, peer'[x])
    BY <1>1, <1>3 DEF SyncInv, OrderInv
  <2>2. RequestsInv' /\ OrderInv'
    BY <1>1, <1>2, <1>3, <2>1, PeersStep
  <2>3. TypeOK'
    BY <1>1, <1>3 DEF SyncInv, TypeOK
  <2> QED
    BY <2>2, <2>3 DEF SyncInv
<1>4. CASE \E s \in Passes :
             /\ peer' = s.peer
             /\ received' = s.received
             /\ handling' = s.handling
             /\ suspended' = suspends(s)
             /\ backlog' = IF s.asking THEN "asking" ELSE "idle"
             /\ fetch_due' = (fetch_due \/ (~s.asking /\ ~suspends(s)))
  <2>1. PICK s \in Passes :
             /\ peer' = s.peer
             /\ received' = s.received
             /\ handling' = s.handling
             /\ suspended' = suspends(s)
             /\ backlog' = IF s.asking THEN "asking" ELSE "idle"
             /\ fetch_due' = (fetch_due \/ (~s.asking /\ ~suspends(s)))
    BY <1>4
  <2>2. s \in PassRecord /\ Fits(s)
    BY PassesFit DEF Fitting
  <2>3. queue' = QueueOf(s.handling)
    BY <1>1, <2>1 DEF queue, QueueOf
  <2>4. OrderInv'
    <3>1. InOrder(queue')
      BY <2>2, <2>3 DEF Fits
    <3>2. Answered(queue)'
      BY <1>1, <2>2, <2>3 DEF Fits, Answered
    <3>3. \A x \in Peers : PeerInv(queue', have'[x], x, peer'[x])
      BY <1>1, <2>1, <2>2, <2>3 DEF Fits, PeersFit
    <3>4. \A b \in accepted' : is_valid(b) /\ block_num(b) <= head'
      BY <1>1 DEF SyncInv, OrderInv
    <3> QED
      BY <1>2, <3>1, <3>2, <3>3, <3>4, OrderMoved
  <2>5. RequestsInv'
    <3>1. \A x \in Peers : peer'[x].requested = peer[x].requested
      BY <2>1, <2>2 DEF Fits, PeersFit
    <3> QED
      BY <1>1, <3>1, RequestsKept DEF SyncInv
  <2>6. TypeOK'
    <3>1. /\ peer' \in [Peers -> PeerRecord] /\ received' \subseteq Nat \X Nat
          /\ handling' \in Seq(Nat \X Nat)
      BY <2>1, <2>2 DEF PassRecord, Ids
    <3>2. IsFiniteSet(received')
      BY <2>1, <2>2 DEF Fits
    <3>3. suspended' \in BOOLEAN
      BY <2>1 DEF suspends
    <3>4. fetch_due' \in BOOLEAN
      BY <2>1
    <3>5. backlog' \in {"idle", "due", "asking"}
      BY <2>1
    <3> QED
      BY <1>1, <3>1, <3>2, <3>3, <3>4, <3>5 DEF SyncInv, TypeOK
  <2> QED
    BY <2>4, <2>5, <2>6 DEF SyncInv
<1> QED
  BY <1>3, <1>4 DEF process_backlog_of_sync_blocks

-----------------------------------------------------------------------------
(* The theorems.                                                           *)

(* Nothing is asked for or handed over at first.                           *)
LEMMA InitInv ==
  ASSUME Init
  PROVE  SyncInv
<1>1. /\ conn = [p \in Peers |-> "off"] /\ connects = [p \in Peers |-> 0]
      /\ peer = [p \in Peers |-> NewPeer]
      /\ active_sync_requests = {} /\ received = {} /\ accepted = {}
      /\ handling = <<>> /\ results = <<>> /\ head = 0
      /\ suspended = FALSE /\ fetch_due = FALSE /\ backlog = "idle"
      /\ have = InitialHave /\ missed = {}
  BY DEF Init
<1>2. have \in [Peers -> Nat] /\ \A p \in Peers : have[p] <= Len(Chain[p])
  <2>1. InitialHave \in [Peers -> Nat]
    BY SyncAssumption
  <2>2. \A p \in Peers : InitialHave[p] \in 0 .. Len(Chain[p]) /\ Len(Chain[p]) \in Nat
    BY SyncAssumption, ChainBlocks
  <2>3. \A p \in Peers : InitialHave[p] <= Len(Chain[p])
    BY <2>2
  <2> QED
    BY <1>1, <2>1, <2>3
<1>3. TypeOK
  <2>1. /\ conn \in [Peers -> {"off", "active", "closing", "terminating"}]
        /\ connects \in [Peers -> Nat] /\ peer \in [Peers -> PeerRecord]
    BY <1>1, NewPeerType
  <2>2. /\ received \subseteq Nat \X Nat /\ IsFiniteSet(received)
        /\ active_sync_requests \subseteq Nat \X Nat /\ missed \subseteq Nat \X Nat
        /\ accepted \subseteq Nat \X Nat
    BY <1>1, FS_EmptySet
  <2>3. handling \in Seq(Nat \X Nat) /\ results \in Seq(BOOLEAN) /\ head \in Nat
    BY <1>1
  <2>4. suspended \in BOOLEAN /\ fetch_due \in BOOLEAN
    BY <1>1
  <2>5. backlog \in {"idle", "due", "asking"}
    BY <1>1
  <2> QED
    BY <1>2, <2>1, <2>2, <2>3, <2>4, <2>5 DEF TypeOK
<1>4. \A p \in Peers : peer[p] = NewPeer /\ peer[p].requested = {} /\ conn[p] = "off"
  BY <1>1, NewPeerType
<1>5. RequestsInv
  BY <1>1, <1>4 DEF RequestsInv, RequestsOwed
<1>6. OrderInv
  <2>1. queue \in Queue /\ queue.blocks = <<>> /\ queue.done = 0 /\ queue.head = 0
    BY <1>1, <1>3, QueueType
  <2>2. InOrder(queue) /\ Answered(queue)
    BY <1>1, <2>1 DEF InOrder, Answered
  <2>3. ASSUME NEW p \in Peers PROVE PeerInv(queue, have[p], p, peer[p])
    <3>1. /\ NewPeer.ids = <<>> /\ NewPeer.seen = 0 /\ NewPeer.asked = {}
          /\ NewPeer.processing = {} /\ ~NewPeer.inhibit
      BY DEF NewPeer
    <3>2. Listed(p, have[p], <<>>) /\ 0 <= queue.head
      BY <1>2, <2>1, NoList
    <3> QED
      BY <1>4, <3>1, <3>2 DEF PeerInv
  <2>4. ReliableNotBlamed
    BY <1>4, SyncAssumption DEF ReliableNotBlamed
  <2> QED
    BY <1>1, <2>2, <2>3, <2>4 DEF OrderInv
<1> QED
  BY <1>3, <1>5, <1>6 DEF SyncInv

(* A step that changes nothing.                                            *)
LEMMA StutterInv ==
  ASSUME SyncInv, UNCHANGED vars
  PROVE  SyncInv'
<1>1. UNCHANGED <<conn, connects, peer, active_sync_requests, received, handling, results,
                  head, accepted, suspended, fetch_due, backlog, have, missed>>
  BY DEF vars
<1>2. \A x \in Peers : PeerInv(queue, have'[x], x, peer'[x])
  BY <1>1 DEF SyncInv, OrderInv
<1>3. \A x \in Peers : x \in Reliable => conn'[x] # "closing"
  BY <1>1, PeerFacts
<1>4. RequestsInv' /\ OrderInv'
  BY <1>1, <1>2, <1>3, PeersStep
<1>5. TypeOK'
  BY <1>1 DEF SyncInv, TypeOK
<1> QED
  BY <1>4, <1>5 DEF SyncInv

(* The inductive invariant holds throughout.                               *)
THEOREM SyncInvariant == Spec => []SyncInv
<1>1. Init => SyncInv
  BY InitInv
<1>2. ASSUME SyncInv, [Next]_vars PROVE SyncInv'
  <2>1. ASSUME NEW p \in Peers, new_peer_just_added(p) PROVE SyncInv'
    BY <1>2, <2>1, AddedInv
  <2>2. ASSUME NEW p \in Peers, InvalidAnswer(p) \/ terminate_inactive(p) PROVE SyncInv'
    BY <1>2, <2>2, ConnInv
  <2>3. ASSUME NEW p \in Peers, on_connection_closed(p) PROVE SyncInv'
    BY <1>2, <2>3, ClosedInv
  <2>4. ASSUME NEW p \in Peers, on_blockchain_item_ids_inventory(p) PROVE SyncInv'
    BY <1>2, <2>4, InventoryInv
  <2>5. ASSUME NEW p \in Peers, on_fetch_blockchain_item_ids(p) PROVE SyncInv'
    BY <1>2, <2>5, AskedInv
  <2>6. ASSUME NEW p \in Peers, process_block_message(p) PROVE SyncInv'
    BY <1>2, <2>6, BlockInv
  <2>7. ASSUME NEW p \in Peers, on_item_not_available(p) PROVE SyncInv'
    BY <1>2, <2>7, NotAvailableInv
  <2>8. ASSUME NEW p \in Peers, process_block_during_normal_operation(p) PROVE SyncInv'
    BY <1>2, <2>8, OrdinaryInv
  <2>9. ASSUME NEW p \in Peers, PeerExtends(p) PROVE SyncInv'
    BY <1>2, <2>9, ExtendsInv
  <2>10. CASE fetch_sync_items_loop
    BY <1>2, <2>10, LoopInv
  <2>11. CASE process_backlog_of_sync_blocks
    BY <1>2, <2>11, BacklogInv
  <2>12. CASE backlog_has_asked
    BY <1>2, <2>12, HasAskedInv
  <2>13. CASE handle_block
    BY <1>2, <2>13, HandledInv
  <2>14. CASE send_sync_block_to_node_delegate
    BY <1>2, <2>14, DeliveredInv
  <2>15. CASE UNCHANGED vars
    BY <1>2, <2>15, StutterInv
  <2> QED
    BY <1>2, <2>1, <2>2, <2>3, <2>4, <2>5, <2>6, <2>7, <2>8, <2>9, <2>10, <2>11, <2>12,
       <2>13, <2>14, <2>15 DEF Next
<1> QED
  BY <1>1, <1>2, PTL DEF Spec

(* The types of the variables.                                             *)
THEOREM SyncTypeCorrect == Spec => []TypeOK
<1>1. SyncInv => TypeOK
  BY DEF SyncInv
<1> QED
  BY <1>1, SyncInvariant, PTL

(* A block is asked of one peer at a time, and what counts as asked for is *)
(* owed by a connection, whatever the peers do: request_sync_items_from_   *)
(* peer, process_block_during_sync and on_connection_closed agree.         *)
THEOREM RequestsAreOwed == Spec => []RequestsOwed
<1>1. SyncInv => RequestsOwed
  BY DEF SyncInv, RequestsInv
<1> QED
  BY <1>1, SyncInvariant, PTL

(* No peer that answers as it should is disconnected as a liar: of its     *)
(* blocks the chain database refuses none, in whatever order the peers'    *)
(* lists and blocks arrive.                                                *)
THEOREM ReliableIsNotBlamed == Spec => []ReliableNotBlamed
<1>1. SyncInv => ReliableNotBlamed
  BY DEF SyncInv, OrderInv
<1> QED
  BY <1>1, SyncInvariant, PTL
=============================================================================
