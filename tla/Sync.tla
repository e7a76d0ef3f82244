-------------------------------- MODULE Sync --------------------------------
(***************************************************************************)
(* How a node fetches the blocks it lacks from its peers (node.cpp).       *)
(*                                                                         *)
(* The node asks every peer for the ids that follow a synopsis of its      *)
(* chain, shares the blocks listed out among the idle peers, keeps what    *)
(* arrives until it is the first block some peer still lists, and hands it *)
(* to the chain database in its own thread.  Peers answer, refuse, stay    *)
(* silent or go away.                                                      *)
(*                                                                         *)
(* A block is <<number, branch>>; branch 0 is the valid chain, any other   *)
(* one holds blocks that the chain database rejects.  Handlers run on one  *)
(* thread and are atomic up to the places where the code waits.            *)
(***************************************************************************)
EXTENDS Integers, Sequences, FiniteSets, SequencesExt

CONSTANTS
  Peers,          \* the nodes there are to connect to
  Reliable,       \* those that answer every request in time and stay
  Asking,         \* those that ask for our ids, too
  Chain,          \* the blocks each peer holds in the end, a sequence
  InitialHave,    \* how many of them it holds at first
  MaxIds,         \* ids in one answer (the limit of get_block_ids)
  MinPrefetch,    \* GRAPHENE_NET_MIN_BLOCK_IDS_TO_PREFETCH
  MaxPerPeer,     \* _maximum_blocks_per_peer_during_syncing
  MaxHandled,     \* _maximum_number_of_blocks_to_handle_at_one_time
  MaxPrefetch,    \* _maximum_number_of_sync_blocks_to_prefetch
  MaxConnects     \* bound: connections of one unreliable peer

\* A block names its predecessor by its hash, so that only valid blocks precede
\* a valid one.
ASSUME SyncAssumption ==
  /\ IsFiniteSet(Peers) /\ Reliable \subseteq Peers /\ Asking \subseteq Peers
  /\ DOMAIN Chain = Peers /\ InitialHave \in [Peers -> Nat]
  /\ \A p \in Peers : Chain[p] \in Seq(Nat \X Nat) /\ InitialHave[p] \in 0 .. Len(Chain[p])
  /\ \A p \in Peers : \A n \in 1 .. Len(Chain[p]) : Chain[p][n][1] = n
  /\ \A p \in Peers : \A n \in 1 .. Len(Chain[p]) :
       Chain[p][n][2] = 0 => \A m \in 1 .. n : Chain[p][m][2] = 0
  /\ \A p \in Reliable : \A n \in 1 .. Len(Chain[p]) : Chain[p][n][2] = 0
  /\ MaxIds \in Nat /\ MaxIds > 1
  /\ {MinPrefetch, MaxPerPeer, MaxHandled, MaxPrefetch, MaxConnects} \subseteq Nat \ {0}

VARIABLES
  conn,           \* "off", or the list of node_impl the connection is in
  connects,       \* how often each peer was connected to
  peer,           \* what peer_connection keeps about each
  active_sync_requests,
  received,       \* _received_sync_items and _new_received_sync_items
  handling,       \* the blocks of _handle_message_calls_in_progress
  results,        \* what handle_block said of the first of them
  head,           \* the chain database holds the valid blocks 1 .. head
  accepted,       \* _most_recent_blocks_accepted
  suspended,      \* _suspend_fetching_sync_blocks
  fetch_due,      \* fetch_sync_items_loop was triggered
  backlog,        \* process_backlog_of_sync_blocks: "idle", "due", "asking"
  have,           \* how many blocks each peer holds
  missed          \* blocks that a peer listed and then did not have

vars == <<conn, connects, peer, active_sync_requests, received, handling, results,
          head, accepted, suspended, fetch_due, backlog, have, missed>>

Blocks == UNION {ToSet(Chain[p]) : p \in Peers}
block_num(b) == b[1]
is_valid(b) == b[2] = 0
ChainOf(p) == SubSeq(Chain[p], 1, have[p])
has_item(b) == is_valid(b) /\ block_num(b) <= head

ActiveIn(c) == {p \in Peers : c[p] = "active"}
idle(r) == r.requested = {} /\ r.asked = {}

-----------------------------------------------------------------------------
(* The synopsis and the answer to it.                                      *)

\* The block numbers a synopsis up to high holds, each halving the distance.
Halves(high) ==
  LET from[low \in 1 .. high] ==
        LET next == low + ((high - low + 2) \div 2)
        IN  {low} \cup (IF next <= high THEN from[next] ELSE {})
  IN  IF high = 0 THEN {} ELSE from[1]

\* Our chain up to the last block of the peer's that we have (our head when
\* we know of none), continued by the blocks it has listed.
create_blockchain_synopsis_for_peer(r, hd) ==
  LET high == IF r.seen = 0 THEN hd ELSE r.seen
      own == IF high = 0 THEN {} ELSE Halves(high + Len(r.ids)) \cap 1 .. high
      first == IF r.ids = <<>> THEN 1 ELSE block_num(r.ids[1])
      listed == {n \in Halves(first + Len(r.ids) - 1) : n >= first /\ r.ids # <<>>}
  IN  {<<n, 0>> : n \in own} \cup {r.ids[n - first + 1] : n \in listed}

fetch_next_batch_of_item_ids(r, hd) ==
  [r EXCEPT !.asked = {create_blockchain_synopsis_for_peer(r, hd)}]

start_synchronizing_with_peer(r, hd) ==
  fetch_next_batch_of_item_ids(
    [r EXCEPT !.ids = <<>>, !.unfetched = 0, !.need = TRUE, !.seen = 0,
              !.inhibit = FALSE], hd)

\* The last number of the chain c that the synopsis names, 0 if it names none.
LastKnown(c, synopsis) ==
  LET known == {n \in 1 .. Len(c) : c[n] \in synopsis}
  IN  IF known = {} THEN 0 ELSE CHOOSE n \in known : \A m \in known : m <= n

\* Up to MaxIds ids from that block on; none when the chains have nothing in
\* common (peer_is_on_an_unreachable_fork).
get_block_ids(c, synopsis) ==
  LET last == LastKnown(c, synopsis)
      from == IF last = 0 THEN 1 ELSE last
      to == IF Len(c) < from + MaxIds - 1 THEN Len(c) ELSE from + MaxIds - 1
  IN  IF last = 0 /\ synopsis # {} THEN <<>> ELSE SubSeq(c, from, to)

RemainingAfter(c, list) ==
  IF list = <<>> THEN 0 ELSE Len(c) - block_num(list[Len(list)])

-----------------------------------------------------------------------------
(* Connections.                                                            *)

NewPeer ==
  [need |-> TRUE, ids |-> <<>>, unfetched |-> 0, processing |-> {}, asked |-> {},
   requested |-> {}, inhibit |-> FALSE, needs_us |-> TRUE, seen |-> 0]

Init ==
  /\ conn = [p \in Peers |-> "off"]
  /\ connects = [p \in Peers |-> 0]
  /\ peer = [p \in Peers |-> NewPeer]
  /\ active_sync_requests = {} /\ received = {} /\ accepted = {}
  /\ handling = <<>> /\ results = <<>> /\ head = 0
  /\ suspended = FALSE /\ fetch_due = FALSE /\ backlog = "idle"
  /\ have = InitialHave /\ missed = {}

node_state == <<active_sync_requests, received, handling, results, head, accepted,
                suspended, fetch_due, backlog>>

\* The handshake is over.
new_peer_just_added(p) ==
  /\ conn[p] = "off"
  /\ p \notin Reliable => connects[p] < MaxConnects
  /\ conn' = [conn EXCEPT ![p] = "active"]
  /\ connects' = IF p \in Reliable THEN connects ELSE [connects EXCEPT ![p] = @ + 1]
  /\ peer' = [peer EXCEPT ![p] = start_synchronizing_with_peer(NewPeer, head)]
  /\ UNCHANGED <<node_state, have, missed>>

\* A list that does not continue our synopsis or has gaps, or a block that was
\* not asked for, comes instead of the answer: the peer is told to go
\* (disconnect_from_peer), its connection closes later.
InvalidAnswer(p) ==
  /\ p \notin Reliable /\ conn[p] = "active" /\ ~idle(peer[p])
  /\ conn' = [conn EXCEPT ![p] = "closing"]
  /\ UNCHANGED <<connects, peer, node_state, have, missed>>

\* Faulty variant: it is noticed only when the peer's list was read to its end.
SyncStalled_at_end(r) == r.need /\ r.asked = {} /\ r.ids = <<>> /\ r.unfetched = 0

SyncStalled(r) == r.need /\ r.asked = {} /\ r.ids = <<>>

\* Requests that were ignored for a second, or a synchronisation that waits
\* for nothing, end the connection without ceremony.
terminate_inactive(p) ==
  /\ conn[p] = "active"
  /\ \/ p \notin Reliable /\ ~idle(peer[p])
     \/ SyncStalled(peer[p])
  /\ conn' = [conn EXCEPT ![p] = "terminating"]
  /\ UNCHANGED <<connects, peer, node_state, have, missed>>

Closes(p) == conn[p] \in {"closing", "terminating"}

\* Faulty variant: what the peer owes stays marked as asked for.
RescheduledFrom_none(p) == {}

\* What the peer owes is free to be asked of another one.
RescheduledFrom(p) == peer[p].requested

on_connection_closed(p) ==
  /\ Closes(p) \/ (conn[p] = "active" /\ p \notin Reliable)
  /\ conn' = [conn EXCEPT ![p] = "off"]
  /\ peer' = [peer EXCEPT ![p] = NewPeer]
  /\ active_sync_requests' = active_sync_requests \ RescheduledFrom(p)
  /\ fetch_due' = (fetch_due \/ RescheduledFrom(p) # {})
  /\ UNCHANGED <<connects, received, handling, results, head, accepted, suspended,
                 backlog, have, missed>>

\* A message of p's can still be read.
Reads(p) == conn[p] \in {"active", "closing"}

-----------------------------------------------------------------------------
(* Lists of ids.                                                           *)

\* The ids that are left of an answer when the list of the peer was empty: the
\* ones we have are dropped, unless another peer starts with the first one.
Unseen(p, list) ==
  LET other == \E q \in ActiveIn(conn) \ {p} :
                  peer[q].ids # <<>> /\ peer[q].ids[1] = list[1]
      kept == {n \in 1 .. Len(list) : other \/ ~has_item(list[n])}
  IN  IF kept = {} THEN <<>>
      ELSE SubSeq(list, CHOOSE n \in kept : \A m \in kept : n <= m, Len(list))

\* The peer's new list, and the last block of it that we have.
append_ids(p, list) ==
  LET r == peer[p]
      joint == {n \in 1 .. Len(r.ids) : list # <<>> /\ r.ids[n] = list[1]}
      rest == Unseen(p, list)
      dropped == Len(list) - Len(rest)
  IN  CASE list = <<>> -> r
        [] list # <<>> /\ r.ids = <<>> ->
             [r EXCEPT !.ids = rest,
                       !.seen = IF dropped = 0 THEN @ ELSE block_num(list[dropped])]
        [] r.ids # <<>> /\ joint # {} ->
             [r EXCEPT !.ids = SubSeq(@, 1, (CHOOSE n \in joint : TRUE) - 1) \o list]
        [] OTHER ->
             [r EXCEPT !.ids = Tail(list), !.seen = block_num(list[1])]

says_up_to_date(r, list, remaining) ==
  /\ remaining = 0
  /\ list = <<>> \/ (Len(list) = 1 /\ has_item(list[1]))
  /\ r.ids = <<>> /\ r.unfetched = 0

asks_for_more(r) ==
  IF r.unfetched # 0 THEN Len(r.ids) <= MinPrefetch ELSE r.ids = <<>>

on_blockchain_item_ids_inventory(p) ==
  /\ Reads(p) /\ peer[p].asked # {}
  /\ \E list \in {get_block_ids(ChainOf(p), synopsis) : synopsis \in peer[p].asked} :
     \E remaining \in {RemainingAfter(ChainOf(p), list)} :
       \/ /\ says_up_to_date(peer[p], list, remaining)
          /\ peer' = [peer EXCEPT ![p].asked = {}, ![p].need = FALSE]
          /\ UNCHANGED fetch_due
       \/ /\ ~says_up_to_date(peer[p], list, remaining)
          /\ \E r \in {[append_ids(p, list) EXCEPT !.asked = {}, !.unfetched = remaining]} :
               /\ peer' = [peer EXCEPT ![p] =
                    IF asks_for_more(r) THEN fetch_next_batch_of_item_ids(r, head) ELSE r]
               /\ fetch_due' = (fetch_due \/ ~asks_for_more(r))
  /\ UNCHANGED <<conn, connects, active_sync_requests, received, handling, results,
                 head, accepted, suspended, backlog, have, missed>>

\* A peer asks for our ids.  It is found to need nothing from us, or to hold a
\* block that we thought we had.
on_fetch_blockchain_item_ids(p) ==
  LET c == ChainOf(p)
      synopsis == {c[n] : n \in Halves(Len(c))}
      reply == get_block_ids([n \in 1 .. head |-> <<n, 0>>], synopsis)
      same == synopsis # {} /\ Len(reply) = 1 /\ reply[1] \in synopsis
      r == [peer[p] EXCEPT !.needs_us = reply # <<>> /\ ~same]
  IN  /\ conn[p] = "active" /\ p \in Asking
      /\ peer' = [peer EXCEPT ![p] =
           IF ~r.need /\ c # <<>> /\ ~has_item(c[Len(c)])
           THEN start_synchronizing_with_peer(r, head) ELSE r]
      /\ conn' = [conn EXCEPT ![p] = IF same /\ peer[p].inhibit THEN "closing" ELSE @]
      /\ UNCHANGED <<connects, node_state, have, missed>>

-----------------------------------------------------------------------------
(* Requests for blocks.                                                    *)

\* What one pass of the loop asks of p when taken are asked for already: the
\* first blocks of its list that are still wanted.
Batch(p, taken) ==
  LET r == peer[p]
      wanted == {n \in 1 .. Len(r.ids) : r.ids[n] \notin received \cup taken}
      soon == {n \in wanted : Cardinality({m \in wanted : m < n}) < MaxPerPeer}
  IN  IF r.need /\ idle(r) /\ ~r.inhibit THEN {r.ids[n] : n \in soon} ELSE {}

AskNext(asked, p) ==
  [asked EXCEPT ![p] =
     Batch(p, active_sync_requests \cup UNION {asked[q] : q \in Peers})]

AskInTurn(order) ==
  FoldLeft(LAMBDA asked, p : AskNext(asked, p), [p \in Peers |-> {}], order)

\* The connections are visited in the order of a hash table.
fetch_sync_items_loop ==
  /\ fetch_due
  /\ fetch_due' = FALSE
  /\ \/ suspended /\ UNCHANGED <<peer, active_sync_requests>>
     \/ /\ ~suspended
        /\ \E order \in SetToSeqs(ActiveIn(conn)) :
           \E asked \in {AskInTurn(order)} :
             /\ peer' = [p \in Peers |-> [peer[p] EXCEPT !.requested = @ \cup asked[p]]]
             /\ active_sync_requests' =
                  active_sync_requests \cup UNION {asked[p] : p \in Peers}
  /\ UNCHANGED <<conn, connects, received, handling, results, head, accepted,
                 suspended, backlog, have, missed>>

\* A peer answers in the order it was asked.
NextRequested(p) ==
  CHOOSE b \in peer[p].requested :
     \A d \in peer[p].requested : block_num(b) <= block_num(d)

trigger_process_backlog == backlog' = IF backlog = "idle" THEN "due" ELSE backlog

runs_short(r) == idle(r) /\ r.unfetched > 0 /\ Len(r.ids) < MinPrefetch

process_block_message(p) ==
  /\ Reads(p) /\ peer[p].requested # {}
  /\ \E b \in {NextRequested(p)} :
     \E r \in {[peer[p] EXCEPT !.requested = @ \ {b}]} :
       /\ active_sync_requests' = active_sync_requests \ {b}
       /\ received' = received \cup {b}
       /\ peer' = [peer EXCEPT ![p] =
            IF runs_short(r) THEN fetch_next_batch_of_item_ids(r, head) ELSE r]
       /\ fetch_due' = (fetch_due \/ (idle(r) /\ ~runs_short(r)))
  /\ trigger_process_backlog
  /\ UNCHANGED <<conn, connects, handling, results, head, accepted, suspended,
                 have, missed>>

\* The block stays in active_sync_requests, as in the code.
on_item_not_available(p) ==
  /\ Reads(p) /\ p \notin Reliable /\ peer[p].requested # {}
  /\ missed = {}   \* bound: once
  /\ LET b == NextRequested(p)
     IN  /\ peer' = [peer EXCEPT ![p].requested = @ \ {b},
                                 ![p].inhibit = @ \/ peer[p].needs_us]
         /\ missed' = missed \cup {b}
  /\ conn' = [conn EXCEPT ![p] = IF peer[p].needs_us THEN @ ELSE "closing"]
  /\ fetch_due' = TRUE
  /\ UNCHANGED <<connects, active_sync_requests, received, handling, results, head,
                 accepted, suspended, backlog, have>>

-----------------------------------------------------------------------------
(* From the backlog to the chain database.                                 *)

NewlyEmpty(r) == r.ids = <<>> /\ r.unfetched = 0 /\ r.processing = {}

\* Faulty variant: any block of the list will do.
StartsWith_listed(P, p, b) == conn[p] = "active" /\ b \in ToSet(P[p].ids)

StartsWith(P, p, b) == conn[p] = "active" /\ P[p].ids # <<>> /\ P[p].ids[1] = b

\* A block of the backlog that is next for some peers leaves their lists.
Pop(s, b) ==
  [s EXCEPT !.peer = [p \in Peers |->
     IF StartsWith(s.peer, p, b)
     THEN [s.peer[p] EXCEPT !.ids = Tail(@), !.processing = @ \cup {b}]
     ELSE s.peer[p]]]

Processed(r, b) == [r EXCEPT !.processing = @ \ {b}]

\* Either it is handed over, or it was accepted before and is treated as
\* accepted; then the pass is over, and the block stays in the backlog.
HandOver(s, b) ==
  [s EXCEPT !.received = @ \ {b}, !.handling = Append(@, b),
            !.goes_on = Len(s.handling) + 1 < MaxHandled]

TreatAsAccepted(s, b) ==
  LET asks(p) == /\ conn[p] = "active" /\ b \in s.peer[p].processing
                 /\ NewlyEmpty(Processed(s.peer[p], b))
  IN  [s EXCEPT !.goes_on = FALSE,
                !.asking = \E p \in Peers : asks(p),
                !.peer = [p \in Peers |->
                   IF conn[p] # "active" THEN s.peer[p]
                   ELSE IF asks(p)
                   THEN fetch_next_batch_of_item_ids(Processed(s.peer[p], b), head)
                   ELSE Processed(s.peer[p], b)]]

\* Which of several such blocks comes first depends on the order of the list.
Iterate(s) ==
  LET next == {b \in s.received : \E p \in Peers : StartsWith(s.peer, p, b)}
  IN  IF ~s.goes_on \/ next = {} THEN {[s EXCEPT !.goes_on = FALSE]}
      ELSE {HandOver(Pop(s, b), b) : b \in next \ accepted}
             \cup {TreatAsAccepted(Pop(s, b), b) : b \in next \cap accepted}

Passes ==
  FoldLeft(LAMBDA S, n : UNION {Iterate(s) : s \in S},
           {[peer |-> peer, received |-> received, handling |-> handling,
             goes_on |-> TRUE, asking |-> FALSE]},
           [n \in 1 .. Cardinality(received) + 1 |-> n])

\* Too much is under way: no more requests until some of it is done.
suspends(s) == Len(s.handling) >= MaxHandled /\ Cardinality(s.received) >= MaxPrefetch

\* The pass waits for the chain database when it asks a peer for its ids; what
\* arrives meanwhile does not start another one.
process_backlog_of_sync_blocks ==
  /\ backlog = "due"
  /\ \/ /\ Len(handling) >= MaxHandled
        /\ backlog' = "idle"
        /\ UNCHANGED <<peer, received, handling, suspended, fetch_due>>
     \/ /\ Len(handling) < MaxHandled
        /\ \E s \in Passes :
             /\ peer' = s.peer
             /\ received' = s.received
             /\ handling' = s.handling
             /\ suspended' = suspends(s)
             /\ backlog' = IF s.asking THEN "asking" ELSE "idle"
             /\ fetch_due' = (fetch_due \/ (~s.asking /\ ~suspends(s)))
  /\ UNCHANGED <<conn, connects, active_sync_requests, results, head, accepted,
                 have, missed>>

backlog_has_asked ==
  /\ backlog = "asking"
  /\ backlog' = "idle"
  /\ fetch_due' = (fetch_due \/ ~suspended)
  /\ UNCHANGED <<conn, connects, peer, active_sync_requests, received, handling,
                 results, head, accepted, suspended, have, missed>>

\* The chain database takes the blocks in the order they were handed over.
handle_block ==
  /\ Len(results) < Len(handling)
  /\ LET b == handling[Len(results) + 1]
         ok == is_valid(b) /\ block_num(b) <= head + 1
     IN  /\ results' = Append(results, ok)
         /\ head' = IF ok /\ block_num(b) > head THEN block_num(b) ELSE head
  /\ UNCHANGED <<conn, connects, peer, active_sync_requests, received, handling,
                 accepted, suspended, fetch_due, backlog, have, missed>>

after_accepted(r, b) ==
  IF r.ids = <<>> /\ r.processing = {}
  THEN IF ~r.needs_us /\ ~r.need THEN start_synchronizing_with_peer(r, head) ELSE r
  ELSE LET done == [r EXCEPT !.seen = block_num(b), !.processing = @ \ {b}]
       IN  IF b \notin r.processing THEN r
           ELSE IF NewlyEmpty(done) THEN fetch_next_batch_of_item_ids(done, head)
           ELSE done

send_sync_block_to_node_delegate ==
  /\ results # <<>>
  /\ LET b == Head(handling)
         offers(p) == conn[p] = "active" /\ b \in peer[p].processing
     IN  IF Head(results)
         THEN /\ accepted' = accepted \cup {b}
              /\ peer' = [p \in Peers |->
                   IF conn[p] = "active" THEN after_accepted(peer[p], b) ELSE peer[p]]
              /\ UNCHANGED conn
         ELSE /\ conn' = [p \in Peers |-> IF offers(p) THEN "closing" ELSE conn[p]]
              /\ UNCHANGED <<accepted, peer>>
  /\ handling' = Tail(handling)
  /\ results' = Tail(results)
  /\ trigger_process_backlog
  /\ UNCHANGED <<connects, active_sync_requests, received, head, suspended, fetch_due,
                 have, missed>>

\* A peer that has told us we are up to date sends its next block as an
\* ordinary item, an unreliable one whenever it likes.
Advertises(p) ==
  conn[p] = "active" /\ (p \in Reliable => ~peer[p].need /\ idle(peer[p]))

\* The block waits its turn at the chain database.
process_block_during_normal_operation(p) ==
  LET b == Chain[p][have[p] + 1]
      known == b \in accepted
      unlinkable == ~known /\ block_num(b) > head + 1
      ok == known \/ (~unlinkable /\ is_valid(b))
  IN  /\ have[p] < Len(Chain[p]) /\ Advertises(p)
      /\ Len(results) = Len(handling)
      /\ have' = [have EXCEPT ![p] = @ + 1]
      /\ \/ /\ ok
            /\ accepted' = accepted \cup {b}
            /\ head' = IF block_num(b) > head THEN block_num(b) ELSE head
            /\ peer' = [peer EXCEPT ![p].seen = block_num(b)]
            /\ UNCHANGED conn
         \/ /\ unlinkable
            /\ peer' = [peer EXCEPT ![p] = start_synchronizing_with_peer(@, head)]
            /\ UNCHANGED <<conn, accepted, head>>
         \/ /\ ~ok /\ ~unlinkable
            /\ conn' = [q \in Peers |->
                 IF q = p \/ StartsWith(peer, q, b) THEN "closing" ELSE conn[q]]
            /\ UNCHANGED <<peer, accepted, head>>
      /\ UNCHANGED <<connects, active_sync_requests, received, handling, results,
                     suspended, fetch_due, backlog, missed>>

\* A block that the peer does not tell us about.
PeerExtends(p) ==
  /\ have[p] < Len(Chain[p]) /\ ~Advertises(p)
  /\ have' = [have EXCEPT ![p] = @ + 1]
  /\ UNCHANGED <<conn, connects, peer, node_state, missed>>

-----------------------------------------------------------------------------
Next ==
  \/ \E p \in Peers :
       \/ new_peer_just_added(p) \/ InvalidAnswer(p) \/ terminate_inactive(p)
       \/ on_connection_closed(p)
       \/ on_blockchain_item_ids_inventory(p) \/ on_fetch_blockchain_item_ids(p)
       \/ process_block_message(p) \/ on_item_not_available(p)
       \/ process_block_during_normal_operation(p) \/ PeerExtends(p)
  \/ fetch_sync_items_loop \/ process_backlog_of_sync_blocks \/ backlog_has_asked
  \/ handle_block \/ send_sync_block_to_node_delegate

\* The node's own tasks.
NodeTask ==
  \/ fetch_sync_items_loop \/ process_backlog_of_sync_blocks \/ backlog_has_asked
  \/ handle_block \/ send_sync_block_to_node_delegate
  \/ \E p \in Peers : terminate_inactive(p) \/ (Closes(p) /\ on_connection_closed(p))

\* A reliable peer is connected to and answers.
ReliableAnswer ==
  \E p \in Reliable : \/ new_peer_just_added(p)
                      \/ on_blockchain_item_ids_inventory(p)
                      \/ process_block_message(p)

\* As long as a task is due or a reliable peer owes an answer, one of these
\* happens, in whatever order.
Fairness == WF_vars(NodeTask \/ ReliableAnswer)

Spec == Init /\ [][Next]_vars /\ Fairness

-----------------------------------------------------------------------------
(* Properties.                                                             *)

PeerRecord ==
  [need : BOOLEAN, ids : Seq(Nat \X Nat), unfetched : Nat, processing : SUBSET (Nat \X Nat),
   asked : SUBSET SUBSET (Nat \X Nat), requested : SUBSET (Nat \X Nat),
   inhibit : BOOLEAN, needs_us : BOOLEAN, seen : Nat]

\* The types of the variables: counters never go below zero, blocks in hand are
\* finitely many, a peer holds no more blocks than its chain has.
TypeOK ==
  /\ conn \in [Peers -> {"off", "active", "closing", "terminating"}]
  /\ connects \in [Peers -> Nat]
  /\ peer \in [Peers -> PeerRecord]
  /\ active_sync_requests \subseteq Nat \X Nat /\ missed \subseteq Nat \X Nat
  /\ received \subseteq Nat \X Nat /\ IsFiniteSet(received)
  /\ handling \in Seq(Nat \X Nat) /\ results \in Seq(BOOLEAN) /\ head \in Nat
  /\ accepted \subseteq Nat \X Nat
  /\ suspended \in BOOLEAN /\ fetch_due \in BOOLEAN
  /\ backlog \in {"idle", "due", "asking"}
  /\ have \in [Peers -> Nat] /\ \A p \in Peers : have[p] <= Len(Chain[p])

\* A block is asked of one peer at a time, and as long as it counts as asked
\* for some connection still owes it (a block that its peer turned out not to
\* have excepted, see the README): on a disconnect it is free to be asked of
\* another peer, or the block would never be fetched.
RequestsOwed ==
  /\ \A p, q \in Peers : p # q => peer[p].requested \cap peer[q].requested = {}
  /\ UNION {peer[p].requested : p \in Peers} \subseteq active_sync_requests
  /\ active_sync_requests \subseteq missed \cup UNION {peer[p].requested : p \in Peers}

\* No peer that answers as it should is ever disconnected as a liar: blocks
\* are handed over in an order in which the chain database accepts them.
ReliableNotBlamed == \A p \in Reliable : conn[p] # "closing"

\* A block in hand is next for a peer, and nothing will hand it over: every
\* pass of the backlog is over, and none is due before another block arrives.
Parked ==
  /\ backlog = "idle" /\ handling = <<>>
  /\ \E b \in received, p \in Peers : StartsWith(peer, p, b)

\* Whatever the unreliable peers do, the node ends up with every block of the
\* reliable ones: no request is forgotten, no wakeup of a loop is lost and no
\* list of ids is left half read.  What can stop it is a peer that lists a
\* block and then does not have it, and a block that is parked.
Synchronises ==
  \/ <>[](\A p \in Reliable : head >= have[p])
  \/ <>[]Parked
  \/ <>(missed # {})
=============================================================================
