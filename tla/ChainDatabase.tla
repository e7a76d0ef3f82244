--------------------------- MODULE ChainDatabase ---------------------------
(***************************************************************************)
(* chain::database: how one node moves between the blocks of the tree.     *)
(* It composes the object store and its undo log, the fork database and    *)
(* the block log on disk, and models the handlers that change which block  *)
(* the store is the state of: pushing a block (with the switch between     *)
(* forks and the recovery from a bad fork), pushing a transaction,         *)
(* producing a block, closing, opening with the replay of the log, and a   *)
(* crash of the process at any point of these.                             *)
(*                                                                         *)
(* The store is a function of the blocks applied since genesis, so it is   *)
(* represented by its head block.  The undo log is the sequence of heads   *)
(* that its committed undo states lead back to (module UndoDatabase shows  *)
(* that rolling one back is exact).  The states of the pending session and *)
(* of the sessions nested in it lie above the committed ones; what they do *)
(* to them is that start_undo_session drops the oldest.                    *)
(*                                                                         *)
(* Time is the block number.  A handler runs to its end without            *)
(* interruption, as in the program, and is an operator on a record of the  *)
(* node's state, in which ok is FALSE once an exception is under way.      *)
(* Left out: checkpoints, skip flags and what plugins listen to.           *)
(***************************************************************************)
EXTENDS Blocks, SequencesExt

CONSTANTS Tx,              \* the transactions that exist
          Valid,           \* the blocks that are well-formed and well-signed
          transactions,    \* the transactions of each block
          lib,             \* last_irreversible_block_num once a block is applied
          expiration,      \* the time at which each transaction expires
          ref_block,       \* the block each transaction refers to (TaPoS)
          depth,           \* sessions that applying a transaction nests
          MaxUndoHistory,  \* MUSE_MAX_UNDO_HISTORY
          MaxNum,          \* bound: the highest block number
          MaxPending,      \* bound: pending transactions
          NoSlot

ASSUME ChainAssumption ==
  /\ Valid \subseteq Block
  /\ transactions \in [Block -> Seq(Tx)]
  /\ lib \in [BlockOrGenesis -> Nat] /\ lib[Genesis] = 0
  /\ \A b \in Block : lib[previous[b]] <= lib[b] /\ lib[b] <= num[b]
  /\ expiration \in [Tx -> Nat]
  /\ ref_block \in [Tx -> BlockOrGenesis]
  /\ depth \in [Tx -> Nat \ {0}]
  /\ MaxUndoHistory \in Nat /\ MaxNum \in Nat /\ MaxPending \in Nat
  /\ \A b \in Block : num[b] \in 1 .. MaxNum
  /\ NoSlot \notin [id : Block, data : Block]

VARIABLES head,      \* head_block_id() of the object store
          undo,      \* _undo_db: the head each committed undo state leads to
          undo_max,  \* max_size() of _undo_db
          fork,      \* _fork_db
          pending,   \* _pending_tx
          log,       \* _block_id_to_block, on disk
          flushed,   \* the head block of the object store on disk
          status     \* "open", "closed", or "failed" when open() threw

vars == <<head, undo, undo_max, fork, pending, log, flushed, status>>

fork_db == INSTANCE ForkDatabase
block_db == INSTANCE BlockDatabase

\* The last n elements of a sequence, or all of them.
Latest(q, n) ==
  IF n <= 0 THEN <<>>
  ELSE IF Len(q) > n THEN SubSeq(q, Len(q) - n + 1, Len(q)) ELSE q

-----------------------------------------------------------------------------
(***************************************************************************)
(* Transactions.                                                           *)
(***************************************************************************)

Included(h) == UNION {ToSet(transactions[b]) : b \in ToSet(Path[h])}

\* Faulty variant of is_known_transaction: pending ones are not in the index.
is_known_in_chain(s, tx) ==
  tx \in Included(s.head) /\ num[s.head] <= expiration[tx]

\* The transaction index: what the chain holds until it expires, and what is
\* pending.
is_known_transaction(s, tx) ==
  \/ tx \in ToSet(s.pending)
  \/ tx \in Included(s.head) /\ num[s.head] <= expiration[tx]

\* _apply_transaction does not throw: no duplicate, TaPoS block on this chain,
\* not expired.
Applicable(s, tx) ==
  /\ ~is_known_transaction(s, tx)
  /\ num[s.head] > 0 => /\ ref_block[tx] \in ToSet(Path[s.head]) \cup {Genesis}
                        /\ num[s.head] < expiration[tx]

\* _push_transaction: a pending session, a temporary one, and one for every
\* proposal the transaction executes; each makes room for itself.
_push_transaction(s, tx) ==
  IF Applicable(s, tx)
    THEN [s EXCEPT !.undo = Latest(@, s.undo_max - depth[tx]),
                   !.pending = Append(@, tx)]
    ELSE [s EXCEPT !.undo = Latest(@, s.undo_max - 1)]

\* ~pending_transactions_restorer: the transactions of popped blocks, then
\* those that were pending, as far as they are still good.
restore_one(s, tx) ==
  IF is_known_transaction(s, tx) THEN s ELSE _push_transaction(s, tx)

restore(s, pending_transactions) ==
  FoldLeft(LAMBDA a, tx : restore_one(a, tx),
           [s EXCEPT !.popped = <<>>],
           s.popped \o pending_transactions)

-----------------------------------------------------------------------------
(***************************************************************************)
(* Blocks.                                                                 *)
(***************************************************************************)

\* apply_block does not throw.
BlockApplies(s, b) ==
  /\ b \in Valid
  /\ previous[b] = s.head
  /\ \A k \in DOMAIN transactions[b] :
       Applicable([s EXCEPT !.pending = SubSeq(transactions[b], 1, k - 1)],
                  transactions[b][k])
  /\ num[b] - lib[s.head] < MaxUndoHistory

\* What a block does to the sizes of both histories: update_global_dynamic_data
\* runs before update_last_irreversible_block.
SetMaxSizes(s, b) ==
  LET n == num[b] - lib[s.head] + 1
  IN  [s EXCEPT !.undo_max = n, !.fork = fork_db!set_max_size(@, n)]

\* One block in a session of its own: start_undo_session, apply_block, store it
\* under an id, commit.  A throw undoes the session.
apply_block(s, id, b) ==
  LET t == [s EXCEPT !.undo = Latest(@, s.undo_max)]
  IN  IF ~s.ok THEN s
      ELSE IF ~BlockApplies(s, b) THEN [t EXCEPT !.ok = FALSE]
      ELSE [SetMaxSizes(t, b) EXCEPT
              !.undo = Append(@, s.head),
              !.head = b,
              !.log = block_db!store(@, id, b),
              !.writes = Append(@, [id |-> id, data |-> b])]

\* Faulty variant of apply_blocks: a switch does not store the new branch.
apply_blocks_unstored(s, blocks) ==
  [FoldLeft(LAMBDA a, b : apply_block(a, b, b), s, blocks) EXCEPT
     !.log = s.log, !.writes = s.writes]

apply_blocks(s, blocks) ==
  FoldLeft(LAMBDA a, b : apply_block(a, b, b), s, blocks)

\* fetch_block_by_id finds the head block in the fork database or in the log.
CanFetchHead(s) ==
  /\ s.head # Genesis
  /\ \/ s.head \in s.fork.index
     \/ block_db!fetch_optional(s.log, s.head) # NoBlock

\* Faulty variants of pop_block: the undo state stays on the stack; the
\* transactions of the block are dropped.
pop_block_keeping_undo(s, held) ==
  IF s.ok /\ CanFetchHead(s) /\ fork_db!CanPop(s.fork, held) /\ s.undo # <<>>
    THEN [s EXCEPT !.fork = fork_db!pop_block(@), !.head = Last(s.undo),
                   !.popped = transactions[s.head] \o @]
    ELSE [s EXCEPT !.ok = FALSE]
pop_block_dropping(s, held) ==
  IF s.ok /\ CanFetchHead(s) /\ fork_db!CanPop(s.fork, held) /\ s.undo # <<>>
    THEN [s EXCEPT !.fork = fork_db!pop_block(@), !.head = Last(s.undo),
                   !.undo = Front(@)]
    ELSE [s EXCEPT !.ok = FALSE]

\* database::pop_block; held are the fork items its caller keeps alive.
pop_block(s, held) ==
  IF ~s.ok THEN s
  ELSE IF ~CanFetchHead(s) \/ ~fork_db!CanPop(s.fork, held)
    THEN [s EXCEPT !.ok = FALSE]
  ELSE IF s.undo = <<>>
    THEN [s EXCEPT !.ok = FALSE, !.fork = fork_db!pop_block(@)]
  ELSE [s EXCEPT !.fork = fork_db!pop_block(@),
                 !.head = Last(s.undo),
                 !.undo = Front(@),
                 !.popped = transactions[s.head] \o @]

pop_blocks(s, n, held) ==
  FoldLeft(LAMBDA a, i : pop_block(a, held), s, [i \in 1 .. n |-> i])

\* Faulty variant of return_to: the old branch is not put back.
return_to_base(s, new_block, old, held) ==
  pop_blocks([s EXCEPT !.ok = TRUE,
                       !.fork = fork_db!set_head(@, Last(old))],
             num[s.head] - num[old[1]] + 1, held)

\* The blocks of the old branch, each stored under the id of the block that was
\* pushed.
put_back(s, new_block, old) ==
  FoldLeft(LAMBDA a, b : apply_block(a, new_block, b), s, old)

\* Pop what was applied of the new branch and put the old one back.
return_to(s, new_block, old, held) ==
  put_back(pop_blocks([s EXCEPT !.ok = TRUE,
                                !.fork = fork_db!set_head(@, Last(old))],
                      num[s.head] - num[old[1]] + 1, held),
           new_block, old)

\* The blocks that have not been applied leave the fork database.
forget(s, blocks) ==
  [s EXCEPT !.fork.index = {b \in @ : b \notin blocks \/ num[b] <= num[s.head]}]

\* The end of a switch: done, or stuck half-way down the old branch, or a block
\* of the new branch has failed: then the rest of the new branch is forgotten
\* and the old one put back, before the exception goes on.
end_switch(s, new_block, new, old) ==
  IF s.ok \/ s.head \in ToSet(old) THEN s
  ELSE [return_to(forget(s, ToSet(new)), new_block, old,
                  ToSet(new) \cup ToSet(old)) EXCEPT !.ok = FALSE]

\* Leave the branch old for the branch new: pop the one, apply the other.
switch_forks(s, new_block, new, old) ==
  IF ~fork_db!CanFetch(s.fork, new) \/ ~fork_db!CanFetch(s.fork, old)
    THEN [s EXCEPT !.ok = FALSE]
    ELSE end_switch(apply_blocks(pop_blocks(s, Len(old),
                                            ToSet(new) \cup ToSet(old)),
                                 new),
                    new_block, new, old)

switch_from(s, new_block, new_head, n) ==
  IF fork_db!HasTips(s.fork, new_head, s.head)
    THEN switch_forks(s, new_block, fork_db!BranchFrom(new_head, n),
                      fork_db!BranchFrom(s.head, n))
    ELSE [s EXCEPT !.ok = FALSE]

\* A block that does not apply is taken out of the fork database again.
remove_failed(s, b) ==
  IF s.ok THEN s ELSE [s EXCEPT !.fork = fork_db!remove(@, b)]

\* Faulty variant of follow: a branch must be two blocks longer.
follow_late(s, new_block) ==
  LET new_head == s.fork.head
  IN  IF previous[new_head] = s.head
        THEN remove_failed(apply_block(s, new_block, new_block), new_block)
      ELSE IF num[new_head] > num[s.head] + 1
        THEN switch_from(s, new_block, new_head,
                         fork_db!JoinNumber(new_head, s.head))
      ELSE s

\* What to do once the fork database has taken new_block in.
follow(s, new_block) ==
  LET new_head == s.fork.head
  IN  IF previous[new_head] = s.head
        THEN remove_failed(apply_block(s, new_block, new_block), new_block)
      ELSE IF num[new_head] > num[s.head]
        THEN switch_from(s, new_block, new_head,
                         fork_db!JoinNumber(new_head, s.head))
      ELSE s

_push_block(s, b) ==
  IF fork_db!CanPush(s.fork, b)
    THEN follow([s EXCEPT !.fork = fork_db!push_block(@, b)], b)
    ELSE [s EXCEPT !.ok = FALSE]

\* push_block takes the pending transactions off and puts them back.
push_block(s, b) ==
  [restore(_push_block([s EXCEPT !.pending = <<>>], b), s.pending) EXCEPT
     !.fork = fork_db!Expire(@)]

-----------------------------------------------------------------------------
(***************************************************************************)
(* Opening: replay of the block log.                                       *)
(***************************************************************************)

\* A process that has read the object store from disk.
Started(h, l) ==
  [head |-> h, undo |-> <<>>, undo_max |-> 256,
   fork |-> [index |-> {}, head |-> NoBlock, linked |-> {}, max_size |-> 1024],
   pending |-> <<>>, popped |-> <<>>, log |-> l, writes |-> <<>>,
   flushed |-> h, gap |-> FALSE, ok |-> TRUE]

cutoff_blocks(l, until) ==
  [n \in 1 .. MaxNum |-> IF n < until THEN l[n] ELSE NoSlot]

\* apply_block while the undo log is disabled.
apply_without_undo(s, b) ==
  IF BlockApplies(s, b) THEN [SetMaxSizes(s, b) EXCEPT !.head = b]
  ELSE [s EXCEPT !.ok = FALSE]

\* reindex_range: read the blocks first .. last and apply or push each; stop at
\* the first that cannot be read and cut the log off there.
reindex_one(direct, s, i) ==
  IF ~s.ok \/ s.gap THEN s
  ELSE IF ~block_db!Readable(s.log, i)
    THEN [s EXCEPT !.gap = TRUE, !.log = cutoff_blocks(@, i)]
  ELSE IF direct
    THEN apply_without_undo(s, block_db!fetch_by_number(s.log, i))
  ELSE push_block(s, block_db!fetch_by_number(s.log, i))

reindex_range(direct, s, first, last) ==
  FoldLeft(LAMBDA a, i : reindex_one(direct, a, i),
           s, [k \in 1 .. last - first + 1 |-> first + k - 1])

\* Faulty variant of reindex_direct: everything is applied without undo.
reindex_direct_all(s, until) ==
  IF s.ok /\ num[s.head] + 1 < until
    THEN reindex_range(TRUE, s, num[s.head] + 1,
                       until + MaxUndoHistory)
    ELSE s

\* The blocks up to MaxUndoHistory before the end are applied directly, with a
\* flush half-way; the rest is pushed, so that it can be undone.
reindex_direct(s, until) ==
  IF s.ok /\ num[s.head] + 1 < until
    THEN reindex_range(TRUE, s, num[s.head] + 1, until)
    ELSE s

flush_after(s, until) ==
  IF s.ok /\ num[s.head] = until THEN [s EXCEPT !.flushed = s.head] ELSE s

\* The fork database starts with the block the log has at the number of the head
\* (an empty optional, if it has none, ends the process).
start_fork_db(s) ==
  LET b == block_db!fetch_by_number(s.log, num[s.head])
  IN  IF ~s.ok \/ s.head = Genesis THEN s
      ELSE IF b = NoBlock THEN [s EXCEPT !.ok = FALSE]
      ELSE [s EXCEPT !.fork = fork_db!start_block(@, b)]

\* Faulty variant of reindex_pushed: the last block is left out.
reindex_pushed_short(s, last) ==
  reindex_range(FALSE, [s EXCEPT !.gap = FALSE], num[s.head] + 1, last - 1)

reindex_pushed(s, last) ==
  reindex_range(FALSE, [s EXCEPT !.gap = FALSE], num[s.head] + 1, last)

reindex(s, last) ==
  IF last <= num[s.head] THEN s
  ELSE reindex_pushed(
         start_fork_db(
           reindex_direct(
             flush_after(reindex_direct(s, last - 2 * MaxUndoHistory),
                         last - 2 * MaxUndoHistory),
             last - MaxUndoHistory)),
         last)

-----------------------------------------------------------------------------
(***************************************************************************)
(* The actions.                                                            *)
(***************************************************************************)

EmptyLog == [n \in 1 .. MaxNum |-> NoSlot]

Running == [Started(head, log) EXCEPT !.undo = undo, !.undo_max = undo_max,
                                      !.fork = fork, !.pending = pending]

\* The handler has ended in state s.
Become(s) ==
  /\ head' = s.head
  /\ undo' = s.undo
  /\ undo_max' = s.undo_max
  /\ fork' = s.fork
  /\ pending' = s.pending
  /\ log' = s.log

\* The process has ended: only what is on disk remains.
Stop(l, h) ==
  /\ Become(Started(h, l))
  /\ flushed' = h
  /\ status' = "closed"

Init ==
  LET s == Started(Genesis, EmptyLog)
  IN  /\ head = s.head /\ undo = s.undo /\ undo_max = s.undo_max
      /\ fork = s.fork /\ pending = s.pending /\ log = s.log
      /\ flushed = Genesis /\ status = "open"

is_known_block(b) ==
  \/ b \in fork.index
  \/ log[num[b]] # NoSlot /\ log[num[b]].id = b

\* What the network hands over: blocks in any order, again and again until the
\* node knows them (it is asked with has_item); but into an empty fork database
\* only the successor of the head.
Arrives(b) ==
  /\ ~is_known_block(b)
  /\ fork.head = NoBlock => previous[b] = head

PushBlock(b) ==
  /\ status = "open"
  /\ Arrives(b)
  /\ Become(push_block(Running, b))
  /\ UNCHANGED <<flushed, status>>

PushTransaction(tx) ==
  /\ status = "open"
  /\ Len(pending) < MaxPending
  /\ Become(_push_transaction(Running, tx))
  /\ UNCHANGED <<flushed, status>>

\* generate_block rebuilds the pending session from the transactions that still
\* apply, builds b from them, leaves out those that make it too large, and
\* pushes it.
GenerateBlock(b) ==
  /\ status = "open"
  /\ previous[b] = head
  /\ \E rebuilt \in {restore([Running EXCEPT !.pending = <<>>], pending)} :
       /\ IsPrefix(transactions[b], rebuilt.pending)
       /\ Become(push_block([Running EXCEPT !.undo = rebuilt.undo], b))
  /\ UNCHANGED <<flushed, status>>

\* close: pop down to the last irreversible block, as far as that works, then
\* write the object store.
remove_popped(s, b) ==
  IF s.ok THEN [s EXCEPT !.fork = fork_db!remove(@, b)] ELSE s

rewind_one(s) == remove_popped(pop_block(s, {}), s.head)

rewind(s) ==
  FoldLeft(LAMBDA a, i : rewind_one(a),
           s, [i \in 1 .. num[s.head] - lib[s.head] |-> i])

Close ==
  /\ status = "open"
  /\ Stop(log, rewind([Running EXCEPT !.pending = <<>>]).head)

\* A crash between two handlers.
Crash ==
  /\ status = "open"
  /\ Stop(log, flushed)

\* Stores that have reached the disk, of the last perhaps only the index entry.
store_all(l, writes) ==
  FoldLeft(LAMBDA a, w : block_db!store(a, w.id, w.data), l, writes)

reach_disk(l, writes, torn) ==
  IF torn THEN [store_all(l, writes) EXCEPT ![num[Last(writes).id]] = NoSlot]
  ELSE store_all(l, writes)

\* A crash while a block is pushed: the first k stores have reached the disk.
CrashInPush(b) ==
  /\ status = "open"
  /\ Arrives(b)
  /\ \E writes \in {push_block(Running, b).writes} :
       \E k \in 1 .. Len(writes), torn \in BOOLEAN :
         Stop(reach_disk(log, SubSeq(writes, 1, k), torn), flushed)

\* open, after a wipe of the object store if the version differs or a replay is
\* asked for.  Ids compare by number first; two ids with one number compare
\* either way.
Opened(s) ==
  /\ Become(IF s.ok THEN s ELSE Started(s.flushed, s.log))
  /\ flushed' = s.flushed
  /\ status' = IF s.ok THEN "open" ELSE "failed"

\* Faulty variant of IdOrder: the log must be ahead of the object store.
IdOrder_strict(last, h) == {last = NoBlock \/ num[last] > num[h]}

IdOrder(last, h) ==
  IF last = NoBlock \/ num[last] > num[h] \/ last = h THEN {TRUE}
  ELSE IF num[last] < num[h] THEN {FALSE} ELSE BOOLEAN

Open(wipe_object_db) ==
  /\ status # "open"
  /\ \E h \in {IF wipe_object_db THEN Genesis ELSE flushed},
        l \in {block_db!last_index_entry(log)} :
       \E matches \in IdOrder(block_db!last_id(log), h) :
         Opened(IF matches THEN reindex(Started(h, l), block_db!LastNum(l))
                ELSE [Started(h, l) EXCEPT !.ok = FALSE])

\* --resync-blockchain deletes the object store and the block log.
Resync ==
  /\ status # "open"
  /\ Stop(EmptyLog, Genesis)

Next ==
  \/ \E b \in Block : PushBlock(b)
  \/ \E tx \in Tx : PushTransaction(tx)
  \/ \E b \in Block : GenerateBlock(b)
  \/ Close
  \/ Crash
  \/ \E b \in Block : CrashInPush(b)
  \/ \E wipe_object_db \in BOOLEAN : Open(wipe_object_db)
  \/ Resync

Spec == Init /\ [][Next]_vars

-----------------------------------------------------------------------------
(***************************************************************************)
(* Properties.                                                             *)
(***************************************************************************)

\* Type invariant: the chain database, the fork database, the block log and
\* the process state keep the shape their declarations give them.
TypeOK ==
  /\ head \in BlockOrGenesis
  /\ undo \in Seq(BlockOrGenesis)
  /\ undo_max \in Nat
  /\ fork \in fork_db!ForkDB
  /\ pending \in Seq(Tx)
  /\ log \in block_db!BlockLog
  /\ flushed \in BlockOrGenesis
  /\ status \in {"open", "closed", "failed"}

\* The committed undo states lead back down the current chain block by block:
\* pop_block after a fork switch, a failed switch or a replay never lands on a
\* block of another branch.
UndoMatchesChain ==
  Len(undo) <= num[head] /\
  \A k \in 1 .. Len(undo) :
    undo[k] = (<<Genesis>> \o Path[head])[Len(Path[head]) - Len(undo) + k]

\* Every block of the tree applies on the chain it builds on.  Without this
\* return_to, which stores the blocks of the old branch under the id of the
\* block that was pushed, spoils the log.
Honest == \A b \in Block : BlockApplies(Started(previous[b], EmptyLog), b)

\* "After push block is successful the block is appended to the chain database
\* on disk" (database.cpp:584): the log holds the chain of the head.
LogMatchesChain ==
  status = "open" =>
    \A n \in 1 .. num[head] : block_db!fetch_by_number(log, n) = Path[head][n]

\* Somewhere in the log a block does not build on the one before it.
Torn(l) ==
  \E n \in 2 .. MaxNum :
    /\ block_db!Readable(l, n) /\ block_db!Readable(l, n - 1)
    /\ previous[l[n].data] # l[n - 1].data

\* open() throws only on a log that a crash in the middle of a fork switch left
\* with blocks of two branches: no other crash, close or replay keeps the node
\* from starting.
OpenFailsOnlyWhenTorn == status = "failed" => Torn(log)

\* The number of the last block of the log before its first gap.
Whole(l) ==
  CHOOSE n \in 0 .. MaxNum :
    /\ \A k \in 1 .. n : block_db!Readable(l, k)
    /\ ~block_db!Readable(l, n + 1)

\* A replay ends on the last block before the first gap in the log: open()
\* neither loses a block that was stored nor steps over one that was not,
\* wherever the object store on disk was and through all stages of reindex.
ReplayResumes ==
  [][status # "open" /\ status' = "open" =>
       head' = IF Whole(log) = 0 THEN Genesis ELSE log[Whole(log)].data]_vars

\* No transaction is pending twice or both pending and in the chain, after any
\* mixture of pushes, switches and restores (pending_transactions_restorer).
PendingFresh ==
  /\ \A i, j \in DOMAIN pending : pending[i] = pending[j] => i = j
  /\ \A tx \in ToSet(pending) \cap Included(head) : num[head] > expiration[tx]

\* No handler loses a transaction: one that was pending or in a block of the
\* chain is still one or the other afterwards, unless it has expired or refers
\* to a block that is no longer in the chain (_popped_tx and the restorer).
NoTransactionLost ==
  [][\A tx \in ToSet(pending) \cup Included(head) :
       /\ status = "open" /\ status' = "open"
       /\ num[head'] < expiration[tx]
       /\ ref_block[tx] \in ToSet(Path[head']) \cup {Genesis}
       => tx \in ToSet(pending') \cup Included(head')]_vars

\* "Push block may fail in which case every partial change is unwound"
\* (database.cpp:583): a running node stays on its head or moves to a higher
\* block, never to a lower or an equally high one.
PushAtomic ==
  [][status = "open" /\ status' = "open" =>
       head' = head \/ num[head'] > num[head]]_vars

\* The block and all its ancestors apply.
Sound(b) == ToSet(Path[b]) \subseteq Valid

\* "If the head block from the longest chain does not build off of the current
\* head, we need to switch forks" (database.cpp:613): a sound block that links
\* and is higher than the head becomes the head at once.
AdoptsLonger ==
  \A b \in Block :
    /\ status = "open" /\ Arrives(b)
    /\ Sound(b)
    /\ fork_db!CanPush(fork, b)
    /\ num[b] > num[head]
    => push_block(Running, b).head = b

\* Undo history reaches the last irreversible block, or the block from which
\* this process started: what may still be switched away from can be popped.
UndoReachesIrreversible ==
  Len(undo) >= num[head] - Larger(lib[head], num[flushed])
============================================================================
