---------------------------- MODULE UndoDatabase ----------------------------
(***************************************************************************)
(* The object store of libraries/db and its undo log: object_database,     *)
(* primary_index and undo_database.                                        *)
(*                                                                         *)
(* The store keeps, for every index (an object type), the live objects and *)
(* the id the next object will get.  An id is an index and an instance     *)
(* number.  An object carries the value of its unique key (an account      *)
(* name, an asset symbol) and other data.  The undo log is a deque of      *)
(* undo_state records, each of which describes how to get from the state   *)
(* above it back to the state in which it was opened; it is kept as a      *)
(* sequence whose last element is the back of the deque.                   *)
(*                                                                         *)
(* Abstractions.  A hash map from ids is a total function with the value   *)
(* Absent where there is no entry.  snaps is a history variable: what the  *)
(* whole store was when each undo_state was opened.  No guard reads it.    *)
(* A secondary index (required_approval_index over the proposals) is the   *)
(* set of the ids it has been told of.  Observers only watch: left out.    *)
(*                                                                         *)
(* What callers are trusted with, and who keeps the promise:               *)
(*  - no modify changes a unique key (the evaluators never do);            *)
(*  - commit is called on the only live session, which is not a forced     *)
(*    one (database.cpp:634, 658 and 676);                                 *)
(*  - the log is disabled only while it is empty (database.cpp:192, 2151); *)
(*  - sessions nest at most MaxNesting deep: pending, transaction,         *)
(*    proposal.                                                            *)
(***************************************************************************)
EXTENDS Naturals, Sequences

CONSTANTS Index,         \* object types (space and type id)
          MaxInstances,  \* bound: objects created per index
          Key,           \* values of the unique key of an object
          Data,          \* values of its other fields
          Absent,        \* no object, no entry
          MaxSizes,      \* values set_max_size is called with
          MaxNesting,    \* bound: live sessions
          MaxStack       \* bound: undo states kept

Object == [key : Key, data : Data]
Id == Index \X (0 .. MaxInstances - 1)
Entry == Object \cup {Absent}
Instance == 0 .. MaxInstances

ASSUME AbsentAssumption == Absent \notin Object /\ Absent \notin Instance
ASSUME InstancesAssumption == MaxInstances \in Nat
ASSUME SizesAssumption ==
  /\ MaxSizes \subseteq Nat
  /\ MaxNesting \in Nat
  /\ MaxStack \in Nat
  /\ \A m \in MaxSizes : MaxNesting <= m + 1

VARIABLES cur,       \* the store: objs and the next id of every index
          stack,     \* _stack, the deque of undo states
          sessions,  \* _disable_on_exit of every live session
          disabled,  \* _disabled
          max_size,  \* _max_size
          sindex,    \* the ids a secondary index lists
          snaps      \* history: the store when each undo state was opened

vars == <<cur, stack, sessions, disabled, max_size, sindex, snaps>>

Store == [objs : [Id -> Entry], next : [Index -> Instance]]

UndoState == [old_values : [Id -> Entry],
              old_index_next_ids : [Index -> Instance \cup {Absent}],
              new_ids : SUBSET Id,
              removed : [Id -> Entry]]

active_sessions == Len(sessions)

\* A freshly emplaced undo_state.
EmptyState == [old_values |-> [id \in Id |-> Absent],
               old_index_next_ids |-> [i \in Index |-> Absent],
               new_ids |-> {},
               removed |-> [id \in Id |-> Absent]]

Front(s) == SubSeq(s, 1, Len(s) - 1)
Back(s) == s[Len(s)]
\* The last n elements of a sequence that has at least n.
Newest(s, n) == SubSeq(s, Len(s) - n + 1, Len(s))

\* Some live object of index i holds the unique key k.
KeyUsed(objs, i, k) ==
  \E id \in Id : id[1] = i /\ objs[id] # Absent /\ objs[id].key = k

-----------------------------------------------------------------------------
(***************************************************************************)
(* Recording changes.  Each hook gives the undo_state after the event.     *)
(***************************************************************************)

on_create(st, id) ==
  [st EXCEPT
     !.old_index_next_ids[id[1]] = IF @ = Absent THEN id[2] ELSE @,
     !.new_ids = @ \cup {id}]

\* Faulty variant of on_modify: a later value replaces the one saved first.
on_modify_latest(st, id, obj) ==
  IF id \in st.new_ids THEN st ELSE [st EXCEPT !.old_values[id] = obj]

on_modify(st, id, obj) ==
  IF id \in st.new_ids \/ st.old_values[id] # Absent
    THEN st
    ELSE [st EXCEPT !.old_values[id] = obj]

\* Faulty variant of on_remove: the saved value stays in old_values.
on_remove_keeping(st, id, obj) ==
  IF id \in st.new_ids THEN [st EXCEPT !.new_ids = @ \ {id}]
  ELSE IF st.old_values[id] # Absent
    THEN [st EXCEPT !.removed[id] = st.old_values[id]]
  ELSE [st EXCEPT !.removed[id] = obj]

on_remove(st, id, obj) ==
  IF id \in st.new_ids THEN [st EXCEPT !.new_ids = @ \ {id}]
  ELSE IF st.old_values[id] # Absent
    THEN [st EXCEPT !.removed[id] = st.old_values[id],
                    !.old_values[id] = Absent]
  ELSE IF st.removed[id] # Absent THEN st
  ELSE [st EXCEPT !.removed[id] = obj]

\* The undo state a change is recorded in: the back of the deque, or a state
\* that is opened on the spot when the deque is empty.
Recording == IF stack = <<>> THEN EmptyState ELSE Back(stack)

\* Record a change as st (nothing is recorded while the log is disabled).
Record(st) ==
  IF disabled
    THEN UNCHANGED <<stack, snaps>>
    ELSE /\ stack' = Append(Front(stack), st)
         /\ snaps' = IF stack = <<>> THEN <<cur>> ELSE snaps

-----------------------------------------------------------------------------
(***************************************************************************)
(* Rolling back.  rollback_state() works in four passes over the store.    *)
(***************************************************************************)

RestoreModified(st, s) ==
  [objs |-> [id \in Id |-> IF st.old_values[id] # Absent
                             THEN st.old_values[id] ELSE s.objs[id]],
   next |-> s.next]

RemoveNew(st, s) ==
  [objs |-> [id \in Id |-> IF id \in st.new_ids THEN Absent ELSE s.objs[id]],
   next |-> s.next]

RestoreNextIds(st, s) ==
  [objs |-> s.objs,
   next |-> [i \in Index |-> IF st.old_index_next_ids[i] # Absent
                               THEN st.old_index_next_ids[i] ELSE s.next[i]]]

InsertRemoved(st, s) ==
  [objs |-> [id \in Id |-> IF st.removed[id] # Absent
                             THEN st.removed[id] ELSE s.objs[id]],
   next |-> s.next]

rollback_state(st, s) ==
  InsertRemoved(st, RestoreNextIds(st, RemoveNew(st, RestoreModified(st, s))))

\* What the passes tell a secondary index: remove() of a new object goes
\* through primary_index and is reported, insert() of a removed one goes to
\* generic_index::insert and is not.
UnlistNew(st, ids) == ids \ st.new_ids

-----------------------------------------------------------------------------
(***************************************************************************)
(* merge() folds the newest undo state b into the one before it, a.  The   *)
(* passes run in the order of the code; the third (next ids) is            *)
(* independent of the others.                                              *)
(***************************************************************************)

MergeUpdated(a, b) ==
  [a EXCEPT !.old_values =
     [id \in Id |-> IF /\ b.old_values[id] # Absent
                       /\ id \notin a.new_ids
                       /\ a.old_values[id] = Absent
                      THEN b.old_values[id] ELSE a.old_values[id]]]

MergeNew(a, b) ==
  [a EXCEPT !.new_ids = @ \cup b.new_ids,
            !.old_index_next_ids =
              [i \in Index |-> IF a.old_index_next_ids[i] = Absent
                                 THEN b.old_index_next_ids[i]
                                 ELSE a.old_index_next_ids[i]]]

MergeRemoved(a, b) ==
  LET gone == {id \in Id : b.removed[id] # Absent}
  IN  [a EXCEPT
         !.new_ids = @ \ gone,
         !.old_values = [id \in Id |-> IF id \in gone \ a.new_ids
                                         THEN Absent ELSE a.old_values[id]],
         !.removed =
           [id \in Id |-> IF id \notin gone \ a.new_ids THEN a.removed[id]
                          ELSE IF a.old_values[id] # Absent
                            THEN a.old_values[id]
                          ELSE b.removed[id]]]

\* Faulty variant of merged: the removals of the newer state are forgotten.
merged_without_removed(a, b) == MergeNew(MergeUpdated(a, b), b)

merged(a, b) == MergeRemoved(MergeNew(MergeUpdated(a, b), b), b)

-----------------------------------------------------------------------------
(***************************************************************************)
(* The operations.                                                         *)
(***************************************************************************)

Init ==
  /\ cur = [objs |-> [id \in Id |-> Absent], next |-> [i \in Index |-> 0]]
  /\ stack = <<>>
  /\ sessions = <<>>
  /\ disabled = FALSE
  /\ max_size \in MaxSizes
  /\ sindex = {}
  /\ snaps = <<>>

\* object_database::create: the index hands out the next id, refuses a key
\* that is in use, and on_add tells the undo log.
create(i, obj) ==
  LET id == <<i, cur.next[i]>>
  IN  /\ cur.next[i] < MaxInstances
      /\ ~KeyUsed(cur.objs, i, obj.key)
      /\ cur' = [objs |-> [cur.objs EXCEPT ![id] = obj],
                 next |-> [cur.next EXCEPT ![i] = @ + 1]]
      /\ sindex' = sindex \cup {id}
      /\ Record(on_create(Recording, id))
      /\ UNCHANGED <<sessions, disabled, max_size>>

\* Store s with the entry of id set to e.
Put(s, id, e) == [objs |-> [s.objs EXCEPT ![id] = e], next |-> s.next]

\* object_database::modify: the old value is saved before the change.
modify(id, d) ==
  /\ cur.objs[id] # Absent
  /\ cur' = Put(cur, id, [key |-> cur.objs[id].key, data |-> d])
  /\ Record(on_modify(Recording, id, cur.objs[id]))
  /\ UNCHANGED <<sessions, disabled, max_size, sindex>>

\* object_database::remove
remove(id) ==
  /\ cur.objs[id] # Absent
  /\ cur' = Put(cur, id, Absent)
  /\ sindex' = sindex \ {id}
  /\ Record(on_remove(Recording, id, cur.objs[id]))
  /\ UNCHANGED <<sessions, disabled, max_size>>

\* Faulty variant of Trim: it makes room for the new state beforehand.
Trim_one_more(s) == IF Len(s) >= max_size THEN Newest(s, max_size - 1) ELSE s

\* The deque after `while( size() > max_size() ) _stack.pop_front()`.
Trim(s) == IF Len(s) > max_size THEN Newest(s, max_size) ELSE s

\* A session on a disabled log is only started with force_enable; it disables
\* the log again when it ends.
start_undo_session(force_enable) ==
  /\ ~disabled \/ force_enable
  /\ active_sessions < MaxNesting
  /\ Len(Trim(stack)) < MaxStack
  /\ stack' = Append(Trim(stack), EmptyState)
  /\ snaps' = Append(Trim(snaps), cur)
  /\ sessions' = Append(sessions, disabled)
  /\ disabled' = FALSE
  /\ UNCHANGED <<cur, max_size, sindex>>

\* session::undo, or its destructor while _apply_undo is set.
undo ==
  /\ ~disabled
  /\ active_sessions > 0
  /\ cur' = rollback_state(Back(stack), cur)
  /\ sindex' = UnlistNew(Back(stack), sindex)
  /\ stack' = Front(stack)
  /\ snaps' = Front(snaps)
  /\ disabled' = Back(sessions)
  /\ sessions' = Front(sessions)
  /\ UNCHANGED max_size

\* session::merge.  The only session on an otherwise empty deque has nothing
\* to be merged into: its changes become permanent.
merge ==
  /\ active_sessions > 0
  /\ IF active_sessions = 1 /\ Len(stack) = 1
       THEN stack' = Front(stack)
       ELSE /\ Len(stack) >= 2
            /\ stack' = Append(Front(Front(stack)),
                               merged(Back(Front(stack)), Back(stack)))
  /\ snaps' = Front(snaps)
  /\ disabled' = (disabled \/ Back(sessions))
  /\ sessions' = Front(sessions)
  /\ UNCHANGED <<cur, max_size, sindex>>

\* session::commit: the undo state stays on the deque.
commit ==
  /\ sessions = <<FALSE>>
  /\ sessions' = <<>>
  /\ UNCHANGED <<cur, stack, disabled, max_size, sindex, snaps>>

\* undo_database::pop_commit, called by object_database::pop_undo.
pop_commit ==
  /\ active_sessions = 0
  /\ stack # <<>>
  /\ cur' = rollback_state(Back(stack), cur)
  /\ sindex' = UnlistNew(Back(stack), sindex)
  /\ stack' = Front(stack)
  /\ snaps' = Front(snaps)
  /\ disabled' = FALSE
  /\ UNCHANGED <<sessions, max_size>>

disable ==
  /\ stack = <<>>
  /\ disabled' = TRUE
  /\ UNCHANGED <<cur, stack, sessions, max_size, sindex, snaps>>

enable ==
  /\ stack = <<>>
  /\ disabled' = FALSE
  /\ UNCHANGED <<cur, stack, sessions, max_size, sindex, snaps>>

set_max_size(n) ==
  /\ max_size' = n
  /\ UNCHANGED <<cur, stack, sessions, disabled, sindex, snaps>>

Next ==
  \/ \E i \in Index, obj \in Object : create(i, obj)
  \/ \E id \in Id, d \in Data : modify(id, d)
  \/ \E id \in Id : remove(id)
  \/ \E force_enable \in BOOLEAN : start_undo_session(force_enable)
  \/ undo
  \/ merge
  \/ commit
  \/ pop_commit
  \/ disable
  \/ enable
  \/ \E n \in MaxSizes : set_max_size(n)

Spec == Init /\ [][Next]_vars

-----------------------------------------------------------------------------
(***************************************************************************)
(* Properties.                                                             *)
(***************************************************************************)

\* The store above undo state k: the next newer snapshot, or the store itself.
Above(k) == IF k = Len(stack) THEN cur ELSE snaps[k + 1]

\* Type invariant: every variable keeps the shape its declaration in
\* undo_database.hpp and index.hpp gives it.
TypeOK ==
  /\ cur \in Store
  /\ stack \in Seq(UndoState)
  /\ sessions \in Seq(BOOLEAN)
  /\ disabled \in BOOLEAN
  /\ max_size \in MaxSizes
  /\ sindex \in SUBSET Id
  /\ snaps \in Seq(Store)
  /\ Len(snaps) = Len(stack)

\* Rolling back any undo state, from the newest to the oldest, gives back
\* exactly the store in which that state was opened, whatever was created,
\* modified, removed and merged since (rollback_state, on_*, merge).
RollbackExact ==
  \A k \in 1 .. Len(stack) : rollback_state(stack[k], Above(k)) = snaps[k]

\* No two objects of an index hold the same unique key.
UniqueKeys(objs) ==
  \A a, b \in Id : /\ objs[a] # Absent
                   /\ objs[b] # Absent
                   /\ a[1] = b[1]
                   /\ objs[a].key = objs[b].key
                   => a = b

\* What rollback_state asserts on its way through store s: every object it
\* modifies or removes is there (get_object), every object it inserts is not
\* (generic_index::insert), and no pass makes two objects share a key.
RollbackLegal(st, s) ==
  LET s1 == RestoreModified(st, s)
      s2 == RemoveNew(st, s1)
      s3 == InsertRemoved(st, s2)
  IN  \A id \in Id :
        /\ st.old_values[id] # Absent => s.objs[id] # Absent
        /\ id \in st.new_ids => s1.objs[id] # Absent
        /\ st.removed[id] # Absent => s2.objs[id] = Absent
        /\ UniqueKeys(s1.objs) /\ UniqueKeys(s3.objs)

\* rollback_state never throws part-way, at any depth of the log: a throw would
\* leave the store half restored and, in undo(), the log disabled for good.
RollbackNeverThrows ==
  \A k \in 1 .. Len(stack) : RollbackLegal(stack[k], Above(k))

\* The N/A cells of the table in merge() never occur between neighbours of the
\* log: no object is updated or removed above a state that removed it, none is
\* created above a state that knows it (asserts at lines 198 and 242).
MergeCausal ==
  \A k \in 1 .. Len(stack) - 1, id \in Id :
    LET a == stack[k]
        b == stack[k + 1]
    IN  /\ a.removed[id] # Absent
             => b.old_values[id] = Absent /\ b.removed[id] = Absent
        /\ id \in b.new_ids
             => /\ id \notin a.new_ids
                /\ a.old_values[id] = Absent
                /\ a.removed[id] = Absent

\* pop_front in start_undo_session never discards the undo state of a session
\* that is still live, so undo() and merge() always find their own state.
SessionsBacked == active_sessions <= Len(stack)

\* Every id a secondary index lists is the id of a live object, also after a
\* rollback (get_proposed_transactions dereferences each of them).
SecondaryIndexLive == \A id \in sindex : cur.objs[id] # Absent

\* One undo state between the store it was opened in (lo) and the store above
\* it (hi): for every object exactly one row of the table in merge() applies,
\* and the recorded values are those of lo.
Link(st, lo, hi) ==
  /\ \A id \in Id :
       /\ id \in st.new_ids => /\ lo.objs[id] = Absent
                               /\ hi.objs[id] # Absent
                               /\ lo.next[id[1]] <= id[2]
       /\ st.old_values[id] # Absent
            => lo.objs[id] = st.old_values[id] /\ hi.objs[id] # Absent
       /\ st.removed[id] # Absent
            => lo.objs[id] = st.removed[id] /\ hi.objs[id] = Absent
       /\ \/ id \in st.new_ids
          \/ st.old_values[id] # Absent
          \/ st.removed[id] # Absent
          \/ lo.objs[id] = hi.objs[id]
       /\ lo.objs[id] # Absent /\ hi.objs[id] # Absent
            => lo.objs[id].key = hi.objs[id].key
  /\ \A i \in Index :
       /\ lo.next[i] <= hi.next[i]
       /\ lo.next[i] = IF st.old_index_next_ids[i] = Absent
                         THEN hi.next[i] ELSE st.old_index_next_ids[i]

\* A store on its own: unique keys, and no object at or beyond the next id.
StoreOK(s) ==
  /\ UniqueKeys(s.objs)
  /\ \A id \in Id : s.objs[id] # Absent => id[2] < s.next[id[1]]

\* While the log is disabled it is empty; only the outermost session can be a
\* forced one, and then nothing committed lies below it.
DisabledOK ==
  /\ disabled => stack = <<>>
  /\ \A k \in 1 .. Len(sessions) :
       sessions[k] => k = 1 /\ Len(stack) = Len(sessions)

\* The inductive invariant of the undo log: each undo state links its snapshot
\* to the store above it.
LogLinked ==
  /\ StoreOK(cur)
  /\ \A k \in 1 .. Len(stack) :
       StoreOK(snaps[k]) /\ Link(stack[k], snaps[k], Above(k))
  /\ SessionsBacked
  /\ DisabledOK

\* The undo log implements a stack of full snapshots: no step of the store or of
\* a session (undo_database::session, pop_commit) does anything to the store
\* that the snapshots would not have done.
Snapshots == INSTANCE SnapshotStack WITH State <- Store,
                                         live <- active_sessions
SnapshotSpec == Snapshots!Spec
=============================================================================
