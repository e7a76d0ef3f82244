------------------------ MODULE UndoDatabase_proofs -------------------------
(***************************************************************************)
(* Proofs about UndoDatabase: rolling back is exact and never trips an     *)
(* assertion, sessions keep their undo states, and the log implements a    *)
(* stack of snapshots, for every number of objects, keys, sessions and     *)
(* undo states.                                                            *)
(***************************************************************************)
EXTENDS UndoDatabase, SequenceTheorems, TLAPS

(***************************************************************************)
(* What each hook and each pass does to one link of the log.               *)
(***************************************************************************)

\* A freshly opened undo state links a store to itself.
LEMMA LinkEmpty ==
  ASSUME NEW s \in Store
  PROVE  EmptyState \in UndoState /\ Link(EmptyState, s, s)
BY DEF EmptyState, UndoState, Link, Store, Instance, Entry

\* on_create records the creation of an object with the next id of its index.
LEMMA LinkCreate ==
  ASSUME NEW st \in UndoState, NEW lo \in Store, NEW hi \in Store,
         NEW i \in Index, NEW obj \in Object,
         StoreOK(lo), StoreOK(hi), Link(st, lo, hi),
         hi.next[i] < MaxInstances
  PROVE  LET id == <<i, hi.next[i]>>
             up == [objs |-> [hi.objs EXCEPT ![id] = obj],
                    next |-> [hi.next EXCEPT ![i] = @ + 1]]
         IN  /\ id \in Id
             /\ up \in Store
             /\ on_create(st, id) \in UndoState
             /\ Link(on_create(st, id), lo, up)
<1> DEFINE id == <<i, hi.next[i]>>
           up == [objs |-> [hi.objs EXCEPT ![id] = obj],
                  next |-> [hi.next EXCEPT ![i] = @ + 1]]
<1>1. id \in Id /\ id[1] = i /\ id[2] = hi.next[i]
  BY InstancesAssumption DEF Id, Store, Instance
<1>2. up \in Store
  BY <1>1, InstancesAssumption DEF Store, Instance, Entry
<1>3. on_create(st, id) \in UndoState
  BY <1>1, InstancesAssumption DEF on_create, UndoState, Store, Instance
<1>4. hi.objs[id] = Absent /\ lo.objs[id] = Absent
  BY <1>1 DEF StoreOK, Link, Store, Instance
<1>5. Link(on_create(st, id), lo, up)
  BY <1>1, <1>2, <1>3, <1>4, AbsentAssumption
     DEF Link, on_create, UndoState, Store, Instance, Entry
<1> QED BY <1>1, <1>2, <1>3, <1>5

\* on_modify keeps the first value an object had since the state was opened.
LEMMA LinkModify ==
  ASSUME NEW st \in UndoState, NEW lo \in Store, NEW hi \in Store,
         NEW id \in Id, NEW d \in Data,
         Link(st, lo, hi), hi.objs[id] # Absent
  PROVE  LET up == Put(hi, id, [key |-> hi.objs[id].key, data |-> d])
         IN  /\ up \in Store
             /\ on_modify(st, id, hi.objs[id]) \in UndoState
             /\ Link(on_modify(st, id, hi.objs[id]), lo, up)
<1> DEFINE obj == [key |-> hi.objs[id].key, data |-> d]
           up == Put(hi, id, obj)
           um == on_modify(st, id, hi.objs[id])
<1>1. hi.objs[id] \in Object /\ obj \in Object
  BY DEF Store, Entry, Object
<1>2. /\ up \in Store
      /\ up.next = hi.next
      /\ \A x \in Id : up.objs[x] = IF x = id THEN obj ELSE hi.objs[x]
  BY <1>1 DEF Store, Put, Entry
<1>3. /\ um \in UndoState
      /\ um.old_index_next_ids = st.old_index_next_ids
      /\ um.new_ids = st.new_ids
      /\ um.removed = st.removed
      /\ \A x \in Id :
           um.old_values[x] = IF /\ x = id
                                 /\ id \notin st.new_ids
                                 /\ st.old_values[id] = Absent
                                THEN hi.objs[id] ELSE st.old_values[x]
  BY <1>1 DEF on_modify, UndoState, Entry
<1>4. obj # Absent /\ obj.key = hi.objs[id].key
  BY <1>1, AbsentAssumption
<1>5. Link(um, lo, up)
  BY <1>1, <1>2, <1>3, <1>4 DEF Link
<1> QED BY <1>2, <1>3, <1>5

\* on_remove forgets an object of this state, and otherwise keeps the value the
\* object had when the state was opened.
LEMMA LinkRemove ==
  ASSUME NEW st \in UndoState, NEW lo \in Store, NEW hi \in Store,
         NEW id \in Id, Link(st, lo, hi), hi.objs[id] # Absent
  PROVE  /\ Put(hi, id, Absent) \in Store
         /\ on_remove(st, id, hi.objs[id]) \in UndoState
         /\ Link(on_remove(st, id, hi.objs[id]), lo, Put(hi, id, Absent))
<1> DEFINE up == Put(hi, id, Absent)
           ur == on_remove(st, id, hi.objs[id])
<1>1. /\ up \in Store
      /\ up.next = hi.next
      /\ \A x \in Id : up.objs[x] = IF x = id THEN Absent ELSE hi.objs[x]
  BY DEF Store, Put, Entry
<1>2. CASE id \in st.new_ids
  BY <1>1, <1>2 DEF on_remove, UndoState, Link
<1>3. CASE id \notin st.new_ids /\ st.old_values[id] # Absent
  <2>1. /\ ur \in UndoState
        /\ ur.old_index_next_ids = st.old_index_next_ids
        /\ ur.new_ids = st.new_ids
        /\ \A x \in Id :
             /\ ur.old_values[x] = IF x = id THEN Absent ELSE st.old_values[x]
             /\ ur.removed[x] = IF x = id THEN st.old_values[id]
                                          ELSE st.removed[x]
    BY <1>3 DEF on_remove, UndoState, Entry
  <2> QED BY <1>1, <1>3, <2>1 DEF Link
<1>4. CASE id \notin st.new_ids /\ st.old_values[id] = Absent
  <2>1. st.removed[id] = Absent
    BY DEF Link
  <2>2. /\ ur \in UndoState
        /\ ur.old_index_next_ids = st.old_index_next_ids
        /\ ur.new_ids = st.new_ids
        /\ ur.old_values = st.old_values
        /\ \A x \in Id :
             ur.removed[x] = IF x = id THEN hi.objs[id] ELSE st.removed[x]
    BY <1>4, <2>1 DEF on_remove, UndoState, Store, Entry
  <2> QED BY <1>1, <1>4, <2>2 DEF Link
<1> QED BY <1>2, <1>3, <1>4

\* The four passes of rollback_state take the upper store to the lower one.
LEMMA LinkRollback ==
  ASSUME NEW st \in UndoState, NEW lo \in Store, NEW hi \in Store,
         Link(st, lo, hi)
  PROVE  rollback_state(st, hi) = lo
<1> DEFINE r == rollback_state(st, hi)
<1>1. /\ r = [objs |-> r.objs, next |-> r.next]
      /\ lo = [objs |-> lo.objs, next |-> lo.next]
  BY DEF rollback_state, InsertRemoved, RestoreNextIds, RemoveNew,
         RestoreModified, Store
<1>2. r.next = lo.next
  BY DEF rollback_state, InsertRemoved, RestoreNextIds, RemoveNew,
         RestoreModified, Store, Link
<1>3. r.objs = lo.objs
  BY DEF rollback_state, InsertRemoved, RestoreNextIds, RemoveNew,
         RestoreModified, Store, Link
<1> QED BY <1>1, <1>2, <1>3

\* No assertion on the way of rollback_state fails.
LEMMA LinkLegal ==
  ASSUME NEW st \in UndoState, NEW lo \in Store, NEW hi \in Store,
         Link(st, lo, hi), StoreOK(lo), StoreOK(hi)
  PROVE  RollbackLegal(st, hi)
<1> DEFINE s1 == RestoreModified(st, hi)
           s2 == RemoveNew(st, s1)
           s3 == InsertRemoved(st, s2)
<1>1. \A id \in Id :
        s1.objs[id] = IF st.old_values[id] # Absent
                        THEN st.old_values[id] ELSE hi.objs[id]
  BY DEF RestoreModified
<1>2. \A id \in Id : s2.objs[id] = IF id \in st.new_ids
                                     THEN Absent ELSE s1.objs[id]
  BY DEF RemoveNew
<1>3. \A id \in Id : s3.objs[id] = lo.objs[id]
  BY <1>1, <1>2 DEF InsertRemoved, Link
<1>4. \A id \in Id : /\ s1.objs[id] # Absent <=> hi.objs[id] # Absent
                     /\ s1.objs[id] # Absent
                          => s1.objs[id].key = hi.objs[id].key
  BY <1>1 DEF Link
<1>5. UniqueKeys(s1.objs)
  BY <1>4 DEF StoreOK, UniqueKeys
<1>6. UniqueKeys(s3.objs)
  BY <1>3 DEF StoreOK, UniqueKeys
<1> QED BY <1>1, <1>2, <1>4, <1>5, <1>6 DEF RollbackLegal, Link

\* Two neighbouring links never meet in an N/A cell of the table in merge().
LEMMA LinkCausal ==
  ASSUME NEW a \in UndoState, NEW b \in UndoState,
         NEW lo \in Store, NEW mid \in Store, NEW hi \in Store,
         Link(a, lo, mid), Link(b, mid, hi), StoreOK(lo), NEW id \in Id
  PROVE  /\ a.removed[id] # Absent
              => b.old_values[id] = Absent /\ b.removed[id] = Absent
         /\ id \in b.new_ids
              => /\ id \notin a.new_ids
                 /\ a.old_values[id] = Absent
                 /\ a.removed[id] = Absent
<1>1. a.removed[id] # Absent
        => b.old_values[id] = Absent /\ b.removed[id] = Absent
  BY DEF Link
<1>2. ASSUME id \in b.new_ids
      PROVE  lo.objs[id] = Absent
  <2>1. /\ id[1] \in Index
        /\ id[2] \in Nat
        /\ lo.next[id[1]] \in Nat
        /\ mid.next[id[1]] \in Nat
    BY InstancesAssumption DEF Id, Store, Instance
  <2>2. mid.next[id[1]] <= id[2] /\ lo.next[id[1]] <= mid.next[id[1]]
    BY <1>2, <2>1 DEF Link
  <2>3. ~(id[2] < lo.next[id[1]])
    BY <2>1, <2>2
  <2> QED BY <2>3 DEF StoreOK
<1>3. id \in b.new_ids => /\ id \notin a.new_ids
                          /\ a.old_values[id] = Absent
                          /\ a.removed[id] = Absent
  BY <1>2 DEF Link
<1> QED BY <1>1, <1>3

\* merge() composes two neighbouring links.
LEMMA LinkMerge ==
  ASSUME NEW a \in UndoState, NEW b \in UndoState,
         NEW lo \in Store, NEW mid \in Store, NEW hi \in Store,
         Link(a, lo, mid), Link(b, mid, hi), StoreOK(lo)
  PROVE  merged(a, b) \in UndoState /\ Link(merged(a, b), lo, hi)
<1> DEFINE m == merged(a, b)
           gone == {id \in Id : b.removed[id] # Absent}
<1>1. /\ MergeUpdated(a, b) \in UndoState
      /\ MergeUpdated(a, b).new_ids = a.new_ids
      /\ MergeUpdated(a, b).removed = a.removed
      /\ MergeUpdated(a, b).old_index_next_ids = a.old_index_next_ids
      /\ \A id \in Id : MergeUpdated(a, b).old_values[id] =
           IF /\ b.old_values[id] # Absent
              /\ id \notin a.new_ids
              /\ a.old_values[id] = Absent
             THEN b.old_values[id] ELSE a.old_values[id]
  BY DEF MergeUpdated, UndoState
<1> DEFINE u == MergeUpdated(a, b)
           n == MergeNew(u, b)
<1>2. /\ n \in UndoState
      /\ n.new_ids = a.new_ids \cup b.new_ids
      /\ n.removed = a.removed
      /\ n.old_values = u.old_values
      /\ \A i \in Index : n.old_index_next_ids[i] =
           IF a.old_index_next_ids[i] = Absent
             THEN b.old_index_next_ids[i] ELSE a.old_index_next_ids[i]
  <2> HIDE DEF u
  <2> QED BY <1>1 DEF MergeNew, UndoState, u
<1>3. /\ m \in UndoState
      /\ m.new_ids = n.new_ids \ gone
      /\ m.old_index_next_ids = n.old_index_next_ids
      /\ \A id \in Id :
           /\ m.old_values[id] = IF id \in gone \ n.new_ids
                                   THEN Absent ELSE n.old_values[id]
           /\ m.removed[id] = IF id \notin gone \ n.new_ids THEN n.removed[id]
                              ELSE IF n.old_values[id] # Absent
                                THEN n.old_values[id]
                              ELSE b.removed[id]
  <2>1. m = MergeRemoved(n, b)
    BY DEF merged
  <2> HIDE DEF n, m
  <2> QED BY <2>1, <1>2 DEF MergeRemoved, UndoState, Entry
<1> HIDE DEF m, n, u
<1>4. \A id \in Id :
        /\ a.removed[id] # Absent
             => b.old_values[id] = Absent /\ b.removed[id] = Absent
        /\ id \in b.new_ids => /\ id \notin a.new_ids
                               /\ a.old_values[id] = Absent
                               /\ a.removed[id] = Absent
  BY LinkCausal
<1>5. ASSUME NEW id \in Id
      PROVE  /\ id \in m.new_ids => /\ lo.objs[id] = Absent
                                    /\ hi.objs[id] # Absent
             /\ m.old_values[id] # Absent
                  => lo.objs[id] = m.old_values[id] /\ hi.objs[id] # Absent
             /\ m.removed[id] # Absent
                  => lo.objs[id] = m.removed[id] /\ hi.objs[id] = Absent
             /\ \/ id \in m.new_ids
                \/ m.old_values[id] # Absent
                \/ m.removed[id] # Absent
                \/ lo.objs[id] = hi.objs[id]
             /\ lo.objs[id] # Absent /\ hi.objs[id] # Absent
                  => lo.objs[id].key = hi.objs[id].key
  BY <1>1, <1>2, <1>3, <1>4 DEF Link, u
<1>6. ASSUME NEW id \in m.new_ids
      PROVE  lo.next[id[1]] <= id[2]
  <2>1. id \in Id /\ (id \in a.new_ids \/ id \in b.new_ids)
    BY <1>2, <1>3 DEF UndoState
  <2>2. /\ id[1] \in Index
        /\ id[2] \in Nat
        /\ lo.next[id[1]] \in Nat
        /\ mid.next[id[1]] \in Nat
    BY <2>1, InstancesAssumption DEF Id, Store, Instance
  <2> QED BY <2>1, <2>2 DEF Link
<1>7. ASSUME NEW i \in Index
      PROVE  /\ lo.next[i] <= hi.next[i]
             /\ lo.next[i] = IF m.old_index_next_ids[i] = Absent
                               THEN hi.next[i] ELSE m.old_index_next_ids[i]
  <2>1. lo.next[i] \in Nat /\ mid.next[i] \in Nat /\ hi.next[i] \in Nat
    BY InstancesAssumption DEF Store, Instance
  <2> QED BY <1>2, <1>3, <2>1 DEF Link
<1> QED BY <1>3, <1>5, <1>6, <1>7 DEF Link, m

-----------------------------------------------------------------------------
(***************************************************************************)
(* The log as a whole.                                                     *)
(***************************************************************************)

\* A log st with snapshots sn, over store c, in which every state is linked.
Linked(c, st, sn) ==
  /\ c \in Store /\ st \in Seq(UndoState) /\ sn \in Seq(Store)
  /\ Len(sn) = Len(st)
  /\ StoreOK(c)
  /\ \A k \in 1 .. Len(st) :
       /\ StoreOK(sn[k])
       /\ Link(st[k], sn[k], IF k = Len(st) THEN c ELSE sn[k + 1])

\* pop_back and pop_front on sequences.
LEMMA FrontFacts ==
  ASSUME NEW S, NEW s \in Seq(S), s # <<>>
  PROVE  /\ Front(s) \in Seq(S)
         /\ Len(s) \in Nat /\ Len(s) > 0 /\ Len(Front(s)) = Len(s) - 1
         /\ \A k \in 1 .. Len(s) - 1 : Front(s)[k] = s[k]
         /\ Back(s) \in S
<1>1. Len(s) \in Nat /\ Len(s) > 0
  OBVIOUS
<1>2. \A k \in 1 .. Len(s) - 1 : s[k] \in S
  BY <1>1
<1>3. Len(s) - 1 \in Int /\ 1 \in Int
  BY <1>1
<1>4. /\ SubSeq(s, 1, Len(s) - 1) \in Seq(S)
      /\ Len(SubSeq(s, 1, Len(s) - 1))
           = IF 1 <= Len(s) - 1 THEN Len(s) - 1 - 1 + 1 ELSE 0
      /\ \A k \in 1 .. Len(s) - 1 - 1 + 1 :
           SubSeq(s, 1, Len(s) - 1)[k] = s[1 + k - 1]
  BY <1>2, <1>3, SubSeqProperties
<1>5. Len(Front(s)) = Len(s) - 1
  <2>1. Len(Front(s)) = IF 1 <= Len(s) - 1 THEN Len(s) - 1 - 1 + 1 ELSE 0
    BY ONLY <1>4 DEF Front
  <2>2. \A n \in Nat : n > 0 => (IF 1 <= n - 1 THEN n - 1 - 1 + 1 ELSE 0) = n - 1
    OBVIOUS
  <2> QED BY ONLY <1>1, <2>1, <2>2
<1>6. ASSUME NEW k \in 1 .. Len(s) - 1
      PROVE  Front(s)[k] = s[k]
  <2>1. k \in 1 .. Len(s) - 1 - 1 + 1 /\ 1 + k - 1 = k
    BY <1>1
  <2> QED BY <1>4, <2>1 DEF Front
<1>7. Back(s) \in S
  BY <1>1 DEF Back
<1> QED BY <1>1, <1>4, <1>5, <1>6, <1>7 DEF Front

\* The newest n elements of a sequence: how many they are and which.
LEMMA NewestFacts ==
  ASSUME NEW S, NEW s \in Seq(S), NEW n \in 0 .. Len(s)
  PROVE  /\ Newest(s, n) \in Seq(S)
         /\ Len(Newest(s, n)) = n
         /\ \A k \in 1 .. n : Newest(s, n)[k] = s[Len(s) - n + k]
<1> DEFINE m == Len(s) - n + 1
<1>1. m \in Int /\ Len(s) \in Int /\ \A k \in m .. Len(s) : s[k] \in S
  OBVIOUS
<1>2. /\ SubSeq(s, m, Len(s)) \in Seq(S)
      /\ Len(SubSeq(s, m, Len(s))) = IF m <= Len(s) THEN Len(s) - m + 1 ELSE 0
      /\ \A k \in 1 .. Len(s) - m + 1 : SubSeq(s, m, Len(s))[k] = s[m + k - 1]
  BY <1>1, SubSeqProperties
<1> QED BY <1>2 DEF Newest

\* A change of the store, recorded in the newest undo state.
LEMMA LinkedTop ==
  ASSUME NEW c, NEW st, NEW sn, Linked(c, st, sn), st # <<>>,
         NEW u \in UndoState, NEW d \in Store, StoreOK(d),
         Link(u, sn[Len(st)], d)
  PROVE  Linked(d, Append(Front(st), u), sn)
<1> DEFINE new == Append(Front(st), u)
<1>1. /\ Front(st) \in Seq(UndoState)
      /\ Len(st) \in Nat /\ Len(st) > 0 /\ Len(Front(st)) = Len(st) - 1
      /\ \A k \in 1 .. Len(st) - 1 : Front(st)[k] = st[k]
  BY FrontFacts DEF Linked
<1>2. /\ new \in Seq(UndoState)
      /\ Len(new) = Len(st)
      /\ \A k \in 1 .. Len(st) : new[k] = IF k = Len(st) THEN u ELSE st[k]
  BY <1>1
<1> HIDE DEF new
<1> QED BY <1>1, <1>2 DEF Linked, new

\* A new undo state, opened now.
LEMMA LinkedPush ==
  ASSUME NEW c, NEW st, NEW sn, Linked(c, st, sn)
  PROVE  Linked(c, Append(st, EmptyState), Append(sn, c))
<1>1. /\ c \in Store /\ st \in Seq(UndoState) /\ sn \in Seq(Store)
      /\ Len(st) \in Nat /\ Len(sn) = Len(st) /\ StoreOK(c)
  BY DEF Linked
<1>2. EmptyState \in UndoState /\ Link(EmptyState, c, c)
  BY <1>1, LinkEmpty
<1> DEFINE t == Append(st, EmptyState)
           r == Append(sn, c)
<1>3. /\ t \in Seq(UndoState) /\ r \in Seq(Store)
      /\ Len(t) = Len(st) + 1 /\ Len(r) = Len(st) + 1
      /\ \A k \in 1 .. Len(st) + 1 :
           /\ t[k] = IF k = Len(st) + 1 THEN EmptyState ELSE st[k]
           /\ r[k] = IF k = Len(st) + 1 THEN c ELSE sn[k]
  BY <1>1, <1>2
<1> HIDE DEF t, r
<1>4. ASSUME NEW k \in 1 .. Len(t)
      PROVE  /\ StoreOK(r[k])
             /\ Link(t[k], r[k], IF k = Len(t) THEN c ELSE r[k + 1])
  <2>1. CASE k = Len(st) + 1
    BY <1>1, <1>2, <1>3, <2>1
  <2>2. CASE k \in 1 .. Len(st)
    <3>1. /\ StoreOK(sn[k])
          /\ Link(st[k], sn[k], IF k = Len(st) THEN c ELSE sn[k + 1])
      BY <2>2 DEF Linked
    <3>2. /\ t[k] = st[k] /\ r[k] = sn[k]
          /\ r[k + 1] = IF k = Len(st) THEN c ELSE sn[k + 1]
          /\ k # Len(t)
      BY <1>1, <1>3, <2>2
    <3> QED BY <3>1, <3>2
  <2> QED BY <1>1, <1>3, <2>1, <2>2
<1> QED BY <1>1, <1>3, <1>4 DEF Linked, t, r

\* The oldest undo states are forgotten.
LEMMA LinkedTrim ==
  ASSUME NEW c, NEW st, NEW sn, Linked(c, st, sn), NEW n \in 0 .. Len(st)
  PROVE  Linked(c, Newest(st, n), Newest(sn, n))
<1>1. /\ c \in Store /\ st \in Seq(UndoState) /\ sn \in Seq(Store)
      /\ Len(st) \in Nat /\ Len(sn) = Len(st) /\ StoreOK(c)
      /\ n \in Nat /\ n <= Len(st) /\ n \in 0 .. Len(sn)
  BY DEF Linked
<1> DEFINE t == Newest(st, n)
           r == Newest(sn, n)
<1>2. /\ t \in Seq(UndoState) /\ Len(t) = n
      /\ \A k \in 1 .. n : t[k] = st[Len(st) - n + k]
  BY <1>1, NewestFacts
<1>3. /\ r \in Seq(Store) /\ Len(r) = n
      /\ \A k \in 1 .. n : r[k] = sn[Len(st) - n + k]
  <2>1. /\ r \in Seq(Store) /\ Len(r) = n
        /\ \A k \in 1 .. n : r[k] = sn[Len(sn) - n + k]
    BY <1>1, NewestFacts
  <2> QED BY <1>1, <2>1
<1> HIDE DEF t, r
<1>4. ASSUME NEW k \in 1 .. n
      PROVE  /\ StoreOK(r[k])
             /\ Link(t[k], r[k], IF k = n THEN c ELSE r[k + 1])
  <2> DEFINE j == Len(st) - n + k
  <2>1. /\ StoreOK(sn[j])
        /\ Link(st[j], sn[j], IF j = Len(st) THEN c ELSE sn[j + 1])
    <3>1. j \in 1 .. Len(st)
      BY <1>1
    <3> QED BY <3>1 DEF Linked
  <2>2. t[k] = st[j] /\ r[k] = sn[j]
    BY <1>2, <1>3
  <2>3. k = n <=> j = Len(st)
    BY <1>1
  <2>4. ASSUME k # n
        PROVE  r[k + 1] = sn[j + 1]
    <3>1. k + 1 \in 1 .. n /\ Len(st) - n + (k + 1) = j + 1
      BY <1>1, <2>4
    <3> QED BY <1>3, <3>1
  <2> QED BY <2>1, <2>2, <2>3, <2>4
<1> QED BY <1>1, <1>2, <1>3, <1>4 DEF Linked, t, r

\* Rolling back the newest undo state.
LEMMA LinkedPop ==
  ASSUME NEW c, NEW st, NEW sn, Linked(c, st, sn), st # <<>>
  PROVE  /\ rollback_state(Back(st), c) = Back(sn)
         /\ Linked(Back(sn), Front(st), Front(sn))
<1>1. /\ c \in Store /\ st \in Seq(UndoState) /\ sn \in Seq(Store)
      /\ Len(st) \in Nat /\ Len(st) > 0 /\ Len(sn) = Len(st) /\ sn # <<>>
  BY DEF Linked
<1>2. /\ Front(st) \in Seq(UndoState) /\ Len(Front(st)) = Len(st) - 1
      /\ \A k \in 1 .. Len(st) - 1 : Front(st)[k] = st[k]
      /\ Back(st) \in UndoState /\ Back(st) = st[Len(st)]
  BY <1>1, FrontFacts DEF Back
<1>3. /\ Front(sn) \in Seq(Store) /\ Len(Front(sn)) = Len(st) - 1
      /\ \A k \in 1 .. Len(st) - 1 : Front(sn)[k] = sn[k]
      /\ Back(sn) \in Store /\ Back(sn) = sn[Len(st)]
  BY <1>1, FrontFacts DEF Back
<1>4. Link(Back(st), Back(sn), c) /\ StoreOK(Back(sn))
  BY <1>1, <1>2, <1>3 DEF Linked
<1>5. rollback_state(Back(st), c) = Back(sn)
  BY <1>1, <1>2, <1>3, <1>4, LinkRollback
<1>6. ASSUME NEW k \in 1 .. Len(st) - 1
      PROVE  /\ StoreOK(Front(sn)[k])
             /\ Link(Front(st)[k], Front(sn)[k],
                     IF k = Len(st) - 1 THEN Back(sn) ELSE Front(sn)[k + 1])
  <2>1. StoreOK(sn[k]) /\ Link(st[k], sn[k], sn[k + 1])
    BY <1>1 DEF Linked
  <2> QED BY <1>1, <1>2, <1>3, <2>1
<1> QED BY <1>1, <1>2, <1>3, <1>4, <1>5, <1>6 DEF Linked

\* Merging the newest undo state into the one before it.
LEMMA LinkedMerge ==
  ASSUME NEW c, NEW st, NEW sn, Linked(c, st, sn), Len(st) >= 2
  PROVE  Linked(c, Append(Front(Front(st)), merged(Back(Front(st)), Back(st))),
                Front(sn))
<1>1. /\ c \in Store /\ st \in Seq(UndoState) /\ sn \in Seq(Store)
      /\ Len(st) \in Nat /\ Len(sn) = Len(st) /\ st # <<>> /\ sn # <<>>
  BY DEF Linked
<1> DEFINE f == Front(st)
           g == Front(sn)
           u == merged(Back(f), Back(st))
<1>2. /\ Linked(Back(sn), f, g)
      /\ f \in Seq(UndoState) /\ Len(f) = Len(st) - 1 /\ f # <<>>
      /\ Back(f) = st[Len(st) - 1] /\ Back(st) = st[Len(st)]
      /\ g[Len(f)] = sn[Len(st) - 1]
      /\ Back(f) \in UndoState /\ Back(st) \in UndoState
  BY <1>1, LinkedPop, FrontFacts DEF Back
<1>3. /\ Link(Back(f), sn[Len(st) - 1], sn[Len(st)])
      /\ Link(Back(st), sn[Len(st)], c)
      /\ StoreOK(sn[Len(st) - 1]) /\ StoreOK(c)
      /\ sn[Len(st) - 1] \in Store /\ sn[Len(st)] \in Store
  BY <1>1, <1>2 DEF Linked
<1>4. u \in UndoState /\ Link(u, sn[Len(st) - 1], c)
  BY <1>1, <1>2, <1>3, LinkMerge
<1> HIDE DEF f, g, u
<1>5. Linked(c, Append(Front(f), u), g)
  BY <1>1, <1>2, <1>3, <1>4, LinkedTop
<1> QED BY <1>5 DEF f, g, u

\* create, modify and remove keep keys unique and ids below the next id.
LEMMA StoreOKCreate ==
  ASSUME NEW s \in Store, StoreOK(s), NEW i \in Index, NEW obj \in Object,
         s.next[i] < MaxInstances, ~KeyUsed(s.objs, i, obj.key)
  PROVE  StoreOK([objs |-> [s.objs EXCEPT ![<<i, s.next[i]>>] = obj],
                  next |-> [s.next EXCEPT ![i] = @ + 1]])
<1> DEFINE id == <<i, s.next[i]>>
           up == [objs |-> [s.objs EXCEPT ![id] = obj],
                  next |-> [s.next EXCEPT ![i] = @ + 1]]
<1>1. id \in Id /\ id[1] = i /\ id[2] = s.next[i] /\ s.next[i] \in Nat
  BY InstancesAssumption DEF Id, Store, Instance
<1>2. /\ \A x \in Id : up.objs[x] = IF x = id THEN obj ELSE s.objs[x]
      /\ \A j \in Index : up.next[j] = IF j = i THEN s.next[i] + 1 ELSE s.next[j]
  BY <1>1 DEF Store
<1>3. UniqueKeys(up.objs)
  BY <1>1, <1>2 DEF UniqueKeys, StoreOK, KeyUsed
<1>4. ASSUME NEW x \in Id, up.objs[x] # Absent
      PROVE  x[2] < up.next[x[1]]
  <2>1. x[1] \in Index /\ x[2] \in Nat /\ s.next[x[1]] \in Nat
    BY InstancesAssumption DEF Id, Store, Instance
  <2>2. CASE x = id
    BY <1>1, <1>2, <2>1, <2>2
  <2>3. CASE x # id
    <3>1. x[2] < s.next[x[1]]
      BY <1>2, <1>4, <2>3 DEF StoreOK
    <3> QED BY <1>1, <1>2, <2>1, <3>1
  <2> QED BY <2>2, <2>3
<1> QED BY <1>3, <1>4 DEF StoreOK

\* Replacing an object by one with its key, or by nothing, keeps a store sound.
LEMMA StoreOKPut ==
  ASSUME NEW s \in Store, StoreOK(s), NEW id \in Id, s.objs[id] # Absent,
         NEW e, e = Absent \/ e.key = s.objs[id].key
  PROVE  StoreOK(Put(s, id, e))
<1>1. /\ \A x \in Id : Put(s, id, e).objs[x] = IF x = id THEN e ELSE s.objs[x]
      /\ Put(s, id, e).next = s.next
  BY DEF Put, Store
<1>2. UniqueKeys(Put(s, id, e).objs)
  BY <1>1 DEF UniqueKeys, StoreOK
<1> QED BY <1>1, <1>2 DEF StoreOK

-----------------------------------------------------------------------------
(***************************************************************************)
(* The inductive invariant.                                                *)
(***************************************************************************)

Inv == TypeOK /\ LogLinked /\ SecondaryIndexLive

\* The inductive invariant in the vocabulary of Linked.
LEMMA InvLinked ==
  ASSUME TypeOK, LogLinked
  PROVE  Linked(cur, stack, snaps)
BY DEF TypeOK, LogLinked, Linked, Above

\* The converse, for the next state.
LEMMA LinkedInv ==
  ASSUME Linked(cur, stack, snaps)', sessions' \in Seq(BOOLEAN),
         disabled' \in BOOLEAN, max_size' \in MaxSizes,
         sindex' \in SUBSET Id, SessionsBacked', DisabledOK',
         SecondaryIndexLive'
  PROVE  Inv'
BY DEF TypeOK, LogLinked, Linked, Above, Inv

\* The empty store with an empty undo log satisfies the inductive invariant.
LEMMA InvInit == Init => Inv
<1> SUFFICES ASSUME Init PROVE Inv
  OBVIOUS
<1>1. TypeOK
  <2>1. cur \in Store
    BY InstancesAssumption DEF Init, Store, Entry, Instance
  <2>2. /\ stack \in Seq(UndoState) /\ snaps \in Seq(Store)
        /\ sessions \in Seq(BOOLEAN) /\ Len(snaps) = Len(stack)
    BY DEF Init
  <2> QED BY <2>1, <2>2 DEF Init, TypeOK
<1>2. StoreOK(cur)
  BY DEF Init, StoreOK, UniqueKeys
<1> QED BY <1>1, <1>2 DEF Init, Inv, LogLinked, SessionsBacked, DisabledOK,
                          active_sessions, SecondaryIndexLive

\* A change of the store that the hooks record, whatever the change is.
LEMMA RecordLinked ==
  ASSUME Inv, NEW st, NEW d \in Store, StoreOK(d), cur' = d, Record(st),
         ~disabled => /\ st \in UndoState
                      /\ \A lo \in Store :
                           StoreOK(lo) /\ Link(Recording, lo, cur)
                             => Link(st, lo, d)
  PROVE  /\ Linked(cur, stack, snaps)'
         /\ Len(stack') >= Len(stack)
         /\ disabled => stack' = <<>>
         /\ Len(stack) > 0 => Len(stack') = Len(stack)
<1>0. Linked(cur, stack, snaps) /\ StoreOK(cur) /\ cur \in Store
  BY InvLinked DEF Inv, LogLinked, TypeOK
<1>1. CASE disabled
  <2>1. stack = <<>> /\ stack' = stack /\ snaps' = snaps
    BY <1>1 DEF Inv, LogLinked, DisabledOK, Record
  <2>2. Len(stack) = 0 /\ Len(snaps) = 0
    BY <1>0, <2>1 DEF Linked
  <2> QED BY <1>0, <1>1, <2>1, <2>2 DEF Linked
<1>2. CASE ~disabled /\ stack = <<>>
  <2>1. Front(stack) = <<>>
    BY <1>2, SubSeqEmpty DEF Front
  <2>2. stack' = <<st>> /\ snaps' = <<cur>>
    BY <1>2, <2>1 DEF Record
  <2>3. Link(st, cur, d) /\ st \in UndoState
    BY <1>0, <1>2, LinkEmpty DEF Recording
  <2> QED BY <1>0, <1>2, <2>2, <2>3 DEF Linked
<1>3. CASE ~disabled /\ stack # <<>>
  <2>1. stack' = Append(Front(stack), st) /\ snaps' = snaps
    BY <1>3 DEF Record
  <2>2. Link(Back(stack), snaps[Len(stack)], cur)
        /\ snaps[Len(stack)] \in Store /\ StoreOK(snaps[Len(stack)])
    BY <1>0, <1>3 DEF Linked, Back
  <2>3. Link(st, snaps[Len(stack)], d) /\ st \in UndoState
    BY <1>3, <2>2 DEF Recording
  <2>4. Linked(d, Append(Front(stack), st), snaps)
    BY <1>0, <1>3, <2>3, LinkedTop
  <2>5. Linked(cur, stack, snaps)'
    BY <2>1, <2>4
  <2>6. Len(stack') = Len(stack)
    BY <1>0, <2>1, <2>5 DEF Linked
  <2> QED BY <1>0, <1>3, <2>5, <2>6 DEF Linked
<1> QED BY <1>1, <1>2, <1>3

\* A recorded change leaves the sessions and the enabling of the log alone.
LEMMA RecordSessions ==
  ASSUME Inv, disabled' = disabled, sessions' = sessions,
         stack' \in Seq(UndoState), Len(stack') >= Len(stack),
         disabled => stack' = <<>>,
         Len(stack) > 0 => Len(stack') = Len(stack)
  PROVE  SessionsBacked' /\ DisabledOK'
<1>1. /\ Len(stack) \in Nat /\ Len(sessions) \in Nat /\ Len(stack') \in Nat
      /\ Len(sessions) <= Len(stack)
  BY DEF Inv, TypeOK, LogLinked, SessionsBacked, active_sessions
<1>2. SessionsBacked'
  BY <1>1 DEF SessionsBacked, active_sessions
<1>3. ASSUME NEW k \in 1 .. Len(sessions), sessions[k]
      PROVE  k = 1 /\ Len(stack') = Len(sessions)
  <2>1. k = 1 /\ Len(stack) = Len(sessions)
    BY <1>3 DEF Inv, LogLinked, DisabledOK
  <2> QED BY <1>1, <2>1
<1> QED BY <1>2, <1>3 DEF DisabledOK

\* object_database::create preserves the inductive invariant.
LEMMA InvCreate ==
  ASSUME Inv, NEW i \in Index, NEW obj \in Object, create(i, obj)
  PROVE  Inv'
<1> DEFINE id == <<i, cur.next[i]>>
           up == [objs |-> [cur.objs EXCEPT ![id] = obj],
                  next |-> [cur.next EXCEPT ![i] = @ + 1]]
           st == on_create(Recording, id)
<1>1. /\ cur \in Store /\ StoreOK(cur) /\ cur' = up /\ Record(st)
      /\ cur.next[i] < MaxInstances /\ ~KeyUsed(cur.objs, i, obj.key)
      /\ sindex' = sindex \cup {id}
      /\ disabled' = disabled /\ sessions' = sessions /\ max_size' = max_size
  BY DEF create, Inv, TypeOK, LogLinked
<1>2. StoreOK(up)
  BY <1>1, StoreOKCreate
<1>3. Linked(cur, stack, snaps)
  BY InvLinked DEF Inv
<1>4. Recording \in UndoState
  BY <1>1, <1>3, LinkEmpty DEF Recording, Linked, Back
<1>5. /\ id \in Id /\ up \in Store /\ st \in UndoState
      /\ \A lo \in Store : StoreOK(lo) /\ Link(Recording, lo, cur)
                             => Link(st, lo, up)
  <2>1. id \in Id /\ up \in Store
    BY <1>1, InstancesAssumption DEF Id, Store, Instance, Entry
  <2>2. st \in UndoState
    BY <1>1, <1>4, <2>1, InstancesAssumption DEF on_create, UndoState, Id,
                                                 Store, Instance
  <2>3. ASSUME NEW lo \in Store, StoreOK(lo), Link(Recording, lo, cur)
        PROVE  Link(st, lo, up)
    BY <1>1, <1>4, <2>3, LinkCreate
  <2> QED BY <2>1, <2>2, <2>3
<1>6. /\ Linked(cur, stack, snaps)'
      /\ Len(stack') >= Len(stack)
      /\ disabled => stack' = <<>>
      /\ Len(stack) > 0 => Len(stack') = Len(stack)
  <2> HIDE DEF up, st
  <2> QED BY <1>1, <1>2, <1>5, RecordLinked
<1>7. SessionsBacked' /\ DisabledOK'
  BY <1>1, <1>6, RecordSessions DEF Linked
<1>8. SecondaryIndexLive' /\ sindex' \in SUBSET Id
  <2>1. \A x \in Id : cur'.objs[x] = IF x = id THEN obj ELSE cur.objs[x]
    BY <1>1, <1>5 DEF Store
  <2> HIDE DEF id
  <2> QED BY <1>1, <1>5, <2>1, AbsentAssumption
          DEF SecondaryIndexLive, Inv, TypeOK
<1> QED BY <1>1, <1>6, <1>7, <1>8, LinkedInv DEF Inv, TypeOK

\* object_database::modify preserves the inductive invariant.
LEMMA InvModify ==
  ASSUME Inv, NEW id \in Id, NEW d \in Data, modify(id, d)
  PROVE  Inv'
<1> DEFINE obj == [key |-> cur.objs[id].key, data |-> d]
           up == Put(cur, id, obj)
           st == on_modify(Recording, id, cur.objs[id])
<1>1. /\ cur \in Store /\ StoreOK(cur) /\ cur' = up /\ Record(st)
      /\ cur.objs[id] # Absent /\ sindex' = sindex
      /\ disabled' = disabled /\ sessions' = sessions /\ max_size' = max_size
  BY DEF modify, Inv, TypeOK, LogLinked
<1>2. StoreOK(up)
  <2>1. obj.key = cur.objs[id].key
    OBVIOUS
  <2> HIDE DEF obj
  <2> QED BY <1>1, <2>1, StoreOKPut
<1>3. Linked(cur, stack, snaps)
  BY InvLinked DEF Inv
<1>4. Recording \in UndoState
  BY <1>1, <1>3, LinkEmpty DEF Recording, Linked, Back
<1>5. /\ up \in Store /\ st \in UndoState
      /\ \A lo \in Store : StoreOK(lo) /\ Link(Recording, lo, cur)
                             => Link(st, lo, up)
  <2>1. cur.objs[id] \in Object /\ obj \in Object /\ obj # Absent
    BY <1>1, AbsentAssumption DEF Store, Entry, Object
  <2>2. up \in Store /\ st \in UndoState
    BY <1>1, <1>4, <2>1 DEF Put, Store, Entry, on_modify, UndoState
  <2>3. ASSUME NEW lo \in Store, StoreOK(lo), Link(Recording, lo, cur)
        PROVE  Link(st, lo, up)
    BY <1>1, <1>4, <2>3, LinkModify
  <2> QED BY <2>2, <2>3
<1>6. /\ Linked(cur, stack, snaps)'
      /\ Len(stack') >= Len(stack)
      /\ disabled => stack' = <<>>
      /\ Len(stack) > 0 => Len(stack') = Len(stack)
  <2> HIDE DEF up, st
  <2> QED BY <1>1, <1>2, <1>5, RecordLinked
<1>7. SessionsBacked' /\ DisabledOK'
  BY <1>1, <1>6, RecordSessions DEF Linked
<1>8. SecondaryIndexLive' /\ sindex' \in SUBSET Id
  <2>1. obj # Absent
    BY <1>1, AbsentAssumption DEF Store, Entry, Object
  <2>2. \A x \in Id : cur'.objs[x] = IF x = id THEN obj ELSE cur.objs[x]
    BY <1>1 DEF Put, Store
  <2> QED BY <1>1, <2>1, <2>2 DEF SecondaryIndexLive, Inv, TypeOK
<1> QED BY <1>1, <1>6, <1>7, <1>8, LinkedInv DEF Inv, TypeOK

\* object_database::remove preserves the inductive invariant.
LEMMA InvRemove ==
  ASSUME Inv, NEW id \in Id, remove(id)
  PROVE  Inv'
<1> DEFINE up == Put(cur, id, Absent)
           st == on_remove(Recording, id, cur.objs[id])
<1>1. /\ cur \in Store /\ StoreOK(cur) /\ cur' = up /\ Record(st)
      /\ cur.objs[id] # Absent /\ sindex' = sindex \ {id}
      /\ disabled' = disabled /\ sessions' = sessions /\ max_size' = max_size
  BY DEF remove, Inv, TypeOK, LogLinked
<1>2. StoreOK(up)
  BY <1>1, StoreOKPut
<1>3. Linked(cur, stack, snaps)
  BY InvLinked DEF Inv
<1>4. Recording \in UndoState
  BY <1>1, <1>3, LinkEmpty DEF Recording, Linked, Back
<1>5. /\ up \in Store /\ st \in UndoState
      /\ \A lo \in Store : StoreOK(lo) /\ Link(Recording, lo, cur)
                             => Link(st, lo, up)
  <2>1. up \in Store
    BY <1>1 DEF Put, Store, Entry
  <2>2. st \in UndoState
    <3>1. CASE id \in Recording.new_ids
      BY <1>4, <3>1 DEF on_remove, UndoState
    <3>2. CASE id \notin Recording.new_ids /\ Recording.old_values[id] # Absent
      BY <1>4, <3>2 DEF on_remove, UndoState, Entry
    <3>3. CASE id \notin Recording.new_ids /\ Recording.old_values[id] = Absent
      BY <1>1, <1>4, <3>3 DEF on_remove, UndoState, Store, Entry
    <3> QED BY <3>1, <3>2, <3>3
  <2>3. ASSUME NEW lo \in Store, StoreOK(lo), Link(Recording, lo, cur)
        PROVE  Link(st, lo, up)
    BY <1>1, <1>4, <2>3, LinkRemove
  <2> QED BY <2>1, <2>2, <2>3
<1>6. /\ Linked(cur, stack, snaps)'
      /\ Len(stack') >= Len(stack)
      /\ disabled => stack' = <<>>
      /\ Len(stack) > 0 => Len(stack') = Len(stack)
  <2> HIDE DEF up, st
  <2> QED BY <1>1, <1>2, <1>5, RecordLinked
<1>7. SessionsBacked' /\ DisabledOK'
  BY <1>1, <1>6, RecordSessions DEF Linked
<1>8. SecondaryIndexLive' /\ sindex' \in SUBSET Id
  <2>1. \A x \in Id : cur'.objs[x] = IF x = id THEN Absent ELSE cur.objs[x]
    BY <1>1 DEF Put, Store
  <2> QED BY <1>1, <2>1 DEF SecondaryIndexLive, Inv, TypeOK
<1> QED BY <1>1, <1>6, <1>7, <1>8, LinkedInv DEF Inv, TypeOK

\* pop_front in start_undo_session leaves the newest undo states, and one for
\* every live session.
LEMMA TrimFacts ==
  ASSUME Inv, Len(sessions) < MaxNesting
  PROVE  /\ Linked(cur, Trim(stack), Trim(snaps))
         /\ Len(Trim(stack)) \in Nat /\ Len(sessions) <= Len(Trim(stack))
         /\ Len(stack) = Len(sessions) => Trim(stack) = stack
<1>1. Linked(cur, stack, snaps)
  BY InvLinked DEF Inv
<1>2. /\ max_size \in Nat /\ MaxNesting \in Nat /\ MaxNesting <= max_size + 1
      /\ Len(sessions) \in Nat /\ Len(sessions) <= Len(stack)
      /\ Len(stack) \in Nat /\ Len(snaps) = Len(stack)
      /\ stack \in Seq(UndoState)
  BY SizesAssumption DEF Inv, TypeOK, LogLinked, SessionsBacked,
                         active_sessions
<1>3. CASE Len(stack) > max_size
  <2>1. /\ Trim(stack) = Newest(stack, max_size)
        /\ Trim(snaps) = Newest(snaps, max_size)
        /\ max_size \in 0 .. Len(stack)
    BY <1>2, <1>3 DEF Trim
  <2>2. Linked(cur, Trim(stack), Trim(snaps)) /\ Len(Trim(stack)) = max_size
    BY <1>1, <1>2, <2>1, LinkedTrim, NewestFacts
  <2> QED BY <1>2, <1>3, <2>2
<1>4. CASE ~(Len(stack) > max_size)
  BY <1>1, <1>2, <1>4 DEF Trim
<1> QED BY <1>3, <1>4

\* start_undo_session preserves the inductive invariant.
LEMMA InvStart ==
  ASSUME Inv, NEW force_enable \in BOOLEAN, start_undo_session(force_enable)
  PROVE  Inv'
<1>1. /\ Len(sessions) < MaxNesting
      /\ stack' = Append(Trim(stack), EmptyState)
      /\ snaps' = Append(Trim(snaps), cur)
      /\ sessions' = Append(sessions, disabled)
      /\ disabled' = FALSE /\ cur' = cur /\ max_size' = max_size
      /\ sindex' = sindex
  BY DEF start_undo_session, active_sessions
<1>2. /\ Linked(cur, Trim(stack), Trim(snaps))
      /\ Len(Trim(stack)) \in Nat /\ Len(sessions) <= Len(Trim(stack))
      /\ Len(stack) = Len(sessions) => Trim(stack) = stack
  BY <1>1, TrimFacts
<1>3. Linked(cur, stack, snaps)'
  BY <1>1, <1>2, LinkedPush
<1>4. /\ sessions \in Seq(BOOLEAN) /\ disabled \in BOOLEAN
      /\ Len(sessions) \in Nat /\ Len(stack) \in Nat
      /\ Len(sessions) <= Len(stack)
  BY DEF Inv, TypeOK, LogLinked, SessionsBacked, active_sessions
<1>5. /\ sessions' \in Seq(BOOLEAN)
      /\ Len(sessions') = Len(sessions) + 1
      /\ \A k \in 1 .. Len(sessions) : sessions'[k] = sessions[k]
      /\ sessions'[Len(sessions) + 1] = disabled
  BY <1>1, <1>4
<1>6. Len(stack') = Len(Trim(stack)) + 1
  BY <1>1, <1>2 DEF Linked
<1>7. SessionsBacked'
  BY <1>2, <1>4, <1>5, <1>6 DEF SessionsBacked, active_sessions
<1>8. ASSUME NEW k \in 1 .. Len(sessions'), sessions'[k]
      PROVE  k = 1 /\ Len(stack') = Len(sessions')
  <2>1. CASE k \in 1 .. Len(sessions)
    <3>1. k = 1 /\ Len(stack) = Len(sessions)
      BY <1>5, <1>8, <2>1 DEF Inv, LogLinked, DisabledOK
    <3> QED BY <1>2, <1>4, <1>5, <1>6, <3>1
  <2>2. CASE k = Len(sessions) + 1
    <3>1. disabled
      BY <1>5, <1>8, <2>2
    <3>2. stack = <<>>
      BY <3>1 DEF Inv, LogLinked, DisabledOK
    <3>3. Len(stack) = 0 /\ Len(sessions) = 0
      BY <1>4, <3>2
    <3> QED BY <1>2, <1>5, <1>6, <2>2, <3>3
  <2> QED BY <1>4, <1>5, <2>1, <2>2
<1>9. DisabledOK'
  BY <1>1, <1>8 DEF DisabledOK
<1>10. SecondaryIndexLive' /\ sindex' \in SUBSET Id
  BY <1>1 DEF SecondaryIndexLive, Inv, TypeOK
<1> QED BY <1>1, <1>3, <1>5, <1>7, <1>9, <1>10, LinkedInv DEF Inv, TypeOK

\* The end of a session whose undo state leaves the log: undo and merge.
LEMMA EndSession ==
  ASSUME Inv, Len(sessions) > 0, sessions' = Front(sessions),
         disabled' = Back(sessions), stack' \in Seq(UndoState),
         Len(stack') = Len(stack) - 1
  PROVE  /\ sessions' \in Seq(BOOLEAN) /\ disabled' \in BOOLEAN
         /\ SessionsBacked' /\ DisabledOK'
<1>1. /\ sessions \in Seq(BOOLEAN) /\ sessions # <<>>
      /\ Len(sessions) \in Nat /\ Len(stack) \in Nat
      /\ Len(sessions) <= Len(stack)
  BY DEF Inv, TypeOK, LogLinked, SessionsBacked, active_sessions
<1>2. /\ sessions' \in Seq(BOOLEAN) /\ Len(sessions') = Len(sessions) - 1
      /\ \A k \in 1 .. Len(sessions) - 1 : sessions'[k] = sessions[k]
      /\ disabled' \in BOOLEAN
  BY <1>1, FrontFacts
<1>3. SessionsBacked'
  BY <1>1, <1>2 DEF SessionsBacked, active_sessions
<1>4. ASSUME disabled'
      PROVE  stack' = <<>>
  <2>1. sessions[Len(sessions)]
    BY <1>4 DEF Back
  <2>2. Len(sessions) \in 1 .. Len(sessions)
    BY <1>1
  <2>3. Len(sessions) = 1 /\ Len(stack) = Len(sessions)
    BY <2>1, <2>2 DEF Inv, LogLinked, DisabledOK
  <2> QED BY <2>3
<1>5. ASSUME NEW k \in 1 .. Len(sessions'), sessions'[k]
      PROVE  k = 1 /\ Len(stack') = Len(sessions')
  <2>1. k \in 1 .. Len(sessions) /\ sessions[k]
    BY <1>1, <1>2, <1>5
  <2>2. k = 1 /\ Len(stack) = Len(sessions)
    BY <2>1 DEF Inv, LogLinked, DisabledOK
  <2> QED BY <1>2, <2>2
<1> QED BY <1>2, <1>3, <1>4, <1>5 DEF DisabledOK

\* Rolling back unlists every object it removes from the secondary index.
LEMMA RollbackIndex ==
  ASSUME Inv, stack # <<>>, cur' = Back(snaps),
         sindex' = UnlistNew(Back(stack), sindex)
  PROVE  SecondaryIndexLive' /\ sindex' \in SUBSET Id
<1>1. Link(Back(stack), Back(snaps), cur)
  BY InvLinked DEF Inv, Linked, Back
<1> QED BY <1>1 DEF SecondaryIndexLive, UnlistNew, Inv, TypeOK, Link

\* undo() preserves the inductive invariant and restores the newest snapshot.
LEMMA InvUndo ==
  ASSUME Inv, undo
  PROVE  Inv' /\ stack # <<>> /\ cur' = Back(snaps)
<1>1. /\ Linked(cur, stack, snaps)
      /\ Len(sessions) > 0 /\ Len(sessions) <= Len(stack)
      /\ Len(sessions) \in Nat /\ Len(stack) \in Nat
  BY InvLinked DEF Inv, undo, TypeOK, LogLinked, SessionsBacked,
                   active_sessions
<1>2. stack # <<>>
  BY <1>1
<1>3. cur' = Back(snaps) /\ Linked(cur, stack, snaps)'
  BY <1>1, <1>2, LinkedPop DEF undo
<1>4. stack' \in Seq(UndoState) /\ Len(stack') = Len(stack) - 1
  BY <1>1, <1>2, FrontFacts DEF undo, Linked
<1>5. /\ sessions' \in Seq(BOOLEAN) /\ disabled' \in BOOLEAN
      /\ SessionsBacked' /\ DisabledOK'
  BY <1>1, <1>4, EndSession DEF undo
<1>6. SecondaryIndexLive' /\ sindex' \in SUBSET Id
  BY <1>2, <1>3, RollbackIndex DEF undo
<1>7. max_size' \in MaxSizes
  BY DEF undo, Inv, TypeOK
<1> QED BY <1>2, <1>3, <1>5, <1>6, <1>7, LinkedInv

\* merge() preserves the inductive invariant.
LEMMA InvMerge ==
  ASSUME Inv, merge
  PROVE  Inv' /\ stack # <<>>
<1>1. /\ Linked(cur, stack, snaps)
      /\ Len(sessions) > 0 /\ Len(sessions) <= Len(stack)
      /\ Len(sessions) \in Nat /\ Len(stack) \in Nat
      /\ sessions \in Seq(BOOLEAN) /\ disabled \in BOOLEAN
  BY InvLinked DEF Inv, merge, TypeOK, LogLinked, SessionsBacked,
                   active_sessions
<1>2. stack # <<>>
  BY <1>1
<1>3. disabled' = Back(sessions)
  <2>1. ~disabled
    BY <1>2 DEF Inv, LogLinked, DisabledOK
  <2>2. Back(sessions) \in BOOLEAN
    BY <1>1 DEF Back
  <2> QED BY <2>1, <2>2 DEF merge
<1>4. cur' = cur /\ snaps' = Front(snaps) /\ max_size' = max_size
      /\ sindex' = sindex /\ sessions' = Front(sessions)
  BY DEF merge
<1>5. /\ Linked(cur, stack, snaps)'
      /\ stack' \in Seq(UndoState) /\ Len(stack') = Len(stack) - 1
  <2>1. CASE Len(sessions) = 1 /\ Len(stack) = 1
    <3>1. stack' = Front(stack)
      BY <2>1 DEF merge, active_sessions
    <3>2. /\ Front(stack) \in Seq(UndoState) /\ Len(Front(stack)) = 0
          /\ Front(snaps) \in Seq(Store) /\ Len(Front(snaps)) = 0
      <4>1. /\ stack \in Seq(UndoState) /\ snaps \in Seq(Store)
            /\ Len(snaps) = 1
        BY <1>1, <2>1 DEF Linked
      <4>2. snaps # <<>>
        <5>1. Len(snaps) # 0
          BY <4>1
        <5> QED BY ONLY <5>1
      <4>3. Front(stack) \in Seq(UndoState) /\ Len(Front(stack)) = Len(stack) - 1
        BY <1>2, <4>1, FrontFacts
      <4>4. Front(snaps) \in Seq(Store) /\ Len(Front(snaps)) = Len(snaps) - 1
        BY <4>1, <4>2, FrontFacts
      <4> QED BY <2>1, <4>1, <4>3, <4>4
    <3> QED BY <1>1, <1>4, <2>1, <3>1, <3>2 DEF Linked
  <2>2. CASE ~(Len(sessions) = 1 /\ Len(stack) = 1)
    <3> DEFINE m == Append(Front(Front(stack)),
                           merged(Back(Front(stack)), Back(stack)))
    <3>1. Len(stack) >= 2 /\ stack' = m
      BY <2>2 DEF merge, active_sessions
    <3>2. Linked(cur, m, Front(snaps))
      BY <1>1, <3>1, LinkedMerge
    <3> HIDE DEF m
    <3>3. Linked(cur, stack, snaps)'
      BY <1>4, <3>1, <3>2
    <3>4. Len(Front(snaps)) = Len(stack) - 1
      BY <1>1, <1>2, FrontFacts DEF Linked
    <3> QED BY <1>4, <3>3, <3>4 DEF Linked
  <2> QED BY <2>1, <2>2
<1>6. /\ sessions' \in Seq(BOOLEAN) /\ disabled' \in BOOLEAN
      /\ SessionsBacked' /\ DisabledOK'
  BY <1>1, <1>3, <1>4, <1>5, EndSession
<1>7. SecondaryIndexLive' /\ sindex' \in SUBSET Id /\ max_size' \in MaxSizes
  BY <1>4 DEF SecondaryIndexLive, Inv, TypeOK
<1> QED BY <1>2, <1>5, <1>6, <1>7, LinkedInv

\* pop_commit() preserves the inductive invariant and restores the newest
\* snapshot.
LEMMA InvPopCommit ==
  ASSUME Inv, pop_commit
  PROVE  Inv' /\ cur' = Back(snaps)
<1>1. /\ Linked(cur, stack, snaps) /\ stack # <<>>
      /\ sessions' = sessions /\ sessions \in Seq(BOOLEAN)
      /\ Len(sessions) = 0 /\ disabled' = FALSE /\ max_size' = max_size
  BY InvLinked DEF Inv, pop_commit, TypeOK, active_sessions
<1>2. cur' = Back(snaps) /\ Linked(cur, stack, snaps)'
  BY <1>1, LinkedPop DEF pop_commit
<1>3. SessionsBacked' /\ DisabledOK'
  BY <1>1, <1>2 DEF SessionsBacked, DisabledOK, active_sessions, Linked
<1>4. SecondaryIndexLive' /\ sindex' \in SUBSET Id
  BY <1>1, <1>2, RollbackIndex DEF pop_commit
<1> QED BY <1>1, <1>2, <1>3, <1>4, LinkedInv DEF Inv, TypeOK

\* commit, disable, enable and set_max_size leave the store and the log alone.
LEMMA InvRest ==
  ASSUME Inv,
         \/ commit \/ disable \/ enable \/ UNCHANGED vars
         \/ \E n \in MaxSizes : set_max_size(n)
  PROVE  Inv'
<1>1. /\ cur' = cur /\ stack' = stack /\ snaps' = snaps /\ sindex' = sindex
      /\ max_size' \in MaxSizes
  BY DEF commit, disable, enable, set_max_size, vars, Inv, TypeOK
<1>2. Linked(cur, stack, snaps)'
  BY <1>1, InvLinked DEF Inv
<1>3. SecondaryIndexLive' /\ sindex' \in SUBSET Id
  BY <1>1 DEF SecondaryIndexLive, Inv, TypeOK
<1>4. /\ sessions \in Seq(BOOLEAN) /\ disabled \in BOOLEAN
      /\ Len(stack) \in Nat /\ Len(sessions) \in Nat
      /\ Len(sessions) <= Len(stack)
  BY DEF Inv, TypeOK, LogLinked, SessionsBacked, active_sessions
<1>5. CASE commit
  <2>1. sessions' = <<>> /\ disabled' = disabled
    BY <1>5 DEF commit
  <2>2. SessionsBacked'
    BY <1>1, <1>4, <2>1 DEF SessionsBacked, active_sessions
  <2>3. DisabledOK'
    BY <1>1, <2>1 DEF DisabledOK, Inv, LogLinked
  <2> QED BY <1>1, <1>2, <1>3, <1>4, <2>1, <2>2, <2>3, LinkedInv
<1>6. CASE disable \/ enable
  <2>1. stack = <<>> /\ sessions' = sessions /\ disabled' \in BOOLEAN
    BY <1>6 DEF disable, enable
  <2>2. Len(stack) = 0 /\ Len(sessions) = 0
    BY <1>4, <2>1
  <2>3. SessionsBacked' /\ DisabledOK'
    BY <1>1, <2>1, <2>2 DEF SessionsBacked, DisabledOK, active_sessions
  <2> QED BY <1>1, <1>2, <1>3, <1>4, <2>1, <2>3, LinkedInv
<1>7. CASE UNCHANGED vars \/ \E n \in MaxSizes : set_max_size(n)
  <2>1. sessions' = sessions /\ disabled' = disabled
    BY <1>7 DEF vars, set_max_size
  <2>2. SessionsBacked' /\ DisabledOK'
    BY <1>1, <2>1 DEF SessionsBacked, DisabledOK, active_sessions, Inv,
                      LogLinked
  <2> QED BY <1>1, <1>2, <1>3, <1>4, <2>1, <2>2, LinkedInv
<1> QED BY <1>5, <1>6, <1>7

\* Every step of the object store preserves the inductive invariant.
LEMMA InvNext == Inv /\ [Next]_vars => Inv'
<1> SUFFICES ASSUME Inv, [Next]_vars PROVE Inv'
  OBVIOUS
<1>1. CASE \E i \in Index, obj \in Object : create(i, obj)
  BY <1>1, InvCreate
<1>2. CASE \E id \in Id, d \in Data : modify(id, d)
  BY <1>2, InvModify
<1>3. CASE \E id \in Id : remove(id)
  BY <1>3, InvRemove
<1>4. CASE \E force_enable \in BOOLEAN : start_undo_session(force_enable)
  BY <1>4, InvStart
<1>5. CASE undo
  BY <1>5, InvUndo
<1>6. CASE merge
  BY <1>6, InvMerge
<1>7. CASE pop_commit
  BY <1>7, InvPopCommit
<1>8. CASE \/ commit \/ disable \/ enable \/ UNCHANGED vars
           \/ \E n \in MaxSizes : set_max_size(n)
  BY <1>8, InvRest
<1> QED BY <1>1, <1>2, <1>3, <1>4, <1>5, <1>6, <1>7, <1>8 DEF Next

\* The inductive invariant holds in every reachable state of the object store.
THEOREM InvAlways == Spec => []Inv
BY InvInit, InvNext, PTL DEF Spec

-----------------------------------------------------------------------------
(***************************************************************************)
(* What follows.                                                           *)
(***************************************************************************)

\* Every undo state on the log links the store it was opened in to the store
\* above it (on_create, on_modify, on_remove, merge).
THEOREM LogIsLinked == Spec => []LogLinked
BY InvAlways, PTL DEF Inv

\* Every variable of the object store and its undo log keeps its type.
THEOREM TypeCorrect == Spec => []TypeOK
<1>1. Inv => TypeOK
  BY DEF Inv
<1> QED BY <1>1, InvAlways, PTL

\* rollback_state gives back exactly the store in which an undo state was
\* opened, at every depth of the log.
THEOREM RollbackIsExact == Spec => []RollbackExact
<1>1. ASSUME Inv
      PROVE  RollbackExact
  <2>1. Linked(cur, stack, snaps)
    BY <1>1, InvLinked DEF Inv
  <2> SUFFICES ASSUME NEW k \in 1 .. Len(stack)
               PROVE  rollback_state(stack[k], Above(k)) = snaps[k]
    BY DEF RollbackExact
  <2>2. /\ Link(stack[k], snaps[k], Above(k))
        /\ stack[k] \in UndoState /\ snaps[k] \in Store /\ Above(k) \in Store
    BY <2>1 DEF Linked, Above
  <2> QED BY <2>2, LinkRollback
<1> QED BY <1>1, InvAlways, PTL

\* No assertion inside rollback_state ever fails: the objects it modifies or
\* removes exist, those it inserts do not, and unique keys never clash.
THEOREM RollbackIsLegal == Spec => []RollbackNeverThrows
<1>1. ASSUME Inv
      PROVE  RollbackNeverThrows
  <2>1. Linked(cur, stack, snaps)
    BY <1>1, InvLinked DEF Inv
  <2> SUFFICES ASSUME NEW k \in 1 .. Len(stack)
               PROVE  RollbackLegal(stack[k], Above(k))
    BY DEF RollbackNeverThrows
  <2>2. /\ Link(stack[k], snaps[k], Above(k))
        /\ stack[k] \in UndoState /\ snaps[k] \in Store /\ Above(k) \in Store
        /\ StoreOK(snaps[k]) /\ StoreOK(Above(k))
    BY <2>1 DEF Linked, Above
  <2> QED BY <2>2, LinkLegal
<1> QED BY <1>1, InvAlways, PTL

\* The cells of the table in merge() marked N/A are unreachable.
THEOREM MergeIsCausal == Spec => []MergeCausal
<1>1. ASSUME Inv
      PROVE  MergeCausal
  <2>1. Linked(cur, stack, snaps)
    BY <1>1, InvLinked DEF Inv
  <2>2. ASSUME NEW k \in 1 .. Len(stack) - 1
        PROVE  /\ Link(stack[k], snaps[k], snaps[k + 1])
               /\ Link(stack[k + 1], snaps[k + 1], Above(k + 1))
               /\ stack[k] \in UndoState /\ stack[k + 1] \in UndoState
               /\ snaps[k] \in Store /\ snaps[k + 1] \in Store
               /\ Above(k + 1) \in Store /\ StoreOK(snaps[k])
    <3>1. k \in 1 .. Len(stack) /\ k + 1 \in 1 .. Len(stack) /\ k # Len(stack)
      BY <2>1 DEF Linked
    <3> QED BY <2>1, <3>1 DEF Linked, Above
  <2> QED BY <2>2, LinkCausal DEF MergeCausal
<1> QED BY <1>1, InvAlways, PTL

\* A live session always has its own undo state on the deque.
THEOREM SessionsAreBacked == Spec => []SessionsBacked
<1>1. Inv => SessionsBacked
  BY DEF Inv, LogLinked
<1> QED BY <1>1, InvAlways, PTL

\* A secondary index never lists an object that is gone.
THEOREM SecondaryIndexIsLive == Spec => []SecondaryIndexLive
<1>1. Inv => SecondaryIndexLive
  BY DEF Inv
<1> QED BY <1>1, InvAlways, PTL

-----------------------------------------------------------------------------
(***************************************************************************)
(* The undo log implements a stack of snapshots.                           *)
(***************************************************************************)

\* An empty undo log maps to an empty stack of snapshots.
LEMMA RefineInit == Init => Snapshots!Init
BY InvInit DEF Inv, TypeOK, Init, Snapshots!Init, active_sessions

\* A recorded (or unrecorded) change of the store is a change of the abstract
\* store, with at most one snapshot taken before it.
LEMMA RefineChange ==
  ASSUME Inv', NEW st, Record(st), sessions' = sessions, Inv
  PROVE  Snapshots!Next
<1>1. cur' \in Store
  BY DEF Inv, TypeOK
<1>2. snaps' = snaps \/ (snaps = <<>> /\ snaps' = <<cur>>)
  <2>1. stack = <<>> => snaps = <<>>
    BY DEF Inv, TypeOK
  <2> QED BY <2>1 DEF Record
<1> QED BY <1>1, <1>2 DEF Snapshots!Next, Snapshots!Change, active_sessions

\* Every step of the undo log maps to a step of the snapshot stack or to none.
LEMMA RefineNext == Inv /\ Inv' /\ [Next]_vars => [Snapshots!Next]_(Snapshots!vars)
<1> SUFFICES ASSUME Inv, Inv', [Next]_vars
             PROVE  Snapshots!Next \/ UNCHANGED Snapshots!vars
  OBVIOUS
<1>0. /\ stack \in Seq(UndoState) /\ snaps \in Seq(Store)
      /\ Len(snaps) = Len(stack) /\ Len(stack) \in Nat
      /\ sessions \in Seq(BOOLEAN) /\ Len(sessions) \in Nat
      /\ Len(sessions) <= Len(stack)
  BY DEF Inv, TypeOK, LogLinked, SessionsBacked, active_sessions
<1>1. CASE \E i \in Index, obj \in Object : create(i, obj)
  BY <1>1, RefineChange DEF create
<1>2. CASE \E id \in Id, d \in Data : modify(id, d)
  BY <1>2, RefineChange DEF modify
<1>3. CASE \E id \in Id : remove(id)
  BY <1>3, RefineChange DEF remove
<1>4. CASE \E force_enable \in BOOLEAN : start_undo_session(force_enable)
  <2>1. /\ Len(sessions) < MaxNesting
        /\ snaps' = Append(Trim(snaps), cur)
        /\ sessions' = Append(sessions, disabled)
        /\ cur' = cur
    BY <1>4 DEF start_undo_session, active_sessions
  <2>2. /\ max_size \in Nat /\ MaxNesting \in Nat
        /\ MaxNesting <= max_size + 1
    BY SizesAssumption DEF Inv, TypeOK
  <2>3. \E n \in Len(sessions) .. Len(snaps) :
          Trim(snaps) = SubSeq(snaps, Len(snaps) - n + 1, Len(snaps))
    <3>1. CASE Len(snaps) > max_size
      <4>1. max_size \in Len(sessions) .. Len(snaps)
        BY <1>0, <2>1, <2>2, <3>1
      <4> QED BY <3>1, <4>1 DEF Trim, Newest
    <3>2. CASE ~(Len(snaps) > max_size)
      <4>1. Len(snaps) \in Len(sessions) .. Len(snaps)
        BY <1>0
      <4>2. Len(snaps) - Len(snaps) + 1 = 1
        BY <1>0
      <4>3. SubSeq(snaps, 1, Len(snaps)) = snaps
        BY <1>0, SubSeqFull
      <4> QED BY <3>2, <4>1, <4>2, <4>3 DEF Trim
    <3> QED BY <3>1, <3>2
  <2>4. Len(sessions') = Len(sessions) + 1
    BY <1>0, <2>1
  <2> QED BY <2>1, <2>3, <2>4
          DEF Snapshots!Next, Snapshots!Open, active_sessions
<1>5. CASE undo
  <2>1. cur' = Back(snaps) /\ stack # <<>>
    BY <1>5, InvUndo
  <2>2. snaps # <<>> /\ snaps' = Front(snaps) /\ Len(sessions) > 0
    BY <1>0, <1>5, <2>1 DEF undo, active_sessions
  <2>3. Len(sessions') = Len(sessions) - 1
    BY <1>0, <1>5, <2>2, FrontFacts DEF undo
  <2> QED BY <2>1, <2>2, <2>3
          DEF Snapshots!Next, Snapshots!Undo, Snapshots!GoBack, Front, Back,
              active_sessions
<1>6. CASE merge
  <2>1. stack # <<>>
    BY <1>6, InvMerge
  <2>2. /\ snaps # <<>> /\ snaps' = Front(snaps) /\ Len(sessions) > 0
        /\ cur' = cur
    BY <1>0, <1>6, <2>1 DEF merge, active_sessions
  <2>3. Len(sessions') = Len(sessions) - 1
    <3>1. sessions # <<>> /\ sessions' = Front(sessions)
      BY <1>0, <1>6, <2>2 DEF merge
    <3> QED BY <1>0, <3>1, FrontFacts
  <2> QED BY <2>2, <2>3
          DEF Snapshots!Next, Snapshots!Merge, Front, active_sessions
<1>7. CASE pop_commit
  <2>1. cur' = Back(snaps)
    BY <1>7, InvPopCommit
  <2>2. snaps # <<>>
    BY <1>0, <1>7 DEF pop_commit
  <2>3. snaps' = Front(snaps) /\ Len(sessions) = 0 /\ sessions' = sessions
    BY <1>7 DEF pop_commit, active_sessions
  <2> QED BY <2>1, <2>2, <2>3
          DEF Snapshots!Next, Snapshots!PopCommit, Snapshots!GoBack, Front,
              Back, active_sessions
<1>8. CASE commit
  BY <1>8 DEF commit, Snapshots!Next, Snapshots!Commit, active_sessions
<1>9. CASE \/ disable \/ enable \/ UNCHANGED vars
           \/ \E n \in MaxSizes : set_max_size(n)
  BY <1>9 DEF disable, enable, set_max_size, vars, Snapshots!vars,
              active_sessions
<1> QED BY <1>1, <1>2, <1>3, <1>4, <1>5, <1>6, <1>7, <1>8, <1>9 DEF Next

\* Every behaviour of the undo log is one of a stack of full snapshots.
THEOREM ImplementsSnapshots == Spec => SnapshotSpec
BY InvAlways, RefineInit, RefineNext, PTL DEF Spec, SnapshotSpec, Snapshots!Spec
=============================================================================
