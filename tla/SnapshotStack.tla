--------------------------- MODULE SnapshotStack ----------------------------
(***************************************************************************)
(* What the undo log of libraries/db promises its users: a stack of        *)
(* complete snapshots of the store.  Opening a session pushes a snapshot   *)
(* (and may forget the oldest ones), undoing a session or popping a commit *)
(* goes back to the newest one, merging and committing keep the store.     *)
(* UndoDatabase implements this without ever copying the store.            *)
(***************************************************************************)
EXTENDS Naturals, Sequences

CONSTANT State   \* the possible contents of the store

VARIABLES cur,   \* the store
          snaps, \* snapshots, newest last
          live   \* sessions that are still open

vars == <<cur, snaps, live>>

Init == cur \in State /\ snaps = <<>> /\ live = 0

\* Any change of the store.  Made outside every session and with nothing to go
\* back to, it may be made undoable by a snapshot taken just before it.
Change ==
  /\ cur' \in State
  /\ snaps' = snaps \/ (snaps = <<>> /\ snaps' = <<cur>>)
  /\ UNCHANGED live

\* Open a session; at most the snapshots of closed sessions are forgotten.
Open ==
  /\ \E n \in live .. Len(snaps) :
       snaps' = Append(SubSeq(snaps, Len(snaps) - n + 1, Len(snaps)), cur)
  /\ live' = live + 1
  /\ UNCHANGED cur

\* Back to the newest snapshot: the end of an abandoned session, or the removal
\* of a committed one.
GoBack ==
  /\ snaps # <<>>
  /\ cur' = snaps[Len(snaps)]
  /\ snaps' = SubSeq(snaps, 1, Len(snaps) - 1)

Undo == live > 0 /\ live' = live - 1 /\ GoBack
PopCommit == live = 0 /\ UNCHANGED live /\ GoBack

\* Close a session and keep its changes, as part of whatever is below it.
Merge ==
  /\ live > 0
  /\ snaps # <<>>
  /\ snaps' = SubSeq(snaps, 1, Len(snaps) - 1)
  /\ live' = live - 1
  /\ UNCHANGED cur

\* Close the only session and keep its snapshot.
Commit == live = 1 /\ live' = 0 /\ UNCHANGED <<cur, snaps>>

Next == Change \/ Open \/ Undo \/ PopCommit \/ Merge \/ Commit

Spec == Init /\ [][Next]_vars
=============================================================================
