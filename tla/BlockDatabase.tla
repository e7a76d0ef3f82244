--------------------------- MODULE BlockDatabase ---------------------------
(***************************************************************************)
(* block_database: the log of applied blocks on disk.  The index file has  *)
(* one slot per block number, which gives the id and the place of the      *)
(* block in the data file; the data file is only appended to.  The module  *)
(* is a set of operators on a function from block numbers to slots.        *)
(*                                                                         *)
(* A slot holds the id it was stored under and the block stored.  NoSlot   *)
(* is a slot that is beyond the end of the file, zero, of size 0, or that  *)
(* points at bytes that are not there.  Reading a block unpacks it and     *)
(* compares its id with that of the slot.                                  *)
(***************************************************************************)
EXTENDS Blocks

CONSTANTS MaxNum,  \* bound: the highest block number
          NoSlot

Slot == [id : Block, data : Block] \cup {NoSlot}
BlockLog == [1 .. MaxNum -> Slot]

store(log, id, b) == [log EXCEPT ![num[id]] = [id |-> id, data |-> b]]

\* remove sets the size to 0 if the slot has that id.
remove(log, id) ==
  IF log[num[id]] # NoSlot /\ log[num[id]].id = id
    THEN [log EXCEPT ![num[id]] = NoSlot] ELSE log

Readable(log, n) ==
  n \in 1 .. MaxNum /\ log[n] # NoSlot /\ log[n].id = log[n].data

fetch_by_number(log, n) == IF Readable(log, n) THEN log[n].data ELSE NoBlock

fetch_optional(log, id) ==
  IF Readable(log, num[id]) /\ log[num[id]].id = id THEN id ELSE NoBlock

\* The number of the last readable block, 0 if there is none.
LastNum(log) ==
  LET S == {n \in 1 .. MaxNum : Readable(log, n)}
  IN  IF S = {} THEN 0 ELSE CHOOSE n \in S : \A m \in S : m <= n

\* last_index_entry cuts the index file off behind the last readable block.
last_index_entry(log) ==
  [n \in 1 .. MaxNum |-> IF n <= LastNum(log) THEN log[n] ELSE NoSlot]

last_id(log) ==
  IF LastNum(log) = 0 THEN NoBlock ELSE log[LastNum(log)].id
============================================================================
