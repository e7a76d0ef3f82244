----------------------------- MODULE Witnesses -----------------------------
(***************************************************************************)
(* What applying a block does to the witnesses (chain/database.cpp,        *)
(* _apply_block): the turn of a slot, missed slots, participation, the     *)
(* last irreversible block, the schedule of the next round and hardforks.  *)
(*                                                                         *)
(* Time is counted in seconds.  A block carries at most one transaction    *)
(* that matters here: one that moves votes or updates a witness.  Block    *)
(* contents, sizes and fees are left out.  A hardfork version is its       *)
(* number.                                                                 *)
(***************************************************************************)
EXTENDS WitnessSchedule, Functions

CONSTANTS InitMiners,        \* MUSE_NUM_INIT_MINERS
          GenesisTime,       \* MUSE_GENESIS_TIME
          Interval,          \* MUSE_BLOCK_INTERVAL
          Window,            \* bits of recent_slots_filled
          StartVoting,       \* MUSE_START_MINER_VOTING_BLOCK
          BlocksPerDay,      \* MUSE_BLOCKS_PER_DAY
          NumHardforks,      \* MUSE_NUM_HARDFORKS
          KeyHardfork,       \* MUSE_HARDFORK_0_3
          HardforkTime,      \* _hardfork_times
          Required,          \* MUSE_HARDFORK_REQUIRED_WITNESSES
          MaxBlocks,         \* bound: length of the chain
          MaxGap,            \* bound: slots missed in a row
          MaxOps             \* bound: transactions

ASSUME WitnessesAssumption ==
  /\ InitMiners \in Witnesses
  /\ Interval \in Nat \ {0} /\ GenesisTime \in Nat /\ GenesisTime % Interval = 0
  /\ Window \in Nat \ {0} /\ StartVoting \in Nat /\ BlocksPerDay \in Nat
  /\ NumHardforks \in Nat /\ KeyHardfork \in Nat \ {0}
  /\ HardforkTime \in [0 .. NumHardforks + 1 -> Nat]
  /\ Required \in Nat /\ 2 * Required > MaxMiners
  /\ MaxBlocks \in Nat /\ MaxGap \in Nat /\ MaxOps \in Nat

(* One more than this program knows.                                       *)
Versions == 0 .. NumHardforks + 1

VARIABLES dgp,         \* dynamic_global_property_object
          turns,       \* current_shuffled_witnesses
          record,      \* per witness: total_missed, last_confirmed_block_num
          hardforks,   \* hardfork_property_object, and the votes
          binary,      \* the latest hardfork each witness's program knows
          mandate,     \* history: votes for next_hardfork when the round ended
          filled,      \* history: the last Window slots, oldest first
          ops          \* transactions so far

vars == <<sched, has_hardfork_0_3, dgp, turns, record, hardforks, binary,
          mandate, filled, ops>>

Ones(bits) == Cardinality({i \in DOMAIN bits : bits[i] = 1})
LastOf(q, n) == SubSeq(q, Len(q) - n + 1, Len(q))
Zeros(n) == [i \in 1 .. n |-> 0]

-----------------------------------------------------------------------------
(* Slots                                                                   *)

\* Faulty variant of get_slot_time: counted from the head block itself.
get_slot_time_unaligned(slot_num) == dgp.time + slot_num * Interval

get_slot_time(slot_num) ==
  IF dgp.head_block_number = 0
  THEN dgp.time + slot_num * Interval
  ELSE (dgp.time \div Interval) * Interval + slot_num * Interval

get_slot_at_time(when) ==
  IF when < get_slot_time(1)
  THEN 0
  ELSE (when - get_slot_time(1)) \div Interval + 1

get_scheduled_witness(slot_num) ==
  turns[((dgp.current_aslot + slot_num) % Len(turns)) + 1]

validate_block_header(w, when) ==
  /\ dgp.time < when
  /\ w \in sched.keyed                        \* validate_signee
  /\ get_slot_at_time(when) > 0
  /\ get_scheduled_witness(get_slot_at_time(when)) = w

-----------------------------------------------------------------------------
(* update_global_dynamic_data                                              *)

MissedSlots(when) == get_slot_at_time(when) - 1

(* Turns of x that nobody took; the signer's own do not count.             *)
missed_by(x, w, when) ==
  IF x = w THEN 0
  ELSE Cardinality({i \in 1 .. MissedSlots(when) : get_scheduled_witness(i) = x})

(* Witnesses that have been away for a day lose their key.                 *)
keys_lost(w, when) ==
  {x \in Witnesses :
     /\ missed_by(x, w, when) > 0 /\ has_hardfork_0_3
     /\ dgp.head_block_number - record[x].last_confirmed > BlocksPerDay}

(* A 1 for the block goes in first, then a 0 for each missed slot.         *)
shifted(bits, missed) == bits \o <<1>> \o Zeros(missed)

\* Faulty variant: what leaves the window is looked at once only.
participation_count_once(d, missed) ==
  d.participation_count + 1 - d.recent_slots_filled[1]

(* Each shift takes the bit that leaves the window off the count.          *)
participation_count(d, missed) ==
  d.participation_count + 1
    - Ones(SubSeq(shifted(d.recent_slots_filled, missed), 1, missed + 1))

dynamic_data(when) ==
  LET missed == MissedSlots(when)
  IN  [dgp EXCEPT
         !.head_block_number = @ + 1,
         !.time = when,
         !.current_aslot = @ + missed + 1,
         !.recent_slots_filled = LastOf(shifted(@, missed), Window),
         !.participation_count = participation_count(dgp, missed)]

-----------------------------------------------------------------------------
(* update_last_irreversible_block                                          *)

\* Faulty variant: one place too high.
irreversible_offset_high(n) == (49 * n) \div 100 + 1

(* (MUSE_100_PERCENT - MUSE_IRREVERSIBLE_THRESHOLD) of the witnesses       *)
irreversible_offset(n) == (49 * n) \div 100

(* nth_element: the value that would be at the offset, counted from 0, if  *)
(* the last confirmed blocks of the scheduled witnesses were sorted.       *)
nth_confirmed(rec, offset) ==
  LET confirmed(i) == rec[turns[i]].last_confirmed
  IN  CHOOSE n \in {confirmed(i) : i \in DOMAIN turns} :
        /\ Cardinality({i \in DOMAIN turns : confirmed(i) < n}) <= offset
        /\ Cardinality({i \in DOMAIN turns : confirmed(i) <= n}) > offset

update_last_irreversible_block(d, rec) ==
  LET lib == d.last_irreversible_block_num
      head == d.head_block_number
      new == nth_confirmed(rec, irreversible_offset(Len(turns)))
  IN  [d EXCEPT !.last_irreversible_block_num =
         CASE head < StartVoting -> IF head > MaxMiners THEN head - MaxMiners ELSE lib
           [] head >= StartVoting -> IF new > lib THEN new ELSE lib]

-----------------------------------------------------------------------------
(* Hardforks                                                               *)

(* The vote that stands for w after a block it generated (_generate_block, *)
(* process_header_extensions).                                             *)
hardfork_vote(w) ==
  LET last == hardforks.last_hardfork
      vote == hardforks.vote[w]
  IN  CASE last < binary[w] -> last + 1
        [] last = binary[w] -> IF vote > binary[w] THEN last ELSE vote
        [] last > binary[w] -> vote

Voters(h, version) == {i \in DOMAIN turns : h.vote[turns[i]] = version}

\* Faulty variant of count_hardfork_votes: a lost majority is not noticed.
count_hardfork_votes_sticky(h) ==
  LET won == {v \in Versions : Cardinality(Voters(h, v)) >= Required}
  IN  IF won = {} THEN h ELSE [h EXCEPT !.next_hardfork = CHOOSE v \in won : TRUE]

(* update_witness_schedule4 counts the votes of the round that ends.       *)
count_hardfork_votes(h) ==
  LET won == {v \in Versions : Cardinality(Voters(h, v)) >= Required}
  IN  [h EXCEPT !.next_hardfork =
         IF won = {} THEN h.last_hardfork ELSE CHOOSE v \in won : TRUE]

(* A majority for a version this program does not know throws, and the     *)
(* block is not applied.                                                   *)
DueHardfork(h, now) == h.last_hardfork < h.next_hardfork
                         /\ HardforkTime[h.next_hardfork] <= now

KnownHardfork(h, now) == DueHardfork(h, now) => h.next_hardfork <= NumHardforks

process_hardforks(h, now) ==
  [h EXCEPT !.last_hardfork = IF DueHardfork(h, now) THEN h.next_hardfork ELSE @]

-----------------------------------------------------------------------------
(* Blocks                                                                  *)

EndOfRound == (dgp.head_block_number + 1) % MaxMiners = 0

Transactions(s) ==
  (UNION {{adjust_witness_vote(s, x, delta) :
             delta \in {d \in - MaxDelta .. MaxDelta : s.votes[x] + d \in 0 .. MaxVotes}} :
            x \in s.created})
  \cup (UNION {{witness_update(s, x, has_key) : has_key \in BOOLEAN} : x \in Witnesses})

Shuffles(W) ==
  {q \in [1 .. Cardinality(W) -> W] : \A x \in W : \E i \in DOMAIN q : q[i] = x}

(* The shuffle is a function of the time of the block: any order will do.  *)
update_witness_schedule(s) ==
  \/ /\ ~EndOfRound
     /\ sched' = s
     /\ UNCHANGED turns
  \/ /\ EndOfRound
     /\ update_witness_schedule4(s)
     /\ turns' \in Shuffles(sched'.active_witnesses)

(* The object of the signing witness and of those who missed their turn.   *)
records(w, when) ==
  [x \in Witnesses |->
     [total_missed   |-> record[x].total_missed + missed_by(x, w, when),
      last_confirmed |-> IF x = w THEN dgp.head_block_number + 1
                                  ELSE record[x].last_confirmed]]

with_vote(w) == [hardforks EXCEPT !.vote[w] = hardfork_vote(w)]

hardforks_after(w) ==
  IF EndOfRound THEN count_hardfork_votes(with_vote(w)) ELSE with_vote(w)


(* That somebody has a key is an assumption: with an empty schedule        *)
(* get_scheduled_witness divides by zero.                                  *)
_apply_block(w, when, s) ==
  /\ validate_block_header(w, when)
  /\ binary[w] >= hardforks.last_hardfork
  /\ KnownHardfork(hardforks_after(w), when)
  /\ (s.created \cap s.keyed) \ keys_lost(w, when) # {}
  /\ update_witness_schedule([s EXCEPT !.keyed = @ \ keys_lost(w, when)])
  /\ record' = records(w, when)
  /\ dgp' = update_last_irreversible_block(dynamic_data(when), record')
  /\ hardforks' = process_hardforks(hardforks_after(w), when)
  /\ has_hardfork_0_3' = (hardforks'.last_hardfork >= KeyHardfork)
  /\ mandate' = IF EndOfRound
                   THEN Cardinality(Voters(hardforks_after(w),
                                           hardforks_after(w).next_hardfork))
                   ELSE mandate
  /\ filled' = LastOf(filled \o Zeros(MissedSlots(when)) \o <<1>>, Window)
  /\ UNCHANGED binary

Block(w, when) ==
  /\ dgp.head_block_number < MaxBlocks
  /\ get_slot_at_time(when) <= MaxGap + 1
  /\ \/ _apply_block(w, when, sched) /\ UNCHANGED ops
     \/ /\ ops < MaxOps /\ ops' = ops + 1
        /\ \E s \in Transactions(sched) : _apply_block(w, when, s)

(* The operator of a witness installs another program.                     *)
Install(w, version) ==
  /\ version # binary[w] /\ ops < MaxOps /\ ops' = ops + 1
  /\ binary' = [binary EXCEPT ![w] = version]
  /\ UNCHANGED <<sched, has_hardfork_0_3, dgp, turns, record, hardforks,
                 mandate, filled>>

Init ==
  /\ sched = GenesisSchedule(InitMiners)
  /\ has_hardfork_0_3 = FALSE
  /\ turns = <<1>>
  /\ dgp = [head_block_number |-> 0, time |-> GenesisTime, current_aslot |-> 0,
            recent_slots_filled |-> [i \in 1 .. Window |-> 1],
            participation_count |-> Window, last_irreversible_block_num |-> 0]
  /\ record = [x \in Witnesses |-> [total_missed |-> 0, last_confirmed |-> 0]]
  /\ hardforks = [last_hardfork |-> 0, next_hardfork |-> 0,
                  vote |-> [x \in Witnesses |-> 0]]
  /\ binary \in [Witnesses -> 0 .. NumHardforks]
  /\ mandate = 0
  /\ filled = [i \in 1 .. Window |-> 1]
  /\ ops = 0

Next ==
  \/ \E w \in Witnesses, d \in 1 .. (MaxGap + 2) * Interval : Block(w, dgp.time + d)
  \/ \E w \in Witnesses, version \in Versions : Install(w, version)

Spec == Init /\ [][Next]_vars

-----------------------------------------------------------------------------
(* Properties                                                              *)

TypeOK ==
  /\ sched \in Schedule /\ has_hardfork_0_3 \in BOOLEAN
  /\ turns \in Seq(Witnesses) /\ turns # <<>>
  /\ dgp \in [head_block_number : Nat, time : Nat, current_aslot : Nat,
              recent_slots_filled : [1 .. Window -> {0, 1}],
              participation_count : 0 .. Window,
              last_irreversible_block_num : Nat]
  /\ record \in [Witnesses -> [total_missed : Nat, last_confirmed : Nat]]
  /\ hardforks \in [last_hardfork : 0 .. NumHardforks, next_hardfork : Versions,
                    vote : [Witnesses -> Versions]]
  /\ binary \in [Witnesses -> Versions]
  /\ mandate \in Nat
  /\ filled \in [1 .. Window -> {0, 1}]
  /\ ops \in 0 .. MaxOps

(* current_aslot, which decides whose turn it is, is moved by differences  *)
(* that are rounded to slots; it is always the number of slots since       *)
(* genesis, and each of these holds a block or is held against at most one *)
(* witness (database.cpp:948-987, 2713-2755).                              *)
SlotsAccounted ==
  /\ dgp.current_aslot = (dgp.time - GenesisTime) \div Interval
  /\ dgp.head_block_number
       + SumFunction([x \in Witnesses |-> record[x].total_missed])
       <= dgp.current_aslot

(* participation_count is the number of bits set, and although the bits of *)
(* a block and of the slots missed before it are in the wrong order, it is *)
(* at most one short of the slots really filled (database.cpp:2744-2750).  *)
ParticipationExact ==
  /\ dgp.participation_count = Ones(dgp.recent_slots_filled)
  /\ dgp.participation_count - Ones(filled) \in {-1, 0}

(* A block becomes irreversible only when more than half of the scheduled  *)
(* witnesses have signed it or a later one, or, before voting takes over,  *)
(* when a round is built on it; it never becomes reversible again          *)
(* (database.cpp:2849-2897).                                               *)
IrreversibleBacked ==
  [][LET lib == dgp'.last_irreversible_block_num
         head == dgp'.head_block_number
         backing == {i \in DOMAIN turns : record'[turns[i]].last_confirmed >= lib}
     IN  /\ dgp.last_irreversible_block_num <= lib /\ lib <= head
         /\ lib # dgp.last_irreversible_block_num =>
              \/ head < StartVoting /\ head - lib >= MaxMiners
              \/ 2 * Cardinality(backing) > Len(turns)]_vars

(* A hardfork is applied only if, when the last round ended, at least      *)
(* Required of its witnesses stood for it: a majority that is lost before  *)
(* the time of the hardfork revokes it (database.cpp:1199-1234,            *)
(* 3201-3219).                                                             *)
HardforkMandated ==
  [][hardforks'.last_hardfork # hardforks.last_hardfork =>
       mandate' >= Required]_vars

=============================================================================
