-------------------------- MODULE WitnessSchedule --------------------------
(***************************************************************************)
(* Which witnesses produce the blocks of the next round                    *)
(* (chain/database.cpp, update_witness_schedule4 and what it works on).    *)
(*                                                                         *)
(* The MaxVoted witnesses with most votes are scheduled in every round.    *)
(* The remaining places go to the others in the order of a virtual time:   *)
(* a witness runs laps at a speed given by its votes, and is scheduled     *)
(* when it completes one.  Virtual times are unsigned words (of 128 bits,  *)
(* here WordBits), and a lap is the largest of them, so that sums overflow *)
(* all the time: the code detects it and starts the race anew.             *)
(*                                                                         *)
(* A witness is its id; names are taken to be in the order of the ids.     *)
(* This module knows the set of the active witnesses; their order, current *)
(* _shuffled_witnesses, is in Witnesses.  The medians of the witnesses'    *)
(* properties are left out.                                                *)
(***************************************************************************)
EXTENDS Integers, Sequences, FiniteSets, FiniteSetsExt

CONSTANTS NumWitnesses,  \* witnesses are numbered in the order of creation
          MaxVoted,      \* MUSE_MAX_VOTED_WITNESSES
          MaxMiners,     \* MUSE_MAX_MINERS
          WordBits,      \* width of fc::uint128
          MaxVotes,      \* bound: votes of one witness
          MaxDelta       \* bound: votes moved by one operation

ASSUME ScheduleAssumption ==
  /\ NumWitnesses \in Nat \ {0} /\ MaxVotes \in Nat /\ MaxDelta \in Nat
  /\ MaxVoted \in Nat \ {0} /\ MaxMiners \in Nat /\ MaxVoted < MaxMiners
  /\ WordBits \in Nat \ {0}

(* Arithmetic: the provers know nothing of ^.                              *)
ASSUME WordAssumption == 2 ^ WordBits \in Nat \ {0}

Witnesses == 1 .. NumWitnesses
Modulus == 2 ^ WordBits
Word == 0 .. Modulus - 1
LapLength == Modulus - 1           \* VIRTUAL_SCHEDULE_LAP_LENGTH2
Wrap(x) == x % Modulus

VARIABLES sched,                   \* witness objects and the schedule object
          has_hardfork_0_3         \* from then on keys matter

(* keyed: the witnesses whose signing_key is not the null key.             *)
Schedule ==
  [votes    : [Witnesses -> 0 .. MaxVotes],
   keyed    : SUBSET Witnesses,
   created  : SUBSET Witnesses,
   virtual_last_update    : [Witnesses -> Word],
   virtual_position       : [Witnesses -> Word],
   virtual_scheduled_time : [Witnesses -> Word],
   current_virtual_time   : Word,
   active_witnesses       : SUBSET Witnesses]

-----------------------------------------------------------------------------
(* Votes                                                                   *)

\* Faulty variant of no_earlier: a scheduled time that overflowed is kept.
no_earlier_wrapped(t, now) == t

(* "witnesses with a low number of votes could overflow the time field and *)
(* end up with a scheduled time in the past"                               *)
no_earlier(t, now) == IF t < now THEN LapLength ELSE t

(* The part of the lap run so far is credited at the old speed.            *)
adjust_witness_vote(s, w, delta) ==
  LET now == s.current_virtual_time
      position == Wrap(s.virtual_position[w]
                       + s.votes[w] * Wrap(now - s.virtual_last_update[w]))
      votes == s.votes[w] + delta
      finish == Wrap(now + Wrap(LapLength - position) \div (votes + 1))
  IN  [s EXCEPT !.votes[w] = votes,
                !.virtual_position[w] = position,
                !.virtual_last_update[w] = now,
                !.virtual_scheduled_time[w] = no_earlier(finish, now)]

(* witness_update_evaluator: creates the witness or changes its key.       *)
witness_update(s, w, has_key) ==
  [s EXCEPT !.created = @ \cup {w},
            !.keyed = IF has_key THEN @ \cup {w} ELSE @ \ {w}]

-----------------------------------------------------------------------------
(* A new round                                                             *)

VotedBefore(s, v, w) ==            \* by_vote_name
  \/ s.votes[v] > s.votes[w]
  \/ s.votes[v] = s.votes[w] /\ v < w

ScheduledBefore(s, v, w) ==        \* by_schedule_time
  \/ s.virtual_scheduled_time[v] < s.virtual_scheduled_time[w]
  \/ s.virtual_scheduled_time[v] = s.virtual_scheduled_time[w] /\ v < w

(* From hardfork 0.3 on, witnesses without a key are passed over.          *)
Candidates(s) ==
  IF has_hardfork_0_3 THEN s.created \cap s.keyed ELSE s.created

selected_voted(s) ==
  LET cs == Candidates(s)
  IN  {w \in cs : Cardinality({v \in cs : VotedBefore(s, v, w)}) < MaxVoted}

Runners(s, voted) ==
  LET cs == Candidates(s) \ voted
  IN  {w \in cs : Cardinality({v \in cs : ScheduledBefore(s, v, w)})
                    < MaxMiners - Cardinality(voted)}

(* The loop passes everyone up to the runner that takes the last place,    *)
(* or everyone.                                                            *)
processed_witnesses(s, voted, runners) ==
  {w \in s.created :
     Cardinality(voted \cup runners) = MaxMiners =>
       \E r \in runners : r = w \/ ScheduledBefore(s, w, r)}

reset_virtual_schedule_time(s) ==
  [s EXCEPT !.current_virtual_time = 0,
            !.virtual_position = [w \in Witnesses |-> 0],
            !.virtual_last_update = [w \in Witnesses |-> 0],
            !.virtual_scheduled_time =
               [w \in Witnesses |->
                  IF w \in s.created THEN LapLength \div (s.votes[w] + 1)
                                     ELSE LapLength]]

\* Faulty variant of new_virtual_time: time stands still.
new_virtual_time_still(s, done) == s.current_virtual_time

(* "everyone advances to at least this time"                               *)
new_virtual_time(s, done) == Max({s.virtual_scheduled_time[w] : w \in done})

next_lap(s, now, w) == Wrap(now + LapLength \div (s.votes[w] + 1))

overflows(s, now, done) == \E w \in done : next_lap(s, now, w) < now

(* Those passed begin a new lap; if one of these would end beyond the      *)
(* largest word, everybody starts again at time 0.                         *)
advance_laps(s, done, now) ==
  LET for_done(f, g) == [w \in Witnesses |-> IF w \in done THEN g[w] ELSE f[w]]
  IN  IF overflows(s, now, done)
      THEN reset_virtual_schedule_time(s)
      ELSE [s EXCEPT !.current_virtual_time = now,
                     !.virtual_position = for_done(@, [w \in done |-> 0]),
                     !.virtual_last_update = for_done(@, [w \in done |-> now]),
                     !.virtual_scheduled_time =
                        for_done(@, [w \in done |-> next_lap(s, now, w)])]

(* sched becomes s with a new round.  (The quantifiers over one value give *)
(* it a name.)                                                             *)
update_witness_schedule4(s) ==
  \E voted \in {selected_voted(s)} :
  \E runners \in {Runners(s, voted)} :
  \E done \in {processed_witnesses(s, voted, runners)} :
  \E now \in {new_virtual_time(s, done)} :
    sched' = [advance_laps(s, done, now) EXCEPT
                !.active_witnesses = voted \cup runners]

-----------------------------------------------------------------------------
(* The rounds by themselves: votes and keys change between them            *)

GenesisSchedule(init_miners) ==
  [votes    |-> [w \in Witnesses |-> 0],
   keyed    |-> 1 .. init_miners,
   created  |-> 1 .. init_miners,
   virtual_last_update    |-> [w \in Witnesses |-> 0],
   virtual_position       |-> [w \in Witnesses |-> 0],
   virtual_scheduled_time |-> [w \in Witnesses |-> LapLength],
   current_virtual_time   |-> 0,
   active_witnesses       |-> {1}]

(* Votes move by what an account weighs; the tally never goes below zero   *)
(* (Voting, WitnessVotesExact).                                            *)
Votes(w, delta) ==
  /\ w \in sched.created /\ sched.votes[w] + delta \in 0 .. MaxVotes
  /\ sched' = adjust_witness_vote(sched, w, delta)
  /\ UNCHANGED has_hardfork_0_3

(* The last witness that has a key keeps it: an empty schedule would       *)
(* divide by zero in get_scheduled_witness.                                *)
MayUpdate(s, w, has_key) == has_key \/ s.created \cap s.keyed # {w}

Update(w, has_key) ==
  /\ MayUpdate(sched, w, has_key)
  /\ sched' = witness_update(sched, w, has_key)
  /\ UNCHANGED has_hardfork_0_3

Hardfork03 ==
  /\ ~has_hardfork_0_3
  /\ has_hardfork_0_3' = TRUE
  /\ UNCHANGED sched

NewRound == update_witness_schedule4(sched) /\ UNCHANGED has_hardfork_0_3

rounds_vars == <<sched, has_hardfork_0_3>>

RoundsInit ==
  /\ \E n \in Witnesses : sched = GenesisSchedule(n)
  /\ has_hardfork_0_3 = FALSE

RoundsNext ==
  \/ \E w \in Witnesses, delta \in - MaxDelta .. MaxDelta : Votes(w, delta)
  \/ \E w \in Witnesses, has_key \in BOOLEAN : Update(w, has_key)
  \/ Hardfork03
  \/ NewRound

(* Blocks keep coming, and every MaxMiners of them a round ends.           *)
RoundsSpec == RoundsInit /\ [][RoundsNext]_rounds_vars /\ WF_rounds_vars(NewRound)

-----------------------------------------------------------------------------
(* Properties                                                              *)

ScheduleTypeOK == sched \in Schedule

(* Virtual time runs forward: no witness is due before the current time,   *)
(* and none has run further than a lap, so that the unsigned differences   *)
(* of adjust_witness_vote never wrap around (database.cpp:1411-1418).      *)
RunIn(s, w) == s.virtual_position[w]
                 + s.votes[w] * (s.current_virtual_time - s.virtual_last_update[w])

VirtualTimeSound ==
  \A w \in sched.created :
    /\ sched.virtual_last_update[w] <= sched.current_virtual_time
    /\ sched.current_virtual_time <= sched.virtual_scheduled_time[w]
    /\ RunIn(sched, w) <= LapLength

(* "The top N witnesses by votes are scheduled every round, every one else *)
(* takes turns" (witness_objects.hpp:42-44): once the votes stay as they   *)
(* are, a witness with a key and at least one vote is scheduled again and  *)
(* again, however often the race starts anew.                              *)
EveryoneTakesTurns ==
  \A w \in Witnesses :
    \/ []<><<sched'.votes # sched.votes>>_rounds_vars
    \/ []<>(w \notin sched.keyed \/ sched.votes[w] = 0)
    \/ []<>(w \in sched.active_witnesses)

=============================================================================
