-------------------------- MODULE BlockProduction --------------------------
(***************************************************************************)
(* The witness plugin of one node (plugins/witness/witness.cpp) on top of  *)
(* the chain it follows.  The production loop wakes about once a second,   *)
(* late or early as the scheduler likes; the blocks of the other witnesses *)
(* arrive in between.  The clock is read in half seconds, as the plugin    *)
(* rounds it to the next second when half of one has passed, and may show  *)
(* anything, an earlier time too.                                          *)
(***************************************************************************)
EXTENDS Witnesses

CONSTANTS Mine,              \* _witnesses: those this node produces for
          StaleProduction,   \* --enable-stale-production
          RequiredBits       \* --required-participation, in bits of the window

ASSUME ProductionAssumption ==
  /\ Mine \subseteq Witnesses /\ StaleProduction \in BOOLEAN
  /\ RequiredBits \in Nat

VARIABLES production_enabled,
          produced             \* history: the last block produced and the clock

production_vars == <<vars, production_enabled, produced>>

(* fc::time_point::now() + 500 ms, in whole seconds                        *)
Rounded(t) == (t + 1) \div 2

InSync(now) == production_enabled \/ get_slot_time(1) >= now

\* Faulty variant of OnTime: a late wake-up still produces.
OnTime_late(now) == get_slot_time(get_slot_at_time(now)) <= now

(* Both are whole seconds, so that a difference of at most 500 ms is none. *)
OnTime(now) == get_slot_time(get_slot_at_time(now)) = now

(* The conditions of maybe_produce_block, in its order.  The node has the  *)
(* private key of every key its witnesses have set.                        *)
MayProduce(now) ==
  /\ InSync(now)
  /\ get_slot_at_time(now) > 0
  /\ get_scheduled_witness(get_slot_at_time(now)) \in Mine \cap sched.keyed
  /\ Ones(dgp.recent_slots_filled) >= RequiredBits
  /\ OnTime(now)

(* generate_block throws where the node's program is behind the chain, and *)
(* fails again when tried a second time.                                   *)
Generates(w) == binary[w] >= hardforks.last_hardfork

Wake(t) ==
  LET now == Rounded(t)
      w == get_scheduled_witness(get_slot_at_time(now))
      when == get_slot_time(get_slot_at_time(now))
  IN  /\ production_enabled' = InSync(now)
      /\ \/ /\ MayProduce(now) /\ Generates(w)
            /\ dgp.head_block_number < MaxBlocks
            /\ _apply_block(w, when, sched)
            /\ produced' = [time |-> when, clock |-> t]
            /\ UNCHANGED ops
         \/ /\ ~(MayProduce(now) /\ Generates(w))
            /\ UNCHANGED <<vars, produced>>

(* handle_block; its check against blocks from the future always holds     *)
(* for some reading of the clock.                                          *)
Receive(w, when) ==
  /\ w \notin Mine
  /\ Block(w, when)
  /\ UNCHANGED <<production_enabled, produced>>

(* Bound: readings of the clock.  All before the time of the head block    *)
(* have the same effect.                                                   *)
Readings == 2 * dgp.time .. 2 * (dgp.time + (MaxGap + 1) * Interval)

ProductionInit ==
  /\ Init
  /\ production_enabled = StaleProduction
  /\ produced = [time |-> 0, clock |-> 0]

ProductionNext ==
  \/ \E t \in Readings : Wake(t)
  \/ \E w \in Witnesses, d \in 1 .. (MaxGap + 2) * Interval : Receive(w, dgp.time + d)
  \/ /\ \E w \in Witnesses, version \in Versions : Install(w, version)
     /\ UNCHANGED <<production_enabled, produced>>

ProductionSpec == ProductionInit /\ [][ProductionNext]_production_vars

-----------------------------------------------------------------------------

(* The node signs at most one block for a slot, in increasing order, each  *)
(* within half a second of its time, whatever its clock shows and however  *)
(* often it wakes (witness.cpp:211-306).                                   *)
ProducesOnTime ==
  [][produced' # produced =>
       /\ produced.time < produced'.time
       /\ produced'.clock - 2 * produced'.time \in {-1, 0}]_production_vars

=============================================================================
