-------------------------- MODULE Witnesses_proofs --------------------------
(***************************************************************************)
(* Proofs about WitnessSchedule, Witnesses and BlockProduction.            *)
(***************************************************************************)
EXTENDS BlockProduction, FoldTheorems, SequenceTheorems

-----------------------------------------------------------------------------
(* Arithmetic of unsigned words                                            *)

(* The quotient of natural numbers.                                        *)
LEMMA DivProperties ==
  ASSUME NEW a \in Nat, NEW b \in Nat \ {0}
  PROVE  /\ a \div b \in Nat /\ a \div b <= a
         /\ b * (a \div b) <= a /\ a < b * (a \div b) + b
<1>1. a \div b \in Int /\ a % b \in 0 .. b - 1
  OBVIOUS
<1>2. a = b * (a \div b) + (a % b)
  OBVIOUS
<1>3. b * (a \div b) <= a /\ a < b * (a \div b) + b
  BY <1>1, <1>2
<1> QED
  BY <1>1, <1>3

(* The word is not empty and a lap of virtual time fits it.                *)
LEMMA ModulusType == Modulus \in Nat \ {0} /\ LapLength \in Nat /\ LapLength \in Word
  BY WordAssumption DEF Modulus, LapLength, Word

(* Wrap is the identity on words and gives a word.                         *)
LEMMA WrapProperties ==
  ASSUME NEW x \in Int
  PROVE  /\ Wrap(x) \in Word
         /\ x \in Word => Wrap(x) = x
         /\ x \in Modulus .. 2 * Modulus - 1 => Wrap(x) = x - Modulus
  BY ModulusType DEF Wrap, Word

(* A witness with v votes that starts a lap of length n does not run       *)
(* further than n before it is due.                                        *)
LEMMA LapBound ==
  ASSUME NEW n \in Nat, NEW v \in Nat
  PROVE  /\ n \div (v + 1) \in 0 .. n
         /\ v * (n \div (v + 1)) <= n
  OBVIOUS

(* Multiplying by a natural keeps the order.                               *)
LEMMA ProductMonotonic ==
  ASSUME NEW v \in Nat, NEW a \in Int, NEW b \in Int, a <= b
  PROVE  v * a <= v * b
  OBVIOUS

-----------------------------------------------------------------------------
(* Virtual time                                                            *)

(* The inductive form of VirtualTimeSound: what a witness will have run    *)
(* when it is due, at its present speed, is no more than a lap.            *)
OnTrack(s, w) ==
  /\ s.virtual_last_update[w] <= s.current_virtual_time
  /\ s.current_virtual_time <= s.virtual_scheduled_time[w]
  /\ s.virtual_position[w]
       + s.votes[w] * (s.virtual_scheduled_time[w] - s.virtual_last_update[w])
       <= LapLength
  /\ w \notin s.created => s.votes[w] = 0 /\ s.virtual_scheduled_time[w] = LapLength

SoundSchedule(s) == s \in Schedule /\ \A w \in Witnesses : OnTrack(s, w)

(* A change of votes credits the part of the lap run so far, and neither   *)
(* of the unsigned differences wraps.                                      *)
LEMMA VoteKeepsTrack ==
  ASSUME NEW s, SoundSchedule(s), NEW w \in Witnesses, w \in s.created,
         NEW delta \in Int, s.votes[w] + delta \in 0 .. MaxVotes
  PROVE  SoundSchedule(adjust_witness_vote(s, w, delta))
<1> DEFINE now == s.current_virtual_time
           run == s.votes[w] * (now - s.virtual_last_update[w])
           position == Wrap(s.virtual_position[w]
                            + s.votes[w] * Wrap(now - s.virtual_last_update[w]))
           votes == s.votes[w] + delta
           lap == Wrap(LapLength - position) \div (votes + 1)
           finish == Wrap(now + lap)
           t == adjust_witness_vote(s, w, delta)
<1>1. /\ now \in Word /\ s.virtual_last_update[w] \in Word /\ s.virtual_position[w] \in Word
      /\ s.virtual_scheduled_time[w] \in Word /\ s.votes[w] \in 0 .. MaxVotes
      /\ votes \in 0 .. MaxVotes /\ MaxVotes \in Nat
  BY ScheduleAssumption DEF SoundSchedule, Schedule
<1>2. now - s.virtual_last_update[w] \in Word
  BY <1>1, ModulusType DEF SoundSchedule, OnTrack, Word
<1>3. position = s.virtual_position[w] + run
  <2>1. run <= s.votes[w] * (s.virtual_scheduled_time[w] - s.virtual_last_update[w])
    BY <1>1, <1>2, ProductMonotonic DEF SoundSchedule, OnTrack, Word
  <2>2. run \in Nat
    BY <1>1, <1>2, ModulusType DEF Word
  <2>3. s.virtual_position[w] + run <= LapLength
    BY <1>1, <2>1, <2>2, ModulusType DEF SoundSchedule, OnTrack, Word
  <2>4. s.virtual_position[w] + run \in Word
    BY <1>1, <2>2, <2>3, ModulusType DEF Word, LapLength
  <2>5. Wrap(now - s.virtual_last_update[w]) = now - s.virtual_last_update[w]
    BY <1>2, WrapProperties, ModulusType DEF Word
  <2> QED
    BY <2>4, <2>5, WrapProperties, ModulusType DEF Word
<1>4. position \in Word
  BY <1>1, <1>2, WrapProperties, ModulusType DEF Word
<1> HIDE DEF position
<1>5. LapLength - position \in Word /\ Wrap(LapLength - position) = LapLength - position
  BY <1>4, WrapProperties, ModulusType DEF Word, LapLength
<1>6. lap \in Word /\ votes * lap <= LapLength - position
  <2>1. LapLength - position \in Nat /\ votes \in Nat
    BY <1>1, <1>5, ModulusType DEF Word
  <2>2. /\ (LapLength - position) \div (votes + 1) \in 0 .. (LapLength - position)
        /\ votes * ((LapLength - position) \div (votes + 1)) <= LapLength - position
    BY <2>1, LapBound
  <2>3. lap = (LapLength - position) \div (votes + 1)
    BY <1>5
  <2> QED
    BY <1>4, <1>5, <2>2, <2>3, ModulusType DEF Word
<1> HIDE DEF lap
<1>7. /\ no_earlier(finish, now) \in Word /\ now <= no_earlier(finish, now)
      /\ position + votes * (no_earlier(finish, now) - now) <= LapLength
  <2>1. CASE now + lap \in Word
    <3>1. no_earlier(finish, now) = now + lap
      BY <1>1, <1>6, <2>1, WrapProperties, ModulusType DEF Word, no_earlier
    <3> QED
      BY <1>1, <1>4, <1>6, <2>1, <3>1, ModulusType DEF Word
  <2>2. CASE now + lap \notin Word
    <3>1. finish = now + lap - Modulus
      BY <1>1, <1>6, <2>2, WrapProperties, ModulusType DEF Word
    <3>2. no_earlier(finish, now) = LapLength /\ LapLength - now <= lap
      BY <1>1, <1>6, <2>2, <3>1, ModulusType DEF Word, no_earlier, LapLength
    <3>3. votes * (LapLength - now) <= votes * lap
      BY <1>1, <1>6, <3>2, ProductMonotonic, ModulusType DEF Word
    <3> QED
      BY <1>1, <1>4, <1>6, <3>2, <3>3, ModulusType DEF Word, LapLength
  <2> QED
    BY <2>1, <2>2
<1> HIDE DEF finish
<1>8. t = [s EXCEPT !.votes[w] = votes,
                    !.virtual_position[w] = position,
                    !.virtual_last_update[w] = now,
                    !.virtual_scheduled_time[w] = no_earlier(finish, now)]
  BY DEF adjust_witness_vote, position, finish, lap
<1>9. t \in Schedule
  <2>1. s \in Schedule
    BY DEF SoundSchedule
  <2>2. /\ [s.votes EXCEPT ![w] = votes] \in [Witnesses -> 0 .. MaxVotes]
        /\ [s.virtual_position EXCEPT ![w] = position] \in [Witnesses -> Word]
        /\ [s.virtual_last_update EXCEPT ![w] = now] \in [Witnesses -> Word]
        /\ [s.virtual_scheduled_time EXCEPT ![w] = no_earlier(finish, now)]
             \in [Witnesses -> Word]
    BY <1>1, <1>4, <1>7, <2>1 DEF Schedule
  <2> HIDE DEF now, votes
  <2> QED
    BY <1>8, <2>1, <2>2 DEF Schedule
<1>10. ASSUME NEW x \in Witnesses PROVE OnTrack(t, x)
  <2>1. CASE x = w
    BY <1>1, <1>4, <1>7, <1>8, <2>1 DEF OnTrack, Schedule, SoundSchedule, Word
  <2>2. CASE x # w
    BY <1>8, <2>2 DEF OnTrack, Schedule, SoundSchedule
  <2> QED
    BY <2>1, <2>2
<1> QED
  BY <1>9, <1>10 DEF SoundSchedule

(* A witness that is created or changes its key starts without votes.      *)
LEMMA UpdateKeepsTrack ==
  ASSUME NEW s, SoundSchedule(s), NEW w \in Witnesses, NEW has_key \in BOOLEAN
  PROVE  SoundSchedule(witness_update(s, w, has_key))
<1> DEFINE t == witness_update(s, w, has_key)
<1>1. t \in Schedule
  BY DEF SoundSchedule, Schedule, witness_update
<1>2. \A x \in Witnesses : OnTrack(t, x)
  BY DEF SoundSchedule, Schedule, witness_update, OnTrack
<1> QED
  BY <1>1, <1>2 DEF SoundSchedule

(* Taking signing keys away (a block-production penalty) leaves every      *)
(* witness on its lap.                                                     *)
LEMMA LostKeysKeepTrack ==
  ASSUME NEW s, SoundSchedule(s), NEW K
  PROVE  SoundSchedule([s EXCEPT !.keyed = @ \ K])
<1> DEFINE t == [s EXCEPT !.keyed = @ \ K]
<1>1. t \in Schedule
  BY DEF SoundSchedule, Schedule
<1>2. \A x \in Witnesses : OnTrack(t, x)
  BY DEF SoundSchedule, Schedule, OnTrack
<1> QED
  BY <1>1, <1>2 DEF SoundSchedule

(* The start of a new race.                                                *)
LEMMA ResetKeepsTrack ==
  ASSUME NEW s, SoundSchedule(s)
  PROVE  SoundSchedule(reset_virtual_schedule_time(s))
<1> DEFINE t == reset_virtual_schedule_time(s)
           due(w) == IF w \in s.created THEN LapLength \div (s.votes[w] + 1) ELSE LapLength
<1>1. \A w \in Witnesses : s.votes[w] \in Nat
  BY ScheduleAssumption DEF SoundSchedule, Schedule
<1>2. ASSUME NEW w \in Witnesses
      PROVE  due(w) \in Word /\ s.votes[w] * due(w) <= LapLength
  <2>1. CASE w \in s.created
    <3>1. due(w) = LapLength \div (s.votes[w] + 1)
      BY <2>1
    <3>2. /\ LapLength \div (s.votes[w] + 1) \in 0 .. LapLength
          /\ s.votes[w] * (LapLength \div (s.votes[w] + 1)) <= LapLength
      BY <1>1, LapBound, ModulusType
    <3> HIDE DEF due
    <3> QED
      BY <3>1, <3>2, ModulusType DEF Word
  <2>2. CASE w \notin s.created
    BY <2>2, ModulusType DEF SoundSchedule, OnTrack
  <2> QED
    BY <2>1, <2>2
<1>3. t.virtual_scheduled_time = [w \in Witnesses |-> due(w)]
  BY DEF reset_virtual_schedule_time, SoundSchedule, Schedule
<1>4. t.virtual_scheduled_time \in [Witnesses -> Word] /\ 0 \in Word
  <2> HIDE DEF due, t
  <2> QED BY <1>2, <1>3, ModulusType DEF Word
<1>5. t \in Schedule
  <2> DEFINE v == t.virtual_scheduled_time
             zeros == [w \in Witnesses |-> 0]
  <2>1. t = [s EXCEPT !.current_virtual_time = 0,
                      !.virtual_position = zeros,
                      !.virtual_last_update = zeros,
                      !.virtual_scheduled_time = v]
    BY DEF reset_virtual_schedule_time, SoundSchedule, Schedule
  <2>2. zeros \in [Witnesses -> Word] /\ v \in [Witnesses -> Word]
    BY <1>4
  <2> HIDE DEF t, v, zeros
  <2> QED BY <1>4, <2>1, <2>2 DEF SoundSchedule, Schedule
<1>6. ASSUME NEW w \in Witnesses PROVE OnTrack(t, w)
  <2>1. /\ t.current_virtual_time = 0 /\ t.virtual_position[w] = 0
        /\ t.virtual_last_update[w] = 0 /\ t.votes[w] = s.votes[w]
        /\ t.created = s.created
    BY DEF reset_virtual_schedule_time, SoundSchedule, Schedule
  <2>2. t.virtual_scheduled_time[w] = due(w)
    BY <1>3
  <2>3. w \notin s.created => s.votes[w] = 0 /\ due(w) = LapLength
    BY DEF SoundSchedule, OnTrack
  <2> HIDE DEF t, due
  <2> QED
    BY <1>1, <1>2, <2>1, <2>2, <2>3, ModulusType DEF OnTrack, Word
<1> QED
  BY <1>5, <1>6 DEF SoundSchedule

(* Sets of witnesses are finite.                                           *)
LEMMA FiniteWitnesses ==
  ASSUME NEW S, S \subseteq Witnesses
  PROVE  IsFiniteSet(S) /\ Cardinality(S) \in Nat
<1>1. IsFiniteSet(Witnesses)
  BY ScheduleAssumption, FS_Interval DEF Witnesses
<1> QED
  BY <1>1, FS_Subset, FS_CardinalityType

(* The order by votes has a first and a last witness in every set.         *)
LEMMA VotedEnds ==
  ASSUME NEW s \in Schedule, NEW S, S \subseteq Witnesses, S # {}
  PROVE  /\ \E m \in S : \A x \in S : x = m \/ VotedBefore(s, x, m)
         /\ \E m \in S : \A x \in S : x = m \/ VotedBefore(s, m, x)
<1> DEFINE R == {p \in Witnesses \X Witnesses : VotedBefore(s, p[1], p[2])}
           Q == {p \in Witnesses \X Witnesses : VotedBefore(s, p[2], p[1])}
<1>1. /\ \A x, y \in Witnesses : (<<x, y>> \in R) <=> VotedBefore(s, x, y)
      /\ \A x, y \in Witnesses : (<<x, y>> \in Q) <=> VotedBefore(s, y, x)
  OBVIOUS
<1>2. \A x \in Witnesses : x \in Int /\ s.votes[x] \in Int
  BY ScheduleAssumption DEF Schedule, Witnesses
<1>3. \A x, y \in Witnesses : x = y \/ VotedBefore(s, x, y) \/ VotedBefore(s, y, x)
  BY <1>2 DEF VotedBefore
<1>4. \A x, y, z \in Witnesses :
        VotedBefore(s, x, y) /\ VotedBefore(s, y, z) => VotedBefore(s, x, z)
  BY <1>2 DEF VotedBefore
<1>5. IsFiniteSet(S)
  BY FiniteWitnesses
<1> HIDE DEF R, Q
<1>6. /\ \A x, y \in S : x = y \/ <<x, y>> \in R \/ <<y, x>> \in R
      /\ \A x, y, z \in S : <<x, y>> \in R /\ <<y, z>> \in R => <<x, z>> \in R
  BY <1>1, <1>3, <1>4
<1>7. /\ \A x, y \in S : x = y \/ <<x, y>> \in Q \/ <<y, x>> \in Q
      /\ \A x, y, z \in S : <<x, y>> \in Q /\ <<y, z>> \in Q => <<x, z>> \in Q
  BY <1>1, <1>3, <1>4
<1>8. \E m \in S : \A x \in S : x = m \/ <<x, m>> \in R
  BY <1>5, <1>6, FiniteOrderLast
<1>9. \E m \in S : \A x \in S : x = m \/ <<x, m>> \in Q
  BY <1>5, <1>7, FiniteOrderLast
<1> QED
  BY <1>1, <1>8, <1>9

(* Somebody is voted in if there is a candidate, and at most MaxVoted are. *)
LEMMA VotedWitnesses ==
  ASSUME NEW s \in Schedule
  PROVE  /\ selected_voted(s) \subseteq Candidates(s) /\ Candidates(s) \subseteq s.created
         /\ s.created \subseteq Witnesses
         /\ Candidates(s) # {} => selected_voted(s) # {}
         /\ Cardinality(selected_voted(s)) <= MaxVoted
<1> DEFINE cs == Candidates(s)
           voted == selected_voted(s)
           above(w) == {v \in cs : VotedBefore(s, v, w)}
<1>1. cs \subseteq s.created /\ s.created \subseteq Witnesses
  BY DEF Candidates, Schedule
<1>2. voted = {w \in cs : Cardinality(above(w)) < MaxVoted}
  BY DEF selected_voted
<1>3. MaxVoted \in Nat \ {0}
  BY ScheduleAssumption
<1> HIDE DEF cs, voted
<1>4. ASSUME cs # {} PROVE voted # {}
  <2>1. PICK m \in cs : \A x \in cs : x = m \/ VotedBefore(s, m, x)
    BY <1>1, <1>4, VotedEnds
  <2>2. \A x \in cs : ~ VotedBefore(s, x, m)
    <3>1. \A x \in Witnesses : x \in Int /\ s.votes[x] \in Int
      BY ScheduleAssumption DEF Schedule, Witnesses
    <3> QED
      BY <1>1, <2>1, <3>1 DEF VotedBefore
  <2>3. above(m) = {}
    BY <2>2
  <2>4. Cardinality(above(m)) = 0
    BY <2>3, FS_EmptySet
  <2> QED
    BY <1>2, <1>3, <2>4
<1>5. Cardinality(voted) <= MaxVoted
  <2>1. CASE voted = {}
    BY <1>3, <2>1, FS_EmptySet
  <2>2. CASE voted # {}
    <3>1. voted \subseteq Witnesses
      BY <1>1, <1>2
    <3>2. PICK m \in voted : \A x \in voted : x = m \/ VotedBefore(s, x, m)
      BY <3>1, <2>2, VotedEnds
    <3>3. voted \ {m} \subseteq above(m)
      BY <1>2, <3>2
    <3>4. /\ IsFiniteSet(above(m)) /\ IsFiniteSet(voted)
          /\ Cardinality(above(m)) \in Nat /\ Cardinality(voted) \in Nat
      <4>1. above(m) \subseteq Witnesses
        BY <1>1
      <4> HIDE DEF above
      <4> QED
        BY <3>1, <4>1, FiniteWitnesses
    <3>5. Cardinality(voted \ {m}) <= Cardinality(above(m))
      <4> HIDE DEF above
      <4> QED BY <3>3, <3>4, FS_Subset
    <3>6. Cardinality(voted \ {m}) = Cardinality(voted) - 1
      BY <3>4, FS_RemoveElement
    <3>7. Cardinality(above(m)) < MaxVoted
      BY <1>2
    <3> HIDE DEF above
    <3> QED
      BY <1>3, <3>4, <3>5, <3>6, <3>7
  <2> QED
    BY <2>1, <2>2
<1> QED
  BY <1>1, <1>2, <1>4, <1>5 DEF cs, voted

(* The loop passes at least one witness, and nobody who is due later than  *)
(* one it does not pass.                                                   *)
LEMMA ProcessedWitnesses ==
  ASSUME NEW s \in Schedule, s.created # {}
  PROVE  LET voted == selected_voted(s)
             done == processed_witnesses(s, voted, Runners(s, voted))
         IN  /\ done # {} /\ done \subseteq s.created
             /\ \A w \in s.created \ done, x \in done :
                  s.virtual_scheduled_time[x] <= s.virtual_scheduled_time[w]
<1> DEFINE voted == selected_voted(s)
           runners == Runners(s, voted)
           full == Cardinality(voted \cup runners) = MaxMiners
           done == processed_witnesses(s, voted, runners)
<1>1. done = {w \in s.created : full => \E r \in runners : r = w \/ ScheduledBefore(s, w, r)}
  BY DEF processed_witnesses
<1>2. /\ voted \subseteq Witnesses /\ runners \subseteq s.created /\ s.created \subseteq Witnesses
      /\ Cardinality(voted) <= MaxVoted
  BY VotedWitnesses DEF Runners
<1>3. full => runners # {}
  <2> SUFFICES ASSUME full, runners = {} PROVE FALSE
    OBVIOUS
  <2>1. voted \cup runners = voted
    OBVIOUS
  <2>2. Cardinality(voted) = MaxMiners
    BY <2>1
  <2> QED
    BY <1>2, <2>2, ScheduleAssumption
<1> HIDE DEF voted, runners, done, full
<1>4. done # {} /\ done \subseteq s.created
  BY <1>1, <1>2, <1>3
<1>5. \A x \in Witnesses : x \in Int /\ s.virtual_scheduled_time[x] \in Int
  BY ScheduleAssumption, ModulusType DEF Schedule, Witnesses, Word
<1>6. ASSUME NEW w \in s.created \ done, NEW x \in done
      PROVE  s.virtual_scheduled_time[x] <= s.virtual_scheduled_time[w]
  <2>1. full /\ \A r \in runners : r # w /\ ~ ScheduledBefore(s, w, r)
    BY <1>1
  <2>2. PICK r \in runners : r = x \/ ScheduledBefore(s, x, r)
    BY <1>1, <2>1
  <2>3. s.virtual_scheduled_time[x] <= s.virtual_scheduled_time[r]
    BY <1>2, <1>4, <1>5, <2>2 DEF ScheduledBefore
  <2>4. s.virtual_scheduled_time[r] <= s.virtual_scheduled_time[w]
    BY <1>2, <1>5, <2>1 DEF ScheduledBefore
  <2> QED
    BY <1>2, <1>4, <1>5, <2>3, <2>4
<1> QED
  BY <1>4, <1>6 DEF voted, runners, done

(* A new lap, when no lap ends beyond the largest word.                    *)
LEMMA LapsKeepTrack ==
  ASSUME NEW s, SoundSchedule(s), NEW done, done # {}, done \subseteq s.created,
         \A w \in s.created \ done, x \in done :
           s.virtual_scheduled_time[x] <= s.virtual_scheduled_time[w]
  PROVE  SoundSchedule(advance_laps(s, done, new_virtual_time(s, done)))
<1> DEFINE due == {s.virtual_scheduled_time[w] : w \in done}
           now == new_virtual_time(s, done)
           t == advance_laps(s, done, now)
<1>1. s \in Schedule /\ done \subseteq Witnesses
  BY DEF SoundSchedule, Schedule
<1>2. IsFiniteSet(due) /\ due # {} /\ due \subseteq Word /\ due \subseteq Int
  <2>1. due # {} /\ due \subseteq Word
    BY <1>1 DEF Schedule
  <2>2. IsFiniteSet(Word) /\ Word \subseteq Int
    BY ModulusType, FS_Interval DEF Word
  <2> HIDE DEF due
  <2> QED
    BY <2>1, <2>2, FS_Subset
<1>3. now \in due /\ \A x \in due : x <= now
  <2>1. now = Max(due)
    BY DEF new_virtual_time
  <2>2. \E m \in due : \A x \in due : m >= x
    <3> HIDE DEF due
    <3>1. \E m \in due : \A x \in due : x <= m
      BY <1>2, FiniteMaximum
    <3> QED BY <1>2, <3>1
  <2> HIDE DEF due, now
  <2>3. now \in due /\ \A x \in due : now >= x
    BY <2>1, <2>2 DEF Max
  <2> QED
    BY <1>2, <2>3
<1>4. /\ now \in Word
      /\ \A w \in done : s.virtual_scheduled_time[w] <= now
      /\ \A w \in Witnesses \ done : now <= s.virtual_scheduled_time[w]
      /\ s.current_virtual_time <= now
  <2>1. PICK x \in done : now = s.virtual_scheduled_time[x]
    BY <1>3
  <2>2. now \in Word
    BY <1>2, <1>3
  <2>3. \A w \in done : s.virtual_scheduled_time[w] <= now
    BY <1>3
  <2>4. s.current_virtual_time <= now
    BY <2>1, <1>1 DEF SoundSchedule, OnTrack
  <2>5. ASSUME NEW w \in Witnesses \ done PROVE now <= s.virtual_scheduled_time[w]
    <3>1. CASE w \in s.created
      BY <2>1, <3>1
    <3>2. CASE w \notin s.created
      <4>1. s.virtual_scheduled_time[w] = LapLength
        BY <3>2 DEF SoundSchedule, OnTrack
      <4> QED
        BY <2>2, <4>1, ModulusType DEF Word, LapLength
    <3> QED
      BY <3>1, <3>2
  <2> QED
    BY <2>2, <2>3, <2>4, <2>5
<1> HIDE DEF now, due
<1>5. CASE overflows(s, now, done)
  <2>1. t = reset_virtual_schedule_time(s)
    BY <1>5 DEF advance_laps
  <2> QED
    BY <2>1, ResetKeepsTrack DEF now
<1>6. CASE ~overflows(s, now, done)
  <2>1. ASSUME NEW w \in done
        PROVE  /\ next_lap(s, now, w) \in Word /\ now <= next_lap(s, now, w)
               /\ s.votes[w] * (next_lap(s, now, w) - now) <= LapLength
    <3> DEFINE lap == LapLength \div (s.votes[w] + 1)
    <3>1. s.votes[w] \in Nat
      BY <1>1, ScheduleAssumption DEF Schedule
    <3>2. lap \in 0 .. LapLength /\ s.votes[w] * lap <= LapLength
      BY <3>1, LapBound, ModulusType
    <3>3. next_lap(s, now, w) = Wrap(now + lap) /\ ~(next_lap(s, now, w) < now)
      BY <1>6 DEF next_lap, overflows
    <3> HIDE DEF lap
    <3>4. now + lap \in Word
      BY <1>4, <3>2, <3>3, WrapProperties, ModulusType DEF Word, LapLength
    <3>5. next_lap(s, now, w) = now + lap
      BY <3>3, <3>4, WrapProperties, ModulusType DEF Word
    <3> QED
      BY <1>4, <3>1, <3>2, <3>4, <3>5, ModulusType DEF Word
  <2> DEFINE pos == [w \in Witnesses |-> IF w \in done THEN 0 ELSE s.virtual_position[w]]
             upd == [w \in Witnesses |-> IF w \in done THEN now ELSE s.virtual_last_update[w]]
             sch == [w \in Witnesses |-> IF w \in done THEN next_lap(s, now, w)
                                         ELSE s.virtual_scheduled_time[w]]
  <2>2. t = [s EXCEPT !.current_virtual_time = now, !.virtual_position = pos,
                      !.virtual_last_update = upd, !.virtual_scheduled_time = sch]
    BY <1>1, <1>6 DEF advance_laps, Schedule
  <2>3. pos \in [Witnesses -> Word] /\ upd \in [Witnesses -> Word] /\ sch \in [Witnesses -> Word]
    BY <1>1, <1>4, <2>1, ModulusType DEF Schedule, Word
  <2>4. t \in Schedule
    <3> HIDE DEF pos, upd, sch, t
    <3> QED BY <1>1, <1>4, <2>2, <2>3 DEF Schedule
  <2>5. ASSUME NEW w \in Witnesses PROVE OnTrack(t, w)
    <3>0. /\ t.current_virtual_time = now /\ t.virtual_position = pos
          /\ t.virtual_last_update = upd /\ t.virtual_scheduled_time = sch
          /\ t.votes = s.votes /\ t.created = s.created
      <4> HIDE DEF pos, upd, sch, t
      <4> QED BY <1>1, <2>2 DEF Schedule
    <3>1. CASE w \in done
      <4>1. /\ t.virtual_position[w] = 0 /\ t.virtual_last_update[w] = now
            /\ t.virtual_scheduled_time[w] = next_lap(s, now, w)
        <5> HIDE DEF t
        <5> QED BY <3>0, <3>1
      <4>2. s.votes[w] * (next_lap(s, now, w) - now) \in Int /\ w \in s.created
        BY <1>1, <1>4, <2>1, <3>1, ScheduleAssumption, ModulusType DEF Schedule, Word
      <4> HIDE DEF t, pos, upd, sch
      <4> QED
        BY <1>4, <2>1, <3>0, <3>1, <4>1, <4>2, ModulusType DEF OnTrack, Word
    <3>2. CASE w \notin done
      <4>1. /\ t.virtual_position[w] = s.virtual_position[w]
            /\ t.virtual_last_update[w] = s.virtual_last_update[w]
            /\ t.virtual_scheduled_time[w] = s.virtual_scheduled_time[w]
        <5> HIDE DEF t
        <5> QED BY <3>0, <3>2
      <4>2. /\ OnTrack(s, w) /\ now <= s.virtual_scheduled_time[w]
            /\ s.virtual_last_update[w] \in Int /\ s.current_virtual_time \in Int /\ now \in Int
        BY <1>1, <1>4, <3>2, ModulusType DEF SoundSchedule, Schedule, Word
      <4>3. s.virtual_last_update[w] <= now
        BY <1>4, <4>2 DEF OnTrack
      <4> HIDE DEF t, pos, upd, sch
      <4> QED
        BY <3>0, <4>1, <4>2, <4>3 DEF OnTrack
    <3> QED
      BY <3>1, <3>2
  <2> QED
    BY <2>4, <2>5 DEF SoundSchedule, now
<1> QED
  BY <1>5, <1>6

(* A new round.                                                            *)
LEMMA RoundKeepsTrack ==
  ASSUME NEW s, SoundSchedule(s), Candidates(s) # {}, update_witness_schedule4(s)
  PROVE  /\ SoundSchedule(sched')
         /\ sched'.created = s.created /\ sched'.keyed = s.keyed
         /\ sched'.active_witnesses # {}
<1> DEFINE voted == selected_voted(s)
           runners == Runners(s, voted)
           done == processed_witnesses(s, voted, runners)
           now == new_virtual_time(s, done)
           t == advance_laps(s, done, now)
<1>1. sched' = [t EXCEPT !.active_witnesses = voted \cup runners]
  BY DEF update_witness_schedule4
<1>2. s \in Schedule /\ s.created # {}
  BY VotedWitnesses DEF SoundSchedule
<1>3. SoundSchedule(t)
  <2>1. SoundSchedule(s) /\ done # {} /\ done \subseteq s.created
        /\ \A w \in s.created \ done, x \in done :
             s.virtual_scheduled_time[x] <= s.virtual_scheduled_time[w]
    BY <1>2, ProcessedWitnesses
  <2> HIDE DEF done
  <2> QED
    BY <2>1, LapsKeepTrack
<1>4. voted # {} /\ voted \cup runners \subseteq Witnesses
  BY <1>2, VotedWitnesses DEF Runners
<1>5. t.created = s.created /\ t.keyed = s.keyed
  BY <1>2 DEF advance_laps, reset_virtual_schedule_time, Schedule
<1> HIDE DEF t, voted, runners
<1>6. sched' \in Schedule
  BY <1>1, <1>3, <1>4 DEF SoundSchedule, Schedule
<1>7. /\ sched'.created = t.created /\ sched'.keyed = t.keyed
      /\ sched'.active_witnesses = voted \cup runners
      /\ sched'.votes = t.votes /\ sched'.current_virtual_time = t.current_virtual_time
      /\ sched'.virtual_position = t.virtual_position
      /\ sched'.virtual_last_update = t.virtual_last_update
      /\ sched'.virtual_scheduled_time = t.virtual_scheduled_time
  BY <1>1, <1>3 DEF SoundSchedule, Schedule
<1>8. \A w \in Witnesses : OnTrack(sched', w)
  BY <1>3, <1>7 DEF SoundSchedule, OnTrack
<1> QED
  BY <1>4, <1>5, <1>6, <1>7, <1>8 DEF SoundSchedule

(* At genesis.                                                             *)
LEMMA GenesisOnTrack ==
  ASSUME NEW n \in Witnesses
  PROVE  SoundSchedule(GenesisSchedule(n)) /\ 1 \in GenesisSchedule(n).created
<1> DEFINE s == GenesisSchedule(n)
<1>1. 1 .. n \subseteq Witnesses /\ 1 \in 1 .. n
  BY ScheduleAssumption DEF Witnesses
<1>2. /\ 0 \in Word /\ LapLength \in Word /\ 0 \in 0 .. MaxVotes
  BY ScheduleAssumption, ModulusType DEF Word
<1>3. s \in Schedule
  BY <1>1, <1>2 DEF GenesisSchedule, Schedule
<1>4. \A w \in Witnesses : OnTrack(s, w)
  BY ModulusType DEF GenesisSchedule, OnTrack
<1> QED
  BY <1>1, <1>3, <1>4 DEF SoundSchedule, GenesisSchedule

(* The inductive invariant of the rounds by themselves.                    *)
RoundsInv == SoundSchedule(sched) /\ sched.created \cap sched.keyed # {}

(* Every reachable schedule is sound and has a witness able to sign.       *)
LEMMA RoundsInductive == RoundsSpec => []RoundsInv
<1>1. RoundsInit => RoundsInv
  <2> SUFFICES ASSUME NEW n \in Witnesses, sched = GenesisSchedule(n) PROVE RoundsInv
    BY DEF RoundsInit
  <2> QED
    BY GenesisOnTrack DEF RoundsInv, GenesisSchedule
<1>2. RoundsInv /\ [RoundsNext]_rounds_vars => RoundsInv'
  <2> SUFFICES ASSUME RoundsInv, [RoundsNext]_rounds_vars PROVE RoundsInv'
    OBVIOUS
  <2>1. ASSUME NEW w \in Witnesses, NEW delta \in - MaxDelta .. MaxDelta, Votes(w, delta)
        PROVE  RoundsInv'
    <3>1. delta \in Int
      BY ScheduleAssumption
    <3>2. SoundSchedule(sched')
      BY <2>1, <3>1, VoteKeepsTrack DEF Votes, RoundsInv
    <3>3. sched'.created = sched.created /\ sched'.keyed = sched.keyed
      BY <2>1 DEF Votes, adjust_witness_vote, RoundsInv, SoundSchedule, Schedule
    <3> QED
      BY <3>2, <3>3 DEF RoundsInv
  <2>2. ASSUME NEW w \in Witnesses, NEW has_key \in BOOLEAN, Update(w, has_key)
        PROVE  RoundsInv'
    <3>1. SoundSchedule(sched')
      BY <2>2, UpdateKeepsTrack DEF Update, RoundsInv
    <3>2. sched'.created \cap sched'.keyed # {}
      BY <2>2 DEF Update, MayUpdate, witness_update, RoundsInv, SoundSchedule, Schedule
    <3> QED
      BY <3>1, <3>2 DEF RoundsInv
  <2>3. CASE Hardfork03
    BY <2>3 DEF Hardfork03, RoundsInv
  <2>4. CASE NewRound
    <3>1. Candidates(sched) # {}
      BY DEF Candidates, RoundsInv
    <3> QED
      BY <2>4, <3>1, RoundKeepsTrack DEF NewRound, RoundsInv
  <2>5. CASE UNCHANGED rounds_vars
    BY <2>5 DEF rounds_vars, RoundsInv
  <2> QED
    BY <2>1, <2>2, <2>3, <2>4, <2>5 DEF RoundsNext
<1> QED
  BY <1>1, <1>2, PTL DEF RoundsSpec

(* What the two inductive invariants have in common implies the property.  *)
LEMMA SoundMeansSound == SoundSchedule(sched) => VirtualTimeSound
<1> SUFFICES ASSUME SoundSchedule(sched), NEW w \in sched.created
             PROVE  /\ sched.virtual_last_update[w] <= sched.current_virtual_time
                    /\ sched.current_virtual_time <= sched.virtual_scheduled_time[w]
                    /\ RunIn(sched, w) <= LapLength
  BY DEF VirtualTimeSound
<1>1. w \in Witnesses /\ OnTrack(sched, w) /\ sched \in Schedule
  BY DEF SoundSchedule, Schedule
<1>2. /\ sched.virtual_last_update[w] \in Nat /\ sched.current_virtual_time \in Nat
      /\ sched.virtual_scheduled_time[w] \in Nat /\ sched.votes[w] \in Nat
      /\ sched.virtual_position[w] \in Nat
  BY <1>1, ScheduleAssumption, ModulusType DEF Schedule, Word
<1>3. sched.votes[w] * (sched.current_virtual_time - sched.virtual_last_update[w])
        <= sched.votes[w] * (sched.virtual_scheduled_time[w] - sched.virtual_last_update[w])
  BY <1>1, <1>2, ProductMonotonic DEF OnTrack
<1> QED
  BY <1>1, <1>2, <1>3, ModulusType DEF OnTrack, RunIn

(* The schedule object and the witness objects keep their types: every     *)
(* virtual time is a word, although laps are added to the largest of them. *)
THEOREM ScheduleTypeCorrect == RoundsSpec => []ScheduleTypeOK
<1>1. RoundsInv => ScheduleTypeOK
  BY DEF RoundsInv, SoundSchedule, ScheduleTypeOK
<1> QED
  BY <1>1, RoundsInductive, PTL

(* Virtual time runs forward for every number of witnesses, every width of *)
(* the word and every distribution of votes: no witness is due in the      *)
(* past, and the unsigned arithmetic of adjust_witness_vote never wraps    *)
(* (database.cpp:1411-1418).                                               *)
THEOREM VirtualTimeIsSound == RoundsSpec => []VirtualTimeSound
<1>1. RoundsInv => VirtualTimeSound
  BY SoundMeansSound DEF RoundsInv
<1> QED
  BY <1>1, RoundsInductive, PTL

-----------------------------------------------------------------------------
(* Slots                                                                   *)

(* Division takes whole multiples off.                                     *)
LEMMA DivShift ==
  ASSUME NEW a \in Nat, NEW k \in Nat, NEW b \in Nat \ {0}, k * b <= a
  PROVE  (a - k * b) \div b = (a \div b) - k
<1> DEFINE q == a \div b
           r == (a - k * b) \div b
           c == a - k * b
<1>1. c \in Nat /\ c = a - k * b
  OBVIOUS
<1>2. q \in Nat /\ b * q <= a /\ a < b * q + b
  BY DivProperties
<1> HIDE DEF c
<1>3. r \in Nat /\ b * r <= c /\ c < b * r + b
  BY <1>1, DivProperties DEF c
<1> HIDE DEF q, r
<1>4. b * (r + k) <= a /\ a < b * (r + k) + b
  BY <1>1, <1>3
<1>5. ASSUME NEW x \in Nat, NEW y \in Nat, b * x <= a, a < b * y + b PROVE x <= y
  <2> SUFFICES ASSUME y + 1 <= x PROVE FALSE
    OBVIOUS
  <2>1. b * (y + 1) <= b * x
    BY ProductMonotonic
  <2> QED
    BY <1>5, <2>1
<1>6. r + k <= q /\ q <= r + k
  BY <1>2, <1>3, <1>4, <1>5
<1> QED
  BY <1>2, <1>3, <1>6 DEF q, r, c

(* The time of the chain in slots: the head block may be off the grid, but *)
(* not the genesis.                                                        *)
SlotsFrom == dgp.time \in Nat /\ (dgp.head_block_number = 0 => dgp.time = GenesisTime)

(* get_slot_time: slot n is n intervals after the head block's slot.       *)
LEMMA SlotTime ==
  ASSUME SlotsFrom, NEW n \in Nat
  PROVE  get_slot_time(n) = (dgp.time \div Interval) * Interval + n * Interval
<1>1. (GenesisTime \div Interval) * Interval = GenesisTime
  BY WitnessesAssumption
<1> QED
  BY <1>1, WitnessesAssumption DEF get_slot_time, SlotsFrom

(* The slot of a time is the difference of the two in whole slots.         *)
LEMMA SlotAtTime ==
  ASSUME SlotsFrom, NEW when \in Nat, dgp.time < when, get_slot_at_time(when) > 0
  PROVE  /\ get_slot_at_time(when) = (when \div Interval) - (dgp.time \div Interval)
         /\ get_slot_at_time(when) \in Nat \ {0}
         /\ get_slot_time(1) <= when
<1> DEFINE q == dgp.time \div Interval
<1>1. q \in Nat /\ Interval \in Nat \ {0}
  BY WitnessesAssumption, DivProperties DEF SlotsFrom
<1>2. get_slot_time(1) = q * Interval + Interval
  BY SlotTime, <1>1
<1> HIDE DEF q
<1>3. ~(when < get_slot_time(1))
  BY DEF get_slot_at_time
<1>4. get_slot_at_time(when) = ((when - (q + 1) * Interval) \div Interval) + 1
  <2>1. get_slot_time(1) = (q + 1) * Interval
    BY <1>1, <1>2
  <2> QED
    BY <1>3, <2>1 DEF get_slot_at_time
<1>5. (q + 1) * Interval <= when
  BY <1>1, <1>2, <1>3
<1>6. (when - (q + 1) * Interval) \div Interval = (when \div Interval) - (q + 1)
  <2> DEFINE k == q + 1
  <2>1. k \in Nat /\ k * Interval <= when
    BY <1>1, <1>5
  <2> HIDE DEF k
  <2>2. (when - k * Interval) \div Interval = (when \div Interval) - k
    BY <1>1, <2>1, DivShift
  <2> QED
    BY <2>2 DEF k
<1>7. when \div Interval \in Nat
  BY <1>1, DivProperties
<1>8. (when - (q + 1) * Interval) \div Interval \in Nat
  BY <1>1, <1>5, DivProperties
<1> QED
  BY <1>1, <1>2, <1>3, <1>4, <1>6, <1>7, <1>8 DEF q

-----------------------------------------------------------------------------
(* Bits                                                                    *)

BitSeq == Seq({0, 1})

(* The set bits of two sequences after each other.                         *)
LEMMA OnesConcat ==
  ASSUME NEW a \in BitSeq, NEW b \in BitSeq
  PROVE  Ones(a \o b) = Ones(a) + Ones(b)
<1> DEFINE A == {i \in DOMAIN a : a[i] = 1}
           B == {i \in DOMAIN b : b[i] = 1}
           C == {i \in DOMAIN (a \o b) : (a \o b)[i] = 1}
           D == C \ A
           shift == [i \in B |-> i + Len(a)]
<1>1. Len(a) \in Nat /\ Len(b) \in Nat /\ DOMAIN a = 1 .. Len(a) /\ DOMAIN b = 1 .. Len(b)
      /\ DOMAIN (a \o b) = 1 .. Len(a) + Len(b)
  BY DEF BitSeq
<1>2. /\ \A i \in 1 .. Len(a) : (a \o b)[i] = a[i]
      /\ \A i \in 1 .. Len(b) : (a \o b)[i + Len(a)] = b[i]
  BY DEF BitSeq
<1>3. C = A \cup D /\ A \cap D = {}
  BY <1>1, <1>2
<1>4. IsFiniteSet(A) /\ IsFiniteSet(B) /\ IsFiniteSet(C) /\ IsFiniteSet(D)
  <2>1. A \subseteq 1 .. Len(a) /\ B \subseteq 1 .. Len(b)
        /\ C \subseteq 1 .. Len(a) + Len(b) /\ D \subseteq C
    BY <1>1
  <2>2. /\ IsFiniteSet(1 .. Len(a)) /\ IsFiniteSet(1 .. Len(b))
        /\ IsFiniteSet(1 .. Len(a) + Len(b))
    BY <1>1, FS_Interval
  <2> HIDE DEF A, B, C, D
  <2> QED
    BY <2>1, <2>2, FS_Subset
<1>5. shift \in Bijection(B, D)
  <2>1. \A i \in B : i + Len(a) \in D
    BY <1>1, <1>2
  <2>2. \A j \in D : j - Len(a) \in B
    <3> TAKE j \in D
    <3>1. j \in 1 .. Len(a) + Len(b) /\ (a \o b)[j] = 1 /\ j \notin A
      BY <1>1
    <3>2. j \notin 1 .. Len(a)
      BY <1>1, <1>2, <3>1
    <3>3. j - Len(a) \in 1 .. Len(b)
      BY <1>1, <3>1, <3>2
    <3>4. b[j - Len(a)] = (a \o b)[(j - Len(a)) + Len(a)]
      BY <1>2, <3>3
    <3>5. (j - Len(a)) + Len(a) = j
      BY <1>1, <3>1
    <3> QED
      BY <1>1, <3>1, <3>3, <3>4, <3>5
  <2>3. \A i \in B : i \in Int
    BY <1>1
  <2>4. \A j \in D : j \in Int
    BY <1>1
  <2> HIDE DEF A, B, C, D
  <2>5. shift \in [B -> D]
    BY <2>1
  <2>6. \A i, j \in B : shift[i] = shift[j] => i = j
    BY <1>1, <2>3
  <2>7. \A j \in D : \E i \in B : shift[i] = j
    <3> TAKE j \in D
    <3>1. shift[j - Len(a)] = j
      BY <1>1, <2>2, <2>4
    <3> QED BY <2>2, <3>1
  <2> HIDE DEF shift
  <2> QED
    BY <2>5, <2>6, <2>7 DEF Bijection, Injection, Surjection, IsInjective
<1>6. Cardinality(B) = Cardinality(D)
  <2> HIDE DEF A, B, C, D, shift
  <2>1. ExistsBijection(B, D)
    BY <1>5 DEF ExistsBijection
  <2> QED
    BY <1>4, <2>1, FS_Bijection
<1>7. Cardinality(C) = Cardinality(A) + Cardinality(D) - Cardinality(A \cap D)
  <2> HIDE DEF A, B, C, D
  <2> QED BY <1>3, <1>4, FS_Union
<1>8. Cardinality(A \cap D) = 0
  <2> HIDE DEF A, D
  <2> QED BY <1>3, FS_EmptySet
<1>9. /\ Cardinality(A) \in Nat /\ Cardinality(D) \in Nat
      /\ Ones(a) = Cardinality(A) /\ Ones(b) = Cardinality(B) /\ Ones(a \o b) = Cardinality(C)
  <2>1. Ones(a) = Cardinality(A) /\ Ones(b) = Cardinality(B) /\ Ones(a \o b) = Cardinality(C)
    BY DEF Ones
  <2> HIDE DEF A, B, C, D
  <2> QED
    BY <1>4, <2>1, FS_CardinalityType
<1> HIDE DEF A, B, C, D
<1> QED
  BY <1>6, <1>7, <1>8, <1>9

(* There are no more set bits than bits.                                   *)
LEMMA OnesBound ==
  ASSUME NEW n \in Nat, NEW a \in [1 .. n -> {0, 1}]
  PROVE  Ones(a) \in 0 .. n
<1> DEFINE A == {i \in DOMAIN a : a[i] = 1}
<1>1. A \subseteq 1 .. n
  OBVIOUS
<1>2. IsFiniteSet(1 .. n) /\ Cardinality(1 .. n) = n
  BY FS_Interval
<1> HIDE DEF A
<1>3. Cardinality(A) <= n /\ Cardinality(A) \in Nat
  <2>1. IsFiniteSet(A) /\ Cardinality(A) <= Cardinality(1 .. n)
    BY <1>1, <1>2, FS_Subset
  <2> QED
    BY <1>2, <2>1, FS_CardinalityType
<1> QED
  BY <1>3 DEF Ones, A

(* The bits after a block: the count and the window move together, and the *)
(* window stays one place behind the slots really filled.                  *)
Lagging(bits, slots) ==
  slots[Window] = 1 /\ \A i \in 1 .. Window - 1 : bits[i + 1] = slots[i]

(* The history of a block that follows m missed slots: the old bits, a 1   *)
(* for the block, and m zeros.                                             *)
LEMMA ShiftedBits ==
  ASSUME NEW bits \in [1 .. Window -> {0, 1}], NEW m \in Nat
  PROVE  /\ shifted(bits, m) \in BitSeq /\ Len(shifted(bits, m)) = Window + 1 + m
         /\ \A i \in 1 .. Window : shifted(bits, m)[i] = bits[i]
         /\ shifted(bits, m)[Window + 1] = 1
         /\ \A i \in Window + 2 .. Window + 1 + m : shifted(bits, m)[i] = 0
         /\ Ones(shifted(bits, m)) = Ones(bits) + 1
<1>0. Window \in Nat \ {0}
  BY WitnessesAssumption
<1>1. /\ bits \in BitSeq /\ Len(bits) = Window
      /\ <<1>> \in BitSeq /\ Len(<<1>>) = 1
      /\ Zeros(m) \in BitSeq /\ Len(Zeros(m)) = m /\ \A i \in 1 .. m : Zeros(m)[i] = 0
  BY <1>0 DEF BitSeq, Zeros
<1>2. bits \o <<1>> \in BitSeq /\ Len(bits \o <<1>>) = Window + 1
  BY <1>1 DEF BitSeq
<1>3. /\ shifted(bits, m) = (bits \o <<1>>) \o Zeros(m)
      /\ shifted(bits, m) \in BitSeq /\ Len(shifted(bits, m)) = Window + 1 + m
  BY <1>0, <1>1, <1>2 DEF BitSeq, shifted
<1>4. \A i \in 1 .. Window + 1 : shifted(bits, m)[i] = (bits \o <<1>>)[i]
  BY <1>0, <1>1, <1>2, <1>3 DEF BitSeq
<1>5. \A i \in Window + 2 .. Window + 1 + m :
        shifted(bits, m)[i] = Zeros(m)[i - (Window + 1)]
  BY <1>0, <1>1, <1>2, <1>3 DEF BitSeq
<1>6. /\ \A i \in 1 .. Window : (bits \o <<1>>)[i] = bits[i]
      /\ (bits \o <<1>>)[Window + 1] = 1
  BY <1>0, <1>1 DEF BitSeq
<1>7. Ones(<<1>>) = 1
  <2>1. {i \in DOMAIN <<1>> : <<1>>[i] = 1} = {1}
    OBVIOUS
  <2> QED
    BY <2>1, FS_Singleton DEF Ones
<1>8. Ones(Zeros(m)) = 0
  <2>1. {i \in DOMAIN Zeros(m) : Zeros(m)[i] = 1} = {}
    BY DEF Zeros
  <2> QED
    BY <2>1, FS_EmptySet DEF Ones
<1>9. Ones(bits) \in Nat
  BY <1>0, OnesBound
<1>10. Ones(shifted(bits, m)) = Ones(bits) + 1
  BY <1>1, <1>2, <1>3, <1>7, <1>8, <1>9, OnesConcat
<1> QED
  BY <1>0, <1>1, <1>3, <1>4, <1>5, <1>6, <1>10

(* SubSeq cuts a sequence in two.                                          *)
LEMMA CutBits ==
  ASSUME NEW q \in BitSeq, NEW n \in Nat, n <= Len(q)
  PROVE  /\ SubSeq(q, 1, n) \in BitSeq /\ SubSeq(q, n + 1, Len(q)) \in BitSeq
         /\ Len(SubSeq(q, n + 1, Len(q))) = Len(q) - n
         /\ \A i \in 1 .. Len(q) - n : SubSeq(q, n + 1, Len(q))[i] = q[n + i]
         /\ Ones(q) = Ones(SubSeq(q, 1, n)) + Ones(SubSeq(q, n + 1, Len(q)))
<1> DEFINE a == SubSeq(q, 1, n)
           b == SubSeq(q, n + 1, Len(q))
<1>1. Len(q) \in Nat /\ q \in Seq({0, 1})
  BY DEF BitSeq
<1>2. a \in Seq({0, 1}) /\ Len(a) = n /\ \A i \in 1 .. n : a[i] = q[i]
  BY <1>1
<1>3. b \in Seq({0, 1}) /\ Len(b) = Len(q) - n /\ \A i \in 1 .. Len(q) - n : b[i] = q[n + i]
  BY <1>1
<1> HIDE DEF a, b
<1>4. a \o b = q
  <2>1. a \o b \in Seq({0, 1}) /\ Len(a \o b) = Len(q)
    BY <1>1, <1>2, <1>3
  <2>2. ASSUME NEW i \in 1 .. Len(q) PROVE (a \o b)[i] = q[i]
    <3>1. CASE i <= n
      BY <1>1, <1>2, <1>3, <3>1
    <3>2. CASE i > n
      <4>1. (a \o b)[i] = b[i - n]
        BY <1>1, <1>2, <1>3, <3>2
      <4>2. i - n \in 1 .. Len(q) - n /\ n + (i - n) = i
        BY <1>1, <3>2
      <4>3. b[i - n] = q[n + (i - n)]
        BY <1>3, <4>2
      <4> QED
        BY <4>1, <4>2, <4>3
    <3>3. i <= n \/ i > n
      BY <1>1
    <3> QED
      BY <3>1, <3>2, <3>3
  <2> QED
    BY <1>1, <2>1, <2>2, SeqEqual
<1>5. Ones(q) = Ones(a) + Ones(b)
  BY <1>2, <1>3, <1>4, OnesConcat DEF BitSeq
<1> QED
  BY <1>2, <1>3, <1>5 DEF a, b, BitSeq

(* What a block with m missed slots does to the count and to the bits.     *)
LEMMA BitsAfterBlock ==
  ASSUME NEW bits \in [1 .. Window -> {0, 1}], NEW slots \in [1 .. Window -> {0, 1}],
         NEW m \in Nat, Lagging(bits, slots)
  PROVE  LET bits1 == LastOf(shifted(bits, m), Window)
             slots1 == LastOf(slots \o Zeros(m) \o <<1>>, Window)
         IN  /\ bits1 \in [1 .. Window -> {0, 1}] /\ slots1 \in [1 .. Window -> {0, 1}]
             /\ Ones(bits1)
                  = Ones(bits) + 1 - Ones(SubSeq(shifted(bits, m), 1, m + 1))
             /\ Lagging(bits1, slots1)
<1> DEFINE q == shifted(bits, m)
           f == slots \o Zeros(m) \o <<1>>
           bits1 == LastOf(q, Window)
           slots1 == LastOf(f, Window)
           n == m + 1
<1>0. Window \in Nat \ {0}
  BY WitnessesAssumption
<1>1. /\ q \in BitSeq /\ Len(q) = Window + n
      /\ \A i \in 1 .. Window : q[i] = bits[i]
      /\ q[Window + 1] = 1
      /\ \A i \in Window + 2 .. Window + n : q[i] = 0
      /\ Ones(q) = Ones(bits) + 1
  <2>1. Window + 1 + m = Window + n
    BY <1>0
  <2>2. /\ q \in BitSeq /\ Len(q) = Window + 1 + m
        /\ \A i \in 1 .. Window : q[i] = bits[i]
        /\ q[Window + 1] = 1
        /\ \A i \in Window + 2 .. Window + 1 + m : q[i] = 0
        /\ Ones(q) = Ones(bits) + 1
    BY ShiftedBits
  <2> HIDE DEF n, q
  <2> QED
    BY <2>1, <2>2
<1>2. /\ f \in BitSeq /\ Len(f) = Window + n
      /\ \A i \in 1 .. Window : f[i] = slots[i]
      /\ \A i \in Window + 1 .. Window + m : f[i] = 0
      /\ f[Window + n] = 1
  <2>1. /\ slots \in BitSeq /\ Len(slots) = Window /\ <<1>> \in BitSeq
        /\ Zeros(m) \in BitSeq /\ Len(Zeros(m)) = m /\ \A i \in 1 .. m : Zeros(m)[i] = 0
    BY <1>0 DEF BitSeq, Zeros
  <2>2. /\ slots \o Zeros(m) \in BitSeq /\ Len(slots \o Zeros(m)) = Window + m
        /\ \A i \in 1 .. Window : (slots \o Zeros(m))[i] = slots[i]
        /\ \A i \in Window + 1 .. Window + m : (slots \o Zeros(m))[i] = 0
    BY <1>0, <2>1 DEF BitSeq
  <2> DEFINE g == slots \o Zeros(m)
  <2> HIDE DEF g
  <2>3. f = g \o <<1>>
    BY DEF g
  <2>4. g \in Seq({0, 1}) /\ Len(g) = Window + m
    BY <2>2 DEF g, BitSeq
  <2>5. /\ g \o <<1>> \in BitSeq /\ Len(g \o <<1>>) = Window + n
        /\ \A i \in 1 .. Window + m : (g \o <<1>>)[i] = g[i]
        /\ (g \o <<1>>)[Window + n] = 1
    <3>1. <<1>> \in Seq({0, 1}) /\ Len(<<1>>) = 1 /\ <<1>>[1] = 1
      OBVIOUS
    <3>2. /\ g \o <<1>> \in Seq({0, 1}) /\ Len(g \o <<1>>) = Len(g) + 1
          /\ \A i \in 1 .. Len(g) + 1 :
               (g \o <<1>>)[i] = IF i <= Len(g) THEN g[i] ELSE <<1>>[i - Len(g)]
      BY <2>4, <3>1, ConcatProperties
    <3>3. Len(g) + 1 = Window + n /\ (Window + n) - Len(g) = 1
      BY <1>0, <2>4
    <3> QED
      BY <1>0, <2>4, <3>1, <3>2, <3>3 DEF BitSeq
  <2> QED
    BY <1>0, <2>2, <2>3, <2>5 DEF g
<1> HIDE DEF q, f
<1>3. /\ bits1 = SubSeq(q, n + 1, Len(q)) /\ slots1 = SubSeq(f, n + 1, Len(f))
  BY <1>0, <1>1, <1>2 DEF LastOf
<1>4. /\ bits1 \in BitSeq /\ Len(bits1) = Window
      /\ \A i \in 1 .. Window : bits1[i] = q[n + i]
      /\ Ones(q) = Ones(SubSeq(q, 1, n)) + Ones(bits1)
      /\ SubSeq(q, 1, n) \in BitSeq
  <2>1. n \in Nat /\ n <= Len(q) /\ Len(q) - n = Window
    BY <1>0, <1>1
  <2> HIDE DEF n
  <2> QED
    BY <1>1, <1>3, <2>1, CutBits
<1>5. /\ slots1 \in BitSeq /\ Len(slots1) = Window
      /\ \A i \in 1 .. Window : slots1[i] = f[n + i]
  <2>1. n \in Nat /\ n <= Len(f) /\ Len(f) - n = Window
    BY <1>0, <1>2
  <2> HIDE DEF n
  <2> QED
    BY <1>2, <1>3, <2>1, CutBits
<1>6. \A i \in 1 .. Window + m : q[i + 1] = f[i]
  <2> TAKE i \in 1 .. Window + m
  <2>1. CASE i < Window
    BY <1>0, <1>1, <1>2, <2>1 DEF Lagging
  <2>2. CASE i = Window
    BY <1>0, <1>1, <1>2, <2>2 DEF Lagging
  <2>3. CASE i > Window
    BY <1>0, <1>1, <1>2, <2>3
  <2> QED
    BY <1>0, <2>1, <2>2, <2>3
<1> HIDE DEF bits1, slots1
<1>7. bits1 \in [1 .. Window -> {0, 1}] /\ slots1 \in [1 .. Window -> {0, 1}]
  <2>1. bits1 \in [1 .. Len(bits1) -> {0, 1}] /\ slots1 \in [1 .. Len(slots1) -> {0, 1}]
    BY <1>4, <1>5, LenProperties DEF BitSeq
  <2> QED
    BY <1>4, <1>5, <2>1
<1>8. Lagging(bits1, slots1)
  <2>1. slots1[Window] = 1
    BY <1>0, <1>2, <1>5
  <2>2. ASSUME NEW i \in 1 .. Window - 1 PROVE bits1[i + 1] = slots1[i]
    <3>1. i \in 1 .. Window /\ i + 1 \in 1 .. Window /\ n + i \in 1 .. Window + m
          /\ n + (i + 1) = (n + i) + 1
      BY <1>0
    <3>2. bits1[i + 1] = q[(n + i) + 1] /\ slots1[i] = f[n + i]
      BY <1>4, <1>5, <3>1
    <3> QED
      BY <1>6, <3>1, <3>2
  <2> QED
    BY <2>1, <2>2 DEF Lagging
<1>9. Ones(bits1) = Ones(bits) + 1 - Ones(SubSeq(q, 1, n))
  <2>1. Ones(bits) \in Nat /\ Ones(bits1) \in Nat
    BY <1>0, <1>7, OnesBound
  <2>2. Ones(SubSeq(q, 1, n)) \in Nat
    <3>1. IsFiniteSet(DOMAIN SubSeq(q, 1, n))
      BY <1>4, FS_Interval DEF BitSeq
    <3> DEFINE D == DOMAIN SubSeq(q, 1, n)
               E == {i \in D : SubSeq(q, 1, n)[i] = 1}
    <3>2. E \subseteq D
      OBVIOUS
    <3> HIDE DEF E
    <3>3. Cardinality(E) \in Nat
      BY <3>1, <3>2, FS_Subset, FS_CardinalityType
    <3> QED
      BY <3>3 DEF E, Ones
  <2>3. Ones(bits) + 1 = Ones(SubSeq(q, 1, n)) + Ones(bits1)
    BY <1>1, <1>4
  <2> HIDE DEF n
  <2> QED
    BY <2>1, <2>2, <2>3
<1> QED
  BY <1>7, <1>8, <1>9 DEF bits1, slots1, q, f

(* One place behind, the window differs from the slots by its first bit.   *)
LEMMA LaggingCount ==
  ASSUME NEW bits \in [1 .. Window -> {0, 1}], NEW slots \in [1 .. Window -> {0, 1}],
         Lagging(bits, slots)
  PROVE  Ones(bits) - Ones(slots) \in {-1, 0}
<1> DEFINE h == SubSeq(bits, 1, 1)
           t == SubSeq(bits, 2, Window)
           u == SubSeq(slots, 1, Window - 1)
           v == SubSeq(slots, Window, Window)
<1>0. Window \in Nat \ {0}
  BY WitnessesAssumption
<1>1. bits \in BitSeq /\ Len(bits) = Window /\ slots \in BitSeq /\ Len(slots) = Window
  BY <1>0 DEF BitSeq
<1>2. Ones(bits) = Ones(h) + Ones(t)
  <2>1. Ones(bits) = Ones(SubSeq(bits, 1, 1)) + Ones(SubSeq(bits, 1 + 1, Len(bits)))
    BY <1>0, <1>1, CutBits
  <2> QED
    BY <1>1, <2>1
<1>3. Ones(slots) = Ones(u) + Ones(v)
  <2> DEFINE k == Window - 1
  <2>1. k \in Nat /\ k <= Len(slots) /\ k + 1 = Window
    BY <1>0, <1>1
  <2> HIDE DEF k
  <2>2. Ones(slots) = Ones(SubSeq(slots, 1, k)) + Ones(SubSeq(slots, k + 1, Len(slots)))
    BY <1>1, <2>1, CutBits
  <2> QED
    BY <1>1, <2>1, <2>2 DEF k
<1>4. /\ h \in [1 .. 1 -> {0, 1}] /\ v \in [1 .. 1 -> {0, 1}] /\ v[1] = 1
      /\ t \in [1 .. Window - 1 -> {0, 1}]
  <2>1. h \in Seq({0, 1}) /\ Len(h) = 1
    BY <1>0, <1>1 DEF BitSeq
  <2>2. v \in Seq({0, 1}) /\ Len(v) = 1 /\ v[1] = slots[Window]
    BY <1>0, <1>1 DEF BitSeq
  <2>3. t \in Seq({0, 1}) /\ Len(t) = Window - 1
    BY <1>0, <1>1 DEF BitSeq
  <2> HIDE DEF h, v, t
  <2> QED
    BY <2>1, <2>2, <2>3, LenProperties DEF Lagging
<1>5. t = u
  <2>1. /\ t \in Seq({0, 1}) /\ u \in Seq({0, 1})
        /\ Len(t) = Window - 1 /\ Len(u) = Window - 1
        /\ \A i \in 1 .. Window - 1 : t[i] = bits[i + 1] /\ u[i] = slots[i]
    BY <1>0, <1>1 DEF BitSeq
  <2>2. \A i \in 1 .. Window - 1 : t[i] = u[i]
    BY <2>1 DEF Lagging
  <2> HIDE DEF t, u
  <2> QED
    BY <2>1, <2>2, SeqEqual
<1>6. Ones(h) \in 0 .. 1 /\ Ones(t) \in Nat
  <2> DEFINE k == Window - 1
  <2>1. k \in Nat /\ t \in [1 .. k -> {0, 1}] /\ h \in [1 .. 1 -> {0, 1}]
    BY <1>0, <1>4
  <2> HIDE DEF h, t, k
  <2>2. Ones(h) \in 0 .. 1
    BY <2>1, OnesBound
  <2>3. Ones(t) \in 0 .. k
    BY <2>1, OnesBound
  <2> QED
    BY <2>1, <2>2, <2>3
<1>7. Ones(v) = 1
  <2>1. {i \in DOMAIN v : v[i] = 1} = {1}
    <3> HIDE DEF v
    <3> QED BY <1>4
  <2> QED
    BY <2>1, FS_Singleton DEF Ones
<1> HIDE DEF h, t, u, v
<1> QED
  BY <1>2, <1>3, <1>5, <1>6, <1>7

-----------------------------------------------------------------------------
(* The last irreversible block                                             *)

(* A value of a finite family that has at most k smaller ones and more     *)
(* than k that are no larger.                                              *)
LEMMA OrderStatistic ==
  ASSUME NEW n \in Nat, NEW c \in [1 .. n -> Nat], NEW k \in Nat, k < n
  PROVE  \E v \in {c[i] : i \in 1 .. n} :
           /\ Cardinality({i \in 1 .. n : c[i] < v}) <= k
           /\ Cardinality({i \in 1 .. n : c[i] <= v}) > k
<1> DEFINE D == 1 .. n
           V == {c[i] : i \in D}
           Below(v) == {i \in D : c[i] < v}
           UpTo(v) == {i \in D : c[i] <= v}
           T == {v \in V : Cardinality(UpTo(v)) > k}
<1>1. IsFiniteSet(D) /\ Cardinality(D) = n /\ D # {}
  <2>1. IsFiniteSet(D) /\ Cardinality(D) = n
    BY FS_Interval
  <2>2. 1 \in D
    OBVIOUS
  <2> HIDE DEF D
  <2> QED
    BY <2>1, <2>2
<1>2. ASSUME NEW S, S \subseteq D PROVE IsFiniteSet(S) /\ Cardinality(S) \in Nat
  BY <1>1, <1>2, FS_Subset, FS_CardinalityType
<1>3. V \subseteq Nat /\ V # {} /\ IsFiniteSet(V)
  <2>1. c \in Surjection(D, V)
    BY DEF Surjection
  <2>2. IsFiniteSet(V)
    <3> HIDE DEF D, V
    <3> QED BY <1>1, <2>1, FS_Surjection
  <2> QED
    BY <2>2
<1>4. T # {}
  <2>1. PICK m \in V : \A x \in V : x <= m
    <3>1. V \subseteq Int
      BY <1>3
    <3> HIDE DEF V
    <3> QED BY <1>3, <3>1, FiniteMaximum
  <2>2. UpTo(m) = D
    BY <2>1
  <2>3. Cardinality(UpTo(m)) > k
    BY <1>1, <2>2
  <2> QED
    BY <2>3
<1>5. PICK v \in T : \A x \in T : v <= x
  <2>1. T \subseteq Nat
    BY <1>3
  <2> HIDE DEF T
  <2> QED BY <1>4, <2>1, LeastNatural
<1>6. Cardinality(Below(v)) <= k
  <2>1. CASE Below(v) = {}
    BY <2>1, FS_EmptySet
  <2>2. CASE Below(v) # {}
    <3> DEFINE W == {x \in V : x < v}
    <3>1. W # {} /\ W \subseteq Int /\ W \subseteq V
      BY <2>2, <1>3
    <3>2. IsFiniteSet(W)
      <4> HIDE DEF W, V
      <4> QED BY <1>3, <3>1, FS_Subset
    <3>3. PICK m \in W : \A x \in W : x <= m
      <4> HIDE DEF W
      <4> QED BY <3>1, <3>2, FiniteMaximum
    <3>4. Below(v) = UpTo(m)
      <4>1. m \in V /\ m < v /\ m \in Nat /\ v \in Nat
        BY <1>3
      <4>2. \A i \in D : c[i] \in V /\ c[i] \in Nat
        OBVIOUS
      <4>3. ASSUME NEW i \in D PROVE (c[i] < v) <=> (c[i] <= m)
        <5>1. c[i] < v => c[i] \in W
          BY <4>2
        <5>2. c[i] < v => c[i] <= m
          BY <3>3, <5>1
        <5>3. c[i] <= m => c[i] < v
          <6> HIDE DEF D, V, W, T
          <6> QED BY <4>1, <4>2
        <5> QED
          BY <5>2, <5>3
      <4> QED
        BY <4>3
    <3>5. m \notin T
      <4>1. m < v /\ m \in Nat /\ v \in Nat
        BY <1>3
      <4> HIDE DEF T
      <4> QED BY <1>5, <4>1
    <3>6. ~(Cardinality(UpTo(m)) > k)
      BY <3>5
    <3>7. Cardinality(UpTo(m)) \in Nat
      <4>1. UpTo(m) \subseteq D
        OBVIOUS
      <4> HIDE DEF UpTo
      <4> QED BY <1>2, <4>1
    <3> HIDE DEF UpTo, Below
    <3> QED
      BY <3>4, <3>6, <3>7
  <2> QED
    BY <2>1, <2>2
<1>7. v \in V /\ Cardinality(UpTo(v)) > k
  OBVIOUS
<1> QED
  BY <1>6, <1>7

(* nth_element finds a block that more than half of the scheduled          *)
(* witnesses have confirmed.                                               *)
LEMMA NthConfirmed ==
  ASSUME turns \in Seq(Witnesses), turns # <<>>,
         NEW rec \in [Witnesses -> [total_missed : Nat, last_confirmed : Nat]]
  PROVE  LET new == nth_confirmed(rec, irreversible_offset(Len(turns)))
         IN  /\ \E i \in DOMAIN turns : new = rec[turns[i]].last_confirmed
             /\ 2 * Cardinality({i \in DOMAIN turns : rec[turns[i]].last_confirmed >= new})
                  > Len(turns)
<1> DEFINE n == Len(turns)
           k == irreversible_offset(n)
           c == [i \in 1 .. n |-> rec[turns[i]].last_confirmed]
           Is(v) == /\ Cardinality({i \in 1 .. n : c[i] < v}) <= k
                    /\ Cardinality({i \in 1 .. n : c[i] <= v}) > k
           V == {c[i] : i \in 1 .. n}
           new == nth_confirmed(rec, k)
<1>1. n \in Nat \ {0} /\ DOMAIN turns = 1 .. n /\ \A i \in 1 .. n : turns[i] \in Witnesses
  OBVIOUS
<1>2. c \in [1 .. n -> Nat]
  BY <1>1
<1>3. k \in Nat /\ 100 * k <= 49 * n /\ k < n
  BY <1>1 DEF irreversible_offset
<1>4. \E v \in V : Is(v)
  <2> HIDE DEF c, k, n
  <2> QED BY <1>1, <1>2, <1>3, OrderStatistic
<1>5. new = CHOOSE v \in V : Is(v)
  <2>1. /\ {rec[turns[i]].last_confirmed : i \in DOMAIN turns} = V
        /\ \A v : /\ {i \in DOMAIN turns : rec[turns[i]].last_confirmed < v} = {i \in 1 .. n : c[i] < v}
                  /\ {i \in DOMAIN turns : rec[turns[i]].last_confirmed <= v} = {i \in 1 .. n : c[i] <= v}
    BY <1>1
  <2> QED
    BY <2>1 DEF nth_confirmed
<1>6. new \in V /\ Is(new)
  <2> HIDE DEF V, Is, new
  <2> QED BY <1>4, <1>5
<1> HIDE DEF new, k
<1>7. \E i \in DOMAIN turns : new = rec[turns[i]].last_confirmed
  BY <1>1, <1>6
<1>8. 2 * Cardinality({i \in DOMAIN turns : rec[turns[i]].last_confirmed >= new}) > n
  <2> DEFINE A == {i \in 1 .. n : c[i] < new}
             B == {i \in DOMAIN turns : rec[turns[i]].last_confirmed >= new}
  <2>1. A \cup B = 1 .. n /\ A \cap B = {} /\ Cardinality(A) <= k
    <3>1. new \in Nat
      BY <1>2, <1>6
    <3>2. \A i \in 1 .. n : rec[turns[i]].last_confirmed = c[i] /\ c[i] \in Nat
      BY <1>2
    <3> QED
      BY <1>1, <1>6, <3>1, <3>2
  <2>2. IsFiniteSet(1 .. n) /\ Cardinality(1 .. n) = n
    BY <1>1, FS_Interval
  <2> HIDE DEF A, B, n
  <2>3. IsFiniteSet(A) /\ IsFiniteSet(B) /\ Cardinality(A) \in Nat /\ Cardinality(B) \in Nat
    <3>1. A \subseteq 1 .. n /\ B \subseteq 1 .. n
      BY <2>1
    <3> QED BY <2>2, <3>1, FS_Subset, FS_CardinalityType
  <2>4. Cardinality(A \cup B) = Cardinality(A) + Cardinality(B) - Cardinality(A \cap B)
    BY <2>3, FS_Union
  <2>5. Cardinality(A \cap B) = 0
    BY <2>1, FS_EmptySet
  <2>6. n = Cardinality(A) + Cardinality(B)
    <3>1. Cardinality(A \cup B) = n
      BY <2>1, <2>2
    <3> QED
      BY <2>3, <2>4, <2>5, <3>1
  <2>7. 2 * Cardinality(B) > n
    BY <1>1, <1>3, <2>1, <2>3, <2>6
  <2> QED
    BY <2>7 DEF B
<1> QED
  BY <1>7, <1>8 DEF new, k

-----------------------------------------------------------------------------
(* Missed slots                                                            *)

(* The turns held against the witnesses are no more than were missed.      *)
LEMMA MissedTurns ==
  ASSUME NEW w, NEW when, MissedSlots(when) \in Nat
  PROVE  /\ \A x \in Witnesses : missed_by(x, w, when) \in Nat
         /\ SumFunctionOnSet([x \in Witnesses |-> missed_by(x, w, when)], Witnesses)
              <= MissedSlots(when)
<1> DEFINE m == MissedSlots(when)
           I == 1 .. m
           t == [i \in I |-> get_scheduled_witness(i)]
           all == [x \in Witnesses |-> Cardinality({i \in I : t[i] = x})]
           by == [x \in Witnesses |-> missed_by(x, w, when)]
           On == {i \in I : t[i] \in Witnesses}
<1>1. IsFiniteSet(I) /\ Cardinality(I) = m
  BY FS_Interval
<1>2. IsFiniteSet(Witnesses)
  BY FiniteWitnesses
<1>3. \A x \in Witnesses : all[x] \in Nat
  <2> TAKE x \in Witnesses
  <2> DEFINE S == {i \in I : t[i] = x}
  <2>1. S \subseteq I
    OBVIOUS
  <2> HIDE DEF S, I
  <2>2. Cardinality(S) \in Nat
    BY <1>1, <2>1, FS_Subset, FS_CardinalityType
  <2> QED
    BY <2>2 DEF S
<1>4. \A x \in Witnesses : by[x] \in {0, all[x]}
  <2> TAKE x \in Witnesses
  <2>1. {i \in I : get_scheduled_witness(i) = x} = {i \in I : t[i] = x}
    OBVIOUS
  <2> QED
    BY <2>1 DEF missed_by
<1>5. SumFunctionOnSet(all, Witnesses) = Cardinality(On)
  <2> HIDE DEF t, I
  <2> QED BY <1>1, <1>2, SumFibres
<1>6. Cardinality(On) <= m
  <2>1. On \subseteq I
    OBVIOUS
  <2> HIDE DEF On, I
  <2> QED BY <1>1, <2>1, FS_Subset
<1>7. Cardinality(On) \in Nat
  <2>1. On \subseteq I
    OBVIOUS
  <2> HIDE DEF On, I
  <2> QED BY <1>1, <2>1, FS_Subset, FS_CardinalityType
<1> HIDE DEF all, by, On, I, m
<1>8. Numeric(all, Witnesses) /\ Numeric(by, Witnesses)
      /\ \A x \in Witnesses : by[x] <= all[x] /\ by[x] \in Nat
  BY <1>2, <1>3, <1>4 DEF Numeric
<1>9. SumFunctionOnSet(by, Witnesses) <= SumFunctionOnSet(all, Witnesses)
  BY <1>8, SumMonotonic
<1>10. SumFunctionOnSet(by, Witnesses) \in Int
  BY <1>8, SumInt
<1>11. SumFunctionOnSet(by, Witnesses) <= m
  BY <1>5, <1>6, <1>7, <1>9, <1>10 DEF m
<1> QED
  BY <1>8, <1>11 DEF by, m

-----------------------------------------------------------------------------
(* The chain                                                               *)

(* Votes that wait for the time of their hardfork were counted.            *)
MandateInv ==
  hardforks.last_hardfork < hardforks.next_hardfork => mandate >= Required

(* Nothing is confirmed or irreversible beyond the head; before voting     *)
(* takes over the last irreversible block is a round behind.               *)
IrreversibleInv ==
  /\ dgp.last_irreversible_block_num <= dgp.head_block_number
  /\ \A x \in Witnesses : record[x].last_confirmed <= dgp.head_block_number
  /\ dgp.head_block_number < StartVoting =>
       dgp.last_irreversible_block_num =
         IF dgp.head_block_number > MaxMiners THEN dgp.head_block_number - MaxMiners ELSE 0

BitsInv ==
  /\ dgp.participation_count = Ones(dgp.recent_slots_filled)
  /\ Lagging(dgp.recent_slots_filled, filled)

SlotsInv == SlotsFrom /\ GenesisTime <= dgp.time /\ SlotsAccounted

ChainInv ==
  /\ TypeOK /\ SoundSchedule(sched)
  /\ SlotsInv /\ BitsInv /\ IrreversibleInv /\ MandateInv

(* The fields of dgp and of the records after a block.                     *)
LEMMA BlockFields ==
  ASSUME ChainInv, NEW w \in Witnesses, NEW when \in Nat, NEW s, _apply_block(w, when, s)
  PROVE  LET m == MissedSlots(when)
             lib == dgp.last_irreversible_block_num
             new == nth_confirmed(record', irreversible_offset(Len(turns)))
         IN  /\ m \in Nat /\ m + 1 = get_slot_at_time(when) /\ dgp.time < when
             /\ m + 1 = (when \div Interval) - (dgp.time \div Interval)
             /\ dgp'.head_block_number = dgp.head_block_number + 1
             /\ dgp'.time = when
             /\ dgp'.current_aslot = dgp.current_aslot + m + 1
             /\ dgp'.recent_slots_filled
                  = LastOf(shifted(dgp.recent_slots_filled, m), Window)
             /\ dgp'.participation_count = participation_count(dgp, m)
             /\ dgp.head_block_number + 1 < StartVoting =>
                  dgp'.last_irreversible_block_num =
                    IF dgp.head_block_number + 1 > MaxMiners
                    THEN dgp.head_block_number + 1 - MaxMiners ELSE lib
             /\ dgp.head_block_number + 1 >= StartVoting =>
                  dgp'.last_irreversible_block_num = IF new > lib THEN new ELSE lib
             /\ dgp' = [head_block_number |-> dgp'.head_block_number, time |-> dgp'.time,
                        current_aslot |-> dgp'.current_aslot,
                        recent_slots_filled |-> dgp'.recent_slots_filled,
                        participation_count |-> dgp'.participation_count,
                        last_irreversible_block_num |-> dgp'.last_irreversible_block_num]
             /\ filled' = LastOf(filled \o Zeros(m) \o <<1>>, Window)
<1> DEFINE m == MissedSlots(when)
           d == dynamic_data(when)
<1>1. dgp.time < when /\ get_slot_at_time(when) > 0
  BY DEF _apply_block, validate_block_header
<1>2. /\ get_slot_at_time(when) = (when \div Interval) - (dgp.time \div Interval)
      /\ get_slot_at_time(when) \in Nat \ {0}
  BY <1>1, SlotAtTime DEF ChainInv, SlotsInv
<1>3. m \in Nat /\ m + 1 = get_slot_at_time(when)
  BY <1>2 DEF MissedSlots
<1> HIDE DEF m
<1>4. /\ dgp.head_block_number \in Nat /\ StartVoting \in Nat /\ MaxMiners \in Nat
      /\ dgp \in [head_block_number : Nat, time : Nat, current_aslot : Nat,
              recent_slots_filled : [1 .. Window -> {0, 1}],
              participation_count : 0 .. Window,
              last_irreversible_block_num : Nat]
  BY ScheduleAssumption, WitnessesAssumption DEF ChainInv, TypeOK
<1>5. /\ d.head_block_number = dgp.head_block_number + 1
      /\ d.time = when
      /\ d.current_aslot = dgp.current_aslot + m + 1
      /\ d.recent_slots_filled = LastOf(shifted(dgp.recent_slots_filled, m), Window)
      /\ d.participation_count = participation_count(dgp, m)
      /\ d.last_irreversible_block_num = dgp.last_irreversible_block_num
      /\ d = [head_block_number |-> d.head_block_number, time |-> d.time,
              current_aslot |-> d.current_aslot,
              recent_slots_filled |-> d.recent_slots_filled,
              participation_count |-> d.participation_count,
              last_irreversible_block_num |-> d.last_irreversible_block_num]
  <2> DEFINE recent == LastOf(shifted(dgp.recent_slots_filled, m), Window)
             count == participation_count(dgp, m)
             aslot == dgp.current_aslot + m + 1
  <2>1. d = [dgp EXCEPT !.head_block_number = dgp.head_block_number + 1, !.time = when,
               !.current_aslot = aslot, !.recent_slots_filled = recent,
               !.participation_count = count]
    BY DEF dynamic_data, m
  <2> HIDE DEF recent, count, aslot, d
  <2>2. /\ d.head_block_number = dgp.head_block_number + 1
        /\ d.time = when /\ d.current_aslot = aslot
        /\ d.recent_slots_filled = recent /\ d.participation_count = count
        /\ d.last_irreversible_block_num = dgp.last_irreversible_block_num
        /\ d = [head_block_number |-> d.head_block_number, time |-> d.time,
                current_aslot |-> d.current_aslot,
                recent_slots_filled |-> d.recent_slots_filled,
                participation_count |-> d.participation_count,
                last_irreversible_block_num |-> d.last_irreversible_block_num]
    BY <1>4, <2>1
  <2> QED
    BY <2>2 DEF recent, count, aslot
<1>6. dgp' = update_last_irreversible_block(d, record')
  BY DEF _apply_block
<1>7. filled' = LastOf(filled \o Zeros(m) \o <<1>>, Window)
  BY DEF _apply_block, m
<1> HIDE DEF d
<1>8. /\ dgp'.head_block_number = d.head_block_number
      /\ dgp'.time = d.time
      /\ dgp'.current_aslot = d.current_aslot
      /\ dgp'.recent_slots_filled = d.recent_slots_filled
      /\ dgp'.participation_count = d.participation_count
      /\ dgp' = [head_block_number |-> dgp'.head_block_number, time |-> dgp'.time,
                 current_aslot |-> dgp'.current_aslot,
                 recent_slots_filled |-> dgp'.recent_slots_filled,
                 participation_count |-> dgp'.participation_count,
                 last_irreversible_block_num |-> dgp'.last_irreversible_block_num]
  BY <1>5, <1>6 DEF update_last_irreversible_block
<1> DEFINE new == nth_confirmed(record', irreversible_offset(Len(turns)))
<1>9. d.head_block_number = dgp.head_block_number + 1 /\ d.head_block_number \in Nat
  BY <1>4, <1>5
<1>10. dgp.head_block_number + 1 < StartVoting =>
         dgp'.last_irreversible_block_num =
           IF dgp.head_block_number + 1 > MaxMiners
           THEN dgp.head_block_number + 1 - MaxMiners ELSE dgp.last_irreversible_block_num
  <2> SUFFICES ASSUME dgp.head_block_number + 1 < StartVoting
               PROVE  dgp'.last_irreversible_block_num =
                        IF dgp.head_block_number + 1 > MaxMiners
                        THEN dgp.head_block_number + 1 - MaxMiners
                        ELSE dgp.last_irreversible_block_num
    OBVIOUS
  <2>1. d.head_block_number < StartVoting /\ ~(d.head_block_number >= StartVoting)
    BY <1>4, <1>9
  <2>2. d.last_irreversible_block_num = dgp.last_irreversible_block_num
    BY <1>5
  <2>3. dgp'.last_irreversible_block_num =
          IF d.head_block_number > MaxMiners
          THEN d.head_block_number - MaxMiners ELSE d.last_irreversible_block_num
    BY <1>5, <1>6, <2>1 DEF update_last_irreversible_block
  <2> QED
    BY <1>4, <1>9, <2>2, <2>3
<1>13. dgp.head_block_number + 1 >= StartVoting =>
         dgp'.last_irreversible_block_num =
           IF new > dgp.last_irreversible_block_num
           THEN new ELSE dgp.last_irreversible_block_num
  <2> SUFFICES ASSUME dgp.head_block_number + 1 >= StartVoting
               PROVE  dgp'.last_irreversible_block_num =
                        IF new > dgp.last_irreversible_block_num
                        THEN new ELSE dgp.last_irreversible_block_num
    OBVIOUS
  <2>1. d.head_block_number >= StartVoting /\ ~(d.head_block_number < StartVoting)
    BY <1>4, <1>9
  <2>2. d.last_irreversible_block_num = dgp.last_irreversible_block_num
    BY <1>5
  <2>3. dgp'.last_irreversible_block_num =
          IF new > d.last_irreversible_block_num
          THEN new ELSE d.last_irreversible_block_num
    BY <1>5, <1>6, <2>1 DEF update_last_irreversible_block
  <2> QED
    BY <2>2, <2>3
<1>11. m + 1 = (when \div Interval) - (dgp.time \div Interval)
  BY <1>2, <1>3
<1>12. /\ dgp'.head_block_number = dgp.head_block_number + 1
       /\ dgp'.time = when
       /\ dgp'.current_aslot = dgp.current_aslot + m + 1
       /\ dgp'.recent_slots_filled = LastOf(shifted(dgp.recent_slots_filled, m), Window)
       /\ dgp'.participation_count = participation_count(dgp, m)
  BY <1>5, <1>8
<1> QED
  BY <1>1, <1>3, <1>7, <1>8, <1>10, <1>11, <1>12, <1>13 DEF m

(* The transactions of a block.                                            *)
LEMMA TransactionsKeepTrack ==
  ASSUME SoundSchedule(sched), NEW s \in Transactions(sched)
  PROVE  SoundSchedule(s)
<1>1. CASE \E x \in sched.created, delta \in - MaxDelta .. MaxDelta :
             /\ sched.votes[x] + delta \in 0 .. MaxVotes
             /\ s = adjust_witness_vote(sched, x, delta)
  <2>1. PICK x \in sched.created, delta \in - MaxDelta .. MaxDelta :
           /\ sched.votes[x] + delta \in 0 .. MaxVotes
           /\ s = adjust_witness_vote(sched, x, delta)
    BY <1>1
  <2>2. x \in Witnesses /\ delta \in Int
    BY ScheduleAssumption DEF SoundSchedule, Schedule
  <2> QED
    BY <2>1, <2>2, VoteKeepsTrack
<1>2. CASE \E x \in Witnesses, has_key \in BOOLEAN : s = witness_update(sched, x, has_key)
  BY <1>2, UpdateKeepsTrack
<1> DEFINE Moves(x) == {adjust_witness_vote(sched, x, delta) :
                         delta \in {d \in - MaxDelta .. MaxDelta :
                                      sched.votes[x] + d \in 0 .. MaxVotes}}
           Updates(x) == {witness_update(sched, x, has_key) : has_key \in BOOLEAN}
           M == {Moves(x) : x \in sched.created}
           U == {Updates(x) : x \in Witnesses}
<1>3. Transactions(sched) = (UNION M) \cup (UNION U)
  BY Zenon DEF Transactions
<1>4. (\A A \in M : \E x \in sched.created : A = Moves(x))
      /\ \A A \in U : \E x \in Witnesses : A = Updates(x)
  BY Zenon
<1> HIDE DEF M, U, Moves, Updates
<1>5. \E A \in M \cup U : s \in A
  BY <1>3
<1>6. \/ \E x \in sched.created : s \in Moves(x)
      \/ \E x \in Witnesses : s \in Updates(x)
  BY <1>4, <1>5
<1> QED
  BY <1>1, <1>2, <1>6 DEF Moves, Updates

(* A shuffle of some witnesses is a schedule.                              *)
LEMMA ShufflesAreTurns ==
  ASSUME NEW W, W \subseteq Witnesses, W # {}, NEW q \in Shuffles(W)
  PROVE  q \in Seq(Witnesses) /\ q # <<>>
<1> DEFINE n == Cardinality(W)
<1>1. IsFiniteSet(W) /\ n \in Nat
  BY FiniteWitnesses
<1>2. n # 0
  BY <1>1, FS_EmptySet
<1>3. q \in [1 .. n -> W]
  BY DEF Shuffles
<1> HIDE DEF n
<1>4. q \in Seq(W) /\ Len(q) = n
  BY <1>1, <1>3
<1> QED
  BY <1>2, <1>4

(* The schedule after a block.                                             *)
LEMMA BlockSchedule ==
  ASSUME ChainInv, NEW w \in Witnesses, NEW when \in Nat, NEW s, SoundSchedule(s),
         _apply_block(w, when, s)
  PROVE  SoundSchedule(sched') /\ turns' \in Seq(Witnesses) /\ turns' # <<>>
<1> DEFINE K == keys_lost(w, when)
           t == [s EXCEPT !.keyed = @ \ K]
<1>1. (s.created \cap s.keyed) \ K # {} /\ update_witness_schedule(t)
  BY DEF _apply_block
<1> HIDE DEF K
<1>2. SoundSchedule(t)
  BY LostKeysKeepTrack
<1>3. t.created \cap t.keyed # {}
  BY <1>1 DEF SoundSchedule, Schedule
<1> HIDE DEF t
<1>4. CASE sched' = t /\ UNCHANGED turns
  BY <1>2, <1>4 DEF ChainInv, TypeOK
<1>5. CASE update_witness_schedule4(t) /\ turns' \in Shuffles(sched'.active_witnesses)
  <2>1. Candidates(t) # {}
    BY <1>3 DEF Candidates
  <2>2. SoundSchedule(sched') /\ sched'.active_witnesses # {}
    BY <1>2, <1>5, <2>1, RoundKeepsTrack
  <2>3. sched'.active_witnesses \subseteq Witnesses
    BY <2>2 DEF SoundSchedule, Schedule
  <2> QED
    BY <1>5, <2>2, <2>3, ShufflesAreTurns
<1> QED
  BY <1>1, <1>4, <1>5 DEF update_witness_schedule

(* Votes that wait for the time of their hardfork have been counted at the *)
(* end of a round.                                                         *)
LEMMA BlockHardforks ==
  ASSUME ChainInv, NEW w \in Witnesses, NEW when \in Nat, NEW s, _apply_block(w, when, s)
  PROVE  /\ hardforks' \in [last_hardfork : 0 .. NumHardforks, next_hardfork : Versions,
                            vote : [Witnesses -> Versions]]
         /\ mandate' \in Nat /\ has_hardfork_0_3' \in BOOLEAN
         /\ MandateInv'
         /\ hardforks'.last_hardfork # hardforks.last_hardfork => mandate' >= Required
<1> DEFINE HF == [last_hardfork : 0 .. NumHardforks, next_hardfork : Versions,
                  vote : [Witnesses -> Versions]]
           h1 == with_vote(w)
           h2 == hardforks_after(w)
           won == {v \in Versions : Cardinality(Voters(h1, v)) >= Required}
<1>1. /\ hardforks \in HF /\ binary \in [Witnesses -> Versions] /\ mandate \in Nat
      /\ NumHardforks \in Nat /\ Required \in Nat /\ turns \in Seq(Witnesses)
  BY WitnessesAssumption DEF ChainInv, TypeOK
<1>2. hardfork_vote(w) \in Versions
  <2>1. /\ hardforks.last_hardfork \in 0 .. NumHardforks /\ hardforks.vote[w] \in Versions
        /\ binary[w] \in Versions
    BY <1>1
  <2> QED
    BY <1>1, <2>1 DEF hardfork_vote, Versions
<1>3. /\ h1 \in HF /\ h1.last_hardfork = hardforks.last_hardfork
      /\ h1.next_hardfork = hardforks.next_hardfork
  BY <1>1, <1>2 DEF with_vote
<1> HIDE DEF h1
<1>4. \A v \in Versions : Cardinality(Voters(h1, v)) \in Nat
  <2> TAKE v \in Versions
  <2>1. IsFiniteSet(1 .. Len(turns)) /\ Voters(h1, v) \subseteq 1 .. Len(turns)
    <3>1. Len(turns) \in Nat /\ DOMAIN turns = 1 .. Len(turns)
      BY <1>1
    <3>2. IsFiniteSet(1 .. Len(turns))
      BY <3>1, FS_Interval
    <3> QED
      BY <3>1, <3>2 DEF Voters
  <2> QED
    BY <2>1, FS_Subset, FS_CardinalityType
<1>5. /\ h2 \in HF /\ h2.last_hardfork = hardforks.last_hardfork
      /\ mandate' \in Nat
      /\ h2.last_hardfork < h2.next_hardfork => mandate' >= Required
  <2>1. CASE EndOfRound
    <3> DEFINE next == IF won = {} THEN h1.last_hardfork ELSE CHOOSE v \in won : TRUE
    <3>1. h2 = [h1 EXCEPT !.next_hardfork = next]
      BY <2>1 DEF hardforks_after, count_hardfork_votes, h1
    <3>2. won # {} => next \in won
      OBVIOUS
    <3>3. next \in Versions /\ h1.last_hardfork \in Int
      BY <1>1, <1>3, <3>2 DEF Versions
    <3>4. mandate' = Cardinality(Voters(h2, h2.next_hardfork))
      BY <2>1 DEF _apply_block
    <3>5. won = {} => next = h1.last_hardfork
      OBVIOUS
    <3> HIDE DEF next, h2
    <3>6. /\ h2 \in HF /\ h2.last_hardfork = h1.last_hardfork
          /\ h2.next_hardfork = next /\ h2.vote = h1.vote
      BY <1>3, <3>1, <3>3
    <3>7. Voters(h2, h2.next_hardfork) = Voters(h1, next)
      BY <3>6 DEF Voters
    <3>8. won # {} => Cardinality(Voters(h1, next)) >= Required
      BY <3>2
    <3> HIDE DEF won
    <3> QED
      BY <1>3, <1>4, <3>3, <3>4, <3>5, <3>6, <3>7, <3>8
  <2>2. CASE ~EndOfRound
    <3>1. h2 = h1 /\ mandate' = mandate
      BY <2>2 DEF hardforks_after, _apply_block, h1
    <3> QED
      BY <1>1, <1>3, <3>1 DEF ChainInv, MandateInv
  <2> QED
    BY <2>1, <2>2
<1>6. /\ hardforks' = [h2 EXCEPT !.last_hardfork =
                         IF DueHardfork(h2, when) THEN h2.next_hardfork
                                                  ELSE h2.last_hardfork]
      /\ KnownHardfork(h2, when)
      /\ has_hardfork_0_3' \in BOOLEAN
  BY DEF _apply_block, process_hardforks
<1> HIDE DEF h2
<1>7. /\ hardforks' \in HF
      /\ hardforks'.next_hardfork = h2.next_hardfork
      /\ hardforks'.last_hardfork = IF DueHardfork(h2, when) THEN h2.next_hardfork
                                                             ELSE h2.last_hardfork
  <2>1. DueHardfork(h2, when) => h2.next_hardfork \in 0 .. NumHardforks
    BY <1>1, <1>5, <1>6 DEF KnownHardfork, Versions
  <2> QED
    BY <1>5, <1>6, <2>1
<1>8. h2.next_hardfork \in Int /\ h2.last_hardfork \in Int
  BY <1>1, <1>5 DEF Versions
<1>9. MandateInv'
  BY <1>5, <1>7, <1>8 DEF MandateInv
<1>10. hardforks'.last_hardfork # hardforks.last_hardfork => mandate' >= Required
  BY <1>5, <1>7 DEF DueHardfork
<1> QED
  BY <1>5, <1>6, <1>7, <1>9, <1>10

(* The records after a block.                                              *)
LEMMA BlockRecords ==
  ASSUME ChainInv, NEW w \in Witnesses, NEW when \in Nat, NEW s, _apply_block(w, when, s)
  PROVE  /\ record' \in [Witnesses -> [total_missed : Nat, last_confirmed : Nat]]
         /\ \A x \in Witnesses :
              /\ record'[x].total_missed = record[x].total_missed + missed_by(x, w, when)
              /\ record'[x].last_confirmed \in
                   {record[x].last_confirmed, dgp.head_block_number + 1}
<1>1. MissedSlots(when) \in Nat
  BY BlockFields
<1>2. \A x \in Witnesses : missed_by(x, w, when) \in Nat
  BY <1>1, MissedTurns
<1>3. /\ record \in [Witnesses -> [total_missed : Nat, last_confirmed : Nat]]
      /\ dgp.head_block_number \in Nat
  BY DEF ChainInv, TypeOK
<1>4. record' = records(w, when)
  BY DEF _apply_block
<1>5. \A x \in Witnesses :
        /\ record'[x].total_missed = record[x].total_missed + missed_by(x, w, when)
        /\ record'[x].last_confirmed \in
             {record[x].last_confirmed, dgp.head_block_number + 1}
  BY <1>4 DEF records
<1>6. ASSUME NEW x \in Witnesses
      PROVE  records(w, when)[x] \in [total_missed : Nat, last_confirmed : Nat]
  BY <1>2, <1>3 DEF records
<1>7. records(w, when) \in [Witnesses -> [total_missed : Nat, last_confirmed : Nat]]
  BY <1>6 DEF records
<1> QED
  BY <1>4, <1>5, <1>7

(* A block moves current_aslot by whole slots, one for itself and one for  *)
(* each that was missed before it.                                         *)
LEMMA BlockSlots ==
  ASSUME ChainInv, NEW w \in Witnesses, NEW when \in Nat, NEW s, _apply_block(w, when, s)
  PROVE  SlotsInv'
<1> DEFINE m == MissedSlots(when)
           g == GenesisTime \div Interval
           f == [x \in Witnesses |-> record[x].total_missed]
           by == [x \in Witnesses |-> missed_by(x, w, when)]
           f1 == [x \in Witnesses |-> record'[x].total_missed]
<1>1. /\ m \in Nat /\ dgp.time < when /\ dgp'.time = when
      /\ m + 1 = (when \div Interval) - (dgp.time \div Interval)
      /\ dgp'.head_block_number = dgp.head_block_number + 1
      /\ dgp'.current_aslot = dgp.current_aslot + m + 1
  BY BlockFields
<1>2. /\ dgp.time \in Nat /\ dgp.head_block_number \in Nat /\ dgp.current_aslot \in Nat
      /\ Interval \in Nat \ {0} /\ GenesisTime \in Nat /\ GenesisTime <= dgp.time
      /\ record \in [Witnesses -> [total_missed : Nat, last_confirmed : Nat]]
  BY WitnessesAssumption DEF ChainInv, TypeOK, SlotsInv
<1>3. g \in Nat /\ g * Interval = GenesisTime
  BY WitnessesAssumption, DivProperties
<1>4. SlotsFrom' /\ GenesisTime <= dgp'.time
  BY <1>1, <1>2 DEF SlotsFrom
<1>5. dgp'.current_aslot = (dgp'.time - GenesisTime) \div Interval
  <2> HIDE DEF g, m
  <2>1. (dgp.time - g * Interval) \div Interval = (dgp.time \div Interval) - g
    BY <1>2, <1>3, DivShift
  <2>2. (when - g * Interval) \div Interval = (when \div Interval) - g
    <3>1. g * Interval <= when
      BY <1>1, <1>2, <1>3
    <3> QED
      BY <1>2, <1>3, <3>1, DivShift
  <2>3. dgp.current_aslot = (dgp.time - g * Interval) \div Interval
    BY <1>3 DEF ChainInv, SlotsInv, SlotsAccounted
  <2>4. dgp.time \div Interval \in Nat /\ when \div Interval \in Nat
    BY <1>2, DivProperties
  <2>5. dgp'.current_aslot = (when - g * Interval) \div Interval
    BY <1>1, <1>3, <2>1, <2>2, <2>3, <2>4
  <2> QED
    BY <1>1, <1>3, <2>5
<1>6. dgp'.head_block_number + SumFunctionOnSet(f1, Witnesses) <= dgp'.current_aslot
  <2>1. \A x \in Witnesses : by[x] \in Nat
    BY <1>1, MissedTurns
  <2>2. SumFunctionOnSet(by, Witnesses) <= m
    BY <1>1, MissedTurns
  <2>3. dgp.head_block_number + SumFunctionOnSet(f, Witnesses) <= dgp.current_aslot
    BY DEF ChainInv, SlotsInv, SlotsAccounted, SumFunction
  <2>4. \A x \in Witnesses : f[x] \in Nat /\ f1[x] = f[x] + by[x]
    BY <1>2, BlockRecords
  <2>5. IsFiniteSet(Witnesses)
    BY FiniteWitnesses
  <2> HIDE DEF f, by, f1, m
  <2>6. /\ Numeric(f, Witnesses) /\ SumFunctionOnSet(f, Witnesses) \in Nat
        /\ Numeric(by, Witnesses) /\ SumFunctionOnSet(by, Witnesses) \in Nat
    BY <2>1, <2>4, <2>5, SumNat
  <2>7. SumFunctionOnSet(f1, Witnesses)
          = SumFunctionOnSet(f, Witnesses) + SumFunctionOnSet(by, Witnesses)
    BY <2>4, <2>6, SumAdd
  <2> QED
    BY <1>1, <1>2, <2>2, <2>3, <2>6, <2>7
<1> QED
  BY <1>4, <1>5, <1>6 DEF SlotsInv, SlotsAccounted, SumFunction

(* The window after a block.                                               *)
LEMMA BlockBits ==
  ASSUME ChainInv, NEW w \in Witnesses, NEW when \in Nat, NEW s, _apply_block(w, when, s)
  PROVE  /\ BitsInv'
         /\ dgp'.recent_slots_filled \in [1 .. Window -> {0, 1}]
         /\ filled' \in [1 .. Window -> {0, 1}]
         /\ dgp'.participation_count \in 0 .. Window
<1> DEFINE m == MissedSlots(when)
           bits == dgp.recent_slots_filled
           bits1 == LastOf(shifted(bits, m), Window)
           slots1 == LastOf(filled \o Zeros(m) \o <<1>>, Window)
<1>1. /\ m \in Nat
      /\ dgp'.recent_slots_filled = bits1 /\ filled' = slots1
      /\ dgp'.participation_count = participation_count(dgp, m)
  BY BlockFields
<1>2. /\ bits \in [1 .. Window -> {0, 1}] /\ filled \in [1 .. Window -> {0, 1}]
      /\ Lagging(bits, filled) /\ dgp.participation_count = Ones(bits)
  BY DEF ChainInv, TypeOK, BitsInv
<1> HIDE DEF m, bits
<1>3. /\ bits1 \in [1 .. Window -> {0, 1}] /\ slots1 \in [1 .. Window -> {0, 1}]
      /\ Ones(bits1) = Ones(bits) + 1 - Ones(SubSeq(shifted(bits, m), 1, m + 1))
      /\ Lagging(bits1, slots1)
  BY <1>1, <1>2, BitsAfterBlock
<1>4. participation_count(dgp, m) = Ones(bits1)
  BY <1>2, <1>3 DEF participation_count, bits
<1>5. Ones(bits1) \in 0 .. Window
  <2> HIDE DEF bits1
  <2>1. Window \in Nat
    BY WitnessesAssumption
  <2> QED
    BY <1>3, <2>1, OnesBound
<1> HIDE DEF bits1, slots1
<1> QED
  BY <1>1, <1>3, <1>4, <1>5 DEF BitsInv

(* The step of IrreversibleBacked.                                         *)
BackedStep ==
  LET lib == dgp'.last_irreversible_block_num
      head == dgp'.head_block_number
      backing == {i \in DOMAIN turns : record'[turns[i]].last_confirmed >= lib}
  IN  /\ dgp.last_irreversible_block_num <= lib /\ lib <= head
      /\ lib # dgp.last_irreversible_block_num =>
           \/ head < StartVoting /\ head - lib >= MaxMiners
           \/ 2 * Cardinality(backing) > Len(turns)

(* The last irreversible block after a block.                              *)
LEMMA BlockIrreversible ==
  ASSUME ChainInv, NEW w \in Witnesses, NEW when \in Nat, NEW s, _apply_block(w, when, s)
  PROVE  IrreversibleInv' /\ BackedStep /\ dgp'.last_irreversible_block_num \in Nat
<1> DEFINE lib == dgp.last_irreversible_block_num
           lib1 == dgp'.last_irreversible_block_num
           head == dgp.head_block_number
           head1 == dgp'.head_block_number
           new == nth_confirmed(record', irreversible_offset(Len(turns)))
           Backing(n) == {i \in DOMAIN turns : record'[turns[i]].last_confirmed >= n}
<1>1. /\ head1 = head + 1
      /\ head + 1 < StartVoting =>
           lib1 = IF head + 1 > MaxMiners THEN head + 1 - MaxMiners ELSE lib
      /\ head + 1 >= StartVoting => lib1 = IF new > lib THEN new ELSE lib
  BY BlockFields
<1>2. /\ head \in Nat /\ lib \in Nat /\ StartVoting \in Nat /\ MaxMiners \in Nat
      /\ turns \in Seq(Witnesses) /\ turns # <<>>
  BY ScheduleAssumption, WitnessesAssumption DEF ChainInv, TypeOK
<1>3. /\ lib <= head
      /\ \A x \in Witnesses : record[x].last_confirmed <= head
      /\ head < StartVoting =>
           lib = IF head > MaxMiners THEN head - MaxMiners ELSE 0
  BY DEF ChainInv, IrreversibleInv
<1>4. /\ record' \in [Witnesses -> [total_missed : Nat, last_confirmed : Nat]]
      /\ \A x \in Witnesses :
           record'[x].last_confirmed \in {record[x].last_confirmed, head + 1}
  BY BlockRecords
<1>5. \A x \in Witnesses :
        record'[x].last_confirmed \in Nat /\ record'[x].last_confirmed <= head1
  <2> TAKE x \in Witnesses
  <2>1. record[x].last_confirmed \in Nat /\ record'[x].last_confirmed \in Nat
    BY <1>4 DEF ChainInv, TypeOK
  <2>2. \/ record'[x].last_confirmed = record[x].last_confirmed
        \/ record'[x].last_confirmed = head + 1
    BY <1>4
  <2>3. record[x].last_confirmed <= head
    BY <1>3
  <2> HIDE DEF head, head1
  <2> QED
    BY <1>1, <1>2, <2>1, <2>2, <2>3
<1>6. /\ \E i \in DOMAIN turns : new = record'[turns[i]].last_confirmed
      /\ 2 * Cardinality(Backing(new)) > Len(turns)
  BY <1>2, <1>4, NthConfirmed
<1>7. new \in Nat /\ new <= head1
  <2>1. \A i \in DOMAIN turns : turns[i] \in Witnesses
    BY <1>2
  <2> HIDE DEF new
  <2> QED
    BY <1>5, <1>6, <2>1
<1>9. lib1 \in Nat /\ lib <= lib1 /\ lib1 <= head1
      /\ (head1 < StartVoting =>
            lib1 = IF head1 > MaxMiners THEN head1 - MaxMiners ELSE 0)
      /\ (lib1 # lib => \/ head1 < StartVoting /\ head1 - lib1 >= MaxMiners
                        \/ lib1 = new)
  <2> HIDE DEF lib, lib1, head, head1, new
  <2>1. CASE head + 1 < StartVoting
    BY <1>1, <1>2, <1>3, <2>1
  <2>2. CASE ~(head + 1 < StartVoting)
    <3>1. lib1 = IF new > lib THEN new ELSE lib
      BY <1>1, <1>2, <2>2
    <3> QED
      BY <1>1, <1>2, <1>3, <1>7, <2>2, <3>1
  <2> QED
    BY <2>1, <2>2
<1>10. IrreversibleInv'
  BY <1>5, <1>9 DEF IrreversibleInv
<1>11. lib1 # lib => \/ head1 < StartVoting /\ head1 - lib1 >= MaxMiners
                     \/ 2 * Cardinality(Backing(lib1)) > Len(turns)
  <2> HIDE DEF lib, lib1, head1, new, Backing
  <2> QED
    BY <1>6, <1>9
<1>12. BackedStep
  <2>1. lib <= lib1 /\ lib1 <= head1
    BY <1>9
  <2> QED
    BY <1>11, <2>1 DEF BackedStep
<1> QED
  BY <1>9, <1>10, <1>12

(* A block keeps the invariant, and does what the action properties say.   *)
LEMMA BlockKeepsInv ==
  ASSUME ChainInv, NEW w \in Witnesses, NEW when \in Nat, NEW s, SoundSchedule(s),
         _apply_block(w, when, s), ops' \in 0 .. MaxOps
  PROVE  /\ ChainInv' /\ BackedStep
         /\ hardforks'.last_hardfork # hardforks.last_hardfork => mandate' >= Required
         /\ dgp.time < when /\ dgp'.time = when
<1>1. SoundSchedule(sched') /\ turns' \in Seq(Witnesses) /\ turns' # <<>>
  BY BlockSchedule
<1>2. /\ hardforks' \in [last_hardfork : 0 .. NumHardforks, next_hardfork : Versions,
                         vote : [Witnesses -> Versions]]
      /\ mandate' \in Nat /\ has_hardfork_0_3' \in BOOLEAN /\ MandateInv'
      /\ hardforks'.last_hardfork # hardforks.last_hardfork => mandate' >= Required
  BY BlockHardforks
<1>3. record' \in [Witnesses -> [total_missed : Nat, last_confirmed : Nat]]
  BY BlockRecords
<1>4. SlotsInv'
  BY BlockSlots
<1>5. /\ BitsInv' /\ filled' \in [1 .. Window -> {0, 1}]
      /\ dgp'.recent_slots_filled \in [1 .. Window -> {0, 1}]
      /\ dgp'.participation_count \in 0 .. Window
  BY BlockBits
<1>6. IrreversibleInv' /\ BackedStep /\ dgp'.last_irreversible_block_num \in Nat
  BY BlockIrreversible
<1>7. binary' \in [Witnesses -> Versions]
  BY DEF _apply_block, ChainInv, TypeOK
<1>8. /\ MissedSlots(when) \in Nat /\ dgp.time < when /\ dgp'.time = when
      /\ dgp'.head_block_number = dgp.head_block_number + 1
      /\ dgp'.current_aslot = dgp.current_aslot + MissedSlots(when) + 1
      /\ dgp' = [head_block_number |-> dgp'.head_block_number, time |-> dgp'.time,
                 current_aslot |-> dgp'.current_aslot,
                 recent_slots_filled |-> dgp'.recent_slots_filled,
                 participation_count |-> dgp'.participation_count,
                 last_irreversible_block_num |-> dgp'.last_irreversible_block_num]
  BY BlockFields
<1>9. /\ dgp'.head_block_number \in Nat /\ dgp'.time \in Nat /\ dgp'.current_aslot \in Nat
  <2>1. dgp.head_block_number \in Nat /\ dgp.current_aslot \in Nat
    BY DEF ChainInv, TypeOK
  <2> QED
    BY <1>8, <2>1
<1>10. dgp' \in [head_block_number : Nat, time : Nat, current_aslot : Nat,
                 recent_slots_filled : [1 .. Window -> {0, 1}],
                 participation_count : 0 .. Window,
                 last_irreversible_block_num : Nat]
  BY <1>5, <1>6, <1>8, <1>9
<1>11. TypeOK'
  BY <1>1, <1>2, <1>3, <1>5, <1>7, <1>10 DEF TypeOK, SoundSchedule
<1> QED
  BY <1>1, <1>2, <1>4, <1>5, <1>6, <1>8, <1>11 DEF ChainInv

-----------------------------------------------------------------------------
(* The node                                                                *)

(* The chain at genesis.                                                   *)
LEMMA GenesisInv == Init => ChainInv
<1> SUFFICES ASSUME Init PROVE ChainInv
  OBVIOUS
<1> DEFINE ones == [i \in 1 .. Window |-> 1]
           f == [x \in Witnesses |-> record[x].total_missed]
<1>1. /\ Window \in Nat \ {0} /\ GenesisTime \in Nat /\ Interval \in Nat \ {0}
      /\ NumHardforks \in Nat /\ MaxOps \in Nat /\ InitMiners \in Witnesses
      /\ MaxMiners \in Nat /\ 1 \in Witnesses /\ StartVoting \in Nat
  BY ScheduleAssumption, WitnessesAssumption DEF Witnesses
<1>2. SoundSchedule(sched)
  BY <1>1, GenesisOnTrack DEF Init
<1>3. ones \in [1 .. Window -> {0, 1}] /\ Ones(ones) = Window
  <2>1. {i \in DOMAIN ones : ones[i] = 1} = 1 .. Window
    OBVIOUS
  <2>2. Cardinality(1 .. Window) = Window
    BY <1>1, FS_Interval
  <2> QED
    BY <2>1, <2>2 DEF Ones
<1> HIDE DEF ones
<1>4. dgp = [head_block_number |-> 0, time |-> GenesisTime, current_aslot |-> 0,
             recent_slots_filled |-> ones, participation_count |-> Window,
             last_irreversible_block_num |-> 0]
      /\ filled = ones
  BY DEF Init, ones
<1>5. dgp \in [head_block_number : Nat, time : Nat, current_aslot : Nat,
               recent_slots_filled : [1 .. Window -> {0, 1}],
               participation_count : 0 .. Window,
               last_irreversible_block_num : Nat]
  BY <1>1, <1>3, <1>4
<1>6. TypeOK
  <2>1. turns \in Seq(Witnesses) /\ turns # <<>>
    BY <1>1 DEF Init
  <2>2. record \in [Witnesses -> [total_missed : Nat, last_confirmed : Nat]]
    BY DEF Init
  <2>3. hardforks \in [last_hardfork : 0 .. NumHardforks, next_hardfork : Versions,
                       vote : [Witnesses -> Versions]]
    BY <1>1 DEF Init, Versions
  <2>4. binary \in [Witnesses -> Versions]
    BY <1>1 DEF Init, Versions
  <2>5. mandate \in Nat /\ ops \in 0 .. MaxOps
    BY <1>1 DEF Init
  <2>6. has_hardfork_0_3 \in BOOLEAN
    BY DEF Init
  <2>7. filled \in [1 .. Window -> {0, 1}]
    BY <1>3, <1>4
  <2> QED
    BY <1>2, <1>5, <2>1, <2>2, <2>3, <2>4, <2>5, <2>6, <2>7 DEF TypeOK, SoundSchedule
<1>7. BitsInv
  <2>1. Lagging(ones, ones)
    BY <1>1 DEF Lagging, ones
  <2> QED
    BY <1>3, <1>4, <2>1 DEF BitsInv
<1>8. SlotsInv
  <2>1. IsFiniteSet(Witnesses) /\ \A x \in Witnesses : f[x] = 0
    BY FiniteWitnesses DEF Init
  <2> HIDE DEF f
  <2>2. SumFunctionOnSet(f, Witnesses) = 0
    BY <2>1, SumZero
  <2>3. (GenesisTime - GenesisTime) \div Interval = 0
    <3>1. GenesisTime - GenesisTime = 0
      BY <1>1
    <3>2. 0 \div Interval \in Nat /\ Interval * (0 \div Interval) <= 0
      BY <1>1, DivProperties
    <3> DEFINE z == 0 \div Interval
    <3> HIDE DEF z
    <3>3. z \in Nat /\ Interval * z <= 0
      BY <3>2 DEF z
    <3>4. z = 0
      <4> SUFFICES ASSUME z >= 1 PROVE FALSE
        BY <3>3
      <4>1. Interval * 1 <= Interval * z
        BY <1>1, <3>3, ProductMonotonic
      <4> QED
        BY <1>1, <3>3, <4>1
    <3> QED
      BY <3>1, <3>4 DEF z
  <2>4. SumFunction([x \in Witnesses |-> record[x].total_missed]) = 0
    BY <2>2 DEF SumFunction, f
  <2> QED
    BY <1>1, <1>4, <2>3, <2>4 DEF SlotsInv, SlotsFrom, SlotsAccounted
<1>9. IrreversibleInv
  BY <1>1, <1>4 DEF IrreversibleInv, Init
<1>10. MandateInv
  BY DEF MandateInv, Init
<1> QED
  BY <1>2, <1>6, <1>7, <1>8, <1>9, <1>10 DEF ChainInv

(* Besides the chain, the node is not ahead of it with its own blocks.     *)
ProductionInv ==
  /\ ChainInv
  /\ produced.time \in Nat /\ produced.time <= dgp.time

(* What a step does.                                                       *)
MandatedStep ==
  hardforks'.last_hardfork # hardforks.last_hardfork => mandate' >= Required

OnTimeStep ==
  produced' # produced =>
    /\ produced.time < produced'.time
    /\ produced'.clock - 2 * produced'.time \in {-1, 0}

(* A block of the node itself, or of another.                              *)
LEMMA WakeKeepsInv ==
  ASSUME ProductionInv, NEW t \in Readings, Wake(t), ~UNCHANGED <<vars, produced>>
  PROVE  ProductionInv' /\ BackedStep /\ MandatedStep /\ OnTimeStep
<1> DEFINE now == Rounded(t)
           slot == get_slot_at_time(now)
           w == get_scheduled_witness(slot)
           when == get_slot_time(slot)
<1>1. /\ MayProduce(now) /\ _apply_block(w, when, sched)
      /\ produced' = [time |-> when, clock |-> t] /\ ops' = ops
  BY DEF Wake
<1>2. w \in Witnesses /\ when = now
  BY <1>1, ProductionAssumption DEF MayProduce, OnTime
<1>3. t \in Nat /\ now \in Nat /\ t - 2 * now \in {-1, 0}
  <2>1. dgp.time \in Nat
    BY DEF ProductionInv, ChainInv, TypeOK
  <2>2. t \in Nat
    BY <2>1 DEF Readings
  <2> QED
    BY <2>2 DEF Rounded
<1> HIDE DEF w, when, now
<1>4. /\ SoundSchedule(sched) /\ ops' \in 0 .. MaxOps /\ ChainInv
  BY <1>1 DEF ProductionInv, ChainInv, TypeOK
<1>5. /\ ChainInv' /\ BackedStep /\ MandatedStep
      /\ dgp.time < when /\ dgp'.time = when
  BY <1>1, <1>2, <1>3, <1>4, BlockKeepsInv DEF MandatedStep
<1>6. dgp.time \in Nat /\ produced.time \in Nat /\ produced.time <= dgp.time
  BY DEF ProductionInv, ChainInv, TypeOK
<1>7. produced'.time = when /\ produced'.clock = t
  BY <1>1
<1>8. OnTimeStep
  BY <1>2, <1>3, <1>5, <1>6, <1>7 DEF OnTimeStep
<1>9. ProductionInv'
  BY <1>2, <1>3, <1>5, <1>7 DEF ProductionInv
<1> QED
  BY <1>5, <1>8, <1>9

(* A block that another witness produced.                                  *)
LEMMA ReceiveKeepsInv ==
  ASSUME ProductionInv, NEW w \in Witnesses, NEW d \in 1 .. (MaxGap + 2) * Interval,
         Receive(w, dgp.time + d)
  PROVE  ProductionInv' /\ BackedStep /\ MandatedStep /\ OnTimeStep
<1> DEFINE when == dgp.time + d
<1>1. /\ dgp.time \in Nat /\ produced.time \in Nat /\ produced.time <= dgp.time
      /\ MaxGap \in Nat /\ Interval \in Nat /\ ops \in 0 .. MaxOps /\ MaxOps \in Nat
      /\ SoundSchedule(sched) /\ ChainInv
  BY WitnessesAssumption DEF ProductionInv, ChainInv, TypeOK
<1>2. when \in Nat /\ produced' = produced
  BY <1>1 DEF Receive
<1> HIDE DEF when
<1>3. \E s : SoundSchedule(s) /\ _apply_block(w, when, s) /\ ops' \in 0 .. MaxOps
  <2>1. CASE _apply_block(w, when, sched) /\ UNCHANGED ops
    BY <1>1, <2>1
  <2>2. CASE /\ ops < MaxOps /\ ops' = ops + 1
             /\ \E s \in Transactions(sched) : _apply_block(w, when, s)
    BY <1>1, <2>2, TransactionsKeepTrack
  <2> QED
    BY <2>1, <2>2 DEF Receive, Block, when
<1>4. PICK s : SoundSchedule(s) /\ _apply_block(w, when, s) /\ ops' \in 0 .. MaxOps
  BY <1>3
<1>5. /\ ChainInv' /\ BackedStep /\ MandatedStep
      /\ dgp.time < when /\ dgp'.time = when
  BY <1>1, <1>2, <1>4, BlockKeepsInv DEF MandatedStep
<1> QED
  BY <1>1, <1>2, <1>5 DEF ProductionInv, OnTimeStep

(* Nothing that the invariant is about changes.                            *)
LEMMA IdleKeepsInv ==
  ASSUME ProductionInv, binary' \in [Witnesses -> Versions], ops' \in 0 .. MaxOps,
         UNCHANGED <<sched, has_hardfork_0_3, dgp, turns, record, hardforks,
                     mandate, filled, produced>>
  PROVE  ProductionInv' /\ BackedStep /\ MandatedStep /\ OnTimeStep
<1>1. ProductionInv'
  BY DEF ProductionInv, ChainInv, TypeOK, SoundSchedule, OnTrack, SlotsInv, SlotsFrom,
         SlotsAccounted, BitsInv, IrreversibleInv, MandateInv
<1>2. BackedStep
  <2>1. dgp.last_irreversible_block_num \in Nat /\ dgp.head_block_number \in Nat
        /\ dgp.last_irreversible_block_num <= dgp.head_block_number
    BY DEF ProductionInv, ChainInv, TypeOK, IrreversibleInv
  <2> QED
    BY <2>1 DEF BackedStep
<1> QED
  BY <1>1, <1>2 DEF MandatedStep, OnTimeStep

(* Every step.                                                             *)
LEMMA ProductionStep ==
  ASSUME ProductionInv, [ProductionNext]_production_vars
  PROVE  ProductionInv' /\ BackedStep /\ MandatedStep /\ OnTimeStep
<1>1. binary \in [Witnesses -> Versions] /\ ops \in 0 .. MaxOps /\ MaxOps \in Nat
  BY WitnessesAssumption DEF ProductionInv, ChainInv, TypeOK
<1>2. CASE UNCHANGED <<vars, produced>>
  BY <1>1, <1>2, IdleKeepsInv DEF vars
<1>3. CASE \E t \in Readings : Wake(t)
  BY <1>2, <1>3, WakeKeepsInv
<1>4. CASE \E w \in Witnesses, d \in 1 .. (MaxGap + 2) * Interval : Receive(w, dgp.time + d)
  BY <1>4, ReceiveKeepsInv
<1>5. CASE /\ \E w \in Witnesses, version \in Versions : Install(w, version)
           /\ UNCHANGED <<production_enabled, produced>>
  <2>1. binary' \in [Witnesses -> Versions] /\ ops' \in 0 .. MaxOps
        /\ UNCHANGED <<sched, has_hardfork_0_3, dgp, turns, record, hardforks,
                       mandate, filled, produced>>
    BY <1>1, <1>5 DEF Install
  <2> QED
    BY <2>1, IdleKeepsInv
<1>6. CASE UNCHANGED production_vars
  BY <1>2, <1>6 DEF production_vars
<1> QED
  BY <1>3, <1>4, <1>5, <1>6 DEF ProductionNext

(* The invariant holds in every state of a node.                           *)
LEMMA ProductionInductive == ProductionSpec => []ProductionInv
<1>1. ProductionInit => ProductionInv
  <2> SUFFICES ASSUME ProductionInit PROVE ProductionInv
    OBVIOUS
  <2>1. ChainInv /\ dgp.time \in Nat
    BY GenesisInv DEF ProductionInit, ChainInv, TypeOK
  <2> QED
    BY <2>1 DEF ProductionInit, ProductionInv
<1>2. ProductionInv /\ [ProductionNext]_production_vars => ProductionInv'
  BY ProductionStep
<1> QED
  BY <1>1, <1>2, PTL DEF ProductionSpec

(* The chain that a producing node follows is well typed: in particular    *)
(* the schedule never becomes empty, which get_scheduled_witness would     *)
(* divide by, and no hardfork is applied that the program does not know.   *)
THEOREM ChainTypeCorrect == ProductionSpec => []TypeOK
<1>1. ProductionInv => TypeOK
  BY DEF ProductionInv, ChainInv
<1> QED
  BY <1>1, ProductionInductive, PTL

(* The virtual schedule stays sound on the chain too, where a round ends   *)
(* every MaxMiners blocks and absent witnesses lose their keys.            *)
THEOREM VirtualTimeIsSoundOnChain == ProductionSpec => []VirtualTimeSound
<1>1. ProductionInv => VirtualTimeSound
  BY SoundMeansSound DEF ProductionInv, ChainInv
<1> QED
  BY <1>1, ProductionInductive, PTL

(* current_aslot counts the slots since genesis however blocks are late or *)
(* off the grid, and no slot is counted against two witnesses              *)
(* (database.cpp:948-987, 2713-2755).                                      *)
THEOREM SlotsAreAccounted == ProductionSpec => []SlotsAccounted
<1>1. ProductionInv => SlotsAccounted
  BY DEF ProductionInv, ChainInv, SlotsInv
<1> QED
  BY <1>1, ProductionInductive, PTL

(* participation_count is the number of bits set in the window, and never  *)
(* more than the slots filled, for every width of the window               *)
(* (database.cpp:2744-2750).                                               *)
THEOREM ParticipationIsExact == ProductionSpec => []ParticipationExact
<1>1. ProductionInv => ParticipationExact
  <2> SUFFICES ASSUME ProductionInv PROVE ParticipationExact
    OBVIOUS
  <2>1. /\ dgp.recent_slots_filled \in [1 .. Window -> {0, 1}]
        /\ filled \in [1 .. Window -> {0, 1}]
        /\ Lagging(dgp.recent_slots_filled, filled)
        /\ dgp.participation_count = Ones(dgp.recent_slots_filled)
    BY DEF ProductionInv, ChainInv, TypeOK, BitsInv
  <2>2. Ones(dgp.recent_slots_filled) - Ones(filled) \in {-1, 0}
    BY <2>1, LaggingCount
  <2> QED
    BY <2>1, <2>2 DEF ParticipationExact
<1> QED
  BY <1>1, ProductionInductive, PTL

(* A block becomes irreversible only with more than half of the scheduled  *)
(* witnesses behind it, and stays irreversible, for every number of        *)
(* witnesses in the schedule (database.cpp:2849-2897).                     *)
THEOREM IrreversibleIsBacked == ProductionSpec => IrreversibleBacked
<1>1. ProductionInv /\ [ProductionNext]_production_vars => [BackedStep]_vars
  BY ProductionStep
<1> QED
  BY <1>1, ProductionInductive, PTL DEF ProductionSpec, IrreversibleBacked, BackedStep

(* No hardfork without a standing majority of the last round               *)
(* (database.cpp:1199-1234, 3201-3219).                                    *)
THEOREM HardforksAreMandated == ProductionSpec => HardforkMandated
<1>1. ProductionInv /\ [ProductionNext]_production_vars => [MandatedStep]_vars
  BY ProductionStep
<1> QED
  BY <1>1, ProductionInductive, PTL DEF ProductionSpec, HardforkMandated, MandatedStep

(* The node never signs two blocks for a slot and never produces late,     *)
(* whatever the clock shows (witness.cpp:211-306).                         *)
THEOREM NodeProducesOnTime == ProductionSpec => ProducesOnTime
<1>1. ProductionInv /\ [ProductionNext]_production_vars => [OnTimeStep]_production_vars
  BY ProductionStep
<1> QED
  BY <1>1, ProductionInductive, PTL DEF ProductionSpec, ProducesOnTime, OnTimeStep
=============================================================================
