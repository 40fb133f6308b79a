---------------------------- MODULE ShardScheduler ----------------------------
(***************************************************************************)
(* Which pending shard a polling node is offered, and for how long. The    *)
(* score of a shard is a weighted sum of five axes in [0, 1] and a bonus   *)
(* for its age; a node that is too small, too slow or too early is given   *)
(* nothing. Fractions are thousandths.                                     *)
(***************************************************************************)
EXTENDS Integers, Sequences, FiniteSets, FiniteSetsExt

CONSTANTS
  Workers,      \* the profiles of nodes that poll: shared_cpus, memory,
                \* rate in mCU per second (0: no benchmark), rtt in ms (0: not
                \* measured), region, gpu, halvings of the audit rate,
                \* accepted and rejected
  Boards,       \* what may be pending, sets of shards: id, reward, memory,
                \* created_at, done_here, distance to the nearest shard done
                \* here (0: none)
  Times, Pollers, Region, NoRegion,
  DEFAULT_LEASE_SECONDS, MAX_LEASE_SECONDS, HEAD_START_SECONDS, STARVATION_SECS

UNKNOWN == 500
\* Faulty: waiting weighs no more than the heaviest axis.
STARVATION_WEIGHT_of_an_axis == 280
STARVATION_WEIGHT == 1250

VARIABLES offer   \* what poll_work was asked and answered, in one step

Clamp(x, low, high) == IF x < low THEN low ELSE IF x > high THEN high ELSE x

----------------------------------------------------------------------------
(* In milliseconds; the code compares and rounds the same quotient as a    *)
(* double.                                                                 *)
Predictable(w) == w.rate > 0
predicted_ms(w, reward) == (reward * 1000) \div w.rate

(* LEASE_HEADROOM is one and a half, rounded up to a second.               *)
lease_seconds_for(w, reward) ==
  IF Predictable(w)
  THEN Clamp((predicted_ms(w, reward) * 3 + 1999) \div 2000, DEFAULT_LEASE_SECONDS, MAX_LEASE_SECONDS)
  ELSE DEFAULT_LEASE_SECONDS

(* The audit rate halves towards its floor with every STREAK_HALF_LIFE     *)
(* clean results, so the distance covered is 1 - 2^-halvings.              *)
trust(w) == 1000 - 1000 \div 2 ^ w.halvings
acceptance(w) == ((w.accepted + 1) * 1000) \div (w.accepted + w.rejected + 2)
standing(w) == (trust(w) + acceptance(w)) \div 2

contended(shards, pollers) == pollers > Cardinality(shards)
exposure(c, shards) == Clamp((c.reward * 1000) \div Max({1} \cup {d.reward : d \in shards}), 0, 1000)

hardware(w, c) ==
  IF Predictable(w) THEN Clamp(1000 - predicted_ms(w, c.reward) \div DEFAULT_LEASE_SECONDS, 0, 1000) ELSE UNKNOWN

network(w, c) ==
  LET near == IF w.rtt > 0 /\ Predictable(w)
              THEN 1000 - (w.rtt * 1000) \div (w.rtt + predicted_ms(w, c.reward)) ELSE UNKNOWN
  IN  IF Region # NoRegion /\ w.region # NoRegion /\ w.region # Region THEN (near * 3) \div 4 ELSE near

reliability(w, c, shards) == standing(w) + ((1000 - standing(w)) * (1000 - exposure(c, shards))) \div 1000

locality(c) ==
  LET affinity == 1000 - 1000 \div (1 + c.done_here)
  IN  IF c.distance = 0 THEN affinity ELSE (affinity + 1000 \div c.distance) \div 2

(* CPU shards need no model, so a lent GPU is always one they cannot use.  *)
scarcity(w, c) ==
  LET memory == IF c.memory = 0 \/ w.memory = 0 THEN UNKNOWN ELSE Clamp((c.memory * 1000) \div w.memory, 0, 1000)
  IN  IF w.gpu THEN memory \div 2 ELSE memory

starvation(c, now) == (Clamp(((now - c.created_at) * 1000) \div STARVATION_SECS, 0, 1000) * STARVATION_WEIGHT) \div 1000

(* Why a node is refused a shard outright, or nothing.                     *)
head_start(w, c) == (HEAD_START_SECONDS * (1000 - hardware(w, c)) + 500) \div 1000
Unfit(w, c, shards, now, pollers) ==
  \/ w.shared_cpus = 0
  \/ w.memory < c.memory
  \/ Predictable(w) /\ predicted_ms(w, c.reward) > MAX_LEASE_SECONDS * 1000
  \/ contended(shards, pollers) /\ now - c.created_at < head_start(w, c)

total(w, c, shards, now) ==
  (22 * hardware(w, c) + 18 * network(w, c) + 22 * reliability(w, c, shards)
     + 28 * locality(c) + 10 * scarcity(w, c)) \div 100
  + starvation(c, now)

Outscores(w, c, d, shards, now) ==
  \/ total(w, c, shards, now) > total(w, d, shards, now)
  \/ total(w, c, shards, now) = total(w, d, shards, now) /\ c.id <= d.id

(* The highest total; of equals the smallest assignment id.                *)
best(w, shards, now, pollers) ==
  {c \in shards :
     /\ ~Unfit(w, c, shards, now, pollers)
     /\ \A d \in shards : Outscores(w, c, d, shards, now) \/ Unfit(w, d, shards, now, pollers)}

poll ==
  /\ ~offer.asked
  /\ \E w \in Workers, shards \in Boards, now \in Times, pollers \in Pollers :
       LET chosen == best(w, shards, now, pollers)
       IN  offer' = [asked |-> TRUE, worker |-> w, shards |-> shards, now |-> now,
                     chosen |-> chosen, lease |-> {lease_seconds_for(w, c.reward) : c \in chosen}]

Taken == offer.asked /\ offer' = [asked |-> FALSE]

OfferInit == offer = [asked |-> FALSE]
OfferNext == poll \/ Taken
OfferSpec == OfferInit /\ [][OfferNext]_offer

----------------------------------------------------------------------------
(* What is offered can be done, and age beats the score. One shard at most *)
(* is offered, and its lease outlasts the time the node is predicted to    *)
(* need. A node that is large and fast enough is offered something as soon *)
(* as the head start of the fastest is over, and a shard that waited out   *)
(* STARVATION_SECS is not passed over for one that waited less than a      *)
(* fifth of it (best, lease_seconds_for).                                  *)
Able(w, c) == w.shared_cpus > 0 /\ w.memory >= c.memory
              /\ (Predictable(w) => predicted_ms(w, c.reward) <= MAX_LEASE_SECONDS * 1000)
Age(c) == offer.now - c.created_at
OfferIsServable ==
  offer.asked =>
    /\ Cardinality(offer.chosen) <= 1
    /\ \A c \in offer.chosen : Predictable(offer.worker) =>
         \A lease \in offer.lease : predicted_ms(offer.worker, c.reward) <= lease * 1000
    /\ offer.chosen = {} => \A c \in offer.shards : ~Able(offer.worker, c) \/ Age(c) < HEAD_START_SECONDS
    /\ \A c \in offer.chosen, d \in offer.shards :
         Able(offer.worker, d) /\ Age(d) >= STARVATION_SECS => Age(c) * 5 >= STARVATION_SECS
================================================================================
