------------------------------ MODULE Federation ------------------------------
(***************************************************************************)
(* Which coordinator hands out a job's shards. Each coordinator keeps the  *)
(* health of its peers from probes it sends them, believes alive those     *)
(* that answered recently, and gives a job to the member of that set with  *)
(* the highest weight for it. There is no message about ownership: two     *)
(* coordinators agree on an owner when they believe the same peers alive.  *)
(***************************************************************************)
EXTENDS Naturals, FiniteSets

CONSTANTS
  Peers,              \* the coordinators of the federation
  Jobs,
  weight,             \* weight[c][j], a hash; collisions are possible
  Name,               \* Name[c], the order of the coordinators' ids
  misses_before_down,
  MaxFaults           \* crashes, restarts and lost probes together

ASSUME FederationAssumption ==
  /\ IsFiniteSet(Peers)
  /\ weight \in [Peers -> [Jobs -> Nat]]
  /\ Name \in [Peers -> Nat]
  /\ \A c, d \in Peers : Name[c] = Name[d] => c = d
  /\ misses_before_down \in Nat \ {0}

VARIABLES
  serving,   \* the coordinators that run
  health,    \* health[c][p]: up and consecutive_misses as c keeps them
  faults

fedVars == <<serving, health, faults>>

----------------------------------------------------------------------------
\* Faulty: a coordinator does not count itself among the living.
live_without_me(c) == {p \in Peers \ {c} : health[c][p].up}
live(c) == {c} \cup {p \in Peers \ {c} : health[c][p].up}

(* The order owner takes the maximum of.                                   *)
Outweighs(j, c, d) ==
  \/ weight[c][j] > weight[d][j]
  \/ weight[c][j] = weight[d][j] /\ Name[c] >= Name[d]

owner(j, alive) == CHOOSE c \in alive : \A d \in alive : Outweighs(j, c, d)

owner_of(c, j) == IF live(c) = {} THEN c ELSE owner(j, live(c))
owns(c, j) == owner_of(c, j) = c

(* Peers start gone: until one answers, this coordinator owns everything.  *)
Unseen == [up |-> FALSE, consecutive_misses |-> misses_before_down]

\* Faulty: a peer that answers again is not marked up.
record_probe_silent(peer, ok) ==
  IF ok THEN [peer EXCEPT !.consecutive_misses = 0]
  ELSE LET misses == IF peer.consecutive_misses < misses_before_down
                     THEN peer.consecutive_misses + 1 ELSE misses_before_down
       IN  [up |-> misses < misses_before_down, consecutive_misses |-> misses]

(* consecutive_misses is a saturating u32 that is only compared with the   *)
(* limit, so it is counted up to the limit.                                *)
record_probe(peer, ok) ==
  IF ok THEN [up |-> TRUE, consecutive_misses |-> 0]
  ELSE LET misses == IF peer.consecutive_misses < misses_before_down
                     THEN peer.consecutive_misses + 1 ELSE misses_before_down
       IN  [up |-> misses < misses_before_down, consecutive_misses |-> misses]

(* One probe of the round probe_all makes; the others of the round are     *)
(* awaited one after the other, so anything may happen between them.       *)
probe(c, p) ==
  /\ c \in serving /\ p # c
  /\ health' = [health EXCEPT ![c][p] = record_probe(@, p \in serving)]
  /\ UNCHANGED <<serving, faults>>

(* A probe of a running peer that times out.                               *)
ProbeLost(c, p) ==
  /\ c \in serving /\ p \in serving /\ p # c
  /\ faults < MaxFaults
  /\ faults' = faults + 1
  /\ health' = [health EXCEPT ![c][p] = record_probe(@, FALSE)]
  /\ UNCHANGED serving

Stop(c) ==
  /\ c \in serving
  /\ faults < MaxFaults
  /\ faults' = faults + 1
  /\ serving' = serving \ {c}
  /\ UNCHANGED health

(* A coordinator that starts knows nothing of its peers.                   *)
new(c) ==
  /\ c \notin serving
  /\ serving' = serving \cup {c}
  /\ health' = [health EXCEPT ![c] = [p \in Peers |-> Unseen]]
  /\ UNCHANGED faults

FedInit ==
  /\ serving = Peers
  /\ health = [c \in Peers |-> [p \in Peers |-> Unseen]]
  /\ faults = 0

FedNext ==
  \/ \E c, p \in Peers : probe(c, p) \/ ProbeLost(c, p)
  \/ \E c \in Peers : Stop(c) \/ new(c)

(* Every coordinator probes every peer on a timer.                         *)
FedFairness == \A c, p \in Peers : WF_fedVars(probe(c, p))

FedSpec == FedInit /\ [][FedNext]_fedVars /\ FedFairness

----------------------------------------------------------------------------
FedTypeOK ==
  /\ serving \subseteq Peers
  /\ health \in [Peers -> [Peers -> [up : BOOLEAN, consecutive_misses : 0..misses_before_down]]]

(* A job nobody hands out is one a coordinator leaves to a peer that is    *)
(* gone: while no running coordinator believes a stopped one alive, every  *)
(* job has an owner that runs, however much the views differ.              *)
DeadBelieved == \E c \in serving : \E p \in live(c) : p \notin serving
UnownedOnlyBehindDead ==
  serving # {} /\ ~DeadBelieved => \A j \in Jobs : \E c \in serving : owns(c, j)

(* When a peer is lost, only the jobs it owned move; when one comes back,  *)
(* jobs move only to it.                                                   *)
Learns(c) == health[c]' # health[c] /\ c \in serving /\ c \in serving'
OnlyTheChangedMove ==
  [][\A c \in Peers : Learns(c) => \A j \in Jobs :
       owner_of(c, j)' # owner_of(c, j) =>
         \/ owner_of(c, j) \notin live(c)'
         \/ owner_of(c, j)' \notin live(c)]_fedVars

(* Once coordinators stop failing, all that run agree on one owner of each *)
(* job, and it runs.                                                       *)
Agreed == \A j \in Jobs : \E o \in serving : \A c \in serving : owner_of(c, j) = o
OwnershipSettles == <>[](serving # {} => Agreed)
================================================================================
