---------------------------- MODULE ConnectionPool ----------------------------
(***************************************************************************)
(* The pool of SQLite connections behind the coordinator's handlers. A     *)
(* thread takes an idle connection, opens one outside the lock while the   *)
(* pool may grow, or waits on the condition variable `returned`.           *)
(***************************************************************************)
EXTENDS Naturals, FiniteSets

CONSTANTS
  Thread,
  max,           \* connections at once
  MaxFailures    \* opens that fail

ASSUME PoolAssumption == IsFiniteSet(Thread) /\ max \in Nat \ {0}

VARIABLES
  idle, live_connections,   \* PoolState; a connection is one like another
  at,                       \* at[t]: where thread t stands
  failures

poolVars == <<idle, live_connections, at, failures>>
At(place) == {t \in Thread : at[t] = place}

(* A turn of the loop of get: reached by a call and by every wake-up.      *)
get(t) ==
  /\ at[t] \in {"out", "woken"}
  /\ \/ /\ idle > 0
        /\ idle' = idle - 1
        /\ at' = [at EXCEPT ![t] = "lent"]
        /\ UNCHANGED live_connections
     \/ /\ idle = 0 /\ live_connections < max
        /\ live_connections' = live_connections + 1
        /\ at' = [at EXCEPT ![t] = "opening"]
        /\ UNCHANGED idle
     \/ /\ idle = 0 /\ live_connections >= max
        /\ at' = [at EXCEPT ![t] = "waiting"]
        /\ UNCHANGED <<idle, live_connections>>
  /\ UNCHANGED failures

connect(t) ==
  /\ at[t] = "opening"
  /\ at' = [at EXCEPT ![t] = "lent"]
  /\ UNCHANGED <<idle, live_connections, failures>>

(* The caller has its error; nobody who waits is told there is room.       *)
connect_failed(t) ==
  /\ at[t] = "opening" /\ failures < MaxFailures
  /\ failures' = failures + 1
  /\ live_connections' = live_connections - 1
  /\ at' = [at EXCEPT ![t] = "out"]
  /\ UNCHANGED idle

\* Faulty: a connection comes back and nobody is notified.
drop_unheard(t) ==
  /\ at[t] = "lent"
  /\ idle' = idle + 1
  /\ at' = [at EXCEPT ![t] = "out"]
  /\ UNCHANGED <<live_connections, failures>>

(* The connection goes back first, then one waiter is woken.               *)
drop(t) ==
  /\ at[t] = "lent"
  /\ idle' = idle + 1
  /\ IF At("waiting") = {} THEN at' = [at EXCEPT ![t] = "out"]
     ELSE \E w \in At("waiting") : at' = [at EXCEPT ![t] = "out", ![w] = "woken"]
  /\ UNCHANGED <<live_connections, failures>>

(* A condition variable may wake a thread nobody notified.                 *)
spurious(t) ==
  /\ at[t] = "waiting"
  /\ at' = [at EXCEPT ![t] = "woken"]
  /\ UNCHANGED <<idle, live_connections, failures>>

(* open keeps the connection that created the schema.                      *)
PoolInit ==
  /\ idle = 1 /\ live_connections = 1
  /\ at = [t \in Thread |-> "out"]
  /\ failures = 0

PoolNext == \E t \in Thread : get(t) \/ connect(t) \/ connect_failed(t) \/ drop(t) \/ spurious(t)

PoolSpec == PoolInit /\ [][PoolNext]_poolVars

----------------------------------------------------------------------------
(* Every connection that is counted exists, idle, lent or being opened,    *)
(* also after opens that failed, and there are never more than max.        *)
PoolCounts ==
  /\ live_connections = idle + Cardinality(At("lent") \cup At("opening"))
  /\ live_connections <= max

(* No thread sleeps while it could be served: when someone waits and a     *)
(* connection is idle or may be opened, a woken thread is on its way, or   *)
(* an open failed and told nobody.                                         *)
NoLostWakeup ==
  At("waiting") # {} /\ (idle > 0 \/ live_connections < max) =>
    At("woken") # {} \/ failures > 0
================================================================================
