------------------------- MODULE ConnectionPoolProofs -------------------------
(***************************************************************************)
(* The pool counts its connections right and wakes whoever it can serve,   *)
(* for every number of threads, of connections and of opens that fail.     *)
(***************************************************************************)
EXTENDS ConnectionPool, TLAPS, FiniteSetTheorems

Using == At("lent") \cup At("opening")

PoolTypes ==
  /\ idle \in Nat /\ live_connections \in Nat /\ failures \in Nat
  /\ at \in [Thread -> {"out", "woken", "waiting", "opening", "lent"}]

(* As long as no open failed, threads wait only at the limit, and as many  *)
(* are on their way as there are connections to take: every connection     *)
(* that came back while others waited woke one of them.                    *)
AsManyWoken ==
  At("waiting") # {} /\ failures = 0 =>
    live_connections = max /\ idle <= Cardinality(At("woken"))

PoolInv == PoolTypes /\ PoolCounts /\ AsManyWoken

(* A set of threads that one joins or leaves (at is a map of threads).     *)
LEMMA ThreadSets ==
  ASSUME NEW S \in SUBSET Thread
  PROVE  /\ Cardinality(S) \in Nat
         /\ S # {} => Cardinality(S) > 0
         /\ \A t \in Thread \ S : Cardinality(S \cup {t}) = Cardinality(S) + 1
         /\ \A t \in S : Cardinality(S \ {t}) = Cardinality(S) - 1
         /\ \A t : Cardinality(S \ {t}) >= Cardinality(S) - 1
<1>1. IsFiniteSet(S) /\ Cardinality(S) \in Nat
  BY PoolAssumption, FS_Subset, FS_CardinalityType
<1>2. Cardinality(S) = 0 <=> S = {}
  BY <1>1, FS_EmptySet
<1>3. \A t \in Thread \ S : Cardinality(S \cup {t}) = Cardinality(S) + 1
  BY <1>1, FS_AddElement
<1>4. \A t : Cardinality(S \ {t}) = IF t \in S THEN Cardinality(S) - 1 ELSE Cardinality(S)
  BY <1>1, FS_RemoveElement
<1> QED
  BY <1>1, <1>2, <1>3, <1>4

(* A turn of get's loop takes an idle connection, opens one or waits.      *)
LEMMA GetStep ==
  ASSUME PoolInv, NEW t \in Thread, get(t)
  PROVE  PoolInv'
<1>0. /\ PoolTypes /\ PoolCounts /\ AsManyWoken
      /\ idle \in Nat /\ live_connections \in Nat /\ failures \in Nat /\ max \in Nat
      /\ at \in [Thread -> {"out", "woken", "waiting", "opening", "lent"}]
      /\ at[t] \in {"out", "woken"} /\ failures' = failures
  BY PoolAssumption DEF PoolInv, PoolTypes, get
<1>1. /\ Using \in SUBSET Thread /\ At("woken") \in SUBSET Thread
      /\ t \in Thread \ Using
      /\ live_connections = idle + Cardinality(Using) /\ live_connections <= max
      /\ Cardinality(Using) \in Nat /\ Cardinality(At("woken")) \in Nat
      /\ Cardinality(Using \cup {t}) = Cardinality(Using) + 1
      /\ Cardinality(At("woken") \ {t}) \in Nat
      /\ Cardinality(At("woken") \ {t}) >= Cardinality(At("woken")) - 1
  <2>1. /\ Using \in SUBSET Thread /\ At("woken") \in SUBSET Thread
        /\ At("woken") \ {t} \in SUBSET Thread /\ t \in Thread \ Using
    BY <1>0 DEF Using, At
  <2>2. live_connections = idle + Cardinality(Using) /\ live_connections <= max
    BY <1>0 DEF PoolCounts, Using
  <2> QED
    BY <2>1, <2>2, ThreadSets
<1>c. PoolCounts' <=> /\ live_connections' = idle' + Cardinality(Using')
                       /\ live_connections' <= max
  BY DEF PoolCounts, Using
<1>2. CASE /\ idle > 0 /\ idle' = idle - 1 /\ UNCHANGED live_connections
           /\ at' = [at EXCEPT ![t] = "lent"]
  <2>1. /\ At("waiting")' = At("waiting") /\ At("woken")' = At("woken") \ {t}
        /\ Using' = Using \cup {t}
    BY <1>0, <1>2 DEF At, Using
  <2>2. PoolTypes'
    BY <1>0, <1>2 DEF PoolTypes
  <2>3. PoolCounts'
    BY <1>c, <1>0, <1>1, <1>2, <2>1
  <2>4. AsManyWoken'
    BY <1>0, <1>1, <1>2, <2>1 DEF AsManyWoken
  <2> QED
    BY <2>2, <2>3, <2>4 DEF PoolInv
<1>3. CASE /\ idle = 0 /\ live_connections < max /\ UNCHANGED idle
           /\ live_connections' = live_connections + 1
           /\ at' = [at EXCEPT ![t] = "opening"]
  <2>1. At("waiting")' = At("waiting") /\ Using' = Using \cup {t}
    BY <1>0, <1>3 DEF At, Using
  <2>2. PoolTypes'
    BY <1>0, <1>3 DEF PoolTypes
  <2>3. PoolCounts'
    BY <1>c, <1>0, <1>1, <1>3, <2>1
  <2>4. AsManyWoken'
    BY <1>0, <1>1, <1>3, <2>1 DEF AsManyWoken
  <2> QED
    BY <2>2, <2>3, <2>4 DEF PoolInv
<1>4. CASE /\ idle = 0 /\ live_connections >= max /\ UNCHANGED <<idle, live_connections>>
           /\ at' = [at EXCEPT ![t] = "waiting"]
  <2>1. Using' = Using /\ At("woken")' = At("woken") \ {t}
    BY <1>0, <1>4 DEF At, Using
  <2>2. PoolTypes'
    BY <1>0, <1>4 DEF PoolTypes
  <2>3. PoolCounts'
    BY <1>c, <1>0, <1>1, <1>4, <2>1
  <2>4. AsManyWoken'
    <3>1. Cardinality(At("woken")') \in Nat
      BY <1>1, <2>1
    <3>2. live_connections' = max /\ idle' <= Cardinality(At("woken")')
      BY <1>0, <1>1, <1>4, <3>1
    <3> QED
      BY <3>2 DEF AsManyWoken
  <2> QED
    BY <2>2, <2>3, <2>4 DEF PoolInv
<1> QED
  BY <1>2, <1>3, <1>4 DEF get

(* A connection that is given back is idle before a waiter is woken, and   *)
(* one that could not be opened is no longer counted.                      *)
LEMMA LeaveStep ==
  ASSUME PoolInv, NEW t \in Thread, connect_failed(t) \/ drop(t)
  PROVE  PoolInv'
<1>0. /\ PoolTypes /\ PoolCounts /\ AsManyWoken
      /\ idle \in Nat /\ live_connections \in Nat /\ failures \in Nat /\ max \in Nat
      /\ at \in [Thread -> {"out", "woken", "waiting", "opening", "lent"}]
      /\ at[t] \in {"opening", "lent"}
  BY PoolAssumption DEF PoolInv, PoolTypes, connect_failed, drop
<1>1. /\ Using \in SUBSET Thread /\ At("woken") \in SUBSET Thread
      /\ live_connections = idle + Cardinality(Using) /\ live_connections <= max
      /\ Cardinality(Using) \in Nat /\ Cardinality(Using) > 0
      /\ Cardinality(Using \ {t}) = Cardinality(Using) - 1
      /\ Cardinality(At("woken")) \in Nat
  <2>1. Using \in SUBSET Thread /\ At("woken") \in SUBSET Thread /\ t \in Using
    BY <1>0 DEF Using, At
  <2>2. live_connections = idle + Cardinality(Using) /\ live_connections <= max
    BY <1>0 DEF PoolCounts, Using
  <2> QED
    BY <2>1, <2>2, ThreadSets
<1>c. PoolCounts' <=> /\ live_connections' = idle' + Cardinality(Using')
                       /\ live_connections' <= max
  BY DEF PoolCounts, Using
<1>2. CASE connect_failed(t)
  <2>1. /\ failures' = failures + 1 /\ live_connections' = live_connections - 1
        /\ at' = [at EXCEPT ![t] = "out"] /\ idle' = idle
    BY <1>2 DEF connect_failed
  <2>2. Using' = Using \ {t}
    BY <1>0, <2>1 DEF At, Using
  <2>3. PoolTypes'
    BY <1>0, <1>1, <2>1 DEF PoolTypes
  <2>4. PoolCounts'
    BY <1>c, <1>0, <1>1, <2>1, <2>2
  <2>5. AsManyWoken'
    BY <1>0, <2>1 DEF AsManyWoken
  <2> QED
    BY <2>3, <2>4, <2>5 DEF PoolInv
<1>3. CASE drop(t) /\ At("waiting") = {}
  <2>1. /\ idle' = idle + 1 /\ UNCHANGED <<live_connections, failures>>
        /\ at' = [at EXCEPT ![t] = "out"]
    BY <1>3 DEF drop
  <2>2. Using' = Using \ {t} /\ At("waiting")' = {}
    BY <1>0, <1>3, <2>1 DEF At, Using
  <2>3. PoolTypes'
    BY <1>0, <2>1 DEF PoolTypes
  <2>4. PoolCounts'
    BY <1>c, <1>0, <1>1, <2>1, <2>2
  <2>5. AsManyWoken'
    BY <2>2 DEF AsManyWoken
  <2> QED
    BY <2>3, <2>4, <2>5 DEF PoolInv
<1>4. CASE drop(t) /\ At("waiting") # {}
  <2>1. PICK w \in At("waiting") :
          /\ idle' = idle + 1 /\ UNCHANGED <<live_connections, failures>>
          /\ at' = [at EXCEPT ![t] = "out", ![w] = "woken"]
    BY <1>4 DEF drop
  <2>2. w \in Thread \ At("woken") /\ w # t /\ at[w] = "waiting"
    BY <1>0 DEF At
  <2>3. Using' = Using \ {t} /\ At("woken")' = At("woken") \cup {w}
    BY <1>0, <2>1, <2>2 DEF At, Using
  <2>4. Cardinality(At("woken") \cup {w}) = Cardinality(At("woken")) + 1
    BY <1>1, <2>2, ThreadSets
  <2>5. PoolTypes'
    BY <1>0, <2>1, <2>2 DEF PoolTypes
  <2>6. PoolCounts'
    BY <1>c, <1>0, <1>1, <2>1, <2>3
  <2>7. AsManyWoken'
    <3>1. Cardinality(At("woken")') = Cardinality(At("woken")) + 1
      BY <2>3, <2>4
    <3>2. failures = 0 => live_connections = max /\ idle <= Cardinality(At("woken"))
      BY <1>0, <1>4 DEF AsManyWoken
    <3>3. failures' = 0 => live_connections' = max /\ idle' <= Cardinality(At("woken")')
      BY <1>0, <1>1, <2>1, <3>1, <3>2
    <3> QED
      BY <3>3 DEF AsManyWoken
  <2> QED
    BY <2>5, <2>6, <2>7 DEF PoolInv
<1> QED
  BY <1>2, <1>3, <1>4

(* A connection that is opened was counted before, and a thread that wakes *)
(* by itself is one more on its way.                                       *)
LEMMA QuietStep ==
  ASSUME PoolInv, NEW t \in Thread, connect(t) \/ spurious(t)
  PROVE  PoolInv'
<1>0. /\ PoolTypes /\ PoolCounts /\ AsManyWoken
      /\ idle \in Nat /\ failures \in Nat
      /\ at \in [Thread -> {"out", "woken", "waiting", "opening", "lent"}]
      /\ UNCHANGED <<idle, live_connections, failures>>
  BY DEF PoolInv, PoolTypes, connect, spurious
<1>1. CASE connect(t)
  <2>1. at[t] = "opening" /\ at' = [at EXCEPT ![t] = "lent"]
    BY <1>1 DEF connect
  <2>2. Using' = Using /\ At("woken")' = At("woken") /\ At("waiting")' = At("waiting")
    BY <1>0, <2>1 DEF At, Using
  <2>3. PoolTypes'
    BY <1>0, <2>1 DEF PoolTypes
  <2>4. PoolCounts' /\ AsManyWoken'
    BY <1>0, <2>2 DEF PoolCounts, AsManyWoken, Using
  <2> QED
    BY <2>3, <2>4 DEF PoolInv
<1>2. CASE spurious(t)
  <2>1. at[t] = "waiting" /\ at' = [at EXCEPT ![t] = "woken"]
    BY <1>2 DEF spurious
  <2>2. /\ Using' = Using /\ At("woken")' = At("woken") \cup {t}
        /\ t \in At("waiting") /\ t \in Thread \ At("woken") /\ At("woken") \in SUBSET Thread
    BY <1>0, <2>1 DEF At, Using
  <2>3. /\ Cardinality(At("woken") \cup {t}) = Cardinality(At("woken")) + 1
        /\ Cardinality(At("woken")) \in Nat
    BY <2>2, ThreadSets
  <2>4. PoolTypes'
    BY <1>0, <2>1 DEF PoolTypes
  <2>5. PoolCounts'
    BY <1>0, <2>2 DEF PoolCounts, Using
  <2>6. AsManyWoken'
    BY <1>0, <2>2, <2>3 DEF AsManyWoken
  <2> QED
    BY <2>4, <2>5, <2>6 DEF PoolInv
<1> QED
  BY <1>1, <1>2

(* Every reachable state of the pool satisfies the inductive invariant.    *)
THEOREM PoolInvariance == PoolSpec => []PoolInv
<1>1. ASSUME PoolInit PROVE PoolInv
  <2>1. At("lent") \cup At("opening") = {} /\ At("waiting") = {}
    BY <1>1 DEF PoolInit, At
  <2>2. Cardinality({}) = 0
    BY FS_EmptySet
  <2>3. PoolCounts
    BY <1>1, <2>1, <2>2, PoolAssumption DEF PoolInit, PoolCounts
  <2> QED
    BY <1>1, <2>1, <2>3 DEF PoolInit, PoolInv, PoolTypes, AsManyWoken
<1>2. ASSUME PoolInv, [PoolNext]_poolVars PROVE PoolInv'
  <2>1. CASE PoolNext
    BY <1>2, <2>1, GetStep, LeaveStep, QuietStep DEF PoolNext
  <2>2. CASE UNCHANGED poolVars
    BY <1>2, <2>2 DEF poolVars, PoolInv, PoolTypes, PoolCounts, AsManyWoken, At
  <2> QED
    BY <1>2, <2>1, <2>2
<1> QED
  BY <1>1, <1>2, PTL DEF PoolSpec

(* Every connection that is counted exists and there are never more than   *)
(* max, also after opens that failed (PoolState::live, "never above max"). *)
THEOREM ConnectionsCounted == PoolSpec => []PoolCounts
<1>1. PoolInv => PoolCounts
  BY DEF PoolInv
<1> QED
  BY <1>1, PoolInvariance, PTL

(* No thread sleeps on a pool that could serve it unless an open failed:   *)
(* one notification per connection given back is enough (Pool::get and the *)
(* drop of a pooled connection).                                           *)
THEOREM WakeupsSuffice == PoolSpec => []NoLostWakeup
<1>1. ASSUME PoolInv PROVE NoLostWakeup
  <2>1. /\ idle \in Nat /\ failures \in Nat /\ live_connections \in Nat /\ max \in Nat
        /\ AsManyWoken
    BY <1>1, PoolAssumption DEF PoolInv, PoolTypes
  <2>2. At("woken") = {} => Cardinality(At("woken")) = 0
    BY FS_EmptySet
  <2> QED
    BY <2>1, <2>2 DEF AsManyWoken, NoLostWakeup
<1> QED
  BY <1>1, PoolInvariance, PTL
===============================================================================
