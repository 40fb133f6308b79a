--------------------------- MODULE ComputeJobsProofs ---------------------------
(***************************************************************************)
(* Proofs about ComputeJobs, for every deployment: any coordinators, nodes *)
(* and jobs, any interleaving of handlers, recovery passes, replays and    *)
(* crashes.                                                                *)
(*                                                                         *)
(* A row of the assignments table moves in steps that the chain justifies  *)
(* (RowMoves). What a handler knows when it writes such a step it learned  *)
(* before it started to wait, so the invariant also says of every handler  *)
(* in flight what its ledger transaction is about (GoodCall).              *)
(***************************************************************************)
EXTENDS ComputeJobs, TLAPS

Keys == AllShards \cup DOMAIN world.shards
Nodes == world.workers \cup Everyone \cup {NoNode} \cup {world.requester[j] : j \in DOMAIN world.shards}
Tx == [kind : {"reserve", "reward", "refund"}, object : Keys \cup {NoNode}, to : Nodes, created_at : Nat]
Row == [status : {"none", "blocked", "pending", "leased", "settling", "completed", "refunded"},
        leased_to : Nodes, lease_until : Nat, leased_by : Nodes]
Kind == {"none", "job_reserve", "community_reserve", "provider_reward", "job_refund"}
Intent == [status : {"none", "pending", "certified", "unrecoverable"}, kind : Kind, tx : Tx, attempts : Nat]

ShardsType == shards \in [Everyone -> [AllShards -> Row]]
IntentsType == intents \in [Everyone -> [Keys -> Intent]]
ReplayType == watermark \in [Everyone -> Nat \ {0}] /\ replayed \in [Everyone -> Nat]
TodoType == todo \in [Everyone -> SUBSET [kind : Kind, tx : Tx]]
LedgerType == sent \subseteq Tx /\ chain \in Seq(Tx)
JobsTypes == now \in Nat /\ ShardsType /\ IntentsType /\ ReplayType /\ TodoType /\ LedgerType

Refunded(s) == \E tx \in Range(chain) : tx.kind = "refund" /\ tx.object = s

GoodCall(call) ==
  /\ call.c \in Everyone
  /\ call.tx \in Tx
  /\ call.op # "recover" => call.tx.object = call.object
  /\ call.op = "refund" => call.tx.kind = "refund"
  /\ call.op = "verify" => call.object \in AllShards /\ Claimed(JobOf(call.object))

JobsInv ==
  /\ JobsTypes
  /\ \A call \in calls : GoodCall(call)
  /\ RunnableIsFunded
  /\ SettledIsClaimed

Runnable == {"pending", "leased", "settling"}

(* What a step may make of the status of row s.                            *)
RowMoves(s, old, new) ==
  \/ new = old
  \/ new = "blocked"
  \/ new \in Runnable /\ (old \in Runnable \/ Claimed(JobOf(s)))
  \/ new = "completed" /\ Claimed(s)
  \/ new = "refunded" /\ Refunded(s)

RowsMove == \A c \in Everyone : \A s \in AllShards : RowMoves(s, shards[c][s].status, shards'[c][s].status)
CallsMove == \A call \in calls' : call \in calls \/ GoodCall(call)

----------------------------------------------------------------------------
(* The deployment is fixed, and with it the tables' keys and types.        *)
LEMMA SameWorld ==
  ASSUME world' = world
  PROVE  /\ Everyone' = Everyone /\ AllShards' = AllShards /\ Keys' = Keys
         /\ Tx' = Tx /\ Row' = Row /\ Intent' = Intent
<1>1. Everyone' = Everyone /\ AllShards' = AllShards
  BY DEF Everyone, AllShards, Shards
<1>2. Keys' = Keys /\ Nodes' = Nodes
  BY <1>1 DEF Keys, Nodes
<1> QED BY <1>1, <1>2 DEF Tx, Row, Intent

(* A step that keeps the types, moves rows as the chain allows and starts  *)
(* no unjustified handler keeps the invariant, for the chain only grows.   *)
LEMMA JobsKept ==
  ASSUME JobsInv, world' = world, JobsTypes', RowsMove, CallsMove,
         Range(chain) \subseteq Range(chain')
  PROVE  JobsInv'
<1>1. Everyone' = Everyone /\ AllShards' = AllShards /\ Tx' = Tx
  BY SameWorld
<1>2. \A k : (Claimed(k) => Claimed(k)') /\ (Refunded(k) => Refunded(k)')
  BY DEF Claimed, Refunded, claim_key
<1>3. \A call \in calls' : GoodCall(call)'
  <2> SUFFICES ASSUME NEW call \in calls' PROVE GoodCall(call)'
    OBVIOUS
  <2>1. GoodCall(call)
    BY DEF JobsInv, CallsMove
  <2> QED BY <1>1, <1>2, <2>1 DEF GoodCall
<1>4. RunnableIsFunded'
  <2> SUFFICES ASSUME NEW c \in Everyone, NEW s \in AllShards, shards'[c][s].status \in Runnable
               PROVE  Claimed(JobOf(s))'
    BY <1>1 DEF RunnableIsFunded, Runnable, JobOf
  <2>1. RowMoves(s, shards[c][s].status, shards'[c][s].status)
    BY DEF RowsMove
  <2>2. shards[c][s].status \in Runnable => Claimed(JobOf(s))
    BY DEF JobsInv, RunnableIsFunded, Runnable
  <2> QED BY <1>2, <2>1, <2>2 DEF RowMoves, Runnable
<1>5. SettledIsClaimed'
  <2> SUFFICES ASSUME NEW c \in Everyone, NEW s \in AllShards
               PROVE  /\ shards'[c][s].status = "completed" => Claimed(s)'
                      /\ shards'[c][s].status = "refunded" => Refunded(s)'
    BY <1>1 DEF SettledIsClaimed, Refunded
  <2>1. RowMoves(s, shards[c][s].status, shards'[c][s].status)
    BY DEF RowsMove
  <2>2. /\ shards[c][s].status = "completed" => Claimed(s)
        /\ shards[c][s].status = "refunded" => Refunded(s)
    BY DEF JobsInv, SettledIsClaimed, Refunded
  <2> QED BY <1>2, <2>1, <2>2 DEF RowMoves, Runnable
<1> QED BY <1>3, <1>4, <1>5 DEF JobsInv

(* JobOf takes a shard to a job of the deployment.                         *)
LEMMA JobOfType ==
  ASSUME NEW s \in AllShards
  PROVE  JobOf(s) \in DOMAIN world.shards
BY DEF AllShards, Shards, JobOf

(* The transactions the handlers build.                                    *)
LEMMA TxTypes ==
  /\ \A j \in DOMAIN world.shards, t \in Nat :
       reserve_tx(j, t) \in Tx /\ claim_key(reserve_tx(j, t)) = j
  /\ \A s \in AllShards, n \in world.workers, t \in Nat :
       reward_tx(s, n, t) \in Tx /\ claim_key(reward_tx(s, n, t)) = s
  /\ \A s \in AllShards, t \in Nat :
       refund_tx(s, t) \in Tx /\ refund_tx(s, t).kind = "refund" /\ claim_key(refund_tx(s, t)) = s
  /\ reserve_tx(NoNode, 0) \in Tx
<1>1. \A s \in AllShards : world.requester[JobOf(s)] \in Nodes
  BY JobOfType DEF Nodes
<1>2. NoNode \in Nodes /\ world.workers \subseteq Nodes
  BY DEF Nodes
<1> QED BY <1>1, <1>2 DEF Tx, Keys, reserve_tx, reward_tx, refund_tx, claim_key

(* The fields of a handler that waits.                                     *)
LEMMA CallFields ==
  ASSUME NEW op, NEW c, NEW k, NEW tx
  PROVE  LET call == Call(op, c, k, tx)
         IN  call.op = op /\ call.c = c /\ call.object = k /\ call.tx = tx
BY DEF Call

(* Writing, certifying or deferring an intent keeps the type of the table. *)
LEMMA IntentTypes ==
  ASSUME IntentsType, NEW c \in Everyone
  PROVE  /\ \A kind \in Kind, tx \in Tx :
              persist_ledger_intent(c, kind, tx) \in [Everyone -> [Keys -> Intent]]
         /\ \A rows \in [Everyone -> [Keys -> Intent]] : \A k :
              certify_ledger_intent(rows, c, k) \in [Everyone -> [Keys -> Intent]]
         /\ \A k : defer_ledger_intent(c, k) /\ world' = world => IntentsType'
<1>1. ASSUME NEW kind \in Kind, NEW tx \in Tx
      PROVE  persist_ledger_intent(c, kind, tx) \in [Everyone -> [Keys -> Intent]]
  <2>1. [status |-> "pending", kind |-> kind, tx |-> tx, attempts |-> 0] \in Intent
    BY DEF Intent
  <2>2. \A row \in Intent : [row EXCEPT !.tx = tx] \in Intent
    BY DEF Intent
  <2> QED BY <2>1, <2>2 DEF persist_ledger_intent, IntentsType
<1>2. ASSUME NEW rows \in [Everyone -> [Keys -> Intent]], NEW k
      PROVE  certify_ledger_intent(rows, c, k) \in [Everyone -> [Keys -> Intent]]
  <2>1. \A row \in Intent, st \in {"none", "certified"} : [row EXCEPT !.status = st] \in Intent
    BY DEF Intent
  <2>2. CASE k \in Keys
    <3> DEFINE st == IF rows[c][k].status = "none" THEN "none" ELSE "certified"
    <3>1. [rows[c][k] EXCEPT !.status = st] \in Intent
      BY <2>1, <2>2
    <3>2. certify_ledger_intent(rows, c, k)
            = [rows EXCEPT ![c] = [rows[c] EXCEPT ![k] = [rows[c][k] EXCEPT !.status = st]]]
      BY DEF certify_ledger_intent
    <3> HIDE DEF st
    <3> QED BY <2>2, <3>1, <3>2
  <2>3. CASE k \notin Keys
    BY <2>3 DEF certify_ledger_intent
  <2> QED BY <2>2, <2>3
<1>3. ASSUME NEW k, defer_ledger_intent(c, k), world' = world
      PROVE  IntentsType'
  <2>1. ASSUME NEW row \in Intent PROVE Deferred(row) \in Intent
    <3> DEFINE st == IF row.attempts + 1 >= MAX_INTENT_ATTEMPTS THEN "unrecoverable" ELSE row.status
    <3>1. st \in {"none", "pending", "certified", "unrecoverable"} /\ row.attempts + 1 \in Nat
      BY DEF Intent
    <3>2. Deferred(row) = [row EXCEPT !.attempts = row.attempts + 1, !.status = st]
      BY DEF Deferred, Intent
    <3> HIDE DEF st
    <3> QED BY <3>1, <3>2 DEF Intent
  <2>2. Everyone' = Everyone /\ Keys' = Keys /\ Intent' = Intent
    BY <1>3, SameWorld
  <2>3. CASE k \in Keys
    BY <1>3, <2>1, <2>2, <2>3 DEF defer_ledger_intent, IntentsType
  <2>4. CASE k \notin Keys
    BY <1>3, <2>2, <2>4 DEF defer_ledger_intent, IntentsType
  <2> QED BY <2>3, <2>4
<1> QED BY <1>1, <1>2, <1>3

(* A reserve is certified: its blocked shards are released.                *)
LEMMA ReservationFinalized ==
  ASSUME ShardsType, IntentsType, world' = world, NEW c \in Everyone, NEW j,
         Claimed(j), finalize_reservation(c, j)
  PROVE  ShardsType' /\ IntentsType' /\ RowsMove
<1>1. Everyone' = Everyone /\ AllShards' = AllShards /\ Keys' = Keys /\ Row' = Row /\ Intent' = Intent
  BY SameWorld
<1>2. IntentsType'
  BY <1>1, IntentTypes DEF finalize_reservation, IntentsType
<1>3. \A row \in Row : [row EXCEPT !.status = "pending"] \in Row /\ [row EXCEPT !.status = "pending"].status = "pending"
  BY DEF Row
<1>4. shards' = [shards EXCEPT ![c] = [s \in AllShards |->
        IF JobOf(s) = j /\ shards[c][s].status = "blocked"
        THEN [shards[c][s] EXCEPT !.status = "pending"] ELSE shards[c][s]]]
  BY DEF finalize_reservation, ShardsType
<1>5. ShardsType'
  BY <1>1, <1>3, <1>4 DEF ShardsType
<1>6. RowsMove
  <2> SUFFICES ASSUME NEW d \in Everyone, NEW s \in AllShards
               PROVE  RowMoves(s, shards[d][s].status, shards'[d][s].status)
    BY DEF RowsMove
  <2>1. shards[d][s] \in Row
    BY DEF ShardsType
  <2>2. \/ shards'[d][s] = shards[d][s]
        \/ JobOf(s) = j /\ shards'[d][s] = [shards[d][s] EXCEPT !.status = "pending"]
    BY <1>4 DEF ShardsType
  <2> QED BY <1>3, <2>1, <2>2 DEF RowMoves, Runnable
<1> QED BY <1>2, <1>5, <1>6

(* One row is rewritten in the table of one coordinator.                   *)
LEMMA OneRow ==
  ASSUME ShardsType, world' = world, NEW c \in Everyone, NEW s, NEW row \in Row,
         shards' = [shards EXCEPT ![c] = [shards[c] EXCEPT ![s] = row]],
         s \in AllShards => RowMoves(s, shards[c][s].status, row.status)
  PROVE  ShardsType' /\ RowsMove
<1>1. Everyone' = Everyone /\ AllShards' = AllShards /\ Row' = Row
  BY SameWorld
<1>2. ShardsType'
  BY <1>1 DEF ShardsType
<1>3. ASSUME NEW d \in Everyone, NEW r \in AllShards
      PROVE  RowMoves(r, shards[d][r].status, shards'[d][r].status)
  <2>1. CASE d = c /\ r = s
    <3>1. shards'[d][r] = row
      BY <2>1 DEF ShardsType
    <3> QED BY <2>1, <3>1
  <2>2. CASE ~(d = c /\ r = s)
    <3>1. shards'[d][r] = shards[d][r]
      BY <2>2 DEF ShardsType
    <3> QED BY <3>1 DEF RowMoves
  <2> QED BY <2>1, <2>2
<1> QED BY <1>2, <1>3 DEF RowsMove

(* A reward is certified: the settling shard is completed.                 *)
LEMMA RewardFinalized ==
  ASSUME ShardsType, IntentsType, world' = world, NEW c \in Everyone, NEW s,
         Claimed(s), finalize_reward(c, s)
  PROVE  ShardsType' /\ IntentsType' /\ RowsMove
<1>1. Everyone' = Everyone /\ AllShards' = AllShards /\ Keys' = Keys /\ Row' = Row /\ Intent' = Intent
  BY SameWorld
<1>2. IntentsType'
  BY <1>1, IntentTypes DEF finalize_reward, IntentsType
<1>3. CASE s \in AllShards
  <2> DEFINE old == shards[c][s]
             row == IF old.status = "settling" THEN [old EXCEPT !.status = "completed", !.lease_until = 0] ELSE old
  <2>1. old \in Row
    BY <1>3 DEF ShardsType
  <2>2. row \in Row /\ (row.status = old.status \/ row.status = "completed")
    BY <2>1 DEF Row
  <2>3. shards' = [shards EXCEPT ![c] = [shards[c] EXCEPT ![s] = row]]
    BY DEF finalize_reward
  <2>4. RowMoves(s, shards[c][s].status, row.status)
    BY <2>2 DEF RowMoves
  <2> HIDE DEF row
  <2> QED BY <1>2, <2>2, <2>3, <2>4, OneRow
<1>4. CASE s \notin AllShards
  <2>1. shards' = shards
    BY <1>4 DEF finalize_reward, ShardsType
  <2> QED BY <1>1, <1>2, <2>1 DEF ShardsType, RowsMove, RowMoves
<1> QED BY <1>3, <1>4

(* What recovery finalizes is on the chain.                                *)
LEMMA Finalized ==
  ASSUME ShardsType, IntentsType, world' = world, NEW c \in Everyone, NEW item,
         Claimed(claim_key(item.tx)), Finalize(c, item)
  PROVE  ShardsType' /\ IntentsType' /\ RowsMove
BY ReservationFinalized, RewardFinalized DEF Finalize

(* The start: rows are open only in a deployment that has begun, whose     *)
(* reserves are the chain.                                                 *)
LEMMA JobsInitial == JobsInit => JobsInv
<1> SUFFICES ASSUME JobsInit PROVE JobsInv
  OBVIOUS
<1> DEFINE n == Cardinality(DOMAIN world.shards)
           reserves == {reserve_tx(j, 0) : j \in DOMAIN world.shards}
<1>1. n \in Nat
  BY JobsAssumption DEF JobsInit
<1>2. reserves \subseteq Tx
  BY TxTypes
<1>3. world.begun => chain \in [1..n -> reserves] /\ Range(chain) = reserves
  BY DEF JobsInit, Bijection, Surjection, Range
<1>4. chain \in Seq(Tx)
  <2>1. CASE world.begun
    <3>1. chain \in [1..n -> Tx]
      BY <1>2, <1>3, <2>1
    <3> QED BY <1>1, <3>1
  <2>2. CASE ~world.begun
    <3>1. chain = <<>>
      BY <2>2 DEF JobsInit
    <3> QED BY <3>1
  <2> QED BY <2>1, <2>2
<1>5. now \in Nat /\ ReplayType /\ TodoType /\ LedgerType
  BY <1>4 DEF JobsInit, ReplayType, TodoType, LedgerType
<1>6. NoShard \in Row /\ [NoShard EXCEPT !.status = "pending"] \in Row
  BY DEF NoShard, Row, Nodes
<1>7. ShardsType
  BY <1>6 DEF JobsInit, ShardsType
<1>8. IntentsType
  <2>1. NoIntent \in Intent
    BY TxTypes DEF NoIntent, Intent, Kind
  <2>2. \A k \in DOMAIN world.shards :
          [status |-> "certified", kind |-> "community_reserve", tx |-> reserve_tx(k, 0), attempts |-> 0] \in Intent
    BY TxTypes DEF Intent, Kind
  <2> QED BY <2>1, <2>2 DEF JobsInit, IntentsType, Keys
<1>9. \A c \in Everyone, s \in AllShards :
        \/ shards[c][s].status = "none"
        \/ world.begun /\ shards[c][s].status = "pending"
  BY DEF JobsInit, NoShard, Begun
<1>10. world.begun => \A s \in AllShards : Claimed(JobOf(s))
  BY <1>3, JobOfType, TxTypes DEF Claimed
<1> QED BY <1>5, <1>7, <1>8, <1>9, <1>10 DEF JobsInv, JobsTypes, RunnableIsFunded, SettledIsClaimed, JobsInit

----------------------------------------------------------------------------
(* Steps that leave the tables and the chain alone.                        *)
LEMMA QuietSteps ==
  ASSUME JobsInv, NEW c,
         \/ Tick \/ CallFails
         \/ /\ c \in Everyone
            /\ \/ recover_pending(c) \/ record_watermark(c) \/ Crash(c)
               \/ \E n \in world.workers, s \in AllShards : report_result(c, n, s)
               \/ \E s \in AllShards : refund_shard(c, s)
  PROVE  JobsInv'
<1>i. /\ now \in Nat /\ ShardsType /\ IntentsType /\ ReplayType /\ TodoType /\ LedgerType
      /\ RunnableIsFunded
      /\ \A call \in calls : GoodCall(call)
  BY DEF JobsInv, JobsTypes
<1>0. /\ world' = world /\ shards' = shards /\ intents' = intents /\ chain' = chain
  BY DEF Tick, CallFails, recover_pending, record_watermark, Crash, report_result, refund_shard, dbVars
<1>1. Everyone' = Everyone /\ AllShards' = AllShards /\ Keys' = Keys /\ Tx' = Tx /\ Row' = Row /\ Intent' = Intent
  BY <1>0, SameWorld
<1>2. ShardsType' /\ IntentsType' /\ RowsMove /\ Range(chain) \subseteq Range(chain')
  BY <1>i, <1>0, <1>1 DEF ShardsType, IntentsType, RowsMove, RowMoves
<1>3. now' \in Nat
  BY <1>i DEF Tick, CallFails, recover_pending, record_watermark, Crash, report_result, refund_shard
<1>4. ReplayType'
  <2>1. ASSUME c \in Everyone, record_watermark(c) PROVE ReplayType'
    BY <1>i, <1>1, <2>1 DEF record_watermark, ReplayType
  <2>2. ASSUME c \in Everyone, Crash(c) PROVE ReplayType'
    BY <1>i, <1>1, <2>2 DEF Crash, ReplayType, dbVars
  <2> QED BY <1>i, <1>1, <2>1, <2>2
      DEF ReplayType, Tick, CallFails, recover_pending, report_result, refund_shard, dbVars
<1>5. TodoType'
  <2>1. ASSUME c \in Everyone, recover_pending(c) PROVE TodoType'
    <3>1. \A k \in Pending(c) : intents[c][k] \in Intent
      BY <1>i, <2>1 DEF Pending, IntentsType
    <3>2. {[kind |-> intents[c][k].kind, tx |-> intents[c][k].tx] : k \in Pending(c)} \subseteq [kind : Kind, tx : Tx]
      BY <3>1 DEF Intent
    <3> QED BY <1>i, <1>1, <2>1, <3>2 DEF recover_pending, TodoType
  <2>2. ASSUME c \in Everyone, Crash(c) PROVE TodoType'
    BY <1>i, <1>1, <2>2 DEF Crash, TodoType
  <2> QED BY <1>i, <1>1, <2>1, <2>2
      DEF TodoType, Tick, CallFails, record_watermark, report_result, refund_shard
<1>6. LedgerType' /\ CallsMove
  <2>1. ASSUME c \in Everyone, NEW n \in world.workers, NEW s \in AllShards, report_result(c, n, s)
        PROVE  LedgerType' /\ CallsMove
    <3> DEFINE new == Call("verify", c, s, reward_tx(s, n, 0))
    <3>1. Claimed(JobOf(s))
      BY <1>i, <2>1 DEF report_result, RunnableIsFunded
    <3>2. GoodCall(new)
      BY <2>1, <3>1, TxTypes, CallFields DEF GoodCall, claim_key
    <3> QED BY <1>i, <1>0, <1>1, <2>1, <3>2 DEF report_result, LedgerType, CallsMove
  <2>2. ASSUME c \in Everyone, NEW s \in AllShards, refund_shard(c, s)
        PROVE  LedgerType' /\ CallsMove
    <3> DEFINE new == Call("refund", c, s, refund_tx(s, now))
    <3>1. GoodCall(new)
      BY <1>i, <2>2, TxTypes, CallFields DEF GoodCall, claim_key
    <3> QED BY <1>i, <1>0, <1>1, <2>2, <3>1, TxTypes DEF refund_shard, LedgerType, CallsMove, Send
  <2> QED BY <1>i, <1>0, <1>1, <2>1, <2>2
      DEF LedgerType, CallsMove, Tick, CallFails, recover_pending, record_watermark, Crash
<1> QED BY <1>0, <1>2, <1>3, <1>4, <1>5, <1>6, JobsKept DEF JobsTypes

(* Steps of a coordinator's clients and nodes on its tables.               *)
LEMMA TableSteps ==
  ASSUME JobsInv, NEW c \in Everyone,
         \/ \E j \in DOMAIN world.shards, kind \in Kind : persist_job(c, j, kind)
         \/ \E n \in world.workers : poll_work(c, n)
         \/ \E peer \in Everyone : shorten_peer_leases(c, peer)
         \/ sync_from_ledger(c)
  PROVE  JobsInv'
<1>i. /\ now \in Nat /\ ShardsType /\ IntentsType /\ ReplayType /\ TodoType /\ LedgerType
      /\ RunnableIsFunded
      /\ \A call \in calls : GoodCall(call)
  BY DEF JobsInv, JobsTypes
<1>0. world' = world /\ now' = now /\ todo' = todo /\ watermark' = watermark /\ chain' = chain
  BY DEF persist_job, poll_work, shorten_peer_leases, sync_from_ledger
<1>n. now' \in Nat
  BY <1>i, <1>0
<1>1. Everyone' = Everyone /\ AllShards' = AllShards /\ Keys' = Keys /\ Tx' = Tx /\ Row' = Row /\ Intent' = Intent
  BY <1>0, SameWorld
<1>2. TodoType' /\ Range(chain) \subseteq Range(chain')
  BY <1>i, <1>0, <1>1 DEF TodoType
<1>r. \A s \in AllShards : shards[c][s] \in Row
  BY <1>i DEF ShardsType
<1>p. NoNode \in Nodes /\ NoShard \in Row /\ Unfunded \in Row /\ Unfunded.status = "blocked"
      /\ [NoShard EXCEPT !.status = "pending"] \in Row /\ [NoShard EXCEPT !.status = "pending"].status = "pending"
  BY DEF Nodes, NoShard, Unfunded, Row
<1>t. ASSUME NEW table \in [AllShards -> Row], shards' = [shards EXCEPT ![c] = table],
             \A s \in AllShards : RowMoves(s, shards[c][s].status, table[s].status)
      PROVE  ShardsType' /\ RowsMove
  <2>1. ShardsType'
    BY <1>i, <1>1, <1>t DEF ShardsType
  <2>2. \A d \in Everyone : shards'[d] = IF d = c THEN table ELSE shards[d]
    BY <1>i, <1>t DEF ShardsType
  <2>3. RowsMove
    BY <1>t, <2>2 DEF RowsMove, RowMoves
  <2> QED BY <2>1, <2>3
<1>3. ASSUME NEW j \in DOMAIN world.shards, NEW kind \in Kind, persist_job(c, j, kind)
      PROVE  JobsInv'
  <2>1. PICK t \in {now, now - 1} \cap Nat :
          /\ shards' = [shards EXCEPT ![c] = [s \in DOMAIN @ |-> IF JobOf(s) = j THEN Unfunded ELSE @[s]]]
          /\ intents' = persist_ledger_intent(c, kind, reserve_tx(j, t))
          /\ sent' = Send(reserve_tx(j, t))
          /\ calls' = calls \cup {Call("submit", c, j, reserve_tx(j, t))}
          /\ replayed' = replayed
    BY <1>3 DEF persist_job
  <2> DEFINE table == [s \in AllShards |-> IF JobOf(s) = j THEN Unfunded ELSE shards[c][s]]
  <2>2. table \in [AllShards -> Row] /\ shards' = [shards EXCEPT ![c] = table]
    BY <1>i, <1>r, <1>p, <2>1 DEF ShardsType
  <2>3. \A s \in AllShards : RowMoves(s, shards[c][s].status, table[s].status)
    BY <1>p DEF RowMoves
  <2>4. ShardsType' /\ RowsMove
    <3> HIDE DEF table
    <3> QED BY <1>t, <2>2, <2>3
  <2>5. IntentsType'
    BY <1>i, <1>1, <2>1, IntentTypes, TxTypes DEF IntentsType
  <2>6. LedgerType' /\ ReplayType'
    BY <1>i, <1>0, <1>1, <2>1, TxTypes DEF LedgerType, ReplayType, Send
  <2>7. GoodCall(Call("submit", c, j, reserve_tx(j, t)))
    <3>1. reserve_tx(j, t) \in Tx /\ reserve_tx(j, t).object = j
      BY TxTypes DEF claim_key
    <3> QED BY <3>1, CallFields DEF GoodCall
  <2>8. CallsMove
    BY <2>1, <2>7 DEF CallsMove
  <2> QED BY <1>n, <1>0, <1>2, <2>4, <2>5, <2>6, <2>8, JobsKept DEF JobsTypes
<1>4. ASSUME NEW n \in world.workers, poll_work(c, n)
      PROVE  JobsInv'
  <2> DEFINE lease == [status |-> "leased", leased_to |-> n, lease_until |-> now + LeaseSeconds,
                       leased_by |-> IF federated THEN c ELSE NoNode]
  <2>1. lease \in Row /\ lease.status = "leased"
    <3>1. n \in Nodes /\ c \in Nodes /\ now + LeaseSeconds \in Nat
      BY <1>i, JobsAssumption DEF Nodes
    <3> QED BY <1>p, <3>1 DEF Row
  <2>2. Expire(c) \in [AllShards -> Row]
    BY <1>i, <1>r, <1>p DEF Expire, ShardsType
  <2>3. \A s \in AllShards : RowMoves(s, shards[c][s].status, Expire(c)[s].status)
    BY <1>i, <1>p DEF Expire, expired, RowMoves, Runnable, ShardsType
  <2>4. ShardsType' /\ RowsMove
    <3>1. CASE shards' = [shards EXCEPT ![c] = Expire(c)]
      BY <1>t, <2>2, <2>3, <3>1
    <3>2. ASSUME NEW s \in pending_work(Expire(c), n),
                 shards' = [shards EXCEPT ![c] = [Expire(c) EXCEPT ![s] = lease]]
          PROVE  ShardsType' /\ RowsMove
      <4> DEFINE table == [Expire(c) EXCEPT ![s] = lease]
      <4>1. table \in [AllShards -> Row]
        BY <2>1, <2>2
      <4>2. s \in AllShards /\ Expire(c)[s].status = "pending"
        BY <2>2 DEF pending_work
      <4>3. shards[c][s].status \in Runnable \/ Claimed(JobOf(s))
        BY <2>3, <4>2 DEF RowMoves, Runnable
      <4>4. \A r \in AllShards : table[r] = IF r = s THEN lease ELSE Expire(c)[r]
        BY <2>2
      <4>5. \A r \in AllShards : RowMoves(r, shards[c][r].status, table[r].status)
        <5> HIDE DEF table, lease
        <5> QED BY <2>1, <2>3, <4>3, <4>4 DEF RowMoves, Runnable
      <4> HIDE DEF table
      <4>6. shards' = [shards EXCEPT ![c] = table]
        BY <3>2 DEF table
      <4> QED BY <1>t, <4>1, <4>5, <4>6
    <3> QED BY <1>4, <3>1, <3>2 DEF poll_work
  <2>5. IntentsType' /\ LedgerType' /\ ReplayType' /\ CallsMove
    BY <1>i, <1>0, <1>1, <1>4 DEF poll_work, IntentsType, LedgerType, ReplayType, CallsMove
  <2> QED BY <1>n, <1>0, <1>2, <2>4, <2>5, JobsKept DEF JobsTypes
<1>5. ASSUME NEW peer \in Everyone, shorten_peer_leases(c, peer)
      PROVE  JobsInv'
  <2> DEFINE table == [s \in AllShards |->
        IF shards[c][s].status = "leased" /\ shards[c][s].leased_by = peer /\ shards[c][s].lease_until > now + GraceSeconds
        THEN [shards[c][s] EXCEPT !.lease_until = now + GraceSeconds] ELSE shards[c][s]]
  <2>1. \A row \in Row : /\ [row EXCEPT !.lease_until = now + GraceSeconds] \in Row
                         /\ [row EXCEPT !.lease_until = now + GraceSeconds].status = row.status
    BY <1>i, JobsAssumption DEF Row
  <2>2. table \in [AllShards -> Row] /\ shards' = [shards EXCEPT ![c] = table]
    BY <1>i, <1>5, <1>r, <2>1 DEF shorten_peer_leases, ShardsType
  <2>3. \A s \in AllShards : RowMoves(s, shards[c][s].status, table[s].status)
    BY <1>r, <2>1 DEF RowMoves
  <2>4. ShardsType' /\ RowsMove
    <3> HIDE DEF table
    <3> QED BY <1>t, <2>2, <2>3
  <2>5. IntentsType' /\ LedgerType' /\ ReplayType' /\ CallsMove
    BY <1>i, <1>0, <1>1, <1>5 DEF shorten_peer_leases, IntentsType, LedgerType, ReplayType, CallsMove
  <2> QED BY <1>n, <1>0, <1>2, <2>4, <2>5, JobsKept DEF JobsTypes
<1>6. ASSUME sync_from_ledger(c)
      PROVE  JobsInv'
  <2> DEFINE next == IF replayed[c] = 0 THEN watermark[c] ELSE replayed[c]
             tx == chain[next]
  <2>1. next \in Nat \ {0} /\ next <= Len(chain)
    BY <1>i, <1>6 DEF sync_from_ledger, ReplayType
  <2>2. tx \in Tx /\ tx \in Range(chain) /\ Claimed(tx.object)
    <3>1. next \in DOMAIN chain /\ chain \in Seq(Tx)
      BY <1>i, <2>1 DEF LedgerType
    <3> HIDE DEF next
    <3>2. tx \in Tx
      BY <3>1
    <3>3. tx \in Range(chain)
      BY <3>1 DEF Range
    <3> QED BY <3>2, <3>3 DEF Claimed, claim_key
  <2>3. apply_transaction(c, tx) /\ replayed' = [replayed EXCEPT ![c] = next + 1]
        /\ intents' = intents /\ sent' = sent /\ calls' = calls
    BY <1>6 DEF sync_from_ledger
  <2> HIDE DEF next, tx
  <2>4. ReplayType'
    <3>1. replayed' \in [Everyone -> Nat]
      <4>1. replayed \in [Everyone -> Nat] /\ next + 1 \in Nat
        BY <1>i, <2>1 DEF ReplayType
      <4> QED BY <2>3, <4>1
    <3> QED BY <1>i, <1>0, <1>1, <3>1 DEF ReplayType
  <2>5. CASE tx.kind = "reserve"
    <3> DEFINE table == [s \in AllShards |->
          IF JobOf(s) = tx.object /\ shards[c][s].status = "none"
          THEN [shards[c][s] EXCEPT !.status = "pending"] ELSE shards[c][s]]
    <3>1. \A row \in Row : [row EXCEPT !.status = "pending"] \in Row /\ [row EXCEPT !.status = "pending"].status = "pending"
      BY DEF Row
    <3>2. table \in [AllShards -> Row] /\ shards' = [shards EXCEPT ![c] = table]
      BY <1>i, <1>r, <2>3, <2>5, <3>1 DEF apply_transaction, insert_job, ShardsType
    <3>3. \A s \in AllShards : RowMoves(s, shards[c][s].status, table[s].status)
      BY <1>r, <2>2, <3>1 DEF RowMoves, Runnable
    <3> HIDE DEF table
    <3> QED BY <1>i, <1>n, <1>t, <3>2, <3>3, <1>0, <1>1, <1>2, <2>3, <2>4, JobsKept
        DEF JobsTypes, IntentsType, LedgerType, CallsMove
  <2>6. CASE tx.kind # "reserve"
    <3> DEFINE st == IF tx.kind = "reward" THEN "completed" ELSE "refunded"
               row == [shards[c][tx.object] EXCEPT !.status = st, !.leased_to = NoNode, !.lease_until = 0]
    <3>1. shards' = [shards EXCEPT ![c] = [shards[c] EXCEPT ![tx.object] = row]]
      BY <2>3, <2>6 DEF apply_transaction, settle_shard
    <3>2. \/ st = "completed"
          \/ st = "refunded" /\ Refunded(tx.object)
      BY <2>2, <2>6 DEF Tx, Refunded
    <3>3. CASE tx.object \in AllShards
      <4>1. row \in Row /\ row.status = st
        BY <1>r, <1>p, <3>3 DEF Row
      <4>2. RowMoves(tx.object, shards[c][tx.object].status, row.status)
        BY <2>2, <3>2, <4>1 DEF RowMoves
      <4> HIDE DEF row
      <4>3. ShardsType' /\ RowsMove
        BY <1>i, <1>0, <3>1, <4>1, <4>2, OneRow
      <4> QED BY <1>i, <1>n, <4>3, <1>0, <1>1, <1>2, <2>3, <2>4, JobsKept DEF JobsTypes, IntentsType, LedgerType, CallsMove
    <3>4. CASE tx.object \notin AllShards
      <4>1. shards' = shards
        BY <1>i, <3>1, <3>4 DEF ShardsType
      <4>2. ShardsType' /\ RowsMove
        BY <1>i, <1>1, <4>1 DEF ShardsType, RowsMove, RowMoves
      <4> QED BY <1>i, <1>n, <4>2, <1>0, <1>1, <1>2, <2>3, <2>4, JobsKept DEF JobsTypes, IntentsType, LedgerType, CallsMove
    <3> QED BY <3>3, <3>4
  <2> QED BY <2>5, <2>6
<1> QED BY <1>3, <1>4, <1>5, <1>6

(* Steps of a handler that waited, and of the validators.                  *)
LEMMA AnswerSteps ==
  ASSUME JobsInv,
         Certify \/ SubmitCertified \/ ResultRejected \/ ResultAccepted \/ RewardCertified \/ RefundCertified
  PROVE  JobsInv'
<1>i. /\ now \in Nat /\ ShardsType /\ IntentsType /\ ReplayType /\ TodoType /\ LedgerType
      /\ RunnableIsFunded
      /\ \A call \in calls : GoodCall(call)
  BY DEF JobsInv, JobsTypes
<1>0. world' = world /\ now' = now /\ todo' = todo /\ watermark' = watermark /\ replayed' = replayed
  BY DEF Certify, SubmitCertified, ResultRejected, ResultAccepted, RewardCertified, RefundCertified
<1>n. now' \in Nat
  BY <1>i, <1>0
<1>1. Everyone' = Everyone /\ AllShards' = AllShards /\ Keys' = Keys /\ Tx' = Tx /\ Row' = Row /\ Intent' = Intent
  BY <1>0, SameWorld
<1>2. TodoType' /\ ReplayType'
  BY <1>i, <1>0, <1>1 DEF TodoType, ReplayType
<1>3. ASSUME chain' = chain, sent' = sent
      PROVE  LedgerType' /\ Range(chain) \subseteq Range(chain')
  BY <1>i, <1>1, <1>3 DEF LedgerType
<1>4. \A call \in calls : OnChain(call.tx) => Claimed(call.tx.object)
  BY DEF OnChain, Claimed, claim_key
<1>5. CASE Certify
  <2>1. PICK tx \in sent : chain' = Append(chain, tx) /\ sent' \subseteq sent
    BY <1>5 DEF Certify
  <2>2. LedgerType' /\ Range(chain) \subseteq Range(chain')
    BY <1>i, <1>1, <2>1 DEF LedgerType, Range
  <2>3. shards' = shards /\ intents' = intents /\ calls' = calls
    BY <1>5 DEF Certify
  <2>4. ShardsType' /\ IntentsType' /\ RowsMove /\ CallsMove
    BY <1>i, <1>1, <2>3 DEF ShardsType, IntentsType, RowsMove, RowMoves, CallsMove
  <2> QED BY <1>n, <1>0, <1>2, <2>2, <2>4, JobsKept DEF JobsTypes
<1>6. CASE SubmitCertified
  <2>1. PICK call \in calls : /\ call.op = "submit" /\ OnChain(call.tx)
                              /\ finalize_reservation(call.c, call.object)
                              /\ calls' = calls \ {call} /\ sent' = sent /\ chain' = chain
    BY <1>6 DEF SubmitCertified
  <2>2. call.c \in Everyone /\ Claimed(call.object)
    BY <1>i, <1>4, <2>1 DEF GoodCall
  <2>3. ShardsType' /\ IntentsType' /\ RowsMove
    BY <1>i, <1>0, <2>1, <2>2, ReservationFinalized
  <2> QED BY <1>n, <1>0, <1>2, <1>3, <2>1, <2>3, JobsKept DEF JobsTypes, CallsMove
<1>7. CASE RewardCertified
  <2>1. PICK call \in calls : /\ call.op = "reward" /\ OnChain(call.tx)
                              /\ finalize_reward(call.c, call.object)
                              /\ calls' = calls \ {call} /\ sent' = sent /\ chain' = chain
    BY <1>7 DEF RewardCertified
  <2>2. call.c \in Everyone /\ Claimed(call.object)
    BY <1>i, <1>4, <2>1 DEF GoodCall
  <2>3. ShardsType' /\ IntentsType' /\ RowsMove
    BY <1>i, <1>0, <2>1, <2>2, RewardFinalized
  <2> QED BY <1>n, <1>0, <1>2, <1>3, <2>1, <2>3, JobsKept DEF JobsTypes, CallsMove
<1>8. CASE RefundCertified
  <2>1. PICK call \in calls :
          /\ call.op = "refund" /\ OnChain(call.tx)
          /\ intents' = certify_ledger_intent(persist_ledger_intent(call.c, "job_refund", call.tx), call.c, call.object)
          /\ settle_refunded_shard(call.c, call.object)
          /\ calls' = calls \ {call} /\ sent' = sent /\ chain' = chain
    BY <1>8 DEF RefundCertified
  <2> DEFINE c == call.c
             s == call.object
             row == [shards[c][s] EXCEPT !.status = "refunded", !.lease_until = 0]
  <2>2. c \in Everyone /\ call.tx \in Tx /\ Refunded(s)
    BY <1>i, <2>1 DEF GoodCall, Refunded, OnChain
  <2>3. IntentsType'
    BY <1>i, <1>1, <2>1, <2>2, IntentTypes DEF IntentsType, Kind
  <2>4. ShardsType' /\ RowsMove
    <3>1. CASE s \in AllShards
      <4>1. shards[c][s] \in Row
        BY <1>i, <2>2, <3>1 DEF ShardsType
      <4>2. row \in Row /\ row.status = "refunded"
        BY <4>1 DEF Row
      <4>3. [shards[c] EXCEPT ![s].status = "refunded", ![s].lease_until = 0] = [shards[c] EXCEPT ![s] = row]
        BY <1>i, <2>2, <3>1, <4>1 DEF ShardsType, Row
      <4>4. shards' = [shards EXCEPT ![c] = [shards[c] EXCEPT ![s] = row]]
        BY <2>1, <4>3 DEF settle_refunded_shard
      <4>5. RowMoves(s, shards[c][s].status, row.status)
        BY <2>2, <4>2 DEF RowMoves
      <4> HIDE DEF c, s, row
      <4> QED BY <1>i, <1>0, <2>2, <4>2, <4>4, <4>5, OneRow
    <3>2. CASE s \notin AllShards
      <4>1. [shards[c] EXCEPT ![s].status = "refunded", ![s].lease_until = 0] = shards[c]
        BY <1>i, <2>2, <3>2 DEF ShardsType
      <4>2. shards' = shards
        BY <1>i, <2>1, <2>2, <4>1 DEF settle_refunded_shard, ShardsType
      <4> QED BY <1>i, <1>1, <4>2 DEF ShardsType, RowsMove, RowMoves
    <3> QED BY <3>1, <3>2
  <2> QED BY <1>n, <1>0, <1>2, <1>3, <2>1, <2>3, <2>4, JobsKept DEF JobsTypes, CallsMove
<1>9. CASE ResultRejected
  <2>1. PICK call \in calls :
          /\ call.op = "verify"
          /\ shards' = [shards EXCEPT ![call.c][call.object] =
               [@ EXCEPT !.status = "pending", !.leased_to = NoNode, !.lease_until = 0]]
          /\ calls' = calls \ {call} /\ sent' = sent /\ chain' = chain /\ intents' = intents
    BY <1>9 DEF ResultRejected
  <2> DEFINE c == call.c
             s == call.object
             row == [shards[c][s] EXCEPT !.status = "pending", !.leased_to = NoNode, !.lease_until = 0]
  <2>2. c \in Everyone /\ s \in AllShards /\ Claimed(JobOf(s))
    BY <1>i, <2>1 DEF GoodCall
  <2>3. shards[c][s] \in Row /\ NoNode \in Nodes
    BY <1>i, <2>2 DEF ShardsType, Nodes
  <2>4. row \in Row /\ row.status = "pending"
    BY <2>3 DEF Row
  <2>5. shards' = [shards EXCEPT ![c] = [shards[c] EXCEPT ![s] = row]]
    BY <2>1
  <2>6. RowMoves(s, shards[c][s].status, row.status)
    BY <2>2, <2>4 DEF RowMoves, Runnable
  <2>7. ShardsType' /\ RowsMove
    <3> HIDE DEF c, s, row
    <3> QED BY <1>i, <1>0, <2>2, <2>4, <2>5, <2>6, OneRow
  <2> QED BY <1>i, <1>n, <1>0, <1>1, <1>2, <1>3, <2>1, <2>7, JobsKept DEF JobsTypes, CallsMove, IntentsType
<1>10. CASE ResultAccepted
  <2>1. PICK call \in calls :
          LET row == shards[call.c][call.object]
              tx == [call.tx EXCEPT !.created_at = now]
          IN  /\ call.op = "verify"
              /\ chain' = chain
              /\ \/ /\ row.status = "leased"
                    /\ shards' = [shards EXCEPT ![call.c][call.object] = Settling(@)]
                    /\ intents' = persist_ledger_intent(call.c, "provider_reward", tx)
                    /\ sent' = Send(tx)
                    /\ calls' = (calls \ {call}) \cup {Call("reward", call.c, call.object, tx)}
                 \/ calls' = calls \ {call} /\ shards' = shards /\ intents' = intents /\ sent' = sent
    BY <1>10 DEF ResultAccepted
  <2> DEFINE c == call.c
             s == call.object
             tx == [call.tx EXCEPT !.created_at = now]
             row == Settling(shards[c][s])
  <2>2. c \in Everyone /\ s \in AllShards /\ call.tx \in Tx /\ call.tx.object = s
    BY <1>i, <2>1 DEF GoodCall
  <2>3. CASE calls' = calls \ {call} /\ shards' = shards /\ intents' = intents /\ sent' = sent
    <3>1. ShardsType' /\ RowsMove /\ IntentsType' /\ CallsMove
      BY <1>i, <1>1, <2>3 DEF ShardsType, RowsMove, RowMoves, IntentsType, CallsMove
    <3> QED BY <1>n, <1>0, <1>2, <1>3, <2>1, <2>3, <3>1, JobsKept DEF JobsTypes
  <2>4. CASE /\ shards[c][s].status = "leased"
             /\ shards' = [shards EXCEPT ![c][s] = Settling(@)]
             /\ intents' = persist_ledger_intent(c, "provider_reward", tx)
             /\ sent' = Send(tx)
             /\ calls' = (calls \ {call}) \cup {Call("reward", c, s, tx)}
    <3>1. tx \in Tx /\ tx.object = s
      BY <1>i, <2>2 DEF Tx
    <3>2. shards[c][s] \in Row
      BY <1>i, <2>2 DEF ShardsType
    <3>3. row \in Row /\ row.status = "settling"
      BY <3>2 DEF Row, Settling
    <3>4. shards' = [shards EXCEPT ![c] = [shards[c] EXCEPT ![s] = row]]
      BY <2>4
    <3>5. RowMoves(s, shards[c][s].status, row.status)
      BY <2>4, <3>3 DEF RowMoves, Runnable
    <3> HIDE DEF c, s, tx, row
    <3>6. GoodCall(Call("reward", c, s, tx))
      BY <2>2, <3>1, CallFields DEF GoodCall
    <3>7. ShardsType' /\ RowsMove
      BY <1>i, <1>0, <2>2, <3>3, <3>4, <3>5, OneRow
    <3>8. IntentsType'
      BY <1>i, <1>1, <2>2, <2>4, <3>1, IntentTypes DEF IntentsType, Kind
    <3>9. LedgerType' /\ CallsMove /\ Range(chain) \subseteq Range(chain')
      BY <1>i, <1>1, <2>1, <2>4, <3>1, <3>6 DEF LedgerType, Send, CallsMove
    <3> QED BY <1>n, <1>0, <1>2, <3>7, <3>8, <3>9, JobsKept DEF JobsTypes
  <2> QED BY <2>1, <2>3, <2>4
<1> QED BY <1>5, <1>6, <1>7, <1>8, <1>9, <1>10

(* Steps of the recovery pass.                                             *)
LEMMA RecoverySteps ==
  ASSUME JobsInv, NEW c \in Everyone, recover_one(c) \/ RecoverEnds(c)
  PROVE  JobsInv'
<1>i. /\ now \in Nat /\ ShardsType /\ IntentsType /\ ReplayType /\ TodoType /\ LedgerType
      /\ RunnableIsFunded
      /\ \A call \in calls : GoodCall(call)
  BY DEF JobsInv, JobsTypes
<1>0. world' = world /\ now' = now /\ chain' = chain /\ watermark' = watermark /\ replayed' = replayed
  BY DEF recover_one, RecoverEnds
<1>n. now' \in Nat
  BY <1>i, <1>0
<1>1. Everyone' = Everyone /\ AllShards' = AllShards /\ Keys' = Keys /\ Tx' = Tx /\ Row' = Row /\ Intent' = Intent
  BY <1>0, SameWorld
<1>2. ReplayType' /\ Range(chain) \subseteq Range(chain')
  BY <1>i, <1>0, <1>1 DEF ReplayType
<1>3. ASSUME shards' = shards PROVE ShardsType' /\ RowsMove
  BY <1>i, <1>1, <1>3 DEF ShardsType, RowsMove, RowMoves
<1>4. CASE recover_one(c)
  <2>1. PICK item \in todo[c] :
          /\ todo' = [todo EXCEPT ![c] = @ \ {item}]
          /\ \/ /\ Claimed(claim_key(item.tx)) /\ Finalize(c, item)
                /\ calls' = calls /\ sent' = sent
             \/ /\ sent' = Send(item.tx)
                /\ calls' = calls \cup {[Call("recover", c, claim_key(item.tx), item.tx) EXCEPT !.kind = item.kind]}
                /\ shards' = shards /\ intents' = intents
             \/ /\ defer_ledger_intent(c, claim_key(item.tx))
                /\ shards' = shards /\ calls' = calls /\ sent' = sent
    BY <1>4 DEF recover_one
  <2>2. item.tx \in Tx /\ TodoType'
    BY <1>i, <1>1, <2>1 DEF TodoType
  <2>3. LedgerType' /\ CallsMove
    <3> DEFINE new == [Call("recover", c, claim_key(item.tx), item.tx) EXCEPT !.kind = item.kind]
    <3>1. GoodCall(new)
      BY <2>2 DEF GoodCall, Call
    <3> HIDE DEF new
    <3>2. \A call \in calls' : call \in calls \/ call = new
      BY <2>1 DEF new
    <3>3. sent' \subseteq Tx
      BY <1>i, <2>1, <2>2 DEF LedgerType, Send
    <3> QED BY <1>i, <1>0, <1>1, <3>1, <3>2, <3>3 DEF LedgerType, CallsMove
  <2>4. ShardsType' /\ IntentsType' /\ RowsMove
    <3>1. CASE Claimed(claim_key(item.tx)) /\ Finalize(c, item)
      BY <1>i, <1>0, <3>1, Finalized
    <3>2. CASE shards' = shards /\ intents' = intents
      BY <1>i, <1>1, <1>3, <3>2 DEF IntentsType
    <3>3. CASE shards' = shards /\ defer_ledger_intent(c, claim_key(item.tx))
      BY <1>i, <1>0, <1>3, <3>3, IntentTypes
    <3> QED BY <2>1, <3>1, <3>2, <3>3
  <2> QED BY <1>n, <1>0, <1>2, <2>2, <2>3, <2>4, JobsKept DEF JobsTypes
<1>5. CASE RecoverEnds(c)
  <2>1. PICK call \in calls :
          /\ calls' = calls \ {call} /\ todo' = todo /\ sent' = sent
          /\ call.c = c
          /\ \/ OnChain(call.tx) /\ Finalize(call.c, call)
             \/ defer_ledger_intent(call.c, claim_key(call.tx)) /\ shards' = shards
    BY <1>5 DEF RecoverEnds
  <2>2. TodoType' /\ LedgerType' /\ CallsMove
    BY <1>i, <1>0, <1>1, <2>1 DEF TodoType, LedgerType, CallsMove
  <2>3. ShardsType' /\ IntentsType' /\ RowsMove
    <3>1. CASE OnChain(call.tx) /\ Finalize(c, call)
      <4>1. Claimed(claim_key(call.tx))
        BY <3>1 DEF OnChain, Claimed
      <4> QED BY <1>i, <1>0, <3>1, <4>1, Finalized
    <3>2. CASE shards' = shards /\ defer_ledger_intent(c, claim_key(call.tx))
      BY <1>i, <1>0, <1>3, <3>2, IntentTypes
    <3> QED BY <2>1, <3>1, <3>2
  <2> QED BY <1>n, <1>0, <1>2, <2>2, <2>3, JobsKept DEF JobsTypes
<1> QED BY <1>4, <1>5

(* Every step keeps the invariant.                                         *)
LEMMA JobsStep == JobsInv /\ [JobsNext]_jobsVars => JobsInv'
<1> SUFFICES ASSUME JobsInv, [JobsNext]_jobsVars PROVE JobsInv'
  OBVIOUS
<1>1. CASE Certify \/ SubmitCertified \/ ResultRejected \/ ResultAccepted \/ RewardCertified \/ RefundCertified
  BY <1>1, AnswerSteps
<1>2. ASSUME NEW c \in Everyone, NEW j \in DOMAIN world.shards, submit_job(c, j) \/ seed(c, j)
      PROVE  JobsInv'
  <2>1. \E kind \in Kind : persist_job(c, j, kind)
    BY <1>2 DEF submit_job, seed, Kind
  <2> QED BY <2>1, TableSteps
<1>3. ASSUME NEW c \in Everyone,
             \/ \E n \in world.workers : poll_work(c, n)
             \/ \E peer \in Everyone : shorten_peer_leases(c, peer)
             \/ sync_from_ledger(c)
      PROVE  JobsInv'
  BY <1>3, TableSteps
<1>4. ASSUME NEW c \in Everyone,
             \/ recover_pending(c) \/ record_watermark(c) \/ Crash(c)
             \/ \E n \in world.workers, s \in AllShards : report_result(c, n, s)
             \/ \E s \in AllShards : refund_shard(c, s)
      PROVE  JobsInv'
  BY <1>4, QuietSteps
<1>5. ASSUME NEW c \in Everyone, recover_one(c) \/ RecoverEnds(c)
      PROVE  JobsInv'
  BY <1>5, RecoverySteps
<1>6. CASE Tick \/ CallFails
  BY <1>6, QuietSteps
<1>7. CASE UNCHANGED jobsVars
  <2>1. /\ world' = world /\ now' = now /\ shards' = shards /\ intents' = intents /\ watermark' = watermark
        /\ replayed' = replayed /\ todo' = todo /\ calls' = calls /\ sent' = sent /\ chain' = chain
    BY <1>7 DEF jobsVars
  <2>2. Everyone' = Everyone /\ AllShards' = AllShards /\ Keys' = Keys /\ Tx' = Tx /\ Row' = Row /\ Intent' = Intent
    BY <2>1, SameWorld
  <2>3. JobsTypes'
    BY <2>1, <2>2 DEF JobsInv, JobsTypes, ShardsType, IntentsType, ReplayType, TodoType, LedgerType
  <2>4. RowsMove /\ CallsMove
    BY <2>1 DEF RowsMove, RowMoves, CallsMove
  <2> QED BY <2>1, <2>3, <2>4, JobsKept
<1> QED BY <1>1, <1>2, <1>3, <1>4, <1>5, <1>6, <1>7 DEF JobsNext

----------------------------------------------------------------------------
(* In every deployment, a row that may be leased, is leased or is being    *)
(* settled belongs to a reserve on the chain: whatever submit_job, seed,   *)
(* the recovery pass, the replay and late verdicts interleave to, no work  *)
(* is handed out that nobody has paid for.                                 *)
THEOREM WorkIsFunded == JobsSpec => []RunnableIsFunded
<1>1. JobsInv => RunnableIsFunded
  BY DEF JobsInv
<1> QED BY <1>1, JobsInitial, JobsStep, PTL DEF JobsSpec

(* In every deployment, finalize_reward, settle_refunded_shard and the     *)
(* replay mark a shard completed or refunded only once its claim is spent  *)
(* on the chain, and refunded only when the entry is a refund.             *)
THEOREM SettlementIsOnChain == JobsSpec => []SettledIsClaimed
<1>1. JobsInv => SettledIsClaimed
  BY DEF JobsInv
<1> QED BY <1>1, JobsInitial, JobsStep, PTL DEF JobsSpec
================================================================================
