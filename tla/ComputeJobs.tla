------------------------------ MODULE ComputeJobs ------------------------------
(***************************************************************************)
(* The compute jobs of the coordinators: the tables jobs, assignments and  *)
(* ledger_intents of each coordinator's database, the handlers that submit *)
(* a job, lease its shards, take results and return escrow, the pass that  *)
(* recovers unsettled intents, and the replay of the ledger into the       *)
(* database of a federated coordinator.                                    *)
(*                                                                         *)
(* The validators are the append-only chain that LedgerClient implements:  *)
(* a transaction that was sent may be certified at any later time, also    *)
(* after its sender was told of an error or has died, and an ok is only    *)
(* ever told of a transaction that is on the chain.                        *)
(***************************************************************************)
EXTENDS Naturals, Sequences, FiniteSets, Functions

(* A world is a deployment with the bounds of its instance:                *)
(*   members, workers   the coordinators and the nodes that poll           *)
(*   shards, requester  the jobs, with the node that pays, NoNode for the  *)
(*                      commons                                            *)
(*   entry              the coordinators jobs are handed to                *)
(*   begun              whether its jobs are funded at the start           *)
(*   MaxTime, MaxCalls, MaxCrashes  the last tick, the handlers in flight  *)
(*                      at once and the crashes                            *)
CONSTANTS
  Coordinator, Worlds, NoNode,
  SETTLEMENT_WINDOW_SECS, MAX_INTENT_ATTEMPTS, LeaseSeconds, GraceSeconds

ASSUME JobsAssumption ==
  /\ LeaseSeconds \in Nat /\ GraceSeconds \in Nat
  /\ \A w \in Worlds : Cardinality(DOMAIN w.shards) \in Nat

VARIABLES
  world,     \* the deployment, fixed from the start
  now,       \* now_unix() of everybody
  jobs,      \* jobs[c][j]: the row of job j in the database of c
  shards,    \* shards[c][s]: the row of assignment s
  intents,   \* intents[c][k]: the row of claim key k
  watermark, \* the next entry of the chain c has not replayed
  replayed,  \* where the replay of c stands in memory, 0 between passes
  todo,      \* what the recovery pass of c has read and not yet judged
  calls,     \* handlers that wait for the ledger or for a verification
  sent,      \* transactions some client has proposed whose claim is free
  chain,     \* the certified entries
  crashes,
  reopened   \* history: the settled rows a late rejection put back

jobsVars == <<world, now, jobs, shards, intents, watermark, replayed, todo,
              calls, sent, chain, crashes, reopened>>
dbVars == <<jobs, shards, intents, watermark>>

Shards(j) == {<<j, i>> : i \in 1..world.shards[j]}
AllShards == UNION {Shards(j) : j \in DOMAIN world.shards}
JobOf(s) == s[1]
Everyone == world.members
federated == Cardinality(Everyone) > 1

----------------------------------------------------------------------------
(* Transactions. A reserve, community or paid, claims reserve:<job>; a     *)
(* reward and a refund both claim reward:<assignment>. The object's name   *)
(* alone tells these claims apart.                                         *)

reserve_tx(j, t) == [kind |-> "reserve", object |-> j, to |-> NoNode, created_at |-> t]
reward_tx(s, n, t) == [kind |-> "reward", object |-> s, to |-> n, created_at |-> t]
refund_tx(s, t) == [kind |-> "refund", object |-> s, to |-> world.requester[JobOf(s)], created_at |-> t]
claim_key(tx) == tx.object

OnChain(tx) == tx \in Range(chain)
Claimed(k) == \E tx \in Range(chain) : claim_key(tx) = k
Reserved(j) == CHOOSE tx \in Range(chain) : tx.kind = "reserve" /\ tx.object = j

(* What the validators accept: a free claim, and for a settlement of a     *)
(* shard a certified reserve and the right side of its window.             *)
LedgerAccepts(tx) ==
  /\ ~Claimed(claim_key(tx))
  /\ tx.kind # "reserve" =>
       /\ Claimed(JobOf(tx.object))
       /\ LET closes == Reserved(JobOf(tx.object)).created_at + SETTLEMENT_WINDOW_SECS
          IN  IF tx.kind = "reward" THEN tx.created_at <= closes ELSE tx.created_at > closes

Send(tx) == IF Claimed(claim_key(tx)) THEN sent ELSE sent \cup {tx}
Certify ==
  \E tx \in sent :
    /\ LedgerAccepts(tx)
    /\ chain' = Append(chain, tx)
    /\ sent' = {other \in sent : claim_key(other) # claim_key(tx)}
    /\ UNCHANGED <<world, now, jobs, shards, intents, watermark, replayed, todo, calls, crashes, reopened>>

----------------------------------------------------------------------------
(* The database.                                                           *)

NoJob == [status |-> "none", created_at |-> 0]
NoShard == [status |-> "none", leased_to |-> NoNode, lease_until |-> 0, leased_by |-> NoNode]
\* Faulty: a job is open before its reserve is certified.
Unfunded_open == [NoShard EXCEPT !.status = "pending"]

(* Escrow that is not certified yet keeps the shards of its job back.      *)
Unfunded == [NoShard EXCEPT !.status = "blocked"]
NoIntent == [status |-> "none", kind |-> "none", tx |-> reserve_tx(NoNode, 0), attempts |-> 0]

(* An intent that exists keeps its status: only its transaction is new.    *)
persist_ledger_intent(c, kind, tx) ==
  [intents EXCEPT ![c][claim_key(tx)] =
     IF @.status = "none" THEN [status |-> "pending", kind |-> kind, tx |-> tx, attempts |-> 0]
     ELSE [@ EXCEPT !.tx = tx]]

certify_ledger_intent(rows, c, k) ==
  [rows EXCEPT ![c][k].status = IF @ = "none" THEN "none" ELSE "certified"]

finalize_reservation(c, j) ==
  /\ intents' = certify_ledger_intent(intents, c, j)
  /\ jobs' = [jobs EXCEPT ![c][j].status = IF @ = "funding" THEN "pending" ELSE @]
  /\ shards' = [shards EXCEPT ![c] = [s \in DOMAIN @ |->
       IF JobOf(s) = j /\ @[s].status = "blocked" THEN [@[s] EXCEPT !.status = "pending"] ELSE @[s]]]

(* The status of job j once its rows are as in table: over when nothing is *)
(* open, and completed only when nothing was refunded.                     *)
Statuses(table, j) == {table[s].status : s \in Shards(j)}
close_settled_job(table, j, status) ==
  IF Statuses(table, j) \subseteq {"completed", "refunded"}
  THEN IF "refunded" \in Statuses(table, j) THEN "closed" ELSE "completed"
  ELSE status

finalize_reward(c, s) ==
  LET table == [shards[c] EXCEPT ![s] =
                  IF @.status = "settling" THEN [@ EXCEPT !.status = "completed", !.lease_until = 0] ELSE @]
  IN  /\ intents' = certify_ledger_intent(intents, c, s)
      /\ shards' = [shards EXCEPT ![c] = table]
      /\ jobs' = [jobs EXCEPT ![c][JobOf(s)].status = close_settled_job(table, JobOf(s), @)]

settle_refunded_shard(c, s) ==
  LET table == [shards[c] EXCEPT ![s].status = "refunded", ![s].lease_until = 0]
  IN  /\ shards' = [shards EXCEPT ![c] = table]
      /\ jobs' = [jobs EXCEPT ![c][JobOf(s)].status = close_settled_job(table, JobOf(s), @)]

----------------------------------------------------------------------------
(* Handlers that wait.                                                     *)

Call(op, c, k, tx) == [op |-> op, c |-> c, object |-> k, tx |-> tx, kind |-> "none"]
Room == Cardinality(calls) < world.MaxCalls

(* A handler that transacts ends with an error and no trace in the         *)
(* database, whatever becomes of its transaction.                          *)
CallFails ==
  \E call \in calls :
    /\ call.op \in {"submit", "reward", "refund"}
    /\ calls' = calls \ {call}
    /\ UNCHANGED <<world, now, jobs, shards, intents, watermark, replayed, todo, sent, chain, crashes, reopened>>

(* The job, its shards and the intent that pays for it land together; the  *)
(* clock is read once for the transaction and once more for the row.       *)
persist_job(c, j, kind) ==
  \E t \in {now, now - 1} \cap Nat :
    LET tx == reserve_tx(j, t)
    IN  /\ jobs[c][j].status = "none"
        /\ Room
        /\ jobs' = [jobs EXCEPT ![c][j] = [status |-> "funding", created_at |-> now]]
        /\ shards' = [shards EXCEPT ![c] = [s \in DOMAIN @ |->
             IF JobOf(s) = j THEN Unfunded ELSE @[s]]]
        /\ intents' = persist_ledger_intent(c, kind, tx)
        /\ sent' = Send(tx)
        /\ calls' = calls \cup {Call("submit", c, j, tx)}
        /\ UNCHANGED <<world, now, watermark, replayed, todo, chain, crashes, reopened>>

submit_job(c, j) == world.requester[j] # NoNode /\ persist_job(c, j, "job_reserve")
seed(c, j) == world.requester[j] = NoNode /\ persist_job(c, j, "community_reserve")

SubmitCertified ==
  \E call \in calls :
    /\ call.op = "submit" /\ OnChain(call.tx)
    /\ finalize_reservation(call.c, call.object)
    /\ calls' = calls \ {call}
    /\ UNCHANGED <<world, now, watermark, replayed, todo, sent, chain, crashes, reopened>>

(* Leases that ran out are returned first, by whichever node polls next.   *)
expired(row) == row.status = "leased" /\ row.lease_until < now
Expire(c) == [s \in DOMAIN shards[c] |-> IF expired(shards[c][s]) THEN [NoShard EXCEPT !.status = "pending"] ELSE shards[c][s]]
pending_work(table, n) == {s \in DOMAIN table : table[s].status = "pending" /\ world.requester[JobOf(s)] # n}

(* Which of the candidates wins is the scheduler's score; which coordinator *)
(* may offer a job is the federation's; here any candidate may be chosen   *)
(* and any coordinator may believe that it owns the job.                   *)
poll_work(c, n) ==
  LET table == Expire(c)
  IN  /\ shards' = [shards EXCEPT ![c] = table]
         \/ \E s \in pending_work(table, n) :
              shards' = [shards EXCEPT ![c] = [table EXCEPT ![s] =
                [status |-> "leased", leased_to |-> n, lease_until |-> now + LeaseSeconds,
                 leased_by |-> IF federated THEN c ELSE NoNode]]]
      /\ UNCHANGED <<world, now, jobs, intents, watermark, replayed, todo, calls, sent, chain, crashes, reopened>>

Settled(c, s) == shards[c][s].status \in {"completed", "refunded"}

\* Faulty: a reported shard is done before its reward is certified.
Settling_done(row) == [row EXCEPT !.status = "completed", !.lease_until = 0]

(* A shard is completed by the ledger's certificate, not by the result.    *)
Settling(row) == [row EXCEPT !.status = "settling", !.lease_until = 0]

(* A result is read against the row, verified without the database, and    *)
(* then written.                                                           *)
report_result(c, n, s) ==
  /\ shards[c][s].status = "leased" /\ shards[c][s].leased_to = n
  /\ Room
  /\ calls' = calls \cup {Call("verify", c, s, reward_tx(s, n, 0))}
  /\ UNCHANGED <<world, now, jobs, shards, intents, watermark, replayed, todo, sent, chain, crashes, reopened>>

ResultRejected ==
  \E call \in calls :
    /\ call.op = "verify"
    /\ shards' = [shards EXCEPT ![call.c][call.object] =
         [@ EXCEPT !.status = "pending", !.leased_to = NoNode, !.lease_until = 0]]
    /\ calls' = calls \ {call}
    /\ reopened' = IF Settled(call.c, call.object) THEN reopened \cup {<<call.c, call.object>>} ELSE reopened
    /\ UNCHANGED <<world, now, jobs, intents, watermark, replayed, todo, sent, chain, crashes>>

ResultAccepted ==
  \E call \in calls :
    LET row == shards[call.c][call.object]
        tx == [call.tx EXCEPT !.created_at = now]
    IN  /\ call.op = "verify"
        /\ IF row.status = "leased" /\ row.leased_to = tx.to
           THEN /\ shards' = [shards EXCEPT ![call.c][call.object] = Settling(@)]
                /\ intents' = persist_ledger_intent(call.c, "provider_reward", tx)
                /\ sent' = Send(tx)
                /\ calls' = (calls \ {call}) \cup {Call("reward", call.c, call.object, tx)}
           ELSE /\ calls' = calls \ {call}
                /\ UNCHANGED <<shards, intents, sent>>
        /\ UNCHANGED <<world, now, jobs, watermark, replayed, todo, chain, crashes, reopened>>

RewardCertified ==
  \E call \in calls :
    /\ call.op = "reward" /\ OnChain(call.tx)
    /\ finalize_reward(call.c, call.object)
    /\ calls' = calls \ {call}
    /\ UNCHANGED <<world, now, watermark, replayed, todo, sent, chain, crashes, reopened>>

(* The ledger decides before the coordinator writes anything down.         *)
refund_shard(c, s) ==
  LET tx == refund_tx(s, now)
  IN  /\ shards[c][s].status \in {"pending", "leased"}
      /\ now > jobs[c][JobOf(s)].created_at + SETTLEMENT_WINDOW_SECS
      /\ Room
      /\ sent' = Send(tx)
      /\ calls' = calls \cup {Call("refund", c, s, tx)}
      /\ UNCHANGED <<world, now, jobs, shards, intents, watermark, replayed, todo, chain, crashes, reopened>>

RefundCertified ==
  \E call \in calls :
    /\ call.op = "refund" /\ OnChain(call.tx)
    /\ intents' = certify_ledger_intent(persist_ledger_intent(call.c, "job_refund", call.tx), call.c, call.object)
    /\ settle_refunded_shard(call.c, call.object)
    /\ calls' = calls \ {call}
    /\ UNCHANGED <<world, now, watermark, replayed, todo, sent, chain, crashes, reopened>>

----------------------------------------------------------------------------
(* The recovery pass: the list of pending intents is read once, each is    *)
(* judged on its own, one after the other.                                 *)

Pending(c) == {k \in DOMAIN intents[c] : intents[c][k].status = "pending"}
Busy(c) == \E call \in calls : call.op = "recover" /\ call.c = c

recover_pending(c) ==
  /\ todo[c] = {} /\ ~Busy(c) /\ Pending(c) # {}
  /\ todo' = [todo EXCEPT ![c] = {[kind |-> intents[c][k].kind, tx |-> intents[c][k].tx] : k \in Pending(c)}]
  /\ UNCHANGED <<world, now, jobs, shards, intents, watermark, replayed, calls, sent, chain, crashes, reopened>>

Finalize(c, item) ==
  IF item.kind = "provider_reward" THEN finalize_reward(c, claim_key(item.tx))
  ELSE finalize_reservation(c, claim_key(item.tx))

\* Faulty: the last attempt but one parks the intent.
Deferred_early(row) ==
  [row EXCEPT !.attempts = @ + 1,
              !.status = IF row.attempts + 2 >= MAX_INTENT_ATTEMPTS THEN "unrecoverable" ELSE @]
\* Faulty: a retry is not counted.
Deferred_uncounted(row) ==
  [row EXCEPT !.status = IF row.attempts + 1 >= MAX_INTENT_ATTEMPTS THEN "unrecoverable" ELSE @]

(* One more failed pass; the last one parks the intent.                    *)
Deferred(row) ==
  [row EXCEPT !.attempts = @ + 1,
              !.status = IF row.attempts + 1 >= MAX_INTENT_ATTEMPTS THEN "unrecoverable" ELSE @]
defer_ledger_intent(c, k) ==
  intents' = IF intents[c][k].status # "pending" THEN intents
             ELSE [intents EXCEPT ![c][k] = Deferred(@)]

(* claim_quorum finds an entry, whichever it is, or none, or no quorum.    *)
recover_one(c) ==
  \E item \in todo[c] :
    /\ ~Busy(c)
    /\ todo' = [todo EXCEPT ![c] = @ \ {item}]
    /\ \/ /\ Claimed(claim_key(item.tx))
          /\ Finalize(c, item)
          /\ UNCHANGED <<calls, sent>>
       \/ /\ ~Claimed(claim_key(item.tx))
          /\ sent' = Send(item.tx)
          /\ calls' = calls \cup {[Call("recover", c, claim_key(item.tx), item.tx) EXCEPT !.kind = item.kind]}
          /\ UNCHANGED <<jobs, shards, intents>>
       \/ /\ defer_ledger_intent(c, claim_key(item.tx))
          /\ UNCHANGED <<jobs, shards, calls, sent>>
    /\ UNCHANGED <<world, now, watermark, replayed, chain, crashes, reopened>>

RecoverEnds(c) ==
  \E call \in calls :
    /\ call.op = "recover" /\ call.c = c
    /\ calls' = calls \ {call}
    /\ \/ OnChain(call.tx) /\ Finalize(call.c, call)
       \/ defer_ledger_intent(call.c, claim_key(call.tx)) /\ UNCHANGED <<jobs, shards>>
    /\ UNCHANGED <<world, now, watermark, replayed, todo, sent, chain, crashes, reopened>>

----------------------------------------------------------------------------
(* A federated coordinator replays the chain into its own tables, an entry *)
(* at a time; where it stands is written down when the pass is over.       *)

insert_job(c, tx) ==
  /\ jobs' = [jobs EXCEPT ![c][tx.object] =
       IF @.status = "none" THEN [status |-> "pending", created_at |-> tx.created_at] ELSE @]
  /\ shards' = [shards EXCEPT ![c] = [s \in DOMAIN @ |->
       IF JobOf(s) = tx.object /\ @[s].status = "none" THEN [@[s] EXCEPT !.status = "pending"] ELSE @[s]]]

settle_shard(c, tx) ==
  /\ shards' = [shards EXCEPT ![c][tx.object] =
       [@ EXCEPT !.status = IF tx.kind = "reward" THEN "completed" ELSE "refunded",
                 !.leased_to = NoNode, !.lease_until = 0]]
  /\ UNCHANGED jobs

apply_transaction(c, tx) == IF tx.kind = "reserve" THEN insert_job(c, tx) ELSE settle_shard(c, tx)

sync_from_ledger(c) ==
  LET next == IF replayed[c] = 0 THEN watermark[c] ELSE replayed[c]
  IN  /\ federated
      /\ next <= Len(chain)
      /\ apply_transaction(c, chain[next])
      /\ replayed' = [replayed EXCEPT ![c] = next + 1]
      /\ UNCHANGED <<world, now, intents, watermark, todo, calls, sent, chain, crashes, reopened>>

(* finalize_jobs closes every job without an open shard, as completed.     *)
finalize_jobs(c) ==
  [j \in DOMAIN jobs[c] |->
     IF jobs[c][j].status # "none" /\ Statuses(shards[c], j) \subseteq {"completed", "refunded"}
     THEN [jobs[c][j] EXCEPT !.status = "completed"] ELSE jobs[c][j]]

\* Faulty: the watermark moves to the tip, not to the last entry replayed.
record_watermark_at_tip(c) ==
  /\ replayed[c] # 0
  /\ jobs' = [jobs EXCEPT ![c] = finalize_jobs(c)]
  /\ watermark' = [watermark EXCEPT ![c] = Len(chain) + 1]
  /\ replayed' = [replayed EXCEPT ![c] = 0]
  /\ UNCHANGED <<world, now, shards, intents, todo, calls, sent, chain, crashes, reopened>>

record_watermark(c) ==
  /\ replayed[c] # 0
  /\ jobs' = [jobs EXCEPT ![c] = finalize_jobs(c)]
  /\ watermark' = [watermark EXCEPT ![c] = replayed[c]]
  /\ replayed' = [replayed EXCEPT ![c] = 0]
  /\ UNCHANGED <<world, now, shards, intents, todo, calls, sent, chain, crashes, reopened>>

(* A peer that stopped answering has the leases it granted cut short.      *)
shorten_peer_leases(c, peer) ==
  /\ c # peer
  /\ shards' = [shards EXCEPT ![c] = [s \in DOMAIN @ |->
       IF @[s].status = "leased" /\ @[s].leased_by = peer /\ @[s].lease_until > now + GraceSeconds
       THEN [@[s] EXCEPT !.lease_until = now + GraceSeconds] ELSE @[s]]]
  /\ UNCHANGED <<world, now, jobs, intents, watermark, replayed, todo, calls, sent, chain, crashes, reopened>>

----------------------------------------------------------------------------
(* A coordinator dies: what it kept in memory is gone, its database stays, *)
(* and it starts again.                                                    *)
Crash(c) ==
  /\ crashes < world.MaxCrashes
  /\ crashes' = crashes + 1
  /\ calls' = {call \in calls : call.c # c}
  /\ todo' = [todo EXCEPT ![c] = {}]
  /\ replayed' = [replayed EXCEPT ![c] = 0]
  /\ UNCHANGED <<world, now, dbVars, sent, chain, reopened>>

Tick ==
  /\ now < world.MaxTime
  /\ now' = now + 1
  /\ UNCHANGED <<world, dbVars, replayed, todo, calls, sent, chain, crashes, reopened>>

(* A world that has begun has certified the reserve of its jobs, and the   *)
(* coordinators jobs are handed to have finished submitting them.          *)
Begun(c) == world.begun /\ c \in world.entry
JobsInit ==
  /\ world \in Worlds
  /\ now = IF world.begun THEN 1 ELSE 0
  /\ jobs = [c \in Everyone |-> [j \in DOMAIN world.shards |->
       IF Begun(c) THEN [status |-> "pending", created_at |-> 0] ELSE NoJob]]
  /\ shards = [c \in Everyone |-> [s \in AllShards |->
       IF Begun(c) THEN [NoShard EXCEPT !.status = "pending"] ELSE NoShard]]
  /\ intents = [c \in Everyone |-> [k \in AllShards \cup DOMAIN world.shards |->
       IF Begun(c) /\ k \in DOMAIN world.shards
       THEN [status |-> "certified", kind |-> "community_reserve", tx |-> reserve_tx(k, 0), attempts |-> 0]
       ELSE NoIntent]]
  /\ watermark = [c \in Everyone |-> 1]
  /\ replayed = [c \in Everyone |-> 0]
  /\ todo = [c \in Everyone |-> {}]
  /\ chain \in IF world.begun
              THEN Bijection(1..Cardinality(DOMAIN world.shards), {reserve_tx(j, 0) : j \in DOMAIN world.shards})
              ELSE {<<>>}
  /\ sent = {} /\ calls = {} /\ crashes = 0 /\ reopened = {}

JobsNext ==
  \/ Certify \/ Tick
  \/ CallFails \/ SubmitCertified \/ ResultRejected \/ ResultAccepted
  \/ RewardCertified \/ RefundCertified 
  \/ \E c \in Everyone :
       \/ \E j \in DOMAIN world.shards : c \in world.entry /\ (submit_job(c, j) \/ seed(c, j))
       \/ \E n \in world.workers : poll_work(c, n)
       \/ \E n \in world.workers, s \in AllShards : report_result(c, n, s)
       \/ \E s \in AllShards : c \in world.entry /\ refund_shard(c, s)
       \/ recover_pending(c) \/ recover_one(c) \/ RecoverEnds(c)
       \/ sync_from_ledger(c) \/ record_watermark(c)
       \/ \E peer \in Everyone : shorten_peer_leases(c, peer)
       \/ Crash(c)

(* The recovery pass runs on a timer and takes one intent after the other; *)
(* a transaction it waits for is answered or fails at its deadline.        *)
RecoveryRuns(c) == c \in Everyone /\ (recover_pending(c) \/ recover_one(c) \/ RecoverEnds(c))
JobsFairness == \A c \in Coordinator : WF_jobsVars(RecoveryRuns(c))

JobsSpec == JobsInit /\ [][JobsNext]_jobsVars /\ JobsFairness

----------------------------------------------------------------------------
(* No runnable shard exists without certified funding: a row that may be   *)
(* leased, is leased or is being settled belongs to a reserve on the chain. *)
RunnableIsFunded ==
  \A c \in Everyone : \A s \in AllShards :
    shards[c][s].status \in {"pending", "leased", "settling"} => Claimed(JobOf(s))

(* A row says completed or refunded only of a shard whose claim is spent   *)
(* on the chain, and refunded only of one that was refunded there.         *)
SettledIsClaimed ==
  \A c \in Everyone : \A s \in AllShards :
    /\ shards[c][s].status = "completed" => Claimed(s)
    /\ shards[c][s].status = "refunded" => \E tx \in Range(chain) : tx.kind = "refund" /\ tx.object = s

(* Work that waits for the ledger is chased until the ledger has decided:  *)
(* a job in funding or a shard in settling whose claim is free has an      *)
(* intent that recovery will retry, or has used up its attempts.           *)
WaitingIsChased ==
  \A c \in Everyone : \A k \in DOMAIN intents[c] :
    LET status == IF k \in AllShards THEN shards[c][k].status ELSE jobs[c][k].status
    IN  status \in {"funding", "settling"} /\ ~Claimed(k) =>
          \/ intents[c][k].status = "pending"
          \/ intents[c][k].attempts >= MAX_INTENT_ATTEMPTS

(* Every intent is settled or parked in the end; none is retried for ever. *)
IntentsResolve == []<>(\A c \in Everyone : Pending(c) = {})

(* What is certified reaches the tables of every coordinator of a          *)
(* federation: up to its watermark each job is known and each settled      *)
(* shard is settled, unless a rejection of an older result reopened it.    *)
ReplayedIsKnown ==
  \A c \in Everyone : \A tx \in Range(SubSeq(chain, 1, watermark[c] - 1)) :
    IF tx.kind = "reserve" THEN jobs[c][tx.object].status # "none"
    ELSE Settled(c, tx.object) \/ <<c, tx.object>> \in reopened

(* No completed shard lacks a certified reward, once no handler is left in *)
(* flight.                                                                 *)
CompletedIsRewarded ==
  calls = {} => \A c \in Everyone : \A s \in AllShards :
    shards[c][s].status = "completed" => \E tx \in Range(chain) : tx.kind = "reward" /\ tx.object = s
================================================================================
