-------------------------------- MODULE MCMesh --------------------------------
(***************************************************************************)
(* The parts of the coordinator and of a node, each on a small instance. A *)
(* behaviour runs one of them and leaves the others in their initial       *)
(* states, so that the instances add up instead of multiplying.            *)
(***************************************************************************)
EXTENDS ComputeJobs, InferenceJobs, Federation, ConnectionPool, NodeRegistry,
        ShardScheduler, InferencePlan, QuorumReads,
        PipelineChain, ModelShard, ModelInstall, NodeDaemon, WorkVerification,
        TensorStream, DaemonLifecycle, IdentityHome, TLC

CONSTANTS c1, c2, w1, w2, j1,      \* jobs
          f1, f2, f3, k1, k2,      \* federation
          eu, us,                  \* schedule
          r1, r2                   \* chain

CONSTANT Parts   \* the parts a run is about

VARIABLE part

(* One coordinator that takes a job and may die once, and two federated    *)
(* ones whose job is funded. A requester is a node, the commons none.      *)
Alone == [members |-> {c1}, workers |-> {w1, w2}, shards |-> (j1 :> 1), requester |-> (j1 :> w2),
          entry |-> {c1}, begun |-> FALSE, MaxTime |-> 3, MaxCalls |-> 2, MaxCrashes |-> 1]
Pair == [members |-> {c1, c2}, workers |-> {w1}, shards |-> (j1 :> 1), requester |-> (j1 :> NoNode),
         entry |-> {c1}, begun |-> TRUE, MaxTime |-> 2, MaxCalls |-> 1, MaxCrashes |-> 0]
Seeded == [Alone EXCEPT !.requester = (j1 :> NoNode), !.MaxTime = 1, !.MaxCalls = 1, !.MaxCrashes = 0]
MCWorlds == {Alone, Pair, Seeded}
MCAlone == {Alone}

(* Two weights collide, so that the names decide.                          *)
MCweight == (f1 :> (k1 :> 5 @@ k2 :> 2)) @@ (f2 :> (k1 :> 5 @@ k2 :> 7)) @@ (f3 :> (k1 :> 3 @@ k2 :> 4))
MCName == f1 :> 1 @@ f2 :> 2 @@ f3 :> 3

(* Fast, slow and unmeasured nodes, and shards of which only some fit.     *)
MCWorkers ==
  [shared_cpus : {0, 4}, memory : {2, 8}, rate : {0, 1, 3}, rtt : {40}, region : {us},
   gpu : BOOLEAN, halvings : {0}, accepted : {0}, rejected : {0}]
  \cup [shared_cpus : {4}, memory : {8}, rate : {3}, rtt : {40}, region : {eu}, gpu : {FALSE},
        halvings : {0, 1}, accepted : {0, 24}, rejected : {0, 24}]
MCCandidates ==
  {[id |-> i, reward |-> r, memory |-> m, created_at |-> t, done_here |-> IF d = 0 THEN 0 ELSE 3, distance |-> d] :
     <<i, r, m, t, d>> \in {<<1, 900, 1, 0, 0>>, <<2, 2800, 4, 0, 1>>, <<3, 4000, 1, 200, 1>>,
                            <<4, 10, 1, 290, 1>>, <<5, 10, 1, 299, 2>>}}
MCBoards == {b \in SUBSET MCCandidates : Cardinality(b) \in 1..2}

(* Machine 3 may not hold the first stage; its bandwidth may be unknown.   *)
Fleet(i) ==
  [node_id : {i}, ready : BOOLEAN, cached : {i = 1}, latency : {20 * i}, load : IF i = 1 THEN {0, 150} ELSE {0},
   devices : IF i = 2 THEN {<<8, 4>>} ELSE {<<8>>}, bandwidth : IF i = 3 THEN {0, 9} ELSE {1, 5},
   position : IF i = 1 THEN {0} ELSE {30 * i - 40, NoPlace}, prefill : {i # 3}]
MCFleets == {{a, b, c} : a \in Fleet(1), b \in Fleet(2), c \in Fleet(3)}
MCRequirements ==
  [memory : {4, 6}, batch_size : {5}, pipeline_stages : {0, 2, 3}, tensor_parallelism : {2}, layer_count : {2, 3, 7}]

(* The change takes one of four seats away.                                *)
MCMembers == <<[members |-> {1, 2, 3, 4}, threshold |-> 3], [members |-> {1, 2, 3}, threshold |-> 3]>>
MCEntries == <<{"claim", "pay"}, {"change"}>>

(* Two runs at once on stages that hold one session.                       *)
MCSession == r1 :> "a" @@ r2 :> "b"
MCPrompt == r1 :> <<1, 1>> @@ r2 :> <<2>>

(* A header, two blocks and the shared tensors in three orders; with and   *)
(* without a head of its own, and with a type this build does not know.    *)
Tensor(of, offset, len) == [of |-> of, offset |-> offset, len |-> len]
Tied == {Tensor(-1, 0, 3), Tensor(0, 4, 4), Tensor(1, 8, 3), Tensor(-2, 12, 1)}
Untied == {Tensor(1, 0, 3), Tensor(-2, 4, 1), Tensor(0, 6, 2), Tensor(-1, 8, 2), Tensor(-3, 10, 4)}
Strange == {Tensor(0, 0, 5), Tensor(1, 6, Unknown), Tensor(-1, 10, 2), Tensor(-2, 12, 2)}
MCModels ==
  {[alignment |-> 2, header |-> 3, data_start |-> 4, file_len |-> 18, chunk_size |-> c, tensors |-> t] :
     c \in {2, 3, 4, 5, 7, 20}, t \in {Tied, Untied, Strange}}

(* A repository with one match, two, one in several files, and one without *)
(* a digest; what a server sends instead shares a prefix with the file.    *)
Entry(q, w, s) == [name |-> <<q, w>>, quant |-> q, whole |-> w, sha256 |-> s]
MCListings == {{Entry("q4", TRUE, <<1, 2>>)}, {Entry("q4", TRUE, <<1, 2>>), Entry("q8", TRUE, <<3, 4, 5>>)},
               {Entry("q8", TRUE, <<1, 2, 3>>), Entry("q4", FALSE, <<1, 2>>)}, {Entry("q4", TRUE, None)}}
MCRequests == {[kind |-> "model", quant |-> "q4", sha256 |-> None], [kind |-> "model", quant |-> None, sha256 |-> None],
               [kind |-> "model", quant |-> "q4", sha256 |-> <<1, 2>>], [kind |-> "runtime", quant |-> None, sha256 |-> <<6, 7>>]}
MCOther == <<1, 9, 9>>

(* Two cores and a card; shards of which one never fits, and a model that  *)
(* is partly offloaded.                                                    *)
MCMachine == [cpus |-> 2, memory |-> 400, gpus |-> {[backend |-> "cuda", memory |-> 200]}]
MCDefault == [cpu |-> 100, memory |-> 50, gpu |-> 50, ai |-> "unsaid"]
MCEdits == {[memory |-> 25], [cpu |-> 50, gpu |-> 0, ai |-> "yes"], [cpu |-> 0]}
MCBatches == {[weights |-> 150, device |-> "cuda", layers |-> 3]}

(* Ranges wider and narrower than the buckets, and a 2 by 2 product.       *)
MCWorks == {[kind |-> "primes", start |-> 1, end |-> 12], [kind |-> "primes", start |-> 22, end |-> 31],
            [kind |-> "collatz", start |-> 1, end |-> 12], [kind |-> "collatz", start |-> 12, end |-> 16],
            [kind |-> "matrix", start |-> 0, end |-> 2]}
MCSeedA == <<<<1, 2>>, <<0, 2>>>>
MCSeedB == <<<<2, 1>>, <<1, 1>>>>

----------------------------------------------------------------------------
(* The part that runs is the only one with a choice of instance.           *)
Init ==
  /\ part \in Parts
  /\ JobsInit /\ (part # "jobs" => world = CHOOSE w \in Worlds : TRUE)
  /\ BatchInit /\ FedInit /\ PoolInit /\ RegistryInit /\ OfferInit /\ PlanInit /\ ReadInit
  /\ ChainInit /\ DaemonInit /\ VerifyInit /\ StreamInit /\ LifeInit
  /\ ShardInit /\ (part # "shard" => model = CHOOSE m \in Models : TRUE)
  /\ InstallInit /\ (part # "install" => /\ request = CHOOSE r \in Requests : TRUE
                                         /\ listing = CHOOSE l \in Listings : TRUE)
  /\ HomeInit /\ (part # "identity" => backup = Missing)

(* A step of one part, the others left alone.                              *)
Only(p) ==
  /\ part = p /\ part' = part
  /\ IF p = "jobs" THEN TRUE ELSE UNCHANGED jobsVars
  /\ IF p = "inference" THEN TRUE ELSE UNCHANGED batchVars
  /\ IF p = "federation" THEN TRUE ELSE UNCHANGED fedVars
  /\ IF p = "pool" THEN TRUE ELSE UNCHANGED poolVars
  /\ IF p = "registry" THEN TRUE ELSE UNCHANGED registryVars
  /\ IF p = "schedule" THEN TRUE ELSE UNCHANGED offer
  /\ IF p = "plan" THEN TRUE ELSE UNCHANGED planned
  /\ IF p = "reads" THEN TRUE ELSE UNCHANGED reads
  /\ IF p = "chain" THEN TRUE ELSE UNCHANGED chainVars
  /\ IF p = "shard" THEN TRUE ELSE UNCHANGED shardVars
  /\ IF p = "install" THEN TRUE ELSE UNCHANGED installVars
  /\ IF p = "daemon" THEN TRUE ELSE UNCHANGED daemonVars
  /\ IF p = "verify" THEN TRUE ELSE UNCHANGED verifyVars
  /\ IF p = "stream" THEN TRUE ELSE UNCHANGED streamVars
  /\ IF p = "lifecycle" THEN TRUE ELSE UNCHANGED lifeVars
  /\ IF p = "identity" THEN TRUE ELSE UNCHANGED homeVars

JobsPart == Only("jobs") /\ JobsNext
BatchPart == Only("inference") /\ BatchNext
FedPart == Only("federation") /\ FedNext
PoolPart == Only("pool") /\ PoolNext
RegistryPart == Only("registry") /\ RegistryNext
OfferPart == Only("schedule") /\ OfferNext
PlanPart == Only("plan") /\ PlanNext
ReadPart == Only("reads") /\ ReadNext
ChainPart == Only("chain") /\ ChainNext
ShardPart == Only("shard") /\ ShardNext
InstallPart == Only("install") /\ InstallNext
DaemonPart == Only("daemon") /\ DaemonNext
VerifyPart == Only("verify") /\ VerifyNext
StreamPart == Only("stream") /\ StreamNext
LifePart == Only("lifecycle") /\ LifeNext
HomePart == Only("identity") /\ HomeNext

Next ==
  \/ JobsPart \/ BatchPart \/ FedPart \/ PoolPart
  \/ RegistryPart \/ OfferPart \/ PlanPart \/ ReadPart
  \/ ChainPart \/ ShardPart \/ InstallPart \/ DaemonPart
  \/ VerifyPart \/ StreamPart \/ LifePart \/ HomePart

vars == <<part, jobsVars, batchVars, fedVars, poolVars, registryVars, offer, planned, reads,
          chainVars, shardVars, installVars, daemonVars, verifyVars, streamVars, lifeVars, homeVars>>

(* The fairness each part states, for the behaviours that run it.          *)
Fairness ==
  /\ \A c \in Coordinator : WF_jobsVars(part = "jobs" /\ RecoveryRuns(c))
  /\ WF_batchVars(part = "inference" /\ ClockTicks)
  /\ WF_batchVars(part = "inference" /\ CertifyBatch)
  /\ WF_batchVars(part = "inference" /\ (HandlerFails \/ ReportWritten))
  /\ WF_batchVars(part = "inference" /\ sweep_expired_batches)
  /\ \A c, p \in Peers : WF_fedVars(part = "federation" /\ probe(c, p))
  /\ WF_installVars(part = "install" /\ InstallStep)
  /\ WF_lifeVars(part = "lifecycle" /\ DaemonSteps)
  /\ WF_lifeVars(part = "lifecycle" /\ RestartStarts)

SafeSpec == Init /\ [][Next]_vars
Spec == SafeSpec /\ Fairness

(* OwnershipSettles of the behaviours that run the federation: the others  *)
(* probe nobody (probe_all).                                               *)
FederationSettles == part = "federation" => OwnershipSettles

(* InstallCompletes of the behaviours that run an install: the others give *)
(* no command (pull_model, install_runtime).                               *)
PullCompletes == part = "install" => InstallCompletes
================================================================================
