------------------------------ MODULE NodeDaemon ------------------------------
(***************************************************************************)
(* One machine that lends part of itself: the limits its operator stored,  *)
(* what it advertises, the pool of counted permits its work is admitted    *)
(* by, the contribution workers and the AI worker that claim from it, and  *)
(* the control surface that changes the limits while they run.             *)
(*                                                                         *)
(* The pool's mutex makes a claim's test and its take, or its test and its *)
(* wait, one step. A change of limits is three: read, save, advertise.     *)
(***************************************************************************)
EXTENDS Integers, FiniteSets, FiniteSetsExt, Functions

CONSTANTS
  Machine,     \* [cpus, memory, gpus]: the hardware as detected
  Runtime,     \* whether an inference runtime is installed
  Worker,      \* 1..n, the contribution workers that may be spawned
  AI,          \* the AI worker
  WorkSizes,   \* declared_memory_bytes of the shards on offer
  Batches,     \* [weights, device, layers]: models of the batches on offer
  gpu_layers,  \* --gpu-layers
  Edits,       \* LimitsRequests: functions from some fields to values
  Handler,     \* requests to /limits that may be in flight
  DefaultLimits

VARIABLES
  stored,      \* limits.json
  advertised,  \* the capabilities behind the RwLock
  lent, held,  \* the pool: its budget, and what its leases hold
  tasks,       \* worker -> [at, claim, threads]
  edits,       \* handler -> [at, limits]
  up

daemonVars == <<stored, advertised, lent, held, tasks, edits, up>>

Threads == Worker \cup {AI}
Axes == {"cpus", "memory", "device"}
Nothing == [cpus |-> 0, memory |-> 0, device |-> 0]

----------------------------------------------------------------------------
(* Limits and what follows from them.                                      *)
valid(l) == l.cpu \in 1..100 /\ l.gpu \in 0..100 /\ l.memory \in 1..100

effective_workers(l) ==
  LET share == (Machine.cpus * l.cpu) \div 100
  IN IF share = 0 THEN 1 ELSE share

shared_memory_bytes(l) == (Machine.memory \div 100) * l.memory

apply_limits(l) ==
  [cpus |-> effective_workers(l), memory |-> shared_memory_bytes(l), gpu_percent |-> l.gpu,
   gpus |-> IF l.gpu > 0 THEN Machine.gpus ELSE {}]

(* An unstated position on AI is read from whether a GPU is lent; a        *)
(* machine that agrees and lends none advertises its CPU slice.            *)
apply_ai_readiness(caps, l) ==
  LET accelerator_shared == caps.gpus # {}
      ready == Runtime /\ (IF l.ai = "unsaid" THEN accelerator_shared ELSE l.ai = "yes")
  IN [cpus |-> caps.cpus, memory |-> caps.memory, gpu_percent |-> caps.gpu_percent,
      gpus |-> IF ready /\ ~accelerator_shared
               THEN {[backend |-> "cpu", memory |-> caps.memory]} ELSE caps.gpus,
      ready |-> ready, load |-> 0, placed |-> FALSE]

advertised_capabilities(l) == apply_ai_readiness(apply_limits(l), l)

from_capabilities(caps) ==
  [cpus |-> caps.cpus, memory |-> caps.memory,
   device |-> (MapThenSumSet(LAMBDA g : g.memory, {g \in caps.gpus : g.backend # "cpu"})
               * caps.gpu_percent) \div 100]

apply_to(edit, l) == [f \in DOMAIN l |-> IF f \in DOMAIN edit THEN edit[f] ELSE l[f]]

----------------------------------------------------------------------------
(* The pool.                                                               *)
impossible(claim) == \E x \in Axes : claim[x] > lent[x]
fits(claim) == \A x \in Axes : held[x] + claim[x] <= lent[x]
Plus(a, b) == [x \in Axes |-> a[x] + b[x]]
Minus(a, b) == [x \in Axes |-> IF a[x] < b[x] THEN 0 ELSE a[x] - b[x]]

usage_cpus == held.cpus
load_permille ==
  LET ratio(used, total) == IF total = 0 THEN 1000
                            ELSE ((IF used < total THEN used ELSE total) * 1000) \div total
  IN Max({ratio(held.cpus, lent.cpus), ratio(held.memory, lent.memory),
          IF lent.device = 0 THEN 0 ELSE ratio(held.device, lent.device)})

(* The lease drops: its permits come back, and whoever sleeps looks again. *)
Sleepers == {t \in Threads : tasks[t].at = "asleep"}
Dropped(t, woken) ==
  /\ held' = Minus(held, tasks[t].claim)
  /\ tasks' = [u \in Threads |->
                 CASE u = t -> [tasks[u] EXCEPT !.at = "reporting", !.threads = 0]
                   [] u \in woken -> [tasks[u] EXCEPT !.at = "claiming"]
                   [] OTHER -> tasks[u]]
\* Faulty: only the first waiter is looked at.
release_wakes_one(t) ==
  \E w \in SUBSET Sleepers :
    /\ Cardinality(w) = (IF Sleepers = {} THEN 0 ELSE 1)
    /\ Dropped(t, w)
release(t) == Dropped(t, Sleepers)

----------------------------------------------------------------------------
(* The worker loops.                                                       *)
offloaded_bytes(b) ==
  LET layers_on == IF b.device = "cpu" THEN 0 ELSE gpu_layers   \* gpu_layers_for
  IN CASE layers_on = 0 \/ b.layers = 0 -> 0
       [] layers_on > 0 /\ b.layers > 0 /\ layers_on >= b.layers -> b.weights
       [] OTHER -> (b.weights * layers_on) \div b.layers

Claims(t) ==
  IF t = AI THEN {[cpus |-> 1, memory |-> b.weights, device |-> offloaded_bytes(b)] : b \in Batches}
  ELSE {[cpus |-> 1, memory |-> m, device |-> 0] : m \in WorkSizes}

(* An assignment that can never fit is refused at once, and the worker     *)
(* asks again.                                                             *)
Poll(t) ==
  /\ up /\ tasks[t].at = "polling"
  /\ \E c \in Claims(t) :
       /\ ~impossible(c)
       /\ tasks' = [tasks EXCEPT ![t].at = "claiming", ![t].claim = c]
  /\ UNCHANGED <<stored, advertised, lent, held, edits, up>>

claim(t) ==
  /\ up /\ tasks[t].at = "claiming"
  /\ \/ /\ fits(tasks[t].claim)
        /\ held' = Plus(held, tasks[t].claim)
        /\ tasks' = [tasks EXCEPT ![t].at = IF t = AI THEN "admitted" ELSE "running",
                                  ![t].threads = IF t = AI THEN 0 ELSE 1]
     \/ /\ ~fits(tasks[t].claim)
        /\ tasks' = [tasks EXCEPT ![t].at = "asleep"]
        /\ UNCHANGED held
  /\ UNCHANGED <<stored, advertised, lent, edits, up>>

(* llama.cpp gets the cores nobody holds, counted once, after the claim.   *)
inference_threads(l, used) ==
  LET others == IF used = 0 THEN 0 ELSE used - 1
  IN IF l - others < 1 THEN 1 ELSE l - others
SizeThreads ==
  /\ up /\ tasks[AI].at = "admitted"
  /\ tasks' = [tasks EXCEPT ![AI].at = "running",
                            ![AI].threads = inference_threads(lent.cpus, usage_cpus)]
  /\ UNCHANGED <<stored, advertised, lent, held, edits, up>>

Finish(t) ==
  /\ up /\ tasks[t].at = "running"
  /\ release(t)
  /\ UNCHANGED <<stored, advertised, lent, edits, up>>

Report(t) ==
  /\ up /\ tasks[t].at = "reporting"
  /\ tasks' = [tasks EXCEPT ![t].at = "polling", ![t].claim = Nothing]
  /\ UNCHANGED <<stored, advertised, lent, held, edits, up>>

----------------------------------------------------------------------------
(* The heartbeat and the proximity round share the capabilities with the   *)
(* control surface.                                                        *)
heartbeat_tick ==
  /\ up
  /\ advertised' = [advertised EXCEPT !.load = load_permille]
  /\ UNCHANGED <<stored, lent, held, tasks, edits, up>>

proximity_round ==
  /\ up
  /\ advertised' = [advertised EXCEPT !.placed = TRUE]
  /\ UNCHANGED <<stored, lent, held, tasks, edits, up>>

NoEdit == [at |-> "idle", limits |-> DefaultLimits]
LoadLimits(h) ==
  /\ up /\ edits[h].at = "idle"
  /\ \E e \in Edits :
       /\ valid(apply_to(e, stored))
       /\ edits' = [edits EXCEPT ![h] = [at |-> "loaded", limits |-> apply_to(e, stored)]]
  /\ UNCHANGED <<stored, advertised, lent, held, tasks, up>>
SaveLimits(h) ==
  /\ up /\ edits[h].at = "loaded"
  /\ stored' = edits[h].limits
  /\ edits' = [edits EXCEPT ![h].at = "saved"]
  /\ UNCHANGED <<advertised, lent, held, tasks, up>>
AdvertiseLimits(h) ==
  /\ up /\ edits[h].at = "saved"
  /\ advertised' = advertised_capabilities(edits[h].limits)
  /\ edits' = [edits EXCEPT ![h] = NoEdit]
  /\ UNCHANGED <<stored, lent, held, tasks, up>>

(* `hocmesh limits` writes the file and tells no daemon.                   *)
LimitsCommand ==
  /\ \E e \in Edits : valid(apply_to(e, stored)) /\ stored' = apply_to(e, stored)
  /\ UNCHANGED <<advertised, lent, held, tasks, edits, up>>

----------------------------------------------------------------------------
(* The process: it registers, builds its pool once from what it            *)
(* advertises, and spawns its workers.                                     *)
Off == [at |-> "off", claim |-> Nothing, threads |-> 0]
run_until ==
  /\ ~up
  /\ up' = TRUE
  /\ advertised' = advertised_capabilities(stored)
  /\ lent' = from_capabilities(advertised')
  /\ held' = Nothing
  /\ tasks' = [t \in Threads |->
                 IF (t = AI /\ Runtime) \/ t \in 1..effective_workers(stored)
                 THEN [Off EXCEPT !.at = "polling"] ELSE Off]
  /\ UNCHANGED <<stored, edits>>

(* What the process knew goes with it.                                     *)
DaemonStops ==
  /\ up
  /\ up' = FALSE
  /\ tasks' = [t \in Threads |-> Off]
  /\ advertised' = advertised_capabilities(DefaultLimits)
  /\ lent' = from_capabilities(advertised')
  /\ held' = Nothing
  /\ edits' = [h \in Handler |-> NoEdit]
  /\ UNCHANGED stored

DaemonInit ==
  /\ stored = DefaultLimits
  /\ advertised = advertised_capabilities(DefaultLimits)
  /\ lent = from_capabilities(advertised)
  /\ held = Nothing
  /\ tasks = [t \in Threads |-> Off]
  /\ edits = [h \in Handler |-> NoEdit]
  /\ up = FALSE

DaemonNext ==
  \/ \E t \in Threads : Poll(t) \/ claim(t) \/ Finish(t) \/ Report(t)
  \/ SizeThreads
  \/ heartbeat_tick \/ proximity_round
  \/ \E h \in Handler : LoadLimits(h) \/ SaveLimits(h) \/ AdvertiseLimits(h)
  \/ LimitsCommand
  \/ run_until \/ DaemonStops

DaemonSpec == DaemonInit /\ [][DaemonNext]_daemonVars

----------------------------------------------------------------------------
Leased == {t \in Threads : tasks[t].at \in {"admitted", "running"}}

(* Nothing is in flight that has not been counted, what is in flight never *)
(* exceeds what was lent, and no worker sleeps on a claim there is room    *)
(* for, whatever order leases are dropped and claims woken in (resources.rs*)
(* claim, take, release, and Lease::drop).                                 *)
PermitsAddUp ==
  /\ held = [x \in Axes |-> MapThenSumSet(LAMBDA t : tasks[t].claim[x], Leased)]
  /\ \A x \in Axes : held[x] <= lent[x]
  /\ \A t \in Sleepers : ~fits(tasks[t].claim)

(* The budget the pool enforces and the budget advertised to the           *)
(* coordinator are the same numbers, once no change of limits is under way *)
(* (the comment over the pool in run_until).                               *)
LimitsInForce ==
  up /\ (\A h \in Handler : edits[h].at = "idle") => lent = from_capabilities(advertised)

(* The cores contribution workers are on and the threads llama.cpp was     *)
(* given add up to what was lent (the comment in                           *)
(* execute_inference_assignment).                                          *)
ThreadsAddUp ==
  up => MapThenSumSet(LAMBDA t : tasks[t].threads, Threads) <= lent.cpus
================================================================================
