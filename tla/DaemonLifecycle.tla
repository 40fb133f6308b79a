--------------------------- MODULE DaemonLifecycle ----------------------------
(***************************************************************************)
(* The desktop app and the node daemons of one home. The daemon is its own *)
(* process; the app finds it by the endpoint file the daemon writes once   *)
(* its control surface is bound and deletes on its way out, and it holds   *)
(* the handle of a child it spawned itself. A daemon may also be started   *)
(* from a terminal, and any daemon may be killed at any moment.            *)
(*                                                                         *)
(* The app's operations hold one lock, so they do not overlap; the         *)
(* daemons' steps fall between and inside them.                            *)
(***************************************************************************)
EXTENDS Naturals, FiniteSets

CONSTANTS
  Daemon,     \* processes that may ever be spawned, 1..n
  NoDaemon,
  MaxOps      \* what the operator does, and what befalls a daemon

VARIABLES
  proc,       \* daemon -> "none", "starting", "serving", "leaving", "dead"
  endpoint,   \* the daemon control.json names
  child,      \* the process the supervisor holds a handle of
  app,        \* "idle", or "pausing" inside a restart
  asked,      \* what the operator last asked the app for: "up" or "down"
  mishap,     \* something befell the daemon since that was asked
  ops

lifeVars == <<proc, endpoint, child, app, asked, mishap, ops>>

Alive(d) == d # NoDaemon /\ proc[d] \in {"starting", "serving", "leaving"}
Unused == {d \in Daemon : proc[d] = "none"}
Counted == ops < MaxOps /\ ops' = ops + 1

----------------------------------------------------------------------------
(* The supervisor.                                                         *)
supervised_child_alive == Alive(child)
is_running == endpoint # NoDaemon   \* state: the file is all there is to go by

(* start: attach to whatever the file names, else spawn.                   *)
start ==
  \/ /\ is_running
     /\ child' = IF supervised_child_alive THEN child ELSE NoDaemon
     /\ UNCHANGED proc
  \/ /\ ~is_running
     /\ \E d \in Unused :
          /\ \A e \in Unused : d <= e
          /\ proc' = [proc EXCEPT ![d] = "starting"]
          /\ child' = d

\* Faulty: a file nobody answers behind is left.
request_shutdown_keeps ==
  IF endpoint # NoDaemon /\ proc[endpoint] = "serving"
  THEN proc' = [proc EXCEPT ![endpoint] = "leaving"] /\ UNCHANGED endpoint
  ELSE UNCHANGED <<proc, endpoint>>

(* request_shutdown: a serving daemon takes the request; a file nobody     *)
(* answers behind is cleared.                                              *)
request_shutdown ==
  IF endpoint # NoDaemon /\ proc[endpoint] = "serving"
  THEN proc' = [proc EXCEPT ![endpoint] = "leaving"] /\ UNCHANGED endpoint
  ELSE endpoint' = NoDaemon /\ UNCHANGED proc

stop == request_shutdown /\ child' = NoDaemon

should_stop_on_quit == is_running /\ supervised_child_alive

----------------------------------------------------------------------------
(* The app's commands.                                                     *)
start_node ==
  /\ app = "idle" /\ Counted
  /\ asked' = "up"
  /\ mishap' = (is_running /\ proc[endpoint] # "serving")
  /\ start
  /\ UNCHANGED <<endpoint, app>>

stop_node ==
  /\ app = "idle" /\ Counted
  /\ asked' = "down"
  /\ stop
  /\ UNCHANGED <<app, mishap>>

(* A restart stops, pauses 400 ms and starts; how far the daemon got on    *)
(* its way out by then is up to the machine.                               *)
restart_node ==
  /\ app = "idle" /\ Counted
  /\ app' = "pausing" /\ mishap' = FALSE
  /\ stop
  /\ UNCHANGED asked
RestartStarts ==
  /\ app = "pausing"
  /\ app' = "idle" /\ asked' = "up"
  /\ mishap' = (mishap \/ (is_running /\ proc[endpoint] = "leaving"))
  /\ start
  /\ UNCHANGED <<endpoint, ops>>

(* Quit takes down only a node the app started; the next launch has no     *)
(* handle.                                                                 *)
Quit ==
  /\ app = "idle" /\ Counted
  /\ asked' = "down"
  /\ child' = NoDaemon
  /\ IF should_stop_on_quit THEN request_shutdown ELSE UNCHANGED <<proc, endpoint>>
  /\ UNCHANGED <<app, mishap>>

(* `hocmesh daemon`, and `hocmesh stop`, from a terminal.                  *)
StartedElsewhere ==
  /\ Counted
  /\ \E d \in Unused :
       /\ \A e \in Unused : d <= e
       /\ proc' = [proc EXCEPT ![d] = "starting"]
  /\ UNCHANGED <<endpoint, child, app, asked, mishap>>

StoppedElsewhere ==
  /\ Counted
  /\ request_shutdown
  /\ mishap' = TRUE
  /\ UNCHANGED <<child, app, asked>>

----------------------------------------------------------------------------
(* A daemon registers, then binds its control surface and publishes it.    *)
bind(d) ==
  /\ proc[d] = "starting"
  /\ proc' = [proc EXCEPT ![d] = "serving"]
  /\ endpoint' = d
  /\ UNCHANGED <<child, app, asked, mishap, ops>>

(* It aborts the control server, and deletes whatever file is there.       *)
retire(d) ==
  /\ proc[d] = "leaving"
  /\ proc' = [proc EXCEPT ![d] = "dead"]
  /\ endpoint' = NoDaemon
  /\ mishap' = (mishap \/ endpoint \notin {d, NoDaemon})
  /\ UNCHANGED <<child, app, asked, ops>>

(* Registration fails, or the process is killed: the file stays.           *)
Dies(d) ==
  /\ Counted
  /\ Alive(d)
  /\ proc' = [proc EXCEPT ![d] = "dead"]
  /\ mishap' = TRUE
  /\ UNCHANGED <<endpoint, child, app, asked>>

----------------------------------------------------------------------------
LifeInit ==
  /\ proc = [d \in Daemon |-> "none"]
  /\ endpoint = NoDaemon /\ child = NoDaemon
  /\ app = "idle" /\ asked = "down"
  /\ mishap = FALSE /\ ops = 0

DaemonSteps == \E d \in Daemon : bind(d) \/ retire(d)
LifeNext ==
  \/ start_node \/ stop_node \/ restart_node \/ RestartStarts \/ Quit
  \/ StartedElsewhere \/ StoppedElsewhere
  \/ DaemonSteps
  \/ \E d \in Daemon : Dies(d)

(* A daemon that was spawned gets to bind, one that was asked to leave     *)
(* leaves, and a pause of 400 ms ends.                                     *)
LifeFairness == WF_lifeVars(DaemonSteps) /\ WF_lifeVars(RestartStarts)
LifeSpec == LifeInit /\ [][LifeNext]_lifeVars /\ LifeFairness

----------------------------------------------------------------------------
Up == endpoint # NoDaemon /\ proc[endpoint] = "serving"

(* When the operator last asked for the node to be up, it comes up and can *)
(* be reached through the file, whatever stale file, late start or crash   *)
(* came before, unless a daemon is killed or stopped since, was still      *)
(* leaving when the start looked, or deleted the file of another on its    *)
(* way out. A start, unlike a restart, also takes the file of a killed     *)
(* daemon for a running one (Supervisor::start, stop, restart_node,        *)
(* request_shutdown).                                                      *)
NodeComesUp == <>[](asked = "up" => Up \/ mishap)

(* A daemon that is already running is attached to, never duplicated.      *)
OneDaemon == Cardinality({d \in Daemon : Alive(d)}) <= 1
================================================================================
