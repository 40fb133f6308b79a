---------------------------- MODULE PipelineChain ----------------------------
(***************************************************************************)
(* One model run across a chain of stages. Every stage holds a range of    *)
(* blocks and an attention cache per session; a token goes down the chain  *)
(* hop by hop and its logits come back. Hops time out, stages restart, and *)
(* whoever asks for a reset reaches the stages one after the other.        *)
(*                                                                         *)
(* A tensor is abstracted to what it was computed from: an activation that *)
(* leaves a block is the sequence of the inputs that block attended over.  *)
(***************************************************************************)
EXTENDS Naturals, Sequences, SequencesExt, FiniteSets

CONSTANTS
  Run,             \* calls of generate_over_chain
  Session,         \* Session[r]: the id fresh_session drew for run r
  Prompt,          \* Prompt[r]: its tokens
  StageCount,
  MAX_SESSIONS,
  max_new_tokens,
  MaxChainFaults,  \* timeouts, restarts and lost resets
  MaxWipes         \* resets that name no session

VARIABLES
  sessions,   \* sessions[s]: the id of every session of stage s and its cache
  caches,     \* caches[s]: every cache stage s has made, reachable or not
  hops,       \* requests on their way: [run, stage, position, input, cache]
  resets,     \* resets on their way: [session, stage]
  runs,       \* runs[r]: [at, tokens, trace]
  chain_faults, wipes

chainVars == <<sessions, caches, hops, resets, runs, chain_faults, wipes>>

Stages == 1..StageCount
AllSessions == "every session"
Nowhere == [run \in {} |-> 0]   \* a map with nothing in it

----------------------------------------------------------------------------
(* The engine: what a stage computes.                                      *)

\* Faulty: the cache takes any position.
InOrder_any(cache, position) == TRUE

(* run_block takes a position only when the cache ends right before it,    *)
(* appends to the cache and attends over all of it; forward runs it for    *)
(* every block of the stage, whose caches grow together.                   *)
InOrder(cache, position) == Len(cache) = position
run_block(cache, input) == Append(cache, input)

(* What leaves stage s when the whole sequence goes through one process.   *)
RECURSIVE Local(_, _)
Local(tokens, s) ==
  IF s = 0 THEN Last(tokens)
  ELSE [i \in 1..Len(tokens) |-> Local(SubSeq(tokens, 1, i), s - 1)]

(* The logits are a function of the activation, and argmax of the logits:  *)
(* here the other one of two tokens than the one read last.                *)
RECURSIVE TokenOf(_, _)
TokenOf(activation, s) == IF s = 0 THEN activation ELSE TokenOf(Last(activation), s - 1)
argmax(logits) == 3 - TokenOf(logits, StageCount)

----------------------------------------------------------------------------
(* The caller.                                                             *)

(* The token at the cursor goes to the head, at its own position.          *)
AskHead(r, tokens, position) ==
  [run |-> r, stage |-> 1, position |-> position, input |-> tokens[position + 1], cache |-> 0]

generate_over_chain(r) ==
  /\ runs[r].at = "idle"
  /\ runs' = [runs EXCEPT ![r].at = "asking"]
  /\ hops' = hops \cup {AskHead(r, Prompt[r], 0)}
  /\ UNCHANGED <<sessions, caches, resets, chain_faults, wipes>>

(* Whatever the outcome, the session is released at the head; nobody waits *)
(* for that to succeed.                                                    *)
Release(r) == {[session |-> Session[r], stage |-> 1]}
Failed(failing) == [r \in Run |-> IF r \in failing /\ runs[r].at = "asking" THEN [runs[r] EXCEPT !.at = "failed"] ELSE runs[r]]
ReleaseOf(failing) == UNION {Release(r) : r \in {q \in failing : runs[q].at = "asking"}}

(* The logits are back: record them, and go on to the next token of the    *)
(* prompt or to the one just chosen, until there are enough.               *)
run_session(r, answer) ==
  LET trace == Append(runs[r].trace, answer)
      more == Len(trace) < Len(runs[r].tokens)
      done == ~more /\ Len(runs[r].tokens) - Len(Prompt[r]) >= max_new_tokens
      tokens == IF more \/ done THEN runs[r].tokens ELSE Append(runs[r].tokens, argmax(answer))
  IN [at |-> IF done THEN "ok" ELSE "asking", tokens |-> tokens, trace |-> trace]

----------------------------------------------------------------------------
(* The stages.                                                             *)

(* The session of the request, found or made under the lock of the map;    *)
(* a full stage refuses, which fails the run all the way back.             *)
session(h) ==
  LET s == h.stage
      id == Session[h.run]
      held == DOMAIN sessions[s]
  IN /\ h \in hops /\ h.cache = 0
     /\ \/ /\ id \in held
           /\ hops' = (hops \ {h}) \cup {[h EXCEPT !.cache = sessions[s][id]]}
           /\ UNCHANGED <<sessions, caches, runs, resets>>
        \/ /\ id \notin held /\ Cardinality(held) >= MAX_SESSIONS
           /\ hops' = hops \ {h}
           /\ runs' = Failed({h.run})
           /\ resets' = resets \cup ReleaseOf({h.run})
           /\ UNCHANGED <<sessions, caches>>
        \/ /\ id \notin held /\ Cardinality(held) < MAX_SESSIONS
           /\ caches' = [caches EXCEPT ![s] = Append(@, <<>>)]
           /\ sessions' = [sessions EXCEPT ![s] =
                [i \in held \cup {id} |-> IF i = id THEN Len(caches[s]) + 1 ELSE sessions[s][i]]]
           /\ hops' = (hops \ {h}) \cup {[h EXCEPT !.cache = Len(caches[s]) + 1]}
           /\ UNCHANGED <<runs, resets>>
  /\ UNCHANGED <<chain_faults, wipes>>

(* Under the lock of the session: run the blocks, then hand the activation *)
(* to the next stage or answer with the logits. An answer nobody waits for *)
(* any more is dropped.                                                    *)
advance(h) ==
  LET s == h.stage
      cache == caches[s][h.cache]
      out == run_block(cache, h.input)
      r == h.run
      waits == runs[r].at = "asking" /\ Len(runs[r].trace) = h.position
  IN /\ h \in hops /\ h.cache # 0
     /\ \/ /\ ~InOrder(cache, h.position)
           /\ hops' = hops \ {h}
           /\ runs' = Failed({r})
           /\ resets' = resets \cup ReleaseOf({r})
           /\ UNCHANGED caches
        \/ /\ InOrder(cache, h.position)
           /\ caches' = [caches EXCEPT ![s][h.cache] = out]
           /\ \/ /\ s < StageCount
                 /\ hops' = (hops \ {h}) \cup {[h EXCEPT !.stage = s + 1, !.input = out, !.cache = 0]}
                 /\ UNCHANGED <<runs, resets>>
              \/ /\ s = StageCount /\ ~waits
                 /\ hops' = hops \ {h}
                 /\ UNCHANGED <<runs, resets>>
              \/ /\ s = StageCount /\ waits
                 /\ LET then == run_session(r, out)
                    IN /\ runs' = [runs EXCEPT ![r] = then]
                       /\ hops' = (hops \ {h}) \cup
                            (IF then.at = "asking" THEN {AskHead(r, then.tokens, h.position + 1)} ELSE {})
                       /\ resets' = IF then.at = "ok" THEN resets \cup Release(r) ELSE resets
     /\ UNCHANGED <<sessions, chain_faults, wipes>>

(* A named session is forgotten on its own, an unnamed reset forgets all;  *)
(* either goes on to the next stage.                                       *)
reset(m) ==
  /\ m \in resets
  /\ sessions' = [sessions EXCEPT ![m.stage] =
       [i \in (IF m.session = AllSessions THEN {} ELSE DOMAIN @ \ {m.session}) |-> @[i]]]
  /\ resets' = (resets \ {m}) \cup
       (IF m.stage < StageCount THEN {[m EXCEPT !.stage = m.stage + 1]} ELSE {})
  /\ UNCHANGED <<caches, hops, runs, chain_faults, wipes>>

----------------------------------------------------------------------------
(* Faults and operators.                                                   *)

Fault == chain_faults < MaxChainFaults /\ chain_faults' = chain_faults + 1

(* HOP_TIMEOUT is the same for the caller and for every hop, so the caller *)
(* may give up, and release, while a later hop is still on its way.        *)
HopTimesOut(r) ==
  /\ runs[r].at = "asking" /\ Fault
  /\ runs' = Failed({r})
  /\ resets' = resets \cup ReleaseOf({r})
  /\ UNCHANGED <<sessions, caches, hops, wipes>>

(* A restarted stage has no sessions; what it was serving or waiting for   *)
(* is an error to the callers, and requests further down run on.           *)
StageRestarts(s) ==
  LET failing == {h.run : h \in {g \in hops : g.stage >= s}}
  IN /\ Fault
     /\ sessions' = [sessions EXCEPT ![s] = Nowhere]
     /\ hops' = {h \in hops : h.stage # s}
     /\ runs' = Failed(failing)
     /\ resets' = {m \in resets : m.stage # s} \cup ReleaseOf(failing)
     /\ UNCHANGED <<caches, wipes>>

ResetIsLost(m) ==
  /\ m \in resets /\ Fault
  /\ resets' = resets \ {m}
  /\ UNCHANGED <<sessions, caches, hops, runs, wipes>>

(* Whoever asked is gone, and the stage drops the request unserved.        *)
Abandoned(h) ==
  /\ h \in hops /\ runs[h.run].at # "asking"
  /\ hops' = hops \ {h}
  /\ UNCHANGED <<sessions, caches, resets, runs, chain_faults, wipes>>

(* generate_many_over_chain runs several prompts at once and drops the     *)
(* rest with the first failure: those release nothing.                     *)
generate_many_over_chain(r) ==
  /\ runs[r].at = "asking"
  /\ \E q \in Run : runs[q].at = "failed"
  /\ runs' = [runs EXCEPT ![r].at = "dropped"]
  /\ UNCHANGED <<sessions, caches, hops, resets, chain_faults, wipes>>

OperatorWipes ==
  /\ wipes < MaxWipes
  /\ wipes' = wipes + 1
  /\ resets' = resets \cup {[session |-> AllSessions, stage |-> 1]}
  /\ UNCHANGED <<sessions, caches, hops, runs, chain_faults>>

ChainInit ==
  /\ sessions = [s \in Stages |-> Nowhere]
  /\ caches = [s \in Stages |-> <<>>]
  /\ hops = {} /\ resets = {}
  /\ runs = [r \in Run |-> [at |-> "idle", tokens |-> Prompt[r], trace |-> <<>>]]
  /\ chain_faults = 0 /\ wipes = 0

ChainNext ==
  \/ \E r \in Run : generate_over_chain(r) \/ generate_many_over_chain(r) \/ HopTimesOut(r)
  \/ \E h \in hops : session(h) \/ advance(h) \/ Abandoned(h)
  \/ \E m \in resets : reset(m) \/ ResetIsLost(m)
  \/ \E s \in Stages : StageRestarts(s)
  \/ OperatorWipes

ChainSpec == ChainInit /\ [][ChainNext]_chainVars

----------------------------------------------------------------------------
(* Every logit a run records is the one the whole model computes in one    *)
(* process over exactly that run's tokens, whichever sessions were wiped,  *)
(* stages restarted or late requests let into a cache meanwhile            *)
(* (run_session against generate_locally).                                 *)
OkIsWhole ==
  \A r \in Run : \A i \in 1..Len(runs[r].trace) :
    runs[r].trace[i] = Local(SubSeq(runs[r].tokens, 1, i), StageCount)
================================================================================
