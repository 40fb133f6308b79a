-------------------------- MODULE HeadConvergence --------------------------
(***************************************************************************)
(* How the seats of a validator set keep up with the chain they certify:   *)
(* the commits of attempt (crates/hocmesh-ledger/src/network.rs), and the  *)
(* healing of crates/hocmesh-validator/src/main.rs, commit, heal_once and  *)
(* sync.                                                                   *)
(*                                                                         *)
(* Seats hold one chain (QuorumLedger's NoFork), so a head is a height.    *)
(* Ballots are left out: a client that wants to settle gets the next       *)
(* height whenever a threshold of seats agrees on the head below it, and   *)
(* an entry that was certified there before is the one it certifies again. *)
(* Rounds follow one another, and each pushes its certificate to every     *)
(* seat; MaxMissed bounds how many of those commits go missing: a client   *)
(* that crashes loses all that are left.                                   *)
(***************************************************************************)
EXTENDS Integers, FiniteSets, FiniteSetsExt

CONSTANTS Validator,  \* the members of the validator set
          threshold,  \* signatures a certificate needs
          MaxHeight,  \* bound: entries the chain may hold
          MaxMissed   \* commits of one certificate that may go missing

ASSUME SetAssumption ==
    /\ IsFiniteSet(Validator)
    /\ threshold \in 1..Cardinality(Validator)
    /\ threshold * 3 > Cardinality(Validator) * 2

ASSUME BoundAssumption == MaxHeight \in Nat /\ MaxMissed \in Nat

VARIABLES
    head,      \* [Validator -> the height its chain ends at]
    certified, \* the highest height a certificate was formed for
    pushed,    \* the height of the certificate being pushed
    inflight,  \* the seats its commit is on its way to
    missed     \* the seats its commit will never reach

vars == <<head, certified, pushed, inflight, missed>>

Quorum == {Q \in SUBSET Validator : Cardinality(Q) >= threshold}

\* Faulty: every seat has to agree.
head_unanimous == {h \in 0..MaxHeight : \A v \in Validator : head[v] = h}

\* head_quorum: the height a threshold of seats reports, if there is one.
head_quorum == {h \in 0..MaxHeight : {v \in Validator : head[v] = h} \in Quorum}

Init ==
    /\ head = [v \in Validator |-> 0]
    /\ certified = 0
    /\ pushed = 0
    /\ inflight = {}
    /\ missed = {}

-----------------------------------------------------------------------------

\* attempt, from a head the quorum agrees on to the commits it sends.
Round(h) ==
    /\ h < MaxHeight
    /\ inflight = {}
    /\ certified' = Max({certified, h + 1})
    /\ pushed' = h + 1
    /\ inflight' = Validator
    /\ missed' = {}
    /\ UNCHANGED head

\* catch_up_to(n): some peer serves the entries up to height n.
Served(n) == \E u \in Validator : head[u] >= n

\* commit: a seat that is behind catches up to the height below first.
Commit(v) ==
    /\ v \in inflight
    /\ inflight' = inflight \ {v}
    /\ head' = IF Served(pushed - 1)
               THEN [head EXCEPT ![v] = Max({@, pushed})]
               ELSE head
    /\ UNCHANGED <<certified, pushed, missed>>

\* The request is lost on its way, or was never sent.
Miss(v) ==
    /\ v \in inflight
    /\ Cardinality(missed) < MaxMissed
    /\ inflight' = inflight \ {v}
    /\ missed' = missed \cup {v}
    /\ UNCHANGED <<head, certified, pushed>>

\* Faulty: one height behind counts as level.
HealLate(v) ==
    /\ \E h \in head_quorum :
           /\ head[v] + 1 < h
           /\ head' = [head EXCEPT ![v] = h]
    /\ UNCHANGED <<certified, pushed, inflight, missed>>

\* heal_once: follow the head the quorum agrees on.
Heal(v) ==
    /\ \E h \in head_quorum :
           /\ head[v] < h
           /\ head' = [head EXCEPT ![v] = h]
    /\ UNCHANGED <<certified, pushed, inflight, missed>>

\* sync, run by an operator: the same, but it applies all the peer serves, and
\* is done once it is level.
Sync(v, u, n) ==
    /\ \E h \in head_quorum : head[v] < h /\ h <= n
    /\ n <= head[u]
    /\ head' = [head EXCEPT ![v] = n]
    /\ UNCHANGED <<certified, pushed, inflight, missed>>

-----------------------------------------------------------------------------

NextRound == \E h \in head_quorum : Round(h)

Next ==
    \/ NextRound
    \/ \E v \in Validator : Commit(v) \/ Miss(v) \/ Heal(v)
    \/ \E v, u \in Validator, n \in 1..MaxHeight : Sync(v, u, n)

\* There is always another transaction to settle; every request is answered
\* or times out (VALIDATOR_REQUEST_TIMEOUT); and every seat heals once a
\* second (heal_forever).  Nobody need run sync.
Spec ==
    /\ Init /\ [][Next]_vars
    /\ WF_vars(NextRound)
    /\ \A v \in Validator : WF_vars(Commit(v) \/ Miss(v)) /\ WF_vars(Heal(v))

-----------------------------------------------------------------------------
\* Properties.

\* No seat is left behind: every entry that was certified is in the end on
\* every seat, also on those whose commits went missing round after round
\* (catch_up_to and heal_forever).
EverySeatFollows ==
    \A h \in 1..MaxHeight, v \in Validator : certified >= h ~> head[v] >= h

\* No height stays empty: "a round that dies halfway is then just a round
\* somebody else completes, rather than a height nobody can ever fill".
NoHeightStaysEmpty ==
    \A h \in 1..MaxHeight : certified = h - 1 ~> certified >= h

=============================================================================
