----------------------------- MODULE NodeRegistry -----------------------------
(***************************************************************************)
(* The coordinator's table of nodes, and the check every signed request    *)
(* passes: its timestamp is within the clock skew, its node is registered  *)
(* and its nonce was not used before. The network may deliver a request    *)
(* late and more than once.                                                *)
(***************************************************************************)
EXTENDS Integers, FiniteSets

CONSTANTS
  Registrant,                 \* the nodes
  Nonces,
  AUTH_MAX_CLOCK_SKEW_SECS,
  MaxClock,                   \* the last second
  MaxDrift                    \* how far a node's clock is off

ASSUME RegistryAssumption == AUTH_MAX_CLOCK_SKEW_SECS \in Nat /\ MaxDrift \in Nat

VARIABLES
  second,     \* now_unix() of the coordinator
  signed,     \* requests that were signed: node, nonce, action, timestamp
  nodes,      \* nodes[n]: last_seen, or -1 when n has no row
  nonces,     \* the rows of auth_nonces: node, nonce, expires_at
  honoured    \* history: how often a request was let through

registryVars == <<second, signed, nodes, nonces, honoured>>

----------------------------------------------------------------------------
Sign(n, nonce, action) ==
  \E drift \in -MaxDrift..MaxDrift :
    LET request == [node |-> n, nonce |-> nonce, action |-> action, timestamp |-> second + drift]
    IN  /\ \A r \in signed : r.nonce # nonce
        /\ signed' = signed \cup {request}
        /\ honoured' = [r \in signed' |-> IF r \in signed THEN honoured[r] ELSE 0]
        /\ UNCHANGED <<second, nodes, nonces>>

verify_auth(r) ==
  /\ second - r.timestamp <= AUTH_MAX_CLOCK_SKEW_SECS
  /\ r.timestamp - second <= AUTH_MAX_CLOCK_SKEW_SECS

(* Rows whose time is over are deleted before the new one is tried.        *)
Kept == {row \in nonces : row.expires_at >= second}
\* Faulty: a nonce is kept for one skew only.
nonce_expiry_short == second + AUTH_MAX_CLOCK_SKEW_SECS
nonce_expiry == second + AUTH_MAX_CLOCK_SKEW_SECS * 2

consume_nonce(r) ==
  IF \E row \in Kept : row.node = r.node /\ row.nonce = r.nonce
  THEN nonces' = Kept /\ UNCHANGED <<nodes, honoured>>
  ELSE /\ nonces' = Kept \cup {[node |-> r.node, nonce |-> r.nonce, expires_at |-> nonce_expiry]}
       /\ nodes' = [nodes EXCEPT ![r.node] = second]
       /\ honoured' = [honoured EXCEPT ![r] = @ + 1]

(* register brings its own key, heartbeat and the rest need a row.         *)
register(r) ==
  /\ r.action = "register" /\ verify_auth(r)
  /\ consume_nonce(r)
  /\ UNCHANGED <<second, signed>>

heartbeat(r) ==
  /\ r.action = "heartbeat" /\ nodes[r.node] # -1 /\ verify_auth(r)
  /\ consume_nonce(r)
  /\ UNCHANGED <<second, signed>>

SecondPasses ==
  /\ second < MaxClock
  /\ second' = second + 1
  /\ UNCHANGED <<signed, nodes, nonces, honoured>>

RegistryInit ==
  /\ second = 0
  /\ signed = {} /\ nonces = {}
  /\ nodes = [n \in Registrant |-> -1]
  /\ honoured = <<>>

RegistryNext ==
  \/ SecondPasses
  \/ \E n \in Registrant, nonce \in Nonces, action \in {"register", "heartbeat"} : Sign(n, nonce, action)
  \/ \E r \in signed : register(r) \/ heartbeat(r)

RegistrySpec == RegistryInit /\ [][RegistryNext]_registryVars

----------------------------------------------------------------------------
(* A signed request is let through at most once, however often and however *)
(* late it is delivered: its nonce is remembered for as long as its        *)
(* timestamp passes, with the clock of its node ahead or behind.           *)
HonouredOnce == \A r \in signed : honoured[r] <= 1
================================================================================
