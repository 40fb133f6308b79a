-------------------------- MODULE NodeRegistryProofs --------------------------
(***************************************************************************)
(* A signed request is let through once, for every clock skew, drift and   *)
(* number of nodes.                                                        *)
(***************************************************************************)
EXTENDS NodeRegistry, TLAPS

Skew == AUTH_MAX_CLOCK_SKEW_SECS

(* What was let through is remembered until it would no longer pass.       *)
Remembered(r) ==
  \/ second > r.timestamp + Skew
  \/ \E row \in nonces : /\ row.node = r.node /\ row.nonce = r.nonce
                         /\ row.expires_at >= r.timestamp + Skew

RegistryInv ==
  /\ second \in Nat
  /\ \A r \in signed : r.timestamp \in Int
  /\ \A row \in nonces : row.expires_at \in Int
  /\ honoured \in [signed -> {0, 1}]
  /\ \A r \in signed : honoured[r] = 1 => Remembered(r)

(* Forgetting rows whose time is over forgets no request that still passes *)
(* verify_auth (consume_nonce's DELETE).                                   *)
LEMMA KeptRemembers ==
  ASSUME RegistryInv, NEW r \in signed, honoured[r] = 1
  PROVE  \/ second > r.timestamp + Skew
         \/ \E row \in Kept : /\ row.node = r.node /\ row.nonce = r.nonce
                              /\ row.expires_at >= r.timestamp + Skew
<1>1. /\ second \in Int /\ r.timestamp \in Int /\ Skew \in Int
      /\ Remembered(r)
      /\ \A row \in nonces : row.expires_at \in Int
  BY RegistryAssumption DEF RegistryInv, Skew
<1> QED
  BY <1>1 DEF Remembered, Kept

(* Of the deliveries of a request, consume_nonce lets the first through    *)
(* and finds the row of that one at every other.                           *)
LEMMA ConsumeStep ==
  ASSUME RegistryInv, NEW r \in signed, verify_auth(r), consume_nonce(r),
         UNCHANGED <<second, signed>>
  PROVE  RegistryInv'
<1>0. /\ second \in Int /\ r.timestamp \in Int /\ Skew \in Nat
      /\ honoured \in [signed -> {0, 1}]
      /\ second <= r.timestamp + Skew
      /\ r.timestamp + Skew <= second + Skew * 2
  BY RegistryAssumption DEF RegistryInv, Skew, verify_auth
<1> DEFINE Again == \E row \in Kept : row.node = r.node /\ row.nonce = r.nonce
           new == [node |-> r.node, nonce |-> r.nonce, expires_at |-> nonce_expiry]
<1>1. CASE Again
  <2>1. nonces' = Kept /\ honoured' = honoured
    BY <1>1 DEF consume_nonce
  <2>2. \A row \in nonces' : row.expires_at \in Int
    BY <2>1 DEF Kept, RegistryInv
  <2>3. ASSUME NEW q \in signed, honoured[q] = 1 PROVE Remembered(q)'
    BY <2>1, <2>3, KeptRemembers DEF Remembered
  <2> QED
    BY <2>1, <2>2, <2>3 DEF RegistryInv
<1>2. CASE ~Again
  <2>1. /\ nonces' = Kept \cup {new}
        /\ honoured' = [honoured EXCEPT ![r] = @ + 1]
    BY <1>2 DEF consume_nonce
  <2>2. /\ new.node = r.node /\ new.nonce = r.nonce
        /\ new.expires_at = second + Skew * 2 /\ new.expires_at \in Int
    BY <1>0 DEF nonce_expiry, Skew
  <2> HIDE DEF new
  <2>3. \A row \in nonces' : row.expires_at \in Int
    BY <2>1, <2>2 DEF Kept, RegistryInv
  <2>4. honoured[r] = 0
    <3>1. CASE honoured[r] = 1
      <4>1. \E row \in Kept : row.node = r.node /\ row.nonce = r.nonce
        BY <1>0, <3>1, KeptRemembers
      <4> QED
        BY <1>2, <4>1
    <3> QED
      BY <1>0, <3>1
  <2>5. honoured' \in [signed -> {0, 1}]
    BY <1>0, <2>1, <2>4
  <2>6. ASSUME NEW q \in signed, honoured'[q] = 1 PROVE Remembered(q)'
    <3>1. CASE q = r
      <4>1. new.expires_at >= r.timestamp + Skew
        BY <1>0, <2>2
      <4> QED
        BY <2>1, <2>2, <3>1, <4>1 DEF Remembered
    <3>2. CASE q # r
      <4>1. honoured[q] = 1
        BY <1>0, <2>1, <2>6, <3>2
      <4> QED
        BY <2>1, <4>1, KeptRemembers DEF Remembered
    <3> QED
      BY <3>1, <3>2
  <2> QED
    BY <2>3, <2>5, <2>6 DEF RegistryInv
<1> QED
  BY <1>1, <1>2

(* Every step keeps what was let through remembered for as long as it      *)
(* would pass.                                                             *)
LEMMA RegistryStep ==
  ASSUME RegistryInv, [RegistryNext]_registryVars
  PROVE  RegistryInv'
<1>0. second \in Nat /\ honoured \in [signed -> {0, 1}] /\ Skew \in Nat
  BY RegistryAssumption DEF RegistryInv, Skew
<1>1. CASE SecondPasses
  <2>1. second' = second + 1 /\ UNCHANGED <<signed, nonces, honoured>>
    BY <1>1 DEF SecondPasses
  <2>2. ASSUME NEW r \in signed, honoured[r] = 1 PROVE Remembered(r)'
    BY <1>0, <2>1, <2>2 DEF Remembered, RegistryInv
  <2> QED
    BY <2>1, <2>2 DEF RegistryInv
<1>2. ASSUME NEW n \in Registrant, NEW nonce \in Nonces, NEW action, Sign(n, nonce, action)
      PROVE  RegistryInv'
  <2>1. PICK drift \in -MaxDrift..MaxDrift :
          /\ signed' = signed \cup {[node |-> n, nonce |-> nonce, action |-> action,
                                      timestamp |-> second + drift]}
          /\ honoured' = [r \in signed' |-> IF r \in signed THEN honoured[r] ELSE 0]
          /\ UNCHANGED <<second, nonces>>
    BY <1>2 DEF Sign
  <2>2. second + drift \in Int
    BY <1>0, RegistryAssumption
  <2>3. \A r \in signed' : r.timestamp \in Int
    BY <2>1, <2>2 DEF RegistryInv
  <2>4. honoured' \in [signed' -> {0, 1}]
    BY <1>0, <2>1
  <2>5. ASSUME NEW r \in signed', honoured'[r] = 1 PROVE Remembered(r)'
    <3>1. r \in signed /\ honoured[r] = 1
      BY <2>1, <2>5
    <3> QED
      BY <2>1, <3>1 DEF Remembered, RegistryInv
  <2> QED
    BY <2>1, <2>3, <2>4, <2>5 DEF RegistryInv
<1>3. ASSUME NEW r \in signed, register(r) \/ heartbeat(r)
      PROVE  RegistryInv'
  BY <1>3, ConsumeStep DEF register, heartbeat
<1>4. CASE UNCHANGED registryVars
  BY <1>4 DEF registryVars, RegistryInv, Remembered
<1> QED
  BY <1>1, <1>2, <1>3, <1>4 DEF RegistryNext

(* A signed request is let through at most once, however often and however *)
(* late it is delivered and however far its node's clock is off: twice the *)
(* skew is long enough to remember a nonce (consume_nonce, verify_auth).   *)
THEOREM RequestsHonouredOnce == RegistrySpec => []HonouredOnce
<1>1. RegistryInit => RegistryInv
  BY DEF RegistryInit, RegistryInv
<1>2. RegistryInv /\ [RegistryNext]_registryVars => RegistryInv'
  BY RegistryStep
<1>3. RegistryInv => HonouredOnce
  BY DEF RegistryInv, HonouredOnce
<1> QED
  BY <1>1, <1>2, <1>3, PTL DEF RegistrySpec
===============================================================================
