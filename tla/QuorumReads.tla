----------------------------- MODULE QuorumReads -----------------------------
(***************************************************************************)
(* What a client of the ledger learns by asking the seats, one signed      *)
(* answer per seat, while entries are being certified and stored. Which    *)
(* entry fills which height is decided (QuorumLedger); how far each seat   *)
(* has stored them is not. The answers of one read are taken at different  *)
(* moments and any of them may be lost.                                    *)
(***************************************************************************)
EXTENDS Integers, Sequences, FiniteSets, FiniteSetsExt, Functions

CONSTANTS
  Certifiable,   \* the entries of the chain in order, each a set: "pay" moves
                 \* the account that is asked about, "claim" carries the claim
                 \* that is asked about, "change" seats the next set
  Members,       \* the validator sets in order: members and threshold
  NoClaim,
  MaxReads       \* reads a client makes

VARIABLES
  certified,     \* entries certified so far
  head,          \* entries each seat has stored
  client,        \* the set the client addresses and the height that gave it
  reading,       \* what is being read, and the proofs that arrived
  answer         \* what the last read answered, with the heights around it

reads == <<certified, head, client, reading, answer>>

Seats == UNION {set.members : set \in {Members[v] : v \in DOMAIN Members}}
Kinds == {"balance", "claim", "checkpoint"}
Below(h, kind) == {i \in 1..h : kind \in Certifiable[i]}

(* The set that sits, the account's figures and the claim's height after h *)
(* entries. Both totals only grow, so equal figures mean an account that   *)
(* was not touched in between.                                             *)
SetAt(h) == Members[1 + Cardinality(Below(h, "change"))]
BalanceAt(h) == Cardinality(Below(h, "pay"))
ClaimAt(h) == IF Below(h, "claim") = {} THEN NoClaim ELSE Min(Below(h, "claim"))

Stored(h) == {s \in Seats : head[s] >= h}
StoredByQuorum(h) == \E g \in {h - 1, h} : Cardinality(Stored(h) \cap SetAt(g).members) >= SetAt(g).threshold
Committed == Max({0} \cup {h \in 1..certified : StoredByQuorum(h)})

----------------------------------------------------------------------------
(* A client certifies on top of a head that a threshold of seats reports.  *)
CertifyNext ==
  /\ certified < Len(Certifiable)
  /\ Cardinality({s \in SetAt(certified).members : head[s] = certified}) >= SetAt(certified).threshold
  /\ certified' = certified + 1
  /\ UNCHANGED <<head, client, reading, answer>>

(* By commit, by healing or by sync.                                       *)
Store(s) ==
  /\ head[s] < certified
  /\ head' = [head EXCEPT ![s] = @ + 1]
  /\ UNCHANGED <<certified, client, reading, answer>>

----------------------------------------------------------------------------
Idle == [kind |-> "idle"]
Asking(kind) == [kind |-> kind, set |-> client.set, proofs |-> [s \in {} |-> 0], since |-> Committed]

Ask(kind) ==
  /\ reading = Idle /\ answer.count < MaxReads
  /\ reading' = Asking(kind)
  /\ UNCHANGED <<certified, head, client, answer>>

(* signed_heads and its likes: an answer signed under another membership   *)
(* is dropped. The proof stands for the seat's head, from which everything *)
(* it signs follows.                                                       *)
Proof(s) ==
  /\ reading # Idle
  /\ s \in reading.set.members \ DOMAIN reading.proofs
  /\ SetAt(head[s]) = reading.set
  /\ reading' = [reading EXCEPT !.proofs = [t \in DOMAIN @ \cup {s} |-> IF t = s THEN head[s] ELSE @[t]]]
  /\ UNCHANGED <<certified, head, client, answer>>

Camp(value(_), h) == {s \in DOMAIN reading.proofs : value(reading.proofs[s]) = value(h)}

\* Faulty: half of a threshold of equal answers is enough.
agreed_balance_by_majority(k) ==
  LET agreed == {h \in Range(reading.proofs) : 2 * Cardinality(Camp(BalanceAt, h)) >= k}
  IN  {h \in agreed : \A g \in agreed : g <= h}

(* Of the figures a threshold stands behind, the freshest, as the freshest *)
(* of its seats signed them. The answer is the heights they signed it at.  *)
agreed_balance(k) ==
  LET agreed == {h \in Range(reading.proofs) : Cardinality(Camp(BalanceAt, h)) >= k}
  IN  {h \in agreed : \A g \in agreed : g <= h}

(* One certificate that verifies under the client's set proves the claim   *)
(* spent, whatever the others say; otherwise a threshold must agree on the *)
(* claim and on the head.                                                  *)
Verifies(h) == ClaimAt(h) # NoClaim /\ SetAt(ClaimAt(h) - 1) = reading.set
claim_quorum(k) ==
  LET heads == Range(reading.proofs)
  IN  IF \E h \in heads : Verifies(h) THEN {h \in heads : Verifies(h)}
      ELSE {h \in heads : Cardinality(Camp(LAMBDA g : g, h)) >= k}

checkpoint_quorum(k) == {h \in Range(reading.proofs) : Cardinality(Camp(LAMBDA g : g, h)) >= k}

AgreedHeights ==
  LET k == reading.set.threshold
  IN  CASE reading.kind = "balance" -> agreed_balance(k)
        [] reading.kind = "claim" -> claim_quorum(k)
        [] reading.kind = "checkpoint" -> checkpoint_quorum(k)

(* Waiting for all the seats ends when they answered or failed to, which   *)
(* may be at any moment.                                                   *)
Answer ==
  /\ reading # Idle
  /\ \E h \in AgreedHeights :
       answer' = [kind |-> reading.kind, at |-> h, since |-> reading.since, count |-> answer.count + 1]
  /\ reading' = Idle
  /\ UNCHANGED <<certified, head, client>>

(* balance_quorum looks again until BALANCE_CONVERGENCE is over; the other *)
(* reads fail at once.                                                     *)
LookAgain ==
  /\ reading.kind = "balance" /\ AgreedHeights = {}
  /\ reading' = Asking("balance")
  /\ UNCHANGED <<certified, head, client, answer>>

Fail ==
  /\ reading # Idle /\ AgreedHeights = {}
  /\ reading' = Idle
  /\ answer' = [answer EXCEPT !.count = @ + 1]
  /\ UNCHANGED <<certified, head, client>>

(* refresh_set follows the entries any one seat serves from the height     *)
(* that gave the current set, to the end of that seat's chain. Seats that  *)
(* have nothing there are passed over.                                     *)
refresh_set ==
  /\ reading = Idle
  /\ \E s \in client.set.members :
       /\ Below(head[s], "change") \ (1..client.sequence) # {}
       /\ client' = [set |-> SetAt(head[s]), sequence |-> Max(Below(head[s], "change"))]
  /\ UNCHANGED <<certified, head, reading, answer>>

ReadInit ==
  /\ certified = 0
  /\ head = [s \in Seats |-> 0]
  /\ client = [set |-> Members[1], sequence |-> 0]
  /\ reading = Idle
  /\ answer = [kind |-> "none", at |-> 0, since |-> 0, count |-> 0]

ReadNext ==
  \/ CertifyNext \/ Answer \/ LookAgain \/ Fail \/ refresh_set
  \/ \E s \in Seats : Store(s) \/ Proof(s)
  \/ \E kind \in Kinds : Ask(kind)

ReadSpec == ReadInit /\ [][ReadNext]_reads

----------------------------------------------------------------------------
(* What a read answers is what the ledger held at some moment of the read: *)
(* everything a threshold of seats had stored when the client began to ask *)
(* is in it, whichever seats answer and however far apart, and a balance   *)
(* or a checkpoint holds nothing that is not stored by a threshold.        *)
ReadIsFresh ==
  LET a == answer
  IN  /\ a.kind = "balance" => \E h \in a.since..Committed : BalanceAt(a.at) = BalanceAt(h)
      /\ a.kind = "claim" /\ ClaimAt(a.at) = NoClaim => ClaimAt(a.since) = NoClaim
      /\ a.kind = "checkpoint" => a.at \in a.since..Committed
================================================================================
