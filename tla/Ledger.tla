------------------------------- MODULE Ledger -------------------------------
(***************************************************************************)
(* What the quorum ledger promises its clients: one append-only history.   *)
(* Each entry carries a nonempty batch of transactions, and every          *)
(* transaction spends a claim key (`reserve:<job>`, `reward:<shard>`...)   *)
(* that no other transaction of the history spends.  QuorumLedger shows    *)
(* that the validators and the proposers implement this.                   *)
(***************************************************************************)
EXTENDS Integers, Sequences, FiniteSets

CONSTANTS Tx,        \* the transactions clients may submit
          claim_key  \* [Tx -> claims]: the exactly-once key of each one

VARIABLE ledger      \* the certified history: a sequence of batches

Batch == (SUBSET Tx) \ {{}}

\* The claims a history has spent.
Spent(history) ==
    {claim_key[t] : t \in UNION {history[i] : i \in 1..Len(history)}}

\* A batch can extend a history when it spends fresh and distinct claims.
Fresh(history, batch) ==
    /\ \A t \in batch : claim_key[t] \notin Spent(history)
    /\ \A t, u \in batch : claim_key[t] = claim_key[u] => t = u

Init == ledger = <<>>

Certify(batch) ==
    /\ Fresh(ledger, batch)
    /\ ledger' = Append(ledger, batch)

Next == \E batch \in Batch : Certify(batch)

Spec == Init /\ [][Next]_ledger
=============================================================================
