---------------------------- MODULE LedgerRules -----------------------------
(***************************************************************************)
(* What a settlement has to satisfy: crates/hocmesh-ledger/src/validate.rs *)
(* and the propose-time checks of crates/hocmesh-validator/src/main.rs.    *)
(*                                                                         *)
(* A transaction is a record: its kind, the evidence fields the rules read *)
(* and its postings.  What can be decided from the evidence alone (its     *)
(* signatures, nonces, the shape of a workload, the wording of a dispute)  *)
(* is the field proof; amount is the declared reward, refund or price.  A  *)
(* reserve's work is the sequence of its shards' costs and a settlement's  *)
(* work the cost of its shard; a bill is the operations each prompt takes. *)
(***************************************************************************)
EXTENDS Integers, Sequences, FiniteSets, SequencesExt, Functions

CONSTANTS
    REFERENCE_OPS_PER_MCU,         \* operations one mCU buys (8192 in the code)
    SETTLEMENT_WINDOW_SECS,        \* how long a part may be rewarded
    community_issuance_limit_mcu,  \* how far issuance may go below zero
    Account                        \* every account a posting can name

ASSUME RulesAssumption ==
    /\ REFERENCE_OPS_PER_MCU \in Nat \ {0}
    /\ SETTLEMENT_WINDOW_SECS \in Nat
    /\ community_issuance_limit_mcu \in Nat \ {0}

COMMUNITY_ISSUANCE_ACCOUNT == <<"commons">>
node_account(n) == <<"node", n>>
escrow_account(j) == <<"escrow", j>>
inference_holding_account(j, i) == <<"holding", j, i>>

\* No requester: community work, or a lookup that found nothing.
NoOne == "no one"
Absent == [absent |-> TRUE]

\* Total over a function's domain, as COALESCE(SUM(..), 0).
Total(f) == SumFunction(f)

-----------------------------------------------------------------------------
\* Prices.

div_ceil(a, b) == (a + b - 1) \div b

inference_cost_mcu(ops) ==
    LET mcu == div_ceil(Total(ops), REFERENCE_OPS_PER_MCU)
    IN  IF mcu = 0 THEN 1 ELSE mcu

\* A batch answers the prompts from start up to, not including, end.
inference_batch_cost_mcu(billing, start, end) ==
    LET lo == IF start < Len(billing) THEN start ELSE Len(billing)
        hi == IF end < lo THEN lo ELSE IF end < Len(billing) THEN end ELSE Len(billing)
    IN  inference_cost_mcu(SubSeq(billing, lo + 1, hi))

\* The batches cover the prompts once each, in order.
batches_partition_prompts(batches, prompts) ==
    /\ batches # <<>>
    /\ \A i \in DOMAIN batches :
        /\ batches[i].start = IF i = 1 THEN 0 ELSE batches[i - 1].end
        /\ batches[i].end > batches[i].start
    /\ Last(batches).end = prompts

-----------------------------------------------------------------------------
\* Claims and postings.

Reserves == {"JobReserve", "CommunityReserve", "InferenceReserve"}

\* Faulty: a refund of a batch rivals its payout instead of its receipt.
claim_key_refund_pays_out(tx) ==
    CASE tx.kind \in Reserves -> <<"reserve", tx.job>>
      [] tx.kind \in {"ProviderReward", "JobRefund"} -> <<"reward", tx.job, tx.part>>
      [] tx.kind = "InferenceReceipt" -> <<"escrow", tx.job, tx.start, tx.end>>
      [] tx.kind = "MembershipChange" -> <<"membership", tx.id>>
      [] OTHER -> <<"payout", tx.job, tx.start, tx.end>>

claim_key(tx) ==
    CASE tx.kind \in Reserves -> <<"reserve", tx.job>>
      [] tx.kind \in {"ProviderReward", "JobRefund"} -> <<"reward", tx.job, tx.part>>
      [] tx.kind \in {"InferenceReceipt", "InferenceRefund"} ->
            <<"escrow", tx.job, tx.start, tx.end>>
      [] tx.kind \in {"InferenceReward", "InferenceDispute", "InferenceExpiry"} ->
            <<"payout", tx.job, tx.start, tx.end>>
      [] tx.kind = "MembershipChange" -> <<"membership", tx.id>>

\* Exactly these two postings, in either order.
Moves(tx, from, to, amount) ==
    /\ Len(tx.postings) = 2
    /\ [account |-> from, delta |-> -amount] \in ToSet(tx.postings)
    /\ [account |-> to, delta |-> amount] \in ToSet(tx.postings)

\* The balances a transaction's postings leave behind.
Post(balance, tx) ==
    FoldLeft(LAMBDA b, p : [b EXCEPT ![p.account] = @ + p.delta], balance, tx.postings)

\* CU is conserved, no posting is empty, nobody is overdrawn and issuance
\* stays inside its limit.
PostingsAllowed(tx, balance) ==
    /\ Len(tx.postings) >= 2
    /\ Total([i \in DOMAIN tx.postings |-> tx.postings[i].delta]) = 0
    /\ \A p \in ToSet(tx.postings) :
        /\ p.delta # 0
        /\ p.delta < 0 =>
            IF p.account = COMMUNITY_ISSUANCE_ACCOUNT
            THEN balance[p.account] + p.delta >= -community_issuance_limit_mcu
            ELSE balance[p.account] >= -p.delta

-----------------------------------------------------------------------------
\* The rule of each kind, as a validator about to sign applies it.

validate_reserve(tx) ==
    Moves(tx, node_account(tx.signer), escrow_account(tx.job), Total(tx.work))

validate_inference_reserve(tx) ==
    LET cost == inference_cost_mcu(tx.billing)
    IN  /\ batches_partition_prompts(tx.batches, Len(tx.billing))
        /\ cost <= tx.max_cost_mcu
        /\ Moves(tx, node_account(tx.signer), escrow_account(tx.job), cost)

\* A threshold of the sitting set puts its name to the mint.
validate_community_reserve(tx, set) ==
    /\ tx.auditable
    /\ Moves(tx, COMMUNITY_ISSUANCE_ACCOUNT, escrow_account(tx.job), Total(tx.work))
    /\ Cardinality(tx.sponsors \cap set.members) >= set.threshold

validate_reward(tx) ==
    /\ tx.system_funded => tx.auditable
    /\ tx.amount = tx.work
    /\ Moves(tx, escrow_account(tx.job), node_account(tx.signer), tx.work)

\* Minted CU goes back to issuance, a requester's to whoever authorises it.
refund_payee(tx) ==
    IF tx.signer = NoOne THEN COMMUNITY_ISSUANCE_ACCOUNT ELSE node_account(tx.signer)

validate_refund(tx) ==
    /\ tx.amount = tx.work
    /\ tx.system_funded <=> tx.signer = NoOne
    /\ Moves(tx, escrow_account(tx.job), refund_payee(tx), tx.work)

\* The batch the assignment id names, with the bounds the claim gives.
reserved_batch(r, tx) ==
    /\ r # Absent
    /\ tx.part \in DOMAIN r.batches
    /\ r.batches[tx.part].start = tx.start
    /\ r.batches[tx.part].end = tx.end

Priced(r, tx) == tx.amount = inference_batch_cost_mcu(r.billing, tx.start, tx.end)

Held(tx) == inference_holding_account(tx.job, tx.part)

validate_inference_receipt(tx, r) ==
    /\ reserved_batch(r, tx) /\ Priced(r, tx)
    /\ r.requester = tx.signer
    /\ Moves(tx, escrow_account(tx.job), Held(tx), tx.amount)

\* The signature on a verdict is the requester's own.
requester_verdict(r, node) == r.requester = node

validate_inference_reward(tx, r) ==
    /\ tx.amount > 0
    /\ reserved_batch(r, tx) /\ Priced(r, tx)
    /\ r.batches[tx.part].node = tx.signer
    /\ r.requester # tx.signer
    /\ requester_verdict(r, tx.accepted_by)
    /\ Moves(tx, Held(tx), node_account(tx.signer), tx.amount)

validate_inference_dispute(tx, r) ==
    /\ reserved_batch(r, tx) /\ Priced(r, tx)
    /\ requester_verdict(r, tx.signer)
    /\ Moves(tx, Held(tx), COMMUNITY_ISSUANCE_ACCOUNT, tx.amount)

\* Until the window after the receipt closes only the requester may judge.
expired_receipt(tx) ==
    /\ tx.end > tx.start
    /\ tx.amount > 0
    /\ tx.created_at >= tx.receipt_at + SETTLEMENT_WINDOW_SECS

validate_inference_expiry(tx, r) ==
    /\ expired_receipt(tx)
    /\ reserved_batch(r, tx) /\ Priced(r, tx)
    /\ r.requester = tx.signer
    /\ Moves(tx, Held(tx), COMMUNITY_ISSUANCE_ACCOUNT, tx.amount)

validate_inference_refund(tx, r) ==
    /\ tx.amount > 0
    /\ reserved_batch(r, tx) /\ Priced(r, tx)
    /\ r.requester = tx.signer
    /\ Moves(tx, escrow_account(tx.job), node_account(tx.signer), tx.amount)

\* A change of membership moves no CU; its vouches are not looked at yet.
validate_membership_shape(tx) ==
    tx.postings = <<>> /\ tx.threshold # 0

Reservation(table, tx) == IF tx.job \in DOMAIN table THEN table[tx.job] ELSE Absent

validate_transaction(tx, balance, inference, set) ==
    IF tx.kind = "MembershipChange" THEN validate_membership_shape(tx)
    ELSE LET r == Reservation(inference, tx)
         IN  /\ tx.proof
             /\ PostingsAllowed(tx, balance)
             /\ CASE tx.kind = "JobReserve" -> validate_reserve(tx)
                  [] tx.kind = "CommunityReserve" -> validate_community_reserve(tx, set)
                  [] tx.kind = "ProviderReward" -> validate_reward(tx)
                  [] tx.kind = "JobRefund" -> validate_refund(tx)
                  [] tx.kind = "InferenceReserve" -> validate_inference_reserve(tx)
                  [] tx.kind = "InferenceReceipt" -> validate_inference_receipt(tx, r)
                  [] tx.kind = "InferenceReward" -> validate_inference_reward(tx, r)
                  [] tx.kind = "InferenceDispute" -> validate_inference_dispute(tx, r)
                  [] tx.kind = "InferenceExpiry" -> validate_inference_expiry(tx, r)
                  [] tx.kind = "InferenceRefund" -> validate_inference_refund(tx, r)

\* What the ledger remembers of an inference reserve.
reservation_of(tx) ==
    [billing |-> tx.billing, batches |-> tx.batches, requester |-> tx.signer,
     reserved_at |-> tx.created_at]

\* Each transaction is judged against what its predecessors in the batch left.
validate_batch(txs, balance, inference, set) ==
    FoldLeft(LAMBDA acc, tx :
                [ok |-> acc.ok /\ validate_transaction(tx, acc.balance, acc.inference, set),
                 balance |-> Post(acc.balance, tx),
                 inference |-> IF tx.kind = "InferenceReserve"
                               THEN (tx.job :> reservation_of(tx)) @@ acc.inference
                               ELSE acc.inference],
             [ok |-> TRUE, balance |-> balance, inference |-> inference],
             txs).ok

-----------------------------------------------------------------------------
\* What needs the reserve a settlement draws on.

InWindow(tx, r) == tx.created_at <= r.reserved_at + SETTLEMENT_WINDOW_SECS

\* A shard's reward and refund: same funding, the reserved shard, the right
\* party, and never in the same part of the window.
ShardSettlement(tx, r) ==
    /\ r # Absent
    /\ r.system_funded = tx.system_funded
    /\ tx.kind = "JobRefund" => r.requester = tx.signer
    /\ tx.kind = "ProviderReward" => r.requester # tx.signer
    /\ tx.part \in DOMAIN r.work /\ r.work[tx.part] = tx.work
    /\ tx.kind = "ProviderReward" <=> InWindow(tx, r)

\* The same for a batch of inference.
BatchSettlement(tx, r) ==
    /\ reserved_batch(r, tx) /\ Priced(r, tx)
    /\ tx.kind = "InferenceRefund" => r.requester = tx.signer
    /\ tx.kind = "InferenceReward" =>
        r.batches[tx.part].node = tx.signer /\ r.requester # tx.signer
    /\ tx.kind = "InferenceReward" <=> InWindow(tx, r)

validate_inference_membership(tx, inference) ==
    BatchSettlement(tx, Reservation(inference, tx))

\* Faulty: only inference settlements are held to their reserve.
validate_inference_only(tx, reservations, inference) ==
    tx.kind \in {"InferenceReward", "InferenceRefund"} =>
        validate_inference_membership(tx, inference)

\* A validator's propose-time copy of the replay's rules.
validate_settlement_membership(tx, reservations, inference) ==
    CASE tx.kind \in {"ProviderReward", "JobRefund"} ->
            ShardSettlement(tx, Reservation(reservations, tx))
      [] tx.kind \in {"InferenceReward", "InferenceRefund"} ->
            validate_inference_membership(tx, inference)
      [] OTHER -> TRUE

-----------------------------------------------------------------------------
\* Membership.

\* Any two quorums share more than a third of the seats.
validate_validator_set(set) ==
    /\ set.members # {}
    /\ set.threshold \in 1..Cardinality(set.members)
    /\ 3 * set.threshold > 2 * Cardinality(set.members)

membership_result(set, tx) ==
    [members |-> IF tx.action = "Join" THEN set.members \cup {tx.member}
                                       ELSE set.members \ {tx.member},
     threshold |-> tx.threshold]

apply_membership_change(set, tx) ==
    /\ tx.action = "Join" <=> tx.member \notin set.members
    /\ validate_validator_set(membership_result(set, tx))
    /\ tx.resulting_set = membership_result(set, tx)

\* A vouch is signed over the set it was given against.
verify_membership_change(set, tx) ==
    /\ apply_membership_change(set, tx)
    /\ tx.vouched_against = set
    /\ Cardinality(tx.vouches \cap set.members) >= set.threshold

\* The sets an entry's changes lead through, each vouched by its predecessor.
ChangeSets(txs, set) ==
    FoldLeft(LAMBDA acc, tx :
                IF tx.kind # "MembershipChange" THEN acc
                ELSE [ok |-> acc.ok /\ verify_membership_change(acc.set, tx),
                      set |-> membership_result(acc.set, tx)],
             [ok |-> TRUE, set |-> set], txs)

-----------------------------------------------------------------------------
\* What an auditor accepts of a certified transaction, years later.

\* Apart from signatures, only a reward is looked at again: its challenge now
\* comes from the certificate's own signatures.
verify_historical_evidence(tx) ==
    tx.kind # "MembershipChange" => tx.proof /\ tx.certified_witness

historical_shard(tx) ==
    CASE tx.kind = "JobReserve" -> validate_reserve(tx)
      [] tx.kind = "ProviderReward" ->
            /\ tx.amount = tx.work
            /\ Moves(tx, escrow_account(tx.job), node_account(tx.signer), tx.work)
      [] tx.kind = "JobRefund" -> validate_refund(tx)

NotEmpty(tx) == tx.end > tx.start /\ tx.amount > 0

historical_inference_reward(tx) ==
    NotEmpty(tx) /\ Moves(tx, Held(tx), node_account(tx.signer), tx.amount)

historical_inference_refund(tx) ==
    NotEmpty(tx) /\ Moves(tx, escrow_account(tx.job), node_account(tx.signer), tx.amount)

historical_inference_receipt(tx) ==
    NotEmpty(tx) /\ Moves(tx, escrow_account(tx.job), Held(tx), tx.amount)

historical_inference_dispute(tx) ==
    NotEmpty(tx) /\ Moves(tx, Held(tx), COMMUNITY_ISSUANCE_ACCOUNT, tx.amount)

historical_inference_expiry(tx) ==
    expired_receipt(tx) /\ Moves(tx, Held(tx), COMMUNITY_ISSUANCE_ACCOUNT, tx.amount)

validate_historical_transaction(tx, balance, set) ==
    /\ verify_historical_evidence(tx)
    /\ IF tx.kind = "MembershipChange" THEN validate_membership_shape(tx)
       ELSE /\ PostingsAllowed(tx, balance)
            /\ CASE tx.kind \in {"JobReserve", "ProviderReward", "JobRefund"} -> historical_shard(tx)
                 [] tx.kind = "CommunityReserve" -> validate_community_reserve(tx, set)
                 [] tx.kind = "InferenceReserve" -> validate_inference_reserve(tx)
                 [] tx.kind = "InferenceReward" -> historical_inference_reward(tx)
                 [] tx.kind = "InferenceRefund" -> historical_inference_refund(tx)
                 [] tx.kind = "InferenceReceipt" -> historical_inference_receipt(tx)
                 [] tx.kind = "InferenceDispute" -> historical_inference_dispute(tx)
                 [] tx.kind = "InferenceExpiry" -> historical_inference_expiry(tx)

=============================================================================
