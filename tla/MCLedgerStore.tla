--------------------------- MODULE MCLedgerStore ----------------------------
(* Small instances of LedgerStore: two validators, three nodes, a mint, a   *)
(* paid compute job and a paid inference job of two batches.                *)
EXTENDS LedgerStore

CONSTANTS
    Work,   \* the shard costs of the paid compute job
    Ops     \* the operations of each prompt of the inference job

TwoShards == <<1, 1>>
ExactOps == <<2, 2>>     \* each prompt prices to a whole mCU
RoundedOps == <<3, 3>>   \* each prompt rounds up

MCAccount ==
    {COMMUNITY_ISSUANCE_ACCOUNT}
        \cup {node_account(n) : n \in {"ann", "bob"}}
        \cup {escrow_account(j) : j \in {"mint", "job", "inf"}}
        \cup {inference_holding_account("inf", i) : i \in 1..2}

Two == [members |-> {"v1", "v2"}, threshold |-> 2]
One == [members |-> {"v1"}, threshold |-> 1]

\* Every field a rule may read, so that all transactions are comparable.
Tx(kind, job, f) ==
    f @@ [kind |-> kind, job |-> job, proof |-> TRUE, certified_witness |-> TRUE,
          auditable |-> TRUE, system_funded |-> FALSE, created_at |-> 1, postings |-> <<>>]

Pay(from, to, amount) ==
    <<[account |-> from, delta |-> -amount], [account |-> to, delta |-> amount]>>

Sum(w) == Total(w)

Mint(amount) ==
    Tx("CommunityReserve", "mint",
       [work |-> <<amount>>, sponsors |-> {"v1", "v2"}, created_at |-> 0,
        postings |-> Pay(COMMUNITY_ISSUANCE_ACCOUNT, escrow_account("mint"), amount)])
MintReward(amount, at) ==
    Tx("ProviderReward", "mint",
       [part |-> 1, work |-> amount, amount |-> amount, signer |-> "ann", created_at |-> at,
        system_funded |-> TRUE,
        postings |-> Pay(escrow_account("mint"), node_account("ann"), amount)])
Job ==
    Tx("JobReserve", "job",
       [work |-> Work, signer |-> "ann", created_at |-> 0,
        postings |-> Pay(node_account("ann"), escrow_account("job"), Sum(Work))])
JobReward(i, at) ==
    Tx("ProviderReward", "job",
       [part |-> i, work |-> Work[i], amount |-> Work[i], signer |-> "bob", created_at |-> at,
        postings |-> Pay(escrow_account("job"), node_account("bob"), Work[i])])
JobRefundTx(i, at) ==
    Tx("JobRefund", "job",
       [part |-> i, work |-> Work[i], amount |-> Work[i], signer |-> "ann", created_at |-> at,
        postings |-> Pay(escrow_account("job"), node_account("ann"), Work[i])])

Inf ==
    Tx("InferenceReserve", "inf",
       [billing |-> Ops, signer |-> "ann", max_cost_mcu |-> inference_cost_mcu(Ops),
        batches |-> <<[start |-> 0, end |-> 1, node |-> "bob"],
                      [start |-> 1, end |-> 2, node |-> "bob"]>>,
        created_at |-> 0,
        postings |-> Pay(node_account("ann"), escrow_account("inf"), inference_cost_mcu(Ops))])
Batch(kind, i, f, from, to) ==
    Tx(kind, "inf",
       f @@ [part |-> i, start |-> i - 1, end |-> i,
             amount |-> inference_batch_cost_mcu(Ops, i - 1, i),
             postings |-> Pay(from, to, inference_batch_cost_mcu(Ops, i - 1, i))])
Receipt(i, at) ==
    Batch("InferenceReceipt", i, [signer |-> "ann", created_at |-> at],
          escrow_account("inf"), inference_holding_account("inf", i))
Reward(i, at) ==
    Batch("InferenceReward", i, [signer |-> "bob", accepted_by |-> "ann", created_at |-> at],
          inference_holding_account("inf", i), node_account("bob"))
Dispute(i, at) ==
    Batch("InferenceDispute", i, [signer |-> "ann", created_at |-> at],
          inference_holding_account("inf", i), COMMUNITY_ISSUANCE_ACCOUNT)
Expiry(i, at) ==
    Batch("InferenceExpiry", i, [signer |-> "ann", receipt_at |-> 1, created_at |-> at],
          inference_holding_account("inf", i), COMMUNITY_ISSUANCE_ACCOUNT)
InfRefund(i, at) ==
    Batch("InferenceRefund", i, [signer |-> "ann", created_at |-> at],
          escrow_account("inf"), node_account("ann"))

Change(id, action, member, from, to, by) ==
    Tx("MembershipChange", "none",
       [id |-> id, action |-> action, member |-> member, threshold |-> to.threshold,
        resulting_set |-> to, vouched_against |-> from, vouches |-> by])
Leave(by) == Change("leave", "Leave", "v2", Two, One, by)
Again == Change("again", "Leave", "v2", Two, One, {"v1", "v2"})

Cost == inference_cost_mcu(Ops) + Sum(Work)
Funding == <<<<Mint(Cost)>>, <<MintReward(Cost, 1)>>>>

Lone(S) == {<<tx>> : tx \in S}

\* One of everything the ledger can be asked to settle, some of it at a time
\* when it may be and some at a time when it may not.
Settlements ==
    Lone({Job, Inf, JobReward(1, 1), JobReward(1, 2), JobRefundTx(2, 2), Receipt(1, 1),
          Receipt(2, 2), Reward(1, 1), Dispute(1, 1), Expiry(1, 2), InfRefund(1, 1),
          InfRefund(1, 2), Leave({"v1", "v2"})})
    \cup {<<Job, Inf>>, <<Receipt(1, 1), Reward(1, 1)>>, <<Receipt(1, 1), InfRefund(1, 2)>>}

\* Two changes, each vouched for by the whole sitting set.
Changes == Lone({Leave({"v1", "v2"}), Again})

=============================================================================
