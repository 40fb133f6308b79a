---------------------------- MODULE LedgerStore -----------------------------
(***************************************************************************)
(* What each validator keeps of the certified chain and what it can still  *)
(* prove about it: crates/hocmesh-ledger/src/store.rs with the handlers    *)
(* and commands of crates/hocmesh-validator/src/main.rs that use it.       *)
(*                                                                         *)
(* Agreement on one chain is the subject of QuorumLedger; here chain is    *)
(* that chain.  A certificate is signed by seats that hold everything      *)
(* below it; Certify takes one of them for the quorum.  Clocks are the     *)
(* created_at stamps of the transactions, which nothing orders.            *)
(***************************************************************************)
EXTENDS LedgerRules

CONSTANTS
    Seat,        \* the validators whose databases are modelled
    Batches,     \* the batches of transactions proposers may send
    GenesisSet,  \* the validator set of the bootstrap file
    Opening,     \* batches already certified when the run begins
    Newcomer,    \* seats that join then, with an empty database
    MaxHeight,   \* bound on the length of the chain
    CheckpointHeights  \* bound: the heights at which operators checkpoint

VARIABLES
    chain,       \* the certified entries: [transactions, set]
    store,       \* each seat's database
    snapshot     \* the snapshot file last written, or Absent

vars == <<chain, store, snapshot>>

Empty == <<>>   \* a table without rows

EmptyStore ==
    [certificates |-> Empty, balances |-> [a \in Account |-> 0], claims |-> Empty,
     job_reservations |-> Empty, inference_reservations |-> Empty,
     account_activity |-> {},
     activity_baseline |-> [a \in Account |-> <<0, 0>>],
     checkpoint |-> Absent, validator_set |-> Empty, bootstrap |-> GenesisSet]

Highest(S) == IF S = {} THEN 0 ELSE Max(S)

head(st) == Highest(DOMAIN st.certificates)
has_claim(st, key) == key \in DOMAIN st.claims

\* The set the chain last certified, or the bootstrap file's.
current_set(st) ==
    LET at == Highest(DOMAIN st.validator_set)
    IN  IF at = 0 THEN st.bootstrap ELSE st.validator_set[at]

-----------------------------------------------------------------------------
\* Derived tables.

\* The postings of an entry, numbered across all its transactions.
PostingsOf(txs) == FlattenSeq([i \in DOMAIN txs |-> txs[i].postings])

ActivityRows(n, txs) ==
    {[account |-> PostingsOf(txs)[i].account, sequence |-> n, posting_index |-> i,
      delta_mcu |-> PostingsOf(txs)[i].delta] : i \in DOMAIN PostingsOf(txs)}

shard_reservation(tx) ==
    [work |-> tx.work, system_funded |-> tx.kind = "CommunityReserve",
     requester |-> IF tx.kind = "CommunityReserve" THEN NoOne ELSE tx.signer,
     reserved_at |-> tx.created_at]

\* A row of a reservation table also carries the height it was made at.
Row(n, r) == [sequence |-> n, row |-> r]

ReservedBy(n, txs, kinds) ==
    LET made == {tx \in ToSet(txs) : tx.kind \in kinds}
        Record(tx) == IF tx.kind = "InferenceReserve" THEN reservation_of(tx)
                      ELSE shard_reservation(tx)
    IN  [j \in {tx.job : tx \in made} |->
            Row(n, Record(CHOOSE tx \in made : tx.job = j))]

index_certificate(st, n, txs) ==
    [st EXCEPT
        !.account_activity = @ \cup ActivityRows(n, txs),
        !.job_reservations =
            ReservedBy(n, txs, {"JobReserve", "CommunityReserve"}) @@ @,
        !.inference_reservations =
            ReservedBy(n, txs, {"InferenceReserve"}) @@ @]

Rows(table) == [j \in DOMAIN table |-> table[j].row]

After(table, n) == {j \in DOMAIN table : table[j].sequence > n}

\* Faulty: the checkpoint's own rows go too.
rebuild_indexes_at(st) ==
    LET floor == IF st.checkpoint = Absent THEN 0 ELSE st.checkpoint.sequence
        above == SetToSortSeq({n \in DOMAIN st.certificates : n > floor}, <)
    IN  FoldLeft(LAMBDA acc, n : index_certificate(acc, n, st.certificates[n].transactions),
                 [st EXCEPT !.account_activity = {r \in @ : r.sequence < floor}], above)

\* On opening, what the certificates above the checkpoint produced is built
\* again; rows at or below it may be all that is left of a pruned history.
rebuild_indexes(st) ==
    LET floor == IF st.checkpoint = Absent THEN 0 ELSE st.checkpoint.sequence
        kept == [st EXCEPT
                   !.account_activity = {r \in @ : r.sequence <= floor},
                   !.job_reservations = RestrictDomain(@, LAMBDA j : @[j].sequence <= floor),
                   !.inference_reservations = RestrictDomain(@, LAMBDA j : @[j].sequence <= floor)]
        above == SetToSortSeq({n \in DOMAIN st.certificates : n > floor}, <)
    IN  FoldLeft(LAMBDA acc, n : index_certificate(acc, n, st.certificates[n].transactions),
                 kept, above)

-----------------------------------------------------------------------------
\* The state a quorum signs for.

\* Lifetime totals: what a snapshot handed over plus the rows held here.
activity(st, a) ==
    LET rows == {r \in st.account_activity : r.account = a}
    IN  <<st.activity_baseline[a][1]
            + MapThenSumSet(LAMBDA r : IF r.delta_mcu > 0 THEN r.delta_mcu ELSE 0, rows),
          st.activity_baseline[a][2]
            + MapThenSumSet(LAMBDA r : IF r.delta_mcu < 0 THEN -r.delta_mcu ELSE 0, rows)>>

\* Everything a digest is taken over; an account with nothing in it counts
\* as no account.
state(st) ==
    [balances |-> st.balances, claims |-> DOMAIN st.claims,
     reservations |-> Rows(st.job_reservations),
     inference |-> Rows(st.inference_reservations),
     activity |-> [a \in Account |-> activity(st, a)]]

\* Undo the entries above a height.
rewind_to(st, n) ==
    LET undo(acc, tx) ==
            FoldLeft(LAMBDA s, p :
                        [s EXCEPT !.balances[p.account] = @ - p.delta,
                                  !.activity[p.account] =
                                      IF p.delta > 0 THEN <<@[1] - p.delta, @[2]>>
                                                     ELSE <<@[1], @[2] + p.delta>>],
                     [acc EXCEPT !.claims = @ \ {claim_key(tx)}], tx.postings)
        above == SetToSortSeq({m \in DOMAIN st.certificates : m > n}, <)
        txs == FlattenSeq([i \in DOMAIN above |-> st.certificates[above[i]].transactions])
        undone == FoldLeft(undo, state(st), txs)
    IN  [undone EXCEPT
           !.reservations = RestrictDomain(@, LAMBDA j : j \notin After(st.job_reservations, n)),
           !.inference = RestrictDomain(@, LAMBDA j : j \notin After(st.inference_reservations, n))]

EmptyState == state(EmptyStore)

\* What a replay adds to the rules of a kind: the reserve it belongs to.
audit_reserve(tx, s) ==
    IF tx.kind = "InferenceReserve" THEN tx.job \notin DOMAIN s.inference
                                    ELSE tx.job \notin DOMAIN s.reservations

audit_shard(tx, s) == ShardSettlement(tx, Reservation(s.reservations, tx))

audit_batch(tx, s) == BatchSettlement(tx, Reservation(s.inference, tx))

\* Delivery only counts while the escrow is still live.
audit_receipt(tx, s) ==
    LET r == Reservation(s.inference, tx)
    IN  /\ r # Absent /\ r.requester = tx.signer
        /\ \E b \in ToSet(r.batches) : b.start = tx.start /\ b.end = tx.end
        /\ Priced(r, tx)
        /\ InWindow(tx, r)

audit_verdict(tx, s) ==
    LET r == Reservation(s.inference, tx)
    IN  r # Absent /\ r.requester = tx.signer /\ Priced(r, tx)

AuditBinding(tx, s) ==
    CASE tx.kind \in Reserves -> audit_reserve(tx, s)
      [] tx.kind \in {"ProviderReward", "JobRefund"} -> audit_shard(tx, s)
      [] tx.kind \in {"InferenceReward", "InferenceRefund"} -> audit_batch(tx, s)
      [] tx.kind = "InferenceReceipt" -> audit_receipt(tx, s)
      [] tx.kind \in {"InferenceDispute", "InferenceExpiry"} -> audit_verdict(tx, s)
      [] OTHER -> TRUE

\* Carry a replayed transaction into the state.
Replay(s, tx) ==
    LET paid == FoldLeft(LAMBDA acc, p :
                    [acc EXCEPT !.balances[p.account] = @ + p.delta,
                                !.activity[p.account] =
                                    IF p.delta > 0 THEN <<@[1] + p.delta, @[2]>>
                                                   ELSE <<@[1], @[2] - p.delta>>],
                    [s EXCEPT !.claims = @ \cup {claim_key(tx)}], tx.postings)
    IN  CASE tx.kind \in {"JobReserve", "CommunityReserve"} ->
                [paid EXCEPT !.reservations = (tx.job :> shard_reservation(tx)) @@ @]
          [] tx.kind = "InferenceReserve" ->
                [paid EXCEPT !.inference = (tx.job :> reservation_of(tx)) @@ @]
          [] OTHER -> paid

audit_step(acc, tx) ==
    [ok |-> /\ acc.ok
            /\ claim_key(tx) \notin acc.state.claims
            /\ validate_historical_transaction(tx, acc.state.balances, acc.set)
            /\ AuditBinding(tx, acc.state)
            /\ tx.kind = "MembershipChange" => verify_membership_change(acc.set, tx)
            /\ \A a \in Account \ {COMMUNITY_ISSUANCE_ACCOUNT} :
                  Post(acc.state.balances, tx)[a] >= 0,
     state |-> Replay(acc.state, tx),
     set |-> IF tx.kind = "MembershipChange" THEN membership_result(acc.set, tx) ELSE acc.set]

\* The entries from a height on link up, and each is signed by its own set.
Linked(st, from, set) ==
    LET above == {n \in DOMAIN st.certificates : n > from}
        SetAt(n) == ChangeSets(FlattenSeq([i \in 1..(n - 1 - from) |->
                                  st.certificates[from + i].transactions]), set).set
    IN  /\ above = (from + 1)..Highest(above \cup {from})
        /\ \A n \in above : st.certificates[n].set = SetAt(n)

\* Replay everything above a checkpoint (or above genesis), every rule
\* again, and compare with the state the store has been keeping.
audit_from(st, set, cp) ==
    LET from == IF cp = Absent THEN 0 ELSE cp.sequence
        start == IF cp = Absent THEN EmptyState ELSE rewind_to(st, from)
        above == [i \in 1..(head(st) - from) |-> st.certificates[from + i].transactions]
        end == FoldLeft(audit_step, [ok |-> TRUE, state |-> start, set |-> set],
                        FlattenSeq(above))
    IN  /\ cp # Absent => cp.set = set /\ start = cp.state
        /\ Linked(st, from, set)
        /\ end.ok
        /\ end.state = state(st)

-----------------------------------------------------------------------------
\* Applying a certificate.

\* No claim twice in an entry, and the set it names is the one expected.
verify_certificate(cert, set) ==
    /\ cert.set = set
    /\ cert.transactions # <<>>
    /\ \A i, k \in DOMAIN cert.transactions :
        claim_key(cert.transactions[i]) = claim_key(cert.transactions[k]) => i = k

\* Faulty: every posting of an entry starts from the balance before it.
PostAllStale(balances, txs) ==
    FoldLeft(LAMBDA b, p : [b EXCEPT ![p.account] = balances[p.account] + p.delta],
             balances, PostingsOf(txs))

PostAll(balances, txs) == FoldLeft(Post, balances, txs)

\* What apply insists on; its SQL transaction makes it all or nothing.
Applies(st, n, cert) ==
    /\ verify_certificate(cert, current_set(st))
    /\ \A tx \in ToSet(cert.transactions) :
        verify_historical_evidence(tx) /\ ~has_claim(st, claim_key(tx))
    /\ ChangeSets(cert.transactions, current_set(st)).ok
    /\ n = head(st) + 1
    /\ \A k \in 0..Len(cert.transactions), a \in Account \ {COMMUNITY_ISSUANCE_ACCOUNT} :
        PostAll(st.balances, SubSeq(cert.transactions, 1, k))[a] >= 0

apply(st, n, cert) ==
    LET txs == cert.transactions
        next == ChangeSets(txs, current_set(st)).set
        claimed == [key \in {claim_key(tx) : tx \in ToSet(txs)} |-> n]
        changed == \E tx \in ToSet(txs) : tx.kind = "MembershipChange"
    IN  index_certificate(
            [st EXCEPT !.balances = PostAll(@, txs),
                       !.certificates = (n :> cert) @@ @,
                       !.claims = claimed @@ @,
                       !.validator_set = IF changed THEN (n :> next) @@ @ ELSE @],
            n, txs)

\* Faulty: claims settled before are not looked up.
SignsAgain(st, txs) ==
    /\ verify_certificate([transactions |-> txs, set |-> current_set(st)], current_set(st))
    /\ \A tx \in ToSet(txs) :
        validate_settlement_membership(tx, Rows(st.job_reservations),
                                       Rows(st.inference_reservations))
    /\ validate_batch(txs, st.balances, Rows(st.inference_reservations), current_set(st))

\* What a validator signs: nothing settled before, every settlement bound to
\* its reserve, and the batch valid in order.
Signs(st, txs) ==
    /\ verify_certificate([transactions |-> txs, set |-> current_set(st)], current_set(st))
    /\ \A tx \in ToSet(txs) :
        /\ ~has_claim(st, claim_key(tx))
        /\ validate_settlement_membership(tx, Rows(st.job_reservations),
                                          Rows(st.inference_reservations))
    /\ validate_batch(txs, st.balances, Rows(st.inference_reservations), current_set(st))

-----------------------------------------------------------------------------
\* Reading an account's history, newest posting first.

Newer(x, y) ==
    x.sequence > y.sequence \/ (x.sequence = y.sequence /\ x.posting_index > y.posting_index)

AccountRows(st, account) == {r \in st.account_activity : r.account = account}

\* Faulty: a page that cuts its only entry ends there.
history_cut(st, account, before, limit) ==
    LET below == SetToSortSeq({r \in AccountRows(st, account) : r.sequence < before}, Newer)
        first == SubSeq(below, 1, IF limit < Len(below) THEN limit ELSE Len(below))
    IN  [entries |-> first,
         next_before |-> IF Len(first) = limit /\ Last(first).sequence > 1
                         THEN Last(first).sequence ELSE 0]

\* A page stops between entries: it gives up the last entry it cut, or, when
\* it holds a single entry, takes the rest of it too.
history(st, account, before, limit) ==
    LET below == SetToSortSeq({r \in AccountRows(st, account) : r.sequence < before}, Newer)
        first == SubSeq(below, 1, IF limit < Len(below) THEN limit ELSE Len(below))
        more == Len(first) = limit
        page == IF ~more THEN first
                ELSE IF first[1].sequence = Last(first).sequence
                     THEN SelectSeq(below, LAMBDA r : r.sequence = first[1].sequence)
                     ELSE SelectSeq(first, LAMBDA r : r.sequence # Last(first).sequence)
        older == \E r \in AccountRows(st, account) : r.sequence < Last(page).sequence
    IN  [entries |-> page,
         next_before |-> IF more /\ page # <<>> /\ older THEN Last(page).sequence ELSE 0]

\* A reader follows next_before until it is told there is no more.
ReadHistory(st, account, limit) ==
    FoldLeft(LAMBDA acc, i :
                IF acc.before = 0 THEN acc
                ELSE LET page == history(st, account, acc.before, limit)
                     IN  [entries |-> acc.entries \o page.entries, before |-> page.next_before],
             [entries |-> <<>>, before |-> MaxHeight + 1],
             [i \in 1..(MaxHeight + 1) |-> i])

-----------------------------------------------------------------------------
\* Steps.

OpeningCert(i) == [transactions |-> Opening[i], set |-> GenesisSet]

Init ==
    /\ chain = [i \in DOMAIN Opening |-> OpeningCert(i)]
    /\ store = [s \in Seat |->
            IF s \in Newcomer THEN EmptyStore
            ELSE FoldLeft(LAMBDA st, i : apply(st, i, OpeningCert(i)), EmptyStore,
                          [i \in DOMAIN Opening |-> i])]
    /\ snapshot = Absent

\* propose: seats that hold the whole chain sign the next entry.
Certify(txs) ==
    \E s \in Seat :
        /\ Len(chain) < MaxHeight
        /\ head(store[s]) = Len(chain)
        /\ Signs(store[s], txs)
        /\ chain' = Append(chain, [transactions |-> txs, set |-> current_set(store[s])])
        /\ UNCHANGED <<store, snapshot>>

\* commit: the newest certificate arrives and is judged once more.
Commit(s) ==
    LET n == head(store[s]) + 1
        cert == chain[n]
    IN  /\ n = Len(chain)
        /\ \A tx \in ToSet(cert.transactions) :
            validate_settlement_membership(tx, Rows(store[s].job_reservations),
                                           Rows(store[s].inference_reservations))
        /\ validate_batch(cert.transactions, store[s].balances,
                          Rows(store[s].inference_reservations), current_set(store[s]))
        /\ Applies(store[s], n, cert)
        /\ store' = [store EXCEPT ![s] = apply(@, n, cert)]
        /\ UNCHANGED <<chain, snapshot>>

\* catch_up_to and sync: an entry another seat still holds is applied as is.
CatchUp(s) ==
    LET n == head(store[s]) + 1
    IN  /\ \E t \in Seat : n \in DOMAIN store[t].certificates
        /\ Applies(store[s], n, chain[n])
        /\ store' = [store EXCEPT ![s] = apply(@, n, chain[n])]
        /\ UNCHANGED <<chain, snapshot>>

\* ledger_state: what a seat signs about its own state.
ledger_state(st) == [sequence |-> head(st), state |-> state(st), set |-> current_set(st)]

\* store_checkpoint: a quorum's signed state is kept if this store agrees.
Checkpoint(s) ==
    \E t \in Seat :
        LET cp == ledger_state(store[t])
        IN  /\ cp.sequence > 0 /\ cp.sequence <= head(store[s])
            /\ cp.sequence \in CheckpointHeights
            /\ audit_from(store[s], cp.set, cp)
            /\ store' = [store EXCEPT ![s].checkpoint =
                            IF @ = Absent \/ @.sequence <= cp.sequence THEN cp ELSE @]
            /\ UNCHANGED <<chain, snapshot>>

\* prune_below_checkpoint: the checkpoint's own entry stays.
Prune(s) ==
    /\ store[s].checkpoint # Absent
    /\ audit_from(store[s], store[s].checkpoint.set, store[s].checkpoint)
    /\ store' = [store EXCEPT ![s].certificates =
                    RestrictDomain(@, LAMBDA n : n >= store[s].checkpoint.sequence)]
    /\ UNCHANGED <<chain, snapshot>>

\* A restart opens the database again.
Reopen(s) ==
    /\ store' = [store EXCEPT ![s] = rebuild_indexes(@)]
    /\ UNCHANGED <<chain, snapshot>>

\* One set must have signed both the entry and the checkpoint over it.
SnapshotVerifies(snap, set) ==
    /\ verify_certificate(snap.certificate, set)
    /\ snap.checkpoint.set = set
    /\ snap.state = snap.checkpoint.state

\* The operator's file names the set that is sitting at the checkpoint.
Snapshot(s) ==
    LET cp == store[s].checkpoint
        snap == [certificate |-> store[s].certificates[cp.sequence], checkpoint |-> cp,
                 state |-> rewind_to(store[s], cp.sequence)]
    IN  /\ cp # Absent
        /\ cp.sequence \in DOMAIN store[s].certificates
        /\ SnapshotVerifies(snap, cp.set)
        /\ snapshot' = snap
        /\ UNCHANGED <<chain, store>>

install_snapshot(snap, set) ==
    LET at == snap.checkpoint.sequence
    IN  [EmptyStore EXCEPT
            !.certificates = at :> snap.certificate,
            !.balances = snap.state.balances,
            !.claims = [key \in snap.state.claims |-> at],
            !.activity_baseline = snap.state.activity,
            !.job_reservations =
                [j \in DOMAIN snap.state.reservations |-> Row(at, snap.state.reservations[j])],
            !.inference_reservations =
                [j \in DOMAIN snap.state.inference |-> Row(at, snap.state.inference[j])],
            !.checkpoint = snap.checkpoint,
            !.bootstrap = set]

\* Restore: only into a database without a chain, and audited at once.
Restore(s) ==
    LET set == snapshot.checkpoint.set
        restored == install_snapshot(snapshot, set)
    IN  /\ snapshot # Absent
        /\ head(store[s]) = 0
        /\ SnapshotVerifies(snapshot, set)
        /\ audit_from(restored, set, snapshot.checkpoint)
        /\ store' = [store EXCEPT ![s] = restored]
        /\ UNCHANGED <<chain, snapshot>>

Next ==
    \/ \E txs \in Batches : Certify(txs)
    \/ \E s \in Seat :
        \/ Commit(s) \/ CatchUp(s) \/ Checkpoint(s) \/ Prune(s)
        \/ Reopen(s) \/ Snapshot(s) \/ Restore(s)

Spec == Init /\ [][Next]_vars

-----------------------------------------------------------------------------
\* Properties.

Certified == FlattenSeq([n \in DOMAIN chain |-> chain[n].transactions])

\* The chain replayed from genesis: the reference every store is held to.
Replayed == FoldLeft(Replay, EmptyState, Certified)

\* No sequence of certified entries mints or loses CU: in every database the
\* balances add up to nothing, only issuance is ever below zero, and it never
\* goes further down than its limit (validate_transaction, apply).
Conserved ==
    \A s \in Seat :
        LET b == store[s].balances
        IN  /\ Total(b) = 0
            /\ \A a \in Account \ {COMMUNITY_ISSUANCE_ACCOUNT} : b[a] >= 0
            /\ b[COMMUNITY_ISSUANCE_ACCOUNT] >= -community_issuance_limit_mcu

Price(led, j, i) ==
    IF j \in DOMAIN led.reservations THEN led.reservations[j].work[i]
    ELSE LET r == led.inference[j]
         IN  inference_batch_cost_mcu(r.billing, r.batches[i].start, r.batches[i].end)

Parts(led, j) ==
    IF j \in DOMAIN led.reservations THEN DOMAIN led.reservations[j].work
                                     ELSE DOMAIN led.inference[j].batches

\* Some transaction of one of these kinds settled part i of job j.
Settled(txs, kinds, j, i) ==
    \E tx \in txs : tx.kind \in kinds /\ tx.job = j /\ tx.part = i

LeavesEscrow == {"ProviderReward", "JobRefund", "InferenceReceipt", "InferenceRefund"}
LeavesHolding == {"InferenceReward", "InferenceDispute", "InferenceExpiry"}

\* A job's escrow is exactly the sum of what its unsettled shards or batches
\* cost, and a batch's holding account holds its price exactly while it has
\* been received and not yet paid out: whatever order rewards, receipts,
\* disputes, expiries and refunds are certified in, no part is left without
\* its CU and none is paid twice (claim_key, validate_batch).
EscrowCoversParts ==
    LET led == Replayed
        txs == ToSet(Certified)
    IN  /\ \A j \in DOMAIN led.reservations \cup DOMAIN led.inference :
            led.balances[escrow_account(j)] =
                Total([i \in Parts(led, j) |->
                          IF Settled(txs, LeavesEscrow, j, i) THEN 0 ELSE Price(led, j, i)])
        /\ \A j \in DOMAIN led.inference : \A i \in Parts(led, j) :
            led.balances[inference_holding_account(j, i)] =
                IF Settled(txs, {"InferenceReceipt"}, j, i) /\ ~Settled(txs, LeavesHolding, j, i)
                THEN Price(led, j, i) ELSE 0

\* Every certificate the quorum signed can be applied by every seat that has
\* reached its height: the chain never grows past a seat for good (propose
\* against apply).
CertifiedApplies ==
    \A s \in Seat :
        LET n == head(store[s]) + 1
        IN  n <= Len(chain) => Applies(store[s], n, chain[n])

\* Evidence that propose does not look at and apply does: the vouches of a
\* membership change, and a result under the certificate's own challenge.
JudgedLate(s, cert) ==
    \/ ~ChangeSets(cert.transactions, current_set(store[s])).ok
    \/ \E tx \in ToSet(cert.transactions) : ~verify_historical_evidence(tx)

\* Nothing but evidence judged late can stop a certified entry: no claim,
\* balance, reservation or set moved between signing and applying, on any
\* seat, however it was brought to that height (propose against apply).
OnlyLateEvidenceWedges ==
    \A s \in Seat :
        LET n == head(store[s]) + 1
        IN  n <= Len(chain) => Applies(store[s], n, chain[n]) \/ JudgedLate(s, chain[n])

\* A receipt stamped after the window of its job.
LateReceipt ==
    \E tx, reserve \in ToSet(Certified) :
        /\ tx.kind = "InferenceReceipt" /\ reserve.kind = "InferenceReserve"
        /\ tx.job = reserve.job
        /\ ~InWindow(tx, reservation_of(reserve))

\* The chain the validators signed passes the replay of every rule, and lands
\* on the state the database keeps: from genesis where the history is whole,
\* from the checkpoint where it was pruned or restored.  Receipts outside the
\* window are the exception the live rules let through (audit_from).
AuditAccepts ==
    LateReceipt \/ \A s \in Seat :
        IF store[s].checkpoint # Absent
        THEN audit_from(store[s], store[s].checkpoint.set, store[s].checkpoint)
        ELSE audit_from(store[s], GenesisSet, Absent)

\* Two seats at one height hold the same state, however they got there: by
\* commits, by catching up, or from a snapshot, pruned or reopened since
\* (install_snapshot, rebuild_indexes, prune_below_checkpoint).
SeatsAgree ==
    /\ \A s, t \in Seat :
        head(store[s]) = head(store[t]) =>
            /\ state(store[s]) = state(store[t])
            /\ current_set(store[s]) = current_set(store[t])
    /\ \A s \in Seat : rebuild_indexes(store[s]) = store[s]

\* Following the cursor from page to page reads every posting of an account
\* once, newest first, whatever the page size and wherever it cuts an entry
\* (history).
HistoryComplete ==
    \A s \in Seat, a \in Account, limit \in 1..3 :
        ReadHistory(store[s], a, limit).entries =
            SetToSortSeq(AccountRows(store[s], a), Newer)

=============================================================================
