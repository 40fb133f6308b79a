---------------------------- MODULE LedgerClient ----------------------------
(***************************************************************************)
(* The whole ledger client of crates/hocmesh-ledger/src/network.rs: how    *)
(* transact and settle turn the attempts of QuorumLedger into answers for  *)
(* the callers whose transactions shared a batch.                          *)
(*                                                                         *)
(* A round makes up to ROUND_ATTEMPTS attempts.  A batch of several that   *)
(* is rejected is put again one transaction at a time, and what fails for  *)
(* good is looked up by its claim before the caller is told no.  The       *)
(* validator set is fixed, so refresh_set never asks for another round.    *)
(***************************************************************************)
EXTENDS QuorumLedger

CONSTANT ROUND_ATTEMPTS  \* attempts one round makes (6 in the code)

ASSUME RoundAssumption == ROUND_ATTEMPTS \in Nat \ {0}

VARIABLES
    stage,    \* [Proposer -> where settle is]
    waiting,  \* [Proposer -> the transactions whose callers wait]
    batch,    \* [Proposer -> the transactions of the current round]
    tries,    \* [Proposer -> attempts the current round has deferred]
    adopted,  \* [Proposer -> is the proposal another client's batch?]
    turned,   \* [Proposer -> seats that refuse and have yet to say why]
    refusals, \* [Proposer -> the refusals that have come back]
    acked,    \* [Proposer -> seats that have said they stored the entry]
    error,    \* [Proposer -> why the last round failed]
    replies   \* [Proposer -> [Tx -> what its caller was told]]

answerVars == <<adopted, turned, refusals, acked>>
settleVars == <<stage, waiting, batch, tries, error, replies>>
clientVars == <<vars, answerVars, settleVars>>

\* A ProposalVote that refuses: where its seat's chain ends and which ballot
\* holds the height there.
Refusal == [from : Validator, head : 0..MaxHeight, held : Ballot \cup {NoBallot}]

ClientTypeOK ==
    /\ TypeOK
    /\ stage \in [Proposer -> {"idle", "round", "split", "resolve"}]
    /\ waiting \in [Proposer -> SUBSET Tx]
    /\ batch \in [Proposer -> SUBSET Tx]
    /\ tries \in [Proposer -> 0..ROUND_ATTEMPTS-1]
    /\ adopted \in [Proposer -> BOOLEAN]
    /\ turned \in [Proposer -> SUBSET Validator]
    /\ refusals \in [Proposer -> SUBSET Refusal]
    /\ acked \in [Proposer -> SUBSET Validator]
    /\ error \in [Proposer -> {"none", "refused", "gave up", "committed"}]
    /\ replies \in [Proposer -> [Tx -> {"none", "ok", "err"}]]

ClientInit ==
    /\ Init
    /\ stage = [p \in Proposer |-> "idle"]
    /\ waiting = [p \in Proposer |-> {}]
    /\ batch = [p \in Proposer |-> {}]
    /\ tries = [p \in Proposer |-> 0]
    /\ adopted = [p \in Proposer |-> FALSE]
    /\ turned = [p \in Proposer |-> {}]
    /\ refusals = [p \in Proposer |-> {}]
    /\ acked = [p \in Proposer |-> {}]
    /\ error = [p \in Proposer |-> "none"]
    /\ replies = [p \in Proposer |-> [t \in Tx |-> "none"]]

-----------------------------------------------------------------------------
\* What seats answer.

\* propose turns the proposal down and lets go of the lock.
Refuse(v, q) ==
    LET p == q.ballot.proposer
    IN  /\ Awaits(q.ballot, "propose")
        /\ ~WouldSign(v, q)
        /\ v \notin turned[p]
        /\ ~\E r \in refusals[p] : r.from = v
        /\ ~\E s \in votes : s.validator = v /\ s.ballot = q.ballot
        /\ turned' = [turned EXCEPT ![p] = @ \cup {v}]
        /\ UNCHANGED <<vars, adopted, refusals, acked, settleVars>>

\* It takes the lock again to say where its chain ends now.
ReportRefusal(v, p) ==
    /\ v \in turned[p]
    /\ turned' = [turned EXCEPT ![p] = @ \ {v}]
    /\ refusals' = [refusals EXCEPT ![p] = @ \cup
           {[from |-> v, head |-> Len(certificates[v]),
             held |-> promised[v][Len(base[p]) + 1]]}]
    /\ UNCHANGED <<vars, adopted, acked, settleVars>>

\* commit tells the client, if it still waits, that v has stored the entry.
Acknowledge(v, c) ==
    /\ acked' = IF Awaits(c.ballot, "commit")
                THEN [acked EXCEPT ![c.ballot.proposer] = @ \cup {v}]
                ELSE acked
    /\ UNCHANGED <<adopted, turned, refusals, settleVars>>

\* An entry the seat already ends with is acknowledged again; older ones are
\* "conflicting/stale".
CommitAgain(v, c) ==
    /\ certificates[v] = c.entry
    /\ Awaits(c.ballot, "commit")
    /\ v \notin acked[c.ballot.proposer]
    /\ Acknowledge(v, c)
    /\ UNCHANGED vars

-----------------------------------------------------------------------------
\* settle and round.

\* Faulty: a failed round ends without a word to its callers.
FailRoundSilent(p, why) ==
    /\ stage' = [stage EXCEPT ![p] = "idle"]
    /\ waiting' = [waiting EXCEPT ![p] = {}]
    /\ batch' = [batch EXCEPT ![p] = {}]
    /\ tries' = [tries EXCEPT ![p] = 0]
    /\ UNCHANGED <<error, replies>>

\* A round ends without settling: a rejected batch of several is tried one
\* transaction at a time, anything else is looked up by its claims.
FailRound(p, why) ==
    /\ error' = [error EXCEPT ![p] = why]
    /\ stage' = [stage EXCEPT ![p] =
           IF why # "committed" /\ Cardinality(batch[p]) > 1 THEN "split" ELSE "resolve"]
    /\ tries' = [tries EXCEPT ![p] = 0]
    /\ UNCHANGED <<waiting, batch, replies>>

\* An attempt that neither settled nor failed: try again, or give up.
Defer(p) ==
    \/ /\ tries[p] + 1 < ROUND_ATTEMPTS
       /\ tries' = [tries EXCEPT ![p] = @ + 1]
       /\ UNCHANGED <<stage, waiting, batch, error, replies>>
    \/ /\ tries[p] + 1 = ROUND_ATTEMPTS
       /\ FailRound(p, "gave up")

\* The answers to an attempt that is over go nowhere.
ForgetAnswers(p) ==
    /\ adopted' = [adopted EXCEPT ![p] = FALSE]
    /\ turned' = [turned EXCEPT ![p] = {}]
    /\ refusals' = [refusals EXCEPT ![p] = {}]
    /\ acked' = [acked EXCEPT ![p] = {}]

\* Tell the callers of txs, and go on with what settle has left to do.
Answer(p, txs, word) ==
    LET left == waiting[p] \ txs
    IN  /\ replies' = [replies EXCEPT ![p] =
               [t \in Tx |-> IF t \in txs THEN word ELSE @[t]]]
        /\ waiting' = [waiting EXCEPT ![p] = left]
        /\ stage' = [stage EXCEPT ![p] =
               IF left \cap batch[p] # {} THEN "resolve"
               ELSE IF left # {} THEN "split" ELSE "idle"]
        /\ batch' = [batch EXCEPT ![p] = IF left = {} THEN {} ELSE @]
        /\ error' = [error EXCEPT ![p] = IF left = {} THEN "none" ELSE @]
        /\ tries' = [tries EXCEPT ![p] = 0]

\* transact: the caller that gets the gate drains the queue into one batch.
Transact(p, txs) ==
    /\ stage[p] = "idle"
    /\ \A t \in txs : replies[p][t] = "none"
    /\ stage' = [stage EXCEPT ![p] = "round"]
    /\ batch' = [batch EXCEPT ![p] = txs]
    /\ waiting' = [waiting EXCEPT ![p] = txs]
    /\ UNCHANGED <<vars, answerVars, tries, error, replies>>

\* settle, after a rejected batch of several: a round for each alone.
SplitRound(p, t) ==
    /\ stage[p] = "split"
    /\ t \in waiting[p]
    /\ stage' = [stage EXCEPT ![p] = "round"]
    /\ batch' = [batch EXCEPT ![p] = {t}]
    /\ error' = [error EXCEPT ![p] = "none"]
    /\ UNCHANGED <<vars, answerVars, waiting, tries, replies>>

\* attempt, no quorum-agreed head was read: nothing was proposed.
DeferUnread(p) ==
    /\ stage[p] = "round"
    /\ phase[p] = "idle"
    /\ Defer(p)
    /\ UNCHANGED <<vars, answerVars>>

\* attempt, the prepare requests go out.
BeginAttempt(p, head) ==
    /\ stage[p] = "round"
    /\ StartAttempt(p, head)
    /\ UNCHANGED <<answerVars, settleVars>>

\* Faulty: an adopted batch is taken for our own.
TakeHeightUnmarked(p, a, n) ==
    /\ ClaimHeight(p, a, batch[p], n)
    /\ UNCHANGED <<answerVars, settleVars>>

\* attempt, the height is taken: propose our batch, or the one handed back.
TakeHeight(p, a, n) ==
    /\ ClaimHeight(p, a, batch[p], n)
    /\ adopted' = [adopted EXCEPT ![p] = a # NoProposal]
    /\ UNCHANGED <<turned, refusals, acked, settleVars>>

\* claim_height without a threshold of promises.
DeferUnpromised(p, n) ==
    /\ phase[p] = "prepare"
    /\ LoseHeight(p, n)
    /\ Defer(p)
    /\ ForgetAnswers(p)

\* attempt, the height lost mid-round to a newer ballot.
DeferOutbid(p, r) ==
    /\ phase[p] = "propose"
    /\ outranks(r.held, ballot[p])
    /\ LoseHeight(p, r.held.number)
    /\ Defer(p)
    /\ ForgetAnswers(p)

\* attempt, short of signatures but not refused: the height was filled, or too
\* few seats answered or were judging this batch, as lost answers may cause.
DeferShort(p) ==
    /\ phase[p] = "propose"
    /\ LoseHeight(p, 0)
    /\ Defer(p)
    /\ ForgetAnswers(p)

\* judged_our_batch: the refusals from seats on the head the entry builds on.
Judging(p) ==
    {r.from : r \in {x \in refusals[p] :
        x.head = Len(base[p]) /\ ~outranks(x.held, ballot[p])}}

\* attempt, refused: a threshold of seats judged the batch, and those among
\* them whose signature came back are too few.
Reject(p) ==
    /\ phase[p] = "propose"
    /\ Judging(p) # {}
    /\ Signers(p) \cup Judging(p) \in Quorum
    /\ LoseHeight(p, 0)
    /\ FailRound(p, "refused")
    /\ ForgetAnswers(p)

\* attempt, certified: push the certificate.
PushCertificate(p) ==
    /\ Certify(p)
    /\ turned' = [turned EXCEPT ![p] = {}]
    /\ refusals' = [refusals EXCEPT ![p] = {}]
    /\ UNCHANGED <<adopted, acked, settleVars>>

\* attempt, too few seats are heard to have stored the certificate.
CommitShort(p) ==
    /\ EndCommit(p)
    /\ FailRound(p, "committed")
    /\ ForgetAnswers(p)

\* attempt, enough are: our callers are told so, but an adopted batch was
\* somebody else's and ours goes to the next height.
Settle(p) ==
    /\ acked[p] \in Quorum
    /\ EndCommit(p)
    /\ IF adopted[p] THEN Defer(p) ELSE Answer(p, batch[p], "ok")
    /\ ForgetAnswers(p)

\* Faulty: whoever spent the claim, it is spent.
ResolveClaimAny(p, t, v) ==
    /\ stage[p] = "resolve"
    /\ t \in waiting[p] \cap batch[p]
    /\ claim_key[t] \in claims(certificates[v])
    /\ Answer(p, {t}, "ok")
    /\ UNCHANGED <<vars, answerVars>>

\* settled_certificate: claim_quorum found an entry under t's claim, and only
\* t itself in it is good news.
ResolveClaim(p, t, v) ==
    /\ stage[p] = "resolve"
    /\ t \in waiting[p] \cap batch[p]
    /\ \E i \in 1..Len(certificates[v]) :
           /\ \E u \in certificates[v][i] : claim_key[u] = claim_key[t]
           /\ Answer(p, {t}, IF t \in certificates[v][i] THEN "ok" ELSE "err")
    /\ UNCHANGED <<vars, answerVars>>

\* settled_certificate: no seat answers with a certificate for t's claim.
ResolveUnknown(p, t) ==
    /\ stage[p] = "resolve"
    /\ t \in waiting[p] \cap batch[p]
    /\ Answer(p, {t}, "err")
    /\ UNCHANGED <<vars, answerVars>>

\* Faulty: promises collected by the dropped round are there for the next.
CancelKeepsPromises(p) ==
    /\ stage[p] # "idle"
    /\ phase' = [phase EXCEPT ![p] = "idle"]
    /\ ballot' = [ballot EXCEPT ![p] = NoBallot]
    /\ base' = [base EXCEPT ![p] = <<>>]
    /\ ForgetAnswers(p)
    /\ Answer(p, waiting[p], "err")
    /\ UNCHANGED <<seatVars, wireVars, number, promises>>

\* The caller that leads goes away: its future is dropped wherever it waits,
\* and every caller of the batch is told the batch was dropped.
Cancel(p) ==
    /\ stage[p] # "idle"
    /\ EndAttempt(p)
    /\ ForgetAnswers(p)
    /\ Answer(p, waiting[p], "err")
    /\ UNCHANGED <<seatVars, wireVars, number>>

-----------------------------------------------------------------------------

SeatAnswers ==
    \E v \in Validator :
        \/ SeatStepOf(v) /\ UNCHANGED <<answerVars, settleVars>>
        \/ \E c \in commits : Commit(v, c) /\ Acknowledge(v, c)
        \/ \E c \in commits : CommitAgain(v, c)
        \/ \E q \in proposals : Refuse(v, q)
        \/ \E p \in Proposer : ReportRefusal(v, p)

AttemptMade(p) ==
    \/ phase[p] = "idle" /\ \E head \in head_quorum : BeginAttempt(p, head)
    \/ \E m \in promises[p], n \in HeldNumbers(p) : TakeHeight(p, m.accepted, n)
    \/ phase[p] = "prepare" /\ \E n \in HeldNumbers(p) : DeferUnpromised(p, n)
    \/ \E r \in refusals[p] : DeferOutbid(p, r)
    \/ DeferShort(p)
    \/ Reject(p)
    \/ PushCertificate(p)
    \/ CommitShort(p)
    \/ Settle(p)

ClientStep(p) ==
    \/ \E txs \in Batches(p) : Transact(p, txs)
    \/ \E t \in waiting[p] : SplitRound(p, t)
    \/ DeferUnread(p)
    \/ AttemptMade(p)
    \/ \E t \in waiting[p], v \in Validator : ResolveClaim(p, t, v)
    \/ \E t \in waiting[p] : ResolveUnknown(p, t)
    \/ Cancel(p)

ClientNext == SeatAnswers \/ \E p \in Proposer : ClientStep(p)

ClientSpec == ClientInit /\ [][ClientNext]_clientVars

\* A client that runs is scheduled, and no wait of its lasts: every request
\* times out (VALIDATOR_REQUEST_TIMEOUT).  Nothing is assumed of the seats.
FairClientSpec == ClientSpec /\ \A p \in Proposer : WF_clientVars(ClientStep(p))

-----------------------------------------------------------------------------
\* Properties.

\* A caller told "ok" finds its transaction in certified history, whether its
\* own client certified it, another client finished it, or settle found it by
\* its claim after the round had failed.
OkMeansCertified ==
    \A p \in Proposer, t \in Tx : replies[p][t] = "ok" =>
        \E e \in Certified : \E i \in 1..Len(e) : t \in e[i]

\* One winner per claim: of the transactions that settle one claim, a reward
\* and its refund say, the callers of at most one are ever told "ok", in
\* whatever order their clients' rounds fail, finish each other or are looked
\* up again (settled_certificate's "that coordinator must still be told no").
OneWinnerPerClaim ==
    \A p, q \in Proposer : \A t, u \in Tx :
        (replies[p][t] = "ok" /\ replies[q][u] = "ok" /\ claim_key[t] = claim_key[u])
            => t = u

\* The clients drive the seats in no way QuorumLedger does not allow, so what
\* is proved of QuorumLedger holds of them.
ImplementsQuorumLedger == Spec

\* Every caller is answered: whatever seats refuse, hang or lose, a round stops
\* after ROUND_ATTEMPTS attempts, a rejected batch is split only once, and each
\* of its transactions is told an outcome.
EveryCallerAnswered ==
    \A p \in Proposer, t \in Tx : t \in waiting[p] ~> replies[p][t] # "none"

\* What RoundError::Rejected says of itself: no certificate formed, and every
\* transaction of the batch is still unspent.
RejectedMeansUnspent ==
    \A p \in Proposer : error[p] \in {"refused", "gave up"} =>
        \A e \in Certified : \A i \in 1..Len(e) : e[i] \cap batch[p] \cap waiting[p] = {}

\* What attempt says of a refusal: a batch nobody refused is deferred, so a
\* rejected batch does not fit on some head a threshold of seats agrees on.
RejectedMeansRefused ==
    \A p \in Proposer : error[p] = "refused" =>
        \E h \in head_quorum : ~claims_fresh(h, batch[p])

=============================================================================
