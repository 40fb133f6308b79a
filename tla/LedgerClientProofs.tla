------------------------- MODULE LedgerClientProofs -------------------------
(***************************************************************************)
(* Proofs, for every validator set, number of clients, batch size and      *)
(* number of attempts, of what LedgerClient promises: it drives the seats  *)
(* as QuorumLedger allows, and a caller is told "ok" of nothing that is    *)
(* not certified.                                                          *)
(***************************************************************************)
EXTENDS LedgerClient, QuorumLedgerProofs

-----------------------------------------------------------------------------
\* The inductive invariant.

\* Every ballot at work was announced by a prepare for its height.
PreparedInv ==
    /\ \A p \in Proposer : phase[p] # "idle" =>
           [sequence |-> Len(base[p]) + 1, ballot |-> ballot[p]] \in prepares
    /\ \A q \in proposals : [sequence |-> q.sequence, ballot |-> q.ballot] \in prepares
    /\ \A v \in Validator, h \in Height :
           \/ promised[v][h] = NoBallot
           \/ [sequence |-> h, ballot |-> promised[v][h]] \in prepares

\* An attempt belongs to a round of a batch, and ends with it.
RoundInv ==
    \A p \in Proposer :
        /\ phase[p] = "idle" => ballot[p] = NoBallot /\ base[p] = <<>> /\ promises[p] = {}
        /\ phase[p] # "idle" => stage[p] = "round"
        /\ stage[p] # "idle" => batch[p] \in Batches(p)
        /\ waiting[p] \subseteq Wants[p]

\* A refusal answers the proposal of the attempt.
RefusalInv ==
    \A p \in Proposer :
        /\ turned[p] # {} => phase[p] = "propose"
        /\ \A r \in refusals[p] : phase[p] = "propose" /\ r.held.number \in HeldNumbers(p)

\* What an attempt proposes is the batch of its round, unless it was adopted,
\* and what it pushes is certified.
OwnInv ==
    \A p \in Proposer :
        /\ phase[p] \in {"propose", "commit"} =>
               \E q \in proposals :
                   /\ q.ballot = ballot[p]
                   /\ adopted[p] \/ q.transactions = batch[p]
                   /\ phase[p] = "commit" => Append(base[p], q.transactions) \in Certified

\* The types that the proofs use.
SettleTypes ==
    /\ stage \in [Proposer -> {"idle", "round", "split", "resolve"}]
    /\ waiting \in [Proposer -> SUBSET Tx]
    /\ batch \in [Proposer -> SUBSET Tx]
    /\ replies \in [Proposer -> [Tx -> {"none", "ok", "err"}]]

AnswerTypes ==
    /\ adopted \in [Proposer -> BOOLEAN]
    /\ turned \in [Proposer -> SUBSET Validator]
    /\ DOMAIN refusals = Proposer

ClientInv ==
    /\ Inv
    /\ SettleTypes
    /\ AnswerTypes
    /\ PreparedInv
    /\ RoundInv
    /\ RefusalInv
    /\ OwnInv
    /\ OkMeansCertified

-----------------------------------------------------------------------------
\* The client stays within the protocol.

\* Told of no ballot, outbid leaves the counter alone.
LEMMA OutbidByNone ==
    ASSUME TypeOK, NEW p \in Proposer
    PROVE  [number EXCEPT ![p] = Max({@, 0})] = number
<1>1. number \in [Proposer -> Nat] /\ number[p] \in Nat
  BY DEF TypeOK
<1>2. Max({number[p], 0}) = number[p]
  <2>1. \E x \in {number[p], 0} : \A y \in {number[p], 0} : x >= y
    BY <1>1
  <2>2. Max({number[p], 0}) \in {number[p], 0} /\ Max({number[p], 0}) >= number[p]
    BY <2>1 DEF Max
  <2> QED
    BY <1>1, <2>2
<1> QED
  BY <1>1, <1>2

\* Every step of transact, settle and round is a step of an attempt that
\* QuorumLedger allows, or none: in particular a dropped caller ends its attempt
\* like one that has lost its height.
LEMMA ClientMap ==
    ASSUME TypeOK, RoundInv, RefusalInv, ClientNext
    PROVE  [Next]_vars
<1>1. CASE SeatAnswers
  <2>1. PICK v \in Validator :
            \/ SeatStepOf(v) /\ UNCHANGED <<answerVars, settleVars>>
            \/ \E c \in commits : Commit(v, c) /\ Acknowledge(v, c)
            \/ \E c \in commits : CommitAgain(v, c)
            \/ \E q \in proposals : Refuse(v, q)
            \/ \E p \in Proposer : ReportRefusal(v, p)
    BY <1>1 DEF SeatAnswers
  <2>2. CASE SeatStepOf(v)
    BY <2>2 DEF Next, SeatStep
  <2>3. CASE \E c \in commits : Commit(v, c)
    BY <2>3 DEF Next, SeatStep
  <2>4. CASE \/ \E c \in commits : CommitAgain(v, c)
             \/ \E q \in proposals : Refuse(v, q)
             \/ \E p \in Proposer : ReportRefusal(v, p)
    BY <2>4 DEF CommitAgain, Refuse, ReportRefusal
  <2> QED
    BY <2>1, <2>2, <2>3, <2>4
<1>2. ASSUME NEW p \in Proposer, ClientStep(p)
      PROVE  [Next]_vars
  <2>0. /\ phase[p] # "idle" => stage[p] = "round"
        /\ stage[p] # "idle" => batch[p] \in Batches(p)
        /\ phase[p] \in {"idle", "prepare", "propose", "commit"}
    BY DEF RoundInv, TypeOK
  <2>1. CASE \/ \E txs \in Batches(p) : Transact(p, txs)
             \/ \E t \in waiting[p] : SplitRound(p, t)
             \/ DeferUnread(p)
             \/ \E t \in waiting[p], v \in Validator : ResolveClaim(p, t, v)
             \/ \E t \in waiting[p] : ResolveUnknown(p, t)
    BY <2>1 DEF Transact, SplitRound, DeferUnread, ResolveClaim, ResolveUnknown
  <2>2. CASE phase[p] = "idle" /\ \E head \in head_quorum : BeginAttempt(p, head)
    BY <2>2 DEF BeginAttempt, Next, AttemptStep
  <2>3. CASE \E m \in promises[p], n \in HeldNumbers(p) : TakeHeight(p, m.accepted, n)
    <3>1. PICK m \in promises[p], n \in HeldNumbers(p) :
              ClaimHeight(p, m.accepted, batch[p], n)
      BY <2>3 DEF TakeHeight
    <3>2. batch[p] \in Batches(p)
      BY <2>0, <3>1 DEF ClaimHeight
    <3> QED
      BY <3>1, <3>2 DEF Next, AttemptStep
  <2>4. ASSUME NEW n \in HeldNumbers(p), LoseHeight(p, n)
        PROVE  [Next]_vars
    <3>1. phase[p] # "idle"
      BY <2>4 DEF LoseHeight
    <3> QED
      BY <2>4, <3>1 DEF Next, AttemptStep
  <2>5. CASE \E n \in HeldNumbers(p) : DeferUnpromised(p, n)
    BY <2>4, <2>5 DEF DeferUnpromised
  <2>6. CASE \E r \in refusals[p] : DeferOutbid(p, r)
    <3>1. PICK r \in refusals[p] : LoseHeight(p, r.held.number)
      BY <2>6 DEF DeferOutbid
    <3>2. r.held.number \in HeldNumbers(p)
      BY DEF RefusalInv
    <3> QED
      BY <2>4, <3>1, <3>2
  <2>7. CASE DeferShort(p) \/ Reject(p)
    <3>1. LoseHeight(p, 0)
      BY <2>7 DEF DeferShort, Reject
    <3>2. 0 \in HeldNumbers(p)
      BY DEF HeldNumbers
    <3> QED
      BY <2>4, <3>1, <3>2
  <2>8. CASE PushCertificate(p) \/ CommitShort(p) \/ Settle(p)
    BY <2>8 DEF PushCertificate, CommitShort, Settle, Next, AttemptStep
  <2>9. CASE Cancel(p)
    <3>1. CASE phase[p] = "idle"
      <4>1. /\ ballot[p] = NoBallot /\ base[p] = <<>> /\ promises[p] = {}
            /\ phase \in [Proposer -> {"idle", "prepare", "propose", "commit"}]
            /\ ballot \in [Proposer -> Ballot \cup {NoBallot}]
            /\ base \in [Proposer -> History]
            /\ promises \in [Proposer -> SUBSET Promise]
        BY <3>1 DEF RoundInv, TypeOK
      <4>2. /\ phase' = phase /\ ballot' = ballot
            /\ base' = base /\ promises' = promises
        BY <2>9, <3>1, <4>1 DEF Cancel, EndAttempt
      <4> QED
        BY <2>9, <4>2 DEF Cancel, vars, attemptVars
    <3>2. CASE phase[p] \in {"prepare", "propose"}
      <4>1. LoseHeight(p, 0)
        BY <2>9, <3>2, OutbidByNone DEF Cancel, LoseHeight
      <4>2. 0 \in HeldNumbers(p)
        BY DEF HeldNumbers
      <4> QED
        BY <2>4, <4>1, <4>2
    <3>3. CASE phase[p] = "commit"
      <4>1. EndCommit(p)
        BY <2>9, <3>3 DEF Cancel, EndCommit
      <4> QED
        BY <4>1 DEF Next, AttemptStep
    <3> QED
      BY <2>0, <3>1, <3>2, <3>3
  <2> QED
    BY <1>2, <2>1, <2>2, <2>3, <2>5, <2>6, <2>7, <2>8, <2>9 DEF ClientStep, AttemptMade
<1> QED
  BY <1>1, <1>2 DEF ClientNext

-----------------------------------------------------------------------------
\* Ballots and refusals.

\* Seats take heights, and clients propose, under announced ballots only.
LEMMA PreparedStep ==
    ASSUME TypeOK, BallotInv, PreparedInv, Next
    PROVE  PreparedInv'
<1> USE DEF PreparedInv
<1>0. /\ promised \in [Validator -> [Height -> Ballot \cup {NoBallot}]]
      /\ prepares \subseteq PrepareRequest
      /\ phase \in [Proposer -> {"idle", "prepare", "propose", "commit"}]
      /\ ballot \in [Proposer -> Ballot \cup {NoBallot}]
      /\ base \in [Proposer -> History]
      /\ proposals \subseteq ProposalRequest
  BY DEF TypeOK
<1>1. ASSUME NEW v \in Validator, NEW r \in prepares, Prepare(v, r)
      PROVE  PreparedInv'
  <2>1. /\ r.sequence \in Height
        /\ r = [sequence |-> r.sequence, ballot |-> r.ballot]
    BY <1>0 DEF PrepareRequest
  <2>2. /\ promised' = [promised EXCEPT ![v][r.sequence] = r.ballot]
        /\ UNCHANGED <<prepares, proposals, phase, ballot, base>>
    BY <1>1 DEF Prepare, wireVars
  <2>3. ASSUME NEW u \in Validator, NEW h \in Height
        PROVE  promised'[u][h] = IF u = v /\ h = r.sequence THEN r.ballot
                                 ELSE promised[u][h]
    BY <1>0, <2>1, <2>2
  <2> QED
    BY <2>1, <2>2, <2>3
<1>2. ASSUME NEW v \in Validator, NEW q \in proposals, Propose(v, q)
      PROVE  PreparedInv'
  <2>1. q.sequence \in Height
    BY <1>0 DEF ProposalRequest
  <2>2. /\ promised' = [promised EXCEPT ![v][q.sequence] = q.ballot]
        /\ UNCHANGED <<prepares, proposals, phase, ballot, base>>
    BY <1>2 DEF Propose, wireVars, attemptVars
  <2>3. ASSUME NEW u \in Validator, NEW h \in Height
        PROVE  promised'[u][h] = IF u = v /\ h = q.sequence THEN q.ballot
                                 ELSE promised[u][h]
    BY <1>0, <2>1, <2>2
  <2> QED
    BY <2>1, <2>2, <2>3
<1>3. ASSUME NEW v \in Validator, NEW e, Apply(v, e),
             UNCHANGED <<prepares, proposals, phase, ballot, base>>
      PROVE  PreparedInv'
  <2>1. ASSUME NEW u \in Validator, NEW h \in Height
        PROVE  promised'[u][h] = NoBallot \/ promised'[u][h] = promised[u][h]
    BY <1>0, <1>3 DEF Apply
  <2> QED
    BY <1>3, <2>1
<1>4. ASSUME NEW p \in Proposer, NEW head, StartAttempt(p, head)
      PROVE  PreparedInv'
  <2> DEFINE b == [number |-> number[p] + 1, proposer |-> p]
  <2>1. /\ prepares' = prepares \cup {[sequence |-> Len(head) + 1, ballot |-> b]}
        /\ phase' = [phase EXCEPT ![p] = "prepare"]
        /\ ballot' = [ballot EXCEPT ![p] = b]
        /\ base' = [base EXCEPT ![p] = head]
        /\ UNCHANGED <<promised, proposals>>
    BY <1>4 DEF StartAttempt, seatVars
  <2> HIDE DEF b
  <2>2. ASSUME NEW q \in Proposer, phase'[q] # "idle"
        PROVE  [sequence |-> Len(base'[q]) + 1, ballot |-> ballot'[q]] \in prepares'
    <3>1. CASE q = p
      BY <1>0, <2>1, <3>1
    <3>2. CASE q # p
      BY <1>0, <2>1, <2>2, <3>2
    <3> QED
      BY <3>1, <3>2
  <2> QED
    BY <2>1, <2>2
<1>5. ASSUME NEW p \in Proposer, NEW a, NEW own, NEW n, ClaimHeight(p, a, own, n)
      PROVE  PreparedInv'
  <2>1. /\ phase[p] = "prepare"
        /\ phase' = [phase EXCEPT ![p] = "propose"]
        /\ UNCHANGED <<promised, prepares, ballot, base>>
    BY <1>5 DEF ClaimHeight, seatVars
  <2>2. PICK txs : proposals' = proposals \cup
            {[sequence |-> Len(base[p]) + 1, ballot |-> ballot[p], transactions |-> txs]}
    BY <1>5 DEF ClaimHeight
  <2>3. ASSUME NEW q \in Proposer, phase'[q] # "idle"
        PROVE  phase[q] # "idle"
    BY <1>0, <2>1, <2>3
  <2>4. ASSUME NEW q \in proposals'
        PROVE  [sequence |-> q.sequence, ballot |-> q.ballot] \in prepares
    <3>1. CASE q \in proposals
      BY <3>1
    <3>2. CASE q \notin proposals
      <4>1. q.sequence = Len(base[p]) + 1 /\ q.ballot = ballot[p]
        BY <2>2, <3>2
      <4> QED
        BY <2>1, <4>1
    <3> QED
      BY <3>1, <3>2
  <2> QED
    BY <2>1, <2>3, <2>4
<1>6. ASSUME NEW p \in Proposer, EndAttempt(p), UNCHANGED <<promised, prepares, proposals>>
      PROVE  PreparedInv'
  <2>1. ASSUME NEW q \in Proposer, phase'[q] # "idle"
        PROVE  phase[q] # "idle" /\ ballot'[q] = ballot[q] /\ base'[q] = base[q]
    BY <1>0, <1>6, <2>1 DEF EndAttempt
  <2> QED
    BY <1>6, <2>1
<1>7. ASSUME NEW p \in Proposer, Certify(p)
      PROVE  PreparedInv'
  <2>1. /\ phase[p] = "propose"
        /\ phase' = [phase EXCEPT ![p] = "commit"]
        /\ UNCHANGED <<promised, prepares, proposals, ballot, base>>
    BY <1>7 DEF Certify, seatVars
  <2>2. ASSUME NEW q \in Proposer, phase'[q] # "idle"
        PROVE  phase[q] # "idle"
    BY <1>0, <2>1, <2>2
  <2> QED
    BY <2>1, <2>2
<1>8. CASE SeatStep
  <2>1. PICK v \in Validator : SeatStepOf(v) \/ \E c \in commits : Commit(v, c)
    BY <1>8 DEF SeatStep
  <2>2. CASE \E c \in commits : Commit(v, c)
    BY <1>3, <2>2 DEF Commit, wireVars, attemptVars
  <2>3. CASE \E u \in Validator, n \in Height : CatchUpTo(v, u, n)
    BY <1>3, <2>3 DEF CatchUpTo, wireVars, attemptVars
  <2> QED
    BY <1>1, <1>2, <2>1, <2>2, <2>3 DEF SeatStepOf
<1>9. CASE AttemptStep
  <2>1. ASSUME NEW p \in Proposer, NEW n, LoseHeight(p, n) \/ EndCommit(p)
        PROVE  PreparedInv'
    BY <1>6, <2>1 DEF LoseHeight, EndCommit, seatVars, wireVars
  <2> QED
    BY <1>4, <1>5, <1>7, <1>9, <2>1 DEF AttemptStep
<1> QED
  BY <1>8, <1>9 DEF Next

-----------------------------------------------------------------------------
\* What one client does leaves the others alone.

SettleElsewhere(p) == \A q \in Proposer : q # p =>
    /\ stage'[q] = stage[q] /\ waiting'[q] = waiting[q]
    /\ batch'[q] = batch[q] /\ replies'[q] = replies[q]

AnswersElsewhere(p) == \A q \in Proposer : q # p =>
    adopted'[q] = adopted[q] /\ turned'[q] = turned[q] /\ refusals'[q] = refusals[q]

AttemptElsewhere(p) == \A q \in Proposer : q # p =>
    /\ phase'[q] = phase[q] /\ ballot'[q] = ballot[q]
    /\ base'[q] = base[q] /\ promises'[q] = promises[q]

\* A round that goes on, fails, or has answers for callers.
Moves(p) ==
    \/ Defer(p)
    \/ \E why : FailRound(p, why)
    \/ \E txs : \E word \in {"ok", "err"} : Answer(p, txs, word)

\* settle forgets a batch only when it has answered all its callers.
LEMMA MovesDo ==
    ASSUME SettleTypes, NEW p \in Proposer, Moves(p), stage[p] # "idle"
    PROVE  /\ SettleTypes'
           /\ SettleElsewhere(p)
           /\ waiting'[p] \subseteq waiting[p]
           /\ stage'[p] # "idle" => batch'[p] = batch[p]
<1>1. ASSUME NEW why, FailRound(p, why)
      PROVE  /\ stage' \in [Proposer -> {"idle", "round", "split", "resolve"}]
             /\ \A q \in Proposer : q # p => stage'[q] = stage[q]
             /\ UNCHANGED <<waiting, batch, replies>>
  BY <1>1 DEF FailRound, SettleTypes
<1>2. CASE \E why : FailRound(p, why)
  BY <1>1, <1>2 DEF SettleTypes, SettleElsewhere
<1>3. CASE Defer(p)
  <2>1. CASE UNCHANGED <<stage, waiting, batch, replies>>
    BY <2>1 DEF SettleTypes, SettleElsewhere
  <2>2. CASE FailRound(p, "gave up")
    BY <1>2, <2>2
  <2> QED
    BY <1>3, <2>1, <2>2 DEF Defer
<1>4. ASSUME NEW txs, NEW word \in {"ok", "err"}, Answer(p, txs, word)
      PROVE  /\ SettleTypes'
             /\ SettleElsewhere(p)
             /\ waiting'[p] \subseteq waiting[p]
             /\ stage'[p] # "idle" => batch'[p] = batch[p]
  <2> DEFINE left == waiting[p] \ txs
             next == IF left \cap batch[p] # {} THEN "resolve"
                     ELSE IF left # {} THEN "split" ELSE "idle"
             kept == IF left = {} THEN {} ELSE batch[p]
             told == [t \in Tx |-> IF t \in txs THEN word ELSE replies[p][t]]
  <2>1. /\ replies' = [replies EXCEPT ![p] = told]
        /\ waiting' = [waiting EXCEPT ![p] = left]
        /\ stage' = [stage EXCEPT ![p] = next]
        /\ batch' = [batch EXCEPT ![p] = kept]
    BY <1>4 DEF Answer, SettleTypes
  <2>2. /\ left \in SUBSET Tx /\ kept \in SUBSET Tx
        /\ next \in {"idle", "round", "split", "resolve"}
        /\ told \in [Tx -> {"none", "ok", "err"}]
    BY DEF SettleTypes
  <2>3. next # "idle" => kept = batch[p]
    OBVIOUS
  <2>4. left \subseteq waiting[p]
    OBVIOUS
  <2> HIDE DEF left, next, kept, told
  <2> QED
    BY <2>1, <2>2, <2>3, <2>4 DEF SettleTypes, SettleElsewhere
<1> QED
  BY <1>2, <1>3, <1>4 DEF Moves

\* An attempt that ends, ends for its client only.
LEMMA EndsAlone ==
    ASSUME TypeOK, NEW p \in Proposer, EndAttempt(p)
    PROVE  /\ AttemptElsewhere(p)
           /\ phase'[p] = "idle" /\ ballot'[p] = NoBallot
           /\ base'[p] = <<>> /\ promises'[p] = {}
BY DEF TypeOK, EndAttempt, AttemptElsewhere

\* The answers to it are forgotten, and those to other clients are not.
LEMMA ForgetsAlone ==
    ASSUME AnswerTypes, NEW p \in Proposer, ForgetAnswers(p)
    PROVE  /\ AnswersElsewhere(p)
           /\ turned'[p] = {} /\ refusals'[p] = {}
           /\ adopted' \in [Proposer -> BOOLEAN]
           /\ turned' \in [Proposer -> SUBSET Validator]
           /\ DOMAIN refusals' = Proposer
BY DEF AnswerTypes, ForgetAnswers, AnswersElsewhere

\* The steps of a client, by what they touch: it begins a round, goes on
\* between attempts, goes on with an attempt, or ends one.
LEMMA ClientCases ==
    ASSUME RoundInv, NEW p \in Proposer, ClientStep(p)
    PROVE  \/ \E txs \in Batches(p) : Transact(p, txs)
           \/ \E t \in waiting[p] : SplitRound(p, t)
           \/ /\ phase[p] = "idle" /\ stage[p] # "idle"
              /\ UNCHANGED <<vars, answerVars>> /\ Moves(p)
           \/ \E head : BeginAttempt(p, head)
           \/ \E a, n : TakeHeight(p, a, n)
           \/ PushCertificate(p)
           \/ /\ stage[p] # "idle" /\ EndAttempt(p) /\ ForgetAnswers(p)
              /\ UNCHANGED <<seatVars, wireVars>> /\ Moves(p)
<1>0. /\ phase[p] # "idle" => stage[p] = "round"
      /\ stage[p] = "resolve" => phase[p] = "idle"
  BY DEF RoundInv
<1>1. CASE DeferUnread(p)
  BY <1>1 DEF DeferUnread, Moves
<1>2. ASSUME NEW t, NEW v, ResolveClaim(p, t, v) PROVE Moves(p) /\ stage[p] = "resolve"
  <2>1. stage[p] = "resolve"
    BY <1>2 DEF ResolveClaim
  <2>2. PICK i : Answer(p, {t}, IF t \in certificates[v][i] THEN "ok" ELSE "err")
    BY <1>2 DEF ResolveClaim
  <2>3. (IF t \in certificates[v][i] THEN "ok" ELSE "err") \in {"ok", "err"}
    OBVIOUS
  <2> QED
    BY Zenon, <2>1, <2>2, <2>3 DEF Moves
<1>3. ASSUME NEW t, ResolveUnknown(p, t) PROVE Moves(p) /\ stage[p] = "resolve"
  BY Zenon, <1>3 DEF ResolveUnknown, Moves
<1>4. CASE \/ \E t \in waiting[p], v \in Validator : ResolveClaim(p, t, v)
           \/ \E t \in waiting[p] : ResolveUnknown(p, t)
  <2>1. UNCHANGED <<vars, answerVars>>
    BY Zenon, <1>4 DEF ResolveClaim, ResolveUnknown
  <2>2. Moves(p) /\ stage[p] = "resolve"
    BY Zenon, <1>2, <1>3, <1>4
  <2> QED
    BY <1>0, <2>1, <2>2
<1>5. CASE Cancel(p)
  BY Zenon, <1>5 DEF Cancel, Moves
<1>6. ASSUME NEW n, LoseHeight(p, n)
      PROVE  stage[p] # "idle" /\ EndAttempt(p) /\ UNCHANGED <<seatVars, wireVars>>
  <2>1. phase[p] # "idle" /\ EndAttempt(p) /\ UNCHANGED <<seatVars, wireVars>>
    BY <1>6 DEF LoseHeight
  <2> QED
    BY <1>0, <2>1
<1>7. ASSUME EndCommit(p)
      PROVE  stage[p] # "idle" /\ EndAttempt(p) /\ UNCHANGED <<seatVars, wireVars>>
  <2>1. phase[p] # "idle" /\ EndAttempt(p) /\ UNCHANGED <<seatVars, wireVars>>
    BY <1>7 DEF EndCommit
  <2> QED
    BY <1>0, <2>1
<1>8. CASE \/ \E n \in HeldNumbers(p) : DeferUnpromised(p, n)
           \/ \E r \in refusals[p] : DeferOutbid(p, r)
           \/ DeferShort(p)
           \/ Reject(p)
  BY Zenon, <1>6, <1>8 DEF DeferUnpromised, DeferOutbid, DeferShort, Reject, Moves
<1>9. CASE CommitShort(p) \/ Settle(p)
  BY Zenon, <1>7, <1>9 DEF CommitShort, Settle, Moves
<1> QED
  BY Zenon, <1>1, <1>4, <1>5, <1>8, <1>9 DEF ClientStep, AttemptMade

-----------------------------------------------------------------------------
\* Rounds.

\* Seats move no round, and answer only attempts that wait for them.
LEMMA SeatsLeaveRounds ==
    ASSUME TypeOK, AnswerTypes, SeatAnswers
    PROVE  /\ UNCHANGED <<settleVars, proposals, commits, phase, ballot, base, prepares, adopted>>
           /\ \A p \in Proposer : phase[p] # "prepare" => promises'[p] = promises[p]
<1>1. PICK v \in Validator :
          \/ SeatStepOf(v) /\ UNCHANGED <<answerVars, settleVars>>
          \/ \E c \in commits : Commit(v, c) /\ Acknowledge(v, c)
          \/ \E c \in commits : CommitAgain(v, c)
          \/ \E q \in proposals : Refuse(v, q)
          \/ \E p \in Proposer : ReportRefusal(v, p)
  BY DEF SeatAnswers
<1>2. UNCHANGED settleVars /\ adopted' = adopted
  BY Zenon, <1>1 DEF Acknowledge, CommitAgain, Refuse, ReportRefusal, answerVars
<1>3. \/ SeatStepOf(v) \/ \E c \in commits : Commit(v, c)
      \/ UNCHANGED vars
  BY Zenon, <1>1 DEF CommitAgain, Refuse, ReportRefusal
<1>4. CASE UNCHANGED vars
  BY <1>2, <1>4 DEF vars, seatVars, wireVars, attemptVars
<1>5. ASSUME NEW r \in prepares, Prepare(v, r)
      PROVE  \A p \in Proposer : phase[p] # "prepare" => promises'[p] = promises[p]
  BY <1>5 DEF Prepare, Awaits, TypeOK
<1>6. CASE \E r \in prepares : Prepare(v, r)
  <2>1. UNCHANGED <<proposals, commits, phase, ballot, base, prepares>>
    BY <1>6 DEF Prepare, wireVars
  <2> QED
    BY <1>2, <1>5, <1>6, <2>1
<1>7. CASE \/ \E q \in proposals : Propose(v, q)
           \/ \E u \in Validator, n \in Height : CatchUpTo(v, u, n)
           \/ \E c \in commits : Commit(v, c)
  BY <1>2, <1>7 DEF Propose, CatchUpTo, Commit, wireVars, attemptVars
<1> QED
  BY <1>3, <1>4, <1>6, <1>7 DEF SeatStepOf

\* What a round begins with is a batch the client may have drained.
LEMMA OneIsABatch ==
    ASSUME NEW p \in Proposer, NEW t \in Wants[p]
    PROVE  {t} \in Batches(p)
<1>1. Cardinality({t}) = 1
  BY FS_Singleton
<1>2. MAX_BATCH \in Nat /\ MAX_BATCH >= 1
  BY ClientAssumption
<1> QED
  BY <1>1, <1>2 DEF Batches

\* A client has an attempt only while it is in a round, and a batch that it was
\* asked for until it has answered.
LEMMA RoundStep ==
    ASSUME TypeOK, SettleTypes, AnswerTypes, RoundInv, BallotInv, ClientNext
    PROVE  RoundInv' /\ SettleTypes'
<1>0. /\ phase \in [Proposer -> {"idle", "prepare", "propose", "commit"}]
      /\ ballot \in [Proposer -> Ballot \cup {NoBallot}]
      /\ base \in [Proposer -> History]
      /\ promises \in [Proposer -> SUBSET Promise]
  BY DEF TypeOK
<1>1. CASE SeatAnswers
  <2>1. /\ UNCHANGED <<stage, waiting, batch, replies, phase, ballot, base>>
        /\ \A p \in Proposer : phase[p] # "prepare" => promises'[p] = promises[p]
    BY <1>1, SeatsLeaveRounds DEF settleVars
  <2>2. SettleTypes'
    BY <2>1 DEF SettleTypes
  <2>3. RoundInv'
    BY <2>1 DEF RoundInv, Batches
  <2> QED
    BY <2>2, <2>3
<1>2. ASSUME NEW p \in Proposer, ClientStep(p)
      PROVE  RoundInv' /\ SettleTypes'
  <2> DEFINE Whole(q) ==
        /\ phase[q] = "idle" => ballot[q] = NoBallot /\ base[q] = <<>> /\ promises[q] = {}
        /\ phase[q] # "idle" => stage[q] = "round"
        /\ stage[q] # "idle" => batch[q] \in Batches(q)
        /\ waiting[q] \subseteq Wants[q]
  <2>0. \A q \in Proposer : Whole(q)
    BY DEF RoundInv
  <2>1. ASSUME SettleElsewhere(p), AttemptElsewhere(p), Whole(p)'
        PROVE  RoundInv'
    <3>1. ASSUME NEW q \in Proposer, q # p PROVE Whole(q)'
      BY <2>0, <2>1, <3>1 DEF SettleElsewhere, AttemptElsewhere, Batches
    <3>2. \A q \in Proposer : Whole(q)'
      BY <2>1, <3>1
    <3> QED
      BY <3>2 DEF RoundInv
  <2>2. ASSUME UNCHANGED <<phase, ballot, base, promises>> PROVE AttemptElsewhere(p)
    BY <2>2 DEF AttemptElsewhere
  <2>3. ASSUME NEW txs \in Batches(p), stage[p] # "round", waiting'[p] \in SUBSET Wants[p],
               UNCHANGED <<phase, ballot, base, promises, replies>>,
               stage' = [stage EXCEPT ![p] = "round"],
               batch' = [batch EXCEPT ![p] = txs],
               waiting' = [waiting EXCEPT ![p] = waiting'[p]]
        PROVE  RoundInv' /\ SettleTypes'
    <3>1. txs \in SUBSET Tx /\ waiting'[p] \in SUBSET Tx
      BY <2>3, ClientAssumption DEF Batches
    <3>2. SettleTypes' /\ SettleElsewhere(p)
      BY <2>3, <3>1 DEF SettleTypes, SettleElsewhere
    <3>3. Whole(p)'
      BY <2>0, <2>3 DEF SettleTypes, Batches
    <3> QED
      BY <2>1, <2>2, <2>3, <3>2, <3>3
  <2>4. CASE \E txs \in Batches(p) : Transact(p, txs)
    <3>1. PICK txs \in Batches(p) : Transact(p, txs)
      BY <2>4
    <3>2. /\ stage[p] = "idle"
          /\ UNCHANGED <<phase, ballot, base, promises, replies>>
          /\ stage' = [stage EXCEPT ![p] = "round"]
          /\ batch' = [batch EXCEPT ![p] = txs]
          /\ waiting' = [waiting EXCEPT ![p] = txs]
      BY <3>1 DEF Transact, vars, attemptVars
    <3>3. waiting'[p] = txs /\ txs \in SUBSET Wants[p]
      BY <3>2 DEF SettleTypes, Batches
    <3> QED
      BY <2>3, <3>2, <3>3
  <2>5. CASE \E t \in waiting[p] : SplitRound(p, t)
    <3>1. PICK t \in waiting[p] : SplitRound(p, t)
      BY <2>5
    <3>2. /\ stage[p] = "split"
          /\ UNCHANGED <<phase, ballot, base, promises, replies, waiting>>
          /\ stage' = [stage EXCEPT ![p] = "round"]
          /\ batch' = [batch EXCEPT ![p] = {t}]
      BY <3>1 DEF SplitRound, vars, attemptVars
    <3>3. /\ waiting'[p] \in SUBSET Wants[p]
          /\ waiting' = [waiting EXCEPT ![p] = waiting'[p]]
      BY <2>0, <3>2 DEF SettleTypes
    <3>4. {t} \in Batches(p)
      BY <2>0, <3>1, OneIsABatch
    <3> QED
      BY <2>3, <3>2, <3>3, <3>4
  <2>6. CASE phase[p] = "idle" /\ stage[p] # "idle" /\ UNCHANGED vars /\ Moves(p)
    <3>1. /\ SettleTypes' /\ SettleElsewhere(p)
          /\ waiting'[p] \subseteq waiting[p]
          /\ stage'[p] # "idle" => batch'[p] = batch[p]
      BY <2>6, MovesDo
    <3>2. UNCHANGED <<phase, ballot, base, promises>>
      BY <2>6 DEF vars, attemptVars
    <3>3. Whole(p)'
      BY <2>0, <2>6, <3>1, <3>2 DEF Batches
    <3> QED
      BY <2>1, <2>2, <3>1, <3>2, <3>3
  <2>7. ASSUME UNCHANGED settleVars, AttemptElsewhere(p), phase'[p] # "idle", stage[p] = "round"
        PROVE  RoundInv' /\ SettleTypes'
    <3>1. UNCHANGED <<stage, waiting, batch, replies>>
      BY <2>7 DEF settleVars
    <3>2. SettleTypes' /\ SettleElsewhere(p)
      BY <3>1 DEF SettleTypes, SettleElsewhere
    <3>3. Whole(p)'
      BY <2>0, <2>7, <3>1 DEF Batches
    <3> QED
      BY <2>1, <2>7, <3>2, <3>3
  <2>8. CASE \E head : BeginAttempt(p, head)
    <3>1. PICK head : BeginAttempt(p, head)
      BY <2>8
    <3>2. stage[p] = "round" /\ UNCHANGED settleVars /\ StartAttempt(p, head)
      BY <3>1 DEF BeginAttempt
    <3>3. AttemptElsewhere(p) /\ phase'[p] # "idle"
      BY <1>0, <3>2 DEF StartAttempt, AttemptElsewhere
    <3> QED
      BY <2>7, <3>2, <3>3
  <2>9. CASE (\E a, n : TakeHeight(p, a, n)) \/ PushCertificate(p)
    <3>1. (\E a, n : ClaimHeight(p, a, batch[p], n)) \/ Certify(p)
      BY <2>9 DEF TakeHeight, PushCertificate
    <3>2. UNCHANGED settleVars
      BY <2>9 DEF TakeHeight, PushCertificate
    <3>3. AttemptElsewhere(p) /\ phase'[p] # "idle" /\ phase[p] # "idle"
      BY <1>0, <3>1 DEF ClaimHeight, Certify, AttemptElsewhere
    <3> QED
      BY <2>0, <2>7, <3>2, <3>3
  <2>10. CASE stage[p] # "idle" /\ EndAttempt(p) /\ Moves(p)
    <3>1. /\ SettleTypes' /\ SettleElsewhere(p)
          /\ waiting'[p] \subseteq waiting[p]
          /\ stage'[p] # "idle" => batch'[p] = batch[p]
      BY <2>10, MovesDo
    <3>2. /\ AttemptElsewhere(p)
          /\ phase'[p] = "idle" /\ ballot'[p] = NoBallot
          /\ base'[p] = <<>> /\ promises'[p] = {}
      BY <2>10, EndsAlone
    <3>3. Whole(p)'
      BY <2>0, <2>10, <3>1, <3>2 DEF Batches
    <3> QED
      BY <2>1, <3>1, <3>2, <3>3
  <2> QED
    BY <1>2, <2>4, <2>5, <2>6, <2>8, <2>9, <2>10, ClientCases
<1> QED
  BY <1>1, <1>2 DEF ClientNext

-----------------------------------------------------------------------------
\* Refusals.

\* The ballot a refusal reports was announced for the height, or is none.
LEMMA HeldIsAnnounced ==
    ASSUME TypeOK, BallotInv, PreparedInv, NEW p \in Proposer, NEW v \in Validator,
           phase[p] # "idle"
    PROVE  promised[v][Len(base[p]) + 1].number \in HeldNumbers(p)
<1> DEFINE h == Len(base[p]) + 1
<1>1. h \in Height
  BY DEF BallotInv
<1>2. CASE promised[v][h] = NoBallot
  BY <1>2 DEF HeldNumbers, NoBallot
<1>3. CASE [sequence |-> h, ballot |-> promised[v][h]] \in prepares
  <2>1. PICK r \in prepares : r.sequence = h /\ r.ballot = promised[v][h]
    BY <1>3
  <2>2. r.ballot.number \in HeldNumbers(p)
    BY <2>1 DEF HeldNumbers
  <2> QED
    BY <2>1, <2>2
<1> QED
  BY <1>1, <1>2, <1>3 DEF PreparedInv

\* Every refusal kept answers the proposal of the attempt under way, and the
\* ballot it reports was announced: outbid climbs no higher than that.
LEMMA RefusalStep ==
    ASSUME TypeOK, BallotInv, PreparedInv, AnswerTypes, RoundInv, RefusalInv, ClientNext
    PROVE  RefusalInv' /\ AnswerTypes'
<1>0. /\ phase \in [Proposer -> {"idle", "prepare", "propose", "commit"}]
      /\ ballot \in [Proposer -> Ballot \cup {NoBallot}]
      /\ base \in [Proposer -> History]
      /\ promises \in [Proposer -> SUBSET Promise]
  BY DEF TypeOK
<1> DEFINE Fits(p) ==
        /\ turned[p] # {} => phase[p] = "propose"
        /\ \A r \in refusals[p] : phase[p] = "propose" /\ r.held.number \in HeldNumbers(p)
<1>1. \A p \in Proposer : Fits(p)
  BY DEF RefusalInv
<1>2. ASSUME \A p \in Proposer : Fits(p)' PROVE RefusalInv'
  BY <1>2 DEF RefusalInv
<1>3. ASSUME NEW p \in Proposer, prepares \subseteq prepares', phase'[p] = phase[p],
             base'[p] = base[p], turned'[p] = turned[p], refusals'[p] = refusals[p]
      PROVE  Fits(p)'
  <2>1. HeldNumbers(p) \subseteq HeldNumbers(p)'
    BY <1>3 DEF HeldNumbers
  <2> QED
    BY <1>1, <1>3, <2>1
<1>4. ASSUME NEW p \in Proposer, turned'[p] = {}, refusals'[p] = {}
      PROVE  Fits(p)'
  BY <1>4
<1> HIDE DEF Fits
<1>5. ASSUME prepares \subseteq prepares', UNCHANGED <<phase, base, adopted, turned, refusals>>
      PROVE  RefusalInv' /\ AnswerTypes'
  <2>1. AnswerTypes'
    BY <1>5 DEF AnswerTypes
  <2> QED
    BY <1>2, <1>3, <1>5, <2>1
<1>6. CASE SeatAnswers
  <2>1. UNCHANGED <<phase, base, prepares, adopted>>
    BY <1>6, SeatsLeaveRounds
  <2>2. CASE UNCHANGED <<turned, refusals>>
    BY <1>5, <2>1, <2>2
  <2>3. ASSUME NEW v \in Validator, NEW q \in proposals, Refuse(v, q)
        PROVE  RefusalInv' /\ AnswerTypes'
    <3> DEFINE p == q.ballot.proposer
    <3>1. p \in Proposer
      BY DEF TypeOK, ProposalRequest, Ballot
    <3>2. /\ phase[p] = "propose"
          /\ turned' = [turned EXCEPT ![p] = @ \cup {v}]
          /\ refusals' = refusals
      BY <2>3 DEF Refuse, Awaits
    <3> HIDE DEF p
    <3>3. \A x \in Proposer : x # p => turned'[x] = turned[x]
      BY <3>1, <3>2 DEF AnswerTypes
    <3>4. AnswerTypes'
      BY <2>1, <3>1, <3>2 DEF AnswerTypes
    <3>5. Fits(p)'
      <4>1. \A r \in refusals[p] : r.held.number \in HeldNumbers(p)
        BY <1>1, <3>1 DEF Fits
      <4>2. HeldNumbers(p)' = HeldNumbers(p)
        BY <2>1 DEF HeldNumbers
      <4> QED
        BY <2>1, <3>2, <4>1, <4>2 DEF Fits
    <3>6. ASSUME NEW x \in Proposer PROVE Fits(x)'
      BY <1>3, <2>1, <3>2, <3>3, <3>5
    <3> QED
      BY <1>2, <3>4, <3>6
  <2>4. ASSUME NEW v \in Validator, NEW p \in Proposer, ReportRefusal(v, p)
        PROVE  RefusalInv' /\ AnswerTypes'
    <3> DEFINE told == [from |-> v, head |-> Len(certificates[v]),
                        held |-> promised[v][Len(base[p]) + 1]]
    <3>1. /\ v \in turned[p]
          /\ turned' = [turned EXCEPT ![p] = @ \ {v}]
          /\ refusals' = [refusals EXCEPT ![p] = @ \cup {told}]
      BY <2>4 DEF ReportRefusal
    <3>2. phase[p] = "propose"
      BY <1>1, <3>1 DEF Fits
    <3>3. told.held.number \in HeldNumbers(p)
      BY <3>2, HeldIsAnnounced
    <3> HIDE DEF told
    <3>4. AnswerTypes'
      BY <2>1, <3>1 DEF AnswerTypes
    <3>5. HeldNumbers(p)' = HeldNumbers(p)
      BY <2>1 DEF HeldNumbers
    <3>6. Fits(p)'
      <4>1. refusals'[p] = refusals[p] \cup {told}
        BY <3>1 DEF AnswerTypes
      <4> QED
        BY <1>1, <2>1, <3>2, <3>3, <3>5, <4>1 DEF Fits
    <3>7. \A x \in Proposer : x # p => turned'[x] = turned[x] /\ refusals'[x] = refusals[x]
      BY <3>1 DEF AnswerTypes
    <3>8. ASSUME NEW x \in Proposer PROVE Fits(x)'
      BY <1>3, <2>1, <3>6, <3>7
    <3> QED
      BY <1>2, <3>4, <3>8
  <2>5. \/ UNCHANGED <<turned, refusals>>
        \/ \E v \in Validator, q \in proposals : Refuse(v, q)
        \/ \E v \in Validator, p \in Proposer : ReportRefusal(v, p)
    BY <1>6 DEF SeatAnswers, answerVars, Acknowledge, CommitAgain
  <2> QED
    BY <2>2, <2>3, <2>4, <2>5
<1>7. ASSUME NEW p \in Proposer, ClientStep(p)
      PROVE  RefusalInv' /\ AnswerTypes'
  <2>1. ASSUME AnswerTypes', prepares \subseteq prepares', AttemptElsewhere(p),
               AnswersElsewhere(p), turned'[p] = {}, refusals'[p] = {}
        PROVE  RefusalInv' /\ AnswerTypes'
    <3>1. ASSUME NEW q \in Proposer PROVE Fits(q)'
      BY <1>3, <1>4, <2>1 DEF AttemptElsewhere, AnswersElsewhere
    <3> QED
      BY <1>2, <2>1, <3>1
  <2>2. ASSUME phase[p] # "propose"
        PROVE  turned[p] = {} /\ refusals[p] = {}
    BY <1>1, <2>2 DEF Fits
  <2>3. CASE \/ \E txs \in Batches(p) : Transact(p, txs)
             \/ \E t \in waiting[p] : SplitRound(p, t)
             \/ UNCHANGED <<vars, answerVars>>
    <3>1. UNCHANGED <<prepares, phase, base, adopted, turned, refusals>>
      BY <2>3 DEF Transact, SplitRound, vars, wireVars, attemptVars, answerVars
    <3> QED
      BY <1>5, <3>1
  <2>4. CASE \E head : BeginAttempt(p, head)
    <3>1. PICK head : StartAttempt(p, head) /\ UNCHANGED <<adopted, turned, refusals>>
      BY <2>4 DEF BeginAttempt, answerVars
    <3>2. AttemptElsewhere(p) /\ prepares \subseteq prepares' /\ phase[p] = "idle"
      BY <1>0, <3>1 DEF StartAttempt, AttemptElsewhere
    <3>3. AnswerTypes' /\ AnswersElsewhere(p)
      BY <3>1 DEF AnswerTypes, AnswersElsewhere
    <3> QED
      BY <2>1, <2>2, <3>1, <3>2, <3>3
  <2>5. CASE \E a, n : TakeHeight(p, a, n)
    <3>1. PICK a, n : TakeHeight(p, a, n)
      BY <2>5
    <3>2. /\ ClaimHeight(p, a, batch[p], n)
          /\ adopted' = [adopted EXCEPT ![p] = a # NoProposal]
          /\ UNCHANGED <<turned, refusals>>
      BY <3>1 DEF TakeHeight
    <3>3. AttemptElsewhere(p) /\ prepares' = prepares /\ phase[p] = "prepare"
      BY <1>0, <3>2 DEF ClaimHeight, AttemptElsewhere
    <3>4. AnswerTypes' /\ AnswersElsewhere(p)
      BY <3>2 DEF AnswerTypes, AnswersElsewhere
    <3> QED
      BY <2>1, <2>2, <3>2, <3>3, <3>4
  <2>6. CASE PushCertificate(p)
    <3>1. /\ Certify(p)
          /\ turned' = [turned EXCEPT ![p] = {}]
          /\ refusals' = [refusals EXCEPT ![p] = {}]
          /\ adopted' = adopted
      BY <2>6 DEF PushCertificate
    <3>2. AttemptElsewhere(p) /\ prepares' = prepares
      BY <1>0, <3>1 DEF Certify, AttemptElsewhere
    <3>3. AnswerTypes' /\ AnswersElsewhere(p) /\ turned'[p] = {} /\ refusals'[p] = {}
      BY <3>1 DEF AnswerTypes, AnswersElsewhere
    <3> QED
      BY <2>1, <3>2, <3>3
  <2>7. CASE EndAttempt(p) /\ ForgetAnswers(p) /\ UNCHANGED <<seatVars, wireVars>>
    <3>1. AttemptElsewhere(p) /\ prepares' = prepares
      BY <2>7, EndsAlone DEF wireVars
    <3>2. AnswersElsewhere(p) /\ turned'[p] = {} /\ refusals'[p] = {} /\ AnswerTypes'
      BY <2>7, ForgetsAlone DEF AnswerTypes
    <3> QED
      BY <2>1, <3>1, <3>2
  <2> QED
    BY <1>7, <2>3, <2>4, <2>5, <2>6, <2>7, ClientCases
<1> QED
  BY <1>6, <1>7 DEF ClientNext

-----------------------------------------------------------------------------
\* What a client proposes, and what it tells its callers.

\* Proposals and certified entries stay.
LEMMA NothingTakenBack ==
    ASSUME TypeOK, [Next]_vars
    PROVE  proposals \subseteq proposals' /\ Certified \subseteq Certified'
<1>1. CASE Next
  BY <1>1, Forward DEF Certified
<1>2. CASE UNCHANGED vars
  BY <1>2 DEF vars, wireVars, Certified
<1> QED
  BY <1>1, <1>2

\* An attempt that is neither idle nor preparing has a proposal out, which is
\* its round's batch unless it took over another client's.
LEMMA OwnStep ==
    ASSUME TypeOK, BallotInv, SettleTypes, AnswerTypes, RoundInv, OwnInv, ClientNext,
           [Next]_vars
    PROVE  OwnInv'
<1>0. /\ phase \in [Proposer -> {"idle", "prepare", "propose", "commit"}]
      /\ ballot \in [Proposer -> Ballot \cup {NoBallot}]
      /\ base \in [Proposer -> History]
      /\ proposals \subseteq proposals' /\ Certified \subseteq Certified'
  BY NothingTakenBack DEF TypeOK
<1> DEFINE Owns(p) ==
        phase[p] \in {"propose", "commit"} =>
            \E q \in proposals :
                /\ q.ballot = ballot[p]
                /\ adopted[p] \/ q.transactions = batch[p]
                /\ phase[p] = "commit" => Append(base[p], q.transactions) \in Certified
<1>1. \A p \in Proposer : Owns(p)
  BY DEF OwnInv
<1>2. ASSUME \A p \in Proposer : Owns(p)' PROVE OwnInv'
  BY <1>2 DEF OwnInv
<1>3. ASSUME NEW p \in Proposer, phase'[p] = phase[p], ballot'[p] = ballot[p],
             base'[p] = base[p], batch'[p] = batch[p], adopted'[p] = adopted[p]
      PROVE  Owns(p)'
  BY <1>0, <1>1, <1>3
<1>4. ASSUME NEW p \in Proposer, phase'[p] \in {"idle", "prepare"} PROVE Owns(p)'
  BY <1>4
<1> HIDE DEF Owns
<1>5. CASE SeatAnswers
  <2>1. UNCHANGED <<phase, ballot, base, batch, adopted>>
    BY <1>5, SeatsLeaveRounds DEF settleVars
  <2> QED
    BY <1>2, <1>3, <2>1
<1>6. ASSUME NEW p \in Proposer, ClientStep(p)
      PROVE  OwnInv'
  <2>1. ASSUME AttemptElsewhere(p), AnswersElsewhere(p), SettleElsewhere(p), Owns(p)'
        PROVE  OwnInv'
    <3>1. ASSUME NEW q \in Proposer PROVE Owns(q)'
      BY <1>3, <2>1 DEF AttemptElsewhere, AnswersElsewhere, SettleElsewhere
    <3> QED
      BY <1>2, <3>1
  <2>2. phase[p] # "idle" => stage[p] = "round"
    BY DEF RoundInv
  <2>3. CASE \/ \E txs \in Batches(p) : Transact(p, txs)
             \/ \E t \in waiting[p] : SplitRound(p, t)
             \/ /\ phase[p] = "idle" /\ stage[p] # "idle"
                /\ UNCHANGED <<vars, answerVars>> /\ Moves(p)
    <3>1. UNCHANGED <<phase, ballot, base, promises, adopted, turned, refusals>>
      BY <2>3 DEF Transact, SplitRound, vars, attemptVars, answerVars
    <3>2. phase[p] = "idle"
      BY <2>2, <2>3 DEF Transact, SplitRound
    <3>3. SettleElsewhere(p)
      <4>1. CASE \/ \E txs \in Batches(p) : Transact(p, txs)
                 \/ \E t \in waiting[p] : SplitRound(p, t)
        BY <4>1 DEF Transact, SplitRound, SettleTypes, SettleElsewhere
      <4>2. CASE stage[p] # "idle" /\ Moves(p)
        BY <4>2, MovesDo
      <4> QED
        BY <2>3, <4>1, <4>2
    <3> QED
      BY <1>4, <2>1, <3>1, <3>2, <3>3 DEF AttemptElsewhere, AnswersElsewhere
  <2>4. CASE \E head : BeginAttempt(p, head)
    <3>1. PICK head : StartAttempt(p, head) /\ UNCHANGED <<answerVars, settleVars>>
      BY <2>4 DEF BeginAttempt
    <3>2. AttemptElsewhere(p) /\ phase'[p] = "prepare"
      BY <1>0, <3>1 DEF StartAttempt, AttemptElsewhere
    <3>3. AnswersElsewhere(p) /\ SettleElsewhere(p)
      BY <3>1 DEF AnswersElsewhere, SettleElsewhere, answerVars, settleVars
    <3> QED
      BY <1>4, <2>1, <3>2, <3>3
  <2>5. CASE \E a, n : TakeHeight(p, a, n)
    <3>1. PICK a, n : TakeHeight(p, a, n)
      BY <2>5
    <3>2. /\ ClaimHeight(p, a, batch[p], n)
          /\ adopted' = [adopted EXCEPT ![p] = a # NoProposal]
          /\ UNCHANGED <<turned, refusals, stage, waiting, batch, replies>>
      BY <3>1 DEF TakeHeight, settleVars
    <3>3. AttemptElsewhere(p) /\ phase'[p] = "propose" /\ ballot'[p] = ballot[p]
      <4>1. /\ phase' = [phase EXCEPT ![p] = "propose"]
            /\ promises' = [promises EXCEPT ![p] = {}]
            /\ ballot' = ballot /\ base' = base
        BY <3>2 DEF ClaimHeight
      <4> QED
        BY <1>0, <4>1 DEF AttemptElsewhere
    <3>4. /\ AnswersElsewhere(p) /\ SettleElsewhere(p)
          /\ adopted'[p] = (a # NoProposal) /\ batch'[p] = batch[p]
      BY <3>2 DEF AnswerTypes, AnswersElsewhere, SettleElsewhere
    <3> DEFINE mine == [sequence |-> Len(base[p]) + 1, ballot |-> ballot[p],
                        transactions |-> IF a = NoProposal THEN batch[p] ELSE a.transactions]
    <3>5. mine \in proposals'
      BY <3>2 DEF ClaimHeight
    <3>6. mine.ballot = ballot[p] /\ (a # NoProposal \/ mine.transactions = batch[p])
      OBVIOUS
    <3> HIDE DEF mine
    <3>7. Owns(p)'
      <4>1. adopted'[p] \/ mine.transactions = batch'[p]
        BY Zenon, <3>4, <3>6
      <4>2. phase'[p] # "commit" /\ mine.ballot = ballot'[p]
        BY <3>3, <3>6
      <4> QED
        BY Zenon, <3>5, <4>1, <4>2 DEF Owns
    <3> QED
      BY <2>1, <3>3, <3>4, <3>7
  <2>6. CASE PushCertificate(p)
    <3>1. /\ Certify(p)
          /\ turned' = [turned EXCEPT ![p] = {}]
          /\ refusals' = [refusals EXCEPT ![p] = {}]
          /\ adopted' = adopted
          /\ UNCHANGED <<stage, waiting, batch, replies>>
      BY <2>6 DEF PushCertificate, settleVars
    <3>2. /\ AttemptElsewhere(p) /\ phase[p] = "propose"
          /\ UNCHANGED <<ballot, base>>
      BY <1>0, <3>1 DEF Certify, AttemptElsewhere
    <3>3. AnswersElsewhere(p) /\ SettleElsewhere(p)
      BY <3>1 DEF AnswerTypes, AnswersElsewhere, SettleElsewhere
    <3>4. PICK q \in proposals : /\ q.ballot = ballot[p]
                                 /\ adopted[p] \/ q.transactions = batch[p]
      BY <1>1, <3>2 DEF Owns
    <3>5. Mine(p) = q
      <4>1. Mine(p) \in proposals /\ Mine(p).ballot = ballot[p]
        BY <3>2, MineType
      <4>2. \A r1, r2 \in proposals : r1.ballot = r2.ballot => r1 = r2
        BY DEF BallotInv
      <4> QED
        BY <3>4, <4>1, <4>2
    <3>6. Append(base[p], q.transactions) \in Certified'
      <4>1. Expected(p) = Append(base[p], q.transactions)
        BY <3>5 DEF Expected, build_entry
      <4>2. Certified' = Certified \cup {Expected(p)}
        BY <3>1, CertifyAdds
      <4> QED
        BY Zenon, <4>1, <4>2
    <3>7. Owns(p)'
      BY <1>0, <3>1, <3>2, <3>4, <3>6 DEF Owns
    <3> QED
      BY <2>1, <3>2, <3>3, <3>7
  <2>7. CASE stage[p] # "idle" /\ EndAttempt(p) /\ ForgetAnswers(p) /\ Moves(p)
    <3>1. AttemptElsewhere(p) /\ phase'[p] = "idle"
      BY <2>7, EndsAlone
    <3>2. AnswersElsewhere(p) /\ SettleElsewhere(p)
      BY <2>7, ForgetsAlone, MovesDo
    <3> QED
      BY <1>4, <2>1, <3>1, <3>2
  <2> QED
    BY <1>6, <2>3, <2>4, <2>5, <2>6, <2>7, ClientCases
<1> QED
  BY <1>5, <1>6 DEF ClientNext

\* A caller is newly told "ok" only when its own batch is acknowledged or when a
\* seat shows the entry its transaction is in.
LEMMA WhoIsTold ==
    ASSUME SettleTypes, NEW p \in Proposer, ClientStep(p),
           NEW q \in Proposer, NEW t \in Tx, replies'[q][t] = "ok"
    PROVE  \/ replies[q][t] = "ok"
           \/ Settle(p) /\ ~adopted[p] /\ t \in batch[p]
           \/ \E v \in Validator : \E i \in 1..Len(certificates[v]) : t \in certificates[v][i]
<1>0. replies \in [Proposer -> [Tx -> {"none", "ok", "err"}]]
  BY DEF SettleTypes
<1>1. ASSUME NEW txs, NEW word, Answer(p, txs, word)
      PROVE  replies[q][t] = "ok" \/ (word = "ok" /\ t \in txs)
  <2>1. replies' = [replies EXCEPT ![p] = [x \in Tx |-> IF x \in txs THEN word ELSE @[x]]]
    BY <1>1 DEF Answer
  <2>2. CASE q # p
    BY <1>0, <2>1, <2>2
  <2>3. CASE q = p
    BY <1>0, <2>1, <2>3
  <2> QED
    BY <2>2, <2>3
<1>2. CASE replies' = replies
  BY <1>2
<1>3. CASE \/ \E txs \in Batches(p) : Transact(p, txs)
           \/ \E x \in waiting[p] : SplitRound(p, x)
           \/ Defer(p)
           \/ \E why : FailRound(p, why)
           \/ \E head : BeginAttempt(p, head)
           \/ \E a, n : TakeHeight(p, a, n)
           \/ PushCertificate(p)
  <2>1. replies' = replies
    BY Zenon, <1>3 DEF Transact, SplitRound, Defer, FailRound, BeginAttempt, TakeHeight,
                       PushCertificate, settleVars
  <2> QED
    BY <1>2, <2>1
<1>4. CASE Settle(p)
  <2>1. CASE adopted[p]
    <3>1. Defer(p)
      BY Zenon, <1>4, <2>1 DEF Settle
    <3> QED
      BY <1>3, <3>1
  <2>2. CASE ~adopted[p]
    <3>1. Answer(p, batch[p], "ok")
      BY Zenon, <1>4, <2>2 DEF Settle
    <3> QED
      BY Zenon, <1>1, <1>4, <2>2, <3>1
  <2> QED
    BY <2>1, <2>2
<1>5. ASSUME NEW x \in waiting[p], NEW v \in Validator, ResolveClaim(p, x, v)
      PROVE  \/ replies[q][t] = "ok"
             \/ \E i \in 1..Len(certificates[v]) : t \in certificates[v][i]
  <2>1. PICK i \in 1..Len(certificates[v]) :
            Answer(p, {x}, IF x \in certificates[v][i] THEN "ok" ELSE "err")
    BY <1>5 DEF ResolveClaim
  <2>2. CASE x \in certificates[v][i]
    <3>1. replies[q][t] = "ok" \/ t \in {x}
      BY <1>1, <2>1
    <3> QED
      BY <2>2, <3>1
  <2>3. CASE x \notin certificates[v][i]
    <3>1. Answer(p, {x}, "err")
      BY <2>1, <2>3
    <3> QED
      BY <1>1, <3>1
  <2> QED
    BY <2>2, <2>3
<1>6. CASE Cancel(p) \/ \E x \in waiting[p] : ResolveUnknown(p, x)
  <2>1. \E txs : Answer(p, txs, "err")
    BY Zenon, <1>6 DEF Cancel, ResolveUnknown
  <2> QED
    BY <1>1, <2>1
<1>7. CASE AttemptMade(p)
  <2>1. \/ \E head : BeginAttempt(p, head)
        \/ \E a, n : TakeHeight(p, a, n)
        \/ PushCertificate(p)
        \/ Defer(p)
        \/ \E why : FailRound(p, why)
        \/ Settle(p)
    BY Zenon, <1>7 DEF AttemptMade, DeferUnpromised, DeferOutbid, DeferShort, Reject, CommitShort
  <2> QED
    BY Zenon, <1>3, <1>4, <2>1
<1>8. CASE DeferUnread(p)
  BY Zenon, <1>3, <1>8 DEF DeferUnread
<1> QED
  BY Zenon, <1>3, <1>5, <1>6, <1>7, <1>8 DEF ClientStep

\* The transaction of every caller told "ok" is certified, and stays so.
LEMMA OkStep ==
    ASSUME Inv, SettleTypes, AnswerTypes, OwnInv, OkMeansCertified, ClientNext, [Next]_vars
    PROVE  OkMeansCertified'
<1> DEFINE Listed(t) == \E e \in Certified : \E i \in 1..Len(e) : t \in e[i]
<1>0. TypeOK /\ SeatInv /\ Certified \subseteq Certified'
  BY NothingTakenBack DEF Inv
<1>1. ASSUME NEW t, Listed(t) PROVE Listed(t)'
  BY <1>0, <1>1
<1>2. ASSUME NEW v \in Validator, NEW i \in 1..Len(certificates[v]), NEW t \in certificates[v][i]
      PROVE  Listed(t)
  <2>1. certificates[v] \in Chain
    BY <1>0 DEF SeatInv
  <2>2. certificates[v] # <<>>
    OBVIOUS
  <2>3. certificates[v] \in Certified
    BY <2>1, <2>2 DEF Chain
  <2> QED
    BY <2>3
<1>3. ASSUME NEW p \in Proposer, phase[p] = "commit", ~adopted[p], NEW t \in batch[p]
      PROVE  Listed(t)
  <2>1. PICK q \in proposals :
            /\ adopted[p] \/ q.transactions = batch[p]
            /\ Append(base[p], q.transactions) \in Certified
    BY <1>3 DEF OwnInv
  <2>2. q.transactions = batch[p] /\ q.transactions \in Batch /\ base[p] \in History
    BY <1>0, <1>3, <2>1 DEF TypeOK, ProposalRequest
  <2> DEFINE e == Append(base[p], q.transactions)
  <2>3. Len(base[p]) + 1 \in 1..Len(e) /\ t \in e[Len(base[p]) + 1]
    BY <2>2, AppendHistory
  <2> HIDE DEF e
  <2>4. e \in Certified
    BY <2>1 DEF e
  <2> QED
    BY <2>3, <2>4
<1>4. \A p \in Proposer, t \in Tx : replies[p][t] = "ok" => Listed(t)
  BY DEF OkMeansCertified
<1> HIDE DEF Listed
<1>5. ASSUME NEW q \in Proposer, NEW t \in Tx, replies'[q][t] = "ok"
      PROVE  Listed(t)'
  <2>1. CASE SeatAnswers
    <3>1. replies' = replies
      BY <1>0, <2>1, SeatsLeaveRounds DEF settleVars
    <3> QED
      BY <1>1, <1>4, <1>5, <3>1
  <2>2. ASSUME NEW p \in Proposer, ClientStep(p) PROVE Listed(t)'
    <3>1. \/ replies[q][t] = "ok"
          \/ Settle(p) /\ ~adopted[p] /\ t \in batch[p]
          \/ \E v \in Validator : \E i \in 1..Len(certificates[v]) : t \in certificates[v][i]
      BY <1>5, <2>2, WhoIsTold
    <3>2. Settle(p) => phase[p] = "commit"
      BY DEF Settle, EndCommit
    <3>3. Listed(t)
      BY Zenon, <1>2, <1>3, <1>4, <3>1, <3>2
    <3> QED
      BY <1>1, <3>3
  <2> QED
    BY <2>1, <2>2 DEF ClientNext
<1> QED
  BY <1>5 DEF OkMeansCertified, Listed

-----------------------------------------------------------------------------
\* The theorems.

\* A step of a client or of a seat keeps the inductive invariant, and is a step
\* of the protocol or leaves it alone.
LEMMA ClientInductive ==
    ASSUME ClientInv, [ClientNext]_clientVars
    PROVE  ClientInv' /\ [Next]_vars
<1>0. /\ Inv /\ SettleTypes /\ AnswerTypes /\ PreparedInv /\ RoundInv /\ RefusalInv /\ OwnInv
      /\ OkMeansCertified /\ TypeOK /\ BallotInv
  BY DEF ClientInv, Inv
<1>1. CASE ClientNext
  <2>1. [Next]_vars
    BY <1>0, <1>1, ClientMap
  <2>2. Inv'
    BY <1>0, <2>1, InductiveStep
  <2>3. PreparedInv'
    <3>1. CASE Next
      BY <1>0, <3>1, PreparedStep
    <3>2. CASE UNCHANGED vars
      <4>1. UNCHANGED <<phase, base, ballot, prepares, proposals, promised>>
        BY <3>2 DEF vars, seatVars, wireVars, attemptVars
      <4> QED
        BY <1>0, <4>1 DEF PreparedInv
    <3> QED
      BY <2>1, <3>1, <3>2
  <2>4. RoundInv' /\ SettleTypes'
    BY <1>0, <1>1, RoundStep
  <2>5. RefusalInv' /\ AnswerTypes'
    BY <1>0, <1>1, RefusalStep
  <2>6. OwnInv'
    BY <1>0, <1>1, <2>1, OwnStep
  <2>7. OkMeansCertified'
    BY <1>0, <1>1, <2>1, OkStep
  <2> QED
    BY <2>1, <2>2, <2>3, <2>4, <2>5, <2>6, <2>7 DEF ClientInv
<1>2. CASE UNCHANGED clientVars
  <2>1. UNCHANGED vars
    BY <1>2 DEF clientVars
  <2>2. /\ UNCHANGED <<phase, base, ballot, promises, prepares, proposals, promised, commits>>
        /\ UNCHANGED <<stage, waiting, batch, replies, adopted, turned, refusals>>
    BY <1>2 DEF clientVars, vars, seatVars, wireVars, attemptVars, answerVars, settleVars
  <2>3. Inv'
    BY <1>0, <2>1, InductiveStep
  <2>4. PreparedInv' /\ RoundInv' /\ SettleTypes' /\ AnswerTypes'
    BY <1>0, <2>2 DEF PreparedInv, RoundInv, Batches, SettleTypes, AnswerTypes
  <2>5. RefusalInv'
    BY <1>0, <2>2 DEF RefusalInv, HeldNumbers
  <2>6. OwnInv' /\ OkMeansCertified'
    BY <1>0, <2>2 DEF OwnInv, OkMeansCertified, Certified
  <2> QED
    BY <2>1, <2>3, <2>4, <2>5, <2>6 DEF ClientInv
<1> QED
  BY <1>1, <1>2

\* A client starts with nothing asked, answered or proposed.
LEMMA ClientInitInv == ClientInit => ClientInv
<1> SUFFICES ASSUME ClientInit PROVE ClientInv
  OBVIOUS
<1>1. Init /\ Inv
  BY InitInv DEF ClientInit
<1>2. SettleTypes /\ AnswerTypes
  BY DEF ClientInit, SettleTypes, AnswerTypes
<1>3. /\ phase = [p \in Proposer |-> "idle"]
      /\ ballot = [p \in Proposer |-> NoBallot]
      /\ base = [p \in Proposer |-> <<>>]
      /\ promises = [p \in Proposer |-> {}]
      /\ proposals = {}
      /\ promised = [v \in Validator |-> [h \in Height |-> NoBallot]]
  BY <1>1 DEF Init
<1>4. PreparedInv
  BY <1>3 DEF PreparedInv
<1>5. RoundInv /\ RefusalInv
  BY <1>3 DEF RoundInv, RefusalInv, ClientInit
<1>6. OwnInv
  BY <1>3 DEF OwnInv
<1>7. OkMeansCertified
  BY DEF OkMeansCertified, ClientInit
<1> QED
  BY <1>1, <1>2, <1>4, <1>5, <1>6, <1>7 DEF ClientInv

\* Every reachable state of the clients and the seats satisfies the inductive
\* invariant.
THEOREM ClientInvariance == ClientSpec => []ClientInv
<1>1. ClientInv /\ [ClientNext]_clientVars => ClientInv'
  BY ClientInductive
<1> QED
  BY <1>1, ClientInitInv, PTL DEF ClientSpec

\* However settle retries, splits, adopts, looks up or abandons batches, the
\* clients drive the seats in no way QuorumLedger does not allow, so Agreement,
\* ExactlyOnce, NoForkEver and Refinement hold of them.
THEOREM ClientRefinement == ClientSpec => ImplementsQuorumLedger
<1>1. ClientInit => Init
  BY DEF ClientInit
<1>2. ClientInv /\ [ClientNext]_clientVars => [Next]_vars
  BY ClientInductive
<1> QED
  BY <1>1, <1>2, ClientInvariance, PTL DEF ClientSpec, ImplementsQuorumLedger, Spec

\* A caller told "ok" finds its transaction in certified history.
THEOREM OkIsTrue == ClientSpec => []OkMeansCertified
<1>1. ClientInv => OkMeansCertified
  BY DEF ClientInv
<1> QED
  BY <1>1, ClientInvariance, PTL

\* Two transactions of one chain that settle one claim are one transaction.
LEMMA ChainSpendsOnce ==
    ASSUME Inv, NEW e \in Certified, NEW f \in Certified, Len(e) <= Len(f),
           NEW i \in 1..Len(e), NEW j \in 1..Len(f), NEW t \in e[i], NEW u \in f[j],
           claim_key[t] = claim_key[u]
    PROVE  t = u
<1>1. TypeOK /\ VoteInv /\ CertInv /\ ClaimsSpentOnce
  BY DEF Inv, CertInv
<1>2. e \in History /\ f \in History /\ Len(e) \in Nat /\ Len(f) \in Nat
  BY <1>1, ChainType, HistoryLen DEF Chain
<1>3. e = SubSeq(f, 1, Len(e))
  BY <1>1, ChainsNest DEF Chain, IsPrefixOf
<1>4. i \in 1..Len(f) /\ e[i] = f[i]
  BY <1>2, <1>3 DEF History
<1> QED
  BY <1>1, <1>4 DEF ClaimsSpentOnce

\* Of the transactions that settle one claim, the callers of at most one are
\* ever told "ok", whichever clients they asked (settled_certificate).
THEOREM OneWinner == ClientSpec => []OneWinnerPerClaim
<1>1. ASSUME ClientInv PROVE OneWinnerPerClaim
  <2>0. Inv /\ OkMeansCertified
    BY <1>1 DEF ClientInv
  <2> SUFFICES ASSUME NEW p \in Proposer, NEW q \in Proposer, NEW t \in Tx, NEW u \in Tx,
                      replies[p][t] = "ok", replies[q][u] = "ok", claim_key[t] = claim_key[u]
               PROVE  t = u
    BY DEF OneWinnerPerClaim
  <2>1. PICK e \in Certified : \E i \in 1..Len(e) : t \in e[i]
    BY <2>0 DEF OkMeansCertified
  <2>2. PICK f \in Certified : \E j \in 1..Len(f) : u \in f[j]
    BY <2>0 DEF OkMeansCertified
  <2>3. Len(e) \in Nat /\ Len(f) \in Nat
    BY <2>0, ChainType, HistoryLen DEF Chain, Inv
  <2>i. PICK i \in 1..Len(e) : t \in e[i]
    BY <2>1
  <2>j. PICK j \in 1..Len(f) : u \in f[j]
    BY <2>2
  <2>4. CASE Len(e) <= Len(f)
    BY <2>0, <2>i, <2>j, <2>4, ChainSpendsOnce
  <2>5. CASE Len(f) <= Len(e)
    BY <2>0, <2>i, <2>j, <2>5, ChainSpendsOnce
  <2> QED
    BY <2>3, <2>4, <2>5
<1> QED
  BY <1>1, ClientInvariance, PTL

=============================================================================
