---------------------------- MODULE QuorumLedger ----------------------------
(***************************************************************************)
(* The validators of crates/hocmesh-validator, each with the SQLite store  *)
(* of crates/hocmesh-ledger/src/store.rs, and the ledger clients of        *)
(* crates/hocmesh-ledger/src/network.rs that propose to them.              *)
(*                                                                         *)
(* A client settles a batch at the height above the head a threshold of    *)
(* seats reports: it takes the height with a ballot (prepare), puts a      *)
(* batch to the seats (propose; the batch a seat hands back if one was     *)
(* accepted there already), and pushes the certificate a threshold of      *)
(* signatures makes (commit).  Seats that missed a commit catch up.        *)
(*                                                                         *)
(* Every request may be lost, delayed past the client's timeout or         *)
(* delivered again; every answer may be lost; a client may crash between   *)
(* any two steps.  A seat writes its store before it answers, so a seat's  *)
(* crash is a request or an answer lost.                                   *)
(*                                                                         *)
(* An entry's hash covers its batch and its predecessor's hash, so an      *)
(* entry is modelled by the history it ends: a sequence of batches.        *)
(***************************************************************************)
EXTENDS Integers, Sequences, FiniteSets, FiniteSetsExt

CONSTANTS Validator,  \* the members of the (fixed) validator set
          threshold,  \* signatures a certificate needs
          Proposer,   \* ledger clients; a restarted client is a new one
          Tx,         \* transactions
          claim_key,  \* [Tx -> claims]
          Wants,      \* [Proposer -> SUBSET Tx]: what each is asked to settle
          MAX_BATCH,  \* transactions one entry carries (512 in the code)
          MaxHeight,  \* bound: entries the chain may hold
          MaxBallot   \* bound: [Proposer -> ballot numbers it may take]

\* What validate_validator_set demands of a set.
ASSUME SetAssumption ==
    /\ IsFiniteSet(Validator)
    /\ threshold \in 1..Cardinality(Validator)
    /\ threshold * 3 > Cardinality(Validator) * 2

\* Clients are named by random identifiers, of which only the order matters.
ASSUME ClientAssumption ==
    /\ Proposer \subseteq Nat
    /\ Wants \in [Proposer -> SUBSET Tx]
    /\ MAX_BATCH \in Nat \ {0}
    /\ MaxHeight \in Nat
    /\ MaxBallot \in [Proposer -> Nat]

VARIABLES
    certificates, \* [Validator -> history]: the chain each seat has applied
    promised,     \* [Validator -> [Height -> ballot]]: ballots.promised_json
    accepted,     \* [Validator -> [Height -> proposal]]: ballots.accepted_json
    votes,        \* the signatures seats have given: who, ballot, entry
    prepares,     \* PrepareRequests sent
    proposals,    \* ProposalRequests sent
    commits,      \* certificates sent to be committed, and by which ballot
    phase,        \* [Proposer -> the answers its attempt waits for]
    number,       \* [Proposer -> its ballot counter]
    ballot,       \* [Proposer -> the ballot of the current attempt]
    base,         \* [Proposer -> the head the current attempt builds on]
    promises      \* [Proposer -> the promises its prepare has brought back]

seatVars == <<certificates, promised, accepted, votes>>
wireVars == <<prepares, proposals, commits>>
attemptVars == <<phase, number, ballot, base, promises>>
vars == <<seatVars, wireVars, attemptVars>>

-----------------------------------------------------------------------------
\* Ballots, batches and entries.

Height == 1..MaxHeight
Batch == (SUBSET Tx) \ {{}}
History == Seq(Batch)

Ballot == [number : Nat \ {0}, proposer : Proposer]

\* A height nobody has taken: a missing row, which outranks no ballot.
NoBallot == [number |-> 0, proposer |-> 0]

\* Faulty: a tie between two clients' ballots is nobody's.
outranksByNumber(a, b) == a.number > b.number

outranks(a, b) ==
    \/ a.number > b.number
    \/ a.number = b.number /\ a.proposer > b.proposer

\* AcceptedProposal, and the NULL of accepted_json.
NoProposal == [ballot |-> NoBallot, transactions |-> {}]
Proposal == [ballot : Ballot, transactions : Batch]

\* Faulty: one signature short.
QuorumShort == {Q \in SUBSET Validator : Cardinality(Q) + 1 >= threshold}

Quorum == {Q \in SUBSET Validator : Cardinality(Q) >= threshold}

\* store.claims: the claim keys a seat's applied entries have spent.
claims(history) ==
    {claim_key[t] : t \in UNION {history[i] : i \in 1..Len(history)}}

\* Faulty: claims are checked within the batch only.
claims_fresh_inside(history, txs) ==
    \A t, u \in txs : claim_key[t] = claim_key[u] => t = u

\* The claim half of a batch's verdict: no claim spent before, none twice.
claims_fresh(history, txs) ==
    /\ \A t \in txs : claim_key[t] \notin claims(history)
    /\ \A t, u \in txs : claim_key[t] = claim_key[u] => t = u

build_entry(history, txs) == Append(history, txs)

-----------------------------------------------------------------------------
\* The type of the state.

\* A PrepareVote that promises; one that refuses is not kept (see LoseHeight).
Promise == [from : Validator, accepted : Proposal \cup {NoProposal}]

PrepareRequest == [sequence : Height, ballot : Ballot]
ProposalRequest == [sequence : Height, ballot : Ballot, transactions : Batch]
CommitRequest == [ballot : Ballot, entry : History]
Signature == [validator : Validator, ballot : Ballot, entry : History]

TypeOK ==
    /\ certificates \in [Validator -> History]
    /\ promised \in [Validator -> [Height -> Ballot \cup {NoBallot}]]
    /\ accepted \in [Validator -> [Height -> Proposal \cup {NoProposal}]]
    /\ votes \subseteq Signature
    /\ prepares \subseteq PrepareRequest
    /\ proposals \subseteq ProposalRequest
    /\ commits \subseteq CommitRequest
    /\ phase \in [Proposer -> {"idle", "prepare", "propose", "commit"}]
    /\ number \in [Proposer -> Nat]
    /\ ballot \in [Proposer -> Ballot \cup {NoBallot}]
    /\ base \in [Proposer -> History]
    /\ promises \in [Proposer -> SUBSET Promise]

Init ==
    /\ certificates = [v \in Validator |-> <<>>]
    /\ promised = [v \in Validator |-> [h \in Height |-> NoBallot]]
    /\ accepted = [v \in Validator |-> [h \in Height |-> NoProposal]]
    /\ votes = {}
    /\ prepares = {}
    /\ proposals = {}
    /\ commits = {}
    /\ phase = [p \in Proposer |-> "idle"]
    /\ number = [p \in Proposer |-> 0]
    /\ ballot = [p \in Proposer |-> NoBallot]
    /\ base = [p \in Proposer |-> <<>>]
    /\ promises = [p \in Proposer |-> {}]

-----------------------------------------------------------------------------
\* The validator's handlers.  Each runs under its store's lock.  A request that
\* is delivered again finds its own mark and changes nothing.

\* Faulty: an answer to an earlier ballot's request is taken for this one's.
AwaitsAny(b, stage) == phase[b.proposer] = stage

\* The client of ballot b still waits for the answers of this phase.
Awaits(b, stage) == phase[b.proposer] = stage /\ ballot[b.proposer] = b

\* promise: take the height for r's ballot unless a higher one holds it, and
\* hand back what was accepted there.
Prepare(v, r) ==
    LET h == r.sequence
        p == r.ballot.proposer
    IN  /\ h = Len(certificates[v]) + 1
        /\ ~outranks(promised[v][h], r.ballot)
        /\ promised[v][h] # r.ballot
        /\ promised' = [promised EXCEPT ![v][h] = r.ballot]
        /\ promises' = IF Awaits(r.ballot, "prepare")
                       THEN [promises EXCEPT ![p] =
                                @ \cup {[from |-> v, accepted |-> accepted[v][h]]}]
                       ELSE promises
        /\ UNCHANGED <<certificates, accepted, votes, wireVars, phase, number,
                       ballot, base>>

\* The seat signs: the height is next, the batch is valid on its own chain,
\* and no higher ballot has taken the height since.
WouldSign(v, q) ==
    /\ q.sequence = Len(certificates[v]) + 1
    /\ claims_fresh(certificates[v], q.transactions)
    /\ ~outranks(promised[v][q.sequence], q.ballot)

\* accept_ballot, then the signature over the entry on this seat's own head.
Propose(v, q) ==
    LET h == q.sequence
    IN  /\ WouldSign(v, q)
        /\ accepted[v][h].ballot # q.ballot
        /\ promised' = [promised EXCEPT ![v][h] = q.ballot]
        /\ accepted' = [accepted EXCEPT ![v][h] =
               [ballot |-> q.ballot, transactions |-> q.transactions]]
        /\ votes' = votes \cup
               {[validator |-> v, ballot |-> q.ballot,
                 entry |-> build_entry(certificates[v], q.transactions)]}
        /\ UNCHANGED <<certificates, wireVars, attemptVars>>

\* store.apply: extend the chain, and drop the ballots of the heights decided.
Apply(v, history) ==
    /\ certificates' = [certificates EXCEPT ![v] = history]
    /\ promised' = [promised EXCEPT ![v] =
           [h \in Height |-> IF h <= Len(history) THEN NoBallot ELSE @[h]]]
    /\ accepted' = [accepted EXCEPT ![v] =
           [h \in Height |-> IF h <= Len(history) THEN NoProposal ELSE @[h]]]

\* A certificate that extends this seat's head is applied.
Commit(v, c) ==
    LET n == Len(c.entry)
    IN  /\ Len(certificates[v]) + 1 = n
        /\ SubSeq(c.entry, 1, n - 1) = certificates[v]
        /\ claims_fresh(certificates[v], c.entry[n])
        /\ Apply(v, c.entry)
        /\ UNCHANGED <<votes, wireVars, attemptVars>>

Prefixes(history) == {SubSeq(history, 1, n) : n \in 0..Len(history)}

\* Heads are read one seat at a time and an answer may be late, so any head a
\* threshold of seats has had may be read as the quorum's.
head_quorum ==
    {h \in UNION {Prefixes(certificates[v]) : v \in Validator} :
        {v \in Validator : h \in Prefixes(certificates[v])} \in Quorum}

\* catch_up_to and sync: copy the certificates a peer u serves, up to height n.
\* A commit goes no further than the height below its certificate.  A seat that
\* finds the quorum's head above its own goes that far (heal_once) or takes all
\* it is served (sync).
CatchUpTo(v, u, n) ==
    /\ n \in Len(certificates[v])+1 .. Len(certificates[u])
    /\ \/ \E c \in commits : n < Len(c.entry)
       \/ \E h \in head_quorum : Len(certificates[v]) < Len(h)
    /\ SubSeq(certificates[u], 1, Len(certificates[v])) = certificates[v]
    /\ Apply(v, SubSeq(certificates[u], 1, n))
    /\ UNCHANGED <<votes, wireVars, attemptVars>>

-----------------------------------------------------------------------------
\* One attempt of a client at one height.

\* The attempt is over; late answers to it go nowhere.
EndAttempt(p) ==
    /\ phase' = [phase EXCEPT ![p] = "idle"]
    /\ ballot' = [ballot EXCEPT ![p] = NoBallot]
    /\ base' = [base EXCEPT ![p] = <<>>]
    /\ promises' = [promises EXCEPT ![p] = {}]

\* head_quorum, next_ballot, and the prepare requests of claim_height.
StartAttempt(p, head) ==
    LET b == [number |-> number[p] + 1, proposer |-> p]
    IN  /\ phase[p] = "idle"
        /\ number[p] < MaxBallot[p]
        /\ Len(head) < MaxHeight
        /\ number' = [number EXCEPT ![p] = b.number]
        /\ ballot' = [ballot EXCEPT ![p] = b]
        /\ base' = [base EXCEPT ![p] = head]
        /\ prepares' = prepares \cup {[sequence |-> Len(head) + 1, ballot |-> b]}
        /\ phase' = [phase EXCEPT ![p] = "prepare"]
        /\ UNCHANGED <<seatVars, proposals, commits, promises>>

\* The batches a client may have drained from its queue.
Batches(p) == {txs \in SUBSET Wants[p] : txs # {} /\ Cardinality(txs) <= MAX_BATCH}

\* outbid: the ballot numbers a seat may report it holds the height with, and
\* 0 when no report comes back.
HeldNumbers(p) ==
    {0} \cup {r.ballot.number : r \in {x \in prepares : x.sequence = Len(base[p]) + 1}}

\* claim_height with a threshold of promises: propose the batch that, of what
\* those seats have accepted here, has the highest ballot, and our own only if
\* they have accepted none.  Promises that would outrank a may be lost.  The
\* client climbs past the ballots other seats hold the height with.
ClaimHeight(p, a, own, n) ==
    /\ phase[p] = "prepare"
    /\ {m.from : m \in {x \in promises[p] : ~outranks(x.accepted.ballot, a.ballot)}}
           \in Quorum
    /\ proposals' = proposals \cup
           {[sequence |-> Len(base[p]) + 1, ballot |-> ballot[p],
             transactions |-> IF a = NoProposal THEN own ELSE a.transactions]}
    /\ number' = [number EXCEPT ![p] = Max({@, n})]
    /\ phase' = [phase EXCEPT ![p] = "propose"]
    /\ promises' = [promises EXCEPT ![p] = {}]
    /\ UNCHANGED <<seatVars, prepares, commits, ballot, base>>

\* The attempt lost the height, in claim_height or after it: lost answers may
\* always cause this.  The client climbs past a ballot number it was told of.
LoseHeight(p, n) ==
    /\ phase[p] \in {"prepare", "propose"}
    /\ number' = [number EXCEPT ![p] = Max({@, n})]
    /\ EndAttempt(p)
    /\ UNCHANGED <<seatVars, wireVars>>

\* The proposal of p's attempt, and the entry it expects to be signed.
Mine(p) == CHOOSE q \in proposals : q.ballot = ballot[p]
Expected(p) == build_entry(base[p], Mine(p).transactions)

\* The seats that have signed the expected entry for this attempt.
Signers(p) ==
    {s.validator : s \in {x \in votes : x.ballot = ballot[p] /\ x.entry = Expected(p)}}

\* Certified: build the certificate and push it to every seat.
Certify(p) ==
    /\ phase[p] = "propose"
    /\ Signers(p) \in Quorum
    /\ commits' = commits \cup {[ballot |-> ballot[p], entry |-> Expected(p)]}
    /\ phase' = [phase EXCEPT ![p] = "commit"]
    /\ UNCHANGED <<seatVars, prepares, proposals, number, ballot, base, promises>>

\* The commit answers are in, or lost.
EndCommit(p) ==
    /\ phase[p] = "commit"
    /\ EndAttempt(p)
    /\ UNCHANGED <<seatVars, wireVars, number>>

-----------------------------------------------------------------------------

SeatStepOf(v) ==
    \/ \E r \in prepares : Prepare(v, r)
    \/ \E q \in proposals : Propose(v, q)
    \/ \E u \in Validator, n \in Height : CatchUpTo(v, u, n)

SeatStep ==
    \E v \in Validator : SeatStepOf(v) \/ \E c \in commits : Commit(v, c)

AttemptStep ==
    \E p \in Proposer :
        \/ phase[p] = "idle" /\ \E head \in head_quorum : StartAttempt(p, head)
        \/ \E m \in promises[p], own \in Batches(p), n \in HeldNumbers(p) :
               ClaimHeight(p, m.accepted, own, n)
        \/ phase[p] # "idle" /\ \E n \in HeldNumbers(p) : LoseHeight(p, n)
        \/ Certify(p)
        \/ EndCommit(p)

Next == SeatStep \/ AttemptStep

Spec == Init /\ [][Next]_vars

-----------------------------------------------------------------------------
\* Properties.

Certified == {c.entry : c \in commits}

IsPrefixOf(s, t) == Len(s) <= Len(t) /\ s = SubSeq(t, 1, Len(s))

\* One entry per height: whatever clients compete for a height, crash over it
\* or finish each other's batches, the certificates ever formed at it are all
\* for one entry (attempt's "no two entries may exist at one height").
OneEntryPerHeight ==
    \A e, f \in Certified : Len(e) = Len(f) => e = f

\* No fork: any two seats' chains are one chain, one of them possibly shorter,
\* and every entry a seat has applied was certified.
NoFork ==
    /\ \A v, u \in Validator :
           \/ IsPrefixOf(certificates[v], certificates[u])
           \/ IsPrefixOf(certificates[u], certificates[v])
    /\ \A v \in Validator : \A n \in 1..Len(certificates[v]) :
           SubSeq(certificates[v], 1, n) \in Certified

\* Exactly once: a claim key is spent at most once in certified history.
ClaimsSpentOnce ==
    \A e \in Certified :
        \A i, j \in 1..Len(e) : \A t \in e[i], u \in e[j] :
            claim_key[t] = claim_key[u] => i = j /\ t = u

\* The chain of batches certified so far, for the mapping to Ledger.
Longest == CHOOSE e \in Certified \cup {<<>>} :
               \A f \in Certified : Len(f) <= Len(e)

L == INSTANCE Ledger WITH ledger <- Longest

\* The validators and their clients implement one append-only ledger.
ImplementsLedger == L!Spec

=============================================================================
