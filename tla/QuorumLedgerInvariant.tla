----------------------- MODULE QuorumLedgerInvariant ------------------------
(***************************************************************************)
(* The inductive invariant of QuorumLedger, and what its proof rests on:   *)
(* ballots are ordered, quorums meet, types are kept, and what a seat has  *)
(* signed, promised or decided is never taken back.                        *)
(*                                                                         *)
(* The argument is the one claim_height gives: a threshold of promises     *)
(* means no earlier ballot can still gather a certificate, unless it is    *)
(* for the batch the promises hand back.  SafeAt says so of a proposal,    *)
(* and is what makes two certificates at one height carry one batch; that  *)
(* their chains below are the same is the same fact one height lower.      *)
(***************************************************************************)
EXTENDS QuorumLedger, TLAPS, FiniteSetTheorems, SequenceTheorems

-----------------------------------------------------------------------------
\* Ballots are totally ordered, and a quorum meets every other.

AnyBallot == Ballot \cup {NoBallot}

\* A ballot is its number and its proposer (types.rs, Ballot).
LEMMA BallotFields ==
    \A b \in AnyBallot : b.number \in Nat /\ b.proposer \in Nat
<1>1. Proposer \subseteq Nat
  BY ClientAssumption
<1>2. ASSUME NEW b \in Ballot PROVE b.number \in Nat /\ b.proposer \in Nat
  BY Zenon, <1>1 DEF Ballot
<1>3. NoBallot.number \in Nat /\ NoBallot.proposer \in Nat
  BY DEF NoBallot
<1> QED
  BY <1>2, <1>3 DEF AnyBallot

\* outranks is a strict total order in which a missing row is below all.
LEMMA BallotOrder ==
    ASSUME NEW a \in AnyBallot, NEW b \in AnyBallot
    PROVE  /\ a = b \/ outranks(a, b) \/ outranks(b, a)
           /\ ~(outranks(a, b) /\ outranks(b, a))
           /\ ~outranks(a, a)
           /\ a \in Ballot => outranks(a, NoBallot)
<1>1. a.number \in Nat /\ a.proposer \in Nat /\ b.number \in Nat /\ b.proposer \in Nat
  BY BallotFields
<1>2. a.number = b.number /\ a.proposer = b.proposer => a = b
  BY DEF AnyBallot, Ballot, NoBallot
<1>3. a \in Ballot => a.number > 0
  BY DEF Ballot
<1> QED
  BY <1>1, <1>2, <1>3 DEF outranks, NoBallot

\* outranks is transitive, as the tuple comparison of the code is.
LEMMA BallotTransitive ==
    ASSUME NEW a \in AnyBallot, NEW b \in AnyBallot, NEW c \in AnyBallot
    PROVE  /\ outranks(a, b) /\ outranks(b, c) => outranks(a, c)
           /\ outranks(a, b) /\ ~outranks(c, b) => outranks(a, c)
           /\ ~outranks(b, a) /\ outranks(b, c) => outranks(a, c)
           /\ ~outranks(a, b) /\ ~outranks(b, c) => ~outranks(a, c)
<1>1. /\ a.number \in Nat /\ a.proposer \in Nat
      /\ b.number \in Nat /\ b.proposer \in Nat
      /\ c.number \in Nat /\ c.proposer \in Nat
  BY BallotFields
<1> QED
  BY <1>1 DEF outranks

\* More than two thirds and more than two thirds leave a seat in both.
LEMMA QuorumsMeet ==
    ASSUME NEW Q \in Quorum, NEW R \in Quorum
    PROVE  \E v \in Validator : v \in Q /\ v \in R
<1>1. /\ Q \subseteq Validator /\ R \subseteq Validator
      /\ Cardinality(Q) >= threshold /\ Cardinality(R) >= threshold
  BY DEF Quorum
<1>2. /\ IsFiniteSet(Validator) /\ Cardinality(Validator) \in Nat
      /\ threshold \in Nat /\ threshold * 3 > Cardinality(Validator) * 2
  BY SetAssumption, FS_CardinalityType
<1>3. IsFiniteSet(Q) /\ IsFiniteSet(R) /\ Cardinality(Q) \in Nat /\ Cardinality(R) \in Nat
  BY <1>1, <1>2, FS_Subset, FS_CardinalityType
<1>4. /\ Cardinality(Q \cup R) = Cardinality(Q) + Cardinality(R) - Cardinality(Q \cap R)
      /\ IsFiniteSet(Q \cap R) /\ Cardinality(Q \cap R) \in Nat
  BY Zenon, <1>3, FS_Union, FS_Intersection, FS_CardinalityType
<1>5. Cardinality(Q \cup R) <= Cardinality(Validator) /\ Cardinality(Q \cup R) \in Nat
  <2>1. Q \cup R \in SUBSET Validator
    BY <1>1
  <2> QED
    BY <2>1, <1>2, FS_Subset, FS_CardinalityType
<1>6. Cardinality(Q \cap R) # 0
  BY <1>1, <1>2, <1>3, <1>4, <1>5
<1>7. Q \cap R # {}
  BY <1>4, <1>6, FS_EmptySet
<1> QED
  BY <1>1, <1>7

\* A certificate has a signature: threshold is at least one.
LEMMA QuorumNonempty ==
    ASSUME NEW Q \in Quorum
    PROVE  \E v \in Validator : v \in Q
BY QuorumsMeet

\* What Append does to a history, in the terms the proofs use.
LEMMA AppendHistory ==
    ASSUME NEW e \in History, NEW txs \in Batch
    PROVE  /\ Append(e, txs) \in History
           /\ Len(e) \in Nat
           /\ Len(Append(e, txs)) = Len(e) + 1
           /\ Append(e, txs)[Len(e) + 1] = txs
           /\ \A i \in 1..Len(e) : Append(e, txs)[i] = e[i]
           /\ \A n \in 1..Len(e) : SubSeq(Append(e, txs), 1, n) = SubSeq(e, 1, n)
           /\ SubSeq(Append(e, txs), 1, Len(e) + 1) = Append(e, txs)
<1>1. e \in Seq(Batch)
  BY DEF History
<1>2. /\ Append(e, txs) \in Seq(Batch)
      /\ Len(Append(e, txs)) = Len(e) + 1
      /\ Append(e, txs)[Len(e) + 1] = txs
      /\ \A i \in 1..Len(e) : Append(e, txs)[i] = e[i]
  BY <1>1, AppendProperties
<1>3. Len(e) \in Nat
  BY <1>1, LenProperties
<1>4. SubSeq(Append(e, txs), 1, Len(Append(e, txs))) = Append(e, txs)
  BY <1>2, SubSeqFull
<1>5. ASSUME NEW n \in 1..Len(e)
      PROVE  SubSeq(Append(e, txs), 1, n) = SubSeq(e, 1, n)
  <2>1. Append(e, txs) = e \o <<txs>> /\ <<txs>> \in Seq(Batch)
    BY <1>1, AppendIsConcat
  <2>2. 1 \in 1..Len(e)
    BY <1>3
  <2> QED
    BY <1>1, <2>1, <2>2, SubSeqOfConcat1
<1> QED
  BY <1>2, <1>3, <1>4, <1>5 DEF History

-----------------------------------------------------------------------------
\* The inductive invariant.

Signed(v, h, b) ==
    \E s \in votes : s.validator = v /\ s.ballot = b /\ Len(s.entry) = h

SignedFor(v, h, b, txs) ==
    \E s \in votes : /\ s.validator = v /\ s.ballot = b
                     /\ Len(s.entry) = h /\ s.entry[h] = txs

\* Seat v has decided height h or holds it for a ballot newer than b.
Past(v, h, b) == Len(certificates[v]) >= h \/ outranks(promised[v][h], b)

\* Seat v has decided height h or holds it for b or a newer ballot.
Holds(v, h, b) == Len(certificates[v]) >= h \/ ~outranks(b, promised[v][h])

WontSign(v, h, b) == ~Signed(v, h, b) /\ Past(v, h, b)

\* No ballot older than b was, or can still be, certified at height h with a
\* batch other than txs.
SafeAt(h, b, txs) ==
    \A d \in Ballot : outranks(b, d) =>
        \E Q \in Quorum : \A v \in Q : SignedFor(v, h, d, txs) \/ WontSign(v, h, d)

\* The chains entries may build on.
Chain == Certified \cup {<<>>}

\* A client never reuses a ballot, and proposes once under it.
BallotInv ==
    /\ \A r \in prepares : r.ballot.number <= number[r.ballot.proposer]
    /\ \A q \in proposals : q.ballot.number <= number[q.ballot.proposer]
    /\ \A q, r \in proposals : q.ballot = r.ballot => q = r
    /\ \A p \in Proposer :
           /\ phase[p] # "idle" =>
                  /\ ballot[p] \in Ballot
                  /\ ballot[p].proposer = p
                  /\ ballot[p].number <= number[p]
                  /\ Len(base[p]) + 1 \in Height
           /\ phase[p] = "prepare" =>
                  /\ \A r \in prepares : r.ballot = ballot[p] => r.sequence = Len(base[p]) + 1
                  /\ \A q \in proposals : q.ballot # ballot[p]
           /\ phase[p] = "propose" => \E q \in proposals : q.ballot = ballot[p]
           /\ phase[p] # "prepare" => promises[p] = {}

\* A signature is for a proposal, on top of a chain it fits.
VoteInv ==
    \A s \in votes : \E e \in Chain, q \in proposals :
        /\ q.ballot = s.ballot
        /\ q.sequence = Len(e) + 1
        /\ s.entry = Append(e, q.transactions)
        /\ claims_fresh(e, q.transactions)

\* What a seat signed at an open height is no newer than what its row says it
\* accepted and promised there.
SeatInv ==
    /\ \A s \in votes :
           /\ Holds(s.validator, Len(s.entry), s.ballot)
           /\ \/ Len(certificates[s.validator]) >= Len(s.entry)
              \/ ~outranks(s.ballot, accepted[s.validator][Len(s.entry)].ballot)
    /\ \A v \in Validator : \A h \in Height : accepted[v][h] # NoProposal =>
           SignedFor(v, h, accepted[v][h].ballot, accepted[v][h].transactions)
    /\ \A v \in Validator : certificates[v] \in Chain

\* A promise still binds: its seat holds the height for the client's ballot,
\* and what it handed back is the newest it signed there before.
PromiseInv ==
    \A p \in Proposer : \A m \in promises[p] :
        /\ Holds(m.from, Len(base[p]) + 1, ballot[p])
        /\ m.accepted # NoProposal =>
               SignedFor(m.from, Len(base[p]) + 1, m.accepted.ballot,
                         m.accepted.transactions)
        /\ \A s \in votes :
               /\ s.validator = m.from
               /\ Len(s.entry) = Len(base[p]) + 1
               /\ outranks(ballot[p], s.ballot)
               => ~outranks(s.ballot, m.accepted.ballot)

SafeInv == \A q \in proposals : SafeAt(q.sequence, q.ballot, q.transactions)

\* A certificate has a quorum of signatures; certified entries form one chain.
CertInv ==
    /\ \A c \in commits : \E Q \in Quorum : \A v \in Q :
           [validator |-> v, ballot |-> c.ballot, entry |-> c.entry] \in votes
    /\ OneEntryPerHeight
    /\ \A e \in Certified : \A n \in 1..Len(e) : SubSeq(e, 1, n) \in Certified
    /\ ClaimsSpentOnce
    /\ \E e \in Chain : \A f \in Certified : Len(f) <= Len(e)

Inv ==
    /\ TypeOK
    /\ BallotInv
    /\ VoteInv
    /\ SeatInv
    /\ PromiseInv
    /\ SafeInv
    /\ CertInv

-----------------------------------------------------------------------------
\* Initially.

\* A fresh validator set with no attempt under way satisfies the invariant.
LEMMA InitInv == Init => Inv
<1> SUFFICES ASSUME Init PROVE Inv
  OBVIOUS
<1> USE DEF Init
<1>1. TypeOK
  <2>1. <<>> \in History
    BY EmptySeq DEF History
  <2> QED
    BY <2>1 DEF TypeOK
<1>2. BallotInv
  BY DEF BallotInv
<1>3. VoteInv /\ PromiseInv /\ SafeInv
  BY DEF VoteInv, PromiseInv, SafeInv
<1>4. SeatInv
  BY DEF SeatInv, Chain
<1>5. CertInv
  BY DEF CertInv, Chain, Certified, OneEntryPerHeight, ClaimsSpentOnce
<1> QED
  BY <1>1, <1>2, <1>3, <1>4, <1>5 DEF Inv

-----------------------------------------------------------------------------
\* Types.

\* Every history is a sequence, and extends by a batch.
LEMMA HistoryLen ==
    ASSUME NEW e \in History
    PROVE  Len(e) \in Nat
BY LenProperties DEF History

\* The part of a chain that catch_up_to copies is a chain of batches.
LEMMA PrefixType ==
    ASSUME NEW e \in History, NEW n \in 0..Len(e)
    PROVE  /\ SubSeq(e, 1, n) \in History
           /\ Len(SubSeq(e, 1, n)) = n
<1>1. Len(e) \in Nat /\ \A i \in 1..Len(e) : e[i] \in Batch
  BY HistoryLen, ElementOfSeq DEF History
<1>2. \A i \in 1..n : e[i] \in Batch
  BY <1>1
<1> QED
  BY <1>1, <1>2, SubSeqProperties DEF History

\* The counter climbs: outbid is a fetch_max.
LEMMA MaxOfTwo ==
    ASSUME NEW a \in Nat, NEW b \in Nat
    PROVE  Max({a, b}) \in Nat /\ Max({a, b}) >= a
<1>1. \E x \in {a, b} : \A y \in {a, b} : x >= y
  OBVIOUS
<1> QED
  BY <1>1 DEF Max

\* Applying a longer history keeps the store's types and loses nothing.
LEMMA ApplyType ==
    ASSUME TypeOK, NEW v \in Validator, NEW e \in History, Apply(v, e)
    PROVE  /\ certificates' \in [Validator -> History]
           /\ promised' \in [Validator -> [Height -> Ballot \cup {NoBallot}]]
           /\ accepted' \in [Validator -> [Height -> Proposal \cup {NoProposal}]]
BY DEF TypeOK, Apply

\* The proposal of an attempt in its propose phase is a real one.
LEMMA MineType ==
    ASSUME TypeOK, BallotInv, NEW p \in Proposer, phase[p] = "propose"
    PROVE  /\ Mine(p) \in proposals
           /\ Mine(p).ballot = ballot[p]
           /\ Mine(p).transactions \in Batch
           /\ Expected(p) \in History
<1>1. \E q \in proposals : q.ballot = ballot[p]
  BY DEF BallotInv
<1>2. Mine(p) \in proposals /\ Mine(p).ballot = ballot[p]
  BY <1>1 DEF Mine
<1>3. Mine(p).transactions \in Batch
  BY <1>2 DEF TypeOK, ProposalRequest
<1>4. base[p] \in History
  BY DEF TypeOK
<1> QED
  BY <1>2, <1>3, <1>4, AppendHistory DEF Expected, build_entry

\* The batch claim_height settles on.
LEMMA ClaimedType ==
    ASSUME TypeOK, NEW p \in Proposer, NEW m \in promises[p], NEW own \in Batches(p)
    PROVE  (IF m.accepted = NoProposal THEN own ELSE m.accepted.transactions) \in Batch
<1>1. own \in Batch
  <2>1. Wants[p] \subseteq Tx
    BY ClientAssumption
  <2>2. own \subseteq Wants[p] /\ own # {}
    BY DEF Batches
  <2> QED
    BY <2>1, <2>2 DEF Batch
<1>2. m.accepted \in Proposal \cup {NoProposal}
  BY DEF TypeOK, Promise
<1> QED
  BY <1>1, <1>2 DEF Proposal

\* Every handler and every step of an attempt keeps the types of the state.
LEMMA TypeStep ==
    ASSUME TypeOK, BallotInv, Next
    PROVE  TypeOK'
<1> USE DEF TypeOK
<1>1. ASSUME NEW v \in Validator, NEW r \in prepares, Prepare(v, r)
      PROVE  TypeOK'
  <2>1. r.sequence \in Height /\ r.ballot \in Ballot /\ r.ballot.proposer \in Proposer
    BY DEF PrepareRequest, Ballot
  <2>2. promised' \in [Validator -> [Height -> Ballot \cup {NoBallot}]]
    BY <1>1, <2>1 DEF Prepare
  <2>3. [from |-> v, accepted |-> accepted[v][r.sequence]] \in Promise
    BY <2>1 DEF Promise
  <2>4. promises' \in [Proposer -> SUBSET Promise]
    BY <1>1, <2>1, <2>3 DEF Prepare
  <2> QED
    BY <1>1, <2>2, <2>4 DEF Prepare, wireVars
<1>2. ASSUME NEW v \in Validator, NEW q \in proposals, Propose(v, q)
      PROVE  TypeOK'
  <2>1. q.sequence \in Height /\ q.ballot \in Ballot /\ q.transactions \in Batch
    BY DEF ProposalRequest
  <2>2. promised' \in [Validator -> [Height -> Ballot \cup {NoBallot}]]
    BY <1>2, <2>1 DEF Propose
  <2>3. [ballot |-> q.ballot, transactions |-> q.transactions] \in Proposal
    BY <2>1 DEF Proposal
  <2>4. accepted' \in [Validator -> [Height -> Proposal \cup {NoProposal}]]
    BY <1>2, <2>1, <2>3 DEF Propose
  <2>5. Append(certificates[v], q.transactions) \in History
    BY <2>1, AppendHistory
  <2>6. [validator |-> v, ballot |-> q.ballot,
         entry |-> Append(certificates[v], q.transactions)] \in Signature
    BY <2>1, <2>5 DEF Signature
  <2>7. votes' \subseteq Signature
    BY Zenon, <1>2, <2>6 DEF Propose, build_entry
  <2> QED
    BY <1>2, <2>2, <2>4, <2>7 DEF Propose, wireVars, attemptVars
<1>3. ASSUME NEW v \in Validator, NEW c \in commits, Commit(v, c)
      PROVE  TypeOK'
  <2>1. c.entry \in History
    BY DEF CommitRequest
  <2> QED
    BY <1>3, <2>1, ApplyType DEF Commit, wireVars, attemptVars
<1>4. ASSUME NEW v \in Validator, NEW u \in Validator, NEW n \in Height,
             CatchUpTo(v, u, n)
      PROVE  TypeOK'
  <2>1. n \in 0..Len(certificates[u])
    BY <1>4, HistoryLen DEF CatchUpTo, Height
  <2>2. SubSeq(certificates[u], 1, n) \in History
    BY <2>1, PrefixType
  <2> QED
    BY <1>4, <2>2, ApplyType DEF CatchUpTo, wireVars, attemptVars
<1>5. ASSUME NEW p \in Proposer, NEW head \in head_quorum, StartAttempt(p, head)
      PROVE  TypeOK'
  <2>1. head \in History
    <3>1. PICK v \in Validator : head \in Prefixes(certificates[v])
      BY DEF head_quorum
    <3>2. PICK n \in 0..Len(certificates[v]) : head = SubSeq(certificates[v], 1, n)
      BY <3>1 DEF Prefixes
    <3> QED
      BY <3>2, PrefixType
  <2>2. [number |-> number[p] + 1, proposer |-> p] \in Ballot
    BY DEF Ballot
  <2>3. Len(head) + 1 \in Height
    BY <1>5, <2>1, HistoryLen, ClientAssumption DEF StartAttempt, Height
  <2>4. prepares' \subseteq PrepareRequest
    BY <1>5, <2>2, <2>3 DEF StartAttempt, PrepareRequest
  <2> QED
    BY <1>5, <2>1, <2>2, <2>4 DEF StartAttempt, seatVars
<1>6. ASSUME NEW p \in Proposer, NEW m \in promises[p], NEW own \in Batches(p),
             NEW n \in HeldNumbers(p), ClaimHeight(p, m.accepted, own, n)
      PROVE  TypeOK'
  <2>1. ballot[p] \in Ballot /\ Len(base[p]) + 1 \in Height
    BY <1>6 DEF ClaimHeight, BallotInv
  <2>2. proposals' \subseteq ProposalRequest
    BY <1>6, <2>1, ClaimedType DEF ClaimHeight, ProposalRequest
  <2>3. n \in Nat
    BY BallotFields DEF HeldNumbers, PrepareRequest, AnyBallot
  <2>4. number' \in [Proposer -> Nat]
    BY Zenon, <1>6, <2>3, MaxOfTwo DEF ClaimHeight
  <2> QED
    BY <1>6, <2>2, <2>4 DEF ClaimHeight, seatVars
<1>7. ASSUME NEW p \in Proposer, NEW n \in HeldNumbers(p), LoseHeight(p, n)
      PROVE  TypeOK'
  <2>1. n \in Nat
    BY BallotFields DEF HeldNumbers, PrepareRequest, AnyBallot
  <2>2. number' \in [Proposer -> Nat]
    BY <1>7, <2>1, MaxOfTwo DEF LoseHeight
  <2>3. <<>> \in History
    BY EmptySeq DEF History
  <2> QED
    BY <1>7, <2>2, <2>3 DEF LoseHeight, EndAttempt, seatVars, wireVars
<1>8. ASSUME NEW p \in Proposer, Certify(p)
      PROVE  TypeOK'
  <2>1. phase[p] = "propose"
    BY <1>8 DEF Certify
  <2>2. ballot[p] \in Ballot /\ Expected(p) \in History
    BY <2>1, MineType DEF BallotInv
  <2>3. commits' \subseteq CommitRequest
    BY <1>8, <2>2 DEF Certify, CommitRequest
  <2> QED
    BY <1>8, <2>3 DEF Certify, seatVars
<1>9. ASSUME NEW p \in Proposer, EndCommit(p)
      PROVE  TypeOK'
  <2>1. <<>> \in History
    BY EmptySeq DEF History
  <2> QED
    BY <1>9, <2>1 DEF EndCommit, EndAttempt, seatVars, wireVars
<1> QED
  BY <1>1, <1>2, <1>3, <1>4, <1>5, <1>6, <1>7, <1>8, <1>9
     DEF Next, SeatStep, SeatStepOf, AttemptStep

-----------------------------------------------------------------------------
\* Seats only move forward: signatures stay, held heights are given up only to
\* newer ballots or to a decision, and a seat that is past a ballot at a height
\* signs nothing more for it there.

\* store.apply only extends a chain, and drops ballots of decided heights only.
LEMMA ApplyForward ==
    ASSUME TypeOK, NEW v \in Validator, NEW e \in History, Apply(v, e),
           Len(e) >= Len(certificates[v]),
           NEW u \in Validator, NEW h \in Height, NEW b \in Ballot
    PROVE  /\ Past(u, h, b) => Past(u, h, b)'
           /\ Holds(u, h, b) => Holds(u, h, b)'
<1>1. /\ certificates \in [Validator -> History]
      /\ promised \in [Validator -> [Height -> Ballot \cup {NoBallot}]]
  BY DEF TypeOK
<1>2. Len(certificates[u]) \in Nat /\ Len(e) \in Nat /\ h \in Nat
  BY <1>1, HistoryLen DEF Height
<1>3. CASE u # v
  BY <1>1, <1>2, <1>3 DEF Apply, Past, Holds
<1>4. CASE u = v
  <2>1. certificates'[v] = e
    BY <1>1 DEF Apply
  <2>2. h > Len(e) => promised'[v][h] = promised[v][h]
    BY <1>1, <1>2 DEF Apply
  <2> QED
    BY <1>2, <1>4, <2>1, <2>2 DEF Past, Holds
<1> QED
  BY <1>3, <1>4

\* What only grows: ballots held, chains, requests, signatures and counters.
LEMMA Forward ==
    ASSUME TypeOK, Next
    PROVE  /\ votes \subseteq votes'
           /\ proposals \subseteq proposals'
           /\ commits \subseteq commits'
           /\ \A v \in Validator, h \in Height, b \in Ballot :
                  /\ Past(v, h, b) => Past(v, h, b)'
                  /\ Holds(v, h, b) => Holds(v, h, b)'
           /\ \A v \in Validator : Len(certificates'[v]) >= Len(certificates[v])
           /\ \A s \in votes' : s \in votes \/
                  ~Past(s.validator, Len(s.entry), s.ballot)
<1> DEFINE Goal == 
           /\ votes \subseteq votes'
           /\ proposals \subseteq proposals'
           /\ commits \subseteq commits'
           /\ \A v \in Validator, h \in Height, b \in Ballot :
                  /\ Past(v, h, b) => Past(v, h, b)'
                  /\ Holds(v, h, b) => Holds(v, h, b)'
           /\ \A v \in Validator : Len(certificates'[v]) >= Len(certificates[v])
           /\ \A s \in votes' : s \in votes \/
                  ~Past(s.validator, Len(s.entry), s.ballot)
<1>0. /\ certificates \in [Validator -> History]
      /\ promised \in [Validator -> [Height -> Ballot \cup {NoBallot}]]
      /\ \A v \in Validator : Len(certificates[v]) \in Nat
  BY HistoryLen DEF TypeOK
<1>1. ASSUME NEW v \in Validator, NEW r \in prepares, Prepare(v, r)
      PROVE  Goal
  <2>1. r.sequence \in Height /\ r.ballot \in AnyBallot
    BY DEF TypeOK, PrepareRequest, AnyBallot
  <2>2. /\ certificates' = certificates
        /\ promised' = [promised EXCEPT ![v][r.sequence] = r.ballot]
        /\ ~outranks(promised[v][r.sequence], r.ballot)
        /\ UNCHANGED <<votes, proposals, commits>>
    BY <1>1 DEF Prepare, wireVars
  <2>3. ASSUME NEW u \in Validator, NEW h \in Height, NEW b \in Ballot
        PROVE  /\ Past(u, h, b) => Past(u, h, b)'
               /\ Holds(u, h, b) => Holds(u, h, b)'
    <3>1. CASE u = v /\ h = r.sequence
      <4>1. promised[v][h] \in AnyBallot /\ b \in AnyBallot /\ promised'[v][h] = r.ballot
        BY <1>0, <2>1, <2>2, <3>1 DEF AnyBallot
      <4>2. /\ outranks(promised[v][h], b) => outranks(r.ballot, b)
            /\ ~outranks(b, promised[v][h]) => ~outranks(b, r.ballot)
        BY <2>1, <2>2, <3>1, <4>1, BallotTransitive
      <4> QED
        BY <2>2, <3>1, <4>1, <4>2 DEF Past, Holds
    <3>2. CASE ~(u = v /\ h = r.sequence)
      <4>1. promised'[u][h] = promised[u][h]
        BY <1>0, <2>1, <2>2, <3>2
      <4> QED
        BY <2>2, <4>1 DEF Past, Holds
    <3> QED
      BY <3>1, <3>2
  <2> QED
    BY <1>0, <2>2, <2>3
<1>2. ASSUME NEW v \in Validator, NEW q \in proposals, Propose(v, q)
      PROVE  Goal
  <2>1. q.sequence \in Height /\ q.ballot \in AnyBallot /\ q.transactions \in Batch
    BY DEF TypeOK, ProposalRequest, AnyBallot
  <2>2. /\ certificates' = certificates
        /\ promised' = [promised EXCEPT ![v][q.sequence] = q.ballot]
        /\ q.sequence = Len(certificates[v]) + 1
        /\ ~outranks(promised[v][q.sequence], q.ballot)
        /\ UNCHANGED <<proposals, commits>>
        /\ votes' = votes \cup {[validator |-> v, ballot |-> q.ballot,
                                 entry |-> Append(certificates[v], q.transactions)]}
    BY <1>2 DEF Propose, WouldSign, wireVars, build_entry
  <2>3. ASSUME NEW u \in Validator, NEW h \in Height, NEW b \in Ballot
        PROVE  /\ Past(u, h, b) => Past(u, h, b)'
               /\ Holds(u, h, b) => Holds(u, h, b)'
    <3>1. CASE u = v /\ h = q.sequence
      <4>1. promised[v][h] \in AnyBallot /\ b \in AnyBallot /\ promised'[v][h] = q.ballot
        BY <1>0, <2>1, <2>2, <3>1 DEF AnyBallot
      <4>2. /\ outranks(promised[v][h], b) => outranks(q.ballot, b)
            /\ ~outranks(b, promised[v][h]) => ~outranks(b, q.ballot)
        BY <2>1, <2>2, <3>1, <4>1, BallotTransitive
      <4> QED
        BY <2>2, <3>1, <4>1, <4>2 DEF Past, Holds
    <3>2. CASE ~(u = v /\ h = q.sequence)
      <4>1. promised'[u][h] = promised[u][h]
        BY <1>0, <2>1, <2>2, <3>2
      <4> QED
        BY <2>2, <4>1 DEF Past, Holds
    <3> QED
      BY <3>1, <3>2
  <2>4. ASSUME NEW s \in votes', s \notin votes
        PROVE  ~Past(s.validator, Len(s.entry), s.ballot)
    <3>1. /\ s.validator = v /\ s.ballot = q.ballot
          /\ s.entry = Append(certificates[v], q.transactions)
      BY <2>2, <2>4
    <3>2. Len(s.entry) = q.sequence
      BY <1>0, <2>1, <2>2, <3>1, AppendHistory
    <3> QED
      BY <1>0, <2>2, <3>1, <3>2 DEF Past
  <2> QED
    BY <1>0, <2>2, <2>3, <2>4
<1>3. ASSUME NEW v \in Validator, NEW c \in commits, Commit(v, c)
      PROVE  Goal
  <2>1. c.entry \in History /\ Len(c.entry) \in Nat
    BY HistoryLen DEF TypeOK, CommitRequest
  <2>2. Apply(v, c.entry) /\ Len(c.entry) >= Len(certificates[v])
    BY <1>0, <1>3, <2>1 DEF Commit
  <2>3. ASSUME NEW w \in Validator, NEW h \in Height, NEW b \in Ballot
        PROVE  /\ Past(w, h, b) => Past(w, h, b)'
               /\ Holds(w, h, b) => Holds(w, h, b)'
    BY <2>1, <2>2, ApplyForward
  <2>4. \A w \in Validator : Len(certificates'[w]) >= Len(certificates[w])
    BY <1>0, <2>1, <2>2 DEF Apply
  <2>5. UNCHANGED <<votes, proposals, commits>>
    BY <1>3 DEF Commit, wireVars
  <2> QED
    BY <2>3, <2>4, <2>5
<1>4. ASSUME NEW v \in Validator, NEW u \in Validator, NEW n \in Height,
             CatchUpTo(v, u, n)
      PROVE  Goal
  <2>1. n \in 0..Len(certificates[u]) /\ n >= Len(certificates[v])
    BY <1>0, <1>4 DEF CatchUpTo, Height
  <2> DEFINE e == SubSeq(certificates[u], 1, n)
  <2>2. e \in History /\ Len(e) >= Len(certificates[v])
    BY <1>0, <2>1, PrefixType
  <2>3. Apply(v, e) /\ UNCHANGED <<votes, proposals, commits>>
    BY <1>4 DEF CatchUpTo, wireVars
  <2> HIDE DEF e
  <2>4. ASSUME NEW w \in Validator, NEW h \in Height, NEW b \in Ballot
        PROVE  /\ Past(w, h, b) => Past(w, h, b)'
               /\ Holds(w, h, b) => Holds(w, h, b)'
    BY <2>2, <2>3, ApplyForward
  <2>5. \A w \in Validator : Len(certificates'[w]) >= Len(certificates[w])
    BY <1>0, <2>2, <2>3 DEF Apply
  <2> QED
    BY <2>3, <2>4, <2>5
<1>5. ASSUME UNCHANGED seatVars,
             proposals \subseteq proposals', commits \subseteq commits'
      PROVE  Goal
  BY <1>0, <1>5 DEF seatVars, Past, Holds
<1>6. ASSUME AttemptStep PROVE Goal
  <2>1. UNCHANGED seatVars /\ proposals \subseteq proposals' /\ commits \subseteq commits'
    BY Zenon, <1>6 DEF AttemptStep, StartAttempt, ClaimHeight, LoseHeight, Certify,
                EndCommit, wireVars
  <2> QED
    BY <1>5, <2>1
<1> QED
  BY <1>1, <1>2, <1>3, <1>4, <1>6 DEF Next, SeatStep, SeatStepOf

-----------------------------------------------------------------------------
\* Signatures and proposals.

\* A certified chain is a history.
LEMMA ChainType ==
    ASSUME TypeOK, NEW e \in Chain
    PROVE  e \in History
<1>1. <<>> \in History
  BY EmptySeq DEF History
<1> QED
  BY <1>1 DEF TypeOK, Chain, Certified, CommitRequest

\* A signature is for an entry at a height of the chain.
LEMMA VoteType ==
    ASSUME TypeOK, VoteInv, NEW s \in votes
    PROVE  /\ s.validator \in Validator
           /\ s.ballot \in Ballot
           /\ s.entry \in History
           /\ Len(s.entry) \in Height
<1>1. s.validator \in Validator /\ s.ballot \in Ballot /\ s.entry \in History
  BY DEF TypeOK, Signature
<1>2. PICK e \in Chain, q \in proposals :
          q.sequence = Len(e) + 1 /\ s.entry = Append(e, q.transactions)
  BY DEF VoteInv
<1>3. q.sequence \in Height /\ q.transactions \in Batch
  BY DEF TypeOK, ProposalRequest
<1>4. Len(s.entry) = q.sequence
  BY <1>2, <1>3, ChainType, AppendHistory
<1> QED
  BY <1>1, <1>3, <1>4

\* Two signatures under one ballot are for one batch at one height.
LEMMA OneBatchPerBallot ==
    ASSUME TypeOK, BallotInv, VoteInv, NEW s \in votes, NEW t \in votes,
           s.ballot = t.ballot
    PROVE  /\ Len(s.entry) = Len(t.entry)
           /\ s.entry[Len(s.entry)] = t.entry[Len(t.entry)]
<1>1. PICK e \in Chain, q \in proposals :
          /\ q.ballot = s.ballot
          /\ q.sequence = Len(e) + 1 /\ s.entry = Append(e, q.transactions)
  BY DEF VoteInv
<1>2. PICK f \in Chain, r \in proposals :
          /\ r.ballot = t.ballot
          /\ r.sequence = Len(f) + 1 /\ t.entry = Append(f, r.transactions)
  BY DEF VoteInv
<1>3. q = r
  BY <1>1, <1>2 DEF BallotInv
<1>4. q.transactions \in Batch
  BY DEF TypeOK, ProposalRequest
<1>5. /\ Len(s.entry) = q.sequence /\ s.entry[q.sequence] = q.transactions
      /\ Len(t.entry) = q.sequence /\ t.entry[q.sequence] = q.transactions
  <2>1. e \in History /\ f \in History
    BY ChainType
  <2>2. Len(s.entry) = q.sequence /\ s.entry[q.sequence] = q.transactions
    BY <1>1, <1>4, <2>1, AppendHistory
  <2>3. Len(t.entry) = q.sequence /\ t.entry[q.sequence] = q.transactions
    <3>1. q.sequence = Len(f) + 1 /\ t.entry = Append(f, q.transactions)
      BY <1>2, <1>3
    <3>2. /\ Len(Append(f, q.transactions)) = Len(f) + 1
          /\ Append(f, q.transactions)[Len(f) + 1] = q.transactions
      BY <1>4, <2>1, AppendHistory
    <3> QED
      BY <3>1, <3>2
  <2> QED
    BY <2>2, <2>3
<1> QED
  BY <1>5

\* A signature is for a proposal of its height and batch.
LEMMA VotedProposal ==
    ASSUME TypeOK, VoteInv, NEW s \in votes
    PROVE  \E q \in proposals : /\ q.ballot = s.ballot
                                /\ q.sequence = Len(s.entry)
                                /\ q.transactions = s.entry[Len(s.entry)]
<1>1. PICK e \in Chain, q \in proposals :
          /\ q.ballot = s.ballot
          /\ q.sequence = Len(e) + 1 /\ s.entry = Append(e, q.transactions)
  BY DEF VoteInv
<1>2. q.transactions \in Batch
  BY DEF TypeOK, ProposalRequest
<1>3. Len(s.entry) = q.sequence /\ s.entry[q.sequence] = q.transactions
  BY <1>1, <1>2, ChainType, AppendHistory
<1> QED
  BY <1>1, <1>3

\* What is safe stays safe.
LEMMA SafeStable ==
    ASSUME TypeOK, Next, NEW h \in Height, NEW b \in Ballot, NEW txs,
           SafeAt(h, b, txs)
    PROVE  SafeAt(h, b, txs)'
<1> SUFFICES ASSUME NEW d \in Ballot, outranks(b, d)
             PROVE  \E Q \in Quorum : \A v \in Q :
                        SignedFor(v, h, d, txs)' \/ WontSign(v, h, d)'
  BY DEF SafeAt
<1>1. PICK Q \in Quorum : \A v \in Q : SignedFor(v, h, d, txs) \/ WontSign(v, h, d)
  BY DEF SafeAt
<1>2. ASSUME NEW v \in Q PROVE SignedFor(v, h, d, txs)' \/ WontSign(v, h, d)'
  <2>1. v \in Validator
    BY DEF Quorum
  <2>2. CASE SignedFor(v, h, d, txs)
    BY <2>2, Forward DEF SignedFor
  <2>3. CASE WontSign(v, h, d)
    <3>1. Past(v, h, d) /\ Past(v, h, d)'
      BY <2>1, <2>3, Forward DEF WontSign
    <3>2. ~Signed(v, h, d)'
      BY <2>3, <3>1, Forward DEF WontSign, Signed
    <3> QED
      BY <3>1, <3>2 DEF WontSign
  <2> QED
    BY <1>1, <2>2, <2>3
<1> QED
  BY <1>2

=============================================================================
