------------------------- MODULE QuorumLedgerSteps --------------------------
(***************************************************************************)
(* What ballots, signatures, seats and promises say of each other is kept  *)
(* by every handler of a validator and every step of a client.             *)
(***************************************************************************)
EXTENDS QuorumLedgerInvariant

-----------------------------------------------------------------------------
\* Each conjunct is preserved.

\* Every step keeps one attempt per ballot and one batch per proposal.
LEMMA BallotStep ==
    ASSUME TypeOK, BallotInv, Next
    PROVE  BallotInv'
<1>0. /\ prepares \subseteq PrepareRequest /\ proposals \subseteq ProposalRequest
      /\ phase \in [Proposer -> {"idle", "prepare", "propose", "commit"}]
      /\ number \in [Proposer -> Nat]
      /\ ballot \in [Proposer -> Ballot \cup {NoBallot}]
      /\ base \in [Proposer -> History]
      /\ promises \in [Proposer -> SUBSET Promise]
  BY DEF TypeOK
<1>1. ASSUME NEW v \in Validator, NEW r \in prepares, Prepare(v, r)
      PROVE  BallotInv'
  <2>1. UNCHANGED <<prepares, proposals, phase, number, ballot, base>>
    BY <1>1 DEF Prepare, wireVars
  <2>2. \A p \in Proposer : phase[p] # "prepare" => promises'[p] = promises[p]
    BY <1>0, <1>1 DEF Prepare, Awaits
  <2> QED
    BY <2>1, <2>2 DEF BallotInv
<1>2. ASSUME UNCHANGED <<wireVars, attemptVars>>
      PROVE  BallotInv'
  BY <1>2 DEF BallotInv, wireVars, attemptVars
<1>3. ASSUME NEW p \in Proposer, NEW head \in head_quorum, StartAttempt(p, head)
      PROVE  BallotInv'
  <2> DEFINE b == [number |-> number[p] + 1, proposer |-> p]
  <2>1. b \in Ballot /\ b.number = number[p] + 1 /\ b.proposer = p
    BY <1>0 DEF Ballot
  <2>2. /\ number' = [number EXCEPT ![p] = number[p] + 1]
        /\ ballot' = [ballot EXCEPT ![p] = b]
        /\ base' = [base EXCEPT ![p] = head]
        /\ prepares' = prepares \cup {[sequence |-> Len(head) + 1, ballot |-> b]}
        /\ phase' = [phase EXCEPT ![p] = "prepare"]
        /\ phase[p] = "idle" /\ Len(head) < MaxHeight
        /\ UNCHANGED <<proposals, promises>>
    BY <1>3 DEF StartAttempt
  <2>3. Len(head) + 1 \in Height
    <3>1. PICK v \in Validator : head \in Prefixes(certificates[v])
      BY DEF head_quorum
    <3>2. PICK n \in 0..Len(certificates[v]) : head = SubSeq(certificates[v], 1, n)
      BY <3>1 DEF Prefixes
    <3>3. Len(head) \in Nat
      BY <3>2, PrefixType, HistoryLen DEF TypeOK
    <3> QED
      BY <2>2, <3>3, ClientAssumption DEF Height
  <2>4. \A r \in prepares : r.ballot # b
    <3>1. \A r \in prepares : r.ballot.number <= number[r.ballot.proposer]
      BY DEF BallotInv
    <3> QED
      BY <1>0, <2>1, <3>1
  <2>5. \A q \in proposals : q.ballot # b
    <3>1. \A q \in proposals : q.ballot.number <= number[q.ballot.proposer]
      BY DEF BallotInv
    <3> QED
      BY <1>0, <2>1, <3>1
  <2> HIDE DEF b
  <2>6. \A x \in Proposer : number'[x] \in Nat /\ number[x] \in Nat /\ number[x] <= number'[x]
    BY <1>0, <2>2
  <2>7. \A r \in prepares \cup proposals :
            r.ballot.proposer \in Proposer /\ r.ballot.number \in Nat
    BY <1>0 DEF PrepareRequest, ProposalRequest, Ballot
  <2>8. \A r \in prepares' : r.ballot.number <= number'[r.ballot.proposer]
    <3>1. ASSUME NEW r \in prepares PROVE r.ballot.number <= number'[r.ballot.proposer]
      <4>1. r.ballot.number <= number[r.ballot.proposer]
        BY DEF BallotInv
      <4> QED
        BY <2>6, <2>7, <4>1
    <3>2. b.number <= number'[b.proposer]
      BY <1>0, <2>1, <2>2, <2>6
    <3> QED
      BY <2>2, <3>1, <3>2
  <2>9. \A q \in proposals' : q.ballot.number <= number'[q.ballot.proposer]
    <3>1. ASSUME NEW q \in proposals PROVE q.ballot.number <= number'[q.ballot.proposer]
      <4>1. q.ballot.number <= number[q.ballot.proposer]
        BY DEF BallotInv
      <4> QED
        BY <2>6, <2>7, <4>1
    <3> QED
      BY <2>2, <3>1
  <2>10. ASSUME NEW x \in Proposer
         PROVE  /\ phase'[x] # "idle" =>
                       /\ ballot'[x] \in Ballot
                       /\ ballot'[x].proposer = x
                       /\ ballot'[x].number <= number'[x]
                       /\ Len(base'[x]) + 1 \in Height
                /\ phase'[x] = "prepare" =>
                       /\ \A r \in prepares' :
                              r.ballot = ballot'[x] => r.sequence = Len(base'[x]) + 1
                       /\ \A q \in proposals' : q.ballot # ballot'[x]
                /\ phase'[x] = "propose" => \E q \in proposals' : q.ballot = ballot'[x]
                /\ phase'[x] # "prepare" => promises'[x] = {}
    <3>1. CASE x = p
      <4>1. ballot'[x] = b /\ base'[x] = head /\ phase'[x] = "prepare"
            /\ number'[x] = number[p] + 1
        BY <1>0, <2>2, <3>1
      <4>2. ballot'[x].number <= number'[x]
        BY <1>0, <2>1, <4>1
      <4> QED
        BY <2>1, <2>2, <2>3, <2>4, <2>5, <3>1, <4>1, <4>2
    <3>2. CASE x # p
      <4>1. /\ ballot'[x] = ballot[x] /\ base'[x] = base[x] /\ phase'[x] = phase[x]
            /\ number'[x] = number[x] /\ promises'[x] = promises[x]
        BY <1>0, <2>2, <3>2
      <4>2. phase[x] # "idle" => ballot[x].proposer = x
        BY DEF BallotInv
      <4>3. phase[x] # "idle" => ballot[x] # b
        BY <2>1, <3>2, <4>2
      <4> QED
        BY <2>2, <4>1, <4>3 DEF BallotInv
    <3> QED
      BY Zenon, <3>1, <3>2
  <2> QED
    BY <2>2, <2>8, <2>9, <2>10 DEF BallotInv
<1>4. ASSUME NEW p \in Proposer, NEW m \in promises[p], NEW own \in Batches(p),
             NEW n \in HeldNumbers(p), ClaimHeight(p, m.accepted, own, n)
      PROVE  BallotInv'
  <2>1. PICK txs \in Batch :
            proposals' = proposals \cup {[sequence |-> Len(base[p]) + 1,
                                          ballot |-> ballot[p], transactions |-> txs]}
    BY Zenon, <1>4, ClaimedType DEF ClaimHeight
  <2>2. /\ phase[p] = "prepare"
        /\ phase' = [phase EXCEPT ![p] = "propose"]
        /\ promises' = [promises EXCEPT ![p] = {}]
        /\ number' = [number EXCEPT ![p] = Max({number[p], n})]
        /\ UNCHANGED <<prepares, ballot, base>>
    BY Zenon, <1>4 DEF ClaimHeight
  <2>3. /\ ballot[p] \in Ballot /\ ballot[p].proposer = p
        /\ ballot[p].number <= number[p]
        /\ \A q \in proposals : q.ballot # ballot[p]
    BY <2>2 DEF BallotInv
  <2> DEFINE new == [sequence |-> Len(base[p]) + 1, ballot |-> ballot[p],
                     transactions |-> txs]
  <2>4. proposals' = proposals \cup {new} /\ new.ballot = ballot[p]
    BY <2>1
  <2> HIDE DEF new
  <2>5. \A x \in Proposer : number'[x] \in Nat /\ number[x] \in Nat /\ number[x] <= number'[x]
    <3>1. n \in Nat
      BY <1>0, BallotFields DEF HeldNumbers, PrepareRequest, AnyBallot
    <3>2. number'[p] \in Nat /\ number'[p] >= number[p]
      BY <1>0, <2>2, <3>1, MaxOfTwo
    <3> QED
      BY <1>0, <2>2, <3>2
  <2>6. \A r \in prepares \cup proposals' :
            /\ r.ballot.proposer \in Proposer /\ r.ballot.number \in Nat
            /\ r.ballot.number <= number[r.ballot.proposer]
    <3>1. \A r \in prepares \cup proposals :
              /\ r.ballot.proposer \in Proposer /\ r.ballot.number \in Nat
              /\ r.ballot.number <= number[r.ballot.proposer]
      BY <1>0 DEF BallotInv, PrepareRequest, ProposalRequest, Ballot
    <3>2. ballot[p].number \in Nat
      BY <2>3 DEF Ballot
    <3> QED
      BY <2>3, <2>4, <3>1, <3>2
  <2>7. \A r \in prepares \cup proposals' : r.ballot.number <= number'[r.ballot.proposer]
    BY <2>5, <2>6
  <2>8. \A q, r \in proposals' : q.ballot = r.ballot => q = r
    BY <2>3, <2>4 DEF BallotInv
  <2>9. ASSUME NEW x \in Proposer
        PROVE  /\ phase'[x] # "idle" =>
                      /\ ballot'[x] \in Ballot
                      /\ ballot'[x].proposer = x
                      /\ ballot'[x].number <= number'[x]
                      /\ Len(base'[x]) + 1 \in Height
               /\ phase'[x] = "prepare" =>
                      /\ \A r \in prepares' :
                             r.ballot = ballot'[x] => r.sequence = Len(base'[x]) + 1
                      /\ \A q \in proposals' : q.ballot # ballot'[x]
               /\ phase'[x] = "propose" => \E q \in proposals' : q.ballot = ballot'[x]
               /\ phase'[x] # "prepare" => promises'[x] = {}
    <3>1. phase[x] # "idle" => ballot[x].number <= number'[x]
      <4>1. phase[x] # "idle" => ballot[x] \in Ballot /\ ballot[x].number <= number[x]
        BY DEF BallotInv
      <4>2. phase[x] # "idle" => ballot[x].number \in Nat
        BY <4>1 DEF Ballot
      <4> QED
        BY <2>5, <4>1, <4>2
    <3>2. CASE x = p
      <4>1. phase'[x] = "propose" /\ promises'[x] = {}
        BY <1>0, <2>2, <3>2
      <4>2. Len(base[x]) + 1 \in Height
        BY <2>2, <3>2 DEF BallotInv
      <4> QED
        BY <2>2, <2>3, <2>4, <3>1, <3>2, <4>1, <4>2
    <3>3. CASE x # p
      <4>1. phase'[x] = phase[x] /\ promises'[x] = promises[x]
        BY <1>0, <2>2, <3>3
      <4>2. phase[x] # "idle" => ballot[x] # ballot[p]
        <5>1. phase[x] # "idle" => ballot[x].proposer = x
          BY DEF BallotInv
        <5> QED
          BY <2>3, <3>3, <5>1
      <4>3. phase[x] = "prepare" => \A q \in proposals' : q.ballot # ballot[x]
        <5>1. phase[x] = "prepare" => \A q \in proposals : q.ballot # ballot[x]
          BY DEF BallotInv
        <5> QED
          BY <2>4, <4>2, <5>1
      <4>4. phase[x] = "propose" => \E q \in proposals' : q.ballot = ballot[x]
        BY <2>4 DEF BallotInv
      <4> QED
        BY <2>2, <3>1, <4>1, <4>3, <4>4 DEF BallotInv
    <3> QED
      BY Zenon, <3>2, <3>3
  <2> QED
    BY Zenon, <2>2, <2>7, <2>8, <2>9 DEF BallotInv
<1>5. ASSUME NEW p \in Proposer, NEW n \in HeldNumbers(p), LoseHeight(p, n)
      PROVE  BallotInv'
  <2>1. n \in Nat
    BY <1>0, BallotFields DEF HeldNumbers, PrepareRequest, AnyBallot
  <2>2. /\ number' = [number EXCEPT ![p] = Max({number[p], n})]
        /\ phase' = [phase EXCEPT ![p] = "idle"]
        /\ ballot' = [ballot EXCEPT ![p] = NoBallot]
        /\ base' = [base EXCEPT ![p] = <<>>]
        /\ promises' = [promises EXCEPT ![p] = {}]
        /\ UNCHANGED <<prepares, proposals>>
    BY <1>5 DEF LoseHeight, EndAttempt, wireVars
  <2>3. number'[p] \in Nat /\ number'[p] >= number[p]
    BY <1>0, <2>1, <2>2, MaxOfTwo
  <2>4. \A x \in Proposer : number'[x] \in Nat /\ number[x] \in Nat /\ number[x] <= number'[x]
    BY <1>0, <2>2, <2>3
  <2>5. \A r \in prepares \cup proposals :
            r.ballot.proposer \in Proposer /\ r.ballot.number \in Nat
    BY <1>0 DEF PrepareRequest, ProposalRequest, Ballot
  <2>6. \A r \in prepares \cup proposals : r.ballot.number <= number'[r.ballot.proposer]
    <3>1. \A r \in prepares \cup proposals : r.ballot.number <= number[r.ballot.proposer]
      BY DEF BallotInv
    <3> QED
      BY <2>4, <2>5, <3>1
  <2>7. \A x \in Proposer : x # p =>
            /\ phase'[x] = phase[x] /\ promises'[x] = promises[x]
            /\ ballot'[x] = ballot[x] /\ base'[x] = base[x] /\ number'[x] = number[x]
    BY <1>0, <2>2
  <2>8. phase'[p] = "idle" /\ promises'[p] = {}
    BY <1>0, <2>2
  <2>9. /\ \A r \in prepares' : r.ballot.number <= number'[r.ballot.proposer]
        /\ \A q \in proposals' : q.ballot.number <= number'[q.ballot.proposer]
        /\ \A q, r \in proposals' : q.ballot = r.ballot => q = r
    BY Zenon, <2>2, <2>6 DEF BallotInv
  <2>10. ASSUME NEW x \in Proposer
         PROVE  /\ phase'[x] # "idle" =>
                       /\ ballot'[x] \in Ballot
                       /\ ballot'[x].proposer = x
                       /\ ballot'[x].number <= number'[x]
                       /\ Len(base'[x]) + 1 \in Height
                /\ phase'[x] = "prepare" =>
                       /\ \A r \in prepares' :
                              r.ballot = ballot'[x] => r.sequence = Len(base'[x]) + 1
                       /\ \A q \in proposals' : q.ballot # ballot'[x]
                /\ phase'[x] = "propose" => \E q \in proposals' : q.ballot = ballot'[x]
                /\ phase'[x] # "prepare" => promises'[x] = {}
    <3>1. CASE x = p
      BY Zenon, <2>8, <3>1
    <3>2. CASE x # p
      BY SMTT(30), <2>2, <2>7, <3>2 DEF BallotInv
    <3> QED
      BY Zenon, <3>1, <3>2
  <2> QED
    BY Zenon, <2>9, <2>10 DEF BallotInv
<1>6. ASSUME NEW p \in Proposer, Certify(p)
      PROVE  BallotInv'
  <2>1. /\ phase[p] = "propose"
        /\ phase' = [phase EXCEPT ![p] = "commit"]
        /\ UNCHANGED <<prepares, proposals, number, ballot, base, promises>>
    BY <1>6 DEF Certify
  <2>2. phase'[p] = "commit" /\ \A x \in Proposer : x # p => phase'[x] = phase[x]
    BY <1>0, <2>1
  <2> QED
    BY <2>1, <2>2 DEF BallotInv
<1>7. ASSUME NEW p \in Proposer, EndCommit(p)
      PROVE  BallotInv'
  <2>1. /\ phase' = [phase EXCEPT ![p] = "idle"]
        /\ ballot' = [ballot EXCEPT ![p] = NoBallot]
        /\ base' = [base EXCEPT ![p] = <<>>]
        /\ promises' = [promises EXCEPT ![p] = {}]
        /\ UNCHANGED <<prepares, proposals, number>>
    BY <1>7 DEF EndCommit, EndAttempt, wireVars
  <2>2. \A x \in Proposer : x # p =>
            /\ phase'[x] = phase[x] /\ promises'[x] = promises[x]
            /\ ballot'[x] = ballot[x] /\ base'[x] = base[x]
    BY <1>0, <2>1
  <2>3. phase'[p] = "idle" /\ promises'[p] = {}
    BY <1>0, <2>1
  <2> QED
    BY <2>1, <2>2, <2>3 DEF BallotInv
<1> QED
  BY Zenon, <1>1, <1>2, <1>3, <1>4, <1>5, <1>6, <1>7
     DEF Next, SeatStep, SeatStepOf, AttemptStep, Propose, Commit, CatchUpTo

\* Every step keeps each signature backed by its proposal and by its chain.
LEMMA VoteStep ==
    ASSUME TypeOK, VoteInv, SeatInv, Next
    PROVE  VoteInv'
<1>1. votes \subseteq votes' /\ proposals \subseteq proposals' /\ commits \subseteq commits'
  BY Forward
<1>2. Chain \subseteq Chain'
  BY <1>1 DEF Chain, Certified
<1>3. ASSUME votes' = votes PROVE VoteInv'
  BY <1>1, <1>2, <1>3 DEF VoteInv
<1>4. ASSUME NEW v \in Validator, NEW q \in proposals, Propose(v, q)
      PROVE  VoteInv'
  <2>1. /\ votes' = votes \cup {[validator |-> v, ballot |-> q.ballot,
                                 entry |-> Append(certificates[v], q.transactions)]}
        /\ q.sequence = Len(certificates[v]) + 1
        /\ claims_fresh(certificates[v], q.transactions)
    BY <1>4 DEF Propose, WouldSign, build_entry
  <2>2. certificates[v] \in Chain'
    BY <1>2 DEF SeatInv
  <2>3. q \in proposals'
    BY <1>1
  <2>4. ASSUME NEW s \in votes'
        PROVE  \E e \in Chain', r \in proposals' :
                   /\ r.ballot = s.ballot
                   /\ r.sequence = Len(e) + 1
                   /\ s.entry = Append(e, r.transactions)
                   /\ claims_fresh(e, r.transactions)
    <3>1. CASE s \in votes
      BY <1>1, <1>2, <3>1 DEF VoteInv
    <3>2. CASE s \notin votes
      <4>1. s.ballot = q.ballot /\ s.entry = Append(certificates[v], q.transactions)
        BY <2>1, <3>2
      <4> QED
        BY <2>1, <2>2, <2>3, <4>1
    <3> QED
      BY <3>1, <3>2
  <2> QED
    BY <2>4 DEF VoteInv
<1>5. ASSUME AttemptStep PROVE votes' = votes
  BY Zenon, <1>5 DEF AttemptStep, StartAttempt, ClaimHeight, LoseHeight, Certify,
              EndCommit, seatVars
<1> QED
  BY <1>3, <1>4, <1>5 DEF Next, SeatStep, SeatStepOf, Prepare, Commit, CatchUpTo

\* The prefixes of a certified chain are chains.
LEMMA PrefixChain ==
    ASSUME TypeOK, CertInv, NEW e \in Chain, NEW n \in 0..Len(e)
    PROVE  SubSeq(e, 1, n) \in Chain
<1>1. e \in History /\ Len(e) \in Nat
  BY ChainType, HistoryLen
<1>2. CASE n = 0
  <2>1. SubSeq(e, 1, n) = <<>>
    BY <1>2, SubSeqEmpty
  <2> QED
    BY <2>1 DEF Chain
<1>3. CASE n # 0
  <2>1. n \in 1..Len(e)
    BY <1>1, <1>3
  <2>2. e # <<>>
    BY <1>1, <2>1, EmptySeq
  <2> QED
    BY <2>1, <2>2 DEF CertInv, Chain
<1> QED
  BY <1>2, <1>3

\* Every step keeps the seats on certified chains, with ballots above them.
LEMMA SeatInvStep ==
    ASSUME TypeOK, VoteInv, SeatInv, CertInv, Next
    PROVE  SeatInv'
<1>0. /\ certificates \in [Validator -> History]
      /\ promised \in [Validator -> [Height -> Ballot \cup {NoBallot}]]
      /\ accepted \in [Validator -> [Height -> Proposal \cup {NoProposal}]]
      /\ \A v \in Validator : Len(certificates[v]) \in Nat
  BY HistoryLen DEF TypeOK
<1>1. /\ votes \subseteq votes'
      /\ \A v \in Validator : Len(certificates'[v]) >= Len(certificates[v])
      /\ Chain \subseteq Chain'
  BY Forward DEF Chain, Certified
<1>2. ASSUME NEW s \in votes
      PROVE  Holds(s.validator, Len(s.entry), s.ballot)'
  BY VoteType, Forward DEF SeatInv
<1>3. ASSUME NEW v \in Validator, NEW h \in Height, NEW b, NEW txs, SignedFor(v, h, b, txs)
      PROVE  SignedFor(v, h, b, txs)'
  BY <1>1, <1>3 DEF SignedFor
<1>4. ASSUME UNCHANGED <<certificates, accepted, votes>>
      PROVE  SeatInv'
  BY ZenonT(40), <1>1, <1>2, <1>3, <1>4 DEF SeatInv
<1>5. ASSUME NEW v \in Validator, NEW q \in proposals, Propose(v, q)
      PROVE  SeatInv'
  <2> DEFINE new == [validator |-> v, ballot |-> q.ballot,
                     entry |-> Append(certificates[v], q.transactions)]
             h == q.sequence
  <2>1. h \in Height /\ q.ballot \in Ballot /\ q.transactions \in Batch
    BY DEF TypeOK, ProposalRequest
  <2>2. /\ certificates' = certificates
        /\ promised' = [promised EXCEPT ![v][h] = q.ballot]
        /\ accepted' = [accepted EXCEPT ![v][h] =
               [ballot |-> q.ballot, transactions |-> q.transactions]]
        /\ h = Len(certificates[v]) + 1
        /\ ~outranks(promised[v][h], q.ballot)
        /\ votes' = votes \cup {new}
    BY SMTT(30), <1>5 DEF Propose, WouldSign, build_entry
  <2>3. Len(new.entry) = h /\ new.entry[h] = q.transactions
    BY <1>0, <2>1, <2>2, AppendHistory
  <2>4. /\ promised'[v][h] = q.ballot
        /\ accepted'[v][h] = [ballot |-> q.ballot, transactions |-> q.transactions]
        /\ \A u \in Validator, g \in Height :
               u # v \/ g # h => accepted'[u][g] = accepted[u][g]
    BY <1>0, <2>1, <2>2
  <2>5. ~outranks(q.ballot, q.ballot)
    BY SMTT(30), <2>1, BallotOrder DEF AnyBallot
  <2>6. ASSUME NEW s \in votes'
        PROVE  /\ Holds(s.validator, Len(s.entry), s.ballot)'
               /\ \/ Len(certificates'[s.validator]) >= Len(s.entry)
                  \/ ~outranks(s.ballot, accepted'[s.validator][Len(s.entry)].ballot)
    <3>1. CASE s = new
      BY <2>3, <2>4, <2>5, <3>1 DEF Holds
    <3>2. CASE s \in votes /\ s.validator = v /\ Len(s.entry) = h
      <4>1. Holds(v, h, s.ballot)
        BY <3>2 DEF SeatInv
      <4>2. ~outranks(s.ballot, promised[v][h])
        BY <1>0, <2>2, <4>1 DEF Holds
      <4>3. s.ballot \in AnyBallot /\ promised[v][h] \in AnyBallot /\ q.ballot \in AnyBallot
        BY <1>0, <2>1, <3>2, VoteType DEF AnyBallot
      <4>4. ~outranks(s.ballot, q.ballot)
        BY <2>2, <4>2, <4>3, BallotTransitive
      <4> QED
        BY <1>2, <2>4, <3>2, <4>4
    <3>3. CASE s \in votes /\ ~(s.validator = v /\ Len(s.entry) = h)
      <4>1. s.validator \in Validator /\ Len(s.entry) \in Height
        BY <3>3, VoteType
      <4>2. accepted'[s.validator][Len(s.entry)] = accepted[s.validator][Len(s.entry)]
        BY <2>4, <3>3, <4>1
      <4> QED
        BY <1>2, <2>2, <3>3, <4>2 DEF SeatInv
    <3> QED
      BY SMTT(30), <2>2, <3>1, <3>2, <3>3
  <2>7. ASSUME NEW u \in Validator, NEW g \in Height, accepted'[u][g] # NoProposal
        PROVE  SignedFor(u, g, accepted[u][g].ballot, accepted[u][g].transactions)'
    <3>1. CASE u = v /\ g = h
      <4>1. new \in votes'
        BY <2>2
      <4> QED
        BY <2>3, <2>4, <3>1, <4>1 DEF SignedFor
    <3>2. CASE u # v \/ g # h
      <4>1. accepted'[u][g] = accepted[u][g] /\ accepted[u][g] # NoProposal
        BY <2>4, <2>7, <3>2
      <4>2. SignedFor(u, g, accepted[u][g].ballot, accepted[u][g].transactions)
        BY <4>1 DEF SeatInv
      <4> QED
        BY <1>1, <4>1, <4>2 DEF SignedFor
    <3> QED
      BY <3>1, <3>2
  <2>8. \A u \in Validator : certificates'[u] \in Chain'
    BY <1>1, <2>2 DEF SeatInv
  <2> QED
    BY <2>6, <2>7, <2>8 DEF SeatInv
<1>6. ASSUME NEW v \in Validator, NEW e \in History, Apply(v, e), e \in Chain,
             UNCHANGED votes
      PROVE  SeatInv'
  <2>1. /\ certificates' = [certificates EXCEPT ![v] = e]
        /\ certificates'[v] = e
        /\ \A h \in Height : h <= Len(e) => accepted'[v][h] = NoProposal
        /\ \A h \in Height : ~(h <= Len(e)) => accepted'[v][h] = accepted[v][h]
        /\ \A u \in Validator : u # v => accepted'[u] = accepted[u]
    BY <1>0, <1>6 DEF Apply
  <2>2. ASSUME NEW s \in votes
        PROVE  \/ Len(certificates'[s.validator]) >= Len(s.entry)
               \/ ~outranks(s.ballot, accepted'[s.validator][Len(s.entry)].ballot)
    <3>1. s.validator \in Validator /\ Len(s.entry) \in Height
      BY VoteType
    <3>2. \/ Len(certificates[s.validator]) >= Len(s.entry)
          \/ ~outranks(s.ballot, accepted[s.validator][Len(s.entry)].ballot)
      BY DEF SeatInv
    <3>3. CASE s.validator # v
      BY <1>0, <2>1, <3>1, <3>2, <3>3
    <3>4. CASE s.validator = v
      <4>1. Len(e) \in Nat /\ Len(s.entry) \in Nat /\ Len(e) >= Len(certificates[v])
        BY SMTT(30), <1>0, <1>1, <2>1, <3>1, HistoryLen DEF Height
      <4> QED
        BY <1>0, <2>1, <3>1, <3>2, <3>4, <4>1
    <3> QED
      BY <3>3, <3>4
  <2>3. ASSUME NEW u \in Validator, NEW g \in Height, accepted'[u][g] # NoProposal
        PROVE  SignedFor(u, g, accepted[u][g].ballot, accepted[u][g].transactions)'
    <3>1. accepted'[u][g] = accepted[u][g]
      BY SMTT(30), <2>1, <2>3
    <3>2. SignedFor(u, g, accepted[u][g].ballot, accepted[u][g].transactions)
      BY <2>3, <3>1 DEF SeatInv
    <3> QED
      BY <1>1, <3>1, <3>2 DEF SignedFor
  <2>4. \A u \in Validator : certificates'[u] \in Chain'
    BY Zenon, <1>0, <1>1, <1>6, <2>1 DEF SeatInv
  <2> QED
    BY Zenon, <1>2, <1>6, <2>2, <2>3, <2>4 DEF SeatInv
<1>7. ASSUME NEW v \in Validator, NEW c \in commits, Commit(v, c)
      PROVE  SeatInv'
  <2>1. c.entry \in History /\ c.entry \in Chain
    BY DEF TypeOK, CommitRequest, Chain, Certified
  <2> QED
    BY <1>6, <1>7, <2>1 DEF Commit
<1>8. ASSUME NEW v \in Validator, NEW u \in Validator, NEW n \in Height,
             CatchUpTo(v, u, n)
      PROVE  SeatInv'
  <2>1. n \in 0..Len(certificates[u]) /\ certificates[u] \in Chain
    BY <1>0, <1>8 DEF CatchUpTo, Height, SeatInv
  <2>2. SubSeq(certificates[u], 1, n) \in History /\ SubSeq(certificates[u], 1, n) \in Chain
    BY Zenon, <1>0, <2>1, PrefixType, PrefixChain
  <2> QED
    BY SMTT(30), <1>6, <1>8, <2>2 DEF CatchUpTo
<1>9. ASSUME AttemptStep PROVE UNCHANGED <<certificates, accepted, votes>>
  BY Zenon, <1>9 DEF AttemptStep, StartAttempt, ClaimHeight, LoseHeight, Certify,
              EndCommit, seatVars
<1> QED
  BY <1>4, <1>5, <1>7, <1>8, <1>9 DEF Next, SeatStep, SeatStepOf, Prepare

\* Every step keeps what the promises of an attempt say of their seats.
LEMMA PromiseStep ==
    ASSUME TypeOK, BallotInv, VoteInv, SeatInv, PromiseInv, Next
    PROVE  PromiseInv'
<1>0. /\ certificates \in [Validator -> History]
      /\ promised \in [Validator -> [Height -> Ballot \cup {NoBallot}]]
      /\ accepted \in [Validator -> [Height -> Proposal \cup {NoProposal}]]
      /\ promises \in [Proposer -> SUBSET Promise]
      /\ \A v \in Validator : Len(certificates[v]) \in Nat
  BY HistoryLen DEF TypeOK
<1>1. votes \subseteq votes'
  BY Forward
\* A promise the step does not touch still binds.
<1>2. ASSUME NEW p \in Proposer, NEW m \in promises[p],
             ballot'[p] = ballot[p], base'[p] = base[p]
      PROVE  /\ Holds(m.from, Len(base[p]) + 1, ballot[p])'
             /\ m.accepted # NoProposal =>
                    SignedFor(m.from, Len(base[p]) + 1, m.accepted.ballot,
                              m.accepted.transactions)'
             /\ \A s \in votes' :
                    /\ s.validator = m.from
                    /\ Len(s.entry) = Len(base'[p]) + 1
                    /\ outranks(ballot'[p], s.ballot)
                    => ~outranks(s.ballot, m.accepted.ballot)
  <2> DEFINE h == Len(base[p]) + 1
  <2>1. phase[p] = "prepare"
    BY ZenonT(40) DEF BallotInv
  <2>2. ballot[p] \in Ballot /\ h \in Height /\ m.from \in Validator
    <3>1. m \in Promise
      BY <1>0
    <3> QED
      BY <2>1, <3>1 DEF BallotInv, Promise
  <2>3. Holds(m.from, h, ballot[p])
    BY DEF PromiseInv
  <2>4. Holds(m.from, h, ballot[p])'
    <3>1. \A b \in Ballot : Holds(m.from, h, b) => 
              Len(certificates'[m.from]) >= h \/ ~outranks(b, promised'[m.from][h])
      BY <2>2, Forward DEF Holds
    <3> QED
      BY SMTT(30), <1>2, <2>2, <2>3, <3>1 DEF Holds
  <2>5. m.accepted # NoProposal =>
            SignedFor(m.from, h, m.accepted.ballot, m.accepted.transactions)'
    BY Zenon, <1>1, <1>2 DEF PromiseInv, SignedFor
  <2>6. ASSUME NEW s \in votes', s.validator = m.from, Len(s.entry) = h,
               outranks(ballot[p], s.ballot)
        PROVE  ~outranks(s.ballot, m.accepted.ballot)
    <3>1. CASE s \in votes
      BY <2>6, <3>1 DEF PromiseInv
    <3>2. CASE s \notin votes
      <4>1. ~Past(m.from, h, s.ballot)
        BY <2>6, <3>2, Forward
      <4>2. s.ballot \in AnyBallot /\ ballot[p] \in AnyBallot /\ promised[m.from][h] \in AnyBallot
        <5>1. votes' \subseteq Signature
          BY TypeStep DEF TypeOK
        <5> QED
          BY SMTT(30), <1>0, <2>2, <5>1 DEF Signature, AnyBallot
      <4>3. outranks(promised[m.from][h], s.ballot) \/ Len(certificates[m.from]) >= h
        BY ZenonT(40), <2>3, <2>6, <4>2, BallotTransitive DEF Holds
      <4> QED
        BY <4>1, <4>3 DEF Past
    <3> QED
      BY <3>1, <3>2
  <2> QED
    BY Zenon, <1>2, <2>4, <2>5, <2>6
<1>3. ASSUME \A p \in Proposer :
                 \/ promises'[p] = {}
                 \/ /\ promises'[p] = promises[p]
                    /\ ballot'[p] = ballot[p] /\ base'[p] = base[p]
      PROVE  PromiseInv'
  BY <1>2, <1>3 DEF PromiseInv
<1>4. ASSUME NEW v \in Validator, NEW r \in prepares, Prepare(v, r)
      PROVE  PromiseInv'
  <2> DEFINE h == r.sequence
             new == [from |-> v, accepted |-> accepted[v][h]]
  <2>1. h \in Height /\ r.ballot \in Ballot /\ r.ballot.proposer \in Proposer
    BY DEF TypeOK, PrepareRequest, Ballot
  <2>2. /\ h = Len(certificates[v]) + 1
        /\ promised' = [promised EXCEPT ![v][h] = r.ballot]
        /\ UNCHANGED <<certificates, accepted, votes, phase, ballot, base>>
    BY <1>4 DEF Prepare
  <2>3. CASE ~Awaits(r.ballot, "prepare")
    BY <1>3, <1>4, <2>2, <2>3 DEF Prepare
  <2>4. CASE Awaits(r.ballot, "prepare")
    <3> DEFINE p == r.ballot.proposer
    <3>1. /\ phase[p] = "prepare" /\ ballot[p] = r.ballot
          /\ promises' = [promises EXCEPT ![p] = promises[p] \cup {new}]
      BY <1>4, <2>4 DEF Prepare, Awaits
    <3>2. Len(base[p]) + 1 = h
      BY Zenon, <2>1, <3>1 DEF BallotInv
    <3>3. Holds(v, h, r.ballot)'
      <4>1. promised'[v][h] = r.ballot
        BY <1>0, <2>1, <2>2
      <4>2. ~outranks(r.ballot, r.ballot)
        BY <2>1, BallotOrder DEF AnyBallot
      <4> QED
        BY <4>1, <4>2 DEF Holds
    <3>4. new.accepted # NoProposal =>
              SignedFor(v, h, new.accepted.ballot, new.accepted.transactions)
      BY Zenon, <2>1 DEF SeatInv
    <3>5. ASSUME NEW s \in votes, s.validator = v, Len(s.entry) = h
          PROVE  ~outranks(s.ballot, new.accepted.ballot)
      <4>1. \/ Len(certificates[v]) >= h
            \/ ~outranks(s.ballot, accepted[v][h].ballot)
        BY Zenon, <3>5 DEF SeatInv
      <4>2. ~(Len(certificates[v]) >= h)
        BY <1>0, <2>2
      <4> QED
        BY <4>1, <4>2
    <3>6. ASSUME NEW x \in Proposer, NEW m \in promises'[x]
          PROVE  /\ Holds(m.from, Len(base[x]) + 1, ballot[x])'
                 /\ m.accepted # NoProposal =>
                        SignedFor(m.from, Len(base[x]) + 1, m.accepted.ballot,
                                  m.accepted.transactions)'
                 /\ \A s \in votes' :
                        /\ s.validator = m.from
                        /\ Len(s.entry) = Len(base'[x]) + 1
                        /\ outranks(ballot'[x], s.ballot)
                        => ~outranks(s.ballot, m.accepted.ballot)
      <4>1. CASE m \in promises[x]
        BY <1>2, <2>2, <4>1
      <4>2. CASE m \notin promises[x]
        <5>1. x = p /\ m = new
          BY <1>0, <2>1, <3>1, <3>6, <4>2
        <5>2. m.from = v /\ m.accepted = accepted[v][h]
          BY Zenon, <5>1
        <5> QED
          BY Zenon, <2>2, <3>1, <3>2, <3>3, <3>4, <3>5, <5>1, <5>2 DEF SignedFor, Holds
      <4> QED
        BY Zenon, <4>1, <4>2
    <3> QED
      BY Zenon, <3>6 DEF PromiseInv
  <2> QED
    BY <2>3, <2>4
<1>5. ASSUME UNCHANGED attemptVars PROVE PromiseInv'
  BY <1>3, <1>5 DEF attemptVars
<1>6. ASSUME NEW p \in Proposer, NEW head \in head_quorum, StartAttempt(p, head)
      PROVE  PromiseInv'
  <2>1. promises[p] = {}
    BY <1>6 DEF StartAttempt, BallotInv
  <2>2. /\ promises' = promises
        /\ \A x \in Proposer : x # p => ballot'[x] = ballot[x] /\ base'[x] = base[x]
    BY <1>6 DEF StartAttempt, TypeOK
  <2> QED
    BY <1>3, <2>1, <2>2
<1>7. ASSUME NEW p \in Proposer, NEW m \in promises[p], NEW own \in Batches(p),
             NEW n \in HeldNumbers(p), ClaimHeight(p, m.accepted, own, n)
      PROVE  PromiseInv'
  <2>1. promises' = [promises EXCEPT ![p] = {}] /\ UNCHANGED <<ballot, base>>
    BY <1>7 DEF ClaimHeight
  <2> QED
    BY ZenonT(40), <1>0, <1>3, <2>1
<1>8. ASSUME NEW p \in Proposer, EndAttempt(p)
      PROVE  PromiseInv'
  <2>1. \A x \in Proposer : x # p =>
            promises'[x] = promises[x] /\ ballot'[x] = ballot[x] /\ base'[x] = base[x]
    BY <1>8 DEF EndAttempt, TypeOK
  <2>2. promises'[p] = {}
    BY <1>0, <1>8 DEF EndAttempt
  <2> QED
    BY <1>3, <2>1, <2>2
<1>9. ASSUME NEW p \in Proposer, Certify(p)
      PROVE  PromiseInv'
  BY <1>3, <1>9 DEF Certify
<1> QED
  BY Zenon, <1>4, <1>5, <1>6, <1>7, <1>8, <1>9
     DEF Next, SeatStep, SeatStepOf, AttemptStep, Propose, Commit, CatchUpTo,
         LoseHeight, EndCommit

=============================================================================
