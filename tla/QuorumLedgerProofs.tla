------------------------- MODULE QuorumLedgerProofs -------------------------
(***************************************************************************)
(* Proofs, for every validator set, number of clients and heights, of what *)
(* QuorumLedger promises: one entry per height, no fork, no claim spent    *)
(* twice, and the append-only history of module Ledger.                    *)
(***************************************************************************)
EXTENDS QuorumLedgerSteps

-----------------------------------------------------------------------------
\* What is proposed is safe.

\* What claim_height settles on is safe: nothing an older ballot could still
\* certify at the height differs from it.
LEMMA ClaimedIsSafe ==
    ASSUME TypeOK, BallotInv, VoteInv, PromiseInv, SafeInv,
           NEW p \in Proposer, NEW m \in promises[p], NEW own, NEW n,
           ClaimHeight(p, m.accepted, own, n)
    PROVE  SafeAt(Len(base[p]) + 1, ballot[p],
                  IF m.accepted = NoProposal THEN own ELSE m.accepted.transactions)
<1> DEFINE h == Len(base[p]) + 1
           a == m.accepted
           b == ballot[p]
           txs == IF a = NoProposal THEN own ELSE a.transactions
           Q == {x.from : x \in {y \in promises[p] : ~outranks(y.accepted.ballot, a.ballot)}}
<1>1. Q \in Quorum
  BY Zenon DEF ClaimHeight
<1>2. b \in Ballot /\ h \in Height
  <2>1. phase[p] = "prepare"
    BY Zenon DEF ClaimHeight
  <2> QED
    BY <2>1 DEF BallotInv
<1>3. \A x \in promises[p] : /\ x.from \in Validator
                             /\ x.accepted \in Proposal \cup {NoProposal}
                             /\ x.accepted.ballot \in AnyBallot
  <2>1. \A x \in promises[p] : x \in Promise
    BY DEF TypeOK
  <2>2. \A x \in Proposal \cup {NoProposal} : x.ballot \in AnyBallot
    BY DEF Proposal, NoProposal, AnyBallot
  <2> QED
    BY <2>1, <2>2 DEF Promise
<1> SUFFICES ASSUME NEW d \in Ballot, outranks(b, d)
             PROVE  \E R \in Quorum : \A v \in R :
                        SignedFor(v, h, d, txs) \/ WontSign(v, h, d)
  BY Zenon DEF SafeAt
<1>4. a.ballot \in AnyBallot /\ d \in AnyBallot /\ b \in AnyBallot
  BY <1>2, <1>3 DEF AnyBallot
\* The promises close every ballot between a's and ours.
<1>5. ASSUME NEW v \in Q
      PROVE  /\ Past(v, h, d)
             /\ outranks(d, a.ballot) => ~Signed(v, h, d)
  <2>1. PICK x \in promises[p] : x.from = v /\ ~outranks(x.accepted.ballot, a.ballot)
    OBVIOUS
  <2>2. Holds(v, h, b)
    BY Zenon, <2>1 DEF PromiseInv
  <2>3. promised[v][h] \in AnyBallot /\ x.accepted.ballot \in AnyBallot
    BY Zenon, <1>2, <1>3, <2>1 DEF TypeOK, AnyBallot
  <2>4. Past(v, h, d)
    BY Zenon, <1>4, <2>2, <2>3, BallotTransitive DEF Past, Holds
  <2>5. ASSUME outranks(d, a.ballot), Signed(v, h, d) PROVE FALSE
    <3>1. PICK s \in votes : s.validator = v /\ s.ballot = d /\ Len(s.entry) = h
      BY Zenon, <2>5 DEF Signed
    <3>2. ~outranks(d, x.accepted.ballot)
      BY <2>1, <3>1 DEF PromiseInv
    <3> QED
      BY <1>4, <2>1, <2>3, <2>5, <3>2, BallotTransitive
  <2> QED
    BY Zenon, <2>4, <2>5
<1>6. CASE outranks(d, a.ballot)
  BY Zenon, <1>1, <1>5, <1>6 DEF WontSign
<1>7. ASSUME ~outranks(d, a.ballot)
      PROVE  /\ a # NoProposal /\ txs = a.transactions
             /\ \E s \in votes : /\ s.ballot = a.ballot /\ Len(s.entry) = h
                                 /\ s.entry[h] = a.transactions
  <2>1. a # NoProposal
    BY <1>4, <1>7, BallotOrder DEF NoProposal
  <2>2. SignedFor(m.from, h, a.ballot, a.transactions)
    BY Zenon, <2>1 DEF PromiseInv
  <2> QED
    BY <2>1, <2>2 DEF SignedFor
<1>8. CASE d = a.ballot
  <2>1. ~outranks(d, a.ballot)
    BY <1>4, <1>8, BallotOrder
  <2>2. PICK s \in votes : s.ballot = d /\ Len(s.entry) = h /\ s.entry[h] = txs
    BY <1>7, <1>8, <2>1
  <2>3. ASSUME NEW v \in Q PROVE SignedFor(v, h, d, txs) \/ WontSign(v, h, d)
    <3>1. CASE Signed(v, h, d)
      <4>1. PICK t \in votes : t.validator = v /\ t.ballot = d /\ Len(t.entry) = h
        BY <3>1 DEF Signed
      <4>2. t.entry[h] = txs
        BY <2>2, <4>1, OneBatchPerBallot
      <4> QED
        BY Zenon, <4>1, <4>2 DEF SignedFor
    <3>2. CASE ~Signed(v, h, d)
      BY Zenon, <1>5, <3>2 DEF WontSign
    <3> QED
      BY Zenon, <3>1, <3>2
  <2> QED
    BY Zenon, <1>1, <2>3
<1>9. CASE outranks(a.ballot, d)
  <2>1. ~outranks(d, a.ballot)
    BY Zenon, <1>4, <1>9, BallotOrder
  <2>2. PICK s \in votes : s.ballot = a.ballot /\ Len(s.entry) = h /\ s.entry[h] = txs
    BY <1>7, <2>1
  <2>3. PICK q \in proposals : q.ballot = s.ballot /\ q.sequence = h /\ q.transactions = txs
    BY <2>2, VotedProposal
  <2>4. SafeAt(h, a.ballot, txs)
    BY <2>2, <2>3 DEF SafeInv
  <2> QED
    BY Zenon, <1>9, <2>4 DEF SafeAt
<1> QED
  BY Zenon, <1>4, <1>6, <1>8, <1>9, BallotOrder

\* Every step keeps every proposal safe at its ballot.
LEMMA SafeStep ==
    ASSUME TypeOK, BallotInv, VoteInv, PromiseInv, SafeInv, Next
    PROVE  SafeInv'
<1>1. ASSUME NEW q \in proposals
      PROVE  SafeAt(q.sequence, q.ballot, q.transactions)'
  <2>1. q.sequence \in Height /\ q.ballot \in Ballot
    BY DEF TypeOK, ProposalRequest
  <2> QED
    BY <2>1, SafeStable DEF SafeInv
<1>2. ASSUME proposals' = proposals PROVE SafeInv'
  BY <1>1, <1>2 DEF SafeInv
<1>3. ASSUME NEW p \in Proposer, NEW m \in promises[p], NEW own \in Batches(p),
             NEW n \in HeldNumbers(p), ClaimHeight(p, m.accepted, own, n)
      PROVE  SafeInv'
  <2> DEFINE txs == IF m.accepted = NoProposal THEN own ELSE m.accepted.transactions
             new == [sequence |-> Len(base[p]) + 1, ballot |-> ballot[p],
                     transactions |-> txs]
  <2>1. proposals' = proposals \cup {new}
    BY Zenon, <1>3 DEF ClaimHeight
  <2>2. Len(base[p]) + 1 \in Height /\ ballot[p] \in Ballot
    <3>1. phase[p] = "prepare"
      BY Zenon, <1>3 DEF ClaimHeight
    <3> QED
      BY Zenon, <3>1 DEF BallotInv
  <2>3. SafeAt(Len(base[p]) + 1, ballot[p], txs)
    BY Zenon, <1>3, ClaimedIsSafe
  <2>4. ASSUME NEW hh \in Height, NEW bb \in Ballot, NEW tt, SafeAt(hh, bb, tt)
        PROVE  SafeAt(hh, bb, tt)'
    BY Zenon, <2>4, SafeStable
  <2>5. new.sequence \in Height /\ new.ballot \in Ballot
        /\ SafeAt(new.sequence, new.ballot, new.transactions)
    BY Zenon, <2>2, <2>3
  <2> HIDE DEF new
  <2>6. ASSUME NEW q \in proposals'
        PROVE  SafeAt(q.sequence, q.ballot, q.transactions)'
    <3>1. CASE q \in proposals
      BY <1>1, <3>1
    <3>2. CASE q = new
      BY <2>4, <2>5, <3>2
    <3> QED
      BY <2>1, <3>1, <3>2
  <2> QED
    BY <2>6 DEF SafeInv
<1>4. ASSUME SeatStep PROVE proposals' = proposals
  BY Zenon, <1>4 DEF SeatStep, SeatStepOf, Prepare, Propose, Commit, CatchUpTo, wireVars
<1>5. ASSUME NEW p \in Proposer
      PROVE  /\ \A head : StartAttempt(p, head) => proposals' = proposals
             /\ \A n : LoseHeight(p, n) => proposals' = proposals
             /\ Certify(p) \/ EndCommit(p) => proposals' = proposals
  BY Zenon DEF StartAttempt, LoseHeight, Certify, EndCommit, wireVars
<1> QED
  BY Zenon, <1>2, <1>3, <1>4, <1>5 DEF Next, AttemptStep

-----------------------------------------------------------------------------
\* Certificates.

\* A threshold of seats has signed entry e under ballot b.
Backed(b, e) ==
    \E Q \in Quorum : \A v \in Q : [validator |-> v, ballot |-> b, entry |-> e] \in votes

\* Two certificates at one height carry one batch.
LEMMA SameBatch ==
    ASSUME TypeOK, BallotInv, VoteInv, SafeInv,
           NEW b \in Ballot, NEW d \in Ballot, NEW e, NEW f,
           Backed(b, e), Backed(d, f), Len(e) = Len(f),
           b = d \/ outranks(b, d)
    PROVE  e[Len(e)] = f[Len(f)]
<1>1. PICK Q \in Quorum : \A v \in Q : [validator |-> v, ballot |-> b, entry |-> e] \in votes
  BY Zenon DEF Backed
<1>2. PICK R \in Quorum : \A v \in R : [validator |-> v, ballot |-> d, entry |-> f] \in votes
  BY DEF Backed
<1>3. PICK s \in votes : s.ballot = b /\ s.entry = e
  <2>1. PICK v \in Q : TRUE
    BY QuorumNonempty
  <2> QED
    BY Zenon, <1>1, <2>1
<1>4. CASE b = d
  <2>1. PICK t \in votes : t.ballot = d /\ t.entry = f
    <3>1. PICK v \in R : TRUE
      BY QuorumNonempty
    <3> QED
      BY Zenon, <1>2, <3>1
  <2> QED
    BY <1>3, <1>4, <2>1, OneBatchPerBallot
<1>5. CASE outranks(b, d)
  <2>1. SafeAt(Len(e), b, e[Len(e)])
    BY <1>3, VotedProposal DEF SafeInv
  <2>2. PICK S \in Quorum : \A v \in S :
            SignedFor(v, Len(e), d, e[Len(e)]) \/ WontSign(v, Len(e), d)
    BY <1>5, <2>1 DEF SafeAt
  <2>3. PICK v \in Validator : v \in R /\ v \in S
    BY QuorumsMeet
  <2>4. PICK t \in votes : t.validator = v /\ t.ballot = d /\ t.entry = f
    BY Zenon, <1>2, <2>3
  <2>5. Signed(v, Len(e), d)
    BY <2>4 DEF Signed
  <2>6. SignedFor(v, Len(e), d, e[Len(e)])
    BY <2>2, <2>3, <2>5 DEF WontSign
  <2>7. PICK r \in votes : r.ballot = d /\ Len(r.entry) = Len(e) /\ r.entry[Len(e)] = e[Len(e)]
    BY <2>6 DEF SignedFor
  <2> QED
    BY <2>4, <2>7, OneBatchPerBallot
<1> QED
  BY <1>4, <1>5

\* A chain is told by its length.
LEMMA ChainByLength ==
    ASSUME TypeOK, OneEntryPerHeight, NEW e \in Chain, NEW f \in Chain, Len(e) = Len(f),
           \A g \in Certified : Len(g) # 0
    PROVE  e = f
<1>1. Len(<<>>) = 0
  OBVIOUS
<1> QED
  BY <1>1 DEF Chain, OneEntryPerHeight

\* What a signed entry is made of.
LEMMA BackedEntry ==
    ASSUME TypeOK, VoteInv, NEW b, NEW e, Backed(b, e)
    PROVE  \E g \in Chain, txs \in Batch : /\ e = Append(g, txs)
                                           /\ claims_fresh(g, txs)
<1>1. PICK s \in votes : s.entry = e
  <2>1. PICK Q \in Quorum : \A v \in Q : [validator |-> v, ballot |-> b, entry |-> e] \in votes
    BY DEF Backed
  <2>2. PICK v \in Q : TRUE
    BY QuorumNonempty
  <2> QED
    BY Zenon, <2>1, <2>2
<1>2. PICK g \in Chain, q \in proposals : /\ s.entry = Append(g, q.transactions)
                                          /\ claims_fresh(g, q.transactions)
  BY DEF VoteInv
<1>3. q.transactions \in Batch
  BY DEF TypeOK, ProposalRequest
<1> QED
  BY <1>1, <1>2, <1>3

\* Two certificates at one height are for one entry.
LEMMA SameEntry ==
    ASSUME TypeOK, BallotInv, VoteInv, SafeInv, OneEntryPerHeight,
           \A g \in Certified : Len(g) # 0,
           NEW b \in Ballot, NEW d \in Ballot, NEW e, NEW f,
           Backed(b, e), Backed(d, f), Len(e) = Len(f)
    PROVE  e = f
<1>1. e[Len(e)] = f[Len(f)]
  <2>1. b = d \/ outranks(b, d) \/ outranks(d, b)
    BY BallotOrder DEF AnyBallot
  <2>2. CASE b = d \/ outranks(b, d)
    BY <2>2, SameBatch
  <2>3. CASE outranks(d, b)
    BY <2>3, SameBatch
  <2> QED
    BY <2>1, <2>2, <2>3
<1>2. PICK g \in Chain, txs \in Batch : e = Append(g, txs)
  BY BackedEntry
<1>3. PICK h \in Chain, uxs \in Batch : f = Append(h, uxs)
  BY BackedEntry
<1>4. g \in History /\ h \in History
  BY ChainType
<1>5. /\ Len(g) \in Nat /\ Len(e) = Len(g) + 1 /\ e[Len(g) + 1] = txs
      /\ Len(h) \in Nat /\ Len(f) = Len(h) + 1 /\ f[Len(h) + 1] = uxs
  BY Zenon, <1>2, <1>3, <1>4, AppendHistory
<1>6. Len(g) = Len(h) /\ txs = uxs
  <2>1. e[Len(e)] = txs /\ f[Len(f)] = uxs
    BY Zenon, <1>5
  <2>2. Len(g) + 1 = Len(h) + 1
    BY Zenon, <1>5
  <2>3. \A m, n \in Nat : m + 1 = n + 1 => m = n
    OBVIOUS
  <2> QED
    BY <1>1, <1>5, <2>1, <2>2, <2>3
<1>7. g = h
  BY <1>6, ChainByLength
<1> QED
  BY <1>2, <1>3, <1>6, <1>7

\* Every certificate is for an entry, so none is for the empty chain.
LEMMA CertifiedLen ==
    ASSUME TypeOK, VoteInv, CertInv, NEW e \in Certified
    PROVE  /\ e \in History
           /\ Len(e) \in Nat
           /\ Len(e) # 0
           /\ \E b \in Ballot : Backed(b, e)
<1>1. PICK c \in commits : c.entry = e
  BY DEF Certified
<1>2. c.ballot \in Ballot
  BY DEF TypeOK, CommitRequest
<1>3. Backed(c.ballot, e)
  BY <1>1 DEF CertInv, Backed
<1>4. PICK g \in Chain, txs \in Batch : e = Append(g, txs)
  BY <1>3, BackedEntry
<1>5. /\ e \in History /\ Len(g) \in Nat /\ Len(e) = Len(g) + 1
  BY <1>4, ChainType, AppendHistory
<1> QED
  BY <1>2, <1>3, <1>5

SpentOnce(e) ==
    \A i, j \in 1..Len(e) : \A t \in e[i], u \in e[j] :
        claim_key[t] = claim_key[u] => i = j /\ t = u

\* A batch of fresh claims leaves every claim of the history spent once.
LEMMA FreshExtends ==
    ASSUME NEW g \in History, NEW txs \in Batch, claims_fresh(g, txs), SpentOnce(g)
    PROVE  SpentOnce(Append(g, txs))
<1> DEFINE e == Append(g, txs)
<1>1. /\ Len(g) \in Nat /\ Len(e) = Len(g) + 1 /\ e[Len(g) + 1] = txs
      /\ \A i \in 1..Len(g) : e[i] = g[i]
  BY AppendHistory
<1> HIDE DEF e
<1>2. \A i \in 1..Len(g) : \A t \in g[i], u \in txs : claim_key[t] # claim_key[u]
  <2> SUFFICES ASSUME NEW i \in 1..Len(g), NEW t \in g[i], NEW u \in txs,
                      claim_key[t] = claim_key[u]
               PROVE  FALSE
    OBVIOUS
  <2>1. t \in UNION {g[j] : j \in 1..Len(g)}
    OBVIOUS
  <2>2. claim_key[t] \in claims(g)
    BY <2>1 DEF claims
  <2> QED
    BY <2>2 DEF claims_fresh
<1>3. \A t, u \in txs : claim_key[t] = claim_key[u] => t = u
  BY DEF claims_fresh
<1> SUFFICES ASSUME NEW i \in 1..Len(e), NEW j \in 1..Len(e), NEW t \in e[i], NEW u \in e[j],
                    claim_key[t] = claim_key[u]
             PROVE  i = j /\ t = u
  BY DEF SpentOnce, e
<1>4. CASE i \in 1..Len(g) /\ j \in 1..Len(g)
  BY <1>1, <1>4 DEF SpentOnce
<1>5. CASE i \in 1..Len(g) /\ j = Len(g) + 1
  BY <1>1, <1>2, <1>5
<1>6. CASE i = Len(g) + 1 /\ j \in 1..Len(g)
  BY <1>1, <1>2, <1>6
<1>7. CASE i = Len(g) + 1 /\ j = Len(g) + 1
  BY <1>1, <1>3, <1>7
<1> QED
  BY <1>1, <1>4, <1>5, <1>6, <1>7

\* What Certify adds: an entry signed by a quorum under the client's ballot.
LEMMA CertifyAdds ==
    ASSUME TypeOK, BallotInv, NEW p \in Proposer, Certify(p)
    PROVE  /\ commits' = commits \cup {[ballot |-> ballot[p], entry |-> Expected(p)]}
           /\ Certified' = Certified \cup {Expected(p)}
           /\ Backed(ballot[p], Expected(p))
           /\ ballot[p] \in Ballot
           /\ UNCHANGED votes
<1>1. /\ commits' = commits \cup {[ballot |-> ballot[p], entry |-> Expected(p)]}
      /\ UNCHANGED votes
      /\ phase[p] = "propose"
      /\ Signers(p) \in Quorum
  BY DEF Certify, seatVars
<1>2. Certified' = Certified \cup {Expected(p)}
  <2> DEFINE new == [ballot |-> ballot[p], entry |-> Expected(p)]
  <2>1. new.entry = Expected(p)
    OBVIOUS
  <2>2. Certified' = {c.entry : c \in commits'} /\ commits' = commits \cup {new}
    BY <1>1 DEF Certified
  <2> HIDE DEF new
  <2> QED
    BY <2>1, <2>2 DEF Certified
<1>3. ballot[p] \in Ballot
  BY <1>1 DEF BallotInv
<1>4. ASSUME NEW v \in Signers(p)
      PROVE  [validator |-> v, ballot |-> ballot[p], entry |-> Expected(p)] \in votes
  <2>1. PICK s \in votes : s.ballot = ballot[p] /\ s.entry = Expected(p) /\ s.validator = v
    BY DEF Signers
  <2>2. s \in Signature
    BY DEF TypeOK
  <2>3. s = [validator |-> v, ballot |-> ballot[p], entry |-> Expected(p)]
    BY <2>1, <2>2 DEF Signature
  <2> QED
    BY <2>3
<1> QED
  BY <1>1, <1>2, <1>3, <1>4 DEF Backed

\* Every step keeps every certificate backed by the signatures of a quorum.
LEMMA CertStep ==
    ASSUME TypeOK, BallotInv, VoteInv, SafeInv, CertInv, Next
    PROVE  CertInv'
<1>0. votes \subseteq votes'
  BY Forward
<1>1. ASSUME commits' = commits
      PROVE  CertInv'
  <2>1. Certified' = Certified /\ Chain' = Chain
    BY <1>1 DEF Certified, Chain
  <2>2. OneEntryPerHeight' /\ ClaimsSpentOnce'
    BY <2>1 DEF CertInv, OneEntryPerHeight, ClaimsSpentOnce
  <2>3. \A c \in commits : \E Q \in Quorum : \A v \in Q :
            [validator |-> v, ballot |-> c.ballot, entry |-> c.entry] \in votes'
    BY <1>0 DEF CertInv
  <2> QED
    BY <1>1, <2>1, <2>2, <2>3 DEF CertInv
<1>2. ASSUME NEW p \in Proposer, Certify(p)
      PROVE  CertInv'
  <2> DEFINE e == Expected(p)
             b == ballot[p]
  <2>1. /\ commits' = commits \cup {[ballot |-> b, entry |-> e]}
        /\ Certified' = Certified \cup {e}
        /\ Backed(b, e) /\ b \in Ballot
        /\ UNCHANGED votes
    BY <1>2, CertifyAdds
  <2>2. Chain' = Chain \cup {e}
    BY <2>1 DEF Chain
  <2> HIDE DEF e, b
  <2>3. PICK g \in Chain, txs \in Batch : e = Append(g, txs) /\ claims_fresh(g, txs)
    BY <2>1, BackedEntry
  <2>4. /\ g \in History /\ e \in History
        /\ Len(g) \in Nat /\ Len(e) = Len(g) + 1
        /\ \A n \in 1..Len(g) : SubSeq(e, 1, n) = SubSeq(g, 1, n)
        /\ SubSeq(e, 1, Len(e)) = e
    <3>1. g \in History
      BY ChainType
    <3> QED
      BY <2>3, <3>1, AppendHistory
  <2>5. \A c \in commits' : \E Q \in Quorum : \A v \in Q :
            [validator |-> v, ballot |-> c.ballot, entry |-> c.entry] \in votes'
    <3> DEFINE new == [ballot |-> b, entry |-> e]
    <3>1. new.ballot = b /\ new.entry = e
      OBVIOUS
    <3>2. commits' = commits \cup {new}
      BY <2>1
    <3> HIDE DEF new
    <3> QED
      BY <2>1, <3>1, <3>2 DEF CertInv, Backed
  <2>6. ASSUME NEW f \in Certified, Len(f) = Len(e)
        PROVE  f = e
    <3>1. OneEntryPerHeight /\ \A x \in Certified : Len(x) # 0
      BY CertifiedLen DEF CertInv
    <3>2. PICK d \in Ballot : Backed(d, f)
      BY CertifiedLen
    <3> QED
      BY <2>1, <2>6, <3>1, <3>2, SameEntry
  <2>7. OneEntryPerHeight'
    BY <2>1, <2>6 DEF OneEntryPerHeight, CertInv
  <2>8. ASSUME NEW n \in 1..Len(e)
        PROVE  SubSeq(e, 1, n) \in Certified'
    <3>1. CASE n = Len(e)
      BY <2>1, <2>4, <3>1
    <3>2. CASE n \in 1..Len(g)
      <4>1. g \in Certified
        BY <2>4, <3>2 DEF Chain
      <4>2. SubSeq(g, 1, n) \in Certified
        BY <3>2, <4>1 DEF CertInv
      <4> QED
        BY Zenon, <2>1, <2>4, <3>2, <4>2
    <3> QED
      BY <2>4, <3>1, <3>2
  <2>9. \A f \in Certified' : \A n \in 1..Len(f) : SubSeq(f, 1, n) \in Certified'
    BY <2>1, <2>8 DEF CertInv
  <2>10. ClaimsSpentOnce'
    <3>1. SpentOnce(g)
      <4>1. CASE g \in Certified
        BY <4>1 DEF CertInv, ClaimsSpentOnce, SpentOnce
      <4>2. CASE g = <<>>
        BY <4>2 DEF SpentOnce
      <4> QED
        BY <4>1, <4>2 DEF Chain
    <3>2. SpentOnce(e)
      BY <2>3, <2>4, <3>1, FreshExtends
    <3>3. \A f \in Certified : SpentOnce(f)
      BY DEF CertInv, ClaimsSpentOnce, SpentOnce
    <3>4. (\A f \in Certified' : SpentOnce(f)) => ClaimsSpentOnce'
      BY DEF ClaimsSpentOnce, SpentOnce
    <3> QED
      BY <2>1, <3>2, <3>3, <3>4
  <2>11. \E m \in Chain' : \A f \in Certified' : Len(f) <= Len(m)
    <3>1. PICK m \in Chain : \A f \in Certified : Len(f) <= Len(m)
      BY DEF CertInv
    <3>2. Len(m) \in Nat /\ Len(e) \in Nat /\ \A f \in Certified : Len(f) \in Nat
      <4>1. Len(m) \in Nat
        BY ChainType, HistoryLen
      <4>2. Len(e) \in Nat
        BY <2>4
      <4> QED
        BY <4>1, <4>2, CertifiedLen
    <3>3. CASE Len(e) <= Len(m)
      BY <2>1, <2>2, <3>1, <3>3
    <3>4. CASE Len(m) <= Len(e)
      <4>1. \A f \in Certified' : Len(f) <= Len(e)
        BY <2>1, <3>1, <3>2, <3>4
      <4> QED
        BY <2>2, <4>1
    <3> QED
      BY <3>2, <3>3, <3>4
  <2> QED
    BY <2>5, <2>7, <2>9, <2>10, <2>11 DEF CertInv
<1>3. ASSUME SeatStep PROVE commits' = commits
  BY Zenon, <1>3 DEF SeatStep, SeatStepOf, Prepare, Propose, Commit, CatchUpTo, wireVars
<1>4. ASSUME NEW p \in Proposer
      PROVE  /\ \A head : StartAttempt(p, head) => commits' = commits
             /\ \A n : LoseHeight(p, n) => commits' = commits
             /\ \A a, own, n : ClaimHeight(p, a, own, n) => commits' = commits
             /\ EndCommit(p) => commits' = commits
  BY Zenon DEF StartAttempt, LoseHeight, ClaimHeight, EndCommit, wireVars
<1> QED
  BY Zenon, <1>1, <1>2, <1>3, <1>4 DEF Next, AttemptStep

-----------------------------------------------------------------------------
\* The theorems.

\* The invariant is inductive.
LEMMA InductiveStep ==
    ASSUME Inv, [Next]_vars
    PROVE  Inv'
<1>1. CASE Next
  BY <1>1, TypeStep, BallotStep, VoteStep, SeatInvStep, PromiseStep, SafeStep,
     CertStep DEF Inv
<1>2. CASE UNCHANGED vars
  <2>1. UNCHANGED <<certificates, promised, accepted, votes, prepares, proposals,
                    commits, phase, number, ballot, base, promises>>
    BY <1>2 DEF vars, seatVars, wireVars, attemptVars
  <2>2. TypeOK' /\ BallotInv'
    BY ZenonT(40), <2>1 DEF Inv, TypeOK, BallotInv
  <2>3. VoteInv' /\ SeatInv' /\ PromiseInv'
    BY ZenonT(40), <2>1 DEF Inv, VoteInv, SeatInv, PromiseInv, Chain, Certified, Holds, SignedFor
  <2>4. SafeInv'
    BY <2>1 DEF Inv, SafeInv, SafeAt, SignedFor, WontSign, Signed, Past
  <2>5. CertInv'
    BY Zenon, <2>1 DEF Inv, CertInv, OneEntryPerHeight, ClaimsSpentOnce, Chain, Certified
  <2> QED
    BY <2>2, <2>3, <2>4, <2>5 DEF Inv
<1> QED
  BY <1>1, <1>2

\* Every reachable state satisfies the inductive invariant.
THEOREM Invariance == Spec => []Inv
<1>1. Init => Inv
  BY InitInv
<1>2. Inv /\ [Next]_vars => Inv'
  BY InductiveStep
<1> QED
  BY <1>1, <1>2, PTL DEF Spec

\* The stores, the requests and the clients' attempts keep their types: in
\* particular every ballot row and every entry signed or certified is a real one.
THEOREM TypeCorrect == Spec => []TypeOK
<1>1. Inv => TypeOK
  BY DEF Inv
<1> QED
  BY <1>1, Invariance, PTL

\* However clients compete for a height, outbid each other, crash over it or
\* finish each other's batches, and whatever requests and answers are lost,
\* late or repeated, the certificates formed at a height are for one entry
\* (the claim of attempt and claim_height).
THEOREM Agreement == Spec => []OneEntryPerHeight
<1>1. Inv => OneEntryPerHeight
  BY DEF Inv, CertInv
<1> QED
  BY <1>1, Invariance, PTL

\* A claim key is spent at most once in all certified history: the promise of
\* store.claims and claim_key, although each seat checks its own chain only.
THEOREM ExactlyOnce == Spec => []ClaimsSpentOnce
<1>1. Inv => ClaimsSpentOnce
  BY DEF Inv, CertInv
<1> QED
  BY <1>1, Invariance, PTL

\* Of two certified chains the shorter begins the longer.
LEMMA ChainsNest ==
    ASSUME TypeOK, VoteInv, CertInv, NEW e \in Chain, NEW f \in Chain, Len(e) <= Len(f)
    PROVE  IsPrefixOf(e, f)
<1>1. e \in History /\ f \in History /\ Len(e) \in Nat /\ Len(f) \in Nat
  BY ChainType, HistoryLen
<1>2. Len(e) \in 0..Len(f)
  BY <1>1
<1>3. SubSeq(f, 1, Len(e)) \in Chain /\ Len(SubSeq(f, 1, Len(e))) = Len(e)
  BY <1>1, <1>2, PrefixChain, PrefixType
<1>4. OneEntryPerHeight /\ \A g \in Certified : Len(g) # 0
  BY CertifiedLen DEF CertInv
<1>5. e = SubSeq(f, 1, Len(e))
  BY Zenon, <1>3, <1>4, ChainByLength
<1> QED
  BY <1>5 DEF IsPrefixOf

\* The chains any two seats have applied are one chain, and every entry of them
\* was certified: commit and catch_up_to never take a seat off it.
THEOREM NoForkEver == Spec => []NoFork
<1>1. ASSUME Inv PROVE NoFork
  <2>1. TypeOK /\ VoteInv /\ SeatInv /\ CertInv
    BY <1>1 DEF Inv
  <2>2. \A v \in Validator : certificates[v] \in Chain /\ Len(certificates[v]) \in Nat
    BY Zenon, <2>1, ChainType, HistoryLen DEF SeatInv
  <2>3. ASSUME NEW v \in Validator, NEW u \in Validator
        PROVE  \/ IsPrefixOf(certificates[v], certificates[u])
               \/ IsPrefixOf(certificates[u], certificates[v])
    <3>1. CASE Len(certificates[v]) <= Len(certificates[u])
      BY <2>1, <2>2, <3>1, ChainsNest
    <3>2. CASE Len(certificates[u]) <= Len(certificates[v])
      BY <2>1, <2>2, <3>2, ChainsNest
    <3> QED
      BY <2>2, <3>1, <3>2
  <2>4. ASSUME NEW v \in Validator, NEW n \in 1..Len(certificates[v])
        PROVE  SubSeq(certificates[v], 1, n) \in Certified
    <3>1. certificates[v] \in Certified
      <4>1. certificates[v] # <<>>
        OBVIOUS
      <4> QED
        BY <2>2, <4>1 DEF Chain
    <3> QED
      BY <2>1, <3>1 DEF CertInv
  <2> QED
    BY <2>3, <2>4 DEF NoFork
<1> QED
  BY <1>1, Invariance, PTL

-----------------------------------------------------------------------------
\* The refinement of Ledger.

\* Longest is a longest certified chain, and the only one of its length.
LEMMA LongestIsChain ==
    ASSUME CertInv
    PROVE  Longest \in Chain /\ \A f \in Certified : Len(f) <= Len(Longest)
<1>1. \E e \in Certified \cup {<<>>} : \A f \in Certified : Len(f) <= Len(e)
  BY DEF CertInv, Chain
<1> QED
  BY <1>1 DEF Longest, Chain

\* A new certificate is for a batch on top of the longest chain.
LEMMA CertifyExtends ==
    ASSUME Inv, Inv', NEW p \in Proposer, Certify(p), Expected(p) \notin Certified
    PROVE  \E txs \in Batch : /\ claims_fresh(Longest, txs)
                              /\ Longest' = Append(Longest, txs)
<1> DEFINE e == Expected(p)
           m == Longest
<1>1. TypeOK /\ VoteInv /\ BallotInv /\ CertInv /\ CertInv' /\ OneEntryPerHeight'
  BY DEF Inv, CertInv
<1>2. Certified' = Certified \cup {e} /\ Backed(ballot[p], e)
  BY <1>1, CertifyAdds
<1>3. m \in Chain /\ \A f \in Certified : Len(f) <= Len(m)
  BY <1>1, LongestIsChain
<1>4. Longest' \in Chain' /\ \A f \in Certified' : Len(f) <= Len(Longest')
  <2>1. \E x \in Certified' \cup {<<>>} : \A f \in Certified' : Len(f) <= Len(x)
    BY <1>1 DEF CertInv, Chain
  <2> QED
    BY <2>1 DEF Longest, Chain
<1>5. e \notin Certified
  OBVIOUS
<1> HIDE DEF e, m
<1>6. PICK g \in Chain, txs \in Batch : e = Append(g, txs) /\ claims_fresh(g, txs)
  BY <1>1, <1>2, BackedEntry
<1>7. /\ Len(g) \in Nat /\ Len(e) = Len(g) + 1
      /\ m \in History /\ Len(m) \in Nat
  BY Zenon, <1>1, <1>3, <1>6, ChainType, AppendHistory, HistoryLen
<1>8. Len(g) <= Len(m)
  <2>1. CASE g \in Certified
    BY <1>3, <2>1
  <2>2. CASE g = <<>>
    BY <1>7, <2>2
  <2> QED
    BY <2>1, <2>2 DEF Chain
<1>9. ~(Len(e) <= Len(m))
  <2> SUFFICES ASSUME Len(e) <= Len(m)
               PROVE  FALSE
    OBVIOUS
  <2>1. Len(e) \in 1..Len(m) /\ Len(e) \in 0..Len(m)
    BY <1>7
  <2>2. m \in Certified
    <3>1. m # <<>>
      BY <2>1
    <3> QED
      BY <1>3, <3>1 DEF Chain
  <2>3. SubSeq(m, 1, Len(e)) \in Certified
    BY <1>1, <2>1, <2>2 DEF CertInv
  <2>4. Len(SubSeq(m, 1, Len(e))) = Len(e)
    BY <1>7, <2>1, PrefixType
  <2>5. SubSeq(m, 1, Len(e)) = e
    BY Zenon, <1>1, <1>2, <2>3, <2>4 DEF OneEntryPerHeight
  <2> QED
    BY Zenon, <1>5, <2>3, <2>5
<1>10. g = m
  <2>1. Len(g) = Len(m)
    BY SMTT(30), <1>7, <1>8, <1>9
  <2>2. OneEntryPerHeight /\ \A f \in Certified : Len(f) # 0
    BY <1>1, CertifiedLen DEF CertInv
  <2> QED
    BY <1>1, <1>3, <1>6, <2>1, <2>2, ChainByLength
<1>11. Longest' = e
  <2>1. Len(e) <= Len(Longest')
    BY <1>2, <1>4
  <2>2. \A f \in Chain : ~(Len(e) <= Len(f))
    <3>1. ASSUME NEW f \in Certified PROVE ~(Len(e) <= Len(f))
      <4>1. Len(f) <= Len(m) /\ Len(f) \in Nat
        BY <1>1, <1>3, CertifiedLen
      <4> QED
        BY <1>7, <1>9, <4>1
    <3>2. ~(Len(e) <= Len(<<>>))
      BY <1>7
    <3> QED
      BY <3>1, <3>2 DEF Chain
  <2>3. Longest' \in Chain \cup {e}
    BY <1>2, <1>4 DEF Chain
  <2> QED
    BY <2>1, <2>2, <2>3
<1> QED
  BY <1>6, <1>10, <1>11 DEF m

\* The validators and the ledger clients implement one append-only history of
\* batches with fresh claims, for every validator set, threshold above two
\* thirds, number of clients and bound on heights and ballots.
THEOREM Refinement == Spec => ImplementsLedger
<1>1. Init => L!Init
  <2> SUFFICES ASSUME Init PROVE Longest = <<>>
    BY SMTT(30) DEF L!Init
  <2>1. Certified = {}
    BY DEF Init, Certified
  <2> QED
    BY <2>1 DEF Longest
<1>2. ASSUME Inv, Inv', [Next]_vars
      PROVE  [L!Next]_Longest
  <2>1. ASSUME Certified' = Certified PROVE Longest' = Longest
    BY <2>1 DEF Longest
  <2>2. ASSUME NEW p \in Proposer, Certify(p), Expected(p) \notin Certified
        PROVE  L!Next
    <3>1. PICK txs \in Batch : claims_fresh(Longest, txs) /\ Longest' = Append(Longest, txs)
      BY <1>2, <2>2, CertifyExtends
    <3>2. L!Fresh(Longest, txs)
      BY <3>1 DEF claims_fresh, claims, L!Fresh, L!Spent
    <3>3. txs \in L!Batch
      BY <3>1 DEF Batch, L!Batch
    <3> QED
      BY <3>1, <3>2, <3>3 DEF L!Next, L!Certify
  <2>3. ASSUME NEW p \in Proposer, Certify(p), Expected(p) \in Certified
        PROVE  Certified' = Certified
    <3>1. Certified' = Certified \cup {Expected(p)}
      BY <1>2, <2>3, CertifyAdds DEF Inv
    <3> QED
      BY <2>3, <3>1
  <2>4. ASSUME commits' = commits PROVE Certified' = Certified
    BY <2>4 DEF Certified
  <2>5. ASSUME SeatStep PROVE commits' = commits
    BY Zenon, <2>5 DEF SeatStep, SeatStepOf, Prepare, Propose, Commit, CatchUpTo, wireVars
  <2>6. ASSUME NEW p \in Proposer
        PROVE  /\ \A head : StartAttempt(p, head) => commits' = commits
               /\ \A n : LoseHeight(p, n) => commits' = commits
               /\ \A a, own, n : ClaimHeight(p, a, own, n) => commits' = commits
               /\ EndCommit(p) => commits' = commits
    BY Zenon DEF StartAttempt, LoseHeight, ClaimHeight, EndCommit, wireVars
  <2>7. UNCHANGED vars => commits' = commits
    BY DEF vars, wireVars
  <2>8. \/ commits' = commits
        \/ \E p \in Proposer : Certify(p)
    BY Zenon, <1>2, <2>5, <2>6, <2>7 DEF Next, AttemptStep
  <2> QED
    BY <2>1, <2>2, <2>3, <2>4, <2>8
<1> QED
  BY <1>1, <1>2, Invariance, PTL DEF Spec, ImplementsLedger, L!Spec
=============================================================================
