--------------------------- MODULE MCLedgerClient ---------------------------
(* Small instances of LedgerClient.                                        *)
EXTENDS LedgerClient, TLC

CONSTANTS t1, t2, t3, c1, c2

\* t3 settles the same claim as t1, as a refund does to a reward.
RivalClaims == [t \in Tx |-> IF t = t2 THEN c2 ELSE c1]

\* Client 1 is asked for two transactions, client 2 for the rival of one.
Rivals == [p \in Proposer |-> IF p = 1 THEN {t1, t2} ELSE {t3}]

\* One client is asked for both sides of a claim, and for one more.
AllThree == [p \in Proposer |-> {t1, t2, t3}]

OneEach == [p \in Proposer |-> IF p = 1 THEN {t1} ELSE {t2}]

TwoAndOne == [p \in Proposer |-> IF p = 1 THEN 2 ELSE 1]
TwoEach == [p \in Proposer |-> 2]
ThreeEach == [p \in Proposer |-> 3]

ValidatorSymmetry == Permutations(Validator)
=============================================================================
