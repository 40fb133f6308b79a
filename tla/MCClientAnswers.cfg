SPECIFICATION FairClientSpec
CONSTANTS
    Validator = {v1}
    threshold = 1
    Proposer = {1}
    t1 = t1
    t2 = t2
    t3 = t3
    c1 = c1
    c2 = c2
    Tx = {t1, t2, t3}
    claim_key <- RivalClaims
    Wants <- AllThree
    MAX_BATCH = 2
    MaxHeight = 2
    MaxBallot <- ThreeEach
    ROUND_ATTEMPTS = 2
PROPERTIES EveryCallerAnswered ImplementsQuorumLedger
CHECK_DEADLOCK FALSE
