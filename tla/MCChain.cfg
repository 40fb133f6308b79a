SPECIFICATION Spec
CONSTANTS
    Validator = {v1, v2}
    threshold = 2
    Proposer = {1, 2}
    t1 = t1
    t2 = t2
    t3 = t3
    c1 = c1
    c2 = c2
    Tx = {t1, t2, t3}
    claim_key <- RivalClaims
    Wants <- Rivals
    MAX_BATCH = 2
    MaxHeight = 3
    MaxBallot <- TwoEach
SYMMETRY ValidatorSymmetry
INVARIANTS NoFork ClaimsSpentOnce
PROPERTY ImplementsLedger
CHECK_DEADLOCK FALSE
