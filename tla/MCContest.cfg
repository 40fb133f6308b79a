SPECIFICATION Spec
CONSTANTS
    Validator = {v1, v2, v3, v4}
    threshold = 3
    Proposer = {1, 2}
    t1 = t1
    t2 = t2
    t3 = t3
    c1 = c1
    c2 = c2
    Tx = {t1, t2}
    claim_key <- RivalClaims
    Wants <- OneEach
    MAX_BATCH = 1
    MaxHeight = 1
    MaxBallot <- TwoAndOne
SYMMETRY ValidatorSymmetry
INVARIANT OneEntryPerHeight
CHECK_DEADLOCK FALSE
