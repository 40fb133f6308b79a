SPECIFICATION ClientSpec
CONSTANTS
    Validator = {v1, v2}
    threshold = 2
    Proposer = {1, 2}
    t1 = t1
    t2 = t2
    t3 = t3
    c1 = c1
    c2 = c2
    Tx = {t1, t2, t3}
    claim_key <- RivalClaims
    Wants <- Rivals
    MAX_BATCH = 2
    MaxHeight = 2
    MaxBallot <- TwoAndOne
    ROUND_ATTEMPTS = 2
SYMMETRY ValidatorSymmetry
INVARIANTS OkMeansCertified OneWinnerPerClaim
CHECK_DEADLOCK FALSE
