SPECIFICATION Spec
CONSTANTS
    REFERENCE_OPS_PER_MCU = 2
    SETTLEMENT_WINDOW_SECS = 1
    community_issuance_limit_mcu = 5
    Account <- MCAccount
    Seat = {"v1", "v2"}
    GenesisSet <- Two
    Batches <- Settlements
    Opening <- Funding
    Newcomer = {"v2"}
    MaxHeight = 5
    CheckpointHeights = {3}
    Work <- TwoShards
    Ops <- ExactOps
INVARIANTS
    Conserved EscrowCoversParts OnlyLateEvidenceWedges  SeatsAgree HistoryComplete
CHECK_DEADLOCK FALSE
