SPECIFICATION Spec
CONSTANTS
    Validator = {v1, v2, v3, v4}
    threshold = 3
    MaxHeight = 4
    MaxMissed = 1
PROPERTIES EverySeatFollows NoHeightStaysEmpty
CHECK_DEADLOCK FALSE
