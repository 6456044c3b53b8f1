SPECIFICATION Spec
CONSTANTS
    None = None
    Keys = {"k1"}
    Vals <- MCVals
    Sent <- MCVals
    Encoded <- MCEncoded
    Numeric <- MCNumeric
    Scores = {1}
    Ttls <- MCTtls
    MilliTtls <- MCMilliTtls
    Second = 2
    Horizon = 5
    MaxLen = 2
    Commands <- AllCommands
INVARIANT TypeOK
PROPERTY EagerExpiry
PROPERTY NothingRevives
PROPERTY DeadlineFirm
