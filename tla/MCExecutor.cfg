SPECIFICATION ExecutorSpec
CONSTANTS
    None = None
    Keys = {"k1"}
    Vals <- OneVal
    Sent <- OneVal
    Encoded <- OneEncoded
    Numeric = {}
    Scores = {1}
    Ttls = {0}
    MilliTtls = {}
    Second = 1
    Horizon = 1
    MaxLen = 1
    Commands <- MCCommands
    Clients = {c1, c2}
    InitialDbs = 2
    Limit = 4
    UIntSize = 8
    Numbers = {0, 1, 2, 3, 4, 9}
INVARIANTS ExecutorInv LastSelectRules
PROPERTY EachIsAStore
