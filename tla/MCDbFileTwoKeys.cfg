SPECIFICATION FileSpec
CONSTANTS
    None = None
    Keys = {"k", "k1"}
    Vals <- OneWord
    Sent <- OneSent
    Encoded <- WordEncoded
    Numeric <- OneWord
    Scores = {1}
    Ttls <- MCTtls
    MilliTtls <- NoTtls
    Second = 2
    Horizon = 1
    MaxLen = 1
    Commands <- PairCommands
    Files = {"dump", "dump.sdb"}
    SaveNames = {"dump"}
    FileOf <- MCFileOf
    Reread <- WordReread
    Numerals <- Texts
    Surplus = {TRUE, FALSE}
    EmptyWord = ""
    WordCuts <- Beginnings
    NumberCuts <- NumberBeginnings
    NameCuts <- PairNames
INVARIANT FileInv
PROPERTY LoadRestores
