SPECIFICATION FileSpec
CONSTANTS
    None = None
    Keys = {"k1"}
    Vals <- OneWord
    Sent <- OneSent
    Encoded <- WordEncoded
    Numeric <- OneWord
    Scores = {1}
    Ttls <- NoTtls
    MilliTtls <- NoTtls
    Second = 1
    Horizon = 0
    MaxLen = 1
    Commands <- OsetCommands
    Files = {"dump", "dump.sdb"}
    SaveNames = {"dump"}
    FileOf <- MCFileOf
    Reread <- WordReread
    Numerals <- Texts
    Surplus = {TRUE, FALSE}
    EmptyWord = ""
    WordCuts <- Beginnings
    NumberCuts <- NumberBeginnings
    NameCuts <- NoNames
PROPERTY SaveStores
