SPECIFICATION FileSpec
CONSTANTS
    None = None
    Keys = {"k1"}
    Vals <- Words
    Sent <- SentWords
    Encoded <- WordEncoded
    Numeric <- Words
    Scores = {1}
    Ttls <- MCTtls
    MilliTtls <- NoTtls
    Second = 1
    Horizon = 2
    MaxLen = 2
    Commands <- FileCommands
    Files = {"dump", "dump.sdb"}
    SaveNames = {"dump"}
    FileOf <- MCFileOf
    Reread <- WordReread
    Numerals <- Texts
    Surplus = {FALSE}
    EmptyWord = ""
    WordCuts <- Beginnings
    NumberCuts <- NumberBeginnings
    NameCuts <- NoNames
INVARIANT FileInv
PROPERTY SaveUnseen
PROPERTY LoadRestores
PROPERTY LoadOnlyAdds
PROPERTY DeadlineFirm
PROPERTY FilesEnd
