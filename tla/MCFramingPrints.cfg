SPECIFICATION Spec
CONSTANTS
    HeaderLen = 2
    TextLens = {1}
    AnswerLens = {1}
    Chunk = 3
    Garbage = {0, 9}
    Manners = {FALSE}
    MaxRequests = 2
    MaxServed = 2
INVARIANT PrintsReply
CHECK_DEADLOCK FALSE
