SPECIFICATION Spec
CONSTANTS
    HeaderLen = 2
    TextLens = {1, 2}
    AnswerLens = {0, 1}
    Chunk = 3
    Garbage = {0, 9}
    Manners = {TRUE, FALSE}
    MaxRequests = 3
    MaxServed = 4
INVARIANT FramingInv
PROPERTIES BeginsWhole ImplementsSession Replied
CHECK_DEADLOCK FALSE
