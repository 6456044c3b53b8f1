SPECIFICATION Spec
CONSTANTS
    Nil = Nil
    Values = {"a", "b"}
    Nodes = {1, 2, 3, 4}
    Frames = 3
INVARIANTS ListInv
PROPERTIES ImplementsFifo WalksEnd
CHECK_DEADLOCK FALSE
