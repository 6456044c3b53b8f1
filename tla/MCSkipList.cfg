SPECIFICATION Spec
CONSTANTS
    None = None
    Scores = {1, 2, 3}
    Head = 0
    Nil = 9
    Vals = {"a", "b"}
    MaxLevel = 3
    InitialLengths = {0, 5}
INVARIANTS TypeOK ListInv BackwardMirrors Spans
PROPERTIES ImplementsOrderedMap CallsReturn
