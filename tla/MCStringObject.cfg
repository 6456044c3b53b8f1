SPECIFICATION Spec
CONSTANTS
    Base = 2
    Minus = Minus
    Letter = Letter
    Short = 3
    Inputs <- MCInputs
    MaxLen = 5
    Widths = {1, 2, 5}
    SizeWidth = 5
    Bounds <- MCBounds
INVARIANTS StringInv ReadsAsWritten LengthAgrees RangeAgrees
