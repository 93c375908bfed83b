\* Up to two columns of eight layouts, texts of up to one byte, two rows, two results.
CONSTANTS
    Layouts <- EveryKind
    SizeofTime = 40
    MaxLength = 1
    MaxRows = 2
    MaxResults = 2
    Null = Null
    Unset = Unset
SPECIFICATION Spec
CHECK_DEADLOCK FALSE
INVARIANTS
    CellsIntact
    FreedOnce
    GuidelineReads
