\* A DECIMAL and a TEXT, which arrives as a BLOB, of up to one byte, one row.
CONSTANTS
    Layouts <- DecimalAndText
    SizeofTime = 40
    MaxLength = 1
    MaxRows = 1
    MaxResults = 1
    Null = Null
    Unset = Unset
SPECIFICATION Spec
CHECK_DEADLOCK FALSE
INVARIANT DecimalsOrTextsRead
