SPECIFICATION Spec
CONSTANTS
    ByteBits = 3
    MinLen = 3
    Header = 1
    CharZero <- One
    CharDot <- Dot
    DataSet <- Data
    RangeOffset <- RangeOffsets
    BitOffset <- BitOffsets
    Digit <- Digits
    IntText <- IntTexts
    FloatText <- FloatTexts
    Fill <- Fills
    CharQuote <- Quote
    Space <- Spaces
    MaxLen = 5
INVARIANTS TypeOK RoomKept ReadsAgree SentBack
PROPERTIES IsString
CHECK_DEADLOCK FALSE
