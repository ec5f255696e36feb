SPECIFICATION Spec
CONSTANTS
    Absent = "Absent"
    Null = "Null"
    Like <- MCLike
    Lower <- MCLower
    Session <- MCSession
    Argument = {"a", "A", "a%", "%"}
    Object <- MCObject
    ForeignKey <- MCForeignKey
    StringMaxLength = {100, 20000000}
    Short = 2
    AttributeValue = {0, 2, 9, 201}
    VariableBefore = {0, 255}
    OdbcVersion = {2, 3}
    Identifier <- MCIdentifier
    Number = {"1"}
    Literal <- MCLiteral
    WithoutFraction <- MCWithoutFraction
    OperandToken <- MCOperand
    FieldValue <- MCFieldValue
    FieldKey <- MCFieldKey
    MostFields = 2
    AnyText <- MCAnyText
    Upper <- MCUpper
    Digits <- MCDigits
    PowerOfTen <- MCPowerOfTen
    Piece <- MCPiece
    ColumnKey <- MCColumnKey
    PlainText <- MCPlainText
    TimeValue <- MCTimeValue
    Hours = 2
    Minutes = 2
    Seconds = 2
    MsDigits = 1
    TickDigits = 2
    TickBits = 14
    Bits <- MCBits
    DecimalBits = 9
    Byte = 16
    ValLength = 4
    NumberText <- MCNumberText
    Precision = {0, 1, 2, 3}
    Scale <- MCScale
    Day <- MCDay
    Ms <- MCMs
    Year <- MCYear
    Zone <- MCZone
    Longest = 4
    Buffer = {0, 1, 2, 3, 4, 5, 6, 7, 8, 9, 10, 11, 12}
    Error = Error
    Texts <- MCTexts
    Bom = "f"
    Bytes <- MCBytes
    ExtraReserve = 6
    MinIncrement = 6
    Conservative = 2
    None = None
CHECK_DEADLOCK FALSE
INVARIANTS
    OrdinaryQueriesParse
    ListsWhatIsAsked
    PromisesKept
    DescribedAlike
    UnderstoodByService
    StringsReadBack
    NumbersExact
    TimesReadBack
    TextsInBuffers
    ConvertedWhole
PROPERTY ConversionEnds
