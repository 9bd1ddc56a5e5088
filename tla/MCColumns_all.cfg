SPECIFICATION Spec
CONSTANTS
    MySQLColumns <- AllColumns
    Configs <- AllConfigs
    LowerCase <- LoweredCase  JsonForm <- AllJson  TimeForm <- AllTimes  Decimal <- AllDecimals
    Ints <- AllInts  Bits <- AllBits  Negative = {"-1"}
    Numbers <- SomeNumbers
    Words <- AllWords
    Documents <- AllDocuments  Decoded <- AllDecoded
    Stamps = {"2026-06-27 12:30:00", "2026-06-27"}
    Clocks = {"00:30:00", "12:30:00", "25:00:00", "-01:00:00"}
    Printed <- AllPrinted
    ZeroStamp = "0000-00-00"  ZeroTime = "0001-01-01T00:00:00Z"
    OtherPair <- RenderedPair
INVARIANTS TypeOK RefusalsAreKnown ChangesAreSeen EditsAreSeen SanitizedIsSeen IntactAgrees LooksSuffice
CHECK_DEADLOCK FALSE
