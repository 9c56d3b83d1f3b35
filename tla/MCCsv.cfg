SPECIFICATION FileSpec
CONSTANTS
    Token <- MCToken
    Quote <- MCQuote
    Comma = ","
    Blank = {" "}
    MaxCents = 1500
    MaxInt = 99
    MaxSmall = 15
    Parsers <- MCParsers
    Header <- MCHeader
    FileRows <- MCRows
    Lower <- MCLower
    StampOf <- MCStampOf
INVARIANTS
    CutsAreExact
    RowIsByName
    AmountsAreExact
    TimesAgree
    SplittersAgree
CHECK_DEADLOCK FALSE
