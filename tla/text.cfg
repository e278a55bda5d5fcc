SPECIFICATION Spec
CONSTANTS
    Chars <- All
    Letters = {"A", "E", "U"}
    Digits = {"1"}
    Values <- Environment
    Beginnings <- Starts
    Pieces <- Parts
    MaxPieces <- Counts
    Places <- Decimal
    Hex <- HexDigits
    NameChars <- Names
    MaxPort = 10
    Groups = 3
    DefaultPort <- Defaults
    MinCode = 1
    MaxCode = 3
    LowerCase <- Lower
    ValueChars <- InValue
    HostName <- HostIs
    AgentName <- AgentIs
    Reserved <- Framing
    Responses <- Replies
INVARIANTS
    ExpansionIsRight
    RequestIsRight
