SPECIFICATION Spec
CONSTANTS
  Token <- MCToken
  CallOpen = 1
  CallClose = 2
  Quote = 3
  CallWord <- MCCall
  TrueWord <- MCTrue
  FalseWord <- MCFalse
  Digit = {"1"}
  StrByte <- Bytes
  Meta = "_"
  Piece <- MCPiece
  Special = {0, 1, 2, 3}
  OpenText <- MCOpenText
  CloseText <- MCCloseText
  QuoteText <- MCQuoteText
  NameChar = {"a", "k", "e", "t", "f", "1"}
  Space = {" "}
  ToolSets <- MCToolSets
  NUL = "nul"
  Decoded <- MCDecoded
  MaxIdle = 1
  StrWords <- StrWords3
  NatWords <- NatWords5
INVARIANTS TypeOK MaskIsExact DoneIsACall RunIsForced ParsesBack WalkEnds
CHECK_DEADLOCK FALSE
