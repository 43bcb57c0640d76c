SPECIFICATION Spec
CONSTANTS
  Token <- MCToken
  CallOpen = 1
  CallClose = 2
  Quote = 3
  CallWord <- MCCall
  TrueWord <- MCTrue
  FalseWord <- MCFalse
  Digit = {"1"}
  StrByte <- Spelt
  Meta = "_"
  Piece <- MCPiece
  Special = {0, 1, 2, 3}
  OpenText <- MCOpenText
  CloseText <- MCCloseText
  QuoteText <- MCQuoteText
  NameChar = {"a", "k", "e", "t", "f", "1"}
  Space = {" "}
  ToolSets <- StrSet
  NUL = "nul"
  Decoded <- MCDecoded
  MaxIdle = 3
  StrWords <- SpeltWords3
  NatWords <- NatWords6
INVARIANTS ParsesBack
CHECK_DEADLOCK FALSE
