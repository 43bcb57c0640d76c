SPECIFICATION Spec
CONSTANTS
  NumLayers = 5
  FirstShared = 3
  Sliding = {0, 1, 3}
  StoreFull = {1, 2}
  Window = 2
  Ctx = 10
  Chunk = 3
  Zero = Zero
  Bad = Bad
  Token <- MCToken
  WeightRows = 3
  RowbatchRows = 3
  RowbatchSpan = 4
  Greedy <- MCGreedy
  Piece <- MCPiece
  Lead = "h1"
  Cont = "h2"
  Wide = "W"
  Replacement = "?"
  Request = {"r1", "r2", "r3", "r4", "r5"}
  Prompt <- MCPrompt
  MaxTokens <- MCMaxTokens
  Stops <- MCStops
  Eos = {4}
  Batch = 2
  PrefixMin = 3
INVARIANTS TypeOK KvFaithful TemplateExact SameAsAlone NoPanic OnePlace StreamIsPrefix FinishHonest DrainedOnReturn
PROPERTIES FlushComplete ImplementsCompletions
CHECK_DEADLOCK FALSE
