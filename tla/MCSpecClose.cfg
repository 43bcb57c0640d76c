SPECIFICATION Spec
CONSTANTS
  NumLayers = 3
  FirstShared = 2
  Sliding = {0}
  StoreFull = {1}
  Window = 2
  Ctx = 12
  Chunk = 3
  Zero = Zero
  Bad = Bad
  Token <- MCToken
  WeightRows = 9
  RowbatchRows = 9
  RowbatchSpan = 4
  Greedy <- MCGreedy
  Prompts <- MCPrompts
  Grammars <- MCGrammars
  Lookaheads = {2}
  Ngen = 6
  Eos = {4}
  RunMax = 3
  LogitRows = 3
  Better <- MCBetter
INVARIANTS StopsAtTheCall
CHECK_DEADLOCK FALSE
