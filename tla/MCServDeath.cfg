SPECIFICATION Spec
CONSTANTS
  Client = {"c1", "c2"}
  Offers <- PairOffers
  Ctx = 4
  Batch = 1
  MaxBody = 1
  Word = 8
INVARIANTS DeathIsReported
CHECK_DEADLOCK FALSE
