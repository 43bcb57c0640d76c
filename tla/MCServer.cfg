SPECIFICATION FairSpec
CONSTANTS
  Client = {"c1", "c2", "c3"}
  Offers <- MCOffers
  Ctx = 4
  Batch = 1
  MaxBody = 1
  Word = 8
INVARIANTS TypeOK ResponseWhole
PROPERTIES EveryConnectionEnds StayersServed
CHECK_DEADLOCK FALSE
