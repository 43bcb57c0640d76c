SPECIFICATION Spec
CONSTANTS
  Client = {"c1", "c2"}
  Offers <- WrapOffers
  Ctx = 4
  Batch = 1
  MaxBody = 1
  Word = 8
INVARIANTS AdmittedFits
CHECK_DEADLOCK FALSE
