SPECIFICATION Spec
CONSTANTS
  SeedWidths <- MCSeedWidths
  KeyWidths <- MCKeyWidths
  MaxDim <- MCMaxDim
  Samples <- MCSamples
  CosOf <- MCCosOf
  Unit = 1000
INVARIANTS
  PhasesKept
  UnbindRestoresValue
  BindKeepsSimilarity
CHECK_DEADLOCK FALSE
