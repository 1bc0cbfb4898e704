SPECIFICATION Spec
CONSTANTS
  Arguments <- MCArguments
  Dt = 200
  Lengths = {1, 2}
  Gaps <- MCGaps
  Drifts <- MCDrifts
  WeightOf <- MCWeightOf
  Patterns = {0, 2}
  IntensityOf <- MCIntensityOf
  MaxChunks = 3
  MaxFailures = 1
INVARIANTS ReadAsAppended  UndamagedReadsBack
