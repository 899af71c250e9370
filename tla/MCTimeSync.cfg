\* The filter with a window of three samples and the limit of five deviations
\* the code has; delays on both sides of the round trip limit.
CONSTANTS
  Window = 3
  MaxRtt = 4
  MaxDeviation = 4
  MaxConsecutive = 5
  Modulus = 100
  Offsets <- SomeOffsets
  Estimates <- SomeEstimates
  Delays <- SomeDelays
  RoundTrips <- SomeRoundTrips
SPECIFICATION Spec
INVARIANTS
  SyncInv
  WrongOffsetIsShortLived
PROPERTIES
  RightEstimateKept
  Synchronises
