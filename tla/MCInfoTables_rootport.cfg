CONSTANTS
  Platforms <- NoisyPlatforms
  Bits = {0, 1, 2}
SPECIFICATION Spec
INVARIANT RootPortIsRootPort
CHECK_DEADLOCK FALSE
