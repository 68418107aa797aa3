SPECIFICATION Spec
CONSTANTS
  Sample <- SomeTests
  SkipArgs <- SomeSkips
  Flags <- SomeFlags
  Shortages <- SomeShortages
  Platforms <- SomePlatforms
INVARIANT SuiteInv
INVARIANT OnlyAsked
INVARIANT AllAsked
INVARIANT Released
INVARIANT FreedOnce
CHECK_DEADLOCK FALSE
