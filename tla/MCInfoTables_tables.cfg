CONSTANTS
  Platforms <- MCPlatforms
  Bits = {0, 1, 2}
SPECIFICATION Spec
INVARIANT TimeTables PeTables IdTables DeviceTables BusNumbers PcieTables RegisterChecks
CHECK_DEADLOCK FALSE
