SPECIFICATION Spec
CONSTANTS
  Group = 2
  Archs = {"sm_61", "sm_70", "sm_75", "sm_86", "sm_89", "sm_90", "sm_100", "zen4", "rdna4", "sm_999"}
  Programs <- MCPrograms
  Optimized <- MCOptimized
  Templates <- MCTemplates
  MaxCalls = 4
  Patching <- MCPatching
INVARIANTS
  ReadBack
  HopperLength
  ListingShows
  PascalTiles
  WindowOfTemplate
PROPERTIES
  PatchExact
CHECK_DEADLOCK FALSE
