CONSTANTS
  HashMod = 16384
  WordBits = 8
  MaxJson = 9
  MaxNumber = 6
  MaxString = 4
  MaxKeys = 6
  MaxSkip = 6
  MaxCode = 3
  MaxSections = 5
  MaxBytes = 3
  MaxMessage = 191
  MaxLines = 4
SPECIFICATION AllSpec
INVARIANTS
    JsonDecodes
    JsonKept
    CodeWalked
    ZaxConverts
    DigestsLikeRFC
    EnvLoaded
CHECK_DEADLOCK FALSE
