SPECIFICATION MemorySpec
CONSTANTS
  Texts <- ShortTexts
  Sizes = {0, 2, 3}
  MaxGrowths = 3
  MaxTransfers = 3
  Limit = 5
CHECK_DEADLOCK FALSE
INVARIANTS Intact DecoderSpared
