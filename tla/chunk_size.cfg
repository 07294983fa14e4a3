SPECIFICATION FramingSpec
CONSTANTS
  Char = {"|", "c", "1", ":", "*", "umlaut", "wide"}
  Markers <- MCMarkers
  Width <- MCWidth
  MaxSizes = {5, 6}
  MaxLength = 4
  Bits = 5
  Code <- MCCode
  Entry <- MCEntry
  IdText <- MCIdText
  Noise = {}
  MaxNoisyLength = 0
INVARIANT ChunksWithinMaxSize
CHECK_DEADLOCK FALSE
