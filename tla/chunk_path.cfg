SPECIFICATION MCSpec
CONSTANTS
  Char = {"|", "c", "1", ":", "*", "umlaut", "wide"}
  Markers <- MCMarkers
  Width <- MCWidth
  MaxSizes = {4, 5, 6}
  MaxLength = 4
  Bits = 5
  Code <- MCCode
  Entry <- MCEntry
  IdText <- MCIdText
  Noise = {"|", ":", "*", "1", "A", "a", "from", "wide"}
  MaxNoisyLength = 2
  Sender = {s1, s2}
  Transmission = {"short", "long"}
  Total <- MCTotal
  Timeout = 1
  Saver = {t1, t2}
  Item = {2, 9, 10}
  Text <- MCText
  MaxCrashes = 1
SYMMETRY Symmetry
INVARIANTS NothingLost TextsFilled BatchesAgree
           CorruptionRefused TextHeard MetadataKept
           WholeIsNoticed
           NothingForgotten ReassembledText
PROPERTY OnlySilentDropped
CHECK_DEADLOCK FALSE
