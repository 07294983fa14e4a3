SPECIFICATION BuffersSpec
CONSTANTS
  Sender = {s1, s2}
  Transmission = {"short", "long"}
  Total <- MCTotal
  Timeout = 1
SYMMETRY SenderSymmetry
INVARIANT WholeIsReturned
