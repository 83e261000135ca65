\* A configuration that is deleted takes no more steps.
SPECIFICATION PidSpec
CHECK_DEADLOCK FALSE
CONSTANTS
  k1 = k1
  k2 = k2
  k3 = k3
  Keys = {k1, k2, k3}
  Cut <- ThirdCut
  Numbers <- Halves
  Strings = {s1, s2}
  IntMax = 3
  DefaultCapacity = 1
  MaxLines = 3
  Null = Null
  Wild = Wild
  Infinity = Infinity
  MinusInfinity = MinusInfinity
  NaN = NaN
  GainKeys <- FourGains
  Setups <- SomeSetups
  Inputs = {"num"}
  PidLines = 2
INVARIANTS
  FreesAllocated
