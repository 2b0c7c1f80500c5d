CONSTANTS
  Missing = Missing
  Cut = Cut
  p1 = p1  p2 = p2
  k0 = k0  k1 = k1  k2 = k2  k3 = k3
  Processes = {p1, p2}
  Keys <- MCKeys
  Faults = {"kill"}
  MaxCalls = 3
SPECIFICATION Spec
SYMMETRY MCSymmetry
INVARIANTS RegisteredMeansTrusted
