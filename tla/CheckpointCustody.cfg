CONSTANTS
  None = None
  Blank = Blank
  Garbled = Garbled
  p1 = p1  p2 = p2
  Checkpointers = {p1, p2}
  FirstKey = "k1"
  Keys = {"k1", "k2"}
  ForeignKey = "k3"
  Radix = 2
  Faults = {"io", "kill", "power"}
  MaxEvents = 3
  MaxEdits = 2
SPECIFICATION Spec
SYMMETRY ProcessSymmetry
INVARIANTS TypeOK IntactJournalVerifies DamageIsDetected WitnessDetectsLoss
