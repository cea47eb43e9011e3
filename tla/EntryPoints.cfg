SPECIFICATION Spec
CONSTANTS
  Choices <- MCChoices
  NonAscii <- MCNonAscii
  Arities = {0, 1, 2, 64}
  Widths = {1, 2}
  MaxSettings = 3
  MaxParses = 2
INVARIANTS TypeOK NeverPanics RunsWhatItSupports AutoNeverRefuses ProbeAgrees
CHECK_DEADLOCK FALSE
