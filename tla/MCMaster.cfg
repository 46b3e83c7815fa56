SPECIFICATION MasterSpec
CONSTANTS
  w1 = w1
  w2 = w2
  w3 = w3
  p1 = p1
  p2 = p2
  s1 = s1
  s2 = s2
  s3 = s3
  m1 = m1
  m2 = m2
  Absent = Absent
  Invalid = Invalid
  NoSegment = NoSegment
  NoLayout = NoLayout
  Phrases <- MCPhrases
  Worker <- Slots
  Environments <- MCEnvironments
  Process <- Slots
  Segment <- Segments
  Layout <- Layouts
  MaxTally = 2
SYMMETRY Symmetric
INVARIANTS
  OneWallet
  SavedIsFound
  LockAskedIsLockChecked
  InheritsSettingsNotHandles
  CountersSurvive
