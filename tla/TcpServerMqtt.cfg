SPECIFICATION Spec
CONSTANTS
  Messages <- MCMessages
  SIZE = 5
  LEN = 3
  MasterRegisters = {2}
  MasterValues = {8}
  CutTags = {1}
  CutValues <- MCCutValues
  Close = Close
  Unwritten = Unwritten
  Half = Half
  Ours = Ours
  Other = Other
  Bounds <- MCBounds
INVARIANTS TypeOK MessageIsWhole RegistersAreATag SentIsARound OnlyARoundLosesChanges
PROPERTIES MessagesAreHandled RoundsGoOn
