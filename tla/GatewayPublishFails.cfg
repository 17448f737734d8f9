SPECIFICATION Spec
CONSTANTS
  Tags = {1, 2}
  IntSize = 2
  Payloads = {0, 2}
  Blank = Blank
  Faults = {"publish"}
  MaxFaults = 1
  MaxChanges = 2
  MaxMessages = 1
INVARIANT AllPublished
