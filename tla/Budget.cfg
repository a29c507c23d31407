SPECIFICATION FairSpec
CONSTANTS
  Callers = {a, b, c}
  EntryLimit = 2
  ByteLimit = 2
  UnitChoices = {1}
  SizeChoices = {1, 2}
INVARIANTS ChargesKept
PROPERTIES Admits LockFree
