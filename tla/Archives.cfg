SPECIFICATION Spec
CONSTANTS
  MaxTimeout = 1
  DefaultTimeout = 0
  Downloads <- MCDownloads
  Replacements <- MCReplacements
  Existing <- MCExisting
  Sources <- MCSources
  Answers <- MCAnswers
  MaxTail = 3
INVARIANTS TypeOK StaysInside ExtractedIsVerified
INVARIANTS PackedIsSource PackCleansUp
PROPERTIES ConfigureKeepsEntry
