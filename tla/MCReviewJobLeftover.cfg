CONSTANTS
  r = r
  other = other
  a = a
  b = b
  agentsmd = agentsmd
  patch = patch
  Archives <- MCArchives
  Names <- MCNames
  Words <- MCWords
  TextEvents = {"text", "more"}
  WhiteLine = "white"
  Untrusted = {agentsmd}
  DiffName = patch
  MaxArchive = 1
  MaxFiles = 3
  MaxFileBytes = 2
  MaxBytes = 3
  OutLimit = 2
  Attempts = 3
  Privileged = FALSE
  MaxSaid = 3
  MaxCalls = 2
  Messages <- MCMessages
  Answers = {"first", "second"}
  Patches <- MCPatches
  Candidates <- MCFindings
  Strings <- MCStrings
  Diagrams <- MCDiagrams
  MaxFindings = 2
  MaxCandidates = 3
  MaxText = 6
  Marker = 3
  MaxDiagram = 6
  Head0 = 2
SPECIFICATION JobSpec
CHECK_DEADLOCK FALSE
INVARIANT NoCheckoutIsLeft
