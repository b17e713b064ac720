SPECIFICATION Spec
CONSTANTS
  Apps <- Two
  Versions <- MCVersions
  Prebuilt = {FALSE}
  MaxEdits = 0
  MaxSessions = 1
INVARIANT NoHalfLibrary
