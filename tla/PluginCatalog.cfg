SPECIFICATION Spec
CONSTANTS
  Apps <- One
  Versions <- MCVersions
  Prebuilt = {TRUE, FALSE}
  MaxEdits = 2
  MaxSessions = 2
INVARIANTS
  CatalogSound
PROPERTIES
  CurrentUnlessSpoiled
  BuildsServed
