SPECIFICATION MCSpec
CONSTANTS
  Versions <- MCVersions
  Sections <- MCSections
  Classes = {"AUTHCFG"}
  MaxDepth = 3
  ServerSections <- MCMerged
  Uris <- MCUris
  Filenames <- MCFilenames
  MaxRequests = 3
  Names <- MCNames
  Matching <- MCMatching
  Includes <- MCIncludes
  Directories <- MCDirectories
  Configurations <- MCConfigurations
  MaxChanges = 2
INVARIANTS
  Balanced
  NoWidening
  WalksApplied
  StartsAsMeant
CHECK_DEADLOCK FALSE
