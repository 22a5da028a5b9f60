SPECIFICATION Spec
CONSTANTS
  Databases <- MCDatabases
  MaxMoment = 2
  Pks <- MCPks
  Versions = {1, 2}
  Names = {old, new}
  Open = Open
  NoPk = NoPk
  NoVersion = NoVersion
  NoSlice = NoSlice
  NoName = NoName
  NoObject = NoObject
  AllVersions = AllVersions
  BadDate = BadDate
  a = a
  b = b
  r = r
  old = old
  new = new
INVARIANTS
  TypeOK
  OneMoment
  OneVersion
  SectionsMatchLinks
  FilteredIsShown
  SelfLinksReturn
\* The request has been answered.
CHECK_DEADLOCK FALSE
