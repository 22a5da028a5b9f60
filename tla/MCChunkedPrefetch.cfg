SPECIFICATION Spec
CONSTANTS
  owner = owner
  area = area
  tags = tags
  k1 = k1
  k2 = k2
  gone = gone
  NoKey = NoKey
  Fks = {owner, area}
  Many = {tags}
  Values <- MCValues
  Objects <- MCObjects
  ChunkSize = 4
INVARIANTS
  TypeOK
  CachedFksLoaded
  RepeatIsFree
PROPERTY NoNeedlessPrefetch
\* The rows are finished.
CHECK_DEADLOCK FALSE
