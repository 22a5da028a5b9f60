SPECIFICATION FairSpec
CONSTANTS
  e1 = e1
  e2 = e2
  MaxRows = 7
  PageSize = 3
  MaxPage = 2
  NotANumber = NotANumber
  ChunkSize = 2
  BufferSize = 1
  Embeds <- TwoEmbeds
  Keys <- TwoKeys
  Joined <- TwoJoined
INVARIANTS
  TypeOK
  FooterKnows
  EmbedsMatchPage
  StatusAfterFirstRow
  BoundedMemory
PROPERTIES
  KeepsPromise
  AlwaysEnds
\* The response ends.
CHECK_DEADLOCK FALSE
