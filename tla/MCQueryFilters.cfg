SPECIFICATION Spec
CONSTANTS
  Schema <- McSchema
  Root = "building"
  Databases <- McDatabases
  Requests <- McRequests
  Sorted <- McSorted
  NonFilterParams <- McNonFilterParams
  WithoutId <- McWithoutId
  Positions <- McPositions
  Null = Null
  NoRow = NoRow
  NoTable = NoTable
  NoTime = NoTime
  ToManySorts = FALSE
INVARIANTS
  EachRowOnce
  AnswersAsDocumented
  ColumnsPermitted
\* The request is answered.
CHECK_DEADLOCK FALSE
