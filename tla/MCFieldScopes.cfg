SPECIFICATION Spec
CONSTANTS
  Name <- MCName
  Schema <- MCSchema
  Root = wijk
  Signed = {minNaam}
  FieldParams <- MCFieldParams
  ExpandParams <- MCExpandParams
  Nowhere = Nowhere
  wijk = wijk
  stad = stad
  land = land
  naam = naam
  code = code
  nr = nr
  id = id
  regimes = regimes
  dagen = dagen
  tijd = tijd
  inStad = inStad
  wijken = wijken
  grenst = grenst
  inLand = inLand
  foo = foo
  minNaam = minNaam
INVARIANTS
  TypeOK
  ShownAsAsked
  SectionsWereAsked
  MistakesRefused
\* The response is decided.
CHECK_DEADLOCK FALSE
