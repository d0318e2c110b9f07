CONSTANTS
  Catalogue <- MCCatalogue
  Compositions <- MCCompositions
  MaxMessages = 2
  MaxArray = 2
SPECIFICATION Spec
INVARIANTS
  TypeOK
  WrittenBeforeSent
  CallbackExact
  ReuseKeepsOnlyEmpty
  SlicesOfOneMessage
  CloneExact
PROPERTIES
  CloneIndependent
  ImplementsWholeMessage
CHECK_DEADLOCK FALSE
