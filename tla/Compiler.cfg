\* Every source over small alphabets: text, nesting, control flow, components and
\* slots; single elements with their attributes in every order, mounted and used.
SPECIFICATION Spec
CONSTANTS
  Alphabets <- SomeAlphabets
  MaxSource = 5
  ComponentTags = {"Badge", "Card", "Field", "Rule"}
  ScopedSlots = {"head"}
  Camelized <- SomeCamelized
  Library <- SomeLibrary
  Domain <- SomeDomain
  Initial <- NoOption
  Typed <- SomeTyped
  Numbers <- SomeNumbers
  Events <- SomeEvents
  Environments <- SomeEnvironments
CHECK_DEADLOCK FALSE
INVARIANTS
  ParsedAsWritten
  AcceptsWellFormed
  RendersAsWritten
  AttributesFollow
  ModelInSync
  HandlersAsWritten
PROPERTY NothingLeft
