\* A select whose model is one of its options from the start.
SPECIFICATION Spec
CONSTANTS
  Alphabets <- JustSelect
  MaxSource = 5
  ComponentTags = {"Badge", "Card", "Field", "Rule"}
  ScopedSlots = {"head"}
  Camelized <- SomeCamelized
  Library <- SomeLibrary
  Domain <- SomeDomain
  Initial <- SomeDomain
  Typed <- SomeTyped
  Numbers <- SomeNumbers
  Events <- SomeEvents
  Environments <- SomeEnvironments
CHECK_DEADLOCK FALSE
INVARIANT ModelInSync
