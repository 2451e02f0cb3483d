\* A component whose props are all optional, called with and without props.
SPECIFICATION Spec
CONSTANTS
  Alphabets <- JustBare
  MaxSource = 5
  ComponentTags = {"Badge", "Card", "Field", "Rule"}
  ScopedSlots = {"head"}
  Camelized <- SomeCamelized
  Library <- SomeLibrary
  Domain <- SomeDomain
  Initial <- NoOption
  Typed <- SomeTyped
  Numbers <- SomeNumbers
  Events <- SomeEvents
  Environments <- SomeEnvironments
CHECK_DEADLOCK FALSE
INVARIANT OptionalPropsMayBeOmitted
