SPECIFICATION Spec
CONSTANTS
  Kinds = {"plain", "checked"}
  NumCommands = 3
  Outputs <- AnyOutput
  Greetings <- AnyGreeting
  MaxTimeouts = 2
INVARIANTS
  PlainKeepsOutput
PROPERTIES
  ImplementsSession
