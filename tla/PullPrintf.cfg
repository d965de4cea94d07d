SPECIFICATION PullSpec
CONSTANTS
  Kinds = {"plain"}
  NumCommands = 3
  Outputs <- Encodings
  Greetings <- AnyGreeting
  MaxTimeouts = 3
  Base64 <- TwoInBase64
  Hex <- TwoInHex
  HexLike = {2}
INVARIANTS
  PullTypeOK
  PlainOwnOutput
  AnsweredIsWhole
  SuccessIsOneTail
PROPERTIES
  ImplementsUpload
  PullReturns
