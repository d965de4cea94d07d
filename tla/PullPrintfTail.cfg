SPECIFICATION PullSpec
CONSTANTS
  Kinds = {"plain"}
  NumCommands = 3
  Outputs <- Encodings
  Greetings <- NoGreeting
  MaxTimeouts = 1
  Base64 <- ThreeInBase64
  Hex <- ThreeInHex
  HexLike = {}
INVARIANTS
  SuccessIsWhole
