SPECIFICATION MCSpec
CONSTANTS
  Alphabet = {"{", "}", "[", "]", ",", ":", "q", "0", "t", "r", "u", "esc", ".", "s"}
  MaxLength = 6
  Grammars <- MCGrammars
  Chars = {"a", "b", "c", "wide"}
  Utf8 <- MCUtf8
  TokenTexts <- MCTokenTexts
  MaxChars = 8
  Spelling <- MCSpelling
  Trigger <- MCTrigger
  AddsBos = {TRUE, FALSE}
  Words = {"a", "b", "bos"}
  ArgPieces = {"{", "}", "q"}
  Results = {"found"}
  MaxTurns = 2
  PhaseTokens = 3
  AnswerTokens = 1
  VocabSize = 3
  Levels <- MCLevels
  Settings <- MCSettings
  Tau = 1
  Rounds = FALSE
  Floor = 4
  MaxBits = 12
  MaxSamples = 2
  Models <- MCModels
  Letters = {"a", "b", " ", "e"}
  BytesOf <- MCBytesOf
  MaxText = 6
  Names = {"m", "n"}
  Tensors = {"q", "k"}
  Scales = {1, 2}
  Files <- MCFiles
  MaxChanges = 4
INVARIANTS ConstraintInv AgentInv SamplerInv TokenizerInv LoraInv
CHECK_DEADLOCK FALSE
