SPECIFICATION CliSpec
CONSTANTS
  Outcome <- Call3
  CountOf <- CountIn
  Unknown <- NoCount
  Literal <- Literals
  Definable <- Definitions
  VariableNamed <- Variable
  Function <- FunctionIn
  Assigned <- Assign
  World0 <- Empty
  MaxVars = 4
  Char <- Sources
  White <- Blank
  Numeral <- Whole
  NoNumeral <- NotANumeral
  Spelled <- Decimal
  Separator <- Separators
  StrValue <- StrOf
  NumValue <- NumOf
  WordOf <- Named
  NoWord <- Nameless
  LuaName <- IsLuaName
  WordChar <- Letters
  Lower <- LowerCase
  Nul = "nul"
  Primitive <- Atoms
  Normalizer <- Norms
  Pad <- Ends
  MaxWord = 2
  MaxText = 4
  MaxGram = 2
  MaxBuild = 5
INVARIANTS
  LoweringInv
  TokenizeIsInscribe
  MatchesInLanguage
  PrintsBack
PROPERTIES
  WordsAreForth
  DefinitionsPush
