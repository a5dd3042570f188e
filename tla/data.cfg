CONSTANTS
  Strings = {s, t}
  Chars = {"a", "b"}
  Texts <- MCTexts
  Nul = nul
  Junk = junk
  MaxSize = 3
  Block = 8
  Word = 64
  LongBlock = 4
  LongWord = 2
  Chunks = {1, 3, 8, 14}
  MaxMessage = 70
  Parts <- MCParts
  Alphabet <- MCAlphabet
  Longest <- MCLongest
  Words <- MCWords
  MaskKey <- MCMaskKey
  SpaceChars = {" "}
  LowerOf <- MCLowerOf
SPECIFICATION DataSpec
SYMMETRY Symmetry
CHECK_DEADLOCK FALSE
INVARIANTS StringFits HashFeedsMessage TextSearch EncodingsAgree LookupFindsAddress
PROPERTIES StringValue JsonTexts IniKeeps
