SPECIFICATION MCSpec
CONSTANTS
  Block = {b1, b2, b3}
  None = None
  Char = {"a", "b", "p", "x", ":", "0", "1"}
  Junk = Junk
  InitBlockSize = 2
  TypeName <- TypeNames
  AttName <- AttNames
  Zero = "0"
  Colon = ":"
  Xmlns = "x"
  Mark = "1"
  Hash <- Hashes
  InitSize = 4
  MaxCalls = 3
  MaxKept = 2
  MaxLength = 3
  Seeds <- SomeSeeds
  Alphabet <- SomeAlphabet
  Growth <- SomeGrowth
  Entities <- SomeEntities
SYMMETRY Blocks
INVARIANTS PoolSafe TableSound MarkupIsXml ValuesAsWritten
PROPERTIES KeepsTheNames TokensStand
CHECK_DEADLOCK FALSE
