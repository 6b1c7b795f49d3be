SPECIFICATION NamedSpec
CONSTANTS
  Rules <- MCRules
  Packets = {1, 2, 3, 4, 5, 6, 7, 8, 9, 10, 11, 12, 13, 14, 15}
  Fields <- MCFields
  Priority <- MCPriority
  MaxPriority = 15
  Low <- MCLow
  High <- MCHigh
  Order <- MCOrder
  Top <- MCTop
  PrefixLength <- MCPrefixLength
  Value <- MCValue
  Match <- MCMatch
  Masked <- MCMasked
  Hash <- MCHash
  LeafSize = 1
  HyperLeafSize = 2
  SpaceFactor = 4
  Word = 256
  BitsPerField = 4
  BitsPerWord = 4
  PointBits = 4
  BitsPerNybble = 1
  MaxDelta = 2
  MaxSpan = 2
  PrimaryRate = 1
  ByteLeafSize = 1
  AddressDims <- MCAddressDims
  AllowableDims <- MCAllowableDims
  SplitDims <- MCSplitDims
  DredgePercent = 2
  TurningPercent = 1
  MinPercent = 75
  Updated <- MCUpdated
  Together <- MCTogether
  Mature = 3
INVARIANTS LeavesComplete ByteCutsAnswers HyperCutsAnswers BitVectorAnswers AnswersSound NoOverlapMet
CHECK_DEADLOCK FALSE
