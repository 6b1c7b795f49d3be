SPECIFICATION Spec
CONSTANTS
  Rules = {1, 2, 3, 4, 5}
  Packets = {"a", "b", "c", "d"}
  FieldSA = "SA"
  FieldDA = "DA"
  FieldSP = "SP"
  FieldDP = "DP"
  FieldProto = "Proto"
  Fields = {"SA", "DA", "SP", "DP", "Proto"}
  Priority <- MCPriority
  MaxPriority = 5
  Low <- MCLow
  PrefixLength <- MCPrefixLength
  Value <- MCValue
  Match <- MCMatch
  Masked <- MCMasked
  Hash <- MCHash
  CollideLimit = 1
INVARIANT SearchesRulesInUse
