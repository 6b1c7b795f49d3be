SPECIFICATION Spec
CONSTANTS
  Rules = {1, 2, 3, 4, 5}
  Packets = {"a", "b", "c", "d"}
  Fields <- MCFields
  Priority <- MCPriority
  MaxPriority = 5
  Low <- MCLow
  PrefixLength <- MCPrefixLength
  Value <- MCValue
  Match <- MCMatch
  Masked <- MCMasked
  Hash <- MCHash
  Dims = {"SA", "DA"}
INVARIANTS TypeOK VectorIsMap StoredByKey MaxIsBest VectorSorted
PROPERTIES ClassifierSpec PlainSpec PlainClassifierSpec
