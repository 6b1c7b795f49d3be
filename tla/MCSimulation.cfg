SPECIFICATION Spec
CONSTANTS
  Rules = {1, 2, 3}
  Packets = {"a", "b", "c", "d"}
  Fields <- MCFields
  Priority <- MCPriority3
  MaxPriority = 5
  Low <- MCLow
  PrefixLength <- MCPrefixLength3
  Value <- MCValue
  Match <- MCMatch3
  Masked <- MCMasked
  Hash <- MCHash
  NumPacket = 1
  NumInsert = 2
  NumDelete = 2
  NoRule = NoRule
  Classifiers = 2
  Trials = 2
  Trace <- MCTrace
INVARIANTS IndicesInRange InStep ResultsComplete
CHECK_DEADLOCK FALSE
