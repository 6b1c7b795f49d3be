SPECIFICATION FairSpec
CONSTANTS
  K = 2
  Hashes = {0, 1}
  Zero = 0
  Nodes = {n1, n2}
  Null = Null
  Readers = {r1}
  CounterMod = 4
  MaxWrites = 3
  AsWritten = TRUE
INVARIANTS SearchAtomic
PROPERTY SearchReturns
