SPECIFICATION ReadersSpec
CONSTANTS
  K = 1
  MaxLoad = 85
  MinLoad = 40
  MaxDepth = 4
  Nodes = {1, 2, 3, 4}
  Hashes = {0, 1, 2, 3}
  NodeHash <- MCNodeHash
  Zero = 0
  Bases = {1, 2}
  HashFinish <- MCHashFinish
  NoNode = NoNode
  Readers = {r1}
INVARIANTS FindLinearizable
