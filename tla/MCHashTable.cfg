CONSTANTS
  k1 = k1
  k2 = k2
  k3 = k3
  Keys = {k1, k2, k3}
  KeyObjs = {ko1, ko2, ko3}
  ValueObjs = {v1, v2, v3, v4}
  HashSize = 3
  Hash <- MCHash
  NbStats = {1, 3}
  Words = {0, 257}
  Absent = absent
  Heads <- MCHeads
  Nodes = {n1, n2, n3}
  NULL = null
  Poison = poison
  Wild = wild
SPECIFICATION Spec
INVARIANTS TypeOK CursorSafe ListsSound ObjectsOwned StatsCounted
PROPERTIES IsMap KeysKept
SYMMETRY MCSymmetry
