CONSTANTS
  Heads = {h1, h2}
  Nodes = {n1, n2, n3}
  NULL = null
  Poison = poison
  Wild = wild
SPECIFICATION Spec
INVARIANTS Ringed LoopVisitsAll TestSaysDone
PROPERTIES AreDeques
SYMMETRY MCSymmetry
