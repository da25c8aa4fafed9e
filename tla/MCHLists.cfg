CONSTANTS
  Heads = {h1, h2}
  Nodes = {n1, n2, n3, n4}
  NULL = null
  Poison = poison
  Wild = wild
SPECIFICATION Spec
INVARIANTS Linked SingularMeansAlone
PROPERTIES AreLists
