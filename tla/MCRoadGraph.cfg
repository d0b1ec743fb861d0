SPECIFICATION Spec
CONSTANTS
  h1 = h1
  h2 = h2
  h3 = h3
  h4 = h4
  n1 = n1
  n2 = n2
  n3 = n3
  n4 = n4
  r1 = r1
  r2 = r2
  Null = Null
  Handle = {h1, h2, h3, h4}
  Id = {n1, n2, n3, n4}
  Road = {r1, r2}
  Position <- MCPosition
  MaxNodes = 4
  MaxEdges = 3
SYMMETRY Symmetry
INVARIANTS TypeOK Balanced EdgesAgree NoDanglingEdge CrossVertexCorrect
