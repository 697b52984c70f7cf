SPECIFICATION Spec
CONSTANTS
  Codes = {f, g, h, k}
  f = f
  g = g
  h = h
  k = k
  Target = f
  Sourceless = {k}
  MaxDepth = 3
  MaxLines = 2
  MaxStack = 5
SYMMETRY Symmetry
INVARIANTS TypeOK RaisesForAReason ReportRight
