SPECIFICATION Spec
CONSTANTS
  p1 = p1
  w1 = w1
  w2 = w2
  Reqs = {p1}
  Workspaces = {w1, w2}
  Null = Null
  MaxTasks = 4
SYMMETRY Symmetry
INVARIANT RecursionEnds
  
