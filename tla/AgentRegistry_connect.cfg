CONSTANTS
  u1 = u1  u2 = u2  n1 = n1  n2 = n2  n3 = n3  x = x  y = y  z = z
  c1 = c1  c2 = c2  r1 = r1  r2 = r2  r3 = r3  r4 = r4
  Dials <- Crossed
  Conns = {c1, c2}
  RowIds = {r1, r2, r3, r4}
  None = None
SPECIFICATION Spec
SYMMETRY Symmetry
INVARIANTS TypeOK KeysStayWithOwner ExclusiveAgentsAreKnown UndisturbedIsDiscoverable
