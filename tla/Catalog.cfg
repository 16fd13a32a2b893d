SPECIFICATION Spec
CONSTANTS
  root = root
  top = top
  sub = sub
  c1 = c1
  c2 = c2
  u1 = u1
  None = None
  Ids = {b1, b2, b3}
  Dirs = {root, top}
  Start <- MCAtRoot
  Accepts = {c1}
  Order <- MCOrder
  Below <- MCBelow
  Root = root
  Contents = {1, 2}
  Renamed <- MCRenamed
  Cands = {c1, c2}
  Cover <- MCCover
  Results <- MCResults
  Workers = {w1, w2}
  Requests = {r1}
  MaxCalls = 4
INVARIANT TypeOK
 
 
PROPERTY ScanReconciles
CHECK_DEADLOCK FALSE
SYMMETRY Symmetry
