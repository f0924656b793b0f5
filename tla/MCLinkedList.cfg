SPECIFICATION Spec
CONSTANTS
  n1 = n1  n2 = n2  n3 = n3  n4 = n4  d1 = d1  d2 = d2  NULL = NULL
  Nodes <- FourNodes
  Data <- TwoData
INVARIANTS WellLinked
PROPERTIES SearchIsExact
