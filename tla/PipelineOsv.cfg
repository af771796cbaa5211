SPECIFICATION Spec
CONSTANTS
  s1 = s1
  s2 = s2
  Absent = Absent
  Torn = Torn
  Shipped = Shipped
  NoRows = NoRows
  Scales <- MCScales
  FaultModels <- NoFaults
INVARIANTS OsvLabel
