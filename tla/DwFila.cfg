SPECIFICATION Spec
CONSTANTS
  Fila = {f1, f2, f3, f4}
  Null = Null
INVARIANTS
  RingWhole
PROPERTY RefinesQueue
