CONSTANTS
  Listas = {l1, l2}
  Nodos = {n1, n2, n3, n4}
  Datos = {d1, d2}
  NULL = NULL
  Basura = Basura
SPECIFICATION Spec
INVARIANTS
  HeapCoherente
PROPERTIES
  ImplementaSecuencia
CHECK_DEADLOCK FALSE
SYMMETRY Simetria
