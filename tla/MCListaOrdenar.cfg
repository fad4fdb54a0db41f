CONSTANTS
  Cantidad = 5
  Valores <- MCValores
  Comparador <- MCMenorOIgual
  MenorOIgual <- MCMenorOIgual
SPECIFICATION OrdenarFairSpec
INVARIANTS
  OrdenarTypeOK
  Ordenada
  Estable
PROPERTIES
  Termina
CHECK_DEADLOCK FALSE
