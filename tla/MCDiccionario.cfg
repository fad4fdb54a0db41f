SPECIFICATION Spec
CONSTANTS
  Claves <- ClavesMC
  Hash <- HashMC
  Datos = {d1, NULL}
  NULL = NULL
  TamanioInicial = 2
  MaxNulos = 1
INVARIANTS
  TypeOK
  BienUbicados
  CuentasExactas
PROPERTIES
  ImplementaMapa
