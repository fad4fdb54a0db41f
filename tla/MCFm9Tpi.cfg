SPECIFICATION Spec
CONSTANTS
  TAMANIO = 360
  TAM_PAGINA = 72
  MAX_LINEA = 36
  Pids = {1, 2, 5, 11}
  MaxLineas = 3
  Tope = 6
  Basura = Basura
  v = v
  w = w
  Valores = {v, w}
  LibresPorAzar <- MCLibres
INVARIANTS
  TypeOK
  LoEscritoSeConserva
  BusquedaCompleta
PROPERTY
  BusquedaTermina
CHECK_DEADLOCK FALSE
