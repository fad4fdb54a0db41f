SPECIFICATION Spec
CONSTANTS
  Nadie = nadie
  MaxCpus = 2
INVARIANTS
  SinEsperaCircular
  
  LoQueRetiene
PROPERTIES
  StatusTerminaSalvoLista
CHECK_DEADLOCK FALSE
