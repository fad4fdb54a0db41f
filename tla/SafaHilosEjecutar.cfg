SPECIFICATION Spec
CONSTANTS
  Nadie = nadie
  MaxCpus = 2
PROPERTIES
  EjecutarTermina
CHECK_DEADLOCK FALSE
