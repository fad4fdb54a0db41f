SPECIFICATION Spec
CONSTANTS
  Guiones <- MCGuiones
  MaxQuantum = 2
  Modulo = 16
  Direcciones = {"otro", "FILE_OPEN"}
PROPERTY
  BloqueoTermina
CHECK_DEADLOCK FALSE
