SPECIFICATION Spec
CONSTANTS
  Guiones <- MCGuiones
  MaxQuantum = 2
  Modulo = 16
  Direcciones = {"otro", "FILE_OPEN"}
INVARIANTS
  TypeOK
  PcbExactoSinVacias
  QuantumRespetado
  RespuestaPropia
  EsperaJustificada
  MuertesDeSafa
PROPERTY
  EjecucionTermina
CHECK_DEADLOCK FALSE
