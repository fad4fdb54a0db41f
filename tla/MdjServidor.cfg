SPECIFICATION Spec
CONSTANTS
  Clientes = {c1, c2}
  Escucha = escucha
INVARIANTS
  TypeOK
  SinDesfase
  RespuestaSolicitada
  BloqueoJustificado
PROPERTIES
  SolicitudAtendida
