SPECIFICATION Spec
CONSTANTS
  p1 = p1
  p2 = p2
  p3 = p3
  a = a
  A = A
  Procesos = {p1, p2, p3}
  Nadie = Nadie
  Archivos = {a, A}
  Minusculas <- MCMinusculas
  MaxInstrucciones = 4
INVARIANT
  NadieReclamaAntes
CHECK_DEADLOCK FALSE
