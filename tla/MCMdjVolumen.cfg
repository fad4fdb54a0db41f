SPECIFICATION FairSpec
CONSTANTS
  Rutas <- RutasMC
  Tamanios = {0, 2, 3}
  CantidadBloques = 3
  TamanioBloques = 2
  TamanioBuffer = 2
  MaxCaidas = 2
INVARIANTS
  TypeOK
  SinBloquesCompartidos
  ReinicioSeguro
  BytesCoherentes
PROPERTIES
  ImplementaAlmacen
  SolicitudTermina
