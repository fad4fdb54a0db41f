-------------------------- MODULE MdjVolumenProofs --------------------------
(***************************************************************************)
(* Proofs about MdjVolumen, for every set of paths and sizes and every     *)
(* volume: type correctness, that no two archivos share a block, that a    *)
(* restart never offers a block in use, that the volume implements module  *)
(* Almacen, and that the blocks of an archivo hold its bytes.              *)
(***************************************************************************)
EXTENDS MdjVolumen, TLAPS, NaturalsInduction, WellFoundedInduction

Asignando == {"buscar", "bloque", "bitmapAbrir", "bitmapEscribir",
              "bitmapCerrar", "guardar", "guardarEscribir"}
Creando   == {"bloque", "bitmapAbrir", "bitmapEscribir", "bitmapCerrar"}
Iniciando == {"inicioEscribir", "inicioCerrar"}
Sirviendo == Asignando \cup Iniciando \cup {"libre", "responder"}

Usado(b) == \E a \in Archivos : b \in BloquesDe(a)

\* The blocks found so far are different blocks inside the array, in ascending
\* order, no more than the size asks for.
BusquedaOK ==
  pc \in Asignando =>
    /\ comando = CREAR_ARCHIVO
    /\ ruta \in Rutas
    /\ bytes \in Tamanios
    /\ Len(bloques) <= CantBloques(bytes)
    /\ \A k \in 1 .. Len(bloques) :
         k - 1 <= bloques[k] /\ bloques[k] < bitarray.size
    /\ \A j, k \in 1 .. Len(bloques) : j < k => bloques[j] < bloques[k]

\* How far the loop over the blocks has come.
AvanceOK ==
  /\ pc \notin Asignando \cup {"responder"} => i = 0 /\ bloques = << >>
  /\ pc = "buscar" => i = 0
  /\ pc \in Creando => i < Len(bloques)
  /\ pc \in Creando \cup {"guardar", "guardarEscribir"} =>
       Len(bloques) = CantBloques(bytes)
  /\ pc \in Creando => \A k \in 1 .. i : bloques[k] \in bitarray.marcados
  /\ pc \in Creando \ {"bloque"} => bloques[i + 1] \in bitarray.marcados
  /\ pc \in {"guardar", "guardarEscribir"} =>
       /\ \A k \in 1 .. Len(bloques) : bloques[k] \in bitarray.marcados
       /\ bloques # << >> => bitmapBin = bitarray
  /\ pc = "guardarEscribir" => archivos[EnArchivos(ruta)] = Vacio

\* Until Bitmap.bin has been written for the first time there is no archivo.
InicioOK ==
  /\ (pc \in Iniciando \/ bitmapBin = SinBitmap) => \A b \in Bloques : ~Usado(b)
  /\ pc \in Sirviendo => bitmapBin # SinBitmap

\* In memory, no block of an archivo is free; and none of those found for the
\* request being handled belongs to an archivo.
MemoriaOK ==
  ~bitmapPerdido =>
    /\ pc \in Sirviendo =>
         \A b \in Bloques :
           Usado(b) /\ b < bitarray.size => b \in bitarray.marcados
    /\ pc \in Asignando => \A k \in 1 .. Len(bloques) : ~Usado(bloques[k])

IInv == TypeOK /\ BusquedaOK /\ AvanceOK /\ InicioOK /\ MemoriaOK
          /\ SinBloquesCompartidos /\ ReinicioSeguro

-----------------------------------------------------------------------------
(* Arithmetic of blocks *)

LEMMA Division ==
  ASSUME NEW n \in Nat, NEW d \in Nat, d > 0
  PROVE  /\ n \div d \in Nat /\ n % d \in 0 .. d - 1
         /\ n = d * (n \div d) + (n % d)
         /\ (n \div d) * d \in Nat /\ (n \div d) * d <= n
<1>1. /\ n \div d \in Nat /\ n % d \in 0 .. d - 1
      /\ n = d * (n \div d) + (n % d)
  OBVIOUS
<1>2. PICK q \in Nat, r \in 0 .. d - 1 : q = n \div d /\ r = n % d /\ n = d * q + r
  BY <1>1
<1>3. d * q = q * d /\ q * d \in Nat
  BY <1>2
<1>4. q * d <= n
  BY <1>2, <1>3
<1> QED BY <1>1, <1>2, <1>3, <1>4

\* Every block but the last of an archivo of b bytes is full, and all of them
\* together hold it.
LEMMA CantBloquesAlcanza ==
  ASSUME NEW b \in Nat
  PROVE  /\ CantBloques(b) \in Nat
         /\ b <= CantBloques(b) * TamanioBloques
         /\ CantBloques(b) # 0 => (CantBloques(b) - 1) * TamanioBloques < b
<1> DEFINE T == TamanioBloques
<1>1. T \in Nat /\ T > 0
  BY ConstantesOK
<1>2. /\ b \div T \in Nat /\ b % T \in 0 .. T - 1
      /\ b = T * (b \div T) + (b % T)
  BY <1>1
<1> HIDE DEF T
<1>3. PICK q \in Nat, r \in 0 .. T - 1 :
         q = b \div T /\ r = b % T /\ b = T * q + r
  BY <1>2
<1>4. T * q = q * T /\ (q + 1) * T = q * T + T /\ (q - 1) * T = q * T - T
  BY <1>1
<1>5. CantBloques(b) = IF r > 0 THEN q + 1 ELSE q
  BY <1>1, <1>3 DEF CantBloques, T
<1>6. CASE r > 0
  BY <1>1, <1>3, <1>4, <1>5, <1>6 DEF T
<1>7. CASE ~(r > 0)
  BY <1>1, <1>3, <1>4, <1>5, <1>7 DEF T
<1> QED BY <1>6, <1>7, <1>3

\* A block the loop of crear_archivo reaches gets between 1 and TAMANIO_BLOQUES
\* bytes: bytes_restantes has not run out.
LEMMA BytesDelBloqueAcotado ==
  ASSUME NEW b \in Nat, NEW k \in Nat, k < CantBloques(b)
  PROVE  BytesDelBloque(b, k) \in 1 .. TamanioBloques
<1>1. TamanioBloques \in Nat /\ TamanioBloques > 0
  BY ConstantesOK
<1>2. /\ CantBloques(b) \in Nat
      /\ (CantBloques(b) - 1) * TamanioBloques < b
  BY CantBloquesAlcanza
<1>3. k * TamanioBloques <= (CantBloques(b) - 1) * TamanioBloques
  BY <1>1, <1>2
<1>4. k * TamanioBloques \in Nat /\ (CantBloques(b) - 1) * TamanioBloques \in Int
  BY <1>1, <1>2
<1> QED BY <1>1, <1>2, <1>3, <1>4 DEF BytesDelBloque

-----------------------------------------------------------------------------
(* Type correctness *)

LEMMA InitTypeOK == Init => TypeOK
<1> SUFFICES ASSUME Init PROVE TypeOK
  OBVIOUS
<1>1. SinBitmap \in Bitmaps \cup {SinBitmap} /\ BitmapVacio \in Bitmaps
  BY ConstantesOK DEF Bitmaps, BitmapVacio, Bloques
<1>2. Ausente \in Contenidos
  BY DEF Ausente, Contenidos
<1> QED
  BY <1>1, <1>2, ConstantesOK DEF Init, TypeOK, Pcs, Bloques

LEMMA PrefijoTipo ==
  ASSUME NEW b \in Bitmaps
  PROVE  /\ Prefijo(b) \in Bitmaps
         /\ Prefijo(b).size <= b.size
         /\ \A x \in b.marcados : x < Prefijo(b).size => x \in Prefijo(b).marcados
<1> DEFINE q == b.size \div TamanioBuffer
           w == q * TamanioBuffer
<1>1. TamanioBuffer \in Nat /\ TamanioBuffer > 0
      /\ b.size \in 0 .. CantidadBloques /\ b.size \in Nat
  BY ConstantesOK DEF Bitmaps
<1>2. w \in Nat /\ w <= b.size
  BY <1>1, Division
<1>3. Prefijo(b) = [size |-> w, marcados |-> {x \in b.marcados : x < w}]
  BY DEF Prefijo
<1> HIDE DEF w
<1>4. w \in 0 .. CantidadBloques
  BY <1>1, <1>2, ConstantesOK
<1> QED
  BY <1>2, <1>3, <1>4 DEF Bitmaps

\* Every step keeps the types; writing a block file needs the bounds of the
\* loop of crear_archivo.
LEMMA NextTypeOK ==
  ASSUME TypeOK, BusquedaOK, AvanceOK, [Next]_vars
  PROVE  TypeOK'
<1> USE DEF TypeOK
<1>0. BitmapVacio \in Bitmaps
  BY ConstantesOK DEF Bitmaps, BitmapVacio, Bloques
<1>1. ASSUME Inicio PROVE TypeOK'
  <2>1. CASE Arrancar
    BY <2>1 DEF Arrancar, disco, pedido, historia, Pcs
  <2>2. CASE CrearMetadata
    BY <2>2 DEF CrearMetadata, disco, pedido, historia, Pcs
  <2>3. CASE EscribirMetadata
    BY <2>3 DEF EscribirMetadata, disco, pedido, historia, Pcs
  <2>4. CASE LeerMetadata
    BY <2>4 DEF LeerMetadata, disco, pedido, historia, Pcs
  <2>5. CASE MetadataIlegible
    BY <2>5 DEF MetadataIlegible, disco, pedido, historia, Pcs
  <2>6. CASE CrearBitmap
    <3>1. bitarray' \in Bitmaps
      BY <2>6, ConstantesOK DEF CrearBitmap, Bitmaps, Bloques
    <3> QED
      BY <2>6, <3>1, <1>0 DEF CrearBitmap, disco, pedido, historia, Pcs
  <2>7. CASE CerrarBitmapInicial
    BY <2>7 DEF CerrarBitmapInicial, disco, pedido, historia, Pcs
  <2>8. CASE LeerBitmap
    <3>1. bitarray' \in Bitmaps
      BY <2>8 DEF LeerBitmap, SinBitmap
    <3> QED
      BY <2>8, <3>1 DEF LeerBitmap, disco, pedido, historia, Pcs
  <2>9. CASE LeerBitmapVacio
    <3>1. bitarray' \in Bitmaps
      BY <2>9, ConstantesOK DEF LeerBitmapVacio, Bitmaps, Bloques
    <3> QED
      BY <2>9, <3>1 DEF LeerBitmapVacio, disco, pedido, historia, Pcs
  <2> QED
    BY <1>1, <2>1, <2>2, <2>3, <2>4, <2>5, <2>6, <2>7, <2>8, <2>9 DEF Inicio
<1>2. ASSUME Recibir PROVE TypeOK'
  <2>1. ASSUME NEW r \in Rutas, Validar(r) PROVE TypeOK'
    BY <2>1 DEF Validar, disco, pedido, historia, Pcs, Respuestas
  <2>2. ASSUME NEW r \in Rutas, NEW b \in Tamanios, RecibirCrear(r, b) PROVE TypeOK'
    BY <2>2 DEF RecibirCrear, disco, pedido, historia, Pcs
  <2>3. ASSUME NEW r \in Rutas, NEW b \in Tamanios, RecibirCrearError(r, b) PROVE TypeOK'
    BY <2>3 DEF RecibirCrearError, disco, pedido, historia, Pcs, Respuestas
  <2> QED
    BY <1>2, <2>1, <2>2, <2>3 DEF Recibir
<1>3. ASSUME Manejar PROVE TypeOK'
  <2>1. CASE ProximoBloqueLibre
    <3> PICK b \in LibresDesde(BloqueInicial) : bloques' = Append(bloques, b)
      BY <2>1 DEF ProximoBloqueLibre
    <3>1. BloqueInicial \in Nat
      <4>1. bloques # << >> => bloques[Len(bloques)] \in Bloques
        OBVIOUS
      <4> QED
        BY <4>1 DEF BloqueInicial, Bloques
    <3>2. b \in Bloques
      BY <3>1, ConstantesOK DEF LibresDesde, Bitmaps, Bloques
    <3>3. bloques' \in Seq(Bloques)
      BY <3>2
    <3> QED
      BY <2>1, <3>3 DEF ProximoBloqueLibre, disco, historia, Pcs
  <2>2. CASE BloquesEncontrados
    BY <2>2 DEF BloquesEncontrados, disco, pedido, historia, Pcs
  <2>3. CASE SinEspacio
    BY <2>3 DEF SinEspacio, disco, pedido, historia, Pcs, Respuestas
  <2>4. CASE EscribirBloque
    <3>1. /\ i + 1 \in 1 .. Len(bloques)
          /\ i < CantBloques(bytes) /\ bytes \in Nat
      BY <2>4, ConstantesOK DEF EscribirBloque, AvanceOK, BusquedaOK, Creando, Asignando
    <3>2. bloques[i + 1] \in Bloques
      BY <3>1
    <3>3. BytesDelBloque(bytes, i) \in 0 .. TamanioBloques
      BY <3>1, BytesDelBloqueAcotado, ConstantesOK
    <3>4. bitarray' \in Bitmaps
      BY <2>4, <3>2 DEF EscribirBloque, Bitmaps
    <3> QED
      BY <2>4, <3>2, <3>3, <3>4 DEF EscribirBloque, disco, pedido, historia, Pcs
  <2>5. CASE AbrirBitmap
    BY <2>5, <1>0 DEF AbrirBitmap, disco, pedido, historia, Pcs
  <2>6. CASE EscribirBitmap
    BY <2>6, PrefijoTipo DEF EscribirBitmap, disco, pedido, historia, Pcs
  <2>7. CASE CerrarBitmap
    BY <2>7 DEF CerrarBitmap, disco, pedido, historia, Pcs
  <2>8. CASE AbrirArchivo
    <3>1. Vacio \in Contenidos
      BY DEF Vacio, Contenidos
    <3> QED
      BY <2>8, <3>1 DEF AbrirArchivo, disco, pedido, historia, Pcs
  <2>9. CASE ArchivoSinCarpeta
    BY <2>9 DEF ArchivoSinCarpeta, disco, pedido, historia, Pcs, Respuestas
  <2>10. CASE EscribirArchivo
    <3>1. Guardado(bytes, bloques) \in Contenidos
      BY DEF Guardado, Contenidos
    <3> QED
      BY <2>10, <3>1 DEF EscribirArchivo, disco, pedido, historia, Pcs, Respuestas
  <2>11. CASE Responder
    BY <2>11 DEF Responder, SinPedido, disco, historia, Pcs
  <2> QED
    BY <1>3, <2>1, <2>2, <2>3, <2>4, <2>5, <2>6, <2>7, <2>8, <2>9, <2>10, <2>11
       DEF Manejar
<1>4. ASSUME Caida PROVE TypeOK'
  BY <1>0, <1>4, ConstantesOK DEF Caida, SinPedido, disco, Pcs
<1>5. ASSUME UNCHANGED vars PROVE TypeOK'
  BY <1>5 DEF vars, disco, pedido, historia
<1> QED
  BY <1>1, <1>2, <1>3, <1>4, <1>5 DEF Next

-----------------------------------------------------------------------------
(* The search of free blocks and the loop over them *)

\* Steps of start-up, of a crash and of the answer leave no request.
LEMMA InicioSinAsignar ==
  ASSUME TypeOK, Inicio \/ Caida \/ Responder
  PROVE  pc' \in Pcs \ Asignando
<1> USE DEF TypeOK, Pcs, Asignando
<1>1. CASE Inicio
  BY <1>1 DEF Inicio, Arrancar, CrearMetadata, EscribirMetadata, LeerMetadata,
       MetadataIlegible, CrearBitmap, CerrarBitmapInicial, LeerBitmap, LeerBitmapVacio
<1>2. CASE Caida
  BY <1>2 DEF Caida
<1>3. CASE Responder
  BY <1>3 DEF Responder
<1> QED BY <1>1, <1>2, <1>3

LEMMA NextBusquedaOK ==
  ASSUME TypeOK, BusquedaOK, AvanceOK, [Next]_vars
  PROVE  BusquedaOK'
<1> USE DEF BusquedaOK, Asignando
<1>1. CASE Inicio \/ Caida \/ Responder
  BY <1>1, InicioSinAsignar
<1>2. CASE Recibir
  <2>1. CASE \E r \in Rutas : Validar(r)
    BY <2>1 DEF Validar
  <2>2. ASSUME NEW r \in Rutas, NEW b \in Tamanios, RecibirCrear(r, b)
        PROVE  BusquedaOK'
    <3>1. bloques' = << >> /\ Len(bloques') = 0
      BY <2>2 DEF RecibirCrear, AvanceOK
    <3>2. CantBloques(b) \in Nat
      BY ConstantesOK, CantBloquesAlcanza
    <3> QED
      BY <2>2, <3>1, <3>2 DEF RecibirCrear, CREAR_ARCHIVO
  <2>3. CASE \E r \in Rutas, b \in Tamanios : RecibirCrearError(r, b)
    BY <2>3 DEF RecibirCrearError
  <2> QED
    BY <1>2, <2>1, <2>2, <2>3 DEF Recibir
<1>3. CASE ProximoBloqueLibre
  <2>1. PICK b \in LibresDesde(BloqueInicial) : bloques' = Append(bloques, b)
    BY <1>3 DEF ProximoBloqueLibre
  <2>2. /\ pc = "buscar" /\ Len(bloques) < CantBloques(bytes)
        /\ UNCHANGED <<bitarray, pc, comando, ruta, bytes>>
    BY <1>3 DEF ProximoBloqueLibre
  <2>3. /\ b \in Int /\ b < bitarray.size
        /\ BloqueInicial <= b
    <3>1. BloqueInicial \in Int /\ bitarray.size \in Int
      <4>1. bloques # << >> => bloques[Len(bloques)] \in Bloques
        BY DEF TypeOK
      <4> QED
        BY <4>1, ConstantesOK DEF BloqueInicial, Bloques, TypeOK, Bitmaps
    <3> QED BY <3>1 DEF LibresDesde
  <2>4. /\ Len(bloques) \in Nat /\ Len(bloques') = Len(bloques) + 1
        /\ \A k \in 1 .. Len(bloques) : bloques'[k] = bloques[k] /\ bloques[k] \in Int
        /\ bloques'[Len(bloques) + 1] = b
    <3>1. bloques \in Seq(Bloques) /\ \A x \in Bloques : x \in Int
      BY DEF TypeOK, Bloques
    <3> QED BY <2>1, <3>1
  <2>5. \A k \in 1 .. Len(bloques) : bloques[k] < b
    BY <2>2, <2>3, <2>4 DEF BloqueInicial
  <2>6. Len(bloques) <= b
    <3>1. CASE bloques = << >>
      BY <3>1, <2>3, <2>4 DEF BloqueInicial
    <3>2. CASE bloques # << >>
      <4>1. Len(bloques) \in 1 .. Len(bloques)
        BY <3>2, <2>4 DEF TypeOK
      <4> QED
        BY <4>1, <2>2, <2>3, <2>4, <2>5
    <3> QED BY <3>1, <3>2
  <2>7. CantBloques(bytes) \in Nat
    <3>1. bytes \in Nat
      BY ConstantesOK DEF TypeOK
    <3> QED BY <3>1, CantBloquesAlcanza
  <2>8. Len(bloques') <= CantBloques(bytes')
    <3>1. CantBloques(bytes') = CantBloques(bytes)
      BY <2>2
    <3> QED BY <3>1, <2>2, <2>4, <2>7
  <2>9. \A k \in 1 .. Len(bloques') :
          k - 1 <= bloques'[k] /\ bloques'[k] < bitarray'.size
    BY <2>2, <2>3, <2>4, <2>6
  <2>10. \A j, k \in 1 .. Len(bloques') : j < k => bloques'[j] < bloques'[k]
    <3> SUFFICES ASSUME NEW j \in 1 .. Len(bloques'), NEW k \in 1 .. Len(bloques'), j < k
                 PROVE  bloques'[j] < bloques'[k]
      OBVIOUS
    <3>1. j \in 1 .. Len(bloques)
      BY <2>4
    <3>2. CASE k \in 1 .. Len(bloques)
      BY <2>2, <2>4, <3>1, <3>2
    <3>3. CASE k = Len(bloques) + 1
      BY <2>4, <2>5, <3>1, <3>3
    <3> QED BY <2>4, <3>2, <3>3
  <2> QED
    BY <2>2, <2>8, <2>9, <2>10
<1>4. CASE BloquesEncontrados
  BY <1>4 DEF BloquesEncontrados, disco, pedido
<1>5. CASE SinEspacio \/ ArchivoSinCarpeta \/ EscribirArchivo
  BY <1>5 DEF SinEspacio, ArchivoSinCarpeta, EscribirArchivo
<1>6. CASE EscribirBloque
  BY <1>6 DEF EscribirBloque, pedido, TypeOK, Bitmaps
<1>7. CASE AbrirBitmap \/ CerrarBitmap
  BY <1>7 DEF AbrirBitmap, CerrarBitmap, pedido
<1>8. CASE EscribirBitmap
  BY <1>8 DEF EscribirBitmap, pedido
<1>9. CASE AbrirArchivo
  BY <1>9 DEF AbrirArchivo, pedido
<1>10. CASE UNCHANGED vars
  BY <1>10 DEF vars, pedido
<1> QED
  BY <1>1, <1>2, <1>3, <1>4, <1>5, <1>6, <1>7, <1>8, <1>9, <1>10 DEF Next, Manejar

LEMMA NextAvanceOK ==
  ASSUME TypeOK, BusquedaOK, AvanceOK, InicioOK, [Next]_vars
  PROVE  AvanceOK'
<1> USE DEF AvanceOK, Creando, Asignando
<1>1. CASE Inicio
  BY <1>1 DEF Inicio, Arrancar, CrearMetadata, EscribirMetadata, LeerMetadata,
       MetadataIlegible, CrearBitmap, CerrarBitmapInicial, LeerBitmap,
       LeerBitmapVacio, pedido, disco
<1>2. CASE Caida \/ Responder
  BY <1>2 DEF Caida, Responder, SinPedido
<1>3. CASE Recibir
  BY <1>3 DEF Recibir, Validar, RecibirCrear, RecibirCrearError
<1>4. CASE ProximoBloqueLibre \/ SinEspacio \/ ArchivoSinCarpeta
  BY <1>4 DEF ProximoBloqueLibre, SinEspacio, ArchivoSinCarpeta
<1>5. CASE BloquesEncontrados
  BY <1>5 DEF BloquesEncontrados, pedido, disco, TypeOK
<1>6. CASE EscribirBloque
  BY <1>6 DEF EscribirBloque, pedido, TypeOK, Bitmaps
<1>7. CASE AbrirBitmap \/ EscribirBitmap
  BY <1>7 DEF AbrirBitmap, EscribirBitmap, pedido
<1>8. CASE CerrarBitmap
  <2>1. \A k \in 1 .. i + 1 : bloques[k] \in bitarray.marcados
    BY <1>8 DEF CerrarBitmap, TypeOK
  <2>2. Len(bloques) \in Nat /\ i \in Nat /\ i < Len(bloques)
    BY <1>8 DEF CerrarBitmap, TypeOK
  <2> QED
    BY <1>8, <2>1, <2>2 DEF CerrarBitmap
<1>9. CASE AbrirArchivo
  <2>1. EnArchivos(ruta) \in Archivos
    BY <1>9 DEF AbrirArchivo, BusquedaOK, Asignando, Archivos
  <2> QED
    BY <1>9, <2>1 DEF AbrirArchivo, pedido, TypeOK
<1>10. CASE EscribirArchivo
  BY <1>10 DEF EscribirArchivo
<1>11. CASE UNCHANGED vars
  BY <1>11 DEF vars, pedido, disco
<1> QED
  BY <1>1, <1>2, <1>3, <1>4, <1>5, <1>6, <1>7, <1>8, <1>9, <1>10, <1>11
     DEF Next, Manejar

-----------------------------------------------------------------------------
(* Which blocks the archivos name *)

\* Only config_save changes an archivo.
LEMMA ArchivosEstables ==
  ASSUME [Next]_vars, ~AbrirArchivo, ~EscribirArchivo
  PROVE  archivos' = archivos
<1>1. CASE Inicio
  BY <1>1 DEF Inicio, Arrancar, CrearMetadata, EscribirMetadata, LeerMetadata,
       MetadataIlegible, CrearBitmap, CerrarBitmapInicial, LeerBitmap,
       LeerBitmapVacio, disco
<1>2. CASE Recibir
  BY <1>2 DEF Recibir, Validar, RecibirCrear, RecibirCrearError, disco
<1>3. CASE Manejar
  BY <1>3 DEF Manejar, ProximoBloqueLibre, BloquesEncontrados, SinEspacio, disco,
       EscribirBloque, AbrirBitmap, EscribirBitmap, CerrarBitmap,
       ArchivoSinCarpeta, Responder
<1>4. CASE Caida
  BY <1>4 DEF Caida, disco
<1>5. CASE UNCHANGED vars
  BY <1>5 DEF vars, disco
<1> QED BY <1>1, <1>2, <1>3, <1>4, <1>5 DEF Next

LEMMA UsadoEstable ==
  ASSUME archivos' = archivos
  PROVE  /\ \A a \in Archivos : BloquesDe(a)' = BloquesDe(a)
         /\ \A b \in Bloques : Usado(b)' <=> Usado(b)
BY DEF Usado, BloquesDe

\* The fopen of config_save takes every block from the archivo.
LEMMA UsadoTrasAbrir ==
  ASSUME TypeOK, BusquedaOK, AbrirArchivo
  PROVE  /\ \A a \in Archivos : BloquesDe(a)' \subseteq BloquesDe(a)
         /\ \A b \in Bloques : Usado(b)' => Usado(b)
<1>1. PICK d \in Archivos : d = EnArchivos(ruta)
  BY DEF AbrirArchivo, BusquedaOK, Asignando, Archivos
<1>2. archivos' = [archivos EXCEPT ![d] = Vacio]
  BY <1>1 DEF AbrirArchivo
<1>3. BloquesDe(d)' = {}
  <2>1. archivos'[d].bloques = << >>
    BY <1>2 DEF TypeOK, Vacio
  <2> QED BY <2>1 DEF BloquesDe
<1>4. \A a \in Archivos : a # d => BloquesDe(a)' = BloquesDe(a)
  BY <1>2 DEF TypeOK, BloquesDe
<1>5. \A a \in Archivos : BloquesDe(a)' \subseteq BloquesDe(a)
  BY <1>3, <1>4
<1>6. ASSUME NEW b \in Bloques, Usado(b)' PROVE Usado(b)
  <2>1. PICK a \in Archivos : b \in BloquesDe(a)'
    BY <1>6 DEF Usado
  <2> QED BY <1>5, <2>1 DEF Usado
<1> QED
  BY <1>5, <1>6

\* Its fwrite gives the archivo d the blocks found, and changes no other.
LEMMA UsadoTrasEscribir ==
  ASSUME TypeOK, BusquedaOK, EscribirArchivo, NEW d, d = EnArchivos(ruta)
  PROVE  /\ d \in Archivos
         /\ BloquesDe(d)' = {bloques[k] : k \in 1 .. Len(bloques)}
         /\ \A a \in Archivos : a # d => BloquesDe(a)' = BloquesDe(a)
         /\ \A b \in Bloques : Usado(b)' =>
              Usado(b) \/ \E k \in 1 .. Len(bloques) : b = bloques[k]
<1>1. d \in Archivos
  BY DEF EscribirArchivo, BusquedaOK, Asignando, Archivos
<1>2. archivos' = [archivos EXCEPT ![d] = Guardado(bytes, bloques)]
  BY DEF EscribirArchivo
<1>3. DOMAIN bloques = 1 .. Len(bloques)
  BY DEF TypeOK
<1>4. archivos'[d].bloques = bloques
  BY <1>1, <1>2 DEF TypeOK, Guardado
<1>5. BloquesDe(d)' = {bloques[k] : k \in 1 .. Len(bloques)}
  BY <1>3, <1>4 DEF BloquesDe
<1>6. \A a \in Archivos : a # d => BloquesDe(a)' = BloquesDe(a)
  BY <1>1, <1>2 DEF TypeOK, BloquesDe
<1>7. ASSUME NEW b \in Bloques, Usado(b)'
      PROVE  Usado(b) \/ \E k \in 1 .. Len(bloques) : b = bloques[k]
  <2>1. PICK a \in Archivos : b \in BloquesDe(a)'
    BY <1>7 DEF Usado
  <2> QED BY <1>5, <1>6, <2>1 DEF Usado
<1> QED BY <1>1, <1>5, <1>6, <1>7

LEMMA NextInicioOK ==
  ASSUME TypeOK, BusquedaOK, AvanceOK, InicioOK, [Next]_vars
  PROVE  InicioOK'
<1> USE DEF InicioOK, Iniciando, Sirviendo, Asignando
<1> SUFFICES ASSUME InicioOK PROVE InicioOK'
  OBVIOUS
<1>1. CASE AbrirArchivo
  BY <1>1, UsadoTrasAbrir DEF AbrirArchivo
<1>2. CASE EscribirArchivo
  BY <1>2 DEF EscribirArchivo
<1>3. CASE ~AbrirArchivo /\ ~EscribirArchivo
  <2>1. \A b \in Bloques : Usado(b)' <=> Usado(b)
    BY <1>3, ArchivosEstables, UsadoEstable
  <2>2. BitmapVacio # SinBitmap /\ SinBitmap \notin Bitmaps
    BY DEF BitmapVacio, SinBitmap, Bitmaps
  <2>3. CASE Inicio
    <3>1. CASE CrearBitmap
      BY <2>1, <2>2, <3>1 DEF CrearBitmap
    <3>2. CASE CerrarBitmapInicial
      BY <2>1, <2>2, <3>2 DEF CerrarBitmapInicial, TypeOK
    <3>3. CASE LeerBitmap \/ LeerBitmapVacio
      BY <2>1, <2>2, <3>3 DEF LeerBitmap, LeerBitmapVacio, disco, SinBitmap
    <3>4. CASE Arrancar \/ CrearMetadata \/ EscribirMetadata \/ LeerMetadata
                 \/ MetadataIlegible
      BY <2>1, <3>4 DEF Arrancar, CrearMetadata, EscribirMetadata, LeerMetadata,
           MetadataIlegible, disco
    <3> QED BY <2>3, <3>1, <3>2, <3>3, <3>4 DEF Inicio
  <2>4. CASE Recibir
    BY <2>1, <2>4 DEF Recibir, Validar, RecibirCrear, RecibirCrearError, disco
  <2>5. CASE ProximoBloqueLibre \/ BloquesEncontrados \/ SinEspacio
               \/ EscribirBloque \/ ArchivoSinCarpeta \/ Responder
    BY <2>1, <2>5 DEF ProximoBloqueLibre, BloquesEncontrados, SinEspacio,
         EscribirBloque, ArchivoSinCarpeta, Responder, disco
  <2>6. CASE AbrirBitmap \/ CerrarBitmap
    BY <2>1, <2>2, <2>6 DEF AbrirBitmap, CerrarBitmap, TypeOK
  <2>7. CASE EscribirBitmap
    <3>1. Prefijo(bitarray) \in Bitmaps
      BY PrefijoTipo DEF TypeOK
    <3> QED BY <2>1, <2>2, <2>7, <3>1 DEF EscribirBitmap
  <2>8. CASE Caida \/ UNCHANGED vars
    BY <2>1, <2>8 DEF Caida, vars, disco
  <2> QED
    BY <1>3, <2>3, <2>4, <2>5, <2>6, <2>7, <2>8 DEF Next, Manejar
<1> QED BY <1>1, <1>2, <1>3

-----------------------------------------------------------------------------
(* No block is shared, and none in use is offered *)

\* A lost bitmap is never recovered.
LEMMA PerdidaEstable ==
  ASSUME [Next]_vars
  PROVE  bitmapPerdido => bitmapPerdido'
BY DEF Next, Inicio, Recibir, Manejar, Arrancar, CrearMetadata, EscribirMetadata,
   LeerMetadata, MetadataIlegible, CrearBitmap, CerrarBitmapInicial, LeerBitmap,
   LeerBitmapVacio, Validar, RecibirCrear, RecibirCrearError, ProximoBloqueLibre,
   BloquesEncontrados, SinEspacio, EscribirBloque, AbrirBitmap, EscribirBitmap,
   CerrarBitmap, AbrirArchivo, ArchivoSinCarpeta, EscribirArchivo, Responder,
   Caida, vars, historia, disco

LEMMA NextReinicioSeguro ==
  ASSUME TypeOK, BusquedaOK, AvanceOK, InicioOK, MemoriaOK, ReinicioSeguro, [Next]_vars
  PROVE  ReinicioSeguro'
<1>1. ReinicioSeguro <=>
        (~bitmapPerdido => \A b \in Bloques :
           Usado(b) /\ b < bitmapBin.size => b \in bitmapBin.marcados)
  BY DEF ReinicioSeguro, Usado, BloquesDe, TypeOK, Contenidos
<1>2. ReinicioSeguro' <=>
        (~bitmapPerdido' => \A b \in Bloques :
           Usado(b)' /\ b < bitmapBin'.size => b \in bitmapBin'.marcados)
  <2>1. TypeOK'
    BY NextTypeOK
  <2>2. ASSUME NEW a \in Archivos PROVE BloquesDe(a)' \subseteq Bloques
    <3>1. archivos'[a].bloques \in Seq(Bloques)
      BY <2>1 DEF TypeOK, Contenidos
    <3> QED BY <3>1 DEF BloquesDe
  <2> QED BY <2>2 DEF ReinicioSeguro, Usado
<1>3. bitmapPerdido => bitmapPerdido'
  BY PerdidaEstable
<1> SUFFICES ASSUME ~bitmapPerdido', NEW b \in Bloques, Usado(b)', b < bitmapBin'.size
             PROVE  b \in bitmapBin'.marcados
  BY <1>2
<1>4. ~bitmapPerdido
  BY <1>3
<1>5. Usado(b) /\ b < bitmapBin.size => b \in bitmapBin.marcados
  BY <1>1, <1>4
<1>6. pc \in Sirviendo /\ Usado(b) /\ b < bitarray.size => b \in bitarray.marcados
  BY <1>4 DEF MemoriaOK
<1>7. CASE AbrirArchivo
  BY <1>5, <1>7, UsadoTrasAbrir DEF AbrirArchivo
<1>8. CASE EscribirArchivo
  <2>1. Usado(b) \/ \E k \in 1 .. Len(bloques) : b = bloques[k]
    BY <1>8, UsadoTrasEscribir
  <2>2. bitmapBin' = bitmapBin
    BY <1>8 DEF EscribirArchivo
  <2>3. CASE \E k \in 1 .. Len(bloques) : b = bloques[k]
    <3>1. pc = "guardarEscribir" /\ bloques # << >>
      BY <1>8, <2>3 DEF EscribirArchivo
    <3> QED
      BY <2>2, <2>3, <3>1 DEF AvanceOK
  <2> QED BY <1>5, <2>1, <2>2, <2>3
<1>9. CASE ~AbrirArchivo /\ ~EscribirArchivo
  <2>1. Usado(b)
    BY <1>9, ArchivosEstables, UsadoEstable
  <2>2. CASE AbrirBitmap
    BY <2>2 DEF AbrirBitmap, BitmapVacio, Bloques
  <2>3. CASE EscribirBitmap
    <3>1. pc \in Sirviendo /\ bitmapBin' = Prefijo(bitarray)
      BY <2>3 DEF EscribirBitmap, Sirviendo, Asignando, Iniciando
    <3>2. /\ Prefijo(bitarray) \in Bitmaps /\ bitarray \in Bitmaps
          /\ Prefijo(bitarray).size <= bitarray.size
          /\ \A x \in bitarray.marcados :
               x < Prefijo(bitarray).size => x \in Prefijo(bitarray).marcados
      BY PrefijoTipo DEF TypeOK
    <3>3. b < bitarray.size
      BY <3>1, <3>2, ConstantesOK DEF Bitmaps, Bloques
    <3> QED BY <1>6, <2>1, <3>1, <3>2, <3>3
  <2>4. CASE CerrarBitmap \/ CerrarBitmapInicial
    <3>1. pc \in Sirviendo /\ bitmapBin' = bitarray
      BY <2>4 DEF CerrarBitmap, CerrarBitmapInicial, Sirviendo, Asignando, Iniciando
    <3> QED BY <1>6, <2>1, <3>1
  <2>5. CASE CrearBitmap
    BY <2>5 DEF CrearBitmap, BitmapVacio, Bloques
  <2>6. CASE ~(AbrirBitmap \/ EscribirBitmap \/ CerrarBitmap \/ CerrarBitmapInicial
               \/ CrearBitmap)
    <3>1. bitmapBin' = bitmapBin
      BY <1>9, <2>6 DEF Next, Inicio, Recibir, Manejar, Arrancar, CrearMetadata,
         EscribirMetadata, LeerMetadata, MetadataIlegible, LeerBitmap, disco,
         LeerBitmapVacio, Validar, RecibirCrear, RecibirCrearError, vars,
         ProximoBloqueLibre, BloquesEncontrados, SinEspacio, EscribirBloque,
         ArchivoSinCarpeta, Responder, Caida
    <3> QED BY <1>5, <2>1, <3>1
  <2> QED BY <2>2, <2>3, <2>4, <2>5, <2>6
<1> QED BY <1>7, <1>8, <1>9

LEMMA NextSinBloquesCompartidos ==
  ASSUME TypeOK, BusquedaOK, MemoriaOK, SinBloquesCompartidos, [Next]_vars
  PROVE  SinBloquesCompartidos'
<1> USE DEF SinBloquesCompartidos
<1>1. bitmapPerdido => bitmapPerdido'
  BY PerdidaEstable
<1> SUFFICES ASSUME ~bitmapPerdido', NEW a1 \in Archivos, NEW a2 \in Archivos, a1 # a2
             PROVE  BloquesDe(a1)' \cap BloquesDe(a2)' = {}
  OBVIOUS
<1>2. ~bitmapPerdido /\ BloquesDe(a1) \cap BloquesDe(a2) = {}
  BY <1>1
<1>3. CASE AbrirArchivo
  BY <1>2, <1>3, UsadoTrasAbrir
<1>4. CASE EscribirArchivo
  <2>0. PICK d \in Archivos : d = EnArchivos(ruta)
    BY <1>4 DEF EscribirArchivo, BusquedaOK, Asignando, Archivos
  <2>1. /\ BloquesDe(d)' = {bloques[k] : k \in 1 .. Len(bloques)}
        /\ \A a \in Archivos : a # d => BloquesDe(a)' = BloquesDe(a)
    BY <1>4, <2>0, UsadoTrasEscribir
  <2>2. \A k \in 1 .. Len(bloques) : ~Usado(bloques[k])
    BY <1>2, <1>4 DEF MemoriaOK, EscribirArchivo, Asignando
  <2>3. \A a \in Archivos : BloquesDe(a) \cap {bloques[k] : k \in 1 .. Len(bloques)} = {}
    BY <2>2 DEF Usado
  <2>4. CASE a1 = d
    <3>1. BloquesDe(a1)' = {bloques[k] : k \in 1 .. Len(bloques)}
      BY <2>1, <2>4
    <3> QED BY <2>1, <2>3, <2>4, <3>1
  <2>5. CASE a2 = d
    <3>1. BloquesDe(a2)' = {bloques[k] : k \in 1 .. Len(bloques)}
      BY <2>1, <2>5
    <3> QED BY <2>1, <2>3, <2>5, <3>1
  <2>6. CASE a1 # d /\ a2 # d
    BY <1>2, <2>1, <2>6
  <2> QED BY <2>4, <2>5, <2>6
<1>5. CASE ~AbrirArchivo /\ ~EscribirArchivo
  BY <1>2, <1>5, ArchivosEstables, UsadoEstable
<1> QED BY <1>3, <1>4, <1>5

\* A search takes only unmarked blocks, and while the server serves every block
\* of an archivo is marked.
LEMMA NextMemoriaOK ==
  ASSUME TypeOK, BusquedaOK, AvanceOK, InicioOK, MemoriaOK, ReinicioSeguro, [Next]_vars
  PROVE  MemoriaOK'
<1>1. bitmapPerdido => bitmapPerdido'
  BY PerdidaEstable
<1> SUFFICES ASSUME ~bitmapPerdido'
             PROVE  /\ pc' \in Sirviendo =>
                         \A b \in Bloques :
                           Usado(b)' /\ b < bitarray'.size => b \in bitarray'.marcados
                    /\ pc' \in Asignando =>
                         \A k \in 1 .. Len(bloques') : ~Usado(bloques[k])'
  BY DEF MemoriaOK
<1>2. /\ pc \in Sirviendo =>
           \A b \in Bloques : Usado(b) /\ b < bitarray.size => b \in bitarray.marcados
      /\ pc \in Asignando => \A k \in 1 .. Len(bloques) : ~Usado(bloques[k])
      /\ ~bitmapPerdido
  BY <1>1 DEF MemoriaOK
<1> USE DEF Sirviendo, Asignando, Iniciando
<1>3. CASE AbrirArchivo
  <2>1. /\ UNCHANGED <<bitarray, bloques>> /\ pc = "guardar"
    BY <1>3 DEF AbrirArchivo, pedido
  <2>2. \A k \in 1 .. Len(bloques) : bloques[k] \in Bloques
    BY DEF TypeOK
  <2>3. \A b \in Bloques : Usado(b)' => Usado(b)
    BY <1>3, UsadoTrasAbrir
  <2>4. \A k \in 1 .. Len(bloques') : ~Usado(bloques[k])'
    <3> SUFFICES ASSUME NEW k \in 1 .. Len(bloques), Usado(bloques[k])' PROVE FALSE
      BY <2>1
    <3>1. bloques'[k] = bloques[k]
      BY <2>1
    <3>2. Usado(bloques[k])
      BY <2>2, <2>3, <3>1 DEF Usado
    <3> QED BY <1>2, <2>1, <3>2
  <2> QED BY <1>2, <2>1, <2>3, <2>4
<1>4. CASE EscribirArchivo
  <2>1. /\ UNCHANGED <<bitarray, bloques>> /\ pc = "guardarEscribir" /\ pc' = "responder"
    BY <1>4 DEF EscribirArchivo
  <2>2. \A b \in Bloques : Usado(b)' =>
          Usado(b) \/ \E k \in 1 .. Len(bloques) : b = bloques[k]
    BY <1>4, UsadoTrasEscribir
  <2>3. \A k \in 1 .. Len(bloques) : bloques[k] \in bitarray.marcados
    BY <2>1 DEF AvanceOK
  <2> QED BY <1>2, <2>1, <2>2, <2>3
<1>5. CASE ~AbrirArchivo /\ ~EscribirArchivo
  <2>1. /\ \A b \in Bloques : Usado(b)' <=> Usado(b)
        /\ archivos' = archivos
    BY <1>5, ArchivosEstables, UsadoEstable
  <2>2. ASSUME UNCHANGED bloques, pc \in Asignando, NEW k \in 1 .. Len(bloques')
        PROVE  ~Usado(bloques[k])'
    BY <1>2, <2>1, <2>2 DEF Usado, BloquesDe
  <2>3. CASE ProximoBloqueLibre
    <3>1. PICK b \in LibresDesde(BloqueInicial) : bloques' = Append(bloques, b)
      BY <2>3 DEF ProximoBloqueLibre
    <3>2. /\ pc = "buscar" /\ UNCHANGED <<bitarray, pc>>
      BY <2>3 DEF ProximoBloqueLibre
    <3>3. b < bitarray.size /\ b \notin bitarray.marcados
      <4>1. BloqueInicial \in Int /\ bitarray.size \in Int
        <5>1. bloques # << >> => bloques[Len(bloques)] \in Bloques
          BY DEF TypeOK
        <5> QED
          BY <5>1, ConstantesOK DEF BloqueInicial, Bloques, TypeOK, Bitmaps
      <4> QED BY <4>1 DEF LibresDesde
    <3>4. \A a \in Archivos : BloquesDe(a) \subseteq Bloques
      BY DEF TypeOK, Contenidos, BloquesDe
    <3>5. ~Usado(b)
      BY <1>2, <3>2, <3>3, <3>4 DEF Usado
    <3>6. ASSUME NEW k \in 1 .. Len(bloques') PROVE ~Usado(bloques[k])'
      <4>1. CASE k = Len(bloques) + 1
        <5>1. bloques'[k] = b
          BY <3>1, <4>1 DEF TypeOK
        <5> QED BY <2>1, <3>5, <5>1 DEF Usado, BloquesDe
      <4>2. CASE k \in 1 .. Len(bloques)
        <5>1. bloques'[k] = bloques[k]
          BY <3>1, <4>2 DEF TypeOK
        <5> QED BY <1>2, <2>1, <3>2, <4>2, <5>1 DEF Usado, BloquesDe
      <4> QED
        <5>1. Len(bloques') = Len(bloques) + 1 /\ Len(bloques) \in Nat
          BY <3>1 DEF TypeOK
        <5> QED BY <4>1, <4>2, <5>1
    <3> QED BY <1>2, <2>1, <3>2, <3>6
  <2>4. CASE EscribirBloque
    BY <1>2, <2>1, <2>2, <2>4 DEF EscribirBloque, pedido, TypeOK, Bitmaps
  <2>5. CASE BloquesEncontrados \/ AbrirBitmap \/ CerrarBitmap
    BY <1>2, <2>1, <2>2, <2>5 DEF BloquesEncontrados, AbrirBitmap, CerrarBitmap,
       pedido, disco
  <2>6. CASE EscribirBitmap
    BY <1>2, <2>1, <2>2, <2>6 DEF EscribirBitmap, pedido
  <2>7. CASE SinEspacio \/ ArchivoSinCarpeta \/ Responder
    BY <1>2, <2>1, <2>7 DEF SinEspacio, ArchivoSinCarpeta, Responder
  <2>8. CASE Recibir
    <3>1. bloques' = << >> /\ bitarray' = bitarray /\ pc = "libre"
      BY <2>8 DEF Recibir, Validar, RecibirCrear, RecibirCrearError, AvanceOK
    <3> QED BY <1>2, <2>1, <3>1
  <2>9. CASE Caida
    BY <2>9 DEF Caida
  <2>10. CASE LeerBitmap
    <3>1. \A b \in Bloques : Usado(b) /\ b < bitmapBin.size => b \in bitmapBin.marcados
      BY <1>2 DEF ReinicioSeguro, Usado
    <3> QED BY <2>1, <2>10, <3>1 DEF LeerBitmap
  <2>11. CASE LeerBitmapVacio
    BY <2>11 DEF LeerBitmapVacio
  <2>12. CASE CrearBitmap
    BY <2>1, <2>12 DEF CrearBitmap, InicioOK
  <2>13. CASE CerrarBitmapInicial
    BY <1>2, <2>1, <2>13 DEF CerrarBitmapInicial
  <2>14. CASE Arrancar \/ CrearMetadata \/ EscribirMetadata \/ LeerMetadata
               \/ MetadataIlegible
    BY <2>14 DEF Arrancar, CrearMetadata, EscribirMetadata, LeerMetadata,
       MetadataIlegible
  <2>15. CASE UNCHANGED vars
    BY <1>2, <2>1, <2>2, <2>15 DEF vars, pedido
  <2> QED
    BY <1>5, <2>3, <2>4, <2>5, <2>6, <2>7, <2>8, <2>9, <2>10, <2>11, <2>12, <2>13,
       <2>14, <2>15 DEF Next, Inicio, Manejar
<1> QED BY <1>3, <1>4, <1>5

-----------------------------------------------------------------------------
(* The theorems *)

LEMMA InitIInv == Init => IInv
<1> SUFFICES ASSUME Init PROVE IInv
  OBVIOUS
<1>1. TypeOK
  BY InitTypeOK
<1>2. \A a \in Archivos : BloquesDe(a) = {}
  BY DEF Init, BloquesDe, Ausente
<1> QED
  BY <1>1, <1>2 DEF IInv, Init, BusquedaOK, AvanceOK, InicioOK, MemoriaOK, Usado,
     SinBloquesCompartidos, ReinicioSeguro, Asignando, Creando, Iniciando, Sirviendo

LEMMA NextIInv == IInv /\ [Next]_vars => IInv'
  BY NextTypeOK, NextBusquedaOK, NextAvanceOK, NextInicioOK, NextMemoriaOK,
     NextSinBloquesCompartidos, NextReinicioSeguro DEF IInv

\* The inductive invariant holds in every reachable state.
THEOREM Invariante == Spec => []IInv
  BY InitIInv, NextIInv, PTL DEF Spec

\* Every variable keeps its type; in particular bytes_restantes never runs out
\* in the loop of crear_archivo.
THEOREM TipoCorrecto == Spec => []TypeOK
<1>1. IInv => TypeOK
  BY DEF IInv
<1> QED BY <1>1, Invariante, PTL

\* While no start-up met an empty Bitmap.bin, no block belongs to two archivos.
THEOREM NingunBloqueCompartido == Spec => []SinBloquesCompartidos
<1>1. IInv => SinBloquesCompartidos
  BY DEF IInv
<1> QED BY <1>1, Invariante, PTL

\* Whenever the process dies, the bitmap found by the next start-up offers no
\* block of an archivo.
THEOREM TodoReinicioSeguro == Spec => []ReinicioSeguro
<1>1. IInv => ReinicioSeguro
  BY DEF IInv
<1> QED BY <1>1, Invariante, PTL

-----------------------------------------------------------------------------
(* The volume implements the store of archivos *)

\* The blocks found are a list of the store: different blocks, no more than
\* there are.
LEMMA BloquesEnListas ==
  ASSUME IInv, pc = "guardarEscribir"
  PROVE  bloques \in Almacen!Listas
<1>1. /\ bloques \in Seq(Bloques)
      /\ \A k \in 1 .. Len(bloques) : k - 1 <= bloques[k] /\ bloques[k] < bitarray.size
      /\ bitarray.size \in 0 .. CantidadBloques
  BY DEF IInv, TypeOK, BusquedaOK, Asignando, Bitmaps
<1>2. Len(bloques) \in Nat /\ bloques \in [1 .. Len(bloques) -> Bloques]
  BY <1>1
<1>3. Len(bloques) <= CantidadBloques
  <2>1. CASE Len(bloques) = 0
    BY <2>1, ConstantesOK
  <2>2. CASE Len(bloques) # 0
    <3>1. Len(bloques) \in 1 .. Len(bloques) /\ bloques[Len(bloques)] \in Bloques
      BY <1>2, <2>2
    <3> QED BY <1>1, <1>2, <3>1, ConstantesOK DEF Bloques
  <2> QED BY <2>1, <2>2
<1> DEFINE n == Len(bloques)
<1>4. n \in 0 .. CantidadBloques /\ bloques \in [1 .. n -> 0 .. CantidadBloques - 1]
  BY <1>2, <1>3, ConstantesOK DEF Bloques
<1> HIDE DEF n
<1>5. bloques \in UNION {[1 .. m -> 0 .. CantidadBloques - 1] : m \in 0 .. CantidadBloques}
  BY <1>4
<1> QED
  BY <1>5 DEF Almacen!Listas

LEMMA EscribirArchivoLlena ==
  ASSUME IInv, EscribirArchivo
  PROVE  \E a \in Archivos, n \in Tamanios, bs \in Almacen!Listas : Almacen!Llenar(a, n, bs)
<1>1. TypeOK /\ BusquedaOK /\ AvanceOK /\ MemoriaOK /\ pc = "guardarEscribir"
  BY DEF IInv, EscribirArchivo
<1>2. PICK d \in Archivos : d = EnArchivos(ruta)
  BY <1>1 DEF BusquedaOK, Asignando, Archivos
<1>3. archivos[d] = Almacen!Nada("vacio")
  BY <1>1, <1>2 DEF AvanceOK, Vacio, Almacen!Nada
<1>4. bytes \in Tamanios /\ bytes \in Nat
  BY <1>1, ConstantesOK DEF BusquedaOK, Asignando
<1>5. Almacen!Alcanzan(bytes, bloques)
  <2>1. Len(bloques) = CantBloques(bytes)
    BY <1>1 DEF AvanceOK
  <2>2. bloques # << >> => Len(bloques) # 0
    BY <1>1 DEF TypeOK
  <2> QED
    BY <1>4, <2>1, <2>2, CantBloquesAlcanza DEF Almacen!Alcanzan
<1>6. /\ DOMAIN bloques = 1 .. Len(bloques) /\ Len(bloques) \in Nat
      /\ \A k \in 1 .. Len(bloques) : bloques[k] \in Bloques
  BY <1>1 DEF TypeOK
<1>7. \A j, k \in DOMAIN bloques : j # k => bloques[j] # bloques[k]
  <2> SUFFICES ASSUME NEW j \in DOMAIN bloques, NEW k \in DOMAIN bloques, j < k
               PROVE  bloques[j] # bloques[k]
    BY <1>6
  <2>1. bloques[j] < bloques[k]
    BY <1>1, <1>6 DEF BusquedaOK, Asignando
  <2> QED BY <1>6, <2>1 DEF Bloques
<1>8. ~bitmapPerdido =>
        \A otro \in Archivos : \A k \in DOMAIN bloques : ~Almacen!SonDe(bloques[k], otro)
  BY <1>1, <1>6 DEF MemoriaOK, Asignando, Usado, BloquesDe, Almacen!SonDe
<1>9. /\ archivos' = [archivos EXCEPT
              ![d] = [estado |-> "guardado", tamanio |-> bytes, bloques |-> bloques]]
      /\ bitmapPerdido' = bitmapPerdido
  BY <1>2 DEF EscribirArchivo, Guardado, historia
<1>10. Almacen!Llenar(d, bytes, bloques)
  BY <1>3, <1>5, <1>7, <1>8, <1>9 DEF Almacen!Llenar
<1> QED
  BY <1>1, <1>2, <1>4, <1>10, BloquesEnListas

LEMMA PasoImplementaAlmacen ==
  ASSUME IInv, [Next]_vars
  PROVE  [Almacen!Next]_(Almacen!vars)
<1>1. CASE AbrirArchivo
  <2>1. EnArchivos(ruta) \in Archivos
    BY <1>1 DEF AbrirArchivo, IInv, BusquedaOK, Asignando, Archivos
  <2>2. Almacen!Vaciar(EnArchivos(ruta))
    BY <1>1 DEF AbrirArchivo, Almacen!Vaciar, Almacen!Nada, Vacio, historia
  <2> QED BY <2>1, <2>2 DEF Almacen!Next
<1>2. CASE EscribirArchivo
  BY <1>2, EscribirArchivoLlena DEF Almacen!Next
<1>3. CASE ~AbrirArchivo /\ ~EscribirArchivo
  <2>1. archivos' = archivos
    BY <1>3, ArchivosEstables
  <2>2. bitmapPerdido' \in BOOLEAN /\ bitmapPerdido \in BOOLEAN
    BY NextTypeOK DEF IInv, TypeOK
  <2>3. bitmapPerdido' = bitmapPerdido \/ bitmapPerdido' = TRUE
    BY <2>2, PerdidaEstable
  <2> QED
    BY <2>1, <2>3 DEF Almacen!Next, Almacen!PerderRegistro, Almacen!vars
<1> QED BY <1>1, <1>2, <1>3

\* The volume implements the store of archivos of module Almacen: crashes,
\* start-ups and block allocation are invisible but for a lost bitmap.
THEOREM VolumenImplementaAlmacen == Spec => ImplementaAlmacen
<1>1. Init => Almacen!Init
  BY DEF Init, Almacen!Init, Almacen!Nada, Ausente
<1>2. IInv /\ [Next]_vars => [Almacen!Next]_(Almacen!vars)
  BY PasoImplementaAlmacen
<1> QED
  BY <1>1, <1>2, Invariante, PTL DEF Spec, ImplementaAlmacen, Almacen!Spec

-----------------------------------------------------------------------------
(* The blocks of an archivo hold its bytes *)

\* The first n blocks of bs hold what crear_archivo writes of b bytes.
Escritos(bs, n, b) ==
  \A k \in 1 .. n : bytesBloque[bs[k]] = BytesDelBloque(b, k - 1)

\* How many blocks are written for the request being handled.
PorAhora == IF pc = "bloque" THEN i
            ELSE IF pc \in Creando THEN i + 1
            ELSE IF pc \in {"guardar", "guardarEscribir"} THEN Len(bloques)
            ELSE 0

\* Every archivo names as many blocks as its size asks for, and they are
\* written; so are, of the request being handled, those the loop has passed.
EscritosOK ==
  /\ Escritos(bloques, PorAhora, bytes)
  /\ \A a \in Archivos : Len(archivos[a].bloques) = CantBloques(archivos[a].tamanio)
  /\ ~bitmapPerdido =>
       \A a \in Archivos :
         Escritos(archivos[a].bloques, Len(archivos[a].bloques), archivos[a].tamanio)

LEMMA CantBloquesDeNada == CantBloques(0) = 0
<1>1. CantBloques(0) \in Nat
      /\ (CantBloques(0) # 0 => (CantBloques(0) - 1) * TamanioBloques < 0)
  BY CantBloquesAlcanza
<1>2. TamanioBloques \in Nat
  BY ConstantesOK
<1> QED
  <2> SUFFICES ASSUME CantBloques(0) # 0 PROVE FALSE
    OBVIOUS
  <2>1. CantBloques(0) - 1 \in Nat
    BY <1>1
  <2>2. (CantBloques(0) - 1) * TamanioBloques \in Nat
    BY <1>2, <2>1
  <2> QED BY <1>1, <2>2

\* Only the last block is not full.
LEMMA RepartoDeBytes ==
  ASSUME NEW b \in Nat, NEW k \in Nat, k < CantBloques(b)
  PROVE  BytesDelBloque(b, k) =
           IF k + 1 = CantBloques(b) THEN b - k * TamanioBloques ELSE TamanioBloques
<1> DEFINE T == TamanioBloques
           c == CantBloques(b)
<1>1. T \in Nat /\ T > 0
  BY ConstantesOK
<1>2. /\ c \in Nat /\ b <= c * T /\ (c - 1) * T < b
  BY CantBloquesAlcanza
<1> HIDE DEF T, c
<1>3. k * T \in Nat /\ (k + 1) * T = k * T + T /\ k < c
  BY <1>1 DEF c
<1>4. CASE k + 1 = c
  BY <1>1, <1>2, <1>3, <1>4 DEF BytesDelBloque, T, c
<1>5. CASE k + 1 # c
  <2>1. k + 1 <= c - 1
    BY <1>2, <1>3, <1>5
  <2>2. (k + 1) * T <= (c - 1) * T
    BY <1>1, <1>2, <2>1
  <2>3. (c - 1) * T \in Int
    BY <1>1, <1>2
  <2>4. b - k * T > T
    BY <1>1, <1>2, <1>3, <2>2, <2>3
  <2> QED BY <1>5, <2>4 DEF BytesDelBloque, T, c
<1> QED BY <1>4, <1>5

\* The blocks written for b bytes hold b bytes.
LEMMA SumaDeBloques ==
  ASSUME NEW bs, NEW b \in Nat, Len(bs) = CantBloques(b), Escritos(bs, Len(bs), b)
  PROVE  BytesDe(bs) = b
<1> DEFINE T == TamanioBloques
           c == CantBloques(b)
           F == [k \in 0 .. c |-> IF k = c THEN b ELSE k * T]
           H == CHOOSE f : f = [k \in 0 .. c |->
                                  IF k = 0 THEN 0 ELSE f[k - 1] + bytesBloque[bs[k]]]
<1>1. T \in Nat /\ c \in Nat /\ b <= c * T
  BY ConstantesOK, CantBloquesAlcanza
<1>2. BytesDe(bs) = H[c]
  BY DEF BytesDe
<1>3. \A k \in 1 .. c :
        bytesBloque[bs[k]] = IF k = c THEN b - (k - 1) * T ELSE T
  <2> SUFFICES ASSUME NEW k \in 1 .. c
               PROVE  bytesBloque[bs[k]] = IF k = c THEN b - (k - 1) * T ELSE T
    OBVIOUS
  <2>1. k - 1 \in Nat /\ k - 1 < CantBloques(b) /\ (k - 1) + 1 = k
    BY <1>1
  <2>2. BytesDelBloque(b, k - 1) = IF k = c THEN b - (k - 1) * T ELSE T
    BY <2>1, RepartoDeBytes
  <2> QED BY <2>2 DEF Escritos
<1> HIDE DEF c, H
<1>4. F[0] = 0
  <2>1. CASE c = 0
    BY <1>1, <2>1
  <2>2. CASE c # 0
    BY <1>1, <2>2
  <2> QED BY <2>1, <2>2
<1>5. ASSUME NEW k \in 1 .. c
      PROVE  F[k] = F[k - 1] + bytesBloque[bs[k]]
  <2>1. /\ k - 1 \in 0 .. c /\ k - 1 # c /\ k \in 0 .. c
    BY <1>1
  <2>2. F[k - 1] = (k - 1) * T
    BY <2>1
  <2>3. (k - 1) * T \in Int /\ k * T \in Int /\ (k - 1) * T + T = k * T
    BY <1>1
  <2>4. F[k] = IF k = c THEN b ELSE k * T
    BY <2>1
  <2> HIDE DEF F
  <2> QED BY <1>1, <1>3, <2>2, <2>3, <2>4
<1>6. F = [k \in 0 .. c |-> F[k]]
  OBVIOUS
<1>7. F[c] = b
  BY <1>1
<1> HIDE DEF F
<1>8. F = [k \in 0 .. c |-> IF k = 0 THEN 0 ELSE F[k - 1] + bytesBloque[bs[k]]]
  <2>1. ASSUME NEW k \in 0 .. c
        PROVE  F[k] = IF k = 0 THEN 0 ELSE F[k - 1] + bytesBloque[bs[k]]
    BY <1>1, <1>4, <1>5
  <2> QED BY <1>6, <2>1
<1>9. H = [k \in 0 .. c |-> IF k = 0 THEN 0 ELSE H[k - 1] + bytesBloque[bs[k]]]
  BY <1>8 DEF H
<1> DEFINE D == {k \in 0 .. c : H[k] # F[k]}
<1>10. D = {}
  <2> SUFFICES ASSUME D # {} PROVE FALSE
    OBVIOUS
  <2>0. D \subseteq Nat
    BY <1>1
  <2>1. PICK m \in D : \A k \in D : ~(<<k, m>> \in OpToRel(<, Nat))
    BY <2>0, NatLessThanWellFounded, WFMin
  <2>2. m \in 1 .. c /\ m - 1 \in 0 .. c /\ m \in 0 .. c
    BY <1>1, <1>4, <1>9
  <2>3. m - 1 \notin D
    <3>1. <<m - 1, m>> \in OpToRel(<, Nat)
      BY <1>1, <2>2 DEF OpToRel
    <3> QED BY <2>1, <3>1
  <2>4. H[m - 1] = F[m - 1]
    BY <2>2, <2>3
  <2>5. H[m] = H[m - 1] + bytesBloque[bs[m]]
    BY <1>1, <1>9, <2>2
  <2> QED BY <1>5, <2>1, <2>2, <2>4, <2>5
<1> QED BY <1>1, <1>2, <1>7, <1>10

LEMMA BloquesCuentan ==
  ASSUME TypeOK, EscritosOK
  PROVE  BytesCoherentes
<1> SUFFICES ASSUME ~bitmapPerdido, NEW a \in Archivos
             PROVE  BytesDe(archivos[a].bloques) = archivos[a].tamanio
  BY DEF BytesCoherentes
<1>1. archivos[a] \in Contenidos
  BY DEF TypeOK
<1>2. archivos[a].tamanio \in Tamanios \cup {0}
  BY <1>1 DEF Contenidos
<1>3. Tamanios \cup {0} \subseteq Nat
  BY ConstantesOK
<1>4. archivos[a].tamanio \in Nat
  BY <1>2, <1>3
<1> QED BY <1>4, SumaDeBloques DEF EscritosOK

\* Only the loop of crear_archivo writes block files.
LEMMA BytesEstables ==
  ASSUME [Next]_vars, ~EscribirBloque
  PROVE  bytesBloque' = bytesBloque
BY DEF Next, Inicio, Recibir, Manejar, Arrancar, CrearMetadata, EscribirMetadata,
   LeerMetadata, MetadataIlegible, CrearBitmap, CerrarBitmapInicial, LeerBitmap,
   LeerBitmapVacio, Validar, RecibirCrear, RecibirCrearError, ProximoBloqueLibre,
   BloquesEncontrados, SinEspacio, AbrirBitmap, EscribirBitmap, CerrarBitmap,
   AbrirArchivo, ArchivoSinCarpeta, EscribirArchivo, Responder, Caida, vars, disco

\* The block the loop is at gets its bytes, and no other block changes.
LEMMA TrasEscribirBloque ==
  ASSUME IInv, EscribirBloque
  PROVE  /\ i \in Nat /\ i + 1 \in 1 .. Len(bloques)
         /\ bytesBloque'[bloques[i + 1]] = BytesDelBloque(bytes, i)
         /\ \A b \in Bloques : b # bloques[i + 1] => bytesBloque'[b] = bytesBloque[b]
         /\ \A k \in 1 .. i : bloques[k] \in Bloques /\ bloques[k] # bloques[i + 1]
         /\ ~bitmapPerdido => ~Usado(bloques[i + 1])
<1>1. TypeOK /\ BusquedaOK /\ AvanceOK /\ MemoriaOK /\ pc = "bloque"
  BY DEF IInv, EscribirBloque
<1>2. i \in Nat /\ i + 1 \in 1 .. Len(bloques)
  BY <1>1 DEF AvanceOK, Creando, TypeOK
<1>3. \A k \in 1 .. Len(bloques) : bloques[k] \in Bloques
  BY <1>1 DEF TypeOK
<1>4. bytesBloque' = [bytesBloque EXCEPT ![bloques[i + 1]] = BytesDelBloque(bytes, i)]
  BY DEF EscribirBloque
<1>5. bytesBloque \in [Bloques -> 0 .. TamanioBloques]
  BY <1>1 DEF TypeOK
<1>6. /\ bytesBloque'[bloques[i + 1]] = BytesDelBloque(bytes, i)
      /\ \A b \in Bloques : b # bloques[i + 1] => bytesBloque'[b] = bytesBloque[b]
  BY <1>2, <1>3, <1>4, <1>5
<1>7. ASSUME NEW k \in 1 .. i PROVE bloques[k] \in Bloques /\ bloques[k] # bloques[i + 1]
  <2>1. k \in 1 .. Len(bloques) /\ k < i + 1
    BY <1>2
  <2>2. bloques[k] < bloques[i + 1]
    BY <1>1, <1>2, <2>1 DEF BusquedaOK, Asignando
  <2> QED BY <1>2, <1>3, <2>1, <2>2 DEF Bloques
<1>8. ~bitmapPerdido => ~Usado(bloques[i + 1])
  BY <1>1, <1>2 DEF MemoriaOK, Asignando
<1> QED BY <1>2, <1>6, <1>7, <1>8

\* The request being handled: each turn of the loop writes one block more.
LEMMA NextPorAhora ==
  ASSUME IInv, Escritos(bloques, PorAhora, bytes), [Next]_vars
  PROVE  Escritos(bloques, PorAhora, bytes)'
<1> USE DEF Escritos, PorAhora, Creando
<1>1. CASE EscribirBloque
  <2>1. /\ bloques' = bloques /\ bytes' = bytes /\ PorAhora = i /\ PorAhora' = i + 1
    BY <1>1 DEF EscribirBloque, pedido
  <2>2. \A k \in 1 .. i : bytesBloque'[bloques[k]] = BytesDelBloque(bytes, k - 1)
    BY <1>1, <2>1, TrasEscribirBloque
  <2>3. bytesBloque'[bloques[i + 1]] = BytesDelBloque(bytes, (i + 1) - 1) /\ i \in Nat
    BY <1>1, TrasEscribirBloque
  <2>4. \A k \in 1 .. i + 1 : k \in 1 .. i \/ k = i + 1
    BY <2>3
  <2>5. \A k \in 1 .. i + 1 : bytesBloque'[bloques[k]] = BytesDelBloque(bytes, k - 1)
    BY <2>2, <2>3, <2>4
  <2> QED BY <2>1, <2>5 DEF BytesDelBloque
<1>2. CASE ~EscribirBloque
  <2>0. bytesBloque' = bytesBloque
    BY <1>2, BytesEstables
  <2>1. ASSUME bloques' = bloques, bytes' = bytes, PorAhora' = PorAhora
        PROVE  Escritos(bloques, PorAhora, bytes)'
    BY <2>0, <2>1 DEF BytesDelBloque
  <2>2. ASSUME PorAhora' = 0 PROVE Escritos(bloques, PorAhora, bytes)'
    BY <2>2
  <2>3. TypeOK /\ BusquedaOK /\ AvanceOK
    BY DEF IInv
  <2>4. CASE Inicio \/ Caida \/ Responder
    <3>1. pc' \in Pcs \ Asignando
      BY <2>3, <2>4, InicioSinAsignar
    <3>2. PorAhora' = 0
      BY <3>1 DEF Asignando
    <3> QED BY <2>2, <3>2
  <2>5. CASE Recibir
    <3>1. PorAhora' = 0
      BY <2>5 DEF Recibir, Validar, RecibirCrear, RecibirCrearError
    <3> QED BY <2>2, <3>1
  <2>6. CASE ProximoBloqueLibre \/ SinEspacio \/ ArchivoSinCarpeta \/ EscribirArchivo
    <3>1. PorAhora' = 0
      BY <2>6 DEF ProximoBloqueLibre, SinEspacio, ArchivoSinCarpeta, EscribirArchivo
    <3> QED BY <2>2, <3>1
  <2>7. CASE BloquesEncontrados
    <3>1. i = 0 /\ i' = i /\ bloques' = bloques
      BY <2>3, <2>7 DEF BloquesEncontrados, AvanceOK, pedido
    <3>2. PorAhora' = 0
      BY <2>7, <3>1 DEF BloquesEncontrados
    <3> QED BY <2>2, <3>2
  <2>8. CASE AbrirBitmap \/ AbrirArchivo
    <3>1. bloques' = bloques /\ bytes' = bytes /\ PorAhora' = PorAhora
      BY <2>8 DEF AbrirBitmap, AbrirArchivo, pedido
    <3> QED BY <2>1, <3>1
  <2>9. CASE EscribirBitmap
    <3>1. CASE pc = "inicioEscribir"
      <4>1. PorAhora' = 0
        BY <2>9, <3>1 DEF EscribirBitmap
      <4> QED BY <2>2, <4>1
    <3>2. CASE pc = "bitmapEscribir"
      <4>1. bloques' = bloques /\ bytes' = bytes /\ PorAhora' = PorAhora
        BY <2>9, <3>2 DEF EscribirBitmap, pedido
      <4> QED BY <2>1, <4>1
    <3> QED BY <2>9, <3>1, <3>2 DEF EscribirBitmap
  <2>10. CASE CerrarBitmap
    <3>1. i \in Nat /\ Len(bloques) \in Nat /\ i < Len(bloques) /\ PorAhora = i + 1
      BY <2>3, <2>10 DEF CerrarBitmap, AvanceOK, TypeOK
    <3>2. bloques' = bloques /\ bytes' = bytes /\ PorAhora' = i + 1
      BY <2>10, <3>1 DEF CerrarBitmap
    <3> QED BY <2>1, <3>1, <3>2
  <2>11. CASE UNCHANGED vars
    <3>1. bloques' = bloques /\ bytes' = bytes /\ PorAhora' = PorAhora
      BY <2>11 DEF vars, pedido
    <3> QED BY <2>1, <3>1
  <2> QED
    BY <1>2, <2>4, <2>5, <2>6, <2>7, <2>8, <2>9, <2>10, <2>11 DEF Next, Manejar
<1> QED BY <1>1, <1>2

\* An archivo gets its blocks and its size at once, after all of them are
\* written, and no block of an archivo is written again.
LEMMA NextEscritosOK ==
  ASSUME IInv, EscritosOK, [Next]_vars
  PROVE  EscritosOK'
<1>1. Escritos(bloques, PorAhora, bytes)'
  BY NextPorAhora DEF EscritosOK
<1> DEFINE Completo(a) == Len(archivos[a].bloques) = CantBloques(archivos[a].tamanio)
           Lleno(a) == Escritos(archivos[a].bloques, Len(archivos[a].bloques),
                                archivos[a].tamanio)
<1>2. /\ TypeOK /\ BusquedaOK /\ AvanceOK
      /\ \A a \in Archivos : Completo(a)
      /\ ~bitmapPerdido => \A a \in Archivos : Lleno(a)
  BY DEF IInv, EscritosOK
<1>3. SUFFICES ASSUME NEW a \in Archivos
               PROVE  Completo(a)' /\ (~bitmapPerdido' => Lleno(a)')
  BY <1>1 DEF EscritosOK
<1>4. ~bitmapPerdido' => ~bitmapPerdido
  BY PerdidaEstable
<1>5. archivos \in [Archivos -> Contenidos] /\ archivos[a] \in Contenidos
  BY <1>2 DEF TypeOK
<1>6. ASSUME archivos'[a] = archivos[a], bytesBloque' = bytesBloque
      PROVE  Completo(a)' /\ (~bitmapPerdido' => Lleno(a)')
  BY <1>2, <1>4, <1>6 DEF Escritos, CantBloques, BytesDelBloque
<1>7. CASE EscribirBloque
  <2>1. archivos' = archivos
    BY <1>7 DEF EscribirBloque
  <2>2. Completo(a)'
    BY <1>2, <2>1 DEF CantBloques
  <2>3. ASSUME ~bitmapPerdido', NEW k \in 1 .. Len(archivos[a].bloques)
        PROVE  bytesBloque'[archivos[a].bloques[k]] = bytesBloque[archivos[a].bloques[k]]
    <3>1. archivos[a].bloques \in Seq(Bloques)
      BY <1>5 DEF Contenidos
    <3>2. archivos[a].bloques[k] \in Bloques /\ archivos[a].bloques[k] \in BloquesDe(a)
      BY <3>1 DEF BloquesDe
    <3>3. Usado(archivos[a].bloques[k])
      BY <3>2 DEF Usado
    <3>4. archivos[a].bloques[k] # bloques[i + 1]
      BY <1>4, <1>7, <2>3, <3>3, TrasEscribirBloque
    <3> QED BY <1>7, <3>2, <3>4, TrasEscribirBloque
  <2>4. ~bitmapPerdido' => Lleno(a)'
    BY <1>2, <1>4, <2>1, <2>3 DEF Escritos, BytesDelBloque
  <2> QED BY <2>2, <2>4
<1>8. CASE AbrirArchivo
  <2>1. PICK d \in Archivos : d = EnArchivos(ruta)
    BY <1>2, <1>8 DEF AbrirArchivo, BusquedaOK, Asignando, Archivos
  <2>2. /\ archivos' = [archivos EXCEPT ![d] = Vacio] /\ bytesBloque' = bytesBloque
    BY <1>8, <2>1 DEF AbrirArchivo
  <2>3. CASE a = d
    <3>1. archivos'[a].bloques = << >> /\ archivos'[a].tamanio = 0
      BY <1>5, <2>2, <2>3 DEF Vacio
    <3> QED BY <3>1, CantBloquesDeNada DEF Escritos, CantBloques
  <2>4. CASE a # d
    BY <1>5, <1>6, <2>2, <2>4
  <2> QED BY <2>3, <2>4
<1>9. CASE EscribirArchivo
  <2>1. PICK d \in Archivos : d = EnArchivos(ruta)
    BY <1>2, <1>9 DEF EscribirArchivo, BusquedaOK, Asignando, Archivos
  <2>2. /\ archivos' = [archivos EXCEPT ![d] = Guardado(bytes, bloques)]
        /\ bytesBloque' = bytesBloque /\ pc = "guardarEscribir"
    BY <1>9, <2>1 DEF EscribirArchivo
  <2>3. CASE a = d
    <3>1. archivos'[a].bloques = bloques /\ archivos'[a].tamanio = bytes
      BY <1>5, <2>2, <2>3 DEF Guardado
    <3>2. Len(bloques) = CantBloques(bytes)
      BY <1>2, <2>2 DEF AvanceOK
    <3>3. Escritos(bloques, Len(bloques), bytes)
      BY <2>2 DEF EscritosOK, PorAhora, Creando
    <3> QED BY <2>2, <3>1, <3>2, <3>3 DEF Escritos, CantBloques, BytesDelBloque
  <2>4. CASE a # d
    BY <1>5, <1>6, <2>2, <2>4
  <2> QED BY <2>3, <2>4
<1>10. CASE ~EscribirBloque /\ ~AbrirArchivo /\ ~EscribirArchivo
  BY <1>6, <1>10, ArchivosEstables, BytesEstables
<1> QED BY <1>7, <1>8, <1>9, <1>10

\* The block files of every saved archivo hold its size: all full but the last,
\* none rewritten for another archivo while no bitmap has been lost.
THEOREM TamanioEnBloques == Spec => []BytesCoherentes
<1>1. Init => EscritosOK
  <2> SUFFICES ASSUME Init PROVE EscritosOK
    OBVIOUS
  <2>1. \A a \in Archivos : archivos[a].bloques = << >> /\ archivos[a].tamanio = 0
    BY DEF Init, Ausente
  <2>2. PorAhora = 0
    BY DEF Init, PorAhora, Creando
  <2> QED BY <2>1, <2>2, CantBloquesDeNada DEF EscritosOK, Escritos
<1>2. IInv /\ EscritosOK /\ [Next]_vars => EscritosOK'
  BY NextEscritosOK
<1>3. IInv /\ EscritosOK => BytesCoherentes
  BY BloquesCuentan DEF IInv
<1> QED BY <1>1, <1>2, <1>3, Invariante, PTL DEF Spec
=============================================================================
