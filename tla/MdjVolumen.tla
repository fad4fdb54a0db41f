----------------------------- MODULE MdjVolumen -----------------------------
(***************************************************************************)
(* The volume of the MDJ, the file-system process (src/MDJ/src/MDJ.c):     *)
(* Metadata.bin, Bitmap.bin, one file per block and one file per archivo,  *)
(* and what start-up, VALIDAR_ARCHIVO and CREAR_ARCHIVO do to them.  Each  *)
(* action that changes the volume is one system call on one file, and the  *)
(* process may die between any two of them and be started again by hand.   *)
(* The select loop that feeds the handlers is module MdjServidor.          *)
(*                                                                         *)
(* The build modelled is the Debug one of MDJ/.cproject (no optimisation): *)
(* there the dangling pointer proximo_bloque_libre returns still reads as  *)
(* the block number it was taken from.                                     *)
(***************************************************************************)
EXTENDS Integers, Sequences, FiniteSets

CONSTANTS
  Rutas,           \* paths a client may name, as sequences of components
  Tamanios,        \* sizes in bytes a client may ask for
  CantidadBloques, \* CANTIDAD_BLOQUES of Metadata.bin (5192 in the code)
  TamanioBloques,  \* TAMANIO_BLOQUES of Metadata.bin (64 in the code)
  TamanioBuffer,   \* stdio buffer: fputs writes only whole ones (4096)
  MaxCaidas        \* bound: how often the process dies

ASSUME ConstantesOK ==
  /\ CantidadBloques \in Nat \ {0}
  /\ TamanioBloques \in Nat \ {0}
  /\ TamanioBuffer \in Nat \ {0}
  /\ MaxCaidas \in Nat
  /\ Tamanios \subseteq Nat
  /\ Rutas \subseteq Seq(STRING) \ {<< >>}

NoComando == 0
VALIDAR_ARCHIVO == 2
CREAR_ARCHIVO == 3
OPERACION_FAIL == 10
OPERACION_OK == 11
ERROR_OPERACION == 99
Respuestas == {OPERACION_FAIL, OPERACION_OK, ERROR_OPERACION}

VARIABLES
  (* on disk *)
  metadata,     \* Metadata.bin: "ausente", "vacio" (truncated) or "completo"
  bitmapBin,    \* Bitmap.bin: Ausente or [size, marcados]
  archivos,     \* what each file a request can name holds
  bytesBloque,  \* bytes in each block file, 0 while it does not exist
  (* in the memory of the server thread *)
  bitarray,     \* the bit array: [size, marcados]
  pc,           \* the system call about to be made
  comando, ruta, bytes,  \* the request being handled
  bloques,      \* blocks found for it so far
  i,            \* block being created
  rta,          \* answer
  (* history *)
  caidas, bitmapPerdido

disco    == <<metadata, bitmapBin, archivos, bytesBloque>>
pedido   == <<comando, ruta, bytes, bloques, i, rta>>
historia == <<caidas, bitmapPerdido>>
vars     == <<disco, bitarray, pc, pedido, historia>>

-----------------------------------------------------------------------------
(* Values *)

Bloques == 0 .. CantidadBloques - 1

\* A bitmap: its length in characters (one per block) and the blocks marked.
Bitmaps == [size : 0 .. CantidadBloques, marcados : SUBSET Bloques]
BitmapVacio == [size |-> 0, marcados |-> {}]

\* What is on disk after fputs and before fclose: whole stdio buffers only.
Prefijo(b) ==
  LET escrito == (b.size \div TamanioBuffer) * TamanioBuffer
  IN  [size |-> escrito, marcados |-> {x \in b.marcados : x < escrito}]

\* Where crear_archivo puts an archivo: under carpeta_archivos.
EnArchivos(r) == <<"Archivos">> \o r

\* The files a request can reach: validar_archivo looks under the mount
\* point, crear_archivo under its Archivos directory.
Archivos == Rutas \cup {EnArchivos(r) : r \in Rutas}

\* fopen creates no directory: only those made at start-up exist.
Carpetas == {<< >>, <<"Metadata">>, <<"Archivos">>, <<"Bloques">>}
CarpetaExiste(a) == SubSeq(a, 1, Len(a) - 1) \in Carpetas

\* An archivo on disk: absent, truncated by the fopen of config_save, or the
\* TAMANIO and BLOQUES that config_save wrote.
Ausente == [estado |-> "ausente", tamanio |-> 0, bloques |-> << >>]
Vacio   == [estado |-> "vacio", tamanio |-> 0, bloques |-> << >>]
Guardado(b, bs) == [estado |-> "guardado", tamanio |-> b, bloques |-> bs]
Contenidos == [estado : {"ausente", "vacio", "guardado"},
               tamanio : Tamanios \cup {0}, bloques : Seq(Bloques)]

SinBitmap == [size |-> -1, marcados |-> {}]

CantBloques(b) ==
  (b \div TamanioBloques) + (IF b % TamanioBloques > 0 THEN 1 ELSE 0)

\* Variant: every block is written full.
BytesDelBloqueLleno(b, k) == TamanioBloques

\* Variant: what is left is written without looking at TAMANIO_BLOQUES.
BytesDelBloqueSinTope(b, k) == b - k * TamanioBloques

\* bytes_del_bloque of the k-th block, counted from 0.
BytesDelBloque(b, k) ==
  LET restantes == b - k * TamanioBloques
  IN  IF restantes > TamanioBloques THEN TamanioBloques ELSE restantes

\* Variant: the search starts again at the last block found.
BloqueInicialSinAvanzar == IF bloques = << >> THEN 0 ELSE bloques[Len(bloques)]

\* crear_archivo's bloque_inicial: one past the last block found.
BloqueInicial == IF bloques = << >> THEN 0 ELSE bloques[Len(bloques)] + 1

\* The blocks proximo_bloque_libre passes over or answers.
LibresDesde(bloque_inicial) ==
  {b \in bloque_inicial .. bitarray.size - 1 : b \notin bitarray.marcados}

Pcs == {"apagado", "metadata", "metadataEscribir", "bitmap", "inicioEscribir",
        "inicioCerrar", "libre", "buscar", "bloque", "bitmapAbrir",
        "bitmapEscribir", "bitmapCerrar", "guardar", "guardarEscribir",
        "responder"}

-----------------------------------------------------------------------------
(* Start-up: main calls crear_estructura_directorios before it creates the *)
(* server thread.                                                          *)

SinPedido ==
  /\ comando' = NoComando /\ ruta' = << >> /\ bytes' = 0
  /\ bloques' = << >> /\ i' = 0 /\ rta' = 0

Init ==
  /\ metadata = "ausente"
  /\ bitmapBin = SinBitmap
  /\ archivos = [a \in Archivos |-> Ausente]
  /\ bytesBloque = [b \in Bloques |-> 0]
  /\ bitarray = BitmapVacio
  /\ pc = "apagado"
  /\ comando = NoComando /\ ruta = << >> /\ bytes = 0
  /\ bloques = << >> /\ i = 0 /\ rta = 0
  /\ caidas = 0
  /\ bitmapPerdido = FALSE

Arrancar ==
  /\ pc = "apagado"
  /\ pc' = "metadata"
  /\ UNCHANGED <<disco, bitarray, pedido, historia>>

\* config_create answers NULL: config_save truncates Metadata.bin ...
CrearMetadata ==
  /\ pc = "metadata"
  /\ metadata = "ausente"
  /\ metadata' = "vacio"
  /\ pc' = "metadataEscribir"
  /\ UNCHANGED <<bitmapBin, archivos, bytesBloque, bitarray, pedido, historia>>

\* ... and writes its three keys.
EscribirMetadata ==
  /\ pc = "metadataEscribir"
  /\ metadata' = "completo"
  /\ pc' = "bitmap"
  /\ UNCHANGED <<bitmapBin, archivos, bytesBloque, bitarray, pedido, historia>>

LeerMetadata ==
  /\ pc = "metadata"
  /\ metadata = "completo"
  /\ pc' = "bitmap"
  /\ UNCHANGED <<disco, bitarray, pedido, historia>>

\* A Metadata.bin without its keys: config_get_int_value calls atoi(NULL).
MetadataIlegible ==
  /\ pc = "metadata"
  /\ metadata = "vacio"
  /\ pc' = "apagado"
  /\ UNCHANGED <<disco, bitarray, pedido, historia>>

\* No Bitmap.bin: fopen creates it empty, the array has every block free.
CrearBitmap ==
  /\ pc = "bitmap"
  /\ bitmapBin = SinBitmap
  /\ bitmapBin' = BitmapVacio
  /\ bitarray' = [size |-> CantidadBloques, marcados |-> {}]
  /\ pc' = "inicioEscribir"
  /\ UNCHANGED <<metadata, archivos, bytesBloque, pedido, historia>>

\* fgets reads the characters there are; bitarray_create takes strlen of them.
LeerBitmap ==
  /\ pc = "bitmap"
  /\ bitmapBin.size > 0
  /\ bitarray' = bitmapBin
  /\ pc' = "libre"
  /\ UNCHANGED <<disco, pedido, historia>>

\* An empty Bitmap.bin: fgets stores nothing and the array is built on the
\* uninitialised buffer of malloc, whose strlen and bits are arbitrary.
LeerBitmapVacio ==
  /\ pc = "bitmap"
  /\ bitmapBin.size = 0
  /\ \E n \in 0 .. CantidadBloques :
       \E m \in SUBSET (0 .. n - 1) :
         bitarray' = [size |-> n, marcados |-> m]
  /\ bitmapPerdido' = TRUE
  /\ pc' = "libre"
  /\ UNCHANGED <<disco, pedido, caidas>>

-----------------------------------------------------------------------------
(* validar_archivo and the head of crear_archivo *)

Validar(r) ==
  /\ pc = "libre"
  /\ comando' = VALIDAR_ARCHIVO
  /\ ruta' = r
  /\ rta' = IF archivos[r].estado # "ausente" THEN OPERACION_OK ELSE OPERACION_FAIL
  /\ pc' = "responder"
  /\ UNCHANGED <<disco, bitarray, bytes, bloques, i, historia>>

RecibirCrear(r, b) ==
  /\ pc = "libre"
  /\ comando' = CREAR_ARCHIVO
  /\ ruta' = r
  /\ bytes' = b
  /\ pc' = "buscar"
  /\ UNCHANGED <<disco, bitarray, bloques, i, rta, historia>>

\* rta is ERROR_OPERACION: a recv answered 0, or both parts were read and the
\* uninitialised rta happened to hold 99.
RecibirCrearError(r, b) ==
  /\ pc = "libre"
  /\ comando' = CREAR_ARCHIVO
  /\ ruta' = r
  /\ bytes' = b
  /\ rta' = ERROR_OPERACION
  /\ pc' = "responder"
  /\ UNCHANGED <<disco, bitarray, bloques, i, historia>>

\* One turn of the search loop: the first free block from bloque_inicial.
ProximoBloqueLibre ==
  /\ pc = "buscar"
  /\ Len(bloques) < CantBloques(bytes)
  /\ \E b \in LibresDesde(BloqueInicial) :
       /\ \A otro \in LibresDesde(BloqueInicial) : b <= otro
       /\ bloques' = Append(bloques, b)
  /\ UNCHANGED <<disco, bitarray, pc, comando, ruta, bytes, i, rta, historia>>

BloquesEncontrados ==
  /\ pc = "buscar"
  /\ Len(bloques) = CantBloques(bytes)
  /\ pc' = IF bloques = << >> THEN "guardar" ELSE "bloque"
  /\ UNCHANGED <<disco, bitarray, pedido, historia>>

\* prox_bloque is NULL: the search ran out of blocks, or bytes is 0 and the
\* uninitialised pointer happened to be NULL.
SinEspacio ==
  /\ pc = "buscar"
  /\ \/ Len(bloques) < CantBloques(bytes) /\ LibresDesde(BloqueInicial) = {}
     \/ CantBloques(bytes) = 0
  /\ rta' = OPERACION_FAIL
  /\ pc' = "responder"
  /\ UNCHANGED <<disco, bitarray, comando, ruta, bytes, bloques, i, historia>>

-----------------------------------------------------------------------------
(* crear_archivo: the block files, set_bitarray and config_save *)

\* Variant: set_bitarray does not set the bit.
EscribirBloqueSinMarcar ==
  /\ pc = "bloque"
  /\ bytesBloque' = [bytesBloque EXCEPT ![bloques[i + 1]] = BytesDelBloque(bytes, i)]
  /\ pc' = "bitmapAbrir"
  /\ UNCHANGED <<metadata, bitmapBin, archivos, bitarray, pedido, historia>>

\* The block file is written and set_bitarray sets the bit in memory.
EscribirBloque ==
  /\ pc = "bloque"
  /\ bytesBloque' = [bytesBloque EXCEPT ![bloques[i + 1]] = BytesDelBloque(bytes, i)]
  /\ bitarray' = [bitarray EXCEPT !.marcados = @ \cup {bloques[i + 1]}]
  /\ pc' = "bitmapAbrir"
  /\ UNCHANGED <<metadata, bitmapBin, archivos, pedido, historia>>

\* fopen(path_bitmap, "w") truncates Bitmap.bin.
AbrirBitmap ==
  /\ pc = "bitmapAbrir"
  /\ bitmapBin' = BitmapVacio
  /\ pc' = "bitmapEscribir"
  /\ UNCHANGED <<metadata, archivos, bytesBloque, bitarray, pedido, historia>>

\* fputs of the bit array, at start-up and in set_bitarray.
EscribirBitmap ==
  /\ pc \in {"inicioEscribir", "bitmapEscribir"}
  /\ bitmapBin' = Prefijo(bitarray)
  /\ pc' = IF pc = "inicioEscribir" THEN "inicioCerrar" ELSE "bitmapCerrar"
  /\ UNCHANGED <<metadata, archivos, bytesBloque, bitarray, pedido, historia>>

\* Variant: set_bitarray writes the file before it sets the bit.
CerrarBitmapAnterior ==
  /\ pc = "bitmapCerrar"
  /\ bitmapBin' = [bitarray EXCEPT !.marcados = @ \ {bloques[i + 1]}]
  /\ i' = i + 1
  /\ pc' = IF i + 1 < Len(bloques) THEN "bloque" ELSE "guardar"
  /\ UNCHANGED <<metadata, archivos, bytesBloque, bitarray, comando, ruta,
                 bytes, bloques, rta, historia>>

\* Variant: the loop forgets to go on to the next block.
CerrarBitmapSinAvanzar ==
  /\ pc = "bitmapCerrar"
  /\ bitmapBin' = bitarray
  /\ pc' = IF i + 1 < Len(bloques) THEN "bloque" ELSE "guardar"
  /\ UNCHANGED <<metadata, archivos, bytesBloque, bitarray, pedido, historia>>

\* fclose writes the rest; the loop goes on to the next block.
CerrarBitmap ==
  /\ pc = "bitmapCerrar"
  /\ bitmapBin' = bitarray
  /\ i' = i + 1
  /\ pc' = IF i + 1 < Len(bloques) THEN "bloque" ELSE "guardar"
  /\ UNCHANGED <<metadata, archivos, bytesBloque, bitarray, comando, ruta,
                 bytes, bloques, rta, historia>>

CerrarBitmapInicial ==
  /\ pc = "inicioCerrar"
  /\ bitmapBin' = bitarray
  /\ pc' = "libre"
  /\ UNCHANGED <<metadata, archivos, bytesBloque, bitarray, pedido, historia>>

\* The fopen of config_save truncates the archivo ...
AbrirArchivo ==
  /\ pc = "guardar"
  /\ CarpetaExiste(EnArchivos(ruta))
  /\ archivos' = [archivos EXCEPT ![EnArchivos(ruta)] = Vacio]
  /\ pc' = "guardarEscribir"
  /\ UNCHANGED <<metadata, bitmapBin, bytesBloque, bitarray, pedido, historia>>

\* ... or fails, which crear_archivo does not look at.
ArchivoSinCarpeta ==
  /\ pc = "guardar"
  /\ ~CarpetaExiste(EnArchivos(ruta))
  /\ rta' = OPERACION_OK
  /\ pc' = "responder"
  /\ UNCHANGED <<disco, bitarray, comando, ruta, bytes, bloques, i, historia>>

EscribirArchivo ==
  /\ pc = "guardarEscribir"
  /\ archivos' = [archivos EXCEPT ![EnArchivos(ruta)] = Guardado(bytes, bloques)]
  /\ rta' = OPERACION_OK
  /\ pc' = "responder"
  /\ UNCHANGED <<metadata, bitmapBin, bytesBloque, bitarray, comando, ruta,
                 bytes, bloques, i, historia>>

Responder ==
  /\ pc = "responder"
  /\ pc' = "libre"
  /\ SinPedido
  /\ UNCHANGED <<disco, bitarray, historia>>

\* The process dies: the disk stays as the last system call left it.
Caida ==
  /\ pc # "apagado"
  /\ caidas < MaxCaidas
  /\ caidas' = caidas + 1
  /\ pc' = "apagado"
  /\ bitarray' = BitmapVacio
  /\ SinPedido
  /\ UNCHANGED <<disco, bitmapPerdido>>

-----------------------------------------------------------------------------

Inicio ==
  \/ Arrancar
  \/ CrearMetadata \/ EscribirMetadata \/ LeerMetadata \/ MetadataIlegible
  \/ CrearBitmap \/ CerrarBitmapInicial \/ LeerBitmap \/ LeerBitmapVacio

Recibir ==
  \/ \E r \in Rutas : Validar(r)
  \/ \E r \in Rutas, b \in Tamanios : RecibirCrear(r, b)
  \/ \E r \in Rutas, b \in Tamanios : RecibirCrearError(r, b)

Manejar ==
  \/ ProximoBloqueLibre \/ BloquesEncontrados \/ SinEspacio
  \/ EscribirBloque \/ AbrirBitmap \/ EscribirBitmap \/ CerrarBitmap
  \/ AbrirArchivo \/ ArchivoSinCarpeta \/ EscribirArchivo \/ Responder

Next == Inicio \/ Recibir \/ Manejar \/ Caida

Spec == Init /\ [][Next]_vars

\* The server thread takes its steps: nothing in them blocks.
Fairness == WF_vars(Inicio \/ Manejar)

FairSpec == Spec /\ Fairness

-----------------------------------------------------------------------------
(* Properties *)

TypeOK ==
  /\ metadata \in {"ausente", "vacio", "completo"}
  /\ bitmapBin \in Bitmaps \cup {SinBitmap}
  /\ archivos \in [Archivos -> Contenidos]
  /\ bytesBloque \in [Bloques -> 0 .. TamanioBloques]
  /\ bitarray \in Bitmaps
  /\ pc \in Pcs
  /\ comando \in {NoComando, VALIDAR_ARCHIVO, CREAR_ARCHIVO}
  /\ ruta \in Rutas \cup {<< >>}
  /\ bytes \in Tamanios \cup {0}
  /\ bloques \in Seq(Bloques)
  /\ i \in Nat
  /\ rta \in Respuestas \cup {0}
  /\ caidas \in 0 .. MaxCaidas
  /\ bitmapPerdido \in BOOLEAN

BloquesDe(a) == {archivos[a].bloques[k] : k \in DOMAIN archivos[a].bloques}

\* No block belongs to two archivos, whatever crashed in between, as long as no
\* start-up met an empty Bitmap.bin: crear_archivo marks a block in memory and
\* on disk before any archivo names it.
SinBloquesCompartidos ==
  ~bitmapPerdido =>
    \A a1, a2 \in Archivos : a1 # a2 => BloquesDe(a1) \cap BloquesDe(a2) = {}

\* In every state, also half way through rewriting Bitmap.bin, the process can
\* die and start again: the bitmap it would read offers no block of an archivo
\* (set_bitarray truncates the file, but what it has lost lies past its end).
ReinicioSeguro ==
  ~bitmapPerdido =>
    \A a \in Archivos : \A b \in BloquesDe(a) :
      b < bitmapBin.size => b \in bitmapBin.marcados

\* The bytes in the block files bs names, one after another.
BytesDe(bs) ==
  LET hasta[k \in 0 .. Len(bs)] ==
        IF k = 0 THEN 0 ELSE hasta[k - 1] + bytesBloque[bs[k]]
  IN  hasta[Len(bs)]

\* Every archivo saved has its size in block files: the bytes crear_archivo
\* spread over them, the last one partly filled, add up to TAMANIO, until a lost
\* bitmap lets another archivo rewrite them.
BytesCoherentes ==
  ~bitmapPerdido =>
    \A a \in Archivos : BytesDe(archivos[a].bloques) = archivos[a].tamanio

\* Every request that reaches a handler is answered, or the process dies: the
\* search of free blocks and the loop over them end.
SolicitudTermina == comando # NoComando ~> comando = NoComando

\* What a client sees of the archivos, block allocation aside.
Almacen == INSTANCE Almacen WITH perdido <- bitmapPerdido

\* The MDJ implements the store of module Almacen.
ImplementaAlmacen == Almacen!Spec
=============================================================================
