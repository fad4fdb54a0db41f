------------------------------- MODULE Fm9Tpi -------------------------------
(***************************************************************************)
(* The memory of the FM9 (src/FM9/src/FM9.c) in its mode TPI: the inverted *)
(* page table, the frames, and the thread that serves one request at a     *)
(* time.  The searches of the table take a step per turn.                  *)
(*                                                                         *)
(* The table is an array of MARCOS entries at the start of the memory; the *)
(* code reads and writes it past its end, where nothing was initialised,   *)
(* and reads and writes frames past the end of the memory.  Of a line only *)
(* its first bytes are kept, as many as a pointer has: no more is written. *)
(*                                                                         *)
(* The program is read as if it were built: the id that its other modes    *)
(* use, and this one does not, is never declared (FM9.c:262, 291).         *)
(***************************************************************************)
EXTENDS Integers, FiniteSets

CONSTANTS
  TAMANIO, TAM_PAGINA, MAX_LINEA,  \* the configuration
  Pids,
  MaxLineas,       \* bound on the lines of a load and on the numbers of line
  Tope,            \* bound on the hash codes
  Valores,         \* what the first bytes of a line may be
  Basura,          \* and what they are before they are written
  LibresPorAzar    \* the sets of entries past the table that may read as free

MARCO_SIZE == TAM_PAGINA
MARCOS == TAMANIO \div MARCO_SIZE
CANTIDADLINEASxPAG == MARCO_SIZE \div MAX_LINEA

\* crearMemoriaPrincipalPaginacion: an entry is three int.
ESTRUCTURA_ADM_CANT_FRAMES == (MARCOS * 12 + MARCO_SIZE - 1) \div MARCO_SIZE

Cociente(unPid, pagina) == (unPid * MARCO_SIZE + pagina * MARCOS) \div MARCO_SIZE

hash(unPid, pagina) ==
  IF Cociente(unPid, pagina) > MARCOS THEN Cociente(unPid, pagina) - MARCOS
                                      ELSE Cociente(unPid, pagina)

\* The pages that so many lines need, and the page of a line.
Paginas(lineas) ==
  lineas \div CANTIDADLINEASxPAG + (IF lineas % CANTIDADLINEASxPAG > 0 THEN 1 ELSE 0)

NrosPag  == 0 .. Paginas(MaxLineas)
Offsets  == 0 .. CANTIDADLINEASxPAG - 1
Claves   == [pid : Pids, nroPag : NrosPag]
Marcos   == 0 .. MARCOS - 1
Entradas == 0 .. Tope + MARCOS + 1    \* those the code can reach

PAGINALIBRE == -2
Libre == [pid |-> PAGINALIBRE, nroPag |-> PAGINALIBRE]
Otra  == [pid |-> 0, nroPag |-> 0]    \* what past the table reads as no page and not free

\* almacenarLinea stores sizeof(buffer) bytes, those of a pointer: with shorter lines each
\* store would go over the start of the next line, and the model keeps the lines apart.
PUNTERO == 8

ASSUME ConstantesOK ==
  /\ {TAMANIO, TAM_PAGINA, MAX_LINEA, MaxLineas} \subseteq Nat \ {0}
  /\ PUNTERO <= MAX_LINEA /\ MAX_LINEA <= TAM_PAGINA /\ TAM_PAGINA <= TAMANIO
  /\ Pids \subseteq Nat \ {0}
  /\ Basura \notin Valores
  /\ LibresPorAzar \subseteq SUBSET (MARCOS .. Tope + MARCOS + 1)

\* The entries past the table lie before the data of the first frame that is used.
ASSUME TopeOK ==
  /\ Tope \in Nat
  /\ \A c \in Claves : hash(c.pid, c.nroPag) \in 0 .. Tope
  /\ (Tope + MARCOS + 2) * 12 <= (2 * ESTRUCTURA_ADM_CANT_FRAMES + 1) * MARCO_SIZE

VARIABLES
  tabla,      \* estructura_administrativa: the page in each entry, or Libre, or Otra
  datos,      \* the first bytes of each line of each frame inside the memory
  pc,         \* "libre", "asignar", "buscar", "sin pagina", "muerto"
  pedido,     \* the request: [tipo, pid, nroPag, offset, valor]
  paginas,    \* pages of a load
  pag,        \* the one that is being assigned
  cont_frame, \* entries looked at for it
  frame,      \* where buscarFrame is
  frameAux,   \* and where it began
  escrito     \* history: the last value stored in each line, inside the memory

servidor == <<pc, pedido, paginas, pag, cont_frame, frame, frameAux>>
vars == <<tabla, datos, servidor, escrito>>

\* calcularPosicion is added to memoria->frames: the administrative frames count twice.
Dentro(f) == f + 2 * ESTRUCTURA_ADM_CANT_FRAMES < MARCOS

Clave == [pid |-> pedido.pid, nroPag |-> pedido.nroPag]

NadaPedido == [tipo |-> "CLOSE_FILE", pid |-> 0, nroPag |-> 0, offset |-> 0, valor |-> Basura]

\* What a request had in local variables is gone when it ends.
Terminar(como) ==
  /\ pc' = como /\ pedido' = NadaPedido
  /\ paginas' = 0 /\ pag' = 0 /\ cont_frame' = 0 /\ frame' = 0 /\ frameAux' = 0

\* buscarFrame up to its loop.
EmpezarBusqueda(c) ==
  /\ pc' = "buscar"
  /\ frame' = hash(c.pid, c.nroPag) /\ frameAux' = frame'

-----------------------------------------------------------------------------
(* Requests                                                                *)

\* abrir_linea_paginas_invertidas, modificar_linea_paginas_invertidas: after line 0,
\* the last line of a page has offset 0.
Linea(tipo) ==
  /\ pc = "libre"
  /\ \E p \in Pids, n \in 0 .. MaxLineas - 1, v \in Valores :
       /\ pedido' = [tipo |-> tipo, pid |-> p, nroPag |-> Paginas(n),
                     offset |-> n % CANTIDADLINEASxPAG, valor |-> v]
       /\ EmpezarBusqueda([pid |-> p, nroPag |-> Paginas(n)])
  /\ UNCHANGED <<tabla, datos, paginas, pag, cont_frame, escrito>>

abrir_linea == Linea("ABRIR_ARCHIVO")

\* The identifier of the file is taken for the pid.
modificar_linea == Linea("MODIFICAR_LINEA")

\* guardar_archivo and crearPid.
guardar_archivo ==
  /\ pc = "libre"
  /\ \E p \in Pids, n \in 0 .. MaxLineas, v \in Valores :
       /\ pedido' = [tipo |-> "CARGAR_PROCESO", pid |-> p, nroPag |-> 0, offset |-> 0,
                     valor |-> v]
       /\ paginas' = Paginas(n)
  /\ pag' = 0 /\ cont_frame' = 0
  /\ pc' = "asignar"
  /\ UNCHANGED <<tabla, datos, frame, frameAux, escrito>>

\* close_file answers an int that was never set and frees nothing.  flush_paginacion goes
\* by the last frame, and to copy a frame dereferences its number.
flush ==
  /\ pc = "libre"
  /\ \E p \in Pids :
       LET suyas == {f \in Marcos : tabla[f].pid = p}
       IN /\ MARCOS - 1 \in suyas
          /\ \E j \in suyas : j < Cardinality(suyas)
  /\ Terminar("muerto")
  /\ UNCHANGED <<tabla, datos, escrito>>

-----------------------------------------------------------------------------
(* asignarPaginasIniciales                                                 *)

\* Once every page had its turn, the first line is stored.
ConSiguientePagina ==
  /\ pag' = pag + 1 /\ cont_frame' = 0
  /\ UNCHANGED pc

FinDeAsignar ==
  /\ pc = "asignar" /\ pag = paginas
  /\ EmpezarBusqueda(Clave)
  /\ UNCHANGED <<tabla, datos, pedido, paginas, pag, cont_frame, escrito>>

\* Variant: the first entry is taken as it is.
EstaLibreOEsLaPrimera(e) == tabla[e] = Libre \/ cont_frame = 0

EstaLibre(e) == tabla[e] = Libre

\* A turn of the loop.  It does not come back to the start of the table, and the turn
\* with cont_frame = MARCOS + 1 is the last.
AsignarEntrada ==
  /\ pc = "asignar" /\ pag < paginas
  /\ LET e == hash(pedido.pid, pag) + cont_frame IN
       \/ /\ EstaLibre(e)
          /\ tabla' = [tabla EXCEPT ![e] = [pid |-> pedido.pid, nroPag |-> pag]]
          /\ ConSiguientePagina
       \/ /\ ~EstaLibre(e) /\ cont_frame <= MARCOS
          /\ cont_frame' = cont_frame + 1
          /\ UNCHANGED <<tabla, pag, pc>>
       \/ /\ ~EstaLibre(e) /\ cont_frame > MARCOS
          /\ UNCHANGED tabla
          /\ ConSiguientePagina
  /\ UNCHANGED <<datos, pedido, paginas, frame, frameAux, escrito>>

-----------------------------------------------------------------------------
(* buscarFrame, and what is done with the frame                            *)

\* Variant: the table ends where it ends, while the hash code still may be MARCOS.
SiguienteJusto(f) == IF f + 1 >= MARCOS THEN 0 ELSE f + 1

\* Variant: it does not come back to the start.
SiguienteSinVuelta(f) == f + 1

Siguiente(f) == IF f + 1 > MARCOS THEN 0 ELSE f + 1

\* Variant: frame goes on before it is compared.
EsLaPaginaSiguiente == tabla[Siguiente(frame)] = Clave /\ Siguiente(frame) # frameAux

EsLaPagina == tabla[frame] = Clave

\* The search ends when it is back where it began: never, if it began past MARCOS.
BuscarSiguiente ==
  /\ pc = "buscar" /\ ~EsLaPagina
  /\ frame' = Siguiente(frame)
  /\ pc' = IF frame' = frameAux THEN "sin pagina" ELSE "buscar"
  /\ UNCHANGED <<tabla, datos, pedido, paginas, pag, cont_frame, frameAux, escrito>>

Escribe == pedido.tipo # "ABRIR_ARCHIVO"

\* almacenarLinea and solicitarLinea find the frame inside the memory.
Acceder ==
  /\ pc = "buscar" /\ EsLaPagina /\ frame > 0 /\ Dentro(frame)
  /\ IF Escribe
       THEN /\ datos' = [datos EXCEPT ![<<frame, pedido.offset>>] = pedido.valor]
            /\ escrito' = [escrito EXCEPT ![<<Clave, pedido.offset>>] = pedido.valor]
       ELSE UNCHANGED <<datos, escrito>>
  /\ Terminar("libre")
  /\ UNCHANGED tabla

\* Past the end of the memory the process dies, or goes on.
AccederFuera ==
  /\ pc = "buscar" /\ EsLaPagina /\ frame > 0 /\ ~Dentro(frame)
  /\ Terminar("libre") \/ Terminar("muerto")
  /\ UNCHANGED <<tabla, datos, escrito>>

\* Frame 0 is refused like -1.
ResponderError ==
  /\ pc = "sin pagina" \/ (pc = "buscar" /\ EsLaPagina /\ frame = 0)
  /\ Terminar("libre")
  /\ UNCHANGED <<tabla, datos, escrito>>

-----------------------------------------------------------------------------
(* Specification                                                           *)

\* crearEstructurasAdministrativas: every entry ends up free, the administrative ones too.
Init ==
  /\ \E azar \in LibresPorAzar :
       tabla = [e \in Entradas |-> IF e < MARCOS \/ e \in azar THEN Libre ELSE Otra]
  /\ datos = [x \in Marcos \X Offsets |-> Basura]
  /\ pc = "libre" /\ pedido = NadaPedido
  /\ paginas = 0 /\ pag = 0 /\ cont_frame = 0 /\ frame = 0 /\ frameAux = 0
  /\ escrito = [x \in Claves \X Offsets |-> Basura]

Pedir == abrir_linea \/ modificar_linea \/ guardar_archivo \/ flush

Servir == FinDeAsignar \/ AsignarEntrada \/ BuscarSiguiente \/ Acceder \/ AccederFuera
            \/ ResponderError

Next == Pedir \/ Servir

\* The thread goes on with the request it has.
Spec == Init /\ [][Next]_vars /\ WF_vars(Servir)

-----------------------------------------------------------------------------
(* Properties                                                              *)

TypeOK ==
  /\ tabla \in [Entradas -> Claves \union {Libre, Otra}]
  /\ datos \in [Marcos \X Offsets -> Valores \union {Basura}]
  /\ pc \in {"libre", "asignar", "buscar", "sin pagina", "muerto"}
  /\ pedido \in [tipo : {"ABRIR_ARCHIVO", "MODIFICAR_LINEA", "CARGAR_PROCESO"}, pid : Pids,
                 nroPag : NrosPag, offset : Offsets, valor : Valores] \union {NadaPedido}
  /\ paginas \in NrosPag /\ pag \in 0 .. paginas
  /\ cont_frame \in 0 .. MARCOS + 1
  /\ frame \in 0 .. Tope \union 0 .. MARCOS /\ frameAux \in 0 .. Tope
  /\ escrito \in [Claves \X Offsets -> Valores \union {Basura}]

\* The frame buscarFrame finds: the first with the page, from its hash code on and round.
Distancia(c, f) ==
  LET h == hash(c.pid, c.nroPag) IN IF f >= h THEN f - h ELSE f - h + MARCOS + 1

EsSuMarco(c, f) ==
  /\ f \in 1 .. MARCOS /\ tabla[f] = c
  /\ \A g \in 0 .. MARCOS : tabla[g] = c => Distancia(c, f) <= Distancia(c, g)

\* A line that was stored stays: whatever is loaded and stored afterwards, also a second
\* load of its process, the search finds the frame it is in, with its value in it.
LoEscritoSeConserva ==
  \A c \in Claves, o \in Offsets : escrito[<<c, o>>] # Basura =>
    \E f \in Marcos : EsSuMarco(c, f) /\ Dentro(f) /\ datos[<<f, o>>] = escrito[<<c, o>>]

\* buscarFrame answers -1 only if no frame has the page.
BusquedaCompleta == pc = "sin pagina" => \A f \in 1 .. MARCOS : tabla[f] # Clave

\* A search that begins inside the table ends.
BusquedaTermina == pc = "buscar" /\ frameAux <= MARCOS ~> pc # "buscar"
=============================================================================
