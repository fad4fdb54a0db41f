---------------------------- MODULE SafaArchivos ----------------------------
(***************************************************************************)
(* The file table of the S-AFA (src/S-AFA/src/ServerThread.c) with several *)
(* processes, each in a CPU of its own (src/CPU/src/CpuFunctions.c), that  *)
(* open, assign, flush and close files, and the DMA that loads them.       *)
(*                                                                         *)
(* Assumed, as in CpuSafa: a PCB sent arrives, and the sockets to the DMA  *)
(* and the memory are set.  Besides: no quantum ends, no address of a file *)
(* reads as an error, and scripts have no other instructions (those on     *)
(* semaphores would end the S-AFA with the process that used them).  The   *)
(* server thread handles a request to the end; it owns fileTableMutex.     *)
(***************************************************************************)
EXTENDS Integers, Sequences, FiniteSets, SequencesExt

CONSTANTS
  Procesos, Nadie,    \* Nadie is the pid 0
  Archivos,           \* names of files
  Minusculas,         \* what a name is without regard to case
  MaxInstrucciones    \* bound on the instructions of all the scripts

ASSUME ConstantesOK ==
  /\ Nadie \notin Procesos /\ Archivos # {}
  /\ DOMAIN Minusculas = Archivos
  /\ MaxInstrucciones \in Nat

Instrucciones == {"abrir", "asignar", "flush", "close"}
ConPCB == {"BLOCK_PROCESS", "PROCESS_ERROR", "END_OF_SCRIPT"}
Respuestas == {"FILE_NOT_OPEN", "FILE_OPEN", "FILE_OPENED_BY_ANOTHER_PROCESS",
               "MESSAGE_RECEIVED", "direccion"}
Pedido == [tarea : ConPCB \union {"CHECK_IF_FILE_OPEN", "CLOSE_FILE"}, archivo : Archivos]

VARIABLES
  \* The CPU of each process
  pc,              \* "bucle", the receive it is in, or "fin"
  linea,           \* the instruction it executes: [palabra, archivo]
  ultimo,          \* its last message with a PCB
  hechas,          \* instructions executed so far, by all
  \* Messages
  pedidos,         \* requests of each CPU that the S-AFA has not handled
  canal,           \* answers each CPU has not read
  pedidosDma,      \* loads and flushes asked of the DMA, not finished, per process and file
  \* The S-AFA
  fileTable,       \* the files in the table: [asignado, esperan]
  fileTableKeys,   \* the list of their names
  cola,            \* the queue each process is in
  safa,            \* "viva", or what it died of
  \* History
  alDia,           \* no CPU left an address unread
  cerroConEspera   \* files closed while a process waited

cpuVars  == <<pc, linea, ultimo, hechas>>
safaVars == <<fileTable, fileTableKeys, cola, safa, cerroConEspera>>
vars == <<cpuVars, pedidos, canal, pedidosDma, safaVars, alDia>>

-----------------------------------------------------------------------------
(* The CPU of p                                                            *)

Enviar(p, t) == pedidos' = [pedidos EXCEPT ![p] = Append(@, [tarea |-> t,
                                                             archivo |-> linea'[p].archivo])]

Esperar(p, donde) == pc' = [pc EXCEPT ![p] = donde]

\* updatePCBAndSendExecutionEndMessage: the message with the PCB, and then the receive
\* of its confirmation.
EnviarPCB(p, t) ==
  /\ Enviar(p, t)
  /\ ultimo' = [ultimo EXCEPT ![p] = t]
  /\ Esperar(p, "confirmacion")

tellSchedulerToBlockProcess(p) == EnviarPCB(p, "BLOCK_PROCESS")
handleProcessError(p) == EnviarPCB(p, "PROCESS_ERROR") /\ UNCHANGED pedidosDma

\* What a CPU does after the S-AFA died changes nothing of it and is not followed.
Listo(p, donde) == safa = "viva" /\ pc[p] = donde

Completar(p) == Esperar(p, "bucle") /\ UNCHANGED <<pedidos, ultimo, pedidosDma>>

\* askSchedulerIfFileOpen, with which the four instructions begin.
Instruccion(p) ==
  /\ Listo(p, "bucle") /\ hechas < MaxInstrucciones
  /\ \E i \in Instrucciones, f \in Archivos :
       linea' = [linea EXCEPT ![p] = [palabra |-> i, archivo |-> f]]
  /\ hechas' = hechas + 1
  /\ Enviar(p, "CHECK_IF_FILE_OPEN")
  /\ Esperar(p, "archivo")
  /\ UNCHANGED <<ultimo, canal, pedidosDma, safaVars, alDia>>

\* The script ends here.
Terminar(p) ==
  /\ Listo(p, "bucle")
  /\ UNCHANGED linea
  /\ EnviarPCB(p, "END_OF_SCRIPT")
  /\ UNCHANGED <<hechas, canal, pedidosDma, safaVars, alDia>>

\* A receive from the S-AFA's socket.
Leer(p, donde) ==
  /\ Listo(p, donde) /\ canal[p] # << >>
  /\ canal' = [canal EXCEPT ![p] = Tail(@)]
  /\ UNCHANGED <<linea, hechas, safaVars>>

\* The DMA is asked first, the block is sent second.
PedirAlDma(p) ==
  /\ pedidosDma' = [pedidosDma EXCEPT ![<<p, linea[p].archivo>>] = @ + 1]
  /\ tellSchedulerToBlockProcess(p)

handleFileNotOpen(p) ==
  IF linea[p].palabra = "abrir" THEN PedirAlDma(p) ELSE handleProcessError(p)

handleFileOpenedByOtherProcess(p) ==
  IF linea[p].palabra = "abrir"
    THEN tellSchedulerToBlockProcess(p) /\ UNCHANGED pedidosDma
    ELSE handleProcessError(p)

\* abrir has nothing left to do; asignar and close go on with a receive; flush asks the DMA.
ConArchivoAbierto(p) ==
  \/ linea[p].palabra = "abrir" /\ Completar(p)
  \/ linea[p].palabra = "asignar" /\ Esperar(p, "memoria") /\ UNCHANGED <<pedidos, ultimo, pedidosDma>>
  \/ linea[p].palabra = "flush" /\ PedirAlDma(p)
  \/ /\ linea[p].palabra = "close"
     /\ Enviar(p, "CLOSE_FILE") /\ Esperar(p, "memoria")
     /\ UNCHANGED <<ultimo, pedidosDma>>

\* openFile, modifyFileLineInMemory, flushFile and closeFile of the CPU.
RecibirArchivo(p) ==
  /\ Leer(p, "archivo")
  /\ LET m == Head(canal[p]) IN
       /\ \/ m = "FILE_NOT_OPEN" /\ handleFileNotOpen(p)
          \/ m = "FILE_OPENED_BY_ANOTHER_PROCESS" /\ handleFileOpenedByOtherProcess(p)
          \/ m = "FILE_OPEN" /\ ConArchivoAbierto(p)
          \/ m \in {"MESSAGE_RECEIVED", "direccion"} /\ Completar(p)
       /\ alDia' = (alDia /\ ~(m = "FILE_OPEN" /\ linea[p].palabra \in {"abrir", "flush"}))

\* The receive meant for the memory's answer.
RecibirMemoria(p) == Leer(p, "memoria") /\ Completar(p) /\ UNCHANGED alDia

\* A process that was blocked or ended by an error goes on executing.
RecibirConfirmacion(p) ==
  /\ Leer(p, "confirmacion")
  /\ Esperar(p, IF ultimo[p] = "END_OF_SCRIPT" THEN "fin" ELSE "bucle")
  /\ UNCHANGED <<ultimo, pedidos, pedidosDma, alDia>>

-----------------------------------------------------------------------------
(* The S-AFA                                                               *)

Atender(p, t) ==
  /\ safa = "viva"
  /\ pedidos[p] # << >> /\ Head(pedidos[p]).tarea = t
  /\ pedidos' = [pedidos EXCEPT ![p] = Tail(@)]
  /\ UNCHANGED <<cpuVars, pedidosDma, alDia>>

Responder(p, valores) == canal' = [canal EXCEPT ![p] = @ \o valores]

Morir(causa) == safa' = causa /\ UNCHANGED <<fileTable, fileTableKeys, cola, cerroConEspera>>

Presente(f) == f \in DOMAIN fileTable
Sin(f) == [g \in DOMAIN fileTable \ {f} |-> fileTable[g]]
Con(f, e) == [g \in DOMAIN fileTable \union {f} |-> IF g = f THEN e ELSE fileTable[g]]

\* Who asks for a free file claims it and gets no answer.
checkIfFileOpen(p) ==
  /\ Atender(p, "CHECK_IF_FILE_OPEN")
  /\ LET f == Head(pedidos[p]).archivo IN
       \/ ~Presente(f) /\ Responder(p, <<"FILE_NOT_OPEN">>) /\ UNCHANGED fileTable
       \/ /\ Presente(f) /\ fileTable[f].asignado = p
          /\ Responder(p, <<"FILE_OPEN", "direccion">>) /\ UNCHANGED fileTable
       \/ /\ Presente(f) /\ fileTable[f].asignado = Nadie
          /\ fileTable' = [fileTable EXCEPT ![f].asignado = p] /\ UNCHANGED canal
       \/ /\ Presente(f) /\ fileTable[f].asignado \notin {p, Nadie}
          /\ Responder(p, <<"FILE_OPENED_BY_ANOTHER_PROCESS">>)
          /\ fileTable' = [fileTable EXCEPT ![f].esperan = Append(@, p)]
  /\ UNCHANGED <<fileTableKeys, cola, safa, cerroConEspera>>

\* Variant: every name that is equal but for the case.
removeKeyFromListTodas(nombre) ==
  SelectSeq(fileTableKeys, LAMBDA k : Minusculas[k] # Minusculas[nombre])

\* The first name that is equal but for the case.
removeKeyFromList(nombre) ==
  RemoveFirstMatch(fileTableKeys, LAMBDA k : Minusculas[k] = Minusculas[nombre])

\* Variant: the loop stops after the first of those that wait.
closeFileSoloPrimero(p) ==
  /\ Atender(p, "CLOSE_FILE")
  /\ UNCHANGED canal
  /\ LET f == Head(pedidos[p]).archivo
         esperan == fileTable[f].esperan IN
       \/ ~Presente(f) /\ UNCHANGED safaVars
       \/ /\ Presente(f) /\ esperan = << >>
          /\ fileTable' = Sin(f)
          /\ fileTableKeys' = removeKeyFromList(f)
          /\ UNCHANGED <<cola, safa, cerroConEspera>>
       \/ /\ Presente(f) /\ esperan # << >> /\ cola[Head(esperan)] = "bloqueado"
          /\ fileTable' = Sin(f)
          /\ cola' = [cola EXCEPT ![Head(esperan)] = "listo"]
          /\ cerroConEspera' = cerroConEspera \union {f}
          /\ UNCHANGED <<fileTableKeys, safa>>
       \/ Presente(f) /\ esperan # << >> /\ cola[Head(esperan)] # "bloqueado" /\ Morir("desbloqueo")

\* Whoever has the file.  Of two that wait the first is unblocked, and the second
\* list_remove is out of range; a key whose file somebody waited for stays in the list.
closeFile(p) ==
  /\ Atender(p, "CLOSE_FILE")
  /\ UNCHANGED canal
  /\ LET f == Head(pedidos[p]).archivo
         esperan == fileTable[f].esperan IN
       \/ ~Presente(f) /\ UNCHANGED safaVars
       \/ /\ Presente(f) /\ esperan = << >>
          /\ fileTable' = Sin(f)
          /\ fileTableKeys' = removeKeyFromList(f)
          /\ UNCHANGED <<cola, safa, cerroConEspera>>
       \/ /\ Presente(f) /\ Len(esperan) = 1 /\ cola[Head(esperan)] = "bloqueado"
          /\ fileTable' = Sin(f)
          /\ cola' = [cola EXCEPT ![Head(esperan)] = "listo"]
          /\ cerroConEspera' = cerroConEspera \union {f}
          /\ UNCHANGED <<fileTableKeys, safa>>
       \/ Presente(f) /\ esperan # << >> /\ cola[Head(esperan)] # "bloqueado" /\ Morir("desbloqueo")
       \/ Presente(f) /\ Len(esperan) > 1 /\ cola[Head(esperan)] = "bloqueado" /\ Morir("lista")

\* The process is now in finishedQueue; checkAndFreeProcessFiles goes through the keys.
\* A key without a file and a first waiter that is not blocked end the S-AFA.
TerminarYLiberar(p) ==
  LET propios    == {f \in Range(fileTableKeys) \intersect DOMAIN fileTable :
                       fileTable[f].asignado = p}
      conEspera  == {f \in propios : fileTable[f].esperan # << >>}
      primero(f) == Head(fileTable[f].esperan)
      fin        == [cola EXCEPT ![p] = "terminado"]
  IN \/ ~(Range(fileTableKeys) \subseteq DOMAIN fileTable) /\ Morir("clave")
     \/ /\ \/ \E f \in conEspera : fin[primero(f)] # "bloqueado"
           \/ \E f, g \in conEspera : f # g /\ primero(f) = primero(g)
        /\ Morir("desbloqueo")
     \/ /\ Range(fileTableKeys) \subseteq DOMAIN fileTable
        /\ \A f \in conEspera : fin[primero(f)] = "bloqueado"
        /\ \A f, g \in conEspera : f # g => primero(f) # primero(g)
        /\ fileTable' = [f \in DOMAIN fileTable |->
                           IF f \in propios
                             THEN [asignado |-> Nadie,
                                   esperan  |-> IF f \in conEspera THEN Tail(fileTable[f].esperan)
                                                                   ELSE << >>]
                             ELSE fileTable[f]]
        /\ cola' = [q \in Procesos |-> IF \E f \in conEspera : q = primero(f) THEN "listo" ELSE fin[q]]
        /\ UNCHANGED <<fileTableKeys, safa, cerroConEspera>>

\* The confirmation goes out before the process is looked for.
Confirmar(p, t) == Atender(p, t) /\ Responder(p, <<"MESSAGE_RECEIVED">>)

_blockProcess(p) ==
  /\ Confirmar(p, "BLOCK_PROCESS")
  /\ \/ /\ cola[p] = "ejecucion"
        /\ cola' = [cola EXCEPT ![p] = "bloqueado"]
        /\ UNCHANGED <<fileTable, fileTableKeys, safa, cerroConEspera>>
     \/ cola[p] # "ejecucion" /\ Morir("sin proceso")

\* killProcess writes through a pointer it never set, or looks for the process in every queue.
_killProcess(p) ==
  /\ Confirmar(p, "PROCESS_ERROR")
  /\ Morir("puntero") \/ TerminarYLiberar(p)

terminateProcess(p) ==
  /\ Confirmar(p, "END_OF_SCRIPT")
  /\ \/ cola[p] = "ejecucion" /\ TerminarYLiberar(p)
     \/ cola[p] # "ejecucion" /\ Morir("sin proceso")

\* Variant: what the DMA asked for is given to the process, whoever has it.
saveFileDataToFileTableAsignando(p, f) ==
  /\ fileTable' = Con(f, [asignado |-> p, esperan |-> IF Presente(f) THEN fileTable[f].esperan
                                                                     ELSE << >>])
  /\ fileTableKeys' = IF Presente(f) THEN fileTableKeys ELSE Append(fileTableKeys, f)

\* Variant: a new entry is left with no list at all.
saveFileDataToFileTableSinLista(p, f) ==
  IF Presente(f)
    THEN UNCHANGED <<fileTable, fileTableKeys>>
    ELSE /\ fileTable' = Con(f, [asignado |-> p, esperan |-> "NULL"])
         /\ fileTableKeys' = Append(fileTableKeys, f)

\* Of a file that is in the table only the address changes, whoever has it.
saveFileDataToFileTable(p, f) ==
  IF Presente(f)
    THEN UNCHANGED <<fileTable, fileTableKeys>>
    ELSE /\ fileTable' = Con(f, [asignado |-> p, esperan |-> << >>])
         /\ fileTableKeys' = Append(fileTableKeys, f)

\* UNLOCK_PROCESS of the DMA.
unlockProcess(p, f) ==
  /\ safa = "viva" /\ pedidosDma[<<p, f>>] > 0
  /\ pedidosDma' = [pedidosDma EXCEPT ![<<p, f>>] = @ - 1]
  /\ saveFileDataToFileTable(p, f)
  /\ IF cola[p] = "bloqueado"
       THEN cola' = [cola EXCEPT ![p] = "listo"] /\ UNCHANGED safa
       ELSE safa' = "desbloqueo" /\ UNCHANGED cola
  /\ UNCHANGED <<cpuVars, pedidos, canal, cerroConEspera, alDia>>

-----------------------------------------------------------------------------
(* Specification                                                           *)

Init ==
  /\ pc = [p \in Procesos |-> "bucle"]
  /\ linea = [p \in Procesos |-> [palabra |-> "abrir", archivo |-> CHOOSE f \in Archivos : TRUE]]
  /\ ultimo = [p \in Procesos |-> "END_OF_SCRIPT"]
  /\ hechas = 0
  /\ pedidos = [p \in Procesos |-> << >>] /\ canal = [p \in Procesos |-> << >>]
  /\ pedidosDma = [q \in Procesos \X Archivos |-> 0]
  /\ fileTable = << >> /\ fileTableKeys = << >>
  /\ cola = [p \in Procesos |-> "ejecucion"]
  /\ safa = "viva" /\ alDia = TRUE /\ cerroConEspera = {}

Cpu(p) == \/ Instruccion(p) \/ Terminar(p) \/ RecibirArchivo(p) \/ RecibirMemoria(p)
          \/ RecibirConfirmacion(p)

Safa(p) == \/ checkIfFileOpen(p) \/ closeFile(p) \/ _blockProcess(p) \/ _killProcess(p)
           \/ terminateProcess(p) \/ (\E f \in Archivos : unlockProcess(p, f))

Next == \E p \in Procesos : Cpu(p) \/ Safa(p)

Spec == Init /\ [][Next]_vars

-----------------------------------------------------------------------------
(* Properties                                                              *)

TypeOK ==
  /\ pc \in [Procesos -> {"bucle", "archivo", "memoria", "confirmacion", "fin"}]
  /\ linea \in [Procesos -> [palabra : Instrucciones, archivo : Archivos]]
  /\ ultimo \in [Procesos -> ConPCB]
  /\ hechas \in 0 .. MaxInstrucciones
  /\ pedidos \in [Procesos -> Seq(Pedido)]
  /\ canal \in [Procesos -> Seq(Respuestas)]
  /\ pedidosDma \in [Procesos \X Archivos -> Nat]
  /\ DOMAIN fileTable \subseteq Archivos
  /\ \A f \in DOMAIN fileTable :
       fileTable[f] \in [asignado : Procesos \union {Nadie}, esperan : Seq(Procesos)]
  /\ fileTableKeys \in Seq(Archivos)
  /\ cola \in [Procesos -> {"ejecucion", "bloqueado", "listo", "terminado"}]
  /\ safa \in {"viva", "desbloqueo", "lista", "clave", "sin proceso", "puntero"}
  /\ alDia \in BOOLEAN /\ cerroConEspera \subseteq Archivos

\* p works on f: it writes to it in memory, or its close is on its way.
Usa(p, f) ==
  \/ pc[p] = "memoria" /\ linea[p] = [palabra |-> "asignar", archivo |-> f]
  \/ \E i \in DOMAIN pedidos[p] : pedidos[p][i] = [tarea |-> "CLOSE_FILE", archivo |-> f]

\* Until a CPU leaves an address unread, a process that writes to a file or closes it is
\* its owner, from the answer it goes by until it is done: nobody else frees, claims or
\* loads the file meanwhile, although closeFile never asks whose it is.
AccesoExclusivo ==
  alDia => \A p \in Procesos, f \in Archivos :
             Usa(p, f) => Presente(f) /\ fileTable[f].asignado = p

Espera(p, f) == Presente(f) /\ p \in Range(fileTable[f].esperan)

\* A process leaves a waiting list only to the ready queue, in the same step, also when
\* the list goes with its file; otherwise the S-AFA dies of it.
NadieSePierde ==
  [][\A p \in Procesos, f \in Archivos :
       Espera(p, f) /\ ~Espera(p, f)' => cola[p] = "bloqueado" /\ cola'[p] = "listo"]_vars

\* For every name there are as many keys as files in the table, or more once a file
\* somebody waited for was closed: with fewer, the end of a process would not reach
\* one of its files.
ClavesCoherentes ==
  \A n \in Range(Minusculas) :
    LET claves == Cardinality({i \in DOMAIN fileTableKeys : Minusculas[fileTableKeys[i]] = n})
        enTabla == Cardinality({f \in DOMAIN fileTable : Minusculas[f] = n})
        viejas == {f \in cerroConEspera : Minusculas[f] = n}
    IN claves >= enTabla /\ (claves > enTabla => viejas # {})

\* "Another process claimed the file before this one; should never happen because processes
\* claim the files before requesting the DMA to load them in memory": the DMA never loads
\* for a process a file that is another's.
NadieReclamaAntes ==
  safa = "viva" => \A p \in Procesos, f \in Archivos :
    pedidosDma[<<p, f>>] > 0 /\ Presente(f) => fileTable[f].asignado \in {p, Nadie}
=============================================================================
