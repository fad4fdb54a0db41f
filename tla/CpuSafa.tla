------------------------------ MODULE CpuSafa -------------------------------
(***************************************************************************)
(* One execution of a process: the main thread of a CPU                    *)
(* (src/CPU/src/CpuFunctions.c, executeProcess) and the S-AFA that handles *)
(* its requests (src/S-AFA/src/ServerThread.c).  A CPU that is given a     *)
(* process to execute is never given another, since only BLOCK_PROCESS_INIT*)
(* sets isFree again.                                                      *)
(*                                                                         *)
(* Two assumptions are not in the code.  A PCB sent arrives: as written    *)
(* recvPCB waits for more than sendPCB sends and leaves its caller's       *)
(* pointer NULL.  dmaServerSocket and memoryServerSocket are those of the  *)
(* connections: connectToServers sets them in lines commented out.  The    *)
(* mutexes are those of SafaHilos and are not repeated.                    *)
(* Nobody connects to the server of the CPU, so nothing stops an execution *)
(* from outside and stopExecution is always false.                         *)
(***************************************************************************)
EXTENDS Integers, Sequences, FiniteSets

CONSTANTS
  Guiones,      \* the scripts, as sequences of kinds of line
  MaxQuantum,   \* bound on the quantum a process is given
  Modulo,       \* 2^32: the counters are uint32_t
  Direcciones   \* what the address of a file in memory may look like to the CPU

\* Every kind: "vacia" is a line of spaces, "comentario" begins with a #, and
\* "concentrar" stands for any word that is no instruction too.
Clases == {"vacia", "comentario", "concentrar", "abrir", "asignar", "wait", "signal",
           "flush", "close", "crear", "borrar"}
DeArchivo == {"abrir", "asignar", "flush", "close"}

\* What the S-AFA answers.  An address is a number, and may be that of an answer.
Respuestas == {"FILE_NOT_OPEN", "FILE_OPENED_BY_ANOTHER_PROCESS", "FILE_OPEN", "WAIT_OK",
               "WAIT_ERROR", "SIGNAL_OK", "MESSAGE_RECEIVED"}
Valores == Respuestas \union {"SIGNAL_ERROR", "MODIFY_FILE_ERROR", "CLOSE_FILE_ERROR", "otro"}

ConPCB == {"BLOCK_PROCESS", "PROCESS_ERROR", "QUANTUM_END", "END_OF_SCRIPT"}
Tareas == ConPCB \union {"CHECK_IF_FILE_OPEN", "CLOSE_FILE", "WAIT_RESOURCE",
                         "SIGNAL_RESOURCE", "COMPLETED_INSTRUCTION"}

\* The script is a t_list, whose elements_count is an int: no script has 2^31 lines.
ASSUME ConstantesOK ==
  /\ \A g \in Guiones : g \in Seq(Clases) /\ 2 * Len(g) < Modulo
  /\ MaxQuantum \in Nat /\ Modulo \in Nat /\ MaxQuantum < Modulo
  /\ Direcciones \subseteq Valores

VARIABLES
  \* The CPU
  pc,                     \* where executeProcess is; the receives have a name each
  script,                 \* parsedScript, a sequence of kinds of line
  pcb,                    \* processInExecutionPCB
  instructionsExecuted, currentProcessQuantum, currentProgramCounter,
  ultimo,                 \* the last message with a PCB
  \* The connection
  pedidos,                \* requests the S-AFA has not handled
  canal,                  \* answers the CPU has not read: [de |-> request, valor |-> answer]
  alineado,               \* the S-AFA will read the next request from its first byte
  pedidosDma,             \* operations the DMA has not finished
  \* The S-AFA
  safa,                   \* "viva", or what it died of
  colas,                  \* the queues the process is in
  archivo,                \* the entry of the one file in fileTable
  enEspera,               \* the process is in the file's processesWaitingForFile
  claveVieja,             \* fileTableKeys has a key that is not in fileTable
  semaforo,               \* the one semaphore is in semaphoreList
  \* History
  recibido,               \* the PCB as it arrived
  vacias,                 \* empty lines gone through
  enviados,               \* messages with a PCB sent
  direccionSuelta,        \* a FILE_OPEN was read by an instruction that does not read the address
  callada                 \* the last request got no answer

cpuVars  == <<script, pcb, instructionsExecuted, currentProcessQuantum, currentProgramCounter,
              ultimo>>
safaVars == <<safa, colas, archivo, enEspera, claveVieja, semaforo, callada>>
hist     == <<recibido, vacias, enviados, direccionSuelta>>
vars == <<pc, cpuVars, pedidos, canal, alineado, pedidosDma, safaVars, hist>>

-----------------------------------------------------------------------------
(* The CPU                                                                 *)

\* Variant: the counters are not unsigned.
MenosConSigno(a, b) == a - b

Menos(a, b) == (a - b) % Modulo
Mas(a, b)   == (a + b) % Modulo

\* Variant: remainingQuantum is not brought up to date.
updateCurrentPCBSinQuantum(e) ==
  [pcb EXCEPT !.programCounter = Mas(@, e), !.totalInstructionsExecuted = Mas(@, e)]

\* instructionsUntilIoOrEnd is left out: usingCustomSchedulingAlgorithm is never set.
updateCurrentPCB(e) ==
  [programCounter            |-> Mas(pcb.programCounter, e),
   remainingQuantum          |-> Menos(pcb.remainingQuantum, e),
   totalInstructionsExecuted |-> Mas(pcb.totalInstructionsExecuted, e)]

\* updateCurrentPCB, the message with the PCB, and the receive of the confirmation.
EnviarPCB(m, e) ==
  /\ pcb' = updateCurrentPCB(e)
  /\ pedidos' = Append(pedidos, m)
  /\ ultimo' = m
  /\ enviados' = enviados + 1
  /\ pc' = "confirmacion"

tellSchedulerToBlockProcess(e) == EnviarPCB("BLOCK_PROCESS", e)
handleProcessError(e)          == EnviarPCB("PROCESS_ERROR", e)

\* checkAndExecuteInstruction returns true.
Completar ==
  /\ pedidos' = Append(pedidos, "COMPLETED_INSTRUCTION")
  /\ pc' = "bucle"
  /\ UNCHANGED <<pcb, ultimo, enviados>>

Preguntar(m, p) ==
  /\ pedidos' = Append(pedidos, m)
  /\ pc' = p
  /\ UNCHANGED <<pcb, ultimo, enviados>>

\* The message to the DMA, which comes first, and the one to the S-AFA.
PedirAlDma(e) ==
  /\ pedidosDma' = pedidosDma + 1
  /\ tellSchedulerToBlockProcess(e)

\* It goes on to the length the list had: once it removed a comment that is not the last
\* line, list_get answers NULL for the last index.
removeCommentsFromScriptMuere(lineas) == \E i \in 1 .. Len(lineas) - 1 : lineas[i] = "comentario"

removeCommentsFromScript(lineas) ==
  IF lineas # << >> /\ lineas[Len(lineas)] = "comentario"
    THEN SubSeq(lineas, 1, Len(lineas) - 1) ELSE lineas

\* executeProcess up to the loop.
Comenzar ==
  /\ pc = "espera"
  /\ \E g \in Guiones :
       /\ script' = removeCommentsFromScript(g)
       /\ pc' = IF removeCommentsFromScriptMuere(g) THEN "muerta" ELSE "bucle"
  /\ \E q \in 1 .. MaxQuantum, c \in 0 .. Len(script') :
       pcb' = [programCounter |-> c, remainingQuantum |-> q, totalInstructionsExecuted |-> c]
  /\ recibido' = pcb'
  /\ currentProcessQuantum' = pcb'.remainingQuantum
  /\ currentProgramCounter' = pcb'.programCounter
  /\ instructionsExecuted' = 0
  /\ UNCHANGED <<ultimo, pedidos, canal, alineado, pedidosDma, safaVars, vacias, enviados,
                 direccionSuelta>>

Sigue == currentProcessQuantum # 0 /\ currentProgramCounter < Len(script)
Linea == script[currentProgramCounter]

\* Variant: the quantum is not charged for an instruction.
AvanzarSinQuantum(n) ==
  /\ currentProgramCounter' = Mas(currentProgramCounter, 1)
  /\ UNCHANGED currentProcessQuantum
  /\ instructionsExecuted' = Mas(instructionsExecuted, n)

\* The three counters; n is 2 for an empty line, which is charged twice.
Avanzar(n) ==
  /\ currentProgramCounter' = Mas(currentProgramCounter, 1)
  /\ currentProcessQuantum' = Menos(currentProcessQuantum, n)
  /\ instructionsExecuted' = Mas(instructionsExecuted, n)

\* Variant: an empty line is charged and not left behind.
LineaVaciaSinAvanzar ==
  /\ pc = "bucle" /\ Sigue
  /\ script[currentProgramCounter + 1] = "vacia"
  /\ currentProcessQuantum' = Menos(currentProcessQuantum, 2)
  /\ instructionsExecuted' = Mas(instructionsExecuted, 2)
  /\ UNCHANGED <<pc, script, pcb, ultimo, currentProgramCounter, pedidos, canal, alineado,
                 pedidosDma, safaVars, hist>>

LineaVacia ==
  /\ pc = "bucle" /\ Sigue
  /\ script[currentProgramCounter + 1] = "vacia"
  /\ Avanzar(2)
  /\ vacias' = vacias + 1
  /\ UNCHANGED <<pc, script, pcb, ultimo, pedidos, canal, alineado, pedidosDma, safaVars,
                 recibido, enviados, direccionSuelta>>

\* One turn of the loop, up to the first receive of the instruction or to its end.
Instruccion ==
  /\ pc = "bucle" /\ Sigue
  /\ LET l == script[currentProgramCounter + 1] IN
       /\ l # "vacia"
       /\ Avanzar(1)
       /\ \/ l = "concentrar" /\ Completar /\ UNCHANGED pedidosDma
          \/ l \in DeArchivo /\ Preguntar("CHECK_IF_FILE_OPEN", "archivo") /\ UNCHANGED pedidosDma
          \/ l = "wait" /\ Preguntar("WAIT_RESOURCE", "wait") /\ UNCHANGED pedidosDma
          \/ l = "signal" /\ Preguntar("SIGNAL_RESOURCE", "signal") /\ UNCHANGED pedidosDma
          \/ l \in {"crear", "borrar"} /\ PedirAlDma(instructionsExecuted')
  /\ UNCHANGED <<script, canal, alineado, safaVars, recibido, vacias, direccionSuelta>>

\* A receive from schedulerServerSocket.
Leer(p) ==
  /\ pc = p /\ canal # << >>
  /\ canal' = Tail(canal)
  /\ UNCHANGED <<script, instructionsExecuted, currentProcessQuantum, currentProgramCounter,
                 alineado, safaVars, recibido, vacias>>

handleFileNotOpen(raiseError) ==
  IF raiseError
    THEN handleProcessError(instructionsExecuted) /\ UNCHANGED pedidosDma
    ELSE PedirAlDma(instructionsExecuted)

handleFileOpenedByOtherProcess(raiseError) ==
  /\ IF raiseError THEN handleProcessError(instructionsExecuted)
                   ELSE tellSchedulerToBlockProcess(instructionsExecuted)
  /\ UNCHANGED pedidosDma

\* The requests to the memory are not followed: its answers are never read.
handleModifyFile ==
  pc' = "memoria" /\ UNCHANGED <<pcb, ultimo, enviados, pedidos, pedidosDma>>
handleCloseFile == Preguntar("CLOSE_FILE", "memoria") /\ UNCHANGED pedidosDma
handleFlushFile == PedirAlDma(instructionsExecuted)

\* The switch on what askSchedulerIfFileOpen returned; any other value goes through it.
Segun(m, raiseError, abierto) ==
  \/ m = "FILE_NOT_OPEN" /\ handleFileNotOpen(raiseError)
  \/ m = "FILE_OPENED_BY_ANOTHER_PROCESS" /\ handleFileOpenedByOtherProcess(raiseError)
  \/ m = "FILE_OPEN" /\ abierto
  \/ /\ m \notin {"FILE_NOT_OPEN", "FILE_OPENED_BY_ANOTHER_PROCESS", "FILE_OPEN"}
     /\ Completar /\ UNCHANGED pedidosDma

openFile(m)               == Segun(m, FALSE, Completar /\ UNCHANGED pedidosDma)
modifyFileLineInMemory(m) == Segun(m, TRUE, handleModifyFile)
flushFile(m)              == Segun(m, TRUE, handleFlushFile)
closeFileEnCpu(m)         == Segun(m, TRUE, handleCloseFile)

RecibirArchivo ==
  /\ Leer("archivo")
  /\ LET m == Head(canal).valor IN
       /\ \/ Linea = "abrir" /\ openFile(m)
          \/ Linea = "asignar" /\ modifyFileLineInMemory(m)
          \/ Linea = "flush" /\ flushFile(m)
          \/ Linea = "close" /\ closeFileEnCpu(m)
       /\ direccionSuelta' = (direccionSuelta \/ (m = "FILE_OPEN" /\ Linea \in {"abrir", "flush"}))

\* Where the memory's confirmation is awaited, the receive is from the S-AFA's socket.
RecibirMemoria ==
  /\ Leer("memoria")
  /\ IF Head(canal).valor = (IF Linea = "close" THEN "CLOSE_FILE_ERROR" ELSE "MODIFY_FILE_ERROR")
       THEN handleProcessError(instructionsExecuted) ELSE Completar
  /\ UNCHANGED <<pedidosDma, direccionSuelta>>

\* Variant: the answer is not waited for.
waitSemaphoreSinRecibir ==
  /\ pc = "wait"
  /\ Completar
  /\ UNCHANGED <<script, instructionsExecuted, currentProcessQuantum, currentProgramCounter,
                 canal, alineado, pedidosDma, safaVars, recibido, vacias, direccionSuelta>>

waitSemaphore ==
  /\ Leer("wait")
  /\ IF Head(canal).valor = "WAIT_ERROR"
       THEN tellSchedulerToBlockProcess(instructionsExecuted) ELSE Completar
  /\ UNCHANGED <<pedidosDma, direccionSuelta>>

signalSemaphore ==
  /\ Leer("signal")
  /\ IF Head(canal).valor = "SIGNAL_ERROR"
       THEN handleProcessError(instructionsExecuted) ELSE Completar
  /\ UNCHANGED <<pedidosDma, direccionSuelta>>

\* After a block or an error the instruction is over; after an end, executeProcess.
SigueTras(m) == m \in {"BLOCK_PROCESS", "PROCESS_ERROR"}

RecibirConfirmacion ==
  /\ Leer("confirmacion")
  /\ IF SigueTras(ultimo)
       THEN Completar
       ELSE pc' = "fin" /\ UNCHANGED <<pedidos, pcb, ultimo, enviados>>
  /\ UNCHANGED <<pedidosDma, direccionSuelta>>

Terminar ==
  /\ pc = "bucle" /\ ~Sigue
  /\ EnviarPCB(IF currentProgramCounter >= Len(script) THEN "END_OF_SCRIPT" ELSE "QUANTUM_END",
               instructionsExecuted)
  /\ UNCHANGED <<script, instructionsExecuted, currentProcessQuantum, currentProgramCounter,
                 canal, alineado, pedidosDma, safaVars, recibido, vacias, direccionSuelta>>

\* A send or a receive finds that the S-AFA died, and the CPU exits.
Desconexion ==
  /\ safa # "viva" /\ canal = << >>
  /\ pc \notin {"espera", "fin", "muerta"}
  /\ pc' = "muerta"
  /\ UNCHANGED <<cpuVars, pedidos, canal, alineado, pedidosDma, safaVars, hist>>

-----------------------------------------------------------------------------
(* The S-AFA                                                               *)

\* The server thread receives a whole request and handles it before the next one.
Atender(t) ==
  /\ safa = "viva" /\ alineado
  /\ pedidos # << >> /\ Head(pedidos) = t
  /\ pedidos' = Tail(pedidos)
  /\ UNCHANGED <<pc, cpuVars, pedidosDma, hist>>

Responder(t, valores) ==
  canal' = canal \o [i \in DOMAIN valores |-> [de |-> t, valor |-> valores[i]]]

unblockProcess ==
  IF "bloqueado" \in colas
    THEN colas' = (colas \ {"bloqueado"}) \union {"listo"} /\ UNCHANGED safa
    ELSE safa' = "desbloqueo" /\ UNCHANGED colas

\* checkAndFreeProcessFiles and checkAndFreeProcessSemaphores.  The second looks the
\* names of the semaphores up in fileTable.  A process that waits for the file may not
\* be blocked yet, either.
LiberarRecursos ==
  \/ /\ claveVieja \/ semaforo \/ archivo = "mio"
     /\ safa' = "recursos"
     /\ UNCHANGED archivo
  \/ /\ ~claveVieja /\ ~semaforo
     /\ archivo' = IF archivo = "mio" THEN "libre" ELSE archivo
     /\ UNCHANGED safa

completedInstruction ==
  /\ Atender("COMPLETED_INSTRUCTION")
  /\ UNCHANGED <<canal, alineado, safaVars>>

checkIfFileOpen ==
  /\ Atender("CHECK_IF_FILE_OPEN")
  /\ \/ /\ archivo = "ausente"
        /\ Responder("CHECK_IF_FILE_OPEN", <<"FILE_NOT_OPEN">>)
        /\ callada' = FALSE
        /\ UNCHANGED <<archivo, enEspera>>
     \/ /\ archivo = "mio"
        /\ \E d \in Direcciones : Responder("CHECK_IF_FILE_OPEN", <<"FILE_OPEN", d>>)
        /\ callada' = FALSE
        /\ UNCHANGED <<archivo, enEspera>>
     \/ /\ archivo = "libre"
        /\ archivo' = "mio"
        /\ callada' = TRUE
        /\ UNCHANGED <<canal, enEspera>>
     \/ /\ archivo = "ajeno"
        /\ Responder("CHECK_IF_FILE_OPEN", <<"FILE_OPENED_BY_ANOTHER_PROCESS">>)
        /\ enEspera' = enEspera + 1
        /\ callada' = FALSE
        /\ UNCHANGED archivo
  /\ UNCHANGED <<alineado, safa, colas, claveVieja, semaforo>>

\* With w other processes in the waiting list; the process itself may be there if it
\* claimed the file later.  The second list_remove is out of range, and before that a
\* process that waits may not be blocked yet.
closeFile ==
  /\ Atender("CLOSE_FILE")
  /\ callada' = FALSE
  /\ \/ /\ archivo = "ausente"
        /\ UNCHANGED <<safa, colas, archivo, enEspera, claveVieja>>
     \/ /\ archivo # "ausente" /\ enEspera = 0
        /\ archivo' = "ausente"
        /\ UNCHANGED <<safa, colas, enEspera, claveVieja>>
     \/ /\ archivo # "ausente"
        /\ enEspera = 0
        /\ archivo' = "ausente" /\ claveVieja' = TRUE
        /\ UNCHANGED <<safa, colas, enEspera>>
     \/ /\ archivo # "ausente"
        /\ safa' = "lista"
        /\ UNCHANGED <<colas, archivo, enEspera, claveVieja>>
     \/ /\ archivo # "ausente" /\ enEspera = 1
        /\ unblockProcess
        /\ archivo' = "ausente" /\ claveVieja' = TRUE /\ enEspera' = 0
  /\ UNCHANGED <<canal, alineado, semaforo>>

\* A semaphore that exists is at 0: waitResource creates it taken, and no signal
\* finds it.  Nobody ever leaves its waiting list.
waitResource ==
  /\ Atender("WAIT_RESOURCE")
  /\ Responder("WAIT_RESOURCE", <<IF semaforo THEN "WAIT_ERROR" ELSE "WAIT_OK">>)
  /\ semaforo' = TRUE
  /\ callada' = FALSE
  /\ UNCHANGED <<alineado, safa, colas, archivo, enEspera, claveVieja>>

\* Variant: the new semaphore is the end of it, with no answer.
signalResourceSinResponder ==
  /\ Atender("SIGNAL_RESOURCE")
  /\ alineado' \in BOOLEAN
  /\ callada' = FALSE
  /\ UNCHANGED <<canal, safa, colas, archivo, enEspera, claveVieja, semaforo>>

\* signalResource does not receive the pid that the CPU sends: it takes the pid for the
\* length of the name, the name is never found, the new semaphore is never put in the
\* list, and the bytes of the request that are left are read as commands.
signalResource ==
  /\ Atender("SIGNAL_RESOURCE")
  /\ Responder("SIGNAL_RESOURCE", <<"SIGNAL_OK">>)
  /\ alineado' \in BOOLEAN
  /\ callada' = FALSE
  /\ UNCHANGED <<safa, colas, archivo, enEspera, claveVieja, semaforo>>

\* Out of step, the S-AFA logs unknown commands, until a short read puts it in step.
Malentender ==
  /\ safa = "viva" /\ ~alineado /\ pedidos # << >>
  /\ pedidos' = Tail(pedidos)
  /\ alineado' \in BOOLEAN
  /\ callada' = TRUE
  /\ UNCHANGED <<pc, cpuVars, pedidosDma, hist, canal, safa, colas, archivo, enEspera,
                 claveVieja, semaforo>>

\* The confirmation goes out before the S-AFA looks for the process.
Confirmar(t) ==
  /\ Atender(t)
  /\ Responder(t, <<"MESSAGE_RECEIVED">>)
  /\ callada' = FALSE
  /\ UNCHANGED <<alineado, enEspera, claveVieja, semaforo>>

SinProceso == safa' = "sin proceso" /\ UNCHANGED <<colas, archivo>>

\* Variant: the process is brought up to date and left where it is.
_blockProcessSinMover ==
  /\ Confirmar("BLOCK_PROCESS")
  /\ UNCHANGED <<safa, colas, archivo>>

_blockProcess ==
  /\ Confirmar("BLOCK_PROCESS")
  /\ IF "ejecucion" \in colas
       THEN /\ colas' = (colas \ {"ejecucion"}) \union {"bloqueado"}
            /\ UNCHANGED <<safa, archivo>>
       ELSE SinProceso

\* killProcess tests a pointer it never set.  If it is NULL, it takes the process out of
\* the queue it is in (one, until its QUANTUM_END); if updatePCBInExecutionQueue left that
\* of the process there, it stays in its queue too; any other is the end of the S-AFA.
_killProcess ==
  /\ Confirmar("PROCESS_ERROR")
  /\ \/ safa' = "puntero" /\ UNCHANGED <<colas, archivo>>
     \/ /\ \E sale \in {{}} \union {{c} : c \in colas} : colas' = (colas \ sale) \union {"terminado"}
        /\ LiberarRecursos

\* updatePCBInExecutionQueue leaves the process in executionQueue.
processQuantumEnd ==
  /\ Confirmar("QUANTUM_END")
  /\ colas' = colas \union {"listo"}
  /\ UNCHANGED <<safa, archivo>>

terminateProcess ==
  /\ Confirmar("END_OF_SCRIPT")
  /\ IF "ejecucion" \in colas
       THEN /\ colas' = (colas \ {"ejecucion"}) \union {"terminado"}
            /\ LiberarRecursos
       ELSE SinProceso

\* UNLOCK_PROCESS from the DMA: saveFileDataToFileTable, of this file or of another,
\* and unblockProcess.
unlockProcess ==
  /\ safa = "viva" /\ pedidosDma > 0
  /\ pedidosDma' = pedidosDma - 1
  /\ \/ UNCHANGED archivo
     \/ archivo = "ausente" /\ archivo' = "mio"
  /\ unblockProcess
  /\ UNCHANGED <<pc, cpuVars, pedidos, canal, alineado, enEspera, claveVieja, semaforo, callada,
                 hist>>

-----------------------------------------------------------------------------
(* What the S-AFA does for other CPUs meanwhile                            *)

Ajeno ==
  /\ safa = "viva"
  /\ UNCHANGED <<pc, cpuVars, pedidos, canal, alineado, pedidosDma, callada, hist>>

\* Another process opens the file, or claims it free.
OtroAbre ==
  /\ Ajeno
  /\ archivo \in {"ausente", "libre"}
  /\ archivo' = "ajeno"
  /\ UNCHANGED <<safa, colas, enEspera, claveVieja, semaforo>>

\* Another process closes it, with this one or some other waiting.
OtroCierra ==
  /\ Ajeno
  /\ archivo = "ajeno"
  /\ \/ /\ enEspera = 0
        /\ archivo' = "ausente"
        /\ claveVieja' \in {claveVieja, TRUE}
        /\ UNCHANGED <<safa, colas, enEspera>>
     \/ /\ enEspera = 1
        /\ unblockProcess
        /\ archivo' = "ausente" /\ claveVieja' = TRUE /\ enEspera' = 0
     \/ /\ safa' = "lista"
        /\ UNCHANGED <<colas, archivo, enEspera, claveVieja>>
  /\ UNCHANGED semaforo

\* The process that has it ends; the first that waits is unblocked.
OtroTermina ==
  /\ Ajeno
  /\ archivo = "ajeno" /\ ~claveVieja /\ ~semaforo
  /\ archivo' = "libre"
  /\ \/ UNCHANGED <<safa, colas, enEspera>>
     \/ enEspera > 0 /\ enEspera' = enEspera - 1 /\ unblockProcess
  /\ UNCHANGED <<claveVieja, semaforo>>

\* Another process waits on the semaphore.
OtroEspera ==
  /\ Ajeno
  /\ semaforo' = TRUE
  /\ UNCHANGED <<safa, colas, archivo, enEspera, claveVieja>>

-----------------------------------------------------------------------------
(* Specification                                                           *)

Init ==
  /\ pc = "espera" /\ script = << >>
  /\ pcb = [programCounter |-> 0, remainingQuantum |-> 0, totalInstructionsExecuted |-> 0]
  /\ instructionsExecuted = 0 /\ currentProcessQuantum = 0 /\ currentProgramCounter = 0
  /\ ultimo = "EXECUTE_PROCESS"
  /\ pedidos = << >> /\ canal = << >> /\ alineado = TRUE /\ pedidosDma = 0
  /\ safa = "viva" /\ colas = {"ejecucion"}
  /\ archivo \in {"ausente", "mio", "ajeno", "libre"} /\ enEspera = 0
  /\ claveVieja = FALSE /\ semaforo = FALSE
  /\ recibido = pcb /\ vacias = 0 /\ enviados = 0
  /\ direccionSuelta = FALSE /\ callada = FALSE

Cpu ==
  \/ Comenzar \/ LineaVacia \/ Instruccion \/ RecibirArchivo \/ RecibirMemoria
  \/ waitSemaphore \/ signalSemaphore \/ RecibirConfirmacion \/ Terminar \/ Desconexion

Safa ==
  \/ completedInstruction \/ checkIfFileOpen \/ closeFile \/ waitResource \/ signalResource
  \/ Malentender \/ _blockProcess \/ _killProcess \/ processQuantumEnd \/ terminateProcess

Otros == unlockProcess \/ OtroAbre \/ OtroCierra \/ OtroTermina \/ OtroEspera

Next == Cpu \/ Safa \/ Otros

\* The main thread of the CPU and the server thread of the S-AFA go on when they can;
\* nothing is asked of the DMA and of other CPUs.
Spec == Init /\ [][Next]_vars /\ WF_vars(Cpu) /\ WF_vars(Safa)

-----------------------------------------------------------------------------
(* Properties                                                              *)

Contadores == 0 .. Modulo - 1
PCBs == [programCounter : Contadores, remainingQuantum : Contadores,
         totalInstructionsExecuted : Contadores]

Receives == {"archivo", "memoria", "wait", "signal", "confirmacion"}

TypeOK ==
  /\ pc \in Receives \union {"espera", "bucle", "fin", "muerta"}
  /\ script \in {removeCommentsFromScript(g) : g \in Guiones} \union {<< >>}
  /\ pcb \in PCBs /\ recibido \in PCBs
  /\ {instructionsExecuted, currentProcessQuantum} \subseteq Contadores
  /\ currentProgramCounter \in 0 .. Len(script)
  /\ ultimo \in ConPCB \union {"EXECUTE_PROCESS"}
  /\ pedidos \in Seq(Tareas)
  /\ canal \in Seq([de : Tareas, valor : Valores])
  /\ {alineado, claveVieja, semaforo, direccionSuelta, callada} \subseteq BOOLEAN
  /\ {pedidosDma, enEspera, vacias, enviados} \subseteq 0 .. Len(script) + 1
  /\ safa \in {"viva", "desbloqueo", "recursos", "lista", "sin proceso", "puntero"}
  /\ colas \subseteq {"ejecucion", "bloqueado", "listo", "terminado"}
  /\ archivo \in {"ausente", "mio", "ajeno", "libre"}

\* The first PCB an execution sends back has the quantum the CPU has left, and as
\* programCounter "the number of line of the last instruction that was executed"
\* (CpuFunctions.c:289) only if there was no empty line: each was counted twice, and the
\* PCB is ahead of the script and of what was executed.
PcbExactoSinVacias ==
  pc = "confirmacion" /\ enviados = 1 =>
    /\ pcb.remainingQuantum = currentProcessQuantum
    /\ pcb.programCounter = currentProgramCounter <=> vacias = 0
    /\ pcb.totalInstructionsExecuted - recibido.totalInstructionsExecuted
         = currentProgramCounter - recibido.programCounter <=> vacias = 0

\* A process goes through no more lines than its quantum, unless an empty line was
\* charged twice with one left, and the unsigned counter wrapped round.
QuantumRespetado ==
  \/ currentProgramCounter - recibido.programCounter <= recibido.remainingQuantum
  \/ currentProcessQuantum > recibido.remainingQuantum /\ vacias > 0

\* Until an instruction leaves an address unread, each receive that asked the S-AFA gets
\* the answer to that request: the receives pair up across the two programs.  The one in
\* handleModifyFile and handleCloseFile, to "wait for the memory to confirm"
\* (CpuFunctions.c:1174, :1282), never gets a confirmation: what it takes is the address
\* that the S-AFA sent with FILE_OPEN.
RespuestaPropia ==
  ~direccionSuelta /\ canal # << >> =>
    LET de == Head(canal).de IN
      /\ pc = "archivo"      => de = "CHECK_IF_FILE_OPEN"
      /\ pc = "wait"         => de = "WAIT_RESOURCE"
      /\ pc = "signal"       => de = "SIGNAL_RESOURCE"
      /\ pc = "confirmacion" => de = ultimo
      /\ pc = "memoria"      => de = "CHECK_IF_FILE_OPEN" /\ Head(canal).valor \in Direcciones

\* A CPU waits for an answer nobody will send only if the S-AFA stayed silent (a free file
\* was claimed, or a request read out of step), or an address was taken for a FILE_OPEN.
EsperaSinFin ==
  pc \in Receives /\ canal = << >> /\ pedidos = << >> /\ safa = "viva"

EsperaJustificada == EsperaSinFin => callada \/ (pc = "memoria" /\ direccionSuelta)

\* What kills the S-AFA.  It looks for the process in vain only because the CPU went on
\* after it had given the process back: the first message of an execution always finds it.
\* And while the dialogue is in step, a process that was blocked and is quiet can be
\* unblocked: unblocking kills the S-AFA only while BLOCK_PROCESS is on its way or about
\* to be sent, when the process is in the file's waiting list although the CPU gave it
\* back for something else, or when it had been killed before.
MuertesDeSafa ==
  /\ safa = "sin proceso" => enviados > 1
  /\ safa = "desbloqueo" /\ ~direccionSuelta /\ ~callada =>
       \/ "BLOCK_PROCESS" \in {pedidos[i] : i \in DOMAIN pedidos}
       \/ pc = "archivo"
       \/ ultimo # "BLOCK_PROCESS"
       \/ "terminado" \in colas

\* An execution ends, or its CPU dies, or waits for ever.
EjecucionTermina == pc = "bucle" ~> pc \in {"fin", "muerta"} \/ EsperaSinFin

\* "El proceso %d finalizo su ejecucion": once a process was given back, blocked or in
\* error, the CPU executes no more of its lines.
BloqueoTermina ==
  [][currentProgramCounter' # currentProgramCounter => enviados = 0]_vars
=============================================================================
