---------------------------- MODULE CpuSafaProofs ---------------------------
(* The inductive invariant of CpuSafa and the proof of its safety properties. *)
EXTENDS CpuSafa, FiniteSetTheorems, SequenceTheorems, TLAPS

\* The request whose answer the CPU waits for.
Esperado ==
  CASE pc \in {"archivo", "memoria"} -> "CHECK_IF_FILE_OPEN"
    [] pc = "wait" -> "WAIT_RESOURCE"
    [] pc = "signal" -> "SIGNAL_RESOURCE"
    [] pc = "confirmacion" -> ultimo
    [] OTHER -> "nada"

\* The receives that wait for the answer to the request just sent.
Pregunta == pc \in {"archivo", "wait", "signal", "confirmacion"}

\* The requests that get no answer.
Sueltos == {"COMPLETED_INSTRUCTION", "CLOSE_FILE"}

Pendientes(s, T) == {i \in DOMAIN s : s[i] \in T}

-----------------------------------------------------------------------------
(* The parts of the invariant                                              *)

\* Where the three counters are, after n lines of which vacias were empty.
Lineas == currentProgramCounter - recibido.programCounter

Avance ==
  /\ 0 <= vacias /\ vacias <= Lineas
  /\ recibido.programCounter + Lineas = currentProgramCounter
  /\ instructionsExecuted = Lineas + vacias
  /\ currentProcessQuantum =
       recibido.remainingQuantum - Lineas - vacias
         + (IF Lineas + vacias <= recibido.remainingQuantum THEN 0 ELSE Modulo)
  /\ vacias = 0 => Lineas <= recibido.remainingQuantum
  /\ enviados = 0 => pcb = recibido

\* What the first PCB of an execution carries back: an empty line counts twice in it.
DobleCuenta ==
  /\ recibido.totalInstructionsExecuted = recibido.programCounter
  /\ pc = "confirmacion" /\ enviados = 1 =>
       /\ pcb.remainingQuantum = currentProcessQuantum
       /\ pcb.programCounter = Mas(currentProgramCounter, vacias)
       /\ pcb.totalInstructionsExecuted
            = Mas(recibido.totalInstructionsExecuted,
                  currentProgramCounter - recibido.programCounter + vacias)

Cotas ==
  /\ pedidosDma <= enviados
  /\ enviados <= currentProgramCounter + 1
  /\ pc \in {"archivo", "memoria", "wait", "signal"} => enviados + 1 <= currentProgramCounter
  /\ pc = "bucle" => enviados <= currentProgramCounter
  /\ pc = "confirmacion" => ultimo \in ConPCB
  /\ pc = "confirmacion" /\ SigueTras(ultimo) => enviados <= currentProgramCounter
  /\ enEspera + Cardinality(Pendientes(pedidos, {"CHECK_IF_FILE_OPEN"})) <= currentProgramCounter

\* What the connection holds while every FILE_OPEN was read with its address.
OrdenPedidos ==
  \A i \in DOMAIN pedidos :
    \/ pedidos[i] \in Sueltos
    \/ i = Len(pedidos) /\ pedidos[i] = Esperado /\ canal = << >>

OrdenCanal ==
  /\ \A i \in DOMAIN canal : canal[i].de = Esperado
  /\ pc \in {"espera", "bucle", "fin"} => canal = << >>
  /\ pc = "memoria" => Len(canal) = 1 /\ canal[1].valor \in Direcciones
  /\ pc \in {"wait", "signal", "confirmacion"} => Len(canal) <= 1
  /\ pc = "archivo" /\ canal # << >> =>
       \/ canal[1].valor = "FILE_OPEN" /\ Len(canal) = 2 /\ canal[2].valor \in Direcciones
       \/ canal[1].valor \in {"FILE_NOT_OPEN", "FILE_OPENED_BY_ANOTHER_PROCESS"} /\ Len(canal) = 1

EnOrden == ~direccionSuelta /\ pc # "muerta" => OrdenPedidos /\ OrdenCanal

Ultima == Pregunta /\ pedidos # << >> => pedidos[Len(pedidos)] = Esperado

Atascada == Pregunta /\ canal = << >> /\ pedidos = << >>

Callo == Atascada /\ safa = "viva" => callada

Dormida ==
  pc = "espera" \/ (pc = "muerta" /\ safa = "viva") =>
    /\ pedidos = << >> /\ canal = << >> /\ enviados = 0 /\ enEspera = 0
    /\ instructionsExecuted = 0 /\ vacias = 0

\* Messages with a PCB that the S-AFA has not handled.
Devueltos == Pendientes(pedidos, ConPCB)

EnEjecucion ==
  /\ enviados = 0 => Devueltos = {}
  /\ enviados <= 1 => \A i, j \in Devueltos : i = j
  /\ safa = "viva" /\ (enviados = 0 \/ (enviados = 1 /\ Devueltos # {})) =>
       colas = {"ejecucion"}
  /\ safa = "sin proceso" => enviados > 1

Rechazada ==
  pc = "archivo" /\ canal # << >> /\ canal[1].valor = "FILE_OPENED_BY_ANOTHER_PROCESS"

PorAtender == pc = "confirmacion" /\ pedidos # << >>

Deudas == pedidosDma + enEspera

EnDialogo == safa = "viva" /\ ~direccionSuelta /\ ~Atascada /\ "terminado" \notin colas

Desbloqueos ==
  /\ EnDialogo /\ enviados = 0 => enEspera <= (IF Rechazada THEN 1 ELSE 0)
  /\ EnDialogo /\ enviados = 1 /\ ultimo = "BLOCK_PROCESS" /\ ~Rechazada =>
       Deudas <= 1 /\ (~PorAtender /\ Deudas = 1 => "bloqueado" \in colas)
  /\ EnDialogo /\ enviados >= 2 /\ ultimo = "BLOCK_PROCESS" => PorAtender
  /\ EnDialogo /\ (enviados >= 2 \/ (enviados = 1 /\ ~PorAtender /\ SigueTras(ultimo))) =>
       "ejecucion" \notin colas
  /\ pc \in {"bucle", "archivo", "memoria", "wait", "signal"} /\ enviados >= 1 => SigueTras(ultimo)
  /\ enviados = 0 <=> ultimo = "EXECUTE_PROCESS"
  /\ safa = "desbloqueo" /\ ~direccionSuelta /\ ~callada =>
       \/ "BLOCK_PROCESS" \in {pedidos[i] : i \in DOMAIN pedidos}
       \/ Rechazada
       \/ ultimo # "BLOCK_PROCESS"
       \/ "terminado" \in colas

IInv ==
  /\ TypeOK /\ DobleCuenta
  /\ Avance /\ Cotas /\ EnOrden /\ Ultima /\ Callo /\ Dormida /\ EnEjecucion /\ Desbloqueos

-----------------------------------------------------------------------------
(* Counters modulo 2^32, and requests pending by kind                      *)

\* A sum or difference of counters is a counter, and what it is when it does not wrap round
\* or wraps round once.
LEMMA Vuelta ==
  ASSUME NEW x \in Int
  PROVE  /\ x % Modulo \in Contadores
         /\ 0 <= x /\ x < Modulo => x % Modulo = x
         /\ 0 - Modulo <= x /\ x < 0 => x % Modulo = x + Modulo
<1>1. Modulo \in Nat /\ Modulo > 0
  BY ConstantesOK
<1> QED
  BY <1>1, SMT DEF Contadores

\* A request that is sent is pending if it is of the kind, and changes nothing else.
LEMMA PendientesAppend ==
  ASSUME NEW s \in Seq(Tareas), NEW t \in Tareas, NEW T
  PROVE  /\ Pendientes(Append(s, t), T)
               = Pendientes(s, T) \union (IF t \in T THEN {Len(s) + 1} ELSE {})
         /\ IsFiniteSet(Pendientes(s, T)) /\ Cardinality(Pendientes(s, T)) \in Nat
         /\ Cardinality(Pendientes(Append(s, t), T))
               = Cardinality(Pendientes(s, T)) + (IF t \in T THEN 1 ELSE 0)
<1>1. Pendientes(Append(s, t), T)
        = Pendientes(s, T) \union (IF t \in T THEN {Len(s) + 1} ELSE {})
  <2>1. /\ Len(s) \in Nat /\ DOMAIN s = 1 .. Len(s)
        /\ DOMAIN Append(s, t) = 1 .. Len(s) + 1
        /\ \A i \in 1 .. Len(s) : Append(s, t)[i] = s[i]
        /\ Append(s, t)[Len(s) + 1] = t
    OBVIOUS
  <2> QED
    BY <2>1, SMT DEF Pendientes
<1>2. IsFiniteSet(Pendientes(s, T)) /\ Cardinality(Pendientes(s, T)) \in Nat
  <2>1. Len(s) \in Nat /\ DOMAIN s = 1 .. Len(s)
    OBVIOUS
  <2>2. IsFiniteSet(1 .. Len(s))
    BY <2>1, FS_Interval
  <2>3. Pendientes(s, T) \subseteq 1 .. Len(s)
    BY <2>1 DEF Pendientes
  <2> QED
    BY <2>2, <2>3, FS_Subset, FS_CardinalityType
<1>3. Len(s) + 1 \notin Pendientes(s, T)
  BY DEF Pendientes
<1>4. CASE t \in T
  BY <1>1, <1>2, <1>3, <1>4, FS_AddElement
<1>5. CASE t \notin T
  <2>1. Pendientes(Append(s, t), T) = Pendientes(s, T)
    BY <1>1, <1>5
  <2> QED
    BY <1>1, <1>2, <1>5, <2>1
<1> QED
  BY <1>4, <1>5

\* A request that is handled is no longer pending, and the others still are.
LEMMA PendientesTail ==
  ASSUME NEW s \in Seq(Tareas), s # << >>, NEW T
  PROVE  /\ \A i : i \in Pendientes(Tail(s), T) <=> i \in Nat \ {0} /\ i + 1 \in Pendientes(s, T)
         /\ Cardinality(Pendientes(s, T)) \in Nat
         /\ Cardinality(Pendientes(Tail(s), T))
               = Cardinality(Pendientes(s, T)) - (IF Head(s) \in T THEN 1 ELSE 0)
<1>1. /\ Len(s) \in Nat \ {0} /\ DOMAIN s = 1 .. Len(s)
      /\ DOMAIN Tail(s) = 1 .. Len(s) - 1
      /\ \A i \in 1 .. Len(s) - 1 : Tail(s)[i] = s[i + 1]
      /\ Head(s) = s[1]
  OBVIOUS
<1>2. \A i : i \in Pendientes(Tail(s), T) <=> i \in Nat \ {0} /\ i + 1 \in Pendientes(s, T)
  BY <1>1, SMT DEF Pendientes
<1>3. IsFiniteSet(Pendientes(s, T)) /\ Cardinality(Pendientes(s, T)) \in Nat
  <2>2. IsFiniteSet(1 .. Len(s))
    BY <1>1, FS_Interval
  <2>3. Pendientes(s, T) \subseteq 1 .. Len(s)
    BY <1>1 DEF Pendientes
  <2> QED
    BY <2>2, <2>3, FS_Subset, FS_CardinalityType
<1>4. Cardinality(Pendientes(Tail(s), T)) = Cardinality(Pendientes(s, T) \ {1})
  <2> DEFINE A == Pendientes(s, T) \ {1}
             B == Pendientes(Tail(s), T)
             f == [i \in A |-> i - 1]
  <2>1. \A i \in A : i \in Nat /\ i > 1
    BY <1>1, SMT DEF Pendientes
  <2>2. \A i \in A : f[i] \in B
    BY <2>1, <1>2, SMT
  <2>3. \A i, j \in A : f[i] = f[j] => i = j
    BY <2>1, SMT
  <2>4. \A k \in B : k + 1 \in A /\ f[k + 1] = k
    BY <1>2, SMT
  <2>5. f \in Bijection(A, B)
    <3>1. f \in [A -> B]
      BY <2>2
    <3>2. \A k \in B : \E i \in A : f[i] = k
      BY <2>4
    <3> HIDE DEF f, A, B
    <3> QED
      BY <3>1, <3>2, <2>3 DEF Bijection, Injection, Surjection, IsInjective
  <2>6. IsFiniteSet(A)
    BY <1>3, FS_Subset
  <2>7. ExistsBijection(A, B)
    BY <2>5, Zenon DEF ExistsBijection
  <2> HIDE DEF A, B, f
  <2>8. Cardinality(A) = Cardinality(B)
    BY <2>5, <2>6, <2>7, FS_Bijection
  <2> QED
    BY <2>8 DEF A, B
<1>5. CASE Head(s) \in T
  <2>1. 1 \in Pendientes(s, T)
    BY <1>1, <1>5 DEF Pendientes
  <2>2. Cardinality(Pendientes(s, T) \ {1}) = Cardinality(Pendientes(s, T)) - 1
    BY <2>1, <1>3, FS_RemoveElement
  <2> QED
    BY <1>2, <1>3, <1>4, <1>5, <2>2
<1>6. CASE Head(s) \notin T
  <2>1. Pendientes(s, T) \ {1} = Pendientes(s, T)
    BY <1>1, <1>6 DEF Pendientes
  <2>2. Cardinality(Pendientes(Tail(s), T)) = Cardinality(Pendientes(s, T))
    BY <1>4, <2>1
  <2>3. Cardinality(Pendientes(Tail(s), T))
          = Cardinality(Pendientes(s, T)) - (IF Head(s) \in T THEN 1 ELSE 0)
    BY <1>3, <1>6, <2>2
  <2> QED
    BY <1>2, <1>3, <2>3
<1> QED
  BY <1>5, <1>6

-----------------------------------------------------------------------------
(* What a step of the CPU does                                             *)

\* A request without a PCB, and a message with it.
Sale(t, p) == pedidos' = Append(pedidos, t) /\ pc' = p /\ UNCHANGED <<pcb, ultimo, enviados>>

Devuelve(m) ==
  /\ pedidos' = Append(pedidos, m) /\ pc' = "confirmacion"
  /\ ultimo' = m /\ enviados' = enviados + 1
  /\ pcb' = updateCurrentPCB(instructionsExecuted')

Avanza == pc = "bucle" /\ Sigue /\ Avanzar(1)

Quieto == UNCHANGED <<instructionsExecuted, currentProcessQuantum, currentProgramCounter>>

\* How a step of the loop or of a receive ends.
Desenlace ==
  \/ /\ Sale("COMPLETED_INSTRUCTION", "bucle") /\ pedidosDma' = pedidosDma
     /\ pc = "confirmacion" => SigueTras(ultimo)
  \/ Sale("CHECK_IF_FILE_OPEN", "archivo") /\ Avanza /\ pedidosDma' = pedidosDma
  \/ Sale("WAIT_RESOURCE", "wait") /\ Avanza /\ pedidosDma' = pedidosDma
  \/ Sale("SIGNAL_RESOURCE", "signal") /\ Avanza /\ pedidosDma' = pedidosDma
  \/ /\ \E m \in {"BLOCK_PROCESS", "PROCESS_ERROR"} : Devuelve(m)
     /\ pc # "confirmacion" /\ (pc = "bucle" => Avanza)
     /\ pedidosDma' = pedidosDma \/ pedidosDma' = pedidosDma + 1
  \/ /\ \E m \in {"END_OF_SCRIPT", "QUANTUM_END"} : Devuelve(m)
     /\ pc = "bucle" /\ Quieto /\ pedidosDma' = pedidosDma
  \/ /\ pc = "archivo" /\ canal[1].valor = "FILE_OPEN" /\ pc' = "memoria"
     /\ UNCHANGED <<pcb, ultimo, enviados, pedidos, pedidosDma>>
  \/ /\ pc = "archivo" /\ canal[1].valor = "FILE_OPEN"
     /\ Sale("CLOSE_FILE", "memoria") /\ pedidosDma' = pedidosDma
  \/ /\ pc = "confirmacion" /\ pc' = "fin"
     /\ UNCHANGED <<pcb, ultimo, enviados, pedidos, pedidosDma>>

Turno ==
  /\ UNCHANGED <<script, alineado, safaVars, recibido, vacias>>
  /\ \/ pc = "bucle" /\ UNCHANGED <<canal, direccionSuelta>> /\ (Avanza \/ Quieto)
     \/ pc \in Receives /\ canal # << >> /\ canal' = Tail(canal) /\ Quieto
  /\ direccionSuelta' \in BOOLEAN /\ (direccionSuelta => direccionSuelta')
  /\ pc = "archivo" /\ canal[1].valor = "FILE_OPEN" /\ ~direccionSuelta' => pc' = "memoria"
  /\ Rechazada => pc' = "confirmacion" /\ pedidosDma' = pedidosDma
  /\ Desenlace

\* Every step of the CPU from the loop or a receive, an empty line aside, is one of these.
LEMMA InstruccionEsTurno == TypeOK /\ Instruccion => Turno
<1> SUFFICES ASSUME TypeOK, Instruccion PROVE Turno
  OBVIOUS
<1>1. /\ pc = "bucle" /\ Sigue /\ Avanzar(1) /\ Avanza
      /\ UNCHANGED <<script, canal, alineado, safaVars, recibido, vacias, direccionSuelta>>
  BY DEF Instruccion, Avanza
<1>2. Desenlace
  <2>1. CASE Completar /\ UNCHANGED pedidosDma
    BY <1>1, <2>1 DEF Completar, Sale, Desenlace
  <2>2. CASE Preguntar("CHECK_IF_FILE_OPEN", "archivo") /\ UNCHANGED pedidosDma
    BY <1>1, <2>2 DEF Preguntar, Sale, Desenlace
  <2>3. CASE Preguntar("WAIT_RESOURCE", "wait") /\ UNCHANGED pedidosDma
    BY <1>1, <2>3 DEF Preguntar, Sale, Desenlace
  <2>4. CASE Preguntar("SIGNAL_RESOURCE", "signal") /\ UNCHANGED pedidosDma
    BY <1>1, <2>4 DEF Preguntar, Sale, Desenlace
  <2>5. CASE PedirAlDma(instructionsExecuted')
    BY <1>1, <2>5 DEF PedirAlDma, tellSchedulerToBlockProcess, EnviarPCB, Devuelve, Desenlace
  <2> QED
    BY <2>1, <2>2, <2>3, <2>4, <2>5 DEF Instruccion
<1> QED
  BY <1>1, <1>2 DEF Turno, Rechazada, TypeOK

LEMMA TerminarEsTurno == TypeOK /\ Terminar => Turno
<1> SUFFICES ASSUME TypeOK, Terminar PROVE Turno
  OBVIOUS
<1>1. /\ pc = "bucle" /\ Quieto
      /\ UNCHANGED <<script, canal, alineado, pedidosDma, safaVars, recibido, vacias,
                     direccionSuelta>>
  BY DEF Terminar, Quieto
<1>2. \E m \in {"END_OF_SCRIPT", "QUANTUM_END"} : Devuelve(m)
  <2>1. instructionsExecuted' = instructionsExecuted
    BY DEF Terminar
  <2>2. \E m \in {"END_OF_SCRIPT", "QUANTUM_END"} : EnviarPCB(m, instructionsExecuted)
    BY DEF Terminar
  <2> QED
    BY <2>1, <2>2 DEF EnviarPCB, Devuelve
<1> QED
  BY <1>1, <1>2 DEF Turno, Desenlace, Rechazada, TypeOK

\* What a receive does whatever it goes on with.
LEMMA LeerHace ==
  ASSUME NEW p \in Receives, Leer(p)
  PROVE  /\ pc \in Receives /\ pc = p /\ canal # << >> /\ canal' = Tail(canal) /\ Quieto
         /\ UNCHANGED <<script, alineado, safaVars, recibido, vacias>>
BY DEF Leer, Quieto

LEMMA RecibirMemoriaEsTurno == TypeOK /\ RecibirMemoria => Turno
<1> SUFFICES ASSUME TypeOK, RecibirMemoria PROVE Turno
  OBVIOUS
<1>1. /\ pc \in Receives /\ pc = "memoria" /\ canal # << >> /\ canal' = Tail(canal) /\ Quieto
      /\ UNCHANGED <<script, alineado, safaVars, recibido, vacias>>
  BY LeerHace DEF RecibirMemoria, Receives
<1>2. UNCHANGED <<pedidosDma, direccionSuelta>>
  BY DEF RecibirMemoria
<1>3. Desenlace
  <2>1. CASE Completar
    BY <1>1, <1>2, <2>1 DEF Completar, Sale, Desenlace
  <2>2. CASE handleProcessError(instructionsExecuted)
    BY <1>1, <1>2, <2>2 DEF handleProcessError, EnviarPCB, Devuelve, Desenlace, Quieto
  <2> QED
    BY <2>1, <2>2 DEF RecibirMemoria
<1> QED
  BY <1>1, <1>2, <1>3 DEF Turno, Rechazada, TypeOK

LEMMA waitSemaphoreEsTurno == TypeOK /\ waitSemaphore => Turno
<1> SUFFICES ASSUME TypeOK, waitSemaphore PROVE Turno
  OBVIOUS
<1>1. /\ pc \in Receives /\ pc = "wait" /\ canal # << >> /\ canal' = Tail(canal) /\ Quieto
      /\ UNCHANGED <<script, alineado, safaVars, recibido, vacias>>
  BY LeerHace DEF waitSemaphore, Receives
<1>2. UNCHANGED <<pedidosDma, direccionSuelta>>
  BY DEF waitSemaphore
<1>3. Desenlace
  <2>1. CASE Completar
    BY <1>1, <1>2, <2>1 DEF Completar, Sale, Desenlace
  <2>2. CASE tellSchedulerToBlockProcess(instructionsExecuted)
    BY <1>1, <1>2, <2>2 DEF tellSchedulerToBlockProcess, EnviarPCB, Devuelve, Desenlace, Quieto
  <2> QED
    BY <2>1, <2>2 DEF waitSemaphore
<1> QED
  BY <1>1, <1>2, <1>3 DEF Turno, Rechazada, TypeOK

LEMMA signalSemaphoreEsTurno == TypeOK /\ signalSemaphore => Turno
<1> SUFFICES ASSUME TypeOK, signalSemaphore PROVE Turno
  OBVIOUS
<1>1. /\ pc \in Receives /\ pc = "signal" /\ canal # << >> /\ canal' = Tail(canal) /\ Quieto
      /\ UNCHANGED <<script, alineado, safaVars, recibido, vacias>>
  BY LeerHace DEF signalSemaphore, Receives
<1>2. UNCHANGED <<pedidosDma, direccionSuelta>>
  BY DEF signalSemaphore
<1>3. Desenlace
  <2>1. CASE Completar
    BY <1>1, <1>2, <2>1 DEF Completar, Sale, Desenlace
  <2>2. CASE handleProcessError(instructionsExecuted)
    BY <1>1, <1>2, <2>2 DEF handleProcessError, EnviarPCB, Devuelve, Desenlace, Quieto
  <2> QED
    BY <2>1, <2>2 DEF signalSemaphore
<1> QED
  BY <1>1, <1>2, <1>3 DEF Turno, Rechazada, TypeOK

LEMMA RecibirConfirmacionEsTurno == TypeOK /\ RecibirConfirmacion => Turno
<1> SUFFICES ASSUME TypeOK, RecibirConfirmacion PROVE Turno
  OBVIOUS
<1>1. /\ pc \in Receives /\ pc = "confirmacion" /\ canal # << >> /\ canal' = Tail(canal)
      /\ Quieto /\ UNCHANGED <<script, alineado, safaVars, recibido, vacias>>
  BY LeerHace DEF RecibirConfirmacion, Receives
<1>2. UNCHANGED <<pedidosDma, direccionSuelta>>
  BY DEF RecibirConfirmacion
<1>3. Desenlace
  <2>1. CASE SigueTras(ultimo)
    BY <1>1, <1>2, <2>1 DEF RecibirConfirmacion, Completar, Sale, Desenlace
  <2>2. CASE ~SigueTras(ultimo)
    BY <1>1, <1>2, <2>2 DEF RecibirConfirmacion, Desenlace
  <2> QED
    BY <2>1, <2>2
<1> QED
  BY <1>1, <1>2, <1>3 DEF Turno, Rechazada, TypeOK

\* How the four instructions on a file go on, whatever the S-AFA answered.
LEMMA RecibirArchivoDesenlaces ==
  ASSUME TypeOK, RecibirArchivo
  PROVE  LET m == canal[1].valor IN
         \/ Completar /\ pedidosDma' = pedidosDma /\ m # "FILE_OPENED_BY_ANOTHER_PROCESS"
              /\ (m = "FILE_OPEN" => direccionSuelta')
         \/ /\ \E e \in {"BLOCK_PROCESS", "PROCESS_ERROR"} : EnviarPCB(e, instructionsExecuted)
            /\ pedidosDma' = pedidosDma /\ m # "FILE_OPEN"
         \/ /\ EnviarPCB("BLOCK_PROCESS", instructionsExecuted)
            /\ pedidosDma' = pedidosDma + 1 /\ m # "FILE_OPENED_BY_ANOTHER_PROCESS"
            /\ (m = "FILE_OPEN" => direccionSuelta')
         \/ m = "FILE_OPEN" /\ handleModifyFile
         \/ m = "FILE_OPEN" /\ handleCloseFile
<1> DEFINE m == canal[1].valor
<1>1. Head(canal).valor = m /\ canal # << >>
  BY DEF RecibirArchivo, Leer
<1>2. /\ \/ Linea = "abrir" /\ openFile(m)
         \/ Linea = "asignar" /\ modifyFileLineInMemory(m)
         \/ Linea = "flush" /\ flushFile(m)
         \/ Linea = "close" /\ closeFileEnCpu(m)
      /\ direccionSuelta' = (direccionSuelta \/ (m = "FILE_OPEN" /\ Linea \in {"abrir", "flush"}))
  BY <1>1 DEF RecibirArchivo
<1> HIDE DEF m
<1>3. CASE Linea = "abrir" /\ openFile(m)
  <2>1. m = "FILE_OPEN" => direccionSuelta'
    BY <1>2, <1>3
  <2> QED
    BY <1>3, <2>1 DEF openFile, Segun, handleFileNotOpen, handleFileOpenedByOtherProcess,
         PedirAlDma, tellSchedulerToBlockProcess, handleProcessError, m
<1>4. CASE Linea = "asignar" /\ modifyFileLineInMemory(m)
  BY <1>4 DEF modifyFileLineInMemory, Segun, handleFileNotOpen, handleFileOpenedByOtherProcess,
       PedirAlDma, tellSchedulerToBlockProcess, handleProcessError, m
<1>5. CASE Linea = "flush" /\ flushFile(m)
  <2>1. m = "FILE_OPEN" => direccionSuelta'
    BY <1>2, <1>5
  <2> QED
    BY <1>5, <2>1 DEF flushFile, Segun, handleFileNotOpen, handleFileOpenedByOtherProcess,
         handleFlushFile, PedirAlDma, tellSchedulerToBlockProcess, handleProcessError, m
<1>6. CASE Linea = "close" /\ closeFileEnCpu(m)
  BY <1>6 DEF closeFileEnCpu, Segun, handleFileNotOpen, handleFileOpenedByOtherProcess,
       PedirAlDma, tellSchedulerToBlockProcess, handleProcessError, m
<1> QED
  BY <1>2, <1>3, <1>4, <1>5, <1>6 DEF m

LEMMA RecibirArchivoEsTurno == TypeOK /\ RecibirArchivo => Turno
<1> SUFFICES ASSUME TypeOK, RecibirArchivo PROVE Turno
  OBVIOUS
<1>1. /\ pc \in Receives /\ pc = "archivo" /\ canal # << >> /\ canal' = Tail(canal) /\ Quieto
      /\ UNCHANGED <<script, alineado, safaVars, recibido, vacias>>
      /\ instructionsExecuted' = instructionsExecuted
  BY LeerHace DEF RecibirArchivo, Receives, Quieto
<1>2. direccionSuelta' \in BOOLEAN /\ (direccionSuelta => direccionSuelta')
  BY DEF RecibirArchivo, TypeOK
<1> DEFINE m == canal[1].valor
<1>3. CASE /\ Completar /\ pedidosDma' = pedidosDma /\ m # "FILE_OPENED_BY_ANOTHER_PROCESS"
           /\ (m = "FILE_OPEN" => direccionSuelta')
  BY <1>1, <1>2, <1>3 DEF Turno, Desenlace, Completar, Sale, Rechazada
<1>4. CASE /\ \E e \in {"BLOCK_PROCESS", "PROCESS_ERROR"} : EnviarPCB(e, instructionsExecuted)
           /\ pedidosDma' = pedidosDma /\ m # "FILE_OPEN"
  BY <1>1, <1>2, <1>4 DEF Turno, Desenlace, EnviarPCB, Devuelve, Rechazada
<1>5. CASE /\ EnviarPCB("BLOCK_PROCESS", instructionsExecuted)
           /\ pedidosDma' = pedidosDma + 1 /\ m # "FILE_OPENED_BY_ANOTHER_PROCESS"
           /\ (m = "FILE_OPEN" => direccionSuelta')
  BY <1>1, <1>2, <1>5 DEF Turno, Desenlace, EnviarPCB, Devuelve, Rechazada
<1>6. CASE m = "FILE_OPEN" /\ handleModifyFile
  BY <1>1, <1>2, <1>6 DEF Turno, Desenlace, handleModifyFile, Rechazada
<1>7. CASE m = "FILE_OPEN" /\ handleCloseFile
  BY <1>1, <1>2, <1>7 DEF Turno, Desenlace, handleCloseFile, Preguntar, Sale, Rechazada
<1> QED
  BY <1>3, <1>4, <1>5, <1>6, <1>7, RecibirArchivoDesenlaces

\* The steps of the CPU.
LEMMA PasosDeLaCpu == TypeOK /\ Cpu => Turno \/ Comenzar \/ LineaVacia \/ Desconexion
BY InstruccionEsTurno, TerminarEsTurno, RecibirArchivoEsTurno, RecibirMemoriaEsTurno,
   waitSemaphoreEsTurno, signalSemaphoreEsTurno, RecibirConfirmacionEsTurno DEF Cpu

-----------------------------------------------------------------------------
(* What a step of the S-AFA does                                           *)

Responde(t, v) == canal' = Append(canal, [de |-> t, valor |-> v])

RespondeDos(t, v, d) ==
  canal' = Append(Append(canal, [de |-> t, valor |-> v]), [de |-> t, valor |-> d])

\* The handler of a message with the PCB.
Recibe(t) ==
  /\ Head(pedidos) = t
  /\ Responde(t, "MESSAGE_RECEIVED") /\ callada' = FALSE /\ enEspera' = enEspera

\* The process is dead, for one of the causes, or goes to the queue.
Mueve(c, q) ==
  /\ colas' = (colas \ {c}) \union {q}
  /\ safa' = "viva" \/ safa' = "recursos"

Atencion ==
  \/ /\ Head(pedidos) = "COMPLETED_INSTRUCTION"
     /\ UNCHANGED <<canal, safa, colas, enEspera, callada>>
  \/ /\ Head(pedidos) = "CLOSE_FILE" /\ UNCHANGED canal /\ callada' = FALSE
     /\ \/ UNCHANGED <<safa, colas, enEspera>>
        \/ safa' = "lista" /\ UNCHANGED <<colas, enEspera>>
        \/ enEspera = 1 /\ enEspera' = 0 /\ unblockProcess
  \/ callada' = TRUE /\ UNCHANGED <<canal, safa, colas, enEspera>>
  \/ /\ Head(pedidos) = "CHECK_IF_FILE_OPEN"
     /\ callada' = FALSE /\ UNCHANGED <<safa, colas>>
     /\ \/ Responde("CHECK_IF_FILE_OPEN", "FILE_NOT_OPEN") /\ enEspera' = enEspera
        \/ /\ \E d \in Direcciones : RespondeDos("CHECK_IF_FILE_OPEN", "FILE_OPEN", d)
           /\ enEspera' = enEspera
        \/ /\ Responde("CHECK_IF_FILE_OPEN", "FILE_OPENED_BY_ANOTHER_PROCESS")
           /\ enEspera' = enEspera + 1
  \/ /\ Head(pedidos) \in {"WAIT_RESOURCE", "SIGNAL_RESOURCE"}
     /\ \E v \in Valores : Responde(Head(pedidos), v)
     /\ callada' = FALSE /\ UNCHANGED <<safa, colas, enEspera>>
  \/ /\ Recibe("BLOCK_PROCESS")
     /\ IF "ejecucion" \in colas THEN Mueve("ejecucion", "bloqueado")
                                 ELSE safa' = "sin proceso" /\ colas' = colas
  \/ /\ Recibe("PROCESS_ERROR")
     /\ \/ safa' = "puntero" /\ colas' = colas
        \/ /\ \E sale \in SUBSET colas : colas' = (colas \ sale) \union {"terminado"}
           /\ safa' = "viva" \/ safa' = "recursos"
  \/ Recibe("QUANTUM_END") /\ colas' = colas \union {"listo"} /\ safa' = safa
  \/ /\ Recibe("END_OF_SCRIPT")
     /\ IF "ejecucion" \in colas THEN Mueve("ejecucion", "terminado")
                                 ELSE safa' = "sin proceso" /\ colas' = colas

Manejo ==
  /\ safa = "viva" /\ pedidos # << >> /\ pedidos' = Tail(pedidos)
  /\ UNCHANGED <<pc, cpuVars, pedidosDma, hist>>
  /\ {alineado', claveVieja', semaforo'} \subseteq BOOLEAN
  /\ archivo' \in {"ausente", "mio", "ajeno", "libre"}
  /\ Atencion

\* An answer of one value, and the one of two, as the CPU finds them in the connection.
LEMMA ResponderUno ==
  ASSUME TypeOK, NEW t, NEW v, Responder(t, <<v>>)
  PROVE  Responde(t, v)
<1> DEFINE r == [i \in DOMAIN <<v>> |-> [de |-> t, valor |-> <<v>>[i]]]
           u == [de |-> t, valor |-> v]
<1>1. DOMAIN <<v>> = 1 .. 1 /\ <<v>>[1] = v
  OBVIOUS
<1>2. r = <<u>>
  BY <1>1
<1>3. canal' = canal \o <<u>>
  BY <1>2 DEF Responder
<1> HIDE DEF u
<1>4. canal \in Seq([de : Tareas, valor : Valores])
  BY DEF TypeOK
<1>5. canal \o <<u>> = Append(canal, u)
  BY <1>4
<1> QED
  BY <1>3, <1>5 DEF Responde, u

LEMMA ResponderDos ==
  ASSUME TypeOK, NEW t, NEW v, NEW d, Responder(t, <<v, d>>)
  PROVE  RespondeDos(t, v, d)
<1> DEFINE r == [i \in DOMAIN <<v, d>> |-> [de |-> t, valor |-> <<v, d>>[i]]]
           u == [de |-> t, valor |-> v]
           w == [de |-> t, valor |-> d]
<1>1. DOMAIN <<v, d>> = 1 .. 2 /\ <<v, d>>[1] = v /\ <<v, d>>[2] = d
  OBVIOUS
<1>2. r = <<u, w>>
  BY <1>1
<1>3. canal' = canal \o <<u, w>>
  BY <1>2 DEF Responder
<1> HIDE DEF u, w
<1>4. canal \in Seq([de : Tareas, valor : Valores])
  BY DEF TypeOK
<1>5. canal \o <<u, w>> = Append(Append(canal, u), w)
  BY <1>4
<1> QED
  BY <1>3, <1>5 DEF RespondeDos, u, w

\* Every request of the CPU is handled by one of these.
LEMMA AtenderHace ==
  ASSUME NEW t, Atender(t)
  PROVE  /\ safa = "viva" /\ pedidos # << >> /\ Head(pedidos) = t /\ pedidos' = Tail(pedidos)
         /\ UNCHANGED <<pc, cpuVars, pedidosDma, hist>>
BY DEF Atender

LEMMA CompletadaEsManejo == TypeOK /\ completedInstruction => Manejo
BY AtenderHace DEF TypeOK, completedInstruction, safaVars, Manejo, Atencion

LEMMA checkIfFileOpenEsManejo == TypeOK /\ checkIfFileOpen => Manejo
<1> SUFFICES ASSUME TypeOK, checkIfFileOpen PROVE Manejo
  OBVIOUS
<1>1. /\ safa = "viva" /\ pedidos # << >> /\ Head(pedidos) = "CHECK_IF_FILE_OPEN"
      /\ pedidos' = Tail(pedidos)
      /\ UNCHANGED <<pc, cpuVars, pedidosDma, hist>>
  BY AtenderHace DEF checkIfFileOpen
<1>2. UNCHANGED <<alineado, safa, colas, claveVieja, semaforo>>
  BY DEF checkIfFileOpen
<1>3. Atencion /\ archivo' \in {"ausente", "mio", "ajeno", "libre"}
  <2>1. CASE /\ archivo = "ausente"
             /\ Responder("CHECK_IF_FILE_OPEN", <<"FILE_NOT_OPEN">>)
             /\ callada' = FALSE
             /\ UNCHANGED <<archivo, enEspera>>
    <3>1. Responde("CHECK_IF_FILE_OPEN", "FILE_NOT_OPEN")
      BY <2>1, ResponderUno
    <3> QED
      BY <1>1, <1>2, <2>1, <3>1 DEF Atencion
  <2>2. CASE /\ archivo = "mio"
             /\ \E d \in Direcciones : Responder("CHECK_IF_FILE_OPEN", <<"FILE_OPEN", d>>)
             /\ callada' = FALSE
             /\ UNCHANGED <<archivo, enEspera>>
    <3>1. \E d \in Direcciones : RespondeDos("CHECK_IF_FILE_OPEN", "FILE_OPEN", d)
      BY <2>2, ResponderDos
    <3> QED
      BY <1>1, <1>2, <2>2, <3>1 DEF Atencion
  <2>3. CASE /\ archivo' = "mio"
             /\ callada' = TRUE
             /\ UNCHANGED <<canal, enEspera>>
    BY <1>2, <2>3 DEF Atencion
  <2>4. CASE /\ archivo = "ajeno"
             /\ Responder("CHECK_IF_FILE_OPEN", <<"FILE_OPENED_BY_ANOTHER_PROCESS">>)
             /\ enEspera' = enEspera + 1
             /\ callada' = FALSE
             /\ UNCHANGED archivo
    <3>1. Responde("CHECK_IF_FILE_OPEN", "FILE_OPENED_BY_ANOTHER_PROCESS")
      BY <2>4, ResponderUno
    <3> QED
      BY <1>1, <1>2, <2>4, <3>1 DEF Atencion
  <2> QED
    BY <2>1, <2>2, <2>3, <2>4 DEF checkIfFileOpen
<1> QED
  BY <1>1, <1>2, <1>3 DEF Manejo, TypeOK

LEMMA closeFileEsManejo == TypeOK /\ closeFile => Manejo
<1> SUFFICES ASSUME TypeOK, closeFile PROVE Manejo
  OBVIOUS
<1>1. /\ safa = "viva" /\ pedidos # << >> /\ Head(pedidos) = "CLOSE_FILE"
      /\ pedidos' = Tail(pedidos)
      /\ UNCHANGED <<pc, cpuVars, pedidosDma, hist>>
  BY AtenderHace DEF closeFile
<1>2. UNCHANGED <<canal, alineado, semaforo>> /\ callada' = FALSE
  BY DEF closeFile
<1>3. /\ archivo' = archivo \/ archivo' = "ausente"
      /\ claveVieja' = claveVieja \/ claveVieja' = TRUE
      /\ \/ UNCHANGED <<safa, colas, enEspera>>
         \/ safa' = "lista" /\ UNCHANGED <<colas, enEspera>>
         \/ enEspera = 1 /\ enEspera' = 0 /\ unblockProcess
  BY DEF closeFile
<1>4. Atencion
  BY <1>1, <1>2, <1>3 DEF Atencion
<1> QED
  BY <1>1, <1>2, <1>3, <1>4 DEF Manejo, TypeOK

LEMMA waitResourceEsManejo == TypeOK /\ waitResource => Manejo
<1> SUFFICES ASSUME TypeOK, waitResource PROVE Manejo
  OBVIOUS
<1>1. /\ safa = "viva" /\ pedidos # << >> /\ Head(pedidos) = "WAIT_RESOURCE"
      /\ pedidos' = Tail(pedidos)
      /\ UNCHANGED <<pc, cpuVars, pedidosDma, hist>>
  BY AtenderHace DEF waitResource
<1>2. /\ UNCHANGED <<alineado, safa, colas, archivo, enEspera, claveVieja>>
      /\ callada' = FALSE /\ semaforo' = TRUE
  BY DEF waitResource
<1>3. \E v \in Valores : Responde("WAIT_RESOURCE", v)
  <2>1. PICK v \in Valores : Responder("WAIT_RESOURCE", <<v>>)
    BY DEF waitResource, Valores, Respuestas
  <2> QED
    BY <2>1, ResponderUno
<1>4. Atencion
  BY <1>1, <1>2, <1>3 DEF Atencion
<1> QED
  BY <1>1, <1>2, <1>4 DEF Manejo, TypeOK

LEMMA signalResourceEsManejo == TypeOK /\ signalResource => Manejo
<1> SUFFICES ASSUME TypeOK, signalResource PROVE Manejo
  OBVIOUS
<1>1. /\ safa = "viva" /\ pedidos # << >> /\ Head(pedidos) = "SIGNAL_RESOURCE"
      /\ pedidos' = Tail(pedidos)
      /\ UNCHANGED <<pc, cpuVars, pedidosDma, hist>>
  BY AtenderHace DEF signalResource
<1>2. /\ UNCHANGED <<semaforo, safa, colas, archivo, enEspera, claveVieja>>
      /\ callada' = FALSE /\ alineado' \in BOOLEAN
  BY DEF signalResource
<1>3. \E v \in Valores : Responde("SIGNAL_RESOURCE", v)
  <2>1. Responder("SIGNAL_RESOURCE", <<"SIGNAL_OK">>) /\ "SIGNAL_OK" \in Valores
    BY DEF signalResource, Valores, Respuestas
  <2> QED
    BY <2>1, ResponderUno
<1>4. Atencion
  BY <1>1, <1>2, <1>3 DEF Atencion
<1> QED
  BY <1>1, <1>2, <1>4 DEF Manejo, TypeOK

LEMMA MalentenderEsManejo == TypeOK /\ Malentender => Manejo
<1> SUFFICES ASSUME TypeOK, Malentender PROVE Manejo
  OBVIOUS
<1>1. Atencion
  BY DEF Malentender, Atencion
<1> QED
  BY <1>1 DEF Malentender, Manejo, TypeOK

\* What every handler of a message with a PCB does.
LEMMA ConfirmarHace ==
  ASSUME TypeOK, NEW t, Confirmar(t)
  PROVE  /\ safa = "viva" /\ pedidos # << >> /\ pedidos' = Tail(pedidos)
         /\ UNCHANGED <<pc, cpuVars, pedidosDma, hist>>
         /\ UNCHANGED <<alineado, claveVieja, semaforo>>
         /\ Recibe(t)
<1>1. Atender(t) /\ Responder(t, <<"MESSAGE_RECEIVED">>)
  BY DEF Confirmar
<1> QED
  BY <1>1, AtenderHace, ResponderUno DEF Confirmar, Recibe

LEMMA LiberarHace ==
  ASSUME TypeOK, safa = "viva", LiberarRecursos
  PROVE  /\ safa' = "viva" \/ safa' = "recursos"
         /\ archivo' \in {"ausente", "mio", "ajeno", "libre"}
BY DEF LiberarRecursos, TypeOK

LEMMA _blockProcessEsManejo == TypeOK /\ _blockProcess => Manejo
<1> SUFFICES ASSUME TypeOK, _blockProcess PROVE Manejo
  OBVIOUS
<1>1. /\ safa = "viva" /\ pedidos # << >> /\ pedidos' = Tail(pedidos)
      /\ UNCHANGED <<pc, cpuVars, pedidosDma, hist>>
      /\ UNCHANGED <<alineado, claveVieja, semaforo>>
      /\ Recibe("BLOCK_PROCESS")
  BY ConfirmarHace DEF _blockProcess
<1>2. archivo' = archivo
  BY DEF _blockProcess, SinProceso
<1>3. Atencion
  BY <1>1 DEF Atencion, _blockProcess, SinProceso, Mueve
<1> QED
  BY <1>1, <1>2, <1>3 DEF Manejo, TypeOK

LEMMA terminateProcessEsManejo == TypeOK /\ terminateProcess => Manejo
<1> SUFFICES ASSUME TypeOK, terminateProcess PROVE Manejo
  OBVIOUS
<1>1. /\ safa = "viva" /\ pedidos # << >> /\ pedidos' = Tail(pedidos)
      /\ UNCHANGED <<pc, cpuVars, pedidosDma, hist>>
      /\ UNCHANGED <<alineado, claveVieja, semaforo>>
      /\ Recibe("END_OF_SCRIPT")
  BY ConfirmarHace DEF terminateProcess
<1>2. CASE "ejecucion" \in colas
  <2>1. colas' = (colas \ {"ejecucion"}) \union {"terminado"} /\ LiberarRecursos
    BY <1>2 DEF terminateProcess
  <2>2. /\ Mueve("ejecucion", "terminado")
        /\ archivo' \in {"ausente", "mio", "ajeno", "libre"}
    BY <1>1, <2>1, LiberarHace DEF Mueve
  <2>3. Atencion
    BY <1>1, <1>2, <2>2 DEF Atencion
  <2> QED
    BY <1>1, <2>2, <2>3 DEF Manejo, TypeOK
<1>3. CASE "ejecucion" \notin colas
  <2>1. safa' = "sin proceso" /\ UNCHANGED <<colas, archivo>>
    BY <1>3 DEF terminateProcess, SinProceso
  <2>2. Atencion
    BY <1>1, <1>3, <2>1 DEF Atencion
  <2> QED
    BY <1>1, <2>1, <2>2 DEF Manejo, TypeOK
<1> QED
  BY <1>2, <1>3

LEMMA processQuantumEndEsManejo == TypeOK /\ processQuantumEnd => Manejo
<1> SUFFICES ASSUME TypeOK, processQuantumEnd PROVE Manejo
  OBVIOUS
<1>1. /\ safa = "viva" /\ pedidos # << >> /\ pedidos' = Tail(pedidos)
      /\ UNCHANGED <<pc, cpuVars, pedidosDma, hist>>
      /\ UNCHANGED <<alineado, claveVieja, semaforo>>
      /\ Recibe("QUANTUM_END")
  BY ConfirmarHace DEF processQuantumEnd
<1>2. colas' = colas \union {"listo"} /\ UNCHANGED <<safa, archivo>>
  BY DEF processQuantumEnd
<1>3. Atencion
  BY <1>1, <1>2 DEF Atencion
<1> QED
  BY <1>1, <1>2, <1>3 DEF Manejo, TypeOK

\* The process is killed wherever it is: from here on it is in the queue of the finished.
LEMMA _killProcessEsManejo == TypeOK /\ _killProcess => Manejo
<1> SUFFICES ASSUME TypeOK, _killProcess PROVE Manejo
  OBVIOUS
<1>1. /\ safa = "viva" /\ pedidos # << >> /\ pedidos' = Tail(pedidos)
      /\ UNCHANGED <<pc, cpuVars, pedidosDma, hist>>
      /\ UNCHANGED <<alineado, claveVieja, semaforo>>
      /\ Recibe("PROCESS_ERROR")
  BY ConfirmarHace DEF _killProcess
<1>2. CASE safa' = "puntero" /\ UNCHANGED <<colas, archivo>>
  <2>1. Atencion
    BY <1>1, <1>2 DEF Atencion
  <2> QED
    BY <1>1, <1>2, <2>1 DEF Manejo, TypeOK
<1>3. ASSUME NEW sale \in {{}} \union {{c} : c \in colas},
             colas' = (colas \ sale) \union {"terminado"}, LiberarRecursos
      PROVE  Manejo
  <2>1. /\ safa' = "viva" \/ safa' = "recursos"
        /\ archivo' \in {"ausente", "mio", "ajeno", "libre"}
    BY <1>1, <1>3, LiberarHace
  <2>2. sale \in SUBSET colas
    BY <1>3
  <2>3. Atencion
    BY <1>1, <1>3, <2>1, <2>2 DEF Atencion
  <2> QED
    BY <1>1, <2>1, <2>3 DEF Manejo, TypeOK
<1> QED
  BY <1>2, <1>3 DEF _killProcess

\* The steps of the S-AFA.
LEMMA PasosDeLaSafa == TypeOK /\ Safa => Manejo
BY CompletadaEsManejo, checkIfFileOpenEsManejo, closeFileEsManejo, waitResourceEsManejo,
   signalResourceEsManejo, MalentenderEsManejo, _blockProcessEsManejo, _killProcessEsManejo,
   processQuantumEndEsManejo, terminateProcessEsManejo DEF Safa

\* The DMA and the other CPUs: all they do to this process is to unblock it.
Aparte ==
  /\ safa = "viva"
  /\ UNCHANGED <<pc, cpuVars, pedidos, canal, alineado, callada, hist>>
  /\ claveVieja' \in BOOLEAN /\ semaforo' \in BOOLEAN
  /\ archivo' \in {"ausente", "mio", "ajeno", "libre"}
  /\ \/ safa' \in {"viva", "lista"} /\ UNCHANGED <<colas, pedidosDma, enEspera>>
     \/ pedidosDma > 0 /\ pedidosDma' = pedidosDma - 1 /\ enEspera' = enEspera /\ unblockProcess
     \/ enEspera > 0 /\ enEspera' = enEspera - 1 /\ pedidosDma' = pedidosDma /\ unblockProcess

LEMMA PasosDeOtros == TypeOK /\ Otros => Aparte
<1> SUFFICES ASSUME TypeOK, Otros PROVE Aparte
  OBVIOUS
<1>1. CASE unlockProcess
  BY <1>1 DEF unlockProcess, Aparte, TypeOK
<1>2. CASE OtroAbre
  BY <1>2 DEF OtroAbre, Ajeno, Aparte, TypeOK
<1>3. CASE OtroCierra
  <2>1. /\ claveVieja' \in BOOLEAN /\ semaforo' \in BOOLEAN
        /\ archivo' \in {"ausente", "mio", "ajeno", "libre"}
        /\ pedidosDma' = pedidosDma
    BY <1>3 DEF OtroCierra, Ajeno, TypeOK
  <2>2. \/ safa' \in {"viva", "lista"} /\ UNCHANGED <<colas, enEspera>>
        \/ enEspera > 0 /\ enEspera' = enEspera - 1 /\ unblockProcess
    <3>1. safa = "viva"
      BY <1>3 DEF OtroCierra, Ajeno
    <3>2. CASE UNCHANGED <<safa, colas, enEspera>>
      BY <3>1, <3>2
    <3>3. CASE enEspera = 1 /\ unblockProcess /\ enEspera' = 0
      BY <3>3
    <3>4. CASE safa' = "lista" /\ UNCHANGED <<colas, archivo, enEspera, claveVieja>>
      BY <3>4
    <3> QED
      BY <1>3, <3>2, <3>3, <3>4 DEF OtroCierra
  <2> QED
    BY <1>3, <2>1, <2>2 DEF OtroCierra, Ajeno, Aparte
<1>4. CASE OtroTermina
  BY <1>4 DEF OtroTermina, Ajeno, Aparte, TypeOK
<1>5. CASE OtroEspera
  BY <1>5 DEF OtroEspera, Ajeno, Aparte, TypeOK
<1> QED
  BY <1>1, <1>2, <1>3, <1>4, <1>5 DEF Otros

-----------------------------------------------------------------------------
(* The counters                                                            *)

\* A script is short enough for the counters, even with every line charged twice.
LEMMA GuionCorto ==
  ASSUME NEW s \in {removeCommentsFromScript(g) : g \in Guiones} \union {<< >>}
  PROVE  s \in Seq(Clases) /\ Len(s) \in Nat /\ 2 * Len(s) < Modulo
<1>1. ASSUME NEW g \in Guiones, s = removeCommentsFromScript(g)
      PROVE  s \in Seq(Clases) /\ Len(s) \in Nat /\ 2 * Len(s) < Modulo
  <2>1. g \in Seq(Clases) /\ Len(g) \in Nat /\ 2 * Len(g) < Modulo /\ Modulo \in Nat
    BY ConstantesOK
  <2>2. CASE g # << >> /\ g[Len(g)] = "comentario"
    <3>1. Len(g) > 0 /\ Len(g) - 1 \in Nat
      BY <2>1, <2>2
    <3> DEFINE k == Len(g) - 1
               h == SubSeq(g, 1, k)
    <3>2. \A i \in 1 .. k : g[i] \in Clases
      BY <2>1, <3>1
    <3>3. k \in Int /\ (IF 1 <= k THEN k - 1 + 1 ELSE 0) = k
      BY <3>1
    <3> HIDE DEF k
    <3>4. h \in Seq(Clases) /\ Len(h) = IF 1 <= k THEN k - 1 + 1 ELSE 0
      BY <3>2, <3>3, SubSeqProperties
    <3>5. s = h
      BY <1>1, <2>2 DEF removeCommentsFromScript, k
    <3> HIDE DEF h
    <3>6. h \in Seq(Clases) /\ Len(h) = k
      BY <3>3, <3>4
    <3> QED
      BY <2>1, <3>1, <3>5, <3>6 DEF k
  <2>3. CASE ~(g # << >> /\ g[Len(g)] = "comentario")
    BY <1>1, <2>1, <2>3 DEF removeCommentsFromScript
  <2> QED
    BY <2>2, <2>3
<1>2. CASE s = << >>
  BY <1>2, ConstantesOK
<1> QED
  BY <1>1, <1>2

LEMMA ContadoresNat == Modulo \in Nat \ {0} /\ Contadores \subseteq Nat
BY ConstantesOK DEF Contadores

\* The types of what the counters are made of, for the steps of arithmetic.
LEMMA TiposContadores ==
  ASSUME TypeOK
  PROVE  /\ script \in Seq(Clases) /\ Len(script) \in Nat /\ 2 * Len(script) < Modulo
         /\ Modulo \in Nat /\ Modulo > 0
         /\ pcb \in PCBs /\ recibido \in PCBs
         /\ recibido.programCounter \in Nat /\ recibido.remainingQuantum \in Nat
         /\ recibido.remainingQuantum < Modulo
         /\ instructionsExecuted \in Nat /\ instructionsExecuted < Modulo
         /\ currentProcessQuantum \in Nat /\ currentProcessQuantum < Modulo
         /\ currentProgramCounter \in Nat /\ currentProgramCounter <= Len(script)
         /\ vacias \in Nat /\ enviados \in Nat /\ pedidosDma \in Nat /\ enEspera \in Nat
<1>1. script \in Seq(Clases) /\ Len(script) \in Nat /\ 2 * Len(script) < Modulo
  BY GuionCorto DEF TypeOK
<1>2. recibido.programCounter \in Contadores /\ recibido.remainingQuantum \in Contadores
  BY DEF TypeOK, PCBs
<1>3. {instructionsExecuted, currentProcessQuantum} \subseteq Contadores
  BY DEF TypeOK
<1>4. /\ currentProgramCounter \in 0 .. Len(script)
      /\ {pedidosDma, enEspera, vacias, enviados} \subseteq 0 .. Len(script) + 1
      /\ pcb \in PCBs /\ recibido \in PCBs
  BY DEF TypeOK
<1> QED
  BY <1>1, <1>2, <1>3, <1>4, ContadoresNat, SMT DEF Contadores

\* A line that is charged, of c instructions: where the counters are after it.
LEMMA UnaLinea ==
  ASSUME TypeOK, Avance, Sigue, NEW c \in {1, 2}, Avanzar(c), vacias' = vacias + (c - 1),
         recibido' = recibido
  PROVE  /\ currentProgramCounter' = currentProgramCounter + 1
         /\ currentProgramCounter' <= Len(script)
         /\ instructionsExecuted' = instructionsExecuted + c
         /\ instructionsExecuted' \in Contadores /\ currentProcessQuantum' \in Contadores
         /\ 0 <= vacias' /\ vacias' <= Lineas'
         /\ recibido'.programCounter + Lineas' = currentProgramCounter'
         /\ instructionsExecuted' = Lineas' + vacias'
         /\ currentProcessQuantum' =
              recibido'.remainingQuantum - Lineas' - vacias'
                + (IF Lineas' + vacias' <= recibido'.remainingQuantum THEN 0 ELSE Modulo)
         /\ vacias' = 0 => Lineas' <= recibido'.remainingQuantum
<1> DEFINE n == Lineas
           v == vacias
           rq == recibido.remainingQuantum
           q == currentProcessQuantum
           cpc == currentProgramCounter
           e == instructionsExecuted
<1>1. /\ Len(script) \in Nat /\ 2 * Len(script) < Modulo /\ Modulo \in Nat /\ Modulo > 0
      /\ recibido.programCounter \in Nat /\ rq \in Nat /\ rq < Modulo
      /\ e \in Nat /\ e < Modulo /\ q \in Nat /\ q < Modulo
      /\ cpc \in Nat /\ cpc <= Len(script) /\ v \in Nat
  BY TiposContadores
<1>2. /\ v <= n /\ recibido.programCounter + n = cpc /\ e = n + v
      /\ q = rq - n - v + (IF n + v <= rq THEN 0 ELSE Modulo)
      /\ v = 0 => n <= rq
  BY DEF Avance
<1>3. q # 0 /\ cpc < Len(script)
  BY DEF Sigue
<1>4. n \in Int /\ n >= 0 /\ n <= cpc
  BY <1>1, <1>2, SMTT(30) DEF Lineas
<1>5. /\ currentProgramCounter' = (cpc + 1) % Modulo
      /\ currentProcessQuantum' = (q - c) % Modulo
      /\ instructionsExecuted' = (e + c) % Modulo
  BY DEF Avanzar, Mas, Menos
<1>6. Lineas' = currentProgramCounter' - recibido.programCounter
  BY DEF Lineas
<1> HIDE DEF n, rq, q, cpc, e, v
<1>7. currentProgramCounter' = cpc + 1
  <2>1. 0 <= cpc + 1 /\ cpc + 1 < Modulo
    BY <1>1, <1>3
  <2> QED
    BY <1>1, <1>5, <2>1, Vuelta, SMTT(30)
<1>8. Lineas' = n + 1
  BY <1>1, <1>2, <1>4, <1>6, <1>7
<1>9. /\ instructionsExecuted' = e + c /\ instructionsExecuted' \in Contadores
  <2>1. 0 <= e + c /\ e + c < Modulo
    BY <1>1, <1>2, <1>3, <1>4
  <2> QED
    BY <1>1, <1>5, <2>1, Vuelta
<1>10. currentProcessQuantum' \in Contadores
  <2>1. q - c \in Int
    BY <1>1
  <2> QED
    BY <1>5, <2>1, Vuelta
<1>11. currentProcessQuantum' = rq - (n + 1) - (v + (c - 1))
                                  + (IF n + v + c <= rq THEN 0 ELSE Modulo)
  <2>1. CASE n + v + c <= rq
    <3>1. q = rq - n - v /\ 0 <= q - c /\ q - c < Modulo
      BY <1>1, <1>2, <1>4, <2>1
    <3>2. (q - c) % Modulo = q - c
      BY <1>1, <3>1, Vuelta, SMTT(30)
    <3> QED
      BY <1>1, <1>4, <1>5, <2>1, <3>1, <3>2
  <2>2. CASE ~(n + v + c <= rq) /\ n + v <= rq
    <3>1. q = rq - n - v /\ q - c < 0 /\ 0 - Modulo <= q - c
      BY <1>1, <1>2, <1>3, <1>4, <2>2
    <3>2. (q - c) % Modulo = (q - c) + Modulo
      <4>1. q - c \in Int
        BY <1>1
      <4> QED
        BY <3>1, <4>1, Vuelta
    <3> QED
      BY <1>1, <1>4, <1>5, <2>2, <3>1, <3>2
  <2>3. CASE ~(n + v <= rq)
    <3>1. q = rq - n - v + Modulo /\ 0 <= q - c /\ q - c < Modulo
      BY <1>1, <1>2, <1>3, <1>4, <2>3
    <3>2. (q - c) % Modulo = q - c
      BY <1>1, <3>1, Vuelta, SMTT(30)
    <3> QED
      BY <1>1, <1>4, <1>5, <2>3, <3>1, <3>2
  <2> QED
    BY <2>1, <2>2, <2>3
<1>12. vacias' = v + (c - 1)
  BY DEF v
<1>13. recibido'.remainingQuantum = rq /\ recibido'.programCounter = recibido.programCounter
  BY DEF rq
<1>14. vacias' = 0 => n + 1 <= rq
  BY <1>1, <1>2, <1>3, <1>4, <1>12
<1>15. instructionsExecuted = e /\ currentProgramCounter = cpc
  BY DEF e, cpc
<1>16. currentProcessQuantum' =
         rq - Lineas' - vacias' + (IF Lineas' + vacias' <= rq THEN 0 ELSE Modulo)
  BY <1>1, <1>4, <1>8, <1>11, <1>12
<1>17. 0 <= vacias' /\ vacias' <= Lineas' /\ instructionsExecuted' = Lineas' + vacias'
  BY <1>1, <1>2, <1>4, <1>8, <1>9, <1>12
<1>18. recibido'.programCounter + Lineas' = currentProgramCounter'
  BY <1>1, <1>2, <1>4, <1>7, <1>8, <1>13
<1>19. vacias' = 0 => Lineas' <= rq
  BY <1>8, <1>14
<1> QED
  BY <1>1, <1>3, <1>7, <1>9, <1>10, <1>13, <1>15, <1>16, <1>17, <1>18, <1>19

\* The PCB is brought up to date with counters.
LEMMA PcbAlDia ==
  ASSUME TypeOK, NEW e \in Contadores
  PROVE  updateCurrentPCB(e) \in PCBs
<1>1. /\ pcb.programCounter \in Contadores /\ pcb.remainingQuantum \in Contadores
      /\ pcb.totalInstructionsExecuted \in Contadores
  BY DEF TypeOK, PCBs
<1>2. \A a, b \in Contadores : Mas(a, b) \in Contadores /\ Menos(a, b) \in Contadores
  <2> SUFFICES ASSUME NEW a \in Contadores, NEW b \in Contadores
               PROVE  Mas(a, b) \in Contadores /\ Menos(a, b) \in Contadores
    OBVIOUS
  <2>1. a + b \in Int /\ a - b \in Int
    BY ContadoresNat
  <2> QED
    BY <2>1, Vuelta DEF Mas, Menos
<1> QED
  BY <1>1, <1>2 DEF updateCurrentPCB, PCBs

\* What a step from the loop or a receive does to the counters.
LEMMA TurnoContadores ==
  ASSUME TypeOK, Avance, Turno
  PROVE  /\ currentProgramCounter' \in Nat /\ currentProgramCounter' <= Len(script)
         /\ currentProgramCounter' = currentProgramCounter + (IF Avanza THEN 1 ELSE 0)
         /\ instructionsExecuted' \in Contadores /\ currentProcessQuantum' \in Contadores
         /\ enviados' \in Nat
         /\ Avance'
<1>1. /\ recibido' = recibido /\ vacias' = vacias
      /\ Avanza \/ Quieto
  BY DEF Turno
<1>2. /\ vacias \in Nat /\ enviados \in Nat
      /\ currentProgramCounter \in Nat /\ currentProgramCounter <= Len(script)
  BY TiposContadores
<1>3. enviados' \in Nat /\ (enviados' = 0 => pcb' = pcb /\ enviados = 0)
  <2>1. \/ UNCHANGED <<pcb, enviados>>
        \/ enviados' = enviados + 1
    BY DEF Turno, Desenlace, Sale, Devuelve
  <2> QED
    BY <1>2, <2>1
<1>4. CASE Avanza
  <2>1. Sigue /\ Avanzar(1) /\ vacias' = vacias + (1 - 1)
    BY <1>1, <1>2, <1>4 DEF Avanza
  <2>2. /\ currentProgramCounter' = currentProgramCounter + 1
        /\ currentProgramCounter' <= Len(script)
        /\ instructionsExecuted' \in Contadores /\ currentProcessQuantum' \in Contadores
        /\ 0 <= vacias' /\ vacias' <= Lineas'
        /\ recibido'.programCounter + Lineas' = currentProgramCounter'
        /\ instructionsExecuted' = Lineas' + vacias'
        /\ currentProcessQuantum' =
             recibido'.remainingQuantum - Lineas' - vacias'
               + (IF Lineas' + vacias' <= recibido'.remainingQuantum THEN 0 ELSE Modulo)
        /\ vacias' = 0 => Lineas' <= recibido'.remainingQuantum
    BY <1>1, <2>1, UnaLinea
  <2>3. enviados' = 0 => pcb' = recibido'
    BY <1>1, <1>3 DEF Avance
  <2>4. Avance'
    BY <2>2, <2>3 DEF Avance
  <2> QED
    BY <1>2, <1>3, <1>4, <2>2, <2>4
<1>5. CASE ~Avanza
  <2>1. /\ instructionsExecuted' = instructionsExecuted
        /\ currentProcessQuantum' = currentProcessQuantum
        /\ currentProgramCounter' = currentProgramCounter
    BY <1>1, <1>5 DEF Quieto
  <2>2. Lineas' = Lineas
    BY <1>1, <2>1 DEF Lineas
  <2>3. enviados' = 0 => pcb' = recibido'
    BY <1>1, <1>3 DEF Avance
  <2>4. Avance'
    BY <1>1, <2>1, <2>2, <2>3 DEF Avance
  <2>5. instructionsExecuted \in Contadores /\ currentProcessQuantum \in Contadores
    BY DEF TypeOK
  <2>6. /\ currentProgramCounter' \in Nat /\ currentProgramCounter' <= Len(script)
        /\ currentProgramCounter' = currentProgramCounter + (IF Avanza THEN 1 ELSE 0)
    BY <1>2, <1>5, <2>1
  <2> QED
    BY <1>3, <2>1, <2>4, <2>5, <2>6
<1> QED
  BY <1>4, <1>5

\* The first PCB: what the CPU has counted is what the PCB is brought up to date with.
LEMMA TurnoDobleCuenta ==
  ASSUME TypeOK, DobleCuenta, Avance, Turno
  PROVE  DobleCuenta'
<1> SUFFICES ASSUME pc' = "confirmacion", enviados' = 1
             PROVE  /\ pcb'.remainingQuantum = currentProcessQuantum'
                    /\ pcb'.programCounter = Mas(currentProgramCounter', vacias')
                    /\ pcb'.totalInstructionsExecuted
                         = Mas(recibido'.totalInstructionsExecuted,
                               currentProgramCounter' - recibido'.programCounter + vacias')
  BY DEF DobleCuenta, Turno
<1> DEFINE e == instructionsExecuted'
           rq == recibido.remainingQuantum
           rp == recibido.programCounter
           v == vacias
           n == Lineas'
<1>1. /\ enviados' = enviados + 1 /\ pcb' = updateCurrentPCB(e)
  BY DEF Turno, Desenlace, Sale, Devuelve
<1>2. enviados \in Nat
  BY TiposContadores
<1>3. pcb = recibido
  BY <1>1, <1>2 DEF Avance
<1>4. recibido' = recibido /\ vacias' = vacias
  BY DEF Turno
<1>5. /\ rq \in Nat /\ rp \in Nat /\ rq < Modulo /\ Modulo \in Nat /\ v \in Nat
      /\ Len(script) \in Nat /\ 2 * Len(script) < Modulo
  BY TiposContadores
<1>6. /\ currentProgramCounter' \in Nat /\ currentProgramCounter' <= Len(script)
      /\ v <= n /\ rp + n = currentProgramCounter' /\ e = n + v
      /\ currentProcessQuantum' = rq - n - v + (IF n + v <= rq THEN 0 ELSE Modulo)
  BY <1>4, TurnoContadores DEF Avance
<1>7. n = currentProgramCounter' - rp
  BY <1>4 DEF Lineas
<1>8. pcb' = [programCounter |-> Mas(rp, e), remainingQuantum |-> Menos(rq, e),
              totalInstructionsExecuted |-> Mas(recibido.totalInstructionsExecuted, e)]
  BY <1>1, <1>3 DEF updateCurrentPCB
<1> HIDE DEF e, rq, rp, v, n
<1>9. n \in Nat
  <2>1. n \in Int
    BY <1>5, <1>6, <1>7
  <2> QED
    BY <1>5, <1>6, <2>1
<1>10. Menos(rq, e) = currentProcessQuantum'
  <2>1. CASE n + v <= rq
    <3>1. rq - e \in Int /\ 0 <= rq - e /\ rq - e < Modulo /\ currentProcessQuantum' = rq - e
      BY <1>5, <1>6, <1>9, <2>1
    <3> QED
      BY <3>1, Vuelta DEF Menos
  <2>2. CASE ~(n + v <= rq)
    <3>1. /\ rq - e \in Int /\ 0 - Modulo <= rq - e /\ rq - e < 0
          /\ currentProcessQuantum' = (rq - e) + Modulo
      BY <1>5, <1>6, <1>9, <2>2
    <3> QED
      BY <3>1, Vuelta DEF Menos
  <2> QED
    BY <2>1, <2>2
<1>11. rp + e = currentProgramCounter' + v /\ e = currentProgramCounter' - rp + v
  BY <1>5, <1>6, <1>7, <1>9
<1>12. Mas(rp, e) = Mas(currentProgramCounter', v)
  BY <1>11 DEF Mas
<1> QED
  BY <1>4, <1>8, <1>10, <1>11, <1>12 DEF rp, v

\* What a step from the loop or a receive sends: only a line of the script asks for a file.
LEMMA TurnoPedidos ==
  ASSUME TypeOK, Turno
  PROVE  \/ pedidos' = pedidos
         \/ \E t \in Tareas : pedidos' = Append(pedidos, t) /\ (t = "CHECK_IF_FILE_OPEN" => Avanza)
<1>1. \A m \in {"BLOCK_PROCESS", "PROCESS_ERROR"} \union {"END_OF_SCRIPT", "QUANTUM_END"} :
        Devuelve(m) => \E t \in Tareas : /\ pedidos' = Append(pedidos, t)
                                         /\ (t = "CHECK_IF_FILE_OPEN" => Avanza)
  BY DEF Devuelve, Tareas, ConPCB
<1> QED
  BY <1>1 DEF Turno, Desenlace, Sale, Tareas

\* Requests for a file that are pending.
Consultas(s) == Cardinality(Pendientes(s, {"CHECK_IF_FILE_OPEN"}))

LEMMA TurnoConsultas ==
  ASSUME TypeOK, Turno
  PROVE  /\ pedidos' \in Seq(Tareas)
         /\ Consultas(pedidos) \in Nat /\ Consultas(pedidos') \in Nat
         /\ Consultas(pedidos') <= Consultas(pedidos) + (IF Avanza THEN 1 ELSE 0)
<1>1. pedidos \in Seq(Tareas)
  BY DEF TypeOK
<1>2. "COMPLETED_INSTRUCTION" \in Tareas
  BY DEF Tareas
<1>3. Consultas(pedidos) \in Nat
  BY <1>1, <1>2, PendientesAppend DEF Consultas
<1>4. CASE pedidos' = pedidos
  BY <1>1, <1>3, <1>4
<1>5. ASSUME NEW t \in Tareas, pedidos' = Append(pedidos, t), t = "CHECK_IF_FILE_OPEN" => Avanza
      PROVE  /\ pedidos' \in Seq(Tareas) /\ Consultas(pedidos') \in Nat
             /\ Consultas(pedidos') <= Consultas(pedidos) + (IF Avanza THEN 1 ELSE 0)
  <2>1. Consultas(Append(pedidos, t))
          = Consultas(pedidos) + (IF t \in {"CHECK_IF_FILE_OPEN"} THEN 1 ELSE 0)
    BY <1>1, PendientesAppend DEF Consultas
  <2>2. Consultas(pedidos') = Consultas(pedidos) + (IF t \in {"CHECK_IF_FILE_OPEN"} THEN 1 ELSE 0)
    BY <1>5, <2>1
  <2>3. pedidos' \in Seq(Tareas)
    BY <1>1, <1>5
  <2> QED
    BY <1>3, <1>5, <2>2, <2>3
<1> QED
  BY <1>3, <1>4, <1>5, TurnoPedidos

\* The bounds of the counters of requests and messages.
LEMMA TurnoCotas ==
  ASSUME TypeOK, Avance, Cotas, Turno
  PROVE  Cotas' /\ pedidosDma' \in Nat /\ enEspera' \in Nat
<1>1. /\ currentProgramCounter \in Nat /\ enviados \in Nat /\ pedidosDma \in Nat /\ enEspera \in Nat
  BY TiposContadores
<1>2. /\ currentProgramCounter' \in Nat
      /\ currentProgramCounter' = currentProgramCounter + (IF Avanza THEN 1 ELSE 0)
      /\ enviados' \in Nat
  BY TurnoContadores
<1>3. enEspera' = enEspera
  BY DEF Turno, safaVars
<1>4. /\ pedidosDma <= enviados
      /\ enviados <= currentProgramCounter + 1
      /\ pc \in {"archivo", "memoria", "wait", "signal"} => enviados + 1 <= currentProgramCounter
      /\ pc = "bucle" => enviados <= currentProgramCounter
      /\ pc = "confirmacion" => ultimo \in ConPCB
      /\ pc = "confirmacion" /\ SigueTras(ultimo) => enviados <= currentProgramCounter
      /\ enEspera + Consultas(pedidos) <= currentProgramCounter
  BY DEF Cotas, Consultas
<1>5. enEspera' + Consultas(pedidos') <= currentProgramCounter'
  BY <1>1, <1>2, <1>3, <1>4, TurnoConsultas
<1>6. Avanza => pc = "bucle"
  BY DEF Avanza
<1>7. pc \in Receives \union {"bucle"}
  BY DEF Turno, Avanza
<1> DEFINE Meta ==
             /\ pedidosDma' \in Nat
             /\ pedidosDma' <= enviados'
             /\ enviados' <= currentProgramCounter' + 1
             /\ pc' \in {"archivo", "memoria", "wait", "signal"} =>
                  enviados' + 1 <= currentProgramCounter'
             /\ pc' = "bucle" => enviados' <= currentProgramCounter'
             /\ pc' = "confirmacion" => ultimo' \in ConPCB
             /\ pc' = "confirmacion" /\ SigueTras(ultimo') => enviados' <= currentProgramCounter'
<1>8. Meta
  <2>1. CASE /\ Sale("COMPLETED_INSTRUCTION", "bucle") /\ pedidosDma' = pedidosDma
             /\ pc = "confirmacion" => SigueTras(ultimo)
    BY <1>1, <1>2, <1>4, <1>7, <2>1 DEF Sale, Receives
  <2>2. CASE /\ \/ Sale("CHECK_IF_FILE_OPEN", "archivo")
                \/ Sale("WAIT_RESOURCE", "wait")
                \/ Sale("SIGNAL_RESOURCE", "signal")
             /\ Avanza /\ pedidosDma' = pedidosDma
    <3>1. /\ enviados' = enviados /\ pc' \in {"archivo", "wait", "signal"}
          /\ enviados <= currentProgramCounter
      BY <1>4, <1>6, <2>2 DEF Sale
    <3>2. currentProgramCounter' = currentProgramCounter + 1
      BY <1>2, <2>2
    <3> QED
      BY <1>1, <1>4, <2>2, <3>1, <3>2
  <2>3. CASE /\ \E m \in {"BLOCK_PROCESS", "PROCESS_ERROR"} : Devuelve(m)
             /\ pc # "confirmacion" /\ (pc = "bucle" => Avanza)
             /\ pedidosDma' = pedidosDma \/ pedidosDma' = pedidosDma + 1
    <3>1. /\ enviados' = enviados + 1 /\ pc' = "confirmacion"
          /\ ultimo' \in {"BLOCK_PROCESS", "PROCESS_ERROR"}
      BY <2>3 DEF Devuelve
    <3>2. enviados + 1 <= currentProgramCounter'
      BY <1>1, <1>2, <1>4, <1>7, <2>3 DEF Receives
    <3> QED
      BY <1>1, <1>2, <1>4, <2>3, <3>1, <3>2 DEF ConPCB
  <2>4. CASE /\ \E m \in {"END_OF_SCRIPT", "QUANTUM_END"} : Devuelve(m)
             /\ pc = "bucle" /\ Quieto /\ pedidosDma' = pedidosDma
    <3>1. /\ enviados' = enviados + 1 /\ pc' = "confirmacion"
          /\ ultimo' \in {"END_OF_SCRIPT", "QUANTUM_END"}
      BY <2>4 DEF Devuelve
    <3>2. ~SigueTras(ultimo')
      BY <3>1 DEF SigueTras
    <3> QED
      BY <1>1, <1>2, <1>4, <2>4, <3>1, <3>2 DEF ConPCB
  <2>5. CASE /\ pc = "archivo" /\ pc' = "memoria"
             /\ UNCHANGED <<pcb, ultimo, enviados, pedidosDma>>
    BY <1>1, <1>2, <1>4, <1>6, <2>5
  <2>6. CASE /\ pc = "confirmacion" /\ pc' = "fin"
             /\ UNCHANGED <<pcb, ultimo, enviados, pedidos, pedidosDma>>
    BY <1>1, <1>2, <1>4, <1>6, <2>6
  <2> QED
    BY <2>1, <2>2, <2>3, <2>4, <2>5, <2>6 DEF Turno, Desenlace, Sale
<1> QED
  BY <1>1, <1>3, <1>5, <1>8 DEF Cotas, Consultas

\* Types after a step from the loop or a receive.
LEMMA TurnoTipos ==
  ASSUME TypeOK, Avance, Cotas, Turno
  PROVE  TypeOK'
<1>1. /\ pc' \in Receives \union {"espera", "bucle", "fin", "muerta"}
      /\ ultimo' \in ConPCB \union {"EXECUTE_PROCESS"}
  BY DEF Turno, Desenlace, Sale, Devuelve, TypeOK, Receives, ConPCB
<1>2. /\ script' = script /\ recibido' = recibido /\ vacias' = vacias
      /\ UNCHANGED <<safa, colas, archivo, enEspera, claveVieja, semaforo, callada, alineado>>
      /\ direccionSuelta' \in BOOLEAN
  BY DEF Turno, safaVars
<1>3. /\ currentProgramCounter' \in Nat /\ currentProgramCounter' <= Len(script)
      /\ {instructionsExecuted', currentProcessQuantum'} \subseteq Contadores
      /\ enviados' \in Nat
  BY TurnoContadores
<1>4. pcb' \in PCBs
  <2>1. pcb' = pcb \/ pcb' = updateCurrentPCB(instructionsExecuted')
    BY DEF Turno, Desenlace, Sale, Devuelve
  <2> QED
    BY <1>3, <2>1, PcbAlDia DEF TypeOK
<1>5. canal' \in Seq([de : Tareas, valor : Valores])
  <2>1. canal \in Seq([de : Tareas, valor : Valores])
    BY DEF TypeOK
  <2>2. canal' = canal \/ (canal # << >> /\ canal' = Tail(canal))
    BY DEF Turno
  <2> QED
    BY <2>1, <2>2, HeadTailProperties
<1>6. pedidos' \in Seq(Tareas)
  BY TurnoConsultas
<1>7. Len(script) \in Nat /\ vacias \in Nat
  BY TiposContadores
<1>8. /\ pedidosDma' \in Nat /\ enEspera' \in Nat
      /\ pedidosDma' <= enviados' /\ enviados' <= currentProgramCounter' + 1
  BY TurnoCotas DEF Cotas
<1>9. {pedidosDma', enEspera', vacias', enviados'} \subseteq 0 .. Len(script) + 1
  <2>1. enEspera \in 0 .. Len(script) + 1 /\ vacias \in 0 .. Len(script) + 1
    BY DEF TypeOK
  <2>2. enEspera' \in 0 .. Len(script) + 1 /\ vacias' \in 0 .. Len(script) + 1
    BY <1>2, <2>1
  <2>3. /\ currentProgramCounter' \in Nat /\ currentProgramCounter' <= Len(script)
        /\ enviados' \in Nat
    BY <1>3
  <2>4. \A d, e, c, l \in Nat : d <= e /\ e <= c + 1 /\ c <= l => {d, e} \subseteq 0 .. l + 1
    OBVIOUS
  <2>5. enviados' \in 0 .. Len(script) + 1 /\ pedidosDma' \in 0 .. Len(script) + 1
    BY <2>3, <2>4, <1>7, <1>8
  <2> QED
    BY <2>2, <2>5
<1>10. currentProgramCounter' \in 0 .. Len(script)
  BY <1>3, <1>7
<1>11. {alineado', claveVieja', semaforo', direccionSuelta', callada'} \subseteq BOOLEAN
  BY <1>2 DEF TypeOK
<1>12. /\ script' \in {removeCommentsFromScript(g) : g \in Guiones} \union {<< >>}
       /\ recibido' \in PCBs
       /\ safa' \in {"viva", "desbloqueo", "recursos", "lista", "sin proceso", "puntero"}
       /\ colas' \subseteq {"ejecucion", "bloqueado", "listo", "terminado"}
       /\ archivo' \in {"ausente", "mio", "ajeno", "libre"}
  BY <1>2 DEF TypeOK
<1> QED
  BY <1>1, <1>2, <1>3, <1>4, <1>5, <1>6, <1>9, <1>10, <1>11, <1>12 DEF TypeOK

LEMMA Dentro ==
  ASSUME NEW d \in Nat, NEW l \in Nat, d <= l + 1
  PROVE  d \in 0 .. l + 1
OBVIOUS

-----------------------------------------------------------------------------
(* Types, counters and bounds: preserved together                          *)

Cuentas == TypeOK /\ DobleCuenta /\ Avance /\ Cotas /\ Dormida

LEMMA TurnoCuentas ==
  ASSUME Cuentas, Turno
  PROVE  Cuentas'
<1>1. pc' \in Receives \union {"bucle", "fin"}
  BY DEF Turno, Desenlace, Sale, Devuelve, Receives
<1>2. Dormida'
  BY <1>1 DEF Dormida, Receives
<1> QED
  BY <1>2, TurnoTipos, TurnoDobleCuenta, TurnoContadores, TurnoCotas DEF Cuentas

LEMMA LineaVaciaCuentas ==
  ASSUME Cuentas, LineaVacia
  PROVE  Cuentas'
<1>1. /\ pc = "bucle" /\ Sigue /\ Avanzar(2) /\ vacias' = vacias + (2 - 1)
      /\ UNCHANGED <<pc, script, pcb, ultimo, pedidos, canal, alineado, pedidosDma, safaVars,
                     recibido, enviados, direccionSuelta>>
  BY DEF LineaVacia
<1>2. TypeOK /\ Avance /\ Cotas
  BY DEF Cuentas
<1>3. /\ currentProgramCounter' = currentProgramCounter + 1
      /\ currentProgramCounter' <= Len(script)
      /\ instructionsExecuted' \in Contadores /\ currentProcessQuantum' \in Contadores
      /\ 0 <= vacias' /\ vacias' <= Lineas'
      /\ recibido'.programCounter + Lineas' = currentProgramCounter'
      /\ instructionsExecuted' = Lineas' + vacias'
      /\ currentProcessQuantum' =
           recibido'.remainingQuantum - Lineas' - vacias'
             + (IF Lineas' + vacias' <= recibido'.remainingQuantum THEN 0 ELSE Modulo)
      /\ vacias' = 0 => Lineas' <= recibido'.remainingQuantum
  BY <1>1, <1>2, UnaLinea
<1>4. Avance'
  BY <1>1, <1>2, <1>3 DEF Avance
<1>5. /\ Len(script) \in Nat /\ vacias \in Nat /\ currentProgramCounter \in Nat
      /\ enviados \in Nat /\ pedidosDma \in Nat /\ enEspera \in Nat
      /\ recibido.programCounter \in Nat
  BY <1>2, TiposContadores
<1>6. Consultas(pedidos) \in Nat
  <2>1. pedidos \in Seq(Tareas) /\ "WAIT_RESOURCE" \in Tareas
    BY <1>2 DEF TypeOK, Tareas
  <2> QED
    BY <2>1, PendientesAppend DEF Consultas
<1>7. Cotas'
  <2>1. /\ pedidosDma' <= enviados'
        /\ enviados <= currentProgramCounter
        /\ enEspera + Consultas(pedidos) <= currentProgramCounter
    BY <1>1, <1>2 DEF Cotas, Consultas
  <2>2. enEspera' + Consultas(pedidos') <= currentProgramCounter'
    BY <1>1, <1>3, <1>5, <1>6, <2>1 DEF safaVars
  <2>3. enviados' <= currentProgramCounter' /\ enviados' <= currentProgramCounter' + 1
    BY <1>1, <1>3, <1>5, <2>1
  <2> QED
    BY <1>1, <2>1, <2>2, <2>3 DEF Cotas, Consultas
<1>8. vacias' \in 0 .. Len(script) + 1
  <2>1. vacias' \in Nat /\ vacias' = vacias + 1
    BY <1>1, <1>5
  <2>2. vacias' <= currentProgramCounter'
    <3>1. Lineas' = currentProgramCounter' - recibido'.programCounter
      BY DEF Lineas
    <3>2. recibido' = recibido /\ currentProgramCounter' \in Nat
      BY <1>1, <1>3, <1>5
    <3>3. Lineas' \in Int /\ Lineas' <= currentProgramCounter'
      BY <1>5, <3>1, <3>2
    <3> QED
      BY <1>3, <2>1, <3>2, <3>3
  <2>3. vacias' <= Len(script) + 1
    BY <1>3, <1>5, <2>1, <2>2
  <2> QED
    BY <1>5, <2>1, <2>3, Dentro
<1>9. currentProgramCounter' \in 0 .. Len(script)
  BY <1>3, <1>5
<1>10. TypeOK'
  BY <1>1, <1>2, <1>3, <1>8, <1>9 DEF TypeOK, safaVars
<1>11. DobleCuenta' /\ Dormida'
  BY <1>1 DEF Cuentas, DobleCuenta, Dormida
<1> QED
  BY <1>4, <1>7, <1>10, <1>11 DEF Cuentas

LEMMA ComenzarCuentas ==
  ASSUME Cuentas, Comenzar
  PROVE  Cuentas'
<1>1. TypeOK /\ Avance /\ Cotas /\ Dormida
  BY DEF Cuentas
<1>2. /\ pedidos = << >> /\ canal = << >> /\ enviados = 0 /\ enEspera = 0
      /\ instructionsExecuted = 0 /\ vacias = 0
  BY <1>1 DEF Comenzar, Dormida
<1>3. PICK g \in Guiones : script' = removeCommentsFromScript(g)
  BY DEF Comenzar
<1>4. script' \in Seq(Clases) /\ Len(script') \in Nat /\ 2 * Len(script') < Modulo
  BY <1>3, GuionCorto
<1>5. PICK q \in 1 .. MaxQuantum, c \in 0 .. Len(script') :
        pcb' = [programCounter |-> c, remainingQuantum |-> q, totalInstructionsExecuted |-> c]
  BY DEF Comenzar
<1>6. /\ recibido' = pcb'
      /\ currentProcessQuantum' = q
      /\ currentProgramCounter' = c
      /\ instructionsExecuted' = 0
      /\ UNCHANGED <<ultimo, pedidos, canal, alineado, pedidosDma, safaVars, vacias, enviados,
                     direccionSuelta>>
      /\ pc' \in {"muerta", "bucle"}
  BY <1>5 DEF Comenzar
<1>7. /\ MaxQuantum \in Nat /\ Modulo \in Nat /\ MaxQuantum < Modulo
  BY ConstantesOK
<1>8. q \in Contadores /\ c \in Contadores /\ c \in Nat /\ 0 \in Contadores
  BY <1>4, <1>5, <1>7 DEF Contadores
<1>9. pcb' \in PCBs /\ recibido' \in PCBs
  BY <1>5, <1>6, <1>8 DEF PCBs
<1>10. recibido'.programCounter = c /\ recibido'.remainingQuantum = q
  BY <1>5, <1>6
<1>11. Lineas' = 0
  BY <1>6, <1>8, <1>10 DEF Lineas
<1>12. Avance'
  BY <1>2, <1>5, <1>6, <1>8, <1>10, <1>11, ContadoresNat DEF Avance
<1>13. pedidosDma = 0
  BY <1>1, <1>2, TiposContadores DEF Cotas
<1>14. Consultas(pedidos') = 0
  <2>1. Pendientes(pedidos', {"CHECK_IF_FILE_OPEN"}) = {}
    BY <1>2, <1>6 DEF Pendientes
  <2> QED
    BY <2>1, FS_EmptySet DEF Consultas
<1>15. Cotas'
  BY <1>2, <1>6, <1>8, <1>13, <1>14 DEF Cotas, Consultas, safaVars
<1>16. {pedidosDma', enEspera', vacias', enviados'} \subseteq 0 .. Len(script') + 1
  BY <1>2, <1>4, <1>6, <1>13 DEF safaVars
<1>17. {instructionsExecuted', currentProcessQuantum'} \subseteq Contadores
  BY <1>6, <1>8
<1>18. script' \in {removeCommentsFromScript(h) : h \in Guiones} \union {<< >>}
  BY <1>3
<1>19. currentProgramCounter' \in 0 .. Len(script')
  BY <1>5, <1>6
<1>20. TypeOK'
  BY <1>1, <1>6, <1>9, <1>16, <1>17, <1>18, <1>19 DEF TypeOK, safaVars
<1>21. DobleCuenta'
  BY <1>5, <1>6 DEF DobleCuenta
<1>22. Dormida'
  BY <1>2, <1>6 DEF Dormida, safaVars
<1> QED
  BY <1>12, <1>15, <1>20, <1>21, <1>22 DEF Cuentas

LEMMA DesconexionCuentas ==
  ASSUME Cuentas, Desconexion
  PROVE  Cuentas'
<1>1. /\ pc' = "muerta" /\ safa' = safa /\ safa # "viva"
      /\ UNCHANGED <<cpuVars, pedidos, canal, alineado, pedidosDma, safaVars, hist>>
  BY DEF Desconexion, safaVars
<1>2. TypeOK'
  BY <1>1 DEF Cuentas, TypeOK, cpuVars, safaVars, hist
<1>3. Avance'
  BY <1>1 DEF Cuentas, Avance, Lineas, cpuVars, safaVars, hist
<1>4. Cotas'
  BY <1>1 DEF Cuentas, Cotas, cpuVars, safaVars, hist
<1>5. DobleCuenta' /\ Dormida'
  BY <1>1 DEF Cuentas, DobleCuenta, Dormida, hist
<1> QED
  BY <1>2, <1>3, <1>4, <1>5 DEF Cuentas

\* The S-AFA and the others leave the counters of the CPU alone.
LEMMA AvanceAjeno ==
  ASSUME DobleCuenta, Avance, UNCHANGED <<pc, cpuVars, hist>>
  PROVE  DobleCuenta' /\ Avance'
<1>1. Lineas' = Lineas
  BY DEF Lineas, cpuVars, hist
<1>2. Avance'
  BY <1>1 DEF Avance, cpuVars, hist
<1>3. DobleCuenta'
  BY DEF DobleCuenta, cpuVars, hist
<1> QED
  BY <1>2, <1>3

LEMMA ManejoCuentas ==
  ASSUME Cuentas, Manejo
  PROVE  Cuentas'
<1>1. TypeOK /\ DobleCuenta /\ Avance /\ Cotas /\ Dormida
  BY DEF Cuentas
<1>2. /\ safa = "viva" /\ pedidos # << >> /\ pedidos' = Tail(pedidos)
      /\ UNCHANGED <<pc, cpuVars, pedidosDma, hist>>
  BY DEF Manejo
<1>3. DobleCuenta' /\ Avance'
  BY <1>1, <1>2, AvanceAjeno
<1>4. pc \notin {"espera", "muerta"}
  BY <1>1, <1>2 DEF Dormida
<1>5. Dormida'
  BY <1>2, <1>4 DEF Dormida
<1>6. /\ Consultas(pedidos) \in Nat
      /\ Consultas(pedidos') =
           Consultas(pedidos) - (IF Head(pedidos) = "CHECK_IF_FILE_OPEN" THEN 1 ELSE 0)
  <2>1. pedidos \in Seq(Tareas)
    BY <1>1 DEF TypeOK
  <2>2. Head(pedidos) \in {"CHECK_IF_FILE_OPEN"} <=> Head(pedidos) = "CHECK_IF_FILE_OPEN"
    OBVIOUS
  <2>3. /\ Consultas(pedidos) \in Nat
        /\ Consultas(Tail(pedidos)) =
             Consultas(pedidos) - (IF Head(pedidos) \in {"CHECK_IF_FILE_OPEN"} THEN 1 ELSE 0)
    BY <1>2, <2>1, PendientesTail DEF Consultas
  <2> QED
    BY <1>2, <2>2, <2>3
<1>7. /\ enEspera \in Nat /\ Len(script) \in Nat /\ enEspera \in 0 .. Len(script) + 1
      /\ currentProgramCounter \in Nat /\ currentProgramCounter <= Len(script)
  BY <1>1, TiposContadores DEF TypeOK
<1>8. /\ enEspera' \in Nat
      /\ enEspera' + Consultas(pedidos') <= enEspera + Consultas(pedidos)
  <2>1. \/ enEspera' = enEspera \/ (enEspera = 1 /\ enEspera' = 0)
        \/ (enEspera' = enEspera + 1 /\ Head(pedidos) = "CHECK_IF_FILE_OPEN")
    BY DEF Manejo, Atencion, Recibe
  <2> QED
    BY <1>6, <1>7, <2>1
<1>9. Consultas(pedidos') \in Nat
  <2>1. pedidos' \in Seq(Tareas) /\ "WAIT_RESOURCE" \in Tareas
    BY <1>1, <1>2 DEF TypeOK, Tareas
  <2> QED
    BY <2>1, PendientesAppend DEF Consultas
<1>10. enEspera' + Consultas(pedidos') <= currentProgramCounter
  BY <1>1, <1>6, <1>7, <1>8, <1>9 DEF Cotas, Consultas
<1>11. Cotas'
  BY <1>1, <1>2, <1>10 DEF Cotas, Consultas, cpuVars, hist
<1>12. enEspera' \in 0 .. Len(script) + 1
  <2>1. enEspera' <= Len(script) + 1
    BY <1>7, <1>8, <1>9, <1>10
  <2> QED
    BY <1>7, <1>8, <2>1, Dentro
<1>13. canal' \in Seq([de : Tareas, valor : Valores])
  <2>1. canal \in Seq([de : Tareas, valor : Valores])
    BY <1>1 DEF TypeOK
  <2>3. \/ canal' = canal
        \/ \E t \in Tareas, v \in Valores : Responde(t, v)
        \/ \E t \in Tareas, v \in Valores, d \in Valores : RespondeDos(t, v, d)
    BY ConstantesOK DEF Manejo, Atencion, Recibe, Tareas, ConPCB, Valores, Respuestas
  <2> DEFINE R == [de : Tareas, valor : Valores]
  <2>4. \A t \in Tareas, v \in Valores : [de |-> t, valor |-> v] \in R
    OBVIOUS
  <2> HIDE DEF R
  <2>5. \A s \in Seq(R), r \in R : Append(s, r) \in Seq(R)
    OBVIOUS
  <2>6. ASSUME NEW t \in Tareas, NEW v \in Valores, Responde(t, v)
        PROVE  canal' \in Seq(R)
    BY <2>1, <2>4, <2>5, <2>6 DEF Responde, R
  <2>7. ASSUME NEW t \in Tareas, NEW v \in Valores, NEW d \in Valores, RespondeDos(t, v, d)
        PROVE  canal' \in Seq(R)
    BY <2>1, <2>4, <2>5, <2>7 DEF RespondeDos, R
  <2> QED
    BY <2>1, <2>3, <2>6, <2>7 DEF R
<1>14. /\ pedidos' \in Seq(Tareas)
       /\ callada' \in BOOLEAN
       /\ safa' \in {"viva", "desbloqueo", "recursos", "lista", "sin proceso", "puntero"}
       /\ colas' \subseteq {"ejecucion", "bloqueado", "listo", "terminado"}
  <2>1. pedidos' \in Seq(Tareas)
    BY <1>1, <1>2, HeadTailProperties DEF TypeOK
  <2>2. /\ callada' \in BOOLEAN
        /\ safa' \in {"viva", "desbloqueo", "recursos", "lista", "sin proceso", "puntero"}
        /\ colas' \subseteq {"ejecucion", "bloqueado", "listo", "terminado"}
    BY <1>1 DEF TypeOK, Manejo, Atencion, Recibe, Mueve, unblockProcess
  <2> QED
    BY <2>1, <2>2
<1>15. TypeOK'
  <2>1. /\ {alineado', claveVieja', semaforo'} \subseteq BOOLEAN
        /\ archivo' \in {"ausente", "mio", "ajeno", "libre"}
    BY DEF Manejo
  <2> QED
    BY <1>1, <1>2, <1>12, <1>13, <1>14, <2>1 DEF TypeOK, cpuVars, hist
<1> QED
  BY <1>3, <1>5, <1>11, <1>15 DEF Cuentas

LEMMA AparteCuentas ==
  ASSUME Cuentas, Aparte
  PROVE  Cuentas'
<1>1. TypeOK /\ DobleCuenta /\ Avance /\ Cotas /\ Dormida
  BY DEF Cuentas
<1>2. /\ safa = "viva"
      /\ UNCHANGED <<pc, cpuVars, pedidos, canal, alineado, callada, hist>>
  BY DEF Aparte
<1>3. DobleCuenta' /\ Avance'
  BY <1>1, <1>2, AvanceAjeno
<1>4. /\ enEspera \in Nat /\ pedidosDma \in Nat /\ enviados \in Nat /\ Len(script) \in Nat
      /\ currentProgramCounter \in Nat
  BY <1>1, TiposContadores
<1>5. /\ enEspera' \in Nat /\ pedidosDma' \in Nat
      /\ enEspera' <= enEspera /\ pedidosDma' <= pedidosDma
  BY <1>4 DEF Aparte
<1>6. Consultas(pedidos) \in Nat
  <2>1. pedidos \in Seq(Tareas) /\ "WAIT_RESOURCE" \in Tareas
    BY <1>1 DEF TypeOK, Tareas
  <2> QED
    BY <2>1, PendientesAppend DEF Consultas
<1>7. Cotas'
  <2>1. enEspera' + Consultas(pedidos') <= currentProgramCounter'
    BY <1>1, <1>2, <1>4, <1>5, <1>6 DEF Cotas, Consultas, cpuVars
  <2>2. pedidosDma' <= enviados'
    BY <1>1, <1>2, <1>4, <1>5 DEF Cotas, hist
  <2> QED
    BY <1>1, <1>2, <2>1, <2>2 DEF Cotas, Consultas, cpuVars, hist
<1>8. enEspera' \in 0 .. Len(script) + 1 /\ pedidosDma' \in 0 .. Len(script) + 1
  <2>1. enEspera \in 0 .. Len(script) + 1 /\ pedidosDma \in 0 .. Len(script) + 1
    BY <1>1 DEF TypeOK
  <2> QED
    BY <1>4, <1>5, <2>1
<1>9. /\ safa' \in {"viva", "desbloqueo", "recursos", "lista", "sin proceso", "puntero"}
      /\ colas' \subseteq {"ejecucion", "bloqueado", "listo", "terminado"}
  BY <1>1 DEF TypeOK, Aparte, unblockProcess
<1>10. TypeOK'
  <2>1. /\ claveVieja' \in BOOLEAN /\ semaforo' \in BOOLEAN
        /\ archivo' \in {"ausente", "mio", "ajeno", "libre"}
    BY DEF Aparte
  <2> QED
    BY <1>1, <1>2, <1>8, <1>9, <2>1 DEF TypeOK, cpuVars, hist
<1>11. Dormida'
  <2>1. CASE pc = "espera" \/ pc = "muerta"
    <3>1. enEspera = 0 /\ enviados = 0 /\ pedidosDma = 0
      BY <1>1, <1>2, <1>4, <2>1 DEF Dormida, Cotas
    <3> QED
      BY <1>1, <1>2, <1>4, <1>5, <2>1, <3>1 DEF Dormida, cpuVars, hist
  <2>2. CASE ~(pc = "espera" \/ pc = "muerta")
    BY <1>2, <2>2 DEF Dormida
  <2> QED
    BY <2>1, <2>2
<1> QED
  BY <1>3, <1>7, <1>10, <1>11 DEF Cuentas

-----------------------------------------------------------------------------
(* The dialogue is in step                                                 *)

Dialogo == EnOrden /\ Ultima /\ Callo

LEMMA UltimoElemento ==
  ASSUME NEW S, NEW s \in Seq(S), s # << >>, Len(s) <= 1
  PROVE  Len(s) = 1 /\ Tail(s) = << >>
<1>1. Len(s) \in Nat /\ Len(s) # 0
  OBVIOUS
<1>2. Len(s) = 1
  BY <1>1
<1>3. Tail(s) \in Seq(S) /\ Len(Tail(s)) = 0
  BY <1>2, HeadTailProperties
<1> QED
  BY <1>2, <1>3, EmptySeq

\* While no address was left unread, whoever reads an answer finds every request handled that
\* gets one, and leaves nothing but the address that follows.
LEMMA QuedaVacio ==
  ASSUME TypeOK, EnOrden, Turno, ~direccionSuelta'
  PROVE  /\ \A i \in DOMAIN pedidos : pedidos[i] \in Sueltos
         /\ pc' # "memoria" => canal' = << >>
         /\ pc' = "memoria" =>
              /\ Len(canal') = 1 /\ canal'[1].valor \in Direcciones
              /\ \A i \in DOMAIN canal' : canal'[i].de = "CHECK_IF_FILE_OPEN"
<1>1. ~direccionSuelta /\ pc \in Receives \union {"bucle"}
  BY DEF Turno, Avanza
<1>2. OrdenPedidos /\ OrdenCanal
  BY <1>1 DEF EnOrden, Receives
<1>3. pc' = "memoria" => pc = "archivo" /\ canal[1].valor = "FILE_OPEN"
  BY DEF Turno, Desenlace, Sale, Devuelve
<1>4. canal \in Seq([de : Tareas, valor : Valores])
  BY DEF TypeOK
<1>5. CASE pc = "bucle"
  <2>1. canal = << >> /\ canal' = canal /\ Esperado = "nada"
    BY <1>2, <1>5 DEF OrdenCanal, Turno, Receives, Esperado
  <2>2. \A i \in DOMAIN pedidos : pedidos[i] # "nada"
    <3>1. \A t \in Tareas : t # "nada"
      BY DEF Tareas, ConPCB
    <3>2. pedidos \in Seq(Tareas)
      BY DEF TypeOK
    <3> QED
      BY <3>1, <3>2
  <2> QED
    BY <1>2, <1>3, <1>5, <2>1, <2>2 DEF OrdenPedidos
<1>6. CASE pc # "bucle"
  <2>1. pc \in Receives /\ canal # << >> /\ canal' = Tail(canal)
    BY <1>6 DEF Turno
  <2>2. \A i \in DOMAIN pedidos : pedidos[i] \in Sueltos
    BY <1>2, <2>1 DEF OrdenPedidos
  <2>3. CASE Len(canal) <= 1
    <3>1. canal' = << >>
      BY <1>4, <2>1, <2>3, UltimoElemento
    <3>2. pc' # "memoria"
      BY <1>2, <1>3, <2>1, <2>3, SMTT(30) DEF OrdenCanal
    <3> QED
      BY <2>2, <3>1, <3>2
  <2>4. CASE ~(Len(canal) <= 1)
    <3>1. /\ pc = "archivo" /\ canal[1].valor = "FILE_OPEN" /\ Len(canal) = 2
          /\ canal[2].valor \in Direcciones
      BY <1>2, <1>4, <2>1, <2>4 DEF OrdenCanal, Receives
    <3>2. pc' = "memoria"
      BY <3>1 DEF Turno
    <3>3. \A i \in DOMAIN canal : canal[i].de = "CHECK_IF_FILE_OPEN"
      BY <1>2, <3>1 DEF OrdenCanal, Esperado
    <3>4. /\ Len(canal') = 1 /\ canal'[1] = canal[2]
          /\ \A i \in DOMAIN canal' : i + 1 \in DOMAIN canal /\ canal'[i] = canal[i + 1]
      <4>1. /\ Tail(canal) \in Seq([de : Tareas, valor : Valores])
            /\ Len(Tail(canal)) = Len(canal) - 1
            /\ \A i \in 1 .. Len(Tail(canal)) : Tail(canal)[i] = canal[i + 1]
        <5> DEFINE R == [de : Tareas, valor : Valores]
        <5>1. canal \in Seq(R) /\ canal # << >>
          BY <1>4, <2>1
        <5> HIDE DEF R
        <5>2. /\ Tail(canal) \in Seq(R)
              /\ Len(Tail(canal)) = Len(canal) - 1
              /\ \A i \in 1 .. Len(Tail(canal)) : Tail(canal)[i] = canal[i + 1]
          BY <5>1, HeadTailProperties
        <5> QED
          BY <5>2 DEF R
      <4>2. /\ Len(canal') = 1 /\ DOMAIN canal' = 1 .. 1 /\ DOMAIN canal = 1 .. 2
            /\ \A i \in 1 .. 1 : canal'[i] = canal[i + 1]
        <5>1. canal' = Tail(canal) /\ Len(canal) = 2
          BY <2>1, <3>1
        <5>2. Len(Tail(canal)) = 1
          BY <4>1, <5>1
        <5>3. DOMAIN Tail(canal) = 1 .. Len(Tail(canal)) /\ DOMAIN canal = 1 .. Len(canal)
          BY <1>4, <4>1
        <5>4. \A i \in 1 .. 1 : Tail(canal)[i] = canal[i + 1]
          BY <4>1, <5>2
        <5> QED
          BY <5>1, <5>2, <5>3, <5>4
      <4>3. canal'[1] = canal[1 + 1]
        BY <4>2
      <4> QED
        BY <4>2, <4>3
    <3> QED
      BY <2>2, <3>1, <3>2, <3>3, <3>4
  <2> QED
    BY <2>3, <2>4
<1> QED
  BY <1>5, <1>6

\* A request that gets no answer, or the one the CPU waits on with nothing else unread.
LEMMA PedirEnOrden ==
  ASSUME pedidos \in Seq(Tareas), NEW t \in Tareas, pedidos' = Append(pedidos, t),
         \A i \in DOMAIN pedidos : pedidos[i] \in Sueltos,
         t \in Sueltos \/ (t = Esperado' /\ canal' = << >>)
  PROVE  OrdenPedidos'
<1>1. /\ Len(pedidos') = Len(pedidos) + 1
      /\ \A i \in DOMAIN pedidos' : \/ i \in DOMAIN pedidos /\ pedidos'[i] = pedidos[i]
                                    \/ i = Len(pedidos') /\ pedidos'[i] = t
  OBVIOUS
<1> QED
  BY <1>1 DEF OrdenPedidos

\* What a step of the CPU from the loop or a receive leaves it waiting for.
LEMMA TurnoEspera ==
  ASSUME TypeOK, Turno
  PROVE  \/ /\ pedidos' = pedidos /\ pc' \in {"memoria", "fin"}
         \/ \E t \in Tareas :
              /\ pedidos' = Append(pedidos, t)
              /\ \/ t \in Sueltos /\ pc' \in {"bucle", "memoria"}
                 \/ t = Esperado' /\ Pregunta' /\ pc' # "memoria"
<1>1. \A m \in ConPCB : Devuelve(m) =>
        /\ m \in Tareas /\ pedidos' = Append(pedidos, m)
        /\ m = Esperado' /\ Pregunta' /\ pc' # "memoria"
  BY DEF Devuelve, Tareas, Esperado, Pregunta
<1>2. CASE \E m \in {"BLOCK_PROCESS", "PROCESS_ERROR"} : Devuelve(m)
  BY <1>1, <1>2 DEF ConPCB
<1>3. CASE \E m \in {"END_OF_SCRIPT", "QUANTUM_END"} : Devuelve(m)
  BY <1>1, <1>3 DEF ConPCB
<1>4. CASE Sale("CHECK_IF_FILE_OPEN", "archivo")
  BY <1>4 DEF Sale, Tareas, Esperado, Pregunta
<1>5. CASE Sale("WAIT_RESOURCE", "wait")
  BY <1>5 DEF Sale, Tareas, Esperado, Pregunta
<1>6. CASE Sale("SIGNAL_RESOURCE", "signal")
  BY <1>6 DEF Sale, Tareas, Esperado, Pregunta
<1>7. CASE Sale("COMPLETED_INSTRUCTION", "bucle") \/ Sale("CLOSE_FILE", "memoria")
  BY <1>7 DEF Sale, Tareas, Sueltos
<1>8. CASE pedidos' = pedidos /\ pc' \in {"memoria", "fin"}
  BY <1>8
<1> QED
  BY <1>2, <1>3, <1>4, <1>5, <1>6, <1>7, <1>8 DEF Turno, Desenlace

LEMMA TurnoDialogo ==
  ASSUME TypeOK, Dialogo, Turno
  PROVE  Dialogo'
<1>1. pedidos \in Seq(Tareas)
  BY DEF TypeOK
<1>2. \A t \in Tareas : Append(pedidos, t) # << >> /\ Append(pedidos, t)[Len(Append(pedidos, t))] = t
  BY <1>1
<1>3. Ultima' /\ Callo'
  BY <1>2, TurnoEspera DEF Ultima, Callo, Atascada, Pregunta, Sueltos
<1>4. ASSUME ~direccionSuelta' PROVE OrdenPedidos' /\ OrdenCanal'
  <2>1. /\ \A i \in DOMAIN pedidos : pedidos[i] \in Sueltos
        /\ pc' # "memoria" => canal' = << >>
        /\ pc' = "memoria" =>
             /\ Len(canal') = 1 /\ canal'[1].valor \in Direcciones
             /\ \A i \in DOMAIN canal' : canal'[i].de = "CHECK_IF_FILE_OPEN"
    BY <1>4, QuedaVacio DEF Dialogo
  <2>2. OrdenPedidos'
    <3>1. CASE pedidos' = pedidos
      BY <2>1, <3>1 DEF OrdenPedidos
    <3>2. ASSUME NEW t \in Tareas, pedidos' = Append(pedidos, t),
                 t \in Sueltos \/ (t = Esperado' /\ pc' # "memoria")
          PROVE  OrdenPedidos'
      BY <1>1, <2>1, <3>2, PedirEnOrden
    <3> QED
      BY <3>1, <3>2, TurnoEspera
  <2>3. CASE pc' = "memoria"
    BY <2>1, <2>2, <2>3 DEF OrdenCanal, Esperado
  <2>4. CASE pc' # "memoria"
    BY <2>1, <2>2, <2>4 DEF OrdenCanal
  <2> QED
    BY <2>2, <2>3, <2>4
<1> QED
  BY <1>3, <1>4 DEF Dialogo, EnOrden

\* A request handled leaves the others where they were, one place nearer.
LEMMA ColaDePedidos ==
  ASSUME pedidos \in Seq(Tareas), pedidos # << >>, pedidos' = Tail(pedidos)
  PROVE  /\ 1 \in DOMAIN pedidos /\ Head(pedidos) = pedidos[1]
         /\ Len(pedidos) \in Nat /\ Len(pedidos') = Len(pedidos) - 1
         /\ \A i \in DOMAIN pedidos' : i + 1 \in DOMAIN pedidos /\ pedidos'[i] = pedidos[i + 1]
         /\ pedidos' # << >> => /\ Len(pedidos') \in DOMAIN pedidos'
                                /\ pedidos'[Len(pedidos')] = pedidos[Len(pedidos)]
         /\ Len(pedidos) = 1 <=> pedidos' = << >>
<1>1. Len(pedidos) \in Nat /\ Len(pedidos) # 0 /\ DOMAIN pedidos = 1 .. Len(pedidos)
  BY EmptySeq
<1>2. /\ Tail(pedidos) \in Seq(Tareas) /\ Len(Tail(pedidos)) = Len(pedidos) - 1
      /\ \A i \in 1 .. Len(Tail(pedidos)) : Tail(pedidos)[i] = pedidos[i + 1]
  BY HeadTailProperties
<1>3. DOMAIN pedidos' = 1 .. Len(pedidos')
  BY <1>2
<1>4. Len(pedidos) = 1 <=> pedidos' = << >>
  <2>1. Len(<< >>) = 0 /\ (Tail(pedidos) # << >> => Len(Tail(pedidos)) # 0)
    BY <1>2, EmptySeq
  <2>2. Tail(pedidos) = << >> <=> Len(Tail(pedidos)) = 0
    BY <2>1
  <2> QED
    BY <1>1, <1>2, <2>2
<1> QED
  BY <1>1, <1>2, <1>3, <1>4

\* The answers, as the CPU finds them when it had read all there was.
LEMMA UnaRespuesta ==
  ASSUME canal = << >>, NEW t, NEW v, Responde(t, v)
  PROVE  Len(canal') = 1 /\ canal'[1].de = t /\ canal'[1].valor = v /\ DOMAIN canal' = {1}
<1> DEFINE r == [de |-> t, valor |-> v]
<1>1. r.de = t /\ r.valor = v
  OBVIOUS
<1>2. canal' = Append(<< >>, r)
  BY DEF Responde
<1> HIDE DEF r
<1>3. Len(canal') = 1 /\ canal'[1] = r /\ DOMAIN canal' = 1 .. 1
  BY <1>2
<1> QED
  BY <1>1, <1>3

LEMMA DosRespuestas ==
  ASSUME canal = << >>, NEW t, NEW v, NEW d, RespondeDos(t, v, d)
  PROVE  /\ Len(canal') = 2 /\ canal'[1].de = t /\ canal'[1].valor = v
         /\ canal'[2].de = t /\ canal'[2].valor = d
         /\ DOMAIN canal' = {1, 2}
<1> DEFINE r == [de |-> t, valor |-> v]
           w == [de |-> t, valor |-> d]
<1>1. r.de = t /\ r.valor = v /\ w.de = t /\ w.valor = d
  OBVIOUS
<1>2. canal' = Append(Append(<< >>, r), w)
  BY DEF RespondeDos
<1> HIDE DEF r, w
<1>3. Len(canal') = 2 /\ canal'[1] = r /\ canal'[2] = w /\ DOMAIN canal' = 1 .. 2
  BY <1>2
<1> QED
  BY <1>1, <1>3

\* The S-AFA answers, unless it leaves the connection as it was.
LEMMA ManejoRespuesta ==
  ASSUME Manejo
  PROVE  \/ canal' = canal /\ (Head(pedidos) \in Sueltos \/ callada')
         \/ \E v \in Valores : /\ Responde(Head(pedidos), v)
                               /\ Head(pedidos) \notin Sueltos
                               /\ Head(pedidos) = "CHECK_IF_FILE_OPEN" =>
                                    v \in {"FILE_NOT_OPEN", "FILE_OPENED_BY_ANOTHER_PROCESS"}
         \/ \E d \in Direcciones : /\ RespondeDos("CHECK_IF_FILE_OPEN", "FILE_OPEN", d)
                                   /\ Head(pedidos) = "CHECK_IF_FILE_OPEN"
<1> QED
  BY DEF Manejo, Atencion, Recibe, Sueltos, Valores, Respuestas

LEMMA ManejoDialogo ==
  ASSUME TypeOK, Cotas, Dialogo, Manejo
  PROVE  Dialogo'
<1>1. /\ safa = "viva" /\ pedidos # << >> /\ pedidos' = Tail(pedidos)
      /\ pc' = pc /\ ultimo' = ultimo /\ direccionSuelta' = direccionSuelta
      /\ Esperado' = Esperado /\ Pregunta' = Pregunta
  BY DEF Manejo, cpuVars, hist, Esperado, Pregunta
<1>2. pedidos \in Seq(Tareas)
  BY DEF TypeOK
<1> DEFINE h == Head(pedidos)
<1>3. /\ 1 \in DOMAIN pedidos /\ h = pedidos[1]
      /\ Len(pedidos) \in Nat /\ Len(pedidos') = Len(pedidos) - 1
      /\ \A i \in DOMAIN pedidos' : i + 1 \in DOMAIN pedidos /\ pedidos'[i] = pedidos[i + 1]
      /\ pedidos' # << >> => /\ Len(pedidos') \in DOMAIN pedidos'
                             /\ pedidos'[Len(pedidos')] = pedidos[Len(pedidos)]
      /\ Len(pedidos) = 1 <=> pedidos' = << >>
  BY <1>1, <1>2, ColaDePedidos
<1>4. Pregunta => Esperado \notin Sueltos
  BY DEF Pregunta, Esperado, Cotas, ConPCB, Sueltos
<1>5. Ultima'
  BY <1>1, <1>3 DEF Dialogo, Ultima
<1>6. Callo'
  <2> SUFFICES ASSUME Pregunta, canal' = << >>, pedidos' = << >> PROVE callada'
    BY <1>1 DEF Callo, Atascada
  <2>1. h = Esperado /\ h \notin Sueltos
    BY <1>1, <1>3, <1>4 DEF Dialogo, Ultima
  <2>2. \A t, v, d : ~Responde(t, v) /\ ~RespondeDos(t, v, d)
    <3> SUFFICES ASSUME NEW t, NEW v, NEW d PROVE ~Responde(t, v) /\ ~RespondeDos(t, v, d)
      OBVIOUS
    <3> DEFINE r == [de |-> t, valor |-> v]
               w == [de |-> t, valor |-> d]
    <3> HIDE DEF r, w
    <3>1. canal \in Seq([de : Tareas, valor : Valores])
      BY DEF TypeOK
    <3>2. Append(canal, r) # << >> /\ Append(Append(canal, r), w) # << >>
      BY <3>1
    <3> QED
      BY <3>2 DEF Responde, RespondeDos, r, w
  <2> QED
    BY <2>1, <2>2, ManejoRespuesta
<1>7. ASSUME ~direccionSuelta, pc # "muerta" PROVE OrdenPedidos' /\ OrdenCanal'
  <2>1. OrdenPedidos /\ OrdenCanal
    BY <1>7 DEF Dialogo, EnOrden
  <2>2. CASE h \in Sueltos
    <3>1. canal' = canal
      BY <2>2, ManejoRespuesta DEF Sueltos
    <3>2. OrdenPedidos'
      <4> SUFFICES ASSUME NEW i \in DOMAIN pedidos'
                   PROVE  \/ pedidos'[i] \in Sueltos
                          \/ i = Len(pedidos') /\ pedidos'[i] = Esperado' /\ canal' = << >>
        BY DEF OrdenPedidos
      <4>1. i + 1 \in DOMAIN pedidos /\ pedidos'[i] = pedidos[i + 1] /\ i \in Nat
        BY <1>1, <1>2, <1>3, HeadTailProperties
      <4>2. \/ pedidos[i + 1] \in Sueltos
            \/ i + 1 = Len(pedidos) /\ pedidos[i + 1] = Esperado /\ canal = << >>
        BY <2>1, <4>1 DEF OrdenPedidos
      <4> QED
        BY <1>1, <1>3, <3>1, <4>1, <4>2
    <3>3. OrdenCanal'
      BY <1>1, <2>1, <3>1 DEF OrdenCanal
    <3> QED
      BY <3>2, <3>3
  <2>3. CASE h \notin Sueltos
    <3>1. Len(pedidos) = 1 /\ h = Esperado /\ canal = << >> /\ pedidos' = << >>
      BY <1>3, <2>1, <2>3 DEF OrdenPedidos
    <3>2. OrdenPedidos'
      BY <3>1 DEF OrdenPedidos
    <3>3. pc \in Receives \ {"memoria"}
      <4>1. h # "nada"
        BY <1>2, <1>3 DEF Tareas, ConPCB
      <4>2. pc # "memoria"
        BY <2>1, <3>1 DEF OrdenCanal
      <4> QED
        BY <3>1, <4>1, <4>2 DEF Esperado, Receives
    <3>4. /\ pc = "archivo" <=> h = "CHECK_IF_FILE_OPEN"
      BY <3>1, <3>3 DEF Esperado, Receives, Cotas, ConPCB
    <3>5. CASE canal' = canal
      BY <1>1, <2>1, <3>2, <3>5 DEF OrdenCanal
    <3>6. ASSUME NEW v \in Valores, Responde(h, v),
                 h = "CHECK_IF_FILE_OPEN" =>
                   v \in {"FILE_NOT_OPEN", "FILE_OPENED_BY_ANOTHER_PROCESS"}
          PROVE  OrdenCanal'
      <4>1. Len(canal') = 1 /\ canal'[1].de = h /\ canal'[1].valor = v /\ DOMAIN canal' = {1}
        BY <3>1, <3>6, UnaRespuesta
      <4> QED
        BY <1>1, <3>1, <3>3, <3>4, <3>6, <4>1 DEF OrdenCanal, Receives
    <3>7. ASSUME NEW d \in Direcciones, RespondeDos("CHECK_IF_FILE_OPEN", "FILE_OPEN", d),
                 h = "CHECK_IF_FILE_OPEN"
          PROVE  OrdenCanal'
      <4>1. /\ Len(canal') = 2 /\ canal'[1].de = h /\ canal'[1].valor = "FILE_OPEN"
            /\ canal'[2].de = h /\ canal'[2].valor = d /\ DOMAIN canal' = {1, 2}
        BY <3>1, <3>7, DosRespuestas
      <4> QED
        BY <1>1, <3>1, <3>3, <3>4, <3>7, <4>1 DEF OrdenCanal, Receives
    <3> QED
      BY <3>2, <3>5, <3>6, <3>7, ManejoRespuesta
  <2> QED
    BY <2>2, <2>3
<1> QED
  BY <1>1, <1>5, <1>6, <1>7 DEF Dialogo, EnOrden

LEMMA AparteDialogo ==
  ASSUME Dialogo, Aparte
  PROVE  Dialogo'
<1>1. /\ safa = "viva"
      /\ UNCHANGED <<pc, ultimo, pedidos, canal, callada, direccionSuelta>>
      /\ Esperado' = Esperado /\ Pregunta' = Pregunta
  BY DEF Aparte, cpuVars, hist, Esperado, Pregunta
<1> QED
  BY <1>1 DEF Dialogo, EnOrden, OrdenPedidos, OrdenCanal, Ultima, Callo, Atascada

LEMMA LineaVaciaDialogo ==
  ASSUME Dialogo, LineaVacia
  PROVE  Dialogo'
<1>1. /\ UNCHANGED <<pc, ultimo, pedidos, canal, callada, direccionSuelta, safa>>
      /\ Esperado' = Esperado /\ Pregunta' = Pregunta
  BY DEF LineaVacia, safaVars, Esperado, Pregunta
<1> QED
  BY <1>1 DEF Dialogo, EnOrden, OrdenPedidos, OrdenCanal, Ultima, Callo, Atascada

LEMMA ComenzarDialogo ==
  ASSUME Dormida, Comenzar
  PROVE  Dialogo'
<1>1. pedidos' = << >> /\ canal' = << >> /\ pc' \in {"bucle", "muerta"}
  BY DEF Comenzar, Dormida
<1> QED
  BY <1>1 DEF Dialogo, EnOrden, OrdenPedidos, OrdenCanal, Ultima, Callo, Atascada, Pregunta

LEMMA DesconexionDialogo ==
  ASSUME Desconexion
  PROVE  Dialogo'
BY DEF Desconexion, Dialogo, EnOrden, Ultima, Callo, Atascada, Pregunta

-----------------------------------------------------------------------------
(* Where the process is                                                    *)

\* The messages with a PCB that are pending, after a request is sent and after one is handled.
LEMMA TurnoDevueltos ==
  ASSUME TypeOK, Turno
  PROVE  \/ Devueltos' = Devueltos /\ UNCHANGED <<enviados, ultimo>> /\ pc' # "confirmacion"
         \/ /\ \E m \in ConPCB : Devuelve(m) /\ (pc = "bucle" \/ m \in {"BLOCK_PROCESS", "PROCESS_ERROR"})
            /\ \E k : Devueltos' = Devueltos \union {k}
            /\ pc # "confirmacion"
<1>1. pedidos \in Seq(Tareas)
  BY DEF TypeOK
<1>2. \A t \in Tareas : Pendientes(Append(pedidos, t), ConPCB)
                          = Devueltos \union (IF t \in ConPCB THEN {Len(pedidos) + 1} ELSE {})
  BY <1>1, PendientesAppend DEF Devueltos
<1>3. ASSUME NEW t \in Tareas \ ConPCB, NEW p, Sale(t, p)
      PROVE  Devueltos' = Devueltos /\ UNCHANGED <<enviados, ultimo>>
  BY <1>2, <1>3 DEF Sale, Devueltos
<1>4. ASSUME NEW m \in ConPCB, Devuelve(m)
      PROVE  \E k : Devueltos' = Devueltos \union {k}
  <2>1. Devueltos' = Devueltos \union {Len(pedidos) + 1}
    BY <1>2, <1>4 DEF Devuelve, Devueltos, Tareas
  <2> QED
    BY <2>1
<1>5. CASE \E m \in {"BLOCK_PROCESS", "PROCESS_ERROR"} : Devuelve(m) /\ pc # "confirmacion"
  BY <1>4, <1>5 DEF ConPCB
<1>6. CASE \E m \in {"END_OF_SCRIPT", "QUANTUM_END"} : Devuelve(m) /\ pc = "bucle"
  BY <1>4, <1>6 DEF ConPCB
<1>7. CASE pedidos' = pedidos /\ pc' # "confirmacion" /\ UNCHANGED <<enviados, ultimo>>
  BY <1>7 DEF Devueltos
<1>8. CASE \/ Sale("COMPLETED_INSTRUCTION", "bucle") \/ Sale("CLOSE_FILE", "memoria")
           \/ Sale("CHECK_IF_FILE_OPEN", "archivo") \/ Sale("WAIT_RESOURCE", "wait")
           \/ Sale("SIGNAL_RESOURCE", "signal")
  <2>1. {"COMPLETED_INSTRUCTION", "CLOSE_FILE", "CHECK_IF_FILE_OPEN", "WAIT_RESOURCE",
         "SIGNAL_RESOURCE"} \subseteq Tareas \ ConPCB
    BY DEF Tareas, ConPCB
  <2>2. pc' # "confirmacion"
    BY <1>8 DEF Sale
  <2> QED
    BY <1>3, <1>8, <2>1, <2>2
<1> QED
  BY <1>5, <1>6, <1>7, <1>8 DEF Turno, Desenlace

LEMMA ManejoDevueltos ==
  ASSUME TypeOK, pedidos # << >>, pedidos' = Tail(pedidos)
  PROVE  /\ \A i \in Devueltos' : i \in Nat \ {0} /\ i + 1 \in Devueltos
         /\ Head(pedidos) \in ConPCB <=> 1 \in Devueltos
<1>1. pedidos \in Seq(Tareas)
  BY DEF TypeOK
<1>2. 1 \in DOMAIN pedidos /\ Head(pedidos) = pedidos[1]
  BY <1>1, ColaDePedidos
<1>3. \A i \in Devueltos' : i \in Nat \ {0} /\ i + 1 \in Devueltos
  BY <1>1, PendientesTail DEF Devueltos
<1> QED
  BY <1>2, <1>3 DEF Devueltos, Pendientes

LEMMA EnEjecucionIgual ==
  ASSUME EnEjecucion, UNCHANGED <<pedidos, safa, colas, enviados>>
  PROVE  EnEjecucion'
BY DEF EnEjecucion, Devueltos

LEMMA TurnoEnEjecucion ==
  ASSUME TypeOK, EnEjecucion, Turno
  PROVE  EnEjecucion'
<1>1. UNCHANGED <<safa, colas>> /\ enviados \in Nat
  BY TiposContadores DEF Turno, safaVars
<1>2. CASE Devueltos' = Devueltos /\ UNCHANGED <<enviados, ultimo>>
  BY <1>1, <1>2 DEF EnEjecucion
<1>3. CASE enviados' = enviados + 1 /\ \E k : Devueltos' = Devueltos \union {k}
  <2>1. enviados' # 0 /\ (enviados' <= 1 => enviados = 0) /\ (enviados > 1 => enviados' > 1)
    BY <1>1, <1>3
  <2>2. enviados' <= 1 => \A i, j \in Devueltos' : i = j
    BY <1>3, <2>1 DEF EnEjecucion
  <2>3. enviados' = 1 /\ safa' = "viva" => colas' = {"ejecucion"}
    BY <1>1, <2>1 DEF EnEjecucion
  <2>4. safa' = "sin proceso" => enviados' > 1
    BY <1>1, <2>1 DEF EnEjecucion
  <2> QED
    BY <2>1, <2>2, <2>3, <2>4 DEF EnEjecucion
<1> QED
  BY <1>2, <1>3, TurnoDevueltos DEF Devuelve

LEMMA ManejoEnEjecucion ==
  ASSUME TypeOK, EnEjecucion, Manejo
  PROVE  EnEjecucion'
<1>1. /\ safa = "viva" /\ pedidos # << >> /\ pedidos' = Tail(pedidos) /\ enviados' = enviados
      /\ enviados \in Nat
  BY TiposContadores DEF Manejo, hist
<1>2. /\ \A i \in Devueltos' : i \in Nat \ {0} /\ i + 1 \in Devueltos
      /\ Head(pedidos) \in ConPCB <=> 1 \in Devueltos
  BY <1>1, ManejoDevueltos
<1>3. Head(pedidos) \notin ConPCB =>
        \/ colas' = colas /\ safa' # "sin proceso"
        \/ unblockProcess
  BY <1>1 DEF Manejo, Atencion, Recibe, ConPCB
<1>4. enviados = 0 => Devueltos' = {}
  BY <1>2 DEF EnEjecucion
<1>5. enviados <= 1 => \A i, j \in Devueltos' : i = j
  <2> SUFFICES ASSUME enviados <= 1, NEW i \in Devueltos', NEW j \in Devueltos' PROVE i = j
    OBVIOUS
  <2>1. i \in Nat /\ j \in Nat /\ i + 1 = j + 1
    BY <1>2 DEF EnEjecucion
  <2> QED
    BY <2>1
<1>6. ASSUME safa' = "viva", enviados = 0 \/ (enviados = 1 /\ Devueltos' # {})
      PROVE  colas' = {"ejecucion"}
  <2>1. Head(pedidos) \notin ConPCB
    <3>1. CASE enviados = 0
      BY <1>2, <3>1 DEF EnEjecucion
    <3>2. CASE enviados = 1 /\ Devueltos' # {}
      <4>1. PICK i \in Nat \ {0} : i + 1 \in Devueltos
        BY <1>2, <3>2
      <4>2. i + 1 # 1
        BY <4>1
      <4> QED
        BY <1>1, <1>2, <3>2, <4>1, <4>2 DEF EnEjecucion
    <3> QED
      BY <1>6, <3>1, <3>2
  <2>2. colas = {"ejecucion"}
    BY <1>1, <1>2, <1>6 DEF EnEjecucion
  <2>3. ~unblockProcess
    BY <1>6, <2>2 DEF unblockProcess
  <2> QED
    BY <1>3, <2>1, <2>2, <2>3
<1>7. ASSUME safa' = "sin proceso" PROVE enviados > 1
  <2>1. Head(pedidos) \in ConPCB /\ "ejecucion" \notin colas
    BY <1>1, <1>7 DEF Manejo, Atencion, Recibe, Mueve, unblockProcess, ConPCB
  <2>2. Devueltos # {}
    BY <1>2, <2>1
  <2>3. ~(enviados = 0) /\ ~(enviados = 1)
    BY <1>1, <2>1, <2>2 DEF EnEjecucion
  <2> QED
    BY <1>1, <2>3
<1> QED
  BY <1>1, <1>4, <1>5, <1>6, <1>7 DEF EnEjecucion

LEMMA AparteEnEjecucion ==
  ASSUME EnEjecucion, Aparte
  PROVE  EnEjecucion'
<1>1. safa = "viva" /\ UNCHANGED <<pedidos, enviados>> /\ Devueltos' = Devueltos
  BY DEF Aparte, hist, Devueltos
<1>2. safa' # "sin proceso"
  BY <1>1 DEF Aparte, unblockProcess
<1>3. safa' = "viva" /\ colas = {"ejecucion"} => colas' = colas
  BY DEF Aparte, unblockProcess
<1> QED
  BY <1>1, <1>2, <1>3 DEF EnEjecucion

-----------------------------------------------------------------------------
(* Why the S-AFA can unblock the process, or not                           *)

\* Nothing takes a process out of the queue of the finished.
LEMMA ManejoTerminado ==
  ASSUME Manejo, "terminado" \in colas
  PROVE  "terminado" \in colas'
BY DEF Manejo, Atencion, Mueve, unblockProcess

\* Once the CPU waits for an answer nobody will send, or the process was killed, it is so
\* for ever.
LEMMA DialogoSigue ==
  ASSUME TypeOK, Dormida, Turno \/ Manejo \/ Aparte, EnDialogo'
  PROVE  EnDialogo
<1>1. ~direccionSuelta /\ safa = "viva"
  BY DEF EnDialogo, Turno, Manejo, Aparte, hist, safaVars
<1>2. CASE Turno
  <2>1. "terminado" \notin colas
    BY <1>2 DEF EnDialogo, Turno, safaVars
  <2> QED
    BY <1>1, <1>2, <2>1 DEF EnDialogo, Atascada, Turno, Avanza, Pregunta
<1>3. CASE Manejo
  <2>1. "terminado" \notin colas
    BY <1>3, ManejoTerminado DEF EnDialogo
  <2> QED
    BY <1>1, <1>3, <2>1 DEF EnDialogo, Atascada, Manejo
<1>4. CASE Aparte
  <2>1. Atascada' = Atascada /\ (EnDialogo' => "terminado" \notin colas)
    BY <1>4 DEF Atascada, Pregunta, Aparte, EnDialogo, unblockProcess
  <2> QED
    BY <1>1, <2>1 DEF EnDialogo
<1> QED
  BY <1>2, <1>3, <1>4

\* The message with the PCB that waits to be handled is the last request.
LEMMA UltimoPedido ==
  ASSUME TypeOK, Ultima, PorAtender
  PROVE  /\ Len(pedidos) \in DOMAIN pedidos /\ pedidos[Len(pedidos)] = ultimo
<1>1. pedidos \in Seq(Tareas) /\ pedidos # << >> /\ pc = "confirmacion"
  BY DEF TypeOK, PorAtender
<1>2. Len(pedidos) \in Nat \ {0} /\ DOMAIN pedidos = 1 .. Len(pedidos)
  BY <1>1, EmptySeq
<1>3. pedidos[Len(pedidos)] = ultimo
  BY <1>1 DEF Ultima, Pregunta, Esperado
<1> QED
  BY <1>2, <1>3

\* The CPU reads an answer, or goes on: what it owes the DMA and the file is what it will block for.
LEMMA TurnoDesbloqueos ==
  ASSUME TypeOK, Cotas, Dormida, Dialogo, Desbloqueos, Turno
  PROVE  Desbloqueos'
<1>1. /\ UNCHANGED <<safa, colas, enEspera, callada>>
      /\ pc \in Receives \union {"bucle"}
      /\ direccionSuelta' \in BOOLEAN /\ (direccionSuelta => direccionSuelta')
      /\ Rechazada => pc' = "confirmacion" /\ pedidosDma' = pedidosDma
  BY DEF Turno, safaVars, Avanza
<1>2. enviados \in Nat /\ enEspera \in Nat /\ pedidosDma \in Nat
  BY TiposContadores
<1>3. pedidosDma' = pedidosDma \/ pedidosDma' = pedidosDma + 1
  BY DEF Turno, Desenlace
<1>4. pc' # "confirmacion" => UNCHANGED <<pedidosDma, enviados, ultimo>>
  BY DEF Turno, Desenlace, Sale, Devuelve
<1>5. pc' \in {"bucle", "archivo", "memoria", "wait", "signal"} /\ enviados' >= 1 =>
        SigueTras(ultimo')
  <2> SUFFICES ASSUME pc' \in {"bucle", "archivo", "memoria", "wait", "signal"}, enviados' >= 1
               PROVE  SigueTras(ultimo')
    OBVIOUS
  <2>1. UNCHANGED <<enviados, ultimo>>
    BY <1>4
  <2>2. CASE pc = "confirmacion"
    BY <2>1, <2>2 DEF Turno, Desenlace, Sale, Devuelve, Avanza
  <2>3. CASE pc # "confirmacion"
    BY <1>1, <2>1, <2>3 DEF Desbloqueos, Receives
  <2> QED
    BY <2>2, <2>3
<1>6. enviados' = 0 <=> ultimo' = "EXECUTE_PROCESS"
  <2>1. \/ UNCHANGED <<enviados, ultimo>>
        \/ enviados' = enviados + 1 /\ ultimo' \in ConPCB
    BY TurnoDevueltos DEF Devuelve
  <2> QED
    BY <1>2, <2>1 DEF Desbloqueos, ConPCB
<1>7. ASSUME safa' = "desbloqueo", ~direccionSuelta', ~callada'
      PROVE  \/ "BLOCK_PROCESS" \in {pedidos'[i] : i \in DOMAIN pedidos'}
             \/ Rechazada'
             \/ ultimo' # "BLOCK_PROCESS"
             \/ "terminado" \in colas'
  <2>1. \/ "BLOCK_PROCESS" \in {pedidos[i] : i \in DOMAIN pedidos}
        \/ Rechazada
        \/ ultimo # "BLOCK_PROCESS"
        \/ "terminado" \in colas
    BY <1>1, <1>7 DEF Desbloqueos
  <2>2. pedidos \in Seq(Tareas)
    BY DEF TypeOK
  <2>3. \A t \in Tareas : /\ \A i \in DOMAIN pedidos : /\ i \in DOMAIN Append(pedidos, t)
                                                       /\ Append(pedidos, t)[i] = pedidos[i]
                          /\ Len(pedidos) + 1 \in DOMAIN Append(pedidos, t)
                          /\ Append(pedidos, t)[Len(pedidos) + 1] = t
    BY <2>2
  <2>4. CASE "BLOCK_PROCESS" \in {pedidos[i] : i \in DOMAIN pedidos}
    BY <2>3, <2>4, TurnoPedidos
  <2>5. ASSUME NEW m \in ConPCB, Devuelve(m)
        PROVE  \/ "BLOCK_PROCESS" \in {pedidos'[i] : i \in DOMAIN pedidos'}
               \/ ultimo' # "BLOCK_PROCESS"
    BY <2>3, <2>5 DEF Devuelve, Tareas
  <2>6. CASE Devueltos' = Devueltos /\ UNCHANGED <<enviados, ultimo>> /\ pc' # "confirmacion"
    BY <1>1, <2>1, <2>4, <2>6
  <2> QED
    BY <2>5, <2>6, TurnoDevueltos
<1>8. ASSUME EnDialogo'
      PROVE  /\ enviados' = 0 => enEspera' <= (IF Rechazada' THEN 1 ELSE 0)
             /\ enviados' = 1 /\ ultimo' = "BLOCK_PROCESS" /\ ~Rechazada' =>
                  Deudas' <= 1 /\ (~PorAtender' /\ Deudas' = 1 => "bloqueado" \in colas')
             /\ enviados' >= 2 /\ ultimo' = "BLOCK_PROCESS" => PorAtender'
             /\ (enviados' >= 2 \/ (enviados' = 1 /\ ~PorAtender' /\ SigueTras(ultimo'))) =>
                  "ejecucion" \notin colas'
  <2>1. EnDialogo /\ ~direccionSuelta'
    BY <1>8, DialogoSigue DEF EnDialogo
  <2>2. /\ \A i \in DOMAIN pedidos : pedidos[i] \in Sueltos
        /\ pc' # "memoria" => canal' = << >>
    BY <2>1, QuedaVacio DEF Dialogo
  <2>3. ~PorAtender
    <3> SUFFICES ASSUME PorAtender PROVE FALSE
      OBVIOUS
    <3>1. ultimo \in Sueltos
      BY <2>2, UltimoPedido DEF Dialogo
    <3> QED
      BY <3>1 DEF PorAtender, Cotas, ConPCB, Sueltos
  <2>4. ~Rechazada'
    BY <2>2 DEF Rechazada
  <2>5. /\ enviados = 0 => enEspera <= (IF Rechazada THEN 1 ELSE 0)
        /\ enviados = 1 /\ ultimo = "BLOCK_PROCESS" /\ ~Rechazada =>
             Deudas <= 1 /\ (Deudas = 1 => "bloqueado" \in colas)
        /\ ~(enviados >= 2 /\ ultimo = "BLOCK_PROCESS")
        /\ (enviados >= 2 \/ (enviados = 1 /\ SigueTras(ultimo))) => "ejecucion" \notin colas
    BY <2>1, <2>3 DEF Desbloqueos
  <2>6. CASE Devueltos' = Devueltos /\ UNCHANGED <<enviados, ultimo>> /\ pc' # "confirmacion"
    <3>1. ~Rechazada /\ pedidosDma' = pedidosDma /\ Deudas' = Deudas
      BY <1>1, <1>4, <2>6 DEF Deudas
    <3> QED
      BY <1>1, <2>4, <2>5, <2>6, <3>1
  <2>7. ASSUME NEW m \in ConPCB, Devuelve(m), pc # "confirmacion"
        PROVE  /\ enviados' = 0 => enEspera' <= (IF Rechazada' THEN 1 ELSE 0)
               /\ enviados' = 1 /\ ultimo' = "BLOCK_PROCESS" /\ ~Rechazada' =>
                    Deudas' <= 1 /\ (~PorAtender' /\ Deudas' = 1 => "bloqueado" \in colas')
               /\ enviados' >= 2 /\ ultimo' = "BLOCK_PROCESS" => PorAtender'
               /\ (enviados' >= 2 \/ (enviados' = 1 /\ ~PorAtender' /\ SigueTras(ultimo'))) =>
                    "ejecucion" \notin colas'
    <3>1. pedidos \in Seq(Tareas) /\ m \in Tareas
      BY DEF TypeOK, Tareas
    <3>2. pedidos' # << >> /\ PorAtender'
      BY <2>7, <3>1 DEF Devuelve, PorAtender
    <3>3. enviados' = enviados + 1
      BY <2>7 DEF Devuelve
    <3>4. enviados = 0 => Deudas' <= 1
      <4>1. enviados = 0 => pedidosDma = 0
        BY <1>2 DEF Cotas
      <4> QED
        BY <1>1, <1>2, <1>3, <2>5, <4>1 DEF Deudas
    <3>5. enviados >= 1 => "ejecucion" \notin colas
      <4>1. enviados >= 1 => SigueTras(ultimo)
        BY <1>1, <2>7 DEF Desbloqueos, Receives
      <4> QED
        BY <1>2, <2>5, <4>1
    <3> QED
      BY <1>1, <1>2, <3>2, <3>3, <3>4, <3>5
  <2> QED
    BY <2>6, <2>7, TurnoDevueltos
<1> QED
  BY <1>5, <1>6, <1>7, <1>8 DEF Desbloqueos

\* A request is handled while the dialogue is in step: the last one, which the CPU waits on,
\* or one that gets no answer.
LEMMA ManejoUltimo ==
  ASSUME TypeOK, Cotas, Dormida, Dialogo, Manejo, ~direccionSuelta
  PROVE  \/ /\ Head(pedidos) \in Sueltos /\ canal' = canal /\ PorAtender' = PorAtender
            /\ Rechazada' = Rechazada
         \/ /\ Head(pedidos) \notin Sueltos /\ Head(pedidos) = Esperado /\ canal = << >>
            /\ pc \in Receives \ {"memoria"} /\ pedidos' = << >> /\ ~PorAtender' /\ ~Rechazada
<1>1. /\ safa = "viva" /\ pedidos # << >> /\ pedidos' = Tail(pedidos)
      /\ pc' = pc /\ ultimo' = ultimo
  BY DEF Manejo, cpuVars
<1>2. OrdenPedidos /\ OrdenCanal
  BY <1>1 DEF Dormida, Dialogo, EnOrden
<1>3. pedidos \in Seq(Tareas)
  BY DEF TypeOK
<1>4. /\ 1 \in DOMAIN pedidos /\ Head(pedidos) = pedidos[1]
      /\ pedidos' # << >> => /\ Len(pedidos') \in DOMAIN pedidos'
                             /\ pedidos'[Len(pedidos')] = pedidos[Len(pedidos)]
      /\ Len(pedidos) = 1 <=> pedidos' = << >>
  BY <1>1, <1>3, ColaDePedidos
<1>5. CASE Head(pedidos) \in Sueltos
  <2>1. canal' = canal
    BY <1>5, ManejoRespuesta DEF Sueltos
  <2>2. PorAtender' = PorAtender
    <3>1. PorAtender => pedidos[Len(pedidos)] = ultimo /\ ultimo \in ConPCB
      BY UltimoPedido DEF Dialogo, Cotas, PorAtender
    <3>2. PorAtender => pedidos' # << >>
      BY <1>4, <1>5, <3>1 DEF ConPCB, Sueltos
    <3> QED
      BY <1>1, <3>2 DEF PorAtender
  <2>3. Rechazada' = Rechazada
    BY <1>1, <2>1 DEF Rechazada
  <2> QED
    BY <1>5, <2>1, <2>2, <2>3
<1>6. CASE Head(pedidos) \notin Sueltos
  <2>1. Len(pedidos) = 1 /\ Head(pedidos) = Esperado /\ canal = << >>
    BY <1>2, <1>4, <1>6 DEF OrdenPedidos
  <2>2. Head(pedidos) # "nada"
    BY <1>3, <1>4 DEF Tareas, ConPCB
  <2>3. pc # "memoria"
    BY <1>2, <2>1 DEF OrdenCanal
  <2>4. pc \in Receives \ {"memoria"}
    BY <2>1, <2>2, <2>3 DEF Esperado, Receives
  <2> QED
    BY <1>4, <1>6, <2>1, <2>4 DEF PorAtender, Rechazada
<1> QED
  BY <1>5, <1>6

LEMMA ManejoDesbloqueos ==
  ASSUME TypeOK, Cotas, Dormida, Dialogo, EnEjecucion, Desbloqueos, Manejo
  PROVE  Desbloqueos'
<1>1. /\ safa = "viva" /\ pedidos # << >> /\ pedidos' = Tail(pedidos)
      /\ UNCHANGED <<pc, ultimo, pedidosDma, enviados, direccionSuelta>>
  BY DEF Manejo, cpuVars, hist
<1>2. enviados \in Nat /\ enEspera \in Nat /\ pedidosDma \in Nat
  BY TiposContadores
<1>3. /\ pc' \in {"bucle", "archivo", "memoria", "wait", "signal"} /\ enviados' >= 1 =>
           SigueTras(ultimo')
      /\ enviados' = 0 <=> ultimo' = "EXECUTE_PROCESS"
  BY <1>1 DEF Desbloqueos
<1>4. pedidos \in Seq(Tareas)
  BY DEF TypeOK
<1>5. /\ Head(pedidos) \in ConPCB => Devueltos # {}
      /\ Head(pedidos) \in ConPCB /\ enviados = 1 => colas = {"ejecucion"}
      /\ Head(pedidos) \in ConPCB => enviados >= 1
  <2>1. Head(pedidos) \in ConPCB => Devueltos # {}
    BY <1>1, ManejoDevueltos
  <2> QED
    BY <1>1, <1>2, <2>1 DEF EnEjecucion
<1>6. ASSUME ~direccionSuelta
      PROVE  \/ /\ Head(pedidos) \in Sueltos /\ canal' = canal /\ PorAtender' = PorAtender
                /\ Rechazada' = Rechazada
             \/ /\ Head(pedidos) \notin Sueltos /\ Head(pedidos) = Esperado /\ canal = << >>
                /\ pc \in Receives \ {"memoria"} /\ pedidos' = << >> /\ ~PorAtender' /\ ~Rechazada
  BY <1>6, ManejoUltimo
<1>7. ASSUME ~direccionSuelta, "terminado" \notin colas
      PROVE  /\ enviados = 0 => enEspera <= (IF Rechazada THEN 1 ELSE 0)
             /\ enviados = 1 /\ ultimo = "BLOCK_PROCESS" /\ ~Rechazada =>
                  Deudas <= 1 /\ (~PorAtender /\ Deudas = 1 => "bloqueado" \in colas)
             /\ enviados >= 2 /\ ultimo = "BLOCK_PROCESS" => PorAtender
             /\ (enviados >= 2 \/ (enviados = 1 /\ ~PorAtender /\ SigueTras(ultimo))) =>
                  "ejecucion" \notin colas
  <2>1. EnDialogo
    BY <1>1, <1>7 DEF EnDialogo, Atascada
  <2> QED
    BY <2>1 DEF Desbloqueos
<1>8. ASSUME safa' = "desbloqueo", ~direccionSuelta', ~callada'
      PROVE  \/ "BLOCK_PROCESS" \in {pedidos'[i] : i \in DOMAIN pedidos'}
             \/ Rechazada'
             \/ ultimo' # "BLOCK_PROCESS"
             \/ "terminado" \in colas'
  <2> SUFFICES ASSUME ultimo = "BLOCK_PROCESS", ~Rechazada', "terminado" \notin colas'
               PROVE  "BLOCK_PROCESS" \in {pedidos'[i] : i \in DOMAIN pedidos'}
    BY <1>1
  <2>1. Head(pedidos) = "CLOSE_FILE" /\ enEspera = 1 /\ "bloqueado" \notin colas
    BY <1>1, <1>8 DEF Manejo, Atencion, Recibe, Mueve, unblockProcess
  <2>2. ~direccionSuelta /\ "terminado" \notin colas
    BY <1>1, <1>8, ManejoTerminado
  <2>3. PorAtender' = PorAtender /\ Rechazada' = Rechazada
    BY <1>6, <2>1, <2>2 DEF Sueltos
  <2>4. PorAtender
    <3>1. enviados # 0
      BY <1>1, <1>3
    <3>2. CASE enviados = 1
      <4>1. Deudas <= 1 /\ (~PorAtender /\ Deudas = 1 => "bloqueado" \in colas)
        BY <1>7, <2>2, <2>3, <3>2
      <4>2. Deudas = 1
        BY <1>2, <2>1, <4>1 DEF Deudas
      <4> QED
        BY <2>1, <4>1, <4>2
    <3>3. CASE enviados >= 2
      BY <1>7, <2>2, <3>3
    <3> QED
      BY <1>2, <3>1, <3>2, <3>3
  <2>5. pedidos' # << >> /\ pedidos[Len(pedidos)] = "BLOCK_PROCESS"
    BY <2>3, <2>4, UltimoPedido DEF PorAtender, Dialogo
  <2>6. Len(pedidos') \in DOMAIN pedidos' /\ pedidos'[Len(pedidos')] = pedidos[Len(pedidos)]
    BY <1>1, <1>4, <2>5, ColaDePedidos
  <2> QED
    BY <2>5, <2>6
<1>9. ASSUME EnDialogo'
      PROVE  /\ enviados' = 0 => enEspera' <= (IF Rechazada' THEN 1 ELSE 0)
             /\ enviados' = 1 /\ ultimo' = "BLOCK_PROCESS" /\ ~Rechazada' =>
                  Deudas' <= 1 /\ (~PorAtender' /\ Deudas' = 1 => "bloqueado" \in colas')
             /\ enviados' >= 2 /\ ultimo' = "BLOCK_PROCESS" => PorAtender'
             /\ (enviados' >= 2 \/ (enviados' = 1 /\ ~PorAtender' /\ SigueTras(ultimo'))) =>
                  "ejecucion" \notin colas'
  <2>1. ~direccionSuelta /\ safa' = "viva" /\ "terminado" \notin colas'
        /\ "terminado" \notin colas
    BY <1>1, <1>9, ManejoTerminado DEF EnDialogo
  <2>2. CASE Head(pedidos) \in Sueltos
    <3>1. PorAtender' = PorAtender /\ Rechazada' = Rechazada
      BY <1>6, <2>1, <2>2
    <3>2. \/ UNCHANGED <<colas, enEspera>>
          \/ enEspera = 1 /\ enEspera' = 0 /\ unblockProcess
      BY <2>2 DEF Manejo, Atencion, Recibe, Sueltos
    <3>3. CASE UNCHANGED <<colas, enEspera>>
      <4>1. Deudas' = Deudas
        BY <1>1, <3>3 DEF Deudas
      <4> QED
        BY <1>1, <1>7, <2>1, <3>1, <3>3, <4>1
    <3>4. CASE enEspera = 1 /\ enEspera' = 0 /\ unblockProcess
      <4>1. Deudas = pedidosDma + 1 /\ Deudas' = pedidosDma
        BY <1>1, <1>2, <3>4 DEF Deudas
      <4>2. "ejecucion" \notin colas => "ejecucion" \notin colas'
        BY <3>4 DEF unblockProcess
      <4> QED
        BY <1>1, <1>2, <1>7, <2>1, <3>1, <3>4, <4>1, <4>2
    <3> QED
      BY <3>2, <3>3, <3>4
  <2>3. CASE Head(pedidos) \notin Sueltos
    <3>1. /\ Head(pedidos) = Esperado /\ canal = << >> /\ pc \in Receives \ {"memoria"}
          /\ pedidos' = << >> /\ ~PorAtender' /\ ~Rechazada
      BY <1>6, <2>1, <2>3
    <3>2. canal' # canal
      BY <1>1, <1>9, <3>1 DEF EnDialogo, Atascada, Pregunta, Receives
    <3>3. PorAtender <=> pc = "confirmacion"
      BY <1>1 DEF PorAtender
    <3>4. pc # "confirmacion" <=> Head(pedidos) \in {"CHECK_IF_FILE_OPEN", "WAIT_RESOURCE", "SIGNAL_RESOURCE"}
      BY <3>1 DEF Esperado, Receives, Cotas, ConPCB
    <3>5. CASE pc = "confirmacion"
      <4>1. Head(pedidos) = ultimo /\ ultimo \in ConPCB /\ ~Rechazada'
        BY <1>1, <3>1, <3>5 DEF Esperado, Cotas, Rechazada
      <4>2. enviados >= 1 /\ (enviados = 1 => colas = {"ejecucion"})
        BY <1>5, <4>1
      <4>3. /\ ultimo = "BLOCK_PROCESS" =>
                 /\ Recibe("BLOCK_PROCESS") /\ "ejecucion" \in colas
                 /\ colas' = (colas \ {"ejecucion"}) \union {"bloqueado"}
            /\ ultimo # "PROCESS_ERROR"
            /\ ultimo \in {"QUANTUM_END", "END_OF_SCRIPT"} =>
                 /\ Recibe(ultimo)
                 /\ colas' \subseteq colas \union {"listo", "terminado"}
        BY <2>1, <3>2, <4>1 DEF Manejo, Atencion, Recibe, Mueve, ConPCB
      <4>4. enEspera' = enEspera /\ Deudas' = Deudas
        BY <1>1, <4>1, <4>3 DEF Recibe, Deudas, ConPCB
      <4>5. enviados >= 2 => "ejecucion" \notin colas
        BY <1>7, <2>1
      <4>6. CASE ultimo = "BLOCK_PROCESS"
        <5>1. enviados = 1
          BY <1>2, <4>2, <4>3, <4>5, <4>6
        <5>2. Deudas <= 1 /\ "bloqueado" \in colas' /\ "ejecucion" \notin colas'
          BY <1>7, <2>1, <3>1, <4>3, <4>6, <5>1
        <5> QED
          BY <1>1, <4>4, <5>1, <5>2
      <4>8. CASE ultimo \in {"QUANTUM_END", "END_OF_SCRIPT"}
        <5>1. enviados >= 2 => "ejecucion" \notin colas'
          BY <4>3, <4>5, <4>8
        <5>2. ~SigueTras(ultimo)
          BY <4>8 DEF SigueTras
        <5> QED
          BY <1>1, <1>2, <4>2, <4>8, <5>1, <5>2
      <4> QED
        BY <4>1, <4>3, <4>6, <4>8 DEF ConPCB
    <3>6. CASE pc # "confirmacion"
      <4>1. colas' = colas
        BY <3>2, <3>4, <3>6 DEF Manejo, Atencion, Recibe
      <4>2. \/ enEspera' = enEspera
            \/ /\ enEspera' = enEspera + 1 /\ Head(pedidos) = "CHECK_IF_FILE_OPEN"
               /\ Responde("CHECK_IF_FILE_OPEN", "FILE_OPENED_BY_ANOTHER_PROCESS")
        BY <3>2, <3>4, <3>6 DEF Manejo, Atencion, Recibe
      <4>3. ~PorAtender
        BY <3>3, <3>6
      <4>4. CASE enEspera' = enEspera
        <5>1. Deudas' = Deudas
          BY <1>1, <4>4 DEF Deudas
        <5> QED
          BY <1>1, <1>2, <1>7, <2>1, <3>1, <4>1, <4>3, <4>4, <5>1
      <4>5. CASE /\ enEspera' = enEspera + 1 /\ Head(pedidos) = "CHECK_IF_FILE_OPEN"
                 /\ Responde("CHECK_IF_FILE_OPEN", "FILE_OPENED_BY_ANOTHER_PROCESS")
        <5>1. Len(canal') = 1 /\ canal'[1].valor = "FILE_OPENED_BY_ANOTHER_PROCESS"
          BY <3>1, <4>5, UnaRespuesta
        <5>2. pc = "archivo"
          BY <3>1, <4>5 DEF Esperado, Receives, Cotas, ConPCB
        <5>3. canal' # << >>
          BY <5>1, EmptySeq
        <5>4. Rechazada'
          BY <1>1, <5>1, <5>2, <5>3 DEF Rechazada
        <5> QED
          BY <1>1, <1>2, <1>7, <2>1, <3>1, <4>1, <4>3, <4>5, <5>4
      <4> QED
        BY <4>2, <4>4, <4>5
    <3> QED
      BY <3>5, <3>6
  <2> QED
    BY <2>2, <2>3
<1> QED
  BY <1>3, <1>8, <1>9 DEF Desbloqueos

LEMMA AparteDesbloqueos ==
  ASSUME TypeOK, Dormida, Dialogo, Desbloqueos, Aparte
  PROVE  Desbloqueos'
<1>1. /\ safa = "viva"
      /\ UNCHANGED <<pc, ultimo, pedidos, canal, callada, enviados, direccionSuelta>>
      /\ PorAtender' = PorAtender /\ Rechazada' = Rechazada /\ Atascada' = Atascada
  BY DEF Aparte, cpuVars, hist, PorAtender, Rechazada, Atascada, Pregunta
<1>2. enviados \in Nat /\ enEspera \in Nat /\ pedidosDma \in Nat
  BY TiposContadores
<1>3. /\ \/ safa' \in {"viva", "lista"} /\ colas' = colas /\ enEspera' = enEspera /\ Deudas' = Deudas
         \/ /\ unblockProcess /\ Deudas >= 1 /\ Deudas' = Deudas - 1
            /\ enEspera' = enEspera \/ (enEspera > 0 /\ enEspera' = enEspera - 1)
      /\ Deudas \in Nat
  BY <1>2 DEF Aparte, Deudas
<1>4. /\ pc' \in {"bucle", "archivo", "memoria", "wait", "signal"} /\ enviados' >= 1 =>
           SigueTras(ultimo')
      /\ enviados' = 0 <=> ultimo' = "EXECUTE_PROCESS"
  BY <1>1 DEF Desbloqueos
<1>5. ASSUME safa' = "desbloqueo", ~direccionSuelta', ~callada'
      PROVE  \/ "BLOCK_PROCESS" \in {pedidos'[i] : i \in DOMAIN pedidos'}
             \/ Rechazada'
             \/ ultimo' # "BLOCK_PROCESS"
             \/ "terminado" \in colas'
  <2> SUFFICES ASSUME ultimo = "BLOCK_PROCESS", ~Rechazada, "terminado" \notin colas'
               PROVE  "BLOCK_PROCESS" \in {pedidos[i] : i \in DOMAIN pedidos}
    BY <1>1
  <2>1. EnDialogo
    <3>1. "terminado" \notin colas
      BY DEF Aparte, unblockProcess
    <3> QED
      BY <1>1, <1>5, <3>1 DEF EnDialogo, Dialogo, Callo
  <2>2. Deudas >= 1 /\ "bloqueado" \notin colas
    BY <1>1, <1>3, <1>5 DEF unblockProcess
  <2>3. PorAtender
    <3>1. enviados # 0
      BY <1>1, <1>4
    <3>2. CASE enviados = 1
      <4>1. Deudas <= 1 /\ (~PorAtender /\ Deudas = 1 => "bloqueado" \in colas)
        BY <2>1, <3>2 DEF Desbloqueos
      <4> QED
        BY <1>3, <2>2, <4>1
    <3>3. CASE enviados >= 2
      BY <2>1, <3>3 DEF Desbloqueos
    <3> QED
      BY <1>2, <3>1, <3>2, <3>3
  <2>4. Len(pedidos) \in DOMAIN pedidos /\ pedidos[Len(pedidos)] = "BLOCK_PROCESS"
    BY <2>3, UltimoPedido DEF Dialogo
  <2> QED
    BY <2>4
<1>6. ASSUME EnDialogo'
      PROVE  /\ enviados' = 0 => enEspera' <= (IF Rechazada' THEN 1 ELSE 0)
             /\ enviados' = 1 /\ ultimo' = "BLOCK_PROCESS" /\ ~Rechazada' =>
                  Deudas' <= 1 /\ (~PorAtender' /\ Deudas' = 1 => "bloqueado" \in colas')
             /\ enviados' >= 2 /\ ultimo' = "BLOCK_PROCESS" => PorAtender'
             /\ (enviados' >= 2 \/ (enviados' = 1 /\ ~PorAtender' /\ SigueTras(ultimo'))) =>
                  "ejecucion" \notin colas'
  <2>1. EnDialogo
    BY <1>6, DialogoSigue
  <2>2. /\ enviados = 0 => enEspera <= (IF Rechazada THEN 1 ELSE 0)
        /\ enviados = 1 /\ ultimo = "BLOCK_PROCESS" /\ ~Rechazada =>
             Deudas <= 1 /\ (~PorAtender /\ Deudas = 1 => "bloqueado" \in colas)
        /\ enviados >= 2 /\ ultimo = "BLOCK_PROCESS" => PorAtender
        /\ (enviados >= 2 \/ (enviados = 1 /\ ~PorAtender /\ SigueTras(ultimo))) =>
             "ejecucion" \notin colas
    BY <2>1 DEF Desbloqueos
  <2>3. CASE colas' = colas /\ enEspera' = enEspera /\ Deudas' = Deudas
    BY <1>1, <2>2, <2>3
  <2>4. CASE /\ unblockProcess /\ Deudas >= 1 /\ Deudas' = Deudas - 1
             /\ enEspera' = enEspera \/ (enEspera > 0 /\ enEspera' = enEspera - 1)
    <3>1. "ejecucion" \notin colas => "ejecucion" \notin colas'
      BY <2>4 DEF unblockProcess
    <3>2. Deudas <= 1 => Deudas' = 0
      BY <1>3, <2>4
    <3>3. enEspera' <= enEspera
      BY <1>2, <2>4
    <3>4. enviados = 0 => enEspera' <= (IF Rechazada THEN 1 ELSE 0)
      BY <1>2, <2>2, <2>4, <3>3
    <3> QED
      BY <1>1, <2>2, <3>1, <3>2, <3>4
  <2> QED
    BY <1>3, <2>3, <2>4
<1> QED
  BY <1>4, <1>5, <1>6 DEF Desbloqueos

LEMMA LineaVaciaDesbloqueos ==
  ASSUME Desbloqueos, LineaVacia
  PROVE  Desbloqueos'
<1>1. UNCHANGED <<pc, ultimo, pedidos, canal, callada, enviados, direccionSuelta, safa, colas,
                  enEspera, pedidosDma>>
  BY DEF LineaVacia, safaVars
<1>2. /\ PorAtender' = PorAtender /\ Rechazada' = Rechazada /\ Atascada' = Atascada
      /\ EnDialogo' = EnDialogo /\ Deudas' = Deudas
  BY <1>1 DEF PorAtender, Rechazada, Atascada, Pregunta, EnDialogo, Deudas
<1> QED
  BY <1>1, <1>2 DEF Desbloqueos

LEMMA ComenzarDesbloqueos ==
  ASSUME Dormida, Desbloqueos, Comenzar
  PROVE  Desbloqueos'
<1>1. /\ enviados = 0 /\ enEspera = 0 /\ UNCHANGED <<enviados, enEspera, ultimo>>
      /\ pc' \in {"bucle", "muerta"}
  BY DEF Comenzar, Dormida, safaVars
<1>2. ultimo = "EXECUTE_PROCESS"
  BY <1>1 DEF Desbloqueos
<1> QED
  BY <1>1, <1>2 DEF Desbloqueos

LEMMA DesconexionDesbloqueos ==
  ASSUME Desbloqueos, Desconexion
  PROVE  Desbloqueos'
<1>1. /\ safa # "viva" /\ canal = << >> /\ pc' = "muerta"
      /\ UNCHANGED <<ultimo, pedidos, canal, callada, enviados, direccionSuelta, safa, colas>>
  BY DEF Desconexion, cpuVars, safaVars, hist
<1>2. ~EnDialogo' /\ ~Rechazada
  BY <1>1 DEF EnDialogo, Rechazada
<1> QED
  BY <1>1, <1>2 DEF Desbloqueos

-----------------------------------------------------------------------------
(* The theorems                                                            *)

LEMMA Empieza == Init => IInv
<1> SUFFICES ASSUME Init PROVE IInv
  OBVIOUS
<1>1. /\ pc = "espera" /\ script = << >>
      /\ pcb = [programCounter |-> 0, remainingQuantum |-> 0, totalInstructionsExecuted |-> 0]
      /\ instructionsExecuted = 0 /\ currentProcessQuantum = 0 /\ currentProgramCounter = 0
      /\ ultimo = "EXECUTE_PROCESS"
      /\ pedidos = << >> /\ canal = << >> /\ alineado = TRUE /\ pedidosDma = 0
      /\ safa = "viva" /\ colas = {"ejecucion"}
      /\ archivo \in {"ausente", "mio", "ajeno", "libre"} /\ enEspera = 0
      /\ claveVieja = FALSE /\ semaforo = FALSE
      /\ recibido = pcb /\ vacias = 0 /\ enviados = 0
      /\ direccionSuelta = FALSE /\ callada = FALSE
  BY DEF Init
<1>2. 0 \in Contadores /\ Modulo \in Nat
  BY ConstantesOK DEF Contadores
<1>3. pcb \in PCBs /\ recibido \in PCBs
  BY <1>1, <1>2 DEF PCBs
<1>4. TypeOK
  <2>1. Len(script) = 0 /\ pedidos \in Seq(Tareas) /\ canal \in Seq([de : Tareas, valor : Valores])
    BY <1>1
  <2>2. /\ {pedidosDma, enEspera, vacias, enviados} \subseteq 0 .. Len(script) + 1
        /\ currentProgramCounter \in 0 .. Len(script)
        /\ {instructionsExecuted, currentProcessQuantum} \subseteq Contadores
    BY <1>1, <1>2, <2>1
  <2>3. /\ script \in {removeCommentsFromScript(g) : g \in Guiones} \union {<< >>}
        /\ {alineado, claveVieja, semaforo, direccionSuelta, callada} \subseteq BOOLEAN
    BY <1>1
  <2> QED
    BY <1>1, <1>3, <2>1, <2>2, <2>3 DEF TypeOK
<1>5. recibido.programCounter = 0 /\ recibido.remainingQuantum = 0
  BY <1>1
<1>6. Lineas = 0
  BY <1>1, <1>5 DEF Lineas
<1>7. Avance
  BY <1>1, <1>5, <1>6 DEF Avance
<1>8. \A T : Pendientes(pedidos, T) = {}
  BY <1>1 DEF Pendientes
<1>9. Cotas
  <2>1. Cardinality(Pendientes(pedidos, {"CHECK_IF_FILE_OPEN"})) = 0
    BY <1>8, FS_EmptySet
  <2> QED
    BY <1>1, <2>1 DEF Cotas
<1>10. EnOrden /\ Ultima /\ Callo /\ Dormida /\ DobleCuenta
  BY <1>1 DEF EnOrden, OrdenPedidos, OrdenCanal, Ultima, Callo, Atascada, Pregunta, Dormida,
       DobleCuenta
<1>11. EnEjecucion
  BY <1>1, <1>8 DEF EnEjecucion, Devueltos
<1>12. Desbloqueos
  BY <1>1 DEF Desbloqueos, Rechazada
<1> QED
  BY <1>4, <1>7, <1>9, <1>10, <1>11, <1>12 DEF IInv

\* Every step of the CPU, of the S-AFA and of the others keeps the invariant.
LEMMA CadaPaso == IInv /\ [Next]_vars => IInv'
<1> SUFFICES ASSUME IInv, [Next]_vars PROVE IInv'
  OBVIOUS
<1>1. Cuentas /\ Dialogo /\ EnEjecucion /\ Desbloqueos /\ TypeOK /\ Cotas /\ Avance /\ Dormida
  BY DEF IInv, Cuentas, Dialogo
<1>2. Cuentas' /\ Dialogo' /\ EnEjecucion' /\ Desbloqueos' => IInv'
  BY DEF IInv, Cuentas, Dialogo
<1>3. CASE Turno
  BY <1>1, <1>2, <1>3, TurnoCuentas, TurnoDialogo, TurnoEnEjecucion, TurnoDesbloqueos
<1>4. CASE Comenzar
  <2>1. UNCHANGED <<pedidos, safa, colas, enviados>>
    BY <1>4 DEF Comenzar, safaVars
  <2> QED
    BY <1>1, <1>2, <1>4, <2>1, ComenzarCuentas, ComenzarDialogo, EnEjecucionIgual,
       ComenzarDesbloqueos
<1>5. CASE LineaVacia
  <2>1. UNCHANGED <<pedidos, safa, colas, enviados>>
    BY <1>5 DEF LineaVacia, safaVars
  <2> QED
    BY <1>1, <1>2, <1>5, <2>1, LineaVaciaCuentas, LineaVaciaDialogo, EnEjecucionIgual,
       LineaVaciaDesbloqueos
<1>6. CASE Desconexion
  <2>1. UNCHANGED <<pedidos, safa, colas, enviados>>
    BY <1>6 DEF Desconexion, safaVars, hist
  <2> QED
    BY <1>1, <1>2, <1>6, <2>1, DesconexionCuentas, DesconexionDialogo, EnEjecucionIgual,
       DesconexionDesbloqueos
<1>7. CASE Safa
  BY <1>1, <1>2, <1>7, PasosDeLaSafa, ManejoCuentas, ManejoDialogo, ManejoEnEjecucion,
     ManejoDesbloqueos
<1>8. CASE Otros
  BY <1>1, <1>2, <1>8, PasosDeOtros, AparteCuentas, AparteDialogo, AparteEnEjecucion,
     AparteDesbloqueos
<1>9. CASE UNCHANGED vars
  <2>1. /\ pc' = pc /\ script' = script /\ pcb' = pcb
        /\ instructionsExecuted' = instructionsExecuted
        /\ currentProcessQuantum' = currentProcessQuantum
        /\ currentProgramCounter' = currentProgramCounter
        /\ ultimo' = ultimo /\ pedidos' = pedidos /\ canal' = canal
        /\ alineado' = alineado /\ pedidosDma' = pedidosDma /\ safa' = safa
        /\ colas' = colas /\ archivo' = archivo /\ enEspera' = enEspera
        /\ claveVieja' = claveVieja /\ semaforo' = semaforo /\ recibido' = recibido
        /\ vacias' = vacias /\ enviados' = enviados /\ direccionSuelta' = direccionSuelta
        /\ callada' = callada
    BY <1>9 DEF vars, cpuVars, safaVars, hist
  <2>2. TypeOK' /\ DobleCuenta' /\ Dormida'
    <3>1. TypeOK'
      BY <1>1, <2>1 DEF TypeOK
    <3>2. DobleCuenta'
      BY <1>1, <2>1 DEF Cuentas, DobleCuenta
    <3>3. Dormida'
      BY <1>1, <2>1 DEF Dormida
    <3> QED
      BY <3>1, <3>2, <3>3
  <2>3. Avance' /\ Cotas'
    BY <1>1, <2>1 DEF Avance, Lineas, Cotas
  <2>4. Dialogo'
    BY <1>1, <2>1 DEF Dialogo, EnOrden, OrdenPedidos, OrdenCanal, Ultima, Callo, Atascada,
         Pregunta, Esperado
  <2>5. EnEjecucion'
    BY <1>1, <2>1, EnEjecucionIgual
  <2>6. Desbloqueos'
    <3>1. /\ PorAtender' = PorAtender /\ Rechazada' = Rechazada /\ Atascada' = Atascada
          /\ EnDialogo' = EnDialogo /\ Deudas' = Deudas
      BY <2>1 DEF PorAtender, Rechazada, Atascada, Pregunta, EnDialogo, Deudas
    <3> QED
      BY <1>1, <2>1, <3>1 DEF Desbloqueos
  <2> QED
    BY <1>2, <2>2, <2>3, <2>4, <2>5, <2>6 DEF Cuentas
<1> QED
  BY <1>1, <1>3, <1>4, <1>5, <1>6, <1>7, <1>8, <1>9, PasosDeLaCpu DEF Next

\* From the start to the end of an execution, the invariant holds in every state of the
\* three programs (executeProcess, the tasks of the S-AFA, what the DMA does meanwhile).
THEOREM Invariante == Spec => []IInv
BY Empieza, CadaPaso, PTL DEF Spec

\* The types of the two programs and of the connection between them.
THEOREM TipoCorrecto == Spec => []TypeOK
<1>1. IInv => TypeOK
  BY DEF IInv
<1> QED
  BY <1>1, Invariante, PTL

\* The first PCB an execution sends back has the quantum the CPU has left, and the line the
\* CPU is on exactly when there was no empty line: each is counted twice (updateCurrentPCB).
THEOREM PcbExactoSinVaciasValida == Spec => []PcbExactoSinVacias
<1>1. IInv => PcbExactoSinVacias
  <2> SUFFICES ASSUME IInv, pc = "confirmacion", enviados = 1
               PROVE  /\ pcb.remainingQuantum = currentProcessQuantum
                      /\ pcb.programCounter = currentProgramCounter <=> vacias = 0
                      /\ pcb.totalInstructionsExecuted - recibido.totalInstructionsExecuted
                           = currentProgramCounter - recibido.programCounter <=> vacias = 0
    BY DEF PcbExactoSinVacias
  <2> DEFINE cpc == currentProgramCounter
             rp == recibido.programCounter
  <2>1. /\ pcb.remainingQuantum = currentProcessQuantum
        /\ pcb.programCounter = Mas(cpc, vacias)
        /\ recibido.totalInstructionsExecuted = rp
        /\ pcb.totalInstructionsExecuted = Mas(rp, cpc - rp + vacias)
    BY DEF IInv, DobleCuenta
  <2>2. /\ cpc \in Nat /\ cpc <= Len(script) /\ Len(script) \in Nat /\ 2 * Len(script) < Modulo
        /\ Modulo \in Nat /\ vacias \in Nat /\ rp \in Nat
    BY TiposContadores DEF IInv
  <2>3. vacias <= cpc - rp
    BY DEF IInv, Avance, Lineas
  <2> HIDE DEF cpc, rp
  <2>4. cpc + vacias \in Int /\ 0 <= cpc + vacias /\ cpc + vacias < Modulo
    BY <2>2, <2>3
  <2>5. rp + (cpc - rp + vacias) = cpc + vacias
    BY <2>2
  <2>6. Mas(cpc, vacias) = cpc + vacias /\ Mas(rp, cpc - rp + vacias) = cpc + vacias
    BY <2>4, <2>5, Vuelta DEF Mas
  <2>7. /\ cpc + vacias = cpc <=> vacias = 0
        /\ (cpc + vacias) - rp = cpc - rp <=> vacias = 0
    BY <2>2
  <2> QED
    BY <2>1, <2>6, <2>7 DEF cpc, rp
<1> QED
  BY <1>1, Invariante, PTL

\* A process goes through no more lines than its quantum, unless an empty line wrapped the
\* counter round (executeProcess).
THEOREM QuantumRespetadoValida == Spec => []QuantumRespetado
<1>1. IInv => QuantumRespetado
  <2> SUFFICES ASSUME IInv PROVE QuantumRespetado
    OBVIOUS
  <2>1. TypeOK /\ Avance
    BY DEF IInv
  <2>2. /\ recibido.programCounter \in Nat /\ recibido.remainingQuantum \in Nat
        /\ currentProgramCounter \in Nat /\ currentProgramCounter <= Len(script)
        /\ Len(script) \in Nat /\ 2 * Len(script) < Modulo /\ Modulo \in Nat /\ vacias \in Nat
    BY <2>1, TiposContadores
  <2>3. /\ vacias <= Lineas
        /\ currentProcessQuantum =
             recibido.remainingQuantum - Lineas - vacias
               + (IF Lineas + vacias <= recibido.remainingQuantum THEN 0 ELSE Modulo)
        /\ vacias = 0 => Lineas <= recibido.remainingQuantum
    BY <2>1 DEF Avance
  <2>4. Lineas = currentProgramCounter - recibido.programCounter /\ Lineas \in Int
    BY <2>2 DEF Lineas
  <2>5. CASE ~(Lineas <= recibido.remainingQuantum)
    <3>1. vacias > 0 /\ Lineas + vacias < Modulo
      BY <2>2, <2>3, <2>4, <2>5
    <3>2. currentProcessQuantum = recibido.remainingQuantum - Lineas - vacias + Modulo
      BY <2>2, <2>3, <2>4, <2>5
    <3>3. currentProcessQuantum > recibido.remainingQuantum
      <4> DEFINE r == recibido.remainingQuantum
                 n == Lineas
      <4>1. r \in Int /\ n \in Int /\ vacias \in Int /\ Modulo \in Int /\ n + vacias < Modulo
        BY <2>2, <2>4, <3>1
      <4>2. currentProcessQuantum = r - n - vacias + Modulo
        BY <3>2
      <4> HIDE DEF r, n
      <4>3. currentProcessQuantum > r
        BY <4>1, <4>2
      <4> QED
        BY <4>3 DEF r
    <3> QED
      BY <3>1, <3>3 DEF QuantumRespetado
  <2> QED
    BY <2>4, <2>5 DEF QuantumRespetado
<1> QED
  BY <1>1, Invariante, PTL

\* Until an address is left unread, the four receives that ask the S-AFA get its answer to
\* what they asked, and the one that is to wait for the memory gets the S-AFA's address
\* (handleModifyFile, handleCloseFile).
THEOREM RespuestaPropiaValida == Spec => []RespuestaPropia
<1>1. IInv => RespuestaPropia
  <2> SUFFICES ASSUME IInv, ~direccionSuelta, canal # << >>
               PROVE  /\ pc = "archivo"      => Head(canal).de = "CHECK_IF_FILE_OPEN"
                      /\ pc = "wait"         => Head(canal).de = "WAIT_RESOURCE"
                      /\ pc = "signal"       => Head(canal).de = "SIGNAL_RESOURCE"
                      /\ pc = "confirmacion" => Head(canal).de = ultimo
                      /\ pc = "memoria"      => /\ Head(canal).de = "CHECK_IF_FILE_OPEN"
                                                /\ Head(canal).valor \in Direcciones
    BY DEF RespuestaPropia
  <2>1. pc \in Receives => OrdenCanal
    BY DEF IInv, EnOrden, Receives
  <2>2. 1 \in DOMAIN canal /\ Head(canal) = canal[1]
    <3>1. canal \in Seq([de : Tareas, valor : Valores])
      BY DEF IInv, TypeOK
    <3> QED
      BY <3>1, EmptySeq
  <2>3. pc \in Receives => Head(canal).de = Esperado
    BY <2>1, <2>2 DEF OrdenCanal
  <2>4. pc = "memoria" => Head(canal).valor \in Direcciones
    BY <2>1, <2>2 DEF OrdenCanal, Receives
  <2> QED
    BY <2>3, <2>4 DEF Esperado, Receives
<1> QED
  BY <1>1, Invariante, PTL

\* A wait without end has one of the two causes: a request the S-AFA gave no answer, or an
\* address that was taken for one.
THEOREM EsperaJustificadaValida == Spec => []EsperaJustificada
<1>1. IInv => EsperaJustificada
  <2> SUFFICES ASSUME IInv, pc \in Receives, canal = << >>, pedidos = << >>, safa = "viva"
               PROVE  callada \/ (pc = "memoria" /\ direccionSuelta)
    BY DEF EsperaJustificada, EsperaSinFin
  <2>1. CASE pc = "memoria"
    <3>1. ~direccionSuelta => Len(canal) = 1
      BY <2>1 DEF IInv, EnOrden, OrdenCanal
    <3>2. direccionSuelta
      BY <3>1 DEF IInv, TypeOK
    <3> QED
      BY <2>1, <3>2
  <2>2. CASE pc # "memoria"
    BY <2>2 DEF IInv, Callo, Atascada, Pregunta, Receives
  <2> QED
    BY <2>1, <2>2
<1> QED
  BY <1>1, Invariante, PTL

\* The S-AFA dies looking for the process only after a second message with its PCB, and
\* unblocking it only in the windows the property names, or once it was killed.
THEOREM MuertesDeSafaValida == Spec => []MuertesDeSafa
<1>1. IInv => MuertesDeSafa
  BY DEF IInv, MuertesDeSafa, EnEjecucion, Desbloqueos, Rechazada
<1> QED
  BY <1>1, Invariante, PTL
=============================================================================
