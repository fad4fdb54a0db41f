----------------------------- MODULE SafaHilos ------------------------------
(***************************************************************************)
(* The threads of the S-AFA (src/S-AFA/src) and what they share: the       *)
(* mutexes, the semaphores of the schedulers and, of the guarded data,     *)
(* whether there is any.  The server thread may get any task of a CPU or   *)
(* of the DMA at any time, the console any command.  The model begins      *)
(* where initializeVariables should end, with the four threads created.    *)
(*                                                                         *)
(* Each C function is the sequence of what it does to the shared state,    *)
(* under its own name; `guion` is what a thread has left to run:           *)
(*   lock, unlock m       pthread_mutex_lock and _unlock                   *)
(*   wait, post s         sem_wait and sem_post                            *)
(*   si c, A, B           a branch on shared data, or on what the model    *)
(*                        leaves out ("entorno": a failed call, the data)  *)
(*   recibe A, B          a blocking receive: A goes on, B if it fails     *)
(*   usa, pone, saca d    an access to d, an addition, a removal           *)
(*   muere                the process ends: exit, or a fatal signal        *)
(* The mutexes are of the default type: an owner that locks again waits    *)
(* for ever, and an unlock releases whoever owns the mutex.                *)
(***************************************************************************)
EXTENDS Naturals, Sequences, FiniteSets

CONSTANTS
  Nadie,    \* owner of a free mutex
  MaxCpus   \* bound on the CPUs registered at a time

ASSUME MaxCpusOK == MaxCpus \in Nat \ {0}

Hilos   == {"servidor", "consola", "LTS", "STS"}
ASSUME NadieOK == Nadie \notin Hilos
Mutexes == {"configFile", "readyQueue", "newQueue", "blockedQueue", "executionQueue",
            "ioReadyQueue", "cpuList", "finishedQueue", "fileTable", "semaphoreList",
            "metrics"}
Semaforos == {"shortTermScheduler", "longTermScheduler", "schedulerNotRunning"}

\* What may be empty: the PCBs in newQueue, readyQueue, blockedQueue and executionQueue;
\* those in finishedQueue and ioReadyQueue, which only the console goes through; the
\* tables and fileTableKeys.
Datos == {"procesos", "apartados", "fileTable", "fileTableKeys", "semaphoreList"}

-----------------------------------------------------------------------------
(* Building blocks                                                         *)

L(m)          == << <<"lock", m>> >>
U(m)          == << <<"unlock", m>> >>
Con(m, A)     == L(m) \o A \o U(m)
Wait(s)       == << <<"wait", s>> >>
Post(s)       == << <<"post", s>> >>
Usa(d)        == << <<"usa", d>> >>
Pone(d)       == << <<"pone", d>> >>
Saca(d)       == << <<"saca", d>> >>
Si(c, A, B)   == << <<"si", c, A, B>> >>
Quizas(A, B)  == Si("entorno", A, B)
Recibe(A, B)  == << <<"recibe", A, B>> >>
Muere         == << <<"muere", "">> >>
Nada          == << >>

-----------------------------------------------------------------------------
(* SchedulerFunctions.c                                                    *)

send_int_with_delay == Con("configFile", Nada)
send_PCB_with_delay == Con("configFile", Nada)

\* A send whose failure makes the handler return at once, keeping what it locked.
Envia(A) == send_int_with_delay \o Quizas(A, Nada)

closeSocketAndRemoveCPU == Con("cpuList", Si("cpu", Quizas(Saca("cpu"), Nada), Nada))

moveProcessToReadyQueue(addToIoReadyQueue) ==
  IF addToIoReadyQueue THEN Con("readyQueue", Pone("procesos"))
                       ELSE Con("ioReadyQueue", Pone("apartados"))

\* Line 303 unlocks the metrics' mutex, where the end of the function shows a lock
\* was meant.  The flag of moveProcessToReadyQueue is true for VRR only.
unblockProcess(unblockedByDMA) ==
  L("configFile") \o U("metrics") \o Con("blockedQueue", Nada)
  \o Si("procesos",
        Quizas((IF unblockedByDMA
                THEN Usa("metrics") \o Quizas(moveProcessToReadyQueue(TRUE),
                                              moveProcessToReadyQueue(FALSE))
                ELSE moveProcessToReadyQueue(FALSE))
               \o U("metrics") \o U("configFile"),
               Muere),
        Muere)

\* The process is looked for in executionQueue, and NULL is not tested for.
blockProcess ==
  Con("metrics", Si("procesos",
                    Quizas(Usa("metrics") \o Con("blockedQueue", Pone("procesos")), Muere),
                    Muere))

getFreeCPUs == Con("cpuList", Nada)

\* It locks configFile, and so does each send.  Without a CPU it dies.
executeProcess ==
  L("configFile")
  \o Si("cpu", Con("executionQueue", Pone("procesos"))
               \o Envia(send_PCB_with_delay \o Quizas(U("configFile"), Nada)),
        Muere)

\* The length of the list of keys is read before the lock.  A key that closeFile left
\* behind is no longer in the table.
checkAndFreeProcessFiles ==
  Si("fileTableKeys",
     Con("fileTable", Quizas(Nada,
           Si("fileTable", Usa("fileTable") \o Quizas(unblockProcess(FALSE), Nada), Muere))),
     Con("fileTable", Nada))

FreeSemaphoresSinUnlock == L("semaphoreList")   \* variant: returns with the mutex

\* The names of the semaphores are looked up in fileTable, without its mutex.
SemaforoEnTabla == Si("fileTable", Quizas(Nada, Muere), Muere)

checkAndFreeProcessSemaphores ==
  Si("semaphoreList", Con("semaphoreList", SemaforoEnTabla), Con("semaphoreList", Nada))

\* processToKill is not initialised: by chance it may be NULL, and then the queues are
\* searched, or it may point anywhere.
killProcess ==
  L("metrics")
  \o Quizas(U("metrics"),
            Quizas(Muere, Usa("metrics") \o Pone("apartados")
                          \o checkAndFreeProcessFiles \o checkAndFreeProcessSemaphores
                          \o U("metrics")))

addProcessToNewQueue ==
  Con("metrics", Usa("metrics") \o Con("newQueue", Pone("procesos"))
                 \o Post("longTermScheduler"))

\* At the multiprogramming level it returns with configFile.
addProcessToReadyQueue ==
  L("configFile") \o L("metrics")
  \o Quizas(U("metrics"), Usa("metrics") \o Pone("procesos") \o U("metrics") \o U("configFile"))

-----------------------------------------------------------------------------
(* ServerThread.c: one handler per task                                    *)

\* processToBlock, processToKill and the PCB of terminateProcess are still NULL after
\* recvPCB, which assigns its own copy of the pointer; what follows in their three
\* handlers is never reached.
ActualizarNULL == L("executionQueue") \o Si("procesos", Muere, U("executionQueue") \o Muere)

\* updatedPCB in processQuantumEnd is not initialised: if it can be read at all, its pid
\* may by chance be that of a process.
ActualizarPerdido ==
  Con("executionQueue", Nada)
  \o Si("procesos", Quizas(Con("executionQueue", Pone("procesos")), Nada), Nada)
  \o Quizas(Muere, Nada)

\* readyQueueMutex is not unlocked.
checkAndInitializeProcesses ==
  L("readyQueue") \o Si("procesos", Quizas(executeProcess, Nada), Nada)

freeCPUBy_socket == Si("cpu", Quizas(Nada, Muere), Muere)

COMPLETED_INSTRUCTION == Con("metrics", Usa("metrics"))

blockProcessInit ==
  Recibe(blockProcess \o freeCPUBy_socket, closeSocketAndRemoveCPU)
  \o checkAndInitializeProcesses

_blockProcess ==
  Recibe(Recibe(Quizas(ActualizarNULL, Nada), closeSocketAndRemoveCPU), closeSocketAndRemoveCPU)

_killProcess == Recibe(Quizas(ActualizarNULL, Nada), closeSocketAndRemoveCPU)

processQuantumEnd ==
  Recibe(Quizas(ActualizarPerdido \o moveProcessToReadyQueue(FALSE), Nada),
         closeSocketAndRemoveCPU)

terminateProcess ==
  Recibe(Quizas(ActualizarNULL, Nada), closeSocketAndRemoveCPU \o ActualizarNULL)

\* A file that is not open; open by this process; free; open by another process.  A
\* free file is claimed and nothing is answered.
checkIfFileOpen ==
  LET fin == U("fileTable")
      falla == closeSocketAndRemoveCPU \o fin
  IN  L("fileTable")
      \o Recibe(Recibe(Si("fileTable",
                          Quizas(Envia(fin),
                          Quizas(Envia(Envia(fin)),
                          Quizas(Usa("fileTable") \o fin,
                                 Envia(Usa("fileTable") \o fin)))),
                          Envia(fin)),
                       falla),
                falla)

GuardarArchivo ==
  Recibe(Recibe(Quizas(Usa("fileTable"), Pone("fileTable") \o Pone("fileTableKeys")),
                closeSocketAndRemoveCPU),
         closeSocketAndRemoveCPU)
GuardarSinLock          == GuardarArchivo   \* variant
saveFileDataToFileTable == Con("fileTable", GuardarArchivo)

\* With two or more processes waiting, list_remove(i) runs past the shrinking list.
\* With one, the key stays in fileTableKeys.
closeFile ==
  L("fileTable")
  \o Recibe(Recibe(Si("fileTable",
                      Quizas(Nada,
                      Quizas(Saca("fileTable") \o Saca("fileTableKeys"),
                             unblockProcess(FALSE) \o Quizas(Saca("fileTable"), Muere))),
                      Nada),
                   closeSocketAndRemoveCPU),
            closeSocketAndRemoveCPU)
  \o U("fileTable")

unlockProcess == Recibe(saveFileDataToFileTable \o unblockProcess(TRUE), Nada)

\* A semaphore that signal creates is never put in the dictionary.
signalResource ==
  L("semaphoreList")
  \o Recibe(Envia(U("semaphoreList")),
            closeSocketAndRemoveCPU \o U("semaphoreList"))

waitResource ==
  Recibe(Recibe(Quizas(Nada, Pone("semaphoreList")) \o send_int_with_delay,
                closeSocketAndRemoveCPU),
         closeSocketAndRemoveCPU)

handleCpuConnection ==
  Envia(Envia(Recibe(Recibe(Envia(Con("cpuList", Pone("cpu") \o checkAndInitializeProcesses)),
                            Nada),
                     Nada)))

Tarea ==
  [NEW_CPU_CONNECTION    |-> handleCpuConnection,
   COMPLETED_INSTRUCTION |-> COMPLETED_INSTRUCTION,
   BLOCK_PROCESS_INIT    |-> blockProcessInit,
   BLOCK_PROCESS         |-> _blockProcess,
   PROCESS_ERROR         |-> _killProcess,
   QUANTUM_END           |-> processQuantumEnd,
   CHECK_IF_FILE_OPEN    |-> checkIfFileOpen,
   CLOSE_FILE            |-> closeFile,
   WAIT_RESOURCE         |-> waitResource,
   SIGNAL_RESOURCE       |-> signalResource,
   END_OF_SCRIPT         |-> terminateProcess,
   UNLOCK_PROCESS        |-> unlockProcess]

ComienzoServidor == Con("configFile", Nada)

-----------------------------------------------------------------------------
(* Console.c.  `status <pid>` takes no mutex and changes nothing.          *)

executeScriptSinLock ==   \* variant
  L("metrics") \o Quizas(Usa("metrics") \o U("metrics") \o addProcessToNewQueue, Nada)

\* createProcess returns with the metrics' mutex when calloc fails.
executeScript ==
  L("metrics") \o Quizas(Usa("metrics") \o U("metrics")
                         \o Con("newQueue", addProcessToNewQueue),
                         Nada)

ConColas(A) ==
  L("readyQueue") \o L("blockedQueue") \o L("executionQueue") \o L("finishedQueue") \o A
  \o U("readyQueue") \o U("blockedQueue") \o U("executionQueue") \o U("finishedQueue")

getProcessMetricsSinUnlock ==   \* variant: returns when the process does not exist
  L("readyQueue") \o L("blockedQueue")

\* A process that has not executed anything yet makes it divide by zero; what
\* killProcess or processQuantumEnd left in a queue may point anywhere.
getProcessMetrics ==
  ConColas(Si("procesos", Quizas(Nada, Muere), Nada) \o Si("apartados", Quizas(Nada, Muere), Nada))

getQueuesStatus  == ConColas(Si("apartados", Quizas(Nada, Muere), Nada))
getSystemMetrics == Con("metrics", Usa("metrics"))

terminateProcessConsole == Si("cpu", Quizas(send_int_with_delay, killProcess), killProcess)

Comando ==
  [ejecutar     |-> executeScript,
   status       |-> getQueuesStatus,
   finalizar    |-> terminateProcessConsole,
   metricas     |-> getSystemMetrics,
   metricas_pid |-> getProcessMetrics,
   salir        |-> Muere]

-----------------------------------------------------------------------------
(* Scheduler.c: one turn of each scheduler.  No process can be scheduled:  *)
(* nothing sets canBeScheduled, so getSchedulableProcesses is empty.       *)

_checkExecProc_and_algorithm ==
  Quizas(getFreeCPUs, Nada)
  \o Quizas(Si("shortTermScheduler en 0", Post("shortTermScheduler"), Nada), Nada)

\* With processes in newQueue, one turn of its loop.
longTermSchedulerThread ==
  Wait("longTermScheduler") \o Wait("schedulerNotRunning")
  \o L("newQueue") \o L("readyQueue")
  \o Si("procesos",
        Quizas(addProcessToReadyQueue \o getFreeCPUs
               \o Si("cpu", Quizas(executeProcess, Nada), Nada)
               \o _checkExecProc_and_algorithm,
               Nada),
        Nada)
  \o U("readyQueue") \o U("newQueue") \o Post("schedulerNotRunning")

shortTermSchedulerThread ==
  Wait("shortTermScheduler") \o Wait("schedulerNotRunning")
  \o L("readyQueue") \o L("ioReadyQueue") \o U("readyQueue") \o U("ioReadyQueue")
  \o Post("schedulerNotRunning")

-----------------------------------------------------------------------------
VARIABLES
  guion,    \* what each thread has left of its operation
  comando,  \* the command the console is in
  dueno,    \* owner of each mutex
  sem,      \* value of each semaphore
  datos,    \* which of Datos are not empty
  cpus,     \* number of CPUs in connectedCPUs
  vivo,     \* the process has not ended
  deAntes   \* history: the mutexes a thread had when it began its operation

vars == <<guion, comando, dueno, sem, datos, cpus, vivo, deAntes>>

Init ==
  /\ guion = [servidor |-> ComienzoServidor, consola |-> Nada,
              LTS |-> longTermSchedulerThread, STS |-> shortTermSchedulerThread]
  /\ comando = "ninguno"
  /\ dueno = [m \in Mutexes |-> Nadie]
  /\ sem = [s \in Semaforos |-> IF s = "schedulerNotRunning" THEN 1 ELSE 0]
  /\ datos = {}
  /\ cpus = 0
  /\ vivo = TRUE
  /\ deAntes = [h \in Hilos |-> {}]

Ocioso(h) == guion[h] = Nada
Tiene(h)  == {m \in Mutexes : dueno[m] = h}
Sigue(h)  == ~Ocioso(h) /\ vivo
Actual(h) == Head(guion[h])
Resto(h)  == Tail(guion[h])

\* h has A left to run; a scheduler then begins another turn.
Queda(h, A) ==
  LET fin == A = Nada
      otra == CASE h = "LTS" -> longTermSchedulerThread
                [] h = "STS" -> shortTermSchedulerThread
                [] OTHER -> Nada
  IN  /\ guion' = [guion EXCEPT ![h] = IF fin THEN otra ELSE A]
      /\ deAntes' = [deAntes EXCEPT ![h] = IF fin THEN {} ELSE @]
      /\ comando' = IF fin /\ h = "consola" THEN "ninguno" ELSE comando

Empezar(h, A) ==
  /\ vivo /\ Ocioso(h)
  /\ guion' = [guion EXCEPT ![h] = A]
  /\ deAntes' = [deAntes EXCEPT ![h] = Tiene(h)]
  /\ UNCHANGED <<dueno, sem, datos, cpus, vivo>>

\* A task of a connected module, or a change of the configuration file.
RecibirTarea ==
  \E t \in DOMAIN Tarea :
    /\ t = "NEW_CPU_CONNECTION" => cpus < MaxCpus
    /\ Empezar("servidor", Tarea[t])
    /\ UNCHANGED comando

LeerComando == \E c \in DOMAIN Comando : Empezar("consola", Comando[c]) /\ comando' = c

Sincroniza == {"lock", "unlock", "wait", "post"}

Sincronizar(h) ==
  LET i == Actual(h)[1]
      x == Actual(h)[2]
  IN  /\ Sigue(h) /\ i \in Sincroniza
      /\ i = "lock" => dueno[x] = Nadie
      /\ i = "wait" => sem[x] > 0
      /\ dueno' = IF x \in Mutexes
                  THEN [dueno EXCEPT ![x] = IF i = "lock" THEN h ELSE Nadie] ELSE dueno
      /\ sem' = IF x \in Semaforos
                THEN [sem EXCEPT ![x] = IF i = "post" THEN @ + 1 ELSE @ - 1] ELSE sem
      /\ Queda(h, Resto(h))
      /\ UNCHANGED <<datos, cpus, vivo>>

\* The values a condition may have.
Valores(c) ==
  CASE c = "entorno" -> BOOLEAN
    [] c = "cpu" -> {cpus > 0}
    [] c = "shortTermScheduler en 0" -> {sem["shortTermScheduler"] = 0}
    [] c \in Datos -> {c \in datos}

Decidir(h) ==
  /\ Sigue(h) /\ Actual(h)[1] = "si"
  /\ \E v \in Valores(Actual(h)[2]) : Queda(h, (IF v THEN Actual(h)[3] ELSE Actual(h)[4]) \o Resto(h))
  /\ UNCHANGED <<dueno, sem, datos, cpus, vivo>>

\* The peer sends what the handler reads, or closes.
Llegar(h) ==
  /\ Sigue(h) /\ Actual(h)[1] = "recibe"
  /\ \E v \in BOOLEAN : Queda(h, (IF v THEN Actual(h)[2] ELSE Actual(h)[3]) \o Resto(h))
  /\ UNCHANGED <<dueno, sem, datos, cpus, vivo>>

\* A removal may or may not have been of the last one.
Quedan(i, d) ==
  CASE i = "pone" /\ d \in Datos -> {datos \cup {d}}
    [] i = "saca" /\ d \in Datos -> {datos, datos \ {d}}
    [] OTHER -> {datos}

Acceder(h) ==
  LET i == Actual(h)[1]
      d == Actual(h)[2]
  IN  /\ Sigue(h) /\ i \in {"usa", "pone", "saca"}
      /\ datos' \in Quedan(i, d)
      /\ cpus' = CASE d = "cpu" /\ i = "pone" -> cpus + 1
                   [] d = "cpu" /\ i = "saca" -> cpus - 1
                   [] OTHER -> cpus
      /\ Queda(h, Resto(h))
      /\ UNCHANGED <<dueno, sem, vivo>>

Morir(h) ==
  /\ Sigue(h) /\ Actual(h)[1] = "muere"
  /\ vivo' = FALSE
  /\ guion' = [g \in Hilos |-> Nada]
  /\ dueno' = [m \in Mutexes |-> Nadie]
  /\ deAntes' = [g \in Hilos |-> {}]
  /\ comando' = "ninguno"
  /\ datos' = {} /\ cpus' = 0
  /\ UNCHANGED sem

Ejecutar(h) == Sincronizar(h) \/ Decidir(h) \/ Acceder(h) \/ Morir(h)

Next ==
  \/ RecibirTarea \/ LeerComando
  \/ \E h \in Hilos : Ejecutar(h) \/ Llegar(h)

\* The kernel runs every thread that can run, and a thread that waits for a mutex others
\* lock and unlock again and again gets it in the end; nobody has to send or to type.
Fairness == \A h \in Hilos : WF_vars(Ejecutar(h)) /\ SF_vars(Sincronizar(h))

Spec == Init /\ [][Next]_vars /\ Fairness

-----------------------------------------------------------------------------
(* Properties                                                              *)

Quiere(h) == IF Sigue(h) /\ Actual(h)[1] = "lock" THEN {Actual(h)[2]} ELSE {}

\* The functions take the mutexes in several orders (readyQueue before and after cpuList),
\* yet two or more threads only wait for one another in a ring through a mutex that an
\* earlier operation of its owner did not unlock.
SinEsperaCircular ==
  \A C \in SUBSET Hilos :
    Cardinality(C) >= 2 =>
      ~ \A h \in C : \E m \in Quiere(h) : \E g \in C \ {h} : m \in Tiene(g) \ deAntes[g]

Accede(h, d) == Sigue(h) /\ Actual(h)[1] \in {"si", "usa", "pone", "saca"} /\ Actual(h)[2] = d

\* fileTable is read and changed under fileTableMutex, whoever else unlocks what, with one
\* exception: the look-up of a semaphore's name in it (SchedulerFunctions.c:593), which
\* the thread makes owning semaphoreListMutex instead, while another may change the table.
TablaProtegida ==
  \A h \in Hilos :
    Accede(h, "fileTable") =>
      \/ dueno["fileTable"] = h
      \/ Actual(h) = Head(SemaforoEnTabla) /\ dueno["semaphoreList"] = h

\* What a thread may keep when it goes for its next task or command: the console only the
\* metrics' mutex (createProcess without memory), the server only the three that
\* checkAndInitializeProcesses, checkIfFileOpen and signalResource do not unlock.
LoQueRetiene ==
  vivo =>
    /\ Ocioso("consola")  => Tiene("consola") \subseteq {"metrics"}
    /\ Ocioso("servidor") => Tiene("servidor") \subseteq {"readyQueue", "fileTable", "semaphoreList"}

EnCurso(c) == vivo /\ comando = c

\* `status` shows the queues, unless the server thread has kept readyQueueMutex.
StatusTerminaSalvoLista ==
  EnCurso("status") ~> (~EnCurso("status") \/ dueno["readyQueue"] = "servidor")

\* Console.c:10: ejecutar "Permite ejecutar un script": once executeScript has newQueueMutex
\* the process gets into newQueue and the console reads another command.
EjecutarTermina ==
  (EnCurso("ejecutar") /\ dueno["newQueue"] = "consola") ~> ~EnCurso("ejecutar")
=============================================================================
