# TLA+ models of *Solitario Windows 95* (UTN SO, TP 2018 2C)

Models, model-checking runs and machine-checked proofs for the programs under `src/`.
Names of operations and variables are those of the code; Spanish where the code is Spanish.

## 1. The system

Five processes that talk over TCP sockets with 4-byte integers and length-prefixed strings
(`Bibliotecas/servidor`), plus shared libraries (`Bibliotecas`).

| Part | State it keeps | Operations | Who calls it |
|---|---|---|---|
| **MDJ** (file system), `MDJ/src/MDJ.c` | on disk: `Metadata.bin`, `Bitmap.bin`, `Bloques/*.bin`, `Archivos/*`; in memory: the bit array | start-up, `VALIDAR_ARCHIVO`, `CREAR_ARCHIVO`, a console | ElDiego connects; the two commands have no sender in the repository yet |
| **S-AFA** (scheduler), `S-AFA/src` | seven process queues, CPU list, file table, semaphore list, metrics, configuration, nine mutexes, three semaphores | handlers of CPU and DMA tasks, long- and short-term scheduler threads, console, inotify reload | CPUs, ElDiego, the operator |
| **CPU**, `CPU/src` | current PCB, script, sockets | handshake, execute a process, one function per script instruction | S-AFA |
| **FM9** (memory), `FM9/src/FM9.c` | the memory lines and, per mode, segment table (SEG), inverted page table (TPI) or segmented paging tables (SPI) | store, read, modify, flush, close, dump | CPU, ElDiego |
| **ElDiego** (DMA), `ElDiego/src` | its three client sockets | connects to everyone; its server only logs | CPU |
| **Bibliotecas** | PCB codec; sockets; `commons`: list, queue, dictionary, bit array, strings, configuration, log | libraries | everyone |

Interactions: CPU to S-AFA (handshake, file and semaphore requests, end of quantum, block, error,
end of script), S-AFA to CPU (a PCB to execute), ElDiego to S-AFA (`UNLOCK_PROCESS`), CPU to
FM9 and ElDiego (memory and file operations), ElDiego to MDJ.

The repository is an unfinished course project and it matters to what can be said of it:

* the MDJ and the `commons` library run as they are;
* the S-AFA dies in its start-up (`pthread_attr_init(NULL)` in `initializeVariables`, and
  `pthread_create` with a NULL thread id); its handlers and threads are modelled from the point
  after start-up, each exactly as written, because that is what the authors went on developing;
* the CPU dies in the same `pthread_attr_init(NULL)`, and past it a PCB never arrives (`recvPCB`
  waits for more bytes than `sendPCB` sends, and fills a pointer its caller never sees) and the
  sockets to the DMA and the memory stay 0 (their assignments are commented out); its execution loop
  and its dialogue with the S-AFA are modelled from the point where a PCB is in its hands;
* `FM9.c` does not compile, for two lines (`id = diccionario`, 262 and 291), its `main` never creates
  the server thread, and the bit array of two of its three memory modes is never created;
* no test exercises any of it (`TestArena` tries one string function by hand), and the documentation
  is the comments, the help texts and the messages of the log.

### What is hard

* Threads of the S-AFA that share queues and tables under nine mutexes taken in several orders,
  with early returns that keep them.
* A protocol in which the CPU asks, is told to wait, and asks for the block in another message,
  while someone else may release what it waits for.
* A file system that rewrites its bitmap in place and may die at any system call.
* Single-threaded `select` servers that block in `recv` inside a handler.
* Hand-written tables in the memory (probing, segment search, page tables).

### What makes each part correct

| Part | It is correct if | Where |
|---|---|---|
| MDJ volume | no block has two owners, whatever crash came in between; a restart offers no used block; an archivo has the bytes its size says | `MdjVolumen` |
| MDJ server | a request is read in step and answered once it is whole, and no client gets what another one asked for | `MdjServidor` |
| S-AFA threads | no thread waits for ever for a mutex, and what a mutex guards is touched only under it | `SafaHilos` |
| CPU and S-AFA | request and answer pair up; the PCB that comes back says where the process is (it does if no line was empty); the quantum is respected; a process that was blocked can be unblocked | `CpuSafa` |
| S-AFA file table and semaphores | a file has one owner; who waits for it is not forgotten, and is woken by whoever frees it; of each name, case aside, the list has as many keys as there are files, or more | `SafaArchivos`, one semaphore in `CpuSafa` |
| S-AFA algorithms | round robin and its variant with a credit give each process its turn | not reached by the code |
| FM9 | a page that was loaded is found, in the frame where its lines were stored; a search ends and looks everywhere | `Fm9Tpi` (mode TPI) |
| commons dictionary | behaves as a map through every step of a resize | `Diccionario` |
| commons list | behaves as a sequence, and no node is lost or shared; `list_sort` sorts | `Lista`, `ListaOrdenar` |

## 2. Modules

### Almacen, MdjVolumen, MCMdjVolumen, MdjVolumenProofs: the MDJ's volume

`MdjVolumen` keeps what is on disk (`metadata`, `bitmapBin`, `archivos`, `bytesBloque`), what the
server thread has in memory (`bitarray`, the request and the blocks found for it) and where it is
(`pc`). Every action that changes the disk is one system call of `MDJ.c` or of `config_save`, in the
order of the code: `CrearMetadata`/`EscribirMetadata` and `CrearBitmap`/`EscribirBitmap`/
`CerrarBitmapInicial` at start-up, and for a request `ProximoBloqueLibre` (one turn of the search),
`EscribirBloque` (the block file and the bit in memory), `AbrirBitmap`, `EscribirBitmap`,
`CerrarBitmap` (set_bitarray: truncate, whole stdio buffers, the rest), `AbrirArchivo`,
`EscribirArchivo`, `Responder`. `Caida` kills the process between any two of them, `Arrancar` starts
it again.

What the code leaves undefined is a choice: the uninitialised `rta` of `crear_archivo`
(`RecibirCrearError` and, for a size of zero, `SinEspacio`), and the uninitialised buffer a bit array
is built on when `Bitmap.bin` is empty (`LeerBitmapVacio`). The one exception is the pointer to
a local that `proximo_bloque_libre` returns: the model is the unoptimised build of `MDJ/.cproject`,
in which it reads as the block number.

`Almacen` is what the volume promises: an archivo is emptied and then filled, in one step, with as
many different blocks as its size needs, none of another archivo. `MdjVolumen` implements it with
`perdido <- bitmapPerdido`, the moment a start-up meets an empty `Bitmap.bin`.

| Property | Says |
|---|---|
| `SinBloquesCompartidos` | no block belongs to two archivos, whatever crashed in between, until a bitmap is lost |
| `ReinicioSeguro` | in every state the process could die and restart: the bitmap it would read offers no block of an archivo |
| `BytesCoherentes` | the bytes written to the blocks of a saved archivo add up to its size |
| `ImplementaAlmacen` | refinement of `Almacen` |
| `SolicitudTermina` | a request that reached a handler is answered, or the process dies |

Abstractions: the order of two system calls is kept, their failure is not (except `fopen` of an
archivo in a directory that does not exist, which needs no fault); a block file keeps only its length;
a crash loses no completed system call (process crash, not power loss).

### MdjServidor, MdjServidorProofs: the MDJ's server thread

The `select` loop, `accept`, the dispatch and each blocking `recv` of the two handlers, with clients
that send a request part by part, close whenever they want and connect again once the server has
closed its end. `receive_int` answers -1 for a failed recv, which MDJ.c:198 compares as unsigned: the
connection is not closed, and the command of an earlier turn is handled again (`AtenderError`). A connection has the five states the code can tell apart: open, closed by the client
(`fin`: recv answers 0), reset and not yet reported (`rst`: recv answers -1, once), reset and reported
(`muerta`: recv answers 0, send raises SIGPIPE), and closed.

A string is two parts, its size and its text, as `receive_string` reads it. `receive_int` and
`receive_string` call `recv` once, without `MSG_WAITALL` or a loop (servidor.c:72, 85), so each of them may take
less than a part (`RecvCortado`). From then on the connection is in `cortada`, until it is closed. What it
holds has no borders any more (`"resto"`) and whatever is read from it may be any command, any size or any
text: a size that is 0 or that malloc refuses (`LargoSinSentido`), a path that is not one, which may be the end of the
process (`DatosSinSentido`), an answer nobody asked for.

What the code does and the model therefore shows: after a short recv the client gets answers to
requests it never made, or none; the thread waits in a recv for bytes nobody owes, and then serves
nobody; the next command is what happens to be first. This spoils that connection and no other one, which is what
the properties say. A client that stops in the middle of a request stops the whole server, cut or
not: the handlers block by design, and no property denies it.

| Property | Says |
|---|---|
| `SinDesfase` | between handlers, what is read next from a connection is a command, never a left-over part, unless a recv took less than a part of that connection |
| `RespuestaSolicitada` | an answer is pending only for a client that waits for one, although commands may be handled twice, with the same exception |
| `BloqueoJustificado` | the thread blocks in recv only for a client that still owes that part, with the same exception |
| `SolicitudAtendida` | a whole request is answered, unless its client closes, its connection is cut or the MDJ dies, and as long as the thread is not blocked for ever in another's recv |

### SafaHilos, SafaHilosProofs: the threads of the S-AFA

Server, console, long- and short-term scheduler. Every C function that touches shared state is a
definition of its own name whose value is the sequence of what it does: `lock`/`unlock`, `wait`/`post`,
a branch on shared data or on what the model leaves out, a blocking receive that may fail, an access.
`guion[h]` is what thread `h` has left; `Sincronizar`, `Decidir`, `Llegar`, `Acceder` and `Morir` execute
one element, `RecibirTarea` and `LeerComando` start an operation, the schedulers repeat theirs. Of the
queues and tables only "is there any" is kept. The mutexes are of the default type, so an owner that
locks again waits for ever and anyone may unlock.

No PCB ever reaches a queue: `ejecutar` hangs before it adds one. The branches of the schedulers
and handlers that need a process are in the model and never taken. That is a result
(`EjecutarTermina`), and the reason why what happens to a process afterwards has a model of its own.

| Property | Says |
|---|---|
| `SinEsperaCircular` | a ring of threads that wait for one another passes through a mutex that an earlier operation of its owner kept: the opposite lock orders in the code never close one, for the branches that can be taken agree on one order (`OrdenUnico` in the proofs) |
| `TablaProtegida` | the file table is accessed only by the owner of its mutex, but for one read: the name of a semaphore is looked up in it (SchedulerFunctions.c:593) by the owner of `semaphoreListMutex` |
| `LoQueRetiene` | between operations the console can be left only with the metrics' mutex and the server only with the three that early returns keep |
| `StatusTerminaSalvoLista` | `status` ends unless the server kept `readyQueueMutex` |
| `EjecutarTermina` (violated) | `ejecutar` puts a process in the system |

The second CPU that connects hangs the server thread: `checkAndInitializeProcesses` (called at
ServerThread.c:940) locked `readyQueueMutex` for the first one and never unlocks it. It is one of the three
that `LoQueRetiene` names.

### CpuSafa, MCCpuSafa, CpuSafaProofs: one execution of a process

The main thread of a CPU from the PCB it receives to the end of `executeProcess`, and the S-AFA's
handlers of what it asks meanwhile. `pc` is `"bucle"`, one of the five receives, or an end; a script is a
sequence of kinds of line. The connection is two queues of messages (`pedidos`, `canal`), an answer
tagged with the request it belongs to. The S-AFA is what the dialogue depends on: which queues have
the process, one entry of the file table, one semaphore, whether it is still reading requests from their
first byte, and what it died of. The DMA (`unlockProcess`) and the other CPUs (`Otro...`) are an
environment that acts when it wants. A function that takes a continuation in the code (the switch of
`openFile`, `modifyFileLineInMemory`, `flushFile`, `closeFile`) is `Segun` with the action of the branch.

What the code does and the model therefore shows: the address the S-AFA sends after `FILE_OPEN` is
never read by `abrir` and `flush`, and each later receive is one message behind; `asignar` and `close` wait
for the memory on the S-AFA's socket and go on only because that address is there; who claims a free
file gets no answer; `signal`'s pid is not received and the rest of the request is read as commands;
nothing leaves the loop after a block or an error; `killProcess` tests a pointer it never set (a choice
of three: NULL, and the process is taken out of its queue; the one `updatePCBInExecutionQueue` left on the stack, and it
stays in its queue besides; any other, the end of the S-AFA);
semaphores are looked up in the file table; an empty line is charged twice.

Assumed, though not so in the code as it stands: the PCB arrives, and the sockets to DMA and memory
are those of the connections. Left out: `stopExecution`, which only the CPU's own server sets and
nobody connects to it (`cpu_t.serverSocket` stays 0); what the memory answers, which nobody reads;
a second execution of the same CPU, which is never marked free again.

| Property | Says |
|---|---|
| `PcbExactoSinVacias` | the first PCB an execution sends back has the CPU's quantum, and its program counter and total are those of the lines executed if and only if none was empty; with an empty line it is never "the number of line of the last instruction" (CpuFunctions.c:289), because that line is charged twice |
| `QuantumRespetado` | no process goes beyond its quantum unless an empty line wrapped the counter |
| `RespuestaPropia` | until an address is left unread the four receives that ask the S-AFA get the answer to their own request, and the one that should wait for the memory's confirmation (CpuFunctions.c:1174, 1282) gets the S-AFA's address, never a confirmation |
| `EsperaJustificada` | the only waits without end come from a silent S-AFA or an address taken for `FILE_OPEN` |
| `MuertesDeSafa` | the S-AFA misses the process only in a second message of the same execution, and unblocking kills it only while `BLOCK_PROCESS` is under way, when the process waits for a file it did not block for, or once it was killed |
| `EjecucionTermina` | an execution ends, dies or is in one of those waits |
| `BloqueoTermina` (violated) | after a block or an error no further line is executed |

### SafaArchivos, MCSafaArchivos, SafaArchivosProofs: the file table with several processes

Every process has a CPU of its own that executes any script of `abrir`, `asignar`, `flush` and `close`,
as the functions of `CpuFunctions.c` do: ask whether the file is open, then ask the DMA, block, go on,
send the close. Each has its queue of requests and its queue of answers, so requests of different CPUs
are handled in any order and those of one CPU in theirs. The S-AFA keeps `fileTable` (owner and waiting
list of each file), `fileTableKeys` (the list of names that the code keeps beside the dictionary) and
the queue of each process. Its handlers (`checkIfFileOpen`, `closeFile`, `_blockProcess`, `_killProcess`,
`terminateProcess` with `TerminarYLiberar`) and the end of a load or flush (`unlockProcess`,
`saveFileDataToFileTable`) are one action each, since the server is one thread; the DMA ends what it
was asked in any order.

| Property | Says |
|---|---|
| `AccesoExclusivo` | who writes to a file or closes it owns it in the table from the answer it goes by until it is done, although `closeFile` never compares the owner; until a CPU leaves an address unread |
| `ClavesCoherentes` | the list has a key for every file of the table, names taken without case, and has more only after a close with a process waiting |
| `NadieSePierde` | a process leaves a waiting list only for the ready queue and in the same step, also when the list goes with its file |
| `NadieReclamaAntes` (violated) | the DMA never loads for a process a file that another one has got |

What the code does and the model therefore shows: two processes that open a file not in the table are
both sent to the DMA, and the second load finds it another's (`NadieReclamaAntes`); `removeKeyFromList`
ignores case and the dictionary does not, so closing `A` may take out the key of `a`, which is then not
freed when its owner ends; a close while someone waits leaves its key behind, and the end of any process
that meets that key dereferences NULL (death `"clave"`); a close with two waiting is out of range in the
second turn of its loop (`"lista"`); when an owner with two or more waiting ends, the first waiter is woken
and the file is left free with the others still in its list; a process that was blocked and made ready
again is not in the queue of execution, so its end finds no process (`"sin proceso"`).

Assumed: what `CpuSafa` assumes; and no quantum ends, no address reads as an error, and scripts have no
instruction on semaphores, which would end the S-AFA with the process that used them.

### Fm9Tpi, MCFm9Tpi, Fm9TpiProofs: the memory in its mode TPI

`tabla` is the array of entries with what lies past its end, `datos` the first bytes of each line in the
frames. A request is a load (`guardar_archivo`), a change of a line (`modificar_linea`), a read of one
(`abrir_linea`) or a `flush`; the search for a free entry (`AsignarEntrada`, in
`asignarPaginasIniciales`) and that for the page of a line (`BuscarSiguiente`, in `buscarFrame`) take a step
per turn, with the `hash` of the code. An entry past the end was never initialised: which of them read as
free is a choice (`LibresPorAzar`).

| Property | Says |
|---|---|
| `LoEscritoSeConserva` | what was last stored in a line is what is in the frame where its page is found, whatever was loaded meanwhile, the same process once more included |
| `BusquedaCompleta` | when a search gives up the page is in no entry of the table |
| `BusquedaTermina` | a search that begins inside the table, or at the entry after it, ends |

What the code does and the model therefore shows: a load always answers `ERROR` and stores eight bytes
(the size of a pointer) of the first line only; a line whose page was not assigned by the load is never
reached; a second load of one pid takes other entries for the same pages, and the first stay the ones
that are found; the search for a page that is not there never ends when the hash code is past the table;
the frames of the administrative structure are counted twice, so that as many frames at the end of the
table lie outside the memory (with the two frames of the default configuration, every store does); no
frame is ever freed, since nothing calls `eliminarPid` and `close` only answers; flush reads what may be
outside the memory and dies or sends it.

Assumed, though not so in the code as it stands: that `FM9.c` is built, and its server thread created. Every
store is of `sizeof` a pointer, 8 bytes, so `ConstantesOK` asks for lines of at least that: with shorter ones
a store would reach the next line, which is not modelled.

### Mapa, Diccionario, MCDiccionario, DiccionarioProofs: the hash table

`Diccionario` has the bucket array as chains of elements, with the resize moving one element per step
(`new_table`, `table_index`). The data may be NULL, which is what `config.c:55-56` stores for a line without a
value. `Mapa` is what `dictionary.h` promises, a function from keys to data.

| Property | Says |
|---|---|
| `BienUbicados` | an element is in the bucket of its code for the size of the table it is in, and there is one per code |
| `CuentasExactas` | `table_current_size` is the number of used buckets, and one stays free; `dictionary_size` is the number of elements, in the middle of a resize too, if and only if no element with a NULL was removed since the last cleaning |
| `ImplementaMapa` | every call is a step of `Mapa` or changes nothing, unless its key has the hash code of another key that is in the dictionary; and then nothing changes for the keys of other codes |

What the code does and the model therefore shows: `dictionary_remove` counts a removal only if it answers
something, so after that of a NULL `dictionary_size` stays one ahead of the elements until it is cleaned, against
dictionary.h:96-99 (the history variable `nulos` counts them); the code compares hash codes and not keys, so two keys of
one code are one element: `has_key` answers for either, a `put` of the second replaces the datum of the first
under the first one's name, and the map of `dictionary.h` is broken for those keys (`LlamadaConfundida`) and
for no other.

### Seleccion, Secuencia, Lista, MCLista, ListaProofs, ListaOrdenar, MCListaOrdenar: the linked list

`Lista` models the heap: nodes, links, `head` and `elements_count` of two lists; each call that changes a
list is an action, and those that walk one list while they fill another take a step per element.
`Secuencia` is what callers see (`Seleccion` has the part of a sequence that a condition lets through, as a
recursive function that the proofs can unfold); `ImplementaSecuencia` is the refinement, `HeapCoherente` that count, links
and end agree, also in the middle of a loop, and that no node is in two lists or leaked.
`ListaOrdenar` is `list_sort` with one comparison per step: `Ordenada`, `Estable` (a permutation that keeps
the order of equal data), `Termina`.

## 3. Runs and bounds

| Run | Instance | Why it is enough |
|---|---|---|
| `volumen` | 3 blocks of 2 bytes, stdio buffer of 2, sizes 0, 2, 3, paths `a`, `b`, `Archivos/a`, 2 crashes | two archivos compete for three blocks (the third request finds the volume full), a size of zero, a full and a partly filled last block, `Bitmap.bin` lost, cut at a buffer and cut whole; two crashes allow one inside the recovery of the other |
| `servidor` | 2 clients, no other bound | the state space is finite: a client has at most one request and one old connection, and one that is cut holds at most one `"resto"`; one client is cut while the other is in step |
| `safa_hilos`, `safa_ejecutar` | the four threads, at most 2 registered CPUs | the second CPU is the one that hangs the server; more only repeat it. Every task and command may come at any time, any number of times |
| `cpu`, `cpu_bloqueo` | every script of up to 2 lines, and of up to 3 over `abrir`, `asignar`, `close`, `crear` and empty lines; quantum up to 2; counters of 4 bits; an address that means nothing or reads as `FILE_OPEN` | a pair of instructions is what it takes to read the answer of another, and three to do it twice; quantum 1 and 2 are on both sides of the double charge; 16 is more than any script counts, so only the wrap below zero shows |
| `safa_archivos`, `safa_reclamo` | 3 processes (symmetric), 2 files with names that differ in the case, 4 instructions among all | one owner and two that wait, which is what the loop of `closeFile` and the end of an owner need to go wrong; the fourth instruction is the close or the end that frees the file |
| `fm9_tpi` | 5 frames of 2 lines, pids 1, 2, 5 and 11, loads of up to 3 lines, two values, hash codes up to 6, the entry past the table free or not | pids whose pages collide in the middle of the table, at its end (5) and past it (11); loads of one and two pages, of the same process twice, and into a full table |
| `diccionario` | 6 keys, initial size 2, a datum and NULL, one removal of a NULL between two cleanings (`MaxNulos`) | two resizes; keys that share a bucket always, only while the table is small, or the code itself; the count ahead by one before, during and after a resize |
| `lista` | 2 lists, 4 nodes, 2 data | both ends and the middle of a list, a loop from one into the other, and a heap with no node left |
| `lista_ordenar` | every list of 5 data out of 3 | several passes with a shrinking end, and equal data |

`CHECK_DEADLOCK FALSE` where the system stops: the S-AFA hangs or dies, an execution ends, a list
call dereferences NULL, a sort returns.

Fairness. `MdjVolumen`: weak fairness of start-up and of the handler's steps, since nothing in them
blocks; none for requests or crashes. `MdjServidor`: weak fairness of the server thread as one process and of
a client that started a request and must send the rest; none for connecting, asking, reading or closing.
`SafaHilos`: weak fairness of the steps of each thread, strong of its
mutex and semaphore operations (an owner that frees it
again and again does not starve who waits); none for CPUs, DMA and operator. `CpuSafa`: weak fairness of the
CPU's main thread and of the S-AFA's server thread, none for the DMA and other CPUs.
`ListaOrdenar`: weak fairness of the one thread that runs the call. `Fm9Tpi`: weak fairness of the thread
that serves a request, none for requests. `SafaArchivos`, `Diccionario`, `Lista`: none, they have no
liveness property.

Disagreements with the texts of the repository are runs that end in a violation: `safa_ejecutar`
(Console.c:10), `cpu_bloqueo` (CpuFunctions.c:1132), `safa_reclamo` (ServerThread.c:583).

## 4. Proofs

`MdjVolumenProofs` proves, for every number of blocks, block and buffer size, set of paths, sizes and
number of crashes (`ConstantesOK`): `TypeOK`, `SinBloquesCompartidos`, `ReinicioSeguro`,
`ImplementaAlmacen` and `BytesCoherentes`. The inductive invariant `IInv` adds to the type invariant: what each `pc` says
about the request (the blocks found are increasing and free until they are marked, `i` of them are
marked, in `bloque` there is one left), that the block of an archivo is marked in `bitarray` whenever
the process is up past start-up and in `bitmapBin` as far as the file goes, and that the blocks of
the request in hand are in no archivo. `ReinicioSeguro` alone is not inductive because `AbrirBitmap`
to `CerrarBitmap` rewrite the file from memory, hence the conjunct about memory; that one in turn
needs the disk's after a restart. `BytesCoherentes` stands on `IInv` and one invariant more, `EscritosOK`:
the k-th block of an archivo, and of the request in hand as far as its loop has come, has the bytes
`bytes_del_bloque` gave it; no later request writes there, because the blocks it found are in no archivo. That they add
up to the size (`SumaDeBloques`) needs no induction principle but the least number of blocks at which the sum
would not be the full blocks so far.

The last part of `ListaProofs` is about `ListaOrdenar`. It proves, for every length, every data and every
comparator that stands for a total order (`OrdenarConstantesOK`): `OrdenarTypeOK`, `Ordenada` and `Estable`. `Ordenada` says nothing before
the end, so its inductive invariant adds: what is past the shrinking end is in its place
(`FinalOrdenado`), and in a pass the datum at `index` is not below those passed and, since the last
exchange, they are in order (`Pasada`); the end of a pass turns the second into the first.
`Estable` is inductive with the type invariant alone.

`Fm9TpiProofs` proves, for every configuration, set of pids, bound on lines and choice of what lies past
the table: `TypeOK`, `LoEscritoSeConserva` and `BusquedaCompleta`. An entry that comes later in the table
must not become the one that is found. The argument: no entry is freed, a page takes the first free entry
from its hash code on, hence everything in between is taken (`EnOrden`, and `Asignando` for a search under
way), and an earlier entry of the same page can not appear. For `BusquedaCompleta`, a search has seen
every entry at a smaller distance from where it began (`Mirados`).

`SafaArchivosProofs` proves, for any processes, files and names that agree but for their case: `TypeOK`,
`AccesoExclusivo`, `NadieSePierde` and `ClavesCoherentes`. The owner of a file may change at a close, at the end of a process,
at the end of a load and at a claim. The invariant (`Dialogo`) says for each receive of a CPU what its two
queues may hold. The close is the one request that is not waited for, and it is handled before any later
one of the same CPU; so when a file changes hands its owner has no close on the way and writes nothing.
`ClavesCoherentes` is inductive once the table is known to be finite (`Cuenta`). A load adds one key and one
file of its name; a close with nobody waiting finds a key of that name, since there are as many as files, and
takes it, perhaps another file's, leaving the others in order (`PrimerNombre`, `SinUno`, and a bijection in
`ClaveMenos`); a close with a process waiting takes the file and leaves the key.

`MdjServidorProofs` proves, for any set of clients: `TypeOK`, `SinDesfase`, `RespuestaSolicitada` and
`BloqueoJustificado`. What a client sends until it is answered is one sequence (`Todo`), and the invariant says for
each client that its connection holds a segment of it (`Tramo`). If the server is not in a handler of it
(`EnEspera`): from the handshake, or from the command, to what it has sent; if it is (`EnHandler`): what was sent
and not read, of the command being handled; and if a recv took less than a part from it, nothing but that it is open while its
client is (`DeLaCortada`). Two cases are what the properties are about. A failed recv: only a connection that
holds nothing is reported as reset (an answer unread or sent after the close comes after the whole request), so
the old command handled again finds nothing to read and answers nobody, and a handler is never in such a
recv unless its connection is cut. And a cut connection, whose garbage may start any handler: that handler reads
from it and answers it and nobody else, so no other client's facts change (`Ajeno`).

`CpuSafaProofs` proves, for every set of scripts of fewer than half of 2^w lines (the length of a `t_list` is
an `int`), every quantum, word size and reading of an address: `TypeOK`, `PcbExactoSinVacias`,
`QuantumRespetado`, `RespuestaPropia`, `EsperaJustificada` and `MuertesDeSafa`. The parts of `IInv`:
`Avance`, what the three counters of the CPU are after n lines of which e were empty, the quantum once round
below zero if it was overrun; `DobleCuenta`, the PCB given back first is ahead of them by e, from which
`PcbExactoSinVacias` follows because e is below 2^w; `Cotas`, that an
execution sends at most a message with the PCB per line and one more, so the counts of the DMA and of the
waiting list are bounded by the lines; `EnOrden`, while no address was left unread: of the requests on the way
only the last may be one that is answered, it is the one the CPU waits for, and what is in the channel answers
it, `FILE_OPEN` with its address, anything else alone; `Ultima`, `Callo` and `Dormida`, the same facts that hold
also out of step, when an execution waits and before one begins; `EnEjecucion`, the process is in the queue of
execution until the first message with its PCB is handled; `Desbloqueos`, of the DMA and the file's waiting
list at most one owes the process an unblock, and once nothing is on the way it is in the queue of blocked
ones. `RespuestaPropia` alone is not inductive because a receive says nothing of the requests behind it, and
`MuertesDeSafa` because the death comes in a step of the DMA or of another CPU, two messages later. The proof
groups the steps by what they do (`Turno` of the CPU, `Manejo` of the S-AFA, `Aparte` of the others), with one
lemma for each action that says which of them it is, and one for each part of the invariant that keeps it.

`DiccionarioProofs` proves, for every set of keys, hash function, data (NULL or not) and initial size: `TypeOK`,
`BienUbicados`, `CuentasExactas` (`CuentasCorrectas`) and `ImplementaMapa` (if the word that stands for no element is no
datum); and, if no two keys have one hash code, that the dictionary implements `Mapa` in every call
(`MapaSinColisiones`). The invariant has of the counts that `elements_amount` is the number of elements plus that of
the removals of a NULL (`Cuantos`), from which both directions of `CuentasExactas` follow. The rest of `IInv`: placement and uniqueness chain by chain (`BienPuestas`);
the chains walked by the resize are empty (`Recorrido`), so that nothing is left behind when the tables change
places; and `UnoLibre`, the reason why the table never fills up: the element that started the resize was alone
in its chain j, therefore of the chains j and j + n of the new table one stays empty. A step that moves an
element needs that a code is, modulo 2n, at its position modulo n or n further (`PosicionDoble`). In the
refinement two sets of elements that differ in those of one code are two maps that agree on the keys of other
codes (`MapasQueDifieren`), and that differ in one key if no other has its code there (`SinConfundir`, `SoloCambia`);
an insertion counts when it begins, and the resize is invisible (`ResizeInvisible`).

`ListaProofs` proves, for every set of lists, nodes and data: `HeapCoherente`. Its invariant exhibits for each
list the sequence of its nodes (`Enlazadas`): the head is the first, each links to the next and the last to
NULL, no node is twice in them and every node alive is in one. The calls insert a node into one of those
sequences (`Insercion`: `list_add`, `list_add_in_index`), take one out (`Extraccion`: `list_remove`), drop one
sequence (`list_clean`) or, for a turn of `list_take_and_remove`, take out and then insert, in the node just
freed if malloc gives it again. What a walk of i links reaches is a recursive function; `NodoEs` says which
element of the sequence it is, by the least i at which it would not be. On the same invariant stands
`ImplementaSecuencia`, the refinement: the data that a walk reads (`Cadenas`) are those of the nodes of the
sequence (`SeLeenLosDatos`), so an insertion and an extraction of a node are those of a datum (`VistaMas`,
`VistaMenos`). A loop over two lists counts when it begins; a turn of an iteration moves the first of the data
still to visit from the part that is promised to the part that is there (`IteradasUna`, and `ElResto`: the node
the iteration is at says how many are left), and a turn of `list_take_and_remove` does so with the first of the
origin, or with a NULL when it has run out (`TomadasUna`, `TomadasSinOrigen`).

`SafaHilosProofs` proves, for any number of CPUs, `SinEsperaCircular`, `TablaProtegida` and `LoQueRetiene`.
The only assumption is that the word for "no owner" is not a thread (`NadieOK`). What a thread has left to run
is a sequence with sequences inside, so an invariant that listed its program points would be as long as the
code. Instead, `Cumple(R, A, N)` says of what is left, `A`, and of the mutexes `N` locked in the operation,
that it goes on well in every branch: there is a set of such pairs, closed under the steps of a thread, whose
members all respect the rules of `Bien`. The rules: a mutex is locked after all in `N` in one order (`Puesto`),
or it is one the thread has and only it unlocks (`Exactos`), and there it stays; `fileTable` is accessed with
its mutex in `N`, but for the look-up of a semaphore's name, made with that of the semaphores in `N` (`Mira`); nothing waits but for a semaphore nobody posts; no process is added to a queue; an operation
ends with no more than `R`. `Lleva(A, N, Q)` is the triple of Hoare logic that follows, with one lemma for each
building block and one for each C function, from those of the functions it calls; `CadaTarea` and
`CadaComando` put them together. `Invariante` says that each of the two threads that run is in such a
state (`Sostiene`), where another thread may have unlocked what is not in `Exactos` (`unblockProcess` unlocks the
metrics of whoever has them), that both schedulers are at their first wait with its semaphore at zero
(`SinProcesos`), and what each thread may have kept from earlier operations. `SinEsperaCircular` follows from
`OrdenUnico`: round a ring the place in the order would grow for ever. The order is
`newQueue`, `metrics`, `semaphoreList`, `fileTable`, `configFile`, `cpuList`, `readyQueue`, `blockedQueue`,
`executionQueue`, `finishedQueue`, `ioReadyQueue`. It is that of the branches that can be taken: the
long-term scheduler has `readyQueue` before `cpuList`, in code it reaches only with a process in `newQueue`.

Model-checked only: every liveness property (liveness under fairness is out of the prover's reach), and the
properties of the runs that end in a violation.

## 5. Not modelled

* MDJ console (`ls`, `clear`): changes no state of the volume or the server.
* S-AFA start-up and configuration: sequential, ends the process; reload only replaces `config`.
* S-AFA `Algorithms.c`: `scheduleProcesses` is never assigned and `canBeScheduled` never set.
* CPU server thread, `initializeProcess`, `countProcessInstructions`: nobody connects to the first; the
  others die on the PCB they do not get. The handshake of the CPU takes one message less than the S-AFA
  sends; the one left is discarded as an unknown task.
* PCB codec: `sendPCB` sends less than `recvPCB` waits for, for every PCB; one fact about two functions.
* S-AFA semaphores with several processes: the end of a process that used one dies looking it up in the
  table of files; one of them, as one process sees it, is in `CpuSafa`.
* FM9 modes SEG and SPI: the first store dereferences the bit array that is never created.
* ElDiego: its server logs what it receives; it is the environment of `CpuSafa` and a client of `MdjServidor`.
* `commons` queue (calls `list` at its ends), strings, text files, log, time, process: no state of their own.

## 6. Plan

Order followed: the volume and its server, the only process that runs as it is; the libraries it and all
the others stand on; the threads of the S-AFA; one execution of a process across the CPU and the S-AFA;
the file table with several processes; the inverted page table; proofs of the volume, its server,
the sort, the file table, the page table, the execution of a process, the dictionary, the linked lists and
the mutexes of the S-AFA. Every invariant and action property of the runs that pass is a theorem.
