---------------------------- MODULE Fm9TpiProofs ----------------------------
(***************************************************************************)
(* Proofs about the inverted page table of the FM9, for any configuration. *)
(*                                                                         *)
(* No entry is ever freed, and a page takes the first free entry from its  *)
(* hash code on: between the two every entry stays taken, so that a later  *)
(* entry of the same page can not come before it (EnOrden, Asignando).     *)
(* And a search has seen every entry before the one it is at (Mirados).    *)
(***************************************************************************)
EXTENDS Fm9Tpi, TLAPS

Tipos == {"ABRIR_ARCHIVO", "MODIFICAR_LINEA", "CARGAR_PROCESO"}
Pedidos == [tipo : Tipos, pid : Pids, nroPag : NrosPag, offset : Offsets, valor : Valores]

HashDe(c) == hash(c.pid, c.nroPag)

\* From the hash code of the page up to the entry no entry is free.
Tomadas(t, h, f) == \A g \in Entradas : h <= g /\ g < f => t[g] # Libre

\* While a request is served it is a whole one, and the search began at its hash code.
EnTurno ==
  /\ pc \in {"asignar", "buscar", "sin pagina"} => pedido \in Pedidos
  /\ pc \in {"buscar", "sin pagina"} => frameAux = HashDe(Clave)

\* The entry of a page comes after its hash code and everything in between is taken.
EnOrden ==
  \A f \in Entradas : tabla[f] \in Claves =>
    HashDe(tabla[f]) <= f /\ Tomadas(tabla, HashDe(tabla[f]), f)

\* What the search for a free entry went past is taken.
Asignando ==
  pc = "asignar" /\ pag < paginas =>
    Tomadas(tabla, hash(pedido.pid, pag), hash(pedido.pid, pag) + cont_frame)

\* Unless it is where it began, what the search for a page went past is not the page.
Mirados ==
  pc = "buscar" =>
    \/ frame = frameAux
    \/ /\ frame <= MARCOS
       /\ \A g \in 0 .. MARCOS : Distancia(Clave, g) < Distancia(Clave, frame) => tabla[g] # Clave

SinPagina == pc = "sin pagina" => \A g \in 0 .. MARCOS : tabla[g] # Clave

IInv ==
  /\ TypeOK
  /\ EnTurno
  /\ EnOrden
  /\ Asignando
  /\ Mirados
  /\ SinPagina
  /\ LoEscritoSeConserva

-----------------------------------------------------------------------------
(* The configuration *)

LEMMA Division ==
  ASSUME NEW a \in Nat, NEW b \in Nat \ {0}
  PROVE  a \div b \in Nat /\ a % b \in 0 .. b - 1
<1>1. a \div b \in Int /\ a % b \in 0 .. b - 1
  OBVIOUS
<1>2. a \div b >= 0
  OBVIOUS
<1> QED
  BY <1>1, <1>2

\* More lines do not need fewer pages.
LEMMA PaginasCrece ==
  ASSUME NEW n \in Nat, NEW m \in Nat, n <= m, CANTIDADLINEASxPAG \in Nat \ {0}
  PROVE  Paginas(n) \in Nat /\ Paginas(n) <= Paginas(m)
<1> DEFINE L == CANTIDADLINEASxPAG
<1>1. /\ n \div L \in Nat /\ n % L \in 0 .. L - 1
      /\ m \div L \in Nat /\ m % L \in 0 .. L - 1
  BY Division
<1>2. ASSUME NEW a \in Int, NEW b \in Int, NEW c \in Int, b > 0, a <= c
      PROVE  a \div b <= c \div b /\ (a \div b = c \div b => a % b <= c % b)
  <2>1. a \div b <= c \div b
    BY <1>2
  <2>2. ASSUME a \div b = c \div b PROVE a % b <= c % b
    BY <1>2, <2>2
  <2> QED
    BY <2>1, <2>2
<1>3. n \div L <= m \div L /\ (n \div L = m \div L => n % L <= m % L)
  BY <1>2
<1> QED
  BY <1>1, <1>3 DEF Paginas

LEMMA Configuracion ==
  /\ MARCOS \in Nat \ {0} /\ CANTIDADLINEASxPAG \in Nat \ {0}
  /\ MaxLineas \in Nat /\ Tope \in Nat
  /\ 0 \in NrosPag /\ 0 \in Offsets
  /\ NrosPag \subseteq Nat
  /\ \A n \in 0 .. MaxLineas : Paginas(n) \in NrosPag /\ n % CANTIDADLINEASxPAG \in Offsets
<1>1. /\ TAMANIO \in Nat \ {0} /\ TAM_PAGINA \in Nat \ {0} /\ MAX_LINEA \in Nat \ {0}
      /\ MAX_LINEA <= TAM_PAGINA /\ TAM_PAGINA <= TAMANIO /\ MaxLineas \in Nat \ {0}
  BY ConstantesOK
<1>2. ASSUME NEW a \in Nat \ {0}, NEW b \in Nat \ {0}, b <= a PROVE a \div b \in Nat \ {0}
  <2>1. b \div b = 1
    OBVIOUS
  <2>2. ASSUME NEW x \in Int, NEW y \in Int, NEW z \in Int, y > 0, x <= z
        PROVE  x \div y <= z \div y
    BY <2>2
  <2>3. b \div b <= a \div b
    BY <1>2, <2>2
  <2> QED
    BY <2>1, <2>3, Division
<1>3. MARCOS \in Nat \ {0}
  BY <1>1, <1>2 DEF MARCOS, MARCO_SIZE
<1>4. CANTIDADLINEASxPAG \in Nat \ {0}
  BY <1>1, <1>2 DEF CANTIDADLINEASxPAG, MARCO_SIZE
<1>5. ASSUME NEW n \in 0 .. MaxLineas
      PROVE  Paginas(n) \in NrosPag /\ n % CANTIDADLINEASxPAG \in Offsets
  <2>1. Paginas(n) \in Nat /\ Paginas(n) <= Paginas(MaxLineas) /\ Paginas(MaxLineas) \in Nat
    BY <1>1, <1>4, PaginasCrece
  <2>2. n % CANTIDADLINEASxPAG \in 0 .. CANTIDADLINEASxPAG - 1
    BY <1>4, Division
  <2> QED
    BY <2>1, <2>2 DEF NrosPag, Offsets
<1>6. Paginas(MaxLineas) \in Nat
  BY <1>1, <1>4, PaginasCrece
<1> QED
  BY <1>1, <1>3, <1>4, <1>5, <1>6, TopeOK DEF NrosPag, Offsets

LEMMA ClavesLibres ==
  /\ Libre \notin Claves
  /\ \A c \in Claves : HashDe(c) \in 0 .. Tope
  /\ \A p \in Pids, g \in NrosPag :
       [pid |-> p, nroPag |-> g] \in Claves /\ HashDe([pid |-> p, nroPag |-> g]) = hash(p, g)
  /\ \A r \in Pedidos : [pid |-> r.pid, nroPag |-> r.nroPag] \in Claves
<1>1. Libre \notin Claves
  BY ConstantesOK DEF Libre, PAGINALIBRE, Claves
<1>2. \A c \in Claves : HashDe(c) \in 0 .. Tope
  BY TopeOK DEF HashDe
<1>3. ASSUME NEW p \in Pids, NEW g \in NrosPag
      PROVE [pid |-> p, nroPag |-> g] \in Claves /\ HashDe([pid |-> p, nroPag |-> g]) = hash(p, g)
  BY DEF Claves, HashDe
<1>4. \A r \in Pedidos : [pid |-> r.pid, nroPag |-> r.nroPag] \in Claves
  BY DEF Pedidos, Claves
<1> QED
  BY <1>1, <1>2, <1>3, <1>4

LEMMA Enteros ==
  /\ MARCOS \in Nat /\ MARCOS >= 1 /\ Tope \in Nat /\ NrosPag \subseteq Nat
  /\ \A e : e \in 0 .. Tope => e \in Nat
  /\ \A e : e \in 0 .. MARCOS + 1 => e \in Nat
  /\ \A e : e \in Entradas => e \in Nat
<1>1. MARCOS \in Nat /\ MARCOS >= 1 /\ Tope \in Nat /\ NrosPag \subseteq Nat
  BY Configuracion
<1> QED
  BY <1>1 DEF Entradas

LEMMA HashDePedido ==
  ASSUME NEW r \in Pedidos, NEW n \in NrosPag
  PROVE  hash(r.pid, n) \in 0 .. Tope /\ hash(r.pid, n) \in Nat
<1>1. r.pid \in Pids
  BY DEF Pedidos
<1>2. hash(r.pid, n) \in 0 .. Tope
  BY <1>1, ClavesLibres
<1> QED
  BY <1>2, Enteros

-----------------------------------------------------------------------------
(* Types and the request under way *)

LEMMA InitInv == Init => IInv
<1> SUFFICES ASSUME Init PROVE IInv
  OBVIOUS
<1> USE Configuracion
<1>1. TypeOK
  <2>1. tabla \in [Entradas -> Claves \union {Libre, Otra}]
    BY DEF Init
  <2>2. datos \in [Marcos \X Offsets -> Valores \union {Basura}]
    BY DEF Init
  <2>3. escrito \in [Claves \X Offsets -> Valores \union {Basura}]
    BY DEF Init
  <2> QED
    BY <2>1, <2>2, <2>3 DEF Init, TypeOK
<1>2. EnOrden
  <2>1. \A f \in Entradas : tabla[f] \in {Libre, Otra}
    BY DEF Init
  <2>2. Otra \notin Claves
    BY ConstantesOK DEF Otra, Claves
  <2> QED
    BY <2>1, <2>2, ClavesLibres DEF EnOrden
<1>3. EnTurno /\ Asignando /\ Mirados /\ SinPagina
  BY DEF Init, EnTurno, Asignando, Mirados, SinPagina
<1>4. LoEscritoSeConserva
  BY DEF Init, LoEscritoSeConserva
<1> QED
  BY <1>1, <1>2, <1>3, <1>4 DEF IInv

LEMMA Tipado == TypeOK /\ EnTurno /\ [Next]_vars => TypeOK' /\ EnTurno'
<1> SUFFICES ASSUME TypeOK, EnTurno, [Next]_vars PROVE TypeOK' /\ EnTurno'
  OBVIOUS
<1>0. /\ MARCOS \in Nat \ {0} /\ Tope \in Nat /\ NrosPag \subseteq Nat
      /\ 0 \in NrosPag /\ 0 \in Offsets
  BY Configuracion
<1>1. ASSUME NEW como \in {"libre", "muerto"}, Terminar(como), UNCHANGED tabla,
             datos' \in [Marcos \X Offsets -> Valores \union {Basura}],
             escrito' \in [Claves \X Offsets -> Valores \union {Basura}]
      PROVE  TypeOK' /\ EnTurno'
  <2>1. EnTurno'
    BY <1>1 DEF Terminar, EnTurno
  <2>2. /\ pc' \in {"libre", "muerto"} /\ pedido' = NadaPedido /\ paginas' = 0 /\ pag' = 0
        /\ cont_frame' = 0 /\ frame' = 0 /\ frameAux' = 0
    BY <1>1 DEF Terminar
  <2>3. /\ 0 \in 0 .. Tope /\ 0 \in 0 .. MARCOS + 1 /\ 0 \in 0 .. 0
    BY <1>0
  <2> QED
    BY <1>0, <1>1, <2>1, <2>2, <2>3 DEF TypeOK
<1>2. ASSUME NEW tipo \in {"ABRIR_ARCHIVO", "MODIFICAR_LINEA"}, Linea(tipo)
      PROVE  TypeOK' /\ EnTurno'
  <2>1. PICK p \in Pids, n \in 0 .. MaxLineas - 1, v \in Valores :
          /\ pedido' = [tipo |-> tipo, pid |-> p, nroPag |-> Paginas(n),
                        offset |-> n % CANTIDADLINEASxPAG, valor |-> v]
          /\ EmpezarBusqueda([pid |-> p, nroPag |-> Paginas(n)])
    BY <1>2 DEF Linea
  <2>2. Paginas(n) \in NrosPag /\ n % CANTIDADLINEASxPAG \in Offsets
    <3>1. n \in 0 .. MaxLineas
      BY Configuracion
    <3> QED
      BY <3>1, Configuracion
  <2>3. pedido' \in Pedidos
    BY <2>1, <2>2 DEF Pedidos, Tipos
  <2>4. HashDe([pid |-> p, nroPag |-> Paginas(n)]) \in 0 .. Tope
    BY <2>2, ClavesLibres
  <2>5. pc' = "buscar" /\ frame' = hash(p, Paginas(n)) /\ frameAux' = hash(p, Paginas(n))
    BY <2>1 DEF EmpezarBusqueda
  <2>6. frame' \in 0 .. Tope /\ frameAux' = HashDe(Clave')
    BY <2>1, <2>4, <2>5 DEF HashDe, Clave
  <2>7. UNCHANGED <<tabla, datos, paginas, pag, cont_frame, escrito>>
    BY <1>2 DEF Linea
  <2>8. EnTurno'
    BY <2>3, <2>5, <2>6 DEF EnTurno
  <2> QED
    BY <2>3, <2>5, <2>6, <2>7, <2>8 DEF Pedidos, Tipos, TypeOK
<1>3. CASE guardar_archivo
  <2>1. PICK p \in Pids, n \in 0 .. MaxLineas, v \in Valores :
          /\ pedido' = [tipo |-> "CARGAR_PROCESO", pid |-> p, nroPag |-> 0, offset |-> 0,
                        valor |-> v]
          /\ paginas' = Paginas(n)
    BY <1>3 DEF guardar_archivo
  <2>2. pedido' \in Pedidos /\ paginas' \in NrosPag
    BY <1>0, <2>1, Configuracion DEF Pedidos, Tipos
  <2>3. /\ pag' = 0 /\ cont_frame' = 0 /\ pc' = "asignar"
        /\ UNCHANGED <<tabla, datos, frame, frameAux, escrito>>
    BY <1>3 DEF guardar_archivo
  <2>4. pag' \in 0 .. paginas' /\ cont_frame' \in 0 .. MARCOS + 1
    BY <1>0, <2>2, <2>3
  <2>5. EnTurno'
    BY <2>2, <2>3 DEF EnTurno
  <2> QED
    BY <2>2, <2>3, <2>4, <2>5 DEF Pedidos, Tipos, TypeOK
<1>4. CASE flush
  BY <1>4, <1>1 DEF flush, TypeOK
<1>5. CASE FinDeAsignar
  <2>1. pedido \in Pedidos /\ pc' = "buscar" /\ frame' = HashDe(Clave) /\ frameAux' = HashDe(Clave)
    BY <1>5 DEF FinDeAsignar, EmpezarBusqueda, EnTurno, HashDe
  <2>2. Clave \in Claves /\ HashDe(Clave) \in 0 .. Tope
    BY <2>1, ClavesLibres DEF Clave
  <2>3. UNCHANGED <<tabla, datos, pedido, paginas, pag, cont_frame, escrito>>
    BY <1>5 DEF FinDeAsignar
  <2>4. Clave' = Clave
    BY <2>3 DEF Clave
  <2>5. EnTurno'
    BY <2>1, <2>3, <2>4 DEF EnTurno
  <2> QED
    BY <2>1, <2>2, <2>3, <2>5 DEF TypeOK
<1>6. CASE AsignarEntrada
  <2>1. pedido \in Pedidos /\ pag \in 0 .. paginas /\ paginas \in NrosPag /\ pag < paginas
    BY <1>6 DEF AsignarEntrada, EnTurno, TypeOK
  <2>2. pag \in NrosPag /\ pag + 1 \in 0 .. paginas
    BY <1>0, <2>1, Configuracion DEF NrosPag
  <2>3. [pid |-> pedido.pid, nroPag |-> pag] \in Claves
    BY <2>1, <2>2, ClavesLibres DEF Pedidos
  <2>4. tabla' \in [Entradas -> Claves \union {Libre, Otra}]
    BY <1>6, <2>3 DEF AsignarEntrada, TypeOK
  <2>5. pag' \in 0 .. paginas /\ cont_frame' \in 0 .. MARCOS + 1 /\ pc' = "asignar"
    BY <1>0, <1>6, <2>2 DEF AsignarEntrada, ConSiguientePagina, TypeOK
  <2>6. UNCHANGED <<datos, pedido, paginas, frame, frameAux, escrito>>
    BY <1>6 DEF AsignarEntrada
  <2> QED
    BY <2>1, <2>4, <2>5, <2>6 DEF EnTurno, TypeOK
<1>7. CASE BuscarSiguiente
  <2>1. /\ pc = "buscar" /\ pc' \in {"buscar", "sin pagina"}
        /\ frame' = Siguiente(frame)
        /\ UNCHANGED <<tabla, datos, pedido, paginas, pag, cont_frame, frameAux, escrito>>
    BY <1>7 DEF BuscarSiguiente
  <2>2. frame' \in 0 .. MARCOS
    <3>0. frame \in 0 .. Tope \/ frame \in 0 .. MARCOS
      BY DEF TypeOK
    <3>1. frame \in Nat
      BY <3>0, <1>0
    <3>2. frame + 1 > MARCOS \/ frame + 1 \in 0 .. MARCOS
      BY <3>1, <1>0
    <3>3. 0 \in 0 .. MARCOS
      BY <1>0
    <3> QED
      BY <2>1, <3>2, <3>3 DEF Siguiente
  <2>3. EnTurno'
    BY <2>1 DEF EnTurno, Clave
  <2> QED
    BY <2>1, <2>2, <2>3 DEF TypeOK
<1>8. CASE Acceder
  <2>1. pedido \in Pedidos
    BY <1>8 DEF Acceder, EnTurno
  <2>2. datos' \in [Marcos \X Offsets -> Valores \union {Basura}]
    BY <1>8, <2>1, ClavesLibres DEF Acceder, Pedidos, Clave, TypeOK
  <2>3. escrito' \in [Claves \X Offsets -> Valores \union {Basura}]
    BY <1>8, <2>1, ClavesLibres DEF Acceder, Pedidos, Clave, TypeOK
  <2> QED
    BY <1>8, <1>1, <2>2, <2>3 DEF Acceder
<1>9. CASE AccederFuera
  BY <1>9, <1>1 DEF AccederFuera, TypeOK
<1>10. CASE ResponderError
  BY <1>10, <1>1 DEF ResponderError, TypeOK
<1>11. CASE UNCHANGED vars
  BY <1>11 DEF vars, servidor, EnTurno, Clave, TypeOK
<1> QED
  BY <1>2, <1>3, <1>4, <1>5, <1>6, <1>7, <1>8, <1>9, <1>10, <1>11
     DEF Next, Pedir, Servir, abrir_linea, modificar_linea

\* The variables keep their types (the searches of the table: no index leaves the
\* entries modelled, asignarPaginasIniciales and buscarFrame).
THEOREM TipoCorrecto == Spec => []TypeOK
<1>1. Init => TypeOK /\ EnTurno
  BY InitInv DEF IInv
<1> QED
  BY <1>1, Tipado, PTL DEF Spec

-----------------------------------------------------------------------------
(* The order of the entries *)

\* A step takes at most one free entry, for the page that is being assigned.
LEMMA TablaCrece ==
  ASSUME TypeOK, EnTurno, [Next]_vars
  PROVE  \/ UNCHANGED tabla
         \/ /\ AsignarEntrada
            /\ LET e == hash(pedido.pid, pag) + cont_frame
                   c == [pid |-> pedido.pid, nroPag |-> pag]
               IN /\ e \in Entradas /\ c \in Claves
                  /\ tabla[e] = Libre
                  /\ tabla'[e] = c
                  /\ \A f \in Entradas \ {e} : tabla'[f] = tabla[f]
<1>1. CASE AsignarEntrada
  <2> DEFINE e == hash(pedido.pid, pag) + cont_frame
             c == [pid |-> pedido.pid, nroPag |-> pag]
  <2>1. pedido \in Pedidos /\ pag \in 0 .. paginas /\ paginas \in NrosPag /\ pag < paginas
    BY <1>1 DEF AsignarEntrada, EnTurno, TypeOK
  <2>2. pag \in NrosPag
    BY <2>1, Configuracion DEF NrosPag
  <2>3. c \in Claves /\ hash(pedido.pid, pag) \in 0 .. Tope
    BY <2>1, <2>2, ClavesLibres DEF Pedidos
  <2>4. cont_frame \in 0 .. MARCOS + 1
    BY DEF TypeOK
  <2>5. e \in Entradas
    BY <2>3, <2>4, Configuracion DEF Entradas
  <2>6. UNCHANGED tabla \/ (tabla[e] = Libre /\ tabla' = [tabla EXCEPT ![e] = c])
    BY <1>1 DEF AsignarEntrada, EstaLibre
  <2>7. tabla \in [Entradas -> Claves \union {Libre, Otra}]
    BY DEF TypeOK
  <2> HIDE DEF e, c
  <2>8. UNCHANGED tabla \/ (/\ tabla[e] = Libre /\ tabla'[e] = c
                            /\ \A f \in Entradas \ {e} : tabla'[f] = tabla[f])
    BY <2>5, <2>6, <2>7
  <2> QED
    BY <1>1, <2>3, <2>5, <2>8 DEF e, c
<1>2. CASE ~AsignarEntrada
  BY <1>2 DEF Next, Pedir, Servir, abrir_linea, modificar_linea, Linea, guardar_archivo, flush,
              FinDeAsignar, BuscarSiguiente, Acceder, AccederFuera, ResponderError, vars
<1> QED
  BY <1>1, <1>2

\* No entry becomes free.
LEMMA SigueTomada ==
  ASSUME TypeOK, EnTurno, [Next]_vars, NEW f \in Entradas, tabla[f] # Libre
  PROVE  tabla'[f] = tabla[f]
BY TablaCrece

LEMMA OrdenPaso ==
  TypeOK /\ EnTurno /\ EnOrden /\ Asignando /\ [Next]_vars => EnOrden' /\ Asignando'
<1> SUFFICES ASSUME TypeOK, EnTurno, EnOrden, Asignando, [Next]_vars
             PROVE  EnOrden' /\ Asignando'
  OBVIOUS
<1>1. ASSUME NEW h, NEW f, Tomadas(tabla, h, f) PROVE Tomadas(tabla', h, f)
  BY <1>1, SigueTomada DEF Tomadas
<1>2. EnOrden'
  <2> SUFFICES ASSUME NEW f \in Entradas, tabla'[f] \in Claves
               PROVE  HashDe(tabla'[f]) <= f /\ Tomadas(tabla', HashDe(tabla'[f]), f)
    BY DEF EnOrden
  <2>1. CASE tabla'[f] = tabla[f]
    <3>1. HashDe(tabla[f]) <= f /\ Tomadas(tabla, HashDe(tabla[f]), f)
      BY <2>1 DEF EnOrden
    <3> QED
      BY <3>1, <2>1, <1>1
  <2>2. CASE tabla'[f] # tabla[f]
    <3> DEFINE h == hash(pedido.pid, pag)
               c == [pid |-> pedido.pid, nroPag |-> pag]
    <3>1. AsignarEntrada /\ f = h + cont_frame /\ tabla'[f] = c /\ c \in Claves
      BY <2>2, TablaCrece
    <3>2. HashDe(c) = h
      BY DEF HashDe
    <3>3. Tomadas(tabla, h, h + cont_frame)
      BY <3>1 DEF AsignarEntrada, Asignando
    <3>4. h \in Nat /\ cont_frame \in Nat
      <4>1. cont_frame \in 0 .. MARCOS + 1
        BY DEF TypeOK
      <4>2. HashDe(c) \in 0 .. Tope
        BY <3>1, ClavesLibres
      <4> QED
        BY <4>1, <4>2, <3>2, Enteros
    <3> HIDE DEF h, c
    <3>5. HashDe(c) <= f
      BY <3>1, <3>2, <3>4
    <3>6. Tomadas(tabla', h, f)
      BY <3>1, <3>3, <1>1
    <3> QED
      BY <3>1, <3>2, <3>5, <3>6
  <2> QED
    BY <2>1, <2>2
<1>3. Asignando'
  <2> SUFFICES ASSUME pc' = "asignar", pag' < paginas'
               PROVE  Tomadas(tabla', hash(pedido'.pid, pag'), hash(pedido'.pid, pag') + cont_frame')
    BY DEF Asignando
  <2> DEFINE h == hash(pedido'.pid, pag')
  <2>1. TypeOK' /\ EnTurno'
    BY Tipado
  <2>2. h \in Nat
    <3>1. pedido' \in Pedidos /\ pag' \in 0 .. paginas' /\ paginas' \in NrosPag
      BY <2>1 DEF TypeOK, EnTurno
    <3>2. pag' \in NrosPag
      BY <3>1, Configuracion DEF NrosPag
    <3> QED
      BY <3>1, <3>2, HashDePedido
  <2>3. ASSUME cont_frame' = 0 PROVE Tomadas(tabla', h, h + cont_frame')
    <3> HIDE DEF h
    <3> QED
      BY <2>2, <2>3, Configuracion DEF Tomadas, Entradas
  <2>4. CASE guardar_archivo
    BY <2>3, <2>4 DEF guardar_archivo
  <2>5. CASE AsignarEntrada /\ cont_frame' # 0
    <3>1. /\ cont_frame' = cont_frame + 1 /\ UNCHANGED <<pedido, paginas, pag, tabla>>
          /\ pc = "asignar" /\ pag < paginas /\ tabla[h + cont_frame] # Libre
      BY <2>5 DEF AsignarEntrada, ConSiguientePagina, EstaLibre
    <3>2. Tomadas(tabla, h, h + cont_frame)
      BY <3>1 DEF Asignando
    <3>3. cont_frame \in Nat
      <4>1. cont_frame \in 0 .. MARCOS + 1
        BY DEF TypeOK
      <4> QED
        BY <4>1, Enteros
    <3> HIDE DEF h
    <3>4. ASSUME NEW g \in Entradas, h <= g, g < h + cont_frame' PROVE tabla'[g] # Libre
      <4>1. g \in Int
        BY Configuracion DEF Entradas
      <4>2. g < h + cont_frame \/ g = h + cont_frame
        BY <4>1, <3>4, <3>1, <3>3, <2>2
      <4> QED
        BY <4>2, <3>1, <3>2, <3>4 DEF Tomadas
    <3> QED
      BY <3>4, <3>1 DEF Tomadas, h
  <2>6. CASE ~guardar_archivo /\ ~AsignarEntrada
    <3>1. UNCHANGED <<pc, pedido, paginas, pag, cont_frame, tabla>>
      BY <2>6 DEF Next, Pedir, Servir, abrir_linea, modificar_linea, Linea, flush, FinDeAsignar,
                  EmpezarBusqueda, BuscarSiguiente, Acceder, AccederFuera, ResponderError,
                  Terminar, vars, servidor
    <3> QED
      BY <3>1 DEF Asignando
  <2> QED
    BY <2>3, <2>4, <2>5, <2>6
<1> QED
  BY <1>2, <1>3

-----------------------------------------------------------------------------
(* The search for a page *)

\* The turns of buscarFrame go through the entries in the order of their distance.
LEMMA Vuelta ==
  ASSUME NEW c \in Claves, NEW f \in 0 .. MARCOS, NEW g \in 0 .. MARCOS
  PROVE  /\ Distancia(c, f) \in Int
         /\ Distancia(c, f) = Distancia(c, g) => f = g
         /\ Siguiente(f) = HashDe(c) => Distancia(c, g) <= Distancia(c, f)
         /\ Siguiente(f) # HashDe(c) /\ Distancia(c, g) < Distancia(c, Siguiente(f))
              => Distancia(c, g) <= Distancia(c, f)
<1> DEFINE h == HashDe(c)
<1>1. h \in Nat
  BY ClavesLibres, Enteros
<1>2. \A x \in Nat : Distancia(c, x) = IF x >= h THEN x - h ELSE x - h + MARCOS + 1
  BY DEF Distancia, HashDe
<1>3. MARCOS \in Nat /\ f \in Nat /\ g \in Nat /\ Siguiente(f) \in Nat
  BY Enteros DEF Siguiente
<1> HIDE DEF h
<1>4. /\ Distancia(c, f) = IF f >= h THEN f - h ELSE f - h + MARCOS + 1
      /\ Distancia(c, g) = IF g >= h THEN g - h ELSE g - h + MARCOS + 1
      /\ Distancia(c, Siguiente(f)) = IF Siguiente(f) >= h THEN Siguiente(f) - h
                                                           ELSE Siguiente(f) - h + MARCOS + 1
  BY <1>2, <1>3
<1>5. Siguiente(f) = IF f + 1 > MARCOS THEN 0 ELSE f + 1
  BY DEF Siguiente
<1>6. Distancia(c, f) \in Int /\ (Distancia(c, f) = Distancia(c, g) => f = g)
  BY <1>1, <1>3, <1>4
<1>7. Siguiente(f) = h => Distancia(c, g) <= Distancia(c, f)
  BY <1>1, <1>3, <1>4, <1>5
<1>8. Siguiente(f) # h /\ Distancia(c, g) < Distancia(c, Siguiente(f))
        => Distancia(c, g) <= Distancia(c, f)
  BY <1>1, <1>3, <1>4, <1>5
<1> QED
  BY <1>6, <1>7, <1>8 DEF h

\* Nothing inside the table comes before the hash code, if that is inside, nor before
\* entry 0, if it is not.
LEMMA Comienzo ==
  ASSUME NEW c \in Claves, NEW g \in 0 .. MARCOS
  PROVE  /\ HashDe(c) <= MARCOS => ~(Distancia(c, g) < Distancia(c, HashDe(c)))
         /\ HashDe(c) > MARCOS => ~(Distancia(c, g) < Distancia(c, 0))
<1> DEFINE h == HashDe(c)
<1>1. h \in Nat /\ MARCOS \in Nat /\ g \in 0 .. MARCOS /\ g \in Nat /\ 0 \in Nat
  BY ClavesLibres, Enteros
<1>2. \A x \in Nat : Distancia(c, x) = IF x >= h THEN x - h ELSE x - h + MARCOS + 1
  BY DEF Distancia, HashDe
<1> HIDE DEF h
<1>3. /\ Distancia(c, g) = IF g >= h THEN g - h ELSE g - h + MARCOS + 1
      /\ Distancia(c, h) = 0
      /\ Distancia(c, 0) = IF 0 >= h THEN 0 - h ELSE 0 - h + MARCOS + 1
  BY <1>1, <1>2
<1>4. h <= MARCOS => ~(Distancia(c, g) < Distancia(c, h))
  BY <1>1, <1>3
<1>5. h > MARCOS => ~(Distancia(c, g) < Distancia(c, 0))
  BY <1>1, <1>3
<1> QED
  BY <1>4, <1>5 DEF h

LEMMA MiradosPaso ==
  TypeOK /\ EnTurno /\ Mirados /\ SinPagina /\ [Next]_vars => Mirados' /\ SinPagina'
<1> SUFFICES ASSUME TypeOK, EnTurno, Mirados, SinPagina, [Next]_vars
             PROVE  Mirados' /\ SinPagina'
  OBVIOUS
<1>1. CASE BuscarSiguiente
  <2>1. /\ pc = "buscar" /\ tabla[frame] # Clave /\ frame' = Siguiente(frame)
        /\ pc' = (IF frame' = frameAux THEN "sin pagina" ELSE "buscar")
        /\ UNCHANGED <<tabla, frameAux>> /\ Clave' = Clave
    BY <1>1 DEF BuscarSiguiente, EsLaPagina, Clave
  <2>2. frameAux = HashDe(Clave) /\ Clave \in Claves
    BY <2>1, ClavesLibres DEF EnTurno, Clave
  <2>3. frame \in Nat /\ frameAux \in Nat /\ MARCOS \in Nat
    <3>1. (frame \in 0 .. Tope \/ frame \in 0 .. MARCOS) /\ frameAux \in 0 .. Tope
      BY DEF TypeOK
    <3> QED
      BY <3>1, Enteros
  <2>4. CASE frame <= MARCOS
    <3>1. frame \in 0 .. MARCOS
      BY <2>3, <2>4
    <3>2. ASSUME NEW g \in 0 .. MARCOS, Distancia(Clave, g) <= Distancia(Clave, frame)
          PROVE  tabla[g] # Clave
      <4>1. CASE g = frame
        BY <4>1, <2>1
      <4>2. CASE g # frame
        <5>1. Distancia(Clave, g) < Distancia(Clave, frame)
          <6>1. /\ Distancia(Clave, g) \in Int /\ Distancia(Clave, frame) \in Int
                /\ Distancia(Clave, g) # Distancia(Clave, frame)
            BY <4>2, <3>1, <2>2, Vuelta
          <6> QED
            BY <6>1, <3>2
        <5>2. frame = frameAux => FALSE
          BY <5>1, <2>2, <2>4, Comienzo
        <5> QED
          BY <5>1, <5>2, <2>1 DEF Mirados
      <4> QED
        BY <4>1, <4>2
    <3>3. Siguiente(frame) <= MARCOS
      BY <2>3 DEF Siguiente
    <3>4. CASE frame' = frameAux
      <4>1. \A g \in 0 .. MARCOS : Distancia(Clave, g) <= Distancia(Clave, frame)
        BY <3>1, <3>4, <2>1, <2>2, Vuelta
      <4> QED
        BY <4>1, <3>2, <3>4, <2>1 DEF SinPagina, Mirados
    <3>5. CASE frame' # frameAux
      <4>1. \A g \in 0 .. MARCOS : Distancia(Clave, g) < Distancia(Clave, Siguiente(frame))
              => Distancia(Clave, g) <= Distancia(Clave, frame)
        BY <3>1, <3>5, <2>1, <2>2, Vuelta
      <4> QED
        BY <4>1, <3>2, <3>3, <3>5, <2>1 DEF SinPagina, Mirados
    <3> QED
      BY <3>4, <3>5
  <2>5. CASE ~(frame <= MARCOS)
    <3>1. frame = frameAux
      BY <2>1, <2>5 DEF Mirados
    <3>2. Siguiente(frame) = 0 /\ HashDe(Clave) > MARCOS /\ frameAux # 0 /\ 0 <= MARCOS
      BY <3>1, <2>2, <2>3, <2>5 DEF Siguiente
    <3>3. \A g \in 0 .. MARCOS : ~(Distancia(Clave, g) < Distancia(Clave, 0))
      BY <3>2, <2>2, Comienzo
    <3> QED
      BY <3>2, <3>3, <2>1 DEF Mirados, SinPagina
  <2> QED
    BY <2>4, <2>5
<1>2. ASSUME NEW c, EmpezarBusqueda(c) PROVE Mirados' /\ SinPagina'
  BY <1>2 DEF EmpezarBusqueda, Mirados, SinPagina
<1>3. ASSUME pc' \notin {"buscar", "sin pagina"} PROVE Mirados' /\ SinPagina'
  BY <1>3 DEF Mirados, SinPagina
<1>4. CASE UNCHANGED vars
  BY <1>4 DEF vars, servidor, Mirados, SinPagina, Clave
<1>5. CASE abrir_linea \/ modificar_linea \/ FinDeAsignar
  BY <1>5, <1>2 DEF abrir_linea, modificar_linea, Linea, FinDeAsignar
<1>6. CASE guardar_archivo \/ flush \/ AsignarEntrada \/ Acceder \/ AccederFuera \/ ResponderError
  BY <1>6, <1>3 DEF guardar_archivo, flush, AsignarEntrada, ConSiguientePagina, Acceder,
                    AccederFuera, ResponderError, Terminar
<1> QED
  BY <1>1, <1>4, <1>5, <1>6 DEF Next, Pedir, Servir

\* A failed search (buscarFrame answers -1) has looked at every frame.
THEOREM BusquedaSinOmision == Spec => []BusquedaCompleta
<1>1. Init => TypeOK /\ EnTurno /\ Mirados /\ SinPagina
  BY InitInv DEF IInv
<1>2. SinPagina => BusquedaCompleta
  <2>1. \A f \in 1 .. MARCOS : f \in 0 .. MARCOS
    BY Enteros
  <2> QED
    BY <2>1 DEF SinPagina, BusquedaCompleta
<1> QED
  BY <1>1, <1>2, Tipado, MiradosPaso, PTL DEF Spec

-----------------------------------------------------------------------------
(* What was stored *)

\* The frame of a page stays the first one, whatever is assigned afterwards.
LEMMA SuMarcoPaso ==
  ASSUME IInv, [Next]_vars, NEW c \in Claves, NEW f \in Marcos, EsSuMarco(c, f)
  PROVE  EsSuMarco(c, f)'
<1> USE DEF IInv
<1>1. f \in 1 .. MARCOS /\ f \in Entradas /\ tabla[f] = c /\ tabla'[f] = c
  <2>1. f \in 1 .. MARCOS /\ tabla[f] = c
    BY DEF EsSuMarco
  <2>2. f \in Entradas
    BY <2>1, Enteros DEF Entradas
  <2> QED
    BY <2>1, <2>2, SigueTomada, ClavesLibres
<1>2. HashDe(c) <= f /\ Tomadas(tabla, HashDe(c), f)
  BY <1>1 DEF EnOrden
<1>3. ASSUME NEW g \in 0 .. MARCOS, tabla'[g] = c PROVE Distancia(c, f) <= Distancia(c, g)
  <2>1. g \in Entradas
    BY Enteros DEF Entradas
  <2>2. CASE tabla[g] = c
    BY <2>2 DEF EsSuMarco
  <2>3. CASE tabla[g] # c
    <3>1. tabla[g] = Libre
      BY <2>1, <2>3, <1>3, SigueTomada
    <3>2. HashDe(c) <= g
      BY <2>1, <1>3, OrdenPaso DEF EnOrden
    <3>3. ~(g < f)
      BY <3>1, <3>2, <2>1, <1>2 DEF Tomadas
    <3>4. HashDe(c) \in Nat /\ g \in Nat /\ f \in Nat
      BY <1>1, <2>1, ClavesLibres, Enteros
    <3>5. Distancia(c, f) = f - HashDe(c) /\ Distancia(c, g) = g - HashDe(c)
      BY <1>2, <3>2, <3>4 DEF Distancia, HashDe
    <3> QED
      BY <3>3, <3>4, <3>5
  <2> QED
    BY <2>2, <2>3
<1> QED
  BY <1>1, <1>3 DEF EsSuMarco

\* The frame a store or a read ends at is the page's.
LEMMA EncuentraSuMarco ==
  ASSUME IInv, Acceder
  PROVE  Clave \in Claves /\ frame \in Marcos /\ EsSuMarco(Clave, frame)
<1>1. pc = "buscar" /\ tabla[frame] = Clave /\ frame > 0 /\ Dentro(frame)
  BY DEF Acceder, EsLaPagina
<1>2. Clave \in Claves /\ frameAux = HashDe(Clave)
  BY <1>1, ClavesLibres DEF IInv, EnTurno, Clave
<1>3. MARCOS \in Nat /\ frame \in Nat
  <2>1. frame \in 0 .. Tope \/ frame \in 0 .. MARCOS
    BY DEF IInv, TypeOK
  <2> QED
    BY <2>1, Enteros
<1>4. ESTRUCTURA_ADM_CANT_FRAMES \in Nat
  <2>1. MARCO_SIZE \in Nat \ {0}
    BY ConstantesOK DEF MARCO_SIZE
  <2>2. MARCOS * 12 + MARCO_SIZE - 1 \in Nat
    BY <2>1, <1>3
  <2> QED
    BY <2>1, <2>2, Division DEF ESTRUCTURA_ADM_CANT_FRAMES
<1>5. frame < MARCOS
  BY <1>1, <1>3, <1>4 DEF Dentro
<1>6. frame \in Marcos /\ frame \in 1 .. MARCOS /\ frame \in 0 .. MARCOS
  BY <1>1, <1>3, <1>5 DEF Marcos
<1>7. ASSUME NEW g \in 0 .. MARCOS, tabla[g] = Clave
      PROVE  Distancia(Clave, frame) <= Distancia(Clave, g)
  <2>1. Distancia(Clave, frame) \in Int /\ Distancia(Clave, g) \in Int
    BY <1>2, <1>6, Vuelta
  <2>2. ~(Distancia(Clave, g) < Distancia(Clave, frame))
    <3>1. CASE frame = frameAux
      BY <3>1, <1>2, <1>3, <1>5, Comienzo
    <3>2. CASE frame # frameAux
      BY <3>2, <1>1, <1>7 DEF IInv, Mirados
    <3> QED
      BY <3>1, <3>2
  <2> QED
    BY <2>1, <2>2
<1> QED
  BY <1>1, <1>2, <1>6, <1>7 DEF EsSuMarco

LEMMA EscritoPaso == IInv /\ [Next]_vars => LoEscritoSeConserva'
<1> SUFFICES ASSUME IInv, [Next]_vars PROVE LoEscritoSeConserva'
  OBVIOUS
<1> SUFFICES ASSUME NEW c \in Claves, NEW o \in Offsets, escrito'[<<c, o>>] # Basura
             PROVE  \E f \in Marcos : EsSuMarco(c, f)' /\ Dentro(f)
                                        /\ datos'[<<f, o>>] = escrito'[<<c, o>>]
  BY DEF LoEscritoSeConserva, Dentro
<1>1. CASE UNCHANGED <<datos, escrito>>
  <2>1. PICK f \in Marcos : EsSuMarco(c, f) /\ Dentro(f) /\ datos[<<f, o>>] = escrito[<<c, o>>]
    BY <1>1 DEF IInv, LoEscritoSeConserva
  <2>2. EsSuMarco(c, f)'
    BY <2>1, SuMarcoPaso
  <2> QED
    BY <2>1, <2>2, <1>1
<1>2. CASE Acceder /\ Escribe
  <2>1. /\ Clave \in Claves /\ frame \in Marcos /\ EsSuMarco(Clave, frame) /\ Dentro(frame)
        /\ UNCHANGED tabla
        /\ datos' = [datos EXCEPT ![<<frame, pedido.offset>>] = pedido.valor]
        /\ escrito' = [escrito EXCEPT ![<<Clave, pedido.offset>>] = pedido.valor]
    BY <1>2, EncuentraSuMarco DEF Acceder
  <2>2. pedido.offset \in Offsets
    BY <1>2 DEF Acceder, IInv, EnTurno, Pedidos
  <2>3. datos \in [Marcos \X Offsets -> Valores \union {Basura}]
        /\ escrito \in [Claves \X Offsets -> Valores \union {Basura}]
    BY DEF IInv, TypeOK
  <2>4. /\ datos'[<<frame, pedido.offset>>] = pedido.valor
        /\ escrito'[<<Clave, pedido.offset>>] = pedido.valor
    BY <2>1, <2>2, <2>3
  <2>5. CASE c = Clave /\ o = pedido.offset
    <3>1. PICK f \in Marcos : f = frame
      BY <2>1
    <3>2. EsSuMarco(c, f)'
      BY <3>1, <2>1, <2>5, SuMarcoPaso
    <3> QED
      BY <3>1, <3>2, <2>1, <2>4, <2>5
  <2>6. CASE ~(c = Clave /\ o = pedido.offset)
    <3>1. escrito'[<<c, o>>] = escrito[<<c, o>>]
      BY <2>1, <2>3, <2>6
    <3>2. PICK f \in Marcos : EsSuMarco(c, f) /\ Dentro(f) /\ datos[<<f, o>>] = escrito[<<c, o>>]
      BY <3>1 DEF IInv, LoEscritoSeConserva
    <3>3. f = frame => c = Clave
      BY <3>2, <2>1 DEF EsSuMarco
    <3>4. datos'[<<f, o>>] = datos[<<f, o>>]
      BY <3>2, <3>3, <2>1, <2>3, <2>6
    <3>5. EsSuMarco(c, f)'
      BY <3>2, SuMarcoPaso
    <3> QED
      BY <3>1, <3>2, <3>4, <3>5
  <2> QED
    BY <2>5, <2>6
<1> QED
  BY <1>1, <1>2 DEF Next, Pedir, Servir, abrir_linea, modificar_linea, Linea, guardar_archivo,
       flush, FinDeAsignar, AsignarEntrada, BuscarSiguiente, Acceder, AccederFuera,
       ResponderError, vars

LEMMA InvPaso == IInv /\ [Next]_vars => IInv'
<1> SUFFICES ASSUME IInv, [Next]_vars PROVE IInv'
  OBVIOUS
<1> QED
  BY Tipado, OrdenPaso, MiradosPaso, EscritoPaso DEF IInv

\* What was stored in a line stays in the frame that its page is found in, for any
\* sequence of loads, stores and reads (asignarPaginasIniciales, almacenarLinea,
\* buscarFrame).
THEOREM LoEscritoQueda == Spec => []LoEscritoSeConserva
<1>1. IInv => LoEscritoSeConserva
  BY DEF IInv
<1> QED
  BY <1>1, InitInv, InvPaso, PTL DEF Spec
=============================================================================
