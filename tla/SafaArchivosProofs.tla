------------------------- MODULE SafaArchivosProofs -------------------------
(***************************************************************************)
(* Proofs about the file table of the S-AFA, for any processes and files.  *)
(*                                                                         *)
(* The close of a file is the one request a CPU does not wait for, and it  *)
(* is handled before any later one of the same CPU.  The invariant says,   *)
(* for each receive of a CPU, what its two queues of messages may hold     *)
(* (EnFase); with it a file changes hands only when its owner closes it or *)
(* ends, and an owner that does so has no close on the way nor writes.     *)
(* The keys are counted apart (Cuenta): their number for each name is      *)
(* compared with that of the files of the table, which is finite.          *)
(***************************************************************************)
EXTENDS SafaArchivos, FiniteSetTheorems, SequenceTheorems, WellFoundedInduction, TLAPS

EsDe(p, f) == Presente(f) /\ fileTable[f].asignado = p

\* The close of a file of p.
SuCierre(p, c) == c \in Pedido /\ c.tarea = "CLOSE_FILE" /\ EsDe(p, c.archivo)

\* At most the close of a file of p is waiting to be handled; or it and then m.
Vacio(p) == pedidos[p] = << >>
SoloCierre(p) == Vacio(p) \/ \E c \in Pedido : SuCierre(p, c) /\ pedidos[p] = <<c>>
ConCierre(p, m) ==
  pedidos[p] = <<m>> \/ \E c \in Pedido : SuCierre(p, c) /\ pedidos[p] = <<c, m>>

Pide(p, t) == [tarea |-> t, archivo |-> linea[p].archivo]

EnBucle(p) == canal[p] = << >> /\ SoloCierre(p)

EsperandoArchivo(p) ==
  \/ canal[p] = << >> /\ (Vacio(p) \/ ConCierre(p, Pide(p, "CHECK_IF_FILE_OPEN")))
  \/ Vacio(p) /\ canal[p] = <<"FILE_NOT_OPEN">>
  \/ Vacio(p) /\ canal[p] = <<"FILE_OPENED_BY_ANOTHER_PROCESS">>
  \/ Vacio(p) /\ canal[p] = <<"FILE_OPEN", "direccion">> /\ EsDe(p, linea[p].archivo)

EsperandoMemoria(p) ==
  /\ canal[p] = <<"direccion">>
  /\ SoloCierre(p)
  /\ linea[p].palabra = "asignar" => Vacio(p) /\ EsDe(p, linea[p].archivo)

EsperandoConfirmacion(p) ==
  \/ canal[p] = << >> /\ \E t \in ConPCB : ConCierre(p, Pide(p, t))
  \/ canal[p] = <<"MESSAGE_RECEIVED">> /\ Vacio(p)

EnFase(p) ==
  /\ pc[p] \in {"bucle", "fin"} => EnBucle(p)
  /\ pc[p] = "archivo" => EsperandoArchivo(p)
  /\ pc[p] = "memoria" => EsperandoMemoria(p)
  /\ pc[p] = "confirmacion" => EsperandoConfirmacion(p)

Dialogo == alDia => \A p \in Procesos : EnFase(p)

IInv == TypeOK /\ Dialogo

-----------------------------------------------------------------------------
(* Sequences of one and of two messages *)

LEMMA DeUno ==
  ASSUME NEW x
  PROVE  /\ <<x>> # << >> /\ Head(<<x>>) = x /\ Tail(<<x>>) = << >>
         /\ Append(<< >>, x) = <<x>> /\ << >> \o <<x>> = <<x>>
         /\ Len(<<x>>) = 1 /\ <<x>>[1] = x /\ DOMAIN <<x>> = {1}
  OBVIOUS

LEMMA DeDos ==
  ASSUME NEW x, NEW y
  PROVE  /\ <<x, y>> # << >> /\ Head(<<x, y>>) = x /\ Tail(<<x, y>>) = <<y>>
         /\ Append(<<x>>, y) = <<x, y>> /\ << >> \o <<x, y>> = <<x, y>>
         /\ <<x, y>>[1] = x /\ <<x, y>>[2] = y /\ DOMAIN <<x, y>> = {1, 2}
<1>1. Tail(<<x, y>>) = <<y>>
  OBVIOUS
<1>2. Append(<<x>>, y) = <<x, y>>
  <2> DEFINE S == {x, y}
  <2>1. <<x>> \in Seq(S) /\ <<x, y>> \in Seq(S) /\ y \in S
    OBVIOUS
  <2>2. /\ Append(<<x>>, y) \in Seq(S)
        /\ Len(Append(<<x>>, y)) = 2
        /\ Append(<<x>>, y)[1] = x /\ Append(<<x>>, y)[2] = y
    BY <2>1, AppendProperties, DeUno
  <2>3. \A i \in 1 .. 2 : Append(<<x>>, y)[i] = <<x, y>>[i]
    BY <2>2
  <2> QED  BY <2>1, <2>2, <2>3, SeqEqual, Len(<<x, y>>) = 2
<1> QED  BY <1>1, <1>2

\* removeKeyFromList takes the element of some place that has the name, if there is one.
LEMMA PrimerNombre ==
  ASSUME fileTableKeys \in Seq(Archivos), NEW f,
         \E i \in 1 .. Len(fileTableKeys) : Minusculas[fileTableKeys[i]] = Minusculas[f]
  PROVE  \E m \in 1 .. Len(fileTableKeys) :
           /\ Minusculas[fileTableKeys[m]] = Minusculas[f]
           /\ removeKeyFromList(f) = RemoveAt(fileTableKeys, m)
<1> DEFINE s == fileTableKeys
           Es(k) == Minusculas[k] = Minusculas[f]
           n == SelectInSeq(s, Es)
           I == {i \in 1 .. Len(s) : Es(s[i])}
<1>1. Len(s) \in Nat
  BY LenProperties
<1>2. I # {} /\ I \subseteq Nat
  BY <1>1
<1>3. PICK m \in I : \A k \in I : ~(<<k, m>> \in OpToRel(<, Nat))
  BY <1>2, NatLessThanWellFounded, WFMin
<1>4. \A k \in I : m <= k
  <2>1. SUFFICES ASSUME NEW k \in I, k < m  PROVE FALSE
    BY <1>2
  <2> QED  BY <2>1, <1>2, <1>3 DEF OpToRel
<1>5. n \in I
  <2>1. n = CHOOSE x \in I : \A y \in I : x =< y
    BY <1>2 DEF SelectInSeq, Min
  <2> QED  BY <2>1, <1>4
<1>6. removeKeyFromList(f) = RemoveAt(s, n)
  BY DEF removeKeyFromList, RemoveFirstMatch
<1>7. n \in 1 .. Len(s) /\ Es(s[n])
  BY <1>5
<1> QED
  <2> HIDE DEF n
  <2> QED  BY <1>6, <1>7

\* RemoveAt closes the gap.
LEMMA SinUno ==
  ASSUME NEW S, NEW s \in Seq(S), NEW m \in 1 .. Len(s)
  PROVE  /\ RemoveAt(s, m) \in Seq(S)
         /\ Len(RemoveAt(s, m)) = Len(s) - 1
         /\ \A i \in 1 .. Len(s) - 1 : RemoveAt(s, m)[i] = IF i < m THEN s[i] ELSE s[i + 1]
<1>1. Len(s) \in Nat /\ m \in Nat /\ m >= 1 /\ m <= Len(s) /\ \A i \in 1 .. Len(s) : s[i] \in S
  BY LenProperties, ElementOfSeq
<1> DEFINE a == SubSeq(s, 1, m - 1)
           b == SubSeq(s, m + 1, Len(s))
<1>2. a \in Seq(S) /\ Len(a) = m - 1 /\ \A i \in 1 .. m - 1 : a[i] = s[i]
  <2>1. 1 \in Int /\ m - 1 \in Int /\ \A i \in 1 .. m - 1 : s[i] \in S
    BY <1>1
  <2>2. /\ a \in Seq(S) /\ Len(a) = IF 1 <= m - 1 THEN m - 1 - 1 + 1 ELSE 0
        /\ \A i \in 1 .. m - 1 - 1 + 1 : a[i] = s[1 + i - 1]
    BY <2>1, SubSeqProperties
  <2> HIDE DEF a
  <2> QED  BY <1>1, <2>2
<1>3. /\ b \in Seq(S) /\ Len(b) = Len(s) - m
      /\ \A i \in 1 .. Len(s) - m : b[i] = s[m + i]
  <2>1. m + 1 \in Int /\ Len(s) \in Int /\ \A i \in m + 1 .. Len(s) : s[i] \in S
    BY <1>1
  <2>2. /\ b \in Seq(S) /\ Len(b) = IF m + 1 <= Len(s) THEN Len(s) - (m + 1) + 1 ELSE 0
        /\ \A i \in 1 .. Len(s) - (m + 1) + 1 : b[i] = s[m + 1 + i - 1]
    BY <2>1, SubSeqProperties
  <2> HIDE DEF b
  <2> QED  BY <1>1, <2>2
<1>4. RemoveAt(s, m) = a \o b
  BY DEF RemoveAt
<1> HIDE DEF a, b
<1>5. /\ a \o b \in Seq(S) /\ Len(a \o b) = Len(a) + Len(b)
      /\ \A i \in 1 .. Len(a) + Len(b) : (a \o b)[i] = IF i <= Len(a) THEN a[i] ELSE b[i - Len(a)]
  BY <1>2, <1>3, ConcatProperties
<1>6. ASSUME NEW i \in 1 .. Len(s) - 1
      PROVE  (a \o b)[i] = IF i < m THEN s[i] ELSE s[i + 1]
  <2>1. CASE i < m
    <3>1. (a \o b)[i] = a[i] /\ a[i] = s[i]
      BY <1>1, <1>2, <1>3, <1>5, <1>6, <2>1
    <3> QED  BY <2>1, <3>1
  <2>2. CASE ~(i < m)
    <3>1. i - Len(a) \in 1 .. Len(s) - m /\ m + (i - Len(a)) = i + 1 /\ ~(i <= Len(a))
          /\ i \in 1 .. Len(a) + Len(b)
      BY <1>1, <1>2, <1>3, <1>6, <2>2
    <3>2. (a \o b)[i] = b[i - Len(a)] /\ b[i - Len(a)] = s[i + 1]
      BY <1>3, <1>5, <3>1
    <3> QED  BY <2>2, <3>2
  <2> QED  BY <2>1, <2>2
<1>7. Len(a \o b) = Len(s) - 1
  BY <1>1, <1>2, <1>3, <1>5
<1> QED  BY <1>4, <1>5, <1>6, <1>7

\* removeKeyFromList gives back a list of names.
LEMMA SinUnNombre ==
  ASSUME fileTableKeys \in Seq(Archivos), NEW f
  PROVE  removeKeyFromList(f) \in Seq(Archivos)
<1>1. CASE ~\E i \in 1 .. Len(fileTableKeys) : Minusculas[fileTableKeys[i]] = Minusculas[f]
  BY <1>1 DEF removeKeyFromList, RemoveFirstMatch
<1>2. CASE \E i \in 1 .. Len(fileTableKeys) : Minusculas[fileTableKeys[i]] = Minusculas[f]
  BY <1>2, PrimerNombre, SinUno
<1> QED  BY <1>1, <1>2

-----------------------------------------------------------------------------
(* Types *)

LEMMA TipoInicial == Init => TypeOK
<1> SUFFICES ASSUME Init PROVE TypeOK
  OBVIOUS
<1>1. (CHOOSE f \in Archivos : TRUE) \in Archivos
  BY ConstantesOK
<1>2. << >> \in Seq(Pedido) /\ << >> \in Seq(Respuestas) /\ << >> \in Seq(Archivos)
  BY EmptySeq
<1>3. linea \in [Procesos -> [palabra : Instrucciones, archivo : Archivos]]
  BY <1>1 DEF Init, Instrucciones
<1>4. /\ hechas \in 0 .. MaxInstrucciones
      /\ pedidosDma \in [Procesos \X Archivos -> Nat]
      /\ ultimo \in [Procesos -> ConPCB]
      /\ pedidos \in [Procesos -> Seq(Pedido)] /\ canal \in [Procesos -> Seq(Respuestas)]
  BY <1>2, ConstantesOK DEF Init, ConPCB
<1> QED  BY <1>2, <1>3, <1>4 DEF Init, TypeOK

LEMMA TipoPedidos ==
  ASSUME TypeOK, NEW p \in Procesos, NEW t \in ConPCB \union {"CHECK_IF_FILE_OPEN", "CLOSE_FILE"},
         linea' \in [Procesos -> [palabra : Instrucciones, archivo : Archivos]],
         Enviar(p, t)
  PROVE  pedidos' \in [Procesos -> Seq(Pedido)]
<1>1. [tarea |-> t, archivo |-> linea'[p].archivo] \in Pedido
  BY DEF Pedido
<1>2. Append(pedidos[p], [tarea |-> t, archivo |-> linea'[p].archivo]) \in Seq(Pedido)
  BY <1>1, AppendProperties DEF TypeOK
<1> QED  BY <1>2 DEF TypeOK, Enviar

LEMMA TipoPCB ==
  ASSUME TypeOK, NEW p \in Procesos, NEW t \in ConPCB, UNCHANGED linea, EnviarPCB(p, t)
  PROVE  /\ pedidos' \in [Procesos -> Seq(Pedido)]
         /\ ultimo' \in [Procesos -> ConPCB]
         /\ pc' \in [Procesos -> {"bucle", "archivo", "memoria", "confirmacion", "fin"}]
<1>1. linea' \in [Procesos -> [palabra : Instrucciones, archivo : Archivos]]
  BY DEF TypeOK
<1>2. pedidos' \in [Procesos -> Seq(Pedido)]
  BY <1>1, TipoPedidos DEF EnviarPCB
<1> QED  BY <1>2 DEF TypeOK, EnviarPCB, Esperar

LEMMA TipoCola ==
  ASSUME NEW S, NEW s \in Seq(S), s # << >>
  PROVE  Head(s) \in S /\ Tail(s) \in Seq(S)
  BY HeadTailProperties

LEMMA TipoLeer ==
  ASSUME TypeOK, NEW p \in Procesos, NEW donde, Leer(p, donde)
  PROVE  canal' \in [Procesos -> Seq(Respuestas)]
  BY TipoCola DEF TypeOK, Leer

LEMMA TipoDma ==
  ASSUME TypeOK, NEW p \in Procesos, UNCHANGED linea, PedirAlDma(p)
  PROVE  pedidosDma' \in [Procesos \X Archivos -> Nat]
<1>1. <<p, linea[p].archivo>> \in Procesos \X Archivos
  BY DEF TypeOK
<1> DEFINE x == <<p, linea[p].archivo>>
           S == Procesos \X Archivos
<1>2. x \in S /\ pedidosDma \in [S -> Nat] /\ pedidosDma' = [pedidosDma EXCEPT ![x] = @ + 1]
  BY <1>1 DEF TypeOK, PedirAlDma
<1> HIDE DEF x, S
<1>3. pedidosDma' \in [S -> Nat]
  BY <1>2
<1> QED  BY <1>3 DEF S

LEMMA TipoAtender ==
  ASSUME TypeOK, NEW p \in Procesos, NEW t, Atender(p, t)
  PROVE  /\ Head(pedidos[p]) \in Pedido
         /\ pedidos' \in [Procesos -> Seq(Pedido)]
         /\ UNCHANGED <<cpuVars, pedidosDma, alDia>>
  BY TipoCola DEF TypeOK, Atender

LEMMA TipoResponder ==
  ASSUME TypeOK, NEW p \in Procesos, NEW v \in Seq(Respuestas), Responder(p, v)
  PROVE  canal' \in [Procesos -> Seq(Respuestas)]
<1>1. canal[p] \o v \in Seq(Respuestas)
  BY ConcatProperties DEF TypeOK
<1> QED  BY <1>1 DEF TypeOK, Responder

\* What the S-AFA keeps, apart from the rest.
TipoSafa ==
  /\ DOMAIN fileTable \subseteq Archivos
  /\ \A f \in DOMAIN fileTable :
       fileTable[f] \in [asignado : Procesos \union {Nadie}, esperan : Seq(Procesos)]
  /\ fileTableKeys \in Seq(Archivos)
  /\ cola \in [Procesos -> {"ejecucion", "bloqueado", "listo", "terminado"}]
  /\ safa \in {"viva", "desbloqueo", "lista", "clave", "sin proceso", "puntero"}
  /\ cerroConEspera \subseteq Archivos

LEMMA TipoTerminarYLiberar ==
  ASSUME TypeOK, NEW p \in Procesos, TerminarYLiberar(p)
  PROVE  TipoSafa'
<1> DEFINE propios == {f \in Range(fileTableKeys) \intersect DOMAIN fileTable :
                         fileTable[f].asignado = p}
           conEspera == {f \in propios : fileTable[f].esperan # << >>}
           primero(f) == Head(fileTable[f].esperan)
           fin == [cola EXCEPT ![p] = "terminado"]
<1>1. CASE Morir("clave") \/ Morir("desbloqueo")
  BY <1>1 DEF Morir, TypeOK, TipoSafa
<1>2. CASE ~(Morir("clave") \/ Morir("desbloqueo"))
  <2>1. /\ fileTable' = [f \in DOMAIN fileTable |->
                           IF f \in propios
                             THEN [asignado |-> Nadie,
                                   esperan  |-> IF f \in conEspera THEN Tail(fileTable[f].esperan)
                                                                   ELSE << >>]
                             ELSE fileTable[f]]
        /\ cola' = [q \in Procesos |-> IF \E f \in conEspera : q = primero(f) THEN "listo" ELSE fin[q]]
        /\ UNCHANGED <<fileTableKeys, safa, cerroConEspera>>
    BY <1>2, Zenon DEF TerminarYLiberar
  <2>2. fin \in [Procesos -> {"ejecucion", "bloqueado", "listo", "terminado"}]
    BY DEF TypeOK
  <2>3. cola' \in [Procesos -> {"ejecucion", "bloqueado", "listo", "terminado"}]
    <3> HIDE DEF conEspera, fin
    <3> QED  BY <2>1, <2>2
  <2>4. ASSUME NEW f \in DOMAIN fileTable
        PROVE  fileTable'[f] \in [asignado : Procesos \union {Nadie}, esperan : Seq(Procesos)]
    <3>1. << >> \in Seq(Procesos)
      BY EmptySeq
    <3>2. fileTable[f] \in [asignado : Procesos \union {Nadie}, esperan : Seq(Procesos)]
      BY DEF TypeOK
    <3>3. f \in conEspera => Tail(fileTable[f].esperan) \in Seq(Procesos)
      BY <3>2, TipoCola
    <3> HIDE DEF propios, conEspera
    <3> QED  BY <2>1, <3>1, <3>2, <3>3
  <2>5. DOMAIN fileTable' = DOMAIN fileTable
    BY <2>1
  <2> QED  BY <2>1, <2>3, <2>4, <2>5 DEF TypeOK, TipoSafa
<1> QED  BY <1>1, <1>2

LEMMA TipoSigue == TypeOK /\ [Next]_vars => TypeOK'
<1> SUFFICES ASSUME TypeOK, [Next]_vars PROVE TypeOK'
  OBVIOUS
<1>1. ASSUME NEW p \in Procesos, Instruccion(p) PROVE TypeOK'
  <2>1. linea' \in [Procesos -> [palabra : Instrucciones, archivo : Archivos]]
    <3>1. PICK i \in Instrucciones, f \in Archivos :
            linea' = [linea EXCEPT ![p] = [palabra |-> i, archivo |-> f]]
      BY <1>1 DEF Instruccion
    <3>2. [palabra |-> i, archivo |-> f] \in [palabra : Instrucciones, archivo : Archivos]
      OBVIOUS
    <3> QED  BY <3>1, <3>2 DEF TypeOK
  <2>2. pedidos' \in [Procesos -> Seq(Pedido)]
    BY <1>1, <2>1, TipoPedidos DEF Instruccion
  <2>3. hechas' \in 0 .. MaxInstrucciones
    <3>1. hechas \in 0 .. MaxInstrucciones /\ hechas < MaxInstrucciones /\ hechas' = hechas + 1
      BY <1>1 DEF Instruccion, TypeOK
    <3> QED  BY <3>1, ConstantesOK
  <2> QED  BY <1>1, <2>1, <2>2, <2>3 DEF Instruccion, TypeOK, Esperar, safaVars
<1>2. ASSUME NEW p \in Procesos, Terminar(p) PROVE TypeOK'
  <2>1. UNCHANGED linea /\ EnviarPCB(p, "END_OF_SCRIPT") /\ "END_OF_SCRIPT" \in ConPCB
    BY <1>2 DEF Terminar, ConPCB
  <2> QED  BY <1>2, <2>1, TipoPCB DEF Terminar, TypeOK, safaVars
<1>3. ASSUME NEW p \in Procesos, RecibirArchivo(p) PROVE TypeOK'
  <2>1. canal' \in [Procesos -> Seq(Respuestas)] /\ UNCHANGED <<linea, hechas, safaVars>>
    BY <1>3, TipoLeer DEF RecibirArchivo, Leer
  <2>2. alDia' \in BOOLEAN
    BY <1>3 DEF RecibirArchivo, TypeOK
  <2>3. /\ pedidos' \in [Procesos -> Seq(Pedido)]
        /\ ultimo' \in [Procesos -> ConPCB]
        /\ pc' \in [Procesos -> {"bucle", "archivo", "memoria", "confirmacion", "fin"}]
        /\ pedidosDma' \in [Procesos \X Archivos -> Nat]
    <3>1. CASE \E t \in ConPCB : EnviarPCB(p, t) /\ (UNCHANGED pedidosDma \/ PedirAlDma(p))
      BY <3>1, <2>1, TipoPCB, TipoDma DEF TypeOK
    <3>2. CASE Enviar(p, "CLOSE_FILE") /\ Esperar(p, "memoria") /\ UNCHANGED <<ultimo, pedidosDma>>
      BY <3>2, <2>1, TipoPedidos DEF TypeOK, Esperar
    <3>3. CASE /\ Esperar(p, "bucle") \/ Esperar(p, "memoria")
               /\ UNCHANGED <<pedidos, ultimo, pedidosDma>>
      BY <3>3 DEF TypeOK, Esperar
    <3> QED
      <4>1. "BLOCK_PROCESS" \in ConPCB /\ "PROCESS_ERROR" \in ConPCB
        BY DEF ConPCB
      <4> QED  BY <1>3, <3>1, <3>2, <3>3, <4>1 DEF RecibirArchivo, handleFileNotOpen,
                 handleFileOpenedByOtherProcess, ConArchivoAbierto, Completar, PedirAlDma,
                 handleProcessError, tellSchedulerToBlockProcess
  <2> QED  BY <2>1, <2>2, <2>3 DEF TypeOK, safaVars
<1>4. ASSUME NEW p \in Procesos, RecibirMemoria(p) PROVE TypeOK'
  BY <1>4, TipoLeer DEF RecibirMemoria, Leer, Completar, Esperar, TypeOK, safaVars
<1>5. ASSUME NEW p \in Procesos, RecibirConfirmacion(p) PROVE TypeOK'
  BY <1>5, TipoLeer DEF RecibirConfirmacion, Leer, Esperar, TypeOK, safaVars
<1>6. ASSUME NEW p \in Procesos, checkIfFileOpen(p) PROVE TypeOK'
  <2>1. /\ pedidos' \in [Procesos -> Seq(Pedido)] /\ UNCHANGED <<cpuVars, pedidosDma, alDia>>
    BY <1>6, TipoAtender DEF checkIfFileOpen
  <2>2. canal' \in [Procesos -> Seq(Respuestas)]
    <3>1. /\ <<"FILE_NOT_OPEN">> \in Seq(Respuestas)
          /\ <<"FILE_OPEN", "direccion">> \in Seq(Respuestas)
          /\ <<"FILE_OPENED_BY_ANOTHER_PROCESS">> \in Seq(Respuestas)
      BY DEF Respuestas
    <3> QED  BY <1>6, <3>1, TipoResponder DEF checkIfFileOpen, TypeOK
  <2>3. TipoSafa'
    <3> DEFINE f == Head(pedidos[p]).archivo
    <3>1. CASE UNCHANGED fileTable
      BY <1>6, <3>1 DEF checkIfFileOpen, TypeOK, TipoSafa
    <3>2. CASE Presente(f) /\ fileTable' = [fileTable EXCEPT ![f].asignado = p]
      BY <1>6, <3>2, ZenonT(30) DEF checkIfFileOpen, TypeOK, TipoSafa, Presente
    <3>3. CASE Presente(f) /\ fileTable' = [fileTable EXCEPT ![f].esperan = Append(@, p)]
      <4>1. Append(fileTable[f].esperan, p) \in Seq(Procesos)
        <5>1. fileTable[f].esperan \in Seq(Procesos)
          BY <3>3 DEF TypeOK, Presente
        <5> QED  BY <5>1, AppendProperties
      <4> QED  BY <1>6, <3>3, <4>1 DEF checkIfFileOpen, TypeOK, TipoSafa, Presente
    <3> QED  BY <1>6, <3>1, <3>2, <3>3 DEF checkIfFileOpen
  <2> QED  BY <2>1, <2>2, <2>3 DEF TypeOK, TipoSafa, cpuVars
<1>7. ASSUME NEW p \in Procesos, closeFile(p) PROVE TypeOK'
  <2>1. /\ Head(pedidos[p]) \in Pedido
        /\ pedidos' \in [Procesos -> Seq(Pedido)] /\ UNCHANGED <<cpuVars, pedidosDma, alDia, canal>>
    BY <1>7, TipoAtender DEF closeFile
  <2>2. TipoSafa'
    <3> DEFINE f == Head(pedidos[p]).archivo
               esperan == fileTable[f].esperan
    <3>1. CASE UNCHANGED safaVars
      BY <3>1 DEF safaVars, TypeOK, TipoSafa
    <3>2. CASE /\ fileTable' = Sin(f) /\ fileTableKeys' = removeKeyFromList(f)
               /\ UNCHANGED <<cola, safa, cerroConEspera>>
      BY <3>2, SinUnNombre DEF TypeOK, TipoSafa, Sin
    <3>3. CASE /\ Presente(f) /\ Len(esperan) = 1
               /\ fileTable' = Sin(f)
               /\ cola' = [cola EXCEPT ![Head(esperan)] = "listo"]
               /\ cerroConEspera' = cerroConEspera \union {f}
               /\ UNCHANGED <<fileTableKeys, safa>>
      BY <2>1, <3>3 DEF TypeOK, TipoSafa, Sin, Presente
    <3>4. CASE Morir("desbloqueo") \/ Morir("lista")
      BY <3>4 DEF Morir, TypeOK, TipoSafa
    <3> QED  BY <1>7, <3>1, <3>2, <3>3, <3>4 DEF closeFile
  <2> QED  BY <2>1, <2>2 DEF TypeOK, TipoSafa, cpuVars
<1>8. ASSUME NEW p \in Procesos, NEW t, Confirmar(p, t), TipoSafa' PROVE TypeOK'
  <2>1. <<"MESSAGE_RECEIVED">> \in Seq(Respuestas)
    BY DEF Respuestas
  <2>2. canal' \in [Procesos -> Seq(Respuestas)]
    BY <1>8, <2>1, TipoResponder DEF Confirmar
  <2>3. /\ pedidos' \in [Procesos -> Seq(Pedido)] /\ UNCHANGED <<cpuVars, pedidosDma, alDia>>
    BY <1>8, TipoAtender DEF Confirmar
  <2> QED  BY <1>8, <2>2, <2>3 DEF TypeOK, TipoSafa, cpuVars
<1>9. ASSUME NEW c \in {"sin proceso", "puntero"}, Morir(c) PROVE TipoSafa'
  BY <1>9 DEF Morir, TypeOK, TipoSafa
<1>10. ASSUME NEW p \in Procesos, _blockProcess(p) \/ _killProcess(p) \/ terminateProcess(p)
       PROVE  TypeOK'
  <2>1. TipoSafa'
    <3>1. CASE _blockProcess(p)
      BY <1>9, <3>1 DEF _blockProcess, TypeOK, TipoSafa
    <3>2. CASE _killProcess(p)
      BY <1>9, <3>2, TipoTerminarYLiberar DEF _killProcess
    <3>3. CASE terminateProcess(p)
      BY <1>9, <3>3, TipoTerminarYLiberar DEF terminateProcess
    <3> QED  BY <1>10, <3>1, <3>2, <3>3
  <2> QED  BY <1>8, <1>10, <2>1 DEF _blockProcess, _killProcess, terminateProcess
<1>11. ASSUME NEW p \in Procesos, NEW f \in Archivos, unlockProcess(p, f) PROVE TypeOK'
  <2>1. pedidosDma' \in [Procesos \X Archivos -> Nat]
    <3> DEFINE x == <<p, f>>
               S == Procesos \X Archivos
    <3>1. /\ x \in S /\ pedidosDma \in [S -> Nat]
          /\ pedidosDma[x] > 0 /\ pedidosDma' = [pedidosDma EXCEPT ![x] = @ - 1]
      BY <1>11 DEF TypeOK, unlockProcess
    <3> HIDE DEF x, S
    <3>2. pedidosDma' \in [S -> Nat]
      BY <3>1
    <3> QED  BY <3>2 DEF S
  <2>2. TipoSafa'
    <3>1. CASE Presente(f)
      BY <1>11, <3>1 DEF unlockProcess, saveFileDataToFileTable, TypeOK, TipoSafa
    <3>2. CASE ~Presente(f)
      <4>1. << >> \in Seq(Procesos) /\ Append(fileTableKeys, f) \in Seq(Archivos)
        BY EmptySeq, AppendProperties DEF TypeOK
      <4>2. /\ fileTable' = Con(f, [asignado |-> p, esperan |-> << >>])
            /\ fileTableKeys' = Append(fileTableKeys, f)
        BY <1>11, <3>2 DEF unlockProcess, saveFileDataToFileTable
      <4>3. /\ DOMAIN fileTable' \subseteq Archivos
            /\ \A g \in DOMAIN fileTable' :
                 fileTable'[g] \in [asignado : Procesos \union {Nadie}, esperan : Seq(Procesos)]
        BY <4>1, <4>2 DEF Con, TypeOK
      <4> QED  BY <1>11, <4>1, <4>2, <4>3 DEF unlockProcess, TypeOK, TipoSafa
    <3> QED  BY <3>1, <3>2
  <2> QED  BY <1>11, <2>1, <2>2 DEF unlockProcess, TypeOK, TipoSafa, cpuVars
<1>12. ASSUME UNCHANGED vars PROVE TypeOK'
  BY <1>12 DEF vars, cpuVars, safaVars, TypeOK
<1> QED  BY <1>1, <1>2, <1>3, <1>4, <1>5, <1>6, <1>7, <1>10, <1>11, <1>12
           DEF Next, Cpu, Safa

-----------------------------------------------------------------------------
(* What the queues of messages of a CPU may hold *)

LEMMA DialogoInicial == Init => Dialogo
  BY DEF Init, Dialogo, EnFase, EnBucle, SoloCierre, Vacio

\* What a step of another does not touch stays as it was.
LEMMA Ajeno ==
  ASSUME TypeOK, NEW q \in Procesos, EnFase(q),
         pc'[q] = pc[q], linea'[q] = linea[q], canal'[q] = canal[q], pedidos'[q] = pedidos[q],
         \A f \in Archivos : EsDe(q, f) => EsDe(q, f)'
  PROVE  EnFase(q)'
<1>1. linea[q].archivo \in Archivos /\ \A c \in Pedido : c.archivo \in Archivos
  BY DEF TypeOK, Pedido
<1>2. \A c \in Pedido : SuCierre(q, c) => SuCierre(q, c)'
  BY <1>1 DEF SuCierre
<1>3. SoloCierre(q) => SoloCierre(q)'
  BY <1>2 DEF SoloCierre, Vacio
<1>4. \A t : ConCierre(q, Pide(q, t)) => ConCierre(q, Pide(q, t))'
  BY <1>2 DEF ConCierre, Pide
<1>5. EsDe(q, linea[q].archivo) => EsDe(q, linea[q].archivo)'
  BY <1>1 DEF EsDe, Presente
<1>6. Vacio(q)' = Vacio(q)
  BY DEF Vacio
<1>7. EsperandoArchivo(q) => EsperandoArchivo(q)'
  BY <1>4, <1>5, <1>6 DEF EsperandoArchivo
<1>8. EsperandoMemoria(q) => EsperandoMemoria(q)'
  BY <1>3, <1>5, <1>6 DEF EsperandoMemoria
<1>9. EsperandoConfirmacion(q) => EsperandoConfirmacion(q)'
  BY <1>4, <1>6 DEF EsperandoConfirmacion
<1> QED  BY <1>3, <1>7, <1>8, <1>9 DEF EnFase, EnBucle

\* A request is put after the close that may be waiting.
LEMMA AlFinal ==
  ASSUME NEW p, NEW m, SoloCierre(p), UNCHANGED fileTable, pedidos'[p] = Append(pedidos[p], m)
  PROVE  \/ pedidos'[p] = <<m>>
         \/ \E c \in Pedido : SuCierre(p, c)' /\ pedidos'[p] = <<c, m>>
<1>1. CASE Vacio(p)
  BY <1>1, DeUno DEF Vacio
<1>2. ASSUME NEW c \in Pedido, SuCierre(p, c), pedidos[p] = <<c>>
      PROVE  SuCierre(p, c)' /\ pedidos'[p] = <<c, m>>
  <2>1. pedidos'[p] = Append(<<c>>, m)
    BY <1>2
  <2>2. Append(<<c>>, m) = <<c, m>>
    BY DeDos
  <2>3. SuCierre(p, c)'
    BY <1>2 DEF SuCierre, EsDe, Presente
  <2> QED  BY <2>1, <2>2, <2>3
<1> QED  BY <1>1, <1>2 DEF SoloCierre

\* The three kinds of request the S-AFA may find at the head, and what is behind it.
LEMMA Cabeza ==
  ASSUME TypeOK, NEW p \in Procesos, EnFase(p), pedidos[p] # << >>
  PROVE  \/ /\ SuCierre(p, Head(pedidos[p]))
            /\ pc[p] \in {"bucle", "fin", "memoria"} => Tail(pedidos[p]) = << >>
            /\ pc[p] \in {"bucle", "fin"} => canal[p] = << >>
            /\ pc[p] = "memoria" => canal[p] = <<"direccion">> /\ linea[p].palabra # "asignar"
            /\ pc[p] = "archivo" => /\ Tail(pedidos[p]) = <<Pide(p, "CHECK_IF_FILE_OPEN")>>
                                    /\ canal[p] = << >>
            /\ pc[p] = "confirmacion" => /\ \E t \in ConPCB : Tail(pedidos[p]) = <<Pide(p, t)>>
                                         /\ canal[p] = << >>
         \/ /\ Head(pedidos[p]) = Pide(p, "CHECK_IF_FILE_OPEN") /\ Tail(pedidos[p]) = << >>
            /\ pc[p] = "archivo" /\ canal[p] = << >>
         \/ /\ \E t \in ConPCB : Head(pedidos[p]) = Pide(p, t)
            /\ Tail(pedidos[p]) = << >>
            /\ pc[p] = "confirmacion" /\ canal[p] = << >>
<1>1. CASE pc[p] \in {"bucle", "fin"}
  BY <1>1, DeUno DEF EnFase, EnBucle, SoloCierre, Vacio
<1>2. CASE pc[p] = "memoria"
  BY <1>2, DeUno DEF EnFase, EsperandoMemoria, SoloCierre, Vacio
<1>3. CASE pc[p] = "archivo"
  <2>1. canal[p] = << >> /\ ConCierre(p, Pide(p, "CHECK_IF_FILE_OPEN"))
    BY <1>3 DEF EnFase, EsperandoArchivo, Vacio
  <2> DEFINE m == Pide(p, "CHECK_IF_FILE_OPEN")
  <2>2. CASE pedidos[p] = <<m>>
    BY <1>3, <2>1, <2>2, DeUno
  <2>3. ASSUME NEW c \in Pedido, SuCierre(p, c), pedidos[p] = <<c, m>>
        PROVE  Head(pedidos[p]) = c /\ Tail(pedidos[p]) = <<m>>
    BY <2>3, DeDos
  <2> QED  BY <1>3, <2>1, <2>2, <2>3 DEF ConCierre
<1>4. CASE pc[p] = "confirmacion"
  <2>1. canal[p] = << >> /\ \E t \in ConPCB : ConCierre(p, Pide(p, t))
    BY <1>4 DEF EnFase, EsperandoConfirmacion, Vacio
  <2>2. PICK t \in ConPCB : ConCierre(p, Pide(p, t))
    BY <2>1
  <2> DEFINE m == Pide(p, t)
  <2>3. CASE pedidos[p] = <<m>>
    BY <1>4, <2>1, <2>3, DeUno
  <2>4. ASSUME NEW c \in Pedido, SuCierre(p, c), pedidos[p] = <<c, m>>
        PROVE  Head(pedidos[p]) = c /\ Tail(pedidos[p]) = <<m>>
    BY <2>4, DeDos
  <2> QED  BY <1>4, <2>1, <2>2, <2>3, <2>4 DEF ConCierre
<1>5. pc[p] \in {"bucle", "archivo", "memoria", "confirmacion", "fin"}
  BY DEF TypeOK
<1> QED  BY <1>1, <1>2, <1>3, <1>4, <1>5

\* A step of the CPU of p: its own phase is left to show.
LEMMA PasoDeCpu ==
  ASSUME TypeOK, Dialogo, NEW p \in Procesos, UNCHANGED safaVars, alDia' => alDia,
         \A q \in Procesos \ {p} : /\ pc'[q] = pc[q] /\ linea'[q] = linea[q]
                                   /\ canal'[q] = canal[q] /\ pedidos'[q] = pedidos[q],
         alDia /\ alDia' /\ EnFase(p) => EnFase(p)'
  PROVE  Dialogo'
<1> SUFFICES ASSUME alDia', NEW q \in Procesos PROVE EnFase(q)'
  BY DEF Dialogo
<1>1. EnFase(q) /\ alDia
  BY DEF Dialogo
<1>2. \A f \in Archivos : EsDe(q, f) => EsDe(q, f)'
  BY DEF safaVars, EsDe, Presente
<1>3. CASE q # p
  BY <1>1, <1>2, <1>3, Ajeno
<1> QED  BY <1>1, <1>3

LEMMA DialogoCpu ==
  ASSUME TypeOK, Dialogo, NEW p \in Procesos, Cpu(p)
  PROVE  Dialogo'
<1>1. CASE Instruccion(p)
  <2>1. ASSUME EnFase(p) PROVE EnFase(p)'
    <3>1. pc[p] = "bucle" /\ EnBucle(p)
      BY <1>1, <2>1 DEF EnFase, Instruccion, Listo
    <3>2. pc'[p] = "archivo" /\ canal'[p] = << >> /\ UNCHANGED fileTable
      BY <1>1, <3>1 DEF Instruccion, Esperar, EnBucle, TypeOK, safaVars
    <3>3. pedidos'[p] = Append(pedidos[p], Pide(p, "CHECK_IF_FILE_OPEN")')
      BY <1>1 DEF Instruccion, Enviar, Pide, TypeOK
    <3>4. ConCierre(p, Pide(p, "CHECK_IF_FILE_OPEN"))'
      BY <3>1, <3>2, <3>3, AlFinal DEF EnBucle, ConCierre
    <3> QED  BY <3>2, <3>4 DEF EnFase, EsperandoArchivo
  <2> QED  BY <1>1, <2>1, PasoDeCpu DEF Instruccion, Enviar, Esperar, TypeOK
<1>2. CASE Terminar(p)
  <2>1. ASSUME EnFase(p) PROVE EnFase(p)'
    <3>1. pc[p] = "bucle" /\ EnBucle(p)
      BY <1>2, <2>1 DEF EnFase, Terminar, Listo
    <3>2. pc'[p] = "confirmacion" /\ canal'[p] = << >> /\ UNCHANGED fileTable
      BY <1>2, <3>1 DEF Terminar, EnviarPCB, Esperar, EnBucle, TypeOK, safaVars
    <3>3. pedidos'[p] = Append(pedidos[p], Pide(p, "END_OF_SCRIPT")')
      BY <1>2 DEF Terminar, EnviarPCB, Enviar, Pide, TypeOK
    <3>4. ConCierre(p, Pide(p, "END_OF_SCRIPT"))'
      BY <3>1, <3>2, <3>3, AlFinal DEF EnBucle, ConCierre
    <3> QED  BY <3>2, <3>4 DEF EnFase, EsperandoConfirmacion, ConPCB
  <2> QED  BY <1>2, <2>1, PasoDeCpu DEF Terminar, EnviarPCB, Enviar, Esperar, TypeOK
<1>3. CASE RecibirArchivo(p)
  <2>1. /\ UNCHANGED <<linea, fileTable>> /\ pc[p] = "archivo" /\ canal[p] # << >>
        /\ canal'[p] = Tail(canal[p])
    BY <1>3 DEF RecibirArchivo, Leer, Listo, TypeOK, safaVars
  <2>2. ASSUME EnFase(p), NEW t \in ConPCB, EnviarPCB(p, t), canal'[p] = << >>, Vacio(p)
        PROVE  EnFase(p)'
    <3>1. pc'[p] = "confirmacion" /\ pedidos'[p] = <<Pide(p, t)'>>
      BY <2>1, <2>2, DeUno DEF EnviarPCB, Enviar, Esperar, Pide, Vacio, TypeOK
    <3> QED  BY <2>2, <3>1 DEF EnFase, EsperandoConfirmacion, ConCierre
  <2>3. ASSUME EnFase(p), alDia' PROVE EnFase(p)'
    <3>1. /\ Vacio(p)
          /\ \/ canal[p] = <<"FILE_NOT_OPEN">> \/ canal[p] = <<"FILE_OPENED_BY_ANOTHER_PROCESS">>
             \/ canal[p] = <<"FILE_OPEN", "direccion">> /\ EsDe(p, linea[p].archivo)
      BY <2>1, <2>3 DEF EnFase, EsperandoArchivo
    <3>2. CASE canal[p] = <<"FILE_NOT_OPEN">> \/ canal[p] = <<"FILE_OPENED_BY_ANOTHER_PROCESS">>
      <4>1. /\ Head(canal[p]) \in {"FILE_NOT_OPEN", "FILE_OPENED_BY_ANOTHER_PROCESS"}
            /\ canal'[p] = << >>
        BY <2>1, <3>2, DeUno, ZenonT(30)
      <4>2. EnviarPCB(p, "BLOCK_PROCESS") \/ EnviarPCB(p, "PROCESS_ERROR")
        BY <1>3, <4>1 DEF RecibirArchivo, handleFileNotOpen, handleFileOpenedByOtherProcess,
                          PedirAlDma, tellSchedulerToBlockProcess, handleProcessError
      <4> QED  BY <2>2, <2>3, <3>1, <4>1, <4>2 DEF ConPCB
    <3>3. CASE canal[p] = <<"FILE_OPEN", "direccion">> /\ EsDe(p, linea[p].archivo)
      <4>1. Head(canal[p]) = "FILE_OPEN" /\ canal'[p] = <<"direccion">>
        BY <2>1, <3>3, DeDos
      <4>2. /\ linea[p].palabra \in {"asignar", "close"}
            /\ ConArchivoAbierto(p)
        BY <1>3, <2>3, <4>1 DEF RecibirArchivo, ConArchivoAbierto
      <4>3. EsDe(p, linea[p].archivo)'
        BY <2>1, <3>3 DEF EsDe, Presente
      <4>4. CASE linea[p].palabra = "asignar"
        <5>1. pc'[p] = "memoria" /\ UNCHANGED pedidos
          BY <4>2, <4>4 DEF ConArchivoAbierto, Esperar, TypeOK
        <5> QED  BY <3>1, <4>1, <4>3, <5>1 DEF EnFase, EsperandoMemoria, SoloCierre, Vacio
      <4>5. CASE linea[p].palabra = "close"
        <5> DEFINE c == Pide(p, "CLOSE_FILE")
        <5>1. pc'[p] = "memoria" /\ pedidos'[p] = <<c>>
          <6>1. Enviar(p, "CLOSE_FILE") /\ Esperar(p, "memoria")
            BY <4>2, <4>5 DEF ConArchivoAbierto
          <6>2. pedidos'[p] = Append(pedidos[p], c) /\ pc'[p] = "memoria"
            BY <2>1, <6>1 DEF Enviar, Esperar, Pide, TypeOK
          <6> QED  BY <3>1, <6>2, DeUno DEF Vacio
        <5>2. PICK k \in Pedido : k = c
          BY DEF Pide, Pedido, TypeOK
        <5>3. SuCierre(p, k)'
          BY <4>3, <2>1, <5>2 DEF Pide, SuCierre, EsDe, Presente
        <5>4. SoloCierre(p)'
          BY <5>1, <5>2, <5>3 DEF SoloCierre
        <5> QED  BY <2>1, <4>1, <4>5, <5>1, <5>4 DEF EnFase, EsperandoMemoria
      <4> QED  BY <4>2, <4>4, <4>5
    <3> QED  BY <3>1, <3>2, <3>3
  <2>4. /\ UNCHANGED safaVars /\ (alDia' => alDia)
        /\ \A q \in Procesos \ {p} : canal'[q] = canal[q]
    BY <1>3 DEF RecibirArchivo, Leer, TypeOK
  <2>5. \A q \in Procesos \ {p} : pc'[q] = pc[q] /\ pedidos'[q] = pedidos[q]
    <3>1. CASE \E t \in ConPCB : EnviarPCB(p, t)
      BY <3>1 DEF EnviarPCB, Enviar, Esperar, TypeOK
    <3>2. CASE Esperar(p, "memoria") /\ (Enviar(p, "CLOSE_FILE") \/ UNCHANGED pedidos)
      BY <3>2 DEF Enviar, Esperar, TypeOK
    <3>3. CASE Completar(p)
      BY <3>3 DEF Completar, Esperar, TypeOK
    <3> QED  BY <1>3, <3>1, <3>2, <3>3 DEF RecibirArchivo, handleFileNotOpen, ConPCB,
               handleFileOpenedByOtherProcess, ConArchivoAbierto, PedirAlDma,
               handleProcessError, tellSchedulerToBlockProcess
  <2> QED  BY <2>1, <2>3, <2>4, <2>5, PasoDeCpu
<1>4. CASE RecibirMemoria(p)
  <2>1. ASSUME EnFase(p) PROVE EnFase(p)'
    <3>1. EsperandoMemoria(p) /\ pc'[p] = "bucle" /\ UNCHANGED <<pedidos, fileTable>>
      BY <1>4, <2>1 DEF EnFase, RecibirMemoria, Leer, Listo, Completar, Esperar, TypeOK, safaVars
    <3>2. canal'[p] = << >>
      BY <1>4, <3>1, DeUno DEF EsperandoMemoria, RecibirMemoria, Leer, TypeOK
    <3>3. SoloCierre(p)'
      BY <3>1 DEF EsperandoMemoria, SoloCierre, Vacio, SuCierre, EsDe, Presente
    <3> QED  BY <3>1, <3>2, <3>3 DEF EnFase, EnBucle
  <2> QED  BY <1>4, <2>1, PasoDeCpu DEF RecibirMemoria, Leer, Completar, Esperar, TypeOK
<1>5. CASE RecibirConfirmacion(p)
  <2>1. ASSUME EnFase(p) PROVE EnFase(p)'
    <3>1. /\ canal[p] = <<"MESSAGE_RECEIVED">> /\ Vacio(p)
          /\ pc'[p] \in {"bucle", "fin"} /\ UNCHANGED pedidos
      BY <1>5, <2>1 DEF EnFase, EsperandoConfirmacion, RecibirConfirmacion, Leer, Listo, Esperar, TypeOK
    <3>2. canal'[p] = << >>
      BY <1>5, <3>1, DeUno DEF RecibirConfirmacion, Leer, TypeOK
    <3> QED  BY <3>1, <3>2 DEF EnFase, EnBucle, SoloCierre, Vacio
  <2> QED  BY <1>5, <2>1, PasoDeCpu DEF RecibirConfirmacion, Leer, Esperar, TypeOK
<1> QED  BY <1>1, <1>2, <1>3, <1>4, <1>5 DEF Cpu

\* A step of the S-AFA for p: the files of the others stay theirs, and the phase of p is
\* left to show.
LEMMA PasoDeSafa ==
  ASSUME TypeOK, Dialogo, NEW p \in Procesos, UNCHANGED <<cpuVars, alDia>>,
         \A q \in Procesos \ {p} : canal'[q] = canal[q] /\ pedidos'[q] = pedidos[q],
         \A q \in Procesos \ {p}, f \in Archivos : EsDe(q, f) => EsDe(q, f)',
         EnFase(p) => EnFase(p)'
  PROVE  Dialogo'
<1> SUFFICES ASSUME alDia', NEW q \in Procesos PROVE EnFase(q)'
  BY DEF Dialogo
<1>1. EnFase(q)
  BY DEF Dialogo
<1>2. CASE q # p
  BY <1>1, <1>2, Ajeno DEF cpuVars
<1> QED  BY <1>1, <1>2

\* Who ends gives up its own files, and may be woken with somebody else.
LEMMA SoloLosSuyos ==
  ASSUME NEW p \in Procesos, TerminarYLiberar(p) \/ \E c : Morir(c)
  PROVE  \A q \in Procesos \ {p}, f \in Archivos : EsDe(q, f) => EsDe(q, f)'
<1>1. CASE UNCHANGED fileTable
  BY <1>1 DEF EsDe, Presente
<1>2. CASE fileTable' # fileTable
  <2>1. /\ DOMAIN fileTable' = DOMAIN fileTable
        /\ \A f \in DOMAIN fileTable : fileTable[f].asignado # p => fileTable'[f] = fileTable[f]
    BY <1>2 DEF TerminarYLiberar, Morir
  <2> QED  BY <2>1 DEF EsDe, Presente
<1> QED  BY <1>1, <1>2

LEMMA DialogoPCB ==
  ASSUME TypeOK, Dialogo, NEW p \in Procesos, NEW t \in ConPCB, Confirmar(p, t),
         \A q \in Procesos \ {p}, f \in Archivos : EsDe(q, f) => EsDe(q, f)'
  PROVE  Dialogo'
<1>1. /\ pedidos[p] # << >> /\ Head(pedidos[p]).tarea = t /\ UNCHANGED <<cpuVars, alDia>>
      /\ pedidos'[p] = Tail(pedidos[p]) /\ canal'[p] = canal[p] \o <<"MESSAGE_RECEIVED">>
      /\ \A q \in Procesos \ {p} : canal'[q] = canal[q] /\ pedidos'[q] = pedidos[q]
  BY DEF Confirmar, Atender, Responder, TypeOK
<1>2. ASSUME EnFase(p) PROVE EnFase(p)'
  <2>1. Tail(pedidos[p]) = << >> /\ pc[p] = "confirmacion" /\ canal[p] = << >>
    <3>1. t # "CLOSE_FILE" /\ t # "CHECK_IF_FILE_OPEN"
      BY DEF ConPCB
    <3>2. ~SuCierre(p, Head(pedidos[p]))
      BY <1>1, <3>1 DEF SuCierre
    <3>3. Head(pedidos[p]) # Pide(p, "CHECK_IF_FILE_OPEN")
      BY <1>1, <3>1 DEF Pide
    <3> QED  BY <1>1, <1>2, <3>2, <3>3, Cabeza
  <2>2. canal'[p] = <<"MESSAGE_RECEIVED">>
    BY <1>1, <2>1, DeUno
  <2> QED  BY <1>1, <2>1, <2>2 DEF EnFase, EsperandoConfirmacion, Vacio, cpuVars
<1> QED  BY <1>1, <1>2, PasoDeSafa

LEMMA DialogoSafa ==
  ASSUME TypeOK, Dialogo, NEW p \in Procesos, Safa(p)
  PROVE  Dialogo'
<1>1. CASE checkIfFileOpen(p)
  <2> DEFINE h == Head(pedidos[p])
             f == h.archivo
  <2>1. /\ pedidos[p] # << >> /\ h.tarea = "CHECK_IF_FILE_OPEN" /\ UNCHANGED <<cpuVars, alDia>>
        /\ pedidos'[p] = Tail(pedidos[p])
        /\ \A q \in Procesos \ {p} : pedidos'[q] = pedidos[q]
    BY <1>1 DEF checkIfFileOpen, Atender, TypeOK
  <2>2. \A q \in Procesos \ {p} : canal'[q] = canal[q]
    BY <1>1 DEF checkIfFileOpen, Responder, TypeOK
  <2>3. \A q \in Procesos \ {p}, g \in Archivos : EsDe(q, g) => EsDe(q, g)'
    <3>1. CASE UNCHANGED fileTable
      BY <3>1 DEF EsDe, Presente
    <3>2. CASE fileTable[f].asignado = Nadie /\ fileTable' = [fileTable EXCEPT ![f].asignado = p]
      BY <3>2, ConstantesOK DEF EsDe, Presente
    <3>3. CASE fileTable' = [fileTable EXCEPT ![f].esperan = Append(@, p)]
      BY <3>3 DEF EsDe, Presente
    <3> QED  BY <1>1, <3>1, <3>2, <3>3 DEF checkIfFileOpen
  <2>4. ASSUME EnFase(p) PROVE EnFase(p)'
    <3>1. h = Pide(p, "CHECK_IF_FILE_OPEN") /\ Tail(pedidos[p]) = << >>
          /\ pc[p] = "archivo" /\ canal[p] = << >>
      <4>1. ~SuCierre(p, h) /\ \A t \in ConPCB : h # Pide(p, t)
        BY <2>1 DEF SuCierre, Pide, ConPCB
      <4> QED  BY <2>1, <2>4, <4>1, Cabeza
    <3>2. pc'[p] = "archivo" /\ linea'[p] = linea[p] /\ Vacio(p)' /\ f = linea[p].archivo
      BY <2>1, <3>1 DEF Vacio, cpuVars, Pide
    <3>3. CASE Responder(p, <<"FILE_NOT_OPEN">>)
      BY <3>1, <3>2, <3>3, DeUno DEF Responder, EnFase, EsperandoArchivo, TypeOK
    <3>4. CASE Responder(p, <<"FILE_OPENED_BY_ANOTHER_PROCESS">>)
      BY <3>1, <3>2, <3>4, DeUno DEF Responder, EnFase, EsperandoArchivo, TypeOK
    <3>5. CASE UNCHANGED canal
      BY <3>1, <3>2, <3>5 DEF EnFase, EsperandoArchivo
    <3>6. CASE EsDe(p, f) /\ Responder(p, <<"FILE_OPEN", "direccion">>) /\ UNCHANGED fileTable
      <4>1. canal'[p] = <<"FILE_OPEN", "direccion">>
        <5>1. canal'[p] = << >> \o <<"FILE_OPEN", "direccion">>
          BY <3>1, <3>6 DEF Responder, TypeOK
        <5> QED  BY <5>1, DeDos
      <4>2. EsDe(p, linea[p].archivo)'
        BY <3>2, <3>6 DEF EsDe, Presente
      <4> QED  BY <3>2, <4>1, <4>2 DEF EnFase, EsperandoArchivo
    <3> QED  BY <1>1, <3>3, <3>4, <3>5, <3>6 DEF checkIfFileOpen, EsDe
  <2> QED  BY <2>1, <2>2, <2>3, <2>4, PasoDeSafa
<1>2. CASE closeFile(p)
  <2> DEFINE h == Head(pedidos[p])
             f == h.archivo
  <2>1. /\ pedidos[p] # << >> /\ h.tarea = "CLOSE_FILE" /\ UNCHANGED <<cpuVars, alDia, canal>>
        /\ pedidos'[p] = Tail(pedidos[p])
        /\ \A q \in Procesos \ {p} : pedidos'[q] = pedidos[q]
    BY <1>2 DEF closeFile, Atender, TypeOK
  <2>2. CASE ~alDia
    BY <2>1, <2>2 DEF Dialogo
  <2>3. CASE alDia
    <3>1. EnFase(p)
      BY <2>3 DEF Dialogo
    <3>2. /\ SuCierre(p, h)
          /\ pc[p] \in {"bucle", "fin", "memoria"} => Tail(pedidos[p]) = << >>
          /\ pc[p] \in {"bucle", "fin"} => canal[p] = << >>
          /\ pc[p] = "memoria" => canal[p] = <<"direccion">> /\ linea[p].palabra # "asignar"
          /\ pc[p] = "archivo" => /\ Tail(pedidos[p]) = <<Pide(p, "CHECK_IF_FILE_OPEN")>>
                                  /\ canal[p] = << >>
          /\ pc[p] = "confirmacion" => /\ \E t \in ConPCB : Tail(pedidos[p]) = <<Pide(p, t)>>
                                       /\ canal[p] = << >>
      <4>1. h # Pide(p, "CHECK_IF_FILE_OPEN") /\ \A t \in ConPCB : h # Pide(p, t)
        BY <2>1 DEF Pide, ConPCB
      <4> HIDE DEF h
      <4> QED  BY <2>1, <3>1, <4>1, Cabeza DEF h
    <3>3. EnFase(p)'
      BY <2>1, <3>2 DEF EnFase, EnBucle, EsperandoArchivo, EsperandoMemoria,
         EsperandoConfirmacion, SoloCierre, ConCierre, Vacio, Pide, cpuVars
    <3>4. \A q \in Procesos \ {p}, g \in Archivos : EsDe(q, g) => EsDe(q, g)'
      <4>1. fileTable[f].asignado = p
        BY <3>2 DEF SuCierre, EsDe
      <4>2. fileTable' = fileTable \/ fileTable' = Sin(f)
        BY <1>2 DEF closeFile, safaVars, Morir
      <4> QED  BY <4>1, <4>2 DEF EsDe, Presente, Sin
    <3> QED  BY <2>1, <3>3, <3>4, PasoDeSafa
  <2> QED  BY <2>2, <2>3
<1>3. CASE _blockProcess(p)
  <2>1. \A q \in Procesos \ {p}, g \in Archivos : EsDe(q, g) => EsDe(q, g)'
    BY <1>3 DEF _blockProcess, Morir, EsDe, Presente
  <2> QED  BY <1>3, <2>1, DialogoPCB DEF _blockProcess, ConPCB
<1>4. CASE _killProcess(p)
  BY <1>4, SoloLosSuyos, DialogoPCB DEF _killProcess, ConPCB
<1>5. CASE terminateProcess(p)
  BY <1>5, SoloLosSuyos, DialogoPCB DEF terminateProcess, ConPCB
<1>6. ASSUME NEW f \in Archivos, unlockProcess(p, f) PROVE Dialogo'
  <2>1. UNCHANGED <<cpuVars, pedidos, canal, alDia>>
    BY <1>6 DEF unlockProcess
  <2>2. \A q \in Procesos, g \in Archivos : EsDe(q, g) => EsDe(q, g)'
    BY <1>6 DEF unlockProcess, saveFileDataToFileTable, Con, EsDe, Presente
  <2>3. EnFase(p) => EnFase(p)'
    BY <2>1, <2>2, Ajeno DEF cpuVars
  <2> QED  BY <2>1, <2>2, <2>3, PasoDeSafa
<1> QED  BY <1>1, <1>2, <1>3, <1>4, <1>5, <1>6 DEF Safa

-----------------------------------------------------------------------------
(* The keys and the files of each name *)

\* The places of the list, and the files of a set, whose name is n.
Claves(s, n) == {i \in DOMAIN s : Minusculas[s[i]] = n}
DeNombre(fs, n) == {f \in fs : Minusculas[f] = n}

\* ClavesCoherentes, of any list of keys, files in the table and files closed while waited for.
Balance(s, fs, ce) ==
  \A n \in Range(Minusculas) :
    /\ Cardinality(Claves(s, n)) >= Cardinality(DeNombre(fs, n))
    /\ Cardinality(Claves(s, n)) > Cardinality(DeNombre(fs, n)) => DeNombre(ce, n) # {}

LEMMA ClavesFinitas ==
  ASSUME NEW s \in Seq(Archivos), NEW n
  PROVE  /\ IsFiniteSet(Claves(s, n)) /\ Claves(s, n) \subseteq 1 .. Len(s)
         /\ Cardinality(Claves(s, n)) \in Nat
<1>1. DOMAIN s = 1 .. Len(s) /\ Len(s) \in Nat /\ 1 \in Int /\ Len(s) \in Int
  BY LenProperties
<1>2. IsFiniteSet(1 .. Len(s)) /\ Claves(s, n) \in SUBSET (1 .. Len(s))
  BY <1>1, FS_Interval DEF Claves
<1> QED  BY <1>2, FS_Subset, FS_CardinalityType

LEMMA NombreFinito ==
  ASSUME NEW fs, IsFiniteSet(fs), NEW n
  PROVE  IsFiniteSet(DeNombre(fs, n)) /\ Cardinality(DeNombre(fs, n)) \in Nat
<1>1. DeNombre(fs, n) \in SUBSET fs
  BY DEF DeNombre
<1> QED  BY <1>1, FS_Subset, FS_CardinalityType

\* A key more at the end of the list.
LEMMA ClaveMas ==
  ASSUME NEW s \in Seq(Archivos), NEW f \in Archivos, NEW n
  PROVE  Cardinality(Claves(Append(s, f), n)) =
           Cardinality(Claves(s, n)) + (IF n = Minusculas[f] THEN 1 ELSE 0)
<1> DEFINE t == Append(s, f)
           l == Len(s) + 1
<1>1. /\ t \in Seq(Archivos) /\ Len(t) = l
      /\ \A i \in 1 .. Len(s) : t[i] = s[i]
      /\ t[l] = f
  BY AppendProperties
<1>2. DOMAIN s = 1 .. Len(s) /\ DOMAIN t = 1 .. l /\ Len(s) \in Nat
  BY <1>1, LenProperties
<1> HIDE DEF t
<1>3. l \notin Claves(s, n)
  BY <1>2 DEF Claves
<1>4. Claves(t, n) = IF n = Minusculas[f] THEN Claves(s, n) \cup {l} ELSE Claves(s, n)
  BY <1>1, <1>2 DEF Claves
<1>5. /\ Cardinality(Claves(s, n) \cup {l}) = Cardinality(Claves(s, n)) + 1
      /\ Cardinality(Claves(s, n)) \in Nat
  BY <1>3, ClavesFinitas, FS_AddElement
<1>6. CASE n = Minusculas[f]
  BY <1>4, <1>5, <1>6 DEF t
<1>7. CASE n # Minusculas[f]
  BY <1>4, <1>5, <1>7 DEF t
<1> QED  BY <1>6, <1>7

\* A key less at any place: the others keep their order.
LEMMA ClaveMenos ==
  ASSUME NEW s \in Seq(Archivos), NEW m \in 1 .. Len(s), NEW n
  PROVE  Cardinality(Claves(RemoveAt(s, m), n)) =
           Cardinality(Claves(s, n)) - (IF n = Minusculas[s[m]] THEN 1 ELSE 0)
<1> DEFINE t == RemoveAt(s, m)
           A == Claves(t, n)
           B == Claves(s, n) \ {m}
           h == [i \in A |-> IF i < m THEN i ELSE i + 1]
<1>1. /\ t \in Seq(Archivos) /\ Len(t) = Len(s) - 1
      /\ \A i \in 1 .. Len(s) - 1 : t[i] = IF i < m THEN s[i] ELSE s[i + 1]
  BY SinUno
<1>2. /\ DOMAIN s = 1 .. Len(s) /\ DOMAIN t = 1 .. Len(s) - 1
      /\ Len(s) \in Nat /\ m \in Nat /\ 1 <= m /\ m <= Len(s)
  BY <1>1, LenProperties
<1> HIDE DEF t
<1>3. A \subseteq 1 .. Len(s) - 1 /\ B \subseteq 1 .. Len(s)
  BY <1>2 DEF Claves
<1>4. ASSUME NEW i \in A PROVE h[i] \in B
  <2>1. i \in 1 .. Len(s) - 1 /\ i \in Nat /\ Minusculas[t[i]] = n
    BY <1>2, <1>3 DEF Claves
  <2>2. CASE i < m
    <3>1. i \in 1 .. Len(s) /\ i # m /\ t[i] = s[i]
      BY <1>1, <1>2, <2>1, <2>2
    <3> QED  BY <1>2, <2>1, <2>2, <3>1 DEF Claves
  <2>3. CASE ~(i < m)
    <3>1. i + 1 \in 1 .. Len(s) /\ i + 1 # m /\ t[i] = s[i + 1]
      BY <1>1, <1>2, <2>1, <2>3
    <3> QED  BY <1>2, <2>1, <2>3, <3>1 DEF Claves
  <2> QED  BY <2>2, <2>3
<1>5. ASSUME NEW j \in B PROVE \E i \in A : h[i] = j
  <2>1. j \in 1 .. Len(s) /\ j # m /\ j \in Nat /\ Minusculas[s[j]] = n
    BY <1>2, <1>3 DEF Claves
  <2>2. CASE j < m
    <3>1. j \in 1 .. Len(s) - 1 /\ t[j] = s[j]
      BY <1>1, <1>2, <2>1, <2>2
    <3>2. j \in A
      BY <1>2, <2>1, <3>1 DEF Claves
    <3> QED  BY <2>2, <3>2
  <2>3. CASE ~(j < m)
    <3>1. j - 1 \in 1 .. Len(s) - 1 /\ ~(j - 1 < m) /\ (j - 1) + 1 = j /\ t[j - 1] = s[j]
      BY <1>1, <1>2, <2>1, <2>3
    <3>2. j - 1 \in A
      BY <1>2, <2>1, <3>1 DEF Claves
    <3> QED  BY <3>1, <3>2
  <2> QED  BY <2>2, <2>3
<1>6. ASSUME NEW i \in A, NEW k \in A, h[i] = h[k] PROVE i = k
  <2>1. i \in Nat /\ k \in Nat
    BY <1>2, <1>3
  <2> HIDE DEF A
  <2> QED  BY <1>2, <1>6, <2>1
<1>7. ExistsBijection(A, B)
  <2> HIDE DEF A, B
  <2>1. h \in [A -> B]
    BY <1>4
  <2> HIDE DEF h
  <2>2. h \in Injection(A, B)
    BY <1>6, <2>1 DEF Injection, IsInjective
  <2>3. h \in Surjection(A, B)
    BY <1>5, <2>1 DEF Surjection
  <2> QED  BY <2>2, <2>3 DEF ExistsBijection, Bijection
<1>8. IsFiniteSet(A)
  BY <1>1, ClavesFinitas
<1>9. Cardinality(A) = Cardinality(B)
  <2> HIDE DEF A, B
  <2> QED  BY <1>7, <1>8, FS_Bijection
<1>10. m \in Claves(s, n) <=> n = Minusculas[s[m]]
  BY <1>2 DEF Claves
<1>11. /\ Cardinality(B) = IF m \in Claves(s, n) THEN Cardinality(Claves(s, n)) - 1
                                                 ELSE Cardinality(Claves(s, n))
       /\ Cardinality(Claves(s, n)) \in Nat
  BY ClavesFinitas, FS_RemoveElement
<1> QED  BY <1>9, <1>10, <1>11 DEF t

\* A file more in the table, and a file less.
LEMMA NombreMas ==
  ASSUME NEW fs, IsFiniteSet(fs), NEW f, f \notin fs, NEW n
  PROVE  Cardinality(DeNombre(fs \cup {f}, n)) =
           Cardinality(DeNombre(fs, n)) + (IF n = Minusculas[f] THEN 1 ELSE 0)
<1>1. f \notin DeNombre(fs, n)
  BY DEF DeNombre
<1>2. DeNombre(fs \cup {f}, n) =
        IF n = Minusculas[f] THEN DeNombre(fs, n) \cup {f} ELSE DeNombre(fs, n)
  BY DEF DeNombre
<1>3. /\ Cardinality(DeNombre(fs, n) \cup {f}) = Cardinality(DeNombre(fs, n)) + 1
      /\ Cardinality(DeNombre(fs, n)) \in Nat
  BY <1>1, NombreFinito, FS_AddElement
<1>4. CASE n = Minusculas[f]
  BY <1>2, <1>3, <1>4
<1>5. CASE n # Minusculas[f]
  BY <1>2, <1>3, <1>5
<1> QED  BY <1>4, <1>5

LEMMA NombreMenos ==
  ASSUME NEW fs, IsFiniteSet(fs), NEW f \in fs, NEW n
  PROVE  Cardinality(DeNombre(fs \ {f}, n)) =
           Cardinality(DeNombre(fs, n)) - (IF n = Minusculas[f] THEN 1 ELSE 0)
<1> DEFINE gs == fs \ {f}
<1>1. IsFiniteSet(gs) /\ f \notin gs /\ gs \cup {f} = fs
  BY FS_RemoveElement
<1>2. Cardinality(DeNombre(gs, n)) \in Nat
  BY <1>1, NombreFinito
<1> HIDE DEF gs
<1>3. Cardinality(DeNombre(fs, n)) =
        Cardinality(DeNombre(gs, n)) + (IF n = Minusculas[f] THEN 1 ELSE 0)
  BY <1>1, NombreMas
<1>4. CASE n = Minusculas[f]
  BY <1>2, <1>3, <1>4 DEF gs
<1>5. CASE n # Minusculas[f]
  BY <1>2, <1>3, <1>5 DEF gs
<1> QED  BY <1>4, <1>5

\* A list of keys and a table whose balance is kept.
Cuenta(s, fs, ce) ==
  s \in Seq(Archivos) /\ fs \subseteq Archivos /\ IsFiniteSet(fs) /\ Balance(s, fs, ce)

\* saveFileDataToFileTable: a key and a file more.
LEMMA CuentaMas ==
  ASSUME NEW s, NEW fs, NEW ce, Cuenta(s, fs, ce), NEW f \in Archivos, f \notin fs
  PROVE  Cuenta(Append(s, f), fs \cup {f}, ce)
<1>1. /\ Append(s, f) \in Seq(Archivos) /\ fs \cup {f} \subseteq Archivos
      /\ IsFiniteSet(fs \cup {f})
  BY AppendProperties, FS_AddElement DEF Cuenta
<1>2. ASSUME NEW n \in Range(Minusculas)
      PROVE  /\ Cardinality(Claves(Append(s, f), n)) >= Cardinality(DeNombre(fs \cup {f}, n))
             /\ Cardinality(Claves(Append(s, f), n)) > Cardinality(DeNombre(fs \cup {f}, n)) =>
                  DeNombre(ce, n) # {}
  <2> DEFINE c == Cardinality(Claves(s, n))
             e == Cardinality(DeNombre(fs, n))
             d == IF n = Minusculas[f] THEN 1 ELSE 0
  <2>1. Cardinality(Claves(Append(s, f), n)) = c + d
    BY ClaveMas DEF Cuenta
  <2>2. Cardinality(DeNombre(fs \cup {f}, n)) = e + d
    BY NombreMas DEF Cuenta
  <2>3. c >= e /\ (c > e => DeNombre(ce, n) # {})
    BY DEF Cuenta, Balance
  <2>4. c \in Nat /\ e \in Nat /\ d \in Nat
    BY ClavesFinitas, NombreFinito DEF Cuenta
  <2> HIDE DEF c, e, d
  <2> QED  BY <2>1, <2>2, <2>3, <2>4
<1> QED  BY <1>1, <1>2 DEF Cuenta, Balance

\* closeFile with nobody waiting: a file less, and a key less of its name.
LEMMA CuentaMenos ==
  ASSUME NEW s, NEW fs, NEW ce, Cuenta(s, fs, ce), NEW f \in fs,
         NEW m \in 1 .. Len(s), Minusculas[s[m]] = Minusculas[f]
  PROVE  Cuenta(RemoveAt(s, m), fs \ {f}, ce)
<1>1. /\ RemoveAt(s, m) \in Seq(Archivos) /\ fs \ {f} \subseteq Archivos
      /\ IsFiniteSet(fs \ {f})
  BY SinUno, FS_RemoveElement DEF Cuenta
<1>2. ASSUME NEW n \in Range(Minusculas)
      PROVE  /\ Cardinality(Claves(RemoveAt(s, m), n)) >= Cardinality(DeNombre(fs \ {f}, n))
             /\ Cardinality(Claves(RemoveAt(s, m), n)) > Cardinality(DeNombre(fs \ {f}, n)) =>
                  DeNombre(ce, n) # {}
  <2> DEFINE c == Cardinality(Claves(s, n))
             e == Cardinality(DeNombre(fs, n))
             d == IF n = Minusculas[f] THEN 1 ELSE 0
  <2>1. Cardinality(Claves(RemoveAt(s, m), n)) = c - d
    BY ClaveMenos DEF Cuenta
  <2>2. Cardinality(DeNombre(fs \ {f}, n)) = e - d
    BY NombreMenos DEF Cuenta
  <2>3. c >= e /\ (c > e => DeNombre(ce, n) # {})
    BY DEF Cuenta, Balance
  <2>4. c \in Nat /\ e \in Nat /\ d \in Nat
    BY ClavesFinitas, NombreFinito DEF Cuenta
  <2> HIDE DEF c, e, d
  <2> QED  BY <2>1, <2>2, <2>3, <2>4
<1> QED  BY <1>1, <1>2 DEF Cuenta, Balance

\* closeFile with somebody waiting: a file less, and its key stays.
LEMMA CuentaVieja ==
  ASSUME NEW s, NEW fs, NEW ce, Cuenta(s, fs, ce), NEW f \in fs
  PROVE  Cuenta(s, fs \ {f}, ce \cup {f})
<1>1. fs \ {f} \subseteq Archivos /\ IsFiniteSet(fs \ {f})
  BY FS_RemoveElement DEF Cuenta
<1>2. ASSUME NEW n \in Range(Minusculas)
      PROVE  /\ Cardinality(Claves(s, n)) >= Cardinality(DeNombre(fs \ {f}, n))
             /\ Cardinality(Claves(s, n)) > Cardinality(DeNombre(fs \ {f}, n)) =>
                  DeNombre(ce \cup {f}, n) # {}
  <2> DEFINE c == Cardinality(Claves(s, n))
             e == Cardinality(DeNombre(fs, n))
             d == IF n = Minusculas[f] THEN 1 ELSE 0
  <2>1. Cardinality(DeNombre(fs \ {f}, n)) = e - d
    BY NombreMenos DEF Cuenta
  <2>2. c >= e /\ (c > e => DeNombre(ce, n) # {})
    BY DEF Cuenta, Balance
  <2>3. d = 0 \/ f \in DeNombre(ce \cup {f}, n)
    BY DEF DeNombre
  <2>4. DeNombre(ce, n) \subseteq DeNombre(ce \cup {f}, n)
    BY DEF DeNombre
  <2>5. c \in Nat /\ e \in Nat /\ d \in {0, 1}
    BY ClavesFinitas, NombreFinito DEF Cuenta
  <2> HIDE DEF c, e, d
  <2>6. c >= e - d
    BY <2>2, <2>5
  <2>7. c > e - d => DeNombre(ce \cup {f}, n) # {}
    <3>1. CASE d = 0
      BY <2>2, <2>4, <2>5, <3>1
    <3>2. CASE d # 0
      BY <2>3, <3>2
    <3> QED  BY <3>1, <3>2
  <2> QED  BY <2>1, <2>6, <2>7 DEF c
<1> QED  BY <1>1, <1>2 DEF Cuenta, Balance

\* A file of the table has a key of its name.
LEMMA TieneClave ==
  ASSUME NEW s, NEW fs, NEW ce, Cuenta(s, fs, ce), NEW f \in fs
  PROVE  \E i \in 1 .. Len(s) : Minusculas[s[i]] = Minusculas[f]
<1> DEFINE n == Minusculas[f]
<1>1. n \in Range(Minusculas)
  BY ConstantesOK DEF Cuenta, Range
<1>2. f \in DeNombre(fs, n) /\ IsFiniteSet(DeNombre(fs, n)) /\ Cardinality(DeNombre(fs, n)) \in Nat
  BY NombreFinito DEF Cuenta, DeNombre
<1>3. Cardinality(DeNombre(fs, n)) # 0
  BY <1>2, FS_EmptySet
<1>4. Cardinality(Claves(s, n)) >= Cardinality(DeNombre(fs, n))
  BY <1>1 DEF Cuenta, Balance
<1>5. Cardinality(Claves(s, n)) \in Nat /\ Claves(s, n) \subseteq 1 .. Len(s)
  BY ClavesFinitas DEF Cuenta
<1>6. Claves(s, n) # {}
  <2>1. Cardinality(Claves(s, n)) # 0
    BY <1>2, <1>3, <1>4, <1>5
  <2> QED  BY <2>1, FS_EmptySet
<1> QED  BY <1>5, <1>6 DEF Claves

CuentaActual == Cuenta(fileTableKeys, DOMAIN fileTable, cerroConEspera)

LEMMA CuentaInicial == Init => CuentaActual
<1> SUFFICES ASSUME Init PROVE CuentaActual
  OBVIOUS
<1>1. fileTableKeys = << >> /\ fileTableKeys \in Seq(Archivos) /\ DOMAIN fileTable = {}
  BY EmptySeq DEF Init
<1>2. ASSUME NEW n
      PROVE  /\ Cardinality(Claves(fileTableKeys, n)) = 0
             /\ Cardinality(DeNombre(DOMAIN fileTable, n)) = 0
  <2>1. Claves(fileTableKeys, n) = {} /\ DeNombre(DOMAIN fileTable, n) = {}
    BY <1>1 DEF Claves, DeNombre
  <2> QED  BY <2>1, FS_EmptySet
<1>3. Balance(fileTableKeys, DOMAIN fileTable, cerroConEspera)
  BY <1>2 DEF Balance
<1> QED  BY <1>1, <1>3, FS_EmptySet DEF CuentaActual, Cuenta

\* Whoever ends releases its files and leaves them in the table.
LEMMA CuentaLiberar ==
  ASSUME NEW p, TerminarYLiberar(p) \/ \E c : Morir(c)
  PROVE  DOMAIN fileTable' = DOMAIN fileTable /\ UNCHANGED <<fileTableKeys, cerroConEspera>>
  BY DEF TerminarYLiberar, Morir

LEMMA CuentaSafa ==
  ASSUME TypeOK, CuentaActual, NEW p \in Procesos, Safa(p)
  PROVE  CuentaActual'
<1>1. CASE DOMAIN fileTable' = DOMAIN fileTable /\ UNCHANGED <<fileTableKeys, cerroConEspera>>
  BY <1>1 DEF CuentaActual, Cuenta, Balance
<1>2. CASE checkIfFileOpen(p)
  <2>1. DOMAIN fileTable' = DOMAIN fileTable /\ UNCHANGED <<fileTableKeys, cerroConEspera>>
    BY <1>2 DEF checkIfFileOpen
  <2> QED  BY <1>1, <2>1
<1>3. CASE closeFile(p)
  <2> DEFINE f == Head(pedidos[p]).archivo
             esperan == fileTable[f].esperan
  <2>1. CASE UNCHANGED safaVars \/ \E c : Morir(c)
    BY <1>1, <2>1 DEF safaVars, Morir
  <2>2. CASE /\ Presente(f) /\ fileTable' = Sin(f)
             /\ fileTableKeys' = removeKeyFromList(f) /\ UNCHANGED cerroConEspera
    <3>1. f \in DOMAIN fileTable /\ DOMAIN fileTable' = DOMAIN fileTable \ {f}
      BY <2>2 DEF Presente, Sin
    <3>2. \E i \in 1 .. Len(fileTableKeys) : Minusculas[fileTableKeys[i]] = Minusculas[f]
      BY <3>1, TieneClave DEF CuentaActual
    <3>3. PICK m \in 1 .. Len(fileTableKeys) :
            /\ Minusculas[fileTableKeys[m]] = Minusculas[f]
            /\ removeKeyFromList(f) = RemoveAt(fileTableKeys, m)
      BY <3>2, PrimerNombre DEF CuentaActual, Cuenta
    <3> QED  BY <2>2, <3>1, <3>3, CuentaMenos DEF CuentaActual
  <2>3. CASE /\ Presente(f) /\ fileTable' = Sin(f)
             /\ cerroConEspera' = cerroConEspera \union {f} /\ UNCHANGED fileTableKeys
    <3>1. f \in DOMAIN fileTable /\ DOMAIN fileTable' = DOMAIN fileTable \ {f}
      BY <2>3 DEF Presente, Sin
    <3> QED  BY <2>3, <3>1, CuentaVieja DEF CuentaActual
  <2> QED  BY <1>3, <2>1, <2>2, <2>3 DEF closeFile
<1>4. CASE _blockProcess(p) \/ _killProcess(p) \/ terminateProcess(p)
  <2>1. DOMAIN fileTable' = DOMAIN fileTable /\ UNCHANGED <<fileTableKeys, cerroConEspera>>
    BY <1>4, CuentaLiberar DEF _blockProcess, _killProcess, terminateProcess
  <2> QED  BY <1>1, <2>1
<1>5. ASSUME NEW f \in Archivos, unlockProcess(p, f) PROVE CuentaActual'
  <2>1. CASE Presente(f)
    BY <1>1, <1>5, <2>1 DEF unlockProcess, saveFileDataToFileTable
  <2>2. CASE ~Presente(f)
    <3>1. /\ DOMAIN fileTable' = DOMAIN fileTable \cup {f} /\ f \notin DOMAIN fileTable
          /\ fileTableKeys' = Append(fileTableKeys, f) /\ UNCHANGED cerroConEspera
      BY <1>5, <2>2 DEF unlockProcess, saveFileDataToFileTable, Con, Presente
    <3> QED  BY <3>1, CuentaMas DEF CuentaActual
  <2> QED  BY <2>1, <2>2
<1> QED  BY <1>2, <1>3, <1>4, <1>5 DEF Safa

-----------------------------------------------------------------------------
(* Theorems *)

LEMMA Inductivo == IInv /\ [Next]_vars => IInv'
<1> SUFFICES ASSUME IInv, [Next]_vars PROVE Dialogo'
  BY TipoSigue DEF IInv
<1>1. CASE Next
  BY <1>1, DialogoCpu, DialogoSafa DEF IInv, Next
<1>2. CASE UNCHANGED vars
  BY <1>2, ZenonT(30) DEF IInv, Dialogo, EnFase, EnBucle, EsperandoArchivo, EsperandoMemoria,
     EsperandoConfirmacion, SoloCierre, ConCierre, Vacio, SuCierre, Pide, EsDe, Presente,
     vars, cpuVars, safaVars
<1> QED  BY <1>1, <1>2

\* Every variable keeps its type, for any processes, names and bound: list and dictionary
\* of the file table keep their entries whole.
THEOREM TipoCorrecto == Spec => []TypeOK
<1>1. Init => TypeOK
  BY TipoInicial
<1>2. TypeOK /\ [Next]_vars => TypeOK'
  BY TipoSigue
<1> QED  BY <1>1, <1>2, PTL DEF Spec

LEMMA SiempreIInv == Spec => []IInv
<1>1. Init => IInv
  BY TipoInicial, DialogoInicial DEF IInv
<1> QED  BY <1>1, Inductivo, PTL DEF Spec

\* Who writes to a file or has its close on the way owns it: closeFile of the S-AFA may
\* release it without asking whose it is.
THEOREM UnSoloDuenio == Spec => []AccesoExclusivo
<1>1. IInv => AccesoExclusivo
  <2> SUFFICES ASSUME IInv, alDia, NEW p \in Procesos, NEW f \in Archivos, Usa(p, f)
               PROVE  EsDe(p, f)
    BY DEF AccesoExclusivo, EsDe
  <2>1. TypeOK /\ EnFase(p)
    BY DEF IInv, Dialogo
  <2>2. CASE pc[p] = "memoria" /\ linea[p] = [palabra |-> "asignar", archivo |-> f]
    BY <2>1, <2>2 DEF EnFase, EsperandoMemoria
  <2>3. ASSUME NEW i \in DOMAIN pedidos[p], pedidos[p][i] = [tarea |-> "CLOSE_FILE", archivo |-> f]
        PROVE  EsDe(p, f)
    <3>1. \/ Vacio(p)
          \/ \E c \in Pedido : SuCierre(p, c) /\ pedidos[p] = <<c>>
          \/ \E t \in ConPCB \union {"CHECK_IF_FILE_OPEN"} :
               \/ pedidos[p] = <<Pide(p, t)>>
               \/ \E c \in Pedido : SuCierre(p, c) /\ pedidos[p] = <<c, Pide(p, t)>>
      BY <2>1 DEF EnFase, EnBucle, EsperandoArchivo, EsperandoMemoria, EsperandoConfirmacion,
                  SoloCierre, ConCierre, TypeOK
    <3>2. \A t \in ConPCB \union {"CHECK_IF_FILE_OPEN"} : Pide(p, t).tarea # "CLOSE_FILE"
      BY DEF Pide, ConPCB
    <3>3. ~Vacio(p)
      BY <2>3 DEF Vacio
    <3>4. \E c \in Pedido : SuCierre(p, c) /\ pedidos[p][i] = c
      BY <2>3, <3>1, <3>2, <3>3, DeUno, DeDos
    <3> QED  BY <2>3, <3>4 DEF SuCierre
  <2> QED  BY <2>2, <2>3 DEF Usa
<1> QED  BY <1>1, SiempreIInv, PTL

\* A process leaves a waiting list only for the ready queue, in the same step.
THEOREM EsperaHastaListo == Spec => NadieSePierde
<1> DEFINE Sale == \A p \in Procesos, f \in Archivos :
             Espera(p, f) /\ ~Espera(p, f)' => cola[p] = "bloqueado" /\ cola'[p] = "listo"
<1>1. TypeOK /\ [Next]_vars => [Sale]_vars
  <2> SUFFICES ASSUME TypeOK, Next, NEW p \in Procesos, NEW f \in Archivos,
                      Espera(p, f), ~Espera(p, f)'
               PROVE  cola[p] = "bloqueado" /\ cola'[p] = "listo"
    OBVIOUS
  <2>1. /\ f \in DOMAIN fileTable
        /\ fileTable[f] \in [asignado : Procesos \union {Nadie}, esperan : Seq(Procesos)]
        /\ \E i \in DOMAIN fileTable[f].esperan : fileTable[f].esperan[i] = p
    BY DEF TypeOK, Espera, Presente, Range
  <2>2. \/ fileTable'[f].esperan # fileTable[f].esperan \/ f \notin DOMAIN fileTable'
    BY DEF Espera, Presente
  <2>3. PICK q \in Procesos : Cpu(q) \/ Safa(q)
    BY DEF Next
  <2>4. ASSUME fileTable[f].esperan # << >>, cola[Head(fileTable[f].esperan)] = "bloqueado",
               Len(fileTable[f].esperan) = 1
        PROVE  cola[p] = "bloqueado" /\ p = Head(fileTable[f].esperan)
    BY <2>1, <2>4
  <2>5. ~checkIfFileOpen(q)
    <3> DEFINE g == Head(pedidos[q]).archivo
    <3>1. SUFFICES ASSUME checkIfFileOpen(q) PROVE FALSE
      OBVIOUS
    <3>2. \/ UNCHANGED fileTable
          \/ fileTable' = [fileTable EXCEPT ![g].asignado = q]
          \/ fileTable' = [fileTable EXCEPT ![g].esperan = Append(@, q)]
      BY <3>1 DEF checkIfFileOpen
    <3>3. /\ fileTable' = [fileTable EXCEPT ![g].esperan = Append(@, q)] /\ g = f
          /\ f \in DOMAIN fileTable'
      BY <2>1, <2>2, <3>2
    <3>4. PICK i \in DOMAIN fileTable[f].esperan : fileTable[f].esperan[i] = p
      BY <2>1
    <3>5. fileTable'[f].esperan = Append(fileTable[f].esperan, q)
      BY <2>1, <3>3
    <3>6. i \in DOMAIN fileTable'[f].esperan /\ fileTable'[f].esperan[i] = p
      BY <2>1, <3>4, <3>5, AppendProperties
    <3> QED  BY <3>3, <3>6 DEF Espera, Presente, Range
  <2>6. ASSUME closeFile(q) PROVE cola[p] = "bloqueado" /\ cola'[p] = "listo"
    <3> DEFINE g == Head(pedidos[q]).archivo
               esperan == fileTable[g].esperan
    <3>1. /\ fileTable' = Sin(g)
          /\ \/ esperan = << >>
             \/ /\ Len(esperan) = 1 /\ cola[Head(esperan)] = "bloqueado"
                /\ cola' = [cola EXCEPT ![Head(esperan)] = "listo"]
      <4>1. fileTable' # fileTable
        BY <2>1, <2>2
      <4>2. ~UNCHANGED safaVars /\ ~Morir("desbloqueo") /\ ~Morir("lista")
        BY <4>1 DEF safaVars, Morir
      <4> QED  BY <2>6, <4>2 DEF closeFile
    <3>2. g = f
      BY <2>1, <2>2, <3>1 DEF Sin
    <3>3. esperan # << >>
      BY <2>1, <3>2
    <3>4. p = Head(esperan) /\ cola[p] = "bloqueado"
      BY <2>4, <3>1, <3>2, <3>3
    <3> QED  BY <3>1, <3>3, <3>4 DEF TypeOK
  <2>7. ASSUME TerminarYLiberar(q) PROVE cola[p] = "bloqueado" /\ cola'[p] = "listo"
    <3> DEFINE propios == {g \in Range(fileTableKeys) \intersect DOMAIN fileTable :
                             fileTable[g].asignado = q}
               conEspera == {g \in propios : fileTable[g].esperan # << >>}
               primero(g) == Head(fileTable[g].esperan)
               fin == [cola EXCEPT ![q] = "terminado"]
    <3>1. /\ \A g \in conEspera : fin[primero(g)] = "bloqueado"
          /\ fileTable' = [g \in DOMAIN fileTable |->
                             IF g \in propios
                               THEN [asignado |-> Nadie,
                                     esperan  |-> IF g \in conEspera THEN Tail(fileTable[g].esperan)
                                                                     ELSE << >>]
                               ELSE fileTable[g]]
          /\ cola' = [r \in Procesos |-> IF \E g \in conEspera : r = primero(g) THEN "listo"
                                                                               ELSE fin[r]]
      <4>1. ~Morir("clave") /\ ~Morir("desbloqueo")
        BY <2>1, <2>2 DEF Morir
      <4> QED  BY <2>7, <4>1, Zenon DEF TerminarYLiberar
    <3>2. f \in conEspera /\ fileTable'[f].esperan = Tail(fileTable[f].esperan)
      BY <2>1, <2>2, <3>1
    <3>3. p = primero(f)
      <4>1. PICK i \in DOMAIN fileTable[f].esperan : fileTable[f].esperan[i] = p
        BY <2>1
      <4>2. i # 1 => i - 1 \in DOMAIN fileTable'[f].esperan /\ fileTable'[f].esperan[i - 1] = p
        BY <2>1, <3>2, <4>1, HeadTailProperties
      <4>3. i = 1
        BY <2>1, <3>1, <4>2 DEF Espera, Presente, Range
      <4> QED  BY <2>1, <4>1, <4>3
    <3>4. cola'[p] = "listo"
      BY <3>1, <3>2, <3>3
    <3>5. fin[p] = "bloqueado" => cola[p] = "bloqueado"
      BY DEF TypeOK
    <3> QED  BY <3>1, <3>2, <3>3, <3>4, <3>5
  <2>8. ASSUME NEW g \in Archivos PROVE ~unlockProcess(q, g)
    BY <2>1, <2>2 DEF unlockProcess, saveFileDataToFileTable, Con, Presente
  <2>9. fileTable' = fileTable => FALSE
    BY DEF Espera, Presente
  <2> QED  BY <2>3, <2>5, <2>6, <2>7, <2>8, <2>9 DEF Cpu, Safa, Instruccion, Terminar,
             RecibirArchivo, RecibirMemoria, RecibirConfirmacion, Leer, safaVars,
             _blockProcess, _killProcess, terminateProcess, Morir
<1> QED  BY <1>1, TipoCorrecto, PTL DEF Spec, NadieSePierde

\* A close with nobody waiting takes a key of the very name of the file, and one with somebody
\* waiting leaves the key of a file no longer there: never are there fewer keys than files.
THEOREM ClavesCubrenTabla == Spec => []ClavesCoherentes
<1>1. Init => TypeOK /\ CuentaActual
  BY TipoInicial, CuentaInicial
<1>2. TypeOK /\ CuentaActual /\ [Next]_vars => (TypeOK /\ CuentaActual)'
  <2> SUFFICES ASSUME TypeOK, CuentaActual, [Next]_vars PROVE CuentaActual'
    BY TipoSigue
  <2>1. CASE UNCHANGED <<fileTable, fileTableKeys, cerroConEspera>>
    BY <2>1 DEF CuentaActual, Cuenta, Balance
  <2>2. ASSUME NEW p \in Procesos, Cpu(p) PROVE UNCHANGED safaVars
    BY <2>2 DEF Cpu, Instruccion, Terminar, RecibirArchivo, RecibirMemoria,
                RecibirConfirmacion, Leer
  <2> QED  BY <2>1, <2>2, CuentaSafa DEF Next, vars, safaVars
<1>3. CuentaActual => ClavesCoherentes
  BY DEF CuentaActual, Cuenta, Balance, Claves, DeNombre, ClavesCoherentes
<1> QED  BY <1>1, <1>2, <1>3, PTL DEF Spec
=============================================================================
