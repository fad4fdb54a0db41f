-------------------------- MODULE MdjServidorProofs --------------------------
(***************************************************************************)
(* Proofs about the server thread of the MDJ, for any set of clients.      *)
(*                                                                         *)
(* The invariant says of each client what its connection may hold, unless  *)
(* a recv of the server took from it less than a part (DeLaCortada).  What *)
(* a client sends until it is answered is Todo, and a connection holds a   *)
(* segment of it (Tramo).  If the server is not in a handler of the client *)
(* (EnEspera): from the handshake or the command on, to what it has sent;  *)
(* with a pending answer nothing.  If it is (EnHandler): what the handler  *)
(* did not read, and the command is the client's.                          *)
(***************************************************************************)
EXTENDS MdjServidor, SequenceTheorems, TLAPS

Saludo == "NUEVA_CONEXION_DIEGO"
Crear  == "CREAR_ARCHIVO"
SinServir == {"select", "recorrer", "muerto"}

Todo(com) == <<Saludo, com, "largo", "texto", "bytes">>
Tramo(com, i, j) == SubSeq(Todo(com), i, j)
Total(com) == IF com = Crear THEN 5 ELSE 4

\* Parts of Todo that a client sent, and that the handler has read at p.
Enviadas(c) ==
  IF fase[c] = "libre" THEN 1
  ELSE IF fase[c] = "debeLargo" THEN 2
  ELSE IF fase[c] = "debeTexto" THEN 3
  ELSE IF fase[c] = "debeBytes" THEN 4
  ELSE Total(pedido[c])

Leidas(p, com) ==
  IF p = "recvLargo" THEN 2
  ELSE IF p = "recvTexto" THEN 3
  ELSE IF p = "recvBytes" THEN 4
  ELSE Total(com)

EnCamino(c, com, n) ==
  /\ n \in 1 .. Total(com)
  /\ canal[c] = Tramo(com, 1, n) \/ canal[c] = Tramo(com, 2, n)

EnPedido(c) ==
  /\ fase[c] # "libre" => pedido[c] \in Pedibles
  /\ fase[c] = "debeBytes" => pedido[c] = Crear

EnEspera(c) ==
  \/ /\ estado[c] = "cerrada" /\ fase[c] = "fuera"
     /\ canal[c] = << >> /\ respuesta[c] = NoRespuesta
  \/ /\ estado[c] = "abierta" /\ fase[c] # "fuera" /\ EnPedido(c)
     /\ \/ respuesta[c] = NoRespuesta /\ EnCamino(c, pedido[c], Enviadas(c))
        \/ fase[c] = "esperando" /\ canal[c] = << >>
  \/ /\ estado[c] \in {"fin", "rst", "muerta"} /\ fase[c] = "fuera"
     /\ respuesta[c] = NoRespuesta /\ (estado[c] = "rst" => canal[c] = << >>)
     /\ \E com \in Pedibles, n \in 1 .. 5 : EnCamino(c, com, n)

\* What is left of the request of c, of which it has sent n parts.
PorLeer(c, n) ==
  /\ n \in Leidas(pc, command) .. Total(command)
  /\ canal[c] = Tramo(command, Leidas(pc, command) + 1, n)
  /\ fase[c] # "fuera" => n = Enviadas(c)

EnHandler(c) ==
  /\ command \in Pedibles /\ respuesta[c] = NoRespuesta
  /\ pc = "recvBytes" => command = Crear
  /\ \/ estado[c] = "abierta" /\ fase[c] # "fuera" /\ pedido[c] = command /\ EnPedido(c)
     \/ estado[c] \in {"fin", "muerta"} /\ fase[c] = "fuera"
  /\ \E n \in 1 .. 5 : PorLeer(c, n)

DeLaCortada(c) ==
  /\ estado[c] # "cerrada"
  /\ estado[c] = "abierta" <=> fase[c] # "fuera"
  /\ estado[c] # "abierta" => respuesta[c] = NoRespuesta

DeCadaCliente(c) ==
  IF c \in cortada THEN DeLaCortada(c)
  ELSE IF socket = c THEN EnHandler(c) ELSE EnEspera(c)

Hilo ==
  /\ pc \in SinServir <=> socket = Escucha
  /\ pc = "responder" => rta # NoRta
  /\ pc = "muerto" => \A c \in Clientes : estado[c] = "cerrada"

IInv == TypeOK /\ Hilo /\ \A c \in Clientes : DeCadaCliente(c)

\* A client that a step does not touch.
Quieto(k) ==
  /\ estado'[k] = estado[k] /\ canal'[k] = canal[k] /\ respuesta'[k] = respuesta[k]
  /\ fase'[k] = fase[k] /\ pedido'[k] = pedido[k]
  /\ k \in cortada' <=> k \in cortada

-----------------------------------------------------------------------------
(* Segments *)

Dichos(com) == {Saludo, com, "largo", "texto", "bytes"}

LEMMA DeTodo ==
  ASSUME NEW com
  PROVE  /\ Todo(com) \in Seq(Dichos(com))
         /\ \A m \in 1 .. 5 : Todo(com)[m] \in Dichos(com)
         /\ Len(Todo(com)) = 5
         /\ Todo(com)[1] = Saludo /\ Todo(com)[2] = com /\ Todo(com)[3] = "largo"
         /\ Todo(com)[4] = "texto" /\ Todo(com)[5] = "bytes"
<1>1. /\ Todo(com) \in Seq(Dichos(com)) /\ Len(Todo(com)) = 5
      /\ Todo(com)[1] = Saludo /\ Todo(com)[2] = com /\ Todo(com)[3] = "largo"
      /\ Todo(com)[4] = "texto" /\ Todo(com)[5] = "bytes"
  BY DEF Todo, Dichos
<1>2. \A m \in 1 .. 5 : Todo(com)[m] \in Dichos(com)
  <2> SUFFICES ASSUME NEW m \in 1 .. 5
               PROVE  Todo(com)[m] \in Dichos(com)
    OBVIOUS
  <2>1. m = 1 \/ m = 2 \/ m = 3 \/ m = 4 \/ m = 5
    OBVIOUS
  <2> QED  BY <1>1, <2>1 DEF Dichos
<1> QED  BY <1>1, <1>2

LEMMA TramoVacio ==
  ASSUME NEW com, NEW i \in Int, NEW j \in Int, j < i
  PROVE  Tramo(com, i, j) = << >>
  BY SubSeqEmpty DEF Tramo

LEMMA TramoTipado ==
  ASSUME NEW com, NEW i \in 1 .. 6, NEW j \in 0 .. 5
  PROVE  /\ Tramo(com, i, j) \in Seq(Dichos(com))
         /\ Len(Tramo(com, i, j)) = (IF i <= j THEN j - i + 1 ELSE 0)
         /\ \A m \in 1 .. j - i + 1 : Tramo(com, i, j)[m] = Todo(com)[i + m - 1]
<1>1. \A m \in i .. j : Todo(com)[m] \in Dichos(com)
  <2>1. \A m \in i .. j : m \in 1 .. 5
    OBVIOUS
  <2> QED  BY <2>1, DeTodo
<1> QED  BY <1>1, SubSeqProperties DEF Tramo

\* What a receive that takes the next part leaves.
LEMMA TramoLeido ==
  ASSUME NEW com, NEW i \in 1 .. 5, NEW j \in i .. 5
  PROVE  /\ Tramo(com, i, j) # << >> /\ Head(Tramo(com, i, j)) = Todo(com)[i]
         /\ Tail(Tramo(com, i, j)) = Tramo(com, i + 1, j)
<1>1. i \in 1 .. 6 /\ j \in 0 .. 5 /\ i <= j /\ j \in i .. Len(Todo(com)) /\ i \in 1 .. Len(Todo(com))
  BY DeTodo
<1>3. Len(Tramo(com, i, j)) = j - i + 1
  BY <1>1, TramoTipado
<1>2. /\ Head(Tramo(com, i, j)) = Todo(com)[i]
      /\ Tail(Tramo(com, i, j)) = Tramo(com, i + 1, j)
  BY <1>1, DeTodo, HeadTailOfSubSeq DEF Tramo
<1>4. Tramo(com, i, j) # << >>
  BY <1>1, <1>3
<1> QED  BY <1>2, <1>4

\* The client sends its next part.
LEMMA TramoEnviado ==
  ASSUME NEW com, NEW i \in 1 .. 5, NEW j \in 0 .. 4, i <= j + 1
  PROVE  Append(Tramo(com, i, j), Todo(com)[j + 1]) = Tramo(com, i, j + 1)
<1> DEFINE S == Dichos(com)
           s == Tramo(com, i, j)
           t == Tramo(com, i, j + 1)
           x == Todo(com)[j + 1]
<1> j \in 0 .. 5 /\ j + 1 \in 0 .. 5 /\ i \in 1 .. 6
  OBVIOUS
<1>1. /\ s \in Seq(S) /\ Len(s) = j - i + 1
      /\ \A m \in 1 .. Len(s) : s[m] = Todo(com)[i + m - 1]
  <2>1. /\ s \in Seq(S) /\ Len(s) = (IF i <= j THEN j - i + 1 ELSE 0)
        /\ \A m \in 1 .. j - i + 1 : s[m] = Todo(com)[i + m - 1]
    BY TramoTipado
  <2> QED  BY <2>1
<1>2. /\ t \in Seq(S) /\ Len(t) = j - i + 2
      /\ \A m \in 1 .. Len(t) : t[m] = Todo(com)[i + m - 1]
  <2>1. PICK k \in 0 .. 5 : k = j + 1
    OBVIOUS
  <2>2. /\ Tramo(com, i, k) \in Seq(S) /\ Len(Tramo(com, i, k)) = k - i + 1
        /\ \A m \in 1 .. k - i + 1 : Tramo(com, i, k)[m] = Todo(com)[i + m - 1]
    BY <2>1, TramoTipado
  <2> QED  BY <2>1, <2>2
<1>3. x \in S
  BY DeTodo
<1> HIDE DEF S, s, t
<1>4. /\ Append(s, x) \in Seq(S) /\ Len(Append(s, x)) = Len(s) + 1
      /\ \A m \in 1 .. Len(s) : Append(s, x)[m] = s[m]
      /\ Append(s, x)[Len(s) + 1] = x
  BY <1>1, <1>3, AppendProperties
<1>5. \A m \in 1 .. Len(t) : Append(s, x)[m] = t[m]
  BY <1>1, <1>2, <1>4
<1>6. Append(s, x) = t
  BY <1>1, <1>2, <1>4, <1>5, SeqEqual
<1> QED  BY <1>6 DEF s, t

LEMMA MismoSaludo ==
  ASSUME NEW com, NEW otro
  PROVE  Tramo(com, 1, 1) = Tramo(otro, 1, 1) /\ Tramo(com, 1, 1) = <<Saludo>>
<1>1. \A x : Tramo(x, 1, 1) = <<Saludo>>
  <2> TAKE x
  <2>1. Tramo(x, 1, 1) \in Seq(Dichos(x)) /\ Len(Tramo(x, 1, 1)) = 1
    BY TramoTipado
  <2>3. Tramo(x, 1, 1)[1] = Saludo
    <3>1. Tramo(x, 1, 1)[1] = Todo(x)[1 + 1 - 1]
      <4>1. 1 \in 1 .. 6 /\ 1 \in 0 .. 5 /\ 1 \in 1 .. 1 - 1 + 1
        OBVIOUS
      <4> QED  BY <4>1, TramoTipado
    <3> QED  BY <3>1, DeTodo
  <2>2. <<Saludo>> \in Seq(Dichos(x)) /\ Len(<<Saludo>>) = 1 /\ <<Saludo>>[1] = Saludo
    BY DEF Dichos
  <2>4. \A i \in 1 .. Len(<<Saludo>>) : Tramo(x, 1, 1)[i] = <<Saludo>>[i]
    BY <2>2, <2>3
  <2> QED  BY <2>1, <2>2, <2>4, SeqEqual
<1> QED  BY <1>1

-----------------------------------------------------------------------------
(* Types, and the other clients *)

LEMMA ColaTipada ==
  ASSUME NEW c \in Clientes, canal \in [Clientes -> Seq(Partes)], canal[c] # << >>
  PROVE  /\ Head(canal[c]) \in Partes
         /\ [canal EXCEPT ![c] = Tail(@)] \in [Clientes -> Seq(Partes)]
<1>1. Head(canal[c]) \in Partes /\ Tail(canal[c]) \in Seq(Partes)
  BY HeadTailProperties
<1> QED  BY <1>1

LEMMA RestoTipado ==
  <<"resto">> \in Seq(Partes) /\ << >> \in Seq(Partes)
  BY DEF Partes

LEMMA EnvioTipado ==
  ASSUME NEW c \in Clientes, canal \in [Clientes -> Seq(Partes)], NEW x \in Partes,
         Enviar(c, x)
  PROVE  canal' \in [Clientes -> Seq(Partes)]
<1>1. Append(canal[c], x) \in Seq(Partes)
  BY AppendProperties
<1> QED  BY <1>1, RestoTipado DEF Enviar

\* The socket of a handler is a client's.
LEMMA EnHilo ==
  ASSUME IInv
  PROVE  /\ pc \notin SinServir => socket \in Clientes
         /\ pc \in SinServir => socket = Escucha /\ \A c \in Clientes : socket # c
         /\ \A c \in cortada : c \in Clientes /\ DeLaCortada(c)
         /\ \A c \in Clientes \ cortada : socket = c => EnHandler(c)
         /\ \A c \in Clientes \ cortada : socket # c => EnEspera(c)
  BY EscuchaAparte DEF IInv, TypeOK, Hilo, SinServir, DeCadaCliente

LEMMA Ajeno ==
  ASSUME NEW k \in Clientes, DeCadaCliente(k), Quieto(k),
         \/ socket # k /\ socket' # k
         \/ socket' = socket /\ pc' = pc /\ command' = command
  PROVE  DeCadaCliente(k)'
<1> USE DEF Quieto
<1>1. CASE k \in cortada
  BY <1>1 DEF DeCadaCliente, DeLaCortada
<1>2. CASE k \notin cortada /\ socket # k /\ socket' # k
  <2>1. EnEspera(k)
    BY <1>2 DEF DeCadaCliente
  <2>2. EnEspera(k)'
    BY <2>1 DEF EnEspera, EnPedido, EnCamino, Enviadas
  <2> QED  BY <1>2, <2>2 DEF DeCadaCliente
<1>3. CASE k \notin cortada /\ socket = k /\ socket' = socket /\ pc' = pc /\ command' = command
  <2>1. EnHandler(k)
    BY <1>3 DEF DeCadaCliente
  <2>2. EnHandler(k)'
    BY <1>3, <2>1 DEF EnHandler, EnPedido, PorLeer, Enviadas
  <2> QED  BY <1>3, <2>2 DEF DeCadaCliente
<1> QED  BY <1>1, <1>2, <1>3

LEMMA PasoDeUno ==
  ASSUME IInv, NEW c \in Clientes,
         \A k \in Clientes \ {c} : Quieto(k),
         \/ socket \in {c, Escucha} /\ socket' \in {c, Escucha}
         \/ UNCHANGED servidor,
         DeCadaCliente(c)'
  PROVE  \A k \in Clientes : DeCadaCliente(k)'
<1> SUFFICES ASSUME NEW k \in Clientes \ {c}
             PROVE  DeCadaCliente(k)'
  OBVIOUS
<1>1. DeCadaCliente(k) /\ Quieto(k) /\ k # Escucha
  BY EscuchaAparte DEF IInv
<1> QED  BY <1>1, Ajeno DEF servidor

-----------------------------------------------------------------------------
(* The scan *)

LEMMA PasoDelBarrido ==
  ASSUME IInv, Select \/ FinDePasada \/ Reiniciar \/ \E c \in Clientes : Aceptar(c)
  PROVE  IInv'
<1>1. /\ UNCHANGED <<socket, command, rta, conexiones, clientes>>
      /\ pc \in SinServir /\ pc' \in SinServir \ {"muerto"} /\ socket = Escucha
  BY DEF Select, FinDePasada, Reiniciar, Aceptar, IInv, Hilo, SinServir
<1>2. TypeOK'
  BY <1>1 DEF IInv, TypeOK, Select, FinDePasada, Reiniciar, Aceptar, conexiones, clientes
<1>3. Hilo'
  BY <1>1 DEF Hilo, SinServir
<1>4. \A k \in Clientes : DeCadaCliente(k)'
  BY <1>1, EscuchaAparte, Ajeno DEF IInv, Quieto, conexiones, clientes
<1> QED  BY <1>2, <1>3, <1>4 DEF IInv

LEMMA PasoDeCerrarConexion ==
  ASSUME IInv, NEW c \in Clientes, CerrarConexion(c)
  PROVE  IInv'
<1> USE DEF CerrarConexion, Turno
<1>1. pc = "recorrer" /\ socket = Escucha /\ c # Escucha
  BY EscuchaAparte DEF SinServir, IInv, Hilo
<1>2. TypeOK'
  BY DEF IInv, TypeOK, clientes
<1>3. Hilo'
  BY <1>1 DEF Hilo, SinServir, IInv
<1>4. DeCadaCliente(c)'
  <2>1. canal[c] = << >> /\ estado[c] \in {"fin", "muerta"}
    BY DEF Recv0, HayDatos
  <2>2. c \notin cortada' /\ socket' # c
    BY <1>1
  <2>3. /\ fase'[c] = "fuera" /\ respuesta'[c] = NoRespuesta
        /\ estado'[c] = "cerrada" /\ canal'[c] = << >>
    <3>1. fase[c] = "fuera" /\ respuesta[c] = NoRespuesta
      <4>1. CASE c \in cortada
        BY <2>1, <4>1, EnHilo DEF DeLaCortada, IInv, TypeOK
      <4>2. CASE c \notin cortada
        <5>1. EnEspera(c)
          BY <1>1, <4>2, EnHilo
        <5> QED  BY <2>1, <5>1 DEF EnEspera
      <4> QED  BY <4>1, <4>2
    <3> QED  BY <2>1, <3>1 DEF IInv, TypeOK, clientes
  <2> QED  BY <2>2, <2>3 DEF EnEspera, DeCadaCliente
<1>5. \A k \in Clientes \ {c} : Quieto(k)
  BY DEF IInv, TypeOK, clientes, Quieto
<1>6. \A k \in Clientes : DeCadaCliente(k)'
  BY <1>1, <1>4, <1>5, PasoDeUno
<1> QED  BY <1>2, <1>3, <1>6 DEF IInv

\* What any recv that finds data does to the connections.
LEMMA Recibido ==
  ASSUME IInv, NEW c \in Clientes, RecvEntero(c) \/ RecvCortado(c)
  PROVE  /\ canal[c] # << >> /\ Head(canal[c]) \in Partes
         /\ canal' \in [Clientes -> Seq(Partes)] /\ cortada' \subseteq Clientes
         /\ \A k \in Clientes \ {c} : canal'[k] = canal[k] /\ (k \in cortada' <=> k \in cortada)
         /\ \/ /\ RecvEntero(c) /\ c \notin cortada /\ c \notin cortada'
               /\ canal'[c] = Tail(canal[c])
            \/ RecvCortado(c) /\ c \in cortada'
<1>1. canal \in [Clientes -> Seq(Partes)] /\ cortada \subseteq Clientes /\ canal[c] # << >>
  BY DEF IInv, TypeOK, RecvEntero, RecvCortado, HayDatos
<1>2. Head(canal[c]) \in Partes /\ [canal EXCEPT ![c] = Tail(@)] \in [Clientes -> Seq(Partes)]
  BY <1>1, ColaTipada
<1>3. CASE RecvEntero(c)
  BY <1>1, <1>2, <1>3 DEF RecvEntero
<1>4. CASE RecvCortado(c)
  BY <1>1, <1>2, <1>4, RestoTipado DEF RecvCortado
<1> QED  BY <1>3, <1>4

\* A connection from which less than a part is taken, in the scan or in a handler.
LEMMA AlCortar ==
  ASSUME IInv, NEW c \in Clientes, canal[c] # << >>, c \in cortada',
         estado'[c] = estado[c], respuesta'[c] = respuesta[c], fase'[c] = fase[c]
  PROVE  DeCadaCliente(c)'
<1>1. DeLaCortada(c)
  BY DEF IInv, DeCadaCliente, DeLaCortada, EnEspera, EnHandler
<1> QED  BY <1>1 DEF DeCadaCliente, DeLaCortada

\* What the scan finds at the head of a connection, and what is behind it.
LEMMA Cabeza ==
  ASSUME NEW c, NEW com, NEW n, EnCamino(c, com, n), canal[c] # << >>
  PROVE  \/ /\ Head(canal[c]) = Saludo
            /\ canal'[c] = Tail(canal[c]) => EnCamino(c, com, n)'
         \/ /\ Head(canal[c]) = com /\ n \in 2 .. Total(com)
            /\ Tail(canal[c]) = Tramo(com, 3, n)
<1> USE DEF EnCamino
<1>1. n \in 1 .. 5 /\ n \in 1 .. Total(com)
  BY DEF Total
<1>2. CASE canal[c] = Tramo(com, 1, n)
  <2>1. PICK i \in 1 .. 5 : i = 1 /\ i + 1 = 2 /\ n \in i .. 5
    BY <1>1
  <2>2. Head(canal[c]) = Todo(com)[i] /\ Tail(canal[c]) = Tramo(com, i + 1, n)
    <3>1. /\ Head(Tramo(com, i, n)) = Todo(com)[i]
          /\ Tail(Tramo(com, i, n)) = Tramo(com, i + 1, n)
      BY <2>1, TramoLeido
    <3> QED  BY <1>2, <2>1, <3>1
  <2>3. Head(canal[c]) = Saludo /\ Tail(canal[c]) = Tramo(com, 2, n)
    BY <2>1, <2>2, DeTodo
  <2> QED  BY <1>1, <2>3
<1>3. CASE canal[c] = Tramo(com, 2, n)
  <2>1. n # 1
    BY <1>3, TramoVacio
  <2>2. n \in 2 .. 5
    BY <1>1, <2>1
  <2>3. PICK i \in 1 .. 5 : i = 2 /\ i + 1 = 3 /\ n \in i .. 5
    BY <2>2
  <2>4. Head(canal[c]) = Todo(com)[i] /\ Tail(canal[c]) = Tramo(com, i + 1, n)
    <3>1. /\ Head(Tramo(com, i, n)) = Todo(com)[i]
          /\ Tail(Tramo(com, i, n)) = Tramo(com, i + 1, n)
      BY <2>3, TramoLeido
    <3> QED  BY <1>3, <2>3, <3>1
  <2>5. Head(canal[c]) = com /\ Tail(canal[c]) = Tramo(com, 3, n)
    BY <2>3, <2>4, DeTodo
  <2> QED  BY <1>1, <2>2, <2>5
<1> QED  BY <1>2, <1>3

LEMMA PasoDeAtenderComando ==
  ASSUME IInv, NEW c \in Clientes, AtenderComando(c)
  PROVE  IInv'
<1> USE DEF AtenderComando, Turno
<1>1. pc = "recorrer" /\ socket = Escucha /\ c # Escucha
  BY EscuchaAparte DEF SinServir, IInv, Hilo
<1>2. UNCHANGED <<master, rta, estado, respuesta, fase, pedido>>
  BY DEF clientes
<1>3. PICK comando \in Comandos :
        /\ \/ RecvEntero(c) /\ comando = Head(canal[c])
           \/ RecvCortado(c)
        /\ command' = comando /\ Despachar(c, comando)
  OBVIOUS
<1>4. /\ listos' \subseteq Clientes \cup {Escucha}
      /\ \/ comando \in Pedibles /\ pc' = "recvLargo" /\ socket' = c
         \/ comando = Saludo /\ pc' = pc /\ socket' = socket
  BY <1>3 DEF Despachar, IInv, TypeOK, Pedibles, Comandos, Saludo
<1>5. TypeOK'
  <2>1. canal' \in [Clientes -> Seq(Partes)] /\ cortada' \subseteq Clientes
    BY <1>3, Recibido
  <2> QED  BY <1>2, <1>3, <1>4, <2>1 DEF IInv, TypeOK
<1>6. Hilo'
  BY <1>1, <1>4 DEF Hilo, SinServir
<1>7. \A k \in Clientes \ {c} : Quieto(k)
  BY <1>2, <1>3, Recibido DEF Quieto
<1>8. DeCadaCliente(c)'
  <2>1. CASE c \in cortada'
    BY <1>2, <1>3, <2>1, Recibido, AlCortar
  <2>2. CASE c \notin cortada'
    <3>1. /\ c \notin cortada /\ canal[c] # << >> /\ canal'[c] = Tail(canal[c])
          /\ comando = Head(canal[c])
      BY <1>3, <2>2, Recibido DEF RecvCortado
    <3>2. EnEspera(c)
      BY <1>1, <3>1, EnHilo
    <3>3. PICK com, n : /\ EnCamino(c, com, n) /\ respuesta[c] = NoRespuesta
                        /\ n > 1 => com \in Pedibles
                        /\ \/ /\ estado[c] = "abierta" /\ fase[c] # "fuera" /\ EnPedido(c)
                              /\ com = pedido[c] /\ n = Enviadas(c)
                           \/ /\ estado[c] \in {"fin", "muerta"} /\ fase[c] = "fuera"
                              /\ com \in Pedibles /\ n \in 1 .. 5
      <4>1. CASE estado[c] = "abierta"
        BY <3>1, <3>2, <4>1 DEF EnEspera, EnPedido, Enviadas
      <4>2. CASE estado[c] # "abierta"
        BY <3>1, <3>2, <4>2 DEF EnEspera
      <4> QED  BY <4>1, <4>2
    <3>4. CASE Head(canal[c]) = Saludo /\ EnCamino(c, com, n)'
      <4>1. pc' = pc /\ socket' = socket
        BY <1>4, <3>1, <3>4 DEF Pedibles, Saludo
      <4>2. EnEspera(c)'
        BY <1>2, <3>3, <3>4 DEF EnEspera, EnPedido, Enviadas, EnCamino
      <4> QED  BY <1>1, <2>2, <4>1, <4>2 DEF DeCadaCliente
    <3>5. CASE Head(canal[c]) = com /\ n \in 2 .. Total(com) /\ Tail(canal[c]) = Tramo(com, 3, n)
      <4>1. com \in Pedibles
        BY <3>3, <3>5 DEF Total
      <4>2. pc' = "recvLargo" /\ socket' = c /\ command' = com
        BY <1>3, <1>4, <3>1, <3>5, <4>1 DEF Pedibles, Saludo
      <4>3. PorLeer(c, n)'
        BY <1>2, <3>1, <3>3, <3>5, <4>2 DEF PorLeer, Leidas, Enviadas
      <4>4. n \in 1 .. 5
        BY <3>5 DEF Total
      <4>5. EnHandler(c)'
        BY <1>2, <3>3, <4>1, <4>2, <4>3, <4>4 DEF EnHandler, EnPedido
      <4> QED  BY <2>2, <4>2, <4>5 DEF DeCadaCliente
    <3> QED  BY <3>1, <3>3, <3>4, <3>5, Cabeza
  <2> QED  BY <2>1, <2>2
<1>9. \A k \in Clientes : DeCadaCliente(k)'
  BY <1>1, <1>4, <1>7, <1>8, PasoDeUno
<1> QED  BY <1>5, <1>6, <1>9 DEF IInv

LEMMA PasoDeAtenderError ==
  ASSUME IInv, NEW c \in Clientes, AtenderError(c)
  PROVE  IInv'
<1> USE DEF AtenderError, Turno
<1>1. /\ pc = "recorrer" /\ socket = Escucha /\ c # Escucha
      /\ canal[c] = << >> /\ estado[c] = "rst"
  BY EscuchaAparte DEF SinServir, IInv, Hilo, RecvError, HayDatos
<1>2. /\ UNCHANGED <<master, command, rta, canal, respuesta, cortada, fase, pedido>>
      /\ estado'[c] = "muerta" /\ \A k \in Clientes \ {c} : estado'[k] = estado[k]
      /\ \/ command \in Pedibles /\ pc' = "recvLargo" /\ socket' = c
         \/ command \notin Pedibles /\ pc' = pc /\ socket' = socket
  BY DEF clientes, IInv, TypeOK, Despachar
<1>3. fase[c] = "fuera" /\ respuesta[c] = NoRespuesta
  <2>1. DeCadaCliente(c) /\ socket # c
    BY <1>1 DEF IInv
  <2>2. fase[c] \in {"fuera", "libre", "debeLargo", "debeTexto", "debeBytes", "esperando"}
    BY DEF IInv, TypeOK
  <2> QED  BY <1>1, <2>1, <2>2 DEF DeCadaCliente, DeLaCortada, EnEspera
<1>4. TypeOK'
  BY DEF Despachar, IInv, TypeOK, clientes
<1>5. Hilo'
  BY <1>1, <1>2 DEF Hilo, SinServir
<1>6. DeCadaCliente(c)'
  <2>1. CASE c \in cortada
    BY <1>2, <1>3, <2>1 DEF DeCadaCliente, DeLaCortada
  <2>2. CASE c \notin cortada /\ command \in Pedibles
    <3>1. Tramo(command, 3, 2) = << >>
      BY TramoVacio
    <3>2. PorLeer(c, 2)'
      BY <1>1, <1>2, <1>3, <2>2, <3>1 DEF PorLeer, Leidas, Total
    <3>3. EnHandler(c)'
      BY <1>2, <1>3, <2>2, <3>2 DEF EnHandler
    <3> QED  BY <1>2, <2>2, <3>3 DEF DeCadaCliente
  <2>3. CASE c \notin cortada /\ command \notin Pedibles
    <3>1. EnEspera(c)
      BY <1>1, <2>3, EnHilo
    <3>2. PICK com \in Pedibles, n \in 1 .. 5 : EnCamino(c, com, n)
      BY <1>1, <3>1 DEF EnEspera
    <3>3. EnCamino(c, com, n)'
      BY <1>2, <3>2 DEF EnCamino
    <3>4. EnEspera(c)'
      BY <1>2, <1>3, <3>3 DEF EnEspera
    <3> QED  BY <1>1, <1>2, <2>3, <3>4 DEF DeCadaCliente
  <2> QED  BY <2>1, <2>2, <2>3
<1>7. \A k \in Clientes \ {c} : Quieto(k)
  BY <1>2 DEF Quieto
<1>8. \A k \in Clientes : DeCadaCliente(k)'
  BY <1>1, <1>2, <1>6, <1>7, PasoDeUno
<1> QED  BY <1>4, <1>5, <1>8 DEF IInv

-----------------------------------------------------------------------------
(* The handlers *)

\* What is left for a handler that has read k parts.
LEMMA PorLeerAhora ==
  ASSUME NEW c, EnHandler(c)
  PROVE  \E n \in 1 .. 5, k \in 2 .. 5 :
           /\ PorLeer(c, n) /\ k = Leidas(pc, command) /\ n \in k .. Total(command)
           /\ Total(command) \in 4 .. 5 /\ canal[c] = Tramo(command, k + 1, n)
           /\ canal[c] # << >> <=> n > k
<1>1. PICK n \in 1 .. 5 : PorLeer(c, n)
  BY DEF EnHandler
<1>2. PICK k \in 2 .. 5 : k = Leidas(pc, command)
  BY DEF Leidas, Total
<1>3. Total(command) \in 4 .. 5 /\ n \in k .. Total(command) /\ canal[c] = Tramo(command, k + 1, n)
  BY <1>1, <1>2 DEF PorLeer, Total
<1>4. CASE n > k
  <2>1. PICK i \in 1 .. 5 : i = k + 1 /\ n \in i .. 5
    BY <1>3, <1>4
  <2>2. Tramo(command, i, n) # << >>
    BY <2>1, TramoLeido
  <2> QED  BY <1>1, <1>2, <1>3, <1>4, <2>1, <2>2
<1>5. CASE n = k
  BY <1>1, <1>2, <1>3, <1>5, TramoVacio
<1> QED  BY <1>3, <1>4, <1>5

\* A receive that finds data: the next part, or less than a part.
LEMMA PasoDeRecv ==
  ASSUME IInv, RecvLargo \/ RecvTexto \/ RecvBytes
  PROVE  IInv'
<1> USE DEF RecvLargo, RecvTexto, RecvBytes
<1>1. PICK c \in Clientes : c = socket
  BY EnHilo DEF SinServir
<1>2. UNCHANGED <<master, listos, socket, command, rta, estado, respuesta, fase, pedido>>
  BY DEF clientes
<1>3. (RecvEntero(c) \/ RecvCortado(c)) /\ pc' \notin SinServir \cup {"responder"}
  BY <1>1 DEF TrasRuta, SinServir
<1>4. TypeOK'
  <2>1. canal' \in [Clientes -> Seq(Partes)] /\ cortada' \subseteq Clientes
    BY <1>3, Recibido
  <2> QED  BY <1>2, <2>1 DEF IInv, TypeOK, TrasRuta
<1>5. Hilo'
  BY <1>1, <1>2, <1>3, EscuchaAparte DEF IInv, Hilo, SinServir
<1>6. \A k \in Clientes \ {c} : Quieto(k)
  BY <1>2, <1>3, Recibido DEF Quieto
<1>7. DeCadaCliente(c)'
  <2>1. CASE c \in cortada'
    BY <1>2, <1>3, <2>1, Recibido, AlCortar
  <2>2. CASE c \notin cortada'
    <3>1. c \notin cortada /\ canal[c] # << >> /\ canal'[c] = Tail(canal[c])
      BY <1>3, <2>2, Recibido
    <3>2. EnHandler(c)
      BY <1>1, <3>1, EnHilo
    <3>3. PICK n \in 1 .. 5, k \in 2 .. 5 :
            /\ PorLeer(c, n) /\ k = Leidas(pc, command) /\ n \in k .. Total(command)
            /\ Total(command) \in 4 .. 5 /\ canal[c] = Tramo(command, k + 1, n)
            /\ canal[c] # << >> <=> n > k
      BY <3>2, PorLeerAhora
    <3>4. PICK i \in 1 .. 5 : i = k + 1 /\ n \in i .. 5 /\ n \in i .. Total(command)
      BY <3>1, <3>3
    <3>5. canal'[c] = Tramo(command, i + 1, n)
      <4>1. Tail(Tramo(command, i, n)) = Tramo(command, i + 1, n)
        BY <3>4, TramoLeido
      <4> QED  BY <3>1, <3>3, <3>4, <4>1
    <3>6. Leidas(pc', command) = i /\ (pc' = "recvBytes" => command = Crear)
      BY <3>2, <3>3, <3>4 DEF Leidas, TrasRuta, Total, EnHandler, Crear
    <3>7. PorLeer(c, n)'
      BY <1>2, <3>3, <3>4, <3>5, <3>6 DEF PorLeer, Enviadas
    <3>8. EnHandler(c)'
      BY <1>2, <3>2, <3>6, <3>7 DEF EnHandler, EnPedido
    <3> QED  BY <1>1, <1>2, <2>2, <3>8 DEF DeCadaCliente
  <2> QED  BY <2>1, <2>2
<1>8. \A k \in Clientes : DeCadaCliente(k)'
  BY <1>1, <1>2, <1>6, <1>7, PasoDeUno
<1> QED  BY <1>4, <1>5, <1>8 DEF IInv

\* A receive that finds the client gone, and the work.
LEMMA PasoSinRecibir ==
  ASSUME IInv, RecvRuta0 \/ LargoSinSentido \/ RecvBytes0 \/ Trabajar
  PROVE  IInv'
<1> USE DEF RecvRuta0, LargoSinSentido, RecvBytes0, Trabajar, SinRuta
<1>1. PICK c \in Clientes : c = socket
  BY EnHilo DEF SinServir
<1>2. UNCHANGED <<master, listos, socket, command, estado, canal, respuesta, cortada, fase, pedido>>
  BY DEF conexiones, clientes
<1>3. /\ pc' \in {"recvBytes", "trabajar", "responder"} /\ (pc' = "responder" => rta' # NoRta)
      /\ rta' \in {NoRta, OPERACION_FAIL, OPERACION_OK, ERROR_OPERACION}
  BY DEF TrasRuta, OPERACION_FAIL, OPERACION_OK, ERROR_OPERACION, NoRta, IInv, TypeOK
<1>4. TypeOK'
  BY <1>2, <1>3 DEF IInv, TypeOK
<1>5. Hilo'
  BY <1>1, <1>2, <1>3, EscuchaAparte DEF IInv, Hilo, SinServir
<1>6. \A k \in Clientes \ {c} : Quieto(k)
  BY <1>2 DEF Quieto
<1>7. DeCadaCliente(c)'
  <2>1. CASE c \in cortada
    BY <1>2, <2>1, EnHilo DEF DeCadaCliente, DeLaCortada
  <2>2. CASE c \notin cortada
    <3>1. EnHandler(c) /\ ~LargoSinSentido
      BY <1>1, <2>2, EnHilo
    <3>2. canal[c] = << >> /\ (fase[c] = "fuera" \/ Trabajar)
      <4>1. CASE Trabajar
        <5>1. PICK n : /\ n \in 4 .. 5 /\ canal[c] = Tramo(command, n + 1, n)
          BY <3>1, <4>1 DEF EnHandler, PorLeer, Leidas, Total
        <5> QED  BY <4>1, <5>1, TramoVacio
      <4>2. CASE ~Trabajar
        BY <1>1, <3>1, <4>2 DEF Recv0, HayDatos, EnHandler
      <4> QED  BY <4>1, <4>2
    <3>3. PICK k \in 2 .. 5 : /\ k = Leidas(pc', command)
                              /\ k \in k .. Total(command) /\ k + 1 \in Int
                              /\ pc' = "recvBytes" => command = Crear
                              /\ fase[c] # "fuera" => k = Leidas(pc, command)
      BY <3>1, <3>2 DEF Leidas, Total, TrasRuta, Crear
    <3>4. canal[c] = Tramo(command, k + 1, k)
      BY <3>2, <3>3, TramoVacio
    <3>5. fase[c] # "fuera" => k = Enviadas(c)
      <4> SUFFICES ASSUME fase[c] # "fuera"
                   PROVE  k = Enviadas(c)
        OBVIOUS
      <4>1. PICK n \in 1 .. 5 : PorLeer(c, n)
        BY <3>1 DEF EnHandler
      <4>2. k = Total(command) /\ n = k /\ n = Enviadas(c)
        BY <3>2, <3>3, <4>1 DEF PorLeer, Leidas, Total
      <4> QED  BY <4>2
    <3>6. PorLeer(c, k)' /\ k \in 1 .. 5
      BY <1>2, <3>3, <3>4, <3>5 DEF PorLeer, Enviadas
    <3>7. EnHandler(c)'
      BY <1>2, <3>1, <3>3, <3>6 DEF EnHandler, EnPedido
    <3> QED  BY <1>1, <1>2, <2>2, <3>7 DEF DeCadaCliente
  <2> QED  BY <2>1, <2>2
<1>8. \A k \in Clientes : DeCadaCliente(k)'
  BY <1>1, <1>2, <1>6, <1>7, PasoDeUno
<1> QED  BY <1>4, <1>5, <1>8 DEF IInv

\* Only a connection that is cut may be found reset in a handler.
LEMMA PasoDeRecvFallido ==
  ASSUME IInv, RecvFallido
  PROVE  IInv'
<1> USE DEF RecvFallido
<1>1. PICK c \in Clientes : c = socket
  BY EnHilo DEF SinServir, Recibiendo
<1>2. /\ UNCHANGED <<master, listos, socket, command, rta, canal, respuesta, cortada, fase, pedido>>
      /\ estado[c] = "rst" /\ estado'[c] = "muerta"
      /\ \A k \in Clientes \ {c} : estado'[k] = estado[k]
      /\ pc' \in {"recvTexto", "recvBytes", "trabajar"}
  BY <1>1 DEF clientes, RecvError, TrasRuta, IInv, TypeOK
<1>3. c \in cortada
  BY <1>1, <1>2, EnHilo DEF EnHandler
<1>4. TypeOK'
  BY <1>1, <1>2 DEF IInv, TypeOK
<1>5. Hilo'
  BY <1>1, <1>2, EscuchaAparte DEF IInv, Hilo, SinServir
<1>6. \A k \in Clientes \ {c} : Quieto(k)
  BY <1>2 DEF Quieto
<1>7. DeCadaCliente(c)'
  <2>1. DeLaCortada(c)
    BY <1>3, EnHilo
  <2> QED  BY <1>2, <1>3, <2>1 DEF DeCadaCliente, DeLaCortada
<1>8. \A k \in Clientes : DeCadaCliente(k)'
  BY <1>1, <1>2, <1>6, <1>7, PasoDeUno
<1> QED  BY <1>4, <1>5, <1>8 DEF IInv

LEMMA PasoDeResponder ==
  ASSUME IInv, Responder \/ ResponderACerrado
  PROVE  IInv'
<1> USE DEF Responder, ResponderACerrado, FinDelHandler
<1>1. PICK c \in Clientes : c = socket
  BY EnHilo DEF SinServir
<1>2. /\ UNCHANGED <<master, listos, command, canal, cortada, fase, pedido>>
      /\ pc' = "recorrer" /\ socket' = Escucha /\ rta' = NoRta
      /\ rta # NoRta /\ c # Escucha
  BY EscuchaAparte DEF clientes, IInv, Hilo
<1>3. TypeOK'
  BY <1>1, <1>2 DEF IInv, TypeOK
<1>4. Hilo'
  BY <1>2 DEF Hilo, SinServir
<1>5. \A k \in Clientes \ {c} : Quieto(k)
  BY <1>1, <1>2 DEF Quieto, IInv, TypeOK
<1>6. DeCadaCliente(c)'
  <2>1. CASE c \in cortada
    <3>1. DeLaCortada(c)
      BY <2>1, EnHilo
    <3>2. DeLaCortada(c)'
      BY <1>1, <1>2, <3>1 DEF DeLaCortada, IInv, TypeOK
    <3> QED  BY <1>2, <2>1, <3>2 DEF DeCadaCliente
  <2>2. CASE c \notin cortada
    <3>1. EnHandler(c)
      BY <1>1, <2>2, EnHilo
    <3>2. PICK n : PorLeer(c, n)
      BY <3>1 DEF EnHandler
    <3>3. n = Total(command) /\ canal[c] = Tramo(command, n + 1, n) /\ n \in 4 .. 5
      BY <3>2 DEF PorLeer, Leidas, Total
    <3>4. canal[c] = << >>
      BY <3>3, TramoVacio
    <3>5. fase[c] \in {"esperando", "fuera"}
      BY <3>1, <3>2, <3>3 DEF PorLeer, Enviadas, EnHandler, EnPedido, Total, IInv, TypeOK
    <3>6. EnEspera(c)'
      <4>1. CASE Responder
        <5>1. fase[c] = "esperando" /\ pedido[c] = command /\ estado[c] = "abierta"
          BY <1>1, <3>1, <3>5, <4>1 DEF EnHandler
        <5> QED  BY <1>2, <3>1, <3>4, <4>1, <5>1 DEF EnEspera, EnPedido, EnHandler
      <4>2. CASE ResponderACerrado
        <5>1. /\ fase[c] = "fuera" /\ estado'[c] = "rst" /\ respuesta'[c] = NoRespuesta
          BY <1>1, <1>2, <3>1, <4>2 DEF EnHandler, IInv, TypeOK
        <5>2. PICK com \in Pedibles : com = command
          BY <3>1 DEF EnHandler
        <5>3. EnCamino(c, com, 1)'
          BY <1>2, <3>4, TramoVacio DEF EnCamino, Total
        <5> QED  BY <1>2, <3>4, <5>1, <5>3 DEF EnEspera
      <4> QED  BY <4>1, <4>2
    <3> QED  BY <1>2, <2>2, <3>6 DEF DeCadaCliente
  <2> QED  BY <2>1, <2>2
<1>7. \A k \in Clientes : DeCadaCliente(k)'
  BY <1>1, <1>2, <1>5, <1>6, PasoDeUno
<1> QED  BY <1>3, <1>4, <1>7 DEF IInv

\* All the connections are gone: the start, and a death.
LEMMA PasoDeMorir ==
  ASSUME Sigpipe \/ DatosSinSentido
  PROVE  IInv'
<1> USE DEF Sigpipe, DatosSinSentido, Morir
<1>1. TypeOK'
  BY RestoTipado DEF TypeOK, Comandos
<1>2. Hilo'
  BY DEF Hilo, SinServir
<1>3. \A c \in Clientes : DeCadaCliente(c)'
  BY EscuchaAparte DEF DeCadaCliente, EnEspera
<1> QED  BY <1>1, <1>2, <1>3 DEF IInv

-----------------------------------------------------------------------------
(* The clients *)

\* A client's step leaves the server and the other clients alone.
LEMMA PasoAjeno ==
  ASSUME IInv, NEW c \in Clientes, Cliente(c)
  PROVE  UNCHANGED <<servidor, cortada>> /\ \A k \in Clientes \ {c} : Quieto(k)
  BY DEF IInv, TypeOK, Cliente, Conectar, SigueElPedido, EnviarLargo, EnviarTexto,
         EnviarBytes, RecibirRespuesta, Cerrar, Pedir, Enviar, Quieto

LEMMA TipoDelCliente ==
  ASSUME IInv, NEW c \in Clientes, Cliente(c)
  PROVE  TypeOK'
<1> USE DEF Cliente, Conectar, SigueElPedido, EnviarLargo, EnviarTexto, EnviarBytes,
            RecibirRespuesta, Cerrar, Pedir
<1>1. canal' \in [Clientes -> Seq(Partes)]
  <2>1. canal' = canal \/ \E x \in Partes : Enviar(c, x)
    BY DEF Pedibles, Comandos, Partes
  <2> QED  BY <2>1, EnvioTipado DEF IInv, TypeOK
<1>2. estado' \in [Clientes -> {"cerrada", "abierta", "fin", "rst", "muerta"}]
  BY DEF IInv, TypeOK
<1>3. respuesta' \in [Clientes -> {NoRespuesta, OPERACION_FAIL, OPERACION_OK,
                                   ERROR_OPERACION}]
  BY DEF IInv, TypeOK
<1>4. fase' \in [Clientes -> {"fuera", "libre", "debeLargo", "debeTexto", "debeBytes",
                              "esperando"}]
  BY DEF IInv, TypeOK
<1>5. pedido' \in [Clientes -> Comandos]
  BY DEF IInv, TypeOK, Pedibles, Comandos
<1> QED  BY <1>1, <1>2, <1>3, <1>4, <1>5, PasoAjeno DEF IInv, TypeOK, servidor

\* A dead server has no connection, and nobody has one to close or to use.
LEMMA HiloDelCliente ==
  ASSUME IInv, NEW c \in Clientes, Cliente(c)
  PROVE  Hilo'
<1>1. UNCHANGED servidor
  BY PasoAjeno
<1>2. CASE pc # "muerto"
  BY <1>1, <1>2 DEF IInv, Hilo, SinServir, servidor
<1>3. CASE pc = "muerto"
  <2>1. estado[c] = "cerrada" /\ c \notin cortada /\ socket # c
    BY <1>3, EnHilo DEF IInv, Hilo, SinServir, DeLaCortada
  <2>2. fase[c] = "fuera"
    BY <2>1, EnHilo DEF EnEspera
  <2> QED  BY <1>3, <2>2 DEF Cliente, Conectar, SigueElPedido, EnviarLargo, EnviarTexto,
                             EnviarBytes, RecibirRespuesta, Cerrar, Pedir
<1> QED  BY <1>2, <1>3

LEMMA PasoDelCortado ==
  ASSUME IInv, NEW c \in Clientes, Cliente(c), c \in cortada
  PROVE  DeCadaCliente(c)'
<1>1. DeLaCortada(c) /\ c \in cortada'
  BY EnHilo, PasoAjeno
<1>2. DeLaCortada(c)'
  BY <1>1 DEF Cliente, Conectar, SigueElPedido, EnviarLargo, EnviarTexto, EnviarBytes,
              RecibirRespuesta, Cerrar, Pedir, DeLaCortada, IInv, TypeOK
<1> QED  BY <1>1, <1>2 DEF DeCadaCliente

LEMMA PasoDeConectar ==
  ASSUME IInv, NEW c \in Clientes, Conectar(c), c \notin cortada
  PROVE  DeCadaCliente(c)'
<1> USE DEF Conectar
<1>1. socket # c /\ EnEspera(c) /\ socket' = socket /\ cortada' = cortada
  BY EnHilo DEF EnHandler, servidor
<1>2. canal[c] = << >> /\ respuesta[c] = NoRespuesta
  BY <1>1 DEF EnEspera
<1>3. /\ canal'[c] = Append(<< >>, Saludo) /\ estado'[c] = "abierta"
      /\ fase'[c] = "libre" /\ respuesta'[c] = NoRespuesta
  BY <1>2 DEF Enviar, Saludo, IInv, TypeOK
<1>4. PICK com : com = pedido'[c]
  OBVIOUS
<1>5. canal'[c] = Tramo(com, 1, 1)
  BY <1>3, MismoSaludo
<1>6. EnCamino(c, com, 1)'
  BY <1>5 DEF EnCamino, Total
<1>7. EnEspera(c)'
  BY <1>3, <1>4, <1>6 DEF EnEspera, EnPedido, Enviadas, EnCamino
<1> QED  BY <1>1, <1>7 DEF DeCadaCliente

LEMMA PasoDePedir ==
  ASSUME IInv, NEW c \in Clientes, NEW com \in Pedibles, Pedir(c, com), c \notin cortada
  PROVE  DeCadaCliente(c)'
<1> USE DEF Pedir
<1>1. socket # c
  <2> SUFFICES ASSUME socket = c
               PROVE  FALSE
    OBVIOUS
  <2>1. EnHandler(c)
    BY EnHilo
  <2>2. PICK n : PorLeer(c, n)
    BY <2>1 DEF EnHandler
  <2> QED  BY <2>2 DEF PorLeer, Enviadas, Leidas, Total
<1>2. EnEspera(c) /\ socket' = socket /\ cortada' = cortada
  BY <1>1, EnHilo DEF servidor
<1>3. /\ respuesta[c] = NoRespuesta /\ estado[c] = "abierta"
      /\ EnCamino(c, pedido[c], 1)
  BY <1>2 DEF EnEspera, Enviadas
<1>4. /\ canal'[c] = Append(canal[c], com) /\ estado'[c] = "abierta"
      /\ fase'[c] = "debeLargo" /\ pedido'[c] = com /\ respuesta'[c] = NoRespuesta
  BY <1>3 DEF Enviar, IInv, TypeOK
<1>5. canal[c] = Tramo(com, 1, 1) \/ canal[c] = Tramo(com, 2, 1)
  BY <1>3, MismoSaludo, TramoVacio DEF EnCamino
<1>6. canal'[c] = Tramo(com, 1, 2) \/ canal'[c] = Tramo(com, 2, 2)
  <2>1. PICK j \in 0 .. 4 : j = 1 /\ j + 1 = 2 /\ Todo(com)[j + 1] = com
    BY DeTodo
  <2>2. 1 <= j + 1 /\ 2 <= j + 1 /\ 1 \in 1 .. 5 /\ 2 \in 1 .. 5
    BY <2>1
  <2>3. /\ Append(Tramo(com, 1, j), Todo(com)[j + 1]) = Tramo(com, 1, j + 1)
        /\ Append(Tramo(com, 2, j), Todo(com)[j + 1]) = Tramo(com, 2, j + 1)
    BY <2>2, TramoEnviado
  <2> QED  BY <1>4, <1>5, <2>1, <2>3
<1>7. EnCamino(c, com, 2)'
  BY <1>6 DEF EnCamino, Total
<1>8. EnEspera(c)'
  BY <1>4, <1>7 DEF EnEspera, EnPedido, Enviadas
<1> QED  BY <1>1, <1>2, <1>8 DEF DeCadaCliente

\* The size, the text and the bytes.
LEMMA PasoDeSeguir ==
  ASSUME IInv, NEW c \in Clientes, SigueElPedido(c), c \notin cortada
  PROVE  DeCadaCliente(c)'
<1> USE DEF SigueElPedido, EnviarLargo, EnviarTexto, EnviarBytes
<1>1. PICK com : com = pedido[c]
  OBVIOUS
<1>2. /\ UNCHANGED <<pc, socket, command, cortada>>
      /\ estado'[c] = estado[c] /\ pedido'[c] = com /\ respuesta'[c] = respuesta[c]
      /\ fase[c] \in {"debeLargo", "debeTexto", "debeBytes"}
      /\ fase'[c] = (IF fase[c] = "debeLargo" THEN "debeTexto"
                     ELSE IF fase[c] = "debeTexto" /\ com = Crear THEN "debeBytes"
                     ELSE "esperando")
  BY <1>1 DEF IInv, TypeOK, servidor, Crear
<1>3. estado[c] = "abierta" /\ EnPedido(c) /\ (socket = c => com = command)
  BY <1>1, <1>2, EnHilo DEF EnHandler, EnEspera
<1>4. PICK j \in 2 .. 4 : /\ j = Enviadas(c) /\ j < Total(com) /\ j + 1 = Enviadas(c)'
                         /\ canal'[c] = Append(canal[c], Todo(com)[j + 1])
  <2>1. /\ canal'[c] = Append(canal[c], IF fase[c] = "debeLargo" THEN "largo"
                                        ELSE IF fase[c] = "debeTexto" THEN "texto" ELSE "bytes")
    BY DEF Enviar, IInv, TypeOK
  <2>2. CASE fase[c] = "debeLargo"
    BY <1>1, <1>2, <2>1, <2>2, DeTodo DEF Enviadas, Total
  <2>3. CASE fase[c] = "debeTexto"
    BY <1>1, <1>2, <2>1, <2>3, DeTodo DEF Enviadas, Total
  <2>4. CASE fase[c] = "debeBytes"
    BY <1>1, <1>2, <1>3, <2>1, <2>4, DeTodo DEF Enviadas, Total, EnPedido
  <2> QED  BY <1>2, <2>2, <2>3, <2>4
<1>5. EnPedido(c)'
  BY <1>1, <1>2, <1>3 DEF EnPedido
<1>6. ASSUME NEW i \in 1 .. 5, canal[c] = Tramo(com, i, j), i <= j + 1
      PROVE  canal'[c] = Tramo(com, i, j + 1)
  <2>1. j \in 0 .. 4
    OBVIOUS
  <2>2. Append(Tramo(com, i, j), Todo(com)[j + 1]) = Tramo(com, i, j + 1)
    BY <1>6, <2>1, TramoEnviado
  <2> QED  BY <1>4, <1>6, <2>2
<1>7. CASE socket = c
  <2>1. EnHandler(c)
    BY <1>7, EnHilo
  <2>2. PICK n \in 1 .. 5 : PorLeer(c, n)
    BY <2>1 DEF EnHandler
  <2>3. PICK i \in 1 .. 5 : /\ i = Leidas(pc, command) + 1 /\ i <= j + 1
                           /\ canal[c] = Tramo(com, i, j)
    BY <1>2, <1>3, <1>4, <1>7, <2>2 DEF PorLeer, Leidas, Total
  <2>4. canal'[c] = Tramo(com, i, j + 1)
    BY <1>6, <2>3
  <2>5. PorLeer(c, j + 1)'
    BY <1>1, <1>2, <1>3, <1>4, <1>7, <2>2, <2>3, <2>4 DEF PorLeer, Leidas, Total
  <2>6. PICK m \in 1 .. 5 : m = j + 1
    OBVIOUS
  <2>7. EnHandler(c)'
    BY <1>1, <1>2, <1>3, <1>5, <1>7, <2>1, <2>5, <2>6 DEF EnHandler
  <2> QED  BY <1>2, <1>7, <2>7 DEF DeCadaCliente
<1>8. CASE socket # c
  <2>1. EnEspera(c)
    BY <1>8, EnHilo
  <2>2. respuesta[c] = NoRespuesta /\ EnCamino(c, com, j)
    BY <1>1, <1>2, <1>3, <1>4, <2>1 DEF EnEspera
  <2>3. canal'[c] = Tramo(com, 1, j + 1) \/ canal'[c] = Tramo(com, 2, j + 1)
    <3>1. CASE canal[c] = Tramo(com, 1, j)
      BY <1>6, <3>1
    <3>2. CASE canal[c] = Tramo(com, 2, j)
      BY <1>6, <3>2
    <3> QED  BY <2>2, <3>1, <3>2 DEF EnCamino
  <2>4. EnCamino(c, com, j + 1)'
    BY <1>4, <2>3 DEF EnCamino, Total
  <2>5. EnEspera(c)'
    BY <1>1, <1>2, <1>3, <1>4, <1>5, <2>2, <2>4 DEF EnEspera
  <2> QED  BY <1>2, <1>8, <2>5 DEF DeCadaCliente
<1> QED  BY <1>7, <1>8

LEMMA PasoDeRecibirRespuesta ==
  ASSUME IInv, NEW c \in Clientes, RecibirRespuesta(c), c \notin cortada
  PROVE  DeCadaCliente(c)'
<1> USE DEF RecibirRespuesta
<1>1. socket # c /\ EnEspera(c) /\ socket' = socket /\ cortada' = cortada
  BY EnHilo DEF EnHandler, servidor
<1>2. canal[c] = << >> /\ estado[c] = "abierta"
  BY <1>1 DEF EnEspera
<1>3. /\ canal'[c] = << >> /\ estado'[c] = "abierta"
      /\ fase'[c] = "libre" /\ respuesta'[c] = NoRespuesta
  BY <1>2 DEF IInv, TypeOK
<1>4. PICK com : com = pedido'[c]
  OBVIOUS
<1>5. EnCamino(c, com, 1)'
  BY <1>3, TramoVacio DEF EnCamino, Total
<1>6. EnEspera(c)'
  BY <1>3, <1>4, <1>5 DEF EnEspera, EnPedido, Enviadas, EnCamino
<1> QED  BY <1>1, <1>6 DEF DeCadaCliente

LEMMA PasoDeCerrar ==
  ASSUME IInv, NEW c \in Clientes, Cerrar(c), c \notin cortada
  PROVE  DeCadaCliente(c)'
<1> USE DEF Cerrar
<1>1. /\ UNCHANGED <<pc, socket, command, cortada>>
      /\ canal'[c] = canal[c] /\ fase'[c] = "fuera" /\ respuesta'[c] = NoRespuesta
      /\ estado'[c] = (IF respuesta[c] = NoRespuesta THEN "fin" ELSE "rst")
  BY DEF IInv, TypeOK, servidor
<1>2. CASE socket = c
  <2>1. EnHandler(c)
    BY <1>2, EnHilo
  <2>2. PICK n \in 1 .. 5 : PorLeer(c, n)
    BY <2>1 DEF EnHandler
  <2>3. PorLeer(c, n)'
    BY <1>1, <2>2 DEF PorLeer
  <2>4. EnHandler(c)'
    BY <1>1, <2>1, <2>3 DEF EnHandler
  <2> QED  BY <1>1, <1>2, <2>4 DEF DeCadaCliente
<1>3. CASE socket # c
  <2>1. EnEspera(c)
    BY <1>3, EnHilo
  <2>2. \E com \in Pedibles, n \in 1 .. 5 : EnCamino(c, com, n)'
    <3>1. CASE EnCamino(c, pedido[c], Enviadas(c)) /\ fase[c] # "libre"
      <4>1. PICK com, n : com = pedido[c] /\ n = Enviadas(c)
        OBVIOUS
      <4>2. com \in Pedibles /\ EnCamino(c, com, n)
        BY <2>1, <3>1, <4>1 DEF EnEspera, EnPedido
      <4>3. EnCamino(c, com, n)' /\ n \in 1 .. 5
        BY <1>1, <4>2 DEF EnCamino, Total
      <4> QED  BY <4>2, <4>3
    <3>2. CASE EnCamino(c, pedido[c], Enviadas(c)) /\ fase[c] = "libre"
      <4>1. canal[c] = Tramo(pedido[c], 1, 1) \/ canal[c] = Tramo(pedido[c], 2, 1)
        BY <3>2 DEF EnCamino, Enviadas
      <4>2. canal[c] = Tramo(Crear, 1, 1) \/ canal[c] = Tramo(Crear, 2, 1)
        BY <4>1, MismoSaludo, TramoVacio
      <4>3. EnCamino(c, Crear, 1)'
        BY <1>1, <4>2 DEF EnCamino, Total
      <4> QED  BY <4>3 DEF Pedibles, Comandos, Crear
    <3>3. CASE canal[c] = << >>
      <4>1. EnCamino(c, Crear, 1)'
        BY <1>1, <3>3, TramoVacio DEF EnCamino, Total
      <4> QED  BY <4>1 DEF Pedibles, Comandos, Crear
    <3> QED  BY <2>1, <3>1, <3>2, <3>3 DEF EnEspera
  <2>3. respuesta[c] # NoRespuesta => canal[c] = << >>
    BY <2>1 DEF EnEspera
  <2>4. EnEspera(c)'
    BY <1>1, <2>2, <2>3 DEF EnEspera
  <2> QED  BY <1>1, <1>3, <2>4 DEF DeCadaCliente
<1> QED  BY <1>2, <1>3

LEMMA PasoDeUnCliente ==
  ASSUME IInv, NEW c \in Clientes, Cliente(c)
  PROVE  IInv'
<1>1. DeCadaCliente(c)'
  BY PasoDelCortado, PasoDeConectar, PasoDePedir, PasoDeSeguir, PasoDeRecibirRespuesta,
     PasoDeCerrar DEF Cliente
<1>2. \A k \in Clientes : DeCadaCliente(k)'
  BY <1>1, PasoAjeno, PasoDeUno
<1> QED  BY <1>2, TipoDelCliente, HiloDelCliente DEF IInv

-----------------------------------------------------------------------------
(* The invariant *)

LEMMA AlInicio == Init => IInv
<1> SUFFICES ASSUME Init
             PROVE  IInv
  OBVIOUS
<1> USE DEF Init
<1>1. TypeOK
  BY RestoTipado DEF TypeOK, Comandos
<1>2. Hilo
  BY DEF Hilo, SinServir
<1>3. \A c \in Clientes : DeCadaCliente(c)
  BY EscuchaAparte DEF DeCadaCliente, EnEspera
<1> QED  BY <1>1, <1>2, <1>3 DEF IInv

LEMMA EnCadaPaso == IInv /\ [Next]_vars => IInv'
<1> SUFFICES ASSUME IInv, [Next]_vars
             PROVE  IInv'
  OBVIOUS
<1>1. CASE Servidor
  BY <1>1, PasoDelBarrido, PasoDeCerrarConexion, PasoDeAtenderComando, PasoDeAtenderError,
     PasoDeRecv, PasoSinRecibir, PasoDeRecvFallido, PasoDeResponder, PasoDeMorir DEF Servidor
<1>2. CASE Reiniciar
  BY <1>2, PasoDelBarrido
<1>3. ASSUME NEW c \in Clientes, Cliente(c)
      PROVE  IInv'
  BY <1>3, PasoDeUnCliente
<1>4. CASE UNCHANGED vars
  <2>1. \A c \in Clientes : DeCadaCliente(c)'
    BY <1>4, Ajeno DEF IInv, Quieto, vars, servidor, conexiones, clientes
  <2> QED  BY <1>4, <2>1 DEF IInv, TypeOK, Hilo, vars, servidor, conexiones, clientes
<1> QED  BY <1>1, <1>2, <1>3, <1>4 DEF Next

LEMMA Invariante == Spec => []IInv
  BY AlInicio, EnCadaPaso, PTL DEF Spec

-----------------------------------------------------------------------------
(* Theorems *)

\* The thread, the connections and the clients keep to their states.
THEOREM TipoCorrecto == Spec => []TypeOK
  BY Invariante, PTL DEF IInv

\* With any number of clients that close at any moment, after any failed recv and with any
\* other connection cut, what the scan of server reads next from a connection is a command
\* (MDJ.c:190), unless a recv took less than a part from that one (servidor.c:72, 85).
THEOREM ComandoAlFrente == Spec => []SinDesfase
<1>1. IInv => SinDesfase
  <2> SUFFICES ASSUME IInv, pc \in {"select", "recorrer"}, NEW c \in Clientes \ cortada,
                      HayDatos(c)
               PROVE  Head(canal[c]) \in Comandos
    BY DEF SinDesfase
  <2> USE DEF HayDatos
  <2>1. EnEspera(c)
    BY EnHilo DEF SinServir
  <2>2. PICK com, n : EnCamino(c, com, n) /\ (n > 1 => com \in Pedibles)
    BY <2>1 DEF EnEspera, EnPedido, Enviadas
  <2>3. Head(canal[c]) = Saludo \/ (Head(canal[c]) = com /\ n \in 2 .. Total(com))
    BY <2>2, Cabeza
  <2> QED  BY <2>2, <2>3 DEF Saludo, Comandos, Pedibles, Total
<1> QED  BY <1>1, Invariante, PTL

\* No answer reaches a client that did not ask, although a command may be handled again after
\* a failed recv (MDJ.c:198), unless a recv took less than a part from its connection.
THEOREM NadaSinPedir == Spec => []RespuestaSolicitada
<1>1. IInv => RespuestaSolicitada
  BY EnHilo DEF RespuestaSolicitada, EnHandler, EnEspera
<1> QED  BY <1>1, Invariante, PTL

\* The single thread blocks in a receive only for a part that its client still owes, unless
\* an earlier recv took less than a part from that connection.
THEOREM EsperaLoDebido == Spec => []BloqueoJustificado
<1>1. IInv => BloqueoJustificado
  <2> SUFFICES ASSUME IInv, pc \in Recibiendo, ~Legible(socket), socket \notin cortada
               PROVE  fase[socket] = (IF pc = "recvLargo" THEN "debeLargo"
                                      ELSE IF pc = "recvTexto" THEN "debeTexto"
                                      ELSE "debeBytes")
    BY DEF BloqueoJustificado
  <2> USE DEF Recibiendo
  <2>1. EnHandler(socket) /\ socket \in Clientes
    BY EnHilo DEF SinServir
  <2>2. canal[socket] = << >> /\ estado[socket] = "abierta" /\ fase[socket] # "fuera"
    BY <2>1 DEF Legible, HayDatos, EnHandler
  <2>3. PICK n \in 1 .. 5, k \in 2 .. 5 :
          /\ PorLeer(socket, n) /\ k = Leidas(pc, command) /\ n = k
    BY <2>1, <2>2, PorLeerAhora
  <2>4. n = Enviadas(socket) /\ command = pedido[socket]
    BY <2>1, <2>2, <2>3 DEF PorLeer, EnHandler
  <2> QED  BY <2>1, <2>3, <2>4 DEF Leidas, Enviadas, EnHandler, Total, IInv, TypeOK
<1> QED  BY <1>1, Invariante, PTL
=============================================================================
