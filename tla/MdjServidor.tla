---------------------------- MODULE MdjServidor -----------------------------
(***************************************************************************)
(* The server thread of the MDJ (server, command_handler and the recv/send *)
(* skeleton of the two handlers in src/MDJ/src/MDJ.c) and its connections: *)
(* one thread scans the sockets that select reported and handles, blocking *)
(* in recv, one command of each.  What a handler does to the volume is     *)
(* module MdjVolumen; here it only yields an answer.                       *)
(*                                                                         *)
(* A connection holds the parts its client sent and the server did not     *)
(* read.  receive_int and receive_string call recv once, so any of them    *)
(* may take less than a part: from then on the connection is cut           *)
(* ("cortada"), what it holds has no borders ("resto") and what is read    *)
(* from it has no meaning, until it is closed.                             *)
(*                                                                         *)
(* The clients are external: src/ElDiego opens the connection and sends    *)
(* the handshake, but no process of the repository sends the two commands  *)
(* yet.  They follow the order in which the handlers read, wait for the    *)
(* answer before the next request, and may close at any moment.            *)
(***************************************************************************)
EXTENDS Naturals, Sequences

CONSTANTS
  Clientes,  \* processes that connect to the MDJ
  Escucha    \* the listening socket

ASSUME EscuchaAparte == Escucha \notin Clientes

OPERACION_FAIL == 10
OPERACION_OK == 11
ERROR_OPERACION == 99
NoRta == 0
NoRespuesta == 0

\* Commands; in a connection they travel with the size and the text of the path and the
\* bytes of the archivo.  Any other number is handled as the handshake is: with a line in
\* the log.
Comandos == {"NUEVA_CONEXION_DIEGO", "VALIDAR_ARCHIVO", "CREAR_ARCHIVO"}
Pedibles == Comandos \ {"NUEVA_CONEXION_DIEGO"}
Partes   == Comandos \cup {"largo", "texto", "bytes", "resto"}

VARIABLES
  (* the server thread *)
  pc, master, listos, socket, command, rta,
  (* connections, seen from the server's end *)
  estado,     \* "cerrada", "abierta", "fin", "rst" or "muerta"
  canal,      \* parts sent by the client and not read yet
  respuesta,  \* answer sent and not read yet (the last one, if it is cut)
  cortada,    \* history: the connections in which a recv took less than a part
  (* clients *)
  fase, pedido

servidor   == <<pc, master, listos, socket, command, rta>>
conexiones == <<estado, canal, respuesta, cortada>>
clientes   == <<fase, pedido>>
vars       == <<servidor, conexiones, clientes>>

-----------------------------------------------------------------------------
(* recv and send on the server's end.  After the client closed, recv       *)
(* answers 0 once the data is read ("fin").  A reset is reported once as   *)
(* -1 ("rst") and then as 0 ("muerta"); it comes from closing with an      *)
(* unread answer or from answering a closed client.                        *)

HayDatos(c)      == canal[c] # << >>
Recv0(c)         == ~HayDatos(c) /\ estado[c] \in {"fin", "muerta"}
RecvError(c)     == ~HayDatos(c) /\ estado[c] = "rst"
Legible(c)       == HayDatos(c) \/ estado[c] \in {"fin", "rst", "muerta"}
PorAceptar       == {c \in Clientes : estado[c] # "cerrada" /\ c \notin master}

RecvEntero(c) ==
  /\ HayDatos(c)
  /\ c \notin cortada
  /\ canal' = [canal EXCEPT ![c] = Tail(@)]
  /\ UNCHANGED cortada

\* Less than was asked for, or as much as it was from a connection without borders.
RecvCortado(c) ==
  /\ HayDatos(c)
  /\ \E queda \in {<<"resto">>} \cup (IF c \in cortada THEN {<< >>} ELSE {}) :
       canal' = [canal EXCEPT ![c] = queda]
  /\ cortada' = cortada \cup {c}

Init ==
  /\ pc = "select" /\ master = {} /\ listos = {}
  /\ socket = Escucha /\ command = "NUEVA_CONEXION_DIEGO" /\ rta = NoRta
  /\ estado = [c \in Clientes |-> "cerrada"]
  /\ canal = [c \in Clientes |-> << >>]
  /\ respuesta = [c \in Clientes |-> NoRespuesta]
  /\ cortada = {}
  /\ fase = [c \in Clientes |-> "fuera"]
  /\ pedido = [c \in Clientes |-> "NUEVA_CONEXION_DIEGO"]

-----------------------------------------------------------------------------
(* server *)

\* Variant: each pass serves one readable socket.
SelectPrimero ==
  /\ pc = "select"
  /\ \/ PorAceptar # {} /\ listos' = {Escucha}
     \/ PorAceptar = {} /\ \E c \in master : Legible(c) /\ listos' = {c}
  /\ pc' = "recorrer"
  /\ UNCHANGED <<master, socket, command, rta, conexiones, clientes>>

\* select: the sockets of this pass are those readable now.
Select ==
  /\ pc = "select"
  /\ listos' = {c \in master : Legible(c)}
                 \cup (IF PorAceptar # {} THEN {Escucha} ELSE {})
  /\ listos' # {}
  /\ pc' = "recorrer"
  /\ UNCHANGED <<master, socket, command, rta, conexiones, clientes>>

\* The listener has the lowest descriptor, so it is the first of the pass.
Aceptar(c) ==
  /\ pc = "recorrer"
  /\ Escucha \in listos
  /\ c \in PorAceptar
  /\ master' = master \cup {c}
  /\ listos' = listos \ {Escucha}
  /\ UNCHANGED <<pc, socket, command, rta, conexiones, clientes>>

Turno(c) == pc = "recorrer" /\ Escucha \notin listos /\ c \in listos

FinDePasada ==
  /\ pc = "recorrer"
  /\ listos = {}
  /\ pc' = "select"
  /\ UNCHANGED <<master, listos, socket, command, rta, conexiones, clientes>>

\* receive_int answers 0: close and FD_CLR.
CerrarConexion(c) ==
  /\ Turno(c)
  /\ Recv0(c)
  /\ estado' = [estado EXCEPT ![c] = "cerrada"]
  /\ master' = master \ {c}
  /\ listos' = listos \ {c}
  /\ cortada' = cortada \ {c}
  /\ UNCHANGED <<pc, socket, command, rta, canal, respuesta, clientes>>

\* Variant: the case of the handshake falls through to VALIDAR_ARCHIVO.
DespacharSinBreak(c, comando) ==
  /\ listos' = listos \ {c}
  /\ pc' = "recvLargo" /\ socket' = c

\* command_handler
Despachar(c, comando) ==
  /\ listos' = listos \ {c}
  /\ IF comando \in Pedibles
       THEN pc' = "recvLargo" /\ socket' = c
       ELSE UNCHANGED <<pc, socket>>

\* The codes fit in the byte that arrives first; the others are those that command had.
AtenderComando(c) ==
  /\ Turno(c)
  /\ \E comando \in Comandos :
       /\ \/ RecvEntero(c) /\ comando = Head(canal[c])
          \/ /\ RecvCortado(c)
             /\ c \in cortada \/ comando \in {Head(canal[c]), "NUEVA_CONEXION_DIEGO"}
       /\ command' = comando
       /\ Despachar(c, comando)
  /\ UNCHANGED <<master, rta, estado, respuesta, clientes>>

\* receive_int answers -1, which as a uint32_t is not <= 0: command keeps the
\* value of an earlier turn and is handled again.
AtenderError(c) ==
  /\ Turno(c)
  /\ RecvError(c)
  /\ estado' = [estado EXCEPT ![c] = "muerta"]
  /\ Despachar(c, command)
  /\ UNCHANGED <<master, command, rta, canal, respuesta, cortada, clientes>>

-----------------------------------------------------------------------------
(* validar_archivo and crear_archivo: each recv blocks the whole server.   *)

\* Variant: crear_archivo does not read the size.
TrasRutaSinBytes == "trabajar"

\* crear_archivo reads bytes also after failing to read the path.
TrasRuta == IF command = "CREAR_ARCHIVO" THEN "recvBytes" ELSE "trabajar"

Recibiendo == {"recvLargo", "recvTexto", "recvBytes"}

RecvLargo ==
  /\ pc = "recvLargo"
  /\ RecvEntero(socket) \/ RecvCortado(socket)
  /\ pc' = "recvTexto"
  /\ UNCHANGED <<master, listos, socket, command, rta, estado, respuesta, clientes>>

RecvTexto ==
  /\ pc = "recvTexto"
  /\ RecvEntero(socket) \/ RecvCortado(socket)
  /\ pc' = TrasRuta
  /\ UNCHANGED <<master, listos, socket, command, rta, estado, respuesta, clientes>>

SinRuta ==
  /\ rta' = ERROR_OPERACION
  /\ pc' = IF TrasRuta = "trabajar" THEN "responder" ELSE "recvBytes"

RecvRuta0 ==
  /\ pc \in {"recvLargo", "recvTexto"}
  /\ Recv0(socket)
  /\ SinRuta
  /\ UNCHANGED <<master, listos, socket, command, conexiones, clientes>>

\* What was read as the size is 0, and recv answers 0, or is more than malloc gives, and
\* receive_string answers -1, which as a uint32_t is not <= 0.
LargoSinSentido ==
  /\ pc = "recvTexto"
  /\ socket \in cortada
  /\ \/ SinRuta
     \/ pc' = TrasRuta /\ UNCHANGED rta
  /\ UNCHANGED <<master, listos, socket, command, conexiones, clientes>>

RecvBytes ==
  /\ pc = "recvBytes"
  /\ RecvEntero(socket) \/ RecvCortado(socket)
  /\ pc' = "trabajar"
  /\ UNCHANGED <<master, listos, socket, command, rta, estado, respuesta, clientes>>

RecvBytes0 ==
  /\ pc = "recvBytes"
  /\ Recv0(socket)
  /\ rta' = ERROR_OPERACION
  /\ pc' = "responder"
  /\ UNCHANGED <<master, listos, socket, command, conexiones, clientes>>

\* The -1 of recv goes for a part that was read.  Only a connection that is cut may be reset
\* here: in any other the answer that would cause it has not been sent.
RecvFallido ==
  /\ pc \in Recibiendo
  /\ RecvError(socket)
  /\ \/ pc = "recvLargo" /\ pc' = "recvTexto"
     \/ pc = "recvTexto" /\ pc' = TrasRuta
     \/ pc = "recvBytes" /\ pc' = "trabajar"
  /\ estado' = [estado EXCEPT ![socket] = "muerta"]
  /\ UNCHANGED <<master, listos, socket, command, rta, canal, respuesta, cortada, clientes>>

\* Variant: the answer is the boolean of isFileExists.
TrabajarBooleano ==
  /\ pc = "trabajar"
  /\ rta' \in {0, 1}
  /\ pc' = "responder"
  /\ UNCHANGED <<master, listos, socket, command, conexiones, clientes>>

\* The work on the volume; crear_archivo may also find 99 in its rta.
Trabajar ==
  /\ pc = "trabajar"
  /\ rta' \in {OPERACION_FAIL, OPERACION_OK}
               \cup (IF command = "CREAR_ARCHIVO" THEN {ERROR_OPERACION} ELSE {})
  /\ pc' = "responder"
  /\ UNCHANGED <<master, listos, socket, command, conexiones, clientes>>

FinDelHandler == pc' = "recorrer" /\ socket' = Escucha /\ rta' = NoRta

Responder ==
  /\ pc = "responder"
  /\ estado[socket] = "abierta"
  /\ respuesta' = [respuesta EXCEPT ![socket] = rta]
  /\ FinDelHandler
  /\ UNCHANGED <<master, listos, command, estado, canal, cortada, clientes>>

\* The peer's system answers the data with a reset; one that came before makes send fail.
ResponderACerrado ==
  /\ pc = "responder"
  /\ estado[socket] \in {"fin", "rst"}
  /\ estado' = [estado EXCEPT ![socket] = IF @ = "fin" THEN "rst" ELSE "muerta"]
  /\ FinDelHandler
  /\ UNCHANGED <<master, listos, command, canal, respuesta, cortada, clientes>>

\* The process ends and with it its connections.
Morir ==
  /\ pc' = "muerto"
  /\ socket' = Escucha /\ rta' = NoRta
  /\ master' = {} /\ listos' = {}
  /\ command' = "NUEVA_CONEXION_DIEGO"
  /\ estado' = [c \in Clientes |-> "cerrada"]
  /\ canal' = [c \in Clientes |-> << >>]
  /\ respuesta' = [c \in Clientes |-> NoRespuesta]
  /\ cortada' = {}
  /\ fase' = [c \in Clientes |-> "fuera"]
  /\ pedido' = [c \in Clientes |-> "NUEVA_CONEXION_DIEGO"]

\* send on a reset connection raises SIGPIPE, which the MDJ does not handle.
Sigpipe ==
  /\ pc = "responder"
  /\ estado[socket] \in {"rst", "muerta"}
  /\ Morir

\* A text that was not read whole has no end and may be in no buffer; a size without
\* sense may not fit on the stack.
DatosSinSentido ==
  /\ pc = "trabajar"
  /\ socket \in cortada
  /\ Morir

Reiniciar ==
  /\ pc = "muerto"
  /\ pc' = "select"
  /\ UNCHANGED <<master, listos, socket, command, rta, conexiones, clientes>>

-----------------------------------------------------------------------------
(* Clients *)

Enviar(c, parte) ==
  canal' = [canal EXCEPT ![c] = IF c \in cortada THEN <<"resto">> ELSE Append(@, parte)]

\* connect_server sends the handshake as soon as it is connected.
Conectar(c) ==
  /\ pc # "muerto"
  /\ fase[c] = "fuera"
  /\ estado[c] = "cerrada"
  /\ estado' = [estado EXCEPT ![c] = "abierta"]
  /\ Enviar(c, "NUEVA_CONEXION_DIEGO")
  /\ fase' = [fase EXCEPT ![c] = "libre"]
  /\ UNCHANGED <<servidor, respuesta, cortada, pedido>>

Pedir(c, comando) ==
  /\ fase[c] = "libre"
  /\ Enviar(c, comando)
  /\ fase' = [fase EXCEPT ![c] = "debeLargo"]
  /\ pedido' = [pedido EXCEPT ![c] = comando]
  /\ UNCHANGED <<servidor, estado, respuesta, cortada>>

\* send_string sends the size and the text.
EnviarLargo(c) ==
  /\ fase[c] = "debeLargo"
  /\ Enviar(c, "largo")
  /\ fase' = [fase EXCEPT ![c] = "debeTexto"]
  /\ UNCHANGED <<servidor, estado, respuesta, cortada, pedido>>

EnviarTexto(c) ==
  /\ fase[c] = "debeTexto"
  /\ Enviar(c, "texto")
  /\ fase' = [fase EXCEPT ![c] =
                IF pedido[c] = "CREAR_ARCHIVO" THEN "debeBytes" ELSE "esperando"]
  /\ UNCHANGED <<servidor, estado, respuesta, cortada, pedido>>

EnviarBytes(c) ==
  /\ fase[c] = "debeBytes"
  /\ Enviar(c, "bytes")
  /\ fase' = [fase EXCEPT ![c] = "esperando"]
  /\ UNCHANGED <<servidor, estado, respuesta, cortada, pedido>>

\* There may be more than one answer in a connection that is cut.
RecibirRespuesta(c) ==
  /\ fase[c] = "esperando"
  /\ respuesta[c] # NoRespuesta
  /\ \/ respuesta' = [respuesta EXCEPT ![c] = NoRespuesta]
     \/ c \in cortada /\ UNCHANGED respuesta
  /\ fase' = [fase EXCEPT ![c] = "libre"]
  /\ pedido' = [pedido EXCEPT ![c] = "NUEVA_CONEXION_DIEGO"]
  /\ UNCHANGED <<servidor, estado, canal, cortada>>

Cerrar(c) ==
  /\ fase[c] # "fuera"
  /\ fase' = [fase EXCEPT ![c] = "fuera"]
  /\ pedido' = [pedido EXCEPT ![c] = "NUEVA_CONEXION_DIEGO"]
  /\ estado' = [estado EXCEPT ![c] = IF respuesta[c] = NoRespuesta THEN "fin" ELSE "rst"]
  /\ respuesta' = [respuesta EXCEPT ![c] = NoRespuesta]
  /\ UNCHANGED <<servidor, canal, cortada>>

-----------------------------------------------------------------------------

Servidor ==
  \/ Select \/ FinDePasada
  \/ \E c \in Clientes : Aceptar(c) \/ CerrarConexion(c)
                           \/ AtenderComando(c) \/ AtenderError(c)
  \/ RecvLargo \/ RecvTexto \/ RecvRuta0 \/ LargoSinSentido
  \/ RecvBytes \/ RecvBytes0 \/ RecvFallido \/ Trabajar \/ DatosSinSentido
  \/ Responder \/ ResponderACerrado \/ Sigpipe

SigueElPedido(c) == EnviarLargo(c) \/ EnviarTexto(c) \/ EnviarBytes(c)

Cliente(c) ==
  \/ Conectar(c) \/ SigueElPedido(c) \/ RecibirRespuesta(c) \/ Cerrar(c)
  \/ \E comando \in Pedibles : Pedir(c, comando)

Next == Servidor \/ Reiniciar \/ \E c \in Clientes : Cliente(c)

\* The server thread is always scheduled; a client that started a request sends
\* the rest of it (or closes, which ends the request).
Fairness ==
  /\ WF_vars(Servidor)
  /\ \A c \in Clientes : WF_vars(SigueElPedido(c))

Spec == Init /\ [][Next]_vars /\ Fairness

-----------------------------------------------------------------------------
(* Properties *)

TypeOK ==
  /\ pc \in {"select", "recorrer", "recvLargo", "recvTexto", "recvBytes", "trabajar",
             "responder", "muerto"}
  /\ master \subseteq Clientes
  /\ listos \subseteq Clientes \cup {Escucha}
  /\ socket \in Clientes \cup {Escucha}
  /\ command \in Comandos
  /\ rta \in {NoRta, OPERACION_FAIL, OPERACION_OK, ERROR_OPERACION}
  /\ estado \in [Clientes -> {"cerrada", "abierta", "fin", "rst", "muerta"}]
  /\ canal \in [Clientes -> Seq(Partes)]
  /\ respuesta \in [Clientes -> {NoRespuesta, OPERACION_FAIL, OPERACION_OK,
                                 ERROR_OPERACION}]
  /\ cortada \subseteq Clientes
  /\ fase \in [Clientes -> {"fuera", "libre", "debeLargo", "debeTexto", "debeBytes",
                            "esperando"}]
  /\ pedido \in [Clientes -> Comandos]

\* Only a recv that takes less than a part makes the scan read from that connection
\* something that is not a command: no failed recv, no client that closes in the middle of
\* a request and nothing that comes from another connection, cut or not, does.
SinDesfase ==
  pc \in {"select", "recorrer"} =>
    \A c \in Clientes \ cortada : HayDatos(c) => Head(canal[c]) \in Comandos

\* A client finds an answer only while it waits for one, although a command may be
\* handled twice after a failed recv, unless its own connection is cut.
RespuestaSolicitada ==
  \A c \in Clientes \ cortada : respuesta[c] # NoRespuesta =>
    fase[c] = "esperando" /\ canal[c] = << >>

\* A handler blocked in recv waits for a client that still owes that part, never for one
\* that has sent everything or is gone, unless the connection is cut.
BloqueoJustificado ==
  (pc \in Recibiendo /\ ~Legible(socket) /\ socket \notin cortada) =>
    fase[socket] = (IF pc = "recvLargo" THEN "debeLargo"
                    ELSE IF pc = "recvTexto" THEN "debeTexto" ELSE "debeBytes")

Trabada == pc \in Recibiendo /\ ~Legible(socket)

\* A client that sent a whole request is answered, unless it closes, the MDJ dies or its
\* connection is cut: a pass of the scan leaves out no readable socket.  The thread may
\* stay blocked for ever in the recv of a connection that is cut, and then nobody is.
SolicitudAtendida ==
  []<>~Trabada =>
    \A c \in Clientes :
      fase[c] = "esperando" ~>
        (respuesta[c] # NoRespuesta \/ fase[c] # "esperando" \/ c \in cortada)
=============================================================================
