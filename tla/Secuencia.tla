----------------------------- MODULE Secuencia ------------------------------
(***************************************************************************)
(* What a list of src/Bibliotecas/commons/collections/list.c is to its     *)
(* callers, as list.h describes it: a sequence of data.  Every call is one *)
(* step, however many nodes it touches.                                    *)
(***************************************************************************)
EXTENDS Seleccion, SequencesExt

CONSTANTS Listas, Datos, NULL

VARIABLES
  contenido,  \* the sequence each list holds
  ret,        \* what the last call answered
  vivo        \* FALSE once a call dereferenced NULL

svars == <<contenido, ret, vivo>>

Init ==
  /\ contenido = [l \in Listas |-> << >>]
  /\ ret = NULL
  /\ vivo = TRUE

Largo(l) == Len(contenido[l])
EnRango(l, i) == i \in 0 .. Largo(l) - 1

Agregar(l, d) ==
  /\ contenido' = [contenido EXCEPT ![l] = Append(@, d)]
  /\ ret' = Largo(l)
  /\ UNCHANGED vivo

\* An index that is neither of an element nor the end is ignored.
Insertar(l, i, d) ==
  /\ i \in 0 .. Largo(l)
  /\ contenido' = [contenido EXCEPT ![l] = InsertAt(@, i + 1, d)]
  /\ UNCHANGED <<ret, vivo>>

Reemplazar(l, i, d) ==
  /\ EnRango(l, i)
  /\ contenido' = [contenido EXCEPT ![l][i + 1] = d]
  /\ ret' = contenido[l][i + 1]
  /\ UNCHANGED vivo

Quitar(l, i) ==
  /\ EnRango(l, i)
  /\ contenido' = [contenido EXCEPT ![l] = RemoveAt(@, i + 1)]
  /\ ret' = contenido[l][i + 1]
  /\ UNCHANGED vivo

\* The first datum that satisfies the condition, and only it.
QuitarPrimero(l, C) ==
  \E i \in 0 .. Largo(l) - 1 :
    /\ contenido[l][i + 1] \in C
    /\ \A j \in 0 .. i - 1 : contenido[l][j + 1] \notin C
    /\ Quitar(l, i)

\* A position outside a list that is not empty may not be removed.
QuitarFuera(l, i) ==
  /\ Largo(l) > 0 /\ ~EnRango(l, i)
  /\ vivo' = FALSE
  /\ UNCHANGED <<contenido, ret>>

Vaciar(l) ==
  /\ contenido' = [contenido EXCEPT ![l] = << >>]
  /\ UNCHANGED <<ret, vivo>>

AgregarTodos(l, m, C) ==
  /\ contenido' = [contenido EXCEPT ![l] = @ \o LosQue(contenido[m], C)]
  /\ UNCHANGED <<ret, vivo>>

Primeros(s, n) == [i \in 1 .. n |-> IF i <= Len(s) THEN s[i] ELSE NULL]

\* The first n move; those that are missing are NULL in the new list.
Mover(l, m, n) ==
  /\ contenido' = [contenido EXCEPT ![l] = @ \o Primeros(contenido[m], n),
                                    ![m] = SubSeq(@, n + 1, Len(@))]
  /\ UNCHANGED <<ret, vivo>>

Consultar(r) ==
  /\ ret' = r
  /\ UNCHANGED <<contenido, vivo>>

Obtener(l, i) == Consultar(IF EnRango(l, i) THEN contenido[l][i + 1] ELSE NULL)

Next ==
  /\ vivo
  /\ \E l \in Listas :
       \/ \E d \in Datos : Agregar(l, d)
       \/ \E d \in Datos, i \in 0 .. Largo(l) : Insertar(l, i, d)
       \/ \E d \in Datos, i \in 0 .. Largo(l) : Reemplazar(l, i, d)
       \/ \E i \in 0 .. Largo(l) : Quitar(l, i) \/ Obtener(l, i) \/ QuitarFuera(l, i)
       \/ \E C \in SUBSET Datos : QuitarPrimero(l, C)
       \/ Vaciar(l)
       \/ \E m \in Listas \ {l} :
            \/ \E C \in SUBSET (Datos \cup {NULL}) : AgregarTodos(l, m, C)
            \/ \E n \in 0 .. Largo(m) + 1 : Mover(l, m, n)
       \/ Consultar(NULL)

Spec == Init /\ [][Next]_svars
=============================================================================
