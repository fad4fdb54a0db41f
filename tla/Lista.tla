------------------------------- MODULE Lista --------------------------------
(***************************************************************************)
(* The linked list of src/Bibliotecas/commons/collections/list.c, node by  *)
(* node: the heap, the link of each node, and the head and elements_count  *)
(* of each list.  The calls that walk one list while they add to another   *)
(* (list_add_all, list_filter, list_duplicate, list_take_and_remove) take  *)
(* one step per element; the others touch their nodes in one step.         *)
(*                                                                         *)
(* A condition is the set of the data that satisfy it.                     *)
(***************************************************************************)
EXTENDS Seleccion, FiniteSets

CONSTANTS
  Listas,  \* lists that exist (a destroyed one is an empty one)
  Nodos,   \* addresses malloc may return: bounds the nodes alive at once
  Datos,
  NULL,
  Basura   \* what a freed node reads as

ASSUME ConstantesOK ==
  /\ Listas # {} /\ IsFiniteSet(Nodos)
  /\ NULL \notin Nodos \cup Datos
  /\ Basura \notin Nodos \cup {NULL}

VARIABLES
  nodos,           \* the allocated nodes
  head, elements_count,
  pc,              \* "libre", "iterar" or "tomar"
  origen, destino, \* lists of the loop under way
  element,         \* node the iteration is at
  condition, count,
  ret, vivo

lista == <<nodos, head, elements_count>>
bucle == <<pc, origen, destino, element, condition, count>>
vars  == <<lista, bucle, ret, vivo>>

-----------------------------------------------------------------------------
(* Walking *)

Siguiente(n) == IF n \in DOMAIN nodos THEN nodos[n].next ELSE Basura

\* The node i links away from the head.
Nodo(l, i) ==
  LET N[k \in Nat] == IF k = 0 THEN head[l] ELSE Siguiente(N[k - 1])
  IN  N[i]

EnRango(l, i) == elements_count[l] > i /\ i >= 0

list_get_element(l, i) == IF EnRango(l, i) THEN Nodo(l, i) ELSE NULL

Dato(n) == IF n \in DOMAIN nodos THEN nodos[n].data ELSE Basura

\* The walk stops at the first node that satisfies the condition or at NULL.
Encuentra(l, C, i) ==
  /\ Nodo(l, i) \in DOMAIN nodos /\ Dato(Nodo(l, i)) \in C
  /\ \A j \in 0 .. i - 1 : Nodo(l, j) # NULL /\ Dato(Nodo(l, j)) \notin C

Libres == Nodos \ DOMAIN nodos

\* list_create_element: the heap with a new node in it.
ConNodo(n, d, sig) ==
  [m \in DOMAIN nodos \cup {n} |->
     IF m = n THEN [data |-> d, next |-> sig] ELSE nodos[m]]
Enlazar(h, n, sig) == [h EXCEPT ![n].next = sig]
SinNodo(h, n) == [m \in DOMAIN h \ {n} |-> h[m]]

\* No loop is under way.
Ninguna == CHOOSE l \in Listas : TRUE

Init ==
  /\ nodos = [n \in {} |-> NULL]
  /\ head = [l \in Listas |-> NULL]
  /\ elements_count = [l \in Listas |-> 0]
  /\ pc = "libre"
  /\ origen = Ninguna /\ destino = Ninguna
  /\ element = NULL
  /\ condition = {} /\ count = 0
  /\ ret = NULL
  /\ vivo = TRUE

-----------------------------------------------------------------------------
(* Adding *)

\* Variant: the last node is looked for one position too early.
AlFinalAntes(l, d) ==
  \E n \in Libres :
    /\ IF elements_count[l] = 0
         THEN nodos' = ConNodo(n, d, NULL) /\ head' = [head EXCEPT ![l] = n]
         ELSE /\ nodos' = Enlazar(ConNodo(n, d, NULL),
                            Nodo(l, IF elements_count[l] > 1
                                      THEN elements_count[l] - 2 ELSE 0), n)
              /\ UNCHANGED head
    /\ elements_count' = [elements_count EXCEPT ![l] = @ + 1]

\* list_add
AlFinal(l, d) ==
  \E n \in Libres :
    /\ IF elements_count[l] = 0
         THEN nodos' = ConNodo(n, d, NULL) /\ head' = [head EXCEPT ![l] = n]
         ELSE /\ nodos' = Enlazar(ConNodo(n, d, NULL),
                            list_get_element(l, elements_count[l] - 1), n)
              /\ UNCHANGED head
    /\ elements_count' = [elements_count EXCEPT ![l] = @ + 1]

list_add(l, d) ==
  /\ AlFinal(l, d)
  /\ ret' = elements_count[l]
  /\ UNCHANGED <<bucle, vivo>>

list_add_in_index(l, i, d) ==
  /\ elements_count[l] >= i /\ i >= 0
  /\ \E n \in Libres :
       IF i = 0
         THEN nodos' = ConNodo(n, d, head[l]) /\ head' = [head EXCEPT ![l] = n]
         ELSE /\ nodos' = Enlazar(ConNodo(n, d, list_get_element(l, i)),
                                  list_get_element(l, i - 1), n)
              /\ UNCHANGED head
  /\ elements_count' = [elements_count EXCEPT ![l] = @ + 1]
  /\ UNCHANGED <<bucle, ret, vivo>>

list_replace(l, i, d) ==
  /\ EnRango(l, i)
  /\ nodos' = [nodos EXCEPT ![list_get_element(l, i)].data = d]
  /\ ret' = Dato(list_get_element(l, i))
  /\ UNCHANGED <<head, elements_count, bucle, vivo>>

list_get(l, i) ==
  /\ ret' = IF EnRango(l, i) THEN Dato(list_get_element(l, i)) ELSE NULL
  /\ UNCHANGED <<lista, bucle, vivo>>

-----------------------------------------------------------------------------
(* Removing *)

\* list_remove of a position of the list
Sacar(l, i) ==
  LET aux == list_get_element(l, i)
  IN  /\ EnRango(l, i)
      /\ IF i = 0
           THEN /\ head' = [head EXCEPT ![l] = Siguiente(aux)]
                /\ nodos' = SinNodo(nodos, aux)
           ELSE /\ nodos' = SinNodo(Enlazar(nodos, list_get_element(l, i - 1), Siguiente(aux)), aux)
                /\ UNCHANGED head
      /\ elements_count' = [elements_count EXCEPT ![l] = @ - 1]

list_remove(l, i) ==
  /\ Sacar(l, i)
  /\ ret' = Dato(list_get_element(l, i))
  /\ UNCHANGED <<bucle, vivo>>

list_remove_vacia(l) ==
  /\ head[l] = NULL
  /\ ret' = NULL
  /\ UNCHANGED <<lista, bucle, vivo>>

\* Outside a list that is not empty list_get_element answers NULL, which is
\* dereferenced.
list_remove_fuera(l, i) ==
  /\ head[l] # NULL /\ ~EnRango(l, i)
  /\ vivo' = FALSE
  /\ UNCHANGED <<lista, bucle, ret>>

list_remove_by_condition(l, C) ==
  \E i \in 0 .. Cardinality(Nodos) : Encuentra(l, C, i) /\ list_remove(l, i)

DeLaLista(l) == {Nodo(l, i) : i \in 0 .. elements_count[l] - 1}

list_clean(l) ==
  /\ nodos' = [n \in DOMAIN nodos \ DeLaLista(l) |-> nodos[n]]
  /\ head' = [head EXCEPT ![l] = NULL]
  /\ elements_count' = [elements_count EXCEPT ![l] = 0]
  /\ UNCHANGED <<bucle, ret, vivo>>

-----------------------------------------------------------------------------
(* Loops over two lists *)

\* list_add_all of another list; list_filter and list_duplicate, whose
\* destination is new.
EmpezarIteracion(l, m, C) ==
  /\ C = Datos \cup {NULL} \/ elements_count[l] = 0
  /\ pc' = "iterar"
  /\ destino' = l /\ origen' = m
  /\ element' = head[m]
  /\ condition' = C
  /\ UNCHANGED <<lista, count, ret, vivo>>

\* Variant: the closure is not called for the last node.
IterarSinUltimo ==
  /\ pc = "iterar"
  /\ element # NULL
  /\ IF Dato(element) \in condition /\ Siguiente(element) # NULL
       THEN AlFinal(destino, Dato(element)) ELSE UNCHANGED lista
  /\ element' = Siguiente(element)
  /\ UNCHANGED <<pc, origen, destino, condition, count, ret, vivo>>

\* One turn of list_iterate.
Iterar ==
  /\ pc = "iterar"
  /\ element # NULL
  /\ IF Dato(element) \in condition
       THEN AlFinal(destino, Dato(element)) ELSE UNCHANGED lista
  /\ element' = Siguiente(element)
  /\ UNCHANGED <<pc, origen, destino, condition, count, ret, vivo>>

FinDeIteracion ==
  /\ pc = "iterar"
  /\ element = NULL
  /\ pc' = "libre"
  /\ condition' = {} /\ origen' = Ninguna /\ destino' = Ninguna
  /\ UNCHANGED <<lista, element, count, ret, vivo>>

\* list_take_and_remove
EmpezarTomar(l, m, n) ==
  /\ elements_count[l] = 0
  /\ pc' = "tomar"
  /\ destino' = l /\ origen' = m
  /\ count' = n
  /\ UNCHANGED <<lista, element, condition, ret, vivo>>

\* list_remove of the first and list_add: of a list that has run out, a NULL.
\* The node freed may be the one allocated.
Tomar ==
  /\ pc = "tomar"
  /\ count > 0
  /\ LET m == origen
         aux == head[m]
         quedan == IF aux = NULL THEN nodos ELSE SinNodo(nodos, aux)
         d == IF aux = NULL THEN NULL ELSE Dato(aux)
     IN  \E n \in Nodos \ DOMAIN quedan :
           LET nuevo == [k \in DOMAIN quedan \cup {n} |->
                           IF k = n THEN [data |-> d, next |-> NULL] ELSE quedan[k]]
           IN  /\ nodos' = IF elements_count[destino] = 0 THEN nuevo
                           ELSE Enlazar(nuevo, list_get_element(destino, elements_count[destino] - 1), n)
               /\ head' = [head EXCEPT ![m] = IF aux = NULL THEN NULL ELSE Siguiente(aux),
                                       ![destino] = IF elements_count[destino] = 0 THEN n ELSE @]
               /\ elements_count' = [elements_count EXCEPT ![m] = IF aux = NULL THEN @ ELSE @ - 1,
                                                           ![destino] = @ + 1]
  /\ count' = count - 1
  /\ UNCHANGED <<pc, origen, destino, element, condition, ret, vivo>>

FinDeTomar ==
  /\ pc = "tomar"
  /\ count = 0
  /\ pc' = "libre"
  /\ origen' = Ninguna /\ destino' = Ninguna
  /\ UNCHANGED <<lista, element, condition, count, ret, vivo>>

-----------------------------------------------------------------------------

\* The loops allocate: a call starts one only if the heap has room for it.
Caben(n) == Cardinality(Libres) >= n

Llamada(l) ==
  \/ \E d \in Datos : list_add(l, d)
  \/ \E i \in 0 .. elements_count[l], d \in Datos :
       list_add_in_index(l, i, d) \/ list_replace(l, i, d)
  \/ \E i \in 0 .. elements_count[l] :
       list_get(l, i) \/ list_remove(l, i) \/ list_remove_fuera(l, i)
  \/ list_remove_vacia(l)
  \/ \E C \in SUBSET Datos : list_remove_by_condition(l, C)
  \/ list_clean(l)
  \/ \E m \in Listas \ {l} :
       \/ /\ Caben(elements_count[m])
          /\ \E C \in (SUBSET Datos) \cup {Datos \cup {NULL}} : EmpezarIteracion(l, m, C)
       \/ \E n \in 0 .. elements_count[m] + 1 :
            Caben(n - elements_count[m]) /\ EmpezarTomar(l, m, n)

PasoDelBucle == Iterar \/ FinDeIteracion \/ Tomar \/ FinDeTomar

Next ==
  /\ vivo
  /\ \/ pc = "libre" /\ \E l \in Listas : Llamada(l)
     \/ PasoDelBucle

Spec == Init /\ [][Next]_vars

-----------------------------------------------------------------------------
(* Properties *)

TypeOK ==
  /\ \A n \in DOMAIN nodos : nodos[n] \in [data : Datos \cup {NULL}, next : Nodos \cup {NULL}]
  /\ head \in [Listas -> Nodos \cup {NULL}]
  /\ elements_count \in [Listas -> 0 .. Cardinality(Nodos)]
  /\ pc \in {"libre", "iterar", "tomar"}
  /\ origen \in Listas /\ destino \in Listas
  /\ element \in Nodos \cup {NULL}
  /\ condition \subseteq Datos \cup {NULL}
  /\ count \in 0 .. Cardinality(Nodos) + 1
  /\ ret \in Datos \cup {NULL} \cup 0 .. Cardinality(Nodos)
  /\ vivo \in BOOLEAN

\* From the head, elements_count links lead over different allocated nodes to
\* NULL: the count that list_get_element trusts and the chain that list_iterate
\* and list_find_element follow are the same list.
BienEnlazada(l) ==
  /\ DeLaLista(l) \subseteq DOMAIN nodos
  /\ Cardinality(DeLaLista(l)) = elements_count[l]
  /\ Nodo(l, elements_count[l]) = NULL

\* Every list is the list its count says, and every node alive belongs to
\* exactly one: none is leaked, and no list can free or relink the node of
\* another.
HeapCoherente ==
  /\ TypeOK
  /\ \A l \in Listas : BienEnlazada(l)
  /\ \A n \in DOMAIN nodos : Cardinality({l \in Listas : n \in DeLaLista(l)}) = 1

-----------------------------------------------------------------------------
(* The sequences a caller sees: a loop under way counts as done. *)

Cadena(l) == [i \in 1 .. elements_count[l] |-> Dato(Nodo(l, i - 1))]

\* How many nodes the iteration still has to visit from node n on.
Faltan(l, n) ==
  LET p == {i \in 0 .. elements_count[l] - 1 : Nodo(l, i) = n}
  IN  IF p = {} THEN 0 ELSE elements_count[l] - (CHOOSE i \in p : TRUE)

contenido ==
  [l \in Listas |->
     IF pc = "iterar" /\ l = destino
       THEN Cadena(l) \o UltimosQue(Cadena(origen), condition, Faltan(origen, element))
     ELSE IF pc = "tomar" /\ l = destino
       THEN Cadena(l) \o [i \in 1 .. count |->
              IF i <= elements_count[origen] THEN Cadena(origen)[i] ELSE NULL]
     ELSE IF pc = "tomar" /\ l = origen
       THEN SubSeq(Cadena(l), count + 1, elements_count[l])
     ELSE Cadena(l)]

Secuencias == INSTANCE Secuencia

\* The linked lists implement sequences.
ImplementaSecuencia == Secuencias!Spec
=============================================================================
