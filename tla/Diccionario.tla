----------------------------- MODULE Diccionario ----------------------------
(***************************************************************************)
(* The dictionary of src/Bibliotecas/commons/collections/dictionary.c, the *)
(* hash table behind the configuration files, the file table and the       *)
(* semaphore list: buckets of chained elements, found by hash code, and a  *)
(* resize that moves the elements one by one to a table twice as large.    *)
(*                                                                         *)
(* A chain is the sequence of its elements.  dictionary_hash is the        *)
(* constant Hash: which keys share a code or a bucket is what matters.     *)
(***************************************************************************)
EXTENDS Integers, Sequences, FiniteSets

CONSTANTS
  Claves,       \* keys
  Hash,         \* dictionary_hash of each key
  Datos,        \* values put: what a caller stores, perhaps NULL
  NULL,
  TamanioInicial, \* DEFAULT_DICTIONARY_INITIAL_SIZE (20 in the code)
  MaxNulos        \* bound on the removals of a NULL between two cleanings

ASSUME ConstantesOK ==
  /\ Hash \in [Claves -> Nat]
  /\ TamanioInicial \in Nat \ {0}
  /\ MaxNulos \in Nat

VARIABLES
  elements, table_max_size, table_current_size, elements_amount,
  new_table, table_index,   \* of the resize under way
  pc,                       \* "libre" or "resize"
  ret,                      \* what the last query or removal answered
  nulos                     \* history: elements with a NULL removed since the last cleaning

tabla  == <<elements, table_max_size, table_current_size, elements_amount>>
resize == <<new_table, table_index>>
vars   == <<tabla, resize, pc, ret, nulos>>

-----------------------------------------------------------------------------

Nuevo(k, d) == [key |-> k, hashcode |-> Hash[k], data |-> d]

Elementos == {Nuevo(k, d) : k \in Claves, d \in Datos}

TablaVacia(n) == [j \in 0 .. n - 1 |-> << >>]

Indice(k) == Hash[k] % table_max_size

\* Where dictionary_get_element stops: the first element of the chain with the
\* hash code of the key; the keys themselves are not compared.
Coinciden(k) ==
  {p \in DOMAIN elements[Indice(k)] : elements[Indice(k)][p].hashcode = Hash[k]}
Encontrado(k, p) == p \in Coinciden(k) /\ \A q \in Coinciden(k) : p <= q
Esta(k) == Coinciden(k) # {}

Sin(s, p) == SubSeq(s, 1, p - 1) \o SubSeq(s, p + 1, Len(s))

Init ==
  /\ table_max_size = TamanioInicial
  /\ elements = TablaVacia(TamanioInicial)
  /\ table_current_size = 0
  /\ elements_amount = 0
  /\ new_table = TablaVacia(0)
  /\ table_index = 0
  /\ pc = "libre"
  /\ ret = NULL
  /\ nulos = 0

-----------------------------------------------------------------------------
(* dictionary_put *)

Actualizar(k, d) ==
  /\ pc = "libre"
  /\ \E p \in Coinciden(k) :
       /\ Encontrado(k, p)
       /\ elements' = [elements EXCEPT ![Indice(k)][p].data = d]
  /\ UNCHANGED <<table_max_size, table_current_size, elements_amount, resize, pc, ret, nulos>>

\* A new element at the end of its chain; when it takes the last free bucket
\* dictionary_resize runs before elements_amount is counted.
Insertar(k, d) ==
  LET libre == elements[Indice(k)] = << >>
      ocupadas == table_current_size + (IF libre THEN 1 ELSE 0)
  IN  /\ pc = "libre"
      /\ ~Esta(k)
      /\ elements' = [elements EXCEPT ![Indice(k)] =
                        Append(@, Nuevo(k, d))]
      /\ IF libre /\ ocupadas >= table_max_size
           THEN /\ pc' = "resize"
                /\ table_current_size' = 0
                /\ new_table' = TablaVacia(2 * table_max_size)
                /\ UNCHANGED elements_amount
           ELSE /\ table_current_size' = ocupadas
                /\ elements_amount' = elements_amount + 1
                /\ UNCHANGED <<pc, new_table>>
      /\ UNCHANGED <<table_max_size, table_index, ret, nulos>>

-----------------------------------------------------------------------------
(* dictionary_resize *)

\* Variant: the new position is computed with the old size.
IndiceNuevoViejo(e) == e.hashcode % table_max_size

IndiceNuevo(e) == e.hashcode % (2 * table_max_size)

\* Variant: the next element is read after its link was cleared.
MoverElementoPerdiendo ==
  /\ pc = "resize"
  /\ table_index < table_max_size
  /\ elements[table_index] # << >>
  /\ LET e == Head(elements[table_index])
     IN  /\ new_table' = [new_table EXCEPT ![IndiceNuevo(e)] = Append(@, e)]
         /\ table_current_size' = table_current_size
                                   + (IF new_table[IndiceNuevo(e)] = << >> THEN 1 ELSE 0)
  /\ elements' = [elements EXCEPT ![table_index] = << >>]
  /\ UNCHANGED <<table_max_size, elements_amount, table_index, pc, ret, nulos>>

\* One element of the old chain goes to the end of its new one.
MoverElemento ==
  /\ pc = "resize"
  /\ table_index < table_max_size
  /\ elements[table_index] # << >>
  /\ LET e == Head(elements[table_index])
     IN  /\ new_table' = [new_table EXCEPT ![IndiceNuevo(e)] = Append(@, e)]
         /\ table_current_size' = table_current_size
                                   + (IF new_table[IndiceNuevo(e)] = << >> THEN 1 ELSE 0)
  /\ elements' = [elements EXCEPT ![table_index] = Tail(@)]
  /\ UNCHANGED <<table_max_size, elements_amount, table_index, pc, ret, nulos>>

SiguienteCadena ==
  /\ pc = "resize"
  /\ table_index < table_max_size
  /\ elements[table_index] = << >>
  /\ table_index' = table_index + 1
  /\ UNCHANGED <<tabla, new_table, pc, ret, nulos>>

\* The new table takes the place of the old one and dictionary_put goes on.
FinDelResize ==
  /\ pc = "resize"
  /\ table_index = table_max_size
  /\ elements' = new_table
  /\ table_max_size' = 2 * table_max_size
  /\ elements_amount' = elements_amount + 1
  /\ new_table' = TablaVacia(0)
  /\ table_index' = 0
  /\ pc' = "libre"
  /\ UNCHANGED <<table_current_size, ret, nulos>>

-----------------------------------------------------------------------------
(* Queries and removals *)

DatoDe(k) ==
  IF Esta(k)
    THEN LET p == CHOOSE p \in Coinciden(k) : Encontrado(k, p)
         IN  elements[Indice(k)][p].data
    ELSE NULL

Get(k) ==
  /\ pc = "libre"
  /\ ret' = DatoDe(k)
  /\ UNCHANGED <<tabla, resize, pc, nulos>>

HasKey(k) ==
  /\ pc = "libre"
  /\ ret' = IF Esta(k) THEN "true" ELSE "false"
  /\ UNCHANGED <<tabla, resize, pc, nulos>>

\* Variant: the bucket emptied is not counted off.
QuitarSinDescontar(k) ==
  /\ \E p \in Coinciden(k) :
       /\ Encontrado(k, p)
       /\ elements' = [elements EXCEPT ![Indice(k)] = Sin(@, p)]
  /\ UNCHANGED table_current_size

\* dictionary_remove_element: unlinks the first element with the hash code.
Quitar(k) ==
  /\ \E p \in Coinciden(k) :
       /\ Encontrado(k, p)
       /\ elements' = [elements EXCEPT ![Indice(k)] = Sin(@, p)]
  /\ table_current_size' =
       IF Len(elements[Indice(k)]) = 1 THEN table_current_size - 1 ELSE table_current_size

\* Variant: the count goes down also when there was nothing to remove.
CantidadTrasQuitarSiempre(k) == elements_amount - 1

\* dictionary_remove counts only a removal that answers a non-NULL datum.
CantidadTrasQuitar(k) ==
  IF DatoDe(k) # NULL THEN elements_amount - 1 ELSE elements_amount

\* The element that goes has a NULL, so nobody counts it off.
SinDescontar(k) == Esta(k) /\ DatoDe(k) = NULL

\* dictionary_remove and dictionary_remove_and_destroy
Remove(k) ==
  /\ pc = "libre"
  /\ SinDescontar(k) => nulos < MaxNulos
  /\ ret' = DatoDe(k)
  /\ \/ Esta(k) /\ Quitar(k)
     \/ ~Esta(k) /\ UNCHANGED <<elements, table_current_size>>
  /\ elements_amount' = CantidadTrasQuitar(k)
  /\ nulos' = IF SinDescontar(k) THEN nulos + 1 ELSE nulos
  /\ UNCHANGED <<table_max_size, resize, pc>>

\* dictionary_clean keeps the size the table has grown to.
Clean ==
  /\ pc = "libre"
  /\ elements' = TablaVacia(table_max_size)
  /\ table_current_size' = 0
  /\ elements_amount' = 0
  /\ nulos' = 0
  /\ UNCHANGED <<table_max_size, resize, pc, ret>>

Put(k, d) == Actualizar(k, d) \/ Insertar(k, d)

PasoDelResize == MoverElemento \/ SiguienteCadena \/ FinDelResize

Next ==
  \/ \E k \in Claves, d \in Datos : Put(k, d)
  \/ \E k \in Claves : Get(k) \/ HasKey(k) \/ Remove(k)
  \/ Clean
  \/ PasoDelResize

Spec == Init /\ [][Next]_vars

-----------------------------------------------------------------------------
(* Properties *)

EsTabla(t, n) ==
  /\ DOMAIN t = 0 .. n - 1
  /\ \A j \in 0 .. n - 1 : t[j] \in Seq(Elementos)

TypeOK ==
  /\ table_max_size \in Nat \ {0}
  /\ EsTabla(elements, table_max_size)
  /\ table_current_size \in Nat
  /\ elements_amount \in Nat
  /\ EsTabla(new_table, IF pc = "resize" THEN 2 * table_max_size ELSE 0)
  /\ table_index \in 0 .. table_max_size
  /\ pc \in {"libre", "resize"}
  /\ ret \in Datos \cup {NULL, "true", "false"}
  /\ nulos \in 0 .. MaxNulos

\* The places an element can be in: bucket and position.
Lugares(t) == UNION {{<<j, p>> : p \in DOMAIN t[j]} : j \in DOMAIN t}
En(t, l) == t[l[1]][l[2]]

\* Every element is in the bucket its hash code gives for the size its table
\* has (the new one while it moves), and no two elements share a hash code.
BienUbicados ==
  /\ \A l \in Lugares(elements) : En(elements, l).hashcode % table_max_size = l[1]
  /\ \A l \in Lugares(new_table) :
       En(new_table, l).hashcode % (2 * table_max_size) = l[1]
  /\ \A l, m \in Lugares(elements) :
       En(elements, l).hashcode = En(elements, m).hashcode => l = m
  /\ \A l, m \in Lugares(new_table) :
       En(new_table, l).hashcode = En(new_table, m).hashcode => l = m
  /\ \A l \in Lugares(elements), m \in Lugares(new_table) :
       En(elements, l).hashcode # En(new_table, m).hashcode

Usadas(t) == {j \in DOMAIN t : t[j] # << >>}

\* The table being filled, and the elements that dictionary_put has counted: the one that
\* started a resize is counted when it ends.
Llenandose == IF pc = "resize" THEN new_table ELSE elements
Contados ==
  Cardinality(Lugares(elements)) + Cardinality(Lugares(new_table))
    - (IF pc = "resize" THEN 1 ELSE 0)

\* table_current_size counts the buckets in use of the table being filled, and one
\* stays free, so that removals and insertions can not skip the test that starts a
\* resize.  dictionary_size answers the number of elements, also of those on their way
\* to the new table, as long as no element with a NULL was removed; from then on,
\* against dictionary.h:96-99, it answers more, until the dictionary is cleaned.
CuentasExactas ==
  /\ table_current_size = Cardinality(Usadas(Llenandose))
  /\ pc = "libre" => table_current_size < table_max_size
  /\ elements_amount >= Contados
  /\ elements_amount = Contados <=> nulos = 0

-----------------------------------------------------------------------------
(* The map a caller sees: an element counts wherever the resize has it. *)

Ausente == "ausente"

Todos == {En(elements, l) : l \in Lugares(elements)}
           \cup {En(new_table, l) : l \in Lugares(new_table)}

contenido ==
  [k \in Claves |->
     IF \E e \in Todos : e.key = k
       THEN (CHOOSE e \in Todos : e.key = k).data ELSE Ausente]

Mapa == INSTANCE Mapa

\* Another key with the hash code of k is in the dictionary.
Confundida(k) == \E e \in Todos : e.hashcode = Hash[k] /\ e.key # k

Llamada(k) == (\E d \in Datos : Put(k, d)) \/ Get(k) \/ HasKey(k) \/ Remove(k)

\* What a call for such a key does is in no promise of dictionary.h (put overwrites the
\* datum of the other key, get answers it), but it is of no matter to any third one.
LlamadaConfundida(k) ==
  /\ Confundida(k) /\ Llamada(k)
  /\ \A j \in Claves : Hash[j] # Hash[k] => contenido'[j] = contenido[j]

\* The dictionary implements the map from keys to data of dictionary.h, and no operation
\* sees or causes a loss while elements change table; the only calls that are not those
\* of a map are for a key whose hash code another key in the dictionary has.
ImplementaMapa ==
  Mapa!Init /\ [][Mapa!Next \/ \E k \in Claves : LlamadaConfundida(k)]_<<contenido, ret>>
=============================================================================
