---------------------------- MODULE ListaOrdenar ----------------------------
(***************************************************************************)
(* list_sort of src/Bibliotecas/commons/collections/list.c, the bubble     *)
(* sort with a shrinking end that customScheduler of the S-AFA orders the  *)
(* ready processes with, one comparison per step.  The list is its data in *)
(* order: previous_element is at position index + 1, cursor at index + 2   *)
(* and NULL past the last one.  The names of a specification (its initial  *)
(* states, its steps) have the prefix Ordenar, since the proofs have this  *)
(* module together with Lista.                                             *)
(***************************************************************************)
EXTENDS Integers

CONSTANTS
  Cantidad,     \* elements_count
  Valores,
  Comparador,   \* pairs for which comparator answers true
  MenorOIgual   \* the order it stands for: total, whether it is < or <=

ASSUME OrdenarConstantesOK ==
  /\ Cantidad \in Nat
  /\ MenorOIgual \subseteq Valores \X Valores
  /\ \A a, b, c \in Valores :
       <<a, b>> \in MenorOIgual /\ <<b, c>> \in MenorOIgual => <<a, c>> \in MenorOIgual
  /\ \A a, b \in Valores :
       IF <<a, b>> \in Comparador THEN <<a, b>> \in MenorOIgual
                                  ELSE <<b, a>> \in MenorOIgual

VARIABLES
  datos,     \* data of the list, by position
  original,  \* the list given
  puesto,    \* position each datum had in it (of the model, not of the code)
  unsorted_elements, sorted, index, last_changed,
  fase       \* "llamada", "pasada" or "listo"

ordenarVars == <<datos, original, puesto, unsorted_elements, sorted, index, last_changed, fase>>

Posiciones == 1 .. Cantidad

OrdenarInit ==
  /\ original \in [Posiciones -> Valores]
  /\ datos = original
  /\ puesto = [p \in Posiciones |-> p]
  /\ unsorted_elements = Cantidad
  /\ sorted = TRUE
  /\ index = 0 /\ last_changed = Cantidad
  /\ fase = "llamada"

Entrar ==
  /\ fase = "llamada"
  /\ fase' = IF Cantidad < 2 THEN "listo" ELSE "pasada"
  /\ UNCHANGED <<datos, original, puesto, unsorted_elements, sorted, index, last_changed>>

\* Variant: the pass stops while cursor still has a node to compare.
EnPasadaSinUltimo == index < unsorted_elements /\ index + 3 <= Cantidad

EnPasada == index < unsorted_elements /\ index + 2 <= Cantidad

Intercambiar(f) == [f EXCEPT ![index + 1] = f[index + 2], ![index + 2] = f[index + 1]]

EnOrden == <<datos[index + 1], datos[index + 2]>> \in Comparador

Cambiar ==
  /\ datos' = Intercambiar(datos)
  /\ puesto' = Intercambiar(puesto)
  /\ last_changed' = index
  /\ sorted' = FALSE

\* Variant: whatever is not strictly in order is exchanged.
CompararEstricto ==
  /\ fase = "pasada" /\ EnPasada
  /\ IF EnOrden /\ <<datos[index + 2], datos[index + 1]>> \notin MenorOIgual
       THEN UNCHANGED <<datos, puesto, last_changed, sorted>> ELSE Cambiar
  /\ index' = index + 1
  /\ UNCHANGED <<original, unsorted_elements, fase>>

Comparar ==
  /\ fase = "pasada" /\ EnPasada
  /\ IF EnOrden THEN UNCHANGED <<datos, puesto, last_changed, sorted>> ELSE Cambiar
  /\ index' = index + 1
  /\ UNCHANGED <<original, unsorted_elements, fase>>

\* Variant: the end shrinks one position too far.
LimiteCorto == last_changed - 1

Limite == last_changed

\* Variant: another pass follows whatever the last one did.
OtraPasadaSiempre == TRUE

OtraPasada == ~sorted

FinDePasada ==
  /\ fase = "pasada" /\ ~EnPasada
  /\ unsorted_elements' = Limite
  /\ IF OtraPasada
       THEN /\ sorted' = TRUE
            /\ index' = 0
            /\ last_changed' = Limite
            /\ UNCHANGED fase
       ELSE /\ fase' = "listo"
            /\ UNCHANGED <<sorted, index, last_changed>>
  /\ UNCHANGED <<datos, original, puesto>>

OrdenarNext == Entrar \/ Comparar \/ FinDePasada

OrdenarSpec == OrdenarInit /\ [][OrdenarNext]_ordenarVars

\* list_sort runs alone until it returns.
OrdenarFairSpec == OrdenarSpec /\ WF_ordenarVars(OrdenarNext)

-----------------------------------------------------------------------------
(* Properties *)

OrdenarTypeOK ==
  /\ datos \in [Posiciones -> Valores]
  /\ original \in [Posiciones -> Valores]
  /\ puesto \in [Posiciones -> Posiciones]
  /\ unsorted_elements \in 0 .. Cantidad
  /\ sorted \in BOOLEAN
  /\ index \in 0 .. Cantidad
  /\ last_changed \in 0 .. Cantidad
  /\ fase \in {"llamada", "pasada", "listo"}

\* list_sort returns the list in order, although each pass stops where the
\* last exchange of the one before was and never looks further.
Ordenada ==
  fase = "listo" =>
    \A p, q \in Posiciones : p < q => <<datos[p], datos[q]>> \in MenorOIgual

\* The data are those of the list given, each as many times as it was there.
MismosDatos ==
  /\ \A p \in Posiciones : datos[p] = original[puesto[p]]
  /\ \A p, q \in Posiciones : puesto[p] = puesto[q] => p = q

\* Equal data are in the order they came in, if the comparator answers true
\* for them.
IgualesEnOrden ==
  (MenorOIgual \subseteq Comparador) =>
    \A p, q \in Posiciones :
      p < q /\ <<datos[q], datos[p]>> \in MenorOIgual /\ <<datos[p], datos[q]>> \in MenorOIgual
        => puesto[p] < puesto[q]

\* list_sort only permutes the list, and with a comparator that answers true
\* for equal data, as that of customScheduler does, equal data keep their order:
\* processes with as many instructions left are served first come, first served.
Estable == MismosDatos /\ IgualesEnOrden

\* list_sort returns.
Termina == <>(fase = "listo")
=============================================================================
