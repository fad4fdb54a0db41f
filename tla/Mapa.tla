-------------------------------- MODULE Mapa --------------------------------
(***************************************************************************)
(* What dictionary.h of the commons library promises: a map from keys to   *)
(* data, changed and read in one step each.                                *)
(***************************************************************************)
CONSTANTS Claves, Datos, NULL, Ausente

VARIABLES contenido, ret

vars == <<contenido, ret>>

Init ==
  /\ contenido = [k \in Claves |-> Ausente]
  /\ ret = NULL

Put(k, d) ==
  /\ contenido' = [contenido EXCEPT ![k] = d]
  /\ UNCHANGED ret

DatoDe(k) == IF contenido[k] = Ausente THEN NULL ELSE contenido[k]

Get(k) ==
  /\ ret' = DatoDe(k)
  /\ UNCHANGED contenido

HasKey(k) ==
  /\ ret' = IF contenido[k] = Ausente THEN "false" ELSE "true"
  /\ UNCHANGED contenido

Remove(k) ==
  /\ ret' = DatoDe(k)
  /\ contenido' = [contenido EXCEPT ![k] = Ausente]

Clean ==
  /\ contenido' = [k \in Claves |-> Ausente]
  /\ UNCHANGED ret

Next ==
  \/ \E k \in Claves, d \in Datos : Put(k, d)
  \/ \E k \in Claves : Get(k) \/ HasKey(k) \/ Remove(k)
  \/ Clean

Spec == Init /\ [][Next]_vars
=============================================================================
