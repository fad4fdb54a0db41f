------------------------------ MODULE Almacen -------------------------------
(***************************************************************************)
(* What the volume of the MDJ promises about its archivos, without Bitmap, *)
(* block files, handlers or start-up: an archivo is emptied, then filled   *)
(* in one step with as many different blocks as its size needs, none of    *)
(* them of another archivo.  Only that last promise ends when the          *)
(* allocation record is lost.                                              *)
(***************************************************************************)
EXTENDS Integers, Sequences

CONSTANTS Archivos, Tamanios, CantidadBloques, TamanioBloques

VARIABLES archivos, perdido

vars == <<archivos, perdido>>

Nada(e) == [estado |-> e, tamanio |-> 0, bloques |-> << >>]

SonDe(b, a) == \E k \in DOMAIN archivos[a].bloques : archivos[a].bloques[k] = b

Init ==
  /\ archivos = [a \in Archivos |-> Nada("ausente")]
  /\ perdido = FALSE

Vaciar(a) ==
  /\ archivos' = [archivos EXCEPT ![a] = Nada("vacio")]
  /\ UNCHANGED perdido

\* n bytes fit in bs, and not in one block less.
Alcanzan(n, bs) ==
  /\ n <= Len(bs) * TamanioBloques
  /\ bs # << >> => (Len(bs) - 1) * TamanioBloques < n

Llenar(a, n, bs) ==
  /\ archivos[a] = Nada("vacio")
  /\ Alcanzan(n, bs)
  /\ \A j, k \in DOMAIN bs : j # k => bs[j] # bs[k]
  /\ ~perdido => \A otro \in Archivos : \A k \in DOMAIN bs : ~SonDe(bs[k], otro)
  /\ archivos' = [archivos EXCEPT
                    ![a] = [estado |-> "guardado", tamanio |-> n, bloques |-> bs]]
  /\ UNCHANGED perdido

PerderRegistro ==
  /\ perdido' = TRUE
  /\ UNCHANGED archivos

\* The sequences of blocks an archivo may have.
Listas == UNION {[1 .. n -> 0 .. CantidadBloques - 1] : n \in 0 .. CantidadBloques}

Next ==
  \/ \E a \in Archivos : Vaciar(a)
  \/ \E a \in Archivos, n \in Tamanios, bs \in Listas : Llenar(a, n, bs)
  \/ PerderRegistro

Spec == Init /\ [][Next]_vars
=============================================================================
