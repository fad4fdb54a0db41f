----------------------------- MODULE MCCpuSafa ------------------------------
(* Scripts for CpuSafa: every one of up to two lines, "borrar" aside, which is *)
(* "crear" to the model, and those of three over the kinds that keep the       *)
(* dialogue going.                                                             *)
EXTENDS CpuSafa

Hasta(n, lineas) == UNION {[1 .. k -> lineas] : k \in 0 .. n}
MCGuiones == Hasta(2, Clases \ {"borrar"})
               \union Hasta(3, {"abrir", "asignar", "close", "crear", "vacia"})
=============================================================================
