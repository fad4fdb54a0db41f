-------------------------- MODULE MCSafaArchivos ----------------------------
(* Two names that differ in the case, and one process for each role: who has a *)
(* file and two who wait for it.                                               *)
EXTENDS SafaArchivos, TLC

CONSTANTS a, A

MCMinusculas == [f \in Archivos |-> a]

Simetria == Permutations(Procesos)
=============================================================================
