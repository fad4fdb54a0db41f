---------------------------- MODULE MCDiccionario ---------------------------
(* Keys that share a bucket at every size ("a", "i"), only while the table *)
(* is small ("a", "c") or the hash code itself ("c", "otra").              *)
EXTENDS Diccionario

ClavesMC == {"a", "b", "c", "d", "i", "otra"}
HashMC == [a |-> 0, b |-> 1, c |-> 2, d |-> 3, i |-> 8, otra |-> 2]
=============================================================================
