------------------------------ MODULE MCFm9Tpi ------------------------------
(* Five frames: the first is never used and those from 3 on are past the end   *)
(* of the memory.  5 is the entry past the table that buscarFrame looks at all *)
(* the same, and the hash code of pid 5; 6 is that of pid 11.                  *)
EXTENDS Fm9Tpi

CONSTANTS v, w

MCLibres == {{}, {5}}
=============================================================================
