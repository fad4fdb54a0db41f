----------------------------- MODULE Seleccion ------------------------------
(* The part of a sequence that a condition, given as a set, lets through.    *)
EXTENDS Integers, Sequences

\* Of the last n elements of s, those in C, in their order.
UltimosQue(s, C, n) ==
  LET F[k \in Nat] ==
        IF k = 0 THEN << >>
        ELSE (IF s[Len(s) - k + 1] \in C THEN <<s[Len(s) - k + 1]>> ELSE << >>) \o F[k - 1]
  IN  F[n]

LosQue(s, C) == UltimosQue(s, C, Len(s))
=============================================================================
