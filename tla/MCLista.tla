------------------------------- MODULE MCLista ------------------------------
EXTENDS Lista, TLC

\* The addresses are interchangeable.
Simetria == Permutations(Nodos)
=============================================================================
