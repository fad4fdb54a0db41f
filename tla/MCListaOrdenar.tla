--------------------------- MODULE MCListaOrdenar --------------------------
EXTENDS ListaOrdenar

MCValores == 1 .. 3
MCMenorOIgual == {p \in MCValores \X MCValores : p[1] <= p[2]}
=============================================================================
