---------------------------- MODULE MCMdjVolumen ----------------------------
(* The volume of the MDJ with a few blocks of two bytes.                   *)
EXTENDS MdjVolumen

RutasMC == {<<"a">>, <<"b">>, <<"Archivos", "a">>}
=============================================================================
