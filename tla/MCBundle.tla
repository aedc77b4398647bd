------------------------------ MODULE MCBundle ------------------------------
(* Bundle on every state of two accounts with two slots and one code: the  *)
(* code may be shared, and every kind of record occurs in every place.     *)
EXTENDS Bundle
=============================================================================
