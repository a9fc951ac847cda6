------------------------------- MODULE MCWire -------------------------------
(* Every instruction of both programs, from every form of caller, with any one *)
(* builder field left unset.                                                   *)
EXTENDS Wire
=============================================================================
