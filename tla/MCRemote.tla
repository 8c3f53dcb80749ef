------------------------------- MODULE MCRemote -------------------------------
(* Instances of Remote for TLC: a first call whose payload survives the      *)
(* journey and a second one whose payload does not.                          *)
EXTENDS Remote

Mixed == <<"registered", "unmarshalable">>
===============================================================================
