---------------------------- MODULE MCClientServer ----------------------------
(* Small instances of ClientServer for TLC: the values are all in the cfgs. *)
EXTENDS ClientServerProperties, TLC

Interchangeable == Permutations(Conn)

===============================================================================
