----------------------------- MODULE MCKeyspace -----------------------------
(* A small instance of Keyspace. *)
EXTENDS Keyspace

CONSTANTS i1, i2

=============================================================================
