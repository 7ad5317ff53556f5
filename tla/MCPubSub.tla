------------------------------ MODULE MCPubSub ------------------------------
(* An instance of PubSub for TLC. *)
EXTENDS PubSub, TLC

CONSTANTS a, p, o1, t1

\* The pattern p matches the channel a.
MCMatching == {<<p, a>>}

OneTask == t1 :> o1

=============================================================================
