--------------------------- MODULE MCPersistence ---------------------------
(* Instances of Persistence for TLC. *)
EXTENDS Persistence, TLC

CONSTANTS v, m, s

\* A member with its score; a stream whose entry was delivered twice.
OneMember == {m :> 1}
Delivered == {[type |-> "stream", entries |-> {1}, last_id |-> 2, last_delivered |-> 1,
               pending |-> 1 :> [count |-> 2, idle |-> 1]]}

=============================================================================
