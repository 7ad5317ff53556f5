-------------------------- MODULE MCPythonClients --------------------------
(* The two clients that are written in Python, for TLC: a behaviour is one of  *)
(* LockClient or one of Pipeline, while the variables of the other stay as     *)
(* they were.                                                                  *)
EXTENDS LockClient, Pipeline, TLC

CONSTANTS t1, t2, o1, o2, o3

\* The first task has a lock with a timeout and one without.
MCUses == t1 :> {o1, o3} @@ t2 :> {o2}

ClientsInit == Init /\ PipelineInit

ClientsNext ==
    \/ PipelineInit /\ Next /\ UNCHANGED pipeline
    \/ Init /\ PipelineNext /\ UNCHANGED vars

ClientsSpec == ClientsInit /\ [][ClientsNext]_<<vars, pipeline>> /\ Fairness

=============================================================================
