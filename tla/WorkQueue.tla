----------------------------- MODULE WorkQueue -----------------------------
(***************************************************************************)
(* What a consumer group promises its users, with no streams, ids, lists   *)
(* of pending entries or cursors in it: jobs that are handed out once, to  *)
(* one worker, that stay with a worker until they are done, may change     *)
(* hands, and never come back when they are done.  ConsumerGroups          *)
(* implements it: XREADGROUP hands out, XCLAIM and XAUTOCLAIM reassign,    *)
(* XACK finishes; XADD, XTRIM, XDEL and time do nothing to it.             *)
(***************************************************************************)
CONSTANTS
    Groups,     \* each has all the jobs to itself
    Workers,
    Jobs

VARIABLES
    holders,    \* group -> job -> {its worker}, or {}
    done        \* group -> the jobs that are done

vars == <<holders, done>>

Init ==
    /\ holders = [g \in Groups |-> [j \in Jobs |-> {}]]
    /\ done = [g \in Groups |-> {}]

\* Nothing happens to the other groups.
Only(g) ==
    /\ holders' \in [Groups -> [Jobs -> SUBSET Workers]]
    /\ done' \in [Groups -> SUBSET Jobs]
    /\ \A h \in Groups \ {g} : holders'[h] = holders[h] /\ done'[h] = done[h]

\* Some jobs nobody holds, and that are not done, go to one worker.
HandOut(g) ==
    /\ Only(g)
    /\ done'[g] = done[g]
    /\ \E w \in Workers : \A j \in Jobs :
          \/ holders'[g][j] = holders[g][j]
          \/ holders[g][j] = {} /\ j \notin done[g] /\ holders'[g][j] = {w}

\* Some jobs that are held go to one worker.
Reassign(g) ==
    /\ Only(g)
    /\ done'[g] = done[g]
    /\ \E w \in Workers : \A j \in Jobs :
          \/ holders'[g][j] = holders[g][j]
          \/ holders[g][j] # {} /\ holders'[g][j] = {w}

\* Some jobs that are held are done, and let go by all.
Finish(g) ==
    /\ Only(g)
    /\ \A j \in Jobs :
          \/ /\ holders'[g][j] = holders[g][j]
             /\ j \in done'[g] <=> j \in done[g]
          \/ /\ holders[g][j] # {}
             /\ holders'[g][j] = {}
             /\ j \in done'[g]

\* Groups start again.
Forget ==
    /\ holders' \in [Groups -> [Jobs -> SUBSET Workers]]
    /\ done' \in [Groups -> SUBSET Jobs]
    /\ \A g \in Groups :
          \/ holders'[g] = holders[g] /\ done'[g] = done[g]
          \/ (\A j \in Jobs : holders'[g][j] = {}) /\ done'[g] = {}

Next == (\E g \in Groups : HandOut(g) \/ Reassign(g) \/ Finish(g)) \/ Forget

Spec == Init /\ [][Next]_vars

=============================================================================
