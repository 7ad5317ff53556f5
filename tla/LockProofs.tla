----------------------------- MODULE LockProofs -----------------------------
(* Proofs about LockClient: mutual exclusion until the TTL ends, and releases  *)
(* that report honestly, for any number of tasks, Lock objects and tokens.     *)
EXTENDS LockClient, TLAPS

(* No two objects have the same token.                                         *)
TokensDiffer ==
    \A o, p \in Objects : token[o] # None /\ token[o] = token[p] => o = p

(* A holder's token is in the object it used.                                  *)
HolderHasToken ==
    \A t \in Tasks : Holding(t) =>
        /\ task[t].obj \in Uses[t]
        /\ task[t].token \in Tokens
        /\ token[task[t].obj] = task[t].token

(* The token of a waiting task is nobody else's yet.                           *)
WaiterIsFresh ==
    \A t \in Tasks : task[t].pc = "trying" =>
        /\ task[t].obj \in Uses[t]
        /\ task[t].token \in Tokens
        /\ key.held => key.token # task[t].token
        /\ \A o \in Objects : token[o] # task[t].token
        /\ \A u \in Tasks \ {t} : task[u].token # task[t].token

(* The lock is a holder's exactly until its TTL ends.                          *)
HeldUntilLate ==
    \A t \in Tasks : Holding(t) =>
        (~task[t].late <=> (Live /\ key.token = task[t].token))

(* Another grant means that the TTL had ended.                                 *)
LappedIsLate ==
    \A t \in Tasks : Holding(t) /\ task[t].lapped => task[t].late

IndInv ==
    /\ TypeOK
    /\ TokensDiffer
    /\ HolderHasToken
    /\ WaiterIsFresh
    /\ HeldUntilLate
    /\ LappedIsLate
    /\ ReleaseTellsTruth

\* It holds initially.
LEMMA InitHolds == Init => IndInv
  BY ConstantsAssumption
  DEF Init, IndInv, TypeOK, TokensDiffer, HolderHasToken, WaiterIsFresh, HeldUntilLate,
      LappedIsLate, ReleaseTellsTruth, Key, Free, Task, Idle, Holding

(* What a grant does to the invariant, on the first attempt or on a later one.  *)
LEMMA GrantKeeps ==
  ASSUME IndInv, NEW t \in Tasks, NEW o \in Uses[t], NEW k \in Tokens,
         Granted(t, o, k), ~Holding(t),
         key.held => key.token # k,
         \A p \in Objects : token[p] # k,
         \A u \in Tasks \ {t} : task[u].token # k
  PROVE  IndInv'
<1>0. o \in Objects
  BY ConstantsAssumption
<1>1. /\ key' = [held |-> TRUE, token |-> k, ttl |-> TtlOf(o)]
      /\ ~Live
      /\ token' = [token EXCEPT ![o] = k]
  BY DEF Granted, SetNx
<1>2. /\ task'[t] = [pc |-> "holding", obj |-> o, token |-> k, deadline |-> "none",
                     late |-> FALSE, lapped |-> FALSE]
      /\ \A u \in Tasks \ {t} :
             task'[u] = [task[u] EXCEPT !.lapped = @ \/ Holding(u)]
  BY DEF Granted, Idle
<1>3. \A u \in Tasks \ {t} :
          /\ task'[u].pc = task[u].pc
          /\ task'[u].obj = task[u].obj
          /\ task'[u].token = task[u].token
          /\ task'[u].late = task[u].late
          /\ task'[u].lapped = (task[u].lapped \/ Holding(u))
  <2> TAKE u \in Tasks \ {t}
  <2>1. task[u] \in Task
    BY DEF IndInv, TypeOK
  <2>2. task'[u] = [task[u] EXCEPT !.lapped = task[u].lapped \/ Holding(u)]
    BY <1>2
  <2> QED BY <2>1, <2>2 DEF Task
<1>4. TypeOK'
  <2>1. key' \in Key
    BY <1>1 DEF Key, TtlOf, Ttls
  <2>2. token' \in [Objects -> Tokens \cup {None}]
    BY <1>1 DEF IndInv, TypeOK
  <2>3. ASSUME NEW u \in Tasks
        PROVE  task'[u] \in Task
    <3>1. CASE u = t
      <4>1. task'[u] = [pc |-> "holding", obj |-> o, token |-> k, deadline |-> "none",
                        late |-> FALSE, lapped |-> FALSE]
        BY <1>2, <3>1
      <4> QED BY <1>0, <4>1 DEF Task
    <3>2. CASE u # t
      <4> DEFINE b == task[u].lapped \/ Holding(u)
      <4>1. b \in BOOLEAN
        OBVIOUS
      <4>2. task[u] \in Task
        BY DEF IndInv, TypeOK
      <4>3. task'[u] = [task[u] EXCEPT !.lapped = b]
        BY <1>2, <3>2
      <4> HIDE DEF b
      <4> QED BY <4>1, <4>2, <4>3 DEF Task
    <3> QED BY <3>1, <3>2
  <2>4. task' \in [Tasks -> Task]
    BY <2>3 DEF Granted
  <2> QED BY <2>1, <2>2, <2>4 DEF TypeOK
<1>5. TokensDiffer'
  BY <1>0, <1>1 DEF IndInv, TypeOK, TokensDiffer
<1>6. HolderHasToken'
  <2>1. \A u \in Tasks \ {t} : o \notin Uses[u]
    BY ConstantsAssumption
  <2>2. \A u \in Tasks : Uses[u] \subseteq Objects
    BY ConstantsAssumption
  <2> QED BY <1>0, <1>1, <1>2, <1>3, <2>1, <2>2 DEF IndInv, TypeOK, HolderHasToken, Holding
<1>7. WaiterIsFresh'
  BY <1>0, <1>1, <1>2, <1>3 DEF IndInv, TypeOK, WaiterIsFresh
<1>8. HeldUntilLate'
  BY <1>1, <1>2, <1>3 DEF IndInv, HeldUntilLate, Holding, Live, TtlOf
<1>9. LappedIsLate'
  BY <1>1, <1>2, <1>3 DEF IndInv, HeldUntilLate, LappedIsLate, Holding
<1>10. ReleaseTellsTruth'
  <2> SUFFICES ASSUME NEW u \in Tasks, task'[u].pc = "released"
               PROVE  ~task'[u].lapped
    BY DEF ReleaseTellsTruth
  <2>1. u # t
    BY <1>2
  <2>2. task[u].pc = "released" /\ ~Holding(u)
    BY <1>3, <2>1 DEF Holding
  <2>3. ~task[u].lapped
    BY <2>2 DEF IndInv, ReleaseTellsTruth
  <2> QED BY <1>3, <2>1, <2>2, <2>3
<1> QED BY <1>4, <1>5, <1>6, <1>7, <1>8, <1>9, <1>10 DEF IndInv

(* A step that changes one task, to one that is at rest, and nothing else.      *)
LEMMA RestKeeps ==
  ASSUME IndInv, NEW t \in Tasks, NEW r \in Task,
         r.pc \in {"idle", "refused"}, r.token = None,
         task' = [task EXCEPT ![t] = r], UNCHANGED <<key, token>>
  PROVE  IndInv'
<1>1. task'[t] = r /\ \A u \in Tasks \ {t} : task'[u] = task[u]
  BY DEF IndInv, TypeOK
<1>2. TypeOK'
  BY DEF IndInv, TypeOK
<1>3. TokensDiffer'
  BY DEF IndInv, TokensDiffer
<1>4. HolderHasToken'
  BY <1>1 DEF IndInv, HolderHasToken, Holding
<1>5. WaiterIsFresh'
  BY <1>1, ConstantsAssumption DEF IndInv, WaiterIsFresh
<1>6. HeldUntilLate'
  BY <1>1 DEF IndInv, HeldUntilLate, Holding, Live
<1>7. LappedIsLate'
  BY <1>1 DEF IndInv, LappedIsLate, Holding
<1>8. ReleaseTellsTruth'
  BY <1>1 DEF IndInv, ReleaseTellsTruth
<1> QED BY <1>2, <1>3, <1>4, <1>5, <1>6, <1>7, <1>8 DEF IndInv

\* An acquire that did not get the lock and begins to wait.
LEMMA WaitKeeps ==
  ASSUME IndInv, NEW t \in Tasks, NEW o \in Objects, NEW k \in Tokens,
         NEW d \in {"none", "open"}, AcquireWaits(t, o, k, d)
  PROVE  IndInv'
<1> DEFINE r == [pc |-> "trying", obj |-> o, token |-> k, deadline |-> d,
                 late |-> FALSE, lapped |-> FALSE]
<1>1. task'[t] = r /\ \A u \in Tasks \ {t} : task'[u] = task[u]
  BY DEF IndInv, TypeOK, AcquireWaits, Idle
<1>2. UNCHANGED <<key, token>> /\ o \in Uses[t] /\ Unused(k) /\ AtRest(t)
  BY DEF AcquireWaits
<1>3. TypeOK'
  <2>1. r \in Task
    BY DEF Task
  <2> QED BY <1>2, <2>1 DEF IndInv, TypeOK, AcquireWaits, Idle
<1>4. TokensDiffer'
  BY <1>2 DEF IndInv, TokensDiffer
<1>5. HolderHasToken'
  BY <1>1, <1>2 DEF IndInv, HolderHasToken, Holding
<1>6. WaiterIsFresh'
  BY <1>1, <1>2 DEF IndInv, WaiterIsFresh, Unused
<1>7. HeldUntilLate'
  BY <1>1, <1>2 DEF IndInv, HeldUntilLate, Holding, Live
<1>8. LappedIsLate'
  BY <1>1 DEF IndInv, LappedIsLate, Holding
<1>9. ReleaseTellsTruth'
  BY <1>1 DEF IndInv, ReleaseTellsTruth
<1> QED BY <1>3, <1>4, <1>5, <1>6, <1>7, <1>8, <1>9 DEF IndInv

(* The script deletes the key: it was the caller's, and no other holder's.      *)
LEMMA ReleaseKeeps ==
  ASSUME IndInv, NEW t \in Tasks, NEW o \in Objects, ReleaseOwned(t, o)
  PROVE  IndInv'
<1>1. /\ o \in Uses[t]
      /\ Live
      /\ token[o] # None
      /\ key.token = token[o]
      /\ key' = Free
      /\ token' = [token EXCEPT ![o] = None]
      /\ AtRest(t) \/ (Holding(t) /\ task[t].obj = o)
  BY DEF ReleaseOwned, Owned
<1>2. \A u \in Tasks \ {t} : task'[u] = task[u]
  BY DEF ReleaseOwned, IndInv, TypeOK
<1>3. /\ Holding(t) => /\ task'[t].pc = "released"
                       /\ task'[t].token = None
                       /\ task'[t].lapped = task[t].lapped
      /\ ~Holding(t) => task'[t] = task[t]
  BY DEF ReleaseOwned, IndInv, TypeOK, Task
<1>4. \A u \in Tasks \ {t} : o \notin Uses[u]
  BY <1>1, ConstantsAssumption
<1>5. \A u \in Tasks : Uses[u] \subseteq Objects
  BY ConstantsAssumption
<1>6. TypeOK'
  <2>1. key' \in Key
    BY <1>1 DEF Key
  <2>2. token' \in [Objects -> Tokens \cup {None}]
    BY <1>1 DEF IndInv, TypeOK
  <2>3. task' \in [Tasks -> Task]
    <3> DEFINE new == IF Holding(t) THEN [task[t] EXCEPT !.pc = "released", !.token = None]
                      ELSE task[t]
    <3>1. task \in [Tasks -> Task] /\ task' = [task EXCEPT ![t] = new]
      BY DEF ReleaseOwned, IndInv, TypeOK
    <3>2. new \in Task
      BY <3>1 DEF Task
    <3> HIDE DEF new
    <3> QED BY <3>1, <3>2
  <2> QED BY <2>1, <2>2, <2>3 DEF TypeOK
<1>7. TokensDiffer'
  BY <1>1 DEF IndInv, TypeOK, TokensDiffer
<1>8. HolderHasToken'
  BY <1>1, <1>2, <1>3, <1>4, <1>5 DEF IndInv, TypeOK, HolderHasToken, Holding, AtRest
<1>9. WaiterIsFresh'
  BY <1>1, <1>2, <1>3, ConstantsAssumption
  DEF IndInv, TypeOK, WaiterIsFresh, Holding, AtRest, Free
<1>10. HeldUntilLate'
  <2>1. ASSUME NEW u \in Tasks, Holding(u)', ~task'[u].late
        PROVE  FALSE
    <3>1. u # t
      BY <1>1, <1>3, <2>1 DEF Holding, AtRest
    <3>2. key.token = task[u].token /\ task[u].obj \in Uses[u]
      BY <1>2, <2>1, <3>1 DEF IndInv, HeldUntilLate, HolderHasToken, Holding
    <3>3. token[task[u].obj] = token[o] /\ task[u].obj \in Objects
      BY <1>1, <1>2, <1>5, <2>1, <3>1, <3>2 DEF IndInv, HolderHasToken, Holding
    <3> QED BY <1>1, <1>4, <3>1, <3>2, <3>3 DEF IndInv, TokensDiffer
  <2> QED BY <1>1, <2>1 DEF HeldUntilLate, Live, Free
<1>11. LappedIsLate'
  BY <1>1, <1>2, <1>3 DEF IndInv, LappedIsLate, Holding, AtRest
<1>12. ReleaseTellsTruth'
  <2>1. Holding(t) => ~task[t].lapped
    BY <1>1 DEF IndInv, HeldUntilLate, LappedIsLate, HolderHasToken, Holding, AtRest
  <2> QED BY <1>2, <1>3, <2>1 DEF IndInv, ReleaseTellsTruth
<1> QED BY <1>6, <1>7, <1>8, <1>9, <1>10, <1>11, <1>12 DEF IndInv

\* The clock reaches a deadline.
LEMMA DeadlineKeeps ==
  ASSUME IndInv, NEW t \in Tasks, DeadlinePasses(t)
  PROVE  IndInv'
<1>1. /\ task[t].pc = "trying"
      /\ task' = [task EXCEPT ![t].deadline = "passed"]
      /\ UNCHANGED <<key, token>>
  BY DEF DeadlinePasses
<1>2. \A u \in Tasks : /\ task'[u].pc = task[u].pc
                       /\ task'[u].obj = task[u].obj
                       /\ task'[u].token = task[u].token
                       /\ task'[u].late = task[u].late
                       /\ task'[u].lapped = task[u].lapped
  BY <1>1 DEF IndInv, TypeOK, Task
<1>3. TypeOK'
  BY <1>1 DEF IndInv, TypeOK, Task
<1> QED
  BY <1>1, <1>2, <1>3
  DEF IndInv, TokensDiffer, HolderHasToken, WaiterIsFresh, HeldUntilLate, LappedIsLate,
      ReleaseTellsTruth, Holding, Live

(* The TTL ends: whoever had the lock is late, and nobody else was in time.     *)
LEMMA TtlKeeps ==
  ASSUME IndInv, TtlEnds
  PROVE  IndInv'
<1>1. /\ key.held
      /\ key.ttl = "running"
      /\ key' = [key EXCEPT !.ttl = "over"]
      /\ token' = token
  BY DEF TtlEnds
<1>2. key' = [held |-> TRUE, token |-> key.token, ttl |-> "over"] /\ key.token \in Tokens
  <2>1. key # Free
    BY <1>1 DEF Free
  <2>2. key \in [held : {TRUE}, token : Tokens, ttl : Ttls]
    BY <2>1 DEF IndInv, TypeOK, Key
  <2> QED BY <1>1, <2>2
<1>3. \A u \in Tasks : /\ task'[u].pc = task[u].pc
                       /\ task'[u].obj = task[u].obj
                       /\ task'[u].token = task[u].token
                       /\ task'[u].lapped = task[u].lapped
                       /\ task'[u].late =
                            (task[u].late \/ (Holding(u) /\ task[u].token = key.token))
  BY DEF TtlEnds, IndInv, TypeOK, Task
<1>4. TypeOK'
  <2>1. \A u \in Tasks : task'[u] \in Task
    BY DEF TtlEnds, IndInv, TypeOK, Task, Holding
  <2>2. task' \in [Tasks -> Task]
    BY <2>1 DEF TtlEnds
  <2> QED BY <1>1, <1>2, <2>2 DEF IndInv, TypeOK, Key, Ttls
<1>5. HeldUntilLate'
  BY <1>2, <1>3 DEF IndInv, HeldUntilLate, Holding, Live
<1>6. LappedIsLate'
  BY <1>3 DEF IndInv, LappedIsLate, Holding
<1> QED
  BY <1>1, <1>2, <1>3, <1>4, <1>5, <1>6
  DEF IndInv, TokensDiffer, HolderHasToken, WaiterIsFresh, ReleaseTellsTruth, Holding

\* The key expires.
LEMMA ExpiryKeeps ==
  ASSUME IndInv, Expires
  PROVE  IndInv'
<1>1. key' = Free /\ ~Live /\ UNCHANGED <<token, task>>
  BY DEF Expires, Live
<1> QED
  BY <1>1
  DEF IndInv, TypeOK, TokensDiffer, HolderHasToken, WaiterIsFresh, HeldUntilLate, LappedIsLate,
      ReleaseTellsTruth, Holding, Live, Key, Free

\* Every step keeps the invariant.
LEMMA StepKeeps == IndInv /\ [Next]_vars => IndInv'
<1> SUFFICES ASSUME IndInv, [Next]_vars
             PROVE  IndInv'
  OBVIOUS
<1>1. ASSUME NEW t \in Tasks, NEW o \in Objects, NEW k \in Tokens, AcquireAtOnce(t, o, k)
      PROVE  IndInv'
  BY <1>1, GrantKeeps DEF AcquireAtOnce, Unused, AtRest, Holding
<1>2. ASSUME NEW t \in Tasks, RetryGranted(t)
      PROVE  IndInv'
  <2>1. /\ task[t].obj \in Uses[t]
        /\ task[t].token \in Tokens
        /\ ~Holding(t)
        /\ key.held => key.token # task[t].token
        /\ \A p \in Objects : token[p] # task[t].token
        /\ \A u \in Tasks \ {t} : task[u].token # task[t].token
    BY <1>2 DEF IndInv, WaiterIsFresh, RetryGranted, Holding
  <2> QED BY <1>2, <2>1, GrantKeeps DEF RetryGranted
<1>3. Idle \in Task
  BY DEF Idle, Task
<1>4. ASSUME NEW t \in Tasks, RetryFails(t) \/ Cancelled(t)
      PROVE  IndInv'
  BY <1>3, <1>4, RestKeeps DEF RetryFails, Cancelled, Idle
<1>5. ASSUME NEW t \in Tasks, NEW o \in Objects, ReleaseRefused(t, o)
      PROVE  IndInv'
  <2> DEFINE r == [task[t] EXCEPT !.pc = "refused", !.token = None]
  <2>1. r \in Task /\ r.pc = "refused" /\ r.token = None
    BY DEF IndInv, TypeOK, Task
  <2>2. task' = [task EXCEPT ![t] = r] /\ UNCHANGED <<key, token>>
    BY <1>5 DEF ReleaseRefused
  <2> QED BY <2>1, <2>2, RestKeeps
<1>6. ASSUME UNCHANGED vars
      PROVE  IndInv'
  BY <1>6
  DEF vars, IndInv, TypeOK, TokensDiffer, HolderHasToken, WaiterIsFresh, HeldUntilLate,
      LappedIsLate, ReleaseTellsTruth, Holding, Live
<1> QED
  BY <1>1, <1>2, <1>4, <1>5, <1>6, WaitKeeps, ReleaseKeeps, DeadlineKeeps, TtlKeeps, ExpiryKeeps
  DEF Next, Acquire, Retry, Release

\* The invariant holds in every reachable state.
LEMMA IndInvAlways == Spec => []IndInv
<1>1. Init => IndInv
  BY InitHolds
<1>2. IndInv /\ [Next]_vars => IndInv'
  BY StepKeeps
<1> QED BY <1>1, <1>2, PTL DEF Spec

(* Two tasks never hold the lock both in time: SET NX admits one, and the      *)
(* script of a late holder frees nobody else's lock.                           *)
THEOREM LockExcludes == Spec => []MutualExclusion
<1>1. IndInv => MutualExclusion
  <2> SUFFICES ASSUME IndInv, NEW t \in Tasks, NEW u \in Tasks, t # u,
                      Holding(t), ~task[t].late, Holding(u), ~task[u].late
               PROVE  FALSE
    BY DEF MutualExclusion
  <2>1. task[t].token = task[u].token
    BY DEF IndInv, HeldUntilLate
  <2>2. /\ task[t].obj \in Uses[t] /\ task[u].obj \in Uses[u]
        /\ token[task[t].obj] = token[task[u].obj]
        /\ token[task[t].obj] \in Tokens
    BY <2>1 DEF IndInv, HolderHasToken
  <2>3. task[t].obj \in Objects /\ task[u].obj \in Objects /\ task[t].obj # task[u].obj
    BY <2>2, ConstantsAssumption
  <2> QED BY <2>2, <2>3, ConstantsAssumption DEF IndInv, TokensDiffer
<1> QED BY <1>1, IndInvAlways, PTL

(* A release without LockError: nobody else was granted the lock meanwhile.    *)
THEOREM ReleasesAreHonest == Spec => []ReleaseTellsTruth
<1>1. IndInv => ReleaseTellsTruth
  BY DEF IndInv
<1> QED BY <1>1, IndInvAlways, PTL

=============================================================================
