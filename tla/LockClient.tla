----------------------------- MODULE LockClient -----------------------------
\* The lock of python/burner_redis/lock.py: a key holding a token, written by
\* SET NX PX and removed by a script that compares the token.  The client's
\* set and eval return resolved futures, which do not suspend the task, so an
\* attempt and a release are one step each; a task is suspended only in the
\* sleep between two attempts and while it holds the lock.
EXTENDS Naturals

CONSTANTS
    Tasks,      \* asyncio tasks that compete for one lock name
    Objects,    \* Lock objects of that name
    Uses,       \* Uses[t]: the objects task t calls; no two tasks share one
    Timed,      \* objects created with a timeout
    Tokens,     \* uuids; enough of them that one is always unused
    None        \* Python's None

ASSUME ConstantsAssumption ==
    /\ Uses \in [Tasks -> SUBSET Objects]
    /\ \A t, u \in Tasks : t # u => Uses[t] \cap Uses[u] = {}
    /\ Timed \subseteq Objects
    /\ None \notin Tokens

VARIABLES
    key,        \* the key of the lock, as the store holds it
    token,      \* token[o]: self.token of object o
    task        \* task[t]: where task t is

vars == <<key, token, task>>

Ttls == {"none", "running", "over"}

Free == [held |-> FALSE]

Key == {Free} \cup [held : {TRUE}, token : Tokens, ttl : Ttls]

\* late: the TTL ended while the task held the lock.  lapped: another task
\* was granted the lock meanwhile.  Both are history.
Task == [pc : {"idle", "trying", "holding", "released", "refused"},
         obj : Objects \cup {None}, token : Tokens \cup {None},
         deadline : {"none", "open", "passed"}, late : BOOLEAN, lapped : BOOLEAN]

Idle == [pc |-> "idle", obj |-> None, token |-> None, deadline |-> "none",
         late |-> FALSE, lapped |-> FALSE]

Init ==
    /\ key = Free
    /\ token = [o \in Objects |-> None]
    /\ task = [t \in Tasks |-> Idle]

\* Neither in the store nor in an object nor with a task: uuid4 repeats nothing.
Unused(k) ==
    /\ key.held => key.token # k
    /\ \A o \in Objects : token[o] # k
    /\ \A t \in Tasks : task[t].token # k

\* The key as GET, SET and the script see it: expired is missing.
Live == key.held /\ key.ttl # "over"

Holding(t) == task[t].pc = "holding"

AtRest(t) == task[t].pc \in {"idle", "released", "refused"}

\* SET name k NX, with PX when the object has a timeout.
TtlIgnored(o) == "none"

TtlOf(o) == IF o \in Timed THEN "running" ELSE "none"

SetNxBlind(o, k) == key' = [held |-> TRUE, token |-> k, ttl |-> TtlOf(o)]

SetNx(o, k) ==
    /\ ~Live
    /\ key' = [held |-> TRUE, token |-> k, ttl |-> TtlOf(o)]

\* An attempt that succeeds: self.token = token, and acquire returns True.
Granted(t, o, k) ==
    /\ SetNx(o, k)
    /\ token' = [token EXCEPT ![o] = k]
    /\ task' = [u \in Tasks |->
         IF u = t THEN [Idle EXCEPT !.pc = "holding", !.obj = o, !.token = k]
         ELSE [task[u] EXCEPT !.lapped = @ \/ Holding(u)]]

\* The first attempt of acquire.
AcquireAtOnce(t, o, k) ==
    /\ AtRest(t)
    /\ o \in Uses[t]
    /\ Unused(k)
    /\ Granted(t, o, k)

\* The attempt fails and the caller waits: deadline is "none" without a
\* blocking_timeout.  A non-blocking call, and one whose blocking_timeout is 0,
\* return False and leave the task as it was.
AcquireWaits(t, o, k, deadline) ==
    /\ AtRest(t)
    /\ o \in Uses[t]
    /\ Unused(k)
    /\ Live
    /\ task' = [task EXCEPT ![t] = [Idle EXCEPT !.pc = "trying", !.obj = o,
                                     !.token = k, !.deadline = deadline]]
    /\ UNCHANGED <<key, token>>

\* The sleep is over: another attempt with the same token, and then the deadline.
RetryGranted(t) ==
    /\ task[t].pc = "trying"
    /\ Granted(t, task[t].obj, task[t].token)

RetryFailsSilently(t) ==
    /\ task[t].pc = "trying"
    /\ Live
    /\ task[t].deadline = "passed"
    /\ UNCHANGED vars

RetryFails(t) ==
    /\ task[t].pc = "trying"
    /\ Live
    /\ task[t].deadline = "passed"
    /\ task' = [task EXCEPT ![t] = Idle]
    /\ UNCHANGED <<key, token>>

\* The script: GET equals the token, then DEL.
OwnedByAnyone(o) == Live /\ token[o] # None

Owned(o) == Live /\ token[o] # None /\ key.token = token[o]

\* release: self.token is cleared only when the script deleted the key.
ReleaseOwned(t, o) ==
    /\ o \in Uses[t]
    /\ AtRest(t) \/ (Holding(t) /\ task[t].obj = o)
    /\ Owned(o)
    /\ key' = Free
    /\ token' = [token EXCEPT ![o] = None]
    /\ task' = [task EXCEPT ![t] =
         IF Holding(t) THEN [@ EXCEPT !.pc = "released", !.token = None] ELSE @]

\* No token, or no longer the owner: LockError, and self.token stays.
ReleaseRefused(t, o) ==
    /\ o \in Uses[t]
    /\ Holding(t) /\ task[t].obj = o
    /\ ~Owned(o)
    /\ task' = [task EXCEPT ![t] = [@ EXCEPT !.pc = "refused", !.token = None]]
    /\ UNCHANGED <<key, token>>

\* The task is cancelled, in the sleep of acquire or while it holds the lock
\* without a context manager: nobody releases it.
Cancelled(t) ==
    /\ task[t].pc \in {"trying", "holding"}
    /\ task' = [task EXCEPT ![t] = Idle]
    /\ UNCHANGED <<key, token>>

DeadlinePasses(t) ==
    /\ task[t].pc = "trying"
    /\ task[t].deadline = "open"
    /\ task' = [task EXCEPT ![t].deadline = "passed"]
    /\ UNCHANGED <<key, token>>

\* The TTL of the key ends; whoever was granted it is late from now on.
TtlEnds ==
    /\ key.held
    /\ key.ttl = "running"
    /\ key' = [key EXCEPT !.ttl = "over"]
    /\ task' = [u \in Tasks |->
         [task[u] EXCEPT !.late = @ \/ (Holding(u) /\ task[u].token = key.token)]]
    /\ UNCHANGED token

\* The sweeper, or any command that meets the expired key, removes it.
Expires ==
    /\ key.held
    /\ key.ttl = "over"
    /\ key' = Free
    /\ UNCHANGED <<token, task>>

Retry(t) == RetryGranted(t) \/ RetryFails(t)

Release(t) == \E o \in Objects : ReleaseOwned(t, o) \/ ReleaseRefused(t, o)

Acquire(t) ==
    \E o \in Objects, k \in Tokens :
        \/ AcquireAtOnce(t, o, k)
        \/ \E deadline \in {"none", "open"} : AcquireWaits(t, o, k, deadline)

Next ==
    \/ \E t \in Tasks : Acquire(t) \/ Retry(t) \/ Release(t) \/ Cancelled(t) \/ DeadlinePasses(t)
    \/ TtlEnds
    \/ Expires

Spec == Init /\ [][Next]_vars

\* The event loop wakes every sleeper and clocks go on.  Nobody has to release.
Fairness ==
    /\ \A t \in Tasks : WF_vars(Retry(t)) /\ WF_vars(DeadlinePasses(t))
    /\ WF_vars(TtlEnds)

FairSpec == Spec /\ Fairness
-----------------------------------------------------------------------------
TypeOK ==
    /\ key \in Key
    /\ token \in [Objects -> Tokens \cup {None}]
    /\ task \in [Tasks -> Task]

\* Two tasks that both hold the lock, neither of them past its TTL, do not
\* exist, however expiries, late releases, cancellations and retries of the
\* tasks interleave (lock.py:60-117).
MutualExclusion ==
    \A t, u \in Tasks :
        t # u => ~ (/\ Holding(t) /\ ~task[t].late
                    /\ Holding(u) /\ ~task[u].late)

\* A release that raises no LockError means that nobody else was granted the
\* lock since it was acquired (lock.py:101-117).
ReleaseTellsTruth ==
    \A t \in Tasks : task[t].pc = "released" => ~task[t].lapped

\* An acquire with a blocking_timeout comes back (lock.py:87-99).
AcquireEnds ==
    \A t \in Tasks :
        (task[t].pc = "trying" /\ task[t].deadline # "none") ~> task[t].pc # "trying"

\* A lock that was taken with a timeout does not stay with a holder that never
\* releases: while a task waits, the token in the key changes (lock.py:79).
LockIsNotStuck ==
    \A t \in Tasks, k \in Tokens :
        (/\ task[t].pc = "trying"
         /\ key.held /\ key.token = k
         /\ \E o \in Timed : token[o] = k)
            ~> (task[t].pc # "trying" \/ ~key.held \/ key.token # k)
=============================================================================
