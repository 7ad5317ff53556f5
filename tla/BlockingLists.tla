--------------------------- MODULE BlockingLists ---------------------------
(***************************************************************************)
(* The list keys of the store (src/store.rs), the blocking commands BLPOP, *)
(* BRPOP and BLMOVE (src/lib.rs) and the way Lua scripts and shutdown wake  *)
(* them.                                                                    *)
(*                                                                          *)
(* Two kinds of actors take steps.  A synchronous command runs under the    *)
(* Python GIL and holds the data lock for its whole effect, so it is one    *)
(* action; a script holds both over several commands and fires its          *)
(* notification only after it has let the data lock go; shutdown holds the  *)
(* GIL but not the data lock.  A blocking call is a tokio task that needs   *)
(* the data lock only to poll and the GIL only to hand over its result, and *)
(* can be preempted between any two of its steps.                           *)
(***************************************************************************)
EXTENDS ListOps

CONSTANTS
    Keys,         \* the keys the clients use
    Clients,      \* the tokio tasks that run blocking calls
    Calls,        \* the blocking calls a client may make
    MaxElements,  \* bound: how many elements are ever pushed
    Batches,      \* bound: how many values one LPUSH / RPUSH passes
    Ints          \* the counts and indices that LPOP, LREM, LTRIM, LSET get

Nil       == 0        \* None: the call timed out or the client shut down
WrongType == -1       \* the WRONGTYPE error
Elements  == 1 .. MaxElements

\* A call pops from `end` of the first of its keys that has an element; BLMOVE
\* has one key, its source, and pushes what it popped on the `to` end of `dst`.
CallType == [op : {"pop", "move"}, keys : Seq(Keys) \ {<<>>}, end : Ends,
             dst : Keys, to : Ends, forever : BOOLEAN]

NoCall == [op |-> "none"]

ASSUME ConstantsAssumption ==
    /\ Calls \subseteq CallType
    /\ \A cl \in Calls : cl.op = "move" => Len(cl.keys) = 1
    /\ MaxElements \in Nat
    /\ Batches \subseteq Nat \ {0}
    /\ Ints \subseteq Int

VARIABLES
    db,        \* Store::data, one entry for each key
    next,      \* the next element to push: elements are told apart
    popped,    \* history: the elements that LPOP, RPOP, BLPOP, BRPOP took out
    removed,   \* history: those that LREM, LTRIM, LSET, DEL or SET threw away
    gil,       \* who is inside a section of several steps under the GIL
    grown,     \* EvalOutcome::had_list_mutation of the running script
    shutdown,  \* Store::shutdown
    pc,        \* where each client's blocking future is
    waiter,    \* its Notified future
    call,      \* the call it runs
    late,      \* its deadline has passed
    reply      \* the value its future resolves to

store   == <<db, next, popped, removed>>
client  == <<pc, waiter, call, late, reply>>
control == <<gil, grown, shutdown>>
vars    == <<db, next, popped, removed, gil, grown, shutdown, pc, waiter, call, late, reply>>

-----------------------------------------------------------------------------
(* The data map *)

Absent == [kind |-> "absent", list |-> <<>>, ttl |-> "none"]

Ttls == {"none", "running", "past"}

Entry == {Absent} \cup [kind : {"string"}, list : {<<>>}, ttl : Ttls]
                  \cup [kind : {"list"}, list : Seq(Elements), ttl : Ttls]

ListEntry(list, ttl) == [kind |-> "list", list |-> list, ttl |-> ttl]

\* ValueEntry::is_expired, and the passive expiration every command starts with.
Purge(d, ks) ==
    [k \in Keys |-> IF k \in ks /\ d[k].ttl = "past" THEN Absent ELSE d[k]]

\* A mutator that shrank a list to nothing removes the key (D-03).
WithList(entry, list) ==
    IF list = <<>> THEN Absent ELSE ListEntry(list, entry.ttl)

\* The key, its expiry seen to, is not one that a poll passes over.
Stops(d, k) == d[k].kind = "string" \/ d[k].list # <<>>

\* The key holds elements that a pop would find.
Poppable(d, k) == d[k].kind = "list" /\ d[k].ttl # "past" /\ d[k].list # <<>>

-----------------------------------------------------------------------------
(* Notification: tokio's Notify::notify_waiters wakes the waiters that are   *)
(* armed at that moment and leaves no permit for later ones.                 *)

Notified(w) == [c \in Clients |-> IF w[c] = "armed" THEN "notified" ELSE w[c]]

\* A command that grew a list notifies inside the data lock; in a script it
\* only raises the flag that eval looks at when the lock is released.
Grew ==
    \/ gil = "free" /\ waiter' = Notified(waiter) /\ UNCHANGED grown
    \/ gil = "script" /\ grown' = TRUE /\ UNCHANGED waiter

\* A synchronous command: called by Python, or by redis.call in a script.
Sync == gil \in {"free", "script"} /\ UNCHANGED <<gil, shutdown, pc, call, late, reply>>

Quiet == UNCHANGED <<grown, waiter>>

-----------------------------------------------------------------------------
(* The synchronous list commands *)

\* LPUSH and RPUSH of n new elements.
Push(k, end, n) ==
    LET d == Purge(db, {k})
    IN  /\ Sync
        /\ UNCHANGED <<popped, removed>>
        /\ next + n - 1 <= MaxElements
        /\ \/ /\ d[k].kind = "string"
              /\ db' = d
              /\ UNCHANGED next
              /\ Quiet
           \/ /\ d[k].kind # "string"
              /\ db' = [d EXCEPT ![k] =
                          ListEntry(Pushed(@.list, end, [i \in 1 .. n |-> next + i - 1]), @.ttl)]
              /\ next' = next + n
              /\ Grew

\* LPOP and RPOP of up to n elements; a missing key, a string and n = 0 only
\* get the passive expiration.
Pop(k, end, n) ==
    LET d == Purge(db, {k})
        keeps == IF d[k].kind = "list" THEN AfterPop(d[k].list, end, n) ELSE <<>>
    IN  /\ Sync
        /\ UNCHANGED <<next, removed>>
        /\ Quiet
        /\ \/ /\ d[k].kind # "list"
              /\ db' = d
              /\ UNCHANGED popped
           \/ /\ d[k].kind = "list"
              /\ db' = [d EXCEPT ![k] = WithList(@, keeps)]
              /\ popped' = popped \cup (Range(d[k].list) \ Range(keeps))

\* LREM, LTRIM, LSET and LINSERT replace the list of a key that holds one.
Rewrite(k, list) ==
    LET d == Purge(db, {k})
    IN  \/ /\ d[k].kind = "list"
           /\ db' = [d EXCEPT ![k] = WithList(@, list)]
           /\ removed' = removed \cup (Range(d[k].list) \ Range(list))
        \/ /\ d[k].kind # "list"
           /\ db' = d
           /\ UNCHANGED removed

\* The slip of a mutator that forgets D-03.
LRemoveKeepsKey(k, count, v) ==
    LET d == Purge(db, {k})
    IN  /\ Sync
        /\ db' = IF d[k].kind = "list"
                 THEN [d EXCEPT ![k].list = LRem(@, count, v)] ELSE d
        /\ UNCHANGED <<next, popped, removed>>
        /\ Quiet

LRemove(k, count, v) ==
    /\ Sync
    /\ Rewrite(k, LRem(db[k].list, count, v))
    /\ UNCHANGED <<next, popped>>
    /\ Quiet

LTrim(k, start, stop) ==
    /\ Sync
    /\ Rewrite(k, Slice(db[k].list, start, stop))
    /\ UNCHANGED <<next, popped>>
    /\ Quiet

\* A missing key, a wrong type and an index out of range are refused.
LSet(k, index) ==
    LET list == Purge(db, {k})[k].list
        ok   == InBounds(list, index)
    IN  /\ Sync
        /\ next <= MaxElements
        /\ Rewrite(k, IF ok THEN SetAt(list, index, next) ELSE list)
        /\ next' = IF ok THEN next + 1 ELSE next
        /\ UNCHANGED popped
        /\ Quiet

\* LINSERT does not notify; in a script it raises the flag when it inserted.
LInsert(k, where, pivot) ==
    LET list == Purge(db, {k})[k].list
        ok   == pivot \in Range(list)
    IN  /\ Sync
        /\ next <= MaxElements
        /\ Rewrite(k, IF ok THEN InsertNextTo(list, where, pivot, next) ELSE list)
        /\ next' = IF ok THEN next + 1 ELSE next
        /\ grown' = (grown \/ (ok /\ gil = "script"))
        /\ UNCHANGED <<popped, waiter>>

\* lmove_atomic on the data map.  An empty source is looked at before the type
\* of the destination, and both before anything is popped (P2-02).
MoveBlocked(d, src, dst) ==
    \/ d[src].kind # "list"
    \/ d[src].list = <<>>
    \/ d[dst].kind = "string"

\* Two slips: an element that is copied and not taken, and a source that goes
\* whenever it is empty, its TTL with it.
MovedByCopy(d, src, dst, from, to) ==
    [d EXCEPT ![dst] = ListEntry(Push1(@.list, to, EndOf(d[src].list, from)), @.ttl)]

MovedLosingTtl(d, src, dst, from, to) ==
    LET rest  == AfterPop(d[src].list, from, 1)
        taken == [d EXCEPT ![src] = WithList(@, rest)]
    IN  [taken EXCEPT ![dst] = ListEntry(Push1(@.list, to, EndOf(d[src].list, from)), @.ttl)]

\* The source goes when it is empty, but not in a rotation, which keeps the
\* entry and its TTL (P2-09).
Moved(d, src, dst, from, to) ==
    LET e     == EndOf(d[src].list, from)
        rest  == AfterPop(d[src].list, from, 1)
        taken == [d EXCEPT ![src] = IF src = dst THEN ListEntry(rest, @.ttl)
                                                 ELSE WithList(@, rest)]
    IN  [taken EXCEPT ![dst] = ListEntry(Push1(@.list, to, e), @.ttl)]

\* The slip of a move that pops before it has looked at the destination.
LMovePopsFirst(src, dst, from, to) ==
    LET d == Purge(db, {src, dst})
    IN  /\ Sync
        /\ UNCHANGED <<next, popped, removed>>
        /\ \/ /\ MoveBlocked(d, src, dst)
              /\ db' = IF d[src].kind = "list"
                       THEN [d EXCEPT ![src] = WithList(@, AfterPop(@.list, from, 1))]
                       ELSE d
              /\ Quiet
           \/ ~MoveBlocked(d, src, dst) /\ db' = Moved(d, src, dst, from, to) /\ Grew

LMove(src, dst, from, to) ==
    LET d == Purge(db, {src, dst})
    IN  /\ Sync
        /\ UNCHANGED <<next, popped, removed>>
        /\ \/ MoveBlocked(d, src, dst) /\ db' = d /\ Quiet
           \/ ~MoveBlocked(d, src, dst) /\ db' = Moved(d, src, dst, from, to) /\ Grew

-----------------------------------------------------------------------------
(* Commands on any key, and time *)

\* DEL, and EXPIRE with a time of zero or less.
Del(k) ==
    /\ Sync
    /\ db' = [db EXCEPT ![k] = Absent]
    /\ removed' = removed \cup Range(db[k].list)
    /\ UNCHANGED <<next, popped>>
    /\ Quiet

\* SET with or without a TTL, and the NX and XX conditions.
Set(k, mode, ttl) ==
    LET exists == db[k].kind # "absent" /\ db[k].ttl # "past"
    IN  /\ Sync
        /\ mode = "NX" => ~exists
        /\ mode = "XX" => exists
        /\ db' = [db EXCEPT ![k] = [kind |-> "string", list |-> <<>>, ttl |-> ttl]]
        /\ removed' = removed \cup Range(db[k].list)
        /\ UNCHANGED <<next, popped>>
        /\ Quiet

ExpireRevives(k) ==
    /\ Sync
    /\ db' = IF db[k].kind = "absent" THEN db ELSE [db EXCEPT ![k].ttl = "running"]
    /\ UNCHANGED <<next, popped, removed>>
    /\ Quiet

Expire(k) ==
    LET d == Purge(db, {k})
    IN  /\ Sync
        /\ db' = IF d[k].kind = "absent" THEN d ELSE [d EXCEPT ![k].ttl = "running"]
        /\ UNCHANGED <<next, popped, removed>>
        /\ Quiet

\* The passive expiration of the commands that only read (LLEN, LINDEX, LRANGE,
\* GET, ...): all they do to the store.
Touch(k) ==
    /\ Sync
    /\ db' = Purge(db, {k})
    /\ UNCHANGED <<next, popped, removed>>
    /\ Quiet

\* One tick of the background task: it removes the expired keys among those it
\* looks at (20 keys with a TTL at most).  It needs the data lock, not the GIL.
Sweep(ks) ==
    /\ gil # "script"
    /\ db' = Purge(db, ks)
    /\ UNCHANGED <<next, popped, removed, control, client>>

TimePasses(k) ==
    /\ db[k].ttl = "running"
    /\ db' = [db EXCEPT ![k].ttl = "past"]
    /\ UNCHANGED <<next, popped, removed, control, client>>

-----------------------------------------------------------------------------
(* Scripts and shutdown *)

\* eval and evalsha take the data lock; the commands above then run in the
\* script, and the lock is dropped whether the script returned or raised.
ScriptBegins ==
    /\ gil = "free"
    /\ gil' = "script"
    /\ UNCHANGED <<store, client, grown, shutdown>>

ScriptEnds ==
    /\ gil = "script"
    /\ gil' = IF grown THEN "notify" ELSE "free"
    /\ UNCHANGED <<store, client, grown, shutdown>>

\* The slip of an eval that forgets the list waiters.
ScriptNotifiesNobody ==
    /\ gil = "notify"
    /\ gil' = "free"
    /\ grown' = FALSE
    /\ UNCHANGED <<store, client, shutdown>>

ScriptNotifies ==
    /\ gil = "notify"
    /\ gil' = "free"
    /\ grown' = FALSE
    /\ waiter' = Notified(waiter)
    /\ UNCHANGED <<store, pc, call, late, reply, shutdown>>

\* Store::shutdown raises the flag, then wakes the waiters.
Shutdown ==
    /\ gil = "free"
    /\ gil' = "shutdown"
    /\ shutdown' = TRUE
    /\ UNCHANGED <<store, client, grown>>

ShutdownNotifies ==
    /\ gil = "shutdown"
    /\ gil' = "free"
    /\ waiter' = Notified(waiter)
    /\ UNCHANGED <<store, pc, call, late, reply, grown, shutdown>>

-----------------------------------------------------------------------------
(* A blocking call *)

\* blpop, brpop, blmove: the future is created and its waiter armed BEFORE the
\* first poll.
Call(c, cl) ==
    /\ gil = "free"
    /\ pc[c] = "idle"
    /\ pc' = [pc EXCEPT ![c] = "first"]
    /\ waiter' = [waiter EXCEPT ![c] = "armed"]
    /\ call' = [call EXCEPT ![c] = cl]
    /\ UNCHANGED <<store, control, late, reply>>

\* The keys in front of the i-th one hold nothing a poll stops at, the i-th does.
FirstHit(d, keys, i) ==
    /\ Stops(d, keys[i])
    /\ \A j \in 1 .. i - 1 : ~Stops(d, keys[j])

NoHit(d, keys) == \A i \in DOMAIN keys : ~Stops(d, keys[i])

Resolve(c, value) ==
    /\ pc' = [pc EXCEPT ![c] = "reply"]
    /\ reply' = [reply EXCEPT ![c] = value]

\* Nothing to take: on to the head of the loop.
KeepsWaiting(c) ==
    /\ pc' = [pc EXCEPT ![c] = "loop"]
    /\ UNCHANGED reply

\* blpop_poll and brpop_poll: one scan of the keys under the data lock, which
\* purges the expired keys it passes and stops at a list or at a wrong type.
PollPop(c) ==
    LET keys == call[c].keys
        d(i) == Purge(db, {keys[j] : j \in 1 .. i})
    IN  \/ /\ NoHit(d(Len(keys)), keys)
           /\ db' = d(Len(keys))
           /\ KeepsWaiting(c)
           /\ UNCHANGED popped
        \/ \E i \in DOMAIN keys :
             LET k == keys[i]
                 e == EndOf(d(i)[k].list, call[c].end)
             IN  /\ FirstHit(d(i), keys, i)
                 /\ \/ /\ d(i)[k].kind = "string"
                       /\ db' = d(i)
                       /\ Resolve(c, WrongType)
                       /\ UNCHANGED popped
                    \/ /\ d(i)[k].kind = "list"
                       /\ db' = [d(i) EXCEPT ![k] =
                                   WithList(@, AfterPop(@.list, call[c].end, 1))]
                       /\ Resolve(c, e)
                       /\ popped' = popped \cup {e}

\* BLMOVE polls with lmove_atomic, which wakes the waiters again.
PollMove(c) ==
    LET src == call[c].keys[1]
        dst == call[c].dst
        d   == Purge(db, {src, dst})
    IN  /\ UNCHANGED popped
        /\ \/ /\ ~Stops(d, src)
              /\ db' = d
              /\ KeepsWaiting(c)
              /\ UNCHANGED waiter
           \/ /\ Stops(d, src)
              /\ MoveBlocked(d, src, dst)
              /\ db' = d
              /\ Resolve(c, WrongType)
              /\ UNCHANGED waiter
           \/ /\ ~MoveBlocked(d, src, dst)
              /\ db' = Moved(d, src, dst, call[c].end, call[c].to)
              /\ Resolve(c, EndOf(d[src].list, call[c].end))
              /\ waiter' = Notified(waiter)

\* The first poll and the poll after a wake-up.
Poll(c) ==
    /\ pc[c] \in {"first", "poll"}
    /\ gil # "script"
    /\ \/ call[c].op = "pop" /\ PollPop(c) /\ UNCHANGED waiter
       \/ call[c].op = "move" /\ PollMove(c)
    /\ UNCHANGED <<next, removed, control, call, late>>

\* The slip that arming ahead of each poll is there to prevent: a waiter made
\* anew at each turn of the loop forgets a notification it already had.
LoopHeadArms(c) ==
    /\ pc[c] = "loop"
    /\ \/ /\ shutdown \/ late[c]
          /\ Resolve(c, Nil)
          /\ UNCHANGED waiter
       \/ /\ ~shutdown /\ ~late[c]
          /\ pc' = [pc EXCEPT ![c] = "select"]
          /\ waiter' = [waiter EXCEPT ![c] = "armed"]
          /\ UNCHANGED reply
    /\ UNCHANGED <<store, control, call, late>>

\* The slip of a loop that only looks at the deadline.
LoopHeadIgnoresFlag(c) ==
    /\ pc[c] = "loop"
    /\ \/ late[c] /\ Resolve(c, Nil)
       \/ ~late[c] /\ pc' = [pc EXCEPT ![c] = "select"] /\ UNCHANGED reply
    /\ UNCHANGED <<store, control, waiter, call, late>>

\* The head of the loop: give up on shutdown or at the deadline.
LoopHead(c) ==
    /\ pc[c] = "loop"
    /\ \/ /\ shutdown \/ late[c]
          /\ Resolve(c, Nil)
       \/ /\ ~shutdown /\ ~late[c]
          /\ pc' = [pc EXCEPT ![c] = "select"]
          /\ UNCHANGED reply
    /\ UNCHANGED <<store, control, waiter, call, late>>

\* select!: the waiter's branch.  The old waiter is dropped here ...
Wakes(c) ==
    /\ pc[c] = "select"
    /\ waiter[c] = "notified"
    /\ pc' = [pc EXCEPT ![c] = "rearm"]
    /\ waiter' = [waiter EXCEPT ![c] = "off"]
    /\ UNCHANGED <<store, control, call, late, reply>>

\* ... and a new one armed BEFORE the next poll.
Rearms(c) ==
    /\ pc[c] = "rearm"
    /\ pc' = [pc EXCEPT ![c] = "poll"]
    /\ waiter' = [waiter EXCEPT ![c] = "armed"]
    /\ UNCHANGED <<store, control, call, late, reply>>

\* select!: the sleep's branch.  The sleep of a call with a deadline ends at the
\* deadline, that of a call without one after a slice of an hour.
SleepEnds(c) ==
    /\ pc[c] = "select"
    /\ \/ late[c] /\ Resolve(c, Nil)
       \/ call[c].forever /\ KeepsWaiting(c)
    /\ UNCHANGED <<store, control, waiter, call, late>>

\* The clock reaches the deadline of a call that has one.
DeadlinePasses(c) ==
    /\ pc[c] \in {"loop", "select", "rearm", "poll"}
    /\ ~call[c].forever
    /\ ~late[c]
    /\ late' = [late EXCEPT ![c] = TRUE]
    /\ UNCHANGED <<store, control, pc, waiter, call, reply>>

\* The future is gone: its locals are dropped.
Completes(c) ==
    /\ pc' = [pc EXCEPT ![c] = "idle"]
    /\ waiter' = [waiter EXCEPT ![c] = "off"]
    /\ call' = [call EXCEPT ![c] = NoCall]
    /\ late' = [late EXCEPT ![c] = FALSE]
    /\ reply' = [reply EXCEPT ![c] = Nil]
    /\ UNCHANGED <<store, control>>

\* The result is handed over under the GIL; when Python has cancelled the
\* awaiting task by then, it is discarded.
Delivers(c) ==
    /\ pc[c] = "reply"
    /\ gil = "free"
    /\ Completes(c)

\* Python cancels the awaiting task and the suspended future is dropped.
Cancelled(c) ==
    /\ pc[c] = "select"
    /\ gil = "free"
    /\ Completes(c)

-----------------------------------------------------------------------------

Init ==
    /\ db = [k \in Keys |-> Absent]
    /\ next = 1
    /\ popped = {}
    /\ removed = {}
    /\ gil = "free"
    /\ grown = FALSE
    /\ shutdown = FALSE
    /\ pc = [c \in Clients |-> "idle"]
    /\ waiter = [c \in Clients |-> "off"]
    /\ call = [c \in Clients |-> NoCall]
    /\ late = [c \in Clients |-> FALSE]
    /\ reply = [c \in Clients |-> Nil]

\* The synchronous commands.
Command ==
    \E k \in Keys :
        \/ \E end \in Ends, n \in Batches : Push(k, end, n)
        \/ \E end \in Ends, n \in Ints \cap Nat : Pop(k, end, n)
        \/ \E v \in Elements, n \in Ints : LRemove(k, n, v)
        \/ \E i, j \in Ints : LTrim(k, i, j)
        \/ \E i \in Ints : LSet(k, i)
        \/ \E where \in {"BEFORE", "AFTER"}, v \in Elements : LInsert(k, where, v)
        \/ \E dst \in Keys, from, to \in Ends : LMove(k, dst, from, to)
        \/ \E mode \in {"any", "NX", "XX"}, ttl \in {"none", "running"} : Set(k, mode, ttl)
        \/ Del(k)
        \/ Expire(k)
        \/ Touch(k)

ClientStep(c) ==
    \/ \E cl \in Calls : Call(c, cl)
    \/ Poll(c)
    \/ LoopHead(c)
    \/ Wakes(c)
    \/ Rearms(c)
    \/ SleepEnds(c)
    \/ DeadlinePasses(c)
    \/ Delivers(c)
    \/ Cancelled(c)

Next ==
    \/ Command
    \/ \E ks \in SUBSET Keys : Sweep(ks)
    \/ \E k \in Keys : TimePasses(k)
    \/ ScriptBegins
    \/ ScriptEnds
    \/ ScriptNotifies
    \/ Shutdown
    \/ ShutdownNotifies
    \/ \E c \in Clients : ClientStep(c)

Spec == Init /\ [][Next]_vars

(***************************************************************************)
(* The tokio runtime runs every task that is ready.  The data lock and the *)
(* GIL are handed round (strong fairness for what waits for one of them);  *)
(* select! polls its branches in random order, so that a waiter that is    *)
(* ready is taken sooner or later.  Scripts and shutdown() run to their    *)
(* end, and clocks reach every deadline.  No command, no call, no          *)
(* cancellation and no expiry has to happen.                               *)
(***************************************************************************)
Fairness ==
    /\ WF_vars(ScriptEnds)
    /\ WF_vars(ScriptNotifies)
    /\ WF_vars(ShutdownNotifies)
    /\ \A c \in Clients :
        /\ WF_vars(LoopHead(c))
        /\ WF_vars(Rearms(c))
        /\ WF_vars(SleepEnds(c))
        /\ WF_vars(DeadlinePasses(c))
        /\ SF_vars(Wakes(c))
        /\ SF_vars(Poll(c))
        /\ SF_vars(Delivers(c))

FairSpec == Spec /\ Fairness

-----------------------------------------------------------------------------
(* Properties *)

\* The types of the data map, the control state and the blocking calls.
TypeOK ==
    /\ db \in [Keys -> Entry]
    /\ next \in 1 .. MaxElements + 1
    /\ popped \subseteq Elements
    /\ removed \subseteq Elements
    /\ gil \in {"free", "script", "notify", "shutdown"}
    /\ grown \in BOOLEAN
    /\ shutdown \in BOOLEAN
    /\ pc \in [Clients -> {"idle", "first", "loop", "select", "rearm", "poll", "reply"}]
    /\ waiter \in [Clients -> {"off", "armed", "notified"}]
    /\ call \in [Clients -> Calls \cup {NoCall}]
    /\ late \in [Clients -> BOOLEAN]
    /\ reply \in [Clients -> Elements \cup {Nil, WrongType}]

Parked(c) == pc[c] \in {"loop", "select"}

\* No lost wake-up: a call that is about to sleep, or asleep, without a
\* notification has nothing to wake up for - none of its keys holds an element -
\* unless a script that raised had_list_mutation has yet to notify.  This is
\* what arming the waiter before each poll (blpop, brpop, blmove) is for.
NoLostWakeup ==
    \A c \in Clients :
        Parked(c) /\ waiter[c] # "notified" /\ ~grown
            => \A i \in DOMAIN call[c].keys : ~Poppable(db, call[c].keys[i])

\* D-03: no list mutator, native, in a script or in a blocking call, leaves an
\* empty list behind.
EmptyListRemoved ==
    \A k \in Keys : db[k].kind = "list" => db[k].list # <<>>

Stored == UNION {Range(db[k].list) : k \in Keys}

\* An element is in one place: it is never in two lists or twice in one, a popped
\* element is in no list, and no two calls are answered with the same popped one
\* (pops take elements out, LMOVE and BLMOVE move them, under one data lock).
InOnePlace ==
    /\ \A k, l \in Keys : \A i \in DOMAIN db[k].list, j \in DOMAIN db[l].list :
          db[k].list[i] = db[l].list[j] => k = l /\ i = j
    /\ popped \cap Stored = {}
    /\ \A b, c \in Clients :
          /\ pc[b] = "reply" /\ call[b].op = "pop" /\ reply[b] \in Elements
          /\ pc[c] = "reply" /\ call[c].op = "pop" /\ reply[b] = reply[c]
          => b = c

LiveElements == UNION {Range(db[k].list) : k \in {x \in Keys : db[x].ttl # "past"}}

\* An element of a live list leaves the store only when a pop takes it or a
\* command whose purpose is to remove it does: a move that fails half-way (a
\* destination of the wrong type, P2-02), a wake-up, a time-out, a cancellation
\* or the sweeper lose nothing.
NothingVanishes ==
    [][LiveElements \subseteq (Stored' \cup popped' \cup removed')]_vars

\* What has expired is never served, moved or seen again.
ExpiredStaysDead ==
    [][(Stored \ LiveElements) \cap (LiveElements' \cup popped') = {}]_vars

\* A list that keeps one of its elements keeps its TTL: above all a rotation
\* (LMOVE k k, BLMOVE k k) of a one-element list, which empties it in between
\* (P2-09).  EXPIRE may start one.
TtlSurvives ==
    [][\A k \in Keys :
          /\ db[k].ttl = "running"
          /\ Range(db[k].list) \cap Range(db'[k].list) # {}
          => db'[k].ttl # "none"]_vars

\* A blocking call comes back once its deadline has passed, also when unrelated
\* commands keep waking it up, and after shutdown, whatever it was doing when the
\* flag was raised (so that its future completes while the event loop is alive).
BlockedCallEnds ==
    \A c \in Clients :
        ((shutdown \/ late[c]) /\ pc[c] # "idle") ~> (pc[c] = "idle")

\* A blocked call whose key stays filled gets an answer: no wake-up is missed,
\* and spurious ones do not keep it from polling.
BlockedCallIsServed ==
    \A c \in Clients, k \in Keys :
        (/\ pc[c] \notin {"idle", "reply"}
         /\ k \in Range(call[c].keys)
         /\ Poppable(db, k))
            ~> (pc[c] \in {"idle", "reply"} \/ ~Poppable(db, k))

=============================================================================
