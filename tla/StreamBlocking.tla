--------------------------- MODULE StreamBlocking ---------------------------
(***************************************************************************)
(* XREAD and XREADGROUP over several streams (src/lib.rs, src/store.rs):   *)
(* what one call reads and records while it holds the data lock, and the   *)
(* tokio task a call with BLOCK becomes, which sleeps between its reads    *)
(* until an XADD, a script or shutdown wakes it.                           *)
(*                                                                         *)
(* The actors are those of BlockingLists: synchronous commands and scripts *)
(* under the GIL, the tasks of blocking calls, the sweeper and time.  The  *)
(* clients share one consumer group per stream, each a consumer of its own *)
(* name; an id is a number, of which only the order matters here (the      *)
(* clock and the 64-bit arithmetic of ids are in ConsumerGroups, and so    *)
(* are the claims).                                                        *)
(***************************************************************************)
EXTENDS Integers, FiniteSets, Sequences, Functions

CONSTANTS
    Keys,      \* the keys the clients use
    Clients,   \* the clients, one call at a time each
    Calls,     \* the calls a client may make
    MaxId,     \* bound: the largest id a stream gets to
    Losses     \* bound: the ways in which keys are lost

NoGroup == -1      \* the stream has no group of that name
Latest  == -1      \* the id "$"
New     == -2      \* the id ">"
Ids     == 1 .. MaxId

\* `from` holds, for each key, the id after which to read; `wait` is BLOCK:
\* not given, 0, or a number of milliseconds.
CallType == [op : {"read", "group"}, keys : Seq(Keys) \ {<<>>},
             from : [Keys -> {Latest, New} \cup Nat], count : Nat \ {0},
             wait : {"no", "zero", "some"}]

NoCall == [op |-> "none"]

\* The keys of a Python dict are distinct; "$" is for XREAD only and ">" for
\* XREADGROUP only.
ASSUME ConstantsAssumption ==
    /\ Calls \subseteq CallType
    /\ \A cl \in Calls : IsInjective(cl.keys)
    /\ \A cl \in Calls, k \in Keys :
          cl.from[k] # IF cl.op = "read" THEN New ELSE Latest
    /\ MaxId \in Nat
    /\ Losses \subseteq {"del", "set", "expire"}

VARIABLES
    db,        \* Store::data, one entry for each key
    gil,       \* who is inside a section of several steps under the GIL
    grown,     \* EvalOutcome::had_xadd of the running script
    shutdown,  \* Store::shutdown
    pc,        \* where each client's future is
    waiter,    \* its Notified future
    call,      \* the call it runs, "$" resolved
    late,      \* its deadline has passed
    reply,     \* what its future resolves to
    born,      \* history: the cursor each stream's group was created with
    acked,     \* history: the ids acknowledged to that group
    since,     \* history: what a call asks for of what was added since it began
    intact     \* history: no stream and no group of the call has gone since then

client  == <<pc, waiter, call, late, reply>>
control == <<gil, grown, shutdown>>
groups  == <<born, acked>>
watch   == <<since, intact>>
vars    == <<db, gil, grown, shutdown, pc, waiter, call, late, reply,
             born, acked, since, intact>>

-----------------------------------------------------------------------------
(* The data map *)

NoPending == [c \in Clients |-> {}]

Absent == [kind |-> "absent", entries |-> {}, last |-> 0, cursor |-> NoGroup,
           pel |-> NoPending, ttl |-> "none"]

Ttls == {"none", "running", "past"}

Entry == {Absent} \cup
    [kind : {"string", "stream"}, entries : SUBSET Ids, last : 0 .. MaxId,
     cursor : {NoGroup} \cup 0 .. MaxId, pel : [Clients -> SUBSET Ids], ttl : Ttls]

\* ValueEntry::new_stream: no entries, last_id 0-0, no groups.
NewStream == [Absent EXCEPT !.kind = "stream"]

\* ValueEntry::is_expired, and the passive expiration every command starts with.
Purge(d, ks) ==
    [k \in Keys |-> IF k \in ks /\ d[k].ttl = "past" THEN Absent ELSE d[k]]

HasGroup(entry) == entry.kind = "stream" /\ entry.cursor # NoGroup

\* The first n ids of a set: what .take(n) of a BTreeMap range yields.
First(ids, n) == {i \in ids : Cardinality({j \in ids : j < i}) < n}

Largest(ids) == CHOOSE i \in ids : \A j \in ids : j <= i

-----------------------------------------------------------------------------
(* Notification (see BlockingLists): armed waiters wake, no permit is left.  *)

Notified(w) == [c \in Clients |-> IF w[c] = "armed" THEN "notified" ELSE w[c]]

Grew ==
    \/ gil = "free" /\ waiter' = Notified(waiter) /\ UNCHANGED grown
    \/ gil = "script" /\ grown' = TRUE /\ UNCHANGED waiter

Quiet == UNCHANGED <<grown, waiter>>

\* A synchronous command, called by Python or by redis.call in a script.
Sync == gil \in {"free", "script"} /\ UNCHANGED <<gil, shutdown, pc, call, late, reply>>

Waiting(c) == pc[c] \notin {"idle", "reply"}

Watches(c, k) == pc[c] # "idle" /\ k \in Range(call[c].keys)

\* An id the call asks for: XREAD may name one that the stream has yet to reach.
Asks(cl, k, id) == cl.op = "read" => id > cl.from[k]

\* The step to d removes the stream (a dead one may be replaced), or its group.
Gone(d, k) ==
    /\ db[k].kind = "stream"
    /\ d[k].kind # "stream" \/ (db[k].ttl = "past" /\ d[k].ttl # "past")

GroupGone(d, k) == HasGroup(db[k]) /\ (Gone(d, k) \/ ~HasGroup(d[k]))

\* What a step to d does to the history.
IntactIn(d) ==
    [c \in Clients |->
        /\ intact[c]
        /\ \A k \in Keys : Watches(c, k) => ~Gone(d, k) /\ ~GroupGone(d, k)]

BornIn(d) == [k \in Keys |-> IF GroupGone(d, k) THEN 0 ELSE born[k]]

AckedIn(d) == [k \in Keys |-> IF GroupGone(d, k) THEN {} ELSE acked[k]]

Observed(d) == born' = BornIn(d) /\ acked' = AckedIn(d) /\ intact' = IntactIn(d)

\* A command that changes the data map and tells nobody.
Silently(d) ==
    /\ db' = d
    /\ Observed(d)
    /\ UNCHANGED since
    /\ Quiet

-----------------------------------------------------------------------------
(* The synchronous stream commands *)

\* XADD: an id above the last one, from the clock or from the caller.  A string
\* is a WRONGTYPE error; an explicit id that is too small is refused after
\* or_insert_with has created the stream.
XAdd(k, id) ==
    LET d == Purge(db, {k})
        e == IF d[k].kind = "absent" THEN NewStream ELSE d[k]
    IN  /\ Sync
        /\ \/ e.kind = "string" /\ Silently(d)
           \/ /\ e.kind = "stream"
              /\ id <= e.last
              /\ Silently([d EXCEPT ![k] = e])
           \/ /\ e.kind = "stream"
              /\ id > e.last
              /\ db' = [d EXCEPT ![k] = [e EXCEPT !.entries = @ \cup {id}, !.last = id]]
              /\ Observed(db')
              /\ since' = [c \in Clients |->
                    IF Waiting(c) /\ Watches(c, k) /\ Asks(call[c], k, id)
                    THEN since[c] \cup {<<k, id>>} ELSE since[c]]
              /\ Grew

\* XDEL and XTRIM.
XDelete(k, ids) ==
    LET d == Purge(db, {k})
    IN  /\ Sync
        /\ Silently([d EXCEPT ![k].entries = @ \ ids])

\* XGROUP CREATE with MKSTREAM: "$" is last_id; BUSYGROUP when there is one.
XGroupCreate(k, id) ==
    LET d == Purge(db, {k})
        e == IF d[k].kind = "absent" THEN NewStream ELSE d[k]
    IN  /\ Sync
        /\ id \in {0, e.last}
        /\ \/ /\ e.kind = "string" \/ HasGroup(e)
              /\ Silently(d)
           \/ /\ e.kind = "stream" /\ ~HasGroup(e)
              /\ db' = [d EXCEPT ![k] = [e EXCEPT !.cursor = id]]
              /\ born' = [born EXCEPT ![k] = id]
              /\ acked' = AckedIn(db')
              /\ intact' = IntactIn(db')
              /\ UNCHANGED since
              /\ Quiet

XGroupDestroy(k) ==
    LET d == Purge(db, {k})
    IN  /\ Sync
        /\ Silently([d EXCEPT ![k].cursor = NoGroup, ![k].pel = NoPending])

\* XACK by the consumer that holds the id.
XAck(k, c, id) ==
    LET d == Purge(db, {k})
    IN  /\ Sync
        /\ id \in d[k].pel[c]
        /\ db' = [d EXCEPT ![k].pel[c] = @ \ {id}]
        /\ acked' = [acked EXCEPT ![k] = @ \cup {id}]
        /\ UNCHANGED <<born, watch>>
        /\ Quiet

-----------------------------------------------------------------------------
(* Commands on any key, and time *)

Del(k) == Sync /\ Silently([db EXCEPT ![k] = Absent])

Set(k) ==
    /\ Sync
    /\ Silently([db EXCEPT ![k] = [Absent EXCEPT !.kind = "string"]])

Expire(k) ==
    LET d == Purge(db, {k})
    IN  /\ Sync
        /\ d[k].kind # "absent"
        /\ Silently([d EXCEPT ![k].ttl = "running"])

\* The sweeper, and the commands that only read, need the data lock.
Sweep(ks) ==
    /\ gil # "script"
    /\ Silently(Purge(db, ks))
    /\ UNCHANGED <<control, client>>

TimePasses(k) ==
    /\ db[k].ttl = "running"
    /\ db' = [db EXCEPT ![k].ttl = "past"]
    /\ UNCHANGED <<control, client, groups, watch>>

-----------------------------------------------------------------------------
(* Scripts and shutdown *)

ScriptBegins ==
    /\ gil = "free"
    /\ gil' = "script"
    /\ UNCHANGED <<db, client, grown, shutdown, groups, watch>>

\* The data lock is dropped, whether the script returned or raised ...
ScriptEnds ==
    /\ gil = "script"
    /\ gil' = IF grown THEN "notify" ELSE "free"
    /\ UNCHANGED <<db, client, grown, shutdown, groups, watch>>

\* The slip of an eval that notifies only when the script raised no error.
ScriptNotifiesOnSuccess ==
    /\ gil = "notify"
    /\ gil' = "free"
    /\ grown' = FALSE
    /\ \/ waiter' = Notified(waiter)
       \/ UNCHANGED waiter
    /\ UNCHANGED <<db, pc, call, late, reply, shutdown, groups, watch>>

\* ... and then the waiters of the streams hear of it.
ScriptNotifies ==
    /\ gil = "notify"
    /\ gil' = "free"
    /\ grown' = FALSE
    /\ waiter' = Notified(waiter)
    /\ UNCHANGED <<db, pc, call, late, reply, shutdown, groups, watch>>

Shutdown ==
    /\ gil = "free"
    /\ gil' = "shutdown"
    /\ shutdown' = TRUE
    /\ UNCHANGED <<db, client, grown, groups, watch>>

ShutdownNotifies ==
    /\ gil = "shutdown"
    /\ gil' = "free"
    /\ waiter' = Notified(waiter)
    /\ UNCHANGED <<db, pc, call, late, reply, grown, shutdown, groups, watch>>

-----------------------------------------------------------------------------
(* One read: Store::xread and Store::xreadgroup, under one data lock *)

\* The key ends the call with an error: WRONGTYPE, or NOGROUP.
Bad(cl, entry) ==
    \/ entry.kind = "string"
    \/ cl.op = "group" /\ ~HasGroup(entry)

\* The keys are visited in order, up to the first bad one.
Visited(cl, d) ==
    {cl.keys[i] : i \in {n \in DOMAIN cl.keys :
                            \A j \in 1 .. n - 1 : ~Bad(cl, d[cl.keys[j]])}}

\* The slip of a read that yields the newest COUNT entries.
BatchTakesNewest(c, cl, k, entry) ==
    LET after == {i \in entry.entries :
                    i > IF cl.op = "read" THEN cl.from[k] ELSE entry.cursor}
    IN  {i \in after : Cardinality({j \in after : j > i}) < cl.count}

Delivers(cl, k) == cl.op = "group" /\ cl.from[k] = New

\* What a visit to a stream yields: the first COUNT entries after the given id;
\* for ">" those after the group's cursor; for XREADGROUP with an id, the
\* caller's pending ids from there on, cut to COUNT before those that are no
\* longer in the stream are dropped.
Batch(c, cl, k, entry) ==
    CASE cl.op = "read"  -> First({i \in entry.entries : i > cl.from[k]}, cl.count)
      [] Delivers(cl, k) -> First({i \in entry.entries : i > entry.cursor}, cl.count)
      [] OTHER -> First({i \in entry.pel[c] : i >= cl.from[k]}, cl.count)
                    \cap entry.entries

\* The slip of a cursor that stays behind.
HandedKeepsCursor(c, cl, k, entry) ==
    IF Delivers(cl, k)
    THEN [entry EXCEPT !.pel[c] = @ \cup Batch(c, cl, k, entry)]
    ELSE entry

\* ">" records the batch in the caller's PEL and moves the cursor on.
Handed(c, cl, k, entry) ==
    LET batch == Batch(c, cl, k, entry)
    IN  IF Delivers(cl, k) /\ batch # {}
        THEN [entry EXCEPT !.cursor = Largest(batch), !.pel[c] = @ \cup batch]
        ELSE entry

Failed(cl, d) == \E k \in Range(cl.keys) : Bad(cl, d[k])

\* The slip of PELs that are filled in only when every key was good.
ReadLosesBatch(c, cl) ==
    LET all   == Purge(db, Range(cl.keys))
        good  == {k \in Visited(cl, all) : ~Bad(cl, all[k])}
        batch == {p \in good \X Ids : p[2] \in Batch(c, cl, p[1], all[p[1]])}
        moved(k) == [Handed(c, cl, k, all[k]) EXCEPT !.pel = all[k].pel]
    IN  [db   |-> [k \in Keys |-> IF k \in good /\ Failed(cl, all) THEN moved(k)
                                  ELSE IF k \in good THEN Handed(c, cl, k, all[k])
                                  ELSE IF k \in Visited(cl, all) THEN all[k]
                                  ELSE db[k]],
         kind |-> IF Failed(cl, all) THEN "error"
                  ELSE IF batch = {} THEN "empty" ELSE "entries",
         got  |-> IF Failed(cl, all) THEN {} ELSE batch]

\* A bad key makes the whole call an error - the batches of the keys before it
\* are in the PELs by then.
Read(c, cl) ==
    LET all   == Purge(db, Range(cl.keys))
        good  == {k \in Visited(cl, all) : ~Bad(cl, all[k])}
        batch == {p \in good \X Ids : p[2] \in Batch(c, cl, p[1], all[p[1]])}
    IN  [db   |-> [k \in Keys |-> IF k \in good THEN Handed(c, cl, k, all[k])
                                  ELSE IF k \in Visited(cl, all) THEN all[k]
                                  ELSE db[k]],
         kind |-> IF Failed(cl, all) THEN "error"
                  ELSE IF batch = {} THEN "empty" ELSE "entries",
         got  |-> IF Failed(cl, all) THEN {} ELSE batch]

NoReply == [kind |-> "none", got |-> {}]
Nothing == [kind |-> "empty", got |-> {}]

-----------------------------------------------------------------------------
(* A call *)

\* "$" is resolved when the call is made, with stream_last_id, which purges an
\* expired key and takes a missing one and a wrong type for 0-0.
Dollars(cl) == {k \in Range(cl.keys) : cl.from[k] = Latest}

Resolved(cl, d) ==
    [cl EXCEPT !.from = [k \in Keys |->
        IF k \in Dollars(cl) THEN d[k].last ELSE cl.from[k]]]

\* A call makes d of the data map before its client goes on to `where`.
Begins(c, cl, d, where) ==
    /\ gil = "free"
    /\ pc[c] = "idle"
    /\ pc' = [pc EXCEPT ![c] = where]
    /\ call' = [call EXCEPT ![c] = cl]
    /\ db' = d
    /\ born' = BornIn(d)
    /\ acked' = AckedIn(d)
    /\ intact' = [IntactIn(d) EXCEPT ![c] = TRUE]
    /\ since' = [since EXCEPT ![c] = {}]
    /\ UNCHANGED <<control, waiter, late>>

\* Without BLOCK the one read is done on the spot, under the GIL.
CallNow(c, cl) ==
    LET asked  == Resolved(cl, Purge(db, Dollars(cl)))
        result == Read(c, asked)
    IN  /\ cl.wait = "no"
        /\ Begins(c, asked, result.db, "reply")
        /\ reply' = [reply EXCEPT ![c] = [kind |-> result.kind, got |-> result.got]]

\* With BLOCK a task is spawned.
CallBlocking(c, cl) ==
    LET d == Purge(db, Dollars(cl))
    IN  /\ cl.wait # "no"
        /\ Begins(c, Resolved(cl, d), d, "spawned")
        /\ UNCHANGED reply

\* The slip of a "$" that is looked up when the task gets to run.
StartsWithDollar(c) ==
    /\ pc[c] = "spawned"
    /\ pc' = [pc EXCEPT ![c] = "first"]
    /\ waiter' = [waiter EXCEPT ![c] = "armed"]
    /\ call' = [call EXCEPT ![c].from = [k \in Keys |->
          IF call[c].op = "read" THEN db[k].last ELSE @[k]]]
    /\ UNCHANGED <<db, control, late, reply, groups, watch>>

\* The task arms its waiter BEFORE its first read.
Starts(c) ==
    /\ pc[c] = "spawned"
    /\ pc' = [pc EXCEPT ![c] = "first"]
    /\ waiter' = [waiter EXCEPT ![c] = "armed"]
    /\ UNCHANGED <<db, control, call, late, reply, groups, watch>>

Resolve(c, value) ==
    /\ pc' = [pc EXCEPT ![c] = "reply"]
    /\ reply' = [reply EXCEPT ![c] = value]

\* XREAD with BLOCK 0 has no deadline; XREADGROUP's is the moment its first
\* read comes back empty.
Forever(cl) == cl.op = "read" /\ cl.wait = "zero"

AtOnce(cl) == cl.op = "group" /\ cl.wait = "zero"

\* The first read and the read after a wake-up.
Poll(c) ==
    /\ pc[c] \in {"first", "poll"}
    /\ gil # "script"
    /\ LET result == Read(c, call[c])
       IN  /\ db' = result.db
           /\ Observed(result.db)
           /\ \/ /\ result.kind # "empty"
                 /\ Resolve(c, [kind |-> result.kind, got |-> result.got])
                 /\ UNCHANGED late
              \/ /\ result.kind = "empty"
                 /\ pc' = [pc EXCEPT ![c] = "loop"]
                 /\ late' = [late EXCEPT ![c] = @ \/ AtOnce(call[c])]
                 /\ UNCHANGED reply
    /\ UNCHANGED <<control, waiter, call, since>>

\* The slip of a loop that only looks at the flag.
LoopHeadIgnoresDeadline(c) ==
    /\ pc[c] = "loop"
    /\ \/ shutdown /\ Resolve(c, Nothing)
       \/ ~shutdown /\ pc' = [pc EXCEPT ![c] = "select"] /\ UNCHANGED reply
    /\ UNCHANGED <<db, control, waiter, call, late, groups, watch>>

\* The head of the loop: give up on shutdown or at the deadline.
LoopHead(c) ==
    /\ pc[c] = "loop"
    /\ \/ (shutdown \/ late[c]) /\ Resolve(c, Nothing)
       \/ ~shutdown /\ ~late[c] /\ pc' = [pc EXCEPT ![c] = "select"] /\ UNCHANGED reply
    /\ UNCHANGED <<db, control, waiter, call, late, groups, watch>>

\* select!, the waiter's branch: a new waiter is armed, then the next read done.
Wakes(c) ==
    /\ pc[c] = "select"
    /\ waiter[c] = "notified"
    /\ pc' = [pc EXCEPT ![c] = "rearm"]
    /\ waiter' = [waiter EXCEPT ![c] = "off"]
    /\ UNCHANGED <<db, control, call, late, reply, groups, watch>>

Rearms(c) ==
    /\ pc[c] = "rearm"
    /\ pc' = [pc EXCEPT ![c] = "poll"]
    /\ waiter' = [waiter EXCEPT ![c] = "armed"]
    /\ UNCHANGED <<db, control, call, late, reply, groups, watch>>

\* select!, the sleep's branch: the deadline, or a slice of an hour.
SleepEnds(c) ==
    /\ pc[c] = "select"
    /\ \/ late[c] /\ Resolve(c, Nothing)
       \/ Forever(call[c]) /\ pc' = [pc EXCEPT ![c] = "loop"] /\ UNCHANGED reply
    /\ UNCHANGED <<db, control, waiter, call, late, groups, watch>>

DeadlinePasses(c) ==
    /\ pc[c] \in {"loop", "select", "rearm", "poll"}
    /\ call[c].wait = "some"
    /\ ~late[c]
    /\ late' = [late EXCEPT ![c] = TRUE]
    /\ UNCHANGED <<db, control, pc, waiter, call, reply, groups, watch>>

Completes(c) ==
    /\ gil = "free"
    /\ pc' = [pc EXCEPT ![c] = "idle"]
    /\ waiter' = [waiter EXCEPT ![c] = "off"]
    /\ call' = [call EXCEPT ![c] = NoCall]
    /\ late' = [late EXCEPT ![c] = FALSE]
    /\ reply' = [reply EXCEPT ![c] = NoReply]
    /\ since' = [since EXCEPT ![c] = {}]
    /\ intact' = [intact EXCEPT ![c] = TRUE]
    /\ UNCHANGED <<db, control, groups>>

\* The result is handed over under the GIL, or dropped because Python has
\* cancelled the awaiting task; a suspended future is dropped as well.
Replies(c) == pc[c] = "reply" /\ Completes(c)

Cancelled(c) == pc[c] \in {"spawned", "select"} /\ Completes(c)

-----------------------------------------------------------------------------

Init ==
    /\ db = [k \in Keys |-> Absent]
    /\ gil = "free"
    /\ grown = FALSE
    /\ shutdown = FALSE
    /\ pc = [c \in Clients |-> "idle"]
    /\ waiter = [c \in Clients |-> "off"]
    /\ call = [c \in Clients |-> NoCall]
    /\ late = [c \in Clients |-> FALSE]
    /\ reply = [c \in Clients |-> NoReply]
    /\ born = [k \in Keys |-> 0]
    /\ acked = [k \in Keys |-> {}]
    /\ since = [c \in Clients |-> {}]
    /\ intact = [c \in Clients |-> TRUE]

Command ==
    \E k \in Keys :
        \/ \E id \in Ids : XAdd(k, id)
        \/ \E ids \in SUBSET Ids : XDelete(k, ids)
        \/ \E id \in 0 .. MaxId : XGroupCreate(k, id)
        \/ XGroupDestroy(k)
        \/ \E c \in Clients, id \in Ids : XAck(k, c, id)
        \/ "del" \in Losses /\ Del(k)
        \/ "set" \in Losses /\ Set(k)
        \/ "expire" \in Losses /\ Expire(k)

ClientStep(c) ==
    \/ \E cl \in Calls : CallNow(c, cl) \/ CallBlocking(c, cl)
    \/ Starts(c)
    \/ Poll(c)
    \/ LoopHead(c)
    \/ Wakes(c)
    \/ Rearms(c)
    \/ SleepEnds(c)
    \/ DeadlinePasses(c)
    \/ Replies(c)
    \/ Cancelled(c)

Next ==
    \/ Command
    \/ \E ks \in SUBSET Keys : Sweep(ks)
    \/ \E k \in Keys : TimePasses(k)
    \/ ScriptBegins
    \/ ScriptEnds
    \/ ScriptNotifies
    \/ Shutdown
    \/ ShutdownNotifies
    \/ \E c \in Clients : ClientStep(c)

Spec == Init /\ [][Next]_vars

\* As in BlockingLists: tasks that are ready run, the locks are handed round,
\* scripts and shutdown() end, clocks reach every deadline.
Fairness ==
    /\ WF_vars(ScriptEnds)
    /\ WF_vars(ScriptNotifies)
    /\ WF_vars(ShutdownNotifies)
    /\ \A c \in Clients :
        /\ WF_vars(Starts(c))
        /\ WF_vars(LoopHead(c))
        /\ WF_vars(Rearms(c))
        /\ WF_vars(SleepEnds(c))
        /\ WF_vars(DeadlinePasses(c))
        /\ SF_vars(Wakes(c))
        /\ SF_vars(Poll(c))
        /\ SF_vars(Replies(c))

FairSpec == Spec /\ Fairness

-----------------------------------------------------------------------------
(* Properties *)

\* What the call would get from the key if it read now: for XREAD what came
\* after the id it gave, also what came there since the call began; for ">" what
\* came since and the group has yet to hand out.  A group that was destroyed and
\* made again meanwhile is another one: XGROUP CREATE with an old id announces
\* nothing.
Due(c, k) ==
    {i \in db[k].entries :
        /\ db[k].ttl # "past"
        /\ \/ call[c].op = "read" /\ i > call[c].from[k]
           \/ call[c].op = "read" /\ <<k, i>> \in since[c]
           \/ Delivers(call[c], k) /\ i > db[k].cursor /\ intact[c] /\ <<k, i>> \in since[c]}

Parked(c) == pc[c] \in {"loop", "select"}

\* No lost wake-up: a call that is about to sleep, or asleep, and has not been
\* notified has nothing due on any of its streams, unless a script that raised
\* had_xadd has yet to notify.  Arming before each read (comment in xreadgroup)
\* and resolving "$" when the call is made (comment in xread) are for this.
NoLostWakeup ==
    \A c \in Clients :
        Parked(c) /\ waiter[c] # "notified" /\ ~grown
            => \A k \in Range(call[c].keys) : Due(c, k) = {}

\* A reply skips nothing: what came to a stream of the call since it began, after
\* the id it gave, and is not in XREAD's reply comes after COUNT entries that are,
\* so that a client that goes on from the last id it got sees every entry.
ReplyHasNoGap ==
    \A c \in Clients :
        pc[c] = "reply" /\ reply[c].kind = "entries" /\ call[c].op = "read" /\ intact[c]
            => \A p \in since[c] \ reply[c].got :
                  \/ p[2] \notin db[p[1]].entries
                  \/ LET before == {q \in reply[c].got : q[1] = p[1]}
                     IN  /\ Cardinality(before) = call[c].count
                         /\ \A q \in before : q[2] < p[2]

\* One notify_waiters wakes every reader of a group; an entry still goes to one
\* of them only: to one PEL, and into one answer as long as the group lives.
OneReceiver ==
    \A b, c \in Clients : b # c =>
        /\ \A k \in Keys : db[k].pel[b] \cap db[k].pel[c] = {}
        /\ \A k \in Keys :
              /\ intact[b] /\ Delivers(call[b], k)
              /\ intact[c] /\ Delivers(call[c], k)
              => ~\E i \in Ids : <<k, i>> \in reply[b].got \cap reply[c].got

\* What became of the reply does not matter - an error at a later key of the
\* same call, a deadline, a cancelled task: an entry the group's cursor has
\* passed is pending for a client, which can read it again, until it is
\* acknowledged.
HandedIsPending ==
    \A k \in Keys : HasGroup(db[k]) =>
        \A i \in db[k].entries :
            born[k] < i /\ i <= db[k].cursor
                => i \in acked[k] \/ \E c \in Clients : i \in db[k].pel[c]

\* A blocking read ends when it should: once its deadline has passed, also when
\* XADDs to other streams keep waking it up, and after shutdown; and XREAD with
\* BLOCK 0 ("block=0 means block indefinitely") comes back empty on shutdown only,
\* however often it is woken for nothing and whatever becomes of its streams.
BlockedReadEnds ==
    \A c \in Clients :
        /\ ((shutdown \/ late[c]) /\ pc[c] # "idle") ~> (pc[c] = "idle")
        /\ [](Forever(call[c]) /\ reply[c].kind = "empty" => shutdown)

\* A reader with something due is answered, or loses it to another reader of the
\* group, to XDEL, XTRIM, DEL or expiry.
BlockedReadIsServed ==
    \A c \in Clients, k \in Keys :
        (Waiting(c) /\ Watches(c, k) /\ Due(c, k) # {})
            ~> (~Waiting(c) \/ ~Watches(c, k) \/ Due(c, k) = {})

=============================================================================
