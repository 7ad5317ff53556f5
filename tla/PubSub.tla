------------------------------- MODULE PubSub -------------------------------
(***************************************************************************)
(* Publish / subscribe: the registry and the broadcast ring of the store   *)
(* (src/store.rs), the tokio task that listens for a Python PubSub object  *)
(* (src/lib.rs) and the object itself (python/burner_redis/pubsub.py).     *)
(*                                                                         *)
(* Every message goes through one broadcast ring to every listener, which  *)
(* puts it in the queue of its object; the object drops what it has not    *)
(* subscribed to when it reads the queue.  Registry commands and Python    *)
(* code between two awaits are single steps; the start of a listener, each *)
(* of its steps and the join that aclose() waits for are steps of tokio    *)
(* threads in between.                                                     *)
(*                                                                         *)
(* Channels and glob patterns are both topics: SUBSCRIBE and PSUBSCRIBE do *)
(* the same to different maps, and a "pmessage" names its pattern.  The    *)
(* confirmations subscribe() puts in its own queue are left out.           *)
(***************************************************************************)
EXTENDS Integers, FiniteSets, Sequences, Functions

CONSTANTS
    Channels,   \* channels
    Patterns,   \* glob patterns
    Matching,   \* the pairs <<pattern, channel>> for which glob_match holds
    Objects,    \* Python PubSub objects
    Tasks,      \* asyncio tasks
    Owner,      \* the object each task works with
    RingSize,   \* capacity of the broadcast channel (4096)
    MaxIds,     \* bound: subscriber ids ever handed out
    MaxLog,     \* bound: messages ever broadcast
    MaxFaults   \* bound: cancelled awaits, and closings of the client itself

Topics == Channels \cup Patterns
Ids    == 1 .. MaxIds
None   == 0

ASSUME ConstantsAssumption ==
    /\ Matching \subseteq Patterns \X Channels
    /\ Channels \cap Patterns = {}
    /\ IsFiniteSet(Patterns)
    /\ Owner \in [Tasks -> Objects]
    /\ RingSize \in Nat \ {0}
    /\ MaxIds \in Nat /\ MaxLog \in Nat /\ MaxFaults \in Nat

VARIABLES
    ids,        \* PubSubRegistry.next_id: how many ids were handed out
    subs,       \* channel_subscribers, pattern_subscribers: topic -> ids
    mine,       \* subscriber_channels, subscriber_patterns: id -> topics
    stoppers,   \* listener_stoppers: the ids with a registered handle
    log,        \* what tx.send broadcast, oldest first: its topic, and history:
                \* the ids PUBLISH counted for it
    state,      \* where each listener is
    pos,        \* how much of the log its receiver has gone through
    flag,       \* its stop_flag, set together with the stop oneshot
    feeds,      \* the object whose queue it holds
    subId,      \* PubSub._subscriber_id
    started,    \* PubSub._listener_started
    topics,     \* PubSub.channels, PubSub.patterns
    inbox,      \* what was put in PubSub._queue: indices of log
    read,       \* how much of it get_message has taken
    task,       \* what each task awaits
    lost,       \* history: the messages a listener lagged behind
    faults,     \* how many of MaxFaults happened
    doomed,     \* history: the listeners shutdown() stopped
    orphans     \* history: the listeners whose start or end nobody waited for,
                \* because the task that awaited it was cancelled

registry == <<subs, mine, stoppers>>
listener == <<state, pos, flag, feeds, lost>>
object   == <<subId, started, topics, read>>
history  == <<faults, doomed, orphans>>
vars     == <<ids, subs, mine, stoppers, log, state, pos, flag, feeds, subId,
              started, topics, inbox, read, task, lost, faults, doomed, orphans>>

Idle == [pc |-> "idle", id |-> None, topic |-> None]

-----------------------------------------------------------------------------
(* The registry *)

\* A cancellation or a closing of the client: bounded in number.
Fault == faults < MaxFaults /\ faults' = faults + 1

\* Store::subscribe, psubscribe, unsubscribe and punsubscribe.
Joined(id, topic) ==
    /\ subs' = [subs EXCEPT ![topic] = @ \cup {id}]
    /\ mine' = [mine EXCEPT ![id] = @ \cup {topic}]

Left(id, some) ==
    /\ subs' = [t \in Topics |-> IF t \in some THEN subs[t] \ {id} ELSE subs[t]]
    /\ mine' = [mine EXCEPT ![id] = @ \ some]

\* Store::publish: a "pmessage" for every matching pattern somebody subscribed
\* to, in HashMap order, then a "message" when the channel has subscribers.  It
\* returns the number of subscriptions it met.
Hits(ch) == {p \in Patterns : <<p, ch>> \in Matching /\ subs[p] # {}}

Message(topic) == [topic |-> topic, to |-> subs[topic]]

Publish(ch) ==
    LET n     == Cardinality(Hits(ch))
        exact == IF subs[ch] = {} THEN <<>> ELSE <<Message(ch)>>
    IN  /\ Len(log) + n + Len(exact) <= MaxLog
        /\ n + Len(exact) > 0
        /\ \E order \in Bijection(1 .. n, Hits(ch)) :
              log' = log \o [i \in 1 .. n |-> Message(order[i])] \o exact
        /\ UNCHANGED <<ids, registry, listener, object, inbox, task, history>>

\* PUBLISH in a script broadcasts the "message" whoever subscribed, nothing for
\* patterns, and returns 0.
ScriptPublish(ch) ==
    /\ Len(log) < MaxLog
    /\ log' = Append(log, [topic |-> ch, to |-> {}])
    /\ UNCHANGED <<ids, registry, listener, object, inbox, task, history>>

\* Store::stop_subscriber_listener: the flag and the oneshot of a registered
\* handle, and the end of every subscription of the id.
Stop(some) ==
    /\ stoppers' = stoppers \ some
    /\ flag' = [id \in Ids |-> flag[id] \/ id \in some \cap stoppers]
    /\ subs' = [t \in Topics |-> subs[t] \ some]
    /\ mine' = [id \in Ids |-> IF id \in some THEN {} ELSE mine[id]]

-----------------------------------------------------------------------------
(* The listener task *)

\* The slip of a receiver that starts with the ring's oldest message.
ListenerReplays(id) ==
    /\ state[id] = "asked"
    /\ state' = [state EXCEPT ![id] = "running"]
    /\ pos' = [pos EXCEPT ![id] = IF Len(log) < RingSize THEN 0 ELSE Len(log) - RingSize]
    /\ UNCHANGED <<ids, registry, log, flag, feeds, object, inbox, task, lost, history>>

\* _subscribe_listener: the future subscribes to the ring and spawns the task ...
ListenerStarts(id) ==
    /\ state[id] = "asked"
    /\ state' = [state EXCEPT ![id] = "running"]
    /\ pos' = [pos EXCEPT ![id] = Len(log)]
    /\ UNCHANGED <<ids, registry, log, flag, feeds, object, inbox, task, lost, history>>

\* ... and registers the stopper AFTER that.
ListenerRegisters(id) ==
    /\ state[id] \in {"running", "holding", "entering"}
    /\ id \notin stoppers
    /\ ~flag[id]
    /\ stoppers' = stoppers \cup {id}
    /\ UNCHANGED <<ids, subs, mine, log, listener, object, inbox, task, history>>

\* The slip of a listener that gives up when it lags.
RecvOnce(id) ==
    /\ state[id] = "running"
    /\ ~flag[id]
    /\ pos[id] < Len(log)
    /\ pos[id] >= Len(log) - RingSize
    /\ pos' = [pos EXCEPT ![id] = @ + 1]
    /\ state' = [state EXCEPT ![id] = "holding"]
    /\ UNCHANGED <<ids, registry, log, flag, feeds, object, inbox, task, lost, history>>

\* rx.recv(): the next message, or Lagged when the ring has overwritten it.
Recv(id) ==
    /\ state[id] = "running"
    /\ ~flag[id]
    /\ pos[id] < Len(log)
    /\ \/ /\ pos[id] >= Len(log) - RingSize
          /\ pos' = [pos EXCEPT ![id] = @ + 1]
          /\ state' = [state EXCEPT ![id] = "holding"]
          /\ UNCHANGED lost
       \/ /\ pos[id] < Len(log) - RingSize
          /\ pos' = [pos EXCEPT ![id] = Len(log) - RingSize]
          /\ lost' = [lost EXCEPT ![id] = @ \cup (pos[id] + 1) .. (Len(log) - RingSize)]
          /\ UNCHANGED state
    /\ UNCHANGED <<ids, registry, log, flag, feeds, object, inbox, task, history>>

\* The stop flag is looked at before the GIL is asked for ...
Enters(id) ==
    /\ state[id] = "holding"
    /\ state' = [state EXCEPT ![id] = IF flag[id] THEN "done" ELSE "entering"]
    /\ UNCHANGED <<ids, registry, log, pos, flag, feeds, object, inbox, task, lost, history>>

\* The slip of a listener that does not look again.
PutsBlindly(id) ==
    /\ state[id] = "entering"
    /\ state' = [state EXCEPT ![id] = "running"]
    /\ inbox' = [inbox EXCEPT ![feeds[id]] = Append(@, pos[id])]
    /\ UNCHANGED <<ids, registry, log, pos, flag, feeds, object, task, lost, history>>

\* ... and again with the GIL, before put_nowait.
Puts(id) ==
    /\ state[id] = "entering"
    /\ state' = [state EXCEPT ![id] = "running"]
    /\ inbox' = IF flag[id] THEN inbox
                ELSE [inbox EXCEPT ![feeds[id]] = Append(@, pos[id])]
    /\ UNCHANGED <<ids, registry, log, pos, flag, feeds, object, task, lost, history>>

\* The slip of a stop that is only noticed when no message is waiting.
ListenerStopsIdle(id) ==
    /\ state[id] = "running"
    /\ flag[id]
    /\ pos[id] = Len(log)
    /\ state' = [state EXCEPT ![id] = "done"]
    /\ UNCHANGED <<ids, registry, log, pos, flag, feeds, object, inbox, task, lost, history>>

\* select! is biased: a stop that has been fired comes before the next message.
ListenerStops(id) ==
    /\ state[id] = "running"
    /\ flag[id]
    /\ state' = [state EXCEPT ![id] = "done"]
    /\ UNCHANGED <<ids, registry, log, pos, flag, feeds, object, inbox, task, lost, history>>

\* BurnerRedis.aclose -> Store::shutdown stops the listeners that are registered
\* and drops their join handles.
Shutdown ==
    /\ Fault
    /\ Stop(stoppers)
    /\ doomed' = doomed \cup stoppers
    /\ UNCHANGED <<ids, log, state, pos, feeds, lost, object, inbox, task, orphans>>

-----------------------------------------------------------------------------
(* The Python object *)

\* subscribe_channels and psubscribe_patterns return at once: no other task runs
\* before the object's own map is updated.
Enrols(t, id, topic) ==
    LET o == Owner[t]
    IN  /\ Joined(id, topic)
        /\ topics' = [topics EXCEPT ![o] = @ \cup {topic}]

\* subscribe, psubscribe: _ensure_listener takes an id and awaits the start of
\* the listener unless one was started.
Subscribe(t, topic) ==
    LET o == Owner[t]
    IN  /\ task[t] = Idle
        /\ \/ /\ started[o]
              /\ Enrols(t, subId[o], topic)
              /\ UNCHANGED <<ids, state, feeds, subId, task>>
           \/ /\ ~started[o]
              /\ ids < MaxIds
              /\ ids' = ids + 1
              /\ subId' = [subId EXCEPT ![o] = ids + 1]
              /\ state' = [state EXCEPT ![ids + 1] = "asked"]
              /\ feeds' = [feeds EXCEPT ![ids + 1] = o]
              /\ task' = [task EXCEPT ![t] =
                    [pc |-> "starting", id |-> ids + 1, topic |-> topic]]
              /\ UNCHANGED <<subs, mine, topics>>
        /\ UNCHANGED <<stoppers, log, pos, flag, started, inbox, read, lost, history>>

\* The listener is up, so the task goes on - with the id the object has by now.
Subscribes(t) ==
    LET o == Owner[t]
    IN  /\ task[t].pc = "starting"
        /\ task[t].id \in stoppers \/ flag[task[t].id]
        /\ started' = [started EXCEPT ![o] = TRUE]
        /\ Enrols(t, subId[o], task[t].topic)
        /\ task' = [task EXCEPT ![t] = Idle]
        /\ UNCHANGED <<ids, stoppers, log, listener, subId, inbox, read, history>>

\* The awaiting task is cancelled; a future that has not run yet is dropped.
CancelSubscribe(t) ==
    /\ Fault
    /\ task[t].pc = "starting"
    /\ orphans' = orphans \cup {task[t].id}
    /\ task' = [task EXCEPT ![t] = Idle]
    /\ state' = [state EXCEPT ![task[t].id] = IF @ = "asked" THEN "done" ELSE @]
    /\ UNCHANGED <<ids, registry, log, pos, flag, feeds, object, inbox, lost, doomed>>

\* unsubscribe and punsubscribe, of some topics or of all.
Unsubscribe(t, some) ==
    LET o == Owner[t]
    IN  /\ task[t] = Idle
        /\ subId[o] # None
        /\ Left(subId[o], some)
        /\ topics' = [topics EXCEPT ![o] = @ \ some]
        /\ UNCHANGED <<ids, stoppers, log, listener, subId, started, inbox, read, task, history>>

\* The slip of an aclose that does not wait for the listener.
ACloseAtOnce(t) ==
    LET o == Owner[t]
    IN  /\ task[t] = Idle
        /\ started[o]
        /\ Stop({subId[o]})
        /\ topics' = [topics EXCEPT ![o] = {}]
        /\ started' = [started EXCEPT ![o] = FALSE]
        /\ UNCHANGED <<ids, log, state, pos, feeds, lost, subId, inbox, read, task, history>>

\* aclose: unsubscribe from everything, stop the listener, await its exit.
AClose(t) ==
    LET o == Owner[t]
    IN  /\ task[t] = Idle
        /\ started[o]
        /\ Stop({subId[o]})
        /\ topics' = [topics EXCEPT ![o] = {}]
        /\ task' = [task EXCEPT ![t] = [pc |-> "closing", topic |-> None,
              id |-> IF subId[o] \in stoppers THEN subId[o] ELSE None]]
        /\ UNCHANGED <<ids, log, state, pos, feeds, lost, subId, started, inbox, read, history>>

\* The join handle resolved; there was none if somebody else had stopped it.
Closes(t) ==
    LET o == Owner[t]
    IN  /\ task[t].pc = "closing"
        /\ task[t].id # None => state[task[t].id] = "done"
        /\ started' = [started EXCEPT ![o] = FALSE]
        /\ task' = [task EXCEPT ![t] = Idle]
        /\ UNCHANGED <<ids, registry, log, listener, subId, topics, inbox, read, history>>

\* A cancelled aclose has its `finally` done without the join.
CancelClose(t) ==
    /\ Fault
    /\ task[t].pc = "closing"
    /\ orphans' = orphans \cup ({task[t].id} \ {None})
    /\ started' = [started EXCEPT ![Owner[t]] = FALSE]
    /\ task' = [task EXCEPT ![t] = Idle]
    /\ UNCHANGED <<ids, registry, log, listener, subId, topics, inbox, read, doomed>>

\* get_message takes the next message (and drops it when it is of a topic the
\* object is not subscribed to by now, which is not followed further here).  When
\* the task is cancelled its worker thread, at the queue already, still takes one.
GetMessage(o) ==
    /\ read[o] < Len(inbox[o])
    /\ read' = [read EXCEPT ![o] = @ + 1]
    /\ UNCHANGED <<ids, registry, log, listener, subId, started, topics, inbox, task,
                   history>>

-----------------------------------------------------------------------------

Init ==
    /\ ids = 0
    /\ subs = [t \in Topics |-> {}]
    /\ mine = [id \in Ids |-> {}]
    /\ stoppers = {}
    /\ log = <<>>
    /\ state = [id \in Ids |-> "none"]
    /\ pos = [id \in Ids |-> 0]
    /\ flag = [id \in Ids |-> FALSE]
    /\ feeds = [id \in Ids |-> None]
    /\ subId = [o \in Objects |-> None]
    /\ started = [o \in Objects |-> FALSE]
    /\ topics = [o \in Objects |-> {}]
    /\ inbox = [o \in Objects |-> <<>>]
    /\ read = [o \in Objects |-> 0]
    /\ task = [t \in Tasks |-> Idle]
    /\ lost = [id \in Ids |-> {}]
    /\ faults = 0
    /\ doomed = {}
    /\ orphans = {}

ListenerStep(id) ==
    \/ ListenerStarts(id)
    \/ ListenerRegisters(id)
    \/ Recv(id)
    \/ Enters(id)
    \/ Puts(id)
    \/ ListenerStops(id)

TaskStep(t) ==
    \/ \E topic \in Topics : Subscribe(t, topic)
    \/ \E some \in SUBSET Topics : Unsubscribe(t, some)
    \/ Subscribes(t)
    \/ CancelSubscribe(t)
    \/ AClose(t)
    \/ Closes(t)
    \/ CancelClose(t)

Next ==
    \/ \E ch \in Channels : Publish(ch) \/ ScriptPublish(ch)
    \/ \E id \in Ids : ListenerStep(id)
    \/ \E t \in Tasks : TaskStep(t)
    \/ \E o \in Objects : GetMessage(o)
    \/ Shutdown

Spec == Init /\ [][Next]_vars

\* tokio runs the tasks that are ready; nobody has to call anything.
Fairness ==
    \A id \in Ids :
        /\ WF_vars(ListenerStarts(id))
        /\ WF_vars(ListenerRegisters(id))
        /\ WF_vars(Recv(id))
        /\ WF_vars(Enters(id))
        /\ WF_vars(Puts(id))
        /\ WF_vars(ListenerStops(id))

FairSpec == Spec /\ Fairness

-----------------------------------------------------------------------------
(* Properties *)

Alive(id) == state[id] \in {"running", "holding", "entering"}

Queued(m, id) == feeds[id] \in Objects /\ m \in Range(inbox[feeds[id]])

\* What the task that awaited a listener's start or end did not live to see is
\* nobody's: aclose stops the listener the object knows, which is another one.
Known(id) == id \notin orphans

\* An object's queue has the messages in the order they were sent, each once,
\* over any number of closings and new subscriptions and the end of the client.
QueueInOrder ==
    \A o \in Objects :
        (\A id \in Ids : feeds[id] = o => Known(id))
            => \A i, j \in DOMAIN inbox[o] : i < j => inbox[o][i] < inbox[o][j]

\* When aclose has returned the listener is gone (aclose: "awaits the Rust
\* listener's actual exit before returning"): an object that has no listener
\* and is not starting one is fed by nobody.  Shutdown takes the join handle
\* away: what it stopped, aclose cannot wait for.
ClosedIsQuiet ==
    \A o \in Objects :
        ~started[o] /\ (\A t \in Tasks : Owner[t] = o => task[t].pc # "starting")
            => \A id \in Ids : feeds[id] = o /\ Known(id) /\ id \notin doomed => ~Alive(id)

\* Once its stop flag is set, a listener puts nothing more in the queue, whatever
\* it was doing ("mid-delivery when aclose fires the oneshot").
StopIsFinal ==
    [][\A o \in Objects : inbox'[o] # inbox[o] =>
          \E id \in Ids : feeds[id] = o /\ Alive(id) /\ ~flag[id]]_vars

\* A counted message arrives in the end, unless the listener lags or is stopped.
CountedArrives ==
    \A m \in 1 .. MaxLog, id \in Ids :
        (m \in DOMAIN log /\ id \in log[m].to)
            ~> (Queued(m, id) \/ m \in lost[id] \/ flag[id])

\* aclose does not wait for ever: a listener that was told to stop ends, however
\* many messages are waiting.
StoppedEnds == \A id \in Ids : flag[id] ~> (state[id] = "done")

=============================================================================
