--------------------------- MODULE PubSubProofs ---------------------------
(***************************************************************************)
(* Proofs about PubSub: the life cycle of the listeners of an object.      *)
(*                                                                         *)
(* The properties speak about the queue of an object and about listeners   *)
(* that should be gone.  What makes them true is that at most one listener *)
(* of an object may still put something in its queue: the one the object   *)
(* knows by _subscriber_id.  The invariant says where every other one went *)
(* (it ended, was told to stop, or was orphaned by a cancellation), and    *)
(* ties the three places that know of the current one together: the        *)
(* object, the task that awaits its start or its end, and the stoppers of  *)
(* the registry.                                                           *)
(*                                                                         *)
(* The second part is about the matcher of PSUBSCRIBE (GlobMatch): what it *)
(* answers on every pattern and every string.                              *)
(***************************************************************************)
EXTENDS PubSub, GlobMatch, FiniteSetTheorems, TLAPS

\* An object is used by one task: two that subscribe at once start two listeners,
\* of which the object knows one (pubsub.py:41).
OneTaskEach == \A t, u \in Tasks : Owner[t] = Owner[u] => t = u

-----------------------------------------------------------------------------
(* The invariant *)

States == {"none", "asked", "running", "holding", "entering", "done"}
Calls  == [pc : {"idle", "starting", "closing"}, id : Ids \cup {None},
           topic : Topics \cup {None}]

RegistryType ==
    /\ ids \in Nat /\ ids <= MaxIds
    /\ subs \in [Topics -> SUBSET Ids]
    /\ mine \in [Ids -> SUBSET Topics]
    /\ stoppers \in SUBSET Ids
    /\ log \in Seq([topic : Topics, to : SUBSET Ids])

ListenerType ==
    /\ state \in [Ids -> States]
    /\ pos \in [Ids -> Nat]
    /\ flag \in [Ids -> BOOLEAN]
    /\ feeds \in [Ids -> Objects \cup {None}]
    /\ lost \in [Ids -> SUBSET Nat]

ObjectType ==
    /\ subId \in [Objects -> Ids \cup {None}]
    /\ started \in [Objects -> BOOLEAN]
    /\ topics \in [Objects -> SUBSET Topics]
    /\ inbox \in [Objects -> Seq(Nat)]
    /\ read \in [Objects -> Nat]
    /\ task \in [Tasks -> Calls]

HistoryType ==
    /\ faults \in Nat
    /\ doomed \in SUBSET Ids
    /\ orphans \in SUBSET Ids

\* Every variable has its type.
TypeOK == RegistryType /\ ListenerType /\ ObjectType /\ HistoryType

\* An id that was not handed out belongs to nothing yet.
Unused(id) ==
    /\ state[id] = "none"
    /\ ~flag[id]
    /\ id \notin stoppers
    /\ id \notin orphans

Numbered ==
    \A id \in Ids :
        /\ id > ids => Unused(id)
        /\ id <= ids => feeds[id] \in Objects

\* The id an object has is that of a listener for its queue.
Ours(o) == subId[o] # None => subId[o] <= ids /\ feeds[subId[o]] = o

\* A listener that has not ended.
Live(id) == state[id] \in {"asked", "running", "holding", "entering"}

\* Shutdown fires the flag of what it stops.
DoomedAreStopped == \A id \in doomed : flag[id]

\* What a task awaits is the listener its object knows, and nobody but shutdown
\* has stopped one that is starting.
TaskOK(t) ==
    LET o == Owner[t]
    IN  /\ task[t].pc = "starting" =>
              /\ ~started[o]
              /\ task[t].topic \in Topics
              /\ task[t].id = subId[o]
              /\ task[t].id \in Ids
              /\ flag[task[t].id] => task[t].id \in doomed
        /\ task[t].pc = "closing" =>
              /\ started[o]
              /\ task[t].id = subId[o] \/ (task[t].id = None /\ subId[o] \in doomed)

\* A listener the object counts as started can be stopped and waited for, unless
\* that has happened.
StartedOK(o) ==
    started[o] =>
        /\ subId[o] \in Ids
        /\ \/ subId[o] \in stoppers
           \/ subId[o] \in doomed
           \/ \E t \in Tasks : Owner[t] = o /\ task[t].pc = "closing"

\* A listener that nobody but aclose will stop is the one its object knows, and
\* the object is subscribing, subscribed or closing.
KnownByObject ==
    \A id \in Ids :
        Live(id) /\ Known(id) /\ id \notin doomed =>
            /\ id = subId[feeds[id]]
            /\ \/ started[feeds[id]]
               \/ \E t \in Tasks : Owner[t] = feeds[id] /\ task[t].pc = "starting"

LifeInv ==
    /\ Numbered
    /\ DoomedAreStopped
    /\ \A t \in Tasks : TaskOK(t)
    /\ \A o \in Objects : Ours(o) /\ StartedOK(o)
    /\ KnownByObject

\* No receiver is ahead of the ring.
Behind == \A id \in Ids : pos[id] <= Len(log)

AllKnown(o) == \A id \in Ids : feeds[id] = o => Known(id)

\* The entries of a queue are increasing numbers of messages ...
Rising(q) == \A i, j \in DOMAIN q : i < j => q[i] < q[j]

\* ... up to n.
UpTo(q, n) == \A i \in DOMAIN q : q[i] <= n

\* Everything in the queue of a running listener is something it has gone past;
\* the message it holds is not there yet.
Ahead(id) ==
    LET q == inbox[feeds[id]]
    IN  ~flag[id] =>
            /\ state[id] = "running" => UpTo(q, pos[id])
            /\ state[id] \in {"holding", "entering"} => pos[id] > 0 /\ UpTo(q, pos[id] - 1)

QueueOK(o) ==
    AllKnown(o) =>
        /\ Rising(inbox[o])
        /\ UpTo(inbox[o], Len(log))
        /\ \A id \in Ids : feeds[id] = o => Ahead(id)

QueueInv == Behind /\ \A o \in Objects : QueueOK(o)

IInv == TypeOK /\ LifeInv /\ QueueInv

-----------------------------------------------------------------------------
(* Types *)

\* What PUBLISH broadcasts is appended to the log.
LEMMA PublishGrows ==
    ASSUME RegistryType, NEW ch \in Channels, Publish(ch)
    PROVE  /\ log' \in Seq([topic : Topics, to : SUBSET Ids])
           /\ Len(log) <= Len(log')
<1> DEFINE M     == [topic : Topics, to : SUBSET Ids]
           n     == Cardinality(Hits(ch))
           exact == IF subs[ch] = {} THEN <<>> ELSE <<Message(ch)>>
<1>1. \A t \in Topics : Message(t) \in M
  BY DEF RegistryType, Message
<1>2. exact \in Seq(M)
  <2>1. Message(ch) \in M
    BY <1>1 DEF Topics
  <2> DEFINE m == Message(ch)
  <2> HIDE DEF M, m
  <2>2. <<m>> \in Seq(M) /\ <<>> \in Seq(M)
    BY <2>1 DEF m
  <2> QED BY <2>2 DEF m
<1>3. Hits(ch) \subseteq Topics /\ IsFiniteSet(Hits(ch))
  <2>1. Hits(ch) \subseteq Patterns
    BY DEF Hits
  <2> QED BY <2>1, ConstantsAssumption, FS_Subset DEF Topics
<1>4. n \in Nat
  BY <1>3, FS_CardinalityType
<1>5. PICK order \in Bijection(1 .. n, Hits(ch)) :
          log' = log \o [i \in 1 .. n |-> Message(order[i])] \o exact
  BY Zenon DEF Publish
<1>6. order \in [1 .. n -> Hits(ch)]
  BY <1>5 DEF Bijection, Injection
<1> DEFINE some == [i \in 1 .. n |-> Message(order[i])]
<1>7. \A i \in 1 .. n : Message(order[i]) \in M
  BY <1>1, <1>3, <1>6
<1>8. some \in Seq(M)
  <2>1. some \in [1 .. n -> M]
    BY <1>7
  <2> HIDE DEF some, n, M
  <2> QED BY <1>4, <2>1
<1>9. log \in Seq(M)
  BY DEF RegistryType
<1>10. log' = log \o some \o exact
  BY <1>5
<1> HIDE DEF M, n, exact, some
<1>11. log \o some \in Seq(M) /\ Len(log \o some) = Len(log) + Len(some)
  BY <1>8, <1>9
<1>12. (log \o some) \o exact \in Seq(M)
       /\ Len((log \o some) \o exact) = Len(log \o some) + Len(exact)
  BY <1>2, <1>11
<1>13. Len(log) \in Nat /\ Len(some) \in Nat /\ Len(exact) \in Nat
  BY <1>2, <1>8, <1>9
<1>14. log' \in Seq(M) /\ Len(log) <= Len(log')
  BY <1>10, <1>11, <1>12, <1>13
<1> QED BY <1>14 DEF M

\* The log is never cut back.
LEMMA LogGrows ==
    ASSUME TypeOK, Next
    PROVE  Len(log) \in Nat /\ Len(log') \in Nat /\ Len(log) <= Len(log')
<1>1. log \in Seq([topic : Topics, to : SUBSET Ids]) /\ Len(log) \in Nat
  BY DEF TypeOK, RegistryType
<1>2. ASSUME log' = log PROVE Len(log') \in Nat /\ Len(log) <= Len(log')
  BY <1>1, <1>2
<1>3. ASSUME NEW ch \in Channels, Publish(ch)
      PROVE  Len(log') \in Nat /\ Len(log) <= Len(log')
  BY <1>3, PublishGrows DEF TypeOK
<1>4. ASSUME NEW ch \in Channels, ScriptPublish(ch)
      PROVE  Len(log') \in Nat /\ Len(log) <= Len(log')
  BY <1>1, <1>4 DEF ScriptPublish
<1>5. ASSUME NEW id \in Ids, ListenerStep(id) PROVE log' = log
  BY <1>5 DEF ListenerStep, ListenerStarts, ListenerRegisters, Recv, Enters, Puts, ListenerStops
<1>6. ASSUME NEW t \in Tasks, TaskStep(t) PROVE log' = log
  BY <1>6 DEF TaskStep, Subscribe, Unsubscribe, Subscribes, CancelSubscribe, AClose, Closes,
              CancelClose
<1>7. ASSUME NEW o \in Objects, GetMessage(o) PROVE log' = log
  BY <1>7 DEF GetMessage
<1>8. ASSUME Shutdown PROVE log' = log
  BY <1>8 DEF Shutdown
<1> QED BY <1>1, <1>2, <1>3, <1>4, <1>5, <1>6, <1>7, <1>8 DEF Next

\* A broadcast keeps the types.
LEMMA BroadcastTypes ==
    ASSUME TypeOK, NEW ch \in Channels, Publish(ch) \/ ScriptPublish(ch)
    PROVE  TypeOK'
<1>1. UNCHANGED <<ids, subs, mine, stoppers, state, pos, flag, feeds, lost, subId, started,
                  topics, read, inbox, task, faults, doomed, orphans>>
  BY DEF Publish, ScriptPublish, registry, listener, object, history
<1>2. log' \in Seq([topic : Topics, to : SUBSET Ids])
  <2>1. CASE Publish(ch)
    BY <2>1, PublishGrows DEF TypeOK
  <2>2. CASE ScriptPublish(ch)
    <3>1. [topic |-> ch, to |-> {}] \in [topic : Topics, to : SUBSET Ids]
      BY DEF Topics
    <3> QED BY <2>2, <3>1 DEF ScriptPublish, TypeOK, RegistryType
  <2> QED BY <2>1, <2>2
<1> QED BY <1>1, <1>2 DEF TypeOK, RegistryType, ListenerType, ObjectType, HistoryType

\* The steps of a listener keep the types.
LEMMA ListenerTypes ==
    ASSUME TypeOK, NEW id \in Ids, ListenerStep(id)
    PROVE  TypeOK'
<1>1. UNCHANGED <<ids, subs, mine, log, subId, started, topics, read, task, faults, doomed,
                  orphans, flag, feeds>>
  BY DEF ListenerStep, ListenerStarts, ListenerRegisters, Recv, Enters, Puts, ListenerStops,
         registry, listener, object, history
<1>2. Len(log) \in Nat
  BY DEF TypeOK, RegistryType
<1>3. RegistryType'
  BY <1>1 DEF TypeOK, RegistryType, ListenerStep, ListenerStarts, ListenerRegisters, Recv,
              Enters, Puts, ListenerStops, registry
<1>4. state' \in [Ids -> States]
  BY DEF TypeOK, ListenerType, ListenerStep, ListenerStarts, ListenerRegisters, Recv, Enters,
         Puts, ListenerStops, States, listener
<1>5. pos' \in [Ids -> Nat] /\ lost' \in [Ids -> SUBSET Nat]
  <2>1. CASE UNCHANGED <<pos, lost>>
    BY <2>1 DEF TypeOK, ListenerType
  <2>2. CASE ListenerStarts(id)
    BY <1>2, <2>2 DEF TypeOK, ListenerType, ListenerStarts
  <2>3. CASE Recv(id)
    <3>1. pos[id] \in Nat /\ RingSize \in Nat
      BY ConstantsAssumption DEF TypeOK, ListenerType
    <3>2. CASE pos' = [pos EXCEPT ![id] = @ + 1] /\ UNCHANGED lost
      BY <3>1, <3>2 DEF TypeOK, ListenerType
    <3>3. CASE /\ pos[id] < Len(log) - RingSize
               /\ pos' = [pos EXCEPT ![id] = Len(log) - RingSize]
               /\ lost' = [lost EXCEPT ![id] = @ \cup (pos[id] + 1) .. (Len(log) - RingSize)]
      <4>1. Len(log) - RingSize \in Nat
        BY <1>2, <3>1, <3>3
      <4>2. (pos[id] + 1) .. (Len(log) - RingSize) \in SUBSET Nat
        BY <3>1, <4>1
      <4> QED BY <3>3, <4>1, <4>2 DEF TypeOK, ListenerType
    <3> QED BY <2>3, <3>2, <3>3 DEF Recv
  <2> QED BY <2>1, <2>2, <2>3
          DEF ListenerStep, ListenerRegisters, Enters, Puts, ListenerStops, listener
<1>6. inbox' \in [Objects -> Seq(Nat)]
  <2>1. CASE UNCHANGED inbox
    BY <2>1 DEF TypeOK, ObjectType
  <2>2. CASE Puts(id) /\ inbox' = [inbox EXCEPT ![feeds[id]] = Append(@, pos[id])]
    <3> DEFINE q == Append(inbox[feeds[id]], pos[id])
    <3>1. pos[id] \in Nat /\ inbox \in [Objects -> Seq(Nat)]
      BY DEF TypeOK, ObjectType, ListenerType
    <3>2. feeds[id] \in Objects => q \in Seq(Nat)
      BY <3>1
    <3>3. inbox' = [inbox EXCEPT ![feeds[id]] = q]
      BY <2>2
    <3> HIDE DEF q
    <3> QED BY <3>1, <3>2, <3>3
  <2> QED BY <2>1, <2>2
          DEF ListenerStep, ListenerStarts, ListenerRegisters, Recv, Enters, Puts, ListenerStops
<1> QED BY <1>1, <1>3, <1>4, <1>5, <1>6 DEF TypeOK, ListenerType, ObjectType, HistoryType

\* Stopping listeners keeps the types.
LEMMA StopTypes ==
    ASSUME TypeOK, NEW some \in SUBSET Ids, Stop(some)
    PROVE  /\ stoppers' \in SUBSET Ids
           /\ flag' \in [Ids -> BOOLEAN]
           /\ subs' \in [Topics -> SUBSET Ids]
           /\ mine' \in [Ids -> SUBSET Topics]
  BY DEF TypeOK, RegistryType, ListenerType, Stop

\* Subscribing keeps the types.
LEMMA EnrolsTypes ==
    ASSUME TypeOK, NEW t \in Tasks, NEW id \in Ids, NEW topic \in Topics, Enrols(t, id, topic)
    PROVE  /\ subs' \in [Topics -> SUBSET Ids]
           /\ mine' \in [Ids -> SUBSET Topics]
           /\ topics' \in [Objects -> SUBSET Topics]
  BY ConstantsAssumption DEF TypeOK, RegistryType, ObjectType, Enrols, Joined

\* The steps of a task keep the types.
LEMMA TaskTypes ==
    ASSUME TypeOK, LifeInv, NEW t \in Tasks, TaskStep(t)
    PROVE  TypeOK'
<1> DEFINE o == Owner[t]
<1>1. o \in Objects /\ task[t] \in Calls /\ Idle \in Calls
  BY ConstantsAssumption DEF TypeOK, ObjectType, Calls, Idle
<1>2. TaskOK(t) /\ StartedOK(o)
  BY <1>1 DEF LifeInv
<1>3. MaxIds \in Nat /\ \A n \in Nat : n < MaxIds => n + 1 \in Ids
  BY ConstantsAssumption DEF Ids
<1>4. ASSUME NEW topic \in Topics, Subscribe(t, topic) PROVE TypeOK'
  <2>1. UNCHANGED <<stoppers, log, pos, flag, started, inbox, read, lost, faults, doomed, orphans>>
    BY <1>4 DEF Subscribe, history
  <2>2. CASE started[o]
    <3>1. UNCHANGED <<ids, state, feeds, subId, task>> /\ Enrols(t, subId[o], topic)
      BY <1>4, <2>2 DEF Subscribe
    <3>2. /\ subs' \in [Topics -> SUBSET Ids]
          /\ mine' \in [Ids -> SUBSET Topics]
          /\ topics' \in [Objects -> SUBSET Topics]
      BY <1>2, <2>2, <3>1, EnrolsTypes DEF StartedOK
    <3> QED BY <2>1, <3>1, <3>2 DEF TypeOK, RegistryType, ListenerType, ObjectType, HistoryType
  <2>3. CASE ~started[o]
    <3> DEFINE c == [pc |-> "starting", id |-> ids + 1, topic |-> topic]
    <3>1. /\ ids < MaxIds /\ ids' = ids + 1
          /\ subId' = [subId EXCEPT ![o] = ids + 1]
          /\ state' = [state EXCEPT ![ids + 1] = "asked"]
          /\ feeds' = [feeds EXCEPT ![ids + 1] = o]
          /\ task' = [task EXCEPT ![t] = c]
          /\ UNCHANGED <<subs, mine, topics>>
      BY <1>4, <2>3 DEF Subscribe
    <3>2. ids + 1 \in Ids /\ ids \in Nat /\ ids' <= MaxIds
      BY <1>3, <3>1 DEF TypeOK, RegistryType
    <3>3. c \in Calls
      BY <3>2 DEF Calls
    <3>4. "asked" \in States
      BY DEF States
    <3> HIDE DEF c, o
    <3>5. task' \in [Tasks -> Calls] /\ subId' \in [Objects -> Ids \cup {None}]
      BY <3>1, <3>2, <3>3 DEF TypeOK, ObjectType
    <3>6. state' \in [Ids -> States] /\ feeds' \in [Ids -> Objects \cup {None}]
      BY <1>1, <3>1, <3>4 DEF TypeOK, ListenerType
    <3> QED BY <2>1, <3>1, <3>2, <3>5, <3>6
            DEF TypeOK, RegistryType, ListenerType, ObjectType, HistoryType
  <2> QED BY <2>2, <2>3
<1>5. ASSUME NEW some \in SUBSET Topics, Unsubscribe(t, some) PROVE TypeOK'
  <2>1. /\ UNCHANGED <<ids, stoppers, log, state, pos, flag, feeds, lost, subId, started, inbox,
                       read, task, faults, doomed, orphans>>
        /\ topics' = [topics EXCEPT ![o] = @ \ some]
        /\ Left(subId[o], some)
    BY <1>5 DEF Unsubscribe, listener, history
  <2>2. subs' \in [Topics -> SUBSET Ids] /\ mine' \in [Ids -> SUBSET Topics]
    BY <2>1 DEF Left, TypeOK, RegistryType
  <2> QED BY <2>1, <2>2 DEF TypeOK, RegistryType, ListenerType, ObjectType, HistoryType
<1>6. ASSUME Subscribes(t) PROVE TypeOK'
  <2>1. /\ UNCHANGED <<ids, stoppers, log, state, pos, flag, feeds, lost, subId, inbox, read,
                       faults, doomed, orphans>>
        /\ Enrols(t, subId[o], task[t].topic)
        /\ started' = [started EXCEPT ![o] = TRUE]
        /\ task' = [task EXCEPT ![t] = Idle]
        /\ task[t].pc = "starting"
    BY <1>6 DEF Subscribes, listener, history
  <2>2. /\ subs' \in [Topics -> SUBSET Ids]
        /\ mine' \in [Ids -> SUBSET Topics]
        /\ topics' \in [Objects -> SUBSET Topics]
    BY <1>2, <2>1, EnrolsTypes DEF TaskOK
  <2> QED BY <1>1, <2>1, <2>2 DEF TypeOK, RegistryType, ListenerType, ObjectType, HistoryType
<1>7. ASSUME CancelSubscribe(t) PROVE TypeOK'
  <2>1. /\ UNCHANGED <<ids, subs, mine, stoppers, log, pos, flag, feeds, subId, started, topics,
                       read, inbox, lost, doomed>>
        /\ orphans' = orphans \cup {task[t].id}
        /\ task' = [task EXCEPT ![t] = Idle]
        /\ state' = [state EXCEPT ![task[t].id] = IF @ = "asked" THEN "done" ELSE @]
        /\ faults' = faults + 1
        /\ task[t].id \in Ids
    BY <1>2, <1>7 DEF CancelSubscribe, Fault, registry, object, TaskOK
  <2>2. state' \in [Ids -> States]
    BY <2>1 DEF TypeOK, ListenerType, States
  <2> QED BY <1>1, <2>1, <2>2 DEF TypeOK, RegistryType, ListenerType, ObjectType, HistoryType
<1>8. ASSUME AClose(t) PROVE TypeOK'
  <2> DEFINE c == [pc |-> "closing", topic |-> None,
                   id |-> IF subId[o] \in stoppers THEN subId[o] ELSE None]
  <2>1. /\ UNCHANGED <<ids, log, state, pos, feeds, lost, subId, started, inbox, read, faults,
                       doomed, orphans>>
        /\ Stop({subId[o]})
        /\ topics' = [topics EXCEPT ![o] = {}]
        /\ task' = [task EXCEPT ![t] = c]
        /\ started[o]
    BY <1>8 DEF AClose, history
  <2>2. subId[o] \in Ids
    BY <1>2, <2>1 DEF StartedOK
  <2>3. c \in Calls
    BY <2>2 DEF Calls
  <2> HIDE DEF c
  <2>4. /\ stoppers' \in SUBSET Ids
        /\ flag' \in [Ids -> BOOLEAN]
        /\ subs' \in [Topics -> SUBSET Ids]
        /\ mine' \in [Ids -> SUBSET Topics]
    BY <2>1, <2>2, StopTypes
  <2> QED BY <2>1, <2>3, <2>4 DEF TypeOK, RegistryType, ListenerType, ObjectType, HistoryType
<1>9. ASSUME Closes(t) PROVE TypeOK'
  BY <1>1, <1>9 DEF Closes, registry, listener, history, TypeOK, RegistryType, ListenerType,
                    ObjectType, HistoryType
<1>10. ASSUME CancelClose(t) PROVE TypeOK'
  <2>1. orphans' \in SUBSET Ids
    BY <1>1, <1>10 DEF CancelClose, TypeOK, HistoryType, Calls
  <2> QED BY <1>1, <1>10, <2>1 DEF CancelClose, Fault, registry, listener, TypeOK, RegistryType,
                    ListenerType, ObjectType, HistoryType
<1> QED BY <1>4, <1>5, <1>6, <1>7, <1>8, <1>9, <1>10 DEF TaskStep

\* Reading the queue and closing the client keep the types.
LEMMA OtherTypes ==
    ASSUME TypeOK, (\E o \in Objects : GetMessage(o)) \/ Shutdown \/ UNCHANGED vars
    PROVE  TypeOK'
<1>1. ASSUME NEW o \in Objects, GetMessage(o) PROVE TypeOK'
  BY <1>1 DEF GetMessage, registry, listener, history, TypeOK, RegistryType, ListenerType,
              ObjectType, HistoryType
<1>2. CASE Shutdown
  <2>1. stoppers \in SUBSET Ids
    BY DEF TypeOK, RegistryType
  <2>2. /\ stoppers' \in SUBSET Ids
        /\ flag' \in [Ids -> BOOLEAN]
        /\ subs' \in [Topics -> SUBSET Ids]
        /\ mine' \in [Ids -> SUBSET Topics]
    BY <1>2, <2>1, StopTypes DEF Shutdown
  <2> QED BY <1>2, <2>1, <2>2 DEF Shutdown, Fault, object, TypeOK, RegistryType, ListenerType,
              ObjectType, HistoryType
<1>3. CASE UNCHANGED vars
  BY <1>3 DEF vars, TypeOK, RegistryType, ListenerType, ObjectType, HistoryType
<1> QED BY <1>1, <1>2, <1>3

-----------------------------------------------------------------------------
(* The life of a listener *)

\* The steps of a listener that has begun do not bring one to life.
LEMMA LifeListens ==
    ASSUME TypeOK, LifeInv,
           UNCHANGED <<ids, stoppers, flag, feeds, subId, started, task, doomed, orphans>>,
           \A id \in Ids : state[id] = "none" => state'[id] = "none",
           \A id \in Ids : Live(id)' => Live(id)
    PROVE  LifeInv'
<1>1. Numbered'
  BY DEF LifeInv, Numbered, Unused
<1>2. KnownByObject'
  BY DEF LifeInv, KnownByObject, Known
<1> QED BY <1>1, <1>2 DEF LifeInv, DoomedAreStopped, TaskOK, StartedOK, Ours

\* Nothing that matters to the life of listeners changed.
LEMMA LifeFrame ==
    ASSUME TypeOK, LifeInv,
           UNCHANGED <<ids, stoppers, state, flag, feeds, subId, started, task, doomed, orphans>>
    PROVE  LifeInv'
  BY LifeListens DEF Live

\* A step of a listener keeps the invariant.
LEMMA ListenerLife ==
    ASSUME TypeOK, LifeInv, NEW id \in Ids, ListenerStep(id)
    PROVE  LifeInv'
<1>1. CASE ListenerRegisters(id)
  <2>1. UNCHANGED <<ids, state, flag, feeds, subId, started, task, doomed, orphans>>
    BY <1>1 DEF ListenerRegisters, listener, object, history
  <2>2. stoppers' = stoppers \cup {id} /\ state[id] # "none"
    BY <1>1 DEF ListenerRegisters
  <2>3. Numbered'
    BY <2>1, <2>2 DEF LifeInv, Numbered, Unused
  <2>4. KnownByObject'
    BY <2>1 DEF LifeInv, KnownByObject, Known, Live
  <2> QED BY <2>1, <2>2, <2>3, <2>4 DEF LifeInv, DoomedAreStopped, TaskOK, StartedOK, Ours
<1>2. CASE ~ListenerRegisters(id)
  <2>1. UNCHANGED <<ids, stoppers, flag, feeds, subId, started, task, doomed, orphans>>
    BY <1>2 DEF ListenerStep, ListenerStarts, Recv, Enters, Puts, ListenerStops,
                registry, object, history
  <2>2. \A i \in Ids : i # id => state'[i] = state[i]
    BY <1>2 DEF TypeOK, ListenerType, ListenerStep, ListenerStarts, Recv, Enters, Puts,
                ListenerStops
  <2>3. Live(id)
    BY <1>2 DEF ListenerStep, ListenerStarts, Recv, Enters, Puts, ListenerStops, Live
  <2> QED BY <2>1, <2>2, <2>3, LifeListens DEF Live
<1> QED BY <1>1, <1>2

\* Closing the client dooms the listeners that are registered.
LEMMA ShutdownLife ==
    ASSUME TypeOK, LifeInv, Shutdown
    PROVE  LifeInv'
<1>1. /\ UNCHANGED <<ids, state, feeds, subId, started, task, orphans>>
      /\ stoppers' = {}
      /\ flag' = [id \in Ids |-> flag[id] \/ id \in stoppers]
      /\ doomed' = doomed \cup stoppers
  BY DEF Shutdown, Stop, object
<1>2. stoppers \in SUBSET Ids /\ doomed \in SUBSET Ids
  BY DEF TypeOK, RegistryType, HistoryType
<1>3. Numbered'
  BY <1>1 DEF LifeInv, Numbered, Unused
<1>4. DoomedAreStopped'
  BY <1>1, <1>2 DEF LifeInv, DoomedAreStopped
<1>5. \A t \in Tasks : TaskOK(t)'
  BY <1>1 DEF LifeInv, TaskOK
<1>6. \A o \in Objects : Ours(o)' /\ StartedOK(o)'
  BY <1>1 DEF LifeInv, Ours, StartedOK
<1>7. KnownByObject'
  BY <1>1 DEF LifeInv, KnownByObject, Known, Live
<1> QED BY <1>3, <1>4, <1>5, <1>6, <1>7 DEF LifeInv

\* A task that subscribes gives its object a new listener when it has none.
LEMMA SubscribeLife ==
    ASSUME TypeOK, LifeInv, OneTaskEach, NEW t \in Tasks, NEW topic \in Topics,
           Subscribe(t, topic)
    PROVE  LifeInv'
<1> DEFINE o == Owner[t]
<1>1. o \in Objects /\ task[t] = Idle
  BY ConstantsAssumption DEF Subscribe
<1>2. UNCHANGED <<stoppers, flag, started, doomed, orphans>>
  BY DEF Subscribe, history
<1>3. CASE started[o]
  <2>1. UNCHANGED <<ids, state, feeds, subId, task>>
    BY <1>3 DEF Subscribe
  <2> QED BY <1>2, <2>1, LifeFrame
<1>4. CASE ~started[o]
  <2> DEFINE new == ids + 1
             c == [pc |-> "starting", id |-> new, topic |-> topic]
  <2>1. /\ ids < MaxIds /\ ids' = new
        /\ subId' = [subId EXCEPT ![o] = new]
        /\ state' = [state EXCEPT ![new] = "asked"]
        /\ feeds' = [feeds EXCEPT ![new] = o]
        /\ task' = [task EXCEPT ![t] = c]
    BY <1>4 DEF Subscribe
  <2>2. new \in Ids /\ ids \in Nat /\ new > ids /\ new # None
    BY <2>1, ConstantsAssumption DEF TypeOK, RegistryType, Ids, None
  <2>3. \A id \in Ids : /\ id \in Int
                        /\ id > new => id > ids /\ id # new
                        /\ id <= new => id = new \/ id <= ids
                        /\ id <= ids => id <= new /\ id # new
    BY <2>2 DEF Ids
  <2>4. Unused(new)
    BY <2>2 DEF LifeInv, Numbered
  <2>5. c.pc = "starting" /\ c.id = new /\ c.topic = topic
    OBVIOUS
  <2>6. \A u \in Tasks : u # t => task'[u] = task[u] /\ Owner[u] # o /\ Owner[u] \in Objects
    BY <2>1, ConstantsAssumption DEF TypeOK, ObjectType, OneTaskEach
  <2>7. task'[t] = c
    BY <2>1 DEF TypeOK, ObjectType
  <2>8. /\ subId'[o] = new /\ state'[new] = "asked" /\ feeds'[new] = o
        /\ \A p \in Objects : p # o => subId'[p] = subId[p]
        /\ \A id \in Ids : id # new => state'[id] = state[id] /\ feeds'[id] = feeds[id]
    BY <1>1, <2>1, <2>2 DEF TypeOK, ObjectType, ListenerType
  <2>9. ids' = new
    BY <2>1
  <2> HIDE DEF o, new, c
  <2>10. Numbered'
    <3>1. \A id \in Ids : id > new => Unused(id)'
      BY <1>2, <2>3, <2>8 DEF LifeInv, Numbered, Unused
    <3>2. \A id \in Ids : id <= new => feeds'[id] \in Objects
      BY <1>1, <2>3, <2>8 DEF LifeInv, Numbered
    <3> QED BY <2>9, <3>1, <3>2 DEF Numbered
  <2>11. DoomedAreStopped'
    BY <1>2 DEF LifeInv, DoomedAreStopped
  <2>12. new \notin doomed
    BY <2>4 DEF LifeInv, DoomedAreStopped, Unused
  <2>13. \A p \in Objects : Ours(p)'
    <3>1. Ours(o)'
      BY <2>2, <2>8, <2>9, <2>3 DEF Ours
    <3>2. ASSUME NEW p \in Objects, p # o PROVE Ours(p)'
      <4>1. Ours(p) /\ subId[p] \in Ids \cup {None} /\ subId'[p] = subId[p]
        BY <2>8, <3>2 DEF LifeInv, TypeOK, ObjectType
      <4> QED BY <2>3, <2>8, <2>9, <4>1 DEF Ours
    <3> QED BY <3>1, <3>2
  <2>14. \A u \in Tasks : TaskOK(u)'
    <3>1. TaskOK(t)'
      BY <1>2, <1>4, <2>2, <2>4, <2>5, <2>7, <2>8 DEF TaskOK, Unused, o
    <3>2. ASSUME NEW u \in Tasks, u # t PROVE TaskOK(u)'
      <4>1. task'[u] = task[u] /\ subId'[Owner[u]] = subId[Owner[u]]
        BY <2>6, <2>8, <3>2
      <4> QED BY <1>2, <4>1 DEF TaskOK, LifeInv
    <3> QED BY <3>1, <3>2
  <2>15. \A p \in Objects : StartedOK(p)'
    <3>1. StartedOK(o)'
      BY <1>2, <1>4 DEF StartedOK, o
    <3>2. ASSUME NEW p \in Objects, p # o PROVE StartedOK(p)'
      <4>1. StartedOK(p) /\ subId'[p] = subId[p]
        BY <2>8, <3>2 DEF LifeInv
      <4>2. \A u \in Tasks : Owner[u] = p => task'[u] = task[u]
        BY <2>6, <3>2 DEF o
      <4> QED BY <1>2, <4>1, <4>2 DEF StartedOK
    <3> QED BY <3>1, <3>2
  <2>16. KnownByObject'
    <3> SUFFICES ASSUME NEW id \in Ids, Live(id)', Known(id)', id \notin doomed'
                 PROVE  /\ id = subId'[feeds'[id]]
                        /\ \/ started'[feeds'[id]]
                           \/ \E u \in Tasks : Owner[u] = feeds'[id] /\ task'[u].pc = "starting"
      BY DEF KnownByObject
    <3>1. CASE id = new
      BY <2>5, <2>7, <2>8, <3>1 DEF o
    <3>2. CASE id # new
      <4>1. Live(id) /\ Known(id) /\ id \notin doomed /\ feeds'[id] = feeds[id]
        BY <1>2, <2>8, <3>2 DEF Live, Known
      <4>2. /\ id = subId[feeds[id]]
            /\ \/ started[feeds[id]]
               \/ \E u \in Tasks : Owner[u] = feeds[id] /\ task[u].pc = "starting"
        BY <4>1 DEF LifeInv, KnownByObject
      <4>3. feeds[id] \in Objects
        BY <2>3, <4>1, <2>8, <3>2 DEF LifeInv, Numbered, Unused, Live, TypeOK, RegistryType
      <4>4. feeds[id] # o
        BY <1>1, <1>4, <2>6, <4>2 DEF o, Idle
      <4>5. \A u \in Tasks : Owner[u] = feeds[id] => task'[u] = task[u]
        BY <2>6, <4>4 DEF o
      <4> QED BY <1>2, <2>8, <4>1, <4>2, <4>3, <4>4, <4>5
    <3> QED BY <3>1, <3>2
  <2> QED BY <2>10, <2>11, <2>13, <2>14, <2>15, <2>16 DEF LifeInv
<1> QED BY <1>3, <1>4

\* A step of a task that changes only its own await and its own object leaves what
\* the invariant says of the others as it was.
LEMMA OthersLife ==
    ASSUME TypeOK, LifeInv, OneTaskEach, NEW t \in Tasks,
           UNCHANGED <<ids, feeds, subId>>,
           DoomedAreStopped', Numbered',
           \A u \in Tasks : u # t => task'[u] = task[u],
           \A p \in Objects : p # Owner[t] => started'[p] = started[p],
           \A p \in Objects : p # Owner[t] =>
              /\ subId[p] \in stoppers => subId[p] \in stoppers' \cup doomed'
              /\ subId[p] \in doomed => subId[p] \in doomed',
           \A p \in Objects : p # Owner[t] /\ subId[p] \in Ids =>
              (flag'[subId[p]] => flag[subId[p]] \/ subId[p] \in doomed'),
           \A id \in Ids : /\ Live(id)' => Live(id)
                           /\ Known(id)' => Known(id)
                           /\ id \in doomed => id \in doomed',
           TaskOK(t)', StartedOK(Owner[t])',
           \A id \in Ids : feeds[id] = Owner[t] /\ Live(id) /\ Known(id)' /\ id \notin doomed'
                              /\ id = subId[Owner[t]]
               => (Live(id)' => started'[Owner[t]] \/ task'[t].pc = "starting")
    PROVE  LifeInv'
<1>1. \A u \in Tasks : u # t => Owner[u] # Owner[t] /\ Owner[u] \in Objects
  BY ConstantsAssumption DEF OneTaskEach
<1>2. \A o \in Objects : Ours(o)'
  BY DEF LifeInv, Ours
<1>3. ASSUME NEW u \in Tasks, u # t PROVE TaskOK(u)'
  <2>1. /\ task'[u] = task[u] /\ started'[Owner[u]] = started[Owner[u]]
        /\ subId'[Owner[u]] = subId[Owner[u]]
        /\ Owner[u] \in Objects /\ Owner[u] # Owner[t]
    BY <1>1, <1>3
  <2>2. TaskOK(u)
    BY DEF LifeInv
  <2>3. subId[Owner[u]] \in doomed => subId[Owner[u]] \in doomed'
    BY <2>1
  <2>4. subId[Owner[u]] \in Ids =>
          (flag'[subId[Owner[u]]] => flag[subId[Owner[u]]] \/ subId[Owner[u]] \in doomed')
    BY <2>1
  <2> QED BY <2>1, <2>2, <2>3, <2>4 DEF TaskOK
<1>4. ASSUME NEW p \in Objects, p # Owner[t] PROVE StartedOK(p)'
  <2>1. StartedOK(p) /\ started'[p] = started[p] /\ subId'[p] = subId[p]
    BY <1>4 DEF LifeInv
  <2>2. \A u \in Tasks : Owner[u] = p => task'[u] = task[u]
    BY <1>4
  <2>3. /\ subId[p] \in stoppers => subId[p] \in stoppers' \cup doomed'
        /\ subId[p] \in doomed => subId[p] \in doomed'
    BY <1>4
  <2> QED BY <2>1, <2>2, <2>3 DEF StartedOK
<1>5. KnownByObject'
  <2> SUFFICES ASSUME NEW id \in Ids, Live(id)', Known(id)', id \notin doomed'
               PROVE  /\ id = subId[feeds[id]]
                      /\ \/ started'[feeds[id]]
                         \/ \E u \in Tasks : Owner[u] = feeds[id] /\ task'[u].pc = "starting"
    BY DEF KnownByObject
  <2>1. Live(id) /\ Known(id) /\ id \notin doomed
    OBVIOUS
  <2>2. /\ id = subId[feeds[id]]
        /\ \/ started[feeds[id]]
           \/ \E u \in Tasks : Owner[u] = feeds[id] /\ task[u].pc = "starting"
    BY <2>1 DEF LifeInv, KnownByObject
  <2>3. feeds[id] \in Objects
    <3>1. id \in Int /\ ids \in Int
      BY DEF Ids, TypeOK, RegistryType
    <3> QED BY <2>1, <3>1 DEF LifeInv, Numbered, Unused, Live
  <2>4. CASE feeds[id] = Owner[t]
    BY <2>1, <2>2, <2>4
  <2>5. CASE feeds[id] # Owner[t]
    <3>1. started'[feeds[id]] = started[feeds[id]]
      BY <2>3, <2>5
    <3>2. \A u \in Tasks : Owner[u] = feeds[id] => task'[u] = task[u]
      BY <2>5
    <3> QED BY <2>2, <3>1, <3>2
  <2> QED BY <2>4, <2>5
<1> QED BY <1>2, <1>3, <1>4, <1>5 DEF LifeInv

\* A task that awaits has got the listener it waited for, or is cancelled.
LEMMA SubscribesLife ==
    ASSUME TypeOK, LifeInv, OneTaskEach, NEW t \in Tasks, Subscribes(t)
    PROVE  LifeInv'
<1> DEFINE o == Owner[t]
<1>1. o \in Objects /\ TaskOK(t)
  BY ConstantsAssumption DEF LifeInv
<1>2. /\ UNCHANGED <<ids, stoppers, state, flag, feeds, subId, doomed, orphans>>
      /\ started' = [started EXCEPT ![o] = TRUE]
      /\ task' = [task EXCEPT ![t] = Idle]
      /\ task[t].pc = "starting"
      /\ task[t].id \in stoppers \/ flag[task[t].id]
  BY DEF Subscribes, listener, history
<1>3. /\ task'[t] = Idle /\ started'[o] = TRUE
      /\ \A u \in Tasks : u # t => task'[u] = task[u]
      /\ \A p \in Objects : p # o => started'[p] = started[p]
  BY <1>1, <1>2 DEF TypeOK, ObjectType
<1>4. TaskOK(t)'
  BY <1>3 DEF TaskOK, Idle
<1>5. StartedOK(o)'
  BY <1>1, <1>2 DEF TaskOK, StartedOK
<1>6. DoomedAreStopped' /\ Numbered'
  BY <1>2 DEF LifeInv, DoomedAreStopped, Numbered, Unused
<1>7. \A id \in Ids : Live(id)' = Live(id) /\ Known(id)' = Known(id)
  BY <1>2 DEF Live, Known
<1> HIDE DEF o
<1> QED BY <1>2, <1>3, <1>4, <1>5, <1>6, <1>7, OthersLife DEF o

\* The listener of a cancelled subscribe is nobody's.
LEMMA CancelSubscribeLife ==
    ASSUME TypeOK, LifeInv, OneTaskEach, NEW t \in Tasks, CancelSubscribe(t)
    PROVE  LifeInv'
<1> DEFINE o == Owner[t]
<1>1. o \in Objects /\ TaskOK(t) /\ Ours(o)
  BY ConstantsAssumption DEF LifeInv
<1>2. /\ UNCHANGED <<ids, stoppers, flag, feeds, subId, started, doomed>>
      /\ orphans' = orphans \cup {task[t].id}
      /\ task' = [task EXCEPT ![t] = Idle]
      /\ state' = [state EXCEPT ![task[t].id] = IF @ = "asked" THEN "done" ELSE @]
      /\ task[t].pc = "starting"
  BY DEF CancelSubscribe, registry, object
<1>3. task[t].id = subId[o] /\ subId[o] \in Ids /\ ~started[o] /\ subId[o] # None
  BY <1>1, <1>2 DEF TaskOK, Ids, None
<1>4. /\ task'[t] = Idle
      /\ \A u \in Tasks : u # t => task'[u] = task[u]
      /\ \A id \in Ids : state'[id] = state[id] \/ (state[id] = "asked" /\ state'[id] = "done")
  BY <1>2 DEF TypeOK, ObjectType, ListenerType
<1>5. TaskOK(t)' /\ StartedOK(o)'
  BY <1>2, <1>3, <1>4 DEF TaskOK, Idle, StartedOK
<1>6. DoomedAreStopped'
  BY <1>2 DEF LifeInv, DoomedAreStopped
<1>7. Numbered'
  <2>1. subId[o] <= ids /\ ids \in Int /\ subId[o] \in Int
    BY <1>1, <1>3 DEF Ours, TypeOK, RegistryType, Ids
  <2>2. \A id \in Ids : id > ids => id # subId[o]
    BY <2>1 DEF Ids
  <2> QED BY <1>2, <1>3, <1>4, <2>2 DEF LifeInv, Numbered, Unused
<1>8. \A id \in Ids : (Live(id)' => Live(id)) /\ (Known(id)' => Known(id))
  BY <1>2, <1>4 DEF Live, Known
<1>9. ~Known(subId[o])'
  BY <1>2, <1>3 DEF Known
<1> HIDE DEF o
<1> QED BY <1>2, <1>4, <1>5, <1>6, <1>7, <1>8, <1>9, OthersLife DEF o

\* aclose stops the listener its object knows.
LEMMA ACloseLife ==
    ASSUME TypeOK, LifeInv, OneTaskEach, NEW t \in Tasks, AClose(t)
    PROVE  LifeInv'
<1> DEFINE o == Owner[t]
           c == [pc |-> "closing", topic |-> None,
                 id |-> IF subId[o] \in stoppers THEN subId[o] ELSE None]
<1>1. o \in Objects /\ TaskOK(t) /\ Ours(o) /\ StartedOK(o)
  BY ConstantsAssumption DEF LifeInv
<1>2. /\ UNCHANGED <<ids, state, feeds, subId, started, doomed, orphans>>
      /\ stoppers' = stoppers \ {subId[o]}
      /\ flag' = [id \in Ids |-> flag[id] \/ id \in {subId[o]} \cap stoppers]
      /\ task' = [task EXCEPT ![t] = c]
      /\ task[t] = Idle
      /\ started[o]
  BY DEF AClose, Stop, history
<1>3. c.pc = "closing" /\ c.id = IF subId[o] \in stoppers THEN subId[o] ELSE None
  OBVIOUS
<1> HIDE DEF c
<1>4. subId[o] \in Ids /\ (subId[o] \in stoppers \/ subId[o] \in doomed)
  <2>1. \A u \in Tasks : Owner[u] = o => task[u] = Idle
    BY <1>2 DEF OneTaskEach
  <2> QED BY <1>1, <1>2, <2>1 DEF StartedOK, Idle
<1>5. /\ task'[t] = c
      /\ \A u \in Tasks : u # t => task'[u] = task[u]
      /\ \A id \in Ids : flag[id] => flag'[id]
      /\ \A id \in Ids : id # subId[o] => flag'[id] = flag[id]
  BY <1>2 DEF TypeOK, ObjectType, ListenerType
<1>6. TaskOK(t)'
  BY <1>2, <1>3, <1>4, <1>5 DEF TaskOK
<1>7. StartedOK(o)'
  BY <1>2, <1>3, <1>4, <1>5 DEF StartedOK
<1>8. DoomedAreStopped'
  BY <1>2, <1>5 DEF LifeInv, DoomedAreStopped, TypeOK, HistoryType
<1>9. Numbered'
  <2>1. \A id \in Ids : id \notin stoppers => flag'[id] = flag[id]
    BY <1>2 DEF TypeOK, ListenerType
  <2> QED BY <1>2, <2>1 DEF LifeInv, Numbered, Unused
<1>10. \A id \in Ids : Live(id)' = Live(id) /\ Known(id)' = Known(id)
  BY <1>2 DEF Live, Known
<1>11. \A p \in Objects : p # o /\ subId[p] \in Ids => subId[p] # subId[o]
  <2>1. ASSUME NEW p \in Objects, p # o, subId[p] \in Ids, subId[p] = subId[o] PROVE FALSE
    <3>1. Ours(p) /\ subId[p] # None
      BY <2>1 DEF LifeInv, Ids, None
    <3> QED BY <1>1, <2>1, <3>1 DEF Ours
  <2> QED BY <2>1
<1>12. stoppers \subseteq Ids
  BY DEF TypeOK, RegistryType
<1>13. \A p \in Objects : p # o =>
          /\ subId[p] \in stoppers => subId[p] \in stoppers' \cup doomed'
          /\ subId[p] \in doomed => subId[p] \in doomed'
          /\ subId[p] \in Ids => (flag'[subId[p]] => flag[subId[p]] \/ subId[p] \in doomed')
  BY <1>2, <1>5, <1>11, <1>12
<1> HIDE DEF o
<1> QED BY <1>2, <1>5, <1>6, <1>7, <1>8, <1>9, <1>10, <1>13, OthersLife DEF o

\* When aclose returns its listener has ended, was doomed, or is nobody's because
\* the task that waited for its end is cancelled.
LEMMA ClosesLife ==
    ASSUME TypeOK, LifeInv, OneTaskEach, NEW t \in Tasks, Closes(t) \/ CancelClose(t)
    PROVE  LifeInv'
<1> DEFINE o == Owner[t]
<1>1. o \in Objects /\ TaskOK(t) /\ StartedOK(o) /\ Ours(o)
  BY ConstantsAssumption DEF LifeInv
<1>2. /\ UNCHANGED <<ids, stoppers, state, flag, feeds, subId, doomed>>
      /\ started' = [started EXCEPT ![o] = FALSE]
      /\ task' = [task EXCEPT ![t] = Idle]
      /\ task[t].pc = "closing"
  BY DEF Closes, CancelClose, registry, listener, history
<1>3. orphans \subseteq orphans' /\ orphans' \subseteq orphans \cup ({task[t].id} \ {None})
  BY DEF Closes, CancelClose, history
<1>4. subId[o] \in Ids /\ subId[o] # None /\ subId[o] <= ids
  BY <1>1, <1>2 DEF StartedOK, TaskOK, Ids, None, Ours
<1>5. \/ subId[o] \in doomed
      \/ state[subId[o]] = "done"
      \/ subId[o] \in orphans'
  BY <1>1, <1>2, <1>4 DEF TaskOK, Closes, CancelClose
<1>6. /\ task'[t] = Idle /\ started'[o] = FALSE
      /\ \A u \in Tasks : u # t => task'[u] = task[u]
      /\ \A p \in Objects : p # o => started'[p] = started[p]
  BY <1>1, <1>2 DEF TypeOK, ObjectType
<1>7. TaskOK(t)' /\ StartedOK(o)'
  BY <1>6 DEF TaskOK, StartedOK, Idle
<1>8. DoomedAreStopped'
  BY <1>2 DEF LifeInv, DoomedAreStopped
<1>9. Numbered'
  <2>1. ids \in Int
    BY DEF TypeOK, RegistryType
  <2>2. \A id \in Ids : id > ids => id # subId[o]
    BY <1>4, <2>1 DEF Ids
  <2>3. task[t].id = subId[o] \/ task[t].id = None
    BY <1>1, <1>2 DEF TaskOK
  <2> QED BY <1>2, <1>3, <2>2, <2>3 DEF LifeInv, Numbered, Unused
<1>10. \A id \in Ids : Live(id)' = Live(id) /\ (Known(id)' => Known(id))
  BY <1>2, <1>3 DEF Live, Known
<1>11. Live(subId[o]) /\ Known(subId[o])' => subId[o] \in doomed
  BY <1>5, <1>2 DEF Live, Known
<1> HIDE DEF o
<1> QED BY <1>2, <1>6, <1>7, <1>8, <1>9, <1>10, <1>11, OthersLife DEF o

\* Every step of a task keeps the invariant.
LEMMA TaskLife ==
    ASSUME TypeOK, LifeInv, OneTaskEach, NEW t \in Tasks, TaskStep(t)
    PROVE  LifeInv'
<1>1. ASSUME NEW some \in SUBSET Topics, Unsubscribe(t, some) PROVE LifeInv'
  <2>1. UNCHANGED <<ids, stoppers, state, flag, feeds, subId, started, task, doomed, orphans>>
    BY <1>1 DEF Unsubscribe, listener, history
  <2> QED BY <2>1, LifeFrame
<1> QED BY <1>1, SubscribeLife, SubscribesLife, CancelSubscribeLife, ACloseLife, ClosesLife
        DEF TaskStep

-----------------------------------------------------------------------------
(* The queue of an object *)

\* Steps that put nothing in a queue, and by which no listener goes ahead.
LEMMA QueueFrame ==
    ASSUME TypeOK, QueueInv,
           UNCHANGED <<pos, feeds, inbox>>,
           orphans \subseteq orphans',
           Len(log') \in Nat, Len(log) <= Len(log'),
           \A id \in Ids : /\ flag[id] => flag'[id]
                           /\ state'[id] = "running" => state[id] = "running"
                           /\ state'[id] \in {"holding", "entering"}
                                => state[id] \in {"holding", "entering"}
    PROVE  QueueInv'
<1>1. Len(log) \in Nat
  BY DEF TypeOK, RegistryType
<1>2. Behind'
  BY <1>1 DEF QueueInv, Behind, TypeOK, ListenerType
<1>3. ASSUME NEW o \in Objects, AllKnown(o)' PROVE AllKnown(o)
  BY <1>3 DEF AllKnown, Known
<1>4. ASSUME NEW o \in Objects, UpTo(inbox[o], Len(log)) PROVE UpTo(inbox[o], Len(log'))
  <2>1. inbox[o] \in Seq(Nat)
    BY DEF TypeOK, ObjectType
  <2>2. \A i \in DOMAIN inbox[o] : inbox[o][i] \in Nat
    BY <2>1
  <2> QED BY <1>1, <1>4, <2>2 DEF UpTo
<1>5. ASSUME NEW id \in Ids, Ahead(id) PROVE Ahead(id)'
  BY <1>5 DEF Ahead
<1>6. ASSUME NEW o \in Objects PROVE QueueOK(o)'
  <2> SUFFICES ASSUME AllKnown(o)'
               PROVE  /\ Rising(inbox[o])
                      /\ UpTo(inbox[o], Len(log'))
                      /\ \A id \in Ids : feeds[id] = o => Ahead(id)'
    BY DEF QueueOK
  <2> QED BY <1>3, <1>4, <1>5 DEF QueueInv, QueueOK
<1> QED BY <1>2, <1>6 DEF QueueInv

\* Of the listeners of an object that were not orphaned, one may still put something
\* in its queue.
LEMMA OneFeeder ==
    ASSUME LifeInv, NEW i \in Ids, NEW j \in Ids, feeds[i] = feeds[j],
           Known(i), Known(j), Live(i), Live(j), ~flag[i], ~flag[j]
    PROVE  i = j
  BY DEF LifeInv, KnownByObject, DoomedAreStopped

\* A queue is shorter than what it is compared with.
LEMMA UpToMore ==
    ASSUME NEW q \in Seq(Nat), NEW m \in Nat, NEW n \in Nat, m <= n, UpTo(q, m)
    PROVE  UpTo(q, n)
<1>1. \A i \in DOMAIN q : q[i] \in Nat
  OBVIOUS
<1> QED BY <1>1 DEF UpTo

\* A message put behind smaller ones.
LEMMA PutRises ==
    ASSUME NEW q \in Seq(Nat), NEW n \in Nat, n > 0, Rising(q), UpTo(q, n - 1)
    PROVE  Rising(Append(q, n)) /\ UpTo(Append(q, n), n)
<1> DEFINE r == Append(q, n)
<1>1. /\ DOMAIN r = 1 .. Len(q) + 1
      /\ DOMAIN q = 1 .. Len(q)
      /\ Len(q) \in Nat
      /\ r[Len(q) + 1] = n
      /\ \A i \in 1 .. Len(q) : r[i] = q[i] /\ q[i] \in Nat
  OBVIOUS
<1> HIDE DEF r
<1>2. \A i \in 1 .. Len(q) : q[i] < n
  BY <1>1 DEF UpTo
<1>3. Rising(r)
  <2> SUFFICES ASSUME NEW i \in DOMAIN r, NEW j \in DOMAIN r, i < j PROVE r[i] < r[j]
    BY DEF Rising
  <2>1. i \in 1 .. Len(q)
    BY <1>1
  <2>2. CASE j \in 1 .. Len(q)
    BY <1>1, <2>1, <2>2 DEF Rising
  <2>3. CASE j = Len(q) + 1
    BY <1>1, <1>2, <2>1, <2>3
  <2> QED BY <1>1, <2>2, <2>3
<1>4. UpTo(r, n)
  <2>1. \A i \in DOMAIN r : i = Len(q) + 1 \/ i \in 1 .. Len(q)
    BY <1>1
  <2> QED BY <1>1, <1>2, <2>1 DEF UpTo
<1> QED BY <1>3, <1>4 DEF r

\* The steps of a listener: it starts behind nothing, goes on, and puts what it holds.
LEMMA ListenerQueue ==
    ASSUME TypeOK, LifeInv, QueueInv, NEW id \in Ids, ListenerStep(id)
    PROVE  QueueInv'
<1> DEFINE o == feeds[id]
<1>1. UNCHANGED <<log, flag, feeds, orphans>>
  BY DEF ListenerStep, ListenerStarts, ListenerRegisters, Recv, Enters, Puts, ListenerStops,
         listener, history
<1>2. /\ Len(log) \in Nat /\ RingSize \in Nat \ {0}
      /\ state \in [Ids -> States] /\ pos \in [Ids -> Nat]
      /\ inbox \in [Objects -> Seq(Nat)]
  BY ConstantsAssumption DEF TypeOK, RegistryType, ListenerType, ObjectType
<1>3. \A i \in Ids : pos[i] \in Nat /\ pos[i] <= Len(log)
  BY <1>2 DEF QueueInv, Behind
<1>4. \A p \in Objects : AllKnown(p)' = AllKnown(p)
  BY <1>1 DEF AllKnown, Known
<1>5. CASE ListenerRegisters(id) \/ Enters(id) \/ ListenerStops(id)
  <2>1. UNCHANGED <<pos, inbox>>
    BY <1>5 DEF ListenerRegisters, Enters, ListenerStops, listener
  <2>2. \A i \in Ids : /\ state'[i] = "running" => state[i] = "running"
                       /\ state'[i] \in {"holding", "entering"}
                            => state[i] \in {"holding", "entering"}
    BY <1>2, <1>5 DEF ListenerRegisters, Enters, ListenerStops, listener
  <2>3. Len(log') \in Nat /\ Len(log) <= Len(log') /\ orphans \subseteq orphans'
    BY <1>1, <1>2
  <2> QED BY <1>1, <2>1, <2>2, <2>3, QueueFrame
<1>6. ASSUME inbox' = inbox, pos'[id] \in Nat, pos'[id] <= Len(log),
             \A i \in Ids : i # id => state'[i] = state[i] /\ pos'[i] = pos[i],
             \A p \in Objects : QueueOK(p) /\ AllKnown(p) /\ p = o => Ahead(id)'
      PROVE  QueueInv'
  <2>1. Behind'
    BY <1>1, <1>3, <1>6 DEF Behind
  <2>2. ASSUME NEW i \in Ids, i # id, Ahead(i) PROVE Ahead(i)'
    BY <1>1, <1>6, <2>2 DEF Ahead
  <2>3. ASSUME NEW p \in Objects PROVE QueueOK(p)'
    <3> SUFFICES ASSUME AllKnown(p)
                 PROVE  /\ Rising(inbox[p])
                        /\ UpTo(inbox[p], Len(log))
                        /\ \A i \in Ids : feeds[i] = p => Ahead(i)'
      BY <1>1, <1>4, <1>6 DEF QueueOK
    <3>1. QueueOK(p)
      BY DEF QueueInv
    <3> QED BY <1>6, <2>2, <3>1 DEF QueueOK
  <2> QED BY <2>1, <2>3 DEF QueueInv
<1>7. CASE ListenerStarts(id)
  <2>1. /\ inbox' = inbox /\ pos'[id] = Len(log) /\ state'[id] = "running"
        /\ \A i \in Ids : i # id => state'[i] = state[i] /\ pos'[i] = pos[i]
    BY <1>2, <1>7 DEF ListenerStarts
  <2>2. ASSUME NEW p \in Objects, QueueOK(p), AllKnown(p), p = o PROVE Ahead(id)'
    BY <1>1, <2>1, <2>2 DEF Ahead, QueueOK
  <2> QED BY <1>2, <1>6, <2>1, <2>2
<1>8. CASE Recv(id)
  <2>1. /\ inbox' = inbox /\ state[id] = "running"
        /\ \A i \in Ids : i # id => state'[i] = state[i] /\ pos'[i] = pos[i]
    BY <1>2, <1>8 DEF Recv
  <2>2. \/ pos'[id] = pos[id] + 1 /\ pos[id] < Len(log) /\ state'[id] = "holding"
        \/ /\ pos[id] < Len(log) - RingSize
           /\ pos'[id] = Len(log) - RingSize
           /\ state'[id] = "running"
    BY <1>2, <1>8 DEF Recv
  <2>3. pos'[id] \in Nat /\ pos'[id] <= Len(log) /\ pos[id] <= pos'[id]
    BY <1>2, <1>3, <2>2
  <2>4. ASSUME NEW p \in Objects, QueueOK(p), AllKnown(p), p = o PROVE Ahead(id)'
    <3>1. Ahead(id) /\ inbox[p] \in Seq(Nat)
      BY <1>2, <2>4 DEF QueueOK
    <3>2. ~flag[id] => UpTo(inbox[p], pos[id])
      BY <2>1, <2>4, <3>1 DEF Ahead
    <3>3. CASE state'[id] = "holding"
      <4>1. pos'[id] > 0 /\ pos'[id] - 1 = pos[id]
        BY <1>3, <2>2, <3>3
      <4> QED BY <1>1, <2>1, <2>4, <3>2, <3>3, <4>1 DEF Ahead
    <3>4. CASE state'[id] = "running"
      <4>1. ~flag[id] => UpTo(inbox[p], pos'[id])
        BY <1>3, <2>3, <3>1, <3>2, UpToMore
      <4> QED BY <1>1, <2>1, <2>4, <3>4, <4>1 DEF Ahead
    <3> QED BY <2>2, <3>3, <3>4
  <2> QED BY <1>6, <2>1, <2>3, <2>4
<1>9. CASE Puts(id) /\ flag[id]
  <2>1. /\ inbox' = inbox /\ pos' = pos
        /\ \A i \in Ids : i # id => state'[i] = state[i]
    BY <1>2, <1>9 DEF Puts
  <2>2. Ahead(id)'
    BY <1>1, <1>9 DEF Ahead
  <2> QED BY <1>3, <1>6, <2>1, <2>2
<1>10. CASE Puts(id) /\ ~flag[id]
  <2> DEFINE q == Append(inbox[o], pos[id])
  <2>1. /\ inbox' = [inbox EXCEPT ![o] = q] /\ pos' = pos
        /\ state[id] = "entering" /\ state'[id] = "running"
        /\ \A i \in Ids : i # id => state'[i] = state[i]
    BY <1>2, <1>10 DEF Puts
  <2>2. Behind'
    BY <1>1, <1>3, <2>1 DEF Behind
  <2>3. /\ \A p \in Objects : p # o => inbox'[p] = inbox[p]
        /\ o \in Objects => inbox'[o] = q
    BY <1>2, <2>1
  <2>4. ASSUME NEW p \in Objects, p # o PROVE QueueOK(p)'
    <3>1. QueueOK(p) /\ inbox'[p] = inbox[p]
      BY <2>3, <2>4 DEF QueueInv
    <3>2. ASSUME NEW i \in Ids, feeds[i] = p, Ahead(i) PROVE Ahead(i)'
      <4>1. i # id /\ state'[i] = state[i] /\ feeds'[i] = p /\ flag'[i] = flag[i]
        BY <1>1, <2>1, <2>4, <3>2
      <4> QED BY <2>1, <3>1, <3>2, <4>1 DEF Ahead
    <3> QED BY <1>1, <1>4, <3>1, <3>2 DEF QueueOK
  <2>5. ASSUME o \in Objects, AllKnown(o)
        PROVE  /\ Rising(inbox'[o])
               /\ UpTo(inbox'[o], Len(log))
               /\ \A i \in Ids : feeds[i] = o => Ahead(i)'
    <3>1. QueueOK(o) /\ inbox[o] \in Seq(Nat)
      BY <1>2, <2>5 DEF QueueInv
    <3>2. Rising(inbox[o]) /\ pos[id] > 0 /\ UpTo(inbox[o], pos[id] - 1)
      BY <1>10, <2>1, <2>5, <3>1 DEF QueueOK, Ahead
    <3>3. Rising(q) /\ UpTo(q, pos[id])
      BY <1>3, <3>1, <3>2, PutRises
    <3>4. q \in Seq(Nat)
      BY <1>3, <3>1
    <3> HIDE DEF q
    <3>5. UpTo(q, Len(log))
      BY <1>2, <1>3, <3>3, <3>4, UpToMore
    <3>6. Ahead(id)'
      BY <1>1, <2>1, <2>3, <2>5, <3>3 DEF Ahead
    <3>7. ASSUME NEW i \in Ids, feeds[i] = o, i # id PROVE Ahead(i)'
      <4>1. flag[i] \/ ~Live(i)
        BY <1>10, <2>1, <2>5, <3>7, OneFeeder DEF AllKnown, Live
      <4> QED BY <1>1, <2>1, <3>7, <4>1 DEF Ahead, Live
    <3> QED BY <2>3, <2>5, <3>3, <3>5, <3>6, <3>7
  <2>6. ASSUME NEW p \in Objects, p = o PROVE QueueOK(p)'
    BY <1>1, <1>4, <2>5, <2>6 DEF QueueOK
  <2> QED BY <2>2, <2>4, <2>6 DEF QueueInv
<1> QED BY <1>5, <1>7, <1>8, <1>9, <1>10 DEF ListenerStep

\* A new listener has nothing to put yet.
LEMMA SubscribeQueue ==
    ASSUME TypeOK, LifeInv, QueueInv, NEW t \in Tasks, NEW topic \in Topics, Subscribe(t, topic)
    PROVE  QueueInv'
<1> DEFINE o == Owner[t]
           new == ids + 1
<1>1. UNCHANGED <<log, pos, flag, inbox, orphans>>
  BY DEF Subscribe, history
<1>2. Len(log) \in Nat
  BY DEF TypeOK, RegistryType
<1>3. CASE started[o]
  <2>1. UNCHANGED <<state, feeds>>
    BY <1>3 DEF Subscribe
  <2> QED BY <1>1, <1>2, <2>1, QueueFrame
<1>4. CASE ~started[o]
  <2>1. /\ ids < MaxIds
        /\ state' = [state EXCEPT ![new] = "asked"]
        /\ feeds' = [feeds EXCEPT ![new] = o]
    BY <1>4 DEF Subscribe
  <2>2. new \in Ids /\ new > ids
    BY <2>1, ConstantsAssumption DEF TypeOK, RegistryType, Ids
  <2>3. Known(new)
    BY <2>2 DEF LifeInv, Numbered, Unused, Known
  <2>4. /\ state'[new] = "asked"
        /\ \A id \in Ids : id # new => state'[id] = state[id] /\ feeds'[id] = feeds[id]
    BY <2>1, <2>2 DEF TypeOK, ListenerType
  <2> HIDE DEF new, o
  <2>5. Behind'
    BY <1>1 DEF QueueInv, Behind
  <2>6. ASSUME NEW p \in Objects, AllKnown(p)' PROVE AllKnown(p)
    BY <1>1, <2>3, <2>4, <2>6 DEF AllKnown, Known
  <2>7. ASSUME NEW id \in Ids, id = new PROVE Ahead(id)'
    BY <2>4, <2>7 DEF Ahead
  <2>8. ASSUME NEW id \in Ids, id # new, Ahead(id) PROVE Ahead(id)'
    BY <1>1, <2>4, <2>8 DEF Ahead
  <2>9. ASSUME NEW p \in Objects PROVE QueueOK(p)'
    <3> SUFFICES ASSUME AllKnown(p)'
                 PROVE  /\ Rising(inbox[p])
                        /\ UpTo(inbox[p], Len(log))
                        /\ \A id \in Ids : feeds'[id] = p => Ahead(id)'
      BY <1>1 DEF QueueOK
    <3>1. QueueOK(p) /\ AllKnown(p)
      BY <2>6 DEF QueueInv
    <3> QED BY <2>4, <2>7, <2>8, <3>1 DEF QueueOK
  <2> QED BY <2>5, <2>9 DEF QueueInv
<1> QED BY <1>3, <1>4

\* Steps of a task keep the queues as they are.
LEMMA TaskQueue ==
    ASSUME TypeOK, LifeInv, QueueInv, NEW t \in Tasks, TaskStep(t)
    PROVE  QueueInv'
<1>1. ASSUME ~\E topic \in Topics : Subscribe(t, topic) PROVE QueueInv'
  <2>1. UNCHANGED <<log, pos, feeds, inbox>> /\ orphans \subseteq orphans'
    BY <1>1 DEF TaskStep, Unsubscribe, Subscribes, CancelSubscribe, AClose, Closes, CancelClose,
                listener, history
  <2>2. \A id \in Ids : flag[id] => flag'[id]
    BY <1>1 DEF TaskStep, Unsubscribe, Subscribes, CancelSubscribe, AClose, Stop, Closes,
                CancelClose, listener, TypeOK, ListenerType
  <2>3. \A id \in Ids : state'[id] = state[id] \/ state'[id] = "done"
    BY <1>1 DEF TaskStep, Unsubscribe, Subscribes, CancelSubscribe, AClose, Closes,
                CancelClose, listener, TypeOK, ListenerType
  <2>4. Len(log') \in Nat /\ Len(log) <= Len(log')
    BY <2>1 DEF TypeOK, RegistryType
  <2> QED BY <2>1, <2>2, <2>3, <2>4, QueueFrame
<1> QED BY <1>1, SubscribeQueue

-----------------------------------------------------------------------------
(* The theorems *)

\* At the start nothing was handed out, nothing is queued and nobody waits.
LEMMA InitInvariant == Init => IInv
<1> SUFFICES ASSUME Init PROVE IInv
  OBVIOUS
<1>1. MaxIds \in Nat
  BY ConstantsAssumption
<1>2. TypeOK
  BY <1>1 DEF Init, TypeOK, RegistryType, ListenerType, ObjectType, HistoryType, States, Calls,
              Idle
<1>3. LifeInv
  <2>1. \A id \in Ids : id \in Nat /\ id > 0
    BY DEF Ids
  <2>2. Numbered
    BY <2>1 DEF Init, Numbered, Unused
  <2>3. \A t \in Tasks : TaskOK(t)
    BY DEF Init, TaskOK, Idle
  <2>4. \A o \in Objects : Ours(o) /\ StartedOK(o)
    BY DEF Init, Ours, StartedOK
  <2>5. KnownByObject
    BY DEF Init, KnownByObject, Live
  <2> QED BY <2>2, <2>3, <2>4, <2>5 DEF Init, LifeInv, DoomedAreStopped
<1>4. QueueInv
  BY DEF Init, QueueInv, Behind, QueueOK, Rising, UpTo, Ahead
<1> QED BY <1>2, <1>3, <1>4 DEF IInv

\* Every step keeps the invariant.
LEMMA NextInvariant ==
    ASSUME OneTaskEach, IInv, [Next]_vars
    PROVE  IInv'
<1> USE DEF IInv
<1>1. ASSUME NEW ch \in Channels, Publish(ch) \/ ScriptPublish(ch) PROVE IInv'
  <2>1. UNCHANGED <<ids, stoppers, state, pos, flag, feeds, subId, started, inbox, task, doomed,
                    orphans>>
    BY <1>1 DEF Publish, ScriptPublish, registry, listener, object, history
  <2>2. Len(log') \in Nat /\ Len(log) <= Len(log')
    BY <1>1, LogGrows DEF Next
  <2>3. LifeInv'
    BY <2>1, LifeFrame
  <2>4. QueueInv'
    BY <2>1, <2>2, QueueFrame
  <2> QED BY <1>1, <2>3, <2>4, BroadcastTypes
<1>2. ASSUME NEW id \in Ids, ListenerStep(id) PROVE IInv'
  BY <1>2, ListenerTypes, ListenerLife, ListenerQueue
<1>3. ASSUME NEW t \in Tasks, TaskStep(t) PROVE IInv'
  BY <1>3, TaskTypes, TaskLife, TaskQueue
<1>4. ASSUME NEW o \in Objects, GetMessage(o) PROVE IInv'
  <2>1. UNCHANGED <<ids, stoppers, log, state, pos, flag, feeds, subId, started, inbox, task,
                    doomed, orphans>>
    BY <1>4 DEF GetMessage, registry, listener, history
  <2>2. Len(log') \in Nat /\ Len(log) <= Len(log')
    BY <2>1 DEF TypeOK, RegistryType
  <2>3. LifeInv'
    BY <2>1, LifeFrame
  <2>4. QueueInv'
    BY <2>1, <2>2, QueueFrame
  <2> QED BY <1>4, <2>3, <2>4, OtherTypes
<1>5. ASSUME Shutdown PROVE IInv'
  <2>1. UNCHANGED <<log, state, pos, feeds, inbox, orphans>>
    BY <1>5 DEF Shutdown
  <2>2. \A id \in Ids : flag[id] => flag'[id]
    BY <1>5 DEF Shutdown, Stop
  <2>3. Len(log') \in Nat /\ Len(log) <= Len(log')
    BY <2>1 DEF TypeOK, RegistryType
  <2>4. QueueInv'
    BY <2>1, <2>2, <2>3, QueueFrame
  <2> QED BY <1>5, <2>4, OtherTypes, ShutdownLife
<1>6. ASSUME UNCHANGED vars PROVE IInv'
  <2>1. UNCHANGED <<ids, stoppers, log, state, pos, flag, feeds, subId, started, inbox, task,
                    doomed, orphans>>
    BY <1>6 DEF vars
  <2>2. Len(log') \in Nat /\ Len(log) <= Len(log')
    BY <2>1 DEF TypeOK, RegistryType
  <2>3. LifeInv'
    BY <2>1, LifeFrame
  <2>4. QueueInv'
    BY <2>1, <2>2, QueueFrame
  <2> QED BY <1>6, <2>3, <2>4, OtherTypes
<1> QED BY <1>1, <1>2, <1>3, <1>4, <1>5, <1>6 DEF Next

\* The invariant holds of every behaviour in which objects are not shared.
THEOREM PubSubInvariant ==
    ASSUME OneTaskEach
    PROVE  Spec => []IInv
<1>1. Init => IInv
  BY InitInvariant
<1>2. IInv /\ [Next]_vars => IInv'
  BY NextInvariant
<1> QED BY <1>1, <1>2, PTL DEF Spec

\* When aclose has returned, no listener is left that may feed the object: neither
\* the one it stopped nor one of an earlier subscription.
THEOREM ClosedObjectsAreQuiet ==
    ASSUME OneTaskEach
    PROVE  Spec => []ClosedIsQuiet
<1>1. IInv => ClosedIsQuiet
  <2> SUFFICES ASSUME IInv, NEW o \in Objects, ~started[o],
                      \A t \in Tasks : Owner[t] = o => task[t].pc # "starting",
                      NEW id \in Ids, feeds[id] = o, Known(id), id \notin doomed, Alive(id)
               PROVE  FALSE
    BY DEF ClosedIsQuiet
  <2>1. Live(id)
    BY DEF Live, Alive
  <2> QED BY <2>1 DEF IInv, LifeInv, KnownByObject
<1> QED BY <1>1, PubSubInvariant, PTL

\* The queue of an object has the messages in the order of the broadcasts, each
\* once, over any number of closings and subscriptions.
THEOREM QueuesAreInOrder ==
    ASSUME OneTaskEach
    PROVE  Spec => []QueueInOrder
<1>1. IInv => QueueInOrder
  BY DEF IInv, QueueInv, QueueOK, AllKnown, Rising, QueueInOrder
<1> QED BY <1>1, PubSubInvariant, PTL

\* Whoever shares an object, a listener that was told to stop puts nothing more in
\* its queue: what changes a queue is one that runs and has not been told.
THEOREM StoppingIsFinal == Spec => StopIsFinal
<1> DEFINE Queues == DOMAIN inbox = Objects
           Fed == \A o \in Objects : inbox'[o] # inbox[o] =>
                      \E id \in Ids : feeds[id] = o /\ Alive(id) /\ ~flag[id]
<1>1. Init => Queues
  BY DEF Init
<1>2. Queues /\ [Next]_vars => Queues' /\ Fed
  <2> SUFFICES ASSUME Queues, [Next]_vars PROVE Queues' /\ Fed
    OBVIOUS
  <2>1. CASE UNCHANGED inbox
    BY <2>1
  <2>2. ASSUME NEW id \in Ids, Puts(id), ~UNCHANGED inbox PROVE Queues' /\ Fed
    <3>1. /\ inbox' = [inbox EXCEPT ![feeds[id]] = Append(@, pos[id])]
          /\ ~flag[id]
          /\ Alive(id)
      BY <2>2 DEF Puts, Alive
    <3>2. \A o \in Objects : o # feeds[id] => inbox'[o] = inbox[o]
      BY <3>1
    <3> QED BY <3>1, <3>2
  <2>3. ASSUME NEW ch \in Channels, Publish(ch) \/ ScriptPublish(ch) PROVE UNCHANGED inbox
    BY <2>3 DEF Publish, ScriptPublish
  <2>4. ASSUME NEW id \in Ids, ListenerStep(id), ~Puts(id) PROVE UNCHANGED inbox
    BY <2>4 DEF ListenerStep, ListenerStarts, ListenerRegisters, Recv, Enters, ListenerStops
  <2>5. ASSUME NEW t \in Tasks, TaskStep(t) PROVE UNCHANGED inbox
    BY <2>5 DEF TaskStep, Subscribe, Unsubscribe, Subscribes, CancelSubscribe, AClose, Closes,
                CancelClose
  <2>6. ASSUME (\E o \in Objects : GetMessage(o)) \/ Shutdown \/ UNCHANGED vars
        PROVE  UNCHANGED inbox
    BY <2>6 DEF GetMessage, Shutdown, vars
  <2> QED BY <2>1, <2>2, <2>3, <2>4, <2>5, <2>6 DEF Next
<1> QED BY <1>1, <1>2, PTL DEF Spec, StopIsFinal

-----------------------------------------------------------------------------
(***************************************************************************)
(* The matcher of PSUBSCRIBE.  A pattern is a list of elements; tokens[p]  *)
(* is written in the pattern from byte o[p] + 1 on.  The matcher stands    *)
(* before some element and some byte of the string, what is behind it fits *)
(* (Ends), and no match was given up: in every way to fit the tokens to    *)
(* the string (Path) the last star it met ends where the matcher lets it   *)
(* end for now, or later.  That is why one star to go back to is enough.   *)
(***************************************************************************)

\* A function on 1 .. n is a sequence of length n.
LEMMA FunctionIsSequence ==
    ASSUME NEW S, NEW n \in Nat, NEW f \in [1 .. n -> S]
    PROVE  f \in Seq(S) /\ Len(f) = n
OBVIOUS

\* A set of numbers has a least one.
LEMMA LeastNat ==
    ASSUME NEW T \in SUBSET Nat, T # {}
    PROVE  \E m \in T : \A n \in T : m <= n
<1> DEFINE Intervals == {1 .. n : n \in T}
           R == StrictSubsetOrdering(Nat)
<1>1. IsWellFoundedOn(R, FiniteSubsetsOf(Nat))
  BY FS_StrictSubsetOrderingWellFounded
<1>2. Intervals \subseteq FiniteSubsetsOf(Nat) /\ Intervals # {}
  <2>1. \A n \in T : IsFiniteSet(1 .. n)
    BY FS_Interval
  <2>2. \A n \in T : 1 .. n \in SUBSET Nat
    OBVIOUS
  <2>3. \A n \in T : 1 .. n \in FiniteSubsetsOf(Nat)
    BY <2>1, <2>2 DEF FiniteSubsetsOf
  <2> QED BY <2>3
<1> HIDE DEF Intervals, R
<1>3. PICK X \in Intervals : \A Y \in Intervals : ~(<<Y, X>> \in R)
  BY <1>1, <1>2, WFMin
<1>4. PICK m \in T : X = 1 .. m
  BY DEF Intervals
<1>5. ASSUME NEW n \in T PROVE m <= n
  <2>1. ~(<<1 .. n, 1 .. m>> \in R)
    BY <1>3, <1>4 DEF Intervals
  <2>2. 1 .. n \in SUBSET Nat /\ 1 .. m \in SUBSET Nat
    OBVIOUS
  <2>3. ~(1 .. n \subseteq 1 .. m /\ 1 .. n # 1 .. m)
    BY <2>1, <2>2 DEF R, StrictSubsetOrdering
  <2>4. CASE n < m
    <3>1. m \in 1 .. m /\ m \notin 1 .. n /\ 1 .. n \subseteq 1 .. m
      BY <2>4
    <3> QED BY <3>1, <2>3
  <2> QED BY <2>4
<1> QED BY <1>5

\* Induction over an interval, for a set instead of a predicate.
LEMMA IntervalInduction ==
    ASSUME NEW a \in Int, NEW b \in Int, NEW T, a \in T,
           \A n \in a .. b - 1 : n \in T => n + 1 \in T
    PROVE  \A n \in a .. b : n \in T
<1> DEFINE Bad == {d \in Nat : a + d <= b /\ a + d \notin T}
<1>1. CASE Bad = {}
  <2> TAKE n \in a .. b
  <2>1. n - a \in Nat /\ a + (n - a) = n
    OBVIOUS
  <2>2. n \notin T => n - a \in Bad
    BY <2>1
  <2> QED BY <1>1, <2>2
<1>2. CASE Bad # {}
  <2>1. PICK d \in Bad : \A e \in Bad : d <= e
    <3>1. Bad \in SUBSET Nat
      OBVIOUS
    <3> HIDE DEF Bad
    <3> QED BY <1>2, <3>1, LeastNat
  <2>2. d # 0
    BY <2>1
  <2>3. d - 1 \in Nat /\ a + (d - 1) \in a .. b - 1 /\ a + (d - 1) + 1 = a + d /\ ~(d <= d - 1)
    BY <2>1, <2>2
  <2>4. a + (d - 1) \in T
    BY <2>1, <2>3
  <2> QED BY <2>1, <2>3, <2>4
<1> QED BY <1>1, <1>2

\* A functional on functions from I to S under which the value at an index depends
\* only on values at indices of lower rank.
Descends(I, S, K, rank, D) ==
    /\ S # {} /\ K \in Nat
    /\ rank \in [I -> 0 .. K - 1]
    /\ D \in [[I -> S] -> [I -> S]]
    /\ \A f, g \in [I -> S] : \A i \in I :
          (\A j \in I : rank[j] < rank[i] => f[j] = g[j]) => D[f][i] = D[g][i]

\* A recursive definition by such a functional has a solution.
LEMMA Recursion ==
    ASSUME NEW I, NEW S, NEW K, NEW rank, NEW D, Descends(I, S, K, rank, D)
    PROVE  \E f \in [I -> S] : f = D[f]
<1> USE DEF Descends
<1> DEFINE Upto(f, k) == \A i \in I : rank[i] < k => f[i] = D[f][i]
           T == {k \in Nat : \E f \in [I -> S] : Upto(f, k)}
<1>1. 0 \in T
  <2>1. PICK x \in S : TRUE
    OBVIOUS
  <2>2. [i \in I |-> x] \in [I -> S] /\ \A i \in I : ~(rank[i] < 0)
    OBVIOUS
  <2> QED BY <2>2
<1>2. ASSUME NEW k \in 0 .. K - 1, k \in T PROVE k + 1 \in T
  <2>1. PICK f \in [I -> S] : Upto(f, k)
    BY <1>2
  <2> DEFINE g == [i \in I |-> IF rank[i] = k THEN D[f][i] ELSE f[i]]
  <2>2. D[f] \in [I -> S]
    OBVIOUS
  <2>3. g \in [I -> S]
    BY <2>2
  <2>4. ASSUME NEW i \in I, rank[i] < k + 1 PROVE g[i] = D[g][i]
    <3>1. rank[i] \in Int /\ k \in Int /\ rank[i] <= k
      <4>1. rank[i] \in 0 .. K - 1
        OBVIOUS
      <4> QED BY <2>4, <4>1
    <3>2. \A j \in I : rank[j] < rank[i] => g[j] = f[j]
      <4>1. \A j \in I : rank[j] \in Int
        OBVIOUS
      <4>2. \A j \in I : rank[j] < rank[i] => rank[j] # k
        BY ONLY <3>1, <4>1
      <4> QED BY <4>2
    <3>3. D[g][i] = D[f][i]
      <4> HIDE DEF g
      <4> QED BY <2>3, <3>2
    <3>4. CASE rank[i] = k
      BY <3>3, <3>4
    <3>5. CASE rank[i] # k
      <4>1. \A r, q \in Int : r <= q /\ r # q => r < q
        OBVIOUS
      <4>2. rank[i] < k
        BY <3>1, <3>5, <4>1, Zenon
      <4> QED BY <2>1, <3>3, <3>5, <4>2
    <3> QED BY <3>4, <3>5
  <2> HIDE DEF g
  <2> QED BY <2>3, <2>4
<1> HIDE DEF T
<1>3. K \in T
  <2>1. \A n \in 0 .. K - 1 : n \in T => n + 1 \in T
    BY <1>2
  <2>2. 0 \in Int /\ K \in Int
    OBVIOUS
  <2>3. \A n \in 0 .. K : n \in T
    BY ONLY <1>1, <2>1, <2>2, IntervalInduction
  <2> QED BY <2>3
<1>4. PICK f \in [I -> S] : Upto(f, K)
  BY <1>3 DEF T
<1>5. D[f] \in [I -> S]
  OBVIOUS
<1>6. \A i \in I : f[i] = D[f][i]
  BY <1>4
<1>7. f = D[f]
  BY <1>5, <1>6
<1> QED BY <1>7

-----------------------------------------------------------------------------
(* The recursive definitions *)

\* Where the first n elements of a pattern can end.
LEMMA EndsDef ==
    ASSUME NEW S, NEW t \in Seq(S), NEW s \in Seq(Byte)
    PROVE  EndsOf(t, s) =
             [n \in 0 .. Len(t) |->
                IF n = 0 THEN {0}
                ELSE IF t[n].kind = "star"
                THEN {j \in 0 .. Len(s) : \E i \in EndsOf(t, s)[n - 1] : i <= j}
                ELSE {j \in 1 .. Len(s) : /\ j - 1 \in EndsOf(t, s)[n - 1]
                                          /\ Takes(t[n], s[j])}]
<1> DEFINE I == 0 .. Len(t)
           Sets == SUBSET (0 .. Len(s))
           Body(f, n) == IF n = 0 THEN {0}
                         ELSE IF t[n].kind = "star"
                         THEN {j \in 0 .. Len(s) : \E i \in f[n - 1] : i <= j}
                         ELSE {j \in 1 .. Len(s) : /\ j - 1 \in f[n - 1]
                                                   /\ Takes(t[n], s[j])}
           D == [f \in [I -> Sets] |-> [n \in I |-> Body(f, n)]]
           rank == [n \in I |-> n]
           K == Len(t) + 1
<1>1. Len(t) \in Nat /\ Len(s) \in Nat
  OBVIOUS
<1>2. Sets # {} /\ K \in Nat /\ rank \in [I -> 0 .. K - 1]
  <2>1. {} \in Sets
    OBVIOUS
  <2>2. K \in Nat /\ I = 0 .. K - 1
    BY <1>1
  <2> HIDE DEF Sets, K
  <2> QED BY <2>1, <2>2
<1>3. ASSUME NEW f \in [I -> Sets], NEW n \in I PROVE Body(f, n) \in Sets
  <2>1. {0} \in Sets
    BY <1>1
  <2>2. \A P : {j \in 0 .. Len(s) : j \in P} \in Sets /\ {j \in 1 .. Len(s) : j \in P} \in Sets
    BY <1>1
  <2>3. {j \in 0 .. Len(s) : \E i \in f[n - 1] : i <= j} \in Sets
    BY <1>1
  <2>4. {j \in 1 .. Len(s) : j - 1 \in f[n - 1] /\ Takes(t[n], s[j])} \in Sets
    BY <1>1
  <2> QED BY <2>1, <2>3, <2>4
<1>4. D \in [[I -> Sets] -> [I -> Sets]]
  BY <1>3
<1>5. ASSUME NEW f \in [I -> Sets], NEW g \in [I -> Sets], NEW n \in I,
             \A j \in I : rank[j] < rank[n] => f[j] = g[j]
      PROVE  D[f][n] = D[g][n]
  <2>1. n # 0 => n - 1 \in I /\ n - 1 < n
    BY <1>1
  <2>2. n # 0 => f[n - 1] = g[n - 1]
    BY <1>5, <2>1
  <2> QED BY <2>2
<1>6. \E f \in [I -> Sets] : f = D[f]
  <2>1. \A f, g \in [I -> Sets] : \A n \in I :
           (\A j \in I : rank[j] < rank[n] => f[j] = g[j]) => D[f][n] = D[g][n]
    BY <1>5
  <2> HIDE DEF I, Sets, D, rank, K
  <2>2. Descends(I, Sets, K, rank, D)
    BY <1>2, <1>4, <2>1 DEF Descends
  <2> QED BY <2>2, Recursion
<1>7. \E f : f = [n \in I |-> Body(f, n)]
  BY <1>6
<1>8. EndsOf(t, s) = CHOOSE f : f = [n \in I |-> Body(f, n)]
  BY DEF EndsOf
<1>9. EndsOf(t, s) = [n \in I |-> Body(EndsOf(t, s), n)]
  <2> HIDE DEF Body, I
  <2> QED BY <1>7, <1>8
<1> QED BY <1>9

\* A function that solves the definition of FlattenSeq.
LEMMA FlattenDef ==
    ASSUME NEW S, NEW seqs \in Seq(Seq(S)), Len(seqs) # 0
    PROVE  \E F : /\ F = [i \in 1 .. Len(seqs) |->
                            IF i = 1 THEN seqs[i] ELSE F[i - 1] \o seqs[i]]
                  /\ FlattenSeq(seqs) = F[Len(seqs)]
<1> DEFINE I == 1 .. Len(seqs)
           Body(f, i) == IF i = 1 THEN seqs[i] ELSE f[i - 1] \o seqs[i]
           D == [f \in [I -> Seq(S)] |-> [i \in I |-> Body(f, i)]]
           rank == [i \in I |-> i]
           K == Len(seqs) + 1
<1>1. Len(seqs) \in Nat /\ \A i \in I : seqs[i] \in Seq(S)
  OBVIOUS
<1>2. Seq(S) # {} /\ K \in Nat /\ rank \in [I -> 0 .. K - 1]
  <2>1. seqs[1] \in Seq(S)
    BY <1>1
  <2>2. K \in Nat /\ \A i \in I : i \in 0 .. K - 1
    BY <1>1
  <2> HIDE DEF K
  <2> QED BY <2>1, <2>2
<1>3. ASSUME NEW f \in [I -> Seq(S)], NEW i \in I PROVE Body(f, i) \in Seq(S)
  <2>1. i # 1 => i - 1 \in I
    BY <1>1
  <2>2. i # 1 => f[i - 1] \in Seq(S)
    BY <2>1
  <2> QED BY <1>1, <2>2
<1>4. D \in [[I -> Seq(S)] -> [I -> Seq(S)]]
  BY <1>3
<1>5. ASSUME NEW f \in [I -> Seq(S)], NEW g \in [I -> Seq(S)], NEW n \in I,
             \A j \in I : rank[j] < rank[n] => f[j] = g[j]
      PROVE  D[f][n] = D[g][n]
  <2>1. n # 1 => n - 1 \in I /\ n - 1 < n
    BY <1>1
  <2>2. n # 1 => f[n - 1] = g[n - 1]
    BY <1>5, <2>1
  <2> QED BY <2>2
<1>6. \E f \in [I -> Seq(S)] : f = D[f]
  <2>1. \A f, g \in [I -> Seq(S)] : \A n \in I :
           (\A j \in I : rank[j] < rank[n] => f[j] = g[j]) => D[f][n] = D[g][n]
    BY <1>5
  <2> HIDE DEF I, D, rank, K
  <2>2. Descends(I, Seq(S), K, rank, D)
    BY <1>2, <1>4, <2>1 DEF Descends
  <2> QED BY <2>2, Recursion
<1>7. \E f : f = [n \in I |-> Body(f, n)]
  BY <1>6
<1> DEFINE F == CHOOSE f : f = [n \in I |-> Body(f, n)]
<1>8. FlattenSeq(seqs) = F[Len(seqs)]
  BY DEF FlattenSeq
<1>9. F = [n \in I |-> Body(F, n)]
  <2> HIDE DEF Body, I
  <2> QED BY <1>7
<1> QED BY <1>8, <1>9

\* The starts of the sequences seqs in the sequence flat.
Starts(o, seqs, flat) ==
    /\ o \in [1 .. Len(seqs) + 1 -> Nat]
    /\ o[1] = 0 /\ o[Len(seqs) + 1] = Len(flat)
    /\ \A k \in 1 .. Len(seqs) :
          /\ o[k + 1] = o[k] + Len(seqs[k])
          /\ \A j \in 1 .. Len(seqs[k]) : flat[o[k] + j] = seqs[k][j]



\* FlattenSeq puts the sequences one after the other.
LEMMA FlattenFacts ==
    ASSUME NEW S, NEW seqs \in Seq(Seq(S))
    PROVE  FlattenSeq(seqs) \in Seq(S) /\ \E o : Starts(o, seqs, FlattenSeq(seqs))
<1> DEFINE n == Len(seqs)
<1>1. n \in Nat /\ \A k \in 1 .. n : seqs[k] \in Seq(S) /\ Len(seqs[k]) \in Nat
  OBVIOUS
<1>2. CASE n = 0
  <2>1. FlattenSeq(seqs) = seqs /\ seqs = <<>>
    BY <1>2 DEF FlattenSeq
  <2> DEFINE o == [k \in 1 .. 1 |-> 0]
  <2>2. Starts(o, seqs, seqs)
    BY <1>2, <2>1 DEF Starts
  <2> HIDE DEF o
  <2> QED BY <2>1, <2>2
<1>3. CASE n # 0
  <2>1. PICK F : /\ F = [i \in 1 .. n |-> IF i = 1 THEN seqs[i] ELSE F[i - 1] \o seqs[i]]
                 /\ FlattenSeq(seqs) = F[n]
    BY <1>3, FlattenDef
  <2>2. F[1] = seqs[1] /\ \A i \in 2 .. n : F[i] = F[i - 1] \o seqs[i]
    <3>1. \A i \in 1 .. n : F[i] = IF i = 1 THEN seqs[i] ELSE F[i - 1] \o seqs[i]
      BY <2>1, Zenon
    <3>2. 1 \in 1 .. n /\ \A i \in 2 .. n : i \in 1 .. n /\ i # 1
      BY <1>1, <1>3
    <3> QED BY ONLY <3>1, <3>2
  <2> DEFINE Prefix(k, i) == /\ F[k] \in Seq(S) /\ Len(F[k]) \in Nat /\ Len(F[k]) <= Len(F[i])
                             /\ \A j \in 1 .. Len(F[k]) : F[i][j] = F[k][j]
             T == {i \in 1 .. n : \A k \in 1 .. i : Prefix(k, i)}
  <2>3. 1 \in T
    <3>1. F[1] \in Seq(S) /\ 1 \in 1 .. n
      BY <1>1, <1>3, <2>2
    <3>2. Prefix(1, 1)
      BY <3>1
    <3>3. \A k \in 1 .. 1 : k = 1
      OBVIOUS
    <3> HIDE DEF Prefix
    <3> QED BY <3>1, <3>2, <3>3
  <2>4. ASSUME NEW i \in 1 .. n - 1, i \in T PROVE i + 1 \in T
    <3>1. i + 1 \in 2 .. n /\ (i + 1) - 1 = i /\ i + 1 \in 1 .. n /\ i \in Nat
      BY <1>1
    <3>2. F[i + 1] = F[i] \o seqs[i + 1]
      BY <2>2, <3>1
    <3>3. F[i] \in Seq(S) /\ seqs[i + 1] \in Seq(S)
      <4>1. i \in 1 .. i
        BY <3>1
      <4> QED BY <1>1, <2>4, <3>1, <4>1
    <3>4. /\ F[i + 1] \in Seq(S) /\ Len(F[i]) \in Nat /\ Len(F[i]) <= Len(F[i + 1])
          /\ \A j \in 1 .. Len(F[i]) : F[i + 1][j] = F[i][j]
      <4> DEFINE a == F[i]
                 b == seqs[i + 1]
      <4> HIDE DEF a, b
      <4>1. a \in Seq(S) /\ b \in Seq(S)
        BY <3>3 DEF a, b
      <4>2. /\ a \o b \in Seq(S) /\ Len(a) \in Nat /\ Len(a) <= Len(a \o b)
            /\ \A j \in 1 .. Len(a) : (a \o b)[j] = a[j]
        BY <4>1
      <4> QED BY <3>2, <4>2 DEF a, b
    <3>5. ASSUME NEW k \in 1 .. i + 1 PROVE Prefix(k, i + 1)
      <4>1. CASE k = i + 1
        <5>1. Len(F[i + 1]) \in Nat
          BY <3>4
        <5> QED BY <3>4, <4>1, <5>1
      <4>2. CASE k # i + 1
        <5>1. k \in 1 .. i
          BY <3>1, <4>2
        <5>2. Prefix(k, i)
          BY <2>4, <5>1
        <5> DEFINE a == F[k]
                   b == F[i]
                   d == F[i + 1]
                   la == Len(a)
                   lb == Len(b)
                   ld == Len(d)
        <5>3. ld \in Nat
          BY <3>4
        <5>4. lb \in Nat /\ lb <= ld /\ \A j \in 1 .. lb : d[j] = b[j]
          BY <3>4
        <5>5. a \in Seq(S) /\ la \in Nat /\ la <= lb /\ \A j \in 1 .. la : b[j] = a[j]
          BY <5>2
        <5> HIDE DEF a, b, d, la, lb, ld
        <5>6. la <= ld /\ \A j \in 1 .. la : j \in 1 .. lb
          BY ONLY <5>3, <5>4, <5>5
        <5>7. \A j \in 1 .. la : d[j] = a[j]
          BY ONLY <5>4, <5>5, <5>6
        <5> QED BY <5>5, <5>6, <5>7 DEF a, d, la, ld
      <4> QED BY <4>1, <4>2
    <3> HIDE DEF Prefix
    <3> QED BY <3>1, <3>5
  <2>5. \A i \in 1 .. n : \A k \in 1 .. i : Prefix(k, i)
    <3>1. \A i \in 1 .. n - 1 : i \in T => i + 1 \in T
      BY <2>4
    <3>2. 1 \in Int /\ n \in Int
      BY <1>1
    <3>3. \A i \in 1 .. n : i \in T
      <4> HIDE DEF T, n
      <4> QED BY <2>3, <3>1, <3>2, IntervalInduction
    <3> QED BY <3>3
  <2>6. \A k \in 1 .. n : Prefix(k, n)
    <3>1. n \in 1 .. n
      BY <1>1, <1>3
    <3> HIDE DEF Prefix, n
    <3> QED BY <2>5, <3>1
  <2> DEFINE o == [k \in 1 .. n + 1 |-> IF k = 1 THEN 0 ELSE Len(F[k - 1])]
  <2>7. o \in [1 .. n + 1 -> Nat] /\ o[1] = 0 /\ o[n + 1] = Len(F[n])
    <3>1. \A k \in 2 .. n + 1 : k - 1 \in 1 .. n /\ Len(F[k - 1]) \in Nat
      BY <1>1, <2>6
    <3>2. \A k \in 1 .. n + 1 : o[k] \in Nat
      BY <3>1
    <3>3. n + 1 # 1 /\ (n + 1) - 1 = n /\ n + 1 \in 1 .. n + 1 /\ 1 \in 1 .. n + 1
      BY <1>1, <1>3
    <3> QED BY <3>2, <3>3
  <2>8. ASSUME NEW k \in 1 .. n
        PROVE  /\ o[k + 1] = o[k] + Len(seqs[k])
               /\ \A j \in 1 .. Len(seqs[k]) : F[n][o[k] + j] = seqs[k][j]
    <3>1. /\ k \in 1 .. n + 1 /\ k + 1 \in 1 .. n + 1 /\ (k + 1) - 1 = k /\ k + 1 # 1
          /\ k # 1 => k - 1 \in 1 .. n /\ k \in 2 .. n
      BY <1>1
    <3>2. /\ o[k + 1] = Len(F[k])
          /\ k = 1 => o[k] = 0 /\ F[k] = seqs[k]
          /\ k # 1 => o[k] = Len(F[k - 1]) /\ F[k] = F[k - 1] \o seqs[k] /\ F[k - 1] \in Seq(S)
      BY <2>2, <2>6, <3>1
    <3>3. /\ seqs[k] \in Seq(S) /\ Len(seqs[k]) \in Nat /\ o[k] \in Nat
          /\ Len(F[k]) = o[k] + Len(seqs[k])
          /\ \A j \in 1 .. Len(seqs[k]) : F[k][o[k] + j] = seqs[k][j]
      <4> HIDE DEF o
      <4>1. seqs[k] \in Seq(S) /\ Len(seqs[k]) \in Nat
        BY <1>1
      <4>2. CASE k = 1
        BY <3>2, <4>1, <4>2
      <4>3. CASE k # 1
        <5>1. /\ o[k] = Len(F[k - 1]) /\ F[k] = F[k - 1] \o seqs[k]
              /\ F[k - 1] \in Seq(S)
          BY <3>2, <4>3
        <5> DEFINE a == F[k - 1]
                   b == seqs[k]
        <5> HIDE DEF a, b
        <5>2. a \in Seq(S) /\ b \in Seq(S)
          BY <4>1, <5>1 DEF a, b
        <5>3. /\ Len(a) \in Nat /\ Len(a \o b) = Len(a) + Len(b)
              /\ \A j \in 1 .. Len(b) : (a \o b)[Len(a) + j] = b[j]
          BY <5>2
        <5> QED BY <4>1, <5>1, <5>3 DEF a, b
      <4> QED BY <4>2, <4>3
    <3>4. \A j \in 1 .. Len(seqs[k]) : o[k] + j \in 1 .. Len(F[k])
      <4> HIDE DEF o
      <4> QED BY <3>3
    <3>5. \A j \in 1 .. Len(F[k]) : F[n][j] = F[k][j]
      BY <2>6
    <3> HIDE DEF o
    <3> QED BY <3>2, <3>3, <3>4, <3>5
  <2>9. Starts(o, seqs, F[n])
    <3> HIDE DEF o
    <3> QED BY <2>7, <2>8 DEF Starts
  <2>10. F[n] \in Seq(S)
    BY <1>1, <1>3, <2>6
  <2> HIDE DEF o
  <2> QED BY <2>1, <2>9, <2>10
<1> QED BY <1>2, <1>3

\* Induction from the end of an interval.
LEMMA DownInduction ==
    ASSUME NEW a \in Int, NEW b \in Int, NEW T, b \in T,
           \A n \in a .. b - 1 : n + 1 \in T => n \in T
    PROVE  \A n \in a .. b : n \in T
<1> DEFINE U == {d \in Nat : b - d \in T}
<1>1. 0 \in U
  OBVIOUS
<1>2. ASSUME NEW d \in 0 .. (b - a) - 1, d \in U PROVE d + 1 \in U
  <2>1. b - (d + 1) \in a .. b - 1 /\ (b - (d + 1)) + 1 = b - d /\ d + 1 \in Nat
    OBVIOUS
  <2> QED BY <1>2, <2>1
<1>3. \A d \in 0 .. b - a : d \in U
  <2>1. \A d \in 0 .. (b - a) - 1 : d \in U => d + 1 \in U
    BY <1>2
  <2>2. 0 \in Int /\ b - a \in Int
    OBVIOUS
  <2> HIDE DEF U
  <2> QED BY <1>1, <2>1, <2>2, IntervalInduction
<1> TAKE n \in a .. b
<1>4. b - n \in 0 .. b - a /\ b - (b - n) = n
  OBVIOUS
<1> QED BY <1>3, <1>4

\* Starts do not go back.
LEMMA StartsRise ==
    ASSUME NEW seqs, NEW flat, NEW o, Starts(o, seqs, flat), Len(seqs) \in Nat,
           \A k \in 1 .. Len(seqs) : Len(seqs[k]) \in Nat
    PROVE  \A k \in 1 .. Len(seqs) + 1 : o[k] \in Nat /\ o[k] <= Len(flat)
<1> DEFINE n == Len(seqs) + 1
           T == {k \in 1 .. n : o[k] <= Len(flat)}
<1>1. n \in Nat /\ n \in 1 .. n /\ \A k \in 1 .. n : o[k] \in Nat
  <2>1. n \in Nat /\ n \in 1 .. n
    OBVIOUS
  <2>2. o \in [1 .. n -> Nat]
    BY Zenon DEF Starts
  <2> HIDE DEF n
  <2> QED BY <2>1, <2>2
<1>2. n \in T
  <2>1. o[n] = Len(flat) /\ o[n] \in Nat
    BY <1>1 DEF Starts
  <2>2. o[n] <= Len(flat)
    BY <2>1
  <2> QED BY <1>1, <2>2
<1>3. ASSUME NEW k \in 1 .. n - 1, k + 1 \in T PROVE k \in T
  <2>1. k \in 1 .. Len(seqs) /\ k \in 1 .. n /\ k + 1 \in 1 .. n
    BY <1>1
  <2>2. o[k + 1] = o[k] + Len(seqs[k])
    BY <2>1 DEF Starts
  <2>3. o[k] \in Nat /\ Len(seqs[k]) \in Nat /\ o[n] = Len(flat) /\ o[n] \in Nat
    BY <1>1, <2>1 DEF Starts
  <2>4. o[k] <= Len(flat)
    BY <1>3, <2>2, <2>3
  <2> QED BY <2>1, <2>4
<1>4. \A k \in 1 .. n : k \in T
  <2>1. \A k \in 1 .. n - 1 : k + 1 \in T => k \in T
    BY <1>3
  <2>2. 1 \in Int /\ n \in Int
    BY <1>1
  <2> HIDE DEF T, n
  <2> QED BY <1>2, <2>1, <2>2, DownInduction
<1> QED BY <1>1, <1>4

\* The scan of a class, byte by byte.
LEMMA ScanDef ==
    ASSUME pattern \in Seq(Byte), NEW c
    PROVE  Scan(c) =
             [i \in 1 .. Len(pattern) + 3 |->
                IF i > Len(pattern) \/ At(i) = Close
                THEN [found |-> FALSE, end |-> i]
                ELSE IF i + 2 <= Len(pattern) /\ At(i + 1) = Dash /\ At(i + 2) # Close
                THEN [Scan(c)[i + 3] EXCEPT !.found = @ \/ (At(i) <= c /\ c <= At(i + 2))]
                ELSE [Scan(c)[i + 1] EXCEPT !.found = @ \/ At(i) = c]]
<1> DEFINE L == Len(pattern)
           I == 1 .. L + 3
           S == [found : BOOLEAN, end : Nat]
           Body(f, i) ==
                IF i > L \/ At(i) = Close
                THEN [found |-> FALSE, end |-> i]
                ELSE IF i + 2 <= L /\ At(i + 1) = Dash /\ At(i + 2) # Close
                THEN [f[i + 3] EXCEPT !.found = @ \/ (At(i) <= c /\ c <= At(i + 2))]
                ELSE [f[i + 1] EXCEPT !.found = @ \/ At(i) = c]
           D == [f \in [I -> S] |-> [i \in I |-> Body(f, i)]]
           rank == [i \in I |-> (L + 3) - i]
           K == L + 3
<1>1. L \in Nat
  OBVIOUS
<1>2. S # {} /\ K \in Nat /\ rank \in [I -> 0 .. K - 1]
  <2>1. [found |-> FALSE, end |-> 0] \in S
    OBVIOUS
  <2>2. K \in Nat /\ \A i \in I : (L + 3) - i \in 0 .. K - 1
    BY <1>1
  <2> HIDE DEF S, K
  <2> QED BY <2>1, <2>2
<1>3. ASSUME NEW f \in [I -> S], NEW i \in I PROVE Body(f, i) \in S
  <2>1. /\ i \in Nat
        /\ i <= L => i + 1 \in I
        /\ i + 2 <= L => i + 3 \in I
    BY <1>1
  <2> HIDE DEF I, L
  <2>2. \A e \in S, b \in BOOLEAN : [e EXCEPT !.found = @ \/ b] \in S
    OBVIOUS
  <2>3. ~(i > L) => i <= L
    BY <1>1, <2>1
  <2>4. /\ i <= L => f[i + 1] \in S
        /\ i + 2 <= L => f[i + 3] \in S
    BY <2>1
  <2>5. [found |-> FALSE, end |-> i] \in S
    BY <2>1
  <2>6. (At(i) <= c /\ c <= At(i + 2)) \in BOOLEAN /\ (At(i) = c) \in BOOLEAN
    OBVIOUS
  <2> HIDE DEF S
  <2> QED BY <2>2, <2>3, <2>4, <2>5, <2>6
<1>4. D \in [[I -> S] -> [I -> S]]
  <2> HIDE DEF Body, I, S
  <2> QED BY <1>3
<1>5. ASSUME NEW f \in [I -> S], NEW g \in [I -> S], NEW i \in I,
             \A j \in I : rank[j] < rank[i] => f[j] = g[j]
      PROVE  D[f][i] = D[g][i]
  <2>1. /\ ~(i > L) => i + 1 \in I /\ rank[i + 1] < rank[i]
        /\ i + 2 <= L => i + 3 \in I /\ rank[i + 3] < rank[i]
    BY <1>1
  <2>2. /\ ~(i > L) => f[i + 1] = g[i + 1]
        /\ i + 2 <= L => f[i + 3] = g[i + 3]
    BY <1>5, <2>1
  <2>3. Body(f, i) = Body(g, i)
    <3> HIDE DEF I, L, S
    <3> QED BY <2>2
  <2> HIDE DEF Body, I, S
  <2> QED BY <2>3
<1>6. \E f \in [I -> S] : f = D[f]
  <2>1. \A f, g \in [I -> S] : \A n \in I :
           (\A j \in I : rank[j] < rank[n] => f[j] = g[j]) => D[f][n] = D[g][n]
    BY <1>5
  <2> HIDE DEF I, S, D, rank, K
  <2>2. Descends(I, S, K, rank, D)
    BY <1>2, <1>4, <2>1 DEF Descends
  <2> QED BY <2>2, Recursion
<1>7. \E f : f = [n \in I |-> Body(f, n)]
  <2> HIDE DEF Body, I, S
  <2> QED BY <1>6
<1>8. Scan(c) = CHOOSE f : f = [n \in I |-> Body(f, n)]
  BY DEF Scan
<1>9. Scan(c) = [n \in I |-> Body(Scan(c), n)]
  <2> HIDE DEF Body, I
  <2> QED BY <1>7, <1>8
<1> QED BY <1>9

\* A byte of the pattern is a byte, and past its end there is none.
LEMMA AtFacts ==
    ASSUME pattern \in Seq(Byte)
    PROVE  /\ Len(pattern) \in Nat
           /\ \A i \in 1 .. Len(pattern) : At(i) = pattern[i] /\ At(i) \in Byte
           /\ \A i \in Nat : i > Len(pattern) => At(i) = -1
<1>1. Len(pattern) \in Nat /\ \A i \in 1 .. Len(pattern) : pattern[i] \in Byte
  OBVIOUS
<1>2. \A i \in 1 .. Len(pattern) : i <= Len(pattern)
  BY <1>1
<1>3. \A i \in Nat : i > Len(pattern) => ~(i <= Len(pattern))
  BY <1>1
<1> QED BY <1>1, <1>2, <1>3 DEF At

\* What a scan finds: whether c was found, and where the class ends.
ScanResult == [found : BOOLEAN, end : Nat]

\* One byte or one range of the scan of a class.
ScanTurn(c, i) ==
    /\ Scan(c)[i] \in ScanResult
    /\ i > Len(pattern) \/ At(i) = Close => ~Scan(c)[i].found /\ Scan(c)[i].end = i
    /\ i <= Len(pattern) /\ At(i) # Close =>
         IF i + 2 <= Len(pattern) /\ At(i + 1) = Dash /\ At(i + 2) # Close
         THEN /\ Scan(c)[i].found <=> Scan(c)[i + 3].found \/ (At(i) <= c /\ c <= At(i + 2))
              /\ Scan(c)[i].end = Scan(c)[i + 3].end
         ELSE /\ Scan(c)[i].found <=> Scan(c)[i + 1].found \/ At(i) = c
              /\ Scan(c)[i].end = Scan(c)[i + 1].end

\* A scan goes on from every byte as its recursion says.
LEMMA ScanStep ==
    ASSUME pattern \in Seq(Byte), NEW c, NEW i \in 1 .. Len(pattern) + 3
    PROVE  ScanTurn(c, i)
<1> DEFINE L == Len(pattern)
           F == Scan(c)
           IsRange(j) == j + 2 <= L /\ At(j + 1) = Dash /\ At(j + 2) # Close
           In(j) == At(j) <= c /\ c <= At(j + 2)
<1>1. L \in Nat
  OBVIOUS
<1> DEFINE Body(j) == IF j > L \/ At(j) = Close
                      THEN [found |-> FALSE, end |-> j]
                      ELSE IF IsRange(j)
                      THEN [F[j + 3] EXCEPT !.found = @ \/ In(j)]
                      ELSE [F[j + 1] EXCEPT !.found = @ \/ At(j) = c]
<1>2. \A j \in 1 .. L + 3 : F[j] = Body(j)
  <2>1. F = [j \in 1 .. L + 3 |-> Body(j)]
    BY ScanDef
  <2> HIDE DEF Body, F, L
  <2> QED BY <2>1, Zenon
<1>3. \A e \in ScanResult, b \in BOOLEAN :
         /\ [e EXCEPT !.found = @ \/ b].found <=> e.found \/ b
         /\ [e EXCEPT !.found = @ \/ b].end = e.end
         /\ [e EXCEPT !.found = @ \/ b] \in ScanResult
  BY DEF ScanResult
<1>4. \A j : In(j) \in BOOLEAN /\ (At(j) = c) \in BOOLEAN
  OBVIOUS
<1> HIDE DEF F, In
<1> DEFINE Step(j) ==
             /\ F[j] \in ScanResult
             /\ j > L \/ At(j) = Close => ~F[j].found /\ F[j].end = j
             /\ j <= L /\ At(j) # Close =>
                  IF IsRange(j)
                  THEN (F[j].found <=> F[j + 3].found \/ In(j)) /\ F[j].end = F[j + 3].end
                  ELSE (F[j].found <=> F[j + 1].found \/ At(j) = c) /\ F[j].end = F[j + 1].end
           T == {j \in 1 .. L + 3 : \A m \in j .. L + 3 : F[m] \in ScanResult}
<1>5. ASSUME NEW j \in 1 .. L + 3,
             j + 1 <= L + 3 => F[j + 1] \in ScanResult,
             j + 3 <= L + 3 => F[j + 3] \in ScanResult
      PROVE  Step(j)
  <2>1. CASE j > L \/ At(j) = Close
    <3>1. F[j] = [found |-> FALSE, end |-> j]
      BY <1>2, <2>1
    <3>2. [found |-> FALSE, end |-> j] \in ScanResult
      BY DEF ScanResult
    <3>3. ~(j <= L /\ At(j) # Close)
      BY <1>1, <2>1
    <3> QED BY <3>1, <3>2, <3>3
  <2>2. CASE ~(j > L \/ At(j) = Close)
    <3>1. j <= L /\ j + 1 <= L + 3 /\ j + 3 <= L + 3
      BY <1>1, <2>2
    <3>2. F[j + 1] \in ScanResult /\ F[j + 3] \in ScanResult
      BY <1>5, <3>1
    <3>3. CASE IsRange(j)
      <4> HIDE DEF IsRange
      <4>1. F[j] = [F[j + 3] EXCEPT !.found = @ \/ In(j)]
        BY <1>2, <2>2, <3>3
      <4> DEFINE b == In(j)
      <4>2. b \in BOOLEAN
        BY <1>4
      <4>3. F[j] = [F[j + 3] EXCEPT !.found = @ \/ b]
        BY <4>1
      <4> HIDE DEF b
      <4>4. /\ F[j].found <=> F[j + 3].found \/ b
            /\ F[j].end = F[j + 3].end /\ F[j] \in ScanResult
        BY <1>3, <3>2, <4>2, <4>3
      <4> QED BY <2>2, <3>3, <4>4 DEF b
    <3>4. CASE ~IsRange(j)
      <4> HIDE DEF IsRange
      <4>1. F[j] = [F[j + 1] EXCEPT !.found = @ \/ At(j) = c]
        BY <1>2, <2>2, <3>4
      <4> DEFINE b == At(j) = c
      <4>2. b \in BOOLEAN
        OBVIOUS
      <4>3. F[j] = [F[j + 1] EXCEPT !.found = @ \/ b]
        BY <4>1
      <4> HIDE DEF b
      <4>4. /\ F[j].found <=> F[j + 1].found \/ b
            /\ F[j].end = F[j + 1].end /\ F[j] \in ScanResult
        BY <1>3, <3>2, <4>2, <4>3
      <4> QED BY <2>2, <3>4, <4>4 DEF b
    <3> QED BY <3>3, <3>4
  <2> QED BY <2>1, <2>2
<1>6. L + 3 \in T
  <2>1. L + 3 \in 1 .. L + 3 /\ \A m \in (L + 3) .. L + 3 : m = L + 3
    BY <1>1
  <2>2. ~(L + 3 + 1 <= L + 3) /\ ~(L + 3 + 3 <= L + 3)
    BY <1>1
  <2>3. Step(L + 3)
    <3> HIDE DEF Step, L
    <3> QED BY <1>5, <2>1, <2>2
  <2> QED BY <2>1, <2>3
<1>7. ASSUME NEW j \in 1 .. (L + 3) - 1, j + 1 \in T PROVE j \in T
  <2>1. j \in 1 .. L + 3 /\ \A m \in j .. L + 3 : m = j \/ m \in j + 1 .. L + 3
    BY <1>1
  <2>2. /\ j + 1 <= L + 3 => j + 1 \in j + 1 .. L + 3
        /\ j + 3 <= L + 3 => j + 3 \in j + 1 .. L + 3
    BY <1>1
  <2>3. Step(j)
    <3> HIDE DEF Step, L
    <3> QED BY <1>5, <1>7, <2>1, <2>2
  <2> QED BY <1>7, <2>1, <2>3
<1>8. \A j \in 1 .. L + 3 : j \in T
  <2>1. \A j \in 1 .. (L + 3) - 1 : j + 1 \in T => j \in T
    BY <1>7
  <2>2. 1 \in Int /\ L + 3 \in Int
    BY <1>1
  <2> HIDE DEF T, L
  <2> QED BY <1>6, <2>1, <2>2, DownInduction
<1>9. \A m \in 1 .. L + 3 : F[m] \in ScanResult
  <2>1. 1 \in 1 .. L + 3
    BY <1>1
  <2> QED BY <1>8, <2>1
<1>10. /\ i + 1 <= L + 3 => F[i + 1] \in ScanResult
       /\ i + 3 <= L + 3 => F[i + 3] \in ScanResult
  <2>1. /\ i + 1 <= L + 3 => i + 1 \in 1 .. L + 3
        /\ i + 3 <= L + 3 => i + 3 \in 1 .. L + 3
    BY <1>1
  <2> QED BY <1>9, <2>1
<1>11. Step(i)
  <2> HIDE DEF Step
  <2> QED BY <1>5, <1>10
<1> QED BY <1>11 DEF F, In, ScanTurn

\* Where a sequence with its starts lies in the pattern, from byte f on.
Lies(seqs, q, flat, f) ==
    /\ Starts(q, seqs, flat)
    /\ f \in Nat \ {0} /\ f + Len(flat) <= Len(pattern) + 1
    /\ \A j \in 1 .. Len(flat) : pattern[(f - 1) + j] = flat[j]

\* The bytes of the k-th of the sequences.
LEMMA LiesBytes ==
    ASSUME pattern \in Seq(Byte), NEW seqs \in Seq(Seq(Byte)), NEW q, NEW flat \in Seq(Byte),
           NEW f, Lies(seqs, q, flat, f), NEW k \in 1 .. Len(seqs)
    PROVE  /\ q[k] \in Nat /\ q[k + 1] = q[k] + Len(seqs[k]) /\ q[k + 1] <= Len(flat)
           /\ Len(seqs[k]) \in Nat
           /\ \A j \in 1 .. Len(seqs[k]) : At((f + q[k]) + (j - 1)) = seqs[k][j]
<1>1. Len(seqs) \in Nat /\ \A m \in 1 .. Len(seqs) : Len(seqs[m]) \in Nat
  OBVIOUS
<1>2. k \in 1 .. Len(seqs) + 1 /\ k + 1 \in 1 .. Len(seqs) + 1
  BY <1>1
<1>3. Starts(q, seqs, flat)
  BY DEF Lies
<1>4. q[k] \in Nat /\ q[k + 1] <= Len(flat)
  BY <1>1, <1>2, <1>3, StartsRise
<1>5. /\ q[k + 1] = q[k] + Len(seqs[k])
      /\ \A j \in 1 .. Len(seqs[k]) : flat[q[k] + j] = seqs[k][j]
  BY <1>3, Zenon DEF Starts
<1>6. ASSUME NEW j \in 1 .. Len(seqs[k]) PROVE At((f + q[k]) + (j - 1)) = seqs[k][j]
  <2>1. f \in Nat \ {0} /\ f + Len(flat) <= Len(pattern) + 1
    BY DEF Lies
  <2>2. Len(seqs[k]) \in Nat /\ Len(flat) \in Nat /\ Len(pattern) \in Nat
    BY <1>1
  <2>3. /\ q[k] + j \in 1 .. Len(flat)
        /\ (f + q[k]) + (j - 1) = (f - 1) + (q[k] + j)
        /\ (f + q[k]) + (j - 1) \in 1 .. Len(pattern)
    <3>1. j \in Nat /\ 1 <= j /\ j <= Len(seqs[k])
      BY <2>2
    <3>2. q[k + 1] = q[k] + Len(seqs[k])
      BY <1>5
    <3> DEFINE a == q[k]
               b == q[k + 1]
               m == Len(seqs[k])
               n == Len(flat)
               l == Len(pattern)
    <3>3. /\ a \in Nat /\ b <= n /\ b = a + m /\ 1 <= j /\ j <= m /\ j \in Nat
          /\ m \in Nat /\ n \in Nat /\ l \in Nat /\ f \in Nat /\ f # 0 /\ f + n <= l + 1
      BY <1>4, <2>1, <2>2, <3>1, <3>2
    <3> HIDE DEF a, b, m, n, l
    <3>4. a + j \in 1 .. n /\ (f + a) + (j - 1) = (f - 1) + (a + j) /\ (f + a) + (j - 1) \in 1 .. l
      BY ONLY <3>3
    <3> QED BY <3>4 DEF a, b, m, n, l
  <2>4. pattern[(f - 1) + (q[k] + j)] = flat[q[k] + j]
    BY <2>3 DEF Lies
  <2>5. At((f + q[k]) + (j - 1)) = pattern[(f + q[k]) + (j - 1)]
    BY <2>3, AtFacts
  <2> QED BY <1>5, <2>3, <2>4, <2>5
<1> QED BY <1>1, <1>4, <1>5, <1>6

\* From byte f on, the pattern has the items of a class, then its end.
ClassAt(mark, items, q, flat, f) ==
    /\ items \in Seq(Seq(Byte)) /\ ReadAsItems(mark, items)
    /\ flat \in Seq(Byte) /\ Lies(items, q, flat, f)
    /\ f + Len(flat) <= Len(pattern) /\ pattern[f + Len(flat)] = Close

ScanFinds(c, f, items, end) ==
    /\ Scan(c)[f].found <=> \E k \in DOMAIN items : Covers(items[k], c)
    /\ Scan(c)[f].found \in BOOLEAN
    /\ Scan(c)[f].end = end

\* The scan of the items of a class, followed by its end, finds what they cover.
LEMMA ClassScan ==
    ASSUME pattern \in Seq(Byte), NEW c, NEW mark, NEW items, NEW q, NEW flat, NEW f,
           ClassAt(mark, items, q, flat, f)
    PROVE  ScanFinds(c, f, items, f + Len(flat))
<1> USE DEF ClassAt
<1> DEFINE n == Len(items)
           close == f + Len(flat)
           F == Scan(c)
           Found(k) == \E j \in k .. n : Covers(items[j], c)
           T == {k \in 1 .. n + 1 : (F[f + q[k]].found <=> Found(k)) /\ F[f + q[k]].end = close}
<1>1. /\ n \in Nat /\ Len(flat) \in Nat /\ Len(pattern) \in Nat
      /\ f \in Nat \ {0} /\ close \in 1 .. Len(pattern) /\ At(close) = Close
  <2>1. n \in Nat /\ Len(flat) \in Nat /\ Len(pattern) \in Nat /\ f \in Nat \ {0}
    BY DEF Lies
  <2>2. close \in 1 .. Len(pattern)
    BY <2>1
  <2> QED BY <2>1, <2>2, AtFacts
<1>2. /\ q \in [1 .. n + 1 -> Nat] /\ q[1] = 0 /\ q[n + 1] = Len(flat)
  BY Zenon DEF Lies, Starts
<1>3. \A k \in 1 .. n : IsItem(items[k])
  BY DEF ReadAsItems
<1>4. n + 1 \in T
  <2>1. n + 1 \in 1 .. n + 1 /\ ~Found(n + 1)
    BY <1>1
  <2>2. close \in 1 .. Len(pattern) + 3
    BY <1>1
  <2>3. ~F[close].found /\ F[close].end = close
    <3> HIDE DEF close, Found, T
    <3>1. ScanTurn(c, close)
      BY <2>2, ScanStep
    <3> QED BY <1>1, <3>1 DEF ScanTurn
  <2> HIDE DEF Found, F
  <2> QED BY <1>2, <2>1, <2>3
<1>5. ASSUME NEW k \in 1 .. (n + 1) - 1, k + 1 \in T PROVE k \in T
  <2> DEFINE p == f + q[k]
             item == items[k]
             r == f + q[k + 1]
  <2>1. k \in 1 .. n /\ k \in 1 .. n + 1 /\ k + 1 \in 1 .. n + 1
    BY <1>1
  <2>2. /\ q[k] \in Nat /\ q[k + 1] = q[k] + Len(item) /\ q[k + 1] <= Len(flat)
        /\ Len(item) \in Nat
        /\ \A j \in 1 .. Len(item) : At(p + (j - 1)) = item[j]
    BY <2>1, LiesBytes
  <2>3. (F[r].found <=> Found(k + 1)) /\ F[r].end = close
    BY <1>5
  <2>4. Found(k) <=> Covers(item, c) \/ Found(k + 1)
    <3>1. \A j \in k .. n : j = k \/ j \in k + 1 .. n
      BY <1>1, <2>1
    <3>2. k \in k .. n /\ \A j \in k + 1 .. n : j \in k .. n
      BY <1>1, <2>1
    <3> QED BY <3>1, <3>2
  <2>5. /\ IsItem(item)
        /\ Len(item) = 1 \/ (Len(item) = 3 /\ item[2] = Dash)
        /\ \A j \in 1 .. Len(item) : item[j] # Close
    <3>1. IsItem(item)
      BY <1>3, <2>1
    <3>2. item \in Seq(Byte \ {Close})
      BY <3>1 DEF IsItem
    <3>3. \A j \in 1 .. Len(item) : item[j] # Close
      BY <3>2
    <3> QED BY <3>1, <3>3 DEF IsItem
  <2>6. p \in 1 .. Len(pattern) + 3 /\ p <= Len(pattern) /\ p \in Nat /\ r = p + Len(item) /\ r <= close
    <3> DEFINE a == q[k]
               b == q[k + 1]
               m == Len(item)
               h == Len(flat)
               l == Len(pattern)
    <3>1. /\ a \in Nat /\ b = a + m /\ b <= h /\ m \in Nat /\ h \in Nat /\ l \in Nat
          /\ f \in Nat /\ f # 0 /\ f + h <= l /\ (m = 1 \/ m = 3)
      BY <1>1, <2>2, <2>5
    <3> HIDE DEF a, b, m, h, l
    <3>2. f + a \in 1 .. l + 3 /\ f + a <= l /\ f + a \in Nat /\ f + b = (f + a) + m /\ f + b <= f + h
      BY ONLY <3>1
    <3> QED BY <3>2 DEF a, b, m, h, l
  <2>7. p + 0 = p /\ p + (1 - 1) = p /\ p + (2 - 1) = p + 1 /\ p + (3 - 1) = p + 2
    BY ONLY <2>6
  <2> HIDE DEF p, item, r, F, Found, close
  <2>8. CASE Len(item) = 1
    <3>1. At(p) = item[1] /\ At(p) # Close
      <4>1. 1 \in 1 .. Len(item)
        BY <2>8
      <4> QED BY <2>2, <2>5, <2>7, <4>1
    <3>2. ~(p + 2 <= Len(pattern) /\ At(p + 1) = Dash /\ At(p + 2) # Close)
      <4>1. CASE k = n
        <5>1. p + 1 = close
          BY <1>1, <1>2, <2>2, <2>6, <2>8, <4>1 DEF close, r
        <5>2. At(p + 1) # Dash
          BY <1>1, <5>1 DEF Close, Dash
        <5> QED BY <5>2
      <4>2. CASE k # n /\ At(p + 1) = Dash
        <5>1. k + 1 \in 1 .. n /\ k + 1 # 1 /\ (k + 1) - 1 = k
          BY <1>1, <2>1, <4>2
        <5>2. /\ Len(items[k + 1]) \in Nat
              /\ q[(k + 1) + 1] = q[k + 1] + Len(items[k + 1])
          BY <5>1, LiesBytes
        <5>3. \A j \in 1 .. Len(items[k + 1]) : At(r + (j - 1)) = items[k + 1][j]
          BY <5>1, LiesBytes DEF r
        <5>8. 1 \in 1 .. Len(items[k + 1]) /\ r + (1 - 1) = p + 1
          <6>1. IsItem(items[k + 1])
            BY <1>3, <5>1
          <6>2. Len(items[k + 1]) = 1 \/ Len(items[k + 1]) = 3
            BY <6>1 DEF IsItem
          <6> DEFINE m == Len(items[k + 1])
          <6>3. m = 1 \/ m = 3
            BY <6>2
          <6> HIDE DEF m
          <6>4. 1 \in 1 .. m
            BY ONLY <6>3
          <6>5. r + (1 - 1) = p + 1
            BY ONLY <2>6, <2>8
          <6> QED BY <6>4, <6>5 DEF m
        <5>4. items[k + 1][1] = Dash
          BY <4>2, <5>3, <5>8
        <5>5. k + 1 = n /\ items[k + 1] = <<Dash>>
          <6>1. k + 1 \in DOMAIN items \ {1}
            BY <5>1
          <6>2. \A m \in DOMAIN items \ {1} :
                   Len(items[m - 1]) = 1 /\ items[m][1] = Dash => m = n /\ items[m] = <<Dash>>
            BY DEF ReadAsItems
          <6> QED BY <2>8, <5>1, <5>4, <6>1, <6>2 DEF item
        <5>6. p + 2 = close
          <6>1. Len(items[k + 1]) = 1
            BY <5>5
          <6>2. q[n + 1] = q[k + 1] + 1 /\ q[n + 1] = Len(flat)
            BY <1>2, <5>2, <5>5, <6>1
          <6>3. r = f + q[k + 1] /\ close = f + Len(flat) /\ q[k + 1] = q[k] + Len(item) /\ q[k] \in Nat
            BY <2>2 DEF close, r
          <6> DEFINE a == q[k]
                     b == q[k + 1]
                     h == Len(flat)
          <6>4. /\ a \in Nat /\ b = a + 1 /\ h = b + 1 /\ r = f + b /\ close = f + h
                /\ f \in Nat /\ r = p + 1 /\ p \in Nat
            BY <1>1, <2>6, <2>8, <6>2, <6>3
          <6> HIDE DEF a, b, h
          <6> QED BY ONLY <6>4
        <5> QED BY <1>1, <5>6
      <4> QED BY <4>1, <4>2
    <3>3. (F[p].found <=> F[p + 1].found \/ At(p) = c) /\ F[p].end = F[p + 1].end
      <4>1. p \in 1 .. Len(pattern) + 3 /\ p <= Len(pattern) /\ At(p) # Close
        BY <2>6, <3>1
      <4>2. ScanTurn(c, p)
        BY <4>1, ScanStep
      <4> QED BY <3>2, <4>1, <4>2, Zenon DEF ScanTurn, F
    <3>4. (F[p + 1].found <=> Found(k + 1)) /\ F[p + 1].end = close
      <4>1. r = p + 1
        BY <2>6, <2>8
      <4> QED BY <2>3, <4>1
    <3>5. Covers(item, c) <=> At(p) = c
      BY <2>8, <3>1 DEF Covers
    <3>6. (F[p].found <=> Found(k)) /\ F[p].end = close
      BY ONLY <2>4, <3>3, <3>4, <3>5
    <3> QED BY <2>1, <3>6 DEF p
  <2>9. CASE Len(item) = 3 /\ item[2] = Dash
    <3>1. At(p) = item[1] /\ At(p) # Close /\ At(p + 1) = Dash /\ At(p + 2) = item[3] /\ At(p + 2) # Close
      <4>1. 1 \in 1 .. Len(item) /\ 2 \in 1 .. Len(item) /\ 3 \in 1 .. Len(item)
        BY <2>9
      <4>2. At(p) = item[1] /\ At(p + 1) = item[2] /\ At(p + 2) = item[3]
        BY <2>2, <2>7, <4>1
      <4> QED BY <2>5, <2>9, <4>1, <4>2
    <3>2. p + 2 <= Len(pattern)
      BY <1>1, <2>6, <2>9
    <3>3. /\ F[p].found <=> F[p + 3].found \/ (At(p) <= c /\ c <= At(p + 2))
          /\ F[p].end = F[p + 3].end
      <4>1. p \in 1 .. Len(pattern) + 3
        BY <2>6
      <4>2. ScanTurn(c, p)
        BY <4>1, ScanStep
      <4>3. p <= Len(pattern)
        BY <2>6
      <4> QED BY <3>1, <3>2, <4>2, <4>3, Zenon DEF ScanTurn, F
    <3>4. (F[p + 3].found <=> Found(k + 1)) /\ F[p + 3].end = close
      <4>1. r = p + 3
        BY <2>6, <2>9
      <4> QED BY <2>3, <4>1
    <3>5. Covers(item, c) <=> At(p) <= c /\ c <= At(p + 2)
      BY <2>9, <3>1 DEF Covers
    <3>6. (F[p].found <=> Found(k)) /\ F[p].end = close
      BY ONLY <2>4, <3>3, <3>4, <3>5
    <3> QED BY <2>1, <3>6 DEF p
  <2> QED BY <2>5, <2>8, <2>9
<1>6. \A k \in 1 .. n + 1 : k \in T
  <2>1. \A k \in 1 .. (n + 1) - 1 : k + 1 \in T => k \in T
    BY <1>5
  <2>2. 1 \in Int /\ n + 1 \in Int
    BY <1>1
  <2> HIDE DEF T, n
  <2> QED BY <1>4, <2>1, <2>2, DownInduction
<1>7. (F[f + q[1]].found <=> Found(1)) /\ F[f + q[1]].end = close
  <2>1. 1 \in 1 .. n + 1
    BY <1>1
  <2> HIDE DEF F, Found, close
  <2> QED BY <1>6, <2>1
<1>8. f + q[1] = f /\ DOMAIN items = 1 .. n /\ f \in 1 .. Len(pattern) + 3
  BY <1>1, <1>2
<1>9. F[f].found \in BOOLEAN
  <2>1. ScanTurn(c, f)
    BY <1>8, ScanStep
  <2> QED BY <2>1 DEF ScanTurn, ScanResult
<1> QED BY <1>7, <1>8, <1>9 DEF ScanFinds

\* Where no class ends any more, the scan of one goes past the end of the pattern.
LEMMA OpenScan ==
    ASSUME pattern \in Seq(Byte), NEW c, NEW f \in 1 .. Len(pattern) + 3,
           \A j \in f .. Len(pattern) : At(j) # Close
    PROVE  Scan(c)[f].end \in Nat /\ Scan(c)[f].end > Len(pattern)
<1> DEFINE L == Len(pattern)
           F == Scan(c)
           Past(m) == F[m].end \in Nat /\ F[m].end > L
           T == {i \in f .. L + 3 : \A m \in i .. L + 3 : Past(m)}
<1>1. L \in Nat /\ f \in Nat /\ f # 0 /\ f <= L + 3
  OBVIOUS
<1>2. ASSUME NEW i \in f .. L + 3, i > L PROVE Past(i)
  <2>1. i \in 1 .. L + 3
    BY <1>1
  <2>2. F[i].end = i
    <3>1. ScanTurn(c, i)
      BY <2>1, ScanStep
    <3> QED BY <1>2, <3>1 DEF ScanTurn
  <2> QED BY <1>1, <1>2, <2>1, <2>2
<1> HIDE DEF F
<1>3. L + 3 \in T
  <2>1. L + 3 \in f .. L + 3 /\ L + 3 > L /\ \A m \in (L + 3) .. L + 3 : m = L + 3
    BY <1>1
  <2>2. Past(L + 3)
    BY <1>2, <2>1
  <2> HIDE DEF Past, L
  <2> QED BY <2>1, <2>2
<1>4. ASSUME NEW i \in f .. (L + 3) - 1, i + 1 \in T PROVE i \in T
  <2>1. /\ i \in f .. L + 3 /\ i \in 1 .. L + 3
        /\ \A m \in i .. L + 3 : m = i \/ m \in i + 1 .. L + 3
        /\ i <= L => i + 1 \in i + 1 .. L + 3
        /\ i + 2 <= L => i + 3 \in i + 1 .. L + 3
    BY <1>1
  <2>2. Past(i)
    <3>1. CASE i > L
      BY <1>2, <2>1, <3>1
    <3>2. CASE ~(i > L)
      <4>1. i <= L /\ i \in f .. L
        BY <1>1, <2>1, <3>2
      <4>2. At(i) # Close
        BY <4>1
      <4>3. F[i].end = F[i + 1].end \/ (i + 2 <= L /\ F[i].end = F[i + 3].end)
        <5>1. ScanTurn(c, i)
          BY <2>1, ScanStep
        <5> QED BY <4>1, <4>2, <5>1 DEF ScanTurn, F
      <4>4. Past(i + 1) /\ (i + 2 <= L => Past(i + 3))
        <5> HIDE DEF Past, L
        <5> QED BY <1>4, <2>1, <4>1
      <4> QED BY <4>3, <4>4
    <3> QED BY <3>1, <3>2
  <2> HIDE DEF Past, L
  <2> QED BY <1>4, <2>1, <2>2
<1>5. \A i \in f .. L + 3 : i \in T
  <2>1. \A i \in f .. (L + 3) - 1 : i + 1 \in T => i \in T
    BY <1>4
  <2>2. f \in Int /\ L + 3 \in Int
    BY <1>1
  <2> HIDE DEF T, L
  <2> QED BY <1>3, <2>1, <2>2, DownInduction
<1>6. Past(f)
  <2>1. f \in f .. L + 3
    BY <1>1
  <2> HIDE DEF Past
  <2> QED BY <1>5, <2>1
<1> QED BY <1>6 DEF F

\* What is in a concatenation, and where.
Appended(S, a, b) ==
    /\ a \o b \in Seq(S) /\ Len(a) \in Nat /\ Len(b) \in Nat
    /\ Len(a \o b) = Len(a) + Len(b)
    /\ \A j \in 1 .. Len(a) : (a \o b)[j] = a[j]
    /\ \A j \in 1 .. Len(b) : (a \o b)[Len(a) + j] = b[j]

\* A concatenation has the bytes of the one and then of the other.
LEMMA Concatenated ==
    ASSUME NEW S, NEW a \in Seq(S), NEW b \in Seq(S)
    PROVE  Appended(S, a, b)
BY DEF Appended

\* How a class is written.
LEMMA ClassBytes ==
    ASSUME NEW mark \in {<<>>, <<Caret>>, <<Bang>>}, NEW flat \in Seq(Byte), NEW b,
           b = <<Open>> \o mark \o flat \o <<Close>>
    PROVE  /\ b \in Seq(Byte) /\ Len(mark) \in {0, 1} /\ Len(flat) \in Nat
           /\ Len(mark) = 0 <=> mark = <<>>
           /\ Len(b) = (2 + Len(mark)) + Len(flat) /\ b[1] = Open
           /\ mark # <<>> => b[2] \in {Caret, Bang}
           /\ \A j \in 1 .. Len(flat) : b[(1 + Len(mark)) + j] = flat[j]
           /\ b[(2 + Len(mark)) + Len(flat)] = Close
<1>1. /\ Open \in Byte /\ Close \in Byte /\ Caret \in Byte /\ Bang \in Byte
      /\ <<Open>> \in Seq(Byte) /\ <<Close>> \in Seq(Byte) /\ mark \in Seq(Byte)
  <2>1. Open \in Byte /\ Close \in Byte /\ Caret \in Byte /\ Bang \in Byte
    BY DEF Byte, Open, Close, Caret, Bang
  <2>2. \A x \in Byte : <<x>> \in Seq(Byte)
    OBVIOUS
  <2>3. <<>> \in Seq(Byte)
    OBVIOUS
  <2> QED BY <2>1, <2>2, <2>3
<1>2. /\ Len(mark) \in {0, 1} /\ (Len(mark) = 0 <=> mark = <<>>)
      /\ mark # <<>> => mark[1] \in {Caret, Bang} /\ Len(mark) = 1
  OBVIOUS
<1> DEFINE d == <<Open>> \o mark
           e == d \o flat
           end == <<Close>>
<1>3. /\ d \in Seq(Byte) /\ Len(d) = 1 + Len(mark) /\ d[1] = Open
      /\ mark # <<>> => d[2] \in {Caret, Bang}
  <2> DEFINE open == <<Open>>
  <2>1. open \in Seq(Byte) /\ Len(open) = 1 /\ open[1] = Open
    BY <1>1
  <2> HIDE DEF open
  <2>2. /\ open \o mark \in Seq(Byte) /\ Len(open \o mark) = 1 + Len(mark)
        /\ (open \o mark)[1] = open[1]
        /\ \A j \in 1 .. Len(mark) : (open \o mark)[1 + j] = mark[j]
    <3>1. 1 \in 1 .. 1
      OBVIOUS
    <3>2. /\ open \o mark \in Seq(Byte) /\ Len(open) \in Nat /\ Len(mark) \in Nat
          /\ Len(open \o mark) = Len(open) + Len(mark)
          /\ \A j \in 1 .. Len(open) : (open \o mark)[j] = open[j]
          /\ \A j \in 1 .. Len(mark) : (open \o mark)[Len(open) + j] = mark[j]
      BY <1>1, <2>1, Concatenated DEF Appended
    <3> QED BY <2>1, <3>1, <3>2
  <2>3. mark # <<>> => (open \o mark)[1 + 1] = mark[1]
    <3>1. mark # <<>> => 1 \in 1 .. Len(mark)
      BY <1>2
    <3> QED BY <2>2, <3>1
  <2> QED BY <1>2, <2>1, <2>2, <2>3 DEF open
<1> HIDE DEF d
<1>4. /\ e \in Seq(Byte) /\ Len(d) \in Nat /\ Len(flat) \in Nat
      /\ Len(e) = Len(d) + Len(flat)
      /\ \A j \in 1 .. Len(d) : e[j] = d[j]
      /\ \A j \in 1 .. Len(flat) : e[Len(d) + j] = flat[j]
  <2>1. Appended(Byte, d, flat)
    BY <1>3, Concatenated
  <2> QED BY <2>1 DEF Appended
<1> HIDE DEF e
<1>5. end \in Seq(Byte) /\ Len(end) = 1 /\ end[1] = Close
  BY <1>1
<1> HIDE DEF end
<1>6. /\ e \o end \in Seq(Byte) /\ Len(e \o end) = Len(e) + 1
      /\ \A j \in 1 .. Len(e) : (e \o end)[j] = e[j]
      /\ (e \o end)[Len(e) + 1] = Close
  <2>1. 1 \in 1 .. 1
    OBVIOUS
  <2>2. /\ e \o end \in Seq(Byte) /\ Len(e) \in Nat /\ Len(end) \in Nat
        /\ Len(e \o end) = Len(e) + Len(end)
        /\ \A j \in 1 .. Len(e) : (e \o end)[j] = e[j]
        /\ \A j \in 1 .. Len(end) : (e \o end)[Len(e) + j] = end[j]
    <3>1. Appended(Byte, e, end)
      BY <1>4, <1>5, Concatenated
    <3> QED BY <3>1 DEF Appended
  <2> QED BY <1>5, <2>1, <2>2
<1>7. b = e \o end
  BY DEF d, e, end
<1>8. /\ Len(d) = 1 + Len(mark) /\ Len(e) = (1 + Len(mark)) + Len(flat)
      /\ Len(e) + 1 = (2 + Len(mark)) + Len(flat)
      /\ 1 \in 1 .. Len(d) /\ 1 \in 1 .. Len(e) /\ Len(mark) \in Nat
  BY <1>2, <1>3, <1>4
<1>9. b[1] = Open /\ (mark # <<>> => b[2] \in {Caret, Bang})
  <2>1. mark # <<>> => 2 \in 1 .. Len(d) /\ 2 \in 1 .. Len(e)
    BY <1>2, <1>4, <1>8
  <2> QED BY <1>3, <1>4, <1>6, <1>7, <1>8, <2>1
<1>10. ASSUME NEW j \in 1 .. Len(flat) PROVE b[(1 + Len(mark)) + j] = flat[j]
  <2>1. (1 + Len(mark)) + j = Len(d) + j /\ Len(d) + j \in 1 .. Len(e)
    BY <1>4, <1>8
  <2>2. e[Len(d) + j] = flat[j]
    BY <1>4
  <2> QED BY <1>6, <1>7, <2>1, <2>2
<1> QED BY <1>2, <1>4, <1>6, <1>7, <1>8, <1>9, <1>10

\* The elements and torn ends by their kinds.
Shape(x) ==
    \/ x.kind = "star" /\ BytesOf(x) = <<Star>>
    \/ x.kind = "any" /\ BytesOf(x) = <<Mark>>
    \/ /\ x.kind = "byte" /\ BytesOf(x) = <<x.byte>>
       /\ x.byte \in Byte \ {Star, Mark, Open, Slash}
    \/ x.kind = "escape" /\ BytesOf(x) = <<Slash, x.byte>> /\ x.byte \in Byte
    \/ /\ x.kind = "class" /\ x.items \in Seq(Seq(Byte)) /\ ReadAsItems(x.mark, x.items)
       /\ BytesOf(x) = <<Open>> \o x.mark \o FlattenSeq(x.items) \o <<Close>>
    \/ x.kind = "slash" /\ BytesOf(x) = <<Slash>>
    \/ x.kind = "open" /\ BytesOf(x) = <<Open>> \o x.body /\ x.body \in Seq(Byte \ {Close})

\* An element has the shape of its kind.
LEMMA ElementShape ==
    ASSUME NEW x
    PROVE  /\ IsElement(x) => Shape(x) /\ x.kind \notin {"slash", "open"}
           /\ IsTorn(x) => Shape(x) /\ x.kind \in {"slash", "open"}
<1>1. ASSUME IsElement(x) PROVE Shape(x) /\ x.kind \notin {"slash", "open"}
  <2>1. CASE x = [kind |-> "star"]
    BY <2>1 DEF Shape, BytesOf
  <2>2. CASE x = [kind |-> "any"]
    BY <2>2 DEF Shape, BytesOf
  <2>3. CASE \E c \in Byte \ {Star, Mark, Open, Slash} : x = [kind |-> "byte", byte |-> c]
    <3>1. x.kind = "byte" /\ x.byte \in Byte \ {Star, Mark, Open, Slash}
      BY <2>3
    <3> QED BY <3>1 DEF Shape, BytesOf
  <2>4. CASE \E c \in Byte : x = [kind |-> "escape", byte |-> c]
    <3>1. x.kind = "escape" /\ x.byte \in Byte
      BY <2>4
    <3> QED BY <3>1 DEF Shape, BytesOf
  <2>5. CASE x.kind = "class" /\ x.items \in Seq(Seq(Byte)) /\ ReadAsItems(x.mark, x.items)
    BY <2>5 DEF Shape, BytesOf
  <2> QED BY <1>1, <2>1, <2>2, <2>3, <2>4, <2>5 DEF IsElement
<1>2. ASSUME IsTorn(x) PROVE Shape(x) /\ x.kind \in {"slash", "open"}
  <2>1. CASE x = [kind |-> "slash"]
    BY <2>1 DEF Shape, BytesOf
  <2>2. CASE x.kind = "open" /\ x.body \in Seq(Byte \ {Close})
    BY <2>2 DEF Shape, BytesOf
  <2> QED BY <1>2, <2>1, <2>2 DEF IsTorn
<1> QED BY <1>1, <1>2

\* The bytes of an element: it is a star if the first of them is.
LEMMA ElementBytes ==
    ASSUME NEW x, Shape(x)
    PROVE  /\ BytesOf(x) \in Seq(Byte) /\ Len(BytesOf(x)) \in Nat \ {0}
           /\ BytesOf(x)[1] = Star <=> x.kind = "star"
           /\ x.kind = "star" => Len(BytesOf(x)) = 1
<1>1. /\ Star \in Byte /\ Mark \in Byte /\ Slash \in Byte /\ Open \in Byte
      /\ Mark # Star /\ Slash # Star /\ Open # Star
  BY DEF Byte, Star, Mark, Slash, Open
<1>2. \A c \in Byte : <<c>> \in Seq(Byte) /\ Len(<<c>>) = 1 /\ <<c>>[1] = c
  OBVIOUS
<1> DEFINE b == BytesOf(x)
<1> HIDE DEF b
<1>3. CASE x.kind = "star"
  <2>1. b = <<Star>>
    BY <1>3 DEF Shape, b
  <2> QED BY <1>1, <1>2, <1>3, <2>1 DEF b
<1>4. CASE x.kind = "any" \/ x.kind = "slash" \/ x.kind = "byte"
  <2>1. \E c \in Byte : b = <<c>> /\ c # Star
    BY <1>1, <1>4 DEF Shape, b
  <2> QED BY <1>2, <1>4, <2>1 DEF b
<1>5. CASE x.kind = "escape"
  <2>1. b = <<Slash, x.byte>> /\ x.byte \in Byte
    BY <1>5 DEF Shape, b
  <2>2. \A c, d \in Byte : <<c, d>> \in Seq(Byte) /\ Len(<<c, d>>) = 2 /\ <<c, d>>[1] = c
    OBVIOUS
  <2> QED BY <1>1, <1>5, <2>1, <2>2 DEF b
<1>6. CASE x.kind = "class"
  <2> DEFINE flat == FlattenSeq(x.items)
  <2>1. /\ x.items \in Seq(Seq(Byte)) /\ x.mark \in {<<>>, <<Caret>>, <<Bang>>}
        /\ b = <<Open>> \o x.mark \o flat \o <<Close>>
    BY <1>6 DEF Shape, b, ReadAsItems
  <2>2. flat \in Seq(Byte)
    BY <2>1, FlattenFacts
  <2> HIDE DEF flat
  <2>3. /\ b \in Seq(Byte) /\ Len(x.mark) \in {0, 1} /\ Len(flat) \in Nat
        /\ Len(b) = (2 + Len(x.mark)) + Len(flat) /\ b[1] = Open
    BY <2>1, <2>2, ClassBytes
  <2>4. Len(b) \in Nat \ {0}
    BY <2>3
  <2> QED BY <1>1, <1>6, <2>3, <2>4 DEF b
<1>7. CASE x.kind = "open"
  <2> DEFINE a == <<Open>>
             d == x.body
  <2>1. a \in Seq(Byte) /\ Len(a) = 1 /\ a[1] = Open
    BY <1>1
  <2>2. b = a \o d /\ d \in Seq(Byte)
    BY <1>7 DEF Shape, b
  <2> HIDE DEF a, d
  <2>3. Appended(Byte, a, d)
    BY <2>1, <2>2, Concatenated
  <2>4. a \o d \in Seq(Byte) /\ Len(a \o d) = 1 + Len(d) /\ Len(d) \in Nat /\ (a \o d)[1] = Open
    <3>1. 1 \in 1 .. 1
      OBVIOUS
    <3> QED BY <2>1, <2>3, <3>1 DEF Appended
  <2>5. Len(b) \in Nat \ {0}
    BY <2>2, <2>4
  <2> QED BY <1>1, <1>7, <2>2, <2>4, <2>5 DEF b
<1> QED BY <1>3, <1>4, <1>5, <1>6, <1>7 DEF Shape

-----------------------------------------------------------------------------
(* The pattern and its elements *)

Written == [i \in DOMAIN tokens |-> BytesOf(tokens[i])]

\* The pattern is how the tokens are written, token k after byte o[k]; only the last
\* may be torn.
InputOK(o) ==
    /\ tokens \in Seq(Pieces \cup Torn)
    /\ \A k \in 1 .. Len(tokens) : Shape(tokens[k])
    /\ \A k \in 1 .. Len(tokens) - 1 : tokens[k].kind \notin {"slash", "open"}
    /\ string \in Seq(Byte)
    /\ pattern \in Seq(Byte)
    /\ Starts(o, Written, pattern)

\* A sequence of bounded length.
LEMMA BoundedSequence ==
    ASSUME NEW S, NEW n \in Nat, NEW t \in BoundedSeq(S, n)
    PROVE  t \in Seq(S) /\ Len(t) \in Nat /\ \A k \in 1 .. Len(t) : t[k] \in S
<1>1. PICK m \in 0 .. n : t \in [1 .. m -> S]
  BY DEF BoundedSeq, SeqOf
<1>2. t \in Seq(S) /\ Len(t) = m
  BY <1>1, FunctionIsSequence
<1> QED BY <1>1, <1>2

\* A pattern is written from its elements when the matcher is called.
LEMMA InputInit ==
    ASSUME GlobInit
    PROVE  \E o : InputOK(o)
<1>1. PICK t \in BoundedSeq(Pieces, MaxTokens) : tokens \in {t} \cup {Append(t, x) : x \in Torn}
  BY DEF GlobInit
<1>2. t \in Seq(Pieces) /\ Len(t) \in Nat /\ \A k \in 1 .. Len(t) : t[k] \in Pieces
  BY <1>1, GlobAssumption, BoundedSequence
<1>3. /\ tokens \in Seq(Pieces \cup Torn)
      /\ \A k \in 1 .. Len(tokens) - 1 : tokens[k] \in Pieces
  <2>1. CASE tokens = t
    BY <1>2, <2>1
  <2>2. CASE \E x \in Torn : tokens = Append(t, x)
    <3>1. PICK x \in Torn : tokens = Append(t, x)
      BY <2>2
    <3>2. /\ tokens \in Seq(Pieces \cup Torn) /\ Len(tokens) = Len(t) + 1
          /\ \A k \in 1 .. Len(t) : tokens[k] = t[k]
      BY <1>2, <3>1
    <3>3. Len(tokens) - 1 = Len(t)
      BY <1>2, <3>2
    <3> QED BY <1>2, <3>2, <3>3
  <2> QED BY <1>1, <2>1, <2>2
<1>4. \A k \in 1 .. Len(tokens) : Shape(tokens[k])
  <2>1. \A k \in 1 .. Len(tokens) : tokens[k] \in Pieces \cup Torn
    BY <1>3
  <2> QED BY <2>1, GlobAssumption, ElementShape
<1>5. \A k \in 1 .. Len(tokens) - 1 : tokens[k].kind \notin {"slash", "open"}
  BY <1>3, GlobAssumption, ElementShape
<1>6. string \in Seq(Byte)
  <2>1. string \in BoundedSeq(Alphabet, MaxLength)
    BY DEF GlobInit
  <2>2. string \in Seq(Alphabet)
    BY <2>1, GlobAssumption, BoundedSequence
  <2> QED BY <2>2, GlobAssumption
<1>7. Written \in Seq(Seq(Byte))
  <2>1. Len(tokens) \in Nat /\ DOMAIN tokens = 1 .. Len(tokens)
    BY <1>3
  <2>2. \A k \in 1 .. Len(tokens) : BytesOf(tokens[k]) \in Seq(Byte)
    BY <1>4, ElementBytes
  <2>3. Written \in [1 .. Len(tokens) -> Seq(Byte)]
    BY <2>1, <2>2 DEF Written
  <2> QED BY <2>1, <2>3, FunctionIsSequence
<1>8. pattern = FlattenSeq(Written)
  BY DEF GlobInit, Written
<1>9. pattern \in Seq(Byte) /\ \E o : Starts(o, Written, pattern)
  BY <1>7, <1>8, FlattenFacts
<1> QED BY <1>3, <1>4, <1>5, <1>6, <1>9 DEF InputOK

\* Token k and its bytes.
LEMMA TokenBytes ==
    ASSUME NEW o, InputOK(o)
    PROVE  /\ Len(tokens) \in Nat /\ Len(string) \in Nat /\ Len(pattern) \in Nat
           /\ o[1] = 0 /\ o[Len(tokens) + 1] = Len(pattern)
           /\ \A k \in 1 .. Len(tokens) + 1 : o[k] \in Nat /\ o[k] <= Len(pattern)
           /\ \A k \in 1 .. Len(tokens) :
                 /\ o[k + 1] = o[k] + Len(BytesOf(tokens[k]))
                 /\ Len(BytesOf(tokens[k])) \in Nat \ {0}
                 /\ At(o[k] + 1) = Star <=> tokens[k].kind = "star"
                 /\ \A j \in 1 .. Len(BytesOf(tokens[k])) : At(o[k] + j) = BytesOf(tokens[k])[j]
<1> DEFINE m == Len(tokens)
<1>1. /\ m \in Nat /\ Len(string) \in Nat /\ Len(pattern) \in Nat /\ DOMAIN tokens = 1 .. m
      /\ pattern \in Seq(Byte) /\ Starts(o, Written, pattern)
  BY DEF InputOK
<1>2. \A k \in 1 .. m : BytesOf(tokens[k]) \in Seq(Byte)
  BY ElementBytes DEF InputOK
<1>3. \A k \in 1 .. m : Written[k] = BytesOf(tokens[k])
  BY <1>1 DEF Written
<1>4. Written \in Seq(Seq(Byte)) /\ Len(Written) = m
  <2>1. Written \in [1 .. m -> Seq(Byte)]
    BY <1>1, <1>2 DEF Written
  <2> QED BY <1>1, <2>1, FunctionIsSequence
<1> HIDE DEF m
<1>5. o[1] = 0 /\ o[m + 1] = Len(pattern)
  BY <1>1, <1>4, Zenon DEF Starts
<1>6. \A k \in 1 .. m + 1 : o[k] \in Nat /\ o[k] <= Len(pattern)
  <2>1. \A k \in 1 .. Len(Written) : Len(Written[k]) \in Nat
    BY <1>4
  <2>2. Len(Written) \in Nat
    BY <1>1, <1>4
  <2> QED BY <1>1, <1>4, <2>1, <2>2, StartsRise
<1>7. Lies(Written, o, pattern, 1)
  <2>1. \A j \in 1 .. Len(pattern) : (1 - 1) + j = j
    BY <1>1
  <2>2. 1 + Len(pattern) <= Len(pattern) + 1
    BY <1>1
  <2> QED BY <1>1, <2>1, <2>2 DEF Lies
<1>8. ASSUME NEW k \in 1 .. m
      PROVE  /\ o[k + 1] = o[k] + Len(BytesOf(tokens[k]))
             /\ Len(BytesOf(tokens[k])) \in Nat \ {0}
             /\ At(o[k] + 1) = Star <=> tokens[k].kind = "star"
             /\ \A j \in 1 .. Len(BytesOf(tokens[k])) : At(o[k] + j) = BytesOf(tokens[k])[j]
  <2> DEFINE w == BytesOf(tokens[k])
  <2>1. /\ w \in Seq(Byte) /\ Len(w) \in Nat \ {0}
        /\ w[1] = Star <=> tokens[k].kind = "star"
    BY ElementBytes DEF InputOK, m
  <2>2. w = Written[k] /\ o[k] \in Nat
    BY <1>1, <1>3, <1>6
  <2> HIDE DEF w
  <2>3. /\ o[k + 1] = o[k] + Len(w)
        /\ \A j \in 1 .. Len(w) : At((1 + o[k]) + (j - 1)) = w[j]
    <3>1. k \in 1 .. Len(Written)
      BY <1>4
    <3>2. /\ o[k] \in Nat /\ o[k + 1] = o[k] + Len(Written[k]) /\ o[k + 1] <= Len(pattern)
          /\ Len(Written[k]) \in Nat
          /\ \A j \in 1 .. Len(Written[k]) : At((1 + o[k]) + (j - 1)) = Written[k][j]
      BY <1>1, <1>4, <1>7, <3>1, LiesBytes
    <3> QED BY <2>2, <3>2, Zenon
  <2>4. \A j \in 1 .. Len(w) : At(o[k] + j) = w[j]
    <3>1. \A j \in 1 .. Len(w) : (1 + o[k]) + (j - 1) = o[k] + j
      BY <2>2
    <3> QED BY <2>3, <3>1
  <2>5. At(o[k] + 1) = w[1]
    <3>1. 1 \in 1 .. Len(w)
      BY <2>1
    <3> QED BY <2>4, <3>1
  <2> QED BY <2>1, <2>3, <2>4, <2>5 DEF w
<1> QED BY <1>1, <1>5, <1>6, <1>8 DEF m

\* The matcher reads a class as it is meant.
LEMMA ClassRead ==
    ASSUME NEW o, InputOK(o), NEW k \in 1 .. Len(tokens), tokens[k].kind = "class", NEW c
    PROVE  /\ Class(o[k] + 1, c).matches <=> Takes(tokens[k], c)
           /\ Class(o[k] + 1, c).next = o[k + 1] + 1
<1> DEFINE x == tokens[k]
           mark == x.mark
           items == x.items
           flat == FlattenSeq(items)
           b == BytesOf(x)
           p == o[k]
           a == Len(mark)
           h == Len(flat)
           l == Len(pattern)
           n == Len(b)
           f == (p + 2) + a
<1>1. /\ items \in Seq(Seq(Byte)) /\ ReadAsItems(mark, items)
      /\ b = <<Open>> \o mark \o flat \o <<Close>>
  <2>1. Shape(x) /\ x.kind = "class"
    BY DEF InputOK
  <2> QED BY <2>1 DEF Shape
<1>2. flat \in Seq(Byte) /\ \E q : Starts(q, items, flat)
  BY <1>1, FlattenFacts
<1>3. mark \in {<<>>, <<Caret>>, <<Bang>>}
  BY <1>1 DEF ReadAsItems
<1>4. /\ pattern \in Seq(Byte) /\ Len(pattern) \in Nat
      /\ p \in Nat /\ o[k + 1] = p + Len(b) /\ o[k + 1] <= Len(pattern) /\ Len(b) \in Nat
      /\ \A j \in 1 .. Len(b) : At(p + j) = b[j]
  <2>1. Len(tokens) \in Nat
    BY TokenBytes
  <2>2. k \in 1 .. Len(tokens) + 1 /\ k + 1 \in 1 .. Len(tokens) + 1
    BY <2>1
  <2>3. pattern \in Seq(Byte)
    BY DEF InputOK
  <2> HIDE DEF b
  <2> QED BY <2>2, <2>3, TokenBytes DEF b
<1> HIDE DEF flat, b, mark, items
<1>5. PICK q : Starts(q, items, flat)
  BY <1>2
<1>6. /\ Len(mark) \in {0, 1} /\ Len(flat) \in Nat /\ (Len(mark) = 0 <=> mark = <<>>)
      /\ Len(b) = (2 + Len(mark)) + Len(flat)
      /\ mark # <<>> => b[2] \in {Caret, Bang}
      /\ \A j \in 1 .. Len(flat) : b[(1 + Len(mark)) + j] = flat[j]
      /\ b[(2 + Len(mark)) + Len(flat)] = Close
  BY <1>1, <1>2, <1>3, ClassBytes
<1>7. /\ a \in {0, 1} /\ h \in Nat /\ l \in Nat /\ p \in Nat
      /\ n = (2 + a) + h /\ o[k + 1] = p + n /\ p + n <= l
  BY <1>4, <1>6
<1> HIDE DEF a, h, l, p, x, n
<1>8. /\ f + h = p + ((2 + a) + h) /\ f + h <= l /\ f \in Nat \ {0} /\ f + h \in 1 .. l
      /\ (2 + a) + h \in 1 .. n /\ o[k + 1] = f + h /\ f + h <= l + 1
  BY ONLY <1>7
<1>9. At(f + h) = Close
  <2>1. At(p + ((2 + a) + h)) = Close
    BY <1>4, <1>6, <1>8 DEF a, h, p, n
  <2> HIDE DEF f
  <2> QED BY <1>8, <2>1
<1>10. \A j \in 1 .. h : pattern[(f - 1) + j] = flat[j]
  <2> TAKE j \in 1 .. h
  <2>1. /\ (f - 1) + j = p + ((1 + a) + j) /\ (1 + a) + j \in 1 .. n
        /\ (f - 1) + j \in 1 .. l
    BY ONLY <1>7, j \in 1 .. h
  <2>2. At((f - 1) + j) = flat[j]
    <3>1. At(p + ((1 + a) + j)) = flat[j]
      BY <1>4, <1>6, <2>1 DEF a, h, p, n
    <3> HIDE DEF f
    <3> QED BY <2>1, <3>1
  <2> QED BY <1>4, <2>1, <2>2, AtFacts DEF l
<1>11. Lies(items, q, flat, f)
  BY <1>5, <1>8, <1>10 DEF Lies, h, l
<1>12. f + Len(flat) <= Len(pattern) /\ pattern[f + Len(flat)] = Close
  BY <1>4, <1>8, <1>9, AtFacts DEF h, l
<1>13. /\ Scan(c)[f].found <=> \E i \in DOMAIN items : Covers(items[i], c)
       /\ Scan(c)[f].found \in BOOLEAN
       /\ Scan(c)[f].end = f + Len(flat)
  <2> HIDE DEF f
  <2>1. ClassAt(mark, items, q, flat, f)
    BY <1>1, <1>2, <1>11, <1>12 DEF ClassAt
  <2>2. ScanFinds(c, f, items, f + Len(flat))
    BY <1>4, <2>1, ClassScan
  <2> QED BY <2>2 DEF ScanFinds
<1>14. At((p + 1) + 1) \in {Caret, Bang} <=> mark # <<>>
  <2>1. 2 \in 1 .. n /\ p + 2 = (p + 1) + 1
    BY ONLY <1>7
  <2>2. At((p + 1) + 1) = b[2]
    <3>1. At(p + 2) = b[2]
      BY <1>4, <2>1 DEF n, p
    <3> QED BY <2>1, <3>1, Zenon
  <2>3. CASE mark # <<>>
    BY <1>6, <2>2, <2>3
  <2>4. CASE mark = <<>> /\ h = 0
    <3>1. b[2] = Close
      BY <1>6, <2>4 DEF h
    <3> QED BY <2>2, <2>4, <3>1 DEF Close, Caret, Bang
  <2>5. CASE mark = <<>> /\ h # 0
    <3>1. 1 \in 1 .. h /\ (1 + a) + 1 = 2
      BY <1>6, <1>7, <2>5 DEF a
    <3>2. b[2] = flat[1]
      BY <1>6, <3>1 DEF a, h
    <3>3. Len(items) \in Nat /\ q[1] = 0 /\ q[Len(items) + 1] = h
      BY <1>1, <1>5 DEF Starts, h
    <3>4. Len(items) # 0
      BY <2>5, <3>3
    <3>5. 1 \in 1 .. Len(items) /\ items # <<>>
      BY <3>3, <3>4
    <3>6. items[1] \in Seq(Byte) /\ IsItem(items[1])
      BY <1>1, <3>5 DEF ReadAsItems
    <3>7. 1 \in 1 .. Len(items[1])
      <4> DEFINE m == Len(items[1])
      <4>1. m = 1 \/ m = 3
        BY <3>6 DEF IsItem
      <4> HIDE DEF m
      <4>2. 1 \in 1 .. m
        BY ONLY <4>1
      <4> QED BY <4>2 DEF m
    <3>8. flat[q[1] + 1] = items[1][1]
      BY <1>5, <3>5, <3>7 DEF Starts
    <3>9. items[1][1] \notin {Caret, Bang}
      BY <1>1, <2>5, <3>5 DEF ReadAsItems
    <3> QED BY <2>2, <2>5, <3>2, <3>3, <3>8, <3>9
  <2> QED BY <2>3, <2>4, <2>5
<1>15. f = IF At((p + 1) + 1) \in {Caret, Bang} THEN (p + 1) + 2 ELSE (p + 1) + 1
  <2>1. a = IF mark = <<>> THEN 0 ELSE 1
    BY <1>6 DEF a
  <2>2. /\ (p + 2) + 0 = (p + 1) + 1 /\ (p + 2) + 1 = (p + 1) + 2
    BY ONLY <1>7
  <2> QED BY <1>14, <2>1, <2>2, Zenon
<1> DEFINE class == Class(p + 1, c)
<1> DEFINE negated == At((p + 1) + 1) \in {Caret, Bang}
           found == Scan(c)[f].found
           end == Scan(c)[f].end
           any == \E i \in DOMAIN items : Covers(items[i], c)
<1>16. class.matches = (At(end) = Close /\ (found # negated)) /\ class.next = end + 1
  <2>1. f = IF negated THEN (p + 1) + 2 ELSE (p + 1) + 1
    BY <1>15
  <2> HIDE DEF f
  <2> QED BY <2>1 DEF Class
<1>17. class.matches <=> (any # (mark # <<>>))
  <2>1. At(end) = Close /\ (found <=> any) /\ found \in BOOLEAN
    <3> HIDE DEF f
    <3> QED BY <1>9, <1>13 DEF h
  <2>2. negated <=> mark # <<>>
    BY <1>14
  <2>3. any \in BOOLEAN /\ negated \in BOOLEAN
    OBVIOUS
  <2> HIDE DEF any, negated, found, end, class
  <2> QED BY <1>16, <2>1, <2>2, <2>3
<1>18. class.next = o[k + 1] + 1
  BY <1>8, <1>13, <1>16 DEF h
<1>19. Takes(x, c) <=> ((\E i \in DOMAIN items : Covers(items[i], c)) # (mark # <<>>))
  BY DEF Takes, mark, items, x
<1> QED BY <1>17, <1>18, <1>19 DEF p, x

\* A class that is not closed takes nothing.
LEMMA OpenRead ==
    ASSUME NEW o, InputOK(o), NEW k \in 1 .. Len(tokens), tokens[k].kind = "open", NEW c
    PROVE  ~Class(o[k] + 1, c).matches
<1> DEFINE x == tokens[k]
           b == BytesOf(x)
           p == o[k]
           m == Len(tokens)
           l == Len(pattern)
           h == Len(b)
           negated == At((p + 1) + 1) \in {Caret, Bang}
           f == IF negated THEN (p + 1) + 2 ELSE (p + 1) + 1
<1>1. b = <<Open>> \o x.body /\ x.body \in Seq(Byte \ {Close})
  <2>1. Shape(x) /\ x.kind = "open"
    BY DEF InputOK
  <2> QED BY <2>1 DEF Shape
<1>2. m \in Nat /\ k \in 1 .. m /\ k = m
  <2>1. m \in Nat
    BY TokenBytes
  <2>2. k \in 1 .. m - 1 => x.kind \notin {"slash", "open"}
    BY DEF InputOK
  <2> QED BY <2>1, <2>2
<1>3. /\ pattern \in Seq(Byte) /\ l \in Nat /\ p \in Nat /\ l = p + h /\ h \in Nat \ {0}
      /\ \A j \in 1 .. h : At(p + j) = b[j]
  <2>1. pattern \in Seq(Byte) /\ k \in 1 .. Len(tokens) + 1
    BY <1>2 DEF InputOK
  <2> HIDE DEF b
  <2> QED BY <1>2, <2>1, TokenBytes DEF b
<1>4. \A j \in 2 .. h : b[j] # Close
  <2> DEFINE a == <<Open>>
             d == x.body
  <2>1. a \in Seq(Byte) /\ Len(a) = 1
    BY DEF Byte, Open
  <2>2. d \in Seq(Byte) /\ \A j \in 1 .. Len(d) : d[j] # Close
    BY <1>1
  <2>3. b = a \o d
    BY <1>1
  <2> HIDE DEF a, b, d
  <2>4. Appended(Byte, a, d)
    BY <2>1, <2>2, Concatenated
  <2>5. h = 1 + Len(d) /\ Len(d) \in Nat /\ \A j \in 1 .. Len(d) : b[1 + j] = d[j]
    BY <2>1, <2>3, <2>4 DEF Appended
  <2> TAKE j \in 2 .. h
  <2>6. j - 1 \in 1 .. Len(d) /\ 1 + (j - 1) = j
    BY <2>5
  <2> QED BY <2>2, <2>5, <2>6
<1> HIDE DEF b, p, l, h
<1>5. f \in {p + 2, p + 3} /\ (f = p + 3 => p + 2 <= l)
  <2>1. (p + 1) + 1 = p + 2 /\ (p + 1) + 2 = p + 3 /\ p + 2 # p + 3
    BY <1>3
  <2>2. CASE negated
    <3>1. ~(p + 2 > l)
      <4>1. p + 2 > l => At(p + 2) = -1
        BY <1>3, AtFacts DEF l
      <4>2. -1 \notin {Caret, Bang}
        BY DEF Caret, Bang
      <4> QED BY <2>1, <2>2, <4>1, <4>2
    <3> QED BY <1>3, <2>1, <2>2, <3>1
  <2>3. CASE ~negated
    BY <2>1, <2>3
  <2> QED BY <2>2, <2>3
<1> HIDE DEF f
<1>6. f \in 1 .. l + 3 /\ p + 2 <= f
  BY <1>3, <1>5
<1>7. \A j \in f .. l : At(j) # Close
  <2> TAKE j \in f .. l
  <2>1. j - p \in 2 .. h /\ j - p \in 1 .. h /\ p + (j - p) = j
    BY <1>3, <1>6
  <2> QED BY <1>3, <1>4, <2>1
<1>8. Scan(c)[f].end \in Nat /\ Scan(c)[f].end > l
  BY <1>3, <1>6, <1>7, OpenScan DEF l
<1>9. At(Scan(c)[f].end) # Close
  <2>1. At(Scan(c)[f].end) = -1
    BY <1>3, <1>8, AtFacts DEF l
  <2> QED BY <2>1 DEF Close
<1>10. ~Class(p + 1, c).matches
  <2>1. Class(p + 1, c).matches = (At(Scan(c)[f].end) = Close /\ (Scan(c)[f].found # negated))
    BY DEF Class, f
  <2> QED BY <1>9, <2>1
<1> QED BY <1>10 DEF p

\* The matcher reads an element as it is meant: the byte after it if it takes the
\* byte of the string, and none past the end of the pattern.
LEMMA ElementTaken ==
    ASSUME NEW o, InputOK(o), si \in 1 .. Len(string)
    PROVE  /\ \A k \in 1 .. Len(tokens) :
                 pi = o[k] + 1 /\ tokens[k].kind # "star" =>
                    Taken = IF Takes(tokens[k], string[si]) THEN o[k + 1] + 1 ELSE 0
           /\ pi = Len(pattern) + 1 => Taken = 0
<1> DEFINE c == string[si]
<1>1. c \in Byte /\ Len(pattern) \in Nat /\ pattern \in Seq(Byte) /\ c # -1
  <2>1. c \in Byte /\ pattern \in Seq(Byte) /\ Len(pattern) \in Nat
    BY DEF InputOK
  <2>2. \A d \in Byte : d # -1
    BY DEF Byte
  <2> QED BY <2>1, <2>2
<1>2. ASSUME pi = Len(pattern) + 1 PROVE Taken = 0
  <2>1. At(pi) = -1
    BY <1>1, <1>2, AtFacts
  <2> QED BY <1>1, <2>1 DEF Taken, Slash, Mark, Open
<1>3. ASSUME NEW k \in 1 .. Len(tokens), pi = o[k] + 1, tokens[k].kind # "star"
      PROVE  Taken = IF Takes(tokens[k], c) THEN o[k + 1] + 1 ELSE 0
  <2> DEFINE x == tokens[k]
             b == BytesOf(x)
             p == o[k]
  <2>1. Shape(x)
    BY DEF InputOK
  <2>2. /\ p \in Nat /\ o[k + 1] = p + Len(b) /\ Len(b) \in Nat \ {0}
        /\ \A j \in 1 .. Len(b) : At(p + j) = b[j]
    <3>1. k \in 1 .. Len(tokens) + 1
      BY TokenBytes
    <3> HIDE DEF b
    <3> QED BY <3>1, TokenBytes DEF b
  <2>3. At(pi) = b[1] /\ pi + 1 = p + 2 /\ pi \in Nat
    <3>1. 1 \in 1 .. Len(b)
      BY <2>2
    <3> QED BY <1>3, <2>2, <3>1
  <2>4. Slash # Mark /\ Slash # Open /\ Mark # Open
    BY DEF Slash, Mark, Open
  <2> HIDE DEF b, c, p
  <2>5. CASE x.kind = "any"
    <3>1. b = <<Mark>>
      BY <2>1, <2>5 DEF Shape, b
    <3>2. At(pi) = Mark /\ o[k + 1] = p + 1
      BY <2>2, <2>3, <3>1
    <3>3. Takes(x, c)
      BY <2>5 DEF Takes
    <3> QED BY <1>3, <2>4, <3>2, <3>3 DEF Taken, p
  <2>6. CASE x.kind = "byte"
    <3>1. b = <<x.byte>> /\ x.byte \notin {Mark, Open, Slash}
      BY <2>1, <2>6 DEF Shape, b
    <3>2. At(pi) = x.byte /\ o[k + 1] = p + 1
      BY <2>2, <2>3, <3>1
    <3>3. Takes(x, c) <=> x.byte = c
      BY <2>6 DEF Takes
    <3> QED BY <1>3, <3>1, <3>2, <3>3 DEF Taken, p, c
  <2>7. CASE x.kind = "escape"
    <3>1. b = <<Slash, x.byte>>
      BY <2>1, <2>7 DEF Shape, b
    <3>2. At(pi) = Slash /\ o[k + 1] = p + 2 /\ At(p + 2) = x.byte
      <4>1. 2 \in 1 .. Len(b) /\ Len(b) = 2 /\ b[1] = Slash /\ b[2] = x.byte
        BY <3>1
      <4> QED BY <2>2, <2>3, <4>1
    <3>3. Takes(x, c) <=> x.byte = c
      BY <2>7 DEF Takes
    <3>4. pi + 2 = o[k + 1] + 1
      BY <1>3, <2>2, <3>2 DEF p
    <3> QED BY <2>3, <2>4, <3>2, <3>3, <3>4 DEF Taken, c
  <2>8. CASE x.kind = "class"
    <3>1. b[1] = Open
      <4> DEFINE flat == FlattenSeq(x.items)
      <4>1. /\ x.items \in Seq(Seq(Byte)) /\ x.mark \in {<<>>, <<Caret>>, <<Bang>>}
            /\ b = <<Open>> \o x.mark \o flat \o <<Close>>
        BY <2>1, <2>8 DEF Shape, b, ReadAsItems
      <4>2. flat \in Seq(Byte)
        BY <4>1, FlattenFacts
      <4> HIDE DEF flat
      <4> QED BY <4>1, <4>2, ClassBytes
    <3>2. /\ Class(pi, c).matches <=> Takes(x, c)
          /\ Class(pi, c).next = o[k + 1] + 1
      BY <1>3, <2>8, ClassRead
    <3>3. At(pi) = Open
      BY <2>3, <3>1
    <3> QED BY <2>4, <3>2, <3>3 DEF Taken, c
  <2>9. CASE x.kind = "slash"
    <3>1. b = <<Slash>>
      BY <2>1, <2>9 DEF Shape, b
    <3>2. ~Takes(x, c)
      BY <2>9 DEF Takes
    <3>3. Len(tokens) \in Nat /\ k = Len(tokens)
      <4>1. Len(tokens) \in Nat
        BY TokenBytes
      <4>2. k \in 1 .. Len(tokens) - 1 => x.kind \notin {"slash", "open"}
        BY DEF InputOK
      <4> QED BY <2>9, <4>1, <4>2
    <3>4. Len(pattern) = p + 1
      <4>1. o[Len(tokens) + 1] = Len(pattern)
        BY TokenBytes
      <4> QED BY <2>2, <3>1, <3>3, <4>1
    <3>5. At(pi + 1) = -1 /\ At(pi) = Slash
      BY <1>1, <2>2, <2>3, <3>1, <3>4, AtFacts
    <3> QED BY <1>1, <2>4, <3>2, <3>5 DEF Taken, c
  <2>10. CASE x.kind = "open"
    <3>1. b[1] = Open
      <4> DEFINE a == <<Open>>
                 d == x.body
      <4>1. a \in Seq(Byte) /\ Len(a) = 1 /\ a[1] = Open
        BY DEF Byte, Open
      <4>2. b = a \o d /\ d \in Seq(Byte)
        BY <2>1, <2>10 DEF Shape, b
      <4> HIDE DEF a, d
      <4>3. Appended(Byte, a, d)
        BY <4>1, <4>2, Concatenated
      <4>4. 1 \in 1 .. Len(a)
        BY <4>1
      <4> QED BY <4>1, <4>2, <4>3, <4>4 DEF Appended
    <3>2. ~Takes(x, c)
      BY <2>10 DEF Takes
    <3>3. ~Class(pi, c).matches
      BY <1>3, <2>10, OpenRead
    <3>4. At(pi) = Open
      BY <2>3, <3>1
    <3> QED BY <2>4, <3>2, <3>3, <3>4 DEF Taken, c
  <2> QED BY <1>3, <2>1, <2>5, <2>6, <2>7, <2>8, <2>9, <2>10 DEF Shape
<1> QED BY <1>2, <1>3

IsStar(k) == tokens[k].kind = "star"

\* After a run of stars comes the first element that is none, or the end.
LEMMA SkipStars ==
    ASSUME NEW o, InputOK(o), NEW p \in 1 .. Len(tokens) + 1
    PROVE  \E r \in p .. Len(tokens) + 1 :
              /\ \A k \in p .. r - 1 : IsStar(k)
              /\ r = Len(tokens) + 1 \/ ~IsStar(r)
              /\ AfterStars(o[p] + 1) = o[r] + 1
<1> DEFINE m == Len(tokens)
           l == Len(pattern)
<1>1. /\ m \in Nat /\ l \in Nat /\ o[m + 1] = l /\ pattern \in Seq(Byte)
      /\ \A k \in 1 .. m + 1 : o[k] \in Nat /\ o[k] <= l
      /\ \A k \in 1 .. m : At(o[k] + 1) = Star <=> IsStar(k)
  <2>1. pattern \in Seq(Byte)
    BY DEF InputOK
  <2> QED BY <2>1, TokenBytes DEF IsStar
<1>2. \A k \in 1 .. m : IsStar(k) => o[k + 1] = o[k] + 1
  <2> TAKE k \in 1 .. m
  <2>1. IsStar(k) => Len(BytesOf(tokens[k])) = 1
    BY ElementBytes DEF InputOK, IsStar
  <2>2. o[k + 1] = o[k] + Len(BytesOf(tokens[k]))
    BY TokenBytes
  <2> QED BY <2>1, <2>2
<1> DEFINE T == {r \in p .. m + 1 : r = m + 1 \/ ~IsStar(r)}
<1>3. PICK r \in T : \A n \in T : r <= n
  <2>1. m + 1 \in T /\ T \in SUBSET Nat
    BY <1>1
  <2> HIDE DEF T
  <2> QED BY <2>1, LeastNat
<1>4. r \in p .. m + 1 /\ (r = m + 1 \/ ~IsStar(r)) /\ p \in Nat /\ 1 <= p /\ r \in Nat
  BY <1>1, <1>3
<1>5. \A k \in p .. r - 1 : IsStar(k)
  <2> TAKE k \in p .. r - 1
  <2>1. k \in p .. m + 1 /\ ~(r <= k)
    BY <1>1, <1>4
  <2> QED BY <1>3, <2>1
<1>6. \A k \in p .. r : o[k] = o[p] + (k - p)
  <2> DEFINE U == {k \in p .. r : o[k] = o[p] + (k - p)}
  <2>1. p \in U
    <3>1. p \in p .. r /\ o[p] \in Nat /\ p - p = 0
      BY <1>1, <1>4
    <3> QED BY <3>1
  <2>2. ASSUME NEW k \in p .. r - 1, k \in U PROVE k + 1 \in U
    <3>1. k \in 1 .. m /\ k + 1 \in p .. r /\ o[p] \in Nat /\ k \in Nat
      BY <1>1, <1>4
    <3>2. o[k + 1] = o[k] + 1
      BY <1>2, <1>5, <3>1
    <3>3. o[k] = o[p] + (k - p)
      BY <2>2
    <3>4. o[k + 1] = o[p] + ((k + 1) - p)
      BY <1>4, <3>1, <3>2, <3>3
    <3> QED BY <3>1, <3>4
  <2>3. \A k \in p .. r - 1 : k \in U => k + 1 \in U
    BY <2>2
  <2>4. p \in Int /\ r \in Int
    BY <1>4
  <2>5. \A k \in p .. r : k \in U
    <3> HIDE DEF U
    <3> QED BY <2>1, <2>3, <2>4, IntervalInduction
  <2> QED BY <2>5
<1> DEFINE i == o[p] + 1
           j == o[r] + 1
           IsEnd(e) == At(e) # Star /\ \A k \in i .. e - 1 : At(k) = Star
<1>7. i \in Nat /\ j \in i .. l + 1 /\ o[p] \in Nat /\ o[r] \in Nat /\ o[r] = o[p] + (r - p)
  <2>1. o[p] \in Nat /\ o[r] \in Nat /\ o[r] <= l
    BY <1>1, <1>4
  <2>2. o[r] = o[p] + (r - p) /\ r - p \in Nat
    <3>1. r \in p .. r /\ r - p \in Nat
      BY <1>4
    <3> QED BY <1>6, <3>1
  <2> DEFINE u == o[p]
             w == o[r]
  <2>3. u \in Nat /\ w \in Nat /\ l \in Nat /\ w <= l /\ r - p \in Nat /\ w = u + (r - p)
    BY <1>1, <2>1, <2>2
  <2> HIDE DEF u, w, l
  <2>4. u + 1 \in Nat /\ w + 1 \in u + 1 .. l + 1
    BY ONLY <2>3
  <2> QED BY <2>1, <2>2, <2>4 DEF u, w
<1>8. At(j) # Star
  <2>1. CASE r = m + 1
    <3>1. j = l + 1 /\ l + 1 > l /\ l + 1 \in Nat
      BY <1>1, <2>1
    <3>2. At(j) = -1
      BY <1>1, <3>1, AtFacts
    <3> QED BY <3>2 DEF Star
  <2>2. CASE r # m + 1
    <3>1. r \in 1 .. m
      BY <1>1, <1>4, <2>2
    <3> QED BY <1>1, <1>4, <2>2, <3>1
  <2> QED BY <2>1, <2>2
<1>9. \A k \in i .. j - 1 : At(k) = Star
  <2> TAKE k \in i .. j - 1
  <2> DEFINE t == p + (k - i)
  <2>1. t \in p .. r - 1 /\ t \in p .. r /\ t \in 1 .. m /\ t - p = k - i /\ (o[p] + (k - i)) + 1 = k
    <3> DEFINE a == o[p]
               d == o[r]
    <3>1. /\ a \in Nat /\ d \in Nat /\ d = a + (r - p) /\ p \in Nat /\ r \in Nat /\ 1 <= p /\ p <= r
          /\ m \in Nat /\ r <= m + 1 /\ k \in Int /\ a + 1 <= k /\ k <= d
      BY <1>1, <1>4, <1>7
    <3> HIDE DEF a, d, m
    <3>2. LET u == p + (k - (a + 1))
          IN  /\ u \in p .. r - 1 /\ u \in p .. r /\ u \in 1 .. m /\ u - p = k - (a + 1)
              /\ (a + (k - (a + 1))) + 1 = k
      BY ONLY <3>1
    <3> QED BY <3>2 DEF a
  <2> HIDE DEF t
  <2>2. o[t] + 1 = k
    BY <1>6, <2>1
  <2> QED BY <1>1, <1>5, <2>1, <2>2
<1> HIDE DEF i, j
<1>10. IsEnd(j)
  BY <1>8, <1>9
<1>11. ASSUME NEW e \in i .. l + 1, IsEnd(e) PROVE e = j
  <2>1. ~(e < j) /\ ~(j < e)
    <3>1. e < j => e \in i .. j - 1
      BY <1>7
    <3>2. j < e => j \in i .. e - 1
      BY <1>7
    <3> QED BY <1>8, <1>9, <1>11, <3>1, <3>2
  <2> QED BY <1>7, <2>1
<1>12. AfterStars(i) = CHOOSE e \in i .. l + 1 : IsEnd(e)
  BY DEF AfterStars
<1>13. AfterStars(i) = j
  <2> HIDE DEF IsEnd, l
  <2> QED BY <1>7, <1>10, <1>11, <1>12
<1> QED BY <1>4, <1>5, <1>13 DEF i, j

-----------------------------------------------------------------------------
(* The meaning of a pattern *)

Ends == EndsOf(tokens, string)

\* Where the elements end in a string they match: x[k] is where the first k do.
Path(x, k, j) ==
    /\ x \in [0 .. k -> 0 .. Len(string)]
    /\ x[0] = 0 /\ x[k] = j
    /\ \A i \in 1 .. k :
          IF IsStar(i) THEN x[i - 1] <= x[i]
          ELSE x[i] = x[i - 1] + 1 /\ Takes(tokens[i], string[x[i]])

\* One more element, or a star, and where the elements up to it can end.
LEMMA EndsStep ==
    ASSUME NEW o, InputOK(o)
    PROVE  /\ Ends[0] = {0}
           /\ \A k \in 1 .. Len(tokens) :
                 Ends[k] = IF IsStar(k)
                           THEN {j \in 0 .. Len(string) : \E i \in Ends[k - 1] : i <= j}
                           ELSE {j \in 1 .. Len(string) : /\ j - 1 \in Ends[k - 1]
                                                          /\ Takes(tokens[k], string[j])}
<1> DEFINE Body(k) ==
             IF k = 0 THEN {0}
             ELSE IF tokens[k].kind = "star"
             THEN {j \in 0 .. Len(string) : \E i \in Ends[k - 1] : i <= j}
             ELSE {j \in 1 .. Len(string) : j - 1 \in Ends[k - 1] /\ Takes(tokens[k], string[j])}
           m == Len(tokens)
<1>1. tokens \in Seq(Pieces \cup Torn) /\ string \in Seq(Byte) /\ m \in Nat
  BY DEF InputOK
<1>2. Ends = [k \in 0 .. m |-> Body(k)]
  BY <1>1, EndsDef DEF Ends
<1>3. \A k \in 0 .. m : Ends[k] = Body(k)
  <2> HIDE DEF Body, m
  <2> QED BY <1>2, Zenon
<1>4. 0 \in 0 .. m /\ \A k \in 1 .. m : k \in 0 .. m /\ k # 0
  BY <1>1
<1>5. Ends[0] = Body(0) /\ Body(0) = {0}
  <2>1. Body(0) = {0}
    OBVIOUS
  <2> HIDE DEF Body, m
  <2> QED BY <1>3, <1>4, <2>1
<1>6. ASSUME NEW k \in 1 .. m
      PROVE  Ends[k] = IF IsStar(k)
                       THEN {j \in 0 .. Len(string) : \E i \in Ends[k - 1] : i <= j}
                       ELSE {j \in 1 .. Len(string) : /\ j - 1 \in Ends[k - 1]
                                                      /\ Takes(tokens[k], string[j])}
  <2>1. Ends[k] = Body(k) /\ k # 0
    <3> HIDE DEF Body, m
    <3> QED BY <1>3, <1>4
  <2> QED BY <2>1, Zenon DEF IsStar
<1> QED BY <1>5, <1>6

\* A pattern that fits has a path.
LEMMA FitHasPath ==
    ASSUME NEW o, InputOK(o)
    PROVE  /\ Fits(tokens, string) <=> Len(string) \in Ends[Len(tokens)]
           /\ Fits(tokens, string) => \E x : Path(x, Len(tokens), Len(string))
<1> DEFINE m == Len(tokens)
           n == Len(string)
           T == {k \in 0 .. m : \A j \in Ends[k] : \E x : Path(x, k, j)}
<1>1. m \in Nat /\ n \in Nat
  BY TokenBytes
<1>2. 0 \in T
  <2> DEFINE x == [k \in 0 .. 0 |-> 0]
  <2>1. x \in [0 .. 0 -> 0 .. n] /\ x[0] = 0 /\ \A i \in 1 .. 0 : FALSE
    BY <1>1
  <2> HIDE DEF x
  <2>2. Path(x, 0, 0)
    BY <2>1 DEF Path
  <2>3. \A j \in Ends[0] : j = 0
    BY EndsStep
  <2>4. 0 \in 0 .. m
    BY <1>1
  <2> QED BY <2>2, <2>3, <2>4
<1>3. ASSUME NEW k \in 0 .. m - 1, k \in T PROVE k + 1 \in T
  <2>1. k + 1 \in 1 .. m /\ k + 1 \in 0 .. m /\ (k + 1) - 1 = k /\ k \in Nat
    BY <1>1
  <2>2. ASSUME NEW j \in Ends[k + 1] PROVE \E x : Path(x, k + 1, j)
    <3>1. Ends[k + 1] = IF IsStar(k + 1)
                        THEN {e \in 0 .. n : \E i \in Ends[k] : i <= e}
                        ELSE {e \in 1 .. n : /\ e - 1 \in Ends[k]
                                             /\ Takes(tokens[k + 1], string[e])}
      <4>1. Ends[k + 1] = IF IsStar(k + 1)
                          THEN {e \in 0 .. n : \E i \in Ends[(k + 1) - 1] : i <= e}
                          ELSE {e \in 1 .. n : /\ e - 1 \in Ends[(k + 1) - 1]
                                               /\ Takes(tokens[k + 1], string[e])}
        BY <2>1, EndsStep
      <4> QED BY <2>1, <4>1
    <3>2. PICK i \in Ends[k] :
             /\ j \in 0 .. n
             /\ IF IsStar(k + 1) THEN i <= j
                ELSE j = i + 1 /\ Takes(tokens[k + 1], string[j])
      <4>1. CASE IsStar(k + 1)
        BY <2>2, <3>1, <4>1
      <4>2. CASE ~IsStar(k + 1)
        <5>1. j \in 1 .. n /\ j - 1 \in Ends[k] /\ Takes(tokens[k + 1], string[j])
          BY <2>2, <3>1, <4>2
        <5>2. j = (j - 1) + 1 /\ j \in 0 .. n
          BY <1>1, <5>1
        <5> QED BY <4>2, <5>1, <5>2
      <4> QED BY <4>1, <4>2
    <3>3. PICK y : Path(y, k, i)
      BY <1>3, <3>2
    <3> DEFINE x == [e \in 0 .. k + 1 |-> IF e = k + 1 THEN j ELSE y[e]]
    <3>4. y \in [0 .. k -> 0 .. n] /\ y[0] = 0 /\ y[k] = i
      BY <3>3 DEF Path
    <3>5. x \in [0 .. k + 1 -> 0 .. n]
      <4>1. \A e \in 0 .. k + 1 : e # k + 1 => e \in 0 .. k
        BY <2>1
      <4> QED BY <3>2, <3>4, <4>1
    <3>6. x[k + 1] = j /\ \A e \in 0 .. k : x[e] = y[e]
      BY <2>1
    <3> HIDE DEF x
    <3>7. x[0] = 0 /\ x[k] = i
      BY <2>1, <3>4, <3>6
    <3>8. ASSUME NEW e \in 1 .. k + 1
          PROVE  IF IsStar(e) THEN x[e - 1] <= x[e]
                 ELSE x[e] = x[e - 1] + 1 /\ Takes(tokens[e], string[x[e]])
      <4>1. CASE e = k + 1
        <5>1. x[e - 1] = i /\ x[e] = j
          BY <2>1, <3>6, <3>7, <4>1
        <5> QED BY <3>2, <4>1, <5>1
      <4>2. CASE e # k + 1
        <5>1. e \in 1 .. k /\ e \in 0 .. k /\ e - 1 \in 0 .. k
          BY <2>1, <4>2
        <5>2. x[e - 1] = y[e - 1] /\ x[e] = y[e]
          BY <3>6, <5>1
        <5> QED BY <3>3, <5>1, <5>2 DEF Path
      <4> QED BY <4>1, <4>2
    <3>9. Path(x, k + 1, j)
      BY <3>5, <3>6, <3>7, <3>8 DEF Path
    <3> QED BY <3>9
  <2> QED BY <2>1, <2>2
<1>4. \A k \in 0 .. m : k \in T
  <2>1. \A k \in 0 .. m - 1 : k \in T => k + 1 \in T
    BY <1>3
  <2>2. 0 \in Int /\ m \in Int
    BY <1>1
  <2> HIDE DEF T, m
  <2> QED BY <1>2, <2>1, <2>2, IntervalInduction
<1>5. m \in 0 .. m
  BY <1>1
<1>6. Fits(tokens, string) <=> n \in Ends[m]
  BY DEF Fits, Ends
<1> QED BY <1>4, <1>5, <1>6

\* Along a path the ends do not fall, and elements that are no stars take a byte each.
LEMMA PathFacts ==
    ASSUME NEW o, InputOK(o), NEW x, Path(x, Len(tokens), Len(string)),
           NEW a \in 0 .. Len(tokens), NEW b \in a .. Len(tokens)
    PROVE  /\ x[a] \in 0 .. Len(string) /\ x[b] \in 0 .. Len(string) /\ x[a] <= x[b]
           /\ (\A k \in a + 1 .. b : ~IsStar(k)) => x[b] = x[a] + (b - a)
<1> DEFINE m == Len(tokens)
           n == Len(string)
           Rigid(c) == \A k \in a + 1 .. c : ~IsStar(k)
           T == {c \in a .. b : x[a] <= x[c] /\ (Rigid(c) => x[c] = x[a] + (c - a))}
<1>1. /\ m \in Nat /\ n \in Nat /\ a \in Nat /\ b \in Nat /\ a <= b /\ b <= m
      /\ \A k \in 0 .. m : x[k] \in 0 .. n
      /\ \A k \in 1 .. m : IF IsStar(k) THEN x[k - 1] <= x[k] ELSE x[k] = x[k - 1] + 1
  <2>1. m \in Nat /\ n \in Nat
    BY TokenBytes
  <2>2. x \in [0 .. m -> 0 .. n]
    BY DEF Path
  <2>3. \A k \in 0 .. m : x[k] \in 0 .. n
    BY <2>2
  <2>4. \A k \in 1 .. m : IF IsStar(k) THEN x[k - 1] <= x[k] ELSE x[k] = x[k - 1] + 1
    BY DEF Path
  <2> QED BY <2>1, <2>3, <2>4
<1>2. a \in T
  <2>1. a \in a .. b /\ x[a] \in Nat /\ a - a = 0
    BY <1>1
  <2> QED BY <2>1
<1>3. ASSUME NEW c \in a .. b - 1, c \in T PROVE c + 1 \in T
  <2>1. /\ c + 1 \in 1 .. m /\ c \in 0 .. m /\ c + 1 \in 0 .. m /\ a \in 0 .. m
        /\ (c + 1) - 1 = c /\ c + 1 \in a .. b /\ c \in Nat
        /\ c + 1 \in a + 1 .. c + 1 /\ \A k \in a + 1 .. c : k \in a + 1 .. c + 1
    BY <1>1
  <2>2. x[a] \in Nat /\ x[c] \in Nat /\ x[c + 1] \in Nat
    BY <1>1, <2>1
  <2>3. IF IsStar(c + 1) THEN x[c] <= x[c + 1] ELSE x[c + 1] = x[c] + 1
    BY <1>1, <2>1
  <2>4. x[a] <= x[c] /\ (Rigid(c) => x[c] = x[a] + (c - a))
    BY <1>3
  <2>5. x[a] <= x[c + 1]
    <3> DEFINE u == x[a]
               v == x[c]
               w == x[c + 1]
    <3>1. u \in Nat /\ v \in Nat /\ w \in Nat /\ u <= v /\ (v <= w \/ w = v + 1)
      BY <2>2, <2>3, <2>4
    <3> HIDE DEF u, v, w
    <3>2. u <= w
      BY ONLY <3>1
    <3> QED BY <3>2 DEF u, w
  <2>6. Rigid(c + 1) => x[c + 1] = x[a] + ((c + 1) - a)
    <3>1. Rigid(c + 1) => Rigid(c) /\ ~IsStar(c + 1)
      BY <2>1
    <3> HIDE DEF Rigid
    <3>2. Rigid(c + 1) => x[c + 1] = x[c] + 1 /\ x[c] = x[a] + (c - a)
      BY <2>3, <2>4, <3>1
    <3> QED BY <1>1, <2>1, <2>2, <3>2
  <2> QED BY <2>1, <2>5, <2>6
<1>4. \A c \in a .. b : c \in T
  <2>1. \A c \in a .. b - 1 : c \in T => c + 1 \in T
    BY <1>3
  <2>2. a \in Int /\ b \in Int
    BY <1>1
  <2> HIDE DEF T
  <2> QED BY <1>2, <2>1, <2>2, IntervalInduction
<1>5. b \in a .. b /\ a \in 0 .. m /\ b \in 0 .. m
  BY <1>1
<1> QED BY <1>1, <1>4, <1>5

\* After a star the elements can end anywhere further on, and further stars change
\* nothing.
LEMMA StarsEnd ==
    ASSUME NEW o, InputOK(o), NEW a \in 0 .. Len(tokens), NEW b \in a + 1 .. Len(tokens),
           \A k \in a + 1 .. b : IsStar(k), NEW e \in Ends[a]
    PROVE  \A j \in 0 .. Len(string) : e <= j => j \in Ends[b]
<1> DEFINE m == Len(tokens)
           n == Len(string)
           Free(c) == \A j \in 0 .. n : e <= j => j \in Ends[c]
           T == {c \in a + 1 .. b : Free(c)}
<1>1. m \in Nat /\ n \in Nat /\ a \in Nat /\ b \in Nat /\ a + 1 <= b /\ b <= m
  BY TokenBytes
<1>2. ASSUME NEW c \in a + 1 .. b
      PROVE  \A j \in 0 .. n : \A i \in Ends[c - 1] : i <= j => j \in Ends[c]
  <2>1. c \in 1 .. m /\ IsStar(c)
    BY <1>1
  <2>2. Ends[c] = {j \in 0 .. n : \E i \in Ends[c - 1] : i <= j}
    BY <2>1, EndsStep
  <2> QED BY <2>2
<1>3. a + 1 \in T
  <2>1. a + 1 \in a + 1 .. b /\ (a + 1) - 1 = a
    BY <1>1
  <2> QED BY <1>2, <2>1
<1>4. ASSUME NEW c \in a + 1 .. b - 1, c \in T PROVE c + 1 \in T
  <2>1. c + 1 \in a + 1 .. b /\ (c + 1) - 1 = c
    BY <1>1
  <2>2. \A j \in 0 .. n : j <= j
    BY <1>1
  <2> QED BY <1>2, <1>4, <2>1, <2>2
<1>5. \A c \in a + 1 .. b : c \in T
  <2>1. \A c \in a + 1 .. b - 1 : c \in T => c + 1 \in T
    BY <1>4
  <2>2. a + 1 \in Int /\ b \in Int
    BY <1>1
  <2> HIDE DEF T
  <2> QED BY <1>3, <2>1, <2>2, IntervalInduction
<1>6. b \in a + 1 .. b
  BY <1>1
<1> QED BY <1>5, <1>6

-----------------------------------------------------------------------------
(* The invariant of the matcher *)

\* Where the last star, token q, ends for now.
Base(q, j) == IF q = 0 THEN 1 ELSE j

\* The matcher stands before token p and byte j of the string, and token q is the
\* last star before it.  What is behind it fits, and no match was given up: in every
\* match the star ends where the matcher lets it end, or later.
Placed(o, p, q, i, j, starI, starJ) ==
    /\ p \in 1 .. Len(tokens) + 1 /\ i = o[p] + 1
    /\ q \in 0 .. p - 1 /\ \A k \in q + 1 .. p - 1 : ~IsStar(k)
    /\ IF q = 0 THEN starI = 0 /\ starJ = 0
       ELSE IsStar(q) /\ q < Len(tokens) /\ starI = o[q + 1] + 1 /\ starJ \in 1 .. Len(string) + 1
    /\ j = Base(q, starJ) + ((p - 1) - q) /\ j <= Len(string) + 1
    /\ Base(q, starJ) - 1 \in Ends[q] /\ j - 1 \in Ends[p - 1]
    /\ \A x : Path(x, Len(tokens), Len(string)) => Base(q, starJ) - 1 <= x[q]

\* Each end of the last star costs at most a turn per byte of the pattern.
Bounded(i, starJ, c) ==
    /\ c \in Nat /\ c <= (Len(pattern) + 1) * (Len(string) + 1)
    /\ starJ <= Len(string) => c <= (Len(pattern) + 1) * starJ + (i - 1)

\* The inductive invariant: where the matcher stands, or the answer it gave.
GlobInv ==
    \E o : /\ InputOK(o)
           /\ IF result = "running"
              THEN /\ Bounded(pi, starSi, turns)
                   /\ \E p, q : Placed(o, p, q, pi, si, starPi, starSi)
              ELSE AnswerIsMeaning

\* The numbers of a place.
LEMMA PlacedTypes ==
    ASSUME NEW o, InputOK(o), NEW p, NEW q, NEW i, NEW j, NEW starI, NEW starJ,
           Placed(o, p, q, i, j, starI, starJ)
    PROVE  /\ Len(tokens) \in Nat /\ Len(string) \in Nat /\ Len(pattern) \in Nat
           /\ p \in Nat /\ 1 <= p /\ p <= Len(tokens) + 1
           /\ q \in Nat /\ q + 1 <= p
           /\ Base(q, starJ) \in Nat /\ 1 <= Base(q, starJ)
           /\ j \in Nat /\ Base(q, starJ) <= j /\ j <= Len(string) + 1
           /\ j = Base(q, starJ) + ((p - 1) - q)
           /\ starJ \in Nat /\ i \in Nat /\ 1 <= i /\ i <= Len(pattern) + 1
           /\ (q = 0 => starJ = 0) /\ (q # 0 => starJ = Base(q, starJ))
           /\ p - 1 \in 0 .. Len(tokens) /\ q \in 0 .. Len(tokens)
           /\ p - 1 \in q .. Len(tokens)
<1>1. /\ Len(tokens) \in Nat /\ Len(string) \in Nat /\ Len(pattern) \in Nat
      /\ \A k \in 1 .. Len(tokens) + 1 : o[k] \in Nat /\ o[k] <= Len(pattern)
  BY TokenBytes
<1>2. /\ p \in 1 .. Len(tokens) + 1 /\ q \in 0 .. p - 1 /\ i = o[p] + 1
      /\ j = Base(q, starJ) + ((p - 1) - q) /\ j <= Len(string) + 1
      /\ IF q = 0 THEN starJ = 0 ELSE starJ \in 1 .. Len(string) + 1
  BY DEF Placed
<1>3. p \in Nat /\ 1 <= p /\ p <= Len(tokens) + 1 /\ q \in Nat /\ q + 1 <= p
  BY <1>1, <1>2
<1>4. /\ starJ \in Nat /\ (q = 0 => starJ = 0) /\ (q # 0 => starJ = Base(q, starJ))
      /\ Base(q, starJ) \in Nat /\ 1 <= Base(q, starJ)
  BY <1>1, <1>2 DEF Base
<1>5. i \in Nat /\ 1 <= i /\ i <= Len(pattern) + 1
  <2>1. o[p] \in Nat /\ o[p] <= Len(pattern)
    BY <1>1, <1>2
  <2> QED BY <1>1, <1>2, <2>1
<1>6. j \in Nat /\ Base(q, starJ) <= j
  BY <1>2, <1>3, <1>4
<1>7. p - 1 \in 0 .. Len(tokens) /\ q \in 0 .. Len(tokens) /\ p - 1 \in q .. Len(tokens)
  BY <1>1, <1>3
<1> QED BY <1>1, <1>2, <1>3, <1>4, <1>5, <1>6, <1>7

\* The places of the tokens in the pattern.
LEMMA Places ==
    ASSUME NEW o, InputOK(o), NEW p \in 1 .. Len(tokens) + 1
    PROVE  /\ o[p] \in Nat /\ o[p] <= Len(pattern)
           /\ At(o[p] + 1) = Star <=> p # Len(tokens) + 1 /\ IsStar(p)
           /\ o[p] + 1 > Len(pattern) <=> p = Len(tokens) + 1
           /\ \A r \in p + 1 .. Len(tokens) + 1 : o[p] < o[r]
<1> DEFINE m == Len(tokens)
           l == Len(pattern)
<1>1. /\ m \in Nat /\ l \in Nat /\ o[m + 1] = l /\ p \in Nat /\ 1 <= p /\ p <= m + 1
      /\ \A k \in 1 .. m + 1 : o[k] \in Nat /\ o[k] <= l
      /\ \A k \in 1 .. m : At(o[k] + 1) = Star <=> IsStar(k)
  <2>1. m \in Nat
    BY TokenBytes
  <2> QED BY <2>1, TokenBytes DEF IsStar
<1>2. \A k \in 1 .. m : o[k] < o[k + 1]
  <2> TAKE k \in 1 .. m
  <2>1. /\ o[k + 1] = o[k] + Len(BytesOf(tokens[k]))
        /\ Len(BytesOf(tokens[k])) \in Nat \ {0}
    BY TokenBytes
  <2>2. k \in 1 .. m + 1
    BY <1>1
  <2> QED BY <1>1, <2>1, <2>2
<1>3. ASSUME NEW r \in p + 1 .. m + 1 PROVE o[p] < o[r]
  <2> DEFINE T == {k \in p + 1 .. m + 1 : o[p] < o[k]}
  <2>1. p + 1 \in T
    <3>1. p \in 1 .. m /\ p + 1 \in p + 1 .. m + 1
      BY <1>1
    <3> QED BY <1>2, <3>1
  <2>2. ASSUME NEW k \in p + 1 .. (m + 1) - 1, k \in T PROVE k + 1 \in T
    <3>1. k \in 1 .. m /\ k + 1 \in p + 1 .. m + 1 /\ k \in 1 .. m + 1 /\ k + 1 \in 1 .. m + 1
      BY <1>1
    <3>2. o[p] \in Nat /\ o[k] \in Nat /\ o[k + 1] \in Nat
      BY <1>1, <3>1
    <3>3. o[p] < o[k] /\ o[k] < o[k + 1]
      BY <1>2, <2>2, <3>1
    <3>4. o[p] < o[k + 1]
      BY <3>2, <3>3
    <3> QED BY <3>1, <3>4
  <2>3. \A k \in p + 1 .. m + 1 : k \in T
    <3>1. \A k \in p + 1 .. (m + 1) - 1 : k \in T => k + 1 \in T
      BY <2>2
    <3>2. p + 1 \in Int /\ m + 1 \in Int
      BY <1>1
    <3> HIDE DEF T, m
    <3> QED BY <2>1, <3>1, <3>2, IntervalInduction
  <2> QED BY <2>3
<1>4. o[p] \in Nat /\ o[p] <= l
  BY <1>1
<1>5. CASE p = m + 1
  <2>1. o[p] + 1 > l /\ o[p] + 1 \in Nat
    BY <1>1, <1>5
  <2>2. At(o[p] + 1) # Star
    <3>1. pattern \in Seq(Byte)
      BY DEF InputOK
    <3>2. At(o[p] + 1) = -1
      BY <2>1, <3>1, AtFacts
    <3> QED BY <3>2 DEF Star
  <2> QED BY <1>3, <1>4, <1>5, <2>1, <2>2
<1>6. CASE p # m + 1
  <2>1. p \in 1 .. m /\ m + 1 \in p + 1 .. m + 1
    BY <1>1, <1>6
  <2>2. o[p] < l
    BY <1>1, <1>3, <2>1
  <2>3. ~(o[p] + 1 > l)
    BY <1>1, <1>4, <2>2
  <2> QED BY <1>1, <1>3, <1>4, <1>6, <2>1, <2>3
<1> QED BY <1>5, <1>6

\* Every match gets to where the matcher is, or further; one in which the star ends
\* where it does for now gets just there.
LEMMA PathIsAhead ==
    ASSUME NEW o, InputOK(o), NEW p, NEW q, NEW i, NEW j, NEW starI, NEW starJ,
           Placed(o, p, q, i, j, starI, starJ),
           NEW x, Path(x, Len(tokens), Len(string))
    PROVE  /\ x[p - 1] \in 0 .. Len(string) /\ x[q] \in 0 .. Len(string)
           /\ Base(q, starJ) - 1 <= x[q] /\ j - 1 <= x[p - 1]
           /\ x[q] = Base(q, starJ) - 1 => x[p - 1] = j - 1
<1>1. /\ p \in Nat /\ q \in Nat /\ Base(q, starJ) \in Nat /\ Len(string) \in Nat
      /\ j = Base(q, starJ) + ((p - 1) - q)
      /\ q \in 0 .. Len(tokens) /\ p - 1 \in q .. Len(tokens)
  BY PlacedTypes
<1>2. \A k \in q + 1 .. p - 1 : ~IsStar(k)
  BY DEF Placed
<1>3. /\ x[q] \in 0 .. Len(string) /\ x[p - 1] \in 0 .. Len(string)
      /\ x[p - 1] = x[q] + ((p - 1) - q)
  BY <1>1, <1>2, PathFacts
<1>4. Base(q, starJ) - 1 <= x[q]
  BY DEF Placed
<1> DEFINE a == x[q]
           b == x[p - 1]
           e == Base(q, starJ)
<1>5. /\ a \in Int /\ b \in Int /\ e \in Nat /\ b = a + ((p - 1) - q) /\ e - 1 <= a
      /\ j = e + ((p - 1) - q) /\ p \in Nat /\ q \in Nat
  BY <1>1, <1>3, <1>4
<1> HIDE DEF a, b, e
<1>6. j - 1 <= b /\ (a = e - 1 => b = j - 1)
  BY ONLY <1>5
<1> QED BY <1>3, <1>4, <1>6 DEF a, b, e

\* Where the byte of the string is not taken, no match has the elements before end
\* there.
LEMMA Stuck ==
    ASSUME NEW o, InputOK(o), NEW p, NEW q, Placed(o, p, q, pi, si, starPi, starSi),
           si <= Len(string), At(pi) # Star, Taken = 0,
           NEW x, Path(x, Len(tokens), Len(string))
    PROVE  x[p - 1] # si - 1
<1> SUFFICES ASSUME x[p - 1] = si - 1 PROVE FALSE
  OBVIOUS
<1>1. /\ p \in Nat /\ 1 <= p /\ p <= Len(tokens) + 1 /\ Len(tokens) \in Nat
      /\ Len(string) \in Nat /\ si \in Nat /\ 1 <= si /\ pi = o[p] + 1
  <2>1. pi = o[p] + 1
    BY DEF Placed
  <2>2. /\ p \in Nat /\ 1 <= p /\ p <= Len(tokens) + 1 /\ Len(tokens) \in Nat
        /\ Len(string) \in Nat /\ si \in Nat
        /\ Base(q, starSi) \in Nat /\ 1 <= Base(q, starSi) /\ Base(q, starSi) <= si
    BY PlacedTypes
  <2> QED BY <2>1, <2>2
<1>2. CASE p = Len(tokens) + 1
  <2>1. x[Len(tokens)] = Len(string) /\ p - 1 = Len(tokens)
    BY <1>1, <1>2 DEF Path
  <2> QED BY <1>1, <2>1
<1>3. CASE p # Len(tokens) + 1
  <2>1. p \in 1 .. Len(tokens) /\ p \in 1 .. Len(tokens) + 1
    BY <1>1, <1>3
  <2>2. ~IsStar(p)
    BY <1>1, <1>3, <2>1, Places
  <2>3. x[p] = x[p - 1] + 1 /\ Takes(tokens[p], string[x[p]])
    BY <2>1, <2>2 DEF Path
  <2>4. x[p] = si
    BY <1>1, <2>3
  <2>5. Takes(tokens[p], string[si])
    BY <2>3, <2>4
  <2>6. si \in 1 .. Len(string)
    BY <1>1
  <2>7. Taken = o[p + 1] + 1
    BY <1>1, <2>1, <2>2, <2>5, <2>6, ElementTaken DEF IsStar
  <2>8. o[p + 1] \in Nat
    <3>1. p + 1 \in 1 .. Len(tokens) + 1
      BY <1>1, <2>1
    <3> QED BY <3>1, TokenBytes
  <2> QED BY <2>7, <2>8
<1> QED BY <1>2, <1>3

\* The arithmetic of the turns.
LEMMA TurnBound ==
    ASSUME NEW l \in Nat, NEW n \in Nat, NEW s \in Nat, NEW t \in Nat, NEW i \in Nat,
           NEW j \in Nat, NEW c \in Nat, i <= l + 1, s <= n,
           c <= (l + 1) * s + (i - 1)
    PROVE  /\ c + 1 <= (l + 1) * (n + 1)
           /\ i < j /\ s <= t => c + 1 <= (l + 1) * t + (j - 1)
           /\ 1 <= j => c + 1 <= (l + 1) * (s + 1) + (j - 1)
<1>1. \A a, b, d \in Nat : a <= b => d * a <= d * b
  <2> SUFFICES ASSUME NEW a \in Nat, NEW b \in Nat, NEW d \in Nat, a <= b
               PROVE  d * a <= d * b
    OBVIOUS
  <2>1. PICK e \in Nat : b = a + e
    <3>1. b - a \in Nat /\ b = a + (b - a)
      OBVIOUS
    <3> QED BY <3>1
  <2>2. d * b = d * a + d * e /\ d * e \in Nat /\ d * a \in Nat
    BY <2>1
  <2> QED BY <2>2
<1>2. /\ l + 1 \in Nat /\ s + 1 \in Nat /\ n + 1 \in Nat
      /\ (l + 1) * (s + 1) = (l + 1) * s + (l + 1)
  OBVIOUS
<1>3. (l + 1) * (s + 1) <= (l + 1) * (n + 1) /\ (s <= t => (l + 1) * s <= (l + 1) * t)
  <2>1. s + 1 <= n + 1
    OBVIOUS
  <2> QED BY <1>1, <1>2, <2>1
<1>4. /\ (l + 1) * s \in Nat /\ (l + 1) * t \in Nat /\ (l + 1) * (s + 1) \in Nat
      /\ (l + 1) * (n + 1) \in Nat
  OBVIOUS
<1> DEFINE a == (l + 1) * s
           b == (l + 1) * t
           d == (l + 1) * (s + 1)
           e == (l + 1) * (n + 1)
<1>5. /\ a \in Nat /\ b \in Nat /\ d \in Nat /\ e \in Nat /\ d = a + (l + 1) /\ d <= e
      /\ (s <= t => a <= b) /\ c <= a + (i - 1)
  BY <1>2, <1>3, <1>4
<1> HIDE DEF a, b, d, e
<1>6. /\ c + 1 <= e
      /\ i < j /\ s <= t => c + 1 <= b + (j - 1)
      /\ 1 <= j => c + 1 <= d + (j - 1)
  BY <1>5
<1> QED BY <1>6 DEF b, d, e

-----------------------------------------------------------------------------
(* The steps *)

\* What a step leads to, in terms of the pattern and the string, which stay.
Kept(o) ==
    IF result' = "running"
    THEN /\ Bounded(pi', starSi', turns')
         /\ \E p, q : Placed(o, p, q, pi', si', starPi', starSi')
    ELSE /\ turns' <= (Len(pattern) + 1) * (Len(string) + 1)
         /\ result' = "match" <=> Fits(tokens, string)

\* A star is the last one from here on: the earliest place it can end is here.
LEMMA MeetStarKeeps ==
    ASSUME NEW o, InputOK(o), Bounded(pi, starSi, turns), NEW p, NEW q,
           Placed(o, p, q, pi, si, starPi, starSi), result = "running", MeetStar
    PROVE  Kept(o)
<1> DEFINE m == Len(tokens)
           n == Len(string)
           l == Len(pattern)
<1>1. /\ m \in Nat /\ n \in Nat /\ l \in Nat /\ p \in Nat /\ 1 <= p /\ p <= m + 1
      /\ q \in Nat /\ q + 1 <= p /\ si \in Nat /\ 1 <= si /\ starSi <= si /\ starSi \in Nat
      /\ pi \in Nat /\ pi <= l + 1 /\ p \in 1 .. m + 1 /\ q \in 0 .. m /\ p - 1 \in 0 .. m
  <2>1. /\ m \in Nat /\ n \in Nat /\ l \in Nat
        /\ p \in Nat /\ 1 <= p /\ p <= m + 1 /\ q \in Nat /\ q + 1 <= p
        /\ Base(q, starSi) \in Nat /\ 1 <= Base(q, starSi)
        /\ si \in Nat /\ Base(q, starSi) <= si
        /\ starSi \in Nat /\ pi \in Nat /\ pi <= l + 1
        /\ (q = 0 => starSi = 0) /\ (q # 0 => starSi = Base(q, starSi))
        /\ p - 1 \in 0 .. m /\ q \in 0 .. m
    BY PlacedTypes
  <2>2. 1 <= si /\ starSi <= si /\ p \in 1 .. m + 1
    BY <2>1
  <2> QED BY <2>1, <2>2
<1>2. /\ si <= n /\ At(pi) = Star /\ turns' = turns + 1 /\ si' = si /\ pi' = AfterStars(pi)
      /\ \/ pi' > l /\ result' = "match" /\ starPi' = starPi /\ starSi' = starSi
         \/ pi' <= l /\ starPi' = pi' /\ starSi' = si /\ result' = "running"
  BY DEF MeetStar, Running
<1>3. pi = o[p] + 1
  BY DEF Placed
<1>4. PICK r \in p .. m + 1 : /\ \A k \in p .. r - 1 : IsStar(k)
                              /\ r = m + 1 \/ ~IsStar(r)
                              /\ AfterStars(o[p] + 1) = o[r] + 1
  BY <1>1, SkipStars
<1>5. p # m + 1 /\ IsStar(p)
  BY <1>1, <1>2, <1>3, Places
<1>6. /\ r \in Nat /\ p + 1 <= r /\ r <= m + 1 /\ r \in p + 1 .. m + 1 /\ r \in 1 .. m + 1
      /\ r - 1 \in (p - 1) + 1 .. m /\ r - 1 \in 1 .. m /\ r - 1 \in 0 .. m
      /\ \A k \in (p - 1) + 1 .. r - 1 : k \in p .. r - 1
  <2>1. r # p
    BY <1>4, <1>5
  <2> QED BY <1>1, <1>4, <2>1
<1>7. /\ pi' = o[r] + 1 /\ o[p] < o[r] /\ o[r] \in Nat /\ o[p] \in Nat
      /\ o[r] + 1 > l <=> r = m + 1
  BY <1>1, <1>2, <1>3, <1>4, <1>6, Places
<1>8. si - 1 \in Ends[p - 1] /\ si - 1 \in 0 .. n
  <2>1. si - 1 \in Ends[p - 1]
    BY DEF Placed
  <2>2. si - 1 \in 0 .. n
    <3>1. si \in Nat /\ 1 <= si /\ si <= n /\ n \in Nat
      BY <1>1, <1>2
    <3> HIDE DEF n
    <3> QED BY ONLY <3>1
  <2> QED BY <2>1, <2>2
<1>9. \A j \in 0 .. n : si - 1 <= j => j \in Ends[r - 1]
  <2>1. \A k \in (p - 1) + 1 .. r - 1 : IsStar(k)
    BY <1>4, <1>6
  <2> QED BY <1>1, <1>6, <1>8, <2>1, StarsEnd
<1>10. /\ turns + 1 <= (l + 1) * (n + 1) /\ turns \in Nat
       /\ \A j \in Nat, t \in Nat : pi < j /\ starSi <= t => turns + 1 <= (l + 1) * t + (j - 1)
  <2>1. turns \in Nat /\ starSi <= n /\ turns <= (l + 1) * starSi + (pi - 1)
    <3>1. starSi <= n
      BY <1>1, <1>2
    <3> QED BY <3>1 DEF Bounded
  <2> QED BY <1>1, <2>1, TurnBound
<1>11. CASE pi' > l
  <2>1. r = m + 1 /\ result' = "match"
    BY <1>1, <1>2, <1>7, <1>11
  <2>2. n \in Ends[m]
    <3>1. n \in 0 .. n /\ si - 1 <= n /\ r - 1 = m
      BY <1>1, <1>2, <2>1
    <3> QED BY <1>9, <3>1
  <2>3. Fits(tokens, string)
    BY <2>2, FitHasPath
  <2> QED BY <1>2, <1>10, <2>1, <2>3 DEF Kept
<1>12. CASE ~(pi' > l)
  <2>1. r # m + 1 /\ result' = "running" /\ starPi' = pi' /\ starSi' = si
    BY <1>1, <1>2, <1>7, <1>12
  <2>2. Bounded(pi', starSi', turns')
    <3>1. pi' \in Nat /\ pi < pi'
      <4> DEFINE a == o[p]
                 b == o[r]
      <4>1. pi = a + 1 /\ pi' = b + 1 /\ a \in Nat /\ b \in Nat /\ a < b
        BY <1>3, <1>7
      <4> HIDE DEF a, b
      <4> QED BY ONLY <4>1
    <3>2. turns + 1 \in Nat /\ turns + 1 <= (l + 1) * si + (pi' - 1)
      <4>1. turns + 1 \in Nat
        BY <1>10
      <4> QED BY <1>1, <1>10, <3>1, <4>1, Zenon
    <3> QED BY <1>2, <1>10, <2>1, <3>2 DEF Bounded
  <2>3. Placed(o, r, r - 1, pi', si', starPi', starSi')
    <3>1. r - 1 \in 0 .. r - 1 /\ r - 1 # 0 /\ r - 1 < m /\ (r - 1) + 1 = r
      BY <1>1, <1>6, <2>1
    <3>2. \A k \in (r - 1) + 1 .. r - 1 : FALSE
      BY <1>6
    <3>3. IsStar(r - 1)
      <4>1. r - 1 \in p .. r - 1
        BY <1>1, <1>6
      <4> QED BY <1>4, <4>1
    <3>4. Base(r - 1, starSi') = si /\ si' = si + ((r - 1) - (r - 1)) /\ si \in 1 .. n + 1
      BY <1>1, <1>2, <1>6, <2>1, <3>1 DEF Base
    <3>5. si - 1 \in Ends[r - 1]
      <4>1. si - 1 <= si - 1
        BY <1>1
      <4> QED BY <1>8, <1>9, <4>1
    <3>6. ASSUME NEW x, Path(x, m, n) PROVE si - 1 <= x[r - 1]
      <4>1. si - 1 <= x[p - 1]
        BY <3>6, PathIsAhead
      <4>2. r - 1 \in p - 1 .. m
        BY <1>1, <1>6
      <4>3. x[p - 1] \in 0 .. n /\ x[r - 1] \in 0 .. n /\ x[p - 1] <= x[r - 1]
        BY <1>1, <3>6, <4>2, PathFacts
      <4> DEFINE v == x[p - 1]
                 w == x[r - 1]
      <4>4. v \in Int /\ w \in Int /\ si \in Int /\ v <= w /\ si - 1 <= v
        BY <1>1, <4>1, <4>3
      <4> HIDE DEF v, w
      <4>5. si - 1 <= w
        BY ONLY <4>4
      <4> QED BY <4>5 DEF w
    <3>7. si' <= n + 1 /\ si' = si
      BY <1>1, <1>2
    <3> QED BY <1>6, <1>7, <2>1, <3>1, <3>2, <3>3, <3>4, <3>5, <3>6, <3>7 DEF Placed
  <2> QED BY <2>1, <2>2, <2>3 DEF Kept
<1> QED BY <1>11, <1>12

\* An element that takes the next byte moves both on, and no match is lost.
LEMMA AdvanceKeeps ==
    ASSUME NEW o, InputOK(o), Bounded(pi, starSi, turns), NEW p, NEW q,
           Placed(o, p, q, pi, si, starPi, starSi), result = "running", Advance
    PROVE  Kept(o)
<1> DEFINE m == Len(tokens)
           n == Len(string)
           l == Len(pattern)
<1>1. /\ m \in Nat /\ n \in Nat /\ l \in Nat /\ p \in Nat /\ 1 <= p /\ p <= m + 1
      /\ q \in Nat /\ q + 1 <= p /\ si \in Nat /\ 1 <= si /\ starSi <= si /\ starSi \in Nat
      /\ pi \in Nat /\ pi <= l + 1 /\ p \in 1 .. m + 1
      /\ Base(q, starSi) \in Nat /\ si = Base(q, starSi) + ((p - 1) - q)
  <2>1. /\ m \in Nat /\ n \in Nat /\ l \in Nat
        /\ p \in Nat /\ 1 <= p /\ p <= m + 1 /\ q \in Nat /\ q + 1 <= p
        /\ Base(q, starSi) \in Nat /\ 1 <= Base(q, starSi)
        /\ si \in Nat /\ Base(q, starSi) <= si
        /\ si = Base(q, starSi) + ((p - 1) - q)
        /\ starSi \in Nat /\ pi \in Nat /\ pi <= l + 1
        /\ (q = 0 => starSi = 0) /\ (q # 0 => starSi = Base(q, starSi))
    BY PlacedTypes
  <2>2. 1 <= si /\ starSi <= si /\ p \in 1 .. m + 1
    BY <2>1
  <2> QED BY <2>1, <2>2
<1>2. /\ si <= n /\ At(pi) # Star /\ Taken # 0 /\ turns' = turns + 1 /\ pi' = Taken
      /\ si' = si + 1 /\ starPi' = starPi /\ starSi' = starSi /\ result' = "running"
  BY DEF Advance, Running
<1>3. pi = o[p] + 1 /\ si \in 1 .. n
  BY <1>1, <1>2 DEF Placed
<1>4. p # m + 1
  <2>1. p = m + 1 => pi = l + 1
    BY <1>3, TokenBytes
  <2> QED BY <1>2, <1>3, <2>1, ElementTaken
<1>5. p \in 1 .. m /\ p + 1 \in p + 1 .. m + 1 /\ p + 1 \in 1 .. m + 1 /\ (p + 1) - 1 = p
  BY <1>1, <1>4
<1>6. ~IsStar(p)
  BY <1>1, <1>2, <1>3, <1>4, Places
<1>7. Takes(tokens[p], string[si]) /\ pi' = o[p + 1] + 1
  BY <1>2, <1>3, <1>5, <1>6, ElementTaken DEF IsStar
<1>8. o[p] \in Nat /\ o[p + 1] \in Nat /\ o[p] < o[p + 1]
  BY <1>1, <1>5, Places
<1>9. Bounded(pi', starSi', turns')
  <2>1. turns \in Nat /\ starSi <= n /\ turns <= (l + 1) * starSi + (pi - 1)
    <3>1. starSi <= n
      BY <1>1, <1>2
    <3> QED BY <3>1 DEF Bounded
  <2>2. pi' \in Nat /\ pi < pi' /\ starSi <= starSi
    <3> DEFINE a == o[p]
               b == o[p + 1]
    <3>1. pi = a + 1 /\ pi' = b + 1 /\ a \in Nat /\ b \in Nat /\ a < b
      BY <1>3, <1>7, <1>8
    <3> HIDE DEF a, b
    <3>2. pi' \in Nat /\ pi < pi'
      BY ONLY <3>1
    <3>3. starSi <= starSi
      BY <1>1
    <3> QED BY <3>2, <3>3
  <2>3. turns + 1 <= (l + 1) * (n + 1) /\ turns + 1 <= (l + 1) * starSi + (pi' - 1)
    BY <1>1, <2>1, <2>2, TurnBound
  <2>4. turns + 1 \in Nat
    BY <2>1
  <2> QED BY <1>2, <2>3, <2>4 DEF Bounded
<1>10. Placed(o, p + 1, q, pi', si', starPi', starSi')
  <2>1. q \in 0 .. (p + 1) - 1 /\ \A k \in q + 1 .. (p + 1) - 1 : ~IsStar(k)
    <3>1. \A k \in q + 1 .. p - 1 : ~IsStar(k)
      BY DEF Placed
    <3>2. \A k \in q + 1 .. (p + 1) - 1 : k = p \/ k \in q + 1 .. p - 1
      BY <1>1
    <3>3. q \in 0 .. (p + 1) - 1
      BY <1>1
    <3> QED BY <1>6, <3>1, <3>2, <3>3
  <2>2. si' = Base(q, starSi) + (((p + 1) - 1) - q) /\ si' <= n + 1 /\ si' - 1 = si
    <3> DEFINE e == Base(q, starSi)
    <3>1. e \in Nat /\ si = e + ((p - 1) - q) /\ si' = si + 1
      BY <1>1, <1>2
    <3> HIDE DEF e
    <3>2. si' = e + (((p + 1) - 1) - q) /\ si' <= n + 1 /\ si' - 1 = si
      <4>1. p \in Nat /\ q \in Nat /\ n \in Nat /\ si \in Nat /\ si <= n
        BY <1>1, <1>2
      <4> HIDE DEF n
      <4> QED BY ONLY <3>1, <4>1
    <3> QED BY <3>2 DEF e
  <2>3. si \in Ends[p]
    <3>1. Ends[p] = {j \in 1 .. n : j - 1 \in Ends[p - 1] /\ Takes(tokens[p], string[j])}
      BY <1>5, <1>6, EndsStep
    <3>2. si - 1 \in Ends[p - 1]
      BY DEF Placed
    <3> QED BY <1>3, <1>7, <3>1, <3>2
  <2>4. /\ IF q = 0 THEN starPi = 0 /\ starSi = 0
           ELSE IsStar(q) /\ q < m /\ starPi = o[q + 1] + 1 /\ starSi \in 1 .. n + 1
        /\ Base(q, starSi) - 1 \in Ends[q]
        /\ \A x : Path(x, m, n) => Base(q, starSi) - 1 <= x[q]
    BY DEF Placed
  <2> QED BY <1>2, <1>5, <1>7, <2>1, <2>2, <2>3, <2>4 DEF Placed
<1> QED BY <1>2, <1>9, <1>10 DEF Kept

\* A mismatch: the last star takes one byte more, and no match ended it where it was.
LEMMA BacktrackKeeps ==
    ASSUME NEW o, InputOK(o), Bounded(pi, starSi, turns), NEW p, NEW q,
           Placed(o, p, q, pi, si, starPi, starSi), result = "running", Backtrack
    PROVE  Kept(o)
<1> DEFINE m == Len(tokens)
           n == Len(string)
           l == Len(pattern)
<1>1. /\ m \in Nat /\ n \in Nat /\ l \in Nat /\ p \in Nat /\ q \in Nat /\ q + 1 <= p
      /\ p <= m + 1 /\ q \in 0 .. m
      /\ si \in Nat /\ starSi <= si /\ starSi \in Nat /\ pi \in Nat /\ pi <= l + 1
      /\ (q = 0 => starSi = 0) /\ (q # 0 => starSi = Base(q, starSi))
      /\ Base(q, starSi) \in Nat /\ 1 <= Base(q, starSi)
  <2>1. /\ m \in Nat /\ n \in Nat /\ l \in Nat /\ p \in Nat /\ q \in Nat /\ q + 1 <= p
        /\ p <= m + 1 /\ q \in 0 .. m
        /\ Base(q, starSi) \in Nat /\ 1 <= Base(q, starSi)
        /\ si \in Nat /\ Base(q, starSi) <= si
        /\ starSi \in Nat /\ pi \in Nat /\ pi <= l + 1
        /\ (q = 0 => starSi = 0) /\ (q # 0 => starSi = Base(q, starSi))
    BY PlacedTypes
  <2>2. starSi <= si
    BY <2>1
  <2> QED BY <2>1, <2>2
<1>2. /\ si <= n /\ At(pi) # Star /\ Taken = 0 /\ turns' = turns + 1 /\ starPi' = starPi
      /\ \/ starPi = 0 /\ result' = "mismatch"
         \/ /\ starPi # 0 /\ pi' = starPi /\ starSi' = starSi + 1 /\ si' = starSi + 1
            /\ result' = "running"
  BY DEF Backtrack, Running
<1>3. /\ IF q = 0 THEN starPi = 0 /\ starSi = 0
         ELSE IsStar(q) /\ q < m /\ starPi = o[q + 1] + 1 /\ starSi \in 1 .. n + 1
      /\ Base(q, starSi) - 1 \in Ends[q]
  BY DEF Placed
<1>4. turns \in Nat /\ starSi <= n /\ turns <= (l + 1) * starSi + (pi - 1)
  <2>1. starSi <= n
    BY <1>1, <1>2
  <2> QED BY <2>1 DEF Bounded
<1>5. ASSUME NEW x, Path(x, m, n) PROVE Base(q, starSi) <= x[q]
  <2>1. x[p - 1] # si - 1
    BY <1>2, <1>5, Stuck
  <2>2. /\ x[q] \in 0 .. n /\ Base(q, starSi) - 1 <= x[q]
        /\ x[q] = Base(q, starSi) - 1 => x[p - 1] = si - 1
    BY <1>5, PathIsAhead
  <2>3. x[q] # Base(q, starSi) - 1
    BY <2>1, <2>2
  <2> QED BY <1>1, <2>2, <2>3
<1>6. CASE q = 0
  <2>1. starPi = 0 /\ result' = "mismatch"
    BY <1>2, <1>3, <1>6
  <2>2. ~Fits(tokens, string)
    <3>1. ASSUME NEW x, Path(x, m, n) PROVE FALSE
      <4>1. x[0] = 0
        BY <3>1 DEF Path
      <4> QED BY <1>5, <1>6, <3>1, <4>1 DEF Base
    <3> QED BY <3>1, FitHasPath
  <2>3. turns + 1 <= (l + 1) * (n + 1)
    BY <1>1, <1>4, TurnBound
  <2> QED BY <1>2, <2>1, <2>2, <2>3 DEF Kept
<1>7. CASE q # 0
  <2>1. q \in 1 .. m /\ q + 1 \in 1 .. m + 1 /\ IsStar(q) /\ starPi = o[q + 1] + 1
    BY <1>1, <1>3, <1>7
  <2>2. o[q + 1] \in Nat /\ starPi # 0 /\ starPi \in Nat /\ 1 <= starPi
    <3>1. o[q + 1] \in Nat
      BY <2>1, TokenBytes
    <3> QED BY <2>1, <3>1
  <2>3. pi' = starPi /\ starSi' = starSi + 1 /\ si' = starSi + 1 /\ result' = "running"
    BY <1>2, <2>2
  <2>4. Base(q, starSi') = starSi + 1 /\ Base(q, starSi) = starSi
    BY <1>7, <2>3 DEF Base
  <2>5. Bounded(pi', starSi', turns')
    <3>1. turns + 1 <= (l + 1) * (n + 1) /\ turns + 1 <= (l + 1) * (starSi + 1) + (starPi - 1)
      BY <1>1, <1>4, <2>2, TurnBound
    <3>2. turns + 1 \in Nat
      BY <1>4
    <3> QED BY <1>2, <2>3, <3>1, <3>2 DEF Bounded
  <2>6. Placed(o, q + 1, q, pi', si', starPi', starSi')
    <3>1. /\ q \in 0 .. (q + 1) - 1 /\ (q + 1) - 1 = q /\ \A k \in q + 1 .. (q + 1) - 1 : FALSE
          /\ starSi + 1 = (starSi + 1) + (((q + 1) - 1) - q) /\ starSi + 1 <= n + 1
          /\ (starSi + 1) - 1 = starSi /\ starSi + 1 \in 1 .. n + 1
      BY <1>1, <1>4
    <3>2. starSi \in Ends[q]
      <4>1. Ends[q] = {j \in 0 .. n : \E i \in Ends[q - 1] : i <= j}
        BY <2>1, EndsStep
      <4>2. PICK i \in Ends[q - 1] : i <= starSi - 1
        BY <1>3, <2>4, <4>1
      <4>3. starSi - 1 \in Ends[q] /\ starSi \in 0 .. n
        BY <1>1, <1>3, <1>4, <2>4
      <4>4. i <= starSi
        <5>1. Ends[q - 1] \subseteq Int
          <6>1. CASE q = 1
            BY <6>1, EndsStep
          <6>2. CASE q # 1
            <7>1. q - 1 \in 1 .. m
              BY <1>1, <2>1, <6>2
            <7>2. Ends[q - 1] = IF IsStar(q - 1)
                                THEN {j \in 0 .. n : \E e \in Ends[(q - 1) - 1] : e <= j}
                                ELSE {j \in 1 .. n : /\ j - 1 \in Ends[(q - 1) - 1]
                                                     /\ Takes(tokens[q - 1], string[j])}
              BY <7>1, EndsStep
            <7>3. CASE IsStar(q - 1)
              BY <7>2, <7>3
            <7>4. CASE ~IsStar(q - 1)
              BY <7>2, <7>4
            <7> QED BY <7>3, <7>4
          <6> QED BY <6>1, <6>2
        <5> QED BY <1>1, <4>2, <5>1
      <4> QED BY <4>1, <4>2, <4>3, <4>4
    <3>3. \A x : Path(x, m, n) => starSi <= x[q]
      BY <1>5, <2>4
    <3>4. q < m
      BY <1>3, <1>7
    <3> QED BY <1>2, <1>7, <2>1, <2>3, <2>4, <3>1, <3>2, <3>3, <3>4 DEF Placed
  <2> QED BY <2>3, <2>5, <2>6 DEF Kept
<1> QED BY <1>6, <1>7

\* The string is used up: what is left of the pattern may only be stars.
LEMMA FinishKeeps ==
    ASSUME NEW o, InputOK(o), Bounded(pi, starSi, turns), NEW p, NEW q,
           Placed(o, p, q, pi, si, starPi, starSi), result = "running", Finish
    PROVE  Kept(o)
<1> DEFINE m == Len(tokens)
           n == Len(string)
           l == Len(pattern)
<1>1. /\ m \in Nat /\ n \in Nat /\ l \in Nat /\ p \in Nat /\ 1 <= p /\ p <= m + 1
      /\ si \in Nat /\ si <= n + 1 /\ p \in 1 .. m + 1 /\ p - 1 \in 0 .. m
  <2>1. /\ m \in Nat /\ n \in Nat /\ l \in Nat /\ p \in Nat /\ 1 <= p /\ p <= m + 1
        /\ si \in Nat /\ si <= n + 1 /\ p - 1 \in 0 .. m
    BY PlacedTypes
  <2> QED BY <2>1
<1>2. /\ si > n /\ pi' = AfterStars(pi) /\ turns' = turns
      /\ result' = IF pi' > l THEN "match" ELSE "mismatch"
  BY DEF Finish
<1>3. pi = o[p] + 1 /\ si - 1 \in Ends[p - 1]
  BY DEF Placed
<1>4. si - 1 = n
  BY <1>1, <1>2
<1>5. PICK r \in p .. m + 1 : /\ \A k \in p .. r - 1 : IsStar(k)
                              /\ r = m + 1 \/ ~IsStar(r)
                              /\ AfterStars(o[p] + 1) = o[r] + 1
  BY <1>1, SkipStars
<1>6. r \in Nat /\ p <= r /\ r <= m + 1 /\ r \in 1 .. m + 1
  BY <1>1, <1>5
<1>7. pi' = o[r] + 1 /\ (pi' > l <=> r = m + 1)
  BY <1>2, <1>3, <1>5, <1>6, Places
<1>8. CASE r = m + 1
  <2>1. n \in Ends[m]
    <3>1. CASE p = m + 1
      BY <1>1, <1>3, <1>4, <3>1
    <3>2. CASE p # m + 1
      <4>1. m \in (p - 1) + 1 .. m /\ n \in 0 .. n /\ n <= n
        BY <1>1, <3>2
      <4>2. \A k \in (p - 1) + 1 .. m : IsStar(k)
        <5>1. \A k \in (p - 1) + 1 .. m : k \in p .. r - 1
          BY <1>1, <1>8
        <5> QED BY <1>5, <5>1
      <4>3. n \in Ends[p - 1]
        BY <1>3, <1>4
      <4> QED BY <1>1, <4>1, <4>2, <4>3, StarsEnd
    <3> QED BY <3>1, <3>2
  <2>2. Fits(tokens, string)
    BY <2>1, FitHasPath
  <2>3. result' = "match"
    BY <1>2, <1>7, <1>8
  <2> QED BY <1>2, <2>2, <2>3 DEF Kept, Bounded
<1>9. CASE r # m + 1
  <2>1. ~Fits(tokens, string)
    <3>1. ASSUME NEW x, Path(x, m, n) PROVE FALSE
      <4>1. x[p - 1] \in 0 .. n /\ si - 1 <= x[p - 1]
        BY <3>1, PathIsAhead
      <4>2. r \in 1 .. m /\ r - 1 \in p - 1 .. m /\ r \in r .. m /\ r \in 0 .. m /\ ~IsStar(r)
        BY <1>1, <1>5, <1>6, <1>9
      <4>3. x[r - 1] \in 0 .. n /\ x[p - 1] <= x[r - 1]
        BY <1>1, <3>1, <4>2, PathFacts
      <4>4. x[r] = x[r - 1] + 1
        BY <3>1, <4>2 DEF Path
      <4>5. x[r] \in 0 .. n
        BY <3>1, <4>2, PathFacts
      <4> QED BY <1>1, <1>4, <4>1, <4>3, <4>4, <4>5
    <3> QED BY <3>1, FitHasPath
  <2>2. result' = "mismatch"
    BY <1>2, <1>7, <1>9
  <2> QED BY <1>2, <2>1, <2>2 DEF Kept, Bounded
<1> QED BY <1>8, <1>9

\* The matcher is called before the first element and the first byte.
LEMMA GlobInitInvariant == GlobInit => GlobInv
<1> SUFFICES ASSUME GlobInit PROVE GlobInv
  OBVIOUS
<1>1. PICK o : InputOK(o)
  BY InputInit
<1>2. /\ pi = 1 /\ si = 1 /\ starPi = 0 /\ starSi = 0 /\ result = "running" /\ turns = 0
  BY DEF GlobInit
<1> DEFINE m == Len(tokens)
           n == Len(string)
           l == Len(pattern)
<1>3. m \in Nat /\ n \in Nat /\ l \in Nat /\ o[1] = 0
  BY <1>1, TokenBytes
<1>4. Bounded(pi, starSi, turns)
  <2>1. \A a, b \in Nat : a * b \in Nat
    OBVIOUS
  <2>2. l + 1 \in Nat /\ n + 1 \in Nat /\ 0 \in Nat
    BY <1>3
  <2>3. (l + 1) * (n + 1) \in Nat /\ (l + 1) * 0 \in Nat
    BY <2>1, <2>2, Zenon
  <2>4. 0 <= (l + 1) * (n + 1) /\ 0 <= (l + 1) * 0 + (1 - 1)
    BY <2>3
  <2> QED BY <1>2, <2>2, <2>4 DEF Bounded
<1>5. Placed(o, 1, 0, pi, si, starPi, starSi)
  <2>1. /\ 1 \in 1 .. m + 1 /\ o[1] + 1 = 1 /\ 0 \in 0 .. 1 - 1 /\ \A k \in 0 + 1 .. 1 - 1 : FALSE
        /\ Base(0, 0) = 1 /\ 1 = 1 + ((1 - 1) - 0) /\ 1 <= n + 1
    BY <1>3 DEF Base
  <2>2. 1 - 1 \in Ends[0]
    BY <1>1, EndsStep
  <2>3. \A x : Path(x, m, n) => 1 - 1 <= x[0]
    BY DEF Path
  <2> QED BY <1>2, <2>1, <2>2, <2>3 DEF Placed
<1> QED BY <1>1, <1>2, <1>4, <1>5 DEF GlobInv

\* Every turn of the loop keeps the matcher in its place.
LEMMA GlobNextInvariant == GlobInv /\ [GlobNext]_glob => GlobInv'
<1> SUFFICES ASSUME GlobInv, [GlobNext]_glob PROVE GlobInv'
  OBVIOUS
<1>1. PICK o : /\ InputOK(o)
               /\ IF result = "running"
                  THEN /\ Bounded(pi, starSi, turns)
                       /\ \E p, q : Placed(o, p, q, pi, si, starPi, starSi)
                  ELSE AnswerIsMeaning
  BY DEF GlobInv
<1>2. CASE UNCHANGED glob
  <2>1. /\ tokens' = tokens /\ pattern' = pattern /\ string' = string /\ pi' = pi /\ si' = si
        /\ starPi' = starPi /\ starSi' = starSi /\ result' = result /\ turns' = turns
    BY <1>2 DEF glob
  <2>2. InputOK(o)'
    BY <1>1, <2>1 DEF InputOK, Written
  <2>3. CASE result = "running"
    <3>1. PICK p, q : Placed(o, p, q, pi, si, starPi, starSi)
      BY <1>1, <2>3
    <3>2. Placed(o, p, q, pi, si, starPi, starSi)'
      BY <2>1, <3>1 DEF Placed, Path, Ends, IsStar
    <3>3. Bounded(pi, starSi, turns)'
      BY <1>1, <2>1, <2>3 DEF Bounded
    <3> QED BY <2>1, <2>2, <2>3, <3>2, <3>3 DEF GlobInv
  <2>4. CASE result # "running"
    <3>1. AnswerIsMeaning'
      BY <1>1, <2>1, <2>4 DEF AnswerIsMeaning
    <3> QED BY <2>1, <2>2, <2>4, <3>1 DEF GlobInv
  <2> QED BY <2>3, <2>4
<1>3. CASE GlobNext
  <2>1. result = "running" /\ tokens' = tokens /\ pattern' = pattern /\ string' = string
    BY <1>3 DEF GlobNext, MeetStar, Advance, Backtrack, Finish, Running, input
  <2>2. InputOK(o)'
    BY <1>1, <2>1 DEF InputOK, Written
  <2>3. PICK p, q : Placed(o, p, q, pi, si, starPi, starSi)
    BY <1>1, <2>1
  <2>4. Bounded(pi, starSi, turns)
    BY <1>1, <2>1
  <2>5. Kept(o)
    BY <1>1, <1>3, <2>1, <2>3, <2>4, MeetStarKeeps, AdvanceKeeps, BacktrackKeeps, FinishKeeps
       DEF GlobNext
  <2>6. CASE result' = "running"
    <3>1. Bounded(pi', starSi', turns') /\ \E r, s : Placed(o, r, s, pi', si', starPi', starSi')
      BY <2>5, <2>6 DEF Kept
    <3>2. PICK r, s : Placed(o, r, s, pi', si', starPi', starSi')
      BY <3>1
    <3>3. Placed(o, r, s, pi, si, starPi, starSi)'
      BY <2>1, <3>2 DEF Placed, Path, Ends, IsStar
    <3>4. Bounded(pi, starSi, turns)'
      BY <2>1, <3>1 DEF Bounded
    <3> QED BY <2>2, <2>6, <3>3, <3>4 DEF GlobInv
  <2>7. CASE result' # "running"
    <3>1. /\ turns' <= (Len(pattern) + 1) * (Len(string) + 1)
          /\ result' = "match" <=> Fits(tokens, string)
      BY <2>5, <2>7 DEF Kept
    <3>2. Fits(tokens, string) \in BOOLEAN /\ (result' = "match") \in BOOLEAN
      BY DEF Fits
    <3>3. (result' = "match") = Fits(tokens, string)
      BY <3>1, <3>2
    <3>4. AnswerIsMeaning'
      BY <2>1, <3>1, <3>3 DEF AnswerIsMeaning
    <3> QED BY <2>2, <2>7, <3>4 DEF GlobInv
  <2> QED BY <2>6, <2>7
<1> QED BY <1>2, <1>3

\* The matcher behind PSUBSCRIBE, on every pattern of any elements and every string,
\* of any length: its answer is what the pattern means, and it comes to it within
\* as many turns as there are pairs of positions.
THEOREM MatcherIsRight == GlobInit /\ [][GlobNext]_glob => []AnswerIsMeaning
<1>1. GlobInv => AnswerIsMeaning
  <2> SUFFICES ASSUME GlobInv PROVE AnswerIsMeaning
    OBVIOUS
  <2>1. CASE result = "running"
    BY <2>1 DEF GlobInv, AnswerIsMeaning, Bounded
  <2>2. CASE result # "running"
    BY <2>2 DEF GlobInv
  <2> QED BY <2>1, <2>2
<1> QED BY <1>1, GlobInitInvariant, GlobNextInvariant, PTL

-----------------------------------------------------------------------------
(***************************************************************************)
(* Every pattern is one of elements: whatever bytes a client subscribes    *)
(* to, they are read from left to right as elements, the last of which may *)
(* be torn.  MatcherIsRight says nothing less for starting from elements.  *)
(***************************************************************************)

\* One more sequence put after the others.
LEMMA FlattenAppend ==
    ASSUME NEW S, NEW seqs \in Seq(Seq(S)), NEW s \in Seq(S)
    PROVE  FlattenSeq(Append(seqs, s)) = FlattenSeq(seqs) \o s
<1> DEFINE n == Len(seqs)
           more == Append(seqs, s)
<1>1. /\ n \in Nat /\ more \in Seq(Seq(S)) /\ Len(more) = n + 1 /\ Len(more) # 0
      /\ \A i \in 1 .. n : more[i] = seqs[i]
      /\ more[n + 1] = s
  <2>1. n \in Nat /\ more \in Seq(Seq(S)) /\ Len(more) = n + 1
    OBVIOUS
  <2> QED BY <2>1
<1> HIDE DEF more, n
<1>2. PICK F : /\ F = [i \in 1 .. Len(more) |-> IF i = 1 THEN more[i] ELSE F[i - 1] \o more[i]]
               /\ FlattenSeq(more) = F[Len(more)]
  BY <1>1, FlattenDef
<1>3. \A i \in 1 .. n + 1 : F[i] = IF i = 1 THEN more[i] ELSE F[i - 1] \o more[i]
  <2>1. \A i \in 1 .. Len(more) : F[i] = IF i = 1 THEN more[i] ELSE F[i - 1] \o more[i]
    BY <1>2, Zenon
  <2> QED BY <1>1, <2>1
<1>4. FlattenSeq(more) = F[n + 1]
  BY <1>1, <1>2
<1>5. CASE n = 0
  <2>1. F[1] = s /\ seqs = <<>>
    BY <1>1, <1>3, <1>5 DEF n
  <2>2. FlattenSeq(seqs) = <<>>
    BY <2>1 DEF FlattenSeq
  <2>3. <<>> \o s = s
    OBVIOUS
  <2> QED BY <1>4, <1>5, <2>1, <2>2, <2>3 DEF more
<1>6. CASE n # 0
  <2>1. PICK G : /\ G = [i \in 1 .. Len(seqs) |-> IF i = 1 THEN seqs[i] ELSE G[i - 1] \o seqs[i]]
                 /\ FlattenSeq(seqs) = G[Len(seqs)]
    BY <1>6, FlattenDef DEF n
  <2>2. \A i \in 1 .. n : G[i] = IF i = 1 THEN seqs[i] ELSE G[i - 1] \o seqs[i]
    BY <2>1, Zenon DEF n
  <2>3. FlattenSeq(seqs) = G[n]
    BY <2>1 DEF n
  <2> DEFINE T == {i \in 1 .. n : F[i] = G[i]}
  <2>4. 1 \in T
    <3>1. 1 \in 1 .. n /\ 1 \in 1 .. n + 1
      BY <1>1, <1>6
    <3> QED BY <1>1, <1>3, <2>2, <3>1
  <2>5. ASSUME NEW i \in 1 .. n - 1, i \in T PROVE i + 1 \in T
    <3>1. i + 1 \in 1 .. n /\ i + 1 \in 1 .. n + 1 /\ i + 1 # 1 /\ (i + 1) - 1 = i
      BY <1>1
    <3>2. F[i + 1] = F[i] \o more[i + 1] /\ G[i + 1] = G[i] \o seqs[i + 1]
      BY <1>3, <2>2, <3>1
    <3> QED BY <1>1, <2>5, <3>1, <3>2
  <2>6. \A i \in 1 .. n : i \in T
    <3>1. 1 \in Int /\ n \in Int /\ \A i \in 1 .. n - 1 : i \in T => i + 1 \in T
      BY <1>1, <2>5
    <3> HIDE DEF T
    <3> QED BY <2>4, <3>1, IntervalInduction
  <2>7. F[n] = G[n]
    <3>1. n \in 1 .. n
      BY <1>1, <1>6
    <3> QED BY <2>6, <3>1
  <2>8. F[n + 1] = F[n] \o more[n + 1]
    <3>1. n + 1 \in 1 .. n + 1 /\ n + 1 # 1 /\ (n + 1) - 1 = n
      BY <1>1, <1>6
    <3> QED BY <1>3, <3>1
  <2> QED BY <1>1, <1>4, <2>3, <2>7, <2>8 DEF more
<1> QED BY <1>5, <1>6

\* A part of a sequence, continued.
Parted(S, s, a, b, c) ==
    /\ SubSeq(s, a, b) \in Seq(S) /\ SubSeq(s, b + 1, c) \in Seq(S)
    /\ SubSeq(s, a, b) \o SubSeq(s, b + 1, c) = SubSeq(s, a, c)

\* A part up to b and one from b + 1 on are one part.
LEMMA PartsJoin ==
    ASSUME NEW S, NEW s \in Seq(S), NEW a \in Nat \ {0}, NEW b \in Nat, NEW c \in Nat,
           a <= b + 1, b <= c, c <= Len(s)
    PROVE  Parted(S, s, a, b, c)
<1> DEFINE u == SubSeq(s, a, b)
           v == SubSeq(s, b + 1, c)
           w == SubSeq(s, a, c)
<1>1. /\ u = [i \in 1 .. b - a + 1 |-> s[a + i - 1]]
      /\ v = [i \in 1 .. c - b |-> s[b + i]]
      /\ w = [i \in 1 .. c - a + 1 |-> s[a + i - 1]]
  OBVIOUS
<1>2. /\ u \in Seq(S) /\ Len(u) = b - a + 1
      /\ v \in Seq(S) /\ Len(v) = c - b
      /\ w \in Seq(S) /\ Len(w) = c - a + 1
  <2>1. b - a + 1 \in Nat /\ c - b \in Nat /\ c - a + 1 \in Nat
    OBVIOUS
  <2>2. /\ \A i \in 1 .. b - a + 1 : s[a + i - 1] \in S
        /\ \A i \in 1 .. c - b : s[b + i] \in S
        /\ \A i \in 1 .. c - a + 1 : s[a + i - 1] \in S
    OBVIOUS
  <2> QED BY <1>1, <2>1, <2>2
<1> HIDE DEF u, v, w
<1>3. Appended(S, u, v)
  BY <1>2, Concatenated
<1>4. /\ u \o v \in Seq(S) /\ Len(u \o v) = (b - a + 1) + (c - b)
      /\ \A j \in 1 .. b - a + 1 : (u \o v)[j] = u[j]
      /\ \A j \in 1 .. c - b : (u \o v)[(b - a + 1) + j] = v[j]
  BY <1>2, <1>3 DEF Appended
<1>5. (b - a + 1) + (c - b) = c - a + 1
  OBVIOUS
<1>6. ASSUME NEW j \in 1 .. c - a + 1 PROVE (u \o v)[j] = w[j]
  <2>1. CASE j <= b - a + 1
    <3>1. j \in 1 .. b - a + 1
      BY <2>1
    <3> QED BY <1>1, <1>4, <3>1
  <2>2. CASE ~(j <= b - a + 1)
    <3> DEFINE i == j - (b - a + 1)
    <3>1. i \in 1 .. c - b /\ (b - a + 1) + i = j /\ b + i = a + j - 1
      BY <2>2
    <3> HIDE DEF i
    <3>2. (u \o v)[j] = v[i]
      BY <1>4, <3>1
    <3>3. v[i] = s[b + i] /\ w[j] = s[a + j - 1]
      BY <1>1, <3>1
    <3> QED BY <3>1, <3>2, <3>3
  <2> QED BY <2>1, <2>2
<1>7. u \o v = w
  <2> DEFINE x == u \o v
  <2>1. x \in Seq(S) /\ Len(x) = Len(w) /\ \A j \in 1 .. Len(x) : x[j] = w[j]
    BY <1>2, <1>4, <1>5, <1>6
  <2> HIDE DEF x
  <2>2. DOMAIN x = 1 .. Len(x) /\ DOMAIN w = 1 .. Len(w)
    BY <1>2, <2>1
  <2>3. x = w
    BY <1>2, <2>1, <2>2
  <2> QED BY <2>3 DEF x
<1> QED BY <1>2, <1>7 DEF Parted, u, v, w

\* What is between the brackets of a class.
Inner == Byte \ {Close}

\* The first j bytes of c, read as items from left to right.
ReadTo(c, items, j) ==
    /\ items \in Seq(Seq(Inner))
    /\ FlattenSeq(items) = SubSeq(c, 1, j)
    /\ \A k \in 1 .. Len(items) : IsItem(items[k])
    /\ j # 0 => Len(items) # 0 /\ items[1][1] = c[1]
    /\ j = 0 => Len(items) = 0
    /\ \A k \in 2 .. Len(items) :
          Len(items[k - 1]) = 1 /\ items[k][1] = Dash =>
             k = Len(items) /\ items[k] = <<Dash>> /\ j = Len(c)
    /\ Len(items) # 0 /\ Len(items[Len(items)]) = 1 /\ j < Len(c) /\ c[j + 1] = Dash =>
          j + 1 = Len(c)

\* The item that follows: the bytes of c from j + 1 to e.
ItemAt(c, item, j, e) ==
    /\ item \in Seq(Inner) /\ item = SubSeq(c, j + 1, e) /\ e \in j + 1 .. Len(c)
    /\ IsItem(item)
    /\ item[1] = c[j + 1]
    /\ j + 1 = Len(c) => item = <<c[j + 1]>> /\ e = Len(c)
    /\ Len(item) = 1 => e = j + 1 /\ (e < Len(c) /\ c[e + 1] = Dash => e + 1 = Len(c))

\* There is an item to go on with: a range if a hyphen and a byte follow.
LEMMA NextItem ==
    ASSUME NEW c \in Seq(Inner), NEW j \in Nat, j < Len(c)
    PROVE  \E item, e : ItemAt(c, item, j, e)
<1> DEFINE n == Len(c)
<1>1. n \in Nat /\ j + 1 \in 1 .. n
  OBVIOUS
<1>2. CASE j + 3 <= n /\ c[j + 2] = Dash
  <2> DEFINE item == SubSeq(c, j + 1, j + 3)
  <2>1. /\ item \in Seq(Inner) /\ Len(item) = 3
        /\ item[1] = c[j + 1] /\ item[2] = c[j + 2]
    BY <1>1, <1>2
  <2>2. IsItem(item)
    BY <1>2, <2>1 DEF IsItem, Inner
  <2>3. j + 3 \in j + 1 .. n /\ j + 1 # n
    BY <1>1, <1>2
  <2> HIDE DEF item
  <2>4. ItemAt(c, item, j, j + 3)
    BY <2>1, <2>2, <2>3 DEF ItemAt, item
  <2> QED BY <2>4
<1>3. CASE ~(j + 3 <= n /\ c[j + 2] = Dash)
  <2> DEFINE item == SubSeq(c, j + 1, j + 1)
  <2>1. /\ item \in Seq(Inner) /\ Len(item) = 1
        /\ item[1] = c[j + 1] /\ item = <<c[j + 1]>>
    <3>1. item \in Seq(Inner) /\ Len(item) = 1 /\ item[1] = c[j + 1]
      BY <1>1
    <3> HIDE DEF item
    <3> QED BY <3>1
  <2>2. IsItem(item)
    BY <2>1 DEF IsItem, Inner
  <2>3. /\ j + 1 \in j + 1 .. n /\ (j + 1) + 1 = j + 2
        /\ j + 1 < n /\ c[j + 2] = Dash => j + 2 = n
    BY <1>1, <1>3
  <2> HIDE DEF item
  <2>4. ItemAt(c, item, j, j + 1)
    BY <2>1, <2>2, <2>3 DEF ItemAt, item
  <2> QED BY <2>4
<1> QED BY <1>2, <1>3

\* One item more is read.
LEMMA ReadOn ==
    ASSUME NEW c \in Seq(Inner), NEW j \in Nat, j < Len(c), NEW items, ReadTo(c, items, j),
           NEW item, NEW e, ItemAt(c, item, j, e)
    PROVE  ReadTo(c, Append(items, item), e)
<1> DEFINE n == Len(items)
           more == Append(items, item)
<1>1. items \in Seq(Seq(Inner)) /\ item \in Seq(Inner) /\ n \in Nat
  BY DEF ReadTo, ItemAt
<1>2. /\ more \in Seq(Seq(Inner)) /\ Len(more) = n + 1
      /\ \A k \in 1 .. n : more[k] = items[k]
      /\ more[n + 1] = item
  BY <1>1
<1>3. FlattenSeq(more) = SubSeq(c, 1, e)
  <2>1. FlattenSeq(more) = FlattenSeq(items) \o item
    BY <1>1, FlattenAppend
  <2>2. /\ e \in Nat /\ j <= e /\ e <= Len(c) /\ 1 \in Nat \ {0} /\ 1 <= j + 1
        /\ item = SubSeq(c, j + 1, e)
    BY DEF ItemAt
  <2>3. Parted(Inner, c, 1, j, e)
    BY <2>2, PartsJoin
  <2> QED BY <2>1, <2>2, <2>3 DEF Parted, ReadTo
<1> HIDE DEF more
<1>4. \A k \in 1 .. n + 1 : IsItem(more[k])
  <2>1. \A k \in 1 .. n : IsItem(items[k])
    BY DEF ReadTo
  <2>2. IsItem(item)
    BY DEF ItemAt
  <2>3. \A k \in 1 .. n + 1 : k \in 1 .. n \/ k = n + 1
    BY <1>1
  <2> HIDE DEF n
  <2> QED BY <1>2, <2>1, <2>2, <2>3
<1>5. more[1][1] = c[1]
  <2>1. CASE j = 0
    <3>1. n = 0
      BY <2>1 DEF ReadTo
    <3> QED BY <1>2, <2>1, <3>1 DEF ItemAt
  <2>2. CASE j # 0
    <3>1. n # 0 /\ items[1][1] = c[1]
      BY <2>2 DEF ReadTo
    <3> HIDE DEF n
    <3>2. 1 \in 1 .. n
      BY <1>1, <3>1
    <3>3. more[1] = items[1]
      BY <1>2, <3>2
    <3> QED BY <3>1, <3>3
  <2> QED BY <2>1, <2>2
<1>6. ASSUME NEW k \in 2 .. n + 1, Len(more[k - 1]) = 1, more[k][1] = Dash
      PROVE  k = n + 1 /\ more[k] = <<Dash>> /\ e = Len(c)
  <2>1. k - 1 \in 1 .. n /\ more[k - 1] = items[k - 1]
    <3>1. k \in 2 .. n + 1 /\ n \in Nat
      BY <1>1
    <3> HIDE DEF n
    <3>2. k - 1 \in 1 .. n
      BY <3>1
    <3> QED BY <1>2, <3>2
  <2>2. CASE k \in 2 .. n
    <3>1. k \in 1 .. n
      BY <2>2
    <3>2. more[k] = items[k]
      BY <1>2, <3>1
    <3>3. j = Len(c)
      BY <1>6, <2>1, <2>2, <3>2 DEF ReadTo
    <3> QED BY <3>3
  <2>3. CASE k = n + 1
    <3>1. n # 0 /\ Len(items[n]) = 1 /\ item[1] = Dash
      BY <1>1, <1>2, <1>6, <2>1, <2>3
    <3>2. c[j + 1] = Dash /\ item[1] = c[j + 1]
      BY <3>1 DEF ItemAt
    <3>3. j + 1 = Len(c)
      BY <3>1, <3>2 DEF ReadTo
    <3>4. item = <<Dash>> /\ e = Len(c)
      BY <3>2, <3>3 DEF ItemAt
    <3> QED BY <1>2, <2>3, <3>4
  <2> QED BY <1>1, <2>2, <2>3
<1>7. e # 0 /\ n + 1 # 0 /\ e \in Nat
  BY <1>1 DEF ItemAt
<1>8. Len(item) = 1 /\ e < Len(c) /\ c[e + 1] = Dash => e + 1 = Len(c)
  BY DEF ItemAt
<1> HIDE DEF n
<1>9. ReadTo(c, more, e)
  BY <1>2, <1>3, <1>4, <1>5, <1>6, <1>7, <1>8 DEF ReadTo
<1> QED BY <1>9 DEF more

\* All of it is read as items ...
LEMMA ReadThrough ==
    ASSUME NEW c \in Seq(Inner)
    PROVE  \E items : ReadTo(c, items, Len(c))
<1> DEFINE n == Len(c)
           Reaches(i) == \E items, j : ReadTo(c, items, j) /\ j \in i .. n
           T == {i \in 0 .. n : Reaches(i)}
<1>1. n \in Nat
  OBVIOUS
<1>2. Reaches(0)
  <2> DEFINE none == <<>>
  <2>1. /\ none \in Seq(Seq(Inner)) /\ Len(none) = 0
        /\ FlattenSeq(none) = SubSeq(c, 1, 0)
    <3>1. FlattenSeq(none) = none
      BY DEF FlattenSeq
    <3>2. SubSeq(c, 1, 0) = <<>>
      OBVIOUS
    <3>3. none \in Seq(Seq(Inner)) /\ Len(none) = 0
      OBVIOUS
    <3> QED BY ONLY <3>1, <3>2, <3>3
  <2> HIDE DEF none
  <2>2. 1 .. Len(none) = {} /\ 2 .. Len(none) = {}
    BY <2>1
  <2>3. ReadTo(c, none, 0)
    BY <2>1, <2>2 DEF ReadTo
  <2>4. 0 \in 0 .. n
    BY <1>1
  <2> QED BY <2>3, <2>4
<1>3. ASSUME NEW i \in 0 .. n - 1, Reaches(i) PROVE Reaches(i + 1)
  <2>1. PICK items, j : ReadTo(c, items, j) /\ j \in i .. n
    BY <1>3
  <2>2. CASE j # i
    <3>1. j \in i + 1 .. n
      BY <1>1, <2>1, <2>2
    <3> QED BY <2>1, <3>1
  <2>3. CASE j = i
    <3>1. j \in Nat /\ j < Len(c)
      BY <1>1, <2>3
    <3>2. PICK item, e : ItemAt(c, item, j, e)
      BY <3>1, NextItem
    <3>3. ReadTo(c, Append(items, item), e)
      BY <2>1, <3>1, <3>2, ReadOn
    <3>4. e \in i + 1 .. n
      BY <2>3, <3>2 DEF ItemAt
    <3> QED BY <3>3, <3>4
  <2> QED BY <2>2, <2>3
<1> HIDE DEF Reaches
<1>4. 0 \in T /\ \A i \in 0 .. n - 1 : i \in T => i + 1 \in T
  BY <1>1, <1>2, <1>3
<1>5. n \in T
  <2>1. 0 \in Int /\ n \in Int /\ n \in 0 .. n
    BY <1>1
  <2> HIDE DEF T, n
  <2> QED BY <1>4, <2>1, IntervalInduction
<1>6. PICK items, j : ReadTo(c, items, j) /\ j \in n .. n
  BY <1>5 DEF Reaches
<1>7. j = n
  BY <1>1, <1>6
<1> QED BY <1>6, <1>7

\* ... as a class is.
LEMMA ClassItems ==
    ASSUME NEW c \in Seq(Inner), NEW mark \in {<<>>, <<Caret>>, <<Bang>>},
           mark = <<>> /\ Len(c) # 0 => c[1] \notin {Caret, Bang}
    PROVE  \E items : /\ items \in Seq(Seq(Byte)) /\ ReadAsItems(mark, items)
                      /\ FlattenSeq(items) = c
<1>1. PICK items : ReadTo(c, items, Len(c))
  BY ReadThrough
<1>2. items \in Seq(Seq(Inner)) /\ Len(items) \in Nat /\ DOMAIN items = 1 .. Len(items)
  BY <1>1 DEF ReadTo
<1>3. items \in Seq(Seq(Byte))
  <2>1. \A s \in Seq(Inner) : s \in Seq(Byte)
    BY DEF Inner
  <2>2. Seq(Inner) \subseteq Seq(Byte)
    BY <2>1
  <2> HIDE DEF Inner
  <2> QED BY <1>2, <2>2
<1>4. FlattenSeq(items) = c
  <2>1. SubSeq(c, 1, Len(c)) = c
    OBVIOUS
  <2> QED BY <1>1, <2>1 DEF ReadTo
<1>5. \A k \in DOMAIN items : IsItem(items[k])
  BY <1>1, <1>2 DEF ReadTo
<1>6. mark = <<>> /\ items # <<>> => items[1][1] \notin {Caret, Bang}
  <2>1. items # <<>> => Len(items) # 0
    BY <1>2
  <2>2. items # <<>> => Len(c) # 0 /\ items[1][1] = c[1]
    BY <1>1, <2>1 DEF ReadTo
  <2> QED BY <2>2
<1>7. \A k \in DOMAIN items \ {1} :
         Len(items[k - 1]) = 1 /\ items[k][1] = Dash => k = Len(items) /\ items[k] = <<Dash>>
  <2>1. \A k \in DOMAIN items \ {1} : k \in 2 .. Len(items)
    BY <1>2
  <2>2. \A k \in 2 .. Len(items) :
          Len(items[k - 1]) = 1 /\ items[k][1] = Dash => k = Len(items) /\ items[k] = <<Dash>>
    BY <1>1 DEF ReadTo
  <2> QED BY <2>1, <2>2
<1>8. ReadAsItems(mark, items)
  BY <1>5, <1>6, <1>7 DEF ReadAsItems
<1> QED BY <1>3, <1>4, <1>8

\* An element written from byte j + 1 to e.
ElementAt(s, x, j, e) ==
    IsElement(x) /\ e \in j + 1 .. Len(s) /\ BytesOf(x) = SubSeq(s, j + 1, e)

TornAt(s, x, j) ==
    IsTorn(x) /\ BytesOf(x) = SubSeq(s, j + 1, Len(s))

\* A part of one byte.
LEMMA OneByte ==
    ASSUME NEW S, NEW s \in Seq(S), NEW k \in 1 .. Len(s)
    PROVE  SubSeq(s, k, k) = <<s[k]>>
<1> DEFINE y == SubSeq(s, k, k)
<1>1. y \in Seq(S) /\ Len(y) = 1 /\ y[1] = s[k]
  OBVIOUS
<1> HIDE DEF y
<1>2. y = <<s[k]>>
  BY <1>1
<1> QED BY <1>2 DEF y

\* A class that is closed: up to its first "]".
LEMMA NextClass ==
    ASSUME NEW s \in Seq(Byte), NEW j \in Nat, NEW m \in Nat, j + 1 < m, m <= Len(s),
           s[j + 1] = Open, s[m] = Close, \A k \in j + 2 .. m - 1 : s[k] # Close
    PROVE  \E x : ElementAt(s, x, j, m)
<1> DEFINE negated == s[j + 2] \in {Caret, Bang}
           mark == IF negated THEN <<s[j + 2]>> ELSE <<>>
           f == IF negated THEN j + 3 ELSE j + 2
           c == SubSeq(s, f, m - 1)
<1>1. Len(s) \in Nat /\ \A k \in 1 .. Len(s) : s[k] \in Byte
  OBVIOUS
<1>2. negated => j + 2 < m
  <2>1. negated => s[j + 2] # Close
    BY DEF Caret, Bang, Close
  <2>2. j + 2 # m => j + 2 < m
    OBVIOUS
  <2> HIDE DEF negated
  <2> QED BY <2>1, <2>2
<1>3. f \in Nat /\ j + 2 <= f /\ f <= m
  <2> HIDE DEF negated
  <2> QED BY <1>2
<1>4. mark = SubSeq(s, j + 2, f - 1)
  <2>1. CASE negated
    <3>1. SubSeq(s, j + 2, (j + 3) - 1) = <<s[j + 2]>>
      <4>1. (j + 3) - 1 = j + 2 /\ j + 2 \in 1 .. Len(s)
        BY <1>1, <1>2, <2>1
      <4>2. SubSeq(s, j + 2, j + 2) = <<s[j + 2]>>
        BY <4>1, OneByte
      <4> QED BY <4>1, <4>2
    <3> QED BY <2>1, <3>1
  <2>2. CASE ~negated
    <3>1. SubSeq(s, j + 2, (j + 2) - 1) = <<>>
      OBVIOUS
    <3> QED BY <2>2, <3>1
  <2> QED BY <2>1, <2>2
<1>5. mark \in {<<>>, <<Caret>>, <<Bang>>} /\ (mark = <<>> => ~negated)
  OBVIOUS
<1>6. c \in Seq(Inner) /\ Len(c) = m - f /\ (Len(c) # 0 => c[1] = s[f])
  <2> DEFINE n == m - f
  <2>1. c = [i \in 1 .. n |-> s[f + i - 1]] /\ n \in Nat
    <3> HIDE DEF f
    <3>1. (m - 1) - f + 1 = m - f
      BY <1>3
    <3> QED BY <1>1, <1>3, <3>1
  <2>2. \A i \in 1 .. n : s[f + i - 1] \in Inner
    <3> TAKE i \in 1 .. n
    <3>1. f + i - 1 \in j + 2 .. m - 1 /\ f + i - 1 \in 1 .. Len(s)
      <4> HIDE DEF f
      <4> QED BY <1>1, <1>3
    <3> HIDE DEF f
    <3> QED BY <1>1, <3>1 DEF Inner
  <2> HIDE DEF c, n
  <2>3. c \in [1 .. n -> Inner]
    BY <2>1, <2>2
  <2>4. c \in Seq(Inner) /\ Len(c) = n
    BY <2>1, <2>3, FunctionIsSequence
  <2>5. n # 0 => c[1] = s[f]
    <3> HIDE DEF f
    <3>1. f + 1 - 1 = f
      BY <1>3
    <3>2. n # 0 => 1 \in 1 .. n
      BY <2>1
    <3> QED BY <2>1, <3>1, <3>2
  <2> QED BY <2>4, <2>5 DEF n
<1>7. mark = <<>> /\ Len(c) # 0 => c[1] \notin {Caret, Bang}
  <2>1. ~negated => f = j + 2
    OBVIOUS
  <2>2. ~negated => s[f] \notin {Caret, Bang}
    BY <2>1
  <2> HIDE DEF mark, c, f, negated
  <2> QED BY <1>5, <1>6, <2>2
<1> HIDE DEF mark, c, f, negated
<1>8. PICK items : /\ items \in Seq(Seq(Byte)) /\ ReadAsItems(mark, items)
                   /\ FlattenSeq(items) = c
  BY <1>5, <1>6, <1>7, ClassItems
<1> DEFINE x == [kind |-> "class", mark |-> mark, items |-> items]
<1>9. x.kind = "class" /\ x.mark = mark /\ x.items = items
  OBVIOUS
<1> HIDE DEF x
<1>10. IsElement(x)
  BY <1>8, <1>9 DEF IsElement
<1>11. BytesOf(x) = <<Open>> \o mark \o c \o <<Close>>
  BY <1>8, <1>9 DEF BytesOf
<1>12. SubSeq(s, j + 1, j + 1) = <<Open>> /\ SubSeq(s, (m - 1) + 1, m) = <<Close>>
  <2>1. \A k \in 1 .. Len(s) : SubSeq(s, k, k) = <<s[k]>>
    BY OneByte
  <2>2. j + 1 \in 1 .. Len(s) /\ m \in 1 .. Len(s) /\ (m - 1) + 1 = m
    BY <1>1
  <2> QED BY <2>1, <2>2
<1>13. <<Open>> \o mark = SubSeq(s, j + 1, f - 1)
  <2>1. /\ j + 1 \in Nat \ {0} /\ j + 1 \in Nat /\ f - 1 \in Nat
        /\ j + 1 <= (j + 1) + 1 /\ j + 1 <= f - 1 /\ f - 1 <= Len(s) /\ (j + 1) + 1 = j + 2
    BY <1>1, <1>3
  <2>2. Parted(Byte, s, j + 1, j + 1, f - 1)
    BY <2>1, PartsJoin
  <2> QED BY <1>4, <1>12, <2>1, <2>2 DEF Parted
<1>14. SubSeq(s, j + 1, f - 1) \o c = SubSeq(s, j + 1, m - 1)
  <2>1. /\ j + 1 \in Nat \ {0} /\ f - 1 \in Nat /\ m - 1 \in Nat
        /\ j + 1 <= (f - 1) + 1 /\ f - 1 <= m - 1 /\ m - 1 <= Len(s) /\ (f - 1) + 1 = f
    BY <1>1, <1>3
  <2>2. Parted(Byte, s, j + 1, f - 1, m - 1)
    BY <2>1, PartsJoin
  <2>3. c = SubSeq(s, f, m - 1)
    BY DEF c
  <2> QED BY <2>1, <2>2, <2>3 DEF Parted
<1>15. SubSeq(s, j + 1, m - 1) \o <<Close>> = SubSeq(s, j + 1, m)
  <2>1. /\ j + 1 \in Nat \ {0} /\ m - 1 \in Nat
        /\ j + 1 <= (m - 1) + 1 /\ m - 1 <= m /\ m <= Len(s)
    BY <1>1
  <2>2. Parted(Byte, s, j + 1, m - 1, m)
    BY <2>1, PartsJoin
  <2> QED BY <1>12, <2>2 DEF Parted
<1>16. BytesOf(x) = SubSeq(s, j + 1, m) /\ m \in j + 1 .. Len(s)
  <2>1. BytesOf(x) = SubSeq(s, j + 1, m)
    BY <1>11, <1>13, <1>14, <1>15
  <2>2. m \in j + 1 .. Len(s)
    BY <1>1
  <2> QED BY <2>1, <2>2
<1>17. ElementAt(s, x, j, m)
  BY <1>10, <1>16 DEF ElementAt
<1> QED BY <1>17

\* Whatever bytes follow, they begin with an element or are a torn end.
LEMMA NextElement ==
    ASSUME NEW s \in Seq(Byte), NEW j \in Nat, j < Len(s)
    PROVE  (\E x, e : ElementAt(s, x, j, e)) \/ (\E x : TornAt(s, x, j))
<1> DEFINE n == Len(s)
           b == s[j + 1]
<1>1. n \in Nat /\ j + 1 \in 1 .. n /\ b \in Byte
  OBVIOUS
<1>2. SubSeq(s, j + 1, j + 1) = <<b>> /\ j + 1 \in j + 1 .. n
  <2>1. SubSeq(s, j + 1, j + 1) = <<b>>
    BY <1>1, OneByte
  <2>2. j + 1 \in j + 1 .. n
    BY <1>1
  <2> QED BY <2>1, <2>2
<1> HIDE DEF n, b
<1>3. CASE b = Star
  <2> DEFINE x == [kind |-> "star"]
  <2>1. IsElement(x) /\ BytesOf(x) = <<Star>>
    BY DEF IsElement, BytesOf
  <2> HIDE DEF x
  <2>2. ElementAt(s, x, j, j + 1)
    BY <1>2, <1>3, <2>1 DEF ElementAt, n
  <2> QED BY <2>2
<1>4. CASE b = Mark
  <2> DEFINE x == [kind |-> "any"]
  <2>1. IsElement(x) /\ BytesOf(x) = <<Mark>>
    BY DEF IsElement, BytesOf
  <2> HIDE DEF x
  <2>2. ElementAt(s, x, j, j + 1)
    BY <1>2, <1>4, <2>1 DEF ElementAt, n
  <2> QED BY <2>2
<1>5. CASE b \notin {Star, Mark, Open, Slash}
  <2> DEFINE x == [kind |-> "byte", byte |-> b]
  <2>1. IsElement(x)
    BY <1>1, <1>5 DEF IsElement
  <2>2. BytesOf(x) = <<b>>
    BY DEF BytesOf
  <2> HIDE DEF x
  <2>3. ElementAt(s, x, j, j + 1)
    BY <1>2, <2>1, <2>2 DEF ElementAt, n
  <2> QED BY <2>3
<1>6. CASE b = Slash /\ j + 2 <= n
  <2> DEFINE d == s[j + 2]
             x == [kind |-> "escape", byte |-> d]
             y == SubSeq(s, j + 1, j + 2)
  <2>1. d \in Byte /\ j + 2 \in j + 1 .. n
    BY <1>6 DEF n
  <2>2. y \in Seq(Byte) /\ Len(y) = 2 /\ y[1] = b /\ y[2] = d
    BY <1>1, <1>6 DEF n, b
  <2>3. y = <<b, d>>
    <3> HIDE DEF y, d
    <3> QED BY <2>2
  <2>4. IsElement(x)
    BY <2>1 DEF IsElement
  <2>5. BytesOf(x) = <<Slash, d>>
    BY DEF BytesOf
  <2> HIDE DEF x, d
  <2>6. ElementAt(s, x, j, j + 2)
    BY <1>6, <2>1, <2>3, <2>4, <2>5 DEF ElementAt, n
  <2> QED BY <2>6
<1>7. CASE b = Slash /\ ~(j + 2 <= n)
  <2> DEFINE x == [kind |-> "slash"]
  <2>1. IsTorn(x) /\ BytesOf(x) = <<Slash>>
    BY DEF IsTorn, BytesOf
  <2>2. j + 1 = n
    BY <1>1, <1>7
  <2> HIDE DEF x
  <2>3. TornAt(s, x, j)
    BY <1>2, <1>7, <2>1, <2>2 DEF TornAt, n
  <2> QED BY <2>3
<1>8. CASE b = Open
  <2> DEFINE K == {k \in j + 2 .. n : s[k] = Close}
  <2>1. CASE K = {}
    <3> DEFINE body == SubSeq(s, (j + 1) + 1, n)
               x == [kind |-> "open", body |-> body]
    <3>1. (j + 1) + 1 = j + 2 /\ j + 1 \in Nat
      OBVIOUS
    <3>2. body \in Seq(Inner)
      <4> DEFINE l == n - (j + 1)
      <4>1. body = [i \in 1 .. l |-> s[(j + 2) + i - 1]] /\ l \in Nat
        <5>1. n - (j + 2) + 1 = n - (j + 1)
          BY <1>1
        <5> QED BY <1>1, <3>1, <5>1 DEF n
      <4>2. \A i \in 1 .. l : s[(j + 2) + i - 1] \in Inner
        <5> TAKE i \in 1 .. l
        <5>1. (j + 2) + i - 1 \in j + 2 .. n /\ (j + 2) + i - 1 \in 1 .. n
          BY <1>1
        <5>2. s[(j + 2) + i - 1] # Close
          BY <2>1, <5>1
        <5> QED BY <5>1, <5>2 DEF n, Inner
      <4> HIDE DEF body, l
      <4>3. body \in [1 .. l -> Inner]
        BY <4>1, <4>2
      <4> QED BY <4>1, <4>3, FunctionIsSequence
    <3>3. IsTorn(x)
      BY <3>2 DEF IsTorn, Inner
    <3>4. BytesOf(x) = <<Open>> \o body
      BY DEF BytesOf
    <3>5. Parted(Byte, s, j + 1, j + 1, n)
      <4>1. /\ j + 1 \in Nat \ {0} /\ j + 1 \in Nat /\ n \in Nat
            /\ j + 1 <= (j + 1) + 1 /\ j + 1 <= n /\ n <= Len(s)
        BY <1>1 DEF n
      <4> QED BY <4>1, PartsJoin
    <3> HIDE DEF x
    <3>6. BytesOf(x) = SubSeq(s, j + 1, n)
      BY <1>2, <1>8, <3>4, <3>5 DEF Parted
    <3>7. TornAt(s, x, j)
      BY <3>3, <3>6 DEF TornAt, n
    <3> QED BY <3>7
  <2>2. CASE K # {}
    <3>1. K \in SUBSET Nat
      BY <1>1
    <3>2. PICK m \in K : \A k \in K : m <= k
      <4> HIDE DEF K
      <4> QED BY <2>2, <3>1, LeastNat
    <3>3. m \in Nat /\ j + 1 < m /\ m <= Len(s) /\ s[m] = Close
      BY <1>1, <3>2 DEF n
    <3>4. \A k \in j + 2 .. m - 1 : s[k] # Close
      <4> TAKE k \in j + 2 .. m - 1
      <4>1. k \in j + 2 .. n /\ ~(m <= k)
        BY <1>1, <3>3 DEF n
      <4> QED BY <3>2, <4>1
    <3>5. \E x : ElementAt(s, x, j, m)
      BY <1>8, <3>3, <3>4, NextClass DEF b
    <3> QED BY <3>5
  <2> QED BY <2>1, <2>2
<1> QED BY <1>3, <1>4, <1>5, <1>6, <1>7, <1>8

\* The bytes of elements written one after the other: a pattern, by GlobInit.
Spelled(t) == FlattenSeq([i \in DOMAIN t |-> BytesOf(t[i])])

Elements(t) == \A k \in 1 .. Len(t) : IsElement(t[k])

\* One element more.
LEMMA SpelledOn ==
    ASSUME NEW P, NEW t \in Seq(P), Elements(t), NEW x, Shape(x)
    PROVE  Spelled(Append(t, x)) = Spelled(t) \o BytesOf(x)
<1> DEFINE n == Len(t)
           more == Append(t, x)
           written == [i \in DOMAIN t |-> BytesOf(t[i])]
<1>1. /\ n \in Nat /\ DOMAIN t = 1 .. n /\ DOMAIN more = 1 .. n + 1
      /\ \A k \in 1 .. n : more[k] = t[k]
      /\ more[n + 1] = x
  <2>1. t \in Seq(P \cup {x}) /\ x \in P \cup {x}
    OBVIOUS
  <2> QED BY <2>1
<1> HIDE DEF more, n
<1>2. \A k \in 1 .. n : BytesOf(t[k]) \in Seq(Byte)
  <2> TAKE k \in 1 .. n
  <2>1. IsElement(t[k])
    BY DEF Elements, n
  <2>2. Shape(t[k])
    BY <2>1, ElementShape
  <2> QED BY <2>2, ElementBytes
<1>3. written \in Seq(Seq(Byte)) /\ Len(written) = n
  <2>1. written \in [1 .. n -> Seq(Byte)]
    BY <1>1, <1>2
  <2> HIDE DEF written
  <2> QED BY <1>1, <2>1, FunctionIsSequence
<1>4. BytesOf(x) \in Seq(Byte)
  BY ElementBytes
<1>5. [i \in DOMAIN more |-> BytesOf(more[i])] = Append(written, BytesOf(x))
  <2> DEFINE u == [i \in DOMAIN more |-> BytesOf(more[i])]
             v == Append(written, BytesOf(x))
  <2>1. DOMAIN u = 1 .. n + 1 /\ \A k \in 1 .. n + 1 : u[k] = BytesOf(more[k])
    BY <1>1
  <2>2. \A k \in 1 .. n : written[k] = BytesOf(t[k])
    BY <1>1
  <2>3. u \in [1 .. n + 1 -> Seq(Byte)]
    <3>1. \A k \in 1 .. n + 1 : u[k] \in Seq(Byte)
      <4> TAKE k \in 1 .. n + 1
      <4>1. CASE k \in 1 .. n
        BY <1>1, <1>2, <2>1, <4>1
      <4>2. CASE k = n + 1
        BY <1>1, <1>4, <2>1, <4>2
      <4> QED BY <1>1, <4>1, <4>2
    <3>2. u = [k \in 1 .. n + 1 |-> u[k]]
      BY <2>1
    <3> HIDE DEF u
    <3> QED BY <3>1, <3>2
  <2> HIDE DEF written
  <2>4. /\ v \in Seq(Seq(Byte)) /\ Len(v) = n + 1
        /\ \A k \in 1 .. n : v[k] = written[k]
        /\ v[n + 1] = BytesOf(x)
    BY <1>3, <1>4
  <2> HIDE DEF u, v
  <2>5. ASSUME NEW k \in 1 .. n + 1 PROVE u[k] = v[k]
    <3>1. CASE k \in 1 .. n
      BY <1>1, <2>1, <2>2, <2>4, <3>1
    <3>2. CASE k = n + 1
      BY <1>1, <2>1, <2>4, <3>2
    <3> QED BY <1>1, <3>1, <3>2
  <2>6. u \in Seq(Seq(Byte)) /\ Len(u) = n + 1
    <3>1. n + 1 \in Nat
      BY <1>1
    <3> QED BY <2>3, <3>1, FunctionIsSequence
  <2>7. u = v
    <3>1. DOMAIN v = 1 .. n + 1 /\ DOMAIN u = 1 .. n + 1
      BY <2>4, <2>6
    <3>2. u = [k \in 1 .. n + 1 |-> u[k]] /\ v = [k \in 1 .. n + 1 |-> v[k]]
      BY <2>4, <2>6, <3>1
    <3> QED BY <2>5, <3>2
  <2> QED BY <2>7 DEF u, v
<1> HIDE DEF written
<1>6. FlattenSeq(Append(written, BytesOf(x))) = FlattenSeq(written) \o BytesOf(x)
  BY <1>3, <1>4, FlattenAppend
<1> QED BY <1>5, <1>6 DEF Spelled, more, written

\* The first bytes of s, as elements.
SpellsTo(s, t, j) ==
    (\E P : t \in Seq(P)) /\ Elements(t) /\ Spelled(t) = SubSeq(s, 1, j)

\* Every byte string is a pattern of elements, with or without a torn end: the
\* patterns that GlobInit makes of elements are all that a client can subscribe to.
THEOREM EveryPatternIsWritten ==
    ASSUME NEW s \in Seq(Byte)
    PROVE  \E t : /\ \E P : t \in Seq(P)
                  /\ \A k \in 1 .. Len(t) : IsElement(t[k])
                  /\ \/ s = Spelled(t)
                     \/ \E x : IsTorn(x) /\ s = Spelled(Append(t, x))
<1> DEFINE n == Len(s)
           Whole == \E t : SpellsTo(s, t, n)
           Cut == \E t, x : \E P : /\ t \in Seq(P) /\ Elements(t) /\ IsTorn(x)
                                   /\ Spelled(Append(t, x)) = s
           Reaches(i) == Cut \/ \E t, j : SpellsTo(s, t, j) /\ j \in i .. n
           T == {i \in 0 .. n : Reaches(i)}
<1>1. n \in Nat /\ SubSeq(s, 1, n) = s
  OBVIOUS
<1>2. Reaches(0)
  <2> DEFINE none == <<>>
  <2>1. none \in Seq({}) /\ Len(none) = 0 /\ DOMAIN none = {}
    OBVIOUS
  <2>2. Elements(none)
    BY <2>1 DEF Elements
  <2>3. [i \in DOMAIN none |-> BytesOf(none[i])] = none
    OBVIOUS
  <2>4. FlattenSeq(none) = none
    BY DEF FlattenSeq
  <2>5. SubSeq(s, 1, 0) = none
    OBVIOUS
  <2>6. 0 \in 0 .. n
    BY <1>1
  <2> HIDE DEF none
  <2>7. SpellsTo(s, none, 0)
    BY <2>1, <2>2, <2>3, <2>4, <2>5 DEF SpellsTo, Spelled
  <2> QED BY <2>6, <2>7
<1>3. ASSUME NEW i \in 0 .. n - 1, Reaches(i) PROVE Reaches(i + 1)
  <2>1. CASE Cut
    BY <2>1
  <2>2. ASSUME NEW t, NEW j, SpellsTo(s, t, j), j \in i .. n PROVE Reaches(i + 1)
    <3>1. CASE j # i
      <4>1. j \in i + 1 .. n
        BY <1>1, <2>2, <3>1
      <4> QED BY <2>2, <4>1
    <3>2. CASE j = i
      <4>1. j \in Nat /\ j < n /\ i < n
        BY <1>1, <3>2
      <4>2. PICK P : t \in Seq(P)
        BY <2>2 DEF SpellsTo
      <4>3. Elements(t) /\ Spelled(t) = SubSeq(s, 1, j)
        BY <2>2 DEF SpellsTo
      <4>4. ASSUME NEW x, NEW e, ElementAt(s, x, j, e) PROVE Reaches(i + 1)
        <5>1. Shape(x) /\ IsElement(x)
          BY <4>4, ElementShape DEF ElementAt
        <5>2. Spelled(Append(t, x)) = Spelled(t) \o BytesOf(x)
          BY <4>2, <4>3, <5>1, SpelledOn
        <5>3. e \in Nat /\ j <= e /\ e <= n /\ e \in i + 1 .. n
          BY <1>1, <3>2, <4>1, <4>4 DEF ElementAt
        <5>4. Parted(Byte, s, 1, j, e)
          BY <4>1, <5>3, PartsJoin
        <5>5. Spelled(Append(t, x)) = SubSeq(s, 1, e)
          BY <4>3, <4>4, <5>2, <5>4 DEF Parted, ElementAt
        <5>6. Append(t, x) \in Seq(P \cup {x}) /\ Elements(Append(t, x))
          <6> DEFINE more == Append(t, x)
          <6>1. t \in Seq(P \cup {x}) /\ x \in P \cup {x}
            BY <4>2
          <6>2. /\ more \in Seq(P \cup {x}) /\ Len(t) \in Nat /\ Len(more) = Len(t) + 1
                /\ \A k \in 1 .. Len(t) : more[k] = t[k]
                /\ more[Len(t) + 1] = x
            BY <6>1
          <6> HIDE DEF more
          <6>3. ASSUME NEW k \in 1 .. Len(more) PROVE IsElement(more[k])
            <7>1. CASE k \in 1 .. Len(t)
              BY <4>3, <6>2, <7>1 DEF Elements
            <7>2. CASE k = Len(t) + 1
              BY <5>1, <6>2, <7>2
            <7> QED BY <6>2, <7>1, <7>2
          <6>4. Elements(more)
            BY <6>3 DEF Elements
          <6> QED BY <6>2, <6>4 DEF more
        <5>7. SpellsTo(s, Append(t, x), e)
          BY <5>5, <5>6 DEF SpellsTo
        <5> QED BY <5>3, <5>7
      <4>5. ASSUME NEW x, TornAt(s, x, j) PROVE Cut
        <5>1. Shape(x) /\ IsTorn(x)
          BY <4>5, ElementShape DEF TornAt
        <5>2. Spelled(Append(t, x)) = Spelled(t) \o BytesOf(x)
          BY <4>2, <4>3, <5>1, SpelledOn
        <5>3. Parted(Byte, s, 1, j, n)
          BY <1>1, <4>1, PartsJoin
        <5>4. Spelled(Append(t, x)) = s
          BY <1>1, <4>3, <4>5, <5>2, <5>3 DEF Parted, TornAt
        <5> QED BY <4>2, <4>3, <5>1, <5>4
      <4>6. (\E x, e : ElementAt(s, x, j, e)) \/ (\E x : TornAt(s, x, j))
        BY <4>1, NextElement
      <4> HIDE DEF Cut, Reaches
      <4>7. Cut => Reaches(i + 1)
        BY DEF Reaches
      <4> QED BY <4>4, <4>5, <4>6, <4>7
    <3> QED BY <3>1, <3>2
  <2> QED BY <1>3, <2>1, <2>2
<1> HIDE DEF Reaches
<1>4. 0 \in T /\ \A i \in 0 .. n - 1 : i \in T => i + 1 \in T
  BY <1>1, <1>2, <1>3
<1>5. n \in T
  <2>1. 0 \in Int /\ n \in Int /\ n \in 0 .. n
    BY <1>1
  <2> HIDE DEF T, n
  <2> QED BY <1>4, <2>1, IntervalInduction
<1>6. Cut \/ Whole
  <2>1. Reaches(n)
    BY <1>5
  <2>2. \A j \in n .. n : j = n
    <3>1. n \in Nat
      BY <1>1
    <3> HIDE DEF n
    <3> QED BY ONLY <3>1
  <2> QED BY <2>1, <2>2 DEF Reaches
<1>7. CASE Cut
  <2>1. PICK t, x : \E P : /\ t \in Seq(P) /\ Elements(t) /\ IsTorn(x)
                           /\ Spelled(Append(t, x)) = s
    BY <1>7
  <2> QED BY <2>1 DEF Elements
<1>8. CASE Whole
  <2>1. PICK t : SpellsTo(s, t, n)
    BY <1>8
  <2> QED BY <1>1, <2>1 DEF SpellsTo, Elements
<1> QED BY <1>6, <1>7, <1>8

=============================================================================
