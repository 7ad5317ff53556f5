--------------------------- MODULE ConsumerGroups ---------------------------
(***************************************************************************)
(* One stream key and its consumer groups (the stream and consumer-group   *)
(* sections of src/store.rs; the XADD, XDEL, XACK and XCLAIM arms of       *)
(* src/scripting.rs repeat them).  Every operation runs under one          *)
(* acquisition of the write lock, so every operation is one action.  What  *)
(* makes the component hard is the sequences of operations different       *)
(* consumers produce: reads, acknowledgements, claims of another           *)
(* consumer's pending entries, trimming of entries still pending, groups   *)
(* destroyed and created again, a clock that steps back.                   *)
(*                                                                         *)
(* The fields of an entry and the delivery counts are left out: no guard   *)
(* depends on them.  A pending entry is either "old" (idle for at least    *)
(* the min-idle-time callers use) or not; TimePasses makes it old.         *)
(***************************************************************************)
EXTENDS Integers, FiniteSets

CONSTANTS
    Groups,         \* group names
    Consumers,      \* consumer names
    MaxMs,          \* the clock shows 1 .. MaxMs milliseconds
    MaxSeq,         \* stands for u64::MAX, the largest sequence number
    MaxAdds,        \* bound: entries ever added to one life of the stream
    ExplicitIds,    \* the ids callers pass to XADD instead of "*"
    Counts,         \* the COUNT arguments
    AllowForce      \* whether callers use XCLAIM ... FORCE

StreamId == (0 .. MaxMs) \X (0 .. MaxSeq)

ASSUME ConstantsAssumption ==
    /\ MaxMs \in Nat \ {0}
    /\ MaxSeq \in Nat \ {0}
    /\ MaxAdds \in Nat
    /\ ExplicitIds \subseteq StreamId
    /\ Counts \subseteq Nat \ {0}
    /\ AllowForce \in BOOLEAN

VARIABLES
    exists,     \* the key holds a stream
    entries,    \* Stream.entries, the ids only
    lastId,     \* Stream.last_id
    groups,     \* the keys of Stream.groups
    delivered,  \* ConsumerGroup.last_delivered_id
    pel,        \* Consumer.pending: group -> consumer -> ids
    old,        \* the pending ids whose delivery_time is long ago
    added,      \* history: ids ever inserted into this stream
    start,      \* history: the id each group was created with
    seen,       \* history: the ids each group has delivered with ">"
    acked,      \* history: the ids XACK has counted in each group
    cursor,     \* the next_start_id a client paging with XAUTOCLAIM holds
    due         \* history: the old entries that scan has yet to claim

stream  == <<exists, entries, lastId, added>>
state   == <<groups, delivered, pel, old>>
history == <<start, seen, acked>>
scan    == <<cursor, due>>
vars    == <<stream, state, history, scan>>

\* Tuples of u64 compare lexicographically.
Before(a, b) == a[1] < b[1] \/ (a[1] = b[1] /\ a[2] < b[2])
AtMost(a, b) == a = b \/ Before(a, b)

Zero == <<0, 0>>

\* The first n ids of a set: what .take(n) of a BTreeMap range yields.
First(ids, n) == {i \in ids : Cardinality({j \in ids : Before(j, i)}) < n}

NoPending == [c \in Consumers |-> {}]

Pending(g) == UNION {pel[g][c] : c \in Consumers}

Holders(g, id) == {c \in Consumers : id \in pel[g][c]}

-----------------------------------------------------------------------------
(* The stream. *)

\* An id taken straight from the clock.
AutoIdFromClock(ms) == <<ms, 0>>

\* xadd with "*": a millisecond later than the last id starts at 0, otherwise
\* the sequence number is incremented, in u64 arithmetic.
AutoId(ms) ==
    IF ms > lastId[1] THEN <<ms, 0>>
                      ELSE <<lastId[1], (lastId[2] + 1) % (MaxSeq + 1)>>

Insert(id) ==
    /\ Cardinality(added) < MaxAdds
    /\ exists' = TRUE
    /\ entries' = entries \union {id}
    /\ lastId' = id
    /\ added' = added \union {id}
    /\ UNCHANGED <<state, history, scan>>

XAddAuto == \E ms \in 1 .. MaxMs : Insert(AutoId(ms))

\* An explicit id must be greater than last_id; one that is not is refused
\* after or_insert_with has already created the stream.
XAddExplicit ==
    \E id \in ExplicitIds :
        \/ Before(lastId, id) /\ Insert(id)
        \/ /\ ~ Before(lastId, id)
           /\ exists' = TRUE
           /\ UNCHANGED <<entries, lastId, added, state, history, scan>>

\* xtrim: MAXLEN drops the smallest ids, MINID those below the given id.
XTrim ==
    /\ exists
    /\ \/ \E max \in Counts \union {0} :
            entries' = {i \in entries :
                          Cardinality({j \in entries : Before(i, j)}) < max}
       \/ \E min \in entries :
            entries' = {i \in entries : ~ Before(i, min)}
    /\ UNCHANGED <<exists, lastId, added, state, history, scan>>

XDel ==
    /\ exists
    /\ \E ids \in SUBSET entries : entries' = entries \ ids
    /\ UNCHANGED <<exists, lastId, added, state, history, scan>>

\* DEL, SET, or the expiry of the key: the stream goes with its groups.
KeyGone ==
    /\ exists
    /\ exists' = FALSE
    /\ entries' = {}
    /\ lastId' = Zero
    /\ added' = {}
    /\ groups' = {}
    /\ delivered' = [g \in Groups |-> Zero]
    /\ pel' = [g \in Groups |-> NoPending]
    /\ old' = [g \in Groups |-> NoPending]
    /\ start' = [g \in Groups |-> Zero]
    /\ seen' = [g \in Groups |-> {}]
    /\ acked' = [g \in Groups |-> {}]
    /\ cursor' = [g \in Groups |-> Zero]
    /\ due' = [g \in Groups |-> {}]

-----------------------------------------------------------------------------
(* Consumer groups. *)

\* A new ConsumerGroup, with no consumers, in place of whatever was there.
Fresh(g, id) ==
    /\ delivered' = [delivered EXCEPT ![g] = id]
    /\ pel' = [pel EXCEPT ![g] = NoPending]
    /\ old' = [old EXCEPT ![g] = NoPending]

Forget(g, id) ==
    /\ start' = [start EXCEPT ![g] = id]
    /\ seen' = [seen EXCEPT ![g] = {}]
    /\ acked' = [acked EXCEPT ![g] = {}]
    /\ cursor' = [cursor EXCEPT ![g] = Zero]
    /\ due' = [due EXCEPT ![g] = {}]

\* xgroup_create: "$" (the sentinel) resolves to last_id; MKSTREAM creates a
\* missing stream (without it the call is refused); an existing group is
\* BUSYGROUP.
XGroupCreate(g) ==
    /\ g \notin groups
    /\ exists' = TRUE
    /\ groups' = groups \union {g}
    /\ \E id \in {Zero, lastId} \union ExplicitIds :
            Fresh(g, id) /\ Forget(g, id)
    /\ UNCHANGED <<entries, lastId, added>>

XGroupDestroy(g) ==
    /\ g \in groups
    /\ groups' = groups \ {g}
    /\ Fresh(g, Zero)
    /\ Forget(g, Zero)
    /\ UNCHANGED stream

\* XREADGROUP ... >: the first COUNT entries past last_delivered_id go to the
\* consumer's PEL, and last_delivered_id ends on the last of them.
Undelivered(g) == {i \in entries : Before(delivered[g], i)}

Deliver(g, c, batch, upTo) ==
    /\ delivered' = [delivered EXCEPT ![g] = upTo]
    /\ pel' = [pel EXCEPT ![g][c] = @ \union batch]
    /\ old' = [old EXCEPT ![g][c] = @ \ batch]
    /\ seen' = [seen EXCEPT ![g] = @ \union batch]
    /\ UNCHANGED <<stream, groups, start, acked, scan>>

\* Moves the cursor to the end of the stream whatever COUNT was.
XReadGroupSkips(g, c) ==
    /\ g \in groups
    /\ \E n \in Counts :
            /\ Undelivered(g) # {}
            /\ Deliver(g, c, First(Undelivered(g), n), lastId)

\* Reads from last_delivered_id itself.
XReadGroupInclusive(g, c) ==
    /\ g \in groups
    /\ \E n \in Counts :
       \E last \in First({i \in entries : AtMost(delivered[g], i)}, n) :
            LET batch == First({i \in entries : AtMost(delivered[g], i)}, n)
            IN  (\A i \in batch : AtMost(i, last)) /\ Deliver(g, c, batch, last)

XReadGroup(g, c) ==
    /\ g \in groups
    /\ \E n \in Counts : \E last \in First(Undelivered(g), n) :
            /\ \A i \in First(Undelivered(g), n) : AtMost(i, last)
            /\ Deliver(g, c, First(Undelivered(g), n), last)

\* xack: each id leaves the first PEL that holds it, in HashMap order.
XAck(g) ==
    /\ g \in groups
    /\ \E ids \in SUBSET Pending(g) : \E from \in [ids -> Consumers] :
            /\ \A i \in ids : from[i] \in Holders(g, i)
            /\ pel' = [pel EXCEPT ![g] =
                  [c \in Consumers |-> pel[g][c] \ {i \in ids : from[i] = c}]]
            /\ old' = [old EXCEPT ![g] =
                  [c \in Consumers |-> old[g][c] \ {i \in ids : from[i] = c}]]
            /\ acked' = [acked EXCEPT ![g] = @ \union ids]
            /\ due' = [due EXCEPT ![g] = @ \ ids]
    /\ UNCHANGED <<stream, groups, delivered, start, seen, cursor>>

-----------------------------------------------------------------------------
(* Claims. *)

\* xautoclaim: the pending entries of every consumer that are idle enough and
\* not before `from`, sorted by id (ties in HashMap order), the first COUNT of
\* them moved to the claiming consumer with a fresh delivery time, whether or
\* not they are still in the stream.
Qualifying(g, from, minIdle) ==
    {p \in StreamId \X Consumers :
        /\ p[1] \in pel[g][p[2]]
        /\ AtMost(from, p[1])
        /\ minIdle => p[1] \in old[g][p[2]]}

FirstPairs(pairs, n) ==
    {some \in SUBSET pairs :
        /\ Cardinality(some) <= n
        /\ some # pairs => Cardinality(some) = n
        /\ \A p \in some, q \in pairs \ some : AtMost(p[1], q[1])}

IdsOf(pairs) == {p[1] : p \in pairs}

AllOld(g) == UNION {old[g][c] : c \in Consumers}

Transfer(g, to, claimed, kept) ==
    LET Taken(c) == {i \in StreamId : <<i, c>> \in claimed} IN
    /\ pel' = [pel EXCEPT ![g] = [c \in Consumers |->
          (pel[g][c] \ Taken(c)) \union (IF c = to THEN kept ELSE {})]]
    /\ old' = [old EXCEPT ![g] = [c \in Consumers |->
          (old[g][c] \ Taken(c)) \ (IF c = to THEN kept ELSE {})]]

\* The last entry left out instead of the first.
NextStartTooFar(rest, next) ==
    IF rest = {} THEN next = Zero
    ELSE next \in IdsOf(rest) /\ \A i \in IdsOf(rest) : AtMost(i, next)

\* next_start_id: the first entry left out, or 0-0 when none is.
NextStart(rest, next) ==
    IF rest = {} THEN next = Zero
    ELSE next \in IdsOf(rest) /\ \A i \in IdsOf(rest) : AtMost(next, i)

\* A client pages through the group: a call from 0-0 begins a scan, and each
\* further call passes the next_start_id of the one before.
XAutoClaim(g, to) ==
    /\ g \in groups
    /\ \E minIdle \in BOOLEAN, n \in Counts, from \in {Zero, cursor[g]} :
       \E claimed \in FirstPairs(Qualifying(g, from, minIdle), n) :
            /\ Transfer(g, to, claimed, IdsOf(claimed))
            /\ \E next \in StreamId :
                  /\ NextStart(Qualifying(g, from, minIdle) \ claimed, next)
                  /\ cursor' = [cursor EXCEPT ![g] = next]
            /\ due' = [due EXCEPT ![g] =
                  (IF from = Zero THEN AllOld(g) ELSE @) \ IdsOf(claimed)]
    /\ UNCHANGED <<stream, groups, delivered, history>>

\* xclaim: each id is looked up in the first PEL that holds it (`from`); it
\* moves when it is idle enough or FORCE is given.  An id no PEL holds is put
\* into the claimer's PEL under FORCE if the stream has it.  IDLE sets how
\* long ago the delivery was; without it a moved entry keeps its time.
Moves(g, ids, from, minIdle, force) ==
    {i \in ids \intersect Pending(g) :
        force \/ (minIdle => i \in old[g][from[i]])}

Forced(g, ids, force) ==
    {i \in ids \intersect entries : force /\ i \notin Pending(g)}

BecomesOld(g, i, from, idle) ==
    CASE idle = "None"  -> i \in Pending(g) /\ i \in old[g][from[i]]
      [] idle = "Short" -> FALSE
      [] idle = "Long"  -> TRUE

XClaim(g, to) ==
    /\ g \in groups
    /\ \E ids \in SUBSET (Pending(g) \union entries), minIdle \in BOOLEAN,
          force \in {FALSE, AllowForce}, idle \in {"None", "Short", "Long"} :
       \E from \in [ids -> Consumers] :
            LET moved == Moves(g, ids, from, minIdle, force)
                new   == moved \union Forced(g, ids, force)
                Left(c) == {i \in moved : from[i] = c}
            IN
            /\ \A i \in ids \intersect Pending(g) : from[i] \in Holders(g, i)
            /\ pel' = [pel EXCEPT ![g] = [c \in Consumers |->
                  (pel[g][c] \ Left(c)) \union (IF c = to THEN new ELSE {})]]
            /\ old' = [old EXCEPT ![g] = [c \in Consumers |->
                  IF c = to
                  THEN (old[g][c] \ (Left(c) \union new))
                          \union {i \in new : BecomesOld(g, i, from, idle)}
                  ELSE old[g][c] \ Left(c)]]
            /\ due' = [due EXCEPT ![g] = @ \ moved]
    /\ UNCHANGED <<stream, groups, delivered, history, cursor>>

\* Time: every pending entry has been idle for long.
TimePasses ==
    /\ old' = pel
    /\ UNCHANGED <<stream, groups, delivered, pel, history, scan>>

-----------------------------------------------------------------------------
Init ==
    /\ exists = FALSE
    /\ entries = {}
    /\ lastId = Zero
    /\ groups = {}
    /\ delivered = [g \in Groups |-> Zero]
    /\ pel = [g \in Groups |-> NoPending]
    /\ old = [g \in Groups |-> NoPending]
    /\ added = {}
    /\ start = [g \in Groups |-> Zero]
    /\ seen = [g \in Groups |-> {}]
    /\ acked = [g \in Groups |-> {}]
    /\ cursor = [g \in Groups |-> Zero]
    /\ due = [g \in Groups |-> {}]

GroupStep(g) ==
    \/ XGroupCreate(g)
    \/ XGroupDestroy(g)
    \/ XAck(g)
    \/ \E c \in Consumers : XReadGroup(g, c) \/ XAutoClaim(g, c) \/ XClaim(g, c)

Next ==
    \/ XAddAuto
    \/ XAddExplicit
    \/ XTrim
    \/ XDel
    \/ KeyGone
    \/ TimePasses
    \/ \E g \in Groups : GroupStep(g)

Spec == Init /\ [][Next]_vars

-----------------------------------------------------------------------------
(* Properties. *)

\* The types; only a stream that exists has entries and groups, and only a
\* pending entry can be an old one.
TypeOK ==
    /\ exists \in BOOLEAN
    /\ entries \subseteq StreamId
    /\ lastId \in StreamId
    /\ groups \subseteq Groups
    /\ delivered \in [Groups -> StreamId]
    /\ pel \in [Groups -> [Consumers -> SUBSET StreamId]]
    /\ old \in [Groups -> [Consumers -> SUBSET StreamId]]
    /\ added \subseteq StreamId
    /\ start \in [Groups -> StreamId]
    /\ seen \in [Groups -> SUBSET StreamId]
    /\ acked \in [Groups -> SUBSET StreamId]
    /\ cursor \in [Groups -> StreamId]
    /\ due \in [Groups -> SUBSET StreamId]
    /\ exists \/ (entries = {} /\ groups = {})
    /\ \A g \in Groups, c \in Consumers : old[g][c] \subseteq pel[g][c]

\* An id is pending for at most one consumer of a group (the assumption xack
\* relies on when it stops at the first PEL that holds an id).
OnePelOnly ==
    \A g \in Groups, c, d \in Consumers :
        c # d => pel[g][c] \intersect pel[g][d] = {}

\* At least once: an entry a group has delivered stays in somebody's PEL until
\* an XACK has counted it, whatever is trimmed, deleted or claimed meanwhile.
PendingUntilAcked ==
    \A g \in Groups : seen[g] \subseteq acked[g] \union Pending(g)

\* An acknowledged entry is nobody's business any more: it is in no PEL, so it
\* is neither returned by a pending read nor claimed again.
AckedIsGone ==
    \A g \in Groups : acked[g] \intersect Pending(g) = {}

\* last_delivered_id never passes an entry that no consumer was given.
NoEntrySkipped ==
    \A g \in groups : \A i \in entries :
        Before(start[g], i) /\ AtMost(i, delivered[g]) => i \in seen[g]

\* Paging with XAUTOCLAIM: when the returned cursor is 0-0 again, every entry
\* that was idle when the scan began has been claimed by the scan, or was
\* acknowledged or claimed by somebody else in between.
ScanClaimsAllIdle ==
    \A g \in Groups : cursor[g] = Zero => due[g] = {}

\* last_id never goes back while the stream lives, even when the clock does:
\* an id is never handed out twice (doc of xadd: "Auto-generates a monotonic
\* ID").
LastIdMonotone ==
    [][exists /\ exists' => AtMost(lastId, lastId')]_vars

\* What the groups come to for their users: who holds each entry, and which
\* entries are done.
HeldBy == [g \in Groups |-> [i \in StreamId |-> Holders(g, i)]]

Queue == INSTANCE WorkQueue WITH
    Workers <- Consumers,
    Jobs    <- StreamId,
    holders <- HeldBy,
    done    <- acked

\* The groups implement a queue that hands an entry to one consumer once, has it
\* with one consumer until XACK, and never hands out or claims it afterwards.
ImplementsQueue == Queue!Spec

=============================================================================
