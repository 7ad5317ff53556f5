------------------------------ MODULE Keyspace ------------------------------
(***************************************************************************)
(* The data map of src/store.rs seen as a whole: strings, hashes, sets and *)
(* sorted sets, their expiry (passive, by the command that meets an        *)
(* expired key, and active, by the background sweep) and the commands that *)
(* create and remove keys.  Lists and streams are opaque here; the modules *)
(* BlockingLists and ConsumerGroups look into them.                        *)
(*                                                                         *)
(* A command holds the data lock for its whole effect and is one action,   *)
(* except GET, which takes the lock twice.  The sweep and a blocked BLMOVE *)
(* that comes to its end are tokio tasks: they need the lock, not the GIL, *)
(* and so can run between the two halves of a GET.                         *)
(*                                                                         *)
(* A hash is the set of its fields and a set the set of its members: no    *)
(* guard looks at the values, apart from HINCRBY's refusals, which change  *)
(* nothing.                                                                *)
(*                                                                         *)
(* Next to the store runs, as history, the value that Redis would have at  *)
(* each key after the same commands (RedisKeys).                           *)
(***************************************************************************)
EXTENDS Integers, FiniteSets

CONSTANTS
    Keys,         \* the keys
    Items,        \* hash fields, set members and sorted-set members
    MaxScore,     \* scores are 1 .. MaxScore
    SweepLimit,   \* how many keys with a TTL one sweep looks at (20)
    Malformed     \* whether callers pass HSET and SADD nothing to add, and
                  \* ZADD, in a script, a score that is not a number

ASSUME ConstantsAssumption ==
    /\ IsFiniteSet(Keys)
    /\ MaxScore \in Nat \ {0}
    /\ SweepLimit \in Nat \ {0}
    /\ Malformed \in BOOLEAN

VARIABLES
    db,        \* Store::data
    order,     \* the order in which the HashMap iterates over its keys
    getting,   \* the key that a GET has found expired and is about to remove
    redis      \* history: the values of the keys in Redis

vars == <<db, order, getting, redis>>

Redis == INSTANCE RedisKeys

-----------------------------------------------------------------------------
(* Entries *)

NoScore == 0
Scores  == 1 .. MaxScore
Scoring == [Items -> Scores \union {NoScore}]
NoScores == [i \in Items |-> NoScore]

Kinds == {"absent", "string", "hash", "set", "zset", "list", "stream"}
Ttls  == {"none", "running", "past"}

\* A sorted set has two indexes: by_member maps a member to its score and
\* by_score orders the (score, member) pairs.
Entry == [kind : Kinds, items : SUBSET Items, byMember : Scoring,
          byScore : SUBSET (Scores \X Items), ttl : Ttls]

\* ValueEntry::new_hash, new_set, new_sorted_set, ...: empty and without a TTL.
New(kind) == [kind |-> kind, items |-> {}, byMember |-> NoScores,
              byScore |-> {}, ttl |-> "none"]

Absent == New("absent")

Expired(e) == e.ttl = "past"
Live(e) == e.kind # "absent" /\ ~Expired(e)

\* The passive expiration a command starts with.
Purged(e) == IF Expired(e) THEN Absent ELSE e

OrNew(e, kind) == IF e.kind = "absent" THEN New(kind) ELSE e

EmptyCollection(e) ==
    \/ e.kind \in {"hash", "set"} /\ e.items = {}
    \/ e.kind = "zset" /\ e.byMember = NoScores

\* remove_if_empty.
RemoveIfEmpty(e) == IF EmptyCollection(e) THEN Absent ELSE e

-----------------------------------------------------------------------------
(* Hashes and sets *)

\* Without the passive expiration.
AddedWithoutPurge(e, kind, new) ==
    LET n == OrNew(e, kind)
    IN  IF n.kind = kind THEN [n EXCEPT !.items = @ \union new] ELSE n

\* hset, hincrby and sadd.
Added(e, kind, new) ==
    LET n == OrNew(Purged(e), kind)
    IN  IF n.kind = kind THEN [n EXCEPT !.items = @ \union new] ELSE n

\* Leaves the empty collection.
RemovedKeepingKey(e, kind, gone) ==
    LET p == Purged(e)
    IN  IF p.kind = kind THEN [p EXCEPT !.items = @ \ gone] ELSE p

\* hdel and srem.
Removed(e, kind, gone) ==
    LET p == Purged(e)
    IN  RemoveIfEmpty(IF p.kind = kind THEN [p EXCEPT !.items = @ \ gone] ELSE p)

-----------------------------------------------------------------------------
(* Sorted sets *)

\* Does not take the member's old pair out of by_score.
ZInsertKeepsOldPair(e, score, members) ==
    [e EXCEPT
        !.byScore = @ \union {<<score[i], i>> : i \in members},
        !.byMember = [i \in Items |-> IF i \in members THEN score[i] ELSE @[i]]]

\* SortedSet::insert of each of the members.
ZInsert(e, score, members) ==
    [e EXCEPT
        !.byScore = (@ \ {<<e.byMember[i], i>> : i \in members})
                       \union {<<score[i], i>> : i \in members},
        !.byMember = [i \in Items |-> IF i \in members THEN score[i] ELSE @[i]]]

\* SortedSet::remove of each of the members.
ZDrop(e, members) ==
    [e EXCEPT
        !.byScore = @ \ {<<e.byMember[i], i>> : i \in members},
        !.byMember = [i \in Items |-> IF i \in members THEN NoScore ELSE @[i]]]

\* by_score.range((min, ..)).take_while(score <= max).
InRange(e, min, max) ==
    {i \in Items : \E s \in Scores : <<s, i>> \in e.byScore /\ min <= s /\ s <= max}

\* The members a ZADD of `score` (NoScore: not named) writes under its flags.
Accepted(e, score, flags) ==
    {i \in Items :
        /\ score[i] # NoScore
        /\ IF e.byMember[i] = NoScore
           THEN "XX" \notin flags
           ELSE /\ "NX" \notin flags
                /\ "GT" \in flags => score[i] > e.byMember[i]
                /\ "LT" \in flags => score[i] < e.byMember[i]
                /\ score[i] # e.byMember[i]}

ZAdded(e, score, flags) ==
    LET n == OrNew(Purged(e), "zset")
    IN  RemoveIfEmpty(IF n.kind = "zset"
                      THEN ZInsert(n, score, Accepted(n, score, flags)) ELSE n)

\* ZADD in a script: no flags and no remove_if_empty.
ScriptZAdded(e, score) ==
    LET n == OrNew(Purged(e), "zset")
    IN  IF n.kind = "zset"
        THEN ZInsert(n, score, {i \in Items : score[i] # NoScore}) ELSE n

ZRemoved(e, members) ==
    LET p == Purged(e)
    IN  RemoveIfEmpty(IF p.kind = "zset" THEN ZDrop(p, members) ELSE p)

ZRangeRemoved(e, min, max) == ZRemoved(e, InRange(Purged(e), min, max))

\* The new sorted set that ZRANGESTORE puts at its destination, with the scores
\* it finds in by_score.
ZStored(e, min, max) ==
    LET Pairs(i) == {s \in min .. max : <<s, i>> \in e.byScore}
        score == [i \in Items |-> CHOOSE s \in Pairs(i) : \A t \in Pairs(i) : t <= s]
    IN  IF InRange(e, min, max) = {} THEN Absent
        ELSE ZInsert(New("zset"), score, InRange(e, min, max))

-----------------------------------------------------------------------------
(* The HashMap *)

Positions == 1 .. Cardinality(Keys)

Orders == {f \in [Positions -> Keys] : \A i, j \in Positions : f[i] = f[j] => i = j}

\* Inserting a key may make the map grow, which puts its keys in a new order.
Reordered(d) ==
    \/ UNCHANGED order
    \/ /\ \E k \in Keys : db[k].kind = "absent" /\ d[k].kind # "absent"
       /\ order' \in Orders

\* A command of the Python thread, which is not in the middle of a GET; `r` is
\* what Redis has after it.
Write(d, r) ==
    /\ getting = {}
    /\ db' = d
    /\ redis' = r
    /\ Reordered(d)
    /\ UNCHANGED getting

Update(k, e, v) == Write([db EXCEPT ![k] = e], [redis EXCEPT ![k] = v])

-----------------------------------------------------------------------------
(* Commands *)

HSet(k, fields) ==
    /\ fields # {} \/ Malformed
    /\ Update(k, Added(db[k], "hash", fields), Redis!Add(redis[k], "hash", fields))

\* A value that is not an integer, or a sum out of the range of i64, is refused
\* when the hash is already there.
HIncrBy(k, field) ==
    \/ Update(k, Added(db[k], "hash", {field}), Redis!Add(redis[k], "hash", {field}))
    \/ field \in Purged(db[k]).items /\ Update(k, db[k], redis[k])

HDel(k, fields) ==
    Update(k, Removed(db[k], "hash", fields), Redis!Remove(redis[k], "hash", fields))

SAdd(k, members) ==
    /\ members # {} \/ Malformed
    /\ Update(k, Added(db[k], "set", members), Redis!Add(redis[k], "set", members))

SRem(k, members) ==
    Update(k, Removed(db[k], "set", members), Redis!Remove(redis[k], "set", members))

ZAdd(k, score, flags) ==
    Update(k, ZAdded(db[k], score, flags), Redis!ZAdd(redis[k], score, flags))

\* A score that is not a number stops the command after the pairs in front of
\* it have been inserted: none, if it comes first.
ScriptZAdd(k, score) ==
    /\ score # NoScores \/ Malformed
    /\ Update(k, ScriptZAdded(db[k], score), Redis!ZAdd(redis[k], score, {}))

ZRem(k, members) ==
    Update(k, ZRemoved(db[k], members), Redis!Remove(redis[k], "zset", members))

ZRemRangeByScore(k, min, max) ==
    Update(k, ZRangeRemoved(db[k], min, max), Redis!ZRemRangeByScore(redis[k], min, max))

ZRangeStore(dst, src, min, max) ==
    LET p == Purged(db[src])
        d == [db EXCEPT ![src] = p]
        r == [redis EXCEPT ![dst] = Redis!ZRangeStore(redis[dst], redis[src], min, max)]
    IN  \/ p.kind \notin {"absent", "zset"} /\ Write(d, r)
        \/ p.kind \in {"absent", "zset"} /\ Write([d EXCEPT ![dst] = ZStored(p, min, max)], r)

\* A TTL of zero has run out when the command returns.
Set(k, mode, ttl) ==
    /\ mode = "NX" => ~Live(db[k])
    /\ mode = "XX" => Live(db[k])
    /\ Update(k, [New("string") EXCEPT !.ttl = ttl], Redis!Set(redis[k], mode, ttl))

\* LPUSH, RPUSH, XADD, XGROUP CREATE MKSTREAM: a new key, or no change to what
\* is visible here.
Grow(k, kind) == Update(k, OrNew(Purged(db[k]), kind), Redis!Grow(redis[k], kind))

\* DEL of several keys; EXPIRE with a time of zero or less, and LPOP, LTRIM, ...
\* of a whole list, remove one.
Del(ks) ==
    Write([k \in Keys |-> IF k \in ks THEN Absent ELSE db[k]],
          [k \in Keys |-> IF k \in ks THEN Redis!Nothing ELSE redis[k]])

Expire(k) ==
    LET p == Purged(db[k])
    IN  Update(k, IF p.kind = "absent" THEN p ELSE [p EXCEPT !.ttl = "running"],
               Redis!Expire(redis[k]))

\* The other commands, which read: passive expiration only.
Touch(k) == Update(k, Purged(db[k]), redis[k])

\* GET looks at the entry under a read lock, and lets it go.
GetReads(k) ==
    /\ getting = {}
    /\ Expired(db[k])
    /\ getting' = {k}
    /\ UNCHANGED <<db, order, redis>>

\* Removes what it finds, without looking at it again.
GetRemovesBlindly ==
    /\ getting # {}
    /\ db' = [k \in Keys |-> IF k \in getting THEN Absent ELSE db[k]]
    /\ getting' = {}
    /\ UNCHANGED <<order, redis>>

\* Then it takes the write lock and removes the entry if it still is expired.
GetRemoves ==
    /\ getting # {}
    /\ db' = [k \in Keys |-> IF k \in getting THEN Purged(db[k]) ELSE db[k]]
    /\ getting' = {}
    /\ UNCHANGED <<order, redis>>

-----------------------------------------------------------------------------
(* Tokio tasks, and time *)

HasTtl(k) == db[k].ttl # "none"

\* Stops one key short of the limit.
SweptOneShort ==
    {order[i] : i \in {j \in Positions :
        /\ HasTtl(order[j])
        /\ Cardinality({h \in Positions : h < j /\ HasTtl(order[h])}) < SweepLimit - 1}}

\* sweep_expired stops once it has looked at SweepLimit keys with a TTL.
Swept ==
    {order[i] : i \in {j \in Positions :
        /\ HasTtl(order[j])
        /\ Cardinality({h \in Positions : h < j /\ HasTtl(order[h])}) < SweepLimit}}

Sweep ==
    /\ db' = [k \in Keys |-> IF k \in Swept THEN Purged(db[k]) ELSE db[k]]
    /\ UNCHANGED <<order, getting, redis>>

\* A blocked BLMOVE finds an element and pushes it on its destination, unless
\* that holds another type.
TaskPushes(k) ==
    LET d == [db EXCEPT ![k] = OrNew(Purged(db[k]), "list")]
    IN  /\ db' = d
        /\ redis' = [redis EXCEPT ![k] = Redis!Grow(@, "list")]
        /\ Reordered(d)
        /\ UNCHANGED getting

\* A TTL ends: the entry stays until somebody meets it, the value is gone.
TimePasses(k) ==
    /\ db[k].ttl = "running"
    /\ db' = [db EXCEPT ![k].ttl = "past"]
    /\ redis' = [redis EXCEPT ![k] = Redis!Nothing]
    /\ UNCHANGED <<order, getting>>

-----------------------------------------------------------------------------

Init ==
    /\ db = [k \in Keys |-> Absent]
    /\ order \in Orders
    /\ getting = {}
    /\ redis = [k \in Keys |-> Redis!Nothing]

Flags == {{}, {"NX"}, {"XX"}, {"GT"}, {"LT"}, {"XX", "GT"}, {"XX", "LT"}, {"GT", "LT"}}

Command(k) ==
    \/ \E some \in SUBSET Items : HSet(k, some)
    \/ \E some \in SUBSET Items : HDel(k, some)
    \/ \E i \in Items : HIncrBy(k, i)
    \/ \E some \in SUBSET Items : SAdd(k, some)
    \/ \E some \in SUBSET Items : SRem(k, some)
    \/ \E score \in Scoring, flags \in Flags : ZAdd(k, score, flags)
    \/ \E score \in Scoring : ScriptZAdd(k, score)
    \/ \E some \in SUBSET Items : ZRem(k, some)
    \/ \E min, max \in Scores : ZRemRangeByScore(k, min, max)
    \/ \E src \in Keys, min, max \in Scores : ZRangeStore(k, src, min, max)
    \/ \E mode \in {"any", "NX", "XX"}, ttl \in Ttls : Set(k, mode, ttl)
    \/ \E kind \in {"list", "stream"} : Grow(k, kind)
    \/ Expire(k)
    \/ Touch(k)
    \/ GetReads(k)

Next ==
    \/ \E k \in Keys : Command(k)
    \/ \E ks \in SUBSET Keys : Del(ks)
    \/ GetRemoves
    \/ Sweep
    \/ \E k \in Keys : TaskPushes(k)
    \/ \E k \in Keys : TimePasses(k)

Spec == Init /\ [][Next]_vars

\* The sweep runs every 100 ms, and a GET runs to its end.
FairSpec == Spec /\ WF_vars(Sweep) /\ WF_vars(GetRemoves)

-----------------------------------------------------------------------------
(* Properties *)

\* The types; only hashes and sets have items, only sorted sets have scores.
TypeOK ==
    /\ db \in [Keys -> Entry]
    /\ order \in Orders
    /\ getting \subseteq Keys
    /\ redis \in [Keys -> Redis!Value]
    /\ \A k \in Keys :
        /\ db[k].kind \notin {"hash", "set"} => db[k].items = {}
        /\ db[k].kind # "zset" => db[k].byMember = NoScores /\ db[k].byScore = {}
        /\ db[k].kind = "absent" => db[k].ttl = "none"

\* The two indexes of a sorted set hold the same pairs, whatever sequence of
\* ZADD (every flag), ZREM, ZREMRANGEBYSCORE and ZRANGESTORE built them: a member
\* whose score changed has no stale pair in by_score, and a range query and
\* ZSCORE agree.
IndexesAgree ==
    \A k \in Keys : \A i \in Items, s \in Scores :
        <<s, i>> \in db[k].byScore <=> db[k].byMember[i] = s

\* "Redis never keeps an empty hash, set, sorted set or list: the key goes with
\* its last element" (comment of remove_if_empty).
NoEmptyCollection == \A k \in Keys : ~EmptyCollection(db[k])

\* What a client can see of an entry: nothing, once its TTL has ended.
View(e) ==
    IF ~Live(e) THEN Redis!Nothing
    ELSE [kind |-> e.kind,
          held |-> IF e.kind = "zset" THEN e.byMember
                   ELSE [i \in Items |-> IF i \in e.items THEN 1 ELSE NoScore],
          ttl  |-> e.ttl]

\* Every key shows the value Redis would have there after the same commands, in
\* whatever order they, the sweep, the tasks and the ends of TTLs came: an entry
\* that had expired and was still there has neither given its type, items or TTL
\* to a later value nor swallowed one, an emptied key is missing, and no write is
\* lost between the two locks of a GET.
HoldsWhatRedisHolds == \A k \in Keys : redis[k] = View(db[k])

\* A GET that found its key expired does not remove what somebody else (a BLMOVE
\* that came to its end between the two locks) has put there since.
GetKeepsLive ==
    [][getting # {} /\ getting' = {} =>
          \A k \in Keys : Live(db[k]) => db'[k] = db[k]]_vars

\* "EXP-03: Background sweep removes expired keys even if never accessed"
\* (tests/test_expiration.py).
ExpiredEventuallySwept == \A k \in Keys : Expired(db[k]) ~> ~Expired(db[k])

=============================================================================
