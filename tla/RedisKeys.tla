----------------------------- MODULE RedisKeys -----------------------------
(***************************************************************************)
(* What Redis promises of a key that holds a hash, a set, a sorted set or  *)
(* a string: the value a command leaves there, as a function of the value  *)
(* it found and of its arguments.  The store of src/store.rs claims to be  *)
(* a drop-in for it; Keyspace runs both side by side.                      *)
(*                                                                         *)
(* There is no expired value here and no empty one: a key whose TTL has    *)
(* ended, or that lost its last item, holds Nothing.  Nor are there two    *)
(* indexes: a value gives every item its score, a hash field and a member  *)
(* of a set the score 1, and NotHeld to an item it does not have.          *)
(***************************************************************************)
EXTENDS Integers

CONSTANTS Items, MaxScore

NotHeld == 0
NoItems == [i \in Items |-> NotHeld]

Value ==
    [kind : {"absent", "string", "hash", "set", "zset", "list", "stream"},
     held : [Items -> NotHeld .. MaxScore], ttl : {"none", "running"}]

Nothing == [kind |-> "absent", held |-> NoItems, ttl |-> "none"]

\* The value of a collection that holds just this now, under its old TTL; a
\* key of another kind is left alone (WRONGTYPE).
Holding(v, kind, held) ==
    IF v.kind \notin {"absent", kind} THEN v
    ELSE IF held = NoItems THEN Nothing
    ELSE [kind |-> kind, held |-> held, ttl |-> v.ttl]

\* HSET, HINCRBY and SADD.
Add(v, kind, new) ==
    Holding(v, kind, [i \in Items |-> IF i \in new THEN 1 ELSE v.held[i]])

\* HDEL, SREM and ZREM.
Remove(v, kind, gone) ==
    Holding(v, kind, [i \in Items |-> IF i \in gone THEN NotHeld ELSE v.held[i]])

\* NX writes new members only, XX, GT and LT hold for old ones.
Wins(new, old, flags) ==
    /\ new # NotHeld
    /\ old = NotHeld => "XX" \notin flags
    /\ old # NotHeld => /\ "NX" \notin flags
                        /\ "GT" \in flags => new > old
                        /\ "LT" \in flags => new < old

ZAdd(v, score, flags) ==
    Holding(v, "zset",
        [i \in Items |-> IF Wins(score[i], v.held[i], flags) THEN score[i] ELSE v.held[i]])

\* The scores of the members in the range, or of the others.
Within(held, min, max) ==
    [i \in Items |-> IF held[i] \in min .. max THEN held[i] ELSE NotHeld]
Outside(held, min, max) ==
    [i \in Items |-> IF held[i] \in min .. max THEN NotHeld ELSE held[i]]

ZRemRangeByScore(v, min, max) == Holding(v, "zset", Outside(v.held, min, max))

\* At the destination, whose value and TTL are dropped, when the source holds `s`.
ZRangeStore(v, s, min, max) ==
    IF s.kind \in {"absent", "zset"}
    THEN Holding(Nothing, "zset", Within(s.held, min, max)) ELSE v

\* A value that expires at once is gone.
Set(v, mode, ttl) ==
    IF (mode = "NX" /\ v # Nothing) \/ (mode = "XX" /\ v = Nothing) THEN v
    ELSE IF ttl = "past" THEN Nothing
    ELSE [kind |-> "string", held |-> NoItems, ttl |-> ttl]

\* LPUSH, RPUSH, XADD and XGROUP CREATE MKSTREAM, whose elements are not seen here.
Grow(v, kind) == IF v = Nothing THEN [Nothing EXCEPT !.kind = kind] ELSE v

Expire(v) == IF v = Nothing THEN v ELSE [v EXCEPT !.ttl = "running"]

=============================================================================
