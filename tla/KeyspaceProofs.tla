--------------------------- MODULE KeyspaceProofs ---------------------------
(***************************************************************************)
(* Keyspace: in every state the types hold, the two indexes of every       *)
(* sorted set agree and, when no caller passes malformed arguments, no     *)
(* collection is empty and every key shows what Redis would have there,    *)
(* for every set of keys and items, every range of scores and every sweep  *)
(* limit.                                                                  *)
(*                                                                         *)
(* The properties speak of one entry at a time, so the invariant is a      *)
(* predicate Good on entries, the lemmas say that every operation on       *)
(* entries keeps it and leaves what the operation of RedisKeys leaves,     *)
(* and the last step puts the entries together.                            *)
(***************************************************************************)
EXTENDS Keyspace, TLAPS

\* An entry of the right shape whose two indexes agree.
Good(e) ==
    /\ e \in Entry
    /\ e.kind \notin {"hash", "set"} => e.items = {}
    /\ e.kind # "zset" => e.byMember = NoScores /\ e.byScore = {}
    /\ e.kind = "absent" => e.ttl = "none"
    /\ \A i \in Items, s \in Scores : <<s, i>> \in e.byScore <=> e.byMember[i] = s

\* An entry the well-formed commands may leave behind.
Sound(e) == Good(e) /\ (~Malformed => ~EmptyCollection(e))

IInv ==
    /\ order \in Orders
    /\ getting \subseteq Keys
    /\ db = [k \in Keys |-> db[k]]
    /\ \A k \in Keys : Sound(db[k])

-----------------------------------------------------------------------------
(* Entries. *)

\* A new entry of any kind, and a missing key, are well formed; neither index
\* of a new sorted set holds anything.
LEMMA NewGood == ASSUME NEW kind \in Kinds PROVE Good(New(kind))
  <1>1. NoScore \notin Scores
    BY ConstantsAssumption DEF NoScore, Scores
  <1>2. NoScores \in Scoring
    BY DEF NoScores, Scoring
  <1>3. \A i \in Items : NoScores[i] = NoScore
    BY DEF NoScores
  <1> QED BY <1>1, <1>2, <1>3 DEF Good, New, Entry, Kinds, Ttls

\* So is a missing key, which no command can leave empty.
LEMMA AbsentSound == Sound(Absent)
  <1>1. Good(Absent)
    BY NewGood DEF Absent, Kinds
  <1> QED BY <1>1 DEF Sound, Absent, New, EmptyCollection

\* Passive expiration keeps an entry sound.
LEMMA PurgedSound == ASSUME NEW e, Sound(e) PROVE Sound(Purged(e))
  BY AbsentSound DEF Purged

\* remove_if_empty makes a well-formed entry sound.
LEMMA RemoveIfEmptySound == ASSUME NEW e, Good(e) PROVE Sound(RemoveIfEmpty(e))
  BY AbsentSound DEF RemoveIfEmpty, Sound

\* or_insert_with: what a command that creates its key works on.
LEMMA OrNewGood ==
  ASSUME NEW e, Sound(e), NEW kind \in Kinds PROVE Good(OrNew(e, kind))
  BY NewGood DEF OrNew, Sound

\* The kinds that are not collections here are sound as soon as they exist.
LEMMA OrNewSound ==
  ASSUME NEW e, Sound(e), NEW kind \in {"string", "list", "stream"}
  PROVE  Sound(OrNew(e, kind))
  <1>1. kind \in Kinds
    BY DEF Kinds
  <1>2. Good(OrNew(e, kind))
    BY <1>1, OrNewGood
  <1>3. CASE e.kind = "absent"
    BY <1>2, <1>3 DEF OrNew, Sound, New, EmptyCollection
  <1>4. CASE e.kind # "absent"
    BY <1>4 DEF OrNew
  <1> QED BY <1>3, <1>4

\* HSET, SADD and HINCRBY: a collection that got an item is not empty.
LEMMA AddedSound ==
  ASSUME NEW e, Sound(e), NEW kind \in {"hash", "set"}, NEW new \in SUBSET Items,
         new # {} \/ Malformed
  PROVE  Sound(Added(e, kind, new))
  <1> DEFINE n == OrNew(Purged(e), kind)
  <1>1. Good(n)
    BY PurgedSound, OrNewGood DEF Kinds
  <1>2. CASE n.kind = kind
    <2>1. Added(e, kind, new) = [n EXCEPT !.items = @ \union new]
      BY <1>2 DEF Added
    <2> HIDE DEF n
    <2> QED BY <1>1, <1>2, <2>1 DEF Good, Sound, Entry, EmptyCollection
  <1>3. CASE n.kind # kind
    <2>1. Added(e, kind, new) = n
      BY <1>3 DEF Added
    <2>2. n = Purged(e)
      BY <1>3 DEF OrNew, New
    <2> QED BY <2>1, <2>2, PurgedSound
  <1> QED BY <1>2, <1>3

\* HDEL and SREM: the key goes with its last item.
LEMMA RemovedSound ==
  ASSUME NEW e, Sound(e), NEW kind \in {"hash", "set"}, NEW gone \in SUBSET Items
  PROVE  Sound(Removed(e, kind, gone))
  <1> DEFINE p == Purged(e)
             q == IF p.kind = kind THEN [p EXCEPT !.items = @ \ gone] ELSE p
  <1>1. Good(p)
    BY PurgedSound DEF Sound
  <1>2. Good(q)
    <2> HIDE DEF p
    <2> QED BY <1>1 DEF Good, Entry
  <1> QED BY <1>2, RemoveIfEmptySound DEF Removed

-----------------------------------------------------------------------------
(* Sorted sets. *)

\* SortedSet::insert keeps the two indexes in step: the old pair of a member is
\* the one by_member names, so taking it out leaves no other.
LEMMA ZInsertGood ==
  ASSUME NEW e, Good(e), e.kind = "zset", NEW score, NEW members \in SUBSET Items,
         \A i \in members : score[i] \in Scores
  PROVE  Good(ZInsert(e, score, members)) /\ ZInsert(e, score, members).kind = "zset"
  <1> DEFINE bm == [i \in Items |-> IF i \in members THEN score[i] ELSE e.byMember[i]]
             bs == (e.byScore \ {<<e.byMember[i], i>> : i \in members})
                       \union {<<score[i], i>> : i \in members}
             z  == ZInsert(e, score, members)
  <1>1. z = [e EXCEPT !.byScore = bs, !.byMember = bm]
    BY DEF ZInsert
  <1>2. bm \in Scoring
    BY DEF Good, Entry, Scoring
  <1>3. bs \subseteq Scores \X Items
    BY DEF Good, Entry
  <1>4. ASSUME NEW i \in Items, NEW s \in Scores
        PROVE  <<s, i>> \in bs <=> bm[i] = s
    <2>1. CASE i \in members
      <3>1. <<s, i>> \in bs <=> s = score[i]
        <4>1. <<s, i>> \in {<<score[j], j>> : j \in members} <=> s = score[i]
          BY <2>1
        <4>2. <<s, i>> \in e.byScore => e.byMember[i] = s
          BY DEF Good
        <4>3. <<s, i>> \in e.byScore => <<s, i>> \in {<<e.byMember[j], j>> : j \in members}
          BY <2>1, <4>2
        <4> QED BY <4>1, <4>3
      <3> QED BY <2>1, <3>1
    <2>2. CASE i \notin members
      <3>1. <<s, i>> \in bs <=> <<s, i>> \in e.byScore
        BY <2>2
      <3> QED BY <2>2, <3>1 DEF Good
    <2> QED BY <2>1, <2>2
  <1>5. /\ z \in Entry /\ z.kind = "zset"
        /\ z.items = e.items /\ z.byMember = bm /\ z.byScore = bs
    <2> HIDE DEF bm, bs, z
    <2> QED BY <1>1, <1>2, <1>3 DEF Good, Entry
  <1>6. e.items = {}
    BY DEF Good
  <1> HIDE DEF bm, bs, z
  <1>7. Good(z)
    BY <1>4, <1>5, <1>6 DEF Good
  <1> QED BY <1>5, <1>7 DEF z

\* SortedSet::remove keeps them in step too.
LEMMA ZDropGood ==
  ASSUME NEW e, Good(e), e.kind = "zset", NEW members \in SUBSET Items
  PROVE  Good(ZDrop(e, members))
  <1> DEFINE bm == [i \in Items |-> IF i \in members THEN NoScore ELSE e.byMember[i]]
             bs == e.byScore \ {<<e.byMember[i], i>> : i \in members}
             z  == ZDrop(e, members)
  <1>1. z = [e EXCEPT !.byScore = bs, !.byMember = bm]
    BY DEF ZDrop
  <1>2. bm \in Scoring
    BY DEF Good, Entry, Scoring
  <1>3. bs \subseteq Scores \X Items
    BY DEF Good, Entry
  <1>4. NoScore \notin Scores
    BY ConstantsAssumption DEF NoScore, Scores
  <1>5. ASSUME NEW i \in Items, NEW s \in Scores
        PROVE  <<s, i>> \in bs <=> bm[i] = s
    <2>1. CASE i \in members
      <3>1. <<s, i>> \in e.byScore => e.byMember[i] = s
        BY DEF Good
      <3>2. <<s, i>> \notin bs
        BY <2>1, <3>1
      <3> QED BY <2>1, <3>2, <1>4
    <2>2. CASE i \notin members
      <3>1. <<s, i>> \in bs <=> <<s, i>> \in e.byScore
        BY <2>2
      <3> QED BY <2>2, <3>1 DEF Good
    <2> QED BY <2>1, <2>2
  <1>6. /\ z \in Entry /\ z.kind = "zset"
        /\ z.items = e.items /\ z.byMember = bm /\ z.byScore = bs
    <2> HIDE DEF bm, bs, z
    <2> QED BY <1>1, <1>2, <1>3 DEF Good, Entry
  <1>7. e.items = {}
    BY DEF Good
  <1> HIDE DEF bm, bs, z
  <1>8. Good(z)
    BY <1>5, <1>6, <1>7 DEF Good
  <1> QED BY <1>8 DEF z

\* A sorted set that a member was inserted into is not empty.
LEMMA ZInsertNotEmpty ==
  ASSUME NEW e, Good(e), e.kind = "zset", NEW score, NEW members \in SUBSET Items,
         \A i \in members : score[i] \in Scores, members # {}
  PROVE  ~EmptyCollection(ZInsert(e, score, members))
  <1> DEFINE z == ZInsert(e, score, members)
  <1>1. PICK i \in members : TRUE
    OBVIOUS
  <1>2. z.kind = "zset"
    BY ZInsertGood
  <1>3. z.byMember[i] = score[i]
    BY <1>1 DEF ZInsert, Good, Entry
  <1>4. NoScores[i] = NoScore /\ NoScore \notin Scores
    BY ConstantsAssumption, <1>1 DEF NoScores, NoScore, Scores
  <1>5. z.byMember # NoScores
    BY <1>1, <1>3, <1>4
  <1> QED BY <1>2, <1>5 DEF EmptyCollection

\* ZADD with any flags.
LEMMA ZAddedSound ==
  ASSUME NEW e, Sound(e), NEW score \in Scoring, NEW flags
  PROVE  Sound(ZAdded(e, score, flags))
  <1> DEFINE n == OrNew(Purged(e), "zset")
             q == IF n.kind = "zset" THEN ZInsert(n, score, Accepted(n, score, flags)) ELSE n
  <1>1. Good(n)
    BY PurgedSound, OrNewGood DEF Kinds
  <1>2. Accepted(n, score, flags) \in SUBSET Items
    BY DEF Accepted
  <1>3. \A i \in Accepted(n, score, flags) : score[i] \in Scores
    BY DEF Accepted, Scoring
  <1>4. Good(q)
    <2> HIDE DEF n
    <2> QED BY <1>1, <1>2, <1>3, ZInsertGood
  <1> QED BY <1>4, RemoveIfEmptySound DEF ZAdded

\* ZADD in a script: sound as long as a pair was inserted.
LEMMA ScriptZAddedSound ==
  ASSUME NEW e, Sound(e), NEW score \in Scoring, score # NoScores \/ Malformed
  PROVE  Sound(ScriptZAdded(e, score))
  <1> DEFINE n == OrNew(Purged(e), "zset")
             named == {i \in Items : score[i] # NoScore}
  <1>1. Good(n)
    BY PurgedSound, OrNewGood DEF Kinds
  <1>2. \A i \in named : score[i] \in Scores
    BY DEF Scoring
  <1>3. CASE n.kind = "zset"
    <2>1. ScriptZAdded(e, score) = ZInsert(n, score, named)
      BY <1>3 DEF ScriptZAdded
    <2>2. Good(ZInsert(n, score, named))
      <3> HIDE DEF n, named
      <3>1. named \in SUBSET Items
        BY DEF named
      <3> QED BY <1>1, <1>2, <1>3, <3>1, ZInsertGood
    <2>3. CASE Malformed
      BY <2>1, <2>2, <2>3 DEF Sound
    <2>4. CASE ~Malformed
      <3>1. named # {}
        BY <2>4 DEF Scoring, NoScores
      <3>2. named \in SUBSET Items
        OBVIOUS
      <3> HIDE DEF n, named
      <3>3. ~EmptyCollection(ZInsert(n, score, named))
        BY <1>1, <1>2, <1>3, <3>1, <3>2, ZInsertNotEmpty
      <3> QED BY <2>1, <2>2, <3>3 DEF Sound
    <2> QED BY <2>3, <2>4
  <1>4. CASE n.kind # "zset"
    <2>1. ScriptZAdded(e, score) = n
      BY <1>4 DEF ScriptZAdded
    <2>2. n = Purged(e)
      BY <1>4 DEF OrNew, New
    <2> QED BY <2>1, <2>2, PurgedSound
  <1> QED BY <1>3, <1>4

\* ZREM and ZREMRANGEBYSCORE.
LEMMA ZRemovedSound ==
  ASSUME NEW e, Sound(e), NEW members \in SUBSET Items
  PROVE  Sound(ZRemoved(e, members))
  <1> DEFINE p == Purged(e)
             q == IF p.kind = "zset" THEN ZDrop(p, members) ELSE p
  <1>1. Good(p)
    BY PurgedSound DEF Sound
  <1>2. Good(q)
    <2> HIDE DEF p
    <2> QED BY <1>1, ZDropGood
  <1> QED BY <1>2, RemoveIfEmptySound DEF ZRemoved

\* ZRANGESTORE: every member in the range has one pair, the one by_member names,
\* and the new sorted set is not empty.
LEMMA ZStoredSound ==
  ASSUME NEW e, Good(e), NEW min \in Scores, NEW max \in Scores
  PROVE  Sound(ZStored(e, min, max))
  <1> DEFINE Pairs(i) == {s \in min .. max : <<s, i>> \in e.byScore}
             score == [i \in Items |-> CHOOSE s \in Pairs(i) : \A t \in Pairs(i) : t <= s]
             found == InRange(e, min, max)
  <1>1. found \in SUBSET Items
    BY DEF InRange
  <1>2. ASSUME NEW i \in found PROVE score[i] \in Scores
    <2>1. PICK s \in Scores : <<s, i>> \in e.byScore /\ min <= s /\ s <= max
      BY DEF InRange
    <2>2. i \in Items
      BY <1>1
    <2>3. s \in Pairs(i)
      BY <2>1 DEF Scores
    <2>4. \A t \in Pairs(i) : t \in Scores /\ t = e.byMember[i]
      <3>1. \A t \in min .. max : t \in Scores
        BY ConstantsAssumption DEF Scores
      <3> QED BY <3>1, <2>2 DEF Good
    <2>5. \A t \in Pairs(i) : t <= s
      BY <2>3, <2>4 DEF Scores
    <2>6. (CHOOSE r \in Pairs(i) : \A t \in Pairs(i) : t <= r) \in Pairs(i)
      BY <2>3, <2>5
    <2> HIDE DEF Pairs
    <2> QED BY <2>2, <2>4, <2>6
  <1>3. CASE found = {}
    BY <1>3, AbsentSound DEF ZStored
  <1>4. CASE found # {}
    <2>1. ZStored(e, min, max) = ZInsert(New("zset"), score, found)
      BY <1>4 DEF ZStored
    <2>2. Good(New("zset")) /\ New("zset").kind = "zset"
      BY NewGood DEF Kinds, New
    <2> HIDE DEF score, found
    <2>3. Good(ZInsert(New("zset"), score, found))
      BY <1>1, <1>2, <2>2, ZInsertGood
    <2>4. ~EmptyCollection(ZInsert(New("zset"), score, found))
      BY <1>1, <1>2, <1>4, <2>2, ZInsertNotEmpty
    <2> QED BY <2>1, <2>3, <2>4 DEF Sound
  <1> QED BY <1>3, <1>4

-----------------------------------------------------------------------------
(* Steps. *)

\* A step that leaves a sound entry at every key keeps the invariant.
LEMMA WriteOK ==
  ASSUME IInv, NEW d, d = [k \in Keys |-> d[k]], \A k \in Keys : Sound(d[k]),
         db' = d, Reordered(d) \/ UNCHANGED order, getting' \subseteq Keys
  PROVE  IInv'
  <1>1. order' \in Orders
    BY DEF IInv, Reordered
  <1>2. \A k \in Keys : Sound(db'[k])
    OBVIOUS
  <1> QED BY <1>1, <1>2 DEF IInv, Sound, Good, EmptyCollection, Entry, Kinds, Ttls

\* A command that writes one sound entry keeps the invariant.
LEMMA UpdateOK ==
  ASSUME IInv, NEW k \in Keys, NEW e, Sound(e), NEW v, Update(k, e, v)
  PROVE  IInv'
  <1> DEFINE d == [db EXCEPT ![k] = e]
  <1>1. d = [j \in Keys |-> d[j]] /\ \A j \in Keys : Sound(d[j])
    <2>1. db = [j \in Keys |-> db[j]]
      BY DEF IInv
    <2>2. \A j \in Keys : d[j] = IF j = k THEN e ELSE db[j]
      BY <2>1
    <2> QED BY <2>1, <2>2 DEF IInv
  <1>2. db' = d /\ Reordered(d) /\ getting' \subseteq Keys
    BY DEF Update, Write, IInv
  <1> HIDE DEF d
  <1> QED BY <1>1, <1>2, WriteOK

\* Every command of the Python thread on one key keeps the invariant.
LEMMA CommandOK == ASSUME IInv, NEW k \in Keys, Command(k) PROVE IInv'
  <1>0. Sound(db[k]) /\ Sound(Purged(db[k]))
    BY PurgedSound DEF IInv
  <1>1. ASSUME NEW some \in SUBSET Items, HSet(k, some) PROVE IInv'
    BY <1>0, <1>1, AddedSound, UpdateOK DEF HSet
  <1>2. ASSUME NEW some \in SUBSET Items, HDel(k, some) PROVE IInv'
    BY <1>0, <1>2, RemovedSound, UpdateOK DEF HDel
  <1>3. ASSUME NEW i \in Items, HIncrBy(k, i) PROVE IInv'
    <2>1. {i} \in SUBSET Items /\ {i} # {}
      OBVIOUS
    <2>2. Sound(Added(db[k], "hash", {i}))
      BY <1>0, <2>1, AddedSound
    <2> QED BY <1>0, <1>3, <2>2, UpdateOK DEF HIncrBy
  <1>4. ASSUME NEW some \in SUBSET Items, SAdd(k, some) PROVE IInv'
    BY <1>0, <1>4, AddedSound, UpdateOK DEF SAdd
  <1>5. ASSUME NEW some \in SUBSET Items, SRem(k, some) PROVE IInv'
    BY <1>0, <1>5, RemovedSound, UpdateOK DEF SRem
  <1>6. ASSUME NEW score \in Scoring, NEW flags \in Flags, ZAdd(k, score, flags) PROVE IInv'
    BY <1>0, <1>6, ZAddedSound, UpdateOK DEF ZAdd
  <1>7. ASSUME NEW score \in Scoring, ScriptZAdd(k, score) PROVE IInv'
    BY <1>0, <1>7, ScriptZAddedSound, UpdateOK DEF ScriptZAdd
  <1>8. ASSUME NEW some \in SUBSET Items, ZRem(k, some) PROVE IInv'
    BY <1>0, <1>8, ZRemovedSound, UpdateOK DEF ZRem
  <1>9. ASSUME NEW min \in Scores, NEW max \in Scores, ZRemRangeByScore(k, min, max)
        PROVE  IInv'
    <2>1. InRange(Purged(db[k]), min, max) \in SUBSET Items
      BY DEF InRange
    <2>2. Sound(ZRangeRemoved(db[k], min, max))
      BY <1>0, <2>1, ZRemovedSound DEF ZRangeRemoved
    <2> QED BY <1>9, <2>2, UpdateOK DEF ZRemRangeByScore
  <1>10. ASSUME NEW src \in Keys, NEW min \in Scores, NEW max \in Scores,
                ZRangeStore(k, src, min, max)
         PROVE  IInv'
    <2> DEFINE p == Purged(db[src])
               d == [db EXCEPT ![src] = p]
               z == ZStored(p, min, max)
               f == [d EXCEPT ![k] = z]
    <2>1. Sound(p)
      BY PurgedSound DEF IInv
    <2>2. Sound(z)
      BY <2>1, ZStoredSound DEF Sound
    <2>3. d = [j \in Keys |-> d[j]] /\ \A j \in Keys : Sound(d[j])
      <3>1. db = [j \in Keys |-> db[j]]
        BY DEF IInv
      <3>2. \A j \in Keys : d[j] = IF j = src THEN p ELSE db[j]
        BY <3>1
      <3> QED BY <2>1, <3>1, <3>2 DEF IInv
    <2>4. f = [j \in Keys |-> f[j]] /\ \A j \in Keys : Sound(f[j])
      <3> HIDE DEF d, z
      <3>1. \A j \in Keys : f[j] = IF j = k THEN z ELSE d[j]
        BY <2>3
      <3> QED BY <2>2, <2>3, <3>1
    <2>5. \E r : Write(d, r) \/ Write(f, r)
      BY <1>10 DEF ZRangeStore
    <2>6. getting' \subseteq Keys
      BY <2>5 DEF Write, IInv
    <2> HIDE DEF d, f
    <2>7. ASSUME NEW r, Write(d, r) PROVE IInv'
      BY <2>3, <2>6, <2>7, WriteOK DEF Write
    <2>8. ASSUME NEW r, Write(f, r) PROVE IInv'
      BY <2>4, <2>6, <2>8, WriteOK DEF Write
    <2> QED BY <2>5, <2>7, <2>8
  <1>11. ASSUME NEW mode, NEW ttl \in Ttls, Set(k, mode, ttl) PROVE IInv'
    <2> DEFINE e == [New("string") EXCEPT !.ttl = ttl]
    <2>1. Good(New("string")) /\ New("string").kind = "string"
      BY NewGood DEF Kinds, New
    <2>2. Sound(e)
      BY <2>1 DEF Good, Sound, Entry, EmptyCollection
    <2> QED BY <1>11, <2>2, UpdateOK DEF Set
  <1>12. ASSUME NEW kind \in {"list", "stream"}, Grow(k, kind) PROVE IInv'
    BY <1>0, <1>12, OrNewSound, UpdateOK DEF Grow
  <1>13. CASE Expire(k)
    <2> DEFINE p == Purged(db[k])
               e == IF p.kind = "absent" THEN p ELSE [p EXCEPT !.ttl = "running"]
    <2>1. Sound(p)
      BY <1>0
    <2>2. Sound(e)
      <3> HIDE DEF p
      <3> QED BY <2>1 DEF Good, Sound, Entry, EmptyCollection, Ttls
    <2> QED BY <1>13, <2>2, UpdateOK DEF Expire
  <1>14. CASE Touch(k)
    BY <1>0, <1>14, UpdateOK DEF Touch
  <1>15. CASE GetReads(k)
    BY <1>15 DEF GetReads, IInv, Sound, Good, EmptyCollection
  <1> QED BY <1>1, <1>2, <1>3, <1>4, <1>5, <1>6, <1>7, <1>8, <1>9, <1>10, <1>11,
             <1>12, <1>13, <1>14, <1>15, ZenonT(60) DEF Command

\* Every step keeps the invariant.
LEMMA NextOK == ASSUME IInv, [Next]_vars PROVE IInv'
  <1>0. db = [k \in Keys |-> db[k]] /\ \A k \in Keys : Sound(db[k]) /\ Sound(Purged(db[k]))
    BY PurgedSound DEF IInv
  <1>1. ASSUME NEW k \in Keys, Command(k) PROVE IInv'
    BY <1>1, CommandOK
  <1>2. ASSUME NEW ks \in SUBSET Keys, Del(ks) PROVE IInv'
    <2> DEFINE d == [k \in Keys |-> IF k \in ks THEN Absent ELSE db[k]]
    <2>1. d = [k \in Keys |-> d[k]]
      OBVIOUS
    <2>2. \A k \in Keys : Sound(d[k])
      BY <1>0, AbsentSound
    <2>3. db' = d /\ Reordered(d) /\ getting' \subseteq Keys
      BY <1>2 DEF Del, Write, IInv
    <2> HIDE DEF d
    <2> QED BY <2>1, <2>2, <2>3, WriteOK
  <1>3. CASE GetRemoves
    <2> DEFINE d == [k \in Keys |-> IF k \in getting THEN Purged(db[k]) ELSE db[k]]
    <2>1. d = [k \in Keys |-> d[k]]
      OBVIOUS
    <2>2. \A k \in Keys : Sound(d[k])
      BY <1>0
    <2>3. db' = d /\ UNCHANGED order /\ getting' \subseteq Keys
      BY <1>3 DEF GetRemoves
    <2> HIDE DEF d
    <2> QED BY <2>1, <2>2, <2>3, WriteOK
  <1>4. CASE Sweep
    <2> DEFINE d == [k \in Keys |-> IF k \in Swept THEN Purged(db[k]) ELSE db[k]]
    <2>1. d = [k \in Keys |-> d[k]]
      OBVIOUS
    <2>2. \A k \in Keys : Sound(d[k])
      BY <1>0
    <2>3. db' = d /\ UNCHANGED order /\ getting' \subseteq Keys
      BY <1>4 DEF Sweep, IInv
    <2> HIDE DEF d
    <2> QED BY <2>1, <2>2, <2>3, WriteOK
  <1>5. ASSUME NEW k \in Keys, TaskPushes(k) PROVE IInv'
    <2> DEFINE e == OrNew(Purged(db[k]), "list")
               d == [db EXCEPT ![k] = e]
    <2>1. Sound(e)
      BY <1>0, OrNewSound
    <2> HIDE DEF e
    <2>2. \A j \in Keys : d[j] = IF j = k THEN e ELSE db[j]
      BY <1>0
    <2>3. d = [j \in Keys |-> d[j]] /\ \A j \in Keys : Sound(d[j])
      BY <1>0, <2>1, <2>2
    <2>4. db' = d /\ Reordered(d) /\ getting' \subseteq Keys
      BY <1>5 DEF TaskPushes, IInv, e
    <2> HIDE DEF d
    <2> QED BY <2>3, <2>4, WriteOK
  <1>6. ASSUME NEW k \in Keys, TimePasses(k) PROVE IInv'
    <2> DEFINE e == [db[k] EXCEPT !.ttl = "past"]
               d == [db EXCEPT ![k] = e]
    <2>1. Sound(e)
      <3>1. db[k].ttl = "running" /\ Sound(db[k])
        BY <1>0, <1>6 DEF TimePasses
      <3> QED BY <3>1 DEF Sound, Good, Entry, EmptyCollection, Ttls
    <2> HIDE DEF e
    <2>2. \A j \in Keys : d[j] = IF j = k THEN e ELSE db[j]
      BY <1>0
    <2>3. d = [j \in Keys |-> d[j]] /\ \A j \in Keys : Sound(d[j])
      BY <1>0, <2>1, <2>2
    <2>4. db' = d /\ UNCHANGED order /\ getting' \subseteq Keys
      BY <1>6 DEF TimePasses, IInv, e
    <2> HIDE DEF d
    <2> QED BY <2>3, <2>4, WriteOK
  <1>7. CASE UNCHANGED vars
    <2>1. db' = db /\ order' = order /\ getting' = getting
      BY <1>7 DEF vars
    <2>2. getting' \subseteq Keys
      BY <2>1 DEF IInv
    <2> QED BY <1>0, <2>1, <2>2, WriteOK
  <1> QED BY <1>1, <1>2, <1>3, <1>4, <1>5, <1>6, <1>7 DEF Next

-----------------------------------------------------------------------------
(* Theorems. *)

\* The invariant holds in every reachable state.
THEOREM KeyspaceInvariant == Spec => []IInv
  <1>1. Init => IInv
    BY AbsentSound DEF Init, IInv
  <1>2. IInv /\ [Next]_vars => IInv'
    BY NextOK
  <1> QED BY <1>1, <1>2, PTL DEF Spec

\* by_member and by_score hold the same pairs, for sorted sets of any size built
\* by any sequence of commands.
THEOREM IndexesStayInStep == Spec => []IndexesAgree
  <1>1. IInv => IndexesAgree
    BY DEF IInv, Sound, Good, IndexesAgree
  <1> QED BY <1>1, KeyspaceInvariant, PTL

\* As long as callers give HSET and SADD something to add and ZADD numbers, no
\* key holds an empty hash, set or sorted set.
THEOREM NoCollectionIsEmpty == ASSUME ~Malformed PROVE Spec => []NoEmptyCollection
  <1>1. IInv => NoEmptyCollection
    BY DEF IInv, Sound, NoEmptyCollection
  <1> QED BY <1>1, KeyspaceInvariant, PTL

\* A GET never removes a live key, whatever the tokio tasks do between its two
\* locks.
THEOREM GetIsHarmless == Spec => GetKeepsLive
  <1> DEFINE Harmless == getting # {} /\ getting' = {} =>
                            \A k \in Keys : Live(db[k]) => db'[k] = db[k]
  <1>1. IInv /\ [Next]_vars => [Harmless]_vars
    <2> SUFFICES ASSUME IInv, Next, getting # {}, getting' = {}, NEW k \in Keys, Live(db[k])
                 PROVE  db'[k] = db[k]
      BY DEF vars
    <2>1. CASE GetRemoves
      BY <2>1 DEF GetRemoves, Purged, Live
    <2>2. ASSUME NEW j \in Keys PROVE ~Command(j) /\ ~TaskPushes(j) /\ ~TimePasses(j)
      BY DEF Command, HSet, HDel, HIncrBy, SAdd, SRem, ZAdd, ScriptZAdd, ZRem, ZRemRangeByScore,
             ZRangeStore, Set, Grow, Expire, Touch, GetReads, Update, Write, TaskPushes, TimePasses
    <2>3. ~Sweep /\ \A ks \in SUBSET Keys : ~Del(ks)
      BY DEF Sweep, Del, Write
    <2> QED BY <2>1, <2>2, <2>3 DEF Next
  <1> QED BY <1>1, KeyspaceInvariant, PTL DEF Spec, GetKeepsLive

-----------------------------------------------------------------------------
(* The reference. *)

\* A command on a collection leaves one, or the value it found.
LEMMA HoldingTyped ==
  ASSUME NEW v \in Redis!Value, NEW kind \in {"hash", "set", "zset"},
         NEW held \in [Items -> 0 .. MaxScore]
  PROVE  Redis!Holding(v, kind, held) \in Redis!Value
  BY ConstantsAssumption
  DEF Redis!Holding, Redis!Value, Redis!Nothing, Redis!NoItems, Redis!NotHeld

\* A missing key has a value.
LEMMA NothingTyped == Redis!Nothing \in Redis!Value
  BY ConstantsAssumption DEF Redis!Value, Redis!Nothing, Redis!NoItems, Redis!NotHeld

\* The values of the reference keep their type under every command of one key.
LEMMA ReferenceTyped ==
  ASSUME NEW v \in Redis!Value, NEW some \in SUBSET Items, NEW kind \in {"hash", "set", "zset"}
  PROVE  /\ Redis!Add(v, kind, some) \in Redis!Value
         /\ Redis!Remove(v, kind, some) \in Redis!Value
         /\ \A score \in Scoring, flags \in Flags : Redis!ZAdd(v, score, flags) \in Redis!Value
         /\ \A min, max \in Scores : Redis!ZRemRangeByScore(v, min, max) \in Redis!Value
         /\ \A mode \in {"any", "NX", "XX"}, ttl \in Ttls : Redis!Set(v, mode, ttl) \in Redis!Value
         /\ \A new \in {"list", "stream"} : Redis!Grow(v, new) \in Redis!Value
         /\ Redis!Expire(v) \in Redis!Value
  <1> USE ConstantsAssumption
  <1>1. v.held \in [Items -> 0 .. MaxScore]
    BY DEF Redis!Value, Redis!NotHeld
  <1>2. Redis!Nothing \in Redis!Value
    BY NothingTyped
  <1>3. Redis!Add(v, kind, some) \in Redis!Value
    <2>1. [i \in Items |-> IF i \in some THEN 1 ELSE v.held[i]] \in [Items -> 0 .. MaxScore]
      BY <1>1
    <2> QED BY <2>1, HoldingTyped DEF Redis!Add
  <1>4. Redis!Remove(v, kind, some) \in Redis!Value
    <2>1. [i \in Items |-> IF i \in some THEN Redis!NotHeld ELSE v.held[i]]
              \in [Items -> 0 .. MaxScore]
      BY <1>1 DEF Redis!NotHeld
    <2> QED BY <2>1, HoldingTyped DEF Redis!Remove
  <1>5. ASSUME NEW score \in Scoring, NEW flags \in Flags
        PROVE  Redis!ZAdd(v, score, flags) \in Redis!Value
    <2>1. [i \in Items |-> IF Redis!Wins(score[i], v.held[i], flags) THEN score[i] ELSE v.held[i]]
              \in [Items -> 0 .. MaxScore]
      BY <1>1 DEF Scoring, Scores, NoScore
    <2> QED BY <2>1, HoldingTyped DEF Redis!ZAdd
  <1>6. ASSUME NEW min \in Scores, NEW max \in Scores
        PROVE  Redis!ZRemRangeByScore(v, min, max) \in Redis!Value
    <2>1. Redis!Outside(v.held, min, max) \in [Items -> 0 .. MaxScore]
      BY <1>1 DEF Redis!Outside, Redis!NotHeld
    <2> QED BY <2>1, HoldingTyped DEF Redis!ZRemRangeByScore
  <1>7. ASSUME NEW mode \in {"any", "NX", "XX"}, NEW ttl \in Ttls
        PROVE  Redis!Set(v, mode, ttl) \in Redis!Value
    BY <1>2 DEF Redis!Set, Redis!Value, Redis!NoItems, Redis!NotHeld, Ttls
  <1>8. ASSUME NEW new \in {"list", "stream"} PROVE Redis!Grow(v, new) \in Redis!Value
    BY <1>2 DEF Redis!Grow, Redis!Value, Redis!Nothing
  <1>9. Redis!Expire(v) \in Redis!Value
    BY <1>2 DEF Redis!Expire, Redis!Value
  <1> QED BY <1>3, <1>4, <1>5, <1>6, <1>7, <1>8, <1>9

\* And ZRANGESTORE.
LEMMA RangeStoreTyped ==
  ASSUME NEW v \in Redis!Value, NEW s \in Redis!Value, NEW min \in Scores, NEW max \in Scores
  PROVE  Redis!ZRangeStore(v, s, min, max) \in Redis!Value
  <1>1. Redis!Within(s.held, min, max) \in [Items -> 0 .. MaxScore]
    BY ConstantsAssumption DEF Redis!Within, Redis!Value, Redis!NotHeld
  <1>2. Redis!Nothing \in Redis!Value
    BY NothingTyped
  <1> QED BY <1>1, <1>2, HoldingTyped DEF Redis!ZRangeStore

\* Every step keeps the type of the reference.
LEMMA ReferenceStaysTyped ==
  ASSUME redis \in [Keys -> Redis!Value], [Next]_vars
  PROVE  redis' \in [Keys -> Redis!Value]
  <1>0. /\ \A k \in Keys : redis[k] \in Redis!Value
        /\ Redis!Nothing \in Redis!Value
    BY NothingTyped
  <1>1. ASSUME NEW k \in Keys, NEW e, NEW v \in Redis!Value, Update(k, e, v)
        PROVE  redis' \in [Keys -> Redis!Value]
    BY <1>1 DEF Update, Write
  <1>2. ASSUME NEW k \in Keys, Command(k)
        PROVE  redis' \in [Keys -> Redis!Value]
    <2>1. ASSUME NEW some \in SUBSET Items,
                 HSet(k, some) \/ HDel(k, some) \/ SAdd(k, some) \/ SRem(k, some) \/ ZRem(k, some)
          PROVE  redis' \in [Keys -> Redis!Value]
      BY <2>1, <1>0, <1>1, ReferenceTyped DEF HSet, HDel, SAdd, SRem, ZRem
    <2>2. ASSUME NEW i \in Items, HIncrBy(k, i) PROVE redis' \in [Keys -> Redis!Value]
      BY <2>2, <1>0, <1>1, ReferenceTyped, {i} \in SUBSET Items DEF HIncrBy
    <2>3. ASSUME NEW score \in Scoring, NEW flags \in Flags, ZAdd(k, score, flags)
          PROVE  redis' \in [Keys -> Redis!Value]
      BY <2>3, <1>0, <1>1, ReferenceTyped DEF ZAdd
    <2>10. ASSUME NEW score \in Scoring, ScriptZAdd(k, score)
           PROVE  redis' \in [Keys -> Redis!Value]
      <3>1. {} \in Flags
        BY DEF Flags
      <3> QED BY <2>10, <3>1, <1>0, <1>1, ReferenceTyped DEF ScriptZAdd
    <2>4. ASSUME NEW min \in Scores, NEW max \in Scores, ZRemRangeByScore(k, min, max)
          PROVE  redis' \in [Keys -> Redis!Value]
      BY <2>4, <1>0, <1>1, ReferenceTyped DEF ZRemRangeByScore
    <2>5. ASSUME NEW src \in Keys, NEW min \in Scores, NEW max \in Scores,
                 ZRangeStore(k, src, min, max)
          PROVE  redis' \in [Keys -> Redis!Value]
      <3>1. redis' = [redis EXCEPT ![k] = Redis!ZRangeStore(redis[k], redis[src], min, max)]
        BY <2>5 DEF ZRangeStore, Write
      <3>2. Redis!ZRangeStore(redis[k], redis[src], min, max) \in Redis!Value
        BY <1>0, RangeStoreTyped
      <3> QED BY <3>1, <3>2
    <2>6. ASSUME NEW mode \in {"any", "NX", "XX"}, NEW ttl \in Ttls, Set(k, mode, ttl)
          PROVE  redis' \in [Keys -> Redis!Value]
      BY <2>6, <1>0, <1>1, ReferenceTyped DEF Set
    <2>7. ASSUME NEW kind \in {"list", "stream"}, Grow(k, kind)
          PROVE  redis' \in [Keys -> Redis!Value]
      BY <2>7, <1>0, <1>1, ReferenceTyped DEF Grow
    <2>8. CASE Expire(k) \/ Touch(k)
      BY <2>8, <1>0, <1>1, ReferenceTyped DEF Expire, Touch
    <2>9. CASE GetReads(k)
      BY <2>9 DEF GetReads
    <2> QED BY <1>2, <2>1, <2>2, <2>3, <2>4, <2>5, <2>6, <2>7, <2>8, <2>9, <2>10,
               ZenonT(60) DEF Command
  <1>3. ASSUME NEW ks \in SUBSET Keys, Del(ks) PROVE redis' \in [Keys -> Redis!Value]
    BY <1>0, <1>3 DEF Del, Write
  <1>4. CASE GetRemoves \/ Sweep \/ UNCHANGED vars
    BY <1>4 DEF GetRemoves, Sweep, vars
  <1>5. ASSUME NEW k \in Keys, TaskPushes(k) \/ TimePasses(k)
        PROVE  redis' \in [Keys -> Redis!Value]
    BY <1>0, <1>5, ReferenceTyped DEF TaskPushes, TimePasses
  <1> QED BY <1>2, <1>3, <1>4, <1>5 DEF Next

\* The variables keep their types, the reference its own, and a key of one kind
\* holds nothing of another.
THEOREM KeyspaceTypeCorrect == Spec => []TypeOK
  <1>1. Init => redis \in [Keys -> Redis!Value]
    BY NothingTyped DEF Init
  <1>2. redis \in [Keys -> Redis!Value] /\ [Next]_vars => (redis \in [Keys -> Redis!Value])'
    BY ReferenceStaysTyped
  <1>3. IInv /\ redis \in [Keys -> Redis!Value] => TypeOK
    BY DEF IInv, Sound, Good, TypeOK
  <1> QED BY <1>1, <1>2, <1>3, KeyspaceInvariant, PTL DEF Spec

-----------------------------------------------------------------------------
(* The store and the reference. *)

\* The items of an entry with their scores, and what it shows while it lives.
HeldBy(e) == IF e.kind = "zset" THEN e.byMember
             ELSE [i \in Items |-> IF i \in e.items THEN 1 ELSE NoScore]
Shown(e) == [kind |-> e.kind, held |-> HeldBy(e), ttl |-> e.ttl]

\* A missing key shows nothing, and only a missing key has that kind.
LEMMA NothingShown ==
  /\ View(Absent) = Redis!Nothing
  /\ \A e : Good(e) /\ e.kind = "absent" => Shown(e) = Redis!Nothing
  /\ Redis!Nothing.kind = "absent" /\ Redis!Nothing.held = Redis!NoItems
  /\ Redis!Nothing.ttl = "none"
  <1>1. ASSUME NEW e, Good(e), e.kind = "absent" PROVE Shown(e) = Redis!Nothing
    <2>1. e.items = {} /\ e.ttl = "none"
      BY <1>1 DEF Good
    <2>2. HeldBy(e) = Redis!NoItems
      BY <1>1, <2>1 DEF HeldBy, Redis!NoItems, Redis!NotHeld, NoScore
    <2> QED BY <1>1, <2>1, <2>2 DEF Shown, Redis!Nothing
  <1>2. View(Absent) = Redis!Nothing
    BY DEF View, Live, Absent, New
  <1> QED BY <1>1, <1>2 DEF Redis!Nothing

\* An entry that has not expired shows what it has.
LEMMA ViewShows ==
  ASSUME NEW e, Good(e), e.ttl # "past" PROVE View(e) = Shown(e)
  <1>1. CASE e.kind = "absent"
    BY <1>1, NothingShown DEF View, Live
  <1>2. CASE e.kind # "absent"
    BY <1>2 DEF View, Live, Expired, Shown, HeldBy
  <1> QED BY <1>1, <1>2

\* Passive expiration changes nothing that can be seen.
LEMMA ViewPurged ==
  ASSUME NEW e, Sound(e)
  PROVE  /\ View(e) = Shown(Purged(e)) /\ View(Purged(e)) = View(e)
         /\ Good(Purged(e)) /\ Purged(e).ttl # "past"
  <1>1. CASE Expired(e)
    <2>1. Purged(e) = Absent /\ View(e) = Redis!Nothing
      BY <1>1 DEF Purged, View, Live
    <2>2. Good(Absent) /\ Absent.kind = "absent" /\ Absent.ttl # "past"
      BY AbsentSound DEF Sound, Absent, New
    <2> QED BY <2>1, <2>2, NothingShown
  <1>2. CASE ~Expired(e)
    BY <1>2, ViewShows DEF Purged, Expired, Sound
  <1> QED BY <1>1, <1>2

\* An entry is empty when it shows a collection without items.
LEMMA EmptyShowsNoItems ==
  ASSUME NEW e, Good(e), e.kind \in {"hash", "set", "zset"}
  PROVE  EmptyCollection(e) <=> HeldBy(e) = Redis!NoItems
  <1>1. CASE e.kind = "zset"
    BY <1>1 DEF EmptyCollection, HeldBy, NoScores, Redis!NoItems, Redis!NotHeld, NoScore
  <1>2. CASE e.kind # "zset"
    <2>1. e.items \subseteq Items
      BY DEF Good, Entry
    <2>2. HeldBy(e) = [i \in Items |-> IF i \in e.items THEN 1 ELSE 0]
      BY <1>2 DEF HeldBy, NoScore
    <2>3. Redis!NoItems = [i \in Items |-> 0]
      BY DEF Redis!NoItems, Redis!NotHeld
    <2>4. ASSUME NEW i \in e.items PROVE HeldBy(e) # Redis!NoItems
      <3>1. HeldBy(e)[i] = 1 /\ Redis!NoItems[i] = 0
        BY <2>1, <2>2, <2>3
      <3> QED BY <3>1
    <2>5. e.items = {} => HeldBy(e) = Redis!NoItems
      BY <2>2, <2>3
    <2> QED BY <1>2, <2>4, <2>5 DEF EmptyCollection
  <1> QED BY <1>1, <1>2

\* What is left of a collection under its old TTL, empty or not, is what the
\* reference leaves of a value with the same TTL.
LEMMA ViewHolding ==
  ASSUME NEW q, Good(q), q.ttl # "past", q.kind \in {"hash", "set", "zset"},
         NEW v, v.kind \in {"absent", q.kind}, v.ttl = q.ttl
  PROVE  /\ View(RemoveIfEmpty(q)) = Redis!Holding(v, q.kind, HeldBy(q))
         /\ ~EmptyCollection(q) => View(q) = Redis!Holding(v, q.kind, HeldBy(q))
  <1>1. CASE EmptyCollection(q)
    <2>1. RemoveIfEmpty(q) = Absent
      BY <1>1 DEF RemoveIfEmpty
    <2>2. HeldBy(q) = Redis!NoItems
      BY <1>1, EmptyShowsNoItems
    <2> QED BY <1>1, <2>1, <2>2, NothingShown DEF Redis!Holding
  <1>2. CASE ~EmptyCollection(q)
    <2>1. RemoveIfEmpty(q) = q
      BY <1>2 DEF RemoveIfEmpty
    <2>2. HeldBy(q) # Redis!NoItems
      BY <1>2, EmptyShowsNoItems
    <2>3. View(q) = Shown(q)
      BY ViewShows
    <2> QED BY <2>1, <2>2, <2>3 DEF Redis!Holding, Shown
  <1> QED BY <1>1, <1>2

\* or_insert_with: the new collection has the items and the TTL of the value, none.
LEMMA OrNewShows ==
  ASSUME NEW p, Good(p), NEW kind \in {"hash", "set", "zset"}
  PROVE  /\ HeldBy(OrNew(p, kind)) = HeldBy(p)
         /\ OrNew(p, kind).ttl = p.ttl
         /\ OrNew(p, kind).kind = IF p.kind = "absent" THEN kind ELSE p.kind
  <1>1. CASE p.kind = "absent"
    <2>1. OrNew(p, kind) = New(kind) /\ p.items = {} /\ p.ttl = "none"
      BY <1>1 DEF OrNew, Good
    <2>2. /\ New(kind).kind = kind /\ New(kind).ttl = "none"
          /\ New(kind).items = {} /\ New(kind).byMember = NoScores
      BY DEF New
    <2>3. HeldBy(New(kind)) = HeldBy(p)
      BY <1>1, <2>1, <2>2 DEF HeldBy, NoScores
    <2> QED BY <1>1, <2>1, <2>2, <2>3
  <1>2. CASE p.kind # "absent"
    BY <1>2 DEF OrNew
  <1> QED BY <1>1, <1>2

\* A command on a key of another kind changes neither.
LEMMA OtherKind ==
  ASSUME NEW e, Sound(e), NEW kind \in {"hash", "set", "zset"}, NEW held,
         Purged(e).kind # kind,
         Purged(e).kind = "absent" => held = Redis!NoItems
  PROVE  Redis!Holding(View(e), kind, held) = View(e)
  <1> DEFINE p == Purged(e)
  <1>1. View(e) = Shown(p) /\ Good(p)
    BY ViewPurged
  <1>2. View(e).kind = p.kind
    BY <1>1 DEF Shown
  <1>3. CASE p.kind = "absent"
    BY <1>1, <1>2, <1>3, NothingShown DEF Redis!Holding
  <1>4. CASE p.kind # "absent"
    BY <1>2, <1>4 DEF Redis!Holding
  <1> QED BY <1>3, <1>4

\* HSET, SADD and HINCRBY leave what the reference leaves.
LEMMA AddedAgrees ==
  ASSUME ~Malformed, NEW e, Sound(e), NEW kind \in {"hash", "set"},
         NEW new \in SUBSET Items, new # {}
  PROVE  View(Added(e, kind, new)) = Redis!Add(View(e), kind, new)
  <1> DEFINE p == Purged(e)
             n == OrNew(p, kind)
             q == [n EXCEPT !.items = @ \union new]
             held == [i \in Items |-> IF i \in new THEN 1 ELSE View(e).held[i]]
  <1>0. Redis!Add(View(e), kind, new) = Redis!Holding(View(e), kind, held)
    BY DEF Redis!Add
  <1>1. View(e) = Shown(p) /\ View(p) = View(e) /\ Good(p) /\ p.ttl # "past"
    BY ViewPurged
  <1>2. /\ HeldBy(n) = HeldBy(p) /\ n.ttl = p.ttl
        /\ n.kind = IF p.kind = "absent" THEN kind ELSE p.kind
    BY <1>1, OrNewShows
  <1>3. Good(n)
    BY PurgedSound, OrNewGood DEF Kinds
  <1>4. CASE n.kind = kind
    <2>1. Added(e, kind, new) = q
      BY <1>4 DEF Added
    <2>2. Sound(q) /\ q.kind = kind /\ q.ttl = n.ttl /\ q.items = n.items \union new
      <3>1. Sound(q)
        BY <2>1, AddedSound
      <3> HIDE DEF n
      <3> QED BY <1>3, <1>4, <3>1 DEF Good, Entry
    <2> HIDE DEF n, q
    <2>3. HeldBy(q) = held
      <3>1. HeldBy(q) = [i \in Items |-> IF i \in n.items \union new THEN 1 ELSE 0]
        BY <2>2 DEF HeldBy, NoScore
      <3>2. HeldBy(n) = [i \in Items |-> IF i \in n.items THEN 1 ELSE 0]
        BY <1>4 DEF HeldBy, NoScore
      <3>3. View(e).held = HeldBy(n)
        BY <1>1, <1>2 DEF Shown
      <3> QED BY <3>1, <3>2, <3>3
    <2>4. View(e).kind \in {"absent", kind} /\ View(e).ttl = q.ttl
      BY <1>1, <1>2, <1>4, <2>2 DEF Shown
    <2>5. Good(q) /\ ~EmptyCollection(q) /\ q.ttl # "past"
      BY <1>1, <1>2, <2>2 DEF Sound
    <2>6. View(q) = Redis!Holding(View(e), q.kind, HeldBy(q))
      BY <2>2, <2>4, <2>5, ViewHolding
    <2> QED BY <1>0, <2>1, <2>2, <2>3, <2>6
  <1>5. CASE n.kind # kind
    <2>1. Added(e, kind, new) = p
      BY <1>5 DEF Added, OrNew, New
    <2>2. p.kind # kind /\ p.kind # "absent"
      BY <1>2, <1>5
    <2> HIDE DEF p, held
    <2>3. Redis!Holding(View(e), kind, held) = View(e)
      BY <2>2, OtherKind DEF p
    <2> QED BY <1>0, <1>1, <2>1, <2>3
  <1> QED BY <1>4, <1>5

\* HDEL and SREM.
LEMMA RemovedAgrees ==
  ASSUME ~Malformed, NEW e, Sound(e), NEW kind \in {"hash", "set"}, NEW gone \in SUBSET Items
  PROVE  View(Removed(e, kind, gone)) = Redis!Remove(View(e), kind, gone)
  <1> DEFINE p == Purged(e)
             q == [p EXCEPT !.items = @ \ gone]
             held == [i \in Items |-> IF i \in gone THEN Redis!NotHeld ELSE View(e).held[i]]
  <1>0. Redis!Remove(View(e), kind, gone) = Redis!Holding(View(e), kind, held)
    BY DEF Redis!Remove
  <1>1. View(e) = Shown(p) /\ View(p) = View(e) /\ Good(p) /\ p.ttl # "past" /\ Sound(p)
    BY ViewPurged, PurgedSound
  <1>2. CASE p.kind = kind
    <2>1. Removed(e, kind, gone) = RemoveIfEmpty(q)
      BY <1>2 DEF Removed
    <2> HIDE DEF p
    <2>2. Good(q) /\ q.kind = kind /\ q.ttl = p.ttl /\ q.items = p.items \ gone
      BY <1>1, <1>2 DEF Good, Entry
    <2> HIDE DEF q
    <2>3. HeldBy(q) = held
      <3>1. HeldBy(q) = [i \in Items |-> IF i \in p.items \ gone THEN 1 ELSE 0]
        BY <2>2 DEF HeldBy, NoScore
      <3>2. HeldBy(p) = [i \in Items |-> IF i \in p.items THEN 1 ELSE 0]
        BY <1>2 DEF HeldBy, NoScore
      <3>3. View(e).held = HeldBy(p)
        BY <1>1 DEF Shown
      <3> QED BY <3>1, <3>2, <3>3 DEF Redis!NotHeld
    <2>4. View(e).kind = kind /\ View(e).ttl = q.ttl
      BY <1>1, <1>2, <2>2 DEF Shown
    <2>5. View(RemoveIfEmpty(q)) = Redis!Holding(View(e), q.kind, HeldBy(q))
      BY <1>1, <2>2, <2>4, ViewHolding
    <2> QED BY <1>0, <2>1, <2>2, <2>3, <2>5
  <1>3. CASE p.kind # kind
    <2>1. Removed(e, kind, gone) = p
      BY <1>1, <1>3 DEF Removed, RemoveIfEmpty, Sound
    <2>2. p.kind = "absent" => held = Redis!NoItems
      <3>1. ASSUME p.kind = "absent" PROVE View(e).held = Redis!NoItems
        BY <1>1, <3>1, NothingShown
      <3> QED BY <3>1 DEF Redis!NoItems
    <2> HIDE DEF p, held
    <2>3. Redis!Holding(View(e), kind, held) = View(e)
      BY <1>3, <2>2, OtherKind DEF p
    <2> QED BY <1>0, <1>1, <2>1, <2>3
  <1> QED BY <1>2, <1>3

\* SortedSet::insert, shown: the members written get the score, the others keep theirs.
LEMMA ZInsertShows ==
  ASSUME NEW e, Good(e), e.kind = "zset", NEW score, NEW members \in SUBSET Items,
         \A i \in members : score[i] \in Scores
  PROVE  /\ HeldBy(ZInsert(e, score, members)) =
                [i \in Items |-> IF i \in members THEN score[i] ELSE e.byMember[i]]
         /\ ZInsert(e, score, members).ttl = e.ttl
  <1>1. ZInsert(e, score, members).kind = "zset"
    BY ZInsertGood
  <1>2. /\ ZInsert(e, score, members).byMember =
               [i \in Items |-> IF i \in members THEN score[i] ELSE e.byMember[i]]
        /\ ZInsert(e, score, members).ttl = e.ttl
    BY DEF ZInsert, Good, Entry
  <1> QED BY <1>1, <1>2 DEF HeldBy

\* A sorted set whose members in `members` got their scores, empty or not, is what
\* the reference makes of the scores it had.
LEMMA ZInsertAgrees ==
  ASSUME ~Malformed, NEW e, Sound(e), NEW score, NEW members \in SUBSET Items, NEW held,
         \A i \in members : score[i] \in Scores,
         OrNew(Purged(e), "zset").kind = "zset",
         held = [i \in Items |-> IF i \in members THEN score[i] ELSE View(e).held[i]]
  PROVE  LET q == ZInsert(OrNew(Purged(e), "zset"), score, members)
         IN  /\ View(RemoveIfEmpty(q)) = Redis!Holding(View(e), "zset", held)
             /\ ~EmptyCollection(q) => View(q) = Redis!Holding(View(e), "zset", held)
  <1> DEFINE p == Purged(e)
             n == OrNew(p, "zset")
             q == ZInsert(n, score, members)
  <1>1. View(e) = Shown(p) /\ Good(p) /\ p.ttl # "past"
    BY ViewPurged
  <1>2. /\ HeldBy(n) = HeldBy(p) /\ n.ttl = p.ttl
        /\ n.kind = IF p.kind = "absent" THEN "zset" ELSE p.kind
    BY <1>1, OrNewShows
  <1>3. Good(n) /\ n.kind = "zset"
    BY PurgedSound, OrNewGood DEF Kinds
  <1> HIDE DEF p, n
  <1>4. Good(q) /\ q.kind = "zset"
    BY <1>3, ZInsertGood
  <1>5. /\ HeldBy(q) = [i \in Items |-> IF i \in members THEN score[i] ELSE n.byMember[i]]
        /\ q.ttl = n.ttl
    BY <1>3, ZInsertShows
  <1>6. View(e).held = n.byMember /\ View(e).kind \in {"absent", "zset"} /\ View(e).ttl = q.ttl
    BY <1>1, <1>2, <1>3, <1>5 DEF Shown, HeldBy
  <1>7. HeldBy(q) = held
    BY <1>5, <1>6
  <1>8. q.ttl # "past"
    BY <1>1, <1>2, <1>5
  <1> HIDE DEF q
  <1>9. /\ View(RemoveIfEmpty(q)) = Redis!Holding(View(e), "zset", held)
        /\ ~EmptyCollection(q) => View(q) = Redis!Holding(View(e), "zset", held)
    BY <1>4, <1>6, <1>7, <1>8, ViewHolding
  <1> QED BY <1>9 DEF q, n, p

\* ZADD with any flags: a member whose score stays the same is not written, which
\* cannot be seen.
LEMMA ZAddedAgrees ==
  ASSUME ~Malformed, NEW e, Sound(e), NEW score \in Scoring, NEW flags
  PROVE  View(ZAdded(e, score, flags)) = Redis!ZAdd(View(e), score, flags)
  <1> DEFINE p == Purged(e)
             n == OrNew(p, "zset")
             members == Accepted(n, score, flags)
             held == [i \in Items |-> IF Redis!Wins(score[i], View(e).held[i], flags)
                                      THEN score[i] ELSE View(e).held[i]]
  <1>0. Redis!ZAdd(View(e), score, flags) = Redis!Holding(View(e), "zset", held)
    BY DEF Redis!ZAdd
  <1>1. View(e) = Shown(p) /\ View(p) = View(e) /\ Good(p) /\ Sound(p)
    BY ViewPurged, PurgedSound
  <1>2. /\ HeldBy(n) = HeldBy(p)
        /\ n.kind = IF p.kind = "absent" THEN "zset" ELSE p.kind
    BY <1>1, OrNewShows
  <1>3. Good(n)
    BY <1>1, OrNewGood DEF Kinds
  <1>4. members \in SUBSET Items /\ \A i \in members : score[i] \in Scores
    BY DEF Accepted, Scoring
  <1>5. CASE n.kind = "zset"
    <2>1. ZAdded(e, score, flags) = RemoveIfEmpty(ZInsert(n, score, members))
      BY <1>5 DEF ZAdded
    <2>2. View(e).held = n.byMember
      BY <1>1, <1>2, <1>5 DEF Shown, HeldBy
    <2>3. held = [i \in Items |-> IF i \in members THEN score[i] ELSE View(e).held[i]]
      <3> SUFFICES ASSUME NEW i \in Items
                   PROVE  (IF Redis!Wins(score[i], View(e).held[i], flags)
                             THEN score[i] ELSE View(e).held[i])
                        = (IF i \in members THEN score[i] ELSE View(e).held[i])
        OBVIOUS
      <3> HIDE DEF n
      <3>1. i \in members <=> /\ Redis!Wins(score[i], n.byMember[i], flags)
                              /\ score[i] # n.byMember[i]
        BY DEF Accepted, Redis!Wins, Redis!NotHeld, NoScore
      <3> QED BY <2>2, <3>1
    <2> HIDE DEF members, held
    <2> QED BY <1>0, <1>4, <1>5, <2>1, <2>3, ZInsertAgrees
  <1>6. CASE n.kind # "zset"
    <2>1. n = p
      BY <1>6 DEF OrNew, New
    <2>2. ZAdded(e, score, flags) = p
      BY <1>1, <1>6, <2>1 DEF ZAdded, RemoveIfEmpty, Sound
    <2>3. p.kind # "zset" /\ p.kind # "absent"
      BY <1>2, <1>6
    <2> HIDE DEF p, held
    <2>4. Redis!Holding(View(e), "zset", held) = View(e)
      BY <2>3, OtherKind DEF p
    <2> QED BY <1>0, <1>1, <2>2, <2>4
  <1> QED BY <1>5, <1>6

\* ZADD in a script, which writes every pair.
LEMMA ScriptZAddedAgrees ==
  ASSUME ~Malformed, NEW e, Sound(e), NEW score \in Scoring, score # NoScores
  PROVE  View(ScriptZAdded(e, score)) = Redis!ZAdd(View(e), score, {})
  <1> DEFINE p == Purged(e)
             n == OrNew(p, "zset")
             named == {i \in Items : score[i] # NoScore}
             held == [i \in Items |-> IF Redis!Wins(score[i], View(e).held[i], {})
                                      THEN score[i] ELSE View(e).held[i]]
  <1>0. Redis!ZAdd(View(e), score, {}) = Redis!Holding(View(e), "zset", held)
    BY DEF Redis!ZAdd
  <1>1. View(e) = Shown(p) /\ View(p) = View(e) /\ Good(p)
    BY ViewPurged
  <1>2. n.kind = IF p.kind = "absent" THEN "zset" ELSE p.kind
    BY <1>1, OrNewShows
  <1>3. named \in SUBSET Items /\ \A i \in named : score[i] \in Scores
    BY DEF Scoring
  <1>4. CASE n.kind = "zset"
    <2>1. ScriptZAdded(e, score) = ZInsert(n, score, named)
      BY <1>4 DEF ScriptZAdded
    <2>2. held = [i \in Items |-> IF i \in named THEN score[i] ELSE View(e).held[i]]
      BY DEF Redis!Wins, Redis!NotHeld, NoScore
    <2>3. ~EmptyCollection(ZInsert(n, score, named))
      BY <2>1, ScriptZAddedSound DEF Sound
    <2> HIDE DEF named, held
    <2> QED BY <1>0, <1>3, <1>4, <2>1, <2>2, <2>3, ZInsertAgrees
  <1>5. CASE n.kind # "zset"
    <2>1. ScriptZAdded(e, score) = p
      BY <1>5 DEF ScriptZAdded, OrNew, New
    <2>2. p.kind # "zset" /\ p.kind # "absent"
      BY <1>2, <1>5
    <2> HIDE DEF p, held
    <2>3. Redis!Holding(View(e), "zset", held) = View(e)
      BY <2>2, OtherKind DEF p
    <2> QED BY <1>0, <1>1, <2>1, <2>3
  <1> QED BY <1>4, <1>5

\* Removing members from a sorted set.
LEMMA ZRemovedAgrees ==
  ASSUME ~Malformed, NEW e, Sound(e), NEW members \in SUBSET Items, NEW held,
         held = [i \in Items |-> IF i \in members THEN NoScore ELSE View(e).held[i]]
  PROVE  View(ZRemoved(e, members)) = Redis!Holding(View(e), "zset", held)
  <1> DEFINE p == Purged(e)
             q == ZDrop(p, members)
  <1>1. View(e) = Shown(p) /\ View(p) = View(e) /\ Good(p) /\ p.ttl # "past" /\ Sound(p)
    BY ViewPurged, PurgedSound
  <1>2. CASE p.kind = "zset"
    <2>1. ZRemoved(e, members) = RemoveIfEmpty(q)
      BY <1>2 DEF ZRemoved
    <2> HIDE DEF p
    <2>2. Good(q)
      BY <1>1, <1>2, ZDropGood
    <2>3. /\ q.kind = "zset" /\ q.ttl = p.ttl
          /\ q.byMember = [i \in Items |-> IF i \in members THEN NoScore ELSE p.byMember[i]]
      BY <1>1, <1>2 DEF ZDrop, Good, Entry
    <2> HIDE DEF q
    <2>4. HeldBy(q) = held
      BY <1>1, <1>2, <2>3 DEF HeldBy, Shown
    <2>5. View(e).kind = "zset" /\ View(e).ttl = q.ttl
      BY <1>1, <1>2, <2>3 DEF Shown
    <2> QED BY <1>1, <2>1, <2>2, <2>3, <2>4, <2>5, ViewHolding
  <1>3. CASE p.kind # "zset"
    <2>1. ZRemoved(e, members) = p
      BY <1>1, <1>3 DEF ZRemoved, RemoveIfEmpty, Sound
    <2>2. p.kind = "absent" => held = Redis!NoItems
      <3>1. ASSUME p.kind = "absent" PROVE View(e).held = Redis!NoItems
        BY <1>1, <3>1, NothingShown
      <3> QED BY <3>1 DEF Redis!NoItems, Redis!NotHeld, NoScore
    <2> HIDE DEF p
    <2>3. Redis!Holding(View(e), "zset", held) = View(e)
      BY <1>3, <2>2, OtherKind DEF p
    <2> QED BY <1>1, <2>1, <2>3
  <1> QED BY <1>2, <1>3

\* A range query finds the members whose score, by the other index, is in the range.
LEMMA InRangeIsByScore ==
  ASSUME NEW e, Good(e), NEW min \in Scores, NEW max \in Scores
  PROVE  InRange(e, min, max) = {i \in Items : e.byMember[i] \in min .. max}
  <1>1. ASSUME NEW i \in Items
        PROVE  (\E s \in Scores : <<s, i>> \in e.byScore /\ min <= s /\ s <= max)
               <=> e.byMember[i] \in min .. max
    <2>1. \A s \in Scores : <<s, i>> \in e.byScore <=> e.byMember[i] = s
      BY DEF Good
    <2>2. \A s : s \in min .. max <=> s \in Scores /\ min <= s /\ s <= max
      BY ConstantsAssumption DEF Scores
    <2> QED BY <2>1, <2>2
  <1> QED BY <1>1 DEF InRange

\* ZREMRANGEBYSCORE.
LEMMA ZRangeRemovedAgrees ==
  ASSUME ~Malformed, NEW e, Sound(e), NEW min \in Scores, NEW max \in Scores
  PROVE  View(ZRangeRemoved(e, min, max)) = Redis!ZRemRangeByScore(View(e), min, max)
  <1> DEFINE p == Purged(e)
             members == InRange(p, min, max)
             held == Redis!Outside(View(e).held, min, max)
  <1>1. View(e) = Shown(p) /\ Good(p) /\ View(p) = View(e)
    BY ViewPurged
  <1>2. members = {i \in Items : p.byMember[i] \in min .. max}
    BY <1>1, InRangeIsByScore
  <1>3. 0 \notin min .. max
    BY ConstantsAssumption DEF Scores
  <1>4. CASE p.kind = "zset"
    <2>1. View(e).held = p.byMember
      BY <1>1, <1>4 DEF Shown, HeldBy
    <2>2. held = [i \in Items |-> IF i \in members THEN NoScore ELSE View(e).held[i]]
      BY <1>2, <2>1 DEF Redis!Outside, Redis!NotHeld, NoScore
    <2>3. members \in SUBSET Items
      BY <1>2
    <2> HIDE DEF members, held
    <2>4. View(ZRemoved(e, members)) = Redis!Holding(View(e), "zset", held)
      BY <2>2, <2>3, ZRemovedAgrees
    <2> QED BY <2>4 DEF ZRangeRemoved, Redis!ZRemRangeByScore, members, held
  <1>5. CASE p.kind # "zset"
    <2>1. ZRangeRemoved(e, min, max) = p
      BY <1>5, PurgedSound DEF ZRangeRemoved, ZRemoved, RemoveIfEmpty, Sound
    <2>2. p.kind = "absent" => held = Redis!NoItems
      <3>1. ASSUME p.kind = "absent" PROVE View(e).held = Redis!NoItems
        BY <1>1, <3>1, NothingShown
      <3> QED BY <1>3, <3>1 DEF Redis!NoItems, Redis!NotHeld, Redis!Outside
    <2> HIDE DEF p, held
    <2>3. Redis!Holding(View(e), "zset", held) = View(e)
      BY <1>5, <2>2, OtherKind DEF p
    <2> QED BY <1>1, <2>1, <2>3 DEF Redis!ZRemRangeByScore, held
  <1> QED BY <1>4, <1>5

\* ZRANGESTORE: the score it takes from by_score is the one by_member has.
LEMMA ZStoredAgrees ==
  ASSUME ~Malformed, NEW e, Sound(e), NEW v, NEW min \in Scores, NEW max \in Scores,
         Purged(e).kind \in {"absent", "zset"}
  PROVE  View(ZStored(Purged(e), min, max)) = Redis!ZRangeStore(v, View(e), min, max)
  <1> DEFINE p == Purged(e)
             Pairs(i) == {s \in min .. max : <<s, i>> \in p.byScore}
             score == [i \in Items |-> CHOOSE s \in Pairs(i) : \A t \in Pairs(i) : t <= s]
             found == InRange(p, min, max)
             held == Redis!Within(View(e).held, min, max)
             z == New("zset")
             q == ZInsert(z, score, found)
  <1>1. View(e) = Shown(p) /\ Good(p)
    BY ViewPurged
  <1>2. found = {i \in Items : p.byMember[i] \in min .. max}
    BY <1>1, InRangeIsByScore
  <1>3. View(e).kind = p.kind /\ \A i \in Items : View(e).held[i] = p.byMember[i]
    <2>1. CASE p.kind = "zset"
      BY <1>1, <2>1 DEF Shown, HeldBy
    <2>2. CASE p.kind = "absent"
      <3>1. p.byMember = NoScores /\ View(e).held = Redis!NoItems /\ View(e).kind = "absent"
        BY <1>1, <2>2, NothingShown DEF Good
      <3> QED BY <2>2, <3>1 DEF NoScores, NoScore, Redis!NoItems, Redis!NotHeld
    <2> QED BY <2>1, <2>2
  <1>4. ASSUME NEW i \in found PROVE score[i] = p.byMember[i] /\ score[i] \in Scores
    <2>1. i \in Items /\ p.byMember[i] \in min .. max
      BY <1>2
    <2>2. \A s \in min .. max : s \in Scores
      BY ConstantsAssumption DEF Scores
    <2>3. Pairs(i) = {p.byMember[i]}
      BY <1>1, <2>1, <2>2 DEF Good
    <2>4. p.byMember[i] <= p.byMember[i]
      BY <2>1
    <2> HIDE DEF Pairs
    <2>5. (CHOOSE s \in Pairs(i) : \A t \in Pairs(i) : t <= s) = p.byMember[i]
      BY <2>3, <2>4
    <2> QED BY <2>1, <2>2, <2>5
  <1>5. Redis!ZRangeStore(v, View(e), min, max) = Redis!Holding(Redis!Nothing, "zset", held)
    BY <1>3 DEF Redis!ZRangeStore
  <1>6. held = [i \in Items |-> IF i \in found THEN score[i] ELSE 0]
    <2>1. ASSUME NEW i \in Items
          PROVE  (IF View(e).held[i] \in min .. max THEN View(e).held[i] ELSE 0)
               = (IF i \in found THEN score[i] ELSE 0)
      <3> HIDE DEF score
      <3> QED BY <1>2, <1>3, <1>4
    <2> HIDE DEF found, score
    <2> QED BY <2>1 DEF Redis!Within, Redis!NotHeld
  <1>7. Good(z) /\ z.kind = "zset" /\ z.ttl = "none" /\ z.byMember = NoScores
    BY NewGood DEF Kinds, New
  <1>8. found \in SUBSET Items
    BY <1>2
  <1> HIDE DEF score, found, z, held
  <1>9. /\ Good(q) /\ q.kind = "zset" /\ q.ttl = "none"
        /\ HeldBy(q) = [i \in Items |-> IF i \in found THEN score[i] ELSE z.byMember[i]]
    BY <1>4, <1>7, <1>8, ZInsertGood, ZInsertShows
  <1>10. HeldBy(q) = held
    BY <1>6, <1>7, <1>9 DEF NoScores, NoScore
  <1>11. CASE found = {}
    <2>1. ZStored(p, min, max) = Absent
      BY <1>11 DEF ZStored, found
    <2>2. held = Redis!NoItems
      BY <1>6, <1>11 DEF Redis!NoItems, Redis!NotHeld
    <2>3. View(ZStored(p, min, max)) = Redis!Nothing
      BY <2>1, NothingShown
    <2>4. Redis!Holding(Redis!Nothing, "zset", held) = Redis!Nothing
      BY <2>2, NothingShown DEF Redis!Holding
    <2> QED BY <1>5, <2>3, <2>4
  <1>12. CASE found # {}
    <2>1. ZStored(p, min, max) = q
      BY <1>12 DEF ZStored, found, score, z
    <2>2. ~EmptyCollection(q)
      BY <1>4, <1>7, <1>8, <1>12, ZInsertNotEmpty
    <2>3. Redis!Nothing.kind = "absent" /\ Redis!Nothing.ttl = q.ttl
      BY <1>9, NothingShown
    <2> HIDE DEF q
    <2>4. View(q) = Redis!Holding(Redis!Nothing, "zset", HeldBy(q))
      BY <1>9, <2>2, <2>3, ViewHolding
    <2> QED BY <1>5, <1>10, <2>1, <2>4
  <1> QED BY <1>11, <1>12

\* Only a missing key shows Nothing.
LEMMA ShowsNothing ==
  ASSUME NEW e, Sound(e)
  PROVE  View(e) = Redis!Nothing <=> Purged(e).kind = "absent"
  <1>1. View(e) = Shown(Purged(e)) /\ Good(Purged(e))
    BY ViewPurged
  <1> QED BY <1>1, NothingShown DEF Shown

\* SET in every mode, when it goes ahead.
LEMMA SetAgrees ==
  ASSUME NEW e, Sound(e), NEW mode, NEW ttl \in Ttls,
         mode = "NX" => ~Live(e), mode = "XX" => Live(e)
  PROVE  View([New("string") EXCEPT !.ttl = ttl]) = Redis!Set(View(e), mode, ttl)
  <1> DEFINE q == [New("string") EXCEPT !.ttl = ttl]
  <1>1. View(e) = Redis!Nothing <=> ~Live(e)
    BY ShowsNothing, AbsentSound DEF Purged, Live, Absent, New
  <1>2. /\ q.kind = "string" /\ q.ttl = ttl /\ q.items = {}
        /\ HeldBy(q) = Redis!NoItems
    BY DEF New, HeldBy, Redis!NoItems, Redis!NotHeld, NoScore
  <1> HIDE DEF q
  <1>3. View(q) = IF ttl = "past" THEN Redis!Nothing ELSE Shown(q)
    BY <1>2 DEF View, Live, Expired, Shown, HeldBy
  <1>4. Redis!Set(View(e), mode, ttl) = IF ttl = "past" THEN Redis!Nothing ELSE Shown(q)
    BY <1>1, <1>2 DEF Redis!Set, Shown
  <1> QED BY <1>3, <1>4 DEF q

\* The commands on lists and streams, as far as they are seen here.
LEMMA GrowAgrees ==
  ASSUME NEW e, Sound(e), NEW kind \in {"list", "stream"}
  PROVE  View(OrNew(Purged(e), kind)) = Redis!Grow(View(e), kind)
  <1> DEFINE p == Purged(e)
  <1>1. View(p) = View(e) /\ (View(e) = Redis!Nothing <=> p.kind = "absent")
    BY ViewPurged, ShowsNothing
  <1>2. CASE p.kind = "absent"
    <2>1. /\ New(kind).kind = kind /\ New(kind).ttl = "none"
          /\ HeldBy(New(kind)) = Redis!NoItems
      BY DEF New, HeldBy, Redis!NoItems, Redis!NotHeld, NoScore
    <2>2. Good(New(kind))
      BY NewGood DEF Kinds
    <2>3. View(New(kind)) = Shown(New(kind))
      BY <2>1, <2>2, ViewShows
    <2>4. Redis!Grow(View(e), kind) = [kind |-> kind, held |-> Redis!NoItems, ttl |-> "none"]
      BY <1>1, <1>2 DEF Redis!Grow, Redis!Nothing
    <2> QED BY <1>2, <2>1, <2>3, <2>4 DEF OrNew, Shown
  <1>3. CASE p.kind # "absent"
    BY <1>1, <1>3 DEF OrNew, Redis!Grow
  <1> QED BY <1>2, <1>3

\* EXPIRE.
LEMMA ExpireAgrees ==
  ASSUME NEW e, Sound(e)
  PROVE  LET p == Purged(e)
         IN  View(IF p.kind = "absent" THEN p ELSE [p EXCEPT !.ttl = "running"])
             = Redis!Expire(View(e))
  <1> DEFINE p == Purged(e)
             q == [p EXCEPT !.ttl = "running"]
  <1>1. /\ View(p) = View(e) /\ View(e) = Shown(p) /\ Good(p)
        /\ (View(e) = Redis!Nothing <=> p.kind = "absent")
    BY ViewPurged, ShowsNothing
  <1>2. CASE p.kind = "absent"
    BY <1>1, <1>2 DEF Redis!Expire
  <1>3. CASE p.kind # "absent"
    <2> HIDE DEF p
    <2>1. /\ q.kind = p.kind /\ q.items = p.items /\ q.byMember = p.byMember
          /\ q.ttl = "running"
      BY <1>1 DEF Good, Entry
    <2>2. Good(q)
      BY <1>1, <1>3 DEF Good, Entry, Ttls
    <2>3. View(q) = Shown(q) /\ HeldBy(q) = HeldBy(p)
      BY <2>1, <2>2, ViewShows DEF HeldBy
    <2>4. Redis!Expire(View(e)) = [kind |-> p.kind, held |-> HeldBy(p), ttl |-> "running"]
      BY <1>1, <1>3 DEF Redis!Expire, Shown
    <2>5. View(q) = Redis!Expire(View(e))
      BY <2>1, <2>3, <2>4 DEF Shown
    <2> QED BY <1>3, <2>5 DEF p
  <1> QED BY <1>2, <1>3

\* The store shows what the reference holds.
Agree == redis = [k \in Keys |-> View(db[k])]

\* A command that leaves at its key what the reference leaves there keeps the two
\* in step.
LEMMA UpdateAgrees ==
  ASSUME IInv, Agree, NEW k \in Keys, NEW e, NEW v, View(e) = v, Update(k, e, v)
  PROVE  Agree'
  <1>1. db' = [db EXCEPT ![k] = e] /\ redis' = [redis EXCEPT ![k] = v]
    BY DEF Update, Write
  <1>2. db = [j \in Keys |-> db[j]]
    BY DEF IInv
  <1>3. \A j \in Keys : View(db'[j]) = IF j = k THEN v ELSE View(db[j])
    BY <1>1, <1>2
  <1>4. redis' = [j \in Keys |-> IF j = k THEN v ELSE View(db[j])]
    BY <1>1 DEF Agree
  <1>5. redis' = [j \in Keys |-> View(db'[j])]
    BY <1>3, <1>4
  <1> QED BY <1>5 DEF Agree, View, Live, Expired

\* A step that only lets passive expiration happen changes nothing to be seen.
LEMMA PurgingAgrees ==
  ASSUME IInv, Agree, NEW ks, redis' = redis,
         db' = [k \in Keys |-> IF k \in ks THEN Purged(db[k]) ELSE db[k]]
  PROVE  Agree'
  <1>1. \A k \in Keys : View(Purged(db[k])) = View(db[k])
    BY ViewPurged DEF IInv
  <1>2. \A k \in Keys : View(db'[k]) = View(db[k])
    BY <1>1
  <1>3. redis' = [k \in Keys |-> View(db'[k])]
    BY <1>2 DEF Agree
  <1> QED BY <1>3 DEF Agree, View, Live, Expired

\* ZRANGESTORE, whose source goes if it had expired.
LEMMA ZRangeStoreAgrees ==
  ASSUME ~Malformed, IInv, Agree, NEW k \in Keys, NEW src \in Keys,
         NEW min \in Scores, NEW max \in Scores, ZRangeStore(k, src, min, max)
  PROVE  Agree'
  <1> DEFINE p == Purged(db[src])
             z == ZStored(p, min, max)
             d == [db EXCEPT ![src] = p]
             f == [d EXCEPT ![k] = z]
             r == Redis!ZRangeStore(redis[k], redis[src], min, max)
  <1>1. db = [j \in Keys |-> db[j]] /\ \A j \in Keys : redis[j] = View(db[j])
    BY DEF IInv, Agree
  <1>2. Sound(db[src]) /\ View(p) = View(db[src]) /\ View(db[src]).kind = p.kind
    <2>1. Sound(db[src])
      BY DEF IInv
    <2> QED BY <2>1, ViewPurged DEF Shown
  <1>3. redis' = [redis EXCEPT ![k] = r]
    BY DEF ZRangeStore, Write
  <1>4. \A j \in Keys : d[j] = IF j = src THEN p ELSE db[j]
    BY <1>1
  <1>5. \A j \in Keys : f[j] = IF j = k THEN z ELSE d[j]
    BY <1>1
  <1>6. CASE p.kind \notin {"absent", "zset"}
    <2>1. db' = d
      BY <1>6 DEF ZRangeStore, Write
    <2>2. r = redis[k]
      BY <1>1, <1>2, <1>6 DEF Redis!ZRangeStore
    <2> HIDE DEF p, r, d
    <2>3. \A j \in Keys : View(db'[j]) = View(db[j])
      BY <1>2, <1>4, <2>1
    <2>4. redis' = [j \in Keys |-> View(db'[j])]
      BY <1>3, <2>2, <2>3 DEF Agree
    <2> QED BY <2>4 DEF Agree, View, Live, Expired
  <1>7. CASE p.kind \in {"absent", "zset"}
    <2>1. db' = f
      BY <1>7 DEF ZRangeStore, Write
    <2>2. r = View(z)
      BY <1>1, <1>2, <1>7, ZStoredAgrees
    <2> HIDE DEF p, r, d, f, z
    <2>3. \A j \in Keys : View(db'[j]) = IF j = k THEN r ELSE View(db[j])
      BY <1>2, <1>4, <1>5, <2>1, <2>2
    <2>4. redis' = [j \in Keys |-> View(db'[j])]
      BY <1>3, <2>3 DEF Agree
    <2> QED BY <2>4 DEF Agree, View, Live, Expired
  <1> QED BY <1>6, <1>7

\* Every command of the Python thread on one key keeps the store in step.
LEMMA CommandAgrees ==
  ASSUME ~Malformed, IInv, Agree, NEW k \in Keys, Command(k) PROVE Agree'
  <1>0. Sound(db[k]) /\ redis[k] = View(db[k])
    BY DEF IInv, Agree
  <1>1. ASSUME NEW some \in SUBSET Items, HSet(k, some) PROVE Agree'
    BY <1>0, <1>1, AddedAgrees, UpdateAgrees DEF HSet
  <1>2. ASSUME NEW some \in SUBSET Items, HDel(k, some) PROVE Agree'
    BY <1>0, <1>2, RemovedAgrees, UpdateAgrees DEF HDel
  <1>3. ASSUME NEW i \in Items, HIncrBy(k, i) PROVE Agree'
    <2>1. {i} \in SUBSET Items /\ {i} # {}
      OBVIOUS
    <2>2. View(Added(db[k], "hash", {i})) = Redis!Add(redis[k], "hash", {i})
      BY <1>0, <2>1, AddedAgrees
    <2> QED BY <1>0, <1>3, <2>2, UpdateAgrees DEF HIncrBy
  <1>4. ASSUME NEW some \in SUBSET Items, SAdd(k, some) PROVE Agree'
    BY <1>0, <1>4, AddedAgrees, UpdateAgrees DEF SAdd
  <1>5. ASSUME NEW some \in SUBSET Items, SRem(k, some) PROVE Agree'
    BY <1>0, <1>5, RemovedAgrees, UpdateAgrees DEF SRem
  <1>6. ASSUME NEW score \in Scoring, NEW flags \in Flags, ZAdd(k, score, flags) PROVE Agree'
    BY <1>0, <1>6, ZAddedAgrees, UpdateAgrees DEF ZAdd
  <1>7. ASSUME NEW score \in Scoring, ScriptZAdd(k, score) PROVE Agree'
    BY <1>0, <1>7, ScriptZAddedAgrees, UpdateAgrees DEF ScriptZAdd
  <1>8. ASSUME NEW some \in SUBSET Items, ZRem(k, some) PROVE Agree'
    <2>1. View(ZRemoved(db[k], some)) = Redis!Remove(redis[k], "zset", some)
      BY <1>0, ZRemovedAgrees DEF Redis!Remove, Redis!NotHeld, NoScore
    <2> QED BY <1>0, <1>8, <2>1, UpdateAgrees DEF ZRem
  <1>9. ASSUME NEW min \in Scores, NEW max \in Scores, ZRemRangeByScore(k, min, max)
        PROVE  Agree'
    BY <1>0, <1>9, ZRangeRemovedAgrees, UpdateAgrees DEF ZRemRangeByScore
  <1>10. ASSUME NEW src \in Keys, NEW min \in Scores, NEW max \in Scores,
                ZRangeStore(k, src, min, max)
         PROVE  Agree'
    BY <1>10, ZRangeStoreAgrees
  <1>11. ASSUME NEW mode \in {"any", "NX", "XX"}, NEW ttl \in Ttls, Set(k, mode, ttl)
         PROVE  Agree'
    <2>1. View([New("string") EXCEPT !.ttl = ttl]) = Redis!Set(redis[k], mode, ttl)
      BY <1>0, <1>11, SetAgrees DEF Set
    <2> QED BY <1>11, <2>1, UpdateAgrees DEF Set
  <1>12. ASSUME NEW kind \in {"list", "stream"}, Grow(k, kind) PROVE Agree'
    BY <1>0, <1>12, GrowAgrees, UpdateAgrees DEF Grow
  <1>13. CASE Expire(k)
    BY <1>0, <1>13, ExpireAgrees, UpdateAgrees DEF Expire
  <1>14. CASE Touch(k)
    BY <1>0, <1>14, ViewPurged, UpdateAgrees DEF Touch
  <1>15. CASE GetReads(k)
    BY <1>15 DEF GetReads, Agree, View, Live, Expired
  <1> QED BY <1>1, <1>2, <1>3, <1>4, <1>5, <1>6, <1>7, <1>8, <1>9, <1>10, <1>11,
             <1>12, <1>13, <1>14, <1>15, ZenonT(60) DEF Command

\* Every step does: a TTL that ends takes the value from both.
LEMMA NextAgrees == ASSUME ~Malformed, IInv, Agree, [Next]_vars PROVE Agree'
  <1>0. /\ db = [k \in Keys |-> db[k]] /\ redis = [k \in Keys |-> View(db[k])]
        /\ \A k \in Keys : Sound(db[k])
    BY DEF IInv, Agree
  <1>1. ASSUME NEW k \in Keys, Command(k) PROVE Agree'
    BY <1>1, CommandAgrees
  <1>2. ASSUME NEW ks \in SUBSET Keys, Del(ks) PROVE Agree'
    <2>1. /\ db' = [k \in Keys |-> IF k \in ks THEN Absent ELSE db[k]]
          /\ redis' = [k \in Keys |-> IF k \in ks THEN Redis!Nothing ELSE redis[k]]
      BY <1>2 DEF Del, Write
    <2>2. redis' = [k \in Keys |-> View(db'[k])]
      BY <1>0, <2>1, NothingShown
    <2> QED BY <2>2 DEF Agree, View, Live, Expired
  <1>3. CASE GetRemoves
    BY <1>3, PurgingAgrees DEF GetRemoves
  <1>4. CASE Sweep
    BY <1>4, PurgingAgrees DEF Sweep
  <1>5. ASSUME NEW k \in Keys, TaskPushes(k) PROVE Agree'
    <2> DEFINE e == OrNew(Purged(db[k]), "list")
               v == Redis!Grow(redis[k], "list")
    <2>1. db' = [db EXCEPT ![k] = e] /\ redis' = [redis EXCEPT ![k] = v]
      BY <1>5 DEF TaskPushes
    <2>2. View(e) = v
      BY <1>0, GrowAgrees
    <2> HIDE DEF e, v
    <2>3. redis' = [j \in Keys |-> View(db'[j])]
      BY <1>0, <2>1, <2>2
    <2> QED BY <2>3 DEF Agree, View, Live, Expired
  <1>6. ASSUME NEW k \in Keys, TimePasses(k) PROVE Agree'
    <2> DEFINE e == [db[k] EXCEPT !.ttl = "past"]
    <2>1. db' = [db EXCEPT ![k] = e] /\ redis' = [redis EXCEPT ![k] = Redis!Nothing]
      BY <1>6 DEF TimePasses
    <2>2. e.ttl = "past"
      BY <1>0 DEF Sound, Good, Entry
    <2>3. View(e) = Redis!Nothing
      BY <2>2 DEF View, Live, Expired
    <2> HIDE DEF e
    <2>4. redis' = [j \in Keys |-> View(db'[j])]
      BY <1>0, <2>1, <2>3
    <2> QED BY <2>4 DEF Agree, View, Live, Expired
  <1>7. CASE UNCHANGED vars
    BY <1>7 DEF vars, Agree, View, Live, Expired
  <1> QED BY <1>1, <1>2, <1>3, <1>4, <1>5, <1>6, <1>7 DEF Next

\* With well-formed calls, every key shows in every state what Redis would have
\* there, for any number of keys and items, any scores and any sweep limit:
\* whatever the order in which commands, sweeps, tasks and the ends of TTLs come.
THEOREM StoreHoldsWhatRedisHolds ==
  ASSUME ~Malformed PROVE Spec => []HoldsWhatRedisHolds
  <1>1. Init => Agree
    BY NothingShown DEF Init, Agree
  <1>2. IInv /\ Agree /\ [Next]_vars => Agree'
    BY NextAgrees
  <1>3. Agree => HoldsWhatRedisHolds
    BY DEF Agree, HoldsWhatRedisHolds
  <1> QED BY <1>1, <1>2, <1>3, KeyspaceInvariant, PTL DEF Spec

=============================================================================
