------------------------ MODULE StreamBlockingProofs ------------------------
(***************************************************************************)
(* What StreamBlocking promises of XREAD and XREADGROUP, for any number of *)
(* keys, clients and calls: NoLostWakeup, OneReceiver, HandedIsPending and *)
(* ReplyHasNoGap.                                                          *)
(*                                                                         *)
(* None of the four is inductive.  They rest on how a stream is laid out   *)
(* (EntryOK: entries up to last_id, pending ids up to the cursor), on what *)
(* is known of a call while its future sleeps (CallOK, ParkedOK) and on  *)
(* what the history variables record (SinceOK, GotOK): as long as no       *)
(* stream and no group of a call has gone, what it was promised is still   *)
(* below last_id, and what it was handed below the cursor.                 *)
(***************************************************************************)
EXTENDS StreamBlocking, FiniteSetTheorems, TLAPS

-----------------------------------------------------------------------------
(* The inductive invariant *)

Pcs == {"idle", "spawned", "first", "poll", "loop", "select", "rearm", "reply"}

Reply == [kind : {"none", "empty", "entries", "error"}, got : SUBSET (Keys \X Ids)]

EntryType ==
    [kind : {"absent", "string", "stream"}, entries : SUBSET Ids, last : 0 .. MaxId,
     cursor : {NoGroup} \cup 0 .. MaxId, pel : [Clients -> SUBSET Ids], ttl : Ttls]

DataType == db \in [Keys -> EntryType] /\ born \in [Keys -> 0 .. MaxId]
                                       /\ acked \in [Keys -> SUBSET Ids]

ControlType == /\ gil \in {"free", "script", "notify", "shutdown"}
               /\ grown \in BOOLEAN
               /\ shutdown \in BOOLEAN

ClientType == /\ pc \in [Clients -> Pcs]
              /\ waiter \in [Clients -> {"off", "armed", "notified"}]
              /\ call \in [Clients -> CallType \cup {NoCall}]
              /\ late \in [Clients -> BOOLEAN]
              /\ reply \in [Clients -> Reply]
              /\ since \in [Clients -> SUBSET (Keys \X Ids)]
              /\ intact \in [Clients -> BOOLEAN]

\* The type invariant: every variable is of the type that its declaration says.
TypeOK == DataType /\ ControlType /\ ClientType

\* How a stream is laid out: entries up to last_id, a cursor that is no further,
\* pending ids up to the cursor (so none without a group); a key that is not a
\* stream has nothing of this.
EntryOK(e) ==
    /\ \A i \in e.entries : i <= e.last
    /\ e.cursor <= e.last
    /\ \A c \in Clients : \A i \in e.pel[c] : i <= e.cursor
    /\ e.kind # "stream" => e.entries = {} /\ e.cursor = NoGroup

EntriesOK == \A k \in Keys : EntryOK(db[k])

\* An id is pending for one consumer of the group at most.
Apart(e) == \A b, c \in Clients : b # c => e.pel[b] \cap e.pel[c] = {}

PelsApart == \A k \in Keys : Apart(db[k])

\* A client that is not idle runs a call with its "$" resolved; there is a reply
\* only at the end, and a waiter from before each read until it is woken.
CallOK(c) ==
    /\ pc[c] = "idle" => call[c] = NoCall /\ since[c] = {}
    /\ pc[c] # "idle" =>
          /\ call[c] \in CallType
          /\ call[c].op = "read" => \A k \in Range(call[c].keys) : call[c].from[k] \in Nat
    /\ pc[c] # "reply" => reply[c].got = {}
    /\ pc[c] \in {"first", "poll", "loop", "select"} => waiter[c] # "off"

\* What came since a call began came to one of its streams and after the id it
\* gave; as long as its streams live it is not above last_id.
SinceOK(c) ==
    \A p \in since[c] :
        /\ p[1] \in Range(call[c].keys)
        /\ call[c].op = "read" => p[2] > call[c].from[p[1]]
        /\ intact[c] => db[p[1]].kind = "stream" /\ p[2] <= db[p[1]].last

\* What a call for ">" got, the cursor has passed, as long as its groups live.
GotOK(c) ==
    \A p \in reply[c].got :
        /\ p[1] \in Range(call[c].keys)
        /\ intact[c] /\ Delivers(call[c], p[1])
              => HasGroup(db[p[1]]) /\ p[2] <= db[p[1]].cursor

\* A call for ">" sleeps only if its groups were there when it last read.
ParkedOK(c) ==
    Parked(c) /\ intact[c] =>
        \A k \in Range(call[c].keys) : Delivers(call[c], k) => HasGroup(db[k])

\* What NoLostWakeup and ReplyHasNoGap say of one client.
Awake(c) ==
    Parked(c) /\ waiter[c] # "notified" /\ ~grown
        => \A k \in Range(call[c].keys) : Due(c, k) = {}

NoGap(c) ==
    pc[c] = "reply" /\ reply[c].kind = "entries" /\ call[c].op = "read" /\ intact[c]
        => \A p \in since[c] \ reply[c].got :
              \/ p[2] \notin db[p[1]].entries
              \/ LET before == {q \in reply[c].got : q[1] = p[1]}
                 IN  /\ Cardinality(before) = call[c].count
                     /\ \A q \in before : q[2] < p[2]

Fine(c) == CallOK(c) /\ SinceOK(c) /\ GotOK(c) /\ ParkedOK(c) /\ Awake(c) /\ NoGap(c)

\* No two calls for ">" got the same entry.
GotApart ==
    \A b, c \in Clients : b # c =>
        \A k \in Keys :
            /\ intact[b] /\ Delivers(call[b], k)
            /\ intact[c] /\ Delivers(call[c], k)
            => ~\E i \in Ids : <<k, i>> \in reply[b].got \cap reply[c].got

StoreInv  == DataType /\ EntriesOK /\ PelsApart /\ HandedIsPending

ClientInv == ClientType /\ GotApart /\ \A c \in Clients : Fine(c)

IInv == StoreInv /\ ControlType /\ ClientInv

-----------------------------------------------------------------------------
(* Ids in order: what First and Largest yield *)

\* How many ids of a set come before an id.
Before(ids, i) == {j \in ids : j < i}
Rank(ids, i) == Cardinality(Before(ids, i))

\* There are finitely many ids.
LEMMA IdsFinite ==
    ASSUME NEW ids \in SUBSET Ids
    PROVE  IsFiniteSet(ids) /\ Cardinality(ids) \in Nat /\ \A i \in ids : i \in Nat \ {0}
<1>1. MaxId \in Nat
  BY ConstantsAssumption
<1>2. IsFiniteSet(Ids)
  BY <1>1, FS_Interval DEF Ids
<1>3. IsFiniteSet(ids)
  BY <1>2, FS_Subset
<1>4. Cardinality(ids) \in Nat
  BY <1>3, FS_CardinalityType
<1> QED BY <1>1, <1>3, <1>4 DEF Ids

\* The rank of an id of the set is less than the size of the set, and grows with
\* the id.
LEMMA RankFacts ==
    ASSUME NEW ids \in SUBSET Ids
    PROVE  /\ \A i \in ids : Rank(ids, i) \in 0 .. Cardinality(ids) - 1
           /\ \A i, j \in ids : i < j => Rank(ids, i) < Rank(ids, j)
<1>1. \A i \in ids : /\ IsFiniteSet(Before(ids, i)) /\ Rank(ids, i) \in Nat
                     /\ Cardinality(Before(ids, i) \cup {i}) = Rank(ids, i) + 1
                     /\ IsFiniteSet(Before(ids, i) \cup {i})
  <2> TAKE i \in ids
  <2>1. Before(ids, i) \in SUBSET Ids /\ i \notin Before(ids, i)
    BY IdsFinite DEF Before
  <2>2. IsFiniteSet(Before(ids, i)) /\ Rank(ids, i) \in Nat
    BY <2>1, IdsFinite DEF Rank
  <2> QED BY <2>1, <2>2, FS_AddElement DEF Rank
<1>2. ASSUME NEW i \in ids PROVE Rank(ids, i) \in 0 .. Cardinality(ids) - 1
  <2>1. Before(ids, i) \cup {i} \in SUBSET ids
    BY DEF Before
  <2>2. IsFiniteSet(ids) /\ Cardinality(ids) \in Nat
    BY IdsFinite
  <2>3. Cardinality(Before(ids, i) \cup {i}) <= Cardinality(ids)
    BY <2>1, <2>2, FS_Subset
  <2> QED BY <2>2, <2>3, <1>1
<1>3. ASSUME NEW i \in ids, NEW j \in ids, i < j PROVE Rank(ids, i) < Rank(ids, j)
  <2>1. Before(ids, i) \cup {i} \in SUBSET Before(ids, j)
    BY <1>3, IdsFinite DEF Before
  <2>2. Cardinality(Before(ids, i) \cup {i}) <= Cardinality(Before(ids, j))
    BY <2>1, <1>1, FS_Subset
  <2>3. Rank(ids, i) + 1 <= Rank(ids, j)
    BY <2>2, <1>1 DEF Rank
  <2>4. Rank(ids, i) \in Nat /\ Rank(ids, j) \in Nat
    BY <1>1
  <2> QED BY <2>3, <2>4
<1> QED BY <1>2, <1>3

\* Every rank below the size of the set is the rank of an id of it.
LEMMA RankOnto ==
    ASSUME NEW ids \in SUBSET Ids, NEW r \in 0 .. Cardinality(ids) - 1
    PROVE  \E i \in ids : Rank(ids, i) = r
<1> DEFINE T == 0 .. Cardinality(ids) - 1
           f == [i \in ids |-> Rank(ids, i)]
<1>1. f \in [ids -> T]
  BY RankFacts
<1>2. \A i, j \in ids : f[i] = f[j] => i = j
  BY RankFacts, IdsFinite
<1>3. Cardinality(ids) \in Nat
  BY IdsFinite
<1>4. IsFiniteSet(T) /\ Cardinality(T) = Cardinality(ids)
  BY <1>3, FS_Interval
<1> HIDE DEF f, T
<1> f \in Injection(ids, T)
  BY <1>1, <1>2 DEF Injection, IsInjective
<1>5. f \in Surjection(ids, T)
  BY <1>4, FS_Injection
<1>6. \E i \in ids : f[i] = r
  BY <1>5 DEF Surjection, T
<1> QED BY <1>6 DEF f

\* First yields a prefix of the set: at least one id of a set that has any.
LEMMA FirstFacts ==
    ASSUME NEW ids \in SUBSET Ids, NEW n \in Nat \ {0}
    PROVE  /\ First(ids, n) \in SUBSET ids
           /\ First(ids, n) = {} => ids = {}
           /\ \A i \in ids, j \in First(ids, n) : i < j => i \in First(ids, n)
<1>1. \A i \in ids : i \in First(ids, n) <=> Rank(ids, i) < n
  BY DEF First, Rank, Before
<1>2. ASSUME ids # {} PROVE First(ids, n) # {}
  <2>1. Cardinality(ids) \in Nat \ {0}
    BY <1>2, IdsFinite, FS_EmptySet
  <2>2. PICK i \in ids : Rank(ids, i) = 0
    BY <2>1, RankOnto
  <2> QED BY <1>1, <2>2
<1>3. \A i \in ids, j \in ids : i < j /\ Rank(ids, j) < n => Rank(ids, i) < n
  BY RankFacts, IdsFinite
<1> QED BY <1>1, <1>2, <1>3 DEF First

\* An id that First leaves out comes after n ids.
LEMMA FirstFull ==
    ASSUME NEW ids \in SUBSET Ids, NEW n \in Nat \ {0},
           NEW i \in ids, i \notin First(ids, n)
    PROVE  Cardinality(First(ids, n)) = n /\ \A j \in First(ids, n) : j < i
<1> DEFINE S == First(ids, n)
           T == 0 .. n - 1
           f == [j \in S |-> Rank(ids, j)]
<1>1. \A j \in ids : j \in S <=> Rank(ids, j) < n
  BY DEF First, Rank, Before
<1>2. S \in SUBSET ids
  BY DEF First
<1>3. Rank(ids, i) >= n /\ n < Cardinality(ids) + 1
  BY <1>1, RankFacts, IdsFinite
<1>4. \A j \in S : j < i
  BY <1>1, <1>2, <1>3, RankFacts, IdsFinite
<1>5. f \in [S -> T]
  <2>1. \A j \in S : Rank(ids, j) \in Nat /\ Rank(ids, j) < n
    BY <1>1, <1>2, RankFacts
  <2> QED BY <2>1
<1>6. \A j, l \in S : f[j] = f[l] => j = l
  BY <1>2, RankFacts, IdsFinite
<1>7. ASSUME NEW r \in T PROVE \E j \in S : f[j] = r
  <2>1. r \in 0 .. Cardinality(ids) - 1
    BY <1>3, IdsFinite
  <2>2. PICK j \in ids : Rank(ids, j) = r
    BY <2>1, RankOnto
  <2> QED BY <1>1, <2>2
<1>8. IsFiniteSet(T) /\ Cardinality(T) = n
  BY FS_Interval
<1> HIDE DEF f, T, S
<1>9. f \in Injection(S, T) /\ f \in Surjection(S, T)
  BY <1>5, <1>6, <1>7 DEF Injection, IsInjective, Surjection
<1>10. Cardinality(S) = n
  BY <1>8, <1>9, FS_Injection
<1> QED BY <1>4, <1>10 DEF S

\* The largest id of a set that has any.
LEMMA LargestFacts ==
    ASSUME NEW ids \in SUBSET Ids, ids # {}
    PROVE  Largest(ids) \in ids /\ \A j \in ids : j <= Largest(ids)
<1>1. Cardinality(ids) \in Nat \ {0}
  BY IdsFinite, FS_EmptySet
<1>2. PICK i \in ids : Rank(ids, i) = Cardinality(ids) - 1
  BY <1>1, RankOnto
<1>3. \A j \in ids : j <= i
  BY <1>1, <1>2, RankFacts, IdsFinite
<1> QED BY <1>3 DEF Largest

-----------------------------------------------------------------------------
(* What a step makes of one entry of the data map *)

Good(e) == e \in EntryType /\ EntryOK(e) /\ Apart(e)

\* The stream e has gone: f is no stream, or one in the place of a dead one.
Replaced(e, f) ==
    /\ e.kind = "stream"
    /\ f.kind # "stream" \/ (e.ttl = "past" /\ f.ttl # "past")

\* What the history says of a stream stays true: last_id and the cursor do not go
\* back, and an entry is new only above last_id.
Keeps(e, f) ==
    e.kind = "stream" /\ ~Replaced(e, f) =>
        /\ \A i \in f.entries : i \in e.entries \/ i > e.last
        /\ f.last >= e.last
        /\ HasGroup(e) /\ HasGroup(f) => f.cursor >= e.cursor

\* Nobody gets anything to read.
AddsNothing(e, f) ==
    /\ f.entries \subseteq e.entries
    /\ f.entries # {} /\ f.ttl # "past" => e.ttl # "past"

\* What a command that hands out nothing makes of an entry: nothing, a blank one
\* in its place, or the same stream with fewer entries or without its group.
Blank(f) == f.entries = {} /\ f.cursor = NoGroup /\ f.pel = NoPending

Fades(e, f) ==
    \/ f = e
    \/ Blank(f) /\ (e.kind = "stream" => Replaced(e, f))
    \/ /\ f.kind = e.kind
       /\ e.ttl # "past"
       /\ f.last = e.last
       /\ f.entries \subseteq e.entries
       /\ \/ f.cursor = e.cursor /\ f.pel = e.pel
          \/ f.cursor = NoGroup /\ f.pel = NoPending

\* A new key, of either kind, is blank and well formed.
LEMMA NewEntries ==
    /\ Good(Absent) /\ Blank(Absent) /\ Absent.kind = "absent" /\ Absent.ttl = "none"
    /\ Good(NewStream) /\ Blank(NewStream) /\ NewStream.kind = "stream"
       /\ NewStream.last = 0 /\ NewStream.ttl = "none" /\ NewStream.pel = NoPending
    /\ LET str == [Absent EXCEPT !.kind = "string"]
       IN  Good(str) /\ Blank(str) /\ str.kind = "string" /\ str.ttl = "none"
<1>1. MaxId \in Nat
  BY ConstantsAssumption
<1>2. NoPending \in [Clients -> SUBSET Ids] /\ \A c \in Clients : NoPending[c] = {}
  BY DEF NoPending
<1>3. ASSUME NEW kind \in {"absent", "string", "stream"}
      PROVE  LET e == [kind |-> kind, entries |-> {}, last |-> 0, cursor |-> NoGroup,
                       pel |-> NoPending, ttl |-> "none"]
             IN  Good(e) /\ Blank(e)
  BY <1>1, <1>2 DEF Good, EntryType, EntryOK, Apart, Blank, Ttls, NoGroup
<1>4. NewStream = [kind |-> "stream", entries |-> {}, last |-> 0, cursor |-> NoGroup,
                   pel |-> NoPending, ttl |-> "none"]
  BY DEF NewStream, Absent
<1>5. [Absent EXCEPT !.kind = "string"]
        = [kind |-> "string", entries |-> {}, last |-> 0, cursor |-> NoGroup,
           pel |-> NoPending, ttl |-> "none"]
  BY DEF Absent
<1> QED BY <1>3, <1>4, <1>5 DEF Absent

\* The fields of a good entry.
LEMMA GoodFields ==
    ASSUME NEW e, Good(e)
    PROVE  /\ e.kind \in {"absent", "string", "stream"}
           /\ e.entries \in SUBSET Ids /\ \A i \in e.entries : i \in Nat \ {0}
           /\ e.last \in Nat /\ e.last <= MaxId
           /\ e.cursor \in Int /\ e.cursor <= MaxId
           /\ e.cursor = NoGroup \/ e.cursor >= 0
           /\ e.pel \in [Clients -> SUBSET Ids]
           /\ e.ttl \in Ttls
           /\ e.cursor = NoGroup => \A c \in Clients : e.pel[c] = {}
<1>1. MaxId \in Nat
  BY ConstantsAssumption
<1>2. /\ e.kind \in {"absent", "string", "stream"} /\ e.entries \in SUBSET Ids
      /\ e.last \in 0 .. MaxId /\ e.cursor \in {NoGroup} \cup 0 .. MaxId
      /\ e.pel \in [Clients -> SUBSET Ids] /\ e.ttl \in Ttls
  BY DEF Good, EntryType
<1>3. e.cursor = NoGroup => \A c \in Clients : e.pel[c] = {}
  BY <1>1, <1>2 DEF Good, EntryOK, NoGroup, Ids
<1> QED BY <1>1, <1>2, <1>3, IdsFinite DEF NoGroup

\* An entry that stays as it is.
LEMMA SameKeeps ==
    ASSUME NEW e, Good(e)
    PROVE  Keeps(e, e) /\ AddsNothing(e, e)
BY GoodFields DEF Keeps, AddsNothing

\* A faded entry is good, keeps what was known of it, and gives nobody anything
\* to read.
LEMMA FadesFacts ==
    ASSUME NEW e, NEW f, Good(e), f \in EntryType, Fades(e, f)
    PROVE  Good(f) /\ Keeps(e, f) /\ AddsNothing(e, f)
<1>1. CASE f = e
  BY <1>1, SameKeeps
<1>2. CASE Blank(f) /\ (e.kind = "stream" => Replaced(e, f))
  <2>1. f.last \in Nat /\ f.cursor = -1
    BY <1>2, ConstantsAssumption DEF Blank, EntryType, NoGroup
  <2>2. Good(f)
    BY <1>2, <2>1 DEF Good, EntryOK, Apart, Blank, NoPending
  <2> QED BY <1>2, <2>2 DEF Keeps, AddsNothing, Blank
<1>3. CASE /\ f.kind = e.kind
           /\ e.ttl # "past"
           /\ f.last = e.last
           /\ f.entries \subseteq e.entries
           /\ \/ f.cursor = e.cursor /\ f.pel = e.pel
              \/ f.cursor = NoGroup /\ f.pel = NoPending
  <2>1. EntryOK(f)
    BY <1>3, GoodFields DEF Good, EntryOK, NoPending, NoGroup
  <2>2. Apart(f)
    BY <1>3 DEF Good, Apart, NoPending
  <2>3. Keeps(e, f) /\ AddsNothing(e, f)
    BY <1>3, GoodFields DEF Keeps, AddsNothing, HasGroup
  <2> QED BY <2>1, <2>2, <2>3 DEF Good
<1> QED BY <1>1, <1>2, <1>3 DEF Fades

\* Passive expiration: every entry fades, and no dead one is left among ks.
LEMMA PurgeFacts ==
    ASSUME NEW d \in [Keys -> EntryType], NEW ks,
           \A k \in Keys : Good(d[k])
    PROVE  /\ Purge(d, ks) \in [Keys -> EntryType]
           /\ \A k \in Keys :
                 /\ Good(Purge(d, ks)[k])
                 /\ Fades(d[k], Purge(d, ks)[k])
                 /\ k \in ks => Purge(d, ks)[k].ttl # "past"
                 /\ Purge(d, ks)[k] = d[k]
                       \/ (Purge(d, ks)[k] = Absent /\ d[k].ttl = "past" /\ k \in ks)
<1>1. Absent \in EntryType
  BY NewEntries DEF Good
<1>2. ASSUME NEW k \in Keys, d[k].ttl = "past" PROVE Fades(d[k], Absent)
  BY <1>2, NewEntries DEF Fades, Replaced
<1> QED BY <1>1, <1>2, NewEntries DEF Purge, Fades

-----------------------------------------------------------------------------
(* What a read hands out *)

\* A batch consists of entries of the stream; for ">" it is a prefix of those after
\* the cursor.
LEMMA BatchFacts ==
    ASSUME NEW c \in Clients, NEW cl \in CallType, NEW k \in Keys, NEW e, Good(e)
    PROVE  /\ Batch(c, cl, k, e) \in SUBSET e.entries
           /\ Delivers(cl, k) =>
                 /\ \A i \in Batch(c, cl, k, e) : i > e.cursor
                 /\ \A i \in e.entries, j \in Batch(c, cl, k, e) :
                       e.cursor < i /\ i < j => i \in Batch(c, cl, k, e)
                 /\ Batch(c, cl, k, e) = {} => \A i \in e.entries : ~(i > e.cursor)
           /\ cl.op = "read" =>
                 /\ Batch(c, cl, k, e) = {} => \A i \in e.entries : ~(i > cl.from[k])
                 /\ \A i \in e.entries :
                       i > cl.from[k] /\ i \notin Batch(c, cl, k, e) =>
                          /\ Cardinality(Batch(c, cl, k, e)) = cl.count
                          /\ \A j \in Batch(c, cl, k, e) : j < i
<1> DEFINE new == {i \in e.entries : i > e.cursor}
           after == {i \in e.entries : i > cl.from[k]}
           own == {i \in e.pel[c] : i >= cl.from[k]}
<1>1. cl.op \in {"read", "group"} /\ cl.count \in Nat \ {0}
  BY DEF CallType
<1>2. new \in SUBSET Ids /\ after \in SUBSET Ids /\ own \in SUBSET Ids
  BY GoodFields
<1>3. CASE cl.op = "read"
  <2>1. Batch(c, cl, k, e) = First(after, cl.count) /\ ~Delivers(cl, k)
    BY <1>3 DEF Batch, Delivers
  <2>2. First(after, cl.count) \in SUBSET after
    BY <1>1, <1>2, FirstFacts
  <2>3. First(after, cl.count) = {} => after = {}
    BY <1>1, <1>2, FirstFacts
  <2>4. \A i \in after : i \notin First(after, cl.count) =>
            /\ Cardinality(First(after, cl.count)) = cl.count
            /\ \A j \in First(after, cl.count) : j < i
    <3> HIDE DEF after
    <3> QED BY <1>1, <1>2, FirstFull
  <2> QED BY <2>1, <2>2, <2>3, <2>4
<1>4. CASE cl.op = "group" /\ cl.from[k] = New
  <2>1. Batch(c, cl, k, e) = First(new, cl.count)
    BY <1>4 DEF Batch, Delivers
  <2>2. First(new, cl.count) \in SUBSET new
    BY <1>1, <1>2, FirstFacts
  <2>3. First(new, cl.count) = {} => new = {}
    BY <1>1, <1>2, FirstFacts
  <2>4. \A i \in new, j \in First(new, cl.count) : i < j => i \in First(new, cl.count)
    BY <1>1, <1>2, FirstFacts
  <2> QED BY <1>4, <2>1, <2>2, <2>3, <2>4, GoodFields
<1>5. CASE cl.op = "group" /\ cl.from[k] # New
  BY <1>5 DEF Batch, Delivers
<1> QED BY <1>1, <1>3, <1>4, <1>5

\* Handing a batch out moves the cursor over it and over nothing else, and makes
\* all of it pending; the rest of the entry stays.
LEMMA HandedFacts ==
    ASSUME NEW c \in Clients, NEW cl \in CallType, NEW k \in Keys, NEW e, Good(e),
           ~Bad(cl, e)
    PROVE  LET f == Handed(c, cl, k, e)
           IN  /\ Good(f) /\ Keeps(e, f) /\ AddsNothing(e, f)
               /\ f.kind = e.kind /\ f.ttl = e.ttl /\ f.entries = e.entries
               /\ HasGroup(f) <=> HasGroup(e)
               /\ f.cursor >= e.cursor
               /\ \A b \in Clients : e.pel[b] \subseteq f.pel[b]
               /\ \A i \in e.entries :
                     e.cursor < i /\ i <= f.cursor => \E b \in Clients : i \in f.pel[b]
               /\ Delivers(cl, k) => \A i \in Batch(c, cl, k, e) : i <= f.cursor
               /\ Batch(c, cl, k, e) = {} \/ ~Delivers(cl, k) => f = e
<1> DEFINE batch == Batch(c, cl, k, e)
           f == Handed(c, cl, k, e)
<1>1. CASE ~(Delivers(cl, k) /\ batch # {})
  <2>1. f = e
    BY <1>1 DEF Handed
  <2>2. Keeps(e, e) /\ AddsNothing(e, e)
    BY SameKeeps
  <2>3. \A i \in e.entries : ~(e.cursor < i /\ i <= e.cursor)
    BY GoodFields
  <2> QED BY <1>1, <2>1, <2>2, <2>3, GoodFields
<1>2. CASE Delivers(cl, k) /\ batch # {}
  <2>1. f = [e EXCEPT !.cursor = Largest(batch), !.pel[c] = @ \cup batch]
    BY <1>2 DEF Handed
  <2>2. HasGroup(e)
    BY <1>2 DEF Bad, Delivers
  <2>3. batch \in SUBSET e.entries /\ batch \in SUBSET Ids
    BY BatchFacts, GoodFields
  <2>4. Largest(batch) \in batch /\ \A j \in batch : j <= Largest(batch)
    BY <1>2, <2>3, LargestFacts
  <2>5. e \in EntryType
    BY DEF Good
  <2>6. /\ f.kind = e.kind /\ f.ttl = e.ttl /\ f.entries = e.entries /\ f.last = e.last
        /\ f.cursor = Largest(batch)
        /\ f.pel = [e.pel EXCEPT ![c] = @ \cup batch]
        /\ f \in [kind : {e.kind}, entries : {e.entries}, last : {e.last},
                  cursor : {Largest(batch)}, pel : {[e.pel EXCEPT ![c] = @ \cup batch]},
                  ttl : {e.ttl}]
    BY <2>1, <2>5 DEF EntryType
  <2> HIDE DEF f, batch
  <2>7. /\ f.pel \in [Clients -> SUBSET Ids]
        /\ f.pel[c] = e.pel[c] \cup batch
        /\ \A b \in Clients : b # c => f.pel[b] = e.pel[b]
    BY <2>3, <2>6, GoodFields
  <2>8. Largest(batch) \in Nat \ {0} /\ Largest(batch) > e.cursor /\ Largest(batch) <= e.last
    BY <1>2, <2>3, <2>4, BatchFacts, GoodFields DEF batch, Good, EntryOK
  <2>9. f \in EntryType
    BY <2>6, <2>7, <2>8, <2>5, GoodFields, ConstantsAssumption DEF EntryType
  <2>10. EntryOK(f)
    <3>1. \A b \in Clients : \A i \in f.pel[b] : i <= f.cursor
      BY <2>3, <2>4, <2>6, <2>7, <2>8, GoodFields DEF Good, EntryOK, Ids
    <3> QED BY <3>1, <2>6, <2>8, <2>2 DEF Good, EntryOK, HasGroup
  <2>11. Apart(f)
    <3>1. \A b \in Clients : e.pel[b] \cap batch = {}
      BY <1>2, <2>3, BatchFacts, GoodFields DEF batch, Good, EntryOK, Ids
    <3> QED BY <3>1, <2>7 DEF Good, Apart
  <2>12. Keeps(e, f) /\ AddsNothing(e, f)
    BY <2>6, <2>8, GoodFields DEF Keeps, AddsNothing
  <2>13. HasGroup(f)
    BY <2>2, <2>6, <2>8 DEF HasGroup, NoGroup
  <2>14. ASSUME NEW i \in e.entries, e.cursor < i, i <= f.cursor
         PROVE  i \in f.pel[c]
    <3>1. i \in batch
      BY <1>2, <2>14, <2>4, <2>6, BatchFacts, GoodFields DEF batch
    <3> QED BY <3>1, <2>7
  <2> QED
    BY <1>2, <2>2, <2>4, <2>6, <2>7, <2>8, <2>9, <2>10, <2>11, <2>12, <2>13, <2>14, GoodFields
    DEF f, batch, Good
<1> QED BY <1>1, <1>2

-----------------------------------------------------------------------------
(* One read *)

\* The keys of a call are keys.
LEMMA CallKeys ==
    ASSUME NEW cl \in CallType
    PROVE  /\ Range(cl.keys) \in SUBSET Keys
           /\ cl.keys \in Seq(Keys)
           /\ \A k \in Range(cl.keys) : \E i \in DOMAIN cl.keys : k = cl.keys[i]
<1>1. cl.keys \in Seq(Keys)
  BY DEF CallType
<1> QED BY <1>1 DEF Range

\* A key of the data map either fades, or is handed out: then it was good, and
\* alive.
LEMMA ReadData ==
    ASSUME NEW c \in Clients, NEW cl \in CallType,
           db \in [Keys -> EntryType], \A k \in Keys : Good(db[k])
    PROVE  /\ Read(c, cl).db \in [Keys -> EntryType]
           /\ \A k \in Keys :
                 \/ Fades(db[k], Read(c, cl).db[k])
                 \/ /\ ~Bad(cl, db[k])
                    /\ Read(c, cl).db[k] = Handed(c, cl, k, db[k])
           /\ \A k \in Keys : Good(Read(c, cl).db[k])
<1> DEFINE all  == Purge(db, Range(cl.keys))
           good == {k \in Visited(cl, all) : ~Bad(cl, all[k])}
           new  == [k \in Keys |-> IF k \in good THEN Handed(c, cl, k, all[k])
                                   ELSE IF k \in Visited(cl, all) THEN all[k]
                                   ELSE db[k]]
<1>1. Read(c, cl).db = new
  BY DEF Read
<1>2. \A k \in Keys : /\ Good(all[k]) /\ Fades(db[k], all[k])
                      /\ all[k] = db[k] \/ all[k] = Absent
  BY PurgeFacts
<1> HIDE DEF all
<1>3. ASSUME NEW k \in Keys
      PROVE  /\ Good(new[k])
             /\ \/ Fades(db[k], new[k])
                \/ ~Bad(cl, db[k]) /\ new[k] = Handed(c, cl, k, db[k])
  <2>1. CASE k \in good
    <3>1. ~Bad(cl, all[k]) /\ new[k] = Handed(c, cl, k, all[k])
      BY <2>1
    <3>2. Good(Handed(c, cl, k, all[k]))
      BY <3>1, <1>2, HandedFacts
    <3>3. CASE all[k] = Absent /\ all[k] # db[k]
      <4>1. ~HasGroup(Absent)
        BY NewEntries DEF HasGroup
      <4>2. ~Delivers(cl, k)
        BY <3>1, <3>3, <4>1 DEF Bad, Delivers
      <4>3. new[k] = all[k]
        BY <3>1, <4>2, <1>2, HandedFacts
      <4> QED BY <4>3, <1>2
    <3>4. CASE all[k] = db[k]
      BY <3>1, <3>2, <3>4
    <3> QED BY <3>3, <3>4, <1>2
  <2>2. CASE k \notin good /\ k \in Visited(cl, all)
    BY <2>2, <1>2
  <2>3. CASE k \notin good /\ k \notin Visited(cl, all)
    BY <2>3 DEF Fades
  <2> QED BY <2>1, <2>2, <2>3
<1>4. new \in [Keys -> EntryType]
  BY <1>3 DEF Good
<1> QED BY <1>1, <1>3, <1>4

\* What a read gets: entries of its keys, and for ">" some that the cursor had not
\* passed and now has.
LEMMA ReadGot ==
    ASSUME NEW c \in Clients, NEW cl \in CallType,
           db \in [Keys -> EntryType], \A k \in Keys : Good(db[k])
    PROVE  /\ [kind |-> Read(c, cl).kind, got |-> Read(c, cl).got] \in Reply
           /\ Read(c, cl).kind \in {"error", "empty", "entries"}
           /\ \A p \in Read(c, cl).got :
                 /\ p[1] \in Range(cl.keys)
                 /\ Delivers(cl, p[1]) =>
                       /\ HasGroup(db[p[1]]) /\ p[2] > db[p[1]].cursor
                       /\ HasGroup(Read(c, cl).db[p[1]])
                       /\ p[2] <= Read(c, cl).db[p[1]].cursor
<1> DEFINE all   == Purge(db, Range(cl.keys))
           good  == {k \in Visited(cl, all) : ~Bad(cl, all[k])}
           batch == {p \in good \X Ids : p[2] \in Batch(c, cl, p[1], all[p[1]])}
<1>1. /\ Read(c, cl).got = IF Failed(cl, all) THEN {} ELSE batch
      /\ Read(c, cl).kind = IF Failed(cl, all) THEN "error"
                            ELSE IF batch = {} THEN "empty" ELSE "entries"
  BY DEF Read
<1>2. Visited(cl, all) \in SUBSET Range(cl.keys)
  BY DEF Visited, Range
<1>3. batch \in SUBSET (Keys \X Ids)
  BY <1>2, CallKeys
<1>4. ASSUME NEW p \in batch, Delivers(cl, p[1])
      PROVE  /\ HasGroup(db[p[1]]) /\ p[2] > db[p[1]].cursor
             /\ HasGroup(Read(c, cl).db[p[1]])
             /\ p[2] <= Read(c, cl).db[p[1]].cursor
  <2>1. /\ p[1] \in good /\ p[1] \in Keys /\ p[2] \in Batch(c, cl, p[1], all[p[1]])
        /\ ~Bad(cl, all[p[1]])
    BY <1>3
  <2>2. Good(all[p[1]]) /\ (all[p[1]] = db[p[1]] \/ all[p[1]] = Absent)
    BY <2>1, PurgeFacts
  <2>3. HasGroup(all[p[1]]) /\ all[p[1]] = db[p[1]]
    BY <1>4, <2>1, <2>2, NewEntries DEF Bad, Delivers, HasGroup, Blank
  <2>4. Read(c, cl).db[p[1]] = Handed(c, cl, p[1], all[p[1]])
    BY <2>1 DEF Read
  <2> HIDE DEF all
  <2>5. p[2] > all[p[1]].cursor
    BY <1>4, <2>1, <2>2, BatchFacts
  <2>6. HasGroup(Handed(c, cl, p[1], all[p[1]])) /\ p[2] <= Handed(c, cl, p[1], all[p[1]]).cursor
    BY <1>4, <2>1, <2>2, <2>3, HandedFacts
  <2> QED BY <2>3, <2>4, <2>5, <2>6
<1>5. \A p \in batch : p[1] \in Range(cl.keys)
  BY <1>2
<1> HIDE DEF batch
<1> QED BY <1>1, <1>3, <1>4, <1>5 DEF Reply

\* A call that did not fail visits all of its keys.
LEMMA AllVisited ==
    ASSUME NEW cl \in CallType, NEW d, ~Failed(cl, d)
    PROVE  {k \in Visited(cl, d) : ~Bad(cl, d[k])} = Range(cl.keys)
<1>1. \A k \in Range(cl.keys) : ~Bad(cl, d[k])
  BY DEF Failed
<1>2. \A i \in DOMAIN cl.keys : cl.keys[i] \in Range(cl.keys)
  BY DEF Range
<1>3. cl.keys \in Seq(Keys)
  BY CallKeys
<1>4. \A n \in DOMAIN cl.keys : \A j \in 1 .. n - 1 : j \in DOMAIN cl.keys
  BY <1>3
<1>5. Visited(cl, d) = Range(cl.keys)
  BY <1>1, <1>2, <1>4 DEF Visited, Range
<1> QED BY <1>1, <1>5

\* A read that comes back empty has left nothing to be read: for XREAD after the
\* given id, for ">" after the cursor of a group that is there.
LEMMA ReadEmpty ==
    ASSUME NEW c \in Clients, NEW cl \in CallType,
           db \in [Keys -> EntryType], \A k \in Keys : Good(db[k]),
           Read(c, cl).kind = "empty", NEW k \in Range(cl.keys)
    PROVE  LET f == Read(c, cl).db[k]
           IN  /\ cl.op = "read" => \A i \in f.entries : ~(i > cl.from[k])
               /\ Delivers(cl, k) => HasGroup(f) /\ \A i \in f.entries : ~(i > f.cursor)
<1> DEFINE all   == Purge(db, Range(cl.keys))
           good  == {x \in Visited(cl, all) : ~Bad(cl, all[x])}
           batch == {p \in good \X Ids : p[2] \in Batch(c, cl, p[1], all[p[1]])}
<1>1. ~Failed(cl, all) /\ batch = {}
  BY DEF Read
<1>2. k \in Keys /\ k \in good /\ ~Bad(cl, all[k])
  BY <1>1, AllVisited, CallKeys
<1>3. Good(all[k])
  BY <1>2, PurgeFacts
<1>4. Batch(c, cl, k, all[k]) \in SUBSET Ids
  BY <1>2, <1>3, BatchFacts, GoodFields
<1>5. Batch(c, cl, k, all[k]) = {}
  <2>1. SUFFICES ASSUME NEW i \in Batch(c, cl, k, all[k]) PROVE FALSE
    OBVIOUS
  <2>2. <<k, i>> \in batch
    BY <2>1, <1>2, <1>4
  <2> QED BY <2>2, <1>1
<1>6. Read(c, cl).db[k] = Handed(c, cl, k, all[k])
  BY <1>2 DEF Read
<1> HIDE DEF all
<1>7. Handed(c, cl, k, all[k]) = all[k]
  BY <1>2, <1>3, <1>5, HandedFacts
<1>8. Delivers(cl, k) => HasGroup(all[k])
  BY <1>2 DEF Bad, Delivers
<1> QED BY <1>2, <1>3, <1>5, <1>6, <1>7, <1>8, BatchFacts

\* What XREAD leaves out of its answer comes after COUNT entries that are in it.
LEMMA ReadNoGap ==
    ASSUME NEW c \in Clients, NEW cl \in CallType,
           db \in [Keys -> EntryType], \A k \in Keys : Good(db[k]),
           Read(c, cl).kind = "entries", cl.op = "read",
           NEW k \in Range(cl.keys), NEW i \in Read(c, cl).db[k].entries,
           i > cl.from[k], <<k, i>> \notin Read(c, cl).got
    PROVE  LET before == {q \in Read(c, cl).got : q[1] = k}
           IN  /\ Cardinality(before) = cl.count
               /\ \A q \in before : q[2] < i
<1> DEFINE all   == Purge(db, Range(cl.keys))
           good  == {x \in Visited(cl, all) : ~Bad(cl, all[x])}
           batch == {p \in good \X Ids : p[2] \in Batch(c, cl, p[1], all[p[1]])}
           mine  == Batch(c, cl, k, all[k])
           before == {q \in batch : q[1] = k}
           f == [j \in mine |-> <<k, j>>]
<1>1. ~Failed(cl, all) /\ Read(c, cl).got = batch
  BY DEF Read
<1>2. k \in Keys /\ k \in good /\ ~Bad(cl, all[k])
  BY <1>1, AllVisited, CallKeys
<1>3. Good(all[k])
  BY <1>2, PurgeFacts
<1>4. mine \in SUBSET Ids
  BY <1>2, <1>3, BatchFacts, GoodFields
<1>5. Read(c, cl).db[k] = Handed(c, cl, k, all[k])
  BY <1>2 DEF Read
<1>6. i \in all[k].entries /\ i \in Ids
  <2> HIDE DEF all
  <2>1. Handed(c, cl, k, all[k]).entries = all[k].entries
    BY <1>2, <1>3, HandedFacts
  <2> QED BY <2>1, <1>3, <1>5, GoodFields
<1>7. i \notin mine
  BY <1>1, <1>2, <1>6
<1>8. Cardinality(mine) = cl.count /\ \A j \in mine : j < i
  <2> HIDE DEF all
  <2> QED BY <1>2, <1>3, <1>6, <1>7, BatchFacts
<1>9. \A q \in before : q = <<k, q[2]>> /\ q[2] \in mine
  OBVIOUS
<1>10. \A j \in mine : <<k, j>> \in before
  BY <1>2, <1>4
<1>11. IsFiniteSet(mine)
  BY <1>4, IdsFinite
<1> HIDE DEF mine, before
<1>12. f \in Bijection(mine, before)
  BY <1>9, <1>10 DEF Bijection, Injection, IsInjective, Surjection
<1>13. Cardinality(before) = cl.count
  BY <1>8, <1>11, <1>12, FS_Bijection DEF ExistsBijection
<1>14. before = {q \in Read(c, cl).got : q[1] = k}
  BY <1>1 DEF before
<1> QED BY <1>8, <1>9, <1>13, <1>14

-----------------------------------------------------------------------------
(* Steps of the data map *)

\* The data map is a map of good entries.
LEMMA StoreFacts ==
    ASSUME StoreInv
    PROVE  db \in [Keys -> EntryType] /\ \A k \in Keys : Good(db[k])
BY DEF StoreInv, DataType, EntriesOK, PelsApart, Good

\* What HandedIsPending says of one key.
PendingOK(e, start, done) ==
    HasGroup(e) =>
        \A i \in e.entries :
            start < i /\ i <= e.cursor => i \in done \/ \E c \in Clients : i \in e.pel[c]

\* The store invariant, key by key.
LEMMA StoreByKey ==
    ASSUME DataType, \A k \in Keys : Good(db[k]) /\ PendingOK(db[k], born[k], acked[k])
    PROVE  StoreInv
BY DEF StoreInv, EntriesOK, PelsApart, Good, PendingOK, HandedIsPending

\* And the same after a step.
LEMMA StoreByKeyNext ==
    ASSUME DataType', \A k \in Keys : Good(db'[k]) /\ PendingOK(db'[k], born'[k], acked'[k])
    PROVE  StoreInv'
BY DEF StoreInv, EntriesOK, PelsApart, Good, PendingOK, HandedIsPending

\* The store invariant of one key.
LEMMA StoreOfKey ==
    ASSUME StoreInv, NEW k \in Keys
    PROVE  PendingOK(db[k], born[k], acked[k])
BY DEF StoreInv, PendingOK, HandedIsPending

\* The history of a group that is still there does not change, and it stays typed.
LEMMA ObservedFacts ==
    ASSUME DataType, NEW d, born' = BornIn(d), acked' = AckedIn(d)
    PROVE  /\ born' \in [Keys -> 0 .. MaxId] /\ acked' \in [Keys -> SUBSET Ids]
           /\ \A k \in Keys : ~GroupGone(d, k) => born'[k] = born[k] /\ acked'[k] = acked[k]
BY ConstantsAssumption DEF DataType, BornIn, AckedIn

\* A key that fades has nothing new that is not pending.
LEMMA FadedKey ==
    ASSUME StoreInv, NEW d, born' = BornIn(d), acked' = AckedIn(d),
           NEW k \in Keys, d[k] \in EntryType, Fades(db[k], d[k])
    PROVE  Good(d[k]) /\ PendingOK(d[k], born'[k], acked'[k])
<1>1. PendingOK(db[k], born[k], acked[k]) /\ Good(db[k])
  BY StoreOfKey, StoreFacts
<1>2. Good(d[k])
  BY <1>1, FadesFacts
<1>3. ASSUME HasGroup(d[k])
      PROVE  /\ HasGroup(db[k]) /\ ~GroupGone(d, k) /\ d[k].cursor = db[k].cursor
             /\ d[k].pel = db[k].pel /\ d[k].entries \subseteq db[k].entries
  BY <1>3 DEF Fades, Blank, HasGroup, GroupGone, Gone
<1>4. HasGroup(d[k]) => born'[k] = born[k] /\ acked'[k] = acked[k]
  BY <1>3, ObservedFacts DEF StoreInv
<1> QED BY <1>1, <1>2, <1>3, <1>4 DEF PendingOK

\* Of a key that is handed out, what the cursor passes becomes pending.
LEMMA HandedKey ==
    ASSUME StoreInv, NEW d, born' = BornIn(d), acked' = AckedIn(d),
           NEW c \in Clients, NEW cl \in CallType, NEW k \in Keys,
           ~Bad(cl, db[k]), d[k] = Handed(c, cl, k, db[k])
    PROVE  Good(d[k]) /\ PendingOK(d[k], born'[k], acked'[k])
<1>1. PendingOK(db[k], born[k], acked[k]) /\ Good(db[k])
  BY StoreOfKey, StoreFacts
<1>2. /\ Good(d[k]) /\ d[k].kind = db[k].kind /\ d[k].ttl = db[k].ttl
      /\ d[k].entries = db[k].entries /\ (HasGroup(d[k]) <=> HasGroup(db[k]))
      /\ \A b \in Clients : db[k].pel[b] \subseteq d[k].pel[b]
      /\ \A i \in db[k].entries :
            db[k].cursor < i /\ i <= d[k].cursor => \E b \in Clients : i \in d[k].pel[b]
  BY <1>1, HandedFacts
<1>3. ~GroupGone(d, k)
  BY <1>2 DEF GroupGone, Gone, HasGroup
<1>4. born'[k] = born[k] /\ acked'[k] = acked[k]
  BY <1>3, ObservedFacts DEF StoreInv
<1>5. ASSUME HasGroup(d[k]), NEW i \in d[k].entries, born[k] < i, i <= d[k].cursor
      PROVE  i \in acked[k] \/ \E b \in Clients : i \in d[k].pel[b]
  <2>1. CASE i <= db[k].cursor
    BY <1>1, <1>2, <1>5, <2>1 DEF PendingOK
  <2>2. CASE ~(i <= db[k].cursor)
    <3>1. i \in Nat /\ db[k].cursor \in Int
      BY <1>1, <1>2, <1>5, GoodFields
    <3> QED BY <1>2, <1>5, <2>2, <3>1
  <2> QED BY <2>1, <2>2
<1> QED BY <1>2, <1>4, <1>5 DEF PendingOK

\* A step in which every entry fades keeps the store invariant.
LEMMA FadingStep ==
    ASSUME StoreInv, NEW d \in [Keys -> EntryType],
           db' = d, born' = BornIn(d), acked' = AckedIn(d),
           \A k \in Keys : Fades(db[k], d[k])
    PROVE  StoreInv'
<1>1. DataType'
  BY ObservedFacts DEF StoreInv, DataType
<1>2. \A k \in Keys : Good(d[k]) /\ PendingOK(d[k], born'[k], acked'[k])
  BY FadedKey
<1> QED BY <1>1, <1>2, StoreByKeyNext

\* So does a read.
LEMMA ReadingStep ==
    ASSUME StoreInv, NEW c \in Clients, NEW cl \in CallType,
           db' = Read(c, cl).db, born' = BornIn(db'), acked' = AckedIn(db')
    PROVE  StoreInv'
<1>1. DataType'
  BY StoreFacts, ReadData, ObservedFacts DEF StoreInv, DataType
<1>2. ASSUME NEW k \in Keys
      PROVE  Good(db'[k]) /\ PendingOK(db'[k], born'[k], acked'[k])
  <2>1. db'[k] \in EntryType
    BY <1>1 DEF DataType
  <2>2. \/ Fades(db[k], db'[k])
        \/ ~Bad(cl, db[k]) /\ db'[k] = Handed(c, cl, k, db[k])
    BY StoreFacts, ReadData
  <2> QED BY <2>1, <2>2, FadedKey, HandedKey
<1> QED BY <1>1, <1>2, StoreByKeyNext

-----------------------------------------------------------------------------
(* A client that a step leaves where it is *)

\* The history of the client says no more than that of its call.
Remembers(c) ==
    intact'[c] => /\ intact[c]
                  /\ \A k \in Keys : Watches(c, k) => ~Gone(db', k) /\ ~GroupGone(db', k)

\* Its future, its call and its reply stay.
Stands(c) == pc'[c] = pc[c] /\ call'[c] = call[c] /\ reply'[c] = reply[c]

\* Every stream keeps what was known of it.
AllKeep == \A k \in Keys : Keeps(db[k], db'[k])

\* A watched stream is a key, and was not replaced as long as the client's history
\* is intact.
LEMMA WatchedKeys ==
    ASSUME ClientInv, NEW c \in Clients, pc[c] # "idle", Remembers(c), intact'[c],
           NEW k \in Range(call[c].keys)
    PROVE  /\ k \in Keys /\ Watches(c, k) /\ intact[c]
           /\ ~Replaced(db[k], db'[k])
           /\ db[k].kind = "stream" => db'[k].kind = "stream"
           /\ HasGroup(db[k]) => HasGroup(db'[k])
<1>1. k \in Keys
  BY CallKeys DEF ClientInv, Fine, CallOK
<1>2. Watches(c, k) /\ ~Gone(db', k) /\ ~GroupGone(db', k)
  BY <1>1 DEF Watches, Remembers
<1> QED BY <1>1, <1>2 DEF Remembers, Gone, GroupGone, Replaced

\* What came since the call began is still below last_id.
LEMMA SinceAbove ==
    ASSUME StoreInv, StoreInv', ClientInv, NEW c \in Clients, Remembers(c), AllKeep,
           NEW p \in since[c]
    PROVE  /\ p[1] \in Range(call[c].keys)
           /\ call[c].op = "read" => p[2] > call[c].from[p[1]]
           /\ intact'[c] => db'[p[1]].kind = "stream" /\ p[2] <= db'[p[1]].last
<1>1. SinceOK(c) /\ pc[c] # "idle"
  BY DEF ClientInv, Fine, CallOK
<1>2. ASSUME intact'[c] PROVE db'[p[1]].kind = "stream" /\ p[2] <= db'[p[1]].last
  <2>1. /\ p[1] \in Keys /\ intact[c] /\ ~Replaced(db[p[1]], db'[p[1]])
        /\ db[p[1]].kind = "stream" => db'[p[1]].kind = "stream"
    BY <1>1, <1>2, WatchedKeys DEF SinceOK
  <2>2. db[p[1]].kind = "stream" /\ p[2] <= db[p[1]].last
    BY <1>1, <2>1 DEF SinceOK
  <2>3. db'[p[1]].last >= db[p[1]].last
    BY <2>1, <2>2 DEF AllKeep, Keeps
  <2>4. p \in Keys \X Ids /\ p[2] \in Int
    BY ConstantsAssumption DEF ClientInv, ClientType, Ids
  <2>5. db[p[1]].last \in Int /\ db'[p[1]].last \in Int
    BY <2>1, ConstantsAssumption DEF StoreInv, DataType, EntryType
  <2> QED BY <2>1, <2>2, <2>3, <2>4, <2>5
<1> QED BY <1>1, <1>2 DEF SinceOK

\* So what the history says of a call whose history stays the same is still true.
LEMMA SinceStays ==
    ASSUME StoreInv, StoreInv', ClientInv, NEW c \in Clients, Remembers(c), AllKeep,
           call'[c] = call[c], since'[c] = since[c]
    PROVE  SinceOK(c)'
BY SinceAbove DEF SinceOK

\* What a call got, the cursor has still passed.
LEMMA GotStays ==
    ASSUME StoreInv, StoreInv', ClientInv, NEW c \in Clients, Remembers(c), AllKeep,
           call'[c] = call[c], reply'[c] = reply[c]
    PROVE  GotOK(c)'
<1>1. SUFFICES ASSUME NEW p \in reply[c].got
               PROVE  /\ p[1] \in Range(call[c].keys)
                      /\ intact'[c] /\ Delivers(call[c], p[1])
                            => HasGroup(db'[p[1]]) /\ p[2] <= db'[p[1]].cursor
  BY DEF GotOK, Delivers
<1>2. GotOK(c) /\ pc[c] # "idle"
  BY <1>1 DEF ClientInv, Fine, CallOK
<1>3. ASSUME intact'[c], Delivers(call[c], p[1])
      PROVE  HasGroup(db'[p[1]]) /\ p[2] <= db'[p[1]].cursor
  <2>1. /\ p[1] \in Keys /\ intact[c] /\ ~Replaced(db[p[1]], db'[p[1]])
        /\ HasGroup(db[p[1]]) => HasGroup(db'[p[1]])
    BY <1>1, <1>2, <1>3, WatchedKeys DEF GotOK
  <2>2. HasGroup(db[p[1]]) /\ p[2] <= db[p[1]].cursor
    BY <1>1, <1>2, <1>3, <2>1 DEF GotOK
  <2>3. db'[p[1]].cursor >= db[p[1]].cursor
    BY <2>1, <2>2 DEF AllKeep, Keeps, HasGroup
  <2>4. p \in Keys \X Ids /\ p[2] \in Int
    BY <1>1, ConstantsAssumption DEF ClientInv, ClientType, Reply, Ids
  <2>5. db[p[1]].cursor \in Int /\ db'[p[1]].cursor \in Int
    BY <2>1, ConstantsAssumption DEF StoreInv, DataType, EntryType, NoGroup
  <2> QED BY <2>1, <2>2, <2>3, <2>4, <2>5
<1> QED BY <1>1, <1>2, <1>3 DEF GotOK

\* A sleeping call's groups are still there.
LEMMA ParkedStays ==
    ASSUME ClientInv, NEW c \in Clients, Remembers(c), Stands(c)
    PROVE  ParkedOK(c)'
<1>1. SUFFICES ASSUME Parked(c), intact'[c], NEW k \in Range(call[c].keys),
                      Delivers(call[c], k)
               PROVE  HasGroup(db'[k])
  BY DEF ParkedOK, Parked, Delivers, Stands
<1>2. HasGroup(db[k])
  BY <1>1 DEF ClientInv, Fine, ParkedOK, Remembers
<1> QED BY <1>1, <1>2, WatchedKeys DEF Parked

\* A reply that had no gap has none: an entry that is not there does not come back.
LEMMA NoGapStays ==
    ASSUME StoreInv, ClientInv, NEW c \in Clients, Remembers(c), Stands(c), AllKeep,
           pc[c] = "reply" => since'[c] = since[c]
    PROVE  NoGap(c)'
<1>1. SUFFICES ASSUME pc[c] = "reply", reply[c].kind = "entries", call[c].op = "read",
                      intact'[c], NEW p \in since[c] \ reply[c].got,
                      p[2] \in db'[p[1]].entries
               PROVE  LET before == {q \in reply[c].got : q[1] = p[1]}
                      IN  /\ Cardinality(before) = call[c].count
                          /\ \A q \in before : q[2] < p[2]
  BY DEF NoGap, Stands
<1>2. NoGap(c) /\ SinceOK(c)
  BY DEF ClientInv, Fine
<1>3. p[1] \in Keys /\ intact[c] /\ ~Replaced(db[p[1]], db'[p[1]])
  BY <1>1, <1>2, WatchedKeys DEF SinceOK
<1>4. db[p[1]].kind = "stream" /\ p[2] <= db[p[1]].last
  BY <1>1, <1>2, <1>3 DEF SinceOK
<1>5. p[2] \in db[p[1]].entries \/ p[2] > db[p[1]].last
  BY <1>1, <1>3, <1>4 DEF AllKeep, Keeps
<1>6. p[2] \in Int /\ db[p[1]].last \in Int
  BY <1>1, <1>3, ConstantsAssumption
  DEF ClientInv, ClientType, Ids, StoreInv, DataType, EntryType
<1>7. p[2] \in db[p[1]].entries
  BY <1>4, <1>5, <1>6
<1> QED BY <1>1, <1>2, <1>3, <1>7 DEF NoGap

\* A sleeping call that nobody gave anything has nothing due.
LEMMA AwakeStays ==
    ASSUME StoreInv, StoreInv', ClientInv, NEW c \in Clients, Remembers(c), Stands(c),
           AllKeep, \A k \in Keys : AddsNothing(db[k], db'[k]),
           since'[c] = since[c],
           waiter'[c] = waiter[c] \/ waiter'[c] = "notified",
           ~grown' /\ waiter'[c] = "armed" => ~grown
    PROVE  Awake(c)'
<1>1. SUFFICES ASSUME Parked(c), waiter'[c] # "notified", ~grown',
                      NEW k \in Range(call[c].keys), NEW i \in Due(c, k)'
               PROVE  FALSE
  BY DEF Awake, Parked, Stands
<1>2. call[c] \in CallType /\ waiter[c] \in {"armed", "notified"}
  BY <1>1 DEF ClientInv, ClientType, Fine, CallOK, Parked
<1>3. k \in Keys
  BY <1>1, <1>2, CallKeys
<1>4. Due(c, k) = {}
  BY <1>1, <1>2 DEF ClientInv, Fine, Awake
<1>5. i \in db[k].entries /\ db[k].ttl # "past"
  BY <1>1, <1>3 DEF Due, AddsNothing
<1>6. ~(call[c].op = "read" /\ (i > call[c].from[k] \/ <<k, i>> \in since[c]))
  BY <1>4, <1>5 DEF Due
<1>7. Delivers(call[c], k) /\ i > db'[k].cursor /\ intact'[c] /\ <<k, i>> \in since[c]
  BY <1>1, <1>6 DEF Due, Delivers, Stands
<1>8. intact[c] /\ HasGroup(db[k]) /\ HasGroup(db'[k]) /\ ~Replaced(db[k], db'[k])
  BY <1>1, <1>7, WatchedKeys DEF ClientInv, Fine, ParkedOK, Parked
<1>9. db'[k].cursor >= db[k].cursor
  BY <1>3, <1>8 DEF AllKeep, Keeps, HasGroup
<1>10. db[k].cursor \in Int /\ db'[k].cursor \in Int /\ i \in Int
  BY <1>3, <1>5, ConstantsAssumption DEF StoreInv, DataType, EntryType, NoGroup, Ids
<1>11. i > db[k].cursor
  BY <1>7, <1>9, <1>10
<1> QED BY <1>4, <1>5, <1>7, <1>8, <1>11 DEF Due

\* All of it: a step that adds nothing, and of which the client is not the actor.
LEMMA Bystander ==
    ASSUME StoreInv, StoreInv', ClientInv, NEW c \in Clients, Remembers(c), Stands(c),
           AllKeep, \A k \in Keys : AddsNothing(db[k], db'[k]),
           since'[c] = since[c],
           waiter'[c] = waiter[c] \/ waiter'[c] = "notified",
           ~grown' /\ waiter'[c] = "armed" => ~grown
    PROVE  Fine(c)'
<1>1. CallOK(c)'
  BY DEF ClientInv, Fine, CallOK, Stands
<1>2. SinceOK(c)' /\ GotOK(c)' /\ ParkedOK(c)' /\ NoGap(c)'
  BY SinceStays, GotStays, ParkedStays, NoGapStays DEF Stands
<1>3. Awake(c)'
  BY AwakeStays
<1> QED BY <1>1, <1>2, <1>3 DEF Fine

-----------------------------------------------------------------------------
(* Commands: no client is the actor *)

\* The history of the clients is that of the step.
LEMMA IntactRemembers ==
    ASSUME intact' = IntactIn(db'), NEW c \in Clients
    PROVE  Remembers(c) /\ intact'[c] \in BOOLEAN
<1>1. intact'[c] = /\ intact[c]
                   /\ \A k \in Keys : Watches(c, k) => ~Gone(db', k) /\ ~GroupGone(db', k)
  BY DEF IntactIn
<1> QED BY <1>1 DEF Remembers

\* Replies that stay are still apart.
LEMMA GotApartStays ==
    ASSUME GotApart, call' = call, reply' = reply,
           \A c \in Clients : intact'[c] => intact[c]
    PROVE  GotApart'
BY DEF GotApart, Delivers

\* A step of the data map that gives nobody anything, and no client moves.
LEMMA DataStep ==
    ASSUME StoreInv, StoreInv', ClientInv, AllKeep,
           \A k \in Keys : AddsNothing(db[k], db'[k]),
           intact' = IntactIn(db'), UNCHANGED <<pc, call, late, reply, since, waiter, grown>>
    PROVE  ClientInv'
<1>1. \A c \in Clients : Remembers(c) /\ intact'[c] \in BOOLEAN
  BY IntactRemembers
<1>2. ClientType'
  BY <1>1 DEF ClientInv, ClientType, IntactIn
<1>3. GotApart'
  BY <1>1, GotApartStays DEF ClientInv, Remembers
<1>4. \A c \in Clients : Fine(c)'
  BY <1>1, Bystander DEF Stands
<1> QED BY <1>2, <1>3, <1>4 DEF ClientInv

\* A command that changes the data map and tells nobody.
LEMMA SilentStep ==
    ASSUME IInv, NEW d \in [Keys -> EntryType], \A k \in Keys : Fades(db[k], d[k]),
           Silently(d), UNCHANGED <<gil, shutdown, pc, call, late, reply>>
    PROVE  IInv'
<1>1. /\ db' = d /\ born' = BornIn(d) /\ acked' = AckedIn(d) /\ intact' = IntactIn(d)
      /\ UNCHANGED <<since, grown, waiter>>
  BY DEF Silently, Observed, Quiet
<1>2. StoreInv'
  BY <1>1, FadingStep DEF IInv
<1>3. AllKeep /\ \A k \in Keys : AddsNothing(db[k], db'[k])
  BY <1>1, StoreFacts, FadesFacts DEF IInv, AllKeep
<1>4. ClientInv'
  BY <1>1, <1>2, <1>3, DataStep DEF IInv
<1>5. ControlType'
  BY <1>1 DEF IInv, ControlType
<1> QED BY <1>2, <1>4, <1>5 DEF IInv

\* The key a command purged: it was alive, or it is gone.
LEMMA PurgedKey ==
    ASSUME IInv, NEW k \in Keys
    PROVE  LET p == Purge(db, {k})
           IN  /\ p \in [Keys -> EntryType] /\ Good(db[k]) /\ Good(p[k])
               /\ \/ p[k] = db[k] /\ db[k].ttl # "past"
                  \/ p[k] = Absent /\ db[k].ttl = "past"
BY PurgeFacts, StoreFacts DEF IInv

\* One key of a purged map is rewritten: it is enough to look at that key.
LEMMA RewrittenFades ==
    ASSUME StoreInv, NEW k \in Keys, NEW f \in EntryType,
           Fades(db[k], f)
    PROVE  LET d == [Purge(db, {k}) EXCEPT ![k] = f]
           IN  d \in [Keys -> EntryType] /\ \A x \in Keys : Fades(db[x], d[x])
BY StoreFacts, PurgeFacts DEF Fades

\* XDEL and XTRIM.
LEMMA XDeleteStep ==
    ASSUME IInv, NEW k \in Keys, NEW ids \in SUBSET Ids, XDelete(k, ids)
    PROVE  IInv'
<1> DEFINE p == Purge(db, {k})
           f == [p[k] EXCEPT !.entries = @ \ ids]
<1>1. /\ p \in [Keys -> EntryType] /\ Good(db[k]) /\ Good(p[k])
      /\ \/ p[k] = db[k] /\ db[k].ttl # "past"
         \/ p[k] = Absent /\ db[k].ttl = "past"
  BY PurgedKey
<1>2. Silently([p EXCEPT ![k] = f]) /\ UNCHANGED <<gil, shutdown, pc, call, late, reply>>
  BY DEF XDelete, Sync
<1> HIDE DEF p
<1>3. /\ f \in EntryType /\ f.kind = p[k].kind /\ f.last = p[k].last /\ f.ttl = p[k].ttl
      /\ f.cursor = p[k].cursor /\ f.pel = p[k].pel /\ f.entries \subseteq p[k].entries
  BY <1>1 DEF EntryType
<1> HIDE DEF f
<1>4. Fades(db[k], f)
  BY <1>1, <1>3, NewEntries DEF Fades, Blank, Replaced
<1>5. [p EXCEPT ![k] = f] \in [Keys -> EntryType]
      /\ \A x \in Keys : Fades(db[x], [p EXCEPT ![k] = f][x])
  BY <1>3, <1>4, RewrittenFades DEF IInv, p
<1> QED BY <1>2, <1>5, SilentStep

\* XGROUP DESTROY.
LEMMA XGroupDestroyStep ==
    ASSUME IInv, NEW k \in Keys, XGroupDestroy(k)
    PROVE  IInv'
<1> DEFINE p == Purge(db, {k})
           f == [p[k] EXCEPT !.cursor = NoGroup, !.pel = NoPending]
<1>1. /\ p \in [Keys -> EntryType] /\ Good(db[k]) /\ Good(p[k])
      /\ \/ p[k] = db[k] /\ db[k].ttl # "past"
         \/ p[k] = Absent /\ db[k].ttl = "past"
  BY PurgedKey
<1>2. Silently([p EXCEPT ![k].cursor = NoGroup, ![k].pel = NoPending])
      /\ UNCHANGED <<gil, shutdown, pc, call, late, reply>>
  BY DEF XGroupDestroy, Sync
<1> HIDE DEF p
<1>3. [p EXCEPT ![k].cursor = NoGroup, ![k].pel = NoPending] = [p EXCEPT ![k] = f]
  BY <1>1
<1>4. /\ f \in EntryType /\ f.kind = p[k].kind /\ f.last = p[k].last /\ f.ttl = p[k].ttl
      /\ f.cursor = NoGroup /\ f.pel = NoPending /\ f.entries = p[k].entries
  BY <1>1 DEF EntryType, NoPending
<1> HIDE DEF f
<1>5. Fades(db[k], f)
  BY <1>1, <1>4, NewEntries DEF Fades, Blank, Replaced
<1>6. [p EXCEPT ![k] = f] \in [Keys -> EntryType]
      /\ \A x \in Keys : Fades(db[x], [p EXCEPT ![k] = f][x])
  BY <1>4, <1>5, RewrittenFades DEF IInv, p
<1> QED BY <1>2, <1>3, <1>6, SilentStep

\* EXPIRE.
LEMMA ExpireStep ==
    ASSUME IInv, NEW k \in Keys, Expire(k)
    PROVE  IInv'
<1> DEFINE p == Purge(db, {k})
           f == [p[k] EXCEPT !.ttl = "running"]
<1>1. /\ p \in [Keys -> EntryType] /\ Good(db[k]) /\ Good(p[k])
      /\ \/ p[k] = db[k] /\ db[k].ttl # "past"
         \/ p[k] = Absent /\ db[k].ttl = "past"
  BY PurgedKey
<1>2. Silently([p EXCEPT ![k] = f]) /\ UNCHANGED <<gil, shutdown, pc, call, late, reply>>
  BY DEF Expire, Sync
<1> HIDE DEF p
<1>3. /\ f \in EntryType /\ f.kind = p[k].kind /\ f.last = p[k].last
      /\ f.cursor = p[k].cursor /\ f.pel = p[k].pel /\ f.entries = p[k].entries
  BY <1>1 DEF EntryType, Ttls
<1> HIDE DEF f
<1>4. Fades(db[k], f)
  BY <1>1, <1>3, NewEntries DEF Fades, Blank, Replaced
<1>5. [p EXCEPT ![k] = f] \in [Keys -> EntryType]
      /\ \A x \in Keys : Fades(db[x], [p EXCEPT ![k] = f][x])
  BY <1>3, <1>4, RewrittenFades DEF IInv, p
<1> QED BY <1>2, <1>5, SilentStep

\* DEL and SET do not look at the old value.
LEMMA OverwriteStep ==
    ASSUME IInv, NEW k \in Keys, Del(k) \/ Set(k)
    PROVE  IInv'
<1>1. PICK f \in EntryType : /\ Silently([db EXCEPT ![k] = f]) /\ Blank(f)
                             /\ f.kind # "stream"
                             /\ UNCHANGED <<gil, shutdown, pc, call, late, reply>>
  BY NewEntries DEF Del, Set, Sync, Good
<1>2. db \in [Keys -> EntryType]
  BY StoreFacts DEF IInv
<1>3. \A x \in Keys : Fades(db[x], [db EXCEPT ![k] = f][x])
  BY <1>1, <1>2 DEF Fades, Replaced
<1>4. [db EXCEPT ![k] = f] \in [Keys -> EntryType]
  BY <1>1, <1>2
<1> QED BY <1>1, <1>3, <1>4, SilentStep

\* The sweeper.
LEMMA SweepStep ==
    ASSUME IInv, NEW ks \in SUBSET Keys, Sweep(ks)
    PROVE  IInv'
<1>1. Silently(Purge(db, ks)) /\ UNCHANGED <<gil, shutdown, pc, call, late, reply>>
  BY DEF Sweep, control, client
<1> QED BY <1>1, StoreFacts, PurgeFacts, SilentStep DEF IInv

\* A step in which no stream and no group goes leaves the history as it is.
LEMMA NothingGone ==
    ASSUME IInv, NEW d, \A k \in Keys : ~Gone(d, k) /\ ~GroupGone(d, k)
    PROVE  BornIn(d) = born /\ AckedIn(d) = acked /\ IntactIn(d) = intact
<1>1. born \in [Keys -> 0 .. MaxId] /\ acked \in [Keys -> SUBSET Ids]
      /\ intact \in [Clients -> BOOLEAN]
  BY DEF IInv, StoreInv, DataType, ClientInv, ClientType
<1> QED BY <1>1 DEF BornIn, AckedIn, IntactIn

\* A deadline passes.
LEMMA TimePassesStep ==
    ASSUME IInv, NEW k \in Keys, TimePasses(k)
    PROVE  IInv'
<1> DEFINE f == [db[k] EXCEPT !.ttl = "past"]
<1>1. /\ db[k].ttl = "running" /\ db' = [db EXCEPT ![k] = f]
      /\ UNCHANGED <<gil, grown, shutdown, pc, waiter, call, late, reply, born, acked,
                     since, intact>>
  BY DEF TimePasses, control, client, groups, watch
<1>2. db \in [Keys -> EntryType]
  BY StoreFacts DEF IInv
<1>3. /\ f \in EntryType /\ f.kind = db[k].kind /\ f.last = db[k].last
      /\ f.cursor = db[k].cursor /\ f.pel = db[k].pel /\ f.entries = db[k].entries
  BY <1>2 DEF EntryType, Ttls
<1> HIDE DEF f
<1>4. db' \in [Keys -> EntryType] /\ \A x \in Keys : Fades(db[x], db'[x])
  BY <1>1, <1>2, <1>3 DEF Fades
<1>5. \A x \in Keys : ~Gone(db', x) /\ ~GroupGone(db', x)
  BY <1>1, <1>2, <1>3 DEF Gone, GroupGone, HasGroup
<1>6. BornIn(db') = born /\ AckedIn(db') = acked /\ IntactIn(db') = intact
  BY <1>5, NothingGone
<1>7. Silently(db')
  BY <1>1, <1>6 DEF Silently, Observed, Quiet
<1> QED BY <1>1, <1>4, <1>7, SilentStep

\* XADD that adds: the entry, and what it does to the data map.
Added(e, id) == [e EXCEPT !.entries = @ \cup {id}, !.last = id]

\* An entry that goes above last_id is a good one, and the cursor has not passed it.
LEMMA AddedFacts ==
    ASSUME NEW e, Good(e), e.kind = "stream", NEW id \in Ids, id > e.last
    PROVE  LET f == Added(e, id)
           IN  /\ Good(f) /\ f.kind = "stream" /\ f.ttl = e.ttl /\ f.last = id
               /\ f.cursor = e.cursor /\ f.pel = e.pel /\ f.entries = e.entries \cup {id}
               /\ id > e.cursor
<1> DEFINE f == Added(e, id)
<1>1. e \in EntryType /\ id \in Nat /\ id <= MaxId /\ MaxId \in Nat
  BY ConstantsAssumption DEF Good, Ids
<1>2. /\ f.kind = "stream" /\ f.ttl = e.ttl /\ f.last = id /\ f.cursor = e.cursor
      /\ f.pel = e.pel /\ f.entries = e.entries \cup {id} /\ f \in EntryType
  <2>1. e.entries \cup {id} \in SUBSET Ids /\ id \in 0 .. MaxId
    BY <1>1, GoodFields
  <2> DEFINE both == e.entries \cup {id}
  <2> HIDE DEF both
  <2>2. f = [e EXCEPT !.entries = both, !.last = id]
    BY DEF Added, both
  <2>3. both \in SUBSET Ids
    BY <2>1 DEF both
  <2>4. /\ f.kind = e.kind /\ f.ttl = e.ttl /\ f.last = id /\ f.cursor = e.cursor
        /\ f.pel = e.pel /\ f.entries = both /\ f \in EntryType
    BY <1>1, <2>1, <2>2, <2>3 DEF EntryType
  <2> QED BY <2>4 DEF both
<1>3. id > e.cursor
  BY <1>1, GoodFields DEF Good, EntryOK
<1> HIDE DEF f
<1>4. EntryOK(f)
  BY <1>1, <1>2, <1>3, GoodFields DEF Good, EntryOK
<1>5. Apart(f)
  BY <1>2 DEF Good, Apart
<1> QED BY <1>2, <1>3, <1>4, <1>5 DEF f, Good

\* The stream an XADD or an XGROUP CREATE works on: the one that is there, or a new
\* one in the place of nothing or of a dead key.
StreamAt(k) ==
    IF Purge(db, {k})[k].kind = "absent" THEN NewStream ELSE Purge(db, {k})[k]

\* That stream is a good entry, to which the key fades.
LEMMA StreamAtFacts ==
    ASSUME IInv, NEW k \in Keys
    PROVE  /\ Good(StreamAt(k)) /\ Fades(db[k], StreamAt(k)) /\ StreamAt(k) \in EntryType
           /\ \/ StreamAt(k) = db[k] /\ db[k].ttl # "past"
              \/ /\ Blank(StreamAt(k)) /\ StreamAt(k).ttl = "none"
                 /\ db[k].kind = "stream" => db[k].ttl = "past"
<1>1. LET p == Purge(db, {k})
      IN  /\ Good(db[k]) /\ Good(p[k])
          /\ \/ p[k] = db[k] /\ db[k].ttl # "past"
             \/ p[k] = Absent /\ db[k].ttl = "past"
  BY PurgedKey
<1> QED BY <1>1, NewEntries DEF StreamAt, Fades, Replaced, Good

\* What XADD does to the data map when it adds.
LEMMA XAddStore ==
    ASSUME IInv, NEW k \in Keys, NEW id \in Ids,
           StreamAt(k).kind = "stream", id > StreamAt(k).last,
           db' = [Purge(db, {k}) EXCEPT ![k] = Added(StreamAt(k), id)], Observed(db')
    PROVE  StoreInv' /\ AllKeep /\ db'[k].kind = "stream" /\ db'[k].last = id
<1> DEFINE e == StreamAt(k)
           f == Added(e, id)
           p == Purge(db, {k})
<1>1. /\ Good(e) /\ Fades(db[k], e) /\ e \in EntryType
      /\ \/ e = db[k] /\ db[k].ttl # "past"
         \/ /\ Blank(e) /\ e.ttl = "none"
            /\ db[k].kind = "stream" => db[k].ttl = "past"
  BY StreamAtFacts
<1>2. /\ Good(f) /\ f.kind = "stream" /\ f.ttl = e.ttl /\ f.last = id
      /\ f.cursor = e.cursor /\ f.pel = e.pel /\ f.entries = e.entries \cup {id}
      /\ id > e.cursor
  BY <1>1, AddedFacts
<1>3. born' = BornIn(db') /\ acked' = AckedIn(db')
  BY DEF Observed
<1>4. StoreInv /\ p \in [Keys -> EntryType] /\ \A x \in Keys : x # k => p[x] = db[x]
  BY StoreFacts, PurgeFacts DEF IInv
<1> HIDE DEF e, f, p
<1>5. db'[k] = f /\ (\A x \in Keys : x # k => db'[x] = db[x]) /\ db' \in [Keys -> EntryType]
  BY <1>2, <1>4 DEF e, f, p, Good
<1>6. DataType'
  BY <1>3, <1>4, <1>5, ObservedFacts DEF StoreInv, DataType
<1>7. ASSUME NEW x \in Keys
      PROVE  Good(db'[x]) /\ PendingOK(db'[x], born'[x], acked'[x])
  <2>1. CASE x # k
    BY <1>3, <1>4, <1>5, <2>1, FadedKey DEF DataType, StoreInv, Fades
  <2>2. CASE x = k
    <3>1. CASE e = db[k] /\ db[k].ttl # "past"
      <4>1. ~GroupGone(db', k)
        BY <1>2, <1>5, <3>1 DEF GroupGone, Gone, HasGroup
      <4>2. born'[k] = born[k] /\ acked'[k] = acked[k]
        BY <1>3, <1>4, <4>1, ObservedFacts DEF StoreInv
      <4>3. PendingOK(db[k], born[k], acked[k])
        BY <1>4, StoreOfKey
      <4>4. id \in Int /\ f.cursor \in Int
        BY <1>2, GoodFields, ConstantsAssumption DEF Ids
      <4>5. \A i \in f.entries : i <= f.cursor => i \in db[k].entries
        BY <1>2, <3>1, <4>4
      <4>6. HasGroup(f) => HasGroup(db[k])
        BY <1>2, <3>1 DEF HasGroup, e
      <4>7. f.cursor = db[k].cursor /\ f.pel = db[k].pel
        BY <1>2, <3>1
      <4>8. PendingOK(f, born[k], acked[k])
        BY <4>3, <4>5, <4>6, <4>7 DEF PendingOK
      <4> QED BY <1>2, <1>5, <2>2, <4>2, <4>8
    <3>2. CASE Blank(e)
      BY <1>2, <1>5, <2>2, <3>2 DEF PendingOK, HasGroup, Blank
    <3> QED BY <1>1, <3>1, <3>2
  <2> QED BY <2>1, <2>2
<1>8. StoreInv'
  BY <1>6, <1>7, StoreByKeyNext
<1>9. ASSUME NEW x \in Keys PROVE Keeps(db[x], db'[x])
  <2>1. CASE x # k
    <3>1. Good(db[x]) /\ db'[x] = db[x]
      BY <1>4, <1>5, <2>1, StoreFacts
    <3> QED BY <3>1, SameKeeps
  <2>2. CASE x = k
    <3>1. Good(db[k])
      BY <1>4, StoreFacts
    <3>2. id \in Int /\ id > e.last
      BY ConstantsAssumption DEF Ids, e
    <3>3. CASE e = db[k] /\ db[k].ttl # "past"
      BY <1>2, <1>5, <2>2, <3>1, <3>2, <3>3, GoodFields DEF Keeps
    <3>4. CASE db[k].kind = "stream" => db[k].ttl = "past" /\ f.ttl # "past"
      BY <1>5, <2>2, <3>4 DEF Keeps, Replaced
    <3> QED BY <1>1, <1>2, <3>3, <3>4
  <2> QED BY <2>1, <2>2
<1> QED BY <1>2, <1>5, <1>8, <1>9 DEF AllKeep

\* XADD: refused, or announced to the waiters, at once or by the script's flag.
LEMMA XAddStep ==
    ASSUME IInv, NEW k \in Keys, NEW id \in Ids, XAdd(k, id)
    PROVE  IInv'
<1> DEFINE p == Purge(db, {k})
           e == StreamAt(k)
<1>1. UNCHANGED <<gil, shutdown, pc, call, late, reply>>
  BY DEF XAdd, Sync
<1>2. CASE Silently(p)
  BY <1>1, <1>2, StoreFacts, PurgeFacts, SilentStep DEF IInv
<1>3. CASE Silently([p EXCEPT ![k] = e])
  BY <1>1, <1>3, StreamAtFacts, RewrittenFades, SilentStep DEF IInv
<1>4. CASE /\ e.kind = "stream"
           /\ id > e.last
           /\ db' = [p EXCEPT ![k] = Added(e, id)]
           /\ Observed(db')
           /\ since' = [c \in Clients |->
                 IF Waiting(c) /\ Watches(c, k) /\ Asks(call[c], k, id)
                 THEN since[c] \cup {<<k, id>>} ELSE since[c]]
           /\ Grew
  <2>1. StoreInv' /\ AllKeep /\ db'[k].kind = "stream" /\ db'[k].last = id
    BY <1>4, XAddStore
  <2>2. \A c \in Clients : Remembers(c) /\ intact'[c] \in BOOLEAN
    BY <1>4, IntactRemembers DEF Observed
  <2>3. \A c \in Clients : /\ Stands(c)
                           /\ ~Waiting(c) => since'[c] = since[c]
    BY <1>1, <1>4 DEF Stands
  <2>4. ControlType'
    BY <1>1, <1>4 DEF IInv, ControlType, Grew
  <2>5. ClientType'
    <3>1. waiter' \in [Clients -> {"off", "armed", "notified"}]
      BY <1>4 DEF Grew, Notified, IInv, ClientInv, ClientType
    <3>2. since' \in [Clients -> SUBSET (Keys \X Ids)]
      BY <1>4 DEF IInv, ClientInv, ClientType
    <3>3. intact' \in [Clients -> BOOLEAN]
      BY <1>4, <2>2 DEF Observed, IntactIn
    <3> QED BY <1>1, <3>1, <3>2, <3>3 DEF IInv, ClientInv, ClientType
  <2>6. GotApart'
    BY <1>1, <2>2, GotApartStays DEF Remembers, IInv, ClientInv
  <2>7. ASSUME NEW c \in Clients PROVE Fine(c)'
    <3>1. Fine(c) /\ ClientInv /\ StoreInv
      BY DEF IInv, ClientInv
    <3>2. CallOK(c)'
      BY <1>4, <2>3, <3>1 DEF Fine, CallOK, Stands, Waiting, Grew, Notified
    <3>3. GotOK(c)' /\ ParkedOK(c)' /\ NoGap(c)'
      BY <2>1, <2>2, <2>3, <3>1, GotStays, ParkedStays, NoGapStays DEF Stands, Waiting
    <3>4. SinceOK(c)'
      <4>1. CASE since'[c] = since[c]
        BY <2>1, <2>2, <2>3, <3>1, <4>1, SinceStays DEF Stands
      <4>2. CASE since'[c] # since[c]
        <5>1. /\ Watches(c, k) /\ Asks(call[c], k, id) /\ call'[c] = call[c]
              /\ since'[c] = since[c] \cup {<<k, id>>}
          BY <1>1, <1>4, <4>2
        <5>2. \A q \in since[c] :
                /\ q[1] \in Range(call[c].keys)
                /\ call[c].op = "read" => q[2] > call[c].from[q[1]]
                /\ intact'[c] => db'[q[1]].kind = "stream" /\ q[2] <= db'[q[1]].last
          BY <2>1, <2>2, <3>1, SinceAbove
        <5>3. id <= db'[k].last
          BY <2>1, ConstantsAssumption DEF Ids
        <5> QED BY <2>1, <5>1, <5>2, <5>3 DEF SinceOK, Watches, Asks
      <4> QED BY <4>1, <4>2
    <3>5. Awake(c)'
      <4>1. Parked(c)' => waiter[c] \in {"armed", "notified"}
        BY <2>3, <3>1 DEF Fine, CallOK, Parked, Stands, ClientInv, ClientType
      <4> QED BY <1>4, <4>1 DEF Awake, Grew, Notified
    <3> QED BY <3>2, <3>3, <3>4, <3>5 DEF Fine
  <2> QED BY <2>1, <2>4, <2>5, <2>6, <2>7 DEF IInv, ClientInv
<1> QED BY <1>2, <1>3, <1>4 DEF XAdd, StreamAt, Added

\* XGROUP CREATE: nothing is pending in a new group, whose cursor is where it was
\* created.
LEMMA XGroupCreateStep ==
    ASSUME IInv, NEW k \in Keys, NEW id \in 0 .. MaxId, XGroupCreate(k, id)
    PROVE  IInv'
<1> DEFINE p == Purge(db, {k})
           e == StreamAt(k)
           f == [e EXCEPT !.cursor = id]
<1>1. UNCHANGED <<gil, shutdown, pc, call, late, reply>> /\ id \in {0, e.last}
  BY DEF XGroupCreate, Sync, StreamAt
<1>2. CASE Silently(p)
  BY <1>1, <1>2, StoreFacts, PurgeFacts, SilentStep DEF IInv
<1>3. CASE /\ e.kind = "stream" /\ ~HasGroup(e)
           /\ db' = [p EXCEPT ![k] = f]
           /\ born' = [born EXCEPT ![k] = id]
           /\ acked' = AckedIn(db')
           /\ intact' = IntactIn(db')
           /\ UNCHANGED since
           /\ Quiet
  <2>1. /\ Good(e) /\ e \in EntryType
        /\ \/ e = db[k] /\ db[k].ttl # "past"
           \/ /\ Blank(e) /\ e.ttl = "none"
              /\ db[k].kind = "stream" => db[k].ttl = "past"
    BY StreamAtFacts
  <2>2. StoreInv /\ p \in [Keys -> EntryType] /\ \A x \in Keys : x # k => p[x] = db[x]
    BY StoreFacts, PurgeFacts DEF IInv
  <2> HIDE DEF p, e
  <2>3. e.cursor = NoGroup /\ (\A c \in Clients : e.pel[c] = {}) /\ id <= e.last /\ id \in Nat
    BY <1>1, <1>3, <2>1, GoodFields, ConstantsAssumption DEF HasGroup
  <2>4. /\ f \in EntryType /\ f.kind = e.kind /\ f.ttl = e.ttl /\ f.last = e.last
        /\ f.cursor = id /\ f.pel = e.pel /\ f.entries = e.entries
    BY <2>1 DEF EntryType
  <2> HIDE DEF f
  <2>5. Good(f)
    BY <1>3, <2>1, <2>3, <2>4 DEF Good, EntryOK, Apart
  <2>6. db'[k] = f /\ (\A x \in Keys : x # k => db'[x] = db[x]) /\ db' \in [Keys -> EntryType]
    BY <1>3, <2>2, <2>4
  <2>7. born \in [Keys -> 0 .. MaxId] /\ acked \in [Keys -> SUBSET Ids]
    BY <2>2 DEF StoreInv, DataType
  <2>8. acked' \in [Keys -> SUBSET Ids] /\ born' \in [Keys -> 0 .. MaxId]
    BY <1>3, <2>7 DEF AckedIn
  <2>9. ASSUME NEW x \in Keys
        PROVE  Good(db'[x]) /\ PendingOK(db'[x], born'[x], acked'[x])
    <3>1. CASE x = k
      <4>1. born'[k] = id
        BY <1>3, <2>7
      <4>2. \A i \in f.entries : ~(id < i /\ i <= id)
        BY <2>3, <2>5, GoodFields
      <4> QED BY <2>4, <2>5, <2>6, <3>1, <4>1, <4>2 DEF PendingOK
    <3>2. CASE x # k
      <4>1. ~GroupGone(db', x)
        BY <2>6, <3>2 DEF GroupGone, Gone
      <4>2. born'[x] = born[x] /\ acked'[x] = acked[x]
        BY <1>3, <2>7, <3>2, <4>1 DEF AckedIn
      <4> QED BY <2>2, <2>6, <3>2, <4>2, StoreOfKey, StoreFacts
    <3> QED BY <3>1, <3>2
  <2>10. StoreInv'
    BY <2>6, <2>8, <2>9, StoreByKeyNext DEF DataType
  <2>11. ASSUME NEW x \in Keys PROVE Keeps(db[x], db'[x]) /\ AddsNothing(db[x], db'[x])
    <3>1. CASE x # k
      BY <2>2, <2>6, <3>1, StoreFacts, SameKeeps
    <3>2. CASE x = k /\ e = db[k] /\ db[k].ttl # "past"
      BY <1>3, <2>1, <2>4, <2>6, <3>2, GoodFields DEF Keeps, AddsNothing
    <3>3. CASE x = k /\ Blank(e) /\ (db[k].kind = "stream" => db[k].ttl = "past" /\ e.ttl # "past")
      BY <2>4, <2>6, <3>3 DEF Keeps, AddsNothing, Blank, Replaced
    <3> QED BY <2>1, <3>1, <3>2, <3>3
  <2>12. ClientInv'
    BY <1>1, <1>3, <2>10, <2>11, DataStep DEF IInv, AllKeep, Quiet
  <2>13. ControlType'
    BY <1>1, <1>3 DEF IInv, ControlType, Quiet
  <2> QED BY <2>10, <2>12, <2>13 DEF IInv
<1> QED BY <1>2, <1>3 DEF XGroupCreate, StreamAt

\* XACK: the id is no longer pending, but acknowledged.
LEMMA XAckStep ==
    ASSUME IInv, NEW k \in Keys, NEW c \in Clients, NEW id \in Ids, XAck(k, c, id)
    PROVE  IInv'
<1> DEFINE p == Purge(db, {k})
           rest == [db[k].pel EXCEPT ![c] = @ \ {id}]
           f == [db[k] EXCEPT !.pel = rest]
<1>1. /\ id \in p[k].pel[c]
      /\ db' = [p EXCEPT ![k].pel[c] = @ \ {id}]
      /\ acked' = [acked EXCEPT ![k] = @ \cup {id}]
      /\ UNCHANGED <<born, since, intact, gil, shutdown, pc, call, late, reply, grown, waiter>>
  BY DEF XAck, Sync, watch, Quiet
<1>2. StoreInv /\ db \in [Keys -> EntryType] /\ \A x \in Keys : Good(db[x])
  BY StoreFacts DEF IInv
<1>3. /\ p \in [Keys -> EntryType] /\ \A x \in Keys : x # k => p[x] = db[x]
      /\ p[k] = db[k] \/ p[k] = Absent
  BY <1>2, PurgeFacts
<1>4. p[k] = db[k]
  BY <1>1, <1>3, NewEntries DEF Blank, NoPending
<1> HIDE DEF p
<1>5. p = db
  BY <1>2, <1>3, <1>4
<1>6. rest \in [Clients -> SUBSET Ids] /\ rest[c] = db[k].pel[c] \ {id}
      /\ \A b \in Clients : b # c => rest[b] = db[k].pel[b]
  BY <1>2, GoodFields
<1>7. db' = [db EXCEPT ![k] = f]
  BY <1>1, <1>2, <1>5
<1> HIDE DEF rest
<1>8. /\ f \in EntryType /\ f.kind = db[k].kind /\ f.ttl = db[k].ttl /\ f.last = db[k].last
      /\ f.cursor = db[k].cursor /\ f.pel = rest /\ f.entries = db[k].entries
  BY <1>2, <1>6 DEF EntryType
<1> HIDE DEF f
<1>9. Good(f)
  <2>1. \A b \in Clients : rest[b] \subseteq db[k].pel[b]
    BY <1>6
  <2>2. EntryOK(f)
    BY <1>2, <1>8, <2>1 DEF Good, EntryOK
  <2>3. Apart(f)
    BY <1>2, <1>8, <2>1 DEF Good, Apart
  <2> QED BY <1>8, <2>2, <2>3 DEF Good
<1>10. db'[k] = f /\ (\A x \in Keys : x # k => db'[x] = db[x]) /\ db' \in [Keys -> EntryType]
  BY <1>2, <1>7, <1>8
<1>11. acked \in [Keys -> SUBSET Ids] /\ acked' \in [Keys -> SUBSET Ids]
       /\ acked'[k] = acked[k] \cup {id} /\ \A x \in Keys : x # k => acked'[x] = acked[x]
  BY <1>1, <1>2 DEF StoreInv, DataType
<1>12. ASSUME NEW x \in Keys
       PROVE  Good(db'[x]) /\ PendingOK(db'[x], born'[x], acked'[x])
  <2>1. PendingOK(db[x], born[x], acked[x])
    BY <1>2, StoreOfKey
  <2>2. CASE x = k
    <3>1. ASSUME HasGroup(f), NEW i \in f.entries, born[k] < i, i <= f.cursor
          PROVE  i \in acked'[k] \/ \E b \in Clients : i \in f.pel[b]
      <4>1. i \in acked[k] \/ \E b \in Clients : i \in db[k].pel[b]
        BY <1>8, <2>1, <2>2, <3>1 DEF PendingOK, HasGroup
      <4>2. \A b \in Clients : i \in db[k].pel[b] => i \in rest[b] \/ i = id
        BY <1>6
      <4> QED BY <1>8, <1>11, <4>1, <4>2
    <3> QED BY <1>1, <1>9, <1>10, <2>2, <3>1 DEF PendingOK
  <2>3. CASE x # k
    BY <1>1, <1>2, <1>10, <1>11, <2>1, <2>3
  <2> QED BY <2>2, <2>3
<1>13. StoreInv'
  BY <1>1, <1>2, <1>10, <1>11, <1>12, StoreByKeyNext DEF StoreInv, DataType
<1>14. ASSUME NEW x \in Keys PROVE Keeps(db[x], db'[x]) /\ AddsNothing(db[x], db'[x])
  <2>1. CASE x = k
    BY <1>2, <1>8, <1>10, <2>1, GoodFields DEF Keeps, AddsNothing
  <2>2. CASE x # k
    BY <1>2, <1>10, <2>2, SameKeeps
  <2> QED BY <2>1, <2>2
<1>15. \A x \in Keys : ~Gone(db', x) /\ ~GroupGone(db', x)
  BY <1>8, <1>10 DEF Gone, GroupGone, HasGroup
<1>16. intact' = IntactIn(db')
  BY <1>1, <1>15, NothingGone
<1>17. ClientInv'
  BY <1>1, <1>13, <1>14, <1>16, DataStep DEF IInv, AllKeep
<1>18. ControlType'
  BY <1>1 DEF IInv, ControlType
<1> QED BY <1>13, <1>17, <1>18 DEF IInv

-----------------------------------------------------------------------------
(* Steps of the scripts, of shutdown and of the clients *)

\* A step that leaves the data map alone.
LEMMA SameData ==
    ASSUME IInv, UNCHANGED <<db, born, acked>>
    PROVE  /\ StoreInv' /\ AllKeep /\ \A k \in Keys : AddsNothing(db[k], db'[k])
           /\ \A c \in Clients : (intact'[c] => intact[c]) => Remembers(c)
<1>1. StoreInv'
  BY DEF IInv, StoreInv, DataType, EntriesOK, PelsApart, HandedIsPending
<1>2. AllKeep /\ \A k \in Keys : AddsNothing(db[k], db'[k])
  BY StoreFacts, SameKeeps DEF IInv, AllKeep
<1>3. \A c \in Clients : (intact'[c] => intact[c]) => Remembers(c)
  BY DEF Remembers, Gone, GroupGone
<1> QED BY <1>1, <1>2, <1>3

\* A step of a script or of shutdown: it may wake waiters, and lowers the flag only
\* when it does.
LEMMA ControlStep ==
    ASSUME IInv, UNCHANGED <<db, born, acked, since, intact, pc, call, late, reply>>,
           ControlType', waiter' \in {waiter, Notified(waiter)},
           grown /\ ~grown' => waiter' = Notified(waiter)
    PROVE  IInv'
<1>1. /\ StoreInv' /\ AllKeep /\ \A k \in Keys : AddsNothing(db[k], db'[k])
      /\ \A c \in Clients : Remembers(c)
  BY SameData
<1>2. ClientType'
  BY DEF IInv, ClientInv, ClientType, Notified
<1>3. GotApart'
  BY GotApartStays DEF IInv, ClientInv
<1>4. ASSUME NEW c \in Clients PROVE Fine(c)'
  <2>1. waiter'[c] = waiter[c] \/ waiter'[c] = "notified"
    BY DEF Notified
  <2>2. Notified(waiter)[c] # "armed"
    BY DEF Notified
  <2>3. ~grown' /\ waiter'[c] = "armed" => ~grown
    BY <2>2 DEF IInv, ControlType
  <2>4. Stands(c) /\ since'[c] = since[c] /\ Remembers(c) /\ StoreInv /\ ClientInv
    BY <1>1 DEF Stands, IInv
  <2> QED BY <1>1, <2>1, <2>3, <2>4, Bystander
<1> QED BY <1>1, <1>2, <1>3, <1>4 DEF IInv, ClientInv

\* Scripts and shutdown.
LEMMA ScriptStep ==
    ASSUME IInv, \/ ScriptBegins \/ ScriptEnds \/ ScriptNotifies
                 \/ Shutdown \/ ShutdownNotifies
    PROVE  IInv'
<1>1. UNCHANGED <<db, born, acked, since, intact, pc, call, late, reply>>
  BY DEF ScriptBegins, ScriptEnds, ScriptNotifies, Shutdown, ShutdownNotifies,
         client, groups, watch
<1>2. ControlType'
  BY DEF ScriptBegins, ScriptEnds, ScriptNotifies, Shutdown, ShutdownNotifies,
         IInv, ControlType, client
<1>3. waiter' \in {waiter, Notified(waiter)} /\ (grown /\ ~grown' => waiter' = Notified(waiter))
  BY DEF ScriptBegins, ScriptEnds, ScriptNotifies, Shutdown, ShutdownNotifies, client
<1> QED BY <1>1, <1>2, <1>3, ControlStep

\* A step of one client that gives nobody anything: it is enough to look at that
\* client, and at what it got if it got something new.
LEMMA ActorStep ==
    ASSUME StoreInv, StoreInv', ClientInv, AllKeep,
           \A k \in Keys : AddsNothing(db[k], db'[k]), UNCHANGED grown,
           NEW c \in Clients, ClientType', Fine(c)',
           \A b \in Clients : b # c =>
              /\ Stands(b) /\ Remembers(b)
              /\ since'[b] = since[b] /\ waiter'[b] = waiter[b],
           \/ /\ reply'[c] = reply[c] /\ call'[c] = call[c]
              /\ intact'[c] => intact[c]
           \/ \A p \in reply'[c].got :
                 Delivers(call'[c], p[1]) => HasGroup(db[p[1]]) /\ p[2] > db[p[1]].cursor
    PROVE  ClientInv'
<1>1. ASSUME NEW b \in Clients, b # c PROVE Fine(b)'
  BY <1>1, Bystander
<1>2. ASSUME NEW a \in Clients, NEW b \in Clients, a # b, NEW k \in Keys,
             intact'[a], Delivers(call'[a], k), intact'[b], Delivers(call'[b], k),
             NEW i \in Ids, <<k, i>> \in reply'[a].got \cap reply'[b].got
      PROVE  FALSE
  <2>1. ASSUME NEW x \in Clients, x # c
        PROVE  reply'[x] = reply[x] /\ call'[x] = call[x] /\ (intact'[x] => intact[x])
    BY <2>1 DEF Stands, Remembers
  <2>2. GotApart /\ \A x \in Clients : GotOK(x)
    BY DEF ClientInv, Fine
  <2>3. CASE /\ reply'[c] = reply[c] /\ call'[c] = call[c]
             /\ intact'[c] => intact[c]
    BY <1>2, <2>1, <2>2, <2>3 DEF GotApart
  <2>4. CASE \A p \in reply'[c].got :
                Delivers(call'[c], p[1]) => HasGroup(db[p[1]]) /\ p[2] > db[p[1]].cursor
    <3>1. CASE a # c /\ b # c
      BY <1>2, <2>1, <2>2, <3>1 DEF GotApart
    <3>2. i \in Int /\ db[k].cursor \in Int
      BY ConstantsAssumption DEF StoreInv, DataType, EntryType, Ids, NoGroup
    <3>3. ASSUME NEW x \in Clients, x # c, x \in {a, b} PROVE i <= db[k].cursor
      BY <1>2, <2>1, <2>2, <3>3 DEF GotOK
    <3>4. CASE a = c \/ b = c
      BY <1>2, <2>4, <3>2, <3>3, <3>4
    <3> QED BY <3>1, <3>4
  <2> QED BY <2>3, <2>4
<1>3. GotApart'
  BY <1>2 DEF GotApart, Delivers
<1> QED BY <1>1, <1>3 DEF ClientInv

\* A step of one client's future that leaves the data map alone.
LEMMA LocalStep ==
    ASSUME IInv, UNCHANGED <<db, born, acked, gil, grown, shutdown>>,
           NEW c \in Clients, ClientType', Fine(c)',
           \A b \in Clients : b # c =>
              /\ Stands(b) /\ intact'[b] = intact[b]
              /\ since'[b] = since[b] /\ waiter'[b] = waiter[b],
           \/ reply'[c] = reply[c] /\ call'[c] = call[c] /\ intact'[c] = intact[c]
           \/ reply'[c].got = {}
    PROVE  IInv'
<1>1. /\ StoreInv' /\ AllKeep /\ \A k \in Keys : AddsNothing(db[k], db'[k])
      /\ \A b \in Clients : b # c => Remembers(b)
  BY SameData
<1>2. ClientInv'
  BY <1>1, ActorStep DEF IInv
<1>3. ControlType'
  BY DEF IInv, ControlType
<1> QED BY <1>1, <1>2, <1>3 DEF IInv

\* The steps of a future between its reads.
LEMMA FutureStep ==
    ASSUME IInv, NEW c \in Clients,
           \/ Starts(c) \/ LoopHead(c) \/ Wakes(c) \/ Rearms(c)
           \/ SleepEnds(c) \/ DeadlinePasses(c)
    PROVE  IInv'
<1>1. UNCHANGED <<db, born, acked, gil, grown, shutdown, since, intact, call>>
  BY DEF Starts, LoopHead, Wakes, Rearms, SleepEnds, DeadlinePasses,
         control, client, groups, watch
<1>2. ClientType /\ Fine(c)
  BY DEF IInv, ClientInv
<1>3. ClientType'
  <2>1. Nothing \in Reply
    BY DEF Nothing, Reply
  <2>2. pc' \in [Clients -> Pcs]
    BY <1>2 DEF Starts, LoopHead, Wakes, Rearms, SleepEnds, DeadlinePasses, Resolve,
         ClientType, Pcs
  <2>3. waiter' \in [Clients -> {"off", "armed", "notified"}]
    BY <1>2 DEF Starts, LoopHead, Wakes, Rearms, SleepEnds, DeadlinePasses, ClientType
  <2>4. late' \in [Clients -> BOOLEAN]
    BY <1>2 DEF Starts, LoopHead, Wakes, Rearms, SleepEnds, DeadlinePasses, ClientType
  <2>5. reply' \in [Clients -> Reply]
    BY <1>2, <2>1 DEF Starts, LoopHead, Wakes, Rearms, SleepEnds, DeadlinePasses, Resolve,
         ClientType
  <2> QED BY <1>1, <1>2, <2>2, <2>3, <2>4, <2>5 DEF ClientType
<1>4. \A b \in Clients : b # c => Stands(b) /\ waiter'[b] = waiter[b]
  BY <1>1, <1>2 DEF Starts, LoopHead, Wakes, Rearms, SleepEnds, DeadlinePasses, Resolve,
         Stands, ClientType
<1>5. \/ reply'[c] = reply[c]
      \/ reply'[c] = Nothing /\ pc'[c] = "reply"
  BY <1>2 DEF Starts, LoopHead, Wakes, Rearms, SleepEnds, DeadlinePasses, Resolve, ClientType
<1>6. CallOK(c)'
  BY <1>1, <1>2, <1>5 DEF Starts, LoopHead, Wakes, Rearms, SleepEnds, DeadlinePasses, Resolve,
         ClientType, Fine, CallOK, Nothing
<1>7. SinceOK(c)' /\ GotOK(c)'
  BY <1>1, <1>2, <1>5 DEF Fine, SinceOK, GotOK, Nothing, Delivers
<1>8. NoGap(c)'
  BY <1>1, <1>2, <1>5 DEF Starts, LoopHead, Wakes, Rearms, SleepEnds, DeadlinePasses, Resolve,
         ClientType, Fine, NoGap, Nothing
<1>9. Parked(c)' => Parked(c) /\ waiter'[c] = waiter[c]
  BY <1>1, <1>2 DEF Starts, LoopHead, Wakes, Rearms, SleepEnds, DeadlinePasses, Resolve,
         ClientType, Parked
<1>10. ParkedOK(c)' /\ Awake(c)'
  BY <1>1, <1>2, <1>9 DEF Fine, ParkedOK, Awake, Due, Delivers
<1> QED BY <1>1, <1>3, <1>4, <1>5, <1>6, <1>7, <1>8, <1>10, LocalStep DEF Fine, Nothing

\* The end of a call, however it ends.
LEMMA CompletesStep ==
    ASSUME IInv, NEW c \in Clients, Completes(c)
    PROVE  IInv'
<1>1. UNCHANGED <<db, born, acked, gil, grown, shutdown>>
  BY DEF Completes, control, groups
<1>2. ClientType
  BY DEF IInv, ClientInv
<1>3. ClientType'
  BY <1>2 DEF Completes, ClientType, Reply, NoReply, Pcs
<1>4. \A b \in Clients : b # c =>
         /\ Stands(b) /\ intact'[b] = intact[b]
         /\ since'[b] = since[b] /\ waiter'[b] = waiter[b]
  BY <1>2 DEF Completes, Stands, ClientType
<1>5. pc'[c] = "idle" /\ call'[c] = NoCall /\ since'[c] = {} /\ reply'[c] = NoReply
  BY <1>2 DEF Completes, ClientType
<1>6. Fine(c)'
  BY <1>5 DEF Fine, CallOK, SinceOK, GotOK, ParkedOK, Awake, NoGap, Parked, NoReply
<1> QED BY <1>1, <1>3, <1>4, <1>5, <1>6, LocalStep DEF NoReply

\* A read keeps every stream's promises, and gives nobody anything.
LEMMA ReadKeeps ==
    ASSUME StoreInv, NEW c \in Clients, NEW cl \in CallType, db' = Read(c, cl).db
    PROVE  AllKeep /\ \A k \in Keys : AddsNothing(db[k], db'[k])
<1>1. ASSUME NEW k \in Keys PROVE Keeps(db[k], db'[k]) /\ AddsNothing(db[k], db'[k])
  <2>1. /\ Good(db[k]) /\ db'[k] \in EntryType
        /\ \/ Fades(db[k], db'[k])
           \/ ~Bad(cl, db[k]) /\ db'[k] = Handed(c, cl, k, db[k])
    BY StoreFacts, ReadData
  <2> QED BY <2>1, FadesFacts, HandedFacts
<1> QED BY <1>1 DEF AllKeep

\* The read of a blocking call: it resolves the future, or leaves the caller's
\* streams with nothing for it.
LEMMA PollStep ==
    ASSUME IInv, NEW c \in Clients, Poll(c)
    PROVE  IInv'
<1> DEFINE cl == call[c]
           result == Read(c, cl)
<1>1. /\ pc[c] \in {"first", "poll"} /\ db' = result.db
      /\ born' = BornIn(db') /\ acked' = AckedIn(db') /\ intact' = IntactIn(db')
      /\ UNCHANGED <<gil, grown, shutdown, waiter, call, since>>
      /\ \/ /\ result.kind # "empty"
            /\ pc' = [pc EXCEPT ![c] = "reply"]
            /\ reply' = [reply EXCEPT ![c] = [kind |-> result.kind, got |-> result.got]]
            /\ late' = late
         \/ /\ result.kind = "empty"
            /\ pc' = [pc EXCEPT ![c] = "loop"]
            /\ late' = [late EXCEPT ![c] = @ \/ AtOnce(call[c])]
            /\ reply' = reply
  BY DEF Poll, Observed, Resolve, control
<1>2. StoreInv /\ ClientInv /\ ClientType /\ Fine(c)
  BY DEF IInv, ClientInv
<1>3. cl \in CallType /\ Range(cl.keys) \in SUBSET Keys
  BY <1>1, <1>2, CallKeys DEF Fine, CallOK
<1>4. db \in [Keys -> EntryType] /\ \A k \in Keys : Good(db[k])
  BY <1>2, StoreFacts
<1>5. /\ [kind |-> result.kind, got |-> result.got] \in Reply
      /\ \A p \in result.got :
            /\ p[1] \in Range(cl.keys)
            /\ Delivers(cl, p[1]) =>
                  /\ HasGroup(db[p[1]]) /\ p[2] > db[p[1]].cursor
                  /\ HasGroup(result.db[p[1]]) /\ p[2] <= result.db[p[1]].cursor
  BY <1>3, <1>4, ReadGot
<1>6. result.kind = "empty" => \A k \in Range(cl.keys) :
         /\ cl.op = "read" => \A i \in result.db[k].entries : ~(i > cl.from[k])
         /\ Delivers(cl, k) => /\ HasGroup(result.db[k])
                               /\ \A i \in result.db[k].entries : ~(i > result.db[k].cursor)
  BY <1>3, <1>4, ReadEmpty
<1>7. result.kind = "entries" /\ cl.op = "read" =>
         \A k \in Range(cl.keys) : \A i \in result.db[k].entries :
            i > cl.from[k] /\ <<k, i>> \notin result.got =>
               LET before == {q \in result.got : q[1] = k}
               IN  Cardinality(before) = cl.count /\ \A q \in before : q[2] < i
  BY <1>3, <1>4, ReadNoGap
<1>8. StoreInv' /\ AllKeep /\ \A k \in Keys : AddsNothing(db[k], db'[k])
  BY <1>1, <1>2, <1>3, ReadingStep, ReadKeeps
<1> HIDE DEF result
<1>9. \A b \in Clients : Remembers(b) /\ intact'[b] \in BOOLEAN
  BY <1>1, IntactRemembers
<1>10. ClientType'
  <2>1. pc' \in [Clients -> Pcs] /\ late' \in [Clients -> BOOLEAN]
    BY <1>1, <1>2 DEF ClientType, Pcs, AtOnce
  <2>2. reply' \in [Clients -> Reply]
    BY <1>1, <1>2, <1>5 DEF ClientType
  <2>3. intact' \in [Clients -> BOOLEAN]
    BY <1>1, <1>9 DEF IntactIn
  <2> QED BY <1>1, <1>2, <2>1, <2>2, <2>3 DEF ClientType
<1>11. \A b \in Clients : b # c => Stands(b)
  BY <1>1, <1>2 DEF Stands, ClientType
<1>12. \/ /\ result.kind # "empty" /\ pc'[c] = "reply"
          /\ reply'[c] = [kind |-> result.kind, got |-> result.got]
       \/ /\ result.kind = "empty" /\ pc'[c] = "loop"
          /\ reply'[c] = reply[c] /\ reply[c].got = {}
  BY <1>1, <1>2 DEF ClientType, Fine, CallOK
<1>13. SinceOK(c)'
  BY <1>1, <1>2, <1>8, <1>9, SinceStays
<1>14. CallOK(c)'
  BY <1>1, <1>2, <1>12 DEF Fine, CallOK
<1>15. GotOK(c)'
  BY <1>1, <1>5, <1>12 DEF GotOK, Delivers
<1>16. ParkedOK(c)'
  BY <1>1, <1>6, <1>12 DEF ParkedOK, Parked, Delivers
<1>17. Awake(c)'
  <2>1. SUFFICES ASSUME result.kind = "empty", NEW k \in Range(cl.keys), NEW i \in Due(c, k)'
                 PROVE  FALSE
    BY <1>1, <1>12 DEF Awake, Parked
  <2>2. /\ i \in db'[k].entries
        /\ \/ cl.op = "read" /\ i > cl.from[k]
           \/ cl.op = "read" /\ <<k, i>> \in since[c]
           \/ Delivers(cl, k) /\ i > db'[k].cursor
    BY <1>1, <2>1 DEF Due, Delivers
  <2>3. cl.op = "read" /\ <<k, i>> \in since[c] => i > cl.from[k]
    BY <1>2 DEF Fine, SinceOK
  <2> QED BY <1>1, <1>6, <2>1, <2>2, <2>3
<1>18. NoGap(c)'
  <2>1. SUFFICES ASSUME result.kind = "entries", cl.op = "read", NEW p \in since[c],
                        p \notin result.got, p[2] \in db'[p[1]].entries
                 PROVE  LET before == {q \in result.got : q[1] = p[1]}
                        IN  /\ Cardinality(before) = cl.count
                            /\ \A q \in before : q[2] < p[2]
    BY <1>1, <1>12 DEF NoGap
  <2>2. p[1] \in Range(cl.keys) /\ p[2] > cl.from[p[1]]
    BY <1>2, <2>1 DEF Fine, SinceOK
  <2>3. p = <<p[1], p[2]>>
    BY <1>2, <2>1 DEF ClientType
  <2> QED BY <1>1, <1>7, <2>1, <2>2, <2>3
<1>19. Fine(c)'
  BY <1>13, <1>14, <1>15, <1>16, <1>17, <1>18 DEF Fine
<1>20. \/ /\ reply'[c] = reply[c] /\ call'[c] = call[c]
          /\ intact'[c] => intact[c]
       \/ \A p \in reply'[c].got :
             Delivers(call'[c], p[1]) => HasGroup(db[p[1]]) /\ p[2] > db[p[1]].cursor
  BY <1>1, <1>5, <1>12
<1>21. ClientInv'
  BY <1>1, <1>2, <1>8, <1>9, <1>10, <1>11, <1>19, <1>20, ActorStep
<1>22. ControlType'
  BY <1>1 DEF IInv, ControlType
<1> QED BY <1>8, <1>21, <1>22 DEF IInv

\* A call as it runs: "$" has become last_id, or 0-0 where there is no stream.
LEMMA ResolvedFacts ==
    ASSUME NEW cl \in Calls, NEW d \in [Keys -> EntryType]
    PROVE  /\ Resolved(cl, d) \in CallType
           /\ Resolved(cl, d).keys = cl.keys
           /\ Resolved(cl, d).op = "read" =>
                 \A k \in Range(cl.keys) : Resolved(cl, d).from[k] \in Nat
<1> DEFINE from == [k \in Keys |-> IF k \in Dollars(cl) THEN d[k].last ELSE cl.from[k]]
<1>1. cl \in CallType /\ \A k \in Keys : cl.from[k] # IF cl.op = "read" THEN New ELSE Latest
  BY ConstantsAssumption
<1>2. \A k \in Keys : d[k].last \in Nat
  BY ConstantsAssumption DEF EntryType
<1>3. cl.from \in [Keys -> {Latest, New} \cup Nat] /\ Range(cl.keys) \in SUBSET Keys
  BY <1>1, CallKeys DEF CallType
<1>4. from \in [Keys -> {Latest, New} \cup Nat]
  BY <1>2, <1>3
<1>5. cl.op = "read" => \A k \in Range(cl.keys) : from[k] \in Nat
  BY <1>1, <1>2, <1>3 DEF Dollars
<1>6. Resolved(cl, d) = [cl EXCEPT !.from = from]
  BY DEF Resolved
<1> HIDE DEF from
<1>7. /\ Resolved(cl, d) \in CallType /\ Resolved(cl, d).keys = cl.keys
      /\ Resolved(cl, d).op = cl.op /\ Resolved(cl, d).from = from
  BY <1>1, <1>4, <1>6 DEF CallType
<1> QED BY <1>5, <1>7

\* The beginning of a call: its history is empty, and if it reads at once what it
\* gets is as in a read.
LEMMA BeginsStep ==
    ASSUME IInv, NEW c \in Clients, NEW cl \in CallType,
           cl.op = "read" => \A k \in Range(cl.keys) : cl.from[k] \in Nat,
           StoreInv', AllKeep, \A k \in Keys : AddsNothing(db[k], db'[k]),
           NEW d, NEW where \in {"reply", "spawned"}, Begins(c, cl, d, where),
           reply' \in [Clients -> Reply], \A b \in Clients : b # c => reply'[b] = reply[b],
           where = "spawned" => reply'[c] = reply[c],
           \A p \in reply'[c].got :
              /\ p[1] \in Range(cl.keys)
              /\ Delivers(cl, p[1]) =>
                    /\ HasGroup(db[p[1]]) /\ p[2] > db[p[1]].cursor
                    /\ HasGroup(db'[p[1]]) /\ p[2] <= db'[p[1]].cursor
    PROVE  IInv'
<1>1. /\ pc[c] = "idle" /\ pc' = [pc EXCEPT ![c] = where]
      /\ call' = [call EXCEPT ![c] = cl] /\ db' = d
      /\ intact' = [IntactIn(d) EXCEPT ![c] = TRUE]
      /\ since' = [since EXCEPT ![c] = {}]
      /\ UNCHANGED <<gil, grown, shutdown, waiter, late>>
  BY DEF Begins, control
<1>2. StoreInv /\ ClientInv /\ ClientType /\ Fine(c)
  BY DEF IInv, ClientInv
<1>3. ASSUME NEW b \in Clients, b # c
      PROVE  intact'[b] = /\ intact[b]
                          /\ \A k \in Keys : Watches(b, k) => ~Gone(db', k) /\ ~GroupGone(db', k)
  BY <1>1, <1>3 DEF IntactIn
<1>4. intact' \in [Clients -> BOOLEAN]
  BY <1>1 DEF IntactIn
<1>5. ClientType'
  BY <1>1, <1>2, <1>4 DEF ClientType, Pcs
<1>6. \A b \in Clients : b # c =>
         /\ Stands(b) /\ Remembers(b)
         /\ since'[b] = since[b] /\ waiter'[b] = waiter[b]
  BY <1>1, <1>2, <1>3 DEF Stands, Remembers, ClientType
<1>7. pc'[c] = where /\ call'[c] = cl /\ since'[c] = {}
  BY <1>1, <1>2 DEF ClientType
<1>8. CallOK(c)'
  BY <1>1, <1>2, <1>7 DEF Fine, CallOK
<1>9. SinceOK(c)' /\ GotOK(c)' /\ ParkedOK(c)' /\ Awake(c)' /\ NoGap(c)'
  BY <1>7 DEF SinceOK, GotOK, ParkedOK, Awake, NoGap, Parked, Delivers
<1>10. Fine(c)'
  BY <1>8, <1>9 DEF Fine
<1>11. \A p \in reply'[c].got :
          Delivers(call'[c], p[1]) => HasGroup(db[p[1]]) /\ p[2] > db[p[1]].cursor
  BY <1>7
<1>12. ClientInv'
  BY <1>1, <1>2, <1>5, <1>6, <1>10, <1>11, ActorStep
<1>13. ControlType'
  BY <1>1 DEF IInv, ControlType
<1> QED BY <1>12, <1>13 DEF IInv

\* A call without BLOCK.
LEMMA CallNowStep ==
    ASSUME IInv, NEW c \in Clients, NEW cl \in Calls, CallNow(c, cl)
    PROVE  IInv'
<1> DEFINE asked == Resolved(cl, Purge(db, Dollars(cl)))
           result == Read(c, asked)
<1>1. StoreInv /\ ClientType /\ db \in [Keys -> EntryType] /\ \A k \in Keys : Good(db[k])
  BY StoreFacts DEF IInv, ClientInv
<1>2. Purge(db, Dollars(cl)) \in [Keys -> EntryType]
  BY <1>1, PurgeFacts
<1>3. /\ asked \in CallType
      /\ asked.op = "read" => \A k \in Range(asked.keys) : asked.from[k] \in Nat
  BY <1>2, ResolvedFacts
<1>4. Begins(c, asked, result.db, "reply")
      /\ reply' = [reply EXCEPT ![c] = [kind |-> result.kind, got |-> result.got]]
  BY DEF CallNow
<1> HIDE DEF asked
<1>5. db' = result.db /\ born' = BornIn(db') /\ acked' = AckedIn(db')
  BY <1>4 DEF Begins
<1>6. StoreInv' /\ AllKeep /\ \A k \in Keys : AddsNothing(db[k], db'[k])
  BY <1>1, <1>3, <1>5, ReadingStep, ReadKeeps
<1>7. /\ [kind |-> result.kind, got |-> result.got] \in Reply
      /\ \A p \in result.got :
            /\ p[1] \in Range(asked.keys)
            /\ Delivers(asked, p[1]) =>
                  /\ HasGroup(db[p[1]]) /\ p[2] > db[p[1]].cursor
                  /\ HasGroup(result.db[p[1]]) /\ p[2] <= result.db[p[1]].cursor
  BY <1>1, <1>3, ReadGot
<1> HIDE DEF result
<1>8. /\ reply' \in [Clients -> Reply] /\ reply'[c].got = result.got
      /\ \A b \in Clients : b # c => reply'[b] = reply[b]
  BY <1>1, <1>4, <1>7 DEF ClientType
<1> QED BY <1>3, <1>4, <1>5, <1>6, <1>7, <1>8, BeginsStep

\* A call with BLOCK.
LEMMA CallBlockingStep ==
    ASSUME IInv, NEW c \in Clients, NEW cl \in Calls, CallBlocking(c, cl)
    PROVE  IInv'
<1> DEFINE d == Purge(db, Dollars(cl))
           asked == Resolved(cl, d)
<1>1. /\ StoreInv /\ ClientInv /\ ClientType
      /\ db \in [Keys -> EntryType] /\ \A k \in Keys : Good(db[k])
  BY StoreFacts DEF IInv, ClientInv
<1>2. d \in [Keys -> EntryType] /\ \A k \in Keys : Fades(db[k], d[k])
  BY <1>1, PurgeFacts
<1>3. /\ asked \in CallType
      /\ asked.op = "read" => \A k \in Range(asked.keys) : asked.from[k] \in Nat
  BY <1>2, ResolvedFacts
<1>4. Begins(c, asked, d, "spawned") /\ reply' = reply
  BY DEF CallBlocking
<1> HIDE DEF d, asked
<1>5. db' = d /\ born' = BornIn(db') /\ acked' = AckedIn(db') /\ pc[c] = "idle"
  BY <1>4 DEF Begins
<1>6. StoreInv'
  BY <1>1, <1>2, <1>5, FadingStep
<1>7. AllKeep /\ \A k \in Keys : AddsNothing(db[k], db'[k])
  BY <1>1, <1>2, <1>5, FadesFacts DEF AllKeep
<1>8. reply' \in [Clients -> Reply] /\ reply'[c].got = {}
  BY <1>1, <1>4, <1>5 DEF ClientType, ClientInv, Fine, CallOK
<1> QED BY <1>3, <1>4, <1>5, <1>6, <1>7, <1>8, BeginsStep

-----------------------------------------------------------------------------
(* The theorems *)

\* The invariant holds at first: no key, no call.
LEMMA InitInvariant ==
    ASSUME Init PROVE IInv
<1>1. DataType
  BY NewEntries, ConstantsAssumption DEF Init, DataType, Good
<1>2. \A k \in Keys : Good(db[k]) /\ PendingOK(db[k], born[k], acked[k])
  BY NewEntries DEF Init, PendingOK, HasGroup
<1>3. StoreInv
  BY <1>1, <1>2, StoreByKey
<1>4. ControlType
  BY DEF Init, ControlType
<1>5. ClientType
  BY DEF Init, ClientType, Reply, NoReply, Pcs
<1>6. GotApart
  BY DEF Init, GotApart, NoReply
<1>7. \A c \in Clients : Fine(c)
  BY DEF Init, Fine, CallOK, SinceOK, GotOK, ParkedOK, Awake, NoGap, Parked, NoReply
<1> QED BY <1>3, <1>4, <1>5, <1>6, <1>7 DEF IInv, ClientInv

\* Every step keeps the invariant.
LEMMA NextInvariant ==
    ASSUME IInv, [Next]_vars PROVE IInv'
<1>1. ASSUME Command PROVE IInv'
  BY <1>1, XAddStep, XDeleteStep, XGroupCreateStep, XGroupDestroyStep, XAckStep,
     OverwriteStep, ExpireStep DEF Command
<1>2. ASSUME NEW ks \in SUBSET Keys, Sweep(ks) PROVE IInv'
  BY <1>2, SweepStep
<1>3. ASSUME NEW k \in Keys, TimePasses(k) PROVE IInv'
  BY <1>3, TimePassesStep
<1>4. ASSUME \/ ScriptBegins \/ ScriptEnds \/ ScriptNotifies
             \/ Shutdown \/ ShutdownNotifies
      PROVE  IInv'
  BY <1>4, ScriptStep
<1>5. ASSUME NEW c \in Clients, ClientStep(c) PROVE IInv'
  BY <1>5, CallNowStep, CallBlockingStep, FutureStep, PollStep, CompletesStep
  DEF ClientStep, Replies, Cancelled
<1>6. ASSUME UNCHANGED vars PROVE IInv'
  <2>1. UNCHANGED <<db, born, acked, since, intact, pc, call, late, reply, waiter, gil,
                    grown, shutdown>>
    BY <1>6 DEF vars
  <2>2. ControlType'
    BY <2>1 DEF IInv, ControlType
  <2> QED BY <2>1, <2>2, ControlStep
<1> QED BY <1>1, <1>2, <1>3, <1>4, <1>5, <1>6 DEF Next

\* The invariant holds of every behaviour.
THEOREM StreamInvariant == Spec => []IInv
<1>1. Init => IInv
  BY InitInvariant
<1>2. IInv /\ [Next]_vars => IInv'
  BY NextInvariant
<1> QED BY <1>1, <1>2, PTL DEF Spec

\* Every variable keeps its type.
THEOREM StreamTypes == Spec => []TypeOK
<1>1. IInv => TypeOK
  BY DEF IInv, StoreInv, ClientInv, TypeOK
<1> QED BY <1>1, StreamInvariant, PTL

\* A reader that is about to sleep has nothing to read, or has been notified, or
\* will be by a script that added something: the waiter armed before each read, "$"
\* resolved by the call, and XADD's notify_waiters are enough for that.
THEOREM NoReaderSleepsOn == Spec => []NoLostWakeup
<1>1. IInv => NoLostWakeup
  BY DEF IInv, ClientInv, Fine, Awake, NoLostWakeup
<1> QED BY <1>1, StreamInvariant, PTL

\* Readers of a group that are woken together never get the same entry.
THEOREM EntriesGoToOne == Spec => []OneReceiver
<1>1. IInv => OneReceiver
  <2> SUFFICES ASSUME IInv PROVE OneReceiver
    OBVIOUS
  <2>1. \A k \in Keys, b, c \in Clients : b # c => db[k].pel[b] \cap db[k].pel[c] = {}
    BY DEF IInv, StoreInv, PelsApart, Apart
  <2>2. GotApart
    BY DEF IInv, ClientInv
  <2> QED BY <2>1, <2>2 DEF OneReceiver, GotApart
<1> QED BY <1>1, StreamInvariant, PTL

\* What the cursor of a group has passed is pending or acknowledged, whatever
\* became of the call that got it.
THEOREM NothingIsForgotten == Spec => []HandedIsPending
<1>1. IInv => HandedIsPending
  BY DEF IInv, StoreInv
<1> QED BY <1>1, StreamInvariant, PTL

\* A client that goes on from the last id it got sees every entry.
THEOREM RepliesHaveNoGap == Spec => []ReplyHasNoGap
<1>1. IInv => ReplyHasNoGap
  BY DEF IInv, ClientInv, Fine, NoGap, ReplyHasNoGap
<1> QED BY <1>1, StreamInvariant, PTL
=============================================================================
