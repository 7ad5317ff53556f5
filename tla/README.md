# burner-redis in TLA+

burner-redis is an in-process Redis: a Rust store (`src/src/store.rs`) behind Python bindings
(`src/src/lib.rs`) that mirror `redis.asyncio`, with a Lua engine (`scripting.rs`), a snapshot
file (`persistence.rs`) and a thin Python layer (`src/python/burner_redis`).  This directory
models its stateful parts.  TLC checks the models on small instances; TLAPS proves the main
invariants and one refinement for every value of the constants.

## Who runs when

Everything here rests on these facts about the code.

* The data map is one `parking_lot::RwLock` (`Store::data`).  Nearly every `Store` method takes
  the write lock once and keeps it to its end, so it is one action.  `get` is the exception: it
  looks under a read lock and removes under a write lock.
* A synchronous command is called by Python under the GIL and returns an already resolved
  future.  Two synchronous commands never interleave, and a Python task that awaits one is not
  suspended.
* `eval` and `evalsha` hold the GIL and the data lock for a whole script; they wake blocked
  calls only after the data lock is released (`store.rs:2482`).  `shutdown` and `save` hold the
  GIL only.
* Blocking calls (BLPOP, BRPOP, BLMOVE, XREAD and XREADGROUP with BLOCK), the expiry sweeper and
  the pub/sub listeners are tokio tasks on other threads.  They need the data lock to poll and
  the GIL only to hand over a result, so they can run between any two steps of the others.

## Components

| component | state | operations | hard behaviour | modules |
|---|---|---|---|---|
| lists, blocking lists | `ValueData::List`, `notify_list`, one `Notified` per call | LPUSH ... LMOVE, BLPOP, BRPOP, BLMOVE | lost wake-ups, deadlines, cancellation, half-done moves, empty lists, TTL of a rotation | `ListOps`, `ListAlgorithms`, `BlockingLists` |
| streams, consumer groups | `Stream`, `ConsumerGroup`, `Consumer.pending` | XADD, XTRIM, XDEL, XGROUP, XREADGROUP, XACK, XCLAIM, XAUTOCLAIM | sequences of reads, claims, trims and recreated groups; id arithmetic | `ConsumerGroups`, abstract: `WorkQueue` |
| blocking stream reads | `notify`, one `Notified` per call | XREAD, XREADGROUP, with and without BLOCK | as for lists, `$` resolved at the call, several keys, an error at a later key, one wake-up for all readers of a group | `StreamBlocking` |
| keyspace: strings, hashes, sets, sorted sets | the data map, `SortedSet`'s two indexes, `expires_at` | SET, GET, DEL, H*, S*, Z*, EXPIRE, sweep | passive and active expiry, index agreement, empty collections, the two-lock GET | `Keyspace`, reference: `RedisKeys` |
| pub/sub | registry, broadcast ring, listener tasks, `PubSub` objects | SUBSCRIBE ..., PUBLISH, `aclose` | listener life cycle against messages, cancellation and shutdown; lag; pattern matching | `PubSub`, `GlobMatch` |
| persistence | snapshot file, temporary file | `save`, `load_into`, exit handlers | crash, kill, error and power loss between the steps of a save; conversion both ways; several clients of one path | `Persistence` |
| lock | token in the `Lock` object, a key with a TTL | acquire, release | expiry while held, cancellation, polling against a deadline | `LockClient` |
| pipeline | the queued commands | the command methods, `execute` | tasks that share the object while it is suspended; errors in the middle; cancellation | `Pipeline` |
| shutdown | `shutdown` flag, listener stoppers | `shutdown`, `_aclose` | blocked calls must come back, listeners must end | in `BlockingLists`, `StreamBlocking`, `PubSub` |
| Lua engine | scripts by SHA; flags of `EvalOutcome` | EVAL, EVALSHA, the arms of `dispatch_command_inner` | notification after unlock; arms that differ from the native commands | partly, in `BlockingLists`, `StreamBlocking`, `Keyspace`, `PubSub` |
| Python wrapper, simple bindings | none of their own | conversion and delegation | - | not modelled |

## Modules

**`ListOps`** - the algorithms on a list: `normalize_range_indices`, the window `zrange` computes
on its own, LREM's direction, LSET's index, LINSERT, pops and pushes.  **`ListAlgorithms`** walks
over every list that pushes can build and compares them with reference definitions that say
what Redis says: a range is a window of positions, LREM removes the first match repeatedly (with 0,
as often as the list has elements), from the tail in the mirror.

**`BlockingLists`** - the list keys (elements told apart by a number, so that losing or copying
one shows), every list command, SET, DEL, EXPIRE, reads (`Touch`), the sweep and time; scripts
(`ScriptBegins`, any number of commands, `ScriptEnds`, `ScriptNotifies`); shutdown in its two
steps; and blocking calls as tasks:

| `pc` | code (`blpop`, `lib.rs:2573`; `brpop` and `blmove` are the same) |
|---|---|
| `first` | future created, waiter armed (`enable()`), about to poll for the first time |
| `loop` | head of the loop: shutdown flag, remaining time |
| `select` | suspended in `tokio::select!` between the waiter and the sleep |
| `rearm` | woken: the used waiter is replaced by a new, armed one |
| `poll` | re-armed, about to poll again |
| `reply` | value in hand, waiting for the GIL (`Python::try_attach`) |

`waiter` models tokio's `notify_waiters`: it wakes waiters that are armed at that moment and
leaves no permit.  `popped` and `removed` are history.  The sleep of a call without a deadline
(one hour, then the loop again) is `SleepEnds`.

**`StreamBlocking`** - the same task for XREAD and XREADGROUP (`lib.rs:1061`, `lib.rs:1380`), with
one more state, `spawned`: the call has been made and `$` resolved, the task has not run yet.
`Read` is one pass over the keys of the call under the data lock, which stops at the first error
and keeps what it did before it.  One consumer group per stream, every client a consumer;
claims and the arithmetic of ids are in `ConsumerGroups`.  `since` and `intact` are history: what
came to the streams of a call since it began, and whether they and their groups stayed.  XREAD
may name an id that the stream has yet to reach: `Asks` leaves what is not above it out of `since`.

**`ConsumerGroups`** - one stream key.  Entries are their ids, pairs of a bounded clock and a
sequence number modulo `MaxSeq + 1` (the u64 of a release build).  A pending entry is old or
young; `TimePasses` makes it old.  `seen`, `acked`, `start`, `added` are history, and `cursor`
and `due` follow a client that pages with XAUTOCLAIM.

**`WorkQueue`** - what a group promises, without streams, ids or PELs: a job is handed out once,
to one worker, stays with one worker until it is done, may change hands, never comes back.
`ConsumerGroups!Queue` is the refinement mapping (the holders of an id are the consumers whose
PEL has it; the jobs done are the acknowledged ids).

**`Keyspace`** - all keys and types, lists and streams opaque.  An entry keeps both indexes of a
sorted set (`byMember`, `byScore`) so that they can disagree.  `order` is the iteration order of
the HashMap, which decides what a sweep looks at.  `getting` is a GET between its two locks.
Commands in scripts are the same actions where their arms do the same; ZADD differs (no flags, no
`remove_if_empty`, pairs before a bad score are kept) and is `ScriptZAdd`.

**`RedisKeys`** - what Redis promises of one key, as functions from the value a command found to the
value it leaves: no expired values, no empty ones, no second index.  It models no code of the
repository.  `Keyspace` carries such a value for every key (`redis`, history): each action, the
end of a TTL included, applies to it what Redis would do, and `HoldsWhatRedisHolds` says that what a
client can see of the store (`View`) is that.

**`PubSub`** - the registry (topics are channels and patterns, which PUBLISH serves in turn), the
ring (`log`, of which a receiver can reach the last `RingSize` messages), the listener task and
the Python object.

| `state` of a listener | code (`_subscribe_listener`, `lib.rs:1982`) |
|---|---|
| `asked` | the future exists, its body has not run |
| `running` | spawned, in `select!` between the stop signal and `rx.recv()`; the stopper is registered in a later step |
| `holding` | has a message, about to look at the stop flag |
| `entering` | saw no stop, waits for the GIL, where it looks again and puts the message in the queue |
| `done` | ended |

A task is suspended in `_ensure_listener` (`starting`) and in `aclose` (`closing`) only; either
await can be cancelled.  `orphans` and `doomed` are history: listeners whose start or end nobody
lived to see, and listeners `shutdown()` stopped.  `GetMessage` only takes a message from the
queue; what it filters and the handlers it calls are not followed.  `topics` (the object's own sets
of channels and patterns) and `read` (how much was taken) are kept because the code keeps them; no
guard but `GetMessage`'s and no property looks at them.

**`GlobMatch`** - `glob_match`, one step per turn of its loop, on the bytes of a pattern that is
also known as a sequence of elements, so that what it means can be said without the matcher.  An
element is a star, `?`, a byte, an escaped byte or a class of single bytes and ranges, plain,
`^` or `!`, over any bytes (`IsElement`); a pattern is made of `Pieces` and may end with a `Torn`
one: a lone backslash or a class without its `]` (`IsTorn`).  `AnswerIsMeaning` says that the answer
is whether the elements fit the string (`Fits`), and that the loop took at most (m + 1) * (n + 1)
turns.  Strings are bytes there, as in the code.

**`Persistence`** - one key with one value of each kind, in its run-time form and in the form
of the file; TTLs in ticks, several to the millisecond the file keeps.  A save is begun (the
snapshot is taken), creates the temporary file, writes it, syncs it and renames it; an error ends
it at any step, `Killed` ends the process, `PowerLoss` takes with it what was not synced and perhaps
the last rename.  A process has several clients of one path: nothing in `BurnerRedis::new` keeps a
second one from being made while the first is open, and a closed client still runs its commands and
keeps its exit handler.  At exit the handlers run last registered first; `exited` is history: whose
handler saved what in the exit that is going on, or is over.

**`LockClient`** - the key (token and TTL), the `Lock` objects' tokens and tasks that acquire at
once or by polling, with a deadline or without, hold, release by script, or are cancelled.  `late`
and `lapped` are history: the TTL ended while the task held the lock; another one got it since.

**`Pipeline`** - the buffer, the batch of every task suspended in a slow `execute`, and the last
result of each.  What a command does to the store is left to the other modules.

The `MC*` modules hold the calls, id sets and symmetry sets of the TLC instances;
`MCAlgorithms` joins `ListAlgorithms` and `GlobMatch` in one run, `MCPythonClients` joins
`LockClient` and `Pipeline`: a behaviour is of the one or of the other.  `BlockingListsProofs`,
`ConsumerGroupsProofs`, `StreamBlockingProofs`, `KeyspaceProofs`, `PersistenceProofs`,
`PubSubProofs`, `LockProofs` and `PipelineProofs` hold the proofs.

## Runs

| run | checks | instance, and why it is enough |
|---|---|---|
| `Algorithms` | range windows, `zrange` against `lrange`, LREM in both directions; the matcher's answer and its m*n turns | every list of up to 4 elements over 3 values, indices from 6 before to 6 after: both clamps and repeated matches occur.  Every pattern of up to 4 elements (stars, letters, `?`, escapes, three kinds of class) with and without a broken end, every string of up to 3 bytes: two stars with an element after each |
| `Lists` | nothing is lost, copied, revived or left empty, TTLs survive, no lost wake-up, calls end and are served | 2 keys, 2 elements, 1 client with BLPOP k1 k2 (deadline) and BLMOVE k1 k2 (for ever) among every command, scripts, expiry, shutdown and cancellation.  Several clients: theorem `NoWakeupIsLost` |
| `Groups` | every entry delivered, complete XAUTOCLAIM scans, growing ids, refinement of `WorkQueue` | 1 group, 2 consumers, 3 entries, clock 1..2, explicit ids, COUNT 1 and 2: pages are cut, claims meet, trims hit pending entries, the group is recreated |
| `GroupsForce` | the finding below | as `Groups`, with FORCE and 2 entries |
| `Keyspace` | every key holds what Redis would hold, index agreement, empty collections, the two-lock GET, the sweep | 2 keys, 2 items, 2 scores: a member changes its score, ZRANGESTORE between keys, every command on an entry that has expired, a task's push inside a GET; a sweep that can look at both keys |
| `StreamsShared` | no lost wake-up, one receiver | 2 clients that read one group or wait at `$`, woken by the same XADD; the stream may expire |
| `StreamsKeys` | what was handed out is pending | 1 client, calls over 2 keys, of which SET may turn the second into a string: errors after the first key was read |
| `StreamsLiveness` | replies without gaps, calls end when they should and are served | 1 client, 1 key, 2 entries: group read with a deadline, `$` for ever, a read after an id the caller names, own pending entries; DEL and recreation while a call waits |
| `PubSub` | messages in order and once, stops are final, `aclose` waits, counted messages arrive, stopped listeners end | 1 object closed and used again, a channel and a pattern that matches it (one PUBLISH sends two messages), a ring of 1 (it lags), one cancellation or shutdown at any step.  Also holds for 3 messages and for 2 faults |
| `Persistence` | the file is whole, holds after an exit what the oldest client had, loads as what was saved | 2 clients, of one process or of a process and the next, 2 saves; a sorted set, streams with pending entries, a script, TTLs of a millisecond and of less.  Values that are copied as they are, longer TTLs and more clients: the theorems |
| `PersistenceExit` | the second finding below | as `Persistence`, with one plain value |
| `PythonClients` | lock: mutual exclusion, honest releases, acquires end, abandoned locks become free; pipeline: every command called once, every result at its place | 2 tasks, one with a timed and an untimed lock object, 5 tokens (one is always unused); 2 tasks that share a pipeline, 4 commands of every kind |

Bounds that cap the state: `MaxElements`, `Batches`, `Ints` (lists); `MaxMs`, `MaxSeq`,
`MaxAdds`, `Counts` (groups); `MaxId`, `Losses` (stream reads); `MaxScore`, `SweepLimit`
(keyspace); `MaxIds`, `MaxLog`, `MaxFaults` (pub/sub); `MaxTtl`, `MaxClients`, `MaxStarts`,
`MaxSaves` (persistence); `MaxCommands` (pipeline).  The groups, pub/sub, persistence and
pipeline instances stop when their bounded supply is used up, and the algorithms when they
return, so these runs switch deadlock checking off; all others check for deadlock.

Symmetry is used on clients and consumers only, and in no run with liveness.

### Fairness

`BlockingLists!Fairness` and `StreamBlocking!Fairness`: the runtime runs every task that is ready
(weak fairness for the steps that need no lock); the data lock and the GIL are handed round, so a
task that keeps asking for one gets it (strong fairness for `Poll` and for the hand-over,
`Delivers` and `Replies`); `tokio::select!` polls its branches in random order, so a ready waiter
is not starved by a sleep that is also ready (strong fairness for `Wakes`); a script and a
shutdown that have begun go on; clocks reach deadlines.
`PubSub!Fairness`: the runtime runs listeners that are ready and the GIL is handed round.
`LockClient!Fairness`: a task that sleeps between two attempts wakes up (`asyncio.sleep`), clocks
reach deadlines and the ends of TTLs.
`Keyspace!FairSpec`: the sweeper ticks for ever (`lib.rs:430`), and a GET finishes.
No command, call, expiry of a list or stream, publication, release or cancellation is ever
assumed to happen.

## Findings

`GroupsForce` - `xack` stops at the first PEL with the id ("Each id can only be in one consumer's
PEL", `store.rs:1849`).  XCLAIM FORCE of an entry not yet delivered leaves `last_delivered_id`
behind it, so the next `>` read gives the same id to another consumer, and one XACK leaves it
pending.  Everything the project shows of groups assumes `~AllowForce`.

`PersistenceExit` - "Data is saved on process exit and reloaded on next start" (`src/README.md:31`),
"Pass `persistence_path` to save state to disk on shutdown" (65).  Every client of a path registers
a handler that saves its own store (`lib.rs:414-427`), no `_aclose` takes it back, and the oldest runs
last.  A client that was closed long ago overwrites at exit what the open one, made after it on the
same path, has saved.  `tests/test_persistence.py:29` makes such a second client.  What does hold is
`OldestIsKept`: the file has what the client made first held.

### Other deviations met while modelling

These follow from the models, by the constants in brackets or from the actions named, and from
the code; no run is kept for them.

* Sequence numbers wrap: an automatic id after `ms-18446744073709551615` is smaller than the last
  one in a release build (`store.rs:1331`, "monotonic" at 1291; an id with `MaxSeq` in
  `ExplicitIds`).
* A page of pending entries is cut to COUNT before trimmed ids are dropped (`store.rs:1790`,
  against the comment at 1780): it can be empty while live entries are pending.
* The sweep stops after looking at 20 keys with a TTL, live or not (`store.rs:1584`; `SweepLimit`
  = 1): an expired key behind 20 others stays, against "removes expired keys even if never
  accessed" (`tests/test_expiration.py:109`).
* HSET with an empty mapping, SADD without members and a script's ZADD whose first score is not a
  number leave an empty collection (`store.rs:585`, `scripting.rs:911`, against the comment at
  `store.rs:197`; `Malformed` = TRUE).
* XREADGROUP with `block=0` answers at once, XREAD waits for ever (`lib.rs:1393`; `AtOnce`); in a
  pipeline without a blocking list command neither looks at BLOCK (`lib.rs:3219`; `ExecuteFast`).
* Two tasks that subscribe with one `PubSub` object at once start two listeners for it
  (`pubsub.py:41`, against "Called once", `lib.rs:1984`; two tasks with one `Owner`).  A cancelled
  subscribe leaves an orphan listener that feeds the same queue as the next one.
* Messages are filtered when they are read (`pubsub.py:242`): an object that subscribes later gets
  a queued message PUBLISH did not count for it.
* `shutdown` misses a listener that is spawned and not yet registered (`store.rs:366`, against
  "stops all pubsub listener tasks", 355), and drops the join handles, so that an `aclose` after
  it returns while the listener still runs (`store.rs:371`, against `lib.rs:2107`; `doomed`).
* A TTL below a millisecond is saved as 0 and loaded as no TTL (`store.rs:3677`); that is the
  boundary `RestoreIsFaithful` states.

## Proofs

The theorems hold for all values of the constants (sets of keys, clients, calls, ids, tasks) that
the modules' named assumptions (`ConstantsAssumption`, `PipelineAssumption`) allow.

* **`BlockingListsProofs`** - `TypeCorrect`, `EmptyListsAreRemoved`, `NoWakeupIsLost`, from
  `InductiveInvariant`.  `NoLostWakeup` alone is not inductive: that a parked call without a
  notification is *armed* (so that the next push notifies it) is the conjunct `ClientOK`, that
  `grown` is up only while a script has its notification ahead of it is `FlagOK`, and that a
  list in the map is never empty is what makes "the poll found nothing" mean "nothing to pop".
  A step either fills no key, or notifies every armed waiter, or leaves the flag up.

  Where the elements are: `ElementsInOnePlace`, and of every step `NothingIsLost`,
  `TheExpiredStayDead` and `TtlsSurvive`.  `PlaceInvariant` adds to the invariant that no list
  has an element twice, that lists are disjoint, that nothing popped is in one, and that the answer
  of a call was popped for this call alone.  A step gives elements to at most one key (`Handled`):
  new ones, or one it took from a live list; every other list keeps a part of what it had.

  `RangesSelectTheWindow`: the three copies of index normalisation (LRANGE, LTRIM, ZRANGE) select
  the positions between the bounds, for every list and every pair of integers.

  `LRemRemoves`: LREM is the removal of first matches one by one, its mirror image, or the removal
  of every match, for every list, count and value.  What is kept of a list is described by the
  rank of each index among the kept ones (`RankOrder`, `NthRank`); removing one more match shifts
  the ranks after it by one (`NthWithoutOne`), which is what removing from the sequence does
  (`RemovesNext`), so that the n-th removal leaves the list without its first n matches
  (`RemovingFirst`).  The tail walk is the head walk in the mirror (`MirrorRank`, `LastFromTail`).
* **`ConsumerGroupsProofs`** - without FORCE: `GroupsTypeCorrect`, `OnePelPerId`,
  `DeliveredStaysPending`, `AcknowledgedForGood`, `ScansAreComplete`.  The strengthening is that
  everything pending or acknowledged lies at or below `last_delivered_id`, so a `>` read cannot
  deliver it again, and that what a scan still owes lies at or above its cursor.
  `NothingIsSkipped` and `LastIdGrows` assume besides that no sequence number overflows
  (`NoOverflow`).

  `GroupsImplementQueue`: without FORCE, `ConsumerGroups` implements `WorkQueue`.  One lemma per
  action, under the same invariant: a `>` read is `HandOut` (what lies above `last_delivered_id`
  is held by nobody and not done), a claim is `Reassign` (the claimed id leaves its only PEL),
  XACK is `Finish` (it removes the id from the only PEL that has it), the end of a group or of the
  key is `Forget`, the rest stutters.
* **`StreamBlockingProofs`** - `StreamTypes`, `NoReaderSleepsOn`, `EntriesGoToOne`,
  `NothingIsForgotten` and `RepliesHaveNoGap`, for any number of clients, keys and calls, from
  `StreamInvariant`.  Of the store it says that PELs of a group are disjoint and that what the
  cursor has passed is pending or acknowledged (`HandedIsPending`); of each client (`Fine`) that it
  runs a call with its `$` resolved and a waiter from before each read (`CallOK`), that a parked
  call has nothing due or a notification on its way (`Awake`), that what it got for `>` lies at or
  below the cursor (`GotOK`), and that its reply leaves out only what COUNT cuts off (`NoGap`).  One
  lemma follows a pass over the keys of a call, error exits included; the other steps are shown
  to leave each client fine.
* **`KeyspaceProofs`** - `KeyspaceTypeCorrect`, `IndexesStayInStep`, `GetIsHarmless`, and, for
  well-formed calls, `NoCollectionIsEmpty` and `StoreHoldsWhatRedisHolds`.  The invariant is a
  predicate on one entry; one lemma for each operation on entries shows that it keeps it.
  `StoreHoldsWhatRedisHolds` rests on it: one lemma for each operation (`AddedAgrees`, `ZAddedAgrees`,
  `ZStoredAgrees`, ...) says that on an entry that shows v, expired or not, it leaves an entry that
  shows what the operation of `RedisKeys` makes of v.  It needs that the indexes agree (a range
  goes by one index, `View` by the other) and that no entry is an empty collection.  With malformed
  calls it fails: an empty key shows up where Redis has none (see above).
* **`PersistenceProofs`** - `SnapshotAlwaysWhole`, whatever step a crash hits: the invariant is
  that the temporary file has all its bytes before it is synced and has them on disk before it is
  renamed, and that neither the path nor the disk ever has a torn file.  `RestoresFaithfully`: a
  round trip through the file keeps value, indexes, cursors, delivery counts and any TTL of a
  millisecond or more.  `OldestClientIsKept`: after an exit the path has what the client made first
  held when its handler ran, if its save worked, for any number of clients, open or closed.  The
  invariant (`ExitInv`) follows the handlers: the one that ran last is that of the client after the
  one whose turn comes next (`Oldest`), and what it held is at the path or on its way there (`Kept`).
* **`PubSubProofs`** - `ClosedObjectsAreQuiet`, `QueuesAreInOrder`, `StoppingIsFinal`.  The first
  two assume that an object is used by one task (`OneTaskEach`): two that subscribe at once start
  two listeners, of which the object knows one, and the properties fail.  The invariant is that
  at most one listener of an object may still put something in its queue, and it is the one the
  object knows by `_subscriber_id`; every other one has ended, was told to stop, or was orphaned by
  a cancellation.  From this, the queue of an object without orphans holds only what its
  listener has gone past, and what a new listener receives is newer than what the queue has.
  `StoppingIsFinal` needs no assumption.

  `MatcherIsRight`: the answer of `glob_match` is what the pattern means, after at most
  (m + 1) * (n + 1) turns, for patterns of any elements over any bytes, torn ends included, and
  strings of any length.  The invariant `GlobInv` says where the matcher stands: before some element
  and some byte (never inside an element), where the elements behind it can end there (`Ends`).  It
  adds that no match was given up: in every way to fit the elements (`Path`) the last star ends where
  the matcher lets it end for now, or later (`Placed`).  This is why keeping the last star only
  loses nothing: ending the stars before it as early as they can end leaves the most to the rest
  (`StarsEnd`).  Each end of the last star costs a turn per byte of the pattern at most
  (`Bounded`).  That a class is read the way it is written (`ClassScan`, `OpenScan`) is shown item by
  item from its `]` backwards.
  `EveryPatternIsWritten`: every byte string is some elements, the last of them possibly torn, so
  speaking of patterns as elements leaves none out: whatever a client subscribes to is a pattern
  `MatcherIsRight` is about.
* **`LockProofs`** - `LockExcludes` and `ReleasesAreHonest`, for any number of tasks that share
  no `Lock` object.  `MutualExclusion` needs that tokens of different tasks differ, that the
  holder's token is in its object, that it is in the key until the TTL ends (`HeldUntilLate`) and
  that a task which was lapped is late.
* **`PipelineProofs`** - `CommandsAreCalledOnce` and `ResultsAreInPlace`, for any number of tasks
  that share the pipeline.  The invariant gives every command one place (buffer, batch of one
  task, called or dropped), and says of a batch that the results of the commands before the one
  it is suspended in are there, each at its place.  The run of a batch to its next suspension is
  one step; the lemmas about the first blocking command at or after an index say what it does.

Only model-checked:

* liveness (`BlockedCallEnds`, `BlockedCallIsServed`, `BlockedReadEnds`,
  `BlockedReadIsServed`, `ExpiredEventuallySwept`, `CountedArrives`, `StoppedEnds`, `AcquireEnds`,
  `LockIsNotStuck`): the prover has neither rules for fairness nor ENABLED here.

Every other property of a passing run is a theorem.  Where a proof needs induction over lists or
patterns it does without the library's induction theorems, whose operator parameters the provers do
not instantiate: `LeastNat` gets the least element of a set of numbers from a well-founded
ordering, `IntervalInduction` is stated for a set instead of a predicate, and `Recursion` shows that
a recursive function defined over a finite domain exists.  For that, recursion in the models is
written as functions over bounded domains.

## Not modelled

* The Lua interpreter, KEYS and ARGV, the conversion between Lua values and replies, SHA1 and
  NOSCRIPT: sequential, and with no state besides the script cache, which `Persistence` keeps.
* The Python wrapper and the bindings of the simple commands: conversion and delegation.
* Values: payloads of strings, hash values, stream fields, the text of replies and errors.  No
  guard in the modelled code depends on them except HINCRBY's refusals.  Delivery counts and
  idle times are in `Persistence` only; in `ConsumerGroups` a pending entry is old or young.
* Commands that only report (XINFO, XPENDING, XRANGE, PUBSUB, TTL, KEYS and the like) beyond the
  passive expiration they perform.
* Pub/sub confirmations and message handlers; what `get_message` filters.
* `Lock` objects shared by tasks, whose token the tasks would overwrite (`lock.py:84`); nothing
  says a `Lock` may be shared.
* A panic of XCLAIM when `Instant::now()` minus the idle time is before the clock's origin
  (`store.rs:2061`): it depends on the platform.
* Durability of the rename: the directory is not synced (`persistence.rs:47`), so a power loss may
  bring the old snapshot back (`disk`, `PowerLoss`); the documentation promises atomicity only.
* A result popped for a call that Python cancels before the hand-over is gone (`Delivers`,
  `Replies`); the code promises nothing else.
