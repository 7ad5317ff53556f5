---------------------------- MODULE Persistence ----------------------------
(***************************************************************************)
(* Snapshots: the conversion of the store to its persistable form and back *)
(* (PersistableStore in src/store.rs), the crash-safe write of the file    *)
(* (src/persistence.rs), and when a client loads and saves (src/lib.rs):   *)
(* it loads when it is constructed and saves when save() is called and     *)
(* when the interpreter exits, where the handlers run last in, first out.  *)
(*                                                                         *)
(* Clients of one process share one path.  save() keeps Python's lock, so  *)
(* no command runs between its steps; time passes, the sweep runs, the     *)
(* process is killed and the machine loses power between any two of them.  *)
(* A TTL is counted in ticks, several to the millisecond the file keeps.   *)
(* Keys are converted one by one: the model has one.                       *)
(***************************************************************************)
EXTENDS Integers, Sequences, FiniteSets

CONSTANTS
    Values,     \* values of strings, hashes, sets and lists: copied as they are
    ZSets,      \* what sorted sets hold: functions from members to scores
    StreamIds,  \* ids of stream entries
    Streams,    \* streams with a group and its consumer
    Scripts,    \* scripts to cache
    MaxTtl,     \* bound: longest TTL, in ms
    TicksPerMs, \* ticks to the millisecond
    MaxClients, \* bound: clients of one process
    MaxStarts,  \* bound: clients ever constructed
    MaxSaves    \* bound: snapshots ever begun

\* A stream with its cursor and its pending entries: deliveries and idle time.
IsStream(s) ==
    \E p \in SUBSET StreamIds :
        s \in [type : {"stream"}, entries : SUBSET StreamIds, last_id : StreamIds,
              last_delivered : StreamIds, pending : [p -> [count : Nat, idle : Nat]]]

ASSUME ConstantsAssumption ==
    /\ \A s \in Streams : IsStream(s)
    /\ MaxTtl \in Nat
    /\ TicksPerMs \in Nat \ {0}
    /\ MaxClients \in Nat \ {0}
    /\ MaxStarts \in Nat
    /\ MaxSaves \in Nat

Forever == -1
Absent  == [type |-> "absent"]
NoFile  == [state |-> "no file"]
Torn    == [state |-> "torn"]   \* a file with some of its bytes

VARIABLES
    clients,    \* the clients of the process, oldest first: [data, scripts, closed]
    path,       \* the file at the path, as programs see it
    disk,       \* what a power loss leaves there at least: the last rename it knows
    tmp,        \* the temporary file
    synced,     \* whether its bytes are on disk
    save,       \* the save in progress; history: "of", what the store held
    exiting,    \* how many exit handlers have yet to run, None before the exit
    starts,     \* how many clients were constructed
    saves,      \* how many snapshots were begun
    exited      \* history: the clients whose handlers saved in this exit, oldest first

None == -1
process == <<clients, exiting, starts>>
files   == <<path, disk, tmp, synced>>
vars    == <<clients, path, disk, tmp, synced, save, exiting, starts, saves, exited>>

-----------------------------------------------------------------------------
(* Data at run time, and what the file keeps of it *)

\* A sorted set has two indices; a pending entry its deliveries and its idle time.
Indexed(z) == [type |-> "zset", by_member |-> z, by_score |-> {<<z[m], m>> : m \in DOMAIN z}]

Contents ==
    [type : {"plain"}, value : Values] \cup {Indexed(z) : z \in ZSets} \cup Streams

Entry(v, ttl) == [data |-> v, ttl |-> ttl]

is_expired(entry) == entry # Absent /\ entry.ttl = 0

\* The value as the file has it: one index of a sorted set, the delivery counts
\* of pending entries but not when they were delivered.
ToFile(v) ==
    CASE v.type = "plain"  -> v
      [] v.type = "zset"   -> [type |-> "zset", by_member |-> v.by_member]
      [] v.type = "stream" -> [v EXCEPT !.pending = [id \in DOMAIN @ |-> @[id].count]]

\* PersistableStore::from_store: expired entries are left out, TTLs are cut to
\* whole milliseconds.
from_store(c) ==
    [entry |-> IF c.data = Absent \/ is_expired(c.data) THEN Absent
               ELSE [data |-> ToFile(c.data.data),
                     ms |-> IF c.data.ttl = Forever THEN None ELSE c.data.ttl \div TicksPerMs],
     scripts |-> c.scripts]

\* The value rebuilt: both indices, and entries delivered just now.
FromFile(v) ==
    CASE v.type = "plain"  -> v
      [] v.type = "zset"   -> Indexed(v.by_member)
      [] v.type = "stream" ->
            [v EXCEPT !.pending = [id \in DOMAIN @ |-> [count |-> @[id], idle |-> 0]]]

\* The slip of a reload that counts the delivery it did not make.
IntoRuntimeRecounts(s) ==
    [data |-> IF s.entry = Absent THEN Absent
              ELSE [data |-> IF s.entry.data.type # "stream" THEN FromFile(s.entry.data)
                             ELSE [s.entry.data EXCEPT !.pending =
                                     [id \in DOMAIN @ |-> [count |-> 1, idle |-> 0]]],
                    ttl |-> IF s.entry.ms \in {None, 0} THEN Forever
                            ELSE s.entry.ms * TicksPerMs],
     scripts |-> s.scripts]

\* PersistableStore::into_runtime: 0 ms is no TTL.
into_runtime(s) ==
    [data |-> IF s.entry = Absent THEN Absent
              ELSE [data |-> FromFile(s.entry.data),
                    ttl |-> IF s.entry.ms \in {None, 0} THEN Forever
                            ELSE s.entry.ms * TicksPerMs],
     scripts |-> s.scripts]

-----------------------------------------------------------------------------
(* Clients *)

Idle    == [pc |-> "idle"]
Busy    == save # Idle \/ exiting # None
Client(c) == c \in DOMAIN clients

\* BurnerRedis(persistence_path): a missing file, or one that cannot be read,
\* leaves the store empty.  The clients made before may be open or closed.
Construct ==
    /\ ~Busy
    /\ starts < MaxStarts
    /\ Len(clients) < MaxClients
    /\ starts' = starts + 1
    /\ \E readable \in BOOLEAN :
          LET whole  == readable /\ path \notin {NoFile, Torn}
              loaded == IF whole THEN into_runtime(path.snapshot)
                        ELSE [data |-> Absent, scripts |-> {}]
          IN  /\ clients' = Append(clients,
                    [data |-> loaded.data, scripts |-> loaded.scripts, closed |-> FALSE])
    /\ UNCHANGED <<files, save, exiting, saves, exited>>

\* Any command that writes the key, or deletes it; a closed client still runs it.
Command(c, entry) ==
    /\ ~Busy
    /\ Client(c)
    /\ clients' = [clients EXCEPT ![c].data = entry]
    /\ UNCHANGED <<files, save, exiting, starts, saves, exited>>

ScriptLoad(c, script) ==
    /\ ~Busy
    /\ Client(c)
    /\ clients' = [clients EXCEPT ![c].scripts = @ \cup {script}]
    /\ UNCHANGED <<files, save, exiting, starts, saves, exited>>

\* aclose() stops the calls that block; it neither saves nor takes the exit handler
\* back.
AClose(c) ==
    /\ ~Busy
    /\ Client(c)
    /\ clients' = [clients EXCEPT ![c].closed = TRUE]
    /\ UNCHANGED <<files, save, exiting, starts, saves, exited>>

\* One tick, in every store of the process.
Ages(entry) ==
    IF entry = Absent \/ entry.ttl \in {Forever, 0} THEN entry ELSE [entry EXCEPT !.ttl = @ - 1]

TimePasses ==
    /\ \E c \in DOMAIN clients : Ages(clients[c].data) # clients[c].data
    /\ clients' = [c \in DOMAIN clients |-> [clients[c] EXCEPT !.data = Ages(@)]]
    /\ UNCHANGED <<files, save, exiting, starts, saves, exited>>

\* The background sweep of a store.
Sweep(c) ==
    /\ Client(c) /\ is_expired(clients[c].data)
    /\ clients' = [clients EXCEPT ![c].data = Absent]
    /\ UNCHANGED <<files, save, exiting, starts, saves, exited>>

-----------------------------------------------------------------------------
(* save_to_path *)

\* What a client has in its store.
Held(c) == [data |-> clients[c].data, scripts |-> clients[c].scripts]

\* The snapshot is made under the read locks of both maps.
Begins(c) ==
    /\ saves < MaxSaves
    /\ saves' = saves + 1
    /\ save' = [pc |-> "create", of |-> Held(c), snapshot |-> from_store(Held(c))]

Save(c) ==
    /\ ~Busy
    /\ Client(c)
    /\ Begins(c)
    /\ exited' = <<>>
    /\ UNCHANGED <<process, files>>

Exit ==
    /\ ~Busy
    /\ clients # <<>>
    /\ exiting' = Len(clients)
    /\ exited' = <<>>
    /\ UNCHANGED <<clients, starts, saves, files, save>>

\* What the handler of a client is about to save.
Exited(c) == [client |-> c, of |-> Held(c), closed |-> clients[c].closed]

\* The slip of handlers that run in the order of registration.
ExitSaveInOrder ==
    LET c == Len(clients) + 1 - exiting
    IN  /\ save = Idle
        /\ exiting \in DOMAIN clients
        /\ Begins(c)
        /\ exiting' = exiting - 1
        /\ exited' = <<Exited(c)>> \o exited
        /\ UNCHANGED <<clients, starts, files>>

\* The handlers run in the reverse order of registration, closed clients' too.
ExitSave ==
    /\ save = Idle
    /\ exiting \in DOMAIN clients
    /\ Begins(exiting)
    /\ exiting' = exiting - 1
    /\ exited' = <<Exited(exiting)>> \o exited
    /\ UNCHANGED <<clients, starts, files>>

Ends ==
    /\ save = Idle
    /\ exiting = 0
    /\ exiting' = None
    /\ clients' = <<>>
    /\ UNCHANGED <<files, save, starts, saves, exited>>

\* File::create makes an empty file, or empties the one a crash left.
Create ==
    /\ save.pc = "create"
    /\ tmp' = Torn
    /\ synced' = FALSE
    /\ save' = [save EXCEPT !.pc = "write"]
    /\ UNCHANGED <<process, path, disk, exited, saves>>

File == [snapshot |-> save.snapshot, of |-> save.of]

Write ==
    /\ save.pc = "write"
    /\ tmp' = File
    /\ save' = [save EXCEPT !.pc = "sync"]
    /\ UNCHANGED <<process, path, disk, synced, exited, saves>>

\* The slip of a save that does not wait for the disk.
SyncSkipped ==
    /\ save.pc = "sync"
    /\ synced' = synced
    /\ save' = [save EXCEPT !.pc = "rename"]
    /\ UNCHANGED <<process, path, disk, tmp, exited, saves>>

Sync ==
    /\ save.pc = "sync"
    /\ synced' = TRUE
    /\ save' = [save EXCEPT !.pc = "rename"]
    /\ UNCHANGED <<process, path, disk, tmp, exited, saves>>

Rename ==
    /\ save.pc = "rename"
    /\ path' = tmp
    \* bytes that are not on disk may be missing from the renamed file
    /\ disk' = IF synced THEN disk ELSE Torn
    /\ tmp' = NoFile
    /\ save' = Idle
    /\ UNCHANGED <<process, synced, exited, saves>>

\* An error of any of these steps: the temporary file is removed.
Fails ==
    /\ save # Idle
    /\ tmp' = NoFile
    /\ save' = Idle
    /\ exited' = <<>>
    /\ UNCHANGED <<process, path, disk, synced, saves>>

-----------------------------------------------------------------------------
(* The world *)

\* The directory reaches the disk some time after the rename.
Flush ==
    /\ disk # path
    /\ disk' = path
    /\ UNCHANGED <<process, path, tmp, synced, save, exited, saves>>

\* The process is killed: its stores are gone, the files stay.
Killed ==
    /\ clients # <<>>
    /\ clients' = <<>>
    /\ save' = Idle
    /\ exiting' = None
    /\ exited' = <<>>
    /\ UNCHANGED <<files, starts, saves>>

\* The machine stops: the directory is as the disk has it, and bytes that were
\* not synced may be missing.
PowerLoss ==
    /\ clients' = <<>>
    /\ save' = Idle
    /\ exiting' = None
    /\ exited' = <<>>
    /\ path' \in {path, disk}
    /\ disk' = path'
    /\ tmp' \in IF synced THEN {tmp, NoFile} ELSE {tmp, Torn, NoFile}
    /\ UNCHANGED <<synced, starts, saves>>

-----------------------------------------------------------------------------

Init ==
    /\ clients = <<>>
    /\ path = NoFile
    /\ disk = NoFile
    /\ tmp = NoFile
    /\ synced = FALSE
    /\ save = Idle
    /\ exiting = None
    /\ starts = 0
    /\ saves = 0
    /\ exited = <<>>

ClientStep(c) ==
    \/ \E entry \in {Absent} \cup
          {Entry(v, ttl) : v \in Contents,
                           ttl \in {Forever} \cup {ms * TicksPerMs : ms \in 1 .. MaxTtl}} :
          Command(c, entry)
    \/ \E script \in Scripts : ScriptLoad(c, script)
    \/ AClose(c)
    \/ Sweep(c)
    \/ Save(c)

SaveStep == Create \/ Write \/ Sync \/ Rename \/ Fails

Next ==
    \/ Construct
    \/ \E c \in 1 .. MaxClients : ClientStep(c)
    \/ TimePasses
    \/ SaveStep
    \/ Exit \/ ExitSave \/ Ends
    \/ Flush \/ Killed \/ PowerLoss

Spec == Init /\ [][Next]_vars

-----------------------------------------------------------------------------
(* Properties *)

Whole(f) == f \notin {NoFile, Torn}

\* At every moment, after a kill or a loss of power at any step of a save too, a
\* file at the path is a complete snapshot ("crash-safe write pattern").
SnapshotIsWhole == path # Torn

\* Two values a client cannot tell apart but by the idle times of pending entries.
SameValue(new, old) ==
    IF old.type # "stream" THEN new = old
    ELSE new = [old EXCEPT !.pending = [id \in DOMAIN @ |-> [@[id] EXCEPT !.idle = 0]]]

Loads == clients' # <<>> /\ starts' = starts + 1

Loaded == clients'[Len(clients')]

\* A client that loads a file has what the saving client had when it saved: the
\* same values in both indices of a sorted set, cursors and delivery counts, and
\* scripts; nothing that had expired; a TTL of a millisecond or more has lost less
\* than a millisecond and is still there.
RestoreIsFaithful ==
    [][Loads =>
         \/ Loaded.data = Absent /\ Loaded.scripts = {}
         \/ /\ Whole(path)
            /\ Loaded.scripts = path.of.scripts
            /\ LET old == path.of.data
               IN  IF old = Absent \/ is_expired(old) THEN Loaded.data = Absent
                   ELSE /\ SameValue(Loaded.data.data, old.data)
                        /\ old.ttl = Forever => Loaded.data.ttl = Forever
                        /\ old.ttl >= TicksPerMs =>
                              Loaded.data.ttl \in (old.ttl - TicksPerMs + 1) .. old.ttl]_vars

\* After an exit whose last save worked, the file has what the client that was made
\* first held when its handler ran: of several clients of a path, it is the one
\* whose data stay.
OldestIsKept ==
    exiting = None /\ save = Idle /\ exited # <<>> =>
        exited[1].client = 1 /\ Whole(path) /\ path.of = exited[1].of

\* "Data is saved on process exit and reloaded on next start" (README.md): after an
\* exit whose saves all worked, the file has what the one client that was not
\* closed held.
ExitIsKept ==
    exiting = None /\ save = Idle =>
        \A c \in DOMAIN exited :
            (\A d \in DOMAIN exited : exited[d].closed = (d # c)) =>
                Whole(path) /\ path.of = exited[c].of

=============================================================================
