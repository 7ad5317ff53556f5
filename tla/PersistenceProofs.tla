------------------------- MODULE PersistenceProofs -------------------------
(***************************************************************************)
(* Crash safety of the snapshot file, fidelity of what is loaded from it,  *)
(* and what an exit leaves in it, for every data, number of clients and    *)
(* sequence of saves, kills and losses of power.                           *)
(***************************************************************************)
EXTENDS Persistence, TLAPS

\* What a save in progress has got done: its bytes are in the temporary file
\* before it is synced, and on disk before it is renamed.
SaveOK ==
    /\ \/ save = Idle
       \/ \E p \in {"create", "write", "sync", "rename"} : \E o, s :
             save = [pc |-> p, of |-> o, snapshot |-> s]
    /\ save.pc \in {"sync", "rename"} => tmp # Torn
    /\ save.pc = "rename" => synced

FilesOK == path # Torn /\ disk # Torn

\* The inductive invariant.
IInv == SaveOK /\ FilesOK

\* A snapshot is no torn file.
LEMMA FileIsWhole == \A s, o : [snapshot |-> s, of |-> o] # Torn
BY DEF Torn

\* A file that is missing is not torn.
LEMMA NoFileIsWhole == NoFile # Torn
BY DEF NoFile, Torn

\* No save is in progress: nothing to keep but the files.
LEMMA IdleOK ==
    ASSUME save = Idle
    PROVE  SaveOK
BY DEF SaveOK, Idle

\* A save in progress goes on to the next step.
LEMMA NextPc ==
    ASSUME SaveOK, save # Idle, NEW p \in {"write", "sync", "rename"},
           save' = [save EXCEPT !.pc = p]
    PROVE  /\ save'.pc = p
           /\ \E o, s : save' = [pc |-> p, of |-> o, snapshot |-> s]
<1>1. PICK q \in {"create", "write", "sync", "rename"} : \E o, s :
          save = [pc |-> q, of |-> o, snapshot |-> s]
  BY DEF SaveOK
<1>2. PICK o, s : save = [pc |-> q, of |-> o, snapshot |-> s]
  BY <1>1
<1>3. save' = [pc |-> p, of |-> o, snapshot |-> s]
  BY <1>2
<1> QED  BY <1>3

\* A step that leaves the save and its files alone keeps the invariant.
LEMMA Frame ==
    ASSUME IInv, UNCHANGED <<files, save>>
    PROVE  IInv'
BY DEF IInv, SaveOK, FilesOK, files

\* A save begins with the old file in place.
LEMMA BeginsStep ==
    ASSUME IInv, NEW c, Begins(c), UNCHANGED files
    PROVE  IInv'
<1>1. /\ save' = [pc |-> "create", of |-> Held(c), snapshot |-> from_store(Held(c))]
      /\ save'.pc = "create"
  BY DEF Begins
<1>2. SaveOK'
  BY <1>1 DEF SaveOK
<1> QED  BY <1>2 DEF IInv, FilesOK, files

\* The temporary file is created.
LEMMA CreateStep ==
    ASSUME IInv, Create
    PROVE  IInv'
<1>1. save # Idle
  BY DEF Create, Idle
<1>2. /\ save'.pc = "write"
      /\ \E o, s : save' = [pc |-> "write", of |-> o, snapshot |-> s]
  BY <1>1, NextPc DEF Create, IInv
<1>3. SaveOK'
  BY <1>2 DEF SaveOK
<1> QED  BY <1>3 DEF Create, IInv, FilesOK

\* The snapshot is written to it.
LEMMA WriteStep ==
    ASSUME IInv, Write
    PROVE  IInv'
<1>1. save # Idle
  BY DEF Write, Idle
<1>2. /\ save'.pc = "sync"
      /\ \E o, s : save' = [pc |-> "sync", of |-> o, snapshot |-> s]
  BY <1>1, NextPc DEF Write, IInv
<1>3. tmp' # Torn
  BY FileIsWhole DEF Write, File
<1>4. SaveOK'
  BY <1>2, <1>3 DEF SaveOK
<1> QED  BY <1>4 DEF Write, IInv, FilesOK

\* Its bytes reach the disk.
LEMMA SyncStep ==
    ASSUME IInv, Sync
    PROVE  IInv'
<1>1. save # Idle
  BY DEF Sync, Idle
<1>2. /\ save'.pc = "rename"
      /\ \E o, s : save' = [pc |-> "rename", of |-> o, snapshot |-> s]
  BY <1>1, NextPc DEF Sync, IInv
<1>3. tmp' # Torn /\ synced'
  BY DEF Sync, IInv, SaveOK
<1>4. SaveOK'
  BY <1>2, <1>3 DEF SaveOK
<1> QED  BY <1>4 DEF Sync, IInv, FilesOK

\* The rename puts a file that is whole, on disk too, in the place of the old one.
LEMMA RenameStep ==
    ASSUME IInv, Rename
    PROVE  IInv'
<1>1. synced /\ tmp # Torn
  BY DEF Rename, IInv, SaveOK
<1>2. SaveOK'
  BY DEF Rename, SaveOK, Idle
<1> QED  BY <1>1, <1>2 DEF Rename, IInv, FilesOK

\* After a loss of power the path has what it had, or what the disk had.
LEMMA PowerLossStep ==
    ASSUME IInv, PowerLoss
    PROVE  IInv'
<1>1. SaveOK'
  BY DEF PowerLoss, SaveOK, Idle
<1> QED  BY <1>1 DEF PowerLoss, IInv, FilesOK

\* Every step keeps the invariant.
LEMMA NextStep ==
    ASSUME IInv, [Next]_vars
    PROVE  IInv'
<1>1. CASE Construct
  BY <1>1, Frame DEF Construct
<1>2. ASSUME NEW c \in 1 .. MaxClients, ClientStep(c) PROVE IInv'
  <2>1. ASSUME NEW entry, Command(c, entry) PROVE IInv'
    BY <2>1, Frame DEF Command
  <2>2. ASSUME NEW script, ScriptLoad(c, script) PROVE IInv'
    BY <2>2, Frame DEF ScriptLoad
  <2>3. CASE AClose(c) \/ Sweep(c)
    BY <2>3, Frame DEF AClose, Sweep
  <2>4. CASE Save(c)
    BY <2>4, BeginsStep DEF Save
  <2> QED  BY <1>2, <2>1, <2>2, <2>3, <2>4 DEF ClientStep
<1>3. CASE TimePasses \/ Exit \/ Ends
  BY <1>3, Frame DEF TimePasses, Exit, Ends
<1>4. CASE ExitSave
  BY <1>4, BeginsStep DEF ExitSave
<1>5. CASE Create \/ Write \/ Sync \/ Rename
  BY <1>5, CreateStep, WriteStep, SyncStep, RenameStep
<1>6. CASE Fails \/ Killed
  <2>1. SaveOK'
    BY <1>6 DEF Fails, Killed, SaveOK, Idle
  <2> QED  BY <1>6, <2>1 DEF Fails, Killed, IInv, FilesOK, files
<1>7. CASE Flush
  BY <1>7 DEF Flush, IInv, SaveOK, FilesOK
<1>8. CASE PowerLoss
  BY <1>8, PowerLossStep
<1>9. CASE UNCHANGED vars
  BY <1>9, Frame DEF vars, files
<1> QED  BY <1>1, <1>2, <1>3, <1>4, <1>5, <1>6, <1>7, <1>8, <1>9 DEF Next, SaveStep

\* A file at the path is a whole snapshot at every moment, whatever is killed, or
\* loses power, in between.
THEOREM SnapshotAlwaysWhole == Spec => []SnapshotIsWhole
<1>1. Init => IInv
  BY IdleOK, NoFileIsWhole DEF Init, IInv, FilesOK
<1>2. IInv /\ [Next]_vars => IInv'
  BY NextStep
<1>3. IInv => SnapshotIsWhole
  BY DEF IInv, FilesOK, SnapshotIsWhole
<1> QED  BY <1>1, <1>2, <1>3, PTL DEF Spec

-----------------------------------------------------------------------------
(* The round trip of the data *)

ValueSet ==
    [type : {"plain"}, value : Values] \cup {Indexed(z) : z \in ZSets} \cup
    UNION {[type : {"stream"}, entries : SUBSET StreamIds, last_id : StreamIds,
            last_delivered : StreamIds, pending : [p -> [count : Nat, idle : Nat]]] :
              p \in SUBSET StreamIds}

Ttls == {Forever} \cup Nat

EntrySet == {Absent} \cup [data : ValueSet, ttl : Ttls]

HeldSet == [data : EntrySet, scripts : SUBSET Scripts]

\* What is left of a value after the round trip.
LEMMA ValueRoundTrip ==
    ASSUME NEW v \in ValueSet
    PROVE  /\ FromFile(ToFile(v)) \in ValueSet
           /\ SameValue(FromFile(ToFile(v)), v)
<1>1. CASE v \in [type : {"plain"}, value : Values]
  <2>1. ToFile(v) = v /\ FromFile(v) = v /\ v.type = "plain"
    BY <1>1 DEF ToFile, FromFile
  <2> QED  BY <1>1, <2>1 DEF SameValue, ValueSet
<1>2. ASSUME NEW z \in ZSets, v = Indexed(z)
      PROVE  FromFile(ToFile(v)) = v /\ SameValue(v, v)
  <2>1. v.type = "zset" /\ v.by_member = z
    BY <1>2 DEF Indexed
  <2>2. ToFile(v) = [type |-> "zset", by_member |-> z]
    BY <2>1 DEF ToFile
  <2>3. FromFile(ToFile(v)) = Indexed(z)
    BY <2>2 DEF FromFile
  <2> QED  BY <1>2, <2>1, <2>3 DEF SameValue
<1>3. ASSUME NEW p \in SUBSET StreamIds,
             v \in [type : {"stream"}, entries : SUBSET StreamIds, last_id : StreamIds,
                    last_delivered : StreamIds, pending : [p -> [count : Nat, idle : Nat]]]
      PROVE  FromFile(ToFile(v)) \in ValueSet /\ SameValue(FromFile(ToFile(v)), v)
  <2> DEFINE counts == [id \in p |-> v.pending[id].count]
             fresh  == [id \in p |-> [count |-> v.pending[id].count, idle |-> 0]]
  <2>1. v.type = "stream" /\ DOMAIN v.pending = p
    BY <1>3
  <2>2. ToFile(v) = [v EXCEPT !.pending = counts]
    BY <2>1 DEF ToFile
  <2>3. /\ ToFile(v).type = "stream" /\ ToFile(v).pending = counts
        /\ DOMAIN ToFile(v).pending = p
    BY <1>3, <2>2
  <2>4. FromFile(ToFile(v)) = [ToFile(v) EXCEPT !.pending = fresh]
    BY <2>3 DEF FromFile
  <2>5. FromFile(ToFile(v)) = [v EXCEPT !.pending = fresh]
    BY <1>3, <2>2, <2>4
  <2>6. \A id \in p : [v.pending[id] EXCEPT !.idle = 0] = fresh[id]
    BY <1>3
  <2>7. [id \in DOMAIN v.pending |-> [v.pending[id] EXCEPT !.idle = 0]] = fresh
    BY <2>1, <2>6
  <2>8. SameValue(FromFile(ToFile(v)), v)
    BY <2>1, <2>5, <2>7 DEF SameValue
  <2>9. fresh \in [p -> [count : Nat, idle : Nat]]
    BY <1>3
  <2>10. FromFile(ToFile(v)) \in
            [type : {"stream"}, entries : SUBSET StreamIds, last_id : StreamIds,
             last_delivered : StreamIds, pending : [p -> [count : Nat, idle : Nat]]]
    BY <1>3, <2>5, <2>9
  <2> QED  BY <2>8, <2>10 DEF ValueSet
<1> QED  BY <1>1, <1>2, <1>3 DEF ValueSet

\* A TTL cut to whole milliseconds loses less than one.
LEMMA Milliseconds ==
    ASSUME NEW x \in Nat
    PROVE  /\ x \div TicksPerMs \in Nat
           /\ (x \div TicksPerMs) * TicksPerMs \in (x - TicksPerMs + 1) .. x
           /\ x >= TicksPerMs => x \div TicksPerMs # 0
<1> DEFINE T == TicksPerMs
<1>0. T \in Nat \ {0}
  BY ConstantsAssumption
<1> HIDE DEF T
<1>1. x \div T \in Nat
  BY <1>0, Z3
<1>2. x = T * (x \div T) + (x % T) /\ x % T \in 0 .. T - 1
  BY <1>0, Z3
<1>3. (x \div T) * T = T * (x \div T)
  BY <1>0, <1>1
<1>4. x >= T => x \div T # 0
  BY <1>0, <1>1, <1>2
<1>5. (x \div T) * T \in (x - T + 1) .. x
  BY <1>0, <1>1, <1>2, <1>3
<1> QED  BY <1>1, <1>4, <1>5 DEF T

\* What a client that held h is restored to.
Restored(h) == into_runtime(from_store(h))

\* The clauses of RestoreIsFaithful, of a loaded and a saved store.
Faithful(new, old) ==
    /\ new.scripts = old.scripts
    /\ IF old.data = Absent \/ is_expired(old.data) THEN new.data = Absent
       ELSE /\ SameValue(new.data.data, old.data.data)
            /\ old.data.ttl = Forever => new.data.ttl = Forever
            /\ old.data.ttl >= TicksPerMs =>
                  new.data.ttl \in (old.data.ttl - TicksPerMs + 1) .. old.data.ttl

\* A whole store survives the conversion to the file and back.
LEMMA StoreRoundTrip ==
    ASSUME NEW h \in HeldSet
    PROVE  Restored(h) \in HeldSet /\ Faithful(Restored(h), h)
<1>1. Restored(h).scripts = h.scripts /\ h.scripts \in SUBSET Scripts
  BY DEF Restored, into_runtime, from_store, HeldSet
<1>2. CASE h.data = Absent \/ is_expired(h.data)
  <2>1. Restored(h) = [data |-> Absent, scripts |-> h.scripts]
    BY <1>2 DEF Restored, into_runtime, from_store
  <2> QED  BY <1>1, <1>2, <2>1 DEF Faithful, HeldSet, EntrySet
<1>3. CASE ~ (h.data = Absent \/ is_expired(h.data))
  <2> DEFINE v  == h.data.data
             t  == h.data.ttl
             ms == IF t = Forever THEN None ELSE t \div TicksPerMs
             e  == [data |-> ToFile(v), ms |-> ms]
             r  == IF ms \in {None, 0} THEN Forever ELSE ms * TicksPerMs
  <2>1. v \in ValueSet /\ t \in Ttls
    BY <1>3 DEF HeldSet, EntrySet
  <2>2. from_store(h) = [entry |-> e, scripts |-> h.scripts]
    BY <1>3 DEF from_store
  <2>3. e # Absent
    BY DEF Absent
  <2>4. Restored(h) = [data |-> [data |-> FromFile(ToFile(v)), ttl |-> r],
                       scripts |-> h.scripts]
    BY <2>2, <2>3 DEF Restored, into_runtime
  <2>5. FromFile(ToFile(v)) \in ValueSet /\ SameValue(FromFile(ToFile(v)), v)
    BY <2>1, ValueRoundTrip
  <2>6. /\ r \in Ttls
        /\ t = Forever => r = Forever
        /\ t >= TicksPerMs => r \in (t - TicksPerMs + 1) .. t
    <3>1. CASE t = Forever
      <4>1. r = Forever
        BY <3>1
      <4> QED  BY <3>1, <4>1, ConstantsAssumption DEF Ttls, Forever
    <3>2. CASE t \in Nat
      <4>1. t # Forever /\ ms = t \div TicksPerMs /\ ms \in Nat
        BY <3>2, Milliseconds DEF Forever
      <4>2. ms # None
        BY <4>1 DEF None
      <4>3. ms * TicksPerMs \in Nat
        BY <4>1, ConstantsAssumption
      <4>4. t >= TicksPerMs => ms # 0 /\ ms * TicksPerMs \in (t - TicksPerMs + 1) .. t
        BY <3>2, <4>1, Milliseconds
      <4> QED  BY <4>1, <4>2, <4>3, <4>4 DEF Ttls
    <3> QED  BY <2>1, <3>1, <3>2 DEF Ttls
  <2> HIDE DEF r, e, ms
  <2>7. Restored(h) \in HeldSet
    BY <1>1, <2>4, <2>5, <2>6 DEF HeldSet, EntrySet
  <2>8. Faithful(Restored(h), h)
    BY <1>1, <1>3, <2>4, <2>5, <2>6 DEF Faithful
  <2> QED  BY <2>7, <2>8
<1> QED  BY <1>2, <1>3

-----------------------------------------------------------------------------
(* What the files hold *)

ClientSet == [data : EntrySet, scripts : SUBSET Scripts, closed : BOOLEAN]

\* A file is missing, torn, or the snapshot of what its "of" held.
FileOf(f) ==
    \/ f \in {NoFile, Torn}
    \/ \E h \in HeldSet : f = [snapshot |-> from_store(h), of |-> h]

SaveOf ==
    \/ save = Idle
    \/ \E p \in {"create", "write", "sync", "rename"} : \E h \in HeldSet :
          save = [pc |-> p, of |-> h, snapshot |-> from_store(h)]

\* The inductive invariant for the data.
DataInv ==
    /\ clients \in Seq(ClientSet)
    /\ starts \in Nat
    /\ SaveOf
    /\ FileOf(path) /\ FileOf(disk) /\ FileOf(tmp)

\* What a client holds has the type of what a store holds.
LEMMA HeldType ==
    ASSUME clients \in Seq(ClientSet), NEW c \in DOMAIN clients
    PROVE  Held(c) \in HeldSet
<1>1. clients[c] \in ClientSet
  OBVIOUS
<1> QED  BY <1>1 DEF Held, HeldSet, ClientSet

\* Changing one client's data or scripts leaves clients.
LEMMA ClientChanged ==
    ASSUME clients \in Seq(ClientSet), NEW c \in DOMAIN clients, NEW x \in ClientSet
    PROVE  [clients EXCEPT ![c] = x] \in Seq(ClientSet)
OBVIOUS

\* A step that leaves the save and the files alone.
LEMMA DataFrame ==
    ASSUME DataInv, UNCHANGED <<files, save>>, clients' \in Seq(ClientSet), starts' \in Nat
    PROVE  DataInv'
BY DEF DataInv, SaveOf, FileOf, files

\* Constructing a client.
LEMMA DataConstruct ==
    ASSUME DataInv, Construct
    PROVE  /\ DataInv'
           /\ Len(clients') = Len(clients) + 1
           /\ \/ /\ clients'[Len(clients')].data = Absent
                 /\ clients'[Len(clients')].scripts = {}
              \/ /\ Whole(path)
                 /\ Faithful(clients'[Len(clients')], path.of)
<1>1. PICK readable \in BOOLEAN :
        LET whole  == readable /\ path \notin {NoFile, Torn}
            loaded == IF whole THEN into_runtime(path.snapshot)
                      ELSE [data |-> Absent, scripts |-> {}]
        IN  clients' = Append(clients,
              [data |-> loaded.data, scripts |-> loaded.scripts, closed |-> FALSE])
  BY DEF Construct
<1> DEFINE whole  == readable /\ path \notin {NoFile, Torn}
           loaded == IF whole THEN into_runtime(path.snapshot)
                     ELSE [data |-> Absent, scripts |-> {}]
           new    == [data |-> loaded.data, scripts |-> loaded.scripts, closed |-> FALSE]
<1>2. clients' = Append(clients, new)
  BY <1>1
<1>3. /\ loaded \in HeldSet
      /\ \/ loaded.data = Absent /\ loaded.scripts = {}
         \/ Whole(path) /\ Faithful(loaded, path.of)
  <2>1. CASE ~ whole
    BY <2>1 DEF HeldSet, EntrySet
  <2>2. CASE whole
    <3>1. PICK h \in HeldSet : path = [snapshot |-> from_store(h), of |-> h]
      BY <2>2 DEF DataInv, FileOf
    <3>2. loaded = Restored(h) /\ path.of = h
      BY <2>2, <3>1 DEF Restored
    <3> QED  BY <2>2, <3>2, StoreRoundTrip DEF Whole
  <2> QED  BY <2>1, <2>2
<1> HIDE DEF loaded
<1>4. new \in ClientSet /\ new.data = loaded.data /\ new.scripts = loaded.scripts
  BY <1>3 DEF ClientSet, HeldSet
<1>5. Faithful(loaded, path.of) => Faithful(new, path.of)
  BY <1>4 DEF Faithful
<1> HIDE DEF new
<1>6. /\ clients' \in Seq(ClientSet)
      /\ Len(clients') = Len(clients) + 1
      /\ clients'[Len(clients')] = new
  BY <1>2, <1>4 DEF DataInv
<1>7. starts' \in Nat /\ UNCHANGED <<files, save>>
  BY DEF Construct, DataInv
<1> QED  BY <1>3, <1>4, <1>5, <1>6, <1>7, DataFrame

\* The commands of a client.
LEMMA DataCommand ==
    ASSUME DataInv, NEW c \in DOMAIN clients,
           \/ \E entry \in EntrySet : clients' = [clients EXCEPT ![c].data = entry]
           \/ \E script \in Scripts : clients' = [clients EXCEPT ![c].scripts = @ \cup {script}]
           \/ clients' = [clients EXCEPT ![c].closed = TRUE]
    PROVE  clients' \in Seq(ClientSet)
<1>1. clients[c] \in ClientSet
  BY DEF DataInv
<1>2. ASSUME NEW entry \in EntrySet, clients' = [clients EXCEPT ![c].data = entry]
      PROVE  clients' \in Seq(ClientSet)
  <2>1. [clients[c] EXCEPT !.data = entry] \in ClientSet
    BY <1>1 DEF ClientSet
  <2> QED  BY <1>2, <2>1, ClientChanged DEF DataInv
<1>3. ASSUME NEW script \in Scripts,
             clients' = [clients EXCEPT ![c].scripts = @ \cup {script}]
      PROVE  clients' \in Seq(ClientSet)
  <2>1. [clients[c] EXCEPT !.scripts = @ \cup {script}] \in ClientSet
    BY <1>1 DEF ClientSet
  <2> QED  BY <1>3, <2>1, ClientChanged DEF DataInv
<1>4. CASE clients' = [clients EXCEPT ![c].closed = TRUE]
  <2>1. [clients[c] EXCEPT !.closed = TRUE] \in ClientSet
    BY <1>1 DEF ClientSet
  <2> QED  BY <1>4, <2>1, ClientChanged DEF DataInv
<1> QED  BY <1>2, <1>3, <1>4

\* What commands write has the type of an entry.
LEMMA WrittenEntries ==
    ASSUME NEW v \in Contents, NEW ttl \in {Forever} \cup {ms * TicksPerMs : ms \in 1 .. MaxTtl}
    PROVE  Entry(v, ttl) \in EntrySet
<1>1. v \in ValueSet
  BY ConstantsAssumption DEF Contents, ValueSet, IsStream
<1>2. ttl \in Ttls
  BY ConstantsAssumption DEF Ttls
<1> QED  BY <1>1, <1>2 DEF Entry, EntrySet

\* A tick leaves an entry an entry.
LEMMA AgesType ==
    ASSUME NEW e \in EntrySet
    PROVE  Ages(e) \in EntrySet
<1>1. CASE e = Absent \/ e.ttl \in {Forever, 0}
  BY <1>1 DEF Ages
<1>2. CASE ~ (e = Absent \/ e.ttl \in {Forever, 0})
  <2>1. e \in [data : ValueSet, ttl : Ttls] /\ e.ttl \in Nat /\ e.ttl # 0
    BY <1>2 DEF EntrySet, Ttls
  <2>2. Ages(e) = [e EXCEPT !.ttl = e.ttl - 1]
    BY <1>2 DEF Ages
  <2>3. e.ttl - 1 \in Ttls
    BY <2>1 DEF Ttls
  <2> QED  BY <2>1, <2>2, <2>3 DEF EntrySet
<1> QED  BY <1>1, <1>2

\* A tick of the clock.
LEMMA DataTimePasses ==
    ASSUME DataInv, TimePasses
    PROVE  clients' \in Seq(ClientSet)
<1>1. ASSUME NEW c \in DOMAIN clients PROVE [clients[c] EXCEPT !.data = Ages(@)] \in ClientSet
  <2>1. clients[c] \in ClientSet
    BY DEF DataInv
  <2>2. Ages(clients[c].data) \in EntrySet
    BY <2>1, AgesType DEF ClientSet
  <2> QED  BY <2>1, <2>2 DEF ClientSet
<1>2. /\ Len(clients) \in Nat /\ DOMAIN clients = 1 .. Len(clients)
      /\ clients' = [c \in 1 .. Len(clients) |-> [clients[c] EXCEPT !.data = Ages(@)]]
  BY DEF TimePasses, DataInv
<1> QED  BY <1>1, <1>2

\* A save begins.
LEMMA DataBegins ==
    ASSUME DataInv, NEW c \in DOMAIN clients, Begins(c), UNCHANGED <<files, clients, starts>>
    PROVE  DataInv'
<1>1. Held(c) \in HeldSet
  BY HeldType DEF DataInv
<1>2. SaveOf'
  BY <1>1 DEF Begins, SaveOf
<1> QED  BY <1>2 DEF DataInv, FileOf, files

\* A save goes on.
LEMMA DataNextPc ==
    ASSUME SaveOf, save # Idle, NEW q \in {"write", "sync", "rename"},
           save' = [save EXCEPT !.pc = q]
    PROVE  SaveOf'
<1>1. PICK p \in {"create", "write", "sync", "rename"}, h \in HeldSet :
          save = [pc |-> p, of |-> h, snapshot |-> from_store(h)]
  BY DEF SaveOf
<1>2. save' = [pc |-> q, of |-> h, snapshot |-> from_store(h)]
  BY <1>1
<1> QED  BY <1>2 DEF SaveOf

\* A step of a save.
LEMMA DataSaveStep ==
    ASSUME DataInv, SaveStep
    PROVE  DataInv'
<1>1. CASE Create
  <2>1. SaveOf'
    BY <1>1, DataNextPc DEF Create, DataInv, Idle
  <2> QED  BY <1>1, <2>1 DEF Create, process, DataInv, FileOf
<1>2. CASE Write
  <2>1. SaveOf'
    BY <1>2, DataNextPc DEF Write, DataInv, Idle
  <2>2. FileOf(tmp)'
    <3>1. PICK p \in {"create", "write", "sync", "rename"}, h \in HeldSet :
              save = [pc |-> p, of |-> h, snapshot |-> from_store(h)]
      BY <1>2 DEF Write, DataInv, SaveOf, Idle
    <3>2. tmp' = [snapshot |-> from_store(h), of |-> h]
      BY <1>2, <3>1 DEF Write, File
    <3> QED  BY <3>2 DEF FileOf
  <2> QED  BY <1>2, <2>1, <2>2 DEF Write, process, DataInv, FileOf
<1>3. CASE Sync
  <2>1. SaveOf'
    BY <1>3, DataNextPc DEF Sync, DataInv, Idle
  <2> QED  BY <1>3, <2>1 DEF Sync, process, DataInv, FileOf
<1>4. CASE Rename
  BY <1>4 DEF Rename, process, DataInv, FileOf, SaveOf
<1>5. CASE Fails
  BY <1>5 DEF Fails, process, DataInv, FileOf, SaveOf
<1> QED  BY <1>1, <1>2, <1>3, <1>4, <1>5 DEF SaveStep

\* Every step keeps the invariant.
LEMMA DataNext ==
    ASSUME DataInv, [Next]_vars
    PROVE  DataInv'
<1>1. CASE Construct
  BY <1>1, DataConstruct
<1>2. ASSUME NEW c \in 1 .. MaxClients, ClientStep(c) PROVE DataInv'
  <2>1. CASE \E entry \in {Absent} \cup
                {Entry(v, ttl) : v \in Contents,
                    ttl \in {Forever} \cup {ms * TicksPerMs : ms \in 1 .. MaxTtl}} :
                Command(c, entry)
    <3>1. PICK entry \in EntrySet : Command(c, entry)
      BY <2>1, WrittenEntries DEF EntrySet
    <3>2. clients' \in Seq(ClientSet)
      BY <3>1, DataCommand DEF Command, Client
    <3> QED  BY <3>1, <3>2, DataFrame DEF Command, DataInv
  <2>2. ASSUME NEW script \in Scripts, ScriptLoad(c, script) PROVE DataInv'
    <3>1. clients' \in Seq(ClientSet)
      BY <2>2, DataCommand DEF ScriptLoad, Client
    <3> QED  BY <2>2, <3>1, DataFrame DEF ScriptLoad, DataInv
  <2>3. CASE AClose(c)
    <3>1. clients' \in Seq(ClientSet)
      BY <2>3, DataCommand DEF AClose, Client
    <3> QED  BY <2>3, <3>1, DataFrame DEF AClose, DataInv
  <2>4. CASE Sweep(c)
    <3>1. Absent \in EntrySet
      BY DEF EntrySet
    <3>2. clients' \in Seq(ClientSet)
      BY <2>4, <3>1, DataCommand DEF Sweep, Client
    <3> QED  BY <2>4, <3>2, DataFrame DEF Sweep, DataInv
  <2>5. CASE Save(c)
    BY <2>5, DataBegins DEF Save, Client, process
  <2> QED  BY <1>2, <2>1, <2>2, <2>3, <2>4, <2>5 DEF ClientStep
<1>3. CASE TimePasses
  BY <1>3, DataTimePasses, DataFrame DEF TimePasses, DataInv
<1>4. CASE SaveStep
  BY <1>4, DataSaveStep
<1>5. CASE Exit
  BY <1>5, DataFrame DEF Exit, DataInv
<1>6. CASE ExitSave
  BY <1>6, DataBegins DEF ExitSave
<1>7. <<>> \in Seq(ClientSet)
  OBVIOUS
<1>8. CASE Ends
  BY <1>7, <1>8, DataFrame DEF Ends, DataInv
<1>9. CASE Flush
  BY <1>9 DEF Flush, process, DataInv, SaveOf, FileOf
<1>10. CASE Killed
  BY <1>7, <1>10 DEF Killed, files, DataInv, SaveOf, FileOf
<1>11. CASE PowerLoss
  <2>1. FileOf(path)' /\ FileOf(disk)'
    BY <1>11 DEF PowerLoss, DataInv, FileOf
  <2>2. FileOf(tmp)'
    BY <1>11 DEF PowerLoss, DataInv, FileOf
  <2> QED  BY <1>7, <1>11, <2>1, <2>2 DEF PowerLoss, DataInv, SaveOf
<1>12. CASE UNCHANGED vars
  BY <1>12, DataFrame DEF vars, files, DataInv
<1> QED  BY <1>1, <1>2, <1>3, <1>4, <1>5, <1>6, <1>8, <1>9, <1>10, <1>11, <1>12 DEF Next

\* Only the construction of a client counts as a start.
LEMMA LoadsConstructs ==
    ASSUME DataInv, [Next]_vars, Loads
    PROVE  Construct
<1>1. starts' # starts
  BY DEF Loads, DataInv
<1> QED  BY <1>1 DEF Next, ClientStep, Command, ScriptLoad, AClose, Sweep, Save, TimePasses,
            SaveStep, Create, Write, Sync, Rename, Fails, Exit, ExitSave, Ends, Flush, Killed,
            PowerLoss, process, vars

\* A client restored from a file has what the client that wrote it had, for every
\* value, TTL and resolution of the clock.
THEOREM RestoresFaithfully == Spec => RestoreIsFaithful
<1>1. Init => DataInv
  BY DEF Init, DataInv, SaveOf, FileOf
<1>2. DataInv /\ [Next]_vars => DataInv'
  BY DataNext
<1>3. ASSUME DataInv, [Next]_vars, Loads
      PROVE  \/ Loaded.data = Absent /\ Loaded.scripts = {}
             \/ /\ Whole(path)
                /\ Loaded.scripts = path.of.scripts
                /\ LET old == path.of.data
                   IN  IF old = Absent \/ is_expired(old) THEN Loaded.data = Absent
                       ELSE /\ SameValue(Loaded.data.data, old.data)
                            /\ old.ttl = Forever => Loaded.data.ttl = Forever
                            /\ old.ttl >= TicksPerMs =>
                                  Loaded.data.ttl \in (old.ttl - TicksPerMs + 1) .. old.ttl
  BY <1>3, LoadsConstructs, DataConstruct DEF Loaded, Faithful
<1> QED  BY <1>1, <1>2, <1>3, PTL DEF Spec, RestoreIsFaithful

-----------------------------------------------------------------------------
(* What an exit leaves behind, of any number of clients.                    *)

ExitedSet == [client : Nat, of : HeldSet, closed : BOOLEAN]

\* The snapshot of the client that saved last is at the path, or, as long as the
\* exit goes on, on its way there.
Kept ==
    \/ save = Idle /\ Whole(path) /\ path.of = exited[1].of
    \/ /\ exiting # None
       /\ save # Idle
       /\ save.of = exited[1].of
       /\ save.pc \in {"sync", "rename"} => Whole(tmp) /\ tmp.of = exited[1].of

\* The handlers run down to the first client's, and nobody else saves in between.
Oldest == exited[1].client = IF exiting = None THEN 1 ELSE exiting + 1

ExitInv ==
    /\ SaveOK
    /\ exited \in Seq(ExitedSet)
    /\ exiting \in Nat \cup {None}
    /\ exited # <<>> => Kept /\ Oldest

\* A step that leaves the files, the save and the exit alone.
LEMMA ExitFrame ==
    ASSUME ExitInv, SaveOK', UNCHANGED <<path, tmp, save, exiting, exited>>
    PROVE  ExitInv'
BY DEF ExitInv, Kept, Oldest, Whole

\* A step that forgets what the last exit promised.
LEMMA ExitForgets ==
    ASSUME SaveOK', exited' = <<>>, exiting' \in Nat \cup {None}
    PROVE  ExitInv'
BY DEF ExitInv

\* A save goes on: its record changes its pc alone.
LEMMA SameOf ==
    ASSUME SaveOK, save # Idle, NEW p \in {"write", "sync", "rename"},
           save' = [save EXCEPT !.pc = p]
    PROVE  save' # Idle /\ save'.of = save.of /\ save'.pc = p
<1>1. PICK q, o, s : save = [pc |-> q, of |-> o, snapshot |-> s]
  BY DEF SaveOK
<1>2. save' = [pc |-> p, of |-> o, snapshot |-> s]
  BY <1>1
<1> QED  BY <1>1, <1>2 DEF Idle

\* The next handler begins: its snapshot is the one that is on its way now.
LEMMA ExitBegins ==
    ASSUME DataInv, ExitInv, SaveOK', ExitSave
    PROVE  ExitInv'
<1>1. exiting \in 1 .. Len(clients) /\ exiting' = exiting - 1
  BY DEF ExitSave, DataInv
<1>2. exiting' \in Nat /\ exiting' # None
  BY <1>1 DEF DataInv, None
<1>3. Exited(exiting) \in ExitedSet
  <2>1. clients[exiting] \in ClientSet
    BY <1>1 DEF DataInv
  <2>2. Held(exiting) \in HeldSet
    BY HeldType DEF DataInv, ExitSave
  <2> QED  BY <1>1, <2>1, <2>2 DEF Exited, ExitedSet, ClientSet, DataInv
<1>4. exited' = <<Exited(exiting)>> \o exited
  BY DEF ExitSave
<1>5. exited' \in Seq(ExitedSet) /\ exited' # <<>> /\ exited'[1] = Exited(exiting)
  BY <1>3, <1>4 DEF ExitInv
<1>6. save' = [pc |-> "create", of |-> Held(exiting), snapshot |-> from_store(Held(exiting))]
  BY DEF ExitSave, Begins
<1>7. save' # Idle /\ save'.of = Held(exiting) /\ save'.pc = "create"
  BY <1>6 DEF Idle
<1>8. exited'[1].of = Held(exiting) /\ exited'[1].client = exiting
  BY <1>5 DEF Exited
<1>9. Kept'
  BY <1>2, <1>7, <1>8 DEF Kept
<1>10. Oldest'
  BY <1>1, <1>2, <1>8 DEF Oldest
<1> QED  BY <1>2, <1>5, <1>9, <1>10 DEF ExitInv

\* Every step keeps the invariant of the exit.
LEMMA ExitNext ==
    ASSUME DataInv, IInv, ExitInv, [Next]_vars
    PROVE  ExitInv'
<1>0. SaveOK'
  BY NextStep DEF IInv
<1>1. CASE Construct
  BY <1>0, <1>1, ExitFrame DEF Construct, files
<1>2. ASSUME NEW c \in 1 .. MaxClients, ClientStep(c) PROVE ExitInv'
  <2>1. CASE Save(c)
    BY <1>0, <2>1, ExitForgets DEF Save, process, ExitInv
  <2> QED  BY <1>0, <1>2, <2>1, ExitFrame
              DEF ClientStep, Command, ScriptLoad, AClose, Sweep, files
<1>3. CASE TimePasses
  BY <1>0, <1>3, ExitFrame DEF TimePasses, files
<1>4. CASE Exit
  BY <1>0, <1>4, ExitForgets DEF Exit, DataInv
<1>5. CASE Ends
  <2>1. /\ UNCHANGED <<path, tmp, save, exited>> /\ save = Idle
        /\ exiting = 0 /\ exiting' = None
    BY <1>5 DEF Ends, files
  <2>2. exited # <<>> => Kept' /\ Oldest'
    BY <2>1 DEF ExitInv, Kept, Oldest, Whole, None
  <2> QED  BY <1>0, <2>1, <2>2 DEF ExitInv
<1>6. CASE ExitSave
  BY <1>0, <1>6, ExitBegins
<1>7. CASE Create
  <2>1. save' # Idle /\ save'.of = save.of /\ save'.pc = "write" /\ save # Idle
    BY <1>7, SameOf DEF Create, Idle, ExitInv
  <2> QED  BY <1>0, <1>7, <2>1 DEF Create, ExitInv, Kept, Oldest, process
<1>8. CASE Write
  <2>1. save' # Idle /\ save'.of = save.of /\ save'.pc = "sync" /\ save # Idle
    BY <1>8, SameOf DEF Write, Idle, ExitInv
  <2>2. Whole(tmp)' /\ tmp'.of = save.of
    BY <1>8, FileIsWhole DEF Write, File, Whole, NoFile
  <2> QED  BY <1>0, <1>8, <2>1, <2>2 DEF Write, ExitInv, Kept, Oldest, process
<1>9. CASE Sync
  <2>1. save' # Idle /\ save'.of = save.of /\ save'.pc = "rename" /\ save # Idle
    BY <1>9, SameOf DEF Sync, Idle, ExitInv
  <2> QED  BY <1>0, <1>9, <2>1 DEF Sync, ExitInv, Kept, Oldest, Whole, process
<1>10. CASE Rename
  <2>1. save # Idle
    BY <1>10 DEF Rename, Idle
  <2> QED  BY <1>0, <1>10, <2>1 DEF Rename, ExitInv, Kept, Oldest, Whole, process
<1>11. CASE Fails \/ Killed \/ PowerLoss
  BY <1>0, <1>11, ExitForgets DEF Fails, Killed, PowerLoss, process, ExitInv
<1>12. CASE Flush
  BY <1>0, <1>12, ExitFrame DEF Flush, process
<1>13. CASE UNCHANGED vars
  BY <1>0, <1>13, ExitFrame DEF vars
<1> QED  BY <1>1, <1>2, <1>3, <1>4, <1>5, <1>6, <1>7, <1>8, <1>9, <1>10, <1>11, <1>12, <1>13
            DEF Next, SaveStep

\* An exit leaves at the path what the client made first held when its handler ran,
\* if its save worked: for any number of clients, open or closed, all data and
\* whatever happened before, other clients' saves that failed in this exit included.
THEOREM OldestClientIsKept == Spec => []OldestIsKept
<1>1. Init => DataInv /\ IInv /\ ExitInv
  BY IdleOK, NoFileIsWhole DEF Init, DataInv, SaveOf, FileOf, IInv, FilesOK, ExitInv
<1>2. DataInv /\ IInv /\ ExitInv /\ [Next]_vars => (DataInv /\ IInv /\ ExitInv)'
  BY DataNext, NextStep, ExitNext
<1>3. ExitInv => OldestIsKept
  BY DEF ExitInv, OldestIsKept, Kept, Oldest
<1> QED  BY <1>1, <1>2, <1>3, PTL DEF Spec

=============================================================================
