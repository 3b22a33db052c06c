----------------------------- MODULE KVStoreProofs -----------------------------
(* Proofs about KVStore: its types, what the recorded remote version says of a *)
(* local value, and that only an older value is overwritten by a sync.         *)
EXTENDS KVStore, TLAPS

-----------------------------------------------------------------------------
(* What a thread in _syncKey knows is true as long as neither the server's  *)
(* version nor the latest row has moved on: versions only grow, and each    *)
(* one names a single content.                                              *)

Busy == {"read", "request", "local", "record"}   \* the thread has a key

\* A listing of a key, against what the server has.
ListedOK(there, remote) ==
    /\ there.version <= remote.version
    /\ there.tombstone /\ there.version = remote.version => remote.deleted

\* The server's part of a job that was served, or needed no request.
ServedOK(r, remote) == r.pc \in {"local", "record"} =>
    /\ r.job.at <= remote.version
    /\ r.job.at = remote.version /\ remote.version > 0 =>
        /\ r.job.op \in {"put", "get"} => ~remote.deleted /\ remote.value = r.job.value
        /\ r.job.op \in {"del", "erase"} => remote.deleted

\* The local row that a job was decided from, or at "record" the one it added.
FromOK(r, row) == r.pc \in {"request", "local", "record"} =>
    /\ r.job.from <= row.version
    /\ r.job.from = row.version =>
        /\ r.pc = "record" => /\ r.job.op = "get" /\ ~row.deleted => row.value = r.job.value
                              /\ r.job.op = "erase" => row.deleted
        /\ r.pc # "record" => /\ r.job.op = "put" => ~row.deleted /\ row.value = r.job.value
                              /\ r.job.op = "del" => row.deleted
                              /\ r.job.op = "keep" => row.remote = r.job.at
                              /\ r.job.op \in {"get", "erase"} => row.time < r.listed[r.key].time

\* The job that a place is for.
JobOK(r) ==
    /\ r.pc = "request" => r.job.op \in {"put", "del", "get"}
    /\ r.pc = "record" => r.job.op \in {"get", "erase"}

SyncOK(r, rows, remotes) ==
    /\ \A k \in Keys : ListedOK(r.listed[k], remotes[k])
    /\ JobOK(r)
    /\ r.pc \in Busy => r.key \in Keys /\ ServedOK(r, remotes[r.key]) /\ FromOK(r, rows[r.key])

\* A row against the server: the version it records is one the server has had.
KeyOK(row, remote) ==
    /\ row.remote <= remote.version
    /\ row.remote = remote.version /\ remote.version > 0 =>
        /\ remote.deleted => row.deleted
        /\ ~row.deleted => row.value = remote.value

AllKeysOK  == \A k \in Keys : KeyOK(latest[k], server[k])
AllSyncsOK == \A s \in Syncers : SyncOK(sync[s], latest, server)
Inv == TypeOK /\ AllKeysOK /\ AllSyncsOK

SyncRec == [pc : Places, todo : SUBSET Keys, listed : [Keys -> Listing],
            key : Keys \cup {NoKey}, recorded : Nat, job : Job]

\* What a write does to a row or to the server's copy: a version of its own.
Grown(old, new) == \A k \in Keys : new[k] = old[k] \/ new[k].version = old[k].version + 1

LEMMA IdleType == Idle \in SyncRec /\ Idle.pc = "idle" /\ Idle.listed = [k \in Keys |-> Unlisted]
<1>1. Unlisted \in Listing /\ NoJob \in Job
  BY KVAssumption DEF Unlisted, Listing, NoJob, Job, Ops, Times, KVAssumption
<1> QED BY <1>1 DEF Idle, SyncRec, Places

LEMMA UnlistedOK ==
    ASSUME NEW remote \in Remote PROVE ListedOK(Unlisted, remote)
BY DEF ListedOK, Unlisted, Remote

\* Other writes leave what a thread knows true.
LEMMA SyncStays ==
    ASSUME NEW r \in SyncRec,
           NEW rows \in [Keys -> Row], NEW rows2 \in [Keys -> Row], Grown(rows, rows2),
           NEW remotes \in [Keys -> Remote], NEW remotes2 \in [Keys -> Remote], Grown(remotes, remotes2),
           SyncOK(r, rows, remotes)
    PROVE  SyncOK(r, rows2, remotes2)
<1>1. ASSUME NEW k \in Keys PROVE ListedOK(r.listed[k], remotes2[k])
  <2>1. ListedOK(r.listed[k], remotes[k])
    BY DEF SyncOK
  <2>2. r.listed[k] \in Listing /\ remotes[k] \in Remote /\ remotes2[k] \in Remote
    BY DEF SyncRec
  <2>3. remotes2[k] = remotes[k] \/ remotes2[k].version = remotes[k].version + 1
    BY DEF Grown
  <2> QED BY <2>1, <2>2, <2>3 DEF ListedOK, Listing, Remote
<1>2. ASSUME r.pc \in Busy PROVE r.key \in Keys /\ ServedOK(r, remotes2[r.key]) /\ FromOK(r, rows2[r.key])
  <2>0. r.key \in Keys /\ ServedOK(r, remotes[r.key]) /\ FromOK(r, rows[r.key]) /\ r.job \in Job
    BY <1>2 DEF SyncOK, SyncRec
  <2> DEFINE k == r.key
  <2>1. /\ remotes2[k] = remotes[k] \/ remotes2[k].version = remotes[k].version + 1
        /\ rows2[k] = rows[k] \/ rows2[k].version = rows[k].version + 1
        /\ remotes[k] \in Remote /\ remotes2[k] \in Remote /\ rows[k] \in Row /\ rows2[k] \in Row
    BY <2>0 DEF Grown
  <2>2. ServedOK(r, remotes2[k])
    BY <2>0, <2>1 DEF ServedOK, Remote, Job
  <2>3. FromOK(r, rows2[k])
    BY <2>0, <2>1 DEF FromOK, Row, Job
  <2> QED BY <2>0, <2>2, <2>3
<1> QED BY <1>1, <1>2 DEF SyncOK

\* A step of one thread.
LEMMA SyncMoves ==
    ASSUME Inv, latest' \in [Keys -> Row], Grown(latest, latest'),
           server' \in [Keys -> Remote], Grown(server, server'),
           NEW s \in Syncers, NEW r \in SyncRec, sync' = [sync EXCEPT ![s] = r], SyncOK(r, latest', server')
    PROVE  sync' \in [Syncers -> SyncRec] /\ AllSyncsOK'
<1>1. sync \in [Syncers -> SyncRec] /\ latest \in [Keys -> Row] /\ server \in [Keys -> Remote]
  BY DEF Inv, TypeOK, SyncRec
<1>2. ASSUME NEW u \in Syncers PROVE SyncOK(sync'[u], latest', server')
  <2>1. CASE u = s
    BY <1>1, <2>1
  <2>2. CASE u # s
    <3>1. sync'[u] = sync[u] /\ sync[u] \in SyncRec /\ SyncOK(sync[u], latest, server)
      BY <1>1, <2>2 DEF Inv, AllSyncsOK
    <3> QED BY <1>1, <3>1, SyncStays
  <2> QED BY <2>1, <2>2
<1> QED BY <1>1, <1>2 DEF AllSyncsOK

LEMMA SyncsWait ==
    ASSUME Inv, latest' \in [Keys -> Row], Grown(latest, latest'),
           server' \in [Keys -> Remote], Grown(server, server'), UNCHANGED sync
    PROVE  sync' \in [Syncers -> SyncRec] /\ AllSyncsOK'
<1>1. sync \in [Syncers -> SyncRec] /\ latest \in [Keys -> Row] /\ server \in [Keys -> Remote]
  BY DEF Inv, TypeOK, SyncRec
<1>2. ASSUME NEW u \in Syncers PROVE SyncOK(sync'[u], latest', server')
  <2>1. sync'[u] = sync[u] /\ sync[u] \in SyncRec /\ SyncOK(sync[u], latest, server)
    BY <1>1 DEF Inv, AllSyncsOK
  <2> QED BY <1>1, <2>1, SyncStays
<1> QED BY <1>1, <1>2 DEF AllSyncsOK

LEMMA GrownSame == \A f : Grown(f, f)
BY DEF Grown

-----------------------------------------------------------------------------
(* Writes.                                                                  *)

LEMMA UnsyncedFacts ==
    ASSUME NEW value \in Times, NEW deleted \in BOOLEAN, NEW time \in Times
    PROVE  /\ Unsynced(value, deleted, time) \in Row
           /\ Unsynced(value, deleted, time).remote = 0
           /\ Unsynced(value, deleted, time).value = value
           /\ Unsynced(value, deleted, time).deleted = deleted
           /\ Unsynced(value, deleted, time).time = time
<1>1. ASSUME NEW r \in Row
      PROVE  LET u == [r EXCEPT !.value = value, !.deleted = deleted, !.time = time]
             IN  u \in Row /\ u.remote = r.remote /\ u.value = value /\ u.deleted = deleted /\ u.time = time
  BY DEF Row
<1>2. NoRow \in Row /\ NoRow.remote = 0
  BY KVAssumption DEF NoRow, Row, Times, KVAssumption
<1> QED BY <1>1, <1>2 DEF Unsynced

LEMMA InsertFacts ==
    ASSUME latest \in [Keys -> Row], NEW k \in Keys, NEW row \in Row, Insert(k, row)
    PROVE  /\ latest' \in [Keys -> Row] /\ Grown(latest, latest')
           /\ \A j \in Keys \ {k} : latest'[j] = latest[j]
           /\ latest'[k] \in Row /\ latest'[k].version = latest[k].version + 1
           /\ latest'[k].remote = row.remote /\ latest'[k].value = row.value
           /\ latest'[k].deleted = row.deleted /\ latest'[k].time = row.time
<1> DEFINE new == [row EXCEPT !.version = latest[k].version + 1]
<1>1. /\ new \in Row /\ new.version = latest[k].version + 1 /\ new.remote = row.remote
      /\ new.value = row.value /\ new.deleted = row.deleted /\ new.time = row.time
  BY DEF Row
<1>2. latest' = [latest EXCEPT ![k] = new]
  BY DEF Insert
<1> HIDE DEF new
<1> QED BY <1>1, <1>2 DEF Grown

LEMMA SetRemoteVersionFacts ==
    ASSUME latest \in [Keys -> Row], clock \in Times, NEW k \in Keys, NEW version \in Nat, NEW remote \in Nat,
           SetRemoteVersion(k, version, remote)
    PROVE  /\ latest' \in [Keys -> Row] /\ Grown(latest, latest')
           /\ \A j \in Keys \ {k} : latest'[j] = latest[j]
           /\ \/ UNCHANGED latest
              \/ /\ latest[k].version = version /\ latest'[k] \in Row
                 /\ latest'[k].version = latest[k].version + 1
                 /\ latest'[k].remote = remote /\ latest'[k].value = latest[k].value
                 /\ latest'[k].deleted = latest[k].deleted
<1>1. CASE UNCHANGED latest
  BY <1>1, GrownSame
<1>2. CASE IsCurrent(k, version) /\ Insert(k, [latest[k] EXCEPT !.remote = remote, !.time = clock])
  <2> DEFINE row == [latest[k] EXCEPT !.remote = remote, !.time = clock]
  <2>1. row \in Row /\ row.remote = remote /\ row.value = latest[k].value /\ row.deleted = latest[k].deleted
    BY DEF Row
  <2>2. Insert(k, row)
    BY <1>2
  <2> HIDE DEF row
  <2> QED BY <1>2, <2>1, <2>2, InsertFacts DEF IsCurrent
<1> QED BY <1>1, <1>2 DEF SetRemoteVersion

\* Only one key's row or copy is written, and what it records still holds.
LEMMA KeysStay ==
    ASSUME Inv, latest' \in [Keys -> Row], server' \in [Keys -> Remote],
           NEW k \in Keys, KeyOK(latest'[k], server'[k]),
           \A j \in Keys \ {k} : latest'[j] = latest[j] /\ server'[j] = server[j]
    PROVE  AllKeysOK'
BY DEF Inv, AllKeysOK

LEMMA NewVersion ==
    ASSUME NEW row \in Row, NEW old \in Remote, NEW new \in Remote, KeyOK(row, old), new.version = old.version + 1
    PROVE  KeyOK(row, new)
BY DEF KeyOK, Row, Remote

LEMMA NewRow ==
    ASSUME NEW row \in Row, NEW remote \in Remote, row.remote = 0
    PROVE  KeyOK(row, remote)
BY DEF KeyOK, Row, Remote

\* The types, part by part.
StoreOK == /\ latest \in [Keys -> Row] /\ server \in [Keys -> Remote]
           /\ clock \in Times /\ faults \in Nat
FlagsOK == syncRunning \in BOOLEAN /\ tombstones \in BOOLEAN
EditOK  == edit \in [Editors -> [key : Keys \cup {NoKey}, version : Nat]]

LEMMA TypeParts == TypeOK <=> StoreOK /\ FlagsOK /\ EditOK /\ sync \in [Syncers -> SyncRec]
BY DEF TypeOK, StoreOK, FlagsOK, EditOK, SyncRec

LEMMA ReadVersionStep ==
    ASSUME Inv, NEW e \in Editors, NEW k \in Keys, ReadVersion(e, k)
    PROVE  Inv'
<1>1. StoreOK' /\ FlagsOK' /\ sync' \in [Syncers -> SyncRec] /\ AllKeysOK' /\ AllSyncsOK'
  BY TypeParts DEF Inv, ReadVersion, StoreOK, FlagsOK, AllKeysOK, AllSyncsOK
<1>2. EditOK'
  <2>1. latest[k].version \in Nat
    BY TypeParts DEF Inv, StoreOK, Row
  <2> QED BY <2>1, TypeParts DEF Inv, ReadVersion, EditOK
<1> QED BY <1>1, <1>2, TypeParts DEF Inv, TypeOK, StoreOK, FlagsOK, EditOK, SyncRec

LEMMA WriteStep ==
    ASSUME Inv, NEW e \in Editors, Write(e)
    PROVE  Inv'
<1> DEFINE k == edit[e].key
<1>0. StoreOK /\ FlagsOK /\ EditOK /\ k \in Keys /\ latest[k] \in Row /\ MaxTime \in Nat
  BY TypeParts, KVAssumption DEF Inv, EditOK, StoreOK, Write, KVAssumption
<1>1. EditOK'
  BY <1>0 DEF Write, EditOK
<1>2. UNCHANGED <<server, syncRunning, sync, faults, tombstones>>
  BY DEF Write
<1>3. CASE UNCHANGED <<latest, clock>>
  BY <1>0, <1>1, <1>2, <1>3, TypeParts DEF Inv, TypeOK, StoreOK, FlagsOK, EditOK, SyncRec, AllKeysOK, AllSyncsOK
<1>4. ASSUME clock' = clock + 1, clock < MaxTime, NEW value \in Times, NEW deleted \in BOOLEAN,
             Insert(k, Unsynced(value, deleted, clock'))
      PROVE  Inv'
  <2>1. clock' \in Times
    BY <1>0, <1>4 DEF StoreOK, Times
  <2> DEFINE row == Unsynced(value, deleted, clock')
  <2>2. row \in Row /\ row.remote = 0
    BY <1>4, <2>1, UnsyncedFacts
  <2>3. Insert(k, row)
    BY <1>4
  <2> HIDE DEF row, k
  <2>4. /\ latest' \in [Keys -> Row] /\ Grown(latest, latest')
        /\ \A j \in Keys \ {k} : latest'[j] = latest[j]
        /\ latest'[k] \in Row /\ latest'[k].remote = 0
    BY <1>0, <2>2, <2>3, InsertFacts DEF StoreOK
  <2>5. server' \in [Keys -> Remote] /\ server'[k] \in Remote /\ server' = server
    BY <1>0, <1>2 DEF StoreOK
  <2>6. AllKeysOK'
    BY <1>0, <2>4, <2>5, NewRow, KeysStay
  <2>7. sync' \in [Syncers -> SyncRec] /\ AllSyncsOK'
    BY <1>2, <2>4, <2>5, GrownSame, SyncsWait
  <2>8. StoreOK' /\ FlagsOK'
    BY <1>0, <1>2, <2>1, <2>4, <2>5 DEF StoreOK, FlagsOK
  <2> QED BY <1>1, <2>6, <2>7, <2>8 DEF Inv, TypeOK, StoreOK, FlagsOK, EditOK, SyncRec
<1>5. \/ UNCHANGED <<latest, clock>>
      \/ /\ clock' = clock + 1 /\ clock < MaxTime
         /\ \/ Insert(k, Unsynced(clock', FALSE, clock'))
            \/ Insert(k, Unsynced(latest[k].value, TRUE, clock'))
  BY DEF Write
<1>6. clock < MaxTime => clock + 1 \in Times
  BY <1>0 DEF StoreOK, Times
<1>7. latest[k].value \in Times
  BY <1>0 DEF Row
<1> QED BY <1>3, <1>4, <1>5, <1>6, <1>7

LEMMA DeletedFacts ==
    ASSUME NEW r \in Remote
    PROVE  LET d == [r EXCEPT !.version = r.version + 1, !.deleted = TRUE]
           IN  d \in Remote /\ d.version = r.version + 1 /\ d.value = r.value /\ d.deleted = TRUE
<1>1. r.version + 1 \in Nat
  BY DEF Remote
<1> QED BY <1>1 DEF Remote

LEMMA OtherDeviceStep ==
    ASSUME Inv, NEW k \in Keys, OtherDevice(k)
    PROVE  Inv'
<1>0. StoreOK /\ FlagsOK /\ EditOK /\ server[k] \in Remote /\ latest[k] \in Row /\ MaxTime \in Nat
  BY TypeParts, KVAssumption DEF Inv, StoreOK, KVAssumption
<1>1. UNCHANGED <<latest, syncRunning, sync, edit, faults, tombstones>>
  BY DEF OtherDevice
<1>2. clock' \in Times
  BY <1>0 DEF OtherDevice, StoreOK, Times
<1>3. PICK new \in Remote : new.version = server[k].version + 1 /\ server' = [server EXCEPT ![k] = new]
  <2> DEFINE put == [version |-> server[k].version + 1, value |-> clock', time |-> clock', deleted |-> FALSE]
             del == [server[k] EXCEPT !.version = server[k].version + 1, !.deleted = TRUE]
  <2>1. put \in Remote /\ put.version = server[k].version + 1
    BY <1>0, <1>2 DEF Remote
  <2>2. del \in Remote /\ del.version = server[k].version + 1
    BY <1>0, DeletedFacts
  <2>3. server' = [server EXCEPT ![k] = put] \/ server' = [server EXCEPT ![k] = del]
    BY <1>0 DEF OtherDevice, StoreOK
  <2> HIDE DEF put, del
  <2> QED BY <2>1, <2>2, <2>3
<1>4. /\ server' \in [Keys -> Remote] /\ Grown(server, server') /\ server'[k] = new
      /\ \A j \in Keys \ {k} : server'[j] = server[j]
  BY <1>0, <1>3 DEF StoreOK, Grown
<1>5. latest' \in [Keys -> Row] /\ Grown(latest, latest')
  BY <1>0, <1>1, GrownSame DEF StoreOK
<1>6. AllKeysOK'
  <2>1. KeyOK(latest[k], new)
    BY <1>0, <1>3, NewVersion DEF Inv, AllKeysOK
  <2> QED BY <1>1, <1>4, <1>5, <2>1, KeysStay
<1>7. sync' \in [Syncers -> SyncRec] /\ AllSyncsOK'
  BY <1>1, <1>4, <1>5, SyncsWait
<1> QED BY <1>0, <1>1, <1>2, <1>4, <1>6, <1>7 DEF Inv, TypeOK, StoreOK, FlagsOK, EditOK, SyncRec

-----------------------------------------------------------------------------
(* The steps of a thread in syncAllKeys.                                    *)

\* A thread's step that writes neither the database nor the server.
LEMMA LocalStep ==
    ASSUME Inv, NEW s \in Syncers, UNCHANGED <<latest, server, clock, edit, tombstones>>,
           syncRunning' \in BOOLEAN, faults' \in Nat,
           NEW r \in SyncRec, sync' = [sync EXCEPT ![s] = r], SyncOK(r, latest, server)
    PROVE  Inv'
<1>0. StoreOK /\ FlagsOK /\ EditOK /\ AllKeysOK
  BY TypeParts DEF Inv
<1>1. latest' \in [Keys -> Row] /\ Grown(latest, latest') /\ server' \in [Keys -> Remote] /\ Grown(server, server')
  BY <1>0, GrownSame DEF StoreOK
<1>2. sync' \in [Syncers -> SyncRec] /\ AllSyncsOK'
  BY <1>1, SyncMoves
<1> QED BY <1>0, <1>2 DEF Inv, TypeOK, StoreOK, FlagsOK, EditOK, SyncRec, AllKeysOK

\* The thread's place changes, to one that has no key.
LEMMA PlaceStep ==
    ASSUME Inv, NEW s \in Syncers, UNCHANGED <<latest, server, clock, edit, tombstones>>,
           syncRunning' \in BOOLEAN, faults' \in Nat,
           NEW pc \in Places \ Busy, Go(s, pc)
    PROVE  Inv'
<1> DEFINE r == [sync[s] EXCEPT !.pc = pc]
<1>1. sync[s] \in SyncRec /\ SyncOK(sync[s], latest, server)
  BY TypeParts DEF Inv, AllSyncsOK
<1>2. r \in SyncRec /\ r.pc = pc /\ r.listed = sync[s].listed
  BY <1>1 DEF SyncRec
<1>3. sync' = [sync EXCEPT ![s] = r]
  BY DEF Go
<1> HIDE DEF r
<1>4. SyncOK(r, latest, server)
  BY <1>1, <1>2 DEF SyncOK, JobOK, Busy
<1> QED BY <1>2, <1>3, <1>4, LocalStep

LEMMA LeaveStep ==
    ASSUME Inv, NEW s \in Syncers, UNCHANGED <<latest, server, clock, edit, faults, tombstones>>, Leave(s)
    PROVE  Inv'
<1>1. SyncOK(Idle, latest, server)
  BY IdleType, UnlistedOK, TypeParts DEF Inv, StoreOK, SyncOK, JobOK, Busy
<1> QED BY <1>1, IdleType, LocalStep, TypeParts DEF Inv, Leave, StoreOK

LEMMA ListingStep ==
    ASSUME Inv, NEW s \in Syncers, SyncList(s) \/ SyncLocals(s)
    PROVE  Inv'
<1>0. /\ StoreOK /\ FlagsOK /\ sync[s] \in SyncRec /\ SyncOK(sync[s], latest, server)
      /\ UNCHANGED <<latest, server, clock, syncRunning, edit, faults, tombstones>>
  BY TypeParts DEF Inv, AllSyncsOK, SyncList, SyncLocals
<1>1. CASE SyncList(s)
  <2> DEFINE listed == [k \in Keys |-> [version |-> server[k].version, time |-> server[k].time,
                                        tombstone |-> tombstones /\ server[k].deleted]]
             r == [sync[s] EXCEPT !.pc = "locals", !.todo = {k \in Keys : server[k].version > 0}, !.listed = listed]
  <2>1. ASSUME NEW k \in Keys PROVE listed[k] \in Listing /\ ListedOK(listed[k], server[k])
    <3>1. server[k] \in Remote
      BY <1>0 DEF StoreOK
    <3> QED BY <1>0, <3>1 DEF Remote, Listing, ListedOK, FlagsOK
  <2>2. listed \in [Keys -> Listing]
    BY <2>1
  <2> HIDE DEF listed
  <2>3. r \in SyncRec /\ r.pc = "locals" /\ r.listed = listed
    BY <1>0, <2>2 DEF SyncRec, Places
  <2>4. sync' = [sync EXCEPT ![s] = r]
    BY <1>1 DEF SyncList, listed
  <2> HIDE DEF r
  <2>5. SyncOK(r, latest, server)
    BY <2>1, <2>3 DEF SyncOK, JobOK, Busy
  <2> QED BY <1>0, <2>3, <2>4, <2>5, LocalStep DEF FlagsOK, StoreOK
<1>2. CASE SyncLocals(s)
  <2> DEFINE r == [sync[s] EXCEPT !.pc = "keys", !.todo = sync[s].todo \cup {k \in Keys : latest[k].version > 0}]
  <2>1. r \in SyncRec /\ r.pc = "keys" /\ r.listed = sync[s].listed
    BY <1>0 DEF SyncRec, Places
  <2>2. sync' = [sync EXCEPT ![s] = r]
    BY <1>2 DEF SyncLocals
  <2> HIDE DEF r
  <2>3. SyncOK(r, latest, server)
    BY <1>0, <2>1 DEF SyncOK, JobOK, Busy
  <2> QED BY <1>0, <2>1, <2>2, <2>3, LocalStep DEF FlagsOK, StoreOK
<1> QED BY <1>1, <1>2

LEMMA KeyBeginStep ==
    ASSUME Inv, NEW s \in Syncers, NEW k \in Keys, KeyBegin(s, k)
    PROVE  Inv'
<1>0. /\ StoreOK /\ FlagsOK /\ sync[s] \in SyncRec /\ SyncOK(sync[s], latest, server) /\ latest[k] \in Row
      /\ UNCHANGED <<latest, server, clock, syncRunning, edit, faults, tombstones>> /\ sync[s].pc = "keys"
  BY TypeParts DEF Inv, AllSyncsOK, KeyBegin, StoreOK, At
<1> DEFINE next == [sync[s] EXCEPT !.todo = @ \ {k}]
           read == [next EXCEPT !.pc = "read", !.key = k, !.recorded = latest[k].remote]
<1>1. next \in SyncRec /\ next.pc = "keys" /\ next.listed = sync[s].listed
  BY <1>0 DEF SyncRec
<1>2. sync' = [sync EXCEPT ![s] = next] \/ sync' = [sync EXCEPT ![s] = read]
  BY DEF KeyBegin
<1> HIDE DEF next
<1>3. read \in SyncRec /\ read.pc = "read" /\ read.listed = sync[s].listed /\ read.key = k
  BY <1>0, <1>1 DEF SyncRec, Places, Row
<1> HIDE DEF read
<1>4. SyncOK(next, latest, server)
  BY <1>0, <1>1 DEF SyncOK, JobOK, Busy
<1>5. SyncOK(read, latest, server)
  BY <1>0, <1>3 DEF SyncOK, JobOK, Busy, ServedOK, FromOK
<1> QED BY <1>0, <1>1, <1>2, <1>3, <1>4, <1>5, LocalStep DEF FlagsOK, StoreOK

LEMMA KeyReadStep ==
    ASSUME Inv, NEW s \in Syncers, KeyRead(s)
    PROVE  Inv'
<1> DEFINE k     == sync[s].key
           local == latest[k]
           there == sync[s].listed[k]
           older == local.time < there.time
           op    == IF there.tombstone /\ local.deleted THEN "keep"
                    ELSE IF older /\ there.tombstone    THEN "erase"
                    ELSE IF older                       THEN "get"
                    ELSE IF local.deleted               THEN "del" ELSE "put"
           at    == IF op = "keep"     THEN local.remote
                    ELSE IF op = "put" THEN PutAt(there.version, sync[s].recorded)
                                       ELSE there.version
           job   == [op |-> op, at |-> at, from |-> local.version, value |-> local.value,
                     deleted |-> local.deleted]
           pc    == IF op \in {"keep", "erase"} THEN "local" ELSE "request"
           r     == [sync[s] EXCEPT !.pc = pc, !.recorded = 0, !.job = job]
<1>0. /\ StoreOK /\ FlagsOK /\ sync[s] \in SyncRec /\ SyncOK(sync[s], latest, server) /\ AllKeysOK
      /\ UNCHANGED <<latest, server, clock, syncRunning, edit, faults, tombstones>> /\ sync[s].pc = "read"
  BY TypeParts DEF Inv, AllSyncsOK, KeyRead, At
<1>1. k \in Keys
  BY <1>0 DEF SyncOK, Busy
<1>2. local \in Row /\ there \in Listing /\ sync[s].recorded \in Nat /\ server[k] \in Remote
  BY <1>0, <1>1 DEF StoreOK, SyncRec
<1>3. sync' = [sync EXCEPT ![s] = r]
  BY DEF KeyRead
<1>4. ListedOK(there, server[k]) /\ KeyOK(local, server[k])
  BY <1>0, <1>1 DEF SyncOK, AllKeysOK
<1> HIDE DEF k, local, there
<1>5. op \in Ops /\ at \in Nat
  BY <1>2 DEF Ops, Row, Listing, PutAt
<1>6. op = "keep" => there.tombstone /\ local.deleted /\ at = local.remote
  BY DEF older
<1>7. /\ op = "erase" => older /\ there.tombstone /\ at = there.version
      /\ op = "get" => older
      /\ op = "del" => local.deleted
      /\ op = "put" => ~local.deleted
  BY <1>2 DEF Row, Listing
<1> HIDE DEF op, at
<1>8. /\ job \in Job /\ job.op = op /\ job.at = at /\ job.from = local.version
      /\ job.value = local.value /\ job.deleted = local.deleted
  BY <1>2, <1>5 DEF Job, Row
<1> HIDE DEF job
<1>9. pc \in {"local", "request"} /\ (pc = "local" <=> op \in {"keep", "erase"})
  OBVIOUS
<1> HIDE DEF pc
<1>10. r \in SyncRec /\ r.pc = pc /\ r.job = job /\ r.listed = sync[s].listed /\ r.key = sync[s].key
  BY <1>0, <1>8, <1>9 DEF SyncRec, Places
<1> HIDE DEF r
<1>11. JobOK(r)
  BY <1>5, <1>8, <1>9, <1>10 DEF JobOK, Ops
<1>12. ServedOK(r, server[k])
  BY <1>2, <1>4, <1>6, <1>7, <1>8, <1>9, <1>10 DEF ServedOK, ListedOK, KeyOK, Row, Remote, Listing
<1>13. FromOK(r, latest[k])
  BY <1>2, <1>6, <1>7, <1>8, <1>9, <1>10 DEF FromOK, Row, k, local, there
<1>14. SyncOK(r, latest, server)
  BY <1>0, <1>1, <1>10, <1>11, <1>12, <1>13 DEF SyncOK, Busy, k
<1> QED BY <1>0, <1>3, <1>10, <1>14, LocalStep DEF FlagsOK, StoreOK

\* A key is done with: its listing is dropped, and the thread has no key.
LEMMA KeyDoneFacts ==
    ASSUME Inv, NEW s \in Syncers, sync[s].pc \in Busy, KeyDone(s)
    PROVE  \E r \in SyncRec : sync' = [sync EXCEPT ![s] = r] /\ SyncOK(r, latest, server)
<1> DEFINE k == sync[s].key
           listed == [sync[s].listed EXCEPT ![k] = Unlisted]
           r == [sync[s] EXCEPT !.pc = "keys", !.listed = listed, !.key = NoKey, !.job = NoJob]
<1>0. /\ StoreOK /\ sync[s] \in SyncRec /\ SyncOK(sync[s], latest, server) /\ k \in Keys
  BY TypeParts DEF Inv, AllSyncsOK, SyncOK
<1>1. Unlisted \in Listing /\ NoJob \in Job
  BY KVAssumption DEF Unlisted, Listing, NoJob, Job, Ops, Times, KVAssumption
<1>2. sync' = [sync EXCEPT ![s] = r]
  BY <1>0 DEF KeyDone, SyncRec
<1>3. listed \in [Keys -> Listing] /\ \A j \in Keys : listed[j] \in {Unlisted, sync[s].listed[j]}
  BY <1>0, <1>1 DEF SyncRec
<1> HIDE DEF listed
<1>4. r \in SyncRec /\ r.pc = "keys" /\ r.listed = listed
  BY <1>0, <1>1, <1>3 DEF SyncRec, Places
<1> HIDE DEF r
<1>5. ASSUME NEW j \in Keys PROVE ListedOK(r.listed[j], server[j])
  <2>1. server[j] \in Remote /\ ListedOK(sync[s].listed[j], server[j])
    BY <1>0 DEF StoreOK, SyncOK
  <2> QED BY <2>1, <1>3, <1>4, UnlistedOK
<1>6. SyncOK(r, latest, server)
  BY <1>4, <1>5 DEF SyncOK, JobOK, Busy
<1> QED BY <1>2, <1>4, <1>6

\* The last step of a key.
LEMMA FinishStep ==
    ASSUME Inv, NEW s \in Syncers, sync[s].pc \in Busy, KeyDone(s),
           latest' \in [Keys -> Row], Grown(latest, latest'), server' \in [Keys -> Remote], Grown(server, server'),
           AllKeysOK', UNCHANGED <<clock, syncRunning, edit, tombstones>>, faults' \in Nat
    PROVE  Inv'
<1>0. StoreOK /\ FlagsOK /\ EditOK
  BY TypeParts DEF Inv
<1>1. PICK r \in SyncRec : sync' = [sync EXCEPT ![s] = r] /\ SyncOK(r, latest, server)
  BY KeyDoneFacts
<1>2. SyncOK(r, latest', server')
  BY <1>0, <1>1, SyncStays DEF StoreOK
<1>3. sync' \in [Syncers -> SyncRec] /\ AllSyncsOK'
  BY <1>1, <1>2, SyncMoves
<1> QED BY <1>0, <1>3 DEF Inv, TypeOK, StoreOK, FlagsOK, EditOK, SyncRec

\* What the server does with a request it accepts.
LEMMA ServedFacts ==
    ASSUME Inv, NEW s \in Syncers, sync[s].pc = "request", Accepts(sync[s].key, sync[s].job),
           server' = [server EXCEPT ![sync[s].key] = Served(sync[s].key, sync[s].job)]
    PROVE  LET k == sync[s].key  job == sync[s].job IN
           /\ server' \in [Keys -> Remote] /\ Grown(server, server') /\ server'[k] \in Remote
           /\ \A j \in Keys \ {k} : server'[j] = server[j]
           /\ KeyOK(latest[k], server'[k])
           /\ job.op \in {"put", "get"} => ~server'[k].deleted
           /\ job.op = "put" => server'[k].value = job.value
           /\ job.op = "del" => server'[k].deleted
<1> DEFINE k == sync[s].key
           job == sync[s].job
           old == server[k]
           new == Served(k, job)
<1>0. /\ StoreOK /\ sync[s] \in SyncRec /\ SyncOK(sync[s], latest, server) /\ k \in Keys /\ AllKeysOK
      /\ job \in Job /\ old \in Remote /\ latest[k] \in Row /\ clock \in Times
  BY TypeParts DEF Inv, AllSyncsOK, SyncOK, Busy, StoreOK, SyncRec
<1>1. job.op \in {"put", "del", "get"}
  BY <1>0 DEF SyncOK, JobOK
<1>2. KeyOK(latest[k], old)
  BY <1>0 DEF AllKeysOK
<1>3. /\ new \in Remote
      /\ new = old \/ new.version = old.version + 1
      /\ job.op \in {"put", "get"} => ~new.deleted
      /\ job.op = "put" => new.value = job.value
      /\ job.op = "del" => new.deleted
  <2>1. CASE job.op = "put"
    <3>1. new = [version |-> old.version + 1, value |-> job.value, time |-> clock, deleted |-> FALSE]
      BY <2>1 DEF Served
    <3> HIDE DEF new
    <3> QED BY <1>0, <2>1, <3>1 DEF Remote, Job
  <2>2. CASE job.op = "del"
    <3>1. new = [old EXCEPT !.version = old.version + 1, !.deleted = TRUE]
      BY <2>2 DEF Served
    <3> HIDE DEF new
    <3> QED BY <1>0, <2>2, <3>1, DeletedFacts
  <2>3. CASE job.op = "get"
    <3>1. new = old /\ ~old.deleted
      BY <2>3 DEF Served, Accepts
    <3> HIDE DEF new
    <3> QED BY <1>0, <2>3, <3>1
  <2> QED BY <1>1, <2>1, <2>2, <2>3
<1>4. server' = [server EXCEPT ![k] = new]
  OBVIOUS
<1> HIDE DEF new
<1>5. /\ server' \in [Keys -> Remote] /\ Grown(server, server') /\ server'[k] = new
      /\ \A j \in Keys \ {k} : server'[j] = server[j]
  BY <1>0, <1>3, <1>4 DEF StoreOK, Grown
<1>6. KeyOK(latest[k], new)
  BY <1>0, <1>2, <1>3, NewVersion
<1> QED BY <1>3, <1>5, <1>6

LEMMA RequestStep ==
    ASSUME Inv, NEW s \in Syncers, Request(s)
    PROVE  Inv'
<1> DEFINE k == sync[s].key
           job == sync[s].job
<1>0. /\ StoreOK /\ FlagsOK /\ EditOK /\ sync[s] \in SyncRec /\ SyncOK(sync[s], latest, server) /\ k \in Keys
      /\ AllKeysOK /\ UNCHANGED <<latest, clock, syncRunning, edit, faults, tombstones>>
      /\ sync[s].pc = "request" /\ job \in Job /\ latest[k] \in Row
  BY TypeParts DEF Inv, AllSyncsOK, SyncOK, Busy, Request, At, SyncRec, StoreOK
<1>1. latest' \in [Keys -> Row] /\ Grown(latest, latest')
  BY <1>0, GrownSame DEF StoreOK
<1>2. CASE Accepts(k, job)
  <2>1. server' = [server EXCEPT ![k] = Served(k, job)]
    BY <1>2 DEF Request
  <2>2. /\ server' \in [Keys -> Remote] /\ Grown(server, server') /\ server'[k] \in Remote
        /\ \A j \in Keys \ {k} : server'[j] = server[j]
        /\ KeyOK(latest[k], server'[k])
        /\ job.op \in {"put", "get"} => ~server'[k].deleted
        /\ job.op = "put" => server'[k].value = job.value
        /\ job.op = "del" => server'[k].deleted
    BY <1>0, <1>2, <2>1, ServedFacts
  <2> DEFINE job2 == [job EXCEPT !.at = server'[k].version, !.value = server'[k].value]
             r    == [sync[s] EXCEPT !.pc = "local", !.job = job2]
  <2>3. sync' = [sync EXCEPT ![s] = r]
    BY <1>0, <1>2 DEF Request, SyncRec, Job
  <2>4. /\ job2 \in Job /\ job2.op = job.op /\ job2.at = server'[k].version /\ job2.from = job.from
        /\ job2.value = server'[k].value
    BY <1>0, <2>2 DEF Job, Remote
  <2> HIDE DEF job2
  <2>5. r \in SyncRec /\ r.pc = "local" /\ r.listed = sync[s].listed /\ r.key = k /\ r.job = job2
    BY <1>0, <2>4 DEF SyncRec, Places
  <2> HIDE DEF r, job, k
  <2>6. JobOK(r)
    BY <2>5 DEF JobOK
  <2>7. ServedOK(r, server'[k])
    <3>1. job.op \in {"put", "del", "get"}
      BY <1>0 DEF SyncOK, JobOK, job
    <3>2. r.job.at = server'[k].version /\ r.job.value = server'[k].value /\ r.job.op = job.op
      BY <2>4, <2>5
    <3> QED BY <2>2, <3>1, <3>2 DEF ServedOK, Remote
  <2>8. FromOK(r, latest'[k])
    <3>1. FromOK(sync[s], latest[k])
      BY <1>0 DEF SyncOK, Busy, k
    <3>2. /\ r.pc = "local" /\ sync[s].pc = "request" /\ r.job.op = job.op /\ r.job.from = job.from
          /\ r.listed[r.key] = sync[s].listed[k] /\ latest'[k] = latest[k]
          /\ job.op \in {"put", "del", "get"}
      BY <1>0, <2>4, <2>5 DEF SyncOK, JobOK, job
    <3>3. job.op = "put" /\ job.from = latest[k].version => r.job.value = latest[k].value
      BY <2>2, <2>4, <2>5, <3>1, <3>2 DEF FromOK, job
    <3> QED BY <3>1, <3>2, <3>3 DEF FromOK, k, job
  <2>9. \A j \in Keys : ListedOK(r.listed[j], server'[j])
    <3>1. SyncOK(sync[s], latest', server')
      BY <1>0, <1>1, <2>2, SyncStays DEF StoreOK
    <3> QED BY <2>5, <3>1 DEF SyncOK
  <2>10. SyncOK(r, latest', server')
    BY <1>0, <2>5, <2>6, <2>7, <2>8, <2>9 DEF SyncOK
  <2>11. sync' \in [Syncers -> SyncRec] /\ AllSyncsOK'
    BY <1>1, <2>2, <2>3, <2>5, <2>10, SyncMoves
  <2>12. AllKeysOK'
    BY <1>0, <1>1, <2>2, KeysStay
  <2> QED BY <1>0, <2>2, <2>11, <2>12 DEF Inv, TypeOK, StoreOK, FlagsOK, EditOK, SyncRec
<1>3. CASE ~Accepts(k, job)
  <2>1. KeyDone(s) /\ server' = server
    BY <1>3 DEF Request
  <2>2. server' \in [Keys -> Remote] /\ Grown(server, server') /\ AllKeysOK'
    BY <1>0, <2>1, GrownSame DEF StoreOK, AllKeysOK
  <2> QED BY <1>0, <1>1, <2>1, <2>2, FinishStep DEF Busy, StoreOK
<1> QED BY <1>2, <1>3

LEMMA RequestLostStep ==
    ASSUME Inv, NEW s \in Syncers, RequestLost(s)
    PROVE  Inv'
<1> DEFINE k == sync[s].key
           job == sync[s].job
<1>0. /\ StoreOK /\ SyncOK(sync[s], latest, server) /\ k \in Keys /\ AllKeysOK
      /\ UNCHANGED <<latest, clock, syncRunning, edit, tombstones>> /\ KeyDone(s) /\ faults' \in Nat
      /\ sync[s].pc = "request"
  BY TypeParts DEF Inv, AllSyncsOK, SyncOK, Busy, RequestLost, At, StoreOK, Fault
<1>1. latest' \in [Keys -> Row] /\ Grown(latest, latest')
  BY <1>0, GrownSame DEF StoreOK
<1>2. CASE UNCHANGED server
  <2>1. server' \in [Keys -> Remote] /\ Grown(server, server') /\ AllKeysOK'
    BY <1>0, <1>2, GrownSame DEF StoreOK, AllKeysOK
  <2> QED BY <1>0, <1>1, <2>1, FinishStep DEF Busy
<1>3. CASE Accepts(k, job) /\ server' = [server EXCEPT ![k] = Served(k, job)]
  <2>1. /\ server' \in [Keys -> Remote] /\ Grown(server, server')
        /\ \A j \in Keys \ {k} : server'[j] = server[j]
        /\ KeyOK(latest[k], server'[k])
    BY <1>0, <1>3, ServedFacts
  <2>2. AllKeysOK'
    BY <1>0, <1>1, <2>1, KeysStay
  <2> QED BY <1>0, <1>1, <2>1, <2>2, FinishStep DEF Busy
<1> QED BY <1>2, <1>3 DEF RequestLost

\* The server's version is put beside the latest row.
LEMMA RecordedOK ==
    ASSUME Inv, NEW k \in Keys, NEW version \in Nat, NEW remote \in Nat, SetRemoteVersion(k, version, remote),
           UNCHANGED server,
           latest[k].version = version =>
               \A row \in Row : row.remote = remote /\ row.value = latest[k].value /\ row.deleted = latest[k].deleted
                                    => KeyOK(row, server[k])
    PROVE  /\ latest' \in [Keys -> Row] /\ Grown(latest, latest')
           /\ server' \in [Keys -> Remote] /\ Grown(server, server') /\ AllKeysOK'
<1>0. StoreOK /\ AllKeysOK
  BY TypeParts DEF Inv
<1>1. /\ latest' \in [Keys -> Row] /\ Grown(latest, latest')
      /\ \A j \in Keys \ {k} : latest'[j] = latest[j]
      /\ \/ UNCHANGED latest
         \/ /\ latest[k].version = version /\ latest'[k] \in Row
            /\ latest'[k].remote = remote /\ latest'[k].value = latest[k].value
            /\ latest'[k].deleted = latest[k].deleted
  BY <1>0, SetRemoteVersionFacts DEF StoreOK
<1>2. server' \in [Keys -> Remote] /\ Grown(server, server')
  BY <1>0, GrownSame DEF StoreOK
<1>3. KeyOK(latest'[k], server'[k])
  BY <1>0, <1>1 DEF AllKeysOK
<1> QED BY <1>1, <1>2, <1>3, KeysStay

LEMMA KeyRecordStep ==
    ASSUME Inv, NEW s \in Syncers, KeyRecord(s)
    PROVE  Inv'
<1> DEFINE k == sync[s].key
           job == sync[s].job
<1>0. /\ StoreOK /\ SyncOK(sync[s], latest, server) /\ k \in Keys /\ job \in Job
      /\ server[k] \in Remote /\ sync[s].pc = "record" /\ SetRemoteVersion(k, job.from, job.at)
      /\ UNCHANGED <<server, clock, syncRunning, edit, faults, tombstones>> /\ KeyDone(s)
  BY TypeParts DEF Inv, AllSyncsOK, SyncOK, Busy, KeyRecord, At, StoreOK, SyncRec
<1>1. job.from \in Nat /\ job.at \in Nat
  BY <1>0 DEF Job
<1>2. ASSUME latest[k].version = job.from, NEW row \in Row,
             row.remote = job.at, row.value = latest[k].value, row.deleted = latest[k].deleted
      PROVE  KeyOK(row, server[k])
  BY <1>0, <1>2 DEF SyncOK, Busy, JobOK, ServedOK, FromOK, KeyOK, Remote
<1>3. /\ latest' \in [Keys -> Row] /\ Grown(latest, latest')
      /\ server' \in [Keys -> Remote] /\ Grown(server, server') /\ AllKeysOK'
  BY <1>0, <1>1, <1>2, RecordedOK
<1> QED BY <1>0, <1>3, FinishStep DEF Busy, StoreOK

LEMMA KeyLocalStep ==
    ASSUME Inv, NEW s \in Syncers, KeyLocal(s)
    PROVE  Inv'
<1> DEFINE k == sync[s].key
           job == sync[s].job
<1>0. /\ StoreOK /\ FlagsOK /\ EditOK /\ SyncOK(sync[s], latest, server) /\ k \in Keys /\ job \in Job
      /\ AllKeysOK /\ sync[s] \in SyncRec /\ latest[k] \in Row /\ server[k] \in Remote /\ sync[s].pc = "local"
      /\ UNCHANGED <<server, clock, syncRunning, edit, faults, tombstones>>
  BY TypeParts DEF Inv, AllSyncsOK, SyncOK, Busy, KeyLocal, At, StoreOK, SyncRec
<1>1. job.from \in Nat /\ job.at \in Nat /\ job.value \in Times /\ job.deleted \in BOOLEAN
      /\ job.op \in {"put", "del", "get", "keep", "erase"}
  BY <1>0 DEF Job, Ops
<1>2. server' \in [Keys -> Remote] /\ Grown(server, server')
  BY <1>0, GrownSame DEF StoreOK
<1>3. CASE job.op \in {"put", "del", "keep"}
  <2>1. SetRemoteVersion(k, job.from, job.at) /\ KeyDone(s)
    BY <1>3 DEF KeyLocal
  <2>2. ASSUME latest[k].version = job.from, NEW row \in Row,
               row.remote = job.at, row.value = latest[k].value, row.deleted = latest[k].deleted
        PROVE  KeyOK(row, server[k])
    <3>1. KeyOK(latest[k], server[k]) /\ ServedOK(sync[s], server[k]) /\ FromOK(sync[s], latest[k])
      BY <1>0 DEF SyncOK, Busy, AllKeysOK
    <3>2. CASE job.op = "keep"
      BY <1>0, <2>2, <3>1, <3>2 DEF FromOK, KeyOK
    <3>3. CASE job.op = "put"
      BY <1>0, <2>2, <3>1, <3>3 DEF ServedOK, FromOK, KeyOK
    <3>4. CASE job.op = "del"
      BY <1>0, <2>2, <3>1, <3>4 DEF ServedOK, FromOK, KeyOK
    <3> QED BY <1>3, <3>2, <3>3, <3>4
  <2>3. latest' \in [Keys -> Row] /\ Grown(latest, latest') /\ AllKeysOK'
    BY <1>0, <1>1, <2>1, <2>2, RecordedOK
  <2> QED BY <1>0, <1>2, <2>1, <2>3, FinishStep DEF Busy, StoreOK
<1>4. CASE job.op \in {"get", "erase"} /\ IsCurrent(k, job.from) /\ (job.op = "erase" => job.from > 0)
  <2> DEFINE gone == job.deleted \/ job.op = "erase"
             row == Unsynced(job.value, gone, clock)
             job2 == [job EXCEPT !.from = job.from + 1]
             r == [sync[s] EXCEPT !.pc = "record", !.job = job2]
  <2>1. Insert(k, row) /\ sync' = [sync EXCEPT ![s].pc = "record", ![s].job.from = @ + 1]
    BY <1>4 DEF KeyLocal
  <2>2. sync' = [sync EXCEPT ![s] = r]
    BY <1>0, <2>1, TypeParts DEF Inv, SyncRec, Job
  <2>3. /\ row \in Row /\ row.remote = 0 /\ row.value = job.value
        /\ row.deleted = gone
    <3>1. gone \in BOOLEAN /\ clock \in Times
      BY <1>0 DEF StoreOK
    <3> HIDE DEF gone
    <3> QED BY <1>1, <3>1, UnsyncedFacts
  <2> HIDE DEF row
  <2>4. /\ latest' \in [Keys -> Row] /\ Grown(latest, latest')
        /\ \A j \in Keys \ {k} : latest'[j] = latest[j]
        /\ latest'[k] \in Row /\ latest'[k].version = latest[k].version + 1
        /\ latest'[k].remote = 0 /\ latest'[k].value = row.value /\ latest'[k].deleted = row.deleted
    BY <1>0, <2>1, <2>3, InsertFacts DEF StoreOK
  <2>5. job2 \in Job /\ job2.op = job.op /\ job2.at = job.at /\ job2.value = job.value /\ job2.from = job.from + 1
    BY <1>0, <1>1 DEF Job
  <2> HIDE DEF job2
  <2>6. r \in SyncRec /\ r.pc = "record" /\ r.listed = sync[s].listed /\ r.key = k /\ r.job = job2
    BY <1>0, <2>5 DEF SyncRec, Places
  <2> HIDE DEF r
  <2>7. AllKeysOK'
    <3>1. KeyOK(latest'[k], server'[k])
      BY <1>0, <2>4, NewRow
    <3> QED BY <1>0, <1>2, <2>4, <3>1, KeysStay
  <2>8. SyncOK(r, latest', server')
    <3>1. ServedOK(r, server[k])
      BY <1>0, <2>5, <2>6 DEF SyncOK, Busy, ServedOK
    <3>2. FromOK(r, latest'[k])
      <4>1. latest'[k].value = r.job.value /\ r.job.from = latest'[k].version /\ latest'[k].version \in Nat
        BY <1>0, <1>4, <2>3, <2>4, <2>5, <2>6 DEF IsCurrent, Row
      <4>2. r.job.op = "erase" => latest'[k].deleted
        <5>1. latest'[k].deleted = gone /\ r.job.op = job.op
          BY <2>3, <2>4, <2>5, <2>6
        <5> QED BY <5>1
      <4> QED BY <2>6, <4>1, <4>2 DEF FromOK
    <3> QED BY <1>0, <1>4, <2>5, <2>6, <3>1, <3>2 DEF SyncOK, JobOK
  <2>9. sync' \in [Syncers -> SyncRec] /\ AllSyncsOK'
    BY <1>2, <2>2, <2>4, <2>6, <2>8, SyncMoves
  <2> QED BY <1>0, <1>2, <2>4, <2>7, <2>9 DEF Inv, TypeOK, StoreOK, FlagsOK, EditOK, SyncRec
<1>5. CASE KeyDone(s) /\ UNCHANGED latest
  <2>1. latest' \in [Keys -> Row] /\ Grown(latest, latest') /\ AllKeysOK'
    BY <1>0, <1>5, GrownSame DEF StoreOK, AllKeysOK
  <2> QED BY <1>0, <1>2, <1>5, <2>1, FinishStep DEF Busy, StoreOK
<1> QED BY <1>1, <1>3, <1>4, <1>5 DEF KeyLocal

LEMMA RestartStep ==
    ASSUME Inv, Restart
    PROVE  Inv'
<1>0. StoreOK /\ FlagsOK /\ AllKeysOK
  BY TypeParts DEF Inv
<1>1. SyncOK(Idle, latest, server)
  BY <1>0, IdleType, UnlistedOK DEF StoreOK, SyncOK, JobOK, Busy
<1>2. sync' \in [Syncers -> SyncRec] /\ AllSyncsOK'
  BY <1>1, IdleType DEF Restart, AllSyncsOK
<1>3. EditOK'
  BY DEF Restart, EditOK
<1>4. StoreOK' /\ AllKeysOK'
  BY <1>0 DEF Restart, Fault, StoreOK, AllKeysOK
<1>5. FlagsOK'
  BY <1>0 DEF Restart, FlagsOK
<1> QED BY <1>2, <1>3, <1>4, <1>5 DEF Inv, TypeOK, StoreOK, FlagsOK, EditOK, SyncRec

LEMMA SyncStepKeeps ==
    ASSUME Inv, NEW s \in Syncers, SyncStep(s)
    PROVE  Inv'
<1>0. StoreOK /\ FlagsOK
  BY TypeParts DEF Inv
<1>1. CASE SyncTest(s)
  <2>1. faults' \in Nat
    BY <1>0, <1>1 DEF SyncTest, Fault, StoreOK
  <2> QED BY <1>0, <1>1, <2>1, PlaceStep DEF SyncTest, FlagsOK, Places, Busy
<1>2. CASE SyncStart(s)
  BY <1>0, <1>2, PlaceStep DEF SyncStart, StoreOK, Places, Busy
<1>3. CASE SyncList(s) \/ SyncLocals(s)
  BY <1>3, ListingStep
<1>4. CASE SyncListFails(s)
  BY <1>4, LeaveStep DEF SyncListFails
<1>5. CASE SyncThrows(s)
  BY <1>5, LeaveStep DEF SyncThrows
<1>6. CASE SyncEnd(s)
  BY <1>6, LeaveStep DEF SyncEnd
<1>7. CASE \E k \in Keys : KeyBegin(s, k)
  BY <1>7, KeyBeginStep
<1>8. CASE KeyRead(s)
  BY <1>8, KeyReadStep
<1>9. CASE Request(s)
  BY <1>9, RequestStep
<1>10. CASE RequestLost(s)
  BY <1>10, RequestLostStep
<1>11. CASE KeyLocal(s)
  BY <1>11, KeyLocalStep
<1>12. CASE KeyRecord(s)
  BY <1>12, KeyRecordStep
<1> QED BY <1>1, <1>2, <1>3, <1>4, <1>5, <1>6, <1>7, <1>8, <1>9, <1>10, <1>11, <1>12 DEF SyncStep

-----------------------------------------------------------------------------
(* The invariant, and what it gives.                                        *)

LEMMA InitInv == Init => Inv
<1> SUFFICES ASSUME Init PROVE Inv
  OBVIOUS
<1>1. NoRow \in Row /\ NoRemote \in Remote /\ NoRemote.version = 0 /\ NoRow.remote = 0
  BY KVAssumption DEF NoRow, NoRemote, Row, Remote, Times, KVAssumption
<1>2. latest \in [Keys -> Row] /\ server \in [Keys -> Remote] /\ AllKeysOK
  BY <1>1, NewRow DEF Init, AllKeysOK
<1>3. SyncOK(Idle, latest, server)
  BY <1>2, IdleType, UnlistedOK DEF SyncOK, JobOK, Busy
<1>4. sync \in [Syncers -> SyncRec] /\ AllSyncsOK
  BY <1>3, IdleType DEF Init, AllSyncsOK
<1>5. EditOK /\ clock \in Times /\ faults \in Nat
  BY KVAssumption DEF Init, EditOK, Times, KVAssumption
<1>6. FlagsOK
  BY DEF Init, FlagsOK
<1> QED BY <1>2, <1>4, <1>5, <1>6, TypeParts DEF Inv, StoreOK

LEMMA InvStep == Inv /\ [Next]_vars => Inv'
<1> SUFFICES ASSUME Inv, [Next]_vars PROVE Inv'
  OBVIOUS
<1>1. ASSUME NEW e \in Editors, NEW k \in Keys, ReadVersion(e, k) PROVE Inv'
  BY <1>1, ReadVersionStep
<1>2. ASSUME NEW e \in Editors, Write(e) PROVE Inv'
  BY <1>2, WriteStep
<1>3. ASSUME NEW k \in Keys, OtherDevice(k) PROVE Inv'
  BY <1>3, OtherDeviceStep
<1>4. ASSUME NEW s \in Syncers, SyncStep(s) PROVE Inv'
  BY <1>4, SyncStepKeeps
<1>5. CASE Restart
  BY <1>5, RestartStep
<1>6. CASE UNCHANGED vars
  <2>1. TypeOK'
    BY <1>6 DEF Inv, vars, TypeOK
  <2>2. AllKeysOK' /\ AllSyncsOK'
    BY <1>6 DEF Inv, vars, AllKeysOK, AllSyncsOK
  <2> QED BY <2>1, <2>2 DEF Inv
<1> QED BY <1>1, <1>2, <1>3, <1>4, <1>5, <1>6 DEF Next

\* Rows, the server's copies, the threads and the editors stay within their
\* types: no version is negative, and no time is past the clock's bound.
THEOREM StoreTypeCorrect == Spec => []TypeOK
<1>1. Inv => TypeOK
  BY DEF Inv
<1> QED BY InitInv, InvStep, <1>1, PTL DEF Spec

\* While the recorded remote version is the server's, the local value is the
\* server's or both are deleted, whatever syncs run beside edits, other devices,
\* lost requests and restarts: the early return of _syncKey is never taken wrongly.
THEOREM RecordsAreTrue == Spec => []RecordedMatches
<1>1. Inv => RecordedMatches
  BY DEF Inv, AllKeysOK, KeyOK, RecordedMatches
<1> QED BY InitInv, InvStep, <1>1, PTL DEF Spec

-----------------------------------------------------------------------------
(* Whose value a sync may replace.                                          *)

\* What OnlyOlderOverwritten says of one step.
OlderOnly == \A k \in Keys :
    edit' = edit /\ <<latest'[k].value, latest'[k].deleted>> # <<latest[k].value, latest[k].deleted>> =>
        \E s \in Syncers : sync[s].key = k /\ latest[k].time < sync[s].listed[k].time

LEMMA SameContent ==
    ASSUME \A k \in Keys : latest'[k].value = latest[k].value /\ latest'[k].deleted = latest[k].deleted
    PROVE  OlderOnly
BY DEF OlderOnly

LEMMA RecordingKeepsContent ==
    ASSUME Inv, NEW k \in Keys, NEW job \in Job, SetRemoteVersion(k, job.from, job.at)
    PROVE  OlderOnly
<1>1. job.from \in Nat /\ job.at \in Nat /\ latest \in [Keys -> Row] /\ clock \in Times
  BY TypeParts DEF Inv, StoreOK, Job
<1>2. /\ \A j \in Keys \ {k} : latest'[j] = latest[j]
      /\ UNCHANGED latest \/ (latest'[k].value = latest[k].value /\ latest'[k].deleted = latest[k].deleted)
  BY <1>1, SetRemoteVersionFacts
<1> QED BY <1>2, SameContent

LEMMA FetchReplacesOlder ==
    ASSUME Inv, NEW s \in Syncers, KeyLocal(s)
    PROVE  OlderOnly
<1> DEFINE k == sync[s].key
           job == sync[s].job
<1>0. /\ StoreOK /\ SyncOK(sync[s], latest, server) /\ k \in Keys /\ job \in Job /\ sync[s] \in SyncRec
      /\ sync[s].pc = "local" /\ latest[k] \in Row
  BY TypeParts DEF Inv, AllSyncsOK, SyncOK, Busy, KeyLocal, At, StoreOK, SyncRec
<1>1. CASE job.op \in {"put", "del", "keep"}
  BY <1>0, <1>1, RecordingKeepsContent DEF KeyLocal
<1>2. CASE job.op \in {"get", "erase"} /\ IsCurrent(k, job.from)
           /\ Insert(k, Unsynced(job.value, job.deleted \/ job.op = "erase", clock))
  <2>1. latest[k].time < sync[s].listed[k].time
    BY <1>0, <1>2 DEF SyncOK, Busy, FromOK, IsCurrent
  <2>2. \A j \in Keys \ {k} : latest'[j] = latest[j]
    BY <1>0, <1>2 DEF Insert, StoreOK
  <2> QED BY <1>0, <2>1, <2>2 DEF OlderOnly
<1>3. CASE UNCHANGED latest
  BY <1>3, SameContent
<1>4. job.op \in {"put", "del", "get", "keep", "erase"}
  BY <1>0 DEF Job, Ops
<1> QED BY <1>1, <1>2, <1>3, <1>4 DEF KeyLocal

LEMMA WritesAreEdits ==
    ASSUME Inv, NEW e \in Editors, Write(e)
    PROVE  OlderOnly
<1>1. edit' # edit
  <2>1. edit \in [Editors -> [key : Keys \cup {NoKey}, version : Nat]]
    BY DEF Inv, TypeOK
  <2>2. edit'[e].key = NoKey /\ edit[e].key # NoKey
    BY <2>1 DEF Write
  <2> QED BY <2>2
<1> QED BY <1>1 DEF OlderOnly

LEMMA OlderStep == Inv /\ [Next]_vars => OlderOnly
<1> SUFFICES ASSUME Inv, [Next]_vars PROVE OlderOnly
  OBVIOUS
<1>1. CASE UNCHANGED latest
  BY <1>1, SameContent
<1>2. ASSUME NEW e \in Editors, Write(e) PROVE OlderOnly
  BY <1>2, WritesAreEdits
<1>3. ASSUME NEW s \in Syncers, KeyLocal(s) PROVE OlderOnly
  BY <1>3, FetchReplacesOlder
<1>4. ASSUME NEW s \in Syncers, KeyRecord(s) PROVE OlderOnly
  <2>1. sync[s].key \in Keys /\ sync[s].job \in Job
    BY <1>4, TypeParts DEF Inv, AllSyncsOK, SyncOK, Busy, KeyRecord, At, SyncRec
  <2> QED BY <1>4, <2>1, RecordingKeepsContent DEF KeyRecord
<1>5. ASSUME NEW s \in Syncers, SyncStep(s), ~KeyLocal(s), ~KeyRecord(s) PROVE UNCHANGED latest
  BY <1>5 DEF SyncStep, SyncTest, SyncStart, SyncList, SyncListFails, SyncLocals, SyncThrows, SyncEnd,
              KeyBegin, KeyRead, Request, RequestLost
<1>6. ASSUME NEW e \in Editors, NEW k \in Keys, ReadVersion(e, k) PROVE UNCHANGED latest
  BY <1>6 DEF ReadVersion
<1>7. ASSUME NEW k \in Keys, OtherDevice(k) PROVE UNCHANGED latest
  BY <1>7 DEF OtherDevice
<1>8. Restart => UNCHANGED latest
  BY DEF Restart
<1> QED BY <1>1, <1>2, <1>3, <1>4, <1>5, <1>6, <1>7, <1>8 DEF Next, vars

\* A sync replaces or deletes a local value only where the row it replaces is
\* older than what the server listed for the key: an edit made between the
\* listing, the read, the request and the write is never overwritten.
THEOREM SyncOverwritesOlder == Spec => OnlyOlderOverwritten
<1>1. Inv /\ [Next]_vars => [OlderOnly]_vars
  BY OlderStep
<1>2. Spec => [][OlderOnly]_vars
  BY InitInv, InvStep, <1>1, PTL DEF Spec
<1> QED BY <1>2 DEF OnlyOlderOverwritten, OlderOnly

=============================================================================
