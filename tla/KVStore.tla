-------------------------------- MODULE KVStore --------------------------------
(***************************************************************************)
(* The replicated key-value store of the platform layer: the database of   *)
(* ReplicatedKVStore, the threads that edit it (KVStorePlugin,              *)
(* KVStoreManager), the threads in syncAllKeys, and the server behind       *)
(* KVStoreAdaptor, which other devices of the user write to as well.        *)
(*                                                                         *)
(* Every edit, here or elsewhere, has a time of its own, and stands for the *)
(* value it wrote.  Encryption, compression and the keys' syntax are left   *)
(* out.  The server is not in the repository: it is the one of the tests    *)
(* (MockUpAdapter), whose writes compare the version they are given.        *)
(***************************************************************************)
EXTENDS Integers

CONSTANTS Keys,
          NoKey,
          Syncers,      \* threads that call syncAllKeys
          Editors,      \* threads that read a version and write with it
          MaxTime,      \* bound: edits, of all devices together
          MaxVersion,   \* bound: rows of one key
          MaxFaults     \* bound: requests lost, restarts, and syncs begun beside another

ASSUME KVAssumption == NoKey \notin Keys /\ MaxTime \in Nat /\ MaxVersion \in Nat /\ MaxFaults \in Nat

VARIABLES
    latest,      \* latest[k]: the row of k with the highest version, 0 if there is none
    server,      \* server[k]; version 0 is a key that it never had
    clock,       \* the time of the last edit
    syncRunning,
    sync,        \* sync[s]: where a thread is in syncAllKeys
    edit,        \* edit[e]: the key and version a thread is about to write with
    faults,      \* what is left of MaxFaults
    tombstones   \* the adaptor reports keys deleted on the server as such

vars == <<latest, server, clock, syncRunning, sync, edit, faults, tombstones>>

Times    == 0 .. MaxTime
Row      == [version : Nat, remote : Nat, value : Times, time : Times, deleted : BOOLEAN]
Remote   == [version : Nat, value : Times, time : Times, deleted : BOOLEAN]
Listing  == [version : Nat, time : Times, tombstone : BOOLEAN]
Places   == {"idle", "start", "list", "locals", "keys", "read", "request", "local", "record"}
Ops      == {"put", "del", "get", "keep", "erase"}

\* What _syncKey has decided: an operation, the server's version it is for, the
\* local version it was decided from, and what is to be written.
Job == [op : Ops, at : Nat, from : Nat, value : Times, deleted : BOOLEAN]

NoRemote == [version |-> 0, value |-> 0, time |-> 0, deleted |-> FALSE]
NoJob    == [op |-> "keep", at |-> 0, from |-> 0, value |-> 0, deleted |-> FALSE]
Unlisted == [version |-> 0, time |-> 0, tombstone |-> FALSE]
Idle == [pc |-> "idle", todo |-> {}, listed |-> [k \in Keys |-> Unlisted], key |-> NoKey,
         recorded |-> 0, job |-> NoJob]

NoRow == [version |-> 0, remote |-> 0, value |-> 0, time |-> 0, deleted |-> FALSE]

TypeOK ==
    /\ latest \in [Keys -> Row]
    /\ server \in [Keys -> Remote]
    /\ clock \in Times /\ faults \in Nat /\ syncRunning \in BOOLEAN /\ tombstones \in BOOLEAN
    /\ sync \in [Syncers -> [pc : Places, todo : SUBSET Keys, listed : [Keys -> Listing],
                             key : Keys \cup {NoKey}, recorded : Nat, job : Job]]
    /\ edit \in [Editors -> [key : Keys \cup {NoKey}, version : Nat]]

Init ==
    /\ latest = [k \in Keys |-> NoRow]
    /\ server = [k \in Keys |-> NoRemote]
    /\ clock = 0 /\ faults = MaxFaults /\ syncRunning = FALSE
    /\ sync = [s \in Syncers |-> Idle]
    /\ edit = [e \in Editors |-> [key |-> NoKey, version |-> 0]]
    /\ tombstones \in BOOLEAN

-----------------------------------------------------------------------------
(* Writes to the database.  Each one is synchronized, names the version it  *)
(* believes to be the latest, and adds the next.                           *)

\* wrong on purpose: the version is not compared
AnyVersion(k, version) == TRUE
IsCurrent(k, version) == latest[k].version = version
Insert(k, row) == /\ latest[k].version < MaxVersion
                  /\ latest' = [latest EXCEPT ![k] = [row EXCEPT !.version = latest[k].version + 1]]

\* wrong on purpose: the -1 that stands for no remote version is stored
UnsyncedMinusOne(value, deleted, time) ==
    [NoRow EXCEPT !.remote = -1, !.value = value, !.deleted = deleted, !.time = time]

\* what _set and _delete write: a row that the server has not seen
Unsynced(value, deleted, time) ==
    [NoRow EXCEPT !.value = value, !.deleted = deleted, !.time = time]

\* setRemoteVersion: the latest row again, with the server's version
SetRemoteVersion(k, version, remote) ==
    IF version > 0 /\ IsCurrent(k, version)
    THEN Insert(k, [latest[k] EXCEPT !.remote = remote, !.time = clock])
    ELSE UNCHANGED latest

-----------------------------------------------------------------------------
(* Edits of this device: the caller asks for the version first.             *)

ReadVersion(e, k) ==
    /\ edit[e].key = NoKey /\ clock < MaxTime
    /\ edit' = [edit EXCEPT ![e] = [key |-> k, version |-> latest[k].version]]
    /\ UNCHANGED <<latest, server, clock, syncRunning, sync, faults, tombstones>>

\* set or delete; on a conflict the callers log or answer 409, and give up
Write(e) ==
    LET k == edit[e].key IN
    /\ k # NoKey /\ clock < MaxTime
    /\ edit' = [edit EXCEPT ![e] = [key |-> NoKey, version |-> 0]]
    /\ IF IsCurrent(k, edit[e].version)
       THEN /\ clock' = clock + 1
            /\ \/ Insert(k, Unsynced(clock', FALSE, clock'))
               \/ edit[e].version > 0 /\ Insert(k, Unsynced(latest[k].value, TRUE, clock'))
       ELSE UNCHANGED <<latest, clock>>
    /\ UNCHANGED <<server, syncRunning, sync, faults, tombstones>>

\* Another device writes or deletes the key; deleting keeps the time.
OtherDevice(k) ==
    /\ clock < MaxTime
    /\ clock' = clock + 1
    /\ \/ server' = [server EXCEPT ![k] = [version |-> @.version + 1, value |-> clock', time |-> clock',
                                           deleted |-> FALSE]]
       \/ /\ server[k].version > 0 /\ ~server[k].deleted
          /\ server' = [server EXCEPT ![k].version = @ + 1, ![k].deleted = TRUE]
    /\ UNCHANGED <<latest, syncRunning, sync, edit, faults, tombstones>>

-----------------------------------------------------------------------------
(* syncAllKeys.                                                             *)

At(s, pc)    == sync[s].pc = pc
Go(s, pc)    == sync' = [sync EXCEPT ![s].pc = pc]
KeyDone(s)   == sync' = [sync EXCEPT ![s] = [@ EXCEPT !.pc = "keys", !.listed[sync[s].key] = Unlisted,
                                                      !.key = NoKey, !.job = NoJob]]
Leave(s)     == sync' = [sync EXCEPT ![s] = Idle] /\ syncRunning' = FALSE

Fault == faults > 0 /\ faults' = faults - 1

\* syncRunning is tested, and set, without synchronization
SyncTest(s) ==
    /\ At(s, "idle") /\ ~syncRunning /\ Go(s, "start")
    /\ IF \A s2 \in Syncers : At(s2, "idle") THEN UNCHANGED faults ELSE Fault
    /\ UNCHANGED <<latest, server, clock, syncRunning, edit, tombstones>>
SyncStart(s) == /\ At(s, "start") /\ Go(s, "list") /\ syncRunning' = TRUE
                /\ UNCHANGED <<latest, server, clock, edit, faults, tombstones>>

\* remoteKvStore.keys(); it may fail
SyncList(s) ==
    /\ At(s, "list")
    /\ sync' = [sync EXCEPT ![s] = [@ EXCEPT
           !.pc = "locals",
           !.todo = {k \in Keys : server[k].version > 0},
           !.listed = [k \in Keys |->
               [version |-> server[k].version, time |-> server[k].time,
                tombstone |-> tombstones /\ server[k].deleted]]]]
    /\ UNCHANGED <<latest, server, clock, syncRunning, edit, faults, tombstones>>
SyncListFails(s) == /\ At(s, "list") /\ Leave(s)
                    /\ UNCHANGED <<latest, server, clock, edit, faults, tombstones>>

\* getRawKVs(): the keys the server is missing
SyncLocals(s) ==
    /\ At(s, "locals")
    /\ sync' = [sync EXCEPT ![s].pc = "keys", ![s].todo = @ \cup {k \in Keys : latest[k].version > 0}]
    /\ UNCHANGED <<latest, server, clock, syncRunning, edit, faults, tombstones>>

\* _syncKey throws if the other thread's syncAllKeys has ended
SyncThrows(s) == /\ At(s, "keys") /\ sync[s].todo # {} /\ ~syncRunning /\ Leave(s)
                 /\ UNCHANGED <<latest, server, clock, edit, faults, tombstones>>
SyncEnd(s) == /\ At(s, "keys") /\ sync[s].todo = {} /\ Leave(s)
              /\ UNCHANGED <<latest, server, clock, edit, faults, tombstones>>

\* _syncKey, up to "if they match, there is nothing to do"
KeyBegin(s, k) ==
    /\ At(s, "keys") /\ k \in sync[s].todo /\ syncRunning
    /\ LET next    == [sync[s] EXCEPT !.todo = @ \ {k}]
           version == sync[s].listed[k].version
       IN  sync' = [sync EXCEPT ![s] =
               IF version > 0 /\ latest[k].remote = version THEN next
               ELSE [next EXCEPT !.pc = "read", !.key = k, !.recorded = latest[k].remote]]
    /\ UNCHANGED <<latest, server, clock, syncRunning, edit, faults, tombstones>>

\* "set the remote version to 1 to create the key on the server"
PutListed(version, recorded) == version    \* wrong on purpose
PutAt(version, recorded) == IF version = 0 \/ version < recorded THEN 1 ELSE version

\* get(key, 0), and the last write wins
KeyRead(s) ==
    /\ At(s, "read")
    /\ LET k     == sync[s].key
           local == latest[k]
           there == sync[s].listed[k]
           older == local.time < there.time
           op    == IF there.tombstone /\ local.deleted THEN "keep"
                    ELSE IF older /\ there.tombstone    THEN "erase"
                    ELSE IF older                       THEN "get"
                    ELSE IF local.deleted               THEN "del" ELSE "put"
           at    == IF op = "keep"     THEN local.remote
                    ELSE IF op = "put" THEN PutAt(there.version, sync[s].recorded)
                                       ELSE there.version
           job   == [op |-> op, at |-> at, from |-> local.version, value |-> local.value,
                     deleted |-> local.deleted]
       IN  sync' = [sync EXCEPT ![s] =
               [@ EXCEPT !.pc = IF op \in {"keep", "erase"} THEN "local" ELSE "request",
                         !.recorded = 0, !.job = job]]
    /\ UNCHANGED <<latest, server, clock, syncRunning, edit, faults, tombstones>>

\* The server's side of put, del and get.
Accepts(k, job) ==
    \/ job.op = "put" /\ job.at = IF server[k].version = 0 THEN 1 ELSE server[k].version
    \/ job.op = "del" /\ job.at = server[k].version /\ server[k].version > 0
    \/ job.op = "get" /\ job.at = server[k].version /\ ~server[k].deleted
Served(k, job) ==
    IF job.op = "put"
    THEN [version |-> server[k].version + 1, value |-> job.value, time |-> clock, deleted |-> FALSE]
    ELSE IF job.op = "del" THEN [server[k] EXCEPT !.version = @ + 1, !.deleted = TRUE] ELSE server[k]

\* the answer has the version, and for a get the value
Request(s) ==
    /\ At(s, "request")
    /\ LET k == sync[s].key  job == sync[s].job IN
       IF Accepts(k, job)
       THEN /\ server' = [server EXCEPT ![k] = Served(k, job)]
            /\ sync' = [sync EXCEPT ![s] = [@ EXCEPT !.pc = "local",
                                                     !.job.at = server'[k].version,
                                                     !.job.value = server'[k].value]]
       ELSE KeyDone(s) /\ UNCHANGED server
    /\ UNCHANGED <<latest, clock, syncRunning, edit, faults, tombstones>>

\* the request, or only its answer, is lost
RequestLost(s) ==
    /\ At(s, "request") /\ Fault /\ KeyDone(s)
    /\ LET k == sync[s].key  job == sync[s].job IN
       \/ UNCHANGED server
       \/ Accepts(k, job) /\ job.op # "get" /\ server' = [server EXCEPT ![k] = Served(k, job)]
    /\ UNCHANGED <<latest, clock, syncRunning, edit, tombstones>>

\* What follows in the database: for put and del, the server's version; for a
\* value that was fetched, or a key deleted on the server, a row of its own
\* first.  The fetched value is stored with the local deleted mark.
KeyLocal(s) ==
    /\ At(s, "local")
    /\ LET k == sync[s].key  job == sync[s].job IN
       IF job.op \in {"put", "del", "keep"}
       THEN SetRemoteVersion(k, job.from, job.at) /\ KeyDone(s)
       ELSE IF IsCurrent(k, job.from) /\ (job.op = "erase" => job.from > 0)
       THEN /\ Insert(k, Unsynced(job.value, job.deleted \/ job.op = "erase", clock))
            /\ sync' = [sync EXCEPT ![s].pc = "record", ![s].job.from = @ + 1]
       ELSE KeyDone(s) /\ UNCHANGED latest
    /\ UNCHANGED <<server, clock, syncRunning, edit, faults, tombstones>>

KeyRecord(s) ==
    /\ At(s, "record")
    /\ SetRemoteVersion(sync[s].key, sync[s].job.from, sync[s].job.at)
    /\ KeyDone(s)
    /\ UNCHANGED <<server, clock, syncRunning, edit, faults, tombstones>>

\* The process ends and starts again: the database is what remains.
Restart ==
    /\ Fault
    /\ sync' = [s \in Syncers |-> Idle]
    /\ edit' = [e \in Editors |-> [key |-> NoKey, version |-> 0]]
    /\ syncRunning' = FALSE
    /\ UNCHANGED <<latest, server, clock, tombstones>>

-----------------------------------------------------------------------------
SyncStep(s) ==
    \/ SyncTest(s) \/ SyncStart(s) \/ SyncList(s) \/ SyncListFails(s) \/ SyncLocals(s) \/ SyncThrows(s) \/ SyncEnd(s)
    \/ (\E k \in Keys : KeyBegin(s, k))
    \/ KeyRead(s) \/ Request(s) \/ RequestLost(s) \/ KeyLocal(s) \/ KeyRecord(s)

Next ==
    \/ \E e \in Editors : (\E k \in Keys : ReadVersion(e, k)) \/ Write(e)
    \/ \E k \in Keys : OtherDevice(k)
    \/ \E s \in Syncers : SyncStep(s)
    \/ Restart

Spec == Init /\ [][Next]_vars

\* Every thread's own steps are taken, a sync is called again and again, and
\* neither the listing nor one kind of request fails every time.
Fairness ==
    /\ \A s \in Syncers :
        /\ WF_vars(SyncTest(s)) /\ WF_vars(SyncStart(s)) /\ SF_vars(SyncList(s))
        /\ WF_vars(SyncLocals(s)) /\ WF_vars(SyncThrows(s)) /\ WF_vars(SyncEnd(s))
        /\ \A k \in Keys : SF_vars(KeyBegin(s, k))
        /\ WF_vars(KeyRead(s)) /\ SF_vars(Request(s)) /\ WF_vars(KeyLocal(s)) /\ WF_vars(KeyRecord(s))
    /\ \A e \in Editors : WF_vars(Write(e))

FairSpec == Spec /\ Fairness

-----------------------------------------------------------------------------
(* Properties.                                                              *)

\* What "there is nothing to do" rests on: while the recorded version is the
\* server's, the local value is the server's, or both are deleted.
RecordedMatches == \A k \in Keys :
    latest[k].remote = server[k].version /\ server[k].version > 0 =>
        /\ server[k].deleted => latest[k].deleted
        /\ ~latest[k].deleted => latest[k].value = server[k].value

\* "Their last-modified date is newer than ours, overwrite ours": a step that is
\* no edit of this device replaces its value, or deletes it, only where the row
\* it replaces is older than what the server listed.
OnlyOlderOverwritten == [][\A k \in Keys :
    edit' = edit /\ <<latest'[k].value, latest'[k].deleted>> # <<latest[k].value, latest[k].deleted>> =>
        \E s \in Syncers : sync[s].key = k /\ latest[k].time < sync[s].listed[k].time]_vars

\* A key that nobody deletes is in the end the same on this device and on the server.
Converges == \A k \in Keys :
    \/ <>(server[k].deleted \/ latest[k].deleted)
    \/ <>[](latest[k].value = server[k].value)
================================================================================
