---------------------------- MODULE TableEngine -----------------------------
(***************************************************************************)
(* One table's storage engine (crates/stele-storage/src/engine.rs, with    *)
(* the manifest of checkpoint.rs and the group commit and recover_replay   *)
(* of dml.rs): writes logged to the WAL and held in the delta, flush and   *)
(* compaction into sealed segments, checkpoints, recovery.                 *)
(*                                                                         *)
(* The engine runs one call at a time; what interleaves with its steps is  *)
(* a failing call to the disk and a crash.  Each call is cut at its writes *)
(* to disk: job holds what is left of the call.  A row is one write; WAL   *)
(* offsets count frames.  The WAL and the manifest are sequences that may  *)
(* hold a Torn frame; module Wal models the log in detail.                 *)
(***************************************************************************)
EXTENDS Integers, Sequences, FiniteSets, FiniteSetsExt

CONSTANTS
    MaxWrites,   \* bound on the writes
    MaxCrashes,  \* bound on the crashes
    MaxSegments, \* bound on the segment indexes
    MaxStores,   \* bound on the manifest's records
    Faults,      \* which calls to the disk fail, a subset of FaultKinds
    Tears,       \* which files a crash may leave with a torn frame
    Maintenance  \* which of "flush", "compact", "checkpoint" are called

StoreFaults == {"store", "store_tear", "store_sync"}
FaultKinds == {"append", "tear", "sync", "segment"} \cup StoreFaults

ASSUME FaultsAssumption ==
    /\ Faults \subseteq FaultKinds
    /\ Tears \subseteq {"wal", "manifest"}
    /\ Maintenance \subseteq {"flush", "compact", "checkpoint"}
ASSUME BoundsAssumption == MaxWrites \in Nat /\ MaxCrashes \in Nat /\ MaxSegments \in Nat
                           /\ MaxStores \in Nat

VARIABLES
    wal,              \* the WAL's frames: rows, or Torn
    wal_synced,       \* how many frames an fsync has covered
    manifest,         \* the manifest's records: recovery points, or TornPoint
    manifest_synced,  \* how many of them an fsync has covered
    files,            \* the segment files: index -> [rows, whole]
    status,           \* "up", "down", or "refused": recovery failed
    delta,            \* rows staged in the delta tier
    sealed,           \* rows of the resident sealed set
    live,             \* the segment indexes of segment_names
    next_segment_index,
    replay_floor,
    poisoned,         \* the WAL refuses appends and ticks
    job,              \* the call in progress, or NoJob
    written,          \* rows written so far (the last one's name)
    acked,            \* rows whose write returned Ok (history)
    crashes

disk == <<wal, wal_synced, manifest, manifest_synced, files>>
memory == <<delta, sealed, live, next_segment_index, replay_floor, poisoned>>
vars == <<disk, status, memory, job, written, acked, crashes>>

Torn == 0
TornPoint == [torn |-> TRUE]
NoJob == [op |-> "none"]
NoFiles == [i \in {} |-> {}]

RecoveryPoint(floor, fence, segs) ==
    [torn |-> FALSE, replay_floor |-> floor, durable_fence |-> fence, live_segments |-> segs]

(* Engine::open on an empty disk. *)
Init ==
    /\ wal = << >> /\ wal_synced = 0
    /\ manifest = << >> /\ manifest_synced = 0
    /\ files = NoFiles
    /\ status = "up"
    /\ delta = {} /\ sealed = {}
    /\ live = {} /\ next_segment_index = 0 /\ replay_floor = 0
    /\ poisoned = FALSE
    /\ job = NoJob
    /\ written = 0 /\ acked = {} /\ crashes = 0

Ready == status = "up" /\ job = NoJob /\ ~poisoned
-----------------------------------------------------------------------------
(* A write is applied to the delta and its record appended. *)
LogRow(r) ==
    /\ Ready
    /\ r = written + 1 /\ r <= MaxWrites
    /\ written' = r
    /\ wal' = Append(wal, r)
    /\ delta' = delta \cup {r}
    /\ job' = [op |-> "write", row |-> r]
    /\ UNCHANGED <<wal_synced, manifest, manifest_synced, files, status, sealed, live,
                   next_segment_index, replay_floor, poisoned, acked, crashes>>

(* The append fails, clean or torn: the row is undone (finish_group). *)
AppendFails(r) ==
    /\ Ready
    /\ r = written + 1 /\ r <= MaxWrites
    /\ written' = r
    /\ \/ "append" \in Faults /\ UNCHANGED <<wal, poisoned>>
       \/ "tear" \in Faults /\ wal' = Append(wal, Torn) /\ poisoned' = TRUE
    /\ UNCHANGED <<wal_synced, manifest, manifest_synced, files, status, delta, sealed, live,
                   next_segment_index, replay_floor, job, acked, crashes>>

(* tick covers it: the write is acknowledged. *)
WriteSynced ==
    /\ status = "up" /\ job.op = "write"
    /\ wal_synced' = Len(wal)
    /\ acked' = acked \cup {job.row}
    /\ job' = NoJob
    /\ UNCHANGED <<wal, manifest, manifest_synced, files, status, memory, written, crashes>>

(* tick fails: the row stays, the WAL poisons. *)
WriteSyncFails ==
    /\ status = "up" /\ job.op = "write"
    /\ "sync" \in Faults
    /\ poisoned' = TRUE
    /\ job' = NoJob
    /\ UNCHANGED <<disk, status, delta, sealed, live, next_segment_index, replay_floor,
                   written, acked, crashes>>
-----------------------------------------------------------------------------
(* The session drives the maintenance: CHECKPOINT, FLUSH, and COMPACT,     *)
(* which flushes first.  then says whether a compaction follows.           *)
Then(call) == IF call = "compact" THEN [op |-> "compact"] ELSE NoJob

(* The first call of flush, compact and checkpoint: wal.tick. *)
TickFails ==
    /\ status = "up" /\ ~poisoned
    /\ (job = NoJob /\ Maintenance # {}) \/ job.op = "compact"
    /\ "sync" \in Faults
    /\ poisoned' = TRUE
    /\ job' = NoJob
    /\ UNCHANGED <<disk, status, delta, sealed, live, next_segment_index, replay_floor,
                   written, acked, crashes>>

Tick == Len(manifest) < MaxStores /\ wal_synced' = Len(wal)

(* checkpoint, and flush of an empty delta: the fence alone is recorded. *)
Checkpoint(call) ==
    /\ Ready
    /\ call = "checkpoint" \/ delta = {}
    /\ Tick
    /\ job' = [op |-> "store", point |-> RecoveryPoint(replay_floor, Len(wal), live),
               rows |-> {}, retire |-> {}, then |-> Then(call)]
    /\ UNCHANGED <<wal, manifest, manifest_synced, files, status, memory, written, acked, crashes>>

(* flush and compact up to the segment file: any orphan of that name is    *)
(* removed and the file created; it is not whole before FinishSegment.     *)
CreateSegment(store) ==
    /\ next_segment_index < MaxSegments
    /\ Tick
    /\ files' = [i \in DOMAIN files \cup {next_segment_index} |->
                    IF i = next_segment_index THEN [rows |-> {}, whole |-> FALSE] ELSE files[i]]
    /\ job' = [op |-> "seal", store |-> store]
    /\ UNCHANGED <<wal, manifest, manifest_synced, status, memory, written, acked, crashes>>

\* Mutant: the floor one past the frames the segment holds.
FlushFloorPast(call) ==
    /\ Ready
    /\ call # "checkpoint"
    /\ delta # {}
    /\ CreateSegment([op |-> "store", rows |-> delta, retire |-> {}, then |-> Then(call),
                      point |-> RecoveryPoint(Len(wal) + 1, Len(wal), live \cup {next_segment_index})])

Flush(call) ==
    /\ Ready
    /\ call # "checkpoint"
    /\ delta # {}
    /\ CreateSegment([op |-> "store", rows |-> delta, retire |-> {}, then |-> Then(call),
                      point |-> RecoveryPoint(Len(wal), Len(wal), live \cup {next_segment_index})])

(* The rows of every input segment, read back from the files. *)
Merged == UNION {files[i].rows : i \in live}

Compact ==
    /\ status = "up" /\ job.op = "compact"
    /\ Cardinality(live) >= 2
    /\ CreateSegment([op |-> "store", rows |-> Merged, retire |-> live, then |-> NoJob,
                      point |-> RecoveryPoint(replay_floor, Len(wal), {next_segment_index})])

(* Fewer than two live segments: nothing to merge. *)
CompactNothing ==
    /\ status = "up" /\ job.op = "compact"
    /\ Cardinality(live) < 2
    /\ job' = NoJob
    /\ UNCHANGED <<disk, status, memory, written, acked, crashes>>

(* writer.finish and the directory fence. *)
FinishSegment ==
    /\ status = "up" /\ job.op = "seal"
    /\ files' = [files EXCEPT ![next_segment_index] = [rows |-> job.store.rows, whole |-> TRUE]]
    /\ job' = job.store
    /\ UNCHANGED <<wal, wal_synced, manifest, manifest_synced, status, memory, written, acked, crashes>>

SegmentFails ==
    /\ status = "up" /\ job.op = "seal"
    /\ "segment" \in Faults
    /\ job' = NoJob
    /\ UNCHANGED <<disk, status, memory, written, acked, crashes>>

Seals == job.op = "store" /\ job.point.live_segments # live

\* Mutant: the flushed rows dropped from the delta but not adopted.
AdoptDropsRows ==
    /\ live' = job.point.live_segments
    /\ replay_floor' = job.point.replay_floor
    /\ next_segment_index' = IF Seals THEN next_segment_index + 1 ELSE next_segment_index
    /\ sealed' = IF job.retire # {} THEN job.rows ELSE sealed
    /\ delta' = IF job.retire = {} THEN delta \ job.rows ELSE delta
    /\ UNCHANGED poisoned

\* Mutant: the segment index not advanced.
AdoptKeepsIndex ==
    /\ live' = job.point.live_segments
    /\ replay_floor' = job.point.replay_floor
    /\ next_segment_index' = next_segment_index
    /\ sealed' = IF job.retire # {} THEN job.rows ELSE sealed \cup job.rows
    /\ delta' = IF job.retire = {} THEN delta \ job.rows ELSE delta
    /\ UNCHANGED poisoned

\* Mutant: the new segment's name not recorded.
AdoptKeepsLive ==
    /\ live' = live
    /\ replay_floor' = job.point.replay_floor
    /\ next_segment_index' = IF Seals THEN next_segment_index + 1 ELSE next_segment_index
    /\ sealed' = IF job.retire # {} THEN job.rows ELSE sealed \cup job.rows
    /\ delta' = IF job.retire = {} THEN delta \ job.rows ELSE delta
    /\ UNCHANGED poisoned

(* The tail of flush and compact once the record is durable. *)
Adopt ==
    /\ live' = job.point.live_segments
    /\ replay_floor' = job.point.replay_floor
    /\ next_segment_index' = IF Seals THEN next_segment_index + 1 ELSE next_segment_index
    /\ sealed' = IF job.retire # {} THEN job.rows ELSE sealed \cup job.rows
    /\ delta' = IF job.retire = {} THEN delta \ job.rows ELSE delta
    /\ UNCHANGED poisoned

(* checkpoint::store, the commit point; the retired inputs are removed     *)
(* best-effort.                                                            *)
StoreOk ==
    /\ status = "up" /\ job.op = "store"
    /\ manifest' = Append(manifest, job.point)
    /\ manifest_synced' = Len(manifest) + 1
    /\ \E gone \in SUBSET job.retire : files' = [i \in DOMAIN files \ gone |-> files[i]]
    /\ Adopt
    /\ job' = job.then
    /\ UNCHANGED <<wal, wal_synced, status, written, acked, crashes>>

(* store fails: nothing written, part of the record written, or the record *)
(* written and its fsync failed.  Nothing is poisoned.                     *)
ManifestAfter == [store |-> manifest,
                  store_tear |-> Append(manifest, TornPoint),
                  store_sync |-> Append(manifest, job.point)]

StoreFails ==
    /\ status = "up" /\ job.op = "store"
    /\ \E fault \in Faults \cap StoreFaults : manifest' = ManifestAfter[fault]
    /\ job' = NoJob
    /\ UNCHANGED <<wal, wal_synced, manifest_synced, files, status, memory, written, acked, crashes>>
-----------------------------------------------------------------------------
(* What a crash leaves of a file: the synced frames, a prefix of the rest, *)
(* and possibly a torn frame after it.                                     *)
Survivors(frames, synced, torn, mayTear) ==
    {SubSeq(frames, 1, k) : k \in synced .. Len(frames)}
    \cup {Append(SubSeq(frames, 1, k), torn) :
             k \in {n \in synced .. Len(frames) - 1 : mayTear \/ frames[n + 1] = torn}}

(* The manifest as the crash finds it, a store in progress included. *)
ManifestInFlight == IF job.op = "store" THEN Append(manifest, job.point) ELSE manifest

Crash ==
    /\ status = "up"
    /\ crashes < MaxCrashes
    /\ crashes' = crashes + 1
    /\ status' = "down"
    /\ wal' \in Survivors(wal, wal_synced, Torn, "wal" \in Tears)
    /\ wal_synced' = Len(wal')
    /\ manifest' \in Survivors(ManifestInFlight, manifest_synced, TornPoint, "manifest" \in Tears)
    /\ manifest_synced' = Len(manifest')
    /\ delta' = {} /\ sealed' = {} /\ live' = {} /\ next_segment_index' = 0 /\ replay_floor' = 0
    /\ poisoned' = FALSE
    /\ job' = NoJob
    /\ UNCHANGED <<files, written, acked>>

(* checkpoint::load: the last record before the first that does not decode. *)
Loaded ==
    LET whole == {i \in 1 .. Len(manifest) : \A j \in 1 .. i : ~manifest[j].torn}
    IN  IF whole = {} THEN RecoveryPoint(0, 0, {}) ELSE manifest[Max(whole)]

(* The live segments all open and read. *)
SegmentsOpen == \A i \in Loaded.live_segments : i \in DOMAIN files /\ files[i].whole
SegmentRows == UNION {files[i].rows : i \in Loaded.live_segments}

(* recover_replay: from the floor to the first torn frame, which is fatal  *)
(* below the fence.                                                        *)
TornAt == {i \in Loaded.replay_floor + 1 .. Len(wal) : wal[i] = Torn}
ReplayOk == \A i \in TornAt : i > Loaded.durable_fence

\* Mutant: the replay started one frame late.
ReplayedLate ==
    {wal[i] : i \in {j \in Loaded.replay_floor + 2 .. Len(wal) : \A t \in TornAt : j < t}}

Replayed ==
    {wal[i] : i \in {j \in Loaded.replay_floor + 1 .. Len(wal) : \A t \in TornAt : j < t}}

(* recover sweeps the dead segment files, then reads, rebuilds, replays. *)
Sweep == files' = [i \in DOMAIN files \cap Loaded.live_segments |-> files[i]]

RecoverOk ==
    /\ status = "down"
    /\ SegmentsOpen /\ ReplayOk
    /\ Sweep
    /\ status' = "up"
    /\ sealed' = SegmentRows
    /\ delta' = Replayed
    /\ live' = Loaded.live_segments
    /\ next_segment_index' = IF live' = {} THEN 0 ELSE Max(live') + 1
    /\ replay_floor' = Loaded.replay_floor
    /\ UNCHANGED <<wal, wal_synced, manifest, manifest_synced, poisoned, job, written, acked, crashes>>

RecoverRefused ==
    /\ status = "down"
    /\ ~(SegmentsOpen /\ ReplayOk)
    /\ Sweep
    /\ status' = "refused"
    /\ UNCHANGED <<wal, wal_synced, manifest, manifest_synced, memory, job, written, acked, crashes>>

Next ==
    \/ \E r \in 1 .. MaxWrites : LogRow(r) \/ AppendFails(r)
    \/ WriteSynced \/ WriteSyncFails
    \/ TickFails
    \/ \E call \in Maintenance : Checkpoint(call) \/ Flush(call)
    \/ Compact \/ CompactNothing
    \/ FinishSegment \/ SegmentFails \/ StoreOk \/ StoreFails
    \/ Crash \/ RecoverOk \/ RecoverRefused

Spec == Init /\ [][Next]_vars
-----------------------------------------------------------------------------
Rows == 1 .. MaxWrites

Point == [torn : {FALSE}, replay_floor : 0 .. MaxWrites, durable_fence : 0 .. MaxWrites,
          live_segments : SUBSET (0 .. MaxSegments - 1)]

\* Every variable of the engine has its type, and the offsets it keeps lie
\* within its log.
TypeOK ==
    /\ \A i \in DOMAIN wal : wal[i] \in Rows \cup {Torn}
    /\ wal_synced \in 0 .. Len(wal)
    /\ \A i \in DOMAIN manifest : manifest[i].torn \/ manifest[i] \in Point
    /\ manifest_synced \in 0 .. Len(manifest)
    /\ \A i \in DOMAIN files : files[i] \in [rows : SUBSET Rows, whole : BOOLEAN]
    /\ status \in {"up", "down", "refused"}
    /\ delta \subseteq Rows /\ sealed \subseteq Rows
    /\ live \subseteq 0 .. MaxSegments - 1
    /\ next_segment_index \in 0 .. MaxSegments
    /\ replay_floor \in 0 .. Len(wal)
    /\ poisoned \in BOOLEAN
    /\ written \in 0 .. MaxWrites /\ acked \subseteq Rows /\ crashes \in 0 .. MaxCrashes

\* The delta and the sealed set never hold the same row, and the next segment
\* index names no live segment: a flush seals each row once and overwrites
\* nothing that is vouched for.
TiersDisjoint ==
    status = "up" =>
        /\ delta \cap sealed = {}
        /\ \A i \in live : i < next_segment_index

\* An acknowledged row is served by every incarnation of the engine.
AckedServed == status = "up" => acked \subseteq delta \cup sealed

\* The resident sealed set is what the live segment files hold.
SealedIsFiles ==
    status = "up" => /\ \A i \in live : i \in DOMAIN files /\ files[i].whole
                     /\ sealed = UNION {files[i].rows : i \in live}

(* The refinement mapping: a reader of a running engine sees both tiers    *)
(* but the row being written; of a stopped one, what recovery would see.   *)
(* A table that recovery refuses is never up again; its rows are those of  *)
(* its log, which nothing truncates.                                       *)
InFlight == IF job.op = "write" THEN {job.row} ELSE {}
Logged == {wal[i] : i \in DOMAIN wal} \ {Torn}
Served == IF status = "up" THEN (delta \cup sealed) \ InFlight
          ELSE IF SegmentsOpen /\ ReplayOk THEN SegmentRows \cup Replayed ELSE Logged
Unsure == IF status = "up" THEN {r \in delta : \E i \in wal_synced + 1 .. Len(wal) : wal[i] = r} ELSE {}

Table == INSTANCE DurableTable WITH Row <- Rows, rows <- Served, unsure <- Unsure, up <- status = "up"

\* The engine implements the durable table: flushes, compactions, checkpoints,
\* failed maintenance and recoveries change nothing a reader sees, and a crash
\* only decides the writes in doubt.
ImplementsDurableTable == Table!Spec
=============================================================================
