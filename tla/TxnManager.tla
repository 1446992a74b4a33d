----------------------------- MODULE TxnManager -----------------------------
(***************************************************************************)
(* The transaction manager of stele-txn: snapshots, commit timestamps,     *)
(* first-committer-wins conflict detection and the hash-chained commit log *)
(* it appends to its own WAL (crates/stele-txn/src/manager.rs, chain.rs,   *)
(* commit_record.rs).                                                      *)
(*                                                                         *)
(* Every operation runs under the manager's one mutex, so each is a single *)
(* action.  The WAL is seen through its contract only: an append that      *)
(* fails cleanly, an append that tears, a failed fsync (both poison it), a *)
(* crash that keeps any prefix at or past the fsynced one.  Module Wal     *)
(* models the WAL itself.                                                  *)
(***************************************************************************)
EXTENDS Integers, Sequences, FiniteSets

CONSTANTS
    Key,     \* business keys
    Open,    \* SYSTEM_TIME_OPEN, the +infinity sentinel of system time
    MaxTxn   \* bound on the transaction ids begin may hand out

ASSUME OpenAssumption == Open \in Nat \ {0}
ASSUME MaxTxnAssumption == MaxTxn \in Nat

VARIABLES
    status,       \* "up", "down" (crashed) or "refused" (recovery failed closed)
    cursor,       \* State.cursor
    next_txn,     \* State.next_txn
    next_seq,     \* State.next_seq
    commit_head,  \* State.commit_head
    write_index,  \* State.write_index: latest commit instant per key, 0 = absent
    open,         \* the Transaction values handed out and not yet consumed
    log,          \* the frames in the commit log's WAL, oldest first
    durable,      \* how many frames of log an fsync has covered
    torn,         \* a partial frame lies after the last frame of log
    poisoned,     \* the WAL refuses every append
    acked         \* sequence numbers whose commit returned Ok (history)

vars == <<status, cursor, next_txn, next_seq, commit_head, write_index, open,
          log, durable, torn, poisoned, acked>>

memory == <<cursor, next_txn, next_seq, commit_head, write_index>>
wal == <<log, durable, torn, poisoned>>

Time == 0 .. Open

Maximum(a, b) == IF a >= b THEN a ELSE b
Minimum(a, b) == IF a <= b THEN a ELSE b

(***************************************************************************)
(* A commit record.  snapshot and writes are history data for the          *)
(* properties: the frame encodes only the other four fields, and Hash is a *)
(* collision-free digest of those four.                                    *)
(***************************************************************************)
ZeroDigest == << >>
Hash(r) == Append(r.prev_hash, <<r.txn_id, r.commit_ts, r.seq>>)

CommitRecord(t, ts) ==
    [txn_id |-> t.id, commit_ts |-> ts, seq |-> next_seq,
     prev_hash |-> commit_head, snapshot |-> t.snapshot, writes |-> t.writes]

(***************************************************************************)
(* verify_chain_recover: the genesis walk, and the tail state it returns.  *)
(***************************************************************************)
ChainVerifies(records) ==
    \A i \in 1 .. Len(records) :
        records[i].prev_hash = IF i = 1 THEN ZeroDigest ELSE Hash(records[i - 1])

\* Mutant: taking the last record's id, as the commit timestamp and seq are.
LastTxnId(records) ==
    IF records = << >> THEN 0 ELSE records[Len(records)].txn_id

MaxTxnId(records) ==
    IF records = << >> THEN 0
    ELSE CHOOSE m \in {records[i].txn_id : i \in 1 .. Len(records)} :
             \A i \in 1 .. Len(records) : records[i].txn_id <= m

RecoveredHead(records) ==
    IF records = << >> THEN ZeroDigest ELSE Hash(records[Len(records)])

\* Mutant: the cursor restarted from zero.
RecoveredTsZero(records) == 0

RecoveredTs(records) ==
    IF records = << >> THEN 0 ELSE records[Len(records)].commit_ts
RecoveredSeq(records) ==
    IF records = << >> THEN 0 ELSE records[Len(records)].seq
-----------------------------------------------------------------------------
(* TxnManager::new on an empty WAL. *)
Init ==
    /\ status = "up"
    /\ cursor = 0
    /\ next_txn = 1
    /\ next_seq = 1
    /\ commit_head = ZeroDigest
    /\ write_index = [k \in Key |-> 0]
    /\ open = {}
    /\ log = << >>
    /\ durable = 0
    /\ torn = FALSE
    /\ poisoned = FALSE
    /\ acked = {}

\* Mutant: the clamp below the open sentinel dropped.
SnapshotUnclamped(now) == Maximum(now, cursor)

SnapshotAt(now) == Minimum(Maximum(now, cursor), Open - 1)

(* begin, with a clock that reads now (any reading: the clock may regress). *)
Begin(now) ==
    /\ status = "up"
    /\ next_txn <= MaxTxn
    /\ cursor' = SnapshotAt(now)
    /\ open' = open \cup {[id |-> next_txn, snapshot |-> SnapshotAt(now), writes |-> {}]}
    /\ next_txn' = next_txn + 1
    /\ UNCHANGED <<status, next_seq, commit_head, write_index, wal, acked>>

(* Transaction::write. *)
Write(t, k) ==
    /\ status = "up"
    /\ open' = (open \ {t}) \cup {[t EXCEPT !.writes = @ \cup {k}]}
    /\ UNCHANGED <<status, memory, wal, acked>>

(* A transaction dropped without commit. *)
Rollback(t) ==
    /\ status = "up"
    /\ open' = open \ {t}
    /\ UNCHANGED <<status, memory, wal, acked>>
-----------------------------------------------------------------------------
(***************************************************************************)
(* commit consumes the transaction whatever its outcome.                   *)
(***************************************************************************)
Consume(t) == status = "up" /\ open' = open \ {t}

\* Mutant: the conflict check dropped.
ConflictIgnored(t) == FALSE

Conflicts(t) == \E k \in t.writes : write_index[k] > t.snapshot

\* Mutant: the clock reading trusted without the bump past the cursor.
CommitTsOfClock(now) == Maximum(now, cursor)

CommitTs(now) == Maximum(now, cursor + 1)

Loggable(t, now) == ~Conflicts(t) /\ CommitTs(now) < Open

\* Mutant: the append alone.
AppendOnly(r) ==
    /\ ~poisoned
    /\ log' = Append(log, r)
    /\ UNCHANGED <<durable, torn, poisoned>>

(* wal.append and wal.tick both succeed: the whole log is fsynced. *)
AppendAndTick(r) ==
    /\ ~poisoned
    /\ log' = Append(log, r)
    /\ durable' = Len(log) + 1
    /\ UNCHANGED <<torn, poisoned>>

\* Mutant: the running head not advanced.
PublishStaleHead(r) ==
    /\ cursor' = r.commit_ts
    /\ next_seq' = r.seq + 1
    /\ write_index' = [k \in Key |-> IF k \in r.writes THEN r.commit_ts ELSE write_index[k]]
    /\ acked' = acked \cup {r.seq}
    /\ UNCHANGED <<next_txn, commit_head>>

(* The commit is published only once its record is durable. *)
Publish(r) ==
    /\ cursor' = r.commit_ts
    /\ next_seq' = r.seq + 1
    /\ commit_head' = Hash(r)
    /\ write_index' = [k \in Key |-> IF k \in r.writes THEN r.commit_ts ELSE write_index[k]]
    /\ acked' = acked \cup {r.seq}
    /\ UNCHANGED next_txn

CommitConflict(t) ==
    /\ Consume(t)
    /\ Conflicts(t)
    /\ UNCHANGED <<status, memory, wal, acked>>

CommitTimeExhausted(t, now) ==
    /\ Consume(t)
    /\ ~Conflicts(t)
    /\ CommitTs(now) >= Open
    /\ UNCHANGED <<status, memory, wal, acked>>

(* The append is refused (poisoned WAL) or fails with nothing written. *)
CommitAppendFails(t, now) ==
    /\ Consume(t)
    /\ Loggable(t, now)
    /\ UNCHANGED <<status, memory, wal, acked>>

(* The append fails after part of the frame landed: the WAL poisons. *)
CommitAppendTears(t, now) ==
    /\ Consume(t)
    /\ Loggable(t, now)
    /\ ~poisoned
    /\ torn' = TRUE
    /\ poisoned' = TRUE
    /\ UNCHANGED <<status, memory, log, durable, acked>>

(* The frame is appended but its fsync fails: the WAL poisons and the      *)
(* record's durability stays open until recovery reads the log.            *)
CommitFsyncFails(t, now) ==
    /\ Consume(t)
    /\ Loggable(t, now)
    /\ ~poisoned
    /\ log' = Append(log, CommitRecord(t, CommitTs(now)))
    /\ poisoned' = TRUE
    /\ UNCHANGED <<status, memory, durable, torn, acked>>

CommitOk(t, now) ==
    LET r == CommitRecord(t, CommitTs(now))
    IN  /\ Consume(t)
        /\ Loggable(t, now)
        /\ AppendAndTick(r)
        /\ Publish(r)
        /\ UNCHANGED status
-----------------------------------------------------------------------------
(***************************************************************************)
(* A crash loses the memory.  The disk keeps the fsynced frames and any    *)
(* prefix of the others; a frame cut short, or an already torn tail that   *)
(* reached the disk, is a partial frame.                                   *)
(***************************************************************************)
Crash(kept) ==
    /\ status = "up"
    /\ kept \in durable .. Len(log)
    /\ status' = "down"
    /\ log' = SubSeq(log, 1, kept)
    /\ torn' \in IF kept < Len(log) \/ torn THEN BOOLEAN ELSE {FALSE}
    /\ open' = {}
    /\ UNCHANGED <<memory, durable, poisoned, acked>>

(* recover on a log that replays whole and whose chain verifies. *)
RecoverOk ==
    /\ status \in {"down", "refused"}
    /\ ~torn /\ ChainVerifies(log)
    /\ status' = "up"
    /\ cursor' = RecoveredTs(log)
    /\ next_txn' = MaxTxnId(log) + 1
    /\ next_seq' = RecoveredSeq(log) + 1
    /\ commit_head' = RecoveredHead(log)
    /\ write_index' = [k \in Key |-> 0]
    /\ poisoned' = FALSE
    /\ UNCHANGED <<open, log, durable, torn, acked>>

(* recover fails closed on a torn tail or a broken link. *)
RecoverRefused ==
    /\ status \in {"down", "refused"}
    /\ torn \/ ~ChainVerifies(log)
    /\ status' = "refused"
    /\ UNCHANGED <<memory, open, wal, acked>>

Next ==
    \/ \E now \in Time : Begin(now)
    \/ \E t \in open, k \in Key : Write(t, k)
    \/ \E t \in open : Rollback(t) \/ CommitConflict(t)
    \/ \E t \in open, now \in Time :
          \/ CommitTimeExhausted(t, now)
          \/ CommitAppendFails(t, now)
          \/ CommitAppendTears(t, now)
          \/ CommitFsyncFails(t, now)
          \/ CommitOk(t, now)
    \/ \E kept \in 0 .. Len(log) : Crash(kept)
    \/ RecoverOk
    \/ RecoverRefused

Spec == Init /\ [][Next]_vars
-----------------------------------------------------------------------------
Transaction == [id : Nat, snapshot : 0 .. Open - 1, writes : SUBSET Key]

LogRecord == [txn_id : Nat, commit_ts : 0 .. Open - 1, seq : Nat \ {0},
              prev_hash : Seq(Nat \X Nat \X Nat), snapshot : 0 .. Open - 1,
              writes : SUBSET Key]

\* Every variable of the manager and of its commit log has its type.
TypeOK ==
    /\ status \in {"up", "down", "refused"}
    /\ cursor \in 0 .. Open - 1
    /\ next_txn \in Nat \ {0}
    /\ next_seq \in Nat \ {0}
    /\ commit_head \in Seq(Nat \X Nat \X Nat)
    /\ write_index \in [Key -> 0 .. Open - 1]
    /\ open \subseteq Transaction
    /\ log \in Seq(LogRecord)
    /\ durable \in 0 .. Len(log)
    /\ torn \in BOOLEAN
    /\ poisoned \in BOOLEAN
    /\ acked \subseteq (Nat \ {0})

\* First committer wins (commit's conflict check): of two logged commits that
\* wrote a common key, one committed at or before the other's snapshot, also
\* when a crash emptied the write index between them.
FirstCommitterWins ==
    \A i, j \in 1 .. Len(log) :
        i < j /\ log[i].writes \cap log[j].writes # {}
            => log[i].commit_ts <= log[j].snapshot

\* The log is in commit order: timestamps strictly increase and sequence
\* numbers count the frames from 1, across crashes, failed fsyncs and
\* recoveries (the order verify_chain_recover relies on).
CommitOrder ==
    /\ \A i \in 1 .. Len(log) : log[i].seq = i
    /\ \A i, j \in 1 .. Len(log) : i < j => log[i].commit_ts < log[j].commit_ts

\* No transaction id is logged twice, although recovery restarts the
\* allocator from the log alone and begin-time ids are not logged.
TxnIdsUnique ==
    \A i, j \in 1 .. Len(log) : log[i].txn_id = log[j].txn_id => i = j

\* The hash chain of the log verifies in every state, so recovery never
\* refuses a log no one tampered with for a broken link.
ChainIntact == ChainVerifies(log)

\* A commit that returned Ok is among the fsynced frames for ever.
AckedDurable == \A s \in acked : \E i \in 1 .. durable : log[i].seq = s

\* A reader's snapshot is stable: no step logs a commit at or below the
\* snapshot of a transaction that is open.
SnapshotStable ==
    [][\A t \in open, i \in DOMAIN log' \ DOMAIN log : log'[i].commit_ts > t.snapshot]_vars
-----------------------------------------------------------------------------
(* The strengthening that makes the safety invariants inductive.           *)

\* Some frame of every prefix of the log carries its greatest id: what the
\* recovered allocator starts from, whatever prefix a crash keeps.
PrefixMax ==
    \A n \in 1 .. Len(log) :
        \E j \in 1 .. n : \A i \in 1 .. n : log[i].txn_id <= log[j].txn_id

\* Ids: every logged and every outstanding id is below the allocator, and no
\* two of them are equal.
IdsBelowAllocator ==
    /\ \A i \in 1 .. Len(log) : log[i].txn_id < next_txn
    /\ \A t \in open : t.id < next_txn
    /\ \A t \in open, i \in 1 .. Len(log) : log[i].txn_id # t.id
    /\ \A t, u \in open : t.id = u.id => t = u

\* While the WAL accepts appends, the published state is the log's tail: the
\* next sequence number and head continue it, no commit is past the cursor,
\* and the write index holds every commit an open snapshot cannot see.
PublishedIsLogTail ==
    /\ next_seq = Len(log) + 1
    /\ commit_head = RecoveredHead(log)
    /\ \A i \in 1 .. Len(log) : log[i].commit_ts <= cursor
    /\ \A t \in open, i \in 1 .. Len(log) : \A k \in log[i].writes :
           log[i].commit_ts > t.snapshot => log[i].commit_ts <= write_index[k]

IndInv ==
    /\ TypeOK
    /\ FirstCommitterWins
    /\ CommitOrder
    /\ TxnIdsUnique
    /\ ChainIntact
    /\ \A s \in acked : s <= durable
    /\ PrefixMax
    /\ status # "up" => open = {}
    /\ status = "up" => IdsBelowAllocator /\ \A t \in open : t.snapshot <= cursor
    /\ status = "up" /\ ~poisoned => PublishedIsLogTail
=============================================================================
