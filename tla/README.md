# A TLA+ verification project for stele-db

stele-db is a bitemporal, append-only SQL database. This directory holds TLA+
modules that model its transaction, commit and storage paths, the TLC
configurations that check them on small instances, and TLAPS proofs of the
transaction manager's invariants for every instance.

Paths below are relative to the repository's `crates/` directory, which
`PROJECT.json` names as `src/crates/`.

## 1. The system

A statement travels down these layers:

| Layer | Where | State it owns |
|---|---|---|
| wire protocol | `stele-pgwire` | per connection: transaction status, portals, skip-until-Sync latch |
| SQL | `stele-sql` | none: parse, bind, fold |
| session engine | `stele-engine/src/lib.rs` | one mutex around everything below: clock, id allocator, leases, write index, tables, catalog, the commit and catalog logs |
| transaction manager | `stele-txn` | snapshots, commit timestamps, hash-chained commit log (the engine re-implements its rules; both are modelled) |
| catalog | `stele-catalog`, `stele-engine/src/catalog_log.rs` | versioned schemas, indexes, roles and their log |
| table engine | `stele-storage/src/engine.rs`, `dml.rs`, `checkpoint.rs` | one WAL, delta, validity index, set of sealed segments and manifest per table |
| WAL | `stele-storage/src/wal/` | segments, durable and staged ends, parked commit futures |
| disk | `stele-storage/src/backend/` | files; append, sync, directory fence |

Nearly all concurrency sits at three places. The engine mutex serialises
statements, so what interleaves inside the engine is *blocks* (sequences of
calls), failing disk calls and crashes. The WAL has its own mutex and wakers
that fire outside it. The transaction manager has its own mutex.

## 2. Modules

| Module | Models | State, in the code's words |
|---|---|---|
| `TxnManager` | `stele-txn/src/{manager,chain,commit_record}.rs` | `State` (cursor, next_txn, next_seq, commit_head, write_index), the transactions handed out, the commit log's frames and how many are fsynced |
| `TxnManagerProofs` | proofs about `TxnManager` | |
| `SessionTxn` | `SessionTransaction`, `SnapshotLease`, `begin`, `stage_dml`, `repin_snapshot`, `commit`, `apply_dml`, `prune_write_index`, savepoints | clock, blocks with their staged writes and anchors, the multiset of leases, the write index and its prune floor |
| `CommitPath` | `commit`, `apply_group`, `finish_group_commit`, `record_commit`, `recover`; `DmlWriter::finish_group`, `recover_replay` | per table: WAL, synced prefix, delta, sealed rows, replay floor; commit log, torn frames included; poison flags; the commit in progress |
| `Wal` | `wal/log.rs`, `wal/replay.rs`, `wal/segment.rs` | segments of frames, staged and durable ends, waiters, poison, wakers about to fire, the tasks that await |
| `DurableTable` | the promise of a table engine (abstract) | rows a reader sees, rows in doubt, open or not |
| `TableEngine` | `engine.rs` (flush, compact, checkpoint, recover), `checkpoint.rs`, `dml.rs` | WAL and manifest frames (torn ones included), segment files, delta, sealed set, live set, segment index, replay floor, the call in progress |
| `Ddl` | `apply_ddl` and its arms, `fold_catalog_records`, `recover`, `close_dropped_eras`; `catalog_log.rs`; `versioned.rs`; `note_indexes`, `build_index_state` | live catalog, roles, owners, grants, tiers, index states; the catalog log's frames; per namespace the row records of its WAL and how many are fsynced |
| `MC…` | TLC instances | symmetry sets only |

How the modules meet: `TableEngine` implements `DurableTable` under a refinement
mapping; `CommitPath` and `TxnManager` see a WAL only through the contract that
`Wal` checks (an acknowledged frame is in the fsynced prefix, a failed fsync or a
torn append poisons); `SessionTxn` leaves durability to `CommitPath`; `Ddl` takes from
`CommitPath` that a row write is durable when it returns, and models the unsynced
closes of a dropped table itself.

Granularity. A call made under the engine mutex, the manager's mutex or the WAL
mutex is one action, with everything it does. Where such a call makes several
disk calls between which a crash can fall (a commit's legs and record, a flush's
tick, segment, fence and manifest record), it is cut at those calls and a
variable (`current`, `job`) holds what is left of it; nothing else of that
engine runs in between.

Data. Rows, keys and transactions are small integers or model values. A hash is
the sequence it digests (collision-free). A frame is whole, absent or `Torn`.
Properties sometimes need to know which *attempt* a leg belongs to although the
code stores only a transaction id; such fields (`uid`, `anchor`, `pin`) and the
variables marked "history" are never read by an action's guard.

Every module holds, beside a definition, the mutants of it (comment "Mutant:"):
the definition as a plausible bug would have it. Each property of each passing
run is violated when one of them is substituted, so each of them is known to
tell the code from that bug.

## 3. Runs

| Run | Instance | Shows |
|---|---|---|
| `txn_manager` | 2 keys, time 0..4, 3 ids | snapshot isolation, commit order, unique ids, an intact hash chain, durability of what was acknowledged, stable snapshots; failed and torn appends, failed fsyncs, any number of crashes, a clock that regresses or saturates |
| `session` | 2 blocks, 1 key, 2 savepoint names, both isolation levels, DDL, 3 instants, 2 staged writes and 2 savepoints at once | no lost update although the index is pruned; leases exact; the index covers every open snapshot; the prune floor is what it says; marks nest; snapshots are repeatable |
| `commit_path` | 2 tables, 3 commit attempts, 2 crashes, every fault, both kinds of flush | acknowledged commits are recovered in full; all-or-none otherwise; committed ids unique; what is served is what a restart recovers |
| `wal` | 2 tasks, 4 records, segments of 2 frames, every fault, 1 crash of either kind | no future resolves before its fsync, none is stranded, acknowledged records are replayed, every future resolves (liveness) |
| `table_engine` | 3 writes, 3 segments, 5 manifest records, 1 crash, torn WAL and manifest, every fault but a failed manifest fsync | the engine implements `DurableTable`; tiers disjoint; acknowledged rows served; the sealed set is its files |
| `ddl` | 2 names, 1 key, 1 index, 1 role, 4 catalog records, 6 instants, 2 namespaces, 2 crashes or faults | what a restart changes of the state the session keeps, and what a crash changes of the past, is no more than the cases listed below; acknowledged DDL is replayed; namespaces are never shared; a re-created name starts empty; an index covers its table |
| `session_forgiven` | 1 block, READ COMMITTED | *violated*: a re-pin moves the lease past the anchor of a staged write; the prune then drops the entry the write conflicts with |
| `commit_id_reuse` | 2 crashes, no fault | *violated*: an id recovery hands out again admits the leg its former owner abandoned |
| `commit_failed_leg` | 1 failed append, 1 flush, 1 crash | *violated*: the legs before the failed one stay in their deltas, and a flush seals them |
| `commit_torn_tail` | 1 table, 2 commits, 1 crash, no fault | *violated*: a record cut short by a crash stays in the commit log, and the commits recorded behind it are not recovered |
| `wal_two_crashes` | 2 power losses | *violated*: the torn tail stays in the reopened log and hides what is acknowledged after it |
| `table_store_sync` | 1 failed manifest fsync, 1 crash | *violated*: the record of a failed compaction names a segment index that the next flush reuses |

The violated runs are the project's findings. Each states what a comment of the
code says and shows a behaviour of the code that contradicts it;
`PROJECT.json` quotes the comment.

### Disagreements that no run of their own shows

Four more behaviours of the code contradict what its text says of it. The
properties above state them as their exceptions, so the runs pass with them.

- *A table refused after two crashes.* A crash leaves a torn frame at the end of
  a WAL; recovery tolerates it and leaves it in the file. A later CHECKPOINT, or
  a FLUSH of an empty delta, records a fence past it (`engine.rs:779`,
  `engine.rs:839`). The next recovery meets a torn frame below the fence and
  refuses the table, although `dml.rs:719` calls such a frame "real
  durable-region corruption, **not** a torn tail". `table_engine` allows one
  crash, and its refinement says nothing of a refused table: its rows are taken
  to be those of its log, which no reader can reach.
- *A failed statement that a restart carries out.* A catalog record whose fsync
  failed stays in the log; the session goes on without it and a restart folds
  it. `versioned.rs:46` says "the live catalog and the log can never disagree".
  `RestartChangesOnly` says that there is at most one such record behind the
  ones the session has linked.
- *Privileges of a dropped table.* A live DROP TABLE keeps the owner and the
  grants of the name until it is created again; the fold takes them away at the
  drop, as `docs/sql-grammar.md:596` says ("Dropping a table or a role forgets
  every privilege attached to it"). An AS OF read of the dropped table is
  authorized against them. `RestartChangesOnly` says that the privileges on
  open tables are all that a restart keeps.
- *A dropped row in the past of the next era.* INSERT, DROP, CREATE, crash: the
  crash may lose the close of the row, which is not synced, and recovery closes
  it again at a later instant. An AS OF read between the second CREATE and that
  instant was empty before the crash and shows the row of the dropped era after
  it; `docs/16-bitemporal-semantics.md:75` calls a change of the past "a
  critical bug". `HistoryStable` reads the tier as the code does, with no filter
  by era. It says that nothing else about the past ever changes.

### Bounds, and why they are enough

- Each bound is named (`MaxTxn`, `MaxTime`, `MaxCommits`, `MaxCrashes`, …) and sits in
  a guard. Time ends at `Open` in `TxnManager`, because the code clamps there:
  saturation is a case, not a cut-off. Elsewhere `MaxTime` is a bound.
- Three commit attempts and two crashes let one incarnation meet the leftovers of
  another and be replaced by a third; two tables are what "half a transaction"
  needs. Three writes allow a sealed, a flushed-and-compacted and a logged row at
  once. Segments of two frames make rotation happen with and without an
  unsynced frame.
- `wal` and `table_engine` allow one crash, because the second one is where
  `wal_two_crashes` breaks; `table_engine` leaves out the failed manifest fsync
  for `table_store_sync`'s reason. `commit_path` allows everything and states
  `AllOrNone` for attempts that own their id and were not sealed after a refusal;
  `NeverHalfRecovered` is the statement without these exceptions, which
  `commit_id_reuse` and `commit_failed_leg` refute. Once a record stands behind a torn
  frame of the commit log, nothing is claimed; `EveryAckedRecovered` drops that
  condition, and `commit_torn_tail` refutes it.
- `ddl`: four records create, drop and re-create a name with one statement to
  spare; two mishaps (crashes and I/O faults together) allow a fault and the
  restart that meets its debris, or two crashes. The catalog log has the
  weakness of the commit log, so `AckedReplayed` and `RestartChangesOnly` are
  conditioned on `Spoiled`; what
  follows a recovery that read a torn frame as the end of the log (status
  `truncated`) is not explored. Two more exceptions are stated by name: a close
  that failed while the server kept running (`unclosed`), and a statement whose
  fsync failed and which a restart then carries out at its old instant
  (`Undecided`). The host clock is taken not to step back over a restart.
- Symmetry is used for keys, clients, savepoint names, tables and table names, in runs
  without liveness properties only.

`CHECK_DEADLOCK FALSE` is set where the system really stops: a poisoned WAL
refuses all work until a restart, a refused recovery is final, and the bounded
runs exhaust their crashes. The transaction manager and the session runs check
deadlock.

### Fairness

Only `wal` needs it (`CommitsResolve`). `WF(TickOk)`: the driver of the log keeps
calling `tick`, and a tick that keeps failing has poisoned the log after one
failure, which disables `TickOk`. `WF(Poll)` of a runnable future and `WF(Wake)` of a
collected waker: what any executor does. Nothing is assumed of appends, drops,
crashes or reopening.

## 4. Proofs

`TxnManagerProofs` proves, for every set of keys, every end of time and every
number of transactions and crashes, that each property of the `txn_manager` run
holds (`TypeCorrect`, `SnapshotIsolation`, `LogInCommitOrder`, `IdsNeverReused`,
`ChainAlwaysVerifies`, `AckedSurvives`, `SnapshotsAreStable`). The assumptions are those the
module declares: `Open` is a positive natural number, `MaxTxn` a natural number.

None of these is inductive. `IndInv` (in `TxnManager`) adds what they rest on:

- `PublishedIsLogTail`: while the WAL accepts appends, sequence number and head
  continue the log, no logged commit is past the cursor, and the write index
  holds every commit that an open snapshot cannot see. A failed fsync breaks
  this, and only the poison it sets makes that harmless.
- `IdsBelowAllocator` and `PrefixMax`: the allocator is past every logged and every
  outstanding id, and some frame of *every prefix* carries the prefix's greatest
  id, which is what recovery reads after a crash kept that prefix.
- a crash closes every transaction; acknowledged sequence numbers lie in the
  fsynced prefix.

The proof has one lemma per action (`BeginStep`, `CommitOkStep`, `CrashStep`,
`RecoverStep`, …) on top of two lemmas about what an append and a cut do to the log
(`AppendKeepsLogInv`, `PrefixKeepsLogInv`).

Only model-checked: every other module; liveness, which is beyond the prover;
the refinement of `DurableTable`.

## 5. What is not modelled yet, and the plan

Left out for good: parsing, name binding and formatting (`stele-sql` apart from its
rewrites, codecs in `stele-common`, text and binary formats of `stele-pgwire`), the
command line, the client, TLS and SCRAM, the simulator and other test support:
they own no state the database depends on. `PROJECT.json` lists every part with
its status.

Planned, in this order:

1. **Bitemporal tier**: `systime.rs`, `validtime.rs`, the validity index, delta
   spills and sealed segments; an abstract table of versions with `AS OF`, and the
   tiered one shown to implement it; history below an instant never changes.
   Theorem: the abstract table's versions of a key never overlap.
2. **Algorithms** as operators against reference definitions: the period
   algebra, zone-map and bloom pruning, interval covers, merges, joins and
   aggregation of the executor.
3. **Wire**: transaction status, the extended protocol's skip-until-Sync, COPY,
   admin calls and shutdown over the engine mutex.
4. **Bulk COPY, backup and restore**: chunks committed as one group, a backup taken
   between two of them, a restore over the logs it copied.
5. **More proofs**: `Ddl` (namespaces distinct), `SessionTxn` (leases and index cover every snapshot), `Wal`
   (acknowledged frames are synced, no stranded waiter), and the refinement of
   `DurableTable`.
