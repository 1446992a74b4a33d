----------------------------- MODULE SessionTxn -----------------------------
(***************************************************************************)
(* The transactions of the session engine (crates/stele-engine/src/lib.rs: *)
(* SessionTransaction, SnapshotLease, begin, stage_dml, repin_snapshot,    *)
(* commit, apply_dml, prune_write_index): buffered writes with one         *)
(* conflict anchor each, savepoints, READ COMMITTED re-pinning, the        *)
(* multiset of open snapshots and the write index it prunes.               *)
(*                                                                         *)
(* Each engine call runs under the one engine mutex and is one action.  A  *)
(* write is its key: values, tables and statement shapes are not told      *)
(* apart.  Durability and poisoning are the subject of module CommitPath.  *)
(***************************************************************************)
EXTENDS Integers, Sequences, FiniteSets, FiniteSetsExt

CONSTANTS
    Client,        \* connections that may hold a transaction block
    Key,           \* (table, business key) pairs
    Name,          \* savepoint names
    Isolation,     \* the isolation levels clients may ask for
    DdlInBlock,    \* whether clients run DDL inside a block
    MaxTime,       \* bound on the clock
    MaxWrites,     \* bound on the writes staged at once, over all blocks
    MaxSavepoints  \* bound on the savepoints open at once, over all blocks

ASSUME IsolationAssumption == Isolation \subseteq {"RepeatableRead", "ReadCommitted"}
ASSUME BoundsAssumption == MaxTime \in Nat /\ MaxWrites \in Nat /\ MaxSavepoints \in Nat

VARIABLES
    clock,           \* MonotonicClock.high_water
    txn,             \* each client's SessionTransaction, or Idle
    open_snapshots,  \* the multiset of leased snapshots: instant -> count
    write_index,     \* key -> instant of its latest committed write, 0 = absent
    pruned_below,    \* the floor of the last prune
    versions         \* every committed version, its write's anchor and last pin (history)

vars == <<clock, txn, open_snapshots, write_index, pruned_below, versions>>

Time == 0 .. MaxTime
Idle == [state |-> "idle"]
IsOpen(c) == txn[c] # Idle

Maximum(a, b) == IF a >= b THEN a ELSE b

\* What the bounds count.
StagedWrites == UNION {{<<c, i>> : i \in DOMAIN txn[c].writes} : c \in {d \in Client : IsOpen(d)}}
OpenSavepoints == UNION {{<<c, i>> : i \in DOMAIN txn[c].savepoints} : c \in {d \in Client : IsOpen(d)}}
-----------------------------------------------------------------------------
(* SnapshotLease: new, release (also Drop), repin. *)
Lease(snaps, s) == [snaps EXCEPT ![s] = @ + 1]

\* Mutant: the entry removed whatever its count.
ReleaseAll(snaps, s) == [snaps EXCEPT ![s] = 0]

Release(snaps, s) == [snaps EXCEPT ![s] = IF @ <= 1 THEN 0 ELSE @ - 1]

Repin(snaps, from, to) == IF from = to THEN snaps ELSE Lease(Release(snaps, from), to)

LiveSnapshots(snaps) == {s \in DOMAIN snaps : snaps[s] > 0}

\* Mutant: the read pin bumps the clock as a commit does.
ObserveBumps(now) == Maximum(now, clock + 1)

(* MonotonicClock::observe on a reading of the inner clock. *)
Observe(now) == Maximum(now, clock)

\* Mutant: the clock not moved strictly past its high-water mark.
CommitInstantsNoBump(n) ==
    {at \in [1 .. n -> clock .. MaxTime] : \A i, j \in 1 .. n : i < j => at[i] < at[j]}

(* MonotonicClock::now, once per applied write: strictly increasing instants *)
(* past the high-water mark, wherever the inner clock's readings fall.       *)
CommitInstants(n) ==
    {at \in [1 .. n -> clock + 1 .. MaxTime] : \A i, j \in 1 .. n : i < j => at[i] < at[j]}

(* apply_bound_dml's last step, over the first m writes of ws. *)
Recorded(idx, ws, at, m) ==
    [k \in Key |-> LET mine == {i \in 1 .. m : ws[i].key = k}
                   IN  IF mine = {} THEN idx[k] ELSE at[Max(mine)]]

\* Mutant: the floor taken from the clock, as when no block is open.
PruneFloorNow(snaps, now) == now

(* The oldest snapshot still leased. *)
PruneFloor(snaps, now) == Min(LiveSnapshots(snaps))

\* Mutant: the scan left out.
RetainAll(idx, floor) == idx

(* write_index.retain: the entries at or above the floor. *)
Retain(idx, floor) == [k \in Key |-> IF idx[k] >= floor THEN idx[k] ELSE 0]

(* prune_write_index: idx is the index before, snaps the leases, now the   *)
(* clock; the result goes to write_index' and pruned_below'.               *)
PruneWriteIndex(idx, snaps, now) ==
    LET live == LiveSnapshots(snaps)
        floor == PruneFloor(snaps, now)
    IN  \/ /\ live = {}
           /\ write_index' = [k \in Key |-> 0]
           /\ pruned_below' = now
        \/ /\ live # {} /\ floor > pruned_below
           /\ write_index' = Retain(idx, floor)
           /\ pruned_below' = floor
        \/ /\ live # {} /\ floor <= pruned_below
           /\ write_index' = idx
           /\ UNCHANGED pruned_below
-----------------------------------------------------------------------------
Init ==
    /\ clock = 0
    /\ txn = [c \in Client |-> Idle]
    /\ open_snapshots = [s \in Time |-> 0]
    /\ write_index = [k \in Key |-> 0]
    /\ pruned_below = 0
    /\ versions = {}

(* begin_with_isolation. *)
Begin(c, isolation, now) ==
    /\ ~IsOpen(c)
    /\ clock' = Observe(now)
    /\ txn' = [txn EXCEPT ![c] = [state |-> "open", isolation |-> isolation,
                                  snapshot |-> Observe(now), writes |-> << >>,
                                  savepoints |-> << >>]]
    /\ open_snapshots' = Lease(open_snapshots, Observe(now))
    /\ UNCHANGED <<write_index, pruned_below, versions>>

(* The part every statement of a block starts with: READ COMMITTED re-pins. *)
PinForStatement(c, now) ==
    IF txn[c].isolation = "ReadCommitted"
    THEN [snapshot |-> Observe(now), clock |-> Observe(now),
          snaps |-> Repin(open_snapshots, txn[c].snapshot, Observe(now))]
    ELSE [snapshot |-> txn[c].snapshot, clock |-> clock, snaps |-> open_snapshots]

(* execute_in_txn of a statement that stages nothing: a SELECT, or a point *)
(* UPDATE or DELETE of an absent key.                                      *)
Read(c, now) ==
    LET pin == PinForStatement(c, now)
    IN  /\ IsOpen(c)
        /\ clock' = pin.clock
        /\ txn' = [txn EXCEPT ![c].snapshot = pin.snapshot]
        /\ open_snapshots' = pin.snaps
        /\ UNCHANGED <<write_index, pruned_below, versions>>

(* execute_in_txn of a DML: stage_dml stages the keyed writes it expands   *)
(* to, all anchored at the snapshot it was bound against.                  *)
StageDml(c, ks, now) ==
    LET pin == PinForStatement(c, now)
    IN  /\ IsOpen(c)
        /\ Cardinality(StagedWrites) + Len(ks) <= MaxWrites
        /\ clock' = pin.clock
        /\ txn' = [txn EXCEPT
               ![c].snapshot = pin.snapshot,
               ![c].writes = @ \o [i \in 1 .. Len(ks) |-> [key |-> ks[i], anchor |-> pin.snapshot]]]
        /\ open_snapshots' = pin.snaps
        /\ UNCHANGED <<write_index, pruned_below, versions>>

(* execute_in_txn of a DDL: it commits at once, then the pin moves past it. *)
Ddl(c, now) ==
    LET pin == PinForStatement(c, now)
        at == Maximum(now, pin.clock + 1)
    IN  /\ DdlInBlock
        /\ IsOpen(c)
        /\ at <= MaxTime
        /\ clock' = at
        /\ txn' = [txn EXCEPT ![c].snapshot = at]
        /\ open_snapshots' = Repin(pin.snaps, pin.snapshot, at)
        /\ UNCHANGED <<write_index, pruned_below, versions>>

(* SET TRANSACTION ISOLATION LEVEL inside a block. *)
SetIsolation(c, isolation) ==
    /\ IsOpen(c)
    /\ txn' = [txn EXCEPT ![c].isolation = isolation]
    /\ UNCHANGED <<clock, open_snapshots, write_index, pruned_below, versions>>
-----------------------------------------------------------------------------
(* Savepoints. rposition: the innermost savepoint of that name.            *)
Named(c, name) == {i \in DOMAIN txn[c].savepoints : txn[c].savepoints[i].name = name}

Savepoint(c, name) ==
    /\ IsOpen(c)
    /\ Cardinality(OpenSavepoints) < MaxSavepoints
    /\ txn' = [txn EXCEPT ![c].savepoints =
                  Append(@, [name |-> name, mark |-> Len(txn[c].writes)])]
    /\ UNCHANGED <<clock, open_snapshots, write_index, pruned_below, versions>>

\* Mutant: the nested savepoints kept.
RollbackToKeepsNested(c, name) ==
    /\ IsOpen(c)
    /\ Named(c, name) # {}
    /\ LET idx == Max(Named(c, name))
       IN  txn' = [txn EXCEPT
               ![c].writes = SubSeq(@, 1, txn[c].savepoints[idx].mark)]
    /\ UNCHANGED <<clock, open_snapshots, write_index, pruned_below, versions>>

RollbackTo(c, name) ==
    /\ IsOpen(c)
    /\ Named(c, name) # {}
    /\ LET idx == Max(Named(c, name))
       IN  txn' = [txn EXCEPT
               ![c].writes = SubSeq(@, 1, txn[c].savepoints[idx].mark),
               ![c].savepoints = SubSeq(@, 1, idx)]
    /\ UNCHANGED <<clock, open_snapshots, write_index, pruned_below, versions>>

ReleaseSavepoint(c, name) ==
    /\ IsOpen(c)
    /\ Named(c, name) # {}
    /\ txn' = [txn EXCEPT ![c].savepoints = SubSeq(@, 1, Max(Named(c, name)) - 1)]
    /\ UNCHANGED <<clock, open_snapshots, write_index, pruned_below, versions>>
-----------------------------------------------------------------------------
(* ROLLBACK, or a dropped connection: the SessionTransaction is dropped. *)
Rollback(c) ==
    /\ IsOpen(c)
    /\ txn' = [txn EXCEPT ![c] = Idle]
    /\ open_snapshots' = Release(open_snapshots, txn[c].snapshot)
    /\ UNCHANGED <<clock, write_index, pruned_below, versions>>

\* Mutant: an entry one instant past the anchor let through.
ConflictsOffByOne(c) ==
    \E i \in DOMAIN txn[c].writes :
        write_index[txn[c].writes[i].key] > txn[c].writes[i].anchor + 1

Conflicts(c) ==
    \E i \in DOMAIN txn[c].writes :
        write_index[txn[c].writes[i].key] > txn[c].writes[i].anchor

(* commit refused by the conflict check: dropped, and nothing pruned. *)
CommitConflict(c) ==
    /\ IsOpen(c)
    /\ Conflicts(c)
    /\ txn' = [txn EXCEPT ![c] = Idle]
    /\ open_snapshots' = Release(open_snapshots, txn[c].snapshot)
    /\ UNCHANGED <<clock, write_index, pruned_below, versions>>

(* The part of commit after the conflict check, m of the writes applied at *)
(* the instants at, then the lease released and the index pruned.          *)
ApplyAndEnd(c, at, m) ==
    LET ws == txn[c].writes
        snaps == Release(open_snapshots, txn[c].snapshot)
    IN  /\ clock' = IF m = 0 THEN clock ELSE at[m]
        /\ txn' = [txn EXCEPT ![c] = Idle]
        /\ open_snapshots' = snaps
        /\ PruneWriteIndex(Recorded(write_index, ws, at, m), snaps, clock')

CommitOk(c) ==
    LET ws == txn[c].writes
    IN  /\ IsOpen(c)
        /\ ~Conflicts(c)
        /\ \E at \in CommitInstants(Len(ws)) :
              /\ ApplyAndEnd(c, at, Len(ws))
              /\ versions' = versions \cup
                     {[key |-> ws[i].key, at |-> at[i], anchor |-> ws[i].anchor,
                       pin |-> txn[c].snapshot, commit |-> at[1]] : i \in 1 .. Len(ws)}

(* A write fails to apply, or the group commit fails cleanly: the group is *)
(* aborted, but the index keeps the entries of the writes already applied. *)
CommitFails(c) ==
    /\ IsOpen(c)
    /\ ~Conflicts(c)
    /\ \E m \in 0 .. Len(txn[c].writes) : \E at \in CommitInstants(m) : ApplyAndEnd(c, at, m)
    /\ UNCHANGED versions

(* apply_dml: an auto-committed write reads and writes the present. *)
AutoCommit(k) ==
    \E at \in CommitInstants(1) :
        /\ clock' = at[1]
        /\ versions' = versions \cup
               {[key |-> k, at |-> at[1], anchor |-> clock, pin |-> clock, commit |-> at[1]]}
        /\ PruneWriteIndex([write_index EXCEPT ![k] = at[1]], open_snapshots, at[1])
        /\ UNCHANGED <<txn, open_snapshots>>

(* Its group commit fails cleanly after the apply: apply_dml returns early, *)
(* without the prune.                                                       *)
AutoCommitFails(k) ==
    \E at \in CommitInstants(1) :
        /\ clock' = at[1]
        /\ write_index' = [write_index EXCEPT ![k] = at[1]]
        /\ UNCHANGED <<txn, open_snapshots, pruned_below, versions>>

(* An inner reading below the high-water mark acts as the mark itself.      *)
Next ==
    \/ \E c \in Client :
          \/ \E iso \in Isolation, now \in clock .. MaxTime : Begin(c, iso, now)
          \/ \E now \in clock .. MaxTime : Read(c, now) \/ Ddl(c, now)
          \/ \E ks \in {<<k>> : k \in Key} \cup {<<k, l>> : k, l \in Key}, now \in clock .. MaxTime :
                StageDml(c, ks, now)
          \/ \E iso \in Isolation : SetIsolation(c, iso)
          \/ \E name \in Name : Savepoint(c, name) \/ RollbackTo(c, name) \/ ReleaseSavepoint(c, name)
          \/ Rollback(c) \/ CommitConflict(c) \/ CommitOk(c) \/ CommitFails(c)
    \/ \E k \in Key : AutoCommit(k) \/ AutoCommitFails(k)

Spec == Init /\ [][Next]_vars
-----------------------------------------------------------------------------
\* Every variable of the session's transactions has its type.
TypeOK ==
    /\ clock \in Time
    /\ \A c \in Client : IsOpen(c) =>
          /\ txn[c].isolation \in Isolation
          /\ txn[c].snapshot \in Time
          /\ \A i \in DOMAIN txn[c].writes :
                txn[c].writes[i].key \in Key /\ txn[c].writes[i].anchor \in Time
          /\ \A i \in DOMAIN txn[c].savepoints : txn[c].savepoints[i].name \in Name
    /\ open_snapshots \in [Time -> Nat]
    /\ write_index \in [Key -> Time]
    /\ pruned_below \in Time
    /\ versions \subseteq [key : Key, at : Time, anchor : Time, pin : Time, commit : Time]

Supersedes(w, v) == v.key = w.key /\ v.at < w.at /\ v.commit # w.commit

\* commit loses no update: a write never supersedes a version that another
\* commit installed after the snapshot the write was staged under, as long as
\* its block still holds that snapshot when it commits.
NoLostUpdate ==
    \A v, w \in versions : Supersedes(w, v) /\ w.pin = w.anchor => v.at <= w.anchor

\* The anchor's own promise: the conflict window of a write starts at the
\* snapshot it was staged under, even when its block was re-pinned since.
RepinForgivesNothing ==
    \A v, w \in versions : Supersedes(w, v) => v.at <= w.anchor

\* The multiset of leases is exactly the snapshots of the open blocks, so
\* its least member is the oldest snapshot any block reads at.
LeasesExact ==
    \A s \in Time : open_snapshots[s] = Cardinality({c \in Client : IsOpen(c) /\ txn[c].snapshot = s})

\* The write index holds every version committed after the snapshot some
\* open block reads at: pruning dropped nothing that snapshot needs.
IndexCoversPins ==
    \A c \in Client, v \in versions :
        IsOpen(c) /\ v.at > txn[c].snapshot => v.at <= write_index[v.key]

\* pruned_below is what its declaration says: no entry below it survives, so
\* the guard that skips the scan skips nothing prunable.
NothingBelowFloor ==
    \A k \in Key : write_index[k] # 0 => write_index[k] >= pruned_below

\* Savepoint marks stay within the buffer, in nesting order, whatever mix of
\* savepoints, rollbacks and releases came before.
MarksNest ==
    \A c \in Client : IsOpen(c) =>
        \A i, j \in DOMAIN txn[c].savepoints : i <= j =>
            /\ txn[c].savepoints[i].mark <= txn[c].savepoints[j].mark
            /\ txn[c].savepoints[j].mark <= Len(txn[c].writes)

\* A snapshot is repeatable: no commit installs a version at or below the
\* snapshot of a block that is open.
SnapshotRepeatable ==
    [][\A c \in Client, v \in versions' \ versions : IsOpen(c) => v.at > txn[c].snapshot]_vars
=============================================================================
