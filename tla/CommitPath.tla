----------------------------- MODULE CommitPath -----------------------------
(***************************************************************************)
(* The session engine's commit path (crates/stele-engine/src/lib.rs:       *)
(* commit, apply_group, finish_group_commit, record_commit, recover; the   *)
(* commit log; DmlWriter's group commit and recover_replay in              *)
(* crates/stele-storage/src/dml.rs).  A transaction writes one two-phase   *)
(* leg to the WAL of each table it touches, then one record to the commit  *)
(* log; recovery admits a leg when the commit log names its id.            *)
(*                                                                         *)
(* A commit is several fsyncs long, so it is several steps; the engine     *)
(* mutex keeps other calls out, a crash may fall between any two.  A leg   *)
(* and a record carry, besides the transaction id the code writes, the     *)
(* identity uid of the commit attempt, for the properties.  A crash or a   *)
(* failed append may leave a torn frame in the commit log, which nothing   *)
(* removes; the WALs are cut at a frame boundary, module Wal tears them.   *)
(***************************************************************************)
EXTENDS Integers, Sequences, FiniteSets, FiniteSetsExt

CONSTANTS
    Table,      \* the tables, each with a WAL of its own
    MaxCommits, \* bound on the commit attempts
    MaxCrashes, \* bound on the crashes
    Faults,     \* which I/O faults occur, a subset of FaultKinds
    Flushes     \* which callers flush, a subset of FlushKinds

FaultKinds == {"append", "fsync", "record"}
FlushKinds == {"statement", "backup"}

ASSUME FaultsAssumption == Faults \subseteq FaultKinds /\ Flushes \subseteq FlushKinds
ASSUME BoundsAssumption == MaxCommits \in Nat /\ MaxCrashes \in Nat

VARIABLES
    wal,             \* table -> its WAL's legs, each [txn, uid]
    wal_synced,      \* table -> how many legs an fsync has covered
    wal_poisoned,    \* table -> its WAL refuses appends and ticks
    commits,         \* the commit log's frames, each [txn, uid] or Torn
    commits_synced,  \* how many of them an fsync has covered
    sealed,          \* table -> the writes in its vouched segments
    replay_floor,    \* table -> the leg replay resumes after
    up,              \* the process runs
    resident,        \* table -> the writes in its delta
    next_txn,        \* SessionEngine.next_txn
    commit_poisoned, \* SessionEngine.commit_poisoned
    current,         \* the commit in progress, or NoCommit
    attempts,        \* uid -> id, tables touched and outcome (history)
    crashes          \* crashes so far

disk == <<wal, wal_synced, commits, commits_synced, sealed, replay_floor>>
vars == <<disk, wal_poisoned, up, resident, next_txn, commit_poisoned,
          current, attempts, crashes>>

NoCommit == [uid |-> 0]
Idle == up /\ current = NoCommit

(* A write as it sits in a delta or a segment: its transaction id and, for *)
(* the properties, the attempt it belongs to.                              *)
Write(c) == [txn |-> c.txn, uid |-> c.uid]

(* commit_log::replay reads the frames before the first torn one.          *)
Torn == [txn |-> 0, uid |-> 0]
FirstTorn(l) == Min({i \in DOMAIN l : l[i] = Torn} \cup {Len(l) + 1})
Readable(l) == SubSeq(l, 1, FirstTorn(l) - 1)
TornInside(l) == FirstTorn(l) < Len(l)

(* The distinct tables of a commit, in first-touch order. *)
TouchOrders == {s \in UNION {[1 .. n -> Table] : n \in 1 .. Cardinality(Table)} :
                    \A i, j \in DOMAIN s : s[i] = s[j] => i = j}
TablesOf(s) == {s[i] : i \in DOMAIN s}

Init ==
    /\ wal = [t \in Table |-> << >>]
    /\ wal_synced = [t \in Table |-> 0]
    /\ wal_poisoned = [t \in Table |-> FALSE]
    /\ commits = << >>
    /\ commits_synced = 0
    /\ sealed = [t \in Table |-> {}]
    /\ replay_floor = [t \in Table |-> 0]
    /\ up = TRUE
    /\ resident = [t \in Table |-> {}]
    /\ next_txn = 1
    /\ commit_poisoned = FALSE
    /\ current = NoCommit
    /\ attempts = << >>
    /\ crashes = 0
-----------------------------------------------------------------------------
(* commit up to finish_group_commit: an id is taken and every write is     *)
(* applied, resident, to the tables' deltas.                               *)
ApplyGroup(touched) ==
    /\ Idle
    /\ ~commit_poisoned
    /\ Len(attempts) < MaxCommits
    /\ LET c == [uid |-> Len(attempts) + 1, txn |-> next_txn, legs |-> touched]
       IN  /\ current' = c
           /\ resident' = [t \in Table |-> IF t \in TablesOf(touched)
                                           THEN resident[t] \cup {Write(c)} ELSE resident[t]]
    /\ next_txn' = next_txn + 1
    /\ attempts' = Append(attempts, [txn |-> next_txn, tables |-> TablesOf(touched), outcome |-> "pending"])
    /\ UNCHANGED <<disk, wal_poisoned, up, commit_poisoned, crashes>>

(* A write fails to apply: every touched table aborts its group, and only *)
(* the id is consumed.                                                     *)
ApplyFails(touched) ==
    /\ Idle
    /\ ~commit_poisoned
    /\ Len(attempts) < MaxCommits
    /\ next_txn' = next_txn + 1
    /\ attempts' = Append(attempts, [txn |-> next_txn, tables |-> TablesOf(touched), outcome |-> "refused"])
    /\ UNCHANGED <<disk, wal_poisoned, up, resident, commit_poisoned, current, crashes>>

\* Mutant: the legs after the failed one left in the delta.
ReturnKeepsRest(outcome, undone) ==
    /\ current' = NoCommit
    /\ resident' = resident
    /\ attempts' = [attempts EXCEPT ![current.uid].outcome = outcome]

(* The commit returns, with its outcome; the deltas of the tables in undone *)
(* are rolled back (finish_group's undo, abort_group).                      *)
Return(outcome, undone) ==
    /\ current' = NoCommit
    /\ resident' = [t \in Table |-> IF t \in undone THEN resident[t] \ {Write(current)}
                                                    ELSE resident[t]]
    /\ attempts' = [attempts EXCEPT ![current.uid].outcome = outcome]

InCommit == up /\ current # NoCommit

(* finish_group for the next table: append, then fsync. *)
LegOk ==
    /\ InCommit
    /\ current.legs # << >>
    /\ LET t == Head(current.legs)
       IN  /\ ~wal_poisoned[t]
           /\ wal' = [wal EXCEPT ![t] = Append(@, Write(current))]
           /\ wal_synced' = [wal_synced EXCEPT ![t] = Len(wal[t]) + 1]
    /\ current' = [current EXCEPT !.legs = Tail(@)]
    /\ UNCHANGED <<commits, commits_synced, sealed, replay_floor, wal_poisoned, up,
                   resident, next_txn, commit_poisoned, attempts, crashes>>

(* The append fails with nothing written, or the WAL is poisoned: this leg *)
(* is undone and the ones after it aborted.  The legs before it stay.      *)
LegAppendFails ==
    /\ InCommit
    /\ current.legs # << >>
    /\ wal_poisoned[Head(current.legs)] \/ "append" \in Faults
    /\ Return("refused", TablesOf(current.legs))
    /\ UNCHANGED <<disk, wal_poisoned, up, next_txn, commit_poisoned, crashes>>

(* The append lands but the fsync fails: the WAL poisons, this leg's rows   *)
(* stay, the legs after it are aborted.                                     *)
LegFsyncFails ==
    /\ InCommit
    /\ current.legs # << >>
    /\ "fsync" \in Faults
    /\ LET t == Head(current.legs)
       IN  /\ ~wal_poisoned[t]
           /\ wal' = [wal EXCEPT ![t] = Append(@, Write(current))]
           /\ wal_poisoned' = [wal_poisoned EXCEPT ![t] = TRUE]
    /\ Return("refused", TablesOf(Tail(current.legs)))
    /\ UNCHANGED <<wal_synced, commits, commits_synced, sealed, replay_floor, up,
                   next_txn, commit_poisoned, crashes>>

(* record_commit once every leg is durable: the commit point. *)
RecordOk ==
    /\ InCommit
    /\ current.legs = << >>
    /\ commits' = Append(commits, Write(current))
    /\ commits_synced' = Len(commits) + 1
    /\ Return("committed", {})
    /\ UNCHANGED <<wal, wal_synced, sealed, replay_floor, wal_poisoned, up, next_txn,
                   commit_poisoned, crashes>>

(* The record's append fails, whole or torn, or its fsync does: the        *)
(* session poisons.                                                        *)
RecordFails ==
    /\ InCommit
    /\ current.legs = << >>
    /\ "record" \in Faults
    /\ commits' \in {commits, Append(commits, Torn), Append(commits, Write(current))}
    /\ commit_poisoned' = TRUE
    /\ Return("refused", {})
    /\ UNCHANGED <<wal, wal_synced, commits_synced, sealed, replay_floor, wal_poisoned, up,
                   next_txn, crashes>>
-----------------------------------------------------------------------------
\* Mutant: the floor advanced past the log although nothing was sealed.
FlushForgetsDelta(t) ==
    /\ Idle
    /\ \/ "statement" \in Flushes /\ ~commit_poisoned
       \/ "backup" \in Flushes
    /\ ~wal_poisoned[t]
    /\ resident[t] # {}
    /\ replay_floor' = [replay_floor EXCEPT ![t] = Len(wal[t])]
    /\ wal_synced' = [wal_synced EXCEPT ![t] = Len(wal[t])]
    /\ resident' = [resident EXCEPT ![t] = {}]
    /\ UNCHANGED <<wal, commits, commits_synced, sealed, wal_poisoned, up, next_txn,
                   commit_poisoned, current, attempts, crashes>>

(* Engine::flush of one table, whose manifest record is the commit point.  *)
(* FLUSH and COMPACT are refused by a poisoned session; the admin API's    *)
(* backup flushes without that check.                                      *)
Flush(t) ==
    /\ Idle
    /\ \/ "statement" \in Flushes /\ ~commit_poisoned
       \/ "backup" \in Flushes
    /\ ~wal_poisoned[t]
    /\ resident[t] # {}
    /\ sealed' = [sealed EXCEPT ![t] = @ \cup resident[t]]
    /\ replay_floor' = [replay_floor EXCEPT ![t] = Len(wal[t])]
    /\ wal_synced' = [wal_synced EXCEPT ![t] = Len(wal[t])]
    /\ resident' = [resident EXCEPT ![t] = {}]
    /\ UNCHANGED <<wal, commits, commits_synced, wal_poisoned, up, next_txn,
                   commit_poisoned, current, attempts, crashes>>

(* The record a commit may have been writing. *)
InFlight == IF InCommit /\ current.legs = << >> THEN <<Write(current)>> ELSE << >>

Survivors(l, synced) ==
    {SubSeq(l, 1, k) : k \in synced .. Len(l)}
        \cup {Append(SubSeq(l, 1, k), Torn) : k \in synced .. (Len(l) - 1)}

(* A crash loses the memory and any suffix of the logs past their fsync,   *)
(* and may cut the last surviving frame of the commit log short.           *)
Crash ==
    /\ up
    /\ crashes < MaxCrashes
    /\ up' = FALSE
    /\ crashes' = crashes + 1
    /\ \E kept \in [Table -> 0 .. MaxCommits] :
          /\ \A t \in Table : kept[t] \in wal_synced[t] .. Len(wal[t])
          /\ wal' = [t \in Table |-> SubSeq(wal[t], 1, kept[t])]
    /\ commits' \in Survivors(commits \o InFlight, commits_synced)
    /\ current' = NoCommit
    /\ resident' = [t \in Table |-> {}]
    /\ wal_poisoned' = [t \in Table |-> FALSE]
    /\ commit_poisoned' = FALSE
    /\ UNCHANGED <<wal_synced, commits_synced, sealed, replay_floor, next_txn, attempts>>

(* recover_replay: the legs after the floor that the commit log admits. *)
CommittedTxns == {Readable(commits)[i].txn : i \in DOMAIN Readable(commits)}

\* Mutant: every leg admitted, as the single-table recovery does.
ReplayedUngated(t) == {wal[t][i] : i \in replay_floor[t] + 1 .. Len(wal[t])}

Replayed(t) ==
    {wal[t][i] : i \in {j \in replay_floor[t] + 1 .. Len(wal[t]) : wal[t][j].txn \in CommittedTxns}}

RecoveredView(t) == sealed[t] \cup Replayed(t)

(* recovery_marks and the chain's greatest id. *)
RecoveredIds == {w.txn : w \in UNION {RecoveredView(t) : t \in Table}} \cup CommittedTxns

\* Mutant: the allocator positioned at the greatest id, not past it.
NextTxnNotPast ==
    LET ids == {1} \cup RecoveredIds
    IN  CHOOSE m \in ids : \A x \in ids : x <= m

\* Mutant: the same, and nothing recovered restarts it at zero.
NextTxnFromZero ==
    LET ids == {0} \cup RecoveredIds
    IN  CHOOSE m \in ids : \A x \in ids : x <= m

RecoveredNextTxn ==
    LET ids == {0} \cup RecoveredIds
    IN  1 + CHOOSE m \in ids : \A x \in ids : x <= m

(* A torn frame with frames behind it may also make recovery refuse, which *)
(* leaves everything as it is.                                             *)
Recover ==
    /\ ~up
    /\ up' = TRUE
    /\ resident' = [t \in Table |-> Replayed(t)]
    /\ next_txn' = RecoveredNextTxn
    /\ UNCHANGED <<disk, wal_poisoned, commit_poisoned, current, attempts, crashes>>

Next ==
    \/ \E touched \in TouchOrders : ApplyGroup(touched) \/ ApplyFails(touched)
    \/ LegOk \/ LegAppendFails \/ LegFsyncFails
    \/ RecordOk \/ RecordFails
    \/ \E t \in Table : Flush(t)
    \/ Crash
    \/ Recover

Spec == Init /\ [][Next]_vars
-----------------------------------------------------------------------------
Leg == [txn : Nat \ {0}, uid : Nat \ {0}]

\* Every variable of the commit path has its type.
TypeOK ==
    /\ wal \in [Table -> Seq(Leg)]
    /\ wal_synced \in [Table -> Nat]
    /\ wal_poisoned \in [Table -> BOOLEAN]
    /\ commits \in Seq(Leg \cup {Torn})
    /\ commits_synced \in Nat
    /\ sealed \in [Table -> SUBSET Leg]
    /\ replay_floor \in [Table -> Nat]
    /\ up \in BOOLEAN
    /\ resident \in [Table -> SUBSET Leg]
    /\ next_txn \in Nat \ {0}
    /\ commit_poisoned \in BOOLEAN
    /\ current = NoCommit \/ /\ current.uid = Len(attempts)
                             /\ current.txn \in Nat \ {0}
                             /\ TablesOf(current.legs) \subseteq Table
    /\ \A i \in DOMAIN attempts : attempts[i].tables \subseteq Table
                                  /\ attempts[i].outcome \in {"pending", "refused", "committed"}
    /\ crashes \in 0 .. MaxCrashes

UidsIn(ws) == {w.uid : w \in ws}

RecoveredInAll(u) == \A t \in attempts[u].tables : u \in UidsIn(RecoveredView(t))
RecoveredInNone(u) == \A t \in attempts[u].tables : u \notin UidsIn(RecoveredView(t))

\* Without exception: a commit that returned Ok is recovered in every table
\* it wrote, whatever crashed, failed or was flushed since.
EveryAckedRecovered ==
    \A u \in DOMAIN attempts : attempts[u].outcome = "committed" => RecoveredInAll(u)

\* The same, as long as no record was appended behind a torn frame.
AckedRecovered == ~TornInside(commits) => EveryAckedRecovered

OwnsItsId(u) == \A v \in DOMAIN attempts : attempts[v].txn = attempts[u].txn => v = u
UnackedAndSealed(u) ==
    attempts[u].outcome # "committed" /\ \E t \in Table : u \in UidsIn(sealed[t])

\* Recovery is all-or-none across tables: after a crash, an attempt is
\* recovered in every table it wrote or in none.  This leaves out the
\* attempts whose id was given out again, the unacknowledged ones that a
\* flush has sealed and the ones recorded behind a torn frame, which
\* NeverHalfRecovered keeps in.
AllOrNone ==
    ~up /\ ~TornInside(commits) =>
        \A u \in DOMAIN attempts :
            OwnsItsId(u) /\ ~UnackedAndSealed(u) => RecoveredInAll(u) \/ RecoveredInNone(u)

\* commit's promise without exception: whatever was refused, flushed or
\* restarted in between, no restart recovers one table of a transaction
\* without the others.
NeverHalfRecovered ==
    ~up => \A u \in DOMAIN attempts : RecoveredInAll(u) \/ RecoveredInNone(u)

\* While nothing is poisoned, what the session serves between two commits is
\* what a restart would recover, for every commit that succeeded or that
\* touched one table: such a commit, once refused, leaves no row that is
\* seen now and gone after a restart, or the other way round.
LiveIsRecovered ==
    Idle /\ ~commit_poisoned /\ (\A t \in Table : ~wal_poisoned[t]) /\ ~TornInside(commits) =>
        \A t \in Table, u \in DOMAIN attempts :
            /\ OwnsItsId(u)
            /\ attempts[u].outcome = "committed" \/ Cardinality(attempts[u].tables) = 1
            => (u \in UidsIn(resident[t] \cup sealed[t]) <=> u \in UidsIn(RecoveredView(t)))

\* The commit log never names a transaction id twice, in the records replay
\* reads, although recovery restarts the allocator from what it recovered.
CommittedIdsUnique ==
    \A i, j \in DOMAIN Readable(commits) : commits[i].txn = commits[j].txn => i = j
=============================================================================
