-------------------------------- MODULE Ddl --------------------------------
(***************************************************************************)
(* Data definition and the durable catalog (crates/stele-engine/src/       *)
(* lib.rs: apply_ddl and its arms, recover, fold_catalog_records,          *)
(* close_dropped_eras; catalog_log.rs; crates/stele-catalog/src/           *)
(* versioned.rs; Engine::close_all_open and close_dropped_era).  A         *)
(* statement appends one hash-chained record to the catalog log and fsyncs *)
(* it, then changes the live catalog; DROP TABLE afterwards closes the     *)
(* open rows of the dropped era, without an fsync.  Recovery folds the     *)
(* records, reopens every namespace and re-derives the closes.             *)
(*                                                                         *)
(* A table's rows are a function of its WAL.  A row write is durable when  *)
(* it returns (module CommitPath).  Instants are consecutive: a refused    *)
(* statement also draws one, and only their order matters.  The host clock *)
(* is taken not to step back over a restart.  Left out: the checks that    *)
(* read owners and grants, and a tier's valid-time policy, fixed by the    *)
(* first CREATE of its name since a later one under another is refused.    *)
(***************************************************************************)
EXTENDS Integers, Sequences, FiniteSets, SequencesExt

CONSTANTS
    Name,       \* table names
    Key,        \* business keys
    Index,      \* index names
    User,       \* role names
    Faults,     \* which I/O faults occur, a subset of FaultKinds
    MaxTime,    \* bound on the commit clock
    MaxDdl,     \* bound on the frames of the catalog log
    MaxNamespaces, \* bound on the namespaces
    MaxMishaps  \* bound on the crashes and I/O faults together

LogFaults == {"append", "tear", "sync"}
FaultKinds == LogFaults \cup {"close"}

ASSUME DdlFaultsAssumption == Faults \subseteq FaultKinds
ASSUME DdlBoundsAssumption ==
    MaxTime \in Nat /\ MaxDdl \in Nat /\ MaxNamespaces \in Nat /\ MaxMishaps \in Nat

VARIABLES
    status,         \* "up", "down", "refused" or "truncated"
    clock,          \* the last instant drawn from the commit clock
    catalog,        \* SessionEngine.catalog
    users,          \* SessionEngine.users: role -> its verifier
    grants,         \* AccessControl.grants, privileges collapsed to one
    owners,         \* AccessControl.owners: name -> role, or NoOwner
    tables,         \* SessionEngine.tables: name -> its namespace, or NoTier
    next_namespace, \* SessionEngine.next_namespace
    catalog_head,   \* SessionEngine.catalog_head
    index_states,   \* SessionEngine.index_states: index -> floor and keys
    log,            \* the catalog log's frames
    log_synced,     \* how many of them an fsync has covered
    wal,            \* namespace -> the row records in its WAL
    wal_synced,     \* namespace -> how many of them an fsync has covered
    acked,          \* the records of acknowledged statements (history)
    unclosed,       \* names whose DROP left rows open since the boot (history)
    mishaps         \* crashes and I/O faults so far

live == <<catalog, users, grants, owners, tables, next_namespace>>
memory == <<live, catalog_head, index_states>>
catalog_file == <<log, log_synced>>
rows == <<wal, wal_synced>>
vars == <<status, clock, memory, catalog_file, rows, acked, unclosed, mishaps>>

SYSTEM_TIME_OPEN == MaxTime + 1
Namespace == 0 .. (MaxNamespaces - 1)
NoTier == -1
NoUser == 0
Bootstrap == "bootstrap" \* the superuser the server starts with
NoOwner == "none"
NoState == [floor |-> -1, keys |-> {}]
-----------------------------------------------------------------------------
(* The versioned catalog: every name has the eras it was live in. *)
EmptyCatalog == [tables |-> [n \in Name |-> << >>], indexes |-> {}, next_schema_id |-> 1]

IsOpen(c, n) ==
    /\ c.tables[n] # << >>
    /\ Last(c.tables[n]).sys_to = SYSTEM_TIME_OPEN

AddTable(c, n, at) ==
    [c EXCEPT !.tables[n] = Append(@, [id |-> c.next_schema_id, sys_from |-> at,
                                       sys_to |-> SYSTEM_TIME_OPEN]),
              !.next_schema_id = @ + 1]

CloseTable(c, n, at) ==
    [c EXCEPT !.tables[n][Len(c.tables[n])].sys_to = at,
              !.indexes = {d \in @ : d.table # n}]

IndexNamed(c, i) == {d \in c.indexes : d.name = i}
AddIndex(c, i, n) == [c EXCEPT !.indexes = @ \cup {[name |-> i, table |-> n]}]
RemoveIndex(c, i) == [c EXCEPT !.indexes = @ \ IndexNamed(c, i)]

(* Catalog::resolve, as the start of the era that holds the snapshot. *)
Eras(c, n, snapshot) == {v \in Range(c.tables[n]) : v.sys_from <= snapshot /\ snapshot < v.sys_to}

ForgetTable(g, n) == {x \in g : x.table # n}
ForgetRole(g, u) == {x \in g : x.grantee # u}
-----------------------------------------------------------------------------
(* A tier's versions, derived from its WAL, and the ones a snapshot sees. *)
ClosedBy(w, i) == {j \in (i + 1) .. Len(w) : w[j].op = "close" /\ w[j].key = w[i].key}
SysTo(w, i) == IF ClosedBy(w, i) = {} THEN SYSTEM_TIME_OPEN ELSE w[Min(ClosedBy(w, i))].at
Versions(w) ==
    {[key |-> w[i].key, sys_from |-> w[i].at, sys_to |-> SysTo(w, i)] :
        i \in {j \in DOMAIN w : w[j].op = "open"}}
AsOf(w, snapshot) == {v \in Versions(w) : v.sys_from <= snapshot /\ snapshot < v.sys_to}
KeysOf(vs) == {v.key : v \in vs}

RowRecord(op, k, at) == [op |-> op, key |-> k, at |-> at]
(* One auto-commit delete per key, each at an instant of its own. *)
Retractions(keys, after) == [i \in DOMAIN keys |-> RowRecord("close", keys[i], after + i)]
-----------------------------------------------------------------------------
(* The catalog log.  A statement's instant stands for the digest of its    *)
(* record, genesis being 0; a torn frame holds neither.                    *)
Torn == [kind |-> "torn"]
Record(kind, n, x) ==
    [kind |-> kind, at |-> clock + 1, table |-> n, object |-> x, prev |-> catalog_head]

\* Mutant: the record acknowledged before it is synced.
LogRecordUnsynced(r) ==
    /\ log' = Append(log, r)
    /\ log_synced' = log_synced
    /\ catalog_head' = r.at
    /\ acked' = acked \cup {r.at}

(* catalog_log::append, whole, and what its failures leave in the file. *)
LogRecord(r) ==
    /\ log' = Append(log, r)
    /\ log_synced' = Len(log')
    /\ catalog_head' = r.at
    /\ acked' = acked \cup {r.at}

DebrisOf(r) == [append |-> << >>, tear |-> <<Torn>>, sync |-> <<r>>]
LogFails(r) ==
    /\ \E fault \in Faults \cap LogFaults : log' = log \o DebrisOf(r)[fault]
    /\ UNCHANGED <<log_synced, catalog_head, acked>>

(* replay: the frames before the first torn one, whose links must match;   *)
(* a torn frame at the tail is ignored, one with frames behind it reads as *)
(* a record with a bad CRC or as the end of the log, by what its bytes are.*)
FirstTorn(l) == Min({i \in DOMAIN l : l[i] = Torn} \cup {Len(l) + 1})
Readable(l) == SubSeq(l, 1, FirstTorn(l) - 1)
ChainOk(l) ==
    \A i \in DOMAIN l : l[i].prev = IF i = 1 THEN 0 ELSE l[i - 1].at
TornInside(l) == FirstTorn(l) < Len(l)
-----------------------------------------------------------------------------
EmptyFold ==
    [catalog |-> EmptyCatalog, users |-> [u \in User |-> NoUser], grants |-> {},
     owners |-> [n \in Name |-> NoOwner], tables |-> [n \in Name |-> NoTier],
     next_namespace |-> 0, latest_drop |-> [n \in Name |-> 0], max_commit |-> 0]

\* Mutant: the allocator's floor at the largest recorded namespace, not past it.
FoldCreateTableAt(f, r) ==
    [f EXCEPT !.catalog = AddTable(@, r.table, r.at),
              !.grants = ForgetTable(@, r.table),
              !.owners[r.table] = r.owner,
              !.tables[r.table] = r.object,
              !.next_namespace = Max({@, r.object})]

FoldCreateTable(f, r) ==
    [f EXCEPT !.catalog = AddTable(@, r.table, r.at),
              !.grants = ForgetTable(@, r.table),
              !.owners[r.table] = r.owner,
              !.tables[r.table] = r.object,
              !.next_namespace = Max({@, r.object + 1})]

FoldDropTable(f, r) ==
    [f EXCEPT !.catalog = CloseTable(@, r.table, r.at),
              !.grants = ForgetTable(@, r.table),
              !.owners[r.table] = NoOwner,
              !.latest_drop[r.table] = r.at]

\* Mutant: the grants of a dropped role folded back in.
FoldDropUserKeepsGrants(f, r) == [f EXCEPT !.users[r.object] = NoUser]

FoldDropUser(f, r) ==
    [f EXCEPT !.users[r.object] = NoUser, !.grants = ForgetRole(@, r.object)]

Grant(r) == [table |-> r.table, grantee |-> r.object]

FoldRecord(f, r) ==
    LET g == CASE r.kind = "create_table" -> FoldCreateTable(f, r)
               [] r.kind = "drop_table" -> FoldDropTable(f, r)
               [] r.kind = "create_index" -> [f EXCEPT !.catalog = AddIndex(@, r.object, r.table)]
               [] r.kind = "drop_index" -> [f EXCEPT !.catalog = RemoveIndex(@, r.object)]
               [] r.kind = "create_user" -> [f EXCEPT !.users[r.object] = r.at]
               [] r.kind = "alter_user" -> [f EXCEPT !.users[r.object] = r.at]
               [] r.kind = "drop_user" -> FoldDropUser(f, r)
               [] r.kind = "grant" -> [f EXCEPT !.grants = @ \cup {Grant(r)}]
               [] r.kind = "revoke" -> [f EXCEPT !.grants = @ \ {Grant(r)}]
    IN  [g EXCEPT !.max_commit = Max({@, r.at})]

(* fold_catalog_records. *)
Fold(records) == FoldLeft(FoldRecord, EmptyFold, records)
-----------------------------------------------------------------------------
Init ==
    /\ status = "up"
    /\ clock = 0
    /\ catalog = EmptyCatalog
    /\ users = [u \in User |-> NoUser]
    /\ grants = {}
    /\ owners = [n \in Name |-> NoOwner]
    /\ tables = [n \in Name |-> NoTier]
    /\ next_namespace = 0
    /\ catalog_head = 0
    /\ index_states = [i \in Index |-> NoState]
    /\ log = << >>
    /\ log_synced = 0
    /\ wal = [s \in Namespace |-> << >>]
    /\ wal_synced = [s \in Namespace |-> 0]
    /\ acked = {}
    /\ unclosed = {}
    /\ mishaps = 0

(* The statements the live catalog validates, as the records they append.  *)
(* CREATE TABLE reuses the namespace a dropped name kept; any role may run *)
(* it, and owns the table.                                                 *)
NamespaceFor(n) == IF tables[n] = NoTier THEN next_namespace ELSE tables[n]

Known == {u \in User : users[u] # NoUser}
CreateTables ==
    {Record("create_table", x[1], NamespaceFor(x[1])) @@ [owner |-> x[2]] :
        x \in {m \in Name : ~IsOpen(catalog, m) /\ NamespaceFor(m) \in Namespace}
                \X (Known \cup {Bootstrap})}
OpenNames == {n \in Name : IsOpen(catalog, n)}
DropTables == {Record("drop_table", n, n) : n \in OpenNames}
CreateIndexes ==
    {Record("create_index", x[1], x[2]) :
        x \in OpenNames \X {i \in Index : IndexNamed(catalog, i) = {}}}
DropIndexes == {Record("drop_index", d.table, d.name) : d \in catalog.indexes}
CreateUsers == {Record("create_user", u, u) : u \in User \ Known}
AlterUsers == {Record("alter_user", u, u) : u \in Known}
DropUsers == {Record("drop_user", u, u) : u \in Known}
Grants == {Record("grant", x[1], x[2]) : x \in OpenNames \X Known}
Revokes == {Record("revoke", x[1], x[2]) : x \in OpenNames \X Known}

Statements ==
    UNION {CreateTables, DropTables, CreateIndexes, DropIndexes, CreateUsers,
           AlterUsers, DropUsers, Grants, Revokes}

\* Mutant: the counter advanced although the tier is reused.
NamespaceAfterAny(r) == IF r.kind = "create_table" THEN next_namespace + 1 ELSE next_namespace

(* open_tier has advanced the counter before the record is appended. *)
NamespaceAfter(r) ==
    IF r.kind = "create_table"
    THEN Max({next_namespace, r.object + 1})
    ELSE next_namespace

Serving == status = "up" /\ clock < MaxTime
Defining == Serving /\ Len(log) < MaxDdl
-----------------------------------------------------------------------------
(* apply_ddl, CREATE TABLE. *)
CreateTable ==
    /\ Defining
    /\ \E r \in CreateTables :
          /\ LogRecord(r)
          /\ catalog' = AddTable(catalog, r.table, r.at)
          /\ grants' = ForgetTable(grants, r.table)
          /\ owners' = [owners EXCEPT ![r.table] = r.owner]
          /\ tables' = [tables EXCEPT ![r.table] = r.object]
          /\ next_namespace' = NamespaceAfter(r)
          /\ clock' = r.at
    /\ UNCHANGED <<status, users, index_states, rows, unclosed, mishaps>>

(* apply_ddl, DROP TABLE: the record, the catalog, the cascade to the      *)
(* indexes, then close_all_open over the keys live at the drop.  A failing *)
(* close ends the statement with the remaining rows open.                  *)
DropTable ==
    /\ Defining
    /\ \E r \in DropTables :
          LET space == tables[r.table]
              open == SetToSeq(KeysOf(AsOf(wal[space], r.at)))
          IN /\ LogRecord(r)
             /\ catalog' = CloseTable(catalog, r.table, r.at)
             /\ index_states' =
                    [i \in Index |-> IF IndexNamed(catalog', i) = {} THEN NoState
                                     ELSE index_states[i]]
             /\ \E done \in 0 .. Len(open) :
                   /\ done < Len(open) => "close" \in Faults /\ mishaps < MaxMishaps
                   /\ r.at + done <= MaxTime
                   /\ wal' = [wal EXCEPT ![space] =
                                 @ \o Retractions(SubSeq(open, 1, done), r.at)]
                   /\ clock' = r.at + done
                   /\ unclosed' = IF done < Len(open) THEN unclosed \cup {r.table} ELSE unclosed
                   /\ mishaps' = IF done < Len(open) THEN mishaps + 1 ELSE mishaps
    /\ UNCHANGED <<status, users, grants, owners, tables, next_namespace, wal_synced>>

(* build_index_state from the rows live at the floor. *)
BuildIndex(w, floor) == [floor |-> floor, keys |-> KeysOf(AsOf(w, floor))]

CreateIndex ==
    /\ Defining
    /\ \E r \in CreateIndexes :
          /\ LogRecord(r)
          /\ catalog' = AddIndex(catalog, r.object, r.table)
          /\ index_states' = [index_states EXCEPT ![r.object] =
                                  BuildIndex(wal[tables[r.table]], r.at)]
          /\ clock' = r.at
    /\ UNCHANGED <<status, users, grants, owners, tables, next_namespace, rows, unclosed,
                   mishaps>>

DropIndex ==
    /\ Defining
    /\ \E r \in DropIndexes :
          /\ LogRecord(r)
          /\ catalog' = RemoveIndex(catalog, r.object)
          /\ index_states' = [index_states EXCEPT ![r.object] = NoState]
          /\ clock' = r.at
    /\ UNCHANGED <<status, users, grants, owners, tables, next_namespace, rows, unclosed,
                   mishaps>>

(* apply_user_ddl.  A verifier is derived under a fresh salt, so it is     *)
(* known by the instant of its statement.                                  *)
SetPassword ==
    /\ Defining
    /\ \E r \in CreateUsers \cup AlterUsers :
          /\ LogRecord(r)
          /\ users' = [users EXCEPT ![r.object] = r.at]
          /\ clock' = r.at
    /\ UNCHANGED <<status, catalog, grants, owners, tables, next_namespace, index_states, rows,
                   unclosed, mishaps>>

DropUser ==
    /\ Defining
    /\ \E r \in DropUsers :
          /\ LogRecord(r)
          /\ users' = [users EXCEPT ![r.object] = NoUser]
          /\ grants' = ForgetRole(grants, r.object)
          /\ clock' = r.at
    /\ UNCHANGED <<status, catalog, owners, tables, next_namespace, index_states, rows, unclosed,
                   mishaps>>

(* apply_grant_ddl. *)
GrantOrRevoke ==
    /\ Defining
    /\ \E r \in Grants \cup Revokes :
          /\ LogRecord(r)
          /\ grants' = IF r.kind = "grant" THEN grants \cup {Grant(r)} ELSE grants \ {Grant(r)}
          /\ clock' = r.at
    /\ UNCHANGED <<status, catalog, users, owners, tables, next_namespace, index_states, rows,
                   unclosed, mishaps>>

(* Any of them, when the log cannot be appended to or synced. *)
DdlFails ==
    /\ Defining
    /\ mishaps < MaxMishaps
    /\ \E r \in Statements :
          /\ LogFails(r)
          /\ next_namespace' = NamespaceAfter(r)
          /\ clock' = r.at
    /\ mishaps' = mishaps + 1
    /\ UNCHANGED <<status, catalog, users, grants, owners, tables, index_states, rows, unclosed>>
-----------------------------------------------------------------------------
\* Mutant: the row write acknowledged before its fsync.
WriteRowUnsynced(space, r) ==
    /\ wal' = [wal EXCEPT ![space] = Append(@, r)]
    /\ wal_synced' = wal_synced
    /\ clock' = r.at

(* A row write that commits: its leg's fsync covers what the WAL held. *)
WriteRow(space, r) ==
    /\ wal' = [wal EXCEPT ![space] = Append(@, r)]
    /\ wal_synced' = [wal_synced EXCEPT ![space] = Len(wal[space]) + 1]
    /\ clock' = r.at

\* Mutant: the maintenance hook left out.
NoteNothing(n, k) == index_states

NoteIndexes(n, k) ==
    [i \in Index |-> IF [name |-> i, table |-> n] \in catalog.indexes
                     THEN [index_states[i] EXCEPT !.keys = @ \cup {k}]
                     ELSE index_states[i]]

Insert(n, k) ==
    /\ Serving
    /\ n \in OpenNames
    /\ k \notin KeysOf(AsOf(wal[tables[n]], clock))
    /\ WriteRow(tables[n], RowRecord("open", k, clock + 1))
    /\ index_states' = NoteIndexes(n, k)
    /\ UNCHANGED <<status, live, catalog_head, catalog_file, acked, unclosed, mishaps>>

Delete(n, k) ==
    /\ Serving
    /\ n \in OpenNames
    /\ k \in KeysOf(AsOf(wal[tables[n]], clock))
    /\ WriteRow(tables[n], RowRecord("close", k, clock + 1))
    /\ UNCHANGED <<status, memory, catalog_file, acked, unclosed, mishaps>>
-----------------------------------------------------------------------------
(* What a crash may leave of a log: all an fsync covered, then some of the *)
(* rest, the last frame of it possibly cut short.                          *)
Survivors(l, synced) ==
    {SubSeq(l, 1, k) : k \in synced .. Len(l)}
        \cup {Append(SubSeq(l, 1, k), Torn) : k \in synced .. (Len(l) - 1)}

(* The process dies, between statements or inside the append of one, and   *)
(* its memory is gone.  No action reads catalog and tables before recovery *)
(* sets them; they stay what they were for HistoryStable to compare.       *)
Crash ==
    /\ status = "up"
    /\ mishaps < MaxMishaps
    /\ \/ log' \in Survivors(log, log_synced) /\ clock' = clock
       \/ /\ Defining
          /\ \E r \in Statements :
                log' \in Survivors(Append(log, r), log_synced) /\ clock' = r.at
    /\ log_synced' = Len(log')
    /\ \E keep \in [Namespace -> 0 .. Max({Len(wal[s]) : s \in Namespace})] :
          /\ \A s \in Namespace : wal_synced[s] <= keep[s] /\ keep[s] <= Len(wal[s])
          /\ wal' = [s \in Namespace |-> SubSeq(wal[s], 1, keep[s])]
          /\ wal_synced' = keep
    /\ status' = "down"
    /\ users' = [u \in User |-> NoUser]
    /\ grants' = {}
    /\ owners' = [n \in Name |-> NoOwner]
    /\ next_namespace' = 0
    /\ catalog_head' = 0
    /\ index_states' = [i \in Index |-> NoState]
    /\ unclosed' = {}
    /\ mishaps' = mishaps + 1
    /\ UNCHANGED <<catalog, tables, acked>>

\* Mutant: the closes not derived again from the drop record.
StaleKeysNone(w, drop_at, now) == {}

(* close_dropped_era: the keys whose current version predates the drop. *)
StaleKeys(w, drop_at, now) == KeysOf({v \in AsOf(w, now) : v.sys_from <= drop_at})

(* SessionEngine::recover. *)
RecoverOk ==
    LET records == Readable(log)
        f == Fold(records)
        Tiers == {n \in Name : f.tables[n] # NoTier}
        Of(n) == wal[f.tables[n]]
        now == Max({f.max_commit} \cup UNION {{r.at : r \in Range(Of(n))} : n \in Tiers})
        stale == [n \in Tiers |-> SetToSeq(StaleKeys(Of(n), f.latest_drop[n], now))]
        closed == Max({Len(stale[n]) : n \in Tiers} \cup {0})
    IN
    /\ status = "down"
    /\ ~TornInside(log)
    /\ ChainOk(records)
    /\ clock + closed <= MaxTime
    /\ catalog' = f.catalog
    /\ users' = f.users
    /\ grants' = f.grants
    /\ owners' = f.owners
    /\ tables' = f.tables
    /\ next_namespace' = f.next_namespace
    /\ catalog_head' = IF records = << >> THEN 0 ELSE Last(records).at
    /\ wal' = [s \in Namespace |->
                  IF \E n \in Tiers : f.tables[n] = s
                  THEN LET n == CHOOSE m \in Tiers : f.tables[m] = s
                       IN  wal[s] \o Retractions(stale[n], clock)
                  ELSE wal[s]]
    /\ clock' = clock + closed
    /\ index_states' =
           [i \in Index |->
               IF IndexNamed(f.catalog, i) = {} THEN NoState
               ELSE LET d == CHOOSE d \in IndexNamed(f.catalog, i) : TRUE
                    IN  BuildIndex(wal'[f.tables[d.table]],
                                   IF closed > 0 THEN clock' ELSE now)]
    /\ status' = "up"
    /\ UNCHANGED <<catalog_file, wal_synced, acked, unclosed, mishaps>>

(* A link that does not match, or a CRC that does not. *)
RecoverRefused ==
    /\ status = "down"
    /\ ~ChainOk(Readable(log)) \/ TornInside(log)
    /\ status' = "refused"
    /\ UNCHANGED <<clock, memory, catalog_file, rows, acked, unclosed, mishaps>>

(* The bytes of a torn frame inside the log read as its end: recovery goes *)
(* on without the frames behind it.  What follows is not explored.         *)
RecoverTruncated ==
    /\ status = "down"
    /\ TornInside(log)
    /\ ChainOk(Readable(log))
    /\ status' = "truncated"
    /\ UNCHANGED <<clock, memory, catalog_file, rows, acked, unclosed, mishaps>>

Next ==
    \/ CreateTable
    \/ DropTable
    \/ CreateIndex
    \/ DropIndex
    \/ SetPassword
    \/ DropUser
    \/ GrantOrRevoke
    \/ DdlFails
    \/ \E n \in Name, k \in Key : Insert(n, k) \/ Delete(n, k)
    \/ Crash
    \/ RecoverOk
    \/ RecoverRefused
    \/ RecoverTruncated

Spec == Init /\ [][Next]_vars
-----------------------------------------------------------------------------
(* Every variable has the shape the code gives it; in particular the tiers *)
(* recovery reopens and the states of the indexes it rebuilds.             *)
TypeOK ==
    /\ status \in {"up", "down", "refused", "truncated"}
    /\ clock \in 0 .. MaxTime
    /\ DOMAIN catalog.tables = Name /\ catalog.next_schema_id \in 1 .. (MaxDdl + 1)
    /\ catalog.indexes \subseteq [name : Index, table : Name]
    /\ users \in [User -> 0 .. MaxTime]
    /\ grants \subseteq [table : Name, grantee : User]
    /\ owners \in [Name -> User \cup {Bootstrap, NoOwner}]
    /\ tables \in [Name -> Namespace \cup {NoTier}]
    /\ next_namespace \in 0 .. MaxNamespaces
    /\ catalog_head \in 0 .. MaxTime
    /\ index_states \in [Index -> [floor : -1 .. MaxTime, keys : SUBSET Key]]
    /\ log_synced \in 0 .. Len(log) /\ Len(log) <= MaxDdl
    /\ \A s \in Namespace : wal_synced[s] \in 0 .. Len(wal[s])
    /\ acked \subseteq 1 .. MaxTime /\ unclosed \subseteq Name
    /\ mishaps \in 0 .. MaxMishaps

(* A frame was appended behind the debris of an append that failed or was  *)
(* cut short: a torn frame, or a record the session never linked to.       *)
Spoiled == TornInside(log) \/ ~ChainOk(Readable(log))

(* replay returns every acknowledged statement, across crashes and failed  *)
(* appends, as long as no statement was logged behind debris.              *)
AckedReplayed == ~Spoiled => acked \subseteq {r.at : r \in Range(Readable(log))}

(* The records the session has linked, the ones a restart would add to     *)
(* them, and the privileges on tables that are open.                       *)
Linked == SelectSeq(Readable(log), LAMBDA r : r.at <= catalog_head)
Unlinked == SelectSeq(Readable(log), LAMBDA r : r.at > catalog_head)
GrantsInForce == {x \in grants : x.table \in OpenNames}
OwnersInForce == [n \in Name |-> IF n \in OpenNames THEN owners[n] ELSE NoOwner]

(* What a restart changes of the state apply_ddl keeps statement by        *)
(* statement, and nothing more: the fold of its log is that state, schema  *)
(* ids, verifiers, tiers and cascaded indexes included, but that it takes  *)
(* the owner and the grants of a dropped name away at the drop, which the  *)
(* session leaves until the name is created again; and behind the records  *)
(* the session linked there is at most one, that of a statement it         *)
(* reported as failed.                                                     *)
RestartChangesOnly ==
    status = "up" /\ ~Spoiled =>
        LET f == Fold(Linked)
        IN  /\ f.catalog = catalog
            /\ f.users = users
            /\ f.tables = tables
            /\ f.grants = GrantsInForce
            /\ f.owners = OwnersInForce
            /\ f.next_namespace <= next_namespace
            /\ Readable(log) = Linked \o Unlinked
            /\ Len(Unlinked) <= 1
            /\ \A r \in Range(Unlinked) : r.at \notin acked

(* No two names ever share a slice of the disk, although failed CREATEs    *)
(* and restarts move the counter and a re-created name keeps its slice.    *)
NamespacesDistinct ==
    status = "up" =>
        \A m, n \in Name :
            m # n /\ tables[m] # NoTier => tables[m] # tables[n]

(* The names of statements that were not acknowledged and yet are in the   *)
(* log: a restart makes them take effect, at the instant they failed.      *)
Undecided == {r.table : r \in {x \in Range(Readable(log)) : x.at \notin acked}}

(* A re-created name starts empty: a current read of a table never shows a *)
(* row of an earlier era, even when the crash lost the closes of the DROP, *)
(* unless a close failed and the server was not restarted since, or the    *)
(* DROP itself had failed and rows were written after it.                  *)
RecreatedStartsEmpty ==
    status = "up" =>
        \A n \in OpenNames \ (unclosed \cup Undecided) :
            \A v \in AsOf(wal[tables[n]], clock) :
                v.sys_from >= Last(catalog.tables[n]).sys_from

(* The superset contract of a secondary index: every row a snapshot at or  *)
(* past the floor sees is a candidate, whatever was built, noted, cascaded *)
(* and rebuilt; and every index of the catalog has its structure.          *)
IndexCoversTable ==
    status = "up" =>
        \A d \in catalog.indexes :
            /\ index_states[d.name] # NoState
            /\ \A s \in index_states[d.name].floor .. clock :
                   KeysOf(AsOf(wal[tables[d.table]], s))
                       \subseteq index_states[d.name].keys

(* What an AS OF read shows: the schema in effect then, or none, and the   *)
(* versions of the tier then, whichever era they were written in.          *)
Read(n, s) ==
    IF Eras(catalog, n, s) = {} THEN {}
    ELSE {[key |-> v.key, sys_from |-> v.sys_from] : v \in AsOf(wal[tables[n]], s)}

(* The past of a table changes in one way only.  No statement, drop,       *)
(* re-creation or recovery changes what an AS OF read of a past instant    *)
(* shows, and a crash never takes a row away from one; what a crash may    *)
(* add to it, when it loses the closes of a DROP that no later write of    *)
(* the table made durable, is a row of an era that ended before that       *)
(* instant.  A failed statement that a restart carries out is excepted.    *)
HistoryStable ==
    [][\A n \in Name \ Undecided :
          tables[n] # NoTier /\ tables'[n] # NoTier /\ <<catalog, wal>>' # <<catalog, wal>> =>
          \A s \in 0 .. clock :
              /\ Read(n, s) \subseteq Read(n, s)'
              /\ \A v \in Read(n, s)' \ Read(n, s) :
                     /\ Len(wal'[tables[n]]) < Len(wal[tables[n]])
                     /\ \A e \in Eras(catalog, n, s) : v.sys_from < e.sys_from]_vars
=============================================================================
