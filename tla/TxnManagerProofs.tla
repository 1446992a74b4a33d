-------------------------- MODULE TxnManagerProofs --------------------------
(***************************************************************************)
(* Proofs about TxnManager for every set of keys, every open sentinel and  *)
(* every number of transactions.  IndInv is the inductive invariant.       *)
(***************************************************************************)
EXTENDS TxnManager, TLAPS

(* The conjuncts of IndInv that speak of the log alone. *)
LogInv ==
    /\ log \in Seq(LogRecord)
    /\ FirstCommitterWins
    /\ CommitOrder
    /\ TxnIdsUnique
    /\ ChainIntact
    /\ PrefixMax

\* What appending one record does to the log, pointwise.
LEMMA AppendPointwise ==
    ASSUME NEW S, NEW s \in Seq(S), NEW r \in S, NEW u, u = Append(s, r)
    PROVE  /\ u \in Seq(S)
           /\ Len(u) = Len(s) + 1
           /\ \A i \in 1 .. Len(s) : u[i] = s[i]
           /\ u[Len(s) + 1] = r
  OBVIOUS

\* What a crash that keeps n frames does to the log, pointwise.
LEMMA PrefixPointwise ==
    ASSUME NEW S, NEW s \in Seq(S), NEW n \in 0 .. Len(s), NEW u, u = SubSeq(s, 1, n)
    PROVE  /\ u \in Seq(S)
           /\ Len(u) = n
           /\ \A i \in 1 .. n : u[i] = s[i]
  OBVIOUS

\* A commit timestamp is past the cursor and, when loggable, below the open
\* sentinel; the record commit would log is well typed.
LEMMA RecordFacts ==
    ASSUME TypeOK, NEW t \in open, NEW now \in Time, CommitTs(now) < Open
    PROVE  /\ CommitTs(now) \in 0 .. Open - 1
           /\ CommitTs(now) > cursor
           /\ CommitRecord(t, CommitTs(now)) \in LogRecord
           /\ Hash(CommitRecord(t, CommitTs(now))) \in Seq(Nat \X Nat \X Nat)
  <1> DEFINE ts == CommitTs(now)
  <1>1. ts \in 0 .. Open - 1 /\ ts > cursor
    BY OpenAssumption DEF CommitTs, Maximum, Time, TypeOK
  <1>2. t \in Transaction
    BY DEF TypeOK
  <1> DEFINE r == CommitRecord(t, ts)
  <1>3. r \in LogRecord
    BY <1>1, <1>2 DEF TypeOK, LogRecord, CommitRecord, Transaction
  <1>4. <<r.txn_id, r.commit_ts, r.seq>> \in Nat \X Nat \X Nat
    BY <1>3, OpenAssumption DEF LogRecord
  <1>5. r.prev_hash \in Seq(Nat \X Nat \X Nat)
    BY <1>3 DEF LogRecord
  <1>6. Hash(r) \in Seq(Nat \X Nat \X Nat)
    BY <1>4, <1>5 DEF Hash
  <1> QED
    BY <1>1, <1>3, <1>6

\* Logging an accepted commit keeps the log's own invariants: the record is
\* later than every other, continues the chain, carries a fresh id, and no
\* logged writer of its keys is past its snapshot.
LEMMA AppendKeepsLogInv ==
    ASSUME IndInv, NEW t \in open, NEW now \in Time,
           status = "up", ~poisoned, Loggable(t, now),
           log' = Append(log, CommitRecord(t, CommitTs(now)))
    PROVE  LogInv'
  <1> DEFINE ts == CommitTs(now)
             r == CommitRecord(t, ts)
             n == Len(log)
  <1> USE DEF IndInv
  <1>1. r \in LogRecord /\ ts > cursor /\ ts \in Nat /\ cursor \in Nat
    BY RecordFacts, OpenAssumption DEF Loggable, TypeOK
  <1>2. log \in Seq(LogRecord) /\ n \in Nat
    BY DEF TypeOK
  <1>3. /\ log' \in Seq(LogRecord)
        /\ Len(log') = n + 1
        /\ \A i \in 1 .. n : log'[i] = log[i]
        /\ log'[n + 1] = r
    BY <1>1, <1>2, AppendPointwise
  <1> HIDE DEF ts
  <1>4. /\ r.txn_id = t.id /\ r.commit_ts = ts /\ r.seq = next_seq
        /\ r.prev_hash = commit_head /\ r.snapshot = t.snapshot /\ r.writes = t.writes
    BY DEF CommitRecord
  <1> HIDE DEF r
  <1>5. PublishedIsLogTail /\ IdsBelowAllocator
    OBVIOUS
  <1>6. \A i \in 1 .. n : /\ log[i] \in LogRecord
                          /\ log[i].txn_id \in Int /\ log[i].commit_ts \in Int
    <2>1. \A i \in 1 .. n : log[i] \in LogRecord
      BY <1>2
    <2> QED
      BY <2>1, OpenAssumption DEF LogRecord
  <1>t. t.id \in Int /\ t.snapshot \in Int /\ t.writes \subseteq Key
    <2>1. t \in Transaction
      BY DEF TypeOK
    <2> QED
      BY <2>1, OpenAssumption DEF Transaction
  <1>7. FirstCommitterWins'
    <2> SUFFICES ASSUME NEW i \in 1 .. n + 1, NEW j \in 1 .. n + 1, i < j,
                        log'[i].writes \cap log'[j].writes # {}
                 PROVE  log'[i].commit_ts <= log'[j].snapshot
      BY <1>2, <1>3 DEF FirstCommitterWins
    <2>1. CASE j \in 1 .. n
      BY <2>1, <1>2, <1>3 DEF FirstCommitterWins
    <2>2. CASE j = n + 1
      <3>1. i \in 1 .. n /\ log'[i] = log[i] /\ log'[j] = r
        BY <2>2, <1>2, <1>3
      <3>2. PICK k \in log[i].writes : k \in t.writes
        BY <3>1, <1>4
      <3>3. ~(write_index[k] > t.snapshot)
        BY <3>2 DEF Loggable, Conflicts
      <3>4. /\ write_index[k] \in Int /\ t.snapshot \in Int /\ log[i].commit_ts \in Int
        <4>1. k \in Key
          BY <3>2, <1>t
        <4>2. write_index[k] \in 0 .. Open - 1
          BY <4>1 DEF TypeOK
        <4> QED
          BY <4>2, <3>1, <1>t, <1>6, OpenAssumption
      <3>5. log[i].commit_ts > t.snapshot => log[i].commit_ts <= write_index[k]
        BY <3>1, <3>2, <1>5 DEF PublishedIsLogTail
      <3> QED
        BY <3>1, <3>3, <3>4, <3>5, <1>4
    <2> QED
      BY <2>1, <2>2, <1>2
  <1>8. CommitOrder'
    <2>1. \A i \in 1 .. n : log[i].commit_ts < ts
      BY <1>1, <1>5, <1>6 DEF PublishedIsLogTail
    <2>2. \A i \in 1 .. n + 1 : log'[i].seq = i
      BY <1>2, <1>3, <1>4, <1>5 DEF CommitOrder, PublishedIsLogTail
    <2>3. ASSUME NEW i \in 1 .. n + 1, NEW j \in 1 .. n + 1, i < j
          PROVE  log'[i].commit_ts < log'[j].commit_ts
      <3>1. CASE j \in 1 .. n
        BY <2>3, <3>1, <1>2, <1>3 DEF CommitOrder
      <3>2. CASE j = n + 1
        BY <2>1, <2>3, <3>2, <1>2, <1>3, <1>4
      <3> QED
        BY <3>1, <3>2, <1>2
    <2> QED
      BY <2>2, <2>3, <1>3 DEF CommitOrder
  <1>9. TxnIdsUnique'
    <2> SUFFICES ASSUME NEW i \in 1 .. n + 1, NEW j \in 1 .. n + 1,
                        log'[i].txn_id = log'[j].txn_id
                 PROVE  i = j
      BY <1>2, <1>3 DEF TxnIdsUnique
    <2>1. \A a \in 1 .. n : log[a].txn_id # t.id
      BY <1>5 DEF IdsBelowAllocator
    <2> QED
      BY <2>1, <1>2, <1>3, <1>4 DEF TxnIdsUnique
  <1>10. ChainIntact'
    <2> SUFFICES ASSUME NEW i \in 1 .. n + 1
                 PROVE  log'[i].prev_hash = IF i = 1 THEN ZeroDigest ELSE Hash(log'[i - 1])
      BY <1>2, <1>3 DEF ChainIntact, ChainVerifies
    <2>1. CASE i \in 1 .. n
      <3>1. i # 1 => i - 1 \in 1 .. n
        BY <2>1, <1>2
      <3> QED
        BY <2>1, <3>1, <1>2, <1>3 DEF ChainIntact, ChainVerifies
    <2>2. CASE i = n + 1
      <3>1. log'[i].prev_hash = RecoveredHead(log)
        BY <2>2, <1>3, <1>4, <1>5 DEF PublishedIsLogTail
      <3>2. CASE n = 0
        BY <3>1, <3>2, <2>2, <1>2 DEF RecoveredHead
      <3>3. CASE n # 0
        <4>1. i - 1 = n /\ n \in 1 .. n /\ i # 1 /\ log # << >>
          BY <3>3, <2>2, <1>2
        <4>2. log'[i - 1] = log[n]
          BY <4>1, <1>3
        <4> QED
          BY <4>1, <4>2, <3>1 DEF RecoveredHead
      <3> QED
        BY <3>2, <3>3
    <2> QED
      BY <2>1, <2>2, <1>2
  <1>11. PrefixMax'
    <2> SUFFICES ASSUME NEW m \in 1 .. n + 1
                 PROVE  \E j \in 1 .. m : \A i \in 1 .. m : log'[i].txn_id <= log'[j].txn_id
      BY <1>2, <1>3 DEF PrefixMax
    <2>0. t.id \in Int /\ \A i \in 1 .. n : log[i].txn_id \in Int
      BY <1>6, <1>t
    <2>1. CASE m \in 1 .. n
      <3>1. PICK j \in 1 .. m : \A i \in 1 .. m : log[i].txn_id <= log[j].txn_id
        BY <2>1 DEF PrefixMax
      <3>2. \A i \in 1 .. m : log'[i] = log[i]
        BY <2>1, <1>2, <1>3
      <3> QED
        BY <3>1, <3>2
    <2>2. CASE m = n + 1 /\ n = 0
      BY <2>2, <2>0, <1>3, <1>4
    <2>3. CASE m = n + 1 /\ n # 0
      <3>1. n \in 1 .. n
        BY <2>3, <1>2
      <3>2. PICK j \in 1 .. n : \A i \in 1 .. n : log[i].txn_id <= log[j].txn_id
        BY <3>1 DEF PrefixMax
      <3>3. CASE log[j].txn_id <= t.id
        <4>1. \A i \in 1 .. m : log'[i].txn_id <= log'[m].txn_id
          BY <3>2, <3>3, <2>0, <2>3, <1>2, <1>3, <1>4
        <4> QED
          BY <4>1, <2>3, <1>2
      <3>4. CASE t.id <= log[j].txn_id
        <4>1. j \in 1 .. m /\ \A i \in 1 .. m : log'[i].txn_id <= log'[j].txn_id
          BY <3>2, <3>4, <2>0, <2>3, <1>2, <1>3, <1>4
        <4> QED
          BY <4>1
      <3>5. log[j].txn_id <= t.id \/ t.id <= log[j].txn_id
        BY <2>0, <3>2
      <3> QED
        BY <3>3, <3>4, <3>5
    <2>4. m \in 1 .. n \/ m = n + 1
      BY <1>2
    <2> QED
      BY <2>1, <2>2, <2>3, <2>4
  <1> QED
    BY <1>3, <1>7, <1>8, <1>9, <1>10, <1>11 DEF LogInv

\* A crash keeps a prefix, and the log's invariants hold of every prefix.
LEMMA PrefixKeepsLogInv ==
    ASSUME IndInv, NEW n \in 0 .. Len(log), log' = SubSeq(log, 1, n)
    PROVE  LogInv' /\ Len(log') = n
  <1> USE DEF IndInv
  <1>1. log \in Seq(LogRecord) /\ Len(log) \in Nat
    BY DEF TypeOK
  <1>2. /\ log' \in Seq(LogRecord)
        /\ Len(log') = n
        /\ \A i \in 1 .. n : log'[i] = log[i]
    BY <1>1, PrefixPointwise
  <1>3. 1 .. n \subseteq 1 .. Len(log)
    BY <1>1
  <1>4. FirstCommitterWins'
    BY <1>2, <1>3 DEF FirstCommitterWins
  <1>5. CommitOrder'
    BY <1>2, <1>3 DEF CommitOrder
  <1>6. TxnIdsUnique'
    BY <1>2, <1>3 DEF TxnIdsUnique
  <1>7. ChainIntact'
    <2> SUFFICES ASSUME NEW i \in 1 .. n
                 PROVE  log'[i].prev_hash = IF i = 1 THEN ZeroDigest ELSE Hash(log'[i - 1])
      BY <1>2 DEF ChainIntact, ChainVerifies
    <2>1. i # 1 => i - 1 \in 1 .. n
      OBVIOUS
    <2> QED
      BY <2>1, <1>2, <1>3 DEF ChainIntact, ChainVerifies
  <1>8. PrefixMax'
    <2> SUFFICES ASSUME NEW m \in 1 .. n
                 PROVE  \E j \in 1 .. m : \A i \in 1 .. m : log'[i].txn_id <= log'[j].txn_id
      BY <1>2 DEF PrefixMax
    <2>1. PICK j \in 1 .. m : \A i \in 1 .. m : log[i].txn_id <= log[j].txn_id
      BY <1>3 DEF PrefixMax
    <2>2. \A i \in 1 .. m : log'[i] = log[i]
      BY <1>2
    <2> QED
      BY <2>1, <2>2
  <1> QED
    BY <1>2, <1>4, <1>5, <1>6, <1>7, <1>8 DEF LogInv

\* The allocator recovery rebuilds from the log is past every logged id.
LEMMA RecoveredAllocator ==
    ASSUME IndInv
    PROVE  /\ MaxTxnId(log) + 1 \in Nat \ {0}
           /\ \A i \in 1 .. Len(log) : log[i].txn_id < MaxTxnId(log) + 1
  <1> USE DEF IndInv
  <1>1. log \in Seq(LogRecord) /\ Len(log) \in Nat
    BY DEF TypeOK
  <1>2. \A i \in 1 .. Len(log) : log[i].txn_id \in Nat
    <2>1. \A i \in 1 .. Len(log) : log[i] \in LogRecord
      BY <1>1
    <2> QED
      BY <2>1 DEF LogRecord
  <1>3. CASE log = << >>
    BY <1>3 DEF MaxTxnId
  <1>4. CASE log # << >>
    <2> DEFINE ids == {log[i].txn_id : i \in 1 .. Len(log)}
    <2>1. Len(log) \in 1 .. Len(log)
      BY <1>1, <1>4
    <2>2. PICK j \in 1 .. Len(log) : \A i \in 1 .. Len(log) : log[i].txn_id <= log[j].txn_id
      BY <2>1 DEF PrefixMax
    <2>3. \E m \in ids : \A i \in 1 .. Len(log) : log[i].txn_id <= m
      BY <2>2
    <2>4. /\ MaxTxnId(log) \in ids
          /\ \A i \in 1 .. Len(log) : log[i].txn_id <= MaxTxnId(log)
      BY <1>4, <2>3 DEF MaxTxnId
    <2> QED
      BY <2>4, <1>2
  <1> QED
    BY <1>3, <1>4

\* The tail state recovery rebuilds from the log is the log's tail.
LEMMA RecoveredTail ==
    ASSUME IndInv
    PROVE  /\ RecoveredTs(log) \in 0 .. Open - 1
           /\ RecoveredSeq(log) = Len(log)
           /\ RecoveredHead(log) \in Seq(Nat \X Nat \X Nat)
           /\ \A i \in 1 .. Len(log) : log[i].commit_ts <= RecoveredTs(log)
  <1> USE DEF IndInv
  <1>1. log \in Seq(LogRecord) /\ Len(log) \in Nat
    BY DEF TypeOK
  <1>2. CASE log = << >>
    BY <1>2, OpenAssumption DEF RecoveredTs, RecoveredSeq, RecoveredHead, ZeroDigest
  <1>3. CASE log # << >>
    <2> DEFINE l == log[Len(log)]
    <2>1. Len(log) \in 1 .. Len(log) /\ l \in LogRecord
      BY <1>1, <1>3
    <2>2. l.commit_ts \in 0 .. Open - 1 /\ l.seq = Len(log)
      BY <2>1 DEF LogRecord, CommitOrder
    <2>3. Hash(l) \in Seq(Nat \X Nat \X Nat)
      <3>1. /\ <<l.txn_id, l.commit_ts, l.seq>> \in Nat \X Nat \X Nat
            /\ l.prev_hash \in Seq(Nat \X Nat \X Nat)
        BY <2>1, OpenAssumption DEF LogRecord
      <3> QED
        BY <3>1 DEF Hash
    <2>4. \A i \in 1 .. Len(log) : log[i].commit_ts <= l.commit_ts
      <3> SUFFICES ASSUME NEW i \in 1 .. Len(log) PROVE log[i].commit_ts <= l.commit_ts
        OBVIOUS
      <3>1. log[i].commit_ts \in Int /\ l.commit_ts \in Int
        <4>1. log[i] \in LogRecord
          BY <1>1
        <4> QED
          BY <4>1, <2>1, OpenAssumption DEF LogRecord
      <3>2. i < Len(log) => log[i].commit_ts < l.commit_ts
        BY <2>1 DEF CommitOrder
      <3>3. i = Len(log) \/ i < Len(log)
        BY <1>1
      <3> QED
        BY <3>1, <3>2, <3>3
    <2> QED
      BY <1>3, <2>2, <2>3, <2>4 DEF RecoveredTs, RecoveredSeq, RecoveredHead
  <1> QED
    BY <1>2, <1>3

\* The empty manager of TxnManager::new satisfies IndInv.
LEMMA InitIndInv == Init => IndInv
  <1> SUFFICES ASSUME Init PROVE IndInv
    OBVIOUS
  <1>0. << >> \in Seq(LogRecord) /\ << >> \in Seq(Nat \X Nat \X Nat)
    OBVIOUS
  <1>2. Len(log) = 0
    BY DEF Init
  <1>1. TypeOK
    <2>1. cursor \in 0 .. Open - 1 /\ write_index \in [Key -> 0 .. Open - 1]
      BY OpenAssumption DEF Init
    <2>2. commit_head \in Seq(Nat \X Nat \X Nat) /\ log \in Seq(LogRecord)
      BY <1>0 DEF Init, ZeroDigest
    <2> QED
      <3>1. durable \in 0 .. Len(log) /\ next_txn \in Nat \ {0} /\ next_seq \in Nat \ {0}
        BY <1>2 DEF Init
      <3> QED
        BY <2>1, <2>2, <3>1 DEF Init, TypeOK
  <1> QED
    BY <1>1, <1>2 DEF Init, IndInv, FirstCommitterWins, CommitOrder, TxnIdsUnique,
       ChainIntact, ChainVerifies, PrefixMax, IdsBelowAllocator, PublishedIsLogTail, RecoveredHead

\* The numbers a typed log and typed transactions carry.
LEMMA Numbers ==
    ASSUME TypeOK
    PROVE  /\ Len(log) \in Nat
           /\ \A i \in 1 .. Len(log) : log[i].txn_id \in Int /\ log[i].commit_ts \in Int
           /\ \A t \in open : t.id \in Int /\ t.snapshot \in Int /\ t.writes \subseteq Key
  <1>1. Len(log) \in Nat /\ \A i \in 1 .. Len(log) : log[i] \in LogRecord
    BY DEF TypeOK
  <1>2. \A t \in open : t \in Transaction
    BY DEF TypeOK
  <1> QED
    BY <1>1, <1>2, OpenAssumption DEF LogRecord, Transaction

(* LogInv and the typing of durable are all a step that leaves the log     *)
(* alone has to say about it.                                              *)
LEMMA QuietLog ==
    ASSUME IndInv, log' = log
    PROVE  LogInv'
  BY DEF IndInv, LogInv, TypeOK, FirstCommitterWins, CommitOrder, TxnIdsUnique,
     ChainIntact, ChainVerifies, PrefixMax

\* begin keeps the invariant: its snapshot is at or past the cursor, so past
\* every logged commit, and its id is the allocator's.
LEMMA BeginStep ==
    ASSUME IndInv, NEW now \in Time, Begin(now)
    PROVE  IndInv'
  <1> USE DEF IndInv, Begin
  <1> DEFINE b == [id |-> next_txn, snapshot |-> SnapshotAt(now), writes |-> {}]
  <1>1. /\ SnapshotAt(now) \in 0 .. Open - 1
        /\ cursor <= SnapshotAt(now)
        /\ cursor \in Int
    BY OpenAssumption DEF SnapshotAt, Minimum, Maximum, Time, TypeOK
  <1>2. b \in Transaction
    BY <1>1 DEF Transaction, TypeOK
  <1>u. log' = log /\ durable' = durable /\ torn' = torn /\ poisoned' = poisoned
    BY DEF wal
  <1>3. LogInv'
    BY <1>u, QuietLog
  <1>4. TypeOK'
    <2>1. open' \subseteq Transaction
      BY <1>2 DEF TypeOK
    <2>2. cursor' \in 0 .. Open - 1 /\ next_txn' \in Nat \ {0}
      BY <1>1 DEF TypeOK
    <2> QED
      BY <1>u, <2>1, <2>2 DEF TypeOK
  <1>t. \A t \in open : t.id \in Int /\ t.snapshot \in Int
    BY Numbers
  <1>l. \A i \in 1 .. Len(log) : log[i].txn_id \in Int /\ log[i].commit_ts \in Int
    BY Numbers
  <1>5. IdsBelowAllocator'
    <2>1. next_txn \in Int /\ next_txn' = next_txn + 1 /\ IdsBelowAllocator
      BY DEF TypeOK
    <2>2. \A i \in 1 .. Len(log) : log[i].txn_id < next_txn + 1 /\ log[i].txn_id # next_txn
      BY <2>1, <1>l DEF IdsBelowAllocator
    <2>3. \A t \in open : t.id < next_txn + 1 /\ t.id # next_txn
      BY <2>1, <1>t DEF IdsBelowAllocator
    <2>4. b.id = next_txn /\ next_txn < next_txn + 1 /\ open' = open \cup {b}
      BY <2>1
    <2> HIDE DEF b
    <2>5. \A t \in open' : t.id < next_txn + 1
      BY <2>3, <2>4
    <2>6. \A t \in open', i \in 1 .. Len(log) : log[i].txn_id # t.id
      BY <2>1, <2>2, <2>4 DEF IdsBelowAllocator
    <2>7. \A t, u \in open' : t.id = u.id => t = u
      BY <2>1, <2>3, <2>4 DEF IdsBelowAllocator
    <2> QED
      BY <1>u, <2>1, <2>2, <2>5, <2>6, <2>7 DEF IdsBelowAllocator
  <1>6. \A t \in open' : t.snapshot <= cursor'
    BY <1>1, <1>t
  <1>7. ~poisoned' => PublishedIsLogTail'
    <2> SUFFICES ASSUME ~poisoned PROVE PublishedIsLogTail'
      BY DEF wal
    <2>1. PublishedIsLogTail
      OBVIOUS
    <2>2. \A i \in 1 .. Len(log) : log[i].commit_ts <= SnapshotAt(now)
      BY <2>1, <1>1, <1>l DEF PublishedIsLogTail
    <2>3. \A t \in open', i \in 1 .. Len(log) : \A k \in log[i].writes :
              log[i].commit_ts > t.snapshot => log[i].commit_ts <= write_index[k]
      <3> SUFFICES ASSUME NEW t \in open', NEW i \in 1 .. Len(log), NEW k \in log[i].writes,
                          log[i].commit_ts > t.snapshot
                   PROVE  log[i].commit_ts <= write_index[k]
        OBVIOUS
      <3>1. CASE t \in open
        BY <2>1, <3>1 DEF PublishedIsLogTail
      <3>2. CASE t = b
        BY <2>2, <3>2, <1>1, <1>l
      <3> QED
        BY <3>1, <3>2
    <2> QED
      BY <2>1, <2>2, <2>3 DEF PublishedIsLogTail, wal
  <1> QED
    BY <1>3, <1>4, <1>5, <1>6, <1>7 DEF LogInv, wal

(* Steps that change only the set of open transactions: one is dropped, or *)
(* one is replaced by a transaction with the same id and snapshot.         *)
LEMMA OpenStep ==
    ASSUME IndInv, status = "up", UNCHANGED <<status, memory, wal, acked>>,
           NEW t \in open,
           \/ open' = open \ {t}
           \/ \E u \in Transaction : /\ u.id = t.id /\ u.snapshot = t.snapshot
                                     /\ open' = (open \ {t}) \cup {u}
    PROVE  IndInv'
  <1> USE DEF IndInv, memory, wal
  <1>1. LogInv'
    BY QuietLog
  <1>2. open' \subseteq Transaction
    BY DEF TypeOK
  <1>3. TypeOK'
    BY <1>2 DEF TypeOK
  <1>4. \A x \in open' : \E y \in open : x.id = y.id /\ x.snapshot = y.snapshot
    OBVIOUS
  <1>5. \A x, y \in open' : x.id = y.id => x = y
    BY DEF IdsBelowAllocator
  <1>6. IdsBelowAllocator'
    BY <1>4, <1>5 DEF IdsBelowAllocator
  <1>7. \A x \in open' : x.snapshot <= cursor'
    BY <1>4
  <1>8. ~poisoned' => PublishedIsLogTail'
    BY <1>4 DEF PublishedIsLogTail
  <1> QED
    BY <1>1, <1>3, <1>6, <1>7, <1>8 DEF LogInv

\* Transaction::write, a rollback and every commit that logs nothing keep it.
LEMMA ConsumeStep ==
    ASSUME IndInv, NEW t \in open, Consume(t), UNCHANGED <<status, memory, wal, acked>>
    PROVE  IndInv'
  BY OpenStep DEF Consume

\* Transaction::write changes one transaction's write set and nothing else.
LEMMA WriteStep ==
    ASSUME IndInv, NEW t \in open, NEW k \in Key, Write(t, k)
    PROVE  IndInv'
  <1> DEFINE u == [t EXCEPT !.writes = @ \cup {k}]
  <1>1. t \in Transaction
    BY DEF IndInv, TypeOK
  <1>2. u \in Transaction /\ u.id = t.id /\ u.snapshot = t.snapshot
    BY <1>1 DEF Transaction
  <1> QED
    BY <1>2, OpenStep DEF Write

\* A torn append or a failed fsync poisons the WAL, which ends the claim
\* that the published state is the log's tail.
LEMMA TearStep ==
    ASSUME IndInv, NEW t \in open, NEW now \in Time, CommitAppendTears(t, now)
    PROVE  IndInv'
  <1> USE DEF IndInv, CommitAppendTears, Consume, memory
  <1>1. LogInv'
    BY QuietLog
  <1>2. TypeOK'
    BY DEF TypeOK
  <1>3. IdsBelowAllocator'
    BY DEF IdsBelowAllocator
  <1> QED
    BY <1>1, <1>2, <1>3 DEF LogInv

\* Appending the record of an open transaction keeps every logged id below the
\* allocator and apart from the ids of the other open transactions.
LEMMA AppendIds ==
    ASSUME IndInv, status = "up", NEW t \in open, NEW r \in LogRecord, r.txn_id = t.id,
           log' = Append(log, r), open' = open \ {t}, next_txn' = next_txn
    PROVE  IdsBelowAllocator'
  <1> USE DEF IndInv
  <1>1. log \in Seq(LogRecord) /\ Len(log) \in Nat /\ IdsBelowAllocator
    BY DEF TypeOK
  <1>2. /\ Len(log') = Len(log) + 1
        /\ \A i \in 1 .. Len(log) : log'[i] = log[i]
        /\ log'[Len(log) + 1] = r
    BY <1>1, AppendPointwise
  <1>3. \A i \in 1 .. Len(log') : i \in 1 .. Len(log) \/ log'[i].txn_id = t.id
    BY <1>1, <1>2
  <1>4. \A i \in 1 .. Len(log') : log'[i].txn_id < next_txn'
    BY <1>1, <1>2, <1>3 DEF IdsBelowAllocator
  <1>5. \A u \in open', i \in 1 .. Len(log') : log'[i].txn_id # u.id
    BY <1>1, <1>2, <1>3 DEF IdsBelowAllocator
  <1> QED
    BY <1>1, <1>4, <1>5 DEF IdsBelowAllocator

\* A commit whose fsync fails keeps IndInv: its record is in the log, nothing
\* is published and the WAL is poisoned.
LEMMA FsyncFailsStep ==
    ASSUME IndInv, NEW t \in open, NEW now \in Time, CommitFsyncFails(t, now)
    PROVE  IndInv'
  <1> USE DEF IndInv, CommitFsyncFails, Consume, memory
  <1> DEFINE r == CommitRecord(t, CommitTs(now))
  <1>1. LogInv'
    BY AppendKeepsLogInv
  <1>2. r \in LogRecord /\ r.txn_id = t.id
    BY RecordFacts DEF Loggable, CommitRecord
  <1>3. Len(log) \in Nat /\ Len(log') = Len(log) + 1
    BY <1>2, AppendPointwise DEF TypeOK
  <1>4. TypeOK'
    <2>1. durable' \in 0 .. Len(log')
      BY <1>3 DEF TypeOK
    <2> QED
      BY <2>1, <1>1 DEF TypeOK, LogInv
  <1>5. IdsBelowAllocator'
    BY <1>2, AppendIds
  <1>6. \A s \in acked' : s <= durable'
    OBVIOUS
  <1> QED
    BY <1>1, <1>4, <1>5, <1>6 DEF LogInv

\* A durable commit keeps the invariant: what it publishes is the new tail.
LEMMA CommitOkStep ==
    ASSUME IndInv, NEW t \in open, NEW now \in Time, CommitOk(t, now)
    PROVE  IndInv'
  <1> USE DEF IndInv
  <1> DEFINE ts == CommitTs(now)
             r == CommitRecord(t, ts)
             n == Len(log)
  <1>1. /\ status = "up" /\ status' = "up" /\ open' = open \ {t} /\ Loggable(t, now)
        /\ ~poisoned /\ log' = Append(log, r) /\ durable' = n + 1
        /\ torn' = torn /\ poisoned' = poisoned
        /\ cursor' = r.commit_ts /\ next_seq' = r.seq + 1 /\ commit_head' = Hash(r)
        /\ write_index' = [k \in Key |-> IF k \in r.writes THEN r.commit_ts ELSE write_index[k]]
        /\ acked' = acked \cup {r.seq} /\ next_txn' = next_txn
    BY DEF CommitOk, Consume, AppendAndTick, Publish
  <1>2. LogInv'
    BY <1>1, AppendKeepsLogInv
  <1>3. /\ r \in LogRecord /\ ts > cursor /\ ts \in 0 .. Open - 1
        /\ Hash(r) \in Seq(Nat \X Nat \X Nat)
    BY <1>1, RecordFacts DEF Loggable
  <1>4. /\ r.txn_id = t.id /\ r.commit_ts = ts /\ r.seq = next_seq
        /\ r.snapshot = t.snapshot /\ r.writes = t.writes
    BY DEF CommitRecord
  <1> HIDE DEF r, ts
  <1>5. PublishedIsLogTail /\ n \in Nat /\ log \in Seq(LogRecord)
    BY <1>1 DEF TypeOK
  <1>6. /\ Len(log') = n + 1
        /\ \A i \in 1 .. n : log'[i] = log[i]
        /\ log'[n + 1] = r
    BY <1>1, <1>3, <1>5, AppendPointwise
  <1>7. r.seq = n + 1
    BY <1>4, <1>5 DEF PublishedIsLogTail
  <1>8. IdsBelowAllocator'
    BY <1>1, <1>3, <1>4, AppendIds
  <1>9. TypeOK'
    <2>1. write_index' \in [Key -> 0 .. Open - 1]
      BY <1>1, <1>3, <1>4 DEF TypeOK
    <2>2. open' \subseteq Transaction
      BY <1>1 DEF TypeOK
    <2>3. log' \in Seq(LogRecord)
      BY <1>2 DEF LogInv
    <2>4. durable' \in 0 .. Len(log') /\ next_seq' \in Nat \ {0}
      BY <1>1, <1>5, <1>6, <1>7
    <2>6. acked' \subseteq Nat \ {0}
      <3>1. r.seq \in Nat \ {0}
        BY <1>5, <1>7
      <3> QED
        BY <3>1, <1>1 DEF TypeOK
    <2>5. /\ cursor' \in 0 .. Open - 1 /\ commit_head' \in Seq(Nat \X Nat \X Nat)
          /\ next_txn' \in Nat \ {0} /\ torn' \in BOOLEAN /\ poisoned' \in BOOLEAN
      BY <1>1, <1>3, <1>4 DEF TypeOK
    <2> QED
      BY <1>1, <2>1, <2>2, <2>3, <2>4, <2>5, <2>6 DEF TypeOK
  <1>10. \A s \in acked' : s <= durable'
    <2>1. \A s \in acked : s \in Int /\ s <= durable /\ durable \in Int /\ durable <= n
      BY <1>5 DEF TypeOK
    <2> QED
      BY <2>1, <1>1, <1>5, <1>7
  <1>n. /\ cursor \in Int /\ ts \in Int
        /\ \A i \in 1 .. n : log[i].txn_id \in Int /\ log[i].commit_ts \in Int
        /\ \A u \in open : u.snapshot \in Int /\ u.snapshot <= cursor
    BY <1>1, <1>3, Numbers, OpenAssumption DEF TypeOK
  <1>11. \A u \in open' : u.snapshot <= cursor'
    BY <1>1, <1>3, <1>4, <1>n
  <1>12. PublishedIsLogTail'
    <2>1. next_seq' = Len(log') + 1
      BY <1>1, <1>6, <1>7
    <2>2. commit_head' = RecoveredHead(log')
      <3>1. log' # << >>
        BY <1>5, <1>6
      <3> QED
        BY <3>1, <1>1, <1>6 DEF RecoveredHead
    <2>3. \A i \in 1 .. n + 1 : log'[i].commit_ts <= ts
      <3>1. \A i \in 1 .. n : log[i].commit_ts <= ts
        BY <1>3, <1>5, <1>n DEF PublishedIsLogTail
      <3>2. ts <= ts
        BY <1>n
      <3>3. \A i \in 1 .. n + 1 : i \in 1 .. n \/ i = n + 1
        BY <1>5
      <3> QED
        BY <3>1, <3>2, <3>3, <1>4, <1>6
    <2>4. ASSUME NEW u \in open', NEW i \in 1 .. n + 1, NEW k \in log'[i].writes,
                 log'[i].commit_ts > u.snapshot
          PROVE  log'[i].commit_ts <= write_index'[k]
      <3>1. log'[i] \in LogRecord
        BY <1>2, <1>5, <1>6 DEF LogInv
      <3>2. k \in Key
        BY <3>1 DEF LogRecord
      <3>3. CASE k \in r.writes
        BY <2>3, <3>2, <3>3, <1>1, <1>4
      <3>4. CASE k \notin r.writes
        <4>1. i \in 1 .. n /\ log'[i] = log[i]
          BY <3>4, <1>5, <1>6
        <4>2. log[i].commit_ts <= write_index[k]
          BY <4>1, <2>4, <1>1, <1>5 DEF PublishedIsLogTail
        <4> QED
          BY <4>1, <4>2, <3>2, <3>4, <1>1
      <3> QED
        BY <3>3, <3>4
    <2> QED
      BY <2>1, <2>2, <2>3, <2>4, <1>1, <1>4, <1>6 DEF PublishedIsLogTail
  <1> QED
    BY <1>1, <1>2, <1>8, <1>9, <1>10, <1>11, <1>12 DEF LogInv

\* A crash keeps the fsynced frames, so every acknowledged commit with them.
LEMMA CrashStep ==
    ASSUME IndInv, NEW kept \in 0 .. Len(log), Crash(kept)
    PROVE  IndInv'
  <1> USE DEF IndInv, Crash, memory
  <1>1. LogInv' /\ Len(log') = kept
    BY PrefixKeepsLogInv
  <1>2. torn' \in BOOLEAN
    OBVIOUS
  <1>3. TypeOK'
    <2>1. durable' \in 0 .. Len(log')
      BY <1>1 DEF TypeOK
    <2>2. open' \subseteq Transaction
      OBVIOUS
    <2> QED
      BY <1>1, <1>2, <2>1, <2>2 DEF TypeOK, LogInv
  <1> QED
    BY <1>1, <1>3 DEF LogInv

\* Recovery publishes the tail of the log it verified, with no snapshot open.
LEMMA RecoverStep ==
    ASSUME IndInv, RecoverOk
    PROVE  IndInv'
  <1> USE DEF IndInv
  <1>1. /\ status # "up" /\ status' = "up" /\ open = {} /\ open' = {} /\ log' = log
        /\ durable' = durable /\ torn' = torn /\ acked' = acked /\ poisoned' = FALSE
        /\ cursor' = RecoveredTs(log) /\ next_txn' = MaxTxnId(log) + 1
        /\ next_seq' = RecoveredSeq(log) + 1 /\ commit_head' = RecoveredHead(log)
        /\ write_index' = [k \in Key |-> 0]
    BY DEF RecoverOk
  <1>2. LogInv'
    BY <1>1, QuietLog
  <1>3. Len(log) \in Nat
    BY DEF TypeOK
  <1>4. TypeOK'
    <2>1. write_index' \in [Key -> 0 .. Open - 1]
      BY <1>1, OpenAssumption
    <2>2. /\ cursor' \in 0 .. Open - 1 /\ next_txn' \in Nat \ {0}
          /\ next_seq' \in Nat \ {0} /\ commit_head' \in Seq(Nat \X Nat \X Nat)
      BY <1>1, <1>3, RecoveredTail, RecoveredAllocator
    <2> QED
      BY <1>1, <2>1, <2>2 DEF TypeOK
  <1>5. IdsBelowAllocator'
    BY <1>1, RecoveredAllocator DEF IdsBelowAllocator
  <1>6. PublishedIsLogTail'
    BY <1>1, RecoveredTail DEF PublishedIsLogTail
  <1> QED
    BY <1>1, <1>2, <1>4, <1>5, <1>6 DEF LogInv

\* A step that changes nothing keeps IndInv.
LEMMA StutterStep ==
    ASSUME IndInv, UNCHANGED vars
    PROVE  IndInv'
  BY DEF IndInv, vars, TypeOK, FirstCommitterWins, CommitOrder, TxnIdsUnique, ChainIntact,
     ChainVerifies, PrefixMax, IdsBelowAllocator, PublishedIsLogTail, RecoveredHead, Hash

\* A recovery that refuses a log it cannot verify keeps IndInv.
LEMMA RefusedStep ==
    ASSUME IndInv, RecoverRefused
    PROVE  IndInv'
  <1> USE DEF IndInv, RecoverRefused, memory, wal
  <1>1. LogInv'
    BY QuietLog
  <1>2. TypeOK'
    BY DEF TypeOK
  <1> QED
    BY <1>1, <1>2 DEF LogInv

\* IndInv is inductive: one step per action of Next.
LEMMA NextIndInv == IndInv /\ [Next]_vars => IndInv'
  <1> SUFFICES ASSUME IndInv, [Next]_vars PROVE IndInv'
    OBVIOUS
  <1>1. ASSUME NEW now \in Time, Begin(now) PROVE IndInv'
    BY <1>1, BeginStep
  <1>2. ASSUME NEW t \in open, NEW k \in Key, Write(t, k) PROVE IndInv'
    BY <1>2, WriteStep
  <1>3. ASSUME NEW t \in open, Rollback(t) \/ CommitConflict(t) PROVE IndInv'
    BY <1>3, ConsumeStep DEF Rollback, CommitConflict, Consume
  <1>4. ASSUME NEW t \in open, NEW now \in Time,
               CommitTimeExhausted(t, now) \/ CommitAppendFails(t, now)
        PROVE  IndInv'
    BY <1>4, ConsumeStep DEF CommitTimeExhausted, CommitAppendFails
  <1>5. ASSUME NEW t \in open, NEW now \in Time, CommitAppendTears(t, now) PROVE IndInv'
    BY <1>5, TearStep
  <1>6. ASSUME NEW t \in open, NEW now \in Time, CommitFsyncFails(t, now) PROVE IndInv'
    BY <1>6, FsyncFailsStep
  <1>7. ASSUME NEW t \in open, NEW now \in Time, CommitOk(t, now) PROVE IndInv'
    BY <1>7, CommitOkStep
  <1>8. ASSUME NEW kept \in 0 .. Len(log), Crash(kept) PROVE IndInv'
    BY <1>8, CrashStep
  <1>9. CASE RecoverOk
    BY <1>9, RecoverStep
  <1>10. CASE RecoverRefused
    BY <1>10, RefusedStep
  <1>11. CASE UNCHANGED vars
    BY <1>11, StutterStep
  <1> QED
    BY <1>1, <1>2, <1>3, <1>4, <1>5, <1>6, <1>7, <1>8, <1>9, <1>10, <1>11 DEF Next

\* Every reachable state of the manager satisfies IndInv.
THEOREM InductiveInvariant == Spec => []IndInv
  BY InitIndInv, NextIndInv, PTL DEF Spec

\* Type correctness of the manager and its log.
THEOREM TypeCorrect == Spec => []TypeOK
  <1>1. IndInv => TypeOK
    BY DEF IndInv
  <1> QED
    BY <1>1, InductiveInvariant, PTL

\* commit's conflict check gives first-committer-wins on the whole log,
\* across crashes that empty the write index.
THEOREM SnapshotIsolation == Spec => []FirstCommitterWins
  <1>1. IndInv => FirstCommitterWins
    BY DEF IndInv
  <1> QED
    BY <1>1, InductiveInvariant, PTL

\* The commit log stays in commit order: the order recovery trusts when it
\* takes the cursor and the sequence number from the last record alone.
THEOREM LogInCommitOrder == Spec => []CommitOrder
  <1>1. IndInv => CommitOrder
    BY DEF IndInv
  <1> QED
    BY <1>1, InductiveInvariant, PTL

\* No transaction id is logged twice, across restarts of the allocator.
THEOREM IdsNeverReused == Spec => []TxnIdsUnique
  <1>1. IndInv => TxnIdsUnique
    BY DEF IndInv
  <1> QED
    BY <1>1, InductiveInvariant, PTL

\* The hash chain commit extends verifies at every moment recovery may run.
THEOREM ChainAlwaysVerifies == Spec => []ChainIntact
  <1>1. IndInv => ChainIntact
    BY DEF IndInv
  <1> QED
    BY <1>1, InductiveInvariant, PTL

\* A commit that returned Ok survives every crash.
THEOREM AckedSurvives == Spec => []AckedDurable
  <1>1. IndInv => AckedDurable
    <2> SUFFICES ASSUME IndInv, NEW s \in acked
                 PROVE  \E i \in 1 .. durable : log[i].seq = s
      BY DEF AckedDurable
    <2>1. s \in Nat \ {0} /\ s <= durable /\ durable \in 0 .. Len(log) /\ Len(log) \in Nat
      BY DEF IndInv, TypeOK
    <2>2. s \in 1 .. durable /\ s \in 1 .. Len(log)
      BY <2>1
    <2>3. log[s].seq = s
      BY <2>2 DEF IndInv, CommitOrder
    <2> QED
      BY <2>2, <2>3
  <1> QED
    BY <1>1, InductiveInvariant, PTL

\* No commit ever lands at or below the snapshot of an open transaction.
THEOREM SnapshotsAreStable == Spec => SnapshotStable
  <1> DEFINE Stable == \A t \in open, i \in DOMAIN log' \ DOMAIN log :
                           log'[i].commit_ts > t.snapshot
  <1>1. ASSUME IndInv, [Next]_vars PROVE [Stable]_vars
    <2>1. log \in Seq(LogRecord) /\ Len(log) \in Nat /\ DOMAIN log = 1 .. Len(log)
      BY <1>1 DEF IndInv, TypeOK
    <2>2. ASSUME NEW u \in open, NEW now \in Time,
                 CommitFsyncFails(u, now) \/ CommitOk(u, now)
          PROVE  Stable
      <3> DEFINE r == CommitRecord(u, CommitTs(now))
      <3>1. status = "up" /\ CommitTs(now) < Open /\ log' = Append(log, r)
        BY <2>2 DEF CommitFsyncFails, CommitOk, AppendAndTick, Loggable, Consume
      <3>2. /\ r \in LogRecord /\ r.commit_ts = CommitTs(now)
            /\ CommitTs(now) > cursor /\ CommitTs(now) \in 0 .. Open - 1
        BY <1>1, <3>1, RecordFacts DEF CommitRecord, IndInv
      <3> HIDE DEF r
      <3>3. log' \in Seq(LogRecord) /\ Len(log') = Len(log) + 1 /\ log'[Len(log) + 1] = r
        BY <2>1, <3>1, <3>2, AppendPointwise
      <3>4. DOMAIN log' = 1 .. Len(log) + 1
        BY <3>3
      <3>5. \A i \in DOMAIN log' \ DOMAIN log : log'[i] = r
        BY <2>1, <3>3, <3>4
      <3>6. \A t \in open : CommitTs(now) > t.snapshot
        <4>1. \A t \in open : t.snapshot \in Int /\ t.snapshot <= cursor
          BY <1>1, <3>1, Numbers DEF IndInv
        <4>2. cursor \in Int /\ CommitTs(now) \in Int
          BY <1>1, <3>2, OpenAssumption DEF IndInv, TypeOK
        <4> QED
          BY <4>1, <4>2, <3>2
      <3> QED
        BY <3>2, <3>5, <3>6
    <2>3. ASSUME NEW kept \in 0 .. Len(log), Crash(kept) PROVE Stable
      <3>1. log' \in Seq(LogRecord) /\ Len(log') = kept
        BY <2>1, <2>3, PrefixPointwise DEF Crash
      <3>2. DOMAIN log' \subseteq DOMAIN log
        BY <2>1, <3>1
      <3> QED
        BY <3>2
    <2>4. ASSUME log' = log PROVE Stable
      BY <2>4
    <2> QED
      BY <1>1, <2>2, <2>3, <2>4 DEF Next, vars, wal, Begin, Write, Rollback, CommitConflict,
         CommitTimeExhausted, CommitAppendFails, CommitAppendTears, RecoverOk, RecoverRefused
  <1>2. IndInv /\ [Next]_vars => [Stable]_vars
    BY <1>1
  <1> QED
    BY <1>2, InductiveInvariant, PTL DEF Spec, SnapshotStable
=============================================================================
