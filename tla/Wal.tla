-------------------------------- MODULE Wal ---------------------------------
(***************************************************************************)
(* The write-ahead log (crates/stele-storage/src/wal/log.rs, replay.rs,    *)
(* segment.rs): segments of frames, group-commit fsync, rotation, commit   *)
(* futures parked until an fsync covers them, and the poison that refuses  *)
(* every later write after a failed fsync or a torn append.                *)
(*                                                                         *)
(* append, tick and poll each hold the WAL mutex throughout, so each is    *)
(* one action; the wakers they collect fire after the mutex is released,   *)
(* which is an action of its own.  A frame has size one: what a crash can  *)
(* leave of it is all, nothing, or Torn.                                   *)
(***************************************************************************)
EXTENDS Integers, Sequences, FiniteSets

CONSTANTS
    Task,         \* the tasks that append a record and await its durability
    SegmentSize,  \* segment_size_bytes, in frames
    MaxRecords,   \* bound on the records appended
    MaxCrashes,   \* bound on the crashes
    Faults,       \* which I/O faults occur, a subset of FaultKinds
    CrashKinds    \* "process" keeps the page cache, "power" loses it

FaultKinds == {"append", "tear", "sync", "create", "fence"}

ASSUME SegmentSizeAssumption == SegmentSize \in Nat \ {0}
ASSUME BoundsAssumption == MaxRecords \in Nat /\ MaxCrashes \in Nat
ASSUME KindsAssumption == Faults \subseteq FaultKinds /\ CrashKinds \subseteq {"process", "power"}

VARIABLES
    segments,     \* the segment files: [items, synced, fenced], oldest first
    up,           \* a Wal is open
    staged_end,   \* Inner.staged_end
    durable_end,  \* Inner.durable_end
    waiters,      \* Inner.waiters, one [task, target] per waker
    poisoned,     \* Inner.poisoned
    waking,       \* tasks whose waker was drained and has not fired yet
    task,         \* each task: idle, or a Commit future and how it is scheduled
    records,      \* records appended so far (the next one's name)
    acked,        \* records whose Commit resolved Ok (history)
    crashes       \* crashes so far

inner == <<staged_end, durable_end, waiters, poisoned>>
vars == <<segments, up, inner, waking, task, records, acked, crashes>>

Torn == 0
Idle == [state |-> "idle"]

Offset(s, b) == [segment_index |-> s, byte_offset |-> b]
Leq(a, b) == \/ a.segment_index < b.segment_index
             \/ a.segment_index = b.segment_index /\ a.byte_offset <= b.byte_offset

EmptySegment(fenced) == [items |-> << >>, synced |-> 0, fenced |-> fenced]
Write(segs, item) == [segs EXCEPT ![Len(segs)].items = Append(@, item)]
Sync(segs) == [segs EXCEPT ![Len(segs)].synced = Len(segs[Len(segs)].items)]

(* Wal::open on an empty disk. *)
Init ==
    /\ segments = <<EmptySegment(TRUE)>>
    /\ up = TRUE
    /\ staged_end = Offset(1, 0)
    /\ durable_end = Offset(1, 0)
    /\ waiters = {}
    /\ poisoned = FALSE
    /\ waking = {}
    /\ task = [c \in Task |-> Idle]
    /\ records = 0
    /\ acked = {}
    /\ crashes = 0
-----------------------------------------------------------------------------
(* drain_waiters. *)
Covered(end) == {w \in waiters : Leq(w.target, end)}

Drain(ws) ==
    /\ waiters' = waiters \ ws
    /\ waking' = waking \cup {w.task : w \in ws}

\* Mutant: the parked waiters left behind.
PoisonSilently == poisoned' = TRUE /\ UNCHANGED <<waiters, waking>>

(* Poisoning hands every parked waiter back to be woken. *)
Poison == poisoned' = TRUE /\ Drain(waiters)

\* Mutant: the frame about to be written left out of the projection.
NeedsRotationLate == staged_end.byte_offset > SegmentSize /\ staged_end.byte_offset > 0

NeedsRotation == staged_end.byte_offset + 1 > SegmentSize /\ staged_end.byte_offset > 0

\* Mutant: the closing segment not synced.
RotatedUnsynced ==
    IF NeedsRotation
    THEN LET end == Offset(staged_end.segment_index + 1, 0)
         IN  [segments |-> Append(segments, EmptySegment(TRUE)),
              staged |-> end, durable |-> end, covered |-> Covered(end)]
    ELSE [segments |-> segments, staged |-> staged_end, durable |-> durable_end, covered |-> {}]

(* The log once append has rotated, if it has to: the closing segment is   *)
(* synced, a new one created and fenced.                                   *)
Rotated ==
    IF NeedsRotation
    THEN LET end == Offset(staged_end.segment_index + 1, 0)
         IN  [segments |-> Append(Sync(segments), EmptySegment(TRUE)),
              staged |-> end, durable |-> end, covered |-> Covered(end)]
    ELSE [segments |-> segments, staged |-> staged_end, durable |-> durable_end, covered |-> {}]

CanAppend(c) == up /\ ~poisoned /\ task[c] = Idle /\ records < MaxRecords

(* append, then the task holds the Commit future of the record's end. *)
AppendOk(c) ==
    /\ CanAppend(c)
    /\ records' = records + 1
    /\ segments' = Write(Rotated.segments, records + 1)
    /\ staged_end' = [Rotated.staged EXCEPT !.byte_offset = @ + 1]
    /\ durable_end' = Rotated.durable
    /\ Drain(Rotated.covered)
    /\ task' = [task EXCEPT ![c] = [state |-> "runnable", record |-> records + 1, target |-> staged_end']]
    /\ UNCHANGED <<up, poisoned, acked, crashes>>

(* The frame's write fails with nothing landed, or the rotation's create   *)
(* fails after the closing segment's sync: an error, and no poison.        *)
AppendFailsClean(c) ==
    /\ CanAppend(c)
    /\ \/ /\ "append" \in Faults
          /\ segments' = Rotated.segments
          /\ staged_end' = Rotated.staged
          /\ durable_end' = Rotated.durable
          /\ Drain(Rotated.covered)
       \/ /\ "create" \in Faults /\ NeedsRotation
          /\ segments' = Sync(segments)
          /\ UNCHANGED <<staged_end, durable_end, waiters, waking>>
    /\ UNCHANGED <<up, poisoned, task, records, acked, crashes>>

\* Mutant: a short write reported as an error, the log left open.
AppendTearsSilently(c) ==
    /\ CanAppend(c)
    /\ "tear" \in Faults
    /\ segments' = Write(Rotated.segments, Torn)
    /\ staged_end' = [Rotated.staged EXCEPT !.byte_offset = @ + 1]
    /\ durable_end' = Rotated.durable
    /\ Drain(Rotated.covered)
    /\ UNCHANGED <<up, poisoned, task, records, acked, crashes>>

(* The frame's write fails with part of it landed. *)
AppendTears(c) ==
    /\ CanAppend(c)
    /\ "tear" \in Faults
    /\ segments' = Write(Rotated.segments, Torn)
    /\ staged_end' = Rotated.staged
    /\ durable_end' = Rotated.durable
    /\ Poison
    /\ UNCHANGED <<up, task, records, acked, crashes>>

(* The rotation's sync fails, or the fence of the segment it created. *)
RotationPoisons(c) ==
    /\ CanAppend(c)
    /\ NeedsRotation
    /\ \/ "sync" \in Faults /\ UNCHANGED segments
       \/ "fence" \in Faults /\ segments' = Append(Sync(segments), EmptySegment(FALSE))
    /\ Poison
    /\ UNCHANGED <<up, staged_end, durable_end, task, records, acked, crashes>>
-----------------------------------------------------------------------------
\* Mutant: the waiters woken, the durable end left behind.
TickForgetsDurable ==
    /\ up
    /\ ~poisoned
    /\ segments' = Sync(segments)
    /\ Drain(Covered(staged_end))
    /\ UNCHANGED <<up, staged_end, durable_end, poisoned, task, records, acked, crashes>>

(* tick. *)
TickOk ==
    /\ up
    /\ ~poisoned
    /\ segments' = Sync(segments)
    /\ durable_end' = staged_end
    /\ Drain(Covered(staged_end))
    /\ UNCHANGED <<up, staged_end, poisoned, task, records, acked, crashes>>

TickFails ==
    /\ up
    /\ ~poisoned
    /\ "sync" \in Faults
    /\ Poison
    /\ UNCHANGED <<segments, up, staged_end, durable_end, task, records, acked, crashes>>

Resolve(c) == task' = [task EXCEPT ![c] = Idle]

IsCovered(c) == Leq(task[c].target, durable_end)

(* Commit::poll, also of a future nothing woke. *)
Poll(c) ==
    /\ up
    /\ task[c] # Idle
    /\ \/ /\ IsCovered(c)
          /\ Resolve(c)
          /\ acked' = acked \cup {task[c].record}
          /\ UNCHANGED waiters
       \/ /\ ~IsCovered(c) /\ poisoned
          /\ Resolve(c)
          /\ UNCHANGED <<acked, waiters>>
       \/ /\ ~IsCovered(c) /\ ~poisoned
          /\ task' = [task EXCEPT ![c].state = "parked"]
          /\ waiters' = waiters \cup {[task |-> c, target |-> task[c].target]}
          /\ UNCHANGED acked
    /\ UNCHANGED <<segments, up, staged_end, durable_end, poisoned, waking, records, crashes>>

(* A drained waker fires; it may be that of a future already resolved. *)
Wake(c) ==
    /\ up
    /\ c \in waking
    /\ waking' = waking \ {c}
    /\ task' = IF task[c] = Idle THEN task ELSE [task EXCEPT ![c].state = "runnable"]
    /\ UNCHANGED <<segments, up, inner, records, acked, crashes>>

(* A future dropped before it resolves; its waker stays registered. *)
DropCommit(c) ==
    /\ up
    /\ task[c] # Idle
    /\ Resolve(c)
    /\ UNCHANGED <<segments, up, inner, waking, records, acked, crashes>>
-----------------------------------------------------------------------------
(* A crash loses the memory.  A power loss also loses the segments whose   *)
(* entry was never fenced and, of the others, a suffix of the unsynced     *)
(* frames, the first of which may be left torn.                            *)
SegmentSurvivors(seg) ==
    LET Left(kept, torn) == [seg EXCEPT !.items = SubSeq(seg.items, 1, kept) \o torn,
                                        !.synced = kept + Len(torn)]
    IN  {Left(kept, << >>) : kept \in seg.synced .. Len(seg.items)}
        \cup {Left(kept, <<Torn>>) : kept \in seg.synced .. Len(seg.items) - 1}

Survivors ==
    LET n == Len(segments)
        Prefix(m) == {s \in [1 .. m -> UNION {SegmentSurvivors(segments[i]) : i \in 1 .. m}] :
                          \A i \in 1 .. m : s[i] \in SegmentSurvivors(segments[i])}
    IN  Prefix(n) \cup (IF segments[n].fenced THEN {} ELSE Prefix(n - 1))

Crash ==
    /\ up
    /\ crashes < MaxCrashes
    /\ up' = FALSE
    /\ crashes' = crashes + 1
    /\ \/ "process" \in CrashKinds /\ UNCHANGED segments
       \/ "power" \in CrashKinds /\ segments' \in Survivors
    /\ waiters' = {}
    /\ waking' = {}
    /\ task' = [c \in Task |-> Idle]
    /\ UNCHANGED <<staged_end, durable_end, poisoned, records, acked>>

(* Wal::open on what a crash left. *)
Open ==
    /\ ~up
    /\ up' = TRUE
    /\ segments' = [i \in DOMAIN segments |-> [segments[i] EXCEPT !.fenced = TRUE]]
    /\ LET end == Offset(Len(segments), Len(segments[Len(segments)].items))
       IN  staged_end' = end /\ durable_end' = end
    /\ poisoned' = FALSE
    /\ UNCHANGED <<waiters, waking, task, records, acked, crashes>>

Next ==
    \/ \E c \in Task :
          \/ AppendOk(c) \/ AppendFailsClean(c) \/ AppendTears(c) \/ RotationPoisons(c)
          \/ Poll(c) \/ Wake(c) \/ DropCommit(c)
    \/ TickOk
    \/ TickFails
    \/ Crash
    \/ Open

Spec == Init /\ [][Next]_vars

(* The log's driver keeps ticking (a tick that fails poisons the log, so   *)
(* one attempt is all the weak fairness of TickOk asks for); the executor  *)
(* polls what is runnable and the wakers that were collected are fired.    *)
Fairness ==
    /\ WF_vars(TickOk)
    /\ \A c \in Task : WF_vars(task[c] # Idle /\ task[c].state = "runnable" /\ Poll(c))
                       /\ WF_vars(Wake(c))

FairSpec == Spec /\ Fairness
-----------------------------------------------------------------------------
(* replay_from the origin: everything before the first frame that does not *)
(* parse.                                                                  *)
Replayed ==
    {r \in 1 .. records :
        \E s \in DOMAIN segments : \E i \in DOMAIN segments[s].items :
            /\ segments[s].items[i] = r
            /\ \A t \in 1 .. s : \A j \in DOMAIN segments[t].items :
                  segments[t].items[j] = Torn => t = s /\ j > i}

\* Every variable of the log and of its tasks has its type.
TypeOK ==
    /\ segments \in Seq([items : Seq(Nat), synced : Nat, fenced : BOOLEAN])
    /\ segments # << >>
    /\ up \in BOOLEAN
    /\ staged_end \in [segment_index : Nat, byte_offset : 0 .. SegmentSize]
    /\ durable_end \in [segment_index : Nat, byte_offset : Nat]
    /\ waiters \subseteq [task : Task, target : [segment_index : Nat, byte_offset : Nat]]
    /\ poisoned \in BOOLEAN
    /\ waking \subseteq Task
    /\ \A c \in Task : task[c] # Idle =>
          /\ task[c].state \in {"runnable", "parked"}
          /\ task[c].record \in Nat \ {0}
          /\ task[c].target \in [segment_index : Nat, byte_offset : Nat]
    /\ records \in Nat
    /\ acked \subseteq Nat
    /\ crashes \in Nat

\* A commit future resolves Ok only for a record that an fsync covered in a
\* segment whose directory entry is durable: no crash can take it away.
AckedSynced ==
    \A r \in acked : \E s \in DOMAIN segments :
        /\ segments[s].fenced
        /\ \E i \in 1 .. segments[s].synced : segments[s].items[i] = r

\* No wakeup is lost: a parked future is registered, or its waker is about to
\* fire; and no future is left registered once its record is durable or the
\* log is poisoned.
NoStrandedWaiter ==
    up => /\ \A c \in Task : task[c] # Idle /\ task[c].state = "parked" =>
                 c \in waking \/ [task |-> c, target |-> task[c].target] \in waiters
          /\ \A w \in waiters : ~poisoned /\ ~Leq(w.target, durable_end)

\* What tick or a rotation reported durable is what replay yields after the
\* crash: every acknowledged record is replayed.
AckedReplayed == ~up => acked \subseteq Replayed

\* Every commit future resolves: by the fsync that covers it, by the poison, or
\* because the process died.
CommitsResolve == \A c \in Task : task[c] # Idle ~> task[c] = Idle
=============================================================================
