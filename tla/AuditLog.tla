------------------------------ MODULE AuditLog ------------------------------
(***************************************************************************)
(* The writer of krono/audit.py: one AuditLog instance in one process, the *)
(* threads that call record() and close() on it, the buffered file handle  *)
(* it writes through, and the file.  The process may be killed, the        *)
(* machine may lose power, an I/O call may fail or be interrupted, and a   *)
(* new process may construct a new instance on the file that is left.      *)
(*                                                                         *)
(* What is atomic.  record() is cut where another thread, a crash or an    *)
(* I/O error can come between: entry, lock, write, flush, fsync, advance.  *)
(* close() takes no lock, so it is cut at each of its statements.          *)
(*                                                                         *)
(* The file handle is CPython's TextIOWrapper over a BufferedWriter, which *)
(* is not under src/: it is modelled from what record() and close() see    *)
(* of it.  A line smaller than the buffer waits in the text layer until a  *)
(* flush; the buffer has a lock of its own, held while bytes go out; a     *)
(* failed flush keeps the bytes that did not go out, and the next flush    *)
(* tries them again; a line larger than the buffer goes out during write() *)
(* itself, and when that fails the rest of that line is dropped.           *)
(***************************************************************************)
EXTENDS KronoLog, RecordCall

CONSTANTS
    Threads,        \* threads of the process
    Key,            \* the key of every instance on this file
    Arguments,      \* arguments record() is called with
    BigCalls,       \* calls whose line is larger than the write buffer
    Fsync,          \* the constructor's fsync=
    MaxFaults,      \* bound: failing I/O calls and interrupts
    MaxCrashes,     \* bound: kills of the process and power losses
    NoThread, NoCall, NoEvent

ASSUME AuditLogAssumption ==
    /\ Key \in Keys
    /\ BigCalls \subseteq Calls
    /\ Fsync \in BOOLEAN
    /\ MaxFaults \in Nat
    /\ MaxCrashes \in Nat
    /\ NoThread \notin Threads
    /\ NoCall \notin Calls
    /\ NoEvent \notin AuditEvent

VARIABLES
    \* the file
    lines,              \* texts between newlines, each a sequence of cells
    tail,               \* cells after the last newline
    synced,             \* lines known to be on stable storage
    \* the file handle
    pending,            \* written text the text layer still holds
    buf,                \* cells in the write buffer
    io,                 \* thread holding the buffer's own lock
    fh_open,
    \* the instance
    live,               \* a constructed instance exists
    closed,             \* self._closed
    next_sequence,      \* self._next_sequence
    last_current_hash,  \* self._last_current_hash
    lock,               \* self._lock: its holder
    \* the threads' locals
    pc, call, entry,
    \* history, read only to make each call once and to bound the faults
    outcome,            \* how each record() call ended
    dirty,              \* an append of this instance failed
    spoiled,            \* an instance appended again after a failed append
    powerLost,
    faults, crashes

file     == << lines, tail, synced >>
handle   == << pending, buf, io, fh_open >>
instance == << live, closed, next_sequence, last_current_hash, lock >>
locals   == << pc, call, entry >>
history  == << outcome, dirty, spoiled, powerLost, faults, crashes >>
vars     == << file, handle, instance, locals, history >>

\* Where a thread is: outside, in record(), or in close().
RecordHolding == {"write", "bigwrite", "flush", "flushing", "fsync", "advance", "advance_hash"}
Closing       == {"c_set", "c_flush", "c_flushing", "c_close", "c_closing"}
PC            == {"idle", "lock"} \cup RecordHolding \cup Closing
Draining      == {"bigwrite", "flushing", "c_flushing", "c_closing"}

\* "refused" stands for every exception before the first byte.
Outcome == {"unused", "running", "ok", "write_error", "value_error",
            "interrupted", "refused", "lost"}

TypeOK ==
    /\ lines \in Seq(Seq(Cell))
    /\ tail \in Seq(Cell)
    /\ synced \in Nat
    /\ pending \in Seq(Cell)
    /\ buf \in Seq(Cell)
    /\ io \in Threads \cup {NoThread}
    /\ fh_open \in BOOLEAN
    /\ live \in BOOLEAN
    /\ closed \in BOOLEAN
    /\ next_sequence \in Nat
    /\ last_current_hash \in Hash
    /\ lock \in Threads \cup {NoThread}
    /\ pc \in [Threads -> PC]
    /\ call \in [Threads -> Calls \cup {NoCall}]
    /\ entry \in [Threads -> AuditEvent \cup {NoEvent}]
    /\ outcome \in [Calls -> Outcome]
    /\ dirty \in BOOLEAN
    /\ spoiled \in BOOLEAN
    /\ powerLost \in BOOLEAN
    /\ faults \in Nat
    /\ crashes \in Nat

-----------------------------------------------------------------------------
(* Construction *)

\* No process has the file open: there is no handle, no instance, no thread.
NoInstance ==
    /\ live' = FALSE
    /\ closed' = TRUE
    /\ next_sequence' = 0
    /\ last_current_hash' = Genesis
    /\ lock' = NoThread
    /\ fh_open' = FALSE
    /\ pending' = << >>
    /\ buf' = << >>
    /\ io' = NoThread
    /\ dirty' = FALSE
    /\ pc' = [t \in Threads |-> "idle"]
    /\ call' = [t \in Threads |-> NoCall]
    /\ entry' = [t \in Threads |-> NoEvent]

Init ==
    /\ lines = << >>
    /\ tail = << >>
    /\ synced = 0
    /\ live = FALSE
    /\ closed = TRUE
    /\ next_sequence = 0
    /\ last_current_hash = Genesis
    /\ lock = NoThread
    /\ fh_open = FALSE
    /\ pending = << >>
    /\ buf = << >>
    /\ io = NoThread
    /\ pc = [t \in Threads |-> "idle"]
    /\ call = [t \in Threads |-> NoCall]
    /\ entry = [t \in Threads |-> NoEvent]
    /\ outcome = [c \in Calls |-> "unused"]
    /\ dirty = FALSE
    /\ spoiled = FALSE
    /\ powerLost = FALSE
    /\ faults = 0
    /\ crashes = 0

\* _load_resume_state does not raise: the file is empty, or it ends in a
\* newline and the text before that newline is one event.
Resumable ==
    /\ tail = << >>
    /\ lines # << >> => Parses(lines[Len(lines)])

ResumeState(next_seq, last_hash) == [next_seq |-> next_seq, last_hash |-> last_hash]

\* A bug: the next sequence number is the one of the last line.
ResumeOffByOne(event) == ResumeState(event.sequence_number, event.current_hash)

ResumeAfter(event) == ResumeState(event.sequence_number + 1, event.current_hash)

\* Only the last line is read.
_load_resume_state ==
    IF lines = << >> THEN ResumeState(0, Genesis) ELSE ResumeAfter(EventOf(lines[Len(lines)]))

\* AuditLog(path).  When the file is not Resumable the constructor closes its
\* handle and raises WriteError, which changes nothing.
Construct ==
    /\ ~live
    /\ Resumable
    /\ live' = TRUE
    /\ closed' = FALSE
    /\ fh_open' = TRUE
    /\ next_sequence' = _load_resume_state.next_seq
    /\ last_current_hash' = _load_resume_state.last_hash
    /\ UNCHANGED << file, pending, buf, io, lock, locals, history >>

-----------------------------------------------------------------------------
(* record() *)

\* A bug: acquire() and release() without try/finally.
ReturnKeepingLock(t, result) ==
    /\ pc' = [pc EXCEPT ![t] = "idle"]
    /\ call' = [call EXCEPT ![t] = NoCall]
    /\ entry' = [entry EXCEPT ![t] = NoEvent]
    /\ lock' = IF result = "ok" THEN NoThread ELSE lock
    /\ outcome' = [outcome EXCEPT ![call[t]] = result]

\* The thread t leaves record(): the with statement releases the lock.
Return(t, result) ==
    /\ pc' = [pc EXCEPT ![t] = "idle"]
    /\ call' = [call EXCEPT ![t] = NoCall]
    /\ entry' = [entry EXCEPT ![t] = NoEvent]
    /\ lock' = NoThread
    /\ outcome' = [outcome EXCEPT ![call[t]] = result]

\* record() raises before the lock.
RecordRefused(t, c, args) ==
    /\ live
    /\ pc[t] = "idle"
    /\ outcome[c] = "unused"
    /\ record_raises(args, closed) # "none"
    /\ outcome' = [outcome EXCEPT ![c] = "refused"]
    /\ UNCHANGED << file, handle, instance, locals, dirty, spoiled, powerLost, faults, crashes >>

RecordStart(t, c, args) ==
    /\ live
    /\ pc[t] = "idle"
    /\ outcome[c] = "unused"
    /\ record_raises(args, closed) = "none"
    /\ pc' = [pc EXCEPT ![t] = "lock"]
    /\ call' = [call EXCEPT ![t] = c]
    /\ outcome' = [outcome EXCEPT ![c] = "running"]
    /\ UNCHANGED << file, handle, instance, entry, dirty, spoiled, powerLost, faults, crashes >>

\* with self._lock: another thread has closed the instance meanwhile.
FindClosed(t) ==
    /\ pc[t] = "lock"
    /\ lock = NoThread
    /\ closed
    /\ Return(t, "refused")
    /\ UNCHANGED << file, handle, live, closed, next_sequence, last_current_hash,
                    dirty, spoiled, powerLost, faults, crashes >>

\* A bug: the event is built outside the lock.
BuildEventUnlocked(t) ==
    /\ pc[t] = "lock"
    /\ ~closed
    /\ lock' = t
    /\ pc' = [pc EXCEPT ![t] = "write"]
    /\ entry' = [entry EXCEPT ![t] = MakeEvent(Key, next_sequence, call[t], last_current_hash)]
    /\ UNCHANGED << file, handle, live, closed, next_sequence, last_current_hash, call, history >>

\* A bug: the sequence number is taken when the event is built.
BuildEventAdvances(t) ==
    /\ pc[t] = "lock"
    /\ lock = NoThread
    /\ ~closed
    /\ lock' = t
    /\ pc' = [pc EXCEPT ![t] = "write"]
    /\ entry' = [entry EXCEPT ![t] = MakeEvent(Key, next_sequence, call[t], last_current_hash)]
    /\ next_sequence' = next_sequence + 1
    /\ UNCHANGED << file, handle, live, closed, last_current_hash, call, history >>

\* with self._lock: read the chain head, build and hash the event.
BuildEvent(t) ==
    /\ pc[t] = "lock"
    /\ lock = NoThread
    /\ ~closed
    /\ lock' = t
    /\ pc' = [pc EXCEPT ![t] = "write"]
    /\ entry' = [entry EXCEPT ![t] = MakeEvent(Key, next_sequence, call[t], last_current_hash)]
    /\ UNCHANGED << file, handle, live, closed, next_sequence, last_current_hash, call, history >>

\* self._fh.write(line), smaller than the buffer: kept in the text layer.
WriteSmall(t) ==
    /\ pc[t] = "write"
    /\ fh_open
    /\ call[t] \notin BigCalls
    /\ pc' = [pc EXCEPT ![t] = "flush"]
    /\ pending' = pending \o LineOf(entry[t])
    /\ spoiled' = (spoiled \/ dirty)
    /\ UNCHANGED << file, buf, io, fh_open, instance, call, entry,
                    outcome, dirty, powerLost, faults, crashes >>

\* self._fh.write(line), larger than the buffer: it starts to go out.
WriteBig(t) ==
    /\ pc[t] = "write"
    /\ fh_open
    /\ call[t] \in BigCalls
    /\ io = NoThread
    /\ io' = t
    /\ pc' = [pc EXCEPT ![t] = "bigwrite"]
    /\ buf' = buf \o pending \o LineOf(entry[t])
    /\ pending' = << >>
    /\ spoiled' = (spoiled \/ dirty)
    /\ UNCHANGED << file, fh_open, instance, call, entry,
                    outcome, dirty, powerLost, faults, crashes >>

\* What is left of the line fits the buffer.
BigWriteDone(t) ==
    /\ pc[t] = "bigwrite"
    /\ Len(buf) < LineCells
    /\ io' = NoThread
    /\ pc' = [pc EXCEPT ![t] = "flush"]
    /\ UNCHANGED << file, pending, buf, fh_open, instance, call, entry, history >>

\* self._fh.flush() begins.
FlushStart(t) ==
    /\ pc[t] = "flush"
    /\ fh_open
    /\ io = NoThread
    /\ io' = t
    /\ pc' = [pc EXCEPT ![t] = "flushing"]
    /\ buf' = buf \o pending
    /\ pending' = << >>
    /\ UNCHANGED << file, fh_open, instance, call, entry, history >>

\* Bytes of the buffer reach the file, for whichever thread is pushing them.
Drain(t) ==
    /\ pc[t] \in Draining
    /\ buf # << >>
    /\ buf' = Tail(buf)
    /\ IF Head(buf).part = LineCells
         THEN lines' = Append(lines, tail) /\ tail' = << >>
         ELSE tail' = Append(tail, Head(buf)) /\ UNCHANGED lines
    /\ UNCHANGED << synced, pending, io, fh_open, instance, locals, history >>

\* A bug: fsync= is ignored.
AfterFlushUnsynced == "advance"

AfterFlush == IF Fsync THEN "fsync" ELSE "advance"

FlushDone(t) ==
    /\ pc[t] = "flushing"
    /\ buf = << >>
    /\ io' = NoThread
    /\ pc' = [pc EXCEPT ![t] = AfterFlush]
    /\ UNCHANGED << file, pending, buf, fh_open, instance, call, entry, history >>

\* os.fsync(self._fh.fileno())
Sync(t) ==
    /\ pc[t] = "fsync"
    /\ fh_open
    /\ synced' = Len(lines)
    /\ pc' = [pc EXCEPT ![t] = "advance"]
    /\ UNCHANGED << lines, tail, handle, instance, call, entry, history >>

\* The buffer without what is left of the line a large write() pushes out.
WithoutLine == SubSeq(buf, 1, IF Len(buf) > LineCells THEN Len(buf) - LineCells ELSE 0)

\* A bug: a failed append is tried again.
AppendRetries(t) ==
    /\ \/ pc[t] \in {"bigwrite", "flushing"} /\ buf # << >>
       \/ pc[t] = "fsync" /\ fh_open
    /\ faults < MaxFaults
    /\ faults' = faults + 1
    /\ io' = IF pc[t] = "fsync" THEN io ELSE NoThread
    /\ pc' = [pc EXCEPT ![t] = "write"]
    /\ UNCHANGED << file, pending, buf, fh_open, instance, call, entry,
                    outcome, dirty, spoiled, powerLost, crashes >>

\* An I/O call of record() fails with OSError, which record() turns into
\* WriteError.  A large write() drops what is left of its line, a flush()
\* keeps what it could not write, an fsync() has written everything.
AppendFails(t) ==
    /\ \/ pc[t] \in {"bigwrite", "flushing"} /\ buf # << >>
       \/ pc[t] = "fsync" /\ fh_open
    /\ faults < MaxFaults
    /\ faults' = faults + 1
    /\ buf' = IF pc[t] = "bigwrite" THEN WithoutLine ELSE buf
    /\ io' = IF pc[t] = "fsync" THEN io ELSE NoThread
    /\ dirty' = TRUE
    /\ Return(t, "write_error")
    /\ UNCHANGED << file, pending, fh_open, live, closed, next_sequence, last_current_hash,
                    spoiled, powerLost, crashes >>

\* A bug: the ValueError of a closed handle is suppressed.
GoneSuppressed(t) == {"ok"}

\* A bug: it is suppressed, and nothing is returned.
GoneNone(t) == {"none"}

\* A bug: it is reported as a record() on a closed instance.
GoneAsClosed(t) == {"refused"}

\* How record() ends when close() has closed the handle under it: write(),
\* flush() and fileno() raise ValueError, which record() does not catch.  When
\* the handle is closed between fileno() and fsync(), the error is an OSError.
GoneResults(t) ==
    IF pc[t] = "fsync" THEN {"value_error", "write_error"} ELSE {"value_error"}

HandleGone(t) ==
    /\ pc[t] \in {"write", "flush", "fsync"}
    /\ ~fh_open
    /\ dirty' = TRUE
    /\ \E result \in GoneResults(t) : Return(t, result)
    /\ UNCHANGED << file, handle, live, closed, next_sequence, last_current_hash,
                    spoiled, powerLost, faults, crashes >>

\* An exception that is no OSError (KeyboardInterrupt) leaves the critical
\* section wherever it stands: nothing catches it, the lock is released.  A
\* large write() drops what is left of its line, as when it fails.
Interrupted(t) ==
    /\ pc[t] \in RecordHolding
    /\ faults < MaxFaults
    /\ faults' = faults + 1
    /\ buf' = IF pc[t] = "bigwrite" THEN WithoutLine ELSE buf
    /\ io' = IF pc[t] \in Draining THEN NoThread ELSE io
    /\ dirty' = (dirty \/ pc[t] # "write")
    /\ Return(t, "interrupted")
    /\ UNCHANGED << file, pending, fh_open, live, closed, next_sequence, last_current_hash,
                    spoiled, powerLost, crashes >>

\* The chain state moves on, one attribute after the other.
AdvanceSequence(t) ==
    /\ pc[t] = "advance"
    /\ next_sequence' = entry[t].sequence_number + 1
    /\ pc' = [pc EXCEPT ![t] = "advance_hash"]
    /\ UNCHANGED << file, handle, live, closed, last_current_hash, lock, call, entry, history >>

\* record() returns the event.
AdvanceHash(t) ==
    /\ pc[t] = "advance_hash"
    /\ last_current_hash' = entry[t].current_hash
    /\ Return(t, "ok")
    /\ UNCHANGED << file, handle, live, closed, next_sequence, dirty, spoiled, powerLost,
                    faults, crashes >>

-----------------------------------------------------------------------------
(* close() *)

\* if self._closed: return
CloseStart(t) ==
    /\ live
    /\ pc[t] = "idle"
    /\ ~closed
    /\ pc' = [pc EXCEPT ![t] = "c_set"]
    /\ UNCHANGED << file, handle, instance, call, entry, history >>

CloseSet(t) ==
    /\ pc[t] = "c_set"
    /\ closed' = TRUE
    /\ pc' = [pc EXCEPT ![t] = "c_flush"]
    /\ UNCHANGED << file, handle, live, next_sequence, last_current_hash, lock,
                    call, entry, history >>

\* self._fh.flush(), then the flush inside self._fh.close(), begin.
CloseFlushStart(t) ==
    /\ fh_open
    /\ io = NoThread
    /\ \/ pc[t] = "c_flush" /\ pc' = [pc EXCEPT ![t] = "c_flushing"]
       \/ pc[t] = "c_close" /\ pc' = [pc EXCEPT ![t] = "c_closing"]
    /\ io' = t
    /\ buf' = buf \o pending
    /\ pending' = << >>
    /\ UNCHANGED << file, fh_open, instance, call, entry, history >>

\* The first flush ends; an OSError it raises is suppressed.
CloseFlushDone(t) ==
    /\ pc[t] = "c_flushing"
    /\ \/ buf = << >> /\ UNCHANGED faults
       \/ buf # << >> /\ faults < MaxFaults /\ faults' = faults + 1
    /\ io' = NoThread
    /\ pc' = [pc EXCEPT ![t] = "c_close"]
    /\ UNCHANGED << file, pending, buf, fh_open, instance, call, entry,
                    outcome, dirty, spoiled, powerLost, crashes >>

\* A bug: the handle is closed without its last flush.
CloseUnflushed(t) ==
    /\ pc[t] = "c_closing"
    /\ io' = NoThread
    /\ fh_open' = FALSE
    /\ buf' = << >>
    /\ pending' = << >>
    /\ pc' = [pc EXCEPT ![t] = "idle"]
    /\ UNCHANGED << file, instance, call, entry, outcome, dirty, spoiled, powerLost,
                    faults, crashes >>

\* A bug: close() only flushes.
CloseLeavesOpen(t) ==
    /\ pc[t] = "c_closing"
    /\ buf = << >>
    /\ io' = NoThread
    /\ pc' = [pc EXCEPT ![t] = "idle"]
    /\ UNCHANGED << file, pending, buf, fh_open, instance, call, entry, history >>

\* The handle is closed, whether or not its last flush succeeds; what was
\* not written is gone.
CloseDone(t) ==
    /\ pc[t] = "c_closing"
    /\ \/ buf = << >> /\ UNCHANGED faults
       \/ buf # << >> /\ faults < MaxFaults /\ faults' = faults + 1
    /\ io' = NoThread
    /\ fh_open' = FALSE
    /\ buf' = << >>
    /\ pending' = << >>
    /\ pc' = [pc EXCEPT ![t] = "idle"]
    /\ UNCHANGED << file, instance, call, entry, outcome, dirty, spoiled, powerLost, crashes >>

\* Another close() was first: flush() raises ValueError on a closed handle,
\* close() returns.  Both leave the handle alone.
CloseFindsClosed(t) ==
    /\ pc[t] \in {"c_flush", "c_close"}
    /\ ~fh_open
    /\ pc' = [pc EXCEPT ![t] = "idle"]
    /\ UNCHANGED << file, handle, instance, call, entry, history >>

-----------------------------------------------------------------------------
(* The process and the machine *)

\* The process ends after close() has returned.
Exit ==
    /\ live
    /\ ~fh_open
    /\ \A t \in Threads : pc[t] = "idle"
    /\ NoInstance
    /\ UNCHANGED << file, outcome, spoiled, powerLost, faults, crashes >>

\* Calls that were running have no result.
Abandoned == [c \in Calls |-> IF outcome[c] = "running" THEN "lost" ELSE outcome[c]]

\* The process is killed: its buffers are gone, the file stays.
Crash ==
    /\ live
    /\ crashes < MaxCrashes
    /\ crashes' = crashes + 1
    /\ NoInstance
    /\ outcome' = Abandoned
    /\ UNCHANGED << file, spoiled, powerLost, faults >>

\* Power is lost: of what was not fsynced, the file system keeps a prefix.
PowerLoss ==
    /\ crashes < MaxCrashes
    /\ crashes' = crashes + 1
    /\ NoInstance
    /\ outcome' = Abandoned
    /\ powerLost' = TRUE
    /\ \E n \in synced..Len(lines) :
         LET cut == IF n < Len(lines) THEN lines[n + 1] ELSE tail
         IN  /\ lines' = SubSeq(lines, 1, n)
             /\ synced' = n
             /\ \E m \in 0..Len(cut) : tail' = SubSeq(cut, 1, m)
    /\ UNCHANGED << spoiled, faults >>

\* The constructor refuses the file, and the operator repairs it by hand: the
\* partial line is removed, or completed when only its newline is missing.
Repair ==
    /\ ~live
    /\ ~Resumable
    /\ tail' = << >>
    /\ \/ tail # << >> /\ UNCHANGED << lines, synced >>
       \/ Parses(tail) /\ lines' = Append(lines, tail) /\ UNCHANGED synced
       \/ /\ tail = << >>
          /\ lines' = SubSeq(lines, 1, Len(lines) - 1)
          /\ synced' = IF synced < Len(lines) THEN synced ELSE Len(lines) - 1
    /\ UNCHANGED << handle, instance, locals, history >>

-----------------------------------------------------------------------------

ThreadNext(t) ==
    \/ FindClosed(t) \/ BuildEvent(t)
    \/ WriteSmall(t) \/ WriteBig(t) \/ BigWriteDone(t)
    \/ FlushStart(t) \/ Drain(t) \/ FlushDone(t) \/ Sync(t)
    \/ AppendFails(t) \/ HandleGone(t) \/ Interrupted(t)
    \/ AdvanceSequence(t) \/ AdvanceHash(t)
    \/ CloseSet(t) \/ CloseFlushStart(t) \/ CloseFlushDone(t)
    \/ CloseDone(t) \/ CloseFindsClosed(t)

Environment == Construct \/ Exit \/ Crash \/ PowerLoss \/ Repair

Next ==
    \/ Environment
    \/ \E t \in Threads :
         \/ ThreadNext(t)
         \/ CloseStart(t)
         \/ \E c \in Calls, args \in Arguments : RecordRefused(t, c, args) \/ RecordStart(t, c, args)

Spec == Init /\ [][Next]_vars

\* A thread inside record() or close() keeps running: every operation it
\* waits for, but the two locks, returns by itself.  Nobody has to call
\* anything, and no fault has to happen.
FairSpec == Spec /\ \A t \in Threads : WF_vars(ThreadNext(t))

-----------------------------------------------------------------------------
(* Properties *)

\* Where call c has a complete line of its own.
LinesOf(c) == {i \in 1..Len(lines) : Parses(lines[i]) /\ EventOf(lines[i]).call = c}

\* The lines of the file form one hash chain, whatever the threads, close(),
\* crashes, power losses and restarts do, as long as no append follows a
\* failed append in the same instance.
ChainIntact == ~spoiled => ChainedUnder(Key, lines)

\* A record() that returned its event is in the file, once: through crashes
\* and restarts always, through power losses when fsync is on.
AckedOnDisk ==
    ~spoiled /\ (powerLost => Fsync) =>
        \A c \in Calls : outcome[c] = "ok" => \E i \in 1..Len(lines) : LinesOf(c) = {i}

\* With fsync, a record() that returned is on stable storage already.
AckedIsSynced ==
    ~spoiled /\ Fsync =>
        \A c \in Calls : outcome[c] = "ok" => \E i \in LinesOf(c) : i <= synced

\* No record() call is in the file twice, whatever failed: a failed append is
\* never repeated by the library itself.
NeverTwice == \A c \in Calls, i, j \in 1..Len(lines) : {i, j} \subseteq LinesOf(c) => i = j

\* Between appends the chain state in memory is the one the file ends in, and
\* nothing is left in a buffer: what next_sequence and last_current_hash
\* promise for the next record(), also right after a restart.
MemoryMatchesDisk ==
    live /\ lock = NoThread /\ ~dirty /\ ~spoiled /\ fh_open =>
        /\ next_sequence = Len(lines)
        /\ last_current_hash = ChainHead(lines)
        /\ tail = << >> /\ pending = << >> /\ buf = << >>

\* What other threads read without the lock (the two getters) is never ahead of
\* the file: the sequence number counts complete lines only, and the hash is
\* that of one of them, while an append is under way too and after close().
\* The two need not belong together: they are read, and set, one by one.
GettersBehindFile ==
    live /\ ~dirty /\ ~spoiled =>
        /\ next_sequence <= Len(lines)
        /\ \/ last_current_hash = Genesis
           \/ \E i \in 1..Len(lines) : EventOf(lines[i]).current_hash = last_current_hash

\* A record() refused because the instance is closed, or because of its
\* arguments, leaves no byte behind.
RefusedLeavesNoTrace ==
    \A c \in Calls : outcome[c] \in {"unused", "refused"} =>
        \A cells \in {tail, pending, buf} \cup {lines[i] : i \in 1..Len(lines)} :
            \A i \in 1..Len(cells) : cells[i].event.call # c

\* close() takes no lock, and yet never cuts a line in two: only a failing
\* I/O call or the end of the process leaves a line torn.
CloseTearsNothing == live /\ ~fh_open /\ faults = 0 => tail = << >>

\* A record() that entered returns or raises, unless the process dies first.
RecordReturns == \A c \in Calls : outcome[c] = "running" ~> outcome[c] # "running"

\* close() returns or raises, and a thread that has returned from it leaves
\* the handle closed.
CloseReturns == \A t \in Threads : pc[t] \in Closing ~> pc[t] = "idle" /\ ~fh_open
=============================================================================
