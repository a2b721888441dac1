-------------------------- MODULE RefinementProofs --------------------------
(***************************************************************************)
(* AuditLog implements AtomicLog, for every value of the constants: with   *)
(* the mapping of AuditLogRefinement, every step of the writer is one step *)
(* of the atomic log or changes nothing there.                             *)
(***************************************************************************)
EXTENDS AuditLogRefinement, AuditLogCallProofs

\* What the mapping rests on: the log is a chain of whole lines, no call is in
\* it twice, and the calls that returned are in it.
RefInv == ByteInv /\ KeepInv /\ Kept /\ ~spoiled

\* The part of it that stays, whatever happens.
AsFarInv == ByteInv /\ KeepInv /\ Kept

\* What is spoiled once stays so.
LEMMA SpoiledStays == [Next]_vars /\ ~spoiled' => ~spoiled
<1> SUFFICES ASSUME [Next]_vars, spoiled PROVE spoiled'
  OBVIOUS
<1>1. CASE UNCHANGED vars
  BY <1>1 DEF vars, history
<1>2. CASE Environment
  BY <1>2 DEF Environment, Construct, Exit, Crash, PowerLoss, Repair, history
<1>3. ASSUME NEW t \in Threads, ThreadNext(t) PROVE spoiled'
  BY <1>3 DEF ThreadNext, FindClosed, BuildEvent, WriteSmall, WriteBig, BigWriteDone, FlushStart,
              Drain, FlushDone, Sync, AppendFails, HandleGone, Interrupted, AdvanceSequence,
              AdvanceHash, CloseSet, CloseFlushStart, CloseFlushDone, CloseDone,
              CloseFindsClosed, Return, history
<1>4. ASSUME NEW t \in Threads, CloseStart(t) PROVE spoiled'
  BY <1>4 DEF CloseStart, history
<1>5. ASSUME NEW t \in Threads, NEW c \in Calls, NEW args \in Arguments,
             RecordRefused(t, c, args) \/ RecordStart(t, c, args)
      PROVE  spoiled'
  BY <1>5 DEF RecordRefused, RecordStart
<1> QED
  BY <1>1, <1>2, <1>3, <1>4, <1>5 DEF Next

LEMMA RefInit == Init => RefInv
BY ByteInit, KeepInit, KeptInit DEF RefInv, Init

LEMMA RefStep == RefInv /\ [Next /\ ~spoiled']_vars => RefInv'
<1> SUFFICES ASSUME RefInv, [Next /\ ~spoiled']_vars PROVE RefInv'
  OBVIOUS
<1>1. [Next]_vars /\ ~spoiled'
  BY DEF RefInv, vars, history
<1> QED
  BY <1>1, ByteStep, KeepStep, KeptStep DEF RefInv

-----------------------------------------------------------------------------
(* The log *)

CallsOf(ls) == [i \in 1..Len(ls) |-> EventOf(ls[i]).call]

LEMMA CallsOfType ==
    ASSUME NEW ls \in Seq(Seq(Cell)), \A i \in 1..Len(ls) : Parses(ls[i])
    PROVE  /\ CallsOf(ls) \in Seq(Calls) /\ Len(CallsOf(ls)) = Len(ls)
           /\ \A i \in 1..Len(ls) : CallsOf(ls)[i] = EventOf(ls[i]).call
<1>1. Len(ls) \in Nat
  BY LenProperties
<1>2. ASSUME NEW i \in 1..Len(ls) PROVE EventOf(ls[i]).call \in Calls
  <2>1. ls[i] \in Seq(Cell) /\ 1 \in 1..Len(ls[i])
    BY ElementOfSeq, LineCellsAssumption DEF Parses
  <2>2. ls[i][1] \in Cell
    BY <2>1, ElementOfSeq
  <2> QED
    BY <2>2 DEF Cell, AuditEvent, EventOf
<1>3. CallsOf(ls) \in [1..Len(ls) -> Calls]
  BY <1>2 DEF CallsOf
<1>4. CallsOf(ls) \in Seq(Calls)
  <2>1. \A n \in Nat : [1..n -> Calls] \subseteq Seq(Calls)
    BY SeqDef
  <2> QED
    BY <1>1, <1>3, <2>1
<1>5. Len(CallsOf(ls)) = Len(ls)
  BY <1>1, <1>3, <1>4, LenProperties
<1> QED
  BY <1>4, <1>5 DEF CallsOf

LEMMA LogFacts ==
    ASSUME RefInv
    PROVE  /\ lines \in Seq(Seq(Cell)) /\ Len(lines) \in Nat
           /\ \A i \in 1..Len(lines) : Parses(lines[i])
           /\ logBar = CallsOf(lines) /\ logBar \in Seq(Calls) /\ Len(logBar) = Len(lines)
           /\ \A i \in 1..Len(lines) : logBar[i] = EventOf(lines[i]).call
           /\ \A c \in Calls, i \in 1..Len(lines) : i \in LinesOf(c) <=> logBar[i] = c
<1>1. lines \in Seq(Seq(Cell)) /\ Len(lines) \in Nat
  BY LenProperties DEF RefInv, ByteInv, TypeInv, TypeOK
<1>2. \A i \in 1..Len(lines) : Parses(lines[i])
  BY DEF RefInv, KeepInv, ChainInv, Chained, ChainedUnder
<1>3. logBar = CallsOf(lines)
  BY DEF logBar, CallsOf
<1>4. /\ logBar \in Seq(Calls) /\ Len(logBar) = Len(lines)
      /\ \A i \in 1..Len(lines) : logBar[i] = EventOf(lines[i]).call
  BY <1>1, <1>2, <1>3, CallsOfType
<1>5. \A c \in Calls, i \in 1..Len(lines) : i \in LinesOf(c) <=> logBar[i] = c
  BY <1>2, <1>4 DEF LinesOf
<1> QED
  BY <1>1, <1>2, <1>3, <1>4, <1>5

\* A call that has no byte anywhere is not in the log.
LEMMA NotLogged ==
    ASSUME RefInv, NEW c \in Calls, ~HasCell(Rows, c)
    PROVE  c \notin Abstract!Logged
<1>1. ASSUME NEW i \in 1..Len(lines), logBar[i] = c PROVE FALSE
  <2>1. i \in LinesOf(c)
    BY <1>1, LogFacts
  <2>2. i \in Nat /\ IsCell(Rows, i, 1) /\ CellAt(Rows, i, 1).event.call = c
    BY <2>1, LineParts DEF RefInv, ByteInv, TypeInv
  <2> QED
    BY <2>2 DEF HasCell
<1> QED
  BY <1>1, LogFacts DEF Abstract!Logged

-----------------------------------------------------------------------------
(* The status of a call *)

StatusOf(result) ==
    IF result \in {"unused", "running", "ok", "refused"} THEN result ELSE "failed"

LEMMA StatusMap ==
    ASSUME NEW results \in [Calls -> Outcome]
    PROVE  [c \in Calls |->
               CASE results[c] \in {"unused", "running", "ok"} -> results[c]
                 [] results[c] = "refused" -> "refused"
                 [] results[c] \in {"write_error", "value_error", "interrupted", "lost"} -> "failed"]
           = [c \in Calls |-> StatusOf(results[c])]
<1>1. \A c \in Calls : results[c] \in {"unused", "running", "ok", "refused",
                                       "write_error", "value_error", "interrupted", "lost"}
  BY DEF Outcome
<1> QED
  BY <1>1 DEF StatusOf

LEMMA StatusFacts ==
    ASSUME RefInv, RefInv'
    PROVE  /\ statusBar = [c \in Calls |-> StatusOf(outcome[c])]
           /\ statusBar' = [c \in Calls |-> StatusOf(outcome'[c])]
<1>1. outcome \in [Calls -> Outcome] /\ outcome' \in [Calls -> Outcome]
  BY DEF RefInv, ByteInv, TypeInv, TypeOK
<1> QED
  BY <1>1, StatusMap DEF statusBar

-----------------------------------------------------------------------------
(* Steps *)

\* A step that ends or begins no call and completes no line is none of the
\* atomic log.
LEMMA Stutters ==
    ASSUME UNCHANGED << lines, outcome >>
    PROVE  UNCHANGED << logBar, statusBar >>
BY DEF logBar, statusBar

\* One call changes its status, and the log is left alone.
LEMMA StatusSet ==
    ASSUME RefInv, RefInv', UNCHANGED lines, NEW c \in Calls, NEW result \in Outcome,
           outcome' = [outcome EXCEPT ![c] = result]
    PROVE  /\ UNCHANGED logBar
           /\ statusBar' = [statusBar EXCEPT ![c] = StatusOf(result)]
<1>1. outcome \in [Calls -> Outcome]
  BY DEF RefInv, ByteInv, TypeInv, TypeOK
<1>2. /\ statusBar = [d \in Calls |-> StatusOf(outcome[d])]
      /\ statusBar' = [d \in Calls |-> StatusOf(outcome'[d])]
  BY StatusFacts
<1> QED
  BY <1>1, <1>2 DEF logBar

\* A line is completed: that of a call under way, that failed, or that was
\* lost with the power.
LEMMA LineJoins ==
    ASSUME RefInv, RefInv', lines' = Append(lines, tail), UNCHANGED << outcome, powerLost >>
    PROVE  \E c \in Calls : Abstract!Append1(c)
<1>1. lines \in Seq(Seq(Cell)) /\ tail \in Seq(Cell) /\ Len(lines) \in Nat
  BY LenProperties DEF RefInv, ByteInv, TypeInv, TypeOK
<1>n. PICK last \in Nat : last = Len(lines) + 1
  BY <1>1
<1>2. lines' \in Seq(Seq(Cell)) /\ Len(lines') = last /\ last \in 1..last
      /\ \A i \in 1..Len(lines) : lines'[i] = lines[i]
  BY <1>n, <1>1, AppendProperties
<1>3. \A i \in 1..Len(lines') : Parses(lines'[i])
  BY DEF RefInv, KeepInv, ChainInv, Chained, ChainedUnder
<1>4. logBar' = CallsOf(lines') /\ logBar = CallsOf(lines)
  BY DEF logBar, CallsOf
<1>5. /\ logBar' \in Seq(Calls) /\ Len(logBar') = last
      /\ \A i \in 1..last : logBar'[i] = EventOf(lines'[i]).call
  BY <1>2, <1>3, <1>4, CallsOfType
<1>6. /\ logBar \in Seq(Calls) /\ Len(logBar) = Len(lines)
      /\ \A i \in 1..Len(lines) : logBar[i] = EventOf(lines[i]).call
  BY LogFacts
<1>c. PICK c \in Calls : c = EventOf(lines'[last]).call
  <2>1. logBar'[last] \in Calls
    BY <1>2, <1>5, ElementOfSeq
  <2> QED
    BY <1>2, <1>5, <2>1
<1>7. last \in LinesOf(c)'
  BY <1>2, <1>3, <1>c DEF LinesOf
<1>8. \A i \in LinesOf(c) : FALSE
  <2>1. ASSUME NEW i \in LinesOf(c) PROVE FALSE
    <3>1. i \in 1..Len(lines) /\ i \in 1..last /\ i # last /\ last \in 1..last
      BY <1>n, <1>1, <1>2 DEF LinesOf
    <3>2. i \in LinesOf(c)'
      BY <1>2, <3>1 DEF LinesOf
    <3>3. NeverTwice'
      BY OncePerFile, PTL DEF RefInv
    <3> QED
      BY <1>2, <1>7, <3>1, <3>2, <3>3 DEF NeverTwice
  <2> QED
    BY <2>1
<1>9. c \notin Abstract!Logged
  BY <1>6, <1>8, LogFacts DEF Abstract!Logged
<1>10. logBar' = Append(logBar, c)
  <2>1. /\ Append(logBar, c) \in Seq(Calls) /\ Len(Append(logBar, c)) = last
        /\ \A i \in 1..Len(lines) : Append(logBar, c)[i] = logBar[i]
        /\ Append(logBar, c)[last] = c
    BY <1>n, <1>6, AppendProperties
  <2>2. ASSUME NEW i \in 1..last PROVE logBar'[i] = Append(logBar, c)[i]
    <3>1. i \in 1..Len(lines) \/ i = last
      BY <1>n, <1>1
    <3> QED
      BY <1>2, <1>5, <1>6, <1>c, <2>1, <3>1
  <2> QED
    BY <1>5, <2>1, <2>2, SeqEqual
<1>11. outcome[c] \notin {"unused", "refused"}
  <2>1. ASSUME outcome'[c] \in {"unused", "refused"} PROVE FALSE
    <3>1. RefusedLeavesNoTrace'
      BY RefusedIsNowhere, PTL DEF RefInv
    <3>2. last \in 1..Len(lines') /\ 1 \in 1..Len(lines'[last]) /\ lines'[last][1].event.call = c
      BY <1>2, <1>3, <1>c, LineCellsAssumption DEF Parses, EventOf
    <3> QED
      BY <2>1, <3>1, <3>2 DEF RefusedLeavesNoTrace
  <2> QED
    BY <2>1
<1>12. outcome[c] = "ok" => ~Fsync
  BY <1>8 DEF RefInv, Kept, OnFile
<1>13. UNCHANGED statusBar /\ statusBar[c] = StatusOf(outcome[c])
  BY StatusFacts DEF statusBar
<1>14. statusBar[c] \in {"running", "failed"} \/ (~Fsync /\ statusBar[c] = "ok")
  BY <1>11, <1>12, <1>13 DEF StatusOf
<1> QED
  BY <1>9, <1>10, <1>13, <1>14 DEF Abstract!Append1

\* A thread leaves record(), other than with its event.
LEMMA CallFails ==
    ASSUME RefInv, RefInv', UNCHANGED lines, NEW t \in Threads, pc[t] \in InRecord,
           NEW result \in {"write_error", "value_error", "interrupted"}, Return(t, result)
    PROVE  \E c \in Calls : Abstract!Fail(c)
<1>1. call[t] \in Calls /\ outcome[call[t]] = "running"
  BY DEF RefInv, ByteInv, TypeInv, LocalsTyped, CallsInv, InRecord
<1>2. UNCHANGED logBar /\ statusBar' = [statusBar EXCEPT ![call[t]] = StatusOf(result)]
  BY <1>1, StatusSet DEF Return, Outcome
<1>3. StatusOf(result) = "failed" /\ statusBar[call[t]] = "running"
  BY <1>1, StatusFacts DEF StatusOf
<1> QED
  BY <1>1, <1>2, <1>3 DEF Abstract!Fail

\* record() is refused, before the lock or behind it.
LEMMA CallRefused ==
    ASSUME RefInv, RefInv', UNCHANGED lines, NEW c \in Calls, ~HasCell(Rows, c),
           outcome[c] \in {"unused", "running"}, outcome' = [outcome EXCEPT ![c] = "refused"]
    PROVE  Abstract!Refuse(c)
<1>1. UNCHANGED logBar /\ statusBar' = [statusBar EXCEPT ![c] = StatusOf("refused")]
  BY StatusSet DEF Outcome
<1>2. StatusOf("refused") = "refused" /\ statusBar[c] \in {"unused", "running"}
  BY StatusFacts DEF StatusOf
<1>3. c \notin Abstract!Logged
  BY NotLogged
<1> QED
  BY <1>1, <1>2, <1>3 DEF Abstract!Refuse

\* The process dies, and its running calls with it.
LEMMA CallsAbandoned ==
    ASSUME RefInv, RefInv', outcome' = Abandoned
    PROVE  Abstract!FailRunning
<1>1. \A c \in Calls : outcome'[c] = IF outcome[c] = "running" THEN "lost" ELSE outcome[c]
  BY DEF Abandoned
<1>2. /\ statusBar = [c \in Calls |-> StatusOf(outcome[c])]
      /\ statusBar' = [c \in Calls |-> StatusOf(outcome'[c])]
  BY StatusFacts
<1>3. \A c \in Calls : StatusOf(outcome'[c]) =
        IF StatusOf(outcome[c]) = "running" THEN "failed" ELSE StatusOf(outcome[c])
  BY <1>1 DEF StatusOf
<1> QED
  BY <1>2, <1>3 DEF Abstract!FailRunning

\* Power is lost: what is left of the log is a prefix of it, with fsync one
\* that holds every call that returned.
LEMMA LogCut ==
    ASSUME RefInv, RefInv', PowerLoss
    PROVE  Abstract!PowerLoss
<1>1. lines \in Seq(Seq(Cell)) /\ Len(lines) \in Nat /\ synced \in Nat
  BY LenProperties DEF RefInv, ByteInv, TypeInv, TypeOK
<1>2. PICK n \in synced..Len(lines) : lines' = SubSeq(lines, 1, n)
  BY DEF PowerLoss
<1>3. n \in Nat /\ n <= Len(lines) /\ n \in 0..Len(lines)
  BY <1>1
<1>4. /\ lines' \in Seq(Seq(Cell)) /\ Len(lines') = n /\ \A i \in 1..n : lines'[i] = lines[i]
  <2>1. \A i \in 1..n : lines[i] \in Seq(Cell)
    BY <1>1, <1>3, ElementOfSeq
  <2> QED
    BY <1>2, <1>3, <2>1, SubSeqProperties
<1>5. /\ logBar \in Seq(Calls) /\ Len(logBar) = Len(lines)
      /\ \A i \in 1..Len(lines) : logBar[i] = EventOf(lines[i]).call
  BY LogFacts
<1>6. \A i \in 1..Len(lines') : Parses(lines'[i])
  BY DEF RefInv, KeepInv, ChainInv, Chained, ChainedUnder
<1>7. /\ logBar' \in Seq(Calls) /\ Len(logBar') = n
      /\ \A i \in 1..n : logBar'[i] = EventOf(lines'[i]).call
  <2>1. logBar' = CallsOf(lines')
    BY DEF logBar, CallsOf
  <2> QED
    BY <1>4, <1>6, <2>1, CallsOfType
<1>8. logBar' = SubSeq(logBar, 1, n)
  <2>1. \A i \in 1..n : logBar[i] \in Calls
    BY <1>3, <1>5, ElementOfSeq
  <2>2. /\ SubSeq(logBar, 1, n) \in Seq(Calls) /\ Len(SubSeq(logBar, 1, n)) = n
        /\ \A i \in 1..n : SubSeq(logBar, 1, n)[i] = logBar[i]
    BY <1>3, <2>1, SubSeqProperties
  <2>3. \A i \in 1..n : logBar'[i] = SubSeq(logBar, 1, n)[i]
    <3> TAKE i \in 1..n
    <3>1. i \in 1..Len(lines)
      BY <1>1, <1>3
    <3>2. logBar'[i] = EventOf(lines[i]).call /\ logBar[i] = EventOf(lines[i]).call
      BY <1>4, <1>5, <1>7, <3>1
    <3> QED
      BY <2>2, <3>2
  <2> QED
    BY <1>7, <2>2, <2>3, SeqEqual
<1>9. Abstract!FailRunning /\ powerLost'
  BY CallsAbandoned DEF PowerLoss
<1>10. ASSUME Fsync, NEW i \in n+1..Len(logBar), statusBar[logBar[i]] = "ok" PROVE FALSE
  <2>1. i \in 1..Len(lines) /\ ~(i <= n)
    BY <1>1, <1>3, <1>5
  <2>2. PICK c \in Calls : c = logBar[i]
    BY <1>5, <2>1, ElementOfSeq
  <2>3. i \in LinesOf(c)
    BY <2>1, <2>2, LogFacts
  <2>4. outcome[c] = "ok"
    <3>1. StatusOf(outcome[c]) = "ok"
      BY <1>10, <2>2, StatusFacts
    <3> QED
      BY <3>1 DEF StatusOf
  <2>5. outcome'[c] = "ok"
    BY <2>4 DEF PowerLoss, Abandoned
  <2>6. OnFile(c)'
    BY <1>10, <2>5 DEF RefInv, Kept
  <2>7. PICK j \in 1..Len(lines') : Parses(lines'[j]) /\ EventOf(lines'[j]).call = c
    BY <2>6 DEF OnFile, LinesOf
  <2>8. j \in 1..n /\ j \in 1..Len(lines)
    BY <1>1, <1>3, <1>4, <2>7
  <2>9. j \in LinesOf(c)
    BY <1>4, <2>7, <2>8 DEF LinesOf
  <2>10. i = j
    BY <2>1, <2>3, <2>8, <2>9, OncePerFile DEF NeverTwice, RefInv
  <2> QED
    BY <1>3, <2>1, <2>8, <2>10
<1>11. Fsync => \A i \in n+1..Len(logBar) : statusBar[logBar[i]] # "ok"
  BY <1>10
<1> QED
  BY <1>3, <1>5, <1>8, <1>9, <1>11 DEF Abstract!PowerLoss

-----------------------------------------------------------------------------
(* The refinement *)

LEMMA MapInit == Init => Abstract!Init
<1> SUFFICES ASSUME Init PROVE Abstract!Init
  OBVIOUS
<1>1. logBar = << >>
  BY EmptySeq DEF Init, logBar
<1>2. statusBar = [c \in Calls |-> "unused"]
  BY DEF Init, statusBar
<1> QED
  BY <1>1, <1>2 DEF Abstract!Init

\* One step of one thread.
LEMMA MapThread ==
    ASSUME RefInv, RefInv', NEW t \in Threads, ThreadNext(t)
    PROVE  Abstract!Next \/ UNCHANGED << logBar, statusBar >>
<1>t. /\ pc[t] \in InRecord => call[t] \in Calls /\ outcome[call[t]] = "running"
      /\ pc[t] \in {"lock", "write"} => ~HasCell(Rows, call[t])
  BY DEF RefInv, ByteInv, TypeInv, LocalsTyped, CallsInv, RowsInv, InRecord
<1>1. CASE FindClosed(t)
  <2>1. Abstract!Refuse(call[t])
    BY <1>t, <1>1, CallRefused DEF FindClosed, Return, InRecord, file
  <2> QED
    BY <1>t, <1>1, <2>1 DEF FindClosed, InRecord, Abstract!Next
<1>2. CASE AppendFails(t)
  <2>1. \E c \in Calls : Abstract!Fail(c)
    BY <1>2, CallFails DEF AppendFails, InRecord, RecordHolding, file
  <2> QED
    BY <2>1 DEF Abstract!Next
<1>3. CASE HandleGone(t)
  <2>1. PICK result \in {"value_error", "write_error"} : Return(t, result)
    BY <1>3 DEF HandleGone, GoneResults
  <2>2. \E c \in Calls : Abstract!Fail(c)
    BY <1>3, <2>1, CallFails DEF HandleGone, InRecord, RecordHolding, file
  <2> QED
    BY <2>2 DEF Abstract!Next
<1>4. CASE Interrupted(t)
  <2>1. \E c \in Calls : Abstract!Fail(c)
    BY <1>4, CallFails DEF Interrupted, InRecord, file
  <2> QED
    BY <2>1 DEF Abstract!Next
<1>5. CASE AdvanceHash(t)
  <2>1. pc[t] \in Advancing /\ pc[t] \in InRecord /\ UNCHANGED lines
        /\ outcome' = [outcome EXCEPT ![call[t]] = "ok"]
    BY <1>5 DEF AdvanceHash, Return, Advancing, InRecord, RecordHolding, file
  <2>2. call[t] \in Calls /\ Len(lines) \in LinesOf(call[t])
    BY <2>1, LastIsOwn DEF RefInv
  <2>3. call[t] \in Abstract!Logged
    <3>1. Len(lines) \in 1..Len(lines)
      BY <2>2 DEF LinesOf
    <3> QED
      BY <2>2, <3>1, LogFacts DEF Abstract!Logged
  <2>4. UNCHANGED logBar /\ statusBar' = [statusBar EXCEPT ![call[t]] = StatusOf("ok")]
    BY <2>1, <2>2, StatusSet DEF Outcome
  <2>5. StatusOf("ok") = "ok" /\ statusBar[call[t]] = "running"
    BY <1>t, <2>1, StatusFacts DEF StatusOf
  <2> QED
    BY <2>2, <2>3, <2>4, <2>5 DEF Abstract!Succeed, Abstract!Next
<1>6. CASE Drain(t)
  <2>1. UNCHANGED << outcome, powerLost >> /\ (UNCHANGED lines \/ lines' = Append(lines, tail))
    BY <1>6 DEF Drain, history
  <2> QED
    BY <2>1, Stutters, LineJoins DEF Abstract!Next
<1>7. CASE BuildEvent(t) \/ BigWriteDone(t) \/ FlushStart(t) \/ FlushDone(t) \/ AdvanceSequence(t)
  BY <1>7, Stutters DEF BuildEvent, BigWriteDone, FlushStart, FlushDone, AdvanceSequence, file, history
<1>8. CASE WriteSmall(t) \/ WriteBig(t) \/ CloseFlushDone(t) \/ CloseDone(t)
  BY <1>8, Stutters DEF WriteSmall, WriteBig, CloseFlushDone, CloseDone, file
<1>9. CASE CloseSet(t) \/ CloseFlushStart(t) \/ CloseFindsClosed(t)
  BY <1>9, Stutters DEF CloseSet, CloseFlushStart, CloseFindsClosed, file, history
<1>10. CASE Sync(t)
  BY <1>10, Stutters DEF Sync, history
<1> QED
  BY <1>1, <1>2, <1>3, <1>4, <1>5, <1>6, <1>7, <1>8, <1>9, <1>10 DEF ThreadNext

\* One step of the process, the machine or the operator.
LEMMA MapEnvironment ==
    ASSUME RefInv, RefInv', Environment
    PROVE  Abstract!Next \/ UNCHANGED << logBar, statusBar >>
<1>1. CASE Construct \/ Exit
  BY <1>1, Stutters DEF Construct, Exit, file, history
<1>2. CASE Crash
  <2>1. UNCHANGED logBar
    BY <1>2 DEF Crash, file, logBar
  <2> QED
    BY <1>2, <2>1, CallsAbandoned DEF Crash, Abstract!Crash, Abstract!Next
<1>3. CASE PowerLoss
  BY <1>3, LogCut DEF Abstract!Next
<1>4. CASE Repair
  <2>1. UNCHANGED << outcome, powerLost >>
    BY <1>4 DEF Repair, history
  <2>2. ASSUME tail = << >> PROVE FALSE
    <3>1. lines # << >> /\ ~Parses(lines[Len(lines)])
      BY <1>4, <2>2 DEF Repair, Resumable
    <3>2. Len(lines) \in 1..Len(lines)
      BY <3>1, EmptySeq, LogFacts
    <3> QED
      BY <3>1, <3>2, LogFacts
  <2>3. UNCHANGED lines \/ lines' = Append(lines, tail)
    BY <1>4, <2>2 DEF Repair
  <2> QED
    BY <2>1, <2>3, Stutters, LineJoins DEF Abstract!Next
<1> QED
  BY <1>1, <1>2, <1>3, <1>4 DEF Environment

LEMMA MapStep ==
    RefInv /\ RefInv' /\ [Next /\ ~spoiled']_vars => [Abstract!Next]_(Abstract!vars)
<1> SUFFICES ASSUME RefInv, RefInv', [Next /\ ~spoiled']_vars
             PROVE  Abstract!Next \/ UNCHANGED << logBar, statusBar >>
  BY DEF Abstract!vars
<1>1. CASE UNCHANGED vars
  BY <1>1, Stutters DEF vars, file, history
<1>2. CASE Environment
  BY <1>2, MapEnvironment
<1>3. ASSUME NEW t \in Threads, ThreadNext(t)
      PROVE  Abstract!Next \/ UNCHANGED << logBar, statusBar >>
  BY <1>3, MapThread
<1>4. ASSUME NEW t \in Threads, CloseStart(t)
      PROVE  Abstract!Next \/ UNCHANGED << logBar, statusBar >>
  BY <1>4, Stutters DEF CloseStart, file, history
<1>5. ASSUME NEW t \in Threads, NEW c \in Calls, NEW args \in Arguments, RecordRefused(t, c, args)
      PROVE  Abstract!Next
  <2>1. ~HasCell(Rows, c)
    BY <1>5 DEF RecordRefused, RefInv, ByteInv, RowsInv
  <2>2. Abstract!Refuse(c)
    BY <1>5, <2>1, CallRefused DEF RecordRefused, file
  <2> QED
    BY <2>2 DEF Abstract!Next
<1>6. ASSUME NEW t \in Threads, NEW c \in Calls, NEW args \in Arguments, RecordStart(t, c, args)
      PROVE  Abstract!Next
  <2>1. UNCHANGED logBar /\ statusBar' = [statusBar EXCEPT ![c] = StatusOf("running")]
    BY <1>6, StatusSet DEF RecordStart, file, Outcome
  <2>2. StatusOf("running") = "running" /\ statusBar[c] = "unused"
    BY <1>6, StatusFacts DEF RecordStart, StatusOf
  <2>3. Abstract!Begin(c)
    BY <2>1, <2>2 DEF Abstract!Begin
  <2> QED
    BY <2>3 DEF Abstract!Next
<1> QED
  BY <1>1, <1>2, <1>3, <1>4, <1>5, <1>6 DEF Next

\* The writer implements the atomic log until an instance appends behind a
\* failed append: record() takes effect in one step between its start and its
\* return, although it is cut by threads, close(), crashes and power losses.
THEOREM AppendsAreAtomic == Spec => AtomicAppends
<1>1. AsFarInv /\ [Next]_vars => (~spoiled' => Abstract!Next \/ UNCHANGED << logBar, statusBar >>)
  <2> SUFFICES ASSUME AsFarInv, [Next]_vars, ~spoiled'
               PROVE  Abstract!Next \/ UNCHANGED << logBar, statusBar >>
    OBVIOUS
  <2>1. [Next /\ ~spoiled']_vars
    OBVIOUS
  <2>2. RefInv /\ RefInv'
    BY <2>1, SpoiledStays, RefStep DEF AsFarInv, RefInv
  <2> QED
    BY <2>1, <2>2, MapStep DEF Abstract!vars
<1>2. AsFarInv /\ [Next]_vars => AsFarInv'
  BY ByteStep, KeepStep, KeptStep DEF AsFarInv
<1>3. Init => AsFarInv
  BY RefInit DEF RefInv, AsFarInv
<1> QED
  BY <1>1, <1>2, <1>3, MapInit, PTL DEF Spec, AtomicAppends

\* A caller that makes no call on an instance whose append failed has the
\* atomic log itself.
COROLLARY StoppingIsAtomic == StopsOnError => Abstract!Spec
BY RefInit, RefStep, MapInit, MapStep, PTL DEF StopsOnError, Abstract!Spec
=============================================================================
