--------------------------- MODULE AuditLogProofs ---------------------------
(***************************************************************************)
(* Theorems about AuditLog, for every set of threads, keys and calls,      *)
(* every cut of a line into pieces and every number of faults.             *)
(***************************************************************************)
EXTENDS AuditLog, SequenceTheorems, TLAPS

-----------------------------------------------------------------------------
(* Typing *)

\* Inside record(), a thread has its call; from the lock on, also its event.
LocalsTyped ==
    \A t \in Threads :
        /\ pc[t] \in {"lock"} \cup RecordHolding => call[t] \in Calls
        /\ pc[t] \in RecordHolding => entry[t] \in AuditEvent

TypeInv == TypeOK /\ LocalsTyped

LEMMA EmptyTyped == /\ << >> \in Seq(Seq(Cell)) /\ << >> \in Seq(Cell)
                    /\ Genesis \in Hash
BY EmptySeq DEF Genesis, Hash

\* The event record() builds is an event.
LEMMA MakeEventType ==
    ASSUME NEW k \in Keys, NEW seq \in Nat, NEW c \in Calls, NEW prev \in Hash
    PROVE  MakeEvent(k, seq, c, prev) \in AuditEvent
<1>1. [key |-> k, sequence_number |-> seq, call |-> c] \in Link
  BY DEF Link
<1>2. Append(prev, [key |-> k, sequence_number |-> seq, call |-> c]) \in Hash
  BY <1>1 DEF Hash
<1> QED
  BY <1>2 DEF MakeEvent, AuditEvent, compute_current_hash

\* A line is a sequence of LineCells cells.
LEMMA LineOfType ==
    ASSUME NEW e \in AuditEvent
    PROVE  /\ LineOf(e) \in Seq(Cell)
           /\ Len(LineOf(e)) = LineCells
           /\ \A i \in 1..LineCells : LineOf(e)[i] = [event |-> e, part |-> i]
<1>1. LineOf(e) \in [1..LineCells -> Cell]
  BY DEF LineOf, Cell
<1>2. LineOf(e) \in Seq(Cell)
  BY <1>1, SeqDef, LineCellsAssumption
<1>3. Len(LineOf(e)) = LineCells
  BY <1>1, <1>2, LenProperties, LineCellsAssumption
<1> QED
  BY <1>2, <1>3 DEF LineOf

\* A newline turns the tail into one more line.
LEMMA AppendTailType ==
    ASSUME TypeOK
    PROVE  Append(lines, tail) \in Seq(Seq(Cell))
<1>1. lines \in Seq(Seq(Cell)) /\ tail \in Seq(Cell)
  BY DEF TypeOK
<1> QED
  BY <1>1, AppendProperties

\* The last event of a file whose last line parses.
LEMMA LastEventType ==
    ASSUME TypeOK, lines # << >>, Parses(lines[Len(lines)])
    PROVE  EventOf(lines[Len(lines)]) \in AuditEvent
<1>1. Len(lines) \in 1..Len(lines) /\ lines[Len(lines)] \in Seq(Cell)
  BY EmptySeq, ElementOfSeq DEF TypeOK
<1>2. 1 \in 1..Len(lines[Len(lines)])
  BY LineCellsAssumption DEF Parses
<1>3. lines[Len(lines)][1] \in Cell
  BY <1>1, <1>2, ElementOfSeq
<1> QED
  BY <1>3 DEF Cell, EventOf

\* Leaving record() keeps the locals and the outcomes typed.
LEMMA ReturnType ==
    ASSUME TypeInv, NEW t \in Threads, NEW result \in Outcome, Return(t, result)
    PROVE  /\ pc' \in [Threads -> PC]
           /\ call' \in [Threads -> Calls \cup {NoCall}]
           /\ entry' \in [Threads -> AuditEvent \cup {NoEvent}]
           /\ lock' \in Threads \cup {NoThread}
           /\ outcome' \in [Calls -> Outcome]
           /\ LocalsTyped'
<1> USE DEF TypeInv, TypeOK, Return
<1>1. pc' \in [Threads -> PC]
  BY DEF PC
<1>2. outcome' \in [Calls -> Outcome]
  OBVIOUS
<1>3. LocalsTyped'
  BY DEF LocalsTyped, RecordHolding
<1> QED
  BY <1>1, <1>2, <1>3

\* Without an instance, everything it had is typed.
LEMMA NoInstanceType ==
    ASSUME NoInstance
    PROVE  /\ pending' \in Seq(Cell) /\ buf' \in Seq(Cell)
           /\ io' \in Threads \cup {NoThread} /\ fh_open' \in BOOLEAN
           /\ live' \in BOOLEAN /\ closed' \in BOOLEAN
           /\ next_sequence' \in Nat /\ last_current_hash' \in Hash
           /\ lock' \in Threads \cup {NoThread} /\ dirty' \in BOOLEAN
           /\ pc' \in [Threads -> PC]
           /\ call' \in [Threads -> Calls \cup {NoCall}]
           /\ entry' \in [Threads -> AuditEvent \cup {NoEvent}]
           /\ LocalsTyped'
<1>1. LocalsTyped'
  BY DEF NoInstance, LocalsTyped, RecordHolding
<1> QED
  BY <1>1, EmptyTyped DEF NoInstance, PC

LEMMA AbandonedType ==
    ASSUME TypeOK
    PROVE  Abandoned \in [Calls -> Outcome]
BY DEF TypeOK, Abandoned, Outcome

\* What a failed large write() leaves in the buffer.
LEMMA WithoutLineType ==
    ASSUME TypeOK
    PROVE  WithoutLine \in Seq(Cell)
<1>1. \A n \in 0..Len(buf) : SubSeq(buf, 1, n) \in Seq(Cell)
  BY SubSeqProperties, ElementOfSeq DEF TypeOK
<1>2. (IF Len(buf) > LineCells THEN Len(buf) - LineCells ELSE 0) \in 0..Len(buf)
  BY LineCellsAssumption, LenProperties DEF TypeOK
<1> QED
  BY <1>1, <1>2 DEF WithoutLine

LEMMA TypeInit == Init => TypeInv
<1> SUFFICES ASSUME Init PROVE TypeInv
  OBVIOUS
<1>1. /\ lines \in Seq(Seq(Cell)) /\ tail \in Seq(Cell)
      /\ pending \in Seq(Cell) /\ buf \in Seq(Cell)
      /\ last_current_hash \in Hash
  BY EmptyTyped DEF Init
<1>2. outcome \in [Calls -> Outcome]
  BY DEF Init, Outcome
<1>3. LocalsTyped
  BY DEF Init, LocalsTyped, RecordHolding
<1> QED
  BY <1>1, <1>2, <1>3 DEF Init, TypeInv, TypeOK, PC

LEMMA TypeStep == TypeInv /\ [Next]_vars => TypeInv'
<1> SUFFICES ASSUME TypeInv, [Next]_vars PROVE TypeInv'
  OBVIOUS
<1> USE DEF TypeInv
<1>1. CASE UNCHANGED vars
  BY <1>1 DEF TypeOK, LocalsTyped, vars, file, handle, instance, locals, history
<1>2. CASE Construct
  <2>1. next_sequence' \in Nat /\ last_current_hash' \in Hash
    BY <1>2, LastEventType, EmptyTyped DEF Construct, _load_resume_state, ResumeState, ResumeAfter, Resumable, AuditEvent
  <2> QED
    BY <1>2, <2>1 DEF Construct, TypeOK, LocalsTyped, file, locals, history
<1>3. CASE Exit
  BY <1>3, NoInstanceType DEF Exit, TypeOK, file
<1>4. CASE Crash
  BY <1>4, NoInstanceType, AbandonedType DEF Crash, TypeOK, file
<1>5. CASE PowerLoss
  <2>1. lines' \in Seq(Seq(Cell)) /\ tail' \in Seq(Cell) /\ synced' \in Nat
    <3>1. PICK n \in synced..Len(lines) :
            LET cut == IF n < Len(lines) THEN lines[n + 1] ELSE tail
            IN  /\ lines' = SubSeq(lines, 1, n)
                /\ synced' = n
                /\ \E m \in 0..Len(cut) : tail' = SubSeq(cut, 1, m)
      BY <1>5 DEF PowerLoss
    <3> DEFINE cut == IF n < Len(lines) THEN lines[n + 1] ELSE tail
    <3>2. n \in Nat /\ n \in 0..Len(lines)
      BY DEF TypeOK
    <3>3. lines' \in Seq(Seq(Cell))
      BY <3>1, <3>2, SubSeqProperties, ElementOfSeq DEF TypeOK
    <3>4. cut \in Seq(Cell)
      BY <3>2, ElementOfSeq DEF TypeOK
    <3>5. tail' \in Seq(Cell)
      <4>1. PICK m \in 0..Len(cut) : tail' = SubSeq(cut, 1, m)
        BY <3>1
      <4>2. \A i \in 1..m : cut[i] \in Cell
        BY <3>4, ElementOfSeq
      <4> QED
        BY <4>1, <4>2, SubSeqProperties
    <3> QED
      BY <3>1, <3>2, <3>3, <3>5
  <2>2. NoInstance /\ outcome' = Abandoned /\ powerLost' = TRUE /\ crashes' = crashes + 1
        /\ UNCHANGED << spoiled, faults >>
    BY <1>5 DEF PowerLoss
  <2>3. outcome' \in [Calls -> Outcome]
    BY <2>2, AbandonedType
  <2> QED
    BY <2>1, <2>2, <2>3, NoInstanceType DEF TypeOK
<1>6. CASE Repair
  <2>1. lines' \in Seq(Seq(Cell)) /\ synced' \in Nat
    <3>1. CASE tail = << >>
      <4>1. lines # << >> /\ Len(lines) \in Nat \ {0}
        BY <1>6, <3>1, EmptySeq DEF Repair, Resumable, TypeOK
      <4>2. SubSeq(lines, 1, Len(lines) - 1) \in Seq(Seq(Cell))
        BY <4>1, SubSeqProperties, ElementOfSeq DEF TypeOK
      <4>3. ~Parses(tail)
        BY <3>1, LineCellsAssumption, EmptySeq DEF Parses
      <4>4. /\ lines' = SubSeq(lines, 1, Len(lines) - 1)
            /\ synced' = IF synced < Len(lines) THEN synced ELSE Len(lines) - 1
        BY <1>6, <3>1, <4>3 DEF Repair
      <4> QED
        BY <4>1, <4>2, <4>4 DEF TypeOK
    <3>2. CASE tail # << >>
      BY <1>6, <3>2, AppendTailType DEF Repair, TypeOK
    <3> QED
      BY <3>1, <3>2
  <2> QED
    BY <1>6, <2>1, EmptyTyped DEF Repair, TypeOK, LocalsTyped, handle, instance, locals, history
<1>7. ASSUME NEW t \in Threads, ThreadNext(t) PROVE TypeInv'
  <2>1. CASE FindClosed(t)
    BY <2>1, ReturnType DEF FindClosed, TypeOK, Outcome, file, handle
  <2>2. CASE BuildEvent(t)
    <3>1. MakeEvent(Key, next_sequence, call[t], last_current_hash) \in AuditEvent
      BY <2>2, MakeEventType, AuditLogAssumption DEF BuildEvent, TypeOK, LocalsTyped
    <3>2. LocalsTyped'
      BY <2>2, <3>1 DEF BuildEvent, LocalsTyped, TypeOK, RecordHolding
    <3> QED
      BY <2>2, <3>1, <3>2 DEF BuildEvent, TypeOK, PC, RecordHolding, file, handle, history
  <2>3. CASE WriteSmall(t)
    <3>1. pending' \in Seq(Cell)
      BY <2>3, LineOfType, ConcatProperties DEF WriteSmall, TypeOK, LocalsTyped, RecordHolding
    <3>2. LocalsTyped'
      BY <2>3 DEF WriteSmall, LocalsTyped, TypeOK, RecordHolding
    <3> QED
      BY <2>3, <3>1, <3>2 DEF WriteSmall, TypeOK, PC, RecordHolding, file, instance
  <2>4. CASE WriteBig(t)
    <3>1. buf' \in Seq(Cell)
      BY <2>4, LineOfType, ConcatProperties DEF WriteBig, TypeOK, LocalsTyped, RecordHolding
    <3>2. LocalsTyped'
      BY <2>4 DEF WriteBig, LocalsTyped, TypeOK, RecordHolding
    <3> QED
      BY <2>4, <3>1, <3>2 DEF WriteBig, TypeOK, PC, RecordHolding, file, instance
  <2>5. CASE BigWriteDone(t)
    <3>1. LocalsTyped'
      BY <2>5 DEF BigWriteDone, LocalsTyped, TypeOK, RecordHolding
    <3> QED
      BY <2>5, <3>1 DEF BigWriteDone, TypeOK, PC, RecordHolding, file, instance, history
  <2>6. CASE FlushStart(t)
    <3>1. buf' \in Seq(Cell)
      BY <2>6, ConcatProperties DEF FlushStart, TypeOK
    <3>2. LocalsTyped'
      BY <2>6 DEF FlushStart, LocalsTyped, TypeOK, RecordHolding
    <3> QED
      BY <2>6, <3>1, <3>2 DEF FlushStart, TypeOK, PC, RecordHolding, file, instance, history
  <2>7. CASE Drain(t)
    <3>1. Head(buf) \in Cell /\ buf' \in Seq(Cell)
      BY <2>7, HeadTailProperties DEF Drain, TypeOK
    <3>2. Append(tail, Head(buf)) \in Seq(Cell)
      BY <3>1, AppendProperties DEF TypeOK
    <3>3. lines' \in Seq(Seq(Cell)) /\ tail' \in Seq(Cell)
      BY <2>7, <3>2, AppendTailType, EmptyTyped DEF Drain, TypeOK
    <3> QED
      BY <2>7, <3>1, <3>3 DEF Drain, TypeOK, LocalsTyped, instance, locals, history
  <2>8. CASE FlushDone(t)
    <3>1. LocalsTyped'
      BY <2>8 DEF FlushDone, AfterFlush, LocalsTyped, TypeOK, RecordHolding
    <3> QED
      BY <2>8, <3>1 DEF FlushDone, AfterFlush, TypeOK, PC, RecordHolding, file, instance, history
  <2>9. CASE Sync(t)
    <3>1. LocalsTyped'
      BY <2>9 DEF Sync, LocalsTyped, TypeOK, RecordHolding
    <3> QED
      BY <2>9, <3>1 DEF Sync, TypeOK, PC, RecordHolding, handle, instance, history
  <2>10. CASE AppendFails(t)
    <3>1. buf' \in Seq(Cell)
      BY <2>10, WithoutLineType DEF AppendFails, TypeOK
    <3> QED
      BY <2>10, <3>1, ReturnType DEF AppendFails, TypeOK, Outcome, file
  <2>11. CASE HandleGone(t)
    <3>1. PICK result \in {"value_error", "write_error"} : Return(t, result)
      BY <2>11 DEF HandleGone, GoneResults
    <3> QED
      BY <2>11, <3>1, ReturnType DEF HandleGone, GoneResults, TypeOK, Outcome, file, handle
  <2>12. CASE AdvanceSequence(t)
    <3>1. next_sequence' \in Nat
      BY <2>12 DEF AdvanceSequence, LocalsTyped, RecordHolding, AuditEvent
    <3>2. LocalsTyped'
      BY <2>12 DEF AdvanceSequence, LocalsTyped, TypeOK, RecordHolding
    <3> QED
      BY <2>12, <3>1, <3>2 DEF AdvanceSequence, TypeOK, PC, RecordHolding, file, handle, history
  <2>13. CASE CloseSet(t)
    <3>1. LocalsTyped'
      BY <2>13 DEF CloseSet, LocalsTyped, TypeOK, RecordHolding
    <3> QED
      BY <2>13, <3>1 DEF CloseSet, TypeOK, PC, Closing, file, handle, history
  <2>14. CASE CloseFlushStart(t)
    <3>1. buf' \in Seq(Cell)
      BY <2>14, ConcatProperties DEF CloseFlushStart, TypeOK
    <3>2. LocalsTyped'
      BY <2>14 DEF CloseFlushStart, LocalsTyped, TypeOK, RecordHolding
    <3>3. pc' \in [Threads -> PC]
      BY <2>14 DEF CloseFlushStart, TypeOK, PC, Closing
    <3> QED
      BY <2>14, <3>1, <3>2, <3>3 DEF CloseFlushStart, TypeOK, file, instance, history
  <2>15. CASE CloseFlushDone(t)
    <3>1. LocalsTyped'
      BY <2>15 DEF CloseFlushDone, LocalsTyped, TypeOK, RecordHolding
    <3> QED
      BY <2>15, <3>1 DEF CloseFlushDone, TypeOK, PC, Closing, file, instance
  <2>16. CASE CloseDone(t)
    <3>1. LocalsTyped'
      BY <2>16 DEF CloseDone, LocalsTyped, TypeOK, RecordHolding
    <3>2. pc' \in [Threads -> PC] /\ faults' \in Nat
      BY <2>16 DEF CloseDone, TypeOK, PC
    <3> QED
      BY <2>16, <3>1, <3>2, EmptyTyped DEF CloseDone, TypeOK, file, instance
  <2>17. CASE CloseFindsClosed(t)
    <3>1. LocalsTyped'
      BY <2>17 DEF CloseFindsClosed, LocalsTyped, TypeOK, RecordHolding
    <3> QED
      BY <2>17, <3>1 DEF CloseFindsClosed, TypeOK, PC, file, handle, instance, history
  <2>18. CASE AdvanceHash(t)
    <3>1. last_current_hash' \in Hash
      BY <2>18 DEF AdvanceHash, LocalsTyped, RecordHolding, AuditEvent
    <3> QED
      BY <2>18, <3>1, ReturnType DEF AdvanceHash, TypeOK, Outcome, file, handle
  <2>19. CASE Interrupted(t)
    <3>1. buf' \in Seq(Cell) /\ io' \in Threads \cup {NoThread}
      BY <2>19, WithoutLineType DEF Interrupted, TypeOK
    <3>2. dirty' \in BOOLEAN /\ faults' \in Nat
      BY <2>19 DEF Interrupted, TypeOK
    <3> QED
      BY <2>19, <3>1, <3>2, ReturnType DEF Interrupted, TypeOK, Outcome, file
  <2> QED
    BY <1>7, <2>1, <2>2, <2>3, <2>4, <2>5, <2>6, <2>7, <2>8, <2>9, <2>10, <2>11,
       <2>12, <2>13, <2>14, <2>15, <2>16, <2>17, <2>18, <2>19 DEF ThreadNext
<1>8. ASSUME NEW t \in Threads, CloseStart(t) PROVE TypeInv'
  <2>1. LocalsTyped'
    BY <1>8 DEF CloseStart, LocalsTyped, TypeOK, RecordHolding
  <2> QED
    BY <1>8, <2>1 DEF CloseStart, TypeOK, PC, Closing, file, handle, instance, history
<1>9. ASSUME NEW t \in Threads, NEW c \in Calls, NEW args \in Arguments,
             RecordRefused(t, c, args)
      PROVE TypeInv'
  BY <1>9 DEF RecordRefused, TypeOK, LocalsTyped, Outcome, file, handle, instance, locals
<1>10. ASSUME NEW t \in Threads, NEW c \in Calls, NEW args \in Arguments,
              RecordStart(t, c, args)
       PROVE TypeInv'
  <2>1. LocalsTyped'
    BY <1>10 DEF RecordStart, LocalsTyped, TypeOK, RecordHolding
  <2>2. outcome' \in [Calls -> Outcome]
    BY <1>10 DEF RecordStart, TypeOK, Outcome
  <2> QED
    BY <1>10, <2>1, <2>2 DEF RecordStart, TypeOK, PC, file, handle, instance
<1> QED
  BY <1>1, <1>2, <1>3, <1>4, <1>5, <1>6, <1>7, <1>8, <1>9, <1>10 DEF Next, Environment

\* The type invariant of the writer.
THEOREM TypeCorrect == Spec => []TypeOK
<1>1. TypeInv => TypeOK
  BY DEF TypeInv
<1> QED
  BY <1>1, TypeInit, TypeStep, PTL DEF Spec

-----------------------------------------------------------------------------
(* Control: who holds the two locks, and when the handle exists *)

Control ==
    /\ \A t \in Threads :
         /\ pc[t] \in RecordHolding => lock = t
         /\ pc[t] \in Draining => io = t /\ fh_open
    /\ ~live => ~fh_open /\ \A t \in Threads : pc[t] = "idle"
    /\ ~fh_open => pending = << >> /\ buf = << >>

LEMMA ControlInit == Init => Control
BY DEF Init, Control, RecordHolding, Draining

LEMMA NoInstanceControl == NoInstance => Control'
BY DEF NoInstance, Control, RecordHolding, Draining

LEMMA ControlStep == TypeInv /\ Control /\ [Next]_vars => Control'
<1> SUFFICES ASSUME TypeInv, Control, [Next]_vars PROVE Control'
  OBVIOUS
<1> USE DEF TypeInv, TypeOK, Control, RecordHolding, Draining
<1>1. CASE UNCHANGED vars
  BY <1>1 DEF vars, file, handle, instance, locals, history
<1>2. CASE Environment
  <2>1. CASE Construct
    BY <2>1 DEF Construct, file, locals, history
  <2>2. CASE Exit \/ Crash \/ PowerLoss
    BY <2>2, NoInstanceControl DEF Exit, Crash, PowerLoss
  <2>3. CASE Repair
    BY <2>3 DEF Repair, handle, instance, locals, history
  <2> QED
    BY <1>2, <2>1, <2>2, <2>3 DEF Environment
<1>3. ASSUME NEW t \in Threads, ThreadNext(t) PROVE Control'
  <2>1. CASE FindClosed(t)
    BY <2>1, AuditLogAssumption DEF FindClosed, Return, file, handle
  <2>2. CASE BuildEvent(t)
    BY <2>2, AuditLogAssumption DEF BuildEvent, file, handle, history
  <2>3. CASE WriteSmall(t)
    BY <2>3 DEF WriteSmall, file, instance
  <2>4. CASE WriteBig(t)
    BY <2>4, AuditLogAssumption DEF WriteBig, file, instance
  <2>5. CASE BigWriteDone(t)
    BY <2>5 DEF BigWriteDone, file, instance, history
  <2>6. CASE FlushStart(t)
    BY <2>6, AuditLogAssumption DEF FlushStart, file, instance, history
  <2>7. CASE Drain(t)
    BY <2>7 DEF Drain, instance, locals, history
  <2>8. CASE FlushDone(t)
    BY <2>8 DEF FlushDone, AfterFlush, file, instance, history
  <2>9. CASE Sync(t)
    BY <2>9 DEF Sync, handle, instance, history
  <2>10. CASE AppendFails(t)
    BY <2>10 DEF AppendFails, Return, file
  <2>11. CASE HandleGone(t)
    BY <2>11 DEF HandleGone, Return, file, handle
  <2>12. CASE AdvanceSequence(t)
    BY <2>12 DEF AdvanceSequence, file, handle, history
  <2>13. CASE CloseSet(t)
    BY <2>13 DEF CloseSet, file, handle, history
  <2>14. CASE CloseFlushStart(t)
    BY <2>14, AuditLogAssumption DEF CloseFlushStart, file, instance, history
  <2>15. CASE CloseFlushDone(t)
    BY <2>15 DEF CloseFlushDone, file, instance
  <2>16. CASE CloseDone(t)
    BY <2>16 DEF CloseDone, file, instance
  <2>17. CASE CloseFindsClosed(t)
    BY <2>17 DEF CloseFindsClosed, file, handle, instance, history
  <2>18. CASE AdvanceHash(t)
    BY <2>18 DEF AdvanceHash, Return, file, handle
  <2>19. CASE Interrupted(t)
    <3>1. ~fh_open => WithoutLine = << >>
      BY EmptySeq, SubSeqEmpty, LineCellsAssumption DEF WithoutLine
    <3> QED
      BY <2>19, <3>1, AuditLogAssumption DEF Interrupted, Return, file
  <2> QED
    BY <1>3, <2>1, <2>2, <2>3, <2>4, <2>5, <2>6, <2>7, <2>8, <2>9, <2>10, <2>11,
       <2>12, <2>13, <2>14, <2>15, <2>16, <2>17, <2>18, <2>19 DEF ThreadNext
<1>4. ASSUME NEW t \in Threads, CloseStart(t) PROVE Control'
  BY <1>4 DEF CloseStart, file, handle, instance, history
<1>5. ASSUME NEW t \in Threads, NEW c \in Calls, NEW args \in Arguments,
             RecordRefused(t, c, args)
      PROVE Control'
  BY <1>5 DEF RecordRefused, file, handle, instance, locals
<1>6. ASSUME NEW t \in Threads, NEW c \in Calls, NEW args \in Arguments,
             RecordStart(t, c, args)
      PROVE Control'
  BY <1>6 DEF RecordStart, file, handle, instance
<1> QED
  BY <1>1, <1>2, <1>3, <1>4, <1>5, <1>6 DEF Next

-----------------------------------------------------------------------------
(* The inductive invariant behind ChainIntact.                             *)
(*                                                                         *)
(* ChainIntact alone is not inductive: the line a thread is writing is in  *)
(* pieces in the tail, the buffer and the text layer, and joins the chain  *)
(* only with its newline.  StreamInv says those pieces are one line of the *)
(* event the chain needs next, whole or cut off.  InStep says why: while no  *)
(* append has failed, memory and file agree whenever the lock is free, and *)
(* the thread that holds it writes the next event of the chain.            *)

\* The event call c would append to the file as it is.
NextEvent(c) == MakeEvent(Key, Len(lines), c, ChainHead(lines))

Quiet == tail = << >> /\ buf = << >> /\ pending = << >>

\* The cells tl in the tail, bf in the buffer and pd in the text layer are one
\* line of event e: begun in the tail and going on in the buffer; or all of it
\* in the text layer; or torn off after the tail.
Streaming(e, tl, bf, pd) ==
    /\ Len(tl) < LineCells
    /\ \A i \in 1..Len(tl) : tl[i] = [event |-> e, part |-> i]
    /\ \A i \in 1..Len(bf) : bf[i] = [event |-> e, part |-> Len(tl) + i]
    /\ \A i \in 1..Len(pd) : pd[i] = [event |-> e, part |-> i]
    /\ bf # << >> => Len(tl) + Len(bf) = LineCells
    /\ pd # << >> => tl = << >> /\ bf = << >> /\ Len(pd) = LineCells

StreamInv ==
    Quiet \/ \E c \in Calls : Streaming(NextEvent(c), tail, buf, pending)

\* Thread t's line is on its way to the file.
InFlight(t) ==
    /\ entry[t] = NextEvent(call[t])
    /\ Streaming(entry[t], tail, buf, pending)
    /\ \/ buf # << >> /\ pc[t] \in {"bigwrite", "flush", "flushing"}
       \/ pending # << >> /\ pc[t] = "flush"

\* Thread t's line is the last of the file.
Written(t) ==
    /\ Quiet
    /\ lines # << >>
    /\ EventOf(lines[Len(lines)]) = entry[t]

MemoryAgrees ==
    /\ Quiet
    /\ next_sequence = Len(lines)
    /\ last_current_hash = ChainHead(lines)

InStep ==
    /\ lock = NoThread => MemoryAgrees
    /\ \A t \in Threads :
         /\ pc[t] = "write" => MemoryAgrees /\ entry[t] = NextEvent(call[t])
         /\ pc[t] \in RecordHolding \ {"write"} => InFlight(t) \/ Written(t)
         /\ pc[t] = "advance_hash" => next_sequence = Len(lines)

Chained == ~spoiled => ChainedUnder(Key, lines) /\ StreamInv

Unbroken == ~spoiled /\ ~dirty /\ fh_open => InStep

ChainInv == TypeInv /\ Control /\ Chained /\ Unbroken

-----------------------------------------------------------------------------
(* Chains *)

\* What MakeEvent puts in an event.
LEMMA MakeEventFields ==
    ASSUME NEW k, NEW seq, NEW c, NEW prev
    PROVE  /\ MakeEvent(k, seq, c, prev).sequence_number = seq
           /\ MakeEvent(k, seq, c, prev).call = c
BY DEF MakeEvent

\* In a chain, line i holds the event number i - 1.
LEMMA LastSequence ==
    ASSUME TypeOK, ChainedUnder(Key, lines), lines # << >>
    PROVE  EventOf(lines[Len(lines)]).sequence_number + 1 = Len(lines)
<1>1. Len(lines) \in 1..Len(lines)
  BY EmptySeq DEF TypeOK
<1> QED
  BY <1>1, MakeEventFields DEF ChainedUnder

\* A whole text of the next event extends the chain.
LEMMA ChainExtends ==
    ASSUME TypeOK, ChainedUnder(Key, lines),
           NEW c \in Calls,
           Len(tail) = LineCells - 1,
           \A i \in 1..Len(tail) : tail[i] = [event |-> NextEvent(c), part |-> i]
    PROVE  /\ Parses(tail) /\ EventOf(tail) = NextEvent(c)
           /\ ChainedUnder(Key, Append(lines, tail))
<1> DEFINE longer == Append(lines, tail)
<1>1. Parses(tail) /\ EventOf(tail) = NextEvent(c)
  BY LineCellsAssumption DEF Parses, EventOf
<1>2. /\ Len(longer) = Len(lines) + 1
      /\ \A i \in 1..Len(lines) : longer[i] = lines[i]
      /\ longer[Len(lines) + 1] = tail
  BY AppendProperties DEF TypeOK
<1>3. EventOf(tail).call = c
  BY <1>1, MakeEventFields DEF NextEvent
<1>4. Len(lines) \in Nat /\ (lines = << >> <=> Len(lines) = 0)
  BY EmptySeq DEF TypeOK
<1>5. ASSUME NEW i \in 1..Len(longer)
      PROVE  /\ Parses(longer[i])
             /\ EventOf(longer[i]) =
                  MakeEvent(Key, i - 1, EventOf(longer[i]).call,
                       IF i = 1 THEN Genesis ELSE EventOf(longer[i-1]).current_hash)
  <2>1. CASE i \in 1..Len(lines)
    <3>1. i = 1 \/ i - 1 \in 1..Len(lines)
      BY <1>4, <2>1
    <3> QED
      BY <1>2, <2>1, <3>1 DEF ChainedUnder
  <2>2. CASE i = Len(lines) + 1
    <3>1. ChainHead(lines) = IF i = 1 THEN Genesis ELSE EventOf(longer[i-1]).current_hash
      BY <1>2, <1>4, <2>2 DEF ChainHead
    <3>2. i - 1 = Len(lines)
      BY <1>4, <2>2
    <3> QED
      BY <1>1, <1>2, <1>3, <2>2, <3>1, <3>2 DEF NextEvent
  <2> QED
    BY <1>2, <1>4, <2>1, <2>2
<1>6. ChainedUnder(Key, longer)
  BY <1>5 DEF ChainedUnder
<1> QED
  BY <1>1, <1>6

\* A prefix of a chain is a chain, and the line after it holds the event it
\* needs next.
LEMMA ChainPrefix ==
    ASSUME TypeOK, ChainedUnder(Key, lines), NEW n \in 0..Len(lines)
    PROVE  LET prefix == SubSeq(lines, 1, n)
           IN  /\ Len(prefix) = n
               /\ ChainedUnder(Key, prefix)
               /\ n < Len(lines) =>
                    /\ Parses(lines[n + 1])
                    /\ EventOf(lines[n + 1]) =
                         MakeEvent(Key, n, EventOf(lines[n + 1]).call, ChainHead(prefix))
<1> DEFINE prefix == SubSeq(lines, 1, n)
<1>1. Len(lines) \in Nat /\ n \in Nat
  BY DEF TypeOK
<1>2. /\ prefix \in Seq(Seq(Cell)) /\ Len(prefix) = n
      /\ \A i \in 1..n : prefix[i] = lines[i]
  <2>1. \A i \in 1..n : lines[i] \in Seq(Cell)
    BY <1>1, ElementOfSeq DEF TypeOK
  <2>2. /\ prefix \in Seq(Seq(Cell))
        /\ Len(prefix) = IF 1 <= n THEN n - 1 + 1 ELSE 0
        /\ \A i \in 1..n - 1 + 1 : prefix[i] = lines[1 + i - 1]
    BY <1>1, <2>1, SubSeqProperties
  <2> QED
    BY <1>1, <2>2
<1>3. ChainedUnder(Key, prefix)
  <2>1. ASSUME NEW i \in 1..n
        PROVE  /\ Parses(prefix[i])
               /\ EventOf(prefix[i]) =
                    MakeEvent(Key, i - 1, EventOf(prefix[i]).call,
                        IF i = 1 THEN Genesis ELSE EventOf(prefix[i-1]).current_hash)
    <3>1. i \in 1..Len(lines) /\ (i = 1 \/ i - 1 \in 1..n)
      BY <1>1
    <3> QED
      BY <1>2, <3>1 DEF ChainedUnder
  <2> QED
    BY <1>2, <2>1 DEF ChainedUnder
<1>4. ASSUME n < Len(lines)
      PROVE  /\ Parses(lines[n + 1])
             /\ EventOf(lines[n + 1]) =
                  MakeEvent(Key, n, EventOf(lines[n + 1]).call, ChainHead(prefix))
  <2>1. n + 1 \in 1..Len(lines) /\ (n + 1) - 1 = n
    BY <1>1, <1>4
  <2>2. prefix = << >> <=> n = 0
    BY <1>2, EmptySeq
  <2>3. ChainHead(prefix) =
          IF n + 1 = 1 THEN Genesis ELSE EventOf(lines[(n + 1) - 1]).current_hash
    BY <1>1, <1>2, <2>1, <2>2 DEF ChainHead
  <2> QED
    BY <2>1, <2>3 DEF ChainedUnder
<1> QED
  BY <1>2, <1>3, <1>4

-----------------------------------------------------------------------------
(* Lines under way *)

\* What each step that moves bytes does to a line under way.

LEMMA StreamStart ==
    ASSUME NEW e \in AuditEvent
    PROVE  /\ Streaming(e, << >>, << >>, LineOf(e))
           /\ Streaming(e, << >>, LineOf(e), << >>)
           /\ LineOf(e) # << >>
<1>1. Len(<< >>) = 0 /\ LineOf(e) # << >>
  BY LineOfType, LineCellsAssumption, EmptySeq
<1> QED
  BY <1>1, LineOfType, LineCellsAssumption DEF Streaming

LEMMA StreamPush ==
    ASSUME NEW e, NEW tl \in Seq(Cell), NEW bf \in Seq(Cell), NEW pd \in Seq(Cell),
           Streaming(e, tl, bf, pd)
    PROVE  /\ Streaming(e, tl, bf \o pd, << >>)
           /\ bf \o pd = << >> <=> bf = << >> /\ pd = << >>
<1>1. CASE pd = << >>
  BY <1>1, ConcatEmptySeq, EmptySeq DEF Streaming
<1>2. CASE pd # << >>
  <2>1. bf \o pd = pd /\ tl = << >> /\ Len(<< >>) = 0
    BY <1>2, ConcatEmptySeq, EmptySeq DEF Streaming
  <2> QED
    BY <1>2, <2>1, LineCellsAssumption DEF Streaming
<1> QED
  BY <1>1, <1>2

LEMMA StreamDrop ==
    ASSUME NEW e, NEW tl, NEW bf, NEW pd, Streaming(e, tl, bf, pd)
    PROVE  Streaming(e, tl, << >>, << >>)
BY EmptySeq DEF Streaming

LEMMA StreamDrain ==
    ASSUME NEW e, NEW tl \in Seq(Cell), NEW bf \in Seq(Cell), NEW pd \in Seq(Cell),
           Streaming(e, tl, bf, pd), bf # << >>
    PROVE  /\ pd = << >>
           /\ Head(bf).part = LineCells =>
                Tail(bf) = << >> /\ Len(tl) = LineCells - 1
           /\ Head(bf).part # LineCells =>
                Tail(bf) # << >> /\ Streaming(e, Append(tl, Head(bf)), Tail(bf), pd)
<1>1. pd = << >>
  BY DEF Streaming
<1>2. Len(tl) \in Nat /\ Len(bf) \in Nat \ {0} /\ Len(tl) + Len(bf) = LineCells
  BY EmptySeq DEF Streaming
<1>3. Head(bf) = [event |-> e, part |-> Len(tl) + 1]
  <2>1. Head(bf) = bf[1]
    OBVIOUS
  <2>2. 1 \in 1..Len(bf)
    BY <1>2
  <2> QED
    BY <2>1, <2>2 DEF Streaming
<1>4. /\ Tail(bf) \in Seq(Cell) /\ Len(Tail(bf)) = Len(bf) - 1
      /\ \A i \in 1..Len(Tail(bf)) : Tail(bf)[i] = bf[i + 1]
  BY HeadTailProperties
<1>5. ASSUME Head(bf).part = LineCells
      PROVE  Tail(bf) = << >> /\ Len(tl) = LineCells - 1
  <2>1. Len(tl) + 1 = LineCells /\ Len(Tail(bf)) = 0
    BY <1>2, <1>3, <1>4, <1>5
  <2> QED
    BY <1>2, <1>4, <2>1, EmptySeq
<1>6. ASSUME Head(bf).part # LineCells
      PROVE  Tail(bf) # << >> /\ Streaming(e, Append(tl, Head(bf)), Tail(bf), pd)
  <2>1. Len(tl) + 1 < LineCells /\ Len(Tail(bf)) # 0
    BY <1>2, <1>3, <1>4, <1>6, LineCellsAssumption
  <2>2. Tail(bf) # << >>
    BY <2>1, EmptySeq
  <2>3. Head(bf) \in Cell
    BY HeadTailProperties
  <2>4. /\ Len(Append(tl, Head(bf))) = Len(tl) + 1
        /\ \A i \in 1..Len(tl) : Append(tl, Head(bf))[i] = tl[i]
        /\ Append(tl, Head(bf))[Len(tl) + 1] = Head(bf)
    BY <2>3, AppendProperties
  <2>5. \A i \in 1..Len(tl) + 1 :
          Append(tl, Head(bf))[i] = [event |-> e, part |-> i]
    BY <1>2, <1>3, <2>4 DEF Streaming
  <2>6. \A i \in 1..Len(Tail(bf)) :
          Tail(bf)[i] = [event |-> e, part |-> Len(tl) + 1 + i]
    <3>1. \A i \in 1..Len(Tail(bf)) : i + 1 \in 1..Len(bf) /\ Len(tl) + (i + 1) = Len(tl) + 1 + i
      BY <1>2, <1>4
    <3> QED
      BY <1>4, <3>1 DEF Streaming
  <2>7. Len(tl) + 1 + Len(Tail(bf)) = LineCells
    BY <1>2, <1>4
  <2> QED
    BY <1>1, <2>1, <2>2, <2>4, <2>5, <2>6, <2>7, EmptySeq DEF Streaming
<1> QED
  BY <1>1, <1>5, <1>6

LEMMA StreamCut ==
    ASSUME NEW e, NEW text \in Seq(Cell), Len(text) < LineCells,
           \A i \in 1..Len(text) : text[i] = [event |-> e, part |-> i],
           NEW m \in 0..Len(text)
    PROVE  Streaming(e, SubSeq(text, 1, m), << >>, << >>)
<1>1. /\ Len(SubSeq(text, 1, m)) = m
      /\ \A i \in 1..m : SubSeq(text, 1, m)[i] = text[i]
  <2>1. /\ Len(SubSeq(text, 1, m)) = IF 1 <= m THEN m - 1 + 1 ELSE 0
        /\ \A i \in 1..m - 1 + 1 : SubSeq(text, 1, m)[i] = text[1 + i - 1]
    BY SubSeqProperties, ElementOfSeq
  <2> QED
    BY <2>1
<1>2. m <= Len(text) /\ m < LineCells
  BY LineCellsAssumption
<1> QED
  BY <1>1, <1>2, EmptySeq DEF Streaming

-----------------------------------------------------------------------------
(* Every step keeps the chain *)

\* Steps that move no byte keep Chained, those that drop the buffers too.
LEMMA SameBytes ==
    ASSUME Chained, UNCHANGED << lines, tail, buf, pending, spoiled >>
    PROVE  Chained'
BY DEF Chained, ChainedUnder, StreamInv, Quiet, NextEvent, ChainHead

LEMMA DroppedBytes ==
    ASSUME Chained, UNCHANGED << lines, tail, spoiled >>, buf' = << >>, pending' = << >>
    PROVE  Chained'
<1>1. CASE spoiled
  BY <1>1 DEF Chained
<1>2. CASE Quiet
  BY <1>2 DEF Chained, StreamInv, Quiet
<1>3. CASE ~spoiled /\ ~Quiet
  <2>1. PICK c \in Calls : Streaming(NextEvent(c), tail, buf, pending)
    BY <1>3 DEF Chained, StreamInv
  <2>2. Streaming(NextEvent(c), tail, << >>, << >>)
    BY <2>1, StreamDrop
  <2>3. NextEvent(c)' = NextEvent(c)
    BY DEF NextEvent, ChainHead
  <2>4. Streaming(NextEvent(c), tail, buf, pending)'
    BY <2>2, <2>3
  <2> QED
    BY <2>4 DEF Chained, StreamInv
<1> QED
  BY <1>1, <1>2, <1>3

\* flush() moves the text layer into the buffer.
LEMMA PushedBytes ==
    ASSUME TypeOK, Chained, UNCHANGED << lines, tail, spoiled >>,
           buf' = buf \o pending, pending' = << >>
    PROVE  Chained'
<1>1. CASE spoiled
  BY <1>1 DEF Chained
<1>2. CASE Quiet
  <2>1. buf' = << >>
    BY <1>2, ConcatEmptySeq, EmptyTyped DEF Quiet
  <2> QED
    BY <1>2, <2>1 DEF Chained, StreamInv, Quiet
<1>3. CASE ~spoiled /\ ~Quiet
  <2>1. PICK c \in Calls : Streaming(NextEvent(c), tail, buf, pending)
    BY <1>3 DEF Chained, StreamInv
  <2>2. Streaming(NextEvent(c), tail, buf \o pending, << >>)
    BY <2>1, StreamPush DEF TypeOK
  <2>3. NextEvent(c)' = NextEvent(c)
    BY DEF NextEvent, ChainHead
  <2>4. Streaming(NextEvent(c), tail, buf, pending)'
    BY <2>2, <2>3
  <2> QED
    BY <2>4 DEF Chained, StreamInv
<1> QED
  BY <1>1, <1>2, <1>3

\* Bytes reach the file.
LEMMA DrainedBytes ==
    ASSUME TypeOK, Chained, NEW t \in Threads, Drain(t)
    PROVE  Chained'
<1>1. CASE spoiled
  BY <1>1 DEF Chained, Drain, history
<1>2. CASE ~spoiled
  <2>1. ChainedUnder(Key, lines) /\ ~spoiled' /\ buf # << >>
    BY <1>2 DEF Chained, Drain, history
  <2>2. PICK c \in Calls : Streaming(NextEvent(c), tail, buf, pending)
    BY <1>2, <2>1 DEF Chained, StreamInv, Quiet
  <2>3. /\ pending = << >>
        /\ Head(buf).part = LineCells => Tail(buf) = << >> /\ Len(tail) = LineCells - 1
        /\ Head(buf).part # LineCells =>
             Streaming(NextEvent(c), Append(tail, Head(buf)), Tail(buf), pending)
    BY <2>1, <2>2, StreamDrain DEF TypeOK
  <2>4. CASE Head(buf).part = LineCells
    <3>1. ChainedUnder(Key, Append(lines, tail))
      BY <2>1, <2>2, <2>3, <2>4, ChainExtends DEF Streaming
    <3>2. lines' = Append(lines, tail) /\ tail' = << >> /\ buf' = << >> /\ pending' = << >>
      BY <2>3, <2>4 DEF Drain
    <3> QED
      BY <3>1, <3>2 DEF Chained, StreamInv, Quiet
  <2>5. CASE Head(buf).part # LineCells
    <3>1. /\ UNCHANGED << lines, pending >>
          /\ tail' = Append(tail, Head(buf)) /\ buf' = Tail(buf)
      BY <2>5 DEF Drain
    <3>2. Streaming(NextEvent(c), tail, buf, pending)'
      BY <2>3, <2>5, <3>1 DEF NextEvent, ChainHead
    <3> QED
      BY <2>1, <3>1, <3>2 DEF Chained, StreamInv
  <2> QED
    BY <2>4, <2>5
<1> QED
  BY <1>1, <1>2

\* A new line begins: in an unbroken instance it is the next event's.
LEMMA NewBytes ==
    ASSUME ChainInv, NEW t \in Threads, WriteSmall(t) \/ WriteBig(t)
    PROVE  /\ Chained'
           /\ ~spoiled' =>
                /\ ~dirty /\ entry[t] = NextEvent(call[t])
                /\ Streaming(entry[t], tail', buf', pending')
                /\ IF WriteSmall(t) THEN pending' # << >> ELSE buf' # << >>
<1>1. CASE spoiled'
  BY <1>1 DEF Chained
<1>2. CASE ~spoiled'
  <2>1. /\ ~spoiled /\ ~dirty /\ fh_open /\ pc[t] = "write"
        /\ lines' = lines /\ tail' = tail
    BY <1>2 DEF ChainInv, TypeInv, TypeOK, WriteSmall, WriteBig, file
  <2>2. Quiet /\ entry[t] = NextEvent(call[t]) /\ ChainedUnder(Key, lines)
    BY <2>1 DEF ChainInv, Unbroken, InStep, MemoryAgrees, Chained
  <2>3. call[t] \in Calls /\ entry[t] \in AuditEvent
    BY <2>1 DEF ChainInv, TypeInv, LocalsTyped, RecordHolding
  <2>4. /\ << >> \o LineOf(entry[t]) = LineOf(entry[t])
        /\ << >> \o << >> \o LineOf(entry[t]) = LineOf(entry[t])
    BY <2>3, LineOfType, ConcatEmptySeq, EmptyTyped
  <2>5. \/ WriteSmall(t) /\ buf' = << >> /\ pending' = LineOf(entry[t])
        \/ WriteBig(t) /\ ~WriteSmall(t) /\ buf' = LineOf(entry[t]) /\ pending' = << >>
    BY <2>2, <2>4 DEF WriteSmall, WriteBig, Quiet
  <2>6. /\ Streaming(entry[t], tail', buf', pending')
        /\ IF WriteSmall(t) THEN pending' # << >> ELSE buf' # << >>
    BY <2>1, <2>2, <2>3, <2>5, StreamStart DEF Quiet
  <2>7. NextEvent(call[t])' = NextEvent(call[t])
    BY <2>1 DEF NextEvent, ChainHead, WriteSmall, WriteBig
  <2>8. Chained'
    <3>1. ChainedUnder(Key, lines)'
      BY <2>1, <2>2
    <3>2. StreamInv'
      BY <2>1, <2>2, <2>3, <2>6 DEF StreamInv, NextEvent, ChainHead
    <3> QED
      BY <3>1, <3>2 DEF Chained
  <2> QED
    BY <2>1, <2>2, <2>6, <2>8
<1> QED
  BY <1>1, <1>2

\* Losing power keeps a chain, and at most a torn piece of its next line.
LEMMA PowerLossBytes ==
    ASSUME TypeOK, Chained, PowerLoss
    PROVE  Chained'
<1>1. CASE spoiled
  BY <1>1 DEF Chained, PowerLoss
<1>2. CASE ~spoiled
  <2> DEFINE cut(n) == IF n < Len(lines) THEN lines[n + 1] ELSE tail
  <2>1. PICK n \in synced..Len(lines) :
          /\ lines' = SubSeq(lines, 1, n)
          /\ \E m \in 0..Len(cut(n)) : tail' = SubSeq(cut(n), 1, m)
    BY DEF PowerLoss
  <2>2. PICK m \in 0..Len(cut(n)) : tail' = SubSeq(cut(n), 1, m)
    BY <2>1
  <2>3. n \in 0..Len(lines) /\ n \in Nat /\ Len(lines) \in Nat
    BY DEF TypeOK
  <2>4. ChainedUnder(Key, lines) /\ StreamInv
    BY <1>2 DEF Chained
  <2>5. /\ Len(lines') = n
        /\ ChainedUnder(Key, lines')
        /\ n < Len(lines) =>
             /\ Parses(lines[n + 1])
             /\ EventOf(lines[n + 1]) =
                  MakeEvent(Key, n, EventOf(lines[n + 1]).call, ChainHead(lines'))
    BY <2>1, <2>3, <2>4, ChainPrefix
  <2>6. buf' = << >> /\ pending' = << >> /\ spoiled' = spoiled
    BY DEF PowerLoss, NoInstance
  <2>7. cut(n) \in Seq(Cell)
    BY <2>3, ElementOfSeq DEF TypeOK
  <2>8. StreamInv'
    <3>1. CASE n < Len(lines)
      <4> DEFINE e == EventOf(lines[n + 1])
      <4>1. /\ cut(n) = lines[n + 1] /\ Len(cut(n)) = LineCells - 1
            /\ \A i \in 1..Len(cut(n)) : cut(n)[i] = [event |-> e, part |-> i]
        BY <2>5, <3>1 DEF Parses, EventOf
      <4>2. 1 \in 1..Len(cut(n)) /\ cut(n)[1] \in Cell
        BY <2>7, <4>1, ElementOfSeq, LineCellsAssumption
      <4>3. e.call \in Calls
        BY <4>1, <4>2 DEF Cell, EventOf, AuditEvent
      <4>4. Streaming(e, SubSeq(cut(n), 1, m), << >>, << >>)
        BY <2>7, <4>1, StreamCut, LineCellsAssumption
      <4>5. MakeEvent(Key, Len(lines'), e.call, ChainHead(lines')) = e
        BY <2>5, <3>1
      <4>6. \E c \in Calls :
              Streaming(MakeEvent(Key, Len(lines'), c, ChainHead(lines')), tail', buf', pending')
        BY <2>2, <2>6, <4>3, <4>4, <4>5
      <4> QED
        BY <4>6 DEF StreamInv, NextEvent
    <3>2. CASE n = Len(lines)
      <4>1. lines' = lines /\ cut(n) = tail
        BY <2>1, <2>3, <3>2, SubSeqFull DEF TypeOK
      <4>2. CASE Quiet
        <5>1. tail' = << >>
          BY <2>2, <4>1, <4>2, SubSeqEmpty, EmptySeq DEF Quiet
        <5> QED
          BY <2>6, <5>1 DEF StreamInv, Quiet
      <4>3. CASE ~Quiet
        <5>1. PICK c \in Calls : Streaming(NextEvent(c), tail, buf, pending)
          BY <2>4, <4>3 DEF StreamInv
        <5>2. Streaming(NextEvent(c), SubSeq(tail, 1, m), << >>, << >>)
          <6>1. /\ Len(tail) < LineCells
                /\ \A i \in 1..Len(tail) : tail[i] = [event |-> NextEvent(c), part |-> i]
            BY <5>1 DEF Streaming
          <6>2. tail \in Seq(Cell) /\ m \in 0..Len(tail)
            BY <2>2, <4>1 DEF TypeOK
          <6> QED
            BY <6>1, <6>2, StreamCut
        <5>3. NextEvent(c)' = NextEvent(c)
          BY <4>1 DEF NextEvent, ChainHead
        <5>4. Streaming(NextEvent(c), tail, buf, pending)'
          BY <2>2, <2>6, <4>1, <5>2, <5>3
        <5> QED
          BY <5>4 DEF StreamInv
      <4> QED
        BY <4>2, <4>3
    <3> QED
      BY <2>3, <3>1, <3>2
  <2> QED
    BY <2>5, <2>8 DEF Chained
<1> QED
  BY <1>1, <1>2

\* The operator's repair, whichever it is, keeps the chain.
LEMMA RepairBytes ==
    ASSUME TypeOK, Control, Chained, Repair
    PROVE  Chained'
<1>1. CASE spoiled
  BY <1>1 DEF Chained, Repair, history
<1>2. CASE ~spoiled
  <2>1. ChainedUnder(Key, lines) /\ StreamInv /\ buf = << >> /\ pending = << >>
    BY <1>2 DEF Chained, Control, Repair
  <2>2. Quiet' /\ spoiled' = spoiled
    BY <2>1 DEF Quiet, Repair, handle, history
  <2>3. tail # << >>
    <3>1. SUFFICES ASSUME tail = << >> PROVE FALSE
      OBVIOUS
    <3>2. lines # << >> /\ ~Parses(lines[Len(lines)])
      BY <3>1 DEF Repair, Resumable
    <3>3. Len(lines) \in 1..Len(lines)
      BY <3>2, EmptySeq DEF TypeOK
    <3> QED
      BY <2>1, <3>2, <3>3 DEF ChainedUnder
  <2>4. CASE lines' = lines
    BY <2>1, <2>2, <2>4 DEF Chained, StreamInv
  <2>5. CASE Parses(tail) /\ lines' = Append(lines, tail)
    <3>1. PICK c \in Calls : Streaming(NextEvent(c), tail, buf, pending)
      BY <2>1, <2>3 DEF StreamInv, Quiet
    <3>2. ChainedUnder(Key, Append(lines, tail))
      BY <2>1, <2>5, <3>1, ChainExtends DEF Streaming, Parses
    <3> QED
      BY <2>2, <2>5, <3>2 DEF Chained, StreamInv
  <2> QED
    BY <2>3, <2>4, <2>5 DEF Repair
<1> QED
  BY <1>1, <1>2

LEMMA ChainedStep == ChainInv /\ [Next]_vars => Chained'
<1> SUFFICES ASSUME ChainInv, [Next]_vars PROVE Chained'
  OBVIOUS
<1> USE DEF ChainInv, TypeInv
<1>1. CASE UNCHANGED vars
  BY <1>1, SameBytes DEF vars, file, handle, history
<1>2. CASE Environment
  <2>1. CASE Construct
    BY <2>1, SameBytes DEF Construct, file, history
  <2>2. CASE Exit \/ Crash
    BY <2>2, DroppedBytes DEF Exit, Crash, NoInstance, file
  <2>3. CASE PowerLoss \/ Repair
    BY <2>3, PowerLossBytes, RepairBytes
  <2> QED
    BY <1>2, <2>1, <2>2, <2>3 DEF Environment
<1>3. ASSUME NEW t \in Threads, ThreadNext(t) PROVE Chained'
  <2>1. CASE FindClosed(t) \/ BuildEvent(t) \/ BigWriteDone(t) \/ FlushDone(t) \/ Sync(t)
             \/ HandleGone(t) \/ AdvanceSequence(t) \/ AdvanceHash(t) \/ CloseSet(t)
             \/ CloseFlushDone(t) \/ CloseFindsClosed(t)
    BY <2>1, SameBytes DEF FindClosed, BuildEvent, BigWriteDone, FlushDone, Sync, HandleGone,
       AdvanceSequence, AdvanceHash, CloseSet, CloseFlushDone, CloseFindsClosed, file, handle, history
  <2>2. CASE WriteSmall(t) \/ WriteBig(t)
    BY <2>2, NewBytes
  <2>3. CASE FlushStart(t) \/ CloseFlushStart(t)
    BY <2>3, PushedBytes DEF FlushStart, CloseFlushStart, file, history
  <2>4. CASE Drain(t)
    BY <2>4, DrainedBytes
  <2>5. CASE CloseDone(t)
    BY <2>5, DroppedBytes DEF CloseDone, file
  <2>6. CASE AppendFails(t) \/ Interrupted(t)
    <3>1. /\ UNCHANGED << lines, tail, pending, spoiled >>
          /\ buf' = IF pc[t] = "bigwrite" THEN WithoutLine ELSE buf
      BY <2>6 DEF AppendFails, Interrupted, file
    <3>2. CASE spoiled
      BY <3>1, <3>2 DEF Chained
    <3>3. CASE pc[t] # "bigwrite"
      BY <3>1, <3>3, SameBytes
    <3>4. CASE ~spoiled /\ pc[t] = "bigwrite" /\ buf = << >>
      BY <3>1, <3>4, SameBytes, SubSeqEmpty, EmptySeq, LineCellsAssumption DEF WithoutLine
    <3>5. CASE ~spoiled /\ pc[t] = "bigwrite" /\ buf # << >>
      <4>1. PICK c \in Calls : Streaming(NextEvent(c), tail, buf, pending)
        BY <3>5 DEF Chained, StreamInv, Quiet
      <4>2. pending = << >> /\ ~(Len(buf) > LineCells)
        BY <3>5, <4>1, LineCellsAssumption, LenProperties DEF Streaming, TypeOK
      <4>3. buf' = << >> /\ pending' = << >>
        BY <3>1, <3>5, <4>2, SubSeqEmpty DEF WithoutLine
      <4> QED
        BY <3>1, <4>3, DroppedBytes
    <3> QED
      BY <3>2, <3>3, <3>4, <3>5
  <2> QED
    BY <1>3, <2>1, <2>2, <2>3, <2>4, <2>5, <2>6 DEF ThreadNext
<1>4. ASSUME NEW t \in Threads, CloseStart(t) PROVE Chained'
  BY <1>4, SameBytes DEF CloseStart, file, handle, history
<1>5. ASSUME NEW t \in Threads, NEW c \in Calls, NEW args \in Arguments,
             RecordRefused(t, c, args) \/ RecordStart(t, c, args)
      PROVE Chained'
  BY <1>5, SameBytes DEF RecordRefused, RecordStart, file, handle
<1> QED
  BY <1>1, <1>2, <1>3, <1>4, <1>5 DEF Next

\* As long as no append fails, memory and file stay in step.
LEMMA UnbrokenStep == ChainInv /\ [Next]_vars => Unbroken'
<1> SUFFICES ASSUME ChainInv, [Next]_vars, ~spoiled', ~dirty', fh_open'
             PROVE  InStep'
  BY DEF Unbroken
<1> USE DEF ChainInv, TypeInv
<1>a. ASSUME UNCHANGED << dirty, spoiled, fh_open >> PROVE InStep /\ Chained /\ ~spoiled
  BY <1>a DEF Unbroken
<1>b. ASSUME UNCHANGED << lines, tail, buf, pending >>
      PROVE  /\ Quiet' <=> Quiet
             /\ ChainHead(lines)' = ChainHead(lines)
             /\ \A c \in Calls : NextEvent(c)' = NextEvent(c)
  BY <1>b DEF Quiet, ChainHead, NextEvent
<1>c. NoThread \notin Threads /\ \A t \in Threads : pc[t] \in RecordHolding => lock = t
  BY AuditLogAssumption DEF Control
<1>1. CASE UNCHANGED vars
  BY <1>1, <1>a DEF vars, file, handle, instance, locals, history, InStep, MemoryAgrees,
     Quiet, ChainHead, NextEvent, InFlight, Written
<1>2. CASE Environment
  <2>1. CASE Construct
    <3>1. Quiet' /\ \A t \in Threads : pc'[t] = "idle"
      BY <2>1 DEF Construct, Resumable, Control, Quiet, file, locals
    <3>2. ChainedUnder(Key, lines) /\ UNCHANGED lines
      BY <2>1 DEF Construct, Chained, file, history
    <3>3. next_sequence' = Len(lines) /\ last_current_hash' = ChainHead(lines)
      BY <2>1, <3>2, LastSequence, EmptySeq DEF Construct, _load_resume_state, ResumeState, ResumeAfter, ChainHead, TypeOK
    <3>4. MemoryAgrees'
      BY <3>1, <3>2, <3>3 DEF MemoryAgrees
    <3> QED
      BY <3>1, <3>4 DEF InStep, RecordHolding
  <2>2. CASE Exit \/ Crash \/ PowerLoss
    BY <2>2 DEF Exit, Crash, PowerLoss, NoInstance
  <2>3. CASE Repair
    BY <2>3 DEF Repair, Control, handle
  <2> QED
    BY <1>2, <2>1, <2>2, <2>3 DEF Environment
<1>3. ASSUME NEW t \in Threads, ThreadNext(t) PROVE InStep'
  <2>1. CASE FindClosed(t)
    <3>1. InStep /\ UNCHANGED << lines, tail, buf, pending, next_sequence, last_current_hash >>
      BY <2>1, <1>a DEF FindClosed, file, handle
    <3>2. \A u \in Threads : pc'[u] \notin RecordHolding
      BY <2>1, <1>c DEF FindClosed, Return, TypeOK, RecordHolding
    <3> QED
      BY <2>1, <1>b, <3>1, <3>2 DEF FindClosed, InStep, MemoryAgrees, RecordHolding
  <2>2. CASE BuildEvent(t)
    <3>1. MemoryAgrees /\ UNCHANGED << lines, tail, buf, pending >>
      BY <2>2, <1>a DEF BuildEvent, file, handle, history, InStep
    <3>2. call[t] \in Calls /\ UNCHANGED call
      BY <2>2 DEF BuildEvent, LocalsTyped
    <3>3. (entry[t] = NextEvent(call[t]))' /\ MemoryAgrees'
      BY <2>2, <3>1, <3>2, <1>b DEF BuildEvent, MemoryAgrees, NextEvent, TypeOK
    <3>4. \A u \in Threads \ {t} : pc'[u] \notin RecordHolding
      BY <2>2, <1>c DEF BuildEvent, TypeOK
    <3>5. pc'[t] = "write" /\ lock' # NoThread
      BY <2>2, <1>c DEF BuildEvent, TypeOK
    <3> QED
      BY <3>3, <3>4, <3>5 DEF InStep, RecordHolding
  <2>3. CASE WriteSmall(t) \/ WriteBig(t)
    <3>1. /\ entry[t] = NextEvent(call[t]) /\ Streaming(entry[t], tail', buf', pending')
          /\ IF WriteSmall(t) THEN pending' # << >> ELSE buf' # << >>
      BY <2>3, NewBytes
    <3>2. UNCHANGED << lines, entry, call, lock >>
      BY <2>3 DEF WriteSmall, WriteBig, file, instance
    <3>3. lock = t /\ \A u \in Threads \ {t} : pc'[u] \notin RecordHolding
      BY <2>3, <1>c DEF WriteSmall, WriteBig, TypeOK, RecordHolding
    <3>4. pc'[t] = IF WriteSmall(t) THEN "flush" ELSE "bigwrite"
      BY <2>3 DEF WriteSmall, WriteBig, TypeOK
    <3>5. (entry[t] = NextEvent(call[t]))'
      BY <3>1, <3>2 DEF NextEvent, ChainHead
    <3>6. InFlight(t)'
      BY <3>1, <3>2, <3>4, <3>5 DEF InFlight
    <3> QED
      BY <1>c, <3>2, <3>3, <3>4, <3>6 DEF InStep, RecordHolding
  <2>4. CASE BigWriteDone(t) \/ FlushDone(t) \/ Sync(t)
    <3>1. InStep /\ UNCHANGED << lines, tail, buf, pending, entry, call, lock >>
      BY <2>4, <1>a DEF BigWriteDone, FlushDone, Sync, file, handle, history, instance
    <3>2. lock = t /\ \A u \in Threads \ {t} : pc'[u] \notin RecordHolding
      BY <2>4, <1>c DEF BigWriteDone, FlushDone, AfterFlush, Sync, TypeOK, RecordHolding
    <3>3. CASE InFlight(t)
      <4>1. pc[t] = "bigwrite" /\ pc'[t] = "flush" /\ buf # << >>
        BY <2>4, <3>3 DEF InFlight, BigWriteDone, FlushDone, AfterFlush, Sync, TypeOK
      <4>2. InFlight(t)'
        BY <3>1, <3>3, <4>1 DEF InFlight, NextEvent, ChainHead
      <4> QED
        BY <1>c, <3>1, <3>2, <4>1, <4>2 DEF InStep, RecordHolding
    <3>4. CASE Written(t)
      <4>1. Written(t)'
        BY <3>1, <3>4 DEF Written, Quiet
      <4>2. pc'[t] \notin {"write", "advance_hash"}
        BY <2>4 DEF BigWriteDone, FlushDone, AfterFlush, Sync, TypeOK
      <4> QED
        BY <1>c, <3>1, <3>2, <4>1, <4>2 DEF InStep, RecordHolding
    <3>5. InFlight(t) \/ Written(t)
      BY <2>4, <3>1 DEF InStep, BigWriteDone, FlushDone, AfterFlush, Sync, RecordHolding
    <3> QED
      BY <3>3, <3>4, <3>5
  <2>5. CASE FlushStart(t) \/ CloseFlushStart(t)
    <3>1. /\ InStep /\ UNCHANGED << lines, tail, entry, call, lock, next_sequence, last_current_hash >>
          /\ buf' = buf \o pending /\ pending' = << >>
      BY <2>5, <1>a DEF FlushStart, CloseFlushStart, file, history, instance
    <3>2. Quiet => Quiet'
      BY <3>1, ConcatEmptySeq, EmptyTyped DEF Quiet
    <3>3. /\ \A u \in Threads : pc[u] = "write" => pc'[u] = "write"
          /\ \A u \in Threads : pc'[u] = "write" => pc[u] = "write"
          /\ \A u \in Threads : pc'[u] = "advance_hash" => pc[u] = "advance_hash"
          /\ \A u \in Threads : pc'[u] \in RecordHolding => pc[u] \in RecordHolding
          /\ \A u \in Threads : pc[u] \in {"bigwrite", "flush", "flushing"}
                => pc'[u] \in {"bigwrite", "flush", "flushing"}
      BY <2>5 DEF FlushStart, CloseFlushStart, TypeOK, RecordHolding
    <3>4. lock' = NoThread => MemoryAgrees'
      BY <3>1, <3>2 DEF InStep, MemoryAgrees, ChainHead
    <3>5. ASSUME NEW u \in Threads, pc'[u] = "write"
          PROVE  MemoryAgrees' /\ (entry[u] = NextEvent(call[u]))'
      BY <3>1, <3>2, <3>3, <3>5 DEF InStep, MemoryAgrees, NextEvent, ChainHead
    <3>6. ASSUME NEW u \in Threads, pc'[u] \in RecordHolding \ {"write"}
          PROVE  InFlight(u)' \/ Written(u)'
      <4>1. InFlight(u) \/ Written(u)
        BY <3>1, <3>3, <3>6 DEF InStep
      <4>2. CASE Written(u)
        BY <3>1, <3>2, <4>2 DEF Written
      <4>3. CASE InFlight(u)
        <5>1. Streaming(entry[u], tail, buf', << >>) /\ buf' # << >>
          BY <3>1, <4>3, StreamPush DEF InFlight, TypeOK
        <5>2. (entry[u] = NextEvent(call[u]))'
          BY <3>1, <4>3 DEF InFlight, NextEvent, ChainHead
        <5> QED
          BY <3>1, <3>3, <4>3, <5>1, <5>2 DEF InFlight
      <4> QED
        BY <4>1, <4>2, <4>3
    <3>7. \A u \in Threads : pc'[u] = "advance_hash" => next_sequence' = Len(lines')
      BY <3>1, <3>3 DEF InStep
    <3> QED
      BY <3>4, <3>5, <3>6, <3>7 DEF InStep
  <2>6. CASE Drain(t)
    <3>1. /\ InStep /\ ChainedUnder(Key, lines) /\ buf # << >> /\ ~Quiet
          /\ UNCHANGED << entry, call, lock, pc, pending >>
      BY <2>6, <1>a DEF Drain, history, instance, locals, Chained, Quiet
    <3>2. lock # NoThread
      BY <3>1 DEF InStep, MemoryAgrees
    <3>3. ASSUME NEW u \in Threads, pc[u] \in RecordHolding \ {"write"}
          PROVE  InFlight(u)' \/ Written(u)'
      <4>1. InFlight(u)
        BY <3>1, <3>3 DEF InStep, Written
      <4>2. /\ pending = << >>
            /\ Head(buf).part = LineCells => Tail(buf) = << >> /\ Len(tail) = LineCells - 1
            /\ Head(buf).part # LineCells =>
                 /\ Tail(buf) # << >>
                 /\ Streaming(entry[u], Append(tail, Head(buf)), Tail(buf), pending)
        BY <3>1, <4>1, StreamDrain DEF InFlight, TypeOK
      <4>3. CASE Head(buf).part = LineCells
        <5>1. lines' = Append(lines, tail) /\ tail' = << >> /\ buf' = << >> /\ pending' = << >>
          BY <2>6, <3>1, <4>2, <4>3 DEF Drain
        <5>2. call[u] \in Calls
          BY <3>3 DEF LocalsTyped
        <5>3. \A i \in 1..Len(tail) : tail[i] = [event |-> NextEvent(call[u]), part |-> i]
          BY <4>1 DEF InFlight, Streaming
        <5>4. EventOf(tail) = entry[u]
          BY <3>1, <4>1, <4>2, <4>3, <5>2, <5>3, ChainExtends DEF InFlight
        <5>5. lines' # << >> /\ lines'[Len(lines')] = tail
          <6>1. lines \in Seq(Seq(Cell)) /\ tail \in Seq(Cell)
            BY DEF TypeOK
          <6> QED
            BY <5>1, <6>1, AppendProperties
        <5> QED
          BY <3>1, <5>1, <5>4, <5>5 DEF Written, Quiet
      <4>4. CASE Head(buf).part # LineCells
        <5>1. /\ UNCHANGED << lines, pending >>
              /\ tail' = Append(tail, Head(buf)) /\ buf' = Tail(buf)
          BY <2>6, <4>4 DEF Drain
        <5>2. (entry[u] = NextEvent(call[u]))'
          BY <3>1, <4>1, <5>1 DEF InFlight, NextEvent, ChainHead
        <5> QED
          BY <3>1, <4>1, <4>2, <4>4, <5>1, <5>2 DEF InFlight
      <4> QED
        BY <4>3, <4>4
    <3>4. \A u \in Threads : pc[u] \notin {"write", "advance_hash"}
      BY <3>1 DEF InStep, MemoryAgrees, InFlight, Written, RecordHolding
    <3> QED
      BY <3>1, <3>2, <3>3, <3>4 DEF InStep
  <2>7. CASE AppendFails(t) \/ HandleGone(t) \/ CloseDone(t)
    BY <2>7 DEF AppendFails, HandleGone, CloseDone
  <2>8. CASE AdvanceSequence(t)
    <3>1. /\ InStep /\ ChainedUnder(Key, lines)
          /\ UNCHANGED << lines, tail, buf, pending, entry, call, lock >>
      BY <2>8, <1>a DEF AdvanceSequence, Chained, file, handle, history
    <3>2. Written(t)
      BY <2>8, <3>1 DEF AdvanceSequence, InStep, InFlight, RecordHolding
    <3>3. next_sequence' = Len(lines)
      BY <2>8, <3>1, <3>2, LastSequence DEF AdvanceSequence, Written
    <3>4. lock = t /\ \A u \in Threads \ {t} : pc'[u] \notin RecordHolding
      BY <2>8, <1>c DEF AdvanceSequence, TypeOK, RecordHolding
    <3>5. Written(t)' /\ pc'[t] = "advance_hash"
      BY <2>8, <3>1, <3>2 DEF AdvanceSequence, Written, Quiet, TypeOK
    <3> QED
      BY <1>c, <3>1, <3>3, <3>4, <3>5 DEF InStep, RecordHolding
  <2>10. CASE AdvanceHash(t)
    <3>1. /\ InStep /\ ChainedUnder(Key, lines)
          /\ UNCHANGED << lines, tail, buf, pending, next_sequence >>
      BY <2>10, <1>a DEF AdvanceHash, Chained, file, handle
    <3>2. Written(t) /\ next_sequence = Len(lines)
      BY <2>10, <3>1 DEF AdvanceHash, InStep, InFlight, RecordHolding
    <3>3. entry[t].current_hash = ChainHead(lines)
      BY <3>2 DEF Written, ChainHead
    <3>4. MemoryAgrees'
      BY <2>10, <3>1, <3>2, <3>3, <1>b DEF AdvanceHash, MemoryAgrees, Written
    <3>5. \A u \in Threads : pc'[u] \notin RecordHolding
      BY <2>10, <1>c DEF AdvanceHash, Return, TypeOK, RecordHolding
    <3> QED
      BY <3>4, <3>5 DEF InStep, RecordHolding
  <2>11. CASE Interrupted(t)
    <3>1. pc[t] = "write" /\ UNCHANGED << lines, tail, buf, pending, dirty, spoiled, fh_open,
                                          next_sequence, last_current_hash >>
      BY <2>11 DEF Interrupted, file, TypeOK
    <3>2. MemoryAgrees
      BY <3>1, <1>a DEF InStep
    <3>3. MemoryAgrees'
      BY <3>1, <3>2, <1>b DEF MemoryAgrees
    <3>4. \A u \in Threads : pc'[u] \notin RecordHolding
      BY <2>11, <1>c DEF Interrupted, Return, TypeOK, RecordHolding
    <3> QED
      BY <3>3, <3>4 DEF InStep, RecordHolding
  <2>9. CASE CloseSet(t) \/ CloseFlushDone(t) \/ CloseFindsClosed(t)
    <3>1. /\ InStep
          /\ UNCHANGED << lines, tail, buf, pending, entry, call, lock,
                          next_sequence, last_current_hash >>
      BY <2>9, <1>a DEF CloseSet, CloseFlushDone, CloseFindsClosed, file, handle, history, instance
    <3>2. \A u \in Threads : pc'[u] \in RecordHolding => pc'[u] = pc[u]
      BY <2>9 DEF CloseSet, CloseFlushDone, CloseFindsClosed, TypeOK, RecordHolding
    <3> QED
      BY <3>1, <3>2 DEF InStep, MemoryAgrees, InFlight, Written, Quiet, NextEvent, ChainHead,
         RecordHolding
  <2> QED
    BY <1>3, <2>1, <2>2, <2>3, <2>4, <2>5, <2>6, <2>7, <2>8, <2>9, <2>10,
       <2>11 DEF ThreadNext
<1>4. ASSUME NEW t \in Threads, NEW c \in Calls, NEW args \in Arguments,
             RecordRefused(t, c, args) \/ RecordStart(t, c, args)
      PROVE  InStep'
  <2>1. /\ InStep
        /\ UNCHANGED << lines, tail, buf, pending, entry, lock,
                        next_sequence, last_current_hash >>
    BY <1>4, <1>a DEF RecordRefused, RecordStart, file, handle, history, instance, locals
  <2>2. \A u \in Threads : pc'[u] \in RecordHolding => pc'[u] = pc[u] /\ call'[u] = call[u]
    BY <1>4 DEF RecordRefused, RecordStart, TypeOK, RecordHolding, locals
  <2> QED
    BY <2>1, <2>2 DEF InStep, MemoryAgrees, InFlight, Written, Quiet, NextEvent, ChainHead,
       RecordHolding
<1>5. ASSUME NEW t \in Threads, CloseStart(t) PROVE InStep'
  <2>1. /\ InStep
        /\ UNCHANGED << lines, tail, buf, pending, entry, call, lock,
                        next_sequence, last_current_hash >>
    BY <1>5, <1>a DEF CloseStart, file, handle, history, instance
  <2>2. \A u \in Threads : pc'[u] \in RecordHolding => pc'[u] = pc[u]
    BY <1>5 DEF CloseStart, TypeOK, RecordHolding
  <2> QED
    BY <2>1, <2>2 DEF InStep, MemoryAgrees, InFlight, Written, Quiet, NextEvent, ChainHead,
       RecordHolding
<1> QED
  BY <1>1, <1>2, <1>3, <1>4, <1>5 DEF Next

LEMMA ChainInit == Init => ChainInv
<1> SUFFICES ASSUME Init PROVE ChainInv
  OBVIOUS
<1>1. TypeInv /\ Control
  BY TypeInit, ControlInit
<1>2. Chained
  BY EmptySeq DEF Init, Chained, ChainedUnder, StreamInv, Quiet
<1>3. Unbroken
  BY DEF Init, Unbroken
<1> QED
  BY <1>1, <1>2, <1>3 DEF ChainInv

LEMMA ChainStep == ChainInv /\ [Next]_vars => ChainInv'
BY TypeStep, ControlStep, ChainedStep, UnbrokenStep DEF ChainInv

-----------------------------------------------------------------------------
(* The inductive invariant behind GettersBehindFile.                       *)
(*                                                                         *)
(* InStep is about an open handle; the getters are read after close() too. *)
(* What a thread is about to put in the chain state is then still the last *)
(* line of the file: nothing is appended through a closed handle.          *)

\* Threads whose line is written, and whose chain state is not set yet.
Finishing == {"fsync", "advance", "advance_hash"}

HashOnFile(hash) ==
    hash = Genesis \/ \E i \in 1..Len(lines) : EventOf(lines[i]).current_hash = hash

EntryIsLast(t) == lines # << >> /\ entry[t] = EventOf(lines[Len(lines)])

Behind ==
    live /\ ~dirty /\ ~spoiled =>
        /\ next_sequence <= Len(lines)
        /\ HashOnFile(last_current_hash)
        /\ \A t \in Threads : pc[t] \in Finishing => EntryIsLast(t)

\* The hash of the last line is on file.
LEMMA LastHashOnFile ==
    ASSUME TypeOK, lines # << >>
    PROVE  HashOnFile(EventOf(lines[Len(lines)]).current_hash)
<1>1. Len(lines) \in 1..Len(lines)
  BY EmptySeq DEF TypeOK
<1> QED
  BY <1>1 DEF HashOnFile

\* Steps that add no line, set no chain state and finish no append.
LEMMA StaysBehind ==
    ASSUME Behind, UNCHANGED << lines, next_sequence, last_current_hash >>,
           live' /\ ~dirty' /\ ~spoiled' => live /\ ~dirty /\ ~spoiled,
           \A t \in Threads : pc'[t] \in Finishing => pc[t] \in Finishing /\ entry'[t] = entry[t]
    PROVE  Behind'
BY DEF Behind, HashOnFile, EntryIsLast

LEMMA BehindInit == Init => Behind
BY DEF Init, Behind

LEMMA BehindStep == ChainInv /\ Behind /\ [Next]_vars => Behind'
<1> SUFFICES ASSUME ChainInv, Behind, [Next]_vars PROVE Behind'
  OBVIOUS
<1> USE DEF ChainInv, TypeInv
<1>a. /\ pc \in [Threads -> PC] /\ entry \in [Threads -> AuditEvent \cup {NoEvent}]
      /\ dirty \in BOOLEAN /\ spoiled \in BOOLEAN
  BY DEF TypeOK
<1>1. CASE UNCHANGED vars
  BY <1>1, StaysBehind DEF vars, file, handle, instance, locals, history
<1>2. CASE Environment
  <2>1. CASE Construct
    <3>1. CASE spoiled
      BY <2>1, <3>1 DEF Construct, Behind, history
    <3>2. CASE ~spoiled
      <4>1. /\ ChainedUnder(Key, lines) /\ UNCHANGED lines
            /\ \A t \in Threads : pc'[t] = "idle"
        BY <2>1, <3>2 DEF Construct, Chained, Control, file, history, locals
      <4>2. next_sequence' = Len(lines)
        BY <2>1, <4>1, LastSequence, EmptySeq DEF Construct, _load_resume_state, ResumeState, ResumeAfter, TypeOK
      <4>3. HashOnFile(last_current_hash)'
        BY <2>1, <4>1, LastHashOnFile DEF Construct, _load_resume_state, ResumeState, ResumeAfter, HashOnFile
      <4>4. Len(lines) <= Len(lines)
        BY DEF TypeOK
      <4> QED
        BY <4>1, <4>2, <4>3, <4>4 DEF Behind, Finishing
    <3> QED
      BY <3>1, <3>2
  <2>2. CASE Exit \/ Crash \/ PowerLoss
    BY <2>2 DEF Exit, Crash, PowerLoss, NoInstance, Behind
  <2>3. CASE Repair
    BY <2>3 DEF Repair, instance, Behind
  <2> QED
    BY <1>2, <2>1, <2>2, <2>3 DEF Environment
<1>3. ASSUME NEW t \in Threads, ThreadNext(t) PROVE Behind'
  <2>1. CASE FindClosed(t) \/ BuildEvent(t) \/ WriteSmall(t) \/ WriteBig(t) \/ BigWriteDone(t)
             \/ FlushStart(t) \/ Sync(t) \/ AppendFails(t) \/ HandleGone(t) \/ Interrupted(t)
    <3>1. UNCHANGED << lines, next_sequence, last_current_hash, live >>
      BY <2>1 DEF FindClosed, BuildEvent, WriteSmall, WriteBig, BigWriteDone, FlushStart, Sync,
         AppendFails, HandleGone, Interrupted, file, instance
    <3>2. ~dirty' /\ ~spoiled' => ~dirty /\ ~spoiled
      BY <2>1, <1>a DEF FindClosed, BuildEvent, WriteSmall, WriteBig, BigWriteDone, FlushStart,
         Sync, AppendFails, HandleGone, Interrupted, history
    <3>3. \A u \in Threads : pc'[u] \in Finishing => pc[u] \in Finishing /\ entry'[u] = entry[u]
      BY <2>1, <1>a DEF FindClosed, BuildEvent, WriteSmall, WriteBig, BigWriteDone, FlushStart,
         Sync, AppendFails, HandleGone, Interrupted, Return, Finishing
    <3> QED
      BY <3>1, <3>2, <3>3, StaysBehind
  <2>2. CASE CloseSet(t) \/ CloseFlushStart(t) \/ CloseFlushDone(t) \/ CloseDone(t)
             \/ CloseFindsClosed(t)
    <3>1. UNCHANGED << lines, next_sequence, last_current_hash, live, dirty, spoiled, entry >>
      BY <2>2 DEF CloseSet, CloseFlushStart, CloseFlushDone, CloseDone, CloseFindsClosed,
         file, instance, history
    <3>2. \A u \in Threads : pc'[u] \in Finishing => pc[u] \in Finishing
      BY <2>2, <1>a DEF CloseSet, CloseFlushStart, CloseFlushDone, CloseDone, CloseFindsClosed,
         Finishing
    <3> QED
      BY <3>1, <3>2, StaysBehind
  <2>3. CASE FlushDone(t)
    <3>1. UNCHANGED << lines, next_sequence, last_current_hash, live, dirty, spoiled, entry, fh_open >>
      BY <2>3 DEF FlushDone, file, instance, history
    <3>2. \A u \in Threads \ {t} : pc'[u] = pc[u]
      BY <2>3, <1>a DEF FlushDone
    <3>3. ~dirty /\ ~spoiled => EntryIsLast(t)
      <4>1. fh_open /\ buf = << >> /\ pc[t] = "flushing"
        BY <2>3 DEF FlushDone, Control, Draining
      <4> QED
        BY <4>1 DEF Unbroken, InStep, InFlight, Written, EntryIsLast, RecordHolding
    <3> QED
      BY <3>1, <3>2, <3>3 DEF Behind, HashOnFile, EntryIsLast
  <2>4. CASE Drain(t)
    <3>1. CASE live /\ ~dirty /\ ~spoiled
      <4>1. /\ fh_open /\ buf # << >> /\ UNCHANGED << next_sequence, last_current_hash, pc, entry >>
            /\ lines' = lines \/ lines' = Append(lines, tail)
        BY <2>4 DEF Drain, Control, Draining, instance, locals
      <4>2. \A u \in Threads : pc[u] \notin Finishing
        BY <3>1, <4>1 DEF Unbroken, InStep, InFlight, Written, Quiet, Finishing, RecordHolding
      <4>3. HashOnFile(last_current_hash)'
        <5>1. HashOnFile(last_current_hash)
          BY <3>1 DEF Behind
        <5>2. CASE lines' = lines
          BY <4>1, <5>1, <5>2 DEF HashOnFile
        <5>3. CASE lines' = Append(lines, tail)
          <6>1. Len(lines') = Len(lines) + 1 /\ \A i \in 1..Len(lines) : lines'[i] = lines[i]
            BY <5>3, AppendProperties DEF TypeOK
          <6>2. 1..Len(lines) \subseteq 1..Len(lines')
            BY <6>1 DEF TypeOK
          <6> QED
            BY <4>1, <5>1, <6>1, <6>2 DEF HashOnFile
        <5> QED
          BY <4>1, <5>2, <5>3
      <4>4. Len(lines) <= Len(lines') /\ Len(lines) \in Nat /\ Len(lines') \in Nat
        BY <4>1, AppendProperties DEF TypeOK
      <4>5. next_sequence' <= Len(lines')
        BY <3>1, <4>1, <4>4 DEF Behind, TypeOK
      <4> QED
        BY <4>1, <4>2, <4>3, <4>5 DEF Behind
    <3>2. CASE ~(live /\ ~dirty /\ ~spoiled)
      BY <2>4, <3>2 DEF Drain, Behind, instance, history
    <3> QED
      BY <3>1, <3>2
  <2>5. CASE AdvanceSequence(t)
    <3>1. CASE ~live \/ dirty \/ spoiled
      BY <2>5, <3>1 DEF AdvanceSequence, Behind, history
    <3>2. CASE live /\ ~dirty /\ ~spoiled
      <4>1. EntryIsLast(t) /\ ChainedUnder(Key, lines)
        BY <2>5, <3>2 DEF AdvanceSequence, Behind, Finishing, Chained
      <4>2. next_sequence' = Len(lines) /\ Len(lines) <= Len(lines)
        BY <2>5, <4>1, LastSequence DEF AdvanceSequence, EntryIsLast, TypeOK
      <4>3. /\ UNCHANGED << lines, last_current_hash, entry >>
            /\ \A u \in Threads : pc'[u] \in Finishing => pc[u] \in Finishing
        BY <2>5, <1>a DEF AdvanceSequence, Finishing, file
      <4> QED
        BY <3>2, <4>2, <4>3 DEF Behind, HashOnFile, EntryIsLast
    <3> QED
      BY <3>1, <3>2
  <2>6. CASE AdvanceHash(t)
    <3>1. CASE ~live \/ dirty \/ spoiled
      BY <2>6, <3>1 DEF AdvanceHash, Behind
    <3>2. CASE live /\ ~dirty /\ ~spoiled
      <4>1. EntryIsLast(t)
        BY <2>6, <3>2 DEF AdvanceHash, Behind, Finishing
      <4>2. HashOnFile(last_current_hash')
        BY <2>6, <4>1, LastHashOnFile DEF AdvanceHash, EntryIsLast
      <4>3. /\ UNCHANGED << lines, next_sequence >>
            /\ \A u \in Threads : pc'[u] \in Finishing => pc[u] \in Finishing /\ entry'[u] = entry[u]
        BY <2>6, <1>a DEF AdvanceHash, Return, Finishing, file
      <4> QED
        BY <3>2, <4>2, <4>3 DEF Behind, HashOnFile, EntryIsLast
    <3> QED
      BY <3>1, <3>2
  <2> QED
    BY <1>3, <2>1, <2>2, <2>3, <2>4, <2>5, <2>6 DEF ThreadNext
<1>4. ASSUME NEW t \in Threads, NEW c \in Calls, NEW args \in Arguments,
             RecordRefused(t, c, args) \/ RecordStart(t, c, args)
      PROVE Behind'
  <2>1. UNCHANGED << lines, next_sequence, last_current_hash, live, dirty, spoiled, entry >>
    BY <1>4 DEF RecordRefused, RecordStart, file, instance, locals
  <2>2. \A u \in Threads : pc'[u] \in Finishing => pc[u] \in Finishing
    BY <1>4, <1>a DEF RecordRefused, RecordStart, locals, Finishing
  <2> QED
    BY <2>1, <2>2, StaysBehind
<1>5. ASSUME NEW t \in Threads, CloseStart(t) PROVE Behind'
  <2>1. UNCHANGED << lines, next_sequence, last_current_hash, live, dirty, spoiled, entry >>
    BY <1>5 DEF CloseStart, file, instance, history
  <2>2. \A u \in Threads : pc'[u] \in Finishing => pc[u] \in Finishing
    BY <1>5, <1>a DEF CloseStart, Finishing
  <2> QED
    BY <2>1, <2>2, StaysBehind
<1> QED
  BY <1>1, <1>2, <1>3, <1>4, <1>5 DEF Next

-----------------------------------------------------------------------------
(* Theorems *)

\* The lines of the file form one hash chain, for any threads, close() calls,
\* crashes, power losses, repairs and restarts, until an instance appends
\* again after a failed append.
THEOREM ChainAlwaysIntact == Spec => []ChainIntact
<1>1. ChainInv => ChainIntact
  BY DEF ChainInv, Chained, ChainIntact
<1> QED
  BY <1>1, ChainInit, ChainStep, PTL DEF Spec

\* Whenever the lock of an open, unbroken instance is free, next_sequence and
\* last_current_hash are those the file ends in, and no byte is in a buffer.
THEOREM MemoryAlwaysMatches == Spec => []MemoryMatchesDisk
<1>1. ChainInv => MemoryMatchesDisk
  BY DEF ChainInv, Unbroken, InStep, MemoryAgrees, Quiet, MemoryMatchesDisk
<1> QED
  BY <1>1, ChainInit, ChainStep, PTL DEF Spec

\* What the getters return without the lock is never ahead of the file, while
\* an append is under way and after close() too.
THEOREM GettersAlwaysBehind == Spec => []GettersBehindFile
<1>1. Behind => GettersBehindFile
  BY DEF Behind, HashOnFile, GettersBehindFile
<1> QED
  BY <1>1, ChainInit, ChainStep, BehindInit, BehindStep, PTL DEF Spec
=============================================================================
